------------------------------ MODULE SpaClient ------------------------------
(***************************************************************************)
(* The client (src/ghostbro-client/src/main.rs): the threads of a local    *)
(* SOCKS5 listener that knock and connect with failover, the refresh       *)
(* thread that keeps the servers' allow entries alive, and one-shot        *)
(* commands of the same identity on the same device.  The threads share a  *)
(* mutex; processes share only the counter file.                           *)
(*                                                                         *)
(* A server is what the client relies on: if it is up, it accepts a        *)
(* counter above its high-water mark and then admits the client for Ttl,   *)
(* unless the knock is lost on the way or comes too late, which the client *)
(* is not told.  Time passes in ticks, and only when no thread can act     *)
(* without taking time.  Nothing bounds what a thread does with            *)
(* counter_lock in hand: latency probes, an HTTPS knock, connecting and    *)
(* the handshake (no timeout) may each last as long as they like, or hang. *)
(***************************************************************************)
EXTENDS Naturals, Sequences, FiniteSetsExt

CONSTANTS
    Servers,        \* the configured candidates
    Reachable,      \* the candidates that are up
    Orders,         \* the orders order_candidates may put them in
    Conns,          \* local connections, one listener thread each
    Commands,       \* one-shot commands run beside the listener
    MsPerTick,      \* clock readings (ms) to one tick of now
    Ttl,            \* allow_ttl_seconds, the same for client and servers
    MaxRetries,     \* failover.max_retries
    RetryInterval,  \* failover.retry_interval_ms
    MaxTime,        \* bound on the clock
    None, Refresher \* model values: nobody; the refresh thread

\* Every strategy of order_candidates permutes the indices of the candidates.
ASSUME OrdersAssumption ==
    /\ Orders # {}
    /\ \A o \in Orders :
        /\ o \in Seq(Servers) /\ o # <<>>
        /\ \A s \in Servers : \E i \in 1..Len(o) : o[i] = s
        /\ \A i, j \in 1..Len(o) : o[i] = o[j] => i = j
ASSUME ReachableAssumption == Reachable \subseteq Servers
ASSUME TimesAssumption ==
    /\ Ttl \in Nat /\ Ttl >= 2
    /\ MaxRetries \in Nat /\ RetryInterval \in Nat
    /\ MaxTime \in Nat /\ MsPerTick \in Nat
ASSUME NamesAssumption ==
    /\ None \notin Servers \cup Conns \cup Commands \cup {Refresher}
    /\ Refresher \notin Conns \cup Commands
    /\ Conns \cap Commands = {}

Actors == Conns \cup Commands \cup {Refresher}

VARIABLES
    now,            \* true time
    file,           \* the counter file, 0 when there is none: the counter last sent
    lock,           \* holder of counter_lock
    active,         \* active_candidate
    knock,          \* per actor: counter read, clock reading and target of its knock
    pc,             \* per actor: where it is
    todo,           \* per listener thread: candidates left in this round
    round,          \* per listener thread: rounds begun
    tried,          \* per listener thread: attempts per server (history)
    due,            \* per actor: when its sleep ends
    high,           \* per server: highest counter accepted
    allowUntil,     \* per server: end of the client's allow entry
    held,           \* per server: time counter_lock was held (history) and
    missed          \* threads' knocks in vain (history) since it last accepted one

vars == <<now, file, lock, active, knock, pc, todo, round, tried, due, high,
          allowUntil, held, missed>>

serverVars == <<high, allowUntil>>
historyVars == <<held, missed>>
sentVars == <<serverVars, historyVars>>
failoverVars == <<todo, round, tried>>
knockVars == <<file, knock, sentVars>>

\* refresh_interval; the guard Ttl >= 2 is an assumption.
MutInterval == Ttl          \* mutant: one refresh per lifetime instead of two
Interval == Ttl \div 2

(***************************************************************************)
(* send_spa: read the clock and the counter file, write the file, send.    *)
(* Reading and writing the file are separate steps.                        *)
(***************************************************************************)
NoKnock == [server |-> None, stored |-> 0, floor |-> 0]

ReadCounter(a, s) ==
    knock' = [knock EXCEPT ![a] = [server |-> s, stored |-> file,
                                   floor |-> now * MsPerTick]]

\* The knock is over: of its locals only the target counts from here on.
Forget(a) == knock' = [knock EXCEPT ![a] = [NoKnock EXCEPT !.server = knock[a].server]]

MutNextCounter(a) == Max({knock[a].stored, knock[a].floor})  \* mutant: no + 1
NextCounter(a) == Max({knock[a].stored + 1, knock[a].floor})

SendKnock(a) ==
    LET n == NextCounter(a)
        s == knock[a].server IN
    \E delivered \in BOOLEAN :
    LET accepted == delivered /\ s \in Reachable /\ n > high[s] IN
    /\ file' = n
    /\ high' = [high EXCEPT ![s] = IF accepted THEN n ELSE @]
    /\ allowUntil' = [allowUntil EXCEPT ![s] = IF accepted THEN now + Ttl ELSE @]
    /\ held' = [q \in Reachable |-> IF q = s /\ accepted THEN 0 ELSE held[q]]
    /\ missed' = [q \in Reachable |->
                    IF q = s /\ accepted THEN 0
                    ELSE IF q = s /\ a \notin Commands THEN missed[q] + 1
                    ELSE missed[q]]
    /\ Forget(a)

(***************************************************************************)
(* A listener thread: negotiate_local_socks5_tunnel takes the counter lock *)
(* for the whole of connect_noise_with_failover.  Probing latencies to     *)
(* order the candidates is time spent before an attempt.                   *)
(***************************************************************************)
BeginConnect(c, order) ==
    /\ pc[c] = "new"
    /\ lock = None
    /\ lock' = c
    /\ pc' = [pc EXCEPT ![c] = "attempt"]
    /\ todo' = [todo EXCEPT ![c] = order]
    /\ round' = [round EXCEPT ![c] = 1]
    /\ UNCHANGED <<now, active, tried, due, knockVars>>

Attempt(c) ==
    /\ pc[c] = "attempt"
    /\ ReadCounter(c, Head(todo[c]))
    /\ tried' = [tried EXCEPT ![c][Head(todo[c])] = @ + 1]
    /\ pc' = [pc EXCEPT ![c] = "knock"]
    /\ UNCHANGED <<now, file, lock, active, todo, round, due, sentVars>>

Knock(c) ==
    /\ pc[c] = "knock"
    /\ SendKnock(c)
    /\ pc' = [pc EXCEPT ![c] = "connect"]
    /\ UNCHANGED <<now, lock, active, due, failoverVars>>

\* The handshake ended well, which takes an allow entry; the lock is dropped.
Connected(c) ==
    /\ pc[c] = "connect"
    /\ allowUntil[knock[c].server] > now
    /\ pc' = [pc EXCEPT ![c] = "connected"]
    /\ lock' = None
    /\ UNCHANGED <<now, active, due, failoverVars, knockVars>>

SetActive(c) ==
    /\ pc[c] = "connected"
    /\ active' = knock[c].server
    /\ pc' = [pc EXCEPT ![c] = "open"]
    /\ UNCHANGED <<now, lock, due, failoverVars, knockVars>>

MutRounds == MaxRetries     \* mutant: the first round is not counted apart
Rounds == MaxRetries + 1

\* An error of send_spa or of the connection: the next candidate, the wait
\* before another round, or the end.  (send_spa may also fail with the counter
\* written and the knock sent: that is Knock followed by this.)
AttemptFails(c) ==
    /\ pc[c] \in {"knock", "connect"}
    /\ todo' = [todo EXCEPT ![c] = Tail(@)]
    /\ IF Len(todo[c]) > 1
       THEN pc' = [pc EXCEPT ![c] = "attempt"] /\ UNCHANGED <<lock, due>>
       ELSE IF round[c] < Rounds
       THEN /\ pc' = [pc EXCEPT ![c] = "retry"]
            /\ due' = [due EXCEPT ![c] = now + RetryInterval]
            /\ UNCHANGED lock
       ELSE /\ pc' = [pc EXCEPT ![c] = "failed"]
            /\ lock' = None
            /\ UNCHANGED due
    /\ Forget(c)
    /\ UNCHANGED <<now, file, active, round, tried, sentVars>>

NextRound(c, order) ==
    /\ pc[c] = "retry"
    /\ now >= due[c]
    /\ todo' = [todo EXCEPT ![c] = order]
    /\ round' = [round EXCEPT ![c] = @ + 1]
    /\ pc' = [pc EXCEPT ![c] = "attempt"]
    /\ due' = [due EXCEPT ![c] = 0]
    /\ UNCHANGED <<now, lock, active, tried, knockVars>>

\* relay_local_socks5 returned; active_candidate keeps its value.
CloseTunnel(c) ==
    /\ pc[c] = "open"
    /\ pc' = [pc EXCEPT ![c] = "closed"]
    /\ UNCHANGED <<now, lock, active, due, failoverVars, knockVars>>

(***************************************************************************)
(* start_spa_refresh: one knock to the active candidate every Interval.    *)
(***************************************************************************)
Sleep == due' = [due EXCEPT ![Refresher] = now + Interval]

Wake ==
    /\ pc[Refresher] = "sleep"
    /\ now >= due[Refresher]
    /\ IF active = None
       THEN Sleep /\ UNCHANGED <<pc, knock>>
       ELSE /\ pc' = [pc EXCEPT ![Refresher] = "lock"]
            /\ knock' = [knock EXCEPT ![Refresher].server = active]
            /\ UNCHANGED due
    /\ UNCHANGED <<now, file, lock, active, failoverVars, sentVars>>

MutRefreshLock ==           \* mutant: the refresh thread does not wait for the lock
    /\ pc[Refresher] = "lock"
    /\ ReadCounter(Refresher, knock[Refresher].server)
    /\ pc' = [pc EXCEPT ![Refresher] = "knock"]
    /\ UNCHANGED <<now, file, lock, active, due, failoverVars, sentVars>>

RefreshLock ==
    /\ pc[Refresher] = "lock"
    /\ lock = None
    /\ lock' = Refresher
    /\ ReadCounter(Refresher, knock[Refresher].server)
    /\ pc' = [pc EXCEPT ![Refresher] = "knock"]
    /\ UNCHANGED <<now, file, active, due, failoverVars, sentVars>>

RefreshKnock ==
    /\ pc[Refresher] = "knock"
    /\ SendKnock(Refresher)
    /\ pc' = [pc EXCEPT ![Refresher] = "sent"]
    /\ UNCHANGED <<now, lock, active, due, failoverVars>>

\* send_spa failed with nothing sent: reported, and not repeated.
RefreshFails ==
    /\ pc[Refresher] = "knock"
    /\ missed' = [q \in Reachable |->
                    IF q = knock[Refresher].server THEN missed[q] + 1 ELSE missed[q]]
    /\ pc' = [pc EXCEPT ![Refresher] = "sent"]
    /\ Forget(Refresher)
    /\ UNCHANGED <<now, file, lock, active, due, failoverVars, serverVars, held>>

\* send_spa has returned; the lock is dropped before the sleep.
RefreshReturns ==
    /\ pc[Refresher] = "sent"
    /\ lock' = None
    /\ Sleep
    /\ pc' = [pc EXCEPT ![Refresher] = "sleep"]
    /\ UNCHANGED <<now, active, failoverVars, knockVars>>

(***************************************************************************)
(* A one-shot command (relay-list, connect-once, send-udp-spa ...) knocks  *)
(* once at one server; what it does after that touches no shared state.    *)
(***************************************************************************)
CommandReads(m, s) ==
    /\ pc[m] = "new"
    /\ ReadCounter(m, s)
    /\ pc' = [pc EXCEPT ![m] = "knock"]
    /\ UNCHANGED <<now, file, lock, active, due, failoverVars, sentVars>>

CommandKnocks(m) ==
    /\ pc[m] = "knock"
    /\ SendKnock(m)
    /\ pc' = [pc EXCEPT ![m] = "closed"]
    /\ UNCHANGED <<now, lock, active, due, failoverVars>>

\* send_spa failed with nothing sent.
CommandFails(m) ==
    /\ pc[m] = "knock"
    /\ pc' = [pc EXCEPT ![m] = "closed"]
    /\ Forget(m)
    /\ UNCHANGED <<now, file, lock, active, due, failoverVars, sentVars>>

(***************************************************************************)
(* Time.                                                                   *)
(***************************************************************************)
\* A thread waits for its next connection, for the end of a sleep, for the lock,
\* or, holding the lock, for the network; a command is a process of its own.
Waiting(a) ==
    \/ a \in Commands
    \/ pc[a] \in {"new", "open", "closed", "failed"}
    \/ pc[a] \in {"retry", "sleep"} /\ now < due[a]
    \/ pc[a] = "lock" /\ lock # None
    \/ lock = a /\ pc[a] # "retry"

Tick ==
    /\ now < MaxTime
    /\ \A a \in Actors : Waiting(a)
    /\ now' = now + 1
    /\ held' = [s \in Reachable |-> IF lock # None THEN held[s] + 1 ELSE held[s]]
    /\ UNCHANGED <<file, lock, active, knock, pc, due, failoverVars, serverVars, missed>>

(***************************************************************************)
(* The specification.                                                      *)
(***************************************************************************)
Init ==
    /\ now = 0
    /\ file = 0
    /\ lock = None
    /\ active = None
    /\ knock = [a \in Actors |-> NoKnock]
    /\ pc = [a \in Actors |-> IF a = Refresher THEN "sleep" ELSE "new"]
    /\ todo = [c \in Conns |-> <<>>]
    /\ round = [c \in Conns |-> 0]
    /\ tried = [c \in Conns |-> [s \in Servers |-> 0]]
    /\ due = [a \in Actors |-> 0]
    /\ high = [s \in Servers |-> 0]
    /\ allowUntil = [s \in Servers |-> 0]
    /\ held = [s \in Reachable |-> 0]
    /\ missed = [s \in Reachable |-> 0]

Connection(c) ==
    \/ \E o \in Orders : BeginConnect(c, o) \/ NextRound(c, o)
    \/ Attempt(c) \/ Knock(c) \/ Connected(c) \/ SetActive(c)
    \/ AttemptFails(c) \/ CloseTunnel(c)

Refresh == Wake \/ RefreshLock \/ RefreshKnock \/ RefreshFails \/ RefreshReturns

Command(m) ==
    \/ \E s \in Servers : CommandReads(m, s)
    \/ CommandKnocks(m) \/ CommandFails(m)

Next ==
    \/ \E c \in Conns : Connection(c)
    \/ Refresh
    \/ \E m \in Commands : Command(m)
    \/ Tick

Spec == Init /\ [][Next]_vars

(***************************************************************************)
(* Properties.                                                             *)
(***************************************************************************)

(* Types, and that the lock is held exactly by a thread inside             *)
(* connect_noise_with_failover or a refresh (main.rs).                     *)
TypeOK ==
    /\ now \in Nat
    /\ file \in Nat
    /\ lock \in Conns \cup {Refresher, None}
    /\ active \in Servers \cup {None}
    /\ knock \in [Actors -> [server: Servers \cup {None}, stored: Nat, floor: Nat]]
    /\ pc \in [Actors -> {"new", "attempt", "knock", "connect", "connected", "open",
                         "retry", "failed", "closed", "sleep", "lock", "sent"}]
    /\ todo \in [Conns -> Seq(Servers)]
    /\ round \in [Conns -> 0..(MaxRetries + 1)]
    /\ tried \in [Conns -> [Servers -> Nat]]
    /\ due \in [Actors -> Nat]
    /\ high \in [Servers -> Nat]
    /\ allowUntil \in [Servers -> Nat]
    /\ held \in [Reachable -> Nat]
    /\ missed \in [Reachable -> Nat]
    /\ \A c \in Conns : pc[c] \in {"attempt", "knock", "connect", "retry"} <=> lock = c
    /\ pc[Refresher] \in {"knock", "sent"} <=> lock = Refresher

(* next_counter: as long as no one-shot command shares the counter file,    *)
(* the counters a client sends strictly increase, whichever threads send    *)
(* them, so no server sees one twice.                                       *)
IssuedCountersIncrease ==
    [][(\A m \in Commands : pc'[m] = "new")
          /\ (\E a \in Actors : pc[a] = "knock" /\ SendKnock(a))
          => file' > file]_vars

(* start_spa_refresh knocks every half Ttl, and only waiting for           *)
(* counter_lock and knocks in vain keep it from that: while a tunnel is     *)
(* open, its server's last accepted knock is no older than half a Ttl and   *)
(* the time the lock was held since; with knocks missed meanwhile, the      *)
(* entry has been over for no longer than half a Ttl for each and that time.*)
TunnelStaysAllowed ==
    \A c \in Conns :
        pc[c] = "open" =>
            LET s == knock[c].server
                half == Ttl \div 2
            IN  /\ missed[s] = 0 => now + Ttl <= allowUntil[s] + half + held[s]
                /\ now <= allowUntil[s] + missed[s] * half + held[s]

(* connect_noise_with_failover: a connection fails only after every         *)
(* candidate was tried in the first round and in each of max_retries more,  *)
(* and never tries one more often.                                          *)
GivesUpLast ==
    \A c \in Conns, s \in Servers :
        /\ tried[c][s] <= MaxRetries + 1
        /\ pc[c] = "failed" => tried[c][s] = MaxRetries + 1
==============================================================================
