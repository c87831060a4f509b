------------------------------ MODULE AllowGate ------------------------------
(***************************************************************************)
(* The gate in front of the proxy port.  An accepted SPA opens it for one  *)
(* source address: run_spa (src/ghostbro-server/src/ebpf.rs) writes the    *)
(* kernel's ALLOW_MAP and then a mirror of it in user space.  The XDP      *)
(* program (src/ghostbro-ebpf/src/main.rs) lets packets of allowed sources *)
(* pass and lazily removes expired entries, the reaper and the revocation  *)
(* purge of run_spa remove entries from both copies, and the proxy         *)
(* listener (src/ghostbro-server/src/noise.rs) admits connections by the   *)
(* mirror, one task per connection.  Kernel CPUs, run_spa and connection   *)
(* tasks interleave; only the mirror has a lock.                           *)
(*                                                                         *)
(* The checks of an SPA are SpaVerifier's; here an accept is possible for  *)
(* any listed full-tier key.  A round of run_spa's loop drains the queues  *)
(* of knocks and reloads and only then looks at the reaper's 60 s timer,   *)
(* which is abstracted: it may be due in any round that gets there.        *)
(***************************************************************************)
EXTENDS Naturals, FiniteSets

CONSTANTS
    Keys, Ips,      \* client key ids, source addresses
    Conns,          \* connection tasks of the proxy listener
    Cpus,           \* CPUs running the XDP program
    Limits,         \* values of max_concurrent_sessions, 0 for unlimited
    ClientFiles,    \* contents of authorized_keys.toml
    Ttl,            \* allow_ttl_seconds
    Capacity,       \* max_entries of ALLOW_MAP
    MaxTime,        \* bound of the monotonic clock
    None            \* model value: no entry, not listed, nothing in hand

Client == [full: BOOLEAN, limit: Limits]
Clients == [Keys -> Client \cup {None}]

AllowEntry == [key: Keys, expiry: Nat]
AllowedSource == [key: Keys, expiry: Nat, limit: Limits]
Grant == [ip: Ips, key: Keys, expiry: Nat, limit: Limits]

ASSUME TimeAssumption == Ttl \in Nat \ {0} /\ MaxTime \in Nat
ASSUME CapacityAssumption == Capacity \in Nat \ {0}
ASSUME LimitsAssumption == Limits \subseteq Nat
ASSUME ClientFilesAssumption == ClientFiles \subseteq Clients
ASSUME ConnsAssumption == IsFiniteSet(Conns)
ASSUME NoneAssumption == 
    /\ None \notin Client /\ None \notin Keys /\ None \notin Ips
    /\ None \notin AllowEntry /\ None \notin AllowedSource

VARIABLES
    now,            \* CLOCK_MONOTONIC, which bpf_ktime_get_ns reads too
    clients,        \* SpaVerifier.clients
    allowMap,       \* ALLOW_MAP
    mirror,         \* allowed_sources
    pc,             \* where run_spa is
    grant,          \* source and entry between the two writes of allow_source
    removed,        \* removed keys still to be purged
    todo,           \* addresses the running purge or reap has collected
    locked,         \* run_spa holds the mirror's write lock
    cpu,            \* per CPU: the address whose entry it found expired
    conn,           \* per connection task: its phase and its copy of the entry
    sessions        \* live sessions per key

vars == <<now, clients, allowMap, mirror, pc, grant, removed, todo, locked,
          cpu, conn, sessions>>

spaVars == <<pc, grant, removed, todo, locked>>
connVars == <<conn, sessions>>

Empty == [ip \in Ips |-> None]
Closed == [phase |-> "closed", ip |-> None, key |-> None, limit |-> 0]

Up == pc # "failed"

Expired(e) == e.expiry <= now
Live(ip) == allowMap[ip] # None /\ ~Expired(allowMap[ip])

(***************************************************************************)
(* run_spa: admit a source.                                                *)
(***************************************************************************)
(* ALLOW_MAP is an LRU hash: an insert into a full map evicts others.      *)
Occupied == {ip \in Ips : allowMap[ip] # None}

Evictions(ip) ==
    IF Cardinality(Occupied \cup {ip}) <= Capacity
    THEN {{}}
    ELSE SUBSET (Occupied \ {ip}) \ {{}}

(* allow_source, first half: the kernel's map.                             *)
AllowInKernel(ip, k) ==
    /\ pc = "idle"
    /\ clients[k] # None /\ clients[k].full
    /\ \E victims \in Evictions(ip) :
          allowMap' = [a \in Ips |->
              IF a = ip THEN [key |-> k, expiry |-> now + Ttl]
              ELSE IF a \in victims THEN None ELSE allowMap[a]]
    /\ grant' = [ip |-> ip, key |-> k, expiry |-> now + Ttl,
                 limit |-> clients[k].limit]
    /\ pc' = "mirror"
    /\ UNCHANGED <<now, clients, mirror, removed, todo, locked, cpu, connVars>>

MutAllowInMirror ==         \* mutant: the mirror gets the kernel's entry only
    /\ pc = "mirror"
    /\ mirror' = [mirror EXCEPT ![grant.ip] = [key |-> grant.key, expiry |-> grant.expiry]]
    /\ grant' = None
    /\ pc' = "idle"
    /\ UNCHANGED <<now, clients, allowMap, removed, todo, locked, cpu, connVars>>

(* allow_source, second half: the mirror.                                  *)
AllowInMirror ==
    /\ pc = "mirror"
    /\ mirror' = [mirror EXCEPT ![grant.ip] =
                    [key |-> grant.key, expiry |-> grant.expiry,
                     limit |-> grant.limit]]
    /\ grant' = None
    /\ pc' = "idle"
    /\ UNCHANGED <<now, clients, allowMap, removed, todo, locked, cpu, connVars>>

(***************************************************************************)
(* run_spa: hot reload and purge.                                          *)
(***************************************************************************)
MutReload(f) ==             \* mutant: the old key ids are read after the swap
    /\ pc = "idle"
    /\ clients' = f
    /\ removed' = {k \in Keys : f[k] # None /\ f[k] = None}
    /\ pc' = IF removed' = {} THEN "idle" ELSE "collect"
    /\ UNCHANGED <<now, allowMap, mirror, grant, todo, locked, cpu, connVars>>

(* reload_clients reports the keys that are gone; each is to be purged.    *)
Reload(f) ==
    /\ pc = "idle"
    /\ clients' = f
    /\ removed' = {k \in Keys : clients[k] # None /\ f[k] = None}
    /\ pc' = IF removed' = {} THEN "idle" ELSE "collect"
    /\ UNCHANGED <<now, allowMap, mirror, grant, todo, locked, cpu, connVars>>

MutCollectPurge(k) ==       \* mutant: the addresses come from the kernel's map
    /\ pc = "collect"
    /\ k \in removed
    /\ todo' = {ip \in Ips : allowMap[ip] # None /\ allowMap[ip].key = k}
    /\ removed' = removed \ {k}
    /\ pc' = IF todo' # {} THEN "purge"
             ELSE IF removed' # {} THEN "collect" ELSE "idle"
    /\ UNCHANGED <<now, clients, allowMap, mirror, grant, locked, cpu, connVars>>

(* purge_key_id collects its addresses under the read lock, lets it go ... *)
CollectPurge(k) ==
    /\ pc = "collect"
    /\ k \in removed
    /\ todo' = {ip \in Ips : mirror[ip] # None /\ mirror[ip].key = k}
    /\ removed' = removed \ {k}
    /\ pc' = IF todo' # {} THEN "purge"
             ELSE IF removed' # {} THEN "collect" ELSE "idle"
    /\ UNCHANGED <<now, clients, allowMap, mirror, grant, locked, cpu, connVars>>

(* Both queues of knocks and the channel of reload events are found empty: *)
(* the round gets to the reap timer ...                                    *)
DrainEnds ==
    /\ pc = "idle"
    /\ pc' = "timer"
    /\ UNCHANGED <<now, clients, allowMap, mirror, grant, removed, todo, locked,
                   cpu, connVars>>

(* ... which is not due, or is and nothing has expired.                    *)
NothingToReap ==
    /\ pc = "timer"
    /\ pc' = "idle"
    /\ UNCHANGED <<now, clients, allowMap, mirror, grant, removed, todo, locked,
                   cpu, connVars>>

MutCollectExpired ==        \* mutant: the kernel's map is searched instead
    /\ pc = "timer"
    /\ todo' = {ip \in Ips : allowMap[ip] # None /\ Expired(allowMap[ip])}
    /\ todo' # {}
    /\ pc' = "reap"
    /\ UNCHANGED <<now, clients, allowMap, mirror, grant, removed, locked, cpu, connVars>>

(* reap_expired_sources collects the expired entries like a purge does.    *)
CollectExpired ==
    /\ pc = "timer"
    /\ todo' = {ip \in Ips : mirror[ip] # None /\ Expired(mirror[ip])}
    /\ todo' # {}
    /\ pc' = "reap"
    /\ UNCHANGED <<now, clients, allowMap, mirror, grant, removed, locked, cpu, connVars>>

MutRemoveCollected(ip) ==   \* mutant: only the mirror is cleaned
    /\ pc \in {"purge", "reap"}
    /\ ip \in todo
    /\ allowMap[ip] # None
    /\ mirror' = [mirror EXCEPT ![ip] = None]
    /\ todo' = todo \ {ip}
    /\ locked' = (todo' # {})
    /\ pc' = IF todo' # {} THEN pc
             ELSE IF pc = "purge" /\ removed # {} THEN "collect" ELSE "idle"
    /\ UNCHANGED <<now, clients, allowMap, grant, removed, cpu, connVars>>

(* ... and removes them one by one under the write lock, which the first   *)
(* removal takes and the last one releases.                                *)
RemoveCollected(ip) ==
    /\ pc \in {"purge", "reap"}
    /\ ip \in todo
    /\ allowMap[ip] # None
    /\ allowMap' = [allowMap EXCEPT ![ip] = None]
    /\ mirror' = [mirror EXCEPT ![ip] = None]
    /\ todo' = todo \ {ip}
    /\ locked' = (todo' # {})
    /\ pc' = IF todo' # {} THEN pc
             ELSE IF pc = "purge" /\ removed # {} THEN "collect" ELSE "idle"
    /\ UNCHANGED <<now, clients, grant, removed, cpu, connVars>>

(* Removing a key that is not in the map is an error in aya; run_spa       *)
(* returns it and the whole daemon ends: the XDP program is detached, maps *)
(* and connections are gone.                                               *)
RemoveMissing(ip) ==
    /\ pc \in {"purge", "reap"}
    /\ ip \in todo
    /\ allowMap[ip] = None
    /\ pc' = "failed"
    /\ allowMap' = Empty
    /\ mirror' = Empty
    /\ grant' = None
    /\ removed' = {}
    /\ todo' = {}
    /\ locked' = FALSE
    /\ cpu' = [c \in Cpus |-> None]
    /\ conn' = [n \in Conns |-> Closed]
    /\ sessions' = [k \in Keys |-> 0]
    /\ UNCHANGED <<now, clients>>

(* systemd starts it again with whatever authorized_keys.toml now holds.   *)
Restart(f) ==
    /\ pc = "failed"
    /\ pc' = "idle"
    /\ clients' = f
    /\ UNCHANGED <<now, allowMap, mirror, grant, removed, todo, locked, cpu, connVars>>

(***************************************************************************)
(* XDP: is_allowed looks an entry up and, if it has expired, removes       *)
(* whatever the map holds for that address by then.                        *)
(***************************************************************************)
XdpFindsExpired(c, ip) ==
    /\ Up
    /\ cpu[c] = None
    /\ allowMap[ip] # None /\ Expired(allowMap[ip])
    /\ cpu' = [cpu EXCEPT ![c] = ip]
    /\ UNCHANGED <<now, clients, allowMap, mirror, spaVars, connVars>>

XdpRemoves(c) ==
    /\ cpu[c] # None
    /\ allowMap' = [allowMap EXCEPT ![cpu[c]] = None]
    /\ cpu' = [cpu EXCEPT ![c] = None]
    /\ UNCHANGED <<now, clients, mirror, spaVars, connVars>>

(***************************************************************************)
(* The proxy listener.                                                     *)
(***************************************************************************)
(* A TCP connection needs packets that pass is_allowed.                    *)
Connect(n, ip) ==
    /\ Up
    /\ conn[n].phase = "closed"
    /\ Live(ip)
    /\ conn' = [conn EXCEPT ![n] =
                    [phase |-> "accepted", ip |-> ip, key |-> None, limit |-> 0]]
    /\ UNCHANGED <<now, clients, allowMap, mirror, spaVars, cpu, sessions>>

(* handle_connection copies the mirror's entry under the write lock.       *)
Snapshot(n) ==
    /\ conn[n].phase = "accepted"
    /\ ~locked
    /\ LET ip == conn[n].ip
           source == mirror[ip]
       IN  \/ /\ source = None
              /\ conn' = [conn EXCEPT ![n] = Closed]
              /\ UNCHANGED mirror
           \/ /\ source # None /\ Expired(source)
              /\ mirror' = [mirror EXCEPT ![ip] = None]
              /\ conn' = [conn EXCEPT ![n] = Closed]
           \/ /\ source # None /\ ~Expired(source)
              /\ conn' = [conn EXCEPT ![n] =
                            [phase |-> "handshake", ip |-> ip,
                             key |-> source.key, limit |-> source.limit]]
              /\ UNCHANGED mirror
    /\ UNCHANGED <<now, clients, allowMap, spaVars, cpu, sessions>>

MutSlotFree(k, limit) ==    \* mutant: one session too many
    limit = 0 \/ sessions[k] <= limit

(* acquire_session: under the limit the copy carries, or unlimited.        *)
SlotFree(k, limit) == limit = 0 \/ sessions[k] < limit

(* The client's last handshake message comes in: like the SYN it passes    *)
(* is_allowed, whoever's entry now opens the address.  The address plays   *)
(* no part after this.                                                     *)
HandshakePacket(n) ==
    /\ conn[n].phase = "handshake"
    /\ Live(conn[n].ip)
    /\ conn' = [conn EXCEPT ![n] =
                    [phase |-> "answered", ip |-> None,
                     key |-> conn[n].key, limit |-> conn[n].limit]]
    /\ UNCHANGED <<now, clients, allowMap, mirror, spaVars, cpu, sessions>>

(* The task reads it: Noise XK is finished, the static key is the one of   *)
(* the copied entry, and the session takes a slot.  Neither the mirror nor *)
(* the roster is looked at again.                                          *)
Establish(n) ==
    /\ conn[n].phase = "answered"
    /\ SlotFree(conn[n].key, conn[n].limit)
    /\ sessions' = [sessions EXCEPT ![conn[n].key] = @ + 1]
    /\ conn' = [conn EXCEPT ![n].phase = "session"]
    /\ UNCHANGED <<now, clients, allowMap, mirror, spaVars, cpu>>

(* The handshake fails, the client is at its limit, or the peer is gone.   *)
(* The server sets no timeout of its own.                                  *)
AbandonHandshake(n) ==
    /\ conn[n].phase \in {"handshake", "answered"}
    /\ conn' = [conn EXCEPT ![n] = Closed]
    /\ UNCHANGED <<now, clients, allowMap, mirror, spaVars, cpu, sessions>>

MutEndSession(n) ==         \* mutant: the slot is not given back
    /\ conn[n].phase = "session"
    /\ conn' = [conn EXCEPT ![n] = Closed]
    /\ UNCHANGED <<now, clients, allowMap, mirror, spaVars, cpu, sessions>>

(* SessionSlot::drop gives the slot back.                                  *)
EndSession(n) ==
    /\ conn[n].phase = "session"
    /\ sessions' = [sessions EXCEPT ![conn[n].key] = IF @ > 0 THEN @ - 1 ELSE 0]
    /\ conn' = [conn EXCEPT ![n] = Closed]
    /\ UNCHANGED <<now, clients, allowMap, mirror, spaVars, cpu>>

Tick ==
    /\ now < MaxTime
    /\ now' = now + 1
    /\ UNCHANGED <<clients, allowMap, mirror, spaVars, cpu, connVars>>

(***************************************************************************)
(* Specification.                                                          *)
(***************************************************************************)
Init ==
    /\ now = 0
    /\ clients \in ClientFiles
    /\ allowMap = Empty
    /\ mirror = Empty
    /\ pc = "idle"
    /\ grant = None
    /\ removed = {}
    /\ todo = {}
    /\ locked = FALSE
    /\ cpu = [c \in Cpus |-> None]
    /\ conn = [n \in Conns |-> Closed]
    /\ sessions = [k \in Keys |-> 0]

Purge == \E k \in Keys : CollectPurge(k)
Remove == \E ip \in Ips : RemoveCollected(ip) \/ RemoveMissing(ip)

Spa ==
    \/ \E ip \in Ips, k \in Keys : AllowInKernel(ip, k)
    \/ AllowInMirror
    \/ \E f \in ClientFiles : Reload(f)
    \/ Purge
    \/ DrainEnds
    \/ NothingToReap
    \/ CollectExpired
    \/ Remove
    \/ \E f \in ClientFiles : Restart(f)

Xdp ==
    \E c \in Cpus :
        \/ \E ip \in Ips : XdpFindsExpired(c, ip)
        \/ XdpRemoves(c)

Proxy ==
    \E n \in Conns :
        \/ \E ip \in Ips : Connect(n, ip)
        \/ Snapshot(n)
        \/ HandshakePacket(n)
        \/ Establish(n)
        \/ AbandonHandshake(n)
        \/ EndSession(n)

Next == Spa \/ Xdp \/ Proxy \/ Tick

Spec == Init /\ [][Next]_vars

(* run_spa is one task of a running executor and finishes a routine it has *)
(* begun.  Nothing is assumed about the draining of the queues: a round    *)
(* need never get to the timer.  Of the rounds that do, some find the 60 s *)
(* over, because the clock runs on: hence strong fairness of the reaper.   *)
Fairness ==
    /\ WF_vars(AllowInMirror)
    /\ WF_vars(Purge)
    /\ WF_vars(Remove)
    /\ SF_vars(CollectExpired)

FairSpec == Spec /\ Fairness

(***************************************************************************)
(* Properties.                                                             *)
(***************************************************************************)
ConnState ==
    [phase: {"closed", "accepted", "handshake", "answered", "session"},
     ip: Ips \cup {None}, key: Keys \cup {None}, limit: Limits \cup {0}]

\* Every variable keeps the type the code gives it.
TypeOK ==
    /\ now \in Nat
    /\ clients \in Clients
    /\ allowMap \in [Ips -> AllowEntry \cup {None}]
    /\ mirror \in [Ips -> AllowedSource \cup {None}]
    /\ pc \in {"idle", "mirror", "collect", "purge", "timer", "reap", "failed"}
    /\ grant \in Grant \cup {None}
    /\ pc = "mirror" => grant \in Grant
    /\ removed \subseteq Keys
    /\ todo \subseteq Ips
    /\ locked \in BOOLEAN
    /\ cpu \in [Cpus -> Ips \cup {None}]
    /\ conn \in [Conns -> ConnState]
    /\ \A n \in Conns :
          /\ conn[n].phase \in {"accepted", "handshake"} => conn[n].ip \in Ips
          /\ conn[n].phase \in {"handshake", "answered", "session"} =>
                conn[n].key \in Keys
    /\ sessions \in [Keys -> Nat]

Granting(ip) == pc = "mirror" /\ grant.ip = ip

\* XDP never lets a source through that the proxy, the reaper and the purge do
\* not know: outside the two writes of allow_source, every unexpired entry of
\* ALLOW_MAP is in the mirror with the same key and expiry.
LiveEntryIsMirrored ==
    \A ip \in Ips :
        Live(ip) /\ ~Granting(ip) =>
            /\ mirror[ip] # None
            /\ mirror[ip].key = allowMap[ip].key
            /\ mirror[ip].expiry = allowMap[ip].expiry

\* PRD 6.2: removing a key purges its entries.  Whenever run_spa is not in the
\* middle of a purge, no unexpired entry of ALLOW_MAP and no entry of the mirror
\* belongs to a key that is not listed.
RevokedKeysHaveNoEntry ==
    pc \in {"idle", "mirror", "timer"} =>
        \A ip \in Ips :
            /\ Live(ip) => clients[allowMap[ip].key] # None
            /\ mirror[ip] # None => clients[mirror[ip].key] # None

SessionsOf(k) == {n \in Conns : conn[n].phase = "session" /\ conn[n].key = k}

\* The slot count of a key is the number of its live sessions: no path through
\* handle_connection leaks a slot or gives one back twice.
SlotsMatchSessions ==
    \A k \in Keys : sessions[k] = Cardinality(SessionsOf(k))

\* max_concurrent_sessions: when a session starts, the live sessions of its key,
\* the new one included, are no more than the limit it is admitted under, the one
\* its task copied from the mirror.  Sessions older than a change of the limit
\* count like any other.
SessionLimitHolds ==
    [][\A n \in Conns :
          conn[n].phase # "session" /\ conn'[n].phase = "session" =>
              \/ conn'[n].limit = 0
              \/ (Cardinality(SessionsOf(conn[n].key)) <= conn[n].limit)']_vars

(* What run_spa still has to remove of a key.                              *)
PurgeUnderWay(k) ==
    \/ k \in removed
    \/ pc = "purge" /\ \E ip \in todo : mirror[ip] # None /\ mirror[ip].key = k

\* A key that was removed from authorized_keys.toml and whose own purge is over
\* gets no further through handle_connection from outside: no task copies an
\* entry of it, and a task that holds a stale copy does not receive the last
\* handshake message any more, unless the address is open for another key.  All
\* that may follow is the task's own step on a message that is already in.
RevokedKeyIsShutOut ==
    [][\A n \in Conns :
          LET k == conn'[n].key
              ip == conn[n].ip
              gone == clients[k] = None /\ ~PurgeUnderWay(k)
          IN  /\ conn[n].phase = "accepted" /\ conn'[n].phase = "handshake" => ~gone
              /\ conn[n].phase = "handshake" /\ conn'[n].phase = "answered" =>
                    ~gone \/ (Live(ip) /\ allowMap[ip].key # k)]_vars

\* Expired entries do not pile up: while the daemon stays up and the loop gets to
\* its timer again and again, the reaper, a connection or a new SPA of the same
\* source removes or replaces every expired entry of the mirror.  Without the two
\* hypotheses it is false: see RunSpaNeverFails, and a stream of knocks that never
\* lets the drain loops end.
ExpiredEntriesGo ==
    []Up /\ []<>(pc = "timer") =>
        \A ip \in Ips :
            (mirror[ip] # None /\ Expired(mirror[ip])) ~>
                (mirror[ip] = None \/ ~Expired(mirror[ip]))

\* PRD 4.7 (dual strategy): lazy reaping in XDP and the periodic clean-up work
\* side by side, so neither makes run_spa fail.
RunSpaNeverFails == pc # "failed"
==============================================================================
