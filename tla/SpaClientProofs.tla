---------------------------- MODULE SpaClientProofs ----------------------------
(***************************************************************************)
(* Proofs about SpaClient, for any number of servers, connections and      *)
(* commands and any times: types and the ownership of counter_lock, the    *)
(* order of the counters, what failover does before it gives up and, for   *)
(* one reachable server, how long an open tunnel can be without an entry.  *)
(***************************************************************************)
EXTENDS SpaClient, FiniteSetTheorems, TLAPS

States == {"new", "attempt", "knock", "connect", "connected", "open",
           "retry", "failed", "closed", "sleep", "lock", "sent"}
Holding == {"attempt", "knock", "connect", "retry"}
Request == [server: Servers \cup {None}, stored: Nat, floor: Nat]

(* The two parts of TypeOK.                                                *)
DataOK ==
    /\ now \in Nat /\ file \in Nat
    /\ lock \in Conns \cup {Refresher, None}
    /\ active \in Servers \cup {None}
    /\ knock \in [Actors -> Request]
    /\ pc \in [Actors -> States]
    /\ todo \in [Conns -> Seq(Servers)]
    /\ round \in [Conns -> 0..(MaxRetries + 1)]
    /\ tried \in [Conns -> [Servers -> Nat]]
    /\ due \in [Actors -> Nat]
    /\ high \in [Servers -> Nat]
    /\ allowUntil \in [Servers -> Nat]
    /\ held \in [Reachable -> Nat]
    /\ missed \in [Reachable -> Nat]

LockFits ==
    /\ \A c \in Conns : pc[c] \in Holding <=> lock = c
    /\ pc[Refresher] \in {"knock", "sent"} <=> lock = Refresher

(* Whoever is about to knock or has knocked knows its server; a thread     *)
(* inside a round has candidates left, the first of which is its target.   *)
Targeted ==
    \A a \in Actors : pc[a] \in {"knock", "connect", "connected", "open", "lock", "sent"}
                        => knock[a].server \in Servers

ConnFits(c) ==
    /\ pc[c] \notin {"sleep", "lock", "sent"}
    /\ pc[c] \in {"attempt", "knock", "connect"} => todo[c] # <<>> /\ round[c] >= 1
    /\ pc[c] \in {"knock", "connect"} => knock[c].server = Head(todo[c])
    /\ pc[c] = "retry" => round[c] >= 1 /\ round[c] <= MaxRetries

ClientInv ==
    /\ DataOK
    /\ LockFits
    /\ Targeted
    /\ \A c \in Conns : ConnFits(c)
    /\ pc[Refresher] \in {"sleep", "lock", "knock", "sent"}
    /\ \A m \in Commands : pc[m] \in {"new", "knock", "closed"}

LEMMA TypeParts == TypeOK <=> DataOK /\ LockFits
BY DEF TypeOK, DataOK, LockFits, Holding, States, Request

LEMMA Names ==
    /\ Refresher \in Actors /\ Refresher \notin Conns /\ Refresher \notin Commands
    /\ Refresher # None /\ None \notin Servers
    /\ \A c \in Conns : c \in Actors /\ c \notin Commands /\ c # Refresher /\ c # None
    /\ \A m \in Commands : m \in Actors /\ m \notin Conns /\ m # Refresher
BY NamesAssumption DEF Actors

------------------------------------------------------------------------------
(* The operators.                                                          *)

LEMMA MaxOfTwo ==
    ASSUME NEW x \in Nat, NEW y \in Nat
    PROVE  /\ Max({x, y}) \in Nat
           /\ Max({x, y}) >= x /\ Max({x, y}) >= y
<1>1. \E m \in {x, y} : \A z \in {x, y} : m >= z
  BY x >= y \/ y >= x
<1>2. Max({x, y}) \in {x, y} /\ \A z \in {x, y} : Max({x, y}) >= z
  BY <1>1 DEF Max
<1>3. QED
  BY <1>2

LEMMA SeqParts ==
    ASSUME NEW S, NEW q \in Seq(S), q # <<>>
    PROVE  /\ Head(q) \in S /\ Head(q) = q[1]
           /\ Tail(q) \in Seq(S)
           /\ Len(q) \in Nat /\ Len(q) >= 1 /\ Len(Tail(q)) = Len(q) - 1
           /\ \A i \in 1..(Len(q) - 1) : Tail(q)[i] = q[i + 1]
OBVIOUS

(* What the end of a knock leaves of it.                                   *)
LEMMA ForgetEffect ==
    ASSUME DataOK, NEW a \in Actors, Forget(a)
    PROVE  \E k \in Request : /\ knock' = [knock EXCEPT ![a] = k]
                              /\ k.server = knock[a].server
<1> DEFINE k == [NoKnock EXCEPT !.server = knock[a].server]
<1>1. knock[a] \in Request
  BY DEF DataOK
<1>2. k \in Request /\ k.server = knock[a].server
  BY <1>1 DEF Request, NoKnock
<1>3. knock' = [knock EXCEPT ![a] = k]
  BY DEF Forget
<1> HIDE DEF k
<1>4. QED
  BY <1>2, <1>3

(* What a knock of a at server s is to that server: accepted, or in vain.  *)
Accepted(s, n) ==
    /\ s \in Reachable
    /\ high'[s] = n /\ allowUntil'[s] = now + Ttl
    /\ held'[s] = 0 /\ missed'[s] = 0

InVain(a, s) ==
    /\ high'[s] = high[s] /\ allowUntil'[s] = allowUntil[s]
    /\ s \in Reachable =>
          /\ held'[s] = held[s]
          /\ missed'[s] = IF a \in Commands THEN missed[s] ELSE missed[s] + 1

(* What a knock of a writes, and what the server makes of it.              *)
LEMMA SendEffect ==
    ASSUME DataOK, NEW a \in Actors, knock[a].server \in Servers, SendKnock(a)
    PROVE  \E n \in Nat, k \in Request :
             /\ n > knock[a].stored /\ n >= knock[a].floor /\ file' = n
             /\ knock' = [knock EXCEPT ![a] = k] /\ k.server = knock[a].server
             /\ high' \in [Servers -> Nat] /\ allowUntil' \in [Servers -> Nat]
             /\ held' \in [Reachable -> Nat] /\ missed' \in [Reachable -> Nat]
             /\ \A s \in Servers : s # k.server =>
                  high'[s] = high[s] /\ allowUntil'[s] = allowUntil[s]
             /\ \A s \in Reachable : s # k.server =>
                  held'[s] = held[s] /\ missed'[s] = missed[s]
             /\ Accepted(k.server, n) \/ InVain(a, k.server)
<1> DEFINE n == NextCounter(a)
           s == knock[a].server
<1>0. /\ knock[a] \in Request /\ knock[a].stored \in Nat /\ knock[a].floor \in Nat
      /\ now \in Nat /\ Ttl \in Nat
      /\ high \in [Servers -> Nat] /\ allowUntil \in [Servers -> Nat]
      /\ held \in [Reachable -> Nat] /\ missed \in [Reachable -> Nat]
  BY TimesAssumption DEF DataOK, Request
<1>1. n \in Nat /\ n > knock[a].stored /\ n >= knock[a].floor
  <2>1. knock[a].stored + 1 \in Nat
    BY <1>0
  <2>2. n \in Nat /\ n >= knock[a].stored + 1 /\ n >= knock[a].floor
    BY <1>0, <2>1, MaxOfTwo DEF NextCounter
  <2> HIDE DEF n
  <2>3. QED
    BY <1>0, <2>2
<1>2. PICK k \in Request : knock' = [knock EXCEPT ![a] = k] /\ k.server = s
  BY ForgetEffect DEF SendKnock
<1> HIDE DEF n
<1>3. PICK delivered \in BOOLEAN :
        LET accepted == delivered /\ s \in Reachable /\ n > high[s] IN
        /\ file' = n
        /\ high' = [high EXCEPT ![s] = IF accepted THEN n ELSE @]
        /\ allowUntil' = [allowUntil EXCEPT ![s] = IF accepted THEN now + Ttl ELSE @]
        /\ held' = [q \in Reachable |-> IF q = s /\ accepted THEN 0 ELSE held[q]]
        /\ missed' = [q \in Reachable |->
                        IF q = s /\ accepted THEN 0
                        ELSE IF q = s /\ a \notin Commands THEN missed[q] + 1
                        ELSE missed[q]]
  BY Zenon DEF SendKnock, n
<1>f. file' = n
  BY <1>3
<1>4. CASE delivered /\ s \in Reachable /\ n > high[s]
  <2>1. /\ high' = [high EXCEPT ![s] = n]
        /\ allowUntil' = [allowUntil EXCEPT ![s] = now + Ttl]
    BY <1>3, <1>4
  <2>2. /\ held' = [q \in Reachable |-> IF q = s THEN 0 ELSE held[q]]
        /\ missed' = [q \in Reachable |-> IF q = s THEN 0 ELSE missed[q]]
    BY <1>3, <1>4
  <2>3. /\ high' \in [Servers -> Nat] /\ high'[s] = n
        /\ allowUntil' \in [Servers -> Nat] /\ allowUntil'[s] = now + Ttl
        /\ \A o \in Servers : o # s => high'[o] = high[o] /\ allowUntil'[o] = allowUntil[o]
    BY <1>0, <1>1, <2>1
  <2>4. /\ held' \in [Reachable -> Nat] /\ missed' \in [Reachable -> Nat]
        /\ held'[s] = 0 /\ missed'[s] = 0
        /\ \A o \in Reachable : o # s => held'[o] = held[o] /\ missed'[o] = missed[o]
    BY <1>0, <1>4, <2>2
  <2>5. Accepted(k.server, n)
    BY <1>2, <1>4, <2>3, <2>4 DEF Accepted
  <2>6. QED
    BY <1>1, <1>2, <1>f, <2>3, <2>4, <2>5, ZenonT(60)
<1>5. CASE ~(delivered /\ s \in Reachable /\ n > high[s])
  <2>1. high' = high /\ allowUntil' = allowUntil
    BY <1>0, <1>3, <1>5
  <2>2. /\ held' = [q \in Reachable |-> held[q]]
        /\ missed' = [q \in Reachable |->
                        IF q = s /\ a \notin Commands THEN missed[q] + 1 ELSE missed[q]]
    BY <1>3, <1>5
  <2>3. /\ held' \in [Reachable -> Nat] /\ missed' \in [Reachable -> Nat]
        /\ \A o \in Reachable : held'[o] = held[o]
        /\ \A o \in Reachable : o # s => missed'[o] = missed[o]
        /\ s \in Reachable =>
              missed'[s] = IF a \in Commands THEN missed[s] ELSE missed[s] + 1
    <3>1. held' \in [Reachable -> Nat] /\ \A o \in Reachable : held'[o] = held[o]
      BY <1>0, <2>2
    <3>2. \A q \in Reachable : missed[q] \in Nat /\ missed[q] + 1 \in Nat
      BY <1>0
    <3>3. missed' \in [Reachable -> Nat]
      BY <2>2, <3>2
    <3>4. /\ \A o \in Reachable : o # s => missed'[o] = missed[o]
          /\ s \in Reachable =>
                missed'[s] = IF a \in Commands THEN missed[s] ELSE missed[s] + 1
      BY <2>2
    <3>5. QED
      BY <3>1, <3>3, <3>4
  <2>4. InVain(a, s)
    BY <2>1, <2>3 DEF InVain
  <2>5. /\ high' \in [Servers -> Nat] /\ allowUntil' \in [Servers -> Nat]
        /\ \A o \in Servers : high'[o] = high[o] /\ allowUntil'[o] = allowUntil[o]
    BY <1>0, <2>1
  <2>6. QED
    BY <1>1, <1>2, <1>f, <2>3, <2>4, <2>5, ZenonT(60)
<1>6. QED
  BY <1>4, <1>5

(* What reading the counter file notes down.                               *)
LEMMA ReadEffect ==
    ASSUME DataOK, NEW a \in Actors, NEW s \in Servers, ReadCounter(a, s)
    PROVE  \E k \in Request : /\ knock' = [knock EXCEPT ![a] = k]
                              /\ k.server = s /\ k.stored = file
                              /\ k.floor = now * MsPerTick
<1> DEFINE k == [server |-> s, stored |-> file, floor |-> now * MsPerTick]
<1>1. now * MsPerTick \in Nat
  BY TimesAssumption DEF DataOK
<1>2. k \in Request /\ k.server = s /\ k.stored = file /\ k.floor = now * MsPerTick
  BY <1>1 DEF DataOK, Request
<1>3. knock' = [knock EXCEPT ![a] = k]
  BY DEF ReadCounter
<1> HIDE DEF k
<1>4. QED
  BY <1>2, <1>3


------------------------------------------------------------------------------
(* Types and the lock.                                                     *)

LEMMA ClientInit == Init => ClientInv
<1> SUFFICES ASSUME Init PROVE ClientInv
  OBVIOUS
<1>1. DataOK
  <2>1. NoKnock \in Request
    BY DEF NoKnock, Request
  <2>2. QED
    BY <2>1, TimesAssumption DEF Init, DataOK, States
<1>2. /\ lock = None /\ pc[Refresher] = "sleep"
      /\ \A a \in Conns \cup Commands : pc[a] = "new"
      /\ \A a \in Actors : pc[a] \in {"new", "sleep"}
  BY Names DEF Init
<1>3. LockFits
  BY <1>2, Names DEF LockFits, Holding
<1>4. Targeted
  BY <1>2 DEF Targeted
<1>5. \A c \in Conns : ConnFits(c)
  BY <1>2 DEF ConnFits
<1>6. QED
  BY <1>1, <1>2, <1>3, <1>4, <1>5 DEF ClientInv

(* Connection c moves to p, with or without the lock.                      *)
ConnMoves(c, p) ==
    /\ pc' = [pc EXCEPT ![c] = p]
    /\ \/ pc[c] \in Holding /\ p \in Holding /\ lock' = lock
       \/ lock = None /\ p \in Holding /\ lock' = c
       \/ pc[c] \in Holding /\ p \notin Holding /\ lock' = None
       \/ pc[c] \notin Holding /\ p \notin Holding /\ lock' = lock

LEMMA MovesEffect ==
    ASSUME DataOK, LockFits, NEW c \in Conns, NEW p \in States, ConnMoves(c, p)
    PROVE  /\ pc' \in [Actors -> States] /\ pc'[c] = p
           /\ \A a \in Actors : a # c => pc'[a] = pc[a]
           /\ lock' \in Conns \cup {Refresher, None}
           /\ LockFits'
<1>1. /\ pc' \in [Actors -> States] /\ pc'[c] = p
      /\ \A a \in Actors : a # c => pc'[a] = pc[a]
  BY Names DEF DataOK, ConnMoves
<1>2. lock' \in Conns \cup {Refresher, None}
  BY DEF DataOK, ConnMoves
<1>3. pc'[Refresher] \in {"knock", "sent"} <=> lock' = Refresher
  BY <1>1, Names DEF LockFits, ConnMoves
<1>4. ASSUME NEW d \in Conns PROVE pc'[d] \in Holding <=> lock' = d
  BY <1>1, Names DEF LockFits, ConnMoves
<1>5. QED
  BY <1>1, <1>2, <1>3, <1>4 DEF LockFits

(* What is left to show of a step of connection c.                         *)
LEMMA ConnStep ==
    ASSUME ClientInv, DataOK', NEW c \in Conns, NEW p \in States, ConnMoves(c, p),
           \A a \in Actors : a # c => knock'[a] = knock[a],
           \A d \in Conns : d # c => todo'[d] = todo[d] /\ round'[d] = round[d],
           ConnFits(c)',
           p \in {"knock", "connect", "connected", "open"} => knock'[c].server \in Servers
    PROVE  ClientInv'
<1>1. /\ pc' \in [Actors -> States] /\ pc'[c] = p
      /\ \A a \in Actors : a # c => pc'[a] = pc[a]
      /\ LockFits'
  BY MovesEffect DEF ClientInv
<1>2. p # "lock" /\ p # "sent"
  BY <1>1 DEF ConnFits
<1>3. Targeted'
  BY <1>1, <1>2 DEF ClientInv, Targeted
<1>4. ASSUME NEW d \in Conns PROVE ConnFits(d)'
  <2>1. CASE d = c
    BY <2>1
  <2>2. CASE d # c
    BY <1>1, <2>2, Names DEF ClientInv, ConnFits
  <2>3. QED
    BY <2>1, <2>2
<1>5. pc'[Refresher] \in {"sleep", "lock", "knock", "sent"}
  BY <1>1, Names DEF ClientInv
<1>6. \A m \in Commands : pc'[m] \in {"new", "knock", "closed"}
  BY <1>1, Names DEF ClientInv
<1>7. QED
  BY <1>1, <1>3, <1>4, <1>5, <1>6 DEF ClientInv

LEMMA OrderTypes ==
    ASSUME NEW o \in Orders
    PROVE  o \in Seq(Servers) /\ o # <<>>
BY OrdersAssumption

LEMMA BeginStep ==
    ASSUME ClientInv, NEW c \in Conns, NEW o \in Orders, BeginConnect(c, o)
    PROVE  ClientInv' /\ ConnMoves(c, "attempt")
<1>0. DataOK /\ LockFits /\ ConnFits(c) /\ c \in Actors
  BY Names DEF ClientInv
<1>1. ConnMoves(c, "attempt")
  BY DEF BeginConnect, ConnMoves, Holding
<1>2. DataOK'
  <2>1. /\ pc' \in [Actors -> States]
        /\ lock' \in Conns \cup {Refresher, None}
    BY <1>0, <1>1, MovesEffect DEF States
  <2>2. todo' \in [Conns -> Seq(Servers)] /\ round' \in [Conns -> 0..(MaxRetries + 1)]
    BY <1>0, OrderTypes, TimesAssumption DEF BeginConnect, DataOK
  <2>3. QED
    BY <1>0, <2>1, <2>2 DEF BeginConnect, DataOK, knockVars, sentVars, serverVars, historyVars
<1>3. ConnFits(c)'
  BY <1>0, OrderTypes DEF BeginConnect, ConnFits, DataOK
<1>4. QED
  BY <1>0, <1>1, <1>2, <1>3, ConnStep
     DEF BeginConnect, States, DataOK, knockVars, sentVars, serverVars, historyVars

LEMMA NextRoundStep ==
    ASSUME ClientInv, NEW c \in Conns, NEW o \in Orders, NextRound(c, o)
    PROVE  ClientInv' /\ ConnMoves(c, "attempt")
<1>0. DataOK /\ LockFits /\ ConnFits(c) /\ c \in Actors
  BY Names DEF ClientInv
<1>1. ConnMoves(c, "attempt")
  BY DEF NextRound, ConnMoves, Holding
<1>r. round[c] \in Nat /\ round[c] <= MaxRetries /\ MaxRetries \in Nat
      /\ round' = [round EXCEPT ![c] = round[c] + 1]
  BY <1>0, TimesAssumption DEF NextRound, ConnFits, DataOK
<1>2. DataOK'
  <2>1. /\ pc' \in [Actors -> States]
        /\ lock' \in Conns \cup {Refresher, None}
    BY <1>0, <1>1, MovesEffect DEF States
  <2>d. due' \in [Actors -> Nat]
    BY <1>0 DEF NextRound, DataOK
  <2>2. todo' \in [Conns -> Seq(Servers)] /\ round' \in [Conns -> 0..(MaxRetries + 1)]
    <3>1. round[c] + 1 \in 0..(MaxRetries + 1)
      BY <1>r
    <3>2. round \in [Conns -> 0..(MaxRetries + 1)] /\ todo \in [Conns -> Seq(Servers)]
      BY <1>0 DEF DataOK
    <3>3. todo' = [todo EXCEPT ![c] = o]
      BY DEF NextRound
    <3>4. QED
      BY <1>r, <3>1, <3>2, <3>3, OrderTypes
  <2>3. QED
    BY <1>0, <2>1, <2>2, <2>d DEF NextRound, DataOK, knockVars, sentVars, serverVars, historyVars
<1>3. ConnFits(c)'
  <2>1. pc'[c] = "attempt"
    BY <1>0, <1>1, MovesEffect DEF States
  <2>2. todo'[c] = o /\ round'[c] = round[c] + 1
    BY <1>0, <1>r DEF NextRound, DataOK
  <2>3. QED
    BY <1>r, <2>1, <2>2, OrderTypes DEF ConnFits
<1>4. QED
  BY <1>0, <1>1, <1>2, <1>3, ConnStep
     DEF NextRound, States, DataOK, knockVars, sentVars, serverVars, historyVars

LEMMA AttemptStep ==
    ASSUME ClientInv, NEW c \in Conns, Attempt(c)
    PROVE  /\ ClientInv' /\ ConnMoves(c, "knock")
           /\ \E k \in Request : /\ knock' = [knock EXCEPT ![c] = k]
                                 /\ k.server = Head(todo[c]) /\ k.stored = file
           /\ tried' = [tried EXCEPT ![c][Head(todo[c])] = tried[c][Head(todo[c])] + 1]
           /\ Head(todo[c]) \in Servers
<1>0. DataOK /\ LockFits /\ ConnFits(c) /\ c \in Actors
  BY Names DEF ClientInv
<1>1. ConnMoves(c, "knock")
  BY <1>0 DEF Attempt, ConnMoves, Holding, LockFits
<1>h. PICK h \in Servers : h = Head(todo[c])
  <2>1. todo[c] \in Seq(Servers) /\ todo[c] # <<>>
    BY <1>0 DEF Attempt, ConnFits, DataOK
  <2>2. QED
    BY <2>1, SeqParts
<1>k. PICK k \in Request : /\ knock' = [knock EXCEPT ![c] = k]
                           /\ k.server = h /\ k.stored = file
  BY <1>0, <1>h, ReadEffect DEF Attempt
<1>t. tried' = [tried EXCEPT ![c][h] = tried[c][h] + 1]
  BY <1>0, <1>h DEF Attempt, DataOK
<1>2. DataOK'
  <2>1. /\ pc' \in [Actors -> States]
        /\ lock' \in Conns \cup {Refresher, None}
    BY <1>0, <1>1, MovesEffect DEF States
  <2>2. tried' \in [Conns -> [Servers -> Nat]]
    BY <1>0, <1>t, SMTT(30) DEF DataOK
  <2>3. knock' \in [Actors -> Request]
    BY <1>0, <1>k DEF DataOK
  <2>4. QED
    BY <1>0, <2>1, <2>2, <2>3 DEF Attempt, DataOK, sentVars, serverVars, historyVars
<1>3. pc'[c] = "knock" /\ knock'[c] = k /\ todo' = todo /\ round' = round
  BY <1>0, <1>k DEF Attempt, DataOK
<1>4. ConnFits(c)'
  BY <1>0, <1>h, <1>k, <1>3 DEF ConnFits, Attempt
<1>5. ClientInv'
  BY <1>0, <1>h, <1>k, <1>1, <1>2, <1>3, <1>4, ConnStep DEF States, DataOK
<1>6. QED
  BY <1>1, <1>5, <1>h, <1>k, <1>t


LEMMA KnockStep ==
    ASSUME ClientInv, NEW c \in Conns, Knock(c)
    PROVE  ClientInv' /\ ConnMoves(c, "connect")
<1>0. /\ DataOK /\ LockFits /\ ConnFits(c) /\ c \in Actors
      /\ pc[c] = "knock" /\ knock[c].server \in Servers
  BY Names DEF ClientInv, Knock, Targeted
<1>1. ConnMoves(c, "connect")
  BY <1>0 DEF Knock, ConnMoves, Holding, LockFits
<1>k. PICK n \in Nat, k \in Request :
        /\ file' = n
        /\ knock' = [knock EXCEPT ![c] = k] /\ k.server = knock[c].server
        /\ high' \in [Servers -> Nat] /\ allowUntil' \in [Servers -> Nat]
        /\ held' \in [Reachable -> Nat] /\ missed' \in [Reachable -> Nat]
  BY <1>0, SendEffect DEF Knock
<1>2. DataOK'
  <2>1. /\ pc' \in [Actors -> States]
        /\ lock' \in Conns \cup {Refresher, None}
    BY <1>0, <1>1, MovesEffect DEF States
  <2>2. due' = due
    BY DEF Knock
  <2>3. knock' \in [Actors -> Request]
    BY <1>0, <1>k DEF DataOK
  <2>4. QED
    BY <1>0, <1>k, <2>1, <2>2, <2>3 DEF Knock, DataOK, failoverVars
<1>3. pc'[c] = "connect" /\ knock'[c] = k /\ todo' = todo /\ round' = round
  BY <1>0, <1>k DEF Knock, DataOK, failoverVars
<1>4. ConnFits(c)'
  BY <1>0, <1>k, <1>3 DEF ConnFits
<1>5. QED
  BY <1>0, <1>k, <1>1, <1>2, <1>3, <1>4, ConnStep DEF States, DataOK

LEMMA ConnectedStep ==
    ASSUME ClientInv, NEW c \in Conns, Connected(c)
    PROVE  ClientInv' /\ ConnMoves(c, "connected")
<1>0. /\ DataOK /\ LockFits /\ ConnFits(c) /\ c \in Actors
      /\ pc[c] = "connect" /\ knock[c].server \in Servers
  BY Names DEF ClientInv, Connected, Targeted
<1>1. ConnMoves(c, "connected")
  BY <1>0 DEF Connected, ConnMoves, Holding
<1>2. DataOK'
  <2>1. /\ pc' \in [Actors -> States]
        /\ lock' \in Conns \cup {Refresher, None}
    BY <1>0, <1>1, MovesEffect DEF States
  <2>2. QED
    BY <1>0, <2>1
       DEF Connected, DataOK, failoverVars, knockVars, sentVars, serverVars, historyVars
<1>3. pc'[c] = "connected" /\ knock' = knock /\ todo' = todo /\ round' = round
  BY <1>0 DEF Connected, DataOK, failoverVars, knockVars
<1>4. ConnFits(c)'
  BY <1>3 DEF ConnFits
<1>5. QED
  BY <1>0, <1>1, <1>2, <1>3, <1>4, ConnStep DEF States

LEMMA SetActiveStep ==
    ASSUME ClientInv, NEW c \in Conns, SetActive(c)
    PROVE  ClientInv' /\ ConnMoves(c, "open")
<1>0. /\ DataOK /\ LockFits /\ ConnFits(c) /\ c \in Actors
      /\ pc[c] = "connected" /\ knock[c].server \in Servers
  BY Names DEF ClientInv, SetActive, Targeted
<1>1. ConnMoves(c, "open")
  BY <1>0 DEF SetActive, ConnMoves, Holding
<1>2. DataOK'
  <2>1. /\ pc' \in [Actors -> States]
        /\ lock' \in Conns \cup {Refresher, None}
    BY <1>0, <1>1, MovesEffect DEF States
  <2>2. QED
    BY <1>0, <2>1 DEF SetActive, DataOK, failoverVars, knockVars, sentVars, serverVars, historyVars
<1>3. pc'[c] = "open" /\ knock' = knock /\ todo' = todo /\ round' = round
  BY <1>0 DEF SetActive, DataOK, failoverVars, knockVars
<1>4. ConnFits(c)'
  BY <1>3 DEF ConnFits
<1>5. QED
  BY <1>0, <1>1, <1>2, <1>3, <1>4, ConnStep DEF States

LEMMA FailsStep ==
    ASSUME ClientInv, NEW c \in Conns, AttemptFails(c)
    PROVE  /\ ClientInv'
           /\ todo' = [todo EXCEPT ![c] = Tail(todo[c])]
           /\ \A a \in Actors : a # c => knock'[a] = knock[a]
           /\ \/ Len(todo[c]) > 1 /\ ConnMoves(c, "attempt") /\ due' = due
              \/ /\ Len(todo[c]) = 1 /\ round[c] <= MaxRetries /\ ConnMoves(c, "retry")
                 /\ due' = [due EXCEPT ![c] = now + RetryInterval]
              \/ /\ Len(todo[c]) = 1 /\ round[c] = MaxRetries + 1 /\ ConnMoves(c, "failed")
                 /\ due' = due
<1>0. /\ DataOK /\ LockFits /\ ConnFits(c) /\ c \in Actors
      /\ pc[c] \in {"knock", "connect"} /\ todo[c] \in Seq(Servers) /\ todo[c] # <<>>
      /\ round[c] \in 0..(MaxRetries + 1) /\ MaxRetries \in Nat
      /\ todo' = [todo EXCEPT ![c] = Tail(todo[c])]
      /\ UNCHANGED <<now, active, round, tried, file, high, allowUntil, held, missed>>
  BY Names, TimesAssumption
     DEF ClientInv, AttemptFails, ConnFits, DataOK, knockVars, sentVars, serverVars, historyVars
<1>k. PICK k \in Request : knock' = [knock EXCEPT ![c] = k]
  BY <1>0, ForgetEffect DEF AttemptFails
<1>f. knock' \in [Actors -> Request] /\ \A a \in Actors : a # c => knock'[a] = knock[a]
  BY <1>0, <1>k DEF DataOK
<1>1. /\ Tail(todo[c]) \in Seq(Servers) /\ Len(Tail(todo[c])) = Len(todo[c]) - 1
      /\ Len(todo[c]) \in Nat /\ Len(todo[c]) >= 1
  BY <1>0, SeqParts
<1>l. PICK l \in Nat : l = Len(todo[c])
  BY <1>1
<1>g. l >= 1
  BY <1>1, <1>l
<1>r. PICK q \in 0..(MaxRetries + 1) : q = round[c]
  BY <1>0
<1>m. MaxRetries \in Nat
  BY TimesAssumption
<1>2. ASSUME NEW p \in {"attempt", "retry", "failed"}, ConnMoves(c, p),
             due' \in [Actors -> Nat],
             p = "attempt" => Len(todo[c]) > 1,
             p = "retry" => round[c] <= MaxRetries
      PROVE  ClientInv'
  <2>0. p \in States
    BY DEF States
  <2>1. pc' \in [Actors -> States] /\ lock' \in Conns \cup {Refresher, None} /\ pc'[c] = p
    BY <1>0, <1>2, <2>0, MovesEffect
  <2>2. todo' \in [Conns -> Seq(Servers)] /\ todo'[c] = Tail(todo[c])
    BY <1>0, <1>1 DEF DataOK
  <2>3. DataOK'
    BY <1>0, <1>2, <1>f, <2>1, <2>2 DEF DataOK
  <2>4. p = "attempt" => todo'[c] # <<>>
    <3>1. SUFFICES ASSUME p = "attempt" PROVE Len(todo'[c]) # 0
      OBVIOUS
    <3>2. l > 1
      BY <1>l, <1>2, <3>1
    <3>3. l - 1 # 0
      BY <3>2
    <3>4. Len(todo'[c]) = l - 1
      BY <1>1, <1>l, <2>2
    <3>5. QED
      BY <3>3, <3>4
  <2>5. ConnFits(c)'
    BY <1>0, <1>2, <2>1, <2>4 DEF ConnFits
  <2>6. \A d \in Conns : d # c => todo'[d] = todo[d] /\ round'[d] = round[d]
    BY <1>0 DEF DataOK
  <2>7. QED
    BY <1>0, <1>2, <1>f, <2>0, <2>3, <2>5, <2>6, ConnStep
<1>3. CASE Len(todo[c]) > 1
  <2>1. pc' = [pc EXCEPT ![c] = "attempt"] /\ UNCHANGED <<lock, due>>
    BY <1>3 DEF AttemptFails
  <2>2. ConnMoves(c, "attempt") /\ due' \in [Actors -> Nat]
    BY <1>0, <2>1 DEF ConnMoves, Holding, DataOK
  <2>3. QED
    BY <1>0, <1>2, <1>3, <1>f, <2>1, <2>2
<1>4. CASE ~(Len(todo[c]) > 1) /\ round[c] < Rounds
  <2>1. /\ pc' = [pc EXCEPT ![c] = "retry"] /\ lock' = lock
        /\ due' = [due EXCEPT ![c] = now + RetryInterval]
    BY <1>4 DEF AttemptFails
  <2>2. ConnMoves(c, "retry") /\ due' \in [Actors -> Nat]
    BY <1>0, <2>1, TimesAssumption DEF ConnMoves, Holding, DataOK
  <2>3. Len(todo[c]) = 1 /\ round[c] <= MaxRetries
    <3>1. ~(l > 1) /\ q < MaxRetries + 1
      BY <1>l, <1>r, <1>4 DEF Rounds
    <3>2. l = 1 /\ q <= MaxRetries
      BY <1>g, <1>m, <3>1
    <3>3. QED
      BY <1>l, <1>r, <3>2
  <2>4. ClientInv'
    <3>1. "retry" \in {"attempt", "retry", "failed"} /\ "retry" # "attempt"
      OBVIOUS
    <3>2. "retry" = "retry" => round[c] <= MaxRetries
      BY <2>3
    <3>3. QED
      BY <1>2, <2>2, <3>1, <3>2, Zenon
  <2>5. QED
    BY <1>0, <1>f, <2>1, <2>2, <2>3, <2>4
<1>5. CASE ~(Len(todo[c]) > 1) /\ ~(round[c] < Rounds)
  <2>1. /\ pc' = [pc EXCEPT ![c] = "failed"] /\ lock' = None
        /\ due' = due
    BY <1>5 DEF AttemptFails
  <2>2. ConnMoves(c, "failed") /\ due' \in [Actors -> Nat]
    BY <1>0, <2>1 DEF ConnMoves, Holding, DataOK
  <2>3. Len(todo[c]) = 1 /\ round[c] = MaxRetries + 1
    <3>1. ~(l > 1) /\ ~(q < MaxRetries + 1)
      BY <1>l, <1>r, <1>5 DEF Rounds
    <3>2. l = 1 /\ q = MaxRetries + 1
      BY <1>g, <1>m, <3>1
    <3>3. QED
      BY <1>l, <1>r, <3>2
  <2>4. ClientInv'
    <3>1. "failed" \in {"attempt", "retry", "failed"} /\ "failed" # "attempt"
      OBVIOUS
    <3>2. "failed" = "retry" => round[c] <= MaxRetries
      BY <2>3
    <3>3. QED
      BY <1>2, <2>2, <3>1, <3>2, Zenon
  <2>5. QED
    BY <1>0, <1>f, <2>1, <2>2, <2>3, <2>4
<1>6. QED
  BY <1>3, <1>4, <1>5

LEMMA CloseStep ==
    ASSUME ClientInv, NEW c \in Conns, CloseTunnel(c)
    PROVE  ClientInv' /\ ConnMoves(c, "closed")
<1>0. DataOK /\ LockFits /\ ConnFits(c) /\ c \in Actors /\ pc[c] = "open"
  BY Names DEF ClientInv, CloseTunnel
<1>1. ConnMoves(c, "closed")
  BY <1>0 DEF CloseTunnel, ConnMoves, Holding
<1>2. DataOK'
  <2>1. /\ pc' \in [Actors -> States]
        /\ lock' \in Conns \cup {Refresher, None}
    BY <1>0, <1>1, MovesEffect DEF States
  <2>2. QED
    BY <1>0, <2>1 DEF CloseTunnel, DataOK, failoverVars, knockVars, sentVars, serverVars, historyVars
<1>3. pc'[c] = "closed" /\ knock' = knock /\ todo' = todo /\ round' = round
  BY <1>0 DEF CloseTunnel, DataOK, failoverVars, knockVars
<1>4. ConnFits(c)'
  BY <1>3 DEF ConnFits
<1>5. QED
  BY <1>0, <1>1, <1>2, <1>3, <1>4, ConnStep DEF States


(* What is left to show of a step of the refresh thread or of a command,   *)
(* which never touches the connections.                                    *)
LEMMA OtherStep ==
    ASSUME ClientInv, DataOK', NEW a \in Commands \cup {Refresher}, NEW p \in States,
           pc' = [pc EXCEPT ![a] = p],
           \A b \in Actors : b # a => knock'[b] = knock[b],
           todo' = todo, round' = round, LockFits',
           p \in {"knock", "lock", "sent"} => knock'[a].server \in Servers,
           a = Refresher => p \in {"sleep", "lock", "knock", "sent"},
           a # Refresher => p \in {"knock", "closed"}
    PROVE  ClientInv'
<1>1. /\ a \in Actors /\ pc'[a] = p
      /\ \A b \in Actors : b # a => pc'[b] = pc[b]
  BY Names DEF ClientInv, DataOK
<1>2. Targeted'
  BY <1>1, Names DEF ClientInv, Targeted
<1>3. ASSUME NEW d \in Conns PROVE ConnFits(d)'
  <2>1. d \in Actors /\ d # a
    BY Names
  <2>2. QED
    BY <1>1, <2>1 DEF ClientInv, ConnFits
<1>4. pc'[Refresher] \in {"sleep", "lock", "knock", "sent"}
  BY <1>1, Names DEF ClientInv
<1>5. \A m \in Commands : pc'[m] \in {"new", "knock", "closed"}
  BY <1>1, Names DEF ClientInv
<1>6. QED
  BY <1>2, <1>3, <1>4, <1>5 DEF ClientInv

LEMMA WakeStep ==
    ASSUME ClientInv, Wake
    PROVE  /\ ClientInv'
           /\ \/ /\ active = None /\ due' = [due EXCEPT ![Refresher] = now + Interval]
                 /\ pc' = pc /\ knock' = knock
              \/ /\ active \in Servers /\ due' = due
                 /\ pc' = [pc EXCEPT ![Refresher] = "lock"]
                 /\ \E k \in Request : /\ knock' = [knock EXCEPT ![Refresher] = k]
                                       /\ k.server = active
<1>0. /\ DataOK /\ LockFits /\ Refresher \in Actors /\ pc[Refresher] = "sleep"
      /\ UNCHANGED <<now, file, lock, active, todo, round, tried, high, allowUntil, held, missed>>
  BY Names DEF ClientInv, Wake, failoverVars, sentVars, serverVars, historyVars
<1>1. CASE active = None
  <2>1. due' = [due EXCEPT ![Refresher] = now + Interval] /\ pc' = pc /\ knock' = knock
    BY <1>1 DEF Wake, Sleep
  <2>2. Interval \in Nat
    BY TimesAssumption DEF Interval
  <2>3. DataOK'
    BY <1>0, <2>1, <2>2 DEF DataOK
  <2>4. ClientInv'
    BY <1>0, <2>1, <2>3 DEF ClientInv, LockFits, Targeted, ConnFits
  <2>5. QED
    BY <1>1, <2>1, <2>4
<1>2. CASE active # None
  <2>1. /\ pc' = [pc EXCEPT ![Refresher] = "lock"] /\ due' = due
        /\ knock' = [knock EXCEPT ![Refresher].server = active]
    BY <1>2 DEF Wake
  <2>2. active \in Servers
    BY <1>0, <1>2 DEF DataOK
  <2> DEFINE k == [knock[Refresher] EXCEPT !.server = active]
  <2>3. k \in Request /\ k.server = active
    BY <1>0, <2>2 DEF DataOK, Request
  <2>4. knock' = [knock EXCEPT ![Refresher] = k]
    BY <1>0, <2>1 DEF DataOK
  <2> HIDE DEF k
  <2>5. DataOK'
    <3>1. knock' \in [Actors -> Request]
      BY <1>0, <2>3, <2>4 DEF DataOK
    <3>2. pc' \in [Actors -> States]
      BY <1>0, <2>1 DEF DataOK, States
    <3>3. QED
      BY <1>0, <2>1, <3>1, <3>2 DEF DataOK
  <2>6. LockFits'
    BY <1>0, <2>1, Names DEF LockFits, DataOK
  <2>7. "lock" \in States /\ Refresher \in Commands \cup {Refresher}
    BY DEF States
  <2>8. knock'[Refresher] = k /\ \A b \in Actors : b # Refresher => knock'[b] = knock[b]
    BY <1>0, <2>4 DEF DataOK
  <2>9. ClientInv'
    BY <1>0, <2>1, <2>2, <2>3, <2>5, <2>6, <2>7, <2>8, OtherStep
  <2>10. QED
    BY <2>1, <2>2, <2>3, <2>4, <2>9
<1>3. QED
  BY <1>1, <1>2

LEMMA RefreshLockStep ==
    ASSUME ClientInv, RefreshLock
    PROVE  /\ ClientInv'
           /\ \E k \in Request : /\ knock' = [knock EXCEPT ![Refresher] = k]
                                 /\ k.server = knock[Refresher].server /\ k.stored = file
<1>0. /\ DataOK /\ LockFits /\ Refresher \in Actors /\ pc[Refresher] = "lock" /\ lock = None
      /\ knock[Refresher].server \in Servers
      /\ lock' = Refresher /\ pc' = [pc EXCEPT ![Refresher] = "knock"]
      /\ UNCHANGED <<now, file, active, due, todo, round, tried, high, allowUntil, held, missed>>
  BY Names DEF ClientInv, RefreshLock, Targeted, failoverVars, sentVars, serverVars, historyVars
<1>1. PICK k \in Request : /\ knock' = [knock EXCEPT ![Refresher] = k]
                           /\ k.server = knock[Refresher].server /\ k.stored = file
  BY <1>0, ReadEffect DEF RefreshLock
<1>2. DataOK'
  BY <1>0, <1>1 DEF DataOK, States
<1>3. LockFits'
  BY <1>0, Names DEF LockFits, DataOK
<1>4. "knock" \in States /\ Refresher \in Commands \cup {Refresher}
  BY DEF States
<1>5. knock'[Refresher] = k /\ \A b \in Actors : b # Refresher => knock'[b] = knock[b]
  BY <1>0, <1>1 DEF DataOK
<1>6. ClientInv'
  BY <1>0, <1>1, <1>2, <1>3, <1>4, <1>5, OtherStep
<1>7. QED
  BY <1>1, <1>6

LEMMA RefreshKnockStep ==
    ASSUME ClientInv, RefreshKnock
    PROVE  ClientInv'
<1>0. /\ DataOK /\ LockFits /\ Refresher \in Actors /\ pc[Refresher] = "knock"
      /\ knock[Refresher].server \in Servers /\ lock = Refresher
      /\ pc' = [pc EXCEPT ![Refresher] = "sent"]
      /\ UNCHANGED <<now, lock, active, due, todo, round, tried>>
  BY Names DEF ClientInv, RefreshKnock, Targeted, LockFits, failoverVars
<1>1. PICK n \in Nat, k \in Request :
        /\ file' = n
        /\ knock' = [knock EXCEPT ![Refresher] = k] /\ k.server = knock[Refresher].server
        /\ high' \in [Servers -> Nat] /\ allowUntil' \in [Servers -> Nat]
        /\ held' \in [Reachable -> Nat] /\ missed' \in [Reachable -> Nat]
  BY <1>0, SendEffect DEF RefreshKnock
<1>2. DataOK'
  BY <1>0, <1>1, SMTT(30) DEF DataOK, States
<1>3. LockFits'
  BY <1>0, Names DEF LockFits, DataOK
<1>4. "sent" \in States /\ Refresher \in Commands \cup {Refresher}
  BY DEF States
<1>5. knock'[Refresher] = k /\ \A b \in Actors : b # Refresher => knock'[b] = knock[b]
  BY <1>0, <1>1 DEF DataOK
<1>6. QED
  BY <1>0, <1>1, <1>2, <1>3, <1>4, <1>5, OtherStep

LEMMA RefreshFailsStep ==
    ASSUME ClientInv, RefreshFails
    PROVE  /\ ClientInv'
           /\ \E k \in Request : knock' = [knock EXCEPT ![Refresher] = k]
<1>0. /\ DataOK /\ LockFits /\ Refresher \in Actors /\ pc[Refresher] = "knock"
      /\ knock[Refresher].server \in Servers /\ lock = Refresher
      /\ pc' = [pc EXCEPT ![Refresher] = "sent"]
      /\ missed' = [q \in Reachable |->
                      IF q = knock[Refresher].server THEN missed[q] + 1 ELSE missed[q]]
      /\ UNCHANGED <<now, file, lock, active, due, todo, round, tried, high, allowUntil, held>>
  BY Names DEF ClientInv, RefreshFails, Targeted, LockFits, failoverVars, serverVars
<1>1. PICK k \in Request : /\ knock' = [knock EXCEPT ![Refresher] = k]
                           /\ k.server = knock[Refresher].server
  BY <1>0, ForgetEffect DEF RefreshFails
<1>2. missed' \in [Reachable -> Nat]
  BY <1>0 DEF DataOK
<1>3. DataOK'
  BY <1>0, <1>1, <1>2, SMTT(30) DEF DataOK, States
<1>4. LockFits'
  BY <1>0, Names DEF LockFits, DataOK
<1>5. "sent" \in States /\ Refresher \in Commands \cup {Refresher}
  BY DEF States
<1>6. knock'[Refresher] = k /\ \A b \in Actors : b # Refresher => knock'[b] = knock[b]
  BY <1>0, <1>1 DEF DataOK
<1>7. ClientInv'
  BY <1>0, <1>1, <1>3, <1>4, <1>5, <1>6, OtherStep
<1>8. QED
  BY <1>1, <1>7

LEMMA RefreshReturnsStep ==
    ASSUME ClientInv, RefreshReturns
    PROVE  ClientInv'
<1>0. /\ DataOK /\ LockFits /\ Refresher \in Actors /\ pc[Refresher] = "sent"
      /\ lock = Refresher /\ lock' = None
      /\ pc' = [pc EXCEPT ![Refresher] = "sleep"]
      /\ due' = [due EXCEPT ![Refresher] = now + Interval]
      /\ UNCHANGED <<now, file, active, knock, todo, round, tried, high, allowUntil, held, missed>>
  BY Names DEF ClientInv, RefreshReturns, Sleep, LockFits, failoverVars, knockVars,
               sentVars, serverVars, historyVars
<1>1. Interval \in Nat
  BY TimesAssumption DEF Interval
<1>2. DataOK'
  BY <1>0, <1>1, SMTT(30) DEF DataOK, States
<1>3. LockFits'
  BY <1>0, Names DEF LockFits, DataOK
<1>4. "sleep" \in States /\ Refresher \in Commands \cup {Refresher}
  BY DEF States
<1>5. QED
  BY <1>0, <1>2, <1>3, <1>4, OtherStep

LEMMA CommandReadsStep ==
    ASSUME ClientInv, NEW m \in Commands, NEW s \in Servers, CommandReads(m, s)
    PROVE  ClientInv'
<1>0. /\ DataOK /\ LockFits /\ m \in Actors /\ m # Refresher /\ m \notin Conns
      /\ pc' = [pc EXCEPT ![m] = "knock"]
      /\ UNCHANGED <<now, file, lock, active, due, todo, round, tried, high, allowUntil, held, missed>>
  BY Names DEF ClientInv, CommandReads, failoverVars, sentVars, serverVars, historyVars
<1>1. PICK k \in Request : knock' = [knock EXCEPT ![m] = k] /\ k.server = s
  BY <1>0, ReadEffect DEF CommandReads
<1>2. DataOK'
  BY <1>0, <1>1 DEF DataOK, States
<1>3. LockFits'
  BY <1>0, Names DEF LockFits, DataOK
<1>4. "knock" \in States /\ m \in Commands \cup {Refresher}
  BY DEF States
<1>5. knock'[m] = k /\ \A b \in Actors : b # m => knock'[b] = knock[b]
  BY <1>0, <1>1 DEF DataOK
<1>6. QED
  BY <1>0, <1>1, <1>2, <1>3, <1>4, <1>5, OtherStep

LEMMA CommandKnocksStep ==
    ASSUME ClientInv, NEW m \in Commands, CommandKnocks(m)
    PROVE  ClientInv'
<1>0. /\ DataOK /\ LockFits /\ m \in Actors /\ m # Refresher /\ m \notin Conns
      /\ knock[m].server \in Servers
      /\ pc' = [pc EXCEPT ![m] = "closed"]
      /\ UNCHANGED <<now, lock, active, due, todo, round, tried>>
  BY Names DEF ClientInv, CommandKnocks, Targeted, failoverVars
<1>1. PICK n \in Nat, k \in Request :
        /\ file' = n
        /\ knock' = [knock EXCEPT ![m] = k]
        /\ high' \in [Servers -> Nat] /\ allowUntil' \in [Servers -> Nat]
        /\ held' \in [Reachable -> Nat] /\ missed' \in [Reachable -> Nat]
  BY <1>0, SendEffect DEF CommandKnocks
<1>2. DataOK'
  BY <1>0, <1>1 DEF DataOK, States
<1>3. LockFits'
  BY <1>0, Names DEF LockFits, DataOK
<1>4. "closed" \in States /\ m \in Commands \cup {Refresher}
  BY DEF States
<1>5. \A b \in Actors : b # m => knock'[b] = knock[b]
  BY <1>0, <1>1 DEF DataOK
<1>6. QED
  BY <1>0, <1>2, <1>3, <1>4, <1>5, OtherStep

LEMMA CommandFailsStep ==
    ASSUME ClientInv, NEW m \in Commands, CommandFails(m)
    PROVE  ClientInv'
<1>0. /\ DataOK /\ LockFits /\ m \in Actors /\ m # Refresher /\ m \notin Conns
      /\ pc' = [pc EXCEPT ![m] = "closed"]
      /\ UNCHANGED <<now, file, lock, active, due, todo, round, tried, high, allowUntil, held, missed>>
  BY Names DEF ClientInv, CommandFails, failoverVars, sentVars, serverVars, historyVars
<1>1. PICK k \in Request : knock' = [knock EXCEPT ![m] = k]
  BY <1>0, ForgetEffect DEF CommandFails
<1>2. DataOK'
  BY <1>0, <1>1 DEF DataOK, States
<1>3. LockFits'
  BY <1>0, Names DEF LockFits, DataOK
<1>4. "closed" \in States /\ m \in Commands \cup {Refresher}
  BY DEF States
<1>5. \A b \in Actors : b # m => knock'[b] = knock[b]
  BY <1>0, <1>1 DEF DataOK
<1>6. QED
  BY <1>0, <1>2, <1>3, <1>4, <1>5, OtherStep

LEMMA TickStep ==
    ASSUME ClientInv, Tick
    PROVE  ClientInv'
<1>1. /\ now' = now + 1
      /\ held' = [s \in Reachable |-> IF lock # None THEN held[s] + 1 ELSE held[s]]
      /\ UNCHANGED <<lock, active, pc, due, todo, round, tried, file, knock, high,
                     allowUntil, missed>>
  BY DEF Tick, failoverVars, serverVars
<1>2. held' \in [Reachable -> Nat]
  BY <1>1 DEF ClientInv, DataOK
<1>3. DataOK'
  BY <1>1, <1>2 DEF ClientInv, DataOK
<1>4. QED
  BY <1>1, <1>3 DEF ClientInv, LockFits, Targeted, ConnFits

LEMMA ClientStep == ClientInv /\ [Next]_vars => ClientInv'
<1> SUFFICES ASSUME ClientInv, [Next]_vars PROVE ClientInv'
  OBVIOUS
<1>1. ASSUME NEW c \in Conns, Connection(c) PROVE ClientInv'
  BY <1>1, BeginStep, NextRoundStep, AttemptStep, KnockStep, ConnectedStep, SetActiveStep,
     FailsStep, CloseStep DEF Connection
<1>2. CASE Refresh
  BY <1>2, WakeStep, RefreshLockStep, RefreshKnockStep, RefreshFailsStep,
     RefreshReturnsStep DEF Refresh
<1>3. ASSUME NEW m \in Commands, Command(m) PROVE ClientInv'
  BY <1>3, CommandReadsStep, CommandKnocksStep, CommandFailsStep DEF Command
<1>4. CASE Tick
  BY <1>4, TickStep
<1>5. CASE UNCHANGED vars
  <2>1. UNCHANGED <<now, file, lock, active, knock, pc, todo, round, tried, due, high,
                    allowUntil, held, missed>>
    BY <1>5 DEF vars
  <2>2. DataOK'
    BY <2>1 DEF ClientInv, DataOK
  <2>3. QED
    BY <2>1, <2>2 DEF ClientInv, LockFits, Targeted, ConnFits
<1>6. QED
  BY <1>1, <1>2, <1>3, <1>4, <1>5 DEF Next

(* main.rs, any number of connections, commands and servers: types, and    *)
(* counter_lock is held exactly by a thread inside                         *)
(* connect_noise_with_failover or by a refresh inside send_spa.            *)
THEOREM TypeCorrect == Spec => []TypeOK
<1>1. ClientInv => TypeOK
  BY TypeParts DEF ClientInv
<1>2. QED
  BY <1>1, ClientInit, ClientStep, PTL DEF Spec


------------------------------------------------------------------------------
(* The counters.                                                           *)

Alone == \A m \in Commands : pc[m] = "new"

(* Without a command, the thread about to send has read the latest content *)
(* of the counter file.                                                    *)
CounterInv ==
    Alone => \A a \in Conns \cup {Refresher} : pc[a] = "knock" => knock[a].stored = file

(* A step that sends nothing.                                              *)
LEMMA QuietStep ==
    ASSUME CounterInv, Alone' => Alone, file' = file,
           \A a \in Conns \cup {Refresher} : pc'[a] = "knock" =>
               \/ pc[a] = "knock" /\ knock'[a] = knock[a]
               \/ knock'[a].stored = file
    PROVE  CounterInv'
BY DEF CounterInv

(* A step in which a thread that holds the lock leaves "knock".            *)
LEMMA SendingStep ==
    ASSUME ClientInv, NEW a \in Conns \cup {Refresher},
           pc[a] = "knock", NEW p \in States, p # "knock",
           pc' = [pc EXCEPT ![a] = p]
    PROVE  CounterInv'
<1>0. a \in Actors /\ DataOK
  BY Names DEF ClientInv
<1>1. ASSUME NEW b \in Conns \cup {Refresher} PROVE pc'[b] # "knock"
  <2>1. b \in Actors /\ (b = a => pc'[b] = p) /\ (b # a => pc'[b] = pc[b])
    BY <1>0, Names DEF DataOK
  <2>2. CASE b = a
    BY <2>1, <2>2
  <2>3. CASE b # a
    BY <2>1, <2>3, Names DEF ClientInv, LockFits, Holding
  <2>4. QED
    BY <2>2, <2>3
<1>2. QED
  BY <1>1 DEF CounterInv

LEMMA CounterStep ==
    ASSUME ClientInv, CounterInv, [Next]_vars
    PROVE  CounterInv' /\ (Alone' => Alone)
<1> DEFINE Goal == CounterInv' /\ (Alone' => Alone)
<1>0. /\ DataOK /\ LockFits /\ Refresher \in Actors
      /\ \A c \in Conns : c \in Actors /\ c \notin Commands
      /\ \A m \in Commands : m \in Actors
      /\ Refresher \notin Commands
  BY Names DEF ClientInv
<1>1. ASSUME NEW c \in Conns, NEW p \in States, ConnMoves(c, p)
      PROVE  /\ Alone' => Alone
             /\ pc'[c] = p
             /\ \A a \in Actors : a # c => pc'[a] = pc[a]
  <2>1. /\ pc'[c] = p
        /\ \A a \in Actors : a # c => pc'[a] = pc[a]
    BY <1>0, <1>1, MovesEffect
  <2>2. QED
    BY <1>0, <2>1 DEF Alone
<1>2. ASSUME NEW c \in Conns, NEW p \in States, ConnMoves(c, p), p # "knock",
             file' = file, \A a \in Actors : a # c => knock'[a] = knock[a]
      PROVE  Goal
  <2>1. \A a \in Conns \cup {Refresher} : pc'[a] = "knock" =>
            pc[a] = "knock" /\ knock'[a] = knock[a]
    BY <1>0, <1>1, <1>2
  <2>2. QED
    BY <1>1, <1>2, <2>1, QuietStep
<1>3. ASSUME NEW c \in Conns, Connection(c) PROVE Goal
  <2> /\ "attempt" \in States /\ "knock" \in States /\ "connect" \in States
      /\ "connected" \in States /\ "open" \in States /\ "retry" \in States
      /\ "failed" \in States /\ "closed" \in States
    BY DEF States
  <2>1. ASSUME NEW o \in Orders, BeginConnect(c, o) PROVE Goal
    BY <1>2, <2>1, BeginStep DEF BeginConnect, knockVars
  <2>2. ASSUME NEW o \in Orders, NextRound(c, o) PROVE Goal
    BY <1>2, <2>2, NextRoundStep DEF NextRound, knockVars
  <2>3. CASE Attempt(c)
    <3>1. ConnMoves(c, "knock") /\ file' = file
      BY <2>3, AttemptStep DEF Attempt
    <3>2. PICK k \in Request : knock' = [knock EXCEPT ![c] = k] /\ k.stored = file
      BY <2>3, AttemptStep
    <3>3. knock'[c].stored = file /\ \A a \in Actors : a # c => knock'[a] = knock[a]
      BY <1>0, <3>2 DEF DataOK
    <3>4. QED
      BY <1>0, <1>1, <3>1, <3>3, QuietStep
  <2>4. CASE Knock(c)
    <3>1. ConnMoves(c, "connect")
      BY <2>4, KnockStep
    <3>2. /\ pc' = [pc EXCEPT ![c] = "connect"] /\ pc[c] = "knock"
          /\ c \in Conns \cup {Refresher}
      BY <2>4 DEF Knock
    <3>3. QED
      BY <1>1, <3>1, <3>2, SendingStep
  <2>5. CASE Connected(c)
    BY <1>2, <2>5, ConnectedStep DEF Connected, knockVars
  <2>6. CASE SetActive(c)
    BY <1>2, <2>6, SetActiveStep DEF SetActive, knockVars
  <2>7. CASE AttemptFails(c)
    <3>1. file' = file /\ \A a \in Actors : a # c => knock'[a] = knock[a]
      BY <2>7, FailsStep DEF AttemptFails
    <3>2. ConnMoves(c, "attempt") \/ ConnMoves(c, "retry") \/ ConnMoves(c, "failed")
      BY <2>7, FailsStep
    <3>3. QED
      BY <1>2, <3>1, <3>2
  <2>8. CASE CloseTunnel(c)
    BY <1>2, <2>8, CloseStep DEF CloseTunnel, knockVars
  <2>9. QED
    BY <1>3, <2>1, <2>2, <2>3, <2>4, <2>5, <2>6, <2>7, <2>8 DEF Connection
<1>4. ASSUME NEW p \in States, pc' = [pc EXCEPT ![Refresher] = p]
      PROVE  /\ Alone' => Alone
             /\ pc'[Refresher] = p
             /\ \A a \in Actors : a # Refresher => pc'[a] = pc[a]
  <2>1. /\ pc'[Refresher] = p
        /\ \A a \in Actors : a # Refresher => pc'[a] = pc[a]
    BY <1>0, <1>4 DEF DataOK
  <2>2. QED
    BY <1>0, <2>1 DEF Alone
<1>5. CASE Refresh
  <2> /\ "lock" \in States /\ "knock" \in States /\ "sleep" \in States
      /\ "sent" \in States
    BY DEF States
  <2>1. CASE Wake
    <3>0. file' = file
      BY <2>1 DEF Wake
    <3>1. CASE pc' = pc /\ knock' = knock
      BY <3>0, <3>1, QuietStep DEF Alone
    <3>2. CASE /\ pc' = [pc EXCEPT ![Refresher] = "lock"]
               /\ \E k \in Request : knock' = [knock EXCEPT ![Refresher] = k]
      <4>1. \A a \in Actors : a # Refresher => knock'[a] = knock[a]
        BY <1>0, <3>2 DEF DataOK
      <4>2. QED
        BY <1>0, <1>4, <3>0, <3>2, <4>1, QuietStep
    <3>3. QED
      BY <2>1, <3>1, <3>2, WakeStep
  <2>2. CASE RefreshLock
    <3>0. file' = file /\ pc' = [pc EXCEPT ![Refresher] = "knock"]
      BY <2>2 DEF RefreshLock
    <3>1. PICK k \in Request : knock' = [knock EXCEPT ![Refresher] = k] /\ k.stored = file
      BY <2>2, RefreshLockStep
    <3>2. /\ knock'[Refresher].stored = file
          /\ \A a \in Actors : a # Refresher => knock'[a] = knock[a]
      BY <1>0, <3>1 DEF DataOK
    <3>3. QED
      BY <1>0, <1>4, <3>0, <3>2, QuietStep
  <2>3. CASE RefreshKnock \/ RefreshFails
    <3>1. /\ pc' = [pc EXCEPT ![Refresher] = "sent"] /\ pc[Refresher] = "knock"
          /\ Refresher \in Conns \cup {Refresher}
      BY <2>3 DEF RefreshKnock, RefreshFails
    <3>2. QED
      BY <1>4, <3>1, SendingStep
  <2>4. CASE RefreshReturns
    <3>1. pc' = [pc EXCEPT ![Refresher] = "sleep"] /\ UNCHANGED <<file, knock>>
      BY <2>4 DEF RefreshReturns, knockVars
    <3>2. QED
      BY <1>0, <1>4, <3>1, QuietStep
  <2>5. QED
    BY <1>5, <2>1, <2>2, <2>3, <2>4 DEF Refresh
<1>6. ASSUME NEW m \in Commands, Command(m) PROVE Goal
  <2>1. pc' = [pc EXCEPT ![m] = "knock"] \/ pc' = [pc EXCEPT ![m] = "closed"]
    BY <1>6 DEF Command, CommandReads, CommandKnocks, CommandFails
  <2>2. ~Alone'
    BY <1>0, <2>1 DEF Alone, DataOK
  <2>3. QED
    BY <2>2 DEF CounterInv
<1>7. CASE Tick
  <2>1. UNCHANGED <<file, knock, pc>>
    BY <1>7 DEF Tick
  <2>2. QED
    BY <2>1, QuietStep DEF Alone
<1>8. CASE UNCHANGED vars
  <2>1. UNCHANGED <<file, knock, pc>>
    BY <1>8 DEF vars
  <2>2. QED
    BY <2>1, QuietStep DEF Alone
<1>9. QED
  BY <1>3, <1>5, <1>6, <1>7, <1>8 DEF Next

LEMMA CounterInit == Init => CounterInv
<1> SUFFICES ASSUME Init PROVE CounterInv
  OBVIOUS
<1>1. \A a \in Actors : pc[a] # "knock"
  BY DEF Init
<1>2. QED
  BY <1>1, Names DEF CounterInv

(* next_counter, any number of threads and servers: until a one-shot       *)
(* command uses the same counter file, each knock carries a counter above  *)
(* all earlier ones, because every thread reads, writes and sends with     *)
(* counter_lock in hand.                                                   *)
THEOREM CountersIncrease == Spec => IssuedCountersIncrease
<1>1. ClientInv /\ CounterInv /\ [Next]_vars =>
        ((\A m \in Commands : pc'[m] = "new")
            /\ (\E a \in Actors : pc[a] = "knock" /\ SendKnock(a))
            => file' > file)
  <2> SUFFICES ASSUME ClientInv, CounterInv, [Next]_vars, Alone',
                      NEW a \in Actors, pc[a] = "knock", SendKnock(a)
               PROVE  file' > file
    BY DEF Alone
  <2>1. Alone /\ DataOK /\ knock[a].server \in Servers
    BY CounterStep DEF ClientInv, Targeted
  <2>2. a \in Conns \cup {Refresher}
    BY <2>1 DEF Alone, Actors
  <2>3. knock[a].stored = file
    BY <2>1, <2>2 DEF CounterInv
  <2>4. file' > knock[a].stored
    BY <2>1, SendEffect
  <2>5. QED
    BY <2>3, <2>4
<1>2. ClientInv /\ CounterInv /\ [Next]_vars => (ClientInv /\ CounterInv)'
  BY ClientStep, CounterStep
<1>3. QED
  BY <1>1, <1>2, ClientInit, CounterInit, PTL DEF Spec, IssuedCountersIncrease


------------------------------------------------------------------------------
(* Failover.                                                               *)

Left(q) == { q[i] : i \in 1..Len(q) }
Distinct(q) == \A i, j \in 1..Len(q) : q[i] = q[j] => i = j

(* The candidates still to come in this round were tried in the earlier    *)
(* rounds only, the others in this one too.                                *)
Counted(c, coming) ==
    \A s \in Servers : tried[c][s] = IF s \in coming THEN round[c] - 1 ELSE round[c]

TriedFits(c) ==
    /\ Distinct(todo[c])
    /\ \A s \in Servers : tried[c][s] <= MaxRetries + 1
    /\ pc[c] = "new" => \A s \in Servers : tried[c][s] = 0
    /\ pc[c] = "attempt" => Counted(c, Left(todo[c]))
    /\ pc[c] \in {"knock", "connect"} => Counted(c, Left(Tail(todo[c])))
    /\ pc[c] = "retry" => Counted(c, {})
    /\ pc[c] = "failed" => \A s \in Servers : tried[c][s] = MaxRetries + 1

TriedInv == \A c \in Conns : TriedFits(c)

(* Taking the first of different candidates.                               *)
LEMMA TakeFirst ==
    ASSUME NEW S, NEW q \in Seq(S), q # <<>>, Distinct(q)
    PROVE  /\ Distinct(Tail(q))
           /\ Left(Tail(q)) = Left(q) \ {Head(q)}
           /\ Head(q) \in Left(q)
<1>n. PICK n \in Nat : n = Len(q)
  BY SeqParts
<1>t. PICK t \in Seq(S) : t = Tail(q)
  BY SeqParts
<1>1. n >= 1 /\ Len(t) = n - 1 /\ Head(q) = q[1]
  BY <1>n, <1>t, SeqParts
<1>2. \A i \in 1..(n - 1) : t[i] = q[i + 1]
  BY <1>n, <1>t, SeqParts
<1>3. \A i, j \in 1..n : q[i] = q[j] => i = j
  BY <1>n DEF Distinct
<1>4. \A i \in 1..(n - 1) : i + 1 \in 1..n /\ i + 1 # 1
  BY <1>n
<1>5. \A i, j \in 1..(n - 1) : t[i] = t[j] => i = j
  <2>1. SUFFICES ASSUME NEW i \in 1..(n - 1), NEW j \in 1..(n - 1), t[i] = t[j]
                 PROVE  i = j
    OBVIOUS
  <2>2. q[i + 1] = q[j + 1]
    BY <1>2, <2>1
  <2>3. i + 1 = j + 1
    BY <1>3, <1>4, <2>2
  <2>4. QED
    BY <2>3
<1>6. Distinct(t)
  BY <1>1, <1>5 DEF Distinct
<1>7. 1 \in 1..n
  BY <1>1
<1>8. Left(t) = { t[i] : i \in 1..(n - 1) } /\ Left(q) = { q[i] : i \in 1..n }
  BY <1>1, <1>n DEF Left
<1>9. Head(q) \in Left(q)
  BY <1>1, <1>7, <1>8
<1>10. Left(t) \subseteq Left(q) \ {Head(q)}
  <2>1. SUFFICES ASSUME NEW i \in 1..(n - 1) PROVE t[i] \in Left(q) /\ t[i] # q[1]
    BY <1>1, <1>8
  <2>2. i + 1 \in 1..n /\ i + 1 # 1 /\ t[i] = q[i + 1]
    BY <1>2, <1>4
  <2>3. QED
    BY <1>3, <1>7, <1>8, <2>2
<1>11. Left(q) \ {Head(q)} \subseteq Left(t)
  <2>1. SUFFICES ASSUME NEW i \in 1..n, q[i] # q[1] PROVE q[i] \in Left(t)
    BY <1>1, <1>8
  <2>2. i # 1
    BY <2>1
  <2>3. i - 1 \in 1..(n - 1) /\ (i - 1) + 1 = i
    BY <2>2
  <2>4. t[i - 1] = q[i]
    BY <1>2, <2>3
  <2>5. QED
    BY <1>8, <2>3, <2>4
<1>12. QED
  BY <1>6, <1>9, <1>10, <1>11, <1>t

LEMMA OrderIsFull ==
    ASSUME NEW o \in Orders
    PROVE  Distinct(o) /\ \A s \in Servers : s \in Left(o)
<1>1. Distinct(o)
  BY OrdersAssumption DEF Distinct
<1>2. ASSUME NEW s \in Servers PROVE s \in Left(o)
  <2>1. PICK i \in 1..Len(o) : o[i] = s
    BY OrdersAssumption
  <2>2. QED
    BY <2>1 DEF Left
<1>3. QED
  BY <1>1, <1>2

LEMMA EmptyTail ==
    ASSUME NEW S, NEW q \in Seq(S), Len(q) = 1
    PROVE  Left(Tail(q)) = {}
<1>1. q # <<>>
  OBVIOUS
<1>2. Len(Tail(q)) = 0
  BY <1>1
<1>3. 1..0 = {}
  OBVIOUS
<1>4. QED
  BY <1>2, <1>3 DEF Left

(* A step of connection c leaves the others' failover alone.               *)
LEMMA TriedFrame ==
    ASSUME ClientInv, TriedInv, NEW c \in Conns, NEW p \in States, ConnMoves(c, p),
           \A d \in Conns : d # c => /\ todo'[d] = todo[d] /\ round'[d] = round[d]
                                     /\ tried'[d] = tried[d],
           TriedFits(c)'
    PROVE  TriedInv'
<1>1. \A a \in Actors : a # c => pc'[a] = pc[a]
  BY MovesEffect DEF ClientInv
<1>2. ASSUME NEW d \in Conns, d # c PROVE TriedFits(d)'
  BY <1>1, <1>2, Names DEF TriedInv, TriedFits, Counted
<1>3. QED
  BY <1>2 DEF TriedInv

(* A step of c that begins a round, with the failover counts as they were. *)
LEMMA RoundBegins ==
    ASSUME ClientInv, TriedInv, NEW c \in Conns, NEW o \in Orders, ConnMoves(c, "attempt"),
           todo' = [todo EXCEPT ![c] = o], NEW r \in 0..MaxRetries,
           round' = [round EXCEPT ![c] = r + 1], tried' = tried,
           \A s \in Servers : tried[c][s] = r
    PROVE  TriedInv'
<1>0. DataOK /\ LockFits /\ TriedFits(c) /\ MaxRetries \in Nat /\ "attempt" \in States
  BY TimesAssumption DEF ClientInv, TriedInv, States
<1>1. pc'[c] = "attempt"
  BY <1>0, MovesEffect
<1>2. /\ todo'[c] = o /\ round'[c] = r + 1
      /\ \A d \in Conns : d # c => todo'[d] = todo[d] /\ round'[d] = round[d]
  BY <1>0 DEF DataOK
<1>3. (r + 1) - 1 = r
  OBVIOUS
<1>4. \A s \in Servers : tried'[c][s] = round'[c] - 1
  BY <1>2, <1>3
<1>5. TriedFits(c)'
  BY <1>0, <1>1, <1>2, <1>4, OrderIsFull DEF TriedFits, Counted
<1>6. QED
  BY <1>0, <1>2, <1>5, TriedFrame

LEMMA AttemptCounts ==
    ASSUME ClientInv, TriedInv, NEW c \in Conns, Attempt(c)
    PROVE  TriedInv'
<1>0. /\ DataOK /\ LockFits /\ ConnFits(c) /\ TriedFits(c)
      /\ MaxRetries \in Nat /\ "knock" \in States /\ pc[c] = "attempt"
  BY TimesAssumption DEF ClientInv, TriedInv, States, Attempt
<1>1. ConnMoves(c, "knock") /\ UNCHANGED <<todo, round>>
  BY AttemptStep DEF Attempt
<1>2. pc'[c] = "knock"
  BY <1>0, <1>1, MovesEffect
<1>h. PICK h \in Servers : h = Head(todo[c])
  BY AttemptStep
<1>3. tried' = [tried EXCEPT ![c][h] = tried[c][h] + 1]
  BY <1>h, AttemptStep
<1>q. PICK q \in Seq(Servers) : q = todo[c]
  BY <1>0 DEF DataOK
<1>4. /\ Left(Tail(q)) = Left(q) \ {h} /\ h \in Left(q) /\ Distinct(q)
  <2>1. q # <<>> /\ Distinct(q)
    BY <1>0, <1>q DEF ConnFits, TriedFits
  <2>2. QED
    BY <1>h, <1>q, <2>1, TakeFirst
<1>5. round[c] \in Nat /\ round[c] >= 1 /\ round[c] <= MaxRetries + 1
  BY <1>0 DEF DataOK, ConnFits
<1>6. \A s \in Servers : tried[c][s] = IF s \in Left(q) THEN round[c] - 1 ELSE round[c]
  BY <1>0, <1>q DEF TriedFits, Counted
<1>7. /\ tried'[c][h] = tried[c][h] + 1
      /\ \A s \in Servers : s # h => tried'[c][s] = tried[c][s]
      /\ \A d \in Conns : d # c => tried'[d] = tried[d]
  BY <1>0, <1>3 DEF DataOK
<1>8. tried'[c][h] = round[c]
  BY <1>4, <1>5, <1>6, <1>7
<1>9. \A s \in Servers : tried'[c][s] = IF s \in Left(Tail(q)) THEN round[c] - 1 ELSE round[c]
  BY <1>4, <1>6, <1>7, <1>8
<1>10. \A s \in Servers : tried'[c][s] <= MaxRetries + 1
  BY <1>0, <1>5, <1>9
<1>11. TriedFits(c)'
  BY <1>0, <1>1, <1>2, <1>4, <1>9, <1>10, <1>q DEF TriedFits, Counted
<1>12. QED
  BY <1>0, <1>1, <1>7, <1>11, TriedFrame

LEMMA FailsCounts ==
    ASSUME ClientInv, TriedInv, NEW c \in Conns, AttemptFails(c)
    PROVE  TriedInv'
<1>0. /\ DataOK /\ LockFits /\ ConnFits(c) /\ TriedFits(c)
      /\ pc[c] \in {"knock", "connect"}
      /\ UNCHANGED <<round, tried>> /\ todo' = [todo EXCEPT ![c] = Tail(todo[c])]
  BY FailsStep DEF ClientInv, TriedInv, AttemptFails
<1>s. "attempt" \in States /\ "retry" \in States /\ "failed" \in States
  BY DEF States
<1>q. PICK q \in Seq(Servers) : q = todo[c]
  BY <1>0 DEF DataOK
<1>1. q # <<>> /\ Distinct(q)
  BY <1>0, <1>q DEF ConnFits, TriedFits
<1>2. Distinct(Tail(q))
  BY <1>1, TakeFirst
<1>3. /\ todo'[c] = Tail(q)
      /\ \A d \in Conns : d # c => todo'[d] = todo[d]
  BY <1>0, <1>q DEF DataOK
<1>4. Counted(c, Left(Tail(q))) /\ \A s \in Servers : tried[c][s] <= MaxRetries + 1
  BY <1>0, <1>q DEF TriedFits
<1>5. CASE Len(todo[c]) > 1 /\ ConnMoves(c, "attempt")
  <2>1. pc'[c] = "attempt"
    BY <1>0, <1>5, <1>s, MovesEffect
  <2>2. TriedFits(c)'
    BY <1>0, <1>2, <1>3, <1>4, <2>1 DEF TriedFits, Counted
  <2>3. QED
    BY <1>0, <1>3, <1>5, <1>s, <2>2, TriedFrame
<1>6. CASE Len(todo[c]) = 1 /\ ConnMoves(c, "retry")
  <2>1. pc'[c] = "retry"
    BY <1>0, <1>6, <1>s, MovesEffect
  <2>2. Left(Tail(q)) = {}
    BY <1>6, <1>q, EmptyTail
  <2>3. TriedFits(c)'
    BY <1>0, <1>2, <1>3, <1>4, <2>1, <2>2 DEF TriedFits, Counted
  <2>4. QED
    BY <1>0, <1>3, <1>6, <1>s, <2>3, TriedFrame
<1>7. CASE Len(todo[c]) = 1 /\ round[c] = MaxRetries + 1 /\ ConnMoves(c, "failed")
  <2>1. pc'[c] = "failed"
    BY <1>0, <1>7, <1>s, MovesEffect
  <2>2. Left(Tail(q)) = {}
    BY <1>7, <1>q, EmptyTail
  <2>3. \A s \in Servers : tried[c][s] = MaxRetries + 1
    BY <1>4, <1>7, <2>2 DEF Counted
  <2>4. TriedFits(c)'
    BY <1>0, <1>2, <1>3, <1>4, <2>1, <2>3 DEF TriedFits
  <2>5. QED
    BY <1>0, <1>3, <1>7, <1>s, <2>4, TriedFrame
<1>8. QED
  BY <1>5, <1>6, <1>7, FailsStep

LEMMA TriedStep ==
    ASSUME ClientInv, TriedInv, [Next]_vars
    PROVE  TriedInv'
<1>0. DataOK /\ LockFits /\ MaxRetries \in Nat
  BY TimesAssumption DEF ClientInv
<1>1. ASSUME UNCHANGED <<todo, round, tried>>, \A c \in Conns : pc'[c] = pc[c]
      PROVE  TriedInv'
  BY <1>1 DEF TriedInv, TriedFits, Counted
<1>2. ASSUME NEW c \in Conns, NEW p \in {"connect", "connected", "open", "closed"},
             ConnMoves(c, p), UNCHANGED <<todo, round, tried>>,
             p = "connect" => pc[c] = "knock"
      PROVE  TriedInv'
  <2>1. p \in States
    BY DEF States
  <2>2. pc'[c] = p
    BY <1>0, <1>2, <2>1, MovesEffect
  <2>3. TriedFits(c)'
    BY <1>2, <2>2 DEF TriedInv, TriedFits, Counted
  <2>4. QED
    BY <1>2, <2>1, <2>3, TriedFrame
<1>3. ASSUME NEW c \in Conns, Connection(c) PROVE TriedInv'
  <2>1. ASSUME NEW o \in Orders, BeginConnect(c, o) PROVE TriedInv'
    <3>1. /\ ConnMoves(c, "attempt") /\ todo' = [todo EXCEPT ![c] = o]
          /\ round' = [round EXCEPT ![c] = 1] /\ tried' = tried
      BY <2>1, BeginStep DEF BeginConnect
    <3>2. \A s \in Servers : tried[c][s] = 0
      BY <2>1 DEF BeginConnect, TriedInv, TriedFits
    <3>3. 0 \in 0..MaxRetries /\ 0 + 1 = 1
      BY <1>0
    <3>4. QED
      BY <3>1, <3>2, <3>3, RoundBegins
  <2>2. ASSUME NEW o \in Orders, NextRound(c, o) PROVE TriedInv'
    <3>1. /\ ConnMoves(c, "attempt") /\ todo' = [todo EXCEPT ![c] = o]
          /\ round' = [round EXCEPT ![c] = round[c] + 1] /\ tried' = tried
          /\ pc[c] = "retry"
      BY <2>2, NextRoundStep DEF NextRound
    <3>2. \A s \in Servers : tried[c][s] = round[c]
      BY <3>1 DEF TriedInv, TriedFits, Counted
    <3>3. round[c] \in 0..MaxRetries
      <4>1. round[c] \in 0..(MaxRetries + 1) /\ round[c] <= MaxRetries
        BY <1>0, <3>1 DEF ClientInv, ConnFits, DataOK
      <4>2. QED
        BY <1>0, <4>1
    <3>4. QED
      BY <3>1, <3>2, <3>3, RoundBegins
  <2>3. CASE Attempt(c)
    BY <2>3, AttemptCounts
  <2>4. CASE Knock(c)
    BY <1>2, <2>4, KnockStep DEF Knock, failoverVars
  <2>5. CASE Connected(c)
    BY <1>2, <2>5, ConnectedStep DEF Connected, failoverVars
  <2>6. CASE SetActive(c)
    BY <1>2, <2>6, SetActiveStep DEF SetActive, failoverVars
  <2>7. CASE AttemptFails(c)
    BY <2>7, FailsCounts
  <2>8. CASE CloseTunnel(c)
    BY <1>2, <2>8, CloseStep DEF CloseTunnel, failoverVars
  <2>9. QED
    BY <1>3, <2>1, <2>2, <2>3, <2>4, <2>5, <2>6, <2>7, <2>8 DEF Connection
<1>4. ASSUME NEW a \in Commands \cup {Refresher}, NEW p \in States,
             pc' = [pc EXCEPT ![a] = p], UNCHANGED <<todo, round, tried>>
      PROVE  TriedInv'
  <2>1. \A c \in Conns : pc'[c] = pc[c]
    BY <1>0, <1>4, Names DEF DataOK
  <2>2. QED
    BY <1>1, <1>4, <2>1
<1>5. CASE Refresh
  <2> /\ "lock" \in States /\ "knock" \in States /\ "sleep" \in States
      /\ "sent" \in States
    BY DEF States
  <2>1. CASE Wake
    <3>1. UNCHANGED <<todo, round, tried>>
      BY <2>1 DEF Wake, failoverVars
    <3>2. CASE pc' = pc
      BY <1>1, <3>1, <3>2
    <3>3. CASE pc' = [pc EXCEPT ![Refresher] = "lock"]
      BY <1>4, <3>1, <3>3
    <3>4. QED
      BY <2>1, <3>2, <3>3, WakeStep
  <2>2. CASE RefreshLock
    BY <1>4, <2>2 DEF RefreshLock, failoverVars
  <2>3. CASE RefreshKnock \/ RefreshFails \/ RefreshReturns
    BY <1>4, <2>3 DEF RefreshKnock, RefreshFails, RefreshReturns, failoverVars
  <2>4. QED
    BY <1>5, <2>1, <2>2, <2>3 DEF Refresh
<1>6. ASSUME NEW m \in Commands, Command(m) PROVE TriedInv'
  <2>1. "knock" \in States /\ "closed" \in States
    BY DEF States
  <2>2. /\ pc' = [pc EXCEPT ![m] = "knock"] \/ pc' = [pc EXCEPT ![m] = "closed"]
        /\ UNCHANGED <<todo, round, tried>>
    BY <1>6 DEF Command, CommandReads, CommandKnocks, CommandFails, failoverVars
  <2>3. QED
    BY <1>4, <2>1, <2>2
<1>7. CASE Tick
  BY <1>1, <1>7 DEF Tick, failoverVars
<1>8. CASE UNCHANGED vars
  BY <1>1, <1>8 DEF vars
<1>9. QED
  BY <1>3, <1>5, <1>6, <1>7, <1>8 DEF Next

LEMMA TriedInit == Init => TriedInv
<1> SUFFICES ASSUME Init, NEW c \in Conns PROVE TriedFits(c)
  BY DEF TriedInv
<1>1. pc[c] = "new" /\ todo[c] = <<>> /\ \A s \in Servers : tried[c][s] = 0
  BY Names DEF Init
<1>2. Distinct(<<>>) /\ 0 <= MaxRetries + 1
  BY TimesAssumption DEF Distinct
<1>3. QED
  BY <1>1, <1>2 DEF TriedFits

(* connect_noise_with_failover, any number of candidates, rounds and       *)
(* connections and any order in each round: no candidate is tried more     *)
(* than max_retries + 1 times, and a connection that failed tried each one *)
(* exactly that often.                                                     *)
THEOREM FailoverIsThorough == Spec => []GivesUpLast
<1>1. Init => ClientInv /\ TriedInv
  BY ClientInit, TriedInit
<1>2. ClientInv /\ TriedInv /\ [Next]_vars => (ClientInv /\ TriedInv)'
  BY ClientStep, TriedStep
<1>3. TriedInv => GivesUpLast
  BY DEF TriedInv, TriedFits, GivesUpLast
<1>4. QED
  BY <1>1, <1>2, <1>3, PTL DEF Spec

------------------------------------------------------------------------------
(* An open tunnel and its allow entry, when one server is up.              *)

(* With an entry until a, a lock held for h and m knocks in vain since it  *)
(* was made: the client is not worse off at t than TunnelStaysAllowed says.*)
Covers(t, a, h, m) ==
    /\ m = 0 => t + Ttl <= a + Interval + h
    /\ t <= a + m * Interval + h

(* When the refresh thread knocks or sleeps again at the earliest.         *)
Alarm ==
    IF pc[Refresher] = "sleep" THEN due[Refresher]
    ELSE IF pc[Refresher] = "sent" THEN now + Interval ELSE now

(* Only r lets the client in, and the refresh thread works for r from the  *)
(* first tunnel on.                                                        *)
ServerFits(r) ==
    /\ \A s \in Servers : s # r => allowUntil[s] = 0
    /\ active \in {None, r}
    /\ \A c \in Conns : pc[c] \in {"connected", "open"} => knock[c].server = r
    /\ \A c \in Conns : pc[c] = "open" => active = r
    /\ pc[Refresher] # "sleep" => active = r /\ knock[Refresher].server = r

(* The refresh thread does not oversleep.                                  *)
ClockFits ==
    pc[Refresher] = "sleep" => now <= due[Refresher] /\ due[Refresher] <= now + Interval

(* The last accepted knock is only as old as the lock was held since.      *)
Fresh(r) == missed[r] = 0 => now + Ttl <= allowUntil[r] + held[r]

(* So it is for a thread that has knocked at r and for one just connected. *)
FreshFits(r) ==
    \A c \in Conns :
        /\ pc[c] = "connect" /\ knock[c].server = r => Fresh(r)
        /\ pc[c] = "connected" => now <= allowUntil[r] /\ Fresh(r)

Served(r) == active = r \/ \E c \in Conns : pc[c] = "connected"

ServedFits(r) == Served(r) => Covers(Alarm, allowUntil[r], held[r], missed[r])

CoverInv(r) == ServerFits(r) /\ ClockFits /\ FreshFits(r) /\ ServedFits(r)

LEMMA Times ==
    /\ Ttl \in Nat /\ Interval \in Nat /\ Interval <= Ttl
    /\ Interval = Ttl \div 2
BY TimesAssumption DEF Interval

LEMMA Product ==
    ASSUME NEW m \in Nat, NEW i \in Nat
    PROVE  /\ m * i \in Nat /\ (m + 1) * i = m * i + i
           /\ m # 0 => m * i >= i
<1>1. m * i \in Nat /\ (m + 1) * i = m * i + i
  OBVIOUS
<1>2. ASSUME m # 0 PROVE m * i >= i
  <2>1. m - 1 \in Nat
    BY <1>2
  <2>2. (m - 1) * i \in Nat /\ m * i = (m - 1) * i + i
    BY <2>1
  <2>3. QED
    BY <1>1, <2>2
<1>3. QED
  BY <1>1, <1>2

LEMMA CoversEarlier ==
    ASSUME NEW t \in Nat, NEW u \in Nat, NEW a \in Nat, NEW h \in Nat, NEW m \in Nat,
           u <= t, Covers(t, a, h, m)
    PROVE  Covers(u, a, h, m)
<1>1. PICK x \in Nat : x = m * Interval
  BY Times, Product
<1>2. QED
  BY <1>1, Times DEF Covers

(* The lock is held for a while, with or without the knock waiting for it. *)
LEMMA CoversHeld ==
    ASSUME NEW t \in Nat, NEW a \in Nat, NEW h \in Nat, NEW m \in Nat, Covers(t, a, h, m)
    PROVE  Covers(t, a, h + 1, m) /\ Covers(t + 1, a, h + 1, m)
<1>1. PICK x \in Nat : x = m * Interval
  BY Times, Product
<1>2. QED
  BY <1>1, Times DEF Covers

LEMMA CoversAccepted ==
    ASSUME NEW t \in Nat, NEW n \in Nat, t <= n + Interval
    PROVE  Covers(t, n + Ttl, 0, 0)
<1>1. 0 * Interval = 0
  BY Times
<1>2. QED
  BY <1>1, Times DEF Covers

(* A knock in vain costs one interval.                                     *)
LEMMA CoversMissed ==
    ASSUME NEW t \in Nat, NEW a \in Nat, NEW h \in Nat, NEW m \in Nat, Covers(t, a, h, m)
    PROVE  Covers(t, a, h, m + 1) /\ Covers(t + Interval, a, h, m + 1)
<1>1. PICK x \in Nat : x = m * Interval
  BY Times, Product
<1>2. (m + 1) * Interval = x + Interval /\ m + 1 # 0
  BY <1>1, Times, Product
<1>3. QED
  BY <1>1, <1>2, Times DEF Covers

LEMMA CoversFresh ==
    ASSUME NEW t \in Nat, NEW n \in Nat, NEW a \in Nat, NEW h \in Nat, NEW m \in Nat,
           n <= a, m = 0 => n + Ttl <= a + h, t <= n + Interval
    PROVE  Covers(t, a, h, m)
<1>1. PICK x \in Nat : x = m * Interval /\ (m # 0 => x >= Interval)
  BY Times, Product
<1>2. QED
  BY <1>1, Times DEF Covers

(* What r makes of a knock of a.                                           *)
Got(r) == allowUntil'[r] = now + Ttl /\ held'[r] = 0 /\ missed'[r] = 0
Missed(r) == UNCHANGED <<allowUntil[r], held[r]>> /\ missed'[r] = missed[r] + 1
Spared(r) == UNCHANGED <<allowUntil[r], held[r], missed[r]>>

LEMMA KnockEffect ==
    ASSUME NEW r \in Servers, Reachable = {r}, ClientInv, ServerFits(r),
           NEW a \in Actors, knock[a].server \in Servers, SendKnock(a)
    PROVE  /\ \A s \in Servers : s # r => allowUntil'[s] = 0
           /\ \A b \in Actors : knock'[b].server = knock[b].server
           /\ \/ Got(r)
              \/ Missed(r)
              \/ Spared(r) /\ (a \in Commands \/ knock[a].server # r)
<1>0. DataOK
  BY DEF ClientInv
<1>1. PICK n \in Nat, k \in Request :
             /\ knock' = [knock EXCEPT ![a] = k] /\ k.server = knock[a].server
             /\ \A s \in Servers : s # k.server => allowUntil'[s] = allowUntil[s]
             /\ \A s \in Reachable : s # k.server =>
                  held'[s] = held[s] /\ missed'[s] = missed[s]
             /\ Accepted(k.server, n) \/ InVain(a, k.server)
  BY <1>0, SendEffect
<1>2. \A b \in Actors : knock'[b].server = knock[b].server
  BY <1>0, <1>1 DEF DataOK
<1>3. CASE k.server = r
  <2>1. \A s \in Servers : s # r => allowUntil'[s] = 0
    BY <1>1, <1>3 DEF ServerFits
  <2>2. CASE Accepted(r, n)
    BY <1>2, <2>1, <2>2 DEF Accepted, Got
  <2>3. CASE InVain(a, r)
    BY <1>1, <1>2, <1>3, <2>1, <2>3 DEF InVain, Missed, Spared
  <2>4. QED
    BY <1>1, <1>3, <2>2, <2>3
<1>4. CASE k.server # r
  <2>1. InVain(a, k.server)
    BY <1>1, <1>4 DEF Accepted
  <2>2. \A s \in Servers : s # r => allowUntil'[s] = 0
    BY <1>1, <2>1 DEF ServerFits, InVain
  <2>3. Spared(r)
    BY <1>1, <1>4 DEF Spared
  <2>4. QED
    BY <1>1, <1>2, <1>4, <2>2, <2>3
<1>5. QED
  BY <1>3, <1>4

(* The types the arithmetic needs.                                         *)
LEMMA CoverTypes ==
    ASSUME NEW r \in Servers, Reachable = {r}, ClientInv
    PROVE  /\ now \in Nat /\ allowUntil[r] \in Nat /\ held[r] \in Nat
           /\ missed[r] \in Nat /\ due[Refresher] \in Nat /\ Alarm \in Nat
<1>1. /\ now \in Nat /\ allowUntil[r] \in Nat /\ held[r] \in Nat
      /\ missed[r] \in Nat /\ due[Refresher] \in Nat
  BY Names DEF ClientInv, DataOK
<1>2. QED
  BY <1>1, Times DEF Alarm

(* The refresh thread is due within an interval.                           *)
LEMMA AlarmNear ==
    ASSUME NEW r \in Servers, Reachable = {r}, ClientInv, ClockFits
    PROVE  now <= Alarm /\ Alarm <= now + Interval
BY CoverTypes, Times DEF Alarm, ClockFits

(* What is left of the entry after a knock, for whoever relies on it.      *)
LEMMA CoverAfterKnock ==
    ASSUME NEW r \in Servers, Reachable = {r}, ClientInv, ClientInv', CoverInv(r),
           now' = now, Got(r) \/ Missed(r) \/ Spared(r)
    PROVE  /\ Got(r) \/ Missed(r) => Fresh(r)'
           /\ Fresh(r) => Fresh(r)'
           /\ now <= allowUntil[r] => now <= allowUntil'[r]
           /\ \A t \in Nat :
                 /\ t <= now + Interval
                 /\ Covers(t, allowUntil[r], held[r], missed[r])
                 => Covers(t, allowUntil'[r], held'[r], missed'[r])
           /\ Got(r) => \A t \in Nat : t <= now + Interval
                 => Covers(t, allowUntil'[r], held'[r], missed'[r])
<1>1. /\ now \in Nat /\ allowUntil[r] \in Nat /\ held[r] \in Nat /\ missed[r] \in Nat
  BY CoverTypes
<1>2. CASE Got(r)
  <2>1. \A t \in Nat : t <= now + Interval
                 => Covers(t, allowUntil'[r], held'[r], missed'[r])
    BY <1>1, <1>2, CoversAccepted DEF Got
  <2>2. Fresh(r)' /\ now <= allowUntil'[r]
    BY <1>1, <1>2, Times DEF Got, Fresh
  <2>3. QED
    BY <2>1, <2>2
<1>3. CASE Missed(r)
  <2>1. missed'[r] # 0
    BY <1>1, <1>3 DEF Missed
  <2>2. \A t \in Nat : Covers(t, allowUntil[r], held[r], missed[r])
                 => Covers(t, allowUntil'[r], held'[r], missed'[r])
    BY <1>1, <1>3, CoversMissed DEF Missed
  <2>3. Fresh(r)' /\ allowUntil'[r] = allowUntil[r]
    BY <1>3, <2>1 DEF Fresh, Missed
  <2>4. Got(r) => FALSE
    BY <2>1 DEF Got
  <2>5. QED
    BY <2>2, <2>3, <2>4
<1>4. CASE Spared(r) /\ ~Got(r) /\ ~Missed(r)
  BY <1>4 DEF Spared, Fresh
<1>5. QED
  BY <1>2, <1>3, <1>4

(* A step of connection c that sends nothing and does not connect.         *)
LEMMA ConnRests ==
    ASSUME NEW r \in Servers, Reachable = {r}, ClientInv, CoverInv(r),
           NEW c \in Conns, NEW p \in States \ {"connect", "connected", "open"},
           pc' = [pc EXCEPT ![c] = p],
           \A a \in Actors : a # c => knock'[a] = knock[a],
           due'[Refresher] = due[Refresher],
           UNCHANGED <<now, active, allowUntil, held, missed>>
    PROVE  CoverInv(r)'
<1>1. /\ c \in Actors /\ c # Refresher /\ Refresher \in Actors /\ pc'[c] = p
      /\ \A a \in Actors : a # c => pc'[a] = pc[a]
      /\ \A d \in Conns : d \in Actors
  BY Names DEF ClientInv, DataOK
<1>2. ServerFits(r)'
  BY <1>1 DEF CoverInv, ServerFits
<1>3. ClockFits'
  BY <1>1 DEF CoverInv, ClockFits
<1>4. FreshFits(r)'
  BY <1>1 DEF CoverInv, FreshFits, Fresh
<1>5. Served(r)' => Served(r)
  BY <1>1 DEF Served
<1>6. Alarm' = Alarm
  BY <1>1 DEF Alarm
<1>7. ServedFits(r)'
  BY <1>5, <1>6 DEF CoverInv, ServedFits
<1>8. QED
  BY <1>2, <1>3, <1>4, <1>7 DEF CoverInv

LEMMA CoverKnock ==
    ASSUME NEW r \in Servers, Reachable = {r}, ClientInv, ClientInv', CoverInv(r),
           NEW c \in Conns, Knock(c)
    PROVE  CoverInv(r)'
<1>0. /\ c \in Actors /\ c # Refresher /\ Refresher \in Actors
      /\ c \notin Commands /\ pc[c] = "knock" /\ lock = c
      /\ \A d \in Conns : d \in Actors
      /\ knock[c].server \in Servers
  BY Names DEF ClientInv, Knock, LockFits, Holding, Targeted
<1>1. /\ pc'[c] = "connect" /\ \A a \in Actors : a # c => pc'[a] = pc[a]
      /\ UNCHANGED <<now, lock, active, due>> /\ SendKnock(c)
  BY <1>0 DEF ClientInv, DataOK, Knock
<1>2. /\ \A s \in Servers : s # r => allowUntil'[s] = 0
      /\ \A b \in Actors : knock'[b].server = knock[b].server
      /\ Got(r) \/ Missed(r) \/ (Spared(r) /\ knock[c].server # r)
  BY <1>0, <1>1, KnockEffect DEF CoverInv
<1>3. /\ Got(r) \/ Missed(r) => Fresh(r)'
      /\ Fresh(r) => Fresh(r)'
      /\ now <= allowUntil[r] => now <= allowUntil'[r]
  BY <1>1, <1>2, CoverAfterKnock
<1>4. ServerFits(r)'
  BY <1>0, <1>1, <1>2 DEF CoverInv, ServerFits
<1>5. ClockFits'
  BY <1>0, <1>1 DEF CoverInv, ClockFits
<1>6. FreshFits(r)'
  <2>1. SUFFICES ASSUME NEW d \in Conns
                 PROVE  /\ pc'[d] = "connect" /\ knock'[d].server = r => Fresh(r)'
                        /\ pc'[d] = "connected" => now' <= allowUntil'[r] /\ Fresh(r)'
    BY DEF FreshFits
  <2>2. CASE d = c
    BY <1>0, <1>1, <1>2, <1>3, <2>2
  <2>3. CASE d # c
    <3>1. pc'[d] = pc[d] /\ knock'[d].server = knock[d].server
      BY <1>0, <1>1, <1>2, <2>3
    <3>2. QED
      BY <1>1, <1>3, <3>1 DEF CoverInv, FreshFits
  <2>4. QED
    BY <2>2, <2>3
<1>7. Served(r)' => Served(r)
  BY <1>0, <1>1 DEF Served
<1>8. Alarm' = Alarm /\ Alarm \in Nat /\ Alarm <= now + Interval
  BY <1>0, <1>1, CoverTypes, AlarmNear DEF Alarm, CoverInv
<1>9. ServedFits(r)'
  BY <1>1, <1>2, <1>7, <1>8, CoverAfterKnock DEF CoverInv, ServedFits
<1>10. QED
  BY <1>4, <1>5, <1>6, <1>9 DEF CoverInv

LEMMA CoverConnected ==
    ASSUME NEW r \in Servers, Reachable = {r}, ClientInv, CoverInv(r),
           NEW c \in Conns, Connected(c)
    PROVE  CoverInv(r)'
<1>0. /\ c \in Actors /\ c # Refresher /\ Refresher \in Actors
      /\ \A d \in Conns : d \in Actors
      /\ knock[c].server \in Servers /\ pc[c] = "connect"
      /\ allowUntil[knock[c].server] > now
  BY Names DEF ClientInv, Connected, Targeted
<1>1. /\ pc'[c] = "connected" /\ \A a \in Actors : a # c => pc'[a] = pc[a]
      /\ UNCHANGED <<now, active, due, knock, allowUntil, held, missed>>
  BY <1>0 DEF ClientInv, DataOK, Connected, knockVars, sentVars, serverVars, historyVars
<1>t. /\ now \in Nat /\ allowUntil[r] \in Nat /\ held[r] \in Nat
      /\ missed[r] \in Nat /\ Alarm \in Nat /\ Alarm <= now + Interval
  BY CoverTypes, AlarmNear DEF CoverInv
<1>2. knock[c].server = r
  BY <1>0, <1>t DEF CoverInv, ServerFits
<1>3. now <= allowUntil[r] /\ Fresh(r)
  BY <1>0, <1>2, <1>t DEF CoverInv, FreshFits
<1>4. ServerFits(r)'
  BY <1>0, <1>1, <1>2 DEF CoverInv, ServerFits
<1>5. ClockFits'
  BY <1>0, <1>1 DEF CoverInv, ClockFits
<1>6. FreshFits(r)'
  BY <1>0, <1>1, <1>3 DEF CoverInv, FreshFits, Fresh
<1>7. Covers(Alarm, allowUntil[r], held[r], missed[r])
  BY <1>3, <1>t, CoversFresh DEF Fresh
<1>8. Alarm' = Alarm
  BY <1>0, <1>1 DEF Alarm
<1>9. ServedFits(r)'
  BY <1>1, <1>7, <1>8 DEF ServedFits
<1>10. QED
  BY <1>4, <1>5, <1>6, <1>9 DEF CoverInv

LEMMA CoverSetActive ==
    ASSUME NEW r \in Servers, Reachable = {r}, ClientInv, CoverInv(r),
           NEW c \in Conns, SetActive(c)
    PROVE  CoverInv(r)'
<1>0. /\ c \in Actors /\ c # Refresher /\ Refresher \in Actors
      /\ \A d \in Conns : d \in Actors /\ d # Refresher
      /\ pc[c] = "connected" /\ knock[c].server = r
  BY Names DEF SetActive, CoverInv, ServerFits
<1>1. /\ pc'[c] = "open" /\ \A a \in Actors : a # c => pc'[a] = pc[a]
      /\ active' = r
      /\ UNCHANGED <<now, due, knock, allowUntil, held, missed>>
  BY <1>0 DEF ClientInv, DataOK, SetActive, knockVars, sentVars, serverVars, historyVars
<1>2. ServerFits(r)'
  BY <1>0, <1>1 DEF CoverInv, ServerFits
<1>3. ClockFits'
  BY <1>0, <1>1 DEF CoverInv, ClockFits
<1>4. FreshFits(r)'
  BY <1>0, <1>1 DEF CoverInv, FreshFits, Fresh
<1>5. Served(r)
  BY <1>0 DEF Served
<1>6. Alarm' = Alarm
  BY <1>0, <1>1 DEF Alarm
<1>7. ServedFits(r)'
  BY <1>1, <1>5, <1>6 DEF CoverInv, ServedFits
<1>8. QED
  BY <1>2, <1>3, <1>4, <1>7 DEF CoverInv

(* A step of the refresh thread from wherever it is to p.                  *)
LEMMA RefreshMoves ==
    ASSUME NEW r \in Servers, Reachable = {r}, ClientInv, CoverInv(r), NEW p \in States,
           pc' = [pc EXCEPT ![Refresher] = p],
           \A c \in Conns : knock'[c] = knock[c],
           UNCHANGED <<now, active>>,
           \A s \in Servers : s # r => allowUntil'[s] = 0,
           Fresh(r) => Fresh(r)',
           now <= allowUntil[r] => now <= allowUntil'[r],
           p # "sleep" => active = r /\ knock'[Refresher].server = r,
           p = "sleep" => now <= due'[Refresher] /\ due'[Refresher] <= now + Interval,
           Served(r) => Covers(Alarm', allowUntil'[r], held'[r], missed'[r])
    PROVE  CoverInv(r)'
<1>1. /\ Refresher \in Actors /\ pc'[Refresher] = p
      /\ \A c \in Conns : pc'[c] = pc[c]
  BY Names DEF ClientInv, DataOK
<1>2. ServerFits(r)'
  BY <1>1 DEF CoverInv, ServerFits
<1>3. ClockFits'
  BY <1>1 DEF ClockFits
<1>4. FreshFits(r)'
  BY <1>1 DEF CoverInv, FreshFits
<1>5. Served(r)' => Served(r)
  BY <1>1 DEF Served
<1>6. ServedFits(r)'
  BY <1>5 DEF ServedFits
<1>7. QED
  BY <1>2, <1>3, <1>4, <1>6 DEF CoverInv

LEMMA CoverWake ==
    ASSUME NEW r \in Servers, Reachable = {r}, ClientInv, CoverInv(r), Wake
    PROVE  CoverInv(r)'
<1>0. /\ pc[Refresher] = "sleep" /\ Refresher \in Actors
      /\ \A c \in Conns : c \in Actors /\ c # Refresher
      /\ UNCHANGED <<now, active, allowUntil, held, missed>>
  BY Names DEF Wake, sentVars, serverVars, historyVars
<1>t. /\ now \in Nat /\ allowUntil[r] \in Nat /\ held[r] \in Nat
      /\ missed[r] \in Nat /\ Alarm \in Nat /\ due[Refresher] \in Nat
      /\ Interval \in Nat /\ now + Interval \in Nat
  BY CoverTypes, Times
<1>1. CASE /\ active = None /\ due' = [due EXCEPT ![Refresher] = now + Interval]
           /\ pc' = pc /\ knock' = knock
  <2>1. due'[Refresher] = now + Interval
    BY <1>0, <1>1 DEF ClientInv, DataOK
  <2>2. ServerFits(r)' /\ FreshFits(r)'
    BY <1>0, <1>1 DEF CoverInv, ServerFits, FreshFits, Fresh
  <2>3. ClockFits'
    BY <1>0, <1>1, <1>t, <2>1 DEF ClockFits
  <2>4. ASSUME Served(r) PROVE Covers(now + Interval, allowUntil[r], held[r], missed[r])
    <3>1. r # None
      BY Names
    <3>2. PICK c \in Conns : pc[c] = "connected"
      BY <1>1, <2>4, <3>1 DEF Served
    <3>3. now <= allowUntil[r] /\ Fresh(r)
      BY <3>2 DEF CoverInv, FreshFits
    <3>4. QED
      BY <1>t, <3>3, CoversFresh DEF Fresh
  <2>5. Alarm' = now + Interval
    BY <1>0, <1>1, <2>1 DEF Alarm
  <2>6. Served(r)' => Served(r)
    BY <1>0, <1>1 DEF Served
  <2>7. ServedFits(r)'
    BY <1>0, <2>4, <2>5, <2>6 DEF ServedFits
  <2>8. QED
    BY <2>2, <2>3, <2>7 DEF CoverInv
<1>2. CASE /\ active \in Servers /\ due' = due
           /\ pc' = [pc EXCEPT ![Refresher] = "lock"]
           /\ \E k \in Request : /\ knock' = [knock EXCEPT ![Refresher] = k]
                                 /\ k.server = active
  <2>1. /\ active = r /\ pc'[Refresher] = "lock"
        /\ knock'[Refresher].server = r
        /\ \A c \in Conns : knock'[c] = knock[c]
    BY <1>0, <1>2, Names DEF CoverInv, ServerFits, ClientInv, DataOK
  <2>2. Alarm' = now /\ Alarm = due[Refresher] /\ now <= due[Refresher]
    BY <1>0, <2>1 DEF Alarm, CoverInv, ClockFits
  <2>3. Covers(now, allowUntil[r], held[r], missed[r])
    <3>1. Covers(due[Refresher], allowUntil[r], held[r], missed[r])
      BY <2>1, <2>2 DEF CoverInv, ServedFits, Served
    <3>2. QED
      BY <1>t, <2>2, <3>1, CoversEarlier
  <2>4. Fresh(r)' <=> Fresh(r)
    BY <1>0 DEF Fresh
  <2>5. "lock" \in States
    BY DEF States
  <2>6. \A s \in Servers : s # r => allowUntil'[s] = 0
    BY <1>0 DEF CoverInv, ServerFits
  <2>7. QED
    BY <1>0, <1>2, <2>1, <2>2, <2>3, <2>4, <2>5, <2>6, RefreshMoves
<1>3. QED
  BY <1>1, <1>2, WakeStep

LEMMA CoverRefreshLock ==
    ASSUME NEW r \in Servers, Reachable = {r}, ClientInv, CoverInv(r), RefreshLock
    PROVE  CoverInv(r)'
<1>0. /\ pc[Refresher] = "lock" /\ Refresher \in Actors
      /\ \A c \in Conns : c \in Actors /\ c # Refresher
      /\ pc' = [pc EXCEPT ![Refresher] = "knock"]
      /\ UNCHANGED <<now, active, due, allowUntil, held, missed>>
  BY Names DEF RefreshLock, sentVars, serverVars, historyVars
<1>1. active = r /\ knock[Refresher].server = r
  BY <1>0 DEF CoverInv, ServerFits
<1>2. knock'[Refresher].server = r /\ \A c \in Conns : knock'[c] = knock[c]
  BY <1>0, <1>1, RefreshLockStep DEF ClientInv, DataOK
<1>3. pc'[Refresher] = "knock" /\ "knock" \in States
  BY <1>0 DEF ClientInv, DataOK, States
<1>4. Alarm' = Alarm
  BY <1>0, <1>3 DEF Alarm
<1>5. Served(r) => Covers(Alarm', allowUntil'[r], held'[r], missed'[r])
  BY <1>0, <1>4 DEF CoverInv, ServedFits
<1>6. Fresh(r)' <=> Fresh(r)
  BY <1>0 DEF Fresh
<1>7. \A s \in Servers : s # r => allowUntil'[s] = 0
  BY <1>0 DEF CoverInv, ServerFits
<1>8. QED
  BY <1>0, <1>1, <1>2, <1>3, <1>5, <1>6, <1>7, RefreshMoves

LEMMA CoverRefreshKnock ==
    ASSUME NEW r \in Servers, Reachable = {r}, ClientInv, ClientInv', CoverInv(r), RefreshKnock
    PROVE  CoverInv(r)'
<1>0. /\ pc[Refresher] = "knock" /\ Refresher \in Actors /\ Refresher \notin Commands
      /\ \A c \in Conns : c \in Actors /\ c # Refresher
      /\ pc' = [pc EXCEPT ![Refresher] = "sent"] /\ SendKnock(Refresher)
      /\ UNCHANGED <<now, active, due>>
  BY Names DEF RefreshKnock
<1>1. active = r /\ knock[Refresher].server = r
  BY <1>0 DEF CoverInv, ServerFits
<1>2. /\ \A s \in Servers : s # r => allowUntil'[s] = 0
      /\ knock'[Refresher].server = r
      /\ Got(r) \/ Missed(r)
  BY <1>0, <1>1, KnockEffect DEF CoverInv
<1>3. \A c \in Conns : knock'[c] = knock[c]
  <2>1. PICK k \in Request : knock' = [knock EXCEPT ![Refresher] = k]
    BY <1>0, ForgetEffect DEF SendKnock, ClientInv
  <2>2. QED
    BY <1>0, <2>1 DEF ClientInv, DataOK
<1>4. pc'[Refresher] = "sent" /\ "sent" \in States
  BY <1>0 DEF ClientInv, DataOK, States
<1>t. /\ now \in Nat /\ allowUntil[r] \in Nat /\ held[r] \in Nat
      /\ missed[r] \in Nat /\ Interval \in Nat /\ now + Interval \in Nat
      /\ now + Interval <= now + Interval
  BY CoverTypes, Times
<1>5. Alarm = now /\ Alarm' = now + Interval
  BY <1>0, <1>4 DEF Alarm
<1>6. /\ Fresh(r)'
      /\ now <= allowUntil[r] => now <= allowUntil'[r]
  BY <1>0, <1>2, CoverAfterKnock
<1>7. Covers(now + Interval, allowUntil'[r], held'[r], missed'[r])
  <2>1. CASE Got(r)
    BY <1>0, <1>t, <2>1, CoverAfterKnock
  <2>2. CASE Missed(r)
    <3>1. Covers(now, allowUntil[r], held[r], missed[r])
      BY <1>1, <1>5 DEF CoverInv, ServedFits, Served
    <3>2. QED
      BY <1>t, <2>2, <3>1, CoversMissed DEF Missed
  <2>3. QED
    BY <1>2, <2>1, <2>2
<1>8. QED
  BY <1>0, <1>1, <1>2, <1>3, <1>4, <1>5, <1>6, <1>7, RefreshMoves

LEMMA CoverRefreshFails ==
    ASSUME NEW r \in Servers, Reachable = {r}, ClientInv, CoverInv(r), RefreshFails
    PROVE  CoverInv(r)'
<1>0. /\ pc[Refresher] = "knock" /\ Refresher \in Actors
      /\ \A c \in Conns : c \in Actors /\ c # Refresher
      /\ pc' = [pc EXCEPT ![Refresher] = "sent"]
      /\ missed' = [q \in Reachable |->
                      IF q = knock[Refresher].server THEN missed[q] + 1 ELSE missed[q]]
      /\ UNCHANGED <<now, active, due, allowUntil, held>>
  BY Names DEF RefreshFails, serverVars
<1>1. active = r /\ knock[Refresher].server = r
  BY <1>0 DEF CoverInv, ServerFits
<1>2. missed'[r] = missed[r] + 1
  BY <1>0, <1>1
<1>3. PICK k \in Request : knock' = [knock EXCEPT ![Refresher] = k] /\ k.server = r
  BY <1>0, <1>1, ForgetEffect DEF RefreshFails, ClientInv
<1>4. /\ pc'[Refresher] = "sent" /\ "sent" \in States
      /\ knock'[Refresher].server = r /\ \A c \in Conns : knock'[c] = knock[c]
  BY <1>0, <1>3 DEF ClientInv, DataOK, States
<1>t. /\ now \in Nat /\ allowUntil[r] \in Nat /\ held[r] \in Nat
      /\ missed[r] \in Nat /\ missed[r] + 1 # 0
  BY CoverTypes
<1>5. Alarm = now /\ Alarm' = now + Interval
  BY <1>0, <1>4 DEF Alarm
<1>6. Fresh(r)'
  BY <1>2, <1>t DEF Fresh
<1>7. Covers(now + Interval, allowUntil'[r], held'[r], missed'[r])
  <2>1. Covers(now, allowUntil[r], held[r], missed[r])
    BY <1>1, <1>5 DEF CoverInv, ServedFits, Served
  <2>2. QED
    BY <1>0, <1>2, <1>t, <2>1, CoversMissed
<1>8. \A s \in Servers : s # r => allowUntil'[s] = 0
  BY <1>0 DEF CoverInv, ServerFits
<1>9. QED
  BY <1>0, <1>1, <1>4, <1>5, <1>6, <1>7, <1>8, RefreshMoves

LEMMA CoverRefreshReturns ==
    ASSUME NEW r \in Servers, Reachable = {r}, ClientInv, CoverInv(r), RefreshReturns
    PROVE  CoverInv(r)'
<1>0. /\ pc[Refresher] = "sent" /\ Refresher \in Actors
      /\ pc' = [pc EXCEPT ![Refresher] = "sleep"]
      /\ due' = [due EXCEPT ![Refresher] = now + Interval]
      /\ UNCHANGED <<now, active, knock, allowUntil, held, missed>>
  BY Names DEF RefreshReturns, Sleep, knockVars, sentVars, serverVars, historyVars
<1>1. /\ pc'[Refresher] = "sleep" /\ due'[Refresher] = now + Interval
      /\ "sleep" \in States
  BY <1>0 DEF ClientInv, DataOK, States
<1>2. now \in Nat /\ Interval \in Nat /\ now <= now + Interval /\ now + Interval <= now + Interval
  BY CoverTypes, Times
<1>3. Alarm' = Alarm
  BY <1>0, <1>1 DEF Alarm
<1>4. Served(r) => Covers(Alarm', allowUntil'[r], held'[r], missed'[r])
  BY <1>0, <1>3 DEF CoverInv, ServedFits
<1>5. Fresh(r)' <=> Fresh(r)
  BY <1>0 DEF Fresh
<1>6. \A s \in Servers : s # r => allowUntil'[s] = 0
  BY <1>0 DEF CoverInv, ServerFits
<1>7. QED
  BY <1>0, <1>1, <1>2, <1>4, <1>5, <1>6, RefreshMoves

(* A command may bring an entry, and costs none.                           *)
LEMMA CoverCommand ==
    ASSUME NEW r \in Servers, Reachable = {r}, ClientInv, ClientInv', CoverInv(r),
           NEW m \in Commands, Command(m)
    PROVE  CoverInv(r)'
<1>0. /\ m \in Actors /\ m # Refresher /\ m \notin Conns /\ Refresher \in Actors
      /\ \A c \in Conns : c \in Actors
  BY Names
<1>1. /\ pc' = [pc EXCEPT ![m] = "knock"] \/ pc' = [pc EXCEPT ![m] = "closed"]
      /\ UNCHANGED <<now, active, due>>
  BY DEF Command, CommandReads, CommandKnocks, CommandFails
<1>2. \A a \in Actors : a # m => pc'[a] = pc[a]
  BY <1>0, <1>1 DEF ClientInv, DataOK
<1>3. \A a \in Actors : a # m => knock'[a].server = knock[a].server
  <2>1. CASE CommandKnocks(m) \/ CommandFails(m)
    <3>1. Forget(m)
      BY <2>1 DEF CommandKnocks, CommandFails, SendKnock
    <3>2. QED
      BY <1>0, <3>1, ForgetEffect DEF ClientInv, DataOK
  <2>2. ASSUME NEW s \in Servers, CommandReads(m, s)
        PROVE  \A a \in Actors : a # m => knock'[a].server = knock[a].server
    BY <1>0, <2>2 DEF CommandReads, ReadCounter, ClientInv, DataOK
  <2>3. QED
    BY <2>1, <2>2 DEF Command
<1>4. /\ \A s \in Servers : s # r => allowUntil'[s] = 0
      /\ Got(r) \/ Missed(r) \/ Spared(r)
  <2>1. CASE CommandKnocks(m)
    <3>1. knock[m].server \in Servers /\ SendKnock(m)
      BY <1>0, <2>1 DEF CommandKnocks, ClientInv, Targeted
    <3>2. QED
      BY <1>0, <3>1, KnockEffect DEF CoverInv
  <2>2. CASE CommandFails(m) \/ \E s \in Servers : CommandReads(m, s)
    BY <2>2 DEF CommandFails, CommandReads, sentVars, serverVars, historyVars, Spared,
                CoverInv, ServerFits
  <2>3. QED
    BY <2>1, <2>2 DEF Command
<1>5. /\ Fresh(r) => Fresh(r)'
      /\ now <= allowUntil[r] => now <= allowUntil'[r]
  BY <1>1, <1>4, CoverAfterKnock
<1>6. ServerFits(r)'
  BY <1>0, <1>1, <1>2, <1>3, <1>4 DEF CoverInv, ServerFits
<1>7. ClockFits'
  BY <1>0, <1>1, <1>2 DEF CoverInv, ClockFits
<1>8. FreshFits(r)'
  BY <1>0, <1>1, <1>2, <1>3, <1>5 DEF CoverInv, FreshFits
<1>9. Served(r)' => Served(r)
  BY <1>0, <1>1, <1>2 DEF Served
<1>10. Alarm' = Alarm /\ Alarm \in Nat /\ Alarm <= now + Interval
  BY <1>0, <1>1, <1>2, CoverTypes, AlarmNear DEF Alarm, CoverInv
<1>11. ServedFits(r)'
  BY <1>1, <1>4, <1>9, <1>10, CoverAfterKnock DEF CoverInv, ServedFits
<1>12. QED
  BY <1>6, <1>7, <1>8, <1>11 DEF CoverInv

(* Time passes over a sleeping refresh thread, or with the lock held.      *)
LEMMA CoverTick ==
    ASSUME NEW r \in Servers, Reachable = {r}, ClientInv, CoverInv(r), Tick
    PROVE  CoverInv(r)'
<1>0. /\ Refresher \in Actors /\ Refresher \notin Commands /\ Refresher # None
      /\ \A c \in Conns : c \in Actors /\ c \notin Commands /\ c # None
      /\ now' = now + 1
      /\ held' = [s \in Reachable |-> IF lock # None THEN held[s] + 1 ELSE held[s]]
      /\ UNCHANGED <<lock, active, knock, pc, due, allowUntil, missed>>
      /\ \A a \in Actors : Waiting(a)
  BY Names DEF Tick, serverVars
<1>t. /\ now \in Nat /\ allowUntil[r] \in Nat /\ held[r] \in Nat
      /\ missed[r] \in Nat /\ due[Refresher] \in Nat /\ Alarm \in Nat
      /\ Interval \in Nat /\ Ttl \in Nat
  BY CoverTypes, Times
<1>h. held'[r] = IF lock # None THEN held[r] + 1 ELSE held[r]
  BY <1>0
<1>1. ASSUME NEW c \in Conns PROVE pc[c] # "connected" /\ (pc[c] = "connect" => lock # None)
  <2>1. Waiting(c) /\ (pc[c] \in Holding <=> lock = c)
    BY <1>0 DEF ClientInv, LockFits
  <2>2. QED
    BY <1>0, <2>1 DEF Waiting, Holding
<1>2. /\ pc[Refresher] = "sleep" => now < due[Refresher]
      /\ pc[Refresher] # "sleep" => lock # None
  <2>1. /\ Waiting(Refresher) /\ pc[Refresher] \in {"sleep", "lock", "knock", "sent"}
        /\ pc[Refresher] \in {"knock", "sent"} <=> lock = Refresher
    BY <1>0 DEF ClientInv, LockFits
  <2>2. QED
    BY <1>0, <2>1 DEF Waiting
<1>3. ServerFits(r)'
  BY <1>0 DEF CoverInv, ServerFits
<1>4. ClockFits'
  BY <1>0, <1>2, <1>t DEF CoverInv, ClockFits
<1>5. FreshFits(r)'
  <2>1. ASSUME NEW c \in Conns, pc[c] = "connect", knock[c].server = r PROVE Fresh(r)'
    <3>1. Fresh(r) /\ held'[r] = held[r] + 1
      BY <1>1, <1>h, <2>1 DEF CoverInv, FreshFits
    <3>2. QED
      BY <1>0, <1>t, <3>1 DEF Fresh
  <2>2. QED
    BY <1>0, <1>1, <2>1 DEF FreshFits
<1>6. ASSUME Served(r)'
      PROVE  Covers(Alarm', allowUntil'[r], held'[r], missed'[r])
  <2>1. Covers(Alarm, allowUntil[r], held[r], missed[r])
    BY <1>0, <1>6 DEF CoverInv, ServedFits, Served
  <2>2. CASE pc[Refresher] = "sleep"
    <3>1. Alarm' = Alarm
      BY <1>0, <2>2 DEF Alarm
    <3>2. QED
      BY <1>0, <1>h, <1>t, <2>1, <3>1, CoversHeld
  <2>3. CASE pc[Refresher] # "sleep"
    <3>1. Alarm' = Alarm + 1
      BY <1>0, <1>t, <2>3 DEF Alarm
    <3>2. held'[r] = held[r] + 1
      BY <1>2, <1>h, <2>3
    <3>3. QED
      BY <1>0, <1>t, <2>1, <3>1, <3>2, CoversHeld
  <2>4. QED
    BY <2>2, <2>3
<1>7. ServedFits(r)'
  BY <1>6 DEF ServedFits
<1>8. QED
  BY <1>3, <1>4, <1>5, <1>7 DEF CoverInv

LEMMA CoverConnection ==
    ASSUME NEW r \in Servers, Reachable = {r}, ClientInv, ClientInv', CoverInv(r),
           NEW c \in Conns, Connection(c)
    PROVE  CoverInv(r)'
<1>0. /\ c \in Actors /\ c # Refresher /\ Refresher \in Actors
      /\ DataOK
      /\ {"attempt", "knock", "retry", "failed", "closed"}
            \subseteq States \ {"connect", "connected", "open"}
  BY Names DEF States, ClientInv
<1>1. ASSUME NEW o \in Orders, BeginConnect(c, o) PROVE CoverInv(r)'
  <2>1. /\ pc' = [pc EXCEPT ![c] = "attempt"]
        /\ UNCHANGED <<now, active, due, knock, allowUntil, held, missed>>
    BY <1>1 DEF BeginConnect, knockVars, sentVars, serverVars, historyVars
  <2>2. QED
    BY <1>0, <2>1, ConnRests
<1>2. ASSUME NEW o \in Orders, NextRound(c, o) PROVE CoverInv(r)'
  <2>1. /\ pc' = [pc EXCEPT ![c] = "attempt"]
        /\ due' = [due EXCEPT ![c] = 0]
        /\ UNCHANGED <<now, active, knock, allowUntil, held, missed>>
    BY <1>2 DEF NextRound, knockVars, sentVars, serverVars, historyVars
  <2>2. due'[Refresher] = due[Refresher]
    BY <1>0, <2>1 DEF DataOK
  <2>3. QED
    BY <1>0, <2>1, <2>2, ConnRests
<1>3. CASE Attempt(c)
  <2>1. /\ pc' = [pc EXCEPT ![c] = "knock"]
        /\ UNCHANGED <<now, active, due, allowUntil, held, missed>>
    BY <1>3 DEF Attempt, sentVars, serverVars, historyVars
  <2>2. \A a \in Actors : a # c => knock'[a] = knock[a]
    BY <1>0, <1>3, AttemptStep DEF DataOK
  <2>3. QED
    BY <1>0, <2>1, <2>2, ConnRests
<1>4. CASE Knock(c)
  BY <1>4, CoverKnock
<1>5. CASE Connected(c)
  BY <1>5, CoverConnected
<1>6. CASE SetActive(c)
  BY <1>6, CoverSetActive
<1>7. CASE AttemptFails(c)
  <2>1. UNCHANGED <<now, active, allowUntil, held, missed>>
    BY <1>7 DEF AttemptFails, sentVars, serverVars, historyVars
  <2>2. /\ \A a \in Actors : a # c => knock'[a] = knock[a]
        /\ due' = due \/ due' = [due EXCEPT ![c] = now + RetryInterval]
    BY <1>7, FailsStep
  <2>3. due'[Refresher] = due[Refresher]
    BY <1>0, <2>2 DEF DataOK
  <2>4. \E p \in {"attempt", "retry", "failed"} : pc' = [pc EXCEPT ![c] = p]
    BY <1>7, FailsStep DEF ConnMoves
  <2>5. QED
    BY <1>0, <2>1, <2>2, <2>3, <2>4, ConnRests
<1>8. CASE CloseTunnel(c)
  <2>1. /\ pc' = [pc EXCEPT ![c] = "closed"]
        /\ UNCHANGED <<now, active, due, knock, allowUntil, held, missed>>
    BY <1>8 DEF CloseTunnel, knockVars, sentVars, serverVars, historyVars
  <2>2. QED
    BY <1>0, <2>1, ConnRests
<1>9. QED
  BY <1>1, <1>2, <1>3, <1>4, <1>5, <1>6, <1>7, <1>8 DEF Connection

LEMMA CoverStep ==
    ASSUME NEW r \in Servers, Reachable = {r}
    PROVE  ClientInv /\ CoverInv(r) /\ [Next]_vars => CoverInv(r)'
<1> SUFFICES ASSUME ClientInv, CoverInv(r), [Next]_vars PROVE CoverInv(r)'
  OBVIOUS
<1>0. ClientInv'
  BY ClientStep
<1>1. ASSUME NEW c \in Conns, Connection(c) PROVE CoverInv(r)'
  BY <1>0, <1>1, CoverConnection
<1>2. CASE Refresh
  BY <1>0, <1>2, CoverWake, CoverRefreshLock, CoverRefreshKnock, CoverRefreshFails,
     CoverRefreshReturns DEF Refresh
<1>3. ASSUME NEW m \in Commands, Command(m) PROVE CoverInv(r)'
  BY <1>0, <1>3, CoverCommand
<1>4. CASE Tick
  BY <1>4, CoverTick
<1>5. CASE UNCHANGED vars
  BY <1>5 DEF vars, CoverInv, ServerFits, ClockFits, FreshFits, Fresh, ServedFits, Served,
              Alarm
<1>6. QED
  BY <1>1, <1>2, <1>3, <1>4, <1>5 DEF Next

LEMMA CoverInit ==
    ASSUME NEW r \in Servers, Init
    PROVE  CoverInv(r)
<1>1. /\ now = 0 /\ active = None /\ pc[Refresher] = "sleep" /\ due[Refresher] = 0
      /\ \A c \in Conns : pc[c] = "new"
      /\ \A s \in Servers : allowUntil[s] = 0
      /\ r # None
  BY Names DEF Init
<1>2. 0 <= 0 + Interval
  BY Times
<1>3. QED
  BY <1>1, <1>2 DEF CoverInv, ServerFits, ClockFits, FreshFits, ServedFits, Served

(* start_spa_refresh, any number of connections and commands, any Ttl and  *)
(* retry policy, attempts that take any time or hang, knocks lost without  *)
(* bound: while one server is up, an open tunnel's entry is renewed every  *)
(* half Ttl except for the time counter_lock was held and for knocks in    *)
(* vain.                                                                   *)
THEOREM TunnelHolds ==
    ASSUME NEW r \in Servers, Reachable = {r}
    PROVE  Spec => []TunnelStaysAllowed
<1>1. Init => ClientInv /\ CoverInv(r)
  BY ClientInit, CoverInit
<1>2. ClientInv /\ CoverInv(r) /\ [Next]_vars => (ClientInv /\ CoverInv(r))'
  BY ClientStep, CoverStep
<1>3. ClientInv /\ CoverInv(r) => TunnelStaysAllowed
  <2>1. SUFFICES ASSUME ClientInv, CoverInv(r), NEW c \in Conns, pc[c] = "open"
                 PROVE  /\ missed[r] = 0 => now + Ttl <= allowUntil[r] + (Ttl \div 2) + held[r]
                        /\ now <= allowUntil[r] + missed[r] * (Ttl \div 2) + held[r]
                        /\ knock[c].server = r
    BY DEF TunnelStaysAllowed
  <2>2. knock[c].server = r /\ Served(r)
    BY <2>1 DEF CoverInv, ServerFits, Served
  <2>3. Covers(now, allowUntil[r], held[r], missed[r])
    BY <2>1, <2>2, CoverTypes, AlarmNear, CoversEarlier DEF CoverInv, ServedFits
  <2>4. QED
    BY <2>2, <2>3, Times DEF Covers
<1>4. QED
  BY <1>1, <1>2, <1>3, PTL DEF Spec
==============================================================================
