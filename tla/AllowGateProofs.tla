--------------------------- MODULE AllowGateProofs ---------------------------
(***************************************************************************)
(* Proofs about AllowGate for every set of keys, addresses, CPUs and       *)
(* connections, every capacity of the map and every TTL: the kernel's map  *)
(* stays covered by the mirror, a removed key leaves no entry behind, and  *)
(* sessions are counted and limited exactly.                               *)
(***************************************************************************)
EXTENDS AllowGate, FiniteSetTheorems, TLAPS

(* What is left of a removed key in the mirror is still to be purged.      *)
PurgeCovers ==
    \A ip \in Ips :
        mirror[ip] # None /\ clients[mirror[ip].key] = None =>
            mirror[ip].key \in removed \/ (pc = "purge" /\ ip \in todo)

(* The locals of run_spa are empty outside the routine they belong to.     *)
LocalsFit ==
    /\ pc \in {"idle", "mirror", "timer", "reap", "failed"} => removed = {}
    /\ pc \in {"idle", "mirror", "timer", "collect", "failed"} => todo = {}
    /\ pc = "failed" => allowMap = Empty /\ mirror = Empty

(* Between its two writes, allow_source holds an entry of a listed key and *)
(* the kernel has that entry or, by now, none.                             *)
GrantFits ==
    pc = "mirror" =>
        /\ clients[grant.key] # None
        /\ allowMap[grant.ip] # None =>
              /\ allowMap[grant.ip].key = grant.key
              /\ allowMap[grant.ip].expiry = grant.expiry

GateInv ==
    /\ TypeOK
    /\ LiveEntryIsMirrored
    /\ PurgeCovers
    /\ LocalsFit
    /\ GrantFits

------------------------------------------------------------------------------
(* Type correctness.                                                       *)

LEMMA ClosedType == Closed \in ConnState
BY DEF Closed, ConnState

LEMMA TypeInit == Init => TypeOK
<1> SUFFICES ASSUME Init PROVE TypeOK
  OBVIOUS
<1>1. now \in Nat /\ clients \in Clients
  BY ClientFilesAssumption DEF Init
<1>2. /\ allowMap \in [Ips -> AllowEntry \cup {None}]
      /\ mirror \in [Ips -> AllowedSource \cup {None}]
  BY DEF Init, Empty
<1>3. pc = "idle" /\ grant = None /\ removed = {} /\ todo = {}
  BY DEF Init
<1>4. locked \in BOOLEAN
  BY DEF Init
<1>5. cpu \in [Cpus -> Ips \cup {None}]
  BY DEF Init
<1>6. /\ conn \in [Conns -> ConnState]
      /\ \A n \in Conns : conn[n].phase = "closed"
  <2>1. conn = [n \in Conns |-> Closed]
    BY DEF Init
  <2>2. Closed.phase = "closed"
    BY DEF Closed
  <2>3. QED
    BY <2>1, <2>2, ClosedType
<1>7. sessions \in [Keys -> Nat]
  BY DEF Init
<1>8. QED
  BY <1>1, <1>2, <1>3, <1>4, <1>5, <1>6, <1>7 DEF TypeOK

(* A step of run_spa, XDP or the clock leaves connections alone.           *)
LEMMA TypeStep == TypeOK /\ [Next]_vars => TypeOK'
<1> SUFFICES ASSUME TypeOK, [Next]_vars PROVE TypeOK'
  OBVIOUS
<1> USE DEF TypeOK, spaVars, connVars
<1>1. ASSUME NEW ip \in Ips, NEW k \in Keys, AllowInKernel(ip, k) PROVE TypeOK'
  <2>1. now + Ttl \in Nat
    BY TimeAssumption
  <2>2. clients[k] \in Client
    BY <1>1 DEF AllowInKernel, Clients
  <2>3. [key |-> k, expiry |-> now + Ttl] \in AllowEntry
    BY <2>1 DEF AllowEntry
  <2>4. grant' \in Grant
    BY <1>1, <2>1, <2>2 DEF AllowInKernel, Grant, Client
  <2>5. allowMap' \in [Ips -> AllowEntry \cup {None}]
    BY <1>1, <2>3 DEF AllowInKernel
  <2>6. QED
    BY <1>1, <2>4, <2>5 DEF AllowInKernel
<1>2. CASE AllowInMirror
  <2>1. grant \in Grant
    BY <1>2 DEF AllowInMirror
  <2>2. [key |-> grant.key, expiry |-> grant.expiry, limit |-> grant.limit]
           \in AllowedSource
    BY <2>1 DEF Grant, AllowedSource
  <2>3. mirror' \in [Ips -> AllowedSource \cup {None}]
    BY <1>2, <2>2 DEF AllowInMirror
  <2>4. QED
    BY <1>2, <2>3 DEF AllowInMirror
<1>3. ASSUME NEW f \in ClientFiles, Reload(f) PROVE TypeOK'
  BY <1>3, ClientFilesAssumption DEF Reload
<1>4. ASSUME NEW k \in Keys, CollectPurge(k) PROVE TypeOK'
  BY <1>4 DEF CollectPurge
<1>5. CASE DrainEnds \/ NothingToReap \/ CollectExpired
  BY <1>5 DEF DrainEnds, NothingToReap, CollectExpired
<1>6. ASSUME NEW ip \in Ips, RemoveCollected(ip) PROVE TypeOK'
  <2>1. /\ allowMap' \in [Ips -> AllowEntry \cup {None}]
        /\ mirror' \in [Ips -> AllowedSource \cup {None}]
    BY <1>6 DEF RemoveCollected
  <2>2. locked' \in BOOLEAN
    BY <1>6 DEF RemoveCollected
  <2>3. QED
    BY <1>6, <2>1, <2>2 DEF RemoveCollected
<1>7. ASSUME NEW ip \in Ips, RemoveMissing(ip) PROVE TypeOK'
  <2>1. /\ conn' \in [Conns -> ConnState]
        /\ \A n \in Conns : conn'[n].phase = "closed"
    <3>1. conn' = [n \in Conns |-> Closed]
      BY <1>7 DEF RemoveMissing
    <3>2. Closed.phase = "closed"
      BY DEF Closed
    <3>3. QED
      BY <3>1, <3>2, ClosedType
  <2>2. /\ allowMap' \in [Ips -> AllowEntry \cup {None}]
        /\ mirror' \in [Ips -> AllowedSource \cup {None}]
        /\ cpu' \in [Cpus -> Ips \cup {None}]
        /\ sessions' \in [Keys -> Nat]
    BY <1>7 DEF RemoveMissing, Empty
  <2>3. QED
    BY <1>7, <2>1, <2>2 DEF RemoveMissing
<1>8. ASSUME NEW f \in ClientFiles, Restart(f) PROVE TypeOK'
  BY <1>8, ClientFilesAssumption DEF Restart
<1>9. ASSUME NEW c \in Cpus, NEW ip \in Ips, XdpFindsExpired(c, ip) PROVE TypeOK'
  BY <1>9 DEF XdpFindsExpired
<1>10. ASSUME NEW c \in Cpus, XdpRemoves(c) PROVE TypeOK'
  BY <1>10 DEF XdpRemoves
<1>11. ASSUME NEW n \in Conns, NEW ip \in Ips, Connect(n, ip) PROVE TypeOK'
  <2>1. conn' = [conn EXCEPT ![n] =
                   [phase |-> "accepted", ip |-> ip, key |-> None, limit |-> 0]]
    BY <1>11 DEF Connect
  <2>2. [phase |-> "accepted", ip |-> ip, key |-> None, limit |-> 0] \in ConnState
    BY DEF ConnState
  <2>3. conn' \in [Conns -> ConnState]
    BY <2>1, <2>2
  <2>4. /\ conn'[n].phase = "accepted" /\ conn'[n].ip = ip
        /\ \A m \in Conns \ {n} : conn'[m] = conn[m]
    BY <2>1
  <2>5. QED
    BY <1>11, <2>3, <2>4 DEF Connect
<1>12. ASSUME NEW n \in Conns, Snapshot(n) PROVE TypeOK'
  <2>1. conn[n].ip \in Ips
    BY <1>12 DEF Snapshot
  <2>2. CASE conn' = [conn EXCEPT ![n] = Closed]
    <3>1. mirror' \in [Ips -> AllowedSource \cup {None}]
      BY <1>12, <2>1 DEF Snapshot
    <3>2. Closed.phase = "closed"
      BY DEF Closed
    <3>3. QED
      BY <1>12, <2>2, <3>1, <3>2, ClosedType DEF Snapshot
  <2>3. CASE /\ mirror[conn[n].ip] # None
             /\ mirror' = mirror
             /\ conn' = [conn EXCEPT ![n] =
                            [phase |-> "handshake", ip |-> conn[n].ip,
                             key |-> mirror[conn[n].ip].key,
                             limit |-> mirror[conn[n].ip].limit]]
    <3>1. mirror[conn[n].ip] \in AllowedSource
      BY <2>1, <2>3
    <3>2. [phase |-> "handshake", ip |-> conn[n].ip,
           key |-> mirror[conn[n].ip].key,
           limit |-> mirror[conn[n].ip].limit] \in ConnState
      BY <2>1, <3>1 DEF AllowedSource, ConnState
    <3>3. mirror[conn[n].ip].key \in Keys
      BY <3>1 DEF AllowedSource
    <3>4. QED
      BY <1>12, <2>3, <3>2, <3>3 DEF Snapshot
  <2>4. QED
    BY <1>12, <2>2, <2>3 DEF Snapshot
<1>13. ASSUME NEW n \in Conns, Establish(n) PROVE TypeOK'
  <2>1. conn[n] \in ConnState /\ conn[n].key \in Keys
    BY <1>13 DEF Establish
  <2>2. sessions' \in [Keys -> Nat]
    BY <1>13, <2>1 DEF Establish
  <2>3. [conn[n] EXCEPT !.phase = "session"] \in ConnState
    BY <2>1 DEF ConnState
  <2>4. conn' = [conn EXCEPT ![n] = [conn[n] EXCEPT !.phase = "session"]]
    BY <1>13 DEF Establish
  <2>5. conn' \in [Conns -> ConnState]
    BY <2>3, <2>4
  <2>6. [conn[n] EXCEPT !.phase = "session"].key = conn[n].key
    BY <2>1 DEF ConnState
  <2>7. [conn[n] EXCEPT !.phase = "session"].phase = "session"
    BY <2>1 DEF ConnState
  <2>8. QED
    BY <1>13, <2>1, <2>2, <2>4, <2>5, <2>6, <2>7 DEF Establish
<1>13a. ASSUME NEW n \in Conns, HandshakePacket(n) PROVE TypeOK'
  <2> DEFINE answered == [phase |-> "answered", ip |-> None,
                          key |-> conn[n].key, limit |-> conn[n].limit]
  <2>1. conn[n] \in ConnState /\ conn[n].key \in Keys
    BY <1>13a DEF HandshakePacket
  <2>2. conn' = [conn EXCEPT ![n] = answered]
    BY <1>13a DEF HandshakePacket
  <2>3. answered \in ConnState
    BY <2>1 DEF ConnState
  <2>4. conn' \in [Conns -> ConnState]
    BY <2>2, <2>3
  <2>5. /\ conn'[n].phase = "answered" /\ conn'[n].key = conn[n].key
        /\ \A m \in Conns \ {n} : conn'[m] = conn[m]
    BY <2>2
  <2>6. QED
    BY <1>13a, <2>1, <2>4, <2>5 DEF HandshakePacket
<1>14. ASSUME NEW n \in Conns, AbandonHandshake(n) PROVE TypeOK'
  <2>1. Closed.phase = "closed"
    BY DEF Closed
  <2>2. QED
    BY <1>14, <2>1, ClosedType DEF AbandonHandshake
<1>15. ASSUME NEW n \in Conns, EndSession(n) PROVE TypeOK'
  <2>1. Closed.phase = "closed"
    BY DEF Closed
  <2>2. conn[n].key \in Keys
    BY <1>15 DEF EndSession
  <2>3. sessions' \in [Keys -> Nat]
    BY <1>15, <2>2 DEF EndSession
  <2>4. QED
    BY <1>15, <2>1, <2>3, ClosedType DEF EndSession
<1>16. CASE Tick
  BY <1>16 DEF Tick
<1>17. CASE UNCHANGED vars
  BY <1>17 DEF vars
<1>18. QED
  BY <1>1, <1>2, <1>3, <1>4, <1>5, <1>6, <1>7, <1>8, <1>9, <1>10, <1>11,
     <1>12, <1>13, <1>13a, <1>14, <1>15, <1>16, <1>17
     DEF Next, Spa, Purge, Remove, Xdp, Proxy

(* Every reachable state of the two maps, run_spa, the XDP CPUs and the    *)
(* connection tasks is well typed (ebpf.rs, noise.rs).                     *)
THEOREM TypeCorrect == Spec => []TypeOK
BY TypeInit, TypeStep, PTL DEF Spec

------------------------------------------------------------------------------
(* The kernel's map, the mirror and the roster.                            *)

LEMMA GateInit == Init => GateInv
<1> SUFFICES ASSUME Init PROVE GateInv
  OBVIOUS
<1>1. TypeOK
  BY TypeInit
<1>2. \A ip \in Ips : allowMap[ip] = None /\ mirror[ip] = None
  BY DEF Init, Empty
<1>3. QED
  BY <1>1, <1>2 DEF Init, GateInv, LiveEntryIsMirrored, Live, PurgeCovers,
                    LocalsFit, GrantFits

LEMMA KernelWrite ==
    ASSUME GateInv, TypeOK', NEW ip \in Ips, NEW k \in Keys, AllowInKernel(ip, k)
    PROVE  GateInv'
<1> USE DEF GateInv
<1>1. /\ pc = "idle" /\ pc' = "mirror" /\ now' = now
      /\ clients' = clients /\ mirror' = mirror
      /\ removed' = removed /\ todo' = todo
      /\ clients[k] # None
      /\ grant' = [ip |-> ip, key |-> k, expiry |-> now + Ttl, limit |-> clients[k].limit]
  BY DEF AllowInKernel
<1>2. /\ allowMap'[ip] = [key |-> k, expiry |-> now + Ttl]
      /\ \A a \in Ips \ {ip} : allowMap'[a] = None \/ allowMap'[a] = allowMap[a]
  BY DEF AllowInKernel
<1>3. LiveEntryIsMirrored'
  BY <1>1, <1>2 DEF LiveEntryIsMirrored, Live, Expired, Granting
<1>4. PurgeCovers'
  BY <1>1 DEF PurgeCovers
<1>5. LocalsFit'
  BY <1>1 DEF LocalsFit
<1>6. GrantFits'
  BY <1>1, <1>2 DEF GrantFits
<1>7. QED
  BY <1>3, <1>4, <1>5, <1>6

LEMMA MirrorWrite ==
    ASSUME GateInv, TypeOK', AllowInMirror
    PROVE  GateInv'
<1> USE DEF GateInv
<1>1. /\ pc = "mirror" /\ pc' = "idle" /\ now' = now
      /\ clients' = clients /\ allowMap' = allowMap
      /\ removed' = removed /\ todo' = todo
      /\ mirror' = [mirror EXCEPT ![grant.ip] =
                      [key |-> grant.key, expiry |-> grant.expiry, limit |-> grant.limit]]
  BY DEF AllowInMirror
<1>2. grant \in Grant /\ grant.ip \in Ips
  BY <1>1 DEF TypeOK, Grant
<1>3. /\ mirror'[grant.ip].key = grant.key
      /\ mirror'[grant.ip].expiry = grant.expiry
      /\ \A a \in Ips \ {grant.ip} : mirror'[a] = mirror[a]
  BY <1>1, <1>2 DEF TypeOK
<1>4. mirror'[grant.ip] # None
  <2>1. [key |-> grant.key, expiry |-> grant.expiry, limit |-> grant.limit]
            \in AllowedSource
    BY <1>2 DEF Grant, AllowedSource
  <2>2. QED
    BY <1>1, <1>2, <2>1, NoneAssumption DEF TypeOK
<1>5. LiveEntryIsMirrored'
  BY <1>1, <1>2, <1>3, <1>4 DEF LiveEntryIsMirrored, Live, Expired, Granting, GrantFits
<1>6. PurgeCovers'
  BY <1>1, <1>2, <1>3 DEF PurgeCovers, GrantFits
<1>7. LocalsFit' /\ GrantFits'
  BY <1>1 DEF LocalsFit, GrantFits
<1>8. QED
  BY <1>5, <1>6, <1>7

LEMMA ReloadStep ==
    ASSUME GateInv, TypeOK', NEW f \in ClientFiles, Reload(f)
    PROVE  GateInv'
<1> USE DEF GateInv
<1>1. /\ pc = "idle" /\ now' = now /\ clients' = f
      /\ allowMap' = allowMap /\ mirror' = mirror /\ todo' = todo
      /\ removed' = {k \in Keys : clients[k] # None /\ f[k] = None}
      /\ pc' = IF removed' = {} THEN "idle" ELSE "collect"
  BY DEF Reload
<1>2. LiveEntryIsMirrored'
  BY <1>1 DEF LiveEntryIsMirrored, Live, Expired, Granting
<1>3. PurgeCovers'
  <2> SUFFICES ASSUME NEW ip \in Ips, mirror[ip] # None, f[mirror[ip].key] = None
               PROVE  mirror[ip].key \in removed'
    BY <1>1 DEF PurgeCovers
  <2>1. mirror[ip].key \in Keys
    BY DEF TypeOK, AllowedSource
  <2>2. clients[mirror[ip].key] # None
    BY <1>1 DEF PurgeCovers, LocalsFit
  <2>3. QED
    BY <1>1, <2>1, <2>2
<1>4. LocalsFit' /\ GrantFits'
  BY <1>1 DEF LocalsFit, GrantFits
<1>5. QED
  BY <1>2, <1>3, <1>4

LEMMA CollectStep ==
    ASSUME GateInv, TypeOK', NEW k \in Keys, CollectPurge(k)
    PROVE  GateInv'
<1> USE DEF GateInv
<1>1. /\ pc = "collect" /\ now' = now /\ clients' = clients
      /\ allowMap' = allowMap /\ mirror' = mirror
      /\ todo' = {ip \in Ips : mirror[ip] # None /\ mirror[ip].key = k}
      /\ removed' = removed \ {k}
      /\ pc' = IF todo' # {} THEN "purge"
               ELSE IF removed' # {} THEN "collect" ELSE "idle"
  BY DEF CollectPurge
<1>2. LiveEntryIsMirrored'
  BY <1>1 DEF LiveEntryIsMirrored, Live, Expired, Granting
<1>3. PurgeCovers'
  BY <1>1 DEF PurgeCovers, LocalsFit
<1>4. LocalsFit' /\ GrantFits'
  BY <1>1 DEF LocalsFit, GrantFits
<1>5. QED
  BY <1>2, <1>3, <1>4

LEMMA ReapStep ==
    ASSUME GateInv, TypeOK', CollectExpired
    PROVE  GateInv'
<1> USE DEF GateInv
<1>1. /\ pc = "timer" /\ pc' = "reap" /\ now' = now /\ clients' = clients
      /\ allowMap' = allowMap /\ mirror' = mirror /\ removed' = removed
  BY DEF CollectExpired
<1>2. QED
  BY <1>1 DEF LiveEntryIsMirrored, Live, Expired, Granting, PurgeCovers,
              LocalsFit, GrantFits

(* The round of the loop gets to the reap timer or leaves it.              *)
LEMMA RoundStep ==
    ASSUME GateInv, TypeOK', DrainEnds \/ NothingToReap
    PROVE  GateInv'
<1> USE DEF GateInv
<1>1. /\ pc \in {"idle", "timer"} /\ pc' \in {"idle", "timer"}
      /\ UNCHANGED <<now, clients, allowMap, mirror, removed, todo>>
  BY DEF DrainEnds, NothingToReap
<1>2. QED
  BY <1>1 DEF LiveEntryIsMirrored, Live, Expired, Granting, PurgeCovers,
              LocalsFit, GrantFits

LEMMA RemoveStep ==
    ASSUME GateInv, TypeOK', NEW ip \in Ips, RemoveCollected(ip)
    PROVE  GateInv'
<1> USE DEF GateInv
<1>1. /\ pc \in {"purge", "reap"} /\ now' = now /\ clients' = clients
      /\ allowMap' = [allowMap EXCEPT ![ip] = None]
      /\ mirror' = [mirror EXCEPT ![ip] = None]
      /\ removed' = removed /\ todo' = todo \ {ip}
      /\ pc' = IF todo' # {} THEN pc
               ELSE IF pc = "purge" /\ removed # {} THEN "collect" ELSE "idle"
  BY DEF RemoveCollected
<1>2. /\ allowMap'[ip] = None /\ mirror'[ip] = None
      /\ \A a \in Ips \ {ip} : allowMap'[a] = allowMap[a] /\ mirror'[a] = mirror[a]
  BY <1>1 DEF TypeOK
<1>3. LiveEntryIsMirrored'
  BY <1>1, <1>2 DEF LiveEntryIsMirrored, Live, Expired, Granting
<1>4. PurgeCovers'
  BY <1>1, <1>2 DEF PurgeCovers
<1>5. LocalsFit' /\ GrantFits'
  BY <1>1 DEF LocalsFit, GrantFits
<1>6. QED
  BY <1>3, <1>4, <1>5

LEMMA FailStep ==
    ASSUME GateInv, TypeOK', NEW ip \in Ips, RemoveMissing(ip)
    PROVE  GateInv'
<1> USE DEF GateInv
<1>1. \A a \in Ips : allowMap'[a] = None /\ mirror'[a] = None
  BY DEF RemoveMissing, Empty
<1>2. LiveEntryIsMirrored' /\ PurgeCovers'
  BY <1>1 DEF LiveEntryIsMirrored, Live, PurgeCovers
<1>3. LocalsFit' /\ GrantFits'
  BY DEF RemoveMissing, LocalsFit, GrantFits, Empty
<1>4. QED
  BY <1>2, <1>3

LEMMA RestartStep ==
    ASSUME GateInv, TypeOK', NEW f \in ClientFiles, Restart(f)
    PROVE  GateInv'
<1> USE DEF GateInv
<1>1. \A a \in Ips : allowMap'[a] = None /\ mirror'[a] = None
  BY DEF Restart, LocalsFit, Empty
<1>2. LiveEntryIsMirrored' /\ PurgeCovers'
  BY <1>1 DEF LiveEntryIsMirrored, Live, PurgeCovers
<1>3. LocalsFit' /\ GrantFits'
  BY DEF Restart, LocalsFit, GrantFits
<1>4. QED
  BY <1>2, <1>3

LEMMA XdpStep ==
    ASSUME GateInv, TypeOK', NEW c \in Cpus, XdpRemoves(c)
    PROVE  GateInv'
<1> USE DEF GateInv
<1>1. /\ now' = now /\ clients' = clients /\ mirror' = mirror
      /\ UNCHANGED spaVars
      /\ allowMap' = [allowMap EXCEPT ![cpu[c]] = None]
  BY DEF XdpRemoves
<1>2. \A a \in Ips : allowMap'[a] = None \/ allowMap'[a] = allowMap[a]
  BY <1>1 DEF TypeOK
<1>3. LiveEntryIsMirrored'
  BY <1>1, <1>2 DEF LiveEntryIsMirrored, Live, Expired, Granting, spaVars
<1>4. PurgeCovers' /\ GrantFits'
  <2>1. pc = "mirror" => grant.ip \in Ips
    BY DEF TypeOK, Grant
  <2>2. QED
    BY <1>1, <1>2, <2>1 DEF PurgeCovers, GrantFits, spaVars
<1>5. LocalsFit'
  <2>1. ASSUME allowMap = Empty PROVE allowMap' = Empty
    BY <1>1, <2>1 DEF Empty
  <2>2. QED
    BY <1>1, <2>1 DEF LocalsFit, spaVars
<1>6. QED
  BY <1>3, <1>4, <1>5

LEMMA SnapshotStep ==
    ASSUME GateInv, TypeOK', NEW n \in Conns, Snapshot(n)
    PROVE  GateInv'
<1> USE DEF GateInv
<1>1. now' = now /\ clients' = clients /\ allowMap' = allowMap /\ UNCHANGED spaVars
  BY DEF Snapshot
<1>2. conn[n].ip \in Ips
  BY DEF Snapshot, TypeOK
<1>3. CASE mirror' = mirror
  BY <1>1, <1>3 DEF LiveEntryIsMirrored, Live, Expired, Granting, PurgeCovers,
                    LocalsFit, GrantFits, spaVars
<1>4. CASE /\ mirror[conn[n].ip] # None /\ Expired(mirror[conn[n].ip])
           /\ mirror' = [mirror EXCEPT ![conn[n].ip] = None]
  <2>1. /\ mirror'[conn[n].ip] = None
        /\ \A a \in Ips \ {conn[n].ip} : mirror'[a] = mirror[a]
    BY <1>2, <1>4 DEF TypeOK
  <2>2. ~(Live(conn[n].ip) /\ ~Granting(conn[n].ip))
    BY <1>2, <1>4 DEF LiveEntryIsMirrored, Live, Expired
  <2>3. LiveEntryIsMirrored'
    BY <1>1, <2>1, <2>2 DEF LiveEntryIsMirrored, Live, Expired, Granting, spaVars
  <2>4. PurgeCovers' /\ GrantFits'
    BY <1>1, <2>1 DEF PurgeCovers, GrantFits, spaVars
  <2>5. LocalsFit'
    <3>1. ASSUME mirror = Empty PROVE mirror' = Empty
      BY <1>4, <3>1 DEF Empty
    <3>2. QED
      BY <1>1, <3>1 DEF LocalsFit, spaVars
  <2>6. QED
    BY <2>3, <2>4, <2>5
<1>5. QED
  BY <1>3, <1>4 DEF Snapshot

(* Time only turns live entries into expired ones.                         *)
LEMMA TickStep ==
    ASSUME GateInv, TypeOK', Tick
    PROVE  GateInv'
<1> USE DEF GateInv
<1>1. /\ now' = now + 1 /\ clients' = clients /\ allowMap' = allowMap
      /\ mirror' = mirror /\ UNCHANGED spaVars
  BY DEF Tick
<1>2. ASSUME NEW ip \in Ips, Live(ip)' PROVE Live(ip)
  <2>1. allowMap[ip] \in AllowEntry
    BY <1>1, <1>2 DEF Live, TypeOK
  <2>2. allowMap[ip].expiry \in Nat /\ now \in Nat
    BY <2>1 DEF AllowEntry, TypeOK
  <2>3. QED
    BY <1>1, <1>2, <2>2 DEF Live, Expired
<1>3. LiveEntryIsMirrored'
  BY <1>1, <1>2 DEF LiveEntryIsMirrored, Granting, spaVars
<1>4. PurgeCovers' /\ GrantFits' /\ LocalsFit'
  BY <1>1 DEF PurgeCovers, GrantFits, LocalsFit, spaVars
<1>5. QED
  BY <1>3, <1>4

(* A step that leaves clock, roster, both maps and run_spa alone.          *)
LEMMA QuietStep ==
    ASSUME GateInv, TypeOK', UNCHANGED <<now, clients, allowMap, mirror, spaVars>>
    PROVE  GateInv'
BY DEF GateInv, LiveEntryIsMirrored, Live, Expired, Granting, PurgeCovers,
       LocalsFit, GrantFits, spaVars

LEMMA GateStep == GateInv /\ [Next]_vars => GateInv'
<1> SUFFICES ASSUME GateInv, [Next]_vars PROVE GateInv'
  OBVIOUS
<1>0. TypeOK'
  BY TypeStep DEF GateInv
<1>1. ASSUME NEW ip \in Ips, NEW k \in Keys, AllowInKernel(ip, k) PROVE GateInv'
  BY <1>0, <1>1, KernelWrite
<1>2. CASE AllowInMirror
  BY <1>0, <1>2, MirrorWrite
<1>3. ASSUME NEW f \in ClientFiles, Reload(f) PROVE GateInv'
  BY <1>0, <1>3, ReloadStep
<1>4. ASSUME NEW k \in Keys, CollectPurge(k) PROVE GateInv'
  BY <1>0, <1>4, CollectStep
<1>5. CASE DrainEnds \/ NothingToReap \/ CollectExpired
  BY <1>0, <1>5, ReapStep, RoundStep
<1>6. ASSUME NEW ip \in Ips, RemoveCollected(ip) PROVE GateInv'
  BY <1>0, <1>6, RemoveStep
<1>7. ASSUME NEW ip \in Ips, RemoveMissing(ip) PROVE GateInv'
  BY <1>0, <1>7, FailStep
<1>8. ASSUME NEW f \in ClientFiles, Restart(f) PROVE GateInv'
  BY <1>0, <1>8, RestartStep
<1>9. ASSUME NEW c \in Cpus, NEW ip \in Ips, XdpFindsExpired(c, ip) PROVE GateInv'
  BY <1>0, <1>9, QuietStep DEF XdpFindsExpired
<1>10. ASSUME NEW c \in Cpus, XdpRemoves(c) PROVE GateInv'
  BY <1>0, <1>10, XdpStep
<1>11. ASSUME NEW n \in Conns, NEW ip \in Ips, Connect(n, ip) PROVE GateInv'
  BY <1>0, <1>11, QuietStep DEF Connect
<1>12. ASSUME NEW n \in Conns, Snapshot(n) PROVE GateInv'
  BY <1>0, <1>12, SnapshotStep
<1>13. ASSUME NEW n \in Conns, Establish(n) PROVE GateInv'
  BY <1>0, <1>13, QuietStep DEF Establish
<1>13a. ASSUME NEW n \in Conns, HandshakePacket(n) PROVE GateInv'
  BY <1>0, <1>13a, QuietStep DEF HandshakePacket
<1>14. ASSUME NEW n \in Conns, AbandonHandshake(n) PROVE GateInv'
  BY <1>0, <1>14, QuietStep DEF AbandonHandshake
<1>15. ASSUME NEW n \in Conns, EndSession(n) PROVE GateInv'
  BY <1>0, <1>15, QuietStep DEF EndSession
<1>16. CASE Tick
  BY <1>0, <1>16, TickStep
<1>17. CASE UNCHANGED vars
  BY <1>0, <1>17, QuietStep DEF vars, spaVars
<1>18. QED
  BY <1>1, <1>2, <1>3, <1>4, <1>5, <1>6, <1>7, <1>8, <1>9, <1>10, <1>11,
     <1>12, <1>13, <1>13a, <1>14, <1>15, <1>16, <1>17
     DEF Next, Spa, Purge, Remove, Xdp, Proxy

(* Every unexpired entry of ALLOW_MAP is in the mirror, for any number of  *)
(* CPUs and connections racing with run_spa (ebpf.rs, allow_source,        *)
(* purge_key_id and reap_expired_sources; noise.rs, handle_connection).    *)
THEOREM KernelCoveredByMirror == Spec => []LiveEntryIsMirrored
<1>1. GateInv => LiveEntryIsMirrored
  BY DEF GateInv
<1>2. QED
  BY GateInit, GateStep, <1>1, PTL DEF Spec

(* Once its purge is over, a removed key has no entry in the mirror and no *)
(* unexpired entry in ALLOW_MAP (ebpf.rs, purge_key_id).                   *)
THEOREM RevocationIsComplete == Spec => []RevokedKeysHaveNoEntry
<1>1. GateInv => RevokedKeysHaveNoEntry
  <2> SUFFICES ASSUME GateInv, pc \in {"idle", "mirror", "timer"}, NEW ip \in Ips
               PROVE  /\ Live(ip) => clients[allowMap[ip].key] # None
                      /\ mirror[ip] # None => clients[mirror[ip].key] # None
    BY DEF RevokedKeysHaveNoEntry
  <2>1. mirror[ip] # None => clients[mirror[ip].key] # None
    BY DEF GateInv, PurgeCovers, LocalsFit
  <2>2. ASSUME Live(ip) PROVE clients[allowMap[ip].key] # None
    <3>1. CASE Granting(ip)
      BY <2>2, <3>1 DEF GateInv, GrantFits, Granting, Live
    <3>2. CASE ~Granting(ip)
      BY <2>1, <2>2, <3>2 DEF GateInv, LiveEntryIsMirrored
    <3>3. QED
      BY <3>1, <3>2
  <2>3. QED
    BY <2>1, <2>2
<1>2. QED
  BY GateInit, GateStep, <1>1, PTL DEF Spec

(* Only its own task moves a connection on.                                *)
LEMMA WhoMoves ==
    ASSUME TypeOK, [Next]_vars, NEW n \in Conns,
           conn'[n].phase # conn[n].phase, conn'[n].phase \in {"handshake", "answered", "session"}
    PROVE  Snapshot(n) \/ HandshakePacket(n) \/ Establish(n)
<1> USE DEF TypeOK, spaVars, connVars
<1>0. Closed.phase = "closed"
  BY DEF Closed
<1>1. ASSUME NEW ip \in Ips, RemoveMissing(ip) PROVE FALSE
  BY <1>0, <1>1 DEF RemoveMissing
<1>2. ASSUME NEW m \in Conns, NEW ip \in Ips, Connect(m, ip) PROVE FALSE
  BY <1>2 DEF Connect
<1>3. ASSUME NEW m \in Conns, m # n, Establish(m) \/ HandshakePacket(m) PROVE FALSE
  BY <1>3 DEF Establish, HandshakePacket
<1>4. ASSUME NEW m \in Conns, AbandonHandshake(m) PROVE FALSE
  BY <1>0, <1>4 DEF AbandonHandshake
<1>5. ASSUME NEW m \in Conns, EndSession(m) PROVE FALSE
  BY <1>0, <1>5 DEF EndSession
<1>6. ASSUME NEW m \in Conns, m # n, Snapshot(m) PROVE FALSE
  BY <1>6 DEF Snapshot
<1>7. conn' # conn
  OBVIOUS
<1>8. QED
  BY <1>1, <1>2, <1>3, <1>4, <1>5, <1>6, <1>7
     DEF Next, Spa, Purge, Remove, Xdp, Proxy, vars, AllowInKernel, AllowInMirror,
         Reload, CollectPurge, DrainEnds, NothingToReap, CollectExpired,
         RemoveCollected, Restart, XdpFindsExpired, XdpRemoves, Tick

(* An entry of the mirror belongs to a listed key or to one whose purge is *)
(* under way.                                                              *)
LEMMA MirrorKeyKnown ==
    ASSUME GateInv, NEW ip \in Ips, mirror[ip] # None
    PROVE  clients[mirror[ip].key] # None \/ PurgeUnderWay(mirror[ip].key)
BY DEF GateInv, PurgeCovers, PurgeUnderWay

(* So does an unexpired entry of ALLOW_MAP.                                *)
LEMMA KernelKeyKnown ==
    ASSUME GateInv, NEW ip \in Ips, Live(ip)
    PROVE  clients[allowMap[ip].key] # None \/ PurgeUnderWay(allowMap[ip].key)
<1>1. CASE Granting(ip)
  BY <1>1 DEF GateInv, GrantFits, Granting, Live
<1>2. CASE ~Granting(ip)
  <2>1. mirror[ip] # None /\ mirror[ip].key = allowMap[ip].key
    BY <1>2 DEF GateInv, LiveEntryIsMirrored
  <2>2. QED
    BY <2>1, MirrorKeyKnown
<1>3. QED
  BY <1>1, <1>2

(* Once its own purge is over, a removed key gets no copy of an entry and  *)
(* no last handshake message through XDP, unless the address is open for   *)
(* another key (noise.rs, handle_connection; ebpf.rs, purge_key_id).       *)
THEOREM RevokedKeyStaysOut == Spec => RevokedKeyIsShutOut
<1> DEFINE Gone(k) == clients[k] = None /\ ~PurgeUnderWay(k)
<1>1. ASSUME GateInv, [Next]_vars, NEW n \in Conns,
             conn[n].phase = "accepted", conn'[n].phase = "handshake"
      PROVE  ~Gone(conn'[n].key)
  <2>1. Snapshot(n) /\ conn[n].ip \in Ips
    BY <1>1, WhoMoves DEF GateInv, TypeOK, HandshakePacket, Establish
  <2>2. Closed.phase = "closed"
    BY DEF Closed
  <2>3. /\ mirror[conn[n].ip] # None
        /\ conn'[n].key = mirror[conn[n].ip].key
    BY <1>1, <2>1, <2>2 DEF Snapshot, GateInv, TypeOK
  <2>4. QED
    BY <1>1, <2>1, <2>3, MirrorKeyKnown
<1>2. ASSUME GateInv, [Next]_vars, NEW n \in Conns,
             conn[n].phase = "handshake", conn'[n].phase = "answered"
      PROVE  \/ ~Gone(conn'[n].key)
             \/ Live(conn[n].ip) /\ allowMap[conn[n].ip].key # conn'[n].key
  <2>1. HandshakePacket(n) /\ conn[n].ip \in Ips
    BY <1>2, WhoMoves DEF GateInv, TypeOK, Snapshot, Establish
  <2>2. Live(conn[n].ip)
    BY <2>1 DEF HandshakePacket
  <2>3. QED
    BY <1>2, <2>1, <2>2, KernelKeyKnown
<1>3. GateInv /\ [Next]_vars =>
        [\A n \in Conns :
            LET k == conn'[n].key
                ip == conn[n].ip
                gone == clients[k] = None /\ ~PurgeUnderWay(k)
            IN  /\ conn[n].phase = "accepted" /\ conn'[n].phase = "handshake" => ~gone
                /\ conn[n].phase = "handshake" /\ conn'[n].phase = "answered" =>
                      ~gone \/ (Live(ip) /\ allowMap[ip].key # k)]_vars
  BY <1>1, <1>2
<1>4. QED
  BY GateInit, GateStep, <1>3, PTL DEF Spec, RevokedKeyIsShutOut

------------------------------------------------------------------------------
(* Session slots.                                                          *)

LEMMA SessionsFinite ==
    ASSUME NEW k
    PROVE  /\ IsFiniteSet(SessionsOf(k))
           /\ Cardinality(SessionsOf(k)) \in Nat
<1>1. SessionsOf(k) \subseteq Conns
  BY DEF SessionsOf
<1>2. IsFiniteSet(SessionsOf(k))
  BY <1>1, ConnsAssumption, FS_Subset
<1>3. QED
  BY <1>2, FS_CardinalityType

(* Connections that are in no session before and after a step do not count.*)
LEMMA SameSessions ==
    ASSUME SlotsMatchSessions, sessions' = sessions,
           \A n \in Conns : \/ conn'[n] = conn[n]
                            \/ conn[n].phase # "session" /\ conn'[n].phase # "session"
    PROVE  SlotsMatchSessions'
<1>1. ASSUME NEW k \in Keys PROVE SessionsOf(k)' = SessionsOf(k)
  BY DEF SessionsOf
<1>2. QED
  BY <1>1 DEF SlotsMatchSessions

LEMMA EstablishSlots ==
    ASSUME TypeOK, SlotsMatchSessions, NEW n \in Conns, Establish(n)
    PROVE  SlotsMatchSessions'
<1>1. /\ conn[n].phase = "answered" /\ conn[n].key \in Keys
      /\ sessions' = [sessions EXCEPT ![conn[n].key] = @ + 1]
      /\ conn' = [conn EXCEPT ![n].phase = "session"]
  BY DEF Establish, TypeOK
<1>2. /\ conn'[n].phase = "session" /\ conn'[n].key = conn[n].key
      /\ \A m \in Conns \ {n} : conn'[m] = conn[m]
  BY <1>1 DEF TypeOK, ConnState
<1>3. ASSUME NEW k \in Keys PROVE sessions'[k] = Cardinality(SessionsOf(k)')
  <2>1. CASE k = conn[n].key
    <3>1. SessionsOf(k)' = SessionsOf(k) \cup {n} /\ n \notin SessionsOf(k)
      BY <1>1, <1>2, <2>1 DEF SessionsOf
    <3>2. Cardinality(SessionsOf(k)') = Cardinality(SessionsOf(k)) + 1
      BY <3>1, SessionsFinite, FS_AddElement
    <3>3. QED
      BY <1>1, <2>1, <3>2 DEF SlotsMatchSessions, TypeOK
  <2>2. CASE k # conn[n].key
    <3>1. SessionsOf(k)' = SessionsOf(k)
      BY <1>1, <1>2, <2>2 DEF SessionsOf
    <3>2. QED
      BY <1>1, <2>2, <3>1 DEF SlotsMatchSessions, TypeOK
  <2>3. QED
    BY <2>1, <2>2
<1>4. QED
  BY <1>3 DEF SlotsMatchSessions

LEMMA EndSlots ==
    ASSUME TypeOK, SlotsMatchSessions, NEW n \in Conns, EndSession(n)
    PROVE  SlotsMatchSessions'
<1>0. Closed.phase = "closed"
  BY DEF Closed
<1>1. /\ conn[n].phase = "session" /\ conn[n].key \in Keys
      /\ sessions' = [sessions EXCEPT ![conn[n].key] = IF @ > 0 THEN @ - 1 ELSE 0]
      /\ conn' = [conn EXCEPT ![n] = Closed]
  BY DEF EndSession, TypeOK
<1>2. /\ conn'[n].phase = "closed"
      /\ \A m \in Conns \ {n} : conn'[m] = conn[m]
  BY <1>0, <1>1 DEF TypeOK
<1>3. ASSUME NEW k \in Keys PROVE sessions'[k] = Cardinality(SessionsOf(k)')
  <2>1. CASE k = conn[n].key
    <3>1. SessionsOf(k)' = SessionsOf(k) \ {n} /\ n \in SessionsOf(k)
      BY <1>1, <1>2, <2>1 DEF SessionsOf
    <3>2. Cardinality(SessionsOf(k)') = Cardinality(SessionsOf(k)) - 1
      BY <3>1, SessionsFinite, FS_RemoveElement
    <3>3. Cardinality(SessionsOf(k)) # 0
      BY <3>1, SessionsFinite, FS_EmptySet
    <3>4. sessions[k] = Cardinality(SessionsOf(k)) /\ Cardinality(SessionsOf(k)) \in Nat
      BY SessionsFinite DEF SlotsMatchSessions
    <3>5. sessions'[k] = sessions[k] - 1
      BY <1>1, <2>1, <3>3, <3>4 DEF TypeOK
    <3>6. QED
      BY <3>2, <3>4, <3>5
  <2>2. CASE k # conn[n].key
    <3>1. SessionsOf(k)' = SessionsOf(k)
      BY <1>1, <1>2, <2>2 DEF SessionsOf
    <3>2. QED
      BY <1>1, <2>2, <3>1 DEF SlotsMatchSessions, TypeOK
  <2>3. QED
    BY <2>1, <2>2
<1>4. QED
  BY <1>3 DEF SlotsMatchSessions

LEMMA SlotsStep == TypeOK /\ SlotsMatchSessions /\ [Next]_vars => SlotsMatchSessions'
<1> SUFFICES ASSUME TypeOK, SlotsMatchSessions, [Next]_vars PROVE SlotsMatchSessions'
  OBVIOUS
<1>0. Closed.phase = "closed"
  BY DEF Closed
<1>1. ASSUME NEW n \in Conns, Establish(n) PROVE SlotsMatchSessions'
  BY <1>1, EstablishSlots
<1>2. ASSUME NEW n \in Conns, EndSession(n) PROVE SlotsMatchSessions'
  BY <1>2, EndSlots
<1>3. ASSUME NEW ip \in Ips, RemoveMissing(ip) PROVE SlotsMatchSessions'
  <2>1. ASSUME NEW k \in Keys PROVE sessions'[k] = 0 /\ SessionsOf(k)' = {}
    BY <1>0, <1>3 DEF RemoveMissing, SessionsOf
  <2>2. QED
    BY <2>1, FS_EmptySet DEF SlotsMatchSessions
<1>4. ASSUME NEW n \in Conns, NEW ip \in Ips, Connect(n, ip) PROVE SlotsMatchSessions'
  BY <1>4, SameSessions DEF Connect, TypeOK
<1>5. ASSUME NEW n \in Conns, Snapshot(n) PROVE SlotsMatchSessions'
  BY <1>0, <1>5, SameSessions DEF Snapshot, TypeOK
<1>6. ASSUME NEW n \in Conns, AbandonHandshake(n) PROVE SlotsMatchSessions'
  BY <1>0, <1>6, SameSessions DEF AbandonHandshake, TypeOK
<1>7. CASE UNCHANGED connVars
  BY <1>7, SameSessions DEF connVars
<1>8. ASSUME NEW n \in Conns, HandshakePacket(n) PROVE SlotsMatchSessions'
  BY <1>8, SameSessions DEF HandshakePacket, TypeOK
<1>9. QED
  BY <1>1, <1>2, <1>3, <1>4, <1>5, <1>6, <1>7, <1>8
     DEF Next, Spa, Purge, Remove, Xdp, Proxy, vars, connVars, AllowInKernel,
         AllowInMirror, Reload, CollectPurge, DrainEnds, NothingToReap,
         CollectExpired, RemoveCollected, Restart, XdpFindsExpired, XdpRemoves, Tick

(* A key's slot count is the number of its live sessions, for any number   *)
(* of connection tasks (noise.rs, acquire_session and SessionSlot::drop).  *)
THEOREM SlotsAreExact == Spec => []SlotsMatchSessions
<1>1. Init => SlotsMatchSessions
  <2> SUFFICES ASSUME Init, NEW k \in Keys PROVE sessions[k] = Cardinality(SessionsOf(k))
    BY DEF SlotsMatchSessions
  <2>1. SessionsOf(k) = {}
    BY DEF Init, SessionsOf, Closed
  <2>2. QED
    BY <2>1, FS_EmptySet DEF Init
<1>2. QED
  BY <1>1, TypeCorrect, SlotsStep, PTL DEF Spec


------------------------------------------------------------------------------
(* The session limit.                                                      *)

(* What acquire_session compares is the number of live sessions of the     *)
(* key, and the session it starts is one more.                             *)
LEMMA EstablishFits ==
    ASSUME TypeOK, SlotsMatchSessions, NEW n \in Conns, Establish(n)
    PROVE  conn'[n].limit = 0 \/ (Cardinality(SessionsOf(conn[n].key)) <= conn[n].limit)'
<1> DEFINE key == conn[n].key
<1>1. /\ conn[n].phase = "answered" /\ key \in Keys
      /\ conn[n].limit = 0 \/ sessions[key] < conn[n].limit
      /\ conn' = [conn EXCEPT ![n].phase = "session"]
  BY DEF Establish, SlotFree, TypeOK
<1>2. /\ conn'[n].limit = conn[n].limit /\ conn'[n].key = key
      /\ conn'[n].phase = "session"
      /\ \A m \in Conns \ {n} : conn'[m] = conn[m]
  BY <1>1 DEF TypeOK, ConnState
<1>3. SessionsOf(key)' = SessionsOf(key) \cup {n} /\ n \notin SessionsOf(key)
  BY <1>1, <1>2 DEF SessionsOf
<1>4. /\ IsFiniteSet(SessionsOf(key))
      /\ Cardinality(SessionsOf(key)) = sessions[key]
      /\ sessions[key] \in Nat
  BY <1>1, SessionsFinite DEF SlotsMatchSessions, TypeOK
<1>5. Cardinality(SessionsOf(key)') = sessions[key] + 1
  BY <1>3, <1>4, FS_AddElement
<1>6. conn[n].limit \in Nat
  <2>1. conn[n].limit \in Limits \cup {0}
    BY DEF TypeOK, ConnState
  <2>2. \A l \in Limits \cup {0} : l \in Nat
    BY LimitsAssumption
  <2>3. QED
    BY <2>1, <2>2
<1>7. conn[n].limit = 0 \/ Cardinality(SessionsOf(key)') <= conn[n].limit
  BY <1>1, <1>4, <1>5, <1>6
<1>8. QED
  BY <1>2, <1>7

(* max_concurrent_sessions (noise.rs, acquire_session), any number of      *)
(* connection tasks and reloads that change the limit while sessions live: *)
(* a session starts only within the limit its task has copied, whatever    *)
(* limits the sessions already live were admitted under.                   *)
THEOREM LimitIsKept == Spec => SessionLimitHolds
<1>1. TypeOK /\ SlotsMatchSessions /\ [Next]_vars =>
        [\A n \in Conns :
            conn[n].phase # "session" /\ conn'[n].phase = "session" =>
                \/ conn'[n].limit = 0
                \/ (Cardinality(SessionsOf(conn[n].key)) <= conn[n].limit)']_vars
  <2> SUFFICES ASSUME TypeOK, SlotsMatchSessions, [Next]_vars, NEW n \in Conns,
                      conn[n].phase # "session", conn'[n].phase = "session"
               PROVE  \/ conn'[n].limit = 0
                      \/ (Cardinality(SessionsOf(conn[n].key)) <= conn[n].limit)'
    OBVIOUS
  <2>1. Closed.phase = "closed"
    BY DEF Closed
  <2>2. ~Snapshot(n)
    BY <2>1 DEF Snapshot, TypeOK
  <2>3. ~HandshakePacket(n)
    BY DEF HandshakePacket, TypeOK
  <2>4. QED
    BY <2>2, <2>3, WhoMoves, EstablishFits
<1>2. QED
  BY <1>1, TypeCorrect, SlotsAreExact, PTL DEF Spec, SessionLimitHolds
==============================================================================
