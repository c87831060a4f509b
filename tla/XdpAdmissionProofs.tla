--------------------------- MODULE XdpAdmissionProofs ---------------------------
(***************************************************************************)
(* Proofs about XdpAdmission.  Types and sizes hold for every number of    *)
(* CPUs and addresses; the two budget properties for one CPU, every limit, *)
(* window, map and ring size, and any sequence of sources (two CPUs may    *)
(* spend the same token, since the global bucket has no atomic update).    *)
(***************************************************************************)
EXTENDS XdpAdmission, FiniteSetTheorems, TLAPS

SourceEntry == [tokens: 0..Limit, last: Nat]
GlobalEntry == [tokens: 0..GlobalLimit, last: Nat]
CpuState == [pc: {"idle", "source", "global", "store", "emit"},
             ip: Ips \cup {None}, at: Nat, refill: BOOLEAN, bucket: Bucket]

Used == { ip \in Ips : rate[ip] # None }

(* The bucket a CPU works on is within the limit of the map it goes back   *)
(* to, and a CPU that handles a packet knows its source.                   *)
CpuFits(x) ==
    /\ x.pc # "idle" => x.ip \in Ips
    /\ x.pc = "source" => x.bucket \in SourceEntry
    /\ x.pc = "store" => x.bucket \in GlobalEntry

SizeInv ==
    /\ TypeOK
    /\ IsFiniteSet(Used)
    /\ \A c \in Cpus : CpuFits(cpu[c])

------------------------------------------------------------------------------
(* The steps of a CPU, by its new state x.                                 *)

LEMMA IdleCpuType == IdleCpu \in CpuState /\ IdleCpu.pc = "idle" /\ CpuFits(IdleCpu)
BY DEF IdleCpu, CpuState, Bucket, CpuFits

LEMMA CpuFields ==
    ASSUME TypeOK, NEW c \in Cpus
    PROVE  /\ cpu[c] \in CpuState
           /\ cpu[c].bucket \in Bucket
           /\ cpu[c].bucket.tokens \in Nat /\ cpu[c].bucket.last \in Nat
           /\ cpu[c].at \in Nat
           /\ cpu[c].ip \in Ips \cup {None}
           /\ cpu[c].refill \in BOOLEAN
BY DEF TypeOK, CpuState, Bucket

LEMMA CpuUpdate ==
    ASSUME TypeOK, NEW c \in Cpus, NEW x \in CpuState, cpu' = [cpu EXCEPT ![c] = x]
    PROVE  /\ cpu' \in [Cpus -> CpuState]
           /\ cpu'[c] = x
           /\ \A d \in Cpus \ {c} : cpu'[d] = cpu[d]
BY DEF TypeOK, CpuState

(* Moving on keeps all locals.                                             *)
LEMMA GotoEffect ==
    ASSUME TypeOK, NEW c \in Cpus, NEW p \in {"global", "emit"}, Goto(c, p)
    PROVE  \E x \in CpuState : /\ cpu' = [cpu EXCEPT ![c] = x]
                               /\ x.pc = p /\ x.ip = cpu[c].ip
<1> DEFINE x == [cpu[c] EXCEPT !.pc = p]
<1>1. cpu[c] \in CpuState
  BY CpuFields
<1>2. cpu' = [cpu EXCEPT ![c] = x]
  BY DEF Goto, TypeOK
<1>3. x \in CpuState /\ x.pc = p /\ x.ip = cpu[c].ip
  BY <1>1 DEF CpuState
<1> HIDE DEF x
<1>4. QED
  BY <1>2, <1>3

(* A full bucket, and one that lost a token.                               *)
LEMMA BucketTypes ==
    ASSUME NEW limit \in Nat, NEW b \in [tokens: 0..limit, last: Nat], now \in Nat
    PROVE  /\ Refilled(b, limit) \in [tokens: 0..limit, last: Nat]
           /\ b.tokens # 0 => Spent(b) \in [tokens: 0..limit, last: Nat]
           /\ b.tokens # 0 => Spent(b).tokens = b.tokens - 1 /\ Spent(b).last = b.last
<1>1. [tokens |-> limit, last |-> now] \in [tokens: 0..limit, last: Nat]
  OBVIOUS
<1>2. Refilled(b, limit) \in [tokens: 0..limit, last: Nat]
  BY <1>1 DEF Refilled
<1>3. ASSUME b.tokens # 0
      PROVE  /\ Spent(b) \in [tokens: 0..limit, last: Nat]
             /\ Spent(b).tokens = b.tokens - 1 /\ Spent(b).last = b.last
  <2>1. b.tokens - 1 \in 0..limit
    BY <1>3
  <2>2. QED
    BY <2>1 DEF Spent
<1>4. QED
  BY <1>2, <1>3

LEMMA ReceiveEffect ==
    ASSUME SizeInv, NEW c \in Cpus, NEW ip \in Ips, Receive(c, ip)
    PROVE  \E x \in CpuState : /\ cpu' = [cpu EXCEPT ![c] = x]
                               /\ x.pc = "source" /\ CpuFits(x)
<1> DEFINE b == IF rate[ip] = None THEN [tokens |-> Limit, last |-> now]
                ELSE Refilled(rate[ip], Limit)
           x == [IdleCpu EXCEPT !.pc = "source", !.ip = ip, !.bucket = b]
<1>1. b \in SourceEntry
  <2>1. now \in Nat /\ Limit \in Nat /\ rate[ip] \in SourceEntry \cup {None}
    BY LimitsAssumption DEF SizeInv, TypeOK, SourceEntry
  <2>2. CASE rate[ip] = None
    BY <2>1, <2>2 DEF SourceEntry
  <2>3. CASE rate[ip] # None
    <3>1. Refilled(rate[ip], Limit) \in SourceEntry
      BY <2>1, <2>3, BucketTypes DEF SourceEntry
    <3>2. QED
      BY <2>3, <3>1
  <2>4. QED
    BY <2>2, <2>3
<1>2. cpu' = [cpu EXCEPT ![c] = x]
  BY DEF Receive
<1>3. b \in Bucket
  BY <1>1, LimitsAssumption DEF SourceEntry, Bucket
<1> HIDE DEF b
<1>4. x \in CpuState /\ x.pc = "source" /\ x.ip = ip /\ x.bucket = b
  BY <1>3, IdleCpuType DEF CpuState
<1> HIDE DEF x
<1>5. QED
  BY <1>1, <1>2, <1>4 DEF CpuFits

LEMMA LoadEffect ==
    ASSUME SizeInv, NEW c \in Cpus, GlobalLoad(c)
    PROVE  \E x \in CpuState :
             /\ cpu' = [cpu EXCEPT ![c] = x]
             /\ x.pc = "store" /\ x.ip = cpu[c].ip /\ x.at = now
             /\ x.refill <=> Stale(global)
             /\ x.bucket = Refilled(global, GlobalLimit)
             /\ CpuFits(x)
<1> DEFINE b == Refilled(global, GlobalLimit)
           x(s) == [cpu[c] EXCEPT !.pc = "store", !.at = now, !.refill = s, !.bucket = b]
           t == Stale(global)
<1>0. /\ TypeOK /\ now \in Nat /\ global \in GlobalEntry /\ cpu[c] \in CpuState
      /\ cpu[c].ip \in Ips
  BY CpuFields DEF SizeInv, TypeOK, GlobalEntry, CpuFits, GlobalLoad, At
<1>1. b \in GlobalEntry /\ b \in Bucket
  <2>1. GlobalLimit \in Nat
    BY LimitsAssumption
  <2>2. b \in GlobalEntry
    <3>1. QED
      BY <1>0, <2>1, BucketTypes DEF GlobalEntry
  <2> HIDE DEF b
  <2>3. QED
    BY <2>1, <2>2 DEF GlobalEntry, Bucket
<1>2. cpu' = [cpu EXCEPT ![c] = x(t)]
  BY <1>0 DEF GlobalLoad, TypeOK
<1>3. t \in BOOLEAN
  BY Zenon DEF Stale
<1> HIDE DEF b
<1>4. \A s \in BOOLEAN : /\ x(s) \in CpuState /\ x(s).pc = "store" /\ x(s).ip = cpu[c].ip
                         /\ x(s).at = now /\ x(s).bucket = b /\ x(s).refill = s
  BY <1>0, <1>1 DEF CpuState
<1> HIDE DEF x, t
<1>5. /\ x(t) \in CpuState /\ x(t).pc = "store" /\ x(t).ip = cpu[c].ip
      /\ x(t).at = now /\ x(t).bucket = b /\ x(t).refill = t
  BY <1>3, <1>4, Zenon
<1>6. x(t).refill <=> Stale(global)
  BY <1>5, Zenon DEF t
<1>7. CpuFits(x(t))
  BY <1>0, <1>1, <1>5 DEF CpuFits
<1>8. QED
  BY <1>2, <1>5, <1>6, <1>7, Zenon DEF b

(* The LRU map: an insert never needs more entries than there are.         *)
LEMMA InsertFits ==
    ASSUME SizeInv, NEW ip \in Ips, NEW b \in SourceEntry, InsertBucket(ip, b)
    PROVE  /\ rate' \in [Ips -> SourceEntry \cup {None}]
           /\ IsFiniteSet(Used')
           /\ Cardinality(Used') <= MapSize
<1>0. /\ rate \in [Ips -> SourceEntry \cup {None}] /\ IsFiniteSet(Used)
      /\ Cardinality(Used) <= MapSize /\ MapSize \in Nat
      /\ Cardinality(Used) \in Nat
  BY LimitsAssumption, FS_CardinalityType DEF SizeInv, TypeOK, SourceEntry, Used
<1>1. b # None
  BY NoneAssumption DEF SourceEntry, Bucket
<1>2. PICK out \in Victims(ip) :
        rate' = [i \in Ips |-> IF i = ip THEN b ELSE IF i \in out THEN None ELSE rate[i]]
  BY DEF InsertBucket
<1>3. rate' \in [Ips -> SourceEntry \cup {None}]
  BY <1>0, <1>2
<1>4. Used' = (Used \ out) \cup {ip}
  BY <1>1, <1>2 DEF Used
<1>5. CASE rate[ip] # None
  <2>1. out = {}
    BY <1>2, <1>5 DEF Victims
  <2>2. Used' = Used
    BY <1>4, <1>5, <2>1 DEF Used
  <2>3. QED
    BY <1>0, <1>3, <2>2
<1>6. CASE rate[ip] = None
  <2>0. ip \notin Used
    BY <1>6 DEF Used
  <2>1. CASE Cardinality(Used) < MapSize
    <3>1. out = {}
      BY <1>2, <2>1 DEF Victims, Used
    <3>2. Used' = Used \cup {ip}
      BY <1>4, <3>1
    <3> HIDE DEF Used
    <3>3. IsFiniteSet(Used \cup {ip}) /\ Cardinality(Used \cup {ip}) = Cardinality(Used) + 1
      BY <1>0, <2>0, FS_AddElement
    <3>4. QED
      BY <1>0, <1>3, <2>1, <3>2, <3>3
  <2>2. CASE ~(Cardinality(Used) < MapSize)
    <3>1. PICK v \in Used : out = {v}
      BY <1>2, <1>6, <2>2 DEF Victims, Used
    <3> DEFINE S == Used \ {v}
    <3>2. IsFiniteSet(S) /\ Cardinality(S) = Cardinality(Used) - 1
      BY <1>0, <3>1, FS_RemoveElement
    <3>3. Used' = S \cup {ip} /\ ip \notin S
      BY <1>4, <2>0, <3>1
    <3> HIDE DEF S
    <3>4. IsFiniteSet(S \cup {ip}) /\ Cardinality(S \cup {ip}) = Cardinality(S) + 1
      BY <3>2, <3>3, FS_AddElement
    <3>5. Cardinality(Used') = Cardinality(Used)
      BY <1>0, <3>2, <3>3, <3>4
    <3>6. QED
      BY <1>0, <1>3, <3>3, <3>4, <3>5
  <2>3. QED
    BY <2>1, <2>2
<1>7. QED
  BY <1>5, <1>6

------------------------------------------------------------------------------
(* Types and sizes.                                                        *)

LEMMA SizeInit == Init => SizeInv
<1> SUFFICES ASSUME Init PROVE SizeInv
  OBVIOUS
<1>1. cpu \in [Cpus -> CpuState] /\ \A c \in Cpus : CpuFits(cpu[c])
  BY IdleCpuType DEF Init
<1>2. Used = {}
  BY DEF Init, Used
<1>3. IsFiniteSet(Used) /\ Cardinality(Used) = 0
  BY <1>2, FS_EmptySet
<1>4. global \in GlobalEntry /\ now \in Nat
  BY LimitsAssumption DEF Init, GlobalEntry
<1>5. rate \in [Ips -> SourceEntry \cup {None}]
  BY DEF Init
<1>6. ring \in Seq(Ips) /\ Len(ring) <= RingSize /\ admitted \in Seq(Nat)
  BY LimitsAssumption DEF Init
<1>7. Cardinality(Used) <= MapSize
  BY <1>3, LimitsAssumption
<1>8. TypeOK
  BY <1>1, <1>4, <1>5, <1>6, <1>7 DEF TypeOK, CpuState, GlobalEntry, SourceEntry, Used
<1>9. QED
  BY <1>1, <1>3, <1>8 DEF SizeInv

(* What is left to show of a step of one CPU.                              *)
LEMMA CpusKept ==
    ASSUME SizeInv, NEW c \in Cpus, NEW x \in CpuState,
           cpu' = [cpu EXCEPT ![c] = x], CpuFits(x)
    PROVE  cpu' \in [Cpus -> CpuState] /\ \A d \in Cpus : CpuFits(cpu'[d])
<1>1. /\ cpu' \in [Cpus -> CpuState]
      /\ cpu'[c] = x
      /\ \A d \in Cpus \ {c} : cpu'[d] = cpu[d]
  BY CpuUpdate DEF SizeInv
<1>2. \A d \in Cpus : CpuFits(cpu[d])
  BY DEF SizeInv
<1>3. QED
  BY <1>1, <1>2

LEMMA StoreEffect ==
    ASSUME SizeInv, NEW c \in Cpus, GlobalStore(c)
    PROVE  /\ global' \in GlobalEntry /\ admitted' \in Seq(Nat)
           /\ \E x \in CpuState : /\ cpu' = [cpu EXCEPT ![c] = x]
                                  /\ x.pc \in {"idle", "emit"} /\ CpuFits(x)
<1> DEFINE b == cpu[c].bucket
<1>0. /\ TypeOK /\ global \in GlobalEntry /\ admitted \in Seq(Nat) /\ cpu[c].at \in Nat
      /\ cpu[c].pc = "store" /\ b \in GlobalEntry /\ cpu[c].ip \in Ips
  BY CpuFields DEF SizeInv, TypeOK, GlobalEntry, CpuFits, GlobalStore, At
<1>1. CASE b.tokens = 0
  BY <1>0, <1>1, IdleCpuType DEF GlobalStore
<1>2. CASE b.tokens # 0
  <2>1. /\ Spent(b) \in GlobalEntry
    BY <1>0, <1>2, LimitsAssumption, BucketTypes DEF GlobalEntry, SizeInv, TypeOK
  <2>2. global' = Stored(c, Spent(b)) /\ admitted' = Append(admitted, cpu[c].at)
        /\ Goto(c, "emit")
    BY <1>2 DEF GlobalStore
  <2>3. global' \in GlobalEntry
    <3>1. \A n \in {Spent(b).last, global.last} : [tokens |-> Spent(b).tokens, last |-> n] \in GlobalEntry
      BY <1>0, <2>1 DEF GlobalEntry
    <3>2. QED
      BY <2>2, <3>1 DEF Stored
  <2>4. admitted' \in Seq(Nat)
    BY <1>0, <2>2
  <2>5. PICK x \in CpuState : cpu' = [cpu EXCEPT ![c] = x] /\ x.pc = "emit" /\ x.ip = cpu[c].ip
    BY <1>0, <2>2, GotoEffect
  <2>6. CpuFits(x)
    BY <1>0, <2>5 DEF CpuFits
  <2>7. QED
    BY <2>3, <2>4, <2>5, <2>6
<1>3. QED
  BY <1>1, <1>2

LEMMA SizeStep == SizeInv /\ [Next]_vars => SizeInv'
<1> SUFFICES ASSUME SizeInv, [Next]_vars PROVE SizeInv'
  OBVIOUS
<1>0. /\ TypeOK /\ IsFiniteSet(Used) /\ Cardinality(Used) <= MapSize
      /\ rate \in [Ips -> SourceEntry \cup {None}]
      /\ global \in GlobalEntry /\ now \in Nat
      /\ cpu \in [Cpus -> CpuState] /\ (\A c \in Cpus : CpuFits(cpu[c]))
      /\ ring \in Seq(Ips) /\ Len(ring) <= RingSize /\ admitted \in Seq(Nat)
  BY DEF SizeInv, TypeOK, SourceEntry, GlobalEntry, CpuState, Used
<1>1. ASSUME now' \in Nat, rate' \in [Ips -> SourceEntry \cup {None}],
             IsFiniteSet(Used'), Cardinality(Used') <= MapSize,
             global' \in GlobalEntry, cpu' \in [Cpus -> CpuState],
             \A c \in Cpus : CpuFits(cpu'[c]),
             ring' \in Seq(Ips), Len(ring') <= RingSize, admitted' \in Seq(Nat)
      PROVE  SizeInv'
  <2>1. TypeOK'
    BY <1>1 DEF TypeOK, SourceEntry, GlobalEntry, CpuState, Used
  <2>2. QED
    BY <1>1, <2>1 DEF SizeInv, CpuFits
<1>2. ASSUME NEW c \in Cpus, NEW x \in CpuState, cpu' = [cpu EXCEPT ![c] = x], CpuFits(x),
             UNCHANGED <<now, rate>>, global' \in GlobalEntry,
             ring' \in Seq(Ips), Len(ring') <= RingSize, admitted' \in Seq(Nat)
      PROVE  SizeInv'
  <2>1. cpu' \in [Cpus -> CpuState] /\ \A d \in Cpus : CpuFits(cpu'[d])
    BY <1>2, CpusKept
  <2>2. Used' = Used
    BY <1>2 DEF Used
  <2>3. QED
    BY <1>0, <1>1, <1>2, <2>1, <2>2
<1>3. ASSUME NEW c \in Cpus, NEW ip \in Ips, Receive(c, ip) PROVE SizeInv'
  BY <1>0, <1>2, <1>3, ReceiveEffect DEF Receive
<1>4. ASSUME NEW c \in Cpus, SourceBucket(c) PROVE SizeInv'
  <2> DEFINE b == cpu[c].bucket
             ip == cpu[c].ip
  <2>1. ip \in Ips /\ b \in SourceEntry /\ UNCHANGED <<now, global, ring, admitted>>
    BY <1>0, <1>4 DEF SourceBucket, At, CpuFits
  <2>2. ASSUME NEW x \in CpuState, cpu' = [cpu EXCEPT ![c] = x], CpuFits(x),
               NEW e \in SourceEntry, InsertBucket(ip, e)
        PROVE  SizeInv'
    <3>1. /\ rate' \in [Ips -> SourceEntry \cup {None}]
          /\ IsFiniteSet(Used') /\ Cardinality(Used') <= MapSize
      BY <2>1, <2>2, InsertFits
    <3>2. cpu' \in [Cpus -> CpuState] /\ \A d \in Cpus : CpuFits(cpu'[d])
      BY <2>2, CpusKept
    <3>3. QED
      BY <1>0, <1>1, <2>1, <3>1, <3>2
  <2>3. CASE b.tokens = 0
    BY <1>4, <2>1, <2>2, <2>3, IdleCpuType DEF SourceBucket
  <2>4. CASE b.tokens # 0
    <3>1. Spent(b) \in SourceEntry
      BY <1>0, <2>1, <2>4, LimitsAssumption, BucketTypes DEF SourceEntry
    <3>2. InsertBucket(ip, Spent(b)) /\ Goto(c, "global")
      BY <1>4, <2>4 DEF SourceBucket
    <3>3. PICK x \in CpuState :
            cpu' = [cpu EXCEPT ![c] = x] /\ x.pc = "global" /\ x.ip = cpu[c].ip
      BY <1>0, <3>2, GotoEffect
    <3>4. CpuFits(x)
      BY <2>1, <3>3 DEF CpuFits
    <3>5. QED
      BY <2>2, <3>1, <3>2, <3>3, <3>4
  <2>5. QED
    BY <2>3, <2>4
<1>5. ASSUME NEW c \in Cpus, GlobalLoad(c) PROVE SizeInv'
  BY <1>0, <1>2, <1>5, LoadEffect DEF GlobalLoad
<1>6. ASSUME NEW c \in Cpus, GlobalStore(c) PROVE SizeInv'
  BY <1>0, <1>2, <1>6, StoreEffect DEF GlobalStore
<1>7. ASSUME NEW c \in Cpus, Emit(c) PROVE SizeInv'
  <2>1. cpu[c].ip \in Ips
    BY <1>0, <1>7 DEF Emit, At, CpuFits
  <2>2. ring' \in Seq(Ips) /\ Len(ring') <= RingSize
    <3>1. CASE Len(ring) < RingSize /\ ring' = Append(ring, cpu[c].ip)
      <4>1. ring' \in Seq(Ips) /\ Len(ring') = Len(ring) + 1 /\ Len(ring) \in Nat
        BY <1>0, <2>1, <3>1
      <4>2. QED
        BY <3>1, <4>1, LimitsAssumption
    <3>2. CASE ring' = ring
      BY <1>0, <3>2
    <3>3. QED
      BY <1>7, <3>1, <3>2 DEF Emit
  <2>3. cpu' = [cpu EXCEPT ![c] = IdleCpu] /\ UNCHANGED <<now, rate, global, admitted>>
    BY <1>7 DEF Emit
  <2>4. QED
    BY <1>0, <1>2, <2>2, <2>3, IdleCpuType
<1>8. CASE Drain
  <2>1. ring' \in Seq(Ips) /\ Len(ring') <= RingSize
    <3>1. ring # <<>> /\ ring' = Tail(ring)
      BY <1>8 DEF Drain
    <3>2. ring' \in Seq(Ips) /\ Len(ring') = Len(ring) - 1 /\ Len(ring) \in Nat
      BY <1>0, <3>1
    <3>3. QED
      BY <1>0, <3>2, LimitsAssumption
  <2>2. UNCHANGED <<now, rate, global, cpu, admitted>> /\ Used' = Used
    BY <1>8 DEF Drain, Used
  <2>3. QED
    BY <1>0, <1>1, <2>1, <2>2
<1>9. CASE Tick
  <2>1. now' \in Nat /\ UNCHANGED <<rate, global, cpu, ring, admitted>> /\ Used' = Used
    BY <1>0, <1>9 DEF Tick, Used
  <2>2. QED
    BY <1>0, <1>1, <2>1
<1>10. CASE UNCHANGED vars
  <2>1. UNCHANGED <<now, rate, global, cpu, ring, admitted>> /\ Used' = Used
    BY <1>10 DEF vars, Used
  <2>2. QED
    BY <1>0, <1>1, <2>1
<1>11. QED
  BY <1>3, <1>4, <1>5, <1>6, <1>7, <1>8, <1>9, <1>10 DEF Next, HandleUdp

(* handle_udp on any number of CPUs: no bucket exceeds its limit, and the  *)
(* LRU map and the ring stay within their sizes, although the CPUs update  *)
(* the buckets without any synchronisation.                                *)
THEOREM TypeCorrect == Spec => []TypeOK
<1>1. SizeInv => TypeOK
  BY DEF SizeInv
<1>2. QED
  BY <1>1, SizeInit, SizeStep, PTL DEF Spec

------------------------------------------------------------------------------
(* The budgets, for one CPU.                                               *)

OneCpu == \A c, d \in Cpus : c = d

(* The knocks let through fall into three runs: up to r those a whole      *)
(* window before the last refill, up to s those of the budget before it,   *)
(* and those since, which together with the tokens left make one budget.   *)
WindowsAt(r, s) ==
    /\ r <= s
    /\ \A i \in 1..r : admitted[i] + Window <= global.last
    /\ s - r <= GlobalLimit
    /\ \A i \in 1..s : admitted[i] < global.last
    /\ \A i \in (s + 1)..Len(admitted) : admitted[i] >= global.last
    /\ (Len(admitted) - s) + global.tokens <= GlobalLimit

(* The global bucket and the clock.                                        *)
ClockFits ==
    /\ now >= 1
    /\ global.last <= now
    /\ global.last = 0 => Len(admitted) = 0
    /\ \A i \in 1..Len(admitted) : admitted[i] < global.last + Window

(* What the CPU is about to store is what the bucket still says it may.    *)
LoadFits(x) ==
    x.pc = "store" =>
        /\ global.last <= x.at /\ 1 <= x.at /\ x.at <= now
        /\ \/ /\ x.refill
              /\ x.bucket.tokens = GlobalLimit /\ x.bucket.last = x.at
              /\ global.last = 0 \/ global.last + Window <= x.at
           \/ /\ ~x.refill
              /\ x.bucket.tokens = global.tokens
              /\ x.at < global.last + Window /\ global.last # 0

BudgetInv ==
    /\ SizeInv
    /\ ClockFits
    /\ \A c \in Cpus : LoadFits(cpu[c])
    /\ \E r, s \in 0..Len(admitted) : WindowsAt(r, s)
    /\ TwoBudgetsPerSpan

LEMMA BudgetTypes ==
    ASSUME SizeInv
    PROVE  /\ now \in Nat /\ global.last \in Nat /\ global.tokens \in Nat
           /\ global.tokens <= GlobalLimit
           /\ GlobalLimit \in Nat /\ Window \in Nat /\ Window >= 1
           /\ Len(admitted) \in Nat /\ admitted \in Seq(Nat)
           /\ \A i \in 1..Len(admitted) : admitted[i] \in Nat
<1>1. global \in [tokens: 0..GlobalLimit, last: Nat] /\ now \in Nat /\ admitted \in Seq(Nat)
  BY DEF SizeInv, TypeOK
<1>2. GlobalLimit \in Nat /\ Window \in Nat /\ Window >= 1
  BY LimitsAssumption
<1>3. QED
  BY <1>1, <1>2

(* A step that leaves the global bucket and the history alone.             *)
LEMMA BudgetUntouched ==
    ASSUME BudgetInv, SizeInv', UNCHANGED <<global, admitted>>, now' >= now,
           \A c \in Cpus : LoadFits(cpu[c])'
    PROVE  BudgetInv'
<1>1. ClockFits'
  BY BudgetTypes DEF BudgetInv, ClockFits, SizeInv, TypeOK
<1>2. PICK r \in 0..Len(admitted), s \in 0..Len(admitted) : WindowsAt(r, s)
  BY DEF BudgetInv
<1>3. WindowsAt(r, s)'
  BY <1>2 DEF WindowsAt
<1>4. TwoBudgetsPerSpan'
  BY DEF BudgetInv, TwoBudgetsPerSpan
<1>5. QED
  BY <1>1, <1>3, <1>4 DEF BudgetInv

(* One more knock: the current budget shrinks, or a refill a whole window  *)
(* later starts the next one.                                              *)
LEMMA WindowsGrow ==
    ASSUME SizeInv, SizeInv', ClockFits, NEW t \in Nat, 1 <= t, t <= now, global.last <= t,
           NEW r \in 0..Len(admitted), NEW s \in 0..Len(admitted), WindowsAt(r, s),
           admitted' = Append(admitted, t),
           \/ /\ global'.last = t /\ global'.tokens = GlobalLimit - 1
              /\ global.last = 0 \/ global.last + Window <= t
           \/ /\ global'.last = global.last /\ global'.tokens = global.tokens - 1
              /\ t < global.last + Window /\ global.last # 0
    PROVE  /\ \E q, p \in 0..Len(admitted) : WindowsAt(q, p)'
           /\ \A i \in 1..Len(admitted') : admitted'[i] < global'.last + Window
           /\ global'.last # 0
<1>n. PICK n \in Nat : n = Len(admitted)
  BY BudgetTypes
<1>0. /\ now \in Nat /\ global.last \in Nat /\ global.tokens \in Nat
      /\ global.tokens <= GlobalLimit
      /\ GlobalLimit \in Nat /\ Window \in Nat /\ Window >= 1 /\ n \in Nat
      /\ \A i \in 1..n : admitted[i] \in Nat
      /\ r \in Nat /\ s \in Nat /\ r <= s /\ s <= n
  BY <1>n, BudgetTypes DEF WindowsAt
<1>1. /\ Len(admitted') = n + 1
      /\ admitted'[n + 1] = t
      /\ \A i \in 1..n : admitted'[i] = admitted[i]
  BY <1>n, BudgetTypes
<1>2. \A i \in 1..n : admitted[i] < global.last + Window
  BY <1>n DEF ClockFits
<1>3. /\ \A i \in 1..r : admitted[i] + Window <= global.last
      /\ s - r <= GlobalLimit
      /\ \A i \in 1..s : admitted[i] < global.last
      /\ \A i \in (s + 1)..n : admitted[i] >= global.last
      /\ (n - s) + global.tokens <= GlobalLimit
  BY <1>n DEF WindowsAt
<1>4. CASE /\ global'.last = t /\ global'.tokens = GlobalLimit - 1
           /\ global.last = 0 \/ global.last + Window <= t
  <2>1. \A i \in 1..n : admitted[i] < t
    <3>1. CASE global.last = 0
      <4>1. n = 0
        BY <1>n, <3>1 DEF ClockFits
      <4>2. QED
        BY <4>1
    <3>2. CASE global.last + Window <= t
      BY <1>0, <1>2, <3>2
    <3>3. QED
      BY <1>4, <3>1, <3>2
  <2>2. \A i \in 1..s : admitted[i] + Window <= t
    <3>1. CASE global.last = 0
      <4>1. s = 0
        BY <1>n, <1>0, <3>1 DEF ClockFits
      <4>2. QED
        BY <4>1
    <3>2. CASE global.last + Window <= t
      BY <1>0, <1>3, <3>2, SMTT(30)
    <3>3. QED
      BY <1>4, <3>1, <3>2
  <2>3. \A i \in 1..s : admitted'[i] + Window <= global'.last
    BY <1>0, <1>1, <1>4, <2>2
  <2>4. n - s <= GlobalLimit
    BY <1>0, <1>3
  <2>5. \A i \in 1..n : admitted'[i] < global'.last
    BY <1>1, <1>4, <2>1
  <2>6. \A i \in (n + 1)..Len(admitted') : admitted'[i] >= global'.last
    BY <1>0, <1>1, <1>4
  <2>7. (Len(admitted') - n) + global'.tokens <= GlobalLimit
    BY <1>0, <1>1, <1>4
  <2>8. WindowsAt(s, n)'
    BY <1>0, <2>3, <2>4, <2>5, <2>6, <2>7 DEF WindowsAt
  <2>9. \A i \in 1..Len(admitted') : admitted'[i] < global'.last + Window
    BY <1>0, <1>1, <1>4, <2>1, SMTT(30)
  <2>10. QED
    BY <1>n, <1>0, <1>4, <2>8, <2>9
<1>5. CASE /\ global'.last = global.last /\ global'.tokens = global.tokens - 1
           /\ t < global.last + Window /\ global.last # 0
  <2>1. WindowsAt(r, s)'
    <3>1. \A i \in 1..r : admitted'[i] + Window <= global'.last
      BY <1>0, <1>1, <1>3, <1>5
    <3>2. \A i \in 1..s : admitted'[i] < global'.last
      BY <1>0, <1>1, <1>3, <1>5
    <3>3. \A i \in (s + 1)..Len(admitted') : admitted'[i] >= global'.last
      BY <1>0, <1>1, <1>3, <1>5, SMTT(30)
    <3>4. (Len(admitted') - s) + global'.tokens <= GlobalLimit
      BY <1>0, <1>1, <1>3, <1>5
    <3>5. QED
      BY <1>0, <1>3, <3>1, <3>2, <3>3, <3>4 DEF WindowsAt
  <2>2. \A i \in 1..Len(admitted') : admitted'[i] < global'.last + Window
    BY <1>0, <1>1, <1>2, <1>5
  <2>3. QED
    BY <1>5, <2>1, <2>2
<1>6. QED
  BY <1>4, <1>5

(* The new knock and any other one less than a window away are both after  *)
(* r, and at most two budgets are.                                         *)
LEMMA SpanHolds ==
    ASSUME SizeInv, SizeInv', TwoBudgetsPerSpan, NEW t \in Nat, admitted' = Append(admitted, t),
           NEW r \in 0..Len(admitted), NEW s \in 0..Len(admitted), WindowsAt(r, s)'
    PROVE  TwoBudgetsPerSpan'
<1>n. PICK n \in Nat : n = Len(admitted)
  BY BudgetTypes
<1>1. /\ Len(admitted') = n + 1
      /\ \A i \in 1..n : admitted'[i] = admitted[i]
      /\ r \in Nat /\ s \in Nat /\ s <= n
  BY <1>n, BudgetTypes
<1>2. /\ GlobalLimit \in Nat /\ Window \in Nat
      /\ global'.last \in Nat /\ global'.tokens \in Nat
      /\ \A i \in 1..(n + 1) : admitted'[i] \in Nat
  BY <1>1, BudgetTypes, SMTT(30) DEF SizeInv, TypeOK
<1>3. /\ r <= s
      /\ \A i \in 1..r : admitted'[i] + Window <= global'.last
      /\ s - r <= GlobalLimit
      /\ admitted'[n + 1] >= global'.last
      /\ ((n + 1) - s) + global'.tokens <= GlobalLimit
  BY <1>1 DEF WindowsAt
<1>4. SUFFICES ASSUME NEW i \in 1..(n + 1), NEW j \in 1..(n + 1), i <= j,
                      admitted'[j] - admitted'[i] < Window
               PROVE  j - i + 1 <= 2 * GlobalLimit
  BY <1>1 DEF TwoBudgetsPerSpan
<1>5. CASE j <= n
  <2>1. i \in 1..n /\ j \in 1..n
    BY <1>4, <1>5
  <2>2. QED
    BY <1>n, <1>1, <1>4, <2>1 DEF TwoBudgetsPerSpan
<1>6. CASE j = n + 1
  <2>1. ~(i <= r)
    <3>1. SUFFICES ASSUME i <= r PROVE FALSE
      OBVIOUS
    <3>2. admitted'[i] + Window <= global'.last
      BY <1>1, <1>3, <3>1
    <3>3. /\ admitted'[i] \in Nat /\ admitted'[n + 1] \in Nat
          /\ admitted'[n + 1] - admitted'[i] < Window
      BY <1>2, <1>4, <1>6
    <3>4. \A x, y, l, w \in Nat : x + w <= l /\ y >= l => ~(y - x < w)
      OBVIOUS
    <3>5. ~(admitted'[n + 1] - admitted'[i] < Window)
      BY <1>2, <1>3, <3>2, <3>3, <3>4
    <3>6. QED
      BY <3>3, <3>5
  <2>2. QED
    BY <1>1, <1>2, <1>3, <1>6, <2>1
<1>7. QED
  BY <1>5, <1>6


(* What the store of a CPU whose bucket has a token writes.                *)
LEMMA StoreWrites ==
    ASSUME SizeInv, NEW c \in Cpus, GlobalStore(c), cpu[c].bucket.tokens # 0
    PROVE  /\ admitted' = Append(admitted, cpu[c].at)
           /\ global'.tokens = cpu[c].bucket.tokens - 1
           /\ cpu[c].refill => global'.last = cpu[c].bucket.last
           /\ ~cpu[c].refill => global'.last = global.last
<1> DEFINE b == cpu[c].bucket
<1>0. b \in GlobalEntry
  BY DEF SizeInv, CpuFits, GlobalStore, At
<1>1. Spent(b).tokens = b.tokens - 1 /\ Spent(b).last = b.last
  BY <1>0, LimitsAssumption, BucketTypes DEF GlobalEntry, SizeInv, TypeOK
<1>2. global' = Stored(c, Spent(b)) /\ admitted' = Append(admitted, cpu[c].at)
  BY DEF GlobalStore
<1> HIDE DEF b
<1>3. \A m, l : [tokens |-> m, last |-> l].tokens = m /\ [tokens |-> m, last |-> l].last = l
  OBVIOUS
<1>4. global'.tokens = b.tokens - 1
  BY <1>1, <1>2, <1>3 DEF Stored
<1>5. cpu[c].refill => global'.last = b.last
  BY <1>1, <1>2, <1>3 DEF Stored
<1>6. ~cpu[c].refill => global'.last = global.last
  BY <1>2, <1>3 DEF Stored
<1>7. QED
  BY <1>2, <1>4, <1>5, <1>6 DEF b

LEMMA StoreKeepsBudget ==
    ASSUME BudgetInv, SizeInv', OneCpu, NEW c \in Cpus, GlobalStore(c)
    PROVE  BudgetInv'
<1>0. SizeInv /\ ClockFits /\ LoadFits(cpu[c]) /\ TwoBudgetsPerSpan /\ cpu[c].pc = "store"
  BY DEF BudgetInv, GlobalStore, At
<1>1. \A d \in Cpus : LoadFits(cpu[d])'
  <2>1. PICK x \in CpuState : cpu' = [cpu EXCEPT ![c] = x] /\ x.pc \in {"idle", "emit"}
    BY <1>0, StoreEffect
  <2>2. cpu'[c] = x
    BY <1>0, <2>1, CpuUpdate DEF SizeInv
  <2>3. QED
    BY <2>1, <2>2 DEF OneCpu, LoadFits
<1>2. now' = now
  BY DEF GlobalStore
<1>3. CASE cpu[c].bucket.tokens = 0
  <2>1. UNCHANGED <<global, admitted>>
    BY <1>3 DEF GlobalStore
  <2>2. now' >= now
    BY <1>0, <1>2, BudgetTypes
  <2>3. QED
    BY <1>1, <2>1, <2>2, BudgetUntouched
<1>4. CASE cpu[c].bucket.tokens # 0
  <2>1. PICK t \in Nat : t = cpu[c].at
    BY <1>0, CpuFields DEF SizeInv
  <2>2. global.last <= t /\ 1 <= t /\ t <= now
    BY <1>0, <2>1 DEF LoadFits
  <2>3. admitted' = Append(admitted, t)
    BY <1>0, <1>4, <2>1, StoreWrites
  <2>4. \/ /\ global'.last = t /\ global'.tokens = GlobalLimit - 1
           /\ global.last = 0 \/ global.last + Window <= t
        \/ /\ global'.last = global.last /\ global'.tokens = global.tokens - 1
           /\ t < global.last + Window /\ global.last # 0
    <3>1. CASE cpu[c].refill
      BY <1>0, <1>4, <2>1, <3>1, StoreWrites DEF LoadFits
    <3>2. CASE ~cpu[c].refill
      BY <1>0, <1>4, <2>1, <3>2, StoreWrites DEF LoadFits
    <3>3. QED
      BY <3>1, <3>2
  <2>5. PICK r \in 0..Len(admitted), s \in 0..Len(admitted) : WindowsAt(r, s)
    BY DEF BudgetInv
  <2>6. /\ \E q, p \in 0..Len(admitted) : WindowsAt(q, p)'
        /\ \A i \in 1..Len(admitted') : admitted'[i] < global'.last + Window
        /\ global'.last # 0
    BY <1>0, <2>2, <2>3, <2>4, <2>5, WindowsGrow
  <2>7. PICK q \in 0..Len(admitted), p \in 0..Len(admitted) : WindowsAt(q, p)'
    BY <2>6
  <2>8. TwoBudgetsPerSpan'
    BY <1>0, <2>3, <2>7, SpanHolds
  <2>9. global'.last <= now /\ now >= 1
    BY <1>0, <2>2, <2>4 DEF ClockFits
  <2>10. ClockFits'
    BY <1>2, <2>6, <2>9 DEF ClockFits
  <2>11. q \in 0..Len(admitted') /\ p \in 0..Len(admitted')
    <3>1. Len(admitted') = Len(admitted) + 1 /\ Len(admitted) \in Nat
      BY <1>0, <2>3, BudgetTypes
    <3>2. QED
      BY <3>1
  <2>12. (\E v, w \in 0..Len(admitted) : WindowsAt(v, w))'
    BY <2>7, <2>11
  <2>13. QED
    BY <1>1, <2>8, <2>10, <2>12 DEF BudgetInv
<1>5. QED
  BY <1>3, <1>4

LEMMA LoadKeepsBudget ==
    ASSUME BudgetInv, SizeInv', OneCpu, NEW c \in Cpus, GlobalLoad(c)
    PROVE  BudgetInv'
<1>0. SizeInv /\ ClockFits
  BY DEF BudgetInv
<1>1. UNCHANGED <<now, global, admitted>>
  BY DEF GlobalLoad
<1>2. PICK x \in CpuState :
             /\ cpu' = [cpu EXCEPT ![c] = x]
             /\ x.pc = "store" /\ x.ip = cpu[c].ip /\ x.at = now
             /\ x.refill <=> Stale(global)
             /\ x.bucket = Refilled(global, GlobalLimit)
  BY <1>0, LoadEffect
<1>3. /\ now \in Nat /\ global.last \in Nat /\ Window \in Nat
      /\ global.last <= now /\ 1 <= now
  BY <1>0, BudgetTypes DEF ClockFits
<1>4. LoadFits(x)
  <2>1. CASE Stale(global)
    <3>1. x.refill
      BY <1>2, <2>1, Zenon
    <3>2. x.bucket.tokens = GlobalLimit /\ x.bucket.last = now
      BY <1>2, <2>1 DEF Refilled
    <3>3. global.last = 0 \/ global.last + Window <= now
      BY <1>3, <2>1 DEF Stale
    <3>4. QED
      BY <1>2, <1>3, <3>1, <3>2, <3>3 DEF LoadFits
  <2>2. CASE ~Stale(global)
    <3>1. ~x.refill
      BY <1>2, <2>2, Zenon
    <3>2. x.bucket.tokens = global.tokens
      BY <1>2, <2>2 DEF Refilled
    <3>3. global.last # 0 /\ now < global.last + Window
      BY <1>3, <2>2 DEF Stale
    <3>4. QED
      BY <1>2, <1>3, <3>1, <3>2, <3>3 DEF LoadFits
  <2>3. QED
    BY <2>1, <2>2
<1>5. cpu'[c] = x
  BY <1>0, <1>2, CpuUpdate DEF SizeInv
<1>6. LoadFits(cpu[c])'
  BY <1>1, <1>4, <1>5 DEF LoadFits
<1>7. now' >= now
  BY <1>1, <1>3
<1>8. QED
  BY <1>1, <1>6, <1>7, BudgetUntouched DEF OneCpu

LEMMA BudgetInit == Init => BudgetInv
<1> SUFFICES ASSUME Init PROVE BudgetInv
  OBVIOUS
<1>1. SizeInv
  BY SizeInit
<1>2. /\ now = 1 /\ admitted = <<>> /\ Len(admitted) = 0
      /\ global.last = 0 /\ global.tokens = 0
  BY DEF Init
<1>3. ClockFits /\ TwoBudgetsPerSpan
  BY <1>2 DEF ClockFits, TwoBudgetsPerSpan
<1>4. \A c \in Cpus : LoadFits(cpu[c])
  BY IdleCpuType DEF Init, LoadFits
<1>5. WindowsAt(0, 0)
  BY <1>2, LimitsAssumption DEF WindowsAt
<1>6. QED
  BY <1>1, <1>2, <1>3, <1>4, <1>5 DEF BudgetInv

LEMMA BudgetStep ==
    ASSUME OneCpu, BudgetInv, [Next]_vars
    PROVE  BudgetInv'
<1>0. SizeInv /\ TypeOK /\ SizeInv' /\ now \in Nat
  BY SizeStep DEF BudgetInv, SizeInv, TypeOK
<1>1. ASSUME NEW c \in Cpus, NEW x \in CpuState, cpu' = [cpu EXCEPT ![c] = x],
             x.pc # "store", UNCHANGED <<now, global, admitted>>
      PROVE  BudgetInv'
  <2>1. cpu'[c] = x
    BY <1>0, <1>1, CpuUpdate
  <2>2. \A d \in Cpus : LoadFits(cpu[d])'
    BY <1>1, <2>1 DEF OneCpu, LoadFits
  <2>3. now' >= now
    BY <1>0, <1>1
  <2>4. QED
    BY <1>0, <1>1, <2>2, <2>3, BudgetUntouched
<1>2. ASSUME UNCHANGED <<global, admitted, cpu>>, now' \in Nat, now' >= now
      PROVE  BudgetInv'
  <2>1. \A d \in Cpus : LoadFits(cpu[d])'
    <3>1. SUFFICES ASSUME NEW d \in Cpus PROVE LoadFits(cpu[d])'
      OBVIOUS
    <3>2. LoadFits(cpu[d]) /\ cpu[d].at \in Nat
      BY <1>0, CpuFields DEF BudgetInv
    <3>3. cpu[d].at <= now => cpu[d].at <= now'
      BY <1>0, <1>2, <3>2
    <3>4. QED
      BY <1>2, <3>2, <3>3 DEF LoadFits
  <2>2. QED
    BY <1>0, <1>2, <2>1, BudgetUntouched
<1>3. ASSUME NEW c \in Cpus, NEW ip \in Ips, Receive(c, ip) PROVE BudgetInv'
  <2>1. PICK x \in CpuState : cpu' = [cpu EXCEPT ![c] = x] /\ x.pc = "source"
    BY <1>0, <1>3, ReceiveEffect
  <2>2. QED
    BY <1>1, <1>3, <2>1 DEF Receive
<1>4. ASSUME NEW c \in Cpus, SourceBucket(c) PROVE BudgetInv'
  <2>1. CASE cpu[c].bucket.tokens = 0
    BY <1>1, <1>4, <2>1, IdleCpuType DEF SourceBucket
  <2>2. CASE cpu[c].bucket.tokens # 0
    <3>1. PICK x \in CpuState : cpu' = [cpu EXCEPT ![c] = x] /\ x.pc = "global"
      BY <1>0, <1>4, <2>2, GotoEffect DEF SourceBucket
    <3>2. QED
      BY <1>1, <1>4, <3>1 DEF SourceBucket
  <2>3. QED
    BY <2>1, <2>2
<1>5. ASSUME NEW c \in Cpus, Emit(c) PROVE BudgetInv'
  BY <1>1, <1>5, IdleCpuType DEF Emit
<1>6. CASE Drain
  BY <1>0, <1>2, <1>6 DEF Drain
<1>7. CASE Tick
  BY <1>0, <1>2, <1>7 DEF Tick
<1>8. CASE UNCHANGED vars
  BY <1>0, <1>2, <1>8 DEF vars
<1>9. QED
  BY <1>0, <1>3, <1>4, <1>5, <1>6, <1>7, <1>8, LoadKeepsBudget, StoreKeepsBudget
     DEF Next, HandleUdp

LEMMA BudgetCounts == ASSUME BudgetInv PROVE OneBudgetPerWindow
<1>1. PICK r \in 0..Len(admitted), s \in 0..Len(admitted) : WindowsAt(r, s)
  BY DEF BudgetInv
<1>2. PICK n \in Nat : n = Len(admitted)
  BY BudgetTypes DEF BudgetInv
<1> DEFINE S == { i \in 1..Len(admitted) : admitted[i] >= global.last }
<1>3. S = (s + 1)..n
  <2>1. s \in Nat /\ s <= n /\ global.last \in Nat /\ \A i \in 1..n : admitted[i] \in Nat
    BY <1>2, BudgetTypes DEF BudgetInv
  <2>2. /\ \A i \in 1..s : admitted[i] < global.last
        /\ \A i \in (s + 1)..n : admitted[i] >= global.last
    BY <1>1, <1>2 DEF WindowsAt
  <2>3. \A i \in 1..n : i \in 1..s \/ i \in (s + 1)..n
    BY <2>1
  <2>4. \A i \in 1..s : ~(admitted[i] >= global.last)
    BY <2>1, <2>2
  <2>5. (s + 1)..n \subseteq 1..n
    BY <2>1
  <2>6. QED
    BY <1>2, <2>2, <2>3, <2>4, <2>5
<1>4. (n - s) + global.tokens <= GlobalLimit /\ global.tokens \in Nat /\ GlobalLimit \in Nat
  BY <1>1, <1>2, BudgetTypes DEF WindowsAt, BudgetInv
<1>5. s \in Nat /\ s <= n
  BY <1>2
<1>6. Cardinality((s + 1)..n) <= GlobalLimit
  <2>1. Cardinality((s + 1)..n) = IF s + 1 > n THEN 0 ELSE n - (s + 1) + 1
    BY <1>5, FS_Interval
  <2>2. QED
    BY <1>4, <1>5, <2>1
<1>7. QED
  BY <1>3, <1>6 DEF OneBudgetPerWindow

(* global_rate_limit_allows on one CPU, for every limit, window, map and   *)
(* ring size: the knocks let through since the last refill are at most the *)
(* global limit, whatever their sources and whatever the LRU map dropped.  *)
THEOREM OneBudgetHolds ==
    ASSUME OneCpu
    PROVE  Spec => []OneBudgetPerWindow
<1>1. Init => BudgetInv
  BY BudgetInit
<1>2. BudgetInv /\ [Next]_vars => BudgetInv'
  BY BudgetStep
<1>3. BudgetInv => OneBudgetPerWindow
  BY BudgetCounts
<1>4. QED
  BY <1>1, <1>2, <1>3, PTL DEF Spec

(* global_rate_limit_allows on one CPU: no span shorter than the refill    *)
(* time, wherever it begins, lets more than two budgets of knocks through. *)
THEOREM TwoBudgetsHold ==
    ASSUME OneCpu
    PROVE  Spec => []TwoBudgetsPerSpan
<1>1. Init => BudgetInv
  BY BudgetInit
<1>2. BudgetInv /\ [Next]_vars => BudgetInv'
  BY BudgetStep
<1>3. BudgetInv => TwoBudgetsPerSpan
  BY DEF BudgetInv
<1>4. QED
  BY <1>1, <1>2, <1>3, PTL DEF Spec
==============================================================================
