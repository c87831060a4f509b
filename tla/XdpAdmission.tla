---------------------------- MODULE XdpAdmission ----------------------------
(***************************************************************************)
(* Admission of UDP knocks in the XDP program (handle_udp in               *)
(* src/ghostbro-ebpf/src/main.rs): a token bucket per source address, a    *)
(* global token bucket, and the ring buffer run_spa drains.  The program   *)
(* runs on every CPU at once.  The per-source bucket is copied out of an   *)
(* LRU map and inserted again; the global one is updated through a pointer *)
(* into the map without an atomic operation, so the loads and stores of    *)
(* two CPUs may interleave.                                                *)
(*                                                                         *)
(* Only datagrams to the SPA port with the length of a sealed knock are    *)
(* modelled; all others leave the state alone.  Source addresses are the   *)
(* sender's choice.  bpf_ktime_get_ns is monotonic and never 0.            *)
(***************************************************************************)
EXTENDS Naturals, Sequences, FiniteSets

CONSTANTS
    Cpus,           \* CPUs that receive packets
    Ips,            \* source addresses
    Limit,          \* rate_limit_per_minute, already defaulted
    GlobalLimit,    \* min(Limit * 256, 1 000 000)
    Window,         \* RATE_REFILL_NS
    MapSize,        \* entries of the LRU map RATE_LIMIT
    RingSize,       \* events SPA_RING holds
    MaxTime,        \* bound on the clock
    MaxAdmitted,    \* bound on the length of the history
    None            \* model value: no entry, no packet

Bucket == [tokens: Nat, last: Nat]

ASSUME LimitsAssumption ==
    /\ Limit \in Nat \ {0} /\ GlobalLimit \in Nat \ {0}
    /\ Window \in Nat \ {0} /\ MapSize \in Nat \ {0}
    /\ RingSize \in Nat /\ MaxTime \in Nat /\ MaxAdmitted \in Nat
ASSUME NoneAssumption == None \notin Bucket /\ None \notin Ips

VARIABLES
    now,            \* bpf_ktime_get_ns
    rate,           \* RATE_LIMIT: bucket of each source, None without an entry
    global,         \* GLOBAL_RATE
    cpu,            \* per CPU: where handle_udp is and its local variables
    ring,           \* SPA_RING, oldest first
    admitted        \* times at which the global bucket let a knock pass (history)

vars == <<now, rate, global, cpu, ring, admitted>>

IdleCpu == [pc |-> "idle", ip |-> None, at |-> 0, refill |-> FALSE,
            bucket |-> [tokens |-> 0, last |-> 0]]

At(c, p) == cpu[c].pc = p

Goto(c, p) == cpu' = [cpu EXCEPT ![c].pc = p]

(* A bucket is full again a whole window after its last refill; a bucket   *)
(* whose last is 0 was never used (the global one starts zeroed).          *)
MutStale(b) == b.tokens = 0 \/ now - b.last >= Window    \* mutant: empty means unused

Stale(b) == b.last = 0 \/ now - b.last >= Window

Refilled(b, limit) == IF Stale(b) THEN [tokens |-> limit, last |-> now] ELSE b

Spent(b) == [b EXCEPT !.tokens = @ - 1]

(***************************************************************************)
(* rate_limit_allows: copy the bucket, refill it, spend a token and insert *)
(* it; the insert may evict another source's bucket.                       *)
(***************************************************************************)
Receive(c, ip) ==
    /\ At(c, "idle")
    /\ cpu' = [cpu EXCEPT ![c] =
           [IdleCpu EXCEPT !.pc = "source", !.ip = ip,
              !.bucket = IF rate[ip] = None THEN [tokens |-> Limit, last |-> now]
                         ELSE Refilled(rate[ip], Limit)]]
    /\ UNCHANGED <<now, rate, global, ring, admitted>>

\* A full LRU map gives up one entry for a new source.
Victims(ip) ==
    LET used == { i \in Ips : rate[i] # None } IN
    IF rate[ip] # None \/ Cardinality(used) < MapSize THEN {{}} ELSE { {v} : v \in used }

InsertBucket(ip, b) ==
    \E out \in Victims(ip) :
        rate' = [i \in Ips |-> IF i = ip THEN b ELSE IF i \in out THEN None ELSE rate[i]]

SourceBucket(c) ==
    LET b == cpu[c].bucket IN
    /\ At(c, "source")
    /\ IF b.tokens = 0
       THEN InsertBucket(cpu[c].ip, b) /\ cpu' = [cpu EXCEPT ![c] = IdleCpu]
       ELSE InsertBucket(cpu[c].ip, Spent(b)) /\ Goto(c, "global")
    /\ UNCHANGED <<now, global, ring, admitted>>

(***************************************************************************)
(* global_rate_limit_allows: load the bucket, then store what it becomes.  *)
(* Only a refill writes the bucket's last.                                 *)
(***************************************************************************)
GlobalLoad(c) ==
    /\ At(c, "global")
    /\ cpu' = [cpu EXCEPT ![c].pc = "store", ![c].at = now,
                          ![c].refill = Stale(global),
                          ![c].bucket = Refilled(global, GlobalLimit)]
    /\ UNCHANGED <<now, rate, global, ring, admitted>>

Stored(c, b) ==
    [tokens |-> b.tokens, last |-> IF cpu[c].refill THEN b.last ELSE global.last]

MutGlobalStore(c) ==        \* mutant: a refill keeps the token it should spend
    LET b == cpu[c].bucket IN
    /\ At(c, "store")
    /\ IF b.tokens = 0
       THEN cpu' = [cpu EXCEPT ![c] = IdleCpu] /\ UNCHANGED <<global, admitted>>
       ELSE /\ Len(admitted) < MaxAdmitted
            /\ global' = Stored(c, IF cpu[c].refill THEN b ELSE Spent(b))
            /\ admitted' = Append(admitted, cpu[c].at)
            /\ Goto(c, "emit")
    /\ UNCHANGED <<now, rate, ring>>

GlobalStore(c) ==
    LET b == cpu[c].bucket IN
    /\ At(c, "store")
    /\ IF b.tokens = 0
       THEN cpu' = [cpu EXCEPT ![c] = IdleCpu] /\ UNCHANGED <<global, admitted>>
       ELSE /\ Len(admitted) < MaxAdmitted
            /\ global' = Stored(c, Spent(b))
            /\ admitted' = Append(admitted, cpu[c].at)
            /\ Goto(c, "emit")
    /\ UNCHANGED <<now, rate, ring>>

MutEmit(c) ==               \* mutant: a reservation never fails
    /\ At(c, "emit")
    /\ ring' = Append(ring, cpu[c].ip)
    /\ cpu' = [cpu EXCEPT ![c] = IdleCpu]
    /\ UNCHANGED <<now, rate, global, admitted>>

(* emit_spa_event: a full ring, or a payload that cannot be loaded into    *)
(* the reserved slot, drops the knock, whose tokens stay spent.            *)
Emit(c) ==
    /\ At(c, "emit")
    /\ \E loaded \in BOOLEAN :
           ring' = IF Len(ring) < RingSize /\ loaded THEN Append(ring, cpu[c].ip) ELSE ring
    /\ cpu' = [cpu EXCEPT ![c] = IdleCpu]
    /\ UNCHANGED <<now, rate, global, admitted>>

(* run_spa takes the oldest event.                                         *)
Drain ==
    /\ ring # <<>>
    /\ ring' = Tail(ring)
    /\ UNCHANGED <<now, rate, global, cpu, admitted>>

Tick ==
    /\ now < MaxTime
    /\ now' = now + 1
    /\ UNCHANGED <<rate, global, cpu, ring, admitted>>

Init ==
    /\ now = 1
    /\ rate = [ip \in Ips |-> None]
    /\ global = [tokens |-> 0, last |-> 0]
    /\ cpu = [c \in Cpus |-> IdleCpu]
    /\ ring = <<>>
    /\ admitted = <<>>

HandleUdp(c) ==
    \/ \E ip \in Ips : Receive(c, ip)
    \/ SourceBucket(c)
    \/ GlobalLoad(c)
    \/ GlobalStore(c)
    \/ Emit(c)

Next == (\E c \in Cpus : HandleUdp(c)) \/ Drain \/ Tick

Spec == Init /\ [][Next]_vars

(***************************************************************************)
(* Properties.                                                             *)
(***************************************************************************)

(* Types; buckets hold at most their limit, the LRU map and the ring stay  *)
(* within their sizes (main.rs, the maps and handle_udp).                  *)
TypeOK ==
    /\ now \in Nat
    /\ rate \in [Ips -> [tokens: 0..Limit, last: Nat] \cup {None}]
    /\ Cardinality({ ip \in Ips : rate[ip] # None }) <= MapSize
    /\ global \in [tokens: 0..GlobalLimit, last: Nat]
    /\ cpu \in [Cpus -> [pc: {"idle", "source", "global", "store", "emit"},
                        ip: Ips \cup {None}, at: Nat, refill: BOOLEAN, bucket: Bucket]]
    /\ ring \in Seq(Ips) /\ Len(ring) <= RingSize
    /\ admitted \in Seq(Nat)

(* global_rate_limit_allows: since its last refill the global bucket has   *)
(* let no more knocks pass than its limit, whatever addresses they came    *)
(* from and whatever buckets the LRU map dropped.                          *)
OneBudgetPerWindow ==
    Cardinality({ i \in 1..Len(admitted) : admitted[i] >= global.last }) <= GlobalLimit

(* The same for any span shorter than the refill time, wherever it begins: *)
(* it meets at most two windows, so two budgets pass at most.              *)
TwoBudgetsPerSpan ==
    \A i, j \in 1..Len(admitted) :
        i <= j /\ admitted[j] - admitted[i] < Window => j - i + 1 <= 2 * GlobalLimit
==============================================================================
