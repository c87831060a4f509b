--------------------------- MODULE RelayEngineProofs ---------------------------
(***************************************************************************)
(* Proofs about RelayEngine for every set of jobs, clients and workers,    *)
(* every quota and any number of crashes: types, the job quota, that no    *)
(* accepted job is forgotten, and, for jobs that no two workers hold at    *)
(* once, that "complete" is final and announces a result that is there;    *)
(* with one worker, the storage quota.                                     *)
(***************************************************************************)
EXTENDS RelayEngine, FiniteSetTheorems, TLAPS

WorkerState == [pc: WorkerPcs, job: Jobs \cup {None}, m: Metadata, size: Nat]

(* Metadata exists only for ids that were given out.                       *)
MetaIsSubmitted == \A j \in Jobs : Present(j) => j \in submitted

(* A worker holds a job exactly between Take and the end of process_job.   *)
IdleHoldsNothing == \A w \in Workers : worker[w].pc = "idle" <=> worker[w].job = None

SpoolInv ==
    /\ TypeOK
    /\ MetaIsSubmitted
    /\ IdleHoldsNothing

------------------------------------------------------------------------------
(* The actions, by what they do to the worker that takes them.             *)

LEMMA NewMetaType == NewMeta \in Metadata
BY DEF NewMeta, Metadata, Status

LEMMA IdleType == Idle \in WorkerState /\ Idle.pc = "idle" /\ Idle.job = None
BY NewMetaType DEF Idle, WorkerState, WorkerPcs

LEMMA HoldingType ==
    ASSUME NEW j \in Jobs, NEW p \in WorkerPcs, NEW m \in Metadata
    PROVE  /\ Holding(j, p, m) \in WorkerState
           /\ Holding(j, p, m).pc = p
           /\ Holding(j, p, m).job = j
           /\ Holding(j, p, m).m = m
BY DEF Holding, WorkerState

(* Replacing the state of one worker leaves the others alone.              *)
LEMMA WorkerUpdate ==
    ASSUME TypeOK, NEW w \in Workers, NEW x \in WorkerState,
           worker' = [worker EXCEPT ![w] = x]
    PROVE  /\ worker' \in [Workers -> WorkerState]
           /\ worker'[w] = x
           /\ \A v \in Workers \ {w} : worker'[v] = worker[v]
BY DEF TypeOK, WorkerState

(* The fields of a worker, and those of the metadata it holds.             *)
LEMMA WorkerFields ==
    ASSUME TypeOK, NEW w \in Workers
    PROVE  /\ worker[w] \in WorkerState
           /\ worker[w].pc \in WorkerPcs
           /\ worker[w].job \in Jobs \cup {None}
           /\ worker[w].m \in Metadata
           /\ worker[w].size \in Nat
           /\ worker[w].pc # "idle" => worker[w].job \in submitted /\ worker[w].job \in Jobs
BY DEF TypeOK, WorkerState

LEMMA MetaFields ==
    ASSUME NEW m \in Metadata
    PROVE  /\ m.status \in Status
           /\ m.body_len \in Nat
           /\ m.normalized_len \in Nat \cup {None}
           /\ m # None
           /\ \A s \in Status : /\ [m EXCEPT !.status = s] \in Metadata
                                /\ [m EXCEPT !.status = s].status = s
                                /\ [m EXCEPT !.status = s].body_len = m.body_len
                                /\ [m EXCEPT !.status = s].normalized_len = m.normalized_len
BY NoneAssumption DEF Metadata

(* Writing the metadata of the job in hand.                                *)
LEMMA WriteStatusEffect ==
    ASSUME TypeOK, NEW w \in Workers, worker[w].pc # "idle", NEW s \in Status,
           WriteStatus(w, s)
    PROVE  /\ meta' \in [Jobs -> Metadata \cup {None}]
           /\ meta'[worker[w].job] # None
           /\ meta'[worker[w].job].status = s
           /\ meta'[worker[w].job].body_len = worker[w].m.body_len
           /\ meta'[worker[w].job].normalized_len = worker[w].m.normalized_len
           /\ \A j \in Jobs : j # worker[w].job => meta'[j] = meta[j]
<1> DEFINE x == [worker[w].m EXCEPT !.status = s]
<1>1. worker[w].job \in Jobs /\ worker[w].m \in Metadata
  BY WorkerFields
<1>2. /\ x \in Metadata /\ x # None /\ x.status = s
      /\ x.body_len = worker[w].m.body_len
      /\ x.normalized_len = worker[w].m.normalized_len
  BY <1>1, MetaFields
<1>3. meta' = [meta EXCEPT ![worker[w].job] = x]
  BY DEF WriteStatus
<1>4. meta \in [Jobs -> Metadata \cup {None}]
  BY DEF TypeOK
<1> HIDE DEF x
<1>5. QED
  BY <1>1, <1>2, <1>3, <1>4

(* What one step of process_job does to the worker: its state becomes x.   *)
LEMMA FailingEffect ==
    ASSUME TypeOK, NEW w \in Workers, worker[w].pc # "idle", Failing(w)
    PROVE  \E x \in WorkerState :
             /\ worker' = [worker EXCEPT ![w] = x]
             /\ \/ /\ Present(worker[w].job)
                   /\ x.pc = "failing" /\ x.job = worker[w].job
                   /\ x.m = meta[worker[w].job]
                \/ /\ ~Present(worker[w].job)
                   /\ x.pc = "idle" /\ x.job = None
<1> DEFINE x == IF Present(worker[w].job)
                THEN Holding(worker[w].job, "failing", meta[worker[w].job]) ELSE Idle
<1>1. worker[w].job \in Jobs
  BY WorkerFields
<1>2. worker' = [worker EXCEPT ![w] = x]
  BY DEF Failing, TypeOK
<1>3. "failing" \in WorkerPcs
  BY DEF WorkerPcs
<1>4. CASE Present(worker[w].job)
  <2>1. meta[worker[w].job] \in Metadata
    BY <1>1, <1>4 DEF Present, TypeOK
  <2>2. x = Holding(worker[w].job, "failing", meta[worker[w].job])
    BY <1>4
  <2>3. /\ x \in WorkerState /\ x.pc = "failing" /\ x.job = worker[w].job
        /\ x.m = meta[worker[w].job]
    BY <1>1, <1>3, <2>1, <2>2, HoldingType
  <2> HIDE DEF x
  <2>4. QED
    BY <1>2, <1>4, <2>3
<1>5. CASE ~Present(worker[w].job)
  <2>1. x = Idle
    BY <1>5
  <2> HIDE DEF x
  <2>2. QED
    BY <1>2, <1>5, <2>1, IdleType
<1>6. QED
  BY <1>4, <1>5

LEMMA TakeEffect ==
    ASSUME TypeOK, NEW w \in Workers, Take(w)
    PROVE  /\ queue # <<>> /\ Head(queue) \in Jobs /\ queue' = Tail(queue)
           /\ worker[w].pc = "idle"
           /\ \E x \in WorkerState :
                /\ worker' = [worker EXCEPT ![w] = x]
                /\ \/ /\ Present(Head(queue)) /\ meta[Head(queue)].status # "complete"
                      /\ x.pc = "marking" /\ x.job = Head(queue)
                      /\ x.m = meta[Head(queue)]
                   \/ /\ ~(Present(Head(queue)) /\ meta[Head(queue)].status # "complete")
                      /\ x = worker[w]
<1> DEFINE j == Head(queue)
           go == Present(j) /\ meta[j].status # "complete"
           x == IF go THEN Holding(j, "marking", meta[j]) ELSE worker[w]
<1>1. queue # <<>> /\ queue' = Tail(queue) /\ worker[w].pc = "idle"
  BY DEF Take
<1>2. j \in Jobs
  BY <1>1 DEF TypeOK
<1>3. worker' = [worker EXCEPT ![w] = x]
  BY DEF Take, TypeOK
<1>4. "marking" \in WorkerPcs
  BY DEF WorkerPcs
<1>5. CASE go
  <2>1. meta[j] \in Metadata
    BY <1>2, <1>5 DEF Present, TypeOK
  <2>2. x = Holding(j, "marking", meta[j])
    BY <1>5
  <2>3. /\ x \in WorkerState /\ x.pc = "marking" /\ x.job = j /\ x.m = meta[j]
    BY <1>2, <1>4, <2>1, <2>2, HoldingType
  <2> HIDE DEF x
  <2>4. QED
    BY <1>1, <1>2, <1>3, <1>5, <2>3
<1>6. CASE ~go
  <2>1. x = worker[w]
    BY <1>6
  <2>2. worker[w] \in WorkerState
    BY WorkerFields
  <2> HIDE DEF x
  <2>3. QED
    BY <1>1, <1>2, <1>3, <1>6, <2>1, <2>2
<1>7. QED
  BY <1>5, <1>6

LEMMA MarkRunningEffect ==
    ASSUME TypeOK, NEW w \in Workers, MarkRunning(w)
    PROVE  /\ worker[w].pc = "marking" /\ WriteStatus(w, "running")
           /\ \E x \in WorkerState :
                /\ worker' = [worker EXCEPT ![w] = x]
                /\ x.pc = "fetching" /\ x.job = worker[w].job
                /\ x.m.body_len = worker[w].m.body_len
                /\ x.m.normalized_len = worker[w].m.normalized_len
<1> DEFINE x == [worker[w] EXCEPT !.pc = "fetching", !.m.status = "running"]
<1>1. worker[w].pc = "marking" /\ WriteStatus(w, "running")
  BY DEF MarkRunning
<1>2. worker' = [worker EXCEPT ![w] = x]
  BY DEF MarkRunning, TypeOK
<1>3. /\ x \in WorkerState /\ x.pc = "fetching" /\ x.job = worker[w].job
      /\ x.m.body_len = worker[w].m.body_len
      /\ x.m.normalized_len = worker[w].m.normalized_len
  BY WorkerFields DEF WorkerState, WorkerPcs, Metadata, Status
<1> HIDE DEF x
<1>4. QED
  BY <1>1, <1>2, <1>3

LEMMA FetchEffect ==
    ASSUME TypeOK, NEW w \in Workers, NEW n \in Sizes, Fetch(w, n)
    PROVE  /\ worker[w].pc = "fetching"
           /\ \E x \in WorkerState :
                /\ worker' = [worker EXCEPT ![w] = x]
                /\ x.pc = "storing" /\ x.job = worker[w].job /\ x.m = worker[w].m
<1> DEFINE x == [worker[w] EXCEPT !.pc = "storing", !.size = n]
<1>1. worker[w].pc = "fetching"
  BY DEF Fetch
<1>2. worker' = [worker EXCEPT ![w] = x]
  BY DEF Fetch, TypeOK
<1>3. x \in WorkerState /\ x.pc = "storing" /\ x.job = worker[w].job /\ x.m = worker[w].m
  BY WorkerFields, SizesAssumption DEF WorkerState, WorkerPcs
<1> HIDE DEF x
<1>4. QED
  BY <1>1, <1>2, <1>3

(* Store writes the object, or fails like any other error.                 *)
LEMMA StoreEffect ==
    ASSUME TypeOK, NEW w \in Workers, Store(w)
    PROVE  /\ worker[w].pc = "storing"
           /\ \/ Failing(w) /\ obj' = obj
              \/ /\ obj' = [obj EXCEPT ![worker[w].job] = worker[w].size]
                 /\ \E x \in WorkerState :
                      /\ worker' = [worker EXCEPT ![w] = x]
                      /\ x.pc = "normalizing" /\ x.job = worker[w].job
                      /\ x.m.body_len = worker[w].size
                      /\ x.m.normalized_len = worker[w].m.normalized_len
<1> DEFINE n == worker[w].size
           x == [worker[w] EXCEPT !.pc = "normalizing", !.m.body_len = n]
<1>1. worker[w].pc = "storing"
  BY DEF Store
<1>2. \/ Failing(w) /\ obj' = obj
      \/ /\ obj' = [obj EXCEPT ![worker[w].job] = n]
         /\ worker' = [worker EXCEPT ![w] = x]
  BY DEF Store, TypeOK
<1>3. /\ x \in WorkerState /\ x.pc = "normalizing" /\ x.job = worker[w].job
      /\ x.m.body_len = n
      /\ x.m.normalized_len = worker[w].m.normalized_len
  BY WorkerFields DEF WorkerState, WorkerPcs, Metadata
<1> HIDE DEF x
<1>4. QED
  BY <1>1, <1>2, <1>3

LEMMA NormalizeEffect ==
    ASSUME TypeOK, NEW w \in Workers, NEW n \in NormSizes, Normalize(w, n)
    PROVE  /\ worker[w].pc = "normalizing" /\ n \in Nat
           /\ norm' = [norm EXCEPT ![worker[w].job] = n]
           /\ \E x \in WorkerState :
                /\ worker' = [worker EXCEPT ![w] = x]
                /\ x.pc = "finishing" /\ x.job = worker[w].job
                /\ x.m.body_len = worker[w].m.body_len
                /\ x.m.normalized_len = n
<1> DEFINE x == [worker[w] EXCEPT !.pc = "finishing", !.m.normalized_len = n]
<1>1. /\ worker[w].pc = "normalizing" /\ n \in Nat
      /\ norm' = [norm EXCEPT ![worker[w].job] = n]
  BY SizesAssumption DEF Normalize
<1>2. worker' = [worker EXCEPT ![w] = x]
  BY DEF Normalize, TypeOK
<1>3. /\ x \in WorkerState /\ x.pc = "finishing" /\ x.job = worker[w].job
      /\ x.m.body_len = worker[w].m.body_len
      /\ x.m.normalized_len = n
  BY <1>1, WorkerFields DEF WorkerState, WorkerPcs, Metadata
<1> HIDE DEF x
<1>4. QED
  BY <1>1, <1>2, <1>3

------------------------------------------------------------------------------
(* Type correctness.                                                       *)

LEMMA SpoolInit == Init => SpoolInv
<1> SUFFICES ASSUME Init PROVE SpoolInv
  OBVIOUS
<1>1. worker \in [Workers -> WorkerState]
  BY IdleType DEF Init
<1>2. \A w \in Workers : worker[w].pc = "idle" /\ worker[w].job = None
  BY IdleType DEF Init
<1>3. TypeOK
  BY <1>1, <1>2, MaxCrashesAssumption DEF Init, TypeOK, WorkerState
<1>4. QED
  BY <1>2, <1>3 DEF Init, SpoolInv, MetaIsSubmitted, IdleHoldsNothing, Present

(* What the invariant says of the workers after one of them moved.         *)
LEMMA WorkersKept ==
    ASSUME SpoolInv, NEW w \in Workers, NEW x \in WorkerState,
           worker' = [worker EXCEPT ![w] = x], submitted' = submitted,
           x.pc = "idle" <=> x.job = None,
           x.job \in submitted \cup {None}
    PROVE  /\ worker' \in [Workers -> WorkerState]
           /\ \A v \in Workers : worker'[v].pc # "idle" => worker'[v].job \in submitted'
           /\ IdleHoldsNothing'
<1>1. /\ worker' \in [Workers -> WorkerState]
      /\ worker'[w] = x
      /\ \A v \in Workers \ {w} : worker'[v] = worker[v]
  BY WorkerUpdate DEF SpoolInv
<1>2. \A v \in Workers : worker[v].pc # "idle" => worker[v].job \in submitted
  BY DEF SpoolInv, TypeOK
<1>3. \A v \in Workers : worker[v].pc = "idle" <=> worker[v].job = None
  BY DEF SpoolInv, IdleHoldsNothing
<1>4. \A v \in Workers : worker'[v].pc # "idle" => worker'[v].job \in submitted'
  BY <1>1, <1>2
<1>5. \A v \in Workers : worker'[v].pc = "idle" <=> worker'[v].job = None
  BY <1>1, <1>3
<1>6. QED
  BY <1>1, <1>4, <1>5 DEF IdleHoldsNothing

(* The worker's steps.                                                     *)
LEMMA SpoolWork ==
    ASSUME SpoolInv, NEW w \in Workers, Work(w)
    PROVE  SpoolInv'
<1> USE DEF spoolVars, eraseVars, historyVars
<1>0. /\ TypeOK /\ MetaIsSubmitted
      /\ worker[w].pc = "idle" <=> worker[w].job = None
      /\ worker[w].job \in submitted \cup {None}
      /\ submitted \subseteq Jobs /\ None \notin Jobs
      /\ worker[w].pc # "idle" => worker[w].job \in submitted
      /\ \A j \in Jobs : Present(j) => j \in submitted
  BY NoneAssumption DEF SpoolInv, IdleHoldsNothing, TypeOK, MetaIsSubmitted
<1>1. CASE Take(w)
  <2>1. PICK x \in WorkerState :
          /\ worker' = [worker EXCEPT ![w] = x]
          /\ \/ /\ Present(Head(queue)) /\ x.pc = "marking" /\ x.job = Head(queue)
             \/ x = worker[w]
    BY <1>0, <1>1, TakeEffect
  <2>2. Head(queue) \in Jobs /\ queue # <<>> /\ queue' = Tail(queue)
    BY <1>0, <1>1, TakeEffect
  <2>3. queue' \in Seq(Jobs)
    BY <1>0, <2>2 DEF TypeOK
  <2>4. x.pc = "idle" <=> x.job = None
    BY <1>0, <2>1, <2>2
  <2>5. x.job \in submitted \cup {None}
    BY <1>0, <2>1, <2>2
  <2>6. UNCHANGED <<meta, obj, norm, scan, deleting, reaping, fate, submitted, expired, crashes>>
    BY <1>1 DEF Take
  <2>7. /\ worker' \in [Workers -> WorkerState]
        /\ \A v \in Workers : worker'[v].pc # "idle" => worker'[v].job \in submitted'
        /\ IdleHoldsNothing'
    BY <2>1, <2>4, <2>5, <2>6, WorkersKept
  <2>8. QED
    BY <1>0, <2>3, <2>6, <2>7 DEF SpoolInv, TypeOK, WorkerState, MetaIsSubmitted, Present
<1>2. ASSUME worker[w].pc # "idle", NEW s \in Status, WriteStatus(w, s),
             NEW x \in WorkerState, worker' = [worker EXCEPT ![w] = x],
             x.pc = "idle" <=> x.job = None, x.job \in {worker[w].job, None},
             UNCHANGED <<obj, norm, queue, scan, eraseVars, historyVars>>
      PROVE  SpoolInv'
  <2>1. /\ meta' \in [Jobs -> Metadata \cup {None}]
        /\ \A j \in Jobs : j # worker[w].job => meta'[j] = meta[j]
    BY <1>0, <1>2, WriteStatusEffect
  <2>2. /\ worker' \in [Workers -> WorkerState]
        /\ \A v \in Workers : worker'[v].pc # "idle" => worker'[v].job \in submitted'
        /\ IdleHoldsNothing'
    BY <1>0, <1>2, WorkersKept
  <2>3. MetaIsSubmitted'
    BY <1>0, <1>2, <2>1 DEF MetaIsSubmitted, Present
  <2>4. QED
    BY <1>0, <1>2, <2>1, <2>2, <2>3 DEF SpoolInv, TypeOK, WorkerState
<1>3. ASSUME NEW x \in WorkerState, worker' = [worker EXCEPT ![w] = x],
             x.pc = "idle" <=> x.job = None, x.job \in {worker[w].job, None},
             obj' \in [Jobs -> Nat \cup {None}], norm' \in [Jobs -> Nat \cup {None}],
             UNCHANGED <<meta, queue, scan, eraseVars, historyVars>>
      PROVE  SpoolInv'
  <2>1. /\ worker' \in [Workers -> WorkerState]
        /\ \A v \in Workers : worker'[v].pc # "idle" => worker'[v].job \in submitted'
        /\ IdleHoldsNothing'
    BY <1>0, <1>3, WorkersKept
  <2>2. QED
    BY <1>0, <1>3, <2>1 DEF SpoolInv, TypeOK, WorkerState, MetaIsSubmitted, Present
<1>4. obj \in [Jobs -> Nat \cup {None}] /\ norm \in [Jobs -> Nat \cup {None}]
  BY <1>0 DEF TypeOK
<1>5. CASE MarkRunning(w)
  <2>1. "running" \in Status
    BY DEF Status
  <2>2. QED
    BY <1>0, <1>2, <1>5, <2>1, MarkRunningEffect DEF MarkRunning
<1>6. ASSUME NEW n \in Sizes, Fetch(w, n) PROVE SpoolInv'
  BY <1>0, <1>3, <1>4, <1>6, FetchEffect DEF Fetch
<1>7. ASSUME worker[w].pc # "idle", Failing(w), UNCHANGED <<obj, norm, meta, queue, scan, eraseVars, historyVars>>
      PROVE  SpoolInv'
  BY <1>0, <1>3, <1>4, <1>7, FailingEffect
<1>8. CASE WorkFails(w)
  BY <1>7, <1>8 DEF WorkFails
<1>9. CASE Store(w)
  <2>1. CASE Failing(w) /\ obj' = obj
    BY <1>0, <1>7, <1>9, <2>1 DEF Store
  <2>2. CASE /\ obj' = [obj EXCEPT ![worker[w].job] = worker[w].size]
             /\ \E x \in WorkerState :
                  /\ worker' = [worker EXCEPT ![w] = x]
                  /\ x.pc = "normalizing" /\ x.job = worker[w].job
    <3>1. obj' \in [Jobs -> Nat \cup {None}]
      BY <1>0, <1>4, <2>2, WorkerFields
    <3>2. QED
      BY <1>0, <1>3, <1>4, <1>9, <2>2, <3>1 DEF Store
  <2>3. QED
    BY <1>0, <1>9, <2>1, <2>2, StoreEffect
<1>10. ASSUME NEW n \in NormSizes, Normalize(w, n) PROVE SpoolInv'
  <2>1. norm' \in [Jobs -> Nat \cup {None}]
    BY <1>0, <1>4, <1>10, NormalizeEffect
  <2>2. QED
    BY <1>0, <1>3, <1>4, <1>10, <2>1, NormalizeEffect, ZenonT(30) DEF Normalize
<1>11. CASE Finish(w)
  <2>1. "complete" \in Status
    BY DEF Status
  <2>2. QED
    BY <1>2, <1>11, <2>1, IdleType DEF Finish
<1>12. CASE RecordFailure(w)
  <2>1. "failed" \in Status
    BY DEF Status
  <2>2. QED
    BY <1>2, <1>12, <2>1, IdleType DEF RecordFailure
<1>13. QED
  BY <1>1, <1>5, <1>6, <1>8, <1>9, <1>10, <1>11, <1>12 DEF Work

(* The requests, the reaper, a crash and the recovery scan.                *)
LEMMA SpoolRest ==
    ASSUME SpoolInv, UNCHANGED vars \/ ReapMetadata \/ Crash
                     \/ \E j \in Jobs : Request(j) \/ Expire(j) \/ ReapObjects(j) \/ Recover(j)
    PROVE  SpoolInv'
<1> USE DEF spoolVars, eraseVars, historyVars
<1>0. /\ TypeOK /\ MetaIsSubmitted /\ IdleHoldsNothing
      /\ worker \in [Workers -> WorkerState]
  BY DEF SpoolInv, TypeOK, WorkerState
<1>1. ASSUME worker' = worker, submitted \subseteq submitted', TypeOK', MetaIsSubmitted'
      PROVE  SpoolInv'
  BY <1>0, <1>1 DEF SpoolInv, IdleHoldsNothing
<1>2. CASE UNCHANGED vars
  BY <1>0, <1>2 DEF SpoolInv, TypeOK, MetaIsSubmitted, IdleHoldsNothing, Present, vars
<1>3. CASE ReapMetadata
  <2>1. meta' \in [Jobs -> Metadata \cup {None}] /\ \A j \in Jobs : meta'[j] \in {meta[j], None}
    BY <1>0, <1>3 DEF ReapMetadata, TypeOK
  <2>2. TypeOK'
    BY <1>0, <1>3, <2>1 DEF ReapMetadata, TypeOK
  <2>3. MetaIsSubmitted'
    BY <1>0, <1>3, <2>1 DEF ReapMetadata, MetaIsSubmitted, Present
  <2>4. QED
    BY <1>1, <1>3, <2>2, <2>3 DEF ReapMetadata
<1>4. CASE Crash
  <2>1. worker' \in [Workers -> WorkerState]
    BY <1>4, IdleType DEF Crash
  <2>2. \A w \in Workers : worker'[w].pc = "idle" /\ worker'[w].job = None
    BY <1>4, IdleType DEF Crash
  <2>3. TypeOK'
    BY <1>0, <1>4, <2>1, <2>2, MaxCrashesAssumption DEF Crash, TypeOK, WorkerState
  <2>4. MetaIsSubmitted'
    BY <1>0, <1>4 DEF Crash, MetaIsSubmitted, Present
  <2>5. QED
    BY <2>2, <2>3, <2>4 DEF SpoolInv, IdleHoldsNothing
<1>5. ASSUME NEW j \in Jobs, Submit(j) PROVE SpoolInv'
  <2>1. meta' \in [Jobs -> Metadata \cup {None}]
        /\ \A k \in Jobs : k # j => meta'[k] = meta[k]
    BY <1>0, <1>5, NewMetaType DEF Submit, TypeOK
  <2>2. queue' \in Seq(Jobs)
    BY <1>0, <1>5 DEF Submit, TypeOK
  <2>3. submitted' = submitted \cup {j}
    BY <1>5 DEF Submit
  <2>4. TypeOK'
    BY <1>0, <1>5, <2>1, <2>2, <2>3 DEF Submit, TypeOK
  <2>5. MetaIsSubmitted'
    BY <1>0, <2>1, <2>3 DEF MetaIsSubmitted, Present
  <2>6. QED
    BY <1>1, <1>5, <2>3, <2>4, <2>5 DEF Submit
<1>6. ASSUME NEW j \in Jobs, RemoveObjects(j)
      PROVE  /\ obj' \in [Jobs -> Nat \cup {None}]
             /\ norm' \in [Jobs -> Nat \cup {None}]
             /\ fate' \in [Jobs -> {"kept", "erasing", "deleted"}]
  BY <1>0, <1>6 DEF RemoveObjects, TypeOK
<1>7. ASSUME NEW j \in Jobs, DeleteObjects(j) PROVE SpoolInv'
  <2>1. j \in submitted
    BY <1>0, <1>7 DEF DeleteObjects, MetaIsSubmitted
  <2>2. TypeOK'
    BY <1>0, <1>6, <1>7, <2>1 DEF DeleteObjects, TypeOK
  <2>3. QED
    BY <1>0, <1>1, <1>7, <2>2 DEF DeleteObjects, MetaIsSubmitted, Present
<1>8. ASSUME NEW j \in Jobs, DeleteMetadata(j) PROVE SpoolInv'
  <2>1. meta' \in [Jobs -> Metadata \cup {None}] /\ \A k \in Jobs : meta'[k] \in {meta[k], None}
    BY <1>0, <1>8 DEF DeleteMetadata, TypeOK
  <2>2. fate' \in [Jobs -> {"kept", "erasing", "deleted"}]
    BY <1>0, <1>8 DEF DeleteMetadata, TypeOK
  <2>3. TypeOK'
    BY <1>0, <1>8, <2>1, <2>2 DEF DeleteMetadata, TypeOK
  <2>4. MetaIsSubmitted'
    BY <1>0, <1>8, <2>1 DEF DeleteMetadata, MetaIsSubmitted, Present
  <2>5. QED
    BY <1>1, <1>8, <2>3, <2>4 DEF DeleteMetadata
<1>9. ASSUME NEW j \in Jobs, Expire(j) PROVE SpoolInv'
  <2>1. TypeOK'
    BY <1>0, <1>9 DEF Expire, TypeOK
  <2>2. QED
    BY <1>0, <1>1, <1>9, <2>1 DEF Expire, MetaIsSubmitted, Present
<1>10. ASSUME NEW j \in Jobs, ReapObjects(j) PROVE SpoolInv'
  <2>1. j \in submitted
    BY <1>0, <1>10 DEF ReapObjects, MetaIsSubmitted
  <2>2. TypeOK'
    BY <1>0, <1>6, <1>10, <2>1 DEF ReapObjects, TypeOK
  <2>3. QED
    BY <1>0, <1>1, <1>10, <2>2 DEF ReapObjects, MetaIsSubmitted, Present
<1>11. ASSUME NEW j \in Jobs, Recover(j) PROVE SpoolInv'
  <2>1. queue' \in Seq(Jobs)
    BY <1>0, <1>11 DEF Recover, TypeOK
  <2>2. TypeOK'
    BY <1>0, <1>11, <2>1 DEF Recover, TypeOK
  <2>3. QED
    BY <1>0, <1>1, <1>11, <2>2 DEF Recover, MetaIsSubmitted, Present
<1>12. QED
  BY <1>2, <1>3, <1>4, <1>5, <1>7, <1>8, <1>9, <1>10, <1>11 DEF Request

LEMMA SpoolStep == SpoolInv /\ [Next]_vars => SpoolInv'
BY SpoolWork, SpoolRest DEF Next

(* relay.rs: the spool, the channel and the workers' locals have the types *)
(* the code relies on; a worker past Take always holds a job that was      *)
(* submitted.                                                              *)
THEOREM TypeCorrect == Spec => []TypeOK
<1>1. SpoolInv => TypeOK
  BY DEF SpoolInv
<1>2. QED
  BY <1>1, SpoolInit, SpoolStep, PTL DEF Spec

LEMMA SpoolInvariant == Spec => []SpoolInv
BY SpoolInit, SpoolStep, PTL DEF Spec

------------------------------------------------------------------------------
(* No accepted job is forgotten.                                           *)

InChannel(q, j) == \E i \in 1..Len(q) : q[i] = j

(* A job sent to the channel is in it, with all that was there before.     *)
LEMMA SendKeeps ==
    ASSUME NEW q \in Seq(Jobs), NEW j \in Jobs
    PROVE  /\ InChannel(Append(q, j), j)
           /\ \A k \in Jobs : InChannel(q, k) => InChannel(Append(q, j), k)
<1>1. /\ Len(Append(q, j)) = Len(q) + 1
      /\ Append(q, j)[Len(q) + 1] = j
      /\ \A i \in 1..Len(q) : Append(q, j)[i] = q[i]
      /\ Len(q) \in Nat
  OBVIOUS
<1>2. QED
  BY <1>1 DEF InChannel

(* Receiving takes the first job out and no other.                         *)
LEMMA ReceiveKeeps ==
    ASSUME NEW q \in Seq(Jobs), q # <<>>
    PROVE  \A k \in Jobs : InChannel(q, k) /\ k # Head(q) => InChannel(Tail(q), k)
<1>1. /\ Len(Tail(q)) = Len(q) - 1
      /\ Head(q) = q[1]
      /\ \A i \in 1..Len(q) - 1 : Tail(q)[i] = q[i + 1]
      /\ Len(q) \in Nat
  OBVIOUS
<1>2. SUFFICES ASSUME NEW i \in 1..Len(q), q[i] # q[1] PROVE InChannel(Tail(q), q[i])
  BY <1>1 DEF InChannel
<1>3. i - 1 \in 1..Len(Tail(q)) /\ Tail(q)[i - 1] = q[i]
  BY <1>1, <1>2
<1>4. QED
  BY <1>3 DEF InChannel

(* What NoJobIsForgotten says of one job.                                  *)
Unfinished(j) == Present(j) /\ meta[j].status \in {"queued", "running"}

Remembered(j) ==
    \/ InChannel(queue, j)
    \/ j \in scan
    \/ \E w \in Workers : worker[w].job = j

LEMMA ForgottenByJob ==
    NoJobIsForgotten <=> \A j \in Jobs : Unfinished(j) => Remembered(j)
BY DEF NoJobIsForgotten, Unfinished, Remembered, InChannel

LEMMA RememberedByWork ==
    ASSUME SpoolInv, NEW w \in Workers, Work(w), NEW j \in Jobs,
           Unfinished(j) => Remembered(j), Unfinished(j)'
    PROVE  Remembered(j)'
<1> USE DEF spoolVars, eraseVars, historyVars
<1>0. /\ TypeOK /\ queue \in Seq(Jobs) /\ None \notin Jobs
      /\ \A v \in Workers : worker[v].pc = "idle" <=> worker[v].job = None
  BY NoneAssumption DEF SpoolInv, TypeOK, IdleHoldsNothing
(* A worker that keeps its job, or had another one, loses nothing.         *)
<1>1. ASSUME NEW x \in WorkerState, worker' = [worker EXCEPT ![w] = x],
             x.job = j \/ worker[w].job # j, queue' = queue, scan' = scan,
             Unfinished(j) \/ x.job = j
      PROVE  Remembered(j)'
  <2>1. /\ worker'[w] = x
        /\ \A v \in Workers \ {w} : worker'[v] = worker[v]
    BY <1>0, <1>1, WorkerUpdate
  <2>2. CASE x.job = j
    BY <2>1, <2>2 DEF Remembered
  <2>3. CASE Remembered(j) /\ worker[w].job # j
    BY <1>1, <2>1, <2>3 DEF Remembered
  <2>4. QED
    BY <1>1, <2>2, <2>3
<1>2. ASSUME meta'[j] = meta[j] PROVE Unfinished(j)
  BY <1>2 DEF Unfinished, Present
<1>3. CASE Take(w)
  <2>1. PICK x \in WorkerState :
          /\ worker' = [worker EXCEPT ![w] = x]
          /\ \/ x.job = Head(queue)
             \/ /\ ~(Present(Head(queue)) /\ meta[Head(queue)].status # "complete")
                /\ x = worker[w]
    BY <1>0, <1>3, TakeEffect
  <2>2. /\ queue # <<>> /\ Head(queue) \in Jobs /\ queue' = Tail(queue)
        /\ worker[w].job = None
    BY <1>0, <1>3, TakeEffect
  <2>3. meta' = meta /\ scan' = scan
    BY <1>3 DEF Take
  <2>4. Unfinished(j) /\ Remembered(j)
    BY <1>2, <2>3
  <2>5. /\ worker'[w] = x
        /\ \A v \in Workers \ {w} : worker'[v] = worker[v]
    BY <1>0, <2>1, WorkerUpdate
  <2>6. CASE j = Head(queue)
    BY <2>1, <2>4, <2>5, <2>6 DEF Remembered, Unfinished
  <2>7. CASE j # Head(queue)
    <3>1. CASE InChannel(queue, j)
      BY <1>0, <2>2, <2>7, <3>1, ReceiveKeeps DEF Remembered
    <3>2. CASE j \in scan
      BY <2>3, <3>2 DEF Remembered
    <3>3. CASE \E v \in Workers : worker[v].job = j
      BY <1>0, <2>2, <2>5, <3>3 DEF Remembered
    <3>4. QED
      BY <2>4, <3>1, <3>2, <3>3 DEF Remembered
  <2>8. QED
    BY <2>6, <2>7
<1>4. CASE MarkRunning(w)
  <2>1. PICK x \in WorkerState :
          worker' = [worker EXCEPT ![w] = x] /\ x.job = worker[w].job
    BY <1>0, <1>4, MarkRunningEffect
  <2>2. worker[w].job = j \/ meta'[j] = meta[j]
    BY <1>0, <1>4, WriteStatusEffect DEF MarkRunning, Status
  <2>3. QED
    BY <1>1, <1>2, <1>4, <2>1, <2>2 DEF MarkRunning
<1>5. ASSUME NEW n \in Sizes, Fetch(w, n) PROVE Remembered(j)'
  <2>1. PICK x \in WorkerState :
          worker' = [worker EXCEPT ![w] = x] /\ x.job = worker[w].job
    BY <1>0, <1>5, FetchEffect
  <2>2. UNCHANGED <<meta, queue, scan>>
    BY <1>5 DEF Fetch
  <2>3. QED
    BY <1>1, <1>2, <2>1, <2>2
(* process_job drops a job after an error only when its file is gone.      *)
<1>6. ASSUME worker[w].pc # "idle", Failing(w), UNCHANGED <<meta, queue, scan>>
      PROVE  Remembered(j)'
  <2>1. PICK x \in WorkerState :
          /\ worker' = [worker EXCEPT ![w] = x]
          /\ x.job = worker[w].job \/ ~Present(worker[w].job)
    BY <1>0, <1>6, FailingEffect
  <2>2. Unfinished(j)
    BY <1>2, <1>6
  <2>3. QED
    BY <1>1, <1>6, <2>1, <2>2 DEF Unfinished
<1>7. CASE WorkFails(w)
  BY <1>6, <1>7 DEF WorkFails
<1>8. CASE Store(w)
  BY <1>0, <1>1, <1>2, <1>6, <1>8, StoreEffect DEF Store
<1>9. ASSUME NEW n \in NormSizes, Normalize(w, n) PROVE Remembered(j)'
  <2>1. PICK x \in WorkerState :
          worker' = [worker EXCEPT ![w] = x] /\ x.job = worker[w].job
    BY <1>0, <1>9, NormalizeEffect
  <2>2. UNCHANGED <<meta, queue, scan>>
    BY <1>9 DEF Normalize
  <2>3. QED
    BY <1>1, <1>2, <2>1, <2>2
(* The last write of a worker leaves its job complete or failed.           *)
<1>10. ASSUME worker[w].pc # "idle", NEW s \in {"complete", "failed"}, WriteStatus(w, s),
              worker' = [worker EXCEPT ![w] = Idle], UNCHANGED <<queue, scan>>
       PROVE  Remembered(j)'
  <2>1. /\ meta'[worker[w].job].status = s
        /\ j # worker[w].job => meta'[j] = meta[j]
    BY <1>0, <1>10, WriteStatusEffect DEF Status
  <2>2. j # worker[w].job /\ Unfinished(j)
    BY <1>2, <1>10, <2>1 DEF Unfinished
  <2>3. QED
    BY <1>1, <1>10, <2>2, IdleType
<1>11. CASE Finish(w)
  BY <1>10, <1>11 DEF Finish
<1>12. CASE RecordFailure(w)
  BY <1>10, <1>12 DEF RecordFailure
<1>13. QED
  BY <1>3, <1>4, <1>5, <1>7, <1>8, <1>9, <1>11, <1>12 DEF Work

LEMMA RememberedByRest ==
    ASSUME SpoolInv, NEW j \in Jobs,
           Unfinished(j) => Remembered(j), Unfinished(j)',
           UNCHANGED vars \/ ReapMetadata \/ Crash
           \/ \E k \in Jobs : Request(k) \/ Expire(k) \/ ReapObjects(k) \/ Recover(k)
    PROVE  Remembered(j)'
<1> USE DEF spoolVars, eraseVars, historyVars
<1>0. queue \in Seq(Jobs) /\ meta \in [Jobs -> Metadata \cup {None}] /\ TypeOK
  BY DEF SpoolInv, TypeOK
<1>1. ASSUME meta'[j] = meta[j] PROVE Unfinished(j) /\ Remembered(j)
  BY <1>1 DEF Unfinished, Present
<1>2. ASSUME meta'[j] \in {meta[j], None}, UNCHANGED <<queue, worker, scan>>
      PROVE  Remembered(j)'
  BY <1>1, <1>2 DEF Remembered, Unfinished, Present
<1>3. CASE UNCHANGED vars
  BY <1>2, <1>3 DEF vars
<1>4. CASE ReapMetadata
  BY <1>0, <1>2, <1>4 DEF ReapMetadata
<1>5. CASE Crash
  BY <1>5 DEF Crash, Remembered
<1>6. ASSUME NEW k \in Jobs, Submit(k) PROVE Remembered(j)'
  <2>1. queue' = Append(queue, k) /\ UNCHANGED <<worker, scan>>
    BY <1>6 DEF Submit
  <2>2. CASE j = k
    BY <1>0, <2>1, <2>2, SendKeeps DEF Remembered
  <2>3. CASE j # k
    <3>1. meta'[j] = meta[j]
      BY <1>0, <1>6, <2>3 DEF Submit
    <3>2. QED
      BY <1>0, <1>1, <2>1, <3>1, SendKeeps DEF Remembered
  <2>4. QED
    BY <2>2, <2>3
<1>7. ASSUME NEW k \in Jobs, DeleteObjects(k) \/ Expire(k) \/ ReapObjects(k)
      PROVE  Remembered(j)'
  BY <1>2, <1>7 DEF DeleteObjects, Expire, ReapObjects
<1>8. ASSUME NEW k \in Jobs, DeleteMetadata(k) PROVE Remembered(j)'
  BY <1>0, <1>2, <1>8 DEF DeleteMetadata
<1>9. ASSUME NEW k \in Jobs, Recover(k) PROVE Remembered(j)'
  <2>1. UNCHANGED <<meta, worker>> /\ scan' = scan \ {k}
    BY <1>9 DEF Recover
  <2>2. Unfinished(j) /\ Remembered(j)
    BY <1>1, <2>1
  <2>3. CASE j = k
    <3>1. queue' = Append(queue, k)
      BY <1>9, <2>2, <2>3 DEF Recover, Unfinished
    <3>2. QED
      BY <1>0, <2>3, <3>1, SendKeeps DEF Remembered
  <2>4. CASE j # k
    <3>1. queue' = queue \/ queue' = Append(queue, k)
      BY <1>9 DEF Recover
    <3>2. QED
      BY <1>0, <2>1, <2>2, <2>4, <3>1, SendKeeps DEF Remembered
  <2>5. QED
    BY <2>3, <2>4
<1>10. QED
  BY <1>3, <1>4, <1>5, <1>6, <1>7, <1>8, <1>9 DEF Request

(* enqueue, process_job, recover_pending: with any number of workers, a    *)
(* job shown as queued or running is in the channel, ahead of the recovery *)
(* scan or in the hands of a worker, after every crash, delete and second  *)
(* run.                                                                    *)
THEOREM NothingForgotten == Spec => []NoJobIsForgotten
<1>1. Init => NoJobIsForgotten
  BY DEF Init, NoJobIsForgotten, Present
<1>2. SpoolInv /\ NoJobIsForgotten /\ [Next]_vars => NoJobIsForgotten'
  <2> SUFFICES ASSUME SpoolInv, NoJobIsForgotten, [Next]_vars,
                      NEW j \in Jobs, Unfinished(j)'
               PROVE  Remembered(j)'
    BY ForgottenByJob DEF NoJobIsForgotten, Unfinished, Remembered, InChannel
  <2>1. Unfinished(j) => Remembered(j)
    BY ForgottenByJob
  <2>2. QED
    BY <2>1, RememberedByWork, RememberedByRest DEF Next
<1>3. QED
  BY <1>1, <1>2, SpoolInvariant, PTL DEF Spec

------------------------------------------------------------------------------
(* The job quota.                                                          *)

(* A job that was submitted and is gone was deleted or has expired: what a *)
(* late write of a worker brings back is never a job the quota counts.     *)
GoneIsErased ==
    /\ \A j \in submitted \ expired : ~Present(j) => fate[j] = "deleted"
    /\ reaping # None => reaping \in expired

QuotaInv == SpoolInv /\ GoneIsErased /\ JobQuotaForKeptJobs

(* The jobs the property counts.                                           *)
KeptJobs(c) == { j \in Counted(c) : fate[j] # "deleted" }

LEMMA KeptJobsFinite ==
    ASSUME NEW c
    PROVE  IsFiniteSet(KeptJobs(c)) /\ Cardinality(KeptJobs(c)) \in Nat
<1>1. KeptJobs(c) \subseteq Jobs
  BY DEF KeptJobs, Counted
<1>2. QED
  BY <1>1, JobsAssumption, FS_Subset, FS_CardinalityType

(* A step after which no other job counts keeps the quota.                 *)
LEMMA NoNewJobs ==
    ASSUME JobQuotaForKeptJobs, \A c \in Clients : KeptJobs(c)' \subseteq KeptJobs(c)
    PROVE  JobQuotaForKeptJobs'
<1> SUFFICES ASSUME NEW c \in Clients PROVE Cardinality(KeptJobs(c)') <= MaxJobs
  BY DEF JobQuotaForKeptJobs, KeptJobs
<1>1. Cardinality(KeptJobs(c)) <= MaxJobs
  BY DEF JobQuotaForKeptJobs, KeptJobs
<1>2. IsFiniteSet(KeptJobs(c)) /\ Cardinality(KeptJobs(c)) \in Nat
  BY KeptJobsFinite
<1>3. /\ IsFiniteSet(KeptJobs(c)')
      /\ Cardinality(KeptJobs(c)') <= Cardinality(KeptJobs(c))
  BY <1>2, FS_Subset
<1>4. Cardinality(KeptJobs(c)') \in Nat
  BY <1>3, FS_CardinalityType
<1>5. QED
  BY <1>1, <1>2, <1>3, <1>4, QuotaAssumption

(* A new job is counted against the quota before it is written.            *)
LEMMA QuotaBySubmit ==
    ASSUME QuotaInv, NEW j \in Jobs, Submit(j)
    PROVE  GoneIsErased' /\ JobQuotaForKeptJobs'
<1>0. /\ meta \in [Jobs -> Metadata \cup {None}] /\ submitted \subseteq Jobs
      /\ ClientOf[j] \in Clients
  BY ClientOfAssumption DEF QuotaInv, SpoolInv, TypeOK
<1>1. /\ \A k \in Jobs : k # j => meta'[k] = meta[k]
      /\ meta'[j] # None
      /\ UNCHANGED <<reaping, fate, expired>>
      /\ submitted' = submitted \cup {j}
  BY <1>0, NewMetaType, NoneAssumption DEF Submit, eraseVars
<1>2. GoneIsErased'
  BY <1>0, <1>1 DEF QuotaInv, GoneIsErased, Present
<1>3. ASSUME NEW c \in Clients PROVE Cardinality(KeptJobs(c)') <= MaxJobs
  <2>1. CASE c # ClientOf[j]
    <3>1. KeptJobs(c)' = KeptJobs(c)
      BY <1>0, <1>1, <2>1 DEF KeptJobs, Counted, Present
    <3>2. QED
      BY <3>1 DEF QuotaInv, JobQuotaForKeptJobs, KeptJobs
  <2>2. CASE c = ClientOf[j]
    <3>1. KeptJobs(c)' \subseteq KeptJobs(c) \cup {j}
      BY <1>0, <1>1 DEF KeptJobs, Counted, Present
    <3>2. KeptJobs(c) \subseteq Counted(c) /\ Counted(c) \subseteq Jobs
      BY DEF KeptJobs, Counted
    <3>3. /\ IsFiniteSet(Counted(c))
          /\ Cardinality(KeptJobs(c)) <= Cardinality(Counted(c))
          /\ IsFiniteSet(KeptJobs(c))
      BY <3>2, JobsAssumption, FS_Subset
    <3>4. Cardinality(Counted(c)) \in Nat /\ Cardinality(KeptJobs(c)) \in Nat
      BY <3>3, FS_CardinalityType
    <3>5. Cardinality(Counted(c)) < MaxJobs
      BY <2>2 DEF Submit
    <3>6. /\ IsFiniteSet(KeptJobs(c) \cup {j})
          /\ Cardinality(KeptJobs(c) \cup {j}) <= Cardinality(KeptJobs(c)) + 1
      <4> DEFINE S == KeptJobs(c)
      <4>1. /\ IsFiniteSet(S \cup {j})
            /\ Cardinality(S \cup {j}) = IF j \in S THEN Cardinality(S) ELSE Cardinality(S) + 1
        <5> HIDE DEF S
        <5> SUFFICES ASSUME IsFiniteSet(S)
                     PROVE  /\ IsFiniteSet(S \cup {j})
                            /\ Cardinality(S \cup {j})
                                 = IF j \in S THEN Cardinality(S) ELSE Cardinality(S) + 1
          BY <3>3 DEF S
        <5>1. QED
          BY FS_AddElement
      <4>2. QED
        BY <3>4, <4>1
    <3>7. /\ Cardinality(KeptJobs(c)') <= Cardinality(KeptJobs(c) \cup {j})
          /\ IsFiniteSet(KeptJobs(c)')
      BY <3>1, <3>6, FS_Subset
    <3>8. Cardinality(KeptJobs(c)') \in Nat /\ Cardinality(KeptJobs(c) \cup {j}) \in Nat
      BY <3>6, <3>7, FS_CardinalityType
    <3>9. QED
      BY <3>3, <3>4, <3>5, <3>6, <3>7, <3>8, QuotaAssumption
  <2>3. QED
    BY <2>1, <2>2
<1>4. QED
  BY <1>2, <1>3 DEF JobQuotaForKeptJobs, KeptJobs

(* A worker may write the metadata of a job that is gone, but no such job  *)
(* counts.                                                                 *)
LEMMA QuotaByWork ==
    ASSUME QuotaInv, NEW w \in Workers, Work(w)
    PROVE  GoneIsErased' /\ JobQuotaForKeptJobs'
<1> USE DEF spoolVars, eraseVars, historyVars
<1>0. TypeOK /\ GoneIsErased /\ JobQuotaForKeptJobs /\ submitted \subseteq Jobs
  BY DEF QuotaInv, SpoolInv, TypeOK
<1>1. UNCHANGED <<fate, reaping, submitted, expired>>
  BY DEF Work, Take, MarkRunning, Fetch, WorkFails, Store, Normalize, Finish, RecordFailure
<1>2. \/ meta' = meta
      \/ /\ worker[w].pc # "idle"
         /\ \E s \in Status : WriteStatus(w, s)
  BY DEF Work, Take, MarkRunning, Fetch, WorkFails, Store, Normalize, Finish, RecordFailure,
         Status
<1>3. CASE meta' = meta
  <2>1. GoneIsErased'
    BY <1>0, <1>1, <1>3 DEF GoneIsErased, Present
  <2>2. \A c \in Clients : KeptJobs(c)' \subseteq KeptJobs(c)
    BY <1>1, <1>3 DEF KeptJobs, Counted, Present
  <2>3. QED
    BY <1>0, <2>1, <2>2, NoNewJobs
<1>4. CASE worker[w].pc # "idle" /\ \E s \in Status : WriteStatus(w, s)
  <2>1. /\ meta'[worker[w].job] # None
        /\ \A j \in Jobs : j # worker[w].job => meta'[j] = meta[j]
    BY <1>0, <1>4, WriteStatusEffect
  <2>2. worker[w].job \in submitted
    BY <1>0, <1>4, WorkerFields
  <2>3. GoneIsErased'
    BY <1>0, <1>1, <2>1 DEF GoneIsErased, Present
  <2>4. \A c \in Clients : KeptJobs(c)' \subseteq KeptJobs(c)
    BY <1>0, <1>1, <2>1, <2>2 DEF GoneIsErased, KeptJobs, Counted, Present
  <2>5. QED
    BY <1>0, <2>3, <2>4, NoNewJobs
<1>5. QED
  BY <1>2, <1>3, <1>4

LEMMA QuotaByRest ==
    ASSUME QuotaInv,
           UNCHANGED vars \/ ReapMetadata \/ Crash
           \/ \E k \in Jobs : DeleteObjects(k) \/ DeleteMetadata(k) \/ Expire(k)
                              \/ ReapObjects(k) \/ Recover(k)
    PROVE  GoneIsErased' /\ JobQuotaForKeptJobs'
<1> USE DEF spoolVars, eraseVars, historyVars
<1>0. /\ GoneIsErased /\ JobQuotaForKeptJobs /\ submitted \subseteq Jobs
      /\ meta \in [Jobs -> Metadata \cup {None}]
      /\ fate \in [Jobs -> {"kept", "erasing", "deleted"}]
      /\ reaping \in submitted \cup {None} /\ None \notin Jobs
  BY NoneAssumption DEF QuotaInv, SpoolInv, TypeOK
<1>1. ASSUME \A j \in Jobs : /\ meta'[j] \in {meta[j], None}
                             /\ fate[j] = "deleted" => fate'[j] = "deleted",
             expired \subseteq expired', GoneIsErased'
      PROVE  GoneIsErased' /\ JobQuotaForKeptJobs'
  <2>1. \A c \in Clients : KeptJobs(c)' \subseteq KeptJobs(c)
    BY <1>1 DEF KeptJobs, Counted, Present
  <2>2. QED
    BY <1>0, <1>1, <2>1, NoNewJobs
<1>2. ASSUME UNCHANGED <<meta, fate, submitted, expired>>, reaping' \in {reaping, None}
      PROVE  GoneIsErased' /\ JobQuotaForKeptJobs'
  <2>1. GoneIsErased'
    BY <1>0, <1>2 DEF GoneIsErased, Present
  <2>2. QED
    BY <1>1, <1>2, <2>1
<1>3. CASE UNCHANGED vars \/ Crash \/ \E k \in Jobs : Recover(k)
  BY <1>2, <1>3 DEF vars, Crash, Recover
<1>4. CASE ReapMetadata
  <2>1. /\ reaping \in expired /\ reaping' = None
        /\ UNCHANGED <<fate, submitted, expired>>
        /\ \A j \in Jobs : j # reaping => meta'[j] = meta[j]
        /\ \A j \in Jobs : meta'[j] \in {meta[j], None}
    BY <1>0, <1>4 DEF ReapMetadata, GoneIsErased
  <2>2. GoneIsErased'
    BY <1>0, <2>1 DEF GoneIsErased, Present
  <2>3. QED
    BY <1>1, <2>1, <2>2
<1>5. ASSUME NEW k \in Jobs, RemoveObjects(k)
      PROVE  \A j \in Jobs : fate[j] = "deleted" <=> fate'[j] = "deleted"
  BY <1>0, <1>5 DEF RemoveObjects
<1>6. ASSUME NEW k \in Jobs, DeleteObjects(k) PROVE GoneIsErased' /\ JobQuotaForKeptJobs'
  <2>1. UNCHANGED <<meta, submitted, expired, reaping>>
    BY <1>6 DEF DeleteObjects
  <2>2. \A j \in Jobs : fate[j] = "deleted" <=> fate'[j] = "deleted"
    BY <1>5, <1>6 DEF DeleteObjects
  <2>3. GoneIsErased'
    BY <1>0, <2>1, <2>2 DEF GoneIsErased, Present
  <2>4. QED
    BY <1>1, <2>1, <2>2, <2>3
<1>7. ASSUME NEW k \in Jobs, DeleteMetadata(k) PROVE GoneIsErased' /\ JobQuotaForKeptJobs'
  <2>1. /\ UNCHANGED <<submitted, expired, reaping>>
        /\ \A j \in Jobs : j # k => meta'[j] = meta[j] /\ fate'[j] = fate[j]
        /\ \A j \in Jobs : meta'[j] \in {meta[j], None}
        /\ fate'[k] = IF Present(k) THEN "deleted" ELSE fate[k]
    BY <1>0, <1>7 DEF DeleteMetadata
  <2>2. GoneIsErased'
    BY <1>0, <2>1 DEF GoneIsErased, Present
  <2>3. QED
    BY <1>1, <2>1, <2>2
<1>8. ASSUME NEW k \in Jobs, Expire(k) PROVE GoneIsErased' /\ JobQuotaForKeptJobs'
  <2>1. UNCHANGED <<meta, fate, reaping, submitted>> /\ expired' = expired \cup {k}
    BY <1>8 DEF Expire
  <2>2. GoneIsErased'
    BY <1>0, <2>1 DEF GoneIsErased, Present
  <2>3. QED
    BY <1>1, <2>1, <2>2
<1>9. ASSUME NEW k \in Jobs, ReapObjects(k) PROVE GoneIsErased' /\ JobQuotaForKeptJobs'
  <2>1. UNCHANGED <<meta, submitted, expired>> /\ reaping' = k /\ k \in expired
    BY <1>9 DEF ReapObjects
  <2>2. \A j \in Jobs : fate[j] = "deleted" <=> fate'[j] = "deleted"
    BY <1>5, <1>9 DEF ReapObjects
  <2>3. GoneIsErased'
    BY <1>0, <2>1, <2>2 DEF GoneIsErased, Present
  <2>4. QED
    BY <1>1, <2>1, <2>2, <2>3
<1>10. QED
  BY <1>3, <1>4, <1>6, <1>7, <1>8, <1>9

(* enqueue: no client ever has more unexpired jobs than                    *)
(* max_jobs_per_client, jobs it deleted itself left aside, however many    *)
(* workers write late and whatever crashes.                                *)
THEOREM JobQuotaHolds == Spec => []JobQuotaForKeptJobs
<1>1. Init => QuotaInv
  <2> SUFFICES ASSUME Init PROVE QuotaInv
    OBVIOUS
  <2>1. SpoolInv /\ GoneIsErased
    BY SpoolInit DEF Init, GoneIsErased
  <2>2. \A c \in Clients : KeptJobs(c) = {}
    BY DEF Init, KeptJobs, Counted, Present
  <2>3. QED
    BY <2>1, <2>2, FS_EmptySet, QuotaAssumption DEF QuotaInv, JobQuotaForKeptJobs, KeptJobs
<1>2. QuotaInv /\ [Next]_vars => QuotaInv'
  <2> SUFFICES ASSUME QuotaInv, [Next]_vars PROVE GoneIsErased' /\ JobQuotaForKeptJobs'
    BY SpoolStep DEF QuotaInv
  <2>1. QED
    BY QuotaBySubmit, QuotaByWork, QuotaByRest DEF Next, Request
<1>3. QuotaInv => JobQuotaForKeptJobs
  BY DEF QuotaInv
<1>4. QED
  BY <1>1, <1>2, <1>3, PTL DEF Spec

------------------------------------------------------------------------------
(* Jobs that one worker at most holds.                                     *)

Sole(j) == \A v, w \in Workers : worker[v].job = j /\ worker[w].job = j => v = w

(* A job in the hands of a worker is not shown as complete.                *)
HeldNotComplete(j) ==
    \A w \in Workers : worker[w].job = j /\ Present(j) => meta[j].status # "complete"

(* Metadata announces a result only together with "complete".              *)
UnfinishedIsBlank(j) ==
    Present(j) /\ meta[j].status # "complete" =>
        meta[j].body_len = 0 /\ meta[j].normalized_len = None

(* The worker's copy announces what this run of process_job has stored.    *)
CopyIsFresh(j) ==
    \A w \in Workers : worker[w].job = j =>
        /\ worker[w].pc \notin {"normalizing", "finishing"} => worker[w].m.body_len = 0
        /\ worker[w].pc # "finishing" => worker[w].m.normalized_len = None

(* A file of job j has the announced length n, or somebody erased it.      *)
HasLength(j, f, n) == f = n \/ (f = None /\ fate[j] # "kept")

(* What the worker is about to announce is on disk.                        *)
HandIsStored(j) ==
    \A w \in Workers : worker[w].job = j =>
        /\ worker[w].pc \in {"normalizing", "finishing"} =>
              HasLength(j, obj[j], worker[w].m.body_len)
        /\ worker[w].pc = "finishing" => HasLength(j, norm[j], worker[w].m.normalized_len)

(* So is what metadata announces.                                          *)
ResultIsStored(j) ==
    Present(j) /\ meta[j].status = "complete" =>
        /\ HasLength(j, obj[j], meta[j].body_len)
        /\ meta[j].normalized_len # None => HasLength(j, norm[j], meta[j].normalized_len)

JobInv(j) ==
    /\ HeldNotComplete(j)
    /\ UnfinishedIsBlank(j)
    /\ CopyIsFresh(j)
    /\ HandIsStored(j)
    /\ ResultIsStored(j)

(* Erasing files or dropping a job never disturbs the invariant.           *)
LEMMA JobLeftAlone ==
    ASSUME NEW j \in Jobs, JobInv(j), meta'[j] \in {meta[j], None},
           fate'[j] = "kept" => fate[j] = "kept",
           obj'[j] = obj[j] \/ (obj'[j] = None /\ fate'[j] # "kept"),
           norm'[j] = norm[j] \/ (norm'[j] = None /\ fate'[j] # "kept"),
           \A v \in Workers : worker'[v].job = j => worker'[v] = worker[v]
    PROVE  JobInv(j)'
<1>1. HeldNotComplete(j)'
  BY DEF JobInv, HeldNotComplete, Present
<1>2. UnfinishedIsBlank(j)'
  BY DEF JobInv, UnfinishedIsBlank, Present
<1>3. CopyIsFresh(j)'
  BY DEF JobInv, CopyIsFresh
<1>4. HandIsStored(j)'
  BY DEF JobInv, HandIsStored, HasLength
<1>5. ResultIsStored(j)'
  BY DEF JobInv, ResultIsStored, Present, HasLength
<1>6. QED
  BY <1>1, <1>2, <1>3, <1>4, <1>5 DEF JobInv

(* A worker that holds j alone moves to state x: what process_job has to   *)
(* see to is that x fits what is on disk.                                  *)
LEMMA JobMoved ==
    ASSUME SpoolInv, NEW j \in Jobs, Sole(j), fate' = fate,
           NEW w \in Workers, worker[w].job = j,
           NEW x \in WorkerState, worker' = [worker EXCEPT ![w] = x],
           x.job = j =>
               /\ meta'[j] # None => meta'[j].status # "complete"
               /\ x.pc \notin {"normalizing", "finishing"} => x.m.body_len = 0
               /\ x.pc # "finishing" => x.m.normalized_len = None
               /\ x.pc \in {"normalizing", "finishing"} =>
                     HasLength(j, obj'[j], x.m.body_len)
               /\ x.pc = "finishing" => HasLength(j, norm'[j], x.m.normalized_len),
           UnfinishedIsBlank(j)', ResultIsStored(j)'
    PROVE  JobInv(j)'
<1>1. /\ worker'[w] = x
      /\ \A v \in Workers \ {w} : worker'[v] = worker[v]
  BY WorkerUpdate DEF SpoolInv
<1>2. \A v \in Workers : worker'[v].job = j => v = w /\ x.job = j
  BY <1>1 DEF Sole
<1>3. HeldNotComplete(j)'
  BY <1>2 DEF HeldNotComplete, Present
<1>4. CopyIsFresh(j)'
  BY <1>1, <1>2 DEF CopyIsFresh
<1>5. HandIsStored(j)'
  BY <1>1, <1>2 DEF HandIsStored, HasLength
<1>6. QED
  BY <1>3, <1>4, <1>5 DEF JobInv

LEMMA JobByWork ==
    ASSUME SpoolInv, NEW j \in Jobs, JobInv(j), Sole(j), NEW w \in Workers, Work(w)
    PROVE  JobInv(j)'
<1> USE DEF spoolVars, eraseVars, historyVars
<1>0. /\ TypeOK /\ worker[w] \in WorkerState /\ worker[w].m \in Metadata
      /\ meta \in [Jobs -> Metadata \cup {None}]
      /\ obj \in [Jobs -> Nat \cup {None}] /\ norm \in [Jobs -> Nat \cup {None}]
      /\ worker[w].pc = "idle" <=> worker[w].job = None
      /\ None \notin Jobs
  BY WorkerFields, NoneAssumption DEF SpoolInv, TypeOK, IdleHoldsNothing
<1>1. fate' = fate
  BY DEF Work, Take, MarkRunning, Fetch, WorkFails, Store, Normalize, Finish, RecordFailure
(* A worker busy with another job leaves j alone.                          *)
<1>2. ASSUME NEW x \in WorkerState, worker' = [worker EXCEPT ![w] = x], x.job # j,
             meta'[j] = meta[j], obj'[j] = obj[j], norm'[j] = norm[j]
      PROVE  JobInv(j)'
  <2>1. /\ worker'[w] = x
        /\ \A v \in Workers \ {w} : worker'[v] = worker[v]
    BY <1>0, <1>2, WorkerUpdate
  <2>2. QED
    BY <1>1, <1>2, <2>1, JobLeftAlone
<1>3. ASSUME UNCHANGED <<meta, obj, norm>> PROVE UnfinishedIsBlank(j)' /\ ResultIsStored(j)'
  BY <1>1, <1>3 DEF JobInv, UnfinishedIsBlank, ResultIsStored, HasLength, Present
(* What is known of the job in hand.                                       *)
<1>4. worker[w].job = j =>
        /\ Present(j) => meta[j].status # "complete" /\ meta[j].body_len = 0
                         /\ meta[j].normalized_len = None
        /\ worker[w].pc \notin {"normalizing", "finishing"} => worker[w].m.body_len = 0
        /\ worker[w].pc # "finishing" => worker[w].m.normalized_len = None
        /\ worker[w].pc \in {"normalizing", "finishing"} =>
              HasLength(j, obj[j], worker[w].m.body_len)
        /\ worker[w].pc = "finishing" => HasLength(j, norm[j], worker[w].m.normalized_len)
  BY DEF JobInv, HeldNotComplete, UnfinishedIsBlank, CopyIsFresh, HandIsStored
<1>5. CASE Take(w)
  <2>1. PICK x \in WorkerState :
          /\ worker' = [worker EXCEPT ![w] = x]
          /\ \/ /\ Present(Head(queue)) /\ meta[Head(queue)].status # "complete"
                /\ x.pc = "marking" /\ x.job = Head(queue)
                /\ x.m = meta[Head(queue)]
             \/ x = worker[w]
    BY <1>0, <1>5, TakeEffect
  <2>2. worker[w].job = None /\ UNCHANGED <<meta, obj, norm>>
    BY <1>0, <1>5, TakeEffect DEF Take
  <2>3. CASE x.job # j
    BY <1>2, <2>1, <2>2, <2>3
  <2>4. CASE x.job = j
    <3>1. /\ Present(j) /\ meta[j].status # "complete"
          /\ x.pc = "marking" /\ x.m = meta[j]
      BY <1>0, <2>1, <2>2, <2>4
    <3>2. x.m.body_len = 0 /\ x.m.normalized_len = None
      BY <3>1 DEF JobInv, UnfinishedIsBlank
    <3>3. /\ worker'[w] = x
          /\ \A v \in Workers \ {w} : worker'[v] = worker[v]
      BY <1>0, <2>1, WorkerUpdate
    <3>4. HeldNotComplete(j)'
      BY <2>2, <3>1 DEF HeldNotComplete, Present
    <3>5. CopyIsFresh(j)'
      BY <3>1, <3>2, <3>3 DEF CopyIsFresh, JobInv
    <3>6. HandIsStored(j)'
      BY <1>1, <2>2, <3>1, <3>3 DEF HandIsStored, HasLength, JobInv
    <3>7. QED
      BY <1>3, <2>2, <3>4, <3>5, <3>6 DEF JobInv
  <2>5. QED
    BY <2>3, <2>4
<1>6. CASE MarkRunning(w)
  <2>1. PICK x \in WorkerState :
          /\ worker' = [worker EXCEPT ![w] = x]
          /\ x.pc = "fetching" /\ x.job = worker[w].job
          /\ x.m.body_len = worker[w].m.body_len
          /\ x.m.normalized_len = worker[w].m.normalized_len
    BY <1>0, <1>6, MarkRunningEffect
  <2>2. /\ meta'[worker[w].job] # None
        /\ meta'[worker[w].job].status = "running"
        /\ meta'[worker[w].job].body_len = worker[w].m.body_len
        /\ meta'[worker[w].job].normalized_len = worker[w].m.normalized_len
        /\ j # worker[w].job => meta'[j] = meta[j]
    BY <1>0, <1>6, WriteStatusEffect DEF MarkRunning, Status
  <2>3. worker[w].pc = "marking" /\ UNCHANGED <<obj, norm>>
    BY <1>6 DEF MarkRunning
  <2>4. CASE worker[w].job # j
    BY <1>2, <2>1, <2>2, <2>3, <2>4
  <2>5. CASE worker[w].job = j
    <3>1. UnfinishedIsBlank(j)' /\ ResultIsStored(j)'
      BY <1>4, <2>2, <2>3, <2>5 DEF UnfinishedIsBlank, ResultIsStored, Present
    <3>2. QED
      BY <1>1, <1>4, <2>1, <2>2, <2>3, <2>5, <3>1, JobMoved
  <2>6. QED
    BY <2>4, <2>5
<1>7. ASSUME NEW n \in Sizes, Fetch(w, n) PROVE JobInv(j)'
  <2>1. PICK x \in WorkerState :
          /\ worker' = [worker EXCEPT ![w] = x]
          /\ x.pc = "storing" /\ x.job = worker[w].job /\ x.m = worker[w].m
    BY <1>0, <1>7, FetchEffect
  <2>2. worker[w].pc = "fetching" /\ UNCHANGED <<meta, obj, norm>>
    BY <1>7 DEF Fetch
  <2>3. CASE worker[w].job # j
    BY <1>2, <2>1, <2>2, <2>3
  <2>4. CASE worker[w].job = j
    BY <1>1, <1>3, <1>4, <2>1, <2>2, <2>4, JobMoved DEF Present
  <2>5. QED
    BY <2>3, <2>4
<1>8. ASSUME worker[w].pc # "idle", Failing(w), UNCHANGED <<meta, obj, norm>>
      PROVE  JobInv(j)'
  <2>1. PICK x \in WorkerState :
          /\ worker' = [worker EXCEPT ![w] = x]
          /\ \/ /\ Present(worker[w].job)
                /\ x.pc = "failing" /\ x.job = worker[w].job
                /\ x.m = meta[worker[w].job]
             \/ x.job = None
    BY <1>0, <1>8, FailingEffect
  <2>2. CASE worker[w].job # j
    <3>1. x.job # j
      BY <1>0, <2>1, <2>2
    <3>2. QED
      BY <1>2, <1>8, <2>1, <3>1
  <2>3. CASE worker[w].job = j
    <3>1. x.job = j => x.pc = "failing" /\ x.m = meta[j] /\ Present(j)
      BY <1>0, <2>1, <2>3
    <3>2. QED
      BY <1>1, <1>3, <1>4, <1>8, <2>1, <2>3, <3>1, JobMoved
  <2>4. QED
    BY <2>2, <2>3
<1>9. CASE WorkFails(w)
  BY <1>8, <1>9 DEF WorkFails
<1>10. CASE Store(w)
  <2>0. worker[w].pc = "storing" /\ UNCHANGED <<meta, norm>>
    BY <1>10 DEF Store
  <2>1. CASE Failing(w) /\ obj' = obj
    BY <1>8, <2>0, <2>1
  <2>2. CASE /\ obj' = [obj EXCEPT ![worker[w].job] = worker[w].size]
             /\ \E x \in WorkerState :
                  /\ worker' = [worker EXCEPT ![w] = x]
                  /\ x.pc = "normalizing" /\ x.job = worker[w].job
                  /\ x.m.body_len = worker[w].size
                  /\ x.m.normalized_len = worker[w].m.normalized_len
    <3>1. PICK x \in WorkerState :
            /\ worker' = [worker EXCEPT ![w] = x]
            /\ x.pc = "normalizing" /\ x.job = worker[w].job
            /\ x.m.body_len = worker[w].size
            /\ x.m.normalized_len = worker[w].m.normalized_len
      BY <2>2
    <3>2. CASE worker[w].job # j
      <4>1. obj'[j] = obj[j]
        BY <1>0, <2>2, <3>2
      <4>2. QED
        BY <1>2, <2>0, <3>1, <3>2, <4>1
    <3>3. CASE worker[w].job = j
      <4>1. obj'[j] = worker[w].size
        BY <1>0, <2>2, <3>3
      <4>2. UnfinishedIsBlank(j)' /\ ResultIsStored(j)'
        BY <1>4, <2>0, <3>3 DEF UnfinishedIsBlank, ResultIsStored, Present
      <4>3. QED
        BY <1>1, <1>4, <2>0, <3>1, <3>3, <4>1, <4>2, JobMoved DEF Present, HasLength
    <3>4. QED
      BY <3>2, <3>3
  <2>3. QED
    BY <1>0, <1>10, <2>1, <2>2, StoreEffect
<1>11. ASSUME NEW n \in NormSizes, Normalize(w, n) PROVE JobInv(j)'
  <2>1. PICK x \in WorkerState :
          /\ worker' = [worker EXCEPT ![w] = x]
          /\ x.pc = "finishing" /\ x.job = worker[w].job
          /\ x.m.body_len = worker[w].m.body_len
          /\ x.m.normalized_len = n
    BY <1>0, <1>11, NormalizeEffect
  <2>2. /\ worker[w].pc = "normalizing" /\ UNCHANGED <<meta, obj>>
        /\ norm' = [norm EXCEPT ![worker[w].job] = n]
    BY <1>11 DEF Normalize
  <2>3. CASE worker[w].job # j
    <3>1. norm'[j] = norm[j]
      BY <1>0, <2>2, <2>3
    <3>2. QED
      BY <1>2, <2>1, <2>2, <2>3, <3>1
  <2>4. CASE worker[w].job = j
    <3>1. norm'[j] = n
      BY <1>0, <2>2, <2>4
    <3>2. UnfinishedIsBlank(j)' /\ ResultIsStored(j)'
      BY <1>4, <2>2, <2>4 DEF UnfinishedIsBlank, ResultIsStored, Present
    <3>3. QED
      BY <1>1, <1>4, <2>1, <2>2, <2>4, <3>1, <3>2, JobMoved DEF Present, HasLength
  <2>5. QED
    BY <2>3, <2>4
<1>12. ASSUME worker[w].pc # "idle", NEW s \in {"complete", "failed"}, WriteStatus(w, s),
              s = "complete" <=> worker[w].pc \in {"normalizing", "finishing"},
              worker' = [worker EXCEPT ![w] = Idle], UNCHANGED <<obj, norm>>
       PROVE  JobInv(j)'
  <2>1. /\ meta'[worker[w].job].status = s
        /\ meta'[worker[w].job].body_len = worker[w].m.body_len
        /\ meta'[worker[w].job].normalized_len = worker[w].m.normalized_len
        /\ j # worker[w].job => meta'[j] = meta[j]
    BY <1>0, <1>12, WriteStatusEffect DEF Status
  <2>2. CASE worker[w].job # j
    BY <1>0, <1>2, <1>12, <2>1, <2>2, IdleType
  <2>3. CASE worker[w].job = j
    <3>1. UnfinishedIsBlank(j)' /\ ResultIsStored(j)'
      BY <1>1, <1>4, <1>12, <2>1, <2>3
         DEF UnfinishedIsBlank, ResultIsStored, HasLength, Present
    <3>2. Idle \in WorkerState /\ Idle.job # j
      BY <1>0, IdleType
    <3>3. QED
      BY <1>1, <1>12, <2>3, <3>1, <3>2, JobMoved
  <2>4. QED
    BY <2>2, <2>3
<1>13. CASE Finish(w)
  BY <1>12, <1>13 DEF Finish
<1>14. CASE RecordFailure(w)
  BY <1>12, <1>14 DEF RecordFailure
<1>15. QED
  BY <1>5, <1>6, <1>7, <1>9, <1>10, <1>11, <1>13, <1>14 DEF Work

LEMMA JobByRest ==
    ASSUME SpoolInv, NEW j \in Jobs, JobInv(j),
           UNCHANGED vars \/ ReapMetadata \/ Crash
           \/ \E k \in Jobs : Request(k) \/ Expire(k) \/ ReapObjects(k) \/ Recover(k)
    PROVE  JobInv(j)'
<1> USE DEF spoolVars, eraseVars, historyVars
<1>0. /\ TypeOK /\ MetaIsSubmitted /\ None \notin Jobs
      /\ meta \in [Jobs -> Metadata \cup {None}]
      /\ obj \in [Jobs -> Nat \cup {None}] /\ norm \in [Jobs -> Nat \cup {None}]
      /\ fate \in [Jobs -> {"kept", "erasing", "deleted"}]
  BY NoneAssumption DEF SpoolInv, TypeOK
<1>1. ASSUME UNCHANGED <<obj, norm, fate, worker>>, meta'[j] \in {meta[j], None}
      PROVE  JobInv(j)'
  BY <1>1, JobLeftAlone
<1>2. ASSUME NEW k \in Jobs, RemoveObjects(k), UNCHANGED <<meta, worker>>
      PROVE  JobInv(j)'
  <2>1. /\ fate'[j] = "kept" => fate[j] = "kept"
        /\ obj'[j] = obj[j] \/ (obj'[j] = None /\ fate'[j] # "kept")
        /\ norm'[j] = norm[j] \/ (norm'[j] = None /\ fate'[j] # "kept")
    BY <1>0, <1>2 DEF RemoveObjects
  <2>2. QED
    BY <1>2, <2>1, JobLeftAlone
<1>3. CASE UNCHANGED vars \/ ReapMetadata
  BY <1>0, <1>1, <1>3 DEF vars, ReapMetadata
<1>4. CASE Crash
  <2>1. \A v \in Workers : worker'[v].job = None
    BY <1>4, IdleType DEF Crash
  <2>2. UNCHANGED <<meta, obj, norm, fate>>
    BY <1>4 DEF Crash
  <2>3. QED
    BY <1>0, <2>1, <2>2, JobLeftAlone
<1>5. ASSUME NEW k \in Jobs, Submit(k) PROVE JobInv(j)'
  <2>1. UNCHANGED <<obj, norm, fate, worker>>
    BY <1>5 DEF Submit
  <2>2. CASE k # j
    <3>1. meta'[j] = meta[j]
      BY <1>0, <1>5, <2>2 DEF Submit
    <3>2. QED
      BY <1>1, <2>1, <3>1
  <2>3. CASE k = j
    <3>1. meta'[j] = NewMeta
      BY <1>0, <1>5, <2>3 DEF Submit
    <3>2. /\ meta'[j].status = "queued" /\ meta'[j].body_len = 0
          /\ meta'[j].normalized_len = None
      BY <3>1 DEF NewMeta
    <3>3. QED
      BY <2>1, <3>2 DEF JobInv, HeldNotComplete, UnfinishedIsBlank, CopyIsFresh,
                        HandIsStored, ResultIsStored, HasLength, Present
  <2>4. QED
    BY <2>2, <2>3
<1>6. ASSUME NEW k \in Jobs, DeleteObjects(k) \/ ReapObjects(k) PROVE JobInv(j)'
  BY <1>2, <1>6 DEF DeleteObjects, ReapObjects
<1>7. ASSUME NEW k \in Jobs, DeleteMetadata(k) PROVE JobInv(j)'
  <2>1. /\ meta'[j] \in {meta[j], None} /\ UNCHANGED <<obj, norm, worker>>
        /\ fate'[j] = "kept" => fate[j] = "kept"
    BY <1>0, <1>7 DEF DeleteMetadata
  <2>2. QED
    BY <2>1, JobLeftAlone
<1>8. ASSUME NEW k \in Jobs, Expire(k) \/ Recover(k) PROVE JobInv(j)'
  BY <1>1, <1>8 DEF Expire, Recover
<1>9. QED
  BY <1>3, <1>4, <1>5, <1>6, <1>7, <1>8 DEF Request

LEMMA JobInit == Init => \A j \in Jobs : JobInv(j)
<1> SUFFICES ASSUME Init, NEW j \in Jobs PROVE JobInv(j)
  OBVIOUS
<1>1. ~Present(j) /\ \A w \in Workers : worker[w].job = None
  BY IdleType DEF Init, Present
<1>2. None # j
  BY NoneAssumption
<1>3. QED
  BY <1>1, <1>2 DEF JobInv, HeldNotComplete, UnfinishedIsBlank, CopyIsFresh,
                    HandIsStored, ResultIsStored

(* As long as one worker at most holds j, every step keeps what is known   *)
(* of j.                                                                   *)
LEMMA JobStep ==
    ASSUME SpoolInv, NEW j \in Jobs, JobInv(j), Sole(j), [Next]_vars
    PROVE  JobInv(j)'
BY JobByWork, JobByRest DEF Next

(* A job shown as complete is in nobody's hands, so nobody writes it.      *)
LEMMA CompleteStays ==
    ASSUME SpoolInv, NEW j \in Jobs, JobInv(j), [Next]_vars,
           Present(j), meta[j].status = "complete", meta'[j] # None
    PROVE  meta'[j].status = "complete"
<1> USE DEF spoolVars, eraseVars, historyVars
<1>0. /\ TypeOK /\ MetaIsSubmitted
      /\ meta \in [Jobs -> Metadata \cup {None}]
  BY DEF SpoolInv, TypeOK
<1>1. ASSUME NEW w \in Workers, Work(w) PROVE meta'[j] = meta[j]
  <2>1. \/ meta' = meta
        \/ /\ worker[w].pc # "idle"
           /\ \E s \in Status : WriteStatus(w, s)
    BY <1>1 DEF Work, Take, MarkRunning, Fetch, WorkFails, Store, Normalize, Finish,
                RecordFailure, Status
  <2>2. worker[w].job # j
    BY DEF JobInv, HeldNotComplete
  <2>3. QED
    BY <1>0, <2>1, <2>2, WriteStatusEffect
<1>2. ASSUME NEW k \in Jobs, Submit(k) PROVE meta'[j] = meta[j]
  BY <1>0, <1>2 DEF Submit, MetaIsSubmitted
<1>3. ASSUME NEW k \in Jobs, DeleteMetadata(k) PROVE meta'[j] = meta[j]
  BY <1>0, <1>3 DEF DeleteMetadata
<1>4. CASE ReapMetadata
  BY <1>0, <1>4 DEF ReapMetadata
<1>5. CASE UNCHANGED vars \/ Crash
           \/ \E k \in Jobs : DeleteObjects(k) \/ Expire(k) \/ ReapObjects(k) \/ Recover(k)
  BY <1>5 DEF vars, Crash, DeleteObjects, Expire, ReapObjects, Recover
<1>6. QED
  BY <1>1, <1>2, <1>3, <1>4, <1>5 DEF Next, Request

(* worker_count = 1.                                                       *)
OneWorker == \A v, w \in Workers : v = w

OneWorkerInv == SpoolInv /\ \A j \in Jobs : JobInv(j)

LEMMA OneWorkerInvariant == ASSUME OneWorker PROVE Spec => []OneWorkerInv
<1>1. Init => OneWorkerInv
  BY SpoolInit, JobInit DEF OneWorkerInv
<1>2. OneWorkerInv /\ [Next]_vars => OneWorkerInv'
  <2> SUFFICES ASSUME OneWorkerInv, [Next]_vars, NEW j \in Jobs PROVE JobInv(j)'
    BY SpoolStep DEF OneWorkerInv
  <2>1. Sole(j)
    BY DEF OneWorker, Sole
  <2>2. QED
    BY <2>1, JobStep DEF OneWorkerInv
<1>3. QED
  BY <1>1, <1>2, PTL DEF Spec

(* process_job_inner, with one worker: a job shown as complete that nobody *)
(* began to erase has its result on disk, of the announced length, with    *)
(* the announced markdown, whatever crashed or ran again.                  *)
THEOREM ResultsAreThere == ASSUME OneWorker PROVE Spec => []CompleteJobsHaveTheirResult
<1>1. OneWorkerInv => CompleteJobsHaveTheirResult
  BY DEF OneWorkerInv, JobInv, ResultIsStored, HasLength, CompleteJobsHaveTheirResult
<1>2. QED
  BY <1>1, OneWorkerInvariant, PTL

(* process_job_inner, with one worker: "complete" is the last status a     *)
(* client sees while the metadata file stays.                              *)
THEOREM CompleteStaysComplete == ASSUME OneWorker PROVE Spec => CompleteIsFinal
<1>1. OneWorkerInv /\ [Next]_vars =>
        \A j \in Jobs : Present(j) /\ meta[j].status = "complete" /\ meta'[j] # None
                          => meta'[j].status = "complete"
  BY CompleteStays DEF OneWorkerInv
<1>2. QED
  BY <1>1, OneWorkerInvariant, PTL DEF Spec, CompleteIsFinal


------------------------------------------------------------------------------
(* The storage quota, with one worker.                                     *)

(* The bytes of the results that the metadata of the jobs in S records.    *)
Bodies(S) == UNION { Bytes(j, meta[j].body_len) : j \in S }

(* What the worker holds between its quota check and the write that        *)
(* announces it still fits: nobody else has recorded a result meanwhile.   *)
Room(w) ==
    worker[w].pc \in {"normalizing", "finishing"} =>
        Cardinality(Bodies(Counted(ClientOf[worker[w].job]) \ {worker[w].job}))
            + worker[w].m.body_len <= MaxBytes

StorageInv == StorageQuota /\ \A w \in Workers : Room(w)

LEMMA BytesSize ==
    ASSUME NEW j, NEW n \in Nat
    PROVE  IsFiniteSet(Bytes(j, n)) /\ Cardinality(Bytes(j, n)) = n
<1>1. IsFiniteSet(1..n) /\ Cardinality(1..n) = n
  <2>1. /\ IsFiniteSet(1..n)
        /\ Cardinality(1..n) = IF 1 > n THEN 0 ELSE n - 1 + 1
    BY FS_Interval
  <2>2. QED
    BY <2>1
<1>2. IsFiniteSet({j}) /\ Cardinality({j}) = 1
  BY FS_Singleton
<1>3. /\ IsFiniteSet({j} \X (1..n))
      /\ Cardinality({j} \X (1..n)) = Cardinality({j}) * Cardinality(1..n)
  BY <1>1, <1>2, FS_Product
<1>4. 1 * n = n
  OBVIOUS
<1>5. QED
  BY <1>1, <1>2, <1>3, <1>4 DEF Bytes

LEMMA FiniteUnion ==
    ASSUME NEW S, IsFiniteSet(S), NEW f, \A j \in S : IsFiniteSet(f[j])
    PROVE  IsFiniteSet(UNION { f[j] : j \in S })
<1> DEFINE R == { f[j] : j \in S }
           g == [j \in S |-> f[j]]
<1>1. g \in Surjection(S, R)
  BY DEF Surjection
<1> HIDE DEF g
<1>2. IsFiniteSet(R)
  BY <1>1, FS_Surjection
<1>3. \A U \in R : IsFiniteSet(U)
  OBVIOUS
<1> HIDE DEF R
<1>4. IsFiniteSet(UNION R)
  BY <1>2, <1>3, FS_UNION
<1>5. QED
  BY <1>4 DEF R

LEMMA BodiesFinite ==
    ASSUME TypeOK, NEW S \in SUBSET Jobs, \A j \in S : Present(j)
    PROVE  IsFiniteSet(Bodies(S)) /\ Cardinality(Bodies(S)) \in Nat
<1> DEFINE f == [j \in Jobs |-> Bytes(j, meta[j].body_len)]
<1>1. IsFiniteSet(S)
  BY JobsAssumption, FS_Subset
<1>2. ASSUME NEW j \in S PROVE IsFiniteSet(f[j])
  <2>1. meta[j] \in Metadata
    BY DEF TypeOK, Present
  <2>2. meta[j].body_len \in Nat
    BY <2>1, MetaFields
  <2>3. QED
    BY <2>2, BytesSize
<1>3. Bodies(S) = UNION { f[j] : j \in S }
  BY DEF Bodies
<1> HIDE DEF f
<1>4. IsFiniteSet(Bodies(S))
  BY <1>1, <1>2, <1>3, FiniteUnion
<1>5. QED
  BY <1>4, FS_CardinalityType

(* The check reads all that is recorded, so it covers the results.         *)
LEMMA UsageCoversBodies ==
    ASSUME TypeOK, NEW c \in Clients
    PROVE  /\ UsedBytes(c) \in Nat
           /\ \A S \in SUBSET Counted(c) : Cardinality(Bodies(S)) <= UsedBytes(c)
<1> DEFINE f == [j \in Jobs |-> Bytes(j, Recorded(j))]
           U == UNION { Bytes(j, Recorded(j)) : j \in Counted(c) }
<1>0. Counted(c) \subseteq Jobs /\ IsFiniteSet(Counted(c))
  <2>1. Counted(c) \subseteq Jobs
    BY DEF Counted
  <2>2. QED
    BY <2>1, JobsAssumption, FS_Subset
<1>1. ASSUME NEW j \in Counted(c)
      PROVE  /\ meta[j].body_len \in Nat /\ Recorded(j) \in Nat
             /\ meta[j].body_len <= Recorded(j)
  <2>1. meta[j] \in Metadata
    BY DEF TypeOK, Counted, Present
  <2>2. meta[j].body_len \in Nat /\ meta[j].normalized_len \in Nat \cup {None}
    BY <2>1, MetaFields
  <2>3. QED
    BY <2>2 DEF Recorded
<1>2. ASSUME NEW j \in Counted(c) PROVE IsFiniteSet(f[j])
  BY <1>0, <1>1, BytesSize
<1>3. U = UNION { f[j] : j \in Counted(c) }
  BY <1>0
<1>4. IsFiniteSet(U) /\ Cardinality(U) \in Nat
  <2> HIDE DEF f
  <2>1. IsFiniteSet(U)
    BY <1>0, <1>2, <1>3, FiniteUnion
  <2>2. QED
    BY <2>1, FS_CardinalityType
<1>5. ASSUME NEW S \in SUBSET Counted(c) PROVE Cardinality(Bodies(S)) <= Cardinality(U)
  <2>1. ASSUME NEW j \in S PROVE Bytes(j, meta[j].body_len) \subseteq Bytes(j, Recorded(j))
    <3>1. 1..meta[j].body_len \subseteq 1..Recorded(j)
      BY <1>1
    <3>2. QED
      BY <3>1 DEF Bytes
  <2>2. Bodies(S) \subseteq U
    BY <2>1 DEF Bodies
  <2>3. QED
    BY <1>4, <2>2, FS_Subset
<1>6. UsedBytes(c) = Cardinality(U)
  BY DEF UsedBytes
<1>7. QED
  BY <1>4, <1>5, <1>6

(* A step that records no new result leaves the bytes of each client's     *)
(* jobs, those of the jobs in K left aside, where they were or fewer.      *)
LEMMA NoNewBytes ==
    ASSUME TypeOK, TypeOK', expired \subseteq expired',
           \A j \in Jobs : meta'[j] # None =>
              \/ meta'[j].body_len = 0
              \/ meta[j] # None /\ meta'[j].body_len = meta[j].body_len,
           NEW c \in Clients, NEW K
    PROVE  /\ Bodies(Counted(c) \ K)' \subseteq Bodies(Counted(c) \ K)
           /\ Cardinality(Bodies(Counted(c) \ K)') <= Cardinality(Bodies(Counted(c) \ K))
           /\ Cardinality(Bodies(Counted(c) \ K)') \in Nat
           /\ Cardinality(Bodies(Counted(c) \ K)) \in Nat
<1>1. ASSUME NEW u \in Bodies(Counted(c) \ K)' PROVE u \in Bodies(Counted(c) \ K)
  <2>1. PICK j \in (Counted(c) \ K)' : u \in Bytes(j, meta'[j].body_len)
    BY DEF Bodies
  <2>2. j \in Jobs /\ ClientOf[j] = c /\ meta'[j] # None /\ j \notin expired /\ j \notin K
    BY <2>1 DEF Counted, Present
  <2>3. meta'[j].body_len # 0
    BY <2>1 DEF Bytes
  <2>4. meta[j] # None /\ meta'[j].body_len = meta[j].body_len
    BY <2>2, <2>3
  <2>5. j \in Counted(c) \ K
    BY <2>2, <2>4 DEF Counted, Present
  <2>6. QED
    BY <2>1, <2>4, <2>5 DEF Bodies
<1>2. IsFiniteSet(Bodies(Counted(c) \ K)) /\ Cardinality(Bodies(Counted(c) \ K)) \in Nat
  <2>1. Counted(c) \ K \in SUBSET Jobs /\ \A j \in Counted(c) \ K : Present(j)
    BY DEF Counted
  <2>2. QED
    BY <2>1, BodiesFinite
<1>3. /\ IsFiniteSet(Bodies(Counted(c) \ K)')
      /\ Cardinality(Bodies(Counted(c) \ K)') <= Cardinality(Bodies(Counted(c) \ K))
  BY <1>1, <1>2, FS_Subset
<1>4. Cardinality(Bodies(Counted(c) \ K)') \in Nat
  BY <1>3, FS_CardinalityType
<1>5. QED
  BY <1>1, <1>2, <1>3, <1>4

(* Such a step keeps the quota, and the room of a worker that keeps job    *)
(* and result.                                                             *)
LEMMA StorageKept ==
    ASSUME TypeOK, TypeOK', StorageInv, expired \subseteq expired',
           \A j \in Jobs : meta'[j] # None =>
              \/ meta'[j].body_len = 0
              \/ meta[j] # None /\ meta'[j].body_len = meta[j].body_len
    PROVE  /\ StorageQuota'
           /\ \A w \in Workers :
                /\ worker[w].pc \in {"normalizing", "finishing"}
                /\ worker'[w].job = worker[w].job
                /\ worker'[w].m.body_len = worker[w].m.body_len
                => Room(w)'
<1>1. ASSUME NEW c \in Clients
      PROVE  Cardinality(Bodies(Counted(c))') <= MaxBytes
  <2>1. Counted(c) \ {} = Counted(c) /\ (Counted(c) \ {})' = Counted(c)'
    OBVIOUS
  <2>2. /\ Cardinality(Bodies(Counted(c))') <= Cardinality(Bodies(Counted(c)))
        /\ Cardinality(Bodies(Counted(c))') \in Nat
        /\ Cardinality(Bodies(Counted(c))) \in Nat
    BY <2>1, NoNewBytes
  <2>3. Cardinality(Bodies(Counted(c))) <= MaxBytes
    BY DEF StorageInv, StorageQuota, Bodies
  <2>4. QED
    BY <2>2, <2>3, QuotaAssumption
<1>2. ASSUME NEW w \in Workers, worker[w].pc \in {"normalizing", "finishing"},
             worker'[w].job = worker[w].job, worker'[w].m.body_len = worker[w].m.body_len
      PROVE  Room(w)'
  <2>k. PICK k \in Jobs : k = worker[w].job
    BY <1>2, WorkerFields
  <2>1. PICK c \in Clients : c = ClientOf[k]
    BY ClientOfAssumption
  <2>2. PICK b \in Nat : b = worker[w].m.body_len
    BY WorkerFields, MetaFields
  <2>3. /\ Cardinality(Bodies(Counted(c) \ {k})') <= Cardinality(Bodies(Counted(c) \ {k}))
        /\ Cardinality(Bodies(Counted(c) \ {k})') \in Nat
        /\ Cardinality(Bodies(Counted(c) \ {k})) \in Nat
    BY NoNewBytes
  <2>4. Cardinality(Bodies(Counted(c) \ {k})) + b <= MaxBytes
    BY <1>2, <2>k, <2>1, <2>2 DEF StorageInv, Room
  <2>5. Cardinality(Bodies(Counted(c) \ {k})') + b <= MaxBytes
    <3>1. PICK y \in Nat : y = Cardinality(Bodies(Counted(c) \ {k}))
      BY <2>3
    <3>2. PICK z \in Nat : z = Cardinality(Bodies(Counted(c) \ {k})')
      BY <2>3
    <3>3. z <= y /\ y + b <= MaxBytes
      BY <2>3, <2>4, <3>1, <3>2
    <3>4. z + b <= MaxBytes
      BY <3>3, QuotaAssumption
    <3>5. QED
      BY <3>2, <3>4
  <2>6. QED
    BY <1>2, <2>k, <2>1, <2>2, <2>5 DEF Room
<1>3. QED
  BY <1>1, <1>2 DEF StorageQuota, Bodies


(* Writing back a copy that announces no result records none.              *)
LEMMA BlankWrite ==
    ASSUME SpoolInv, NEW w \in Workers, worker[w].pc # "idle", JobInv(worker[w].job),
           worker[w].pc \notin {"normalizing", "finishing"},
           NEW s \in Status, WriteStatus(w, s)
    PROVE  \A j \in Jobs : meta'[j] # None =>
              \/ meta'[j].body_len = 0
              \/ meta[j] # None /\ meta'[j].body_len = meta[j].body_len
<1>0. TypeOK
  BY DEF SpoolInv
<1>1. worker[w].m.body_len = 0
  BY DEF JobInv, CopyIsFresh
<1>2. /\ meta'[worker[w].job].body_len = worker[w].m.body_len
      /\ \A j \in Jobs : j # worker[w].job => meta'[j] = meta[j]
  BY <1>0, WriteStatusEffect
<1>3. QED
  BY <1>1, <1>2

(* The check leaves room for the result, whatever the old metadata says.   *)
LEMMA StoreHasRoom ==
    ASSUME TypeOK, NEW w \in Workers, Store(w)
    PROVE  Room(w)'
<1>1. worker[w].pc = "storing" /\ UNCHANGED <<meta, expired>>
  BY DEF Store, historyVars
<1>2. ASSUME Failing(w) PROVE Room(w)'
  <2>1. worker'[w].pc \in {"failing", "idle"}
    BY <1>1, <1>2, FailingEffect, WorkerUpdate
  <2>2. QED
    BY <2>1 DEF Room
<1>k. PICK k \in Jobs : k = worker[w].job
  BY <1>1, WorkerFields
<1>c. PICK c \in Clients : c = ClientOf[k]
  BY ClientOfAssumption
<1>n. PICK n \in Nat : n = worker[w].size
  BY WorkerFields
<1>3. CASE UsedBytes(c) + n > MaxBytes
  <2>1. Failing(w)
    BY <1>3, <1>k, <1>c, <1>n DEF Store
  <2>2. QED
    BY <1>2, <2>1
<1>4. ASSUME ~(UsedBytes(c) + n > MaxBytes),
             NEW x \in WorkerState, worker' = [worker EXCEPT ![w] = x],
             x.job = k, x.m.body_len = n
      PROVE  Room(w)'
  <2>1. worker'[w].job = k /\ worker'[w].m.body_len = n
    BY <1>4, WorkerUpdate
  <2>2. UsedBytes(c) \in Nat /\ Cardinality(Bodies(Counted(c) \ {k})) <= UsedBytes(c)
    BY UsageCoversBodies
  <2>3. Bodies(Counted(c) \ {k})' = Bodies(Counted(c) \ {k})
    BY <1>1 DEF Bodies, Counted, Present
  <2>4. Cardinality(Bodies(Counted(c) \ {k})) \in Nat
    <3>1. Counted(c) \ {k} \in SUBSET Jobs /\ \A j \in Counted(c) \ {k} : Present(j)
      BY DEF Counted
    <3>2. QED
      BY <3>1, BodiesFinite
  <2>5. Cardinality(Bodies(Counted(c) \ {k})) + n <= MaxBytes
    BY <1>4, <2>2, <2>4, QuotaAssumption
  <2>6. QED
    BY <1>c, <2>1, <2>3, <2>5 DEF Room
<1>5. CASE ~(UsedBytes(c) + n > MaxBytes)
  <2>1. \/ Failing(w)
        \/ \E x \in WorkerState :
              /\ worker' = [worker EXCEPT ![w] = x]
              /\ x.job = k /\ x.m.body_len = n
    BY <1>k, <1>n, StoreEffect
  <2>2. QED
    BY <1>2, <1>4, <1>5, <2>1
<1>6. QED
  BY <1>3, <1>5

(* So the write that announces it keeps the quota.                         *)
LEMMA FinishKeepsQuota ==
    ASSUME TypeOK, TypeOK', StorageInv, NEW w \in Workers, Finish(w)
    PROVE  StorageQuota'
<1>1. /\ worker[w].pc \in {"normalizing", "finishing"} /\ WriteStatus(w, "complete")
      /\ expired' = expired
  BY DEF Finish, historyVars
<1>k. PICK k \in Jobs : k = worker[w].job
  BY <1>1, WorkerFields
<1>n. PICK n \in Nat : n = worker[w].m.body_len
  BY WorkerFields, MetaFields
<1>2. meta'[k] # None /\ meta'[k].body_len = n /\ \A j \in Jobs : j # k => meta'[j] = meta[j]
  BY <1>1, <1>k, <1>n, WriteStatusEffect DEF Status
<1>3. SUFFICES ASSUME NEW c \in Clients PROVE Cardinality(Bodies(Counted(c))') <= MaxBytes
  BY DEF StorageQuota, Bodies
<1> DEFINE rest == Bodies(Counted(c) \ {k})
<1>4. IsFiniteSet(rest) /\ Cardinality(rest) \in Nat
  <2>1. Counted(c) \ {k} \in SUBSET Jobs /\ \A j \in Counted(c) \ {k} : Present(j)
    BY DEF Counted
  <2>2. QED
    BY <2>1, BodiesFinite
<1>5. ASSUME NEW j \in Counted(c)', j # k PROVE j \in Counted(c) \ {k} /\ meta'[j] = meta[j]
  BY <1>1, <1>2, <1>5 DEF Counted, Present
<1>6. CASE c # ClientOf[k]
  <2>1. k \notin Counted(c)'
    BY <1>6 DEF Counted
  <2>2. Bodies(Counted(c))' \subseteq Bodies(Counted(c))
    BY <1>5, <2>1 DEF Bodies
  <2>3. IsFiniteSet(Bodies(Counted(c))) /\ Cardinality(Bodies(Counted(c))) \in Nat
    <3>1. Counted(c) \in SUBSET Jobs /\ \A j \in Counted(c) : Present(j)
      BY DEF Counted
    <3>2. QED
      BY <3>1, BodiesFinite
  <2>4. /\ IsFiniteSet(Bodies(Counted(c))')
        /\ Cardinality(Bodies(Counted(c))') <= Cardinality(Bodies(Counted(c)))
    BY <2>2, <2>3, FS_Subset
  <2>5. Cardinality(Bodies(Counted(c))') \in Nat
    BY <2>4, FS_CardinalityType
  <2>6. Cardinality(Bodies(Counted(c))) <= MaxBytes
    BY DEF StorageInv, StorageQuota, Bodies
  <2>7. QED
    BY <2>3, <2>4, <2>5, <2>6, QuotaAssumption
<1>7. CASE c = ClientOf[k]
  <2>1. Bodies(Counted(c))' \subseteq rest \cup Bytes(k, n)
    BY <1>2, <1>5 DEF Bodies
  <2>2. IsFiniteSet(Bytes(k, n)) /\ Cardinality(Bytes(k, n)) = n
    BY BytesSize
  <2>3. Cardinality(rest) + n <= MaxBytes
    BY <1>1, <1>k, <1>n, <1>7 DEF StorageInv, Room
  <2> HIDE DEF rest
  <2>4. /\ IsFiniteSet(rest \cup Bytes(k, n))
        /\ Cardinality(rest \cup Bytes(k, n)) =
             Cardinality(rest) + Cardinality(Bytes(k, n)) - Cardinality(rest \cap Bytes(k, n))
    BY <1>4, <2>2, FS_Union
  <2>5. IsFiniteSet(rest \cap Bytes(k, n)) /\ Cardinality(rest \cap Bytes(k, n)) \in Nat
    <3>1. IsFiniteSet(rest \cap Bytes(k, n))
      BY <1>4, FS_Intersection
    <3>2. QED
      BY <3>1, FS_CardinalityType
  <2>6. /\ IsFiniteSet(Bodies(Counted(c))')
        /\ Cardinality(Bodies(Counted(c))') <= Cardinality(rest \cup Bytes(k, n))
    BY <2>1, <2>4, FS_Subset
  <2>7. Cardinality(Bodies(Counted(c))') \in Nat
    BY <2>6, FS_CardinalityType
  <2>8. PICK y \in Nat : y = Cardinality(rest)
    BY <1>4
  <2>9. PICK z \in Nat : z = Cardinality(rest \cap Bytes(k, n))
    BY <2>5
  <2>10. Cardinality(rest \cup Bytes(k, n)) = y + n - z /\ y + n <= MaxBytes
    BY <2>2, <2>3, <2>4, <2>8, <2>9
  <2>11. QED
    BY <2>6, <2>7, <2>10, QuotaAssumption
<1>8. QED
  BY <1>6, <1>7

LEMMA StorageByWork ==
    ASSUME OneWorkerInv, OneWorker, TypeOK', StorageInv, NEW w \in Workers, Work(w)
    PROVE  StorageInv'
<1> USE DEF spoolVars, eraseVars, historyVars
<1>0. TypeOK /\ SpoolInv
  BY DEF OneWorkerInv, SpoolInv
<1>1. SUFFICES StorageQuota' /\ Room(w)'
  BY DEF StorageInv, OneWorker
<1>2. expired' = expired
  BY DEF Work, Take, MarkRunning, Fetch, WorkFails, Store, Normalize, Finish, RecordFailure
<1>3. ASSUME worker'[w].pc \notin {"normalizing", "finishing"} PROVE Room(w)'
  BY <1>3 DEF Room
<1>4. ASSUME meta' = meta PROVE StorageQuota'
  BY <1>0, <1>2, <1>4, StorageKept
<1>5. ASSUME worker[w].pc \in {"marking", "failing"}, NEW s \in Status, WriteStatus(w, s)
      PROVE  StorageQuota'
  <2>1. worker[w].job \in Jobs
    BY <1>0, <1>5, WorkerFields
  <2>2. JobInv(worker[w].job)
    BY <2>1 DEF OneWorkerInv
  <2>3. \A j \in Jobs : meta'[j] # None =>
            \/ meta'[j].body_len = 0
            \/ meta[j] # None /\ meta'[j].body_len = meta[j].body_len
    BY <1>0, <1>5, <2>2, BlankWrite
  <2>4. QED
    BY <1>0, <1>2, <2>3, StorageKept
<1>6. CASE Take(w)
  <2>1. worker'[w].pc \in {"marking", "idle"}
    BY <1>0, <1>6, TakeEffect, WorkerUpdate
  <2>2. QED
    BY <1>3, <1>4, <1>6, <2>1 DEF Take
<1>7. CASE MarkRunning(w)
  <2>1. worker'[w].pc = "fetching" /\ worker[w].pc = "marking" /\ WriteStatus(w, "running")
    BY <1>0, <1>7, MarkRunningEffect, WorkerUpdate
  <2>2. QED
    BY <1>3, <1>5, <2>1 DEF Status
<1>8. ASSUME NEW n \in Sizes, Fetch(w, n) PROVE StorageQuota' /\ Room(w)'
  <2>1. worker'[w].pc = "storing"
    BY <1>0, <1>8, FetchEffect, WorkerUpdate
  <2>2. QED
    BY <1>3, <1>4, <1>8, <2>1 DEF Fetch
<1>9. CASE WorkFails(w)
  <2>1. worker'[w].pc \in {"failing", "idle"}
    BY <1>0, <1>9, FailingEffect, WorkerUpdate DEF WorkFails
  <2>2. QED
    BY <1>3, <1>4, <1>9, <2>1 DEF WorkFails
<1>10. CASE Store(w)
  BY <1>0, <1>4, <1>10, StoreHasRoom DEF Store
<1>11. ASSUME NEW n \in NormSizes, Normalize(w, n) PROVE StorageQuota' /\ Room(w)'
  <2>1. /\ worker[w].pc = "normalizing" /\ worker'[w].job = worker[w].job
        /\ worker'[w].m.body_len = worker[w].m.body_len
    BY <1>0, <1>11, NormalizeEffect, WorkerUpdate
  <2>2. meta' = meta
    BY <1>11 DEF Normalize
  <2>3. QED
    BY <1>0, <1>2, <2>1, <2>2, StorageKept
<1>12. CASE Finish(w)
  <2>1. worker'[w].pc = "idle"
    BY <1>0, <1>12, IdleType, WorkerUpdate DEF Finish
  <2>2. QED
    BY <1>0, <1>3, <1>12, <2>1, FinishKeepsQuota
<1>13. CASE RecordFailure(w)
  <2>1. worker'[w].pc = "idle" /\ worker[w].pc = "failing" /\ WriteStatus(w, "failed")
    BY <1>0, <1>13, IdleType, WorkerUpdate DEF RecordFailure
  <2>2. QED
    BY <1>3, <1>5, <2>1 DEF Status
<1>14. QED
  BY <1>6, <1>7, <1>8, <1>9, <1>10, <1>11, <1>12, <1>13 DEF Work

LEMMA StorageByRest ==
    ASSUME SpoolInv, TypeOK', StorageInv,
           UNCHANGED vars \/ ReapMetadata \/ Crash
           \/ \E k \in Jobs : Request(k) \/ Expire(k) \/ ReapObjects(k) \/ Recover(k)
    PROVE  StorageInv'
<1> USE DEF spoolVars, eraseVars, historyVars
<1>0. TypeOK /\ meta \in [Jobs -> Metadata \cup {None}] /\ NewMeta.body_len = 0
  BY DEF SpoolInv, TypeOK, NewMeta
<1>1. expired \subseteq expired'
  BY DEF vars, ReapMetadata, Crash, Request, Submit, DeleteObjects, DeleteMetadata, Expire,
         ReapObjects, Recover
<1>2. \A j \in Jobs : meta'[j] = meta[j] \/ meta'[j] = None \/ meta'[j] = NewMeta
  BY <1>0 DEF vars, ReapMetadata, Crash, Request, Submit, DeleteObjects, DeleteMetadata,
              Expire, ReapObjects, Recover
<1>3. \A j \in Jobs : meta'[j] # None =>
          \/ meta'[j].body_len = 0
          \/ meta[j] # None /\ meta'[j].body_len = meta[j].body_len
  BY <1>0, <1>2
<1>4. worker' = worker \/ worker' = [w \in Workers |-> Idle]
  BY DEF vars, ReapMetadata, Crash, Request, Submit, DeleteObjects, DeleteMetadata, Expire,
         ReapObjects, Recover
<1>5. ASSUME NEW w \in Workers PROVE Room(w)'
  <2>1. CASE worker' = worker /\ worker[w].pc \in {"normalizing", "finishing"}
    BY <1>0, <1>1, <1>3, <2>1, StorageKept
  <2>2. CASE worker' = worker /\ worker[w].pc \notin {"normalizing", "finishing"}
    BY <2>2 DEF Room
  <2>3. CASE worker' = [v \in Workers |-> Idle]
    BY <2>3, IdleType DEF Room
  <2>4. QED
    BY <1>4, <2>1, <2>2, <2>3
<1>6. QED
  BY <1>0, <1>1, <1>3, <1>5, StorageKept DEF StorageInv

(* process_job_inner, with one worker: the results a client's unexpired    *)
(* jobs record never exceed max_bytes_per_client, although the check and   *)
(* the write that records a result are steps apart, with requests, the     *)
(* reaper and crashes between them.                                        *)
THEOREM StorageQuotaHolds == ASSUME OneWorker PROVE Spec => []StorageQuota
<1>1. Init => StorageInv
  <2>1. SUFFICES ASSUME Init PROVE StorageInv
    OBVIOUS
  <2>2. \A c \in Clients : Counted(c) = {}
    BY <2>1 DEF Init, Counted, Present
  <2>3. StorageQuota
    <3>1. \A c \in Clients : UNION { Bytes(j, meta[j].body_len) : j \in Counted(c) } = {}
      BY <2>2
    <3>2. QED
      BY <3>1, FS_EmptySet, QuotaAssumption DEF StorageQuota
  <2>4. \A w \in Workers : Room(w)
    BY <2>1, IdleType DEF Init, Room
  <2>5. QED
    BY <2>3, <2>4 DEF StorageInv
<1>2. OneWorkerInv /\ StorageInv /\ [Next]_vars => StorageInv'
  <2>1. SUFFICES ASSUME OneWorkerInv, StorageInv, [Next]_vars PROVE StorageInv'
    OBVIOUS
  <2>2. SpoolInv /\ TypeOK'
    BY <2>1, SpoolStep DEF OneWorkerInv, SpoolInv
  <2>3. QED
    BY <2>1, <2>2, StorageByWork, StorageByRest DEF Next
<1>3. StorageInv => StorageQuota
  BY DEF StorageInv
<1>4. QED
  BY <1>1, <1>2, <1>3, OneWorkerInvariant, PTL DEF Spec
==============================================================================
