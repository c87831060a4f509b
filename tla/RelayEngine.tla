----------------------------- MODULE RelayEngine -----------------------------
(***************************************************************************)
(* The Ghost Relay job engine (src/ghostbro-server/src/relay.rs): requests *)
(* of the clients queue jobs, a pool of workers fetches, stores and        *)
(* finishes them, a reaper removes expired jobs, and a scan at startup     *)
(* queues again what a crash interrupted.  All of them share the spool     *)
(* directory; no lock covers a job's metadata file.                        *)
(*                                                                         *)
(* A job id is used once.  A result is its length.  The clock is reduced   *)
(* to the set of jobs whose expires_at_ms it has passed.  write_metadata   *)
(* replaces a file by a rename, so a metadata write is one step.  The      *)
(* per-client quota lock is held from a usage read to the write that ends  *)
(* the critical section, with no await between, and a usage read sees only *)
(* metadata: each critical section is one step.                            *)
(***************************************************************************)
EXTENDS Naturals, Sequences, FiniteSets

CONSTANTS
    Jobs,           \* job ids (relay_job_id)
    Clients,        \* key ids with a spool directory
    ClientOf,       \* the client whose directory a job id belongs to
    Workers,        \* worker_count tasks
    Sizes,          \* lengths of fetched results, all within max_object_len
    NormSizes,      \* lengths of normalised documents
    MaxJobs,        \* max_jobs_per_client
    MaxBytes,       \* max_bytes_per_client
    MaxCrashes,     \* bound on the crashes of a behaviour
    None            \* model value: no such file

Status == {"queued", "running", "complete", "failed"}

\* RelayJobMetadata, without what no decision of the engine reads.
Metadata == [status: Status, body_len: Nat, normalized_len: Nat \cup {None}]

WorkerPcs == {"idle", "marking", "fetching", "storing", "normalizing",
              "finishing", "failing"}

ASSUME ClientOfAssumption == ClientOf \in [Jobs -> Clients]
ASSUME JobsAssumption == IsFiniteSet(Jobs)
ASSUME SizesAssumption == Sizes \subseteq Nat /\ NormSizes \subseteq Nat
ASSUME QuotaAssumption == MaxJobs \in Nat /\ MaxBytes \in Nat
ASSUME MaxCrashesAssumption == MaxCrashes \in Nat
ASSUME NoneAssumption == None \notin Metadata /\ None \notin Nat /\ None \notin Jobs

VARIABLES
    meta,           \* jobs/<id>.toml
    obj,            \* objects/<id>.body: length of the stored result
    norm,           \* objects/<id>.md: length of the normalised document
    queue,          \* the unbounded channel of JobRefs
    worker,         \* per worker: where process_job is and its local variables
    scan,           \* jobs recover_pending has not come to yet
    deleting,       \* delete requests between the object and the metadata files
    reaping,        \* the job reap_expired is removing, or None
    submitted,      \* job ids already given out
    expired,        \* jobs whose TTL has run out
    fate,           \* what erasure did to a job so far (history)
    crashes         \* crashes so far

vars == <<meta, obj, norm, queue, worker, scan, deleting, reaping, submitted,
          expired, fate, crashes>>

spoolVars == <<meta, obj, norm>>
eraseVars == <<deleting, reaping, fate>>
historyVars == <<submitted, expired, crashes>>

NewMeta == [status |-> "queued", body_len |-> 0, normalized_len |-> None]

\* A worker that holds no job, and one that has just read metadata m of job j.
Idle == [pc |-> "idle", job |-> None, m |-> NewMeta, size |-> 0]
Holding(j, p, m) == [pc |-> p, job |-> j, m |-> m, size |-> 0]

Present(j) == meta[j] # None

(***************************************************************************)
(* client_usage: the jobs of a client that have not expired, and the bytes *)
(* their metadata records.  A sum of lengths is the size of the set of the *)
(* bytes, each a pair of its job and its position.                         *)
(***************************************************************************)
Counted(c) == { j \in Jobs : ClientOf[j] = c /\ Present(j) /\ j \notin expired }

Recorded(j) == meta[j].body_len
               + IF meta[j].normalized_len = None THEN 0 ELSE meta[j].normalized_len

Bytes(j, len) == {j} \X (1..len)

UsedBytes(c) == Cardinality(UNION { Bytes(j, Recorded(j)) : j \in Counted(c) })

(***************************************************************************)
(* Requests of the clients.  list and download only read.                  *)
(***************************************************************************)
MutSubmit(j) ==             \* mutant: the job quota admits one too many
    /\ j \notin submitted
    /\ Cardinality(Counted(ClientOf[j])) <= MaxJobs
    /\ UsedBytes(ClientOf[j]) < MaxBytes
    /\ submitted' = submitted \cup {j}
    /\ meta' = [meta EXCEPT ![j] = NewMeta]
    /\ queue' = Append(queue, j)
    /\ UNCHANGED <<obj, norm, worker, scan, eraseVars, expired, crashes>>

Submit(j) ==
    /\ j \notin submitted
    /\ Cardinality(Counted(ClientOf[j])) < MaxJobs
    /\ UsedBytes(ClientOf[j]) < MaxBytes
    /\ submitted' = submitted \cup {j}
    /\ meta' = [meta EXCEPT ![j] = NewMeta]
    /\ queue' = Append(queue, j)
    /\ UNCHANGED <<obj, norm, worker, scan, eraseVars, expired, crashes>>

\* Object files go first, whatever the state of the job.
RemoveObjects(j) ==
    /\ obj' = [obj EXCEPT ![j] = None]
    /\ norm' = [norm EXCEPT ![j] = None]
    /\ fate' = [fate EXCEPT ![j] = IF @ = "kept" THEN "erasing" ELSE @]

DeleteObjects(j) ==
    /\ Present(j)
    /\ deleting' = deleting \cup {j}
    /\ RemoveObjects(j)
    /\ UNCHANGED <<meta, queue, worker, scan, reaping, historyVars>>

\* The answer is "deleted" when the metadata file was still there to remove.
DeleteMetadata(j) ==
    /\ j \in deleting
    /\ deleting' = deleting \ {j}
    /\ meta' = [meta EXCEPT ![j] = None]
    /\ fate' = [fate EXCEPT ![j] = IF Present(j) THEN "deleted" ELSE @]
    /\ UNCHANGED <<obj, norm, queue, worker, scan, reaping, historyVars>>

(***************************************************************************)
(* process_job.  A worker keeps the metadata it read when it took the job  *)
(* and writes that copy back, changed, at every later write.               *)
(***************************************************************************)
MutTake(w) ==               \* mutant: a finished job is run again
    LET j == Head(queue) IN
    /\ worker[w].pc = "idle"
    /\ queue # <<>>
    /\ queue' = Tail(queue)
    /\ worker' = [worker EXCEPT ![w] =
           IF Present(j)
           THEN Holding(j, "marking", meta[j])
           ELSE @]
    /\ UNCHANGED <<spoolVars, scan, eraseVars, historyVars>>

\* read_metadata is taken to fail only when the file is absent.  A present file
\* that cannot be read would drop the job here, silently, and lies outside the
\* model with the other faults of the disk.
Take(w) ==
    LET j == Head(queue) IN
    /\ worker[w].pc = "idle"
    /\ queue # <<>>
    /\ queue' = Tail(queue)
    /\ worker' = [worker EXCEPT ![w] =
           IF Present(j) /\ meta[j].status # "complete"
           THEN Holding(j, "marking", meta[j])
           ELSE @]
    /\ UNCHANGED <<spoolVars, scan, eraseVars, historyVars>>

\* The metadata file is replaced by the worker's copy with a new status, in one
\* step: fs::write of <id>.toml.tmp and the rename.  Two workers that run one job
\* at a time share that temporary name and could tear it; the model has them
\* overwrite each other's records, whole.
WriteStatus(w, s) ==
    meta' = [meta EXCEPT ![worker[w].job] = [worker[w].m EXCEPT !.status = s]]

MarkRunning(w) ==
    /\ worker[w].pc = "marking"
    /\ WriteStatus(w, "running")
    /\ worker' = [worker EXCEPT ![w].pc = "fetching", ![w].m.status = "running"]
    /\ UNCHANGED <<obj, norm, queue, scan, eraseVars, historyVars>>

MutFetch(w, size) ==        \* mutant: shown as complete before the object is written
    /\ worker[w].pc = "fetching"
    /\ WriteStatus(w, "complete")
    /\ worker' = [worker EXCEPT ![w].pc = "storing", ![w].size = size]
    /\ UNCHANGED <<obj, norm, queue, scan, eraseVars, historyVars>>

\* run_web_fetch, run_git_mirror or run_package produced a result in time.
Fetch(w, size) ==
    /\ worker[w].pc = "fetching"
    /\ worker' = [worker EXCEPT ![w].pc = "storing", ![w].size = size]
    /\ UNCHANGED <<spoolVars, queue, scan, eraseVars, historyVars>>

MutFailing(w) ==            \* mutant: the second read is taken to succeed
    worker' = [worker EXCEPT ![w] = Holding(@.job, "failing", meta[@.job])]

\* An error reads the metadata again; a job without a file is dropped.
Failing(w) ==
    worker' = [worker EXCEPT ![w] =
        IF Present(@.job) THEN Holding(@.job, "failing", meta[@.job]) ELSE Idle]

\* A timeout, a refused source, an oversized result or an I/O error.
WorkFails(w) ==
    /\ worker[w].pc \in {"marking", "fetching", "storing", "normalizing", "finishing"}
    /\ Failing(w)
    /\ UNCHANGED <<spoolVars, queue, scan, eraseVars, historyVars>>

MutStore(w) ==              \* mutant: the storage quota is not checked
    LET j == worker[w].job
        n == worker[w].size IN
    /\ worker[w].pc = "storing"
    /\ obj' = [obj EXCEPT ![j] = n]
    /\ worker' = [worker EXCEPT ![w].pc = "normalizing", ![w].m.body_len = n]
    /\ UNCHANGED <<meta, norm, queue, scan, eraseVars, historyVars>>

\* The critical section of the quota lock: usage read, check, object write.
Store(w) ==
    LET j == worker[w].job
        n == worker[w].size IN
    /\ worker[w].pc = "storing"
    /\ IF UsedBytes(ClientOf[j]) + n > MaxBytes
       THEN Failing(w) /\ UNCHANGED obj
       ELSE /\ obj' = [obj EXCEPT ![j] = n]
            /\ worker' = [worker EXCEPT ![w].pc = "normalizing", ![w].m.body_len = n]
    /\ UNCHANGED <<meta, norm, queue, scan, eraseVars, historyVars>>

\* A web page is also stored as markdown, outside the lock and unchecked.
Normalize(w, n) ==
    /\ worker[w].pc = "normalizing"
    /\ norm' = [norm EXCEPT ![worker[w].job] = n]
    /\ worker' = [worker EXCEPT ![w].pc = "finishing", ![w].m.normalized_len = n]
    /\ UNCHANGED <<meta, obj, queue, scan, eraseVars, historyVars>>

\* A job that is not a page to normalise finishes at once.
Finish(w) ==
    /\ worker[w].pc \in {"normalizing", "finishing"}
    /\ WriteStatus(w, "complete")
    /\ worker' = [worker EXCEPT ![w] = Idle]
    /\ UNCHANGED <<obj, norm, queue, scan, eraseVars, historyVars>>

RecordFailure(w) ==
    /\ worker[w].pc = "failing"
    /\ WriteStatus(w, "failed")
    /\ worker' = [worker EXCEPT ![w] = Idle]
    /\ UNCHANGED <<obj, norm, queue, scan, eraseVars, historyVars>>

(***************************************************************************)
(* Maintenance: the TTL, the reaper, a crash and the scan after it.        *)
(***************************************************************************)
Expire(j) ==
    /\ j \in submitted \ expired
    /\ expired' = expired \cup {j}
    /\ UNCHANGED <<spoolVars, queue, worker, scan, eraseVars, submitted, crashes>>

ReapObjects(j) ==
    /\ reaping = None
    /\ Present(j)
    /\ j \in expired
    /\ reaping' = j
    /\ RemoveObjects(j)
    /\ UNCHANGED <<meta, queue, worker, scan, deleting, historyVars>>

ReapMetadata ==
    /\ reaping # None
    /\ meta' = [meta EXCEPT ![reaping] = None]
    /\ reaping' = None
    /\ UNCHANGED <<obj, norm, queue, worker, scan, deleting, fate, historyVars>>

\* The process dies and start() runs again: queue, workers and requests are
\* gone, the spool directory is what it was.
Crash ==
    /\ crashes < MaxCrashes
    /\ crashes' = crashes + 1
    /\ queue' = <<>>
    /\ worker' = [w \in Workers |-> Idle]
    /\ scan' = Jobs
    /\ deleting' = {}
    /\ reaping' = None
    /\ UNCHANGED <<spoolVars, submitted, expired, fate>>

MutRecover(j) ==            \* mutant: a job caught in "running" is not queued again
    /\ j \in scan
    /\ scan' = scan \ {j}
    /\ queue' = IF Present(j) /\ meta[j].status = "queued" THEN Append(queue, j) ELSE queue
    /\ UNCHANGED <<spoolVars, worker, eraseVars, historyVars>>

\* recover_pending comes to one directory entry, in any order, while clients
\* and workers are already active.  It never aborts: an entry or a directory
\* that cannot be read would end the scan or skip the job.
Recover(j) ==
    /\ j \in scan
    /\ scan' = scan \ {j}
    /\ queue' = IF Present(j) /\ meta[j].status \in {"queued", "running"}
                THEN Append(queue, j) ELSE queue
    /\ UNCHANGED <<spoolVars, worker, eraseVars, historyVars>>

(***************************************************************************)
(* The specification.                                                      *)
(***************************************************************************)
Init ==
    /\ meta = [j \in Jobs |-> None]
    /\ obj = [j \in Jobs |-> None]
    /\ norm = [j \in Jobs |-> None]
    /\ queue = <<>>
    /\ worker = [w \in Workers |-> Idle]
    /\ scan = Jobs
    /\ deleting = {}
    /\ reaping = None
    /\ submitted = {}
    /\ expired = {}
    /\ fate = [j \in Jobs |-> "kept"]
    /\ crashes = 0

Work(w) ==
    \/ Take(w)
    \/ MarkRunning(w)
    \/ \E size \in Sizes : Fetch(w, size)
    \/ WorkFails(w)
    \/ Store(w)
    \/ \E n \in NormSizes : Normalize(w, n)
    \/ Finish(w)
    \/ RecordFailure(w)

Request(j) == Submit(j) \/ DeleteObjects(j) \/ DeleteMetadata(j)

Next ==
    \/ \E j \in Jobs : Request(j) \/ Expire(j) \/ ReapObjects(j) \/ Recover(j)
    \/ \E w \in Workers : Work(w)
    \/ ReapMetadata
    \/ Crash

Spec == Init /\ [][Next]_vars

(***************************************************************************)
(* Properties.                                                             *)
(***************************************************************************)

(* Types of the spool, the queue and the workers' locals: a worker past    *)
(* Take always holds a job that was submitted (relay.rs, process_job).     *)
TypeOK ==
    /\ meta \in [Jobs -> Metadata \cup {None}]
    /\ obj \in [Jobs -> Nat \cup {None}]
    /\ norm \in [Jobs -> Nat \cup {None}]
    /\ queue \in Seq(Jobs)
    /\ worker \in [Workers -> [pc: WorkerPcs, job: Jobs \cup {None},
                              m: Metadata, size: Nat]]
    /\ \A w \in Workers : worker[w].pc # "idle" => worker[w].job \in submitted
    /\ scan \subseteq Jobs
    /\ deleting \subseteq submitted
    /\ reaping \in submitted \cup {None}
    /\ submitted \subseteq Jobs
    /\ expired \subseteq submitted
    /\ fate \in [Jobs -> {"kept", "erasing", "deleted"}]
    /\ crashes \in 0..MaxCrashes

(* enqueue: a client never has more unexpired jobs than max_jobs_per_client *)
(* allows, jobs it deleted itself left aside.                               *)
JobQuotaForKeptJobs ==
    \A c \in Clients :
        Cardinality({ j \in Counted(c) : fate[j] # "deleted" }) <= MaxJobs

(* process_job_inner: a job shown as complete has its result on disk, of    *)
(* the length its metadata states, with the markdown that was announced,    *)
(* whatever crashed or ran again, as long as nobody began to erase it.      *)
CompleteJobsHaveTheirResult ==
    \A j \in Jobs :
        Present(j) /\ meta[j].status = "complete" /\ fate[j] = "kept" =>
            /\ obj[j] = meta[j].body_len
            /\ meta[j].normalized_len # None => norm[j] = meta[j].normalized_len

(* process_job_inner: the results a client's unexpired jobs record never    *)
(* exceed max_bytes_per_client (the markdown, which no check covers, left   *)
(* aside).                                                                  *)
StorageQuota ==
    \A c \in Clients :
        Cardinality(UNION { Bytes(j, meta[j].body_len) : j \in Counted(c) }) <= MaxBytes

(* process_job_inner: a job shown as complete is never shown as anything    *)
(* else again while its metadata file stays, so a client that saw           *)
(* "complete" can download.                                                 *)
CompleteIsFinal ==
    [][\A j \in Jobs :
          Present(j) /\ meta[j].status = "complete" /\ meta'[j] # None
              => meta'[j].status = "complete"]_vars

(* enqueue, process_job and recover_pending: a job its client is told is    *)
(* queued or running is in the channel, still ahead of the recovery scan,   *)
(* or in the hands of a worker, after any crash, delete and second run;     *)
(* otherwise nobody would ever come back to it.                             *)
NoJobIsForgotten ==
    \A j \in Jobs :
        Present(j) /\ meta[j].status \in {"queued", "running"} =>
            \/ \E i \in 1..Len(queue) : queue[i] = j
            \/ j \in scan
            \/ \E w \in Workers : worker[w].job = j

(* process_job and recover_pending: a job that was accepted ends complete,  *)
(* failed or removed, whatever crashes come between.                        *)
JobsFinish ==
    \A j \in Jobs :
        Present(j) /\ meta[j].status \in {"queued", "running"}
            ~> (Present(j) => meta[j].status \in {"complete", "failed"})
==============================================================================
