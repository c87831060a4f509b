------------------------- MODULE RelayDownloadProofs -------------------------
(***************************************************************************)
(* Proofs about RelayDownload for every set of jobs, workers and readers,  *)
(* every quota and chunk length and any number of crashes: what the client *)
(* puts together from its chunks is one stored result, unless two workers  *)
(* ran the job at once.  The proof rests on the step lemmas of             *)
(* RelayEngineProofs, job by job: whatever holds of a job while one worker *)
(* at most has it holds here of every job that was never contended.        *)
(***************************************************************************)
EXTENDS RelayDownload, RelayEngineProofs

(* Nobody will write the files of j again: it is out of the workers' hands *)
(* and complete, or erased.                                                *)
Settled(j) ==
    /\ j \in submitted
    /\ \A w \in Workers : worker[w].job # j
    /\ Present(j) => meta[j].status = "complete"

(* A file that is there was written at least once.                         *)
StoredWasWritten ==
    \A j \in Jobs, a \in Artifacts : Stored(j, a) # None => version[j][a] >= 1

(* Jobs that were never contended obey the invariant of RelayEngineProofs. *)
UncontendedFit == \A j \in Jobs \ contended : Sole(j) /\ JobInv(j)

(* What a relay_download in state x has so far is a beginning of the current version of *)
(* the file, which is still there with the announced length or erased for  *)
(* good.                                                                   *)
BodyIsPrefix(x) ==
    LET j == x.job
        a == x.artifact IN
    /\ x.pc # "asking" \/ x.body # <<>> =>
          /\ Settled(j)
          /\ Present(j) => Announced(j, a) = x.announced
          /\ Stored(j, a) \in {x.announced, None}
    /\ Len(x.body) <= x.announced
    /\ \A i \in 1..Len(x.body) : x.body[i] = <<version[j][a], i>>
    /\ x.pc = "done" => Len(x.body) = x.announced /\ version[j][a] >= 1

Active(r) == dl[r].pc \in {"asking", "reading", "done"}

ReadersFit ==
    \A r \in Readers : Active(r) /\ dl[r].job \notin contended => BodyIsPrefix(dl[r])

DownloadInv ==
    /\ SpoolInv
    /\ DownloadTypeOK
    /\ StoredWasWritten
    /\ UncontendedFit
    /\ ReadersFit

------------------------------------------------------------------------------
(* The operators of download.                                              *)

LEMMA MinOfTwo ==
    ASSUME NEW m \in Nat, NEW n \in Nat
    PROVE  Min({m, n}) = IF m <= n THEN m ELSE n
BY DEF Min

ReaderState == [pc: {"idle", "asking", "reading", "done", "failed"},
                job: Jobs \cup {None}, artifact: Artifacts,
                announced: Nat, body: Seq(Nat \X Nat)]

LEMMA BlankType ==
    ASSUME NEW p \in {"idle", "asking", "failed"}
    PROVE  /\ Blank(p) \in ReaderState
           /\ Blank(p).pc = p
           /\ Blank(p).body = <<>>
           /\ Blank(p).announced = 0
BY DEF Blank, ReaderState, Artifacts

LEMMA ReaderFields ==
    ASSUME DownloadTypeOK, NEW r \in Readers
    PROVE  /\ dl[r] \in ReaderState
           /\ dl[r].artifact \in Artifacts
           /\ dl[r].announced \in Nat
           /\ dl[r].body \in Seq(Nat \X Nat)
           /\ Len(dl[r].body) \in Nat
           /\ Active(r) => dl[r].job \in Jobs
BY DEF DownloadTypeOK, ReaderState, Active

LEMMA StoredType ==
    ASSUME SpoolInv, NEW j \in Jobs, NEW a \in Artifacts
    PROVE  Stored(j, a) \in Nat \cup {None}
BY DEF SpoolInv, TypeOK, Stored

LEMMA AnnouncedType ==
    ASSUME SpoolInv, NEW j \in Jobs, NEW a \in Artifacts, Ready(j, a)
    PROVE  Announced(j, a) \in Nat
<1>1. meta[j] \in Metadata
  BY DEF SpoolInv, TypeOK, Ready, Present
<1>2. QED
  BY <1>1, MetaFields DEF Ready, Announced

(* The chunk of a reply starts where the client's body ends and is at most *)
(* Chunk long; the reply is terminal when it reaches the end of the file.  *)
LEMMA ReplyShape ==
    ASSUME SpoolInv, DownloadTypeOK, NEW j \in Jobs, NEW a \in Artifacts, NEW k \in Nat,
           Stored(j, a) # None
    PROVE  LET total == Stored(j, a)
               start == IF k <= total THEN k ELSE total
               end == IF start + Chunk <= total THEN start + Chunk ELSE total
               reply == Reply(j, a, k)
           IN /\ reply.total = total
              /\ reply.terminal <=> end >= total
              /\ reply.chunk \in Seq(Nat \X Nat)
              /\ Len(reply.chunk) = end - start
              /\ \A i \in 1..(end - start) : reply.chunk[i] = <<version[j][a], start + i>>
<1> DEFINE total == Stored(j, a)
           start == IF k <= total THEN k ELSE total
           end == IF start + Chunk <= total THEN start + Chunk ELSE total
           chunk == [i \in 1..(end - start) |-> <<version[j][a], start + i>>]
<1>1. total \in Nat
  BY StoredType
<1>2. Min({k, total}) = start
  BY <1>1, MinOfTwo
<1>3. start \in Nat /\ start + Chunk \in Nat /\ Chunk \in Nat
  BY <1>1, ChunkAssumption
<1>4. Min({total, start + Chunk}) = end
  <2> HIDE DEF total, start
  <2>1. QED
    BY <1>1, <1>3, MinOfTwo
<1>5. Reply(j, a, k) = [terminal |-> Terminal(end, total), total |-> total, chunk |-> chunk]
  BY <1>2, <1>4 DEF Reply
<1>6. end \in Nat /\ end - start \in Nat /\ version[j][a] \in Nat
  BY <1>1, <1>3 DEF DownloadTypeOK
<1>7. /\ chunk \in Seq(Nat \X Nat) /\ Len(chunk) = end - start
      /\ \A i \in 1..(end - start) : chunk[i] = <<version[j][a], start + i>>
  <2> HIDE DEF total, start, end
  <2>1. QED
    BY <1>3, <1>6
<1> HIDE DEF total, start, end, chunk
<1>8. /\ Reply(j, a, k).total = total
      /\ Reply(j, a, k).terminal <=> end >= total
      /\ Reply(j, a, k).chunk = chunk
  <2>1. /\ Reply(j, a, k).total = total
        /\ Reply(j, a, k).chunk = chunk
    BY <1>5
  <2>2. Reply(j, a, k).terminal = Terminal(end, total)
    <3>1. \A t : [terminal |-> t, total |-> total, chunk |-> chunk].terminal = t
      OBVIOUS
    <3>2. QED
      BY <1>5, <3>1, Zenon
  <2>3. Terminal(end, total) <=> end >= total
    BY Zenon DEF Terminal
  <2>4. QED
    BY <2>1, <2>2, <2>3, Zenon
<1>9. QED
  BY <1>7, <1>8 DEF total, start, end

------------------------------------------------------------------------------
(* Type correctness.                                                       *)

(* Counts of workers are numbers.                                          *)
LEMMA WritersCount ==
    ASSUME NEW S, S \subseteq Workers
    PROVE  /\ IsFiniteSet(S) /\ Cardinality(S) \in Nat
           /\ Cardinality(S) = 0 <=> S = {}
BY WorkersAssumption, FS_Subset, FS_CardinalityType, FS_EmptySet

(* Versions only grow.                                                     *)
LEMMA VersionGrows ==
    ASSUME DownloadTypeOK, Observed
    PROVE  /\ version' \in [Jobs -> [Artifacts -> Nat]]
           /\ \A j \in Jobs, a \in Artifacts :
                /\ version'[j][a] >= version[j][a]
                /\ (\E w \in Workers : Writes(w, j, a)) => version'[j][a] >= 1
                /\ (\A w \in Workers : ~Writes(w, j, a)) => version'[j][a] = version[j][a]
<1> DEFINE writers(j, a) == { w \in Workers : Writes(w, j, a) }
<1>1. ASSUME NEW j \in Jobs, NEW a \in Artifacts
      PROVE  /\ version[j][a] \in Nat
             /\ Cardinality(writers(j, a)) \in Nat
             /\ Cardinality(writers(j, a)) = 0 <=> \A w \in Workers : ~Writes(w, j, a)
  <2>1. version[j][a] \in Nat
    BY DEF DownloadTypeOK
  <2>2. writers(j, a) \subseteq Workers
    OBVIOUS
  <2>3. /\ Cardinality(writers(j, a)) \in Nat
        /\ Cardinality(writers(j, a)) = 0 <=> writers(j, a) = {}
    <3> HIDE DEF writers
    <3>1. QED
      BY <2>2, WritersCount
  <2>4. QED
    BY <2>1, <2>3
<1>2. version' = [j \in Jobs |-> [a \in Artifacts |->
                    version[j][a] + Cardinality(writers(j, a))]]
  BY DEF Observed
<1>3. \A j \in Jobs, a \in Artifacts :
        version'[j][a] = version[j][a] + Cardinality(writers(j, a))
  BY <1>2
<1>4. version' \in [Jobs -> [Artifacts -> Nat]]
  <2>1. \A j \in Jobs, a \in Artifacts : version[j][a] + Cardinality(writers(j, a)) \in Nat
    BY <1>1
  <2> HIDE DEF writers
  <2>2. QED
    BY <1>2, <2>1
<1>5. QED
  <2> SUFFICES ASSUME NEW j \in Jobs, NEW a \in Artifacts
               PROVE  /\ version'[j][a] >= version[j][a]
                      /\ (\E w \in Workers : Writes(w, j, a)) => version'[j][a] >= 1
                      /\ (\A w \in Workers : ~Writes(w, j, a))
                           => version'[j][a] = version[j][a]
    BY <1>4
  <2>1. /\ version[j][a] \in Nat
        /\ Cardinality(writers(j, a)) \in Nat
        /\ Cardinality(writers(j, a)) = 0 <=> \A w \in Workers : ~Writes(w, j, a)
        /\ version'[j][a] = version[j][a] + Cardinality(writers(j, a))
    BY <1>1, <1>3
  <2> HIDE DEF writers
  <2>2. QED
    BY <2>1

(* The steps of a reader, by its new state x.                              *)
LEMMA ReaderUpdate ==
    ASSUME DownloadTypeOK, NEW r \in Readers, NEW x \in ReaderState,
           dl' = [dl EXCEPT ![r] = x]
    PROVE  /\ dl' \in [Readers -> ReaderState]
           /\ dl'[r] = x
           /\ \A q \in Readers \ {r} : dl'[q] = dl[q]
BY DEF DownloadTypeOK, ReaderState

LEMMA StartEffect ==
    ASSUME DownloadTypeOK, NEW r \in Readers, NEW j \in Jobs, NEW a \in Artifacts,
           StartDownload(r, j, a)
    PROVE  \E x \in ReaderState :
             /\ dl' = [dl EXCEPT ![r] = x]
             /\ x.pc = "asking" /\ x.job = j /\ x.artifact = a
             /\ x.announced = 0 /\ x.body = <<>>
<1> DEFINE b == Blank("asking")
           x == [b EXCEPT !.job = j, !.artifact = a]
<1>1. b \in ReaderState /\ b.pc = "asking" /\ b.body = <<>> /\ b.announced = 0
  BY BlankType
<1>2. dl' = [dl EXCEPT ![r] = x]
  BY DEF StartDownload
<1>3. /\ x \in ReaderState /\ x.pc = "asking" /\ x.job = j /\ x.artifact = a
      /\ x.announced = 0 /\ x.body = <<>>
  <2> HIDE DEF b
  <2>1. QED
    BY <1>1 DEF ReaderState
<1> HIDE DEF x
<1>4. QED
  BY <1>2, <1>3

LEMMA ReadMetadataEffect ==
    ASSUME SpoolInv, DownloadTypeOK, NEW r \in Readers, ReadMetadata(r)
    PROVE  /\ dl[r].pc = "asking"
           /\ \E x \in ReaderState :
                /\ dl' = [dl EXCEPT ![r] = x]
                /\ \/ x.pc = "failed"
                   \/ /\ Ready(dl[r].job, dl[r].artifact)
                      /\ x.pc = "reading" /\ x.job = dl[r].job
                      /\ x.artifact = dl[r].artifact
                      /\ x.announced = Announced(dl[r].job, dl[r].artifact)
                      /\ x.body = dl[r].body
<1> DEFINE n == Announced(dl[r].job, dl[r].artifact)
           x == [dl[r] EXCEPT !.pc = "reading", !.announced = n]
<1>1. dl[r].pc = "asking"
  BY DEF ReadMetadata
<1>2. dl[r] \in ReaderState /\ dl[r].job \in Jobs /\ dl[r].artifact \in Artifacts
  BY <1>1, ReaderFields DEF Active
<1>3. \/ dl' = [dl EXCEPT ![r] = Blank("failed")]
      \/ Ready(dl[r].job, dl[r].artifact) /\ dl' = [dl EXCEPT ![r] = x]
  BY DEF ReadMetadata, DownloadTypeOK
<1>4. CASE dl' = [dl EXCEPT ![r] = Blank("failed")]
  BY <1>1, <1>4, BlankType
<1>5. CASE Ready(dl[r].job, dl[r].artifact) /\ dl' = [dl EXCEPT ![r] = x]
  <2>1. n \in Nat
    BY <1>2, <1>5, AnnouncedType
  <2>2. /\ x \in ReaderState /\ x.pc = "reading" /\ x.job = dl[r].job
        /\ x.artifact = dl[r].artifact /\ x.announced = n /\ x.body = dl[r].body
    <3> HIDE DEF n
    <3>1. QED
      BY <1>2, <2>1 DEF ReaderState
  <2> HIDE DEF x
  <2>3. QED
    BY <1>1, <1>5, <2>2
<1>6. QED
  BY <1>3, <1>4, <1>5

LEMMA ReadObjectEffect ==
    ASSUME SpoolInv, DownloadTypeOK, NEW r \in Readers, ReadObject(r)
    PROVE  /\ dl[r].pc = "reading"
           /\ \E x \in ReaderState :
                /\ dl' = [dl EXCEPT ![r] = x]
                /\ \/ x.pc = "failed"
                   \/ LET reply == Reply(dl[r].job, dl[r].artifact, Len(dl[r].body)) IN
                      /\ Stored(dl[r].job, dl[r].artifact) # None
                      /\ x.job = dl[r].job /\ x.artifact = dl[r].artifact
                      /\ x.announced = dl[r].announced
                      /\ x.body = dl[r].body \o reply.chunk
                      /\ \/ ~reply.terminal /\ x.pc = "asking"
                         \/ reply.terminal /\ Len(x.body) = reply.total /\ x.pc = "done"
<1> DEFINE j == dl[r].job
           a == dl[r].artifact
           reply == Reply(j, a, Len(dl[r].body))
           body == dl[r].body \o reply.chunk
           x(p) == [dl[r] EXCEPT !.pc = p, !.body = body]
<1>1. dl[r].pc = "reading"
  BY DEF ReadObject
<1>2. /\ dl[r] \in ReaderState /\ j \in Jobs /\ a \in Artifacts
      /\ dl[r].body \in Seq(Nat \X Nat) /\ Len(dl[r].body) \in Nat
  BY <1>1, ReaderFields DEF Active
<1>3. \/ dl' = [dl EXCEPT ![r] = Blank("failed")]
      \/ /\ Stored(j, a) # None /\ ~reply.terminal
         /\ dl' = [dl EXCEPT ![r] = x("asking")]
      \/ /\ Stored(j, a) # None /\ reply.terminal /\ Len(body) = reply.total
         /\ dl' = [dl EXCEPT ![r] = x("done")]
  <2>1. dl \in [Readers -> ReaderState]
    BY DEF DownloadTypeOK, ReaderState
  <2>2. QED
    BY <2>1 DEF ReadObject
<1>4. CASE dl' = [dl EXCEPT ![r] = Blank("failed")]
  BY <1>1, <1>4, BlankType
<1>5. ASSUME Stored(j, a) # None, NEW p \in {"asking", "done"}
      PROVE  /\ x(p) \in ReaderState /\ x(p).pc = p
             /\ x(p).job = j /\ x(p).artifact = a
             /\ x(p).announced = dl[r].announced
             /\ x(p).body = body
  <2>1. reply.chunk \in Seq(Nat \X Nat)
    BY <1>2, <1>5, ReplyShape
  <2>2. body \in Seq(Nat \X Nat)
    <3> HIDE DEF reply
    <3>1. QED
      BY <1>2, <2>1
  <2> HIDE DEF body
  <2>3. QED
    BY <1>2, <2>2 DEF ReaderState
<1>6. CASE /\ Stored(j, a) # None /\ ~reply.terminal
           /\ dl' = [dl EXCEPT ![r] = x("asking")]
  <2>1. /\ x("asking") \in ReaderState /\ x("asking").pc = "asking"
        /\ x("asking").job = j /\ x("asking").artifact = a
        /\ x("asking").announced = dl[r].announced
        /\ x("asking").body = body
    BY <1>5, <1>6
  <2> HIDE DEF x
  <2>2. QED
    BY <1>1, <1>6, <2>1
<1>7. CASE /\ Stored(j, a) # None /\ reply.terminal /\ Len(body) = reply.total
           /\ dl' = [dl EXCEPT ![r] = x("done")]
  <2>1. /\ x("done") \in ReaderState /\ x("done").pc = "done"
        /\ x("done").job = j /\ x("done").artifact = a
        /\ x("done").announced = dl[r].announced
        /\ x("done").body = body
    BY <1>5, <1>7
  <2> HIDE DEF x
  <2>2. QED
    BY <1>1, <1>7, <2>1
<1>8. QED
  BY <1>3, <1>4, <1>6, <1>7

LEMMA FailEffect ==
    ASSUME DownloadTypeOK, NEW r \in Readers, RequestFails(r)
    PROVE  \E x \in ReaderState : dl' = [dl EXCEPT ![r] = x] /\ x.pc = "failed"
BY BlankType DEF RequestFails

(* A step of the engine leaves a reader alone or ends its request.         *)
LEMMA ObservedReaders ==
    ASSUME DownloadTypeOK, Observed
    PROVE  /\ dl' \in [Readers -> ReaderState]
           /\ \A r \in Readers : dl'[r] = dl[r] \/ dl'[r].pc = "failed"
           /\ contended \subseteq contended' /\ contended' \subseteq Jobs
<1>1. dl' = [r \in Readers |->
              IF crashes' # crashes /\ dl[r].pc = "reading" THEN Blank("failed") ELSE dl[r]]
  BY DEF Observed
<1>2. \A r \in Readers : dl[r] \in ReaderState
  BY ReaderFields
<1>3. Blank("failed") \in ReaderState /\ Blank("failed").pc = "failed"
  BY BlankType
<1>4. dl' \in [Readers -> ReaderState]
  BY <1>1, <1>2, <1>3
<1>5. \A r \in Readers : dl'[r] = dl[r] \/ dl'[r].pc = "failed"
  BY <1>1, <1>3
<1>6. contended \subseteq contended' /\ contended' \subseteq Jobs
  BY DEF Observed, DownloadTypeOK
<1>7. QED
  BY <1>4, <1>5, <1>6

LEMMA DownloadTypeStep ==
    ASSUME SpoolInv, DownloadTypeOK, [DownloadNext]_allVars
    PROVE  SpoolInv' /\ DownloadTypeOK'
<1>1. \A r \in Readers : Active(r) => dl[r].job \in Jobs
  BY ReaderFields
<1>2. CASE Next /\ Observed
  <2>1. SpoolInv'
    BY <1>2, SpoolStep
  <2>2. \A r \in Readers : Active(r)' => dl'[r].job \in Jobs
    BY <1>1, <1>2, ObservedReaders DEF Active
  <2>3. QED
    BY <1>2, <2>1, <2>2, ObservedReaders, VersionGrows
    DEF DownloadTypeOK, ReaderState, Active
<1>3. ASSUME UNCHANGED <<vars, version, contended>>, NEW r \in Readers, NEW x \in ReaderState,
             dl' = [dl EXCEPT ![r] = x],
             x.pc \in {"asking", "reading", "done"} => x.job \in Jobs
      PROVE  SpoolInv' /\ DownloadTypeOK'
  <2>1. SpoolInv'
    BY <1>3, SpoolStep
  <2>2. /\ dl' \in [Readers -> ReaderState]
        /\ dl'[r] = x
        /\ \A q \in Readers \ {r} : dl'[q] = dl[q]
    BY <1>3, ReaderUpdate
  <2>3. \A q \in Readers : Active(q)' => dl'[q].job \in Jobs
    BY <1>1, <1>3, <2>2 DEF Active
  <2>4. QED
    BY <1>3, <2>1, <2>2, <2>3 DEF DownloadTypeOK, ReaderState, Active
<1>4. ASSUME UNCHANGED <<vars, version, contended>>, NEW r \in Readers,
             \/ \E j \in Jobs, a \in Artifacts : StartDownload(r, j, a)
             \/ Download(r)
      PROVE  SpoolInv' /\ DownloadTypeOK'
  <2>1. ASSUME NEW j \in Jobs, NEW a \in Artifacts, StartDownload(r, j, a)
        PROVE  SpoolInv' /\ DownloadTypeOK'
    BY <1>3, <1>4, <2>1, StartEffect
  <2>2. CASE ReadMetadata(r)
    BY <1>1, <1>3, <1>4, <2>2, ReadMetadataEffect DEF Active
  <2>3. CASE ReadObject(r)
    <3>1. PICK x \in ReaderState :
            /\ dl' = [dl EXCEPT ![r] = x]
            /\ x.pc = "failed" \/ x.job = dl[r].job
      BY <2>3, ReadObjectEffect
    <3>2. dl[r].job \in Jobs
      BY <1>1, <2>3 DEF Active, ReadObject
    <3>3. QED
      BY <1>3, <1>4, <3>1, <3>2
  <2>4. CASE RequestFails(r)
    BY <1>3, <1>4, <2>4, FailEffect
  <2>5. QED
    BY <1>4, <2>1, <2>2, <2>3, <2>4 DEF Download
<1>5. CASE UNCHANGED allVars
  <2>1. UNCHANGED vars /\ UNCHANGED <<dl, version, contended>>
    BY <1>5 DEF allVars, downloadVars
  <2>2. SpoolInv'
    BY <2>1, SpoolStep
  <2>3. QED
    BY <2>1, <2>2 DEF DownloadTypeOK
<1>6. QED
  BY <1>2, <1>4, <1>5 DEF DownloadNext, Reading

LEMMA DownloadTypeInit == DownloadInit => SpoolInv /\ DownloadTypeOK
<1> SUFFICES ASSUME DownloadInit PROVE SpoolInv /\ DownloadTypeOK
  OBVIOUS
<1>1. SpoolInv
  BY SpoolInit DEF DownloadInit
<1>2. dl \in [Readers -> ReaderState] /\ \A r \in Readers : dl[r].pc = "idle"
  BY BlankType DEF DownloadInit
<1>3. QED
  BY <1>1, <1>2 DEF DownloadInit, DownloadTypeOK, ReaderState

(* relay_download: its locals keep their types, and a request past the     *)
(* metadata names a job and an artifact of known length, whatever the      *)
(* engine does meanwhile.                                                  *)
THEOREM DownloadTypeCorrect == DownloadSpec => []DownloadTypeOK
<1> DEFINE Inv == SpoolInv /\ DownloadTypeOK
<1>1. DownloadInit => Inv
  BY DownloadTypeInit
<1>2. Inv /\ [DownloadNext]_allVars => Inv'
  BY DownloadTypeStep
<1>3. Inv => DownloadTypeOK
  OBVIOUS
<1>4. QED
  BY <1>1, <1>2, <1>3, PTL DEF DownloadSpec

------------------------------------------------------------------------------
(* Steps of the engine.                                                    *)

(* Only Store and Normalize write a result; everybody else leaves or       *)
(* removes it.                                                             *)
LEMMA WhoStores ==
    ASSUME SpoolInv, Next, NEW j \in Jobs, NEW a \in Artifacts
    PROVE  Stored(j, a)' \in {Stored(j, a), None} \/ \E w \in Workers : Writes(w, j, a)
<1> USE DEF spoolVars, eraseVars, historyVars
<1>0. /\ TypeOK /\ obj \in [Jobs -> Nat \cup {None}] /\ norm \in [Jobs -> Nat \cup {None}]
  BY DEF SpoolInv, TypeOK
<1>1. ASSUME obj'[j] \in {obj[j], None}, norm'[j] \in {norm[j], None}
      PROVE  Stored(j, a)' \in {Stored(j, a), None}
  BY <1>1 DEF Stored
<1>2. ASSUME NEW k \in Jobs, RemoveObjects(k) PROVE Stored(j, a)' \in {Stored(j, a), None}
  BY <1>0, <1>1, <1>2 DEF RemoveObjects
<1>3. ASSUME NEW w \in Workers, Store(w)
      PROVE  Stored(j, a)' \in {Stored(j, a), None} \/ Writes(w, j, a)
  <2>1. norm' = norm
    BY <1>3 DEF Store
  <2>2. CASE obj' = obj
    BY <1>1, <2>1, <2>2
  <2>3. CASE /\ obj' = [obj EXCEPT ![worker[w].job] = worker[w].size]
             /\ \E x \in WorkerState :
                  /\ worker' = [worker EXCEPT ![w] = x]
                  /\ x.pc = "normalizing"
    <3>1. worker[w].pc = "storing" /\ worker'[w].pc = "normalizing"
      <4>1. PICK x \in WorkerState :
              worker' = [worker EXCEPT ![w] = x] /\ x.pc = "normalizing"
        BY <2>3
      <4>2. worker'[w] = x
        BY <1>0, <4>1, WorkerUpdate
      <4>3. QED
        BY <1>3, <4>1, <4>2 DEF Store
    <3>2. CASE a = "primary" /\ worker[w].job = j
      BY <3>1, <3>2 DEF Writes
    <3>3. CASE worker[w].job # j
      BY <1>0, <1>1, <2>1, <2>3, <3>3
    <3>4. CASE a # "primary"
      BY <2>1, <3>4 DEF Stored
    <3>5. QED
      BY <3>2, <3>3, <3>4
  <2>4. QED
    BY <1>0, <1>3, <2>2, <2>3, StoreEffect
<1>4. ASSUME NEW w \in Workers, NEW n \in NormSizes, Normalize(w, n)
      PROVE  Stored(j, a)' \in {Stored(j, a), None} \/ Writes(w, j, a)
  <2>1. obj' = obj /\ norm' = [norm EXCEPT ![worker[w].job] = n]
    BY <1>4 DEF Normalize
  <2>2. worker[w].pc = "normalizing" /\ worker'[w].pc = "finishing"
    BY <1>0, <1>4, NormalizeEffect, WorkerUpdate
  <2>3. CASE a # "primary" /\ worker[w].job = j
    BY <2>2, <2>3 DEF Writes
  <2>4. CASE worker[w].job # j
    BY <1>0, <1>1, <2>1, <2>4
  <2>5. CASE a = "primary"
    BY <2>1, <2>5 DEF Stored
  <2>6. QED
    BY <2>3, <2>4, <2>5
<1>5. ASSUME NEW w \in Workers,
             \/ Take(w) \/ MarkRunning(w) \/ WorkFails(w) \/ Finish(w) \/ RecordFailure(w)
             \/ \E n \in Sizes : Fetch(w, n)
      PROVE  Stored(j, a)' \in {Stored(j, a), None}
  <2>1. obj' = obj /\ norm' = norm
    BY <1>5 DEF Take, MarkRunning, WorkFails, Finish, RecordFailure, Fetch
  <2>2. QED
    BY <1>1, <2>1
<1>6. ASSUME NEW k \in Jobs, Submit(k) \/ DeleteMetadata(k) \/ Expire(k) \/ Recover(k)
      PROVE  Stored(j, a)' \in {Stored(j, a), None}
  BY <1>1, <1>6 DEF Submit, DeleteMetadata, Expire, Recover
<1>7. ASSUME NEW k \in Jobs, DeleteObjects(k) \/ ReapObjects(k)
      PROVE  Stored(j, a)' \in {Stored(j, a), None}
  BY <1>2, <1>7 DEF DeleteObjects, ReapObjects
<1>8. CASE ReapMetadata \/ Crash
  BY <1>1, <1>8 DEF ReapMetadata, Crash
<1>9. QED
  BY <1>3, <1>4, <1>5, <1>6, <1>7, <1>8 DEF Next, Work, Request

(* A job that is out of the workers' hands and not unfinished stays so:    *)
(* process_job takes up only unfinished jobs, and ids are used once.       *)
LEMMA SettledStays ==
    ASSUME SpoolInv, NEW j \in Jobs, Settled(j), Next
    PROVE  Settled(j)' /\ meta'[j] \in {meta[j], None}
<1> USE DEF spoolVars, eraseVars, historyVars
<1>0. /\ TypeOK /\ meta \in [Jobs -> Metadata \cup {None}] /\ queue \in Seq(Jobs)
      /\ None \notin Jobs
  BY NoneAssumption DEF SpoolInv, TypeOK
<1>1. ASSUME meta'[j] \in {meta[j], None}, submitted \subseteq submitted',
             \A w \in Workers : worker'[w].job # j
      PROVE  Settled(j)' /\ meta'[j] \in {meta[j], None}
  BY <1>1 DEF Settled, Present
<1>2. ASSUME NEW w \in Workers, Work(w)
      PROVE  Settled(j)' /\ meta'[j] \in {meta[j], None}
  <2>1. worker[w].job # j /\ submitted' = submitted
    BY <1>2 DEF Settled, Work, Take, MarkRunning, Fetch, WorkFails, Store, Normalize, Finish,
                RecordFailure
  <2>2. meta'[j] = meta[j]
    <3>1. \/ meta' = meta
          \/ /\ worker[w].pc # "idle"
             /\ \E s \in Status : WriteStatus(w, s)
      BY <1>2 DEF Work, Take, MarkRunning, Fetch, WorkFails, Store, Normalize, Finish,
                  RecordFailure, Status
    <3>2. QED
      BY <1>0, <2>1, <3>1, WriteStatusEffect
  <2>3. \E x \in WorkerState : worker' = [worker EXCEPT ![w] = x] /\ x.job # j
    <3>1. CASE Take(w)
      <4>1. PICK x \in WorkerState :
              /\ worker' = [worker EXCEPT ![w] = x]
              /\ \/ /\ Present(Head(queue)) /\ meta[Head(queue)].status # "complete"
                    /\ x.job = Head(queue)
                 \/ x = worker[w]
        BY <1>0, <3>1, TakeEffect
      <4>2. x.job # j
        BY <2>1, <4>1 DEF Settled
      <4>3. QED
        BY <4>1, <4>2
    <3>2. CASE MarkRunning(w)
      BY <1>0, <2>1, <3>2, MarkRunningEffect
    <3>3. CASE \E n \in Sizes : Fetch(w, n)
      <4>1. PICK n \in Sizes : Fetch(w, n)
        BY <3>3
      <4>2. QED
        BY <1>0, <2>1, <4>1, FetchEffect
    <3>4. ASSUME worker[w].pc # "idle", Failing(w)
          PROVE  \E x \in WorkerState : worker' = [worker EXCEPT ![w] = x] /\ x.job # j
      BY <1>0, <2>1, <3>4, FailingEffect
    <3>5. CASE WorkFails(w)
      BY <3>4, <3>5 DEF WorkFails
    <3>6. CASE Store(w)
      BY <1>0, <2>1, <3>4, <3>6, StoreEffect
    <3>7. CASE \E n \in NormSizes : Normalize(w, n)
      <4>1. PICK n \in NormSizes : Normalize(w, n)
        BY <3>7
      <4>2. QED
        BY <1>0, <2>1, <4>1, NormalizeEffect
    <3>8. CASE Finish(w) \/ RecordFailure(w)
      BY <1>0, <3>8, IdleType DEF Finish, RecordFailure
    <3>9. QED
      BY <1>2, <3>1, <3>2, <3>3, <3>5, <3>6, <3>7, <3>8 DEF Work
  <2>4. \A v \in Workers : worker'[v].job # j
    BY <1>0, <2>3, WorkerUpdate DEF Settled
  <2>5. QED
    BY <1>1, <2>1, <2>2, <2>4
<1>3. ASSUME NEW k \in Jobs, Submit(k)
      PROVE  Settled(j)' /\ meta'[j] \in {meta[j], None}
  <2>1. k # j
    BY <1>3 DEF Submit, Settled
  <2>2. QED
    BY <1>0, <1>1, <1>3, <2>1 DEF Submit, Settled
<1>4. ASSUME NEW k \in Jobs, DeleteObjects(k) \/ Expire(k) \/ ReapObjects(k) \/ Recover(k)
      PROVE  Settled(j)' /\ meta'[j] \in {meta[j], None}
  BY <1>1, <1>4 DEF DeleteObjects, Expire, ReapObjects, Recover, Settled
<1>5. ASSUME NEW k \in Jobs, DeleteMetadata(k)
      PROVE  Settled(j)' /\ meta'[j] \in {meta[j], None}
  BY <1>0, <1>1, <1>5 DEF DeleteMetadata, Settled
<1>6. CASE ReapMetadata
  BY <1>0, <1>1, <1>6 DEF ReapMetadata, Settled
<1>7. CASE Crash
  <2>1. \A w \in Workers : worker'[w].job = None
    BY <1>7, IdleType DEF Crash
  <2>2. QED
    BY <1>0, <1>1, <1>7, <2>1 DEF Crash
<1>8. QED
  BY <1>2, <1>3, <1>4, <1>5, <1>6, <1>7 DEF Next, Request

(* A job outside contended has one holder at most.                         *)
LEMMA SoleAfter ==
    ASSUME Observed, NEW j \in Jobs, j \notin contended'
    PROVE  Sole(j)'
<1> DEFINE S == { w \in Workers : worker'[w].job = j }
<1>1. IsFiniteSet(S) /\ Cardinality(S) \in Nat
  <2>1. S \subseteq Workers
    OBVIOUS
  <2> HIDE DEF S
  <2>2. QED
    BY <2>1, WritersCount
<1>2. ~(Cardinality(S) > 1)
  BY DEF Observed
<1>3. SUFFICES ASSUME NEW v \in Workers, NEW w \in Workers,
                      worker'[v].job = j, worker'[w].job = j, v # w
               PROVE  FALSE
  BY DEF Sole
<1>4. {v, w} \subseteq S
  BY <1>3
<1>5. Cardinality({v, w}) = 2
  <2>1. IsFiniteSet({v}) /\ Cardinality({v}) = 1
    BY FS_Singleton
  <2>2. Cardinality({v} \cup {w}) = Cardinality({v}) + 1
    BY <1>3, <2>1, FS_AddElement
  <2>3. {v} \cup {w} = {v, w}
    OBVIOUS
  <2>4. QED
    BY <2>1, <2>2, <2>3
<1> HIDE DEF S
<1>6. Cardinality({v, w}) <= Cardinality(S)
  BY <1>1, <1>4, FS_Subset
<1>7. QED
  BY <1>1, <1>2, <1>5, <1>6

(* Whatever the engine does, the beginning of a download stays one.        *)
LEMMA PrefixKept ==
    ASSUME SpoolInv, DownloadTypeOK, Next, Observed,
           NEW x \in ReaderState, x.job \in Jobs, BodyIsPrefix(x)
    PROVE  BodyIsPrefix(x)'
<1> DEFINE late == x.pc # "asking" \/ x.body # <<>>
<1>0. x.artifact \in Artifacts
  BY DEF ReaderState
<1>1. CASE late
  <2>1. /\ Settled(x.job)
        /\ Present(x.job) => Announced(x.job, x.artifact) = x.announced
        /\ Stored(x.job, x.artifact) \in {x.announced, None}
    BY <1>1 DEF BodyIsPrefix
  <2>2. \A w \in Workers : ~Writes(w, x.job, x.artifact)
    BY <2>1 DEF Settled, Writes
  <2>3. version'[x.job][x.artifact] = version[x.job][x.artifact]
    BY <1>0, <2>2, VersionGrows
  <2>4. Stored(x.job, x.artifact)' \in {Stored(x.job, x.artifact), None}
    BY <1>0, <2>2, WhoStores
  <2>5. Settled(x.job)' /\ meta'[x.job] \in {meta[x.job], None}
    BY <2>1, SettledStays
  <2>6. Present(x.job)' => Announced(x.job, x.artifact)' = x.announced
    BY <2>1, <2>5 DEF Present, Announced
  <2>7. Stored(x.job, x.artifact)' \in {x.announced, None}
    BY <2>1, <2>4
  <2>8. QED
    BY <2>3, <2>5, <2>6, <2>7 DEF BodyIsPrefix
<1>2. CASE ~late
  BY <1>2 DEF BodyIsPrefix
<1>3. QED
  BY <1>1, <1>2

LEMMA EngineStep ==
    ASSUME DownloadInv, Next, Observed
    PROVE  DownloadInv'
<1>0. /\ SpoolInv /\ DownloadTypeOK /\ StoredWasWritten /\ UncontendedFit /\ ReadersFit
      /\ [Next]_vars
  BY DEF DownloadInv
<1>1. SpoolInv' /\ DownloadTypeOK'
  BY <1>0, DownloadTypeStep DEF DownloadNext
<1>2. StoredWasWritten'
  <2> SUFFICES ASSUME NEW j \in Jobs, NEW a \in Artifacts, Stored(j, a)' # None
               PROVE  version'[j][a] >= 1
    BY DEF StoredWasWritten
  <2>1. /\ version[j][a] \in Nat /\ version'[j][a] \in Nat
        /\ version'[j][a] >= version[j][a]
        /\ (\E w \in Workers : Writes(w, j, a)) => version'[j][a] >= 1
    BY <1>0, <1>1, VersionGrows DEF DownloadTypeOK
  <2>2. CASE Stored(j, a)' = Stored(j, a)
    <3>1. version[j][a] >= 1
      BY <1>0, <2>2 DEF StoredWasWritten
    <3>2. QED
      BY <2>1, <3>1
  <2>3. QED
    BY <1>0, <2>1, <2>2, WhoStores
<1>3. UncontendedFit'
  <2> SUFFICES ASSUME NEW j \in Jobs, j \notin contended'
               PROVE  Sole(j)' /\ JobInv(j)'
    BY DEF UncontendedFit
  <2>1. Sole(j) /\ JobInv(j)
    BY <1>0, ObservedReaders DEF UncontendedFit
  <2>2. QED
    BY <1>0, <2>1, JobStep, SoleAfter
<1>4. ReadersFit'
  <2> SUFFICES ASSUME NEW r \in Readers, Active(r)', dl'[r].job \notin contended'
               PROVE  BodyIsPrefix(dl[r])'
    BY DEF ReadersFit
  <2>1. dl'[r] = dl[r] /\ Active(r) /\ dl[r].job \notin contended
    BY <1>0, ObservedReaders DEF Active
  <2>2. PICK x \in ReaderState : x = dl[r]
    BY <1>0, ReaderFields
  <2>3. x.job \in Jobs /\ BodyIsPrefix(x)
    BY <1>0, <2>1, <2>2, ReaderFields DEF ReadersFit
  <2>4. BodyIsPrefix(x)'
    BY <1>0, <2>3, PrefixKept
  <2>5. QED
    BY <2>1, <2>2, <2>4 DEF BodyIsPrefix
<1>5. QED
  BY <1>1, <1>2, <1>3, <1>4 DEF DownloadInv

------------------------------------------------------------------------------
(* Steps of a reader.                                                      *)

(* A request that finds the job ready may open the object: what metadata   *)
(* announced is what is stored, or the object is gone.                     *)
LEMMA PrefixAtMetadata ==
    ASSUME DownloadInv, NEW x \in ReaderState, NEW y \in ReaderState,
           x.job \in Jobs, x.job \notin contended, x.pc = "asking", BodyIsPrefix(x),
           Ready(x.job, x.artifact), y.pc = "reading", y.job = x.job,
           y.artifact = x.artifact, y.announced = Announced(x.job, x.artifact),
           y.body = x.body
    PROVE  BodyIsPrefix(y)
<1>0. /\ SpoolInv /\ JobInv(x.job) /\ x.artifact \in Artifacts /\ x.announced \in Nat
      /\ y.announced \in Nat /\ x.body \in Seq(Nat \X Nat)
  BY DEF DownloadInv, UncontendedFit, ReaderState
<1>1. Present(x.job) /\ meta[x.job].status = "complete"
  BY DEF Ready
<1>2. Settled(x.job)
  BY <1>0, <1>1 DEF Settled, JobInv, HeldNotComplete, SpoolInv, MetaIsSubmitted
<1>3. Stored(x.job, x.artifact) \in {y.announced, None}
  BY <1>0, <1>1 DEF JobInv, ResultIsStored, HasLength, Stored, Announced, Ready, Artifacts
<1>4. Len(y.body) <= y.announced
  <2>1. CASE x.body = <<>>
    BY <1>0, <2>1
  <2>2. CASE x.body # <<>>
    BY <1>1, <2>2 DEF BodyIsPrefix
  <2>3. QED
    BY <2>1, <2>2
<1>5. QED
  BY <1>2, <1>3, <1>4 DEF BodyIsPrefix

LEMMA ConcatShape ==
    ASSUME NEW S, NEW s \in Seq(S), NEW t \in Seq(S)
    PROVE  /\ Len(s \o t) = Len(s) + Len(t)
           /\ \A i \in 1..(Len(s) + Len(t)) :
                (s \o t)[i] = IF i <= Len(s) THEN s[i] ELSE t[i - Len(s)]
OBVIOUS

(* The chunk continues the body where it ended.                            *)
LEMMA PrefixAtObject ==
    ASSUME DownloadInv, NEW x \in ReaderState, NEW y \in ReaderState,
           x.job \in Jobs, x.pc = "reading", BodyIsPrefix(x),
           Stored(x.job, x.artifact) # None, y.job = x.job, y.artifact = x.artifact,
           y.announced = x.announced,
           y.body = x.body \o Reply(x.job, x.artifact, Len(x.body)).chunk,
           \/ y.pc = "asking"
           \/ /\ Len(y.body) = Reply(x.job, x.artifact, Len(x.body)).total
              /\ y.pc = "done"
    PROVE  BodyIsPrefix(y)
<1> DEFINE k == Len(x.body)
           v == version[x.job][x.artifact]
           total == Stored(x.job, x.artifact)
           end == IF k + Chunk <= total THEN k + Chunk ELSE total
           chunk == Reply(x.job, x.artifact, k).chunk
<1>0. /\ SpoolInv /\ DownloadTypeOK /\ x.artifact \in Artifacts /\ x.announced \in Nat
      /\ x.body \in Seq(Nat \X Nat) /\ k \in Nat /\ Chunk \in Nat \ {0}
  BY ChunkAssumption DEF DownloadInv, ReaderState
<1>1. /\ Settled(x.job)
      /\ Present(x.job) => Announced(x.job, x.artifact) = x.announced
      /\ total = x.announced
      /\ k <= total
      /\ \A i \in 1..k : x.body[i] = <<v, i>>
  BY DEF BodyIsPrefix
<1>2. /\ Reply(x.job, x.artifact, k).total = total
      /\ chunk \in Seq(Nat \X Nat)
      /\ Len(chunk) = end - k
      /\ \A i \in 1..(end - k) : chunk[i] = <<v, k + i>>
  <2> DEFINE start == IF k <= total THEN k ELSE total
             stop == IF start + Chunk <= total THEN start + Chunk ELSE total
  <2>1. /\ Reply(x.job, x.artifact, k).total = total
        /\ chunk \in Seq(Nat \X Nat)
        /\ Len(chunk) = stop - start
        /\ \A i \in 1..(stop - start) : chunk[i] = <<v, start + i>>
    <3> HIDE DEF k
    <3>1. QED
      BY <1>0, ReplyShape
  <2>2. start = k
    BY <1>1
  <2>3. stop = end
    BY <2>2
  <2> HIDE DEF start, stop, end, chunk, v, k, total
  <2>4. QED
    BY <2>1, <2>2, <2>3
<1>3. end \in Nat /\ k <= end /\ end <= total /\ total \in Nat
  BY <1>0, <1>1
<1> HIDE DEF chunk, end, k, v, total
<1>4. /\ Len(y.body) = end
      /\ \A i \in 1..end : y.body[i] = <<v, i>>
  <2>1. y.body = x.body \o chunk
    BY DEF chunk, k
  <2>2. /\ Len(y.body) = k + Len(chunk)
        /\ \A i \in 1..(k + Len(chunk)) :
             y.body[i] = IF i <= k THEN x.body[i] ELSE chunk[i - k]
    <3>1. /\ Len(x.body \o chunk) = Len(x.body) + Len(chunk)
          /\ \A i \in 1..(Len(x.body) + Len(chunk)) :
               (x.body \o chunk)[i]
                 = IF i <= Len(x.body) THEN x.body[i] ELSE chunk[i - Len(x.body)]
      BY <1>0, <1>2, ConcatShape
    <3>2. QED
      BY <2>1, <3>1, Zenon DEF k
  <2>3. Len(y.body) = end
    BY <1>0, <1>2, <1>3, <2>2
  <2>4. ASSUME NEW i \in 1..end PROVE y.body[i] = <<v, i>>
    <3>1. CASE i <= k
      <4>1. i \in 1..k /\ y.body[i] = x.body[i]
        <5>1. i \in 1..k /\ i \in 1..(k + Len(chunk))
          BY <1>0, <1>2, <1>3, <3>1
        <5>2. QED
          BY <2>2, <3>1, <5>1
      <4>2. QED
        BY <1>1, <4>1
    <3>2. CASE ~(i <= k)
      <4>1. i - k \in 1..(end - k) /\ k + (i - k) = i /\ y.body[i] = chunk[i - k]
        <5>1. i - k \in 1..(end - k) /\ k + (i - k) = i /\ i \in 1..(k + Len(chunk))
          BY <1>0, <1>2, <1>3, <3>2
        <5>2. QED
          BY <2>2, <3>2, <5>1
      <4>2. QED
        BY <1>2, <4>1
    <3>3. QED
      BY <3>1, <3>2
  <2>5. QED
    BY <2>3, <2>4
<1>5. y.pc = "done" => Len(y.body) = y.announced /\ v >= 1
  <2>1. v >= 1
    BY <1>0 DEF DownloadInv, StoredWasWritten, v
  <2>2. y.pc = "done" => Len(y.body) = total
    BY <1>2 DEF k
  <2>3. QED
    BY <1>1, <2>1, <2>2
<1>6. Len(y.body) <= y.announced
  BY <1>1, <1>3, <1>4
<1>7. QED
  BY <1>1, <1>4, <1>5, <1>6 DEF BodyIsPrefix, v, total

LEMMA ReaderStep ==
    ASSUME DownloadInv, Reading
    PROVE  DownloadInv'
<1>0. /\ SpoolInv /\ DownloadTypeOK /\ StoredWasWritten /\ UncontendedFit /\ ReadersFit
      /\ [DownloadNext]_allVars
  BY DEF DownloadInv, DownloadNext
<1>1. SpoolInv' /\ DownloadTypeOK'
  BY <1>0, DownloadTypeStep
<1>2. UNCHANGED <<meta, obj, norm, worker, submitted, fate, version, contended>>
  BY DEF Reading, vars
<1>3. StoredWasWritten'
  BY <1>0, <1>2 DEF StoredWasWritten, Stored
<1>4. UncontendedFit'
  BY <1>0, <1>2 DEF UncontendedFit, Sole, JobInv, HeldNotComplete, UnfinishedIsBlank,
                    CopyIsFresh, HandIsStored, ResultIsStored, HasLength, Present
<1>5. \A x : BodyIsPrefix(x) => BodyIsPrefix(x)'
  BY <1>2 DEF BodyIsPrefix, Settled, Present, Announced, Stored
<1>6. ReadersFit'
  <2>1. PICK r \in Readers : \/ \E j \in Jobs, a \in Artifacts : StartDownload(r, j, a)
                             \/ Download(r)
    BY DEF Reading
  <2>2. PICK x \in ReaderState : x = dl[r]
    BY <1>0, ReaderFields
  <2>3. Active(r) => x.job \in Jobs /\ (x.job \notin contended => BodyIsPrefix(x))
    BY <1>0, <2>2, ReaderFields DEF ReadersFit
  <2>4. ASSUME NEW y \in ReaderState, dl' = [dl EXCEPT ![r] = y],
               y.pc = "failed" \/ y.job \in contended \/ BodyIsPrefix(y)
        PROVE  ReadersFit'
    <3> SUFFICES ASSUME NEW q \in Readers, Active(q)', dl'[q].job \notin contended
                 PROVE  BodyIsPrefix(dl[q])'
      BY <1>2 DEF ReadersFit
    <3>1. dl'[r] = y /\ \A p \in Readers \ {r} : dl'[p] = dl[p]
      BY <1>0, <2>4, ReaderUpdate
    <3>2. BodyIsPrefix(dl'[q])
      BY <1>0, <2>4, <3>1 DEF Active, ReadersFit
    <3>3. PICK z : z = dl'[q]
      OBVIOUS
    <3>4. BodyIsPrefix(z)'
      BY <1>5, <3>2, <3>3
    <3>5. QED
      BY <3>3, <3>4 DEF BodyIsPrefix
  <2>5. ASSUME NEW j \in Jobs, NEW a \in Artifacts, StartDownload(r, j, a)
        PROVE  ReadersFit'
    <3>1. PICK y \in ReaderState :
            /\ dl' = [dl EXCEPT ![r] = y]
            /\ y.pc = "asking" /\ y.announced = 0 /\ y.body = <<>>
      BY <1>0, <2>5, StartEffect
    <3>2. BodyIsPrefix(y)
      BY <3>1 DEF BodyIsPrefix
    <3>3. QED
      BY <2>4, <3>1, <3>2
  <2>6. CASE ReadMetadata(r)
    <3>1. PICK y \in ReaderState :
            /\ dl' = [dl EXCEPT ![r] = y]
            /\ \/ y.pc = "failed"
               \/ /\ Ready(x.job, x.artifact)
                  /\ y.pc = "reading" /\ y.job = x.job
                  /\ y.artifact = x.artifact
                  /\ y.announced = Announced(x.job, x.artifact)
                  /\ y.body = x.body
      BY <1>0, <2>2, <2>6, ReadMetadataEffect
    <3>2. x.pc = "asking" /\ Active(r)
      BY <2>2, <2>6 DEF ReadMetadata, Active
    <3>3. y.pc = "failed" \/ y.job \in contended \/ BodyIsPrefix(y)
      BY <2>3, <3>1, <3>2, PrefixAtMetadata
    <3>4. QED
      BY <2>4, <3>1, <3>3
  <2>7. CASE ReadObject(r)
    <3>1. PICK y \in ReaderState :
            /\ dl' = [dl EXCEPT ![r] = y]
            /\ \/ y.pc = "failed"
               \/ /\ Stored(x.job, x.artifact) # None
                  /\ y.job = x.job /\ y.artifact = x.artifact
                  /\ y.announced = x.announced
                  /\ y.body = x.body \o Reply(x.job, x.artifact, Len(x.body)).chunk
                  /\ \/ y.pc = "asking"
                     \/ /\ Len(y.body) = Reply(x.job, x.artifact, Len(x.body)).total
                        /\ y.pc = "done"
      BY <1>0, <2>2, <2>7, ReadObjectEffect
    <3>2. x.pc = "reading" /\ Active(r)
      BY <2>2, <2>7 DEF ReadObject, Active
    <3>3. y.pc = "failed" \/ y.job \in contended \/ BodyIsPrefix(y)
      BY <2>3, <3>1, <3>2, PrefixAtObject
    <3>4. QED
      BY <2>4, <3>1, <3>3
  <2>8. CASE RequestFails(r)
    BY <1>0, <2>4, <2>8, FailEffect
  <2>9. QED
    BY <2>1, <2>5, <2>6, <2>7, <2>8 DEF Download
<1>7. QED
  BY <1>1, <1>3, <1>4, <1>6 DEF DownloadInv

LEMMA DownloadStep == DownloadInv /\ [DownloadNext]_allVars => DownloadInv'
<1>1. ASSUME DownloadInv, UNCHANGED allVars PROVE DownloadInv'
  <2>1. UNCHANGED vars /\ UNCHANGED <<dl, version, contended>>
    BY <1>1 DEF allVars, downloadVars
  <2>2. SpoolInv' /\ DownloadTypeOK'
    BY <1>1, DownloadTypeStep DEF DownloadInv
  <2>3. UNCHANGED <<meta, obj, norm, worker, submitted, fate>>
    BY <2>1 DEF vars
  <2>4. StoredWasWritten'
    BY <1>1, <2>1, <2>3 DEF DownloadInv, StoredWasWritten, Stored
  <2>5. UncontendedFit'
    BY <1>1, <2>1, <2>3
    DEF DownloadInv, UncontendedFit, Sole, JobInv, HeldNotComplete, UnfinishedIsBlank,
        CopyIsFresh, HandIsStored, ResultIsStored, HasLength, Present
  <2>6. ReadersFit'
    BY <1>1, <2>1, <2>3
    DEF DownloadInv, ReadersFit, Active, BodyIsPrefix, Settled, Present, Announced, Stored
  <2>7. QED
    BY <2>2, <2>4, <2>5, <2>6 DEF DownloadInv
<1>2. QED
  BY <1>1, EngineStep, ReaderStep DEF DownloadNext

LEMMA DownloadInitInv == DownloadInit => DownloadInv
<1> SUFFICES ASSUME DownloadInit PROVE DownloadInv
  OBVIOUS
<1>1. Init
  BY DEF DownloadInit
<1>2. SpoolInv /\ DownloadTypeOK
  BY DownloadTypeInit
<1>3. StoredWasWritten
  BY <1>1 DEF StoredWasWritten, Stored, Init
<1>4. UncontendedFit
  <2>1. \A w \in Workers : worker[w].job = None
    BY <1>1, IdleType DEF Init
  <2>2. \A j \in Jobs : Sole(j)
    BY <2>1, NoneAssumption DEF Sole
  <2>3. QED
    BY <1>1, <2>2, JobInit DEF UncontendedFit
<1>5. ReadersFit
  <2>1. \A r \in Readers : dl[r].pc = "idle"
    BY BlankType DEF DownloadInit
  <2>2. QED
    BY <2>1 DEF ReadersFit, Active
<1>6. QED
  BY <1>2, <1>3, <1>4, <1>5 DEF DownloadInv

(* relay_download: with any number of workers, what it writes to the       *)
(* output file is one stored result, whole and of the announced length,    *)
(* unless two workers ran the job at once.                                 *)
THEOREM DownloadIsWhole == DownloadSpec => []DownloadIsOneResult
<1>1. DownloadInv => DownloadIsOneResult
  <2> SUFFICES ASSUME DownloadInv, NEW r \in Readers, dl[r].pc = "done",
                      dl[r].job \notin contended
               PROVE  \E v \in 1..version[dl[r].job][dl[r].artifact] :
                        dl[r].body = [i \in 1..dl[r].announced |-> <<v, i>>]
    BY DEF DownloadIsOneResult
  <2> DEFINE v == version[dl[r].job][dl[r].artifact]
             body == dl[r].body
  <2>1. /\ Len(body) = dl[r].announced /\ v >= 1
        /\ \A i \in 1..Len(body) : body[i] = <<v, i>>
    BY DEF DownloadInv, ReadersFit, Active, BodyIsPrefix
  <2>2. v \in Nat /\ body \in Seq(Nat \X Nat)
    <3>1. dl[r].job \in Jobs /\ dl[r].artifact \in Artifacts
      BY ReaderFields DEF DownloadInv, Active
    <3>2. QED
      BY <3>1, ReaderFields DEF DownloadInv, DownloadTypeOK
  <2> HIDE DEF v, body
  <2>3. v \in 1..v
    BY <2>1, <2>2
  <2>4. body = [i \in 1..Len(body) |-> body[i]]
    BY <2>2
  <2>5. body = [i \in 1..dl[r].announced |-> <<v, i>>]
    BY <2>1, <2>4
  <2>6. QED
    BY <2>3, <2>5 DEF v, body
<1>2. QED
  BY <1>1, DownloadInitInv, DownloadStep, PTL DEF DownloadSpec

------------------------------------------------------------------------------
(* What carries over to and from the engine.                               *)

(* Downloads add nothing to what the engine may do, so every theorem about *)
(* Spec is one about the composition.                                      *)
THEOREM DownloadImplementsEngine == DownloadSpec => Spec
<1>1. DownloadInit => Init
  BY DEF DownloadInit
<1>2. [DownloadNext]_allVars => [Next]_vars
  BY DEF DownloadNext, Reading, allVars
<1>3. QED
  BY <1>1, <1>2, PTL DEF DownloadSpec, Spec

(* process_job_inner, with any number of workers: a job that no two        *)
(* workers held at once has its result on disk when it is shown as         *)
(* complete and nobody began to erase it, and stays complete while its     *)
(* metadata stays.                                                         *)
THEOREM UncontendedResults ==
    DownloadSpec =>
        /\ [](\A j \in Jobs \ contended :
                Present(j) /\ meta[j].status = "complete" /\ fate[j] = "kept" =>
                    /\ obj[j] = meta[j].body_len
                    /\ meta[j].normalized_len # None => norm[j] = meta[j].normalized_len)
        /\ [][\A j \in Jobs \ contended :
                Present(j) /\ meta[j].status = "complete" /\ meta'[j] # None
                    => meta'[j].status = "complete"]_allVars
<1>1. DownloadInv =>
        \A j \in Jobs \ contended :
            Present(j) /\ meta[j].status = "complete" /\ fate[j] = "kept" =>
                /\ obj[j] = meta[j].body_len
                /\ meta[j].normalized_len # None => norm[j] = meta[j].normalized_len
  BY DEF DownloadInv, UncontendedFit, JobInv, ResultIsStored, HasLength
<1>2. DownloadInv /\ [DownloadNext]_allVars =>
        \A j \in Jobs \ contended :
            Present(j) /\ meta[j].status = "complete" /\ meta'[j] # None
                => meta'[j].status = "complete"
  <2>1. [DownloadNext]_allVars => [Next]_vars
    BY DEF DownloadNext, Reading, allVars
  <2>2. QED
    BY <2>1, CompleteStays DEF DownloadInv, UncontendedFit
<1>3. QED
  BY <1>1, <1>2, DownloadInitInv, DownloadStep, PTL DEF DownloadSpec
==============================================================================
