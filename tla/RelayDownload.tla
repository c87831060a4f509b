---------------------------- MODULE RelayDownload ----------------------------
(***************************************************************************)
(* Downloads from the Ghost Relay: relay_download of the client            *)
(* (src/ghostbro-client/src/main.rs), which fetches a result in chunks     *)
(* over one connection each, composed with the job engine, whose download  *)
(* (src/ghostbro-server/src/relay.rs) reads the metadata file and then the *)
(* object file while workers, deletes, the reaper and crashes go on.       *)
(*                                                                         *)
(* A byte of a result is its position together with the version of the     *)
(* file it was read from: a job that is fetched again may bring other      *)
(* bytes of the same length.                                               *)
(***************************************************************************)
EXTENDS RelayEngine, FiniteSetsExt

CONSTANTS
    Readers,        \* relay_download processes, one download each
    Chunk           \* the chunk length both sides agree on

ASSUME ChunkAssumption == Chunk \in Nat \ {0}
ASSUME WorkersAssumption == IsFiniteSet(Workers)

Artifacts == {"primary", "normalized"}

VARIABLES
    dl,             \* per reader: the request under way and relay_download's locals
    version,        \* per job and artifact: how often the file was written (history)
    contended       \* jobs that two workers held at once (history)

downloadVars == <<dl, version, contended>>
allVars == <<vars, downloadVars>>

Blank(p) == [pc |-> p, job |-> None, artifact |-> "primary", announced |-> 0,
             body |-> <<>>]

(***************************************************************************)
(* relay_download and the requests it makes.                               *)
(***************************************************************************)
StartDownload(r, j, a) ==
    /\ dl[r].pc = "idle"
    /\ dl' = [dl EXCEPT ![r] = [Blank("asking") EXCEPT !.job = j, !.artifact = a]]

Announced(j, a) ==
    IF a = "primary" THEN meta[j].body_len ELSE meta[j].normalized_len

Stored(j, a) == IF a = "primary" THEN obj[j] ELSE norm[j]

MutReadyStatus(j, a) ==     \* mutant: the status is not looked at
    /\ Present(j) /\ j \notin expired
    /\ Announced(j, a) # None

MutReadyArtifact(j, a) ==   \* mutant: markdown is taken to exist
    /\ Present(j) /\ j \notin expired
    /\ meta[j].status = "complete"

\* What the metadata has to say before the object is opened.
Ready(j, a) ==
    /\ Present(j) /\ j \notin expired
    /\ meta[j].status = "complete"
    /\ Announced(j, a) # None

\* download up to fs::read; every other answer ends relay_download.
ReadMetadata(r) ==
    LET j == dl[r].job
        a == dl[r].artifact IN
    /\ dl[r].pc = "asking"
    /\ dl' = [dl EXCEPT ![r] =
           IF Ready(j, a)
           THEN [@ EXCEPT !.pc = "reading", !.announced = Announced(j, a)]
           ELSE Blank("failed")]

MutTerminal(end, total) == end > total      \* mutant: off by one
Terminal(end, total) == end >= total

\* The object is read whole and the chunk cut out of it.
Reply(j, a, offset) ==
    LET total == Stored(j, a)
        start == Min({offset, total})
        end == Min({total, start + Chunk})
    IN [terminal |-> Terminal(end, total), total |-> total,
        chunk |-> [i \in 1..(end - start) |-> <<version[j][a], start + i>>]]

\* The client appends the chunk, then asks for the next one or compares what it
\* has with the total.
ReadObject(r) ==
    LET j == dl[r].job
        a == dl[r].artifact
        reply == Reply(j, a, Len(dl[r].body))
        body == dl[r].body \o reply.chunk IN
    /\ dl[r].pc = "reading"
    /\ dl' = [dl EXCEPT ![r] =
           IF Stored(j, a) = None THEN Blank("failed")
           ELSE IF ~reply.terminal
           THEN [@ EXCEPT !.pc = "asking", !.body = body]
           ELSE IF Len(body) = reply.total
           THEN [@ EXCEPT !.pc = "done", !.body = body]
           ELSE Blank("failed")]

\* No connection, no answer, or no file to write the result to.
RequestFails(r) ==
    /\ dl[r].pc \in {"asking", "reading"}
    /\ dl' = [dl EXCEPT ![r] = Blank("failed")]

Download(r) == ReadMetadata(r) \/ ReadObject(r) \/ RequestFails(r)

(***************************************************************************)
(* A step of the engine: a crash ends the requests under way; the history  *)
(* variables follow the workers.                                           *)
(***************************************************************************)
Writes(w, j, a) ==
    /\ worker[w].job = j
    /\ IF a = "primary"
       THEN worker[w].pc = "storing" /\ worker'[w].pc = "normalizing"
       ELSE worker[w].pc = "normalizing" /\ worker'[w].pc = "finishing"

Observed ==
    /\ dl' = [r \in Readers |->
           IF crashes' # crashes /\ dl[r].pc = "reading" THEN Blank("failed") ELSE dl[r]]
    /\ version' = [j \in Jobs |-> [a \in Artifacts |->
           version[j][a] + Cardinality({ w \in Workers : Writes(w, j, a) })]]
    /\ contended' = contended \cup
           { j \in Jobs : Cardinality({ w \in Workers : worker'[w].job = j }) > 1 }

(***************************************************************************)
(* The specification.                                                      *)
(***************************************************************************)
DownloadInit ==
    /\ Init
    /\ dl = [r \in Readers |-> Blank("idle")]
    /\ version = [j \in Jobs |-> [a \in Artifacts |-> 0]]
    /\ contended = {}

Reading ==
    /\ \E r \in Readers :
           \/ \E j \in Jobs, a \in Artifacts : StartDownload(r, j, a)
           \/ Download(r)
    /\ UNCHANGED <<vars, version, contended>>

DownloadNext == (Next /\ Observed) \/ Reading

\* Every worker task keeps running (a fetch has a timeout, so it ends one way or
\* the other), the recovery task runs to its end, and so does every request.
DownloadSpec ==
    /\ DownloadInit /\ [][DownloadNext]_allVars
    /\ \A w \in Workers : WF_allVars(Work(w) /\ Observed)
    /\ WF_allVars((\E j \in Jobs : Recover(j)) /\ Observed)
    /\ \A r \in Readers : WF_allVars(Download(r) /\ UNCHANGED <<vars, version, contended>>)

(***************************************************************************)
(* Properties.                                                             *)
(***************************************************************************)

(* Types of relay_download's locals: a request that got past the metadata   *)
(* names a job and an artifact whose length is known (relay.rs, download).  *)
DownloadTypeOK ==
    /\ dl \in [Readers -> [pc: {"idle", "asking", "reading", "done", "failed"},
                          job: Jobs \cup {None}, artifact: Artifacts,
                          announced: Nat, body: Seq(Nat \X Nat)]]
    /\ \A r \in Readers : dl[r].pc \in {"asking", "reading", "done"} => dl[r].job \in Jobs
    /\ version \in [Jobs -> [Artifacts -> Nat]]
    /\ contended \subseteq Jobs

(* relay_download: what it writes to the output file is one stored result,  *)
(* whole and of the length the metadata announced, although every chunk is  *)
(* a request of its own and the job may be deleted, reaped, interrupted by  *)
(* a crash or run again between two of them.  The one way to a mixture is   *)
(* that two workers ran the job at once, which recover_pending allows for a *)
(* job submitted during its scan.                                           *)
DownloadIsOneResult ==
    \A r \in Readers :
        dl[r].pc = "done" /\ dl[r].job \notin contended =>
            \E v \in 1..version[dl[r].job][dl[r].artifact] :
                dl[r].body = [i \in 1..dl[r].announced |-> <<v, i>>]

(* relay_download: the loop over the chunks ends, for results of any length *)
(* (none, a multiple of the chunk, one more).                               *)
DownloadsEnd ==
    \A r \in Readers : dl[r].pc \in {"asking", "reading"} ~> dl[r].pc \in {"done", "failed"}
=============================================================================
