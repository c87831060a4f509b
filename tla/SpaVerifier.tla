----------------------------- MODULE SpaVerifier -----------------------------
(***************************************************************************)
(* The SPA verifier of ghostbro-server (src/ghostbro-server/src/spa.rs),   *)
(* as the single task EbpfRuntime::run_spa drives it: signed single-packet *)
(* authorisations are checked against the authorised clients and a per-key *)
(* high-water counter, the counter is written to a file and renamed into   *)
(* place, and only then is the source admitted.  The daemon may be killed  *)
(* between any two steps and started again; the machine may lose power.    *)
(*                                                                         *)
(* A payload is a record of what the checks look at: sealing, signature    *)
(* and encoding are one Boolean, authentic.  The network may deliver any   *)
(* payload of Packets at any time, any number of times and from any        *)
(* address, so loss, duplication, reordering and replay need no action of  *)
(* their own.  A rejected payload changes nothing and has no action.       *)
(***************************************************************************)
EXTENDS Naturals, Sequences

CONSTANTS
    Keys,           \* key ids that appear in payloads or in authorized_keys.toml
    Ips,            \* IPv4 source addresses
    Packets,        \* the payloads that can reach the verifier
    KeyFiles,       \* complete contents the operator gives authorized_keys.toml
    Times,          \* readings of the wall clock (ms)
    TimeWindow,     \* spa.time_window, in the units of Times
    MaxAccepts,     \* bound on the length of the history
    PowerLoss,      \* TRUE: the machine may lose power, not only the process
    NoFile, None    \* model values: no counter file; no payload in hand

Tiers == {"absent", "full", "decoy"}

Packet == [key: Keys, counter: Nat, timestamp_ms: Nat, allow_ip: Ips,
           use_packet_source: BOOLEAN, authentic: BOOLEAN]

Counters == [Keys -> Nat]

LogEntry == [key: Keys, counter: Nat]

ASSUME PacketsAssumption == Packets \subseteq Packet
ASSUME KeyFilesAssumption == KeyFiles \subseteq [Keys -> Tiers]
ASSUME TimesAssumption == Times \subseteq Nat /\ TimeWindow \in Nat
ASSUME MaxAcceptsAssumption == MaxAccepts \in Nat
ASSUME PowerLossAssumption == PowerLoss \in BOOLEAN
ASSUME NoFileAssumption == NoFile \notin Counters
ASSUME NoneAssumption == None \notin Packet

VARIABLES
    clients,        \* SpaVerifier.clients: tier of every key, "absent" if not listed
    highest,        \* SpaVerifier.highest_counters, 0 for a key without an entry
    pc,             \* where the task is
    pending,        \* the payload between its checks and its SpaAccept
    file,           \* counter_state file as the running system sees it
    disk,           \* counter_state file as a power loss would leave it
    keysFile,       \* authorized_keys.toml
    torn,           \* authorized_keys.toml is between truncation and its new content
    events,         \* the reload channel holds a message of the file watcher
    provisioned,    \* the daemon was started once: the INIT switch is off again
    now,            \* wall clock
    log             \* every SpaAccept ever returned, in order (history)

vars == <<clients, highest, pc, pending, file, disk, keysFile, torn, events,
          provisioned, now, log>>

memoryVars == <<clients, highest, pending>>
storageVars == <<file, disk>>
keysVars == <<keysFile, torn>>

ZeroCounters == [k \in Keys |-> 0]
NoClients == [k \in Keys |-> "absent"]

(* The watcher exists from the start of run_spa until the process dies.    *)
Watching == pc \notin {"down", "starting"}

(***************************************************************************)
(* The checks of verify, in the order of the code.                         *)
(***************************************************************************)
AbsDiff(a, b) == IF a < b THEN b - a ELSE a - b

MutVerified(p, src) ==      \* mutant: the signature is not checked
    /\ clients[p.key] = "full"
    /\ AbsDiff(now, p.timestamp_ms) <= TimeWindow
    /\ p.use_packet_source \/ p.allow_ip = src
    /\ p.counter > highest[p.key]

Verified(p, src) ==
    /\ clients[p.key] # "absent"
    /\ p.authentic
    /\ clients[p.key] = "full"
    /\ AbsDiff(now, p.timestamp_ms) <= TimeWindow
    /\ p.use_packet_source \/ p.allow_ip = src
    /\ p.counter > highest[p.key]

MutVerify(p, src) ==        \* mutant: accepted before the counter is saved
    /\ pc = "idle"
    /\ Len(log) < MaxAccepts
    /\ Verified(p, src)
    /\ highest' = [highest EXCEPT ![p.key] = p.counter]
    /\ pending' = p
    /\ pc' = "accept"
    /\ UNCHANGED <<clients, storageVars, keysVars, events, provisioned, now, log>>

(* A payload that passes raises the high-water mark in memory first.       *)
Verify(p, src) ==
    /\ pc = "idle"
    /\ Len(log) < MaxAccepts
    /\ Verified(p, src)
    /\ highest' = [highest EXCEPT ![p.key] = p.counter]
    /\ pending' = p
    /\ pc' = "save"
    /\ UNCHANGED <<clients, storageVars, keysVars, events, provisioned, now, log>>

(* save_counter_state: the temporary file is created, written and synced.  *)
WriteTemp ==
    /\ pc = "save"
    /\ pc' = "rename"
    /\ UNCHANGED <<memoryVars, storageVars, keysVars, events, provisioned, now, log>>

(* save_counter_state: the rename makes the new counters the live file.    *)
(* Nothing syncs the directory, so disk still holds the old one.           *)
Rename ==
    /\ pc = "rename"
    /\ file' = highest
    /\ pc' = "accept"
    /\ UNCHANGED <<memoryVars, disk, keysVars, events, provisioned, now, log>>

(* Any step of save_counter_state may fail: verify returns                 *)
(* SpaVerifyError::Persist with the counter already raised in memory.      *)
PersistFails ==
    /\ pc \in {"save", "rename"}
    /\ pending' = None
    /\ pc' = "idle"
    /\ UNCHANGED <<clients, highest, storageVars, keysVars, events, provisioned, now, log>>

(* verify returns SpaAccept; run_spa admits the source.                    *)
Accept ==
    /\ pc = "accept"
    /\ log' = Append(log, [key |-> pending.key, counter |-> pending.counter])
    /\ pending' = None
    /\ pc' = "idle"
    /\ UNCHANGED <<clients, highest, storageVars, keysVars, events, provisioned, now>>

(***************************************************************************)
(* Hot reload: the operator's editor truncates and rewrites the file, the  *)
(* watcher sends one message for each change it sees, and the task reads   *)
(* whatever the file holds when it gets to the message.                    *)
(***************************************************************************)
BeginEdit ==
    /\ ~torn
    /\ torn' = TRUE
    /\ events' = (events \/ Watching)
    /\ UNCHANGED <<memoryVars, pc, storageVars, keysFile, provisioned, now, log>>

FinishEdit(f) ==
    /\ torn
    /\ torn' = FALSE
    /\ keysFile' = f
    /\ events' = (events \/ Watching)
    /\ UNCHANGED <<memoryVars, pc, storageVars, provisioned, now, log>>

TakeReloadEvent ==
    /\ pc = "idle"
    /\ events
    /\ events' = FALSE
    /\ pc' = "reload"
    /\ UNCHANGED <<memoryVars, storageVars, keysVars, provisioned, now, log>>

MutReloadPrunes ==          \* mutant: removed keys lose their counters
    /\ pc = "reload"
    /\ ~torn
    /\ clients' = keysFile
    /\ highest' = [k \in Keys |-> IF keysFile[k] = "absent" THEN 0 ELSE highest[k]]
    /\ pc' = "idle"
    /\ UNCHANGED <<pending, storageVars, keysVars, events, provisioned, now, log>>

MutReloadMerges ==          \* mutant: removed keys stay in the map
    /\ pc = "reload"
    /\ ~torn
    /\ clients' = [k \in Keys |->
                     IF keysFile[k] = "absent" THEN clients[k] ELSE keysFile[k]]
    /\ pc' = "idle"
    /\ UNCHANGED <<highest, pending, storageVars, keysVars, events, provisioned, now, log>>

(* reload_clients replaces the clients; the counters of removed keys stay. *)
ReloadClients ==
    /\ pc = "reload"
    /\ ~torn
    /\ clients' = keysFile
    /\ pc' = "idle"
    /\ UNCHANGED <<highest, pending, storageVars, keysVars, events, provisioned, now, log>>

(* A file that does not parse leaves the old clients in force.             *)
ReloadFails ==
    /\ pc = "reload"
    /\ torn
    /\ pc' = "idle"
    /\ UNCHANGED <<memoryVars, storageVars, keysVars, events, provisioned, now, log>>

(***************************************************************************)
(* Start, crash and storage.                                               *)
(***************************************************************************)
MutLoadForgets ==           \* mutant: the saved counters are not restored
    /\ pc = "down"
    /\ ~torn
    /\ file # NoFile \/ ~provisioned
    /\ clients' = keysFile
    /\ highest' = ZeroCounters
    /\ pc' = "starting"
    /\ provisioned' = TRUE
    /\ UNCHANGED <<pending, storageVars, keysVars, events, now, log>>

MutLoadMissing ==           \* mutant: a missing file always means first run
    /\ pc = "down"
    /\ ~torn
    /\ clients' = keysFile
    /\ highest' = IF file = NoFile THEN ZeroCounters ELSE file
    /\ pc' = "starting"
    /\ provisioned' = TRUE
    /\ UNCHANGED <<pending, storageVars, keysVars, events, now, log>>

MutLoadRaw ==               \* mutant: no default for a missing file
    /\ pc = "down"
    /\ ~torn
    /\ file # NoFile \/ ~provisioned
    /\ clients' = keysFile
    /\ highest' = file
    /\ pc' = "starting"
    /\ provisioned' = TRUE
    /\ UNCHANGED <<pending, storageVars, keysVars, events, now, log>>

(* load_counter_state: a missing file is an error (the daemon stays down)  *)
(* unless GHOSTBRO_SPA_COUNTER_INIT is set, which the operator does for    *)
(* the first start only.  Clients are read before the watcher exists.      *)
Load ==
    /\ pc = "down"
    /\ ~torn
    /\ file # NoFile \/ ~provisioned
    /\ clients' = keysFile
    /\ highest' = IF file = NoFile THEN ZeroCounters ELSE file
    /\ pc' = "starting"
    /\ provisioned' = TRUE
    /\ UNCHANGED <<pending, storageVars, keysVars, events, now, log>>

(* run_spa installs the watcher and enters its loop.                       *)
StartWatching ==
    /\ pc = "starting"
    /\ pc' = "idle"
    /\ UNCHANGED <<memoryVars, storageVars, keysVars, events, provisioned, now, log>>

LoseMemory ==
    /\ clients' = NoClients
    /\ highest' = ZeroCounters
    /\ pending' = None
    /\ pc' = "down"
    /\ events' = FALSE

(* The process dies; the kernel keeps the renamed file.                    *)
Crash ==
    /\ pc # "down"
    /\ LoseMemory
    /\ UNCHANGED <<storageVars, keysVars, provisioned, now, log>>

(* The machine dies: the directory is what had reached the disk.           *)
LosePower ==
    /\ PowerLoss
    /\ LoseMemory
    /\ file' = disk
    /\ UNCHANGED <<disk, keysVars, provisioned, now, log>>

(* The file system commits the directory in its own time.                  *)
Commit ==
    /\ disk # file
    /\ disk' = file
    /\ UNCHANGED <<memoryVars, pc, file, keysVars, events, provisioned, now, log>>

(* The wall clock is set forwards or backwards.                            *)
SetClock(t) ==
    /\ now' = t
    /\ UNCHANGED <<memoryVars, pc, storageVars, keysVars, events, provisioned, log>>

(***************************************************************************)
(* Specification.                                                          *)
(***************************************************************************)
Init ==
    /\ clients = NoClients
    /\ highest = ZeroCounters
    /\ pc = "down"
    /\ pending = None
    /\ file = NoFile
    /\ disk = NoFile
    /\ keysFile \in KeyFiles
    /\ torn = FALSE
    /\ events = FALSE
    /\ provisioned = FALSE
    /\ now \in Times
    /\ log = <<>>

VerifyAny == \E p \in Packets, src \in Ips : Verify(p, src)
SetAnyClock == \E t \in Times : SetClock(t)
FinishAnyEdit == \E f \in KeyFiles : FinishEdit(f)

Next ==
    \/ VerifyAny
    \/ WriteTemp
    \/ Rename
    \/ PersistFails
    \/ Accept
    \/ BeginEdit
    \/ FinishAnyEdit
    \/ TakeReloadEvent
    \/ ReloadClients
    \/ ReloadFails
    \/ Load
    \/ StartWatching
    \/ Crash
    \/ LosePower
    \/ Commit
    \/ SetAnyClock

Spec == Init /\ [][Next]_vars

(* run_spa is one task of a running executor: a step it can take is taken. *)
(* TakeReloadEvent needs strong fairness: each round of the loop drains    *)
(* the reload channel once the payload queues are empty, and the XDP rate  *)
(* limit keeps the arrival of payloads below what verify can consume.      *)
Fairness ==
    /\ WF_vars(WriteTemp \/ Rename \/ Accept \/ StartWatching)
    /\ WF_vars(ReloadClients \/ ReloadFails)
    /\ SF_vars(TakeReloadEvent)

FairSpec == Spec /\ Fairness

(***************************************************************************)
(* Properties.                                                             *)
(***************************************************************************)
\* Every variable keeps the type the code gives it; a payload is in hand from
\* its checks to its SpaAccept.
TypeOK ==
    /\ clients \in [Keys -> Tiers]
    /\ highest \in Counters
    /\ pc \in {"down", "starting", "idle", "save", "rename", "accept", "reload"}
    /\ pending \in Packets \cup {None}
    /\ pc \in {"save", "rename", "accept"} => pending \in Packets
    /\ file \in Counters \cup {NoFile}
    /\ disk \in Counters \cup {NoFile}
    /\ keysFile \in [Keys -> Tiers]
    /\ torn \in BOOLEAN
    /\ events \in BOOLEAN
    /\ provisioned \in BOOLEAN
    /\ now \in Nat
    /\ log \in Seq(LogEntry)

\* No payload is accepted twice, and none after a newer one of the same key:
\* over crashes, restarts, failed writes and reloads that drop a key and list
\* it again, the counters verify accepts for a key strictly increase.
AcceptedCountersIncrease ==
    \A i, j \in 1..Len(log) :
        i < j /\ log[i].key = log[j].key => log[i].counter < log[j].counter

\* Write-then-accept: whatever was accepted is covered by the counter file a
\* restarted daemon will load.
AcceptedIsRecorded ==
    \A i \in 1..Len(log) :
        file # NoFile /\ log[i].counter <= file[log[i].key]

\* Forged, unknown-key and unbound payloads cannot push a client's counter
\* ahead of the client: every counter in memory or in the file is zero or the
\* counter of a payload that key signed.
CountersWereSigned ==
    \A k \in Keys :
        LET signed == {0} \cup {p.counter : p \in {q \in Packets : q.key = k /\ q.authentic}}
        IN  /\ highest[k] \in signed
            /\ file # NoFile => file[k] \in signed

\* The counter file is never lost and never moves backwards, whatever fails,
\* reloads or restarts.
CounterFileNeverRegresses ==
    [][file # NoFile => /\ file' # NoFile
                        /\ \A k \in Keys : file[k] <= file'[k]]_file

\* The verifier implements the abstract guard: its recorded counters are those
\* of the counter file, its authorisations the SpaAccepts.
Guard == INSTANCE ReplayGuard WITH
            recorded <- IF file = NoFile THEN ZeroCounters ELSE file

ImplementsGuard == Guard!Spec

\* Losing the counter file never resets the replay protection: once anything
\* was accepted, a daemon whose file is gone does not come up.
LostFileFailsClosed == file = NoFile /\ log # <<>> => pc = "down"

\* A key is revoked: authorized_keys.toml is complete and does not list it.
Revoked(k) == ~torn /\ keysFile[k] = "absent"

\* A removal the watcher reported takes effect without a restart.
ReportedRevocationTakesEffect ==
    \A k \in Keys :
        (Revoked(k) /\ events) ~> (clients[k] = "absent" \/ ~Revoked(k))
==============================================================================
