-------------------------- MODULE SpaVerifierProofs --------------------------
(***************************************************************************)
(* Proofs about SpaVerifier for every set of keys, payloads, clock         *)
(* readings and key files.  The replay results hold for process crashes    *)
(* and restarts (PowerLoss = FALSE); that a power loss breaks them is what *)
(* the run spa_power_replay shows.  That only signed counters get in, and  *)
(* that a missing counter file keeps the daemon down, needs no hypothesis. *)
(***************************************************************************)
EXTENDS SpaVerifier, TLAPS

(* Between the checks and the SpaAccept, the payload in hand carries the   *)
(* counter that memory holds for its key, above all accepted so far.       *)
PendingIsNewest ==
    pc \in {"save", "rename", "accept"} =>
        /\ highest[pending.key] = pending.counter
        /\ \A i \in 1..Len(log) :
              log[i].key = pending.key => log[i].counter < pending.counter

(* A running daemon's memory is never behind the file it loaded.           *)
MemoryCoversFile ==
    pc # "down" /\ file # NoFile => \A k \in Keys : file[k] <= highest[k]

(* When verify returns, the file holds exactly what memory holds.          *)
SavedBeforeAccept == pc = "accept" => file = highest

IInv ==
    /\ TypeOK
    /\ AcceptedCountersIncrease
    /\ AcceptedIsRecorded
    /\ PendingIsNewest
    /\ MemoryCoversFile
    /\ SavedBeforeAccept

------------------------------------------------------------------------------
(* Type correctness.                                                       *)

LEMMA TypeInit == Init => TypeOK
<1> SUFFICES ASSUME Init PROVE TypeOK
  OBVIOUS
<1>1. clients \in [Keys -> Tiers] /\ highest \in Counters
  BY DEF Init, NoClients, ZeroCounters, Counters, Tiers
<1>2. keysFile \in [Keys -> Tiers] /\ now \in Nat
  BY KeyFilesAssumption, TimesAssumption DEF Init
<1>3. log \in Seq(LogEntry)
  BY DEF Init
<1>4. QED
  BY <1>1, <1>2, <1>3 DEF Init, TypeOK

LEMMA TypeStep == TypeOK /\ [Next]_vars => TypeOK'
<1> SUFFICES ASSUME TypeOK, [Next]_vars PROVE TypeOK'
  OBVIOUS
<1> USE DEF TypeOK, storageVars, memoryVars, keysVars
<1>1. ASSUME NEW p \in Packets, NEW src \in Ips, Verify(p, src) PROVE TypeOK'
  <2>1. p.key \in Keys /\ p.counter \in Nat
    BY PacketsAssumption DEF Packet
  <2>2. highest' \in Counters
    BY <1>1, <2>1 DEF Verify, Counters
  <2>3. QED
    BY <1>1, <2>2 DEF Verify
<1>2. CASE WriteTemp
  BY <1>2 DEF WriteTemp
<1>3. CASE Rename
  BY <1>3 DEF Rename
<1>4. CASE PersistFails
  BY <1>4 DEF PersistFails
<1>5. CASE Accept
  <2>1. pending.key \in Keys /\ pending.counter \in Nat
    BY <1>5, PacketsAssumption DEF Accept, Packet
  <2>2. [key |-> pending.key, counter |-> pending.counter] \in LogEntry
    BY <2>1 DEF LogEntry
  <2>3. log' \in Seq(LogEntry)
    BY <1>5, <2>2 DEF Accept
  <2>4. QED
    BY <1>5, <2>3 DEF Accept
<1>6. CASE BeginEdit
  BY <1>6 DEF BeginEdit, Watching
<1>7. ASSUME NEW f \in KeyFiles, FinishEdit(f) PROVE TypeOK'
  BY <1>7, KeyFilesAssumption DEF FinishEdit, Watching
<1>8. CASE TakeReloadEvent
  BY <1>8 DEF TakeReloadEvent
<1>9. CASE ReloadClients
  BY <1>9 DEF ReloadClients
<1>10. CASE ReloadFails
  BY <1>10 DEF ReloadFails
<1>11. CASE Load
  BY <1>11 DEF Load, ZeroCounters, Counters
<1>12. CASE StartWatching
  BY <1>12 DEF StartWatching
<1>13. CASE Crash
  BY <1>13 DEF Crash, LoseMemory, NoClients, ZeroCounters, Counters, Tiers
<1>14. CASE LosePower
  BY <1>14 DEF LosePower, LoseMemory, NoClients, ZeroCounters, Counters, Tiers
<1>15. CASE Commit
  BY <1>15 DEF Commit
<1>16. ASSUME NEW t \in Times, SetClock(t) PROVE TypeOK'
  BY <1>16, TimesAssumption DEF SetClock
<1>17. CASE UNCHANGED vars
  BY <1>17 DEF vars
<1>18. QED
  BY <1>1, <1>2, <1>3, <1>4, <1>5, <1>6, <1>7, <1>8, <1>9, <1>10, <1>11,
     <1>12, <1>13, <1>14, <1>15, <1>16, <1>17
     DEF Next, VerifyAny, FinishAnyEdit, SetAnyClock

(* Every reachable state of the verifier, its files and its history is     *)
(* well typed (spa.rs, SpaVerifier and CounterStateFile).                  *)
THEOREM TypeCorrect == Spec => []TypeOK
BY TypeInit, TypeStep, PTL DEF Spec

------------------------------------------------------------------------------
(* Replay protection.                                                      *)

LEMMA IndInit == Init => IInv
<1> SUFFICES ASSUME Init PROVE IInv
  OBVIOUS
<1>1. TypeOK
  BY TypeInit
<1>2. Len(log) = 0
  BY DEF Init
<1>3. QED
  BY <1>1, <1>2 DEF Init, IInv, AcceptedCountersIncrease, AcceptedIsRecorded,
                    PendingIsNewest, MemoryCoversFile, SavedBeforeAccept

(* The rest of the invariant after a step that touches neither the history *)
(* nor the files nor the counters in memory, and does not move the task    *)
(* towards an SpaAccept.                                                   *)
LEMMA QuietStep ==
    ASSUME IInv, TypeOK', UNCHANGED <<log, file, highest>>,
           pc = "down" => pc' = "down",
           \/ pc' = pc /\ pending' = pending
           \/ pc = "save" /\ pc' = "rename" /\ pending' = pending
           \/ pc' \notin {"save", "rename", "accept"}
    PROVE  IInv'
<1> USE DEF IInv
<1>1. AcceptedCountersIncrease' /\ AcceptedIsRecorded'
  BY DEF AcceptedCountersIncrease, AcceptedIsRecorded
<1>2. PendingIsNewest'
  BY DEF PendingIsNewest
<1>3. MemoryCoversFile' /\ SavedBeforeAccept'
  BY DEF MemoryCoversFile, SavedBeforeAccept
<1>4. QED
  BY <1>1, <1>2, <1>3

LEMMA LogEntryType ==
    ASSUME TypeOK, NEW i \in 1..Len(log)
    PROVE  log[i].key \in Keys /\ log[i].counter \in Nat
<1>1. log \in Seq(LogEntry)
  BY DEF TypeOK
<1>2. log[i] \in LogEntry
  BY <1>1
<1>3. QED
  BY <1>2 DEF LogEntry

LEMMA VerifyStep ==
    ASSUME IInv, TypeOK', NEW p \in Packets, NEW src \in Ips, Verify(p, src)
    PROVE  IInv'
<1> USE DEF IInv
<1>0. p.key \in Keys /\ p.counter \in Nat
  BY PacketsAssumption DEF Packet
<1>1. /\ pc = "idle" /\ pc' = "save" /\ pending' = p
      /\ p.counter > highest[p.key]
      /\ highest' = [highest EXCEPT ![p.key] = p.counter]
      /\ file' = file /\ log' = log
  BY DEF Verify, Verified, storageVars
<1>2. AcceptedCountersIncrease' /\ AcceptedIsRecorded'
  BY <1>1 DEF AcceptedCountersIncrease, AcceptedIsRecorded
<1>3. \A k \in Keys : highest[k] <= highest'[k]
  BY <1>0, <1>1 DEF TypeOK, Counters
<1>4. PendingIsNewest'
  <2>1. highest'[p.key] = p.counter
    BY <1>0, <1>1 DEF TypeOK, Counters
  <2>2. ASSUME NEW i \in 1..Len(log), log[i].key = p.key
        PROVE  log[i].counter < p.counter
    <3>1. file # NoFile /\ log[i].counter <= file[p.key]
      BY <2>2 DEF AcceptedIsRecorded
    <3>2. file[p.key] <= highest[p.key]
      BY <1>0, <1>1, <3>1 DEF MemoryCoversFile
    <3>3. log[i].counter \in Nat
      BY LogEntryType
    <3>4. file[p.key] \in Nat /\ highest[p.key] \in Nat
      BY <1>0, <3>1 DEF TypeOK, Counters
    <3>5. QED
      BY <1>0, <1>1, <3>1, <3>2, <3>3, <3>4
  <2>3. QED
    BY <1>1, <2>1, <2>2 DEF PendingIsNewest
<1>5. MemoryCoversFile'
  <2>1. ASSUME NEW k \in Keys, file # NoFile PROVE file[k] <= highest'[k]
    <3>1. file[k] <= highest[k]
      BY <1>1, <2>1 DEF MemoryCoversFile
    <3>2. file[k] \in Nat /\ highest[k] \in Nat /\ highest'[k] \in Nat
      BY <2>1 DEF TypeOK, Counters
    <3>3. QED
      BY <1>3, <3>1, <3>2
  <2>2. QED
    BY <1>1, <2>1 DEF MemoryCoversFile
<1>6. SavedBeforeAccept'
  BY <1>1 DEF SavedBeforeAccept
<1>7. QED
  BY <1>2, <1>4, <1>5, <1>6

LEMMA RenameStep ==
    ASSUME IInv, TypeOK', Rename
    PROVE  IInv'
<1> USE DEF IInv
<1>1. /\ pc = "rename" /\ pc' = "accept" /\ pending' = pending
      /\ highest' = highest /\ file' = highest /\ log' = log
  BY DEF Rename, memoryVars
<1>2. file' # NoFile
  BY <1>1, NoFileAssumption DEF TypeOK
<1>3. AcceptedCountersIncrease'
  BY <1>1 DEF AcceptedCountersIncrease
<1>4. AcceptedIsRecorded'
  <2>1. ASSUME NEW i \in 1..Len(log) PROVE log[i].counter <= highest[log[i].key]
    <3>1. log[i].key \in Keys /\ log[i].counter \in Nat
      BY LogEntryType
    <3>2. file # NoFile /\ log[i].counter <= file[log[i].key]
      BY DEF AcceptedIsRecorded
    <3>3. file[log[i].key] <= highest[log[i].key]
      BY <1>1, <3>1, <3>2 DEF MemoryCoversFile
    <3>4. file[log[i].key] \in Nat /\ highest[log[i].key] \in Nat
      BY <3>1, <3>2 DEF TypeOK, Counters
    <3>5. QED
      BY <3>1, <3>2, <3>3, <3>4
  <2>2. QED
    BY <1>1, <1>2, <2>1 DEF AcceptedIsRecorded
<1>5. PendingIsNewest'
  BY <1>1 DEF PendingIsNewest
<1>6. MemoryCoversFile'
  BY <1>1 DEF MemoryCoversFile, TypeOK, Counters
<1>7. SavedBeforeAccept'
  BY <1>1 DEF SavedBeforeAccept
<1>8. QED
  BY <1>3, <1>4, <1>5, <1>6, <1>7

LEMMA AcceptStep ==
    ASSUME IInv, TypeOK', Accept
    PROVE  IInv'
<1> USE DEF IInv
<1> DEFINE new == [key |-> pending.key, counter |-> pending.counter]
<1>1. /\ pc = "accept" /\ pc' = "idle"
      /\ highest' = highest /\ file' = file /\ log' = Append(log, new)
  BY DEF Accept, storageVars
<1>2. pending.key \in Keys /\ pending.counter \in Nat
  BY <1>1, PacketsAssumption DEF TypeOK, Packet
<1>3. /\ Len(log') = Len(log) + 1
      /\ log'[Len(log) + 1] = new
      /\ \A i \in 1..Len(log) : log'[i] = log[i]
      /\ Len(log) \in Nat
  <2>1. new \in LogEntry
    BY <1>2 DEF LogEntry
  <2>2. log \in Seq(LogEntry)
    BY DEF TypeOK
  <2>3. QED
    BY <1>1, <2>1, <2>2
<1>4. AcceptedCountersIncrease'
  <2> SUFFICES ASSUME NEW i \in 1..Len(log'), NEW j \in 1..Len(log'),
                      i < j, log'[i].key = log'[j].key
               PROVE  log'[i].counter < log'[j].counter
    BY DEF AcceptedCountersIncrease
  <2>1. CASE j = Len(log) + 1
    BY <1>1, <1>3, <2>1 DEF PendingIsNewest
  <2>2. CASE j \in 1..Len(log)
    BY <1>3, <2>2 DEF AcceptedCountersIncrease
  <2>3. QED
    BY <1>3, <2>1, <2>2
<1>5. AcceptedIsRecorded'
  <2> SUFFICES ASSUME NEW i \in 1..Len(log')
               PROVE  file # NoFile /\ log'[i].counter <= file[log'[i].key]
    BY <1>1 DEF AcceptedIsRecorded
  <2>1. CASE i = Len(log) + 1
    <3>1. file = highest /\ file # NoFile
      BY <1>1, NoFileAssumption DEF SavedBeforeAccept, TypeOK
    <3>2. file[pending.key] = pending.counter
      BY <1>1, <3>1 DEF PendingIsNewest
    <3>3. QED
      BY <1>2, <1>3, <2>1, <3>1, <3>2
  <2>2. CASE i \in 1..Len(log)
    BY <1>3, <2>2 DEF AcceptedIsRecorded
  <2>3. QED
    BY <1>3, <2>1, <2>2
<1>6. PendingIsNewest' /\ SavedBeforeAccept'
  BY <1>1 DEF PendingIsNewest, SavedBeforeAccept
<1>7. MemoryCoversFile'
  BY <1>1 DEF MemoryCoversFile
<1>8. QED
  BY <1>4, <1>5, <1>6, <1>7

LEMMA LoadStep ==
    ASSUME IInv, TypeOK', Load
    PROVE  IInv'
<1> USE DEF IInv
<1>1. /\ pc' = "starting" /\ file' = file /\ log' = log
      /\ highest' = IF file = NoFile THEN ZeroCounters ELSE file
  BY DEF Load, storageVars
<1>2. AcceptedCountersIncrease' /\ AcceptedIsRecorded'
  BY <1>1 DEF AcceptedCountersIncrease, AcceptedIsRecorded
<1>3. PendingIsNewest' /\ SavedBeforeAccept'
  BY <1>1 DEF PendingIsNewest, SavedBeforeAccept
<1>4. MemoryCoversFile'
  BY <1>1 DEF MemoryCoversFile, TypeOK, Counters
<1>5. QED
  BY <1>2, <1>3, <1>4

LEMMA CrashStep ==
    ASSUME IInv, TypeOK', Crash
    PROVE  IInv'
<1> USE DEF IInv
<1>1. pc' = "down" /\ file' = file /\ log' = log
  BY DEF Crash, LoseMemory, storageVars
<1>2. QED
  BY <1>1 DEF AcceptedCountersIncrease, AcceptedIsRecorded, PendingIsNewest,
              MemoryCoversFile, SavedBeforeAccept

LEMMA IndStep ==
    ASSUME PowerLoss = FALSE
    PROVE  IInv /\ [Next]_vars => IInv'
<1> SUFFICES ASSUME IInv, [Next]_vars PROVE IInv'
  OBVIOUS
<1>1. TypeOK'
  BY TypeStep DEF IInv
<1> USE DEF storageVars, memoryVars, keysVars
<1>2. ASSUME NEW p \in Packets, NEW src \in Ips, Verify(p, src) PROVE IInv'
  BY <1>1, <1>2, VerifyStep
<1>3. CASE Rename
  BY <1>1, <1>3, RenameStep
<1>4. CASE Accept
  BY <1>1, <1>4, AcceptStep
<1>5. CASE Load
  BY <1>1, <1>5, LoadStep
<1>6. CASE Crash
  BY <1>1, <1>6, CrashStep
<1>7. CASE WriteTemp
  BY <1>1, <1>7, QuietStep DEF WriteTemp
<1>8. CASE PersistFails
  BY <1>1, <1>8, QuietStep DEF PersistFails
<1>9. CASE BeginEdit
  BY <1>1, <1>9, QuietStep DEF BeginEdit
<1>10. ASSUME NEW f \in KeyFiles, FinishEdit(f) PROVE IInv'
  BY <1>1, <1>10, QuietStep DEF FinishEdit
<1>11. CASE TakeReloadEvent
  BY <1>1, <1>11, QuietStep DEF TakeReloadEvent
<1>12. CASE ReloadClients
  BY <1>1, <1>12, QuietStep DEF ReloadClients
<1>13. CASE ReloadFails
  BY <1>1, <1>13, QuietStep DEF ReloadFails
<1>14. CASE StartWatching
  BY <1>1, <1>14, QuietStep DEF StartWatching
<1>15. CASE Commit
  BY <1>1, <1>15, QuietStep DEF Commit
<1>16. ASSUME NEW t \in Times, SetClock(t) PROVE IInv'
  BY <1>1, <1>16, QuietStep DEF SetClock
<1>17. CASE UNCHANGED vars
  BY <1>1, <1>17, QuietStep DEF vars
<1>18. ~LosePower
  BY DEF LosePower
<1>19. QED
  BY <1>2, <1>3, <1>4, <1>5, <1>6, <1>7, <1>8, <1>9, <1>10, <1>11, <1>12,
     <1>13, <1>14, <1>15, <1>16, <1>17, <1>18
     DEF Next, VerifyAny, FinishAnyEdit, SetAnyClock

(* If only the process can die, the counters verify accepts for a key      *)
(* strictly increase for ever: no payload is accepted twice (spa.rs,       *)
(* verify: write the counter, then accept).                                *)
THEOREM ReplayProtection ==
    ASSUME PowerLoss = FALSE
    PROVE  Spec => []AcceptedCountersIncrease
<1>1. IInv => AcceptedCountersIncrease
  BY DEF IInv
<1>2. QED
  BY IndInit, IndStep, <1>1, PTL DEF Spec

(* If only the process can die, whatever was accepted is covered by the    *)
(* counter file a restarted daemon loads (spa.rs, save_counter_state).     *)
THEOREM WriteThenAccept ==
    ASSUME PowerLoss = FALSE
    PROVE  Spec => []AcceptedIsRecorded
<1>1. IInv => AcceptedIsRecorded
  BY DEF IInv
<1>2. QED
  BY IndInit, IndStep, <1>1, PTL DEF Spec

------------------------------------------------------------------------------
(* The counter file and the abstract guard.                                *)

(* The file changes only when a rename puts memory's counters in place,    *)
(* the history only when verify returns an SpaAccept.                      *)
LEMMA WhoWrites ==
    ASSUME PowerLoss = FALSE, [Next]_vars
    PROVE  /\ Rename \/ file' = file
           /\ Accept \/ log' = log
           /\ Rename => log' = log
BY DEF Next, vars, storageVars, memoryVars, keysVars, VerifyAny, Verify,
       WriteTemp, Rename, PersistFails, Accept, BeginEdit, FinishAnyEdit,
       FinishEdit, TakeReloadEvent, ReloadClients, ReloadFails, Load,
       StartWatching, Crash, LosePower, Commit, SetAnyClock, SetClock

LEMMA FileGrows ==
    ASSUME PowerLoss = FALSE, IInv, [Next]_vars, file # NoFile
    PROVE  /\ file' # NoFile
           /\ \A k \in Keys : file[k] <= file'[k]
<1>1. CASE file' = file
  BY <1>1 DEF IInv, TypeOK, Counters
<1>2. CASE Rename
  <2>1. file' = highest /\ pc # "down"
    BY <1>2 DEF Rename
  <2>2. QED
    BY <2>1, NoFileAssumption DEF IInv, MemoryCoversFile, TypeOK
<1>3. QED
  BY <1>1, <1>2, WhoWrites

(* If only the process can die, the counter file is never lost and never   *)
(* moves backwards (spa.rs, save_counter_state and load_counter_state).    *)
THEOREM FileNeverRegresses ==
    ASSUME PowerLoss = FALSE
    PROVE  Spec => CounterFileNeverRegresses
<1>1. IInv /\ [Next]_vars =>
        [file # NoFile => /\ file' # NoFile
                          /\ \A k \in Keys : file[k] <= file'[k]]_file
  BY FileGrows
<1>2. QED
  BY IndInit, IndStep, <1>1, PTL DEF Spec, CounterFileNeverRegresses

LEMMA GuardInit == Init => Guard!Init
BY DEF Init, Guard!Init, ZeroCounters

LEMMA GuardStep ==
    ASSUME PowerLoss = FALSE
    PROVE  IInv /\ [Next]_vars => [Guard!Next]_Guard!guardVars
<1> DEFINE rec == IF file = NoFile THEN ZeroCounters ELSE file
<1> SUFFICES ASSUME IInv, [Next]_vars,
                    ~(rec' = rec /\ log' = log)
             PROVE  Guard!Next
  BY DEF Guard!guardVars
<1>1. CASE Rename
  <2>1. log' = log /\ file' = highest
    BY <1>1, WhoWrites DEF Rename
  <2>2. rec' = highest /\ highest \in [Keys -> Nat]
    BY <2>1, NoFileAssumption DEF IInv, TypeOK, Counters
  <2>3. \A k \in Keys : rec[k] <= rec'[k]
    <3>1. CASE file = NoFile
      BY <2>2, <3>1 DEF ZeroCounters
    <3>2. CASE file # NoFile
      BY <2>1, <2>2, <3>2, FileGrows
    <3>3. QED
      BY <3>1, <3>2
  <2>4. Guard!Record
    BY <2>1, <2>2, <2>3 DEF Guard!Record
  <2>5. QED
    BY <2>4 DEF Guard!Next
<1>2. CASE ~Rename
  <2>1. file' = file /\ Accept
    BY <1>2, WhoWrites
  <2>2. pc = "accept" /\ pending.key \in Keys
    BY <2>1, PacketsAssumption DEF Accept, IInv, TypeOK, Packet
  <2>3. file = highest /\ file # NoFile
    BY <2>2, NoFileAssumption DEF IInv, SavedBeforeAccept, TypeOK
  <2>4. rec = file /\ rec[pending.key] = pending.counter
    BY <2>2, <2>3 DEF IInv, PendingIsNewest
  <2>5. \A i \in 1..Len(log) :
            log[i].key = pending.key => log[i].counter < rec[pending.key]
    BY <2>2, <2>4 DEF IInv, PendingIsNewest
  <2>6. log' = Append(log, [key |-> pending.key, counter |-> rec[pending.key]])
    BY <2>1, <2>4 DEF Accept
  <2>7. Guard!Issue(pending.key)
    BY <2>1, <2>5, <2>6 DEF Guard!Issue
  <2>8. QED
    BY <2>2, <2>7 DEF Guard!Next
<1>3. QED
  BY <1>1, <1>2

(* If only the process can die, the verifier with its file, its reloads    *)
(* and its restarts implements the abstract guard: counters are recorded   *)
(* in increasing order and each is used for at most one authorisation.     *)
THEOREM GuardImplemented ==
    ASSUME PowerLoss = FALSE
    PROVE  Spec => ImplementsGuard
BY IndInit, IndStep, GuardInit, GuardStep, PTL DEF Spec, ImplementsGuard, Guard!Spec


------------------------------------------------------------------------------
(* What survives even a power loss.                                        *)

Signed(k) == {0} \cup {p.counter : p \in {q \in Packets : q.key = k /\ q.authentic}}

(* Whatever a start may load, from the directory as the system sees it or  *)
(* as a power loss leaves it, holds counters the clients signed.           *)
SignedInv ==
    /\ \A k \in Keys : highest[k] \in Signed(k)
    /\ file # NoFile => \A k \in Keys : file[k] \in Signed(k)
    /\ disk # NoFile => \A k \in Keys : disk[k] \in Signed(k)

LEMMA ZeroIsSigned == \A k \in Keys : ZeroCounters[k] \in Signed(k)
BY DEF ZeroCounters, Signed

LEMMA SignedStep ==
    ASSUME TypeOK, SignedInv, [Next]_vars
    PROVE  SignedInv'
<1>1. ASSUME NEW p \in Packets, NEW src \in Ips, Verify(p, src) PROVE SignedInv'
  <2>1. /\ p.authentic /\ p.key \in Keys
        /\ highest' = [highest EXCEPT ![p.key] = p.counter]
        /\ UNCHANGED <<file, disk>>
    BY <1>1, PacketsAssumption DEF Verify, Verified, storageVars, Packet
  <2>2. p.counter \in Signed(p.key)
    BY <2>1 DEF Signed
  <2>3. ASSUME NEW k \in Keys PROVE highest'[k] \in Signed(k)
    <3>1. CASE k = p.key
      BY <2>1, <2>2, <3>1 DEF TypeOK, Counters
    <3>2. CASE k # p.key
      BY <2>1, <3>2 DEF TypeOK, Counters, SignedInv
    <3>3. QED
      BY <3>1, <3>2
  <2>4. QED
    BY <2>1, <2>3 DEF SignedInv
<1>2. CASE Rename
  BY <1>2 DEF Rename, memoryVars, SignedInv
<1>3. CASE Load
  <2>1. UNCHANGED <<file, disk>> /\ highest' = IF file = NoFile THEN ZeroCounters ELSE file
    BY <1>3 DEF Load, storageVars
  <2>2. QED
    BY <2>1, ZeroIsSigned DEF SignedInv
<1>4. CASE Crash \/ LosePower
  <2>1. highest' = ZeroCounters /\ disk' = disk /\ file' \in {file, disk}
    BY <1>4 DEF Crash, LosePower, LoseMemory, storageVars
  <2>2. QED
    BY <2>1, ZeroIsSigned DEF SignedInv
<1>5. CASE Commit
  BY <1>5 DEF Commit, memoryVars, SignedInv
<1>6. CASE UNCHANGED <<highest, file, disk>>
  BY <1>6 DEF SignedInv
<1>7. QED
  BY <1>1, <1>2, <1>3, <1>4, <1>5, <1>6
     DEF Next, vars, storageVars, memoryVars, keysVars, VerifyAny, WriteTemp,
         PersistFails, Accept, BeginEdit, FinishAnyEdit, FinishEdit,
         TakeReloadEvent, ReloadClients, ReloadFails, StartWatching,
         SetAnyClock, SetClock

(* Whatever is delivered, edited, killed or lost, only payloads a client   *)
(* signed move its counter, in memory and in the file (spa.rs, verify      *)
(* checks the signature before it raises the high-water mark).             *)
THEOREM OnlySignedCounters == Spec => []CountersWereSigned
<1>1. Init => SignedInv
  BY ZeroIsSigned DEF Init, SignedInv
<1>2. SignedInv => CountersWereSigned
  BY DEF SignedInv, CountersWereSigned, Signed
<1>3. TypeOK /\ SignedInv /\ [Next]_vars => SignedInv'
  BY SignedStep
<1>4. QED
  BY <1>1, <1>2, <1>3, TypeCorrect, PTL DEF Spec

(* The INIT switch is off from the first start on; a daemon that is up     *)
(* without a file has accepted nothing yet.                                *)
FirstStartInv ==
    /\ pc # "down" => provisioned
    /\ log # <<>> => provisioned
    /\ SavedBeforeAccept
    /\ LostFileFailsClosed

LEMMA FirstStartStep ==
    ASSUME TypeOK, FirstStartInv, [Next]_vars
    PROVE  FirstStartInv'
<1> USE DEF FirstStartInv, SavedBeforeAccept, LostFileFailsClosed
<1>1. ASSUME NEW p \in Packets, NEW src \in Ips, Verify(p, src) PROVE FirstStartInv'
  BY <1>1 DEF Verify, storageVars
<1>2. CASE Rename
  <2>1. file' # NoFile
    BY <1>2, NoFileAssumption DEF Rename, TypeOK
  <2>2. QED
    BY <1>2, <2>1 DEF Rename, memoryVars
<1>3. CASE Accept
  <2>1. file # NoFile
    BY <1>3, NoFileAssumption DEF Accept, TypeOK
  <2>2. QED
    BY <1>3, <2>1 DEF Accept, storageVars
<1>4. CASE Load
  BY <1>4 DEF Load, storageVars
<1>5. CASE Crash \/ LosePower
  BY <1>5 DEF Crash, LosePower, LoseMemory, storageVars
<1>6. CASE Commit
  BY <1>6 DEF Commit, memoryVars
<1>7. CASE /\ UNCHANGED <<file, highest, log, provisioned>>
           /\ pc = "down" => pc' = "down"
           /\ pc' = pc \/ pc' # "accept"
  BY <1>7
<1>8. QED
  BY <1>1, <1>2, <1>3, <1>4, <1>5, <1>6, <1>7
     DEF Next, vars, storageVars, memoryVars, keysVars, VerifyAny, WriteTemp,
         PersistFails, BeginEdit, FinishAnyEdit, FinishEdit,
         TakeReloadEvent, ReloadClients, ReloadFails, StartWatching,
         SetAnyClock, SetClock

(* load_counter_state fails closed: after the first accept, a daemon that  *)
(* finds no counter file stays down, also when a power loss took the file. *)
THEOREM MissingFileFailsClosed == Spec => []LostFileFailsClosed
<1>1. Init => FirstStartInv
  BY DEF Init, FirstStartInv, SavedBeforeAccept, LostFileFailsClosed
<1>2. FirstStartInv => LostFileFailsClosed
  BY DEF FirstStartInv
<1>3. TypeOK /\ FirstStartInv /\ [Next]_vars => FirstStartInv'
  BY FirstStartStep
<1>4. QED
  BY <1>1, <1>2, <1>3, TypeCorrect, PTL DEF Spec
==============================================================================
