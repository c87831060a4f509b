----------------------------- MODULE ReplayGuard -----------------------------
(***************************************************************************)
(* What the SPA verifier promises its callers, without packets, files,     *)
(* reloads or restarts: a recorded high-water counter per key that only    *)
(* grows, and authorisations that each use a recorded counter, once.       *)
(***************************************************************************)
EXTENDS Naturals, Sequences

CONSTANT Keys

VARIABLES
    recorded,       \* the high-water counter of every key
    log             \* the authorisations issued, in order

guardVars == <<recorded, log>>

Init ==
    /\ recorded = [k \in Keys |-> 0]
    /\ log = <<>>

(* Counters are recorded, with or without an authorisation to follow.      *)
Record ==
    /\ recorded' \in [Keys -> Nat]
    /\ \A k \in Keys : recorded[k] <= recorded'[k]
    /\ UNCHANGED log

(* An authorisation is issued for a counter that is recorded and above     *)
(* every counter that key was authorised with before.                      *)
Issue(k) ==
    /\ \A i \in 1..Len(log) : log[i].key = k => log[i].counter < recorded[k]
    /\ log' = Append(log, [key |-> k, counter |-> recorded[k]])
    /\ UNCHANGED recorded

Next == Record \/ \E k \in Keys : Issue(k)

Spec == Init /\ [][Next]_guardVars
==============================================================================
