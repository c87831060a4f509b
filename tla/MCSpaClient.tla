----------------------------- MODULE MCSpaClient -----------------------------
(* Small instances of SpaClient for TLC. *)
EXTENDS SpaClient, TLC

CONSTANTS s1, s2

\* strategy = "priority".
PriorityOrder == { <<s1, s2>> }

\* The local connections are interchangeable.
ConnSymmetry == Permutations(Conns)
==============================================================================
