---------------------------- MODULE MCRelayEngine ----------------------------
(* Small instances of RelayEngine for TLC. *)
EXTENDS RelayEngine, TLC

CONSTANTS j1, j2, c1

TwoJobs == {j1, j2}

\* All jobs of one client, so that they compete for one quota.
OneClient == [j \in TwoJobs |-> c1]

\* The jobs of one client are interchangeable.
JobSymmetry == Permutations(TwoJobs)
==============================================================================
