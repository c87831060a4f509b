--------------------------- MODULE MCRelayDownload ---------------------------
(* A small instance of RelayDownload for TLC. *)
EXTENDS RelayDownload

CONSTANTS j1, c1

OneJob == {j1}
LoneJob == [j \in OneJob |-> c1]
=============================================================================
