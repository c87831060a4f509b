------------------------------ MODULE MCTunnel ------------------------------
(***************************************************************************)
(* Tunnel for TLC.  Frames carry at most two bytes and each end sends more *)
(* than one frame; a stream holds fewer bytes than a frame has, so every   *)
(* frame crosses in pieces and every write blocks at least once.           *)
(***************************************************************************)
EXTENDS Tunnel

=============================================================================
