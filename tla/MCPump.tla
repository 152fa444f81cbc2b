------------------------------- MODULE MCPump -------------------------------
(***************************************************************************)
(* Pump for TLC.  Chunks of three bytes: a read can bring a line end with  *)
(* bytes on both sides, and a partial line can reach the chunk size.       *)
(***************************************************************************)
EXTENDS Pump
=============================================================================
