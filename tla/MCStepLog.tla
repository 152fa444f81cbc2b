----------------------------- MODULE MCStepLog -----------------------------
(***************************************************************************)
(* StepLog for TLC: the stream ids of internal/protocol/wire.go and two    *)
(* ways for a command to end.                                              *)
(***************************************************************************)
EXTENDS StepLog

ExitCodes == {-1, 0}
=============================================================================
