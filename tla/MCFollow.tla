------------------------------ MODULE MCFollow ------------------------------
(***************************************************************************)
(* Follow for TLC: standard output, standard error and the markers, with   *)
(* the ids of internal/protocol/wire.go.                                   *)
(***************************************************************************)
EXTENDS Follow
=============================================================================
