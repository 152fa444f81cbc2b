---------------------------- MODULE MCRecordLog ----------------------------
(***************************************************************************)
(* RecordLog for TLC.  A length counts to two in a byte, so that the       *)
(* records have lengths of two bytes, and the bytes of a payload can be    *)
(* taken for the length of a record.                                       *)
(***************************************************************************)
EXTENDS RecordLog, TLC

\* A line end; the start of a line; the end of a line and the start of the
\* next; a line and a half, of another stream.
FourBodies == {<<0, 1, 3>>, <<0, 2, 1>>, <<0, 3, 2, 3, 1>>, <<1, 2, 1, 3, 0>>}

WriterSymmetry == Permutations(Writers)
=============================================================================
