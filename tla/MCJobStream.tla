---------------------------- MODULE MCJobStream ----------------------------
(***************************************************************************)
(* JobStream for TLC: the bodies of the frames.  A body is at least the    *)
(* nine bytes of FrameHeaderSize.                                          *)
(***************************************************************************)
EXTENDS JobStream

\* A long body, a short one, then long again.
Bodies == [f \in Frames |-> IF f % 2 = 1 THEN 130 ELSE 10]
=============================================================================
