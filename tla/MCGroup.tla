------------------------------ MODULE MCGroup ------------------------------
(***************************************************************************)
(* GroupIndex for TLC: the environments of a matrix job, of a job without  *)
(* a matrix, of a caller that gives a context and of a watcher.            *)
(***************************************************************************)
EXTENDS GroupIndex

Run == <<"repo", "7", "1">>

Nothing == [key |-> None, context |-> None, run |-> None, job |-> None, name |-> None,
            label |-> None, token |-> None, group |-> None]
Keyed   == [Nothing EXCEPT !.key = <<"key">>]
Job     == [Keyed EXCEPT !.run = Run, !.job = <<"build">>]

Environments ==
    { [Job EXCEPT !.name = <<"x">>],                             \* a leg
      [Job EXCEPT !.name = <<"y">>],                             \* another
      Job,                                                       \* a job without a matrix
      [Job EXCEPT !.context = Run, !.name = <<"x">>],            \* a leg told its context
      [Job EXCEPT !.context = Run],                              \* and one without a name
      [Keyed EXCEPT !.context = Run],                            \* a watcher
      [Job EXCEPT !.key = None] }                                \* a job without a key

LegSymmetry == Permutations(Legs)
=============================================================================
