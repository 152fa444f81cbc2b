----------------------------- MODULE MCStorage -----------------------------
(***************************************************************************)
(* Storage for TLC: two handlers, a delete request and the sweeper over a  *)
(* stream and a group whose names fall in the same shard.                  *)
(***************************************************************************)
EXTENDS Storage, TLC

CONSTANTS t1, g1, h1, h2, d1

\* A body whose record has a two byte prefix: the stream cap, which counts
\* bodies, and the total cap, which counts records, part ways over it.
Sizes == {130}

OneShard == [f \in Files |-> 0]

\* Handlers are interchangeable: an identity is only ever compared.
HandlerSymmetry == Permutations(Handlers)
=============================================================================
