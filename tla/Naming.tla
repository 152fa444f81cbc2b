------------------------------- MODULE Naming -------------------------------
(***************************************************************************)
(* How ls-client names a stream, its group and its label                   *)
(* (cmd/ls-client/cmd/root.go and token.go, internal/token/derive.go): a   *)
(* writer and a watcher compute the same names from what they both know.   *)
(*                                                                         *)
(* An environment e is what flags and variables give: a key, a context, a  *)
(* run (repository, id, attempt), a job, a name, a label, a token and a    *)
(* group.  Each is a sequence of non-empty parts, <<>> where it is absent: *)
(* joining parts with "/" is concatenation.  HMAC is injective: a derived  *)
(* token is a key and a context.                                           *)
(***************************************************************************)
EXTENDS Integers, Sequences, SequencesExt

None == <<>>

Parts == Seq(STRING)

\* A job id of GitHub is one part: it has letters, digits, "-" and "_".
JobId == {p \in Parts : Len(p) <= 1}

Environment == [key : Parts, context : Parts, run : Parts, job : JobId, name : Parts,
                label : Parts, token : Parts, group : Parts]

\* The first of two that is there.
Or(a, b) == IF a # None THEN a ELSE b

\* Parts that are absent leave no trace, not even a place.
Context(parts) == FlattenSeq(parts)

Derive(key, context) ==
    IF key = None \/ context = None THEN None ELSE <<"hmac", key, context>>

DeriveGroup(key, context) ==
    IF context = None THEN None ELSE Derive(key, <<"group">> \o context)

derivedContext(e) ==
    IF e.context # None THEN Context(<<e.context, e.name>>)
    ELSE Context(<<e.run, e.job, e.name>>)

\* Mutant: a group of one job.
JobGroupContext(e) == Or(e.context, Context(<<e.run, e.job>>))

derivedGroupContext(e) == Or(e.context, Context(<<e.run>>))

getStreamToken(e) == Or(e.token, Derive(e.key, derivedContext(e)))
getStreamGroup(e) == Or(e.group, DeriveGroup(e.key, derivedGroupContext(e)))

\* Mutant: the job alone.
JobLabel(e) == Or(e.label, Or(e.job, e.name))

getStreamLabel(e) == Or(e.label, e.job \o e.name)

\* What the dial carries: without a token, no group and no label either.
streamURL(e) ==
    LET named   == getStreamToken(e) # None
        grouped == named /\ getStreamGroup(e) # None
    IN [token |-> getStreamToken(e),
        group |-> IF grouped THEN getStreamGroup(e) ELSE None,
        label |-> IF grouped THEN getStreamLabel(e) ELSE None]
=============================================================================
