----------------------------- MODULE LogReader -----------------------------
(***************************************************************************)
(* What a stored log reads as: Store.Fetch (internal/storage/storage.go)   *)
(* joins the frames of a log into lines, renderer (cmd/ls-client/cmd/      *)
(* fetch.go) prints lines, and groupSteps (steps.go) splits them at the    *)
(* step markers.                                                           *)
(*                                                                         *)
(* A frame is the number of line ends in it and whether bytes follow the   *)
(* last one; every frame adds text to the line it continues, and a line is *)
(* known by its stream, its number there and the frames it is made of.     *)
(* The frames of the marker stream are lines by themselves.                *)
(***************************************************************************)
EXTENDS Integers, Sequences, FiniteSets, FiniteSetsExt, Functions, SequencesExt

CONSTANTS
    Outputs,  \* ids of the output streams
    Marker,   \* id of the marker stream
    MaxEnds   \* bound: line ends in a frame

ASSUME ReaderAssumption ==
    /\ Outputs \subseteq Nat /\ Marker \in Nat \ Outputs
    /\ MaxEnds \in Nat \ {0}

StreamIds == Outputs \cup {Marker}

TextFrames == {f \in [stream : Outputs, ends : 0..MaxEnds, rest : BOOLEAN,
                      event : {"text"}] : f.ends > 0 \/ f.rest}
MarkerFrames == [stream : {Marker}, ends : {1}, rest : {FALSE},
                 event : {"step_start", "step_end"}]
Frames == TextFrames \cup MarkerFrames

Line(s, n, pieces, whole, event) ==
    [stream |-> s, number |-> n, pieces |-> pieces, whole |-> whole, event |-> event]

-----------------------------------------------------------------------------
\* Fetch.

\* The frames before the i-th on its stream.
Earlier(log, i) == {j \in 1..(i - 1) : log[j].stream = log[i].stream}

\* How many lines they have ended, and which of them the i-th goes on from:
\* those that leave a line open, unless another one has ended it since.
Ended(log, i) == SumFunctionOnSet([j \in DOMAIN log |-> log[j].ends], Earlier(log, i))
Opened(log, i) ==
    {j \in Earlier(log, i) : log[j].rest /\ \A k \in Earlier(log, i) : k > j => log[k].ends = 0}

\* The lines that the i-th frame ends.
Whole(log, i) ==
    [k \in 1..log[i].ends |->
        Line(log[i].stream, Ended(log, i) + k,
             IF k = 1 THEN Cardinality(Opened(log, i)) + 1 ELSE 1, TRUE, log[i].event)]

\* The line that the i-th frame leaves open.
Part(log, i) ==
    Line(log[i].stream, Ended(log, i) + log[i].ends + 1,
         IF log[i].ends = 0 THEN Cardinality(Opened(log, i)) + 1 ELSE 1, FALSE, "text")

\* The frames that leave a line open and are the last of their streams.
Open(log) == {i \in DOMAIN log : log[i].rest /\ \A j \in DOMAIN log : i \notin Earlier(log, j)}

\* The unfinished lines, by stream id.
Unfinished(log) ==
    LET open  == Open(log)
        at(k) == CHOOSE i \in open :
                     Cardinality({j \in open : log[j].stream < log[i].stream}) = k - 1
    IN [k \in 1..Cardinality(open) |-> Part(log, at(k))]

WholeLines(log) == FlattenSeq([i \in DOMAIN log |-> Whole(log, i)])

Fetch(log) == WholeLines(log) \o Unfinished(log)

-----------------------------------------------------------------------------
\* renderer, for --step ref; 0 is no --step.

NewRenderer == [index |-> 0, inStep |-> FALSE, visible |-> FALSE, out |-> <<>>]

Showing(r, ref) == ref = 0 \/ (r.inStep /\ r.visible)

\* A boundary or a line of the log.  A boundary is announced if it shows.
RenderLine(r, line, ref) ==
    CASE line.event = "step_start" ->
            LET shows == ref \in {0, r.index + 1}
            IN [index |-> r.index + 1, inStep |-> TRUE, visible |-> shows,
                out |-> IF shows THEN Append(r.out, line) ELSE r.out]
      [] line.event = "step_end" ->
            [r EXCEPT !.inStep = FALSE,
                      !.out = IF r.visible THEN Append(@, line) ELSE @]
      [] OTHER ->
            [r EXCEPT !.out = IF Showing(r, ref) THEN Append(@, line) ELSE @]

Render(r, lines, ref) == FoldLeft(LAMBDA acc, line : RenderLine(acc, line, ref), r, lines)

-----------------------------------------------------------------------------
\* groupSteps.

\* Mutant: an end marker leaves the step current.
EndsNothing(acc) ==
    IF acc.current THEN [acc EXCEPT !.steps[Len(acc.steps)].ended = TRUE] ELSE acc

\* The current step, if there is one, is the last.
EndStep(acc) ==
    IF acc.current THEN [acc EXCEPT !.steps[Len(acc.steps)].ended = TRUE, !.current = FALSE]
    ELSE acc

GroupLine(acc, line) ==
    CASE line.event = "step_start" ->
            [acc EXCEPT !.steps = Append(@, [lines |-> <<>>, ended |-> FALSE]),
                        !.current = TRUE]
      [] line.event = "step_end" -> EndStep(acc)
      [] line.event = "text" /\ acc.current ->
            [acc EXCEPT !.steps[Len(acc.steps)].lines = Append(@, line)]
      [] OTHER -> [acc EXCEPT !.preamble = Append(@, line)]

GroupSteps(lines) ==
    FoldLeft(GroupLine, [steps |-> <<>>, preamble |-> <<>>, current |-> FALSE], lines)
=============================================================================
