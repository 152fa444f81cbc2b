------------------------------- MODULE Follow -------------------------------
(***************************************************************************)
(* fetch --follow (followStream in cmd/ls-client/cmd/fetch.go) trailing a  *)
(* log: the log gets frames, is deleted and comes back, while the follower *)
(* polls it from a line offset.  A poll reads the log as it is at one      *)
(* moment; what it makes of the answer is its own affair, so a poll is one *)
(* step.                                                                   *)
(***************************************************************************)
EXTENDS LogReader

CONSTANTS
    StepRef,     \* --step: the number of a step, or 0
    MaxFrames,   \* bound: frames of a log
    MaxRestarts  \* bound: how often the log comes back

ASSUME FollowAssumption == {StepRef, MaxFrames, MaxRestarts} \subseteq Nat

VARIABLES
    log,      \* the frames of the log
    exists,   \* the server holds a log for the token
    restarts,
    fpc,      \* the follower: about to poll, between two polls, or gone
    cursor,
    waiting,  \* it has said that it waits for the stream
    r,        \* the renderer; out is what it printed of this log
    same      \* history: all that cursor counts is of the log there is

logVars    == <<log, exists, restarts>>
followVars == <<logVars, fpc, cursor, waiting, r, same>>

Lines == Fetch(log)
Count == Len(Lines)

TypeOK ==
    /\ log \in Seq(Frames)
    /\ exists \in BOOLEAN
    /\ restarts \in 0..MaxRestarts
    /\ fpc \in {"poll", "rest", "returned"}
    /\ cursor \in Nat
    /\ waiting \in BOOLEAN
    /\ r.index \in Nat /\ r.inStep \in BOOLEAN /\ r.visible \in BOOLEAN
    /\ same \in BOOLEAN

Init ==
    /\ log = <<>> /\ exists = FALSE /\ restarts = 0
    /\ fpc = "poll" /\ cursor = 0 /\ waiting = FALSE
    /\ r = NewRenderer
    /\ same = TRUE

-----------------------------------------------------------------------------
\* The log.

\* A writer opens the stream.
Creates ==
    /\ ~exists
    /\ exists' = TRUE
    /\ UNCHANGED <<log, restarts, fpc, cursor, waiting, r, same>>

Appends(f) ==
    /\ exists
    /\ Len(log) < MaxFrames
    /\ log' = Append(log, f)
    /\ UNCHANGED <<exists, restarts, fpc, cursor, waiting, r, same>>

\* A delete request or the sweeper removes the log.
Deletes ==
    /\ exists
    /\ restarts < MaxRestarts
    /\ restarts' = restarts + 1
    /\ exists' = FALSE
    /\ log' = <<>>
    /\ r' = [r EXCEPT !.out = <<>>]
    /\ same' = (cursor = 0)
    /\ UNCHANGED <<fpc, cursor, waiting>>

-----------------------------------------------------------------------------
\* The follower.

\* There is no such log: it has not begun, or it is gone.
PollWaits ==
    /\ fpc = "poll"
    /\ ~exists
    /\ waiting' = TRUE
    /\ fpc' = "rest"
    /\ UNCHANGED <<logVars, cursor, r, same>>

\* Any other error ends the follow.
PollFails ==
    /\ fpc = "poll"
    /\ fpc' = "returned"
    /\ UNCHANGED <<logVars, cursor, waiting, r, same>>

\* Mutants: an answer as long as what was read counts as shorter; none does.
NotLonger == Count <= cursor
NeverShrunk == FALSE

\* The log is shorter than what was read.
Shrunk == Count < cursor

\* Mutants: the renderer is not rewound; the cursor goes back by what is missing.
RewindsCursor ==
    /\ fpc = "poll"
    /\ exists
    /\ Shrunk
    /\ cursor' = 0
    /\ same' = TRUE
    /\ UNCHANGED <<logVars, fpc, waiting, r>>
RewindsDifference ==
    /\ fpc = "poll"
    /\ exists
    /\ Shrunk
    /\ cursor' = Count - cursor
    /\ r' = NewRenderer
    /\ same' = TRUE
    /\ UNCHANGED <<logVars, fpc, waiting>>

\* The follower reads it again from the top, at once.
PollRewinds ==
    /\ fpc = "poll"
    /\ exists
    /\ Shrunk
    /\ cursor' = 0
    /\ r' = NewRenderer
    /\ same' = TRUE
    /\ UNCHANGED <<logVars, fpc, waiting>>

\* The lines from the cursor on, printed.
PollPrints ==
    /\ fpc = "poll"
    /\ exists
    /\ ~Shrunk
    /\ LET lines == SubSeq(Lines, cursor + 1, Count)
       IN /\ r' = Render(r, lines, StepRef)
          /\ cursor' = cursor + Len(lines)
    /\ fpc' = "rest"
    /\ UNCHANGED <<logVars, waiting, same>>

Tick ==
    /\ fpc = "rest"
    /\ fpc' = "poll"
    /\ UNCHANGED <<logVars, cursor, waiting, r, same>>

Interrupted ==
    /\ fpc = "rest"
    /\ fpc' = "returned"
    /\ UNCHANGED <<logVars, cursor, waiting, r, same>>

\* Nobody follows any more.
Over == fpc = "returned" /\ UNCHANGED followVars

LogStep  == Creates \/ (\E f \in Frames : Appends(f)) \/ Deletes
Polls    == PollWaits \/ PollRewinds \/ PollPrints
Next     == LogStep \/ Polls \/ PollFails \/ Tick \/ Interrupted \/ Over
Spec     == Init /\ [][Next]_followVars

\* The server answers and the ticker ticks; nobody has to write.
FairSpec == Spec /\ WF_followVars(Polls \/ PollFails) /\ WF_followVars(Tick)

-----------------------------------------------------------------------------
\* Properties.

\* A follower prints what a fetch of the same lines prints: neither the cut of
\* the log into polls nor an earlier log shows (fetch.go:120-131, 177-193), as
\* long as every frame ends its lines.
PrintedAsFetched ==
    exists /\ same /\ (\A i \in DOMAIN log : ~log[i].rest) =>
        r.out = Render(NewRenderer, SubSeq(Lines, 1, cursor), StepRef).out

\* A log that only grows is never printed again from the top: its count of
\* lines never falls, whatever its unfinished lines do (fetch.go:120).
RewindsOnRestartOnly == [][cursor' < cursor => ~same]_followVars

\* A whole line keeps its place in every later answer: the unfinished ones
\* stand behind it (storage.go:243-260), so an offset into the whole lines stays
\* right.
WholeLinesStay ==
    \A n \in 0..Len(log) :
        LET then == Fetch(SubSeq(log, 1, n))
        IN \A i \in DOMAIN then :
            then[i].whole => i \in DOMAIN Lines /\ Lines[i] = then[i]

\* The lines of output among some lines.
Text(lines) ==
    FlattenSeq([i \in DOMAIN lines |-> IF lines[i].event = "text" THEN <<lines[i]>> ELSE <<>>])

\* --steps and --step agree: the lines of step k are those that --step k shows,
\* and the lines of the steps and the preamble are all there are
\* (steps.go:70-99, fetch.go:207-235).
StepsAgree ==
    LET grouped == GroupSteps(Lines)
        inSteps == FlattenSeq([k \in DOMAIN grouped.steps |-> grouped.steps[k].lines])
    IN /\ \A k \in DOMAIN grouped.steps :
             grouped.steps[k].lines = Text(Render(NewRenderer, Lines, k).out)
       /\ Len(grouped.preamble) + Len(inSteps) = Len(Text(Lines))

\* How many lines the log has, counted without reading it: its line ends, and
\* the streams whose last frame goes on.
LineCount ==
    SumFunction([i \in DOMAIN log |-> log[i].ends])
    + Cardinality({i \in DOMAIN log :
          log[i].rest /\ \A j \in (i + 1)..Len(log) : log[j].stream # log[i].stream})

\* "This trails a live stream" (fetch.go:98): a follower that is not ended gets
\* to the end of the log.
CatchesUp == exists ~> ~exists \/ cursor = LineCount \/ fpc = "returned"

\* "followStream prints new lines", and "a log still being written reads back
\* fine" (fetch.go:97-98): a line that the cursor is past, and that is whole, has
\* been printed whole.  One that was read unfinished never is.
NothingMissed ==
    exists /\ same /\ StepRef = 0 =>
        \A i \in 1..cursor :
            Lines[i].whole /\ Lines[i].event = "text" => \E j \in DOMAIN r.out : r.out[j] = Lines[i]
=============================================================================
