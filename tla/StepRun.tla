------------------------------ MODULE StepRun ------------------------------
(***************************************************************************)
(* The steps of a job, each a process of ls-client around a command        *)
(* (streamExec in cmd/ls-client/cmd/exec.go, for run and shell) or around  *)
(* a pipe (runSend in send.go): the markers, the pumps and the sender that *)
(* share a queue, and the end of the process.                              *)
(*                                                                         *)
(* The sender and the server are those of JobStream, seen from the queue:  *)
(* frames are taken in order, travel on the connections of their step, and *)
(* each lands in the log once or not at all.  What is on its way when a    *)
(* process goes can still land, however far the next step is.              *)
(***************************************************************************)
EXTENDS Integers, Sequences

CONSTANTS
    NumSteps,     \* bound: steps of the job
    MaxFrames,    \* bound: frames a step's pumps send
    Pieces,       \* a pump can send a piece of a line
    MaxFaults,    \* bound: kills, breaks, redials and skipped frames
    ExecStreams,  \* ids of a command's standard output and error
    SendStream,   \* id of a pipe
    Marker,       \* id of the marker stream
    Codes         \* what a command can exit with; -1 is a signal or an error of wait

ASSUME StepAssumption ==
    /\ NumSteps \in Nat \ {0} /\ MaxFrames \in Nat /\ MaxFaults \in Nat
    /\ ExecStreams \subseteq Nat /\ SendStream \in Nat /\ Marker \in Nat
    /\ 0 \in Codes /\ Codes \subseteq Nat \cup {-1}
    /\ Pieces \in BOOLEAN

VARIABLES
    marked,   \* the runner's environment names a step (stepFromEnv)
    step,     \* the step whose process this is
    main,     \* where the process's main goroutine is
    mode,     \* "exec" or "send"
    pumping,  \* the streams whose pump has not returned
    code,     \* how the command, or the pipe's pump, ended
    queue,    \* the frames the sender has not taken
    closed,
    sender,   \* "run" until the sender's goroutine returns
    wires,    \* wires[s]: the connections of step s, each the frames on its way
    log,      \* the frames in the job's log
    status,   \* status[s]: the exit status of the process of step s
    answered, \* steps whose sender had its close answered
    made,     \* frames this step's pumps have sent, bounded by MaxFrames
    faults    \* faults so far, bounded by MaxFaults

childVars == <<mode, pumping, code, made>>
queueVars == <<queue, closed>>
netVars   == <<sender, wires, log, answered>>
stepVars  == <<marked, step, main, childVars, queueVars, netVars, status, faults>>

Steps   == 1..NumSteps
Streams == ExecStreams \cup {SendStream}
NoCode  == -2

Frame(stream, ends, rest, event, exit) ==
    [stream |-> stream, ends |-> ends, rest |-> rest, event |-> event,
     step |-> step, exit |-> exit]

\* What a pump sends: whole lines, or a piece of one.
TextFrames(s) == {Frame(s, 1, FALSE, "text", 0)}
                 \cup (IF Pieces THEN {Frame(s, 0, TRUE, "text", 0)} ELSE {})
StartFrame    == Frame(Marker, 1, FALSE, "step_start", 0)
EndFrame(c)   == Frame(Marker, 1, FALSE, "step_end", c)

AnyFrame ==
    [stream : Streams \cup {Marker}, ends : {0, 1}, rest : BOOLEAN,
     event : {"text", "step_start", "step_end"}, step : Steps, exit : Codes]

TypeOK ==
    /\ marked \in BOOLEAN /\ step \in Steps
    /\ main \in {"begin", "start", "running", "close", "drain", "ended"}
    /\ mode \in {"exec", "send"}
    /\ pumping \subseteq Streams
    /\ code \in Codes \cup {0, 1, NoCode}
    /\ queue \in Seq(AnyFrame) /\ log \in Seq(AnyFrame)
    /\ wires \in [Steps -> Seq(Seq(AnyFrame))]
    /\ closed \in BOOLEAN /\ sender \in {"run", "done"}
    /\ status \in [Steps -> Nat \cup {NoCode}]
    /\ answered \subseteq Steps
    /\ made \in 0..MaxFrames /\ faults \in 0..MaxFaults

Init ==
    /\ marked \in BOOLEAN
    /\ step = 1 /\ main = "begin" /\ mode = "exec"
    /\ pumping = {} /\ code = NoCode
    /\ queue = <<>> /\ closed = FALSE /\ sender = "run"
    /\ wires = [s \in Steps |-> <<>>]
    /\ log = <<>>
    /\ status = [s \in Steps |-> NoCode]
    /\ answered = {} /\ made = 0 /\ faults = 0

Fault == faults < MaxFaults /\ faults' = faults + 1

-----------------------------------------------------------------------------
\* The main goroutine.

\* A marker goes into the queue only if there is a step to mark.
PushMarker(f) == queue' = IF marked THEN Append(queue, f) ELSE queue

\* The process goes, and what is in its queue.
Exit(st) ==
    /\ main' = "ended"
    /\ status' = [status EXCEPT ![step] = st]
    /\ sender' = "done"
    /\ queue' = <<>>
    /\ UNCHANGED <<marked, step, mode, code, made, closed, wires, log, answered>>

\* A fresh queue, a sender with a connection of its own, and the start marker.
Begin(how, where, pumps) ==
    /\ main = "begin"
    /\ PushMarker(StartFrame)
    /\ wires' = [wires EXCEPT ![step] = << <<>> >>]
    /\ main' = where /\ mode' = how /\ pumping' = pumps
    /\ UNCHANGED <<marked, step, code, made, closed, sender, log, answered, status, faults>>

BeginExec == Begin("exec", "start", {})

\* send reads its own standard input.
BeginSend == Begin("send", "running", {SendStream})

\* There is no such command: the process returns the error at once.
ChildFails ==
    /\ main = "start"
    /\ Exit(1)
    /\ UNCHANGED <<pumping, faults>>

ChildStarts ==
    /\ main = "start"
    /\ main' = "running"
    /\ pumping' = ExecStreams
    /\ UNCHANGED <<marked, step, mode, code, made, queueVars, netVars, status, faults>>

EndMarked ==
    /\ PushMarker(EndFrame(IF mode = "send" THEN 0 ELSE code))
    /\ main' = "close"
    /\ UNCHANGED <<marked, step, childVars, closed, netVars, status, faults>>

\* Mutants: the end marker does not wait for the pumps, or waits for the sender.
MarksAtExit == main = "running" /\ code # NoCode /\ EndMarked
MarksWhenDrained ==
    main = "running" /\ pumping = {} /\ code # NoCode /\ sender = "done" /\ EndMarked

\* Both pumps have returned and the command is reaped: the end marker.  send
\* marks every end as a success.
MarksEnd == main = "running" /\ pumping = {} /\ code # NoCode /\ EndMarked

ClosesQueue ==
    /\ main = "close"
    /\ closed' = TRUE
    /\ main' = "drain"
    /\ UNCHANGED <<marked, step, childVars, queue, netVars, status, faults>>

\* Mutant: -1 goes to the shell as it is.
StatusesRaw == {code}

\* The status of the process: the command's, or 1 where there is an error to
\* print.  A signal's -1 is 255 to the shell.
Statuses == IF code = -1 THEN {1, 255} ELSE {code}

\* Mutant: the wrapper ends well whenever the stream did.
ReturnsWell ==
    /\ main = "drain" /\ sender = "done"
    /\ Exit(0)
    /\ UNCHANGED <<pumping, faults>>

\* wait() returns once the sender's goroutine has.
Returns ==
    /\ main = "drain" /\ sender = "done"
    /\ \E st \in Statuses : Exit(st)
    /\ UNCHANGED <<pumping, faults>>

\* The runner cancels the step.
Killed ==
    /\ main \notin {"begin", "ended"}
    /\ Fault
    /\ Exit(137)
    /\ pumping' = {}

\* The runner starts the next step of the job.
NextStep ==
    /\ main = "ended" /\ step < NumSteps
    /\ step' = step + 1
    /\ main' = "begin"
    /\ pumping' = {} /\ code' = NoCode /\ made' = 0
    /\ closed' = FALSE /\ sender' = "run"
    /\ UNCHANGED <<marked, mode, queue, wires, log, status, answered, faults>>

-----------------------------------------------------------------------------
\* The command and the pumps.

\* A command may end before its output has been read, or go on without.
ChildExits(c) ==
    /\ mode = "exec" /\ main = "running" /\ code = NoCode
    /\ code' = c
    /\ UNCHANGED <<marked, step, main, mode, pumping, made, queueVars, netVars, status, faults>>

PumpSends(s, f) ==
    /\ s \in pumping
    /\ made < MaxFrames
    /\ made' = made + 1
    /\ queue' = Append(queue, f)
    /\ UNCHANGED <<marked, step, main, mode, pumping, code, closed, netVars, status, faults>>

\* A pump has reached the end of its stream.  For send an error of the read is
\* the error of the process; for a command it is dropped.
PumpEnds(s) ==
    /\ s \in pumping
    /\ pumping' = pumping \ {s}
    /\ IF mode = "send" THEN code' \in {0, 1} ELSE UNCHANGED code
    /\ UNCHANGED <<marked, step, main, mode, made, queueVars, netVars, status, faults>>

-----------------------------------------------------------------------------
\* The sender and the server.

SenderRuns == main \notin {"begin", "ended"} /\ sender = "run"

\* The connection in use, and whether it is the only one its step has had.
Newest     == Len(wires[step])
OneWire(s) == Len(wires[s]) <= 1

\* The head of the queue is written.
Writes ==
    /\ SenderRuns /\ queue # <<>>
    /\ wires' = [wires EXCEPT ![step][Newest] = Append(@, Head(queue))]
    /\ queue' = Tail(queue)
    /\ UNCHANGED <<marked, step, main, childVars, closed, sender, log, status, answered, faults>>

\* A reconciliation takes the head for stored.
Skips ==
    /\ SenderRuns /\ queue # <<>>
    /\ Fault
    /\ queue' = Tail(queue)
    /\ UNCHANGED <<marked, step, main, childVars, closed, netVars, status>>

\* The sender gives its connection up for a new one; the old one's handler
\* drains on.
Redials ==
    /\ SenderRuns
    /\ Fault
    /\ wires' = [wires EXCEPT ![step] = Append(@, <<>>)]
    /\ UNCHANGED <<marked, step, main, childVars, queueVars, sender, log, status, answered>>

\* A connection loses a suffix of what is on its way.
Breaks(s, c) ==
    /\ wires[s][c] # <<>>
    /\ Fault
    /\ \E n \in 0..(Len(wires[s][c]) - 1) :
          wires' = [wires EXCEPT ![s][c] = SubSeq(@, 1, n)]
    /\ UNCHANGED <<marked, step, main, childVars, queueVars, sender, log, status, answered>>

\* The server stores what a connection brings, in order.
Lands(s, c) ==
    /\ wires[s][c] # <<>>
    /\ log' = Append(log, Head(wires[s][c]))
    /\ wires' = [wires EXCEPT ![s][c] = Tail(@)]
    /\ UNCHANGED <<marked, step, main, childVars, queueVars, sender, status, answered, faults>>

Drained == SenderRuns /\ closed /\ queue = <<>>

\* Mutant: the answer comes before the connection has been drained.
AnsweredEarly ==
    /\ Drained
    /\ sender' = "done"
    /\ answered' = answered \cup {step}
    /\ UNCHANGED <<marked, step, main, childVars, queueVars, wires, log, status, faults>>

\* The close is answered, with nothing of its connection left on its way: it was
\* drained, or its handler has gone and what was left is lost (Breaks).
Answered ==
    /\ Drained /\ wires[step][Newest] = <<>>
    /\ sender' = "done"
    /\ answered' = answered \cup {step}
    /\ UNCHANGED <<marked, step, main, childVars, queueVars, wires, log, status, faults>>

\* It is not, and the sender ends after ackTimeout; or the grace has passed, and
\* the stream is retired with what is left of it.
Retires ==
    /\ main = "drain" /\ sender = "run"
    /\ sender' = "done"
    /\ UNCHANGED <<marked, step, main, childVars, queueVars, wires, log, status, answered, faults>>

-----------------------------------------------------------------------------
JobOver == main = "ended" /\ step = NumSteps /\ UNCHANGED stepVars

MainStep   == BeginExec \/ BeginSend \/ ChildFails \/ ChildStarts \/ MarksEnd
              \/ ClosesQueue \/ Returns
SenderStep == Writes \/ Skips \/ Redials \/ Answered \/ Retires
PumpStep   == \E s \in Streams : PumpEnds(s) \/ \E f \in TextFrames(s) : PumpSends(s, f)
NetStep    == \E s \in Steps : \E c \in DOMAIN wires[s] : Breaks(s, c) \/ Lands(s, c)

Next ==
    \/ MainStep \/ SenderStep \/ PumpStep \/ NetStep
    \/ \E c \in Codes : ChildExits(c)
    \/ Killed \/ NextStep \/ JobOver

Spec == Init /\ [][Next]_stepVars

\* The goroutines of a process run and its grace timer expires; a command owes
\* nothing, nor the runner.
FairSpec == Spec /\ WF_stepVars(MainStep) /\ WF_stepVars(Retires)

-----------------------------------------------------------------------------
\* Properties.

EndLanded(s) == \E i \in DOMAIN log : log[i].event = "step_end" /\ log[i].step = s

\* An end marker is the last that is heard of its step, whatever the order in
\* which the two pumps, the command and the sender come to their ends: nothing
\* is queued, on its way or yet to be pumped when it lands (exec.go:76-91,
\* send.go:52-58, "the end marker must reach the wire before the close"), as
\* long as the step has had one connection.
EndIsLast ==
    \A s \in Steps : EndLanded(s) /\ OneWire(s) =>
        /\ \A c \in DOMAIN wires[s] : wires[s][c] = <<>>
        /\ s = step => queue = <<>> /\ pumping = {}

\* What the log says of a command and what the runner is told agree
\* (exec.go:79-93, 103-108, "a wrapper that swallows that hides a failure").
ExitAgrees ==
    \A i \in DOMAIN log : log[i].exit # 0 => status[log[i].step] # 0

\* A command that has ended, with its output closed, gets its process back: main
\* waits for the sender, and the sender for main's close of the queue, and both
\* come through (exec.go:94-96, sender.go:157-168).  That a retired sender ends is
\* assumed here; JobStream has WaitEnds on when it does.
ProcessReturns == main = "running" /\ pumping = {} /\ code # NoCode ~> main = "ended"
=============================================================================
