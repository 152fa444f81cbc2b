----------------------------- MODULE JobStream -----------------------------
(***************************************************************************)
(* A job streaming its log: the clients of its steps, one after another    *)
(* (DurableSender), the server's handlers (StreamServer) and the           *)
(* connections between them (Link).                                        *)
(***************************************************************************)
EXTENDS StreamServer, DurableSender, FiniteSets

vars == <<linkVars, serverVars, senderVars>>

TypeOK == LinkTypeOK /\ ServerTypeOK /\ SenderTypeOK

Init == LinkInit /\ ServerInit /\ SenderInit

-----------------------------------------------------------------------------
\* Steps of two components at once.

\* A dial reaches the server: the client has a connection, the server a handler.
DialOk == \E c \in Conns : Dialled(c) /\ Accept(c)

\* The dial closure reads no hello.
DialEnds == pc = "hello" /\ HelloFails(srv[dials] = "done") /\ UNCHANGED serverVars

\* A connection that matters to either side breaks.
NetBreaks(c) ==
    /\ Fault
    /\ srv[c] # "done"
    /\ \E n \in 0..reach[c] : Break(c, n)
    /\ UNCHANGED <<serverVars, senderVars>>

\* The handler closed the connection with an error, on a timeout or mid-stream:
\* the client learns it when a write meets the reset.
HandlerHangsUp(c) ==
    /\ srv[c] = "done"
    /\ reply[c] # "closed"
    /\ link[c] = "up"
    /\ link' = [link EXCEPT ![c] = "down"]
    /\ UNCHANGED <<sent, reach, rcvd, fin, hello, reply, faults, serverVars, senderVars>>

-----------------------------------------------------------------------------
\* run() up to the end of the stream.
RunStep ==
    \/ RunRetired
    \/ TakeHead
    \/ QueueDrained
    \/ DialRetired
    \/ DialBegins
    \/ DialFails
    \/ HelloRead
    \/ WriteOk
    \/ WriteFails
    \/ FinishCloses
    \/ Confirmed
    \/ Unconfirmed

ProcessStep ==
    \/ Produce
    \/ CloseQueue
    \/ GraceExpires
    \/ WaitReturns
    \/ Killed
    \/ NextStep

ServerStep ==
    \/ \E c \in Conns : HandlerStep(c) \/ HandlerAborts(c) \/ ReadTimesOut(c)
    \/ ServerCrash

NetworkStep == \E c \in Conns : NetBreaks(c) \/ HandlerHangsUp(c)

\* The job is over and every handler has returned.
JobOver ==
    /\ Ended
    /\ step = NumSteps
    /\ \A c \in Conns : srv[c] \in {"none", "done"}
    /\ UNCHANGED vars

Next ==
    \/ ServerStep /\ UNCHANGED senderVars
    \/ NetworkStep
    \/ DialOk
    \/ DialEnds
    \/ (RunStep \/ ProcessStep) /\ UNCHANGED serverVars
    \/ JobOver

Spec == Init /\ [][Next]_vars

\* The client's goroutines and timers run.  The environment is not obliged to
\* anything: a server may upgrade a connection and never send its hello.
ClientFairness ==
    /\ WF_vars((RunStep /\ UNCHANGED serverVars) \/ DialEnds)
    /\ WF_vars(GraceExpires /\ UNCHANGED serverVars)
    /\ WF_vars(WaitReturns /\ UNCHANGED serverVars)

\* The handlers run too.
ServerFairness ==
    \A c \in Conns : WF_vars(HandlerStep(c) /\ UNCHANGED senderVars)

ClientFairSpec == Spec /\ ClientFairness
FairSpec == Spec /\ ClientFairness /\ ServerFairness
-----------------------------------------------------------------------------
\* Properties.

Stored(c, f) == \E i \in DOMAIN log : log[i] = Record(c, f)

\* The records of one connection land in the order their frames were produced,
\* each at most once (sender.go:15-17): no retry, reconciliation or second
\* write of a frame disturbs a connection.
OrderWithinConnection ==
    \A i, j \in DOMAIN log :
        i < j /\ log[i].conn = log[j].conn => log[i].frame < log[j].frame

\* A frame lands at most once over all the connections of a job ("a reconnect
\* never repeats it", sender.go:105), as long as a write that fails sent
\* nothing whole.
NoRepeat ==
    ~AmbiguousWrite =>
        \A i, j \in DOMAIN log : i # j => log[i].frame # log[j].frame

\* Of what was written on a connection, the places whose frame is not stored.
Missing(c) == {k \in DOMAIN sent[c] : ~Stored(c, sent[c][k])}

\* Once the server has echoed a close, all that was written on that connection
\* is in the log, capped or not, but for the frames whose write failed, each of
\* which was a fault (exec.go:119-121, "only after its reader has drained").
ClosedIsDrained ==
    Cardinality(UNION {{c} \X Missing(c) : c \in {d \in Conns : reply[d] = "closed"}})
        <= IF DiskErrors THEN faults ELSE 0

\* A connection whose close was answered leaves no tail behind: none of its
\* records lands after one of a later step (exec.go:115-119).
ConfirmedBeforeNext ==
    \A i, j \in DOMAIN log :
        i < j /\ log[j].conn \in confirmed
            => owner[log[i].conn] <= owner[log[j].conn]

\* Of what was written on a connection a prefix is stored, but for the frames
\* whose write failed, each of which was a fault: a refused frame ends the
\* connection (ws.go:112-118), even when a later, shorter one would fit.
Gaps(c) == {h \in DOMAIN sent[c] :
                /\ ~Stored(c, sent[c][h])
                /\ \E k \in h..Len(sent[c]) : Stored(c, sent[c][k])}

StoredPrefix ==
    Cardinality(UNION {{c} \X Gaps(c) : c \in Conns})
        <= IF DiskErrors THEN faults ELSE 0

\* A sender that ends before it is retired has left nothing in the queue
\* (sender.go:60-75, queue.go:27-28).
DrainedOrRetired == pc = "done" /\ wait = "grace" => Empty

\* A first step that met no fault and whose close was answered has its whole
\* output in the log, in order.
FirstStepComplete ==
    step = 1 /\ faults = 0 /\ confirmed # {} /\ MaxStreamBytes = 0 =>
        /\ Len(log) = pushed
        /\ \A i \in DOMAIN log : log[i].frame = i

\* The job's log is an at-most-once delivery of its frames.
ToWrite == IF pc \in {"dial", "dialling", "hello", "write"} THEN {frame} ELSE {}
InFlight(c) == IF srv[c] = "done" THEN {}
               ELSE {sent[c][k] : k \in (rcvd[c] + 1)..reach[c]}

AtMostOnceDelivery == INSTANCE Delivery WITH
    Frame <- Frames,
    produced <- 1..pushed,
    todo <- ((popped + 1)..pushed) \cup ToWrite,
    transit <- UNION {InFlight(c) : c \in Conns},
    stream <- [i \in DOMAIN log |-> log[i].frame]

DeliversAtMostOnce == AtMostOnceDelivery!DSpec

\* A command that has ended gets its process back (sender.go:35 and 157-158,
\* "an absent server costs a stream's tail and never the command").
WaitEnds == wait = "grace" ~> Ended

\* The server lets go of a connection the client has left or lost.
HandlerEnds ==
    \A c \in Conns : link[c] \in {"shut", "down"} ~> srv[c] = "done"

-----------------------------------------------------------------------------
\* What the code's comments say and the code does not do.

\* "What the server receives is what was produced, in that order"
\* (sender.go:16-17): no frame is passed over between two frames of a
\* connection.
NothingSkipped ==
    \A c \in Conns : \A k \in 2..Len(sent[c]) : sent[c][k] = sent[c][k - 1] + 1

\* "The server answers a close only after its reader has drained, which is the
\* proof this waits for.  The ack says the same thing" (exec.go:119-121): what
\* was written on a connection the client takes for answered is in the log.
ConfirmedDrained == \A c \in confirmed : Missing(c) = {}
=============================================================================
