--------------------------- MODULE DurableSender ---------------------------
(***************************************************************************)
(* ls-client's side of a stream: the frame queue (queue.go), the           *)
(* durableSender goroutine that drains it (sender.go), and the process     *)
(* around them (streamExec in exec.go, runSend in send.go).                *)
(*                                                                         *)
(* A step is one such process.  The steps of a job run one after another   *)
(* and share a stream.  The queue holds the frames popped+1 .. pushed: the *)
(* frames are numbered in the order they are produced, over all steps.     *)
(***************************************************************************)
EXTENDS Link

CONSTANTS NumSteps,        \* bound: steps of the job
          AmbiguousWrite   \* a write that fails may have been sent whole

ASSUME SenderAssumption ==
    /\ NumSteps \in Nat /\ NumSteps >= 1
    /\ AmbiguousWrite \in BOOLEAN

VARIABLES step,       \* the step that is running
          owner,      \* owner[c]: the step that opened connection c
          pushed,     \* frames pushed so far
          popped,     \* frames gone from the queue so far
          closed,     \* queue.closed
          pc,         \* where run() is
          frame,      \* the local variable frame of run(), 0 outside an iteration
          conn,       \* durableSender.conn, 0 for nil
          dials,      \* connections opened so far; the last is the newest
          stored,     \* durableSender.stored
          wait,       \* where the process is in wait()
          confirmed   \* connections whose close the server answered

senderVars == <<step, owner, pushed, popped, closed, pc, frame, conn, dials,
                stored, wait, confirmed>>

SenderTypeOK ==
    /\ step \in 1..NumSteps
    /\ owner \in [Conns -> 0..NumSteps]
    /\ pushed \in 0..NumFrames
    /\ popped \in 0..pushed
    /\ closed \in BOOLEAN
    /\ pc \in {"top", "dial", "dialling", "hello", "write", "finish", "await", "done"}
    /\ frame \in 0..NumFrames
    /\ conn \in 0..dials
    /\ dials \in 0..MaxConns
    /\ stored \in Nat
    /\ wait \in {"running", "grace", "quit", "returned", "killed"}
    /\ confirmed \subseteq Conns

SenderInit ==
    /\ step = 1
    /\ owner = [c \in Conns |-> 0]
    /\ pushed = 0
    /\ popped = 0
    /\ closed = FALSE
    /\ pc = "top"
    /\ frame = 0
    /\ conn = 0
    /\ dials = 0
    /\ stored = 0
    /\ wait = "running"
    /\ confirmed = {}

\* recordLen: what a frame occupies in the server's file.
RecordLen(f) == UvarintLen(BodyLen[f]) + BodyLen[f]

\* Mutants: a reconciliation that forgets the record's own length, a Pop that
\* does not look whether there is a head, and one that leaves it.
HoldsNothing(held, f) == held >= stored
PopUnguarded == popped' = popped + 1
PopForgotten == UNCHANGED popped

Empty == popped = pushed
Pop == popped' = IF Empty THEN popped ELSE popped + 1

\* Mutant: quit is never closed.
NeverRetired == FALSE

\* The quit channel is closed.
Retired == wait = "quit"

Ended == wait \in {"returned", "killed"}

-----------------------------------------------------------------------------
\* The command's side.

\* sendFrame, from pump or sendMarker.
Produce ==
    /\ wait = "running"
    /\ pushed < NumFrames
    /\ pushed' = pushed + 1
    /\ UNCHANGED <<linkVars, step, owner, popped, closed, pc, frame, conn, dials,
                   stored, wait, confirmed>>

\* The command exited: the queue is closed, and the process waits.
CloseQueue ==
    /\ wait = "running"
    /\ closed' = TRUE
    /\ wait' = "grace"
    /\ UNCHANGED <<linkVars, step, owner, pushed, popped, pc, frame, conn, dials,
                   stored, confirmed>>

\* drainGrace passed and the sender is not done.
GraceExpires ==
    /\ wait = "grace"
    /\ wait' = "quit"
    /\ UNCHANGED <<linkVars, step, owner, pushed, popped, closed, pc, frame, conn,
                   dials, stored, confirmed>>

\* The process is gone: the kernel closes its socket, and what is still in
\* its queue is lost.
Exit(how) ==
    /\ wait' = how
    /\ pc' = "done"
    /\ frame' = 0
    /\ conn' = 0
    /\ link' = [c \in Conns |-> IF c = dials /\ link[c] = "up" THEN "shut" ELSE link[c]]
    /\ UNCHANGED <<sent, reach, rcvd, fin, hello, reply, step, owner, pushed,
                   popped, closed, dials, stored, confirmed>>

\* wait() saw that the sender is done.
WaitReturns == pc = "done" /\ wait \in {"grace", "quit"} /\ Exit("returned")
            /\ UNCHANGED faults

\* The process is killed, or leaves streamExec early, without draining.
Killed == ~Ended /\ Fault /\ Exit("killed")

\* The job's next step starts a client of its own.
NextStep ==
    /\ Ended
    /\ step < NumSteps
    /\ step' = step + 1
    /\ popped' = pushed
    /\ closed' = FALSE
    /\ pc' = "top"
    /\ stored' = 0
    /\ wait' = "running"
    /\ UNCHANGED <<linkVars, owner, pushed, frame, conn, dials, confirmed>>

-----------------------------------------------------------------------------
\* The goroutine run().

\* The quit check at the head of the loop.
RunRetired ==
    /\ pc = "top"
    /\ Retired
    /\ pc' = "done"
    /\ UNCHANGED <<linkVars, step, owner, pushed, popped, closed, frame, conn,
                   dials, stored, wait, confirmed>>

\* Mutant: the newest frame instead of the head.
TakeTail ==
    /\ pc = "top"
    /\ ~Retired
    /\ ~Empty
    /\ frame' = pushed
    /\ pc' = IF conn = 0 THEN "dial" ELSE "write"
    /\ UNCHANGED <<linkVars, step, owner, pushed, popped, closed, conn, dials,
                   stored, wait, confirmed>>

\* Head returns a frame, which run() keeps in a variable of its own.
TakeHead ==
    /\ pc = "top"
    /\ ~Retired
    /\ ~Empty
    /\ frame' = popped + 1
    /\ pc' = IF conn = 0 THEN "dial" ELSE "write"
    /\ UNCHANGED <<linkVars, step, owner, pushed, popped, closed, conn, dials,
                   stored, wait, confirmed>>

\* Mutant: a closed queue ends the stream, frames or not.
QueueClosed ==
    /\ pc = "top"
    /\ ~Retired
    /\ closed
    /\ pc' = IF conn = 0 THEN "done" ELSE "finish"
    /\ UNCHANGED <<linkVars, step, owner, pushed, popped, closed, frame, conn,
                   dials, stored, wait, confirmed>>

\* Head reports a closed and empty queue; without a connection finish() has
\* nothing to do.
QueueDrained ==
    /\ pc = "top"
    /\ ~Retired
    /\ Empty
    /\ closed
    /\ pc' = IF conn = 0 THEN "done" ELSE "finish"
    /\ UNCHANGED <<linkVars, step, owner, pushed, popped, closed, frame, conn,
                   dials, stored, wait, confirmed>>

\* connect() sees quit before another dial, or while it pauses after one.
DialRetired ==
    /\ pc = "dial"
    /\ Retired
    /\ pc' = "done"
    /\ frame' = 0
    /\ UNCHANGED <<linkVars, step, owner, pushed, popped, closed, conn, dials,
                   stored, wait, confirmed>>

DialBegins ==
    /\ pc = "dial"
    /\ ~Retired
    /\ pc' = "dialling"
    /\ UNCHANGED <<linkVars, step, owner, pushed, popped, closed, frame, conn,
                   dials, stored, wait, confirmed>>

\* The dial itself fails: connect() pauses and comes round again.
DialFails ==
    /\ pc = "dialling"
    /\ pc' = "dial"
    /\ UNCHANGED <<linkVars, step, owner, pushed, popped, closed, frame, conn,
                   dials, stored, wait, confirmed>>

\* The upgrade succeeds, and the dial closure waits for the hello.
Dialled(c) ==
    /\ pc = "dialling"
    /\ c = dials + 1
    /\ dials' = c
    /\ owner' = [owner EXCEPT ![c] = step]
    /\ link' = [link EXCEPT ![c] = "up"]
    /\ pc' = "hello"
    /\ UNCHANGED <<sent, reach, rcvd, fin, hello, reply, faults, step, pushed,
                   popped, closed, frame, conn, stored, wait, confirmed>>

\* The reconciliation: is the head already among what the server holds?
Holds(held, f) == held >= stored + RecordLen(f)

\* The hello arrives, and connect() reconciles: a head the server seems to
\* hold leaves the queue.  run() goes on to write the frame it took before.
HelloRead ==
    /\ pc = "hello"
    /\ link[dials] = "up"
    /\ hello[dials] # NoHello
    /\ conn' = dials
    /\ IF ~Empty /\ Holds(hello[dials], popped + 1) THEN Pop ELSE UNCHANGED popped
    /\ stored' = hello[dials]
    /\ pc' = "write"
    /\ UNCHANGED <<linkVars, step, owner, pushed, closed, frame, dials, wait, confirmed>>

\* The connection ends before a hello: the closure closes it, the dial failed.
HelloFails(serverDone) ==
    /\ pc = "hello"
    /\ link[dials] = "down" \/ (serverDone /\ hello[dials] = NoHello)
    /\ link' = Shut(dials)
    /\ pc' = "dial"
    /\ UNCHANGED <<sent, reach, rcvd, fin, hello, reply, faults, step, owner, pushed,
                   popped, closed, frame, conn, dials, stored, wait, confirmed>>

\* The kernel takes the frame, and the head leaves the queue.
WriteOk ==
    /\ pc = "write"
    /\ link[conn] = "up"
    /\ Transmit(conn, frame)
    /\ stored' = stored + RecordLen(frame)
    /\ Pop
    /\ frame' = 0
    /\ pc' = "top"
    /\ UNCHANGED <<link, rcvd, fin, hello, reply, faults, step, owner, pushed,
                   closed, conn, dials, wait, confirmed>>

\* The write fails, and the connection is dropped: it broke before, or the
\* write deadline passed while the connection was stalled.
WriteFails ==
    /\ pc = "write"
    /\ \/ link[conn] = "down" /\ UNCHANGED <<faults, sent, reach>>
       \/ link[conn] = "up" /\ Fault /\ UNCHANGED <<sent, reach>>
       \/ AmbiguousWrite /\ link[conn] = "up" /\ Fault /\ Transmit(conn, frame)
    /\ link' = Shut(conn)
    /\ conn' = 0
    /\ frame' = 0
    /\ pc' = "top"
    /\ UNCHANGED <<rcvd, fin, hello, reply, step, owner, pushed, popped, closed,
                   dials, stored, wait, confirmed>>

\* closeStream sends the close frame, under the deadline of the last frame's
\* write: once that has passed nothing is sent.
FinishCloses ==
    /\ pc = "finish"
    /\ \E late \in BOOLEAN :
          fin' = [fin EXCEPT ![conn] = ~late /\ link[conn] = "up"]
    /\ pc' = "await"
    /\ UNCHANGED <<link, sent, reach, rcvd, hello, reply, faults, step, owner, pushed,
                   popped, closed, frame, conn, dials, stored, wait, confirmed>>

AwaitEnds ==
    /\ pc = "await"
    /\ link' = Shut(conn)
    /\ conn' = 0
    /\ pc' = "done"
    /\ UNCHANGED <<sent, reach, rcvd, fin, hello, reply, faults, step, owner, pushed,
                   popped, closed, frame, dials, stored, wait>>

\* Mutant: any end of the wait counts as an answer.
ConfirmedAnyway ==
    /\ pc = "await"
    /\ confirmed' = confirmed \cup {conn}
    /\ AwaitEnds

\* The server's answer is read: any JSON object will do, so the ack of a
\* handler that gave up and an error message are taken for it.
Confirmed ==
    /\ pc = "await"
    /\ link[conn] = "up"
    /\ reply[conn] # "none"
    /\ confirmed' = confirmed \cup {conn}
    /\ AwaitEnds

\* ackTimeout passed, or the connection ended without an answer.
Unconfirmed ==
    /\ pc = "await"
    /\ AwaitEnds
    /\ UNCHANGED confirmed
=============================================================================
