-------------------------------- MODULE Pump --------------------------------
(***************************************************************************)
(* pump (cmd/ls-client/cmd/stream.go): a goroutine reads the command's     *)
(* pipe and hands each result over an unbuffered channel; the pump tees    *)
(* it, cuts it into frames at line ends, and lets a timer push out a       *)
(* partial line.                                                           *)
(*                                                                         *)
(* Bytes are counted.  All that the code asks of a read is where its last  *)
(* newline is: a result is the bytes up to it and those after it.          *)
(***************************************************************************)
EXTENDS Integers, Sequences

CONSTANTS
    ChunkSize, \* chunkSize
    MaxReads,  \* bound: reads that return data
    SendFails  \* can send fail?  pump has a branch for it, and a test; the
               \* program's only send, durableSender.sendFrame, never does

ASSUME PumpAssumption ==
    /\ ChunkSize \in Nat \ {0}
    /\ MaxReads \in Nat
    /\ SendFails \in BOOLEAN

VARIABLES
    rpc,       \* the reading goroutine
    result,    \* what it is handing over
    pc,        \* the pump: in its select, past a read error, or gone
    pending,   \* len(pending)
    pendingAt, \* the read whose time the next frame carries
    armed,
    timer,     \* the timer: off, running, or its tick waits in the channel
    retired,
    reads,     \* results taken so far: the clock
    \* History: bytes read, teed and sent; the frames, each with its length,
    \* its timestamp and when its first byte was read; the read that brought
    \* the first pending byte.
    got, teed, shipped, frames, oldest

readerVars == <<rpc, result>>
timerVars  == <<armed, timer>>
pumpVars   == <<readerVars, pc, pending, pendingAt, timerVars, retired, reads,
                got, teed, shipped, frames, oldest>>

\* head: bytes up to the last newline; tail: bytes after it.
Results == {r \in [head : 0..ChunkSize, tail : 0..ChunkSize, ends : BOOLEAN] :
               r.head + r.tail <= ChunkSize /\ (r.head + r.tail > 0 \/ r.ends)}
Nothing == [head |-> 0, tail |-> 0, ends |-> FALSE]

TypeOK ==
    /\ rpc \in {"reading", "handing", "returned"}
    /\ result \in Results \cup {Nothing}
    /\ pc \in {"select", "ending", "returned"}
    /\ pending \in Nat /\ pendingAt \in Nat
    /\ armed \in BOOLEAN /\ timer \in {"off", "running", "fired"}
    /\ retired \in BOOLEAN
    /\ reads \in Nat /\ got \in Nat /\ teed \in Nat /\ shipped \in Nat
    /\ frames \in Seq([len : Nat, at : Nat, read : Nat])
    /\ oldest \in Nat

Init ==
    /\ rpc = "reading" /\ result = Nothing
    /\ pc = "select"
    /\ pending = 0 /\ pendingAt = 0
    /\ armed = FALSE /\ timer = "off"
    /\ retired = FALSE
    /\ reads = 0 /\ got = 0 /\ teed = 0 /\ shipped = 0
    /\ frames = <<>> /\ oldest = 0

-----------------------------------------------------------------------------
\* The reader.

\* Read returns up to a chunk, perhaps with an error (io.EOF among them).
Reads ==
    /\ rpc = "reading"
    /\ reads < MaxReads
    /\ result' \in Results
    /\ rpc' = "handing"
    /\ got' = got + result'.head + result'.tail
    /\ UNCHANGED <<pc, pending, pendingAt, timerVars, retired, reads, teed,
                   shipped, frames, oldest>>

-----------------------------------------------------------------------------
\* The pump.

\* flush(upTo) of `have` pending bytes stamped `at`, the first of them read at
\* `first`.  It touches the timer only through Stops.
Flush(have, upTo, at, first) ==
    \/ /\ upTo = 0 \/ retired
       /\ pending' = have - upTo
       /\ UNCHANGED <<retired, shipped, frames>>
    \/ /\ upTo > 0 /\ ~retired
       /\ pending' = have - upTo
       /\ shipped' = shipped + upTo
       /\ frames' = Append(frames, [len |-> upTo, at |-> at, read |-> first])
       /\ UNCHANGED retired
    \/ /\ upTo > 0 /\ ~retired /\ SendFails
       /\ retired' = TRUE
       /\ pending' = 0
       /\ UNCHANGED <<shipped, frames>>

\* A flush that sent all there was stops an armed timer.
Stops == armed /\ shipped' # shipped /\ pending' = 0

\* Mutants: no line end, no frame; without a line end always a whole chunk.
UpToLines(have, r) == IF r.head > 0 THEN have - r.tail ELSE 0
UpToChunk(have, r) == IF r.head > 0 THEN have - r.tail ELSE ChunkSize

\* How much of `have` bytes goes out when r has been appended.
UpTo(have, r) ==
    IF r.head > 0 THEN have - r.tail
    ELSE IF have >= ChunkSize THEN have ELSE 0

\* Mutant: the rest of a line is timed only when nothing was sent before it.
ArmUnsent ==
    /\ armed' = (~Stops /\ (armed \/ (pending' > 0 /\ shipped' = shipped)))
    /\ timer' = IF Stops THEN "off"
                ELSE IF pending' > 0 /\ shipped' = shipped /\ ~armed THEN "running"
                ELSE timer

\* A partial line is timed, once.
Arm ==
    /\ armed' = (~Stops /\ (armed \/ pending' > 0))
    /\ timer' = IF Stops THEN "off"
                ELSE IF pending' > 0 /\ ~armed THEN "running" ELSE timer

\* Mutants: a frame is stamped as it is cut; the pump returns without a last
\* flush.
StampNow(now) == now
EndsShort ==
    /\ pc = "ending"
    /\ pc' = "returned"
    /\ armed' = FALSE
    /\ timer' = "off"
    /\ UNCHANGED <<readerVars, pending, pendingAt, retired, reads, got, teed,
                   shipped, frames, oldest>>

\* pendingAt, if it is time for a new one.
Stamp(now) == IF pending = 0 THEN now ELSE pendingAt

\* A result comes over the channel.
Receives ==
    /\ pc = "select"
    /\ rpc = "handing"
    /\ LET n    == result.head + result.tail
           have == pending + n
           now  == reads + 1
           at   == Stamp(now)
           old  == IF pending = 0 THEN now ELSE oldest
       IN  /\ reads' = now
           /\ teed' = teed + n
           /\ IF n = 0 THEN UNCHANGED <<pending, pendingAt, timerVars, retired,
                                        shipped, frames, oldest>>
              ELSE /\ Flush(have, UpTo(have, result), at, old)
                   /\ Arm
                   /\ pendingAt' = at
                   /\ oldest' = IF UpTo(have, result) > 0 THEN now ELSE old
    /\ pc' = IF result.ends THEN "ending" ELSE "select"
    /\ rpc' = IF result.ends THEN "returned" ELSE "reading"
    /\ result' = Nothing
    /\ UNCHANGED got

\* After a read error what is left goes out, and the pump returns.
Ends ==
    /\ pc = "ending"
    /\ Flush(pending, pending, pendingAt, oldest)
    /\ armed' = (armed /\ ~Stops)
    /\ timer' = "off"
    /\ pc' = "returned"
    /\ UNCHANGED <<readerVars, pendingAt, reads, got, teed, oldest>>

\* flushInterval passes.
Fires ==
    /\ timer = "running"
    /\ timer' = "fired"
    /\ UNCHANGED <<readerVars, pc, pending, pendingAt, armed, retired, reads, got,
                   teed, shipped, frames, oldest>>

\* The tick is taken: the partial line goes out.
Ticks ==
    /\ pc = "select"
    /\ timer = "fired"
    /\ armed' = FALSE
    /\ timer' = "off"
    /\ Flush(pending, pending, pendingAt, oldest)
    /\ UNCHANGED <<readerVars, pc, pendingAt, reads, got, teed, oldest>>

\* Nothing is left to do, or the command has gone quiet for good.
Quiet == (pc = "returned" \/ reads = MaxReads) /\ UNCHANGED pumpVars

Next == Reads \/ Receives \/ Ends \/ Fires \/ Ticks \/ Quiet

Spec == Init /\ [][Next]_pumpVars

\* The pump and the timer run; the command need not write anything more.
FairSpec == Spec /\ WF_pumpVars(Receives \/ Ends) /\ WF_pumpVars(Fires) /\ WF_pumpVars(Ticks)

-----------------------------------------------------------------------------
\* Properties.

\* armed says whether the timer is set.  Were it wrong, the receive after Stop
\* would wait for a tick that never comes (stream.go:72-77), or a partial line
\* would wait for its newline.
TimerMatches ==
    pc = "select" =>
        /\ armed <=> timer # "off"
        /\ pending > 0 => armed

\* The pump returns with everything sent, unless sending has failed, and with
\* everything teed in any case: the local copy is the one of record
\* (stream.go:58).
NothingLost ==
    pc = "returned" => teed = got /\ (~retired => shipped = got)

\* Memory and frames are bounded (stream.go:26-27): what waits is less than a
\* chunk, and a frame is what waited and one more chunk at most.
FrameBound ==
    /\ pc = "select" => pending < ChunkSize
    /\ \A i \in DOMAIN frames : frames[i].len < 2 * ChunkSize

\* Timestamps never run backwards, and never ahead of the bytes they stamp.
StampsOrdered ==
    /\ \A i \in DOMAIN frames : frames[i].at <= frames[i].read
    /\ \A i, j \in DOMAIN frames : i < j => frames[i].at <= frames[j].at

\* "A prompt still gets through" (stream.go:14): what is pending is sent or
\* dropped in the end, though the command writes nothing more.
PromptGetsThrough == (pc = "select" /\ pending > 0) ~> (pending = 0)
=============================================================================
