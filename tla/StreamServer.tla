---------------------------- MODULE StreamServer ----------------------------
(***************************************************************************)
(* ls-server's side of a stream: handleStream (internal/server/ws.go), one *)
(* goroutine per connection, and the part of the store it calls            *)
(* (OpenWriter, Writer.Append, StoredBytes in internal/storage/storage.go).*)
(* Handlers of one stream share its file and nothing else: each appends    *)
(* with O_APPEND under the shard lock, so a record lands whole and the     *)
(* order of the records in the file is the order of the appends.           *)
(***************************************************************************)
EXTENDS Link

CONSTANTS Named,           \* every connection names the stream (?token=)
          MaxStreamBytes,  \* Options.MaxStreamBytes; 0 is unlimited
          DiskErrors       \* a write to the data directory can fail

ASSUME ServerAssumption ==
    /\ Named \in BOOLEAN
    /\ DiskErrors \in BOOLEAN
    /\ MaxStreamBytes \in Nat

VARIABLES srv,      \* srv[c]: where the handler of c is
          sbytes,   \* sbytes[c]: Writer.streamBytes of the handler's writer
          bytes,    \* bytes[t]: size of the file of stream t
          log       \* the records of all files, in the order they landed

serverVars == <<srv, sbytes, bytes, log>>

\* A connection without a token gets a freshly minted one: a stream of its own.
Stream(c) == IF Named THEN 0 ELSE c
Streams == {Stream(c) : c \in Conns}

Record(c, f) == [conn |-> c, frame |-> f]

ServerTypeOK ==
    /\ srv \in [Conns -> {"none", "open", "greeted", "reading", "done"}]
    /\ sbytes \in [Conns -> Nat]
    /\ bytes \in [Streams -> Nat]
    /\ log \in Seq([conn : Conns, frame : Frames])

ServerInit ==
    /\ srv = [c \in Conns |-> "none"]
    /\ sbytes = [c \in Conns |-> 0]
    /\ bytes = [t \in Streams |-> 0]
    /\ log = <<>>

Goto(c, where) == srv' = [srv EXCEPT ![c] = where]

\* What Append puts in the file for frame f: the prefix and the body.
DiskLen(f) == UvarintLen(BodyLen[f]) + BodyLen[f]

\* The cap compares the writer's own count, and counts bodies only.
PastCap(c, f) == MaxStreamBytes > 0 /\ sbytes[c] + BodyLen[f] > MaxStreamBytes

\* The upgrade succeeds and the handler starts.
Accept(c) ==
    /\ srv[c] = "none"
    /\ Goto(c, "open")
    /\ UNCHANGED <<sbytes, bytes, log>>

\* The handler tells the client what the stream holds at this moment.
Greet(c) ==
    /\ srv[c] = "open"
    /\ hello' = [hello EXCEPT ![c] = bytes[Stream(c)]]
    /\ Goto(c, "greeted")
    /\ UNCHANGED <<link, sent, reach, rcvd, fin, reply, faults, sbytes, bytes, log>>

OpenWriter(c) ==
    /\ srv[c] = "greeted"
    /\ sbytes' = [sbytes EXCEPT ![c] = bytes[Stream(c)]]
    /\ Goto(c, "reading")
    /\ UNCHANGED <<linkVars, bytes, log>>

\* Minting, joining the group, writing the hello or opening the file fails.
HandlerAborts(c) ==
    /\ srv[c] \in {"open", "greeted"}
    /\ Fault
    /\ Goto(c, "done")
    /\ UNCHANGED <<link, sent, reach, rcvd, fin, hello, reply, sbytes, bytes, log>>

\* Mutant: the close is seen before the frames that precede it.
Reading(c) == srv[c] = "reading"

Arrived(c) == srv[c] = "reading" /\ rcvd[c] < reach[c]
Drained(c) == srv[c] = "reading" /\ rcvd[c] = reach[c]
NextFrame(c) == sent[c][rcvd[c] + 1]
Take(c) == rcvd' = [rcvd EXCEPT ![c] = @ + 1]

\* A frame is read and appended to the stream's file.
Store(c) ==
    /\ Arrived(c)
    /\ ~PastCap(c, NextFrame(c))
    /\ Take(c)
    /\ log' = Append(log, Record(c, NextFrame(c)))
    /\ bytes' = [bytes EXCEPT ![Stream(c)] = @ + DiskLen(NextFrame(c))]
    /\ sbytes' = [sbytes EXCEPT ![c] = @ + BodyLen[NextFrame(c)]]
    /\ UNCHANGED <<link, sent, reach, fin, hello, reply, faults, srv>>

\* Mutant: a refused frame does not end the connection.
RefuseOne(c) ==
    /\ Arrived(c)
    /\ PastCap(c, NextFrame(c))
    /\ Take(c)
    /\ UNCHANGED <<link, sent, reach, fin, hello, reply, faults, srv, sbytes, bytes, log>>

\* A frame past the cap ends the connection with an error message.
Refuse(c) ==
    /\ Arrived(c)
    /\ PastCap(c, NextFrame(c))
    /\ Take(c)
    /\ reply' = [reply EXCEPT ![c] = "error"]
    /\ Goto(c, "done")
    /\ UNCHANGED <<link, sent, reach, fin, hello, faults, sbytes, bytes, log>>

\* The write fails, perhaps after some bytes of the record: the handler logs
\* it and reads on.
AppendFails(c) ==
    /\ DiskErrors
    /\ Arrived(c)
    /\ ~PastCap(c, NextFrame(c))
    /\ Fault
    /\ Take(c)
    /\ \E torn \in {0, DiskLen(NextFrame(c)) - 1} :
          bytes' = [bytes EXCEPT ![Stream(c)] = @ + torn]
    /\ UNCHANGED <<link, sent, reach, fin, hello, reply, srv, sbytes, log>>

\* The close frame is read: the close is echoed, and the reader is done.
ReadClose(c) ==
    /\ Drained(c)
    /\ fin[c]
    /\ reply' = [reply EXCEPT ![c] = "closed"]
    /\ Goto(c, "done")
    /\ UNCHANGED <<link, sent, reach, rcvd, fin, hello, faults, sbytes, bytes, log>>

\* A read that fails ends the loop, and the ack follows whatever the failure.
AckAndReturn(c) ==
    /\ reply' = [reply EXCEPT ![c] = "ack"]
    /\ Goto(c, "done")

\* Mutant: only a broken connection ends the read.
ReadBreaks(c) ==
    /\ Drained(c)
    /\ ~fin[c]
    /\ link[c] = "down"
    /\ AckAndReturn(c)
    /\ UNCHANGED <<link, sent, reach, rcvd, fin, hello, faults, sbytes, bytes, log>>

\* The read fails: the client closed its socket, or the connection broke.  The
\* ack reaches nobody.
ReadEnds(c) ==
    /\ Drained(c)
    /\ ~fin[c]
    /\ link[c] \in {"shut", "down"}
    /\ AckAndReturn(c)
    /\ UNCHANGED <<link, sent, reach, rcvd, fin, hello, faults, sbytes, bytes, log>>

\* The idle deadline passes: a network or a disk stalls for longer than
\* idleTimeout, for the client's pings keep a quiet connection alive.  The
\* connection is up, and what is on its way, the close included, is never read.
ReadTimesOut(c) ==
    /\ srv[c] = "reading"
    /\ Fault
    /\ AckAndReturn(c)
    /\ UNCHANGED <<link, sent, reach, rcvd, fin, hello, sbytes, bytes, log>>

HandlerStep(c) ==
    \/ Greet(c)
    \/ OpenWriter(c)
    \/ Store(c)
    \/ Refuse(c)
    \/ AppendFails(c)
    \/ ReadClose(c)
    \/ ReadEnds(c)

\* The process stops, by a crash or by Run returning on a signal, and starts
\* again: every handler and connection is gone, the files stay.
ServerCrash ==
    /\ Fault
    /\ \E c \in Conns : srv[c] \notin {"none", "done"}
    /\ srv' = [c \in Conns |-> IF srv[c] = "none" THEN "none" ELSE "done"]
    /\ link' = [c \in Conns |-> IF Open(c) THEN "down" ELSE link[c]]
    /\ reach' = rcvd
    /\ fin' = [c \in Conns |-> FALSE]
    /\ UNCHANGED <<sent, rcvd, hello, reply, sbytes, bytes, log>>
=============================================================================
