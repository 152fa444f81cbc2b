--------------------------- MODULE StepRunProofs ---------------------------
(***************************************************************************)
(* Proofs about StepRun and StepLog, for any number of steps, frames and   *)
(* faults, any streams and any exit codes: the types, that an end marker   *)
(* is the last that is heard of its step, that the log and the runner are  *)
(* told the same, and that a reader's sections are the steps.              *)
(***************************************************************************)
EXTENDS StepLog, DataLemmas

USE StepAssumption DEF StepAssumption

-----------------------------------------------------------------------------
\* Sequences of frames, on a connection or in the queue.
IsEnd(f)     == f.event = "step_end"
HasEnd(q)    == \E i \in DOMAIN q : IsEnd(q[i])
EndsLast(q)  == \A i \in DOMAIN q : IsEnd(q[i]) => i = Len(q)
OfStep(q, s) == \A i \in DOMAIN q : q[i].step = s

LEMMA AppendFrame ==
    ASSUME NEW q \in Seq(AnyFrame), NEW f \in AnyFrame
    PROVE  /\ Append(q, f) \in Seq(AnyFrame)
           /\ Append(q, f) # <<>>
           /\ HasEnd(Append(q, f)) <=> HasEnd(q) \/ IsEnd(f)
           /\ ~HasEnd(q) => EndsLast(Append(q, f))
           /\ \A s : OfStep(q, s) /\ f.step = s => OfStep(Append(q, f), s)
<1> DEFINE r == Append(q, f)
           F == AnyFrame
<1> HIDE DEF F
<1>0. q \in Seq(F) /\ f \in F
  BY DEF F
<1>1. /\ Len(q) \in Nat /\ Len(r) = Len(q) + 1 /\ DOMAIN q = 1..Len(q)
      /\ DOMAIN r = 1..(Len(q) + 1) /\ r[Len(q) + 1] = f
      /\ \A i \in 1..Len(q) : r[i] = q[i]
  BY <1>0
<1>2. r \in Seq(F) /\ r # <<>>
  BY <1>0
<1>3. \A i \in DOMAIN r : i = Len(q) + 1 \/ i \in DOMAIN q
  BY <1>1
<1>4. Len(q) + 1 \in DOMAIN r /\ \A i \in DOMAIN q : i \in DOMAIN r
  BY <1>1
<1> HIDE DEF r
<1>5. HasEnd(r) <=> HasEnd(q) \/ IsEnd(f)
  BY <1>1, <1>3, <1>4 DEF HasEnd
<1>6. ~HasEnd(q) => EndsLast(r)
  BY <1>1, <1>3 DEF HasEnd, EndsLast
<1>7. \A s : OfStep(q, s) /\ f.step = s => OfStep(r, s)
  BY <1>1, <1>3 DEF OfStep
<1> QED
  BY <1>2, <1>5, <1>6, <1>7 DEF r, F

LEMMA TailFrame ==
    ASSUME NEW q \in Seq(AnyFrame), q # <<>>
    PROVE  /\ Tail(q) \in Seq(AnyFrame)
           /\ Head(q) \in AnyFrame
           /\ HasEnd(Tail(q)) => HasEnd(q)
           /\ IsEnd(Head(q)) => HasEnd(q)
           /\ EndsLast(q) => EndsLast(Tail(q))
           /\ EndsLast(q) /\ IsEnd(Head(q)) => Tail(q) = <<>>
           /\ \A s : OfStep(q, s) => OfStep(Tail(q), s) /\ Head(q).step = s
<1> DEFINE t == Tail(q)
           F == AnyFrame
<1> HIDE DEF F
<1>0. q \in Seq(F)
  BY DEF F
<1>1. /\ Len(q) \in Nat /\ Len(q) > 0 /\ Len(t) = Len(q) - 1 /\ DOMAIN q = 1..Len(q)
      /\ DOMAIN t = 1..(Len(q) - 1) /\ Head(q) = q[1]
      /\ \A i \in 1..(Len(q) - 1) : t[i] = q[i + 1]
  BY <1>0
<1>2. t \in Seq(F) /\ Head(q) \in F
  BY <1>0
<1>3. 1 \in DOMAIN q /\ \A i \in DOMAIN t : i + 1 \in DOMAIN q /\ t[i] = q[i + 1]
  BY <1>1
<1>4. Len(t) = 0 => t = <<>>
  BY <1>2
<1> HIDE DEF t
<1>5. HasEnd(t) => HasEnd(q)
  BY <1>3 DEF HasEnd
<1>6. IsEnd(Head(q)) => HasEnd(q)
  BY <1>1, <1>3 DEF HasEnd
<1>7. EndsLast(q) => EndsLast(t)
  <2> SUFFICES ASSUME EndsLast(q), NEW i \in DOMAIN t, IsEnd(t[i]) PROVE i = Len(t)
    BY DEF EndsLast
  <2>1. i + 1 = Len(q)
    BY <1>3 DEF EndsLast
  <2> QED
    BY <1>1, <2>1
<1>8. EndsLast(q) /\ IsEnd(Head(q)) => t = <<>>
  BY <1>1, <1>3, <1>4 DEF EndsLast
<1>9. \A s : OfStep(q, s) => OfStep(t, s) /\ Head(q).step = s
  BY <1>1, <1>3 DEF OfStep
<1> QED
  BY <1>2, <1>5, <1>6, <1>7, <1>8, <1>9 DEF t, F

\* What a break leaves of a connection.
LEMMA CutFrame ==
    ASSUME NEW q \in Seq(AnyFrame), NEW n \in 0..(Len(q) - 1)
    PROVE  /\ SubSeq(q, 1, n) \in Seq(AnyFrame)
           /\ EndsLast(q) => ~HasEnd(SubSeq(q, 1, n))
           /\ \A s : OfStep(q, s) => OfStep(SubSeq(q, 1, n), s)
<1> DEFINE r == SubSeq(q, 1, n)
           F == AnyFrame
<1> HIDE DEF F
<1>0. q \in Seq(F)
  BY DEF F
<1>1. /\ Len(q) \in Nat /\ DOMAIN q = 1..Len(q) /\ n \in Nat /\ n < Len(q)
      /\ DOMAIN r = 1..n /\ \A i \in 1..n : r[i] = q[i]
  BY <1>0
<1>2. r \in Seq(F)
  BY <1>0, <1>1
<1>3. \A i \in DOMAIN r : i \in DOMAIN q /\ r[i] = q[i] /\ i # Len(q)
  BY <1>1
<1> HIDE DEF r
<1>4. EndsLast(q) => ~HasEnd(r)
  BY <1>3 DEF EndsLast, HasEnd
<1>5. \A s : OfStep(q, s) => OfStep(r, s)
  BY <1>3 DEF OfStep
<1> QED
  BY <1>2, <1>4, <1>5 DEF r, F

-----------------------------------------------------------------------------
\* Types.  What a marker reports is known by then, and only a running command
\* has pumps.
CodeKnown ==
    /\ mode = "exec" => code \in Codes \cup {NoCode}
    /\ main \in {"begin", "start"} => code = NoCode

PumpsRun == main # "running" => pumping = {}

TypeInv == TypeOK /\ CodeKnown /\ PumpsRun

LEMMA FrameTypes ==
    ASSUME TypeInv
    PROVE  /\ StartFrame \in AnyFrame /\ StartFrame.step = step /\ ~IsEnd(StartFrame)
           /\ \A c \in Codes : EndFrame(c) \in AnyFrame /\ EndFrame(c).step = step
           /\ \A s \in Streams : \A f \in TextFrames(s) :
                 f \in AnyFrame /\ f.step = step /\ ~IsEnd(f)
<1>1. step \in Steps /\ 0 \in Codes
  BY DEF TypeInv, TypeOK
<1>2. StartFrame \in AnyFrame /\ StartFrame.step = step /\ ~IsEnd(StartFrame)
  BY <1>1 DEF StartFrame, Frame, AnyFrame, IsEnd
<1>3. \A c \in Codes : EndFrame(c) \in AnyFrame /\ EndFrame(c).step = step
  BY <1>1 DEF EndFrame, Frame, AnyFrame
<1>4. ASSUME NEW s \in Streams, NEW f \in TextFrames(s)
      PROVE  f \in AnyFrame /\ f.step = step /\ ~IsEnd(f)
  <2>1. CASE f = Frame(s, 1, FALSE, "text", 0)
    BY <1>1, <2>1 DEF Frame, AnyFrame, IsEnd
  <2>2. CASE f = Frame(s, 0, TRUE, "text", 0)
    BY <1>1, <2>2 DEF Frame, AnyFrame, IsEnd
  <2> QED
    BY <2>1, <2>2 DEF TextFrames
<1> QED
  BY <1>2, <1>3, <1>4

\* A connection of a step changes.
LEMMA WireSet ==
    ASSUME TypeInv, NEW s \in Steps, NEW c \in DOMAIN wires[s], NEW q \in Seq(AnyFrame),
           wires' = [wires EXCEPT ![s][c] = q]
    PROVE  /\ wires' \in [Steps -> Seq(Seq(AnyFrame))]
           /\ \A t \in Steps : t # s => wires'[t] = wires[t]
           /\ Len(wires'[s]) = Len(wires[s]) /\ DOMAIN wires'[s] = DOMAIN wires[s]
           /\ wires'[s][c] = q
           /\ \A d \in DOMAIN wires[s] : d # c => wires'[s][d] = wires[s][d]
<1> DEFINE F == Seq(AnyFrame)
           w == wires[s]
<1>0. wires \in [Steps -> Seq(F)] /\ q \in F
  BY DEF TypeInv, TypeOK
<1>a. wires' = [wires EXCEPT ![s] = [w EXCEPT ![c] = q]]
  OBVIOUS
<1> HIDE DEF F
<1>1. w \in Seq(F)
  BY <1>0
<1> HIDE DEF w
<1>2. DOMAIN w = 1..Len(w) /\ Len(w) \in Nat /\ c \in 1..Len(w)
  BY <1>1 DEF w
<1> DEFINE v == [w EXCEPT ![c] = q]
<1>3. v \in [1..Len(w) -> F]
  BY <1>0, <1>1, <1>2
<1>4. v[c] = q /\ \A d \in DOMAIN w : d # c => v[d] = w[d]
  BY <1>2
<1>5. v \in Seq(F) /\ Len(v) = Len(w) /\ DOMAIN v = 1..Len(w)
  <2> HIDE DEF v
  <2> QED
    BY <1>2, <1>3
<1> HIDE DEF v
<1>6. wires'[s] = v /\ \A t \in Steps : t # s => wires'[t] = wires[t]
  BY <1>0, <1>a DEF v
<1>7. wires' \in [Steps -> Seq(F)]
  BY <1>0, <1>5, <1>a DEF v
<1> QED
  BY <1>2, <1>4, <1>5, <1>6, <1>7 DEF F, w

LEMMA WireOf ==
    ASSUME TypeInv, NEW s \in Steps
    PROVE  /\ wires[s] \in Seq(Seq(AnyFrame)) /\ Len(wires[s]) \in Nat
           /\ DOMAIN wires[s] = 1..Len(wires[s])
           /\ \A c \in DOMAIN wires[s] : wires[s][c] \in Seq(AnyFrame)
<1> DEFINE F == Seq(AnyFrame)
<1>1. wires \in [Steps -> Seq(F)]
  BY DEF TypeInv, TypeOK
<1> HIDE DEF F
<1>2. wires[s] \in Seq(F)
  BY <1>1
<1>3. \A c \in DOMAIN wires[s] : wires[s][c] \in F
  BY <1>2
<1> QED
  BY <1>2, <1>3 DEF F

LEMMA InitTypes == Init => TypeInv
<1> SUFFICES ASSUME Init PROVE TypeInv
  OBVIOUS
<1>1. wires \in [Steps -> Seq(Seq(AnyFrame))] /\ queue \in Seq(AnyFrame) /\ log \in Seq(AnyFrame)
  BY DEF Init
<1>2. status \in [Steps -> Nat \cup {NoCode}] /\ step \in Steps
  BY DEF Init, Steps
<1>3. marked \in BOOLEAN /\ closed \in BOOLEAN
  BY DEF Init
<1>4. CodeKnown /\ PumpsRun
  BY DEF Init, CodeKnown, PumpsRun
<1>5. code \in Codes \cup {0, 1, NoCode} /\ made \in 0..MaxFrames /\ faults \in 0..MaxFaults
  BY DEF Init
<1> QED
  BY <1>1, <1>2, <1>3, <1>4, <1>5 DEF Init, TypeInv, TypeOK

LEMMA MainTypes ==
    ASSUME TypeInv, MainStep \/ Killed \/ NextStep
    PROVE  TypeInv'
<1> USE DEF TypeInv, TypeOK
<1>1. CASE BeginExec \/ BeginSend
  <2>1. PICK how \in {"exec", "send"}, where \in {"start", "running"}, pumps \in SUBSET Streams :
            Begin(how, where, pumps) /\ (where = "start" => pumps = {})
    BY <1>1 DEF BeginExec, BeginSend, Streams
  <2>2. wires' \in [Steps -> Seq(Seq(AnyFrame))]
    <3>1. << <<>> >> \in Seq(Seq(AnyFrame))
      OBVIOUS
    <3> QED
      BY <2>1, <3>1 DEF Begin
  <2>3. queue' \in Seq(AnyFrame)
    BY <2>1, AppendFrame, FrameTypes DEF Begin, PushMarker
  <2>4. CodeKnown' /\ PumpsRun'
    BY <2>1 DEF Begin, CodeKnown, PumpsRun
  <2> QED
    BY <2>1, <2>2, <2>3, <2>4 DEF Begin
<1>2. ASSUME NEW st \in Nat \cup {NoCode}, Exit(st), pumping' = {}, faults' \in 0..MaxFaults
      PROVE  TypeInv'
  <2>1. status' \in [Steps -> Nat \cup {NoCode}]
    BY <1>2 DEF Exit
  <2>2. CodeKnown' /\ PumpsRun'
    BY <1>2 DEF Exit, CodeKnown, PumpsRun
  <2> QED
    BY <1>2, <2>1, <2>2 DEF Exit
<1>3. CASE ChildFails
  BY <1>2, <1>3 DEF ChildFails, PumpsRun
<1>4. CASE ChildStarts
  BY <1>4 DEF ChildStarts, queueVars, netVars, CodeKnown, PumpsRun, Streams
<1>5. CASE MarksEnd
  <2>1. (IF mode = "send" THEN 0 ELSE code) \in Codes
    BY <1>5 DEF MarksEnd, CodeKnown
  <2>2. queue' \in Seq(AnyFrame)
    BY <1>5, <2>1, AppendFrame, FrameTypes DEF MarksEnd, EndMarked, PushMarker
  <2> QED
    BY <1>5, <2>2 DEF MarksEnd, EndMarked, childVars, netVars, CodeKnown, PumpsRun
<1>6. CASE ClosesQueue
  BY <1>6 DEF ClosesQueue, childVars, netVars, CodeKnown, PumpsRun
<1>7. CASE Returns
  <2>1. PICK st \in Statuses : Exit(st)
    BY <1>7 DEF Returns
  <2>2. st \in Nat \cup {NoCode}
    BY <2>1 DEF Statuses
  <2> QED
    BY <1>2, <1>7, <2>1, <2>2 DEF Returns, PumpsRun
<1>8. CASE Killed
  BY <1>2, <1>8 DEF Killed, Fault
<1>9. CASE NextStep
  <2>1. step' \in Steps
    BY <1>9 DEF NextStep, Steps
  <2>2. CodeKnown' /\ PumpsRun'
    BY <1>9 DEF NextStep, CodeKnown, PumpsRun
  <2>3. made' = 0 /\ code' = NoCode /\ closed' = FALSE
    BY <1>9 DEF NextStep
  <2>4. made' \in 0..MaxFrames /\ code' \in Codes \cup {0, 1, NoCode}
    BY <2>3
  <2> QED
    BY <1>9, <2>1, <2>2, <2>3, <2>4 DEF NextStep
<1> QED
  BY <1>1, <1>3, <1>4, <1>5, <1>6, <1>7, <1>8, <1>9 DEF MainStep

LEMMA CommandTypes ==
    ASSUME TypeInv, PumpStep \/ \E c \in Codes : ChildExits(c)
    PROVE  TypeInv'
<1> USE DEF TypeInv, TypeOK
<1>1. ASSUME NEW c \in Codes, ChildExits(c) PROVE TypeInv'
  BY <1>1 DEF ChildExits, queueVars, netVars, CodeKnown, PumpsRun
<1>2. ASSUME NEW s \in Streams, PumpEnds(s) PROVE TypeInv'
  <2>1. main = "running"
    BY <1>2 DEF PumpEnds, PumpsRun
  <2>2. code' \in Codes \cup {0, 1, NoCode} /\ CodeKnown' /\ PumpsRun'
    BY <1>2, <2>1 DEF PumpEnds, CodeKnown, PumpsRun
  <2> QED
    BY <1>2, <2>2 DEF PumpEnds, queueVars, netVars
<1>3. ASSUME NEW s \in Streams, NEW f \in TextFrames(s), PumpSends(s, f) PROVE TypeInv'
  <2>1. queue' \in Seq(AnyFrame)
    BY <1>3, FrameTypes, AppendFrame DEF PumpSends
  <2>2. made' \in 0..MaxFrames
    BY <1>3 DEF PumpSends
  <2>3. CodeKnown' /\ PumpsRun'
    BY <1>3 DEF PumpSends, CodeKnown, PumpsRun
  <2> QED
    BY <1>3, <2>1, <2>2, <2>3 DEF PumpSends, netVars
<1> QED
  BY <1>1, <1>2, <1>3 DEF PumpStep

\* The connection in use.
LEMMA NewestWire ==
    ASSUME TypeInv, wires[step] # <<>>
    PROVE  step \in Steps /\ Newest \in DOMAIN wires[step]
<1>1. step \in Steps
  BY DEF TypeInv, TypeOK
<1>2. wires[step] \in Seq(Seq(AnyFrame))
  BY <1>1, WireOf
<1> QED
  BY <1>1, <1>2 DEF Newest

LEMMA NetTypes ==
    ASSUME TypeInv, SenderStep \/ NetStep, SenderRuns => wires[step] # <<>>
    PROVE  TypeInv'
<1> USE DEF TypeInv, TypeOK
<1>1. CASE Writes
  <2>1. Head(queue) \in AnyFrame /\ queue' \in Seq(AnyFrame)
    BY <1>1, TailFrame DEF Writes
  <2>2. step \in Steps /\ Newest \in DOMAIN wires[step]
    BY <1>1, NewestWire DEF Writes
  <2>3. Append(wires[step][Newest], Head(queue)) \in Seq(AnyFrame)
    BY <2>1, <2>2, WireOf, AppendFrame
  <2>4. wires' \in [Steps -> Seq(Seq(AnyFrame))]
    BY <1>1, <2>2, <2>3, WireSet DEF Writes
  <2>5. CodeKnown' /\ PumpsRun'
    BY <1>1 DEF Writes, childVars, CodeKnown, PumpsRun
  <2> QED
    BY <1>1, <2>1, <2>4, <2>5 DEF Writes, childVars
<1>2. CASE Skips
  <2>1. queue' \in Seq(AnyFrame)
    BY <1>2, TailFrame DEF Skips
  <2>2. faults' \in 0..MaxFaults
    BY <1>2 DEF Skips, Fault
  <2>3. CodeKnown' /\ PumpsRun'
    BY <1>2 DEF Skips, childVars, CodeKnown, PumpsRun
  <2> QED
    BY <1>2, <2>1, <2>2, <2>3 DEF Skips, childVars, netVars
<1>3. CASE Redials
  <2>1. faults' \in 0..MaxFaults
    BY <1>3 DEF Redials, Fault
  <2>2. wires' \in [Steps -> Seq(Seq(AnyFrame))]
    <3> DEFINE F == Seq(AnyFrame)
    <3>1. wires \in [Steps -> Seq(F)] /\ <<>> \in F
      OBVIOUS
    <3>2. wires' = [wires EXCEPT ![step] = Append(@, <<>>)]
      BY <1>3 DEF Redials
    <3> HIDE DEF F
    <3>3. Append(wires[step], <<>>) \in Seq(F)
      BY <3>1
    <3>4. wires' \in [Steps -> Seq(F)]
      BY <3>1, <3>2, <3>3
    <3> QED
      BY <3>4 DEF F
  <2>3. CodeKnown' /\ PumpsRun'
    BY <1>3 DEF Redials, childVars, CodeKnown, PumpsRun
  <2> QED
    BY <1>3, <2>1, <2>2, <2>3 DEF Redials, childVars, queueVars
<1>4. CASE Answered
  BY <1>4 DEF Answered, Drained, childVars, queueVars, CodeKnown, PumpsRun
<1>5. CASE Retires
  BY <1>5 DEF Retires, childVars, queueVars, CodeKnown, PumpsRun
<1>6. ASSUME NEW s \in Steps, NEW c \in DOMAIN wires[s], Breaks(s, c) PROVE TypeInv'
  <2>1. PICK n \in 0..(Len(wires[s][c]) - 1) :
            wires' = [wires EXCEPT ![s][c] = SubSeq(@, 1, n)]
    BY <1>6 DEF Breaks
  <2>2. SubSeq(wires[s][c], 1, n) \in Seq(AnyFrame)
    BY WireOf, CutFrame
  <2>3. wires' \in [Steps -> Seq(Seq(AnyFrame))]
    BY <2>1, <2>2, WireSet
  <2>4. faults' \in 0..MaxFaults
    <3>1. Fault
      BY <1>6 DEF Breaks
    <3> QED
      BY <3>1 DEF Fault
  <2>5. CodeKnown' /\ PumpsRun'
    BY <1>6 DEF Breaks, childVars, CodeKnown, PumpsRun
  <2> QED
    BY <1>6, <2>3, <2>4, <2>5 DEF Breaks, childVars, queueVars
<1>7. ASSUME NEW s \in Steps, NEW c \in DOMAIN wires[s], Lands(s, c) PROVE TypeInv'
  <2>1. Head(wires[s][c]) \in AnyFrame /\ Tail(wires[s][c]) \in Seq(AnyFrame)
    BY <1>7, WireOf, TailFrame DEF Lands
  <2>2. wires' \in [Steps -> Seq(Seq(AnyFrame))]
    BY <1>7, <2>1, WireSet DEF Lands
  <2>3. log' \in Seq(AnyFrame)
    BY <1>7, <2>1, AppendFrame DEF Lands
  <2>4. CodeKnown' /\ PumpsRun'
    BY <1>7 DEF Lands, childVars, CodeKnown, PumpsRun
  <2> QED
    BY <1>7, <2>2, <2>3, <2>4 DEF Lands, childVars, queueVars
<1> QED
  BY <1>1, <1>2, <1>3, <1>4, <1>5, <1>6, <1>7 DEF SenderStep, NetStep

-----------------------------------------------------------------------------
\* The way of an end marker.  It is the last thing in the queue,
QueueInv ==
    /\ OfStep(queue, step) /\ EndsLast(queue)
    /\ HasEnd(queue) => main \in {"close", "drain"}
    /\ main \in {"begin", "ended"} => queue = <<>>
    /\ main \notin {"begin", "ended"} => wires[step] # <<>>

\* and then, if its step keeps its connection, on the wire: what would follow it
\* has no source left.
Closing(s) == s = step => queue = <<>> /\ main \in {"close", "drain", "ended"}

WireInv(s) ==
    /\ \A c \in DOMAIN wires[s] : OfStep(wires[s][c], s)
    /\ OneWire(s) =>
          \A c \in DOMAIN wires[s] :
              EndsLast(wires[s][c]) /\ (HasEnd(wires[s][c]) => Closing(s))
    /\ OneWire(s) /\ EndLanded(s) =>
          Closing(s) /\ \A c \in DOMAIN wires[s] : wires[s][c] = <<>>

\* A step to come has left no trace.
ToCome(s) == s > step \/ (s = step /\ main = "begin")
FreshInv(s) == ToCome(s) => wires[s] = <<>> /\ ~EndLanded(s)

EndInv == QueueInv /\ \A s \in Steps : WireInv(s) /\ FreshInv(s)

LEMMA InitEnd == Init => EndInv
<1> SUFFICES ASSUME Init PROVE EndInv
  OBVIOUS
<1>1. QueueInv
  BY DEF Init, QueueInv, OfStep, EndsLast, HasEnd
<1>2. ASSUME NEW s \in Steps PROVE WireInv(s) /\ FreshInv(s)
  <2>1. wires[s] = <<>> /\ DOMAIN wires[s] = {} /\ ~EndLanded(s)
    BY DEF Init, EndLanded
  <2> QED
    BY <2>1 DEF WireInv, FreshInv
<1> QED
  BY <1>1, <1>2 DEF EndInv

\* A step that moves nothing on the wires.
LEMMA WiresKept ==
    ASSUME EndInv, NEW s \in Steps, wires'[s] = wires[s], log' = log,
           Closing(s) /\ ~ToCome(s) => Closing(s)', ToCome(s)' => ToCome(s)
    PROVE  WireInv(s)' /\ FreshInv(s)'
<1>1. EndLanded(s)' <=> EndLanded(s)
  BY DEF EndLanded
<1>2. OneWire(s)' <=> OneWire(s)
  BY DEF OneWire
<1>3. FreshInv(s)'
  BY <1>1 DEF EndInv, FreshInv
<1>4. CASE ToCome(s)
  <2>1. wires[s] = <<>> /\ DOMAIN wires[s] = {} /\ ~EndLanded(s)
    BY <1>4 DEF EndInv, FreshInv
  <2> QED
    BY <1>1, <1>3, <2>1 DEF WireInv
<1>5. CASE ~ToCome(s)
  BY <1>1, <1>2, <1>3, <1>5 DEF EndInv, WireInv
<1> QED
  BY <1>4, <1>5

LEMMA MainEnd ==
    ASSUME TypeInv, EndInv, MainStep \/ Killed \/ NextStep
    PROVE  EndInv'
<1>0. step \in Steps /\ Steps \subseteq Nat
  BY DEF TypeInv, TypeOK, Steps
<1>1. CASE BeginExec \/ BeginSend
  <2>1. PICK where \in {"start", "running"} : \E how, pumps : Begin(how, where, pumps)
    BY <1>1 DEF BeginExec, BeginSend
  <2>2. queue = <<>> /\ wires[step] = <<>> /\ ~EndLanded(step)
    BY <1>0, <2>1 DEF Begin, EndInv, QueueInv, FreshInv, ToCome
  <2>3. \/ queue' = <<>>
        \/ queue' = Append(<<>>, StartFrame)
    BY <2>1, <2>2 DEF Begin, PushMarker
  <2>4. ~HasEnd(queue') /\ OfStep(queue', step) /\ EndsLast(queue')
    <3>1. <<>> \in Seq(AnyFrame) /\ ~HasEnd(<<>>) /\ OfStep(<<>>, step) /\ EndsLast(<<>>)
      BY DEF HasEnd, OfStep, EndsLast
    <3> QED
      BY <2>3, <3>1, AppendFrame, FrameTypes
  <2>5. wires'[step] = << <<>> >> /\ \A s \in Steps : s # step => wires'[s] = wires[s]
    BY <1>0, <2>1 DEF Begin, TypeInv, TypeOK
  <2>6. QueueInv'
    <3>1. step' = step /\ main' \in {"start", "running"}
      BY <2>1 DEF Begin
    <3> QED
      BY <2>4, <2>5, <3>1 DEF QueueInv, HasEnd, OfStep, EndsLast
  <2>7. WireInv(step)' /\ FreshInv(step)'
    <3>1. step' = step /\ log' = log /\ main' # "begin"
      BY <2>1 DEF Begin
    <3>2. ~EndLanded(step)'
      BY <2>2, <3>1 DEF EndLanded
    <3>3. DOMAIN wires'[step] = {1} /\ wires'[step][1] = <<>>
      BY <2>5
    <3>4. OfStep(<<>>, step) /\ EndsLast(<<>>) /\ ~HasEnd(<<>>)
      BY DEF HasEnd, OfStep, EndsLast
    <3> QED
      BY <1>0, <3>1, <3>2, <3>3, <3>4 DEF WireInv, FreshInv, ToCome, HasEnd, OfStep, EndsLast
  <2>8. ASSUME NEW s \in Steps, s # step PROVE WireInv(s)' /\ FreshInv(s)'
    <3>1. Closing(s)' /\ (ToCome(s)' => ToCome(s)) /\ log' = log
      BY <2>1, <2>8 DEF Begin, Closing, ToCome
    <3> QED
      BY <2>5, <2>8, <3>1, WiresKept
  <2>9. step' = step
    BY <2>1 DEF Begin
  <2> QED
    BY <2>6, <2>7, <2>8, <2>9 DEF EndInv
<1>2. ASSUME UNCHANGED <<step, wires, log>>, QueueInv', main # "begin", main' # "begin",
             Closing(step) => Closing(step)'
      PROVE  EndInv'
  <2>1. ASSUME NEW s \in Steps PROVE WireInv(s)' /\ FreshInv(s)'
    <3>1. Closing(s) => Closing(s)'
      BY <1>2 DEF Closing
    <3>2. ToCome(s)' => ToCome(s)
      BY <1>2 DEF ToCome
    <3> QED
      BY <1>2, <3>1, <3>2, WiresKept
  <2> QED
    BY <2>1, <1>2 DEF EndInv
<1>a. OfStep(<<>>, step) /\ EndsLast(<<>>) /\ ~HasEnd(<<>>)
  BY DEF HasEnd, OfStep, EndsLast
<1>3. ASSUME NEW st, Exit(st), main # "begin" PROVE EndInv'
  <2>1. queue' = <<>> /\ main' = "ended" /\ UNCHANGED <<step, wires, log>>
    BY <1>3 DEF Exit
  <2>2. QueueInv'
    BY <1>a, <2>1 DEF QueueInv, HasEnd, OfStep, EndsLast
  <2>3. Closing(step)'
    BY <2>1 DEF Closing
  <2> QED
    BY <1>2, <1>3, <2>1, <2>2, <2>3
<1>4. CASE ChildFails \/ Returns \/ Killed
  BY <1>3, <1>4 DEF ChildFails, Returns, Killed
<1>5. CASE ChildStarts \/ ClosesQueue
  <2>1. /\ UNCHANGED <<step, wires, log, queue>>
        /\ \/ main = "start" /\ main' = "running"
           \/ main = "close" /\ main' = "drain"
    BY <1>5 DEF ChildStarts, ClosesQueue, netVars, queueVars
  <2>2. QueueInv'
    BY <2>1 DEF EndInv, QueueInv, HasEnd, OfStep, EndsLast
  <2>3. Closing(step) => Closing(step)'
    BY <2>1 DEF Closing
  <2> QED
    BY <1>2, <2>1, <2>2, <2>3
<1>6. CASE MarksEnd
  <2>1. /\ UNCHANGED <<step, wires, log>> /\ main = "running" /\ main' = "close"
        /\ code # NoCode
    BY <1>6 DEF MarksEnd, EndMarked, netVars
  <2>2. ~HasEnd(queue) /\ OfStep(queue, step) /\ queue \in Seq(AnyFrame)
    BY <2>1 DEF EndInv, QueueInv, TypeInv, TypeOK
  <2>3. (IF mode = "send" THEN 0 ELSE code) \in Codes
    BY <2>1 DEF TypeInv, TypeOK, CodeKnown
  <2>4. OfStep(queue', step) /\ EndsLast(queue')
    <3>1. CASE queue' = queue
      BY <2>2, <3>1 DEF EndInv, QueueInv
    <3>2. CASE queue' = Append(queue, EndFrame(IF mode = "send" THEN 0 ELSE code))
      BY <2>2, <2>3, <3>2, AppendFrame, FrameTypes
    <3> QED
      BY <1>6, <3>1, <3>2 DEF MarksEnd, EndMarked, PushMarker
  <2>5. QueueInv'
    BY <2>1, <2>4 DEF EndInv, QueueInv, HasEnd, OfStep, EndsLast
  <2>6. ~Closing(step)
    BY <2>1 DEF Closing
  <2> QED
    BY <1>2, <2>1, <2>5, <2>6
<1>7. CASE NextStep
  <2>1. /\ main = "ended" /\ main' = "begin" /\ step' = step + 1
        /\ UNCHANGED <<wires, log, queue>> /\ step < NumSteps
    BY <1>7 DEF NextStep
  <2>2. queue = <<>>
    BY <2>1 DEF EndInv, QueueInv
  <2>3. QueueInv'
    BY <2>1, <2>2 DEF QueueInv, HasEnd, OfStep, EndsLast
  <2>4. ASSUME NEW s \in Steps PROVE WireInv(s)' /\ FreshInv(s)'
    <3>1. ToCome(s)' => ToCome(s)
      BY <1>0, <2>1 DEF ToCome
    <3>2. ~ToCome(s) => Closing(s)'
      BY <1>0, <2>1 DEF ToCome, Closing
    <3> QED
      BY <2>1, <3>1, <3>2, WiresKept
  <2> QED
    BY <2>3, <2>4 DEF EndInv
<1> QED
  BY <1>1, <1>4, <1>5, <1>6, <1>7 DEF MainStep

LEMMA CommandEnd ==
    ASSUME TypeInv, EndInv, PumpStep \/ \E c \in Codes : ChildExits(c)
    PROVE  EndInv'
<1>1. /\ main = "running" /\ main' = main /\ UNCHANGED <<step, wires, log>>
  <2>1. ASSUME NEW s \in Streams, s \in pumping PROVE main = "running"
    BY <2>1 DEF TypeInv, PumpsRun
  <2> QED
    BY <2>1 DEF PumpStep, PumpEnds, PumpSends, ChildExits, netVars
<1>2. QueueInv'
  <2>1. ~HasEnd(queue) /\ OfStep(queue, step) /\ queue \in Seq(AnyFrame) /\ wires[step] # <<>>
    BY <1>1 DEF EndInv, QueueInv, TypeInv, TypeOK
  <2>2. CASE queue' = queue
    BY <1>1, <2>1, <2>2 DEF EndInv, QueueInv, HasEnd, OfStep, EndsLast
  <2>3. ASSUME NEW s \in Streams, NEW f \in TextFrames(s), queue' = Append(queue, f)
        PROVE  QueueInv'
    <3>1. OfStep(queue', step) /\ EndsLast(queue') /\ ~HasEnd(queue')
      BY <2>1, <2>3, FrameTypes, AppendFrame
    <3> QED
      BY <1>1, <2>1, <3>1 DEF QueueInv, HasEnd, OfStep, EndsLast
  <2> QED
    BY <2>2, <2>3 DEF PumpStep, PumpEnds, PumpSends, ChildExits, queueVars
<1>3. ASSUME NEW s \in Steps PROVE WireInv(s)' /\ FreshInv(s)'
  <2>1. Closing(s) => Closing(s)'
    BY <1>1 DEF Closing
  <2>2. ToCome(s)' => ToCome(s)
    BY <1>1 DEF ToCome
  <2> QED
    BY <1>1, <2>1, <2>2, WiresKept
<1> QED
  BY <1>1, <1>2, <1>3 DEF EndInv

\* A frame leaves the queue.
LEMMA TakesHead ==
    ASSUME TypeInv, EndInv, queue # <<>>, queue' = Tail(queue),
           UNCHANGED <<step, main>>, SenderRuns, wires'[step] # <<>>
    PROVE  QueueInv' /\ (IsEnd(Head(queue)) => queue' = <<>> /\ main \in {"close", "drain"})
<1>1. queue \in Seq(AnyFrame)
  BY DEF TypeInv, TypeOK
<1>2. OfStep(Tail(queue), step) /\ EndsLast(Tail(queue)) /\ (HasEnd(Tail(queue)) => HasEnd(queue))
  BY <1>1, TailFrame DEF EndInv, QueueInv
<1>3. IsEnd(Head(queue)) => Tail(queue) = <<>> /\ HasEnd(queue)
  BY <1>1, TailFrame DEF EndInv, QueueInv
<1>4. QueueInv'
  BY <1>2 DEF SenderRuns, EndInv, QueueInv, HasEnd, OfStep, EndsLast
<1> QED
  BY <1>3, <1>4 DEF EndInv, QueueInv

LEMMA SenderEnd ==
    ASSUME TypeInv, EndInv, SenderStep
    PROVE  EndInv'
<1>0. step \in Steps /\ Steps \subseteq Nat
  BY DEF TypeInv, TypeOK, Steps
<1>a. SenderRuns => wires[step] # <<>> /\ main \notin {"begin", "ended"}
  BY DEF SenderRuns, EndInv, QueueInv
<1>1. CASE Writes
  <2> DEFINE f == Head(queue)
             c == Newest
             q == wires[step][c]
  <2>1. /\ UNCHANGED <<step, main, log>> /\ queue # <<>> /\ queue' = Tail(queue) /\ SenderRuns
        /\ wires' = [wires EXCEPT ![step][c] = Append(q, f)]
    BY <1>1 DEF Writes
  <2>2. c \in DOMAIN wires[step] /\ q \in Seq(AnyFrame) /\ queue \in Seq(AnyFrame)
    BY <1>0, <1>a, <2>1, NewestWire, WireOf DEF TypeInv, TypeOK
  <2>3. f \in AnyFrame /\ f.step = step /\ Append(q, f) \in Seq(AnyFrame)
    BY <2>1, <2>2, TailFrame, AppendFrame DEF EndInv, QueueInv
  <2>4. /\ \A s \in Steps : s # step => wires'[s] = wires[s]
        /\ Len(wires'[step]) = Len(wires[step]) /\ DOMAIN wires'[step] = DOMAIN wires[step]
        /\ wires'[step][c] = Append(q, f)
        /\ \A d \in DOMAIN wires[step] : d # c => wires'[step][d] = wires[step][d]
    <3> HIDE DEF c, q, f
    <3> QED
      BY <1>0, <2>1, <2>2, <2>3, WireSet
  <2>5. QueueInv' /\ (IsEnd(f) => queue' = <<>> /\ main \in {"close", "drain"})
    <3>1. wires'[step] # <<>>
      BY <2>2, <2>4
    <3> QED
      BY <2>1, <3>1, TakesHead
  <2>6. OneWire(step) => ~EndLanded(step) /\ ~HasEnd(q)
    BY <1>0, <2>1, <2>2 DEF EndInv, WireInv, Closing
  <2>7. WireInv(step)'
    <3>1. step' = step /\ (EndLanded(step)' <=> EndLanded(step))
          /\ (OneWire(step)' <=> OneWire(step))
      BY <2>1, <2>4 DEF EndLanded, OneWire
    <3>2. OfStep(Append(q, f), step)
          /\ (OneWire(step) => EndsLast(Append(q, f)) /\ (HasEnd(Append(q, f)) => IsEnd(f)))
      <4>1. OfStep(q, step)
        BY <1>0, <2>2 DEF EndInv, WireInv
      <4> HIDE DEF q, f
      <4> QED
        BY <2>2, <2>3, <2>6, <4>1, AppendFrame
    <3>3. OneWire(step) => \A d \in DOMAIN wires[step] : d = c
      <4>1. DOMAIN wires[step] = 1..Len(wires[step]) /\ Len(wires[step]) \in Nat
        BY <1>0, WireOf
      <4> QED
        BY <2>2, <4>1 DEF OneWire, Newest
    <3>4. \A d \in DOMAIN wires'[step] : OfStep(wires'[step][d], step)
      <4>1. \A d \in DOMAIN wires[step] : OfStep(wires[step][d], step)
        BY <1>0 DEF EndInv, WireInv
      <4> HIDE DEF q, f, c
      <4> QED
        BY <2>4, <3>2, <4>1
    <3>5. IsEnd(f) => Closing(step)'
      BY <2>1, <2>5 DEF Closing
    <3>6. OneWire(step) => \A d \in DOMAIN wires'[step] :
              EndsLast(wires'[step][d]) /\ (HasEnd(wires'[step][d]) => Closing(step)')
      <4> HIDE DEF q, f, c
      <4> QED
        BY <2>4, <3>2, <3>3, <3>5
    <3> HIDE DEF q, f, c
    <3> QED
      BY <2>1, <2>6, <3>1, <3>4, <3>6 DEF WireInv, OfStep, EndsLast, HasEnd
  <2>8. FreshInv(step)'
    BY <1>0, <1>a, <2>1 DEF FreshInv, ToCome
  <2>9. ASSUME NEW s \in Steps, s # step PROVE WireInv(s)' /\ FreshInv(s)'
    <3>1. Closing(s)' /\ (ToCome(s)' => ToCome(s))
      BY <2>1, <2>9 DEF Closing, ToCome
    <3> QED
      BY <2>1, <2>4, <2>9, <3>1, WiresKept
  <2> QED
    BY <1>0, <2>1, <2>5, <2>7, <2>8, <2>9 DEF EndInv
<1>2. CASE Skips
  <2>1. UNCHANGED <<step, main, log, wires>> /\ queue # <<>> /\ queue' = Tail(queue) /\ SenderRuns
    BY <1>2 DEF Skips, netVars
  <2>2. QueueInv'
    BY <1>a, <2>1, TakesHead
  <2>3. ASSUME NEW s \in Steps PROVE WireInv(s)' /\ FreshInv(s)'
    <3>1. Closing(s) => Closing(s)'
      BY <2>1 DEF Closing
    <3>2. ToCome(s)' => ToCome(s)
      BY <2>1 DEF ToCome
    <3> QED
      BY <2>1, <3>1, <3>2, WiresKept
  <2> QED
    BY <2>1, <2>2, <2>3 DEF EndInv
<1>3. CASE Redials
  <2>1. /\ UNCHANGED <<step, main, log, queue>> /\ SenderRuns
        /\ wires' = [wires EXCEPT ![step] = Append(@, <<>>)]
    BY <1>3 DEF Redials, queueVars
  <2>2. \A s \in Steps : s # step => wires'[s] = wires[s]
    BY <1>0, <2>1 DEF TypeInv, TypeOK
  <2>3. /\ Len(wires'[step]) > 1 /\ wires'[step] # <<>>
        /\ \A d \in DOMAIN wires'[step] :
              \/ d \in DOMAIN wires[step] /\ wires'[step][d] = wires[step][d]
              \/ wires'[step][d] = <<>>
    <3> DEFINE F == Seq(AnyFrame)
               w == wires[step]
    <3>1. w \in Seq(F) /\ <<>> \in F /\ w # <<>>
      BY <1>0, <1>a, <2>1, WireOf
    <3>2. wires'[step] = Append(w, <<>>)
      BY <1>0, <2>1 DEF TypeInv, TypeOK
    <3> HIDE DEF F, w
    <3>3. Len(w) \in Nat /\ Len(w) > 0
      BY <3>1
    <3>4. /\ Len(Append(w, <<>>)) = Len(w) + 1
          /\ \A d \in DOMAIN Append(w, <<>>) :
                \/ d \in DOMAIN w /\ Append(w, <<>>)[d] = w[d]
                \/ Append(w, <<>>)[d] = <<>>
      BY <3>1
    <3>5. Append(w, <<>>) # <<>>
      BY <3>1
    <3> QED
      BY <3>2, <3>3, <3>4, <3>5 DEF w
  <2>4. QueueInv'
    BY <2>1, <2>3 DEF EndInv, QueueInv, HasEnd, OfStep, EndsLast
  <2>5. WireInv(step)' /\ FreshInv(step)'
    <3>1. step' = step /\ ~OneWire(step)' /\ ~ToCome(step)'
      BY <1>0, <1>a, <2>1, <2>3 DEF OneWire, ToCome
    <3>2. \A d \in DOMAIN wires'[step] : OfStep(wires'[step][d], step)
      <4>1. OfStep(<<>>, step) /\ \A d \in DOMAIN wires[step] : OfStep(wires[step][d], step)
        BY <1>0 DEF EndInv, WireInv, OfStep
      <4> QED
        BY <2>3, <4>1
    <3> QED
      BY <3>1, <3>2 DEF WireInv, FreshInv, OfStep
  <2>6. ASSUME NEW s \in Steps, s # step PROVE WireInv(s)' /\ FreshInv(s)'
    <3>1. Closing(s)' /\ (ToCome(s)' => ToCome(s))
      BY <2>1, <2>6 DEF Closing, ToCome
    <3> QED
      BY <2>1, <2>2, <2>6, <3>1, WiresKept
  <2> QED
    BY <2>1, <2>4, <2>5, <2>6 DEF EndInv
<1>4. CASE Answered \/ Retires
  <2>1. UNCHANGED <<step, main, log, wires, queue>>
    BY <1>4 DEF Answered, Drained, Retires, queueVars
  <2>2. QueueInv'
    BY <2>1 DEF EndInv, QueueInv, HasEnd, OfStep, EndsLast
  <2>3. ASSUME NEW s \in Steps PROVE WireInv(s)' /\ FreshInv(s)'
    <3>1. Closing(s) => Closing(s)'
      BY <2>1 DEF Closing
    <3>2. ToCome(s)' => ToCome(s)
      BY <2>1 DEF ToCome
    <3> QED
      BY <2>1, <3>1, <3>2, WiresKept
  <2> QED
    BY <2>1, <2>2, <2>3 DEF EndInv
<1> QED
  BY <1>1, <1>2, <1>3, <1>4 DEF SenderStep

\* A connection of step s shortens, and what is on the others stays.
LEMMA NetEnd ==
    ASSUME TypeInv, EndInv, NEW s \in Steps, NEW c \in DOMAIN wires[s],
           Breaks(s, c) \/ Lands(s, c)
    PROVE  EndInv'
<1> DEFINE q == wires[s][c]
<1>0. step \in Steps /\ Steps \subseteq Nat
  BY DEF TypeInv, TypeOK, Steps
<1>1. UNCHANGED <<step, main, queue>> /\ q # <<>> /\ q \in Seq(AnyFrame)
  BY WireOf DEF Breaks, Lands, queueVars
<1>2. PICK r \in Seq(AnyFrame) :
          /\ wires' = [wires EXCEPT ![s][c] = r]
          /\ OfStep(q, s) => OfStep(r, s)
          /\ EndsLast(q) => EndsLast(r) /\ (HasEnd(r) => HasEnd(q))
          /\ \/ log' = log
             \/ /\ log' = Append(log, Head(q))
                /\ IsEnd(Head(q)) => HasEnd(q)
                /\ EndsLast(q) /\ IsEnd(Head(q)) => r = <<>>
  <2>1. CASE Breaks(s, c)
    <3>1. PICK n \in 0..(Len(q) - 1) : wires' = [wires EXCEPT ![s][c] = SubSeq(@, 1, n)]
      BY <2>1 DEF Breaks
    <3> DEFINE t == SubSeq(q, 1, n)
    <3>2. wires' = [wires EXCEPT ![s][c] = t] /\ log' = log
      BY <2>1, <3>1 DEF Breaks
    <3>3. t \in Seq(AnyFrame) /\ (EndsLast(q) => ~HasEnd(t)) /\ (OfStep(q, s) => OfStep(t, s))
      <4> HIDE DEF q
      <4> QED
        BY <1>1, CutFrame
    <3>4. ~HasEnd(t) => EndsLast(t)
      BY DEF HasEnd, EndsLast
    <3> HIDE DEF q, t
    <3> QED
      BY <3>2, <3>3, <3>4
  <2>2. CASE Lands(s, c)
    <3> DEFINE t == Tail(q)
    <3>1. wires' = [wires EXCEPT ![s][c] = t] /\ log' = Append(log, Head(q))
      BY <2>2 DEF Lands
    <3>2. /\ t \in Seq(AnyFrame) /\ (OfStep(q, s) => OfStep(t, s))
          /\ EndsLast(q) => EndsLast(t)
          /\ HasEnd(t) => HasEnd(q)
          /\ IsEnd(Head(q)) => HasEnd(q)
          /\ EndsLast(q) /\ IsEnd(Head(q)) => t = <<>>
      <4> HIDE DEF q
      <4> QED
        BY <1>1, TailFrame
    <3> HIDE DEF q, t
    <3> QED
      BY <3>1, <3>2
  <2> QED
    BY <2>1, <2>2
<1>3. /\ \A t \in Steps : t # s => wires'[t] = wires[t]
      /\ Len(wires'[s]) = Len(wires[s]) /\ DOMAIN wires'[s] = DOMAIN wires[s]
      /\ wires'[s][c] = r
      /\ \A d \in DOMAIN wires[s] : d # c => wires'[s][d] = wires[s][d]
  BY <1>2, WireSet
<1>4. ~ToCome(s)
  <2>1. wires[s] # <<>>
    OBVIOUS
  <2> QED
    BY <2>1 DEF EndInv, FreshInv
<1>5. OfStep(q, s) /\ Head(q) \in AnyFrame /\ Head(q).step = s
  <2>1. OfStep(q, s)
    BY DEF EndInv, WireInv
  <2> HIDE DEF q
  <2> QED
    BY <1>1, <2>1, TailFrame
<1>6. ASSUME NEW t \in Steps
      PROVE  EndLanded(t)' <=> EndLanded(t) \/ (t = s /\ log' # log /\ IsEnd(Head(q)))
  <2>1. CASE log' = log
    BY <2>1 DEF EndLanded
  <2>2. CASE log' = Append(log, Head(q))
    <3> DEFINE f == Head(q)
               F == AnyFrame
    <3>1. log \in Seq(F) /\ f \in F /\ f.step = s
      BY <1>5 DEF TypeInv, TypeOK
    <3> HIDE DEF f, F
    <3>2. /\ \A i \in DOMAIN log : i \in DOMAIN Append(log, f) /\ Append(log, f)[i] = log[i]
          /\ \A i \in DOMAIN Append(log, f) : i \in DOMAIN log \/ Append(log, f)[i] = f
          /\ Len(log) + 1 \in DOMAIN Append(log, f) /\ Append(log, f)[Len(log) + 1] = f
          /\ Append(log, f) # log
      BY <3>1
    <3>3. log' = Append(log, f)
      BY <2>2 DEF f
    <3>4. EndLanded(t)' <=> EndLanded(t) \/ (t = s /\ IsEnd(f))
      BY <3>1, <3>2, <3>3 DEF EndLanded, IsEnd
    <3> QED
      BY <3>2, <3>3, <3>4 DEF f
  <2> QED
    BY <1>2, <2>1, <2>2
<1>7. QueueInv'
  <2>1. wires[step] # <<>> => wires'[step] # <<>>
    <3>1. CASE step = s
      <4>1. c \in DOMAIN wires'[s]
        BY <1>3
      <4> QED
        BY <3>1, <4>1
    <3> QED
      BY <1>0, <1>3, <3>1
  <2> QED
    BY <1>1, <2>1 DEF EndInv, QueueInv, HasEnd, OfStep, EndsLast
<1>8. WireInv(s)' /\ FreshInv(s)'
  <2>1. Closing(s)' <=> Closing(s)
    BY <1>1 DEF Closing
  <2>2. OneWire(s)' <=> OneWire(s)
    BY <1>3 DEF OneWire
  <2>3. \A d \in DOMAIN wires'[s] : OfStep(wires'[s][d], s)
    <3>1. \A d \in DOMAIN wires[s] : OfStep(wires[s][d], s)
      BY DEF EndInv, WireInv
    <3> QED
      BY <1>2, <1>3, <1>5, <3>1
  <2>4. ASSUME OneWire(s)
        PROVE  /\ EndsLast(q) /\ (HasEnd(q) => Closing(s)) /\ ~EndLanded(s)
               /\ \A d \in DOMAIN wires[s] : d = c
    <3>1. DOMAIN wires[s] = 1..Len(wires[s]) /\ Len(wires[s]) \in Nat
      BY WireOf
    <3>2. \A d \in DOMAIN wires[s] : d = c
      BY <2>4, <3>1 DEF OneWire
    <3> QED
      BY <1>1, <2>4, <3>2 DEF EndInv, WireInv
  <2>5. OneWire(s) => \A d \in DOMAIN wires'[s] :
            EndsLast(wires'[s][d]) /\ (HasEnd(wires'[s][d]) => Closing(s))
    <3> HIDE DEF q
    <3> QED
      BY <1>2, <1>3, <2>4
  <2>6. OneWire(s) /\ EndLanded(s)' => Closing(s) /\ \A d \in DOMAIN wires'[s] : wires'[s][d] = <<>>
    <3> HIDE DEF q
    <3> QED
      BY <1>2, <1>3, <1>6, <2>4
  <2>7. ~ToCome(s)'
    BY <1>1, <1>4 DEF ToCome
  <2> QED
    BY <2>1, <2>2, <2>3, <2>5, <2>6, <2>7 DEF WireInv, FreshInv, OfStep, EndsLast, HasEnd
<1>9. ASSUME NEW t \in Steps, t # s PROVE WireInv(t)' /\ FreshInv(t)'
  <2>1. /\ Closing(t)' <=> Closing(t)
        /\ ToCome(t)' <=> ToCome(t)
        /\ EndLanded(t)' <=> EndLanded(t)
        /\ OneWire(t)' <=> OneWire(t)
        /\ wires'[t] = wires[t]
    BY <1>1, <1>3, <1>6, <1>9 DEF Closing, ToCome, OneWire
  <2>2. WireInv(t) /\ FreshInv(t)
    BY DEF EndInv
  <2> QED
    BY <2>1, <2>2 DEF WireInv, FreshInv
<1> QED
  BY <1>7, <1>8, <1>9 DEF EndInv

LEMMA StepInvs == TypeInv /\ EndInv /\ [Next]_stepVars => TypeInv' /\ EndInv'
<1> SUFFICES ASSUME TypeInv, EndInv, [Next]_stepVars PROVE TypeInv' /\ EndInv'
  OBVIOUS
<1>1. SenderRuns => wires[step] # <<>>
  BY DEF SenderRuns, EndInv, QueueInv
<1>2. CASE UNCHANGED stepVars
  <2>1. TypeInv'
    BY <1>2 DEF stepVars, childVars, queueVars, netVars, TypeInv, TypeOK, CodeKnown, PumpsRun
  <2>2. QueueInv'
    BY <1>2 DEF stepVars, childVars, queueVars, netVars, EndInv, QueueInv, HasEnd, OfStep, EndsLast
  <2>3. ASSUME NEW s \in Steps PROVE WireInv(s)' /\ FreshInv(s)'
    <3>1. UNCHANGED <<step, main, queue, wires, log>>
      BY <1>2 DEF stepVars, queueVars, netVars
    <3>2. (Closing(s) => Closing(s)') /\ (ToCome(s)' => ToCome(s))
      BY <3>1 DEF Closing, ToCome
    <3> QED
      BY <3>1, <3>2, WiresKept
  <2> QED
    BY <2>1, <2>2, <2>3 DEF EndInv
<1>3. CASE MainStep \/ Killed \/ NextStep
  BY <1>3, MainTypes, MainEnd
<1>4. CASE PumpStep \/ \E c \in Codes : ChildExits(c)
  BY <1>4, CommandTypes, CommandEnd
<1>5. CASE SenderStep
  BY <1>1, <1>5, NetTypes, SenderEnd
<1>6. CASE NetStep
  BY <1>1, <1>6, NetTypes, NetEnd DEF NetStep
<1> QED
  BY <1>2, <1>3, <1>4, <1>5, <1>6 DEF Next, JobOver

LEMMA StepInvariants == Spec => [](TypeInv /\ EndInv)
BY InitTypes, InitEnd, StepInvs, PTL DEF Spec

\* Every variable keeps its type, in every execution of a job's steps.
THEOREM StepTypes == Spec => []TypeOK
<1>1. TypeInv => TypeOK
  BY DEF TypeInv
<1> QED
  BY <1>1, StepInvariants, PTL

\* When an end marker lands, of a step that kept its connection, nothing of that
\* step is queued, on its way or yet to be pumped.
THEOREM EndMarkerIsLast == Spec => []EndIsLast
<1>1. TypeInv /\ EndInv => EndIsLast
  <2> SUFFICES ASSUME TypeInv, EndInv, NEW s \in Steps, EndLanded(s), OneWire(s)
               PROVE  /\ \A c \in DOMAIN wires[s] : wires[s][c] = <<>>
                      /\ s = step => queue = <<>> /\ pumping = {}
    BY DEF EndIsLast
  <2>1. Closing(s) /\ \A c \in DOMAIN wires[s] : wires[s][c] = <<>>
    BY DEF EndInv, WireInv
  <2> QED
    BY <2>1 DEF Closing, TypeInv, PumpsRun
<1> QED
  BY <1>1, StepInvariants, PTL

-----------------------------------------------------------------------------
\* What the log says of a command.  A step fails when its process has ended so,
\* or is on its way there, with the marker of it sent.
Fails(s) ==
    /\ s <= step
    /\ IF s = step /\ main # "ended"
       THEN main \in {"close", "drain"} /\ mode = "exec" /\ code # 0
       ELSE status[s] # 0

Elems(q) == {q[i] : i \in DOMAIN q}

OnWire(f) == \E s \in Steps : \E c \in DOMAIN wires[s] : f \in Elems(wires[s][c])

\* The frames there are.
Around(f) == f \in Elems(queue) \/ f \in Elems(log) \/ OnWire(f)

Running(s) == s > step \/ (s = step /\ main # "ended")

TellInv ==
    /\ \A s \in Steps : Running(s) => status[s] = NoCode
    /\ \A f \in AnyFrame : Around(f) /\ f.exit # 0 => Fails(f.step)

LEMMA ElemsOf ==
    ASSUME NEW q \in Seq(AnyFrame)
    PROVE  /\ \A f \in AnyFrame : Elems(Append(q, f)) = Elems(q) \cup {f}
           /\ q # <<>> => Elems(Tail(q)) \subseteq Elems(q) /\ Head(q) \in Elems(q)
           /\ \A n \in 0..(Len(q) - 1) : Elems(SubSeq(q, 1, n)) \subseteq Elems(q)
<1> DEFINE F == AnyFrame
<1> HIDE DEF F
<1>0. q \in Seq(F) /\ DOMAIN q = 1..Len(q) /\ Len(q) \in Nat
  BY DEF F
<1>1. ASSUME NEW f \in F PROVE Elems(Append(q, f)) = Elems(q) \cup {f}
  <2> DEFINE r == Append(q, f)
  <2>1. /\ DOMAIN r = 1..(Len(q) + 1) /\ r[Len(q) + 1] = f
        /\ \A i \in 1..Len(q) : r[i] = q[i]
    BY <1>0
  <2>2. \A i \in DOMAIN r : i = Len(q) + 1 \/ i \in DOMAIN q
    BY <1>0, <2>1
  <2>3. Len(q) + 1 \in DOMAIN r /\ \A i \in DOMAIN q : i \in DOMAIN r
    BY <1>0, <2>1
  <2> HIDE DEF r
  <2>4. Elems(r) = Elems(q) \cup {f}
    BY <1>0, <2>1, <2>2, <2>3 DEF Elems
  <2> QED
    BY <2>4 DEF r
<1>2. ASSUME q # <<>> PROVE Elems(Tail(q)) \subseteq Elems(q) /\ Head(q) \in Elems(q)
  <2> DEFINE t == Tail(q)
  <2>1. /\ \A i \in DOMAIN t : i + 1 \in DOMAIN q /\ t[i] = q[i + 1]
        /\ 1 \in DOMAIN q /\ Head(q) = q[1]
    BY <1>0, <1>2
  <2> HIDE DEF t
  <2>2. Elems(t) \subseteq Elems(q) /\ Head(q) \in Elems(q)
    BY <2>1 DEF Elems
  <2> QED
    BY <2>2 DEF t
<1>3. ASSUME NEW n \in 0..(Len(q) - 1) PROVE Elems(SubSeq(q, 1, n)) \subseteq Elems(q)
  <2> DEFINE r == SubSeq(q, 1, n)
  <2>1. \A i \in DOMAIN r : i \in DOMAIN q /\ r[i] = q[i]
    BY <1>0
  <2> HIDE DEF r
  <2>2. Elems(r) \subseteq Elems(q)
    BY <2>1 DEF Elems
  <2> QED
    BY <2>2 DEF r
<1> QED
  BY <1>1, <1>2, <1>3 DEF F

LEMMA InitTell == Init => TellInv
<1> SUFFICES ASSUME Init, NEW f \in AnyFrame PROVE ~Around(f)
  BY DEF TellInv, Init
<1>1. Elems(<<>>) = {} /\ \A s \in Steps : DOMAIN wires[s] = {}
  BY DEF Init, Elems
<1> QED
  BY <1>1 DEF Init, Around, OnWire

\* Once a step fails, it does.
LEMMA FailsStays ==
    ASSUME TypeInv, Next, NEW s \in Steps, Fails(s)
    PROVE  Fails(s)'
<1>0. step \in Nat /\ s \in Nat /\ status \in [Steps -> Nat \cup {NoCode}] /\ step \in Steps
  BY DEF TypeInv, TypeOK, Steps
<1>1. ASSUME UNCHANGED <<step, mode, code, status>>,
             main' = main \/ (main = "close" /\ main' = "drain") \/ main \in {"begin", "start", "running"},
             main' # "ended" \/ main' = main
      PROVE  Fails(s)'
  BY <1>1 DEF Fails
<1>2. ASSUME NEW st, st # 0, Exit(st) PROVE Fails(s)'
  BY <1>0, <1>2 DEF Exit, Fails
<1>3. CASE BeginExec \/ BeginSend
  BY <1>3 DEF BeginExec, BeginSend, Begin, Fails
<1>4. CASE ChildFails \/ Killed
  BY <1>2, <1>4 DEF ChildFails, Killed
<1>5. CASE ChildStarts \/ ClosesQueue \/ MarksEnd
  BY <1>1, <1>5 DEF ChildStarts, ClosesQueue, MarksEnd, EndMarked, childVars
<1>6. CASE Returns
  <2>1. PICK st \in Statuses : Exit(st)
    BY <1>6 DEF Returns
  <2>2. CASE s = step
    <3>1. code # 0
      BY <1>6, <2>2 DEF Returns, Fails
    <3>2. st # 0
      BY <2>1, <3>1 DEF Statuses
    <3> QED
      BY <1>2, <2>1, <3>2
  <2>3. CASE s # step
    BY <1>0, <2>1, <2>3 DEF Exit, Fails
  <2> QED
    BY <2>2, <2>3
<1>7. CASE NextStep
  BY <1>0, <1>7 DEF NextStep, Fails
<1>8. CASE PumpStep \/ \E c \in Codes : ChildExits(c)
  <2>1. main = "running" /\ UNCHANGED <<main, step, status>>
    <3>1. ASSUME NEW t \in Streams, t \in pumping PROVE main = "running"
      BY <3>1 DEF TypeInv, PumpsRun
    <3> QED
      BY <1>8, <3>1 DEF PumpStep, PumpEnds, PumpSends, ChildExits
  <2> QED
    BY <2>1 DEF Fails
<1>9. CASE SenderStep \/ NetStep
  <2>1. UNCHANGED <<main, step, status, mode, code>>
    BY <1>9 DEF SenderStep, NetStep, Writes, Skips, Redials, Answered, Retires, Drained,
                Breaks, Lands, childVars
  <2> QED
    BY <1>1, <2>1
<1>10. CASE JobOver
  BY <1>10 DEF JobOver, stepVars, childVars, Fails
<1> QED
  BY <1>3, <1>4, <1>5, <1>6, <1>7, <1>8, <1>9, <1>10 DEF Next, MainStep

\* Where the frames of the next state come from: the queue's,
LEMMA QueueFrames ==
    ASSUME TypeInv, UNCHANGED <<log, wires>>, NEW f \in AnyFrame, Around(f)',
           f \in Elems(queue') => f \in Elems(queue)
    PROVE  Around(f)
BY DEF Around, OnWire

\* and those of a connection.
LEMMA WireFrames ==
    ASSUME TypeInv, NEW s \in Steps, NEW c \in DOMAIN wires[s], NEW q \in Seq(AnyFrame),
           wires' = [wires EXCEPT ![s][c] = q], NEW f \in AnyFrame, OnWire(f)'
    PROVE  OnWire(f) \/ f \in Elems(q)
<1>0. PICK t \in Steps : \E d \in DOMAIN wires'[t] : f \in Elems(wires'[t][d])
  BY DEF OnWire
<1>1. PICK d \in DOMAIN wires'[t] : f \in Elems(wires'[t][d])
  BY <1>0
<1>2. CASE t = s
  <2>1. d \in DOMAIN wires[s] /\ (wires'[s][d] = wires[s][d] \/ wires'[s][d] = q)
    BY <1>1, <1>2, WireSet
  <2> QED
    BY <1>1, <1>2, <2>1 DEF OnWire
<1>3. CASE t # s
  <2>1. wires'[t] = wires[t]
    BY <1>3, WireSet
  <2> QED
    BY <1>1, <2>1 DEF OnWire
<1> QED
  BY <1>2, <1>3

\* If what is sent says of a step that it failed, it does.
Sent(f) == f.exit # 0 => Fails(f.step)'

LEMMA NewFrames ==
    ASSUME TypeInv, EndInv, Next, NEW f \in AnyFrame, Around(f)'
    PROVE  Around(f) \/ Sent(f)
<1>0. /\ queue \in Seq(AnyFrame) /\ log \in Seq(AnyFrame) /\ step \in Steps /\ step \in Nat
      /\ Elems(<<>>) = {}
  BY DEF TypeInv, TypeOK, Steps, Elems
<1>a. SenderRuns => wires[step] # <<>>
  BY DEF SenderRuns, EndInv, QueueInv
<1>1. CASE BeginExec \/ BeginSend
  <2>1. PushMarker(StartFrame) /\ log' = log /\ wires' = [wires EXCEPT ![step] = << <<>> >>]
    BY <1>1 DEF BeginExec, BeginSend, Begin
  <2>2. f \in Elems(queue') => f \in Elems(queue) \/ Sent(f)
    <3>1. StartFrame \in AnyFrame /\ Sent(StartFrame)
      BY FrameTypes DEF StartFrame, Frame, Sent
    <3> QED
      BY <1>0, <2>1, <3>1, ElemsOf DEF PushMarker
  <2>3. OnWire(f)' => OnWire(f)
    <3>1. /\ \A s \in Steps : s # step => wires'[s] = wires[s]
          /\ wires'[step] = << <<>> >>
      BY <1>0, <2>1 DEF TypeInv, TypeOK
    <3>2. \A d \in DOMAIN wires'[step] : wires'[step][d] = <<>>
      BY <3>1
    <3> QED
      BY <1>0, <3>1, <3>2 DEF OnWire
  <2> QED
    BY <2>1, <2>2, <2>3 DEF Around
<1>2. CASE MarksEnd
  <2> DEFINE x == IF mode = "send" THEN 0 ELSE code
  <2>1. /\ UNCHANGED <<log, wires, step, mode, code>> /\ main' = "close" /\ code # NoCode
        /\ queue' = queue \/ queue' = Append(queue, EndFrame(x))
    BY <1>2 DEF MarksEnd, EndMarked, PushMarker, netVars, childVars
  <2>2. EndFrame(x) \in AnyFrame /\ EndFrame(x).step = step /\ EndFrame(x).exit = x
    <3>1. x \in Codes
      BY <2>1 DEF TypeInv, TypeOK, CodeKnown
    <3> HIDE DEF x
    <3> QED
      BY <3>1, FrameTypes DEF EndFrame, Frame
  <2>3. CASE f = EndFrame(x)
    <3>1. f.exit # 0 => mode = "exec" /\ code # 0
      BY <2>2, <2>3 DEF TypeInv, TypeOK
    <3> QED
      BY <1>0, <2>1, <2>2, <2>3, <3>1 DEF Fails, Sent
  <2>4. CASE f # EndFrame(x)
    <3>1. f \in Elems(queue') => f \in Elems(queue)
      <4>1. Elems(Append(queue, EndFrame(x))) = Elems(queue) \cup {EndFrame(x)}
        BY <1>0, <2>2, ElemsOf
      <4> HIDE DEF x
      <4> QED
        BY <2>1, <2>4, <4>1
    <3> QED
      BY <2>1, <3>1, QueueFrames
  <2> QED
    BY <2>3, <2>4
<1>3. CASE ChildFails \/ Returns \/ Killed
  BY <1>0, <1>3, QueueFrames DEF ChildFails, Returns, Killed, Exit
<1>4. CASE ChildStarts \/ ClosesQueue \/ NextStep \/ JobOver
  BY <1>4, QueueFrames
     DEF ChildStarts, ClosesQueue, NextStep, JobOver, stepVars, queueVars, netVars
<1>5. CASE PumpStep \/ \E c \in Codes : ChildExits(c)
  <2>1. /\ UNCHANGED <<log, wires>>
        /\ \/ queue' = queue
           \/ \E s \in Streams : \E g \in TextFrames(s) : queue' = Append(queue, g)
    BY <1>5 DEF PumpStep, PumpEnds, PumpSends, ChildExits, queueVars, netVars
  <2>2. ASSUME NEW s \in Streams, NEW g \in TextFrames(s), queue' = Append(queue, g)
        PROVE  f \in Elems(queue') => f \in Elems(queue) \/ Sent(f)
    <3>1. g \in AnyFrame
      BY FrameTypes
    <3>2. Sent(g)
      BY DEF TextFrames, Frame, Sent
    <3> QED
      BY <1>0, <2>2, <3>1, <3>2, ElemsOf
  <2>3. f \in Elems(queue') => f \in Elems(queue) \/ Sent(f)
    BY <2>1, <2>2
  <2> QED
    BY <2>1, <2>3, QueueFrames
<1>6. CASE Writes
  <2> DEFINE h == Head(queue)
             c == Newest
             q == wires[step][c]
  <2>1. /\ log' = log /\ queue # <<>> /\ queue' = Tail(queue) /\ SenderRuns
        /\ wires' = [wires EXCEPT ![step][c] = Append(q, h)]
    BY <1>6 DEF Writes
  <2>2. c \in DOMAIN wires[step] /\ q \in Seq(AnyFrame)
    BY <1>0, <1>a, <2>1, NewestWire, WireOf
  <2>3. h \in AnyFrame /\ h \in Elems(queue) /\ Elems(queue') \subseteq Elems(queue)
    BY <1>0, <2>1, TailFrame, ElemsOf
  <2>4. Append(q, h) \in Seq(AnyFrame) /\ Elems(Append(q, h)) = Elems(q) \cup {h}
    <3> HIDE DEF h, q
    <3> QED
      BY <2>2, <2>3, ElemsOf, AppendFrame
  <2>5. OnWire(f)' => OnWire(f) \/ f = h
    <3>1. f \in Elems(q) => OnWire(f)
      BY <1>0, <2>2 DEF OnWire
    <3> HIDE DEF h, q, c
    <3> QED
      BY <1>0, <2>1, <2>2, <2>4, <3>1, WireFrames
  <2> QED
    BY <2>1, <2>3, <2>5 DEF Around
<1>7. CASE Skips
  <2>1. UNCHANGED <<log, wires>> /\ queue # <<>> /\ queue' = Tail(queue)
    BY <1>7 DEF Skips, netVars
  <2> QED
    BY <1>0, <2>1, ElemsOf, QueueFrames
<1>8. CASE Redials
  <2>1. UNCHANGED <<log, queue>> /\ SenderRuns /\ wires' = [wires EXCEPT ![step] = Append(@, <<>>)]
    BY <1>8 DEF Redials, queueVars
  <2>2. OnWire(f)' => OnWire(f)
    <3> DEFINE F == Seq(AnyFrame)
               w == wires[step]
    <3>1. w \in Seq(F) /\ <<>> \in F
      BY <1>0, WireOf
    <3>2. wires'[step] = Append(w, <<>>) /\ \A s \in Steps : s # step => wires'[s] = wires[s]
      BY <1>0, <2>1 DEF TypeInv, TypeOK
    <3>3. \A d \in DOMAIN Append(w, <<>>) :
              \/ d \in DOMAIN w /\ Append(w, <<>>)[d] = w[d]
              \/ Append(w, <<>>)[d] = <<>>
      <4> HIDE DEF F, w
      <4> QED
        BY <3>1
    <3> QED
      BY <1>0, <3>2, <3>3 DEF OnWire
  <2> QED
    BY <2>1, <2>2 DEF Around
<1>9. CASE Answered \/ Retires
  BY <1>9, QueueFrames DEF Answered, Retires, Drained, queueVars
<1>10. ASSUME NEW s \in Steps, NEW c \in DOMAIN wires[s], Breaks(s, c) \/ Lands(s, c)
       PROVE  Around(f)
  <2> DEFINE q == wires[s][c]
  <2>1. q \in Seq(AnyFrame) /\ q # <<>> /\ queue' = queue
    BY <1>10, WireOf DEF Breaks, Lands, queueVars
  <2>2. \A g : g \in Elems(q) => OnWire(g)
    BY DEF OnWire
  <2>3. PICK r \in Seq(AnyFrame) :
            /\ wires' = [wires EXCEPT ![s][c] = r] /\ Elems(r) \subseteq Elems(q)
            /\ log' = log \/ (log' = Append(log, Head(q)) /\ Head(q) \in Elems(q))
    <3>1. CASE Breaks(s, c)
      <4>1. PICK n \in 0..(Len(q) - 1) : wires' = [wires EXCEPT ![s][c] = SubSeq(q, 1, n)]
        BY <3>1 DEF Breaks
      <4>2. log' = log
        BY <3>1 DEF Breaks
      <4> HIDE DEF q
      <4> QED
        BY <2>1, <4>1, <4>2, CutFrame, ElemsOf
    <3>2. CASE Lands(s, c)
      <4>1. wires' = [wires EXCEPT ![s][c] = Tail(q)] /\ log' = Append(log, Head(q))
        BY <3>2 DEF Lands
      <4> HIDE DEF q
      <4> QED
        BY <2>1, <4>1, TailFrame, ElemsOf
    <3> QED
      BY <1>10, <3>1, <3>2
  <2>4. OnWire(f)' => OnWire(f)
    <3> HIDE DEF q
    <3> QED
      BY <2>2, <2>3, WireFrames
  <2>5. f \in Elems(log') => f \in Elems(log) \/ OnWire(f)
    <3>1. Head(q) \in AnyFrame
      <4> HIDE DEF q
      <4> QED
        BY <2>1, TailFrame
    <3>2. Elems(Append(log, Head(q))) = Elems(log) \cup {Head(q)}
      BY <1>0, <3>1, ElemsOf
    <3>3. Head(q) \in Elems(q) => OnWire(Head(q))
      BY <2>2
    <3> DEFINE h == Head(q)
    <3> HIDE DEF h, q
    <3>4. CASE log' = log
      BY <3>4
    <3>5. CASE log' = Append(log, h) /\ h \in Elems(q)
      <4>1. Elems(log') = Elems(log) \cup {h}
        BY <3>2, <3>5 DEF h
      <4>2. OnWire(h)
        BY <3>3, <3>5 DEF h
      <4> QED
        BY <4>1, <4>2
    <3> QED
      BY <2>3, <3>4, <3>5 DEF h
  <2> QED
    BY <2>1, <2>4, <2>5 DEF Around
<1> QED
  BY <1>1, <1>2, <1>3, <1>4, <1>5, <1>6, <1>7, <1>8, <1>9, <1>10
     DEF Next, MainStep, SenderStep, NetStep

LEMMA StepStatus ==
    ASSUME TypeInv, TellInv, [Next]_stepVars, NEW s \in Steps, Running(s)'
    PROVE  status'[s] = NoCode
<1>0. step \in Nat /\ s \in Nat /\ status \in [Steps -> Nat \cup {NoCode}] /\ step \in Steps
  BY DEF TypeInv, TypeOK, Steps
<1>1. Running(s) /\ status'[s] = status[s]
  <2>1. ASSUME NEW st, Exit(st) PROVE Running(s) /\ status'[s] = status[s]
    BY <1>0, <2>1 DEF Exit, Running
  <2>2. CASE ChildFails \/ Returns \/ Killed
    BY <2>1, <2>2 DEF ChildFails, Returns, Killed
  <2>3. CASE BeginExec \/ BeginSend \/ ChildStarts \/ MarksEnd \/ ClosesQueue
    BY <2>3 DEF BeginExec, BeginSend, Begin, ChildStarts, MarksEnd, EndMarked, ClosesQueue, Running
  <2>4. CASE NextStep
    BY <1>0, <2>4 DEF NextStep, Running
  <2>5. CASE PumpStep \/ SenderStep \/ NetStep \/ (\E c \in Codes : ChildExits(c)) \/ JobOver
             \/ UNCHANGED stepVars
    <3>1. UNCHANGED <<main, step, status>>
      BY <2>5 DEF PumpStep, PumpEnds, PumpSends, SenderStep, NetStep, Writes, Skips, Redials,
                  Answered, Retires, Drained, Breaks, Lands, ChildExits, JobOver, stepVars
    <3> QED
      BY <3>1 DEF Running
  <2> QED
    BY <2>2, <2>3, <2>4, <2>5 DEF Next, MainStep
<1> QED
  BY <1>1 DEF TellInv

LEMMA StepTell == TypeInv /\ EndInv /\ TellInv /\ [Next]_stepVars => TellInv'
<1> SUFFICES ASSUME TypeInv, EndInv, TellInv, [Next]_stepVars PROVE TellInv'
  OBVIOUS
<1>1. ASSUME NEW f \in AnyFrame, Around(f)', f.exit # 0 PROVE Fails(f.step)'
  <2>1. CASE Next
    <3>1. f.step \in Steps
      BY DEF AnyFrame
    <3>2. CASE Around(f)
      BY <1>1, <2>1, <3>1, <3>2, FailsStays DEF TellInv
    <3> QED
      BY <1>1, <2>1, <3>2, NewFrames DEF Sent
  <2>2. CASE UNCHANGED stepVars
    <3>1. Around(f)' => Around(f)
      BY <2>2 DEF stepVars, queueVars, netVars, Around, OnWire
    <3>2. Fails(f.step) => Fails(f.step)'
      BY <2>2 DEF stepVars, childVars, queueVars, netVars, Fails
    <3> QED
      BY <1>1, <3>1, <3>2 DEF TellInv
  <2> QED
    BY <2>1, <2>2
<1> QED
  BY <1>1, StepStatus DEF TellInv

\* A log that says that a command failed belongs to a process that fails too, or
\* is still to end: what the runner is told is no better than what a reader sees.
THEOREM ExitsAgree == Spec => []ExitAgrees
<1>1. TypeInv /\ TellInv => ExitAgrees
  <2> SUFFICES ASSUME TypeInv, TellInv, NEW i \in DOMAIN log, log[i].exit # 0
               PROVE  status[log[i].step] # 0
    BY DEF ExitAgrees
  <2>1. log[i] \in AnyFrame
    BY DEF TypeInv, TypeOK
  <2>2. Fails(log[i].step) /\ log[i].step \in Steps
    BY <2>1 DEF TellInv, Around, Elems, AnyFrame
  <2> QED
    BY <2>2 DEF TellInv, Fails, Running, NoCode
<1> QED
  BY <1>1, StepInvariants, InitTell, StepTell, PTL DEF Spec

-----------------------------------------------------------------------------
\* The way of a start marker.  It is the first thing its process sends.
HasStart(q)    == \E i \in DOMAIN q : IsStart(q[i])
StartsFirst(q) == \A i \in DOMAIN q : IsStart(q[i]) => i = 1

NoneLanded(s)  == \A i \in DOMAIN log : log[i].step # s
WiresEmpty(s)  == \A c \in DOMAIN wires[s] : wires[s][c] = <<>>

LEMMA StartFrames ==
    ASSUME NEW q \in Seq(AnyFrame)
    PROVE  /\ \A f \in AnyFrame :
                 /\ ~IsStart(f) /\ StartsFirst(q) => StartsFirst(Append(q, f))
                 /\ q = <<>> => StartsFirst(Append(q, f))
                 /\ HasStart(Append(q, f)) => HasStart(q) \/ IsStart(f)
           /\ q # <<>> => /\ StartsFirst(q) => ~HasStart(Tail(q))
                          /\ IsStart(Head(q)) => HasStart(q)
                          /\ HasStart(Tail(q)) => HasStart(q)
           /\ \A n \in 0..(Len(q) - 1) :
                 /\ StartsFirst(q) => StartsFirst(SubSeq(q, 1, n))
                 /\ HasStart(SubSeq(q, 1, n)) => HasStart(q)
           /\ ~HasStart(q) => StartsFirst(q)
<1> DEFINE F == AnyFrame
<1> HIDE DEF F
<1>0. q \in Seq(F) /\ Len(q) \in Nat /\ DOMAIN q = 1..Len(q) /\ (q = <<>> <=> Len(q) = 0)
  BY DEF F
<1>1. ASSUME NEW f \in F
      PROVE  /\ ~IsStart(f) /\ StartsFirst(q) => StartsFirst(Append(q, f))
             /\ q = <<>> => StartsFirst(Append(q, f))
             /\ HasStart(Append(q, f)) => HasStart(q) \/ IsStart(f)
  <2> DEFINE r == Append(q, f)
  <2>1. /\ DOMAIN r = 1..(Len(q) + 1) /\ r[Len(q) + 1] = f
        /\ \A i \in 1..Len(q) : r[i] = q[i]
    BY <1>0
  <2> HIDE DEF r
  <2>2. \A i \in DOMAIN r : (i \in DOMAIN q /\ r[i] = q[i]) \/ (i = Len(q) + 1 /\ r[i] = f)
    BY <1>0, <2>1
  <2>3. q = <<>> => \A i \in DOMAIN r : i = 1
    BY <1>0, <2>1
  <2> QED
    BY <2>2, <2>3 DEF StartsFirst, HasStart, r
<1>2. ASSUME q # <<>>
      PROVE  /\ StartsFirst(q) => ~HasStart(Tail(q))
             /\ IsStart(Head(q)) => HasStart(q)
             /\ HasStart(Tail(q)) => HasStart(q)
  <2> DEFINE r == Tail(q)
  <2>1. /\ Len(q) > 0 /\ Head(q) = q[1] /\ 1 \in DOMAIN q
        /\ \A i \in DOMAIN r : i + 1 \in DOMAIN q /\ r[i] = q[i + 1] /\ i + 1 # 1
    BY <1>0, <1>2
  <2> HIDE DEF r
  <2> QED
    BY <2>1 DEF StartsFirst, HasStart, r
<1>3. ASSUME NEW n \in 0..(Len(q) - 1)
      PROVE  /\ StartsFirst(q) => StartsFirst(SubSeq(q, 1, n))
             /\ HasStart(SubSeq(q, 1, n)) => HasStart(q)
  <2> DEFINE r == SubSeq(q, 1, n)
  <2>1. \A i \in DOMAIN r : i \in DOMAIN q /\ r[i] = q[i]
    BY <1>0
  <2> HIDE DEF r
  <2> QED
    BY <2>1 DEF StartsFirst, HasStart, r
<1>4. ~HasStart(q) => StartsFirst(q)
  BY DEF HasStart, StartsFirst
<1> QED
  BY <1>1, <1>2, <1>3, <1>4 DEF F

\* As long as its step keeps its connection, the marker is ahead of what its
\* process sends: in the queue, on the wire and in the log.
AheadInv(s) ==
    /\ \A c \in DOMAIN wires[s] :
          StartsFirst(wires[s][c]) /\ (HasStart(wires[s][c]) => NoneLanded(s))
    /\ s = step => StartsFirst(queue) /\ (HasStart(queue) => NoneLanded(s) /\ WiresEmpty(s))
    /\ \A i, j \in DOMAIN log :
          log[i].step = s /\ log[j].step = s /\ IsStart(log[j]) => j <= i

\* A step whose close was answered, on the connection it began with, has nothing
\* more to say, and nothing of a later step was said before.
Stored(s) == s \in answered /\ OneWire(s)

Quiet(s) ==
    /\ s <= step /\ WiresEmpty(s)
    /\ s = step => queue = <<>> /\ main \in {"drain", "ended"}

OrderInv(s) == \A i, j \in DOMAIN log : log[j].step = s /\ log[i].step > s => j < i

HeardInv(s) ==
    /\ ToCome(s) => NoneLanded(s)
    /\ Stored(s) => Quiet(s) /\ OrderInv(s)
    /\ OneWire(s) => AheadInv(s)

AllHeard == \A s \in Steps : HeardInv(s)

LEMMA InitHeard == Init => AllHeard
<1> SUFFICES ASSUME Init, NEW s \in Steps PROVE HeardInv(s)
  BY DEF AllHeard
<1>1. /\ DOMAIN log = {} /\ DOMAIN queue = {} /\ wires[s] = <<>> /\ DOMAIN wires[s] = {}
      /\ answered = {}
  BY DEF Init
<1> QED
  BY <1>1 DEF HeardInv, NoneLanded, Stored, AheadInv, StartsFirst, HasStart

\* What happens to the queue, seen from the step of the next state: its marker
\* does not enter it.
QueueKeeps ==
    \/ queue' = <<>>
    \/ /\ step' = step
       /\ StartsFirst(queue) => StartsFirst(queue')
       /\ HasStart(queue') => HasStart(queue)

\* A step that leaves the connections and the log as they are.
LEMMA HeardKept ==
    ASSUME NEW s \in Steps, HeardInv(s), UNCHANGED <<log, wires>>, QueueKeeps,
           Stored(s)' => (Stored(s) /\ (Quiet(s) => Quiet(s)')) \/ (Quiet(s)' /\ OrderInv(s)'),
           ToCome(s)' => ToCome(s)
    PROVE  HeardInv(s)'
<1>1. /\ NoneLanded(s)' <=> NoneLanded(s)
      /\ WiresEmpty(s)' <=> WiresEmpty(s)
      /\ OneWire(s)' <=> OneWire(s)
      /\ OrderInv(s)' <=> OrderInv(s)
  BY DEF NoneLanded, WiresEmpty, OneWire, OrderInv
<1>2. OneWire(s) => AheadInv(s)'
  <2> SUFFICES ASSUME AheadInv(s) PROVE AheadInv(s)'
    BY DEF HeardInv
  <2>1. \A c \in DOMAIN wires'[s] :
          StartsFirst(wires'[s][c]) /\ (HasStart(wires'[s][c]) => NoneLanded(s)')
    BY <1>1 DEF AheadInv
  <2>2. s = step' => StartsFirst(queue') /\ (HasStart(queue') => NoneLanded(s)' /\ WiresEmpty(s)')
    <3>1. CASE queue' = <<>>
      BY <3>1 DEF StartsFirst, HasStart
    <3>2. CASE queue' # <<>>
      BY <1>1, <3>2 DEF QueueKeeps, AheadInv
    <3> QED
      BY <3>1, <3>2
  <2>3. \A i, j \in DOMAIN log' :
          log'[i].step = s /\ log'[j].step = s /\ IsStart(log'[j]) => j <= i
    BY DEF AheadInv
  <2> QED
    BY <2>1, <2>2, <2>3 DEF AheadInv, StartsFirst, HasStart, IsStart
<1> QED
  BY <1>1, <1>2 DEF HeardInv

\* One in which the process, at most, goes on towards its end.
LEMMA HeardGoing ==
    ASSUME TypeInv, AllHeard, UNCHANGED <<log, wires, answered, step>>, QueueKeeps,
           main # "begin" => main' # "begin",
           main \in {"drain", "ended"} => main' \in {"drain", "ended"} /\ (queue = <<>> => queue' = <<>>)
    PROVE  AllHeard'
<1>0. Steps' = Steps
  BY DEF Steps
<1> SUFFICES ASSUME NEW s \in Steps PROVE HeardInv(s)'
  BY <1>0 DEF AllHeard
<1>1. HeardInv(s)
  BY DEF AllHeard
<1>2. Stored(s)' => Stored(s) /\ (Quiet(s) => Quiet(s)')
  BY DEF Stored, OneWire, Quiet, WiresEmpty
<1>3. ToCome(s)' => ToCome(s)
  BY DEF ToCome
<1> QED
  BY <1>1, <1>2, <1>3, HeardKept

\* What the main goroutine and the pumps put into the queue, but for Begin, is
\* not a start.
LEMMA QueueAdds ==
    ASSUME TypeInv, step' = step, NEW f \in AnyFrame, ~IsStart(f),
           queue' = queue \/ queue' = Append(queue, f)
    PROVE  QueueKeeps
<1>1. queue \in Seq(AnyFrame)
  BY DEF TypeInv, TypeOK
<1>2. (StartsFirst(queue) => StartsFirst(Append(queue, f)))
      /\ (HasStart(Append(queue, f)) => HasStart(queue))
  BY <1>1, StartFrames
<1> QED
  BY <1>2 DEF QueueKeeps

LEMMA ProcessHeard ==
    ASSUME TypeInv, EndInv, AllHeard,
           \/ ChildFails \/ ChildStarts \/ MarksEnd \/ ClosesQueue \/ Returns \/ Killed
           \/ PumpStep \/ (\E c \in Codes : ChildExits(c)) \/ JobOver \/ UNCHANGED stepVars
    PROVE  AllHeard'
<1>1. CASE ChildFails \/ Returns \/ Killed
  <2>1. PICK st : Exit(st)
    BY <1>1 DEF ChildFails, Returns, Killed
  <2>2. /\ UNCHANGED <<log, wires, answered, step>> /\ queue' = <<>> /\ main' = "ended"
    BY <2>1 DEF Exit
  <2> QED
    BY <2>2, HeardGoing DEF QueueKeeps
<1>2. CASE ChildStarts \/ ClosesQueue \/ JobOver \/ UNCHANGED stepVars
                \/ (\E c \in Codes : ChildExits(c))
  <2>1. /\ UNCHANGED <<log, wires, answered, step, queue>>
        /\ main' = main \/ (main \in {"start", "close"} /\ main' \in {"running", "drain"})
    BY <1>2 DEF ChildStarts, ClosesQueue, JobOver, ChildExits, stepVars, queueVars, netVars
  <2>2. QueueKeeps
    BY <2>1 DEF QueueKeeps, StartsFirst, HasStart
  <2> QED
    BY <2>1, <2>2, HeardGoing
<1>3. CASE MarksEnd
  <2> DEFINE x == IF mode = "send" THEN 0 ELSE code
  <2>1. /\ UNCHANGED <<log, wires, answered, step>> /\ main = "running" /\ main' = "close"
        /\ code # NoCode
        /\ queue' = queue \/ queue' = Append(queue, EndFrame(x))
    BY <1>3 DEF MarksEnd, EndMarked, PushMarker, netVars
  <2>2. EndFrame(x) \in AnyFrame /\ ~IsStart(EndFrame(x))
    <3>1. x \in Codes
      BY <2>1 DEF TypeInv, TypeOK, CodeKnown
    <3> HIDE DEF x
    <3> QED
      BY <3>1, FrameTypes DEF EndFrame, Frame, IsStart
  <2>3. QueueKeeps
    <3> DEFINE e == EndFrame(x)
    <3> HIDE DEF e
    <3> QED
      BY <2>1, <2>2, QueueAdds DEF e
  <2> QED
    BY <2>1, <2>3, HeardGoing
<1>4. CASE PumpStep
  <2>1. PICK p \in Streams : PumpEnds(p) \/ \E f \in TextFrames(p) : PumpSends(p, f)
    BY <1>4 DEF PumpStep
  <2>2. UNCHANGED <<log, wires, answered, step, main>> /\ main \notin {"drain", "ended"}
    BY <2>1 DEF PumpEnds, PumpSends, netVars, TypeInv, PumpsRun
  <2>3. QueueKeeps
    <3>1. CASE PumpEnds(p)
      BY <3>1 DEF PumpEnds, queueVars, QueueKeeps, StartsFirst, HasStart
    <3>2. CASE \E f \in TextFrames(p) : PumpSends(p, f)
      <4>1. PICK f \in TextFrames(p) : PumpSends(p, f)
        BY <3>2
      <4>2. f \in AnyFrame /\ ~IsStart(f)
        BY FrameTypes DEF TextFrames, Frame, IsStart
      <4>3. queue' = Append(queue, f)
        BY <4>1 DEF PumpSends
      <4> QED
        BY <2>2, <4>2, <4>3, QueueAdds
    <3> QED
      BY <2>1, <3>1, <3>2
  <2> QED
    BY <2>2, <2>3, HeardGoing
<1> QED
  BY <1>1, <1>2, <1>3, <1>4

\* The next process has sent nothing yet.
LEMMA NextHeard ==
    ASSUME TypeInv, EndInv, AllHeard, NextStep
    PROVE  AllHeard'
<1>0. Steps' = Steps /\ step \in Nat /\ Steps \subseteq Nat
  BY DEF Steps, TypeInv, TypeOK
<1> SUFFICES ASSUME NEW s \in Steps PROVE HeardInv(s)'
  BY <1>0 DEF AllHeard
<1>1. HeardInv(s) /\ s \in Nat
  BY <1>0 DEF AllHeard
<1>2. UNCHANGED <<log, wires, answered, queue>> /\ step' = step + 1 /\ queue' = <<>>
  BY DEF NextStep, EndInv, QueueInv
<1>3. Stored(s)' => Stored(s) /\ (Quiet(s) => Quiet(s)')
  BY <1>0, <1>1, <1>2 DEF Stored, OneWire, Quiet, WiresEmpty
<1>4. ToCome(s)' => ToCome(s)
  BY <1>0, <1>1, <1>2 DEF ToCome
<1> QED
  BY <1>1, <1>2, <1>3, <1>4, HeardKept DEF QueueKeeps

\* The start marker, if there is one, is all there is of the step.
LEMMA BeginHeard ==
    ASSUME TypeInv, EndInv, AllHeard, BeginExec \/ BeginSend
    PROVE  AllHeard'
<1>0. /\ Steps' = Steps /\ step \in Steps /\ Steps \subseteq Nat
      /\ wires \in [Steps -> Seq(Seq(AnyFrame))]
  BY DEF Steps, TypeInv, TypeOK
<1> SUFFICES ASSUME NEW s \in Steps PROVE HeardInv(s)'
  BY <1>0 DEF AllHeard
<1>1. /\ UNCHANGED <<log, answered, step>> /\ main = "begin" /\ main' # "begin"
      /\ queue = <<>> /\ wires[step] = <<>>
      /\ wires' = [wires EXCEPT ![step] = << <<>> >>]
      /\ queue' = <<>> \/ queue' = Append(<<>>, StartFrame)
  BY <1>0 DEF BeginExec, BeginSend, Begin, PushMarker, EndInv, QueueInv, FreshInv, ToCome
<1>2. HeardInv(s)
  BY DEF AllHeard
<1>3. CASE s = step
  <2>1. NoneLanded(s) /\ NoneLanded(s)'
    BY <1>1, <1>2, <1>3 DEF HeardInv, ToCome, NoneLanded
  <2>2. ~Stored(s)'
    <3>1. OneWire(s) /\ ~Quiet(s)
      BY <1>1, <1>3 DEF OneWire, Quiet
    <3> QED
      BY <1>1, <1>2, <3>1 DEF HeardInv, Stored
  <2>3. ~ToCome(s)'
    BY <1>0, <1>1, <1>3 DEF ToCome
  <2>4. \A c \in DOMAIN wires'[s] : wires'[s][c] = <<>>
    BY <1>0, <1>1, <1>3
  <2>5. StartsFirst(queue')
    <3>1. <<>> \in Seq(AnyFrame) /\ StartFrame \in AnyFrame /\ StartsFirst(<<>>)
      BY FrameTypes DEF StartsFirst
    <3> QED
      BY <1>1, <3>1, StartFrames
  <2>6. StartsFirst(<<>>) /\ ~HasStart(<<>>)
    BY DEF StartsFirst, HasStart
  <2>7. AheadInv(s)'
    <3>1. WiresEmpty(s)'
      BY <2>4 DEF WiresEmpty
    <3>2. \A c \in DOMAIN wires'[s] :
            StartsFirst(wires'[s][c]) /\ (HasStart(wires'[s][c]) => NoneLanded(s)')
      BY <2>4, <2>6
    <3>3. \A i, j \in DOMAIN log' :
          log'[i].step = s /\ log'[j].step = s /\ IsStart(log'[j]) => j <= i
      BY <2>1 DEF NoneLanded
    <3> QED
      BY <2>1, <2>5, <3>1, <3>2, <3>3 DEF AheadInv, StartsFirst, HasStart, IsStart
  <2> QED
    BY <2>1, <2>2, <2>3, <2>7 DEF HeardInv
<1>4. CASE s # step
  <2>1. wires'[s] = wires[s]
    BY <1>0, <1>1, <1>4
  <2>2. /\ NoneLanded(s)' <=> NoneLanded(s)
        /\ Stored(s)' <=> Stored(s)
        /\ OneWire(s)' <=> OneWire(s)
        /\ OrderInv(s)' <=> OrderInv(s)
        /\ ToCome(s)' => ToCome(s)
    BY <1>1, <1>4, <2>1 DEF NoneLanded, Stored, OneWire, OrderInv, ToCome
  <2>3. Quiet(s) => Quiet(s)'
    BY <1>1, <1>4, <2>1 DEF Quiet, WiresEmpty
  <2>4. AheadInv(s) => AheadInv(s)'
    BY <1>1, <1>4, <2>1 DEF AheadInv, NoneLanded, StartsFirst, HasStart, IsStart
  <2> QED
    BY <1>2, <2>2, <2>3, <2>4 DEF HeardInv
<1> QED
  BY <1>3, <1>4

\* A queue is closed at the end.
ClosedLate == closed => main \in {"drain", "ended"}

LEMMA StepClosed == ClosedLate /\ [Next]_stepVars => ClosedLate'
<1> SUFFICES ASSUME ClosedLate, [Next]_stepVars PROVE ClosedLate'
  OBVIOUS
<1>1. CASE ChildFails \/ Returns \/ Killed
  BY <1>1 DEF ChildFails, Returns, Killed, Exit, ClosedLate
<1>2. CASE BeginExec \/ BeginSend
  BY <1>2 DEF BeginExec, BeginSend, Begin, ClosedLate
<1>3. CASE MainStep
  BY <1>1, <1>2, <1>3 DEF MainStep, ChildStarts, MarksEnd, EndMarked, ClosesQueue, queueVars, ClosedLate
<1>4. CASE SenderStep \/ NetStep
  BY <1>4 DEF SenderStep, NetStep, Writes, Skips, Redials, Answered, Drained, Retires, Breaks,
              Lands, queueVars, ClosedLate
<1>5. CASE PumpStep \/ (\E c \in Codes : ChildExits(c)) \/ NextStep \/ JobOver \/ UNCHANGED stepVars
  BY <1>5 DEF PumpStep, PumpEnds, PumpSends, ChildExits, NextStep, JobOver, stepVars, queueVars,
              ClosedLate
<1> QED
  BY <1>1, <1>3, <1>4, <1>5 DEF Next

\* The steps whose connections and frames are not concerned.
LEMMA HeardApart ==
    ASSUME NEW s \in Steps, HeardInv(s), UNCHANGED <<log, step, main, answered>>,
           wires'[s] = wires[s], s = step => queue' = queue
    PROVE  HeardInv(s)'
<1>1. /\ NoneLanded(s)' <=> NoneLanded(s)
      /\ Stored(s)' <=> Stored(s)
      /\ OneWire(s)' <=> OneWire(s)
      /\ OrderInv(s)' <=> OrderInv(s)
      /\ ToCome(s)' => ToCome(s)
  BY DEF NoneLanded, Stored, OneWire, OrderInv, ToCome
<1>2. Quiet(s) => Quiet(s)'
  BY DEF Quiet, WiresEmpty
<1>3. AheadInv(s) => AheadInv(s)'
  BY DEF AheadInv, NoneLanded, WiresEmpty, StartsFirst, HasStart, IsStart
<1> QED
  BY <1>1, <1>2, <1>3 DEF HeardInv

\* The one connection of a step.
LEMMA OnlyWire ==
    ASSUME TypeInv, NEW s \in Steps, OneWire(s), NEW c \in DOMAIN wires[s]
    PROVE  c = 1 /\ \A d \in DOMAIN wires[s] : d = c
<1>1. DOMAIN wires[s] = 1..Len(wires[s]) /\ Len(wires[s]) \in Nat
  BY WireOf
<1> QED
  BY <1>1 DEF OneWire

LEMMA WritesHeard ==
    ASSUME TypeInv, EndInv, AllHeard, Writes
    PROVE  AllHeard'
<1> DEFINE f == Head(queue)
           c == Newest
           q == wires[step][c]
<1>0. Steps' = Steps /\ step \in Steps
  BY DEF Steps, TypeInv, TypeOK
<1> SUFFICES ASSUME NEW s \in Steps PROVE HeardInv(s)'
  BY <1>0 DEF AllHeard
<1>1. /\ UNCHANGED <<step, main, log, answered>> /\ queue # <<>> /\ queue' = Tail(queue)
      /\ wires' = [wires EXCEPT ![step][c] = Append(q, f)]
      /\ main # "begin" /\ wires[step] # <<>>
  BY DEF Writes, SenderRuns, EndInv, QueueInv
<1>2. c \in DOMAIN wires[step] /\ q \in Seq(AnyFrame) /\ queue \in Seq(AnyFrame)
  BY <1>0, <1>1, NewestWire, WireOf DEF TypeInv, TypeOK
<1>3. f \in AnyFrame /\ Append(q, f) \in Seq(AnyFrame)
  BY <1>1, <1>2, TailFrame, AppendFrame
<1>4. /\ \A t \in Steps : t # step => wires'[t] = wires[t]
      /\ Len(wires'[step]) = Len(wires[step]) /\ DOMAIN wires'[step] = DOMAIN wires[step]
      /\ wires'[step][c] = Append(q, f)
      /\ \A d \in DOMAIN wires[step] : d # c => wires'[step][d] = wires[step][d]
  <2> HIDE DEF c, q, f
  <2> QED
    BY <1>0, <1>1, <1>2, <1>3, WireSet
<1>5. HeardInv(s)
  BY DEF AllHeard
<1>6. CASE s = step
  <2>1. OneWire(s)' <=> OneWire(s)
    BY <1>4, <1>6 DEF OneWire
  <2>2. ~Stored(s)' /\ ~ToCome(s)'
    BY <1>0, <1>1, <1>5, <1>6, <2>1 DEF Stored, ToCome, HeardInv, Quiet, Steps
  <2>3. ASSUME OneWire(s) PROVE AheadInv(s)'
    <3>1. /\ StartsFirst(q) /\ (HasStart(q) => NoneLanded(s))
          /\ StartsFirst(queue) /\ (HasStart(queue) => NoneLanded(s) /\ q = <<>>)
      BY <1>2, <1>5, <1>6, <2>3 DEF HeardInv, AheadInv, WiresEmpty
    <3>2. IsStart(f) => HasStart(queue)
      BY <1>1, <1>2, StartFrames
    <3>3. StartsFirst(Append(q, f)) /\ (HasStart(Append(q, f)) => NoneLanded(s))
      <4>1. /\ ~IsStart(f) /\ StartsFirst(q) => StartsFirst(Append(q, f))
            /\ q = <<>> => StartsFirst(Append(q, f))
            /\ HasStart(Append(q, f)) => HasStart(q) \/ IsStart(f)
        <5> HIDE DEF q, f
        <5> QED
          BY <1>2, <1>3, StartFrames
      <4> HIDE DEF q, f
      <4> QED
        BY <3>1, <3>2, <4>1
    <3>4. ~HasStart(queue') /\ StartsFirst(queue')
      BY <1>1, <1>2, <3>1, StartFrames DEF HasStart, StartsFirst
    <3>5. \A d \in DOMAIN wires[s] : d = c
      BY <1>2, <1>6, <2>3, OnlyWire
    <3>6. \A d \in DOMAIN wires'[s] :
            StartsFirst(wires'[s][d]) /\ (HasStart(wires'[s][d]) => NoneLanded(s))
      <4> HIDE DEF q, f, c
      <4> QED
        BY <1>4, <1>6, <3>3, <3>5
    <3>7. \A i, j \in DOMAIN log :
             log[i].step = s /\ log[j].step = s /\ IsStart(log[j]) => j <= i
      BY <1>5, <2>3 DEF HeardInv, AheadInv
    <3> HIDE DEF q, f, c
    <3> QED
      BY <1>1, <3>4, <3>6, <3>7 DEF AheadInv, NoneLanded, StartsFirst, HasStart, IsStart
  <2> QED
    BY <2>1, <2>2, <2>3 DEF HeardInv
<1>7. CASE s # step
  BY <1>1, <1>4, <1>5, <1>7, HeardApart
<1> QED
  BY <1>6, <1>7

LEMMA SenderHeard ==
    ASSUME TypeInv, EndInv, ClosedLate, AllHeard, SenderStep
    PROVE  AllHeard'
<1>0. Steps' = Steps /\ step \in Steps /\ Steps \subseteq Nat
  BY DEF Steps, TypeInv, TypeOK
<1>1. CASE Writes
  BY <1>1, WritesHeard
<1>2. CASE Skips \/ Retires
  <2>1. /\ UNCHANGED <<log, wires, answered, step, main>>
        /\ \/ queue' = queue
           \/ queue # <<>> /\ queue' = Tail(queue)
    BY <1>2 DEF Skips, Retires, netVars, queueVars
  <2>2. queue \in Seq(AnyFrame)
    BY DEF TypeInv, TypeOK
  <2>3. QueueKeeps
    <3>1. CASE queue' = queue
      BY <2>1, <3>1 DEF QueueKeeps, StartsFirst, HasStart
    <3>2. CASE queue # <<>> /\ queue' = Tail(queue)
      <4>1. /\ StartsFirst(queue) => StartsFirst(Tail(queue))
            /\ HasStart(Tail(queue)) => HasStart(queue)
        BY <2>2, <3>2, StartFrames DEF StartsFirst, HasStart
      <4> QED
        BY <2>1, <3>2, <4>1 DEF QueueKeeps
    <3> QED
      BY <2>1, <3>1, <3>2
  <2>4. queue = <<>> => queue' = <<>>
    BY <2>1
  <2> QED
    BY <2>1, <2>3, <2>4, HeardGoing
<1>3. CASE Redials
  <2>1. /\ UNCHANGED <<step, main, log, queue, answered>>
        /\ wires' = [wires EXCEPT ![step] = Append(@, <<>>)]
        /\ main # "begin" /\ wires[step] # <<>>
    BY <1>3 DEF Redials, queueVars, SenderRuns, EndInv, QueueInv
  <2>2. ~OneWire(step)' /\ \A s \in Steps : s # step => wires'[s] = wires[s]
    <3> DEFINE F == Seq(AnyFrame)
               w == wires[step]
    <3>1. wires \in [Steps -> Seq(F)] /\ w \in Seq(F) /\ <<>> \in F /\ w # <<>>
      BY <1>0, <2>1, WireOf DEF TypeInv, TypeOK
    <3>2. wires'[step] = Append(w, <<>>) /\ \A s \in Steps : s # step => wires'[s] = wires[s]
      BY <1>0, <2>1, <3>1
    <3> HIDE DEF F, w
    <3>3. Len(Append(w, <<>>)) > 1
      BY <3>1
    <3> QED
      BY <2>1, <3>2, <3>3 DEF OneWire
  <2> SUFFICES ASSUME NEW s \in Steps PROVE HeardInv(s)'
    BY <1>0 DEF AllHeard
  <2>3. CASE s = step
    BY <1>0, <2>1, <2>2, <2>3 DEF HeardInv, Stored, ToCome
  <2>4. CASE s # step
    BY <2>1, <2>2, <2>4, HeardApart DEF AllHeard
  <2> QED
    BY <2>3, <2>4
<1>4. CASE Answered
  <2>1. /\ UNCHANGED <<step, main, log, queue, wires>> /\ answered' = answered \cup {step}
        /\ queue = <<>> /\ main \in {"drain", "ended"} /\ wires[step] # <<>>
        /\ wires[step][Newest] = <<>>
    BY <1>4 DEF Answered, Drained, SenderRuns, queueVars, ClosedLate, EndInv, QueueInv
  <2> SUFFICES ASSUME NEW s \in Steps PROVE HeardInv(s)'
    BY <1>0 DEF AllHeard
  <2>2. HeardInv(s)
    BY DEF AllHeard
  <2>3. QueueKeeps /\ (ToCome(s)' => ToCome(s))
    BY <2>1 DEF QueueKeeps, ToCome
  <2>4. CASE s = step
    <3>1. OneWire(s)' => Quiet(s)'
      <4> SUFFICES ASSUME OneWire(s) PROVE Quiet(s)'
        BY <2>1 DEF OneWire
      <4>1. Newest \in DOMAIN wires[step]
        BY <2>1, NewestWire
      <4>2. \A d \in DOMAIN wires[s] : d = Newest
        BY <2>4, <4>1, OnlyWire
      <4>3. WiresEmpty(s)'
        BY <2>1, <2>4, <4>2 DEF WiresEmpty
      <4> QED
        BY <1>0, <2>1, <2>4, <4>3 DEF Quiet
    <3>2. OrderInv(s)'
      <4>1. \A i \in DOMAIN log : log[i] \in AnyFrame
        BY DEF TypeInv, TypeOK
      <4>2. \A t \in Steps : t > step => NoneLanded(t)
        BY DEF AllHeard, HeardInv, ToCome
      <4>3. \A i \in DOMAIN log : ~(log[i].step > step)
        BY <4>1, <4>2 DEF NoneLanded, AnyFrame
      <4> QED
        BY <2>1, <2>4, <4>3 DEF OrderInv
    <3>3. Stored(s)' => Quiet(s)' /\ OrderInv(s)'
      BY <3>1, <3>2 DEF Stored
    <3> QED
      BY <2>1, <2>2, <2>3, <3>3, HeardKept
  <2>5. CASE s # step
    BY <2>1, <2>2, <2>3, <2>5, HeardKept DEF Stored, OneWire, Quiet, WiresEmpty
  <2> QED
    BY <2>4, <2>5
<1> QED
  BY <1>1, <1>2, <1>3, <1>4 DEF SenderStep

\* A connection shortens, and its head may go to the log.
LEMMA NetHeard ==
    ASSUME TypeInv, EndInv, AllHeard, NEW s \in Steps, NEW c \in DOMAIN wires[s],
           Breaks(s, c) \/ Lands(s, c)
    PROVE  AllHeard'
<1> DEFINE q == wires[s][c]
           f == Head(q)
<1>0. Steps' = Steps /\ Steps \subseteq Nat /\ step \in Steps /\ log \in Seq(AnyFrame)
  BY DEF Steps, TypeInv, TypeOK
<1>1. UNCHANGED <<step, main, queue, answered>> /\ q # <<>> /\ q \in Seq(AnyFrame)
  BY WireOf DEF Breaks, Lands, queueVars
<1>2. /\ f \in AnyFrame /\ f.step = s /\ (IsStart(f) => HasStart(q))
  <2>1. OfStep(q, s)
    BY DEF EndInv, WireInv
  <2> HIDE DEF q
  <2> QED
    BY <1>1, <2>1, TailFrame, StartFrames
<1>3. PICK r \in Seq(AnyFrame) :
          /\ wires' = [wires EXCEPT ![s][c] = r]
          /\ StartsFirst(q) => StartsFirst(r)
          /\ HasStart(r) => HasStart(q)
          /\ \/ log' = log
             \/ log' = Append(log, f) /\ (StartsFirst(q) => ~HasStart(r))
  <2>1. CASE Breaks(s, c)
    <3>1. PICK n \in 0..(Len(q) - 1) : wires' = [wires EXCEPT ![s][c] = SubSeq(@, 1, n)]
      BY <2>1 DEF Breaks
    <3> DEFINE t == SubSeq(q, 1, n)
    <3>2. wires' = [wires EXCEPT ![s][c] = t] /\ log' = log
      BY <2>1, <3>1 DEF Breaks
    <3>3. /\ t \in Seq(AnyFrame) /\ (StartsFirst(q) => StartsFirst(t))
          /\ HasStart(t) => HasStart(q)
      <4> HIDE DEF q
      <4> QED
        BY <1>1, CutFrame, StartFrames
    <3> HIDE DEF q, t
    <3> QED
      BY <3>2, <3>3
  <2>2. CASE Lands(s, c)
    <3> DEFINE t == Tail(q)
    <3>1. wires' = [wires EXCEPT ![s][c] = t] /\ log' = Append(log, f)
      BY <2>2 DEF Lands
    <3>2. /\ t \in Seq(AnyFrame) /\ (StartsFirst(q) => ~HasStart(t) /\ StartsFirst(t))
          /\ HasStart(t) => HasStart(q)
      <4> HIDE DEF q
      <4> QED
        BY <1>1, TailFrame, StartFrames DEF StartsFirst, HasStart
    <3> HIDE DEF q, t, f
    <3> QED
      BY <3>1, <3>2
  <2> QED
    BY <2>1, <2>2
<1>4. /\ \A t \in Steps : t # s => wires'[t] = wires[t]
      /\ Len(wires'[s]) = Len(wires[s]) /\ DOMAIN wires'[s] = DOMAIN wires[s]
      /\ wires'[s][c] = r
      /\ \A d \in DOMAIN wires[s] : d # c => wires'[s][d] = wires[s][d]
  BY <1>3, WireSet
<1>5. ~ToCome(s) /\ ~Stored(s) /\ ~WiresEmpty(s)
  BY <1>1 DEF EndInv, FreshInv, AllHeard, HeardInv, Quiet, WiresEmpty
<1> DEFINE n == Len(log) + 1
<1>6. \/ log' = log
      \/ /\ DOMAIN log' = DOMAIN log \cup {n} /\ log'[n] = f /\ n \notin DOMAIN log
         /\ \A i \in DOMAIN log : log'[i] = log[i] /\ i < n
  <2> DEFINE F == AnyFrame
  <2> HIDE DEF F, q, f
  <2>1. /\ DOMAIN Append(log, f) = 1..n /\ Append(log, f)[n] = f /\ DOMAIN log = 1..Len(log)
        /\ Len(log) \in Nat /\ \A i \in 1..Len(log) : Append(log, f)[i] = log[i]
    BY <1>0, <1>2 DEF F
  <2>2. /\ 1..n = DOMAIN log \cup {n} /\ n \notin DOMAIN log
        /\ \A i \in DOMAIN log : i < n
    BY <2>1
  <2>3. log' = log \/ log' = Append(log, f)
    BY <1>3
  <2> HIDE DEF n
  <2>4. CASE log' = Append(log, f)
    BY <2>1, <2>2, <2>4
  <2> QED
    BY <2>3, <2>4
<1>7. n \in Nat /\ \A i \in DOMAIN log : i \in Nat
  BY <1>0
<1> HIDE DEF n, q, f
<1>8. HeardInv(s)'
  <2>1. (OneWire(s)' <=> OneWire(s)) /\ ~ToCome(s)' /\ ~Stored(s)'
    BY <1>1, <1>4, <1>5 DEF OneWire, ToCome, Stored
  <2>2. ASSUME OneWire(s) PROVE AheadInv(s)'
    <3>1. /\ StartsFirst(q) /\ (HasStart(q) => NoneLanded(s))
          /\ s = step => StartsFirst(queue) /\ ~HasStart(queue)
          /\ \A i, j \in DOMAIN log :
                log[i].step = s /\ log[j].step = s /\ IsStart(log[j]) => j <= i
      BY <1>5, <2>2 DEF AllHeard, HeardInv, AheadInv, q
    <3>2. \A d \in DOMAIN wires[s] : d = c
      BY <2>2, OnlyWire
    <3>3. StartsFirst(r) /\ (HasStart(r) => NoneLanded(s)')
      BY <1>3, <3>1 DEF NoneLanded
    <3>4. \A d \in DOMAIN wires'[s] :
            StartsFirst(wires'[s][d]) /\ (HasStart(wires'[s][d]) => NoneLanded(s)')
      BY <1>4, <3>2, <3>3
    <3>5. ASSUME NEW i \in DOMAIN log', NEW j \in DOMAIN log',
                 log'[i].step = s, log'[j].step = s, IsStart(log'[j])
          PROVE  j <= i
      <4>1. CASE log' = log
        BY <3>1, <3>5, <4>1
      <4>2. CASE log' # log
        <5>1. CASE j = n
          <6>1. NoneLanded(s)
            BY <1>2, <1>6, <3>1, <3>5, <4>2, <5>1
          <6> QED
            BY <1>6, <1>7, <3>5, <4>2, <5>1, <6>1 DEF NoneLanded
        <5>2. CASE j # n
          BY <1>6, <1>7, <3>1, <3>5, <4>2, <5>2
        <5> QED
          BY <5>1, <5>2
      <4> QED
        BY <4>1, <4>2
    <3> QED
      BY <1>1, <3>1, <3>4, <3>5 DEF AheadInv, StartsFirst, HasStart, IsStart
  <2> QED
    BY <2>1, <2>2 DEF HeardInv
<1>9. ASSUME NEW t \in Steps, t # s PROVE HeardInv(t)'
  <2>0. HeardInv(t)
    BY DEF AllHeard
  <2>1. CASE log' = log
    BY <1>1, <1>4, <1>9, <2>0, <2>1, HeardApart
  <2>2. CASE log' # log
    <3>0. wires'[t] = wires[t] /\ t \in Nat /\ s \in Nat
      BY <1>0, <1>4, <1>9
    <3>1. /\ NoneLanded(t)' <=> NoneLanded(t)
          /\ Stored(t)' <=> Stored(t)
          /\ OneWire(t)' <=> OneWire(t)
          /\ ToCome(t)' <=> ToCome(t)
          /\ Quiet(t)' <=> Quiet(t)
      BY <1>1, <1>2, <1>6, <1>9, <2>2, <3>0 DEF NoneLanded, Stored, OneWire, ToCome, Quiet, WiresEmpty
    <3>2. OrderInv(t) => OrderInv(t)'
      <4> SUFFICES ASSUME OrderInv(t), NEW i \in DOMAIN log', NEW j \in DOMAIN log',
                          log'[j].step = t, log'[i].step > t
                   PROVE  j < i
        BY DEF OrderInv
      <4>1. j # n /\ j \in DOMAIN log /\ log[j].step = t
        BY <1>2, <1>6, <1>9, <2>2
      <4>2. CASE i = n
        BY <1>6, <2>2, <4>1, <4>2
      <4>3. CASE i # n
        BY <1>6, <2>2, <4>1, <4>3 DEF OrderInv
      <4> QED
        BY <4>2, <4>3
    <3>3. AheadInv(t) => AheadInv(t)'
      <4> SUFFICES ASSUME AheadInv(t) PROVE AheadInv(t)'
        OBVIOUS
      <4>1. \A d \in DOMAIN wires'[t] :
               StartsFirst(wires'[t][d]) /\ (HasStart(wires'[t][d]) => NoneLanded(t)')
        BY <3>0, <3>1 DEF AheadInv
      <4>2. t = step => StartsFirst(queue) /\ (HasStart(queue) => NoneLanded(t)' /\ WiresEmpty(t)')
        BY <3>0, <3>1 DEF AheadInv, WiresEmpty
      <4>3. ASSUME NEW i \in DOMAIN log', NEW j \in DOMAIN log',
                   log'[i].step = t, log'[j].step = t, IsStart(log'[j])
            PROVE  j <= i
        <5>1. i \in DOMAIN log /\ j \in DOMAIN log
          BY <1>2, <1>6, <1>9, <2>2, <4>3
        <5> QED
          BY <1>6, <2>2, <4>3, <5>1 DEF AheadInv
      <4> QED
        BY <1>1, <4>1, <4>2, <4>3 DEF AheadInv, StartsFirst, HasStart, IsStart
    <3> QED
      BY <2>0, <3>1, <3>2, <3>3 DEF HeardInv
  <2> QED
    BY <2>1, <2>2
<1> QED
  BY <1>0, <1>8, <1>9 DEF AllHeard

LEMMA StepHeard ==
    TypeInv /\ EndInv /\ ClosedLate /\ AllHeard /\ [Next]_stepVars => ClosedLate' /\ AllHeard'
<1> SUFFICES ASSUME TypeInv, EndInv, ClosedLate, AllHeard, [Next]_stepVars
             PROVE  ClosedLate' /\ AllHeard'
  OBVIOUS
<1>1. ClosedLate'
  BY StepClosed
<1>2. CASE NetStep
  BY <1>1, <1>2, NetHeard DEF NetStep
<1>3. CASE SenderStep
  BY <1>1, <1>3, SenderHeard
<1>4. CASE BeginExec \/ BeginSend
  BY <1>1, <1>4, BeginHeard
<1>5. CASE NextStep
  BY <1>1, <1>5, NextHeard
<1>6. CASE \/ ChildFails \/ ChildStarts \/ MarksEnd \/ ClosesQueue \/ Returns \/ Killed
           \/ PumpStep \/ (\E c \in Codes : ChildExits(c)) \/ JobOver \/ UNCHANGED stepVars
  BY <1>1, <1>6, ProcessHeard
<1> QED
  BY <1>1, <1>2, <1>3, <1>4, <1>5, <1>6 DEF Next, MainStep

LEMMA HeardInvariant == Spec => [](ClosedLate /\ AllHeard)
<1>1. Init => ClosedLate
  BY DEF Init, ClosedLate
<1> QED
  BY <1>1, StepInvariants, InitHeard, StepHeard, PTL DEF Spec

\* The frame of a settled step follows the start of another settled one only if
\* its own start is in between.
LEMMA SameStep ==
    ASSUME TypeInv, AllHeard, NEW a \in DOMAIN log, NEW b \in DOMAIN log, NEW i \in DOMAIN log,
           a <= i, IsStart(log[a]), IsStart(log[b]), log[b].step = log[i].step,
           Settled(log[a].step), Settled(log[i].step), b <= i => b <= a
    PROVE  log[i].step = log[a].step
<1> DEFINE u == log[a].step
           s == log[i].step
<1>0. /\ a \in Nat /\ b \in Nat /\ i \in Nat
      /\ u \in Steps /\ s \in Steps /\ u \in Nat /\ s \in Nat /\ step \in Nat
  <2>1. \A j \in DOMAIN log : log[j] \in AnyFrame /\ j \in Nat
    BY DEF TypeInv, TypeOK
  <2>2. \A f \in AnyFrame : f.step \in Steps
    BY DEF AnyFrame
  <2>3. step \in Steps /\ Steps \subseteq Nat
    BY DEF TypeInv, TypeOK, Steps
  <2> QED
    BY <2>1, <2>2, <2>3
<1>1. HeardInv(s) /\ HeardInv(u)
  BY <1>0 DEF AllHeard
<1>2. u <= step /\ s <= step
  BY <1>0, <1>1 DEF HeardInv, ToCome, NoneLanded
<1>3. b <= a
  <2>1. AheadInv(s)
    BY <1>1 DEF HeardInv, Settled
  <2> QED
    BY <2>1 DEF AheadInv
<1>4. ~(s < u)
  <2> SUFFICES ASSUME s < u PROVE FALSE
    OBVIOUS
  <2>1. OrderInv(s)
    BY <1>0, <1>1, <1>2 DEF HeardInv, Settled, Stored
  <2> QED
    BY <1>0, <2>1 DEF OrderInv
<1>5. ~(u < s)
  <2> SUFFICES ASSUME u < s PROVE FALSE
    OBVIOUS
  <2>1. OrderInv(u)
    BY <1>0, <1>1, <1>2 DEF HeardInv, Settled, Stored
  <2> QED
    BY <1>0, <1>3, <2>1 DEF OrderInv
<1> QED
  BY <1>0, <1>4, <1>5

-----------------------------------------------------------------------------
\* Counting the start markers.
LEMMA CountStarts ==
    ASSUME NEW i \in Nat
    PROVE  /\ IsFiniteSet(StartsUpto(i)) /\ Cardinality(StartsUpto(i)) \in Nat
           /\ \A j \in Nat : j <= i => Cardinality(StartsUpto(j)) <= Cardinality(StartsUpto(i))
           /\ \A j \in Nat : j < i /\ IsStart(log[i])
                               => Cardinality(StartsUpto(j)) < Cardinality(StartsUpto(i))
<1>1. \A k \in Nat : IsFiniteSet(StartsUpto(k)) /\ Cardinality(StartsUpto(k)) \in Nat
  <2> SUFFICES ASSUME NEW k \in Nat
               PROVE  IsFiniteSet(StartsUpto(k)) /\ Cardinality(StartsUpto(k)) \in Nat
    OBVIOUS
  <2>1. IsFiniteSet(1..k) /\ StartsUpto(k) \subseteq 1..k
    BY FS_Interval DEF StartsUpto
  <2> QED
    BY <2>1, FS_Subset, FS_CardinalityType
<1>2. ASSUME NEW j \in Nat, j <= i
      PROVE  Cardinality(StartsUpto(j)) <= Cardinality(StartsUpto(i))
  <2>1. StartsUpto(j) \subseteq StartsUpto(i)
    BY <1>2 DEF StartsUpto
  <2> QED
    BY <1>1, <2>1, FS_Subset
<1>3. ASSUME NEW j \in Nat, j < i, IsStart(log[i])
      PROVE  Cardinality(StartsUpto(j)) < Cardinality(StartsUpto(i))
  <2>1. i \in StartsUpto(i) /\ i \notin StartsUpto(j) /\ StartsUpto(j) \subseteq StartsUpto(i)
    BY <1>3 DEF StartsUpto
  <2> DEFINE S == StartsUpto(i)
             T == StartsUpto(j)
  <2> HIDE DEF S, T
  <2>2. IsFiniteSet(S) /\ Cardinality(S) \in Nat /\ T \subseteq S \ {i} /\ i \in S
    BY <1>1, <2>1 DEF S, T
  <2>3. IsFiniteSet(S \ {i}) /\ Cardinality(S \ {i}) = Cardinality(S) - 1
    BY <2>2, FS_RemoveElement
  <2>4. Cardinality(T) <= Cardinality(S) - 1 /\ Cardinality(T) \in Nat
    <3> DEFINE R == S \ {i}
    <3>1. IsFiniteSet(R) /\ T \subseteq R /\ Cardinality(R) = Cardinality(S) - 1
      BY <2>2, <2>3
    <3> HIDE DEF R
    <3>2. IsFiniteSet(T) /\ Cardinality(T) <= Cardinality(R)
      BY <3>1, FS_Subset
    <3> QED
      BY <3>1, <3>2, FS_CardinalityType
  <2> QED
    BY <2>2, <2>4 DEF S, T
<1> QED
  BY <1>1, <1>2, <1>3

\* One frame more.
LEMMA NextStart ==
    ASSUME NEW i \in Nat
    PROVE  Cardinality(StartsUpto(i + 1)) =
             IF IsStart(log[i + 1]) THEN Cardinality(StartsUpto(i)) + 1
                                    ELSE Cardinality(StartsUpto(i))
<1>0. 1..(i + 1) = 1..i \cup {i + 1} /\ i + 1 \notin 1..i
  OBVIOUS
<1>1. CASE IsStart(log[i + 1])
  <2>1. StartsUpto(i + 1) = StartsUpto(i) \cup {i + 1} /\ i + 1 \notin StartsUpto(i)
    BY <1>0, <1>1 DEF StartsUpto
  <2>2. IsFiniteSet(StartsUpto(i)) /\ Cardinality(StartsUpto(i)) \in Nat
    BY CountStarts
  <2> DEFINE S == StartsUpto(i)
             T == StartsUpto(i + 1)
             x == i + 1
  <2>3. IsFiniteSet(S) /\ x \notin S /\ T = S \cup {x}
    BY <2>1, <2>2
  <2> HIDE DEF S, T, x
  <2>4. Cardinality(T) = Cardinality(S) + 1
    BY <2>3, FS_AddElement
  <2> QED
    BY <1>1, <2>4 DEF S, T
<1>2. CASE ~IsStart(log[i + 1])
  <2>1. StartsUpto(i + 1) = StartsUpto(i)
    BY <1>0, <1>2 DEF StartsUpto
  <2> QED
    BY <1>2, <2>1
<1> QED
  BY <1>1, <1>2

\* The section that a frame is in begins at the last start up to it.
LEMMA OpenerIs ==
    ASSUME TypeInv, NEW i \in DOMAIN log, Cardinality(StartsUpto(i)) # 0
    PROVE  LET a == Opener(Cardinality(StartsUpto(i)))
           IN /\ a \in DOMAIN log /\ a <= i /\ IsStart(log[a])
              /\ \A b \in DOMAIN log : IsStart(log[b]) /\ b <= i => b <= a
<1> DEFINE n == Cardinality(StartsUpto(i))
           a == Opener(n)
           m == Max(StartsUpto(i))
<1>0. DOMAIN log \subseteq Nat /\ DOMAIN log = 1..Len(log) /\ Len(log) \in Nat /\ i \in Nat
  BY DEF TypeInv, TypeOK
<1>1. StartsUpto(i) \subseteq 1..i /\ StartsUpto(i) # {}
  <2>1. Cardinality({}) = 0
    BY FS_EmptySet
  <2> QED
    BY <2>1 DEF StartsUpto
<1>2. m \in StartsUpto(i) /\ \A j \in StartsUpto(i) : j <= m
  BY <1>0, <1>1, MaxIs
<1>3. m \in DOMAIN log /\ m <= i /\ IsStart(log[m])
  BY <1>0, <1>2 DEF StartsUpto
<1>4. StartsUpto(m) = StartsUpto(i)
  <2> HIDE DEF m
  <2> QED
    BY <1>0, <1>2, <1>3 DEF StartsUpto
<1>5. a \in DOMAIN log /\ IsStart(log[a]) /\ Cardinality(StartsUpto(a)) = n
  <2> HIDE DEF m
  <2>1. \E x \in DOMAIN log : IsStart(log[x]) /\ Cardinality(StartsUpto(x)) = n
    BY <1>3, <1>4
  <2> QED
    BY <2>1, Zenon DEF Opener
<1> HIDE DEF a
<1>6. a <= i
  <2> SUFFICES ASSUME i < a PROVE FALSE
    BY <1>0, <1>5
  <2>1. a \in Nat /\ n \in Nat
    BY <1>0, <1>5, CountStarts
  <2>2. n < Cardinality(StartsUpto(a))
    BY <1>0, <1>5, <2>1, CountStarts
  <2> HIDE DEF n
  <2> QED
    BY <1>5, <2>1, <2>2
<1>7. ASSUME NEW b \in DOMAIN log, IsStart(log[b]), b <= i PROVE b <= a
  <2> SUFFICES ASSUME a < b PROVE FALSE
    BY <1>0, <1>5
  <2>1. Cardinality(StartsUpto(a)) < Cardinality(StartsUpto(b))
    BY <1>0, <1>5, <1>7, CountStarts
  <2>2. Cardinality(StartsUpto(b)) <= n /\ Cardinality(StartsUpto(b)) \in Nat /\ n \in Nat
    BY <1>0, <1>7, CountStarts
  <2> HIDE DEF n
  <2> QED
    BY <1>5, <2>1, <2>2
<1> QED
  BY <1>5, <1>6, <1>7 DEF a

-----------------------------------------------------------------------------
\* The lines of a log of whole frames: one of each.
LineOf(i) ==
    Reader!Line(log[i].stream, Cardinality(Reader!Earlier(log, i)) + 1, 1, TRUE, log[i].event)

IsWhole(f) == f.ends = 1 /\ f.rest = FALSE
AllWhole   == \A i \in DOMAIN log : IsWhole(log[i])

LogLines ==
    [stream : Streams \cup {Marker}, number : Nat, pieces : Nat, whole : BOOLEAN,
     event : {"text", "step_start", "step_end"}]

LEMMA ReaderSums ==
    ASSUME NEW f, NEW S
    PROVE  Reader!SumFunctionOnSet(f, S) = SumFunctionOnSet(f, S)
  BY Zenon DEF Reader!SumFunctionOnSet, Reader!FoldFunctionOnSet, Reader!MapThenFoldSet,
               SumFunctionOnSet, FoldFunctionOnSet, MapThenFoldSet

LEMMA ReaderFlattens ==
    ASSUME NEW ss
    PROVE  Reader!FlattenSeq(ss) = FlattenSeq(ss)
  BY Zenon DEF Reader!FlattenSeq, FlattenSeq

LEMMA ReaderCounts ==
    ASSUME NEW S
    PROVE  Reader!Cardinality(S) = Cardinality(S)
  BY Zenon DEF Reader!Cardinality, Cardinality

LEMMA EarlierFinite ==
    ASSUME NEW i \in Nat
    PROVE  /\ IsFiniteSet(Reader!Earlier(log, i))
           /\ Cardinality(Reader!Earlier(log, i)) \in Nat
<1>1. IsFiniteSet(1..(i - 1)) /\ Reader!Earlier(log, i) \subseteq 1..(i - 1)
  BY FS_Interval DEF Reader!Earlier
<1> QED
  BY <1>1, FS_Subset, FS_CardinalityType

LEMMA WholeIs ==
    ASSUME TypeInv, AllWhole, NEW i \in DOMAIN log
    PROVE  Reader!Whole(log, i) = << LineOf(i) >> /\ LineOf(i) \in LogLines
<1> DEFINE E == Reader!Earlier(log, i)
           g == [j \in DOMAIN log |-> log[j].ends]
<1>0. /\ DOMAIN log = 1..Len(log) /\ Len(log) \in Nat /\ i \in Nat
      /\ log[i].stream \in Streams \cup {Marker}
      /\ log[i].event \in {"text", "step_start", "step_end"}
  <2>1. log[i] \in AnyFrame
    BY DEF TypeInv, TypeOK
  <2>2. DOMAIN log = 1..Len(log) /\ Len(log) \in Nat /\ i \in Nat
    BY DEF TypeInv, TypeOK
  <2> QED
    BY <2>1, <2>2 DEF AnyFrame
<1>1. IsFiniteSet(E) /\ Cardinality(E) \in Nat
  BY <1>0, EarlierFinite
<1>2. \A j \in E : g[j] = 1
  BY <1>0 DEF Reader!Earlier, AllWhole, IsWhole
<1>3. Reader!Ended(log, i) = Cardinality(E)
  <2> HIDE DEF E, g
  <2>1. SumFunctionOnSet(g, E) = Cardinality(E) * 1
    BY <1>1, <1>2, SumConstant
  <2>2. Reader!Ended(log, i) = SumFunctionOnSet(g, E)
    BY ReaderSums, Zenon DEF Reader!Ended, g, E
  <2> QED
    BY <1>1, <2>1, <2>2
<1>4. Cardinality(Reader!Opened(log, i)) = 0
  <2>1. Reader!Opened(log, i) = {}
    BY <1>0 DEF Reader!Opened, Reader!Earlier, AllWhole, IsWhole
  <2> QED
    BY <2>1, FS_EmptySet
<1>5. log[i].ends = 1
  BY DEF AllWhole, IsWhole
<1> DEFINE x == LineOf(i)
           w == Reader!Whole(log, i)
<1>6. w = [k \in 1..1 |->
              Reader!Line(log[i].stream, Cardinality(E) + k, IF k = 1 THEN 1 ELSE 1, TRUE, log[i].event)]
  <2>1. Reader!Cardinality(Reader!Opened(log, i)) + 1 = 1
    BY <1>4, ReaderCounts
  <2> HIDE DEF E
  <2> QED
    BY <1>3, <1>5, <2>1 DEF Reader!Whole
<1> HIDE DEF E
<1>7. DOMAIN w = 1..1 /\ w[1] = x
  BY <1>6 DEF LineOf, E
<1>8. w = [k \in 1..1 |-> x]
  BY <1>6 DEF LineOf, E
<1>9. x \in LogLines
  BY <1>0, <1>1 DEF LineOf, Reader!Line, LogLines, E
<1> HIDE DEF w, x
<1>10. w = <<x>>
  BY <1>8
<1> QED
  BY <1>9, <1>10 DEF w, x

LEMMA LinesApart ==
    ASSUME TypeInv, NEW i \in DOMAIN log, NEW j \in DOMAIN log, LineOf(i) = LineOf(j)
    PROVE  i = j
<1>0. DOMAIN log = 1..Len(log) /\ Len(log) \in Nat
  BY DEF TypeInv, TypeOK
<1>1. /\ log[i].stream = log[j].stream
      /\ Cardinality(Reader!Earlier(log, i)) + 1 = Cardinality(Reader!Earlier(log, j)) + 1
  BY DEF LineOf, Reader!Line
<1>2. ASSUME NEW a \in DOMAIN log, NEW b \in DOMAIN log, a < b, log[a].stream = log[b].stream
      PROVE  Cardinality(Reader!Earlier(log, a)) < Cardinality(Reader!Earlier(log, b))
  <2> DEFINE S == Reader!Earlier(log, a)
             T == Reader!Earlier(log, b)
             R == T \ {a}
  <2>1. a \in T /\ S \subseteq R
    BY <1>0, <1>2 DEF Reader!Earlier
  <2>2. IsFiniteSet(T) /\ Cardinality(T) \in Nat
    BY <1>0, EarlierFinite
  <2> HIDE DEF S, T
  <2>3. IsFiniteSet(R) /\ Cardinality(R) = Cardinality(T) - 1
    BY <2>1, <2>2, FS_RemoveElement
  <2> HIDE DEF R
  <2>4. Cardinality(S) <= Cardinality(R) /\ Cardinality(S) \in Nat
    BY <2>1, <2>3, FS_Subset, FS_CardinalityType
  <2> QED
    BY <2>2, <2>3, <2>4 DEF S, T
<1>3. /\ Cardinality(Reader!Earlier(log, i)) = Cardinality(Reader!Earlier(log, j))
      /\ Cardinality(Reader!Earlier(log, i)) \in Nat
  BY <1>0, <1>1, EarlierFinite
<1>4. ~(i < j) /\ ~(j < i)
  BY <1>1, <1>2, <1>3
<1> QED
  BY <1>0, <1>4

LEMMA OriginIs ==
    ASSUME TypeInv, AllWhole, NEW i \in DOMAIN log
    PROVE  Origin(LineOf(i)) = log[i].step
<1> DEFINE from(j) == log[j].stream = LineOf(i).stream
                      /\ LineOf(i) \in {Reader!Whole(log, j)[k] : k \in 1..log[j].ends}
<1>1. ASSUME NEW j \in DOMAIN log
      PROVE  {Reader!Whole(log, j)[k] : k \in 1..log[j].ends} = {LineOf(j)}
  <2>1. Reader!Whole(log, j) = << LineOf(j) >> /\ log[j].ends = 1
    BY WholeIs DEF AllWhole, IsWhole
  <2> DEFINE w == Reader!Whole(log, j)
  <2>2. w[1] = LineOf(j)
    BY <2>1
  <2> HIDE DEF w
  <2>3. {w[k] : k \in 1..log[j].ends} = {w[1]}
    BY <2>1
  <2> QED
    BY <2>2, <2>3 DEF w
<1>2. from(i)
  BY <1>1 DEF LineOf, Reader!Line
<1>3. ASSUME NEW j \in DOMAIN log, from(j) PROVE j = i
  BY <1>1, <1>3, LinesApart
<1> DEFINE c == CHOOSE j \in DOMAIN log : from(j)
<1>4. c = i
  <2>1. c \in DOMAIN log /\ from(c)
    BY <1>2, Zenon
  <2> HIDE DEF from, c
  <2> QED
    BY <1>3, <2>1
<1> QED
  BY <1>4, Zenon DEF Origin

\* One line for each frame, in their order.
LEMMA LinesAre ==
    ASSUME TypeInv, AllWhole
    PROVE  Lines = [i \in 1..Len(log) |-> LineOf(i)] /\ Lines \in Seq(LogLines)
<1> DEFINE n == Len(log)
           ss == [i \in 1..n |-> Reader!Whole(log, i)]
           f == [i \in 0..n |-> [j \in 1..i |-> LineOf(j)]]
           none == <<>>
<1>0. DOMAIN log = 1..n /\ n \in Nat
  BY DEF TypeInv, TypeOK
<1>1. \A i \in 1..n : Reader!Whole(log, i) = << LineOf(i) >> /\ LineOf(i) \in LogLines
  BY <1>0, WholeIs
<1> HIDE DEF n
<1>2. ss \in Seq(Seq(LogLines)) /\ Len(ss) = n /\ \A i \in 1..n : ss[i] = << LineOf(i) >>
  <2>1. \A i \in 1..n : Reader!Whole(log, i) \in Seq(LogLines)
    <3> SUFFICES ASSUME NEW i \in 1..n PROVE Reader!Whole(log, i) \in Seq(LogLines)
      OBVIOUS
    <3> DEFINE x == LineOf(i)
    <3>1. x \in LogLines /\ Reader!Whole(log, i) = <<x>>
      BY <1>1
    <3> HIDE DEF x
    <3> QED
      BY <3>1
  <2>2. ss \in Seq(Seq(LogLines)) /\ Len(ss) = n /\ \A i \in 1..n : ss[i] = Reader!Whole(log, i)
    <3> DEFINE S == Seq(LogLines)
    <3>1. \A i \in 1..n : Reader!Whole(log, i) \in S
      BY <2>1
    <3> HIDE DEF S
    <3> QED
      BY <1>0, <3>1 DEF S
  <2> HIDE DEF ss
  <2> QED
    BY <1>1, <2>2, Zenon
<1>3. \A i \in 0..n : [j \in 1..i |-> LineOf(j)] \in Seq(LogLines)
  BY <1>0, <1>1
<1>4. Joins(f, ss, LogLines)
  <2>1. f \in [0..n -> Seq(LogLines)]
    BY <1>3
  <2>2. f[0] = none
    <3>1. f[0] = [j \in 1..0 |-> LineOf(j)]
      BY <1>0
    <3> QED
      BY <3>1
  <2>3. ASSUME NEW i \in 1..n PROVE f[i] = f[i - 1] \o ss[i]
    <3> DEFINE a == [j \in 1..(i - 1) |-> LineOf(j)]
               b == [j \in 1..i |-> LineOf(j)]
               x == LineOf(i)
    <3>1. /\ a \in Seq(LogLines) /\ Len(a) = i - 1 /\ b \in Seq(LogLines) /\ Len(b) = i
          /\ \A j \in 1..(i - 1) : a[j] = LineOf(j) /\ b[j] = LineOf(j)
          /\ b[i] = x /\ x \in LogLines /\ i \in Nat
      BY <1>0, <1>1, <1>3
    <3>2. f[i] = b /\ f[i - 1] = a /\ ss[i] = <<x>>
      BY <1>0, <1>2
    <3> HIDE DEF a, b, x, f, ss
    <3>3. b = a \o <<x>>
      <4> DEFINE c == a \o <<x>>
      <4>1. /\ c \in Seq(LogLines) /\ Len(c) = i /\ c[i] = x
            /\ \A j \in 1..(i - 1) : c[j] = a[j]
        BY <3>1
      <4> HIDE DEF c
      <4>2. \A j \in 1..i : b[j] = c[j]
        BY <3>1, <4>1
      <4> QED
        BY <3>1, <4>1, <4>2 DEF c
    <3> QED
      BY <3>2, <3>3, Zenon
  <2> HIDE DEF f, ss
  <2> QED
    BY <1>2, <2>1, <2>2, <2>3, Zenon DEF Joins, none
<1>5. Reader!WholeLines(log) = [j \in 1..n |-> LineOf(j)]
  <2>1. Reader!WholeLines(log) = FlattenSeq(ss)
    BY <1>0, ReaderFlattens, Zenon DEF Reader!WholeLines
  <2>2. f[n] = [j \in 1..n |-> LineOf(j)]
    BY <1>0
  <2> HIDE DEF f, ss
  <2>3. FlattenSeq(ss) = f[n]
    BY <1>2, <1>4, FlattenJoins, Zenon
  <2> QED
    BY <2>1, <2>2, <2>3, Zenon
<1>6. Reader!Unfinished(log) = none
  <2>1. Reader!Open(log) = {}
    BY DEF Reader!Open, AllWhole, IsWhole
  <2>2. Reader!Cardinality(Reader!Open(log)) = 0
    BY <2>1, ReaderCounts, FS_EmptySet
  <2> DEFINE at(k) == CHOOSE i \in Reader!Open(log) :
                          Reader!Cardinality({j \in Reader!Open(log) : log[j].stream < log[i].stream}) = k - 1
  <2>3. Reader!Unfinished(log) = [k \in 1..0 |-> Reader!Part(log, at(k))]
    BY <2>2, Zenon DEF Reader!Unfinished
  <2> HIDE DEF at
  <2> QED
    BY <2>3 DEF none
<1>7. [j \in 1..n |-> LineOf(j)] \in Seq(LogLines)
  BY <1>0, <1>3
<1> DEFINE w == [j \in 1..n |-> LineOf(j)]
<1> HIDE DEF w
<1>8. w \o none = w
  BY <1>7, ConcatNothing DEF w, none
<1>9. Lines = w
  BY <1>5, <1>6, <1>8, Zenon DEF Lines, Reader!Fetch, w
<1> QED
  BY <1>7, <1>9 DEF w, n

-----------------------------------------------------------------------------
\* The grouping, line by line.

Sections == [lines : Seq(LogLines), ended : BOOLEAN]

Groupings ==
    {acc \in [steps : Seq(Sections), preamble : Seq(LogLines), current : BOOLEAN] :
        acc.current => Len(acc.steps) # 0}

NoGroups == [steps |-> <<>>, preamble |-> <<>>, current |-> FALSE]

LEMMA NoGroupsIn == NoGroups \in Groupings
  BY DEF NoGroups, Groupings

LEMMA SectionChanges ==
    ASSUME NEW old \in Sections, NEW line \in LogLines
    PROVE  /\ [old EXCEPT !.ended = TRUE] \in Sections
           /\ [old EXCEPT !.ended = TRUE].lines = old.lines
           /\ [old EXCEPT !.lines = Append(@, line)] \in Sections
           /\ [old EXCEPT !.lines = Append(@, line)].lines = Append(old.lines, line)
<1>1. old.lines \in Seq(LogLines) /\ Append(old.lines, line) \in Seq(LogLines)
  BY DEF Sections
<1> QED
  BY <1>1 DEF Sections

\* What a line does to the steps and to the preamble.
LEMMA GroupLineIs ==
    ASSUME NEW a \in Groupings, NEW line \in LogLines
    PROVE  LET n == Len(a.steps)
               b == Reader!GroupLine(a, line)
           IN /\ b \in Groupings
              /\ line.event = "step_start" =>
                    /\ b.steps = Append(a.steps, [lines |-> <<>>, ended |-> FALSE])
                    /\ b.preamble = a.preamble /\ b.current
              /\ line.event = "step_end" =>
                    /\ Len(b.steps) = n /\ \A k \in 1..n : b.steps[k].lines = a.steps[k].lines
                    /\ b.preamble = a.preamble /\ ~b.current
              /\ line.event = "text" /\ a.current =>
                    /\ Len(b.steps) = n /\ \A k \in 1..(n - 1) : b.steps[k].lines = a.steps[k].lines
                    /\ b.steps[n].lines = Append(a.steps[n].lines, line)
                    /\ b.preamble = a.preamble /\ b.current
              /\ line.event = "text" /\ ~a.current =>
                    /\ b.steps = a.steps /\ ~b.current
                    /\ b.preamble = Append(a.preamble, line)
<1> DEFINE n == Len(a.steps)
           b == Reader!GroupLine(a, line)
<1>0. a \in [steps : Seq(Sections), preamble : Seq(LogLines), current : BOOLEAN]
  BY DEF Groupings
<1>a. a = [steps |-> a.steps, preamble |-> a.preamble, current |-> a.current]
  BY <1>0
<1>b. a.steps \in Seq(Sections) /\ a.preamble \in Seq(LogLines) /\ a.current \in BOOLEAN
  BY <1>0
<1>c. n \in Nat /\ (a.current => n # 0)
  BY <1>b DEF Groupings
<1>d. \A k \in 1..n : a.steps[k] \in Sections /\ a.steps[k].lines \in Seq(LogLines)
  <2> DEFINE steps == a.steps
  <2>1. \A sec \in Sections : sec.lines \in Seq(LogLines)
    BY DEF Sections
  <2>2. steps \in Seq(Sections)
    BY <1>b
  <2> HIDE DEF steps
  <2>3. \A k \in 1..Len(steps) : steps[k] \in Sections
    BY <2>2
  <2> QED
    BY <2>1, <2>3 DEF steps
<1>1. /\ a = [steps |-> a.steps, preamble |-> a.preamble, current |-> a.current]
      /\ a.steps \in Seq(Sections) /\ n \in Nat /\ (a.current => n # 0)
      /\ a.preamble \in Seq(LogLines) /\ a.current \in BOOLEAN
      /\ \A k \in 1..n : /\ a.steps[k] \in Sections
                         /\ a.steps[k].lines \in Seq(LogLines)
  BY <1>a, <1>b, <1>c, <1>d, Zenon
<1>2. line.event \in {"text", "step_start", "step_end"}
  BY DEF LogLines
<1>3. CASE line.event = "step_start"
  <2> DEFINE new == [lines |-> <<>>, ended |-> FALSE]
             more == Append(a.steps, new)
  <2>1. b = [a EXCEPT !.steps = more, !.current = TRUE]
    BY <1>3 DEF Reader!GroupLine
  <2>2. new \in Sections
    BY DEF Sections
  <2> HIDE DEF new
  <2>3. more \in Seq(Sections) /\ Len(more) # 0
    BY <1>1, <2>2
  <2> HIDE DEF more, b
  <2>4. b = [steps |-> more, preamble |-> a.preamble, current |-> TRUE]
    BY <1>1, <2>1
  <2>5. b \in Groupings
    BY <1>1, <2>3, <2>4 DEF Groupings
  <2> QED
    BY <1>3, <2>4, <2>5 DEF b, more, new
<1>4. CASE line.event = "step_end"
  <2>1. b = Reader!EndStep(a)
    BY <1>4 DEF Reader!GroupLine
  <2>2. CASE a.current
    <3> DEFINE last == [a.steps[n] EXCEPT !.ended = TRUE]
               more == [a.steps EXCEPT ![n] = last]
    <3>1. b = [a EXCEPT !.steps = more, !.current = FALSE]
      BY <1>1, <2>1, <2>2 DEF Reader!EndStep
    <3>a. n \in 1..n /\ a.steps[n] \in Sections
      BY <1>1, <2>2
    <3>2. n \in 1..n /\ last \in Sections /\ last.lines = a.steps[n].lines
      BY <3>a, SectionChanges, Zenon
    <3> HIDE DEF last
    <3>3. /\ more \in Seq(Sections) /\ Len(more) = n
          /\ \A k \in 1..n : more[k] = IF k = n THEN last ELSE a.steps[k]
      BY <1>1, <3>2
    <3> HIDE DEF more, b
    <3>4. b = [steps |-> more, preamble |-> a.preamble, current |-> FALSE]
      BY <1>1, <3>1
    <3>5. b \in Groupings
      BY <1>1, <3>3, <3>4 DEF Groupings
    <3>6. /\ Len(b.steps) = n /\ b.preamble = a.preamble /\ ~b.current
          /\ \A k \in 1..n : b.steps[k].lines = a.steps[k].lines
      BY <3>2, <3>3, <3>4
    <3> QED
      BY <1>4, <3>5, <3>6 DEF b
  <2>3. CASE ~a.current
    <3>1. b = a
      BY <2>1, <2>3 DEF Reader!EndStep
    <3> HIDE DEF b
    <3> QED
      BY <1>4, <2>3, <3>1 DEF b
  <2> QED
    BY <2>2, <2>3
<1>5. CASE line.event = "text" /\ a.current
  <2> DEFINE last == [a.steps[n] EXCEPT !.lines = Append(@, line)]
             more == [a.steps EXCEPT ![n] = last]
  <2>1. b = [a EXCEPT !.steps = more]
    BY <1>1, <1>5 DEF Reader!GroupLine
  <2>a. n \in 1..n /\ a.steps[n] \in Sections
    BY <1>1, <1>5
  <2>2. n \in 1..n /\ last \in Sections /\ last.lines = Append(a.steps[n].lines, line)
    BY <2>a, SectionChanges
  <2> HIDE DEF last
  <2>3. /\ more \in Seq(Sections) /\ Len(more) = n
        /\ \A k \in 1..n : more[k] = IF k = n THEN last ELSE a.steps[k]
    BY <1>1, <2>2
  <2> HIDE DEF more, b
  <2>4. b = [steps |-> more, preamble |-> a.preamble, current |-> a.current]
    BY <1>1, <2>1
  <2>5. b \in Groupings
    BY <1>1, <2>3, <2>4 DEF Groupings
  <2>b. b.steps = more /\ b.preamble = a.preamble /\ b.current
    BY <1>5, <2>4
  <2>c. \A k \in 1..(n - 1) : more[k] = a.steps[k]
    BY <1>1, <2>3
  <2>d. more[n] = last
    BY <2>2, <2>3
  <2>6. /\ Len(b.steps) = n /\ b.preamble = a.preamble /\ b.current
        /\ \A k \in 1..(n - 1) : b.steps[k].lines = a.steps[k].lines
        /\ b.steps[n].lines = Append(a.steps[n].lines, line)
    BY <2>2, <2>3, <2>b, <2>c, <2>d, Zenon
  <2> QED
    BY <1>5, <2>5, <2>6 DEF b
<1>6. CASE line.event = "text" /\ ~a.current
  <2> DEFINE more == Append(a.preamble, line)
  <2>1. b = [a EXCEPT !.preamble = more]
    BY <1>6 DEF Reader!GroupLine
  <2>2. more \in Seq(LogLines)
    BY <1>1
  <2> HIDE DEF more, b
  <2>3. b = [steps |-> a.steps, preamble |-> more, current |-> a.current]
    BY <1>1, <2>1
  <2>4. b \in Groupings
    BY <1>1, <2>2, <2>3 DEF Groupings
  <2> QED
    BY <1>6, <2>3, <2>4 DEF b, more
<1> QED
  BY <1>2, <1>3, <1>4, <1>5, <1>6

\* Reader!GroupLine as a function.
Grouping == [p \in Groupings \X LogLines |-> Reader!GroupLine(p[1], p[2])]

LEMMA GroupingIs ==
    /\ Grouping \in [Groupings \X LogLines -> Groupings]
    /\ \A a \in Groupings, line \in LogLines : Grouping[<<a, line>>] = Reader!GroupLine(a, line)
<1>1. \A p \in Groupings \X LogLines : Reader!GroupLine(p[1], p[2]) \in Groupings
  BY GroupLineIs
<1> QED
  BY <1>1 DEF Grouping

\* What Reader!GroupSteps computes by.
GroupPart(g, lines, s) ==
    IF s = {} THEN NoGroups ELSE Reader!GroupLine(g[s \ {Max(s)}], lines[Max(s)])

IsGrouping(g, lines) ==
    g = [s \in SUBSET (DOMAIN lines) |-> GroupPart(g, lines, s)]

LEMMA GroupByRecursion ==
    ASSUME NEW lines
    PROVE  Reader!GroupSteps(lines) = (CHOOSE g : IsGrouping(g, lines))[DOMAIN lines]
  BY Zenon DEF Reader!GroupSteps, Reader!FoldLeft, Reader!MapThenFoldSet, Reader!Max, Max,
               IsGrouping, GroupPart, NoGroups

\* What Reader!GroupSteps makes after each line.
GroupsBy(t, lines) == Traces(t, Grouping, NoGroups, lines, Groupings)

LEMMA GroupTrace ==
    ASSUME NEW lines \in Seq(LogLines)
    PROVE  \E t : GroupsBy(t, lines) /\ Reader!GroupSteps(lines) = t[Len(lines)]
<1> DEFINE K == Grouping
           D == SUBSET (DOMAIN lines)
<1>0. /\ K \in [Groupings \X LogLines -> Groupings]
      /\ \A b \in Groupings, line \in LogLines : K[<<b, line>>] = Reader!GroupLine(b, line)
  BY GroupingIs, Zenon
<1> HIDE DEF K
<1>1. \E g : FoldsBy(g, K, NoGroups, lines, Groupings)
  BY <1>0, NoGroupsIn, FoldsByExists
<1>2. ASSUME NEW g, FoldsBy(g, K, NoGroups, lines, Groupings) PROVE IsGrouping(g, lines)
  <2>1. ASSUME NEW s \in D PROVE g[s] = GroupPart(g, lines, s)
    <3>1. CASE s = {}
      BY <1>2, <3>1, Zenon DEF FoldsBy, GroupPart
    <3>2. CASE s # {}
      <4>1. lines[Max(s)] \in LogLines /\ s \ {Max(s)} \in D
        BY <3>2, ElementOfMax
      <4>2. g[s \ {Max(s)}] \in Groupings
        BY <1>2, <4>1 DEF FoldsBy
      <4>3. g[s] = K[<<g[s \ {Max(s)}], lines[Max(s)]>>]
        BY <1>2, <3>2, Zenon DEF FoldsBy
      <4>4. g[s] = Reader!GroupLine(g[s \ {Max(s)}], lines[Max(s)])
        BY <1>0, <4>1, <4>2, <4>3, Zenon
      <4> QED
        BY <3>2, <4>4, Zenon DEF GroupPart
    <3> QED
      BY <3>1, <3>2
  <2>2. g \in [D -> Groupings]
    BY <1>2 DEF FoldsBy
  <2>3. g = [s \in D |-> g[s]]
    BY <2>2
  <2>4. g = [s \in D |-> GroupPart(g, lines, s)]
    BY <2>1, <2>3, Zenon
  <2> QED
    BY <2>4, Zenon DEF IsGrouping
<1> DEFINE h == CHOOSE g : IsGrouping(g, lines)
<1>3. IsGrouping(h, lines)
  BY <1>1, <1>2, Zenon
<1>4. Reader!GroupSteps(lines) = h[DOMAIN lines]
  BY GroupByRecursion, Zenon
<1> HIDE DEF h
<1>5. \A s \in D : h[s] = GroupPart(h, lines, s)
  BY <1>3 DEF IsGrouping
<1> DEFINE n == Len(lines)
           t == [i \in 0..n |-> h[1..i]]
           F == {i \in Nat : i <= n => t[i] \in Groupings}
<1>6. n \in Nat /\ DOMAIN lines = 1..n /\ \A i \in 1..n : lines[i] \in LogLines
  OBVIOUS
<1>7. t[0] = NoGroups
  <2>1. 1..0 = {} /\ {} \in D /\ t[0] = h[1..0]
    BY <1>6
  <2> QED
    BY <1>5, <2>1, Zenon DEF GroupPart
<1>8. ASSUME NEW i \in 1..n PROVE t[i] = Reader!GroupLine(t[i - 1], lines[i])
  <2>1. Max(1..i) = i /\ (1..i) \ {i} = 1..(i - 1) /\ 1..i # {} /\ 1..i \in D
    BY <1>6, MaxOfInterval
  <2>2. t[i] = h[1..i] /\ t[i - 1] = h[1..(i - 1)]
    BY <1>6
  <2> QED
    BY <1>5, <2>1, <2>2, Zenon DEF GroupPart
<1>9. t[n] = h[DOMAIN lines] /\ t = [i \in 0..n |-> t[i]]
  BY <1>6
<1> HIDE DEF t, n
<1>10. 0 \in F
  BY <1>7, NoGroupsIn
<1>11. ASSUME NEW i \in Nat, i \in F PROVE i + 1 \in F
  <2> SUFFICES ASSUME i + 1 <= n PROVE t[i + 1] \in Groupings
    OBVIOUS
  <2>1. i + 1 \in 1..n /\ (i + 1) - 1 = i /\ t[i] \in Groupings /\ lines[i + 1] \in LogLines
    BY <1>6, <1>11
  <2>2. t[i + 1] = Reader!GroupLine(t[i], lines[i + 1])
    BY <1>8, <2>1, Zenon
  <2> QED
    BY <2>1, <2>2, GroupLineIs
<1> HIDE DEF F
<1>12. \A i \in Nat : i \in F
  BY <1>10, <1>11, NatInduct
<1>13. \A i \in 0..n : t[i] \in Groupings
  BY <1>6, <1>12 DEF F
<1>14. t \in [0..n -> Groupings]
  BY <1>9, <1>13
<1>15. ASSUME NEW i \in 1..n PROVE t[i] = K[<<t[i - 1], lines[i]>>]
  <2>1. t[i - 1] \in Groupings /\ lines[i] \in LogLines
    BY <1>6, <1>13
  <2> QED
    BY <1>0, <1>8, <2>1, Zenon
<1>16. GroupsBy(t, lines)
  BY <1>7, <1>14, <1>15, Zenon DEF GroupsBy, Traces, K, n
<1> QED
  BY <1>4, <1>9, <1>16, Zenon DEF n

LEMMA GroupIn ==
    ASSUME NEW lines \in Seq(LogLines)
    PROVE  Reader!GroupSteps(lines) \in Groupings
<1>1. PICK t : GroupsBy(t, lines) /\ Reader!GroupSteps(lines) = t[Len(lines)]
  BY GroupTrace
<1> QED
  BY <1>1, TraceIn DEF GroupsBy

\* A section holds the lines of the frames between its marker and the next: those
\* up to which there are as many markers as sections up to it.
SectionOf(acc, k, i) ==
    \A j \in DOMAIN acc.steps[k].lines : \E m \in 1..i :
        acc.steps[k].lines[j] = LineOf(m) /\ Cardinality(StartsUpto(m)) = k

Split(acc, i) ==
    /\ Len(acc.steps) = Cardinality(StartsUpto(i))
    /\ \A k \in 1..Len(acc.steps) : SectionOf(acc, k, i)

LEMMA SplitOn ==
    ASSUME TypeInv, AllWhole, NEW i \in Nat, i + 1 \in DOMAIN log,
           NEW a \in Groupings, Split(a, i)
    PROVE  Split(Reader!GroupLine(a, LineOf(i + 1)), i + 1)
<1> DEFINE line == LineOf(i + 1)
           b == Reader!GroupLine(a, line)
           n == Len(a.steps)
<1>0. line \in LogLines /\ line.event = log[i + 1].event
  BY WholeIs DEF LineOf, Reader!Line
<1>1. line.event \in {"text", "step_start", "step_end"}
  BY <1>0 DEF LogLines
<1>2. a.steps \in Seq(Sections) /\ n \in Nat
  BY DEF Groupings
<1>3. n = Cardinality(StartsUpto(i)) /\ \A k \in 1..n : SectionOf(a, k, i)
  BY DEF Split
<1>4. Cardinality(StartsUpto(i + 1)) = IF line.event = "step_start" THEN n + 1 ELSE n
  BY <1>0, <1>3, NextStart DEF IsStart
<1>5. \A k \in 1..n : b.steps[k].lines = a.steps[k].lines => SectionOf(b, k, i + 1)
  BY <1>3 DEF SectionOf
<1>6. CASE line.event = "step_start"
  <2> DEFINE new == [lines |-> <<>>, ended |-> FALSE]
  <2>1. b.steps = Append(a.steps, new)
    BY <1>0, <1>6, GroupLineIs
  <2>2. new \in Sections /\ DOMAIN new.lines = {}
    BY DEF Sections
  <2> HIDE DEF new, b
  <2>3. /\ Len(b.steps) = n + 1 /\ b.steps[n + 1] = new
        /\ \A k \in 1..n : b.steps[k] = a.steps[k]
    BY <1>2, <2>1, <2>2
  <2>4. SectionOf(b, n + 1, i + 1)
    BY <2>2, <2>3 DEF SectionOf
  <2>5. \A k \in 1..n : SectionOf(b, k, i + 1)
    BY <1>5, <2>3
  <2>6. \A k \in 1..(n + 1) : k = n + 1 \/ k \in 1..n
    BY <1>2
  <2> HIDE DEF n, line
  <2>7. \A k \in 1..(n + 1) : SectionOf(b, k, i + 1)
    BY <2>4, <2>5, <2>6
  <2> QED
    BY <1>4, <1>6, <2>3, <2>7 DEF Split, b, line
<1>7. CASE line.event = "text" /\ a.current
  <2>1. /\ Len(b.steps) = n /\ \A k \in 1..(n - 1) : b.steps[k].lines = a.steps[k].lines
        /\ b.steps[n].lines = Append(a.steps[n].lines, line)
    BY <1>0, <1>7, GroupLineIs
  <2>2. n # 0 /\ a.steps[n].lines \in Seq(LogLines)
    <3>1. n # 0
      BY <1>7 DEF Groupings
    <3>2. a.steps[n] \in Sections
      BY <1>2, <3>1
    <3> QED
      BY <3>1, <3>2 DEF Sections
  <2>3. SectionOf(b, n, i + 1)
    <3> DEFINE q == a.steps[n].lines
               r == b.steps[n].lines
    <3>1. r = Append(q, line) /\ q \in Seq(LogLines) /\ line \in LogLines
      BY <1>0, <2>1, <2>2
    <3> HIDE DEF q, r, line
    <3>2. \A j \in DOMAIN r : (j \in DOMAIN q /\ r[j] = q[j]) \/ r[j] = line
      BY <3>1
    <3>3. ASSUME NEW j \in DOMAIN q
          PROVE  \E m \in 1..(i + 1) : q[j] = LineOf(m) /\ Cardinality(StartsUpto(m)) = n
      <4>1. SectionOf(a, n, i)
        BY <1>2, <1>3, <2>2
      <4>2. PICK m \in 1..i : q[j] = LineOf(m) /\ Cardinality(StartsUpto(m)) = n
        BY <4>1 DEF SectionOf, q
      <4> QED
        BY <4>2
    <3>4. \E m \in 1..(i + 1) : line = LineOf(m) /\ Cardinality(StartsUpto(m)) = n
      <4>1. i + 1 \in 1..(i + 1) /\ Cardinality(StartsUpto(i + 1)) = n
        BY <1>4, <1>7
      <4> QED
        BY <4>1, Zenon DEF line
    <3> HIDE DEF n, b
    <3> QED
      BY <3>2, <3>3, <3>4 DEF SectionOf, r
  <2>4. \A k \in 1..n : k = n \/ k \in 1..(n - 1)
    BY <1>2
  <2>5. \A k \in 1..(n - 1) : SectionOf(b, k, i + 1)
    BY <1>2, <1>5, <2>1
  <2> HIDE DEF n, line, b
  <2>6. \A k \in 1..n : SectionOf(b, k, i + 1)
    BY <2>3, <2>4, <2>5
  <2> QED
    BY <1>4, <1>7, <2>1, <2>6 DEF Split, b, line
<1>8. CASE line.event = "step_end" \/ (line.event = "text" /\ ~a.current)
  <2>1. Len(b.steps) = n /\ \A k \in 1..n : b.steps[k].lines = a.steps[k].lines
    BY <1>0, <1>8, GroupLineIs
  <2> HIDE DEF n, line, b
  <2>2. \A k \in 1..n : SectionOf(b, k, i + 1)
    BY <1>5, <2>1
  <2> QED
    BY <1>4, <1>8, <2>1, <2>2 DEF Split, b, line
<1> QED
  BY <1>1, <1>6, <1>7, <1>8

LEMMA GroupsSplit ==
    ASSUME TypeInv, AllWhole
    PROVE  Split(Grouped, Len(log))
<1> DEFINE n == Len(log)
<1>0. DOMAIN log = 1..n /\ n \in Nat
  BY DEF TypeInv, TypeOK
<1>1. /\ Lines \in Seq(LogLines) /\ Len(Lines) = n
      /\ \A i \in 1..n : Lines[i] = LineOf(i)
  BY <1>0, LinesAre
<1>2. PICK t : GroupsBy(t, Lines) /\ Reader!GroupSteps(Lines) = t[Len(Lines)]
  BY <1>1, GroupTrace
<1>3. /\ t \in [0..n -> Groupings] /\ t[0] = NoGroups
      /\ \A i \in 1..n : t[i] = Grouping[<<t[i - 1], Lines[i]>>]
  BY <1>1, <1>2, Zenon DEF GroupsBy, Traces
<1> HIDE DEF n
<1> DEFINE F == {i \in Nat : i <= n => Split(t[i], i)}
<1>4. 0 \in F
  <2>1. StartsUpto(0) = {} /\ Len(NoGroups.steps) = 0
    BY DEF StartsUpto, NoGroups
  <2>2. Cardinality(StartsUpto(0)) = 0
    BY <2>1, FS_EmptySet
  <2>3. Split(NoGroups, 0)
    BY <2>1, <2>2 DEF Split
  <2> QED
    BY <1>3, <2>3
<1>5. ASSUME NEW i \in Nat, i \in F PROVE i + 1 \in F
  <2> SUFFICES ASSUME i + 1 <= n PROVE Split(t[i + 1], i + 1)
    OBVIOUS
  <2>1. /\ i + 1 \in 1..n /\ i + 1 \in DOMAIN log /\ (i + 1) - 1 = i
        /\ t[i] \in Groupings /\ Split(t[i], i)
    BY <1>0, <1>3, <1>5
  <2>2. t[i + 1] = Grouping[<<t[i], LineOf(i + 1)>>]
    BY <1>1, <1>3, <2>1, Zenon
  <2>3. LineOf(i + 1) \in LogLines
    BY <2>1, WholeIs
  <2>4. t[i + 1] = Reader!GroupLine(t[i], LineOf(i + 1))
    BY <2>1, <2>2, <2>3, GroupingIs, Zenon
  <2> QED
    BY <2>1, <2>4, SplitOn
<1> HIDE DEF F
<1>6. n \in F
  BY <1>0, <1>4, <1>5, NatInduct
<1>7. Split(t[n], n)
  BY <1>0, <1>6 DEF F
<1> QED
  BY <1>1, <1>2, <1>7, Zenon DEF Grouped, n

\* While output has come in whole lines, no section of a settled step holds a line
\* of another whose start is in the log, whatever was killed, failed to start, was
\* skipped or was lost around them.
THEOREM SectionsAreTheSteps == Spec => []SectionsHoldTheirStep
<1>1. TypeInv /\ AllHeard => SectionsHoldTheirStep
  <2> SUFFICES ASSUME TypeInv, AllHeard, WholeSoFar,
                      NEW k \in DOMAIN Grouped.steps, NEW j \in DOMAIN Grouped.steps[k].lines,
                      Settled(Origin(Grouped.steps[k].lines[j])),
                      StartLanded(Origin(Grouped.steps[k].lines[j])),
                      Settled(log[Opener(k)].step)
               PROVE  Origin(Grouped.steps[k].lines[j]) = log[Opener(k)].step
    BY DEF SectionsHoldTheirStep
  <2>0. DOMAIN log = 1..Len(log) /\ Len(log) \in Nat
    BY DEF TypeInv, TypeOK
  <2>1. AllWhole
    <3>1. \A i \in DOMAIN log : log[i] \in AnyFrame
      BY DEF TypeInv, TypeOK
    <3> QED
      BY <3>1 DEF WholeSoFar, AllWhole, IsWhole, AnyFrame
  <2>2. Grouped \in Groupings
    BY <2>1, LinesAre, GroupIn DEF Grouped
  <2>3. k \in 1..Len(Grouped.steps)
    BY <2>2 DEF Groupings
  <2>4. PICK i \in 1..Len(log) :
           Grouped.steps[k].lines[j] = LineOf(i) /\ Cardinality(StartsUpto(i)) = k
    BY <2>1, <2>3, GroupsSplit DEF Split, SectionOf
  <2>5. Origin(Grouped.steps[k].lines[j]) = log[i].step /\ i \in DOMAIN log
    BY <2>0, <2>1, <2>4, OriginIs
  <2> DEFINE a == Opener(k)
  <2>6. /\ a \in DOMAIN log /\ a <= i /\ IsStart(log[a])
        /\ \A b \in DOMAIN log : IsStart(log[b]) /\ b <= i => b <= a
    BY <2>3, <2>4, <2>5, OpenerIs
  <2>7. PICK b \in DOMAIN log : IsStart(log[b]) /\ log[b].step = log[i].step
    BY <2>5 DEF StartLanded
  <2> HIDE DEF a
  <2>8. Settled(log[a].step) /\ Settled(log[i].step)
    BY <2>5 DEF a
  <2>9. log[i].step = log[a].step
    BY <2>5, <2>6, <2>7, <2>8, SameStep
  <2> QED
    BY <2>5, <2>9 DEF a
<1> QED
  BY <1>1, StepInvariants, HeardInvariant, PTL
=============================================================================
