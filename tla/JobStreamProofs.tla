-------------------------- MODULE JobStreamProofs --------------------------
(***************************************************************************)
(* Proofs about JobStream, for every number of steps, connections, frames  *)
(* and faults, every frame length, with and without a cap, disk errors and *)
(* a named stream: the types (Inv1), what each connection carries (Inv2),  *)
(* what the log holds of it (Inv3) and what an answered close says (Inv4); *)
(* then the refinement of Delivery, what a first step without faults       *)
(* leaves behind, what a cap and a failing disk leave of a connection, and *)
(* what Delivery promises by itself, for any set of frames.                *)
(***************************************************************************)
EXTENDS JobStream, Delivery, FiniteSetTheorems, TLAPS

InIteration == pc \in {"dial", "dialling", "hello", "write"}

\* What makes the type invariant inductive: the variables that name a frame or
\* a connection hold one wherever the code uses them.
FrameTaken == InIteration => frame \in 1..pushed /\ frame <= popped + 1
ConnHeld ==
    /\ pc \in {"write", "finish", "await"} => conn # 0
    /\ pc = "hello" => dials # 0
    /\ pc \in {"dial", "dialling", "hello"} => conn = 0
ReachBounded ==
    \A c \in Conns : rcvd[c] <= reach[c] /\ reach[c] <= Len(sent[c])

Inv1 == TypeOK /\ FrameTaken /\ ConnHeld /\ ReachBounded

USE LinkAssumption, ServerAssumption, SenderAssumption
DEF LinkAssumption, ServerAssumption, SenderAssumption, Conns, Frames

LEMMA UvarintNat == \A n \in Nat : UvarintLen(n) \in Nat
BY DEF UvarintLen

LEMMA InitInv1 == Init => Inv1
<1> SUFFICES ASSUME Init PROVE Inv1
  OBVIOUS
<1>1. LinkTypeOK /\ ReachBounded
  BY DEF Init, LinkInit, LinkTypeOK, ReachBounded, NoHello
<1>2. ServerTypeOK
  BY DEF Init, ServerInit, ServerTypeOK
<1>3. SenderTypeOK
  <2>1. step \in 1..NumSteps
    BY DEF Init, SenderInit
  <2>2. owner \in [Conns -> 0..NumSteps]
    BY DEF Init, SenderInit
  <2>3. pushed \in 0..NumFrames /\ popped \in 0..pushed /\ frame \in 0..NumFrames
    BY DEF Init, SenderInit
  <2>4. conn \in 0..dials /\ dials \in 0..MaxConns
    BY DEF Init, SenderInit
  <2> QED
    BY <2>1, <2>2, <2>3, <2>4 DEF Init, SenderInit, SenderTypeOK
<1>4. FrameTaken /\ ConnHeld
  BY DEF Init, SenderInit, FrameTaken, InIteration, ConnHeld
<1> QED
  BY <1>1, <1>2, <1>3, <1>4 DEF Inv1, TypeOK

\* At a write, the frame and the connection are there.
LEMMA AtWrite ==
    ASSUME Inv1, pc = "write"
    PROVE  frame \in Frames /\ conn \in Conns
BY DEF Inv1, TypeOK, SenderTypeOK, FrameTaken, InIteration, ConnHeld

LEMMA TransmitType ==
    ASSUME Inv1, NEW c \in Conns, NEW f \in Frames, Transmit(c, f)
    PROVE  /\ sent' \in [Conns -> Seq(Frames)]
           /\ reach' \in [Conns -> Nat]
           /\ \A d \in Conns : sent'[d] = IF d = c THEN Append(sent[d], f) ELSE sent[d]
           /\ \A d \in Conns : reach'[d] = IF d = c THEN reach[d] + 1 ELSE reach[d]
<1>1. /\ sent' = [sent EXCEPT ![c] = Append(@, f)]
      /\ reach' = [reach EXCEPT ![c] = @ + 1]
  BY DEF Transmit
<1>2. sent \in [Conns -> Seq(Frames)] /\ reach \in [Conns -> Nat]
  BY DEF Inv1, TypeOK, LinkTypeOK
<1> QED
  BY <1>1, <1>2

LEMMA TransmitBounded ==
    ASSUME Inv1, NEW c \in Conns, NEW f \in Frames, Transmit(c, f), rcvd' = rcvd
    PROVE  ReachBounded'
<1> SUFFICES ASSUME NEW d \in Conns
             PROVE  rcvd'[d] <= reach'[d] /\ reach'[d] <= Len(sent'[d])
  BY DEF ReachBounded
<1>1. rcvd[d] \in Nat /\ reach[d] \in Nat /\ sent[d] \in Seq(Frames)
  BY DEF Inv1, TypeOK, LinkTypeOK
<1>2. rcvd[d] <= reach[d] /\ reach[d] <= Len(sent[d])
  BY DEF Inv1, ReachBounded
<1>3. CASE d = c
  <2>1. sent'[d] = Append(sent[d], f) /\ reach'[d] = reach[d] + 1
    BY <1>3, TransmitType
  <2> QED
    BY <1>1, <1>2, <2>1
<1>4. CASE d # c
  <2>1. sent'[d] = sent[d] /\ reach'[d] = reach[d]
    BY <1>4, TransmitType
  <2> QED
    BY <1>1, <1>2, <2>1
<1> QED
  BY <1>3, <1>4

LEMMA LengthsNat ==
    \A f \in Frames : BodyLen[f] \in Nat /\ RecordLen(f) \in Nat /\ DiskLen(f) \in Nat
<1> TAKE f \in Frames
<1>1. BodyLen[f] \in Nat
  OBVIOUS
<1>2. UvarintLen(BodyLen[f]) \in Nat
  BY <1>1, UvarintNat
<1> QED
  BY <1>1, <1>2 DEF RecordLen, DiskLen

\* The element after the first a of a sequence that has more.
LEMMA NextInSeq ==
    ASSUME NEW S, NEW q \in Seq(S), NEW a \in Nat, NEW b \in Nat, a < b, b <= Len(q)
    PROVE  a + 1 \in DOMAIN q /\ q[a + 1] \in S
<1>1. a + 1 \in 1..Len(q)
  OBVIOUS
<1> QED
  BY <1>1

\* A frame that has arrived is one that was sent, and it has a length.
LEMMA AtArrival ==
    ASSUME Inv1, NEW c \in Conns, Arrived(c)
    PROVE  /\ rcvd[c] + 1 \in DOMAIN sent[c]
           /\ NextFrame(c) \in Frames
           /\ BodyLen[NextFrame(c)] \in Nat
           /\ DiskLen(NextFrame(c)) \in Nat
           /\ Stream(c) \in Streams
<1>1. rcvd[c] + 1 \in DOMAIN sent[c] /\ NextFrame(c) \in Frames
  <2>1. rcvd[c] \in Nat /\ reach[c] \in Nat /\ sent[c] \in Seq(Frames)
    BY DEF Inv1, TypeOK, LinkTypeOK
  <2>2. reach[c] <= Len(sent[c])
    BY DEF Inv1, ReachBounded
  <2>3. rcvd[c] < reach[c]
    BY DEF Arrived
  <2>4. rcvd[c] + 1 \in DOMAIN sent[c] /\ sent[c][rcvd[c] + 1] \in Frames
    BY <2>1, <2>2, <2>3, NextInSeq
  <2> QED
    BY <2>4 DEF NextFrame
<1> QED
  BY <1>1, LengthsNat DEF Streams

LEMMA StreamOfConn == \A c \in Conns : Stream(c) \in Streams
BY DEF Streams

LEMMA RunInv1 ==
    ASSUME Inv1, RunStep, UNCHANGED serverVars
    PROVE  Inv1'
<1> USE DEF Inv1, TypeOK
<1>0. ServerTypeOK'
  BY DEF ServerTypeOK, serverVars
<1>1. CASE RunRetired
  <2>1. LinkTypeOK'
    BY <1>1 DEF RunRetired, linkVars, LinkTypeOK
  <2>2. SenderTypeOK'
    BY <1>1 DEF RunRetired, linkVars, SenderTypeOK
  <2>3. FrameTaken'
    BY <1>1 DEF RunRetired, linkVars, FrameTaken, InIteration
  <2>4. ConnHeld'
    BY <1>1 DEF RunRetired, linkVars, ConnHeld, SenderTypeOK
  <2>5. ReachBounded'
    BY <1>1 DEF RunRetired, linkVars, ReachBounded
  <2> QED
    BY <1>0, <2>1, <2>2, <2>3, <2>4, <2>5
<1>2. CASE TakeHead
  <2>1. LinkTypeOK'
    BY <1>2 DEF TakeHead, linkVars, Empty, LinkTypeOK
  <2>2. SenderTypeOK'
    BY <1>2 DEF TakeHead, linkVars, Empty, SenderTypeOK
  <2>3. FrameTaken'
    BY <1>2 DEF TakeHead, linkVars, Empty, FrameTaken, InIteration, SenderTypeOK
  <2>4. ConnHeld'
    BY <1>2 DEF TakeHead, linkVars, Empty, ConnHeld, SenderTypeOK
  <2>5. ReachBounded'
    BY <1>2 DEF TakeHead, linkVars, Empty, ReachBounded
  <2> QED
    BY <1>0, <2>1, <2>2, <2>3, <2>4, <2>5
<1>3. CASE QueueDrained
  <2>1. LinkTypeOK'
    BY <1>3 DEF QueueDrained, linkVars, LinkTypeOK
  <2>2. SenderTypeOK'
    BY <1>3 DEF QueueDrained, linkVars, SenderTypeOK
  <2>3. FrameTaken'
    BY <1>3 DEF QueueDrained, linkVars, FrameTaken, InIteration
  <2>4. ConnHeld'
    BY <1>3 DEF QueueDrained, linkVars, ConnHeld, SenderTypeOK
  <2>5. ReachBounded'
    BY <1>3 DEF QueueDrained, linkVars, ReachBounded
  <2> QED
    BY <1>0, <2>1, <2>2, <2>3, <2>4, <2>5
<1>4. CASE DialRetired
  <2>1. LinkTypeOK'
    BY <1>4 DEF DialRetired, linkVars, LinkTypeOK
  <2>2. SenderTypeOK'
    BY <1>4 DEF DialRetired, linkVars, SenderTypeOK
  <2>3. FrameTaken'
    BY <1>4 DEF DialRetired, linkVars, FrameTaken, InIteration
  <2>4. ConnHeld'
    BY <1>4 DEF DialRetired, linkVars, ConnHeld, SenderTypeOK
  <2>5. ReachBounded'
    BY <1>4 DEF DialRetired, linkVars, ReachBounded
  <2> QED
    BY <1>0, <2>1, <2>2, <2>3, <2>4, <2>5
<1>5. CASE DialBegins
  <2>1. LinkTypeOK'
    BY <1>5 DEF DialBegins, linkVars, LinkTypeOK
  <2>2. SenderTypeOK'
    BY <1>5 DEF DialBegins, linkVars, SenderTypeOK
  <2>3. FrameTaken'
    BY <1>5 DEF DialBegins, linkVars, FrameTaken, InIteration
  <2>4. ConnHeld'
    BY <1>5 DEF DialBegins, linkVars, ConnHeld, SenderTypeOK
  <2>5. ReachBounded'
    BY <1>5 DEF DialBegins, linkVars, ReachBounded
  <2> QED
    BY <1>0, <2>1, <2>2, <2>3, <2>4, <2>5
<1>6. CASE DialFails
  <2>1. LinkTypeOK'
    BY <1>6 DEF DialFails, linkVars, LinkTypeOK
  <2>2. SenderTypeOK'
    BY <1>6 DEF DialFails, linkVars, SenderTypeOK
  <2>3. FrameTaken'
    BY <1>6 DEF DialFails, linkVars, FrameTaken, InIteration
  <2>4. ConnHeld'
    BY <1>6 DEF DialFails, linkVars, ConnHeld, SenderTypeOK
  <2>5. ReachBounded'
    BY <1>6 DEF DialFails, linkVars, ReachBounded
  <2> QED
    BY <1>0, <2>1, <2>2, <2>3, <2>4, <2>5
<1>7. CASE HelloRead
  <2>1. LinkTypeOK'
    BY <1>7 DEF HelloRead, linkVars, LinkTypeOK
  <2>2. SenderTypeOK'
    <3>1. dials \in Conns /\ hello[dials] \in Nat
      BY <1>7 DEF HelloRead, SenderTypeOK, ConnHeld, LinkTypeOK, NoHello
    <3>2. popped' \in 0..pushed'
      BY <1>7 DEF HelloRead, SenderTypeOK, Pop, Empty
    <3> QED
      BY <1>7, <3>1, <3>2 DEF HelloRead, SenderTypeOK
  <2>3. FrameTaken'
    BY <1>7 DEF HelloRead, Pop, Empty, FrameTaken, InIteration, SenderTypeOK
  <2>4. ConnHeld'
    BY <1>7 DEF HelloRead, ConnHeld, SenderTypeOK
  <2>5. ReachBounded'
    BY <1>7 DEF HelloRead, linkVars, ReachBounded
  <2> QED
    BY <1>0, <2>1, <2>2, <2>3, <2>4, <2>5
<1>8. CASE WriteOk
  <2>1. frame \in Frames /\ conn \in Conns /\ Transmit(conn, frame)
    BY <1>8, AtWrite DEF WriteOk
  <2>2. LinkTypeOK'
    BY <1>8, <2>1, TransmitType DEF WriteOk, LinkTypeOK
  <2>3. SenderTypeOK'
    <3>1. popped' \in 0..pushed'
      BY <1>8 DEF WriteOk, SenderTypeOK, Pop, Empty
    <3>2. RecordLen(frame) \in Nat
      BY <2>1, LengthsNat
    <3> QED
      BY <1>8, <3>1, <3>2 DEF WriteOk, SenderTypeOK
  <2>4. FrameTaken' /\ ConnHeld'
    BY <1>8 DEF WriteOk, FrameTaken, InIteration, ConnHeld
  <2>5. ReachBounded'
    <3>1. rcvd' = rcvd
      BY <1>8 DEF WriteOk
    <3> QED
      BY <2>1, <3>1, TransmitBounded
  <2> QED
    BY <1>0, <2>2, <2>3, <2>4, <2>5
<1>9. CASE WriteFails
  <2>1. frame \in Frames /\ conn \in Conns
    BY <1>9, AtWrite DEF WriteFails
  <2>2. UNCHANGED <<sent, reach>> \/ Transmit(conn, frame)
    BY <1>9 DEF WriteFails
  <2>3. sent' \in [Conns -> Seq(Frames)] /\ reach' \in [Conns -> Nat]
    BY <2>1, <2>2, TransmitType DEF LinkTypeOK
  <2>4. LinkTypeOK'
    <3>1. link' \in [Conns -> {"idle", "up", "shut", "down"}]
      BY <1>9 DEF WriteFails, Shut, LinkTypeOK
    <3>2. faults' \in 0..MaxFaults
      BY <1>9 DEF WriteFails, Fault, LinkTypeOK
    <3> QED
      BY <1>9, <2>3, <3>1, <3>2 DEF WriteFails, LinkTypeOK
  <2>5. SenderTypeOK' /\ FrameTaken' /\ ConnHeld'
    BY <1>9 DEF WriteFails, SenderTypeOK, FrameTaken, InIteration, ConnHeld
  <2>6. ReachBounded'
    <3>1. rcvd' = rcvd
      BY <1>9 DEF WriteFails
    <3>2. CASE UNCHANGED <<sent, reach>>
      BY <3>1, <3>2 DEF ReachBounded
    <3>3. CASE Transmit(conn, frame)
      BY <2>1, <3>1, <3>3, TransmitBounded
    <3> QED
      BY <2>2, <3>2, <3>3
  <2> QED
    BY <1>0, <2>4, <2>5, <2>6
<1>10. CASE FinishCloses
  <2>1. LinkTypeOK'
    BY <1>10 DEF FinishCloses, LinkTypeOK, ConnHeld, SenderTypeOK
  <2>2. SenderTypeOK'
    BY <1>10 DEF FinishCloses, SenderTypeOK
  <2>3. FrameTaken'
    BY <1>10 DEF FinishCloses, FrameTaken, InIteration
  <2>4. ConnHeld'
    BY <1>10 DEF FinishCloses, ConnHeld, SenderTypeOK
  <2>5. ReachBounded'
    BY <1>10 DEF FinishCloses, ReachBounded
  <2> QED
    BY <1>0, <2>1, <2>2, <2>3, <2>4, <2>5
<1>11. CASE Confirmed
  <2>1. LinkTypeOK'
    BY <1>11 DEF Confirmed, AwaitEnds, Shut, LinkTypeOK, ConnHeld, SenderTypeOK
  <2>2. SenderTypeOK'
    BY <1>11 DEF Confirmed, AwaitEnds, Shut, SenderTypeOK, ConnHeld
  <2>3. FrameTaken'
    BY <1>11 DEF Confirmed, AwaitEnds, Shut, FrameTaken, InIteration
  <2>4. ConnHeld'
    BY <1>11 DEF Confirmed, AwaitEnds, Shut, ConnHeld, SenderTypeOK
  <2>5. ReachBounded'
    BY <1>11 DEF Confirmed, AwaitEnds, Shut, ReachBounded
  <2> QED
    BY <1>0, <2>1, <2>2, <2>3, <2>4, <2>5
<1>12. CASE Unconfirmed
  <2>1. LinkTypeOK'
    BY <1>12 DEF Unconfirmed, AwaitEnds, Shut, LinkTypeOK, ConnHeld, SenderTypeOK
  <2>2. SenderTypeOK'
    BY <1>12 DEF Unconfirmed, AwaitEnds, Shut, SenderTypeOK
  <2>3. FrameTaken'
    BY <1>12 DEF Unconfirmed, AwaitEnds, Shut, FrameTaken, InIteration
  <2>4. ConnHeld'
    BY <1>12 DEF Unconfirmed, AwaitEnds, Shut, ConnHeld, SenderTypeOK
  <2>5. ReachBounded'
    BY <1>12 DEF Unconfirmed, AwaitEnds, Shut, ReachBounded
  <2> QED
    BY <1>0, <2>1, <2>2, <2>3, <2>4, <2>5
<1> QED
  BY <1>1, <1>2, <1>3, <1>4, <1>5, <1>6, <1>7, <1>8, <1>9, <1>10, <1>11, <1>12 DEF RunStep

LEMMA ProcessInv1 ==
    ASSUME Inv1, ProcessStep, UNCHANGED serverVars
    PROVE  Inv1'
<1> USE DEF Inv1, TypeOK
<1>0. ServerTypeOK'
  BY DEF ServerTypeOK, serverVars
<1>1. CASE Produce
  <2>1. LinkTypeOK'
    BY <1>1 DEF Produce, linkVars, LinkTypeOK
  <2>2. SenderTypeOK'
    BY <1>1 DEF Produce, linkVars, SenderTypeOK
  <2>3. FrameTaken'
    BY <1>1 DEF Produce, linkVars, FrameTaken, InIteration, SenderTypeOK
  <2>4. ConnHeld'
    BY <1>1 DEF Produce, linkVars, ConnHeld, SenderTypeOK
  <2>5. ReachBounded'
    BY <1>1 DEF Produce, linkVars, ReachBounded
  <2> QED
    BY <1>0, <2>1, <2>2, <2>3, <2>4, <2>5
<1>2. CASE CloseQueue
  <2>1. LinkTypeOK'
    BY <1>2 DEF CloseQueue, linkVars, LinkTypeOK
  <2>2. SenderTypeOK'
    BY <1>2 DEF CloseQueue, linkVars, SenderTypeOK
  <2>3. FrameTaken'
    BY <1>2 DEF CloseQueue, linkVars, FrameTaken, InIteration
  <2>4. ConnHeld'
    BY <1>2 DEF CloseQueue, linkVars, ConnHeld, SenderTypeOK
  <2>5. ReachBounded'
    BY <1>2 DEF CloseQueue, linkVars, ReachBounded
  <2> QED
    BY <1>0, <2>1, <2>2, <2>3, <2>4, <2>5
<1>3. CASE GraceExpires
  <2>1. LinkTypeOK'
    BY <1>3 DEF GraceExpires, linkVars, LinkTypeOK
  <2>2. SenderTypeOK'
    BY <1>3 DEF GraceExpires, linkVars, SenderTypeOK
  <2>3. FrameTaken'
    BY <1>3 DEF GraceExpires, linkVars, FrameTaken, InIteration
  <2>4. ConnHeld'
    BY <1>3 DEF GraceExpires, linkVars, ConnHeld, SenderTypeOK
  <2>5. ReachBounded'
    BY <1>3 DEF GraceExpires, linkVars, ReachBounded
  <2> QED
    BY <1>0, <2>1, <2>2, <2>3, <2>4, <2>5
<1>4. CASE WaitReturns
  <2>1. LinkTypeOK'
    BY <1>4 DEF WaitReturns, Exit, LinkTypeOK
  <2>2. SenderTypeOK'
    BY <1>4 DEF WaitReturns, Exit, SenderTypeOK
  <2>3. FrameTaken'
    BY <1>4 DEF WaitReturns, Exit, FrameTaken, InIteration
  <2>4. ConnHeld'
    BY <1>4 DEF WaitReturns, Exit, ConnHeld, SenderTypeOK
  <2>5. ReachBounded'
    BY <1>4 DEF WaitReturns, Exit, ReachBounded
  <2> QED
    BY <1>0, <2>1, <2>2, <2>3, <2>4, <2>5
<1>5. CASE Killed
  <2>1. LinkTypeOK'
    BY <1>5 DEF Killed, Exit, Fault, LinkTypeOK
  <2>2. SenderTypeOK'
    BY <1>5 DEF Killed, Exit, Fault, SenderTypeOK
  <2>3. FrameTaken'
    BY <1>5 DEF Killed, Exit, Fault, FrameTaken, InIteration
  <2>4. ConnHeld'
    BY <1>5 DEF Killed, Exit, Fault, ConnHeld, SenderTypeOK
  <2>5. ReachBounded'
    BY <1>5 DEF Killed, Exit, Fault, ReachBounded
  <2> QED
    BY <1>0, <2>1, <2>2, <2>3, <2>4, <2>5
<1>6. CASE NextStep
  <2>1. LinkTypeOK'
    BY <1>6 DEF NextStep, linkVars, Ended, LinkTypeOK
  <2>2. SenderTypeOK'
    <3>1. step' \in 1..NumSteps
      BY <1>6 DEF NextStep, SenderTypeOK
    <3>2. popped' \in 0..pushed'
      BY <1>6 DEF NextStep, SenderTypeOK
    <3> QED
      BY <1>6, <3>1, <3>2 DEF NextStep, SenderTypeOK
  <2>3. FrameTaken'
    BY <1>6 DEF NextStep, linkVars, Ended, FrameTaken, InIteration, SenderTypeOK
  <2>4. ConnHeld'
    BY <1>6 DEF NextStep, linkVars, Ended, ConnHeld, SenderTypeOK
  <2>5. ReachBounded'
    BY <1>6 DEF NextStep, linkVars, Ended, ReachBounded
  <2> QED
    BY <1>0, <2>1, <2>2, <2>3, <2>4, <2>5
<1> QED
  BY <1>1, <1>2, <1>3, <1>4, <1>5, <1>6 DEF ProcessStep

LEMMA HandlerInv1 ==
    ASSUME Inv1, NEW c \in Conns, HandlerStep(c) \/ HandlerAborts(c) \/ ReadTimesOut(c),
           UNCHANGED senderVars
    PROVE  Inv1'
<1> USE DEF Inv1, TypeOK
<1>0. SenderTypeOK' /\ FrameTaken' /\ ConnHeld'
  BY DEF SenderTypeOK, FrameTaken, InIteration, ConnHeld, senderVars
<1>1. CASE Greet(c)
  <2>1. LinkTypeOK'
    BY <1>1, StreamOfConn DEF Greet, Goto, LinkTypeOK, ServerTypeOK
  <2>2. ServerTypeOK'
    BY <1>1 DEF Greet, Goto, ServerTypeOK
  <2>3. ReachBounded'
    BY <1>1 DEF Greet, Goto, LinkTypeOK, ServerTypeOK, ReachBounded
  <2> QED
    BY <1>0, <2>1, <2>2, <2>3
<1>2. CASE OpenWriter(c)
  <2>1. LinkTypeOK'
    BY <1>2 DEF OpenWriter, Goto, linkVars, LinkTypeOK
  <2>2. ServerTypeOK'
    BY <1>2, StreamOfConn DEF OpenWriter, Goto, linkVars, ServerTypeOK
  <2>3. ReachBounded'
    BY <1>2 DEF OpenWriter, Goto, linkVars, LinkTypeOK, ReachBounded
  <2> QED
    BY <1>0, <2>1, <2>2, <2>3
<1>3. CASE Store(c)
  <2>1. Arrived(c)
    BY <1>3 DEF Store
  <2>2. LinkTypeOK'
    <3>1. rcvd' \in [Conns -> Nat]
      <4>1. rcvd' = [rcvd EXCEPT ![c] = @ + 1]
        BY <1>3 DEF Store, Take
      <4>2. rcvd \in [Conns -> Nat]
        BY DEF LinkTypeOK
      <4> HIDE DEF Inv1, TypeOK
      <4> QED
        BY <4>1, <4>2
    <3> QED
      BY <1>3, <3>1 DEF Store, LinkTypeOK
  <2>3. ServerTypeOK'
    <3>1. /\ NextFrame(c) \in Frames
          /\ BodyLen[NextFrame(c)] \in Nat
          /\ DiskLen(NextFrame(c)) \in Nat
          /\ Stream(c) \in Streams
      BY <2>1, AtArrival
    <3>2. log' \in Seq([conn : Conns, frame : Frames])
      BY <1>3, <3>1 DEF Store, Record, ServerTypeOK
    <3>3. bytes' \in [Streams -> Nat]
      BY <1>3, <3>1 DEF Store, ServerTypeOK
    <3>4. sbytes' \in [Conns -> Nat]
      <4>1. sbytes' = [sbytes EXCEPT ![c] = @ + BodyLen[NextFrame(c)]]
        BY <1>3 DEF Store
      <4>2. sbytes \in [Conns -> Nat]
        BY DEF ServerTypeOK
      <4> HIDE DEF Inv1, TypeOK
      <4> QED
        BY <3>1, <4>1, <4>2
    <3> QED
      BY <1>3, <3>2, <3>3, <3>4 DEF Store, ServerTypeOK
  <2>4. ReachBounded'
    <3>1. reach' = reach /\ sent' = sent /\ rcvd' = [rcvd EXCEPT ![c] = @ + 1]
      BY <1>3 DEF Store, Take
    <3> QED
      BY <2>1, <3>1 DEF Arrived, LinkTypeOK, ReachBounded
  <2> QED
    BY <1>0, <2>2, <2>3, <2>4
<1>5. CASE AppendFails(c)
  <2>1. Arrived(c)
    BY <1>5 DEF AppendFails
  <2>2. LinkTypeOK'
    BY <1>5 DEF AppendFails, Take, Fault, LinkTypeOK
  <2>3. ServerTypeOK'
    <3>1. DiskLen(NextFrame(c)) \in Nat /\ Stream(c) \in Streams
      BY <2>1, AtArrival
    <3>2. PICK torn \in {0, DiskLen(NextFrame(c)) - 1} :
             bytes' = [bytes EXCEPT ![Stream(c)] = @ + torn]
      BY <1>5 DEF AppendFails
    <3>3. DiskLen(NextFrame(c)) > 0
      BY <2>1, AtArrival DEF DiskLen, UvarintLen
    <3>4. bytes' \in [Streams -> Nat]
      BY <3>1, <3>2, <3>3 DEF ServerTypeOK
    <3> QED
      BY <1>5, <3>4 DEF AppendFails, ServerTypeOK
  <2>4. ReachBounded'
    BY <1>5, <2>1 DEF AppendFails, Take, Fault, Arrived, LinkTypeOK, ReachBounded
  <2> QED
    BY <1>0, <2>2, <2>3, <2>4
<1>4. CASE Refuse(c)
  <2>1. Arrived(c)
    BY <1>4 DEF Refuse
  <2>2. LinkTypeOK'
    BY <1>4 DEF Refuse, Take, Goto, LinkTypeOK
  <2>3. ServerTypeOK'
    BY <1>4, <2>1, AtArrival DEF Refuse, Take, Goto, ServerTypeOK
  <2>4. ReachBounded'
    BY <1>4, <2>1 DEF Refuse, Take, Goto, Arrived, LinkTypeOK, ReachBounded
  <2> QED
    BY <1>0, <2>2, <2>3, <2>4
<1>6. CASE ReadClose(c)
  <2>1. LinkTypeOK'
    BY <1>6 DEF ReadClose, Goto, LinkTypeOK
  <2>2. ServerTypeOK'
    BY <1>6 DEF ReadClose, Goto, ServerTypeOK
  <2>3. ReachBounded'
    BY <1>6 DEF ReadClose, Goto, LinkTypeOK, ReachBounded
  <2> QED
    BY <1>0, <2>1, <2>2, <2>3
<1>7. CASE ReadEnds(c)
  <2>1. LinkTypeOK'
    BY <1>7 DEF ReadEnds, AckAndReturn, Goto, linkVars, LinkTypeOK
  <2>2. ServerTypeOK'
    BY <1>7 DEF ReadEnds, AckAndReturn, Goto, linkVars, ServerTypeOK
  <2>3. ReachBounded'
    BY <1>7 DEF ReadEnds, AckAndReturn, Goto, linkVars, LinkTypeOK, ReachBounded
  <2> QED
    BY <1>0, <2>1, <2>2, <2>3
<1>8. CASE HandlerAborts(c)
  <2>1. LinkTypeOK'
    BY <1>8 DEF HandlerAborts, Goto, Fault, LinkTypeOK
  <2>2. ServerTypeOK'
    BY <1>8 DEF HandlerAborts, Goto, Fault, ServerTypeOK
  <2>3. ReachBounded'
    BY <1>8 DEF HandlerAborts, Goto, Fault, LinkTypeOK, ReachBounded
  <2> QED
    BY <1>0, <2>1, <2>2, <2>3
<1>9. CASE ReadTimesOut(c)
  <2>1. LinkTypeOK'
    BY <1>9 DEF ReadTimesOut, AckAndReturn, Goto, Fault, LinkTypeOK
  <2>2. ServerTypeOK'
    BY <1>9 DEF ReadTimesOut, AckAndReturn, Goto, ServerTypeOK
  <2>3. ReachBounded'
    BY <1>9 DEF ReadTimesOut, LinkTypeOK, ReachBounded
  <2> QED
    BY <1>0, <2>1, <2>2, <2>3
<1> QED
  BY <1>1, <1>2, <1>3, <1>4, <1>5, <1>6, <1>7, <1>8, <1>9 DEF HandlerStep

LEMMA CrashInv1 ==
    ASSUME Inv1, ServerCrash, UNCHANGED senderVars
    PROVE  Inv1'
<1> USE DEF Inv1, TypeOK
<1>1. SenderTypeOK' /\ FrameTaken' /\ ConnHeld'
  BY DEF SenderTypeOK, FrameTaken, InIteration, ConnHeld, senderVars
<1>2. LinkTypeOK' /\ ReachBounded'
  BY DEF ServerCrash, Fault, Open, LinkTypeOK, ReachBounded
<1>3. ServerTypeOK'
  BY DEF ServerCrash, ServerTypeOK
<1> QED
  BY <1>1, <1>2, <1>3

LEMMA NetworkInv1 ==
    ASSUME Inv1, NEW c \in Conns, NetBreaks(c) \/ HandlerHangsUp(c)
    PROVE  Inv1'
<1> USE DEF Inv1, TypeOK
<1>0. SenderTypeOK' /\ FrameTaken' /\ ConnHeld'
  BY DEF NetBreaks, HandlerHangsUp, SenderTypeOK, FrameTaken, InIteration, ConnHeld, senderVars
<1>1. CASE NetBreaks(c)
  <2>1. PICK n \in 0..reach[c] : Break(c, n)
    BY <1>1 DEF NetBreaks
  <2>2. n \in Nat /\ rcvd[c] <= n /\ n <= reach[c]
    BY <2>1 DEF Break, LinkTypeOK
  <2>3. LinkTypeOK'
    BY <1>1, <2>1, <2>2 DEF NetBreaks, Fault, Break, LinkTypeOK
  <2>4. ReachBounded'
    <3>1. reach' = [reach EXCEPT ![c] = n] /\ sent' = sent /\ rcvd' = rcvd
      BY <2>1 DEF Break
    <3>2. SUFFICES ASSUME NEW d \in Conns
                   PROVE  rcvd[d] <= reach'[d] /\ reach'[d] <= Len(sent[d])
      BY <3>1 DEF ReachBounded
    <3>3. /\ rcvd[d] \in Nat /\ reach[d] \in Nat /\ Len(sent[d]) \in Nat
          /\ rcvd[d] <= reach[d] /\ reach[d] <= Len(sent[d])
      BY DEF LinkTypeOK, ReachBounded
    <3>4. reach'[d] = IF d = c THEN n ELSE reach[d]
      BY <3>1 DEF LinkTypeOK
    <3> HIDE DEF Inv1, TypeOK
    <3> QED
      BY <2>2, <3>3, <3>4
  <2>5. ServerTypeOK'
    BY <1>1 DEF NetBreaks, ServerTypeOK, serverVars
  <2> QED
    BY <1>0, <2>3, <2>4, <2>5
<1>2. CASE HandlerHangsUp(c)
  <2>1. LinkTypeOK'
    BY <1>2 DEF HandlerHangsUp, LinkTypeOK
  <2>2. ServerTypeOK'
    BY <1>2 DEF HandlerHangsUp, ServerTypeOK, serverVars
  <2>3. ReachBounded'
    BY <1>2 DEF HandlerHangsUp, ReachBounded
  <2> QED
    BY <1>0, <2>1, <2>2, <2>3
<1> QED
  BY <1>1, <1>2

LEMMA DialInv1 ==
    ASSUME Inv1, DialOk \/ DialEnds
    PROVE  Inv1'
<1> USE DEF Inv1, TypeOK
<1>1. CASE DialOk
  <2>1. PICK c \in Conns : Dialled(c) /\ Accept(c)
    BY <1>1 DEF DialOk
  <2>2. LinkTypeOK' /\ ReachBounded'
    BY <2>1 DEF Dialled, LinkTypeOK, ReachBounded
  <2>3. ServerTypeOK'
    BY <2>1 DEF Accept, Goto, ServerTypeOK
  <2>4. SenderTypeOK' /\ FrameTaken' /\ ConnHeld'
    BY <2>1 DEF Dialled, SenderTypeOK, FrameTaken, InIteration, ConnHeld
  <2> QED
    BY <2>2, <2>3, <2>4
<1>2. CASE DialEnds
  <2>1. LinkTypeOK' /\ ReachBounded'
    BY <1>2 DEF DialEnds, HelloFails, Shut, LinkTypeOK, ReachBounded
  <2>2. ServerTypeOK'
    BY <1>2 DEF DialEnds, ServerTypeOK, serverVars
  <2>3. SenderTypeOK' /\ FrameTaken' /\ ConnHeld'
    BY <1>2 DEF DialEnds, HelloFails, SenderTypeOK, FrameTaken, InIteration, ConnHeld
  <2> QED
    BY <2>1, <2>2, <2>3
<1> QED
  BY <1>1, <1>2

LEMMA StepInv1 == Inv1 /\ [Next]_vars => Inv1'
<1> SUFFICES ASSUME Inv1, [Next]_vars PROVE Inv1'
  OBVIOUS
<1>1. CASE UNCHANGED vars
  BY <1>1 DEF vars, linkVars, serverVars, senderVars, Inv1, TypeOK, LinkTypeOK,
              ServerTypeOK, SenderTypeOK, FrameTaken, InIteration, ConnHeld, ReachBounded
<1>2. CASE ServerStep /\ UNCHANGED senderVars
  BY <1>2, HandlerInv1, CrashInv1 DEF ServerStep
<1> QED
  BY <1>1, <1>2, RunInv1, ProcessInv1, NetworkInv1, DialInv1
     DEF Next, JobOver, NetworkStep

\* Every variable keeps its type, in every execution of the job.
THEOREM TypeCorrect == Spec => []TypeOK
<1>1. Inv1 => TypeOK
  BY DEF Inv1
<1> QED
  BY <1>1, InitInv1, StepInv1, PTL DEF Spec

-----------------------------------------------------------------------------
\* Order and completeness.

\* What is on the wires.  A connection that was not dialled is untouched.
Undialled(c) ==
    /\ link[c] = "idle"
    /\ srv[c] = "none"
    /\ sent[c] = <<>>
    /\ reply[c] = "none"
    /\ ~fin[c]

FreshConns ==
    /\ \A c \in Conns : c > dials => Undialled(c)
    /\ pc = "hello" => sent[dials] = <<>>

\* Every connection carries increasing frames,
SentIncreasing ==
    \A c \in Conns : \A h, k \in DOMAIN sent[c] : h < k => sent[c][h] < sent[c][k]

\* the current one only frames that are behind the sender's place in the queue,
\* and so do the older ones when a failed write sends nothing;
SentBehind ==
    \A c \in Conns : c = conn \/ ~AmbiguousWrite =>
        \A k \in DOMAIN sent[c] :
            sent[c][k] <= popped /\ (InIteration => sent[c][k] < frame)

\* then no frame is on two of them.
SentApart ==
    ~AmbiguousWrite =>
        \A c, d \in Conns : c # d =>
            \A h \in DOMAIN sent[c], k \in DOMAIN sent[d] : sent[c][h] # sent[d][k]

Inv2 == FreshConns /\ SentIncreasing /\ SentBehind /\ SentApart

-----------------------------------------------------------------------------
\* What is in the log was received.
LogReceived ==
    \A i \in DOMAIN log :
        \E k \in 1..rcvd[log[i].conn] : log[i].frame = sent[log[i].conn][k]

Inv3 == LogReceived /\ OrderWithinConnection /\ NoRepeat

-----------------------------------------------------------------------------
\* The closing of a stream.  The sender writes nothing more on c:
Silent(c) == c <= dials /\ (c = conn => pc = "await") /\ (pc = "hello" => c # dials)

\* a close frame is the last thing on its connection and the server answers it
\* last; an answer, close, ack or error, is the end of the handler;
CloseAt(c) ==
    /\ Open(c) => reach[c] = Len(sent[c])
    /\ fin[c] => Silent(c) /\ reach[c] = Len(sent[c])
    /\ reply[c] = "closed" => Silent(c) /\ rcvd[c] = Len(sent[c])
    /\ reply[c] # "none" => srv[c] = "done"

CloseIsLast == \A c \in Conns : CloseAt(c)

ConfirmedReplied == \A c \in confirmed : reply[c] # "none"

\* A process that has ended does nothing more.
EndedIdle == Ended => pc = "done" /\ conn = 0

\* No connection is of a step to come, and the current one is of this step.
OwnersBehind ==
    /\ \A c \in Conns : owner[c] <= step
    /\ conn # 0 => owner[conn] = step
    /\ pc = "hello" => owner[dials] = step

Inv4 == CloseIsLast /\ ConfirmedReplied /\ EndedIdle /\ OwnersBehind
        /\ ConfirmedBeforeNext

-----------------------------------------------------------------------------
\* Inv2: what the connections carry.

LEMMA InitInv2 == Init => Inv2
BY DEF Init, LinkInit, ServerInit, SenderInit, Inv2, FreshConns, Undialled, SentIncreasing,
       SentBehind, SentApart

LEMMA AppendAt ==
    ASSUME NEW S, NEW s \in Seq(S), NEW e \in S, NEW k \in DOMAIN Append(s, e)
    PROVE  \/ k \in DOMAIN s /\ Append(s, e)[k] = s[k]
           \/ k = Len(s) + 1 /\ Append(s, e)[k] = e
OBVIOUS

LEMMA SentSame ==
    ASSUME Inv2, sent' = sent
    PROVE  SentIncreasing' /\ SentApart'
BY DEF Inv2, SentIncreasing, SentApart

\* A write: the frame is new to its connection, and to all of them.
LEMMA SentMore ==
    ASSUME Inv1, Inv2, pc = "write", Transmit(conn, frame)
    PROVE  SentIncreasing' /\ SentApart'
<1>1. frame \in Frames /\ conn \in Conns
  BY AtWrite
<1>2. \A c \in Conns : sent[c] \in Seq(Frames)
  BY DEF Inv1, TypeOK, LinkTypeOK
<1>3. \A c \in Conns : sent'[c] = IF c = conn THEN Append(sent[c], frame) ELSE sent[c]
  BY <1>1, TransmitType
<1>4. \A c \in Conns : c = conn \/ ~AmbiguousWrite =>
          \A k \in DOMAIN sent[c] : sent[c][k] < frame
  BY DEF Inv2, SentBehind, InIteration
<1>5. \A c \in Conns : \A k \in DOMAIN sent'[c] :
          \/ k \in DOMAIN sent[c] /\ sent'[c][k] = sent[c][k]
          \/ c = conn /\ k = Len(sent[c]) + 1 /\ sent'[c][k] = frame
  <2> TAKE c \in Conns
  <2>1. CASE c = conn
    <3>1. sent[c] \in Seq(Frames) /\ sent'[c] = Append(sent[c], frame)
      BY <1>2, <1>3, <2>1
    <3>2. \A k \in DOMAIN Append(sent[c], frame) :
              \/ k \in DOMAIN sent[c] /\ Append(sent[c], frame)[k] = sent[c][k]
              \/ k = Len(sent[c]) + 1 /\ Append(sent[c], frame)[k] = frame
      BY <1>1, <3>1, AppendAt
    <3> QED
      BY <2>1, <3>1, <3>2
  <2>2. CASE c # conn
    BY <1>3, <2>2
  <2> QED
    BY <2>1, <2>2
<1>6. SentIncreasing'
  <2> SUFFICES ASSUME NEW c \in Conns, NEW h \in DOMAIN sent'[c], NEW k \in DOMAIN sent'[c],
                      h < k
               PROVE  sent'[c][h] < sent'[c][k]
    BY DEF SentIncreasing
  <2>1. CASE k \in DOMAIN sent[c] /\ sent'[c][k] = sent[c][k]
    <3>1. h \in DOMAIN sent[c] /\ sent'[c][h] = sent[c][h]
      BY <1>2, <1>5, <2>1
    <3> QED
      BY <2>1, <3>1 DEF Inv2, SentIncreasing
  <2>2. CASE c = conn /\ k = Len(sent[c]) + 1 /\ sent'[c][k] = frame
    <3>1. h \in DOMAIN sent[c] /\ sent'[c][h] = sent[c][h]
      BY <1>2, <1>5, <2>2
    <3> QED
      BY <1>4, <2>2, <3>1
  <2> QED
    BY <1>5, <2>1, <2>2
<1>7. SentApart'
  <2> SUFFICES ASSUME ~AmbiguousWrite, NEW c \in Conns, NEW d \in Conns, c # d,
                      NEW h \in DOMAIN sent'[c], NEW k \in DOMAIN sent'[d]
               PROVE  sent'[c][h] # sent'[d][k]
    BY DEF SentApart
  <2>1. CASE h \in DOMAIN sent[c] /\ sent'[c][h] = sent[c][h]
    <3>1. CASE k \in DOMAIN sent[d] /\ sent'[d][k] = sent[d][k]
      BY <2>1, <3>1 DEF Inv2, SentApart
    <3>2. CASE sent'[d][k] = frame
      BY <1>1, <1>4, <2>1, <3>2
    <3> QED
      BY <1>5, <3>1, <3>2
  <2>2. CASE c = conn /\ sent'[c][h] = frame
    <3>1. k \in DOMAIN sent[d] /\ sent'[d][k] = sent[d][k]
      BY <1>5, <2>2
    <3>2. sent[d][k] < frame
      BY <1>4, <3>1
    <3> QED
      BY <1>1, <2>2, <3>1, <3>2
  <2> QED
    BY <1>5, <2>1, <2>2
<1> QED
  BY <1>6, <1>7

LEMMA SentFrames ==
    ASSUME Inv1
    PROVE  \A c \in Conns : sent[c] \in Seq(Frames) /\ \A k \in DOMAIN sent[c] : sent[c][k] \in Int
<1> TAKE c \in Conns
<1>1. sent[c] \in Seq(Frames)
  BY DEF Inv1, TypeOK, LinkTypeOK
<1> QED
  BY <1>1

LEMMA RunInv2 ==
    ASSUME Inv1, Inv2, RunStep, UNCHANGED serverVars
    PROVE  Inv2'
<1>a. /\ link \in [Conns -> {"idle", "up", "shut", "down"}]
      /\ fin \in [Conns -> BOOLEAN]
      /\ frame \in Int /\ popped \in Int /\ pushed \in Int /\ popped <= pushed
      /\ conn \in 0..dials /\ dials \in 0..MaxConns
  BY DEF Inv1, TypeOK, LinkTypeOK, SenderTypeOK
<1>b. \A c \in Conns : \A k \in DOMAIN sent[c] : sent[c][k] \in Int
  BY SentFrames
<1>1. CASE RunRetired
  <2>1. SentIncreasing' /\ SentApart'
    BY <1>1, SentSame DEF RunRetired, linkVars
  <2>2. FreshConns'
    BY <1>1, <1>a, <1>b DEF RunRetired, linkVars, Inv2, FreshConns, Undialled, serverVars
  <2>3. SentBehind'
    BY <1>1, <1>a, <1>b DEF RunRetired, linkVars, Inv2, SentBehind, InIteration, serverVars
  <2> QED
    BY <2>1, <2>2, <2>3 DEF Inv2
<1>2. CASE TakeHead
  <2>1. SentIncreasing' /\ SentApart'
    BY <1>2, SentSame DEF TakeHead, linkVars, Empty
  <2>2. FreshConns'
    BY <1>2, <1>a, <1>b DEF TakeHead, linkVars, Empty, Inv2, FreshConns, Undialled, serverVars
  <2>3. SentBehind'
    BY <1>2, <1>a, <1>b DEF TakeHead, linkVars, Empty, Inv2, SentBehind, InIteration, serverVars
  <2> QED
    BY <2>1, <2>2, <2>3 DEF Inv2
<1>3. CASE QueueDrained
  <2>1. SentIncreasing' /\ SentApart'
    BY <1>3, SentSame DEF QueueDrained, linkVars
  <2>2. FreshConns'
    BY <1>3, <1>a, <1>b DEF QueueDrained, linkVars, Inv2, FreshConns, Undialled, serverVars
  <2>3. SentBehind'
    BY <1>3, <1>a, <1>b DEF QueueDrained, linkVars, Inv2, SentBehind, InIteration, serverVars
  <2> QED
    BY <2>1, <2>2, <2>3 DEF Inv2
<1>4. CASE DialRetired
  <2>1. SentIncreasing' /\ SentApart'
    BY <1>4, SentSame DEF DialRetired, linkVars
  <2>2. FreshConns'
    BY <1>4, <1>a, <1>b DEF DialRetired, linkVars, Inv2, FreshConns, Undialled, serverVars
  <2>3. SentBehind'
    BY <1>4, <1>a, <1>b DEF DialRetired, linkVars, Inv2, SentBehind, InIteration, serverVars
  <2> QED
    BY <2>1, <2>2, <2>3 DEF Inv2
<1>5. CASE DialBegins
  <2>1. SentIncreasing' /\ SentApart'
    BY <1>5, SentSame DEF DialBegins, linkVars
  <2>2. FreshConns'
    BY <1>5, <1>a, <1>b DEF DialBegins, linkVars, Inv2, FreshConns, Undialled, serverVars
  <2>3. SentBehind'
    BY <1>5, <1>a, <1>b DEF DialBegins, linkVars, Inv2, SentBehind, InIteration, serverVars
  <2> QED
    BY <2>1, <2>2, <2>3 DEF Inv2
<1>6. CASE DialFails
  <2>1. SentIncreasing' /\ SentApart'
    BY <1>6, SentSame DEF DialFails, linkVars
  <2>2. FreshConns'
    BY <1>6, <1>a, <1>b DEF DialFails, linkVars, Inv2, FreshConns, Undialled, serverVars
  <2>3. SentBehind'
    BY <1>6, <1>a, <1>b DEF DialFails, linkVars, Inv2, SentBehind, InIteration, serverVars
  <2> QED
    BY <2>1, <2>2, <2>3 DEF Inv2
<1>7. CASE HelloRead
  <2>1. SentIncreasing' /\ SentApart'
    BY <1>7, SentSame DEF HelloRead, linkVars, Pop, Empty
  <2>2. FreshConns'
    BY <1>7, <1>a, <1>b DEF HelloRead, linkVars, Pop, Empty, Inv2, FreshConns, Undialled, serverVars, Inv1, ConnHeld
  <2>3. SentBehind'
    BY <1>7, <1>a, <1>b DEF HelloRead, linkVars, Pop, Empty, Inv2, SentBehind, InIteration, serverVars, FreshConns, Inv1, ConnHeld
  <2> QED
    BY <2>1, <2>2, <2>3 DEF Inv2
<1>8. CASE WriteOk
  <2>1. frame \in Frames /\ conn \in Conns /\ Transmit(conn, frame) /\ pc = "write"
    BY <1>8, AtWrite DEF WriteOk
  <2>2. SentIncreasing' /\ SentApart'
    BY <2>1, SentMore
  <2>3. \A c \in Conns : sent'[c] = IF c = conn THEN Append(sent[c], frame) ELSE sent[c]
    BY <2>1, TransmitType
  <2>4. FreshConns'
    BY <1>8, <1>a, <1>b, <2>1, <2>3 DEF WriteOk, Inv2, FreshConns, Undialled, serverVars
  <2>5. SentBehind'
    <3>1. frame <= popped' /\ popped <= popped'
      BY <1>8, <1>a, <1>b DEF WriteOk, Pop, Empty, Inv1, FrameTaken, InIteration
    <3>2. pc' = "top" /\ conn' = conn
      BY <1>8 DEF WriteOk
    <3> SUFFICES ASSUME NEW c \in Conns, c = conn \/ ~AmbiguousWrite,
                        NEW k \in DOMAIN sent'[c]
                 PROVE  sent'[c][k] <= popped'
      BY <3>2 DEF SentBehind, InIteration
    <3>3. sent[c] \in Seq(Frames)
      BY SentFrames
    <3>4. popped' \in Int
      BY <1>8, <1>a, <1>b DEF WriteOk, Pop
    <3>5. CASE sent'[c][k] = frame
      BY <3>1, <3>5
    <3>6. CASE k \in DOMAIN sent[c] /\ sent'[c][k] = sent[c][k]
      BY <1>a, <1>b, <3>1, <3>4, <3>6 DEF Inv2, SentBehind
    <3>7. CASE c = conn
      <4>1. sent'[c] = Append(sent[c], frame)
        BY <2>3, <3>7
      <4>2. \/ k \in DOMAIN sent[c] /\ Append(sent[c], frame)[k] = sent[c][k]
            \/ Append(sent[c], frame)[k] = frame
        BY <2>1, <3>3, <4>1, AppendAt
      <4> QED
        BY <3>5, <3>6, <4>1, <4>2
    <3>8. CASE c # conn
      BY <2>3, <3>6, <3>8
    <3> QED
      BY <3>7, <3>8
  <2> QED
    BY <2>2, <2>4, <2>5 DEF Inv2
<1>9. CASE WriteFails
  <2>1. frame \in Frames /\ conn \in Conns /\ pc = "write"
    BY <1>9, AtWrite DEF WriteFails
  <2>2. sent' = sent \/ (AmbiguousWrite /\ Transmit(conn, frame))
    BY <1>9 DEF WriteFails
  <2>3. SentIncreasing' /\ SentApart'
    BY <2>1, <2>2, SentMore, SentSame
  <2>4. \A c \in Conns : c # conn => sent'[c] = sent[c]
    BY <2>1, <2>2, TransmitType
  <2>5. FreshConns'
    BY <1>9, <1>a, <1>b, <2>1, <2>4 DEF WriteFails, Shut, Inv2, FreshConns, Undialled, serverVars
  <2>6. SentBehind'
    BY <1>9, <2>2 DEF WriteFails, Inv2, SentBehind, InIteration
  <2> QED
    BY <2>3, <2>5, <2>6 DEF Inv2
<1>10. CASE FinishCloses
  <2>1. SentIncreasing' /\ SentApart'
    BY <1>10, SentSame DEF FinishCloses
  <2>2. FreshConns'
    BY <1>10, <1>a, <1>b DEF FinishCloses, Inv2, FreshConns, Undialled, serverVars
  <2>3. SentBehind'
    BY <1>10, <1>a, <1>b DEF FinishCloses, Inv2, SentBehind, InIteration, serverVars
  <2> QED
    BY <2>1, <2>2, <2>3 DEF Inv2
<1>11. CASE Confirmed
  <2>1. SentIncreasing' /\ SentApart'
    BY <1>11, SentSame DEF Confirmed, AwaitEnds, Shut
  <2>2. FreshConns'
    BY <1>11, <1>a, <1>b DEF Confirmed, AwaitEnds, Shut, Inv2, FreshConns, Undialled, serverVars
  <2>3. SentBehind'
    BY <1>11 DEF Confirmed, AwaitEnds, Inv2, SentBehind, InIteration
  <2> QED
    BY <2>1, <2>2, <2>3 DEF Inv2
<1>12. CASE Unconfirmed
  <2>1. SentIncreasing' /\ SentApart'
    BY <1>12, SentSame DEF Unconfirmed, AwaitEnds, Shut
  <2>2. FreshConns'
    BY <1>12, <1>a, <1>b DEF Unconfirmed, AwaitEnds, Shut, Inv2, FreshConns, Undialled, serverVars
  <2>3. SentBehind'
    BY <1>12 DEF Unconfirmed, AwaitEnds, Inv2, SentBehind, InIteration
  <2> QED
    BY <2>1, <2>2, <2>3 DEF Inv2
<1> QED
  BY <1>1, <1>2, <1>3, <1>4, <1>5, <1>6, <1>7, <1>8, <1>9, <1>10, <1>11, <1>12 DEF RunStep

LEMMA ProcessInv2 ==
    ASSUME Inv1, Inv2, ProcessStep, UNCHANGED serverVars
    PROVE  Inv2'
<1>a. /\ link \in [Conns -> {"idle", "up", "shut", "down"}]
      /\ fin \in [Conns -> BOOLEAN]
      /\ frame \in Int /\ popped \in Int /\ pushed \in Int /\ popped <= pushed
      /\ conn \in 0..dials /\ dials \in 0..MaxConns
  BY DEF Inv1, TypeOK, LinkTypeOK, SenderTypeOK
<1>b. \A c \in Conns : \A k \in DOMAIN sent[c] : sent[c][k] \in Int
  BY SentFrames
<1>1. CASE Produce
  <2>1. SentIncreasing' /\ SentApart'
    BY <1>1, SentSame DEF Produce, linkVars
  <2>2. FreshConns'
    BY <1>1, <1>a, <1>b DEF Produce, linkVars, Inv2, FreshConns, Undialled, serverVars
  <2>3. SentBehind'
    BY <1>1, <1>a, <1>b DEF Produce, linkVars, Inv2, SentBehind, InIteration, serverVars
  <2> QED
    BY <2>1, <2>2, <2>3 DEF Inv2
<1>2. CASE CloseQueue
  <2>1. SentIncreasing' /\ SentApart'
    BY <1>2, SentSame DEF CloseQueue, linkVars
  <2>2. FreshConns'
    BY <1>2, <1>a, <1>b DEF CloseQueue, linkVars, Inv2, FreshConns, Undialled, serverVars
  <2>3. SentBehind'
    BY <1>2, <1>a, <1>b DEF CloseQueue, linkVars, Inv2, SentBehind, InIteration, serverVars
  <2> QED
    BY <2>1, <2>2, <2>3 DEF Inv2
<1>3. CASE GraceExpires
  <2>1. SentIncreasing' /\ SentApart'
    BY <1>3, SentSame DEF GraceExpires, linkVars
  <2>2. FreshConns'
    BY <1>3, <1>a, <1>b DEF GraceExpires, linkVars, Inv2, FreshConns, Undialled, serverVars
  <2>3. SentBehind'
    BY <1>3, <1>a, <1>b DEF GraceExpires, linkVars, Inv2, SentBehind, InIteration, serverVars
  <2> QED
    BY <2>1, <2>2, <2>3 DEF Inv2
<1>4. CASE WaitReturns
  <2>1. SentIncreasing' /\ SentApart'
    BY <1>4, SentSame DEF WaitReturns, Exit
  <2>2. FreshConns'
    BY <1>4, <1>a, <1>b DEF WaitReturns, Exit, Inv2, FreshConns, Undialled, serverVars
  <2>3. SentBehind'
    BY <1>4, <1>a, <1>b DEF WaitReturns, Exit, Inv2, SentBehind, InIteration, serverVars
  <2> QED
    BY <2>1, <2>2, <2>3 DEF Inv2
<1>5. CASE Killed
  <2>1. SentIncreasing' /\ SentApart'
    BY <1>5, SentSame DEF Killed, Exit, Fault
  <2>2. FreshConns'
    BY <1>5, <1>a, <1>b DEF Killed, Exit, Fault, Inv2, FreshConns, Undialled, serverVars
  <2>3. SentBehind'
    BY <1>5, <1>a, <1>b DEF Killed, Exit, Fault, Inv2, SentBehind, InIteration, serverVars
  <2> QED
    BY <2>1, <2>2, <2>3 DEF Inv2
<1>6. CASE NextStep
  <2>1. SentIncreasing' /\ SentApart'
    BY <1>6, SentSame DEF NextStep, linkVars
  <2>2. FreshConns'
    BY <1>6, <1>a, <1>b DEF NextStep, linkVars, Inv2, FreshConns, Undialled, serverVars
  <2>3. SentBehind'
    BY <1>6, <1>a, <1>b DEF NextStep, linkVars, Inv2, SentBehind, InIteration, serverVars
  <2> QED
    BY <2>1, <2>2, <2>3 DEF Inv2
<1> QED
  BY <1>1, <1>2, <1>3, <1>4, <1>5, <1>6 DEF ProcessStep

LEMMA ServerInv2 ==
    ASSUME Inv1, Inv2, ServerStep, UNCHANGED senderVars
    PROVE  Inv2'
<1>1. /\ sent' = sent
      /\ \A c \in Conns : c > dials => Undialled(c)'
  <2>0. \A c \in Conns : c > dials => Undialled(c)
    BY DEF Inv2, FreshConns
  <2>1. CASE ServerCrash
    BY <2>0, <2>1 DEF ServerCrash, Open, Undialled
  <2>2. ASSUME NEW c \in Conns, HandlerStep(c) \/ HandlerAborts(c) \/ ReadTimesOut(c)
        PROVE  /\ sent' = sent /\ link' = link /\ fin' = fin
               /\ srv[c] # "none"
               /\ \A d \in Conns : d # c => srv'[d] = srv[d] /\ reply'[d] = reply[d]
    BY <2>2 DEF HandlerStep, HandlerAborts, ReadTimesOut, Greet, OpenWriter, Store, Refuse, AppendFails,
                ReadClose, ReadEnds, AckAndReturn, Goto, linkVars, Arrived, Drained, Inv1, TypeOK,
                LinkTypeOK, ServerTypeOK
  <2>3. ASSUME NEW c \in Conns, HandlerStep(c) \/ HandlerAborts(c) \/ ReadTimesOut(c)
        PROVE  sent' = sent /\ \A d \in Conns : d > dials => Undialled(d)'
    BY <2>0, <2>2, <2>3 DEF Undialled
  <2> QED
    BY <2>1, <2>3 DEF ServerStep, ServerCrash
<1>2. FreshConns'
  BY <1>1 DEF Inv2, FreshConns, senderVars
<1>3. SentBehind'
  BY <1>1 DEF Inv2, SentBehind, InIteration, senderVars
<1> QED
  BY <1>1, <1>2, <1>3, SentSame DEF Inv2

LEMMA NetworkInv2 ==
    ASSUME Inv1, Inv2, NetworkStep
    PROVE  Inv2'
<1>1. PICK c \in Conns : NetBreaks(c) \/ HandlerHangsUp(c)
  BY DEF NetworkStep
<1>2. /\ Open(c)
      /\ link' = [link EXCEPT ![c] = "down"]
      /\ fin' = fin \/ \E arrives \in BOOLEAN : fin' = [fin EXCEPT ![c] = arrives]
      /\ UNCHANGED <<sent, reply, serverVars, senderVars>>
  BY <1>1 DEF NetBreaks, HandlerHangsUp, Break, Open
<1>3. FreshConns'
  BY <1>2 DEF Inv2, FreshConns, Undialled, Open, serverVars, senderVars, Inv1, TypeOK, LinkTypeOK
<1>4. SentBehind'
  BY <1>2 DEF Inv2, SentBehind, InIteration, senderVars
<1> QED
  BY <1>2, <1>3, <1>4, SentSame DEF Inv2

LEMMA DialInv2 ==
    ASSUME Inv1, Inv2, DialOk \/ DialEnds
    PROVE  Inv2'
<1>0. dials \in 0..MaxConns
  BY DEF Inv1, TypeOK, SenderTypeOK
<1>1. CASE DialOk
  <2>1. PICK c \in Conns : Dialled(c) /\ Accept(c)
    BY <1>1 DEF DialOk
  <2>2. FreshConns'
    BY <1>0, <2>1 DEF Dialled, Accept, Goto, Inv2, FreshConns, Undialled
  <2>3. SentBehind'
    BY <2>1 DEF Dialled, Inv2, SentBehind, InIteration
  <2> QED
    BY <2>1, <2>2, <2>3, SentSame DEF Dialled, Inv2
<1>2. CASE DialEnds
  <2>1. dials \in Conns
    BY <1>0, <1>2 DEF DialEnds, Inv1, ConnHeld
  <2>2. FreshConns'
    BY <1>0, <1>2, <2>1 DEF DialEnds, HelloFails, Shut, Inv2, FreshConns, Undialled, serverVars,
                            Inv1, TypeOK, LinkTypeOK
  <2>3. SentBehind'
    BY <1>2 DEF DialEnds, HelloFails, Inv2, SentBehind, InIteration
  <2> QED
    BY <1>2, <2>2, <2>3, SentSame DEF DialEnds, HelloFails, Inv2
<1> QED
  BY <1>1, <1>2

LEMMA StepInv2 == Inv1 /\ Inv2 /\ [Next]_vars => Inv2'
<1> SUFFICES ASSUME Inv1, Inv2, [Next]_vars PROVE Inv2'
  OBVIOUS
<1>1. CASE UNCHANGED vars
  BY <1>1 DEF vars, linkVars, serverVars, senderVars, Inv2, FreshConns, Undialled,
              SentIncreasing, SentBehind, SentApart, InIteration
<1> QED
  BY <1>1, RunInv2, ProcessInv2, ServerInv2, NetworkInv2, DialInv2 DEF Next, JobOver
-----------------------------------------------------------------------------
\* Inv3: what the log holds.

\* A step writes at most one frame, on the sender's connection,
LEMMA SentShape ==
    ASSUME Inv1, [Next]_vars
    PROVE  sent' = sent \/ (pc = "write" /\ Transmit(conn, frame))
<1>1. CASE RunStep
  BY <1>1 DEF RunStep, RunRetired, TakeHead, QueueDrained, DialRetired, DialBegins, DialFails,
              HelloRead, WriteOk, WriteFails, FinishCloses, Confirmed, Unconfirmed, AwaitEnds,
              linkVars
<1>2. CASE ProcessStep
  BY <1>2 DEF ProcessStep, Produce, CloseQueue, GraceExpires, WaitReturns, Killed, Exit,
              NextStep, linkVars
<1>3. CASE ServerStep
  BY <1>3 DEF ServerStep, HandlerStep, HandlerAborts, ReadTimesOut, Greet, OpenWriter, Store, Refuse,
              AppendFails, ReadClose, ReadEnds, AckAndReturn, ServerCrash, linkVars
<1>4. CASE NetworkStep \/ DialOk \/ DialEnds
  BY <1>4 DEF NetworkStep, NetBreaks, Break, HandlerHangsUp, DialOk, Dialled, DialEnds,
              HelloFails
<1> QED
  BY <1>1, <1>2, <1>3, <1>4 DEF Next, JobOver, vars, linkVars

\* and what was sent before stays where it is.
LEMMA SentGrows ==
    ASSUME Inv1, [Next]_vars, NEW c \in Conns, NEW k \in DOMAIN sent[c]
    PROVE  k \in DOMAIN sent'[c] /\ sent'[c][k] = sent[c][k]
<1>1. CASE sent' = sent
  BY <1>1
<1>2. CASE pc = "write" /\ Transmit(conn, frame)
  <2>1. sent'[c] = IF c = conn THEN Append(sent[c], frame) ELSE sent[c]
    BY <1>2, AtWrite, TransmitType
  <2>2. sent[c] \in Seq(Frames)
    BY SentFrames
  <2> QED
    BY <2>1, <2>2
<1> QED
  BY <1>1, <1>2, SentShape

\* A step reads at most one frame, and the log grows by no other.
LEMMA LogShape ==
    ASSUME Inv1, [Next]_vars
    PROVE  \/ UNCHANGED <<log, rcvd>>
           \/ /\ MaxStreamBytes > 0 \/ DiskErrors
              /\ \E c \in Conns : Arrived(c) /\ Take(c) /\ UNCHANGED <<log, sent>>
           \/ \E c \in Conns : Store(c) /\ UNCHANGED senderVars
<1>1. CASE RunStep /\ UNCHANGED serverVars
  BY <1>1 DEF RunStep, RunRetired, TakeHead, QueueDrained, DialRetired, DialBegins, DialFails,
              HelloRead, WriteOk, WriteFails, FinishCloses, Confirmed, Unconfirmed, AwaitEnds,
              linkVars, serverVars
<1>2. CASE ProcessStep /\ UNCHANGED serverVars
  BY <1>2 DEF ProcessStep, Produce, CloseQueue, GraceExpires, WaitReturns, Killed, Exit,
              NextStep, linkVars, serverVars
<1>3. CASE ServerStep /\ UNCHANGED senderVars
  <2>1. CASE ServerCrash
    BY <2>1 DEF ServerCrash
  <2>2. ASSUME NEW c \in Conns, HandlerStep(c) \/ HandlerAborts(c) \/ ReadTimesOut(c)
        PROVE  \/ UNCHANGED <<log, rcvd>>
               \/ /\ MaxStreamBytes > 0 \/ DiskErrors
                  /\ Arrived(c) /\ Take(c) /\ UNCHANGED <<log, sent>>
               \/ Store(c)
    BY <2>2 DEF PastCap, HandlerStep, HandlerAborts, ReadTimesOut, Greet, OpenWriter, Refuse, AppendFails, ReadClose,
                ReadEnds, AckAndReturn, linkVars
  <2> QED
    BY <1>3, <2>1, <2>2 DEF ServerStep
<1>4. CASE NetworkStep \/ DialOk \/ DialEnds
  BY <1>4 DEF NetworkStep, NetBreaks, Break, HandlerHangsUp, DialOk, Dialled, Accept, DialEnds,
              HelloFails, serverVars
<1> QED
  BY <1>1, <1>2, <1>3, <1>4 DEF Next, JobOver, vars, linkVars, serverVars

LEMMA ElementOfSeq ==
    ASSUME NEW S, NEW s \in Seq(S), NEW i \in DOMAIN s
    PROVE  s[i] \in S
OBVIOUS

LEMMA LogTypes ==
    ASSUME Inv1
    PROVE  /\ log \in Seq([conn : Conns, frame : Frames])
           /\ \A i \in DOMAIN log : log[i].conn \in Conns /\ log[i].frame \in Frames
           /\ \A c \in Conns : rcvd[c] \in Nat /\ \A k \in 1..rcvd[c] : k \in DOMAIN sent[c]
<1>1. log \in Seq([conn : Conns, frame : Frames])
  BY DEF Inv1, TypeOK, ServerTypeOK
<1>2. ASSUME NEW i \in DOMAIN log
      PROVE  log[i].conn \in Conns /\ log[i].frame \in Frames
  <2>1. log[i] \in [conn : Conns, frame : Frames]
    BY <1>1, ElementOfSeq
  <2> QED
    BY <2>1
<1>3. ASSUME NEW c \in Conns
      PROVE  rcvd[c] \in Nat /\ \A k \in 1..rcvd[c] : k \in DOMAIN sent[c]
  <2>1. rcvd[c] \in Nat /\ reach[c] \in Nat /\ sent[c] \in Seq(Frames)
    BY DEF Inv1, TypeOK, LinkTypeOK
  <2>2. rcvd[c] <= reach[c] /\ reach[c] <= Len(sent[c])
    BY DEF Inv1, ReachBounded
  <2> QED
    BY <2>1, <2>2
<1> QED
  BY <1>1, <1>2, <1>3

LEMMA AppendGrows ==
    ASSUME NEW S, NEW s \in Seq(S), NEW e \in S
    PROVE  /\ Len(s) \in Nat
           /\ DOMAIN Append(s, e) = DOMAIN s \cup {Len(s) + 1}
           /\ \A i \in DOMAIN s : i \in Nat /\ i <= Len(s) /\ Append(s, e)[i] = s[i]
OBVIOUS

\* What a stored frame does to the log.
LEMMA LogAppend ==
    ASSUME Inv1, NEW c \in Conns, Store(c)
    PROVE  /\ Len(log) \in Nat
           /\ DOMAIN log' = DOMAIN log \cup {Len(log) + 1}
           /\ \A i \in DOMAIN log : i \in Nat /\ i <= Len(log) /\ log'[i] = log[i]
           /\ log'[Len(log) + 1] = Record(c, NextFrame(c))
<1>1. log \in Seq([conn : Conns, frame : Frames])
  BY LogTypes
<1>2. Record(c, NextFrame(c)) \in [conn : Conns, frame : Frames]
  BY AtArrival DEF Record, Store
<1>3. log' = Append(log, Record(c, NextFrame(c)))
  BY DEF Store
<1>4. log'[Len(log) + 1] = Record(c, NextFrame(c))
  BY <1>1, <1>2, <1>3
<1>5. /\ Len(log) \in Nat
      /\ DOMAIN log' = DOMAIN log \cup {Len(log) + 1}
      /\ \A i \in DOMAIN log : i \in Nat /\ i <= Len(log) /\ log'[i] = log[i]
  <2> DEFINE r == Record(c, NextFrame(c))
  <2>1. /\ Len(log) \in Nat
        /\ DOMAIN Append(log, r) = DOMAIN log \cup {Len(log) + 1}
        /\ \A i \in DOMAIN log : i \in Nat /\ i <= Len(log) /\ Append(log, r)[i] = log[i]
    <3> DEFINE R == [conn : Conns, frame : Frames]
    <3>1. log \in Seq(R) /\ r \in R
      BY <1>1, <1>2
    <3> HIDE DEF r, R
    <3> QED
      BY <3>1, AppendGrows
  <2> QED
    BY <1>3, <2>1
<1> QED
  BY <1>4, <1>5

LEMMA StoreInv3 ==
    ASSUME Inv1, Inv2, Inv3, NEW c \in Conns, Store(c)
    PROVE  Inv3'
<1> DEFINE f == NextFrame(c)
<1>1. /\ f = sent[c][rcvd[c] + 1] /\ f \in Frames
      /\ rcvd[c] + 1 \in DOMAIN sent[c]
      /\ rcvd[c] \in Nat
  BY AtArrival, LogTypes DEF Store, NextFrame
<1>2. /\ log' = Append(log, Record(c, f))
      /\ sent' = sent
      /\ rcvd'[c] = rcvd[c] + 1 /\ \A d \in Conns : d # c => rcvd'[d] = rcvd[d]
  BY DEF Store, Take, Inv1, TypeOK, LinkTypeOK
<1> DEFINE n == Len(log) + 1
<1>3. /\ DOMAIN log' = DOMAIN log \cup {n}
      /\ \A i \in DOMAIN log : i \in Int /\ i < n /\ log'[i] = log[i]
      /\ n \in Int /\ log'[n].conn = c /\ log'[n].frame = f
  <2>1. log'[n] = Record(c, f)
    BY LogAppend
  <2>2. /\ Len(log) \in Nat /\ DOMAIN log' = DOMAIN log \cup {Len(log) + 1}
        /\ \A i \in DOMAIN log : i \in Nat /\ i <= Len(log) /\ log'[i] = log[i]
    BY LogAppend
  <2> QED
    BY <2>1, <2>2 DEF Record
<1>4. \A i \in DOMAIN log : log[i].conn = c => log[i].frame < f
  <2> SUFFICES ASSUME NEW i \in DOMAIN log, log[i].conn = c
               PROVE  log[i].frame < f
    OBVIOUS
  <2>1. PICK k \in 1..rcvd[c] : log[i].frame = sent[c][k]
    BY DEF Inv3, LogReceived
  <2>2. k \in DOMAIN sent[c] /\ k < rcvd[c] + 1
    <3>1. rcvd[c] \in Nat /\ k \in 1..rcvd[c]
      BY <1>1
    <3>2. k \in DOMAIN sent[c]
      BY <3>1, LogTypes
    <3>3. k < rcvd[c] + 1
      BY <3>1
    <3> QED
      BY <3>2, <3>3
  <2> QED
    BY <1>1, <2>1, <2>2 DEF Inv2, SentIncreasing
<1>5. ~AmbiguousWrite => \A i \in DOMAIN log : log[i].frame # f
  <2> SUFFICES ASSUME ~AmbiguousWrite, NEW i \in DOMAIN log
               PROVE  log[i].frame # f
    OBVIOUS
  <2>1. CASE log[i].conn = c
    <3>1. log[i].frame \in Frames
      BY LogTypes
    <3>2. log[i].frame < f
      BY <1>4, <2>1
    <3> QED
      BY <1>1, <3>1, <3>2
  <2>2. CASE log[i].conn # c
    <3>1. PICK k \in 1..rcvd[log[i].conn] : log[i].frame = sent[log[i].conn][k]
      BY DEF Inv3, LogReceived
    <3>2. log[i].conn \in Conns /\ k \in DOMAIN sent[log[i].conn]
      BY LogTypes
    <3> QED
      BY <1>1, <2>2, <3>1, <3>2 DEF Inv2, SentApart
  <2> QED
    BY <2>1, <2>2
<1> HIDE DEF f, n
<1>6. LogReceived'
  <2> SUFFICES ASSUME NEW i \in DOMAIN log'
               PROVE  \E k \in 1..rcvd'[log'[i].conn] : log'[i].frame = sent'[log'[i].conn][k]
    BY DEF LogReceived
  <2>1. CASE i = n
    <3>1. log'[i].conn = c /\ log'[i].frame = sent'[c][rcvd[c] + 1]
      BY <1>1, <1>2, <1>3, <2>1
    <3>2. rcvd[c] + 1 \in 1..rcvd'[c]
      BY <1>1, <1>2
    <3> QED
      BY <3>1, <3>2
  <2>2. CASE i \in DOMAIN log
    <3>1. PICK k \in 1..rcvd[log[i].conn] : log[i].frame = sent[log[i].conn][k]
      BY <2>2 DEF Inv3, LogReceived
    <3>2. log[i].conn \in Conns /\ log'[i] = log[i]
      BY <1>3, <2>2, LogTypes
    <3>3. k \in 1..rcvd'[log[i].conn]
      <4>1. rcvd[log[i].conn] \in Nat
        BY <3>2, LogTypes
      <4>2. \/ rcvd'[log[i].conn] = rcvd[log[i].conn]
            \/ rcvd'[log[i].conn] = rcvd[log[i].conn] + 1
        BY <1>2, <3>2
      <4> QED
        BY <3>1, <4>1, <4>2
    <3> QED
      BY <1>2, <3>1, <3>2, <3>3
  <2> QED
    BY <1>3, <2>1, <2>2
<1>7. OrderWithinConnection'
  <2> SUFFICES ASSUME NEW i \in DOMAIN log', NEW j \in DOMAIN log',
                      i < j, log'[i].conn = log'[j].conn
               PROVE  log'[i].frame < log'[j].frame
    BY DEF OrderWithinConnection
  <2>1. i \in DOMAIN log /\ log'[i] = log[i]
    BY <1>3
  <2>2. CASE j = n
    BY <1>3, <1>4, <2>1, <2>2
  <2>3. CASE j \in DOMAIN log
    BY <1>3, <2>1, <2>3 DEF Inv3, OrderWithinConnection
  <2> QED
    BY <1>3, <2>2, <2>3
<1>8. NoRepeat'
  BY <1>3, <1>5 DEF Inv3, NoRepeat
<1> QED
  BY <1>6, <1>7, <1>8 DEF Inv3

LEMMA StepInv3 == Inv1 /\ Inv2 /\ Inv3 /\ [Next]_vars => Inv3'
<1> SUFFICES ASSUME Inv1, Inv2, Inv3, [Next]_vars PROVE Inv3'
  OBVIOUS
<1>1. CASE \E c \in Conns : Store(c)
  BY <1>1, StoreInv3
<1>2. ASSUME log' = log, \A c \in Conns : rcvd'[c] \in Nat /\ rcvd[c] <= rcvd'[c]
      PROVE  Inv3'
  <2>1. LogReceived'
    <3> SUFFICES ASSUME NEW i \in DOMAIN log
                 PROVE  \E k \in 1..rcvd'[log[i].conn] : log[i].frame = sent'[log[i].conn][k]
      BY <1>2 DEF LogReceived
    <3>1. PICK k \in 1..rcvd[log[i].conn] : log[i].frame = sent[log[i].conn][k]
      BY DEF Inv3, LogReceived
    <3>2. log[i].conn \in Conns /\ k \in DOMAIN sent[log[i].conn]
      BY LogTypes
    <3>3. sent'[log[i].conn][k] = sent[log[i].conn][k]
      BY <3>2, SentGrows
    <3>4. k \in 1..rcvd'[log[i].conn]
      <4>1. rcvd[log[i].conn] \in Nat /\ rcvd'[log[i].conn] \in Nat
        BY <1>2, <3>2, LogTypes
      <4>2. rcvd[log[i].conn] <= rcvd'[log[i].conn]
        BY <1>2, <3>2
      <4> QED
        BY <3>1, <4>1, <4>2
    <3> QED
      BY <3>1, <3>3, <3>4
  <2> QED
    BY <1>2, <2>1 DEF Inv3, OrderWithinConnection, NoRepeat
<1>3. CASE UNCHANGED <<log, rcvd>>
  <2>1. \A c \in Conns : rcvd'[c] \in Nat /\ rcvd[c] <= rcvd'[c]
    BY <1>3 DEF Inv1, TypeOK, LinkTypeOK
  <2> QED
    BY <1>2, <1>3, <2>1
<1>4. CASE \E c \in Conns : Arrived(c) /\ Take(c) /\ UNCHANGED <<log, sent>>
  <2>1. PICK c \in Conns : Take(c) /\ log' = log
    BY <1>4
  <2>2. \A d \in Conns : rcvd[d] \in Nat /\ rcvd'[d] = IF d = c THEN rcvd[d] + 1 ELSE rcvd[d]
    BY <2>1 DEF Take, Inv1, TypeOK, LinkTypeOK
  <2>3. \A d \in Conns : rcvd'[d] \in Nat /\ rcvd[d] <= rcvd'[d]
    BY <2>2
  <2> QED
    BY <1>2, <2>1, <2>3
<1> QED
  BY <1>1, <1>3, <1>4, LogShape

LEMMA InitInv3 == Init => Inv3
BY DEF Init, ServerInit, Inv3, LogReceived, OrderWithinConnection, NoRepeat

LEMMA Invariants123 == Spec => [](Inv1 /\ Inv2 /\ Inv3)
BY InitInv1, InitInv2, InitInv3, StepInv1, StepInv2, StepInv3, PTL DEF Spec

\* The records of a connection are stored in the order their frames were
\* produced, whatever breaks and whatever is retried.
THEOREM OrderWithin == Spec => []OrderWithinConnection
<1>1. Inv3 => OrderWithinConnection
  BY DEF Inv3
<1> QED
  BY <1>1, Invariants123, PTL

\* No frame is stored twice, if a write that fails sends nothing whole.
THEOREM NeverRepeats == Spec => []NoRepeat
<1>1. Inv3 => NoRepeat
  BY DEF Inv3
<1> QED
  BY <1>1, Invariants123, PTL
-----------------------------------------------------------------------------
\* Inv4: what an answered close says.

LEMMA InitInv4 == Init => Inv4
BY DEF Init, LinkInit, ServerInit, SenderInit, Inv4, CloseIsLast, CloseAt, Open, Ended, EndedIdle,
       ConfirmedReplied, OwnersBehind, ConfirmedBeforeNext

LEMMA Inv4Types ==
    ASSUME Inv1
    PROVE  /\ link \in [Conns -> {"idle", "up", "shut", "down"}]
           /\ fin \in [Conns -> BOOLEAN]
           /\ reply \in [Conns -> {"none", "closed", "error", "ack"}]
           /\ srv \in [Conns -> {"none", "open", "greeted", "reading", "done"}]
           /\ rcvd \in [Conns -> Nat] /\ reach \in [Conns -> Nat]
           /\ conn \in 0..dials /\ dials \in 0..MaxConns
           /\ \A c \in Conns : Len(sent[c]) \in Nat
BY DEF Inv1, TypeOK, LinkTypeOK, ServerTypeOK, SenderTypeOK

\* Steps of the sender that change no wire: pc moves, and a connection whose
\* close frame is out is not the one it moves on.
LEMMA QuietClose ==
    ASSUME Inv1, Inv4, NEW d \in Conns,
           UNCHANGED <<sent, reach, rcvd, fin, reply, srv, dials>>,
           Open(d)' => Open(d), Silent(d) => Silent(d)'
    PROVE  CloseAt(d)'
BY DEF Inv4, CloseIsLast, CloseAt

LEMMA RunClose ==
    ASSUME Inv1, Inv2, Inv4, RunStep, UNCHANGED serverVars
    PROVE  CloseIsLast'
<1> SUFFICES ASSUME NEW d \in Conns PROVE CloseAt(d)'
  BY DEF CloseIsLast
<1>0. CloseAt(d)
  BY DEF Inv4, CloseIsLast
<1>1. CASE RunRetired \/ TakeHead \/ QueueDrained \/ DialRetired \/ DialBegins \/ DialFails
  <2>1. UNCHANGED <<link, sent, reach, rcvd, fin, reply, srv, conn, dials>>
    BY <1>1 DEF RunRetired, TakeHead, QueueDrained, DialRetired, DialBegins, DialFails,
                linkVars, serverVars
  <2>2. pc # "await" /\ pc' # "hello" 
    BY <1>1 DEF RunRetired, TakeHead, QueueDrained, DialRetired, DialBegins, DialFails
  <2> QED
    BY <2>1, <2>2, QuietClose DEF Silent, Open
<1>2. CASE HelloRead
  <2>1. UNCHANGED <<link, sent, reach, rcvd, fin, reply, srv, dials>>
    BY <1>2 DEF HelloRead, linkVars, serverVars
  <2>2. pc = "hello" /\ pc' = "write" /\ conn' = dials
    BY <1>2 DEF HelloRead
  <2> QED
    BY <2>1, <2>2, QuietClose DEF Silent, Open
<1>3. CASE WriteOk \/ WriteFails
  <2>1. /\ pc = "write" /\ conn \in Conns /\ frame \in Frames
        /\ pc' = "top" /\ (conn' = conn \/ conn' = 0)
        /\ UNCHANGED <<rcvd, fin, reply, srv, dials>>
        /\ link' = link \/ link' = Shut(conn)
        /\ \/ UNCHANGED <<sent, reach>>
           \/ link[conn] = "up" /\ Transmit(conn, frame)
    BY <1>3, AtWrite DEF WriteOk, WriteFails, serverVars
  <2>2. ~Silent(conn)
    BY <2>1 DEF Silent
  <2>3. Open(d)' => Open(d)
    BY <2>1, Inv4Types DEF Shut, Open
  <2>4. CASE d = conn
    <3>1. ~fin[d] /\ reply[d] # "closed"
      BY <1>0, <2>2, <2>4 DEF CloseAt
    <3>2. Open(d)' => reach'[d] = Len(sent'[d])
      <4>1. CASE UNCHANGED <<sent, reach>>
        BY <1>0, <2>3, <4>1 DEF CloseAt
      <4>2. CASE Transmit(conn, frame)
        <5>1. sent'[d] = Append(sent[d], frame) /\ reach'[d] = reach[d] + 1
          BY <2>1, <2>4, <4>2, TransmitType
        <5>2. sent[d] \in Seq(Frames)
          BY SentFrames
        <5>3. Len(sent'[d]) = Len(sent[d]) + 1
          BY <2>1, <5>1, <5>2
        <5> QED
          BY <1>0, <2>3, <5>1, <5>3 DEF CloseAt
      <4> QED
        BY <2>1, <4>1, <4>2
    <3> QED
      BY <1>0, <2>1, <3>1, <3>2 DEF CloseAt
  <2>5. CASE d # conn
    <3>1. sent'[d] = sent[d] /\ reach'[d] = reach[d]
      BY <2>1, <2>5, TransmitType
    <3>2. Silent(d) => Silent(d)'
      BY <2>1, <2>5 DEF Silent
    <3> QED
      BY <1>0, <2>1, <2>3, <3>1, <3>2 DEF CloseAt
  <2> QED
    BY <2>4, <2>5
<1>4. CASE FinishCloses
  <2>1. /\ pc = "finish" /\ pc' = "await" /\ conn' = conn /\ conn \in Conns
        /\ UNCHANGED <<link, sent, reach, rcvd, reply, srv, dials>>
    BY <1>4, Inv4Types DEF FinishCloses, serverVars, Inv1, ConnHeld
  <2>2. Silent(d) => Silent(d)'
    BY <2>1 DEF Silent
  <2>3. CASE d = conn
    <3>1. Silent(d)'
      BY <2>1, <2>3, Inv4Types DEF Silent
    <3>2. fin'[d] => link[d] = "up"
      BY <1>4, <2>1, <2>3, Inv4Types DEF FinishCloses
    <3> QED
      BY <1>0, <2>1, <3>1, <3>2 DEF CloseAt, Open
  <2>4. CASE d # conn
    <3>1. fin'[d] = fin[d]
      BY <1>4, <2>4, Inv4Types DEF FinishCloses
    <3> QED
      BY <1>0, <2>1, <2>2, <3>1 DEF CloseAt, Open
  <2> QED
    BY <2>3, <2>4
<1>5. CASE Confirmed \/ Unconfirmed
  <2>1. /\ UNCHANGED <<sent, reach, rcvd, fin, reply, srv, dials>>
        /\ link' = Shut(conn) /\ conn' = 0 /\ pc' = "done"
    BY <1>5 DEF Confirmed, Unconfirmed, AwaitEnds, serverVars
  <2>2. Open(d)' => Open(d)
    BY <2>1, Inv4Types DEF Shut, Open
  <2> QED
    BY <2>1, <2>2, QuietClose DEF Silent
<1> QED
  BY <1>1, <1>2, <1>3, <1>4, <1>5 DEF RunStep

LEMMA ProcessClose ==
    ASSUME Inv1, Inv4, ProcessStep, UNCHANGED serverVars
    PROVE  CloseIsLast'
<1> SUFFICES ASSUME NEW d \in Conns PROVE CloseAt(d)'
  BY DEF CloseIsLast
<1>1. UNCHANGED <<sent, reach, rcvd, fin, reply, srv, dials>>
  BY DEF ProcessStep, Produce, CloseQueue, GraceExpires, WaitReturns, Killed, Exit, NextStep,
         linkVars, serverVars
<1>2. Open(d)' => Open(d)
  BY DEF ProcessStep, Produce, CloseQueue, GraceExpires, WaitReturns, Killed, Exit, NextStep,
         linkVars, Open
<1>3. \/ conn' = conn /\ pc' = pc
      \/ conn' = 0 /\ pc' # "hello"
  BY DEF ProcessStep, Produce, CloseQueue, GraceExpires, WaitReturns, Killed, Exit, NextStep,
         Inv4, EndedIdle
<1> QED
  BY <1>1, <1>2, <1>3, QuietClose DEF Silent

LEMMA ServerClose ==
    ASSUME Inv1, Inv4, ServerStep, UNCHANGED senderVars
    PROVE  CloseIsLast'
<1> SUFFICES ASSUME NEW d \in Conns PROVE CloseAt(d)'
  BY DEF CloseIsLast
<1>0. CloseAt(d) /\ (Silent(d) => Silent(d)')
  BY DEF Inv4, CloseIsLast, Silent, senderVars
<1>1. CASE ServerCrash
  BY <1>0, <1>1 DEF ServerCrash, Open, CloseAt
<1>2. ASSUME NEW c \in Conns, HandlerStep(c) \/ HandlerAborts(c) \/ ReadTimesOut(c)
      PROVE  CloseAt(d)'
  <2>0. /\ UNCHANGED <<link, sent, reach, fin>>
        /\ srv[c] # "done"
        /\ c # d => srv'[d] = srv[d] /\ reply'[d] = reply[d] /\ rcvd'[d] = rcvd[d]
    BY <1>2, Inv4Types DEF HandlerStep, HandlerAborts, ReadTimesOut, Greet, OpenWriter, Store, Refuse,
       AppendFails, ReadClose, ReadEnds, AckAndReturn, Goto, Take, linkVars, Arrived, Drained
  <2>1. CASE c # d
    BY <1>0, <2>0, <2>1 DEF CloseAt, Open
  <2>2. CASE c = d
    <3>0. reply[d] = "none"
      BY <1>0, <2>0, <2>2, Inv4Types DEF CloseAt
    <3>1. CASE ReadClose(c)
      <4>1. reply'[d] = "closed" /\ srv'[d] = "done" /\ rcvd'[d] = rcvd[d]
        BY <2>2, <3>1, Inv4Types DEF ReadClose, Goto
      <4>2. rcvd[d] = Len(sent[d]) /\ Silent(d)
        BY <1>0, <2>2, <3>1 DEF ReadClose, Drained, CloseAt
      <4> QED
        BY <1>0, <2>0, <4>1, <4>2 DEF CloseAt, Open
    <3>2. CASE Refuse(c)
      <4>1. reply'[d] = "error" /\ srv'[d] = "done"
        BY <2>2, <3>2, Inv4Types DEF Refuse, Goto
      <4> QED
        BY <1>0, <2>0, <4>1 DEF CloseAt, Open
    <3>3. CASE ReadEnds(c) \/ ReadTimesOut(c)
      <4>1. reply'[d] = "ack" /\ srv'[d] = "done"
        BY <2>2, <3>3, Inv4Types DEF ReadEnds, ReadTimesOut, AckAndReturn, Goto
      <4> QED
        BY <1>0, <2>0, <4>1 DEF CloseAt, Open
    <3>4. CASE ~ReadClose(c) /\ ~Refuse(c) /\ ~ReadEnds(c) /\ ~ReadTimesOut(c)
      <4>1. reply' = reply
        BY <1>2, <3>4 DEF HandlerStep, HandlerAborts, ReadTimesOut, Greet, OpenWriter, Store,
           AppendFails, linkVars
      <4> QED
        BY <1>0, <2>0, <3>0, <4>1 DEF CloseAt, Open
    <3> QED
      BY <3>1, <3>2, <3>3, <3>4
  <2> QED
    BY <2>1, <2>2
<1> QED
  BY <1>1, <1>2 DEF ServerStep

LEMMA NetworkClose ==
    ASSUME Inv1, Inv4, NetworkStep
    PROVE  CloseIsLast'
<1> SUFFICES ASSUME NEW d \in Conns PROVE CloseAt(d)'
  BY DEF CloseIsLast
<1>0. CloseAt(d)
  BY DEF Inv4, CloseIsLast
<1>1. PICK c \in Conns : NetBreaks(c) \/ HandlerHangsUp(c)
  BY DEF NetworkStep
<1>2. /\ UNCHANGED <<sent, rcvd, reply, srv, dials, conn, pc>>
      /\ link' = [link EXCEPT ![c] = "down"]
  BY <1>1 DEF NetBreaks, HandlerHangsUp, Break, serverVars, senderVars
<1>3. Silent(d) => Silent(d)'
  BY <1>2 DEF Silent
<1>4. Open(d)' => Open(d) /\ d # c
  BY <1>2, Inv4Types DEF Open
<1>5. d # c => reach'[d] = reach[d] /\ fin'[d] = fin[d]
  BY <1>1, Inv4Types DEF NetBreaks, HandlerHangsUp, Break
<1>6. fin'[c] => reach'[c] = Len(sent[c]) /\ fin[c]
  <2>1. CASE HandlerHangsUp(c)
    BY <1>0, <2>1 DEF HandlerHangsUp, Inv4, CloseIsLast, CloseAt
  <2>2. CASE NetBreaks(c)
    BY <2>2, Inv4Types DEF NetBreaks, Break
  <2> QED
    BY <1>1, <2>1, <2>2
<1> QED
  BY <1>0, <1>2, <1>3, <1>4, <1>5, <1>6 DEF CloseAt

LEMMA DialClose ==
    ASSUME Inv1, Inv2, Inv4, DialOk \/ DialEnds
    PROVE  CloseIsLast'
<1> SUFFICES ASSUME NEW d \in Conns PROVE CloseAt(d)'
  BY DEF CloseIsLast
<1>0. CloseAt(d)
  BY DEF Inv4, CloseIsLast
<1>1. CASE DialOk
  <2>1. PICK c \in Conns : Dialled(c) /\ Accept(c)
    BY <1>1 DEF DialOk
  <2>2. /\ UNCHANGED <<sent, reach, rcvd, fin, reply, conn>>
        /\ link' = [link EXCEPT ![c] = "up"] /\ srv' = [srv EXCEPT ![c] = "open"]
        /\ c = dials + 1 /\ dials' = c /\ pc' = "hello" /\ pc = "dialling"
    BY <2>1 DEF Dialled, Accept, Goto
  <2>3. CASE d = c
    <3>1. Undialled(d)
      BY <2>2, <2>3, Inv4Types DEF Inv2, FreshConns
    <3>2. reach[d] = 0 /\ Len(sent[d]) = 0
      BY <3>1, Inv4Types DEF Undialled, Inv1, ReachBounded
    <3> QED
      BY <2>2, <3>1, <3>2 DEF CloseAt, Undialled
  <2>4. CASE d # c
    <3>1. Silent(d) => Silent(d)'
      BY <2>2, <2>4, Inv4Types DEF Silent
    <3>2. (Open(d)' => Open(d)) /\ srv'[d] = srv[d]
      BY <2>2, <2>4, Inv4Types DEF Open
    <3> QED
      BY <1>0, <2>2, <3>1, <3>2 DEF CloseAt
  <2> QED
    BY <2>3, <2>4
<1>2. CASE DialEnds
  <2>1. /\ UNCHANGED <<sent, reach, rcvd, fin, reply, srv, dials, conn>>
        /\ link' = Shut(dials) /\ pc' = "dial" /\ pc = "hello"
    BY <1>2 DEF DialEnds, HelloFails, serverVars
  <2>2. Open(d)' => Open(d)
    BY <2>1, Inv4Types DEF Shut, Open
  <2> QED
    BY <2>1, <2>2, QuietClose DEF Silent
<1> QED
  BY <1>1, <1>2

\* The ends of processes and the steps that own the connections.
LEMMA StepOwners ==
    ASSUME Inv1, Inv2, Inv4, [Next]_vars
    PROVE  EndedIdle' /\ OwnersBehind'
<1> USE DEF Inv4, EndedIdle, OwnersBehind
<1>0. /\ owner \in [Conns -> 0..NumSteps] /\ step \in 1..NumSteps
      /\ dials \in 0..MaxConns
  BY DEF Inv1, TypeOK, SenderTypeOK
<1>1. CASE RunStep
  BY <1>1, <1>0 DEF RunStep, RunRetired, TakeHead, QueueDrained, DialRetired, DialBegins, DialFails,
              HelloRead, WriteOk, WriteFails, FinishCloses, Confirmed, Unconfirmed, AwaitEnds,
              Ended
<1>2. CASE ProcessStep
  BY <1>2, <1>0 DEF ProcessStep, Produce, CloseQueue, GraceExpires, WaitReturns, Killed, Exit,
              NextStep, Ended
<1>3. CASE UNCHANGED senderVars
  BY <1>3 DEF senderVars, Ended
<1>4. CASE DialOk
  <2>1. /\ \E c \in Conns : c = dials + 1 /\ dials' = c /\ owner' = [owner EXCEPT ![c] = step]
        /\ pc = "dialling" /\ pc' = "hello" /\ UNCHANGED <<conn, step, wait>>
    BY <1>4 DEF DialOk, Dialled
  <2>2. conn \in 0..dials
    BY DEF Inv1, TypeOK, SenderTypeOK
  <2> QED
    BY <1>0, <2>1, <2>2 DEF Ended
<1>5. CASE DialEnds
  BY <1>5, <1>0 DEF DialEnds, HelloFails, Ended
<1> QED
  BY <1>1, <1>2, <1>3, <1>4, <1>5
     DEF Next, JobOver, vars, NetworkStep, NetBreaks, HandlerHangsUp

\* No record lands on a connection whose close was answered.
LEMMA StepConfirmed ==
    ASSUME Inv1, Inv2, Inv3, Inv4, [Next]_vars
    PROVE  ConfirmedReplied' /\ ConfirmedBeforeNext'
<1>0. /\ reply \in [Conns -> {"none", "closed", "error", "ack"}]
      /\ \A i \in DOMAIN log : log[i].conn \in Conns
      /\ \A c \in Conns : reply[c] # "none" => srv[c] = "done"
      /\ \A c \in confirmed : c \in Conns /\ reply[c] # "none"
  BY LogTypes DEF Inv1, TypeOK, LinkTypeOK, SenderTypeOK, Inv4, CloseIsLast, CloseAt,
                  ConfirmedReplied
<1>1. CASE Confirmed /\ UNCHANGED serverVars
  <2>1. /\ conn \in Conns /\ confirmed' = confirmed \cup {conn} /\ reply[conn] # "none"
        /\ UNCHANGED <<reply, log, owner>>
    BY <1>1, Inv4Types DEF Confirmed, AwaitEnds, serverVars, Inv1, ConnHeld
  <2>2. \A c \in Conns : owner[c] <= owner[conn]
    BY <2>1 DEF Inv4, OwnersBehind
  <2> QED
    BY <1>0, <2>1, <2>2 DEF Inv4, ConfirmedReplied, ConfirmedBeforeNext
<1>2. CASE ~Confirmed
  <2>1. confirmed' = confirmed
    BY <1>2 DEF Next, RunStep, RunRetired, TakeHead, QueueDrained, DialRetired, DialBegins, DialFails,
              HelloRead, WriteOk, WriteFails, FinishCloses, Unconfirmed, ProcessStep, Produce,
              CloseQueue, GraceExpires, WaitReturns, Killed, Exit, NextStep, NetworkStep,
              NetBreaks, HandlerHangsUp, DialOk, Dialled, DialEnds, HelloFails, JobOver, vars, senderVars
  <2>2. \A c \in Conns : reply[c] # "none" => reply'[c] # "none"
    <3>1. CASE UNCHANGED reply
      BY <3>1
    <3>2. CASE \E c \in Conns : Refuse(c) \/ ReadClose(c) \/ ReadEnds(c) \/ ReadTimesOut(c)
      BY <1>0, <3>2 DEF Refuse, ReadClose, ReadEnds, ReadTimesOut, AckAndReturn
    <3> QED
      BY <3>1, <3>2 DEF Next, RunStep, RunRetired, TakeHead, QueueDrained, DialRetired, DialBegins,
              DialFails, HelloRead, WriteOk, WriteFails, FinishCloses, Confirmed, Unconfirmed, AwaitEnds,
              ProcessStep, Produce, CloseQueue, GraceExpires, WaitReturns, Killed, Exit, NextStep,
              NetworkStep, NetBreaks, Break, HandlerHangsUp, DialOk, Dialled, DialEnds, HelloFails,
              JobOver, vars, linkVars, ServerStep, HandlerStep, HandlerAborts, ReadTimesOut, Greet, OpenWriter,
              Store, AppendFails, ServerCrash
  <2>3. ConfirmedReplied'
    BY <1>0, <2>1, <2>2 DEF ConfirmedReplied
  <2>4. \A i \in DOMAIN log : owner'[log[i].conn] = owner[log[i].conn]
    <3>1. CASE UNCHANGED owner
      BY <3>1
    <3>2. CASE DialOk
      <4>1. PICK c \in Conns : c = dials + 1 /\ owner' = [owner EXCEPT ![c] = step]
        BY <3>2 DEF DialOk, Dialled
      <4>2. \A i \in DOMAIN log : log[i].conn # c
        <5> SUFFICES ASSUME NEW i \in DOMAIN log, log[i].conn = c PROVE FALSE
          OBVIOUS
        <5>1. PICK k \in 1..rcvd[c] : log[i].frame = sent[c][k]
          BY DEF Inv3, LogReceived
        <5>2. k \in DOMAIN sent[c]
          BY LogTypes
        <5>3. sent[c] = <<>>
          BY <4>1, Inv4Types DEF Inv2, FreshConns, Undialled
        <5> QED
          BY <5>2, <5>3
      <4>3. owner \in [Conns -> 0..NumSteps]
        BY DEF Inv1, TypeOK, SenderTypeOK
      <4> QED
        BY <1>0, <4>1, <4>2, <4>3
    <3> QED
      BY <3>1, <3>2 DEF Next, RunStep, RunRetired, TakeHead, QueueDrained, DialRetired, DialBegins,
              DialFails, HelloRead, WriteOk, WriteFails, FinishCloses, Confirmed, Unconfirmed, AwaitEnds,
              ProcessStep, Produce, CloseQueue, GraceExpires, WaitReturns, Killed, Exit, NextStep,
              NetworkStep, NetBreaks, HandlerHangsUp, DialEnds, HelloFails, JobOver, vars, senderVars
  <2>5. ASSUME log' = log PROVE ConfirmedBeforeNext'
    <3> SUFFICES ASSUME NEW i \in DOMAIN log', NEW j \in DOMAIN log', i < j,
                        log'[j].conn \in confirmed'
                 PROVE  owner'[log'[i].conn] <= owner'[log'[j].conn]
      BY DEF ConfirmedBeforeNext
    <3>1. i \in DOMAIN log /\ j \in DOMAIN log /\ log[j].conn \in confirmed
      BY <2>1, <2>5
    <3> QED
      BY <2>4, <2>5, <3>1 DEF Inv4, ConfirmedBeforeNext
  <2>6. ASSUME \E c \in Conns : Store(c) /\ UNCHANGED senderVars
        PROVE  ConfirmedBeforeNext'
    <3>1. PICK c \in Conns : Store(c) /\ UNCHANGED senderVars
      BY <2>6
    <3> DEFINE n == Len(log) + 1
    <3>2. c \notin confirmed
      BY <1>0, <3>1 DEF Store, Arrived
    <3>3. log'[n] = Record(c, NextFrame(c))
      BY <3>1, LogAppend
    <3>4. /\ n \in Nat
          /\ DOMAIN log' = DOMAIN log \cup {n}
          /\ \A i \in DOMAIN log : i \in Nat /\ i < n /\ log'[i] = log[i]
      <4>1. /\ Len(log) \in Nat /\ DOMAIN log' = DOMAIN log \cup {Len(log) + 1}
            /\ \A i \in DOMAIN log : i \in Nat /\ i <= Len(log) /\ log'[i] = log[i]
        BY <3>1, LogAppend
      <4> QED
        BY <4>1
    <3> HIDE DEF n
    <3>5. log'[n].conn = c
      BY <3>3 DEF Record
    <3> SUFFICES ASSUME NEW i \in DOMAIN log', NEW j \in DOMAIN log', i < j,
                        log'[j].conn \in confirmed'
                 PROVE  owner'[log'[i].conn] <= owner'[log'[j].conn]
      BY DEF ConfirmedBeforeNext
    <3>0. owner' = owner /\ confirmed' = confirmed
      BY <3>1 DEF senderVars
    <3>6. j # n
      BY <3>0, <3>2, <3>5
    <3>7. j \in DOMAIN log /\ j < n
      BY <3>4, <3>6
    <3>8. i \in DOMAIN log
      BY <3>4, <3>7
    <3> QED
      BY <3>0, <3>4, <3>7, <3>8 DEF Inv4, ConfirmedBeforeNext
  <2> QED
    BY <2>3, <2>5, <2>6, LogShape DEF ConfirmedBeforeNext
<1>3. Confirmed => UNCHANGED serverVars
  <2> SUFFICES ASSUME Confirmed PROVE UNCHANGED serverVars
    OBVIOUS
  <2>1. pc = "await" /\ pc' = "done"
    BY DEF Confirmed, AwaitEnds
  <2> QED
    BY <2>1 DEF Next, NetworkStep, NetBreaks, HandlerHangsUp, DialOk, Dialled, DialEnds, JobOver,
                vars, senderVars
<1> QED
  BY <1>1, <1>2, <1>3

LEMMA StepInv4 == Inv1 /\ Inv2 /\ Inv3 /\ Inv4 /\ [Next]_vars => Inv4'
<1> SUFFICES ASSUME Inv1, Inv2, Inv3, Inv4, [Next]_vars PROVE Inv4'
  OBVIOUS
<1>1. CloseIsLast'
  <2>1. CASE UNCHANGED vars
    BY <2>1 DEF vars, linkVars, serverVars, senderVars, Inv4, CloseIsLast, CloseAt, Open, Silent
  <2> QED
    BY <2>1, RunClose, ProcessClose, ServerClose, NetworkClose, DialClose DEF Next, JobOver
<1> QED
  BY <1>1, StepOwners, StepConfirmed DEF Inv4

LEMMA Invariants == Spec => [](Inv1 /\ Inv4)
BY InitInv1, InitInv2, InitInv3, InitInv4, StepInv1, StepInv2, StepInv3, StepInv4, PTL DEF Spec

\* A connection whose close was answered has no tail that lands after a later
\* step's output.
THEOREM ConfirmedHasNoTail == Spec => []ConfirmedBeforeNext
<1>1. Inv4 => ConfirmedBeforeNext
  BY DEF Inv4
<1> QED
  BY <1>1, Invariants, PTL

-----------------------------------------------------------------------------
\* The refinement of Delivery, and the queue of a sender that is not retired.

\* The queue.  It is open while the command runs, and run() comes to the end of
\* the stream, before quit is closed, only with a closed and empty queue.
DrainInv ==
    /\ wait = "running" => ~closed
    /\ pc \in {"finish", "await", "done"} /\ wait \in {"running", "grace"} =>
          closed /\ Empty

LEMMA InitDrain == Init => DrainInv
BY DEF Init, SenderInit, DrainInv

LEMMA StepDrain == Inv1 /\ DrainInv /\ [Next]_vars => DrainInv'
<1> SUFFICES ASSUME Inv1, DrainInv, [Next]_vars PROVE DrainInv'
  OBVIOUS
<1>1. CASE RunStep
  <2>1. CASE RunRetired \/ TakeHead \/ QueueDrained \/ DialRetired \/ DialBegins \/ DialFails
    BY <2>1 DEF RunRetired, TakeHead, QueueDrained, DialRetired, DialBegins, DialFails,
                DrainInv, Empty, Retired
  <2>2. CASE HelloRead \/ WriteOk \/ WriteFails
    BY <2>2 DEF HelloRead, WriteOk, WriteFails, DrainInv
  <2>3. CASE FinishCloses \/ Confirmed \/ Unconfirmed
    BY <2>3 DEF FinishCloses, Confirmed, Unconfirmed, AwaitEnds, DrainInv, Empty
  <2> QED
    BY <1>1, <2>1, <2>2, <2>3 DEF RunStep
<1>2. CASE ProcessStep
  BY <1>2 DEF ProcessStep, Produce, CloseQueue, GraceExpires, WaitReturns, Killed, Exit,
              NextStep, Ended, DrainInv, Empty
<1>3. CASE UNCHANGED senderVars
  BY <1>3 DEF senderVars, DrainInv, Empty
<1>4. CASE DialOk \/ DialEnds
  BY <1>4 DEF DialOk, Dialled, DialEnds, HelloFails, DrainInv
<1> QED
  BY <1>1, <1>2, <1>3, <1>4
     DEF Next, NetworkStep, NetBreaks, HandlerHangsUp, JobOver, vars

\* A sender that ends before quit is closed has emptied its queue.
THEOREM QueueDrains == Spec => []DrainedOrRetired
<1>1. DrainInv => DrainedOrRetired
  BY DEF DrainInv, DrainedOrRetired
<1> QED
  BY <1>1, InitInv1, StepInv1, InitDrain, StepDrain, PTL DEF Spec

-----------------------------------------------------------------------------
\* The refinement of Delivery, in terms of what it sees of the job.
todoNow    == ((popped + 1)..pushed) \cup ToWrite
transitNow == UNION {InFlight(c) : c \in Conns}
streamNow  == [i \in DOMAIN log |-> log[i].frame]

MapNext == AtMostOnceDelivery!DNext
MapVars == AtMostOnceDelivery!deliveryVars

\* A step that gives frames up, or none.
LEMMA MapsToLoses ==
    ASSUME pushed' = pushed, log' = log,
           todoNow' \subseteq todoNow, transitNow' \subseteq transitNow
    PROVE  MapNext
BY DEF MapNext, AtMostOnceDelivery!DNext, AtMostOnceDelivery!Loses,
       todoNow, transitNow

\* What is in flight moves with the connections and the handlers alone.
LEMMA SameFlight ==
    ASSUME UNCHANGED <<srv, sent, reach, rcvd>>
    PROVE  transitNow' = transitNow
BY DEF transitNow, InFlight

\* A step that does not touch what Delivery sees.
LEMMA FewerInFlight ==
    ASSUME \A c \in Conns : InFlight(c)' \subseteq InFlight(c)
    PROVE  transitNow' \subseteq transitNow
BY DEF transitNow

LEMMA InitDelivery == Init => AtMostOnceDelivery!DInit
<1> SUFFICES ASSUME Init PROVE AtMostOnceDelivery!DInit
  OBVIOUS
<1>1. popped = 0 /\ pushed = 0 /\ ToWrite = {}
  BY DEF Init, SenderInit, ToWrite
<1>2. \A c \in Conns : InFlight(c) = {}
  BY DEF Init, LinkInit, InFlight
<1>3. streamNow = <<>>
  BY DEF Init, ServerInit, streamNow
<1> QED
  BY <1>1, <1>2, <1>3 DEF AtMostOnceDelivery!DInit, streamNow

\* What the arithmetic below is about.
LEMMA SenderTypes ==
    ASSUME Inv1
    PROVE  /\ pushed \in Nat /\ pushed <= NumFrames
           /\ popped \in Nat /\ popped <= pushed /\ frame \in Nat
           /\ ToWrite \subseteq 1..pushed
           /\ conn \in 0..dials /\ dials \in 0..MaxConns
<1>1. pushed \in Nat /\ pushed <= NumFrames /\ popped \in Nat /\ popped <= pushed /\ frame \in Nat
      /\ conn \in 0..dials /\ dials \in 0..MaxConns
  BY DEF Inv1, TypeOK, SenderTypeOK
<1>2. ToWrite \subseteq 1..pushed
  BY DEF Inv1, FrameTaken, InIteration, ToWrite
<1> QED
  BY <1>1, <1>2

LEMMA RunDelivers ==
    ASSUME Inv1, Inv2, Inv4, ~AmbiguousWrite, RunStep, UNCHANGED serverVars
    PROVE  MapNext
<1>0. log' = log /\ srv' = srv
  BY DEF serverVars
<1>1. CASE \/ RunRetired \/ QueueDrained \/ DialRetired \/ DialBegins \/ DialFails
           \/ FinishCloses \/ Confirmed \/ Unconfirmed
  <2>1. UNCHANGED <<sent, reach, rcvd, pushed, popped>>
    BY <1>1 DEF RunRetired, QueueDrained, DialRetired, DialBegins, DialFails, FinishCloses,
                Confirmed, Unconfirmed, AwaitEnds, linkVars
  <2>2. ToWrite' \subseteq ToWrite
    BY <1>1 DEF RunRetired, QueueDrained, DialRetired, DialBegins, DialFails, FinishCloses,
                Confirmed, Unconfirmed, AwaitEnds, ToWrite
  <2> QED
    BY <1>0, <2>1, <2>2, SameFlight, MapsToLoses DEF todoNow
<1>2. CASE TakeHead
  <2>1. UNCHANGED <<sent, reach, rcvd, pushed, popped>>
    BY <1>2 DEF TakeHead, linkVars
  <2>2. ToWrite' = {popped + 1} /\ popped # pushed
    BY <1>2 DEF TakeHead, Empty, ToWrite
  <2>3. popped + 1 \in (popped + 1)..pushed
    BY <2>2, SenderTypes
  <2> QED
    BY <1>0, <2>1, <2>2, <2>3, SameFlight, MapsToLoses DEF todoNow
<1>3. CASE HelloRead
  <2>1. UNCHANGED <<sent, reach, rcvd, pushed>> /\ ToWrite' = ToWrite
    BY <1>3 DEF HelloRead, linkVars, ToWrite
  <2>2. popped' \in Nat /\ popped <= popped'
    BY <1>3, SenderTypes DEF HelloRead, Pop
  <2>3. (popped' + 1)..pushed \subseteq (popped + 1)..pushed
    BY <2>2, SenderTypes
  <2> QED
    BY <1>0, <2>1, <2>3, SameFlight, MapsToLoses DEF todoNow
<1>4. CASE WriteFails
  <2>1. UNCHANGED <<sent, reach, rcvd, pushed, popped>> /\ ToWrite' = {}
    BY <1>4 DEF WriteFails, ToWrite
  <2> QED
    BY <1>0, <2>1, SameFlight, MapsToLoses DEF todoNow
<1>5. CASE WriteOk
  <2>1. frame \in Frames /\ conn \in Conns /\ Transmit(conn, frame) /\ rcvd' = rcvd
    BY <1>5, AtWrite DEF WriteOk
  <2>2. frame \in todoNow /\ todoNow' \subseteq todoNow \ {frame}
    <3>1. pushed' = pushed /\ ToWrite = {frame} /\ ToWrite' = {}
      BY <1>5 DEF WriteOk, ToWrite
    <3>2. frame <= popped + 1
      BY <1>5 DEF WriteOk, Inv1, FrameTaken, InIteration
    <3>3. popped' \in Nat /\ popped <= popped' /\ frame \notin (popped' + 1)..pushed
      BY <1>5, <3>2, SenderTypes DEF WriteOk, Pop, Empty
    <3>4. (popped' + 1)..pushed \subseteq (popped + 1)..pushed
      BY <3>3, SenderTypes
    <3> QED
      BY <3>1, <3>3, <3>4 DEF todoNow
  <2>3. PICK d \in Conns, f \in Frames : d = conn /\ f = frame
    BY <2>1
  <2>4. /\ sent'[d] = Append(sent[d], f) /\ reach'[d] = reach[d] + 1
        /\ \A c \in Conns : c # d => sent'[c] = sent[c] /\ reach'[c] = reach[c]
    BY <2>1, <2>3, TransmitType
  <2>5. ASSUME NEW c \in Conns, c # d PROVE InFlight(c)' = InFlight(c)
    <3>1. sent'[c] = sent[c] /\ reach'[c] = reach[c] /\ rcvd'[c] = rcvd[c] /\ srv'[c] = srv[c]
      BY <1>0, <2>1, <2>4, <2>5
    <3> QED
      BY <3>1 DEF InFlight
  <2>6. CASE srv[d] = "done"
    <3>1. InFlight(d)' = {}
      BY <1>0, <2>6 DEF InFlight
    <3>2. \A c \in Conns : InFlight(c)' \subseteq InFlight(c)
      BY <2>5, <3>1
    <3>3. pushed' = pushed /\ todoNow' \subseteq todoNow
      BY <1>5, <2>2 DEF WriteOk
    <3> QED
      BY <1>0, <3>2, <3>3, FewerInFlight, MapsToLoses
  <2>7. CASE srv[d] # "done"
    <3> DEFINE a == rcvd[d]
               s == sent[d]
    <3>1. reach[d] = Len(s) /\ a <= reach[d]
      BY <1>5, <2>3 DEF WriteOk, Inv1, ReachBounded, Inv4, CloseIsLast, CloseAt, Open
    <3>2. a \in Nat /\ s \in Seq(Frames) /\ Len(s) \in Nat /\ a <= Len(s)
      BY <2>3, <3>1 DEF Inv1, TypeOK, LinkTypeOK
    <3>3. InFlight(d) = {s[k] : k \in (a + 1)..Len(s)}
      BY <2>7, <3>1 DEF InFlight
    <3>4. InFlight(d)' = {Append(s, f)[k] : k \in (a + 1)..(Len(s) + 1)}
      <4>1. srv'[d] # "done" /\ rcvd'[d] = a /\ reach'[d] = Len(s) + 1 /\ sent'[d] = Append(s, f)
        BY <1>0, <2>1, <2>4, <2>7, <3>1
      <4>2. InFlight(d)' = {sent'[d][k] : k \in (rcvd'[d] + 1)..reach'[d]}
        BY <4>1 DEF InFlight
      <4> QED
        BY <4>1, <4>2
    <3>5. InFlight(d)' = InFlight(d) \cup {f}
      <4> HIDE DEF a, s
      <4>1. \A k \in (a + 1)..Len(s) : Append(s, f)[k] = s[k]
        BY <3>2
      <4>2. Append(s, f)[Len(s) + 1] = f
        BY <3>2
      <4>3. (a + 1)..(Len(s) + 1) = ((a + 1)..Len(s)) \cup {Len(s) + 1}
        BY <3>2
      <4> QED
        BY <3>3, <3>4, <4>1, <4>2, <4>3
    <3>6. transitNow' = transitNow \cup {f}
      <4>1. transitNow' = UNION {InFlight(c)' : c \in Conns}
        BY DEF transitNow
      <4>2. ASSUME NEW x PROVE x \in transitNow' <=> x \in transitNow \cup {f}
        BY <2>3, <2>5, <3>5, <4>1 DEF transitNow
      <4> QED
        BY <4>2
    <3>7. AtMostOnceDelivery!Sends(frame)
      BY <1>0, <1>5, <2>2, <2>3, <3>6
         DEF WriteOk, AtMostOnceDelivery!Sends, todoNow, transitNow, streamNow
    <3> QED
      BY <2>1, <3>7 DEF MapNext, AtMostOnceDelivery!DNext
  <2> QED
    BY <2>6, <2>7
<1> QED
  BY <1>1, <1>2, <1>3, <1>4, <1>5 DEF RunStep

LEMMA ProcessDelivers ==
    ASSUME Inv1, ProcessStep, UNCHANGED serverVars
    PROVE  MapNext
<1>0. log' = log /\ srv' = srv
  BY DEF serverVars
<1>1. UNCHANGED <<sent, reach, rcvd>>
  BY DEF ProcessStep, Produce, CloseQueue, GraceExpires, WaitReturns, Killed, Exit, NextStep,
         linkVars
<1>2. transitNow' = transitNow
  BY <1>0, <1>1, SameFlight
<1>3. CASE CloseQueue \/ GraceExpires \/ WaitReturns \/ Killed \/ NextStep
  <2>1. pushed' = pushed /\ popped' \in {popped, pushed}
    BY <1>3 DEF CloseQueue, GraceExpires, WaitReturns, Killed, Exit, NextStep
  <2>2. ToWrite' \subseteq ToWrite
    BY <1>3 DEF CloseQueue, GraceExpires, WaitReturns, Killed, Exit, NextStep, ToWrite
  <2>3. (popped' + 1)..pushed \subseteq (popped + 1)..pushed
    BY <2>1, SenderTypes
  <2> QED
    BY <1>0, <1>2, <2>1, <2>2, <2>3, MapsToLoses DEF todoNow
<1>4. CASE Produce
  <2>1. pushed' = pushed + 1 /\ pushed + 1 \in Frames /\ popped' = popped /\ ToWrite' = ToWrite
    BY <1>4, SenderTypes DEF Produce, ToWrite
  <2>2. 1..(pushed + 1) = 1..pushed \cup {pushed + 1} /\ pushed + 1 \notin 1..pushed
    BY SenderTypes, SMTT(30)
  <2>3. (popped + 1)..(pushed + 1) = ((popped + 1)..pushed) \cup {pushed + 1}
    BY SenderTypes
  <2>4. todoNow' = todoNow \cup {pushed + 1}
    BY <2>1, <2>3 DEF todoNow
  <2>5. AtMostOnceDelivery!Produces(pushed + 1)
    BY <1>0, <1>2, <2>1, <2>2, <2>4
       DEF AtMostOnceDelivery!Produces, todoNow, transitNow, streamNow
  <2> QED
    BY <2>1, <2>5 DEF MapNext, AtMostOnceDelivery!DNext
<1> QED
  BY <1>3, <1>4 DEF ProcessStep

\* What is in flight was sent.
LEMMA FlightSent ==
    ASSUME Inv1, NEW c \in Conns
    PROVE  /\ rcvd[c] \in Nat /\ reach[c] \in Nat /\ rcvd[c] <= reach[c]
           /\ \A k \in (rcvd[c] + 1)..reach[c] : k \in DOMAIN sent[c]
<1>1. rcvd[c] \in Nat /\ reach[c] \in Nat /\ sent[c] \in Seq(Frames)
  BY DEF Inv1, TypeOK, LinkTypeOK
<1>2. rcvd[c] <= reach[c] /\ reach[c] <= Len(sent[c])
  BY DEF Inv1, ReachBounded
<1> QED
  BY <1>1, <1>2

\* A stored frame leaves the flight, and no copy of it is left there.
LEMMA StoreFlight ==
    ASSUME Inv1, Inv2, ~AmbiguousWrite, NEW c \in Conns, Store(c)
    PROVE  /\ NextFrame(c) \in transitNow
           /\ transitNow' = transitNow \ {NextFrame(c)}
<1> DEFINE f == NextFrame(c)
           a == rcvd[c]
<1>1. /\ srv[c] = "reading" /\ a < reach[c] /\ f = sent[c][a + 1]
      /\ UNCHANGED <<sent, reach, srv>>
      /\ rcvd' = [rcvd EXCEPT ![c] = a + 1]
  BY DEF Store, Arrived, Take, NextFrame
<1>2. a \in Nat /\ reach[c] \in Nat /\ \A k \in (a + 1)..reach[c] : k \in DOMAIN sent[c]
  BY FlightSent
<1>3. InFlight(c) = {sent[c][k] : k \in (a + 1)..reach[c]}
  BY <1>1 DEF InFlight
<1>4. rcvd'[c] = a + 1 /\ \A d \in Conns : d # c => rcvd'[d] = rcvd[d]
  BY <1>1 DEF Inv1, TypeOK, LinkTypeOK
<1>5. InFlight(c)' = {sent[c][k] : k \in (a + 2)..reach[c]}
  <2>1. InFlight(c)' = {sent[c][k] : k \in (rcvd'[c] + 1)..reach[c]}
    BY <1>1 DEF InFlight
  <2>2. (a + 1) + 1 = a + 2
    BY <1>2
  <2> QED
    BY <1>4, <2>1, <2>2
<1>6. f \in InFlight(c)
  <2>1. a + 1 \in (a + 1)..reach[c]
    BY <1>1, <1>2
  <2> QED
    BY <1>1, <1>3, <2>1
<1>7. InFlight(c)' = InFlight(c) \ {f}
  <2>1. \A k \in (a + 2)..reach[c] : sent[c][k] # f
    <3> SUFFICES ASSUME NEW k \in (a + 2)..reach[c] PROVE sent[c][k] # f
      OBVIOUS
    <3>1. k \in DOMAIN sent[c] /\ a + 1 \in DOMAIN sent[c] /\ a + 1 < k
      BY <1>1, <1>2, SMTT(30)
    <3>2. f < sent[c][k] /\ f \in Int /\ sent[c][k] \in Int
      BY <1>1, <3>1, SentFrames DEF Inv2, SentIncreasing
    <3> QED
      BY <3>2
  <2>2. (a + 1)..reach[c] = {a + 1} \cup ((a + 2)..reach[c])
    BY <1>1, <1>2
  <2> QED
    BY <1>1, <1>3, <1>5, <2>1, <2>2
<1>8. ASSUME NEW d \in Conns, d # c
      PROVE  InFlight(d)' = InFlight(d) /\ f \notin InFlight(d)
  <2>1. InFlight(d)' = InFlight(d)
    BY <1>1, <1>4, <1>8 DEF InFlight
  <2>2. \A k \in (rcvd[d] + 1)..reach[d] : sent[d][k] # f
    <3>1. a + 1 \in DOMAIN sent[c]
      BY <1>1, <1>2
    <3> QED
      BY <1>1, <1>8, <3>1, FlightSent DEF Inv2, SentApart
  <2> QED
    BY <2>1, <2>2 DEF InFlight
<1>9. transitNow' = UNION {InFlight(d)' : d \in Conns}
  BY DEF transitNow
<1>10. ASSUME NEW x PROVE x \in transitNow' <=> x \in transitNow \ {f}
  <2> HIDE DEF f
  <2> QED
    BY <1>7, <1>8, <1>9 DEF transitNow
<1> QED
  BY <1>6, <1>10 DEF transitNow

LEMMA AppendAs ==
    ASSUME NEW S, NEW q \in Seq(S), NEW e \in S
    PROVE  Append(q, e) = [i \in 1..(Len(q) + 1) |-> IF i = Len(q) + 1 THEN e ELSE q[i]]
<1> DEFINE g == [i \in 1..(Len(q) + 1) |-> IF i = Len(q) + 1 THEN e ELSE q[i]]
<1>1. Append(q, e) \in Seq(S) /\ Len(Append(q, e)) = Len(q) + 1
  OBVIOUS
<1>2. Append(q, e) \in [1..(Len(q) + 1) -> S]
  <2> DEFINE r == Append(q, e)
  <2>1. r \in Seq(S) /\ Len(r) = Len(q) + 1
    BY <1>1
  <2> HIDE DEF r
  <2>2. r \in [1..Len(r) -> S]
    BY <2>1
  <2> QED
    BY <2>1, <2>2 DEF r
<1>3. \A i \in 1..(Len(q) + 1) : Append(q, e)[i] = g[i]
  OBVIOUS
<1> QED
  BY <1>2, <1>3

LEMMA FunctionIsSeq ==
    ASSUME NEW S, NEW n \in Nat, NEW q \in [1..n -> S]
    PROVE  q \in Seq(S) /\ Len(q) = n
OBVIOUS

LEMMA StoreDelivers ==
    ASSUME Inv1, Inv2, ~AmbiguousWrite, NEW c \in Conns, Store(c), UNCHANGED senderVars
    PROVE  MapNext
<1> DEFINE f == NextFrame(c)
<1>1. f \in Frames /\ f \in transitNow /\ transitNow' = transitNow \ {f}
  BY StoreFlight, AtArrival DEF Store
<1>2. pushed' = pushed /\ todoNow' = todoNow
  BY DEF senderVars, todoNow, ToWrite
<1>3. streamNow' = Append(streamNow, f)
  <2> DEFINE n == Len(log) + 1
  <2>1. /\ Len(log) \in Nat /\ DOMAIN log' = DOMAIN log \cup {n}
        /\ \A i \in DOMAIN log : log'[i] = log[i]
        /\ log'[n].frame = f
    <3>1. log'[n] = Record(c, f)
      BY LogAppend
    <3>2. log'[n].frame = f
      BY <3>1 DEF Record
    <3> QED
      BY <3>2, LogAppend
  <2>2. DOMAIN log = 1..Len(log)
    BY LogTypes
  <2>3. streamNow \in Seq(Frames) /\ Len(streamNow) = Len(log)
    <3>1. streamNow \in [1..Len(log) -> Frames]
      BY <2>2, LogTypes DEF streamNow
    <3> QED
      BY <2>1, <3>1, FunctionIsSeq
  <2>4. streamNow' = [i \in 1..n |-> log'[i].frame]
    <3>1. DOMAIN log' = 1..n
      BY <2>1, <2>2
    <3> QED
      BY <3>1 DEF streamNow
  <2>5. \A i \in 1..Len(log) : log'[i].frame = streamNow[i]
    BY <2>1, <2>2 DEF streamNow
  <2>6. Append(streamNow, f) = [i \in 1..n |-> IF i = n THEN f ELSE streamNow[i]]
    <3> DEFINE q == streamNow
    <3>1. q \in Seq(Frames) /\ Len(q) \in Nat /\ f \in Frames /\ n = Len(q) + 1
      BY <1>1, <2>1, <2>3
    <3>2. Append(q, f) = [i \in 1..(Len(q) + 1) |-> IF i = Len(q) + 1 THEN f ELSE q[i]]
      <4> DEFINE S == Frames
      <4>1. q \in Seq(S) /\ f \in S
        BY <3>1
      <4> HIDE DEF f, q, S
      <4> QED
        BY <4>1, AppendAs
    <3> HIDE DEF f, q, n
    <3>3. Append(q, f) = [i \in 1..n |-> IF i = n THEN f ELSE q[i]]
      BY <3>1, <3>2
    <3> QED
      BY <3>3 DEF q
  <2>7. \A i \in 1..n : i = n \/ i \in 1..Len(log)
    BY <2>1
  <2> HIDE DEF f
  <2> QED
    BY <2>1, <2>4, <2>5, <2>6, <2>7
<1>4. PICK g \in Frames : g = f
  BY <1>1
<1>5. g \in transitNow /\ transitNow' = transitNow \ {g} /\ streamNow' = Append(streamNow, g)
  BY <1>1, <1>3, <1>4
<1> HIDE DEF f
<1>6. AtMostOnceDelivery!Stores(g)
  BY <1>2, <1>5 DEF AtMostOnceDelivery!Stores, todoNow, transitNow, streamNow
<1> QED
  BY <1>6 DEF MapNext, AtMostOnceDelivery!DNext

\* Fewer frames of a connection are in flight when less of it can arrive, when
\* more of it was read, and when its handler is gone.
LEMMA FlightShrinks ==
    ASSUME Inv1, NEW c \in Conns, sent'[c] = sent[c],
           rcvd'[c] \in Int, reach'[c] \in Int,
           rcvd[c] <= rcvd'[c], reach'[c] <= reach[c],
           srv[c] = "done" => srv'[c] = "done"
    PROVE  InFlight(c)' \subseteq InFlight(c)
<1>1. CASE srv'[c] = "done"
  BY <1>1 DEF InFlight
<1>2. CASE srv'[c] # "done"
  <2>1. InFlight(c)' = {sent[c][k] : k \in (rcvd'[c] + 1)..reach'[c]}
    BY <1>2 DEF InFlight
  <2>2. InFlight(c) = {sent[c][k] : k \in (rcvd[c] + 1)..reach[c]}
    BY <1>2 DEF InFlight
  <2>3. (rcvd'[c] + 1)..reach'[c] \subseteq (rcvd[c] + 1)..reach[c]
    BY FlightSent
  <2> QED
    BY <2>1, <2>2, <2>3
<1> QED
  BY <1>1, <1>2

LEMMA ServerDelivers ==
    ASSUME Inv1, Inv2, ~AmbiguousWrite, ServerStep, UNCHANGED senderVars
    PROVE  MapNext
<1>1. pushed' = pushed /\ todoNow' = todoNow
  BY DEF senderVars, todoNow, ToWrite
<1>a. /\ rcvd \in [Conns -> Nat] /\ reach \in [Conns -> Nat]
      /\ srv \in [Conns -> {"none", "open", "greeted", "reading", "done"}]
  BY DEF Inv1, TypeOK, LinkTypeOK, ServerTypeOK
<1>2. ASSUME log' = log, sent' = sent,
             \A c \in Conns : /\ rcvd'[c] \in Int /\ reach'[c] \in Int
                              /\ rcvd[c] <= rcvd'[c] /\ reach'[c] <= reach[c]
                              /\ srv[c] = "done" => srv'[c] = "done"
      PROVE  MapNext
  <2>1. \A c \in Conns : InFlight(c)' \subseteq InFlight(c)
    BY <1>2, FlightShrinks
  <2> QED
    BY <1>1, <1>2, <2>1, FewerInFlight, MapsToLoses
<1>3. CASE ServerCrash
  <2>1. log' = log /\ sent' = sent /\ rcvd' = rcvd /\ reach' = rcvd
    BY <1>3 DEF ServerCrash
  <2>2. \A c \in Conns : srv[c] = "done" => srv'[c] = "done"
    BY <1>3 DEF ServerCrash
  <2>3. \A c \in Conns : rcvd[c] \in Int /\ rcvd[c] <= reach[c]
    BY FlightSent
  <2> QED
    BY <1>2, <2>1, <2>2, <2>3
<1>4. ASSUME NEW c \in Conns, HandlerStep(c) \/ HandlerAborts(c) \/ ReadTimesOut(c)
      PROVE  MapNext
  <2>1. CASE Store(c)
    BY <2>1, StoreDelivers
  <2>2. CASE Greet(c) \/ OpenWriter(c) \/ ReadClose(c) \/ ReadEnds(c) \/ HandlerAborts(c)
             \/ ReadTimesOut(c)
    <3>1. UNCHANGED <<log, sent, reach, rcvd>>
      BY <2>2 DEF Greet, OpenWriter, ReadClose, ReadEnds, HandlerAborts, ReadTimesOut, linkVars
    <3>2. \A d \in Conns : srv[d] = "done" => srv'[d] = "done"
      BY <1>a, <2>2 DEF Greet, OpenWriter, ReadClose, ReadEnds, HandlerAborts, ReadTimesOut,
                        AckAndReturn, Goto, Drained
    <3> QED
      BY <1>2, <1>a, <3>1, <3>2
  <2>3. CASE Refuse(c) \/ AppendFails(c)
    <3>1. UNCHANGED <<log, sent, reach>> /\ Take(c)
      BY <2>3 DEF Refuse, AppendFails
    <3>2. \A d \in Conns : srv[d] = "done" => srv'[d] = "done"
      BY <1>a, <2>3 DEF Refuse, AppendFails, Goto
    <3>3. \A d \in Conns : rcvd'[d] \in Int /\ rcvd[d] <= rcvd'[d]
      BY <1>a, <3>1 DEF Take
    <3> QED
      BY <1>2, <1>a, <3>1, <3>2, <3>3
  <2> QED
    BY <1>4, <2>1, <2>2, <2>3 DEF HandlerStep
<1> QED
  BY <1>3, <1>4 DEF ServerStep

LEMMA NetworkDelivers ==
    ASSUME Inv1, NEW c \in Conns, NetBreaks(c) \/ HandlerHangsUp(c)
    PROVE  MapNext
<1>1. pushed' = pushed /\ todoNow' = todoNow /\ log' = log /\ srv' = srv
  BY DEF NetBreaks, HandlerHangsUp, senderVars, serverVars, todoNow, ToWrite
<1>a. rcvd \in [Conns -> Nat] /\ reach \in [Conns -> Nat]
  BY DEF Inv1, TypeOK, LinkTypeOK
<1>2. sent' = sent /\ rcvd' = rcvd
  BY DEF NetBreaks, Break, HandlerHangsUp
<1>3. \A d \in Conns : reach'[d] \in Int /\ reach'[d] <= reach[d]
  <2>1. CASE NetBreaks(c)
    <3>1. PICK n \in 0..reach[c] : Break(c, n)
      BY <2>1 DEF NetBreaks
    <3>2. reach' = [reach EXCEPT ![c] = n]
      BY <3>1 DEF Break
    <3>3. n \in Int /\ n <= reach[c]
      BY <1>a, <3>1
    <3> QED
      BY <1>a, <3>2, <3>3
  <2>2. CASE HandlerHangsUp(c)
    BY <1>a, <2>2 DEF HandlerHangsUp
  <2> QED
    BY <2>1, <2>2
<1>4. \A d \in Conns : InFlight(d)' \subseteq InFlight(d)
  BY <1>1, <1>2, <1>3, <1>a, FlightShrinks
<1> QED
  BY <1>1, <1>4, FewerInFlight, MapsToLoses

LEMMA DialDelivers ==
    ASSUME Inv1, DialOk \/ DialEnds
    PROVE  MapNext
<1>1. UNCHANGED <<pushed, log, sent, reach, rcvd>> /\ todoNow' = todoNow
  BY DEF DialOk, Dialled, Accept, DialEnds, HelloFails, serverVars, todoNow, ToWrite
<1>2. CASE DialEnds
  BY <1>1, <1>2, SameFlight, MapsToLoses DEF DialEnds, serverVars
<1>3. CASE DialOk
  <2>1. PICK c \in Conns : Accept(c)
    BY <1>3 DEF DialOk
  <2>2. \A d \in Conns : srv[d] = "done" => srv'[d] = "done"
    BY <2>1 DEF Accept, Goto, Inv1, TypeOK, ServerTypeOK
  <2>3. \A d \in Conns : rcvd[d] \in Int /\ reach[d] \in Int
    BY FlightSent
  <2>4. \A d \in Conns : InFlight(d)' \subseteq InFlight(d)
    BY <1>1, <2>2, <2>3, FlightShrinks
  <2> QED
    BY <1>1, <2>4, FewerInFlight, MapsToLoses
<1> QED
  BY <1>2, <1>3

LEMMA StepDelivers ==
    ASSUME Inv1, Inv2, Inv4, ~AmbiguousWrite, [Next]_vars
    PROVE  [MapNext]_MapVars
<1>1. CASE UNCHANGED vars
  <2>1. UNCHANGED <<pushed, log>> /\ todoNow' = todoNow /\ UNCHANGED <<srv, sent, reach, rcvd>>
    BY <1>1 DEF vars, linkVars, serverVars, senderVars, todoNow, ToWrite
  <2> QED
    BY <2>1, SameFlight, MapsToLoses
<1>2. CASE Next
  BY <1>1, <1>2, RunDelivers, ProcessDelivers, ServerDelivers, NetworkDelivers, DialDelivers
     DEF Next, NetworkStep, JobOver
<1> QED
  BY <1>1, <1>2

\* The job's log is an at-most-once delivery of its frames, over all reconnects,
\* retries, crashes and kills, if a write that fails sends nothing whole: a
\* frame that is written is behind the queue's head, no other connection has
\* it, and a handler takes it from its connection once.
THEOREM JobDelivers == ASSUME ~AmbiguousWrite PROVE Spec => DeliversAtMostOnce
<1>1. Spec => [](Inv1 /\ Inv2 /\ Inv3 /\ Inv4)
  BY InitInv1, InitInv2, InitInv3, InitInv4, StepInv1, StepInv2, StepInv3, StepInv4, PTL DEF Spec
<1>2. Inv1 /\ Inv2 /\ Inv3 /\ Inv4 /\ [Next]_vars => [MapNext]_MapVars
  BY StepDelivers
<1> QED
  BY <1>1, <1>2, InitDelivery, PTL
     DEF Spec, DeliversAtMostOnce, AtMostOnceDelivery!DSpec, MapNext, MapVars

-----------------------------------------------------------------------------
\* A first step where nothing fails, and what a connection leaves of what it
\* carried.

\* Nothing has failed, and nothing can be refused.
Calm == step = 1 /\ faults = 0 /\ MaxStreamBytes = 0

\* The sender dials once and keeps its connection; its reconciliation finds an
\* empty file and pops nothing, so that it writes the head of its queue;
CalmSender ==
    /\ dials <= 1 /\ confirmed \subseteq 1..dials
    /\ pc \in {"finish", "await"} \/ confirmed # {} => closed /\ Empty
    /\ wait = "running" => ~closed
    /\ confirmed # {} => pc = "done"
    /\ dials # 0 => conn = 1 \/ pc \in {"hello", "done"}
    /\ dials = 0 => popped = 0 /\ stored = 0 /\ log = <<>>
    /\ pc = "hello" => stored = 0 /\ popped = 0
    /\ InIteration => frame = popped + 1

\* a connection ends by its close or by the sender's leaving;
CalmConn(c) ==
    /\ link[c] # "down"
    /\ link[c] = "shut" => pc = "done"
    /\ srv[c] = "done" => reply[c] = "closed" \/ link[c] = "shut"
    /\ c \in confirmed => reply[c] = "closed"
    /\ hello[c] \in {NoHello, 0}
    /\ srv[c] \in {"open", "greeted"} => log = <<>>

\* what was popped is what was sent, and what was received is what is stored.
CalmLog ==
    /\ log = <<>> => \A t \in Streams : bytes[t] = 0
    /\ dials # 0 =>
          /\ Len(sent[1]) = popped /\ \A k \in DOMAIN sent[1] : sent[1][k] = k
          /\ Len(log) = rcvd[1] /\ \A i \in DOMAIN log : log[i].frame = i

CalmBody == CalmSender /\ CalmLog /\ \A c \in Conns : CalmConn(c)
CalmInv  == Calm => CalmBody

LEMMA InitCalm == Init => CalmInv
<1> SUFFICES ASSUME Init PROVE CalmBody
  BY DEF CalmInv
<1>1. CalmSender
  BY DEF Init, SenderInit, ServerInit, CalmSender, InIteration
<1>2. CalmLog
  BY DEF Init, SenderInit, ServerInit, CalmLog
<1>3. \A c \in Conns : CalmConn(c)
  BY DEF Init, LinkInit, ServerInit, SenderInit, CalmConn, NoHello
<1> QED
  BY <1>1, <1>2, <1>3 DEF CalmBody

\* The types the steps below use.
LEMMA CalmTypes ==
    ASSUME Inv1
    PROVE  /\ pushed \in Nat /\ popped \in Nat /\ popped <= pushed /\ pushed <= NumFrames
           /\ conn \in 0..dials /\ dials \in 0..MaxConns /\ MaxConns \in Nat
           /\ step \in Nat /\ faults \in Nat /\ confirmed \subseteq Conns
           /\ link \in [Conns -> {"idle", "up", "shut", "down"}]
           /\ hello \in [Conns -> Nat \cup {NoHello}]
           /\ reply \in [Conns -> {"none", "closed", "error", "ack"}]
           /\ srv \in [Conns -> {"none", "open", "greeted", "reading", "done"}]
           /\ bytes \in [Streams -> Nat]
           /\ closed \in BOOLEAN
BY DEF Inv1, TypeOK, LinkTypeOK, ServerTypeOK, SenderTypeOK

LEMMA RecordLenPositive == \A f \in Frames : RecordLen(f) \in Nat /\ RecordLen(f) > 0
<1> TAKE f \in Frames
<1>1. BodyLen[f] \in Nat
  OBVIOUS
<1> QED
  BY <1>1 DEF RecordLen, UvarintLen

LEMMA CalmRun ==
    ASSUME Inv1, Inv2, Inv4, CalmBody, Calm', RunStep, UNCHANGED serverVars
    PROVE  CalmBody'
<1>0. faults' = 0 /\ ~Fault
  BY CalmTypes DEF Calm, Fault
<1>a. /\ srv' = srv /\ bytes' = bytes /\ log' = log
      /\ CalmSender /\ CalmLog /\ \A c \in Conns : CalmConn(c)
  BY DEF serverVars, CalmBody
<1>b. pc \in {"write", "finish", "await"} => dials = 1 /\ conn = 1 /\ 1 \in Conns
  BY <1>a, CalmTypes DEF CalmSender, Inv1, ConnHeld
<1>1. ASSUME UNCHANGED <<linkVars, popped, dials, confirmed>>, CalmSender', pc # "done"
      PROVE  CalmBody'
  <2>1. CalmLog'
    BY <1>a, <1>1 DEF CalmLog, linkVars
  <2>2. \A c \in Conns : CalmConn(c)'
    BY <1>a, <1>1 DEF CalmConn, linkVars
  <2> QED
    BY <1>1, <2>1, <2>2 DEF CalmBody
<1>2. CASE RunRetired \/ QueueDrained
  <2>1. CalmSender'
    BY <1>2, <1>a, CalmTypes DEF RunRetired, QueueDrained, CalmSender, InIteration, Empty
  <2> QED
    BY <1>1, <1>2, <2>1 DEF RunRetired, QueueDrained
<1>3. CASE TakeHead
  <2>1. CalmSender'
    BY <1>3, <1>a, CalmTypes DEF TakeHead, CalmSender, InIteration, Empty
  <2> QED
    BY <1>1, <1>3, <2>1 DEF TakeHead
<1>4. CASE DialRetired \/ DialBegins \/ DialFails
  <2>1. CalmSender'
    BY <1>4, <1>a, CalmTypes DEF DialRetired, DialBegins, DialFails, CalmSender, InIteration, Empty
  <2> QED
    BY <1>1, <1>4, <2>1 DEF DialRetired, DialBegins, DialFails
<1>5. CASE HelloRead
  <2>1. dials = 1 /\ dials \in Conns /\ hello[dials] = 0 /\ stored = 0 /\ popped = 0
    BY <1>5, <1>a, CalmTypes DEF HelloRead, CalmSender, CalmConn, Inv1, ConnHeld
  <2>2. ~Empty => ~Holds(0, popped + 1)
    <3>1. ~Empty => popped + 1 \in Frames
      BY CalmTypes DEF Empty
    <3> QED
      BY <2>1, <3>1, RecordLenPositive DEF Holds
  <2>3. popped' = popped
    BY <1>5, <2>1, <2>2 DEF HelloRead
  <2>4. CalmSender'
    BY <1>5, <1>a, <2>1, <2>3, CalmTypes DEF HelloRead, CalmSender, InIteration, Empty
  <2> QED
    BY <1>1, <1>5, <2>3, <2>4 DEF HelloRead
<1>6. CASE WriteOk
  <2>1. /\ frame = popped + 1 /\ frame \in Frames /\ frame <= pushed /\ Transmit(1, frame)
        /\ UNCHANGED <<link, rcvd, fin, hello, reply, dials>>
    BY <1>6, <1>a, <1>b, AtWrite DEF WriteOk, CalmSender, InIteration, Inv1, FrameTaken
  <2>2. popped' = popped + 1
    BY <1>6, <2>1, CalmTypes DEF WriteOk, Pop, Empty
  <2>3. CalmSender'
    BY <1>6, <1>a, <1>b, <2>1, <2>2, CalmTypes DEF WriteOk, CalmSender, InIteration
  <2>4. sent'[1] = Append(sent[1], frame) /\ sent[1] \in Seq(Frames)
    BY <1>6, <1>b, <2>1, TransmitType, SentFrames DEF WriteOk
  <2>5. Len(sent'[1]) = popped' /\ \A k \in DOMAIN sent'[1] : sent'[1][k] = k
    <3>1. Len(sent[1]) = popped /\ \A k \in DOMAIN sent[1] : sent[1][k] = k
      BY <1>6, <1>a, <1>b DEF WriteOk, CalmLog
    <3>2. Len(Append(sent[1], frame)) = Len(sent[1]) + 1
      BY <2>1, <2>4
    <3> QED
      BY <2>1, <2>2, <2>4, <3>1, <3>2, AppendAt
  <2>6. CalmLog'
    BY <1>a, <2>1, <2>5 DEF CalmLog
  <2>7. \A c \in Conns : CalmConn(c)'
    BY <1>6, <1>a, <2>1 DEF WriteOk, CalmConn
  <2> QED
    BY <2>3, <2>6, <2>7 DEF CalmBody
<1>7. ~WriteFails
  <2>1. pc = "write" => link[conn] # "down"
    BY <1>a, <1>b DEF CalmConn
  <2> QED
    BY <1>0, <2>1 DEF WriteFails
<1>8. CASE FinishCloses
  <2>1. CalmSender'
    BY <1>8, <1>a, CalmTypes DEF FinishCloses, CalmSender, InIteration, Empty
  <2>2. CalmLog'
    BY <1>8, <1>a DEF FinishCloses, CalmLog
  <2>3. \A c \in Conns : CalmConn(c)'
    BY <1>8, <1>a DEF FinishCloses, CalmConn
  <2> QED
    BY <2>1, <2>2, <2>3 DEF CalmBody
<1>9. CASE Confirmed \/ Unconfirmed
  <2>1. /\ pc = "await" /\ pc' = "done" /\ conn' = 0 /\ link' = Shut(1)
        /\ UNCHANGED <<sent, reach, rcvd, hello, reply, pushed, popped, closed, dials, stored,
                       wait>>
        /\ confirmed' \subseteq confirmed \cup {1}
    BY <1>9, <1>b DEF Confirmed, Unconfirmed, AwaitEnds
  <2>2. CalmSender'
    BY <1>a, <1>b, <2>1, CalmTypes DEF CalmSender, InIteration, Empty
  <2>3. CalmLog'
    BY <1>a, <2>1 DEF CalmLog
  <2>4. \A c \in Conns : CalmConn(c)'
    <3>1. \A c \in Conns : link'[c] = link[c] \/ link'[c] = "shut"
      BY <2>1, CalmTypes DEF Shut
    <3>2. Confirmed => reply[1] = "closed"
      BY <1>a, <1>b DEF Confirmed, CalmConn, Inv4, CloseIsLast, CloseAt
    <3>3. \A c \in confirmed' : c \in confirmed \/ (c = 1 /\ Confirmed)
      BY <1>9, <1>b DEF Confirmed, Unconfirmed
    <3> QED
      BY <1>a, <2>1, <3>1, <3>2, <3>3 DEF CalmConn
  <2> QED
    BY <2>2, <2>3, <2>4 DEF CalmBody
<1> QED
  BY <1>2, <1>3, <1>4, <1>5, <1>6, <1>7, <1>8, <1>9 DEF RunStep

LEMMA CalmProcess ==
    ASSUME Inv1, Inv4, CalmBody, Calm, Calm', ProcessStep, UNCHANGED serverVars
    PROVE  CalmBody'
<1>0. faults' = 0 /\ ~Fault /\ step' = 1
  BY CalmTypes DEF Calm, Fault
<1>a. /\ srv' = srv /\ bytes' = bytes /\ log' = log
      /\ CalmSender /\ CalmLog /\ \A c \in Conns : CalmConn(c)
  BY DEF serverVars, CalmBody
<1>1. CASE Produce \/ CloseQueue \/ GraceExpires
  <2>1. /\ UNCHANGED <<linkVars, popped, dials, pc, frame, conn, stored, confirmed>>
        /\ wait = "running" => ~closed /\ confirmed = {} /\ pc \notin {"finish", "await"}
    BY <1>1, <1>a DEF Produce, CloseQueue, GraceExpires, CalmSender
  <2>2. CalmSender'
    BY <1>1, <1>a, <2>1, CalmTypes
       DEF Produce, CloseQueue, GraceExpires, CalmSender, InIteration, Empty
  <2>3. CalmLog'
    BY <1>a, <2>1 DEF CalmLog, linkVars
  <2>4. \A c \in Conns : CalmConn(c)'
    BY <1>a, <2>1 DEF CalmConn, linkVars
  <2> QED
    BY <2>2, <2>3, <2>4 DEF CalmBody
<1>2. CASE WaitReturns
  <2>1. /\ pc = "done" /\ pc' = "done" /\ wait' = "returned" /\ conn' = 0
        /\ UNCHANGED <<sent, rcvd, hello, reply, pushed, popped, closed, dials, stored, confirmed>>
        /\ link' = [c \in Conns |-> IF c = dials /\ link[c] = "up" THEN "shut" ELSE link[c]]
    BY <1>2 DEF WaitReturns, Exit
  <2>2. CalmSender'
    BY <1>a, <2>1, CalmTypes DEF CalmSender, InIteration, Empty
  <2>3. CalmLog'
    BY <1>a, <2>1 DEF CalmLog
  <2>4. \A c \in Conns : CalmConn(c)'
    BY <1>a, <2>1 DEF CalmConn
  <2> QED
    BY <2>2, <2>3, <2>4 DEF CalmBody
<1>3. ~Killed
  BY <1>0 DEF Killed
<1>4. ~NextStep
  BY <1>0, CalmTypes DEF NextStep, Calm
<1> QED
  BY <1>1, <1>2, <1>3, <1>4 DEF ProcessStep

\* The one connection with a handler.
LEMMA TheConnection ==
    ASSUME Inv1, Inv2, CalmBody, NEW c \in Conns, srv[c] # "none"
    PROVE  c = 1 /\ dials = 1
BY CalmTypes DEF Inv2, FreshConns, Undialled, CalmBody, CalmSender

LEMMA CalmStore ==
    ASSUME Inv1, Inv2, CalmBody, NEW c \in Conns, Store(c), UNCHANGED senderVars
    PROVE  CalmBody'
<1>1. c = 1 /\ dials = 1 /\ srv[c] = "reading"
  BY TheConnection DEF Store, Arrived
<1>a. CalmSender /\ CalmLog /\ \A d \in Conns : CalmConn(d)
  BY DEF CalmBody
<1>2. rcvd[1] \in Nat /\ rcvd[1] + 1 \in DOMAIN sent[1] /\ rcvd'[1] = rcvd[1] + 1
  BY <1>1, AtArrival DEF Store, Take, Inv1, TypeOK, LinkTypeOK
<1>3. NextFrame(c) = Len(log) + 1
  BY <1>1, <1>2, <1>a DEF NextFrame, CalmLog
<1>4. /\ log' = Append(log, Record(c, NextFrame(c))) /\ Len(log) \in Nat
      /\ DOMAIN log' = DOMAIN log \cup {Len(log) + 1}
      /\ \A i \in DOMAIN log : log'[i] = log[i]
      /\ log'[Len(log) + 1].frame = Len(log) + 1
  <2>1. log'[Len(log) + 1] = Record(c, NextFrame(c))
    BY LogAppend
  <2>2. log'[Len(log) + 1].frame = Len(log) + 1
    BY <1>3, <2>1 DEF Record
  <2> QED
    BY <2>2, LogAppend DEF Store
<1>5. log' # <<>> /\ Len(log') = Len(log) + 1
  <2> DEFINE R == [conn : Conns, frame : Frames]
             r == Record(c, NextFrame(c))
  <2>1. log \in Seq(R) /\ r \in R
    BY LogTypes, AtArrival DEF Record, Store
  <2> HIDE DEF R, r
  <2>2. Append(log, r) # <<>> /\ Len(Append(log, r)) = Len(log) + 1
    BY <2>1
  <2> QED
    BY <1>4, <2>2 DEF r
<1>6. UNCHANGED <<link, sent, hello, reply, srv>> /\ UNCHANGED senderVars
  BY DEF Store
<1>7. CalmSender'
  BY <1>1, <1>6, <1>a DEF senderVars, CalmSender, InIteration, Empty
<1>8. CalmLog'
  <2>1. dials' = dials /\ popped' = popped /\ sent' = sent
    BY <1>6 DEF senderVars
  <2>2. Len(log') = rcvd'[1]
    BY <1>1, <1>2, <1>5, <1>a DEF CalmLog
  <2>3. \A i \in DOMAIN log' : log'[i].frame = i
    BY <1>1, <1>4, <1>a DEF CalmLog
  <2> QED
    BY <1>1, <1>5, <1>a, <2>1, <2>2, <2>3 DEF CalmLog
<1>9. ASSUME NEW d \in Conns PROVE CalmConn(d)'
  <2>1. srv[d] \notin {"open", "greeted"}
    BY <1>1, TheConnection
  <2> QED
    BY <1>6, <1>a, <2>1 DEF CalmConn, senderVars
<1> QED
  BY <1>7, <1>8, <1>9 DEF CalmBody

LEMMA CalmServer ==
    ASSUME Inv1, Inv2, Inv4, CalmBody, Calm', ServerStep, UNCHANGED senderVars
    PROVE  CalmBody'
<1>0. ~Fault /\ MaxStreamBytes = 0
  BY CalmTypes DEF Calm, Fault
<1>a. CalmSender /\ CalmLog /\ \A d \in Conns : CalmConn(d)
  BY DEF CalmBody
<1>1. ASSUME UNCHANGED <<link, sent, rcvd, bytes, log>>, \A d \in Conns : CalmConn(d)'
      PROVE  CalmBody'
  <2>1. CalmSender'
    BY <1>1, <1>a DEF senderVars, CalmSender, InIteration, Empty
  <2>2. CalmLog'
    BY <1>1, <1>a DEF senderVars, CalmLog
  <2> QED
    BY <1>1, <2>1, <2>2 DEF CalmBody
<1>2. ASSUME NEW c \in Conns, Greet(c) \/ OpenWriter(c) PROVE CalmBody'
  <2>1. /\ UNCHANGED <<link, sent, rcvd, bytes, log, reply, pc, confirmed>>
        /\ srv[c] \in {"open", "greeted"} /\ srv' \in {[srv EXCEPT ![c] = "greeted"], [srv EXCEPT ![c] = "reading"]}
        /\ hello' \in {hello, [hello EXCEPT ![c] = bytes[Stream(c)]]}
    BY <1>2 DEF Greet, OpenWriter, Goto, linkVars, senderVars
  <2>2. bytes[Stream(c)] = 0
    BY <1>a, <2>1, StreamOfConn DEF CalmConn, CalmLog
  <2>3. ASSUME NEW d \in Conns PROVE CalmConn(d)'
    <3>1. hello'[d] \in {hello[d], 0}
      BY <2>1, <2>2, CalmTypes
    <3>2. srv'[d] = srv[d] \/ (d = c /\ srv'[d] \in {"greeted", "reading"})
      BY <2>1, CalmTypes
    <3> QED
      BY <1>a, <2>1, <3>1, <3>2 DEF CalmConn
  <2> QED
    BY <1>1, <2>1, <2>3
<1>3. ASSUME NEW c \in Conns, ReadClose(c) \/ ReadEnds(c) PROVE CalmBody'
  <2>1. /\ UNCHANGED <<link, sent, rcvd, bytes, log, hello>> /\ pc' = pc
        /\ srv' = [srv EXCEPT ![c] = "done"]
        /\ \/ reply' = [reply EXCEPT ![c] = "closed"]
           \/ reply' = [reply EXCEPT ![c] = "ack"] /\ link[c] \in {"shut", "down"}
        /\ srv[c] = "reading" /\ confirmed' = confirmed
    BY <1>3 DEF ReadClose, ReadEnds, AckAndReturn, Drained, Goto, linkVars, senderVars
  <2>2. c \notin confirmed
    BY <1>a, <2>1 DEF CalmConn, Inv4, CloseIsLast, CloseAt
  <2>3. \A d \in Conns : CalmConn(d)'
    BY <1>a, <2>1, <2>2, CalmTypes DEF CalmConn
  <2> QED
    BY <1>1, <2>1, <2>3
<1>4. \A c \in Conns : ~Refuse(c) /\ ~AppendFails(c) /\ ~HandlerAborts(c) /\ ~ReadTimesOut(c)
  BY <1>0 DEF Refuse, PastCap, AppendFails, HandlerAborts, ReadTimesOut
<1>5. ~ServerCrash
  BY <1>0 DEF ServerCrash
<1> QED
  BY <1>2, <1>3, <1>4, <1>5, CalmStore DEF ServerStep, HandlerStep

LEMMA CalmNet ==
    ASSUME Inv1, Inv2, Inv4, CalmBody, Calm', NetworkStep \/ DialOk \/ DialEnds
    PROVE  CalmBody'
<1>0. ~Fault
  BY CalmTypes DEF Calm, Fault
<1>a. CalmSender /\ CalmLog /\ \A d \in Conns : CalmConn(d)
  BY DEF CalmBody
<1>1. \A c \in Conns : ~NetBreaks(c)
  BY <1>0 DEF NetBreaks
<1>2. \A c \in Conns : ~HandlerHangsUp(c)
  BY <1>a DEF HandlerHangsUp, CalmConn
<1>3. ~DialEnds
  <2> SUFFICES ASSUME DialEnds PROVE FALSE
    OBVIOUS
  <2>1. pc = "hello" /\ dials \in Conns
    BY CalmTypes DEF DialEnds, HelloFails, Inv1, ConnHeld
  <2>2. link[dials] \notin {"shut", "down"}
    BY <1>a, <2>1 DEF CalmConn
  <2>3. srv[dials] = "done" => reply[dials] = "closed"
    BY <1>a, <2>1, <2>2 DEF CalmConn
  <2>4. reply[dials] # "closed"
    BY <2>1 DEF Inv4, CloseIsLast, CloseAt, Silent
  <2> QED
    BY <2>2, <2>3, <2>4 DEF DialEnds, HelloFails
<1>4. CASE DialOk
  <2>1. PICK c \in Conns : Dialled(c) /\ Accept(c)
    BY <1>4 DEF DialOk
  <2>2. dials = 0 /\ c = 1 /\ conn = 0 /\ pc = "dialling"
    BY <1>a, <2>1, CalmTypes DEF Dialled, CalmSender, Inv1, ConnHeld
  <2>3. popped = 0 /\ stored = 0 /\ log = <<>> /\ sent[1] = <<>> /\ confirmed = {}
    BY <1>a, <2>1, <2>2 DEF CalmSender, Inv2, FreshConns, Undialled
  <2>4. rcvd[1] = 0
    <3>1. rcvd[1] \in Nat /\ reach[1] \in Nat /\ rcvd[1] <= reach[1] /\ reach[1] <= Len(sent[1])
      BY <2>1, <2>2 DEF Inv1, TypeOK, LinkTypeOK, ReachBounded
    <3> QED
      BY <2>3, <3>1
  <2>5. CalmSender'
    BY <1>a, <2>1, <2>2, <2>3, CalmTypes DEF Dialled, Accept, CalmSender, InIteration, Empty
  <2>6. CalmLog'
    BY <1>a, <2>1, <2>2, <2>3, <2>4 DEF Dialled, Accept, CalmLog
  <2>7. \A d \in Conns : CalmConn(d)'
    BY <1>a, <2>1, <2>3, CalmTypes DEF Dialled, Accept, Goto, CalmConn
  <2> QED
    BY <2>5, <2>6, <2>7 DEF CalmBody
<1> QED
  BY <1>1, <1>2, <1>3, <1>4 DEF NetworkStep

LEMMA StepCalm == Inv1 /\ Inv2 /\ Inv4 /\ CalmInv /\ [Next]_vars => CalmInv'
<1> SUFFICES ASSUME Inv1, Inv2, Inv4, CalmInv, [Next]_vars, Calm' PROVE CalmBody'
  BY DEF CalmInv
<1>1. Calm
  <2>1. faults <= faults' /\ step <= step'
    <3>1. CASE RunStep \/ ProcessStep
      BY <3>1, CalmTypes
         DEF RunStep, RunRetired, TakeHead, QueueDrained, DialRetired, DialBegins, DialFails,
             HelloRead, WriteOk, WriteFails, FinishCloses, Confirmed, Unconfirmed, AwaitEnds,
             ProcessStep, Produce, CloseQueue, GraceExpires, WaitReturns, Killed, Exit, NextStep,
             Fault, linkVars
    <3>2. CASE ServerStep /\ UNCHANGED senderVars
      BY <3>2, CalmTypes
         DEF ServerStep, HandlerStep, HandlerAborts, ReadTimesOut, Greet, OpenWriter, Store, Refuse,
             AppendFails, ReadClose, ReadEnds, AckAndReturn, ServerCrash, Fault, linkVars, senderVars
    <3>3. CASE NetworkStep \/ DialOk \/ DialEnds
      BY <3>3, CalmTypes
         DEF NetworkStep, NetBreaks, HandlerHangsUp, DialOk, Dialled, DialEnds, HelloFails,
             Fault, senderVars
    <3>4. CASE UNCHANGED vars
      BY <3>4, CalmTypes DEF vars, linkVars, senderVars
    <3> QED
      BY <3>1, <3>2, <3>3, <3>4 DEF Next, JobOver
  <2>2. step >= 1
    BY DEF Inv1, TypeOK, SenderTypeOK
  <2> QED
    BY <2>1, <2>2, CalmTypes DEF Calm
<1>2. CalmBody
  BY <1>1 DEF CalmInv
<1>3. CASE UNCHANGED vars
  BY <1>2, <1>3 DEF vars, linkVars, serverVars, senderVars, CalmBody, CalmSender, CalmLog,
                    CalmConn, InIteration, Empty
<1> QED
  BY <1>1, <1>2, <1>3, CalmRun, CalmProcess, CalmServer, CalmNet DEF Next, JobOver

\* A first step whose close was answered, where nothing failed and there is no
\* cap, has left every frame it produced in the log, in order.
THEOREM FirstStepIsComplete == Spec => []FirstStepComplete
<1>1. Inv1 /\ Inv4 /\ CalmInv => FirstStepComplete
  <2> SUFFICES ASSUME Inv1, Inv4, CalmInv, Calm, confirmed # {}
               PROVE  Len(log) = pushed /\ \A i \in DOMAIN log : log[i].frame = i
    BY DEF FirstStepComplete, Calm
  <2>1. CalmSender /\ CalmLog
    BY DEF CalmInv, CalmBody
  <2>2. 1 \in confirmed /\ 1 \in Conns /\ dials # 0
    <3>1. PICK c \in confirmed : TRUE
      OBVIOUS
    <3>2. c \in 1..dials /\ dials <= 1 /\ c \in Conns
      BY <2>1, <3>1, CalmTypes DEF CalmSender
    <3>3. c = 1 /\ dials # 0
      BY <3>2, CalmTypes
    <3> QED
      BY <3>1, <3>2, <3>3
  <2>3. reply[1] = "closed"
    BY <2>2 DEF CalmInv, CalmBody, CalmConn
  <2>4. rcvd[1] = Len(sent[1])
    BY <2>2, <2>3 DEF Inv4, CloseIsLast, CloseAt
  <2> QED
    BY <2>1, <2>2, <2>4 DEF CalmSender, CalmLog, Empty
<1>2. Spec => [](Inv1 /\ Inv2 /\ Inv3 /\ Inv4)
  BY InitInv1, InitInv2, InitInv3, InitInv4, StepInv1, StepInv2, StepInv3, StepInv4, PTL DEF Spec
<1> QED
  BY <1>1, <1>2, InitCalm, StepCalm, PTL DEF Spec

-----------------------------------------------------------------------------
\* What a cap and a failing disk leave of a connection: of what was received all
\* is stored but the frames whose write failed, and the last one where the
\* answer is an error, whose refusal it was.
Lost == {p \in Conns \X Nat : LET c == p[1]
                                  k == p[2]
                              IN /\ k \in 1..rcvd[c] /\ (k < rcvd[c] \/ reply[c] # "error")
                                 /\ ~Stored(c, sent[c][k])}

Losses == IF DiskErrors THEN faults ELSE 0

LossInv == IsFiniteSet(Lost) /\ Cardinality(Lost) <= Losses

LEMMA LostIs ==
    \A c, k : <<c, k>> \in Lost <=>
        /\ c \in Conns /\ k \in Nat /\ k \in 1..rcvd[c] /\ (k < rcvd[c] \/ reply[c] # "error")
        /\ \A i \in DOMAIN log : log[i] # Record(c, sent[c][k])
  BY DEF Lost, Stored

\* The same of the next state.
LEMMA LostIsNext ==
    \A c, k : <<c, k>> \in Lost' <=>
        /\ c \in Conns /\ k \in Nat /\ k \in 1..rcvd'[c] /\ (k < rcvd'[c] \/ reply'[c] # "error")
        /\ \A i \in DOMAIN log' : log'[i] # Record(c, sent'[c][k])
  BY DEF Lost, Stored, Record

\* An error that was sent stays so, faults are not forgotten, and a frame is
\* received to be stored, refused or lost by a fault.
LEMMA TakeShape ==
    ASSUME Inv1, Inv4, [Next]_vars
    PROVE  /\ \A c \in Conns : reply[c] = "error" => reply'[c] = "error"
           /\ faults' \in Nat /\ faults <= faults'
           /\ \/ UNCHANGED <<log, rcvd>>
              \/ \E c \in Conns : Refuse(c) \/ Store(c) \/ AppendFails(c)
<1>0. /\ faults \in Nat
      /\ \A c \in Conns : reply[c] = "error" => srv[c] = "done"
      /\ reply \in [Conns -> {"none", "closed", "error", "ack"}]
  BY CalmTypes DEF Inv4, CloseIsLast, CloseAt
<1>1. CASE RunStep /\ UNCHANGED serverVars
  BY <1>0, <1>1 DEF RunStep, RunRetired, TakeHead, QueueDrained, DialRetired, DialBegins, DialFails,
              HelloRead, WriteOk, WriteFails, FinishCloses, Confirmed, Unconfirmed, AwaitEnds,
              Fault, linkVars, serverVars
<1>2. CASE ProcessStep /\ UNCHANGED serverVars
  BY <1>0, <1>2 DEF ProcessStep, Produce, CloseQueue, GraceExpires, WaitReturns, Killed, Exit,
              NextStep, Fault, linkVars, serverVars
<1>3. CASE ServerStep /\ UNCHANGED senderVars
  <2>1. CASE ServerCrash
    BY <1>0, <2>1 DEF ServerCrash, Fault
  <2>2. ASSUME NEW c \in Conns, HandlerStep(c) \/ HandlerAborts(c) \/ ReadTimesOut(c)
        PROVE  /\ \A d \in Conns : reply[d] = "error" => reply'[d] = "error"
               /\ faults' \in Nat /\ faults <= faults'
               /\ UNCHANGED <<log, rcvd>> \/ Refuse(c) \/ Store(c) \/ AppendFails(c)
    BY <1>0, <2>2 DEF HandlerStep, HandlerAborts, ReadTimesOut, Greet, OpenWriter, Store, Refuse, AppendFails,
                      ReadClose, ReadEnds, AckAndReturn, Goto, Arrived, Drained, Fault, linkVars
  <2> QED
    BY <1>3, <2>1, <2>2 DEF ServerStep
<1>4. CASE NetworkStep \/ DialOk \/ DialEnds
  BY <1>0, <1>4 DEF NetworkStep, NetBreaks, Break, HandlerHangsUp, DialOk, Dialled, Accept, Goto,
                    DialEnds, HelloFails, Fault, serverVars
<1>5. CASE UNCHANGED vars
  BY <1>0, <1>5 DEF vars, linkVars, serverVars
<1> QED
  BY <1>1, <1>2, <1>3, <1>4, <1>5 DEF Next, JobOver

LEMMA InitLoss == Init => LossInv
<1> SUFFICES ASSUME Init PROVE LossInv
  OBVIOUS
<1>1. rcvd = [c \in Conns |-> 0] /\ faults = 0
  BY DEF Init, LinkInit
<1>2. Lost = {}
  <2>1. ASSUME NEW p \in Conns \X Nat, p \in Lost PROVE FALSE
    <3>1. PICK c \in Conns, k \in Nat : p = <<c, k>>
      OBVIOUS
    <3>2. k \in 1..rcvd[c]
      BY <2>1, <3>1, LostIs
    <3>3. rcvd[c] = 0
      BY <1>1, <3>1
    <3> QED
      BY <3>2, <3>3
  <2>2. Lost \subseteq Conns \X Nat
    BY DEF Lost
  <2> QED
    BY <2>1, <2>2
<1> QED
  BY <1>1, <1>2, FS_EmptySet DEF LossInv, Losses

\* A frame more is lost with every fault, at most.
LEMMA LossCounts ==
    ASSUME NEW S, IsFiniteSet(S), NEW T, NEW x, T \subseteq S \cup {x},
           NEW m, Cardinality(S) <= m, m \in Nat
    PROVE  /\ IsFiniteSet(T) /\ Cardinality(T) <= m + 1
           /\ T \subseteq S => Cardinality(T) <= m
<1>1. IsFiniteSet(S \cup {x}) /\ Cardinality(S \cup {x}) <= m + 1
  <2>1. IsFiniteSet(S \cup {x})
        /\ Cardinality(S \cup {x}) = IF x \in S THEN Cardinality(S) ELSE Cardinality(S) + 1
    BY FS_AddElement
  <2>2. Cardinality(S) \in Nat
    BY FS_CardinalityType
  <2> QED
    BY <2>1, <2>2
<1>2. T \in SUBSET (S \cup {x})
  OBVIOUS
<1> DEFINE U == S \cup {x}
<1> HIDE DEF U
<1>3. IsFiniteSet(T) /\ Cardinality(T) <= Cardinality(U)
  BY <1>1, <1>2, FS_Subset DEF U
<1>4. Cardinality(U) \in Nat /\ Cardinality(T) \in Nat /\ Cardinality(S) \in Nat
  BY <1>1, <1>3, FS_CardinalityType DEF U
<1>5. T \subseteq S => Cardinality(T) <= Cardinality(S)
  BY FS_Subset
<1> QED
  BY <1>1, <1>3, <1>4, <1>5 DEF U

LEMMA StepLoss == Inv1 /\ Inv4 /\ LossInv /\ [Next]_vars => LossInv'
<1> SUFFICES ASSUME Inv1, Inv4, LossInv, [Next]_vars PROVE LossInv'
  OBVIOUS
<1>0. /\ rcvd \in [Conns -> Nat] /\ faults \in Nat /\ IsFiniteSet(Lost)
      /\ Cardinality(Lost) <= Losses /\ Losses \in Nat
  BY DEF Inv1, TypeOK, LinkTypeOK, LossInv, Losses
<1>1. \A c \in Conns : \A h \in 1..rcvd[c] : sent'[c][h] = sent[c][h]
  BY LogTypes, SentGrows
<1>a. \A c \in Conns : srv[c] = "reading" => reply[c] = "none"
  BY DEF Inv4, CloseIsLast, CloseAt
<1>2. /\ \A c \in Conns : reply'[c] # "error" => reply[c] # "error"
      /\ faults' \in Nat /\ faults <= faults'
  BY TakeShape
<1>3. Lost \subseteq Conns \X Nat /\ Lost' \subseteq Conns \X Nat
  BY DEF Lost
<1>4. CASE Lost' \subseteq Lost
  <2>1. IsFiniteSet(Lost') /\ Cardinality(Lost') <= Losses
    BY <1>0, <1>4, LossCounts
  <2>2. Losses <= Losses' /\ Losses' \in Nat
    BY <1>0, <1>2 DEF Losses
  <2>3. Cardinality(Lost') \in Nat
    BY <2>1, FS_CardinalityType
  <2>4. IsFiniteSet(Lost') /\ Cardinality(Lost') <= Losses'
    BY <1>0, <2>1, <2>2, <2>3
  <2> QED
    BY <2>4 DEF LossInv
\* What was received before is lost now only if it was lost before.
<1>5. ASSUME NEW c \in Conns, NEW k \in Nat, <<c, k>> \in Lost', k \in 1..rcvd[c],
             k < rcvd[c] \/ reply[c] # "error",
             \A i \in DOMAIN log : i \in DOMAIN log' /\ log'[i] = log[i]
      PROVE  <<c, k>> \in Lost
  <2>1. \A i \in DOMAIN log' : log'[i] # Record(c, sent[c][k])
    BY <1>1, <1>5, LostIsNext
  <2>2. \A i \in DOMAIN log : log[i] # Record(c, sent[c][k])
    BY <1>5, <2>1
  <2> QED
    BY <1>5, <2>2, LostIs
<1>6. CASE UNCHANGED <<log, rcvd>>
  <2>1. ASSUME NEW c \in Conns, NEW k \in Nat, <<c, k>> \in Lost' PROVE <<c, k>> \in Lost
    <3>1. k \in 1..rcvd[c] /\ (k < rcvd[c] \/ reply[c] # "error")
      BY <1>2, <1>6, <2>1, LostIsNext
    <3> QED
      BY <1>5, <1>6, <2>1, <3>1
  <2>2. Lost' \subseteq Lost
    BY <1>3, <2>1
  <2> QED
    BY <1>4, <2>2
<1>7. ASSUME NEW d \in Conns, Refuse(d) PROVE LossInv'
  <2>1. /\ log' = log /\ rcvd' = [rcvd EXCEPT ![d] = @ + 1] /\ srv[d] = "reading"
        /\ reply' = [reply EXCEPT ![d] = "error"]
    BY <1>7 DEF Refuse, Take, Arrived
  <2>2. ASSUME NEW c \in Conns, NEW k \in Nat, <<c, k>> \in Lost' PROVE <<c, k>> \in Lost
    <3>1. k \in 1..rcvd'[c] /\ (k < rcvd'[c] \/ reply'[c] # "error")
      BY <2>2, LostIsNext
    <3>2. k \in 1..rcvd[c] /\ (k < rcvd[c] \/ reply[c] # "error")
      BY <1>0, <1>a, <2>1, <3>1, CalmTypes
    <3> QED
      BY <1>5, <2>1, <2>2, <3>2
  <2>3. Lost' \subseteq Lost
    BY <1>3, <2>2
  <2> QED
    BY <1>4, <2>3
<1>8. ASSUME NEW d \in Conns, Store(d) PROVE LossInv'
  <2>1. /\ sent' = sent /\ reply' = reply /\ rcvd' = [rcvd EXCEPT ![d] = @ + 1] /\ srv[d] = "reading"
    BY <1>8 DEF Store, Take, Arrived
  <2>2. ASSUME NEW c \in Conns, NEW k \in Nat, <<c, k>> \in Lost' PROVE <<c, k>> \in Lost
    <3>0. /\ k \in 1..rcvd'[c]
          /\ \A i \in DOMAIN log' : log'[i] # Record(c, sent'[c][k])
      BY <2>2, LostIsNext
    <3>1. CASE k \in 1..rcvd[c]
      <4>1. k < rcvd[c] \/ reply[c] # "error"
        BY <1>0, <1>a, <2>1, <2>2, <3>1, LostIsNext
      <4>2. \A i \in DOMAIN log : i \in DOMAIN log' /\ log'[i] = log[i]
        BY <1>8, LogAppend
      <4> QED
        BY <1>5, <2>2, <3>1, <4>1, <4>2
    <3>2. CASE k \notin 1..rcvd[c]
      <4>1. c = d /\ k = rcvd[c] + 1
        BY <1>0, <2>1, <3>0, <3>2
      <4>2. NextFrame(d) = sent'[c][k]
        BY <2>1, <4>1 DEF NextFrame
      <4>3. Len(log) + 1 \in DOMAIN log' /\ log'[Len(log) + 1] = Record(d, NextFrame(d))
        BY <1>8, LogAppend
      <4> QED
        BY <3>0, <4>1, <4>2, <4>3
    <3> QED
      BY <3>1, <3>2
  <2>3. Lost' \subseteq Lost
    BY <1>3, <2>2
  <2> QED
    BY <1>4, <2>3
<1>9. ASSUME NEW d \in Conns, AppendFails(d) PROVE LossInv'
  <2>1. /\ log' = log /\ reply' = reply /\ rcvd' = [rcvd EXCEPT ![d] = @ + 1] /\ srv[d] = "reading"
        /\ DiskErrors /\ faults' = faults + 1
    BY <1>9 DEF AppendFails, Take, Arrived, Fault
  <2> DEFINE x == <<d, rcvd[d] + 1>>
  <2>2. ASSUME NEW c \in Conns, NEW k \in Nat, <<c, k>> \in Lost' PROVE <<c, k>> \in Lost \cup {x}
    <3>0. k \in 1..rcvd'[c] /\ (k < rcvd'[c] \/ reply'[c] # "error")
      BY <2>2, LostIsNext
    <3>1. CASE k \in 1..rcvd[c]
      <4>1. k < rcvd[c] \/ reply[c] # "error"
        BY <1>0, <1>a, <2>1, <3>0, <3>1
      <4> QED
        BY <1>5, <2>1, <2>2, <3>1, <4>1
    <3>2. CASE k \notin 1..rcvd[c]
      <4>1. c = d /\ k = rcvd[c] + 1
        BY <1>0, <2>1, <3>0, <3>2
      <4> QED
        BY <4>1
    <3> QED
      BY <3>1, <3>2
  <2>3. Lost' \subseteq Lost \cup {x}
    <3> HIDE DEF x
    <3> QED
      BY <1>3, <2>2
  <2> HIDE DEF x
  <2>4. IsFiniteSet(Lost') /\ Cardinality(Lost') <= Losses + 1
    BY <1>0, <2>3, LossCounts
  <2>5. Losses' = Losses + 1
    BY <2>1 DEF Losses
  <2>6. IsFiniteSet(Lost') /\ Cardinality(Lost') <= Losses'
    BY <2>4, <2>5
  <2> QED
    BY <2>6 DEF LossInv
<1> QED
  BY <1>6, <1>7, <1>8, <1>9, TakeShape

LEMMA LossBounded == Spec => []LossInv
<1>1. Spec => [](Inv1 /\ Inv4)
  BY Invariants
<1> QED
  BY <1>1, InitLoss, StepLoss, PTL DEF Spec

LEMMA LossesBound ==
    ASSUME Inv1, LossInv, NEW U \in SUBSET Lost
    PROVE  Cardinality(U) <= Losses
<1>1. IsFiniteSet(Lost) /\ Cardinality(Lost) <= Losses /\ Losses \in Nat
  BY DEF LossInv, Losses, Inv1, TypeOK, LinkTypeOK
<1>2. Cardinality(U) <= Cardinality(Lost) /\ Cardinality(U) \in Nat /\ Cardinality(Lost) \in Nat
  BY <1>1, FS_Subset, FS_CardinalityType
<1> QED
  BY <1>1, <1>2

\* A gap is a loss: what is stored behind it was received after it.
LEMMA GapsAreLosses ==
    ASSUME Inv1, Inv2, Inv3, NEW c \in Conns, NEW h \in Gaps(c)
    PROVE  <<c, h>> \in Lost
<1>0. PICK k \in h..Len(sent[c]) : Stored(c, sent[c][k])
  BY DEF Gaps
<1>6. h \in DOMAIN sent[c] /\ ~Stored(c, sent[c][h])
  BY DEF Gaps
<1>1. /\ sent[c] \in Seq(Frames) /\ Len(sent[c]) \in Nat /\ DOMAIN sent[c] = 1..Len(sent[c])
      /\ rcvd[c] \in Nat
  BY DEF Inv1, TypeOK, LinkTypeOK
<1>a. h \in Nat /\ k \in DOMAIN sent[c] /\ k \in Nat /\ h <= k
  <2> DEFINE L == Len(sent[c])
             D == DOMAIN sent[c]
  <2>1. L \in Nat /\ D = 1..L /\ h \in D /\ k \in h..L
    BY <1>0, <1>1, <1>6
  <2> HIDE DEF L, D
  <2>2. h \in Nat /\ k \in D /\ k \in Nat /\ h <= k
    BY <2>1
  <2> QED
    BY <2>2 DEF D
<1>2. PICK j \in 1..rcvd[c] : sent[c][k] = sent[c][j]
  <2>1. PICK i \in DOMAIN log : log[i] = Record(c, sent[c][k])
    BY <1>0 DEF Stored
  <2>2. log[i].conn = c /\ log[i].frame = sent[c][k]
    BY <2>1 DEF Record
  <2> QED
    BY <2>2 DEF Inv3, LogReceived
<1>b. j \in Nat /\ j <= rcvd[c] /\ j \in DOMAIN sent[c]
  <2> DEFINE R == rcvd[c]
  <2>1. R \in Nat /\ j \in 1..R
    BY <1>1
  <2>2. j \in DOMAIN sent[c]
    BY LogTypes
  <2> HIDE DEF R
  <2>3. j \in Nat /\ j <= R
    BY <2>1
  <2> QED
    BY <2>2, <2>3 DEF R
<1>3. j = k
  <2>1. j \in DOMAIN sent[c] /\ k \in DOMAIN sent[c] /\ j \in Nat
    BY <1>a, <1>b
  <2>2. sent[c][j] \in Nat
    <3>1. sent[c][j] \in Frames
      BY <1>1, <2>1, ElementOfSeq
    <3> QED
      BY <3>1
  <2>3. (j < k => sent[c][j] < sent[c][k]) /\ (k < j => sent[c][k] < sent[c][j])
    BY <2>1 DEF Inv2, SentIncreasing
  <2> DEFINE n == sent[c][j]
  <2>4. n \in Nat /\ ~(j < k) /\ ~(k < j)
    <3>1. ~(n < n)
      BY <2>2
    <3> HIDE DEF n
    <3>2. sent[c][j] = n /\ sent[c][k] = n
      BY <1>2 DEF n
    <3> QED
      BY <2>2, <2>3, <3>1, <3>2
  <2> QED
    BY <1>a, <2>1, <2>4
<1>4. h # k
  BY <1>0, <1>6
<1>5. h \in 1..rcvd[c] /\ h < rcvd[c]
  <2> DEFINE R == rcvd[c]
  <2>0. h >= 1
    <3> DEFINE L == Len(sent[c])
               D == DOMAIN sent[c]
    <3>1. L \in Nat /\ D = 1..L /\ h \in D
      BY <1>1, <1>6
    <3> HIDE DEF L, D
    <3> QED
      BY <3>1
  <2>1. h >= 1 /\ h \in Nat /\ k \in Nat /\ h <= k /\ h # k /\ k <= R /\ R \in Nat
    <3>1. R \in Nat
      BY <1>1
    <3>2. k <= R
      BY <1>b, <1>3, Zenon
    <3> QED
      BY <1>a, <1>4, <2>0, <3>1, <3>2, Zenon
  <2> HIDE DEF R
  <2>2. h \in 1..R /\ h < R
    BY <2>1
  <2> QED
    BY <2>2 DEF R
<1> QED
  BY <1>a, <1>5, <1>6 DEF Lost

\* A connection leaves a prefix of what was written on it, whatever is refused,
\* broken, crashed or shut down in between, but for frames whose write to the
\* disk failed: no more than there were faults, and none where the disk works.
THEOREM PrefixIsStored == Spec => []StoredPrefix
<1>1. Inv1 /\ Inv2 /\ Inv3 /\ LossInv => StoredPrefix
  <2> SUFFICES ASSUME Inv1, Inv2, Inv3, LossInv PROVE StoredPrefix
    OBVIOUS
  <2> DEFINE U == UNION {{c} \X Gaps(c) : c \in Conns}
  <2>1. U \subseteq Lost
    <3>1. \A c \in Conns : \A h \in Gaps(c) : <<c, h>> \in Lost
      BY GapsAreLosses
    <3>2. ASSUME NEW p \in U PROVE p \in Lost
      <4>0. PICK S \in {{c} \X Gaps(c) : c \in Conns} : p \in S
        BY <3>2
      <4>1. PICK c \in Conns : S = {c} \X Gaps(c)
        BY <4>0
      <4>2. PICK h \in Gaps(c) : p = <<c, h>>
        BY <4>0, <4>1
      <4> QED
        BY <3>1, <4>2
    <3> HIDE DEF U
    <3> QED
      BY <3>2
  <2> HIDE DEF U
  <2>3. Cardinality(U) <= Losses
    BY <2>1, LossesBound
  <2> QED
    BY <2>3 DEF U, StoredPrefix, Losses
<1>2. Spec => [](Inv1 /\ Inv2 /\ Inv3) /\ []LossInv
  BY Invariants123, LossBounded, PTL
<1> QED
  BY <1>1, <1>2, PTL

\* A connection whose close was echoed leaves all that was written on it, capped
\* or not, but for frames whose write to the disk failed: no more than there
\* were faults, and none where the disk works.
THEOREM ClosedIsStored == Spec => []ClosedIsDrained
<1>1. Inv1 /\ Inv4 /\ LossInv => ClosedIsDrained
  <2> SUFFICES ASSUME Inv1, Inv4, LossInv PROVE ClosedIsDrained
    OBVIOUS
  <2> DEFINE Echoed == {d \in Conns : reply[d] = "closed"}
             U == UNION {{c} \X Missing(c) : c \in Echoed}
  <2>1. ASSUME NEW c \in Echoed, NEW k \in Missing(c) PROVE <<c, k>> \in Lost
    <3>1. c \in Conns /\ reply[c] = "closed"
      OBVIOUS
    <3>2. rcvd[c] = Len(sent[c])
      BY <3>1 DEF Inv4, CloseIsLast, CloseAt
    <3>3. k \in DOMAIN sent[c] /\ ~Stored(c, sent[c][k])
      BY DEF Missing
    <3>4. k \in Nat /\ k \in 1..rcvd[c]
      BY <3>1, <3>2, <3>3, SentFrames
    <3> QED
      BY <3>1, <3>3, <3>4 DEF Lost
  <2>2. U \subseteq Lost
    <3>1. ASSUME NEW p \in U PROVE p \in Lost
      <4>1. PICK c \in Echoed : p \in {c} \X Missing(c)
        BY <3>1
      <4>2. PICK k \in Missing(c) : p = <<c, k>>
        BY <4>1
      <4> QED
        BY <2>1, <4>2
    <3> HIDE DEF U
    <3> QED
      BY <3>1
  <2> HIDE DEF U
  <2>3. Cardinality(U) <= Losses
    BY <2>2, LossesBound
  <2> QED
    BY <2>3 DEF U, ClosedIsDrained, Losses
<1>2. Spec => [](Inv1 /\ Inv4) /\ []LossInv
  BY Invariants, LossBounded, PTL
<1> QED
  BY <1>1, <1>2, PTL

-----------------------------------------------------------------------------
\* Delivery alone.

Delivered == {stream[i] : i \in DOMAIN stream}

\* A frame is in one place at a time, once it is produced.
OnePlace ==
    /\ stream \in Seq(Frame)
    /\ produced \subseteq Frame
    /\ todo \subseteq produced /\ transit \subseteq produced /\ Delivered \subseteq produced
    /\ todo \cap transit = {} /\ Delivered \cap (todo \cup transit) = {}
    /\ AtMostOnce

LEMMA DeliveredAppend ==
    ASSUME stream \in Seq(Frame), NEW f \in Frame, stream' = Append(stream, f)
    PROVE  /\ Delivered' = Delivered \cup {f}
           /\ stream' \in Seq(Frame)
           /\ AtMostOnce /\ f \notin Delivered => AtMostOnce'
<1>1. /\ Len(stream) \in Nat /\ DOMAIN stream = 1..Len(stream)
      /\ DOMAIN stream' = 1..(Len(stream) + 1)
      /\ stream'[Len(stream) + 1] = f /\ \A i \in 1..Len(stream) : stream'[i] = stream[i]
  OBVIOUS
<1>2. \A i \in DOMAIN stream' : i \in DOMAIN stream \/ i = Len(stream) + 1
  BY <1>1
<1>3. \A i \in DOMAIN stream : i \in DOMAIN stream' /\ stream'[i] = stream[i]
  BY <1>1
<1>4. Len(stream) + 1 \in DOMAIN stream' /\ stream'[Len(stream) + 1] = f
  BY <1>1
<1>5. Delivered' = Delivered \cup {f}
  BY <1>2, <1>3, <1>4 DEF Delivered
<1>6. AtMostOnce /\ f \notin Delivered => AtMostOnce'
  BY <1>2, <1>3, <1>4 DEF AtMostOnce, Delivered
<1> QED
  BY <1>5, <1>6

LEMMA InitOnePlace == DInit => OnePlace
BY DEF DInit, OnePlace, Delivered, AtMostOnce

LEMMA StepOnePlace == OnePlace /\ [DNext]_deliveryVars => OnePlace'
<1> SUFFICES ASSUME OnePlace, [DNext]_deliveryVars PROVE OnePlace'
  OBVIOUS
<1>1. CASE Loses \/ UNCHANGED deliveryVars
  BY <1>1 DEF Loses, deliveryVars, OnePlace, Delivered, AtMostOnce
<1>2. ASSUME NEW f \in Frame, Produces(f) PROVE OnePlace'
  BY <1>2 DEF Produces, OnePlace, Delivered, AtMostOnce
<1>3. ASSUME NEW f \in Frame, Sends(f) PROVE OnePlace'
  BY <1>3 DEF Sends, OnePlace, Delivered, AtMostOnce
<1>4. ASSUME NEW f \in Frame, Stores(f) PROVE OnePlace'
  <2>1. f \in transit /\ f \in produced /\ f \notin todo /\ f \notin Delivered
    BY <1>4 DEF Stores, OnePlace
  <2>2. Delivered' = Delivered \cup {f} /\ stream' \in Seq(Frame) /\ AtMostOnce'
    BY <1>4, <2>1, DeliveredAppend DEF Stores, OnePlace
  <2> QED
    BY <1>4, <2>1, <2>2 DEF Stores, OnePlace
<1> QED
  BY <1>1, <1>2, <1>3, <1>4 DEF DNext

\* The abstraction never stores a frame twice, so that neither does what
\* implements it.
THEOREM DeliveredAtMostOnce == DSpec => []AtMostOnce
<1>1. OnePlace => AtMostOnce
  BY DEF OnePlace
<1> QED
  BY <1>1, InitOnePlace, StepOnePlace, PTL DEF DSpec
=============================================================================
