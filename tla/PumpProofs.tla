----------------------------- MODULE PumpProofs -----------------------------
(***************************************************************************)
(* Pump for every chunk size, every number of reads, and a send that may   *)
(* fail or not: the timer is set exactly while it is armed, memory and     *)
(* frames are bounded, timestamps are ordered and nothing is lost.         *)
(***************************************************************************)
EXTENDS Pump, TLAPS

\* The bytes are accounted for: what the reader has read is teed or in its
\* hand, and what is teed is sent or pending.
Conserved ==
    /\ got = teed + result.head + result.tail
    /\ rpc # "handing" => result.head + result.tail = 0
    /\ ~retired => shipped + pending = teed
    /\ pc = "select" <=> rpc # "returned"
    /\ pc = "returned" /\ ~retired => pending = 0

\* What waits is short of a chunk.
Short ==
    /\ pc # "returned" => pending < ChunkSize
    /\ \A i \in DOMAIN frames : frames[i].len < 2 * ChunkSize

\* The pending bytes are no older than the time they will be stamped with, and
\* no frame has a later one.
Stamped ==
    /\ pendingAt <= oldest \/ pending = 0
    /\ oldest <= reads \/ pending = 0
    /\ pendingAt <= reads
    /\ \A i \in DOMAIN frames : frames[i].at <= pendingAt

Inv == TypeOK /\ TimerMatches /\ Conserved /\ Short /\ Stamped /\ StampsOrdered

Frame(n, at, first) == [len |-> n, at |-> at, read |-> first]

LEMMA ElementOf ==
    ASSUME NEW S, NEW fs \in Seq(S), NEW i \in DOMAIN fs
    PROVE  fs[i] \in S
  OBVIOUS

LEMMA PlusNothing ==
    ASSUME NEW a \in Nat, NEW b, b = 0
    PROVE  a + b = a
  OBVIOUS

\* A result has so many bytes.
LEMMA ResultBytes ==
    ASSUME NEW r \in Results \cup {Nothing}
    PROVE  /\ r.head \in Nat /\ r.tail \in Nat /\ r.ends \in BOOLEAN
           /\ r.head + r.tail <= ChunkSize
<1>1. CASE r \in Results
  <2>1. /\ r \in [head : 0..ChunkSize, tail : 0..ChunkSize, ends : BOOLEAN]
        /\ r.head + r.tail <= ChunkSize
    BY <1>1 DEF Results
  <2>2. r.head \in 0..ChunkSize /\ r.tail \in 0..ChunkSize /\ r.ends \in BOOLEAN
    BY <2>1
  <2> QED
    BY <2>1, <2>2, PumpAssumption
<1>2. CASE r = Nothing
  <2>1. r.head = 0 /\ r.tail = 0 /\ r.ends = FALSE
    BY <1>2 DEF Nothing
  <2>2. r.head \in Nat /\ r.tail \in Nat /\ r.head + r.tail <= ChunkSize
    BY <2>1, PumpAssumption
  <2>3. r.ends \in BOOLEAN
    BY <2>1, Zenon
  <2> QED
    BY <2>2, <2>3
<1> QED
  BY <1>1, <1>2

\* The frames stay in order when one is added that is stamped no earlier than
\* the others and no later than its bytes.
OrderedFrames(fs, n, at) ==
    /\ fs \in Seq([len : Nat, at : Nat, read : Nat])
    /\ \A i \in DOMAIN fs : fs[i].len < n
    /\ \A i \in DOMAIN fs : fs[i].at <= fs[i].read /\ fs[i].at <= at
    /\ \A i, j \in DOMAIN fs : i < j => fs[i].at <= fs[j].at

LEMMA AppendOrdered ==
    ASSUME NEW fs, NEW n \in Nat, NEW at \in Nat, NEW len \in Nat, NEW read \in Nat,
           OrderedFrames(fs, n, at), len < n, at <= read
    PROVE  OrderedFrames(Append(fs, Frame(len, at, read)), n, at)
<1> DEFINE F  == [len : Nat, at : Nat, read : Nat]
           fr == Frame(len, at, read)
           gs == Append(fs, fr)
<1>1. fs \in Seq(F) /\ fr \in F
  BY DEF OrderedFrames, Frame
<1>2. /\ gs \in Seq(F)
      /\ Len(gs) = Len(fs) + 1
      /\ gs[Len(fs) + 1] = fr
      /\ \A i \in 1..Len(fs) : gs[i] = fs[i]
  BY <1>1
<1>3. /\ DOMAIN fs = 1..Len(fs)
      /\ DOMAIN gs = 1..Len(gs)
      /\ Len(fs) \in Nat
  BY <1>1, <1>2
<1>4. fr.len = len /\ fr.at = at /\ fr.read = read
  BY DEF Frame
<1> HIDE DEF gs, fr
<1>5. \A i \in DOMAIN gs : i \in DOMAIN fs \/ i = Len(fs) + 1
  BY <1>2, <1>3
<1>6. \A i \in DOMAIN fs : gs[i] = fs[i]
  BY <1>2, <1>3
<1>7. ASSUME NEW i \in DOMAIN gs
      PROVE  gs[i].len < n /\ gs[i].at <= gs[i].read /\ gs[i].at <= at
  <2>1. CASE i \in DOMAIN fs
    BY <2>1, <1>6 DEF OrderedFrames
  <2>2. CASE i = Len(fs) + 1
    <3>1. gs[i] = fr
      BY <2>2, <1>2
    <3>2. at <= at
      OBVIOUS
    <3> QED
      BY <3>1, <3>2, <1>4
  <2> QED
    BY <2>1, <2>2, <1>5
<1>8. ASSUME NEW i \in DOMAIN gs, NEW j \in DOMAIN gs, i < j
      PROVE  gs[i].at <= gs[j].at
  <2>1. i \in DOMAIN fs
    BY <1>2, <1>3, <1>8
  <2>2. CASE j \in DOMAIN fs
    BY <2>1, <2>2, <1>6, <1>8 DEF OrderedFrames
  <2>3. CASE j = Len(fs) + 1
    BY <2>3, <1>2, <1>4, <1>7
  <2> QED
    BY <2>2, <2>3, <1>5
<1>9. OrderedFrames(gs, n, at)
  BY <1>2, <1>7, <1>8 DEF OrderedFrames
<1> QED
  BY <1>9 DEF gs, fr

\* What a flush does to bytes and frames, whatever the outcome of its send.
LEMMA FlushEffect ==
    ASSUME TypeOK, NEW have \in Nat, NEW upTo \in Nat, upTo <= have,
           NEW at \in Nat, NEW first \in Nat, Flush(have, upTo, at, first)
    PROVE  /\ pending' \in Nat /\ shipped' \in Nat /\ retired' \in BOOLEAN
           /\ pending' <= have - upTo
           /\ ~retired' => ~retired /\ shipped' + pending' = shipped + have
           /\ ~retired' => pending' = have - upTo
           /\ \/ frames' = frames /\ shipped' = shipped
              \/ /\ upTo > 0
                 /\ frames' = Append(frames, Frame(upTo, at, first))
<1>1. have - upTo \in Nat /\ pending \in Nat /\ shipped \in Nat /\ retired \in BOOLEAN
  BY DEF TypeOK
<1>2. CASE (upTo = 0 \/ retired) /\ pending' = have - upTo /\ UNCHANGED <<retired, shipped, frames>>
  BY <1>1, <1>2
<1>3. CASE /\ upTo > 0 /\ ~retired
           /\ pending' = have - upTo
           /\ shipped' = shipped + upTo
           /\ frames' = Append(frames, Frame(upTo, at, first))
           /\ UNCHANGED retired
  <2> DEFINE fs == Append(frames, Frame(upTo, at, first))
  <2>1. frames' = fs
    BY <1>3
  <2> HIDE DEF fs
  <2>2. shipped' + pending' = shipped + have
    BY <1>1, <1>3
  <2>3. shipped' \in Nat /\ pending' \in Nat /\ retired' = retired
    BY <1>1, <1>3
  <2> QED
    BY <2>1, <2>2, <2>3, <1>1, <1>3 DEF fs
<1>4. CASE upTo > 0 /\ retired' = TRUE /\ pending' = 0 /\ UNCHANGED <<shipped, frames>>
  BY <1>1, <1>4
<1> QED
  BY <1>2, <1>3, <1>4 DEF Flush, Frame

LEMMA FramesAfterFlush ==
    ASSUME TypeOK, NEW have \in Nat, NEW upTo \in Nat, upTo <= have,
           have < 2 * ChunkSize,
           NEW at \in Nat, NEW first \in Nat, Flush(have, upTo, at, first),
           at <= first \/ upTo = 0,
           OrderedFrames(frames, 2 * ChunkSize, at)
    PROVE  OrderedFrames(frames', 2 * ChunkSize, at)
<1>1. CASE frames' = frames
  BY <1>1
<1>2. CASE upTo > 0 /\ frames' = Append(frames, Frame(upTo, at, first))
  <2>1. 2 * ChunkSize \in Nat /\ upTo < 2 * ChunkSize /\ at <= first
    BY <1>2, PumpAssumption
  <2> QED
    BY <1>2, <2>1, AppendOrdered
<1> QED
  BY <1>1, <1>2, FlushEffect

-----------------------------------------------------------------------------
\* Init.
LEMMA PumpInit == Init => Inv
<1> SUFFICES ASSUME Init PROVE Inv
  OBVIOUS
<1> USE DEF Init
<1>1. Nothing.head = 0 /\ Nothing.tail = 0
  BY DEF Nothing
<1>2. DOMAIN frames = {}
  OBVIOUS
<1>3. frames \in Seq([len : Nat, at : Nat, read : Nat])
  OBVIOUS
<1>4. TypeOK
  BY <1>3 DEF TypeOK
<1>5. TimerMatches
  BY DEF TimerMatches
<1>6. Conserved
  BY <1>1 DEF Conserved
<1>7. Short /\ Stamped /\ StampsOrdered
  BY <1>2, PumpAssumption DEF Short, Stamped, StampsOrdered
<1> QED
  BY <1>4, <1>5, <1>6, <1>7 DEF Inv

\* The frames and the pending bytes, as one invariant about an upper bound of
\* the timestamps.
LEMMA FramesOrdered ==
    ASSUME Inv, NEW at \in Nat, pendingAt <= at
    PROVE  OrderedFrames(frames, 2 * ChunkSize, at)
<1>1. pendingAt \in Nat /\ frames \in Seq([len : Nat, at : Nat, read : Nat])
  BY DEF Inv, TypeOK
<1>2. \A i \in DOMAIN frames : frames[i] \in [len : Nat, at : Nat, read : Nat]
  BY <1>1, ElementOf
<1>3. \A i \in DOMAIN frames : frames[i].at \in Nat
  BY <1>2
<1>4. \A i \in DOMAIN frames : frames[i].at <= at
  BY <1>1, <1>3 DEF Inv, Stamped
<1> QED
  BY <1>1, <1>4 DEF OrderedFrames, Inv, Short, StampsOrdered

\* The steps that leave the bytes alone: the reader's and the timer's.
LEMMA PumpReads == Inv /\ Reads => Inv'
<1> SUFFICES ASSUME Inv, Reads PROVE Inv'
  OBVIOUS
<1>1. result' \in Results \cup {Nothing} /\ result \in Results \cup {Nothing}
  BY DEF Reads, Inv, TypeOK
<1>2. /\ result'.head \in Nat /\ result'.tail \in Nat
      /\ result.head \in Nat /\ result.tail \in Nat
      /\ got \in Nat /\ teed \in Nat
  BY <1>1, ResultBytes DEF Inv, TypeOK
<1>3. result.head + result.tail = 0
  BY DEF Inv, Conserved, Reads
<1>4. TypeOK'
  BY <1>1, <1>2 DEF Inv, TypeOK, Reads, timerVars
<1>5. TimerMatches' /\ Short' /\ Stamped' /\ StampsOrdered'
  BY DEF Inv, TimerMatches, Short, Stamped, StampsOrdered, Reads, timerVars
<1>6. got' = teed' + result'.head + result'.tail
  <2>1. got = teed + result.head + result.tail
    BY DEF Inv, Conserved
  <2>2. got' = got + result'.head + result'.tail /\ teed' = teed
    BY DEF Reads
  <2> QED
    BY <1>2, <1>3, <2>1, <2>2
<1>7. Conserved'
  BY <1>6 DEF Inv, Conserved, Reads
<1> QED
  BY <1>4, <1>5, <1>7 DEF Inv

LEMMA PumpFires == Inv /\ Fires => Inv'
<1> SUFFICES ASSUME Inv, Fires PROVE Inv'
  OBVIOUS
<1>1. TypeOK' /\ TimerMatches'
  BY DEF Inv, TypeOK, TimerMatches, Fires, readerVars
<1>2. Conserved' /\ Short' /\ Stamped' /\ StampsOrdered'
  BY DEF Inv, Conserved, Short, Stamped, StampsOrdered, Fires, readerVars
<1> QED
  BY <1>1, <1>2 DEF Inv

\* A flush of all that waits, stamped as it is, keeps what Inv says of the
\* frames.
LEMMA WholeFlush ==
    ASSUME Inv, pc # "returned", Flush(pending, pending, pendingAt, oldest)
    PROVE  /\ OrderedFrames(frames', 2 * ChunkSize, pendingAt)
           /\ pending' = 0 /\ shipped' \in Nat /\ retired' \in BOOLEAN
           /\ ~retired' => ~retired /\ shipped' = teed
<1>1. /\ pending \in Nat /\ pendingAt \in Nat /\ oldest \in Nat /\ shipped \in Nat
      /\ pending <= pending /\ pendingAt <= pendingAt
  BY DEF Inv, TypeOK
<1>2. pending < 2 * ChunkSize
  BY <1>1, PumpAssumption DEF Inv, Short
<1>3. pendingAt <= oldest \/ pending = 0
  BY DEF Inv, Stamped
<1>4. OrderedFrames(frames, 2 * ChunkSize, pendingAt)
  BY <1>1, FramesOrdered
<1>5. OrderedFrames(frames', 2 * ChunkSize, pendingAt)
  BY <1>1, <1>2, <1>3, <1>4, FramesAfterFlush DEF Inv
<1>6. /\ pending' \in Nat /\ shipped' \in Nat /\ retired' \in BOOLEAN
      /\ pending' <= pending - pending
      /\ ~retired' => ~retired /\ shipped' + pending' = shipped + pending
  BY <1>1, FlushEffect DEF Inv
<1>7. pending' = 0
  BY <1>1, <1>6
<1>8. ~retired => shipped + pending = teed
  BY DEF Inv, Conserved
<1>9. ASSUME ~retired' PROVE shipped' = teed
  <2>1. shipped' + pending' = shipped + pending /\ shipped + pending = teed
    BY <1>6, <1>8, <1>9
  <2>2. shipped' + pending' = shipped'
    BY <1>6, <1>7, PlusNothing
  <2> QED
    BY <2>1, <2>2
<1> QED
  BY <1>5, <1>6, <1>7, <1>9

\* OrderedFrames is what Inv asks of the frames.
LEMMA FromOrdered ==
    ASSUME OrderedFrames(frames', 2 * ChunkSize, pendingAt')
    PROVE  /\ frames' \in Seq([len : Nat, at : Nat, read : Nat])
           /\ \A i \in DOMAIN frames' : frames'[i].len < 2 * ChunkSize
           /\ \A i \in DOMAIN frames' : frames'[i].at <= pendingAt'
           /\ StampsOrdered'
  BY DEF OrderedFrames, StampsOrdered

LEMMA PumpTicks == Inv /\ Ticks => Inv'
<1> SUFFICES ASSUME Inv, Ticks PROVE Inv'
  OBVIOUS
<1>1. /\ Flush(pending, pending, pendingAt, oldest)
      /\ armed' = FALSE /\ timer' = "off"
      /\ UNCHANGED <<rpc, result, pc, pendingAt, reads, got, teed, oldest>>
      /\ pc = "select"
  BY DEF Ticks, readerVars
<1>2. /\ OrderedFrames(frames', 2 * ChunkSize, pendingAt)
      /\ pending' = 0 /\ shipped' \in Nat /\ retired' \in BOOLEAN
      /\ ~retired' => ~retired /\ shipped' = teed
  BY <1>1, WholeFlush
<1>3. /\ frames' \in Seq([len : Nat, at : Nat, read : Nat])
      /\ \A i \in DOMAIN frames' : frames'[i].len < 2 * ChunkSize
      /\ \A i \in DOMAIN frames' : frames'[i].at <= pendingAt'
      /\ StampsOrdered'
  BY <1>1, <1>2, FromOrdered
<1>4. TypeOK'
  BY <1>1, <1>2, <1>3 DEF Inv, TypeOK
<1>5. TimerMatches'
  BY <1>1, <1>2 DEF TimerMatches
<1>6. ~retired' => shipped' + pending' = teed'
  BY <1>1, <1>2
<1>7. Conserved'
  BY <1>1, <1>2, <1>6 DEF Inv, Conserved
<1>8. Short' /\ Stamped'
  BY <1>1, <1>2, <1>3, PumpAssumption DEF Inv, Short, Stamped
<1> QED
  BY <1>3, <1>4, <1>5, <1>7, <1>8 DEF Inv

LEMMA PumpEnds == Inv /\ Ends => Inv'
<1> SUFFICES ASSUME Inv, Ends PROVE Inv'
  OBVIOUS
<1>1. /\ Flush(pending, pending, pendingAt, oldest)
      /\ armed' = (armed /\ ~Stops) /\ timer' = "off"
      /\ UNCHANGED <<rpc, result, pendingAt, reads, got, teed, oldest>>
      /\ pc = "ending" /\ pc' = "returned"
  BY DEF Ends, readerVars
<1>2. /\ OrderedFrames(frames', 2 * ChunkSize, pendingAt)
      /\ pending' = 0 /\ shipped' \in Nat /\ retired' \in BOOLEAN
      /\ ~retired' => ~retired /\ shipped' = teed
  BY <1>1, WholeFlush
<1>3. /\ frames' \in Seq([len : Nat, at : Nat, read : Nat])
      /\ \A i \in DOMAIN frames' : frames'[i].len < 2 * ChunkSize
      /\ \A i \in DOMAIN frames' : frames'[i].at <= pendingAt'
      /\ StampsOrdered'
  BY <1>1, <1>2, FromOrdered
<1>4. armed' \in BOOLEAN
  BY <1>1
<1>5. TypeOK'
  BY <1>1, <1>2, <1>3, <1>4 DEF Inv, TypeOK
<1>6. TimerMatches'
  BY <1>1 DEF TimerMatches
<1>7. ~retired' => shipped' + pending' = teed'
  BY <1>1, <1>2
<1>8. Conserved'
  BY <1>1, <1>2, <1>7 DEF Inv, Conserved
<1>9. Short' /\ Stamped'
  BY <1>1, <1>2, <1>3 DEF Inv, Short, Stamped
<1> QED
  BY <1>3, <1>5, <1>6, <1>8, <1>9 DEF Inv

\* What goes out of `have` bytes, and what a flush of it leaves, is short of a
\* chunk.
LEMMA UpToBounds ==
    ASSUME NEW r \in Results \cup {Nothing}, NEW have \in Nat, r.head + r.tail <= have
    PROVE  /\ UpTo(have, r) \in Nat
           /\ UpTo(have, r) <= have
           /\ have - UpTo(have, r) < ChunkSize
<1>1. /\ r.head \in Nat /\ r.tail \in Nat /\ r.head + r.tail <= ChunkSize
      /\ ChunkSize \in Nat /\ ChunkSize > 0
  BY ResultBytes, PumpAssumption
<1> DEFINE h == r.head
           t == r.tail
<1>2. CASE h > 0
  <2>1. UpTo(have, r) = have - t
    BY <1>2 DEF UpTo
  <2> HIDE DEF h, t
  <2>2. h \in Nat /\ t \in Nat /\ h + t <= ChunkSize /\ h + t <= have
    BY <1>1 DEF h, t
  <2>3. have - t \in Nat /\ have - t <= have /\ have - (have - t) = t /\ t < ChunkSize
    BY <1>1, <1>2, <2>2
  <2> QED
    BY <2>1, <2>3
<1>3. CASE ~(h > 0) /\ have >= ChunkSize
  <2>1. UpTo(have, r) = have
    BY <1>3 DEF UpTo
  <2> QED
    BY <2>1, <1>1
<1>4. CASE ~(h > 0) /\ ~(have >= ChunkSize)
  <2>1. UpTo(have, r) = 0
    BY <1>4 DEF UpTo
  <2> QED
    BY <2>1, <1>1, <1>4
<1> QED
  BY <1>2, <1>3, <1>4

\* The timer after data has come: set if it was, or if something waits.
LEMMA ArmMatches ==
    ASSUME armed \in BOOLEAN, timer \in {"off", "running", "fired"},
           armed <=> timer # "off", pending' \in Nat, Arm
    PROVE  /\ armed' \in BOOLEAN /\ timer' \in {"off", "running", "fired"}
           /\ armed' <=> timer' # "off"
           /\ pending' > 0 => armed'
<1>1. CASE Stops
  <2>1. armed' = FALSE /\ timer' = "off"
    BY <1>1, Zenon DEF Arm
  <2>2. pending' = 0
    BY <1>1 DEF Stops
  <2>3. ~(pending' > 0)
    BY <2>2
  <2> QED
    BY <2>1, <2>3
<1>2. CASE ~Stops /\ pending' > 0 /\ ~armed
  <2>1. armed' = TRUE /\ timer' = "running"
    BY <1>2 DEF Arm
  <2> QED
    BY <2>1
<1>3. CASE ~Stops /\ pending' > 0 /\ armed
  <2>1. armed' = TRUE /\ timer' = timer
    BY <1>3 DEF Arm
  <2> QED
    BY <2>1, <1>3
<1>4. CASE ~Stops /\ ~(pending' > 0)
  <2>1. armed' = armed /\ timer' = timer
    BY <1>4 DEF Arm
  <2> QED
    BY <2>1, <1>4
<1> QED
  BY <1>1, <1>2, <1>3, <1>4

LEMMA PumpReceives == Inv /\ Receives => Inv'
<1> SUFFICES ASSUME Inv, Receives PROVE Inv'
  OBVIOUS
<1> DEFINE n    == result.head + result.tail
           have == pending + n
           now  == reads + 1
           at   == Stamp(now)
           old  == IF pending = 0 THEN now ELSE oldest
           up   == UpTo(have, result)
<1>1. /\ pc = "select" /\ rpc = "handing"
      /\ reads' = now /\ teed' = teed + n
      /\ pc' = IF result.ends THEN "ending" ELSE "select"
      /\ rpc' = IF result.ends THEN "returned" ELSE "reading"
      /\ result' = Nothing /\ got' = got
  BY DEF Receives
<1>2. /\ result \in Results \cup {Nothing}
      /\ pending \in Nat /\ reads \in Nat /\ teed \in Nat /\ pendingAt \in Nat
      /\ oldest \in Nat /\ shipped \in Nat /\ armed \in BOOLEAN
      /\ timer \in {"off", "running", "fired"} /\ retired \in BOOLEAN
  BY DEF Inv, TypeOK
<1>3. n \in Nat /\ n <= ChunkSize /\ ChunkSize \in Nat
  BY <1>2, ResultBytes, PumpAssumption
<1>4. pending < ChunkSize
  BY <1>1 DEF Inv, Short
<1>5. result'.head + result'.tail = 0 /\ result'.head = 0 /\ result'.tail = 0
  BY <1>1 DEF Nothing
<1>6. got' = teed' + result'.head + result'.tail
  <2>1. got = teed + result.head + result.tail
    BY DEF Inv, Conserved
  <2>2. result.head \in Nat /\ result.tail \in Nat
    BY <1>2, ResultBytes
  <2>3. got = teed + n
    BY <1>2, <2>1, <2>2
  <2>4. teed' + 0 + 0 = teed'
    BY <1>1, <1>2, <1>3, PlusNothing
  <2> QED
    BY <1>1, <1>5, <2>3, <2>4
<1>7. /\ rpc' \in {"reading", "returned"} /\ pc' \in {"select", "ending"}
      /\ pc' = "select" <=> rpc' # "returned"
  BY <1>1
<1>8. reads' \in Nat /\ teed' \in Nat /\ got' \in Nat /\ result' \in Results \cup {Nothing}
  BY <1>1, <1>2, <1>3 DEF Inv, TypeOK
<1>9. ~retired => shipped + pending = teed
  BY DEF Inv, Conserved
<1>10. CASE n = 0
  <2>1. UNCHANGED <<pending, pendingAt, armed, timer, retired, shipped, frames, oldest>>
    BY <1>10 DEF Receives, timerVars
  <2>2. TypeOK'
    BY <1>7, <1>8, <2>1 DEF Inv, TypeOK
  <2>3. TimerMatches'
    BY <1>1, <2>1 DEF Inv, TimerMatches
  <2>4. teed' = teed
    BY <1>1, <1>2, <1>10
  <2>5. Conserved'
    BY <1>5, <1>6, <1>7, <1>9, <2>1, <2>4 DEF Conserved
  <2>6. Short' /\ StampsOrdered'
    BY <1>1, <2>1 DEF Inv, Short, StampsOrdered
  <2>7. reads <= reads'
    BY <1>1, <1>2
  <2>8. Stamped'
    BY <1>2, <1>8, <2>1, <2>7 DEF Inv, Stamped
  <2> QED
    BY <2>2, <2>3, <2>5, <2>6, <2>8 DEF Inv
<1>11. CASE n # 0
  <2>1. /\ Flush(have, up, at, old)
        /\ Arm
        /\ pendingAt' = at
        /\ oldest' = IF up > 0 THEN now ELSE old
    BY <1>11 DEF Receives
  <2>2. /\ have \in Nat /\ have < 2 * ChunkSize /\ n <= have
        /\ now \in Nat /\ reads <= now
    BY <1>2, <1>3, <1>4
  <2>3. up \in Nat /\ up <= have /\ have - up < ChunkSize
    BY <1>2, <2>2, UpToBounds
  <2>4. /\ at \in Nat /\ old \in Nat /\ at <= old /\ at <= now /\ old <= now
        /\ pendingAt <= at
    <3>1. pendingAt <= reads
      BY DEF Inv, Stamped
    <3>2. CASE pending = 0
      BY <1>2, <2>2, <3>1, <3>2 DEF Stamp
    <3>3. CASE pending # 0
      <4>1. at = pendingAt /\ old = oldest /\ pendingAt <= oldest /\ oldest <= reads
        BY <3>3 DEF Stamp, Inv, Stamped
      <4> QED
        BY <1>2, <2>2, <3>1, <4>1
    <3> QED
      BY <3>2, <3>3
  <2> HIDE DEF n, have, now, at, old, up
  <2>5. OrderedFrames(frames', 2 * ChunkSize, at)
    <3>1. OrderedFrames(frames, 2 * ChunkSize, at)
      BY <2>4, FramesOrdered
    <3> QED
      BY <2>1, <2>2, <2>3, <2>4, <3>1, FramesAfterFlush DEF Inv
  <2>6. /\ frames' \in Seq([len : Nat, at : Nat, read : Nat])
        /\ \A i \in DOMAIN frames' : frames'[i].len < 2 * ChunkSize
        /\ \A i \in DOMAIN frames' : frames'[i].at <= pendingAt'
        /\ StampsOrdered'
    BY <2>1, <2>5, FromOrdered
  <2>7. /\ pending' \in Nat /\ shipped' \in Nat /\ retired' \in BOOLEAN
        /\ pending' <= have - up
        /\ ~retired' => ~retired /\ shipped' + pending' = shipped + have
    BY <2>1, <2>2, <2>3, <2>4, FlushEffect DEF Inv
  <2>8. /\ armed' \in BOOLEAN /\ timer' \in {"off", "running", "fired"}
        /\ armed' <=> timer' # "off"
        /\ pending' > 0 => armed'
    <3>1. armed <=> timer # "off"
      BY <1>1 DEF Inv, TimerMatches
    <3> QED
      BY <1>2, <2>1, <2>7, <3>1, ArmMatches
  <2>9. oldest' \in Nat /\ oldest' <= now /\ at <= oldest'
    BY <2>1, <2>2, <2>4
  <2>10. TypeOK'
    BY <1>7, <1>8, <2>1, <2>4, <2>6, <2>7, <2>8, <2>9 DEF TypeOK
  <2>11. TimerMatches'
    BY <2>8 DEF TimerMatches
  <2>12. ASSUME ~retired' PROVE shipped' + pending' = teed'
    <3>1. shipped' + pending' = shipped + have /\ shipped + pending = teed
      BY <1>9, <2>7, <2>12
    <3>2. shipped + (pending + n) = (shipped + pending) + n
      BY <1>2, <1>3 DEF n
    <3> QED
      BY <1>1, <3>1, <3>2 DEF have
  <2>13. Conserved'
    BY <1>5, <1>6, <1>7, <2>12 DEF Conserved
  <2>14. pending' < ChunkSize
    BY <1>3, <2>2, <2>3, <2>7
  <2>15. Short'
    BY <2>6, <2>14 DEF Short
  <2>16. Stamped'
    BY <1>1, <2>1, <2>4, <2>6, <2>9 DEF Stamped, now
  <2> QED
    BY <2>6, <2>10, <2>11, <2>13, <2>15, <2>16 DEF Inv
<1> QED
  BY <1>10, <1>11

LEMMA PumpStep == Inv /\ [Next]_pumpVars => Inv'
<1>1. Inv /\ UNCHANGED pumpVars => Inv'
  BY DEF Inv, TypeOK, TimerMatches, Conserved, Short, Stamped, StampsOrdered,
         pumpVars, readerVars, timerVars
<1> QED
  BY <1>1, PumpReads, PumpFires, PumpTicks, PumpEnds, PumpReceives DEF Next, Quiet

LEMMA PumpInv == Spec => []Inv
  BY PumpInit, PumpStep, PTL DEF Spec

-----------------------------------------------------------------------------
\* The variables of the pump have their types, whatever the chunk size.
THEOREM PumpTypes == Spec => []TypeOK
<1>1. Inv => TypeOK
  BY DEF Inv
<1> QED
  BY <1>1, PumpInv, PTL

\* The receive after a failed Stop always finds its tick, and no partial line
\* is without a timer (stream.go:72-77, 106-109).
THEOREM TimerAlwaysMatches == Spec => []TimerMatches
<1>1. Inv => TimerMatches
  BY DEF Inv
<1> QED
  BY <1>1, PumpInv, PTL

\* Less than a chunk waits, and a frame is shorter than two (stream.go:26-27).
THEOREM FramesBounded == Spec => []FrameBound
<1>1. Inv => FrameBound
  BY DEF Inv, Short, FrameBound
<1> QED
  BY <1>1, PumpInv, PTL

\* Timestamps are ordered, and no later than the bytes they stamp.
THEOREM StampsAlwaysOrdered == Spec => []StampsOrdered
<1>1. Inv => StampsOrdered
  BY DEF Inv
<1> QED
  BY <1>1, PumpInv, PTL

\* A pump that returns has teed all it read, and sent it unless sending failed.
THEOREM PumpLosesNothing == Spec => []NothingLost
<1>1. Inv => NothingLost
  <2> SUFFICES ASSUME Inv, pc = "returned"
               PROVE  teed = got /\ (~retired => shipped = got)
    BY DEF NothingLost
  <2>1. rpc = "returned"
    BY DEF Inv, Conserved, TypeOK
  <2>2. /\ result.head + result.tail = 0
        /\ got = teed + result.head + result.tail
        /\ ~retired => shipped + pending = teed /\ pending = 0
    BY <2>1 DEF Inv, Conserved
  <2>3. /\ result.head \in Nat /\ result.tail \in Nat /\ teed \in Nat
        /\ shipped \in Nat
    BY ResultBytes DEF Inv, TypeOK
  <2>4. got = teed
    BY <2>2, <2>3
  <2>5. ~retired => shipped = teed
    BY <2>2, <2>3, PlusNothing
  <2> QED
    BY <2>4, <2>5
<1> QED
  BY <1>1, PumpInv, PTL
=============================================================================
