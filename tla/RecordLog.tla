----------------------------- MODULE RecordLog -----------------------------
(***************************************************************************)
(* A stream's file, byte by byte (internal/storage/storage.go): Append     *)
(* writes a record, which is the length of a frame body and the body, and  *)
(* Fetch finds the records again from the lengths alone, and then the      *)
(* lines in their payloads.  A write may come in several pieces, fail      *)
(* between two of them, or end with the process; what is behind the piece  *)
(* that is left then is read out of step.                                  *)
(*                                                                         *)
(* A reader takes no lock.  The file only grows, so that what a Fetch gets *)
(* of it, in however many reads, is the file as it was at the last one.    *)
(***************************************************************************)
EXTENDS Integers, Sequences, FiniteSets, FiniteSetsExt, SequencesExt

CONSTANTS
    Writers,    \* the goroutines with a Writer of the stream
    Bodies,     \* the frame bodies they append
    Base,       \* 128: a byte of a length counts less, and more is to follow
                \* if it is not less itself
    MaxPrefix,  \* binary.MaxVarintLen64
    MaxRecord,  \* maxRecordBytes
    LineEnd,    \* the line feed
    MaxRecords, \* bound on the records that are begun
    MaxTears    \* bound on the writes that end half way

Byte == 0..(2 * Base - 1)

\* FrameHeaderSize: the stream and the timestamp, a byte each.
HeaderSize == 2

ASSUME RecordAssumption ==
    /\ {Base, MaxPrefix} \subseteq Nat \ {0} /\ Base > 1 /\ LineEnd \in Byte
    /\ {MaxRecord, MaxRecords, MaxTears} \subseteq Nat
    /\ \A b \in Bodies : b \in Seq(Byte) /\ Len(b) \in HeaderSize..MaxRecord

VARIABLES
    bytes,  \* the file
    lock,   \* who holds the shard: {} or a writer
    body,   \* the body a writer is appending, or <<>>
    rest,   \* the bytes of its record that are not in the file yet
    \* History: the bodies whose records are in the file whole, and of each
    \* record that is not, the number of those before it.
    stored,
    tears

logVars == <<bytes, lock, body, rest, stored, tears>>

-----------------------------------------------------------------------------
\* Append.

\* binary.PutUvarint: the low digits first.
Uvarint(n) ==
    LET digits[m \in 0..n] ==
            IF m < Base THEN <<m>> ELSE <<Base + (m % Base)>> \o digits[m \div Base]
    IN digits[n]

\* A length that is appended fits MaxVarintLen64 bytes.
ASSUME PrefixAssumption == \A n \in HeaderSize..MaxRecord : Len(Uvarint(n)) <= MaxPrefix

Record(b) == Uvarint(Len(b)) \o b

-----------------------------------------------------------------------------
\* Fetch: the records.

\* binary.ReadUvarint at p: where the length ends, if it ends in the file and
\* is not too long; and its value.
LengthEnds(f, p) == {e \in DOMAIN f : e >= p /\ e < p + MaxPrefix /\ f[e] < Base}
LengthAt(f, p, e) ==
    LET value[i \in p..e] == (f[i] % Base) + (IF i = e THEN 0 ELSE Base * value[i + 1])
    IN value[p]

\* Mutant: a body that the file ends in is taken as it is.
ShortBody(f, p) ==
    {[first |-> e + 1, last |-> Min({e + LengthAt(f, p, e), Len(f)})] :
        e \in {e \in LengthEnds(f, p) :
                  /\ \A d \in LengthEnds(f, p) : e <= d
                  /\ LengthAt(f, p, e) \in HeaderSize..MaxRecord}}

\* The body of the record at p, if the reader takes it for one.
BodyAt(f, p) ==
    {[first |-> e + 1, last |-> e + LengthAt(f, p, e)] :
        e \in {e \in LengthEnds(f, p) :
                  /\ \A d \in LengthEnds(f, p) : e <= d
                  /\ LengthAt(f, p, e) \in HeaderSize..MaxRecord
                  /\ e + LengthAt(f, p, e) <= Len(f)}}

\* The bodies from the start of the file to the first that is not taken.
Records(f) ==
    LET from[p \in 1..(Len(f) + 1)] ==
            IF BodyAt(f, p) = {} THEN <<>>
            ELSE LET b == CHOOSE b \in BodyAt(f, p) : TRUE
                 IN <<SubSeq(f, b.first, b.last)>> \o from[b.last + 1]
    IN from[1]

-----------------------------------------------------------------------------
\* Fetch: the lines.

StreamOf(b) == b[1]
StampOf(b)  == b[2]
Payload(b)  == SubSeq(b, HeaderSize + 1, Len(b))

TextLine(s, stamp, data) == [stream |-> s, stamp |-> stamp, data |-> data]

Closed == [stamp |-> 0, data |-> <<>>, started |-> FALSE]

\* Mutant: a line keeps the stamp of the one before it.
StampKept(p, stamp) == IF p.data # <<>> THEN p ELSE [p EXCEPT !.started = TRUE]

Started(p, stamp) ==
    IF p.started THEN p ELSE [p EXCEPT !.stamp = stamp, !.started = TRUE]

\* A byte of a payload: it starts a line if none is open, and ends it or is
\* added to it.
TakeByte(acc, s, stamp, c) ==
    LET p == Started(acc.open[s], stamp)
    IN IF c = LineEnd
       THEN [open  |-> [acc.open EXCEPT ![s] = [p EXCEPT !.data = <<>>, !.started = FALSE]],
             lines |-> Append(acc.lines, TextLine(s, p.stamp, p.data))]
       ELSE [acc EXCEPT !.open[s] = [p EXCEPT !.data = Append(@, c)]]

TakeFrame(acc, b) ==
    FoldLeft(LAMBDA a, c : TakeByte(a, StreamOf(b), StampOf(b), c), acc, Payload(b))

\* The numbers of a finite set, in their order.
InOrder(S) ==
    [i \in 1..Cardinality(S) |->
        CHOOSE n \in S : Cardinality({m \in S : m < n}) = i - 1]

\* The lines that are open at the end are flushed by stream id.
Lines(frames) ==
    LET all == FoldLeft(TakeFrame, [open |-> [s \in Byte |-> Closed], lines |-> <<>>], frames)
        ids == InOrder({s \in Byte : all.open[s].started})
    IN all.lines \o
       [k \in DOMAIN ids |->
            TextLine(ids[k], all.open[ids[k]].stamp, all.open[ids[k]].data)]

Fetch(f) == Lines(Records(f))

-----------------------------------------------------------------------------
Init ==
    /\ bytes = <<>> /\ lock = {}
    /\ body = [w \in Writers |-> <<>>] /\ rest = [w \in Writers |-> <<>>]
    /\ stored = <<>> /\ tears = <<>>

\* Part of the record is in the file, and part is not.
Partial(w) == rest[w] # <<>> /\ Len(rest[w]) < Len(Record(body[w]))

Begun == Len(stored) + Len(tears) + Cardinality({w \in Writers : rest[w] # <<>>})

\* Mutant: a write does not wait for another one.
Unguarded(w) == body[w] = <<>>

Free(w) == lock = {}

\* Append takes the shard, past the caps (which are Storage's).
Locks(w, b) ==
    /\ Free(w) /\ Begun < MaxRecords
    /\ lock' = {w}
    /\ body' = [body EXCEPT ![w] = b] /\ rest' = [rest EXCEPT ![w] = Record(b)]
    /\ UNCHANGED <<bytes, stored, tears>>

\* The kernel takes the next n bytes; os.File.Write goes on with the others.
Writes(w, n) ==
    /\ n \in 1..Len(rest[w])
    /\ bytes' = bytes \o SubSeq(rest[w], 1, n)
    /\ rest' = [rest EXCEPT ![w] = SubSeq(@, n + 1, Len(@))]
    /\ stored' = IF n = Len(rest[w]) THEN Append(stored, body[w]) ELSE stored
    /\ UNCHANGED <<lock, body, tears>>

Unlocks(w) ==
    /\ lock' = lock \ {w} /\ body' = [body EXCEPT ![w] = <<>>]

Appended(w) ==
    /\ body[w] # <<>> /\ rest[w] = <<>>
    /\ Unlocks(w)
    /\ UNCHANGED <<bytes, rest, stored, tears>>

\* The bytes that are written stay.
Abandons(w) ==
    /\ Partial(w) => Len(tears) < MaxTears
    /\ rest' = [rest EXCEPT ![w] = <<>>]
    /\ tears' = IF Partial(w) THEN Append(tears, Len(stored)) ELSE tears
    /\ UNCHANGED <<bytes, stored>>

\* The write fails; the handler logs it and appends the next frame.
WriteFails(w) == rest[w] # <<>> /\ Abandons(w) /\ Unlocks(w)

\* The process ends, and another opens the file where it is.
Crash ==
    \E w \in Writers :
        /\ lock = {w} /\ Abandons(w)
        /\ lock' = {} /\ body' = [body EXCEPT ![w] = <<>>]

\* Nobody has to send another frame.
Quiet == lock = {} /\ UNCHANGED logVars

Next ==
    \/ \E w \in Writers :
        \/ \E b \in Bodies : Locks(w, b)
        \/ \E n \in 1..(MaxRecord + MaxPrefix) : Writes(w, n)
        \/ Appended(w) \/ WriteFails(w)
    \/ Crash \/ Quiet

Spec == Init /\ [][Next]_logVars

-----------------------------------------------------------------------------
\* A torn record is the last of the file: nothing is behind it.
TornLast == tears = <<Len(stored)>> /\ lock = {}

\* Fetch finds the records that were appended, in their order, at least as far
\* as none is torn; and if none is, or the last one only, it finds no others,
\* whatever is being written (storage.go:173-177, "skips a torn final record").
ReadsWhatWasStored ==
    LET sound == IF tears = <<>> THEN Len(stored) ELSE tears[1]
    IN /\ IsPrefix(SubSeq(stored, 1, sound), Records(bytes))
       /\ tears = <<>> \/ TornLast => Records(bytes) = stored

\* What one Fetch finds, every later one finds in the same place, torn records
\* or not: a cursor into the records stays good (storage.go:209-218).
FetchGrows == [][IsPrefix(Records(bytes), Records(bytes'))]_logVars

\* The lines of some frames, from the bytes of their payloads put one behind
\* another: a line is all of a stream from behind one line end to the next, or
\* to the last byte of the stream.
PayloadOf(i, b) ==
    [k \in DOMAIN Payload(b) |->
        [frame |-> i, stream |-> StreamOf(b), stamp |-> StampOf(b), byte |-> Payload(b)[k]]]

BytesOf(frames) == FlattenSeq([i \in DOMAIN frames |-> PayloadOf(i, frames[i])])

Of(all, s) == {k \in DOMAIN all : all[k].stream = s}
Ends(all)  == {k \in DOMAIN all : all[k].byte = LineEnd}
Lasts(all) == {k \in DOMAIN all \ Ends(all) : \A l \in Of(all, all[k].stream) : l <= k}

\* What the k-th byte's line has up to it.
Text(all, k) ==
    LET same == Of(all, all[k].stream)
    IN {l \in same : l <= k /\ Ends(all) \cap same \cap l..(k - 1) = {}}

LineTo(all, k) ==
    [stream |-> all[k].stream,
     stamp  |-> all[Min(Text(all, k))].stamp,
     data   |-> LET at == InOrder(Text(all, k) \ Ends(all))
                IN [i \in DOMAIN at |-> all[at[i]].byte],
     number |-> Cardinality({l \in Ends(all) \cap Of(all, all[k].stream) : l < k}) + 1,
     pieces |-> Cardinality({all[l].frame : l \in Text(all, k)}),
     whole  |-> k \in Ends(all)]

\* The last byte of each line: those that are ended, then those that are not.
LinesEnd(all) ==
    LET left  == {all[k].stream : k \in Lasts(all)}
        at(s) == CHOOSE k \in Lasts(all) : all[k].stream = s
    IN InOrder(Ends(all)) \o [i \in 1..Cardinality(left) |-> at(InOrder(left)[i])]

LinesOf(frames) ==
    LET all == BytesOf(frames)
        at  == LinesEnd(all)
    IN [i \in DOMAIN at |-> LineTo(all, at[i])]

Reader == INSTANCE LogReader WITH Outputs <- Byte, Marker <- 2 * Base, MaxEnds <- MaxRecord

Shape(b) ==
    [stream |-> StreamOf(b),
     ends   |-> Cardinality({k \in DOMAIN Payload(b) : Payload(b)[k] = LineEnd}),
     rest   |-> Payload(b) # <<>> /\ Last(Payload(b)) # LineEnd,
     event  |-> "text"]

\* The frames with a payload.
Sending(frames) ==
    FlattenSeq([i \in DOMAIN frames |->
                   IF Payload(frames[i]) = <<>> THEN <<>> ELSE <<frames[i]>>])

\* Fetch splits whatever records it finds into the lines of the streams' bytes,
\* each with the stamp of the frame it starts in (storage.go:173-176, 209-261).
\* LogReader, which has the line ends of a frame and not its bytes, reads the
\* same lines, in the same order and of as many frames each.  Frames without a
\* payload, which nobody sends, it leaves out.
LinesAreTheStreams ==
    LET frames == Sending(Records(bytes))
        lines  == LinesOf(frames)
    IN /\ Fetch(bytes) =
             [i \in DOMAIN lines |->
                 TextLine(lines[i].stream, lines[i].stamp, lines[i].data)]
       /\ Reader!Fetch([i \in DOMAIN frames |-> Shape(frames[i])]) =
             [i \in DOMAIN lines |->
                 Reader!Line(lines[i].stream, lines[i].number, lines[i].pieces,
                             lines[i].whole, "text")]
=============================================================================
