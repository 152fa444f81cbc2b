# log-streamer: models and proofs

`ls-client` runs a command, keeps its output on the terminal and streams a copy
to `ls-server`, which stores it and serves it to readers. This directory models
the parts of that path whose correctness depends on the order of events: the
processes of a job's steps with their markers, the sender with its queue and
reconnects, the handlers of the server, the store and its byte ledger, the index
of a group and the names under which legs and watchers meet in it, the pump that
cuts output into frames, and the follower that trails a log. TLC checks the
models on small instances, and TLAPS proves the central safety properties for
every value of the constants.

Paths below are relative to the repository. `client/` stands for
`cmd/ls-client/cmd/`.

## 1. Inventory

| Part | State it keeps | Operations | Talks to |
|---|---|---|---|
| Process of a step (`client/exec.go`, `send.go`) | the child, the step's markers, the pumps, the life of the process | start marker, start, pump, reap, end marker, `q.Close`, `wait`, exit | pushes into the queue, waits for pumps, command and sender |
| Pump (`client/stream.go`) | `pending`, `pendingAt`, `armed`, the timer, `retired` | read, cut at line ends, flush by timer, flush at the end | a reading goroutine over a channel; `sendFrame` |
| Frame queue (`client/queue.go`) | `frames`, `closed` | `Push`, `Close`, `Head` (blocks), `Pop` | command side and sender |
| Durable sender (`client/sender.go`) | `conn`, `stored`, `done`, `quit` | `run`, `connect` with its reconciliation, `finish`, `wait` | one websocket at a time |
| Network (external) | bytes in flight per connection | write, break, close | sender and handler |
| Stream handler (`internal/server/ws.go`) | `tok`, its writer | upgrade, join a group, hello, open, read and append, acknowledge | the store; one goroutine per connection |
| Store (`internal/storage/storage.go`) | files, `totalBytes`, shard mutexes | `OpenWriter`, `Append`, `Fetch`, `Delete`, `Sweep`, `New` | every handler and request |
| Group index (`internal/storage/group.go`) | `<group>.grp` files | `Join`, `Members`, `deleteGroup` | the same ledger and shards |
| Naming (`client/root.go`, `token.go`, `internal/token/derive.go`) | none: flags and environment | context, token, group, label, the dial's URL | a writer and a watcher compute the same names apart from each other |
| Delete request, sweeper (`internal/server/handlers.go`, `server.go`) | none | `handleDelete`, `runSweeper` | the store |
| Follower (`client/fetch.go`) | `cursor`, `waiting`, the renderer | poll, print, rewind, wait | `GET /api/logs/{token}?since=` |
| Steps (`client/steps.go`) | none | `groupSteps` | the lines of a fetch |
| Wire encoding, flags, actions | none | pure calls, scripts | - |

What is hard, and what makes each part correct:

* **Process of a step.** Two pumps, the command and the sender come to their ends
  in any order; the command may not start, may be killed, and may leave its
  output open; the main goroutine waits for the sender, which waits for the main
  goroutine's close. Correct means: the end marker is behind everything else,
  what the log says of the exit agrees with what the runner is told, the reader
  gets the steps apart again, and the process returns.
* **Sender, network, handler.** A write that succeeds says nothing about
  arrival; an old connection's handler still drains beside the new one's; the
  hello is a byte count from which the client infers whether its head arrived;
  a grace timer retires a sender that may be in any of its states; a job's
  steps share one log; a handler acknowledges whatever ended its reading, and the
  client takes the first message it can parse for the answer to its close. Correct
  means: order within a connection, no frame twice, an echoed close really proves
  that the tail is stored, a queue is drained unless the sender is retired, and the
  command gets its process back.
* **Store.** Check-then-add on the total, stat/remove/subtract under a shard,
  files removed under an open descriptor, failed writes, restarts, readers
  without a lock, records cut in two. Correct means: a reader finds what was
  stored, in the lines it was sent in, and never less than before; the ledger is
  off by named amounts only, locks are always released, a delete measures what
  it removes, the caps are overrun by a bound.
* **Group index and names.** A line can be torn, and its time is taken long before
  it lands; a stream registers again with every connection; the index expires.
  The legs are named by jobs that the watcher does not know. Correct means: a tear
  costs little, a listing only grows, every leg is found, and two legs are never
  taken for one.
* **Pump.** A timer that is armed, stopped and expires in different branches, a
  prompt that nothing follows, a line longer than a chunk. Correct means: nothing is
  lost, frames are bounded, a partial line always has a timer, timestamps are ordered.
* **Follower.** Answers end in unfinished lines, logs are deleted and come
  back. Correct means: the polls do not show in the output, no rewind without a
  restart, the end is reached.

Every hazard is listed with its line in `PROJECT.json`.

## 2. Modules

| Module | Models | Role |
|---|---|---|
| `Link` | connections and what is in flight (external) | environment |
| `StreamServer` | `handleStream`, `OpenWriter`, `Append`, `StoredBytes`, a server crash | extends `Link` |
| `DurableSender` | queue, `run`, `connect`, `finish`, `wait`, the process and the next step | extends `Link` |
| `JobStream` | the composition of the two, and the properties | the core |
| `Delivery` | what the system promises about frames: at most once | abstract specification, implemented by `JobStream` |
| `StepRun` | `streamExec` and `runSend`: markers, pumps, command, queue, sender seen from the queue | component |
| `StepLog` | the log of `StepRun` read back through `LogReader` | composition |
| `Storage` | the directory, the ledger and the shards under all goroutines | component |
| `Naming` | contexts, tokens, groups, labels, the dial, as functions of an environment | component |
| `GroupIndex` | `Join`, `Members`, `deleteGroup` and the listing, under the names of `Naming` | extends `Naming` |
| `Pump` | `pump` with its reader and its timer | component |
| `RecordLog` | the bytes of one file: `Append` with short and failed writes, `Fetch` with its records, lines and stamps | component, read through `LogReader` too |
| `LogReader` | `Fetch`, `renderer`, `groupSteps` as functions of a log | component |
| `Follow` | `followStream` against a changing log | extends `LogReader` |
| `JobStreamProofs`, `StepRunProofs`, `StorageProofs`, `RecordProofs`, `PumpProofs`, `GroupProofs`, `FollowProofs` | theorems about the modules they are named for; `JobStreamProofs` about `Delivery` too, `FollowProofs` about the functions of `LogReader`, `RecordProofs` about `RecordLog` | proofs |
| `DataLemmas` | induction, sums over sets, counting, sorting, lists of lists, folds, recursion, for the modules above | lemmas |
| `MC*` | instances for TLC | |

### How state and actions correspond to the code

**DurableSender.** Frames are numbered in the order they are produced, so the
queue is the interval `popped+1 .. pushed`. `pc` is where `run()` stands: `top`
(the head of its loop), `dial` and `dialling` (`connect` before and in `d.dial()`),
`hello` (`ReadJSON` in the dial closure), `write`, `finish`/`await` (`closeStream`),
`done`. `frame` is the local variable of `run()`; keeping it apart from the
head of the queue is what makes the reconciliation's effect visible. `wait` is
where the process stands in `wait()`. `NextStep` is the next process of the job,
which starts with an empty queue and `stored = 0` against the same log. `confirmed`
holds the connections on which `closeStream` returned without a warning. The
interval of the redial pause, the pinger and the token's announcement are left out;
what the pinger is for, and what happens when it does not help, is `ReadTimesOut`.

**StreamServer.** `srv[c]` is where connection c's handler stands. `log` holds the records
of all files in the order they landed, each with its connection; the file of a
record is `Stream(c)`. The cap counts bodies and starts from the file's size,
prefixes included, as `Append` and `OpenWriter` do. `AppendFails` leaves nothing
or a torn record, and the handler reads on. `reply[c]` is what the handler has to say at its
end: `closed` is the echo that gorilla writes when the close frame is read, `error` the
message for a frame past the cap, `ack` the acknowledgement after any other end of the
read loop (behind the echo or the error it makes no difference, the client has its
answer by then). `ReadEnds` is a read that fails because the connection is gone, so
that nobody reads the ack; `ReadTimesOut` is one that fails with the connection up, on the
idle deadline, with frames or the close still on their way. It counts as a fault: the
pinger keeps a quiet connection from it, unless the network or the disk stalls.

**Link.** `sent[c]` is what was written on c, `reach[c]` how much of it can still
arrive, `rcvd[c]` how much the reader has taken. `Break` cuts `reach`; a client that
merely closes its socket (`shut`) cuts nothing.

**StepRun.** `main` is where the main goroutine stands: `begin` (the process is
there, nothing queued), `start` (`cmd.Start`), `running` (the pumps' group and
`cmd.Wait`, or the pipe's pump), `close` (`q.Close`), `drain` (`sender.wait`),
`ended`. The queue holds frames here, not numbers, because their kind and their
step matter. The sender and the server are `JobStream`'s as the queue sees them:
a frame is written or skipped, a connection is replaced, loses a suffix or
delivers in order, the close is answered over a drained connection or the
sender is retired. `PumpSends` and `PumpEnds` are `Pump`'s.

**Storage.** A handler's program counter separates the steps of `Join`, `OpenWriter` and
`Append` between which other goroutines can run: total loaded, shard taken and
written, shard released, total raised. What only one goroutine sees is one step.
`attached` says whether the handler's descriptor is still that of the path.

**Naming, GroupIndex.** A name is a sequence of parts and joining is concatenation,
which keeps the property of `Context` that matters: an absent part leaves no
trace. HMAC is injective: a pair of its key and what it signs. An index is a sequence of lines, and `ragged`
says that it does not end with a line end, so that the next line is glued to
the last. `Stamp` takes the time, `Join` writes; what lies between them in the
code is `Storage`'s. `Order` is the listing's sort: first registration, then the place
in the index, which makes the order of `Members` strict. `linked` and `mtime` are the path and its time.

**Pump.** Bytes are counted; a read is the bytes up to its last newline and those
after it. `reads` is the clock.

**RecordLog.** One file, byte by byte, with writes that come in pieces and may stop
between two. A length is written in base 2 where the code has base 128, with the
same continuation rule, so that short records have lengths of several bytes and a
byte of a payload can be taken for the length of a record; the stream and the
timestamp are one byte each. A reader takes no lock and the file only grows, so
a fetch is a function of the file in each state. `stored` and `tears` are history:
the bodies whose records are whole, and where a record is torn. The caps and the
ledger are `Storage`'s.

**LogReader, Follow, StepLog.** A frame is its stream, its number of line ends and whether
bytes follow the last; a line is known by its stream, its number there and how
many frames it is made of. A poll is one step, because the server reads a
log at one moment and nobody else touches the cursor. `StepLog` reads the log of
`StepRun` at every moment, which is what a follower with `--step` may do.

## 3. Runs

| Run | Instance | Shows |
|---|---|---|
| `js_main` | 2 steps, 3 connections, 3 frames, 2 faults, one named stream | order within a connection, no repetition, no tail behind a confirmed close, drained queues, a complete first step, and that `JobStream` implements `Delivery` |
| `js_live` | 1 step, 2 connections, 3 frames, 2 faults, a 100 byte cap, a failing disk, failed writes that may have been sent whole; fairness | what a connection stored is a prefix but for failed writes, and all of it once the close was echoed; `wait()` returns; handlers return |
| `js_skip`, `js_hang`, `js_ack` | smaller | three disagreements with the comments (section 6) |
| `store` | 2 handlers, 1 delete request, the sweeper, a stream and a group in one shard, 1 failed write, caps on a stream and on the total | ledger, locks, delete's measure, overshoot of both caps |
| `record` | 2 writers, 4 records of 4 bodies, 2 torn writes, lengths in base 2 | what a fetch finds is what was stored, up to the first torn record; it is never taken back; its lines and stamps are those of the streams' bytes, and `LogReader` reads the same lines |
| `step` | 2 steps, run or piped, with or without markers, 1 frame of output each, a line or a piece of one, two pumps, 1 fault, two exit codes; fairness | the end marker is last, exits agree, sections hold their step, only unfinished lines are read outside it, the process returns |
| `group` | 2 legs under all pairs of 7 environments, 3 lines, 1 torn write, a clock of 3 values and a sweeper | the cost of a tear, that every leg is found and told apart, that listings only grow |
| `pump` | chunks of 3 bytes, 4 reads, sends may fail (pump's own branch, which the program's only send never takes); fairness | all properties of the pump |
| `follow` | 2 outputs and markers, 3 frames, 1 restart, `--step 1`; fairness | all properties of the follower |
| `follow_partial` | 3 frames, no filter | a line is missed (section 6) |

Why the bounds are enough. A reconciliation needs two connections and a lost or
doubled frame between two others, so three frames; a tail that overtakes needs
an old connection and a new one of a later step, so three connections and two
steps. Bodies of 130 and 10 bytes have prefixes of two bytes and of one, and
make a head that fits the reconciliation's sum while its successor does not.
The cap of 100 bytes refuses the long body and admits the short one behind it,
which is the frame that would make a gap. Two handlers are enough to pass a
check together, the delete and the sweeper to meet each other, and one shard to
make all of them collide; 145 bytes admit one record per writer, so that two
writers that are open together exceed their stream's cap, and 264 bytes hold
two records but not a third. In `step` one
frame is enough to be late for its own end marker or for the next step's
start, one fault is a kill, a break, a redial or a skip, and exit codes 0 and -1
are a success and the one that the shell sees as another number. In `group` three lines are two
registrations and a repetition, or a tear between two; the environments are a
matrix leg, its sibling, a job without a matrix, two legs that are given their
context, a watcher, and a job without a key. A chunk of three bytes can hold
bytes on both sides of a line end, and four reads fill a partial line to the
chunk size and beyond. Three frames leave lines of two streams unfinished at
once and complete one of them.

In `record` the bodies are a line's end, its start, an end and a start, and a line and
a half of another stream; four of them build a line of three frames with a frame
of the other stream in between, and two torn writes can be behind each other or
around a whole record. Every way to cut a record in two is among the pieces.

Faults are counted (`MaxFaults`, `MaxDiskErrors`, `MaxTears`), and so are connections,
frames, steps, reads, lines, time and restarts; every bound is a CONSTANT of the
module that uses it.

### Fairness

* Client: weak fairness of `run()`'s steps, of the grace timer and of the return
  of `wait()`. These are goroutines and timers of a live process. Dials that
  fail repeat for ever, as in the code, and only `quit` ends them.
* Server: weak fairness of every handler, for `HandlerEnds` and for `WaitEnds` in
  `js_live`. `js_hang` has no server fairness: a server that has upgraded a
  connection owes the client nothing.
* `StepRun`: the main goroutine, and the retirement that `wait()`'s timers bring
  about. The command, the pumps' input, the runner, the server and the network owe nothing:
  `ProcessReturns` starts where the command has ended and its output is closed.
  That a retired sender's goroutine ends is an assumption there and the subject
  of `WaitEnds` in `JobStream`, with `js_hang` as its exception.
* None for the command, the network, faults, crashes or kills.
* Pump: the pump's select, the timer's expiry and its tick. The command may stay
  silent for ever, which is the case `PromptGetsThrough` is about.
* Follower: its poll and its ticker. Nobody has to write.

Deadlock is checked in every run. Where the system rightly rests the
specifications have an explicit stuttering step (`JobOver`, `Quiet`, `Over`); the
group index never rests before its bounds do, as a leg may always dial again.

## 4. Proofs

All theorems hold for any values of the constants that satisfy the named
assumptions in the modules (`LinkAssumption`, `ServerAssumption`, `SenderAssumption`,
`StepAssumption`, `StorageAssumption`, `RecordAssumption`, `PrefixAssumption`,
`GroupAssumption`, `PumpAssumption`, `ReaderAssumption`, `FollowAssumption`), which say no
more than that bounds are naturals, sets of goroutines and files are finite, names are
distinct, environments hold what `Naming!Environment` says of them, a frame body has a header and is
no longer than a record may be (`handleStream` sees to both, by its check of the message's length and its read limit), and the length of such
a body fits the ten bytes of `MaxVarintLen64`.

**`DataLemmas`**. The library's induction theorems take a predicate, which these provers
cannot instantiate; over a *set* of naturals they can, because a set of naturals that is
not empty has a least element (`NatLeast`, `NatInduct`). From that, induction over the
subsets of a finite set in the order in which the folds of the community modules take their
elements (`PickInduct`); the recursive function behind a sum has a solution
(`SumExists`), and so what a sum is worth when its terms change, grow, or are all the same;
a finite set with a strict total order has a list in that order (`SortExists`) and, by a
number that tells its elements apart, a place for each (`RankExists`); and a fold over a
set or a list has a trace, a function from what was taken so far to what it has made of it
(`FoldExists`, `RunExists`), which turns an induction over data into one over a set of
naturals. A function that is defined by itself at a place of lower rank exists and is the only one
(`DescentExists`, `DescentUnique`): the digits of a length, its value, and the records of a file
are such functions.

**`JobStreamProofs`**, types: `TypeCorrect`. The type invariant is not inductive alone. `Inv1`
adds that `run()` has a frame in hand exactly where it uses one, that it has a
connection where it writes or closes, and that of each connection's frames no
more are received than can arrive, and no more can arrive than were written.

**`JobStreamProofs`**, order: `OrderWithin`, `NeverRepeats`, `ConfirmedHasNoTail`. None
of the three is inductive. The strengthening is built in three layers on `Inv1`:

* `Inv2`, what the connections carry: a connection not dialled yet is blank;
  the frames on each are increasing (`SentIncreasing`); those on the current one
  are behind the frame in hand and gone from the queue (`SentBehind`), which holds
  for older connections too unless a failed write may have been sent whole; so
  no frame is on two connections (`SentApart`). The stale `frame` of `run()` is why
  this compares with the frame in hand and not with the queue's head: after a
  reconciliation the one is below the other.
* `Inv3`: every record in the log was received on its connection. With `Inv2` this
  keeps `OrderWithinConnection` and `NoRepeat`, the latter only without
  `AmbiguousWrite`.
* `Inv4`, the closing: a close frame is the last thing on its connection and the
  sender is silent behind it; an answer is the end of the handler, and an echoed close
  is one of a drained connection; a process that ended has no connection; no connection
  belongs to a step to come. This gives `ConfirmedBeforeNext`.

**`JobStreamProofs`**, delivery: `QueueDrains` and `JobDelivers`. For the first, `DrainInv`:
the queue is open while the command runs, and `run()` comes to its end, before it is
retired, only with a closed and empty queue. The second is the refinement of
`Delivery` without `AmbiguousWrite` (with it the statement is false, as the code can
then store a frame twice). Under the mapping a frame is *to do* while it is in the
queue or in `run()`'s hand, and *in transit* while a live handler can still receive it.
A write is `Sends`, because `Inv2` has the frame on no other connection; a frame that
a handler receives is `Stores` if it is appended and `Loses` if it is refused, and
leaves transit for good, because its connection carries it once; a break, a crash,
a handler's return, a skip and the end of a process are `Loses`.

**`JobStreamProofs`**, `Delivery` by itself: `DeliveredAtMostOnce`. `OnePlace`: a frame that is produced is to
do, in transit or stored, in at most one of them, and stored at most once.
Together with `JobDelivers` this gives `NoRepeat` a second time, from the promise
instead of from the connections.

**`JobStreamProofs`**, completeness: `FirstStepIsComplete`, `PrefixIsStored`, `ClosedIsStored`. `CalmInv` describes a first step in
which nothing has failed: one connection at most, whose reconciliation finds an
empty file and pops nothing; so the frame in hand is the head of the queue, what
was popped is what was sent (1, 2, ..., `popped`), what was received is what is
stored, and the answer is the echo of a close sent over a closed, empty queue. The three facts meet in the
property. Its hypotheses are needed: a later step loses a frame without any fault
(`js_skip`), and a fault loses what the kernel had accepted.
`PrefixIsStored`: what a stream's log holds of each connection is a prefix of what was
written to it, but for frames whose write to the disk failed, which over all connections are
no more than the faults, and none where the disk works. `Lost` are the
frames that were received and are not stored, without the last one where the answer is an
error, which is the one it refused; `LossInv` says that they are no more than the faults,
where the disk can fail, and none where it cannot: of all steps only `AppendFails` adds one,
and it is a fault. A gap in front of a stored frame is such a loss (`GapsAreLosses`), because by
`Inv2` and `Inv3` what is stored behind it was received after it. The gaps by themselves are not
inductive: a frame whose write failed is none until something behind it is stored.
`ClosedIsStored` is `LossInv` at the other end: where the close was echoed the connection is
drained (`Inv4`) and the answer is no error, so that whatever was written and is not
stored is in `Lost`. It holds with a cap too, since a refusal leaves an error and no echo; of
an ack it is false (`js_ack`), and of an error as well.

**`StepRunProofs`**: `StepTypes`, `EndMarkerIsLast`, `ExitsAgree`, `SectionsAreTheSteps`. `TypeInv` adds to the types that a
marker's exit code is known by the time it is sent and that only a running command
has pumps. `EndInv` follows the end marker: in the queue it is the last frame, and
the process is closing (`QueueInv`); on the only connection of its step it is the last
frame too, with the queue behind it empty and no pump left (`WireInv`); a step to
come has no connection and no marker in the log (`FreshInv`). So when it lands,
nothing is left to follow it. `TellInv` follows the exit code: a step whose process
still runs has no status, and a frame with an exit other than zero, in the queue,
on a connection or in the log, is of a step that `Fails`: its process has ended with a
nonzero status, or is closing with a nonzero code and can end no other way
(`FailsStays`; `NewFrames` is that a new frame is such a frame).

The sections are in `StepLog`, and their proof has two halves. `HeardInv` follows the start marker of
a step that keeps its connection: it is ahead of everything else of its step, so while it is in the
queue the connection and the log hold nothing of the step, and while it is on the connection the log
does not (`AheadInv`); a step to come has nothing in the log; and once the close of a step is
answered nothing of it is queued or on its way (`Quiet`), so all that the log has of later steps is
behind it (`OrderInv`). Therefore a frame of a settled step follows the start of another settled
one only with its own start in between (`SameStep`). The other half is the reader's: with whole lines
each frame is one line (`LinesAre`) from which it can be told (`OriginIs`), and after
each line the sections are as many as the start markers so far, and each holds lines up to whose
frames there are as many markers as sections up to it (`Split`, by the trace of the fold).
`SectionsHoldTheirStep` says this of the log alone and is not inductive without the queue and the
connections.

**`StorageProofs`**: `ShardsAreReleased`, `DeletesMeasureRight`, `StorageTypes`,
`LedgerIsExact`, `CapsOverrunBounded`. `IInv` adds to the two
properties that a handler in `join` has a group, that unlinked files have no
size, and the types the steps need. Mutual exclusion is what carries
`FoundIsCurrent`: a record or an index line needs the shard that the delete holds;
creating the path anew does not, and leaves the size at zero.
The ledger is `BookInv`: the total plus what is in flight, and so on, are sums over
goroutines of what each has in the books (`InFlight`, `Removing`), and a step moves one
goroutine's term by as much as it moves the files or the total. For the total cap,
`TotalBound` also counts what handlers past the check are about to write (`ToCome`): a
check that passes sees a total below the cap, and every other handler has one frame in
hand at most. For the stream cap, `CapInv` gives each writer a `Room`, what it may
still write before its own count reaches the cap with a prefix for every body;
`StreamBound` says that a log with all its writers' rooms stays below `WriterMost` for
each handler. Neither cap's bound is inductive without these sums over steps not yet taken.

**`RecordProofs`**: `FetchFindsTheStored`, `FetchOnlyGrows`, `FetchSplitsRight`. First the coding: the bytes that
`Uvarint` makes of a length are all `Base` or more but the last (`LengthLike`), and whoever adds
them up as `LengthAt` does is back at the length (`UvarintReads`, `LengthRead`). Then a record in a
file: a whole one is the body there and the next place is behind it (`RecordRead`), of a piece of one
at the end of the file nothing is taken (`TornRead`), and a body that is taken is taken in every file
that goes on from there (`BodyKeeps`). With `Finds`, the records from each place on, the first gives
that a file which begins with the records of some bodies begins, for a reader, with these
bodies (`LaidRead`), the last that records only grow (`RecordsGrow`), by induction on what is
left of the file. `LogInv` is what the steps keep: the holder of the shard
has an end of its record left to write, the file begins with the records stored before the
first tear (`Grounded`), behind them is what is written of the next one if nothing is torn (`Whole`),
and a piece of a record if the last one is (`Torn`). `ReadsWhatWasStored` is not inductive without
the last two: what a reader makes of a piece does not say that the piece is one.

`FetchSplitsRight` compares three readings of the same records: what the bytes of each stream say
in their order, `Fetch`, and `LogReader`, which knows of a frame only how many lines it ends. No
step is needed for it but that the file stays a sequence of bytes; the work is in the readers.
The bytes of all frames are laid out one behind another (`Spread`), and `HasRead` says of `Fetch`
after the first n of them which lines it has made and which it has begun: a byte adds to both
(`ReadsByte`), a frame is its bytes (`ReadsFrame`), the lines end where `LinesEnd` says
(`LinesAre`), and frames without a payload change nothing (`SendingIs`). `LogReader` is followed
frame by frame over the same layout (`Lay`): the lines ended and begun up to a frame are counted by
the bytes (`EndedIs`, `OpenedIs`), so that a line has its number and its frames in both (`LineAt`),
and the whole lines and the unfinished ones come in the same order (`WholeLinesAre`,
`UnfinishedIs`, `ReaderFetches`). The counts and the sorts are those of `DataLemmas`: a set is counted
by the sum over its parts, and the n-th of a set of numbers is told from what lies below it.

**`GroupProofs`**: `TornLinesCostLittle`, `ListingOnlyGrows`, `WatchersFindTheirLegs`,
`LegsAreToldApart`. Of the names: joining parts can be undone when the lengths are
known, HMAC is injective, so two legs with the same token or label agree on what
`LegsApart` asks, and a watcher's group is the group its legs register in. Of
the index, `IndexInv`: every readable line is the registration of a leg (`LinesOfLegs`), and a
registration that cannot be read, once nothing written later can glue to the line, is
matched by a garbage line of its own (`LossSettled`; the last line is not settled while
its line end is missing, which is why `LostPerTear` itself is not inductive). A listing
grows because `Order` sorts by first registration: a new line of a
known leg is behind its first one and changes nothing, one of a new leg comes in where its
time says, and the order of the others stays.

**`PumpProofs`**: `PumpTypes`, `TimerAlwaysMatches`, `PumpLosesNothing`, `FramesBounded`,
`StampsAlwaysOrdered`. One invariant: what was read is teed or being handed over,
and what was teed is shipped or pending until sending fails (`Conserved`); what
waits is short of a chunk until the pump returns (`Short`); and no frame is
stamped later than the pending bytes, nor these later than their first read
(`Stamped`).

**`FollowProofs`**: `FollowTypes`, `FollowPrintsAFetch`, `OnlyRestartsRewind`,
`WholeLinesStayPut`, `StepReadersAgree`. First the functions: `FlattenSeq`, `Render`,
`GroupSteps` and the texts of a list of lines are folds, and a trace of each shows what one
more line adds (`FlattenAppend`, `RenderAppend`, `GroupAppend`, `TextAppend`) and that two goes
print what one does (`RenderConcat`). With these the two readers of the markers are
compared line by line: `SameStep` relates the renderer for step k to the sections, its
index to their number, `visible` to the k-th being the last, and what it has shown
to that section's lines; `AllThere` counts what has gone where. Then the logs: one more
frame appends the lines it ends to the whole ones and changes none before them
(`WholeLinesAppend`, `WholeLinesBegin`), and completes at most the one unfinished line of its own stream,
so that a fetch never returns fewer lines (`CountGrows`). `FollowInv` adds to the types that
a cursor of the log there is lies within its lines, that at 0 the renderer is new, and
that with no line unfinished all of the renderer, and not just its output, is that of one
fetch up to the cursor. `PrintedAsFetched` is not inductive without the renderer's step: the next poll
starts from it.

Model-checked only:

* liveness (`WaitEnds`, `HandlerEnds`, `ProcessReturns`, `PromptGetsThrough`,
  `CatchesUp`), which is beyond the prover;
* `OnlyRestsAstray`: `SectionsHoldTheirStep` is proved for logs of whole lines, where every
  frame is one line, and the steps of a log with pieces are compared by TLC alone.

Proved only: `WholeLinesStay`, of which the runs use the consequences (`PrintedAsFetched`,
`RewindsOnRestartOnly`).

## 5. Not modelled

The byte encodings of frames, markers, hellos and tokens; URL rewriting, the
redirect to TLS and the parsing of flags; the check of a token's form; layout and
escaping of printed lines, and the printed columns of listings; the pinger; the label
that a script's first line gives its step. Most of these are single
pure calls with unit tests, where an interleaving or a fault has nothing to
reach. `PROJECT.json` names each part with its reason.

## 6. Disagreements found

With a run:

1. `js_skip`. `run()` keeps the frame it took before `connect()`, which may pop that
   very head; the stale frame is written, and the next one is popped unwritten.
   A second step starts with `stored = 0` against a log that already has bytes,
   so it takes no fault at all. (`client/sender.go:71,134`, against `:15-17`)
2. `js_hang`. The hello is read without a deadline, and `wait()` waits for the
   goroutine that reads it. (`client/exec.go:33`, against `sender.go:157-158`)
3. `js_ack`. A read loop that ends on the idle deadline acknowledges like any other, on
   a connection that is up. The client, which had written a frame and its close by then
   or writes them later, takes the ack for the answer; the frame was never read.
   (`internal/server/ws.go:85-104,125`, `client/exec.go:136`, against `:119-121`)
4. `follow_partial`. The follower counts unfinished lines as read; their rest, or
   the line that takes their place, is never printed. (`client/fetch.go:130`, against
   `:97-98`)

Visible in the models, without a run of their own:

* An error message for a frame past the cap parses as an ack of zero bytes: a refused stream
  ends without a warning (`Refuse`, `Confirmed`; `client/exec.go:136`,
  `internal/server/ws.go:114`, against `exec.go:119-121`). With a cap `ConfirmedDrained` is
  false without any fault.
* A connection without a token is given a new one, and the sender redials without the
  one it was told: behind a reconnect the log goes on in a stream whose name nobody
  knows (`Stream`; `internal/server/ws.go:42`, `client/exec.go:26,45`, against `ws.go:69`).
* The last line of a step, if it is unfinished, is read behind the step's end marker and
  so outside the step, or as the head of the next step's first line (`Unfinished`, `Part`,
  `Opened`; `internal/storage/storage.go:243-261`, against `README.md:144` and
  `client/steps.go:70-72`). `OnlyRestsAstray` says that no other line is.
* A frame is popped when the kernel has it, not when the server has, and one that a
  broken connection takes with it is not sent again (`WriteOk`; `Loses` in `Delivery`;
  `client/sender.go:88`, against `:103-105` and `queue.go:51`).
* A torn record is not always the last: the handler appends the next frame behind it,
  and so does a later connection. Fetch fills the torn record up from the next one,
  reports the result as output, and reads on from the middle of that record, where a
  payload byte is taken for a length (`WriteFails`, `BodyAt`; `internal/storage/storage.go:215`,
  `internal/server/ws.go:119`, against `storage.go:177` and `:212`, "corrupt record: stop").
  `ReadsWhatWasStored` therefore ends at the first torn record.
* Only the last connection of a step is confirmed; an earlier one can still drain
  after the next step's output (`JobStream`; `client/exec.go:115-121` speaks of one
  connection per step). `ConfirmedBeforeNext`, `EndIsLast` and
  `SectionsHoldTheirStep` leave this case out by name.
* The sweeper decides by a time it read before it had the shard, and deletes a log
  that was written, or created anew, in between (`SweepTakes`, `DeleteRemoves`;
  `internal/storage/storage.go:324-330`, against `:308`).
* Two handlers can pass the check of the total cap together, and two writers of one
  stream do not see each other's bytes; `OvershootBounded` states by how much.
* A registration written half way destroys the next one, which was acknowledged
  (`JoinTears`, `AppendLine`; `internal/storage/group.go:65`): the comment at `:93` and
  the test at `group_test.go:85` speak of the torn line alone, and `ws.go:53-54` rules
  out that a stream is silently left out of a listing.
* An index expires by its own last write while the logs it points at are being
  written (`Sweeps`; `group.go:125-145`, against `group_test.go:104`, "it expires with
  the logs it points at").
* `Context` skips empty parts so that they do not shift the others, and that is what
  makes them shift: a job and a leg without a job that has its name are the same
  stream (`Naming!Context`; `derive.go:44-46`). `LegsApart` asks for a named job.
* Without a token, a `--group` given by hand is dropped silently (`streamURL`;
  `client/root.go:48-52`).
* `send` marks every end with exit 0, also when the pump failed and the process
  returns an error (`MarksEnd`; `client/send.go:54-58`). `ExitAgrees` therefore reads
  from the log to the status and not back.
* The rest of a read that completes a partial line keeps the partial line's
  timestamp (`Pump`, `Receives`).

## 7. Plan

Done, in the order of importance: the job's stream with the proof that it implements
`Delivery`, the store with the overshoot of both caps, the pump, the follower, the
processes of a job with their markers and sections, names and the group index, the
bytes of a log and what a reader finds in them.
Proved: the safety properties of all of these. Left, in this order:

1. `Storage`: liveness of requests that wait for a shard.
2. A composition of `Pump` with the queue and its sender, at the level of bytes.
