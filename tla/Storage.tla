------------------------------ MODULE Storage ------------------------------
(***************************************************************************)
(* The data directory and its byte ledger, as the server's goroutines      *)
(* share them (internal/storage): the handlers that open and append to     *)
(* logs and index themselves under groups, the delete requests, and the    *)
(* sweeper.                                                                *)
(*                                                                         *)
(* A handler keeps its file descriptor when the path is removed: it is     *)
(* then attached to a file that no path names.  What such a file holds is  *)
(* read by nobody, so only the linked files have a size here.              *)
(***************************************************************************)
EXTENDS Integers, FiniteSets, FiniteSetsExt, Functions

CONSTANTS
    Tokens,         \* the streams: <token>.bin
    Groups,         \* the group indexes: <group>.grp
    Handlers,       \* the goroutines of handleStream
    Deleters,       \* the goroutines of handleDelete
    Sweeper,        \* the goroutine of runSweeper
    ShardOf,        \* the shard of a token or group (fnv32a % numShards)
    BodySizes,      \* the frame bodies, in bytes
    LineLen,        \* an index line, in bytes
    MaxStreamBytes, \* 0 is unlimited
    MaxTotalBytes,  \* 0 is unlimited
    MaxDiskErrors   \* bound on the writes that fail

Files    == Tokens \cup Groups
Cleaners == Deleters \cup {Sweeper}
Shards   == {ShardOf[f] : f \in Files}
NoGroup  == "no group"
Free     == "free"

ASSUME StorageAssumption ==
    /\ Tokens # {} /\ ShardOf \in [Files -> Nat]
    /\ Handlers # {} /\ BodySizes \subseteq Nat \ {0} /\ BodySizes # {}
    /\ \A S \in {Tokens, Groups, Handlers, Deleters, BodySizes} : IsFiniteSet(S)
    /\ {LineLen, MaxStreamBytes, MaxTotalBytes, MaxDiskErrors} \subseteq Nat
    /\ Tokens \cap Groups = {} /\ Handlers \cap Cleaners = {}
    /\ Sweeper \notin Deleters /\ NoGroup \notin Groups
    /\ Free \notin Handlers \cup Cleaners

VARIABLES
    linked,      \* the files in the directory
    size,        \* their sizes
    expired,     \* the linked files whose modification time is past the TTL
    totalBytes,  \* Store.totalBytes
    lock,        \* who holds a shard
    hpc,         \* where a handler is
    tok,         \* its stream
    group,       \* the group it joins, or NoGroup
    attached,    \* its descriptor is that of the linked file
    streamBytes, \* Writer.streamBytes
    body,        \* the length of the frame it is appending
    dpc,         \* where a cleaner is
    target,      \* the file it deletes
    found,       \* what its Stat returned: a size, or -1 for an error
    todo,        \* the directory entries Sweep has left
    \* History: the bytes of records accounted to files that no path names,
    \* and those of failed writes, that nobody accounts.
    orphaned,
    torn,
    diskErrors

dirVars     == <<linked, size, expired>>
handlerVars == <<hpc, tok, group, attached, streamBytes, body>>
cleanerVars == <<dpc, target, found, todo>>
history     == <<orphaned, torn, diskErrors>>
storageVars == <<dirVars, totalBytes, lock, handlerVars, cleanerVars, history>>

\* The uvarint before a record.
HeaderLen(n) == IF n < 128 THEN 1 ELSE IF n < 16384 THEN 2 ELSE 3
DiskLen(n)   == HeaderLen(n) + n

\* What os.ReadDir and Info add up: an unlinked file has no size.
DirBytes == SumFunction(size)

\* Mutant: the check leaves out the record it is for.
AlreadyFull(n) == MaxTotalBytes > 0 /\ totalBytes >= MaxTotalBytes

TotalFull(n)     == MaxTotalBytes > 0 /\ totalBytes + n > MaxTotalBytes
StreamFull(h, n) == MaxStreamBytes > 0 /\ streamBytes[h] + n > MaxStreamBytes

TypeOK ==
    /\ linked \subseteq Files /\ expired \subseteq linked
    /\ size \in [Files -> Nat]
    /\ totalBytes \in Int
    /\ lock \in [Shards -> Handlers \cup Cleaners \cup {Free}]
    /\ hpc \in [Handlers -> {"idle", "join", "joined", "open", "stat",
                             "ready", "checked", "written"}]
    /\ tok \in [Handlers -> Tokens]
    /\ group \in [Handlers -> Groups \cup {NoGroup}]
    /\ attached \in [Handlers -> BOOLEAN]
    /\ streamBytes \in [Handlers -> Nat]
    /\ body \in [Handlers -> BodySizes \cup {0}]
    /\ dpc \in [Cleaners -> {"idle", "lock", "found", "removed"}]
    /\ target \in [Cleaners -> Files]
    /\ found \in [Cleaners -> Nat \cup {-1}]
    /\ todo \subseteq Files
    /\ orphaned \in Nat /\ torn \in Nat /\ diskErrors \in 0..MaxDiskErrors

\* New over an empty directory, no request in flight.
Init ==
    /\ linked = {} /\ expired = {} /\ size = [f \in Files |-> 0]
    /\ totalBytes = 0
    /\ lock = [s \in Shards |-> Free]
    /\ hpc = [h \in Handlers |-> "idle"]
    /\ tok = [h \in Handlers |-> CHOOSE t \in Tokens : TRUE]
    /\ group = [h \in Handlers |-> NoGroup]
    /\ attached = [h \in Handlers |-> FALSE]
    /\ streamBytes = [h \in Handlers |-> 0]
    /\ body = [h \in Handlers |-> 0]
    /\ dpc = [d \in Cleaners |-> "idle"]
    /\ target = [d \in Cleaners |-> CHOOSE t \in Tokens : TRUE]
    /\ found = [d \in Cleaners |-> -1]
    /\ todo = {}
    /\ orphaned = 0 /\ torn = 0 /\ diskErrors = 0

-----------------------------------------------------------------------------
\* The file system and the locks.

HGoto(h, pc) == hpc' = [hpc EXCEPT ![h] = pc]
DGoto(d, pc) == dpc' = [dpc EXCEPT ![d] = pc]

IsFree(f)        == lock[ShardOf[f]] = Free
Locked(f, owner) == lock' = [lock EXCEPT ![ShardOf[f]] = owner]
Unlocked(f)      == Locked(f, Free)

\* n bytes at the end of a linked file, which makes it recent.
Grown(f, n) ==
    /\ linked' = linked \cup {f}
    /\ size' = [size EXCEPT ![f] = @ + n]
    /\ expired' = expired \ {f}

\* A handler is done and closes what it holds.
Returns(h) ==
    /\ HGoto(h, "idle")
    /\ group' = [group EXCEPT ![h] = NoGroup]
    /\ attached' = [attached EXCEPT ![h] = FALSE]
    /\ streamBytes' = [streamBytes EXCEPT ![h] = 0]
    /\ body' = [body EXCEPT ![h] = 0]
    /\ UNCHANGED tok

-----------------------------------------------------------------------------
\* handleStream.  The total is loaded before the shard is locked, in Join as
\* in Append, and a handler refused there has changed nothing.

\* A connection for stream t.  If it names a group the first thing it does is
\* to compare the total with the cap.
Connects(h, t, g) ==
    /\ hpc[h] = "idle"
    /\ g # NoGroup => ~TotalFull(LineLen)
    /\ HGoto(h, IF g = NoGroup THEN "open" ELSE "join")
    /\ tok' = [tok EXCEPT ![h] = t]
    /\ group' = [group EXCEPT ![h] = g]
    /\ UNCHANGED <<dirVars, totalBytes, lock, attached, streamBytes, body,
                   cleanerVars, history>>

\* Join writes its line and keeps the shard.
JoinWrites(h) ==
    /\ hpc[h] = "join"
    /\ IsFree(group[h])
    /\ Locked(group[h], h)
    /\ Grown(group[h], LineLen)
    /\ HGoto(h, "joined")
    /\ UNCHANGED <<totalBytes, tok, group, attached, streamBytes, body,
                   cleanerVars, history>>

\* The line fails half way: the connection is closed.
JoinFails(h) ==
    /\ hpc[h] = "join"
    /\ IsFree(group[h])
    /\ diskErrors < MaxDiskErrors
    /\ diskErrors' = diskErrors + 1
    /\ \E n \in {0, LineLen - 1} :
          IF n > 0 THEN /\ Grown(group[h], n)
                        /\ torn' = torn + n
                   ELSE /\ linked' = linked \cup {group[h]}
                        /\ UNCHANGED <<size, expired, torn>>
    /\ Returns(h)
    /\ UNCHANGED <<totalBytes, lock, cleanerVars, orphaned>>

JoinAccounts(h) ==
    /\ hpc[h] = "joined"
    /\ totalBytes' = totalBytes + LineLen
    /\ Unlocked(group[h])
    /\ HGoto(h, "open")
    /\ UNCHANGED <<dirVars, tok, group, attached, streamBytes, body,
                   cleanerVars, history>>

\* OpenWriter creates the file if the path is free, without the shard.
OpenFile(h) ==
    /\ hpc[h] = "open"
    /\ linked' = linked \cup {tok[h]}
    /\ attached' = [attached EXCEPT ![h] = TRUE]
    /\ HGoto(h, "stat")
    /\ UNCHANGED <<size, expired, totalBytes, lock, tok, group, streamBytes,
                   body, cleanerVars, history>>

\* Mutant: a missing file counts as -1 bytes.
StatSizeOrError(h) ==
    /\ hpc[h] = "stat"
    /\ streamBytes' = [streamBytes EXCEPT ![h] = IF tok[h] \in linked THEN size[tok[h]] ELSE -1]
    /\ HGoto(h, "ready")
    /\ UNCHANGED <<dirVars, totalBytes, lock, tok, group, attached, body,
                   cleanerVars, history>>

\* Mutant: a reconnect counts from zero.
StatNothing(h) ==
    /\ hpc[h] = "stat"
    /\ HGoto(h, "ready")
    /\ UNCHANGED <<dirVars, totalBytes, lock, tok, group, attached, streamBytes,
                   body, cleanerVars, history>>

\* The writer starts from what the path holds, by now.
StatSize(h) ==
    /\ hpc[h] = "stat"
    /\ streamBytes' = [streamBytes EXCEPT ![h] = size[tok[h]]]
    /\ HGoto(h, "ready")
    /\ UNCHANGED <<dirVars, totalBytes, lock, tok, group, attached, body,
                   cleanerVars, history>>

\* Append's checks pass for a frame of n bytes.
AppendChecks(h, n) ==
    /\ hpc[h] = "ready"
    /\ ~StreamFull(h, n)
    /\ ~TotalFull(DiskLen(n))
    /\ body' = [body EXCEPT ![h] = n]
    /\ HGoto(h, "checked")
    /\ UNCHANGED <<dirVars, totalBytes, lock, tok, group, attached,
                   streamBytes, cleanerVars, history>>

\* Mutant: the write does not take the shard.
WritesUnlocked(h) ==
    /\ hpc[h] = "checked"
    /\ IF attached[h] THEN /\ Grown(tok[h], DiskLen(body[h]))
                           /\ UNCHANGED orphaned
                      ELSE /\ orphaned' = orphaned + DiskLen(body[h])
                           /\ UNCHANGED dirVars
    /\ HGoto(h, "written")
    /\ UNCHANGED <<totalBytes, lock, tok, group, attached, streamBytes, body,
                   cleanerVars, torn, diskErrors>>

\* The write, under the shard's lock from first to last.
AppendWrites(h) ==
    /\ hpc[h] = "checked"
    /\ IsFree(tok[h])
    /\ IF attached[h] THEN /\ Grown(tok[h], DiskLen(body[h]))
                           /\ UNCHANGED orphaned
                      ELSE /\ orphaned' = orphaned + DiskLen(body[h])
                           /\ UNCHANGED dirVars
    /\ HGoto(h, "written")
    /\ UNCHANGED <<totalBytes, lock, tok, group, attached, streamBytes, body,
                   cleanerVars, torn, diskErrors>>

\* The write fails, possibly half way.  handleStream logs it and reads on.
AppendFails(h) ==
    /\ hpc[h] = "checked"
    /\ IsFree(tok[h])
    /\ diskErrors < MaxDiskErrors
    /\ diskErrors' = diskErrors + 1
    /\ \E n \in {0, DiskLen(body[h]) - 1} :
          IF attached[h] /\ n > 0 THEN Grown(tok[h], n) /\ torn' = torn + n
                                  ELSE UNCHANGED <<dirVars, torn>>
    /\ body' = [body EXCEPT ![h] = 0]
    /\ HGoto(h, "ready")
    /\ UNCHANGED <<totalBytes, lock, tok, group, attached, streamBytes,
                   cleanerVars, orphaned>>

\* Mutant: the total counts bodies, as streamBytes does.
AccountsBody(h) ==
    /\ hpc[h] = "written"
    /\ streamBytes' = [streamBytes EXCEPT ![h] = @ + body[h]]
    /\ totalBytes' = totalBytes + body[h]
    /\ body' = [body EXCEPT ![h] = 0]
    /\ HGoto(h, "ready")
    /\ UNCHANGED <<dirVars, lock, tok, group, attached, cleanerVars, history>>

\* Accounted once the shard is free again.
AppendAccounts(h) ==
    /\ hpc[h] = "written"
    /\ streamBytes' = [streamBytes EXCEPT ![h] = @ + body[h]]
    /\ totalBytes' = totalBytes + DiskLen(body[h])
    /\ body' = [body EXCEPT ![h] = 0]
    /\ HGoto(h, "ready")
    /\ UNCHANGED <<dirVars, lock, tok, group, attached, cleanerVars, history>>

\* The hello or OpenWriter fails; later a close, a read error, or a frame past
\* a cap.
StreamEnds(h) ==
    /\ hpc[h] \in {"open", "ready"}
    /\ Returns(h)
    /\ UNCHANGED <<dirVars, totalBytes, lock, cleanerVars, history>>

-----------------------------------------------------------------------------
\* Delete, deleteGroup and Sweep.

DeleteRequest(d, t) ==
    /\ d \in Deleters
    /\ dpc[d] = "idle"
    /\ target' = [target EXCEPT ![d] = t]
    /\ DGoto(d, "lock")
    /\ UNCHANGED <<dirVars, totalBytes, lock, handlerVars, found, todo, history>>

\* The shard is taken, and the file's size with it.
DeleteStats(d) ==
    /\ dpc[d] = "lock"
    /\ IsFree(target[d])
    /\ Locked(target[d], d)
    /\ found' = [found EXCEPT ![d] = IF target[d] \in linked
                                     THEN size[target[d]] ELSE -1]
    /\ DGoto(d, "found")
    /\ UNCHANGED <<dirVars, totalBytes, handlerVars, target, todo, history>>

\* The path goes; a handler that has the file open keeps it.
DeleteRemoves(d) ==
    /\ dpc[d] = "found"
    /\ target[d] \in linked
    /\ linked' = linked \ {target[d]}
    /\ expired' = expired \ {target[d]}
    /\ size' = [size EXCEPT ![target[d]] = 0]
    /\ attached' = [h \in Handlers |-> attached[h] /\ tok[h] # target[d]]
    /\ DGoto(d, "removed")
    /\ UNCHANGED <<totalBytes, lock, hpc, tok, group, streamBytes, body,
                   target, found, todo, history>>

\* Mutant: the error path keeps the shard.
FailsLocked(d) ==
    /\ dpc[d] = "found"
    /\ target[d] \notin linked
    /\ found' = [found EXCEPT ![d] = -1]
    /\ DGoto(d, "idle")
    /\ UNCHANGED <<dirVars, totalBytes, lock, handlerVars, target, todo, history>>

\* There is no such file: an error, and the ledger stays.
DeleteFails(d) ==
    /\ dpc[d] = "found"
    /\ target[d] \notin linked
    /\ found' = [found EXCEPT ![d] = -1]
    /\ Unlocked(target[d])
    /\ DGoto(d, "idle")
    /\ UNCHANGED <<dirVars, totalBytes, handlerVars, target, todo, history>>

DeleteSubtracts(d) ==
    /\ dpc[d] = "removed"
    /\ totalBytes' = IF found[d] >= 0 THEN totalBytes - found[d] ELSE totalBytes
    /\ found' = [found EXCEPT ![d] = -1]
    /\ Unlocked(target[d])
    /\ DGoto(d, "idle")
    /\ UNCHANGED <<dirVars, handlerVars, target, todo, history>>

SweepBegins ==
    /\ dpc[Sweeper] = "idle"
    /\ todo = {}
    /\ todo' = linked
    /\ UNCHANGED <<dirVars, totalBytes, lock, handlerVars, dpc, target, found,
                   history>>

\* An entry that is gone or recent is left alone.
SweepSkips(f) ==
    /\ dpc[Sweeper] = "idle"
    /\ f \in todo \ expired
    /\ todo' = todo \ {f}
    /\ UNCHANGED <<dirVars, totalBytes, lock, handlerVars, dpc, target, found,
                   history>>

\* An old one is to be deleted.
SweepTakes(f) ==
    /\ dpc[Sweeper] = "idle"
    /\ f \in todo \cap expired
    /\ todo' = todo \ {f}
    /\ target' = [target EXCEPT ![Sweeper] = f]
    /\ DGoto(Sweeper, "lock")
    /\ UNCHANGED <<dirVars, totalBytes, lock, handlerVars, found, history>>

-----------------------------------------------------------------------------
\* The environment.

\* A file that nobody writes gets past the TTL: a sweep compares with the time
\* it began at.
Ages(f) ==
    /\ todo = {}
    /\ f \in linked \ expired
    /\ expired' = expired \cup {f}
    /\ UNCHANGED <<linked, size, totalBytes, lock, handlerVars, cleanerVars, history>>

\* The server dies and starts again: New counts what the directory holds.
Restart ==
    /\ totalBytes' = DirBytes
    /\ lock' = [s \in Shards |-> Free]
    /\ hpc' = [h \in Handlers |-> "idle"]
    /\ group' = [h \in Handlers |-> NoGroup]
    /\ attached' = [h \in Handlers |-> FALSE]
    /\ streamBytes' = [h \in Handlers |-> 0]
    /\ body' = [h \in Handlers |-> 0]
    /\ dpc' = [d \in Cleaners |-> "idle"]
    /\ found' = [d \in Cleaners |-> -1]
    /\ todo' = {}
    /\ orphaned' = 0 /\ torn' = 0
    /\ UNCHANGED <<dirVars, tok, target, diskErrors>>

-----------------------------------------------------------------------------
HandlerStep(h) ==
    \/ \E t \in Tokens, g \in Groups \cup {NoGroup} : Connects(h, t, g)
    \/ JoinWrites(h)
    \/ JoinFails(h)
    \/ JoinAccounts(h)
    \/ OpenFile(h)
    \/ StatSize(h)
    \/ \E n \in BodySizes : AppendChecks(h, n)
    \/ AppendWrites(h)
    \/ AppendFails(h)
    \/ AppendAccounts(h)
    \/ StreamEnds(h)

CleanerStep(d) ==
    \/ \E t \in Tokens : DeleteRequest(d, t)
    \/ DeleteStats(d)
    \/ DeleteRemoves(d)
    \/ DeleteFails(d)
    \/ DeleteSubtracts(d)

SweepStep == SweepBegins \/ \E f \in Files : SweepSkips(f) \/ SweepTakes(f)

Next ==
    \/ \E h \in Handlers : HandlerStep(h)
    \/ \E d \in Cleaners : CleanerStep(d)
    \/ SweepStep
    \/ \E f \in Files : Ages(f)
    \/ Restart

Spec == Init /\ [][Next]_storageVars

-----------------------------------------------------------------------------
\* Properties.

\* Written, and not yet in the total.
Unaccounted(h) ==
    CASE hpc[h] = "written" -> DiskLen(body[h])
      [] hpc[h] = "joined"  -> LineLen
      [] OTHER              -> 0

\* Removed, and still in the total.
Unsubtracted(d) == IF dpc[d] = "removed" /\ found[d] >= 0 THEN found[d] ELSE 0

\* The ledger is exact: totalBytes differs from what the directory holds by
\* what is in flight, by the records written to files already removed and by
\* the tails of failed writes, and by nothing else.  Every delete takes away
\* exactly what it removed, whatever was written meanwhile (storage.go:271-281).
LedgerExact ==
    totalBytes = DirBytes - SumFunction([h \in Handlers |-> Unaccounted(h)])
                          + SumFunction([d \in Cleaners |-> Unsubtracted(d)])
                          + orphaned - torn

\* A shard is held by the one Join, Delete or deleteGroup that is inside it,
\* and by nobody once that has returned, an error path included
\* (storage.go:271-278, group.go:55-66, 131-138).
LockDiscipline ==
    /\ \A s \in Shards : lock[s] # Free =>
          \/ \E h \in Handlers :
                lock[s] = h /\ hpc[h] = "joined" /\ ShardOf[group[h]] = s
          \/ \E d \in Cleaners :
                lock[s] = d /\ dpc[d] \in {"found", "removed"} /\ ShardOf[target[d]] = s
    /\ \A h \in Handlers : hpc[h] = "joined" => lock[ShardOf[group[h]]] = h
    /\ \A d \in Cleaners :
          dpc[d] \in {"found", "removed"} => lock[ShardOf[target[d]]] = d

\* The size Delete has seen is the size of what it removes: no record gets in
\* between, though the path may be created again (storage.go:275-281).
FoundIsCurrent ==
    \A d \in Cleaners : dpc[d] = "found" =>
        size[target[d]] = IF found[d] >= 0 THEN found[d] ELSE 0

\* The longest record or index line.
Largest == Max({LineLen} \cup {DiskLen(n) : n \in BodySizes})

\* What one writer can put into a file: its bodies fit the cap, their prefixes
\* come on top.
WriterMost == MaxStreamBytes + 3 * (MaxStreamBytes \div Min(BodySizes))

\* By how much the caps are overrun, as long as writes do not fail.  The total
\* is checked before the write and counted after it, so that every handler but
\* one can be past the check with a record; the directory holds no more than
\* that above the cap, across restarts too.  The stream cap is each writer's own
\* count, of the file it found and the bodies it wrote since: writers that are
\* open together do not see each other (storage.go:128-131, 141), but a log
\* holds no more than one writer's worth for each handler there is, however
\* often they reconnect.
OvershootBounded ==
    diskErrors = 0 =>
        /\ MaxTotalBytes > 0 =>
               DirBytes <= MaxTotalBytes + (Cardinality(Handlers) - 1) * Largest
        /\ MaxStreamBytes > 0 =>
               \A t \in Tokens : size[t] <= Cardinality(Handlers) * WriterMost
=============================================================================
