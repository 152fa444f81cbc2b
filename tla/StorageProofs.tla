--------------------------- MODULE StorageProofs ---------------------------
(***************************************************************************)
(* Storage for every set of streams, groups, goroutines and shards: the    *)
(* shards are held by who is inside and by nobody else, a delete takes     *)
(* away exactly the bytes it removes (IInv), the total is what the         *)
(* directory holds and what is in flight (BookInv), and the caps are       *)
(* overrun by no more than the handlers there are account for (CapInv).    *)
(***************************************************************************)
EXTENDS Storage, DataLemmas, TLAPS

\* The types that the locks and the deletes need.
Types ==
    /\ linked \subseteq Files
    /\ size \in [Files -> Nat]
    /\ lock \in [Shards -> Handlers \cup Cleaners \cup {Free}]
    /\ hpc \in [Handlers -> {"idle", "join", "joined", "open", "stat",
                             "ready", "checked", "written"}]
    /\ tok \in [Handlers -> Tokens]
    /\ group \in [Handlers -> Groups \cup {NoGroup}]
    /\ body \in [Handlers -> BodySizes \cup {0}]
    /\ attached \in [Handlers -> BOOLEAN]
    /\ dpc \in [Cleaners -> {"idle", "lock", "found", "removed"}]
    /\ target \in [Cleaners -> Files]
    /\ found \in [Cleaners -> Nat \cup {-1}]
    /\ todo \subseteq Files

\* A handler on its way through Join has a group.
Grouped == \A h \in Handlers : hpc[h] \in {"join", "joined"} => group[h] \in Groups

\* A path that names no file has no bytes.
UnlinkedEmpty == \A f \in Files : f \notin linked => size[f] = 0

IInv == Types /\ Grouped /\ UnlinkedEmpty /\ LockDiscipline /\ FoundIsCurrent

LEMMA ShardsOfFiles == \A f \in Files : ShardOf[f] \in Shards
  BY StorageAssumption DEF Shards

LEMMA Lengths ==
    /\ LineLen \in Nat
    /\ \A n \in BodySizes \cup {0} : n \in Nat /\ DiskLen(n) \in Nat
<1>1. LineLen \in Nat /\ BodySizes \subseteq Nat
  BY StorageAssumption
<1>2. \A n \in Nat : HeaderLen(n) \in Nat
  BY DEF HeaderLen
<1>3. \A n \in Nat : DiskLen(n) \in Nat
  BY <1>2 DEF DiskLen
<1> QED
  BY <1>1, <1>3

LEMMA Kinds ==
    /\ Handlers \cap Cleaners = {} /\ Free \notin Handlers \cup Cleaners
    /\ Tokens \subseteq Files /\ Groups \subseteq Files /\ NoGroup \notin Groups
    /\ Sweeper \in Cleaners /\ Deleters \subseteq Cleaners
  BY StorageAssumption DEF Cleaners, Files

-----------------------------------------------------------------------------
\* What a step may do without touching a lock or a delete under way.

\* Nobody enters or leaves a shard.
LEMMA LockStays ==
    ASSUME LockDiscipline, UNCHANGED <<lock, dpc, target>>,
           \A h \in Handlers : hpc'[h] = "joined" <=> hpc[h] = "joined",
           \A h \in Handlers : hpc[h] = "joined" => group'[h] = group[h]
    PROVE  LockDiscipline'
  BY DEF LockDiscipline

\* No file a delete has measured changes its size.
LEMMA FoundStays ==
    ASSUME FoundIsCurrent, UNCHANGED <<dpc, target, found>>,
           \A d \in Cleaners : dpc[d] = "found" => size'[target[d]] = size[target[d]]
    PROVE  FoundIsCurrent'
  BY DEF FoundIsCurrent

\* A free shard: no delete is inside it, so its files can be written.
LEMMA FreeFile ==
    ASSUME IInv, NEW f \in Files, IsFree(f), NEW d \in Cleaners,
           dpc[d] \in {"found", "removed"}
    PROVE  ShardOf[target[d]] # ShardOf[f]
<1>1. lock[ShardOf[target[d]]] = d
  BY DEF IInv, LockDiscipline
<1> QED
  BY <1>1, Kinds DEF IsFree

\* n more bytes in a file whose shard is free.
LEMMA GrownKeeps ==
    ASSUME IInv, NEW f \in Files, NEW n \in Nat, IsFree(f), Grown(f, n),
           UNCHANGED <<dpc, target, found>>
    PROVE  /\ linked' \subseteq Files /\ size' \in [Files -> Nat]
           /\ UnlinkedEmpty' /\ FoundIsCurrent'
<1>1. /\ linked \subseteq Files /\ size \in [Files -> Nat]
      /\ linked' = linked \cup {f}
      /\ size' = [size EXCEPT ![f] = size[f] + n]
  BY DEF Grown, IInv, Types
<1>2. size[f] + n \in Nat
  BY <1>1
<1>3. linked' \subseteq Files /\ size' \in [Files -> Nat]
  BY <1>1, <1>2
<1>4. \A g \in Files : g # f => size'[g] = size[g]
  BY <1>1
<1>5. UnlinkedEmpty'
  BY <1>1, <1>4 DEF UnlinkedEmpty, IInv
<1>6. ASSUME NEW d \in Cleaners, dpc[d] = "found"
      PROVE  size'[target[d]] = size[target[d]]
  <2>1. target[d] \in Files /\ target[d] # f
    BY <1>6, FreeFile DEF IInv, Types
  <2> QED
    BY <2>1, <1>4
<1>7. FoundIsCurrent'
  BY <1>6, FoundStays DEF IInv
<1> QED
  BY <1>3, <1>5, <1>7

-----------------------------------------------------------------------------
LEMMA StorageInit == Init => IInv
<1> SUFFICES ASSUME Init PROVE IInv
  OBVIOUS
<1>1. Tokens # {} /\ Tokens \subseteq Files
  BY StorageAssumption DEF Files
<1>2. Types
  BY <1>1 DEF Init, Types
<1>3. Grouped /\ UnlinkedEmpty
  BY DEF Init, Grouped, UnlinkedEmpty
<1>4. \A s \in Shards : lock[s] = Free
  BY DEF Init
<1>5. LockDiscipline /\ FoundIsCurrent
  BY <1>4 DEF Init, LockDiscipline, FoundIsCurrent
<1> QED
  BY <1>2, <1>3, <1>5 DEF IInv

\* A step of a handler that touches neither the directory nor a shard.
LEMMA HandlerQuiet ==
    ASSUME IInv, NEW h \in Handlers, NEW pc,
           pc \in {"idle", "join", "open", "stat", "ready", "checked", "written"},
           hpc[h] # "joined", HGoto(h, pc),
           UNCHANGED <<linked, size, lock, cleanerVars>>,
           tok' \in [Handlers -> Tokens],
           group' \in [Handlers -> Groups \cup {NoGroup}],
           body' \in [Handlers -> BodySizes \cup {0}],
           attached' \in [Handlers -> BOOLEAN],
           \A k \in Handlers : k # h => group'[k] = group[k],
           pc = "join" => group'[h] \in Groups
    PROVE  IInv'
<1>1. /\ hpc' = [hpc EXCEPT ![h] = pc]
      /\ UNCHANGED <<linked, size, lock, dpc, target, found, todo>>
      /\ hpc \in [Handlers -> {"idle", "join", "joined", "open", "stat",
                               "ready", "checked", "written"}]
  BY DEF HGoto, cleanerVars, IInv, Types
<1>2. /\ hpc'[h] = pc
      /\ \A k \in Handlers : k # h => hpc'[k] = hpc[k]
  BY <1>1
<1>3. Types'
  BY <1>1 DEF IInv, Types
<1>4. Grouped'
  BY <1>2 DEF IInv, Grouped
<1>5. UnlinkedEmpty' /\ FoundIsCurrent'
  BY <1>1 DEF IInv, UnlinkedEmpty, FoundIsCurrent
<1>6. \A k \in Handlers : hpc'[k] = "joined" <=> hpc[k] = "joined"
  BY <1>2
<1>7. \A k \in Handlers : hpc[k] = "joined" => group'[k] = group[k]
  OBVIOUS
<1>8. LockDiscipline'
  BY <1>1, <1>6, <1>7, LockStays DEF IInv
<1> QED
  BY <1>3, <1>4, <1>5, <1>8 DEF IInv

\* A handler returns: nothing is left of what it held.
LEMMA ReturnTypes ==
    ASSUME IInv, NEW h \in Handlers, Returns(h)
    PROVE  /\ HGoto(h, "idle") /\ tok' = tok
           /\ group' \in [Handlers -> Groups \cup {NoGroup}]
           /\ body' \in [Handlers -> BodySizes \cup {0}]
           /\ attached' \in [Handlers -> BOOLEAN]
           /\ \A k \in Handlers : k # h => group'[k] = group[k]
  BY DEF Returns, IInv, Types

LEMMA ConnectsKeeps ==
    ASSUME IInv, NEW h \in Handlers, NEW t \in Tokens, NEW g \in Groups \cup {NoGroup},
           Connects(h, t, g)
    PROVE  IInv'
<1> DEFINE pc == IF g = NoGroup THEN "open" ELSE "join"
<1>1. /\ hpc[h] = "idle" /\ HGoto(h, pc)
      /\ tok' = [tok EXCEPT ![h] = t] /\ group' = [group EXCEPT ![h] = g]
      /\ UNCHANGED <<linked, size, lock, body, attached, cleanerVars>>
  BY DEF Connects, dirVars
<1>2. /\ tok' \in [Handlers -> Tokens]
      /\ group' \in [Handlers -> Groups \cup {NoGroup}]
      /\ body' \in [Handlers -> BodySizes \cup {0}]
      /\ attached' \in [Handlers -> BOOLEAN]
      /\ \A k \in Handlers : k # h => group'[k] = group[k]
      /\ group'[h] = g
  BY <1>1 DEF IInv, Types
<1>3. pc \in {"open", "join"} /\ (pc = "join" => g \in Groups)
  OBVIOUS
<1> HIDE DEF pc
<1> QED
  BY <1>1, <1>2, <1>3, HandlerQuiet

\* The steps of a writer that change only its own variables.
LEMMA WriterQuiet ==
    ASSUME IInv, NEW h \in Handlers,
           \/ StatSize(h) \/ \E n \in BodySizes : AppendChecks(h, n)
           \/ AppendAccounts(h) \/ StreamEnds(h)
    PROVE  IInv'
<1>1. CASE StatSize(h)
  <2>1. /\ hpc[h] = "stat" /\ HGoto(h, "ready")
        /\ UNCHANGED <<linked, size, lock, tok, group, body, attached, cleanerVars>>
    BY <1>1 DEF StatSize, dirVars
  <2> QED
    BY <2>1, HandlerQuiet DEF IInv, Types
<1>2. CASE \E n \in BodySizes : AppendChecks(h, n)
  <2>1. PICK n \in BodySizes : AppendChecks(h, n)
    BY <1>2
  <2>2. /\ hpc[h] = "ready" /\ HGoto(h, "checked")
        /\ body' = [body EXCEPT ![h] = n]
        /\ UNCHANGED <<linked, size, lock, tok, group, attached, cleanerVars>>
    BY <2>1 DEF AppendChecks, dirVars
  <2>3. body' \in [Handlers -> BodySizes \cup {0}]
    BY <2>2 DEF IInv, Types
  <2> QED
    BY <2>2, <2>3, HandlerQuiet DEF IInv, Types
<1>3. CASE AppendAccounts(h)
  <2>1. /\ hpc[h] = "written" /\ HGoto(h, "ready")
        /\ body' = [body EXCEPT ![h] = 0]
        /\ UNCHANGED <<linked, size, lock, tok, group, attached, cleanerVars>>
    BY <1>3 DEF AppendAccounts, dirVars
  <2>2. body' \in [Handlers -> BodySizes \cup {0}]
    BY <2>1 DEF IInv, Types
  <2> QED
    BY <2>1, <2>2, HandlerQuiet DEF IInv, Types
<1>4. CASE StreamEnds(h)
  <2>1. /\ hpc[h] # "joined" /\ Returns(h)
        /\ UNCHANGED <<linked, size, lock, cleanerVars>>
    BY <1>4 DEF StreamEnds, dirVars
  <2> QED
    BY <2>1, ReturnTypes, HandlerQuiet DEF IInv, Types
<1> QED
  BY <1>1, <1>2, <1>3, <1>4

\* A file is created, or was there: it has the bytes it had.
LEMMA OpenKeeps ==
    ASSUME IInv, NEW h \in Handlers, OpenFile(h)
    PROVE  IInv'
<1>1. /\ hpc[h] = "open" /\ HGoto(h, "stat")
      /\ linked' = linked \cup {tok[h]}
      /\ attached' = [attached EXCEPT ![h] = TRUE]
      /\ UNCHANGED <<size, lock, tok, group, body, dpc, target, found, todo>>
      /\ tok[h] \in Files
  BY Kinds DEF OpenFile, cleanerVars, IInv, Types
<1>2. /\ hpc' = [hpc EXCEPT ![h] = "stat"]
      /\ hpc'[h] = "stat"
      /\ \A k \in Handlers : k # h => hpc'[k] = hpc[k]
  BY <1>1 DEF HGoto, IInv, Types
<1>3. Types'
  BY <1>1, <1>2 DEF IInv, Types
<1>4. Grouped' /\ UnlinkedEmpty' /\ FoundIsCurrent'
  BY <1>1, <1>2 DEF IInv, Grouped, UnlinkedEmpty, FoundIsCurrent
<1>5. \A k \in Handlers : hpc'[k] = "joined" <=> hpc[k] = "joined"
  BY <1>1, <1>2
<1>6. LockDiscipline'
  BY <1>1, <1>5, LockStays DEF IInv
<1> QED
  BY <1>3, <1>4, <1>6 DEF IInv

\* Bytes at the end of a file in a free shard, by a handler that then goes on
\* without that shard.
LEMMA WriteKeeps ==
    ASSUME IInv, NEW h \in Handlers, NEW f \in Files, NEW n \in Nat, NEW pc,
           pc \in {"idle", "ready", "written"},
           hpc[h] # "joined", HGoto(h, pc), IsFree(f), Grown(f, n),
           UNCHANGED <<lock, dpc, target, found, todo>>,
           tok' \in [Handlers -> Tokens],
           group' \in [Handlers -> Groups \cup {NoGroup}],
           body' \in [Handlers -> BodySizes \cup {0}],
           attached' \in [Handlers -> BOOLEAN],
           \A k \in Handlers : k # h => group'[k] = group[k]
    PROVE  IInv'
<1>1. /\ linked' \subseteq Files /\ size' \in [Files -> Nat]
      /\ UnlinkedEmpty' /\ FoundIsCurrent'
  BY GrownKeeps
<1>2. /\ hpc' = [hpc EXCEPT ![h] = pc]
      /\ hpc'[h] = pc
      /\ \A k \in Handlers : k # h => hpc'[k] = hpc[k]
  BY DEF HGoto, IInv, Types
<1>3. Types'
  BY <1>1, <1>2 DEF IInv, Types
<1>4. Grouped'
  BY <1>2 DEF IInv, Grouped
<1>5. \A k \in Handlers : hpc'[k] = "joined" <=> hpc[k] = "joined"
  BY <1>2
<1>6. LockDiscipline'
  BY <1>5, LockStays DEF IInv
<1> QED
  BY <1>1, <1>3, <1>4, <1>6 DEF IInv

LEMMA AppendKeeps ==
    ASSUME IInv, NEW h \in Handlers, AppendWrites(h) \/ AppendFails(h)
    PROVE  IInv'
<1> DEFINE n == DiskLen(body[h])
<1>1. /\ tok[h] \in Files /\ body[h] \in BodySizes \cup {0} /\ n \in Nat
      /\ hpc[h] = "checked" /\ IsFree(tok[h])
      /\ UNCHANGED <<lock, tok, group, attached, dpc, target, found, todo>>
  BY Kinds, Lengths DEF AppendWrites, AppendFails, cleanerVars, IInv, Types
<1>2. CASE AppendWrites(h)
  <2>1. body' = body /\ HGoto(h, "written")
    BY <1>2 DEF AppendWrites
  <2>2. CASE attached[h]
    <3>1. Grown(tok[h], n)
      BY <1>2, <2>2 DEF AppendWrites
    <3> QED
      BY <1>1, <2>1, <3>1, WriteKeeps DEF IInv, Types
  <2>3. CASE ~attached[h]
    <3>1. UNCHANGED <<linked, size, cleanerVars>>
      BY <1>2, <2>3 DEF AppendWrites, dirVars
    <3> QED
      BY <1>1, <2>1, <3>1, HandlerQuiet DEF IInv, Types
  <2> QED
    BY <2>2, <2>3
<1>3. CASE AppendFails(h)
  <2>1. body' = [body EXCEPT ![h] = 0] /\ HGoto(h, "ready")
    BY <1>3 DEF AppendFails
  <2>2. body' \in [Handlers -> BodySizes \cup {0}]
    BY <2>1 DEF IInv, Types
  <2>3. PICK k \in {0, n - 1} :
            IF attached[h] /\ k > 0 THEN Grown(tok[h], k) /\ torn' = torn + k
                                    ELSE UNCHANGED <<dirVars, torn>>
    BY <1>3 DEF AppendFails
  <2>4. CASE attached[h] /\ k > 0
    <3>1. k \in Nat /\ Grown(tok[h], k)
      BY <1>1, <2>3, <2>4
    <3> QED
      BY <1>1, <2>1, <2>2, <3>1, WriteKeeps DEF IInv, Types
  <2>5. CASE ~(attached[h] /\ k > 0)
    <3>1. UNCHANGED <<linked, size, cleanerVars>>
      BY <1>1, <2>3, <2>5 DEF dirVars, cleanerVars
    <3> QED
      BY <1>1, <2>1, <2>2, <3>1, HandlerQuiet DEF IInv, Types
  <2> QED
    BY <2>4, <2>5
<1> QED
  BY <1>2, <1>3

\* Join enters the shard with its line written.
LEMMA JoinWritesKeeps ==
    ASSUME IInv, NEW h \in Handlers, JoinWrites(h)
    PROVE  IInv'
<1> DEFINE f == group[h]
<1>1. /\ hpc[h] = "join" /\ f \in Groups /\ f \in Files
      /\ IsFree(f) /\ Locked(f, h) /\ Grown(f, LineLen) /\ HGoto(h, "joined")
      /\ UNCHANGED <<tok, group, body, attached, dpc, target, found, todo>>
  BY Kinds DEF JoinWrites, cleanerVars, IInv, Grouped
<1> HIDE DEF f
<1>2. /\ linked' \subseteq Files /\ size' \in [Files -> Nat]
      /\ UnlinkedEmpty' /\ FoundIsCurrent'
  BY <1>1, GrownKeeps, Lengths
<1>3. /\ lock' = [lock EXCEPT ![ShardOf[f]] = h] /\ ShardOf[f] \in Shards
      /\ lock \in [Shards -> Handlers \cup Cleaners \cup {Free}]
      /\ hpc' = [hpc EXCEPT ![h] = "joined"]
      /\ hpc'[h] = "joined"
      /\ \A k \in Handlers : k # h => hpc'[k] = hpc[k]
  BY <1>1, ShardsOfFiles DEF Locked, HGoto, IInv, Types
<1>4. Types'
  BY <1>1, <1>2, <1>3 DEF IInv, Types
<1>5. Grouped'
  BY <1>1, <1>3 DEF IInv, Grouped, f
<1>6. /\ lock'[ShardOf[f]] = h
      /\ \A s \in Shards : s # ShardOf[f] => lock'[s] = lock[s]
  BY <1>3
<1>7. LockDiscipline'
  <2>1. ASSUME NEW s \in Shards, lock'[s] # Free
        PROVE  \/ \E k \in Handlers :
                     lock'[s] = k /\ hpc'[k] = "joined" /\ ShardOf[group'[k]] = s
               \/ \E d \in Cleaners :
                     lock'[s] = d /\ dpc'[d] \in {"found", "removed"} /\ ShardOf[target'[d]] = s
    <3>1. CASE s = ShardOf[f]
      BY <3>1, <1>1, <1>3, <1>6 DEF f
    <3>2. CASE s # ShardOf[f]
      <4>1. lock[s] # Free
        BY <1>6, <2>1, <3>2
      <4>2. CASE \E k \in Handlers :
                     lock[s] = k /\ hpc[k] = "joined" /\ ShardOf[group[k]] = s
        BY <4>2, <1>1, <1>3, <1>6, <3>2
      <4>3. CASE \E d \in Cleaners :
                     lock[s] = d /\ dpc[d] \in {"found", "removed"} /\ ShardOf[target[d]] = s
        BY <4>3, <1>1, <1>6, <3>2
      <4> QED
        BY <4>1, <4>2, <4>3 DEF IInv, LockDiscipline
    <3> QED
      BY <3>1, <3>2
  <2>2. ASSUME NEW k \in Handlers, hpc'[k] = "joined"
        PROVE  lock'[ShardOf[group'[k]]] = k
    <3>1. CASE k = h
      BY <3>1, <1>1, <1>6 DEF f
    <3>2. CASE k # h
      <4>1. hpc[k] = "joined" /\ lock[ShardOf[group[k]]] = k /\ group[k] \in Files
        BY <2>2, <3>2, <1>3, Kinds DEF IInv, LockDiscipline, Grouped
      <4>2. ShardOf[group[k]] # ShardOf[f]
        BY <1>1, <4>1, Kinds DEF IsFree
      <4> QED
        BY <1>1, <1>6, <4>1, <4>2, ShardsOfFiles
    <3> QED
      BY <3>1, <3>2
  <2>3. ASSUME NEW d \in Cleaners, dpc'[d] \in {"found", "removed"}
        PROVE  lock'[ShardOf[target'[d]]] = d
    <3>1. dpc[d] \in {"found", "removed"} /\ target[d] \in Files
      BY <1>1, <2>3 DEF IInv, Types
    <3>2. lock[ShardOf[target[d]]] = d /\ ShardOf[target[d]] # ShardOf[f]
      BY <1>1, <3>1, FreeFile DEF IInv, LockDiscipline
    <3> QED
      BY <1>1, <1>6, <3>1, <3>2, ShardsOfFiles
  <2> QED
    BY <2>1, <2>2, <2>3 DEF LockDiscipline
<1> QED
  BY <1>2, <1>4, <1>5, <1>7 DEF IInv

LEMMA JoinFailsKeeps ==
    ASSUME IInv, NEW h \in Handlers, JoinFails(h)
    PROVE  IInv'
<1> DEFINE f == group[h]
<1>1. /\ hpc[h] = "join" /\ f \in Files /\ IsFree(f) /\ Returns(h)
      /\ UNCHANGED <<lock, dpc, target, found, todo>>
  BY Kinds DEF JoinFails, cleanerVars, IInv, Grouped
<1>2. /\ HGoto(h, "idle") /\ tok' \in [Handlers -> Tokens]
      /\ group' \in [Handlers -> Groups \cup {NoGroup}]
      /\ body' \in [Handlers -> BodySizes \cup {0}]
      /\ attached' \in [Handlers -> BOOLEAN]
      /\ \A k \in Handlers : k # h => group'[k] = group[k]
  BY <1>1, ReturnTypes DEF IInv, Types
<1>3. PICK n \in {0, LineLen - 1} :
          IF n > 0 THEN Grown(f, n) /\ torn' = torn + n
                   ELSE linked' = linked \cup {f} /\ UNCHANGED <<size, expired, torn>>
  BY DEF JoinFails
<1>4. CASE n > 0
  <2>1. n \in Nat /\ Grown(f, n)
    BY <1>3, <1>4, Lengths
  <2> QED
    BY <1>1, <1>2, <2>1, WriteKeeps
<1>5. CASE ~(n > 0)
  <2>1. linked' = linked \cup {f} /\ size' = size
    BY <1>3, <1>5
  <2>2. /\ hpc' = [hpc EXCEPT ![h] = "idle"]
        /\ hpc'[h] = "idle"
        /\ \A k \in Handlers : k # h => hpc'[k] = hpc[k]
    BY <1>2 DEF HGoto, IInv, Types
  <2>3. Types'
    BY <1>1, <1>2, <2>1, <2>2 DEF IInv, Types
  <2>4. Grouped' /\ UnlinkedEmpty' /\ FoundIsCurrent'
    BY <1>1, <1>2, <2>1, <2>2 DEF IInv, Grouped, UnlinkedEmpty, FoundIsCurrent
  <2>5. \A k \in Handlers : hpc'[k] = "joined" <=> hpc[k] = "joined"
    BY <1>1, <2>2
  <2>6. LockDiscipline'
    BY <1>1, <1>2, <2>5, LockStays DEF IInv
  <2> QED
    BY <2>3, <2>4, <2>6 DEF IInv
<1> QED
  BY <1>4, <1>5

\* A shard is given back by the one who holds it.
LEMMA UnlockOthers ==
    ASSUME IInv, NEW f \in Files, lock' = [lock EXCEPT ![ShardOf[f]] = Free]
    PROVE  /\ lock' \in [Shards -> Handlers \cup Cleaners \cup {Free}]
           /\ lock'[ShardOf[f]] = Free
           /\ \A s \in Shards : s # ShardOf[f] => lock'[s] = lock[s]
  BY ShardsOfFiles DEF IInv, Types

LEMMA JoinAccountsKeeps ==
    ASSUME IInv, NEW h \in Handlers, JoinAccounts(h)
    PROVE  IInv'
<1> DEFINE f == group[h]
<1>1. /\ hpc[h] = "joined" /\ f \in Files /\ HGoto(h, "open")
      /\ lock' = [lock EXCEPT ![ShardOf[f]] = Free]
      /\ lock[ShardOf[f]] = h
      /\ UNCHANGED <<linked, size, tok, group, body, attached, dpc, target, found, todo>>
  BY Kinds DEF JoinAccounts, Unlocked, Locked, dirVars, cleanerVars, IInv, Grouped,
     LockDiscipline
<1> HIDE DEF f
<1>2. /\ lock' \in [Shards -> Handlers \cup Cleaners \cup {Free}]
      /\ lock'[ShardOf[f]] = Free
      /\ \A s \in Shards : s # ShardOf[f] => lock'[s] = lock[s]
  BY <1>1, UnlockOthers
<1>3. /\ hpc' = [hpc EXCEPT ![h] = "open"]
      /\ hpc'[h] = "open"
      /\ \A k \in Handlers : k # h => hpc'[k] = hpc[k]
  BY <1>1 DEF HGoto, IInv, Types
<1>4. Types'
  BY <1>1, <1>2, <1>3 DEF IInv, Types
<1>5. Grouped' /\ UnlinkedEmpty' /\ FoundIsCurrent'
  BY <1>1, <1>3 DEF IInv, Grouped, UnlinkedEmpty, FoundIsCurrent
<1>6. LockDiscipline'
  <2>1. ASSUME NEW s \in Shards, lock'[s] # Free
        PROVE  \/ \E k \in Handlers :
                     lock'[s] = k /\ hpc'[k] = "joined" /\ ShardOf[group'[k]] = s
               \/ \E d \in Cleaners :
                     lock'[s] = d /\ dpc'[d] \in {"found", "removed"} /\ ShardOf[target'[d]] = s
    <3>1. s # ShardOf[f] /\ lock'[s] = lock[s] /\ lock[s] # Free
      BY <1>2, <2>1
    <3>2. CASE \E k \in Handlers :
                   lock[s] = k /\ hpc[k] = "joined" /\ ShardOf[group[k]] = s
      <4>1. PICK k \in Handlers : lock[s] = k /\ hpc[k] = "joined" /\ ShardOf[group[k]] = s
        BY <3>2
      <4>2. k # h
        BY <3>1, <4>1 DEF f
      <4> QED
        BY <1>1, <1>3, <3>1, <4>1, <4>2
    <3>3. CASE \E d \in Cleaners :
                   lock[s] = d /\ dpc[d] \in {"found", "removed"} /\ ShardOf[target[d]] = s
      BY <3>3, <1>1, <3>1
    <3> QED
      BY <3>1, <3>2, <3>3 DEF IInv, LockDiscipline
  <2>2. ASSUME NEW k \in Handlers, hpc'[k] = "joined"
        PROVE  lock'[ShardOf[group'[k]]] = k
    <3>1. k # h /\ hpc[k] = "joined"
      BY <2>2, <1>3
    <3>2. lock[ShardOf[group[k]]] = k /\ group[k] \in Files
      BY <3>1, Kinds DEF IInv, LockDiscipline, Grouped
    <3>3. ShardOf[group[k]] # ShardOf[f]
      BY <1>1, <3>1, <3>2
    <3> QED
      BY <1>1, <1>2, <3>2, <3>3, ShardsOfFiles
  <2>3. ASSUME NEW d \in Cleaners, dpc'[d] \in {"found", "removed"}
        PROVE  lock'[ShardOf[target'[d]]] = d
    <3>1. dpc[d] \in {"found", "removed"} /\ target[d] \in Files
      BY <1>1, <2>3 DEF IInv, Types
    <3>2. lock[ShardOf[target[d]]] = d /\ d # h
      BY <3>1, Kinds DEF IInv, LockDiscipline
    <3>3. ShardOf[target[d]] # ShardOf[f]
      BY <1>1, <3>2
    <3> QED
      BY <1>1, <1>2, <3>1, <3>2, <3>3, ShardsOfFiles
  <2> QED
    BY <2>1, <2>2, <2>3 DEF LockDiscipline
<1> QED
  BY <1>4, <1>5, <1>6 DEF IInv

-----------------------------------------------------------------------------
\* A cleaner that is in no shard before or after.
LEMMA CleanerQuiet ==
    ASSUME IInv, NEW d \in Cleaners, dpc[d] \in {"idle", "lock"},
           dpc' = dpc \/ DGoto(d, "lock"),
           target' = target \/ \E f \in Files : target' = [target EXCEPT ![d] = f],
           todo' \subseteq Files,
           UNCHANGED <<linked, size, lock, handlerVars, found>>
    PROVE  IInv'
<1>1. /\ UNCHANGED <<linked, size, lock, hpc, tok, group, body, attached, found>>
      /\ dpc \in [Cleaners -> {"idle", "lock", "found", "removed"}]
      /\ target \in [Cleaners -> Files]
  BY DEF handlerVars, IInv, Types
<1>2. /\ dpc' \in [Cleaners -> {"idle", "lock", "found", "removed"}]
      /\ dpc'[d] \in {"idle", "lock"}
      /\ \A e \in Cleaners : e # d => dpc'[e] = dpc[e]
  BY <1>1 DEF DGoto
<1>3. /\ target' \in [Cleaners -> Files]
      /\ \A e \in Cleaners : e # d => target'[e] = target[e]
  BY <1>1
<1>4. Types'
  BY <1>1, <1>2, <1>3 DEF IInv, Types
<1>5. Grouped' /\ UnlinkedEmpty'
  BY <1>1 DEF IInv, Grouped, UnlinkedEmpty
<1>6. \A e \in Cleaners : dpc'[e] = "found" \/ dpc'[e] = "removed"
                          => e # d /\ dpc'[e] = dpc[e] /\ target'[e] = target[e]
  BY <1>2, <1>3
<1>7. FoundIsCurrent'
  BY <1>1, <1>6 DEF IInv, FoundIsCurrent
<1>8. \A e \in Cleaners : dpc[e] \in {"found", "removed"}
                          => e # d /\ dpc'[e] = dpc[e] /\ target'[e] = target[e]
  BY <1>2, <1>3
<1>9. LockDiscipline'
  BY <1>1, <1>6, <1>8 DEF IInv, LockDiscipline
<1> QED
  BY <1>4, <1>5, <1>7, <1>9 DEF IInv

LEMMA SweepKeeps ==
    ASSUME IInv, SweepBegins \/ \E f \in Files : SweepSkips(f) \/ SweepTakes(f)
    PROVE  IInv'
<1>1. Sweeper \in Cleaners
  BY Kinds
<1>2. CASE SweepBegins
  <2>1. todo' \subseteq Files
    BY <1>2 DEF SweepBegins, IInv, Types
  <2> QED
    BY <1>1, <1>2, <2>1, CleanerQuiet DEF SweepBegins, dirVars
<1>3. ASSUME NEW f \in Files, SweepSkips(f)
      PROVE  IInv'
  <2>1. todo' \subseteq Files
    BY <1>3 DEF SweepSkips, IInv, Types
  <2> QED
    BY <1>1, <1>3, <2>1, CleanerQuiet DEF SweepSkips, dirVars
<1>4. ASSUME NEW f \in Files, SweepTakes(f)
      PROVE  IInv'
  <2>1. todo' \subseteq Files
    BY <1>4 DEF SweepTakes, IInv, Types
  <2> QED
    BY <1>1, <1>4, <2>1, CleanerQuiet DEF SweepTakes, dirVars
<1> QED
  BY <1>2, <1>3, <1>4

LEMMA RequestKeeps ==
    ASSUME IInv, NEW d \in Cleaners, NEW t \in Tokens, DeleteRequest(d, t)
    PROVE  IInv'
<1>1. t \in Files /\ todo' \subseteq Files
  BY Kinds DEF DeleteRequest, IInv, Types
<1> QED
  BY <1>1, CleanerQuiet DEF DeleteRequest, dirVars

\* Delete enters the shard and measures the file.
LEMMA StatsKeeps ==
    ASSUME IInv, NEW d \in Cleaners, DeleteStats(d)
    PROVE  IInv'
<1> DEFINE f == target[d]
<1>1. /\ dpc[d] = "lock" /\ f \in Files /\ IsFree(f) /\ DGoto(d, "found")
      /\ lock' = [lock EXCEPT ![ShardOf[f]] = d]
      /\ found' = [found EXCEPT ![d] = IF f \in linked THEN size[f] ELSE -1]
      /\ UNCHANGED <<linked, size, hpc, tok, group, body, attached, target, todo>>
  BY DEF DeleteStats, Locked, dirVars, handlerVars, IInv, Types
<1>2. /\ size[f] \in Nat
      /\ found \in [Cleaners -> Nat \cup {-1}]
      /\ dpc \in [Cleaners -> {"idle", "lock", "found", "removed"}]
      /\ lock \in [Shards -> Handlers \cup Cleaners \cup {Free}]
      /\ ShardOf[f] \in Shards
  BY <1>1, ShardsOfFiles DEF IInv, Types
<1>3. /\ found' \in [Cleaners -> Nat \cup {-1}]
      /\ found'[d] = IF f \in linked THEN size[f] ELSE -1
      /\ \A e \in Cleaners : e # d => found'[e] = found[e]
  BY <1>1, <1>2
<1> HIDE DEF f
<1>4. /\ dpc' \in [Cleaners -> {"idle", "lock", "found", "removed"}]
      /\ dpc'[d] = "found"
      /\ \A e \in Cleaners : e # d => dpc'[e] = dpc[e]
  BY <1>1, <1>2 DEF DGoto
<1>5. /\ lock' \in [Shards -> Handlers \cup Cleaners \cup {Free}]
      /\ lock'[ShardOf[f]] = d
      /\ \A s \in Shards : s # ShardOf[f] => lock'[s] = lock[s]
  BY <1>1, <1>2
<1>6. Types'
  BY <1>1, <1>3, <1>4, <1>5 DEF IInv, Types
<1>7. Grouped' /\ UnlinkedEmpty'
  BY <1>1 DEF IInv, Grouped, UnlinkedEmpty
<1>8. size[f] = IF found'[d] >= 0 THEN found'[d] ELSE 0
  <2>1. CASE f \in linked
    BY <1>2, <1>3, <2>1
  <2>2. CASE f \notin linked
    BY <1>1, <1>3, <2>2 DEF IInv, UnlinkedEmpty
  <2> QED
    BY <2>1, <2>2
<1>9. FoundIsCurrent'
  <2> SUFFICES ASSUME NEW e \in Cleaners, dpc'[e] = "found"
               PROVE  size'[target'[e]] = IF found'[e] >= 0 THEN found'[e] ELSE 0
    BY DEF FoundIsCurrent
  <2>1. CASE e = d
    BY <1>1, <1>8, <2>1 DEF f
  <2>2. CASE e # d
    BY <1>1, <1>3, <1>4, <2>2 DEF IInv, FoundIsCurrent
  <2> QED
    BY <2>1, <2>2
<1>10. LockDiscipline'
  <2>1. ASSUME NEW s \in Shards, lock'[s] # Free
        PROVE  \/ \E k \in Handlers :
                     lock'[s] = k /\ hpc'[k] = "joined" /\ ShardOf[group'[k]] = s
               \/ \E e \in Cleaners :
                     lock'[s] = e /\ dpc'[e] \in {"found", "removed"} /\ ShardOf[target'[e]] = s
    <3>1. CASE s = ShardOf[f]
      BY <3>1, <1>1, <1>4, <1>5 DEF f
    <3>2. CASE s # ShardOf[f]
      <4>1. lock'[s] = lock[s] /\ lock[s] # Free
        BY <1>5, <2>1, <3>2
      <4>2. CASE \E k \in Handlers :
                     lock[s] = k /\ hpc[k] = "joined" /\ ShardOf[group[k]] = s
        BY <4>1, <4>2, <1>1
      <4>3. CASE \E e \in Cleaners :
                     lock[s] = e /\ dpc[e] \in {"found", "removed"} /\ ShardOf[target[e]] = s
        BY <4>1, <4>3, <1>1, <1>4
      <4> QED
        BY <4>1, <4>2, <4>3 DEF IInv, LockDiscipline
    <3> QED
      BY <3>1, <3>2
  <2>2. ASSUME NEW k \in Handlers, hpc'[k] = "joined"
        PROVE  lock'[ShardOf[group'[k]]] = k
    <3>1. lock[ShardOf[group[k]]] = k /\ group[k] \in Files
      BY <1>1, <2>2, Kinds DEF IInv, LockDiscipline, Grouped
    <3>2. ShardOf[group[k]] # ShardOf[f]
      BY <1>1, <3>1, Kinds DEF IsFree
    <3> QED
      BY <1>1, <1>5, <3>1, <3>2, ShardsOfFiles
  <2>3. ASSUME NEW e \in Cleaners, dpc'[e] \in {"found", "removed"}
        PROVE  lock'[ShardOf[target'[e]]] = e
    <3>1. CASE e = d
      BY <3>1, <1>1, <1>5 DEF f
    <3>2. CASE e # d
      <4>1. dpc[e] \in {"found", "removed"} /\ target[e] \in Files
        BY <1>4, <2>3, <3>2 DEF IInv, Types
      <4>2. lock[ShardOf[target[e]]] = e /\ ShardOf[target[e]] # ShardOf[f]
        BY <1>1, <4>1, FreeFile DEF IInv, LockDiscipline
      <4> QED
        BY <1>1, <1>5, <4>1, <4>2, ShardsOfFiles
    <3> QED
      BY <3>1, <3>2
  <2> QED
    BY <2>1, <2>2, <2>3 DEF LockDiscipline
<1> QED
  BY <1>6, <1>7, <1>9, <1>10 DEF IInv

\* The path goes, inside the shard.
LEMMA RemovesKeeps ==
    ASSUME IInv, NEW d \in Cleaners, DeleteRemoves(d)
    PROVE  IInv'
<1> DEFINE f == target[d]
<1>1. /\ dpc[d] = "found" /\ f \in Files /\ DGoto(d, "removed")
      /\ linked' = linked \ {f} /\ size' = [size EXCEPT ![f] = 0]
      /\ attached' = [h \in Handlers |-> attached[h] /\ tok[h] # f]
      /\ UNCHANGED <<lock, hpc, tok, group, body, target, found, todo>>
  BY DEF DeleteRemoves, IInv, Types
<1>2. lock[ShardOf[f]] = d
  BY <1>1 DEF IInv, LockDiscipline
<1>3. \A e \in Cleaners : e # d /\ dpc[e] \in {"found", "removed"} => target[e] # f
  BY <1>2 DEF IInv, LockDiscipline
<1> HIDE DEF f
<1>4. /\ linked' \subseteq Files /\ size' \in [Files -> Nat]
      /\ size'[f] = 0
      /\ \A g \in Files : g # f => size'[g] = size[g]
  BY <1>1 DEF IInv, Types
<1>5. /\ dpc' \in [Cleaners -> {"idle", "lock", "found", "removed"}]
      /\ dpc'[d] = "removed"
      /\ \A e \in Cleaners : e # d => dpc'[e] = dpc[e]
  BY <1>1 DEF DGoto, IInv, Types
<1>6. attached' \in [Handlers -> BOOLEAN]
  BY <1>1, Zenon
<1>7. Types'
  BY <1>1, <1>4, <1>5, <1>6 DEF IInv, Types
<1>8. Grouped' /\ UnlinkedEmpty'
  BY <1>1, <1>4 DEF IInv, Grouped, UnlinkedEmpty
<1>9. FoundIsCurrent'
  <2> SUFFICES ASSUME NEW e \in Cleaners, dpc'[e] = "found"
               PROVE  size'[target'[e]] = IF found'[e] >= 0 THEN found'[e] ELSE 0
    BY DEF FoundIsCurrent
  <2>1. e # d /\ dpc[e] = "found"
    BY <1>5
  <2>2. target[e] \in Files /\ target[e] # f
    BY <2>1, <1>3 DEF IInv, Types
  <2> QED
    BY <1>1, <1>4, <2>1, <2>2 DEF IInv, FoundIsCurrent
<1>10. \A e \in Cleaners : dpc'[e] \in {"found", "removed"} <=> dpc[e] \in {"found", "removed"}
  BY <1>1, <1>5
<1>11. LockDiscipline'
  BY <1>1, <1>10 DEF IInv, LockDiscipline
<1> QED
  BY <1>7, <1>8, <1>9, <1>11 DEF IInv

\* Delete returns, with an error or without: the shard is free again.
LEMMA DeleteReturnsKeeps ==
    ASSUME IInv, NEW d \in Cleaners, DeleteFails(d) \/ DeleteSubtracts(d)
    PROVE  IInv'
<1> DEFINE f == target[d]
<1>1. /\ dpc[d] \in {"found", "removed"} /\ f \in Files /\ DGoto(d, "idle")
      /\ lock' = [lock EXCEPT ![ShardOf[f]] = Free]
      /\ found' = [found EXCEPT ![d] = -1]
      /\ UNCHANGED <<linked, size, hpc, tok, group, body, attached, target, todo>>
  BY DEF DeleteFails, DeleteSubtracts, Unlocked, Locked, dirVars, handlerVars, IInv, Types
<1>2. lock[ShardOf[f]] = d
  BY <1>1 DEF IInv, LockDiscipline
<1> HIDE DEF f
<1>3. /\ lock' \in [Shards -> Handlers \cup Cleaners \cup {Free}]
      /\ lock'[ShardOf[f]] = Free
      /\ \A s \in Shards : s # ShardOf[f] => lock'[s] = lock[s]
  BY <1>1, UnlockOthers
<1>4. /\ dpc' \in [Cleaners -> {"idle", "lock", "found", "removed"}]
      /\ dpc'[d] = "idle"
      /\ \A e \in Cleaners : e # d => dpc'[e] = dpc[e]
  BY <1>1 DEF DGoto, IInv, Types
<1>5. /\ found' \in [Cleaners -> Nat \cup {-1}]
      /\ \A e \in Cleaners : e # d => found'[e] = found[e]
  BY <1>1 DEF IInv, Types
<1>6. Types'
  BY <1>1, <1>3, <1>4, <1>5 DEF IInv, Types
<1>7. Grouped' /\ UnlinkedEmpty'
  BY <1>1 DEF IInv, Grouped, UnlinkedEmpty
<1>8. FoundIsCurrent'
  <2> SUFFICES ASSUME NEW e \in Cleaners, dpc'[e] = "found"
               PROVE  size'[target'[e]] = IF found'[e] >= 0 THEN found'[e] ELSE 0
    BY DEF FoundIsCurrent
  <2>1. e # d /\ dpc[e] = "found"
    BY <1>4
  <2> QED
    BY <1>1, <1>5, <2>1 DEF IInv, FoundIsCurrent
<1>9. LockDiscipline'
  <2>1. ASSUME NEW s \in Shards, lock'[s] # Free
        PROVE  \/ \E k \in Handlers :
                     lock'[s] = k /\ hpc'[k] = "joined" /\ ShardOf[group'[k]] = s
               \/ \E e \in Cleaners :
                     lock'[s] = e /\ dpc'[e] \in {"found", "removed"} /\ ShardOf[target'[e]] = s
    <3>1. s # ShardOf[f] /\ lock'[s] = lock[s] /\ lock[s] # Free
      BY <1>3, <2>1
    <3>2. CASE \E k \in Handlers :
                   lock[s] = k /\ hpc[k] = "joined" /\ ShardOf[group[k]] = s
      BY <3>2, <1>1, <3>1
    <3>3. CASE \E e \in Cleaners :
                   lock[s] = e /\ dpc[e] \in {"found", "removed"} /\ ShardOf[target[e]] = s
      <4>1. PICK e \in Cleaners :
                lock[s] = e /\ dpc[e] \in {"found", "removed"} /\ ShardOf[target[e]] = s
        BY <3>3
      <4>2. e # d
        BY <3>1, <4>1 DEF f
      <4> QED
        BY <1>1, <1>4, <3>1, <4>1, <4>2
    <3> QED
      BY <3>1, <3>2, <3>3 DEF IInv, LockDiscipline
  <2>2. ASSUME NEW k \in Handlers, hpc'[k] = "joined"
        PROVE  lock'[ShardOf[group'[k]]] = k
    <3>1. lock[ShardOf[group[k]]] = k /\ group[k] \in Files /\ k # d
      BY <1>1, <2>2, Kinds DEF IInv, LockDiscipline, Grouped
    <3>2. ShardOf[group[k]] # ShardOf[f]
      BY <1>2, <3>1
    <3> QED
      BY <1>1, <1>3, <3>1, <3>2, ShardsOfFiles
  <2>3. ASSUME NEW e \in Cleaners, dpc'[e] \in {"found", "removed"}
        PROVE  lock'[ShardOf[target'[e]]] = e
    <3>1. e # d /\ dpc[e] \in {"found", "removed"} /\ target[e] \in Files
      BY <1>4, <2>3 DEF IInv, Types
    <3>2. lock[ShardOf[target[e]]] = e
      BY <3>1 DEF IInv, LockDiscipline
    <3>3. ShardOf[target[e]] # ShardOf[f]
      BY <1>2, <3>1, <3>2
    <3> QED
      BY <1>1, <1>3, <3>1, <3>2, <3>3, ShardsOfFiles
  <2> QED
    BY <2>1, <2>2, <2>3 DEF LockDiscipline
<1> QED
  BY <1>6, <1>7, <1>8, <1>9 DEF IInv

-----------------------------------------------------------------------------
LEMMA RestartKeeps == IInv /\ Restart => IInv'
<1> SUFFICES ASSUME IInv, Restart PROVE IInv'
  OBVIOUS
<1> USE DEF Restart, dirVars
<1>1. \A s \in Shards : lock'[s] = Free
  OBVIOUS
<1>2. Types'
  BY DEF IInv, Types
<1>3. Grouped' /\ UnlinkedEmpty'
  BY DEF IInv, Grouped, UnlinkedEmpty
<1>4. LockDiscipline' /\ FoundIsCurrent'
  BY <1>1 DEF LockDiscipline, FoundIsCurrent
<1> QED
  BY <1>2, <1>3, <1>4 DEF IInv

LEMMA StorageStutters ==
    ASSUME IInv,
           UNCHANGED <<linked, size, lock, hpc, tok, group, body, attached,
                       dpc, target, found, todo>>
    PROVE  IInv'
  BY DEF IInv, Types, Grouped, UnlinkedEmpty, LockDiscipline, FoundIsCurrent

LEMMA StorageStep == IInv /\ [Next]_storageVars => IInv'
<1> SUFFICES ASSUME IInv, [Next]_storageVars PROVE IInv'
  OBVIOUS
<1>1. ASSUME NEW h \in Handlers, HandlerStep(h) PROVE IInv'
  BY <1>1, ConnectsKeeps, WriterQuiet, OpenKeeps, AppendKeeps, JoinWritesKeeps,
     JoinFailsKeeps, JoinAccountsKeeps DEF HandlerStep
<1>2. ASSUME NEW d \in Cleaners, CleanerStep(d) PROVE IInv'
  BY <1>2, RequestKeeps, StatsKeeps, RemovesKeeps, DeleteReturnsKeeps DEF CleanerStep
<1>3. CASE SweepStep
  BY <1>3, SweepKeeps DEF SweepStep
<1>4. ASSUME NEW f \in Files, Ages(f) PROVE IInv'
  BY <1>4, StorageStutters DEF Ages, handlerVars, cleanerVars
<1>5. CASE UNCHANGED storageVars
  BY <1>5, StorageStutters DEF storageVars, dirVars, handlerVars, cleanerVars
<1> QED
  BY <1>1, <1>2, <1>3, <1>4, <1>5, RestartKeeps DEF Next

LEMMA StorageInv == Spec => []IInv
  BY StorageInit, StorageStep, PTL DEF Spec

-----------------------------------------------------------------------------
\* No path leaves a shard locked, and Join, Delete and the group's delete are
\* alone in theirs, however tokens and groups fall into shards.
THEOREM ShardsAreReleased == Spec => []LockDiscipline
<1>1. IInv => LockDiscipline
  BY DEF IInv
<1> QED
  BY <1>1, StorageInv, PTL

\* What Delete subtracts from the total is what the file holds when its path
\* goes, whoever appends to it.
THEOREM DeletesMeasureRight == Spec => []FoundIsCurrent
<1>1. IInv => FoundIsCurrent
  BY DEF IInv
<1> QED
  BY <1>1, StorageInv, PTL

-----------------------------------------------------------------------------
\* The books: what the directory holds, what is written and not accounted,
\* removed and not subtracted, and what handlers are past the check with.

ToWrite(h) ==
    CASE hpc[h] = "checked" -> DiskLen(body[h])
      [] hpc[h] = "join"    -> LineLen
      [] OTHER              -> 0

InFlight == SumFunction([h \in Handlers |-> Unaccounted(h)])
Removing == SumFunction([d \in Cleaners |-> Unsubtracted(d)])
ToCome   == SumFunction([h \in Handlers |-> ToWrite(h)])

Counters ==
    /\ expired \subseteq linked
    /\ totalBytes \in Int
    /\ streamBytes \in [Handlers -> Nat]
    /\ orphaned \in Nat /\ torn \in Nat /\ diskErrors \in 0..MaxDiskErrors

\* A handler has a frame in hand between the check and the account.
InHand ==
    \A h \in Handlers : hpc[h] \in {"checked", "written"} => body[h] \in BodySizes

NoTails == diskErrors = 0 => torn = 0

\* The directory with all that handlers may still write to it.
TotalBound ==
    diskErrors = 0 /\ MaxTotalBytes > 0 =>
        DirBytes + orphaned + ToCome
            <= MaxTotalBytes + (Cardinality(Handlers) - 1) * Largest

BookInv == Counters /\ InHand /\ NoTails /\ LedgerExact /\ TotalBound

LEMMA FiniteKinds ==
    /\ IsFiniteSet(Files) /\ IsFiniteSet(Handlers) /\ IsFiniteSet(Cleaners)
    /\ IsFiniteSet(BodySizes)
<1>1. /\ IsFiniteSet(Tokens) /\ IsFiniteSet(Groups) /\ IsFiniteSet(Deleters)
      /\ IsFiniteSet(Handlers) /\ IsFiniteSet(BodySizes)
  BY StorageAssumption, Zenon
<1>2. IsFiniteSet(Files)
  BY <1>1, FS_Union, Zenon DEF Files
<1>3. IsFiniteSet(Cleaners)
  BY <1>1, FS_AddElement, Zenon DEF Cleaners
<1> QED
  BY <1>1, <1>2, <1>3

\* No record and no line is longer than Largest.
LEMMA LargestIs ==
    /\ Largest \in Nat /\ LineLen <= Largest
    /\ \A n \in BodySizes : DiskLen(n) <= Largest
<1> DEFINE f == [n \in BodySizes |-> DiskLen(n)]
           S == {LineLen} \cup {DiskLen(n) : n \in BodySizes}
<1>1. BodySizes # {} /\ LineLen \in Nat /\ \A n \in BodySizes : DiskLen(n) \in Nat
  BY StorageAssumption, Lengths
<1>2. PICK b \in BodySizes : \A n \in BodySizes : f[n] <= f[b]
  BY <1>1, FiniteKinds, LargestExists
<1>3. \A n \in BodySizes : DiskLen(n) <= DiskLen(b)
  BY <1>2
<1>4. S \subseteq Nat
  BY <1>1
<1>5. \E x \in S : \A y \in S : x >= y
  <2>1. CASE LineLen >= DiskLen(b)
    <3>1. \A n \in BodySizes : LineLen >= DiskLen(n)
      BY <1>1, <1>3, <2>1
    <3> QED
      BY <1>1, <3>1
  <2>2. CASE DiskLen(b) >= LineLen
    BY <1>1, <1>3, <2>2
  <2> QED
    BY <1>1, <2>1, <2>2
<1>6. Largest \in S /\ \A y \in S : Largest >= y
  BY <1>5, Zenon DEF Largest, Max
<1> QED
  BY <1>1, <1>4, <1>6

\* What one handler or cleaner has in the books.
EntriesFit ==
    /\ \A h \in Handlers : /\ Unaccounted(h) \in Nat /\ ToWrite(h) \in Nat
                           /\ InHand => Unaccounted(h) + ToWrite(h) <= Largest
    /\ \A d \in Cleaners : Unsubtracted(d) \in Nat

LEMMA Entries == IInv => EntriesFit
<1> SUFFICES ASSUME IInv PROVE EntriesFit
  OBVIOUS
<1>1. ASSUME NEW h \in Handlers
      PROVE  /\ Unaccounted(h) \in Nat /\ ToWrite(h) \in Nat
             /\ InHand => Unaccounted(h) + ToWrite(h) <= Largest
  <2>1. /\ LineLen \in Nat /\ DiskLen(body[h]) \in Nat /\ Largest \in Nat /\ LineLen <= Largest
        /\ body[h] \in BodySizes => DiskLen(body[h]) <= Largest
    BY Lengths, LargestIs DEF IInv, Types
  <2>2. CASE hpc[h] = "checked"
    BY <2>1, <2>2 DEF Unaccounted, ToWrite, InHand
  <2>3. CASE hpc[h] = "written"
    BY <2>1, <2>3 DEF Unaccounted, ToWrite, InHand
  <2>4. CASE hpc[h] = "join"
    BY <2>1, <2>4 DEF Unaccounted, ToWrite
  <2>5. CASE hpc[h] = "joined"
    BY <2>1, <2>5 DEF Unaccounted, ToWrite
  <2>6. CASE hpc[h] \notin {"checked", "written", "join", "joined"}
    BY <2>1, <2>6 DEF Unaccounted, ToWrite
  <2> QED
    BY <2>2, <2>3, <2>4, <2>5, <2>6
<1>2. ASSUME NEW d \in Cleaners
      PROVE  Unsubtracted(d) \in Nat
  BY DEF Unsubtracted, IInv, Types
<1> QED
  BY <1>1, <1>2 DEF EntriesFit

\* The books are sums over a finite set.
SumsFit ==
    /\ DirBytes = SumFunctionOnSet(size, Files) /\ DirBytes \in Nat
    /\ InFlight = SumFunctionOnSet([h \in Handlers |-> Unaccounted(h)], Handlers)
    /\ InFlight \in Nat
    /\ ToCome = SumFunctionOnSet([h \in Handlers |-> ToWrite(h)], Handlers)
    /\ ToCome \in Nat
    /\ Removing = SumFunctionOnSet([d \in Cleaners |-> Unsubtracted(d)], Cleaners)
    /\ Removing \in Nat

LEMMA Sums == IInv => SumsFit
<1> SUFFICES ASSUME IInv PROVE SumsFit
  OBVIOUS
<1> DEFINE u == [h \in Handlers |-> Unaccounted(h)]
           w == [h \in Handlers |-> ToWrite(h)]
           v == [d \in Cleaners |-> Unsubtracted(d)]
<1>1. /\ \A f \in Files : size[f] \in Nat
      /\ \A h \in Handlers : u[h] \in Nat /\ w[h] \in Nat
      /\ \A d \in Cleaners : v[d] \in Nat
  BY Entries DEF EntriesFit, IInv, Types
<1>2. DOMAIN size = Files
  BY DEF IInv, Types
<1>3. /\ DirBytes = SumFunctionOnSet(size, Files) /\ InFlight = SumFunctionOnSet(u, Handlers)
      /\ ToCome = SumFunctionOnSet(w, Handlers) /\ Removing = SumFunctionOnSet(v, Cleaners)
  BY <1>2 DEF DirBytes, InFlight, ToCome, Removing, SumFunction
<1> HIDE DEF u, w, v
<1>4. DirBytes \in Nat /\ InFlight \in Nat /\ ToCome \in Nat /\ Removing \in Nat
  BY <1>1, <1>3, SumNat, FiniteKinds
<1> QED
  BY <1>3, <1>4 DEF SumsFit, u, w, v

\* The books after a step of one handler that writes to one file.
LEMMA HandlerBooks ==
    ASSUME IInv, IInv', NEW h \in Handlers, NEW f \in Files,
           \A k \in Handlers : k # h => hpc'[k] = hpc[k] /\ body'[k] = body[k],
           \A g \in Files : g # f => size'[g] = size[g],
           UNCHANGED <<dpc, found>>
    PROVE  /\ DirBytes' = DirBytes - size[f] + size'[f]
           /\ InFlight' = InFlight - Unaccounted(h) + Unaccounted(h)'
           /\ ToCome' = ToCome - ToWrite(h) + ToWrite(h)'
           /\ Removing' = Removing
<1> DEFINE u == [k \in Handlers |-> Unaccounted(k)]
           w == [k \in Handlers |-> ToWrite(k)]
<1>1. EntriesFit /\ EntriesFit' /\ SumsFit /\ SumsFit'
  BY Entries, Sums, PTL
<1>2. IsFiniteSet(Files) /\ IsFiniteSet(Handlers)
  BY FiniteKinds
<1>3. \A g \in Files : size[g] \in Int /\ size'[g] \in Int
  BY DEF IInv, Types
<1>4. \A k \in Handlers : u[k] \in Int /\ u'[k] \in Int
  BY <1>1 DEF EntriesFit
<1>5. \A k \in Handlers : w[k] \in Int /\ w'[k] \in Int
  BY <1>1 DEF EntriesFit
<1>6. \A k \in Handlers : k # h => u'[k] = u[k]
  BY DEF Unaccounted
<1>7. \A k \in Handlers : k # h => w'[k] = w[k]
  BY DEF ToWrite
<1>8. /\ DirBytes' = SumFunctionOnSet(size', Files) /\ DirBytes = SumFunctionOnSet(size, Files)
      /\ InFlight' = SumFunctionOnSet(u', Handlers) /\ InFlight = SumFunctionOnSet(u, Handlers)
      /\ ToCome' = SumFunctionOnSet(w', Handlers) /\ ToCome = SumFunctionOnSet(w, Handlers)
  BY <1>1 DEF SumsFit
<1>9. /\ u[h] = Unaccounted(h) /\ u'[h] = Unaccounted(h)'
      /\ w[h] = ToWrite(h) /\ w'[h] = ToWrite(h)'
  OBVIOUS
<1>10. Removing' = Removing
  BY DEF Removing, Unsubtracted
<1> HIDE DEF u, w
<1>11. SumFunctionOnSet(size', Files) = SumFunctionOnSet(size, Files) - size[f] + size'[f]
  BY <1>2, <1>3, SumChanges
<1>12. SumFunctionOnSet(u', Handlers) = SumFunctionOnSet(u, Handlers) - u[h] + u'[h]
  BY <1>2, <1>4, <1>6, SumChanges
<1>13. SumFunctionOnSet(w', Handlers) = SumFunctionOnSet(w, Handlers) - w[h] + w'[h]
  BY <1>2, <1>5, <1>7, SumChanges
<1> QED
  BY <1>8, <1>9, <1>10, <1>11, <1>12, <1>13

\* The books after a step of one cleaner that removes one file.
LEMMA CleanerBooks ==
    ASSUME IInv, IInv', NEW d \in Cleaners, NEW f \in Files,
           \A e \in Cleaners : e # d => dpc'[e] = dpc[e] /\ found'[e] = found[e],
           \A g \in Files : g # f => size'[g] = size[g],
           UNCHANGED <<hpc, body>>
    PROVE  /\ DirBytes' = DirBytes - size[f] + size'[f]
           /\ Removing' = Removing - Unsubtracted(d) + Unsubtracted(d)'
           /\ InFlight' = InFlight /\ ToCome' = ToCome
<1> DEFINE v == [e \in Cleaners |-> Unsubtracted(e)]
<1>1. EntriesFit /\ EntriesFit' /\ SumsFit /\ SumsFit'
  BY Entries, Sums, PTL
<1>2. IsFiniteSet(Files) /\ IsFiniteSet(Cleaners)
  BY FiniteKinds
<1>3. \A g \in Files : size[g] \in Int /\ size'[g] \in Int
  BY DEF IInv, Types
<1>4. \A e \in Cleaners : v[e] \in Int /\ v'[e] \in Int
  BY <1>1 DEF EntriesFit
<1>5. \A e \in Cleaners : e # d => v'[e] = v[e]
  BY DEF Unsubtracted
<1>6. /\ DirBytes' = SumFunctionOnSet(size', Files) /\ DirBytes = SumFunctionOnSet(size, Files)
      /\ Removing' = SumFunctionOnSet(v', Cleaners) /\ Removing = SumFunctionOnSet(v, Cleaners)
  BY <1>1 DEF SumsFit
<1>7. v[d] = Unsubtracted(d) /\ v'[d] = Unsubtracted(d)'
  OBVIOUS
<1>8. InFlight' = InFlight /\ ToCome' = ToCome
  BY DEF InFlight, ToCome, Unaccounted, ToWrite
<1> HIDE DEF v
<1>9. SumFunctionOnSet(size', Files) = SumFunctionOnSet(size, Files) - size[f] + size'[f]
  BY <1>2, <1>3, SumChanges
<1>10. SumFunctionOnSet(v', Cleaners) = SumFunctionOnSet(v, Cleaners) - v[d] + v'[d]
  BY <1>2, <1>4, <1>5, SumChanges
<1> QED
  BY <1>6, <1>7, <1>8, <1>9, <1>10

-----------------------------------------------------------------------------
\* What keeps the ledger: a step that moves the total by as much as the books,
\* and asks for no more room.
Drift == totalBytes - DirBytes + InFlight - Removing - orphaned + torn

LEMMA NoDrift == IInv /\ Counters => (LedgerExact <=> Drift = 0)
<1> SUFFICES ASSUME IInv, Counters PROVE LedgerExact <=> Drift = 0
  OBVIOUS
<1>1. /\ DirBytes \in Int /\ InFlight \in Int /\ Removing \in Int
      /\ totalBytes \in Int /\ orphaned \in Int /\ torn \in Int
  BY Sums DEF SumsFit, Counters
<1>2. LedgerExact <=> totalBytes = DirBytes - InFlight + Removing + orphaned - torn
  BY DEF LedgerExact, InFlight, Removing
<1> QED
  BY <1>1, <1>2 DEF Drift

LEMMA Balanced ==
    ASSUME IInv, IInv', BookInv, Counters', InHand',
           diskErrors' = 0 => diskErrors = 0 /\ torn' = torn,
           Drift' = Drift,
           diskErrors' = 0 =>
               DirBytes' + orphaned' + ToCome' <= DirBytes + orphaned + ToCome
    PROVE  BookInv'
<1>1. SumsFit /\ SumsFit' /\ Counters
  BY Sums, PTL DEF BookInv
<1>2. /\ DirBytes \in Int /\ ToCome \in Int /\ DirBytes' \in Int /\ ToCome' \in Int
      /\ orphaned \in Int /\ orphaned' \in Int
  BY <1>1 DEF SumsFit, Counters
<1>3. LedgerExact <=> Drift = 0
  BY <1>1, NoDrift
<1>4. (LedgerExact <=> Drift = 0)'
  BY NoDrift, PTL
<1>5. LedgerExact'
  BY <1>3, <1>4 DEF BookInv
<1>6. NoTails'
  BY DEF NoTails, BookInv
<1>7. TotalBound'
  <2> DEFINE bound == MaxTotalBytes + (Cardinality(Handlers) - 1) * Largest
  <2>1. bound \in Int
    <3>1. Cardinality(Handlers) \in Int /\ Largest \in Int /\ MaxTotalBytes \in Int
      BY FiniteKinds, FS_CardinalityType, LargestIs, StorageAssumption
    <3> QED
      BY <3>1
  <2> SUFFICES ASSUME diskErrors' = 0, MaxTotalBytes > 0
               PROVE  DirBytes' + orphaned' + ToCome' <= bound
    BY DEF TotalBound
  <2>2. DirBytes + orphaned + ToCome <= bound
    BY DEF BookInv, TotalBound
  <2> HIDE DEF bound
  <2> DEFINE a == DirBytes + orphaned + ToCome
             b == DirBytes' + orphaned' + ToCome'
  <2>3. a \in Int /\ b \in Int
    BY <1>2
  <2>4. b <= a /\ a <= bound
    BY <2>2
  <2> HIDE DEF a, b
  <2>5. b <= bound
    BY <2>1, <2>3, <2>4
  <2> QED
    BY <2>5 DEF b
<1> QED
  BY <1>5, <1>6, <1>7 DEF BookInv

\* All handlers but one, with a record or a line each.
LEMMA OthersBound ==
    ASSUME IInv, InHand, NEW h \in Handlers, Unaccounted(h) = 0, ToWrite(h) = 0
    PROVE  InFlight + ToCome <= (Cardinality(Handlers) - 1) * Largest
<1> DEFINE u == [k \in Handlers |-> Unaccounted(k)]
           w == [k \in Handlers |-> ToWrite(k)]
           b == [k \in Handlers |-> u[k] + w[k]]
<1>1. EntriesFit /\ SumsFit
  BY Entries, Sums
<1>2. IsFiniteSet(Handlers) /\ Largest \in Nat
  BY FiniteKinds, LargestIs
<1>3. \A k \in Handlers : u[k] \in Int /\ w[k] \in Int /\ b[k] = u[k] + w[k]
  BY <1>1 DEF EntriesFit
<1>4. \A k \in Handlers : b[k] \in Nat /\ b[k] <= Largest
  BY <1>1 DEF EntriesFit
<1>5. b[h] = 0
  OBVIOUS
<1>6. InFlight = SumFunctionOnSet(u, Handlers) /\ ToCome = SumFunctionOnSet(w, Handlers)
  BY <1>1 DEF SumsFit
<1> HIDE DEF u, w, b
<1>7. SumFunctionOnSet(b, Handlers) = SumFunctionOnSet(u, Handlers) + SumFunctionOnSet(w, Handlers)
  BY <1>2, <1>3, SumAdds
<1>8. SumFunctionOnSet(b, Handlers) <= (Cardinality(Handlers) - 1) * Largest
  BY <1>2, <1>4, <1>5, SumOfOthers
<1> QED
  BY <1>6, <1>7, <1>8

\* A step past the check of the total, for n more bytes.
LEMMA CheckedBound ==
    ASSUME IInv, IInv', BookInv, Counters', InHand', NEW h \in Handlers, NEW n \in Nat,
           Unaccounted(h) = 0, ToWrite(h) = 0, Unaccounted(h)' = 0, ToWrite(h)' = n,
           ~TotalFull(n),
           \A k \in Handlers : k # h => hpc'[k] = hpc[k] /\ body'[k] = body[k],
           UNCHANGED <<size, totalBytes, dpc, found, orphaned, torn, diskErrors>>
    PROVE  BookInv'
<1>1. SumsFit /\ SumsFit' /\ Counters /\ InHand
  BY Sums, PTL DEF BookInv
<1>2. /\ DirBytes \in Int /\ InFlight \in Int /\ Removing \in Nat /\ ToCome \in Int
      /\ ToCome' \in Int /\ totalBytes \in Int /\ orphaned \in Int /\ torn \in Int
  BY <1>1 DEF SumsFit, Counters
<1>3. totalBytes = DirBytes - InFlight + Removing + orphaned - torn
  BY DEF BookInv, LedgerExact, InFlight, Removing
<1>4. PICK f \in Files : TRUE
  BY StorageAssumption DEF Files
<1>5. size'[f] = size[f] /\ size[f] \in Int
  BY DEF IInv, Types
<1>6. /\ DirBytes' = DirBytes - size[f] + size'[f]
      /\ InFlight' = InFlight - Unaccounted(h) + Unaccounted(h)'
      /\ ToCome' = ToCome - ToWrite(h) + ToWrite(h)'
      /\ Removing' = Removing
  BY HandlerBooks
<1>7. /\ DirBytes' = DirBytes /\ InFlight' = InFlight /\ ToCome' = ToCome + n
      /\ Removing' = Removing
  BY <1>2, <1>5, <1>6
<1>8. LedgerExact'
  BY <1>3, <1>7 DEF LedgerExact, InFlight, Removing
<1>9. NoTails'
  BY DEF NoTails, BookInv
<1>10. TotalBound'
  <2> DEFINE others == (Cardinality(Handlers) - 1) * Largest
  <2>1. others \in Int /\ MaxTotalBytes \in Nat
    BY FiniteKinds, FS_CardinalityType, LargestIs, StorageAssumption
  <2> SUFFICES ASSUME diskErrors' = 0, MaxTotalBytes > 0
               PROVE  DirBytes' + orphaned' + ToCome' <= MaxTotalBytes + others
    BY DEF TotalBound
  <2>2. torn = 0
    BY DEF BookInv, NoTails
  <2>3. InFlight + ToCome <= others
    BY <1>1, OthersBound
  <2>4. totalBytes + n <= MaxTotalBytes
    BY <1>2, <2>1 DEF TotalFull
  <2> HIDE DEF others
  <2> QED
    BY <1>2, <1>3, <1>7, <2>1, <2>2, <2>3, <2>4
<1> QED
  BY <1>8, <1>9, <1>10 DEF BookInv

-----------------------------------------------------------------------------
\* A step of one handler: what it writes to a file is in flight, orphaned, torn
\* or in the total.
LEMMA HandlerMoves ==
    ASSUME IInv, IInv', BookInv, Counters', InHand', NEW h \in Handlers, NEW f \in Files,
           \A k \in Handlers : k # h => hpc'[k] = hpc[k] /\ body'[k] = body[k],
           \A g \in Files : g # f => size'[g] = size[g],
           UNCHANGED <<dpc, found>>,
           (totalBytes' - totalBytes) + (Unaccounted(h)' - Unaccounted(h)) + (torn' - torn)
               = (size'[f] - size[f]) + (orphaned' - orphaned),
           diskErrors' = 0 =>
               /\ diskErrors = 0 /\ torn' = torn
               /\ size'[f] + orphaned' + ToWrite(h)' <= size[f] + orphaned + ToWrite(h)
    PROVE  BookInv'
<1>1. EntriesFit /\ EntriesFit' /\ SumsFit /\ SumsFit' /\ Counters
  BY Entries, Sums, PTL DEF BookInv
<1>2. /\ DirBytes \in Int /\ InFlight \in Int /\ Removing \in Int /\ ToCome \in Int
      /\ totalBytes \in Int /\ totalBytes' \in Int /\ orphaned \in Int /\ orphaned' \in Int
      /\ torn \in Int /\ torn' \in Int /\ size[f] \in Int /\ size'[f] \in Int
      /\ Unaccounted(h) \in Int /\ Unaccounted(h)' \in Int
      /\ ToWrite(h) \in Int /\ ToWrite(h)' \in Int
  BY <1>1 DEF EntriesFit, SumsFit, Counters, IInv, Types
<1>3. /\ DirBytes' = DirBytes - size[f] + size'[f]
      /\ InFlight' = InFlight - Unaccounted(h) + Unaccounted(h)'
      /\ ToCome' = ToCome - ToWrite(h) + ToWrite(h)'
      /\ Removing' = Removing
  BY HandlerBooks
<1>4. /\ Drift = totalBytes - DirBytes + InFlight - Removing - orphaned + torn
      /\ Drift' = totalBytes' - DirBytes' + InFlight' - Removing' - orphaned' + torn'
  BY DEF Drift
<1>5. Drift' = Drift
  BY <1>2, <1>3, <1>4
<1>6. diskErrors' = 0 => DirBytes' + orphaned' + ToCome' <= DirBytes + orphaned + ToCome
  BY <1>2, <1>3
<1> QED
  BY <1>5, <1>6, Balanced

\* What a handler does to its own place leaves the frames of the others.
LEMMA HandStays ==
    ASSUME InHand, NEW h \in Handlers,
           \A k \in Handlers : k # h => hpc'[k] = hpc[k] /\ body'[k] = body[k],
           hpc'[h] \in {"checked", "written"} => body'[h] \in BodySizes
    PROVE  InHand'
  BY DEF InHand

\* A handler's place after a step.
LEMMA PlaceOf ==
    ASSUME IInv, NEW h \in Handlers, NEW pc, HGoto(h, pc)
    PROVE  hpc'[h] = pc /\ \A k \in Handlers : k # h => hpc'[k] = hpc[k]
  BY DEF HGoto, IInv, Types

\* A step that leaves the books alone.
LEMMA HandlerIdles ==
    ASSUME IInv, IInv', BookInv, Counters', NEW h \in Handlers,
           \A k \in Handlers : k # h => hpc'[k] = hpc[k] /\ body'[k] = body[k],
           hpc[h] \in {"idle", "open", "stat", "ready"},
           hpc'[h] \in {"idle", "open", "stat", "ready"},
           UNCHANGED <<size, totalBytes, dpc, found, orphaned, torn, diskErrors>>
    PROVE  BookInv'
<1>1. /\ Unaccounted(h) = 0 /\ Unaccounted(h)' = 0
      /\ ToWrite(h) = 0 /\ ToWrite(h)' = 0
  BY DEF Unaccounted, ToWrite
<1>2. PICK f \in Files : TRUE
  BY StorageAssumption DEF Files
<1>3. /\ size'[f] = size[f] /\ size[f] \in Int /\ totalBytes \in Int
      /\ orphaned \in Int /\ torn \in Int
  BY DEF BookInv, Counters, IInv, Types
<1>4. InHand'
  BY HandStays DEF BookInv
<1>5. (totalBytes' - totalBytes) + (Unaccounted(h)' - Unaccounted(h)) + (torn' - torn)
          = (size'[f] - size[f]) + (orphaned' - orphaned)
  BY <1>1, <1>3
<1>6. size'[f] + orphaned' + ToWrite(h)' <= size[f] + orphaned + ToWrite(h)
  BY <1>1, <1>3
<1> QED
  BY <1>4, <1>5, <1>6, HandlerMoves

LEMMA ConnectsBooks ==
    ASSUME IInv, IInv', BookInv, NEW h \in Handlers, NEW t \in Tokens,
           NEW g \in Groups \cup {NoGroup}, Connects(h, t, g)
    PROVE  BookInv'
<1> DEFINE pc == IF g = NoGroup THEN "open" ELSE "join"
<1>1. /\ hpc[h] = "idle" /\ HGoto(h, pc) /\ (g # NoGroup => ~TotalFull(LineLen))
      /\ UNCHANGED <<linked, expired, size, totalBytes, body, streamBytes, dpc, found,
                     orphaned, torn, diskErrors>>
  BY DEF Connects, dirVars, cleanerVars, history
<1>2. pc = "open" \/ (pc = "join" /\ g # NoGroup)
  OBVIOUS
<1> HIDE DEF pc
<1>3. hpc'[h] = pc /\ \A k \in Handlers : k # h => hpc'[k] = hpc[k]
  BY <1>1, PlaceOf
<1>4. Counters' /\ InHand'
  BY <1>1, <1>2, <1>3, HandStays DEF BookInv, Counters
<1>5. CASE pc = "open"
  BY <1>1, <1>3, <1>4, <1>5, HandlerIdles
<1>6. CASE pc = "join" /\ g # NoGroup
  <2>1. ToWrite(h)' = LineLen /\ LineLen \in Nat
    BY <1>3, <1>6, Lengths DEF ToWrite
  <2>2. Unaccounted(h) = 0 /\ ToWrite(h) = 0 /\ Unaccounted(h)' = 0
    BY <1>1, <1>3, <1>6 DEF Unaccounted, ToWrite
  <2> QED
    BY <1>1, <1>3, <1>4, <1>6, <2>1, <2>2, CheckedBound
<1> QED
  BY <1>2, <1>5, <1>6

\* The line lands, and is in flight.
LEMMA JoinWritesBooks ==
    ASSUME IInv, IInv', BookInv, NEW h \in Handlers, JoinWrites(h)
    PROVE  BookInv'
<1> DEFINE f == group[h]
<1>1. /\ hpc[h] = "join" /\ f \in Files /\ Grown(f, LineLen) /\ HGoto(h, "joined")
      /\ UNCHANGED <<totalBytes, body, streamBytes, dpc, found, orphaned, torn, diskErrors>>
  BY Kinds DEF JoinWrites, cleanerVars, history, IInv, Grouped
<1> HIDE DEF f
<1>2. hpc'[h] = "joined" /\ \A k \in Handlers : k # h => hpc'[k] = hpc[k]
  BY <1>1, PlaceOf
<1>3. /\ linked' = linked \cup {f} /\ expired' = expired \ {f}
      /\ size'[f] = size[f] + LineLen
      /\ \A g \in Files : g # f => size'[g] = size[g]
  BY <1>1 DEF Grown, IInv, Types
<1>4. Counters' /\ InHand'
  BY <1>1, <1>2, <1>3, HandStays DEF BookInv, Counters
<1>5. /\ Unaccounted(h) = 0 /\ Unaccounted(h)' = LineLen
      /\ ToWrite(h) = LineLen /\ ToWrite(h)' = 0
  BY <1>1, <1>2 DEF Unaccounted, ToWrite
<1>6. /\ size[f] \in Int /\ LineLen \in Int /\ totalBytes \in Int
      /\ orphaned \in Int /\ torn \in Int
  BY <1>1, Lengths DEF BookInv, Counters, IInv, Types
<1>7. /\ (totalBytes' - totalBytes) + (Unaccounted(h)' - Unaccounted(h)) + (torn' - torn)
             = (size'[f] - size[f]) + (orphaned' - orphaned)
      /\ size'[f] + orphaned' + ToWrite(h)' <= size[f] + orphaned + ToWrite(h)
  BY <1>1, <1>3, <1>5, <1>6
<1> QED
  BY <1>1, <1>2, <1>3, <1>4, <1>7, HandlerMoves

\* Half a line lands, and nobody will account it.
LEMMA JoinFailsBooks ==
    ASSUME IInv, IInv', BookInv, NEW h \in Handlers, JoinFails(h)
    PROVE  BookInv'
<1> DEFINE f == group[h]
<1>1. /\ hpc[h] = "join" /\ f \in Files /\ Returns(h)
      /\ diskErrors < MaxDiskErrors /\ diskErrors' = diskErrors + 1
      /\ UNCHANGED <<totalBytes, dpc, found, orphaned>>
  BY Kinds DEF JoinFails, cleanerVars, IInv, Grouped
<1>2. PICK n \in {0, LineLen - 1} :
          IF n > 0 THEN Grown(f, n) /\ torn' = torn + n
                   ELSE linked' = linked \cup {f} /\ UNCHANGED <<size, expired, torn>>
  BY DEF JoinFails
<1> HIDE DEF f
<1>3. /\ hpc'[h] = "idle" /\ \A k \in Handlers : k # h => hpc'[k] = hpc[k]
      /\ \A k \in Handlers : k # h => body'[k] = body[k]
      /\ streamBytes' = [streamBytes EXCEPT ![h] = 0]
  BY <1>1, PlaceOf DEF Returns, IInv, Types
<1>4. n \in Int /\ size[f] \in Int /\ torn \in Nat /\ diskErrors \in 0..MaxDiskErrors
      /\ MaxDiskErrors \in Nat /\ totalBytes \in Int /\ orphaned \in Nat
  BY <1>1, Lengths, StorageAssumption DEF BookInv, Counters, IInv, Types
<1>5. /\ \A g \in Files : g # f => size'[g] = size[g]
      /\ (torn' - torn) = (size'[f] - size[f]) /\ torn' \in Nat
      /\ expired' \subseteq linked'
  <2>1. CASE n > 0
    <3>1. /\ linked' = linked \cup {f} /\ expired' = expired \ {f}
          /\ size'[f] = size[f] + n /\ torn' = torn + n
          /\ \A g \in Files : g # f => size'[g] = size[g]
      BY <1>1, <1>2, <2>1 DEF Grown, IInv, Types
    <3> QED
      BY <1>4, <2>1, <3>1 DEF BookInv, Counters
  <2>2. CASE ~(n > 0)
    <3>1. linked' = linked \cup {f} /\ UNCHANGED <<size, expired, torn>>
      BY <1>2, <2>2
    <3> QED
      BY <1>4, <3>1 DEF BookInv, Counters
  <2> QED
    BY <2>1, <2>2
<1>6. Counters'
  BY <1>1, <1>3, <1>4, <1>5 DEF BookInv, Counters
<1>7. InHand'
  BY <1>3, HandStays DEF BookInv
<1>8. Unaccounted(h) = 0 /\ Unaccounted(h)' = 0
  BY <1>1, <1>3 DEF Unaccounted
<1>9. /\ (totalBytes' - totalBytes) + (Unaccounted(h)' - Unaccounted(h)) + (torn' - torn)
             = (size'[f] - size[f]) + (orphaned' - orphaned)
      /\ diskErrors' # 0
  <2>1. size'[f] \in Int
    BY <1>1 DEF IInv, Types
  <2> QED
    BY <1>1, <1>4, <1>5, <1>8, <2>1
<1> QED
  BY <1>1, <1>3, <1>5, <1>6, <1>7, <1>9, HandlerMoves

LEMMA JoinAccountsBooks ==
    ASSUME IInv, IInv', BookInv, NEW h \in Handlers, JoinAccounts(h)
    PROVE  BookInv'
<1>1. /\ hpc[h] = "joined" /\ HGoto(h, "open") /\ totalBytes' = totalBytes + LineLen
      /\ UNCHANGED <<linked, size, expired, body, streamBytes, dpc, found,
                     orphaned, torn, diskErrors>>
  BY DEF JoinAccounts, dirVars, cleanerVars, history
<1>2. hpc'[h] = "open" /\ \A k \in Handlers : k # h => hpc'[k] = hpc[k]
  BY <1>1, PlaceOf
<1>3. PICK f \in Files : TRUE
  BY StorageAssumption DEF Files
<1>4. /\ size[f] \in Int /\ LineLen \in Int /\ totalBytes \in Int
      /\ orphaned \in Int /\ torn \in Int
  BY Lengths DEF BookInv, Counters, IInv, Types
<1>5. Counters' /\ InHand'
  BY <1>1, <1>2, <1>4, HandStays DEF BookInv, Counters
<1>6. /\ Unaccounted(h) = LineLen /\ Unaccounted(h)' = 0
      /\ ToWrite(h) = 0 /\ ToWrite(h)' = 0
  BY <1>1, <1>2 DEF Unaccounted, ToWrite
<1>7. /\ (totalBytes' - totalBytes) + (Unaccounted(h)' - Unaccounted(h)) + (torn' - torn)
             = (size'[f] - size[f]) + (orphaned' - orphaned)
      /\ size'[f] + orphaned' + ToWrite(h)' <= size[f] + orphaned + ToWrite(h)
  BY <1>1, <1>4, <1>6
<1> QED
  BY <1>1, <1>2, <1>5, <1>7, HandlerMoves

LEMMA OpenBooks ==
    ASSUME IInv, IInv', BookInv, NEW h \in Handlers, OpenFile(h)
    PROVE  BookInv'
<1>1. /\ hpc[h] = "open" /\ HGoto(h, "stat") /\ linked' = linked \cup {tok[h]}
      /\ UNCHANGED <<size, expired, totalBytes, body, streamBytes, dpc, found,
                     orphaned, torn, diskErrors>>
  BY DEF OpenFile, cleanerVars, history
<1>2. hpc'[h] = "stat" /\ \A k \in Handlers : k # h => hpc'[k] = hpc[k]
  BY <1>1, PlaceOf
<1>3. Counters'
  BY <1>1 DEF BookInv, Counters
<1> QED
  BY <1>1, <1>2, <1>3, HandlerIdles

LEMMA StatBooks ==
    ASSUME IInv, IInv', BookInv, NEW h \in Handlers, StatSize(h)
    PROVE  BookInv'
<1>1. /\ hpc[h] = "stat" /\ HGoto(h, "ready") /\ tok[h] \in Files
      /\ streamBytes' = [streamBytes EXCEPT ![h] = size[tok[h]]]
      /\ UNCHANGED <<linked, size, expired, totalBytes, body, dpc, found,
                     orphaned, torn, diskErrors>>
  BY Kinds DEF StatSize, dirVars, cleanerVars, history, IInv, Types
<1>2. hpc'[h] = "ready" /\ \A k \in Handlers : k # h => hpc'[k] = hpc[k]
  BY <1>1, PlaceOf
<1>3. size[tok[h]] \in Nat
  BY <1>1 DEF IInv, Types
<1>4. Counters'
  BY <1>1, <1>3 DEF BookInv, Counters
<1> QED
  BY <1>1, <1>2, <1>4, HandlerIdles

LEMMA EndsBooks ==
    ASSUME IInv, IInv', BookInv, NEW h \in Handlers, StreamEnds(h)
    PROVE  BookInv'
<1>1. /\ hpc[h] \in {"open", "ready"} /\ Returns(h)
      /\ UNCHANGED <<linked, size, expired, totalBytes, dpc, found,
                     orphaned, torn, diskErrors>>
  BY DEF StreamEnds, dirVars, cleanerVars, history
<1>2. /\ hpc'[h] = "idle" /\ \A k \in Handlers : k # h => hpc'[k] = hpc[k]
      /\ \A k \in Handlers : k # h => body'[k] = body[k]
      /\ streamBytes' = [streamBytes EXCEPT ![h] = 0]
  BY <1>1, PlaceOf DEF Returns, IInv, Types
<1>3. Counters'
  BY <1>1, <1>2 DEF BookInv, Counters
<1> QED
  BY <1>1, <1>2, <1>3, HandlerIdles

LEMMA ChecksBooks ==
    ASSUME IInv, IInv', BookInv, NEW h \in Handlers, NEW n \in BodySizes, AppendChecks(h, n)
    PROVE  BookInv'
<1>1. /\ hpc[h] = "ready" /\ HGoto(h, "checked") /\ ~TotalFull(DiskLen(n))
      /\ body' = [body EXCEPT ![h] = n]
      /\ UNCHANGED <<linked, size, expired, totalBytes, streamBytes, dpc, found,
                     orphaned, torn, diskErrors>>
  BY DEF AppendChecks, dirVars, cleanerVars, history
<1>2. /\ hpc'[h] = "checked" /\ \A k \in Handlers : k # h => hpc'[k] = hpc[k]
      /\ body'[h] = n /\ \A k \in Handlers : k # h => body'[k] = body[k]
  BY <1>1, PlaceOf DEF IInv, Types
<1>3. Counters' /\ InHand'
  BY <1>1, <1>2, HandStays DEF BookInv, Counters
<1>4. /\ Unaccounted(h) = 0 /\ ToWrite(h) = 0 /\ Unaccounted(h)' = 0
      /\ ToWrite(h)' = DiskLen(n) /\ DiskLen(n) \in Nat
  BY <1>1, <1>2, Lengths DEF Unaccounted, ToWrite
<1> QED
  BY <1>1, <1>2, <1>3, <1>4, CheckedBound

\* The record lands, in the directory or in a file that has no path any more.
LEMMA AppendWritesBooks ==
    ASSUME IInv, IInv', BookInv, NEW h \in Handlers, AppendWrites(h)
    PROVE  BookInv'
<1> DEFINE f == tok[h]
           n == DiskLen(body[h])
<1>1. /\ hpc[h] = "checked" /\ f \in Files /\ HGoto(h, "written")
      /\ IF attached[h] THEN Grown(f, n) /\ orphaned' = orphaned
                        ELSE orphaned' = orphaned + n /\ UNCHANGED <<linked, size, expired>>
      /\ UNCHANGED <<totalBytes, body, streamBytes, dpc, found, torn, diskErrors>>
  BY Kinds DEF AppendWrites, dirVars, cleanerVars, IInv, Types
<1>2. hpc'[h] = "written" /\ \A k \in Handlers : k # h => hpc'[k] = hpc[k]
  BY <1>1, PlaceOf
<1>3. /\ n \in Nat /\ size[f] \in Int /\ size'[f] \in Int /\ totalBytes \in Int
      /\ orphaned \in Nat /\ torn \in Int
  BY <1>1, Lengths DEF BookInv, Counters, IInv, Types
<1>4. /\ Unaccounted(h) = 0 /\ Unaccounted(h)' = n
      /\ ToWrite(h) = n /\ ToWrite(h)' = 0
  BY <1>1, <1>2 DEF Unaccounted, ToWrite
<1> HIDE DEF f, n
<1>5. /\ size'[f] + orphaned' = size[f] + orphaned + n
      /\ \A g \in Files : g # f => size'[g] = size[g]
      /\ orphaned' \in Nat /\ expired' \subseteq linked'
  <2>1. CASE attached[h]
    <3>1. /\ linked' = linked \cup {f} /\ expired' = expired \ {f}
          /\ size'[f] = size[f] + n /\ orphaned' = orphaned
          /\ \A g \in Files : g # f => size'[g] = size[g]
      BY <1>1, <2>1 DEF Grown, IInv, Types
    <3> QED
      BY <1>3, <3>1 DEF BookInv, Counters
  <2>2. CASE ~attached[h]
    <3>1. orphaned' = orphaned + n /\ UNCHANGED <<linked, size, expired>>
      BY <1>1, <2>2
    <3> QED
      BY <1>3, <3>1 DEF BookInv, Counters
  <2> QED
    BY <2>1, <2>2
<1>6. InHand'
  BY <1>1, <1>2, HandStays DEF BookInv, InHand
<1>7. Counters'
  BY <1>1, <1>5 DEF BookInv, Counters
<1>8. /\ (totalBytes' - totalBytes) + (Unaccounted(h)' - Unaccounted(h)) + (torn' - torn)
             = (size'[f] - size[f]) + (orphaned' - orphaned)
      /\ size'[f] + orphaned' + ToWrite(h)' <= size[f] + orphaned + ToWrite(h)
  BY <1>1, <1>3, <1>4, <1>5
<1>9. f \in Files
  BY <1>1
<1> QED
  BY <1>1, <1>2, <1>5, <1>6, <1>7, <1>8, <1>9, HandlerMoves

LEMMA AppendFailsBooks ==
    ASSUME IInv, IInv', BookInv, NEW h \in Handlers, AppendFails(h)
    PROVE  BookInv'
<1> DEFINE f == tok[h]
           n == DiskLen(body[h])
<1>1. /\ hpc[h] = "checked" /\ f \in Files /\ HGoto(h, "ready") /\ n \in Nat
      /\ body' = [body EXCEPT ![h] = 0]
      /\ diskErrors < MaxDiskErrors /\ diskErrors' = diskErrors + 1
      /\ UNCHANGED <<totalBytes, streamBytes, dpc, found, orphaned>>
  BY Kinds, Lengths DEF AppendFails, cleanerVars, IInv, Types
<1>2. PICK m \in {0, n - 1} :
          IF attached[h] /\ m > 0 THEN Grown(f, m) /\ torn' = torn + m
                                  ELSE UNCHANGED <<dirVars, torn>>
  BY DEF AppendFails
<1>3. m \in Int
  BY <1>1
<1> HIDE DEF f, n
<1>4. /\ hpc'[h] = "ready" /\ \A k \in Handlers : k # h => hpc'[k] = hpc[k]
      /\ \A k \in Handlers : k # h => body'[k] = body[k]
  BY <1>1, PlaceOf DEF IInv, Types
<1>5. /\ size[f] \in Int /\ torn \in Nat /\ diskErrors \in 0..MaxDiskErrors
      /\ MaxDiskErrors \in Nat /\ totalBytes \in Int /\ orphaned \in Nat
  BY <1>1, StorageAssumption DEF BookInv, Counters, IInv, Types
<1>6. /\ \A g \in Files : g # f => size'[g] = size[g]
      /\ (torn' - torn) = (size'[f] - size[f]) /\ torn' \in Nat
      /\ expired' \subseteq linked'
  <2>1. CASE attached[h] /\ m > 0
    <3>1. /\ linked' = linked \cup {f} /\ expired' = expired \ {f}
          /\ size'[f] = size[f] + m /\ torn' = torn + m
          /\ \A g \in Files : g # f => size'[g] = size[g]
      BY <1>1, <1>2, <2>1 DEF Grown, IInv, Types
    <3> QED
      BY <1>3, <1>5, <2>1, <3>1 DEF BookInv, Counters
  <2>2. CASE ~(attached[h] /\ m > 0)
    <3>1. UNCHANGED <<linked, size, expired, torn>>
      BY <1>2, <2>2 DEF dirVars
    <3> QED
      BY <1>5, <3>1 DEF BookInv, Counters
  <2> QED
    BY <2>1, <2>2
<1>7. Counters'
  BY <1>1, <1>5, <1>6 DEF BookInv, Counters
<1>8. InHand'
  BY <1>4, HandStays DEF BookInv
<1>9. Unaccounted(h) = 0 /\ Unaccounted(h)' = 0
  BY <1>1, <1>4 DEF Unaccounted
<1>10. /\ (totalBytes' - totalBytes) + (Unaccounted(h)' - Unaccounted(h)) + (torn' - torn)
              = (size'[f] - size[f]) + (orphaned' - orphaned)
       /\ diskErrors' # 0
  <2>1. size'[f] \in Int
    BY <1>1 DEF IInv, Types
  <2> QED
    BY <1>1, <1>5, <1>6, <1>9, <2>1
<1> QED
  BY <1>1, <1>4, <1>6, <1>7, <1>8, <1>10, HandlerMoves

LEMMA AppendAccountsBooks ==
    ASSUME IInv, IInv', BookInv, NEW h \in Handlers, AppendAccounts(h)
    PROVE  BookInv'
<1> DEFINE n == DiskLen(body[h])
<1>1. /\ hpc[h] = "written" /\ HGoto(h, "ready") /\ totalBytes' = totalBytes + n
      /\ streamBytes' = [streamBytes EXCEPT ![h] = streamBytes[h] + body[h]]
      /\ body' = [body EXCEPT ![h] = 0]
      /\ UNCHANGED <<linked, size, expired, dpc, found, orphaned, torn, diskErrors>>
  BY DEF AppendAccounts, dirVars, cleanerVars, history, BookInv, Counters
<1>2. /\ hpc'[h] = "ready" /\ \A k \in Handlers : k # h => hpc'[k] = hpc[k]
      /\ \A k \in Handlers : k # h => body'[k] = body[k]
  BY <1>1, PlaceOf DEF IInv, Types
<1>3. PICK f \in Files : TRUE
  BY StorageAssumption DEF Files
<1>4. /\ size[f] \in Int /\ n \in Nat /\ totalBytes \in Int
      /\ orphaned \in Int /\ torn \in Int /\ body[h] \in Nat /\ streamBytes[h] \in Nat
  BY Lengths DEF BookInv, Counters, IInv, Types
<1>5. Counters'
  BY <1>1, <1>4 DEF BookInv, Counters
<1>6. InHand'
  BY <1>2, HandStays DEF BookInv
<1>7. /\ Unaccounted(h) = n /\ Unaccounted(h)' = 0
      /\ ToWrite(h) = 0 /\ ToWrite(h)' = 0
  BY <1>1, <1>2 DEF Unaccounted, ToWrite
<1> HIDE DEF n
<1>8. /\ (totalBytes' - totalBytes) + (Unaccounted(h)' - Unaccounted(h)) + (torn' - torn)
             = (size'[f] - size[f]) + (orphaned' - orphaned)
      /\ size'[f] + orphaned' + ToWrite(h)' <= size[f] + orphaned + ToWrite(h)
  BY <1>1, <1>4, <1>7
<1> QED
  BY <1>1, <1>2, <1>5, <1>6, <1>8, HandlerMoves

-----------------------------------------------------------------------------
\* A step of one cleaner: what it takes out of the directory it takes out of the
\* total, or has yet to.
LEMMA CleanerMoves ==
    ASSUME IInv, IInv', BookInv, NEW d \in Cleaners, NEW f \in Files,
           \A e \in Cleaners : e # d => dpc'[e] = dpc[e] /\ found'[e] = found[e],
           \A g \in Files : g # f => size'[g] = size[g],
           linked' = linked \/ linked' = linked \ {f}, expired' \subseteq expired \cap linked',
           UNCHANGED <<hpc, body, streamBytes, orphaned, torn, diskErrors>>,
           size'[f] <= size[f], totalBytes' \in Int,
           (totalBytes' - totalBytes) + (size[f] - size'[f])
               = Unsubtracted(d)' - Unsubtracted(d)
    PROVE  BookInv'
<1>1. EntriesFit /\ EntriesFit' /\ SumsFit /\ SumsFit' /\ Counters
  BY Entries, Sums, PTL DEF BookInv
<1>2. /\ DirBytes \in Int /\ InFlight \in Int /\ Removing \in Int /\ ToCome \in Int
      /\ totalBytes \in Int /\ totalBytes' \in Int /\ orphaned \in Int
      /\ torn \in Int /\ size[f] \in Int /\ size'[f] \in Int
      /\ Unsubtracted(d) \in Int /\ Unsubtracted(d)' \in Int
  BY <1>1 DEF EntriesFit, SumsFit, Counters, IInv, Types
<1>3. /\ DirBytes' = DirBytes - size[f] + size'[f]
      /\ Removing' = Removing - Unsubtracted(d) + Unsubtracted(d)'
      /\ InFlight' = InFlight /\ ToCome' = ToCome
  BY CleanerBooks
<1>4. /\ Drift = totalBytes - DirBytes + InFlight - Removing - orphaned + torn
      /\ Drift' = totalBytes' - DirBytes' + InFlight' - Removing' - orphaned + torn
  BY DEF Drift
<1>5. Drift' = Drift
  BY <1>2, <1>3, <1>4
<1>6. DirBytes' + orphaned' + ToCome' <= DirBytes + orphaned + ToCome
  BY <1>2, <1>3
<1>7. Counters' /\ InHand'
  BY <1>1 DEF Counters, InHand, BookInv
<1> QED
  BY <1>5, <1>6, <1>7, Balanced

\* Nothing that the books count is touched.
LEMMA CleanerIdles ==
    ASSUME IInv, IInv', BookInv, NEW d \in Cleaners,
           \A e \in Cleaners : e # d => dpc'[e] = dpc[e] /\ found'[e] = found[e],
           dpc[d] # "removed", dpc'[d] # "removed",
           UNCHANGED <<linked, size, expired, totalBytes, hpc, body, streamBytes,
                       orphaned, torn, diskErrors>>
    PROVE  BookInv'
<1>1. PICK f \in Files : TRUE
  BY StorageAssumption DEF Files
<1>2. Unsubtracted(d) = 0 /\ Unsubtracted(d)' = 0
  BY DEF Unsubtracted
<1>3. /\ size[f] \in Int /\ totalBytes \in Int
      /\ expired' \subseteq expired \cap linked'
  BY DEF BookInv, Counters, IInv, Types
<1>4. /\ (totalBytes' - totalBytes) + (size[f] - size'[f])
               = Unsubtracted(d)' - Unsubtracted(d)
      /\ size'[f] <= size[f]
  BY <1>2, <1>3
<1> QED
  BY <1>3, <1>4, CleanerMoves

\* A cleaner's place after a step.
LEMMA CleanerPlace ==
    ASSUME IInv, NEW d \in Cleaners, NEW pc, DGoto(d, pc)
    PROVE  dpc'[d] = pc /\ \A e \in Cleaners : e # d => dpc'[e] = dpc[e]
  BY DEF DGoto, IInv, Types

LEMMA CleanerStepBooks ==
    ASSUME IInv, IInv', BookInv, NEW d \in Cleaners, CleanerStep(d)
    PROVE  BookInv'
<1>1. ASSUME NEW t \in Tokens, DeleteRequest(d, t) PROVE BookInv'
  <2>1. /\ dpc[d] = "idle" /\ DGoto(d, "lock")
        /\ UNCHANGED <<linked, size, expired, totalBytes, hpc, body, streamBytes, found,
                       orphaned, torn, diskErrors>>
    BY <1>1 DEF DeleteRequest, dirVars, handlerVars, history
  <2> QED
    BY <2>1, CleanerPlace, CleanerIdles
<1>2. CASE DeleteStats(d)
  <2>1. /\ dpc[d] = "lock" /\ DGoto(d, "found")
        /\ \A e \in Cleaners : e # d => found'[e] = found[e]
        /\ UNCHANGED <<linked, size, expired, totalBytes, hpc, body, streamBytes,
                       orphaned, torn, diskErrors>>
    BY <1>2 DEF DeleteStats, dirVars, handlerVars, history, IInv, Types
  <2> QED
    BY <2>1, CleanerPlace, CleanerIdles
<1>3. CASE DeleteRemoves(d)
  <2> DEFINE f == target[d]
  <2>1. /\ dpc[d] = "found" /\ DGoto(d, "removed") /\ f \in Files
        /\ linked' = linked \ {f} /\ expired' = expired \ {f}
        /\ size' = [size EXCEPT ![f] = 0]
        /\ UNCHANGED <<totalBytes, hpc, body, streamBytes, found, orphaned, torn, diskErrors>>
    BY <1>3 DEF DeleteRemoves, history, IInv, Types
  <2>2. dpc'[d] = "removed" /\ \A e \in Cleaners : e # d => dpc'[e] = dpc[e]
    BY <2>1, CleanerPlace
  <2>3. size[f] = IF found[d] >= 0 THEN found[d] ELSE 0
    BY <2>1 DEF IInv, FoundIsCurrent
  <2>4. Unsubtracted(d) = 0 /\ Unsubtracted(d)' = size[f]
    BY <2>1, <2>2, <2>3 DEF Unsubtracted
  <2> HIDE DEF f
  <2>5. /\ size[f] \in Nat /\ size'[f] = 0 /\ totalBytes \in Int
        /\ \A g \in Files : g # f => size'[g] = size[g]
        /\ expired' \subseteq expired \cap linked'
    BY <2>1 DEF BookInv, Counters, IInv, Types
  <2>6. /\ (totalBytes' - totalBytes) + (size[f] - size'[f])
                = Unsubtracted(d)' - Unsubtracted(d)
        /\ size'[f] <= size[f]
    BY <2>1, <2>4, <2>5
  <2>7. \A e \in Cleaners : e # d => dpc'[e] = dpc[e] /\ found'[e] = found[e]
    BY <2>1, <2>2
  <2>8. totalBytes' \in Int /\ f \in Files
    BY <2>1, <2>5
  <2> QED
    BY <2>1, <2>5, <2>6, <2>7, <2>8, CleanerMoves
<1>4. CASE DeleteFails(d)
  <2>1. /\ dpc[d] = "found" /\ DGoto(d, "idle")
        /\ \A e \in Cleaners : e # d => found'[e] = found[e]
        /\ UNCHANGED <<linked, size, expired, totalBytes, hpc, body, streamBytes,
                       orphaned, torn, diskErrors>>
    BY <1>4 DEF DeleteFails, dirVars, handlerVars, history, IInv, Types
  <2> QED
    BY <2>1, CleanerPlace, CleanerIdles
<1>5. CASE DeleteSubtracts(d)
  <2>1. /\ dpc[d] = "removed" /\ DGoto(d, "idle")
        /\ totalBytes' = IF found[d] >= 0 THEN totalBytes - found[d] ELSE totalBytes
        /\ \A e \in Cleaners : e # d => found'[e] = found[e]
        /\ UNCHANGED <<linked, size, expired, hpc, body, streamBytes,
                       orphaned, torn, diskErrors>>
    BY <1>5 DEF DeleteSubtracts, dirVars, handlerVars, history, IInv, Types
  <2>2. dpc'[d] = "idle" /\ \A e \in Cleaners : e # d => dpc'[e] = dpc[e]
    BY <2>1, CleanerPlace
  <2>3. PICK f \in Files : TRUE
    BY StorageAssumption DEF Files
  <2>4. /\ size[f] \in Nat /\ totalBytes \in Int /\ found[d] \in Int
        /\ expired' \subseteq expired \cap linked'
    BY <2>1 DEF BookInv, Counters, IInv, Types
  <2>5. Unsubtracted(d) = (IF found[d] >= 0 THEN found[d] ELSE 0) /\ Unsubtracted(d)' = 0
    BY <2>1, <2>2 DEF Unsubtracted
  <2>6. /\ (totalBytes' - totalBytes) + (size[f] - size'[f])
                = Unsubtracted(d)' - Unsubtracted(d)
        /\ size'[f] <= size[f] /\ totalBytes' \in Int
    BY <2>1, <2>4, <2>5
  <2>7. /\ \A e \in Cleaners : e # d => dpc'[e] = dpc[e] /\ found'[e] = found[e]
        /\ \A g \in Files : g # f => size'[g] = size[g]
    BY <2>1, <2>2
  <2> QED
    BY <2>1, <2>4, <2>6, <2>7, CleanerMoves
<1> QED
  BY <1>1, <1>2, <1>3, <1>4, <1>5 DEF CleanerStep

\* Steps that leave the sums as they are.
LEMMA OthersBooks ==
    ASSUME IInv, IInv', BookInv, SweepStep \/ (\E f \in Files : Ages(f)) \/ UNCHANGED storageVars
    PROVE  BookInv'
<1>1. ASSUME UNCHANGED <<linked, size, totalBytes, hpc, body, streamBytes, found,
                         orphaned, torn, diskErrors>>,
             dpc' = dpc, expired' \subseteq linked'
      PROVE  BookInv'
  <2>1. UNCHANGED <<DirBytes, InFlight, Removing, ToCome>>
    BY <1>1 DEF DirBytes, InFlight, Removing, ToCome, Unaccounted, Unsubtracted, ToWrite
  <2>2. LedgerExact' /\ TotalBound'
    BY <1>1, <2>1 DEF LedgerExact, TotalBound, BookInv, InFlight, Removing
  <2> QED
    BY <1>1, <2>2 DEF BookInv, Counters, InHand, NoTails
<1>2. CASE SweepStep
  <2>1. CASE dpc' = dpc
    <3>1. UNCHANGED <<linked, size, totalBytes, hpc, body, streamBytes, found,
                      orphaned, torn, diskErrors, expired>>
      BY <1>2 DEF SweepStep, SweepBegins, SweepSkips, SweepTakes, dirVars, handlerVars, history
    <3> QED
      BY <1>1, <2>1, <3>1 DEF BookInv, Counters
  <2>2. CASE dpc' # dpc
    <3>1. PICK f \in Files : SweepTakes(f)
      BY <1>2, <2>2 DEF SweepStep, SweepBegins, SweepSkips
    <3>2. /\ dpc[Sweeper] = "idle" /\ DGoto(Sweeper, "lock") /\ Sweeper \in Cleaners
          /\ UNCHANGED <<linked, size, expired, totalBytes, hpc, body, streamBytes, found,
                         orphaned, torn, diskErrors>>
      BY <3>1, Kinds DEF SweepTakes, dirVars, handlerVars, history
    <3> QED
      BY <3>2, CleanerPlace, CleanerIdles
  <2> QED
    BY <2>1, <2>2
<1>3. ASSUME NEW f \in Files, Ages(f) PROVE BookInv'
  BY <1>1, <1>3 DEF Ages, BookInv, Counters, handlerVars, cleanerVars, history
<1>4. CASE UNCHANGED storageVars
  BY <1>1, <1>4 DEF BookInv, Counters, storageVars, dirVars, handlerVars, cleanerVars, history
<1> QED
  BY <1>2, <1>3, <1>4

\* New counts what is there, and nothing is under way.
LEMMA RestartBooks ==
    ASSUME IInv, IInv', BookInv, Restart
    PROVE  BookInv'
<1>1. /\ hpc' = [h \in Handlers |-> "idle"] /\ dpc' = [d \in Cleaners |-> "idle"]
      /\ streamBytes' = [h \in Handlers |-> 0]
      /\ totalBytes' = DirBytes /\ orphaned' = 0 /\ torn' = 0
      /\ UNCHANGED <<linked, size, expired, diskErrors>>
  BY DEF Restart, dirVars
<1>2. SumsFit /\ SumsFit' /\ Counters
  BY Sums, PTL DEF BookInv
<1>3. Counters' /\ InHand' /\ NoTails'
  BY <1>1, <1>2 DEF Counters, SumsFit, InHand, NoTails
<1> DEFINE u == [k \in Handlers |-> Unaccounted(k)]
           w == [k \in Handlers |-> ToWrite(k)]
           v == [d \in Cleaners |-> Unsubtracted(d)]
<1>4. /\ \A h \in Handlers : u'[h] = 0
      /\ \A h \in Handlers : w'[h] = 0
      /\ \A d \in Cleaners : v'[d] = 0
  BY <1>1 DEF Unaccounted, ToWrite, Unsubtracted
<1>5. /\ InFlight' = SumFunctionOnSet(u', Handlers) /\ ToCome' = SumFunctionOnSet(w', Handlers)
      /\ Removing' = SumFunctionOnSet(v', Cleaners)
  BY <1>2 DEF SumsFit
<1> HIDE DEF u, w, v
<1>6. InFlight' = 0 /\ ToCome' = 0 /\ Removing' = 0
  BY <1>4, <1>5, FiniteKinds, SumZero
<1>7. DirBytes' = DirBytes
  BY <1>1 DEF DirBytes
<1>8. DirBytes \in Nat /\ orphaned \in Nat /\ ToCome \in Nat
  BY <1>2 DEF SumsFit, Counters
<1>9. LedgerExact'
  BY <1>1, <1>6, <1>7, <1>8 DEF LedgerExact, InFlight, Removing
<1>10. TotalBound'
  <2> DEFINE bound == MaxTotalBytes + (Cardinality(Handlers) - 1) * Largest
  <2>1. bound \in Int
    <3>1. Cardinality(Handlers) \in Int /\ Largest \in Int /\ MaxTotalBytes \in Int
      BY FiniteKinds, FS_CardinalityType, LargestIs, StorageAssumption
    <3> QED
      BY <3>1
  <2> SUFFICES ASSUME diskErrors' = 0, MaxTotalBytes > 0
               PROVE  DirBytes' + orphaned' + ToCome' <= bound
    BY DEF TotalBound
  <2>2. DirBytes + orphaned + ToCome <= bound
    BY <1>1 DEF BookInv, TotalBound
  <2> HIDE DEF bound
  <2> QED
    BY <1>1, <1>6, <1>7, <1>8, <2>1, <2>2
<1> QED
  BY <1>3, <1>9, <1>10 DEF BookInv

\* Nothing is written, accounted or removed yet.
LEMMA BooksInit == Init /\ IInv => BookInv
<1> SUFFICES ASSUME Init, IInv PROVE BookInv
  OBVIOUS
<1> DEFINE u == [k \in Handlers |-> Unaccounted(k)]
           w == [k \in Handlers |-> ToWrite(k)]
           v == [d \in Cleaners |-> Unsubtracted(d)]
<1>1. /\ \A h \in Handlers : u[h] = 0
      /\ \A h \in Handlers : w[h] = 0
      /\ \A d \in Cleaners : v[d] = 0
      /\ \A f \in Files : size[f] = 0
  BY DEF Init, Unaccounted, ToWrite, Unsubtracted
<1>2. /\ DirBytes = SumFunctionOnSet(size, Files)
      /\ InFlight = SumFunctionOnSet(u, Handlers) /\ ToCome = SumFunctionOnSet(w, Handlers)
      /\ Removing = SumFunctionOnSet(v, Cleaners)
  BY Sums DEF SumsFit
<1> HIDE DEF u, w, v
<1>3. DirBytes = 0 /\ InFlight = 0 /\ ToCome = 0 /\ Removing = 0
  BY <1>1, <1>2, FiniteKinds, SumZero
<1>4. totalBytes = 0 /\ orphaned = 0 /\ torn = 0 /\ diskErrors = 0
  BY DEF Init
<1>5. Counters /\ InHand /\ NoTails
  BY <1>4, StorageAssumption DEF Init, Counters, InHand, NoTails
<1>6. LedgerExact
  BY <1>3, <1>4 DEF LedgerExact, InFlight, Removing
<1>7. TotalBound
  <2>1. Cardinality(Handlers) - 1 \in Nat /\ Largest \in Nat /\ MaxTotalBytes \in Nat
    <3>1. Cardinality(Handlers) \in Nat /\ Cardinality(Handlers) # 0
      BY FiniteKinds, FS_CardinalityType, FS_EmptySet, StorageAssumption
    <3> QED
      BY <3>1, LargestIs, StorageAssumption
  <2>2. (Cardinality(Handlers) - 1) * Largest \in Nat
    BY <2>1
  <2> QED
    BY <1>3, <1>4, <2>1, <2>2 DEF TotalBound
<1> QED
  BY <1>5, <1>6, <1>7 DEF BookInv

LEMMA BooksStep == IInv /\ IInv' /\ BookInv /\ [Next]_storageVars => BookInv'
<1> SUFFICES ASSUME IInv, IInv', BookInv, [Next]_storageVars PROVE BookInv'
  OBVIOUS
<1>1. ASSUME NEW h \in Handlers, HandlerStep(h) PROVE BookInv'
  BY <1>1, ConnectsBooks, JoinWritesBooks, JoinFailsBooks, JoinAccountsBooks, OpenBooks,
     StatBooks, ChecksBooks, AppendWritesBooks, AppendFailsBooks, AppendAccountsBooks,
     EndsBooks DEF HandlerStep
<1>2. ASSUME NEW d \in Cleaners, CleanerStep(d) PROVE BookInv'
  BY <1>2, CleanerStepBooks
<1>3. CASE SweepStep \/ (\E f \in Files : Ages(f)) \/ UNCHANGED storageVars
  BY <1>3, OthersBooks
<1>4. CASE Restart
  BY <1>4, RestartBooks
<1> QED
  BY <1>1, <1>2, <1>3, <1>4 DEF Next

-----------------------------------------------------------------------------
\* The stream cap.  The room a writer has left in a log: what it may still add
\* before its own count reaches the cap, with a prefix for every body.

Shortest == Min(BodySizes)
Still(r) == r + 3 * (r \div Shortest)

\* What a writer counts, with the frame that is in the file already.
Counted(h) == streamBytes[h] + (IF hpc[h] = "written" THEN body[h] ELSE 0)

Room(h, t) ==
    IF /\ hpc[h] \in {"ready", "checked", "written"}
       /\ attached[h] /\ tok[h] = t /\ Counted(h) < MaxStreamBytes
    THEN Still(MaxStreamBytes - Counted(h))
    ELSE 0

\* A frame past the check fits.
FitsCap ==
    \A h \in Handlers : hpc[h] \in {"checked", "written"} /\ MaxStreamBytes > 0 =>
        streamBytes[h] + body[h] <= MaxStreamBytes

Rooms(t) == SumFunction([h \in Handlers |-> Room(h, t)])

\* A log with all that its writers may still write to it.
StreamBound ==
    diskErrors = 0 /\ MaxStreamBytes > 0 =>
        \A t \in Tokens : size[t] + Rooms(t) <= Cardinality(Handlers) * WriterMost

CapInv == FitsCap /\ StreamBound

LEMMA ShortestIs ==
    /\ Shortest \in Nat \ {0}
    /\ \A n \in BodySizes : Shortest <= n
<1>1. BodySizes # {} /\ BodySizes \subseteq Nat /\ BodySizes \subseteq Nat \ {0}
  BY StorageAssumption
<1>2. \E x \in BodySizes : \A y \in BodySizes : x <= y
  BY <1>1, NatLeast
<1>3. Shortest \in BodySizes /\ \A y \in BodySizes : Shortest <= y
  BY <1>2, Zenon DEF Shortest, Min
<1> QED
  BY <1>1, <1>3

\* What is left after one more record, prefix included.
LEMMA StillAfter ==
    /\ \A r \in Nat : Still(r) \in Nat /\ r <= Still(r)
    /\ \A r \in Nat, n \in BodySizes : n <= r => DiskLen(n) + Still(r - n) <= Still(r)
    /\ \A r \in Nat, q \in Nat : q <= r => q + Still(r - q) <= Still(r)
<1>1. Shortest \in Nat \ {0} /\ \A n \in BodySizes : Shortest <= n
  BY ShortestIs
<1> HIDE DEF Shortest
<1>2. ASSUME NEW r \in Nat PROVE r \div Shortest \in Nat
  BY <1>1
<1>3. \A r \in Nat : Still(r) \in Nat /\ r <= Still(r)
  BY <1>2 DEF Still
<1>4. ASSUME NEW r \in Nat, NEW n \in BodySizes, n <= r
      PROVE  DiskLen(n) + Still(r - n) <= Still(r)
  <2> DEFINE q == r \div Shortest
             p == (r - n) \div Shortest
  <2>1. n \in Nat /\ Shortest <= n
    BY <1>1, StorageAssumption
  <2>2. r - n \in Nat /\ q \in Nat /\ p \in Nat
    BY <1>2, <1>4, <2>1
  <2>3. p + 1 <= q
    BY <1>1, <1>4, <2>1, DivStep
  <2>4. Still(r) = r + 3 * q /\ Still(r - n) = (r - n) + 3 * p
    BY DEF Still
  <2>5. DiskLen(n) <= n + 3 /\ DiskLen(n) \in Nat
    BY <2>1 DEF DiskLen, HeaderLen
  <2> HIDE DEF q, p
  <2> QED
    BY <2>1, <2>2, <2>3, <2>4, <2>5
<1>5. ASSUME NEW r \in Nat, NEW q \in Nat, q <= r
      PROVE  q + Still(r - q) <= Still(r)
  <2> DEFINE a == r \div Shortest
             b == (r - q) \div Shortest
  <2>1. r - q \in Nat /\ a \in Nat /\ b \in Nat
    BY <1>2, <1>5
  <2>2. b <= a
    BY <1>1, <1>5
  <2>3. Still(r) = r + 3 * a /\ Still(r - q) = (r - q) + 3 * b
    BY DEF Still
  <2> HIDE DEF a, b
  <2> QED
    BY <2>1, <2>2, <2>3
<1> QED
  BY <1>3, <1>4, <1>5

LEMMA WriterMostIs == WriterMost = Still(MaxStreamBytes) /\ WriterMost \in Nat
<1>1. MaxStreamBytes \in Nat
  BY StorageAssumption
<1> QED
  BY <1>1, StillAfter DEF WriterMost, Still, Shortest

RoomsFit ==
    \A t \in Tokens :
        /\ \A h \in Handlers : Room(h, t) \in Nat /\ Room(h, t) <= WriterMost
        /\ Rooms(t) = SumFunctionOnSet([h \in Handlers |-> Room(h, t)], Handlers)
        /\ Rooms(t) \in Nat

LEMMA RoomSums == IInv /\ Counters => RoomsFit
<1> SUFFICES ASSUME IInv, Counters, NEW t \in Tokens
             PROVE  /\ \A h \in Handlers : Room(h, t) \in Nat /\ Room(h, t) <= WriterMost
                    /\ Rooms(t) = SumFunctionOnSet([h \in Handlers |-> Room(h, t)], Handlers)
                    /\ Rooms(t) \in Nat
  BY DEF RoomsFit
<1>1. ASSUME NEW h \in Handlers PROVE Room(h, t) \in Nat /\ Room(h, t) <= WriterMost
  <2>1. Counted(h) \in Nat /\ MaxStreamBytes \in Nat
    <3>1. /\ body[h] \in Nat /\ MaxStreamBytes \in Nat
      BY Lengths, StorageAssumption DEF IInv, Types
    <3>2. streamBytes[h] \in Nat
      BY DEF Counters
    <3> QED
      BY <3>1, <3>2 DEF Counted
  <2>2. CASE Counted(h) < MaxStreamBytes
    <3>1. MaxStreamBytes - Counted(h) \in Nat /\ Counted(h) <= MaxStreamBytes
      BY <2>1, <2>2
    <3>2. /\ Still(MaxStreamBytes - Counted(h)) \in Nat
          /\ Counted(h) + Still(MaxStreamBytes - Counted(h)) <= WriterMost
      BY <2>1, <3>1, StillAfter, WriterMostIs
    <3>3. Room(h, t) \in {0, Still(MaxStreamBytes - Counted(h))}
      BY DEF Room
    <3> HIDE DEF Room, Still, Counted
    <3> QED
      BY <2>1, <3>2, <3>3, WriterMostIs
  <2>3. CASE ~(Counted(h) < MaxStreamBytes)
    BY <2>3, WriterMostIs DEF Room
  <2> QED
    BY <2>2, <2>3
<1> DEFINE a == [h \in Handlers |-> Room(h, t)]
<1>2. Rooms(t) = SumFunctionOnSet(a, Handlers)
  BY DEF Rooms, SumFunction
<1>3. \A h \in Handlers : a[h] \in Nat
  BY <1>1
<1> HIDE DEF a
<1>4. Rooms(t) \in Nat
  BY <1>2, <1>3, FiniteKinds, SumNat
<1> QED
  BY <1>1, <1>2, <1>4 DEF a

\* A step of one handler that uses up its room by as much as it writes.
LEMMA RoomMoves ==
    ASSUME IInv, IInv', Counters, Counters', StreamBound, NEW h \in Handlers,
           diskErrors' = 0 =>
               /\ diskErrors = 0
               /\ \A t \in Tokens :
                     /\ size'[t] + Room(h, t)' <= size[t] + Room(h, t)
                     /\ \A k \in Handlers : k # h => Room(k, t)' <= Room(k, t)
    PROVE  StreamBound'
<1> DEFINE most == Cardinality(Handlers) * WriterMost
<1>1. RoomsFit /\ RoomsFit'
  BY RoomSums, PTL
<1>2. most \in Nat
  BY FiniteKinds, FS_CardinalityType, WriterMostIs
<1> SUFFICES ASSUME diskErrors' = 0, MaxStreamBytes > 0, NEW t \in Tokens
             PROVE  size'[t] + Rooms(t)' <= most
  BY DEF StreamBound
<1>3. size[t] + Rooms(t) <= most
  BY DEF StreamBound
<1> HIDE DEF most
<1> DEFINE a == [k \in Handlers |-> Room(k, t)]
           b == [k \in Handlers |-> Room(k, t)']
           c == [k \in Handlers |-> IF k = h THEN b[k] ELSE a[k]]
<1>13. \A k \in Handlers : Room(k, t) \in Nat /\ Room(k, t)' \in Nat
  BY <1>1 DEF RoomsFit
<1>4. /\ \A k \in Handlers : a[k] \in Int /\ c[k] \in Int
      /\ \A k \in Handlers : b[k] \in Int /\ c[k] \in Int /\ b[k] <= c[k]
  <2>1. \A k \in Handlers : k # h => Room(k, t)' <= Room(k, t)
    OBVIOUS
  <2> QED
    BY <1>13, <2>1
<1>5. /\ Rooms(t) = SumFunctionOnSet(a, Handlers)
      /\ Rooms(t)' = SumFunctionOnSet(b, Handlers)
      /\ Rooms(t) \in Nat /\ Rooms(t)' \in Nat
  BY <1>1 DEF RoomsFit
<1>6. /\ c[h] = b[h] /\ \A k \in Handlers : k # h => c[k] = a[k]
      /\ a[h] = Room(h, t) /\ b[h] = Room(h, t)'
  OBVIOUS
<1> HIDE DEF a, b, c
<1>7. SumFunctionOnSet(c, Handlers) = SumFunctionOnSet(a, Handlers) - a[h] + c[h]
  <2>1. \A k \in Handlers : a[k] \in Int /\ c[k] \in Int
    BY <1>4
  <2>2. \A k \in Handlers : k # h => c[k] = a[k]
    BY <1>6
  <2> QED
    BY <2>1, <2>2, FiniteKinds, SumChanges
<1>8. SumFunctionOnSet(b, Handlers) <= SumFunctionOnSet(c, Handlers)
  BY <1>4, FiniteKinds, SumLeq
<1>9. size[t] \in Int /\ size'[t] \in Int
  BY Kinds DEF IInv, Types
<1>10. Room(h, t) \in Int /\ Room(h, t)' \in Int
  BY <1>13
<1>11. size'[t] + Room(h, t)' <= size[t] + Room(h, t)
  OBVIOUS
<1>12. Rooms(t)' <= Rooms(t) - Room(h, t) + Room(h, t)'
  BY <1>5, <1>6, <1>7, <1>8, <1>10
<1> QED
  BY <1>2, <1>3, <1>5, <1>9, <1>10, <1>11, <1>12

\* A handler that opens a log counts what it found there.
LEMMA RoomFound ==
    ASSUME IInv, IInv', Counters, Counters', StreamBound, NEW h \in Handlers, NEW t \in Tokens,
           diskErrors' = diskErrors, size' = size,
           Room(h, t) = 0,
           Room(h, t)' \in {0, IF size[t] < MaxStreamBytes THEN Still(MaxStreamBytes - size[t])
                                                          ELSE 0},
           \A s \in Tokens : s # t => Room(h, s)' <= Room(h, s),
           \A k \in Handlers, s \in Tokens : k # h => Room(k, s)' <= Room(k, s)
    PROVE  StreamBound'
<1> DEFINE most == Cardinality(Handlers) * WriterMost
<1>1. RoomsFit /\ RoomsFit'
  BY RoomSums, PTL
<1>2. /\ size[t] \in Nat /\ MaxStreamBytes \in Nat /\ WriterMost \in Nat
      /\ \A s \in Tokens : size[s] \in Int
  BY Kinds, WriterMostIs, StorageAssumption DEF IInv, Types
<1>3. \A k \in Handlers, s \in Tokens : Room(k, s) \in Nat /\ Room(k, s)' \in Nat
  BY <1>1 DEF RoomsFit
<1>4. CASE Room(h, t)' = 0
  <2>1. \A k \in Handlers, s \in Tokens : Room(k, s)' <= Room(k, s)
    BY <1>4, <1>3
  <2>2. \A s \in Tokens : size'[s] + Room(h, s)' <= size[s] + Room(h, s)
    BY <1>2, <1>3, <2>1
  <2> QED
    BY <2>1, <2>2, RoomMoves
<1>5. CASE Room(h, t)' # 0
  <2>1. /\ size[t] < MaxStreamBytes
        /\ Room(h, t)' = Still(MaxStreamBytes - size[t])
    BY <1>5
  <2>2. size[t] + Room(h, t)' <= WriterMost
    <3>1. size[t] + Still(MaxStreamBytes - size[t]) <= Still(MaxStreamBytes)
      BY <1>2, <2>1, StillAfter
    <3> QED
      BY <2>1, <3>1, WriterMostIs
  <2> SUFFICES ASSUME diskErrors' = 0, MaxStreamBytes > 0, NEW s \in Tokens
               PROVE  size'[s] + Rooms(s)' <= most
    BY DEF StreamBound
  <2> DEFINE a == [k \in Handlers |-> Room(k, s)]
             b == [k \in Handlers |-> Room(k, s)']
             c == [k \in Handlers |-> IF k = h THEN size[t] + b[k] ELSE b[k]]
             e == [k \in Handlers |-> WriterMost]
  <2>3. /\ Rooms(s) = SumFunctionOnSet(a, Handlers)
        /\ Rooms(s)' = SumFunctionOnSet(b, Handlers)
        /\ Rooms(s) \in Nat /\ Rooms(s)' \in Nat
    BY <1>1 DEF RoomsFit
  <2>4. most \in Nat
    BY FiniteKinds, FS_CardinalityType, <1>2
  <2>5. size[s] + Rooms(s) <= most
    BY DEF StreamBound
  <2>6. \A k \in Handlers : /\ a[k] \in Int /\ b[k] \in Int
                            /\ Room(k, s)' <= WriterMost
    <3>1. \A k \in Handlers : Room(k, s)' \in Nat /\ Room(k, s)' <= WriterMost'
      BY <1>1 DEF RoomsFit
    <3>2. WriterMost' = WriterMost
      BY DEF WriterMost
    <3> QED
      BY <1>3, <3>1, <3>2
  <2>7. /\ a[h] = Room(h, s) /\ b[h] = Room(h, s)'
        /\ \A k \in Handlers : a[k] = Room(k, s) /\ b[k] = Room(k, s)'
    OBVIOUS
  <2>8. CASE s = t
    <3>1. /\ \A k \in Handlers : e[k] = WriterMost /\ c[k] \in Int /\ c[k] <= e[k]
          /\ c[h] = size[t] + b[h] /\ \A k \in Handlers : k # h => c[k] = b[k]
          /\ b[h] = Room(h, t)'
      <4> HIDE DEF a, b
      <4> QED
        BY <1>2, <2>2, <2>6, <2>7, <2>8
    <3> HIDE DEF a, b, c, e
    <3>2. SumFunctionOnSet(c, Handlers) = SumFunctionOnSet(b, Handlers) - b[h] + c[h]
      BY <2>6, <3>1, FiniteKinds, SumChanges
    <3>3. \A k \in Handlers : e[k] \in Int
      BY <1>2, <3>1
    <3>4. SumFunctionOnSet(c, Handlers) <= SumFunctionOnSet(e, Handlers)
      BY <3>1, <3>3, FiniteKinds, SumLeq
    <3>5. SumFunctionOnSet(e, Handlers) = most
      BY <1>2, <3>1, FiniteKinds, SumConstant
    <3>6. b[h] \in Int
      BY <2>6
    <3> HIDE DEF most
    <3> QED
      BY <1>2, <2>3, <2>4, <2>8, <3>1, <3>2, <3>4, <3>5, <3>6
  <2>9. CASE s # t
    <3>1. \A k \in Handlers : b[k] <= a[k]
      BY <2>9
    <3> HIDE DEF a, b
    <3>2. Rooms(s)' <= Rooms(s)
      BY <2>3, <2>6, <3>1, FiniteKinds, SumLeq
    <3> HIDE DEF most
    <3> QED
      BY <1>2, <2>3, <2>4, <2>5, <3>2
  <2> QED
    BY <2>8, <2>9
<1> QED
  BY <1>4, <1>5

-----------------------------------------------------------------------------
\* A step after which no writer has more room and no log more bytes.
LEMMA RoomShrinks ==
    ASSUME IInv, IInv', Counters, Counters', StreamBound,
           diskErrors' = diskErrors,
           \A t \in Tokens : size'[t] <= size[t],
           \A h \in Handlers, t \in Tokens : Room(h, t)' <= Room(h, t)
    PROVE  StreamBound'
<1>1. PICK h \in Handlers : TRUE
  BY StorageAssumption
<1>2. RoomsFit /\ RoomsFit'
  BY RoomSums, PTL
<1>3. ASSUME NEW t \in Tokens
      PROVE  size'[t] + Room(h, t)' <= size[t] + Room(h, t)
  <2>1. size[t] \in Int /\ size'[t] \in Int
    BY Kinds DEF IInv, Types
  <2>2. Room(h, t) \in Nat
    BY <1>2 DEF RoomsFit
  <2>3. (\A k \in Handlers : Room(k, t) \in Nat)'
    BY <1>2 DEF RoomsFit
  <2>4. size'[t] <= size[t] /\ Room(h, t)' <= Room(h, t) /\ Room(h, t)' \in Nat
    BY <2>3
  <2> QED
    BY <2>1, <2>2, <2>4
<1> QED
  BY <1>3, RoomMoves

\* The others' rooms, when only h moves.
LEMMA OthersRooms ==
    ASSUME IInv, Counters, NEW h \in Handlers,
           \A k \in Handlers : k # h =>
               /\ hpc'[k] = hpc[k] /\ body'[k] = body[k] /\ streamBytes'[k] = streamBytes[k]
               /\ attached'[k] = attached[k] /\ tok'[k] = tok[k]
    PROVE  \A k \in Handlers, t \in Tokens : k # h => Room(k, t)' = Room(k, t) /\ Room(k, t)' <= Room(k, t)
<1> SUFFICES ASSUME NEW k \in Handlers, NEW t \in Tokens, k # h
             PROVE  Room(k, t)' = Room(k, t) /\ Room(k, t) \in Nat
  OBVIOUS
<1>1. Room(k, t)' = Room(k, t)
  BY DEF Room, Counted
<1>2. Room(k, t) \in Nat
  BY RoomSums DEF RoomsFit
<1> QED
  BY <1>1, <1>2

\* A handler with no frame past the check, before and after.
LEMMA FitsStays ==
    ASSUME FitsCap, NEW h \in Handlers,
           \A k \in Handlers : k # h =>
               hpc'[k] = hpc[k] /\ body'[k] = body[k] /\ streamBytes'[k] = streamBytes[k],
           hpc'[h] \in {"checked", "written"} /\ MaxStreamBytes > 0 =>
               streamBytes'[h] + body'[h] <= MaxStreamBytes
    PROVE  FitsCap'
  BY DEF FitsCap

\* What a handler does outside its writer: it has no room before or after, and
\* no log changes.
LEMMA NoWriter ==
    ASSUME IInv, IInv', Counters, Counters', CapInv, NEW h \in Handlers,
           \A k \in Handlers : k # h =>
               /\ hpc'[k] = hpc[k] /\ body'[k] = body[k] /\ streamBytes'[k] = streamBytes[k]
               /\ attached'[k] = attached[k] /\ tok'[k] = tok[k],
           hpc'[h] \notin {"ready", "checked", "written"},
           diskErrors' = 0 => diskErrors = 0 /\ \A t \in Tokens : size'[t] <= size[t]
    PROVE  CapInv'
<1>1. FitsCap'
  BY FitsStays DEF CapInv
<1>2. CASE diskErrors' = 0
  <2>1. \A t \in Tokens : Room(h, t)' = 0
    BY DEF Room
  <2>2. \A k \in Handlers, t \in Tokens : k # h => Room(k, t)' <= Room(k, t)
    BY OthersRooms
  <2>3. ASSUME NEW t \in Tokens PROVE size'[t] + Room(h, t)' <= size[t] + Room(h, t)
    <3>1. size[t] \in Int /\ size'[t] \in Int
      BY Kinds DEF IInv, Types
    <3>2. Room(h, t) \in Nat
      BY RoomSums DEF RoomsFit
    <3> QED
      BY <1>2, <2>1, <3>1, <3>2
  <2> QED
    BY <1>1, <1>2, <2>2, <2>3, RoomMoves DEF CapInv
<1>3. CASE diskErrors' # 0
  BY <1>1, <1>3 DEF CapInv, StreamBound
<1> QED
  BY <1>2, <1>3

LEMMA OutsideCap ==
    ASSUME IInv, IInv', Counters, Counters', CapInv, NEW h \in Handlers,
           \/ \E t \in Tokens, g \in Groups \cup {NoGroup} : Connects(h, t, g)
           \/ JoinWrites(h) \/ JoinFails(h) \/ JoinAccounts(h) \/ OpenFile(h) \/ StreamEnds(h)
    PROVE  CapInv'
<1>1. ASSUME NEW t \in Tokens, NEW g \in Groups \cup {NoGroup}, Connects(h, t, g)
      PROVE  CapInv'
  <2>1. /\ HGoto(h, IF g = NoGroup THEN "open" ELSE "join") /\ tok' = [tok EXCEPT ![h] = t]
        /\ UNCHANGED <<size, body, streamBytes, attached, diskErrors>>
    BY <1>1 DEF Connects, dirVars, history
  <2>2. /\ hpc'[h] \in {"open", "join"} /\ \A k \in Handlers : k # h => hpc'[k] = hpc[k]
        /\ \A k \in Handlers : k # h => tok'[k] = tok[k]
        /\ \A f \in Tokens : size'[f] <= size[f]
    BY <2>1, PlaceOf, Kinds DEF IInv, Types
  <2> QED
    BY <2>1, <2>2, NoWriter
<1>2. CASE JoinWrites(h)
  <2>1. /\ hpc[h] = "join" /\ Grown(group[h], LineLen) /\ HGoto(h, "joined")
        /\ UNCHANGED <<tok, body, streamBytes, attached, diskErrors>>
    BY <1>2 DEF JoinWrites, history
  <2>2. group[h] \in Groups
    BY <2>1 DEF IInv, Grouped
  <2>3. \A f \in Tokens : size'[f] = size[f] /\ size[f] \in Nat
    BY <2>1, <2>2, Kinds, StorageAssumption DEF Grown, IInv, Types
  <2>4. hpc'[h] = "joined" /\ \A k \in Handlers : k # h => hpc'[k] = hpc[k]
    BY <2>1, PlaceOf
  <2> QED
    BY <2>1, <2>3, <2>4, NoWriter
<1>3. CASE JoinFails(h)
  <2>1. Returns(h) /\ diskErrors' = diskErrors + 1 /\ diskErrors \in Nat
    BY <1>3, StorageAssumption DEF JoinFails, Counters
  <2>2. /\ hpc'[h] = "idle" /\ \A k \in Handlers : k # h => hpc'[k] = hpc[k]
        /\ \A k \in Handlers : k # h =>
              /\ body'[k] = body[k] /\ streamBytes'[k] = streamBytes[k]
              /\ attached'[k] = attached[k] /\ tok'[k] = tok[k]
    BY <2>1, PlaceOf DEF Returns, IInv, Types, Counters
  <2>3. diskErrors' # 0
    BY <2>1
  <2> QED
    BY <2>2, <2>3, NoWriter
<1>4. CASE JoinAccounts(h)
  <2>1. /\ HGoto(h, "open")
        /\ UNCHANGED <<size, tok, body, streamBytes, attached, diskErrors>>
    BY <1>4 DEF JoinAccounts, dirVars, history
  <2>2. /\ hpc'[h] = "open" /\ \A k \in Handlers : k # h => hpc'[k] = hpc[k]
        /\ \A f \in Tokens : size'[f] <= size[f]
    BY <2>1, PlaceOf, Kinds DEF IInv, Types
  <2> QED
    BY <2>1, <2>2, NoWriter
<1>5. CASE OpenFile(h)
  <2>1. /\ HGoto(h, "stat") /\ attached' = [attached EXCEPT ![h] = TRUE]
        /\ UNCHANGED <<size, tok, body, streamBytes, diskErrors>>
    BY <1>5 DEF OpenFile, history
  <2>2. /\ hpc'[h] = "stat" /\ \A k \in Handlers : k # h => hpc'[k] = hpc[k]
        /\ \A k \in Handlers : k # h => attached'[k] = attached[k]
        /\ \A f \in Tokens : size'[f] <= size[f]
    BY <2>1, PlaceOf, Kinds DEF IInv, Types
  <2> QED
    BY <2>1, <2>2, NoWriter
<1>6. CASE StreamEnds(h)
  <2>1. Returns(h) /\ UNCHANGED <<size, diskErrors>>
    BY <1>6 DEF StreamEnds, dirVars, history
  <2>2. /\ hpc'[h] = "idle" /\ \A k \in Handlers : k # h => hpc'[k] = hpc[k]
        /\ \A k \in Handlers : k # h =>
              /\ body'[k] = body[k] /\ streamBytes'[k] = streamBytes[k]
              /\ attached'[k] = attached[k] /\ tok'[k] = tok[k]
        /\ \A f \in Tokens : size'[f] <= size[f]
    BY <2>1, PlaceOf, Kinds DEF Returns, IInv, Types, Counters
  <2> QED
    BY <2>1, <2>2, NoWriter
<1> QED
  BY <1>1, <1>2, <1>3, <1>4, <1>5, <1>6

LEMMA StatCap ==
    ASSUME IInv, IInv', Counters, Counters', CapInv, NEW h \in Handlers, StatSize(h)
    PROVE  CapInv'
<1>0. PICK t \in Tokens : t = tok[h]
  BY DEF IInv, Types
<1>1. /\ hpc[h] = "stat" /\ HGoto(h, "ready") /\ tok[h] = t
      /\ streamBytes' = [streamBytes EXCEPT ![h] = size[t]]
      /\ UNCHANGED <<size, tok, body, attached, diskErrors>>
  BY <1>0 DEF StatSize, dirVars, history
<1>2. hpc'[h] = "ready" /\ \A k \in Handlers : k # h => hpc'[k] = hpc[k]
  BY <1>1, PlaceOf
<1>3. /\ streamBytes'[h] = size[t] /\ size[t] \in Nat
      /\ \A k \in Handlers : k # h => streamBytes'[k] = streamBytes[k]
  BY <1>1, Kinds DEF Counters, IInv, Types
<1>4. FitsCap'
  BY <1>1, <1>2, <1>3, FitsStays DEF CapInv
<1>5. \A k \in Handlers, s \in Tokens : k # h => Room(k, s)' <= Room(k, s)
  BY <1>1, <1>2, <1>3, OthersRooms
<1>6. \A s \in Tokens : Room(h, s) = 0
  BY <1>1 DEF Room
<1>7. \A s \in Tokens : s # t => Room(h, s)' = 0
  BY <1>1 DEF Room
<1>8. Counted(h)' = size[t]
  BY <1>2, <1>3 DEF Counted
<1>9. Room(h, t)' \in {0, IF size[t] < MaxStreamBytes THEN Still(MaxStreamBytes - size[t])
                                                     ELSE 0}
  BY <1>8 DEF Room, Still, Shortest
<1>10. \A s \in Tokens : s # t => Room(h, s)' <= Room(h, s)
  BY <1>6, <1>7
<1>11. StreamBound'
  <2>1. /\ diskErrors' = diskErrors /\ size' = size
        /\ Room(h, t) = 0 /\ StreamBound
    BY <1>1, <1>6 DEF CapInv
  <2> QED
    BY <1>5, <1>9, <1>10, <2>1, RoomFound
<1> QED
  BY <1>4, <1>11 DEF CapInv

\* The check leaves the frame the room it needs.
LEMMA ChecksCap ==
    ASSUME IInv, IInv', Counters, Counters', CapInv, NEW h \in Handlers,
           NEW n \in BodySizes, AppendChecks(h, n)
    PROVE  CapInv'
<1>1. /\ hpc[h] = "ready" /\ HGoto(h, "checked") /\ ~StreamFull(h, n)
      /\ body' = [body EXCEPT ![h] = n]
      /\ UNCHANGED <<size, tok, streamBytes, attached, diskErrors>>
  BY DEF AppendChecks, dirVars, history
<1>2. /\ hpc'[h] = "checked" /\ \A k \in Handlers : k # h => hpc'[k] = hpc[k]
      /\ body'[h] = n /\ \A k \in Handlers : k # h => body'[k] = body[k]
  BY <1>1, PlaceOf DEF IInv, Types
<1>3. streamBytes[h] \in Nat /\ n \in Nat /\ MaxStreamBytes \in Nat
  BY StorageAssumption DEF Counters
<1>4. MaxStreamBytes > 0 => streamBytes'[h] + body'[h] <= MaxStreamBytes
  BY <1>1, <1>2, <1>3 DEF StreamFull
<1>5. FitsCap'
  BY <1>1, <1>2, <1>4, FitsStays DEF CapInv
<1>6. Counted(h)' = Counted(h)
  BY <1>1, <1>2, <1>3 DEF Counted
<1>7. \A t \in Tokens : Room(h, t)' = Room(h, t) /\ Room(h, t) \in Nat
  <2>1. \A t \in Tokens : Room(h, t)' = Room(h, t)
    BY <1>1, <1>2, <1>6 DEF Room, Still, Shortest
  <2>2. \A t \in Tokens : Room(h, t) \in Nat
    BY RoomSums DEF RoomsFit
  <2> QED
    BY <2>1, <2>2
<1>8. \A k \in Handlers, t \in Tokens : k # h => Room(k, t)' <= Room(k, t)
  BY <1>1, <1>2, OthersRooms
<1>9. \A k \in Handlers, t \in Tokens : Room(k, t)' <= Room(k, t)
  BY <1>7, <1>8
<1>10. \A t \in Tokens : size'[t] <= size[t]
  BY <1>1, Kinds DEF IInv, Types
<1>11. StreamBound'
  BY <1>1, <1>9, <1>10, RoomShrinks DEF CapInv
<1> QED
  BY <1>5, <1>11 DEF CapInv

\* The record goes into the log, its bytes out of the room.
LEMMA WritesCap ==
    ASSUME IInv, IInv', Counters, Counters', CapInv, InHand, NEW h \in Handlers, AppendWrites(h)
    PROVE  CapInv'
<1> DEFINE t == tok[h]
           n == body[h]
<1>1. /\ hpc[h] = "checked" /\ HGoto(h, "written") /\ t \in Tokens /\ n \in BodySizes
      /\ IF attached[h] THEN Grown(t, DiskLen(n)) ELSE UNCHANGED size
      /\ UNCHANGED <<tok, body, streamBytes, attached, diskErrors>>
  BY DEF AppendWrites, dirVars, InHand, IInv, Types
<1>2. hpc'[h] = "written" /\ \A k \in Handlers : k # h => hpc'[k] = hpc[k]
  BY <1>1, PlaceOf
<1>3. /\ n \in Nat /\ n > 0 /\ DiskLen(n) \in Nat /\ streamBytes[h] \in Nat
      /\ MaxStreamBytes \in Nat
  <2>1. n \in Nat /\ n > 0 /\ MaxStreamBytes \in Nat
    <3>1. BodySizes \subseteq Nat \ {0} /\ MaxStreamBytes \in Nat
      BY StorageAssumption
    <3>2. n \in BodySizes
      BY <1>1
    <3>3. n \in Nat \ {0}
      BY <3>1, <3>2, Zenon
    <3> HIDE DEF n
    <3> QED
      BY <3>1, <3>3
  <2>2. DiskLen(n) \in Nat
    BY <1>1, Lengths
  <2>3. streamBytes[h] \in Nat
    BY DEF Counters
  <2> QED
    BY <2>1, <2>2, <2>3
<1>4. MaxStreamBytes > 0 => streamBytes[h] + n <= MaxStreamBytes
  BY <1>1 DEF CapInv, FitsCap
<1>5. FitsCap'
  BY <1>1, <1>2, <1>4, FitsStays DEF CapInv
<1>6. \A k \in Handlers, s \in Tokens : k # h => Room(k, s)' <= Room(k, s)
  BY <1>1, <1>2, OthersRooms
<1>7. Counted(h) = streamBytes[h] /\ Counted(h)' = streamBytes[h] + n
  BY <1>1, <1>2, <1>3 DEF Counted
<1>8. \A s \in Tokens : size[s] \in Nat
  BY Kinds DEF IInv, Types
<1>9. ASSUME MaxStreamBytes > 0, NEW s \in Tokens
      PROVE  size'[s] + Room(h, s)' <= size[s] + Room(h, s)
  <2>1. CASE attached[h] /\ s = t
    <3> DEFINE r == MaxStreamBytes - streamBytes[h]
    <3>1. r \in Nat /\ n <= r /\ streamBytes[h] < MaxStreamBytes
          /\ MaxStreamBytes - (streamBytes[h] + n) = r - n
      BY <1>3, <1>4, <1>9
    <3>2. Room(h, s) = Still(r)
      BY <1>1, <1>7, <2>1, <3>1 DEF Room
    <3>3. Room(h, s)' \in {0, Still(r - n)}
      BY <1>7, <3>1 DEF Room, Still, Shortest
    <3>4. DiskLen(n) + Still(r - n) <= Still(r) /\ Still(r - n) \in Nat /\ Still(r) \in Nat
      <4>1. r - n \in Nat
        BY <1>3, <3>1
      <4> HIDE DEF r, n
      <4> QED
        BY <1>1, <3>1, <4>1, StillAfter
    <3>5. size'[s] = size[s] + DiskLen(n)
      BY <1>1, <2>1, Kinds DEF Grown, IInv, Types
    <3> HIDE DEF r, n
    <3> QED
      BY <1>3, <1>8, <3>2, <3>3, <3>4, <3>5
  <2>2. CASE ~(attached[h] /\ s = t)
    <3>1. Room(h, s) = 0 /\ Room(h, s)' = 0
      BY <1>1, <2>2 DEF Room
    <3>2. size'[s] = size[s]
      <4>1. CASE attached[h]
        BY <1>1, <2>2, <4>1, Kinds DEF Grown, IInv, Types
      <4>2. CASE ~attached[h]
        BY <1>1, <4>2
      <4> QED
        BY <4>1, <4>2
    <3> QED
      BY <1>8, <3>1, <3>2
  <2> QED
    BY <2>1, <2>2
<1>10. StreamBound'
  <2>1. CASE MaxStreamBytes > 0
    <3>1. \A s \in Tokens : size'[s] + Room(h, s)' <= size[s] + Room(h, s)
      BY <1>9, <2>1
    <3>2. diskErrors' = 0 => diskErrors = 0
      BY <1>1
    <3>3. \A s \in Tokens :
              /\ size'[s] + Room(h, s)' <= size[s] + Room(h, s)
              /\ \A k \in Handlers : k # h => Room(k, s)' <= Room(k, s)
      BY <1>6, <3>1
    <3>4. diskErrors' = 0 =>
              /\ diskErrors = 0
              /\ \A s \in Tokens :
                    /\ size'[s] + Room(h, s)' <= size[s] + Room(h, s)
                    /\ \A k \in Handlers : k # h => Room(k, s)' <= Room(k, s)
      BY <3>2, <3>3
    <3>5. StreamBound
      BY DEF CapInv
    <3> QED
      BY <3>4, <3>5, RoomMoves
  <2>2. CASE ~(MaxStreamBytes > 0)
    BY <2>2 DEF StreamBound
  <2> QED
    BY <2>1, <2>2
<1> QED
  BY <1>5, <1>10 DEF CapInv

LEMMA FailsCap ==
    ASSUME IInv, IInv', Counters, Counters', CapInv, NEW h \in Handlers, AppendFails(h)
    PROVE  CapInv'
<1>1. /\ HGoto(h, "ready") /\ body' = [body EXCEPT ![h] = 0]
      /\ UNCHANGED <<tok, streamBytes, attached>>
      /\ diskErrors' = diskErrors + 1 /\ diskErrors \in Nat
  BY StorageAssumption DEF AppendFails, Counters
<1>2. /\ hpc'[h] = "ready" /\ \A k \in Handlers : k # h => hpc'[k] = hpc[k]
      /\ \A k \in Handlers : k # h => body'[k] = body[k]
  BY <1>1, PlaceOf DEF IInv, Types
<1>3. diskErrors' # 0
  BY <1>1
<1> QED
  BY <1>1, <1>2, <1>3, FitsStays DEF CapInv, StreamBound

\* What was counted as in the file is in streamBytes.
LEMMA AccountsCap ==
    ASSUME IInv, IInv', Counters, Counters', CapInv, InHand, NEW h \in Handlers, AppendAccounts(h)
    PROVE  CapInv'
<1>1. /\ hpc[h] = "written" /\ HGoto(h, "ready") /\ body' = [body EXCEPT ![h] = 0]
      /\ streamBytes' = [streamBytes EXCEPT ![h] = streamBytes[h] + body[h]]
      /\ UNCHANGED <<size, tok, attached, diskErrors>>
  BY DEF AppendAccounts, dirVars, history, Counters
<1>2. /\ hpc'[h] = "ready" /\ \A k \in Handlers : k # h => hpc'[k] = hpc[k]
      /\ \A k \in Handlers : k # h => body'[k] = body[k]
      /\ streamBytes'[h] = streamBytes[h] + body[h]
      /\ \A k \in Handlers : k # h => streamBytes'[k] = streamBytes[k]
  BY <1>1, PlaceOf DEF Counters, IInv, Types
<1>3. FitsCap'
  BY <1>2, FitsStays DEF CapInv
<1>4. streamBytes[h] \in Nat /\ body[h] \in Nat
  BY <1>1, Lengths DEF Counters, InHand
<1>5. Counted(h)' = Counted(h)
  BY <1>1, <1>2, <1>4 DEF Counted
<1>6. \A t \in Tokens : Room(h, t)' = Room(h, t)
  BY <1>1, <1>2, <1>5 DEF Room, Still, Shortest
<1>7. \A t \in Tokens : Room(h, t) \in Nat
  BY RoomSums DEF RoomsFit
<1>8. \A k \in Handlers, t \in Tokens : k # h => Room(k, t)' <= Room(k, t)
  BY <1>1, <1>2, OthersRooms
<1>9. \A k \in Handlers, t \in Tokens : Room(k, t)' <= Room(k, t)
  BY <1>6, <1>7, <1>8
<1>10. \A t \in Tokens : size'[t] <= size[t]
  BY <1>1, Kinds DEF IInv, Types
<1>11. StreamBound'
  BY <1>1, <1>9, <1>10, RoomShrinks DEF CapInv
<1> QED
  BY <1>3, <1>11 DEF CapInv

\* Files go and writers lose them; nothing else changes for the cap.
LEMMA OthersCap ==
    ASSUME IInv, IInv', Counters, Counters', CapInv,
           \/ \E d \in Cleaners : CleanerStep(d)
           \/ SweepStep \/ (\E f \in Files : Ages(f)) \/ Restart \/ UNCHANGED storageVars
    PROVE  CapInv'
<1>0. \A h \in Handlers, t \in Tokens : Room(h, t) \in Nat
  BY RoomSums DEF RoomsFit
<1>1. \A t \in Tokens : size[t] \in Nat
  BY Kinds DEF IInv, Types
<1>2. ASSUME UNCHANGED <<hpc, tok, body, streamBytes, attached, size, diskErrors>>
      PROVE  CapInv'
  BY <1>2 DEF CapInv, FitsCap, StreamBound, Rooms, Room, Counted
<1>3. ASSUME NEW d \in Cleaners, DeleteRemoves(d) PROVE CapInv'
  <2>1. /\ target[d] \in Files /\ size' = [size EXCEPT ![target[d]] = 0]
        /\ attached' = [h \in Handlers |-> attached[h] /\ tok[h] # target[d]]
        /\ UNCHANGED <<hpc, tok, body, streamBytes, diskErrors>>
    BY <1>3 DEF DeleteRemoves, history, IInv, Types
  <2>2. \A t \in Tokens : size'[t] <= size[t]
    BY <1>1, <2>1, Kinds DEF IInv, Types
  <2>3. FitsCap'
    BY <2>1 DEF CapInv, FitsCap
  <2>4. \A h \in Handlers, t \in Tokens : Room(h, t)' <= Room(h, t)
    <3>1. \A h \in Handlers : Counted(h)' = Counted(h)
      BY <2>1 DEF Counted
    <3>2. \A h \in Handlers, t \in Tokens : Room(h, t)' \in {0, Room(h, t)}
      BY <2>1, <3>1 DEF Room, Still, Shortest
    <3> QED
      BY <1>0, <3>2
  <2> QED
    BY <2>1, <2>2, <2>3, <2>4, RoomShrinks DEF CapInv
<1>4. ASSUME NEW d \in Cleaners, CleanerStep(d), ~DeleteRemoves(d) PROVE CapInv'
  BY <1>2, <1>4 DEF CleanerStep, DeleteRequest, DeleteStats, DeleteFails, DeleteSubtracts,
     dirVars, handlerVars, history
<1>5. CASE SweepStep
  BY <1>2, <1>5 DEF SweepStep, SweepBegins, SweepSkips, SweepTakes, dirVars, handlerVars, history
<1>6. ASSUME NEW f \in Files, Ages(f) PROVE CapInv'
  BY <1>2, <1>6 DEF Ages, handlerVars, history
<1>7. CASE Restart
  <2>1. /\ hpc' = [h \in Handlers |-> "idle"] /\ UNCHANGED <<size, diskErrors>>
    BY <1>7 DEF Restart, dirVars
  <2>2. FitsCap'
    BY <2>1 DEF FitsCap
  <2>3. \A h \in Handlers, t \in Tokens : Room(h, t)' = 0
    BY <2>1 DEF Room
  <2>4. \A h \in Handlers, t \in Tokens : Room(h, t)' <= Room(h, t)
    BY <1>0, <2>3
  <2>5. \A t \in Tokens : size'[t] <= size[t]
    BY <1>1, <2>1
  <2> QED
    BY <2>1, <2>2, <2>4, <2>5, RoomShrinks DEF CapInv
<1>8. CASE UNCHANGED storageVars
  BY <1>2, <1>8 DEF storageVars, dirVars, handlerVars, history
<1> QED
  BY <1>3, <1>4, <1>5, <1>6, <1>7, <1>8

LEMMA CapInit == Init /\ IInv /\ Counters => CapInv
<1> SUFFICES ASSUME Init, IInv, Counters PROVE CapInv
  OBVIOUS
<1>1. FitsCap
  BY DEF Init, FitsCap
<1>2. Cardinality(Handlers) * WriterMost \in Nat
  BY FiniteKinds, FS_CardinalityType, WriterMostIs
<1>3. ASSUME NEW t \in Tokens
      PROVE  size[t] + Rooms(t) <= Cardinality(Handlers) * WriterMost
  <2> DEFINE a == [h \in Handlers |-> Room(h, t)]
  <2>1. \A h \in Handlers : a[h] = 0
    BY DEF Init, Room
  <2>2. Rooms(t) = SumFunctionOnSet(a, Handlers)
    BY RoomSums DEF RoomsFit
  <2> HIDE DEF a
  <2>3. Rooms(t) = 0 /\ size[t] = 0
    BY <2>1, <2>2, FiniteKinds, SumZero, Kinds DEF Init
  <2> QED
    BY <1>2, <2>3
<1> QED
  BY <1>1, <1>3 DEF CapInv, StreamBound

LEMMA CapStep == IInv /\ IInv' /\ BookInv /\ BookInv' /\ CapInv /\ [Next]_storageVars => CapInv'
<1> SUFFICES ASSUME IInv, IInv', BookInv, BookInv', CapInv, [Next]_storageVars PROVE CapInv'
  OBVIOUS
<1>1. Counters /\ Counters' /\ InHand
  BY DEF BookInv
<1>2. ASSUME NEW h \in Handlers, HandlerStep(h) PROVE CapInv'
  BY <1>1, <1>2, OutsideCap, StatCap, ChecksCap, WritesCap, FailsCap, AccountsCap DEF HandlerStep
<1>3. CASE \/ \E d \in Cleaners : CleanerStep(d)
           \/ SweepStep \/ (\E f \in Files : Ages(f)) \/ Restart \/ UNCHANGED storageVars
  BY <1>1, <1>3, OthersCap
<1> QED
  BY <1>2, <1>3 DEF Next

LEMMA StorageBooks == Spec => [](IInv /\ BookInv /\ CapInv)
<1>1. Init => IInv /\ BookInv /\ CapInv
  BY StorageInit, BooksInit, CapInit DEF BookInv
<1>2. IInv /\ BookInv /\ CapInv /\ [Next]_storageVars => (IInv /\ BookInv /\ CapInv)'
  BY StorageStep, BooksStep, CapStep
<1> QED
  BY <1>1, <1>2, PTL DEF Spec

\* Every variable keeps its kind, and the ledger is a whole number.
THEOREM StorageTypes == Spec => []TypeOK
<1>1. IInv /\ BookInv => TypeOK
  BY DEF IInv, Types, BookInv, Counters, TypeOK
<1> QED
  BY <1>1, StorageBooks, PTL

\* The total is what the directory holds, less what is in flight and what is
\* torn, with what is being removed and what went to files without a path.
THEOREM LedgerIsExact == Spec => []LedgerExact
<1>1. BookInv => LedgerExact
  BY DEF BookInv
<1> QED
  BY <1>1, StorageBooks, PTL

\* Both caps are overrun by no more than the handlers there are account for.
THEOREM CapsOverrunBounded == Spec => []OvershootBounded
<1>1. IInv /\ BookInv /\ CapInv => OvershootBounded
  <2> SUFFICES ASSUME IInv, BookInv, CapInv, diskErrors = 0
               PROVE  /\ MaxTotalBytes > 0 =>
                             DirBytes <= MaxTotalBytes + (Cardinality(Handlers) - 1) * Largest
                      /\ MaxStreamBytes > 0 =>
                             \A t \in Tokens : size[t] <= Cardinality(Handlers) * WriterMost
    BY DEF OvershootBounded
  <2>1. /\ DirBytes \in Nat /\ ToCome \in Nat /\ orphaned \in Nat
        /\ \A t \in Tokens : size[t] \in Nat
        /\ \A t \in Tokens : Rooms(t) \in Nat
    BY Sums, RoomSums, Kinds DEF SumsFit, RoomsFit, BookInv, Counters, IInv, Types
  <2>2. ASSUME MaxTotalBytes > 0
        PROVE  DirBytes <= MaxTotalBytes + (Cardinality(Handlers) - 1) * Largest
    <3> DEFINE bound == MaxTotalBytes + (Cardinality(Handlers) - 1) * Largest
    <3>1. DirBytes + orphaned + ToCome <= bound
      BY <2>2 DEF BookInv, TotalBound
    <3>2. bound \in Int
      <4>1. Cardinality(Handlers) \in Int /\ Largest \in Int /\ MaxTotalBytes \in Int
        BY FiniteKinds, FS_CardinalityType, LargestIs, StorageAssumption
      <4> QED
        BY <4>1
    <3> HIDE DEF bound
    <3>3. DirBytes <= bound
      BY <2>1, <3>1, <3>2
    <3> QED
      BY <3>3 DEF bound
  <2>3. ASSUME MaxStreamBytes > 0, NEW t \in Tokens
        PROVE  size[t] <= Cardinality(Handlers) * WriterMost
    <3> DEFINE bound == Cardinality(Handlers) * WriterMost
    <3>1. size[t] + Rooms(t) <= bound
      BY <2>3 DEF CapInv, StreamBound
    <3>2. bound \in Int
      BY FiniteKinds, FS_CardinalityType, WriterMostIs
    <3> HIDE DEF bound
    <3>3. size[t] <= bound
      BY <2>1, <3>1, <3>2
    <3> QED
      BY <3>3 DEF bound
  <2> QED
    BY <2>2, <2>3
<1> QED
  BY <1>1, StorageBooks, PTL
=============================================================================
