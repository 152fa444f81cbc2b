---------------------------- MODULE GroupProofs ----------------------------
(***************************************************************************)
(* Proofs about GroupIndex and the names it goes by: what torn lines cost  *)
(* an index, that a watcher finds its legs and can tell them apart, and    *)
(* that a listing only grows.                                              *)
(***************************************************************************)
EXTENDS GroupIndex, DataLemmas, SequenceTheorems, TLAPS

USE DEF None

-----------------------------------------------------------------------------
\* Sequences.

\* What follows an equally long beginning can be told.
LEMMA ConcatCancels ==
    ASSUME NEW S,
           NEW a \in Seq(S), NEW b \in Seq(S), NEW c \in Seq(S), NEW d \in Seq(S),
           Len(a) = Len(c), a \o b = c \o d
    PROVE  a = c /\ b = d
<1>1. /\ Len(a \o b) = Len(a) + Len(b) /\ Len(c \o d) = Len(c) + Len(d)
      /\ \A i \in 1..(Len(a) + Len(b)) :
            (a \o b)[i] = IF i <= Len(a) THEN a[i] ELSE b[i - Len(a)]
      /\ \A i \in 1..(Len(c) + Len(d)) :
            (c \o d)[i] = IF i <= Len(c) THEN c[i] ELSE d[i - Len(c)]
  BY ConcatProperties
<1>2. /\ Len(a) \in Nat /\ Len(b) \in Nat /\ Len(c) \in Nat /\ Len(d) \in Nat
      /\ Len(b) = Len(d)
  BY <1>1
<1>3. \A i \in 1..Len(a) : a[i] = c[i]
  <2> SUFFICES ASSUME NEW i \in 1..Len(a) PROVE a[i] = c[i]
    OBVIOUS
  <2>1. i \in 1..(Len(a) + Len(b)) /\ i \in 1..(Len(c) + Len(d)) /\ i <= Len(a) /\ i <= Len(c)
    BY <1>2
  <2> QED
    BY <1>1, <2>1
<1>4. \A i \in 1..Len(b) : b[i] = d[i]
  <2> SUFFICES ASSUME NEW i \in 1..Len(b) PROVE b[i] = d[i]
    OBVIOUS
  <2> DEFINE k == i + Len(a)
  <2>1. /\ k \in 1..(Len(a) + Len(b)) /\ k \in 1..(Len(c) + Len(d))
        /\ ~(k <= Len(a)) /\ ~(k <= Len(c)) /\ k - Len(a) = i /\ k - Len(c) = i
    BY <1>2
  <2> HIDE DEF k
  <2> QED
    BY <1>1, <2>1
<1> QED
  BY <1>2, <1>3, <1>4, SeqEqual

LEMMA ConcatParts ==
    \A a, b \in Parts : a \o b \in Parts /\ Len(a \o b) = Len(a) + Len(b)
  BY ConcatProperties DEF Parts

\* The recursion behind joining.
Joint(f, s, i) == IF i = 1 THEN s[i] ELSE f[i - 1] \o s[i]

IsJoined(f, s) == f = [i \in 1..Len(s) |-> Joint(f, s, i)]

LEMMA ContextJoins ==
    ASSUME NEW s, Len(s) # 0, NEW f, IsJoined(f, s)
    PROVE  \E g : IsJoined(g, s) /\ Context(s) = g[Len(s)]
<1> DEFINE g == CHOOSE h : IsJoined(h, s)
<1>1. IsJoined(g, s)
  BY Zenon
<1>2. Context(s) = g[Len(s)]
  BY Zenon DEF Context, FlattenSeq, IsJoined, Joint
<1> QED
  BY <1>1, <1>2

LEMMA ContextOfOne ==
    ASSUME NEW a \in Parts
    PROVE  Context(<<a>>) = a
<1> DEFINE s == <<a>>
           f == [i \in 1..Len(s) |-> a]
<1>0. Len(s) # 0
  OBVIOUS
<1>1. Len(s) = 1 /\ s[1] = a
  OBVIOUS
<1> HIDE DEF s
<1>2. \A g : Joint(g, s, 1) = a
  BY <1>1, Zenon DEF Joint
<1>3. IsJoined(f, s)
  BY <1>1, <1>2 DEF IsJoined
<1> HIDE DEF f
<1>4. PICK g : IsJoined(g, s) /\ Context(s) = g[Len(s)]
  BY <1>0, <1>3, ContextJoins, Zenon
<1>5. g[1] = a
  BY <1>1, <1>2, <1>4 DEF IsJoined
<1> QED
  BY <1>1, <1>4, <1>5 DEF s

LEMMA ContextOfTwo ==
    ASSUME NEW a \in Parts, NEW b \in Parts
    PROVE  Context(<<a, b>>) = a \o b
<1> DEFINE s == <<a, b>>
           ab == a \o b
           f == [i \in 1..Len(s) |-> IF i = 1 THEN a ELSE ab]
<1>0. Len(s) # 0
  OBVIOUS
<1>1. Len(s) = 2 /\ s[1] = a /\ s[2] = b
  OBVIOUS
<1>2. 2 # 1 /\ 2 - 1 = 1
  OBVIOUS
<1> HIDE DEF s
<1>3. \A g : /\ Joint(g, s, 1) = a
             /\ g[1] = a => Joint(g, s, 2) = ab
  BY <1>1, <1>2, Zenon DEF Joint
<1> HIDE DEF ab
<1>4. IsJoined(f, s)
  BY <1>1, <1>3 DEF IsJoined
<1> HIDE DEF f
<1>5. PICK g : IsJoined(g, s) /\ Context(s) = g[Len(s)]
  BY <1>0, <1>4, ContextJoins, Zenon
<1>6. g[1] = a /\ g[2] = ab
  BY <1>1, <1>3, <1>5 DEF IsJoined
<1> QED
  BY <1>1, <1>5, <1>6 DEF s, ab

LEMMA ContextOfThree ==
    ASSUME NEW a \in Parts, NEW b \in Parts, NEW c \in Parts
    PROVE  Context(<<a, b, c>>) = (a \o b) \o c
<1> DEFINE s == <<a, b, c>>
           ab == a \o b
           abc == ab \o c
           f == [i \in 1..Len(s) |-> IF i = 1 THEN a ELSE IF i = 2 THEN ab ELSE abc]
<1>0. Len(s) # 0
  OBVIOUS
<1>1. Len(s) = 3 /\ s[1] = a /\ s[2] = b /\ s[3] = c
  OBVIOUS
<1>2. 2 # 1 /\ 2 - 1 = 1 /\ 3 # 1 /\ 3 - 1 = 2
  OBVIOUS
<1> HIDE DEF s
<1>3. \A g : /\ Joint(g, s, 1) = a
             /\ g[1] = a => Joint(g, s, 2) = ab
             /\ g[2] = ab => Joint(g, s, 3) = abc
  BY <1>1, <1>2, Zenon DEF Joint
<1> HIDE DEF ab, abc
<1>4. IsJoined(f, s)
  BY <1>1, <1>3 DEF IsJoined
<1> HIDE DEF f
<1>5. PICK g : IsJoined(g, s) /\ Context(s) = g[Len(s)]
  BY <1>0, <1>4, ContextJoins, Zenon
<1>6. g[1] = a /\ g[2] = ab /\ g[3] = abc
  BY <1>1, <1>3, <1>5 DEF IsJoined
<1> QED
  BY <1>1, <1>5, <1>6 DEF s, ab, abc

-----------------------------------------------------------------------------
\* Names.

\* What a flag or a variable gives.
LEMMA EnvTypes ==
    ASSUME NEW e \in Envs
    PROVE  /\ e.key \in Parts /\ e.context \in Parts /\ e.run \in Parts /\ e.job \in Parts
           /\ e.name \in Parts /\ e.label \in Parts
           /\ e.job # None => Len(e.job) = 1
<1>1. e \in Environment
  BY GroupAssumption
<1>2. e.key \in Parts /\ e.context \in Parts /\ e.run \in Parts /\ e.job \in JobId
      /\ e.name \in Parts /\ e.label \in Parts
  BY <1>1 DEF Environment
<1>3. ASSUME NEW p \in JobId, p # <<>> PROVE Len(p) = 1
  <2>1. p \in Seq(STRING) /\ Len(p) \in Nat /\ Len(p) <= 1
    BY DEF JobId, Parts
  <2>2. Len(p) \in Nat \ {0}
    BY <1>3, <2>1, EmptySeq, Zenon
  <2> DEFINE n == Len(p)
  <2>3. n \in Nat \ {0} /\ n <= 1
    BY <2>1, <2>2, Zenon
  <2> HIDE DEF n
  <2>4. n = 1
    BY <2>3
  <2> QED
    BY <2>4 DEF n
<1> QED
  BY <1>2, <1>3 DEF JobId

LEMMA DeriveInjective ==
    ASSUME NEW j, NEW k, NEW a, NEW b, Derive(j, a) # None, Derive(j, a) = Derive(k, b)
    PROVE  j = k /\ a = b
  BY DEF Derive

\* A group that a key and a context make tells both.
LEMMA GroupTells ==
    ASSUME NEW j, NEW k, NEW a \in Parts, NEW b \in Parts,
           DeriveGroup(j, a) # None, DeriveGroup(j, a) = DeriveGroup(k, b)
    PROVE  j = k /\ a = b
<1>1. /\ Derive(j, <<"group">> \o a) # None
      /\ Derive(j, <<"group">> \o a) = Derive(k, <<"group">> \o b)
  BY DEF DeriveGroup
<1>2. j = k /\ <<"group">> \o a = <<"group">> \o b
  <2> DEFINE p == <<"group">> \o a
             q == <<"group">> \o b
  <2>1. Derive(j, p) # None /\ Derive(j, p) = Derive(k, q)
    BY <1>1
  <2> HIDE DEF p, q
  <2>2. j = k /\ p = q
    BY <2>1, DeriveInjective
  <2> QED
    BY <2>2 DEF p, q
<1> DEFINE S == STRING \cup {"group"}
           p == <<"group">>
<1>3. p \in Seq(S) /\ a \in Seq(S) /\ b \in Seq(S)
  BY SeqMonotonic DEF Parts
<1>4. p \o a = p \o b
  BY <1>2
<1> HIDE DEF p, S
<1>5. a = b
  BY <1>3, <1>4, ConcatCancels
<1> QED
  BY <1>2, <1>5

\* The context of a group is the run, and nothing of the leg.
LEMMA GroupContextIsRun ==
    ASSUME NEW e \in Envs
    PROVE  derivedGroupContext(e) = RunOf(e) /\ RunOf(e) \in Parts
  BY EnvTypes, ContextOfOne DEF derivedGroupContext, RunOf, Or

LEMMA LabelOfLeg ==
    ASSUME NEW e \in Envs, e.job # None, e.label = None
    PROVE  getStreamLabel(e) = e.job \o e.name /\ getStreamLabel(e) # None
<1>1. getStreamLabel(e) = e.job \o e.name
  BY DEF getStreamLabel, Or
<1>2. Len(e.job \o e.name) = Len(e.job) + Len(e.name) /\ Len(e.name) \in Nat
  BY EnvTypes, ConcatParts DEF Parts
<1> QED
  BY <1>1, <1>2, EnvTypes

\* The context of a stream ends with the name.
LEMMA StreamContext ==
    ASSUME NEW e \in Envs
    PROVE  derivedContext(e) = IF e.context # None THEN e.context \o e.name
                              ELSE (e.run \o e.job) \o e.name
  BY EnvTypes, ContextOfTwo, ContextOfThree DEF derivedContext

\* What a leg dials with once it is in a group.
LEMMA GroupedLeg ==
    ASSUME NEW e \in Envs, Dialled[e].group # None
    PROVE  /\ Dialled[e].group = getStreamGroup(e) /\ Dialled[e].group \in Groups
           /\ Dialled[e].token = getStreamToken(e) /\ Dialled[e].token # None
           /\ Dialled[e].label = getStreamLabel(e)
<1>1. /\ Dialled[e].group = getStreamGroup(e) /\ Dialled[e].token = getStreamToken(e)
      /\ Dialled[e].token # None /\ Dialled[e].label = getStreamLabel(e)
  BY DEF Dialled, streamURL
<1> QED
  BY <1>1 DEF Groups, GroupArg

-----------------------------------------------------------------------------
\* The invariant.

AnyToken == {Dialled[e].token : e \in Envs} \cup {None}
AnyLabel == {Dialled[e].label : e \in Envs} \cup {None}
AnyLine  == [garbage : BOOLEAN, token : AnyToken, label : AnyLabel, at : Nat]

IndexTypes ==
    /\ env \in [Legs -> Envs] /\ clock \in Nat
    /\ handler \in [Legs -> {"none", "stamped", "open", "refused"}]
    /\ at \in [Legs -> Nat]
    /\ index \in [Groups -> Seq(AnyLine)]
    /\ linked \subseteq Groups /\ ragged \subseteq linked
    /\ mtime \in [Groups -> Nat] /\ tears \in Nat
    /\ accepted \in [Groups -> SUBSET AnyLine]

\* A line that can be read is the registration of a leg of that group.
LinesOfLegs ==
    \A g \in Groups : \A i \in DOMAIN index[g] : ~index[g][i].garbage =>
        \E l \in Legs : /\ GroupOf(l) = g /\ index[g][i].token = TokenOf(l)
                       /\ index[g][i].label = Dialled[env[l]].label

StampedInGroup == \A l \in Legs : handler[l] = "stamped" => GroupOf(l) # None

RaggedHasLine == \A g \in ragged : index[g] # <<>>

AcceptedStored ==
    \A g \in Groups : IsFiniteSet(accepted[g]) /\ (g \notin linked => accepted[g] = {})

\* A line is settled when nothing that is written later changes it: the last one
\* is not while its line end is missing.
Settled(lines, torn) == {i \in DOMAIN lines : torn => i # Len(lines)}

Lost(acc, lines, torn) == acc \ {lines[i] : i \in Settled(lines, torn) \cap Readable(lines)}
Scars(lines, torn) == {i \in Settled(lines, torn) : lines[i].garbage}

\* Each loss has a scar of its own, and it is settled.
Bounded(acc, lines, torn) ==
    Cardinality(Lost(acc, lines, torn)) <= Cardinality(Scars(lines, torn))

LossSettled ==
    \A g \in Groups : IF g \in ragged THEN Bounded(accepted[g], index[g], TRUE)
                     ELSE Bounded(accepted[g], index[g], FALSE)

IndexInv ==
    IndexTypes /\ LinesOfLegs /\ StampedInGroup /\ RaggedHasLine /\ AcceptedStored /\ LossSettled

-----------------------------------------------------------------------------
\* The file, as one write changes it.

LEMMA FileTypes ==
    ASSUME NEW lines \in Seq(AnyLine)
    PROVE  /\ Len(lines) \in Nat /\ DOMAIN lines = 1..Len(lines) /\ IsFiniteSet(DOMAIN lines)
           /\ \A i \in DOMAIN lines : lines[i] \in AnyLine
  BY FS_Interval

LEMMA LossFinite ==
    ASSUME NEW lines \in Seq(AnyLine), NEW acc, IsFiniteSet(acc), NEW torn
    PROVE  /\ IsFiniteSet(Lost(acc, lines, torn)) /\ IsFiniteSet(Scars(lines, torn))
           /\ Cardinality(Lost(acc, lines, torn)) \in Nat
           /\ Cardinality(Scars(lines, torn)) \in Nat
<1>1. Lost(acc, lines, torn) \subseteq acc /\ Scars(lines, torn) \subseteq DOMAIN lines
  BY DEF Lost, Scars, Settled
<1> QED
  BY <1>1, FileTypes, FS_Subset, FS_CardinalityType

LEMMA Appended ==
    ASSUME NEW lines \in Seq(AnyLine), NEW line \in AnyLine, NEW new, new = Append(lines, line)
    PROVE  /\ new \in Seq(AnyLine) /\ Len(new) = Len(lines) + 1 /\ new # <<>>
           /\ DOMAIN new = 1..(Len(lines) + 1)
           /\ \A i \in 1..Len(lines) : new[i] = lines[i]
           /\ new[Len(lines) + 1] = line
<1>1. /\ new \in Seq(AnyLine) /\ new # <<>> /\ Len(new) = Len(lines) + 1
      /\ \A i \in 1..Len(lines) : new[i] = lines[i]
      /\ new[Len(lines) + 1] = line
  BY AppendProperties
<1> QED
  BY <1>1, LenProperties

LEMMA GarbageLine == Garbage \in AnyLine /\ Garbage.garbage
  BY DEF Garbage, AnyLine, AnyToken, AnyLabel

LEMMA Glued ==
    ASSUME NEW lines \in Seq(AnyLine), lines # <<>>,
           NEW new, new = [lines EXCEPT ![Len(lines)] = Garbage]
    PROVE  /\ new \in Seq(AnyLine) /\ Len(new) = Len(lines) /\ new # <<>>
           /\ Len(lines) \in 1..Len(lines)
           /\ DOMAIN new = 1..Len(lines)
           /\ \A i \in 1..Len(lines) : i # Len(lines) => new[i] = lines[i]
           /\ new[Len(lines)].garbage
<1>1. Len(lines) \in 1..Len(lines)
  BY EmptySeq
<1>2. /\ new \in Seq(AnyLine) /\ Len(new) = Len(lines)
      /\ \A i \in 1..Len(lines) : new[i] = IF i = Len(lines) THEN Garbage ELSE lines[i]
  BY <1>1, GarbageLine, ExceptSeq
<1>3. DOMAIN new = 1..Len(lines) /\ new # <<>>
  BY <1>1, <1>2, LenProperties
<1> QED
  BY <1>1, <1>2, <1>3, GarbageLine

LEMMA NoneLost ==
    ASSUME NEW acc, acc = {}, NEW lines, lines = <<>>
    PROVE  Bounded(acc, lines, FALSE)
<1>1. Lost(acc, lines, FALSE) = {}
  BY DEF Lost
<1>2. Scars(lines, FALSE) = {}
  <2>1. DOMAIN lines = {}
    OBVIOUS
  <2> QED
    BY <2>1 DEF Scars, Settled
<1>3. 0 <= 0 /\ Cardinality({}) = 0
  BY FS_EmptySet
<1> QED
  BY <1>1, <1>2, <1>3, Zenon DEF Bounded

LEMMA BoundedBy ==
    ASSUME NEW A, NEW B, NEW a, NEW b, IsFiniteSet(B), IsFiniteSet(b),
           Cardinality(B) <= Cardinality(b), A \subseteq B, a = b
    PROVE  Cardinality(A) <= Cardinality(a)
  BY FS_Subset, FS_CardinalityType

\* A whole line behind a line end.
LEMMA AddsWhole ==
    ASSUME NEW lines \in Seq(AnyLine), NEW line \in AnyLine, ~line.garbage,
           NEW acc, IsFiniteSet(acc), Bounded(acc, lines, FALSE)
    PROVE  Bounded(acc \cup {line}, Append(lines, line), FALSE)
<1> DEFINE new == Append(lines, line)
<1>1. /\ DOMAIN new = 1..(Len(lines) + 1)
      /\ \A i \in 1..Len(lines) : new[i] = lines[i]
      /\ new[Len(lines) + 1] = line
      /\ Len(lines) \in Nat /\ DOMAIN lines = 1..Len(lines)
  BY Appended, FileTypes
<1> HIDE DEF new
<1>2. Lost(acc \cup {line}, new, FALSE) \subseteq Lost(acc, lines, FALSE)
  BY <1>1 DEF Lost, Settled, Readable
<1>3. Scars(new, FALSE) = Scars(lines, FALSE)
  BY <1>1 DEF Scars, Settled
<1> QED
  BY <1>2, <1>3, LossFinite, BoundedBy DEF Bounded, new

\* Part of one.
LEMMA AddsTorn ==
    ASSUME NEW lines \in Seq(AnyLine), NEW line \in AnyLine,
           NEW acc, IsFiniteSet(acc), Bounded(acc, lines, FALSE)
    PROVE  Bounded(acc, Append(lines, line), TRUE)
<1> DEFINE new == Append(lines, line)
           n == Len(lines)
<1>1. /\ DOMAIN new = 1..(n + 1) /\ Len(new) = n + 1
      /\ \A i \in 1..n : new[i] = lines[i]
      /\ n \in Nat /\ DOMAIN lines = 1..n
  BY Appended, FileTypes
<1> HIDE DEF new, n
<1>2. Settled(new, TRUE) = 1..n /\ Settled(lines, FALSE) = 1..n
  BY <1>1 DEF Settled, n
<1>3. \A i \in 1..n : i \in DOMAIN new /\ i \in DOMAIN lines
  BY <1>1
<1>4. Lost(acc, new, TRUE) \subseteq Lost(acc, lines, FALSE)
  BY <1>1, <1>2, <1>3 DEF Lost, Readable
<1>5. Scars(new, TRUE) = Scars(lines, FALSE)
  <2>1. \A i \in 1..n : new[i].garbage = lines[i].garbage
    BY <1>1
  <2> QED
    BY <1>2, <2>1, Zenon DEF Scars
<1> QED
  BY <1>4, <1>5, LossFinite, BoundedBy DEF Bounded, new

\* A whole line behind part of one: it is lost, and leaves the scar.
LEMMA GluesWhole ==
    ASSUME NEW lines \in Seq(AnyLine), lines # <<>>, NEW line,
           NEW acc, IsFiniteSet(acc), Bounded(acc, lines, TRUE)
    PROVE  Bounded(acc \cup {line}, [lines EXCEPT ![Len(lines)] = Garbage], FALSE)
<1> DEFINE new == [lines EXCEPT ![Len(lines)] = Garbage]
           n == Len(lines)
<1>1. /\ DOMAIN new = 1..n /\ Len(new) = n /\ n \in 1..n
      /\ \A i \in 1..n : i # n => new[i] = lines[i]
      /\ new[n].garbage
      /\ n \in Nat /\ DOMAIN lines = 1..n
  BY Glued, FileTypes
<1> HIDE DEF new, n
<1>2. Settled(new, FALSE) = 1..n /\ Settled(lines, TRUE) = 1..n \ {n}
  BY <1>1 DEF Settled, n
<1>3. Lost(acc \cup {line}, new, FALSE) \subseteq Lost(acc, lines, TRUE) \cup {line}
  BY <1>1, <1>2 DEF Lost, Readable
<1>4. Scars(new, FALSE) = Scars(lines, TRUE) \cup {n} /\ n \notin Scars(lines, TRUE)
  BY <1>1, <1>2 DEF Scars
<1> DEFINE B == Lost(acc, lines, TRUE)
           b == Scars(lines, TRUE)
<1>5. /\ IsFiniteSet(B) /\ IsFiniteSet(b) /\ Cardinality(B) \in Nat /\ Cardinality(b) \in Nat
      /\ Cardinality(B) <= Cardinality(b)
  BY LossFinite DEF Bounded
<1> HIDE DEF B, b
<1>6. /\ IsFiniteSet(B \cup {line})
      /\ Cardinality(B \cup {line}) = IF line \in B THEN Cardinality(B) ELSE Cardinality(B) + 1
  BY <1>5, FS_AddElement, Zenon
<1>7. /\ IsFiniteSet(b \cup {n})
      /\ Cardinality(b \cup {n}) = IF n \in b THEN Cardinality(b) ELSE Cardinality(b) + 1
  BY <1>5, FS_AddElement, Zenon
<1>8. n \notin b
  BY <1>4 DEF b
<1>9. Cardinality(B \cup {line}) <= Cardinality(b \cup {n})
  BY <1>5, <1>6, <1>7, <1>8
<1>10. Cardinality(Lost(acc \cup {line}, new, FALSE)) <= Cardinality(Scars(new, FALSE))
  BY <1>3, <1>4, <1>6, <1>7, <1>9, BoundedBy DEF B, b
<1> QED
  BY <1>10 DEF Bounded, new

\* Part of a line behind part of one.
LEMMA GluesTorn ==
    ASSUME NEW lines \in Seq(AnyLine), lines # <<>>,
           NEW acc, IsFiniteSet(acc), Bounded(acc, lines, TRUE)
    PROVE  Bounded(acc, [lines EXCEPT ![Len(lines)] = Garbage], TRUE)
<1> DEFINE new == [lines EXCEPT ![Len(lines)] = Garbage]
           n == Len(lines)
<1>1. /\ DOMAIN new = 1..n /\ Len(new) = n
      /\ \A i \in 1..n : i # n => new[i] = lines[i]
      /\ n \in Nat /\ DOMAIN lines = 1..n
  BY Glued, FileTypes
<1> HIDE DEF new, n
<1>2. Settled(new, TRUE) = 1..n \ {n} /\ Settled(lines, TRUE) = 1..n \ {n}
  BY <1>1 DEF Settled, n
<1>3. Lost(acc, new, TRUE) \subseteq Lost(acc, lines, TRUE)
  BY <1>1, <1>2 DEF Lost, Readable
<1>4. Scars(new, TRUE) = Scars(lines, TRUE)
  BY <1>1, <1>2 DEF Scars
<1> QED
  BY <1>3, <1>4, LossFinite, BoundedBy DEF Bounded, new

-----------------------------------------------------------------------------
\* The invariant holds.

LEMMA LegFacts ==
    ASSUME IndexTypes, NEW l \in Legs, GroupOf(l) # None
    PROVE  /\ GroupOf(l) \in Groups
           /\ Line(l) \in AnyLine /\ ~Line(l).garbage
           /\ Line(l).token = TokenOf(l) /\ Line(l).label = Dialled[env[l]].label
<1>1. env[l] \in Envs /\ at[l] \in Nat
  BY DEF IndexTypes
<1>2. GroupOf(l) \in Groups
  BY <1>1, GroupedLeg DEF GroupOf
<1>3. Dialled[env[l]].token \in AnyToken /\ Dialled[env[l]].label \in AnyLabel
  BY <1>1 DEF AnyToken, AnyLabel
<1> QED
  BY <1>1, <1>2, <1>3 DEF Line, TokenOf, AnyLine

\* What a write does to the files.
LEMMA WriteFacts ==
    ASSUME IndexTypes, RaggedHasLine,
           NEW g \in Groups, NEW line \in AnyLine, NEW whole \in BOOLEAN, Writes(g, line, whole)
    PROVE  /\ index' \in [Groups -> Seq(AnyLine)]
           /\ index'[g] = AppendLine(g, line) /\ index'[g] # <<>>
           /\ \A h \in Groups : h # g => index'[h] = index[h] /\ (h \in ragged' <=> h \in ragged)
           /\ g \in ragged' <=> ~whole
           /\ linked' = linked \cup {g} /\ linked' \subseteq Groups /\ ragged' \subseteq linked'
           /\ mtime' \in [Groups -> Nat]
           /\ \A i \in DOMAIN index'[g] :
                 \/ i \in DOMAIN index[g] /\ index'[g][i] = index[g][i]
                 \/ index'[g][i] = line
                 \/ index'[g][i].garbage
<1> DEFINE lines == index[g]
           new == AppendLine(g, line)
<1>1. lines \in Seq(AnyLine) /\ (g \in ragged => lines # <<>>)
  BY DEF IndexTypes, RaggedHasLine
<1>2. new = IF g \in ragged THEN [lines EXCEPT ![Len(lines)] = Garbage] ELSE Append(lines, line)
  BY DEF AppendLine
<1>3. DOMAIN lines = 1..Len(lines) /\ Len(lines) \in Nat
  BY <1>1, FileTypes
<1>4. index' = [index EXCEPT ![g] = new]
  BY DEF Writes
<1> HIDE DEF lines, new
<1>5. /\ new \in Seq(AnyLine) /\ new # <<>>
      /\ \A i \in DOMAIN new : (i \in DOMAIN lines /\ new[i] = lines[i]) \/ new[i] = line \/ new[i].garbage
  <2>1. CASE g \in ragged
    BY <1>1, <1>2, <1>3, <2>1, Glued
  <2>2. CASE g \notin ragged
    <3>1. /\ new \in Seq(AnyLine) /\ new # <<>> /\ DOMAIN new = 1..(Len(lines) + 1)
          /\ \A i \in 1..Len(lines) : new[i] = lines[i]
          /\ new[Len(lines) + 1] = line
      BY <1>1, <1>2, <2>2, Appended
    <3> QED
      BY <1>3, <3>1
  <2> QED
    BY <2>1, <2>2
<1>6. /\ index' \in [Groups -> Seq(AnyLine)] /\ index'[g] = new
      /\ \A h \in Groups : h # g => index'[h] = index[h]
  BY <1>4, <1>5 DEF IndexTypes
<1>7. /\ linked' = linked \cup {g} /\ linked' \subseteq Groups /\ ragged' \subseteq linked'
      /\ mtime' \in [Groups -> Nat]
      /\ g \in ragged' <=> ~whole
      /\ \A h \in Groups : h # g => (h \in ragged' <=> h \in ragged)
  BY DEF Writes, IndexTypes
<1> QED
  BY <1>5, <1>6, <1>7 DEF lines, new

\* And so to the legs that the lines are of.
LEMMA WriteKeepsLegs ==
    ASSUME IndexInv, NEW g \in Groups, NEW line \in AnyLine, NEW whole \in BOOLEAN,
           Writes(g, line, whole), env' = env,
           ~line.garbage => \E l \in Legs : /\ GroupOf(l) = g /\ line.token = TokenOf(l)
                                           /\ line.label = Dialled[env[l]].label
    PROVE  LinesOfLegs' /\ RaggedHasLine'
<1>1. \A l \in Legs : GroupOf(l)' = GroupOf(l) /\ TokenOf(l)' = TokenOf(l) /\ env'[l] = env[l]
  BY DEF GroupOf, TokenOf
<1>2. /\ index'[g] # <<>>
      /\ \A h \in Groups : h # g => index'[h] = index[h] /\ (h \in ragged' <=> h \in ragged)
      /\ linked' \subseteq Groups /\ ragged' \subseteq linked'
      /\ \A i \in DOMAIN index'[g] :
            \/ i \in DOMAIN index[g] /\ index'[g][i] = index[g][i]
            \/ index'[g][i] = line
            \/ index'[g][i].garbage
  BY WriteFacts DEF IndexInv
<1>3. ASSUME NEW h \in Groups, NEW i \in DOMAIN index'[h], ~index'[h][i].garbage
      PROVE  \E l \in Legs : /\ GroupOf(l) = h /\ index'[h][i].token = TokenOf(l)
                            /\ index'[h][i].label = Dialled[env[l]].label
  <2>1. CASE i \in DOMAIN index[h] /\ index'[h][i] = index[h][i]
    BY <1>3, <2>1 DEF IndexInv, LinesOfLegs
  <2>2. CASE h = g /\ index'[h][i] = line
    BY <1>3, <2>2
  <2> QED
    BY <1>2, <1>3, <2>1, <2>2
<1>4. LinesOfLegs'
  BY <1>1, <1>3 DEF LinesOfLegs
<1>5. RaggedHasLine'
  BY <1>2 DEF RaggedHasLine, IndexInv
<1> QED
  BY <1>4, <1>5

LEMMA IndexInit == Init => IndexInv
<1> SUFFICES ASSUME Init PROVE IndexInv
  OBVIOUS
<1> USE DEF Init
<1>1. IndexTypes
  <2>1. \A S : <<>> \in Seq(S)
    OBVIOUS
  <2> QED
    BY <2>1 DEF IndexTypes
<1>2. \A g \in Groups : index[g] = <<>> /\ DOMAIN index[g] = {} /\ accepted[g] = {} /\ g \notin ragged
  OBVIOUS
<1>3. AcceptedStored
  BY <1>2, FS_EmptySet DEF AcceptedStored
<1>4. LossSettled
  BY <1>2, NoneLost DEF LossSettled
<1> QED
  BY <1>1, <1>2, <1>3, <1>4 DEF IndexInv, LinesOfLegs, StampedInGroup, RaggedHasLine

\* Nothing of the files changes.
LEMMA FilesKept ==
    ASSUME IndexInv, UNCHANGED <<env, index, ragged, linked, mtime, tears, accepted>>,
           clock' \in Nat, at' \in [Legs -> Nat],
           handler' \in [Legs -> {"none", "stamped", "open", "refused"}],
           \A l \in Legs : handler'[l] = "stamped" => GroupOf(l) # None
    PROVE  IndexInv'
<1>1. \A l \in Legs : GroupOf(l)' = GroupOf(l) /\ TokenOf(l)' = TokenOf(l) /\ env'[l] = env[l]
  BY DEF GroupOf, TokenOf
<1>2. IndexTypes'
  BY DEF IndexInv, IndexTypes
<1>3. LinesOfLegs'
  BY <1>1 DEF IndexInv, LinesOfLegs
<1>4. StampedInGroup'
  BY <1>1 DEF StampedInGroup
<1>5. RaggedHasLine' /\ AcceptedStored'
  BY DEF IndexInv, RaggedHasLine, AcceptedStored
<1>6. LossSettled'
  BY DEF IndexInv, LossSettled
<1> QED
  BY <1>2, <1>3, <1>4, <1>5, <1>6 DEF IndexInv

LEMMA StampKeeps ==
    ASSUME IndexInv, NEW l \in Legs, Stamp(l)
    PROVE  IndexInv'
  BY FilesKept DEF Stamp, IndexInv, IndexTypes, StampedInGroup

LEMMA OpensUnlistedKeeps ==
    ASSUME IndexInv, NEW l \in Legs, OpensUnlisted(l)
    PROVE  IndexInv'
  BY FilesKept DEF OpensUnlisted, IndexInv, IndexTypes, StampedInGroup

LEMMA JoinFailsKeeps ==
    ASSUME IndexInv, NEW l \in Legs, JoinFails(l)
    PROVE  IndexInv'
  BY FilesKept DEF JoinFails, IndexInv, IndexTypes, StampedInGroup

LEMMA TickKeeps ==
    ASSUME IndexInv, Tick
    PROVE  IndexInv'
  BY FilesKept DEF Tick, IndexInv, IndexTypes, StampedInGroup

LEMMA StutterKeeps ==
    ASSUME IndexInv, UNCHANGED groupVars
    PROVE  IndexInv'
  BY FilesKept DEF groupVars, IndexInv, IndexTypes, StampedInGroup

LEMMA JoinKeeps ==
    ASSUME IndexInv, NEW l \in Legs, Join(l)
    PROVE  IndexInv'
<1> DEFINE g == GroupOf(l)
           line == Line(l)
<1>1. /\ handler[l] = "stamped" /\ handler' = [handler EXCEPT ![l] = "open"]
      /\ Writes(g, line, TRUE)
      /\ accepted' = [accepted EXCEPT ![g] = @ \cup {line}]
      /\ env' = env /\ clock' = clock /\ at' = at /\ tears' = tears
  BY DEF Join
<1>2. /\ g \in Groups /\ line \in AnyLine /\ ~line.garbage
      /\ line.token = TokenOf(l) /\ line.label = Dialled[env[l]].label /\ GroupOf(l) = g
  BY <1>1, LegFacts DEF IndexInv, StampedInGroup
<1> HIDE DEF g, line
<1>3. LinesOfLegs' /\ RaggedHasLine'
  BY <1>1, <1>2, WriteKeepsLegs
<1>4. /\ index' \in [Groups -> Seq(AnyLine)]
      /\ index'[g] = AppendLine(g, line)
      /\ \A h \in Groups : h # g => index'[h] = index[h] /\ (h \in ragged' <=> h \in ragged)
      /\ g \notin ragged'
      /\ linked' = linked \cup {g} /\ linked' \subseteq Groups /\ ragged' \subseteq linked'
      /\ mtime' \in [Groups -> Nat]
  BY <1>1, <1>2, WriteFacts DEF IndexInv
<1>5. IndexTypes'
  BY <1>1, <1>2, <1>4 DEF IndexInv, IndexTypes
<1>6. StampedInGroup'
  BY <1>1 DEF IndexInv, IndexTypes, StampedInGroup, GroupOf
<1>7. /\ accepted'[g] = accepted[g] \cup {line}
      /\ \A h \in Groups : h # g => accepted'[h] = accepted[h]
  BY <1>1, <1>2 DEF IndexInv, IndexTypes
<1>8. AcceptedStored'
  <2> SUFFICES ASSUME NEW h \in Groups
               PROVE  IsFiniteSet(accepted'[h]) /\ (h \notin linked' => accepted'[h] = {})
    BY DEF AcceptedStored
  <2>1. IsFiniteSet(accepted[h]) /\ (h \notin linked => accepted[h] = {})
    BY DEF IndexInv, AcceptedStored
  <2>2. CASE h = g
    <3>1. IsFiniteSet(accepted[g] \cup {line})
      BY <2>1, <2>2, FS_AddElement, Zenon
    <3>2. h \in linked'
      BY <1>4, <2>2
    <3> QED
      BY <1>7, <2>2, <3>1, <3>2, Zenon
  <2>3. CASE h # g
    BY <1>4, <1>7, <2>1, <2>3
  <2> QED
    BY <2>2, <2>3
<1>9. Bounded(accepted'[g], index'[g], FALSE)
  <2>1. IsFiniteSet(accepted[g]) /\ index[g] \in Seq(AnyLine)
    BY <1>2 DEF IndexInv, IndexTypes, AcceptedStored
  <2>2. CASE g \in ragged
    <3>1. Bounded(accepted[g], index[g], TRUE) /\ index[g] # <<>>
      BY <1>2, <2>2 DEF IndexInv, LossSettled, RaggedHasLine
    <3>2. Bounded(accepted[g] \cup {line}, [index[g] EXCEPT ![Len(index[g])] = Garbage], FALSE)
      BY <2>1, <3>1, GluesWhole
    <3>3. index'[g] = [index[g] EXCEPT ![Len(index[g])] = Garbage]
      BY <1>4, <2>2 DEF AppendLine
    <3> QED
      BY <1>7, <3>2, <3>3, Zenon
  <2>3. CASE g \notin ragged
    <3>1. Bounded(accepted[g], index[g], FALSE)
      BY <1>2, <2>3 DEF IndexInv, LossSettled
    <3>2. Bounded(accepted[g] \cup {line}, Append(index[g], line), FALSE)
      BY <1>2, <2>1, <3>1, AddsWhole
    <3>3. index'[g] = Append(index[g], line)
      BY <1>4, <2>3 DEF AppendLine
    <3> QED
      BY <1>7, <3>2, <3>3, Zenon
  <2> QED
    BY <2>2, <2>3
<1>10. LossSettled'
  <2> SUFFICES ASSUME NEW h \in Groups
               PROVE  IF h \in ragged' THEN Bounded(accepted'[h], index'[h], TRUE)
                      ELSE Bounded(accepted'[h], index'[h], FALSE)
    BY DEF LossSettled
  <2>1. CASE h = g
    BY <1>4, <1>9, <2>1
  <2>2. CASE h # g
    BY <1>4, <1>7, <2>2 DEF IndexInv, LossSettled
  <2> QED
    BY <2>1, <2>2
<1> QED
  BY <1>3, <1>5, <1>6, <1>8, <1>10 DEF IndexInv

LEMMA JoinTearsKeeps ==
    ASSUME IndexInv, NEW l \in Legs, JoinTears(l)
    PROVE  IndexInv'
<1> DEFINE g == GroupOf(l)
<1>1. /\ handler[l] = "stamped" /\ handler' = [handler EXCEPT ![l] = "refused"]
      /\ tears' = tears + 1
      /\ env' = env /\ clock' = clock /\ at' = at /\ accepted' = accepted
      /\ GroupOf(l) = g
  BY DEF JoinTears
<1>2. PICK line \in {Garbage, Line(l)} : Writes(g, line, FALSE)
  BY DEF JoinTears
<1>3. /\ g \in Groups /\ line \in AnyLine
      /\ ~line.garbage => /\ line.token = TokenOf(l) /\ line.label = Dialled[env[l]].label
  BY <1>1, LegFacts, GarbageLine DEF IndexInv, StampedInGroup
<1> HIDE DEF g
<1>4. LinesOfLegs' /\ RaggedHasLine'
  BY <1>1, <1>2, <1>3, WriteKeepsLegs
<1>5. /\ index' \in [Groups -> Seq(AnyLine)]
      /\ index'[g] = AppendLine(g, line)
      /\ \A h \in Groups : h # g => index'[h] = index[h] /\ (h \in ragged' <=> h \in ragged)
      /\ g \in ragged'
      /\ linked' = linked \cup {g} /\ linked' \subseteq Groups /\ ragged' \subseteq linked'
      /\ mtime' \in [Groups -> Nat]
  BY <1>2, <1>3, WriteFacts DEF IndexInv
<1>6. IndexTypes'
  BY <1>1, <1>5 DEF IndexInv, IndexTypes
<1>7. StampedInGroup' /\ AcceptedStored'
  BY <1>1, <1>5 DEF IndexInv, IndexTypes, StampedInGroup, GroupOf, AcceptedStored
<1>8. Bounded(accepted[g], index'[g], TRUE)
  <2>1. IsFiniteSet(accepted[g]) /\ index[g] \in Seq(AnyLine)
    BY <1>3 DEF IndexInv, IndexTypes, AcceptedStored
  <2>2. CASE g \in ragged
    <3>1. Bounded(accepted[g], index[g], TRUE) /\ index[g] # <<>>
      BY <1>3, <2>2 DEF IndexInv, LossSettled, RaggedHasLine
    <3> QED
      BY <1>5, <2>1, <2>2, <3>1, GluesTorn DEF AppendLine
  <2>3. CASE g \notin ragged
    <3>1. Bounded(accepted[g], index[g], FALSE)
      BY <1>3, <2>3 DEF IndexInv, LossSettled
    <3>2. Bounded(accepted[g], Append(index[g], line), TRUE)
      BY <1>3, <2>1, <3>1, AddsTorn
    <3>3. index'[g] = Append(index[g], line)
      BY <1>5, <2>3 DEF AppendLine
    <3> QED
      BY <3>2, <3>3, Zenon
  <2> QED
    BY <2>2, <2>3
<1>9. LossSettled'
  <2> SUFFICES ASSUME NEW h \in Groups
               PROVE  IF h \in ragged' THEN Bounded(accepted'[h], index'[h], TRUE)
                      ELSE Bounded(accepted'[h], index'[h], FALSE)
    BY DEF LossSettled
  <2>1. CASE h = g
    BY <1>1, <1>5, <1>8, <2>1
  <2>2. CASE h # g
    BY <1>1, <1>5, <2>2 DEF IndexInv, LossSettled
  <2> QED
    BY <2>1, <2>2
<1> QED
  BY <1>4, <1>6, <1>7, <1>9 DEF IndexInv

LEMMA SweepsKeeps ==
    ASSUME IndexInv, NEW g \in Groups, Sweeps(g)
    PROVE  IndexInv'
<1> USE DEF Sweeps
<1>1. \A l \in Legs : GroupOf(l)' = GroupOf(l) /\ TokenOf(l)' = TokenOf(l) /\ env'[l] = env[l]
  BY DEF GroupOf, TokenOf
<1>2. /\ index'[g] = <<>> /\ accepted'[g] = {} /\ g \notin ragged'
      /\ \A h \in Groups : h # g => /\ index'[h] = index[h] /\ accepted'[h] = accepted[h]
                                    /\ h \in ragged' <=> h \in ragged
                                    /\ h \in linked' <=> h \in linked
  BY DEF IndexInv, IndexTypes
<1>3. IndexTypes'
  <2>1. <<>> \in Seq(AnyLine)
    OBVIOUS
  <2> QED
    BY <2>1 DEF IndexInv, IndexTypes
<1>4. LinesOfLegs'
  <2> SUFFICES ASSUME NEW h \in Groups, NEW i \in DOMAIN index'[h], ~index'[h][i].garbage
               PROVE  \E l \in Legs : /\ GroupOf(l) = h /\ index'[h][i].token = TokenOf(l)
                                     /\ index'[h][i].label = Dialled[env[l]].label
    BY <1>1 DEF LinesOfLegs
  <2>1. h # g
    BY <1>2
  <2> QED
    BY <1>2, <2>1 DEF IndexInv, LinesOfLegs
<1>5. StampedInGroup'
  BY <1>1 DEF IndexInv, StampedInGroup
<1>6. RaggedHasLine'
  BY <1>2 DEF IndexInv, IndexTypes, RaggedHasLine
<1>7. AcceptedStored'
  BY <1>2, FS_EmptySet DEF IndexInv, AcceptedStored
<1>8. LossSettled'
  <2> SUFFICES ASSUME NEW h \in Groups
               PROVE  IF h \in ragged' THEN Bounded(accepted'[h], index'[h], TRUE)
                      ELSE Bounded(accepted'[h], index'[h], FALSE)
    BY DEF LossSettled
  <2>1. CASE h = g
    BY <1>2, <2>1, NoneLost
  <2>2. CASE h # g
    BY <1>2, <2>2 DEF IndexInv, LossSettled
  <2> QED
    BY <2>1, <2>2
<1> QED
  BY <1>3, <1>4, <1>5, <1>6, <1>7, <1>8 DEF IndexInv

LEMMA IndexStep == IndexInv /\ [Next]_groupVars => IndexInv'
  BY StampKeeps, OpensUnlistedKeeps, JoinKeeps, JoinFailsKeeps, JoinTearsKeeps, SweepsKeeps,
     TickKeeps, StutterKeeps DEF Next

LEMMA IndexInvariant == Spec => []IndexInv
  BY IndexInit, IndexStep, PTL DEF Spec

-----------------------------------------------------------------------------
\* What torn lines cost.

LEMMA LossInIndex == IndexInv => LostPerTear
<1> SUFFICES ASSUME IndexInv, NEW g \in Groups
             PROVE  Cardinality(accepted[g] \ {index[g][i] : i \in Readable(index[g])})
                    <= Cardinality({i \in DOMAIN index[g] : index[g][i].garbage})
  BY DEF LostPerTear
<1> DEFINE acc == accepted[g]
           lines == index[g]
           L == acc \ {lines[i] : i \in Readable(lines)}
           C == {i \in DOMAIN lines : lines[i].garbage}
<1>1. IsFiniteSet(acc) /\ lines \in Seq(AnyLine)
  BY DEF IndexInv, IndexTypes, AcceptedStored
<1>2. PICK torn \in BOOLEAN : Bounded(acc, lines, torn)
  BY DEF IndexInv, LossSettled
<1> HIDE DEF acc, lines
<1>3. L \subseteq Lost(acc, lines, torn) /\ Scars(lines, torn) \subseteq C /\ C \subseteq DOMAIN lines
  BY DEF Lost, Scars, Settled
<1>4. /\ IsFiniteSet(Lost(acc, lines, torn)) /\ IsFiniteSet(C)
      /\ Cardinality(Lost(acc, lines, torn)) \in Nat /\ Cardinality(Scars(lines, torn)) \in Nat
  BY <1>1, <1>3, FileTypes, LossFinite, FS_Subset
<1> DEFINE A == Lost(acc, lines, torn)
           B == Scars(lines, torn)
<1>5. Cardinality(A) <= Cardinality(B)
  BY <1>2 DEF Bounded
<1> HIDE DEF A, B, C, L
<1>6. Cardinality(L) <= Cardinality(A) /\ Cardinality(B) <= Cardinality(C)
  BY <1>3, <1>4, FS_Subset DEF A, B
<1>7. Cardinality(L) \in Nat /\ Cardinality(C) \in Nat
  BY <1>3, <1>4, FS_Subset, FS_CardinalityType DEF A
<1>8. Cardinality(L) <= Cardinality(C)
  BY <1>4, <1>5, <1>6, <1>7 DEF A, B
<1> QED
  BY <1>8 DEF L, C, acc, lines

\* A write that fails half way costs an index at most one registration that
\* Join acknowledged (group.go:93), whatever the legs and however often lines
\* are torn.
THEOREM TornLinesCostLittle == Spec => []LostPerTear
  BY IndexInvariant, LossInIndex, PTL

-----------------------------------------------------------------------------
\* Members.

\* A token that a line carries has a first one.
LEMMA FirstFacts ==
    ASSUME NEW lines \in Seq(AnyLine), NEW tok \in Tokens(lines)
    PROVE  /\ First(lines, tok) \in Of(lines, tok)
           /\ \A j \in Of(lines, tok) : First(lines, tok) <= j
<1>1. Of(lines, tok) \subseteq Nat /\ Of(lines, tok) # {}
  BY FileTypes DEF Of, Tokens, Readable
<1>2. \E i \in Of(lines, tok) : \A j \in Of(lines, tok) : i <= j
  BY <1>1, NatLeast
<1> QED
  BY <1>2 DEF First

LEMMA OfTypes ==
    ASSUME NEW lines \in Seq(AnyLine), NEW tok, NEW i \in Of(lines, tok)
    PROVE  /\ i \in 1..Len(lines) /\ i \in Nat /\ Len(lines) \in Nat
           /\ lines[i].at \in Nat /\ lines[i].token = tok /\ ~lines[i].garbage
           /\ lines[i] \in AnyLine
<1>1. i \in DOMAIN lines /\ lines[i].token = tok /\ ~lines[i].garbage
  BY DEF Of, Readable
<1>2. lines[i] \in AnyLine /\ i \in 1..Len(lines) /\ Len(lines) \in Nat
  BY <1>1, FileTypes
<1> QED
  BY <1>1, <1>2 DEF AnyLine

LEMMA TokensFinite ==
    ASSUME NEW lines \in Seq(AnyLine)
    PROVE  IsFiniteSet(Tokens(lines)) /\ Cardinality(Tokens(lines)) \in Nat
<1> DEFINE f == [i \in Readable(lines) |-> lines[i].token]
<1>1. f \in Surjection(Readable(lines), Tokens(lines))
  BY DEF Surjection, Tokens
<1>2. IsFiniteSet(Readable(lines))
  BY FileTypes, FS_Subset DEF Readable
<1> HIDE DEF f
<1> QED
  BY <1>1, <1>2, FS_Surjection, FS_CardinalityType

\* The times and the places of the first lines order the tokens.
Places(lines) == {p \in Tokens(lines) \X Tokens(lines) : Before(lines, p[1], p[2])}

LEMMA PlacesOrder ==
    ASSUME NEW lines \in Seq(AnyLine)
    PROVE  /\ Orders(Places(lines), Tokens(lines))
           /\ \A a, b \in Tokens(lines) : <<a, b>> \in Places(lines) <=> Before(lines, a, b)
           /\ \A a, b \in Tokens(lines) : Before(lines, a, b) => ~Before(lines, b, a)
<1> DEFINE f(a) == First(lines, a)
           t(a) == lines[First(lines, a)].at
<1>1. \A a, b \in Tokens(lines) :
         Before(lines, a, b) <=> t(a) < t(b) \/ (t(a) = t(b) /\ f(a) < f(b))
  BY DEF Before
<1>2. \A a \in Tokens(lines) : f(a) \in Nat /\ t(a) \in Nat /\ lines[f(a)].token = a
  BY FirstFacts, OfTypes
<1> HIDE DEF f, t
<1>3. \A a, b \in Tokens(lines) : a # b => f(a) # f(b)
  BY <1>2
<1>4. \A a, b \in Tokens(lines) : <<a, b>> \in Places(lines) <=> Before(lines, a, b)
  BY DEF Places
<1>5. \A a, b, c \in Tokens(lines) :
         Before(lines, a, b) /\ Before(lines, b, c) => Before(lines, a, c)
  BY <1>1, <1>2
<1>6. \A a, b \in Tokens(lines) : a # b => Before(lines, a, b) \/ Before(lines, b, a)
  BY <1>1, <1>2, <1>3
<1>7. \A a, b \in Tokens(lines) : Before(lines, a, b) => ~Before(lines, b, a)
  BY <1>1, <1>2
<1> QED
  BY <1>4, <1>5, <1>6, <1>7 DEF Orders

\* So they can be listed, each once.
LEMMA OrderFacts ==
    ASSUME NEW lines \in Seq(AnyLine)
    PROVE  LET s == Order(lines)
           IN  /\ \A i \in DOMAIN s : s[i] \in Tokens(lines)
               /\ \A i, j \in DOMAIN s : i # j => s[i] # s[j]
               /\ \A i, j \in DOMAIN s : i < j => Before(lines, s[i], s[j])
               /\ \A a \in Tokens(lines) : \E i \in DOMAIN s : s[i] = a
               /\ DOMAIN s \subseteq Nat
<1> DEFINE T == Tokens(lines)
           n == Cardinality(T)
           Sorted(s) == \A i, j \in DOMAIN s : i < j => Before(lines, s[i], s[j])
<1>1. IsFiniteSet(T) /\ n \in Nat
  BY TokensFinite
<1>2. PICK r : Lists(r, n, T) /\ Ascends(r, n, Places(lines))
  BY <1>1, PlacesOrder, SortExists
<1>3. DOMAIN r = 1..n /\ r \in SetToSeqs(T) /\ \A i \in 1..n : r[i] \in T
  BY <1>2 DEF Lists, SetToSeqs
<1>4. Sorted(r)
  BY <1>2, <1>3, PlacesOrder DEF Ascends
<1>5. Order(lines) \in SetToSeqs(T) /\ Sorted(Order(lines))
  <2>1. Order(lines) = CHOOSE s \in SetToSeqs(T) : Sorted(s)
    BY DEF Order
  <2> HIDE DEF Sorted, T
  <2> QED
    BY <1>3, <1>4, <2>1
<1> DEFINE s == Order(lines)
<1>6. Lists(s, n, T) /\ DOMAIN s = 1..n
  BY <1>5 DEF SetToSeqs, Lists
<1>7. \A a \in T : \E i \in 1..n : s[i] = a
  <2> HIDE DEF T, s
  <2> QED
    BY <1>1, <1>6, ListsAll
<1>8. \A i \in DOMAIN s : s[i] \in T
  BY <1>6 DEF Lists
<1>9. \A i, j \in DOMAIN s : i # j => s[i] # s[j]
  BY <1>6 DEF Lists
<1>10. DOMAIN s \subseteq Nat
  BY <1>1, <1>6
<1> QED
  BY <1>5, <1>6, <1>7, <1>8, <1>9, <1>10

\* A listing has every token that can be read, once, with what its lines tell.
LEMMA MembersFacts ==
    ASSUME NEW lines \in Seq(AnyLine)
    PROVE  LET s == Order(lines)
               m == Members(lines)
           IN  /\ DOMAIN m = DOMAIN s
               /\ \A k \in DOMAIN m : /\ m[k] = Member(lines, s[k]) /\ m[k].token = s[k]
                                      /\ s[k] \in Tokens(lines)
               /\ \A a \in Tokens(lines) : \E k \in DOMAIN m : s[k] = a
  BY OrderFacts DEF Members, Member

-----------------------------------------------------------------------------
\* A listing only grows.

\* new is lines, or lines and more.
Grown(new, lines) ==
    Len(lines) <= Len(new) /\ \A i \in 1..Len(lines) : new[i] = lines[i]

LEMMA GrownOf ==
    ASSUME NEW lines \in Seq(AnyLine), NEW new \in Seq(AnyLine), Grown(new, lines),
           NEW tok
    PROVE  /\ Of(lines, tok) \subseteq Of(new, tok)
           /\ \A i \in Of(new, tok) : i \in Of(lines, tok) \/ i > Len(lines)
           /\ \A i \in Of(lines, tok) : new[i] = lines[i] /\ i <= Len(lines)
           /\ tok \in Tokens(lines) => tok \in Tokens(new)
<1>1. /\ DOMAIN lines = 1..Len(lines) /\ DOMAIN new = 1..Len(new)
      /\ Len(lines) \in Nat /\ Len(new) \in Nat
  BY FileTypes
<1>2. Readable(lines) \subseteq Readable(new)
  BY <1>1 DEF Grown, Readable
<1>3. \A i \in Readable(new) : i \in Readable(lines) \/ i > Len(lines)
  BY <1>1 DEF Grown, Readable
<1>4. \A i \in Readable(lines) : new[i] = lines[i] /\ i <= Len(lines)
  BY <1>1 DEF Grown, Readable
<1>5. tok \in Tokens(lines) => tok \in Tokens(new)
  BY <1>2, <1>4 DEF Tokens
<1> QED
  BY <1>2, <1>3, <1>4, <1>5 DEF Of

\* Of lines that have a least one below all that is added, that stays the least.
LEMMA LeastStays ==
    ASSUME NEW n \in Nat, NEW A, NEW B, A \subseteq 0..n, A # {}, A \subseteq B, B \subseteq Nat,
           \A i \in B : i \in A \/ i > n
    PROVE  (CHOOSE i \in B : \A j \in B : i <= j) = (CHOOSE i \in A : \A j \in A : i <= j)
<1> DEFINE a == CHOOSE i \in A : \A j \in A : i <= j
           b == CHOOSE i \in B : \A j \in B : i <= j
<1>1. A \subseteq Nat
  OBVIOUS
<1>2. \E i \in A : \A j \in A : i <= j
  BY <1>1, NatLeast
<1>3. a \in A /\ \A j \in A : a <= j
  BY <1>2, Zenon
<1>4. \E i \in B : \A j \in B : i <= j
  BY NatLeast
<1>5. b \in B /\ \A j \in B : b <= j
  BY <1>4, Zenon
<1> HIDE DEF a, b
<1>6. a \in Nat /\ b \in Nat /\ a <= n /\ b <= a
  BY <1>1, <1>3, <1>5
<1>7. b \in A
  BY <1>5, <1>6
<1>8. a = b
  BY <1>3, <1>6, <1>7
<1> QED
  BY <1>8 DEF a, b

LEMMA GrownFirst ==
    ASSUME NEW lines \in Seq(AnyLine), NEW new \in Seq(AnyLine), Grown(new, lines),
           NEW tok \in Tokens(lines)
    PROVE  First(new, tok) = First(lines, tok)
<1> DEFINE A == Of(lines, tok)
           B == Of(new, tok)
           n == Len(lines)
<1>1. n \in Nat /\ A \subseteq 0..n /\ B \subseteq Nat
  BY OfTypes, FileTypes
<1>2. A # {}
  BY FirstFacts
<1>3. A \subseteq B /\ \A i \in B : i \in A \/ i > n
  BY GrownOf
<1> HIDE DEF A, B, n
<1>4. (CHOOSE i \in B : \A j \in B : i <= j) = (CHOOSE i \in A : \A j \in A : i <= j)
  BY <1>1, <1>2, <1>3, LeastStays
<1> QED
  BY <1>4 DEF First, A, B

LEMMA GrownLabel ==
    ASSUME NEW lines \in Seq(AnyLine), NEW new \in Seq(AnyLine), Grown(new, lines),
           NEW tok \in Tokens(lines), Label(lines, tok) # None
    PROVE  Label(new, tok) = Label(lines, tok)
<1> DEFINE A == {i \in Of(lines, tok) : lines[i].label # None}
           B == {i \in Of(new, tok) : new[i].label # None}
           n == Len(lines)
           a == CHOOSE i \in A : \A j \in A : i <= j
           b == CHOOSE i \in B : \A j \in B : i <= j
<1>1. n \in Nat /\ A \subseteq 0..n /\ B \subseteq Nat
  BY OfTypes, FileTypes
<1>2. A # {}
  BY DEF Label
<1>3. A \subseteq B /\ \A i \in B : i \in A \/ i > n
  BY GrownOf
<1>4. \A i \in A : new[i] = lines[i]
  BY GrownOf
<1>5. /\ Label(lines, tok) = IF A = {} THEN None ELSE lines[a].label
      /\ Label(new, tok) = IF B = {} THEN None ELSE new[b].label
  BY Zenon DEF Label
<1> HIDE DEF A, B, n
<1>6. a = b
  BY <1>1, <1>2, <1>3, LeastStays
<1>7. A \subseteq Nat
  BY <1>1
<1>8. \E i \in A : \A j \in A : i <= j
  BY <1>2, <1>7, NatLeast
<1>9. a \in A
  BY <1>8, Zenon
<1> HIDE DEF a, b
<1> QED
  BY <1>3, <1>4, <1>5, <1>6, <1>9

\* The latest time of a token.
Latest(lines, tok) ==
    CHOOSE t \in {lines[i].at : i \in Of(lines, tok)} : \A i \in Of(lines, tok) : lines[i].at <= t

LEMMA LatestFacts ==
    ASSUME NEW lines \in Seq(AnyLine), NEW tok \in Tokens(lines)
    PROVE  /\ \E i \in Of(lines, tok) : Latest(lines, tok) = lines[i].at
           /\ \A i \in Of(lines, tok) : lines[i].at <= Latest(lines, tok)
<1> DEFINE S == Of(lines, tok)
           f == [i \in S |-> lines[i].at]
<1>1. IsFiniteSet(S) /\ S # {}
  BY FileTypes, FS_Subset, FirstFacts DEF Of, Readable
<1>2. \A i \in S : f[i] \in Nat
  BY OfTypes
<1>3. \E x \in S : \A y \in S : f[y] <= f[x]
  <2> HIDE DEF S, f
  <2> QED
    BY <1>1, <1>2, LargestExists
<1>4. \E t \in {lines[i].at : i \in S} : \A i \in S : lines[i].at <= t
  BY <1>3
<1>5. Latest(lines, tok) \in {lines[i].at : i \in S} /\ \A i \in S : lines[i].at <= Latest(lines, tok)
  BY <1>4, Zenon DEF Latest
<1> QED
  BY <1>5

LEMMA GrownLatest ==
    ASSUME NEW lines \in Seq(AnyLine), NEW new \in Seq(AnyLine), Grown(new, lines),
           NEW tok \in Tokens(lines)
    PROVE  Latest(new, tok) >= Latest(lines, tok)
<1>1. PICK i \in Of(lines, tok) : Latest(lines, tok) = lines[i].at
  BY LatestFacts
<1>2. i \in Of(new, tok) /\ new[i] = lines[i] /\ tok \in Tokens(new)
  BY GrownOf
<1>3. new[i].at <= Latest(new, tok)
  BY <1>2, LatestFacts
<1>4. PICK j \in Of(new, tok) : Latest(new, tok) = new[j].at
  BY <1>2, LatestFacts
<1>5. lines[i].at \in Nat /\ new[j].at \in Nat
  BY OfTypes
<1> QED
  BY <1>1, <1>2, <1>3, <1>4, <1>5

LEMMA GrownBefore ==
    ASSUME NEW lines \in Seq(AnyLine), NEW new \in Seq(AnyLine), Grown(new, lines),
           NEW a \in Tokens(lines), NEW b \in Tokens(lines)
    PROVE  Before(new, a, b) <=> Before(lines, a, b)
<1>1. First(new, a) = First(lines, a) /\ First(new, b) = First(lines, b)
  BY GrownFirst
<1>2. new[First(lines, a)] = lines[First(lines, a)] /\ new[First(lines, b)] = lines[First(lines, b)]
  BY FirstFacts, GrownOf
<1> QED
  BY <1>1, <1>2, Zenon DEF Before

LEMMA GrownExtends ==
    ASSUME NEW lines \in Seq(AnyLine), NEW new \in Seq(AnyLine), Grown(new, lines)
    PROVE  Extends(Members(new), Members(lines))
<1> DEFINE ol == Members(lines)
           nl == Members(new)
           s == Order(lines)
           r == Order(new)
<1>1. /\ DOMAIN ol = DOMAIN s
      /\ \A k \in DOMAIN ol : /\ ol[k] = Member(lines, s[k]) /\ ol[k].token = s[k]
                              /\ s[k] \in Tokens(lines)
  BY MembersFacts
<1>2. /\ DOMAIN nl = DOMAIN r
      /\ \A k \in DOMAIN nl : nl[k] = Member(new, r[k]) /\ nl[k].token = r[k]
      /\ \A a \in Tokens(new) : \E k \in DOMAIN nl : r[k] = a
  BY MembersFacts
<1>3. /\ DOMAIN s \subseteq Nat
      /\ \A i, j \in DOMAIN s : i # j => s[i] # s[j]
      /\ \A i, j \in DOMAIN s : i < j => Before(lines, s[i], s[j])
  BY OrderFacts
<1>4. /\ DOMAIN r \subseteq Nat
      /\ \A i, j \in DOMAIN r : i # j => r[i] # r[j]
      /\ \A i, j \in DOMAIN r : i < j => Before(new, r[i], r[j])
  BY OrderFacts
<1> HIDE DEF ol, nl, s, r
<1>5. ASSUME NEW k \in DOMAIN ol
      PROVE  \E i \in DOMAIN nl : /\ nl[i].token = ol[k].token /\ nl[i].first = ol[k].first
                                  /\ nl[i].last >= ol[k].last
                                  /\ ol[k].label # None => nl[i].label = ol[k].label
  <2> DEFINE a == s[k]
  <2>1. ol[k] = Member(lines, a) /\ ol[k].token = a /\ a \in Tokens(lines)
    BY <1>1
  <2>2. a \in Tokens(new)
    BY <2>1, GrownOf
  <2>3. PICK i \in DOMAIN nl : r[i] = a
    BY <1>2, <2>2
  <2>4. nl[i] = Member(new, a) /\ nl[i].token = a
    BY <1>2, <2>3
  <2> HIDE DEF a
  <2>5. new[First(new, a)] = lines[First(lines, a)]
    BY <2>1, GrownFirst, FirstFacts, GrownOf
  <2>6. /\ \A t : Member(lines, t).first = lines[First(lines, t)].at
        /\ \A t : Member(new, t).first = new[First(new, t)].at
        /\ \A t : Member(lines, t).label = Label(lines, t)
        /\ \A t : Member(new, t).label = Label(new, t)
    BY DEF Member
  <2>7. Member(lines, a).last = Latest(lines, a) /\ Member(new, a).last = Latest(new, a)
    BY DEF Member, Latest
  <2>8. nl[i].first = ol[k].first
    BY <2>1, <2>4, <2>5, <2>6
  <2>9. nl[i].last >= ol[k].last
    BY <2>1, <2>4, <2>7, GrownLatest
  <2>10. ol[k].label # None => nl[i].label = ol[k].label
    BY <2>1, <2>4, <2>6, GrownLabel
  <2> QED
    BY <2>1, <2>4, <2>8, <2>9, <2>10
<1>6. ASSUME NEW j \in DOMAIN ol, NEW k \in DOMAIN ol, NEW h \in DOMAIN nl, NEW i \in DOMAIN nl,
             nl[h].token = ol[j].token, nl[i].token = ol[k].token
      PROVE  h < i <=> j < k
  <2> DEFINE a == s[j]
             b == s[k]
  <2>1. r[h] = a /\ r[i] = b /\ a \in Tokens(lines) /\ b \in Tokens(lines)
    BY <1>1, <1>2, <1>6
  <2>2. j \in DOMAIN s /\ k \in DOMAIN s /\ h \in DOMAIN r /\ i \in DOMAIN r
    BY <1>1, <1>2
  <2>3. j \in Nat /\ k \in Nat /\ h \in Nat /\ i \in Nat
    BY <1>3, <1>4, <2>2
  <2>4. /\ j < k => Before(lines, a, b)
        /\ k < j => Before(lines, b, a)
        /\ a = b => j = k
    BY <1>3, <2>2
  <2>5. /\ h < i => Before(new, a, b)
        /\ i < h => Before(new, b, a)
        /\ a = b => h = i
    BY <1>4, <2>1, <2>2
  <2>6. (h = i => a = b) /\ (j = k => a = b)
    BY <2>1
  <2> HIDE DEF a, b
  <2>7. (Before(new, a, b) <=> Before(lines, a, b)) /\ (Before(new, b, a) <=> Before(lines, b, a))
    BY <2>1, GrownBefore
  <2>8. Before(lines, a, b) => ~Before(lines, b, a)
    BY <2>1, PlacesOrder
  <2> QED
    BY <2>3, <2>4, <2>5, <2>6, <2>7, <2>8
<1>7. Extends(nl, ol)
  BY <1>5, <1>6, Zenon DEF Extends
<1> QED
  BY <1>7 DEF ol, nl

LEMMA StepGrows ==
    ASSUME IndexInv, [Next]_groupVars, NEW g \in (linked \cap linked') \ ragged
    PROVE  Extends(Members(index'[g]), Members(index[g]))
<1>1. g \in Groups /\ index[g] \in Seq(AnyLine)
  BY DEF IndexInv, IndexTypes
<1>2. Grown(index[g], index[g])
  BY <1>1 DEF Grown
<1>3. CASE index'[g] = index[g]
  BY <1>1, <1>2, <1>3, GrownExtends
<1>4. ASSUME NEW line \in AnyLine, index'[g] = Append(index[g], line)
      PROVE  Extends(Members(index'[g]), Members(index[g]))
  <2> DEFINE new == index'[g]
  <2>1. /\ new \in Seq(AnyLine) /\ Len(new) = Len(index[g]) + 1
        /\ \A i \in 1..Len(index[g]) : new[i] = index[g][i]
    BY <1>1, <1>4, Appended
  <2> HIDE DEF new
  <2>2. Grown(new, index[g])
    BY <1>1, <2>1 DEF Grown
  <2>3. Extends(Members(new), Members(index[g]))
    BY <1>1, <2>1, <2>2, GrownExtends
  <2> QED
    BY <2>3 DEF new
<1>5. ASSUME NEW l \in Legs, NEW line \in {Garbage, Line(l)}, NEW whole \in BOOLEAN,
             handler[l] = "stamped", Writes(GroupOf(l), line, whole)
      PROVE  index'[g] = index[g] \/ \E w \in AnyLine : index'[g] = Append(index[g], w)
  <2>1. GroupOf(l) \in Groups /\ line \in AnyLine
    BY <1>5, LegFacts, GarbageLine DEF IndexInv, StampedInGroup
  <2>2. /\ index'[GroupOf(l)] = AppendLine(GroupOf(l), line)
        /\ \A h \in Groups : h # GroupOf(l) => index'[h] = index[h]
    BY <1>5, <2>1, WriteFacts DEF IndexInv
  <2> QED
    BY <1>1, <2>1, <2>2 DEF AppendLine
<1>6. index'[g] = index[g] \/ \E w \in AnyLine : index'[g] = Append(index[g], w)
  <2>1. CASE \E l \in Legs : Stamp(l) \/ OpensUnlisted(l) \/ JoinFails(l)
    BY <2>1 DEF Stamp, OpensUnlisted, JoinFails
  <2>2. ASSUME NEW l \in Legs, Join(l)
        PROVE  index'[g] = index[g] \/ \E w \in AnyLine : index'[g] = Append(index[g], w)
    BY <1>5, <2>2 DEF Join
  <2>3. ASSUME NEW l \in Legs, JoinTears(l)
        PROVE  index'[g] = index[g] \/ \E w \in AnyLine : index'[g] = Append(index[g], w)
    BY <1>5, <2>3 DEF JoinTears
  <2>4. ASSUME NEW h \in Groups, Sweeps(h)
        PROVE  index'[g] = index[g]
    BY <1>1, <2>4 DEF Sweeps, IndexInv, IndexTypes
  <2>5. CASE Tick \/ UNCHANGED groupVars
    BY <2>5 DEF Tick, groupVars
  <2> QED
    BY <2>1, <2>2, <2>3, <2>4, <2>5 DEF Next
<1> QED
  BY <1>3, <1>4, <1>6

\* While an index grows no stream leaves its listing, changes its place among the
\* others or loses its label (group.go:72), for any number of legs whose lines
\* land in any order.
THEOREM ListingOnlyGrows == Spec => ListingStable
<1>1. IndexInv /\ [Next]_groupVars =>
        [\A g \in (linked \cap linked') \ ragged :
           \A old \in {Members(index[g])}, new \in {Members(index'[g])} :
               Extends(new, old)]_groupVars
  BY StepGrows
<1> QED
  BY <1>1, IndexInvariant, PTL DEF Spec, ListingStable

-----------------------------------------------------------------------------
\* A watcher finds its legs.

LEMMA FindsLegs == IndexInv => WatcherFinds
<1> SUFFICES ASSUME IndexInv, NEW l \in Legs, NEW w \in Envs,
                    w.key = env[l].key, RunOf(w) = RunOf(env[l]),
                    env[l].group = None, w.group = None, GroupOf(l) # None,
                    \A i \in DOMAIN index[GroupOf(l)] : ~index[GroupOf(l)][i].garbage,
                    \E line \in accepted[GroupOf(l)] : line.token = TokenOf(l)
             PROVE  TokenOf(l) \in {m.token : m \in Range(Listing(GroupArg[w]))}
  BY DEF WatcherFinds
<1> DEFINE e == env[l]
           g == GroupOf(l)
           lines == index[g]
<1>1. e \in Envs /\ g \in Groups /\ lines \in Seq(AnyLine) /\ IsFiniteSet(accepted[g])
  BY LegFacts DEF IndexInv, IndexTypes, AcceptedStored
<1>2. g = DeriveGroup(e.key, RunOf(e))
  <2>1. g = getStreamGroup(e)
    BY <1>1, GroupedLeg DEF GroupOf
  <2>2. derivedGroupContext(e) = RunOf(e)
    BY <1>1, GroupContextIsRun
  <2> QED
    BY <2>1, <2>2, Zenon DEF getStreamGroup, Or
<1>3. GroupArg[w] = g
  <2>1. GroupArg[w] = getStreamGroup(w)
    BY DEF GroupArg
  <2>2. derivedGroupContext(w) = RunOf(w)
    BY GroupContextIsRun
  <2>3. getStreamGroup(w) = DeriveGroup(w.key, RunOf(w))
    BY <2>2, Zenon DEF getStreamGroup, Or
  <2> QED
    BY <1>2, <2>1, <2>3
<1>4. g \in linked
  BY <1>1 DEF IndexInv, AcceptedStored
<1>5. TokenOf(l) \in Tokens(lines)
  <2> DEFINE L == accepted[g] \ {lines[i] : i \in Readable(lines)}
             C == {i \in DOMAIN lines : lines[i].garbage}
  <2>1. Cardinality(L) <= Cardinality(C)
    BY <1>1, LossInIndex DEF LostPerTear
  <2>2. C = {}
    OBVIOUS
  <2>3. IsFiniteSet(L)
    BY <1>1, FS_Subset
  <2> HIDE DEF L, C
  <2>4. L = {}
    BY <2>1, <2>2, <2>3, FS_EmptySet, FS_CardinalityType
  <2>5. PICK line \in accepted[g] : line.token = TokenOf(l)
    OBVIOUS
  <2>6. PICK i \in Readable(lines) : line = lines[i]
    BY <2>4, <2>5 DEF L
  <2> QED
    BY <2>5, <2>6 DEF Tokens
<1>6. Listing(g) = Members(lines)
  BY <1>4 DEF Listing
<1> HIDE DEF g, lines
<1>7. PICK k \in DOMAIN Members(lines) : Members(lines)[k].token = TokenOf(l)
  BY <1>1, <1>5, MembersFacts
<1>8. Members(lines)[k] \in Range(Listing(g))
  BY <1>6 DEF Range
<1> QED
  BY <1>3, <1>7, <1>8

\* A watcher that knows the key and the run finds every leg of the run, whatever
\* its job and name (root.go:135-136, streams.go:27-30): for every environment.
THEOREM WatchersFindTheirLegs == Spec => []WatcherFinds
  BY IndexInvariant, FindsLegs, PTL

-----------------------------------------------------------------------------
\* Legs are told apart.

\* What two legs of one group have in common.
LEMMA SameGroup ==
    ASSUME NEW d \in Envs, NEW e \in Envs, d.group = None, e.group = None,
           Dialled[d].group # None, Dialled[d].group = Dialled[e].group,
           d.context # None <=> e.context # None
    PROVE  /\ d.key = e.key
           /\ d.context # None => d.context = e.context
           /\ d.context = None => d.run = e.run
<1>1. /\ derivedGroupContext(d) = RunOf(d) /\ derivedGroupContext(e) = RunOf(e)
      /\ RunOf(d) \in Parts /\ RunOf(e) \in Parts
  BY GroupContextIsRun
<1>2. Dialled[d].group = getStreamGroup(d) /\ Dialled[e].group = getStreamGroup(e)
  BY GroupedLeg
<1>3. /\ getStreamGroup(d) = DeriveGroup(d.key, RunOf(d))
      /\ getStreamGroup(e) = DeriveGroup(e.key, RunOf(e))
  BY <1>1, Zenon DEF getStreamGroup, Or
<1>4. d.key = e.key /\ RunOf(d) = RunOf(e)
  <2> DEFINE j == d.key
             k == e.key
             a == RunOf(d)
             b == RunOf(e)
  <2>1. /\ a \in Parts /\ b \in Parts
        /\ DeriveGroup(j, a) # None /\ DeriveGroup(j, a) = DeriveGroup(k, b)
    BY <1>1, <1>2, <1>3
  <2> HIDE DEF j, k, a, b
  <2>2. j = k /\ a = b
    BY <2>1, GroupTells
  <2> QED
    BY <2>2 DEF j, k, a, b
<1> QED
  BY <1>4 DEF RunOf, Or

\* With no token of its own, a leg has the one of its key and its context.
LEMMA TokenOfLeg ==
    ASSUME NEW e \in Envs, e.token = None, Dialled[e].group # None
    PROVE  Dialled[e].token = Derive(e.key, derivedContext(e)) /\ Dialled[e].token # None
<1>1. Dialled[e].token = getStreamToken(e) /\ Dialled[e].token # None
  BY GroupedLeg
<1>2. getStreamToken(e) = Derive(e.key, derivedContext(e))
  BY Zenon DEF getStreamToken, Or
<1> QED
  BY <1>1, <1>2

\* What LegsApart supposes of a leg.
Plain(e) == e.job # None /\ e.token = None /\ e.label = None /\ e.group = None

LEMMA ApartByLabel ==
    ASSUME NEW d \in Envs, NEW e \in Envs, Plain(d), Plain(e),
           Dialled[d].group # None, Dialled[d].group = Dialled[e].group,
           d.context # None <=> e.context # None,
           Dialled[d].label = Dialled[e].label
    PROVE  Dialled[d].token = Dialled[e].token
<1> USE DEF Plain
<1>1. d.job \o d.name = e.job \o e.name
  BY GroupedLeg, LabelOfLeg
<1>2. /\ d.job \in Seq(STRING) /\ d.name \in Seq(STRING) /\ Len(d.job) = 1
      /\ e.job \in Seq(STRING) /\ e.name \in Seq(STRING) /\ Len(e.job) = 1
  BY EnvTypes DEF Parts
<1>3. d.job = e.job /\ d.name = e.name
  <2> DEFINE a == d.job
             b == d.name
             p == e.job
             q == e.name
  <2>1. /\ a \in Seq(STRING) /\ b \in Seq(STRING) /\ p \in Seq(STRING) /\ q \in Seq(STRING)
        /\ Len(a) = Len(p) /\ a \o b = p \o q
    BY <1>1, <1>2, Zenon
  <2> HIDE DEF a, b, p, q
  <2>2. a = p /\ b = q
    BY <2>1, ConcatCancels, Zenon
  <2> QED
    BY <2>2 DEF a, b, p, q
<1>4. /\ d.key = e.key
      /\ d.context # None => d.context = e.context
      /\ d.context = None => d.run = e.run
  BY SameGroup
<1>5. derivedContext(d) = derivedContext(e)
  BY <1>3, <1>4, StreamContext
<1>6. /\ Dialled[d].token = Derive(d.key, derivedContext(d))
      /\ Dialled[e].token = Derive(e.key, derivedContext(e))
  BY TokenOfLeg
<1> QED
  BY <1>4, <1>5, <1>6, Zenon

LEMMA ApartByName ==
    ASSUME NEW d \in Envs, NEW e \in Envs, Plain(d), Plain(e),
           Dialled[d].group # None, Dialled[d].group = Dialled[e].group,
           d.context # None <=> e.context # None,
           Dialled[d].token = Dialled[e].token
    PROVE  d.name = e.name
<1> USE DEF Plain
<1>1. /\ d.context # None => d.context = e.context
      /\ d.context = None => d.run = e.run
  BY SameGroup
<1>2. derivedContext(d) = derivedContext(e)
  BY TokenOfLeg, DeriveInjective
<1>3. /\ d.context \in Seq(STRING) /\ d.run \in Seq(STRING)
      /\ d.job \in Seq(STRING) /\ d.name \in Seq(STRING) /\ Len(d.job) = 1
      /\ e.job \in Seq(STRING) /\ e.name \in Seq(STRING) /\ Len(e.job) = 1
  BY EnvTypes DEF Parts
<1> DEFINE a == IF d.context # None THEN d.context ELSE d.run \o d.job
           p == IF d.context # None THEN d.context ELSE d.run \o e.job
           b == d.name
           q == e.name
<1>4. /\ d.run \o d.job \in Seq(STRING) /\ d.run \o e.job \in Seq(STRING)
      /\ Len(d.run \o d.job) = Len(d.run) + Len(d.job)
      /\ Len(d.run \o e.job) = Len(d.run) + Len(e.job)
  <2>1. d.run \in Parts /\ d.job \in Parts /\ e.job \in Parts
    BY <1>3 DEF Parts
  <2>2. /\ d.run \o d.job \in Parts /\ Len(d.run \o d.job) = Len(d.run) + Len(d.job)
        /\ d.run \o e.job \in Parts /\ Len(d.run \o e.job) = Len(d.run) + Len(e.job)
    BY <2>1, ConcatParts
  <2> QED
    BY <2>2, Zenon DEF Parts
<1>5. a \in Seq(STRING) /\ b \in Seq(STRING) /\ p \in Seq(STRING) /\ q \in Seq(STRING)
  BY <1>3, <1>4
<1>6. Len(a) = Len(p)
  BY <1>3, <1>4
<1>7. a \o b = p \o q
  BY <1>1, <1>2, StreamContext
<1> HIDE DEF a, p, b, q
<1>8. b = q
  BY <1>5, <1>6, <1>7, ConcatCancels, Zenon
<1> QED
  BY <1>8 DEF b, q

\* The label that a listing gives a stream is that of a leg of the stream.
LEMMA LabelIsOfLeg ==
    ASSUME IndexInv, NEW g \in Groups, NEW tok \in Tokens(index[g]),
           \A l \in Legs : Plain(env[l])
    PROVE  \E l \in Legs : /\ GroupOf(l) = g /\ tok = TokenOf(l)
                          /\ Label(index[g], tok) = Dialled[env[l]].label
<1> DEFINE lines == index[g]
           N == {i \in Of(lines, tok) : lines[i].label # None}
           n == CHOOSE i \in N : \A j \in N : i <= j
<1>1. lines \in Seq(AnyLine)
  BY DEF IndexInv, IndexTypes
<1>2. ASSUME NEW i \in Of(lines, tok)
      PROVE  \E l \in Legs : /\ GroupOf(l) = g /\ tok = TokenOf(l)
                            /\ lines[i].label = Dialled[env[l]].label
                            /\ lines[i].label # None
  <2>1. PICK l \in Legs : /\ GroupOf(l) = g /\ lines[i].token = TokenOf(l)
                          /\ lines[i].label = Dialled[env[l]].label
    BY DEF IndexInv, LinesOfLegs, Of, Readable
  <2>2. env[l] \in Envs /\ Dialled[env[l]].group # None
    BY <2>1 DEF IndexInv, IndexTypes, GroupOf, Groups
  <2>3. Dialled[env[l]].label # None
    BY <2>2, GroupedLeg, LabelOfLeg DEF Plain
  <2>4. lines[i].token = tok
    BY DEF Of
  <2> QED
    BY <2>1, <2>3, <2>4
<1>3. First(lines, tok) \in Of(lines, tok)
  BY <1>1, FirstFacts
<1>4. N # {} /\ N \subseteq Nat
  BY <1>1, <1>2, <1>3, OfTypes
<1>5. n \in N
  <2> HIDE DEF N
  <2>1. \E i \in N : \A j \in N : i <= j
    BY <1>4, NatLeast
  <2> QED
    BY <2>1, Zenon
<1>6. Label(lines, tok) = IF N = {} THEN None ELSE lines[n].label
  BY Zenon DEF Label
<1> HIDE DEF n
<1>7. n \in Of(lines, tok) /\ Label(lines, tok) = lines[n].label
  BY <1>4, <1>5, <1>6
<1> QED
  BY <1>2, <1>7

LEMMA TellsApart == IndexInv => LegsApart
<1> SUFFICES ASSUME IndexInv, NEW g \in Groups,
                    \A l \in Legs : Plain(env[l]),
                    \A l, m \in Legs : env[l].context # None <=> env[m].context # None
             PROVE  /\ \A m, n \in Range(Listing(g)) : m # n => m.label # n.label
                    /\ \A l, m \in Legs : GroupOf(l) = g /\ GroupOf(m) = g /\ env[l].name # env[m].name
                          => TokenOf(l) # TokenOf(m)
  BY DEF LegsApart, Plain
<1>1. \A l \in Legs : env[l] \in Envs
  BY DEF IndexInv, IndexTypes
<1>2. index[g] \in Seq(AnyLine) /\ g # None
  BY DEF IndexInv, IndexTypes, Groups
<1>3. ASSUME NEW m \in Range(Listing(g)), NEW n \in Range(Listing(g)), m.label = n.label
      PROVE  m = n
  <2>1. Listing(g) = Members(index[g])
    BY <1>3 DEF Listing, Range
  <2>2. PICK j \in DOMAIN Members(index[g]) : m = Members(index[g])[j]
    BY <2>1 DEF Range
  <2>3. PICK k \in DOMAIN Members(index[g]) : n = Members(index[g])[k]
    BY <2>1 DEF Range
  <2> DEFINE a == Order(index[g])[j]
             b == Order(index[g])[k]
  <2>4. /\ m = Member(index[g], a) /\ a \in Tokens(index[g])
        /\ n = Member(index[g], b) /\ b \in Tokens(index[g])
    BY <1>2, <2>2, <2>3, MembersFacts
  <2> HIDE DEF a, b
  <2>5. Label(index[g], a) = Label(index[g], b)
    BY <1>3, <2>4 DEF Member
  <2>6. PICK l \in Legs : /\ GroupOf(l) = g /\ a = TokenOf(l)
                          /\ Label(index[g], a) = Dialled[env[l]].label
    BY <2>4, LabelIsOfLeg
  <2>7. PICK o \in Legs : /\ GroupOf(o) = g /\ b = TokenOf(o)
                          /\ Label(index[g], b) = Dialled[env[o]].label
    BY <2>4, LabelIsOfLeg
  <2>8. a = b
    BY <1>1, <1>2, <2>5, <2>6, <2>7, ApartByLabel DEF GroupOf, TokenOf
  <2> QED
    BY <2>4, <2>8
<1>4. ASSUME NEW l \in Legs, NEW m \in Legs, GroupOf(l) = g, GroupOf(m) = g,
             TokenOf(l) = TokenOf(m)
      PROVE  env[l].name = env[m].name
  BY <1>1, <1>2, <1>4, ApartByName DEF GroupOf, TokenOf
<1> QED
  BY <1>3, <1>4

\* The streams of a run that names its jobs have labels of their own, and legs of
\* different names streams of their own (root.go:151-153, token.go:45-46).
THEOREM LegsAreToldApart == Spec => []LegsApart
  BY IndexInvariant, TellsApart, PTL
=============================================================================
