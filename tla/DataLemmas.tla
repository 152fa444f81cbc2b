----------------------------- MODULE DataLemmas -----------------------------
(***************************************************************************)
(* Induction over naturals and finite sets in a form the provers can use,  *)
(* with a set in the place of a predicate, and what follows from it about  *)
(* the sums, lists and folds of the community modules and about functions  *)
(* that are defined by themselves.                                         *)
(***************************************************************************)
EXTENDS Integers, Sequences, FiniteSets, FiniteSetsExt, Functions, SequencesExt, FiniteSetTheorems,
        WellFoundedInduction, TLAPS

\* A set of naturals has a least element.
LEMMA NatLeast ==
    ASSUME NEW T, T \subseteq Nat, T # {}
    PROVE  \E n \in T : \A m \in T : n <= m
<1>1. IsWellFoundedOn(OpToRel(<, Nat), Nat)
  BY NatLessThanWellFounded, Zenon
<1>2. PICK n \in T : \A m \in T : ~(<<m, n>> \in OpToRel(<, Nat))
  BY <1>1, WFMin, Zenon
<1>3. \A m \in T : ~(m < n)
  BY <1>2, Zenon DEF OpToRel
<1> QED
  BY <1>3

\* A set with 0 that is closed under successor holds every natural.
LEMMA NatInduct ==
    ASSUME NEW F, 0 \in F, \A n \in Nat : n \in F => n + 1 \in F
    PROVE  \A n \in Nat : n \in F
<1> SUFFICES ASSUME Nat \ F # {} PROVE FALSE
  OBVIOUS
<1>1. PICK n \in Nat \ F : \A m \in Nat \ F : n <= m
  BY NatLeast
<1>2. n - 1 \in Nat /\ n - 1 \in F
  BY <1>1
<1> QED
  BY <1>1, <1>2

-----------------------------------------------------------------------------
\* The element that a fold of the community modules takes next.
Pick(s) == CHOOSE x \in s : TRUE

LEMMA PickIn == \A s : s # {} => Pick(s) \in s
  BY DEF Pick

\* What a set loses with that element.
LEMMA PickRest ==
    ASSUME NEW S, IsFiniteSet(S), NEW s \in SUBSET S, s # {}
    PROVE  /\ s \ {Pick(s)} \in SUBSET S
           /\ Cardinality(s) \in Nat
           /\ Cardinality(s \ {Pick(s)}) = Cardinality(s) - 1
<1>1. IsFiniteSet(s) /\ Cardinality(s) \in Nat
  BY FS_Subset, FS_CardinalityType
<1> QED
  BY <1>1, PickIn, FS_RemoveElement

\* Induction over the subsets of a finite set, in the order of a fold.
LEMMA PickInduct ==
    ASSUME NEW S, IsFiniteSet(S), NEW F, {} \in F,
           \A s \in SUBSET S : s # {} /\ s \ {Pick(s)} \in F => s \in F
    PROVE  S \in F
<1> DEFINE G == {n \in Nat : \A s \in SUBSET S : Cardinality(s) = n => s \in F}
<1>0. \A s \in SUBSET S : /\ Cardinality(s) \in Nat
                          /\ Cardinality(s) = 0 => s = {}
  BY FS_Subset, FS_CardinalityType, FS_EmptySet
<1>1. 0 \in G
  BY <1>0
<1>2. ASSUME NEW n \in Nat, n \in G PROVE n + 1 \in G
  <2> SUFFICES ASSUME NEW s \in SUBSET S, Cardinality(s) = n + 1 PROVE s \in F
    OBVIOUS
  <2>1. s # {}
    BY FS_EmptySet
  <2>2. s \ {Pick(s)} \in SUBSET S /\ Cardinality(s \ {Pick(s)}) = n
    BY <2>1, PickRest
  <2> QED
    BY <1>2, <2>1, <2>2
<1> HIDE DEF G
<1>3. \A n \in Nat : n \in G
  BY <1>1, <1>2, NatInduct
<1> QED
  BY <1>0, <1>3 DEF G

-----------------------------------------------------------------------------
\* The recursion behind a sum.

SumStep(g, f, s) == IF s = {} THEN 0 ELSE f[Pick(s)] + g[s \ {Pick(s)}]

IsSum(g, f, S) == g = [s \in SUBSET S |-> SumStep(g, f, s)]

LEMMA SumByRecursion ==
    ASSUME NEW f, NEW S
    PROVE  SumFunctionOnSet(f, S) = (CHOOSE g : IsSum(g, f, S))[S]
  BY Zenon DEF SumFunctionOnSet, FoldFunctionOnSet, MapThenFoldSet, IsSum, SumStep, Pick

\* The equation has a solution, one level of cardinality after the other.
LEMMA SumExists ==
    ASSUME NEW f, NEW S, IsFiniteSet(S)
    PROVE  \E g : IsSum(g, f, S)
<1> DEFINE Upto(g, n) == \A s \in SUBSET S : Cardinality(s) <= n => g[s] = SumStep(g, f, s)
           G == {n \in Nat : \E g : Upto(g, n)}
<1>0. \A s \in SUBSET S : /\ Cardinality(s) \in Nat
                          /\ Cardinality(s) = 0 => s = {}
  BY FS_Subset, FS_CardinalityType, FS_EmptySet
<1>1. 0 \in G
  <2> DEFINE g == [s \in SUBSET S |-> 0]
  <2>1. Upto(g, 0)
    BY <1>0 DEF SumStep
  <2> QED
    BY <2>1
<1>2. ASSUME NEW n \in Nat, n \in G PROVE n + 1 \in G
  <2>1. PICK g : Upto(g, n)
    BY <1>2
  <2> DEFINE h == [s \in SUBSET S |-> IF Cardinality(s) = n + 1 THEN SumStep(g, f, s) ELSE g[s]]
  <2>2. ASSUME NEW s \in SUBSET S, Cardinality(s) <= n + 1
        PROVE  h[s] = SumStep(h, f, s)
    <3>1. CASE s = {}
      <4>1. s \in SUBSET S /\ Cardinality(s) = 0 /\ 0 # n + 1 /\ 0 <= n
        BY <3>1, FS_EmptySet
      <4>2. h[s] = g[s] /\ g[s] = SumStep(g, f, s)
        BY <2>1, <4>1
      <4>3. SumStep(g, f, s) = 0 /\ SumStep(h, f, s) = 0
        BY <3>1 DEF SumStep
      <4> QED
        BY <4>2, <4>3
    <3>2. CASE s # {}
      <4> DEFINE r == s \ {Pick(s)}
      <4>1. r \in SUBSET S /\ Cardinality(r) = Cardinality(s) - 1
        BY <3>2, PickRest
      <4>2. h[r] = g[r]
        BY <1>0, <2>2, <4>1
      <4>3. SumStep(h, f, s) = SumStep(g, f, s)
        BY <4>2 DEF SumStep
      <4>4. h[s] = SumStep(g, f, s)
        BY <1>0, <2>1, <2>2
      <4> QED
        BY <4>3, <4>4
    <3> QED
      BY <3>1, <3>2
  <2>3. Upto(h, n + 1)
    BY <2>2
  <2> HIDE DEF h, Upto
  <2>4. n + 1 \in Nat /\ \E k : Upto(k, n + 1)
    BY <2>3
  <2> QED
    BY <2>4
<1> HIDE DEF G
<1>3. Cardinality(S) \in G
  BY <1>0, <1>1, <1>2, NatInduct
<1>4. PICK g : Upto(g, Cardinality(S))
  BY <1>3 DEF G
<1> DEFINE h == [s \in SUBSET S |-> g[s]]
<1>5. \A s \in SUBSET S : Cardinality(s) <= Cardinality(S)
  BY FS_Subset
<1>6. \A s \in SUBSET S : h[s] = SumStep(g, f, s)
  BY <1>4, <1>5
<1>7. \A s \in SUBSET S : SumStep(h, f, s) = SumStep(g, f, s)
  BY DEF SumStep
<1>8. h = [s \in SUBSET S |-> SumStep(h, f, s)]
  BY <1>6, <1>7
<1> QED
  BY <1>8 DEF IsSum

\* The partial sums of f, by which the lemmas below go.
PartialSum(f, S) == CHOOSE g : IsSum(g, f, S)

AddsUp(g, f, S) ==
    /\ g[{}] = 0
    /\ \A s \in SUBSET S : s # {} => g[s] = f[Pick(s)] + g[s \ {Pick(s)}]

LEMMA PartialSums ==
    ASSUME NEW f, NEW S, IsFiniteSet(S)
    PROVE  /\ SumFunctionOnSet(f, S) = PartialSum(f, S)[S]
           /\ AddsUp(PartialSum(f, S), f, S)
<1> DEFINE g == PartialSum(f, S)
<1>1. IsSum(g, f, S)
  BY SumExists DEF PartialSum
<1>2. SumFunctionOnSet(f, S) = g[S]
  BY SumByRecursion DEF PartialSum
<1> HIDE DEF g
<1>3. \A s \in SUBSET S : g[s] = SumStep(g, f, s)
  BY <1>1 DEF IsSum
<1>4. AddsUp(g, f, S)
  BY <1>3 DEF SumStep, AddsUp
<1> QED
  BY <1>2, <1>4 DEF g

-----------------------------------------------------------------------------
\* What a sum over a finite set is worth.

LEMMA SumInt ==
    ASSUME NEW S, IsFiniteSet(S), NEW f, \A x \in S : f[x] \in Int
    PROVE  SumFunctionOnSet(f, S) \in Int
<1> DEFINE g == PartialSum(f, S)
           F == {s \in SUBSET S : g[s] \in Int}
<1>0. AddsUp(g, f, S)
  BY PartialSums
<1> USE DEF AddsUp
<1>1. {} \in F
  BY <1>0
<1>2. ASSUME NEW s \in SUBSET S, s # {}, s \ {Pick(s)} \in F
      PROVE  s \in F
  <2>1. g[s] = f[Pick(s)] + g[s \ {Pick(s)}] /\ Pick(s) \in S
    BY <1>0, <1>2, PickIn
  <2> HIDE DEF g
  <2>2. g[s] \in Int
    BY <1>2, <2>1
  <2> QED
    BY <2>2
<1> HIDE DEF F
<1>3. S \in F
  BY <1>1, <1>2, PickInduct
<1> QED
  BY <1>3, PartialSums DEF F

\* Pointwise: a sum of sums.
LEMMA SumAdds ==
    ASSUME NEW S, IsFiniteSet(S), NEW f, NEW h, NEW k,
           \A x \in S : f[x] \in Int /\ h[x] \in Int /\ k[x] = f[x] + h[x]
    PROVE  SumFunctionOnSet(k, S) = SumFunctionOnSet(f, S) + SumFunctionOnSet(h, S)
<1> DEFINE pf == PartialSum(f, S)
           ph == PartialSum(h, S)
           pk == PartialSum(k, S)
           F == {s \in SUBSET S : pf[s] \in Int /\ ph[s] \in Int /\ pk[s] = pf[s] + ph[s]}
<1>0. AddsUp(pf, f, S) /\ AddsUp(ph, h, S) /\ AddsUp(pk, k, S)
  BY PartialSums
<1> USE DEF AddsUp
<1>1. {} \in F
  BY <1>0
<1>2. ASSUME NEW s \in SUBSET S, s # {}, s \ {Pick(s)} \in F
      PROVE  s \in F
  <2>1. Pick(s) \in S
    BY <1>2, PickIn
  <2> DEFINE p == Pick(s)
             r == s \ {p}
  <2>2. /\ f[p] \in Int /\ h[p] \in Int /\ k[p] = f[p] + h[p]
        /\ pf[r] \in Int /\ ph[r] \in Int /\ pk[r] = pf[r] + ph[r]
    BY <1>2, <2>1
  <2>3. pf[s] = f[p] + pf[r] /\ ph[s] = h[p] + ph[r] /\ pk[s] = k[p] + pk[r]
    BY <1>0, <1>2
  <2> HIDE DEF pf, ph, pk, p, r
  <2>4. pf[s] \in Int /\ ph[s] \in Int /\ pk[s] = pf[s] + ph[s]
    BY <2>2, <2>3
  <2> QED
    BY <2>4
<1> HIDE DEF F
<1>3. S \in F
  BY <1>1, <1>2, PickInduct
<1> QED
  BY <1>3, PartialSums DEF F

\* Term by term.
LEMMA SumLeq ==
    ASSUME NEW S, IsFiniteSet(S), NEW f, NEW h,
           \A x \in S : f[x] \in Int /\ h[x] \in Int /\ f[x] <= h[x]
    PROVE  SumFunctionOnSet(f, S) <= SumFunctionOnSet(h, S)
<1> DEFINE pf == PartialSum(f, S)
           ph == PartialSum(h, S)
           F == {s \in SUBSET S : pf[s] \in Int /\ ph[s] \in Int /\ pf[s] <= ph[s]}
<1>0. AddsUp(pf, f, S) /\ AddsUp(ph, h, S)
  BY PartialSums
<1> USE DEF AddsUp
<1>1. {} \in F
  BY <1>0
<1>2. ASSUME NEW s \in SUBSET S, s # {}, s \ {Pick(s)} \in F
      PROVE  s \in F
  <2>1. Pick(s) \in S
    BY <1>2, PickIn
  <2> DEFINE p == Pick(s)
             r == s \ {p}
  <2>2. /\ f[p] \in Int /\ h[p] \in Int /\ f[p] <= h[p]
        /\ pf[r] \in Int /\ ph[r] \in Int /\ pf[r] <= ph[r]
    BY <1>2, <2>1
  <2>3. pf[s] = f[p] + pf[r] /\ ph[s] = h[p] + ph[r]
    BY <1>0, <1>2
  <2> HIDE DEF pf, ph, p, r
  <2>4. pf[s] \in Int /\ ph[s] \in Int /\ pf[s] <= ph[s]
    BY <2>2, <2>3
  <2> QED
    BY <2>4
<1> HIDE DEF F
<1>3. S \in F
  BY <1>1, <1>2, PickInduct
<1> QED
  BY <1>3, PartialSums DEF F

\* The same term, as often as there are elements.
LEMMA SumConstant ==
    ASSUME NEW S, IsFiniteSet(S), NEW f, NEW c \in Int, \A x \in S : f[x] = c
    PROVE  SumFunctionOnSet(f, S) = Cardinality(S) * c
<1> DEFINE g == PartialSum(f, S)
           F == {s \in SUBSET S : g[s] = Cardinality(s) * c}
<1>0. AddsUp(g, f, S)
  BY PartialSums
<1> USE DEF AddsUp
<1>1. {} \in F
  BY <1>0, FS_EmptySet
<1>2. ASSUME NEW s \in SUBSET S, s # {}, s \ {Pick(s)} \in F
      PROVE  s \in F
  <2>1. /\ Cardinality(s) \in Nat
        /\ Cardinality(s \ {Pick(s)}) = Cardinality(s) - 1
        /\ f[Pick(s)] = c
    BY <1>2, PickRest, PickIn
  <2>2. (Cardinality(s) - 1) * c = Cardinality(s) * c - c
    BY <2>1
  <2>3. g[s] = c + (Cardinality(s) - 1) * c
    BY <1>0, <1>2, <2>1
  <2>4. Cardinality(s) * c \in Int
    BY <2>1
  <2> HIDE DEF g
  <2>5. g[s] = Cardinality(s) * c
    BY <2>2, <2>3, <2>4
  <2> QED
    BY <2>5
<1> HIDE DEF F
<1>3. S \in F
  BY <1>1, <1>2, PickInduct
<1> QED
  BY <1>3, PartialSums DEF F

LEMMA SumZero ==
    ASSUME NEW S, IsFiniteSet(S), NEW f, \A x \in S : f[x] = 0
    PROVE  SumFunctionOnSet(f, S) = 0
<1>1. SumFunctionOnSet(f, S) = Cardinality(S) * 0
  BY SumConstant
<1>2. Cardinality(S) * 0 = 0
  BY FS_CardinalityType
<1> QED
  BY <1>1, <1>2

\* One term changes: the sum by as much.
LEMMA SumChanges ==
    ASSUME NEW S, IsFiniteSet(S), NEW f, NEW h, NEW x \in S,
           \A y \in S : f[y] \in Int /\ h[y] \in Int,
           \A y \in S : y # x => h[y] = f[y]
    PROVE  SumFunctionOnSet(h, S) = SumFunctionOnSet(f, S) - f[x] + h[x]
<1> DEFINE pf == PartialSum(f, S)
           ph == PartialSum(h, S)
           F == {s \in SUBSET S : /\ pf[s] \in Int
                                  /\ ph[s] = IF x \in s THEN pf[s] - f[x] + h[x] ELSE pf[s]}
<1>0. AddsUp(pf, f, S) /\ AddsUp(ph, h, S)
  BY PartialSums
<1> USE DEF AddsUp
<1>1. {} \in F
  BY <1>0
<1>2. ASSUME NEW s \in SUBSET S, s # {}, s \ {Pick(s)} \in F
      PROVE  s \in F
  <2>1. Pick(s) \in s
    BY <1>2, PickIn
  <2> DEFINE p == Pick(s)
             r == s \ {p}
  <2>2. /\ p \in S /\ f[p] \in Int /\ f[x] \in Int /\ pf[r] \in Int
        /\ ph[r] = IF x \in r THEN pf[r] - f[x] + h[x] ELSE pf[r]
    BY <1>2, <2>1
  <2>3. pf[s] = f[p] + pf[r] /\ ph[s] = h[p] + ph[r]
    BY <1>0, <1>2
  <2>4. (x \in s <=> x \in r \/ x = p) /\ p \notin r
    BY <2>1
  <2> HIDE DEF pf, ph, p, r
  <2>5. CASE p = x
    BY <2>2, <2>3, <2>4, <2>5
  <2>6. CASE p # x
    BY <2>2, <2>3, <2>4, <2>6
  <2> QED
    BY <2>5, <2>6
<1> HIDE DEF F
<1>3. S \in F
  BY <1>1, <1>2, PickInduct
<1> QED
  BY <1>3, PartialSums DEF F

\* The same terms.
LEMMA SumSame ==
    ASSUME NEW S, IsFiniteSet(S), NEW f, NEW h, \A x \in S : f[x] \in Int /\ h[x] = f[x]
    PROVE  SumFunctionOnSet(h, S) = SumFunctionOnSet(f, S)
<1>1. SumFunctionOnSet(f, S) \in Int /\ SumFunctionOnSet(h, S) \in Int
  BY SumInt
<1>2. SumFunctionOnSet(f, S) <= SumFunctionOnSet(h, S)
  BY SumLeq
<1>3. SumFunctionOnSet(h, S) <= SumFunctionOnSet(f, S)
  BY SumLeq
<1> QED
  BY <1>1, <1>2, <1>3

\* Terms that are natural numbers: so is the sum, and no term exceeds it.
LEMMA SumNat ==
    ASSUME NEW S, IsFiniteSet(S), NEW f, \A x \in S : f[x] \in Nat
    PROVE  /\ SumFunctionOnSet(f, S) \in Nat
           /\ \A x \in S : f[x] <= SumFunctionOnSet(f, S)
<1>1. ASSUME NEW h, \A x \in S : h[x] \in Nat
      PROVE  SumFunctionOnSet(h, S) \in Nat
  <2> DEFINE z == [y \in S |-> 0]
  <2>1. SumFunctionOnSet(z, S) = Cardinality(S) * 0
    BY SumConstant
  <2>2. Cardinality(S) * 0 = 0
    BY FS_CardinalityType
  <2>3. \A y \in S : z[y] \in Int /\ h[y] \in Int /\ z[y] <= h[y]
    BY <1>1
  <2> HIDE DEF z
  <2>4. SumFunctionOnSet(z, S) <= SumFunctionOnSet(h, S)
    BY <2>3, SumLeq
  <2>5. SumFunctionOnSet(h, S) \in Int
    BY <2>3, SumInt
  <2> QED
    BY <2>1, <2>2, <2>4, <2>5
<1>2. ASSUME NEW x \in S
      PROVE  f[x] <= SumFunctionOnSet(f, S)
  <2> DEFINE h == [y \in S |-> IF y = x THEN 0 ELSE f[y]]
  <2>1. /\ \A y \in S : h[y] \in Nat
        /\ h[x] = 0 /\ \A y \in S : y # x => h[y] = f[y]
    OBVIOUS
  <2> HIDE DEF h
  <2>2. SumFunctionOnSet(h, S) = SumFunctionOnSet(f, S) - f[x] + h[x]
    BY <2>1, SumChanges
  <2>3. SumFunctionOnSet(h, S) \in Nat /\ SumFunctionOnSet(f, S) \in Nat
    BY <1>1, <2>1
  <2> QED
    BY <2>1, <2>2, <2>3
<1> QED
  BY <1>1, <1>2

\* Terms of at most c each, and one of them 0.
LEMMA SumOfOthers ==
    ASSUME NEW S, IsFiniteSet(S), NEW f, NEW c \in Nat, NEW x \in S, f[x] = 0,
           \A y \in S : f[y] \in Nat /\ f[y] <= c
    PROVE  SumFunctionOnSet(f, S) <= (Cardinality(S) - 1) * c
<1> DEFINE h == [y \in S |-> IF y = x THEN c ELSE f[y]]
           k == [y \in S |-> c]
<1>1. /\ \A y \in S : h[y] \in Int /\ k[y] \in Int /\ h[y] <= k[y] /\ k[y] = c
      /\ h[x] = c /\ \A y \in S : y # x => h[y] = f[y]
      /\ \A y \in S : f[y] \in Int
  OBVIOUS
<1> HIDE DEF h, k
<1>2. SumFunctionOnSet(h, S) = SumFunctionOnSet(f, S) - f[x] + h[x]
  BY <1>1, SumChanges
<1>3. SumFunctionOnSet(h, S) <= SumFunctionOnSet(k, S)
  BY <1>1, SumLeq
<1>4. SumFunctionOnSet(k, S) = Cardinality(S) * c
  BY <1>1, SumConstant
<1>5. SumFunctionOnSet(f, S) \in Int
  BY <1>1, SumInt
<1>6. Cardinality(S) \in Nat
  BY FS_CardinalityType
<1>7. (Cardinality(S) - 1) * c = Cardinality(S) * c - c /\ Cardinality(S) * c \in Int
  BY <1>6
<1> QED
  BY <1>1, <1>2, <1>3, <1>4, <1>5, <1>7
-----------------------------------------------------------------------------
\* Extremes and division.

\* Of finitely many naturals there is a largest.
LEMMA LargestExists ==
    ASSUME NEW S, IsFiniteSet(S), S # {}, NEW f, \A x \in S : f[x] \in Nat
    PROVE  \E x \in S : \A y \in S : f[y] <= f[x]
<1> DEFINE F == {s \in SUBSET S : s # {} => \E x \in s : \A y \in s : f[y] <= f[x]}
<1>1. {} \in F
  OBVIOUS
<1>2. ASSUME NEW s \in SUBSET S, s # {}, s \ {Pick(s)} \in F
      PROVE  s \in F
  <2> DEFINE p == Pick(s)
  <2>1. p \in s
    BY <1>2, PickIn
  <2> HIDE DEF p
  <2>2. CASE s \ {p} = {}
    BY <2>1, <2>2
  <2>3. CASE s \ {p} # {}
    <3>1. PICK x \in s \ {p} : \A y \in s \ {p} : f[y] <= f[x]
      BY <1>2, <2>3 DEF p
    <3>2. CASE f[p] <= f[x]
      BY <2>1, <3>1, <3>2
    <3>3. CASE ~(f[p] <= f[x])
      <4>1. \A y \in s : f[y] <= f[p]
        BY <2>1, <3>1, <3>3
      <4> QED
        BY <2>1, <4>1
    <3> QED
      BY <3>2, <3>3
  <2> QED
    BY <2>2, <2>3
<1> HIDE DEF F
<1>3. S \in F
  BY <1>1, <1>2, PickInduct
<1> QED
  BY <1>3 DEF F

\* Taking away at least the divisor costs the quotient at least one.
LEMMA DivStep ==
    ASSUME NEW m \in Nat \ {0}, NEW r \in Nat, NEW b \in Nat, m <= b, b <= r
    PROVE  (r - b) \div m + 1 <= r \div m
<1> DEFINE q == r \div m
           p == (r - b) \div m
<1>1. /\ q \in Int /\ p \in Int
      /\ m * q <= r /\ r < m * q + m /\ m * p <= r - b
  OBVIOUS
<1> HIDE DEF q, p
<1>2. SUFFICES ASSUME q <= p PROVE FALSE
  BY <1>1 DEF q, p
<1>3. m * q <= m * p
  BY <1>1, <1>2
<1> QED
  BY <1>1, <1>3

-----------------------------------------------------------------------------
\* Sorting.

\* R orders the elements of S, whichever of two comes first.
Orders(R, S) ==
    /\ \A x, y, z \in S : <<x, y>> \in R /\ <<y, z>> \in R => <<x, z>> \in R
    /\ \A x, y \in S : x # y => <<x, y>> \in R \/ <<y, x>> \in R

Lists(s, n, S) ==
    /\ s \in [1..n -> S]
    /\ \A i, j \in 1..n : i # j => s[i] # s[j]

Ascends(s, n, R) == \A i, j \in 1..n : i < j => <<s[i], s[j]>> \in R

\* A finite set that is ordered has a last element.
LEMMA LastExists ==
    ASSUME NEW S, IsFiniteSet(S), S # {}, NEW R, Orders(R, S)
    PROVE  \E x \in S : \A y \in S : y # x => <<y, x>> \in R
<1> DEFINE F == {s \in SUBSET S : s # {} => \E x \in s : \A y \in s : y # x => <<y, x>> \in R}
<1>1. {} \in F
  OBVIOUS
<1>2. ASSUME NEW s \in SUBSET S, s # {}, s \ {Pick(s)} \in F
      PROVE  s \in F
  <2> DEFINE p == Pick(s)
  <2>1. p \in s
    BY <1>2, PickIn
  <2> HIDE DEF p
  <2>2. CASE s \ {p} = {}
    BY <2>1, <2>2
  <2>3. CASE s \ {p} # {}
    <3>1. PICK x \in s \ {p} : \A y \in s \ {p} : y # x => <<y, x>> \in R
      BY <1>2, <2>3 DEF p
    <3>2. CASE <<p, x>> \in R
      BY <2>1, <3>1, <3>2
    <3>3. CASE <<p, x>> \notin R
      <4>1. \A y \in s : y # p => <<y, p>> \in R
        BY <2>1, <3>1, <3>3 DEF Orders
      <4> QED
        BY <2>1, <4>1
    <3> QED
      BY <3>2, <3>3
  <2> QED
    BY <2>2, <2>3
<1> HIDE DEF F
<1>3. S \in F
  BY <1>1, <1>2, PickInduct
<1> QED
  BY <1>3 DEF F

\* A finite set that is ordered can be listed in that order.
LEMMA SortExists ==
    ASSUME NEW S, IsFiniteSet(S), NEW R, Orders(R, S)
    PROVE  \E s : Lists(s, Cardinality(S), S) /\ Ascends(s, Cardinality(S), R)
<1> DEFINE G == {n \in Nat : \A T \in SUBSET S : Cardinality(T) = n =>
                                \E s : Lists(s, n, T) /\ Ascends(s, n, R)}
<1>0. \A T \in SUBSET S : /\ IsFiniteSet(T) /\ Cardinality(T) \in Nat
                          /\ Cardinality(T) = 0 => T = {}
  BY FS_Subset, FS_CardinalityType, FS_EmptySet
<1>1. 0 \in G
  <2> SUFFICES ASSUME NEW T \in SUBSET S
               PROVE  \E s : Lists(s, 0, T) /\ Ascends(s, 0, R)
    OBVIOUS
  <2> DEFINE s == [i \in 1..0 |-> i]
  <2>1. Lists(s, 0, T) /\ Ascends(s, 0, R)
    BY DEF Lists, Ascends
  <2> QED
    BY <2>1
<1>2. ASSUME NEW n \in Nat, n \in G PROVE n + 1 \in G
  <2> SUFFICES ASSUME NEW T \in SUBSET S, Cardinality(T) = n + 1
               PROVE  \E s : Lists(s, n + 1, T) /\ Ascends(s, n + 1, R)
    OBVIOUS
  <2>1. IsFiniteSet(T) /\ T # {} /\ Orders(R, T)
    BY <1>0, FS_EmptySet DEF Orders
  <2>2. PICK x \in T : \A y \in T : y # x => <<y, x>> \in R
    BY <2>1, LastExists
  <2>3. T \ {x} \in SUBSET S /\ Cardinality(T \ {x}) = n
    <3>1. Cardinality(T \ {x}) = IF x \in T THEN Cardinality(T) - 1 ELSE Cardinality(T)
      BY <2>1, FS_RemoveElement
    <3>2. Cardinality(T) = n + 1
      OBVIOUS
    <3>3. T \ {x} \in SUBSET S
      OBVIOUS
    <3> QED
      BY <3>1, <3>2, <3>3
  <2>4. PICK s : Lists(s, n, T \ {x}) /\ Ascends(s, n, R)
    BY <1>2, <2>3
  <2> DEFINE r == [i \in 1..(n + 1) |-> IF i = n + 1 THEN x ELSE s[i]]
  <2>5. /\ \A i \in 1..n : s[i] \in T /\ s[i] # x
        /\ \A i, j \in 1..n : i # j => s[i] # s[j]
        /\ \A i, j \in 1..n : i < j => <<s[i], s[j]>> \in R
    BY <2>4 DEF Lists, Ascends
  <2>6. /\ \A i \in 1..(n + 1) : i # n + 1 => i \in 1..n
        /\ \A i, j \in 1..(n + 1) : i < j => i # n + 1
    OBVIOUS
  <2>7. Lists(r, n + 1, T)
    BY <2>5, <2>6 DEF Lists
  <2>8. Ascends(r, n + 1, R)
    BY <2>2, <2>5, <2>6 DEF Ascends
  <2> QED
    BY <2>7, <2>8
<1> HIDE DEF G
<1>3. Cardinality(S) \in G
  BY <1>0, <1>1, <1>2, NatInduct
<1> QED
  BY <1>0, <1>3 DEF G

\* A list of a finite set as long as that leaves nothing out.
LEMMA ListsAll ==
    ASSUME NEW S, IsFiniteSet(S), NEW s, Lists(s, Cardinality(S), S)
    PROVE  \A x \in S : \E i \in 1..Cardinality(S) : s[i] = x
<1> DEFINE D == 1..Cardinality(S)
<1>1. Cardinality(S) \in Nat
  BY FS_CardinalityType
<1>2. s \in Injection(D, S)
  BY DEF Lists, Injection, IsInjective
<1>3. Cardinality(D) = Cardinality(S)
  BY <1>1, FS_Interval
<1>4. s \in Surjection(D, S)
  BY <1>2, <1>3, FS_Injection
<1> QED
  BY <1>4 DEF Surjection

\* The places of a set whose elements are told apart by a number: each is taken.
LEMMA RankExists ==
    ASSUME NEW S, IsFiniteSet(S), NEW f,
           \A x \in S : f[x] \in Nat,
           \A x, y \in S : x # y => f[x] # f[y],
           NEW k \in 1..Cardinality(S)
    PROVE  \E x \in S : Cardinality({y \in S : f[y] < f[x]}) = k - 1
<1> DEFINE R == {p \in S \X S : f[p[1]] < f[p[2]]}
           n == Cardinality(S)
<1>0. n \in Nat
  BY FS_CardinalityType
<1>1. \A x, y \in S : <<x, y>> \in R <=> f[x] < f[y]
  OBVIOUS
<1>2. Orders(R, S)
  <2>1. \A x, y, z \in S : f[x] < f[y] /\ f[y] < f[z] => f[x] < f[z]
    OBVIOUS
  <2>2. \A x, y \in S : x # y => f[x] < f[y] \/ f[y] < f[x]
    OBVIOUS
  <2> HIDE DEF R
  <2> QED
    BY <1>1, <2>1, <2>2 DEF Orders
<1> HIDE DEF R
<1>3. PICK s : Lists(s, n, S) /\ Ascends(s, n, R)
  BY <1>2, SortExists
<1>4. \A i \in 1..n : s[i] \in S
  BY <1>3 DEF Lists
<1>5. \A i, j \in 1..n : i < j => f[s[i]] < f[s[j]]
  BY <1>1, <1>3, <1>4 DEF Ascends
<1> DEFINE x == s[k]
           T == {y \in S : f[y] < f[x]}
           g == [i \in 1..(k - 1) |-> s[i]]
<1>6. \A i \in 1..(k - 1) : i \in 1..n /\ i < k
  BY <1>0
<1>7. g \in Injection(1..(k - 1), T)
  <2>1. \A i \in 1..(k - 1) : s[i] \in T
    BY <1>4, <1>5, <1>6
  <2>2. \A i, j \in 1..(k - 1) : i # j => s[i] # s[j]
    BY <1>3, <1>6 DEF Lists
  <2> QED
    BY <2>1, <2>2 DEF Injection, IsInjective
<1>8. \A y \in T : \E i \in 1..(k - 1) : g[i] = y
  <2> SUFFICES ASSUME NEW y \in S, f[y] < f[s[k]] PROVE \E i \in 1..(k - 1) : s[i] = y
    OBVIOUS
  <2>1. PICK i \in 1..n : s[i] = y
    BY <1>3, ListsAll
  <2>2. f[s[i]] \in Nat /\ f[s[k]] \in Nat
    BY <1>4
  <2>3. i < k
    BY <1>0, <1>5, <2>1, <2>2
  <2> QED
    BY <1>0, <2>1, <2>3
<1>9. g \in Bijection(1..(k - 1), T)
  <2> HIDE DEF g, T
  <2> QED
    BY <1>7, <1>8 DEF Bijection, Surjection, Injection
<1>10. IsFiniteSet(1..(k - 1)) /\ Cardinality(1..(k - 1)) = k - 1
  <2>1. k \in Nat /\ k - 1 \in Int /\ 1 \in Int /\ k >= 1
    BY <1>0
  <2>2. /\ IsFiniteSet(1..(k - 1))
        /\ Cardinality(1..(k - 1)) = IF 1 > k - 1 THEN 0 ELSE (k - 1) - 1 + 1
    BY <2>1, FS_Interval
  <2> QED
    BY <2>1, <2>2
<1> HIDE DEF g, T
<1>11. Cardinality(T) = k - 1
  <2>1. ExistsBijection(1..(k - 1), T)
    BY <1>9 DEF ExistsBijection
  <2> QED
    BY <1>10, <2>1, FS_Bijection
<1> QED
  BY <1>4, <1>11 DEF T

-----------------------------------------------------------------------------
\* Folds.  A step of a fold is a function here, so that one lemma serves all.

\* The recursion behind a fold that takes the elements of a set as c picks them.
IsFold(g, K, base, c, S, A) ==
    /\ g \in [SUBSET S -> A]
    /\ g[{}] = base
    /\ \A s \in SUBSET S : s # {} => g[s] = K[<<g[s \ {c[s]}], c[s]>>]

\* It has a solution, one level of cardinality after the other.
LEMMA FoldExists ==
    ASSUME NEW S, IsFiniteSet(S), NEW A, NEW base \in A, NEW K \in [A \X S -> A],
           NEW c, \A s \in SUBSET S : s # {} => c[s] \in s
    PROVE  \E g : IsFold(g, K, base, c, S, A)
<1> DEFINE Small(n) == {s \in SUBSET S : Cardinality(s) <= n}
           Upto(g, n) == /\ g[{}] = base
                         /\ \A s \in Small(n) : s # {} => g[s] = K[<<g[s \ {c[s]}], c[s]>>]
           G == {n \in Nat : \E g \in [SUBSET S -> A] : Upto(g, n)}
<1>0. \A s \in SUBSET S : /\ IsFiniteSet(s) /\ Cardinality(s) \in Nat
                          /\ Cardinality(s) <= Cardinality(S)
                          /\ Cardinality(s) = 0 => s = {}
  BY FS_Subset, FS_CardinalityType, FS_EmptySet
<1>1. 0 \in G
  <2> DEFINE g == [s \in SUBSET S |-> base]
  <2>1. g \in [SUBSET S -> A] /\ g[{}] = base
    OBVIOUS
  <2>2. \A s \in Small(0) : s = {}
    BY <1>0
  <2>3. Upto(g, 0)
    BY <2>1, <2>2
  <2> QED
    BY <2>1, <2>3
<1>2. ASSUME NEW n \in Nat, n \in G PROVE n + 1 \in G
  <2>1. PICK g \in [SUBSET S -> A] : Upto(g, n)
    BY <1>2
  <2> DEFINE V(s) == K[<<g[s \ {c[s]}], c[s]>>]
             h == [s \in SUBSET S |-> IF Cardinality(s) = n + 1 THEN V(s) ELSE g[s]]
  <2>2. \A s \in SUBSET S : s # {} => V(s) \in A
    <3> SUFFICES ASSUME NEW s \in SUBSET S, s # {} PROVE V(s) \in A
      OBVIOUS
    <3>1. c[s] \in S /\ s \ {c[s]} \in SUBSET S
      OBVIOUS
    <3>2. g[s \ {c[s]}] \in A
      BY <3>1
    <3> QED
      BY <3>1, <3>2
  <2>3. \A s \in SUBSET S : Cardinality(s) = n + 1 => s # {}
    <3>1. Cardinality({}) = 0 /\ n + 1 # 0
      BY FS_EmptySet
    <3> QED
      BY <3>1, Zenon
  <2> HIDE DEF V
  <2>4. h \in [SUBSET S -> A]
    BY <2>2, <2>3
  <2>5. h[{}] = base
    BY <2>1, <2>3
  <2>6. ASSUME NEW s \in Small(n + 1), s # {}
        PROVE  h[s] = K[<<h[s \ {c[s]}], c[s]>>]
    <3> DEFINE r == s \ {c[s]}
    <3>1. r \in SUBSET S /\ Cardinality(r) = Cardinality(s) - 1
      BY <1>0, <2>6, FS_RemoveElement
    <3>2. h[r] = g[r]
      BY <1>0, <2>6, <3>1
    <3>3. CASE Cardinality(s) = n + 1
      BY <3>2, <3>3 DEF V
    <3>4. CASE Cardinality(s) # n + 1
      <4>1. s \in Small(n) /\ h[s] = g[s]
        BY <1>0, <3>4
      <4>2. g[s] = K[<<g[r], c[s]>>]
        BY <2>1, <2>6, <4>1
      <4> QED
        BY <3>2, <4>1, <4>2
    <3> QED
      BY <3>3, <3>4
  <2>7. Upto(h, n + 1)
    BY <2>5, <2>6
  <2> HIDE DEF h, Upto
  <2> QED
    BY <2>4, <2>7
<1> HIDE DEF G
<1>3. Cardinality(S) \in G
  BY <1>0, <1>1, <1>2, NatInduct
<1>4. PICK g \in [SUBSET S -> A] : Upto(g, Cardinality(S))
  BY <1>3 DEF G
<1> QED
  BY <1>0, <1>4 DEF IsFold

\* The recursion along an interval has one too.
IsRun(f, K, base, n, A) ==
    /\ f \in [0..n -> A]
    /\ f[0] = base
    /\ \A i \in 1..n : f[i] = K[<<f[i - 1], i>>]

LEMMA RunExists ==
    ASSUME NEW n \in Nat, NEW A, NEW base \in A, NEW K \in [A \X (1..n) -> A]
    PROVE  \E f : IsRun(f, K, base, n, A)
<1> DEFINE Upto(f, m) == f[0] = base /\ \A i \in 1..n : i <= m => f[i] = K[<<f[i - 1], i>>]
           G == {m \in Nat : \E f \in [0..n -> A] : Upto(f, m)}
<1>1. 0 \in G
  <2> DEFINE f == [i \in 0..n |-> base]
  <2>1. f \in [0..n -> A] /\ Upto(f, 0)
    OBVIOUS
  <2> QED
    BY <2>1
<1>2. ASSUME NEW m \in Nat, m \in G PROVE m + 1 \in G
  <2>1. PICK f \in [0..n -> A] : Upto(f, m)
    BY <1>2
  <2> DEFINE h == [i \in 0..n |-> IF i = m + 1 THEN K[<<f[m], m + 1>>] ELSE f[i]]
  <2>2. h \in [0..n -> A]
    <3> SUFFICES ASSUME NEW i \in 0..n PROVE h[i] \in A
      OBVIOUS
    <3>1. CASE i = m + 1
      <4>1. m \in 0..n /\ m + 1 \in 1..n
        BY <3>1
      <4>2. f[m] \in A
        BY <4>1
      <4> QED
        BY <3>1, <4>1, <4>2
    <3>2. CASE i # m + 1
      BY <3>2
    <3> QED
      BY <3>1, <3>2
  <2>3. ASSUME NEW i \in 1..n, i <= m + 1 PROVE h[i] = K[<<h[i - 1], i>>]
    <3>1. i \in 0..n /\ i - 1 \in 0..n /\ i - 1 # m + 1 /\ h[i - 1] = f[i - 1]
      BY <2>3
    <3>2. CASE i = m + 1
      BY <3>1, <3>2
    <3>3. CASE i # m + 1
      BY <2>1, <2>3, <3>1, <3>3
    <3> QED
      BY <3>2, <3>3
  <2>4. h[0] = base
    BY <2>1
  <2>5. Upto(h, m + 1)
    BY <2>3, <2>4
  <2> HIDE DEF h, Upto
  <2> QED
    BY <2>2, <2>5
<1> HIDE DEF G
<1>3. n \in G
  BY <1>1, <1>2, NatInduct
<1>4. PICK f \in [0..n -> A] : Upto(f, n)
  BY <1>3 DEF G
<1> QED
  BY <1>4 DEF IsRun

-----------------------------------------------------------------------------
\* Sequences of sequences, joined.

LEMMA ConcatNothing ==
    ASSUME NEW S, NEW a \in Seq(S)
    PROVE  <<>> \o a = a /\ a \o <<>> = a
  OBVIOUS

LEMMA ConcatIn ==
    ASSUME NEW S, NEW a \in Seq(S), NEW b \in Seq(S)
    PROVE  a \o b \in Seq(S)
  OBVIOUS

\* The joints that f makes of ss, one sequence after the other.
Joins(f, ss, S) ==
    /\ f \in [0..Len(ss) -> Seq(S)]
    /\ f[0] = <<>>
    /\ \A i \in 1..Len(ss) : f[i] = f[i - 1] \o ss[i]

\* What FlattenSeq computes by.
Flatter(g, ss, i) == IF i = 1 THEN ss[i] ELSE g[i - 1] \o ss[i]

IsFlat(g, ss) == g = [i \in 1..Len(ss) |-> Flatter(g, ss, i)]

LEMMA FlattenByRecursion ==
    ASSUME NEW ss, Len(ss) # 0
    PROVE  FlattenSeq(ss) = (CHOOSE g : IsFlat(g, ss))[Len(ss)]
  BY Zenon DEF FlattenSeq, IsFlat, Flatter

LEMMA JoinsExist ==
    ASSUME NEW S, NEW ss \in Seq(Seq(S))
    PROVE  \E f : Joins(f, ss, S)
<1> DEFINE n == Len(ss)
           K == [p \in Seq(S) \X (1..n) |-> p[1] \o ss[p[2]]]
<1>1. n \in Nat /\ \A i \in 1..n : ss[i] \in Seq(S)
  OBVIOUS
<1>2. K \in [Seq(S) \X (1..n) -> Seq(S)]
  <2> SUFFICES ASSUME NEW p \in Seq(S) \X (1..n) PROVE p[1] \o ss[p[2]] \in Seq(S)
    OBVIOUS
  <2>1. p[1] \in Seq(S) /\ ss[p[2]] \in Seq(S)
    BY <1>1
  <2> QED
    BY <2>1, ConcatIn
<1>3. \A q \in Seq(S), i \in 1..n : K[<<q, i>>] = q \o ss[i]
  OBVIOUS
<1> DEFINE A == Seq(S)
           none == <<>>
<1>4. none \in A /\ K \in [A \X (1..n) -> A]
  BY <1>2
<1> HIDE DEF n, K, A, none
<1>5. PICK f : IsRun(f, K, none, n, A)
  BY <1>1, <1>4, RunExists, Zenon
<1>8. f \in [0..n -> Seq(S)] /\ f[0] = <<>> /\ \A i \in 1..n : f[i] = K[<<f[i - 1], i>>]
  BY <1>5, Zenon DEF A, none, IsRun
<1>6. ASSUME NEW i \in 1..n PROVE f[i] = f[i - 1] \o ss[i]
  <2>1. i - 1 \in 0..n
    BY <1>1
  <2>2. f[i - 1] \in Seq(S)
    BY <1>8, <2>1
  <2> QED
    BY <1>3, <1>8, <2>2, Zenon
<1>7. Joins(f, ss, S)
  BY <1>8, <1>6, Zenon DEF Joins, n
<1> QED
  BY <1>7

\* Two that go over the same sequences make the same.
SameUpto(n, ss, tt) ==
    /\ n \in Nat /\ Len(ss) \in Nat /\ Len(tt) \in Nat
    /\ n <= Len(ss) /\ n <= Len(tt)
    /\ \A i \in 1..n : ss[i] = tt[i]

LEMMA JoinsAgree ==
    ASSUME NEW S, NEW ss, NEW tt, NEW f, NEW g, NEW n,
           Joins(f, ss, S), Joins(g, tt, S), SameUpto(n, ss, tt)
    PROVE  f[n] = g[n]
<1>0. /\ n \in Nat /\ Len(ss) \in Nat /\ Len(tt) \in Nat /\ n <= Len(ss) /\ n <= Len(tt)
      /\ \A i \in 1..n : ss[i] = tt[i]
  BY DEF SameUpto
<1> DEFINE F == {k \in Nat : k <= n => f[k] = g[k]}
<1>1. 0 \in F
  BY DEF Joins
<1>2. ASSUME NEW k \in Nat, k \in F PROVE k + 1 \in F
  <2> SUFFICES ASSUME k + 1 <= n PROVE f[k + 1] = g[k + 1]
    OBVIOUS
  <2>1. /\ k + 1 \in 1..Len(ss) /\ k + 1 \in 1..Len(tt) /\ k + 1 \in 1..n
        /\ (k + 1) - 1 = k /\ f[k] = g[k]
    BY <1>0, <1>2
  <2>2. f[k + 1] = f[k] \o ss[k + 1] /\ g[k + 1] = g[k] \o tt[k + 1]
    BY <2>1, Zenon DEF Joins
  <2>3. ss[k + 1] = tt[k + 1]
    BY <1>0, <2>1
  <2> QED
    BY <2>1, <2>2, <2>3, Zenon
<1> HIDE DEF F
<1>3. n \in F
  BY <1>0, <1>1, <1>2, NatInduct
<1> QED
  BY <1>0, <1>3 DEF F

LEMMA FlattenJoins ==
    ASSUME NEW S, NEW ss \in Seq(Seq(S)), NEW f, Joins(f, ss, S)
    PROVE  FlattenSeq(ss) = f[Len(ss)]
<1>0. Len(ss) \in Nat /\ \A i \in 1..Len(ss) : ss[i] \in Seq(S)
  OBVIOUS
<1>1. CASE Len(ss) = 0
  <2>1. ss = <<>> /\ f[0] = <<>>
    BY <1>1 DEF Joins
  <2>2. FlattenSeq(ss) = ss
    BY <1>1, Zenon DEF FlattenSeq
  <2> QED
    BY <1>1, <2>1, <2>2
<1>2. CASE Len(ss) # 0
  <2> DEFINE n == Len(ss)
             h == [i \in 1..n |-> f[i]]
             g == CHOOSE g : IsFlat(g, ss)
  <2>1. \A i \in 1..n : h[i] = Flatter(h, ss, i)
    <3> SUFFICES ASSUME NEW i \in 1..n PROVE h[i] = Flatter(h, ss, i)
      OBVIOUS
    <3>1. f[i] = f[i - 1] \o ss[i] /\ h[i] = f[i]
      BY DEF Joins
    <3>2. CASE i = 1
      <4>1. f[i - 1] = <<>> /\ <<>> \o ss[i] = ss[i]
        BY <1>0, <3>2, ConcatNothing DEF Joins
      <4> QED
        BY <3>1, <3>2, <4>1, Zenon DEF Flatter
    <3>3. CASE i # 1
      <4>1. h[i - 1] = f[i - 1]
        BY <1>0, <3>3
      <4> HIDE DEF h
      <4> QED
        BY <3>1, <3>3, <4>1, Zenon DEF Flatter
    <3> QED
      BY <3>2, <3>3
  <2>2. \E k : IsFlat(k, ss)
    <3>1. h = [i \in 1..n |-> Flatter(h, ss, i)]
      <4> DEFINE k == [i \in 1..n |-> Flatter(h, ss, i)]
      <4>1. DOMAIN h = DOMAIN k /\ \A i \in DOMAIN h : h[i] = k[i]
        BY <2>1
      <4>2. h = [i \in DOMAIN h |-> h[i]] /\ k = [i \in DOMAIN k |-> k[i]]
        OBVIOUS
      <4> QED
        BY <2>1
    <3> HIDE DEF h
    <3> QED
      BY <3>1, Zenon DEF IsFlat
  <2>3. IsFlat(g, ss)
    BY <2>2, Zenon
  <2>4. FlattenSeq(ss) = g[n]
    BY <1>2, FlattenByRecursion, Zenon
  <2> HIDE DEF g, h
  <2>5. \A i \in 1..n : g[i] = Flatter(g, ss, i)
    BY <2>3 DEF IsFlat
  <2> DEFINE F == {k \in Nat : k \in 1..n => g[k] = f[k]}
  <2>6. 0 \in F
    OBVIOUS
  <2>7. ASSUME NEW k \in Nat, k \in F PROVE k + 1 \in F
    <3> SUFFICES ASSUME k + 1 \in 1..n PROVE g[k + 1] = f[k + 1]
      OBVIOUS
    <3>1. f[k + 1] = f[k] \o ss[k + 1]
      <4>1. (k + 1) - 1 = k
        BY <2>7
      <4>2. f[k + 1] = f[(k + 1) - 1] \o ss[k + 1]
        BY Zenon DEF Joins
      <4> QED
        BY <4>1, <4>2, Zenon
    <3>2. CASE k = 0
      <4>1. f[0] = <<>> /\ <<>> \o ss[1] = ss[1] /\ k + 1 = 1
        BY <1>0, <3>2, ConcatNothing DEF Joins
      <4> QED
        BY <2>5, <3>1, <3>2, <4>1, Zenon DEF Flatter
    <3>3. CASE k # 0
      <4>1. g[k] = f[k] /\ (k + 1) - 1 = k /\ k + 1 # 1
        BY <1>0, <2>7, <3>3
      <4>2. g[k + 1] = Flatter(g, ss, k + 1)
        BY <2>5
      <4> QED
        BY <3>1, <4>1, <4>2, Zenon DEF Flatter
    <3> QED
      BY <3>2, <3>3
  <2> HIDE DEF F
  <2>8. n \in F
    BY <1>0, <2>6, <2>7, NatInduct
  <2> QED
    BY <1>0, <1>2, <2>4, <2>8 DEF F
<1> QED
  BY <1>1, <1>2

LEMMA FlattenIn ==
    ASSUME NEW S, NEW ss \in Seq(Seq(S))
    PROVE  FlattenSeq(ss) \in Seq(S)
<1>1. PICK f : Joins(f, ss, S)
  BY JoinsExist
<1>2. Len(ss) \in 0..Len(ss)
  OBVIOUS
<1>3. f[Len(ss)] \in Seq(S)
  BY <1>1, <1>2 DEF Joins
<1> QED
  BY <1>1, <1>3, FlattenJoins, Zenon

LEMMA FlattenNone == FlattenSeq(<<>>) = <<>>
<1>1. Len(<<>>) = 0
  OBVIOUS
<1> QED
  BY <1>1, Zenon DEF FlattenSeq

LEMMA FlattenAppend ==
    ASSUME NEW S, NEW ss \in Seq(Seq(S)), NEW t \in Seq(S)
    PROVE  FlattenSeq(Append(ss, t)) = FlattenSeq(ss) \o t
<1> DEFINE n == Len(ss)
           tt == Append(ss, t)
<1>1. /\ tt \in Seq(Seq(S)) /\ Len(tt) = n + 1 /\ n \in Nat
      /\ \A i \in 1..n : ss[i] = tt[i]
      /\ tt[n + 1] = t
  OBVIOUS
<1> HIDE DEF tt
<1>2. PICK f : Joins(f, ss, S)
  BY JoinsExist
<1>3. PICK g : Joins(g, tt, S)
  BY <1>1, JoinsExist
<1>4. FlattenSeq(ss) = f[n] /\ FlattenSeq(tt) = g[n + 1]
  BY <1>1, <1>2, <1>3, FlattenJoins, Zenon
<1>5. f[n] = g[n]
  <2>1. SameUpto(n, ss, tt)
    BY <1>1 DEF SameUpto
  <2> QED
    BY <1>2, <1>3, <2>1, JoinsAgree
<1>6. g[n + 1] = g[n] \o t
  <2>1. n + 1 \in 1..Len(tt) /\ (n + 1) - 1 = n
    BY <1>1
  <2> QED
    BY <1>1, <1>3, <2>1, Zenon DEF Joins
<1> QED
  BY <1>4, <1>5, <1>6, Zenon DEF tt

-----------------------------------------------------------------------------
\* Folds over sequences.

LEMMA MaxIs ==
    ASSUME NEW s, NEW n \in Nat, s \subseteq 1..n, s # {}
    PROVE  Max(s) \in s /\ \A i \in s : i <= Max(s)
<1>0. IsFiniteSet(1..n)
  BY FS_Interval
<1>1. IsFiniteSet(s)
  BY <1>0, FS_Subset
<1> DEFINE f == [i \in s |-> i]
<1>2. \A i \in s : f[i] \in Nat /\ f[i] = i
  OBVIOUS
<1> HIDE DEF f
<1>3. PICK m \in s : \A i \in s : f[i] <= f[m]
  BY <1>1, <1>2, LargestExists
<1>4. \A i \in s : m >= i
  BY <1>2, <1>3
<1>5. Max(s) \in s /\ \A i \in s : Max(s) >= i
  BY <1>3, <1>4, Zenon DEF Max
<1> QED
  BY <1>5

LEMMA MaxOfInterval ==
    ASSUME NEW n \in Nat, n # 0
    PROVE  Max(1..n) = n /\ (1..n) \ {n} = 1..(n - 1)
<1>0. n \in 1..n /\ 1..n # {}
  OBVIOUS
<1> DEFINE s == 1..n
<1>1. s \subseteq 1..n /\ s # {}
  BY <1>0
<1> HIDE DEF s
<1>2. Max(s) \in s /\ \A i \in s : i <= Max(s)
  BY <1>1, MaxIs
<1> QED
  BY <1>0, <1>2 DEF s

LEMMA ElementOfMax ==
    ASSUME NEW L, NEW seq \in Seq(L), NEW s \in SUBSET (DOMAIN seq), s # {}
    PROVE  Max(s) \in s /\ seq[Max(s)] \in L /\ s \ {Max(s)} \in SUBSET (DOMAIN seq)
<1>1. Len(seq) \in Nat /\ s \subseteq 1..Len(seq)
  OBVIOUS
<1>2. Max(s) \in s
  BY <1>1, MaxIs
<1> QED
  BY <1>2

\* A fold with the steps of K: what it makes of every part of seq, of which it
\* takes the last element last.
FoldsBy(g, K, base, seq, A) ==
    /\ g \in [SUBSET (DOMAIN seq) -> A]
    /\ g[{}] = base
    /\ \A s \in SUBSET (DOMAIN seq) :
          s # {} => g[s] = K[<<g[s \ {Max(s)}], seq[Max(s)]>>]

LEMMA FoldsByExists ==
    ASSUME NEW A, NEW L, NEW base \in A, NEW K \in [A \X L -> A], NEW seq \in Seq(L)
    PROVE  \E g : FoldsBy(g, K, base, seq, A)
<1> DEFINE D == 1..Len(seq)
           c == [s \in SUBSET D |-> Max(s)]
           J == [p \in A \X D |-> K[<<p[1], seq[p[2]]>>]]
<1>0. Len(seq) \in Nat /\ DOMAIN seq = D /\ \A i \in D : seq[i] \in L
  OBVIOUS
<1>1. IsFiniteSet(D)
  BY <1>0, FS_Interval
<1>2. \A s \in SUBSET D : c[s] = Max(s) /\ (s # {} => c[s] \in s)
  BY <1>0, MaxIs
<1>3. J \in [A \X D -> A]
  <2> SUFFICES ASSUME NEW p \in A \X D PROVE K[<<p[1], seq[p[2]]>>] \in A
    OBVIOUS
  <2>1. p[1] \in A /\ seq[p[2]] \in L
    BY <1>0
  <2> QED
    BY <2>1
<1>4. \A a \in A, i \in D : J[<<a, i>>] = K[<<a, seq[i]>>]
  OBVIOUS
<1> HIDE DEF D, c, J
<1>5. PICK g : IsFold(g, J, base, c, D, A)
  BY <1>1, <1>2, <1>3, FoldExists
<1>6. /\ g \in [SUBSET D -> A] /\ g[{}] = base
      /\ \A s \in SUBSET D : s # {} => g[s] = J[<<g[s \ {c[s]}], c[s]>>]
  BY <1>5, Zenon DEF IsFold
<1>7. ASSUME NEW s \in SUBSET D, s # {}
      PROVE  g[s] = K[<<g[s \ {Max(s)}], seq[Max(s)]>>]
  <2>1. c[s] = Max(s) /\ Max(s) \in D /\ s \ {Max(s)} \in SUBSET D
    BY <1>2, <1>7
  <2>2. g[s \ {Max(s)}] \in A
    BY <1>6, <2>1
  <2>3. g[s] = J[<<g[s \ {Max(s)}], Max(s)>>]
    BY <1>6, <1>7, <2>1, Zenon
  <2> QED
    BY <1>4, <2>1, <2>2, <2>3, Zenon
<1>8. FoldsBy(g, K, base, seq, A)
  BY <1>0, <1>6, <1>7, Zenon DEF FoldsBy
<1> QED
  BY <1>8

\* What such a fold has made after each element.
Traces(t, K, base, seq, A) ==
    /\ t \in [0..Len(seq) -> A]
    /\ t[0] = base
    /\ \A i \in 1..Len(seq) : t[i] = K[<<t[i - 1], seq[i]>>]

LEMMA FoldsTrace ==
    ASSUME NEW A, NEW L, NEW K, NEW base, NEW seq \in Seq(L), NEW g,
           FoldsBy(g, K, base, seq, A)
    PROVE  \E t : Traces(t, K, base, seq, A) /\ t[Len(seq)] = g[DOMAIN seq]
<1> DEFINE n == Len(seq)
           t == [i \in 0..n |-> g[1..i]]
<1>0. n \in Nat /\ DOMAIN seq = 1..n /\ \A i \in 0..n : 1..i \in SUBSET (DOMAIN seq)
  OBVIOUS
<1>1. t \in [0..n -> A]
  BY <1>0 DEF FoldsBy
<1>2. t[0] = base
  <2>1. 1..0 = {} /\ t[0] = g[1..0]
    BY <1>0
  <2> QED
    BY <2>1 DEF FoldsBy
<1>3. ASSUME NEW i \in 1..n PROVE t[i] = K[<<t[i - 1], seq[i]>>]
  <2>1. /\ Max(1..i) = i /\ (1..i) \ {i} = 1..(i - 1)
        /\ 1..i # {} /\ 1..i \in SUBSET (DOMAIN seq)
    BY <1>0, MaxOfInterval
  <2>2. t[i] = g[1..i] /\ t[i - 1] = g[1..(i - 1)]
    BY <1>0
  <2> QED
    BY <2>1, <2>2, Zenon DEF FoldsBy
<1>4. t[n] = g[DOMAIN seq]
  BY <1>0
<1>5. Traces(t, K, base, seq, A)
  BY <1>1, <1>2, <1>3, Zenon DEF Traces
<1> QED
  BY <1>4, <1>5

LEMMA TraceIn ==
    ASSUME NEW A, NEW L, NEW K, NEW base, NEW seq \in Seq(L), NEW t,
           Traces(t, K, base, seq, A)
    PROVE  t[Len(seq)] \in A
<1>1. Len(seq) \in 0..Len(seq)
  OBVIOUS
<1> QED
  BY <1>1, Zenon DEF Traces

\* One element more, one step more.
LEMMA TraceAppend ==
    ASSUME NEW A, NEW L, NEW K, NEW base, NEW seq \in Seq(L), NEW x \in L, NEW t, NEW u,
           Traces(t, K, base, seq, A), Traces(u, K, base, Append(seq, x), A)
    PROVE  u[Len(Append(seq, x))] = K[<<t[Len(seq)], x>>]
<1> DEFINE n == Len(seq)
           more == Append(seq, x)
<1>1. /\ n \in Nat /\ Len(more) = n + 1 /\ more[n + 1] = x
      /\ \A i \in 1..n : more[i] = seq[i]
  OBVIOUS
<1> HIDE DEF n, more
<1>2. /\ t[0] = base /\ u[0] = base
      /\ \A i \in 1..n : t[i] = K[<<t[i - 1], seq[i]>>]
      /\ \A i \in 1..(n + 1) : u[i] = K[<<u[i - 1], more[i]>>]
  BY <1>1, Zenon DEF Traces, n, more
<1> DEFINE F == {k \in Nat : k <= n => t[k] = u[k]}
<1>3. 0 \in F
  BY <1>2
<1>4. ASSUME NEW k \in Nat, k \in F PROVE k + 1 \in F
  <2> SUFFICES ASSUME k + 1 <= n PROVE t[k + 1] = u[k + 1]
    OBVIOUS
  <2>1. /\ k + 1 \in 1..n /\ k + 1 \in 1..(n + 1) /\ (k + 1) - 1 = k /\ t[k] = u[k]
    BY <1>1, <1>4
  <2>2. more[k + 1] = seq[k + 1]
    BY <1>1, <2>1
  <2> QED
    BY <1>2, <2>1, <2>2, Zenon
<1> HIDE DEF F
<1>5. n \in F
  BY <1>1, <1>3, <1>4, NatInduct
<1>6. t[n] = u[n] /\ n + 1 \in 1..(n + 1) /\ (n + 1) - 1 = n
  BY <1>1, <1>5 DEF F
<1>7. u[n + 1] = K[<<t[n], x>>]
  BY <1>1, <1>2, <1>6, Zenon
<1> QED
  BY <1>1, <1>7 DEF n, more

-----------------------------------------------------------------------------
\* Numbers of a set.

\* Min of the community modules.
LEMMA MinIs ==
    ASSUME NEW S, S \subseteq Nat, S # {}
    PROVE  Min(S) \in S /\ \A n \in S : Min(S) <= n
<1>1. \E n \in S : \A m \in S : n <= m
  BY NatLeast
<1> QED
  BY <1>1, Zenon DEF Min

\* The number that is not above any other is the least.
LEMMA MinAt ==
    ASSUME NEW S, S \subseteq Nat, NEW n \in S, \A m \in S : n <= m
    PROVE  Min(S) = n
<1>1. Min(S) \in S /\ Min(S) <= n
  BY MinIs
<1>2. n <= Min(S)
  BY <1>1
<1> DEFINE k == Min(S)
<1>3. k \in Nat /\ n \in Nat /\ k <= n /\ n <= k
  BY <1>1, <1>2
<1> HIDE DEF k
<1> QED
  BY <1>3 DEF k

\* Those that are less than n.
Below(S, n) == {m \in S : m < n}

LEMMA BelowFinite ==
    ASSUME NEW S, IsFiniteSet(S), NEW n
    PROVE  /\ IsFiniteSet(Below(S, n)) /\ Cardinality(Below(S, n)) \in Nat
           /\ Cardinality(Below(S, n)) <= Cardinality(S)
<1>1. Below(S, n) \in SUBSET S
  BY DEF Below
<1> QED
  BY <1>1, FS_Subset, FS_CardinalityType

\* The more are below a number, the greater it is.
LEMMA BelowGrows ==
    ASSUME NEW S, IsFiniteSet(S), S \subseteq Nat, NEW m \in S, NEW n \in S, m < n
    PROVE  Cardinality(Below(S, m)) < Cardinality(Below(S, n))
<1>0. m \in Nat /\ n \in Nat /\ \A x \in S : x \in Nat
  OBVIOUS
<1>1. Below(S, m) \in SUBSET Below(S, n) /\ m \in Below(S, n) /\ m \notin Below(S, m)
  <2>1. \A x : x \in Below(S, m) => x \in S /\ x < m
    BY DEF Below
  <2>2. \A x \in S : x < n => x \in Below(S, n)
    BY DEF Below
  <2>3. \A x \in S : x < m => x < n
    BY <1>0
  <2>4. Below(S, m) \in SUBSET Below(S, n)
    BY <2>1, <2>2, <2>3
  <2>5. m \notin Below(S, m)
    BY <1>0, <2>1
  <2> QED
    BY <2>2, <2>4, <2>5
<1>2. /\ IsFiniteSet(Below(S, n)) /\ Cardinality(Below(S, n)) \in Nat
      /\ Cardinality(Below(S, m)) \in Nat
  BY BelowFinite
<1>3. Cardinality(Below(S, m)) <= Cardinality(Below(S, n))
      /\ Cardinality(Below(S, m)) # Cardinality(Below(S, n))
  BY <1>1, <1>2, FS_Subset
<1> QED
  BY <1>2, <1>3

\* As many as one likes are below one of them.
LEMMA BelowAny ==
    ASSUME NEW S, IsFiniteSet(S), S \subseteq Nat, NEW i \in 1..Cardinality(S)
    PROVE  \E x \in S : Cardinality(Below(S, x)) = i - 1
<1> DEFINE f == [x \in S |-> x]
<1>1. /\ \A x \in S : f[x] \in Nat
      /\ \A x, y \in S : x # y => f[x] # f[y]
  OBVIOUS
<1>2. \A x \in S : {y \in S : f[y] < f[x]} = Below(S, x)
  BY DEF Below
<1>5. IsFiniteSet(S)
  OBVIOUS
<1> HIDE DEF f
<1>3. \E x \in S : Cardinality({y \in S : f[y] < f[x]}) = i - 1
  BY ONLY <1>1, <1>5, i \in 1..Cardinality(S), RankExists
<1>4. PICK x \in S : Cardinality({y \in S : f[y] < f[x]}) = i - 1
  BY <1>3, Zenon
<1> QED
  BY <1>2, <1>4

-----------------------------------------------------------------------------
\* Counting.

\* f gives each element of S one of T, and leaves none of T out.
Pairs(f, S, T) ==
    /\ \A x \in S : f[x] \in T
    /\ \A x, y \in S : f[x] = f[y] => x = y
    /\ \A y \in T : \E x \in S : f[x] = y

\* Then T is as large as S.
LEMMA SameSize ==
    ASSUME NEW S, IsFiniteSet(S), NEW T, NEW f, Pairs(f, S, T)
    PROVE  IsFiniteSet(T) /\ Cardinality(T) = Cardinality(S)
<1> DEFINE h == [x \in S |-> f[x]]
<1>1. /\ h \in [S -> T]
      /\ \A x, y \in S : h[x] = h[y] => x = y
      /\ \A y \in T : \E x \in S : h[x] = y
  BY DEF Pairs
<1> HIDE DEF h
<1>2. h \in Bijection(S, T)
  BY <1>1 DEF Bijection, Injection, Surjection, IsInjective
<1>3. ExistsBijection(S, T)
  BY <1>2 DEF ExistsBijection
<1> QED
  BY <1>3, FS_Bijection

\* Two sets with nothing in common.
LEMMA DisjointSize ==
    ASSUME NEW S, IsFiniteSet(S), NEW T, IsFiniteSet(T), S \cap T = {}
    PROVE  /\ IsFiniteSet(S \cup T) /\ Cardinality(S) \in Nat /\ Cardinality(T) \in Nat
           /\ Cardinality(S \cup T) = Cardinality(S) + Cardinality(T)
<1>1. /\ IsFiniteSet(S \cup T)
      /\ Cardinality(S \cup T) = Cardinality(S) + Cardinality(T) - Cardinality(S \cap T)
  BY FS_Union
<1>2. Cardinality(S \cap T) = 0
  BY FS_EmptySet
<1>3. Cardinality(S) \in Nat /\ Cardinality(T) \in Nat
  BY FS_CardinalityType
<1> QED
  BY <1>1, <1>2, <1>3

\* The elements of U, counted by what g makes of them.
Counts(f, g, U, S) ==
    /\ IsFiniteSet(S) /\ IsFiniteSet(U) /\ \A l \in U : g[l] \in S
    /\ \A x \in S : f[x] = Cardinality({l \in U : g[l] = x})

\* Counted so, they are as many as a sum says.
LEMMA CountBySum ==
    ASSUME NEW S, NEW U, NEW g, NEW f, Counts(f, g, U, S)
    PROVE  Cardinality(U) = SumFunctionOnSet(f, S)
<1> DEFINE p == PartialSum(f, S)
           At(s) == {l \in U : g[l] \in s}
           F == {s \in SUBSET S : Cardinality(At(s)) = p[s]}
<1>6. /\ IsFiniteSet(S) /\ IsFiniteSet(U) /\ \A l \in U : g[l] \in S
      /\ \A x \in S : f[x] = Cardinality({l \in U : g[l] = x})
  BY DEF Counts
<1>0. AddsUp(p, f, S) /\ SumFunctionOnSet(f, S) = p[S]
  BY <1>6, PartialSums
<1>1. p[{}] = 0 /\ \A s \in SUBSET S : s # {} => p[s] = f[Pick(s)] + p[s \ {Pick(s)}]
  BY <1>0 DEF AddsUp
<1> HIDE DEF p
<1>2. {} \in F
  <2>1. At({}) = {}
    OBVIOUS
  <2>2. Cardinality(At({})) = 0
    BY <2>1, FS_EmptySet
  <2> QED
    BY <1>1, <2>2
<1>3. ASSUME NEW s \in SUBSET S, s # {}, s \ {Pick(s)} \in F PROVE s \in F
  <2> DEFINE x == Pick(s)
             r == s \ {x}
             A == At(r)
             B == {l \in U : g[l] = x}
  <2>1. x \in s /\ x \in S
    BY <1>3, PickIn
  <2>2. p[s] = f[x] + p[r]
    BY <1>1, <1>3
  <2> HIDE DEF x
  <2>3. At(s) = A \cup B /\ A \cap B = {}
    BY <2>1
  <2>4. IsFiniteSet(A) /\ IsFiniteSet(B)
    <3>1. A \in SUBSET U /\ B \in SUBSET U
      OBVIOUS
    <3> QED
      BY <1>6, <3>1, FS_Subset
  <2>5. Cardinality(A) = p[r]
    BY <1>3 DEF x
  <2>6. Cardinality(B) = f[x]
    BY <1>6, <2>1
  <2> HIDE DEF A, B, r
  <2>7. /\ Cardinality(A \cup B) = Cardinality(A) + Cardinality(B)
        /\ Cardinality(A) \in Nat /\ Cardinality(B) \in Nat
    BY <2>3, <2>4, DisjointSize
  <2>8. Cardinality(A \cup B) = p[s]
    BY <2>2, <2>5, <2>6, <2>7
  <2> HIDE DEF At
  <2>9. Cardinality(At(s)) = p[s]
    BY <2>3, <2>8
  <2> QED
    BY <2>9
<1> HIDE DEF F
<1>4. S \in F
  BY <1>2, <1>3, <1>6, PickInduct
<1>5. At(S) = U
  BY <1>6
<1> HIDE DEF At
<1> QED
  BY <1>0, <1>4, <1>5 DEF F

-----------------------------------------------------------------------------
\* Where the sequences that are joined lie.
LiesAt(o, ss, all) ==
    /\ Len(ss) \in Nat /\ o \in [0..Len(ss) -> Nat]
    /\ o[0] = 0 /\ o[Len(ss)] = Len(all)
    /\ \A j \in 1..Len(ss) : /\ o[j] = o[j - 1] + Len(ss[j])
                             /\ \A i \in 1..Len(ss[j]) : all[o[j - 1] + i] = ss[j][i]

\* Each sequence is in the joined one, behind those before it.
LEMMA FlattenLies ==
    ASSUME NEW S, NEW ss \in Seq(Seq(S))
    PROVE  \E o : LiesAt(o, ss, FlattenSeq(ss))
<1> DEFINE n == Len(ss)
           all == FlattenSeq(ss)
<1>1. n \in Nat /\ \A j \in 1..n : ss[j] \in Seq(S)
  OBVIOUS
<1>2. PICK f : Joins(f, ss, S)
  BY JoinsExist
<1>3. all = f[n]
  BY <1>2, FlattenJoins
<1>4. /\ f \in [0..n -> Seq(S)] /\ f[0] = <<>>
      /\ \A j \in 1..n : f[j] = f[j - 1] \o ss[j]
  BY <1>2, Zenon DEF Joins
<1> DEFINE o == [j \in 0..n |-> Len(f[j])]
<1> HIDE DEF n, all
<1>5. \A j \in 0..n : f[j] \in Seq(S) /\ Len(f[j]) \in Nat
  BY <1>4
<1>6. ASSUME NEW j \in 1..n
      PROVE  /\ Len(f[j]) = Len(f[j - 1]) + Len(ss[j])
             /\ \A i \in 1..Len(f[j - 1]) : f[j][i] = f[j - 1][i]
             /\ \A i \in 1..Len(ss[j]) : f[j][Len(f[j - 1]) + i] = ss[j][i]
  <2> DEFINE a == f[j - 1]
             b == ss[j]
  <2>1. a \in Seq(S) /\ b \in Seq(S) /\ f[j] = a \o b
    <3>1. j \in 1..n /\ j - 1 \in 0..n
      BY <1>1
    <3> QED
      BY <1>1, <1>4, <1>5, <3>1
  <2> HIDE DEF a, b
  <2>2. /\ Len(a \o b) = Len(a) + Len(b)
        /\ \A i \in 1..Len(a) : (a \o b)[i] = a[i]
        /\ \A i \in 1..Len(b) : (a \o b)[Len(a) + i] = b[i]
    BY <2>1
  <2> QED
    BY <2>1, <2>2 DEF a, b
\* What is made stays.
<1> DEFINE F == {k \in Nat : \A j \in 0..n : j + k <= n =>
                                Len(f[j]) <= Len(f[j + k]) /\ \A i \in 1..Len(f[j]) : f[j + k][i] = f[j][i]}
<1>7. 0 \in F
  BY <1>1, <1>5
<1>8. ASSUME NEW k \in Nat, k \in F PROVE k + 1 \in F
  <2> SUFFICES ASSUME NEW j \in 0..n, j + (k + 1) <= n
               PROVE  /\ Len(f[j]) <= Len(f[j + (k + 1)])
                      /\ \A i \in 1..Len(f[j]) : f[j + (k + 1)][i] = f[j][i]
    OBVIOUS
  <2> DEFINE m == j + k
  <2>1. m + 1 \in 1..n /\ (m + 1) - 1 = m /\ j + (k + 1) = m + 1 /\ m \in 0..n /\ m <= n
    BY <1>1
  <2>2. Len(f[j]) <= Len(f[m]) /\ \A i \in 1..Len(f[j]) : f[m][i] = f[j][i]
    BY <1>8, <2>1
  <2> HIDE DEF m
  <2>3. Len(f[m]) <= Len(f[m + 1]) /\ \A i \in 1..Len(f[m]) : f[m + 1][i] = f[m][i]
    <3>1. ss[m + 1] \in Seq(S)
      BY <1>1, <2>1
    <3>2. Len(ss[m + 1]) \in Nat
      BY <3>1
    <3>3. Len(f[m]) \in Nat
      BY <1>5, <2>1
    <3>4. /\ Len(f[m + 1]) = Len(f[m]) + Len(ss[m + 1])
          /\ \A i \in 1..Len(f[m]) : f[m + 1][i] = f[m][i]
      <4> DEFINE q == m + 1
      <4>1. q \in 1..n /\ q - 1 = m
        BY <2>1
      <4> HIDE DEF q
      <4>2. /\ Len(f[q]) = Len(f[q - 1]) + Len(ss[q])
            /\ \A i \in 1..Len(f[q - 1]) : f[q][i] = f[q - 1][i]
        BY <1>6, <4>1, Zenon
      <4> QED
        BY <4>1, <4>2 DEF q
    <3>5. Len(f[m]) <= Len(f[m + 1])
      <4> DEFINE x == Len(f[m])
                 y == Len(ss[m + 1])
                 z == Len(f[m + 1])
      <4>1. x \in Nat /\ y \in Nat /\ z = x + y
        BY <3>2, <3>3, <3>4
      <4> HIDE DEF x, y, z
      <4>2. x <= z
        BY <4>1
      <4> QED
        BY <4>2 DEF x, z
    <3> QED
      BY <3>4, <3>5, Zenon
  <2>4. Len(f[j]) \in Nat /\ Len(f[m]) \in Nat /\ Len(f[m + 1]) \in Nat
    BY <1>5, <2>1
  <2>5. \A i \in 1..Len(f[j]) : i \in 1..Len(f[m])
    BY <2>2, <2>4
  <2>6. \A i \in 1..Len(f[j]) : f[m + 1][i] = f[j][i]
    BY <2>2, <2>3, <2>5
  <2>7. Len(f[j]) <= Len(f[m + 1])
    BY <2>2, <2>3, <2>4
  <2> QED
    BY <2>1, <2>6, <2>7
<1> HIDE DEF F
<1>9. ASSUME NEW j \in 0..n PROVE \A i \in 1..Len(f[j]) : all[i] = f[j][i]
  <2>1. n - j \in Nat /\ j + (n - j) = n /\ n <= n
    BY <1>1
  <2>2. n - j \in F
    BY <1>7, <1>8, <2>1, NatInduct
  <2> QED
    BY <1>3, <2>1, <2>2 DEF F
<1>10. ASSUME NEW j \in 1..n
       PROVE  /\ o[j] = o[j - 1] + Len(ss[j])
              /\ \A i \in 1..Len(ss[j]) : all[o[j - 1] + i] = ss[j][i]
  <2>1. j \in 0..n /\ j - 1 \in 0..n
    BY <1>1
  <2>2. o[j] = Len(f[j]) /\ o[j - 1] = Len(f[j - 1])
    BY <2>1
  <2> HIDE DEF o
  <2>3. ASSUME NEW i \in 1..Len(ss[j]) PROVE all[o[j - 1] + i] = ss[j][i]
    <3>1. ss[j] \in Seq(S)
      BY <1>1
    <3>2. o[j - 1] \in Nat /\ Len(ss[j]) \in Nat
      BY <1>5, <2>1, <2>2, <3>1
    <3>3. Len(f[j]) = o[j - 1] + Len(ss[j])
      BY <1>6, <2>2
    <3>4. o[j - 1] + i \in 1..Len(f[j])
      BY <3>2, <3>3
    <3>5. f[j][o[j - 1] + i] = ss[j][i]
      BY <1>6, <2>2
    <3> QED
      BY <1>9, <2>1, <3>4, <3>5
  <2> QED
    BY <1>6, <2>2, <2>3
<1>11. o \in [0..n -> Nat] /\ o[0] = 0 /\ o[n] = Len(all)
  <2>1. 0 \in 0..n /\ n \in 0..n
    BY <1>1
  <2>2. Len(f[0]) = 0
    BY <1>4
  <2> QED
    BY <1>3, <1>5, <2>1, <2>2
<1>12. LiesAt(o, ss, all)
  <2> HIDE DEF o
  <2> QED
    BY <1>1, <1>10, <1>11, Zenon DEF LiesAt, n
<1> QED
  BY <1>12 DEF all

-----------------------------------------------------------------------------
\* Elements, one by one.

\* What f makes of each element.
Each(f, s) == [i \in DOMAIN s |-> f[s[i]]]

Maps(u, f, a, D, T) ==
    /\ a \in Seq(D) /\ u \in Seq(T)
    /\ Len(u) = Len(a) /\ \A i \in 1..Len(a) : u[i] = f[a[i]]

\* Each of two sequences, one behind the other.
LEMMA MapConcat ==
    ASSUME NEW D, NEW T, NEW f, NEW a, NEW b, NEW u, NEW v, Maps(u, f, a, D, T), Maps(v, f, b, D, T)
    PROVE  Each(f, a \o b) = u \o v
<1> DEFINE m == Len(a)
           n == Len(b)
           c == a \o b
           w == u \o v
<1>0. a \in Seq(D) /\ b \in Seq(D) /\ u \in Seq(T) /\ v \in Seq(T)
  BY DEF Maps
<1>1. m \in Nat /\ n \in Nat
  BY <1>0
<1>2. /\ c \in Seq(D) /\ Len(c) = m + n /\ DOMAIN c = 1..(m + n)
      /\ \A i \in 1..m : c[i] = a[i]
      /\ \A i \in 1..n : c[m + i] = b[i]
  BY ONLY <1>0
<1>3. /\ w \in Seq(T) /\ DOMAIN w = 1..(m + n)
      /\ \A i \in 1..m : w[i] = u[i]
      /\ \A i \in 1..n : w[m + i] = v[i]
      /\ w = [i \in 1..(m + n) |-> w[i]]
  <2>1. u \in Seq(T) /\ v \in Seq(T) /\ Len(u) = m /\ Len(v) = n
    BY DEF Maps
  <2> HIDE DEF m, n
  <2>3. /\ w \in Seq(T) /\ Len(w) = Len(u) + Len(v)
        /\ \A i \in 1..Len(u) : w[i] = u[i]
        /\ \A i \in 1..Len(v) : w[Len(u) + i] = v[i]
    BY ONLY <1>0
  <2>2. /\ w \in Seq(T) /\ Len(w) = m + n
        /\ \A i \in 1..m : w[i] = u[i]
        /\ \A i \in 1..n : w[m + i] = v[i]
    BY <2>1, <2>3
  <2> HIDE DEF w
  <2> QED
    BY <1>1, <2>2
<1>4. \A i \in 1..m : u[i] = f[a[i]]
  BY DEF Maps
<1>5. \A i \in 1..n : v[i] = f[b[i]]
  BY DEF Maps
<1> HIDE DEF m, n, c, w
<1>6. ASSUME NEW i \in 1..(m + n) PROVE w[i] = f[c[i]]
  <2>1. CASE i \in 1..m
    BY <1>2, <1>3, <1>4, <2>1
  <2>2. CASE i \notin 1..m
    <3> DEFINE k == i - m
    <3>1. k \in 1..n /\ m + k = i
      BY <1>1, <2>2
    <3> HIDE DEF k
    <3>2. w[m + k] = v[k] /\ c[m + k] = b[k] /\ v[k] = f[b[k]]
      BY <1>2, <1>3, <1>5, <3>1
    <3> QED
      BY <3>1, <3>2
  <2> QED
    BY <2>1, <2>2
<1>7. Each(f, c) = w
  BY <1>2, <1>3, <1>6 DEF Each
<1> QED
  BY <1>7 DEF c, w

-----------------------------------------------------------------------------
\* Folds whose steps are known where they have been in A.

StepsIn(h, K, base, seq, A, L) ==
    /\ base \in A /\ K \in [A \X L -> A] /\ seq \in Seq(L)
    /\ h[{}] = base
    /\ \A s \in SUBSET (DOMAIN seq) :
          s # {} /\ h[s \ {Max(s)}] \in A => h[s] = K[<<h[s \ {Max(s)}], seq[Max(s)]>>]

\* Such a fold of an interval is a trace, and what it makes is the end of it.
LEMMA PartsTrace ==
    ASSUME NEW A, NEW L, NEW base, NEW K, NEW seq, NEW h, StepsIn(h, K, base, seq, A, L)
    PROVE  \E t : Traces(t, K, base, seq, A) /\ h[DOMAIN seq] = t[Len(seq)]
<1> DEFINE n == Len(seq)
           t == [i \in 0..n |-> h[1..i]]
           F == {i \in Nat : i <= n => t[i] \in A}
<1>0. base \in A /\ K \in [A \X L -> A] /\ seq \in Seq(L)
  BY DEF StepsIn
<1>1. n \in Nat /\ DOMAIN seq = 1..n /\ \A i \in 1..n : seq[i] \in L
  BY <1>0
<1>2. t[0] = base
  <2>1. 1..0 = {} /\ t[0] = h[1..0]
    BY <1>1
  <2> QED
    BY <2>1 DEF StepsIn
<1>3. ASSUME NEW i \in 1..n, t[i - 1] \in A PROVE t[i] = K[<<t[i - 1], seq[i]>>]
  <2>1. Max(1..i) = i /\ (1..i) \ {i} = 1..(i - 1) /\ 1..i # {} /\ 1..i \in SUBSET (DOMAIN seq)
    BY <1>1, MaxOfInterval
  <2>2. t[i] = h[1..i] /\ t[i - 1] = h[1..(i - 1)]
    BY <1>1
  <2>3. h[(1..i) \ {Max(1..i)}] \in A
    BY <1>3, <2>1, <2>2
  <2>4. h[1..i] = K[<<h[(1..i) \ {Max(1..i)}], seq[Max(1..i)]>>]
    BY <2>1, <2>3, Zenon DEF StepsIn
  <2> QED
    BY <2>1, <2>2, <2>4
<1>4. t[n] = h[DOMAIN seq] /\ t = [i \in 0..n |-> t[i]]
  BY <1>1
<1> HIDE DEF t, n
<1>5. 0 \in F
  BY <1>0, <1>2
<1>6. ASSUME NEW i \in Nat, i \in F PROVE i + 1 \in F
  <2> SUFFICES ASSUME i + 1 <= n PROVE t[i + 1] \in A
    OBVIOUS
  <2> DEFINE m == i + 1
  <2>1. m \in 1..n /\ m - 1 = i /\ t[i] \in A /\ seq[m] \in L
    BY <1>1, <1>6
  <2> HIDE DEF m
  <2>2. t[m] = K[<<t[i], seq[m]>>]
    BY <1>3, <2>1
  <2> QED
    BY <1>0, <2>1, <2>2 DEF m
<1> HIDE DEF F
<1>7. \A i \in Nat : i \in F
  BY <1>5, <1>6, NatInduct
<1>8. \A i \in 0..n : t[i] \in A
  BY <1>1, <1>7 DEF F
<1>9. t \in [0..n -> A]
  BY <1>4, <1>8
<1>10. \A i \in 1..n : t[i] = K[<<t[i - 1], seq[i]>>]
  <2>1. \A i \in 1..n : i - 1 \in 0..n
    BY <1>1
  <2> QED
    BY <1>3, <1>8, <2>1
<1>11. Traces(t, K, base, seq, A)
  BY <1>2, <1>9, <1>10, Zenon DEF Traces, n
<1> QED
  BY <1>4, <1>11 DEF n

-----------------------------------------------------------------------------
\* Recursion down a rank.

\* f is base where it stops, and goes on from the next place elsewhere.
Descends(f, D, stop, base, nx, K) ==
    \A p \in D : f[p] = IF p \in stop THEN base[p] ELSE K[<<p, f[nx[p]]>>]

\* The next place is a lower one.
Lowers(nx, rank, n, D, stop) ==
    /\ n \in Nat
    /\ \A p \in D : rank[p] \in 0..n
    /\ \A p \in D : p \notin stop => nx[p] \in D /\ rank[nx[p]] < rank[p]

LEMMA DescentExists ==
    ASSUME NEW D, NEW stop, NEW n, NEW rank, NEW nx, Lowers(nx, rank, n, D, stop),
           NEW A, NEW base \in [D -> A], NEW K \in [D \X A -> A]
    PROVE  \E f \in [D -> A] : Descends(f, D, stop, base, nx, K)
<1> DEFINE Right(f, p) == f[p] = IF p \in stop THEN base[p] ELSE K[<<p, f[nx[p]]>>]
           Upto(f, k) == \A p \in D : rank[p] < k => Right(f, p)
           G == {k \in Nat : \E f \in [D -> A] : Upto(f, k)}
<1>0. /\ n \in Nat /\ \A p \in D : rank[p] \in Nat /\ rank[p] <= n
      /\ \A p \in D : p \notin stop => nx[p] \in D /\ rank[nx[p]] < rank[p]
  BY DEF Lowers
<1>1. 0 \in G
  <2>1. Upto(base, 0)
    BY <1>0
  <2> QED
    BY <2>1
<1>2. ASSUME NEW k \in Nat, k \in G PROVE k + 1 \in G
  <2>1. PICK f \in [D -> A] : Upto(f, k)
    BY <1>2
  <2> DEFINE more(p) == IF p \in stop THEN base[p] ELSE K[<<p, f[nx[p]]>>]
             h == [p \in D |-> IF rank[p] = k THEN more(p) ELSE f[p]]
  <2>2. \A p \in D : more(p) \in A
    BY <1>0
  <2>3. h \in [D -> A]
    BY <2>2
  <2>4. \A p \in D : h[p] = IF rank[p] = k THEN more(p) ELSE f[p]
    OBVIOUS
  <2> HIDE DEF h
  <2>5. ASSUME NEW p \in D, rank[p] < k + 1 PROVE Right(h, p)
    <3>0. rank[p] \in Nat /\ rank[p] <= k
      BY <1>0, <2>5
    <3>1. p \notin stop => h[nx[p]] = f[nx[p]]
      <4> SUFFICES ASSUME p \notin stop PROVE h[nx[p]] = f[nx[p]]
        OBVIOUS
      <4>1. nx[p] \in D /\ rank[nx[p]] \in Nat /\ rank[nx[p]] < rank[p]
        BY <1>0
      <4>2. rank[nx[p]] # k
        BY <3>0, <4>1
      <4> QED
        BY <2>4, <4>1, <4>2
    <3>2. CASE rank[p] = k
      BY <2>4, <3>1, <3>2
    <3>3. CASE rank[p] # k
      <4>0. rank[p] < k
        BY <3>0, <3>3
      <4>1. rank[p] < k /\ h[p] = f[p]
        BY <2>4, <3>3, <4>0, Zenon
      <4>2. Right(f, p)
        BY <2>1, <4>1
      <4> QED
        BY <3>1, <4>1, <4>2
    <3> QED
      BY <3>2, <3>3
  <2>6. Upto(h, k + 1)
    BY <2>5
  <2> QED
    BY <2>3, <2>6
<1> HIDE DEF G
<1>3. n + 1 \in G
  BY <1>0, <1>1, <1>2, NatInduct
<1>4. PICK f \in [D -> A] : Upto(f, n + 1)
  BY <1>3 DEF G
<1>5. \A p \in D : Right(f, p)
  BY <1>0, <1>4
<1> QED
  BY <1>5 DEF Descends

LEMMA DescentUnique ==
    ASSUME NEW D, NEW stop, NEW n, NEW rank, NEW nx, Lowers(nx, rank, n, D, stop),
           NEW base, NEW K, NEW f, NEW g,
           Descends(f, D, stop, base, nx, K), Descends(g, D, stop, base, nx, K)
    PROVE  \A p \in D : f[p] = g[p]
<1> DEFINE F == {k \in Nat : \A p \in D : rank[p] < k => f[p] = g[p]}
<1>0. /\ n \in Nat /\ \A p \in D : rank[p] \in Nat /\ rank[p] <= n
      /\ \A p \in D : p \notin stop => nx[p] \in D /\ rank[nx[p]] < rank[p]
  BY DEF Lowers
<1>1. 0 \in F
  BY <1>0
<1>2. ASSUME NEW k \in Nat, k \in F PROVE k + 1 \in F
  <2> SUFFICES ASSUME NEW p \in D, rank[p] < k + 1 PROVE f[p] = g[p]
    OBVIOUS
  <2>1. p \notin stop => f[nx[p]] = g[nx[p]]
    BY <1>0, <1>2
  <2> QED
    BY <2>1 DEF Descends
<1> HIDE DEF F
<1>3. n + 1 \in F
  BY <1>0, <1>1, <1>2, NatInduct
<1> QED
  BY <1>0, <1>3 DEF F
=============================================================================
