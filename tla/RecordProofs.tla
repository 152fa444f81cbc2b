---------------------------- MODULE RecordProofs ----------------------------
(***************************************************************************)
(* Proofs about RecordLog, for any writers, bodies, digits of a length and *)
(* bounds: that a fetch finds the records that were stored, that what it   *)
(* has found stays where it is, and that it splits the records into the    *)
(* lines of the streams' bytes, as LogReader does.                         *)
(***************************************************************************)
EXTENDS RecordLog, DataLemmas, SequenceTheorems, TLAPS

-----------------------------------------------------------------------------
\* Numbers.

LEMMA Constants ==
    /\ Base \in Nat /\ Base > 1 /\ MaxPrefix \in Nat /\ MaxPrefix > 0
    /\ MaxRecord \in Nat /\ MaxRecords \in Nat /\ MaxTears \in Nat
    /\ LineEnd \in Byte /\ HeaderSize \in Nat /\ HeaderSize > 0
    /\ \A b \in Bodies : b \in Seq(Byte) /\ Len(b) \in Nat
                         /\ HeaderSize <= Len(b) /\ Len(b) <= MaxRecord
<1>1. HeaderSize = 2
  BY DEF HeaderSize
<1>2. \A b \in Bodies : b \in Seq(Byte) /\ Len(b) \in HeaderSize..MaxRecord
  BY RecordAssumption
<1>3. /\ Base \in Nat \ {0} /\ Base > 1 /\ MaxPrefix \in Nat \ {0} /\ LineEnd \in Byte
      /\ MaxRecord \in Nat /\ MaxRecords \in Nat /\ MaxTears \in Nat
  BY RecordAssumption
<1> QED
  BY <1>1, <1>2, <1>3

\* A digit and the rest of a number.
LEMMA Digits ==
    ASSUME NEW m \in Nat, NEW b \in Nat, b > 1
    PROVE  /\ m % b \in 0..(b - 1) /\ m \div b \in Nat
           /\ m = (m % b) + b * (m \div b)
           /\ (b <= m => m \div b < m)
           /\ (m < b => m % b = m)
           /\ (b + (m % b)) % b = m % b
<1> DEFINE q == m \div b
           c == m % b
<1>1. c \in 0..(b - 1) /\ q \in Int /\ m = b * q + c
  OBVIOUS
<1> HIDE DEF q, c
<1>2. q >= 0
  <2> SUFFICES ASSUME q < 0 PROVE FALSE
    BY <1>1
  <2>1. q <= -1 /\ b * q <= b * (-1)
    BY <1>1
  <2> QED
    BY <1>1, <2>1
<1>3. ASSUME b <= m PROVE q < m
  <2> SUFFICES ASSUME q >= m PROVE FALSE
    BY <1>1
  <2>1. b * q >= 2 * q
    BY <1>1, <1>2
  <2> QED
    BY <1>1, <1>2, <1>3, <2>1
<1>4. ASSUME m < b PROVE c = m
  <2>1. q = 0
    <3> SUFFICES ASSUME q >= 1 PROVE FALSE
      BY <1>1, <1>2
    <3>1. b * q >= b
      BY <1>1
    <3> QED
      BY <1>1, <1>4, <3>1
  <2> QED
    BY <1>1, <2>1
<1>5. (b + c) % b = c
  <2> DEFINE p == (b + c) \div b
             d == (b + c) % b
  <2>1. d \in 0..(b - 1) /\ p \in Int /\ b + c = b * p + d
    BY <1>1
  <2> HIDE DEF p, d
  <2>2. p = 1
    <3>1. CASE p <= 0
      <4>1. b * p <= 0
        BY <2>1, <3>1
      <4> QED
        BY <1>1, <2>1, <4>1
    <3>2. CASE p >= 2
      <4>1. b * p >= b * 2
        BY <2>1, <3>2
      <4> QED
        BY <1>1, <2>1, <4>1
    <3> QED
      BY <2>1, <3>1, <3>2
  <2> QED
    BY <1>1, <2>1, <2>2 DEF d
<1> QED
  BY <1>1, <1>2, <1>3, <1>4, <1>5 DEF q, c

-----------------------------------------------------------------------------
\* A length: its bytes, and what they are worth.

\* Every byte but the last says that more is to follow.
LengthLike(u) ==
    /\ u \in Seq(Byte) /\ Len(u) \in Nat /\ Len(u) > 0
    /\ u[Len(u)] < Base
    /\ \A i \in 1..(Len(u) - 1) : u[i] >= Base

IsWorth(w, u) ==
    \A i \in 1..Len(u) : w[i] = (u[i] % Base) + (IF i = Len(u) THEN 0 ELSE Base * w[i + 1])

Means(u, m) == \A w : IsWorth(w, u) => w[1] = m

Reads(u, m) == LengthLike(u) /\ Means(u, m)

LEMMA ByteIs == \A c \in Byte : c \in Nat /\ c < 2 * Base
  BY Constants DEF Byte

LEMMA OneByte ==
    ASSUME NEW m \in Nat, m < Base
    PROVE  Reads(<<m>>, m)
<1>0. Base \in Nat /\ Base > 1 /\ m \in Byte /\ m % Base = m
  BY Constants, Digits DEF Byte
<1> DEFINE u == <<m>>
<1>1. u \in Seq(Byte) /\ Len(u) = 1 /\ u[1] = m
  BY <1>0
<1> HIDE DEF u
<1>2. LengthLike(u)
  BY <1>0, <1>1 DEF LengthLike
<1>3. Means(u, m)
  <2> SUFFICES ASSUME NEW w, IsWorth(w, u) PROVE w[1] = m
    BY DEF Means
  <2>1. w[1] = (u[1] % Base) + 0
    BY <1>1 DEF IsWorth
  <2> QED
    BY <1>0, <1>1, <2>1
<1> QED
  BY <1>2, <1>3 DEF Reads, u

LEMMA MoreBytes ==
    ASSUME NEW m \in Nat, Base <= m, NEW t, Reads(t, m \div Base)
    PROVE  Reads(<<Base + (m % Base)>> \o t, m)
<1> DEFINE c == Base + (m % Base)
           q == m \div Base
           u == <<c>> \o t
           n == Len(t)
<1>0. /\ Base \in Nat /\ Base > 1 /\ m % Base \in 0..(Base - 1) /\ q \in Nat
      /\ m = (m % Base) + Base * q /\ c % Base = m % Base
  BY Constants, Digits
<1>1. c \in Byte /\ c >= Base
  BY <1>0 DEF Byte
<1>2. /\ t \in Seq(Byte) /\ n \in Nat /\ n > 0 /\ t[n] < Base
      /\ \A i \in 1..(n - 1) : t[i] >= Base
  BY DEF Reads, LengthLike
<1> HIDE DEF c, q
<1>3. u \in Seq(Byte) /\ Len(u) = n + 1 /\ u[1] = c /\ \A i \in 1..n : u[i + 1] = t[i]
  BY <1>1, <1>2
<1> HIDE DEF u, n
<1>4. LengthLike(u)
  <2>1. u[Len(u)] < Base
    BY <1>2, <1>3
  <2>2. ASSUME NEW i \in 1..(Len(u) - 1) PROVE u[i] >= Base
    <3>1. CASE i = 1
      BY <1>1, <1>3, <3>1
    <3>2. CASE i # 1
      <4>1. i - 1 \in 1..(n - 1) /\ i - 1 \in 1..n /\ (i - 1) + 1 = i
        BY <1>2, <1>3, <3>2
      <4>2. u[i] = t[i - 1]
        BY <1>3, <4>1
      <4> QED
        BY <1>2, <4>1, <4>2
    <3> QED
      BY <3>1, <3>2
  <2> QED
    BY <1>2, <1>3, <2>1, <2>2 DEF LengthLike
<1>5. Means(u, m)
  <2> SUFFICES ASSUME NEW w, IsWorth(w, u) PROVE w[1] = m
    BY DEF Means
  <2> DEFINE v == [i \in 1..n |-> w[i + 1]]
  <2>1. \A i \in 1..n : v[i] = w[i + 1]
    OBVIOUS
  <2> HIDE DEF v
  <2>2. IsWorth(v, t)
    <3> SUFFICES ASSUME NEW i \in 1..n
                 PROVE  v[i] = (t[i] % Base) + (IF i = n THEN 0 ELSE Base * v[i + 1])
      BY DEF IsWorth, n
    <3>1. i + 1 \in 1..Len(u) /\ u[i + 1] = t[i] /\ (i + 1 = Len(u) <=> i = n)
      BY <1>2, <1>3
    <3>2. v[i] = (t[i] % Base) + (IF i = n THEN 0 ELSE Base * w[(i + 1) + 1])
      BY <2>1, <3>1 DEF IsWorth
    <3>3. i # n => i + 1 \in 1..n /\ v[i + 1] = w[(i + 1) + 1]
      BY <1>2, <2>1
    <3> QED
      BY <3>2, <3>3
  <2>3. v[1] = q
    BY <2>2 DEF Reads, Means, q
  <2>4. w[2] = q
    <3>1. 1 \in 1..n
      BY <1>2
    <3> QED
      BY <2>1, <2>3, <3>1
  <2>5. w[1] = (c % Base) + Base * w[1 + 1]
    <3>1. 1 \in 1..Len(u) /\ 1 # Len(u)
      BY <1>2, <1>3
    <3> QED
      BY <1>3, <3>1 DEF IsWorth
  <2> QED
    BY <1>0, <2>4, <2>5
<1> QED
  BY <1>4, <1>5 DEF Reads, u, c

\* What Uvarint computes by.
DigitsFrom(g, m) == IF m < Base THEN <<m>> ELSE <<Base + (m % Base)>> \o g[m \div Base]

IsDigits(g, n) == g = [m \in 0..n |-> DigitsFrom(g, m)]

LEMMA UvarintByRecursion ==
    ASSUME NEW n
    PROVE  Uvarint(n) = (CHOOSE g : IsDigits(g, n))[n]
  BY Zenon DEF Uvarint, IsDigits, DigitsFrom

LEMMA DigitsExist ==
    ASSUME NEW n \in Nat
    PROVE  \E g : IsDigits(g, n)
<1> DEFINE D == 0..n
           A == Seq(Byte)
           stop == {m \in D : m < Base}
           nx == [m \in D |-> m \div Base]
           rank == [m \in D |-> m]
           base == [m \in D |-> IF m \in stop THEN <<m>> ELSE <<>>]
           K == [q \in D \X A |-> <<Base + (q[1] % Base)>> \o q[2]]
<1>0. Base \in Nat /\ Base > 1
  BY Constants
<1>1. \A m \in D : m \in Nat /\ m <= n
  OBVIOUS
<1>2. Lowers(nx, rank, n, D, stop)
  <2>1. \A m \in D : m \notin stop => nx[m] \in D /\ rank[nx[m]] < rank[m]
    <3> SUFFICES ASSUME NEW m \in D, ~(m < Base) PROVE m \div Base \in D /\ m \div Base < m
      OBVIOUS
    <3>1. m \div Base \in Nat /\ m \div Base < m
      BY <1>0, <1>1, Digits
    <3> QED
      BY <1>1, <3>1
  <2>2. \A m \in D : rank[m] \in 0..n
    OBVIOUS
  <2> HIDE DEF D, stop, nx, rank
  <2> QED
    BY <2>1, <2>2 DEF Lowers
<1>3. base \in [D -> A]
  <2> SUFFICES ASSUME NEW m \in D PROVE (IF m \in stop THEN <<m>> ELSE <<>>) \in A
    OBVIOUS
  <2>1. m < Base => m \in Byte
    BY <1>0, <1>1 DEF Byte
  <2> QED
    BY <2>1
<1>4. K \in [D \X A -> A]
  <2> SUFFICES ASSUME NEW q \in D \X A PROVE <<Base + (q[1] % Base)>> \o q[2] \in A
    OBVIOUS
  <2>1. q[1] \in Nat /\ q[2] \in Seq(Byte)
    BY <1>1
  <2>2. q[1] % Base \in 0..(Base - 1)
    BY <1>0, <2>1, Digits
  <2>3. Base + (q[1] % Base) \in Byte
    BY <1>0, <2>2 DEF Byte
  <2>4. <<Base + (q[1] % Base)>> \in Seq(Byte)
    BY <2>3
  <2> QED
    BY <2>1, <2>4, ConcatIn
<1>5. \A m \in D, t \in A : K[<<m, t>>] = <<Base + (m % Base)>> \o t
  OBVIOUS
<1>6. \A m \in D : m \in stop => m < Base /\ base[m] = <<m>>
  OBVIOUS
<1>7. \A m \in D : m \notin stop => ~(m < Base) /\ nx[m] = m \div Base
  OBVIOUS
<1> HIDE DEF D, A, stop, nx, rank, base, K
<1>8. PICK f \in [D -> A] : Descends(f, D, stop, base, nx, K)
  BY <1>2, <1>3, <1>4, DescentExists
<1>9. ASSUME NEW m \in D PROVE f[m] = DigitsFrom(f, m)
  <2>1. CASE m \in stop
    BY <1>6, <1>8, <2>1 DEF Descends, DigitsFrom
  <2>2. CASE m \notin stop
    <3>1. nx[m] \in D /\ nx[m] = m \div Base
      BY <1>2, <1>7, <2>2 DEF Lowers
    <3>2. f[m] = K[<<m, f[nx[m]]>>]
      BY <1>8, <2>2 DEF Descends
    <3>3. f[nx[m]] \in A
      BY <3>1
    <3> QED
      BY <1>5, <1>7, <2>2, <3>1, <3>2, <3>3, Zenon DEF DigitsFrom
  <2> QED
    BY <2>1, <2>2
<1>10. f = [m \in D |-> DigitsFrom(f, m)]
  <2> HIDE DEF DigitsFrom
  <2> QED
    BY <1>9
<1> QED
  BY <1>10, Zenon DEF IsDigits, D

LEMMA UvarintReads ==
    ASSUME NEW n \in Nat
    PROVE  Reads(Uvarint(n), n)
<1> DEFINE g == CHOOSE g : IsDigits(g, n)
           F == {k \in Nat : \A m \in 0..n : m < k => Reads(g[m], m)}
<1>1. IsDigits(g, n)
  BY DigitsExist, Zenon
<1> HIDE DEF g
<1>2. \A m \in 0..n : g[m] = DigitsFrom(g, m)
  BY <1>1 DEF IsDigits
<1>3. 0 \in F
  OBVIOUS
<1>4. ASSUME NEW k \in Nat, k \in F PROVE k + 1 \in F
  <2> SUFFICES ASSUME NEW m \in 0..n, m < k + 1 PROVE Reads(g[m], m)
    OBVIOUS
  <2>0. Base \in Nat /\ Base > 1
    BY Constants
  <2>1. CASE m < Base
    <3>1. g[m] = <<m>>
      BY <1>2, <2>1 DEF DigitsFrom
    <3> QED
      BY <2>1, <3>1, OneByte
  <2>2. CASE ~(m < Base)
    <3>1. g[m] = <<Base + (m % Base)>> \o g[m \div Base]
      BY <1>2, <2>2 DEF DigitsFrom
    <3>2. m \div Base \in Nat /\ m \div Base < m
      BY <2>0, <2>2, Digits
    <3>3. m \div Base \in 0..n /\ m \div Base < k
      BY <3>2
    <3>4. Reads(g[m \div Base], m \div Base)
      BY <1>4, <3>3
    <3>5. Base <= m
      BY <2>0, <2>2
    <3> QED
      BY <3>1, <3>4, <3>5, MoreBytes
  <2> QED
    BY <2>1, <2>2
<1> HIDE DEF F
<1>5. n + 1 \in F
  BY <1>3, <1>4, NatInduct
<1>6. Reads(g[n], n)
  BY <1>5 DEF F
<1> QED
  BY <1>6, UvarintByRecursion, Zenon DEF g

-----------------------------------------------------------------------------
\* A length in a file.

ValueFrom(g, f, i, e) == (f[i] % Base) + (IF i = e THEN 0 ELSE Base * g[i + 1])

IsValue(g, f, p, e) == g = [i \in p..e |-> ValueFrom(g, f, i, e)]

LEMMA LengthByRecursion ==
    ASSUME NEW f, NEW p, NEW e
    PROVE  LengthAt(f, p, e) = (CHOOSE g : IsValue(g, f, p, e))[p]
  BY Zenon DEF LengthAt, IsValue, ValueFrom

\* The bytes from p to e are in the file.
Within(f, p, e) == f \in Seq(Byte) /\ p \in Nat /\ p > 0 /\ e \in Nat /\ p <= e /\ e <= Len(f)

LEMMA BytesWithin ==
    ASSUME NEW f, NEW p, NEW e, Within(f, p, e)
    PROVE  \A i \in p..e : i \in Nat /\ i \in DOMAIN f /\ f[i] \in Byte /\ f[i] % Base \in Nat
<1>1. /\ p \in Nat /\ p > 0 /\ e \in Nat /\ e <= Len(f) /\ f \in Seq(Byte) /\ Len(f) \in Nat
      /\ DOMAIN f = 1..Len(f)
  BY DEF Within
<1> SUFFICES ASSUME NEW i \in p..e PROVE i \in Nat /\ i \in DOMAIN f /\ f[i] \in Byte /\ f[i] % Base \in Nat
  OBVIOUS
<1>2. i \in Nat /\ i \in 1..Len(f)
  BY <1>1
<1>3. f[i] \in Byte
  BY <1>1, <1>2
<1>4. f[i] \in Nat
  BY <1>3, ByteIs
<1>5. f[i] % Base \in 0..(Base - 1) /\ Base \in Nat
  BY <1>4, Constants, Digits
<1> QED
  BY <1>1, <1>2, <1>3, <1>5

\* v is the value of the bytes to e, from each on.
Values(v, f, p, e) ==
    \A i \in p..e : v[i] \in Nat /\ v[i] = ValueFrom(v, f, i, e)

LEMMA ValuesExist ==
    ASSUME NEW f, NEW p, NEW e, Within(f, p, e)
    PROVE  \E v : Values(v, f, p, e) /\ LengthAt(f, p, e) = v[p]
<1> DEFINE D == p..e
           c == [i \in D |-> f[i] % Base]
           stop == {e}
           nx == [i \in D |-> i + 1]
           rank == [i \in D |-> e - i]
           K == [q \in D \X Nat |-> c[q[1]] + Base * q[2]]
           n == e - p
<1>0. Base \in Nat /\ p \in Nat /\ e \in Nat /\ p <= e
  BY Constants DEF Within
<1>1. \A i \in D : i \in Nat /\ p <= i /\ i <= e
  BY <1>0
<1>2. c \in [D -> Nat] /\ \A i \in D : c[i] = f[i] % Base
  BY BytesWithin
<1>3. Lowers(nx, rank, n, D, stop)
  <2>1. \A i \in D : i # e => nx[i] \in D /\ rank[nx[i]] < rank[i]
    BY <1>0, <1>1
  <2>2. n \in Nat /\ \A i \in D : rank[i] \in 0..n
    BY <1>0, <1>1
  <2> HIDE DEF D, nx, rank, n
  <2> QED
    BY <2>1, <2>2 DEF Lowers
<1> HIDE DEF c
<1>4. K \in [D \X Nat -> Nat] /\ \A i \in D, m \in Nat : K[<<i, m>>] = c[i] + Base * m
  <2>1. ASSUME NEW q \in D \X Nat PROVE c[q[1]] + Base * q[2] \in Nat
    <3>1. q[1] \in D /\ q[2] \in Nat
      OBVIOUS
    <3>2. c[q[1]] \in Nat /\ Base * q[2] \in Nat
      BY <1>0, <1>2, <3>1
    <3> QED
      BY <3>2
  <2>2. K \in [D \X Nat -> Nat]
    BY <2>1
  <2>3. \A i \in D, m \in Nat : <<i, m>> \in D \X Nat /\ K[<<i, m>>] = c[i] + Base * m
    OBVIOUS
  <2> QED
    BY <2>2, <2>3
<1>5. \A i \in D : i # e => nx[i] = i + 1 /\ i + 1 \in D
  BY <1>0, <1>1
<1>6. e \in D /\ p \in D
  BY <1>0
<1> HIDE DEF D, K, nx, rank, n
<1>7. PICK v \in [D -> Nat] : Descends(v, D, stop, c, nx, K)
  BY <1>2, <1>3, <1>4, DescentExists
<1>8. ASSUME NEW i \in D PROVE v[i] = ValueFrom(v, f, i, e)
  <2>1. CASE i = e
    <3>1. v[i] = c[i] /\ c[i] \in Nat
      BY <1>2, <1>7, <2>1 DEF Descends
    <3> QED
      BY <1>2, <2>1, <3>1 DEF ValueFrom
  <2>2. CASE i # e
    <3>1. v[i] = K[<<i, v[i + 1]>>] /\ v[i + 1] \in Nat
      BY <1>5, <1>7, <2>2 DEF Descends
    <3> QED
      BY <1>2, <1>4, <2>2, <3>1 DEF ValueFrom
  <2> QED
    BY <2>1, <2>2
<1>9. v = [i \in D |-> ValueFrom(v, f, i, e)]
  <2> HIDE DEF ValueFrom
  <2> QED
    BY <1>8
<1>10. \E g : IsValue(g, f, p, e)
  BY <1>9, Zenon DEF IsValue, D
<1> DEFINE g == CHOOSE g : IsValue(g, f, p, e)
<1>11. IsValue(g, f, p, e) /\ LengthAt(f, p, e) = g[p]
  BY <1>10, LengthByRecursion, Zenon
<1> HIDE DEF g
<1>12. \A i \in D : g[i] = ValueFrom(g, f, i, e)
  BY <1>11 DEF IsValue, D
<1> DEFINE F == {k \in Nat : \A i \in D : e - i < k => g[i] \in Nat}
<1>13. 0 \in F
  BY <1>0, <1>1
<1>14. ASSUME NEW k \in Nat, k \in F PROVE k + 1 \in F
  <2> SUFFICES ASSUME NEW i \in D, e - i < k + 1 PROVE g[i] \in Nat
    OBVIOUS
  <2>1. f[i] % Base \in Nat
    BY <1>2
  <2>2. i # e => i + 1 \in D /\ g[i + 1] \in Nat
    <3> SUFFICES ASSUME i # e PROVE i + 1 \in D /\ g[i + 1] \in Nat
      OBVIOUS
    <3>1. i + 1 \in D /\ e - (i + 1) < k
      BY <1>0, <1>1, <1>5
    <3> QED
      BY <1>14, <3>1
  <2>3. CASE i = e
    BY <1>12, <2>1, <2>3 DEF ValueFrom
  <2>4. CASE i # e
    BY <1>0, <1>12, <2>1, <2>2, <2>4 DEF ValueFrom
  <2> QED
    BY <2>3, <2>4
<1> HIDE DEF F
<1>15. n + 1 \in Nat /\ n + 1 \in F /\ \A i \in D : e - i < n + 1
  <2>1. n + 1 \in Nat /\ \A i \in D : e - i < n + 1
    BY <1>0, <1>1 DEF n
  <2> QED
    BY <1>13, <1>14, <2>1, NatInduct
<1>16. \A i \in D : g[i] \in Nat
  BY <1>15 DEF F
<1>17. Values(g, f, p, e)
  BY <1>12, <1>16 DEF Values, D
<1> QED
  BY <1>11, <1>17

\* Two files with the same bytes there have the same length there.
LEMMA LengthSame ==
    ASSUME NEW f, NEW h, NEW p, NEW e, Within(f, p, e), Within(h, p, e),
           \A i \in p..e : h[i] = f[i]
    PROVE  LengthAt(h, p, e) = LengthAt(f, p, e) /\ LengthAt(f, p, e) \in Nat
<1>1. PICK v : Values(v, f, p, e) /\ LengthAt(f, p, e) = v[p]
  BY ValuesExist
<1>2. PICK w : Values(w, h, p, e) /\ LengthAt(h, p, e) = w[p]
  BY ValuesExist
<1>0. p \in Nat /\ e \in Nat /\ p <= e /\ p \in p..e /\ \A i \in p..e : i \in Nat /\ i <= e
  BY DEF Within
<1> DEFINE F == {k \in Nat : \A i \in p..e : e - i < k => w[i] = v[i]}
<1>3. 0 \in F
  BY <1>0
<1>4. ASSUME NEW k \in Nat, k \in F PROVE k + 1 \in F
  <2> SUFFICES ASSUME NEW i \in p..e, e - i < k + 1 PROVE w[i] = v[i]
    OBVIOUS
  <2>1. w[i] = ValueFrom(w, h, i, e) /\ v[i] = ValueFrom(v, f, i, e) /\ h[i] = f[i]
    BY <1>1, <1>2 DEF Values
  <2>2. i # e => w[i + 1] = v[i + 1]
    <3> SUFFICES ASSUME i # e PROVE w[i + 1] = v[i + 1]
      OBVIOUS
    <3>1. i + 1 \in p..e /\ e - (i + 1) < k
      BY <1>0
    <3> QED
      BY <1>4, <3>1
  <2> QED
    BY <2>1, <2>2 DEF ValueFrom
<1> HIDE DEF F
<1>5. (e - p) + 1 \in Nat /\ e - p < (e - p) + 1
  BY <1>0
<1>6. (e - p) + 1 \in F
  BY <1>3, <1>4, <1>5, NatInduct
<1>7. w[p] = v[p]
  BY <1>0, <1>5, <1>6 DEF F
<1> QED
  BY <1>0, <1>1, <1>2, <1>7 DEF Values

\* f has the bytes s at p.
Holds(f, p, s) == p + Len(s) - 1 <= Len(f) /\ \A i \in 1..Len(s) : f[p + i - 1] = s[i]

LEMMA LengthRead ==
    ASSUME NEW f \in Seq(Byte), NEW p \in Nat, p > 0, NEW u, NEW m \in Nat, Reads(u, m),
           Holds(f, p, u)
    PROVE  LengthAt(f, p, p + Len(u) - 1) = m
<1> DEFINE n == Len(u)
           e == p + n - 1
<1>1. u \in Seq(Byte) /\ n \in Nat /\ n > 0 /\ Means(u, m)
  BY DEF Reads, LengthLike
<1> HIDE DEF n
<1>2. e \in Nat /\ p <= e /\ e <= Len(f) /\ \A i \in 1..n : f[p + i - 1] = u[i]
  BY <1>1 DEF Holds, n
<1>3. Within(f, p, e)
  BY <1>2 DEF Within
<1>4. PICK v : Values(v, f, p, e) /\ LengthAt(f, p, e) = v[p]
  BY <1>3, ValuesExist
<1> DEFINE w == [i \in 1..n |-> v[p + i - 1]]
<1>5. \A i \in 1..n : w[i] = v[p + i - 1]
  OBVIOUS
<1> HIDE DEF w
<1>6. IsWorth(w, u)
  <2> SUFFICES ASSUME NEW i \in 1..n
               PROVE  w[i] = (u[i] % Base) + (IF i = n THEN 0 ELSE Base * w[i + 1])
    BY DEF IsWorth, n
  <2> DEFINE j == p + i - 1
  <2>1. j \in p..e /\ (j = e <=> i = n) /\ f[j] = u[i]
    BY <1>1, <1>2
  <2>2. w[i] = v[j]
    BY <1>5
  <2>3. i # n => w[i + 1] = v[j + 1]
    <3> SUFFICES ASSUME i # n PROVE w[i + 1] = v[j + 1]
      OBVIOUS
    <3>1. i + 1 \in 1..n /\ p + (i + 1) - 1 = j + 1
      BY <1>1
    <3> QED
      BY <1>5, <3>1
  <2> HIDE DEF j, e
  <2>4. v[j] = (f[j] % Base) + (IF j = e THEN 0 ELSE Base * v[j + 1])
    BY <1>4, <2>1 DEF Values, ValueFrom
  <2> QED
    BY <2>1, <2>2, <2>3, <2>4
<1>7. w[1] = m
  BY <1>1, <1>6 DEF Means
<1>8. 1 \in 1..n /\ p + 1 - 1 = p
  BY <1>1
<1>9. w[1] = v[p]
  BY <1>5, <1>8
<1> QED
  BY <1>4, <1>7, <1>9 DEF n

-----------------------------------------------------------------------------
\* A record in a file: it is the one there, and a file that grows keeps it.

IsBody(f, p, e) ==
    /\ e \in LengthEnds(f, p) /\ \A d \in LengthEnds(f, p) : e <= d
    /\ LengthAt(f, p, e) \in HeaderSize..MaxRecord
    /\ e + LengthAt(f, p, e) <= Len(f)

\* The body that is said to end its length at e, and the place after it.
BodyOf(f, p, e)  == SubSeq(f, e + 1, e + LengthAt(f, p, e))
AfterBody(f, p, e) == e + LengthAt(f, p, e) + 1

LEMMA EndsWithin ==
    ASSUME NEW f \in Seq(Byte), NEW p \in Nat, p > 0, NEW e \in LengthEnds(f, p)
    PROVE  /\ e \in Nat /\ p <= e /\ e <= Len(f) /\ e < p + MaxPrefix /\ f[e] < Base
           /\ Within(f, p, e)
<1>1. Len(f) \in Nat /\ DOMAIN f = 1..Len(f)
  OBVIOUS
<1>2. e \in 1..Len(f) /\ e >= p /\ e < p + MaxPrefix /\ f[e] < Base
  BY <1>1 DEF LengthEnds
<1>3. e \in Nat /\ p <= e /\ e <= Len(f)
  BY <1>1, <1>2
<1> QED
  BY <1>2, <1>3 DEF Within

LEMMA BodyIsIn ==
    ASSUME NEW f \in Seq(Byte), NEW p \in Nat, p > 0, NEW e, IsBody(f, p, e)
    PROVE  /\ e \in Nat /\ p <= e /\ e <= Len(f)
           /\ LengthAt(f, p, e) \in Nat /\ LengthAt(f, p, e) > 0
           /\ e + LengthAt(f, p, e) \in Nat /\ e + LengthAt(f, p, e) <= Len(f)
           /\ AfterBody(f, p, e) \in 1..(Len(f) + 1) /\ AfterBody(f, p, e) > p
           /\ BodyOf(f, p, e) \in Seq(Byte)
           /\ Len(BodyOf(f, p, e)) = LengthAt(f, p, e)
           /\ \A i \in 1..LengthAt(f, p, e) : BodyOf(f, p, e)[i] = f[e + i]
<1> DEFINE n == LengthAt(f, p, e)
<1>1. /\ e \in Nat /\ p <= e /\ e <= Len(f) /\ n \in HeaderSize..MaxRecord
      /\ e + n <= Len(f) /\ Len(f) \in Nat /\ DOMAIN f = 1..Len(f)
  BY EndsWithin DEF IsBody
<1>2. n \in Nat /\ n > 0
  BY <1>1, Constants
<1> HIDE DEF n
<1>3. \A i \in (e + 1)..(e + n) : f[i] \in Byte
  BY <1>1, <1>2
<1>4. e + 1 \in Int /\ e + n \in Int
  BY <1>1, <1>2
<1> DEFINE s == SubSeq(f, e + 1, e + n)
<1>5. /\ s \in Seq(Byte) /\ Len(s) = IF e + 1 <= e + n THEN (e + n) - (e + 1) + 1 ELSE 0
      /\ \A i \in 1..((e + n) - (e + 1) + 1) : s[i] = f[(e + 1) + i - 1]
  BY <1>3, <1>4, SubSeqProperties
<1> HIDE DEF s
<1>6. Len(s) = n /\ \A i \in 1..n : s[i] = f[e + i]
  <2>1. (e + n) - (e + 1) + 1 = n /\ e + 1 <= e + n
    BY <1>1, <1>2
  <2>2. \A i \in 1..n : (e + 1) + i - 1 = e + i
    BY <1>1, <1>2
  <2> QED
    BY <1>5, <2>1, <2>2
<1>7. BodyOf(f, p, e) = s /\ AfterBody(f, p, e) = e + n + 1
  BY Zenon DEF BodyOf, AfterBody, s, n
<1>8. e + n + 1 \in 1..(Len(f) + 1) /\ e + n + 1 > p /\ e + n \in Nat
  BY <1>1, <1>2
<1> QED
  BY <1>1, <1>2, <1>5, <1>6, <1>7, <1>8 DEF n

LEMMA OneBody ==
    ASSUME NEW f \in Seq(Byte), NEW p \in Nat, p > 0, NEW d, NEW e,
           IsBody(f, p, d), IsBody(f, p, e)
    PROVE  d = e
<1>1. d \in Nat /\ e \in Nat
  BY BodyIsIn
<1>2. d <= e /\ e <= d
  BY DEF IsBody
<1> QED
  BY <1>1, <1>2

LEMMA BodyFound ==
    ASSUME NEW f \in Seq(Byte), NEW p \in Nat, p > 0, NEW e, IsBody(f, p, e)
    PROVE  BodyAt(f, p) = {[first |-> e + 1, last |-> e + LengthAt(f, p, e)]}
<1> DEFINE span(d) == [first |-> d + 1, last |-> d + LengthAt(f, p, d)]
           T == {d \in LengthEnds(f, p) :
                    /\ \A c \in LengthEnds(f, p) : d <= c
                    /\ LengthAt(f, p, d) \in HeaderSize..MaxRecord
                    /\ d + LengthAt(f, p, d) <= Len(f)}
<1>1. \A d : d \in T <=> IsBody(f, p, d)
  BY Zenon DEF IsBody
<1>2. BodyAt(f, p) = {span(d) : d \in T}
  BY Zenon DEF BodyAt
<1> HIDE DEF span, T
<1>3. \A d \in T : d = e
  BY <1>1, OneBody
<1>4. e \in T
  BY <1>1
<1>5. BodyAt(f, p) = {span(e)}
  BY <1>2, <1>3, <1>4
<1> QED
  BY <1>5 DEF span

LEMMA FoundBody ==
    ASSUME NEW f, NEW p, BodyAt(f, p) # {}
    PROVE  \E e : IsBody(f, p, e)
  BY Zenon DEF BodyAt, IsBody

\* h is f, or f and more.
Extends(h, f) == Len(f) <= Len(h) /\ \A i \in 1..Len(f) : h[i] = f[i]

LEMMA BodyKeeps ==
    ASSUME NEW f \in Seq(Byte), NEW h \in Seq(Byte), Extends(h, f),
           NEW p \in Nat, p > 0, NEW e, IsBody(f, p, e)
    PROVE  /\ IsBody(h, p, e) /\ BodyOf(h, p, e) = BodyOf(f, p, e)
           /\ AfterBody(h, p, e) = AfterBody(f, p, e)
<1>1. /\ Len(f) \in Nat /\ Len(h) \in Nat /\ Len(f) <= Len(h)
      /\ DOMAIN f = 1..Len(f) /\ DOMAIN h = 1..Len(h)
      /\ \A i \in 1..Len(f) : h[i] = f[i]
  BY DEF Extends
<1>2. /\ e \in Nat /\ p <= e /\ e <= Len(f) /\ Within(f, p, e)
      /\ e < p + MaxPrefix /\ f[e] < Base
  BY EndsWithin DEF IsBody
<1>3. Within(h, p, e)
  BY <1>1, <1>2 DEF Within
<1>4. \A i \in p..e : h[i] = f[i]
  BY <1>1, <1>2
<1>5. LengthAt(h, p, e) = LengthAt(f, p, e) /\ LengthAt(f, p, e) \in Nat
  BY <1>2, <1>3, <1>4, LengthSame
<1>6. e \in LengthEnds(h, p)
  <2>1. e \in 1..Len(h) /\ h[e] = f[e]
    BY <1>1, <1>2
  <2> QED
    BY <1>1, <1>2, <2>1 DEF LengthEnds
<1>7. ASSUME NEW d \in LengthEnds(h, p) PROVE e <= d
  <2>1. d \in Nat /\ p <= d /\ d < p + MaxPrefix /\ h[d] < Base
    BY EndsWithin
  <2> SUFFICES ASSUME d < e PROVE FALSE
    BY <1>2, <2>1
  <2>2. d \in 1..Len(f) /\ f[d] = h[d]
    BY <1>1, <1>2, <2>1
  <2>3. d \in LengthEnds(f, p)
    BY <1>1, <2>1, <2>2 DEF LengthEnds
  <2>4. e <= d
    BY <2>3 DEF IsBody
  <2> QED
    BY <1>2, <2>1, <2>4
<1>8. IsBody(h, p, e)
  <2>1. /\ LengthAt(f, p, e) \in HeaderSize..MaxRecord
        /\ e + LengthAt(f, p, e) <= Len(f)
    BY DEF IsBody
  <2>2. e + LengthAt(f, p, e) <= Len(h)
    BY <1>1, <1>2, <1>5, <2>1
  <2> QED
    BY <1>5, <1>6, <1>7, <2>1, <2>2 DEF IsBody
<1>9. BodyOf(h, p, e) = BodyOf(f, p, e)
  <2> DEFINE n == LengthAt(f, p, e)
             s == BodyOf(f, p, e)
             t == BodyOf(h, p, e)
  <2>1. s \in Seq(Byte) /\ Len(s) = n /\ e + n <= Len(f) /\ \A i \in 1..n : s[i] = f[e + i]
    BY BodyIsIn
  <2>2. t \in Seq(Byte) /\ Len(t) = n /\ \A i \in 1..n : t[i] = h[e + i]
    BY <1>5, <1>8, BodyIsIn
  <2>3. \A i \in 1..n : h[e + i] = f[e + i]
    BY <1>1, <1>2, <1>5, <2>1
  <2> HIDE DEF n, s, t
  <2>4. \A i \in 1..Len(t) : t[i] = s[i]
    BY <2>1, <2>2, <2>3
  <2>5. t = s
    BY <2>1, <2>2, <2>4, SeqEqual
  <2> QED
    BY <2>5 DEF s, t
<1> QED
  BY <1>5, <1>8, <1>9 DEF AfterBody

-----------------------------------------------------------------------------
\* The records of a file.

RecordsFrom(g, f, p) ==
    IF BodyAt(f, p) = {} THEN <<>>
    ELSE LET b == CHOOSE b \in BodyAt(f, p) : TRUE
         IN <<SubSeq(f, b.first, b.last)>> \o g[b.last + 1]

IsRecords(g, f) == g = [p \in 1..(Len(f) + 1) |-> RecordsFrom(g, f, p)]

LEMMA RecordsByRecursion ==
    ASSUME NEW f
    PROVE  Records(f) = (CHOOSE g : IsRecords(g, f))[1]
  BY Zenon DEF Records, IsRecords, RecordsFrom

\* What is at p, once it is known what is there.
LEMMA RecordsFromIs ==
    ASSUME NEW f \in Seq(Byte), NEW p \in Nat, p > 0, NEW g
    PROVE  /\ BodyAt(f, p) = {} => RecordsFrom(g, f, p) = <<>>
           /\ \A e : IsBody(f, p, e) =>
                 RecordsFrom(g, f, p) = <<BodyOf(f, p, e)>> \o g[AfterBody(f, p, e)]
<1>1. BodyAt(f, p) = {} => RecordsFrom(g, f, p) = <<>>
  BY Zenon DEF RecordsFrom
<1>2. ASSUME NEW e, IsBody(f, p, e)
      PROVE  RecordsFrom(g, f, p) = <<BodyOf(f, p, e)>> \o g[AfterBody(f, p, e)]
  <2> DEFINE span == [first |-> e + 1, last |-> e + LengthAt(f, p, e)]
             b == CHOOSE b \in BodyAt(f, p) : TRUE
  <2>1. BodyAt(f, p) = {span}
    BY <1>2, BodyFound
  <2>2. b = span
    BY <2>1
  <2>3. RecordsFrom(g, f, p) = <<SubSeq(f, b.first, b.last)>> \o g[b.last + 1]
    <3>1. BodyAt(f, p) # {}
      BY <2>1
    <3> QED
      BY <3>1, Zenon DEF RecordsFrom
  <2>4. span.first = e + 1 /\ span.last = e + LengthAt(f, p, e)
    OBVIOUS
  <2> HIDE DEF span, b
  <2> QED
    BY <2>2, <2>3, <2>4, Zenon DEF BodyOf, AfterBody
<1> QED
  BY <1>1, <1>2

\* g is the records of f from each place on.
Finds(g, f) ==
    \A p \in 1..(Len(f) + 1) :
        /\ g[p] \in Seq(Seq(Byte))
        /\ BodyAt(f, p) = {} => g[p] = <<>>
        /\ \A e : IsBody(f, p, e) => g[p] = <<BodyOf(f, p, e)>> \o g[AfterBody(f, p, e)]

LEMMA RecordsExist ==
    ASSUME NEW f \in Seq(Byte)
    PROVE  \E g : IsRecords(g, f)
<1> DEFINE D == 1..(Len(f) + 1)
           A == Seq(Seq(Byte))
           stop == {p \in D : BodyAt(f, p) = {}}
           end(p) == CHOOSE e : IsBody(f, p, e)
           nx == [p \in D |-> AfterBody(f, p, end(p))]
           rank == [p \in D |-> Len(f) + 1 - p]
           base == [p \in D |-> <<>>]
           K == [q \in D \X A |-> IF q[1] \in stop THEN <<>>
                                  ELSE <<BodyOf(f, q[1], end(q[1]))>> \o q[2]]
           n == Len(f) + 1
<1>1. n \in Nat /\ \A p \in D : p \in Nat /\ p > 0 /\ p <= n
  OBVIOUS
<1>2. ASSUME NEW p \in D, p \notin stop
      PROVE  /\ IsBody(f, p, end(p)) /\ AfterBody(f, p, end(p)) \in D
             /\ AfterBody(f, p, end(p)) > p /\ BodyOf(f, p, end(p)) \in Seq(Byte)
  <2>1. \E e : IsBody(f, p, e)
    BY <1>2, FoundBody
  <2>2. IsBody(f, p, end(p))
    BY <2>1, Zenon
  <2> HIDE DEF end
  <2> QED
    BY <1>1, <2>2, BodyIsIn
<1> HIDE DEF end
<1>3. Lowers(nx, rank, n, D, stop)
  <2>1. \A p \in D : p \notin stop => nx[p] \in D /\ rank[nx[p]] < rank[p]
    <3> SUFFICES ASSUME NEW p \in D, p \notin stop PROVE nx[p] \in D /\ rank[nx[p]] < rank[p]
      OBVIOUS
    <3> DEFINE q == AfterBody(f, p, end(p))
    <3>1. nx[p] = q /\ q \in D /\ q > p
      BY <1>2
    <3> HIDE DEF q
    <3>2. rank[q] = Len(f) + 1 - q /\ rank[p] = Len(f) + 1 - p
      BY <3>1
    <3>3. q \in Nat /\ p \in Nat /\ Len(f) \in Nat
      BY <1>1, <3>1
    <3> QED
      BY <3>1, <3>2, <3>3
  <2>2. \A p \in D : rank[p] \in 0..n
    OBVIOUS
  <2> HIDE DEF D, stop, nx, rank, n
  <2> QED
    BY <1>1, <2>1, <2>2 DEF Lowers
<1>4. base \in [D -> A]
  OBVIOUS
<1>5. K \in [D \X A -> A]
  <2>1. ASSUME NEW q \in D \X A
        PROVE  (IF q[1] \in stop THEN <<>> ELSE <<BodyOf(f, q[1], end(q[1]))>> \o q[2]) \in A
    <3>1. q[1] \in D /\ q[2] \in Seq(Seq(Byte))
      OBVIOUS
    <3>2. CASE q[1] \notin stop
      <4>1. BodyOf(f, q[1], end(q[1])) \in Seq(Byte)
        BY <1>2, <3>1, <3>2
      <4>2. <<BodyOf(f, q[1], end(q[1]))>> \in Seq(Seq(Byte))
        BY <4>1
      <4> QED
        BY <3>1, <3>2, <4>2, ConcatIn
    <3> QED
      BY <3>2
  <2> HIDE DEF D, stop
  <2> QED
    BY <2>1
<1>6. \A p \in D, t \in A : p \notin stop => K[<<p, t>>] = <<BodyOf(f, p, end(p))>> \o t
  <2> HIDE DEF D, A, stop
  <2> QED
    OBVIOUS
<1>7. \A p \in D : /\ p \in stop => BodyAt(f, p) = {} /\ base[p] = <<>>
                   /\ p \notin stop => nx[p] = AfterBody(f, p, end(p))
  OBVIOUS
<1> HIDE DEF D, A, stop, nx, rank, base, K, n
<1>8. PICK g \in [D -> A] : Descends(g, D, stop, base, nx, K)
  BY <1>3, <1>4, <1>5, DescentExists
<1>9. ASSUME NEW p \in D PROVE g[p] = RecordsFrom(g, f, p)
  <2>1. CASE p \in stop
    <3>1. g[p] = <<>>
      BY <1>7, <1>8, <2>1 DEF Descends
    <3> QED
      BY <1>1, <1>7, <2>1, <3>1, RecordsFromIs
  <2>2. CASE p \notin stop
    <3>1. IsBody(f, p, end(p)) /\ AfterBody(f, p, end(p)) \in D
      BY <1>2, <2>2
    <3>2. g[p] = K[<<p, g[nx[p]]>>]
      BY <1>8, <2>2 DEF Descends
    <3>3. nx[p] = AfterBody(f, p, end(p)) /\ g[nx[p]] \in A
      BY <1>7, <2>2, <3>1
    <3>4. g[p] = <<BodyOf(f, p, end(p))>> \o g[AfterBody(f, p, end(p))]
      BY <1>6, <2>2, <3>2, <3>3
    <3> QED
      BY <1>1, <3>1, <3>4, RecordsFromIs
  <2> QED
    BY <2>1, <2>2
<1>10. g = [p \in D |-> RecordsFrom(g, f, p)]
  BY <1>9
<1> QED
  BY <1>10, Zenon DEF IsRecords, D

LEMMA RecordsFound ==
    ASSUME NEW f \in Seq(Byte)
    PROVE  \E g : Finds(g, f) /\ Records(f) = g[1]
<1> DEFINE g == CHOOSE g : IsRecords(g, f)
           D == 1..(Len(f) + 1)
           n == Len(f) + 1
           F == {k \in Nat : \A p \in D : n - p < k => g[p] \in Seq(Seq(Byte))}
<1>1. IsRecords(g, f) /\ Records(f) = g[1]
  BY RecordsExist, RecordsByRecursion, Zenon
<1> HIDE DEF g
<1>2. \A p \in D : g[p] = RecordsFrom(g, f, p)
  BY <1>1 DEF IsRecords
<1>3. n \in Nat /\ \A p \in D : p \in Nat /\ p > 0 /\ p <= n
  OBVIOUS
<1> HIDE DEF D
<1>4. 0 \in F
  BY <1>3
<1>5. ASSUME NEW k \in Nat, k \in F PROVE k + 1 \in F
  <2> SUFFICES ASSUME NEW p \in D, n - p < k + 1 PROVE g[p] \in Seq(Seq(Byte))
    OBVIOUS
  <2>1. CASE BodyAt(f, p) = {}
    <3>1. g[p] = <<>>
      BY <1>2, <1>3, <2>1, RecordsFromIs
    <3> QED
      BY <3>1
  <2>2. CASE BodyAt(f, p) # {}
    <3>1. PICK e : IsBody(f, p, e)
      BY <2>2, FoundBody
    <3> DEFINE q == AfterBody(f, p, e)
    <3>2. q \in D /\ q > p /\ BodyOf(f, p, e) \in Seq(Byte)
      BY <1>3, <3>1, BodyIsIn DEF D
    <3>3. g[p] = <<BodyOf(f, p, e)>> \o g[q]
      BY <1>2, <1>3, <3>1, RecordsFromIs
    <3> HIDE DEF q
    <3>4. n - q < k
      BY <1>3, <3>2
    <3>5. g[q] \in Seq(Seq(Byte))
      BY <1>5, <3>2, <3>4
    <3>6. <<BodyOf(f, p, e)>> \in Seq(Seq(Byte))
      BY <3>2
    <3> QED
      BY <3>3, <3>5, <3>6, ConcatIn
  <2> QED
    BY <2>1, <2>2
<1> HIDE DEF F
<1>6. n + 1 \in F /\ \A p \in D : n - p < n + 1
  BY <1>3, <1>4, <1>5, NatInduct
<1>7. \A p \in D : g[p] \in Seq(Seq(Byte))
  <2> HIDE DEF n
  <2> QED
    BY <1>6 DEF F
<1>8. Finds(g, f)
  <2> SUFFICES ASSUME NEW p \in D
               PROVE  /\ g[p] \in Seq(Seq(Byte))
                      /\ BodyAt(f, p) = {} => g[p] = <<>>
                      /\ \A e : IsBody(f, p, e) =>
                            g[p] = <<BodyOf(f, p, e)>> \o g[AfterBody(f, p, e)]
    BY Zenon DEF Finds, D
  <2> QED
    BY <1>2, <1>3, <1>7, RecordsFromIs
<1> QED
  BY <1>1, <1>8

-----------------------------------------------------------------------------
\* Prefixes.

LEMMA PrefixIs ==
    ASSUME NEW S, NEW s \in Seq(S), NEW t \in Seq(S)
    PROVE  IsPrefix(s, t) <=> Len(s) <= Len(t) /\ \A i \in 1..Len(s) : s[i] = t[i]
<1>1. ASSUME Len(s) <= Len(t)
      PROVE  (SubSeq(s, 1, Len(s)) = SubSeq(t, 1, Len(s))) <=> \A i \in 1..Len(s) : s[i] = t[i]
  <2> DEFINE n == Len(s)
             a == SubSeq(s, 1, n)
             b == SubSeq(t, 1, n)
  <2>1. n \in Nat /\ \A i \in 1..n : s[i] \in S /\ t[i] \in S
    BY <1>1
  <2>2. a \in Seq(S) /\ Len(a) = n /\ \A i \in 1..n : a[i] = s[i]
    BY SubSeqFull
  <2>3. b \in Seq(S) /\ Len(b) = n /\ \A i \in 1..n : b[i] = t[i]
    BY <1>1, <2>1
  <2> HIDE DEF n, a, b
  <2>4. (\A i \in 1..n : s[i] = t[i]) => a = b
    <3> SUFFICES ASSUME \A i \in 1..n : s[i] = t[i] PROVE a = b
      OBVIOUS
    <3>1. \A i \in 1..Len(a) : a[i] = b[i]
      BY <2>2, <2>3
    <3> QED
      BY <2>2, <2>3, <3>1, SeqEqual
  <2>5. a = b => \A i \in 1..n : s[i] = t[i]
    BY <2>2, <2>3
  <2> QED
    BY <2>4, <2>5 DEF n, a, b
<1> QED
  BY <1>1, Zenon DEF IsPrefix

LEMMA PrefixNone ==
    ASSUME NEW S, NEW t \in Seq(S)
    PROVE  IsPrefix(<<>>, t)
<1> DEFINE s == <<>>
<1>1. s \in Seq(S) /\ Len(s) = 0 /\ Len(t) \in Nat
  OBVIOUS
<1> HIDE DEF s
<1>2. Len(s) <= Len(t) /\ \A i \in 1..Len(s) : s[i] = t[i]
  BY <1>1
<1> QED
  BY <1>1, <1>2, PrefixIs DEF s

LEMMA PrefixBehind ==
    ASSUME NEW S, NEW x \in Seq(S), NEW s \in Seq(S), NEW t \in Seq(S), IsPrefix(s, t)
    PROVE  IsPrefix(x \o s, x \o t)
<1> DEFINE a == x \o s
           b == x \o t
<1>1. /\ a \in Seq(S) /\ Len(a) = Len(x) + Len(s)
      /\ \A i \in 1..(Len(x) + Len(s)) : a[i] = IF i <= Len(x) THEN x[i] ELSE s[i - Len(x)]
  BY ConcatProperties
<1>2. /\ b \in Seq(S) /\ Len(b) = Len(x) + Len(t)
      /\ \A i \in 1..(Len(x) + Len(t)) : b[i] = IF i <= Len(x) THEN x[i] ELSE t[i - Len(x)]
  BY ConcatProperties
<1>3. Len(s) <= Len(t) /\ \A i \in 1..Len(s) : s[i] = t[i]
  BY PrefixIs
<1>4. Len(x) \in Nat /\ Len(s) \in Nat /\ Len(t) \in Nat
  OBVIOUS
<1> HIDE DEF a, b
<1>5. ASSUME NEW i \in 1..Len(a) PROVE a[i] = b[i]
  <2>1. i \in 1..(Len(x) + Len(s)) /\ i \in 1..(Len(x) + Len(t))
    BY <1>1, <1>3, <1>4
  <2>2. CASE i <= Len(x)
    BY <1>1, <1>2, <2>1, <2>2
  <2>3. CASE ~(i <= Len(x))
    <3>1. i - Len(x) \in 1..Len(s)
      BY <1>4, <2>1, <2>3
    <3> QED
      BY <1>1, <1>2, <1>3, <2>1, <2>3, <3>1
  <2> QED
    BY <2>2, <2>3
<1>6. Len(a) <= Len(b)
  BY <1>1, <1>2, <1>3, <1>4
<1> QED
  BY <1>1, <1>2, <1>5, <1>6, PrefixIs DEF a, b

LEMMA PrefixSelf ==
    ASSUME NEW S, NEW s \in Seq(S)
    PROVE  IsPrefix(s, s)
<1>1. Len(s) \in Nat /\ Len(s) <= Len(s)
  OBVIOUS
<1> QED
  BY <1>1, PrefixIs

-----------------------------------------------------------------------------
\* What a fetch has found stays where it is.

LEMMA FoundGrows ==
    ASSUME NEW f \in Seq(Byte), NEW h \in Seq(Byte), Extends(h, f),
           NEW g, Finds(g, f), NEW k, Finds(k, h)
    PROVE  \A p \in 1..(Len(f) + 1) : IsPrefix(g[p], k[p])
<1> DEFINE D == 1..(Len(f) + 1)
           n == Len(f) + 1
           F == {m \in Nat : \A p \in D : n - p < m => IsPrefix(g[p], k[p])}
<1>1. /\ n \in Nat /\ \A p \in D : p \in Nat /\ p > 0 /\ p <= n
      /\ \A p \in D : p \in 1..(Len(h) + 1)
  BY DEF Extends
<1>2. \A p \in D : g[p] \in Seq(Seq(Byte)) /\ k[p] \in Seq(Seq(Byte))
  BY <1>1 DEF Finds
<1>3. \A p \in D : BodyAt(f, p) = {} => g[p] = <<>>
  BY DEF Finds
<1>4. \A p \in D : \A e : IsBody(f, p, e) => g[p] = <<BodyOf(f, p, e)>> \o g[AfterBody(f, p, e)]
  BY Zenon DEF Finds
<1>5. \A p \in 1..(Len(h) + 1) : \A e :
          IsBody(h, p, e) => k[p] = <<BodyOf(h, p, e)>> \o k[AfterBody(h, p, e)]
  BY Zenon DEF Finds
<1> HIDE DEF D, n
<1>6. 0 \in F
  BY <1>1
<1>7. ASSUME NEW m \in Nat, m \in F PROVE m + 1 \in F
  <2> SUFFICES ASSUME NEW p \in D, n - p < m + 1 PROVE IsPrefix(g[p], k[p])
    OBVIOUS
  <2>1. CASE BodyAt(f, p) = {}
    <3>1. g[p] = <<>> /\ k[p] \in Seq(Seq(Byte))
      BY <1>2, <1>3, <2>1
    <3>2. IsPrefix(<<>>, k[p])
      BY <3>1, PrefixNone
    <3> QED
      BY <3>1, <3>2
  <2>2. CASE BodyAt(f, p) # {}
    <3>1. PICK e : IsBody(f, p, e)
      BY <2>2, FoundBody
    <3> DEFINE q == AfterBody(f, p, e)
               x == <<BodyOf(f, p, e)>>
    <3>2. q \in D /\ q > p /\ BodyOf(f, p, e) \in Seq(Byte)
      BY <1>1, <3>1, BodyIsIn DEF D
    <3>3. IsBody(h, p, e) /\ BodyOf(h, p, e) = BodyOf(f, p, e) /\ AfterBody(h, p, e) = q
      BY <1>1, <3>1, BodyKeeps
    <3>4. g[p] = x \o g[q]
      BY <1>4, <3>1
    <3>5. k[p] = x \o k[q]
      BY <1>1, <1>5, <3>3
    <3>6. x \in Seq(Seq(Byte))
      BY <3>2
    <3> HIDE DEF q, x
    <3>7. n - q < m
      BY <1>1, <3>2
    <3>8. IsPrefix(g[q], k[q])
      BY <1>7, <3>2, <3>7
    <3>9. IsPrefix(x \o g[q], x \o k[q])
      BY <1>2, <3>2, <3>6, <3>8, PrefixBehind
    <3> QED
      BY <3>4, <3>5, <3>9
  <2> QED
    BY <2>1, <2>2
<1> HIDE DEF F
<1>8. n + 1 \in F /\ \A p \in D : n - p < n + 1
  <2>1. n + 1 \in Nat /\ \A p \in D : n - p < n + 1
    BY <1>1
  <2> QED
    BY <1>6, <1>7, <2>1, NatInduct
<1>9. \A p \in D : IsPrefix(g[p], k[p])
  BY <1>8 DEF F
<1> QED
  BY <1>9 DEF D

LEMMA RecordsGrow ==
    ASSUME NEW f \in Seq(Byte), NEW h \in Seq(Byte), Extends(h, f)
    PROVE  IsPrefix(Records(f), Records(h))
<1>1. PICK g : Finds(g, f) /\ Records(f) = g[1]
  BY RecordsFound
<1>2. PICK k : Finds(k, h) /\ Records(h) = k[1]
  BY RecordsFound
<1>3. \A p \in 1..(Len(f) + 1) : IsPrefix(g[p], k[p])
  BY <1>1, <1>2, FoundGrows
<1>4. 1 \in 1..(Len(f) + 1)
  OBVIOUS
<1>5. IsPrefix(g[1], k[1])
  BY <1>3, <1>4
<1> QED
  BY <1>1, <1>2, <1>5

LEMMA RecordsIn ==
    ASSUME NEW f \in Seq(Byte)
    PROVE  Records(f) \in Seq(Seq(Byte))
<1>1. PICK g : Finds(g, f) /\ Records(f) = g[1]
  BY RecordsFound
<1>2. 1 \in 1..(Len(f) + 1)
  OBVIOUS
<1> QED
  BY <1>1, <1>2 DEF Finds

-----------------------------------------------------------------------------
\* What a step does with the file.

LogTypes ==
    /\ bytes \in Seq(Byte)
    /\ lock \subseteq Writers
    /\ body \in [Writers -> Bodies \cup {<<>>}]
    /\ rest \in [Writers -> Seq(Byte)]
    /\ stored \in Seq(Bodies)
    /\ tears \in Seq(Nat)

LEMMA RecordIn ==
    ASSUME NEW b \in Bodies
    PROVE  /\ Uvarint(Len(b)) \in Seq(Byte) /\ Len(Uvarint(Len(b))) \in Nat
           /\ Len(Uvarint(Len(b))) > 0 /\ Len(Uvarint(Len(b))) <= MaxPrefix
           /\ Reads(Uvarint(Len(b)), Len(b))
           /\ Record(b) \in Seq(Byte)
           /\ Len(Record(b)) = Len(Uvarint(Len(b))) + Len(b)
           /\ \A i \in 1..Len(Uvarint(Len(b))) : Record(b)[i] = Uvarint(Len(b))[i]
           /\ \A i \in 1..Len(b) : Record(b)[Len(Uvarint(Len(b))) + i] = b[i]
<1> DEFINE u == Uvarint(Len(b))
<1>1. b \in Seq(Byte) /\ Len(b) \in Nat /\ Len(b) \in HeaderSize..MaxRecord
  BY Constants, RecordAssumption
<1>2. Reads(u, Len(b)) /\ Len(u) <= MaxPrefix
  BY <1>1, UvarintReads, PrefixAssumption
<1>3. u \in Seq(Byte) /\ Len(u) \in Nat /\ Len(u) > 0
  BY <1>2 DEF Reads, LengthLike
<1> HIDE DEF u
<1> DEFINE r == u \o b
<1>4. /\ r \in Seq(Byte) /\ Len(r) = Len(u) + Len(b)
      /\ \A i \in 1..(Len(u) + Len(b)) : r[i] = IF i <= Len(u) THEN u[i] ELSE b[i - Len(u)]
  BY <1>1, <1>3, ConcatProperties
<1> HIDE DEF r
<1>5. ASSUME NEW i \in 1..Len(u) PROVE r[i] = u[i]
  <2>1. i \in 1..(Len(u) + Len(b)) /\ i <= Len(u)
    BY <1>1, <1>3
  <2> QED
    BY <1>4, <2>1
<1>6. ASSUME NEW i \in 1..Len(b) PROVE r[Len(u) + i] = b[i]
  <2>1. Len(u) + i \in 1..(Len(u) + Len(b)) /\ ~(Len(u) + i <= Len(u)) /\ (Len(u) + i) - Len(u) = i
    BY <1>1, <1>3
  <2> QED
    BY <1>4, <2>1
<1>7. Record(b) = r
  BY Zenon DEF Record, r, u
<1> QED
  BY <1>2, <1>3, <1>4, <1>5, <1>6, <1>7 DEF u

-----------------------------------------------------------------------------
\* A record in a file is found, and one that the file ends in is not.

\* The first k bytes of the record of b are in f at p.
Starts(f, p, b, k) ==
    /\ k \in Nat /\ k <= Len(Record(b)) /\ p + k - 1 <= Len(f)
    /\ \A i \in 1..k : f[p + i - 1] = Record(b)[i]

LEMMA LengthBytes ==
    ASSUME NEW f \in Seq(Byte), NEW p \in Nat, p > 0, NEW b \in Bodies,
           NEW k, Starts(f, p, b, k),
           NEW d \in LengthEnds(f, p), d <= p + k - 1
    PROVE  d >= p + Len(Uvarint(Len(b))) - 1
<1> DEFINE u == Uvarint(Len(b))
           j == d - p + 1
<1>1. u \in Seq(Byte) /\ Len(u) \in Nat /\ \A i \in 1..Len(u) : Record(b)[i] = u[i]
  BY RecordIn
<1>2. \A i \in 1..(Len(u) - 1) : u[i] >= Base
  BY RecordIn DEF Reads, LengthLike
<1>3. d \in Nat /\ p <= d /\ f[d] < Base
  BY EndsWithin
<1>0. k \in Nat /\ \A i \in 1..k : f[p + i - 1] = Record(b)[i]
  BY DEF Starts
<1> HIDE DEF u
<1> SUFFICES ASSUME d < p + Len(u) - 1 PROVE FALSE
  BY <1>1, <1>3 DEF u
<1>4. j \in 1..k /\ j \in 1..(Len(u) - 1) /\ j \in 1..Len(u) /\ p + j - 1 = d
  BY <1>0, <1>1, <1>3
<1> HIDE DEF j
<1>5. f[d] = Record(b)[j] /\ Record(b)[j] = u[j] /\ u[j] >= Base
  BY <1>0, <1>1, <1>2, <1>4
<1>6. u[j] \in Nat /\ Base \in Nat
  BY <1>1, <1>4, ByteIs, Constants
<1> QED
  BY <1>3, <1>5, <1>6

LEMMA RecordRead ==
    ASSUME NEW f \in Seq(Byte), NEW p \in Nat, p > 0, NEW b \in Bodies, Holds(f, p, Record(b))
    PROVE  \E e : /\ IsBody(f, p, e) /\ BodyOf(f, p, e) = b
                  /\ AfterBody(f, p, e) = p + Len(Record(b))
<1> DEFINE u == Uvarint(Len(b))
           r == Record(b)
           e == p + Len(u) - 1
<1>1. /\ u \in Seq(Byte) /\ Len(u) \in Nat /\ Len(u) > 0 /\ Len(u) <= MaxPrefix /\ Reads(u, Len(b))
      /\ r \in Seq(Byte) /\ Len(r) = Len(u) + Len(b)
      /\ \A i \in 1..Len(u) : r[i] = u[i]
      /\ \A i \in 1..Len(b) : r[Len(u) + i] = b[i]
  BY RecordIn
<1>2. b \in Seq(Byte) /\ Len(b) \in Nat /\ Len(b) \in HeaderSize..MaxRecord
  BY Constants, RecordAssumption
<1>3. Len(f) \in Nat /\ DOMAIN f = 1..Len(f) /\ MaxPrefix \in Nat
  BY Constants
<1>4. p + Len(r) - 1 <= Len(f) /\ \A i \in 1..Len(r) : f[p + i - 1] = r[i]
  BY DEF Holds
<1>5. u[Len(u)] < Base
  BY <1>1 DEF Reads, LengthLike
<1> HIDE DEF u, r
<1>6. Holds(f, p, u)
  <2>1. p + Len(u) - 1 <= Len(f)
    BY <1>1, <1>2, <1>3, <1>4
  <2>2. ASSUME NEW i \in 1..Len(u) PROVE f[p + i - 1] = u[i]
    <3>1. i \in 1..Len(r)
      BY <1>1, <1>2
    <3> QED
      BY <1>1, <1>4, <3>1
  <2> QED
    BY <2>1, <2>2 DEF Holds
<1>7. LengthAt(f, p, e) = Len(b)
  BY <1>1, <1>2, <1>6, LengthRead
<1>8. e \in Nat /\ e >= p /\ e < p + MaxPrefix /\ e \in 1..Len(f) /\ e + Len(b) <= Len(f)
  BY <1>1, <1>2, <1>3, <1>4
<1>9. f[e] = u[Len(u)]
  <2>1. Len(u) \in 1..Len(u)
    BY <1>1
  <2> QED
    BY <1>6, <2>1 DEF Holds
<1>10. e \in LengthEnds(f, p)
  <2> HIDE DEF e
  <2> QED
    BY <1>3, <1>5, <1>8, <1>9 DEF LengthEnds
<1>11. ASSUME NEW d \in LengthEnds(f, p) PROVE e <= d
  <2>1. d \in Nat /\ p <= d
    BY EndsWithin
  <2> SUFFICES ASSUME d < e PROVE FALSE
    BY <1>8, <2>1
  <2>2. d <= p + Len(r) - 1 /\ Len(r) \in Nat
    BY <1>1, <1>2, <2>1
  <2>3. Starts(f, p, b, Len(r))
    BY <1>4, <2>2 DEF Starts, r
  <2>4. d >= p + Len(u) - 1
    BY <2>2, <2>3, LengthBytes DEF u
  <2> QED
    BY <1>1, <2>1, <2>4
<1>12. IsBody(f, p, e)
  <2> HIDE DEF e
  <2> QED
    BY <1>2, <1>7, <1>8, <1>10, <1>11 DEF IsBody
<1>13. AfterBody(f, p, e) = p + Len(r)
  <2>1. AfterBody(f, p, e) = e + Len(b) + 1
    BY <1>7, Zenon DEF AfterBody
  <2> QED
    BY <1>1, <1>2, <2>1
<1>14. BodyOf(f, p, e) = b
  <2> DEFINE s == BodyOf(f, p, e)
  <2>1. s \in Seq(Byte) /\ Len(s) = Len(b) /\ \A i \in 1..Len(b) : s[i] = f[e + i]
    BY <1>7, <1>12, BodyIsIn
  <2> HIDE DEF s
  <2>2. ASSUME NEW i \in 1..Len(s) PROVE s[i] = b[i]
    <3>1. i \in 1..Len(b) /\ Len(u) + i \in 1..Len(r) /\ p + (Len(u) + i) - 1 = e + i
      BY <1>1, <1>2, <2>1
    <3>2. f[p + (Len(u) + i) - 1] = r[Len(u) + i]
      BY <1>4, <3>1
    <3> QED
      BY <1>1, <2>1, <3>1, <3>2
  <2>3. s = b
    BY <1>2, <2>1, <2>2, SeqEqual
  <2> QED
    BY <2>3 DEF s
<1> QED
  BY <1>12, <1>13, <1>14, Zenon DEF r

LEMMA NothingBehind ==
    ASSUME NEW f \in Seq(Byte)
    PROVE  BodyAt(f, Len(f) + 1) = {}
<1> SUFFICES ASSUME BodyAt(f, Len(f) + 1) # {} PROVE FALSE
  OBVIOUS
<1>1. PICK e : IsBody(f, Len(f) + 1, e)
  BY FoundBody
<1>2. Len(f) \in Nat /\ Len(f) + 1 \in Nat /\ Len(f) + 1 > 0
  OBVIOUS
<1>3. e \in Nat /\ Len(f) + 1 <= e /\ e <= Len(f)
  BY <1>1, <1>2, BodyIsIn
<1> QED
  BY <1>2, <1>3

LEMMA TornRead ==
    ASSUME NEW f \in Seq(Byte), NEW p \in Nat, p > 0, NEW b \in Bodies,
           NEW k, Starts(f, p, b, k), k < Len(Record(b)), Len(f) = p + k - 1
    PROVE  BodyAt(f, p) = {}
<1> DEFINE u == Uvarint(Len(b))
           r == Record(b)
           e == p + Len(u) - 1
<1>1. /\ u \in Seq(Byte) /\ Len(u) \in Nat /\ Len(u) > 0 /\ Len(u) <= MaxPrefix /\ Reads(u, Len(b))
      /\ r \in Seq(Byte) /\ Len(r) = Len(u) + Len(b)
      /\ \A i \in 1..Len(u) : r[i] = u[i]
  BY RecordIn
<1>2. b \in Seq(Byte) /\ Len(b) \in Nat /\ Len(f) \in Nat /\ DOMAIN f = 1..Len(f)
  BY Constants
<1>3. u[Len(u)] < Base /\ MaxPrefix \in Nat
  BY <1>1, Constants DEF Reads, LengthLike
<1>4. k \in Nat /\ k < Len(u) + Len(b) /\ \A i \in 1..k : f[p + i - 1] = r[i]
  BY <1>1 DEF Starts
<1> SUFFICES ASSUME BodyAt(f, p) # {} PROVE FALSE
  OBVIOUS
<1>5. PICK d : IsBody(f, p, d)
  BY FoundBody
<1>6. d \in LengthEnds(f, p) /\ \A c \in LengthEnds(f, p) : d <= c
  BY <1>5 DEF IsBody
<1>7. d \in Nat /\ p <= d /\ d <= Len(f) /\ d + LengthAt(f, p, d) <= Len(f)
  BY <1>5, BodyIsIn
<1>8. d >= e
  BY <1>6, <1>7, LengthBytes
<1> HIDE DEF u, r
<1>9. e \in Nat /\ e >= p /\ e <= Len(f) /\ Len(u) <= k
  BY <1>1, <1>2, <1>4, <1>7, <1>8
<1>10. Holds(f, p, u)
  <2>1. ASSUME NEW i \in 1..Len(u) PROVE f[p + i - 1] = u[i]
    <3>1. i \in 1..k
      BY <1>1, <1>4, <1>9
    <3>2. f[p + i - 1] = r[i]
      BY <1>4, <3>1
    <3> QED
      BY <1>1, <3>2
  <2> QED
    BY <1>9, <2>1 DEF Holds
<1>11. e \in LengthEnds(f, p)
  <2>1. Len(u) \in 1..Len(u)
    BY <1>1
  <2>2. f[e] = u[Len(u)]
    BY <1>10, <2>1 DEF Holds
  <2>3. e \in 1..Len(f) /\ e < p + MaxPrefix
    BY <1>1, <1>2, <1>3, <1>9
  <2> HIDE DEF e
  <2> QED
    BY <1>2, <1>3, <1>9, <2>2, <2>3 DEF LengthEnds
<1>12. d = e
  <2>1. d <= e
    BY <1>6, <1>11
  <2> HIDE DEF e
  <2> QED
    BY <1>7, <1>8, <1>9, <2>1
<1>13. LengthAt(f, p, e) = Len(b)
  BY <1>1, <1>2, <1>10, LengthRead
<1>14. e + Len(b) <= Len(f)
  BY <1>7, <1>12, <1>13
<1> QED
  BY <1>1, <1>2, <1>4, <1>14

-----------------------------------------------------------------------------
\* The records of some bodies, one behind the other, are found.

Laid(ss) == FlattenSeq([i \in DOMAIN ss |-> Record(ss[i])])

LEMMA BodiesIn == Bodies \subseteq Seq(Byte)
  BY Constants

LEMMA BodiesSeq ==
    ASSUME NEW s \in Seq(Bodies)
    PROVE  s \in Seq(Seq(Byte))
<1>1. s = [i \in 1..Len(s) |-> s[i]] /\ \A i \in 1..Len(s) : s[i] \in Bodies
  OBVIOUS
<1>2. \A i \in 1..Len(s) : s[i] \in Seq(Byte)
  BY <1>1, BodiesIn
<1> QED
  BY <1>1, <1>2

LEMMA RecordsOf ==
    ASSUME NEW ss \in Seq(Bodies)
    PROVE  /\ [i \in DOMAIN ss |-> Record(ss[i])] \in Seq(Seq(Byte))
           /\ Laid(ss) \in Seq(Byte) /\ Len(Laid(ss)) \in Nat
<1> DEFINE rs == [i \in DOMAIN ss |-> Record(ss[i])]
<1>1. DOMAIN ss = 1..Len(ss) /\ Len(ss) \in Nat /\ \A i \in 1..Len(ss) : ss[i] \in Bodies
  OBVIOUS
<1>2. \A i \in 1..Len(ss) : Record(ss[i]) \in Seq(Byte)
  BY <1>1, RecordIn
<1>3. rs \in Seq(Seq(Byte))
  <2>1. rs = [i \in 1..Len(ss) |-> Record(ss[i])]
    BY <1>1
  <2> QED
    BY <1>1, <1>2, <2>1
<1> HIDE DEF rs
<1>4. FlattenSeq(rs) \in Seq(Byte)
  BY <1>3, FlattenIn
<1> QED
  BY <1>3, <1>4 DEF Laid, rs

LEMMA LaidNone == Laid(<<>>) = <<>>
<1>1. [i \in DOMAIN <<>> |-> Record((<<>>)[i])] = <<>>
  OBVIOUS
<1> QED
  BY <1>1, FlattenNone, Zenon DEF Laid

LEMMA LaidAppend ==
    ASSUME NEW ss \in Seq(Bodies), NEW b \in Bodies
    PROVE  Laid(Append(ss, b)) = Laid(ss) \o Record(b)
<1> DEFINE rs == [i \in DOMAIN ss |-> Record(ss[i])]
           tt == Append(ss, b)
           qs == [i \in DOMAIN tt |-> Record(tt[i])]
           n == Len(ss)
<1>1. rs \in Seq(Seq(Byte)) /\ Record(b) \in Seq(Byte)
  BY RecordsOf, RecordIn
<1>2. /\ tt \in Seq(Bodies) /\ Len(tt) = n + 1 /\ n \in Nat
      /\ \A i \in 1..n : tt[i] = ss[i]
      /\ tt[n + 1] = b
  BY AppendProperties
<1> HIDE DEF tt
<1>3. qs \in Seq(Seq(Byte))
  BY <1>2, RecordsOf
<1>4. /\ Len(qs) = n + 1 /\ \A i \in 1..(n + 1) : qs[i] = Record(tt[i])
      /\ Len(rs) = n /\ \A i \in 1..n : rs[i] = Record(ss[i])
  <2>1. DOMAIN tt = 1..(n + 1) /\ DOMAIN ss = 1..n
    BY <1>2
  <2> QED
    BY <1>2, <2>1
<1> HIDE DEF rs, qs, n
<1> DEFINE as == Append(rs, Record(b))
<1>5. /\ as \in Seq(Seq(Byte)) /\ Len(as) = n + 1
      /\ \A i \in 1..n : as[i] = rs[i]
      /\ as[n + 1] = Record(b)
  BY <1>1, <1>4, AppendProperties
<1> HIDE DEF as
<1>6. ASSUME NEW i \in 1..Len(qs) PROVE qs[i] = as[i]
  <2>1. CASE i = n + 1
    BY <1>2, <1>4, <1>5, <2>1
  <2>2. CASE i # n + 1
    <3>1. i \in 1..n /\ i \in 1..(n + 1)
      BY <1>2, <1>4, <2>2
    <3> QED
      BY <1>2, <1>4, <1>5, <3>1
  <2> QED
    BY <2>1, <2>2
<1>7. qs = as
  BY <1>3, <1>4, <1>5, <1>6, SeqEqual
<1>8. FlattenSeq(as) = FlattenSeq(rs) \o Record(b)
  BY <1>1, FlattenAppend DEF as
<1> QED
  BY <1>7, <1>8, Zenon DEF Laid, rs, qs, tt

LEMMA ExtendsBoth ==
    ASSUME NEW S, NEW f \in Seq(S), NEW s \in Seq(S), NEW t \in Seq(S), Extends(f, s \o t)
    PROVE  Extends(f, s) /\ Holds(f, Len(s) + 1, t) /\ Len(s \o t) = Len(s) + Len(t)
<1> DEFINE a == s \o t
           m == Len(s)
           n == Len(t)
<1>1. /\ Len(a) = m + n
      /\ \A i \in 1..(m + n) : a[i] = IF i <= m THEN s[i] ELSE t[i - m]
  BY ConcatProperties
<1>2. Len(a) <= Len(f) /\ \A i \in 1..Len(a) : f[i] = a[i]
  BY DEF Extends
<1>3. m \in Nat /\ n \in Nat /\ Len(f) \in Nat
  OBVIOUS
<1> HIDE DEF a, m, n
<1>4. ASSUME NEW i \in 1..m PROVE f[i] = s[i]
  <2>1. i \in 1..(m + n) /\ i <= m
    BY <1>3
  <2> QED
    BY <1>1, <1>2, <2>1
<1>5. ASSUME NEW i \in 1..n PROVE f[(m + 1) + i - 1] = t[i]
  <2>1. m + i \in 1..(m + n) /\ ~(m + i <= m) /\ (m + i) - m = i /\ (m + 1) + i - 1 = m + i
    BY <1>3
  <2>2. f[m + i] = a[m + i] /\ a[m + i] = t[i]
    BY <1>1, <1>2, <2>1
  <2> QED
    BY <2>1, <2>2
<1>6. m <= Len(f) /\ (m + 1) + n - 1 <= Len(f)
  BY <1>1, <1>2, <1>3
<1>7. Extends(f, s)
  BY <1>4, <1>6 DEF Extends, m
<1>8. Holds(f, m + 1, t)
  BY <1>5, <1>6 DEF Holds, n
<1> QED
  BY <1>1, <1>7, <1>8 DEF a, m, n

\* What is found in f, if it begins with the records of ss.
Continues(g, ss) == g[1] = ss \o g[Len(Laid(ss)) + 1]

LEMMA LaidRead ==
    ASSUME NEW f \in Seq(Byte), NEW g, Finds(g, f), NEW ss \in Seq(Bodies), Extends(f, Laid(ss))
    PROVE  Continues(g, ss)
<1> DEFINE F == {n \in Nat : \A s \in Seq(Bodies) :
                                Len(s) = n /\ Extends(f, Laid(s)) => Continues(g, s)}
<1>0. \A p \in 1..(Len(f) + 1) : g[p] \in Seq(Seq(Byte))
  BY DEF Finds
<1>1. 0 \in F
  <2> SUFFICES ASSUME NEW s \in Seq(Bodies), Len(s) = 0 PROVE Continues(g, s)
    OBVIOUS
  <2>1. s = <<>>
    OBVIOUS
  <2>2. Len(Laid(s)) + 1 = 1
    BY <2>1, LaidNone
  <2>3. g[1] \in Seq(Seq(Byte))
    <3>1. 1 \in 1..(Len(f) + 1)
      OBVIOUS
    <3> QED
      BY <1>0, <3>1
  <2>4. g[1] = <<>> \o g[1]
    BY <2>3, ConcatNothing
  <2> QED
    BY <2>1, <2>2, <2>4, Zenon DEF Continues
<1>2. ASSUME NEW n \in Nat, n \in F PROVE n + 1 \in F
  <2> SUFFICES ASSUME NEW s \in Seq(Bodies), Len(s) = n + 1, Extends(f, Laid(s))
               PROVE  Continues(g, s)
    OBVIOUS
  <2>0. s # <<>>
    OBVIOUS
  <2>1. PICK t \in Seq(Bodies), b \in Bodies : s = Append(t, b)
    BY <2>0, SequenceEmptyOrAppend
  <2> DEFINE p == Len(Laid(t)) + 1
             q == Len(Laid(s)) + 1
             y == g[q]
  <2>2. Laid(s) = Laid(t) \o Record(b)
    BY <2>1, LaidAppend
  <2>3. Laid(t) \in Seq(Byte) /\ Record(b) \in Seq(Byte)
    BY RecordsOf, RecordIn
  <2>4. Len(Laid(t)) \in Nat /\ Len(Record(b)) \in Nat
    BY <2>3
  <2>5. Extends(f, Laid(t) \o Record(b))
    BY <2>2
  <2>6. Extends(f, Laid(t)) /\ Holds(f, p, Record(b)) /\ q = p + Len(Record(b))
    <3>1. /\ Extends(f, Laid(t)) /\ Holds(f, p, Record(b))
          /\ Len(Laid(t) \o Record(b)) = Len(Laid(t)) + Len(Record(b))
      BY <2>3, <2>5, ExtendsBoth
    <3> QED
      BY <2>2, <2>4, <3>1
  <2>7. Len(t) = n
    BY <2>1
  <2>8. Continues(g, t)
    BY <1>2, <2>6, <2>7
  <2> HIDE DEF p, q
  <2>9. g[1] = t \o g[p]
    BY <2>8, Zenon DEF Continues, p
  <2>10. p \in Nat /\ p > 0 /\ p \in 1..(Len(f) + 1)
    BY <2>4, <2>6 DEF p, Extends
  <2>11. PICK e : IsBody(f, p, e) /\ BodyOf(f, p, e) = b /\ AfterBody(f, p, e) = q
    BY <2>6, <2>10, RecordRead
  <2>12. q \in 1..(Len(f) + 1)
    BY <2>10, <2>11, BodyIsIn
  <2>13. g[p] = <<b>> \o g[q]
    <3>1. g[p] = <<BodyOf(f, p, e)>> \o g[AfterBody(f, p, e)]
      BY <2>10, <2>11, Zenon DEF Finds
    <3> QED
      BY <2>11, <3>1, Zenon
  <2> DEFINE x == <<b>>
  <2>14. t \in Seq(Seq(Byte)) /\ x \in Seq(Seq(Byte)) /\ y \in Seq(Seq(Byte))
    <3>1. t \in Seq(Seq(Byte))
      BY BodiesSeq
    <3>2. x \in Seq(Seq(Byte))
      <4>1. b \in Seq(Byte)
        BY BodiesIn
      <4> QED
        BY <4>1
    <3>3. y \in Seq(Seq(Byte))
      BY <1>0, <2>12
    <3> QED
      BY <3>1, <3>2, <3>3
  <2>15. t \o x = s
    BY <2>1, AppendIsConcat
  <2> HIDE DEF x, y
  <2>16. t \o (x \o y) = (t \o x) \o y
    <3> DEFINE W == Seq(Byte)
    <3>1. t \in Seq(W) /\ x \in Seq(W) /\ y \in Seq(W)
      BY <2>14
    <3> HIDE DEF W
    <3> QED
      BY <3>1, ConcatAssociative, SMTT(40)
  <2>17. g[1] = s \o g[q]
    BY <2>9, <2>13, <2>16, <2>15, Zenon DEF x, y
  <2> QED
    BY <2>17, Zenon DEF Continues, q
<1> HIDE DEF F
<1>3. Len(ss) \in Nat /\ Len(ss) \in F
  BY <1>1, <1>2, NatInduct
<1> QED
  BY <1>3 DEF F

-----------------------------------------------------------------------------
\* The inductive invariant.

\* Who holds the shard is appending a body, and has the end of its record to
\* write still; nobody else is appending.
Sent(w) == Len(Record(body[w])) - Len(rest[w])

Holder(w) ==
    /\ body[w] \in Bodies /\ Sent(w) \in 0..Len(Record(body[w]))
    /\ rest[w] = SubSeq(Record(body[w]), Sent(w) + 1, Len(Record(body[w])))

Idle(w) == body[w] = <<>> /\ rest[w] = <<>>

Held ==
    /\ \A w \in lock : Holder(w) /\ lock = {w}
    /\ \A w \in Writers \ lock : Idle(w)

\* The bodies that were stored before a record was torn: their records are
\* what the file begins with.
Sound  == IF tears = <<>> THEN Len(stored) ELSE tears[1]
Ground == SubSeq(stored, 1, Sound)

Grounded ==
    /\ tears # <<>> => tears[1] <= Len(stored)
    /\ Extends(bytes, Laid(Ground))

\* Without a torn record there is nothing behind them but what is written of
\* the next one.
Written(w) == IF rest[w] = <<>> THEN <<>> ELSE SubSeq(Record(body[w]), 1, Sent(w))

Whole ==
    tears = <<>> =>
        /\ lock = {} => bytes = Laid(Ground)
        /\ \A w \in lock : bytes = Laid(Ground) \o Written(w)

\* f is s and some of a record, which is not all of it.
EndsTorn(f, s) ==
    \E b \in Bodies : \E k \in 0..(Len(Record(b)) - 1) : f = s \o SubSeq(Record(b), 1, k)

\* And behind the last one, as long as it is the last, the piece of it.
Torn ==
    tears = <<Len(stored)>> /\ (\A w \in Writers : ~Partial(w)) => EndsTorn(bytes, Laid(Ground))

LogInv == LogTypes /\ Held /\ Grounded /\ Whole /\ Torn

-----------------------------------------------------------------------------
\* Of the invariant.

LEMMA FullSeq ==
    ASSUME NEW S, NEW s \in Seq(S)
    PROVE  SubSeq(s, 1, Len(s)) = s /\ SubSeq(s, 1, 0) = <<>>
  BY SubSeqFull, SubSeqEmpty

LEMMA GroundIs ==
    ASSUME LogTypes, Grounded
    PROVE  /\ Sound \in 0..Len(stored) /\ Ground \in Seq(Bodies)
           /\ tears = <<>> => Ground = stored
           /\ tears = <<Len(stored)>> => Ground = stored
           /\ Laid(Ground) \in Seq(Byte)
<1>1. stored \in Seq(Bodies) /\ tears \in Seq(Nat) /\ Len(stored) \in Nat
  BY DEF LogTypes
<1>2. tears # <<>> => tears[1] \in Nat /\ tears[1] <= Len(stored)
  <2> SUFFICES ASSUME tears # <<>> PROVE tears[1] \in Nat /\ tears[1] <= Len(stored)
    OBVIOUS
  <2>1. 1 \in 1..Len(tears)
    BY <1>1
  <2> QED
    BY <1>1, <2>1 DEF Grounded
<1>3. Sound \in 0..Len(stored)
  <2>1. CASE tears = <<>>
    BY <1>1, <2>1 DEF Sound
  <2>2. CASE tears # <<>>
    BY <1>1, <1>2, <2>2 DEF Sound
  <2> QED
    BY <2>1, <2>2
<1>4. Ground \in Seq(Bodies)
  <2>1. \A i \in 1..Sound : stored[i] \in Bodies
    BY <1>1, <1>3
  <2> QED
    BY <1>3, <2>1, SubSeqProperties DEF Ground
<1>5. Sound = Len(stored) => Ground = stored
  BY <1>1, FullSeq DEF Ground
<1>6. tears = <<>> => Sound = Len(stored)
  BY DEF Sound
<1>7. tears = <<Len(stored)>> => Sound = Len(stored)
  <2> DEFINE t == <<Len(stored)>>
  <2>1. t # <<>> /\ t[1] = Len(stored)
    OBVIOUS
  <2> HIDE DEF t
  <2>2. tears = t => Sound = Len(stored)
    BY <2>1 DEF Sound
  <2> QED
    BY <2>2 DEF t
<1>8. Laid(Ground) \in Seq(Byte)
  BY <1>4, RecordsOf
<1> QED
  BY <1>3, <1>4, <1>5, <1>6, <1>7, <1>8

LEMMA HolderIs ==
    ASSUME LogTypes, NEW w \in Writers, Holder(w)
    PROVE  /\ Record(body[w]) \in Seq(Byte) /\ Len(Record(body[w])) \in Nat
           /\ Len(Record(body[w])) > 0
           /\ Sent(w) \in Nat /\ Sent(w) <= Len(Record(body[w]))
           /\ rest[w] \in Seq(Byte) /\ Len(rest[w]) = Len(Record(body[w])) - Sent(w)
<1>1. rest[w] \in Seq(Byte) /\ Len(rest[w]) \in Nat
  BY DEF LogTypes
<1>2. body[w] \in Bodies /\ Sent(w) \in 0..Len(Record(body[w]))
  BY DEF Holder
<1> DEFINE n == Len(Record(body[w]))
           u == Len(Uvarint(Len(body[w])))
           m == Len(body[w])
<1>3. Record(body[w]) \in Seq(Byte) /\ n = u + m /\ u \in Nat /\ u > 0
  BY <1>2, RecordIn
<1>4. m \in Nat
  BY <1>2, Constants
<1>5. Sent(w) = n - Len(rest[w]) /\ Sent(w) \in 0..n
  BY <1>2 DEF Sent
<1> HIDE DEF n, u, m
<1>6. n \in Nat /\ n > 0
  BY <1>3, <1>4
<1>7. Len(rest[w]) = n - Sent(w) /\ Sent(w) \in Nat /\ Sent(w) <= n
  BY <1>1, <1>5, <1>6
<1> QED
  BY <1>1, <1>3, <1>6, <1>7 DEF n

\* What is taken of the end of a sequence, and what is left of it.
LEMMA Pieces ==
    ASSUME NEW S, NEW r \in Seq(S), NEW k \in Nat, NEW n \in Nat, n > 0, k + n <= Len(r),
           NEW s, s = SubSeq(r, k + 1, Len(r))
    PROVE  /\ SubSeq(r, 1, k) \in Seq(S) /\ SubSeq(s, 1, n) \in Seq(S)
           /\ SubSeq(r, 1, k) \o SubSeq(s, 1, n) = SubSeq(r, 1, k + n)
           /\ SubSeq(s, n + 1, Len(s)) = SubSeq(r, (k + n) + 1, Len(r))
           /\ Len(s) = Len(r) - k
<1> DEFINE m == Len(r)
           a == SubSeq(s, 1, n)
           b == SubSeq(r, k + 1, k + n)
           c == SubSeq(s, n + 1, Len(s))
           d == SubSeq(r, (k + n) + 1, m)
<1>1. m \in Nat /\ k + n <= m /\ \A i \in 1..m : r[i] \in S
  OBVIOUS
<1> HIDE DEF m
<1>2. s \in Seq(S) /\ Len(s) = m - k /\ \A i \in 1..(m - k) : s[i] = r[k + i]
  <2>1. \A i \in (k + 1)..m : r[i] \in S
    BY <1>1
  <2>2. /\ s \in Seq(S) /\ Len(s) = IF k + 1 <= m THEN m - (k + 1) + 1 ELSE 0
        /\ \A i \in 1..(m - (k + 1) + 1) : s[i] = r[(k + 1) + i - 1]
    BY <1>1, <2>1, SubSeqProperties DEF m
  <2>3. m - (k + 1) + 1 = m - k /\ k + 1 <= m /\ \A i \in 1..(m - k) : (k + 1) + i - 1 = k + i
    BY <1>1
  <2> QED
    BY <2>2, <2>3
<1>3. a \in Seq(S) /\ Len(a) = n /\ \A i \in 1..n : a[i] = s[i]
  <2>1. \A i \in 1..n : s[i] \in S
    BY <1>1, <1>2
  <2> QED
    BY <2>1
<1>4. b \in Seq(S) /\ Len(b) = n /\ \A i \in 1..n : b[i] = r[k + i]
  <2>1. \A i \in (k + 1)..(k + n) : r[i] \in S
    BY <1>1
  <2>2. /\ b \in Seq(S) /\ Len(b) = IF k + 1 <= k + n THEN (k + n) - (k + 1) + 1 ELSE 0
        /\ \A i \in 1..((k + n) - (k + 1) + 1) : b[i] = r[(k + 1) + i - 1]
    BY <2>1, SubSeqProperties
  <2>3. (k + n) - (k + 1) + 1 = n /\ k + 1 <= k + n /\ \A i \in 1..n : (k + 1) + i - 1 = k + i
    OBVIOUS
  <2> QED
    BY <2>2, <2>3
<1> HIDE DEF a, b
<1>5. a = b
  <2>1. ASSUME NEW i \in 1..Len(a) PROVE a[i] = b[i]
    <3>1. i \in 1..n /\ i \in 1..(m - k)
      BY <1>1, <1>3
    <3> QED
      BY <1>2, <1>3, <1>4, <3>1
  <2> QED
    BY <1>3, <1>4, <2>1, SeqEqual
<1>6. SubSeq(r, 1, k) \o b = SubSeq(r, 1, k + n)
  <2>1. 1 \in 1..(m + 1) /\ k \in (1 - 1)..m /\ k + n \in k..m
    BY <1>1
  <2> QED
    BY <2>1, ConcatAdjacentSubSeq DEF b, m
<1>7. SubSeq(r, 1, k) \in Seq(S)
  <2>1. \A i \in 1..k : r[i] \in S
    BY <1>1
  <2> QED
    BY <2>1
<1>8. c = d
  <2> DEFINE h == m - k - n
  <2>1. \A i \in (n + 1)..Len(s) : s[i] \in S
    BY <1>2
  <2>2. c \in Seq(S) /\ Len(c) = h /\ \A i \in 1..h : c[i] = s[n + i]
    <3>1. /\ c \in Seq(S) /\ Len(c) = IF n + 1 <= Len(s) THEN Len(s) - (n + 1) + 1 ELSE 0
          /\ \A i \in 1..(Len(s) - (n + 1) + 1) : c[i] = s[(n + 1) + i - 1]
      BY <1>1, <1>2, <2>1, SubSeqProperties
    <3>2. Len(s) - (n + 1) + 1 = h /\ (~(n + 1 <= Len(s)) => h = 0)
          /\ \A i \in 1..h : (n + 1) + i - 1 = n + i
      BY <1>1, <1>2
    <3> HIDE DEF c, h
    <3> QED
      BY <3>1, <3>2
  <2>3. d \in Seq(S) /\ Len(d) = h /\ \A i \in 1..h : d[i] = r[k + n + i]
    <3>1. \A i \in ((k + n) + 1)..m : r[i] \in S
      BY <1>1
    <3>2. /\ d \in Seq(S) /\ Len(d) = IF (k + n) + 1 <= m THEN m - ((k + n) + 1) + 1 ELSE 0
          /\ \A i \in 1..(m - ((k + n) + 1) + 1) : d[i] = r[((k + n) + 1) + i - 1]
      BY <1>1, <3>1, SubSeqProperties
    <3>3. m - ((k + n) + 1) + 1 = h /\ (~((k + n) + 1 <= m) => h = 0)
          /\ \A i \in 1..h : ((k + n) + 1) + i - 1 = k + n + i
      BY <1>1
    <3> HIDE DEF d, h
    <3> QED
      BY <3>2, <3>3
  <2> HIDE DEF c, d
  <2>4. ASSUME NEW i \in 1..Len(c) PROVE c[i] = d[i]
    <3>1. i \in 1..h /\ n + i \in 1..(m - k) /\ k + (n + i) = k + n + i
      BY <1>1, <2>2
    <3>2. c[i] = s[n + i] /\ s[n + i] = r[k + (n + i)] /\ d[i] = r[k + n + i]
      BY <1>2, <2>2, <2>3, <3>1
    <3> QED
      BY <3>1, <3>2
  <2> QED
    BY <2>2, <2>3, <2>4, SeqEqual
<1> QED
  BY <1>2, <1>3, <1>5, <1>6, <1>7, <1>8 DEF a, m

LEMMA ExtendsMore ==
    ASSUME NEW S, NEW f \in Seq(S), NEW t \in Seq(S), NEW s \in Seq(S), Extends(f, s)
    PROVE  f \o t \in Seq(S) /\ Extends(f \o t, s)
<1> DEFINE h == f \o t
<1>1. /\ h \in Seq(S) /\ Len(h) = Len(f) + Len(t)
      /\ \A i \in 1..(Len(f) + Len(t)) : h[i] = IF i <= Len(f) THEN f[i] ELSE t[i - Len(f)]
  BY ConcatProperties
<1>2. Len(s) <= Len(f) /\ \A i \in 1..Len(s) : f[i] = s[i]
  BY DEF Extends
<1>3. Len(s) \in Nat /\ Len(f) \in Nat /\ Len(t) \in Nat
  OBVIOUS
<1> HIDE DEF h
<1>4. ASSUME NEW i \in 1..Len(s) PROVE h[i] = s[i]
  <2>1. i \in 1..(Len(f) + Len(t)) /\ i <= Len(f)
    BY <1>2, <1>3
  <2> QED
    BY <1>1, <1>2, <2>1
<1>5. Len(s) <= Len(h)
  BY <1>1, <1>2, <1>3
<1> QED
  BY <1>1, <1>4, <1>5 DEF Extends, h

LEMMA ExtendsSelf ==
    ASSUME NEW S, NEW f \in Seq(S)
    PROVE  Extends(f, f)
<1>1. Len(f) \in Nat /\ Len(f) <= Len(f)
  OBVIOUS
<1> QED
  BY <1>1 DEF Extends

-----------------------------------------------------------------------------
\* Its steps.

LEMMA LogInit == Init => LogInv
<1> SUFFICES ASSUME Init PROVE LogInv
  OBVIOUS
<1> DEFINE none == <<>>
<1>1. /\ bytes = none /\ lock = {} /\ stored = none /\ tears = none
      /\ body = [w \in Writers |-> none] /\ rest = [w \in Writers |-> none]
  BY DEF Init
<1>2. none \in Seq(Byte) /\ none \in Seq(Bodies) /\ none \in Seq(Nat)
      /\ Len(none) = 0 /\ SubSeq(none, 1, 0) = none /\ \A n : none # <<n>>
  OBVIOUS
<1>3. Laid(none) = none
  BY LaidNone
<1> HIDE DEF none
<1>4. LogTypes
  BY <1>1, <1>2 DEF LogTypes, none
<1>5. Held
  BY <1>1 DEF Held, Idle, none
<1>6. Sound = 0 /\ Ground = none
  <2>1. Sound = 0
    BY <1>1, <1>2 DEF Sound, none
  <2> QED
    BY <1>1, <1>2, <2>1 DEF Ground
<1>7. Grounded
  <2>1. Extends(none, none)
    BY <1>2, ExtendsSelf
  <2> QED
    BY <1>1, <1>3, <1>6, <2>1 DEF Grounded, none
<1>8. Whole
  BY <1>1, <1>3, <1>6 DEF Whole
<1>9. Torn
  BY <1>1, <1>2 DEF Torn
<1> QED
  BY <1>4, <1>5, <1>7, <1>8, <1>9 DEF LogInv

\* A writer that holds the shard is the one that does.
LEMMA HolderOnly ==
    ASSUME LogInv, NEW w \in lock
    PROVE  /\ w \in Writers /\ lock = {w} /\ Holder(w)
           /\ \A v \in Writers : v # w => Idle(v)
<1>1. w \in Writers
  BY DEF LogInv, LogTypes
<1>2. Holder(w) /\ lock = {w} /\ \A v \in Writers \ lock : Idle(v)
  BY DEF LogInv, Held
<1> QED
  BY <1>1, <1>2

LEMMA IdleNotPartial ==
    ASSUME NEW w, Idle(w)
    PROVE  ~Partial(w)
  BY DEF Idle, Partial

LEMMA LockStep ==
    ASSUME LogInv, NEW w \in Writers, NEW b \in Bodies, Locks(w, b)
    PROVE  LogInv'
<1> DEFINE r == Record(b)
           none == <<>>
<1>0. LogTypes /\ Held /\ Grounded /\ Whole /\ Torn
  BY DEF LogInv
<1>1. /\ lock = {} /\ lock' = {w} /\ bytes' = bytes /\ stored' = stored /\ tears' = tears
      /\ body' = [body EXCEPT ![w] = b] /\ rest' = [rest EXCEPT ![w] = r]
  BY DEF Locks, Free
<1>2. r \in Seq(Byte) /\ Len(r) \in Nat /\ Len(r) > 0
  <2>1. /\ r \in Seq(Byte) /\ Len(r) = Len(Uvarint(Len(b))) + Len(b)
        /\ Len(Uvarint(Len(b))) \in Nat /\ Len(Uvarint(Len(b))) > 0
    BY RecordIn
  <2>2. Len(b) \in Nat
    BY Constants
  <2> QED
    BY <2>1, <2>2
<1> HIDE DEF r
<1>3. /\ body \in [Writers -> Bodies \cup {none}] /\ rest \in [Writers -> Seq(Byte)]
      /\ bytes \in Seq(Byte) /\ stored \in Seq(Bodies) /\ tears \in Seq(Nat)
  BY <1>0 DEF LogTypes
<1>4. LogTypes'
  BY <1>1, <1>2, <1>3 DEF LogTypes
<1>5. /\ body'[w] = b /\ rest'[w] = r
      /\ \A v \in Writers : v # w => body'[v] = body[v] /\ rest'[v] = rest[v]
  BY <1>1, <1>3
<1>6. \A v \in Writers : Idle(v)
  BY <1>0, <1>1 DEF Held
<1>7. Sent(w)' = 0
  <2>1. Sent(w)' = Len(r) - Len(r)
    BY <1>5 DEF Sent, r
  <2> QED
    BY <1>2, <2>1
<1>8. SubSeq(r, 1, Len(r)) = r /\ SubSeq(r, 1, 0) = none
  BY <1>2, FullSeq
<1>9. Held'
  <2>1. Holder(w)'
    <3>1. body'[w] \in Bodies /\ 0 \in 0..Len(r) /\ rest'[w] = SubSeq(r, 0 + 1, Len(r))
      BY <1>2, <1>5, <1>8
    <3> QED
      BY <1>5, <1>7, <3>1 DEF Holder, r
  <2>2. \A v \in Writers : v # w => Idle(v)'
    BY <1>5, <1>6 DEF Idle
  <2>3. \A v \in lock' : Holder(v)' /\ lock' = {v}
    <3> SUFFICES ASSUME NEW v \in lock' PROVE Holder(v)' /\ lock' = {v}
      OBVIOUS
    <3>1. v = w
      BY <1>1
    <3> QED
      BY <1>1, <2>1, <3>1
  <2>4. \A v \in Writers \ lock' : Idle(v)'
    BY <1>1, <2>2
  <2> QED
    BY <2>3, <2>4 DEF Held
<1>10. Ground' = Ground
  BY <1>1 DEF Ground, Sound
<1>11. Grounded'
  BY <1>0, <1>1, <1>10 DEF Grounded
<1>12. Whole'
  <2> SUFFICES ASSUME tears = none
               PROVE  \A v \in lock' : bytes' = Laid(Ground') \o Written(v)'
    BY <1>1 DEF Whole
  <2>1. bytes = Laid(Ground) /\ Laid(Ground) \in Seq(Byte)
    BY <1>0, <1>1, GroundIs DEF Whole
  <2>2. Written(w)' = none
    <3>1. rest'[w] # <<>>
      BY <1>2, <1>5
    <3>2. Written(w)' = SubSeq(r, 1, 0)
      BY <1>5, <1>7, <3>1 DEF Written, r
    <3> QED
      BY <1>8, <3>2
  <2>3. Laid(Ground) \o none = Laid(Ground)
    BY <2>1, ConcatNothing
  <2> QED
    BY <1>1, <1>10, <2>1, <2>2, <2>3
<1>13. Torn'
  <2> SUFFICES ASSUME tears = <<Len(stored)>> PROVE EndsTorn(bytes, Laid(Ground))
    BY <1>1, <1>10 DEF Torn
  <2>1. \A v \in Writers : ~Partial(v)
    BY <1>6, IdleNotPartial
  <2> QED
    BY <1>0, <2>1 DEF Torn
<1> QED
  BY <1>4, <1>9, <1>11, <1>12, <1>13 DEF LogInv

\* A writer is done, with all of its record in the file or nothing.
Lets(w) ==
    /\ w \in lock /\ ~Partial(w)
    /\ lock' = {} /\ bytes' = bytes /\ stored' = stored /\ tears' = tears

\* A writer is done, with a piece of its record in the file.
Tears(w) ==
    /\ w \in lock /\ Partial(w)
    /\ lock' = {} /\ bytes' = bytes /\ stored' = stored /\ tears' = Append(tears, Len(stored))

\* It is not appending any more.
Clears(w) ==
    /\ body' \in [Writers -> Bodies \cup {<<>>}] /\ rest' \in [Writers -> Seq(Byte)]
    /\ body'[w] = <<>> /\ rest'[w] = <<>>
    /\ \A v \in Writers : v # w => body'[v] = body[v] /\ rest'[v] = rest[v]

LEMMA ClearHeld ==
    ASSUME LogInv, NEW w \in lock, Clears(w), lock' = {}
    PROVE  Held'
<1>1. \A v \in Writers : v # w => Idle(v)
  BY HolderOnly
<1>2. \A v \in Writers : Idle(v)'
  BY <1>1 DEF Clears, Idle
<1> QED
  BY <1>2 DEF Held

\* What is written of a record that is all in the file, or not at all.
LEMMA NothingWritten ==
    ASSUME LogInv, NEW w \in lock, ~Partial(w)
    PROVE  Written(w) = <<>>
<1>1. w \in Writers /\ Holder(w)
  BY HolderOnly
<1>2. CASE rest[w] = <<>>
  BY <1>2 DEF Written
<1>3. CASE rest[w] # <<>>
  <2>1. /\ Record(body[w]) \in Seq(Byte) /\ Len(Record(body[w])) \in Nat
        /\ Sent(w) \in Nat /\ Len(rest[w]) = Len(Record(body[w])) - Sent(w)
    BY <1>1, HolderIs DEF LogInv
  <2>2. ~(Len(rest[w]) < Len(Record(body[w])))
    BY <1>3 DEF Partial
  <2>3. Sent(w) = 0
    BY <2>1, <2>2
  <2>4. Written(w) = SubSeq(Record(body[w]), 1, 0)
    BY <1>3, <2>3 DEF Written
  <2> QED
    BY <2>1, <2>4, FullSeq
<1> QED
  BY <1>2, <1>3

LEMMA LetStep ==
    ASSUME LogInv, NEW w, Lets(w), Clears(w)
    PROVE  LogInv'
<1>0. LogTypes /\ Held /\ Grounded /\ Whole /\ Torn
  BY DEF LogInv
<1>1. /\ w \in lock /\ ~Partial(w)
      /\ lock' = {} /\ bytes' = bytes /\ stored' = stored /\ tears' = tears
  BY DEF Lets
<1>2. w \in Writers /\ lock = {w} /\ Holder(w) /\ \A v \in Writers : v # w => Idle(v)
  BY <1>1, HolderOnly
<1>3. LogTypes'
  BY <1>0, <1>1 DEF LogTypes, Clears
<1>4. Held'
  BY <1>1, ClearHeld
<1>5. Ground' = Ground
  BY <1>1 DEF Ground, Sound
<1>6. Grounded'
  BY <1>0, <1>1, <1>5 DEF Grounded
<1>7. Whole'
  <2> SUFFICES ASSUME tears = <<>> PROVE bytes = Laid(Ground)
    BY <1>1, <1>5 DEF Whole
  <2>1. bytes = Laid(Ground) \o Written(w)
    BY <1>0, <1>1 DEF Whole
  <2>2. Written(w) = <<>>
    BY <1>1, NothingWritten
  <2>3. Laid(Ground) \in Seq(Byte)
    BY <1>0, GroundIs
  <2>4. Laid(Ground) \o <<>> = Laid(Ground)
    BY <2>3, ConcatNothing
  <2> QED
    BY <2>1, <2>2, <2>4
<1>8. Torn'
  <2> SUFFICES ASSUME tears = <<Len(stored)>> PROVE EndsTorn(bytes, Laid(Ground))
    BY <1>1, <1>5 DEF Torn
  <2>1. \A v \in Writers : ~Partial(v)
    BY <1>1, <1>2, IdleNotPartial
  <2> QED
    BY <1>0, <2>1 DEF Torn
<1> QED
  BY <1>3, <1>4, <1>6, <1>7, <1>8 DEF LogInv

LEMMA TearStep ==
    ASSUME LogInv, NEW w, Tears(w), Clears(w)
    PROVE  LogInv'
<1> DEFINE none == <<>>
           n == Len(stored)
           more == Append(tears, n)
<1>0. LogTypes /\ Held /\ Grounded /\ Whole /\ Torn
  BY DEF LogInv
<1>1. /\ w \in lock /\ Partial(w)
      /\ lock' = {} /\ bytes' = bytes /\ stored' = stored /\ tears' = more
  BY DEF Tears
<1>2. w \in Writers /\ lock = {w} /\ Holder(w)
  BY <1>1, HolderOnly
<1>3. tears \in Seq(Nat) /\ n \in Nat
  BY <1>0 DEF LogTypes
<1>4. /\ more \in Seq(Nat) /\ more # none /\ Len(more) = Len(tears) + 1
      /\ tears = none => more[1] = n
      /\ tears # none => more[1] = tears[1]
  <2>1. /\ more \in Seq(Nat) /\ Len(more) = Len(tears) + 1 /\ more # none
        /\ \A i \in 1..Len(tears) : more[i] = tears[i]
        /\ more[Len(tears) + 1] = n
    BY <1>3, AppendProperties
  <2>2. tears = none => Len(tears) = 0
    OBVIOUS
  <2>3. tears # none => 1 \in 1..Len(tears)
    BY <1>3
  <2> HIDE DEF more, none
  <2> QED
    BY <2>1, <2>2, <2>3
<1> HIDE DEF more, n
<1>5. LogTypes'
  BY <1>0, <1>1, <1>4 DEF LogTypes, Clears
<1>6. Held'
  BY <1>1, ClearHeld
<1>7. Ground' = Ground /\ more[1] <= n
  <2>1. Sound' = more[1]
    BY <1>1, <1>4 DEF Sound
  <2>2. CASE tears = none
    <3>1. Sound = n /\ more[1] = n
      BY <1>4, <2>2 DEF Sound, n
    <3> QED
      BY <1>1, <1>3, <2>1, <3>1 DEF Ground
  <2>3. CASE tears # none
    <3>1. Sound = tears[1] /\ more[1] = tears[1] /\ tears[1] <= n
      BY <1>0, <1>4, <2>3 DEF Sound, Grounded, n
    <3> QED
      BY <1>1, <2>1, <3>1 DEF Ground
  <2> QED
    BY <2>2, <2>3
<1>8. Grounded'
  BY <1>0, <1>1, <1>7 DEF Grounded, n
<1>9. Whole'
  BY <1>1, <1>4 DEF Whole
<1>10. Torn'
  <2> SUFFICES ASSUME more = <<n>> PROVE EndsTorn(bytes, Laid(Ground))
    BY <1>1, <1>7 DEF Torn, n
  <2> DEFINE b == body[w]
             r == Record(body[w])
             k == Sent(w)
  <2>1. tears = none
    <3>1. Len(tears) = 0
      BY <1>3, <1>4
    <3> QED
      BY <1>3, <3>1
  <2>2. bytes = Laid(Ground) \o Written(w)
    BY <1>0, <1>1, <2>1 DEF Whole
  <2>3. rest[w] # <<>> /\ Len(rest[w]) < Len(r)
    BY <1>1 DEF Partial
  <2>4. Written(w) = SubSeq(r, 1, k)
    BY <2>3 DEF Written
  <2>5. b \in Bodies
    BY <1>2 DEF Holder
  <2>6. k \in 0..(Len(r) - 1)
    <3>1. /\ Len(r) \in Nat /\ k \in Nat /\ k <= Len(r)
          /\ rest[w] \in Seq(Byte) /\ Len(rest[w]) = Len(r) - k
      BY <1>0, <1>2, HolderIs
    <3>2. Len(rest[w]) \in Nat /\ Len(rest[w]) > 0
      BY <2>3, <3>1
    <3> HIDE DEF k, r
    <3> QED
      BY <3>1, <3>2
  <2>7. bytes = Laid(Ground) \o SubSeq(Record(b), 1, k) /\ k \in 0..(Len(Record(b)) - 1)
    BY <2>2, <2>4, <2>6
  <2> HIDE DEF b, k
  <2> QED
    BY <2>5, <2>7, Zenon DEF EndsTorn
<1> QED
  BY <1>5, <1>6, <1>8, <1>9, <1>10 DEF LogInv

LEMMA WriteStep ==
    ASSUME LogInv, NEW w \in Writers, NEW n \in Nat, Writes(w, n)
    PROVE  LogInv' /\ Extends(bytes', bytes)
<1> DEFINE none == <<>>
           b == body[w]
           r == Record(b)
           k == Sent(w)
           s == rest[w]
           piece == SubSeq(s, 1, n)
           G == Laid(Ground)
<1>0. LogTypes /\ Held /\ Grounded /\ Whole /\ Torn
  BY DEF LogInv
<1>1. /\ n \in 1..Len(s) /\ bytes' = bytes \o piece
      /\ rest' = [rest EXCEPT ![w] = SubSeq(s, n + 1, Len(s))]
      /\ stored' = IF n = Len(s) THEN Append(stored, b) ELSE stored
      /\ lock' = lock /\ body' = body /\ tears' = tears
  BY DEF Writes
<1>2. /\ bytes \in Seq(Byte) /\ rest \in [Writers -> Seq(Byte)] /\ s \in Seq(Byte) /\ Len(s) \in Nat
      /\ stored \in Seq(Bodies) /\ tears \in Seq(Nat)
  BY <1>0 DEF LogTypes
<1>3. w \in lock
  <2> SUFFICES ASSUME w \notin lock PROVE FALSE
    OBVIOUS
  <2>1. s = none
    BY <1>0 DEF Held, Idle
  <2>2. Len(s) = 0
    BY <2>1
  <2> QED
    BY <1>1, <2>2
<1>4. lock = {w} /\ Holder(w) /\ \A v \in Writers : v # w => Idle(v)
  BY <1>3, HolderOnly
<1>5. b \in Bodies /\ s = SubSeq(r, k + 1, Len(r))
  BY <1>4 DEF Holder
<1>6. /\ r \in Seq(Byte) /\ Len(r) \in Nat /\ Len(r) > 0 /\ k \in Nat /\ k <= Len(r)
      /\ Len(s) = Len(r) - k
  BY <1>0, <1>4, HolderIs
<1>7. n \in Nat /\ n > 0 /\ n <= Len(s) /\ k + n <= Len(r)
  <2> HIDE DEF k, r, s
  <2> QED
    BY <1>1, <1>2, <1>6
<1> DEFINE left == SubSeq(s, n + 1, Len(s))
           first == SubSeq(r, 1, k)
<1>8. /\ first \in Seq(Byte) /\ piece \in Seq(Byte)
      /\ first \o piece = SubSeq(r, 1, k + n)
      /\ left = SubSeq(r, (k + n) + 1, Len(r))
  <2> HIDE DEF k, r, s
  <2>1. r \in Seq(Byte) /\ k \in Nat /\ n > 0 /\ k + n <= Len(r) /\ s = SubSeq(r, k + 1, Len(r))
    BY <1>5, <1>6, <1>7
  <2>2. /\ SubSeq(r, 1, k) \in Seq(Byte) /\ SubSeq(s, 1, n) \in Seq(Byte)
        /\ SubSeq(r, 1, k) \o SubSeq(s, 1, n) = SubSeq(r, 1, k + n)
        /\ SubSeq(s, n + 1, Len(s)) = SubSeq(r, (k + n) + 1, Len(r))
    BY <2>1, Pieces
  <2> QED
    BY <2>2, Zenon
<1>9. left \in Seq(Byte) /\ Len(left) = Len(r) - (k + n)
  <2> HIDE DEF k, r, s
  <2>1. \A i \in (n + 1)..Len(s) : s[i] \in Byte
    BY <1>2, <1>7
  <2>2. left \in Seq(Byte) /\ Len(left) = IF n + 1 <= Len(s) THEN Len(s) - (n + 1) + 1 ELSE 0
    BY <1>2, <1>7, <2>1, SubSeqProperties
  <2> HIDE DEF left
  <2>3. CASE n + 1 <= Len(s)
    BY <1>2, <1>6, <1>7, <2>2, <2>3
  <2>4. CASE ~(n + 1 <= Len(s))
    <3>1. n = Len(s) /\ Len(left) = 0
      BY <1>2, <1>7, <2>2, <2>4
    <3> QED
      BY <1>6, <1>7, <2>2, <3>1
  <2> QED
    BY <2>3, <2>4
<1>10. /\ bytes' \in Seq(Byte) /\ Extends(bytes', bytes)
       /\ G \in Seq(Byte) /\ Extends(bytes', G)
  <2>1. G \in Seq(Byte) /\ Extends(bytes, G)
    BY <1>0, GroundIs DEF Grounded
  <2>2. Extends(bytes, bytes)
    BY <1>2, ExtendsSelf
  <2> HIDE DEF piece, G
  <2> QED
    BY <1>1, <1>2, <1>8, <2>1, <2>2, ExtendsMore
<1>11. rest'[w] = left /\ \A v \in Writers : v # w => rest'[v] = rest[v]
  <2> HIDE DEF s
  <2> QED
    BY <1>1, <1>2
<1>12. Sent(w)' = k + n
  <2>1. Sent(w)' = Len(r) - Len(left)
    BY <1>1, <1>11 DEF Sent
  <2> HIDE DEF k, r, left
  <2> QED
    BY <1>6, <1>7, <1>9, <2>1
<1>13. Held'
  <2>1. Holder(w)'
    <3>1. body'[w] = b /\ rest'[w] = SubSeq(r, (k + n) + 1, Len(r)) /\ k + n \in 0..Len(r)
      <4> HIDE DEF k, r, left
      <4> QED
        BY <1>1, <1>6, <1>7, <1>8, <1>11
    <3> HIDE DEF k, b
    <3> QED
      BY <1>5, <1>12, <3>1 DEF Holder
  <2>2. \A v \in Writers : v # w => Idle(v)'
    BY <1>1, <1>4, <1>11 DEF Idle
  <2>3. \A v \in lock' : Holder(v)' /\ lock' = {v}
    <3> SUFFICES ASSUME NEW v \in lock' PROVE Holder(v)' /\ lock' = {v}
      OBVIOUS
    <3>1. v = w
      BY <1>1, <1>4
    <3> QED
      BY <1>1, <1>4, <2>1, <3>1
  <2>4. \A v \in Writers \ lock' : Idle(v)'
    BY <1>1, <1>4, <2>2
  <2> QED
    BY <2>3, <2>4 DEF Held
<1>14. stored' \in Seq(Bodies)
  <2>1. Append(stored, b) \in Seq(Bodies)
    BY <1>2, <1>5, AppendProperties
  <2> QED
    BY <1>1, <1>2, <2>1
<1>15. LogTypes'
  <2>1. rest' \in [Writers -> Seq(Byte)]
    <3> HIDE DEF s
    <3> QED
      BY <1>1, <1>2, <1>9
  <2> QED
    BY <1>0, <1>1, <1>10, <1>14, <2>1 DEF LogTypes
\* What is written of the record so far, and then.
<1>16. tears = none => bytes' = G \o SubSeq(r, 1, k + n)
  <2> SUFFICES ASSUME tears = none PROVE bytes' = G \o SubSeq(r, 1, k + n)
    OBVIOUS
  <2>1. bytes = G \o Written(w)
    BY <1>0, <1>3 DEF Whole
  <2>2. Written(w) = first
    <3>1. s # <<>>
      <4>1. Len(s) # 0
        BY <1>2, <1>7
      <4> QED
        BY <4>1
    <3> QED
      BY <3>1 DEF Written
  <2> HIDE DEF G, first, piece, r, k
  <2>3. (G \o first) \o piece = G \o (first \o piece)
    <3>1. G \in Seq(Byte) /\ first \in Seq(Byte) /\ piece \in Seq(Byte)
      BY <1>8, <1>10
    <3> QED
      BY <3>1, ConcatAssociative
  <2> QED
    BY <1>1, <1>8, <2>1, <2>2, <2>3
<1>17. CASE n = Len(s)
  <2>1. stored' = Append(stored, b) /\ k + n = Len(r)
    <3> HIDE DEF k, r, s
    <3> QED
      BY <1>1, <1>2, <1>6, <1>17
  <2>2. Len(stored') = Len(stored) + 1 /\ Len(stored) \in Nat
    BY <1>2, <1>5, <2>1, AppendProperties
  <2>3. CASE tears = none
    <3>1. Ground = stored
      BY <1>0, <2>3, GroundIs
    <3>2. Ground' = stored'
      <4>1. Sound' = Len(stored')
        BY <1>1, <2>3 DEF Sound
      <4> QED
        BY <1>14, <4>1, FullSeq DEF Ground
    <3>3. Laid(Ground') = G \o r
      BY <1>2, <1>5, <2>1, <3>1, <3>2, LaidAppend
    <3>4. SubSeq(r, 1, k + n) = r
      <4> HIDE DEF k, r
      <4> QED
        BY <1>6, <2>1, FullSeq
    <3>5. bytes' = Laid(Ground')
      BY <1>16, <2>3, <3>3, <3>4
    <3>6. Grounded'
      <4>1. Extends(bytes', bytes')
        BY <1>10, ExtendsSelf
      <4> QED
        BY <1>1, <2>3, <3>5, <4>1 DEF Grounded
    <3>7. Whole'
      <4>1. rest'[w] = none
        <5>1. Len(left) = 0
          <6> HIDE DEF left, k, r
          <6> QED
            BY <1>6, <1>9, <2>1
        <5> HIDE DEF left
        <5> QED
          BY <1>9, <1>11, <5>1
      <4>2. Written(w)' = none
        BY <4>1 DEF Written
      <4>3. bytes' \o none = bytes'
        BY <1>10, ConcatNothing
      <4>4. \A v \in lock' : bytes' = Laid(Ground') \o Written(v)'
        BY <1>1, <1>4, <3>5, <4>2, <4>3
      <4> QED
        BY <1>1, <1>4, <4>4 DEF Whole
    <3>8. Torn'
      <4>1. none # <<Len(stored)'>>
        OBVIOUS
      <4> QED
        BY <1>1, <2>3, <4>1 DEF Torn
    <3> QED
      BY <1>10, <1>13, <1>15, <3>6, <3>7, <3>8 DEF LogInv
  <2>4. CASE tears # none
    <3>1. tears[1] <= Len(stored) /\ tears[1] \in Nat /\ Sound = tears[1] /\ Sound' = tears[1]
      <4>1. Sound = tears[1] /\ Sound' = tears[1] /\ tears[1] <= Len(stored)
        BY <1>0, <1>1, <2>4 DEF Sound, Grounded
      <4>2. 1 \in 1..Len(tears)
        BY <1>2, <2>4
      <4> QED
        BY <1>2, <4>1, <4>2
    <3>2. Ground' = Ground
      <4> DEFINE m == tears[1]
                 c == SubSeq(stored, 1, m)
                 d == SubSeq(stored', 1, m)
      <4>0. /\ \A i \in 1..Len(stored) : stored'[i] = stored[i]
            /\ \A i \in 1..Len(stored) : stored[i] \in Bodies
        BY <1>2, <1>5, <2>1, AppendProperties
      <4> HIDE DEF m
      <4>1. m \in Nat /\ \A i \in 1..m : i \in 1..Len(stored)
        BY <2>2, <3>1 DEF m
      <4>2. \A i \in 1..m : stored'[i] = stored[i] /\ stored[i] \in Bodies
        BY <4>0, <4>1
      <4>3. c \in Seq(Bodies) /\ Len(c) = m /\ \A i \in 1..m : c[i] = stored[i]
        BY <4>1, <4>2
      <4>4. d \in Seq(Bodies) /\ Len(d) = m /\ \A i \in 1..m : d[i] = stored'[i]
        BY <4>1, <4>2
      <4> HIDE DEF c, d
      <4>5. \A i \in 1..Len(c) : c[i] = d[i]
        BY <4>2, <4>3, <4>4
      <4>6. c = d
        BY <4>3, <4>4, <4>5, SeqEqual
      <4> QED
        BY <3>1, <4>6, Zenon DEF Ground, c, d, m
    <3>3. Grounded'
      <4>1. tears[1] <= Len(stored')
        BY <2>2, <3>1
      <4> QED
        BY <1>1, <1>10, <3>2, <4>1 DEF Grounded
    <3>4. Whole'
      BY <1>1, <2>4 DEF Whole
    <3>5. Torn'
      <4> SUFFICES ASSUME tears' = <<Len(stored')>> PROVE FALSE
        BY DEF Torn
      <4>1. tears[1] = Len(stored')
        BY <1>1
      <4> QED
        BY <2>2, <3>1, <4>1
    <3> QED
      BY <1>10, <1>13, <1>15, <3>3, <3>4, <3>5 DEF LogInv
  <2> QED
    BY <2>3, <2>4
<1>18. CASE n # Len(s)
  <2>1. stored' = stored
    BY <1>1, <1>18
  <2>2. Ground' = Ground
    BY <1>1, <2>1 DEF Ground, Sound
  <2>3. Grounded'
    BY <1>0, <1>1, <1>10, <2>1, <2>2 DEF Grounded
  <2>4. rest'[w] # none /\ Len(rest'[w]) < Len(r)
    <3>1. Len(left) > 0 /\ Len(left) < Len(r)
      <4> HIDE DEF left, k, r, s
      <4>1. n < Len(s)
        BY <1>2, <1>7, <1>18
      <4> QED
        BY <1>6, <1>7, <1>9, <4>1
    <3>2. Len(none) = 0
      OBVIOUS
    <3> HIDE DEF left, none
    <3> QED
      BY <1>11, <3>1, <3>2
  <2>5. Whole'
    <3> SUFFICES ASSUME tears = none
                 PROVE  \A v \in lock' : bytes' = Laid(Ground') \o Written(v)'
      BY <1>1, <1>4 DEF Whole
    <3>1. Written(w)' = SubSeq(r, 1, k + n)
      BY <1>1, <1>12, <2>4 DEF Written
    <3> QED
      BY <1>1, <1>4, <1>16, <2>2, <3>1
  <2>6. Torn'
    <3>1. Partial(w)'
      BY <1>1, <2>4 DEF Partial
    <3> QED
      BY <3>1 DEF Torn
  <2> QED
    BY <1>10, <1>13, <1>15, <2>3, <2>5, <2>6 DEF LogInv
<1> QED
  BY <1>17, <1>18

\* A writer that fails, or ends with its process, leaves a piece or none.
LEMMA AbandonStep ==
    ASSUME LogInv, NEW w \in lock, Abandons(w), lock' = {}, body' = [body EXCEPT ![w] = <<>>]
    PROVE  LogInv' /\ bytes' = bytes
<1>1. /\ bytes' = bytes /\ stored' = stored /\ rest' = [rest EXCEPT ![w] = <<>>]
      /\ tears' = IF Partial(w) THEN Append(tears, Len(stored)) ELSE tears
  BY DEF Abandons
<1>2. /\ w \in Writers /\ body \in [Writers -> Bodies \cup {<<>>}]
      /\ rest \in [Writers -> Seq(Byte)]
  BY DEF LogInv, LogTypes
<1>3. Clears(w)
  <2> DEFINE none == <<>>
  <2>1. none \in Seq(Byte) /\ none \in Bodies \cup {<<>>}
    OBVIOUS
  <2> HIDE DEF none
  <2>2. body' = [body EXCEPT ![w] = none] /\ rest' = [rest EXCEPT ![w] = none]
    BY <1>1 DEF none
  <2>3. /\ body' \in [Writers -> Bodies \cup {<<>>}] /\ rest' \in [Writers -> Seq(Byte)]
        /\ body'[w] = none /\ rest'[w] = none
        /\ \A v \in Writers : v # w => body'[v] = body[v] /\ rest'[v] = rest[v]
    BY <1>2, <2>1, <2>2
  <2> QED
    BY <2>3 DEF Clears, none
<1>4. CASE Partial(w)
  <2>1. Tears(w)
    BY <1>1, <1>4 DEF Tears
  <2> QED
    BY <1>1, <1>3, <2>1, TearStep
<1>5. CASE ~Partial(w)
  <2>1. Lets(w)
    BY <1>1, <1>5 DEF Lets
  <2> QED
    BY <1>1, <1>3, <2>1, LetStep
<1> QED
  BY <1>4, <1>5

LEMMA AppendedStep ==
    ASSUME LogInv, NEW w \in Writers, Appended(w)
    PROVE  LogInv' /\ bytes' = bytes
<1>1. /\ body[w] # <<>> /\ rest[w] = <<>>
      /\ lock' = lock \ {w} /\ body' = [body EXCEPT ![w] = <<>>]
      /\ bytes' = bytes /\ rest' = rest /\ stored' = stored /\ tears' = tears
  BY DEF Appended, Unlocks
<1>2. w \in lock
  BY <1>1 DEF LogInv, Held, Idle
<1>3. lock' = {}
  BY <1>1, <1>2, HolderOnly
<1>4. Lets(w)
  BY <1>1, <1>2, <1>3 DEF Lets, Partial
<1>5. Clears(w)
  <2> DEFINE none == <<>>
  <2>1. body \in [Writers -> Bodies \cup {<<>>}] /\ rest \in [Writers -> Seq(Byte)]
    BY DEF LogInv, LogTypes
  <2>2. none \in Bodies \cup {<<>>} /\ body' = [body EXCEPT ![w] = none]
    BY <1>1
  <2> HIDE DEF none
  <2>3. /\ body' \in [Writers -> Bodies \cup {<<>>}] /\ body'[w] = none
        /\ \A v \in Writers : v # w => body'[v] = body[v]
    BY <2>1, <2>2
  <2> QED
    BY <1>1, <2>1, <2>3 DEF Clears, none
<1> QED
  BY <1>1, <1>4, <1>5, LetStep

\* Every step keeps the invariant, and only adds to the file.
LEMMA LogNext ==
    ASSUME LogInv, [Next]_logVars
    PROVE  LogInv' /\ Extends(bytes', bytes)
<1>0. bytes \in Seq(Byte)
  BY DEF LogInv, LogTypes
<1>1. Extends(bytes, bytes)
  BY <1>0, ExtendsSelf
<1>2. ASSUME NEW w \in Writers, NEW b \in Bodies, Locks(w, b)
      PROVE  LogInv' /\ Extends(bytes', bytes)
  <2>1. bytes' = bytes
    BY <1>2 DEF Locks
  <2> QED
    BY <1>1, <1>2, <2>1, LockStep
<1>3. ASSUME NEW w \in Writers, NEW n \in 1..(MaxRecord + MaxPrefix), Writes(w, n)
      PROVE  LogInv' /\ Extends(bytes', bytes)
  <2>1. n \in Nat
    BY Constants
  <2> QED
    BY <1>3, <2>1, WriteStep
<1>4. ASSUME NEW w \in Writers, Appended(w)
      PROVE  LogInv' /\ Extends(bytes', bytes)
  BY <1>1, <1>4, AppendedStep
<1>5. ASSUME NEW w \in Writers, WriteFails(w)
      PROVE  LogInv' /\ Extends(bytes', bytes)
  <2>1. /\ rest[w] # <<>> /\ Abandons(w)
        /\ lock' = lock \ {w} /\ body' = [body EXCEPT ![w] = <<>>]
    BY <1>5 DEF WriteFails, Unlocks
  <2>2. w \in lock
    BY <2>1 DEF LogInv, Held, Idle
  <2>3. lock' = {}
    BY <2>1, <2>2, HolderOnly
  <2> QED
    BY <1>1, <2>1, <2>2, <2>3, AbandonStep
<1>6. ASSUME Crash
      PROVE  LogInv' /\ Extends(bytes', bytes)
  <2>1. PICK w \in Writers : /\ lock = {w} /\ Abandons(w)
                             /\ lock' = {} /\ body' = [body EXCEPT ![w] = <<>>]
    BY <1>6 DEF Crash
  <2>2. w \in lock
    BY <2>1
  <2> QED
    BY <1>1, <2>1, <2>2, AbandonStep
<1>7. ASSUME UNCHANGED logVars
      PROVE  LogInv' /\ Extends(bytes', bytes)
  <2>1. /\ bytes' = bytes /\ lock' = lock /\ body' = body /\ rest' = rest
        /\ stored' = stored /\ tears' = tears
    BY <1>7 DEF logVars
  <2>2. LogTypes' /\ Held' /\ Grounded' /\ Whole' /\ Torn'
    BY <2>1 DEF LogInv, LogTypes, Held, Holder, Idle, Sent, Grounded, Ground, Sound, Whole,
                Written, Torn, Partial
  <2> QED
    BY <1>1, <2>1, <2>2 DEF LogInv
<1> QED
  BY <1>2, <1>3, <1>4, <1>5, <1>6, <1>7 DEF Next, Quiet

LEMMA LogInvariant == Spec => []LogInv
<1>1. LogInv /\ [Next]_logVars => LogInv'
  BY LogNext
<1> QED
  BY LogInit, <1>1, PTL DEF Spec

-----------------------------------------------------------------------------
\* What a fetch finds.

LEMMA StoredFound ==
    ASSUME LogInv
    PROVE  ReadsWhatWasStored
<1>0. LogTypes /\ Held /\ Grounded /\ Whole /\ Torn
  BY DEF LogInv
<1>1. /\ bytes \in Seq(Byte) /\ Ground \in Seq(Bodies) /\ Laid(Ground) \in Seq(Byte)
      /\ stored \in Seq(Bodies) /\ Extends(bytes, Laid(Ground))
  BY <1>0, GroundIs DEF LogTypes, Grounded
<1>2. PICK g : Finds(g, bytes) /\ Records(bytes) = g[1]
  BY <1>1, RecordsFound
<1> DEFINE p == Len(Laid(Ground)) + 1
<1>3. Records(bytes) = Ground \o g[p]
  BY <1>1, <1>2, LaidRead, Zenon DEF Continues
<1>4. p \in Nat /\ p > 0 /\ p \in 1..(Len(bytes) + 1) /\ Len(Laid(Ground)) \in Nat
  <2>1. Len(Laid(Ground)) \in Nat /\ Len(bytes) \in Nat /\ Len(Laid(Ground)) <= Len(bytes)
    BY <1>1 DEF Extends
  <2> QED
    BY <2>1
<1>5. Ground \in Seq(Seq(Byte)) /\ g[p] \in Seq(Seq(Byte))
  <2>1. Ground \in Seq(Seq(Byte))
    BY <1>1, BodiesSeq
  <2> HIDE DEF p
  <2> QED
    BY <1>2, <1>4, <2>1 DEF Finds
<1>6. IsPrefix(Ground, Records(bytes))
  <2>1. IsPrefix(<<>>, g[p])
    BY <1>5, PrefixNone
  <2>2. <<>> \in Seq(Seq(Byte))
    OBVIOUS
  <2>3. IsPrefix(Ground \o <<>>, Ground \o g[p])
    BY <1>5, <2>1, <2>2, PrefixBehind
  <2>4. Ground \o <<>> = Ground
    BY <1>5, ConcatNothing
  <2> QED
    BY <1>3, <2>3, <2>4
\* Nothing is found behind what was stored.
<1>7. ASSUME Ground = stored, BodyAt(bytes, p) = {}
      PROVE  Records(bytes) = stored
  <2>1. g[p] = <<>>
    BY <1>2, <1>4, <1>7 DEF Finds
  <2>2. Ground \o <<>> = Ground
    BY <1>5, ConcatNothing
  <2> QED
    BY <1>3, <1>7, <2>1, <2>2
<1>8. ASSUME bytes = Laid(Ground)
      PROVE  BodyAt(bytes, p) = {}
  <2>1. BodyAt(bytes, Len(bytes) + 1) = {}
    BY <1>1, NothingBehind
  <2> QED
    BY <1>8, <2>1
<1>9. ASSUME NEW b \in Bodies, NEW k \in Nat, k < Len(Record(b)),
             bytes = Laid(Ground) \o SubSeq(Record(b), 1, k)
      PROVE  BodyAt(bytes, p) = {}
  <2> DEFINE r == Record(b)
             t == SubSeq(r, 1, k)
             G == Laid(Ground)
  <2>1. r \in Seq(Byte) /\ Len(r) \in Nat
    BY RecordIn
  <2>2. t \in Seq(Byte) /\ Len(t) = k /\ \A i \in 1..k : t[i] = r[i]
    <3> HIDE DEF r
    <3>1. k < Len(r)
      BY <1>9 DEF r
    <3>2. \A i \in 1..k : r[i] \in Byte
      BY <2>1, <3>1
    <3> QED
      BY <3>2
  <2> HIDE DEF t
  <2>3. Extends(bytes, G \o t)
    BY <1>1, <1>9, ExtendsSelf DEF t
  <2>4. Holds(bytes, p, t) /\ Len(G \o t) = Len(G) + Len(t)
    <3>1. bytes \in Seq(Byte) /\ G \in Seq(Byte) /\ t \in Seq(Byte)
      BY <1>1, <2>2
    <3> HIDE DEF G
    <3>2. Holds(bytes, Len(G) + 1, t) /\ Len(G \o t) = Len(G) + Len(t)
      BY <2>3, <3>1, ExtendsBoth
    <3> QED
      BY <3>2 DEF G
  <2>5. p + k - 1 <= Len(bytes) /\ \A i \in 1..k : bytes[p + i - 1] = r[i]
    BY <2>2, <2>4 DEF Holds
  <2>6. Len(bytes) = p + k - 1
    <3>1. bytes = G \o t
      BY <1>9 DEF t
    <3>2. Len(bytes) = Len(G) + k
      BY <2>2, <2>4, <3>1
    <3> QED
      BY <1>4, <3>2
  <2>7. Starts(bytes, p, b, k)
    <3>1. k <= Len(r)
      BY <1>9, <2>1
    <3> QED
      BY <2>5, <3>1 DEF Starts
  <2> HIDE DEF p
  <2> QED
    BY <1>1, <1>4, <1>9, <2>6, <2>7, TornRead
<1>10. ASSUME tears = <<>> PROVE Records(bytes) = stored
  <2>1. Ground = stored
    BY <1>0, <1>10, GroundIs
  <2>2. CASE lock = {}
    BY <1>0, <1>7, <1>8, <1>10, <2>1, <2>2 DEF Whole
  <2>3. CASE lock # {}
    <3>1. PICK w \in lock : TRUE
      BY <2>3
    <3>2. w \in Writers /\ Holder(w) /\ bytes = Laid(Ground) \o Written(w)
      BY <1>0, <1>10, HolderOnly DEF Whole
    <3>3. CASE rest[w] = <<>>
      <4>1. Written(w) = <<>> /\ Laid(Ground) \o <<>> = Laid(Ground)
        BY <1>1, <3>3, ConcatNothing DEF Written
      <4> QED
        BY <1>7, <1>8, <2>1, <3>2, <4>1
    <3>4. CASE rest[w] # <<>>
      <4> DEFINE b == body[w]
                 k == Sent(w)
      <4>1. Written(w) = SubSeq(Record(b), 1, k)
        BY <3>4 DEF Written
      <4>2. b \in Bodies
        BY <3>2 DEF Holder
      <4>3. k \in Nat /\ k < Len(Record(b))
        <5>1. /\ Len(Record(b)) \in Nat /\ k \in Nat
              /\ rest[w] \in Seq(Byte) /\ Len(rest[w]) = Len(Record(b)) - k
          BY <1>0, <3>2, HolderIs
        <5>2. Len(rest[w]) > 0
          BY <3>4, <5>1
        <5> HIDE DEF k, b
        <5> QED
          BY <5>1, <5>2
      <4> HIDE DEF b, k
      <4>4. bytes = Laid(Ground) \o SubSeq(Record(b), 1, k)
        BY <3>2, <4>1
      <4>5. BodyAt(bytes, p) = {}
        BY <1>9, <4>2, <4>3, <4>4
      <4> QED
        BY <1>7, <2>1, <4>5
    <3> QED
      BY <3>3, <3>4
  <2> QED
    BY <2>2, <2>3
<1>11. ASSUME TornLast PROVE Records(bytes) = stored
  <2>1. tears = <<Len(stored)>> /\ lock = {}
    BY <1>11 DEF TornLast
  <2>2. Ground = stored
    BY <1>0, <2>1, GroundIs
  <2>3. \A w \in Writers : ~Partial(w)
    BY <1>0, <2>1, IdleNotPartial DEF Held
  <2>4. EndsTorn(bytes, Laid(Ground))
    BY <1>0, <2>1, <2>3 DEF Torn
  <2>5. PICK b \in Bodies : \E k \in 0..(Len(Record(b)) - 1) :
                                bytes = Laid(Ground) \o SubSeq(Record(b), 1, k)
    BY <2>4, Zenon DEF EndsTorn
  <2>6. PICK k \in 0..(Len(Record(b)) - 1) : bytes = Laid(Ground) \o SubSeq(Record(b), 1, k)
    BY <2>5, Zenon
  <2>7. k \in Nat /\ k < Len(Record(b))
    <3>1. Record(b) \in Seq(Byte)
      BY RecordIn
    <3>2. Len(Record(b)) \in Nat
      BY <3>1
    <3> QED
      BY <3>2
  <2>8. BodyAt(bytes, p) = {}
    BY <1>9, <2>7, <2>6
  <2> QED
    BY <1>7, <2>2, <2>8
<1> QED
  BY <1>6, <1>10, <1>11, Zenon DEF ReadsWhatWasStored, Ground, Sound

\* A fetch finds the records that were appended, in their order, at least as
\* far as none is torn, and no others if none is, or the last one only
\* (storage.go:173-177): for any writers and bodies, pieces a record is written
\* in, and writes that fail or end with the process.
THEOREM FetchFindsTheStored == Spec => []ReadsWhatWasStored
<1>1. LogInv => ReadsWhatWasStored
  BY StoredFound
<1> QED
  BY LogInvariant, <1>1, PTL

\* What one fetch finds every later one finds in the same place, whatever the
\* file is torn into, so that a cursor into the records stays good
\* (storage.go:209-218).
THEOREM FetchOnlyGrows == Spec => FetchGrows
<1>1. LogInv /\ [Next]_logVars => [IsPrefix(Records(bytes), Records(bytes'))]_logVars
  <2> SUFFICES ASSUME LogInv, [Next]_logVars
               PROVE  IsPrefix(Records(bytes), Records(bytes'))
    OBVIOUS
  <2>1. LogInv' /\ Extends(bytes', bytes)
    BY LogNext
  <2>2. bytes \in Seq(Byte) /\ bytes' \in Seq(Byte)
    BY <2>1 DEF LogInv, LogTypes
  <2> QED
    BY <2>1, <2>2, RecordsGrow
<1> QED
  BY LogInvariant, <1>1, PTL DEF Spec, FetchGrows

-----------------------------------------------------------------------------
\* Numbers in their order, and what f makes of them.

\* All of the set's numbers, each with as many below it as come before it.
LEMMA InOrderIs ==
    ASSUME NEW S, IsFiniteSet(S), S \subseteq Nat
    PROVE  /\ InOrder(S) \in Seq(S) /\ Len(InOrder(S)) = Cardinality(S)
           /\ DOMAIN InOrder(S) = 1..Cardinality(S)
           /\ Cardinality(S) \in Nat
           /\ \A i \in 1..Cardinality(S) :
                 InOrder(S)[i] \in S /\ Cardinality(Below(S, InOrder(S)[i])) = i - 1
<1> DEFINE c == Cardinality(S)
<1>1. c \in Nat
  BY FS_CardinalityType
<1>2. ASSUME NEW i \in 1..c
      PROVE  InOrder(S)[i] \in S /\ Cardinality(Below(S, InOrder(S)[i])) = i - 1
  <2>4. \E x \in S : Cardinality(Below(S, x)) = i - 1
    BY BelowAny
  <2>5. InOrder(S)[i] = CHOOSE x \in S : Cardinality(Below(S, x)) = i - 1
    BY DEF InOrder, Below
  <2> QED
    BY <2>4, <2>5
<1> DEFINE at(i) == CHOOSE n \in S : Cardinality({m \in S : m < n}) = i - 1
<1>3. InOrder(S) = [i \in 1..c |-> InOrder(S)[i]]
  <2>1. InOrder(S) = [i \in 1..c |-> at(i)]
    BY DEF InOrder
  <2> HIDE DEF at
  <2> QED
    BY <2>1
<1> DEFINE s == InOrder(S)
<1> HIDE DEF s
<1>4. s \in [1..c -> S]
  BY <1>2, <1>3 DEF s
<1>5. s \in Seq(S) /\ Len(s) = c /\ DOMAIN s = 1..c
  <2> HIDE DEF c
  <2> QED
    BY <1>1, <1>4
<1> QED
  BY <1>1, <1>2, <1>5 DEF s

\* The place of a number says which it is.
LEMMA InOrderAt ==
    ASSUME NEW S, IsFiniteSet(S), S \subseteq Nat, NEW i \in 1..Cardinality(S),
           NEW n \in S, Cardinality(Below(S, n)) = i - 1
    PROVE  InOrder(S)[i] = n
<1>1. InOrder(S)[i] \in S /\ Cardinality(Below(S, InOrder(S)[i])) = i - 1
  BY InOrderIs
<1> DEFINE m == InOrder(S)[i]
<1> HIDE DEF m
<1>2. m \in S /\ m \in Nat /\ n \in Nat /\ Cardinality(Below(S, m)) = i - 1
  BY <1>1 DEF m
<1>3. i - 1 \in Nat /\ ~(i - 1 < i - 1)
  BY <1>2, BelowFinite
<1>4. ~(m < n)
  BY <1>2, <1>3, BelowGrows
<1>5. ~(n < m)
  BY <1>2, <1>3, BelowGrows
<1> QED
  BY <1>2, <1>4, <1>5 DEF m

\* No numbers.
LEMMA InOrderNone == InOrder({}) = <<>> /\ Cardinality({}) = 0
<1>1. IsFiniteSet({}) /\ Cardinality({}) = 0
  BY FS_EmptySet
<1>2. InOrder({}) \in Seq({}) /\ Len(InOrder({})) = 0
  BY <1>1, InOrderIs
<1> QED
  BY <1>1, <1>2

\* A number above all the others comes last.
LEMMA InOrderMore ==
    ASSUME NEW S, IsFiniteSet(S), S \subseteq Nat, NEW n \in Nat, \A m \in S : m < n
    PROVE  /\ Cardinality(S \cup {n}) = Cardinality(S) + 1 /\ Cardinality(S) \in Nat
           /\ IsFiniteSet(S \cup {n}) /\ S \cup {n} \subseteq Nat
           /\ \A i \in 1..Cardinality(S) : InOrder(S \cup {n})[i] = InOrder(S)[i]
           /\ InOrder(S \cup {n})[Cardinality(S) + 1] = n
<1> DEFINE T == S \cup {n}
           c == Cardinality(S)
<1>1. n \notin S
  OBVIOUS
<1>2. IsFiniteSet(T) /\ Cardinality(T) = c + 1 /\ c \in Nat /\ T \subseteq Nat
  BY <1>1, FS_AddElement, FS_CardinalityType
<1>3. ASSUME NEW i \in 1..c PROVE InOrder(T)[i] = InOrder(S)[i]
  <2> DEFINE m == InOrder(S)[i]
  <2>1. m \in S /\ Cardinality(Below(S, m)) = i - 1
    BY InOrderIs
  <2> HIDE DEF m
  <2>2. Below(T, m) = Below(S, m)
    BY <2>1 DEF Below
  <2>3. i \in 1..Cardinality(T) /\ m \in T
    BY <1>2, <2>1
  <2> HIDE DEF T
  <2> QED
    BY <1>2, <2>1, <2>2, <2>3, InOrderAt DEF m
<1>4. InOrder(T)[c + 1] = n
  <2>1. Below(T, n) = S
    <3>1. ~(n < n) /\ n \notin Below(T, n)
      BY DEF Below
    <3>2. \A m \in S : m \in Below(T, n)
      BY DEF Below
    <3> QED
      BY <3>1, <3>2 DEF Below
  <2>2. c + 1 \in 1..Cardinality(T) /\ n \in T /\ (c + 1) - 1 = c
    BY <1>2
  <2> HIDE DEF T
  <2> QED
    BY <1>2, <2>1, <2>2, InOrderAt
<1> QED
  BY <1>2, <1>3, <1>4

\* Numbers, and then greater ones.
LEMMA InOrderConcat ==
    ASSUME NEW S, NEW T, IsFiniteSet(S), IsFiniteSet(T), S \subseteq Nat, T \subseteq Nat,
           \A m \in S, n \in T : m < n
    PROVE  InOrder(S \cup T) = InOrder(S) \o InOrder(T)
<1> DEFINE U == S \cup T
           c == Cardinality(S)
           d == Cardinality(T)
           a == InOrder(S)
           b == InOrder(T)
           s == a \o b
           u == InOrder(U)
<1>1. S \cap T = {} /\ \A m \in S, n \in T : m < n /\ ~(n < m)
  OBVIOUS
<1>2. IsFiniteSet(U) /\ Cardinality(U) = c + d /\ c \in Nat /\ d \in Nat /\ U \subseteq Nat
  BY <1>1, DisjointSize
<1>3. /\ a \in Seq(S) /\ Len(a) = c
      /\ \A i \in 1..c : a[i] \in S /\ Cardinality(Below(S, a[i])) = i - 1
  BY InOrderIs
<1>4. /\ b \in Seq(T) /\ Len(b) = d
      /\ \A i \in 1..d : b[i] \in T /\ Cardinality(Below(T, b[i])) = i - 1
  BY InOrderIs
<1>5. u \in Seq(U) /\ Len(u) = c + d
  <2> HIDE DEF U
  <2> QED
    BY <1>2, InOrderIs
<1> HIDE DEF a, b, c, d, u
<1>6. /\ s \in Seq(U) /\ Len(s) = c + d
      /\ (\A i \in 1..c : s[i] = a[i]) /\ (\A i \in 1..d : s[c + i] = b[i])
  <2>1. a \in Seq(U) /\ b \in Seq(U)
    BY <1>3, <1>4
  <2> HIDE DEF U
  <2>2. /\ s \in Seq(U) /\ Len(s) = Len(a) + Len(b)
        /\ (\A i \in 1..Len(a) : s[i] = a[i]) /\ (\A i \in 1..Len(b) : s[Len(a) + i] = b[i])
    BY ONLY <2>1
  <2> QED
    BY <1>3, <1>4, <2>2
<1> HIDE DEF s
<1>7. ASSUME NEW i \in 1..c PROVE u[i] = s[i]
  <2> DEFINE m == a[i]
  <2>1. m \in S /\ m \in U /\ Cardinality(Below(S, m)) = i - 1
    BY <1>3
  <2> HIDE DEF m
  <2>2. Below(U, m) = Below(S, m)
    BY <1>1, <2>1 DEF Below
  <2>3. i \in 1..Cardinality(U)
    BY <1>2
  <2> HIDE DEF U
  <2>4. InOrder(U)[i] = m
    BY <1>2, <2>1, <2>2, <2>3, InOrderAt
  <2> QED
    BY <1>6, <2>4 DEF u, m
<1>8. ASSUME NEW i \in 1..d PROVE u[c + i] = s[c + i]
  <2> DEFINE m == b[i]
             k == c + i
  <2>1. m \in T /\ m \in U /\ Cardinality(Below(T, m)) = i - 1
    BY <1>4
  <2> HIDE DEF m
  <2>2. Below(U, m) = S \cup Below(T, m) /\ S \cap Below(T, m) = {}
    BY <1>1, <2>1 DEF Below
  <2>3. Cardinality(Below(U, m)) = c + (i - 1)
    <3>1. IsFiniteSet(Below(T, m))
      BY BelowFinite
    <3> HIDE DEF U
    <3>2. Cardinality(S \cup Below(T, m)) = c + Cardinality(Below(T, m))
      BY <2>2, <3>1, DisjointSize DEF c
    <3> QED
      BY <2>1, <2>2, <3>2
  <2>4. k \in 1..Cardinality(U) /\ c + (i - 1) = k - 1
    BY <1>2
  <2> HIDE DEF U, k
  <2>5. InOrder(U)[k] = m
    BY <1>2, <2>1, <2>3, <2>4, InOrderAt
  <2> QED
    BY <1>6, <2>5 DEF u, m, k
<1>9. \A i \in 1..Len(u) : u[i] = s[i]
  <2> SUFFICES ASSUME NEW i \in 1..(c + d) PROVE u[i] = s[i]
    BY <1>5
  <2>1. CASE i \in 1..c
    BY <1>7, <2>1
  <2>2. CASE i \notin 1..c
    <3> DEFINE k == i - c
    <3>1. k \in 1..d /\ c + k = i
      BY <1>2, <2>2
    <3> HIDE DEF k
    <3>2. u[c + k] = s[c + k]
      BY <1>8, <3>1
    <3> QED
      BY <3>1, <3>2
  <2> QED
    BY <2>1, <2>2
<1> HIDE DEF U
<1>10. u = s
  BY <1>5, <1>6, <1>9, SeqEqual
<1> QED
  BY <1>10 DEF u, s, U, a, b

\* What f makes of the numbers of a set, in their order.

Along(f, S) == [i \in DOMAIN InOrder(S) |-> f[InOrder(S)[i]]]

\* What f makes of them, one each.
LEMMA AlongIs ==
    ASSUME NEW S, IsFiniteSet(S), S \subseteq Nat, NEW T, NEW f, \A x \in S : f[x] \in T
    PROVE  /\ Along(f, S) \in Seq(T) /\ Len(Along(f, S)) = Cardinality(S)
           /\ DOMAIN Along(f, S) = 1..Cardinality(S) /\ Cardinality(S) \in Nat
<1> DEFINE c == Cardinality(S)
           a == InOrder(S)
           s == [i \in 1..c |-> f[a[i]]]
<1>1. DOMAIN a = 1..c /\ c \in Nat /\ \A i \in 1..c : a[i] \in S
  BY InOrderIs
<1>2. Along(f, S) = s
  BY <1>1 DEF Along
<1> HIDE DEF c, a
<1>3. s \in [1..c -> T]
  BY <1>1
<1>4. \A i \in 1..c : s[i] = f[a[i]]
  OBVIOUS
<1> HIDE DEF s
<1>5. s \in Seq(T) /\ Len(s) = c /\ DOMAIN s = 1..c
  BY <1>1, <1>3
<1> QED
  BY <1>1, <1>2, <1>4, <1>5 DEF c, a

\* The one in its place.
LEMMA AlongAt ==
    ASSUME NEW S, IsFiniteSet(S), S \subseteq Nat, NEW f, NEW i \in 1..Cardinality(S)
    PROVE  Along(f, S)[i] = f[InOrder(S)[i]]
<1>1. DOMAIN InOrder(S) = 1..Cardinality(S)
  BY InOrderIs
<1> QED
  BY <1>1 DEF Along

\* Nothing is made of no numbers.
LEMMA AlongNone ==
    ASSUME NEW f
    PROVE  Along(f, {}) = <<>>
<1>1. InOrder({}) = <<>>
  BY InOrderNone
<1> QED
  BY <1>1 DEF Along

\* One number more, above all the others, adds what f makes of it.
LEMMA AlongMore ==
    ASSUME NEW S, IsFiniteSet(S), S \subseteq Nat, NEW n \in Nat, \A m \in S : m < n,
           NEW T, NEW f, \A x \in S \cup {n} : f[x] \in T
    PROVE  Along(f, S \cup {n}) = Append(Along(f, S), f[n])
<1> DEFINE c == Cardinality(S)
           U == S \cup {n}
           a == Along(f, S)
           b == Along(f, U)
<1>1. /\ Cardinality(U) = c + 1 /\ c \in Nat /\ IsFiniteSet(U) /\ U \subseteq Nat
      /\ \A i \in 1..c : InOrder(U)[i] = InOrder(S)[i]
      /\ InOrder(U)[c + 1] = n
  BY InOrderMore
<1>3. \A x \in U : f[x] \in T
  OBVIOUS
<1>11. IsFiniteSet(S) /\ S \subseteq Nat /\ \A x \in S : f[x] \in T
  OBVIOUS
<1>12. a \in Seq(T) /\ Len(a) = c
  BY ONLY <1>11, AlongIs
<1>13. ASSUME NEW i \in 1..c PROVE a[i] = f[InOrder(S)[i]]
  BY ONLY <1>11, i \in 1..c, AlongAt
<1>2. a \in Seq(T) /\ Len(a) = c /\ \A i \in 1..c : a[i] = f[InOrder(S)[i]]
  BY <1>12, <1>13
<1>4. n \in U
  OBVIOUS
<1> HIDE DEF U, c
<1>5. b \in Seq(T) /\ Len(b) = c + 1 /\ \A i \in 1..(c + 1) : b[i] = f[InOrder(U)[i]]
  <2>1. IsFiniteSet(U) /\ U \subseteq Nat
    BY <1>1
  <2>2. b \in Seq(T) /\ Len(b) = Cardinality(U)
    BY ONLY <2>1, <1>3, AlongIs
  <2>3. ASSUME NEW i \in 1..Cardinality(U) PROVE b[i] = f[InOrder(U)[i]]
    BY ONLY <2>1, i \in 1..Cardinality(U), AlongAt
  <2> QED
    BY <1>1, <2>2, <2>3
<1> HIDE DEF a, b
<1>6. \A i \in 1..c : i \in 1..(c + 1) /\ b[i] = a[i]
  BY <1>1, <1>2, <1>5
<1>7. c + 1 \in 1..(c + 1) /\ b[c + 1] = f[n] /\ f[n] \in T
  BY <1>1, <1>3, <1>4, <1>5
<1> DEFINE d == Append(a, f[n])
<1>8. d \in Seq(T) /\ Len(d) = c + 1 /\ (\A i \in 1..c : d[i] = a[i]) /\ d[c + 1] = f[n]
  BY <1>1, <1>2, <1>7
<1> HIDE DEF d
<1>9. \A i \in 1..Len(b) : b[i] = d[i]
  <2>1. \A i \in 1..(c + 1) : i \in 1..c \/ i = c + 1
    BY <1>1
  <2> QED
    BY <1>5, <1>6, <1>7, <1>8, <2>1
<1>10. b = d
  BY <1>5, <1>8, <1>9, SeqEqual
<1> QED
  BY <1>10 DEF b, d, a, U

\* The places U: S, and then R.
Follows(U, S, R, D) ==
    /\ U = S \cup R /\ S \in SUBSET D /\ R \in SUBSET D /\ IsFiniteSet(S) /\ IsFiniteSet(R) /\ D \subseteq Nat
    /\ \A m \in S, n \in R : m < n

\* What f makes of the numbers is what it makes of their list.
LEMMA AlongMaps ==
    ASSUME NEW S, NEW D, NEW T, NEW f, IsFiniteSet(S), S \in SUBSET D, D \subseteq Nat,
           \A k \in D : f[k] \in T
    PROVE  Maps(Along(f, S), f, InOrder(S), D, T)
<1> DEFINE a == InOrder(S)
           u == Along(f, S)
<1>1. IsFiniteSet(S) /\ S \subseteq Nat /\ \A k \in S : f[k] \in T
  OBVIOUS
<1>2. a \in Seq(S) /\ Len(a) = Cardinality(S)
  BY ONLY <1>1, InOrderIs
<1>3. u \in Seq(T) /\ Len(u) = Cardinality(S)
  BY ONLY <1>1, AlongIs
<1>4. ASSUME NEW i \in 1..Cardinality(S) PROVE u[i] = f[a[i]]
  BY ONLY <1>1, i \in 1..Cardinality(S), AlongAt
<1>5. a \in Seq(D)
  <2>1. \A x \in S : x \in D
    OBVIOUS
  <2> HIDE DEF a
  <2>2. a \in Seq(S)
    BY <1>2
  <2> QED
    BY ONLY <2>1, <2>2
<1> HIDE DEF a, u
<1>6. Maps(u, f, a, D, T)
  BY <1>2, <1>3, <1>4, <1>5 DEF Maps
<1> QED
  BY <1>6 DEF a, u

\* What f makes of U is what it makes of S, and then of R.
LEMMA AlongConcat ==
    ASSUME NEW U, NEW S, NEW R, NEW D, NEW f, Follows(U, S, R, D)
    PROVE  Along(f, U) = Along(f, S) \o Along(f, R)
<1> DEFINE T == {f[k] : k \in D}
<1>7. \A k \in D : f[k] \in T
  OBVIOUS
<1> HIDE DEF T
<1>1. /\ IsFiniteSet(S) /\ S \in SUBSET D /\ IsFiniteSet(R) /\ R \in SUBSET D /\ D \subseteq Nat
      /\ \A k \in D : f[k] \in T
      /\ \A m \in S, n \in R : m < n
      /\ U = S \cup R
  BY <1>7 DEF Follows
<1>2. Maps(Along(f, S), f, InOrder(S), D, T) /\ Maps(Along(f, R), f, InOrder(R), D, T)
  BY ONLY <1>1, AlongMaps
<1>3. S \subseteq Nat /\ R \subseteq Nat
  BY <1>1
<1>4. InOrder(S \cup R) = InOrder(S) \o InOrder(R)
  BY ONLY <1>1, <1>3, InOrderConcat
<1>5. Each(f, InOrder(S) \o InOrder(R)) = Along(f, S) \o Along(f, R)
  BY ONLY <1>2, MapConcat
<1>6. Along(f, U) = Each(f, InOrder(U))
  BY Zenon DEF Along, Each
<1>8. InOrder(U) = InOrder(S) \o InOrder(R)
  BY <1>1, <1>4
<1> QED
  BY <1>5, <1>6, <1>8, Zenon

-----------------------------------------------------------------------------
\* The frames of a file, and their bytes.

Frame == {b \in Seq(Byte) : Len(b) >= HeaderSize}

Chars == [frame : Nat, stream : Byte, stamp : Byte, byte : Byte]

\* Every record that is found has a header.
LEMMA RecordsAreFrames ==
    ASSUME NEW f \in Seq(Byte)
    PROVE  Records(f) \in Seq(Frame)
<1> DEFINE D == 1..(Len(f) + 1)
           n == Len(f) + 1
<1>1. PICK g : Finds(g, f) /\ Records(f) = g[1]
  BY RecordsFound
<1> DEFINE F == {k \in Nat : \A p \in D : n - p < k => g[p] \in Seq(Frame)}
<1>2. n \in Nat /\ \A p \in D : p \in Nat /\ p > 0 /\ p <= n
  OBVIOUS
<1>3. \A p \in D : /\ BodyAt(f, p) = {} => g[p] = <<>>
                   /\ \A e : IsBody(f, p, e) => g[p] = <<BodyOf(f, p, e)>> \o g[AfterBody(f, p, e)]
  BY <1>1, Zenon DEF Finds
<1> HIDE DEF D
<1>4. 0 \in F
  BY <1>2
<1>5. ASSUME NEW k \in Nat, k \in F PROVE k + 1 \in F
  <2> SUFFICES ASSUME NEW p \in D, n - p < k + 1 PROVE g[p] \in Seq(Frame)
    OBVIOUS
  <2>1. CASE BodyAt(f, p) = {}
    <3>1. g[p] = <<>>
      BY <1>3, <2>1
    <3> QED
      BY <3>1
  <2>2. CASE BodyAt(f, p) # {}
    <3>1. PICK e : IsBody(f, p, e)
      BY <2>2, FoundBody
    <3> DEFINE q == AfterBody(f, p, e)
               b == BodyOf(f, p, e)
    <3>2. q \in D /\ q > p /\ b \in Seq(Byte) /\ Len(b) = LengthAt(f, p, e)
      BY <1>2, <3>1, BodyIsIn DEF D
    <3>3. g[p] = <<b>> \o g[q]
      BY <1>3, <3>1
    <3>4. LengthAt(f, p, e) >= HeaderSize
      BY <3>1, Constants DEF IsBody
    <3> HIDE DEF q, b
    <3>5. n - q < k
      BY <1>2, <3>2
    <3>6. g[q] \in Seq(Frame)
      BY <1>5, <3>2, <3>5
    <3>7. b \in Frame
      BY <3>2, <3>4 DEF Frame
    <3>8. <<b>> \in Seq(Frame)
      BY <3>7
    <3> QED
      BY <3>3, <3>6, <3>8, ConcatIn
  <2> QED
    BY <2>1, <2>2
<1> HIDE DEF F
<1>6. n + 1 \in F /\ \A p \in D : n - p < n + 1
  BY <1>2, <1>4, <1>5, NatInduct
<1>7. 1 \in D
  BY <1>2 DEF D
<1>8. g[1] \in Seq(Frame)
  <2> HIDE DEF n
  <2> QED
    BY <1>6, <1>7 DEF F
<1> QED
  BY <1>1, <1>8

\* What a frame says.
LEMMA PayloadIs ==
    ASSUME NEW b \in Frame
    PROVE  /\ StreamOf(b) \in Byte /\ StampOf(b) \in Byte
           /\ Payload(b) \in Seq(Byte) /\ Len(Payload(b)) \in Nat
<1>1. b \in Seq(Byte) /\ Len(b) \in Nat /\ Len(b) >= 2 /\ HeaderSize = 2
  BY DEF Frame, HeaderSize
<1>2. b[1] \in Byte /\ b[2] \in Byte
  BY <1>1
<1>3. \A i \in 3..Len(b) : b[i] \in Byte
  BY <1>1
<1>4. SubSeq(b, 3, Len(b)) \in Seq(Byte)
  BY <1>1, <1>3, SubSeqProperties
<1> DEFINE s == Payload(b)
<1>5. s \in Seq(Byte)
  BY <1>1, <1>4 DEF Payload
<1> HIDE DEF s
<1>6. Len(s) \in Nat
  BY <1>5
<1> QED
  BY <1>2, <1>5, <1>6 DEF StreamOf, StampOf, s

CharOf(j, b, i) ==
    [frame |-> j, stream |-> StreamOf(b), stamp |-> StampOf(b), byte |-> Payload(b)[i]]

\* The bytes of a frame, as BytesOf has them.
LEMMA PayloadOfIs ==
    ASSUME NEW b \in Frame, NEW j \in Nat
    PROVE  /\ PayloadOf(j, b) \in Seq(Chars) /\ Len(PayloadOf(j, b)) = Len(Payload(b))
           /\ \A i \in 1..Len(Payload(b)) : PayloadOf(j, b)[i] = CharOf(j, b, i)
                                            /\ CharOf(j, b, i) \in Chars
<1> DEFINE n == Len(Payload(b))
<1>1. /\ StreamOf(b) \in Byte /\ StampOf(b) \in Byte /\ n \in Nat
      /\ DOMAIN Payload(b) = 1..n /\ \A i \in 1..n : Payload(b)[i] \in Byte
  BY PayloadIs
<1>2. \A i \in 1..n : CharOf(j, b, i) \in Chars
  BY <1>1 DEF CharOf, Chars
<1>3. PayloadOf(j, b) = [i \in 1..n |-> CharOf(j, b, i)]
  BY <1>1 DEF PayloadOf, CharOf
<1> HIDE DEF n
<1> DEFINE s == [i \in 1..n |-> CharOf(j, b, i)]
<1>4. s \in [1..n -> Chars]
  BY <1>2
<1>5. s \in Seq(Chars) /\ Len(s) = n /\ \A i \in 1..n : s[i] = CharOf(j, b, i)
  <2>1. \A i \in 1..n : s[i] = CharOf(j, b, i)
    OBVIOUS
  <2> HIDE DEF s
  <2> QED
    BY <1>1, <1>4, <2>1
<1> QED
  BY <1>2, <1>3, <1>5 DEF n

\* The bytes of the j-th frame end at o[j].
Spread(o, frames, all) ==
    /\ frames \in Seq(Frame) /\ all \in Seq(Chars)
    /\ o \in [0..Len(frames) -> Nat] /\ o[0] = 0 /\ o[Len(frames)] = Len(all)
    /\ \A j \in 1..Len(frames) :
          /\ o[j] = o[j - 1] + Len(Payload(frames[j]))
          /\ \A i \in 1..Len(Payload(frames[j])) : all[o[j - 1] + i] = CharOf(j, frames[j], i)

\* There are such ends.
LEMMA BytesSpread ==
    ASSUME NEW frames \in Seq(Frame)
    PROVE  \E o : Spread(o, frames, BytesOf(frames))
<1> DEFINE n == Len(frames)
           ss == [j \in DOMAIN frames |-> PayloadOf(j, frames[j])]
           all == BytesOf(frames)
<1>1. /\ n \in Nat /\ DOMAIN frames = 1..n /\ \A j \in 1..n : j \in Nat /\ frames[j] \in Frame
  OBVIOUS
<1>2. \A j \in 1..n : /\ ss[j] \in Seq(Chars) /\ Len(ss[j]) = Len(Payload(frames[j]))
                      /\ \A i \in 1..Len(Payload(frames[j])) : ss[j][i] = CharOf(j, frames[j], i)
  BY <1>1, PayloadOfIs
<1>3. DOMAIN ss = 1..n
  BY <1>1
<1>4. ss = [j \in 1..n |-> ss[j]]
  BY <1>1
<1>5. all = FlattenSeq(ss)
  BY DEF BytesOf
<1> HIDE DEF n, ss, all
<1>6. ss \in [1..n -> Seq(Chars)]
  BY <1>2, <1>4
<1>7. ss \in Seq(Seq(Chars)) /\ Len(ss) = n
  BY <1>1, <1>6
<1>8. PICK o : LiesAt(o, ss, all)
  BY <1>5, <1>7, FlattenLies
<1>9. all \in Seq(Chars)
  BY <1>5, <1>7, FlattenIn
<1>10. /\ o \in [0..n -> Nat] /\ o[0] = 0 /\ o[n] = Len(all)
       /\ \A j \in 1..n : /\ o[j] = o[j - 1] + Len(ss[j])
                          /\ \A i \in 1..Len(ss[j]) : all[o[j - 1] + i] = ss[j][i]
  BY <1>7, <1>8, Zenon DEF LiesAt
<1>11. ASSUME NEW j \in 1..n
       PROVE  /\ o[j] = o[j - 1] + Len(Payload(frames[j]))
              /\ \A i \in 1..Len(Payload(frames[j])) : all[o[j - 1] + i] = CharOf(j, frames[j], i)
  BY <1>2, <1>10, Zenon
<1>12. Spread(o, frames, all)
  BY <1>9, <1>10, <1>11, Zenon DEF Spread, n
<1> QED
  BY <1>12 DEF all

-----------------------------------------------------------------------------
\* What is open of a stream after n bytes.

OpenAt(all, n, s) == {l \in Of(all, s) : l <= n /\ Ends(all) \cap Of(all, s) \cap l..n = {}}

EndsUpto(all, n) == {k \in Ends(all) : k <= n}

\* The places that are spoken of are places of bytes.
LEMMA SetsIn ==
    ASSUME NEW all \in Seq(Chars), NEW n, NEW s
    PROVE  /\ Len(all) \in Nat /\ DOMAIN all = 1..Len(all) /\ IsFiniteSet(DOMAIN all)
           /\ \A k \in DOMAIN all : k \in Nat /\ k > 0 /\ all[k] \in Chars
           /\ Of(all, s) \in SUBSET DOMAIN all /\ Ends(all) \in SUBSET DOMAIN all
           /\ Lasts(all) \in SUBSET DOMAIN all
           /\ OpenAt(all, n, s) \in SUBSET DOMAIN all /\ EndsUpto(all, n) \in SUBSET DOMAIN all
           /\ Text(all, n) \in SUBSET DOMAIN all
           /\ \A S \in SUBSET DOMAIN all : IsFiniteSet(S) /\ S \subseteq Nat /\ Cardinality(S) \in Nat
<1>1. /\ Len(all) \in Nat /\ DOMAIN all = 1..Len(all)
      /\ \A k \in DOMAIN all : k \in Nat /\ k > 0 /\ all[k] \in Chars
  OBVIOUS
<1>2. IsFiniteSet(DOMAIN all)
  BY <1>1, FS_Interval
<1>3. \A S \in SUBSET DOMAIN all : IsFiniteSet(S) /\ S \subseteq Nat /\ Cardinality(S) \in Nat
  BY <1>1, <1>2, FS_Subset, FS_CardinalityType
<1>4. /\ Of(all, s) \in SUBSET DOMAIN all /\ Ends(all) \in SUBSET DOMAIN all
      /\ Lasts(all) \in SUBSET DOMAIN all
  BY DEF Of, Ends, Lasts
<1>5. /\ OpenAt(all, n, s) \in SUBSET DOMAIN all /\ EndsUpto(all, n) \in SUBSET DOMAIN all
      /\ Text(all, n) \in SUBSET DOMAIN all
  BY <1>4 DEF OpenAt, EndsUpto, Text, Of
<1> QED
  BY <1>1, <1>2, <1>3, <1>4, <1>5

\* One byte more: it is open if it ends no line, and closes what was open if
\* it does; other streams stay as they are.
LEMMA OpenStep ==
    ASSUME NEW all \in Seq(Chars), NEW n \in Nat, n + 1 \in DOMAIN all
    PROVE  /\ \A s : s # all[n + 1].stream => OpenAt(all, n + 1, s) = OpenAt(all, n, s)
           /\ n + 1 \in Ends(all) => /\ OpenAt(all, n + 1, all[n + 1].stream) = {}
                                     /\ EndsUpto(all, n + 1) = EndsUpto(all, n) \cup {n + 1}
           /\ n + 1 \notin Ends(all) =>
                 /\ OpenAt(all, n + 1, all[n + 1].stream) =
                       OpenAt(all, n, all[n + 1].stream) \cup {n + 1}
                 /\ EndsUpto(all, n + 1) = EndsUpto(all, n)
           /\ Text(all, n + 1) = OpenAt(all, n, all[n + 1].stream) \cup {n + 1}
           /\ \A s : OpenAt(all, n, s) \cap Ends(all) = {} /\ \A l \in OpenAt(all, n, s) : l <= n
<1> DEFINE k == n + 1
           t == all[k].stream
<1>0. k \in Nat /\ k - 1 = n /\ n < k /\ k \in DOMAIN all
  OBVIOUS
<1>1. \A l \in DOMAIN all : l \in Nat /\ (l <= k <=> l <= n \/ l = k)
  BY SetsIn
<1>2. \A s, l : l \in Of(all, s) <=> l \in DOMAIN all /\ all[l].stream = s
  BY DEF Of
<1>3. \A l : l \in Ends(all) => l \in DOMAIN all
  BY DEF Ends
\* No end of a stream from l to m.
<1> DEFINE Clean(s, l, m) == \A e \in Ends(all) : e \in Of(all, s) /\ l <= e => ~(e <= m)
<1>4. ASSUME NEW s, NEW l \in DOMAIN all, NEW m \in Nat
      PROVE  Ends(all) \cap Of(all, s) \cap l..m = {} <=> Clean(s, l, m)
  <2>1. l \in Nat /\ \A e \in Ends(all) : e \in Nat /\ (e \in l..m <=> l <= e /\ e <= m)
    BY <1>1, <1>3
  <2> QED
    BY <2>1
<1>5. ASSUME NEW s, NEW m \in Nat
      PROVE  \A l : l \in OpenAt(all, m, s) <=> l \in Of(all, s) /\ l <= m /\ Clean(s, l, m)
  <2> HIDE DEF Clean
  <2> QED
    BY <1>2, <1>4 DEF OpenAt
<1>6. \A l : l \in Text(all, k) <=> l \in Of(all, t) /\ l <= k /\ Clean(t, l, n)
  <2>1. \A l \in DOMAIN all : Ends(all) \cap Of(all, t) \cap l..(k - 1) = {} <=> Clean(t, l, n)
    BY <1>0, <1>4
  <2> HIDE DEF Clean, k
  <2> QED
    BY <1>2, <2>1 DEF Text, t
<1> HIDE DEF k, t
<1>7. ASSUME NEW s, s # t PROVE OpenAt(all, k, s) = OpenAt(all, n, s)
  <2>1. k \notin Of(all, s)
    BY <1>2, <1>7 DEF t
  <2>2. \A l \in Of(all, s) : l <= k <=> l <= n
    BY <1>1, <1>2, <2>1
  <2>3. \A l : Clean(s, l, k) <=> Clean(s, l, n)
    BY <1>1, <1>3, <2>1
  <2> HIDE DEF Clean
  <2>4. \A l : l \in OpenAt(all, k, s) <=> l \in Of(all, s) /\ l <= k /\ Clean(s, l, k)
    BY <1>0, <1>5
  <2>5. \A l : l \in OpenAt(all, n, s) <=> l \in Of(all, s) /\ l <= n /\ Clean(s, l, n)
    BY <1>5
  <2>6. \A l : l \in OpenAt(all, k, s) <=> l \in OpenAt(all, n, s)
    BY <2>2, <2>3, <2>4, <2>5, Zenon
  <2>7. \A m : OpenAt(all, m, s) = {l \in DOMAIN all : l \in OpenAt(all, m, s)}
    BY SetsIn
  <2> QED
    BY <2>6, <2>7
<1>8. k \in Of(all, t)
  BY <1>0, <1>2 DEF t
<1>9. ASSUME k \in Ends(all) PROVE OpenAt(all, k, t) = {}
  <2>1. \A l : l <= k => ~Clean(t, l, k)
    BY <1>0, <1>8, <1>9
  <2> HIDE DEF Clean
  <2> QED
    BY <1>0, <1>5, <2>1
<1>11. Clean(t, k, n)
  BY <1>0, <1>1, <1>3
<1>12. ASSUME k \notin Ends(all) PROVE OpenAt(all, k, t) = OpenAt(all, n, t) \cup {k}
  <2>1. \A l : Clean(t, l, k) <=> Clean(t, l, n)
    BY <1>1, <1>3, <1>12
  <2> HIDE DEF Clean
  <2>2. \A l : l \in OpenAt(all, k, t) <=> l \in OpenAt(all, n, t) \/ l = k
    BY <1>0, <1>1, <1>2, <1>5, <1>8, <1>11, <2>1
  <2> QED
    BY <2>2
<1>13. Text(all, k) = OpenAt(all, n, t) \cup {k}
  <2> HIDE DEF Clean
  <2>1. \A l : l \in Text(all, k) <=> l \in OpenAt(all, n, t) \/ l = k
    BY <1>0, <1>1, <1>2, <1>5, <1>6, <1>8, <1>11
  <2> QED
    BY <2>1
<1>14. /\ k \in Ends(all) => EndsUpto(all, k) = EndsUpto(all, n) \cup {k}
       /\ k \notin Ends(all) => EndsUpto(all, k) = EndsUpto(all, n)
  <2>1. \A l \in Ends(all) : l <= k <=> l <= n \/ l = k
    BY <1>1, <1>3
  <2> QED
    BY <1>0, <2>1 DEF EndsUpto
<1>15. ASSUME NEW s PROVE OpenAt(all, n, s) \cap Ends(all) = {} /\ \A l \in OpenAt(all, n, s) : l <= n
  <2>1. \A l \in OpenAt(all, n, s) : l \in Nat /\ l \in Of(all, s) /\ l <= n /\ Clean(s, l, n)
    <3> HIDE DEF Clean
    <3> QED
      BY <1>1, <1>2, <1>5
  <2> QED
    BY <2>1
<1> QED
  BY <1>7, <1>9, <1>12, <1>13, <1>14, <1>15 DEF k, t

-----------------------------------------------------------------------------
\* What Fetch has of the lines after n bytes.

TextLines == [stream : Byte, stamp : Byte, data : Seq(Byte)]

Pendings == [stamp : Byte, data : Seq(Byte), started : BOOLEAN]

Accs == [open : [Byte -> Pendings], lines : Seq(TextLines)]

BytesIn(all) == [k \in DOMAIN all |-> all[k].byte]

TextTo(all, k) == TextLine(LineTo(all, k).stream, LineTo(all, k).stamp, LineTo(all, k).data)

TextsIn(all) == [k \in DOMAIN all |-> TextTo(all, k)]

IsOpen(p, all, n, s) ==
    /\ p.started <=> OpenAt(all, n, s) # {}
    /\ p.started => p.stamp = all[Min(OpenAt(all, n, s))].stamp
    /\ p.data = Along(BytesIn(all), OpenAt(all, n, s))

HasRead(acc, all, n) ==
    /\ acc \in Accs /\ acc.lines = Along(TextsIn(all), EndsUpto(all, n))
    /\ \A s \in Byte : IsOpen(acc.open[s], all, n, s)

\* A line up to one of its bytes is a line.
LEMMA TextsAreLines ==
    ASSUME NEW all \in Seq(Chars), NEW k \in DOMAIN all
    PROVE  /\ TextsIn(all)[k] = TextTo(all, k) /\ TextTo(all, k) \in TextLines
           /\ TextTo(all, k) = TextLine(all[k].stream, all[Min(Text(all, k))].stamp,
                                        Along(BytesIn(all), Text(all, k) \ Ends(all)))
           /\ BytesIn(all)[k] = all[k].byte /\ all[k].byte \in Byte
<1>1. all[k] \in Chars
  OBVIOUS
<1>2. all[k].stream \in Byte /\ all[k].stamp \in Byte /\ all[k].byte \in Byte
  BY <1>1 DEF Chars
<1> DEFINE S == Text(all, k)
           D == S \ Ends(all)
<1>3. S \in SUBSET DOMAIN all /\ IsFiniteSet(D) /\ D \subseteq Nat /\ D \in SUBSET DOMAIN all
  <2>1. S \in SUBSET DOMAIN all /\ D \in SUBSET DOMAIN all
    BY SetsIn
  <2> HIDE DEF S, D
  <2> QED
    BY <2>1, SetsIn
<1>4. k \in S
  <2>1. k \in Nat /\ k > 0
    BY SetsIn
  <2>2. k - 1 \in Nat /\ (k - 1) + 1 = k
    BY <2>1
  <2> DEFINE m == k - 1
  <2>3. m \in Nat /\ m + 1 \in DOMAIN all /\ m + 1 = k
    BY <2>1, <2>2
  <2> HIDE DEF m
  <2>4. Text(all, m + 1) = OpenAt(all, m, all[m + 1].stream) \cup {m + 1}
    BY <2>3, OpenStep
  <2> QED
    BY <2>3, <2>4
<1>5. Min(S) \in DOMAIN all
  <2>1. S \subseteq Nat
    BY <1>3, SetsIn
  <2> HIDE DEF S
  <2>2. Min(S) \in S
    BY <1>4, <2>1, MinIs
  <2> QED
    BY <1>3, <2>2
<1>6. all[Min(S)].stamp \in Byte
  <2> HIDE DEF S
  <2>1. all[Min(S)] \in Chars
    BY <1>5
  <2> QED
    BY <2>1 DEF Chars
<1>7. \A x \in DOMAIN all : BytesIn(all)[x] = all[x].byte /\ BytesIn(all)[x] \in Byte
  <2>1. \A x \in DOMAIN all : BytesIn(all)[x] = all[x].byte
    BY DEF BytesIn
  <2>2. \A x \in DOMAIN all : all[x] \in Chars
    OBVIOUS
  <2>3. \A x \in DOMAIN all : all[x].byte \in Byte
    BY <2>2 DEF Chars
  <2> QED
    BY <2>1, <2>3
<1>8. Along(BytesIn(all), D) \in Seq(Byte)
  <2> HIDE DEF D
  <2> QED
    BY <1>3, <1>7, AlongIs
<1>9. LineTo(all, k).data = Along(BytesIn(all), D)
  <2> DEFINE at == InOrder(D)
  <2>1. DOMAIN at = 1..Cardinality(D) /\ \A i \in 1..Cardinality(D) : at[i] \in D
    <3> HIDE DEF D
    <3> QED
      BY <1>3, InOrderIs
  <2>2. \A i \in DOMAIN at : BytesIn(all)[at[i]] = all[at[i]].byte
    <3> HIDE DEF D, at
    <3> QED
      BY <1>3, <1>7, <2>1
  <2>3. LineTo(all, k).data = [i \in DOMAIN at |-> all[at[i]].byte]
    BY DEF LineTo
  <2> HIDE DEF at, D
  <2>4. Along(BytesIn(all), D) = [i \in DOMAIN at |-> BytesIn(all)[at[i]]]
    BY DEF Along, at
  <2> QED
    BY <2>2, <2>3, <2>4
<1>10. LineTo(all, k).stream = all[k].stream /\ LineTo(all, k).stamp = all[Min(S)].stamp
  BY DEF LineTo
<1>11. TextTo(all, k) = TextLine(all[k].stream, all[Min(S)].stamp, Along(BytesIn(all), D))
  <2> HIDE DEF S, D
  <2> QED
    BY <1>9, <1>10, Zenon DEF TextTo
<1>12. TextTo(all, k) \in TextLines
  <2> HIDE DEF S, D
  <2> QED
    BY <1>2, <1>6, <1>8, <1>11 DEF TextLine, TextLines
<1>13. TextsIn(all)[k] = TextTo(all, k) /\ BytesIn(all)[k] = all[k].byte
  BY DEF TextsIn, BytesIn
<1> QED
  BY <1>2, <1>11, <1>12, <1>13

\* TakeByte makes what Fetch may have.
LEMMA TakeByteIn ==
    ASSUME NEW acc \in Accs, NEW s \in Byte, NEW stamp \in Byte, NEW c \in Byte
    PROVE  /\ TakeByte(acc, s, stamp, c) \in Accs
           /\ TakeByte(acc, s, stamp, c).lines =
                 IF c = LineEnd
                 THEN Append(acc.lines, TextLine(s, Started(acc.open[s], stamp).stamp, acc.open[s].data))
                 ELSE acc.lines
           /\ \A r \in Byte : r # s => TakeByte(acc, s, stamp, c).open[r] = acc.open[r]
           /\ TakeByte(acc, s, stamp, c).open[s].started = (c # LineEnd)
           /\ TakeByte(acc, s, stamp, c).open[s].data =
                 IF c = LineEnd THEN <<>> ELSE Append(acc.open[s].data, c)
           /\ TakeByte(acc, s, stamp, c).open[s].stamp = Started(acc.open[s], stamp).stamp
           /\ Started(acc.open[s], stamp).stamp =
                 IF acc.open[s].started THEN acc.open[s].stamp ELSE stamp
<1> DEFINE q == acc.open[s]
           p == Started(q, stamp)
           e == [p EXCEPT !.data = <<>>, !.started = FALSE]
           d == [p EXCEPT !.data = Append(@, c)]
           t == TakeByte(acc, s, stamp, c)
<1>1. q \in Pendings /\ acc.open \in [Byte -> Pendings] /\ acc.lines \in Seq(TextLines)
      /\ acc = [open |-> acc.open, lines |-> acc.lines]
  BY DEF Accs
<1> HIDE DEF q
<1>2. /\ p \in Pendings /\ p.started = TRUE /\ p.data = q.data
      /\ p.stamp = IF q.started THEN q.stamp ELSE stamp
  BY <1>1 DEF Started, Pendings
<1> HIDE DEF p
<1>3. /\ e \in Pendings /\ e.data = <<>> /\ e.started = FALSE /\ e.stamp = p.stamp
  <2>1. <<>> \in Seq(Byte)
    OBVIOUS
  <2> QED
    BY <1>2, <2>1 DEF Pendings
<1>4. /\ d \in Pendings /\ d.data = Append(p.data, c) /\ d.started = TRUE /\ d.stamp = p.stamp
  <2>1. p.data \in Seq(Byte) /\ Append(p.data, c) \in Seq(Byte)
    BY <1>2 DEF Pendings
  <2> QED
    BY <1>2, <2>1 DEF Pendings
<1> HIDE DEF e, d
<1>5. TextLine(s, p.stamp, p.data) \in TextLines
  BY <1>2 DEF TextLine, TextLines, Pendings
<1>6. CASE c = LineEnd
  <2>1. t = [open |-> [acc.open EXCEPT ![s] = e],
             lines |-> Append(acc.lines, TextLine(s, p.stamp, p.data))]
    BY <1>6 DEF TakeByte, e, p, q
  <2>2. /\ t.lines = Append(acc.lines, TextLine(s, p.stamp, p.data))
        /\ t.open = [acc.open EXCEPT ![s] = e]
    BY <2>1
  <2>3. t.open \in [Byte -> Pendings] /\ t.open[s] = e /\ \A r \in Byte : r # s => t.open[r] = acc.open[r]
    BY <1>1, <1>3, <2>2
  <2>4. t.lines \in Seq(TextLines)
    BY <1>1, <1>5, <2>2
  <2>5. t \in Accs
    BY <2>1, <2>2, <2>3, <2>4 DEF Accs
  <2> QED
    BY <1>2, <1>3, <1>6, <2>2, <2>3, <2>5 DEF q, p
<1>7. CASE c # LineEnd
  <2>1. t = [acc EXCEPT !.open[s] = d]
    BY <1>7, <1>2 DEF TakeByte, d, p, q
  <2>2. t.lines = acc.lines /\ t.open = [acc.open EXCEPT ![s] = d]
        /\ t = [open |-> t.open, lines |-> t.lines]
    BY <1>1, <2>1
  <2>3. t.open \in [Byte -> Pendings] /\ t.open[s] = d /\ \A r \in Byte : r # s => t.open[r] = acc.open[r]
    BY <1>1, <1>4, <2>2
  <2>4. t \in Accs
    BY <1>1, <2>2, <2>3 DEF Accs
  <2> QED
    BY <1>2, <1>4, <1>7, <2>2, <2>3, <2>4 DEF q, p
<1> QED
  BY <1>6, <1>7

\* One byte more.
LEMMA ReadsByte ==
    ASSUME NEW all \in Seq(Chars), NEW n \in Nat, n + 1 \in DOMAIN all,
           NEW acc, HasRead(acc, all, n)
    PROVE  HasRead(TakeByte(acc, all[n + 1].stream, all[n + 1].stamp, all[n + 1].byte), all, n + 1)
<1> DEFINE k == n + 1
           s == all[k].stream
           u == all[k].stamp
           c == all[k].byte
           t == TakeByte(acc, s, u, c)
           S == OpenAt(all, n, s)
           q == acc.open[s]
           f == BytesIn(all)
           E == EndsUpto(all, n)
<1>0. k \in Nat /\ k \in DOMAIN all /\ n < k
  OBVIOUS
<1>1. all[k] \in Chars
  BY <1>0
<1> HIDE DEF k
<1>2. s \in Byte /\ u \in Byte /\ c \in Byte /\ (c = LineEnd <=> k \in Ends(all))
  BY <1>0, <1>1 DEF Chars, Ends
<1>3. /\ acc \in Accs /\ acc.lines = Along(TextsIn(all), E)
      /\ \A r \in Byte : IsOpen(acc.open[r], all, n, r)
  BY DEF HasRead
<1>4. /\ \A r : r # s => OpenAt(all, k, r) = OpenAt(all, n, r)
      /\ k \in Ends(all) => OpenAt(all, k, s) = {} /\ EndsUpto(all, k) = E \cup {k}
      /\ k \notin Ends(all) => OpenAt(all, k, s) = S \cup {k} /\ EndsUpto(all, k) = E
      /\ Text(all, k) = S \cup {k} /\ S \cap Ends(all) = {} /\ \A l \in S : l <= n
  BY OpenStep, Zenon DEF k
<1>5. /\ S \in SUBSET DOMAIN all /\ IsFiniteSet(S) /\ S \subseteq Nat
      /\ E \in SUBSET DOMAIN all /\ IsFiniteSet(E) /\ E \subseteq Nat
  BY SetsIn
<1>6. \A l \in E : l < k
  <2>1. \A l \in E : l \in Nat /\ l <= n
    BY <1>5 DEF EndsUpto
  <2> HIDE DEF E
  <2> QED
    BY <1>0, <2>1
<1>7. \A l \in S : l \in Nat /\ l < k
  <2> HIDE DEF S
  <2> QED
    BY <1>0, <1>4, <1>5
<1>8. \A x \in DOMAIN all : /\ f[x] = all[x].byte /\ f[x] \in Byte
                            /\ TextsIn(all)[x] \in TextLines
  BY TextsAreLines
<1>9. /\ TextsIn(all)[k] = TextLine(s, all[Min(Text(all, k))].stamp, Along(f, Text(all, k) \ Ends(all)))
      /\ f[k] = c
  BY <1>0, TextsAreLines
<1> HIDE DEF s, u, c, S, E, f, q
<1>10. /\ q.started <=> S # {}
       /\ q.started => q.stamp = all[Min(S)].stamp
       /\ q.data = Along(f, S)
  BY <1>2, <1>3 DEF IsOpen, q, S, f
\* The stamp of the line is that of its first byte.
<1>11. (IF q.started THEN q.stamp ELSE u) = all[Min(S \cup {k})].stamp
  <2>1. CASE S = {}
    <3>1. S \cup {k} = {k}
      BY <2>1
    <3>2. Min({k}) = k
      <4>1. {k} \subseteq Nat
        BY <1>0
      <4> DEFINE U == {k}
      <4>2. k \in U /\ \A m \in U : k <= m
        BY <1>0
      <4>4. U \subseteq Nat
        BY <4>1
      <4> HIDE DEF U
      <4>3. Min(U) = k
        BY <4>2, <4>4, MinAt
      <4> QED
        BY <4>3 DEF U
    <3>3. u = all[k].stamp
      BY DEF u
    <3> QED
      BY <1>10, <2>1, <3>1, <3>2, <3>3
  <2>2. CASE S # {}
    <3> DEFINE a == Min(S)
               U == S \cup {k}
    <3>1. a \in S /\ \A m \in S : a <= m
      BY <1>5, <2>2, MinIs
    <3>2. a \in Nat /\ a < k
      BY <1>7, <3>1
    <3> HIDE DEF a
    <3>3. U \subseteq Nat /\ a \in U /\ \A m \in U : a <= m
      BY <1>0, <1>5, <3>1, <3>2
    <3> HIDE DEF U
    <3>4. Min(U) = a
      BY <3>3, MinAt
    <3> QED
      BY <1>10, <2>2, <3>4 DEF a, U
  <2> QED
    BY <2>1, <2>2
<1> DEFINE st == Started(q, u).stamp
<1>12. /\ t \in Accs
       /\ t.lines = IF c = LineEnd THEN Append(acc.lines, TextLine(s, st, q.data)) ELSE acc.lines
       /\ \A r \in Byte : r # s => t.open[r] = acc.open[r]
       /\ t.open[s].started = (c # LineEnd)
       /\ t.open[s].data = IF c = LineEnd THEN <<>> ELSE Append(q.data, c)
       /\ t.open[s].stamp = st
       /\ st = IF q.started THEN q.stamp ELSE u
  <2>1. acc \in Accs /\ s \in Byte /\ u \in Byte /\ c \in Byte
    BY <1>2, <1>3
  <2>2. /\ t \in Accs
        /\ t.lines = IF c = LineEnd THEN Append(acc.lines, TextLine(s, st, q.data)) ELSE acc.lines
        /\ \A r \in Byte : r # s => t.open[r] = acc.open[r]
    BY ONLY <2>1, TakeByteIn DEF q
  <2>3. /\ t.open[s].started = (c # LineEnd)
        /\ t.open[s].data = IF c = LineEnd THEN <<>> ELSE Append(q.data, c)
        /\ t.open[s].stamp = st
        /\ st = IF q.started THEN q.stamp ELSE u
    BY ONLY <2>1, TakeByteIn DEF q
  <2> QED
    BY <2>2, <2>3
<1> HIDE DEF t, st
<1>13. \A r \in Byte : r # s => IsOpen(t.open[r], all, k, r)
  BY <1>3, <1>4, <1>12, Zenon DEF IsOpen
<1>14. CASE c = LineEnd
  <2>1. t.lines = Along(TextsIn(all), EndsUpto(all, k))
    <3>1. Text(all, k) \ Ends(all) = S
      BY <1>2, <1>4, <1>14
    <3>2. TextsIn(all)[k] = TextLine(s, st, q.data)
      BY <1>4, <1>9, <1>10, <1>11, <1>12, <3>1
    <3>3. \A x \in E \cup {k} : TextsIn(all)[x] \in TextLines
      BY <1>0, <1>5, <1>8
    <3>4. Along(TextsIn(all), E \cup {k}) = Append(Along(TextsIn(all), E), TextsIn(all)[k])
      BY <1>0, <1>5, <1>6, <3>3, AlongMore
    <3> QED
      BY <1>2, <1>3, <1>4, <1>12, <1>14, <3>2, <3>4
  <2>2. IsOpen(t.open[s], all, k, s)
    <3>1. OpenAt(all, k, s) = {} /\ Along(f, {}) = <<>>
      BY <1>2, <1>4, <1>14, AlongNone
    <3> QED
      BY <1>12, <1>14, <3>1 DEF IsOpen, f
  <2> QED
    BY <1>12, <1>13, <2>1, <2>2 DEF HasRead, t, k, s, u, c
<1>15. CASE c # LineEnd
  <2>1. t.lines = Along(TextsIn(all), EndsUpto(all, k))
    BY <1>2, <1>3, <1>4, <1>12, <1>15
  <2>2. IsOpen(t.open[s], all, k, s)
    <3>1. OpenAt(all, k, s) = S \cup {k}
      BY <1>2, <1>4, <1>15
    <3>2. \A x \in S \cup {k} : f[x] \in Byte
      BY <1>0, <1>5, <1>8
    <3>3. Along(f, S \cup {k}) = Append(Along(f, S), f[k])
      BY <1>0, <1>5, <1>7, <3>2, AlongMore
    <3> QED
      BY <1>9, <1>10, <1>11, <1>12, <1>15, <3>1, <3>3 DEF IsOpen, f
  <2> QED
    BY <1>12, <1>13, <2>1, <2>2 DEF HasRead, t, k, s, u, c
<1> QED
  BY <1>14, <1>15

-----------------------------------------------------------------------------
\* TakeFrame, byte by byte.

BytePart(g, acc, b, s) ==
    IF s = {} THEN acc
    ELSE TakeByte(g[s \ {Max(s)}], StreamOf(b), StampOf(b), Payload(b)[Max(s)])

IsTaking(g, acc, b) ==
    g = [s \in SUBSET (DOMAIN Payload(b)) |-> BytePart(g, acc, b, s)]

\* The recursion behind TakeFrame.
LEMMA FrameByRecursion ==
    ASSUME NEW acc, NEW b
    PROVE  TakeFrame(acc, b) = (CHOOSE g : IsTaking(g, acc, b))[DOMAIN Payload(b)]
  BY Zenon DEF TakeFrame, FoldLeft, MapThenFoldSet, IsTaking, BytePart

Taking(b) == [p \in Accs \X Byte |-> TakeByte(p[1], StreamOf(b), StampOf(b), p[2])]

\* A step of it.
LEMMA TakingIs ==
    ASSUME NEW b \in Frame
    PROVE  /\ Taking(b) \in [Accs \X Byte -> Accs]
           /\ \A a \in Accs, c \in Byte :
                 Taking(b)[<<a, c>>] = TakeByte(a, StreamOf(b), StampOf(b), c)
<1>1. StreamOf(b) \in Byte /\ StampOf(b) \in Byte
  BY PayloadIs
<1>2. \A a \in Accs, c \in Byte : TakeByte(a, StreamOf(b), StampOf(b), c) \in Accs
  BY <1>1, TakeByteIn
<1>3. \A p \in Accs \X Byte : TakeByte(p[1], StreamOf(b), StampOf(b), p[2]) \in Accs
  BY <1>2
<1> QED
  BY <1>3 DEF Taking

\* TakeFrame takes the bytes of the payload one after the other.
LEMMA FrameTrace ==
    ASSUME NEW acc \in Accs, NEW b \in Frame
    PROVE  \E t : /\ Traces(t, Taking(b), acc, Payload(b), Accs)
                  /\ TakeFrame(acc, b) = t[Len(Payload(b))]
<1> DEFINE K == Taking(b)
           seq == Payload(b)
           D == SUBSET (DOMAIN seq)
<1>0. /\ K \in [Accs \X Byte -> Accs]
      /\ \A a \in Accs, c \in Byte : K[<<a, c>>] = TakeByte(a, StreamOf(b), StampOf(b), c)
      /\ seq \in Seq(Byte)
  BY TakingIs, PayloadIs
<1> HIDE DEF K
<1>8. ASSUME NEW s \in D, s # {}
      PROVE  seq[Max(s)] \in Byte /\ s \ {Max(s)} \in D
  <2> HIDE DEF seq
  <2> QED
    BY <1>0, <1>8, ElementOfMax
<1>1. \E g : FoldsBy(g, K, acc, seq, Accs)
  <2> HIDE DEF seq
  <2> QED
    BY <1>0, FoldsByExists
<1>2. ASSUME NEW g, FoldsBy(g, K, acc, seq, Accs) PROVE IsTaking(g, acc, b)
  <2>1. ASSUME NEW s \in D PROVE g[s] = BytePart(g, acc, b, s)
    <3>1. CASE s = {}
      BY <1>2, <3>1, Zenon DEF FoldsBy, BytePart
    <3>2. CASE s # {}
      <4>2. g[s \ {Max(s)}] \in Accs
        BY <1>2, <1>8, <3>2 DEF FoldsBy
      <4>3. g[s] = K[<<g[s \ {Max(s)}], seq[Max(s)]>>]
        BY <1>2, <3>2, Zenon DEF FoldsBy
      <4>4. g[s] = TakeByte(g[s \ {Max(s)}], StreamOf(b), StampOf(b), seq[Max(s)])
        BY <1>0, <1>8, <3>2, <4>2, <4>3, Zenon
      <4> QED
        BY <3>2, <4>4, Zenon DEF BytePart
    <3> QED
      BY <3>1, <3>2
  <2>2. g \in [D -> Accs]
    BY <1>2, Zenon DEF FoldsBy
  <2>3. g = [s \in D |-> g[s]]
    BY <2>2
  <2>4. g = [s \in D |-> BytePart(g, acc, b, s)]
    BY <2>1, <2>3, Zenon
  <2> QED
    BY <2>4, Zenon DEF IsTaking
<1> DEFINE h == CHOOSE g : IsTaking(g, acc, b)
<1>3. IsTaking(h, acc, b)
  BY <1>1, <1>2, Zenon
<1>4. TakeFrame(acc, b) = h[DOMAIN seq]
  BY FrameByRecursion, Zenon
<1> HIDE DEF h
<1>5. \A s \in D : h[s] = BytePart(h, acc, b, s)
  <2>1. h = [s \in D |-> BytePart(h, acc, b, s)]
    BY <1>3, Zenon DEF IsTaking
  <2> QED
    BY <2>1, Zenon
<1>6. h[{}] = acc
  BY <1>5, Zenon DEF BytePart
<1>7. ASSUME NEW s \in D, s # {}, h[s \ {Max(s)}] \in Accs
      PROVE  h[s] = K[<<h[s \ {Max(s)}], seq[Max(s)]>>]
  <2>1. h[s] = TakeByte(h[s \ {Max(s)}], StreamOf(b), StampOf(b), seq[Max(s)])
    BY <1>5, <1>7, Zenon DEF BytePart
  <2> QED
    BY <1>0, <1>7, <1>8, <2>1, Zenon
<1> HIDE DEF seq
<1>9. \E t : Traces(t, K, acc, seq, Accs) /\ h[DOMAIN seq] = t[Len(seq)]
  <2>1. \A s \in SUBSET (DOMAIN seq) :
           s # {} /\ h[s \ {Max(s)}] \in Accs => h[s] = K[<<h[s \ {Max(s)}], seq[Max(s)]>>]
    BY <1>7
  <2>2. acc \in Accs /\ K \in [Accs \X Byte -> Accs] /\ seq \in Seq(Byte)
    BY <1>0
  <2>3. StepsIn(h, K, acc, seq, Accs, Byte)
    BY <1>6, <2>1, <2>2, Zenon DEF StepsIn
  <2> QED
    BY <2>3, PartsTrace
<1> QED
  BY <1>4, <1>9 DEF K, seq

\* TakeFrame makes what Fetch may have.
LEMMA TakeFrameIn ==
    ASSUME NEW acc \in Accs, NEW b \in Frame
    PROVE  TakeFrame(acc, b) \in Accs
<1>1. PICK t : /\ Traces(t, Taking(b), acc, Payload(b), Accs)
               /\ TakeFrame(acc, b) = t[Len(Payload(b))]
  BY FrameTrace
<1>2. Payload(b) \in Seq(Byte)
  BY PayloadIs
<1> QED
  BY <1>1, <1>2, TraceIn, Zenon

\* A frame without a payload.
LEMMA TakesNothing ==
    ASSUME NEW acc \in Accs, NEW b \in Frame, Payload(b) = <<>>
    PROVE  TakeFrame(acc, b) = acc
<1>1. PICK t : /\ Traces(t, Taking(b), acc, Payload(b), Accs)
               /\ TakeFrame(acc, b) = t[Len(Payload(b))]
  BY FrameTrace
<1>2. Len(Payload(b)) = 0
  OBVIOUS
<1>3. t[0] = acc
  BY <1>1, Zenon DEF Traces
<1> QED
  BY <1>1, <1>2, <1>3

\* The bytes of the frames lie one behind the other.
LEMMA SpreadIs ==
    ASSUME NEW o, NEW frames, NEW all, Spread(o, frames, all)
    PROVE  /\ Len(frames) \in Nat /\ Len(all) \in Nat /\ DOMAIN all = 1..Len(all)
           /\ \A j \in 0..Len(frames) : o[j] \in Nat
           /\ \A j \in 1..Len(frames) :
                 /\ j - 1 \in 0..Len(frames) /\ frames[j] \in Frame
                 /\ Len(Payload(frames[j])) \in Nat /\ Payload(frames[j]) \in Seq(Byte)
                 /\ o[j] = o[j - 1] + Len(Payload(frames[j])) /\ o[j - 1] <= o[j]
                 /\ \A i \in 1..Len(Payload(frames[j])) : all[o[j - 1] + i] = CharOf(j, frames[j], i)
           /\ \A i, j \in 0..Len(frames) : i <= j => o[i] <= o[j]
           /\ \A j \in 0..Len(frames) : o[j] <= Len(all)
           /\ o[0] = 0 /\ o[Len(frames)] = Len(all)
<1> DEFINE n == Len(frames)
<1>1. /\ frames \in Seq(Frame) /\ all \in Seq(Chars)
      /\ o \in [0..n -> Nat] /\ o[0] = 0 /\ o[n] = Len(all)
      /\ \A j \in 1..n :
          /\ o[j] = o[j - 1] + Len(Payload(frames[j]))
          /\ \A i \in 1..Len(Payload(frames[j])) : all[o[j - 1] + i] = CharOf(j, frames[j], i)
  BY DEF Spread
<1>2. n \in Nat /\ Len(all) \in Nat /\ DOMAIN all = 1..Len(all) /\ \A j \in 1..n : frames[j] \in Frame
  BY <1>1
<1> HIDE DEF n
<1>3. \A j \in 0..n : o[j] \in Nat
  BY <1>1
<1>4. ASSUME NEW j \in 1..n
      PROVE  /\ j - 1 \in 0..n /\ frames[j] \in Frame
             /\ Len(Payload(frames[j])) \in Nat /\ Payload(frames[j]) \in Seq(Byte)
             /\ o[j - 1] <= o[j]
  <2>1. j - 1 \in 0..n /\ j \in 0..n /\ frames[j] \in Frame
    BY <1>2
  <2>2. Len(Payload(frames[j])) \in Nat /\ Payload(frames[j]) \in Seq(Byte)
    BY <2>1, PayloadIs
  <2> DEFINE x == o[j - 1]
             y == o[j]
             z == Len(Payload(frames[j]))
  <2>3. x \in Nat /\ y \in Nat /\ z \in Nat /\ y = x + z
    BY <1>1, <1>3, <2>1, <2>2
  <2> HIDE DEF x, y, z
  <2>4. x <= y
    BY <2>3
  <2> QED
    BY <2>1, <2>2, <2>4 DEF x, y
<1> DEFINE F == {k \in Nat : \A i \in 0..n : i + k <= n => o[i] <= o[i + k]}
<1>5. 0 \in F
  BY <1>2, <1>3
<1>6. ASSUME NEW k \in Nat, k \in F PROVE k + 1 \in F
  <2> SUFFICES ASSUME NEW i \in 0..n, i + (k + 1) <= n PROVE o[i] <= o[i + (k + 1)]
    OBVIOUS
  <2> DEFINE m == i + (k + 1)
  <2>1. m \in 1..n /\ m - 1 = i + k /\ i + k <= n /\ i + k \in 0..n /\ m \in 0..n
    BY <1>2
  <2>2. o[i] <= o[i + k]
    BY <1>6, <2>1
  <2> HIDE DEF m
  <2>3. o[m - 1] <= o[m]
    BY <1>4, <2>1
  <2> DEFINE x == o[i]
             y == o[i + k]
             z == o[m]
  <2>4. x \in Nat /\ y \in Nat /\ z \in Nat /\ x <= y /\ y <= z
    BY <1>3, <2>1, <2>2, <2>3
  <2> HIDE DEF x, y, z
  <2>5. x <= z
    BY <2>4
  <2> QED
    BY <2>5 DEF x, z, m
<1> HIDE DEF F
<1>7. \A k \in Nat : k \in F
  BY <1>5, <1>6, NatInduct
<1>8. ASSUME NEW i \in 0..n, NEW j \in 0..n, i <= j PROVE o[i] <= o[j]
  <2>1. j - i \in Nat /\ i + (j - i) = j /\ j <= n
    BY <1>2, <1>8
  <2> QED
    BY <1>7, <2>1 DEF F
<1>9. \A j \in 0..n : o[j] <= Len(all)
  <2>1. n \in 0..n /\ \A j \in 0..n : j <= n
    BY <1>2
  <2> QED
    BY <1>1, <1>8, <2>1
<1> QED
  BY <1>1, <1>2, <1>3, <1>4, <1>8, <1>9 DEF n

\* One frame more.
LEMMA ReadsFrame ==
    ASSUME NEW o, NEW frames, NEW all, Spread(o, frames, all), NEW j \in 1..Len(frames),
           NEW acc, HasRead(acc, all, o[j - 1])
    PROVE  HasRead(TakeFrame(acc, frames[j]), all, o[j])
<1> DEFINE b == frames[j]
           n == Len(Payload(b))
           p == o[j - 1]
           s == StreamOf(b)
           u == StampOf(b)
           x == Payload(b)
<1>1. /\ all \in Seq(Chars) /\ b \in Frame /\ p \in Nat /\ x \in Seq(Byte) /\ n \in Nat
      /\ o[j] = p + n /\ p + n <= Len(all) /\ DOMAIN all = 1..Len(all) /\ Len(all) \in Nat
      /\ \A i \in 1..n : all[p + i] = CharOf(j, b, i)
  <2>1. /\ all \in Seq(Chars) /\ j \in 0..Len(frames) /\ j - 1 \in 0..Len(frames)
    BY SpreadIs DEF Spread
  <2> QED
    BY <2>1, SpreadIs
<1>2. acc \in Accs
  BY DEF HasRead
<1>3. PICK t : Traces(t, Taking(b), acc, x, Accs) /\ TakeFrame(acc, b) = t[n]
  BY <1>1, <1>2, FrameTrace
<1>4. /\ t \in [0..n -> Accs] /\ t[0] = acc
      /\ \A i \in 1..n : t[i] = Taking(b)[<<t[i - 1], x[i]>>]
  BY <1>3, Zenon DEF Traces
<1>5. HasRead(acc, all, p)
  OBVIOUS
<1> HIDE DEF b, n, p, x, s, u
<1> DEFINE F == {i \in Nat : i <= n => HasRead(t[i], all, p + i)}
<1>6. 0 \in F
  BY <1>1, <1>4, <1>5
<1>7. ASSUME NEW i \in Nat, i \in F PROVE i + 1 \in F
  <2> SUFFICES ASSUME i + 1 <= n PROVE HasRead(t[i + 1], all, p + (i + 1))
    OBVIOUS
  <2> DEFINE m == i + 1
             k == p + i
  <2>1. /\ m \in 1..n /\ m - 1 = i /\ i \in 0..n /\ k \in Nat /\ k + 1 = p + m
        /\ k + 1 \in DOMAIN all /\ i <= n
    BY <1>1
  <2>2. HasRead(t[i], all, k)
    BY <1>7, <2>1
  <2> HIDE DEF m, k
  <2>3. t[i] \in Accs /\ x[m] \in Byte
    <3>1. t[i] \in Accs
      BY <1>4, <2>1
    <3>2. n = Len(x)
      BY DEF n, x
    <3>3. x[m] \in Byte
      BY <1>1, <2>1, <3>2
    <3> QED
      BY <3>1, <3>3
  <2>4. all[k + 1] = CharOf(j, b, m)
    BY <1>1, <2>1
  <2>5. all[k + 1].stream = s /\ all[k + 1].stamp = u /\ all[k + 1].byte = x[m]
    BY <2>4 DEF CharOf, s, u, x
  <2>6. t[m] = Taking(b)[<<t[i], x[m]>>]
    BY <1>4, <2>1
  <2>7. t[m] = TakeByte(t[i], s, u, x[m])
    BY <1>1, <2>3, <2>6, TakingIs, Zenon DEF s, u
  <2>8. HasRead(TakeByte(t[i], s, u, x[m]), all, k + 1)
    BY <1>1, <2>1, <2>2, <2>5, ReadsByte
  <2> QED
    BY <2>1, <2>7, <2>8 DEF m
<1> HIDE DEF F
<1>8. n \in F
  BY <1>1, <1>6, <1>7, NatInduct
<1>9. HasRead(t[n], all, p + n)
  BY <1>1, <1>8 DEF F
<1> QED
  BY <1>1, <1>3, <1>9 DEF b

-----------------------------------------------------------------------------
\* All the frames.

NoneOpen == [open |-> [s \in Byte |-> Closed], lines |-> <<>>]

FramePart(g, frames, s) ==
    IF s = {} THEN NoneOpen ELSE TakeFrame(g[s \ {Max(s)}], frames[Max(s)])

IsReading(g, frames) == g = [s \in SUBSET (DOMAIN frames) |-> FramePart(g, frames, s)]

\* The lines of what has been read, the open ones last.
Flushed(acc) ==
    LET ids == InOrder({s \in Byte : acc.open[s].started})
    IN acc.lines \o [k \in DOMAIN ids |->
                        TextLine(ids[k], acc.open[ids[k]].stamp, acc.open[ids[k]].data)]

\* The recursion behind Lines.
LEMMA LinesByRecursion ==
    ASSUME NEW frames
    PROVE  Lines(frames) = Flushed((CHOOSE g : IsReading(g, frames))[DOMAIN frames])
  BY Zenon DEF Lines, FoldLeft, MapThenFoldSet, IsReading, FramePart, NoneOpen, Flushed

Reading == [p \in Accs \X Frame |-> TakeFrame(p[1], p[2])]

\* A step of it.
LEMMA ReadingIs ==
    /\ Reading \in [Accs \X Frame -> Accs] /\ NoneOpen \in Accs
    /\ \A a \in Accs, b \in Frame : Reading[<<a, b>>] = TakeFrame(a, b)
<1>1. \A p \in Accs \X Frame : TakeFrame(p[1], p[2]) \in Accs
  BY TakeFrameIn
<1>2. NoneOpen \in Accs
  <2>1. 0 \in Byte /\ <<>> \in Seq(Byte) /\ <<>> \in Seq(TextLines)
    BY Constants DEF Byte
  <2>2. Closed \in Pendings
    BY <2>1 DEF Closed, Pendings
  <2> QED
    BY <2>1, <2>2 DEF NoneOpen, Accs
<1> QED
  BY <1>1, <1>2 DEF Reading

\* Lines takes the frames one after the other, and flushes what is open.
LEMMA LinesTrace ==
    ASSUME NEW frames \in Seq(Frame)
    PROVE  \E t : /\ Traces(t, Reading, NoneOpen, frames, Accs)
                  /\ Lines(frames) = Flushed(t[Len(frames)])
<1> DEFINE K == Reading
           D == SUBSET (DOMAIN frames)
           acc == NoneOpen
<1>0. /\ K \in [Accs \X Frame -> Accs] /\ acc \in Accs
      /\ \A a \in Accs, b \in Frame : K[<<a, b>>] = TakeFrame(a, b)
  BY ReadingIs
<1> HIDE DEF K, acc
<1>8. ASSUME NEW s \in D, s # {}
      PROVE  frames[Max(s)] \in Frame /\ s \ {Max(s)} \in D
  BY <1>8, ElementOfMax
<1>1. \E g : FoldsBy(g, K, acc, frames, Accs)
  BY <1>0, FoldsByExists
<1>2. ASSUME NEW g, FoldsBy(g, K, acc, frames, Accs) PROVE IsReading(g, frames)
  <2>1. ASSUME NEW s \in D PROVE g[s] = FramePart(g, frames, s)
    <3>1. CASE s = {}
      BY <1>2, <3>1, Zenon DEF FoldsBy, FramePart, acc
    <3>2. CASE s # {}
      <4>2. g[s \ {Max(s)}] \in Accs
        BY <1>2, <1>8, <3>2 DEF FoldsBy
      <4>3. g[s] = K[<<g[s \ {Max(s)}], frames[Max(s)]>>]
        BY <1>2, <3>2, Zenon DEF FoldsBy
      <4>4. g[s] = TakeFrame(g[s \ {Max(s)}], frames[Max(s)])
        BY <1>0, <1>8, <3>2, <4>2, <4>3, Zenon
      <4> QED
        BY <3>2, <4>4, Zenon DEF FramePart
    <3> QED
      BY <3>1, <3>2
  <2>2. g \in [D -> Accs]
    BY <1>2, Zenon DEF FoldsBy
  <2>3. g = [s \in D |-> g[s]]
    BY <2>2
  <2>4. g = [s \in D |-> FramePart(g, frames, s)]
    BY <2>1, <2>3, Zenon
  <2> QED
    BY <2>4, Zenon DEF IsReading
<1> DEFINE h == CHOOSE g : IsReading(g, frames)
<1>3. IsReading(h, frames)
  BY <1>1, <1>2, Zenon
<1>4. Lines(frames) = Flushed(h[DOMAIN frames])
  BY LinesByRecursion, Zenon
<1> HIDE DEF h
<1>5. \A s \in D : h[s] = FramePart(h, frames, s)
  <2>1. h = [s \in D |-> FramePart(h, frames, s)]
    BY <1>3, Zenon DEF IsReading
  <2> QED
    BY <2>1, Zenon
<1>6. h[{}] = acc
  BY <1>5, Zenon DEF FramePart, acc
<1>7. ASSUME NEW s \in D, s # {}, h[s \ {Max(s)}] \in Accs
      PROVE  h[s] = K[<<h[s \ {Max(s)}], frames[Max(s)]>>]
  <2>1. h[s] = TakeFrame(h[s \ {Max(s)}], frames[Max(s)])
    BY <1>5, <1>7, Zenon DEF FramePart
  <2> QED
    BY <1>0, <1>7, <1>8, <2>1, Zenon
<1>10. StepsIn(h, K, acc, frames, Accs, Frame)
  <2>1. \A s \in SUBSET (DOMAIN frames) :
           s # {} /\ h[s \ {Max(s)}] \in Accs => h[s] = K[<<h[s \ {Max(s)}], frames[Max(s)]>>]
    BY <1>7
  <2> QED
    BY <1>0, <1>6, <2>1, Zenon DEF StepsIn
<1>9. \E t : Traces(t, K, acc, frames, Accs) /\ h[DOMAIN frames] = t[Len(frames)]
  BY <1>10, PartsTrace
<1> QED
  BY <1>4, <1>9 DEF K, acc

\* What has been read at the end.
LEMMA ReadsAll ==
    ASSUME NEW o, NEW frames, NEW all, Spread(o, frames, all)
    PROVE  \E acc : HasRead(acc, all, Len(all)) /\ Lines(frames) = Flushed(acc)
<1> DEFINE n == Len(frames)
<1>1. frames \in Seq(Frame) /\ all \in Seq(Chars) /\ n \in Nat /\ o[n] = Len(all) /\ o[0] = 0
  BY SpreadIs DEF Spread
<1>2. PICK t : Traces(t, Reading, NoneOpen, frames, Accs) /\ Lines(frames) = Flushed(t[n])
  BY <1>1, LinesTrace
<1>3. /\ t \in [0..n -> Accs] /\ t[0] = NoneOpen
      /\ \A i \in 1..n : t[i] = Reading[<<t[i - 1], frames[i]>>]
  BY <1>2, Zenon DEF Traces
<1> DEFINE F == {j \in Nat : j <= n => HasRead(t[j], all, o[j])}
<1>4. 0 \in F
  <2>1. \A l \in DOMAIN all : l \in Nat /\ ~(l <= 0)
    BY <1>1
  <2>2. \A s : OpenAt(all, 0, s) = {}
    BY <2>1 DEF OpenAt, Of
  <2>3. EndsUpto(all, 0) = {}
    BY <2>1 DEF EndsUpto, Ends
  <2>4. NoneOpen.lines = Along(TextsIn(all), EndsUpto(all, 0))
    BY <2>3, AlongNone DEF NoneOpen
  <2>5. \A s \in Byte : IsOpen(NoneOpen.open[s], all, 0, s)
    BY <2>2, AlongNone DEF NoneOpen, Closed, IsOpen
  <2>6. HasRead(NoneOpen, all, 0)
    BY <2>4, <2>5, ReadingIs DEF HasRead
  <2> QED
    BY <1>1, <1>3, <2>6
<1>5. ASSUME NEW j \in Nat, j \in F PROVE j + 1 \in F
  <2> SUFFICES ASSUME j + 1 <= n PROVE HasRead(t[j + 1], all, o[j + 1])
    OBVIOUS
  <2> DEFINE m == j + 1
  <2>1. m \in 1..n /\ m - 1 = j /\ j \in 0..n /\ j <= n
    BY <1>1
  <2>2. HasRead(t[j], all, o[j])
    BY <1>5, <2>1
  <2> HIDE DEF m
  <2>3. t[j] \in Accs /\ frames[m] \in Frame
    BY <1>1, <1>3, <2>1
  <2>4. t[m] = Reading[<<t[j], frames[m]>>]
    BY <1>3, <2>1
  <2>5. t[m] = TakeFrame(t[j], frames[m])
    BY <2>3, <2>4, ReadingIs, Zenon
  <2>6. HasRead(TakeFrame(t[j], frames[m]), all, o[m])
    BY <2>1, <2>2, ReadsFrame
  <2> QED
    BY <2>5, <2>6 DEF m
<1> HIDE DEF F
<1>6. n \in F
  BY <1>1, <1>4, <1>5, NatInduct
<1>7. HasRead(t[n], all, Len(all))
  BY <1>1, <1>6 DEF F
<1> QED
  BY <1>2, <1>7

-----------------------------------------------------------------------------
\* What is left open at the end.

Left(all) == {all[k].stream : k \in Lasts(all)}

\* The last byte of an unfinished line is the last of its stream.
LEMMA LastIs ==
    ASSUME NEW all \in Seq(Chars), NEW k \in Lasts(all)
    PROVE  /\ k \in DOMAIN all /\ k \notin Ends(all) /\ all[k].stream \in Byte
           /\ k \in OpenAt(all, Len(all), all[k].stream)
           /\ Text(all, k) = OpenAt(all, Len(all), all[k].stream)
           /\ \A l \in Lasts(all) : all[l].stream = all[k].stream => l = k
<1> DEFINE s == all[k].stream
           n == Len(all)
<1>1. /\ n \in Nat /\ DOMAIN all = 1..n /\ \A l \in DOMAIN all : l \in Nat /\ all[l] \in Chars
  BY SetsIn
<1>2. k \in DOMAIN all /\ k \notin Ends(all) /\ \A l \in Of(all, s) : l <= k
  BY DEF Lasts
<1>3. s \in Byte
  BY <1>1, <1>2 DEF Chars
<1>4. \A l, r : l \in Of(all, r) <=> l \in DOMAIN all /\ all[l].stream = r
  BY DEF Of
<1>5. k \in Of(all, s)
  BY <1>2, <1>4
<1>6. \A l \in Lasts(all) : /\ l \in Of(all, all[l].stream)
                            /\ \A m \in Of(all, all[l].stream) : m <= l
  BY <1>4 DEF Lasts
<1> HIDE DEF s, n
<1>7. ASSUME NEW l \in Lasts(all), all[l].stream = s PROVE l = k
  <2>1. l <= k /\ k <= l
    BY <1>2, <1>5, <1>6, <1>7
  <2>2. l \in Nat /\ k \in Nat
    BY <1>1, <1>2, <1>4, <1>6
  <2> QED
    BY <2>1, <2>2
<1>8. ASSUME NEW l \in Of(all, s)
      PROVE  /\ l <= k /\ l <= n
             /\ Ends(all) \cap Of(all, s) \cap l..(k - 1) = Ends(all) \cap Of(all, s) \cap l..n
  <2>1. l \in Nat /\ k \in Nat /\ l <= k /\ k <= n /\ l <= n
    BY <1>1, <1>2, <1>4
  <2>2. \A e \in Ends(all) \cap Of(all, s) : e \in Nat /\ e <= k /\ e # k /\ e <= n
    BY <1>1, <1>2, <1>4
  <2>3. \A e \in Ends(all) \cap Of(all, s) : e \in l..(k - 1) <=> e \in l..n
    BY <1>1, <2>1, <2>2
  <2> QED
    BY <2>1, <2>3
<1>9. Text(all, k) = OpenAt(all, n, s)
  <2>1. Text(all, k) = {l \in Of(all, s) : l <= k /\ Ends(all) \cap Of(all, s) \cap l..(k - 1) = {}}
    BY DEF Text, s
  <2>2. OpenAt(all, n, s) = {l \in Of(all, s) : l <= n /\ Ends(all) \cap Of(all, s) \cap l..n = {}}
    BY DEF OpenAt
  <2> QED
    BY <1>8, <2>1, <2>2
<1>10. k \in OpenAt(all, n, s)
  <2>1. Ends(all) \cap Of(all, s) \cap k..(k - 1) = {}
    <3>1. k \in Nat
      BY <1>1, <1>2
    <3>2. k..(k - 1) = {}
      BY <3>1
    <3> QED
      BY <3>2
  <2> QED
    BY <1>5, <1>8, <2>1 DEF OpenAt
<1> QED
  BY <1>2, <1>3, <1>7, <1>9, <1>10 DEF s, n

\* The streams with an unfinished line are those with open bytes.
LEMMA LeftIs ==
    ASSUME NEW all \in Seq(Chars)
    PROVE  /\ \A s : s \in Left(all) <=> OpenAt(all, Len(all), s) # {}
           /\ Left(all) \subseteq Byte
<1> DEFINE n == Len(all)
<1>1. /\ n \in Nat /\ DOMAIN all = 1..n /\ \A l \in DOMAIN all : l \in Nat /\ all[l] \in Chars
  BY SetsIn
<1>2. \A s \in Left(all) : OpenAt(all, n, s) # {} /\ s \in Byte
  <2> SUFFICES ASSUME NEW k \in Lasts(all)
               PROVE  OpenAt(all, n, all[k].stream) # {} /\ all[k].stream \in Byte
    BY DEF Left
  <2> QED
    BY LastIs
<1>3. ASSUME NEW s, OpenAt(all, n, s) # {} PROVE s \in Left(all)
  <2> DEFINE S == Of(all, s)
             k == Max(S)
  <2>1. PICK l : l \in S /\ l <= n /\ Ends(all) \cap S \cap l..n = {}
    BY <1>3 DEF OpenAt
  <2>2. S \subseteq 1..n /\ S # {} /\ \A m \in S : m \in DOMAIN all /\ all[m].stream = s
    BY <1>1, <2>1 DEF Of
  <2> HIDE DEF S
  <2>3. k \in S /\ \A i \in S : i <= k
    BY <1>1, <2>2, MaxIs
  <2> HIDE DEF k
  <2>4. k \in DOMAIN all /\ all[k].stream = s /\ k \in l..n
    BY <1>1, <2>1, <2>2, <2>3
  <2>5. k \notin Ends(all)
    BY <2>1, <2>3, <2>4
  <2>6. k \in Lasts(all)
    BY <2>3, <2>4, <2>5 DEF Lasts, S
  <2> QED
    BY <2>4, <2>6 DEF Left
<1> QED
  BY <1>2, <1>3

LastOf(all, s) == CHOOSE k \in Lasts(all) : all[k].stream = s

\* Where the unfinished line of a stream ends.
LEMMA LastOfIs ==
    ASSUME NEW all \in Seq(Chars), NEW s \in Left(all)
    PROVE  /\ LastOf(all, s) \in Lasts(all) /\ all[LastOf(all, s)].stream = s
           /\ LastOf(all, s) \in DOMAIN all /\ LastOf(all, s) \notin Ends(all)
           /\ LastOf(all, s) \in OpenAt(all, Len(all), s)
           /\ Text(all, LastOf(all, s)) = OpenAt(all, Len(all), s)
<1>1. \E k \in Lasts(all) : all[k].stream = s
  BY DEF Left
<1>2. LastOf(all, s) \in Lasts(all) /\ all[LastOf(all, s)].stream = s
  BY <1>1, Zenon DEF LastOf
<1> QED
  BY <1>2, LastIs

\* Where the lines end.
LeftAt(all) == [i \in 1..Cardinality(Left(all)) |-> LastOf(all, InOrder(Left(all))[i])]

\* The ends of the lines: those that are ended, and then the others by stream.
LEMMA LinesEndIs ==
    ASSUME NEW all \in Seq(Chars)
    PROVE  /\ LinesEnd(all) = InOrder(Ends(all)) \o LeftAt(all)
           /\ InOrder(Ends(all)) \in Seq(DOMAIN all) /\ LeftAt(all) \in Seq(DOMAIN all)
           /\ Len(LeftAt(all)) = Cardinality(Left(all)) /\ Cardinality(Left(all)) \in Nat
           /\ IsFiniteSet(Left(all)) /\ Left(all) \subseteq Nat
           /\ IsFiniteSet(Ends(all)) /\ Ends(all) \subseteq Nat
           /\ \A i \in 1..Cardinality(Left(all)) :
                 /\ InOrder(Left(all))[i] \in Left(all)
                 /\ LeftAt(all)[i] = LastOf(all, InOrder(Left(all))[i])
<1> DEFINE L == Left(all)
           c == Cardinality(L)
           E == Ends(all)
<1>1. LinesEnd(all) = InOrder(E) \o LeftAt(all)
  BY DEF LinesEnd, LeftAt, LastOf, Left
<1>2. /\ E \in SUBSET DOMAIN all /\ IsFiniteSet(E) /\ E \subseteq Nat /\ Lasts(all) \in SUBSET DOMAIN all
      /\ IsFiniteSet(Lasts(all))
  BY SetsIn
<1>3. IsFiniteSet(L)
  <2>1. IsFiniteSet(Byte)
    BY Constants, FS_Interval DEF Byte
  <2> QED
    BY <2>1, LeftIs, FS_Subset
<1>4. L \subseteq Nat
  <2>1. Byte \subseteq Nat
    BY Constants DEF Byte
  <2> QED
    BY <2>1, LeftIs
<1>5. c \in Nat /\ \A i \in 1..c : InOrder(L)[i] \in L
  <2> HIDE DEF L
  <2> QED
    BY <1>3, <1>4, InOrderIs
<1>6. \A i \in 1..c : LastOf(all, InOrder(L)[i]) \in DOMAIN all
  BY <1>5, LastOfIs
<1>7. LeftAt(all) = [i \in 1..c |-> LastOf(all, InOrder(L)[i])]
  BY DEF LeftAt
<1> HIDE DEF c, L, E
<1>8. LeftAt(all) \in Seq(DOMAIN all) /\ Len(LeftAt(all)) = c
      /\ \A i \in 1..c : LeftAt(all)[i] = LastOf(all, InOrder(L)[i])
  <2>1. LeftAt(all) \in [1..c -> DOMAIN all]
    BY <1>6, <1>7
  <2> QED
    BY <1>5, <1>7, <2>1
<1>9. InOrder(E) \in Seq(DOMAIN all)
  <2>1. InOrder(E) \in Seq(E)
    BY <1>2, InOrderIs
  <2> QED
    BY <1>2, <2>1
<1> QED
  BY <1>1, <1>2, <1>3, <1>4, <1>5, <1>8, <1>9 DEF c, L, E

\* Fetch's lines are the lines of the bytes.
LEMMA LinesAre ==
    ASSUME NEW o, NEW frames, NEW all, Spread(o, frames, all)
    PROVE  Lines(frames) = [i \in DOMAIN LinesEnd(all) |-> TextTo(all, LinesEnd(all)[i])]
<1> DEFINE n == Len(all)
           E == Ends(all)
           L == Left(all)
           a == InOrder(E)
           b == LeftAt(all)
           f == TextsIn(all)
           ids == InOrder(L)
           c == Cardinality(L)
           D == DOMAIN all
<1>1. all \in Seq(Chars) /\ n \in Nat /\ D = 1..n
  BY SpreadIs DEF Spread
<1>2. PICK acc : HasRead(acc, all, n) /\ Lines(frames) = Flushed(acc)
  BY ReadsAll
<1>3. /\ acc \in Accs /\ acc.lines = Along(f, EndsUpto(all, n))
      /\ \A s \in Byte : IsOpen(acc.open[s], all, n, s)
  BY <1>2 DEF HasRead
<1>4. EndsUpto(all, n) = E
  <2>1. \A k \in E : k <= n
    BY <1>1 DEF Ends
  <2> QED
    BY <2>1 DEF EndsUpto
<1>5. {s \in Byte : acc.open[s].started} = L
  <2>1. \A s \in Byte : acc.open[s].started <=> s \in L
    BY <1>1, <1>3, LeftIs DEF IsOpen
  <2> QED
    BY <1>1, <2>1, LeftIs
<1>6. /\ LinesEnd(all) = a \o b /\ a \in Seq(D) /\ b \in Seq(D) /\ Len(b) = c /\ c \in Nat
      /\ IsFiniteSet(L) /\ L \subseteq Nat /\ IsFiniteSet(E) /\ E \subseteq Nat
      /\ \A i \in 1..c : ids[i] \in L /\ b[i] = LastOf(all, ids[i])
  BY <1>1, LinesEndIs
<1>7. \A k \in D : f[k] = TextTo(all, k) /\ f[k] \in TextLines
  BY <1>1, TextsAreLines
<1>8. DOMAIN ids = 1..c
  <2> HIDE DEF L
  <2> QED
    BY <1>6, InOrderIs
<1> DEFINE u == Along(f, E)
           v == [k \in DOMAIN ids |-> TextLine(ids[k], acc.open[ids[k]].stamp, acc.open[ids[k]].data)]
<1>9. Lines(frames) = u \o v
  BY <1>2, <1>3, <1>4, <1>5, Zenon DEF Flushed
<1>10. ASSUME NEW i \in 1..c PROVE v[i] = f[b[i]] /\ b[i] \in D
  <2> DEFINE s == ids[i]
             k == LastOf(all, s)
             S == OpenAt(all, n, s)
             p == acc.open[s]
  <2>1. s \in L /\ b[i] = k
    BY <1>6
  <2>2. s \in Byte /\ S # {}
    BY <1>1, <2>1, LeftIs
  <2>3. /\ all[k].stream = s /\ k \in D /\ Text(all, k) = S
    BY <1>1, <2>1, LastOfIs
  <2>4. p.stamp = all[Min(S)].stamp /\ p.data = Along(BytesIn(all), S)
    BY <1>3, <2>2 DEF IsOpen
  <2>5. f[k] = TextLine(all[k].stream, all[Min(Text(all, k))].stamp,
                        Along(BytesIn(all), Text(all, k) \ Ends(all)))
    BY <1>1, <2>3, TextsAreLines
  <2>6. S \ Ends(all) = S
    <3>1. S \cap Ends(all) = {}
      BY <1>1 DEF OpenAt, Ends, Of
    <3> QED
      BY <3>1
  <2>7. v[i] = TextLine(s, p.stamp, p.data)
    BY <1>8
  <2> HIDE DEF s, k, S, p, v, f, D, b
  <2> QED
    BY <2>1, <2>3, <2>4, <2>5, <2>6, <2>7
<1>11. \A i \in 1..Len(a) : u[i] = f[a[i]]
  <2>1. Len(a) = Cardinality(E)
    BY <1>6, InOrderIs
  <2>2. ASSUME NEW i \in 1..Cardinality(E) PROVE u[i] = f[a[i]]
    <3> HIDE DEF E, f
    <3>1. Along(f, E)[i] = f[InOrder(E)[i]]
      BY <1>6, AlongAt
    <3> QED
      BY <3>1
  <2> QED
    BY <2>1, <2>2
<1>12. u \in Seq(TextLines) /\ Len(u) = Len(a)
  <2>1. \A k \in E : f[k] \in TextLines
    BY <1>7 DEF Ends
  <2>2. Len(a) = Cardinality(E)
    BY <1>6, InOrderIs
  <2>3. IsFiniteSet(E) /\ E \subseteq Nat
    BY <1>6
  <2> HIDE DEF E, f
  <2>4. Along(f, E) \in Seq(TextLines) /\ Len(Along(f, E)) = Cardinality(E)
    BY ONLY <2>1, <2>3, AlongIs
  <2> QED
    BY <2>2, <2>4 DEF E
<1>13. v \in Seq(TextLines) /\ Len(v) = Len(b)
  <2>1. \A i \in 1..c : v[i] \in TextLines
    BY <1>7, <1>10
  <2>2. v = [i \in 1..c |-> v[i]]
    BY <1>8
  <2> HIDE DEF v, c, b
  <2>3. v \in [1..c -> TextLines]
    BY <2>1, <2>2
  <2> QED
    BY <1>6, <2>3
<1>14. \A i \in 1..Len(b) : v[i] = f[b[i]]
  BY <1>6, <1>10
<1> HIDE DEF u, v, a, b, f, D
<1>15. Each(f, a \o b) = u \o v
  <2>1. Maps(u, f, a, D, TextLines) /\ Maps(v, f, b, D, TextLines)
    BY <1>6, <1>11, <1>12, <1>13, <1>14 DEF Maps
  <2> QED
    BY ONLY <2>1, MapConcat
<1>16. \A i \in DOMAIN (a \o b) : f[(a \o b)[i]] = TextTo(all, (a \o b)[i])
  <2>1. a \o b \in Seq(D)
    BY <1>6
  <2> DEFINE e == a \o b
  <2> HIDE DEF e
  <2>2. \A i \in DOMAIN e : e[i] \in D
    BY <2>1 DEF e
  <2> QED
    BY <1>7, <2>2 DEF e
<1> QED
  <2>1. LinesEnd(all) = a \o b
    BY <1>6
  <2> DEFINE e == a \o b
  <2> HIDE DEF e
  <2>2. Each(f, e) = [i \in DOMAIN e |-> TextTo(all, e[i])]
    BY <1>16 DEF e, Each
  <2> QED
    BY <1>9, <1>15, <2>1, <2>2 DEF e

-----------------------------------------------------------------------------
\* The frames without a payload.

Laden == {b \in Frame : Payload(b) # <<>>}

\* Leaving out the frames without a payload leaves the lines as they are.
LEMMA SendingIs ==
    ASSUME NEW frames \in Seq(Frame)
    PROVE  /\ Sending(frames) \in Seq(Laden) /\ Sending(frames) \in Seq(Frame)
           /\ Lines(Sending(frames)) = Lines(frames)
<1> DEFINE n == Len(frames)
           ss == [i \in DOMAIN frames |->
                    IF Payload(frames[i]) = <<>> THEN <<>> ELSE <<frames[i]>>]
           K == Reading
<1>1. n \in Nat /\ DOMAIN frames = 1..n /\ \A i \in 1..n : frames[i] \in Frame
  OBVIOUS
<1>2. \A i \in 1..n : /\ Payload(frames[i]) = <<>> => ss[i] = <<>>
                      /\ Payload(frames[i]) # <<>> => ss[i] = <<frames[i]>>
  BY <1>1
<1>3. Sending(frames) = FlattenSeq(ss)
  BY DEF Sending
<1>4. ss = [i \in 1..n |-> ss[i]]
  BY <1>1
<1> HIDE DEF n, ss
<1>5. ss \in Seq(Seq(Laden)) /\ Len(ss) = n
  <2>1. <<>> \in Seq(Laden) /\ \A b \in Laden : <<b>> \in Seq(Laden)
    OBVIOUS
  <2>2. \A i \in 1..n : Payload(frames[i]) # <<>> => frames[i] \in Laden
    BY <1>1 DEF Laden
  <2>3. \A i \in 1..n : ss[i] \in Seq(Laden)
    BY <1>2, <2>1, <2>2
  <2>4. ss \in [1..n -> Seq(Laden)]
    BY <1>4, <2>3
  <2> QED
    BY <1>1, <2>4
<1>6. PICK f : Joins(f, ss, Laden)
  BY <1>5, JoinsExist
<1>7. Sending(frames) = f[n]
  BY <1>3, <1>5, <1>6, FlattenJoins, Zenon
<1>8. /\ f \in [0..n -> Seq(Laden)] /\ f[0] = <<>>
      /\ \A i \in 1..n : f[i] = f[i - 1] \o ss[i]
  BY <1>5, <1>6, Zenon DEF Joins
<1>9. \A i \in 0..n : f[i] \in Seq(Laden) /\ f[i] \in Seq(Frame)
  <2>1. \A i \in 0..n : f[i] \in Seq(Laden)
    BY <1>8
  <2>2. \A s \in Seq(Laden) : s \in Seq(Frame)
    BY DEF Laden
  <2> QED
    BY <2>1, <2>2
<1>10. PICK t : Traces(t, K, NoneOpen, frames, Accs) /\ Lines(frames) = Flushed(t[n])
  BY LinesTrace DEF n
<1>11. /\ t \in [0..n -> Accs] /\ t[0] = NoneOpen
       /\ \A i \in 1..n : t[i] = K[<<t[i - 1], frames[i]>>]
  BY <1>10, Zenon DEF Traces, n
<1>12. \A a \in Accs, b \in Frame : K[<<a, b>>] = TakeFrame(a, b)
  BY ReadingIs
<1> HIDE DEF K
<1> DEFINE Ends_at(s, a) == \A u : Traces(u, K, NoneOpen, s, Accs) => u[Len(s)] = a
           F == {i \in Nat : i <= n => Ends_at(f[i], t[i])}
<1>13. 0 \in F
  <2>1. \A u : Traces(u, K, NoneOpen, f[0], Accs) => u[0] = NoneOpen
    BY Zenon DEF Traces
  <2>2. Len(f[0]) = 0
    BY <1>8
  <2> QED
    BY <1>11, <2>1, <2>2
<1>14. ASSUME NEW i \in Nat, i \in F PROVE i + 1 \in F
  <2> SUFFICES ASSUME i + 1 <= n, NEW u, Traces(u, K, NoneOpen, f[i + 1], Accs)
               PROVE  u[Len(f[i + 1])] = t[i + 1]
    OBVIOUS
  <2> DEFINE m == i + 1
             b == frames[m]
             a == f[i]
  <2>1. m \in 1..n /\ m - 1 = i /\ i \in 0..n /\ i <= n
    BY <1>1
  <2>2. Traces(u, K, NoneOpen, f[m], Accs)
    OBVIOUS
  <2>3. \A w : Traces(w, K, NoneOpen, a, Accs) => w[Len(a)] = t[i]
    BY <1>14, <2>1
  <2> HIDE DEF m
  <2>4. /\ a \in Seq(Laden) /\ a \in Seq(Frame) /\ b \in Frame /\ t[i] \in Accs
        /\ f[m] = a \o ss[m]
    BY <1>1, <1>8, <1>9, <1>11, <2>1
  <2>5. t[m] = TakeFrame(t[i], b)
    <3>1. t[m] = K[<<t[i], b>>]
      BY <1>11, <2>1
    <3> QED
      BY <1>12, <2>4, <3>1
  <2>6. CASE Payload(b) = <<>>
    <3>1. ss[m] = <<>>
      BY <1>2, <2>1, <2>6
    <3>2. f[m] = a
      BY <2>4, <3>1, ConcatNothing
    <3>3. t[m] = t[i]
      BY <2>4, <2>5, <2>6, TakesNothing
    <3> HIDE DEF a
    <3> QED
      BY <2>2, <2>3, <3>2, <3>3 DEF m
  <2>7. CASE Payload(b) # <<>>
    <3>1. ss[m] = <<b>>
      BY <1>2, <2>1, <2>7
    <3> HIDE DEF a, b
    <3>2. f[m] = Append(a, b)
      BY <2>4, <3>1
    <3>3. PICK w : Traces(w, K, NoneOpen, a, Accs)
      BY <2>4, LinesTrace DEF K
    <3>4. w[Len(a)] = t[i]
      BY <2>3, <3>3
    <3>5. u[Len(Append(a, b))] = K[<<w[Len(a)], b>>]
      BY <2>2, <2>4, <3>2, <3>3, TraceAppend
    <3>6. u[Len(f[m])] = TakeFrame(t[i], b)
      BY <1>12, <2>4, <3>2, <3>4, <3>5
    <3> QED
      BY <2>5, <3>6 DEF m
  <2> QED
    BY <2>6, <2>7
<1> HIDE DEF F, Ends_at
<1>15. n \in F
  BY <1>1, <1>13, <1>14, NatInduct
<1>16. \A u : Traces(u, K, NoneOpen, f[n], Accs) => u[Len(f[n])] = t[n]
  BY <1>1, <1>15 DEF F, Ends_at
<1>17. f[n] \in Seq(Laden) /\ f[n] \in Seq(Frame)
  BY <1>1, <1>9
<1>18. PICK u : Traces(u, K, NoneOpen, f[n], Accs) /\ Lines(f[n]) = Flushed(u[Len(f[n])])
  BY <1>17, LinesTrace DEF K
<1> QED
  BY <1>7, <1>10, <1>16, <1>17, <1>18

-----------------------------------------------------------------------------
\* The frames as LogReader has them, and where their bytes lie.

Shapes(frames) == [i \in DOMAIN frames |-> Shape(frames[i])]

EndsIn(o, all, i) == {k \in Ends(all) : o[i - 1] < k /\ k <= o[i]}

Lies(o, all, log, i) ==
    /\ i - 1 \in 0..Len(log) /\ i \in 0..Len(log) /\ o[i - 1] < o[i] /\ o[i] \in DOMAIN all
    /\ log[i].stream \in Byte /\ log[i].event = "text"
    /\ log[i].ends = Cardinality(EndsIn(o, all, i))
    /\ log[i].rest <=> o[i] \notin Ends(all)
    /\ \A k \in DOMAIN all : o[i - 1] < k /\ k <= o[i] =>
          all[k].frame = i /\ all[k].stream = log[i].stream

Lay(o, all, log) ==
    /\ all \in Seq(Chars) /\ Len(log) \in Nat /\ DOMAIN log = 1..Len(log)
    /\ o[0] = 0 /\ o[Len(log)] = Len(all)
    /\ \A i \in 0..Len(log) : o[i] \in Nat /\ o[i] <= Len(all)
    /\ \A i, j \in 0..Len(log) : i <= j => o[i] <= o[j]
    /\ \A i \in 1..Len(log) : Lies(o, all, log, i)
    /\ \A k \in DOMAIN all : /\ all[k].frame \in 1..Len(log)
                             /\ o[all[k].frame - 1] < k /\ k <= o[all[k].frame]

\* A frame's bytes lie between the ends of two frames, and its shape tells
\* how many lines end among them and whether the last of them ends one.
LEMMA FrameLies ==
    ASSUME NEW o, NEW frames \in Seq(Laden), NEW all, Spread(o, frames, all),
           NEW i \in 1..Len(frames)
    PROVE  Lies(o, all, Shapes(frames), i)
<1> DEFINE n == Len(frames)
           log == Shapes(frames)
           b == frames[i]
           x == Payload(b)
           m == Len(x)
           p == o[i - 1]
           A == {k \in DOMAIN x : x[k] = LineEnd}
           E == EndsIn(o, all, i)
<1>1. /\ n \in Nat /\ Len(all) \in Nat /\ DOMAIN all = 1..Len(all)
      /\ i - 1 \in 0..n /\ i \in 0..n /\ b \in Frame /\ m \in Nat /\ x \in Seq(Byte)
      /\ p \in Nat /\ o[i] \in Nat /\ o[i] = p + m /\ o[i] <= Len(all)
      /\ \A k \in 1..m : all[p + k] = CharOf(i, b, k)
  <2>1. i - 1 \in 0..n /\ i \in 0..n
    BY SpreadIs
  <2> QED
    BY <2>1, SpreadIs
<1>2. b \in Laden /\ x # <<>> /\ DOMAIN x = 1..m
  <2>1. b \in Laden
    OBVIOUS
  <2> QED
    BY <1>1, <2>1 DEF Laden
<1>3. m > 0
  <2> HIDE DEF x
  <2> QED
    BY <1>1, <1>2
<1>4. /\ log[i].stream = StreamOf(b) /\ log[i].event = "text" /\ log[i].ends = Cardinality(A)
      /\ log[i].rest <=> x # <<>> /\ Last(x) # LineEnd
  <2>1. i \in DOMAIN frames
    OBVIOUS
  <2>2. log[i] = Shape(b)
    BY <2>1 DEF Shapes
  <2>3. Shape(b) = [stream |-> StreamOf(b), ends |-> Cardinality(A),
                    rest |-> x # <<>> /\ Last(x) # LineEnd, event |-> "text"]
    BY DEF Shape
  <2> DEFINE l == log[i]
             r == x # <<>> /\ Last(x) # LineEnd
  <2>4. l = [stream |-> StreamOf(b), ends |-> Cardinality(A), rest |-> r, event |-> "text"]
    BY <2>2, <2>3
  <2> HIDE DEF l, r, b, A
  <2>5. l.stream = StreamOf(b) /\ l.event = "text" /\ l.ends = Cardinality(A) /\ l.rest = r
    BY <2>4
  <2> QED
    BY <2>5 DEF l, r
<1>5. Len(log) = n /\ DOMAIN log = 1..n
  BY <1>1 DEF Shapes
<1>6. StreamOf(b) \in Byte
  BY <1>1, PayloadIs
<1> HIDE DEF log, n
<1>7. \A k \in DOMAIN all : p < k /\ k <= o[i] =>
         k - p \in 1..m /\ p + (k - p) = k /\ all[k] = CharOf(i, b, k - p)
  <2> SUFFICES ASSUME NEW k \in DOMAIN all, p < k, k <= o[i]
               PROVE  k - p \in 1..m /\ p + (k - p) = k /\ all[k] = CharOf(i, b, k - p)
    OBVIOUS
  <2> DEFINE q == k - p
  <2>1. q \in 1..m /\ p + q = k
    BY <1>1
  <2> HIDE DEF q
  <2>2. all[p + q] = CharOf(i, b, q)
    BY <1>1, <2>1
  <2> QED
    BY <2>1, <2>2 DEF q
<1>8. \A k \in DOMAIN all : p < k /\ k <= o[i] => all[k].frame = i /\ all[k].stream = StreamOf(b)
  BY <1>7 DEF CharOf
\* The line ends in the payload, and those of the bytes in it.
<1>9. \A k \in 1..m : /\ p + k \in DOMAIN all /\ p < p + k /\ p + k <= o[i]
                      /\ k \in A <=> p + k \in E
  <2> SUFFICES ASSUME NEW k \in 1..m
               PROVE  /\ p + k \in DOMAIN all /\ p < p + k /\ p + k <= o[i]
                      /\ k \in A <=> p + k \in E
    OBVIOUS
  <2>1. p + k \in DOMAIN all /\ p < p + k /\ p + k <= o[i]
    BY <1>1
  <2>2. all[p + k].byte = x[k]
    <3>1. all[p + k] = CharOf(i, b, k)
      BY <1>1
    <3> HIDE DEF p, b, m
    <3> QED
      BY <3>1 DEF CharOf
  <2>3. p + k \in E <=> x[k] = LineEnd
    BY <2>1, <2>2 DEF EndsIn, Ends
  <2> QED
    BY <1>2, <2>1, <2>3
<1>10. A \subseteq 1..m /\ IsFiniteSet(A)
  <2>1. A \in SUBSET (1..m) /\ IsFiniteSet(1..m)
    BY <1>1, <1>2, FS_Interval
  <2> QED
    BY <2>1, FS_Subset
<1>11. \A k \in E : k \in DOMAIN all /\ p < k /\ k <= o[i]
  BY DEF EndsIn, Ends
<1> HIDE DEF A, E
<1>12. Cardinality(E) = Cardinality(A)
  <2> DEFINE f == [k \in A |-> p + k]
  <2>1. \A k \in A : f[k] \in E
    BY <1>9, <1>10
  <2>2. \A k, l \in A : f[k] = f[l] => k = l
    BY <1>1, <1>10
  <2>3. \A k \in E : \E l \in A : f[l] = k
    <3> SUFFICES ASSUME NEW k \in E PROVE \E l \in A : p + l = k
      OBVIOUS
    <3>1. k - p \in 1..m /\ p + (k - p) = k
      BY <1>7, <1>11
    <3>2. k - p \in A
      BY <1>9, <3>1
    <3> QED
      BY <3>1, <3>2
  <2>4. Pairs(f, A, E)
    <3> HIDE DEF f
    <3> QED
      BY <2>1, <2>2, <2>3 DEF Pairs
  <2> QED
    BY <1>10, <2>4, SameSize
<1>13. log[i].rest <=> o[i] \notin Ends(all)
  <2>1. m \in 1..m /\ o[i] = p + m /\ o[i] \in DOMAIN all
    BY <1>1, <1>3
  <2>2. all[o[i]].byte = x[m]
    <3>1. all[p + m] = CharOf(i, b, m)
      BY <1>1, <2>1
    <3> HIDE DEF p, b, m
    <3> QED
      BY <2>1, <3>1 DEF CharOf
  <2>3. Last(x) = x[m]
    BY DEF Last
  <2> QED
    BY <1>2, <1>4, <2>1, <2>2, <2>3 DEF Ends
<1>14. p < o[i] /\ o[i] \in DOMAIN all
  BY <1>1, <1>3
<1> QED
  BY <1>1, <1>4, <1>5, <1>6, <1>8, <1>12, <1>13, <1>14 DEF Lies, E, log

\* So do those of all the frames.
LEMMA FramesLay ==
    ASSUME NEW o, NEW frames \in Seq(Laden), NEW all, Spread(o, frames, all)
    PROVE  Lay(o, all, Shapes(frames)) /\ Len(Shapes(frames)) = Len(frames)
<1> DEFINE n == Len(frames)
           log == Shapes(frames)
<1>1. /\ n \in Nat /\ all \in Seq(Chars) /\ Len(all) \in Nat /\ DOMAIN all = 1..Len(all)
      /\ \A j \in 0..n : o[j] \in Nat /\ o[j] <= Len(all)
      /\ \A i, j \in 0..n : i <= j => o[i] <= o[j]
      /\ o[0] = 0 /\ o[n] = Len(all)
  <2>1. all \in Seq(Chars)
    BY DEF Spread
  <2> QED
    BY <2>1, SpreadIs
<1>2. Len(log) = n /\ DOMAIN log = 1..n
  BY <1>1 DEF Shapes
<1>3. \A i \in 1..n : Lies(o, all, log, i)
  BY FrameLies
<1> HIDE DEF n, log
\* The frame of a byte.
<1> DEFINE F == {j \in Nat : j <= n => \A k \in DOMAIN all : k <= o[j] =>
                   \E i \in 1..n : o[i - 1] < k /\ k <= o[i]}
<1>4. 0 \in F
  BY <1>1
<1>5. ASSUME NEW j \in Nat, j \in F PROVE j + 1 \in F
  <2> SUFFICES ASSUME j + 1 <= n, NEW k \in DOMAIN all, k <= o[j + 1]
               PROVE  \E i \in 1..n : o[i - 1] < k /\ k <= o[i]
    OBVIOUS
  <2>1. j + 1 \in 1..n /\ (j + 1) - 1 = j /\ j \in 0..n /\ j <= n
    BY <1>1
  <2>2. CASE k <= o[j]
    BY <1>5, <2>1, <2>2
  <2>3. CASE ~(k <= o[j])
    <3>1. o[j] < k
      BY <1>1, <2>1, <2>3
    <3> QED
      BY <2>1, <3>1
  <2> QED
    BY <2>2, <2>3
<1> HIDE DEF F
<1>6. n \in F
  BY <1>1, <1>4, <1>5, NatInduct
<1>7. ASSUME NEW k \in DOMAIN all
      PROVE  /\ all[k].frame \in 1..n
             /\ o[all[k].frame - 1] < k /\ k <= o[all[k].frame]
  <2>1. PICK i \in 1..n : o[i - 1] < k /\ k <= o[i]
    BY <1>1, <1>6 DEF F
  <2>2. all[k].frame = i
    BY <1>3, <2>1 DEF Lies
  <2> QED
    BY <2>1, <2>2
<1> QED
  BY <1>1, <1>2, <1>3, <1>7 DEF Lay, n, log

-----------------------------------------------------------------------------
\* The numbers of LogReader's lines, in the bytes.

\* LogReader has the operators of the same modules.
LEMMA ReaderSums ==
    ASSUME NEW f, NEW S
    PROVE  Reader!SumFunctionOnSet(f, S) = SumFunctionOnSet(f, S)
  BY Zenon DEF Reader!SumFunctionOnSet, Reader!FoldFunctionOnSet, Reader!MapThenFoldSet,
               SumFunctionOnSet, FoldFunctionOnSet, MapThenFoldSet

LEMMA ReaderFlattens ==
    ASSUME NEW ss
    PROVE  Reader!FlattenSeq(ss) = FlattenSeq(ss)
  BY Zenon DEF Reader!FlattenSeq, FlattenSeq

LEMMA ReaderCounts ==
    ASSUME NEW S
    PROVE  Reader!Cardinality(S) = Cardinality(S)
  BY Zenon DEF Reader!Cardinality, Cardinality

\* The ends of a stream in what is before the i-th frame.
EndsBefore(o, all, log, i) == {l \in Ends(all) \cap Of(all, log[i].stream) : l <= o[i - 1]}

\* What the ends of the frames say of the bytes.
LEMMA LayIs ==
    ASSUME NEW o, NEW all, NEW log, Lay(o, all, log), NEW i \in 1..Len(log)
    PROVE  /\ all \in Seq(Chars) /\ Len(log) \in Nat /\ DOMAIN log = 1..Len(log) /\ i \in Nat
           /\ Lies(o, all, log, i) /\ i - 1 \in 0..Len(log) /\ i \in 0..Len(log)
           /\ o[i - 1] \in Nat /\ o[i] \in Nat /\ o[i - 1] < o[i] /\ o[i] \in DOMAIN all
           /\ o[i] <= Len(all)
           /\ log[i].stream \in Byte
           /\ \A j \in 1..Len(log) : /\ j < i => o[j] <= o[i - 1]
                                     /\ i < j => o[i] <= o[j - 1]
           /\ \A k \in DOMAIN all : o[i - 1] < k /\ k <= o[i] <=> all[k].frame = i
           /\ \A k \in DOMAIN all : all[k].frame = i => all[k].stream = log[i].stream
           /\ \A k \in DOMAIN all : all[k].frame \in 1..Len(log)
           /\ \A k \in DOMAIN all : k <= o[i - 1] <=> all[k].frame < i
           /\ all[o[i]].frame = i
<1>1. /\ all \in Seq(Chars) /\ Len(log) \in Nat /\ DOMAIN log = 1..Len(log)
      /\ \A j \in 0..Len(log) : o[j] \in Nat /\ o[j] <= Len(all)
      /\ \A j, m \in 0..Len(log) : j <= m => o[j] <= o[m]
      /\ \A k \in DOMAIN all : /\ all[k].frame \in 1..Len(log)
                               /\ o[all[k].frame - 1] < k /\ k <= o[all[k].frame]
      /\ Lies(o, all, log, i)
  BY DEF Lay
<1>2. /\ i - 1 \in 0..Len(log) /\ i \in 0..Len(log) /\ o[i - 1] < o[i] /\ o[i] \in DOMAIN all
      /\ log[i].stream \in Byte
      /\ \A k \in DOMAIN all : o[i - 1] < k /\ k <= o[i] =>
            all[k].frame = i /\ all[k].stream = log[i].stream
  BY <1>1 DEF Lies
<1>3. \A k \in DOMAIN all : o[i - 1] < k /\ k <= o[i] <=> all[k].frame = i
  BY <1>1, <1>2
<1>4. o[i - 1] \in Nat /\ o[i] \in Nat /\ o[i] <= Len(all)
  BY <1>1, <1>2
<1>5. \A j \in 1..Len(log) : /\ j < i => o[j] <= o[i - 1]
                             /\ i < j => o[i] <= o[j - 1]
  <2> SUFFICES ASSUME NEW j \in 1..Len(log)
               PROVE  /\ j < i => o[j] <= o[i - 1]
                      /\ i < j => o[i] <= o[j - 1]
    OBVIOUS
  <2>1. j \in 0..Len(log) /\ j - 1 \in 0..Len(log)
    BY <1>1
  <2>2. (j < i => j <= i - 1) /\ (i < j => i <= j - 1)
    BY <1>1
  <2> QED
    BY <1>1, <1>2, <2>1, <2>2
<1>6. \A k \in DOMAIN all : k <= o[i - 1] <=> all[k].frame < i
  <2> SUFFICES ASSUME NEW k \in DOMAIN all PROVE k <= o[i - 1] <=> all[k].frame < i
    OBVIOUS
  <2> DEFINE j == all[k].frame
             a == o[i - 1]
             b == o[j - 1]
             c == o[j]
  <2>1. /\ j \in 1..Len(log) /\ j - 1 \in 0..Len(log) /\ j \in 0..Len(log)
        /\ b < k /\ k <= c /\ k \in Nat
    BY <1>1
  <2>2. a \in Nat /\ b \in Nat /\ c \in Nat
    BY <1>1, <1>4, <2>1
  <2>3. j < i => c <= a
    BY <1>5, <2>1
  <2>4. ~(j < i) => a <= b
    <3>1. ~(j < i) => i - 1 <= j - 1
      BY <2>1
    <3> QED
      BY <1>1, <1>2, <2>1, <3>1
  <2> HIDE DEF a, b, c, j
  <2>5. k <= a <=> j < i
    BY <2>1, <2>2, <2>3, <2>4
  <2> QED
    BY <2>5 DEF a, j
<1>7. all[o[i]].frame = i
  BY <1>2, <1>3, <1>4
<1> QED
  BY <1>1, <1>2, <1>3, <1>4, <1>5, <1>6, <1>7

\* The frames before the i-th on its stream are finitely many.
LEMMA EarlierIs ==
    ASSUME NEW log, NEW i \in Nat
    PROVE  /\ Reader!Earlier(log, i) = {j \in 1..(i - 1) : log[j].stream = log[i].stream}
           /\ IsFiniteSet(Reader!Earlier(log, i))
<1>1. IsFiniteSet(1..(i - 1)) /\ Reader!Earlier(log, i) \subseteq 1..(i - 1)
  BY FS_Interval DEF Reader!Earlier
<1>2. Reader!Earlier(log, i) = {j \in 1..(i - 1) : log[j].stream = log[i].stream}
  BY DEF Reader!Earlier
<1> QED
  BY <1>1, <1>2, FS_Subset

\* The line ends that LogReader adds up are those of the bytes.
LEMMA EndedIs ==
    ASSUME NEW o, NEW all, NEW log, Lay(o, all, log), NEW i \in 1..Len(log)
    PROVE  /\ Reader!Ended(log, i) = Cardinality(EndsBefore(o, all, log, i))
           /\ IsFiniteSet(EndsBefore(o, all, log, i))
<1> DEFINE S == Reader!Earlier(log, i)
           U == EndsBefore(o, all, log, i)
           s == log[i].stream
           f == [j \in DOMAIN log |-> log[j].ends]
           g == [l \in DOMAIN all |-> all[l].frame]
<1>1. /\ all \in Seq(Chars) /\ Len(log) \in Nat /\ DOMAIN log = 1..Len(log) /\ i \in Nat
      /\ \A k \in DOMAIN all : k <= o[i - 1] <=> all[k].frame < i
      /\ \A k \in DOMAIN all : all[k].frame \in 1..Len(log)
  BY LayIs
<1>2. S = {j \in 1..(i - 1) : log[j].stream = s} /\ IsFiniteSet(S)
  BY <1>1, EarlierIs
<1>3. /\ U \in SUBSET DOMAIN all
      /\ \A l \in DOMAIN all : l \in U <=> l \in Ends(all) /\ all[l].stream = s /\ l <= o[i - 1]
  BY DEF EndsBefore, Ends, Of
<1>4. IsFiniteSet(U)
  BY <1>1, <1>3, SetsIn
<1>5. \A j \in 1..Len(log) : /\ \A k \in DOMAIN all : o[j - 1] < k /\ k <= o[j] <=> all[k].frame = j
                             /\ \A k \in DOMAIN all : all[k].frame = j => all[k].stream = log[j].stream
                             /\ log[j].ends = Cardinality(EndsIn(o, all, j))
  BY LayIs DEF Lies
<1> HIDE DEF S, U, s
<1>6. \A l \in U : g[l] \in S
  <2> SUFFICES ASSUME NEW l \in U PROVE all[l].frame \in S
    BY <1>3
  <2>1. l \in DOMAIN all /\ all[l].stream = s /\ l <= o[i - 1]
    BY <1>3
  <2>2. all[l].frame \in 1..Len(log) /\ all[l].frame < i
    BY <1>1, <2>1
  <2>3. log[all[l].frame].stream = s
    BY <1>5, <2>1, <2>2
  <2> DEFINE j == all[l].frame
  <2> HIDE DEF j
  <2>4. j \in 1..(i - 1)
    BY <1>1, <2>2 DEF j
  <2> QED
    BY <1>2, <2>3, <2>4 DEF j
<1>7. \A j \in S : f[j] = Cardinality({l \in U : g[l] = j})
  <2> SUFFICES ASSUME NEW j \in S PROVE f[j] = Cardinality({l \in U : g[l] = j})
    OBVIOUS
  <2>1. j \in 1..Len(log) /\ j < i /\ log[j].stream = s
    BY <1>1, <1>2
  <2>2. f[j] = Cardinality(EndsIn(o, all, j))
    BY <1>1, <1>5, <2>1
  <2>3. {l \in U : g[l] = j} = EndsIn(o, all, j)
    <3>1. \A l \in DOMAIN all : l \in U /\ g[l] = j <=> l \in EndsIn(o, all, j)
      <4> SUFFICES ASSUME NEW l \in DOMAIN all
                   PROVE  l \in U /\ g[l] = j <=> l \in EndsIn(o, all, j)
        OBVIOUS
      <4>1. g[l] = all[l].frame
        OBVIOUS
      <4>2. l \in EndsIn(o, all, j) <=> l \in Ends(all) /\ all[l].frame = j
        BY <1>5, <2>1 DEF EndsIn
      <4>3. all[l].frame = j => all[l].stream = s /\ l <= o[i - 1]
        BY <1>1, <1>5, <2>1
      <4> HIDE DEF g
      <4> QED
        BY <1>3, <4>1, <4>2, <4>3
    <3>2. EndsIn(o, all, j) \subseteq DOMAIN all
      BY DEF EndsIn, Ends
    <3> HIDE DEF g
    <3> QED
      BY <1>3, <3>1, <3>2
  <2> HIDE DEF f, g
  <2> QED
    BY <2>2, <2>3
<1> HIDE DEF f, g
<1>8. Cardinality(U) = SumFunctionOnSet(f, S)
  <2>1. Counts(f, g, U, S)
    BY <1>2, <1>4, <1>6, <1>7, Zenon DEF Counts
  <2> QED
    BY <2>1, CountBySum
<1>9. Reader!Ended(log, i) = SumFunctionOnSet(f, S)
  BY ReaderSums, Zenon DEF Reader!Ended, f, S
<1> QED
  BY <1>4, <1>8, <1>9 DEF U

\* A byte is open if no end of its stream comes after it.
LEMMA OpenHas ==
    ASSUME NEW all \in Seq(Chars), NEW n \in Nat, NEW s, NEW l \in DOMAIN all
    PROVE  l \in OpenAt(all, n, s) <=>
             /\ all[l].stream = s /\ l <= n
             /\ \A e \in Ends(all) : all[e].stream = s /\ l <= e => ~(e <= n)
<1>1. l \in Nat /\ \A e \in Ends(all) : e \in Nat /\ e \in DOMAIN all
  BY SetsIn DEF Ends
<1>2. \A e \in Ends(all) : e \in l..n <=> l <= e /\ e <= n
  BY <1>1
<1>3. l \in Of(all, s) <=> all[l].stream = s
  BY DEF Of
<1>4. \A e \in Ends(all) : e \in Of(all, s) <=> all[e].stream = s
  BY <1>1 DEF Of
<1>5. Ends(all) \cap Of(all, s) \cap l..n = {}
        <=> \A e \in Ends(all) : all[e].stream = s /\ l <= e => ~(e <= n)
  BY <1>2, <1>4
<1> QED
  BY <1>3, <1>5 DEF OpenAt

\* The frames whose bytes are in the line that goes on.
LEMMA OpenedIs ==
    ASSUME NEW o, NEW all, NEW log, Lay(o, all, log), NEW i \in 1..Len(log)
    PROVE  /\ \A j : j \in Reader!Opened(log, i) <=>
                       \E l \in OpenAt(all, o[i - 1], log[i].stream) : all[l].frame = j
           /\ IsFiniteSet(Reader!Opened(log, i)) /\ i \notin Reader!Opened(log, i)
<1> DEFINE E == Reader!Earlier(log, i)
           s == log[i].stream
           p == o[i - 1]
           S == OpenAt(all, p, s)
<1>1. /\ all \in Seq(Chars) /\ Len(log) \in Nat /\ DOMAIN log = 1..Len(log) /\ i \in Nat
      /\ p \in Nat
      /\ \A k \in DOMAIN all : k <= p <=> all[k].frame < i
      /\ \A k \in DOMAIN all : all[k].frame \in 1..Len(log)
  BY LayIs
<1>2. E = {j \in 1..(i - 1) : log[j].stream = s} /\ IsFiniteSet(E)
  BY <1>1, EarlierIs
<1>3. \A l \in DOMAIN all : l \in S <=>
        all[l].stream = s /\ l <= p /\ \A e \in Ends(all) : all[e].stream = s /\ l <= e => ~(e <= p)
  BY <1>1, OpenHas
<1>4. S \subseteq DOMAIN all /\ Ends(all) \subseteq DOMAIN all /\ \A k \in DOMAIN all : k \in Nat
  BY <1>1, SetsIn
<1>5. \A j \in 1..Len(log) :
         /\ \A k \in DOMAIN all : o[j - 1] < k /\ k <= o[j] <=> all[k].frame = j
         /\ \A k \in DOMAIN all : all[k].frame = j => all[k].stream = log[j].stream
         /\ \A k \in DOMAIN all : k <= o[j - 1] <=> all[k].frame < j
         /\ o[j] \in DOMAIN all /\ all[o[j]].frame = j
         /\ log[j].rest <=> o[j] \notin Ends(all)
         /\ log[j].ends = Cardinality(EndsIn(o, all, j))
  BY LayIs DEF Lies
<1>6. \A j \in 1..Len(log) :
         log[j].ends = 0 <=> \A e \in Ends(all) : all[e].frame # j
  <2> SUFFICES ASSUME NEW j \in 1..Len(log)
               PROVE  log[j].ends = 0 <=> \A e \in Ends(all) : all[e].frame # j
    OBVIOUS
  <2>1. EndsIn(o, all, j) \in SUBSET DOMAIN all
    BY DEF EndsIn, Ends
  <2>2. IsFiniteSet(EndsIn(o, all, j))
    BY <1>1, <2>1, SetsIn
  <2>3. log[j].ends = 0 <=> EndsIn(o, all, j) = {}
    BY <1>5, <2>2, FS_EmptySet
  <2>4. \A e \in Ends(all) : e \in EndsIn(o, all, j) <=> all[e].frame = j
    BY <1>4, <1>5 DEF EndsIn
  <2>5. EndsIn(o, all, j) \subseteq Ends(all)
    BY DEF EndsIn
  <2> QED
    BY <2>3, <2>4, <2>5
<1>7. \A j : j \in Reader!Opened(log, i) <=>
               j \in E /\ log[j].rest /\ \A k \in E : k > j => log[k].ends = 0
  BY DEF Reader!Opened
<1>8. \A j \in E : j \in 1..Len(log) /\ j < i /\ j \in Nat /\ log[j].stream = s
  BY <1>1, <1>2
<1>14. \A j \in 1..Len(log) : j < i /\ log[j].stream = s => j \in E
  BY <1>1, <1>2
\* Of two bytes the later one is in no earlier frame.
<1>9. \A k, l \in DOMAIN all : k <= l => all[k].frame <= all[l].frame
  <2> SUFFICES ASSUME NEW k \in DOMAIN all, NEW l \in DOMAIN all, k <= l,
                      all[l].frame < all[k].frame
               PROVE  FALSE
    BY <1>1
  <2> DEFINE j == all[k].frame
  <2>1. j \in 1..Len(log) /\ o[j - 1] < k /\ l <= o[j - 1]
    BY <1>1, <1>5
  <2>2. o[j - 1] \in Nat
    BY <2>1, LayIs
  <2> HIDE DEF j
  <2> QED
    BY <1>4, <2>1, <2>2
<1> HIDE DEF E, S, s, p
<1>10. ASSUME NEW l \in S PROVE all[l].frame \in Reader!Opened(log, i)
  <2> DEFINE j == all[l].frame
  <2>1. /\ l \in DOMAIN all /\ l \in Nat /\ all[l].stream = s /\ l <= p
        /\ \A e \in Ends(all) : all[e].stream = s /\ l <= e => ~(e <= p)
    BY <1>3, <1>4
  <2>2. j \in 1..Len(log) /\ j < i /\ log[j].stream = s
    BY <1>1, <1>5, <2>1
  <2>3. j \in E
    BY <1>14, <2>2
  <2>4. l <= o[j] /\ o[j] <= p /\ o[j] \in DOMAIN all /\ all[o[j]].stream = s
    <3>1. o[j] \in DOMAIN all /\ all[o[j]].frame = j
      BY <1>5, <2>2
    <3>2. all[o[j]].stream = s /\ o[j] <= p
      BY <1>1, <1>5, <2>2, <3>1
    <3>3. o[j - 1] < l /\ l <= o[j]
      BY <1>5, <2>1, <2>2
    <3> QED
      BY <3>1, <3>2, <3>3
  <2>5. log[j].rest
    BY <1>5, <2>1, <2>2, <2>4
  <2>6. ASSUME NEW k \in E, k > j PROVE log[k].ends = 0
    <3>1. SUFFICES ASSUME NEW e \in Ends(all), all[e].frame = k PROVE FALSE
      BY <1>6, <1>8
    <3>2. k \in 1..Len(log) /\ k < i /\ log[k].stream = s
      BY <1>8
    <3>3. e \in DOMAIN all /\ all[e].stream = s /\ e <= p
      BY <1>1, <1>4, <1>5, <3>1, <3>2
    <3>4. l <= e
      <4>1. ~(e <= l)
        BY <1>1, <1>9, <2>1, <2>2, <2>6, <3>1, <3>2, <3>3
      <4> QED
        BY <1>4, <2>1, <3>3, <4>1
    <3> QED
      BY <2>1, <3>3, <3>4
  <2> HIDE DEF j
  <2>7. j \in Reader!Opened(log, i)
    BY <1>7, <2>3, <2>5, <2>6
  <2> QED
    BY <2>7 DEF j
<1>11. ASSUME NEW j \in Reader!Opened(log, i) PROVE \E l \in S : all[l].frame = j
  <2>1. /\ j \in E /\ log[j].rest /\ \A k \in E : k > j => log[k].ends = 0
        /\ j \in 1..Len(log) /\ j < i /\ log[j].stream = s
    BY <1>7, <1>8
  <2> DEFINE l == o[j]
  <2>2. l \in DOMAIN all /\ all[l].frame = j /\ all[l].stream = s /\ l <= p /\ l \notin Ends(all)
    BY <1>1, <1>5, <2>1
  <2> HIDE DEF l
  <2>3. ASSUME NEW e \in Ends(all), all[e].stream = s, l <= e, e <= p PROVE FALSE
    <3> DEFINE k == all[e].frame
    <3>1. e \in DOMAIN all /\ k \in 1..Len(log) /\ k < i
      BY <1>1, <1>4, <2>3
    <3>2. j <= k
      BY <1>9, <2>2, <2>3, <3>1
    <3>3. k # j
      <4>1. k = j => e <= l
        BY <1>5, <2>1, <3>1 DEF l
      <4>2. e # l
        BY <2>2
      <4>3. k = j => e = l
        BY <1>4, <2>2, <2>3, <3>1, <4>1
      <4> QED
        BY <4>2, <4>3
    <3>4. log[k].stream = s
      BY <1>5, <2>3, <3>1
    <3>5. k \in E
      BY <1>14, <3>1, <3>4
    <3>6. k > j
      BY <2>1, <3>1, <3>2, <3>3
    <3>7. log[k].ends = 0
      BY <2>1, <3>5, <3>6
    <3> QED
      BY <1>6, <3>1, <3>7
  <2>4. l \in S
    BY <1>3, <2>2, <2>3
  <2> QED
    BY <2>2, <2>4
<1>12. IsFiniteSet(Reader!Opened(log, i))
  <2>1. Reader!Opened(log, i) \in SUBSET E
    BY <1>7
  <2> QED
    BY <1>2, <2>1, FS_Subset
<1>13. i \notin Reader!Opened(log, i)
  BY <1>1, <1>7, <1>8
<1> QED
  BY <1>10, <1>11, <1>12, <1>13 DEF S, p, s

\* The line of a byte, from the frame of the byte.
LEMMA LineAt ==
    ASSUME NEW o, NEW all, NEW log, Lay(o, all, log), NEW i \in 1..Len(log),
           NEW k \in DOMAIN all, all[k].frame = i
    PROVE  /\ LineTo(all, k).stream = log[i].stream
           /\ LineTo(all, k).number =
                 Reader!Ended(log, i) + Cardinality(Below(EndsIn(o, all, i), k)) + 1
           /\ LineTo(all, k).pieces =
                 IF Below(EndsIn(o, all, i), k) = {} THEN Cardinality(Reader!Opened(log, i)) + 1 ELSE 1
           /\ LineTo(all, k).whole = (k \in Ends(all))
           /\ Reader!Ended(log, i) \in Nat /\ Cardinality(Reader!Opened(log, i)) \in Nat
<1> DEFINE s == log[i].stream
           p == o[i - 1]
           B == Below(EndsIn(o, all, i), k)
           A == EndsBefore(o, all, log, i)
           P == Reader!Opened(log, i)
           S == OpenAt(all, p, s)
           T == Text(all, k)
           n == k - 1
           R == OpenAt(all, n, s)
<1>1. /\ all \in Seq(Chars) /\ i \in Nat /\ p \in Nat /\ p < k /\ k <= o[i] /\ o[i] \in Nat
      /\ all[k].stream = s
      /\ \A l \in DOMAIN all : p < l /\ l <= o[i] <=> all[l].frame = i
      /\ \A l \in DOMAIN all : all[l].frame = i => all[l].stream = s
  <2>1. /\ all \in Seq(Chars) /\ i \in Nat /\ p \in Nat /\ o[i] \in Nat
        /\ \A l \in DOMAIN all : p < l /\ l <= o[i] <=> all[l].frame = i
        /\ \A l \in DOMAIN all : all[l].frame = i => all[l].stream = s
    BY LayIs
  <2> QED
    BY <2>1
<1>2. /\ \A l \in DOMAIN all : l \in Nat /\ l > 0
      /\ Ends(all) \subseteq DOMAIN all /\ EndsIn(o, all, i) \in SUBSET DOMAIN all
      /\ IsFiniteSet(EndsIn(o, all, i))
  <2>1. EndsIn(o, all, i) \in SUBSET DOMAIN all
    BY DEF EndsIn, Ends
  <2> QED
    BY <1>1, <2>1, SetsIn DEF Ends
<1>3. n \in Nat /\ n + 1 = k /\ n < k /\ p <= n /\ \A l \in Nat : l <= n <=> l < k
  BY <1>1, <1>2
<1>4. \A l : l \in B <=> l \in Ends(all) /\ p < l /\ l < k
  <2>1. \A l \in Ends(all) : l < k => l <= o[i]
    BY <1>1, <1>2
  <2> QED
    BY <2>1 DEF Below, EndsIn
<1>5. Cardinality({l \in Ends(all) \cap Of(all, s) : l < k}) = Reader!Ended(log, i) + Cardinality(B)
      /\ Reader!Ended(log, i) \in Nat /\ Cardinality(B) \in Nat
  <2>1. {l \in Ends(all) \cap Of(all, s) : l < k} = A \cup B
    <3>1. \A l \in Ends(all) : l \in B => l \in Of(all, s)
      <4> SUFFICES ASSUME NEW l \in Ends(all), l \in B PROVE l \in Of(all, s)
        OBVIOUS
      <4>1. l \in DOMAIN all /\ p < l /\ l <= o[i]
        BY <1>1, <1>2, <1>4
      <4> HIDE DEF B
      <4> QED
        BY <1>1, <4>1 DEF Of
    <3>2. \A l \in Ends(all) : l < k <=> l <= p \/ (p < l /\ l < k)
      BY <1>1, <1>2
    <3>3. \A l : l \in A <=> l \in Ends(all) /\ l \in Of(all, s) /\ l <= p
      BY DEF EndsBefore
    <3> HIDE DEF A, B, s, p
    <3> QED
      BY <1>4, <3>1, <3>2, <3>3
  <2>2. A \cap B = {}
    <3>1. \A l \in A : l \in Ends(all) /\ l <= p
      BY DEF EndsBefore
    <3>2. \A l \in A : ~(p < l)
      BY <1>1, <1>2, <3>1
    <3> HIDE DEF A, B
    <3> QED
      BY <1>4, <3>2
  <2>3. IsFiniteSet(A) /\ Reader!Ended(log, i) = Cardinality(A)
    BY EndedIs
  <2>4. IsFiniteSet(B)
    BY <1>2, BelowFinite
  <2> HIDE DEF A, B
  <2> QED
    BY <2>1, <2>2, <2>3, <2>4, DisjointSize
<1>6. T = R \cup {k}
  <2> HIDE DEF n
  <2>1. Text(all, n + 1) = OpenAt(all, n, all[n + 1].stream) \cup {n + 1}
    BY <1>1, <1>3, OpenStep
  <2> QED
    BY <1>1, <1>3, <2>1
<1>7. /\ \A j : j \in P <=> \E l \in S : all[l].frame = j
      /\ IsFiniteSet(P) /\ i \notin P
  BY OpenedIs
<1>8. \A l \in DOMAIN all :
        /\ l \in S <=> /\ all[l].stream = s /\ l <= p
                       /\ \A e \in Ends(all) : all[e].stream = s /\ l <= e => ~(e <= p)
        /\ l \in R <=> /\ all[l].stream = s /\ l <= n
                       /\ \A e \in Ends(all) : all[e].stream = s /\ l <= e => ~(e <= n)
  <2> SUFFICES ASSUME NEW l \in DOMAIN all
               PROVE  /\ l \in S <=> /\ all[l].stream = s /\ l <= p
                                      /\ \A e \in Ends(all) : all[e].stream = s /\ l <= e => ~(e <= p)
                      /\ l \in R <=> /\ all[l].stream = s /\ l <= n
                                      /\ \A e \in Ends(all) : all[e].stream = s /\ l <= e => ~(e <= n)
    OBVIOUS
  <2> HIDE DEF n, p, s
  <2> QED
    BY <1>1, <1>3, OpenHas
<1>9. S \subseteq DOMAIN all /\ R \subseteq DOMAIN all
  BY <1>1, SetsIn
<1>10. Cardinality(P) \in Nat
  BY <1>7, FS_CardinalityType
<1> DEFINE Q == {all[l].frame : l \in T}
<1>11. \A l \in DOMAIN all : /\ all[l].frame = i \/ l <= p \/ l > o[i]
                             /\ l <= n => l <= o[i]
  <2> SUFFICES ASSUME NEW l \in DOMAIN all
               PROVE  /\ all[l].frame = i \/ l <= p \/ l > o[i]
                      /\ l <= n => l <= o[i]
    OBVIOUS
  <2> HIDE DEF p, n
  <2> QED
    BY <1>1, <1>2, <1>3
<1> HIDE DEF S, R, T, B, P, n, p, s
<1>12. CASE B = {}
  <2>1. \A e \in Ends(all) : e <= n => e <= p
    BY <1>1, <1>2, <1>3, <1>4, <1>12
  <2>2. \A l \in S : l \in R
    <3>1. \A l \in S : l <= n
      BY <1>1, <1>2, <1>3, <1>8, <1>9
    <3> QED
      BY <1>8, <1>9, <2>1, <3>1
  <2>3. \A l \in R : l <= p => l \in S
    <3>1. \A e \in Ends(all) : e <= p => e <= n
      BY <1>1, <1>2, <1>3
    <3> QED
      BY <1>8, <1>9, <3>1
  <2>4. \A j : j \in Q <=> j \in P \cup {i}
    <3> SUFFICES ASSUME NEW j PROVE j \in Q <=> j \in P \cup {i}
      OBVIOUS
    <3>1. ASSUME j \in Q PROVE j \in P \cup {i}
      <4>1. PICK l \in R \cup {k} : all[l].frame = j
        BY <1>6, <3>1
      <4>2. CASE l = k
        BY <4>1, <4>2
      <4>3. CASE l \in R /\ ~(l <= p)
        BY <1>8, <1>9, <1>11, <4>1, <4>3, <1>1, <1>2
      <4>4. CASE l \in R /\ l <= p
        BY <1>7, <2>3, <4>1, <4>4
      <4> QED
        BY <4>1, <4>2, <4>3, <4>4
    <3>2. ASSUME j \in P PROVE j \in Q
      BY <1>6, <1>7, <2>2, <3>2
    <3>3. i \in Q
      BY <1>6
    <3> QED
      BY <3>1, <3>2, <3>3
  <2>5. Q = P \cup {i}
    <3> HIDE DEF Q
    <3> QED
      BY <2>4
  <2>6. Cardinality(Q) = Cardinality(P) + 1
    <3>1. Cardinality(P \cup {i}) = Cardinality(P) + 1
      BY <1>7, FS_AddElement
    <3> QED
      BY <2>5, <3>1
  <2> QED
    BY <1>1, <1>5, <1>10, <1>12, <2>6 DEF LineTo, T, Q, B, P, s
<1>13. CASE B # {}
  <2>1. PICK e \in Ends(all) : p < e /\ e < k
    BY <1>4, <1>13
  <2>2. e \in DOMAIN all /\ e \in Nat /\ e <= n /\ e <= o[i] /\ all[e].stream = s
    BY <1>1, <1>2, <1>3, <2>1
  <2>3. \A l \in R : all[l].frame = i
    <3> SUFFICES ASSUME NEW l \in R PROVE all[l].frame = i
      OBVIOUS
    <3>1. l \in DOMAIN all /\ l \in Nat /\ l <= o[i] /\ ~(l <= e)
      BY <1>2, <1>8, <1>9, <1>11, <2>2
    <3>2. p < l
      BY <1>1, <2>1, <2>2, <3>1
    <3> QED
      BY <1>1, <3>1, <3>2
  <2>4. Q = {i}
    BY <1>6, <2>3
  <2>5. Cardinality(Q) = 1
    BY <2>4, FS_Singleton
  <2> QED
    BY <1>1, <1>5, <1>10, <1>13, <2>5 DEF LineTo, T, Q, B, P, s
<1> QED
  BY <1>12, <1>13

-----------------------------------------------------------------------------
\* LogReader's lines.

ReaderLine(all, k) ==
    Reader!Line(LineTo(all, k).stream, LineTo(all, k).number, LineTo(all, k).pieces,
                LineTo(all, k).whole, "text")

Readings(all) == [k \in DOMAIN all |-> ReaderLine(all, k)]

\* Those that a frame ends.
LEMMA WholeIs ==
    ASSUME NEW o, NEW all, NEW log, Lay(o, all, log), NEW i \in 1..Len(log)
    PROVE  Reader!Whole(log, i) = Along(Readings(all), EndsIn(o, all, i))
<1> DEFINE E == EndsIn(o, all, i)
           c == Cardinality(E)
           a == InOrder(E)
           s == log[i].stream
           r == Reader!Ended(log, i)
           P == Reader!Opened(log, i)
           W(m) == Reader!Line(s, r + m, IF m = 1 THEN Cardinality(P) + 1 ELSE 1, TRUE, "text")
<1>1. /\ all \in Seq(Chars) /\ log[i].ends = c /\ log[i].event = "text"
      /\ \A k \in DOMAIN all : o[i - 1] < k /\ k <= o[i] <=> all[k].frame = i
  <2>1. /\ all \in Seq(Chars) /\ Lies(o, all, log, i)
        /\ \A k \in DOMAIN all : o[i - 1] < k /\ k <= o[i] <=> all[k].frame = i
    BY LayIs
  <2> HIDE DEF E, a, s, r, P
  <2>2. log[i].ends = c /\ log[i].event = "text"
    BY <2>1 DEF Lies, E
  <2> HIDE DEF c
  <2> QED
    BY <2>1, <2>2
<1>2. E \in SUBSET DOMAIN all /\ IsFiniteSet(E) /\ E \subseteq Nat
  <2>1. E \in SUBSET DOMAIN all
    BY DEF EndsIn, Ends
  <2> HIDE DEF E
  <2> QED
    BY <1>1, <2>1, SetsIn
<1>3. \A k \in E : k \in DOMAIN all /\ k \in Ends(all) /\ all[k].frame = i
  BY <1>1, <1>2 DEF EndsIn
<1>4. Reader!Whole(log, i) = [m \in 1..c |-> W(m)]
  <2>1. Reader!Cardinality(P) = Cardinality(P)
    BY ReaderCounts
  <2> DEFINE n == Cardinality(P)
  <2>2. Reader!Whole(log, i) =
           [m \in 1..log[i].ends |->
               Reader!Line(s, r + m, IF m = 1 THEN n + 1 ELSE 1, TRUE, log[i].event)]
    BY <2>1, Zenon DEF Reader!Whole
  <2> QED
    BY <1>1, <2>2, Zenon
<1> HIDE DEF E, c
<1>5. DOMAIN a = 1..c /\ c \in Nat /\ \A m \in 1..c : a[m] \in E /\ Cardinality(Below(E, a[m])) = m - 1
  BY <1>2, InOrderIs DEF c
<1>6. ASSUME NEW m \in 1..c PROVE W(m) = Readings(all)[a[m]]
  <2> DEFINE k == a[m]
             B == Below(E, k)
             l == LineTo(all, k)
  <2>1. k \in DOMAIN all /\ k \in Ends(all) /\ all[k].frame = i /\ Cardinality(B) = m - 1
    BY <1>3, <1>5
  <2>2. IsFiniteSet(B)
    BY <1>2, BelowFinite
  <2>3. B = {} <=> m = 1
    <3> HIDE DEF B
    <3>1. B = {} <=> Cardinality(B) = 0
      BY <2>2, FS_EmptySet
    <3> QED
      BY <1>5, <2>1, <3>1
  <2> HIDE DEF k
  <2>4. /\ l.stream = s /\ l.number = r + Cardinality(B) + 1
        /\ l.pieces = IF B = {} THEN Cardinality(P) + 1 ELSE 1
        /\ l.whole = (k \in Ends(all)) /\ r \in Nat
    BY <2>1, LineAt DEF E
  <2>5. l.number = r + m
    <3> HIDE DEF B, r, l
    <3> QED
      BY <1>5, <2>1, <2>4
  <2>6. l.whole = TRUE
    BY <2>1, <2>4
  <2>7. l.pieces = IF m = 1 THEN Cardinality(P) + 1 ELSE 1
    <3> HIDE DEF B, l
    <3> QED
      BY <2>3, <2>4, Zenon
  <2>8. Readings(all)[k] = Reader!Line(l.stream, l.number, l.pieces, l.whole, "text")
    BY <2>1 DEF Readings, ReaderLine
  <2> HIDE DEF l, r, P, s
  <2> QED
    BY <2>4, <2>5, <2>6, <2>7, <2>8, Zenon DEF k
<1> HIDE DEF W
<1>7. [m \in 1..c |-> W(m)] = [m \in 1..c |-> Readings(all)[a[m]]]
  BY <1>6
<1> QED
  BY <1>4, <1>5, <1>7, Zenon DEF Along, E

\* The lines that the frames end are those that end in the bytes.
LEMMA WholeLinesAre ==
    ASSUME NEW o, NEW all, NEW log, Lay(o, all, log)
    PROVE  Reader!WholeLines(log) = Along(Readings(all), Ends(all))
<1> DEFINE n == Len(log)
           f == Readings(all)
           D == DOMAIN all
           T == {f[k] : k \in D}
           ss == [i \in DOMAIN log |-> Reader!Whole(log, i)]
<1>1. /\ all \in Seq(Chars) /\ n \in Nat /\ DOMAIN log = 1..n /\ o[0] = 0 /\ o[n] = Len(all)
      /\ \A i \in 0..n : o[i] \in Nat
      /\ \A i, j \in 0..n : i <= j => o[i] <= o[j]
  BY DEF Lay
<1>2. /\ IsFiniteSet(D) /\ D \subseteq Nat /\ D = 1..Len(all) /\ Len(all) \in Nat
      /\ \A k \in D : f[k] \in T
  <2>1. IsFiniteSet(D) /\ D = 1..Len(all) /\ Len(all) \in Nat
    BY <1>1, SetsIn
  <2> HIDE DEF f
  <2> QED
    BY <2>1
<1>3. /\ \A i : EndsIn(o, all, i) \in SUBSET D
      /\ \A j : EndsUpto(all, j) \in SUBSET D
      /\ \A S \in SUBSET D : IsFiniteSet(S)
  <2>1. /\ \A i : EndsIn(o, all, i) \in SUBSET D
        /\ \A j : EndsUpto(all, j) \in SUBSET D
    BY DEF EndsIn, EndsUpto, Ends
  <2> QED
    BY <1>2, <2>1, FS_Subset
<1>4. \A i \in 1..n : ss[i] = Along(f, EndsIn(o, all, i))
  <2> SUFFICES ASSUME NEW i \in 1..n PROVE ss[i] = Along(f, EndsIn(o, all, i))
    OBVIOUS
  <2>1. Reader!Whole(log, i) = Along(f, EndsIn(o, all, i))
    BY WholeIs
  <2> HIDE DEF f
  <2> QED
    BY <1>1, <2>1
<1> HIDE DEF f, D, T, n
<1>5. \A i \in 1..n : ss[i] \in Seq(T)
  <2> SUFFICES ASSUME NEW i \in 1..n PROVE ss[i] \in Seq(T)
    OBVIOUS
  <2> DEFINE E == EndsIn(o, all, i)
  <2>1. IsFiniteSet(E) /\ E \subseteq Nat /\ \A k \in E : f[k] \in T
    <3>1. E \in SUBSET D /\ IsFiniteSet(E)
      BY <1>3
    <3> HIDE DEF E
    <3> QED
      BY <1>2, <3>1
  <2>2. Along(f, E) \in Seq(T)
    <3> HIDE DEF E
    <3> QED
      BY ONLY <2>1, AlongIs
  <2> QED
    BY <1>4, <2>2
<1>6. ss \in Seq(Seq(T)) /\ Len(ss) = n
  <2>1. ss = [i \in 1..n |-> ss[i]]
    BY <1>1
  <2> HIDE DEF ss
  <2>2. ss \in [1..n -> Seq(T)]
    BY <1>5, <2>1
  <2> QED
    BY <1>1, <2>2
<1>7. Reader!WholeLines(log) = FlattenSeq(ss)
  BY ReaderFlattens, Zenon DEF Reader!WholeLines
<1> HIDE DEF ss
<1>8. PICK g : Joins(g, ss, T)
  BY <1>6, JoinsExist
<1>9. Reader!WholeLines(log) = g[n]
  <2>1. FlattenSeq(ss) = g[Len(ss)]
    BY <1>6, <1>8, FlattenJoins
  <2> QED
    BY <1>6, <1>7, <2>1
<1>10. g[0] = <<>> /\ \A i \in 1..n : g[i] = g[i - 1] \o ss[i]
  BY <1>6, <1>8, Zenon DEF Joins
<1> DEFINE F == {j \in Nat : j <= n => g[j] = Along(f, EndsUpto(all, o[j]))}
<1>11. 0 \in F
  <2>1. EndsUpto(all, 0) = {}
    <3>1. \A k \in D : k > 0
      BY <1>2
    <3>2. \A k \in EndsUpto(all, 0) : k \in D /\ k <= 0
      BY <1>3 DEF EndsUpto
    <3> QED
      BY <1>2, <3>1, <3>2
  <2>2. g[0] = Along(f, EndsUpto(all, o[0]))
    BY <1>1, <1>10, <2>1, AlongNone
  <2> QED
    BY <2>2
<1>12. ASSUME NEW j \in Nat, j \in F PROVE j + 1 \in F
  <2> SUFFICES ASSUME j + 1 <= n PROVE g[j + 1] = Along(f, EndsUpto(all, o[j + 1]))
    OBVIOUS
  <2> DEFINE i == j + 1
             S == EndsUpto(all, o[j])
             R == EndsIn(o, all, i)
             U == EndsUpto(all, o[i])
  <2>1. i \in 1..n /\ i \in 0..n /\ j \in 0..n /\ i - 1 = j /\ j <= i /\ j <= n
    BY <1>1
  <2>2. o[j] \in Nat /\ o[i] \in Nat /\ o[j] <= o[i]
    BY <1>1, <2>1
  <2> HIDE DEF i
  <2>3. U = S \cup R
    <3>1. \A k \in Ends(all) : k \in Nat
      BY <1>2 DEF Ends, D
    <3>2. \A k \in Ends(all) : k <= o[i] <=> k <= o[j] \/ (o[j] < k /\ k <= o[i])
      BY <2>2, <3>1
    <3> QED
      BY <2>1, <3>2 DEF EndsUpto, EndsIn
  <2>4. Follows(U, S, R, D)
    <3>1. \A x \in S, y \in R : x < y
      <4>1. \A x \in S : x \in Nat /\ x <= o[j]
        BY <1>2, <1>3 DEF EndsUpto
      <4>2. \A y \in R : y \in Nat /\ o[j] < y
        BY <1>2, <1>3, <2>1 DEF EndsIn
      <4> HIDE DEF S, R
      <4> QED
        BY <2>2, <4>1, <4>2
    <3>2. S \in SUBSET D /\ R \in SUBSET D
      BY <1>3
    <3> HIDE DEF S, R, U
    <3> QED
      BY <1>2, <1>3, <2>3, <3>1, <3>2 DEF Follows
  <2>5. Along(f, U) = Along(f, S) \o Along(f, R)
    <3> HIDE DEF S, R, U
    <3> QED
      BY ONLY <2>4, AlongConcat
  <2>6. g[i] = g[j] \o ss[i] /\ ss[i] = Along(f, R)
    BY <1>4, <1>10, <2>1
  <2>7. g[j] = Along(f, S)
    BY <1>12, <2>1
  <2>8. g[i] = Along(f, EndsUpto(all, o[i]))
    BY <2>5, <2>6, <2>7, Zenon
  <2> QED
    BY <2>8 DEF i
<1> HIDE DEF F
<1>13. n \in F
  BY <1>1, <1>11, <1>12, NatInduct
<1>14. EndsUpto(all, o[n]) = Ends(all)
  <2>1. \A k \in Ends(all) : k \in D /\ k <= o[n]
    BY <1>1, <1>2 DEF Ends, D
  <2> QED
    BY <2>1 DEF EndsUpto
<1> QED
  BY <1>1, <1>9, <1>13, <1>14 DEF F, f

\* The frames whose last bytes are left open.
LEMMA OpensAre ==
    ASSUME NEW o, NEW all, NEW log, Lay(o, all, log)
    PROVE  /\ \A i : i \in Reader!Open(log) <=> i \in 1..Len(log) /\ o[i] \in Lasts(all)
           /\ \A k \in Lasts(all) : all[k].frame \in 1..Len(log) /\ o[all[k].frame] = k
<1> DEFINE n == Len(log)
<1>1. n \in Nat /\ DOMAIN log = 1..n /\ all \in Seq(Chars)
  BY DEF Lay
<1>2. \A l \in DOMAIN all : l \in Nat /\ all[l].frame \in 1..n
  <2>1. \A l \in DOMAIN all : l \in Nat
    BY <1>1, SetsIn
  <2> QED
    BY <2>1 DEF Lay
<1>3. \A i \in 1..n :
        /\ i \in Nat /\ o[i] \in DOMAIN all /\ o[i] \in Nat /\ all[o[i]].frame = i
        /\ all[o[i]].stream = log[i].stream
        /\ log[i].rest <=> o[i] \notin Ends(all)
        /\ \A l \in DOMAIN all : all[l].frame = i => l <= o[i] /\ all[l].stream = log[i].stream
        /\ \A l \in DOMAIN all : l <= o[i] => all[l].frame <= i
  <2> SUFFICES ASSUME NEW i \in 1..n
               PROVE  /\ i \in Nat /\ o[i] \in DOMAIN all /\ o[i] \in Nat /\ all[o[i]].frame = i
                      /\ all[o[i]].stream = log[i].stream
                      /\ log[i].rest <=> o[i] \notin Ends(all)
                      /\ \A l \in DOMAIN all : all[l].frame = i =>
                            l <= o[i] /\ all[l].stream = log[i].stream
                      /\ \A l \in DOMAIN all : l <= o[i] => all[l].frame <= i
    OBVIOUS
  <2>1. /\ i \in Nat /\ o[i] \in DOMAIN all /\ o[i] \in Nat /\ all[o[i]].frame = i
        /\ o[i - 1] \in Nat
        /\ \A k \in DOMAIN all : o[i - 1] < k /\ k <= o[i] <=> all[k].frame = i
        /\ \A k \in DOMAIN all : all[k].frame = i => all[k].stream = log[i].stream
        /\ \A k \in DOMAIN all : k <= o[i - 1] <=> all[k].frame < i
    BY LayIs
  <2>2. log[i].rest <=> o[i] \notin Ends(all)
    BY DEF Lay, Lies
  <2>3. \A l \in DOMAIN all : l <= o[i] => all[l].frame <= i
    <3> SUFFICES ASSUME NEW l \in DOMAIN all, l <= o[i] PROVE all[l].frame <= i
      OBVIOUS
    <3>1. l \in Nat /\ all[l].frame \in 1..n
      BY <1>2
    <3>2. CASE l <= o[i - 1]
      BY <2>1, <3>1, <3>2
    <3>3. CASE ~(l <= o[i - 1])
      BY <2>1, <3>1, <3>3
    <3> QED
      BY <3>2, <3>3
  <2> QED
    BY <2>1, <2>2, <2>3
<1>4. \A k, s : k \in Of(all, s) <=> k \in DOMAIN all /\ all[k].stream = s
  BY DEF Of
<1>5. \A k : k \in Lasts(all) <=>
               /\ k \in DOMAIN all /\ k \notin Ends(all)
               /\ \A l \in Of(all, all[k].stream) : l <= k
  BY DEF Lasts
<1>6. \A i : i \in Reader!Open(log) <=>
               i \in 1..n /\ log[i].rest /\ \A j \in 1..n : i \notin Reader!Earlier(log, j)
  BY <1>1 DEF Reader!Open
<1>7. \A i, j \in 1..n : i \in Reader!Earlier(log, j) <=> i < j /\ log[i].stream = log[j].stream
  <2> SUFFICES ASSUME NEW i \in 1..n, NEW j \in 1..n
               PROVE  i \in Reader!Earlier(log, j) <=> i < j /\ log[i].stream = log[j].stream
    OBVIOUS
  <2>1. i \in 1..(j - 1) <=> i < j
    BY <1>1
  <2> QED
    BY <2>1 DEF Reader!Earlier
<1> HIDE DEF n
<1>8. ASSUME NEW i \in 1..n, i \in Reader!Open(log) PROVE o[i] \in Lasts(all)
  <2>1. o[i] \notin Ends(all) /\ o[i] \in DOMAIN all
    BY <1>3, <1>6, <1>8
  <2>2. ASSUME NEW l \in Of(all, all[o[i]].stream) PROVE l <= o[i]
    <3> DEFINE j == all[l].frame
    <3>1. l \in DOMAIN all /\ all[l].stream = log[i].stream
      BY <1>3, <1>4
    <3>2. j \in 1..n /\ log[j].stream = log[i].stream /\ l <= o[j]
      BY <1>2, <1>3, <3>1
    <3>3. ~(i < j)
      BY <1>6, <1>7, <1>8, <3>2
    <3> HIDE DEF j
    <3>4. j <= i
      BY <1>3, <3>2, <3>3
    <3>5. o[j] <= o[i]
      <4>1. j \in 0..n /\ i \in 0..n
        BY <1>1, <3>2
      <4> QED
        BY <3>4, <4>1 DEF Lay, n
    <3> QED
      BY <1>2, <1>3, <3>1, <3>2, <3>5
  <2> QED
    BY <1>5, <2>1, <2>2
<1>9. ASSUME NEW i \in 1..n, o[i] \in Lasts(all) PROVE i \in Reader!Open(log)
  <2>1. log[i].rest
    BY <1>3, <1>5, <1>9
  <2>2. ASSUME NEW j \in 1..n, i \in Reader!Earlier(log, j) PROVE FALSE
    <3>1. i < j /\ log[i].stream = log[j].stream
      BY <1>7, <2>2
    <3>2. o[j] \in Of(all, all[o[i]].stream)
      BY <1>3, <1>4, <3>1
    <3>3. o[j] <= o[i]
      BY <1>5, <1>9, <3>2
    <3>4. j <= i
      BY <1>3, <3>3
    <3> QED
      BY <1>3, <3>1, <3>4
  <2> QED
    BY <1>6, <2>1, <2>2
<1>10. ASSUME NEW k \in Lasts(all) PROVE all[k].frame \in 1..n /\ o[all[k].frame] = k
  <2> DEFINE i == all[k].frame
  <2>1. k \in DOMAIN all /\ k \in Nat /\ i \in 1..n
    BY <1>2, <1>5
  <2>2. k <= o[i] /\ all[k].stream = log[i].stream
    BY <1>3, <2>1
  <2>3. o[i] \in Of(all, all[k].stream)
    BY <1>3, <1>4, <2>1, <2>2
  <2>4. o[i] <= k
    BY <1>5, <2>3
  <2> HIDE DEF i
  <2>5. o[i] = k
    BY <1>3, <2>1, <2>2, <2>4
  <2> QED
    BY <2>1, <2>5 DEF i
<1> QED
  BY <1>6, <1>8, <1>9, <1>10 DEF n

\* The line that such a frame leaves.
LEMMA PartIs ==
    ASSUME NEW o, NEW all, NEW log, Lay(o, all, log), NEW i \in Reader!Open(log)
    PROVE  Reader!Part(log, i) = Readings(all)[o[i]]
<1> DEFINE k == o[i]
           E == EndsIn(o, all, i)
           B == Below(E, k)
           l == LineTo(all, k)
           r == Reader!Ended(log, i)
           P == Reader!Opened(log, i)
           c == Cardinality(P)
           e == log[i].ends
           s == log[i].stream
<1>1. i \in 1..Len(log) /\ k \in Lasts(all)
  BY OpensAre
<1>2. /\ all \in Seq(Chars) /\ k \in DOMAIN all /\ k \in Nat /\ all[k].frame = i
      /\ e = Cardinality(E)
  BY <1>1, LayIs DEF Lies
<1>3. k \notin Ends(all)
  BY <1>1 DEF Lasts
<1>4. E \in SUBSET DOMAIN all /\ IsFiniteSet(E) /\ E \subseteq Nat
  <2>1. E \in SUBSET DOMAIN all
    BY DEF EndsIn, Ends
  <2> HIDE DEF E
  <2> QED
    BY <1>2, <2>1, SetsIn
<1>5. B = E
  <2>1. \A x \in E : x \in Nat /\ x <= k /\ x # k
    BY <1>3, <1>4 DEF EndsIn
  <2> HIDE DEF k, E
  <2>2. \A x \in E : x < k
    BY <1>2, <2>1
  <2> QED
    BY <2>2 DEF Below
<1>6. e = 0 <=> E = {}
  BY <1>2, <1>4, FS_EmptySet
<1> HIDE DEF k, E, B
<1>7. /\ l.stream = s /\ l.number = r + Cardinality(B) + 1
      /\ l.pieces = IF B = {} THEN c + 1 ELSE 1
      /\ l.whole = (k \in Ends(all))
  BY <1>1, <1>2, LineAt DEF B, E
<1> HIDE DEF l, r, s, e, c
<1>8. l.whole = FALSE
  <2> DEFINE w == l.whole
  <2>1. w = (k \in Ends(all))
    BY <1>7
  <2> HIDE DEF w
  <2>3. (k \in Ends(all)) = FALSE
    BY <1>3
  <2>2. w = FALSE
    BY <2>1, <2>3, Zenon
  <2> QED
    BY <2>2 DEF w
<1>9. l.number = r + e + 1
  BY <1>2, <1>5, <1>7, Zenon
<1>10. l.pieces = IF e = 0 THEN c + 1 ELSE 1
  BY <1>5, <1>6, <1>7, Zenon
<1>11. Reader!Part(log, i) = Reader!Line(s, r + e + 1, IF e = 0 THEN c + 1 ELSE 1, FALSE, "text")
  <2>1. Reader!Cardinality(P) = c
    BY ReaderCounts DEF c
  <2> QED
    BY <2>1, Zenon DEF Reader!Part, r, e, s
<1>12. Readings(all)[k] = Reader!Line(l.stream, l.number, l.pieces, l.whole, "text")
  BY <1>2 DEF Readings, ReaderLine, l
<1> QED
  BY <1>7, <1>8, <1>9, <1>10, <1>11, <1>12, Zenon DEF k

\* The stream of a frame that leaves a line, by which the lines are in order.
LEMMA OpensAreLeft ==
    ASSUME NEW o, NEW all, NEW log, Lay(o, all, log)
    PROVE  /\ \A i \in Reader!Open(log) : /\ log[i].stream \in Left(all)
                                          /\ LastOf(all, log[i].stream) = o[i]
           /\ \A i, j \in Reader!Open(log) : log[i].stream = log[j].stream => i = j
           /\ \A s \in Left(all) : \E i \in Reader!Open(log) : log[i].stream = s
           /\ IsFiniteSet(Reader!Open(log))
<1> DEFINE O == Reader!Open(log)
<1>1. all \in Seq(Chars) /\ Len(log) \in Nat
  BY DEF Lay
<1>2. /\ \A i : i \in O <=> i \in 1..Len(log) /\ o[i] \in Lasts(all)
      /\ \A k \in Lasts(all) : all[k].frame \in 1..Len(log) /\ o[all[k].frame] = k
  BY OpensAre
<1>3. \A i \in 1..Len(log) : all[o[i]].frame = i /\ all[o[i]].stream = log[i].stream
  <2> SUFFICES ASSUME NEW i \in 1..Len(log)
               PROVE  all[o[i]].frame = i /\ all[o[i]].stream = log[i].stream
    OBVIOUS
  <2> QED
    BY LayIs
<1>4. \A k, l \in Lasts(all) : all[k].stream = all[l].stream => k = l
  <2> SUFFICES ASSUME NEW k \in Lasts(all), NEW l \in Lasts(all), all[k].stream = all[l].stream
               PROVE  k = l
    OBVIOUS
  <2> QED
    BY <1>1, LastIs
<1> HIDE DEF O
<1>5. ASSUME NEW i \in O
      PROVE  log[i].stream \in Left(all) /\ LastOf(all, log[i].stream) = o[i]
  <2>1. o[i] \in Lasts(all) /\ all[o[i]].stream = log[i].stream
    BY <1>2, <1>3
  <2>2. log[i].stream \in Left(all)
    BY <2>1 DEF Left
  <2>3. /\ LastOf(all, log[i].stream) \in Lasts(all)
        /\ all[LastOf(all, log[i].stream)].stream = log[i].stream
    BY <1>1, <2>2, LastOfIs
  <2> QED
    BY <1>4, <2>1, <2>2, <2>3
<1>6. ASSUME NEW i \in O, NEW j \in O, log[i].stream = log[j].stream PROVE i = j
  <2>1. o[i] = o[j]
    BY <1>2, <1>3, <1>4, <1>6
  <2> QED
    BY <1>2, <1>3, <2>1
<1>7. ASSUME NEW s \in Left(all) PROVE \E i \in O : log[i].stream = s
  <2>1. PICK k \in Lasts(all) : all[k].stream = s
    BY DEF Left
  <2> DEFINE i == all[k].frame
  <2>2. i \in 1..Len(log) /\ o[i] = k
    BY <1>2
  <2> HIDE DEF i
  <2>3. i \in O /\ log[i].stream = s
    BY <1>2, <1>3, <2>1, <2>2
  <2> QED
    BY <2>3
<1>8. IsFiniteSet(O)
  <2>1. O \in SUBSET (1..Len(log))
    BY <1>2
  <2>2. IsFiniteSet(1..Len(log))
    BY <1>1, FS_Interval
  <2> QED
    BY <2>1, <2>2, FS_Subset
<1> QED
  BY <1>5, <1>6, <1>7, <1>8 DEF O

\* As many frames leave a line as streams have one, and their order is that of
\* the streams.
LEMMA OpenRank ==
    ASSUME NEW o, NEW all, NEW log, Lay(o, all, log)
    PROVE  /\ Reader!Cardinality(Reader!Open(log)) = Cardinality(Left(all))
           /\ \A i \in Reader!Open(log) :
                 Reader!Cardinality({j \in Reader!Open(log) : log[j].stream < log[i].stream}) =
                    Cardinality(Below(Left(all), log[i].stream))
<1> DEFINE O == Reader!Open(log)
           L == Left(all)
           g == [i \in O |-> log[i].stream]
<1>1. /\ \A i \in O : log[i].stream \in L
      /\ \A i, j \in O : log[i].stream = log[j].stream => i = j
      /\ \A s \in L : \E i \in O : log[i].stream = s
      /\ IsFiniteSet(O)
  BY OpensAreLeft
<1>2. \A i \in O : g[i] = log[i].stream
  OBVIOUS
<1> HIDE DEF O, L, g
<1>3. Cardinality(O) = Cardinality(L)
  <2>1. Pairs(g, O, L)
    BY <1>1, <1>2 DEF Pairs
  <2> QED
    BY <1>1, <2>1, SameSize
<1>4. ASSUME NEW i \in O
      PROVE  Reader!Cardinality({j \in O : log[j].stream < log[i].stream}) =
                Cardinality(Below(L, log[i].stream))
  <2> DEFINE S == {j \in O : log[j].stream < log[i].stream}
             R == Below(L, log[i].stream)
  <2>1. Pairs(g, S, R)
    <3>1. \A j \in S : g[j] \in R
      BY <1>1, <1>2 DEF Below
    <3>2. \A j, k \in S : g[j] = g[k] => j = k
      BY <1>1, <1>2
    <3>3. \A s \in R : \E j \in S : g[j] = s
      BY <1>1, <1>2 DEF Below
    <3> HIDE DEF S, R
    <3> QED
      BY <3>1, <3>2, <3>3 DEF Pairs
  <2>2. IsFiniteSet(S)
    <3>1. S \in SUBSET O
      OBVIOUS
    <3> QED
      BY <1>1, <3>1, FS_Subset
  <2> HIDE DEF S, R
  <2>3. Cardinality(R) = Cardinality(S)
    BY <2>1, <2>2, SameSize
  <2>4. Reader!Cardinality(S) = Cardinality(S)
    BY ReaderCounts
  <2>5. Reader!Cardinality(S) = Cardinality(R)
    BY <2>3, <2>4
  <2> QED
    BY <2>5, Zenon DEF S, R
<1>5. Reader!Cardinality(O) = Cardinality(L)
  BY <1>3, ReaderCounts
<1> QED
  BY <1>4, <1>5, Zenon DEF O, L

\* The lines that are left open, in the order of their streams.
LEMMA UnfinishedIs ==
    ASSUME NEW o, NEW all, NEW log, Lay(o, all, log)
    PROVE  Reader!Unfinished(log) =
             [m \in 1..Cardinality(Left(all)) |-> Readings(all)[LeftAt(all)[m]]]
<1> DEFINE O == Reader!Open(log)
           L == Left(all)
           c == Cardinality(L)
           Is(i, m) == Reader!Cardinality({j \in O : log[j].stream < log[i].stream}) = m - 1
           at(m) == CHOOSE i \in O : Is(i, m)
<1>1. Reader!Unfinished(log) = [m \in 1..c |-> Reader!Part(log, at(m))]
  <2>1. Reader!Cardinality(O) = c
    BY OpenRank
  <2>2. Reader!Unfinished(log) = [m \in 1..Reader!Cardinality(O) |-> Reader!Part(log, at(m))]
    BY Zenon DEF Reader!Unfinished
  <2> HIDE DEF at, O, L, c
  <2> QED
    BY <2>1, <2>2
<1>2. /\ \A i \in O : log[i].stream \in L /\ LastOf(all, log[i].stream) = o[i]
      /\ \A s \in L : \E i \in O : log[i].stream = s
  BY OpensAreLeft
<1>3. \A m : \A i \in O : Is(i, m) <=> Cardinality(Below(L, log[i].stream)) = m - 1
  BY OpenRank, Zenon
<1>4. all \in Seq(Chars)
  BY DEF Lay
<1>5. /\ c \in Nat /\ IsFiniteSet(L) /\ L \subseteq Nat
      /\ \A m \in 1..c : LeftAt(all)[m] = LastOf(all, InOrder(L)[m])
  BY <1>4, LinesEndIs
<1>6. \A i \in O : Reader!Part(log, i) = Readings(all)[o[i]]
  <2> SUFFICES ASSUME NEW i \in O PROVE Reader!Part(log, i) = Readings(all)[o[i]]
    OBVIOUS
  <2> QED
    BY PartIs
<1>7. \A m : (\E i \in O : Is(i, m)) => at(m) \in O /\ Is(at(m), m)
  <2> HIDE DEF Is
  <2> QED
    BY Zenon
<1> HIDE DEF O, L, Is, at
<1>8. ASSUME NEW m \in 1..c PROVE Reader!Part(log, at(m)) = Readings(all)[LeftAt(all)[m]]
  <2> DEFINE s == InOrder(L)[m]
             a == at(m)
  <2>1. s \in L /\ Cardinality(Below(L, s)) = m - 1
    BY <1>5, InOrderIs DEF c
  <2>2. \E i \in O : Is(i, m)
    <3>1. PICK i \in O : log[i].stream = s
      BY <1>2, <2>1
    <3>2. Is(i, m)
      BY <1>3, <2>1, <3>1
    <3> QED
      BY <3>2
  <2>3. a \in O /\ Is(a, m)
    BY <1>7, <2>2
  <2> HIDE DEF a
  <2> DEFINE t == log[a].stream
  <2>4. t \in L /\ LastOf(all, t) = o[a] /\ Cardinality(Below(L, t)) = m - 1
    BY <1>2, <1>3, <2>3
  <2> HIDE DEF t
  <2>5. s = t
    BY <1>5, <2>4, InOrderAt DEF c
  <2>6. LeftAt(all)[m] = LastOf(all, s)
    BY <1>5
  <2> HIDE DEF s
  <2> QED
    BY <1>6, <2>3, <2>4, <2>5, <2>6 DEF a
<1> HIDE DEF c
<1>9. Reader!Unfinished(log) = [m \in 1..c |-> Readings(all)[LeftAt(all)[m]]]
  BY <1>1, <1>8
<1> QED
  BY <1>9 DEF c, L

\* LogReader's lines are the lines of the bytes.
LEMMA ReaderFetches ==
    ASSUME NEW o, NEW all, NEW log, Lay(o, all, log)
    PROVE  Reader!Fetch(log) =
             [i \in DOMAIN LinesEnd(all) |-> ReaderLine(all, LinesEnd(all)[i])]
<1> DEFINE f == Readings(all)
           D == DOMAIN all
           T == {f[k] : k \in D}
           E == Ends(all)
           a == InOrder(E)
           b == LeftAt(all)
           c == Cardinality(Left(all))
           u == Along(f, E)
           v == [m \in 1..c |-> f[b[m]]]
           e == LinesEnd(all)
<1>1. all \in Seq(Chars)
  BY DEF Lay
<1>2. /\ e = a \o b /\ a \in Seq(D) /\ b \in Seq(D) /\ Len(b) = c /\ c \in Nat
      /\ IsFiniteSet(E)
  BY <1>1, LinesEndIs
<1>3. E \in SUBSET D /\ D \subseteq Nat
  <2>1. \A k \in D : k \in Nat
    BY <1>1, SetsIn
  <2> QED
    BY <2>1 DEF Ends
<1>4. \A k \in D : f[k] = ReaderLine(all, k) /\ f[k] \in T
  BY DEF Readings
<1>5. Reader!Fetch(log) = u \o v
  <2>1. Reader!WholeLines(log) = u
    BY WholeLinesAre
  <2>2. Reader!Unfinished(log) = v
    BY UnfinishedIs
  <2> HIDE DEF u, v
  <2> QED
    BY <2>1, <2>2 DEF Reader!Fetch
<1> HIDE DEF f, D, T, E, a, b, c, e
<1>6. Maps(u, f, a, D, T)
  <2>1. \A k \in D : f[k] \in T
    BY <1>4
  <2> QED
    BY ONLY <1>2, <1>3, <2>1, AlongMaps DEF a
<1>7. Maps(v, f, b, D, T)
  <2>1. \A m \in 1..c : b[m] \in D
    BY <1>2
  <2>2. \A m \in 1..c : v[m] = f[b[m]] /\ f[b[m]] \in T
    BY <1>4, <2>1
  <2>3. v = [m \in 1..c |-> v[m]]
    OBVIOUS
  <2> HIDE DEF v
  <2>4. v \in [1..c -> T]
    BY <2>2, <2>3
  <2>5. v \in Seq(T) /\ Len(v) = c
    BY <1>2, <2>4
  <2> QED
    BY <1>2, <2>2, <2>5 DEF Maps
<1> HIDE DEF u, v
<1>8. Each(f, e) = u \o v
  <2>1. Each(f, a \o b) = u \o v
    BY ONLY <1>6, <1>7, MapConcat
  <2> QED
    BY <1>2, <2>1
<1>9. \A i \in DOMAIN e : f[e[i]] = ReaderLine(all, e[i])
  <2>1. e \in Seq(D)
    BY <1>2
  <2>2. \A i \in DOMAIN e : e[i] \in D
    BY <2>1
  <2> QED
    BY <1>4, <2>2
<1>10. Each(f, e) = [i \in DOMAIN e |-> ReaderLine(all, e[i])]
  BY <1>9 DEF Each
<1> QED
  BY <1>5, <1>8, <1>10 DEF e

\* Fetch and LogReader read the lines of the bytes, whatever the file holds.
LEMMA LinesSplit ==
    ASSUME bytes \in Seq(Byte)
    PROVE  LinesAreTheStreams
<1> DEFINE found == Records(bytes)
           frames == Sending(found)
           all == BytesOf(frames)
           at == LinesEnd(all)
           lines == LinesOf(frames)
<1>1. /\ frames \in Seq(Laden) /\ frames \in Seq(Frame)
      /\ Fetch(bytes) = Lines(frames)
  <2>1. found \in Seq(Frame)
    BY RecordsAreFrames
  <2>2. Fetch(bytes) = Lines(found)
    BY DEF Fetch
  <2> HIDE DEF found
  <2> QED
    BY <2>1, <2>2, SendingIs
<1>2. PICK o : Spread(o, frames, all)
  BY <1>1, BytesSpread
<1>3. /\ DOMAIN lines = DOMAIN at
      /\ \A i \in DOMAIN at : lines[i] = LineTo(all, at[i])
  BY DEF LinesOf
<1>4. Lay(o, all, Shapes(frames))
  <2> HIDE DEF frames, all
  <2> QED
    BY <1>1, <1>2, FramesLay
<1> HIDE DEF frames, all, at, lines
<1>5. Fetch(bytes) = [i \in DOMAIN at |-> TextTo(all, at[i])]
  BY <1>1, <1>2, LinesAre DEF at
<1>6. Reader!Fetch(Shapes(frames)) = [i \in DOMAIN at |-> ReaderLine(all, at[i])]
  BY <1>4, ReaderFetches DEF at
<1>7. Fetch(bytes) =
        [i \in DOMAIN lines |-> TextLine(lines[i].stream, lines[i].stamp, lines[i].data)]
  <2>1. \A i \in DOMAIN at : TextTo(all, at[i]) =
                             TextLine(lines[i].stream, lines[i].stamp, lines[i].data)
    BY <1>3 DEF TextTo
  <2> QED
    BY <1>3, <1>5, <2>1
<1>8. Reader!Fetch(Shapes(frames)) =
        [i \in DOMAIN lines |->
            Reader!Line(lines[i].stream, lines[i].number, lines[i].pieces, lines[i].whole, "text")]
  <2>1. \A i \in DOMAIN at : ReaderLine(all, at[i]) =
           Reader!Line(lines[i].stream, lines[i].number, lines[i].pieces, lines[i].whole, "text")
    BY <1>3 DEF ReaderLine
  <2> QED
    BY <1>3, <1>6, <2>1
<1> QED
  BY <1>7, <1>8, Zenon DEF LinesAreTheStreams, Shapes, lines, frames, found

\* Whatever the records are and wherever the bytes of a line lie in them, Fetch
\* splits them into the lines of the streams' bytes, each with the stamp of the
\* frame it starts in, and LogReader, which has no bytes, reads the same lines
\* (storage.go:173-176, 209-261).
THEOREM FetchSplitsRight == Spec => []LinesAreTheStreams
<1>1. LogInv => LinesAreTheStreams
  BY LinesSplit DEF LogInv, LogTypes
<1> QED
  BY LogInvariant, <1>1, PTL
=============================================================================
