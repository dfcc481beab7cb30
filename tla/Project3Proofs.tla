--------------------------- MODULE Project3Proofs ---------------------------
(***************************************************************************)
(* Project3.  The sorting programs, for any input: what they print is the  *)
(* input in order, and what Quicksort has split stays split.  The          *)
(* validator of grids of any size: its verdict is sound, although it does  *)
(* not wait for one of its threads.                                        *)
(***************************************************************************)
EXTENDS ParallelSort, Sudoku, SequenceTheorems, WellFoundedInduction, TLAPS

\* The least of some numbers.
LEMMA MinFacts ==
  ASSUME NEW S \in SUBSET Nat, S # {}
  PROVE  Min(S) \in S /\ \A y \in S : Min(S) <= y
<1>1. PICK x \in S : \A y \in S : ~ (<<y, x>> \in OpToRel(<, Nat))
  BY NatLessThanWellFounded, WFMin, Zenon
<1>2. \A y \in S : x <= y
  <2> TAKE y \in S
  <2>1. y < x => <<y, x>> \in OpToRel(<, Nat)
    BY DEF OpToRel
  <2>2. ~ (y < x)
    BY <1>1, <2>1, Zenon
  <2>3. x \in Nat /\ y \in Nat
    OBVIOUS
  <2>4. QED
    BY <2>2, <2>3
<1>3. QED
  BY <1>2 DEF Min

\* The greatest of some numbers.
LEMMA MaxFacts ==
  ASSUME NEW n \in Nat, NEW S \in SUBSET (0 .. n), S # {}
  PROVE  Max(S) \in S /\ \A y \in S : Max(S) >= y
<1> DEFINE T == {n - x : x \in S}
<1>1. \A x \in S : n - x \in Nat
  OBVIOUS
<1>2. T \in SUBSET Nat
  BY <1>1
<1>3. T # {}
  OBVIOUS
<1>4. PICK t \in T : \A y \in T : t <= y
  BY <1>2, <1>3, MinFacts
<1>5. PICK x \in S : \A y \in S : x >= y
  BY <1>4
<1>6. QED
  BY <1>5 DEF Max

\* Induction over the natural numbers, for a set of them.
LEMMA Induction ==
  ASSUME NEW A \in SUBSET Nat, 0 \in A, \A n \in A : n + 1 \in A
  PROVE  A = Nat
<1>1. ASSUME Nat \ A # {} PROVE FALSE
  <2>1. PICK x \in Nat \ A : \A y \in Nat \ A : x <= y
    BY <1>1, MinFacts
  <2>2. x # 0 /\ x - 1 \in Nat /\ x - 1 \notin Nat \ A
    BY <2>1
  <2>3. QED
    BY <2>1, <2>2
<1>2. QED
  BY <1>1

\* What the recursion yields up to n.
UpTo(f, G, z, n) == f = [m \in 0 .. n |-> IF m = 0 THEN z ELSE G[m][f[m - 1]]]

\* As far as both go, they yield the same.
LEMMA PartsAgree ==
  ASSUME NEW G, NEW z, NEW f, NEW g, NEW m \in Nat, NEW n \in Nat,
         UpTo(f, G, z, m), UpTo(g, G, z, n), m <= n
  PROVE  \A k \in 0 .. m : f[k] = g[k]
<1> DEFINE A == {k \in Nat : k <= m => f[k] = g[k]}
<1>1. 0 \in A
  BY DEF UpTo
<1>2. ASSUME NEW k \in A PROVE k + 1 \in A
  <2>1. CASE k + 1 <= m
    <3>1. f[k + 1] = G[k + 1][f[k]] /\ g[k + 1] = G[k + 1][g[k]]
      BY <2>1 DEF UpTo
    <3>2. QED
      BY <1>2, <2>1, <3>1
  <2>2. CASE ~ (k + 1 <= m)
    BY <2>2
  <2>3. QED
    BY <2>1, <2>2
<1> HIDE DEF A
<1>3. A = Nat
  <2>1. A \in SUBSET Nat
    BY DEF A
  <2>2. QED
    BY <1>1, <1>2, <2>1, Induction
<1>4. QED
  BY <1>3 DEF A

\* A recursive definition over the natural numbers has what it defines.
Computes(f, G, z) == f = [n \in Nat |-> IF n = 0 THEN z ELSE G[n][f[n - 1]]]

\* A recursive definition over the natural numbers defines what it says.
LEMMA Recursion ==
  ASSUME NEW G, NEW z
  PROVE  \E f : Computes(f, G, z)
<1> DEFINE A == {n \in Nat : \E f : UpTo(f, G, z, n)}
<1>1. 0 \in A
  <2>1. UpTo([m \in 0 .. 0 |-> z], G, z, 0)
    BY DEF UpTo
  <2>2. QED
    BY <2>1
<1>2. ASSUME NEW n \in A PROVE n + 1 \in A
  <2>1. PICK f : UpTo(f, G, z, n)
    BY <1>2
  <2> DEFINE g == [m \in 0 .. n + 1 |-> IF m <= n THEN f[m] ELSE G[m][f[m - 1]]]
  <2>2. n \in Nat
    BY <1>2
  <2>3. \A m \in 0 .. n : f[m] = IF m = 0 THEN z ELSE G[m][f[m - 1]]
    BY <2>1 DEF UpTo
  <2>4. \A m \in 0 .. n + 1 : g[m] = IF m = 0 THEN z ELSE G[m][g[m - 1]]
    BY <2>2, <2>3
  <2>5. UpTo(g, G, z, n + 1)
    BY <2>4 DEF UpTo
  <2>6. QED
    BY <2>2, <2>5
<1> HIDE DEF A
<1>3. A = Nat
  <2>1. A \in SUBSET Nat
    BY DEF A
  <2>2. QED
    BY <1>1, <1>2, <2>1, Induction
<1> DEFINE Part(n) == CHOOSE f : UpTo(f, G, z, n)
           F == [n \in Nat |-> Part(n)[n]]
<1>4. ASSUME NEW n \in Nat PROVE UpTo(Part(n), G, z, n)
  BY <1>3 DEF A
<1> HIDE DEF Part
<1>5. ASSUME NEW n \in Nat \ {0} PROVE F[n] = G[n][F[n - 1]]
  <2>1. n - 1 \in Nat /\ n - 1 <= n /\ n - 1 \in 0 .. n - 1 /\ n \in 0 .. n
    BY <1>5
  <2>2. Part(n - 1)[n - 1] = Part(n)[n - 1]
    BY <1>4, <2>1, PartsAgree
  <2>3. UpTo(Part(n), G, z, n)
    BY <1>4, <1>5
  <2>4. Part(n)[n] = G[n][Part(n)[n - 1]]
    BY <2>1, <2>3 DEF UpTo
  <2>5. QED
    BY <2>1, <2>2, <2>4
<1>6. F[0] = z
  <2>1. UpTo(Part(0), G, z, 0)
    BY <1>4
  <2>2. Part(0)[0] = z
    BY <2>1 DEF UpTo
  <2>3. QED
    BY <2>2
<1>7. F = [n \in Nat |-> IF n = 0 THEN z ELSE G[n][F[n - 1]]]
  <2> HIDE DEF F
  <2>1. \A n \in Nat : F[n] = IF n = 0 THEN z ELSE G[n][F[n - 1]]
    BY <1>5, <1>6
  <2>2. F = [n \in Nat |-> F[n]]
    BY DEF F
  <2>3. QED
    BY <2>1, <2>2
<1> HIDE DEF F
<1>8. Computes(F, G, z)
  BY <1>7 DEF Computes
<1>9. QED
  BY <1>8

-----------------------------------------------------------------------------
(***************************************************************************)
(* Arrangements.                                                           *)
(***************************************************************************)
Onto(n) == Surjection(1 .. n, 1 .. n)

\* Rearrangements are functions onto the positions.
LEMMA OntoIs ==
  ASSUME NEW n \in Nat
  PROVE  \A p : p \in Onto(n) <=> p \in [1 .. n -> 1 .. n]
                                /\ \A j \in 1 .. n : \E k \in 1 .. n : p[k] = j
BY DEF Onto, Surjection

LEMMA OntoTo ==
  ASSUME NEW n \in Nat, NEW p \in Onto(n)
  PROVE  /\ \A k \in 1 .. n : p[k] \in 1 .. n
         /\ \A j \in 1 .. n : \E k \in 1 .. n : p[k] = j
<1>1. p \in [1 .. n -> 1 .. n] /\ \A j \in 1 .. n : \E k \in 1 .. n : p[k] = j
  BY OntoIs
<1>2. QED
  BY <1>1

LEMMA ArrangementIs ==
  ASSUME NEW s \in Seq(Int), NEW a
  PROVE  a \in Arrangements(s) <=>
           /\ a \in Seq(Int) /\ Len(a) = Len(s)
           /\ \E p \in Onto(Len(s)) : \A k \in 1 .. Len(s) : a[k] = s[p[k]]
<1> DEFINE n == Len(s)
<1>1. n \in Nat /\ DOMAIN s = 1 .. n /\ s \in [1 .. n -> Int]
  BY LenProperties
<1>2. a \in Arrangements(s) <=> \E p \in Onto(n) : a = [k \in 1 .. n |-> s[p[k]]]
  BY <1>1 DEF Arrangements, Onto
<1> HIDE DEF n
<1>3. ASSUME NEW p \in Onto(n), a = [k \in 1 .. n |-> s[p[k]]]
      PROVE  a \in Seq(Int) /\ Len(a) = n /\ \A k \in 1 .. n : a[k] = s[p[k]]
  <2>1. \A k \in 1 .. n : p[k] \in 1 .. n
    BY <1>1, OntoTo
  <2>5. \A k \in 1 .. n : s[p[k]] \in Int
    BY <1>1, <2>1
  <2>2. a \in [1 .. n -> Int]
    BY <1>3, <2>5
  <2>3. a \in Seq(Int) /\ Len(a) = n
    BY <1>1, <2>2, SeqDef
  <2>4. QED
    BY <1>3, <2>3
<1>4. ASSUME NEW p \in Onto(n), a \in Seq(Int), Len(a) = n, \A k \in 1 .. n : a[k] = s[p[k]]
      PROVE  a = [k \in 1 .. n |-> s[p[k]]]
  BY <1>4, LenProperties
<1>5. QED
  BY <1>2, <1>3, <1>4 DEF n

\* A sequence arranged is a sequence again, also as it is.
LEMMA ArrangedItself ==
  ASSUME NEW s \in Seq(Int)
  PROVE  s \in Arrangements(s)
<1> DEFINE p == [k \in 1 .. Len(s) |-> k]
<1>1. Len(s) \in Nat
  BY LenProperties
<1>2. p \in Onto(Len(s))
  BY <1>1, OntoIs
<1>3. QED
  BY <1>2, ArrangementIs

LEMMA ArrangedTwice ==
  ASSUME NEW s \in Seq(Int), NEW a \in Arrangements(s), NEW b \in Arrangements(a)
  PROVE  b \in Arrangements(s)
<1> DEFINE n == Len(s)
<1>1. n \in Nat /\ a \in Seq(Int) /\ Len(a) = n /\ b \in Seq(Int) /\ Len(b) = n
  BY ArrangementIs, LenProperties
<1>2. PICK p \in Onto(n) : \A k \in 1 .. n : a[k] = s[p[k]]
  BY ArrangementIs
<1>3. PICK q \in Onto(n) : \A k \in 1 .. n : b[k] = a[q[k]]
  BY <1>1, ArrangementIs
<1> DEFINE r == [k \in 1 .. n |-> p[q[k]]]
<1> HIDE DEF n
<1>4. /\ \A k \in 1 .. n : p[k] \in 1 .. n
      /\ \A j \in 1 .. n : \E k \in 1 .. n : p[k] = j
      /\ \A k \in 1 .. n : q[k] \in 1 .. n
      /\ \A j \in 1 .. n : \E k \in 1 .. n : q[k] = j
  <2>1. n \in Nat
    BY <1>1
  <2>2. QED
    BY <2>1, OntoTo
<1>5. r \in [1 .. n -> 1 .. n] /\ \A j \in 1 .. n : \E k \in 1 .. n : r[k] = j
  <2>1. r \in [1 .. n -> 1 .. n]
    BY <1>4
  <2>2. ASSUME NEW j \in 1 .. n PROVE \E k \in 1 .. n : r[k] = j
    <3>1. PICK pos \in 1 .. n : p[pos] = j
      BY <1>4
    <3>2. PICK k \in 1 .. n : q[k] = pos
      BY <1>4
    <3>3. QED
      BY <3>1, <3>2
  <2>3. QED
    BY <2>1, <2>2
<1>6. \A k \in 1 .. n : b[k] = s[r[k]]
  BY <1>2, <1>3, <1>4
<1>7. r \in Onto(n)
  BY <1>1, <1>5, OntoIs
<1>8. QED
  BY <1>1, <1>6, <1>7, ArrangementIs DEF n

\* One rearrangement after the other.
Beside(m, n, p, q) == [k \in 1 .. m + n |-> IF k <= m THEN p[k] ELSE m + q[k - m]]

\* Side by side, two rearrangements are one of both.
LEMMA BesideOnto ==
  ASSUME NEW m \in Nat, NEW n \in Nat, NEW p, NEW q,
         \A k \in 1 .. m : p[k] \in 1 .. m,
         \A j \in 1 .. m : \E k \in 1 .. m : p[k] = j,
         \A k \in 1 .. n : q[k] \in 1 .. n,
         \A j \in 1 .. n : \E k \in 1 .. n : q[k] = j
  PROVE  Beside(m, n, p, q) \in Onto(m + n)
<1> DEFINE r == Beside(m, n, p, q)
<1>1. \A k \in 1 .. m + n : r[k] = IF k <= m THEN p[k] ELSE m + q[k - m]
  BY DEF Beside
<1>2. ASSUME NEW k \in 1 .. m + n PROVE r[k] \in 1 .. m + n
  <2>1. CASE k <= m
    <3>1. p[k] \in 1 .. m
      BY <2>1
    <3>2. QED
      BY <1>1, <2>1, <3>1
  <2>2. CASE ~ (k <= m)
    <3>1. q[k - m] \in 1 .. n
      BY <2>2
    <3>2. QED
      BY <1>1, <2>2, <3>1
  <2>3. QED
    BY <2>1, <2>2
<1>3. r \in [1 .. m + n -> 1 .. m + n]
  BY <1>2 DEF Beside
<1>4. ASSUME NEW j \in 1 .. m + n PROVE \E k \in 1 .. m + n : r[k] = j
  <2>1. CASE j <= m
    <3>1. j \in 1 .. m
      BY <2>1
    <3>2. PICK k \in 1 .. m : p[k] = j
      BY <3>1
    <3>3. k \in 1 .. m + n /\ k <= m
      OBVIOUS
    <3>4. QED
      BY <1>1, <3>2, <3>3
  <2>2. CASE ~ (j <= m)
    <3>1. j - m \in 1 .. n
      BY <2>2
    <3>2. PICK k \in 1 .. n : q[k] = j - m
      BY <3>1
    <3>3. m + k \in 1 .. m + n /\ ~ (m + k <= m) /\ m + k - m = k
      OBVIOUS
    <3>4. r[m + k] = m + q[k]
      BY <1>1, <3>3
    <3>5. QED
      BY <3>2, <3>3, <3>4
  <2>3. QED
    BY <2>1, <2>2
<1>5. m + n \in Nat
  OBVIOUS
<1>6. QED
  BY <1>3, <1>4, <1>5, OntoIs, Zenon

\* Two arrangements, one after the other.
LEMMA ArrangedBoth ==
  ASSUME NEW s \in Seq(Int), NEW t \in Seq(Int),
         NEW a \in Arrangements(s), NEW b \in Arrangements(t)
  PROVE  a \o b \in Arrangements(s \o t)
<1> DEFINE m == Len(s)
           n == Len(t)
<1>1. /\ m \in Nat /\ a \in Seq(Int) /\ Len(a) = m
      /\ n \in Nat /\ b \in Seq(Int) /\ Len(b) = n
  <2>1. m \in Nat /\ a \in Seq(Int) /\ Len(a) = m
    BY ArrangementIs, LenProperties
  <2>2. n \in Nat /\ b \in Seq(Int) /\ Len(b) = n
    BY ArrangementIs, LenProperties
  <2>3. QED
    BY <2>1, <2>2
<1>2. PICK p \in Onto(m) : \A k \in 1 .. m : a[k] = s[p[k]]
  BY ArrangementIs
<1>3. PICK q \in Onto(n) : \A k \in 1 .. n : b[k] = t[q[k]]
  BY ArrangementIs
<1>4. /\ s \o t \in Seq(Int) /\ Len(s \o t) = m + n
      /\ \A k \in 1 .. m + n : (s \o t)[k] = IF k <= m THEN s[k] ELSE t[k - m]
  BY ConcatProperties
<1>5. /\ a \o b \in Seq(Int) /\ Len(a \o b) = m + n
      /\ \A k \in 1 .. m + n : (a \o b)[k] = IF k <= m THEN a[k] ELSE b[k - m]
  <2>1. /\ a \o b \in Seq(Int) /\ Len(a \o b) = Len(a) + Len(b)
        /\ \A k \in 1 .. Len(a) + Len(b) :
              (a \o b)[k] = IF k <= Len(a) THEN a[k] ELSE b[k - Len(a)]
    BY <1>1, ConcatProperties
  <2>2. QED
    BY <1>1, <2>1
<1>6. m \in Nat /\ n \in Nat
  BY <1>1
<1> HIDE DEF m, n
<1> DEFINE r == Beside(m, n, p, q)
<1>7. /\ \A k \in 1 .. m : p[k] \in 1 .. m
      /\ \A j \in 1 .. m : \E k \in 1 .. m : p[k] = j
  BY <1>6, OntoTo
<1>8. /\ \A k \in 1 .. n : q[k] \in 1 .. n
      /\ \A j \in 1 .. n : \E k \in 1 .. n : q[k] = j
  BY <1>6, OntoTo
<1>9. \A k \in 1 .. m + n : r[k] = IF k <= m THEN p[k] ELSE m + q[k - m]
  BY DEF Beside
<1>10. r \in Onto(m + n) /\ m + n \in Nat
  <2>1. m + n \in Nat
    BY <1>6
  <2>2. r \in Onto(m + n)
    BY <1>6, <1>7, <1>8, BesideOnto, Zenon
  <2>3. QED
    BY <2>1, <2>2
<1> HIDE DEF r
<1>11. \A k \in 1 .. m + n : (a \o b)[k] = (s \o t)[r[k]]
  <2> TAKE k \in 1 .. m + n
  <2>1. CASE k <= m
    <3>1. k \in 1 .. m
      BY <1>6, <2>1
    <3>2. p[k] \in 1 .. m + n /\ p[k] <= m /\ r[k] = p[k]
      BY <1>6, <1>7, <1>9, <2>1, <3>1
    <3>3. (s \o t)[r[k]] = s[p[k]]
      BY <1>4, <3>2
    <3>4. QED
      BY <1>2, <1>5, <2>1, <3>1, <3>3
  <2>2. CASE ~ (k <= m)
    <3>1. k - m \in 1 .. n
      BY <1>6, <2>2
    <3>2. q[k - m] \in 1 .. n /\ r[k] = m + q[k - m]
      BY <1>8, <1>9, <2>2, <3>1
    <3>3. r[k] \in 1 .. m + n /\ ~ (r[k] <= m) /\ r[k] - m = q[k - m]
      BY <1>6, <3>2
    <3>4. (s \o t)[r[k]] = t[q[k - m]]
      BY <1>4, <3>3
    <3>5. QED
      BY <1>3, <1>5, <2>2, <3>1, <3>4
  <2>3. QED
    BY <2>1, <2>2
<1> HIDE DEF r
<1>12. /\ s \o t \in Seq(Int) /\ a \o b \in Seq(Int) /\ Len(a \o b) = Len(s \o t)
       /\ r \in Onto(Len(s \o t))
       /\ \A k \in 1 .. Len(s \o t) : (a \o b)[k] = (s \o t)[r[k]]
  BY <1>4, <1>5, <1>10, <1>11
<1>13. QED
  BY <1>12, ArrangementIs

\* Two elements that change places.
LEMMA ArrangedByExchange ==
  ASSUME NEW s \in Seq(Int), NEW l \in 1 .. Len(s), NEW r \in 1 .. Len(s)
  PROVE  /\ Exchanged(s, l, r) \in Arrangements(s)
         /\ Exchanged(s, l, r)[l] = s[r] /\ Exchanged(s, l, r)[r] = s[l]
         /\ \A k \in 1 .. Len(s) \ {l, r} : Exchanged(s, l, r)[k] = s[k]
<1> DEFINE n == Len(s)
           p == [k \in 1 .. n |-> IF k = l THEN r ELSE IF k = r THEN l ELSE k]
           e == Exchanged(s, l, r)
<1>1. n \in Nat /\ s \in [1 .. n -> Int]
  BY LenProperties
<1>2. /\ e \in [1 .. n -> Int] /\ e[l] = s[r] /\ e[r] = s[l]
      /\ \A k \in 1 .. n \ {l, r} : e[k] = s[k]
  BY <1>1 DEF Exchanged
<1>3. e \in Seq(Int) /\ Len(e) = n
  BY <1>1, <1>2, SeqDef
<1> HIDE DEF n, e
<1>4. p \in [1 .. n -> 1 .. n] /\ \A j \in 1 .. n : \E k \in 1 .. n : p[k] = j
  <2>1. l \in 1 .. n /\ r \in 1 .. n
    BY DEF n
  <2>2. p \in [1 .. n -> 1 .. n]
    BY <2>1
  <2>3. \A j \in 1 .. n : p[p[j]] = j
    BY <2>1
  <2>4. QED
    BY <2>2, <2>3
<1>5. \A k \in 1 .. n : e[k] = s[p[k]]
  BY <1>2
<1>6. p \in Onto(n)
  BY <1>1, <1>4, OntoIs
<1>7. QED
  BY <1>2, <1>3, <1>5, <1>6, ArrangementIs DEF n, e

-----------------------------------------------------------------------------
(***************************************************************************)
(* Merges.                                                                 *)
(***************************************************************************)
Next1(low, high, n, c) == IF TakesLow(low, high, c, n - 1 - c) THEN c + 1 ELSE c

CursorRule(f, low, high) ==
  f = [n \in Nat |->
        IF n = 0 THEN 0
        ELSE IF TakesLow(low, high, f[n - 1], n - 1 - f[n - 1]) THEN f[n - 1] + 1
        ELSE f[n - 1]]

\* There are the counts that the rounds of the loop define.
LEMMA CursorExists ==
  ASSUME NEW low, NEW high
  PROVE  \E f : CursorRule(f, low, high)
<1> DEFINE G == [n \in Nat |-> [c \in Nat |-> Next1(low, high, n, c)]]
<1>1. PICK f : Computes(f, G, 0)
  <2> HIDE DEF G
  <2>1. QED
    BY Recursion
<1>2. f[0] = 0 /\ \A n \in Nat \ {0} : f[n] = G[n][f[n - 1]]
  <2> HIDE DEF G
  <2>1. QED
    BY <1>1 DEF Computes
<1> DEFINE A == {n \in Nat : f[n] \in Nat}
<1>3. 0 \in A
  BY <1>2
<1>4. ASSUME NEW n \in A PROVE n + 1 \in A
  <2>1. n + 1 \in Nat \ {0} /\ (n + 1) - 1 = n /\ f[n] \in Nat
    BY <1>4
  <2>2. f[n + 1] = G[n + 1][f[n]]
    BY <1>2, <2>1
  <2>3. G[n + 1][f[n]] = Next1(low, high, n + 1, f[n])
    BY <2>1
  <2>4. Next1(low, high, n + 1, f[n]) \in Nat
    BY <2>1 DEF Next1
  <2>5. QED
    BY <2>1, <2>2, <2>3, <2>4
<1> HIDE DEF A
<1>5. A = Nat
  <2>1. A \in SUBSET Nat
    BY DEF A
  <2>2. QED
    BY <1>3, <1>4, <2>1, Induction
<1>6. ASSUME NEW n \in Nat \ {0} PROVE f[n] = Next1(low, high, n, f[n - 1])
  <2>1. n - 1 \in Nat
    OBVIOUS
  <2>2. f[n - 1] \in Nat
    BY <1>5, <2>1 DEF A
  <2>3. QED
    BY <1>2, <2>2
<1> DEFINE H == [n \in Nat |->
             IF n = 0 THEN 0
             ELSE IF TakesLow(low, high, f[n - 1], n - 1 - f[n - 1]) THEN f[n - 1] + 1
             ELSE f[n - 1]]
<1> HIDE DEF G
<1>7. f = [n \in Nat |-> f[n]]
  BY <1>1 DEF Computes
<1>8. \A n \in Nat : f[n] = H[n]
  BY <1>2, <1>6 DEF Next1
<1>9. f = H
  BY <1>7, <1>8
<1>10. CursorRule(f, low, high)
  BY <1>9 DEF CursorRule
<1>11. QED
  BY <1>10

LEMMA CursorIs ==
  ASSUME NEW low, NEW high
  PROVE  /\ Cursor(low, high)[0] = 0
         /\ \A n \in Nat \ {0} :
              Cursor(low, high)[n] = Next1(low, high, n, Cursor(low, high)[n - 1])
<1>1. \E f : CursorRule(f, low, high)
  BY CursorExists
<1>2. Cursor(low, high) = CHOOSE f : CursorRule(f, low, high)
  BY DEF Cursor, CursorRule
<1>3. CursorRule(Cursor(low, high), low, high)
  BY <1>1, <1>2
<1>4. QED
  BY <1>3 DEF CursorRule, Next1

\* How many of each sequence are taken after n rounds.
Taken(low, high, cur, n) ==
  cur[n] \in 0 .. Len(low) /\ n - cur[n] \in 0 .. Len(high)

Takes(low, high, cur, n) ==
  \/ /\ cur[n] = cur[n - 1] + 1
     /\ n - cur[n] < Len(high) => low[cur[n]] < high[n - cur[n] + 1]
  \/ /\ cur[n] = cur[n - 1]
     /\ cur[n] < Len(low) => high[n - cur[n]] <= low[cur[n] + 1]

\* Neither count exceeds the sequence it is about.
LEMMA CursorMoves ==
  ASSUME NEW low \in Seq(Int), NEW high \in Seq(Int)
  PROVE  /\ \A n \in 0 .. Len(low) + Len(high) : Taken(low, high, Cursor(low, high), n)
         /\ \A n \in 1 .. Len(low) + Len(high) : Takes(low, high, Cursor(low, high), n)
<1> DEFINE cur == Cursor(low, high)
           m == Len(low)
           h == Len(high)
           A == {n \in Nat : n <= m + h => Taken(low, high, cur, n)}
<1>1. m \in Nat /\ h \in Nat
  BY LenProperties
<1>2. cur[0] = 0 /\ \A n \in Nat \ {0} : cur[n] = Next1(low, high, n, cur[n - 1])
  BY CursorIs
<1>3. (\A pos \in 1 .. m : low[pos] \in Int) /\ (\A pos \in 1 .. h : high[pos] \in Int)
  BY LenProperties
<1> HIDE DEF cur
<1>4. 0 \in A
  BY <1>1, <1>2 DEF Taken
<1>5. ASSUME NEW n \in Nat, n < m + h, Taken(low, high, cur, n)
      PROVE  Taken(low, high, cur, n + 1) /\ Takes(low, high, cur, n + 1)
  <2>7. cur[n] \in 0 .. m /\ n - cur[n] \in 0 .. h
    BY <1>5 DEF Taken
  <2>8. PICK c \in 0 .. m : c = cur[n]
    BY <2>7
  <2>1. n + 1 \in Nat \ {0} /\ (n + 1) - 1 = n
    OBVIOUS
  <2>2. cur[n + 1] = IF TakesLow(low, high, c, n - c) THEN c + 1 ELSE c
    BY <1>2, <2>1, <2>8 DEF Next1
  <2>3. c \in 0 .. m /\ n - c \in 0 .. h
    BY <2>7, <2>8
  <2>9. c \in Int /\ c + 1 \in Int /\ (n + 1) - (c + 1) = n - c /\ (n + 1) - c = n - c + 1
    BY <1>1, <2>3
  <2>4. CASE TakesLow(low, high, c, n - c)
    <3>1. c < m /\ (n - c < h => low[c + 1] < high[n - c + 1])
      BY <2>4 DEF TakesLow
    <3>2. cur[n + 1] = c + 1 /\ (n + 1) - (c + 1) = n - c
      BY <2>2, <2>4, <2>9
    <3>4. Taken(low, high, cur, n + 1)
      BY <1>1, <2>3, <2>9, <3>1, <3>2 DEF Taken
    <3>5. Takes(low, high, cur, n + 1)
      BY <2>1, <2>8, <2>9, <3>1, <3>2 DEF Takes
    <3>6. QED
      BY <3>4, <3>5
  <2>5. CASE ~ TakesLow(low, high, c, n - c)
    <3>1. c < m => n - c < h /\ ~ (low[c + 1] < high[n - c + 1])
      BY <2>5 DEF TakesLow
    <3>2. n - c < h
      BY <1>1, <1>5, <2>3, <3>1
    <3>3. cur[n + 1] = c /\ (n + 1) - c = n - c + 1
      BY <2>2, <2>5, <2>9
    <3>4. c < m => high[n - c + 1] <= low[c + 1]
      <4>1. ASSUME c < m PROVE low[c + 1] \in Int /\ high[n - c + 1] \in Int
        <5>1. c + 1 \in 1 .. m /\ n - c + 1 \in 1 .. h
          BY <1>1, <2>3, <3>2, <4>1
        <5>2. QED
          BY <1>3, <5>1
      <4>2. QED
        BY <3>1, <4>1
    <3>5. Taken(low, high, cur, n + 1)
      BY <1>1, <2>3, <3>2, <3>3 DEF Taken
    <3>6. Takes(low, high, cur, n + 1)
      BY <2>1, <2>8, <3>3, <3>4 DEF Takes
    <3>7. QED
      BY <3>5, <3>6
  <2>6. QED
    BY <2>4, <2>5
<1>6. ASSUME NEW n \in A PROVE n + 1 \in A
  BY <1>1, <1>5
<1>7. A = Nat
  <2>1. A \in SUBSET Nat
    OBVIOUS
  <2> HIDE DEF A
  <2>2. QED
    BY <1>4, <1>6, <2>1, Induction
<1>8. \A n \in 0 .. m + h : Taken(low, high, cur, n)
  BY <1>1, <1>7
<1>9. ASSUME NEW n \in 1 .. m + h PROVE Takes(low, high, cur, n)
  <2>1. n - 1 \in Nat /\ n - 1 < m + h /\ n - 1 \in 0 .. m + h /\ (n - 1) + 1 = n
    BY <1>1
  <2>2. Taken(low, high, cur, n - 1)
    BY <1>8, <2>1
  <2>3. Takes(low, high, cur, (n - 1) + 1)
    BY <1>5, <2>1, <2>2
  <2>4. QED
    BY <2>1, <2>3
<1>10. QED
  BY <1>8, <1>9 DEF cur

\* Neither count ever falls.
LEMMA CursorGrows ==
  ASSUME NEW low \in Seq(Int), NEW high \in Seq(Int),
         NEW n \in 0 .. Len(low) + Len(high), NEW k \in 0 .. Len(low) + Len(high), n <= k
  PROVE  /\ Cursor(low, high)[n] <= Cursor(low, high)[k]
         /\ n - Cursor(low, high)[n] <= k - Cursor(low, high)[k]
<1> DEFINE cur == Cursor(low, high)
           N == Len(low) + Len(high)
           A == {d \in Nat : n + d <= N => cur[n] <= cur[n + d] /\ n - cur[n] <= (n + d) - cur[n + d]}
<1>1. N \in Nat
  BY LenProperties
<1>2. \A pos \in 0 .. N : cur[pos] \in Int
  BY CursorMoves DEF Taken
<1>3. \A pos \in 1 .. N : cur[pos] = cur[pos - 1] + 1 \/ cur[pos] = cur[pos - 1]
  BY CursorMoves DEF Takes
<1> HIDE DEF cur
<1>4. n \in 0 .. N /\ k \in 0 .. N
  OBVIOUS
<1> HIDE DEF N
<1>5. 0 \in A
  BY <1>1, <1>2, <1>4
<1>6. ASSUME NEW d \in A PROVE d + 1 \in A
  <2>1. d \in Nat /\ d + 1 \in Nat
    BY <1>6
  <2>2. ASSUME n + (d + 1) <= N
        PROVE  cur[n] <= cur[n + (d + 1)] /\ n - cur[n] <= (n + (d + 1)) - cur[n + (d + 1)]
    <3>1. n + d <= N /\ n + (d + 1) \in 1 .. N /\ n + (d + 1) - 1 = n + d /\ n + d \in 0 .. N
      BY <1>1, <1>4, <2>1, <2>2
    <3>2. cur[n + (d + 1)] = cur[n + d] + 1 \/ cur[n + (d + 1)] = cur[n + d]
      BY <1>3, <3>1
    <3>3. cur[n] \in Int /\ cur[n + d] \in Int
      BY <1>2, <1>4, <3>1
    <3>4. cur[n] <= cur[n + d] /\ n - cur[n] <= (n + d) - cur[n + d]
      BY <1>6, <3>1
    <3>5. QED
      BY <1>4, <2>1, <3>2, <3>3, <3>4
  <2>3. QED
    BY <2>1, <2>2
<1>7. A = Nat
  <2>1. A \in SUBSET Nat
    OBVIOUS
  <2> HIDE DEF A
  <2>2. QED
    BY <1>5, <1>6, <2>1, Induction
<1>8. k - n \in Nat /\ n + (k - n) = k /\ k <= N
  BY <1>1, <1>4
<1>9. k - n \in A
  BY <1>7, <1>8
<1>10. QED
  BY <1>8, <1>9 DEF cur

\* The element of round n is from low.
FromLow(low, high, n) == Cursor(low, high)[n] > Cursor(low, high)[n - 1]

LEMMA MergedIs ==
  ASSUME NEW low \in Seq(Int), NEW high \in Seq(Int)
  PROVE  /\ Merged(low, high) \in Seq(Int)
         /\ Len(Merged(low, high)) = Len(low) + Len(high)
         /\ \A n \in 1 .. Len(low) + Len(high) :
              /\ Cursor(low, high)[n] \in 0 .. Len(low)
              /\ Cursor(low, high)[n - 1] \in 0 .. Len(low)
              /\ FromLow(low, high, n) =>
                   /\ Cursor(low, high)[n] = Cursor(low, high)[n - 1] + 1
                   /\ Cursor(low, high)[n] \in 1 .. Len(low)
                   /\ Merged(low, high)[n] = low[Cursor(low, high)[n]]
              /\ ~ FromLow(low, high, n) =>
                   /\ Cursor(low, high)[n] = Cursor(low, high)[n - 1]
                   /\ n - Cursor(low, high)[n] \in 1 .. Len(high)
                   /\ Merged(low, high)[n] = high[n - Cursor(low, high)[n]]
<1> DEFINE cur == Cursor(low, high)
           M == Merged(low, high)
           m == Len(low)
           h == Len(high)
<1>1. m \in Nat /\ h \in Nat
  BY LenProperties
<1>2. (\A pos \in 1 .. m : low[pos] \in Int) /\ (\A pos \in 1 .. h : high[pos] \in Int)
  BY LenProperties
<1>3. \A n \in 0 .. m + h : cur[n] \in 0 .. m /\ n - cur[n] \in 0 .. h
  BY CursorMoves DEF Taken
<1>4. \A n \in 1 .. m + h : cur[n] = cur[n - 1] + 1 \/ cur[n] = cur[n - 1]
  BY CursorMoves DEF Takes
<1>5. M = [n \in 1 .. m + h |-> IF cur[n] > cur[n - 1] THEN low[cur[n]] ELSE high[n - cur[n]]]
  BY DEF Merged
<1> HIDE DEF m, h, M, cur
<1>6. ASSUME NEW n \in 1 .. m + h
      PROVE  /\ cur[n] \in 0 .. m /\ cur[n - 1] \in 0 .. m
             /\ cur[n] > cur[n - 1] => /\ cur[n] = cur[n - 1] + 1
                                       /\ cur[n] \in 1 .. m
                                       /\ M[n] = low[cur[n]]
             /\ ~ (cur[n] > cur[n - 1]) => /\ cur[n] = cur[n - 1]
                                           /\ n - cur[n] \in 1 .. h
                                           /\ M[n] = high[n - cur[n]]
  <2>1. n \in 0 .. m + h /\ n - 1 \in 0 .. m + h
    BY <1>1
  <2>2. /\ cur[n] \in 0 .. m /\ n - cur[n] \in 0 .. h
        /\ cur[n - 1] \in 0 .. m /\ (n - 1) - cur[n - 1] \in 0 .. h
    BY <1>3, <2>1
  <2>3. cur[n] = cur[n - 1] + 1 \/ cur[n] = cur[n - 1]
    BY <1>4
  <2>4. M[n] = IF cur[n] > cur[n - 1] THEN low[cur[n]] ELSE high[n - cur[n]]
    BY <1>5
  <2>5. cur[n] > cur[n - 1] => cur[n] = cur[n - 1] + 1 /\ cur[n] \in 1 .. m
    BY <1>1, <2>2, <2>3
  <2>6. ~ (cur[n] > cur[n - 1]) => cur[n] = cur[n - 1] /\ n - cur[n] \in 1 .. h
    BY <1>1, <2>1, <2>2, <2>3
  <2>7. QED
    BY <2>2, <2>4, <2>5, <2>6
<1>7. M \in Seq(Int) /\ Len(M) = m + h
  <2>1. \A n \in 1 .. m + h : M[n] \in Int
    BY <1>2, <1>6
  <2>2. M = [n \in 1 .. m + h |-> M[n]]
    BY <1>5
  <2>3. M \in [1 .. m + h -> Int]
    BY <2>1, <2>2
  <2>4. m + h \in Nat
    BY <1>1
  <2>5. M \in Seq(Int)
    BY <2>3, <2>4, SeqDef
  <2>6. DOMAIN M = 1 .. m + h
    BY <2>3
  <2>7. QED
    BY <2>4, <2>5, <2>6, LenProperties
<1>8. QED
  BY <1>6, <1>7 DEF cur, M, m, h, FromLow

\* Of two numbers the lower one has room above it.
LEMMA RoomAbove ==
  ASSUME NEW m \in Nat, NEW c \in 0 .. m, NEW d \in 1 .. m, c + 1 <= d
  PROVE  c < m /\ c + 1 \in 1 .. m
OBVIOUS

\* From one number to the next but one.
LEMMA NotAbove ==
  ASSUME NEW x \in Int, NEW y \in Int, NEW z \in Int, x <= y, y <= z
  PROVE  x <= z
OBVIOUS

\* Merging keeps the order.
LEMMA MergedSorted ==
  ASSUME NEW low \in Seq(Int), NEW high \in Seq(Int), Sorted(low), Sorted(high)
  PROVE  Sorted(Merged(low, high))
<1> DEFINE cur == Cursor(low, high)
           M == Merged(low, high)
           m == Len(low)
           h == Len(high)
           From(n) == FromLow(low, high, n)
<1>1. m \in Nat /\ h \in Nat
  BY LenProperties
<1>2. (\A pos \in 1 .. m : low[pos] \in Int) /\ (\A pos \in 1 .. h : high[pos] \in Int)
  BY LenProperties
<1>3. /\ \A pos, j \in 1 .. m : pos <= j => low[pos] <= low[j]
      /\ \A pos, j \in 1 .. h : pos <= j => high[pos] <= high[j]
  <2>1. DOMAIN low = 1 .. m /\ DOMAIN high = 1 .. h
    BY LenProperties
  <2>2. /\ \A pos, j \in 1 .. m : pos < j => low[pos] <= low[j]
        /\ \A pos, j \in 1 .. h : pos < j => high[pos] <= high[j]
    BY <2>1 DEF Sorted
  <2>3. \A pos, j \in 1 .. m : pos <= j => pos = j \/ pos < j
    BY <1>1
  <2>4. \A pos, j \in 1 .. h : pos <= j => pos = j \/ pos < j
    BY <1>1
  <2>5. /\ \A pos \in 1 .. m : low[pos] <= low[pos]
        /\ \A pos \in 1 .. h : high[pos] <= high[pos]
    BY <1>2
  <2> HIDE DEF m, h
  <2>6. QED
    BY <2>2, <2>3, <2>4, <2>5
<1>4. \A n \in 1 .. m + h :
        /\ cur[n] \in 0 .. m /\ cur[n - 1] \in 0 .. m
        /\ From(n) => cur[n] = cur[n - 1] + 1 /\ cur[n] \in 1 .. m /\ M[n] = low[cur[n]]
        /\ ~ From(n) => cur[n] = cur[n - 1] /\ n - cur[n] \in 1 .. h /\ M[n] = high[n - cur[n]]
  BY MergedIs
<1>5. \A n \in 1 .. m + h :
        /\ From(n) => (n - cur[n] < h => low[cur[n]] < high[n - cur[n] + 1])
        /\ ~ From(n) => (cur[n] < m => high[n - cur[n]] <= low[cur[n] + 1])
  <2>1. \A n \in 1 .. m + h : Takes(low, high, cur, n)
    BY CursorMoves
  <2>2. ASSUME NEW n \in 1 .. m + h PROVE From(n) <=> cur[n] > cur[n - 1]
    BY DEF FromLow
  <2> HIDE DEF From, cur, m, h, M
  <2>3. ASSUME NEW n \in 1 .. m + h, From(n)
        PROVE  n - cur[n] < h => low[cur[n]] < high[n - cur[n] + 1]
    <3>1. cur[n] = cur[n - 1] + 1 /\ cur[n - 1] \in Int /\ cur[n] # cur[n - 1]
      BY <1>1, <1>4, <2>3
    <3>2. QED
      BY <2>1, <3>1 DEF Takes, h
  <2>4. ASSUME NEW n \in 1 .. m + h, ~ From(n)
        PROVE  cur[n] < m => high[n - cur[n]] <= low[cur[n] + 1]
    <3>1. cur[n] = cur[n - 1] /\ cur[n - 1] \in Int /\ cur[n] # cur[n - 1] + 1
      BY <1>1, <1>4, <2>4
    <3>2. QED
      BY <2>1, <3>1 DEF Takes, m
  <2>5. QED
    BY <2>3, <2>4
<1>6. \A j, k \in 0 .. m + h : j <= k => cur[j] <= cur[k] /\ j - cur[j] <= k - cur[k]
  BY CursorGrows
<1>10. \A n \in 0 .. m + h : cur[n] \in 0 .. m /\ n - cur[n] \in 0 .. h
  BY CursorMoves DEF Taken
<1>7. DOMAIN M = 1 .. m + h
  <2>1. M \in Seq(Int) /\ Len(M) = m + h
    BY MergedIs
  <2>2. QED
    BY <2>1, LenProperties
<1> HIDE DEF cur, M, m, h, From
<1>8. ASSUME NEW j \in 1 .. m + h, NEW k \in 1 .. m + h, j < k PROVE M[j] <= M[k]
  <2>1. /\ j \in Int /\ k \in Int /\ k - 1 \in 0 .. m + h
        /\ j \in 0 .. m + h /\ k \in 0 .. m + h /\ j <= k - 1 /\ j <= k
    BY <1>1, <1>8
  <2>2. /\ cur[j] <= cur[k] /\ j - cur[j] <= k - cur[k]
        /\ cur[j] <= cur[k - 1] /\ j - cur[j] <= (k - 1) - cur[k - 1]
    BY <1>6, <2>1
  <2>3. PICK cj \in 0 .. m : cj = cur[j] /\ j - cj \in 0 .. h
    BY <1>10, <2>1
  <2>4. PICK ck \in 0 .. m : ck = cur[k] /\ k - ck \in 0 .. h
    BY <1>10, <2>1
  <2>5. PICK cp \in 0 .. m : cp = cur[k - 1]
    BY <1>10, <2>1
  <2>6. /\ cj <= ck /\ j - cj <= k - ck /\ cj <= cp /\ j - cj <= (k - 1) - cp
    BY <2>2, <2>3, <2>4, <2>5
  <2>7. /\ From(j) => /\ cj \in 1 .. m /\ M[j] = low[cj]
                      /\ j - cj < h => low[cj] < high[j - cj + 1]
        /\ ~ From(j) => /\ j - cj \in 1 .. h /\ M[j] = high[j - cj]
                        /\ cj < m => high[j - cj] <= low[cj + 1]
    BY <1>4, <1>5, <2>3
  <2>8. /\ From(k) => ck \in 1 .. m /\ M[k] = low[ck] /\ ck = cp + 1
        /\ ~ From(k) => k - ck \in 1 .. h /\ M[k] = high[k - ck] /\ ck = cp
    BY <1>4, <2>4, <2>5
  <2>9. CASE From(j) /\ From(k)
    BY <1>3, <2>6, <2>7, <2>8, <2>9
  <2>10. CASE From(j) /\ ~ From(k)
    <3>1. j - cj + 1 <= k - ck
      BY <2>1, <2>6, <2>8, <2>10
    <3>7. k - ck \in 1 .. h /\ cj \in 1 .. m
      BY <2>7, <2>8, <2>10
    <3>2. j - cj < h /\ j - cj + 1 \in 1 .. h /\ k - ck \in 1 .. h /\ cj \in 1 .. m
      BY <1>1, <2>1, <2>3, <3>1, <3>7
    <3>3. low[cj] < high[j - cj + 1] /\ high[j - cj + 1] <= high[k - ck]
      BY <1>3, <2>7, <2>10, <3>1, <3>2
    <3>4. low[cj] \in Int /\ high[j - cj + 1] \in Int /\ high[k - ck] \in Int
      BY <1>2, <3>2
    <3>5. M[j] = low[cj] /\ M[k] = high[k - ck]
      BY <2>7, <2>8, <2>10
    <3>6. QED
      BY <3>3, <3>4, <3>5
  <2>11. CASE ~ From(j) /\ ~ From(k)
    BY <1>3, <2>6, <2>7, <2>8, <2>11
  <2>12. CASE ~ From(j) /\ From(k)
    <3>1. cj + 1 <= ck
      BY <2>1, <2>6, <2>8, <2>12
    <3>7. j - cj \in 1 .. h /\ ck \in 1 .. m
      BY <2>7, <2>8, <2>12
    <3>2. cj < m /\ cj + 1 \in 1 .. m /\ j - cj \in 1 .. h /\ ck \in 1 .. m
      <4>1. cj < m /\ cj + 1 \in 1 .. m
        <5>1. ck \in 1 .. m
          BY <3>7
        <5>2. m \in Nat /\ cj \in 0 .. m
          BY <1>1, <2>3, Zenon
        <5>3. QED
          BY <3>1, <5>1, <5>2, RoomAbove, Zenon
      <4>2. QED
        BY <3>7, <4>1
    <3>3. high[j - cj] <= low[cj + 1] /\ low[cj + 1] <= low[ck]
      BY <1>3, <2>7, <2>12, <3>1, <3>2
    <3>4. high[j - cj] \in Int /\ low[cj + 1] \in Int /\ low[ck] \in Int
      BY <1>2, <3>2
    <3>5. M[j] = high[j - cj] /\ M[k] = low[ck]
      BY <2>7, <2>8, <2>12
    <3>8. high[j - cj] <= low[ck]
      BY <3>3, <3>4, NotAbove, Zenon
    <3>6. QED
      BY <3>5, <3>8, Zenon
  <2>13. QED
    BY <2>9, <2>10, <2>11, <2>12
<1>9. QED
  BY <1>7, <1>8 DEF Sorted, M

\* Merging loses nothing and adds nothing.
LEMMA MergedArranged ==
  ASSUME NEW low \in Seq(Int), NEW high \in Seq(Int)
  PROVE  Merged(low, high) \in Arrangements(low \o high)
<1> DEFINE cur == Cursor(low, high)
           M == Merged(low, high)
           m == Len(low)
           h == Len(high)
           From(n) == FromLow(low, high, n)
           r == [n \in 1 .. m + h |-> IF From(n) THEN cur[n] ELSE m + (n - cur[n])]
           A == {n \in Nat : n <= m + h =>
                  /\ \A j \in 1 .. cur[n] : \E k \in 1 .. m + h : From(k) /\ cur[k] = j
                  /\ \A j \in 1 .. n - cur[n] : \E k \in 1 .. m + h : ~ From(k) /\ k - cur[k] = j}
<1>1. m \in Nat /\ h \in Nat
  BY LenProperties
<1>2. \A n \in 1 .. m + h :
        /\ From(n) => cur[n] = cur[n - 1] + 1 /\ cur[n] \in 1 .. m /\ M[n] = low[cur[n]]
        /\ ~ From(n) => cur[n] = cur[n - 1] /\ n - cur[n] \in 1 .. h /\ M[n] = high[n - cur[n]]
  BY MergedIs
<1>3. \A n \in 0 .. m + h : cur[n] \in 0 .. m /\ n - cur[n] \in 0 .. h
  BY CursorMoves DEF Taken
<1>4. M \in Seq(Int) /\ Len(M) = m + h
  BY MergedIs
<1>5. /\ low \o high \in Seq(Int) /\ Len(low \o high) = m + h
      /\ \A k \in 1 .. m + h : (low \o high)[k] = IF k <= m THEN low[k] ELSE high[k - m]
  BY ConcatProperties
<1>6. cur[0] = 0
  BY CursorIs
<1> HIDE DEF cur, M, m, h, From
<1>7. 0 \in A
  BY <1>6
<1>8. ASSUME NEW n \in A PROVE n + 1 \in A
  <2>1. n \in Nat /\ n + 1 \in Nat
    BY <1>8
  <2>2. ASSUME n + 1 <= m + h
        PROVE  /\ \A j \in 1 .. cur[n + 1] : \E k \in 1 .. m + h : From(k) /\ cur[k] = j
               /\ \A j \in 1 .. (n + 1) - cur[n + 1] : \E k \in 1 .. m + h : ~ From(k) /\ k - cur[k] = j
    <3>1. n <= m + h /\ n + 1 \in 1 .. m + h /\ (n + 1) - 1 = n /\ n \in 0 .. m + h /\ n + 1 \in 0 .. m + h
      BY <1>1, <2>1, <2>2
    <3>2. /\ \A j \in 1 .. cur[n] : \E k \in 1 .. m + h : From(k) /\ cur[k] = j
          /\ \A j \in 1 .. n - cur[n] : \E k \in 1 .. m + h : ~ From(k) /\ k - cur[k] = j
      BY <1>8, <3>1
    <3>3. PICK c \in 0 .. m : c = cur[n]
      BY <1>3, <3>1
    <3>4. PICK e \in 0 .. m : e = cur[n + 1]
      BY <1>3, <3>1
    <3>5. IF From(n + 1) THEN e = c + 1 ELSE e = c
      BY <1>2, <3>1, <3>3, <3>4
    <3> HIDE DEF A, r
    <3>6. ASSUME NEW j \in 1 .. e PROVE \E k \in 1 .. m + h : From(k) /\ cur[k] = j
      <4>1. CASE j \in 1 .. c
        BY <3>2, <3>3, <4>1
      <4>2. CASE ~ (j \in 1 .. c)
        <5>1. From(n + 1) /\ j = e
          BY <3>5, <4>2
        <5>2. QED
          BY <3>1, <3>4, <5>1
      <4>3. QED
        BY <4>1, <4>2
    <3>7. ASSUME NEW j \in 1 .. (n + 1) - e
          PROVE  \E k \in 1 .. m + h : ~ From(k) /\ k - cur[k] = j
      <4>1. CASE j \in 1 .. n - c
        BY <3>2, <3>3, <4>1
      <4>2. CASE ~ (j \in 1 .. n - c)
        <5>1. ~ From(n + 1) /\ j = (n + 1) - e
          BY <2>1, <3>5, <4>2
        <5>2. QED
          BY <3>1, <3>4, <5>1
      <4>3. QED
        BY <4>1, <4>2
    <3>8. QED
      BY <3>4, <3>6, <3>7
  <2>3. QED
    BY <2>1, <2>2
<1>9. A = Nat
  <2>1. A \in SUBSET Nat
    OBVIOUS
  <2> HIDE DEF A
  <2>2. QED
    BY <1>7, <1>8, <2>1, Induction
<1>10. /\ \A j \in 1 .. m : \E k \in 1 .. m + h : From(k) /\ cur[k] = j
       /\ \A j \in 1 .. h : \E k \in 1 .. m + h : ~ From(k) /\ k - cur[k] = j
  <2>1. m + h \in A /\ m + h \in Nat /\ m + h \in 0 .. m + h
    BY <1>1, <1>9
  <2>2. cur[m + h] = m /\ (m + h) - cur[m + h] = h
    BY <1>1, <1>3, <2>1
  <2>3. QED
    BY <2>1, <2>2
<1> HIDE DEF A
<1>11. \A n \in 1 .. m + h : r[n] = IF From(n) THEN cur[n] ELSE m + (n - cur[n])
  OBVIOUS
<1>12. ASSUME NEW n \in 1 .. m + h
       PROVE  r[n] \in 1 .. m + h /\ M[n] = (low \o high)[r[n]]
  <2>1. CASE From(n)
    <3>1. PICK c \in 1 .. m : c = cur[n] /\ M[n] = low[c]
      BY <1>2, <2>1
    <3>2. r[n] = c /\ c \in 1 .. m + h /\ c <= m
      BY <1>1, <1>11, <2>1, <3>1
    <3>3. QED
      BY <1>5, <3>1, <3>2
  <2>2. CASE ~ From(n)
    <3>1. PICK c \in 1 .. h : c = n - cur[n] /\ M[n] = high[c]
      BY <1>2, <2>2
    <3>2. r[n] = m + c /\ m + c \in 1 .. m + h /\ ~ (m + c <= m) /\ m + c - m = c
      BY <1>1, <1>11, <2>2, <3>1
    <3>5. PICK pos \in 1 .. m + h : pos = m + c
      BY <3>2
    <3>6. ~ (pos <= m) /\ pos - m = c
      BY <1>1, <3>2, <3>5
    <3>3. (low \o high)[pos] = high[c]
      BY <1>5, <3>6
    <3>4. QED
      BY <3>1, <3>2, <3>3, <3>5
  <2>3. QED
    BY <2>1, <2>2
<1>13. ASSUME NEW j \in 1 .. m + h PROVE \E n \in 1 .. m + h : r[n] = j
  <2>1. CASE j <= m
    <3>1. j \in 1 .. m
      BY <1>1, <2>1
    <3>2. PICK k \in 1 .. m + h : From(k) /\ cur[k] = j
      BY <1>10, <3>1
    <3>3. QED
      BY <1>11, <3>2
  <2>2. CASE ~ (j <= m)
    <3>1. j - m \in 1 .. h
      BY <1>1, <2>2
    <3>2. PICK k \in 1 .. m + h : ~ From(k) /\ k - cur[k] = j - m
      BY <1>10, <3>1
    <3>3. m + (j - m) = j
      BY <1>1
    <3>4. QED
      BY <1>11, <3>2, <3>3
  <2>3. QED
    BY <2>1, <2>2
<1>14. r \in Onto(m + h)
  <2>1. r \in [1 .. m + h -> 1 .. m + h]
    BY <1>12
  <2>2. m + h \in Nat
    BY <1>1
  <2> HIDE DEF r
  <2>3. QED
    BY <1>13, <2>1, <2>2, OntoIs, Zenon
<1> HIDE DEF r
<1>15. /\ M \in Seq(Int) /\ Len(M) = Len(low \o high)
       /\ r \in Onto(Len(low \o high))
       /\ \A k \in 1 .. Len(low \o high) : M[k] = (low \o high)[r[k]]
  BY <1>4, <1>5, <1>12, <1>14
<1>16. M \in Arrangements(low \o high)
  BY <1>5, <1>15, ArrangementIs
<1>17. QED
  BY <1>16 DEF M


(***************************************************************************)
(* qsort.                                                                  *)
(***************************************************************************)
LEMMA SortedExists ==
  ASSUME NEW s \in Seq(Int)
  PROVE  \E r \in Arrangements(s) : Sorted(r)
<1> DEFINE A == {n \in Nat : \A q \in Seq(Int) : Len(q) = n => \E r \in Arrangements(q) : Sorted(r)}
<1>1. 0 \in A
  <2>1. ASSUME NEW q \in Seq(Int), Len(q) = 0 PROVE \E r \in Arrangements(q) : Sorted(r)
    <3>1. DOMAIN q = {}
      BY <2>1, LenProperties
    <3>2. Sorted(q)
      BY <3>1 DEF Sorted
    <3>3. QED
      BY <3>2, ArrangedItself
  <2>2. QED
    BY <2>1
<1>2. ASSUME NEW n \in A PROVE n + 1 \in A
  <2>1. n \in Nat /\ n + 1 \in Nat
    BY <1>2
  <2>2. ASSUME NEW q \in Seq(Int), Len(q) = n + 1 PROVE \E r \in Arrangements(q) : Sorted(r)
    <3> DEFINE f == SubSeq(q, 1, n)
               x == <<q[n + 1]>>
    <3>1. q = f \o SubSeq(q, n + 1, n + 1) /\ f \in Seq(Int) /\ Len(f) = n
      <4>1. 1 \in 1 .. Len(q) + 1 /\ n \in 1 - 1 .. Len(q) /\ Len(q) \in n .. Len(q) /\ n + 1 \in Int
        BY <2>1, <2>2
      <4>2. SubSeq(q, 1, Len(q)) = q
        BY SubSeqFull
      <4>3. f \o SubSeq(q, n + 1, Len(q)) = SubSeq(q, 1, Len(q))
        BY <4>1, ConcatAdjacentSubSeq
      <4>4. f \in Seq(Int) /\ Len(f) = n
        BY <2>1, <4>1, SubSeqProperties
      <4>5. QED
        BY <2>2, <4>2, <4>3, <4>4
    <3>2. SubSeq(q, n + 1, n + 1) = x
      <4>1. n + 1 \in 1 .. Len(q) + 1 /\ n + 1 \in (n + 1) - 1 .. Len(q) /\ n + 1 \in 1 .. Len(q)
        BY <2>1, <2>2
      <4>2. /\ SubSeq(q, n + 1, n + 1) \in Seq(Int)
            /\ Len(SubSeq(q, n + 1, n + 1)) = 1
            /\ SubSeq(q, n + 1, n + 1)[1] = q[n + 1]
        BY <2>1, <4>1, SubSeqProperties
      <4>3. x \in Seq(Int) /\ Len(x) = 1 /\ x[1] = q[n + 1]
        BY <4>1, LenProperties
      <4> HIDE DEF x
      <4>4. \A pos \in 1 .. 1 : SubSeq(q, n + 1, n + 1)[pos] = x[pos]
        BY <4>2, <4>3
      <4>5. QED
        BY <4>2, <4>3, <4>4, SeqEqual
    <3>3. x \in Seq(Int) /\ DOMAIN x = {1}
      BY <2>1, <2>2, LenProperties
    <3>4. Sorted(x)
      BY <3>3 DEF Sorted
    <3> HIDE DEF f, x
    <3>5. PICK r \in Arrangements(f) : Sorted(r)
      BY <1>2, <3>1
    <3>6. r \in Seq(Int)
      BY <3>1, ArrangementIs
    <3>7. Sorted(Merged(r, x)) /\ Merged(r, x) \in Arrangements(r \o x)
      BY <3>3, <3>4, <3>5, <3>6, MergedSorted, MergedArranged
    <3>8. r \o x \in Arrangements(f \o x)
      BY <3>1, <3>3, ArrangedItself, ArrangedBoth
    <3>9. f \o x \in Seq(Int) /\ f \o x = q
      BY <3>1, <3>2
    <3>10. Merged(r, x) \in Arrangements(q)
      BY <3>7, <3>8, <3>9, ArrangedTwice
    <3>11. QED
      BY <3>7, <3>10
  <2>3. QED
    BY <2>1, <2>2
<1>3. A = Nat
  <2>1. A \in SUBSET Nat
    OBVIOUS
  <2> HIDE DEF A
  <2>2. QED
    BY <1>1, <1>2, <2>1, Induction
<1>4. Len(s) \in A
  BY <1>3, LenProperties
<1>5. QED
  BY <1>4

\* Where no difference is too large, cmp is the order of the numbers.
LEMMA cmpIs ==
  ASSUME IntMax \in Nat, NEW a \in Int, NEW b \in Int, a - b <= IntMax, b - a <= IntMax
  PROVE  cmp(a, b) = a - b
<1> DEFINE x == a - b + IntMax + 1
           w == 2 * (IntMax + 1)
<1>1. x \in 0 .. w - 1 /\ w \in Nat \ {0}
  OBVIOUS
<1>2. ASSUME NEW pos \in Nat, NEW k \in Nat \ {0}, pos < k PROVE pos % k = pos
  BY <1>2
<1>3. x % w = x
  <2> HIDE DEF x, w
  <2>1. x \in Nat /\ x < w
    BY <1>1
  <2>2. QED
    BY <1>1, <1>2, <2>1
<1>4. cmp(a, b) = (x % w) - (IntMax + 1)
  BY DEF cmp
<1>5. x - (IntMax + 1) = a - b
  OBVIOUS
<1> HIDE DEF x, w
<1>6. QED
  BY <1>3, <1>4, <1>5

\* An arrangement has the elements of what is arranged.
LEMMA ArrangementElements ==
  ASSUME NEW s \in Seq(Int), NEW a \in Arrangements(s)
  PROVE  /\ a \in Seq(Int) /\ Len(a) = Len(s)
         /\ \A k \in 1 .. Len(s) : \E j \in 1 .. Len(s) : a[k] = s[j]
<1>1. /\ a \in Seq(Int) /\ Len(a) = Len(s)
      /\ \E p \in Onto(Len(s)) : \A k \in 1 .. Len(s) : a[k] = s[p[k]]
  BY ArrangementIs
<1>2. PICK p \in Onto(Len(s)) : \A k \in 1 .. Len(s) : a[k] = s[p[k]]
  BY <1>1
<1>3. \A k \in 1 .. Len(s) : p[k] \in 1 .. Len(s)
  BY LenProperties, OntoTo
<1>4. QED
  BY <1>1, <1>2, <1>3

\* Nor do the numbers get farther apart.
LEMMA ArrangementClose ==
  ASSUME NEW s \in Seq(Int), NEW a \in Arrangements(s), Close(s)
  PROVE  Close(a)
<1>1. /\ a \in Seq(Int) /\ Len(a) = Len(s)
      /\ \A k \in 1 .. Len(s) : \E j \in 1 .. Len(s) : a[k] = s[j]
  BY ArrangementElements
<1>2. DOMAIN s = 1 .. Len(s) /\ DOMAIN a = 1 .. Len(s)
  BY <1>1, LenProperties
<1>3. \A j, k \in 1 .. Len(s) : s[j] - s[k] <= IntMax
  BY <1>2 DEF Close
<1>4. QED
  BY <1>1, <1>2, <1>3 DEF Close

\* What the C library returns.
LEMMA qsortIs ==
  ASSUME IntMax \in Nat, NEW s \in Seq(Int), NEW r \in qsort(s)
  PROVE  r \in Arrangements(s) /\ (Close(s) => Sorted(r))
<1> DEFINE InOrder(q) == \A j, k \in DOMAIN q : j < k => cmp(q[j], q[k]) <= 0
           ordered == {q \in Arrangements(s) : InOrder(q)}
<1>1. r \in IF ordered = {} THEN Arrangements(s) ELSE ordered
  BY DEF qsort
<1>2. ASSUME NEW q \in Arrangements(s), Close(s) PROVE InOrder(q) <=> Sorted(q)
  <2>1. q \in Seq(Int) /\ Close(q)
    BY <1>2, ArrangementElements, ArrangementClose
  <2>2. \A j \in DOMAIN q : q[j] \in Int
    BY <2>1, LenProperties
  <2>3. \A j, k \in DOMAIN q : cmp(q[j], q[k]) = q[j] - q[k]
    <3> TAKE j, k \in DOMAIN q
    <3>1. q[j] \in Int /\ q[k] \in Int /\ q[j] - q[k] <= IntMax /\ q[k] - q[j] <= IntMax
      BY <2>1, <2>2 DEF Close
    <3>2. QED
      BY <3>1, cmpIs
  <2>4. \A j, k \in DOMAIN q : cmp(q[j], q[k]) <= 0 <=> q[j] <= q[k]
    BY <2>2, <2>3
  <2>5. QED
    BY <2>4 DEF Sorted
<1> HIDE DEF InOrder
<1>3. Close(s) => ordered # {}
  BY <1>2, SortedExists
<1>4. QED
  BY <1>1, <1>2, <1>3


(***************************************************************************)
(* Segments.                                                               *)
(***************************************************************************)
LEMMA PartOf ==
  ASSUME NEW a \in Seq(Int), NEW b \in Int, NEW e \in Int, 1 <= b, b <= e + 1, e <= Len(a)
  PROVE  /\ SubSeq(a, b, e) \in Seq(Int) /\ Len(SubSeq(a, b, e)) = e - b + 1
         /\ DOMAIN SubSeq(a, b, e) = 1 .. e - b + 1
         /\ \A pos \in 1 .. e - b + 1 : SubSeq(a, b, e)[pos] = a[b + pos - 1]
<1>1. Len(a) \in Nat /\ \A pos \in 1 .. Len(a) : a[pos] \in Int
  BY LenProperties
<1>2. \A pos \in b .. e : a[pos] \in Int
  BY <1>1
<1>3. /\ SubSeq(a, b, e) \in Seq(Int)
      /\ Len(SubSeq(a, b, e)) = IF b <= e THEN e - b + 1 ELSE 0
      /\ \A pos \in 1 .. e - b + 1 : SubSeq(a, b, e)[pos] = a[b + pos - 1]
  BY <1>2, SubSeqProperties
<1>4. Len(SubSeq(a, b, e)) = e - b + 1
  BY <1>3
<1>5. QED
  BY <1>3, <1>4, LenProperties

\* A segment is in order if the elements there are.
LEMMA PartSorted ==
  ASSUME NEW a \in Seq(Int), NEW b \in Int, NEW e \in Int, 1 <= b, b <= e + 1, e <= Len(a)
  PROVE  Sorted(SubSeq(a, b, e)) <=> \A j, k \in b .. e : j < k => a[j] <= a[k]
<1> DEFINE q == SubSeq(a, b, e)
<1>1. DOMAIN q = 1 .. e - b + 1 /\ \A pos \in 1 .. e - b + 1 : q[pos] = a[b + pos - 1]
  BY PartOf
<1> HIDE DEF q
<1>2. ASSUME Sorted(q), NEW j \in b .. e, NEW k \in b .. e, j < k PROVE a[j] <= a[k]
  <2>1. /\ j - b + 1 \in 1 .. e - b + 1 /\ k - b + 1 \in 1 .. e - b + 1
        /\ j - b + 1 < k - b + 1 /\ b + (j - b + 1) - 1 = j /\ b + (k - b + 1) - 1 = k
    BY <1>2
  <2>2. q[j - b + 1] <= q[k - b + 1]
    BY <1>1, <1>2, <2>1 DEF Sorted
  <2>3. QED
    BY <1>1, <2>1, <2>2
<1>3. ASSUME \A j, k \in b .. e : j < k => a[j] <= a[k],
             NEW j \in 1 .. e - b + 1, NEW k \in 1 .. e - b + 1, j < k
      PROVE  q[j] <= q[k]
  <2>1. b + j - 1 \in b .. e /\ b + k - 1 \in b .. e /\ b + j - 1 < b + k - 1
    BY <1>3
  <2>2. a[b + j - 1] <= a[b + k - 1]
    BY <1>3, <2>1
  <2>3. QED
    BY <1>1, <2>2
<1>4. Sorted(q) <=> \A j, k \in 1 .. e - b + 1 : j < k => q[j] <= q[k]
  BY <1>1 DEF Sorted
<1>5. QED
  BY <1>2, <1>3, <1>4 DEF q

\* The numbers of a segment are no farther apart.
LEMMA PartClose ==
  ASSUME NEW a \in Seq(Int), NEW b \in Int, NEW e \in Int, 1 <= b, b <= e + 1, e <= Len(a),
         Close(a)
  PROVE  Close(SubSeq(a, b, e))
<1> DEFINE q == SubSeq(a, b, e)
<1>1. DOMAIN q = 1 .. e - b + 1 /\ \A pos \in 1 .. e - b + 1 : q[pos] = a[b + pos - 1]
  BY PartOf
<1>2. DOMAIN a = 1 .. Len(a) /\ Len(a) \in Nat
  BY LenProperties
<1> HIDE DEF q
<1>3. ASSUME NEW j \in 1 .. e - b + 1, NEW k \in 1 .. e - b + 1 PROVE q[j] - q[k] <= IntMax
  <2>1. b + j - 1 \in DOMAIN a /\ b + k - 1 \in DOMAIN a
    BY <1>2
  <2>2. a[b + j - 1] - a[b + k - 1] <= IntMax
    BY <2>1 DEF Close
  <2>3. QED
    BY <1>1, <2>2
<1>4. QED
  BY <1>1, <1>3 DEF Close, q

\* A segment that is arranged leaves the others alone.
LEMMA ReplacedIs ==
  ASSUME NEW a \in Seq(Int), NEW t, NEW b \in Int, NEW e \in Int,
         t.begin = b, t.end = e, 1 <= b, b <= e + 1, e <= Len(a),
         NEW s \in Arrangements(Segment(a, t))
  PROVE  /\ Replaced(a, t, s) \in Arrangements(a)
         /\ \A k \in 1 .. Len(a) : ~ (k \in b .. e) => Replaced(a, t, s)[k] = a[k]
         /\ Segment(Replaced(a, t, s), t) = s
<1> DEFINE n == Len(a)
           z == e - b + 1
           R == Replaced(a, t, s)
           q == SubSeq(a, b, e)
<1>1. n \in Nat /\ DOMAIN a = 1 .. n /\ \A pos \in 1 .. n : a[pos] \in Int
  BY LenProperties
<1>2. q \in Seq(Int) /\ Len(q) = z /\ \A pos \in 1 .. z : q[pos] = a[b + pos - 1]
  BY PartOf
<1>3. s \in Arrangements(q)
  BY DEF Segment
<1> HIDE DEF q
<1>4. s \in Seq(Int) /\ Len(s) = z /\ \E p \in Onto(z) : \A k \in 1 .. z : s[k] = q[p[k]]
  BY <1>2, <1>3, ArrangementIs
<1>5. PICK p \in Onto(z) : \A k \in 1 .. z : s[k] = q[p[k]]
  BY <1>4
<1>6. z \in Nat
  OBVIOUS
<1>7. /\ \A k \in 1 .. z : p[k] \in 1 .. z
      /\ \A j \in 1 .. z : \E k \in 1 .. z : p[k] = j
  <2> HIDE DEF z
  <2>1. QED
    BY <1>6, OntoTo
<1>8. R = [k \in 1 .. n |-> IF k \in b .. e THEN s[k - b + 1] ELSE a[k]]
  BY <1>1 DEF Replaced
<1> DEFINE r == [k \in 1 .. n |-> IF k \in b .. e THEN b + p[k - b + 1] - 1 ELSE k]
<1>9. \A k \in 1 .. n : r[k] = IF k \in b .. e THEN b + p[k - b + 1] - 1 ELSE k
  OBVIOUS
<1> HIDE DEF R, r, n
<1>15. e <= n
  BY DEF n
<1>10. ASSUME NEW k \in 1 .. n PROVE r[k] \in 1 .. n /\ R[k] = a[r[k]] /\ R[k] \in Int
  <2>1. CASE k \in b .. e
    <3>1. PICK pos \in 1 .. z : pos = k - b + 1
      BY <2>1
    <3>2. PICK j \in 1 .. z : j = p[pos]
      BY <1>7
    <3>3. r[k] = b + j - 1 /\ R[k] = s[pos]
      BY <1>8, <1>9, <2>1, <3>1, <3>2
    <3>4. s[pos] = q[j] /\ q[j] = a[b + j - 1]
      BY <1>2, <1>5, <3>2
    <3>5. b + j - 1 \in 1 .. n
      BY <1>1, <1>15
    <3>6. QED
      BY <1>1, <3>3, <3>4, <3>5
  <2>2. CASE ~ (k \in b .. e)
    BY <1>1, <1>8, <1>9, <2>2
  <2>3. QED
    BY <2>1, <2>2
<1>11. ASSUME NEW j \in 1 .. n PROVE \E k \in 1 .. n : r[k] = j
  <2>1. CASE j \in b .. e
    <3>1. j - b + 1 \in 1 .. z
      BY <2>1
    <3>2. PICK pos \in 1 .. z : p[pos] = j - b + 1
      BY <1>7, <3>1
    <3>3. PICK k \in 1 .. n : k = b + pos - 1
      BY <1>1, <1>15
    <3>4. k \in b .. e /\ k - b + 1 = pos
      BY <3>3
    <3>5. r[k] = b + (j - b + 1) - 1
      BY <1>9, <3>2, <3>4
    <3>6. QED
      BY <3>5
  <2>2. CASE ~ (j \in b .. e)
    BY <1>9, <2>2
  <2>3. QED
    BY <2>1, <2>2
<1>12. r \in Onto(n)
  <2>1. r \in [1 .. n -> 1 .. n]
    BY <1>10 DEF r
  <2>2. QED
    BY <1>1, <1>11, <2>1, OntoIs
<1>13. R \in Seq(Int) /\ Len(R) = n
  <2>1. R = [k \in 1 .. n |-> R[k]]
    BY <1>8
  <2>2. R \in [1 .. n -> Int]
    BY <1>10, <2>1
  <2>3. R \in Seq(Int)
    BY <1>1, <2>2, SeqDef
  <2>4. DOMAIN R = 1 .. n
    BY <2>2
  <2>5. QED
    BY <1>1, <2>3, <2>4, LenProperties
<1>14. R \in Arrangements(a)
  BY <1>10, <1>12, <1>13, ArrangementIs DEF n
<1>16. \A k \in 1 .. n : ~ (k \in b .. e) => R[k] = a[k]
  BY <1>8
<1>17. SubSeq(R, b, e) = s
  <2>1. /\ SubSeq(R, b, e) \in Seq(Int) /\ Len(SubSeq(R, b, e)) = z
        /\ \A pos \in 1 .. z : SubSeq(R, b, e)[pos] = R[b + pos - 1]
    BY <1>13, <1>15, PartOf
  <2>2. ASSUME NEW pos \in 1 .. z PROVE R[b + pos - 1] = s[pos]
    <3>1. PICK k \in 1 .. n : k = b + pos - 1
      BY <1>1, <1>15
    <3>2. k \in b .. e /\ k - b + 1 = pos
      BY <3>1
    <3>3. QED
      BY <1>8, <3>1, <3>2
  <2>3. \A pos \in 1 .. Len(s) : SubSeq(R, b, e)[pos] = s[pos]
    BY <1>4, <2>1, <2>2
  <2>4. QED
    BY <1>4, <2>1, <2>3, SeqEqual
<1>18. QED
  BY <1>14, <1>16, <1>17 DEF R, n, Segment

\* Two halves that are merged.
LEMMA HalvesMerged ==
  ASSUME NEW a \in Seq(Int), NEW m \in Nat, m <= Len(a)
  PROVE  /\ Merged(SubSeq(a, 1, m), SubSeq(a, m + 1, Len(a))) \in Arrangements(a)
         /\ Sorted(SubSeq(a, 1, m)) /\ Sorted(SubSeq(a, m + 1, Len(a)))
              => Sorted(Merged(SubSeq(a, 1, m), SubSeq(a, m + 1, Len(a))))
<1> DEFINE l == SubSeq(a, 1, m)
           r == SubSeq(a, m + 1, Len(a))
<1>1. Len(a) \in Nat
  BY LenProperties
<1>2. l \in Seq(Int) /\ r \in Seq(Int)
  BY <1>1, PartOf
<1>3. l \o r = a
  <2>1. 1 \in 1 .. Len(a) + 1 /\ m \in 1 - 1 .. Len(a) /\ Len(a) \in m .. Len(a)
    BY <1>1
  <2>2. l \o r = SubSeq(a, 1, Len(a))
    BY <2>1, ConcatAdjacentSubSeq
  <2>3. QED
    BY <2>2, SubSeqFull
<1> HIDE DEF l, r
<1>4. Merged(l, r) \in Arrangements(a)
  BY <1>2, <1>3, MergedArranged
<1>5. Sorted(l) /\ Sorted(r) => Sorted(Merged(l, r))
  BY <1>2, MergedSorted
<1>6. QED
  BY <1>4, <1>5 DEF l, r


-----------------------------------------------------------------------------
(***************************************************************************)
(* What is always so, whichever program runs.                              *)
(***************************************************************************)
TaskState == [status : {"forked", "scanning", "joining", "done"}, own : Seq(Int),
              left : Int, right : Int, mid_value : Int]

Typed(f) == f \in [DOMAIN f -> TaskState]

TypeOK ==
  /\ program \in {"sort", "Quicksort", "Mergesort"}
  /\ input \in Seq(Int)
  /\ array \in Arrangements(input)
  /\ Typed(tasks)
  /\ mainPc \in {"start", "parts", "merge", "join", "printed"}

\* Tasks are added, and those there are stay.
LEMMA WithDomain ==
  ASSUME NEW old, NEW t, NEW a
  PROVE  DOMAIN With(old, t, a) = DOMAIN old \cup {t}
BY DEF With

LEMMA WithNew ==
  ASSUME NEW old, NEW t, NEW a
  PROVE  With(old, t, a)[t] = Forked(a)
BY DEF With

LEMMA WithOld ==
  ASSUME NEW old, NEW t, NEW a, NEW u \in DOMAIN old, u # t
  PROVE  With(old, t, a)[u] = old[u]
BY DEF With

LEMMA WithTyped ==
  ASSUME NEW old, NEW t, NEW a \in Seq(Int), Typed(old)
  PROVE  Typed(With(old, t, a))
<1>1. Forked(a) \in TaskState
  BY DEF Forked, TaskState
<1>2. \A u \in DOMAIN old : old[u] \in TaskState
  BY DEF Typed
<1> HIDE DEF TaskState
<1>3. With(old, t, a) \in [DOMAIN old \cup {t} -> TaskState]
  BY <1>1, <1>2 DEF With
<1>4. QED
  BY <1>3 DEF Typed

BothForked(old, new, t, a, u, b) ==
  /\ DOMAIN new = DOMAIN old \cup {t, u}
  /\ t # u => new[t] = Forked(a)
  /\ new[u] = Forked(b)
  /\ \A v \in DOMAIN old : v # t /\ v # u => new[v] = old[v]
  /\ Typed(new)

LEMMA WithBothIs ==
  ASSUME NEW old, NEW t, NEW u, NEW a \in Seq(Int), NEW b \in Seq(Int), Typed(old)
  PROVE  BothForked(old, With(With(old, t, a), u, b), t, a, u, b)
<1> DEFINE new == With(With(old, t, a), u, b)
<1>1. PICK w : w = With(old, t, a)
  OBVIOUS
<1>2. DOMAIN w = DOMAIN old \cup {t} /\ DOMAIN new = DOMAIN w \cup {u}
  BY <1>1, WithDomain
<1>3. w[t] = Forked(a) /\ new[u] = Forked(b)
  BY <1>1, WithNew
<1>4. \A v \in DOMAIN old : v # t => w[v] = old[v]
  BY <1>1, WithOld
<1>5. \A v \in DOMAIN w : v # u => new[v] = w[v]
  BY <1>1, WithOld
<1>6. Typed(w)
  BY <1>1, WithTyped
<1>7. Typed(new)
  BY <1>1, <1>6, WithTyped
<1> HIDE DEF new
<1>8. BothForked(old, new, t, a, u, b)
  BY <1>2, <1>3, <1>4, <1>5, <1>7 DEF BothForked
<1>9. QED
  BY <1>8 DEF new

\* A task that is done is the only one to change.
LEMMA FinishIs ==
  ASSUME NEW t \in DOMAIN tasks, NEW a \in Seq(Int), Finish(t, a),
         Typed(tasks)
  PROVE  /\ Typed(tasks') /\ DOMAIN tasks' = DOMAIN tasks
         /\ tasks'[t].status = "done" /\ tasks'[t].own = a
         /\ tasks'[t].left = tasks[t].left
         /\ \A u \in DOMAIN tasks : u # t => tasks'[u] = tasks[u]
BY DEF Finish, TaskState, Typed

\* The array is as long as the input, and its numbers are no farther apart.
LEMMA ArrayIs ==
  ASSUME TypeOK
  PROVE  /\ array \in Seq(Int) /\ len \in Nat /\ len = Len(input)
         /\ Close(input) => Close(array)
<1>1. input \in Seq(Int) /\ array \in Arrangements(input)
  BY DEF TypeOK
<1>2. array \in Seq(Int) /\ len = Len(input)
  BY <1>1, ArrangementElements DEF len
<1>3. len \in Nat
  BY <1>2, LenProperties DEF len
<1>4. Close(input) => Close(array)
  BY <1>1, ArrangementClose
<1>5. QED
  BY <1>2, <1>3, <1>4

\* Half of a number is within it.
LEMMA HalfIs ==
  ASSUME NEW n \in Nat
  PROVE  Half(n) \in 0 .. n /\ (n > 1 => Half(n) \in 1 .. n - 1)
BY DEF Half

-----------------------------------------------------------------------------
(***************************************************************************)
(* Pthreads/sort: which tasks there are at which place of main, and what   *)
(* is in order as soon as they are done.                                   *)
(***************************************************************************)
SortTasks ==
  /\ mainPc = "start" => DOMAIN tasks = {}
  /\ mainPc = "parts" => DOMAIN tasks = {LeftPart, RightPart}
  /\ mainPc \in {"merge", "printed"} =>
       DOMAIN tasks = {LeftPart, RightPart, MergeAll} /\ PartsSorted
  /\ mainPc # "join"
  /\ mainPc = "printed" => Done(MergeAll)

SortOrder ==
  Close(input) =>
    /\ Done(MergeAll) => Sorted(array)
    /\ ~ Done(MergeAll) => \A t \in {LeftPart, RightPart} : Done(t) => Sorted(Segment(array, t))

SortInv == program = "sort" => SortTasks /\ SortOrder

\* The tasks of sort, and where they work.
LEMMA PartsAre ==
  ASSUME NEW n \in Nat, len = n
  PROVE  /\ LeftPart = Task("part", 1, Half(n)) /\ RightPart = Task("part", Half(n) + 1, n)
         /\ MergeAll = Task("merge", 1, n)
         /\ \A t \in {LeftPart, RightPart} :
              /\ t.kind = "part" /\ t # MergeAll
              /\ t.begin \in Int /\ t.end \in Int
              /\ 1 <= t.begin /\ t.begin <= t.end + 1 /\ t.end <= n
         /\ LeftPart.begin = 1 /\ LeftPart.end = Half(n)
         /\ RightPart.begin = Half(n) + 1 /\ RightPart.end = n
         /\ MergeAll.kind = "merge"
BY HalfIs DEF LeftPart, RightPart, MergeAll, Task

\* The steps of sort.
LEMMA SortSame ==
  ASSUME TypeOK, SortInv, program = "sort", UNCHANGED vars
  PROVE  TypeOK' /\ SortInv'
BY DEF TypeOK, SortInv, SortTasks, SortOrder, PartsSorted, Done, LeftPart, RightPart,
       MergeAll, len, vars

LEMMA SortCreates ==
  ASSUME TypeOK, SortInv, program = "sort", CreateParts
  PROVE  TypeOK' /\ SortInv'
<1>1. Typed(tasks) /\ <<>> \in Seq(Int) /\ DOMAIN tasks = {}
  BY DEF TypeOK, SortInv, SortTasks, CreateParts, MainGoto
<1>2. tasks' = With(With(tasks, LeftPart, <<>>), RightPart, <<>>)
  BY DEF CreateParts
<1>3. /\ Typed(tasks') /\ DOMAIN tasks' = DOMAIN tasks \cup {LeftPart, RightPart}
      /\ LeftPart # RightPart => tasks'[LeftPart] = Forked(<<>>)
      /\ tasks'[RightPart] = Forked(<<>>)
  <2>1. PICK e \in Seq(Int) : e = <<>>
    BY <1>1
  <2>2. BothForked(tasks, With(With(tasks, LeftPart, e), RightPart, e), LeftPart, e, RightPart, e)
    BY <1>1, WithBothIs
  <2>3. BothForked(tasks, tasks', LeftPart, e, RightPart, e)
    BY <1>2, <2>1, <2>2
  <2>4. QED
    BY <2>1, <2>3 DEF BothForked
<1>4. /\ Typed(tasks') /\ DOMAIN tasks' = {LeftPart, RightPart}
      /\ tasks'[LeftPart] = Forked(<<>>) /\ tasks'[RightPart] = Forked(<<>>)
  BY <1>1, <1>3
<1>5. /\ array' = array /\ input' = input /\ program' = program /\ len' = len
      /\ mainPc' = "parts"
  BY DEF CreateParts, MainGoto, len
<1>6. TypeOK'
  BY <1>4, <1>5 DEF TypeOK
<1>7. LeftPart' = LeftPart /\ RightPart' = RightPart /\ MergeAll' = MergeAll
  BY <1>5 DEF LeftPart, RightPart, MergeAll
<1>8. ~ Done(LeftPart)' /\ ~ Done(RightPart)' /\ ~ Done(MergeAll)'
  <2>1. LeftPart # MergeAll /\ RightPart # MergeAll
    BY ArrayIs, PartsAre
  <2>2. Forked(<<>>).status # "done"
    BY DEF Forked
  <2>3. QED
    BY <1>4, <1>7, <2>1, <2>2 DEF Done
<1>9. QED
  BY <1>4, <1>5, <1>6, <1>7, <1>8 DEF SortInv, SortTasks, SortOrder

LEMMA SortJoins ==
  ASSUME TypeOK, SortInv, program = "sort", JoinParts
  PROVE  TypeOK' /\ SortInv'
<1>1. Typed(tasks) /\ <<>> \in Seq(Int) /\ DOMAIN tasks = {LeftPart, RightPart}
  BY DEF TypeOK, SortInv, SortTasks, JoinParts, MainGoto
<1>2. tasks' = With(tasks, MergeAll, <<>>)
  BY DEF JoinParts
<1>3. /\ array' = array /\ input' = input /\ program' = program /\ len' = len
      /\ mainPc' = "merge"
  BY DEF JoinParts, MainGoto, len
<1>4. LeftPart # MergeAll /\ RightPart # MergeAll
  BY ArrayIs, PartsAre
<1>5. /\ Typed(tasks') /\ DOMAIN tasks' = {LeftPart, RightPart, MergeAll}
      /\ tasks'[LeftPart] = tasks[LeftPart] /\ tasks'[RightPart] = tasks[RightPart]
      /\ tasks'[MergeAll] = Forked(<<>>)
  <2>1. /\ Typed(tasks') /\ DOMAIN tasks' = DOMAIN tasks \cup {MergeAll}
        /\ tasks'[MergeAll] = Forked(<<>>)
        /\ \A u \in DOMAIN tasks : u # MergeAll => tasks'[u] = tasks[u]
    <3>1. PICK e \in Seq(Int) : e = <<>>
      BY <1>1
    <3>2. PICK new : new = With(tasks, MergeAll, e)
      OBVIOUS
    <3>3. DOMAIN new = DOMAIN tasks \cup {MergeAll}
      BY <3>2, WithDomain
    <3>4. new[MergeAll] = Forked(e)
      BY <3>2, WithNew
    <3>5. \A u \in DOMAIN tasks : u # MergeAll => new[u] = tasks[u]
      BY <3>2, WithOld
    <3>6. Typed(new)
      BY <1>1, <3>2, WithTyped
    <3>7. new = tasks'
      BY <1>2, <3>1, <3>2
    <3>8. QED
      BY <3>1, <3>3, <3>4, <3>5, <3>6, <3>7
  <2>2. QED
    BY <1>1, <1>4, <2>1
<1>6. TypeOK'
  BY <1>3, <1>5 DEF TypeOK
<1>7. LeftPart' = LeftPart /\ RightPart' = RightPart /\ MergeAll' = MergeAll
  BY <1>3 DEF LeftPart, RightPart, MergeAll
<1>8. /\ Done(LeftPart)' /\ Done(RightPart)' /\ ~ Done(MergeAll)' /\ ~ Done(MergeAll)
      /\ Done(LeftPart) /\ Done(RightPart)
  <2>1. Done(LeftPart) /\ Done(RightPart)
    BY DEF JoinParts, PartsSorted
  <2>2. Forked(<<>>).status # "done"
    BY DEF Forked
  <2>3. QED
    BY <1>1, <1>4, <1>5, <1>7, <2>1, <2>2 DEF Done
<1>9. SortTasks'
  BY <1>3, <1>5, <1>7, <1>8 DEF SortTasks, PartsSorted
<1>10. SortOrder'
  <2>1. SortOrder
    BY DEF SortInv
  <2>2. ASSUME NEW t PROVE Segment(array', t) = Segment(array, t)
    BY <1>3
  <2>3. QED
    BY <1>3, <1>7, <1>8, <2>1 DEF SortOrder, Segment
<1>11. QED
  BY <1>6, <1>9, <1>10 DEF SortInv

LEMMA SortEnds ==
  ASSUME TypeOK, SortInv, program = "sort", JoinMerge
  PROVE  TypeOK' /\ SortInv'
BY DEF TypeOK, SortInv, SortTasks, SortOrder, PartsSorted, Done, LeftPart, RightPart,
       MergeAll, len, JoinMerge, MainGoto

\* A part that is sorted does not touch the other one.
LEMMA SortPartRuns ==
  ASSUME TypeOK, SortInv, program = "sort", NEW t \in DOMAIN tasks, partSort(t), IntMax \in Nat
  PROVE  TypeOK' /\ SortInv'
<1> DEFINE n == Len(input)
<1>1. array \in Seq(Int) /\ n \in Nat /\ len = n /\ Len(array) = n /\ (Close(input) => Close(array))
  BY ArrayIs DEF len
<1>2. Typed(tasks) /\ <<>> \in Seq(Int)
  BY DEF TypeOK
<1>3. /\ Finish(t, <<>>) /\ program' = program /\ input' = input /\ mainPc' = mainPc
      /\ t.kind = "part" /\ tasks[t].status = "forked"
  BY DEF partSort
<1> HIDE DEF n
<1>4. /\ t \in {LeftPart, RightPart} /\ t # MergeAll
  BY <1>1, <1>3, PartsAre DEF SortInv, SortTasks, TypeOK
<1>5. mainPc = "parts" /\ ~ Done(MergeAll)
  <2>1. ~ Done(t)
    BY <1>3 DEF Done
  <2>2. mainPc = "parts"
    BY <1>4, <2>1 DEF SortInv, SortTasks, PartsSorted, TypeOK
  <2>3. LeftPart # MergeAll /\ RightPart # MergeAll
    BY <1>1, PartsAre
  <2>4. QED
    BY <2>2, <2>3 DEF SortInv, SortTasks, Done
<1>6. /\ t.begin \in Int /\ t.end \in Int
      /\ 1 <= t.begin /\ t.begin <= t.end + 1 /\ t.end <= n
  BY <1>1, <1>4, PartsAre
<1>7. PICK s \in qsort(Segment(array, t)) : array' = Replaced(array, t, s)
  BY DEF partSort
<1>8. Segment(array, t) \in Seq(Int)
  BY <1>1, <1>6, PartOf DEF Segment
<1>9. s \in Arrangements(Segment(array, t)) /\ (Close(input) => Sorted(s))
  <2>1. Close(input) => Close(Segment(array, t))
    BY <1>1, <1>6, PartClose DEF Segment
  <2>2. QED
    BY <1>8, <2>1, qsortIs
<1>10. /\ array' \in Arrangements(array)
       /\ \A k \in 1 .. n : ~ (k \in t.begin .. t.end) => array'[k] = array[k]
       /\ Segment(array', t) = s
  BY <1>1, <1>6, <1>7, <1>9, ReplacedIs
<1>11. /\ Typed(tasks') /\ DOMAIN tasks' = DOMAIN tasks
       /\ tasks'[t].status = "done"
       /\ \A u \in DOMAIN tasks : u # t => tasks'[u] = tasks[u]
  <2>1. /\ Typed(tasks') /\ DOMAIN tasks' = DOMAIN tasks
        /\ tasks'[t].status = "done"
        /\ \A u \in DOMAIN tasks : u # t => tasks'[u] = tasks[u]
    BY <1>2, <1>3, FinishIs
  <2>2. QED
    BY <2>1
<1>12. array' \in Arrangements(input) /\ array' \in Seq(Int) /\ Len(array') = n
  <2>1. input \in Seq(Int) /\ array \in Arrangements(input)
    BY DEF TypeOK
  <2>2. array' \in Arrangements(input)
    BY <1>10, <2>1, ArrangedTwice
  <2>3. QED
    BY <2>1, <2>2, ArrangementElements DEF n
<1>13. TypeOK'
  BY <1>3, <1>11, <1>12 DEF TypeOK
<1>14. LeftPart' = LeftPart /\ RightPart' = RightPart /\ MergeAll' = MergeAll /\ len' = n
  BY <1>1, <1>12 DEF LeftPart, RightPart, MergeAll, len
<1>15. SortTasks'
  BY <1>3, <1>5, <1>11, <1>14 DEF SortInv, SortTasks
<1>16. ASSUME Close(input), NEW u \in {LeftPart, RightPart}, Done(u)'
       PROVE  Sorted(Segment(array', u))
  <2>1. CASE u = t
    BY <1>9, <1>10, <1>16, <2>1
  <2>2. CASE u # t
    <3>1. u \in DOMAIN tasks /\ Done(u)
      BY <1>11, <1>16, <2>2 DEF Done
    <3>2. Sorted(Segment(array, u))
      BY <1>5, <1>16, <3>1 DEF SortInv, SortOrder
    <3>3. /\ u.begin \in Int /\ u.end \in Int
          /\ 1 <= u.begin /\ u.begin <= u.end + 1 /\ u.end <= n
          /\ \A k \in u.begin .. u.end : ~ (k \in t.begin .. t.end)
      <4>1. /\ u.begin \in Int /\ u.end \in Int
            /\ 1 <= u.begin /\ u.begin <= u.end + 1 /\ u.end <= n
        BY <1>1, PartsAre
      <4>2. /\ LeftPart.begin = 1 /\ LeftPart.end = Half(n)
            /\ RightPart.begin = Half(n) + 1 /\ RightPart.end = n
        BY <1>1, PartsAre
      <4>3. Half(n) \in Int
        BY <1>1, HalfIs
      <4>4. (u = LeftPart /\ t = RightPart) \/ (u = RightPart /\ t = LeftPart)
        BY <1>4, <2>2
      <4>5. CASE u = LeftPart /\ t = RightPart
        BY <1>1, <4>1, <4>2, <4>3, <4>5
      <4>6. CASE u = RightPart /\ t = LeftPart
        BY <1>1, <4>1, <4>2, <4>3, <4>6
      <4>7. QED
        BY <4>4, <4>5, <4>6
    <3>4. \A k \in u.begin .. u.end : array'[k] = array[k]
      BY <1>1, <1>10, <3>3
    <3>5. \A j, k \in u.begin .. u.end : j < k => array[j] <= array[k]
      BY <1>1, <3>2, <3>3, PartSorted DEF Segment
    <3>6. \A j, k \in u.begin .. u.end : j < k => array'[j] <= array'[k]
      BY <3>4, <3>5
    <3>7. QED
      BY <1>12, <3>3, <3>6, PartSorted DEF Segment
  <2>3. QED
    BY <2>1, <2>2
<1>17. ~ Done(MergeAll)'
  BY <1>4, <1>5, <1>11, <1>14 DEF Done
<1>18. SortOrder'
  <2>1. SortOrder' <=> (Close(input) =>
           /\ Done(MergeAll)' => Sorted(array')
           /\ ~ Done(MergeAll)' =>
                \A u \in {LeftPart, RightPart} : Done(u)' => Sorted(Segment(array', u)))
    BY <1>3, <1>14 DEF SortOrder, Done, Segment
  <2>2. QED
    BY <1>16, <1>17, <2>1
<1>19. QED
  BY <1>3, <1>13, <1>15, <1>18 DEF SortInv

\* The merge starts when both parts are in order.
LEMMA SortMerges ==
  ASSUME TypeOK, SortInv, program = "sort", NEW t \in DOMAIN tasks, mergeSort(t)
  PROVE  TypeOK' /\ SortInv'
<1> DEFINE n == Len(input)
<1>1. array \in Seq(Int) /\ n \in Nat /\ len = n /\ Len(array) = n
  BY ArrayIs DEF len
<1>2. Typed(tasks) /\ <<>> \in Seq(Int)
  BY DEF TypeOK
<1>3. /\ Finish(t, <<>>) /\ program' = program /\ input' = input /\ mainPc' = mainPc
      /\ t.kind = "merge" /\ tasks[t].status = "forked"
      /\ array' = Merged(SubSeq(array, 1, Half(n)), SubSeq(array, Half(n) + 1, n))
  BY <1>1 DEF mergeSort
<1> HIDE DEF n
<1>4. t = MergeAll /\ LeftPart # MergeAll /\ RightPart # MergeAll
  BY <1>1, <1>3, PartsAre DEF SortInv, SortTasks, TypeOK
<1>5. ~ Done(MergeAll) /\ mainPc = "merge" /\ Done(LeftPart) /\ Done(RightPart)
  <2>1. ~ Done(MergeAll)
    BY <1>3, <1>4 DEF Done
  <2>2. QED
    BY <1>4, <2>1 DEF SortInv, SortTasks, TypeOK, PartsSorted
<1>6. Half(n) \in 0 .. n
  BY <1>1, HalfIs
<1>7. /\ array' \in Arrangements(array)
      /\ Sorted(SubSeq(array, 1, Half(n))) /\ Sorted(SubSeq(array, Half(n) + 1, n)) => Sorted(array')
  BY <1>1, <1>3, <1>6, HalvesMerged
<1>8. /\ Typed(tasks') /\ DOMAIN tasks' = DOMAIN tasks
      /\ tasks'[t].status = "done"
      /\ \A u \in DOMAIN tasks : u # t => tasks'[u] = tasks[u]
  <2>1. /\ Typed(tasks') /\ DOMAIN tasks' = DOMAIN tasks
        /\ tasks'[t].status = "done"
        /\ \A u \in DOMAIN tasks : u # t => tasks'[u] = tasks[u]
    BY <1>2, <1>3, FinishIs
  <2>2. QED
    BY <2>1
<1>9. array' \in Arrangements(input) /\ array' \in Seq(Int) /\ Len(array') = n
  <2>1. input \in Seq(Int) /\ array \in Arrangements(input)
    BY DEF TypeOK
  <2>2. array' \in Arrangements(input)
    BY <1>7, <2>1, ArrangedTwice
  <2>3. QED
    BY <2>1, <2>2, ArrangementElements DEF n
<1>10. TypeOK'
  BY <1>3, <1>8, <1>9 DEF TypeOK
<1>11. LeftPart' = LeftPart /\ RightPart' = RightPart /\ MergeAll' = MergeAll /\ len' = n
  BY <1>1, <1>9 DEF LeftPart, RightPart, MergeAll, len
<1>12. Done(LeftPart)' /\ Done(RightPart)' /\ Done(MergeAll)'
  BY <1>4, <1>5, <1>8, <1>11 DEF Done
<1>13. SortTasks'
  BY <1>3, <1>5, <1>8, <1>11, <1>12 DEF SortInv, SortTasks, PartsSorted
<1>14. Close(input) => Sorted(array')
  <2>1. ASSUME Close(input) PROVE Sorted(Segment(array, LeftPart)) /\ Sorted(Segment(array, RightPart))
    BY <1>5, <2>1 DEF SortInv, SortOrder
  <2>2. /\ Segment(array, LeftPart) = SubSeq(array, 1, Half(n))
        /\ Segment(array, RightPart) = SubSeq(array, Half(n) + 1, n)
    BY <1>1, PartsAre DEF Segment
  <2>3. QED
    BY <1>7, <2>1, <2>2
<1>15. SortOrder'
  BY <1>3, <1>12, <1>14 DEF SortOrder
<1>16. QED
  BY <1>3, <1>10, <1>13, <1>15 DEF SortInv


-----------------------------------------------------------------------------
(***************************************************************************)
(* fork-join/Mergesort: a task that is done has its segment of the input,  *)
(* arranged and in order.                                                  *)
(***************************************************************************)
Inside(t) ==
  /\ t = Sort(t.begin, t.end) /\ t.begin \in Int /\ t.end \in Int
  /\ 1 <= t.begin /\ t.begin <= t.end + 1 /\ t.end <= Len(input)

MergeTask(t) ==
  /\ Inside(t)
  /\ tasks[t].status = "forked" => tasks[t].own = Segment(input, t)
  /\ tasks[t].status = "done" => tasks[t].own \in Arrangements(Segment(input, t)) /\ Sorted(tasks[t].own)
  /\ tasks[t].status = "joining" =>
       Length(t) > 2 /\ LeftHalf(t) \in DOMAIN tasks /\ RightHalf(t) \in DOMAIN tasks

MergeMain ==
  /\ mainPc \in {"start", "join", "printed"}
  /\ mainPc = "start" => DOMAIN tasks = {}
  /\ mainPc # "printed" => array = input
  /\ mainPc = "printed" => Sorted(array)

MergeInv == program = "Mergesort" => MergeMain /\ \A t \in DOMAIN tasks : MergeTask(t)

\* Tasks of the Java programs.
LEMMA SortFields ==
  ASSUME NEW b, NEW e
  PROVE  Sort(b, e).begin = b /\ Sort(b, e).end = e /\ Sort(b, e).kind = "sort"
BY DEF Sort, Task

\* Where a task is, in numbers.
LEMMA InsideIs ==
  ASSUME NEW t, Inside(t), input \in Seq(Int)
  PROVE  \E b, e, n \in Int : /\ t = Sort(b, e) /\ t.begin = b /\ t.end = e /\ n = Len(input)
                             /\ 1 <= b /\ b <= e + 1 /\ e <= n
<1>1. Len(input) \in Int
  BY LenProperties
<1>2. QED
  BY <1>1 DEF Inside

LEMMA IsInside ==
  ASSUME NEW b \in Int, NEW e \in Int, 1 <= b, b <= e + 1, e <= Len(input)
  PROVE  Inside(Sort(b, e))
BY SortFields DEF Inside

\* The halves of a task, in numbers.
LEMMA HalvesOf ==
  ASSUME input \in Seq(Int), NEW t, Inside(t), Length(t) > 2
  PROVE  \E b, e, h, z, m, n \in Int :
           /\ t = Sort(b, e) /\ n = Len(input) /\ 1 <= b /\ b <= e + 1 /\ e <= n
           /\ z = Length(t) /\ z = e - b + 1 /\ h = Half(z) /\ 1 <= h /\ h <= z - 1
           /\ m = b + h
           /\ LeftHalf(t) = Sort(b, m - 1) /\ RightHalf(t) = Sort(m, e)
<1>1. PICK b, e, n \in Int : /\ t = Sort(b, e) /\ t.begin = b /\ t.end = e /\ n = Len(input)
                             /\ 1 <= b /\ b <= e + 1 /\ e <= n
  BY InsideIs
<1>2. PICK z \in Nat : z = e - b + 1
  BY <1>1
<1>3. Length(t) = z /\ z > 2
  BY <1>1, <1>2 DEF Length
<1>4. PICK h \in Int : h = Half(z) /\ 1 <= h /\ h <= z - 1
  <2>1. Half(z) \in 1 .. z - 1
    BY <1>3, HalfIs
  <2>2. QED
    BY <2>1
<1>5. PICK m \in Int : m = b + h
  OBVIOUS
<1>6. LeftHalf(t) = Sort(b, m - 1) /\ RightHalf(t) = Sort(m, e)
  BY <1>1, <1>3, <1>4, <1>5 DEF LeftHalf, RightHalf
<1>7. z \in Int
  OBVIOUS
<1>8. QED
  BY <1>1, <1>2, <1>3, <1>4, <1>5, <1>6, <1>7

\* They are inside, too, and differ.
LEMMA HalvesInside ==
  ASSUME input \in Seq(Int), NEW t, Inside(t), Length(t) > 2
  PROVE  /\ Inside(LeftHalf(t)) /\ Inside(RightHalf(t))
         /\ LeftHalf(t) # t /\ RightHalf(t) # t /\ LeftHalf(t) # RightHalf(t)
<1>1. PICK b, e, h, z, m, n \in Int :
        /\ t = Sort(b, e) /\ n = Len(input) /\ 1 <= b /\ b <= e + 1 /\ e <= n
        /\ z = Length(t) /\ z = e - b + 1 /\ h = Half(z) /\ 1 <= h /\ h <= z - 1
        /\ m = b + h
        /\ LeftHalf(t) = Sort(b, m - 1) /\ RightHalf(t) = Sort(m, e)
  BY HalvesOf
<1>8. 1 <= b /\ b <= e + 1 /\ e <= n /\ z = e - b + 1 /\ 1 <= h /\ h <= z - 1 /\ m = b + h
  BY <1>1
<1>2. m - 1 \in Int /\ b <= m - 1 + 1 /\ m - 1 <= n /\ 1 <= m /\ m <= e + 1 /\ b # m /\ m - 1 # e
  BY <1>8
<1>3. Inside(Sort(b, m - 1))
  BY <1>1, <1>2, IsInside
<1>4. Inside(Sort(m, e))
  BY <1>1, <1>2, IsInside
<1>5. /\ Sort(b, m - 1).begin = b /\ Sort(b, m - 1).end = m - 1
      /\ Sort(m, e).begin = m /\ Sort(m, e).end = e
      /\ Sort(b, e).begin = b /\ Sort(b, e).end = e
  BY SortFields
<1>6. LeftHalf(t) # t /\ RightHalf(t) # t /\ LeftHalf(t) # RightHalf(t)
  BY <1>1, <1>2, <1>5
<1>7. QED
  BY <1>1, <1>3, <1>4, <1>6

\* The segment of a task is as long as the task says.
LEMMA InsideSegment ==
  ASSUME input \in Seq(Int), NEW t, Inside(t)
  PROVE  /\ Segment(input, t) \in Seq(Int) /\ Len(Segment(input, t)) = Length(t) /\ Length(t) \in Nat
<1>1. PICK b, e, n \in Int : /\ t = Sort(b, e) /\ t.begin = b /\ t.end = e /\ n = Len(input)
                             /\ 1 <= b /\ b <= e + 1 /\ e <= n
  BY InsideIs
<1>2. SubSeq(input, b, e) \in Seq(Int) /\ Len(SubSeq(input, b, e)) = e - b + 1
  BY <1>1, PartOf
<1>3. e - b + 1 \in Nat
  BY <1>1
<1>4. Segment(input, t) = SubSeq(input, b, e) /\ Length(t) = e - b + 1
  BY <1>1 DEF Segment, Length
<1>5. QED
  BY <1>2, <1>3, <1>4

\* A segment is its two halves, one after the other.
LEMMA PartHalves ==
  ASSUME NEW s \in Seq(Int), NEW b \in Int, NEW e \in Int, NEW h \in Int, NEW z \in Int, NEW m \in Int,
         1 <= b, e <= Len(s), z = e - b + 1, 1 <= h, h <= z - 1, m = b + h
  PROVE  /\ SubSeq(SubSeq(s, b, e), 1, h) = SubSeq(s, b, m - 1)
         /\ SubSeq(SubSeq(s, b, e), h + 1, z) = SubSeq(s, m, e)
         /\ SubSeq(s, b, m - 1) \o SubSeq(s, m, e) = SubSeq(s, b, e)
<1>1. Len(s) \in Nat
  BY LenProperties
<1>2. /\ b \in 1 .. Len(s) /\ e \in 1 .. Len(s)
      /\ 1 \in 1 .. e - b + 1 /\ h \in 1 .. e - b + 1
      /\ h + 1 \in 1 .. e - b + 1 /\ z \in 1 .. e - b + 1
      /\ b + 1 - 1 = b /\ b + h - 1 = m - 1 /\ b + (h + 1) - 1 = m /\ b + z - 1 = e
      /\ b \in 1 .. Len(s) + 1 /\ m - 1 \in b - 1 .. Len(s) /\ e \in m - 1 .. Len(s)
      /\ (m - 1) + 1 = m
  BY <1>1
<1>3. SubSeq(SubSeq(s, b, e), 1, h) = SubSeq(s, b + 1 - 1, b + h - 1)
  BY <1>2, SubSeqOfSubSeq
<1>4. SubSeq(SubSeq(s, b, e), h + 1, z) = SubSeq(s, b + (h + 1) - 1, b + z - 1)
  BY <1>2, SubSeqOfSubSeq
<1>5. SubSeq(s, b, m - 1) \o SubSeq(s, (m - 1) + 1, e) = SubSeq(s, b, e)
  BY <1>2, ConcatAdjacentSubSeq
<1>6. QED
  BY <1>2, <1>3, <1>4, <1>5

LEMMA SegmentsOfHalves ==
  ASSUME input \in Seq(Int), NEW t, Inside(t), Length(t) > 2, NEW h, h = Half(Length(t))
  PROVE  /\ SubSeq(Segment(input, t), 1, h) = Segment(input, LeftHalf(t))
         /\ SubSeq(Segment(input, t), h + 1, Length(t)) = Segment(input, RightHalf(t))
         /\ Segment(input, LeftHalf(t)) \o Segment(input, RightHalf(t)) = Segment(input, t)
<1>1. PICK b, e, pos, z, m, n \in Int :
        /\ t = Sort(b, e) /\ n = Len(input) /\ 1 <= b /\ b <= e + 1 /\ e <= n
        /\ z = Length(t) /\ z = e - b + 1 /\ pos = Half(z) /\ 1 <= pos /\ pos <= z - 1
        /\ m = b + pos
        /\ LeftHalf(t) = Sort(b, m - 1) /\ RightHalf(t) = Sort(m, e)
  BY HalvesOf
<1>2. /\ SubSeq(SubSeq(input, b, e), 1, pos) = SubSeq(input, b, m - 1)
      /\ SubSeq(SubSeq(input, b, e), pos + 1, z) = SubSeq(input, m, e)
      /\ SubSeq(input, b, m - 1) \o SubSeq(input, m, e) = SubSeq(input, b, e)
  <2>1. 1 <= b /\ e <= Len(input) /\ z = e - b + 1 /\ 1 <= pos /\ pos <= z - 1 /\ m = b + pos
    BY <1>1
  <2>2. QED
    BY <2>1, PartHalves
<1>3. /\ Segment(input, t) = SubSeq(input, b, e)
      /\ Segment(input, LeftHalf(t)) = SubSeq(input, b, m - 1)
      /\ Segment(input, RightHalf(t)) = SubSeq(input, m, e)
  <2>1. t = Sort(b, e) /\ LeftHalf(t) = Sort(b, m - 1) /\ RightHalf(t) = Sort(m, e)
    BY <1>1
  <2>2. /\ t.begin = b /\ t.end = e
        /\ LeftHalf(t).begin = b /\ LeftHalf(t).end = m - 1
        /\ RightHalf(t).begin = m /\ RightHalf(t).end = e
    BY <2>1, SortFields
  <2>3. QED
    BY <2>2 DEF Segment
<1>4. h = pos
  BY <1>1
<1>5. QED
  BY <1>1, <1>2, <1>3, <1>4

\* A task of which nothing has changed.
LEMMA MergeTaskKept ==
  ASSUME NEW u \in DOMAIN tasks, MergeTask(u), input' = input,
         DOMAIN tasks \subseteq DOMAIN tasks', tasks'[u] = tasks[u]
  PROVE  MergeTask(u)'
BY DEF MergeTask, Inside, LeftHalf, RightHalf, Length, Segment, Half, Sort, Task

\* A task that leaves its segment arranged and in order.
LEMMA MergeFinishes ==
  ASSUME TypeOK, MergeInv, program = "Mergesort", NEW t \in DOMAIN tasks, NEW a,
         Finish(t, a), UNCHANGED <<program, input, array, mainPc>>,
         a \in Arrangements(Segment(input, t)), Sorted(a)
  PROVE  TypeOK' /\ MergeInv'
<1>1. input \in Seq(Int) /\ Typed(tasks)
  BY DEF TypeOK
<1>2. MergeMain /\ \A u \in DOMAIN tasks : MergeTask(u)
  BY DEF MergeInv
<1>3. Inside(t)
  BY <1>2 DEF MergeTask
<1>4. a \in Seq(Int)
  BY <1>1, <1>3, InsideSegment, ArrangementElements
<1>5. /\ Typed(tasks') /\ DOMAIN tasks' = DOMAIN tasks
      /\ tasks'[t].status = "done" /\ tasks'[t].own = a
      /\ \A u \in DOMAIN tasks : u # t => tasks'[u] = tasks[u]
  BY <1>1, <1>4, FinishIs
<1>6. TypeOK'
  BY <1>5 DEF TypeOK
<1>7. MergeTask(t)'
  <2>1. Inside(t)' /\ Segment(input, t)' = Segment(input, t)
    BY <1>3 DEF Inside, Segment
  <2>2. QED
    BY <1>5, <2>1 DEF MergeTask
<1>8. \A u \in DOMAIN tasks : u # t => MergeTask(u)'
  BY <1>2, <1>5, MergeTaskKept
<1>9. MergeMain'
  BY <1>2, <1>5 DEF MergeMain
<1>10. QED
  BY <1>5, <1>6, <1>7, <1>8, <1>9 DEF MergeInv

\* The steps of the tasks of Mergesort.
LEMMA MergePair ==
  ASSUME TypeOK, MergeInv, program = "Mergesort", NEW t \in DOMAIN tasks, SortPair(t)
  PROVE  TypeOK' /\ MergeInv'
<1> DEFINE a == tasks[t].own
           r == IF Len(a) = 2 /\ a[1] > a[2] THEN Exchanged(a, 1, 2) ELSE a
<1>1. /\ Finish(t, r) /\ Length(t) <= 2 /\ tasks[t].status = "forked"
      /\ UNCHANGED <<program, input, array, mainPc>>
  BY DEF SortPair
<1>2. input \in Seq(Int) /\ MergeTask(t)
  BY DEF TypeOK, MergeInv
<1>3. Inside(t) /\ a = Segment(input, t)
  BY <1>1, <1>2 DEF MergeTask
<1>4. a \in Seq(Int) /\ Len(a) = Length(t) /\ Length(t) \in Nat
  BY <1>2, <1>3, InsideSegment
<1> HIDE DEF a
<1>5. r \in Arrangements(a) /\ Sorted(r)
  <2>1. CASE Len(a) = 2 /\ a[1] > a[2]
    <3>7. 1 \in 1 .. Len(a) /\ 2 \in 1 .. Len(a)
      BY <2>1
    <3>1. a[1] \in Int /\ a[2] \in Int /\ 1 \in 1 .. Len(a) /\ 2 \in 1 .. Len(a)
      BY <1>4, <3>7, LenProperties
    <3>2. /\ Exchanged(a, 1, 2) \in Arrangements(a)
          /\ Exchanged(a, 1, 2)[1] = a[2] /\ Exchanged(a, 1, 2)[2] = a[1]
      BY <1>4, <3>1, ArrangedByExchange
    <3>3. DOMAIN Exchanged(a, 1, 2) = 1 .. 2
      BY <1>4, <2>1, <3>2, ArrangementElements, LenProperties
    <3>4. \A j, k \in 1 .. 2 : j < k => j = 1 /\ k = 2
      OBVIOUS
    <3>5. Sorted(Exchanged(a, 1, 2))
      BY <2>1, <3>1, <3>2, <3>3, <3>4 DEF Sorted
    <3>6. QED
      BY <2>1, <3>2, <3>5
  <2>2. CASE ~ (Len(a) = 2 /\ a[1] > a[2])
    <3>1. \A j, k \in DOMAIN a : j < k => j = 1 /\ k = 2 /\ Len(a) = 2
      BY <1>1, <1>4, LenProperties
    <3>2. \A j \in DOMAIN a : a[j] \in Int
      BY <1>4, LenProperties
    <3>3. Sorted(a)
      BY <2>2, <3>1, <3>2 DEF Sorted
    <3>4. QED
      BY <1>4, <2>2, <3>3, ArrangedItself
  <2>3. QED
    BY <2>1, <2>2
<1> HIDE DEF r
<1>6. QED
  BY <1>1, <1>3, <1>5, MergeFinishes

LEMMA MergeJoins ==
  ASSUME TypeOK, MergeInv, program = "Mergesort", NEW t \in DOMAIN tasks, MergeResults(t)
  PROVE  TypeOK' /\ MergeInv'
<1> DEFINE l == tasks[LeftHalf(t)].own
           r == tasks[RightHalf(t)].own
           x == Segment(input, LeftHalf(t))
           y == Segment(input, RightHalf(t))
<1>1. /\ Finish(t, Merged(l, r)) /\ tasks[t].status = "joining"
      /\ Done(LeftHalf(t)) /\ Done(RightHalf(t))
      /\ UNCHANGED <<program, input, array, mainPc>>
  BY DEF MergeResults
<1>2. input \in Seq(Int) /\ \A u \in DOMAIN tasks : MergeTask(u)
  BY DEF TypeOK, MergeInv
<1>3. Inside(t) /\ Length(t) > 2
  BY <1>1, <1>2 DEF MergeTask
<1>4. /\ Inside(LeftHalf(t)) /\ l \in Arrangements(x) /\ Sorted(l)
      /\ Inside(RightHalf(t)) /\ r \in Arrangements(y) /\ Sorted(r)
  BY <1>1, <1>2 DEF MergeTask, Done
<1>5. x \in Seq(Int) /\ y \in Seq(Int)
  BY <1>2, <1>4, InsideSegment
<1>6. x \o y = Segment(input, t)
  BY <1>2, <1>3, SegmentsOfHalves
<1> HIDE DEF l, r, x, y
<1>7. l \in Seq(Int) /\ r \in Seq(Int)
  BY <1>4, <1>5, ArrangementElements
<1>8. Merged(l, r) \in Arrangements(l \o r) /\ Sorted(Merged(l, r))
  BY <1>4, <1>7, MergedArranged, MergedSorted
<1>9. l \o r \in Arrangements(x \o y) /\ x \o y \in Seq(Int)
  BY <1>4, <1>5, ArrangedBoth, ConcatProperties
<1>10. Merged(l, r) \in Arrangements(Segment(input, t))
  BY <1>6, <1>8, <1>9, ArrangedTwice
<1>11. QED
  BY <1>1, <1>8, <1>10, MergeFinishes

LEMMA MergeSplits ==
  ASSUME TypeOK, MergeInv, program = "Mergesort", NEW t \in DOMAIN tasks, Split(t)
  PROVE  TypeOK' /\ MergeInv'
<1> DEFINE q == Segment(input, t)
           x == Segment(input, LeftHalf(t))
           y == Segment(input, RightHalf(t))
           old == [tasks EXCEPT ![t].status = "joining"]
<1>1. /\ tasks[t].status = "forked" /\ Length(t) > 2
      /\ UNCHANGED <<program, input, array, mainPc>>
  BY DEF Split
<1>2. /\ input \in Seq(Int) /\ Typed(tasks) /\ MergeMain
      /\ \A u \in DOMAIN tasks : MergeTask(u)
  BY DEF TypeOK, MergeInv
<1>3. Inside(t) /\ tasks[t].own = q
  BY <1>1, <1>2 DEF MergeTask
<1>4. tasks' = With(With(old, LeftHalf(t), x), RightHalf(t), y)
  <2>1. PICK h : h = Half(Length(t))
    OBVIOUS
  <2>2. tasks' = With(With(old, LeftHalf(t), SubSeq(q, 1, h)), RightHalf(t), SubSeq(q, h + 1, Length(t)))
    BY <1>3, <2>1 DEF Split
  <2>3. SubSeq(q, 1, h) = x /\ SubSeq(q, h + 1, Length(t)) = y
    BY <1>1, <1>2, <1>3, <2>1, SegmentsOfHalves
  <2>4. QED
    BY <2>2, <2>3
<1>5. /\ Typed(old) /\ DOMAIN old = DOMAIN tasks /\ old[t].status = "joining"
      /\ \A u \in DOMAIN tasks : u # t => old[u] = tasks[u]
  BY <1>2 DEF Typed, TaskState
<1>6. /\ Inside(LeftHalf(t)) /\ Inside(RightHalf(t))
      /\ LeftHalf(t) # t /\ RightHalf(t) # t /\ LeftHalf(t) # RightHalf(t)
  BY <1>1, <1>2, <1>3, HalvesInside
<1>7. x \in Seq(Int) /\ y \in Seq(Int)
  BY <1>2, <1>6, InsideSegment
<1> HIDE DEF old, x, y
<1>8. BothForked(old, tasks', LeftHalf(t), x, RightHalf(t), y)
  BY <1>4, <1>5, <1>7, WithBothIs
<1>9. /\ Typed(tasks') /\ DOMAIN tasks' = DOMAIN tasks \cup {LeftHalf(t), RightHalf(t)}
      /\ tasks'[LeftHalf(t)] = Forked(x) /\ tasks'[RightHalf(t)] = Forked(y)
      /\ \A u \in DOMAIN tasks : u # LeftHalf(t) /\ u # RightHalf(t) => tasks'[u] = old[u]
  BY <1>5, <1>6, <1>8 DEF BothForked
<1>10. \A u : Inside(u)' <=> Inside(u)
  BY <1>1 DEF Inside
<1>11. MergeTask(LeftHalf(t))'
  <2>1. ASSUME NEW u, u = LeftHalf(t) PROVE MergeTask(u)'
    <3>1. tasks'[u].status = "forked" /\ tasks'[u].own = Segment(input, u)
      BY <1>9, <2>1 DEF Forked, x
    <3>2. QED
      BY <1>1, <1>6, <1>10, <2>1, <3>1 DEF MergeTask, Segment
  <2>2. QED
    BY <2>1 DEF LeftHalf, Length
<1>12. MergeTask(RightHalf(t))'
  <2>1. ASSUME NEW u, u = RightHalf(t) PROVE MergeTask(u)'
    <3>1. tasks'[u].status = "forked" /\ tasks'[u].own = Segment(input, u)
      BY <1>9, <2>1 DEF Forked, y
    <3>2. QED
      BY <1>1, <1>6, <1>10, <2>1, <3>1 DEF MergeTask, Segment
  <2>2. QED
    BY <2>1 DEF RightHalf, Length
<1>13. MergeTask(t)'
  <2>1. tasks'[t].status = "joining"
    BY <1>5, <1>6, <1>9
  <2>2. LeftHalf(t) \in DOMAIN tasks' /\ RightHalf(t) \in DOMAIN tasks'
    BY <1>9
  <2>3. QED
    BY <1>1, <1>3, <1>10, <2>1, <2>2 DEF MergeTask
<1>14. ASSUME NEW u \in DOMAIN tasks, u # t, u # LeftHalf(t), u # RightHalf(t)
       PROVE  MergeTask(u)'
  <2>1. tasks'[u] = tasks[u]
    BY <1>5, <1>9, <1>14
  <2>2. QED
    BY <1>1, <1>2, <1>9, <2>1, MergeTaskKept
<1>15. \A u \in DOMAIN tasks' : MergeTask(u)'
  BY <1>9, <1>11, <1>12, <1>13, <1>14
<1>16. TypeOK'
  BY <1>1, <1>9 DEF TypeOK
<1>17. MergeMain'
  BY <1>1, <1>2 DEF MergeMain
<1>18. QED
  BY <1>15, <1>16, <1>17 DEF MergeInv


\* The steps of main for Mergesort.
LEMMA MergeForks ==
  ASSUME TypeOK, MergeInv, program = "Mergesort", ForkTask
  PROVE  TypeOK' /\ MergeInv'
<1>1. /\ mainPc = "start" /\ mainPc' = "join" /\ tasks' = With(tasks, WholeArray, array)
      /\ program' = program /\ input' = input /\ array' = array
  BY DEF ForkTask, MainGoto
<1>2. /\ input \in Seq(Int) /\ Typed(tasks) /\ array = input /\ DOMAIN tasks = {}
  BY <1>1 DEF TypeOK, MergeInv, MergeMain
<1>3. PICK n \in Nat : n = Len(input)
  BY <1>2, LenProperties
<1>4. PICK t : t = Sort(1, n)
  OBVIOUS
<1>5. WholeArray = t /\ tasks' = With(tasks, t, input)
  BY <1>1, <1>2, <1>3, <1>4 DEF WholeArray, len
<1>6. Typed(tasks') /\ DOMAIN tasks' = {t} /\ tasks'[t] = Forked(input)
  <2>1. Typed(tasks')
    BY <1>2, <1>5, WithTyped
  <2>2. DOMAIN tasks' = DOMAIN tasks \cup {t}
    BY <1>5, WithDomain
  <2>3. tasks'[t] = Forked(input)
    BY <1>5, WithNew
  <2>4. QED
    BY <1>2, <2>1, <2>2, <2>3
<1>7. t.begin = 1 /\ t.end = n
  BY <1>4, SortFields
<1>8. Inside(t)
  BY <1>3, <1>4, IsInside
<1>9. Segment(input, t) = input
  BY <1>2, <1>3, <1>7, SubSeqFull DEF Segment
<1>10. MergeTask(t)'
  <2>1. tasks'[t].status = "forked" /\ tasks'[t].own = input
    BY <1>6 DEF Forked
  <2>2. Inside(t)'
    BY <1>1, <1>8 DEF Inside
  <2>3. QED
    BY <1>1, <1>9, <2>1, <2>2 DEF MergeTask
<1>11. TypeOK'
  BY <1>1, <1>6 DEF TypeOK
<1>12. MergeMain'
  BY <1>1, <1>2 DEF MergeMain
<1>13. QED
  BY <1>6, <1>10, <1>11, <1>12 DEF MergeInv

LEMMA MergeEnds ==
  ASSUME TypeOK, MergeInv, program = "Mergesort", JoinTask
  PROVE  TypeOK' /\ MergeInv'
<1>1. /\ mainPc = "join" /\ mainPc' = "printed" /\ array' = tasks[WholeArray].own
      /\ Done(WholeArray)
      /\ program' = program /\ input' = input /\ tasks' = tasks
  BY DEF JoinTask, MainGoto
<1>2. input \in Seq(Int) /\ Typed(tasks) /\ array = input /\ \A t \in DOMAIN tasks : MergeTask(t)
  BY <1>1 DEF TypeOK, MergeInv, MergeMain
<1>3. PICK n \in Nat : n = Len(input)
  BY <1>2, LenProperties
<1>4. PICK t : t = Sort(1, n)
  OBVIOUS
<1>5. WholeArray = t
  BY <1>2, <1>3, <1>4 DEF WholeArray, len
<1>6. t.begin = 1 /\ t.end = n
  BY <1>4, SortFields
<1>7. Segment(input, t) = input
  BY <1>2, <1>3, <1>6, SubSeqFull DEF Segment
<1>8. array' \in Arrangements(input) /\ Sorted(array')
  BY <1>1, <1>2, <1>5, <1>7 DEF MergeTask, Done
<1>9. TypeOK'
  BY <1>1, <1>8 DEF TypeOK
<1>10. MergeMain'
  BY <1>1, <1>8 DEF MergeMain
<1>11. \A u \in DOMAIN tasks : MergeTask(u)'
  BY <1>1, <1>2, MergeTaskKept
<1>12. QED
  BY <1>1, <1>9, <1>10, <1>11 DEF MergeInv

-----------------------------------------------------------------------------
(***************************************************************************)
(* What Quicksort does to the elements between b and e.                    *)
(***************************************************************************)
LEMMA ExchangedIs ==
  ASSUME NEW a \in Seq(Int), NEW l \in 1 .. Len(a), NEW r \in 1 .. Len(a)
  PROVE  /\ Exchanged(a, l, r)[l] = a[r] /\ Exchanged(a, l, r)[r] = a[l]
         /\ \A k \in 1 .. Len(a) : k # l /\ k # r => Exchanged(a, l, r)[k] = a[k]
<1>1. /\ Exchanged(a, l, r)[l] = a[r] /\ Exchanged(a, l, r)[r] = a[l]
      /\ \A k \in 1 .. Len(a) \ {l, r} : Exchanged(a, l, r)[k] = a[k]
  BY ArrangedByExchange
<1>2. QED
  BY <1>1

\* x has the elements of a, and what was between b and e still is.
MovedInside(a, x, b, e) ==
  /\ x \in Arrangements(a)
  /\ \A k \in 1 .. Len(a) : ~ (k \in b .. e) => x[k] = a[k]
  /\ \A k \in 1 .. Len(a) : k \in b .. e => \E j \in b .. e : x[k] = a[j]

\* Exchanging two elements between b and e.
LEMMA ExchangeIs ==
  ASSUME NEW a \in Seq(Int), NEW b \in Int, NEW e \in Int, NEW l \in Int, NEW r \in Int,
         l \in 1 .. Len(a), r \in 1 .. Len(a), b <= l, l <= e, b <= r, r <= e
  PROVE  MovedInside(a, Exchanged(a, l, r), b, e)
<1> DEFINE x == Exchanged(a, l, r)
<1> SUFFICES MovedInside(a, x, b, e)
  OBVIOUS
<1>1. /\ x \in Arrangements(a) /\ x[l] = a[r] /\ x[r] = a[l]
      /\ \A k \in 1 .. Len(a) \ {l, r} : x[k] = a[k]
  BY ArrangedByExchange
<1> HIDE DEF x
<1>2. l \in b .. e /\ r \in b .. e
  BY LenProperties
<1>3. ASSUME NEW k \in 1 .. Len(a), k \in b .. e PROVE \E j \in b .. e : x[k] = a[j]
  <2>1. CASE k = l
    BY <1>1, <1>2, <2>1
  <2>2. CASE k = r
    BY <1>1, <1>2, <2>2
  <2>3. CASE k # l /\ k # r
    BY <1>1, <1>3, <2>3
  <2>4. QED
    BY <2>1, <2>2, <2>3
<1>4. \A k \in 1 .. Len(a) : ~ (k \in b .. e) => x[k] = a[k]
  BY <1>1, <1>2
<1>5. QED
  BY <1>1, <1>3, <1>4 DEF MovedInside

NotLess(a, mid, l, r) == {r} \cup {k \in l .. r : a[k] >= mid}
Less(a, mid, l, r) == {l} \cup {k \in l .. r : a[k] < mid}

\* left stops at the first element that is not less than mid_value.
LEMMA ScanLeft ==
  ASSUME NEW a, NEW mid, NEW l \in Nat, NEW r \in Nat, l <= r,
         NEW left, left = Min(NotLess(a, mid, l, r))
  PROVE  /\ left \in Int /\ l <= left /\ left <= r
         /\ left = r \/ a[left] >= mid
         /\ \A k \in l .. left - 1 : ~ (a[k] >= mid)
<1>1. PICK S : S = NotLess(a, mid, l, r)
  OBVIOUS
<1>2. \A k : k \in S <=> k = r \/ (k \in l .. r /\ a[k] >= mid)
  BY <1>1 DEF NotLess
<1>3. \A k \in S : k \in Nat /\ l <= k /\ k <= r
  BY <1>2
<1>4. S \in SUBSET Nat /\ S # {}
  BY <1>2, <1>3
<1>5. left = Min(S)
  BY <1>1
<1>6. left \in S /\ \A k \in S : left <= k
  <2>1. Min(S) \in S /\ \A y \in S : Min(S) <= y
    BY <1>4, MinFacts
  <2>2. QED
    BY <1>5, <2>1
<1>7. left \in Int /\ l <= left /\ left <= r
  BY <1>3, <1>6
<1>8. left = r \/ a[left] >= mid
  BY <1>2, <1>6
<1>9. ASSUME NEW k \in l .. left - 1, a[k] >= mid PROVE FALSE
  <2>1. k \in l .. r /\ k < left
    BY <1>7
  <2>2. k \in S
    BY <1>2, <1>9, <2>1
  <2>3. left <= k
    BY <1>6, <2>2
  <2>4. QED
    BY <1>7, <2>1, <2>3
<1>10. QED
  BY <1>7, <1>8, <1>9

\* right stops at the last one that is less.
LEMMA ScanRight ==
  ASSUME NEW a, NEW mid, NEW l \in Nat, NEW r \in Nat, l <= r,
         NEW right, right = Max(Less(a, mid, l, r))
  PROVE  /\ right \in Int /\ l <= right /\ right <= r
         /\ right = l \/ a[right] < mid
         /\ \A k \in right + 1 .. r : ~ (a[k] < mid)
<1>1. PICK S : S = Less(a, mid, l, r)
  OBVIOUS
<1>2. \A k : k \in S <=> k = l \/ (k \in l .. r /\ a[k] < mid)
  BY <1>1 DEF Less
<1>3. \A k \in S : k \in 0 .. r /\ l <= k /\ k <= r
  BY <1>2
<1>4. S \in SUBSET (0 .. r) /\ S # {}
  BY <1>2, <1>3
<1>5. right = Max(S)
  BY <1>1
<1>6. right \in S /\ \A k \in S : right >= k
  BY <1>4, <1>5, MaxFacts
<1>7. right \in Int /\ l <= right /\ right <= r
  BY <1>3, <1>6
<1>8. right = l \/ a[right] < mid
  BY <1>2, <1>6
<1>9. ASSUME NEW k \in right + 1 .. r, a[k] < mid PROVE FALSE
  <2>1. k \in l .. r /\ k > right
    BY <1>7
  <2>2. k \in S
    BY <1>2, <1>9, <2>1
  <2>3. right >= k
    BY <1>6, <2>2
  <2>4. QED
    BY <1>7, <2>1, <2>3
<1>10. QED
  BY <1>7, <1>8, <1>9

\* Between b and e, what is left of l and right of r is in place.
InPlace(a, b, e, l, r) ==
  /\ 1 <= b /\ b <= l /\ l <= r /\ r <= e /\ e <= Len(a)
  /\ \A k \in b .. l - 1 : a[k] < a[e]
  /\ \A k \in r .. e : a[e] <= a[k]

Scanned(a, l, r, mid, left, right) ==
  /\ left = Min(NotLess(a, mid, l, r))
  /\ right = Max(Less(a, mid, left, r))

\* A round of the loop, and what it leaves.
Round(a, b, e, l, r, mid, left, right, x) ==
  /\ a \in Seq(Int) /\ b \in Int /\ e \in Int /\ l \in Int /\ r \in Int
  /\ InPlace(a, b, e, l, r) /\ l < r /\ mid = a[e] /\ Scanned(a, l, r, mid, left, right)
  /\ x = Exchanged(a, left, right)

AfterRound(a, b, e, l, r, mid, left, right, x) ==
  /\ left \in Int /\ right \in Int /\ l <= left /\ left <= right /\ right <= r
  /\ left \in 1 .. Len(a) /\ right \in 1 .. Len(a)
  /\ x[e] = mid
  /\ InPlace(x, b, e, left, right)

\* What is before left is before right.
LEMMA BeforeBoth ==
  ASSUME NEW n \in Nat, NEW b \in Int, NEW l \in 1 .. n, NEW r \in Int, 1 <= b, l <= r,
         NEW k \in b .. l - 1
  PROVE  k \in 1 .. n /\ k # l /\ k # r
OBVIOUS

\* A round moves left and right, and leaves in place what is outside them.
LEMMA ScanIs ==
  ASSUME NEW a, NEW b, NEW e, NEW l, NEW r, NEW mid, NEW left, NEW right, NEW x
  PROVE  Round(a, b, e, l, r, mid, left, right, x) => AfterRound(a, b, e, l, r, mid, left, right, x)
<1> SUFFICES ASSUME a \in Seq(Int), b \in Int, e \in Int, l \in Int, r \in Int,
                    1 <= b, b <= l, l < r, r <= e, e <= Len(a), mid = a[e],
                    x = Exchanged(a, left, right),
                    \A k \in b .. l - 1 : a[k] < mid, \A k \in r .. e : mid <= a[k],
                    left = Min(NotLess(a, mid, l, r)), right = Max(Less(a, mid, left, r))
             PROVE  /\ left \in Int /\ right \in Int /\ l <= left /\ left <= right /\ right <= r
                    /\ left \in 1 .. Len(a) /\ right \in 1 .. Len(a)
                    /\ x[e] = mid
                    /\ InPlace(x, b, e, left, right)
  BY DEF InPlace, Scanned, Round, AfterRound
<1>1. Len(a) \in Nat /\ \A k \in 1 .. Len(a) : a[k] \in Int
  BY LenProperties
<1>2. mid \in Int /\ \A k \in b .. e : a[k] \in Int /\ k \in 1 .. Len(a)
  BY <1>1
<1>3. l \in Nat /\ r \in Nat /\ l <= r
  BY <1>1
<1>4. /\ left \in Int /\ l <= left /\ left <= r
      /\ left = r \/ a[left] >= mid
      /\ \A k \in l .. left - 1 : ~ (a[k] >= mid)
  BY <1>3, ScanLeft
<1>5. left \in Int /\ l <= left /\ left <= r
  BY <1>4
<1>6. left \in Nat
  BY <1>3, <1>5
<1>7. /\ right \in Int /\ left <= right /\ right <= r
      /\ right = left \/ a[right] < mid
      /\ \A k \in right + 1 .. r : ~ (a[k] < mid)
  BY <1>3, <1>5, <1>6, ScanRight
<1>8. right \in Int /\ left <= right /\ right <= r
  BY <1>7
<1>9. left \in 1 .. Len(a) /\ right \in 1 .. Len(a)
  BY <1>1, <1>5, <1>8
<1>10. a[left] >= mid
  <2>1. CASE left = r
    BY <1>2, <2>1
  <2>2. CASE left # r
    BY <1>4, <2>2
  <2>3. QED
    BY <2>1, <2>2
<1>11. \A k \in b .. left - 1 : a[k] < mid
  <2> TAKE k \in b .. left - 1
  <2>1. CASE k <= l - 1
    BY <1>5, <2>1
  <2>2. CASE ~ (k <= l - 1)
    <3>1. k \in l .. left - 1
      BY <1>5, <2>2
    <3>2. ~ (a[k] >= mid)
      BY <1>4, <3>1
    <3>3. a[k] \in Int
      BY <1>2, <1>5, <2>2
    <3>4. QED
      BY <1>2, <3>2, <3>3
  <2>3. QED
    BY <2>1, <2>2
<1>12. \A k \in right + 1 .. e : mid <= a[k]
  <2> TAKE k \in right + 1 .. e
  <2>1. CASE k <= r
    <3>1. k \in right + 1 .. r
      BY <1>8, <2>1
    <3>2. ~ (a[k] < mid)
      BY <1>7, <3>1
    <3>3. a[k] \in Int
      BY <1>2, <1>5, <1>8, <2>1
    <3>4. QED
      BY <1>2, <3>2, <3>3
  <2>2. CASE ~ (k <= r)
    BY <1>8, <2>2
  <2>3. QED
    BY <2>1, <2>2
<1>13. /\ x[left] = a[right] /\ x[right] = a[left]
       /\ \A k \in 1 .. Len(a) : k # left /\ k # right => x[k] = a[k]
  BY <1>9, ExchangedIs
<1>18. Len(x) = Len(a)
  <2>1. x \in Arrangements(a)
    BY <1>9, ArrangedByExchange
  <2>2. QED
    BY <2>1, ArrangementElements
<1>14. \A k \in b .. left - 1 : x[k] < mid
  <2> TAKE k \in b .. left - 1
  <2>1. k \in 1 .. Len(a) /\ k # left /\ k # right
    BY <1>1, <1>8, <1>9, BeforeBoth, Zenon
  <2>2. QED
    BY <1>11, <1>13, <2>1
<1>15. \A k \in right .. e : mid <= x[k]
  <2> TAKE k \in right .. e
  <2>1. CASE k = right
    BY <1>2, <1>9, <1>10, <1>13, <1>1, <2>1
  <2>2. CASE k # right
    <3>1. k \in right + 1 .. e /\ k # left /\ k \in 1 .. Len(a)
      BY <1>2, <1>5, <1>8, <2>2
    <3>2. QED
      BY <1>12, <1>13, <2>2, <3>1
  <2>3. QED
    BY <2>1, <2>2
<1>16. x[e] = mid
  <2>1. CASE right = e
    <3>1. left = right
      <4>1. ASSUME left # right PROVE FALSE
        <5>1. a[right] < mid
          BY <1>7, <4>1
        <5>2. QED
          BY <1>2, <2>1, <5>1
      <4>2. QED
        BY <4>1
    <3>2. QED
      BY <1>13, <2>1, <3>1
  <2>2. CASE right # e
    <3>1. e \in 1 .. Len(a) /\ e # left /\ e # right
      BY <1>1, <1>5, <1>8, <2>2
    <3>2. QED
      BY <1>13, <3>1
  <2>3. QED
    BY <2>1, <2>2
<1>19. InPlace(x, b, e, left, right)
  BY <1>5, <1>8, <1>14, <1>15, <1>16, <1>18 DEF InPlace
<1>17. QED
  BY <1>5, <1>8, <1>9, <1>16, <1>19

PartedAt(a, b, e, l) ==
  /\ b <= l /\ l <= e
  /\ \A k \in b .. l - 1 : a[k] < a[l]
  /\ \A k \in l .. e : a[l] <= a[k]

\* When left and right have met, the element there is exchanged with the last.
LEMMA PlacedIs ==
  ASSUME NEW a \in Seq(Int), NEW b \in Int, NEW e \in Int, NEW l \in Int
  PROVE  InPlace(a, b, e, l, l)
         => /\ Placed(a, l, e) = <<Exchanged(a, l, e), l>>
            /\ l \in 1 .. Len(a) /\ e \in 1 .. Len(a) /\ b <= l /\ l <= e
            /\ PartedAt(Exchanged(a, l, e), b, e, l)
<1> SUFFICES ASSUME 1 <= b, b <= l, l <= e, e <= Len(a),
                    \A k \in b .. l - 1 : a[k] < a[e], \A k \in l .. e : a[e] <= a[k]
             PROVE  /\ Placed(a, l, e) = <<Exchanged(a, l, e), l>>
                    /\ l \in 1 .. Len(a) /\ e \in 1 .. Len(a) /\ b <= l /\ l <= e
                    /\ PartedAt(Exchanged(a, l, e), b, e, l)
  BY DEF InPlace
<1> DEFINE x == Exchanged(a, l, e)
<1>1. Len(a) \in Nat /\ \A k \in 1 .. Len(a) : a[k] \in Int
  BY LenProperties
<1>2. \A k \in b .. e : a[k] \in Int /\ k \in 1 .. Len(a)
  BY <1>1
<1>3. l \in b .. e /\ e \in b .. e /\ l \in l .. e
  OBVIOUS
<1>4. l \in 1 .. Len(a) /\ e \in 1 .. Len(a) /\ a[l] \in Int /\ a[e] \in Int
  BY <1>2, <1>3
<1>5. a[l] >= a[e]
  BY <1>3, <1>4
<1>6. Placed(a, l, e) = <<x, l>>
  BY <1>5 DEF Placed
<1> HIDE DEF x
<1>7. /\ x[l] = a[e] /\ x[e] = a[l]
      /\ \A k \in 1 .. Len(a) : k # l /\ k # e => x[k] = a[k]
  BY <1>4, ExchangedIs DEF x
<1>8. \A k \in b .. l - 1 : x[k] < x[l]
  <2> TAKE k \in b .. l - 1
  <2>1. k \in 1 .. Len(a) /\ k # l /\ k # e
    BY <1>2
  <2>2. QED
    BY <1>7, <2>1
<1>9. \A k \in l .. e : x[l] <= x[k]
  <2> TAKE k \in l .. e
  <2>1. CASE k = l
    BY <1>4, <1>7, <2>1
  <2>2. CASE k = e
    BY <1>4, <1>5, <1>7, <2>2
  <2>3. CASE k # l /\ k # e
    <3>1. k \in 1 .. Len(a)
      BY <1>2
    <3>2. QED
      BY <1>7, <2>3, <3>1
  <2>4. QED
    BY <2>1, <2>2, <2>3
<1>10. PartedAt(x, b, e, l)
  BY <1>8, <1>9 DEF PartedAt
<1>11. QED
  BY <1>4, <1>6, <1>10 DEF x


-----------------------------------------------------------------------------
(***************************************************************************)
(* fork-join/Quicksort.  While a task scans, left and right divide what is *)
(* in place from what is not; once it has split its segment, everything    *)
(* left of the element at left is less, and nothing right of it.  Segments *)
(* of two tasks are apart, or one lies on one side of the other, and below *)
(* a task that is done are only tasks that are done: so nobody moves       *)
(* elements of a segment that is in order, or across a split.              *)
(***************************************************************************)
Scanning(t) ==
  tasks[t].status = "scanning" =>
    /\ t.begin < t.end
    /\ t.begin <= tasks[t].left /\ tasks[t].left <= tasks[t].right /\ tasks[t].right <= t.end
    /\ tasks[t].mid_value = array[t.end]
    /\ \A k \in t.begin .. tasks[t].left - 1 : array[k] < array[t.end]
    /\ \A k \in tasks[t].right .. t.end : array[t.end] <= array[k]

Parted(t) ==
  HasSplit(t) =>
    /\ t.begin <= tasks[t].left /\ tasks[t].left <= t.end
    /\ \A k \in t.begin .. tasks[t].left - 1 : array[k] < array[tasks[t].left]
    /\ \A k \in tasks[t].left .. t.end : array[tasks[t].left] <= array[k]
    /\ LeftSort(t) \in DOMAIN tasks /\ RightSort(t) \in DOMAIN tasks

QuickTask(t) ==
  /\ Inside(t)
  /\ Scanning(t)
  /\ tasks[t].status = "joining" => t.begin < t.end
  /\ Parted(t)
  /\ Done(t) => Sorted(Segment(array, t))

Below(u, t) ==
  /\ HasSplit(t)
  /\ t.begin <= u.begin /\ u.end <= t.end
  /\ u.end < tasks[t].left \/ tasks[t].left < u.begin

Apart(t, u) == t.end + 1 < u.begin \/ u.end + 1 < t.begin
Related(t, u) == Apart(t, u) \/ Below(t, u) \/ Below(u, t)

QuickMain ==
  /\ mainPc \in {"start", "join", "printed"}
  /\ mainPc = "start" => DOMAIN tasks = {}
  /\ mainPc = "printed" => Done(WholeArray)

QuickInv ==
  program = "Quicksort" =>
    /\ QuickMain
    /\ \A t \in DOMAIN tasks : QuickTask(t)
    /\ \A t, u \in DOMAIN tasks : t # u => Related(t, u)
    /\ \A t, u \in DOMAIN tasks : Done(t) /\ Below(u, t) => Done(u)

\* The arrays are as long as the input before and after a step.
Arrays ==
  /\ input \in Seq(Int) /\ input' = input
  /\ array \in Seq(Int) /\ Len(array) = Len(input)
  /\ array' \in Seq(Int) /\ Len(array') = Len(input)

\* The locals of a task.
LEMMA Fields ==
  ASSUME NEW t \in DOMAIN tasks, Typed(tasks)
  PROVE  /\ tasks[t].left \in Int /\ tasks[t].right \in Int /\ tasks[t].mid_value \in Int
         /\ tasks[t].status \in {"forked", "scanning", "joining", "done"}
BY DEF Typed, TaskState

\* A task of which neither the locals nor the elements have changed.
LEMMA QuickTaskSame ==
  ASSUME Arrays, Typed(tasks), NEW u \in DOMAIN tasks, QuickTask(u),
         DOMAIN tasks \subseteq DOMAIN tasks', tasks'[u] = tasks[u],
         \A k \in 1 .. Len(input) : k \in u.begin .. u.end => array'[k] = array[k]
  PROVE  QuickTask(u)'
<1>1. Inside(u) /\ Scanning(u) /\ Parted(u)
  BY DEF QuickTask
<1>2. PICK b, e, n \in Int : /\ u = Sort(b, e) /\ u.begin = b /\ u.end = e /\ n = Len(input)
                             /\ 1 <= b /\ b <= e + 1 /\ e <= n
  BY <1>1, InsideIs DEF Arrays
<1>3. PICK l, r \in Int : l = tasks[u].left /\ r = tasks[u].right
  BY Fields
<1>4. \A k \in b .. e : array'[k] = array[k]
  BY <1>2
<1>5. Inside(u)'
  BY <1>1 DEF Inside, Arrays
<1>6. Scanning(u)'
  <2>1. ASSUME tasks[u].status = "scanning"
        PROVE  /\ b < e /\ b <= l /\ l <= r /\ r <= e
               /\ tasks[u].mid_value = array'[e]
               /\ \A k \in b .. l - 1 : array'[k] < array'[e]
               /\ \A k \in r .. e : array'[e] <= array'[k]
    <3>1. /\ b < e /\ b <= l /\ l <= r /\ r <= e
          /\ tasks[u].mid_value = array[e]
          /\ \A k \in b .. l - 1 : array[k] < array[e]
          /\ \A k \in r .. e : array[e] <= array[k]
      BY <1>1, <1>2, <1>3, <2>1 DEF Scanning
    <3>2. e \in b .. e /\ (\A k \in b .. l - 1 : k \in b .. e) /\ (\A k \in r .. e : k \in b .. e)
      BY <3>1
    <3>3. QED
      BY <1>4, <3>1, <3>2
  <2>2. QED
    BY <1>2, <1>3, <2>1 DEF Scanning
<1>7. HasSplit(u)' <=> HasSplit(u)
  BY DEF HasSplit
<1>8. LeftSort(u)' = LeftSort(u) /\ RightSort(u)' = RightSort(u)
  BY DEF LeftSort, RightSort
<1>9. Parted(u)'
  <2>1. ASSUME HasSplit(u)
        PROVE  /\ b <= l /\ l <= e
               /\ \A k \in b .. l - 1 : array'[k] < array'[l]
               /\ \A k \in l .. e : array'[l] <= array'[k]
    <3>1. /\ b <= l /\ l <= e
          /\ \A k \in b .. l - 1 : array[k] < array[l]
          /\ \A k \in l .. e : array[l] <= array[k]
      BY <1>1, <1>2, <1>3, <2>1 DEF Parted
    <3>2. l \in b .. e /\ (\A k \in b .. l - 1 : k \in b .. e) /\ (\A k \in l .. e : k \in b .. e)
      BY <3>1
    <3>3. QED
      BY <1>4, <3>1, <3>2
  <2>2. HasSplit(u) => LeftSort(u) \in DOMAIN tasks' /\ RightSort(u) \in DOMAIN tasks'
    BY <1>1 DEF Parted
  <2>3. QED
    BY <1>2, <1>3, <1>7, <1>8, <2>1, <2>2 DEF Parted
<1>10. Done(u)' => Sorted(Segment(array', u))
  <2>1. ASSUME Done(u)' PROVE Sorted(SubSeq(array', b, e))
    <3>1. Done(u)
      BY <2>1 DEF Done
    <3>2. Sorted(SubSeq(array, b, e))
      BY <1>2, <3>1 DEF QuickTask, Segment
    <3>3. \A j, k \in b .. e : j < k => array[j] <= array[k]
      BY <1>2, <3>2, PartSorted DEF Arrays
    <3>4. \A j, k \in b .. e : j < k => array'[j] <= array'[k]
      BY <1>4, <3>3
    <3>5. array' \in Seq(Int) /\ e <= Len(array')
      BY <1>2 DEF Arrays
    <3>6. QED
      BY <1>2, <3>4, <3>5, PartSorted
  <2>2. QED
    BY <1>2, <2>1 DEF Segment
<1>11. tasks'[u].status = "joining" => u.begin < u.end
  BY DEF QuickTask
<1>12. QED
  BY <1>5, <1>6, <1>9, <1>10, <1>11 DEF QuickTask, Segment

\* A task that t, which moves elements of its own segment, leaves in order.
LEMMA QuickTaskKept ==
  ASSUME Arrays, Typed(tasks), NEW t \in DOMAIN tasks, NEW u \in DOMAIN tasks,
         Inside(t), ~ HasSplit(t), ~ Done(t),
         QuickTask(u), Related(t, u), Done(u) /\ Below(t, u) => Done(t),
         DOMAIN tasks \subseteq DOMAIN tasks', tasks'[u] = tasks[u],
         \A k \in 1 .. Len(input) : ~ (k \in t.begin .. t.end) => array'[k] = array[k],
         \A k \in 1 .. Len(input) : k \in t.begin .. t.end =>
           \E j \in t.begin .. t.end : array'[k] = array[j]
  PROVE  QuickTask(u)'
<1>1. Inside(u) /\ Scanning(u) /\ Parted(u)
  BY DEF QuickTask
<1>2. PICK b, e, n \in Int : /\ u = Sort(b, e) /\ u.begin = b /\ u.end = e /\ n = Len(input)
                             /\ 1 <= b /\ b <= e + 1 /\ e <= n
  BY <1>1, InsideIs DEF Arrays
<1>3. PICK tb, te, tn \in Int : /\ t = Sort(tb, te) /\ t.begin = tb /\ t.end = te /\ tn = Len(input)
                             /\ 1 <= tb /\ tb <= te + 1 /\ te <= tn
  BY InsideIs DEF Arrays
<1>4. PICK l \in Int : l = tasks[u].left
  BY Fields
<1>5. ~ Below(u, t)
  BY DEF Below
<1>6. CASE Apart(t, u)
  <2>1. \A k \in b .. e : ~ (k \in tb .. te) /\ k \in 1 .. n
    BY <1>2, <1>3, <1>6 DEF Apart
  <2>2. \A k \in 1 .. Len(input) : k \in u.begin .. u.end => array'[k] = array[k]
    BY <1>2, <1>3, <2>1
  <2>3. QED
    BY <2>2, QuickTaskSame
<1>7. CASE Below(t, u)
  <2>1. ~ Done(u) /\ HasSplit(u) /\ b <= tb /\ te <= e /\ (te < l \/ l < tb)
    BY <1>2, <1>3, <1>4, <1>7 DEF Below
  <2>2. tasks[u].status = "joining" /\ b < e
    BY <1>2, <2>1 DEF HasSplit, Done
  <2>3. /\ b <= l /\ l <= e
        /\ \A k \in b .. l - 1 : array[k] < array[l]
        /\ \A k \in l .. e : array[l] <= array[k]
        /\ LeftSort(u) \in DOMAIN tasks /\ RightSort(u) \in DOMAIN tasks
    BY <1>1, <1>2, <1>4, <2>1 DEF Parted
  <2>4. array'[l] = array[l]
    <3>1. l \in 1 .. n /\ ~ (l \in tb .. te)
      BY <1>2, <1>3, <2>1, <2>3
    <3>2. QED
      BY <1>2, <1>3, <3>1
  <2>5. ASSUME NEW k \in b .. l - 1 PROVE array'[k] < array'[l]
    <3>1. k \in 1 .. n
      BY <1>2, <2>3
    <3>2. CASE k \in tb .. te
      <4>1. PICK j \in tb .. te : array'[k] = array[j]
        BY <1>2, <1>3, <3>1, <3>2
      <4>2. j \in b .. l - 1
        BY <2>1, <3>2
      <4>3. QED
        BY <2>3, <2>4, <4>1, <4>2
    <3>3. CASE ~ (k \in tb .. te)
      <4>1. array'[k] = array[k]
        BY <1>2, <1>3, <3>1, <3>3
      <4>2. QED
        BY <2>3, <2>4, <4>1
    <3>4. QED
      BY <3>2, <3>3
  <2>6. ASSUME NEW k \in l .. e PROVE array'[l] <= array'[k]
    <3>1. k \in 1 .. n
      BY <1>2, <2>3
    <3>2. CASE k \in tb .. te
      <4>1. PICK j \in tb .. te : array'[k] = array[j]
        BY <1>2, <1>3, <3>1, <3>2
      <4>2. j \in l .. e
        BY <2>1, <3>2
      <4>3. QED
        BY <2>3, <2>4, <4>1, <4>2
    <3>3. CASE ~ (k \in tb .. te)
      <4>1. array'[k] = array[k]
        BY <1>2, <1>3, <3>1, <3>3
      <4>2. QED
        BY <2>3, <2>4, <4>1
    <3>4. QED
      BY <3>2, <3>3
  <2>7. LeftSort(u)' = LeftSort(u) /\ RightSort(u)' = RightSort(u)
    BY DEF LeftSort, RightSort
  <2>8. Parted(u)'
    BY <1>2, <1>4, <2>3, <2>5, <2>6, <2>7 DEF Parted
  <2>9. Inside(u)'
    BY <1>1 DEF Inside, Arrays
  <2>10. Scanning(u)' /\ ~ Done(u)'
    BY <2>2 DEF Scanning, Done
  <2>11. QED
    BY <1>2, <2>2, <2>8, <2>9, <2>10 DEF QuickTask
<1>8. QED
  BY <1>5, <1>6, <1>7 DEF Related

\* How two tasks lie to each other does not change as long as what is split stays so.
LEMMA RelatedKept ==
  ASSUME NEW t, NEW u, Related(t, u),
         HasSplit(t) => HasSplit(t)' /\ tasks'[t].left = tasks[t].left,
         HasSplit(u) => HasSplit(u)' /\ tasks'[u].left = tasks[u].left
  PROVE  Related(t, u)'
BY DEF Related, Apart, Below

\* Tasks that are apart are not below each other.
LEMMA ApartNotBelow ==
  ASSUME NEW t, NEW u, Inside(t), Inside(u), input \in Seq(Int), Apart(t, u)
  PROVE  ~ Below(t, u) /\ t # u
<1>1. PICK b, e, n \in Int : /\ u = Sort(b, e) /\ u.begin = b /\ u.end = e /\ n = Len(input)
                             /\ 1 <= b /\ b <= e + 1 /\ e <= n
  BY InsideIs
<1>2. PICK tb, te, tn \in Int : /\ t = Sort(tb, te) /\ t.begin = tb /\ t.end = te /\ tn = Len(input)
                             /\ 1 <= tb /\ tb <= te + 1 /\ te <= tn
  BY InsideIs
<1>3. te + 1 < b \/ e + 1 < tb
  BY <1>1, <1>2 DEF Apart
<1>4. ~ (b <= tb /\ te <= e) /\ (t = u => tb = b /\ te = e)
  BY <1>1, <1>2, <1>3
<1>5. QED
  BY <1>1, <1>2, <1>3, <1>4 DEF Below


\* A task that changes is the only one.
LEMMA ChangedIs ==
  ASSUME NEW t \in DOMAIN tasks, Typed(tasks), NEW r \in TaskState,
         tasks' = [tasks EXCEPT ![t] = r]
  PROVE  /\ Typed(tasks') /\ DOMAIN tasks' = DOMAIN tasks
         /\ tasks'[t] = r
         /\ \A u \in DOMAIN tasks : u # t => tasks'[u] = tasks[u]
BY DEF Typed

QuickTasks == \A t \in DOMAIN tasks : QuickTask(t)
QuickRelated == \A t, u \in DOMAIN tasks : t # u => Related(t, u)
QuickDone == \A t, u \in DOMAIN tasks : Done(t) /\ Below(u, t) => Done(u)

\* The invariant by its parts.
LEMMA QuickParts ==
  ASSUME program = "Quicksort"
  PROVE  QuickInv <=> QuickMain /\ QuickTasks /\ QuickRelated /\ QuickDone
BY DEF QuickInv, QuickTasks, QuickRelated, QuickDone

\* A step of t that forks no task.
LEMMA QuickOrder ==
  ASSUME NEW t \in DOMAIN tasks, QuickRelated, QuickDone,
         DOMAIN tasks' = DOMAIN tasks,
         \A u \in DOMAIN tasks : u # t => tasks'[u] = tasks[u],
         HasSplit(t)' <=> HasSplit(t),
         HasSplit(t) => tasks'[t].left = tasks[t].left,
         Done(t) => Done(t)',
         Done(t)' => Done(t) \/ \A u \in DOMAIN tasks : Below(u, t) => Done(u)
  PROVE  QuickRelated' /\ QuickDone' /\ (\A u \in DOMAIN tasks : Done(u) => Done(u)')
<1>1. \A u \in DOMAIN tasks : Done(u) => Done(u)'
  BY DEF Done
<1>2. \A u \in DOMAIN tasks : u # t => (Done(u)' <=> Done(u))
  BY DEF Done
<1>3. \A u \in DOMAIN tasks : HasSplit(u)' <=> HasSplit(u)
  BY DEF HasSplit
<1>4. \A u \in DOMAIN tasks : HasSplit(u) => tasks'[u].left = tasks[u].left
  OBVIOUS
<1>5. QuickRelated'
  <2>1. ASSUME NEW u \in DOMAIN tasks, NEW v \in DOMAIN tasks, u # v PROVE Related(u, v)'
    BY <1>3, <1>4, <2>1, RelatedKept DEF QuickRelated
  <2>2. QED
    BY <2>1 DEF QuickRelated
<1>6. QuickDone'
  <2>1. ASSUME NEW v \in DOMAIN tasks, NEW u \in DOMAIN tasks, Done(v)', Below(u, v)'
        PROVE  Done(u)'
    <3>1. Below(u, v)
      BY <1>3, <1>4, <2>1 DEF Below
    <3>2. CASE Done(v)
      BY <1>1, <3>1, <3>2 DEF QuickDone
    <3>3. CASE ~ Done(v)
      <4>1. v = t
        BY <1>2, <2>1, <3>3
      <4>2. QED
        BY <1>1, <2>1, <3>1, <3>3, <4>1
    <3>4. QED
      BY <3>2, <3>3
  <2>2. QED
    BY <2>1 DEF QuickDone
<1>7. QED
  BY <1>1, <1>5, <1>6

\* A step of t that may move elements, but forks no task.
LEMMA QuickStep ==
  ASSUME TypeOK, QuickInv, program = "Quicksort", NEW t \in DOMAIN tasks,
         UNCHANGED <<program, input, mainPc>>, array' \in Arrangements(input), Typed(tasks'),
         DOMAIN tasks' = DOMAIN tasks,
         \A u \in DOMAIN tasks : u # t => tasks'[u] = tasks[u],
         HasSplit(t)' <=> HasSplit(t),
         HasSplit(t) => tasks'[t].left = tasks[t].left,
         Done(t) => Done(t)',
         Done(t)' => Done(t) \/ \A u \in DOMAIN tasks : Below(u, t) => Done(u),
         QuickTask(t)',
         \A u \in DOMAIN tasks : u # t => QuickTask(u)'
  PROVE  TypeOK' /\ QuickInv'
<1>1. QuickMain /\ QuickTasks /\ QuickRelated /\ QuickDone
  BY QuickParts
<1>2. QuickRelated' /\ QuickDone' /\ \A u \in DOMAIN tasks : Done(u) => Done(u)'
  BY <1>1, QuickOrder
<1>3. QuickTasks'
  BY DEF QuickTasks
<1>4. TypeOK'
  BY DEF TypeOK
<1>5. QuickMain'
  <2>1. WholeArray' = WholeArray
    <3>1. len' = Len(input) /\ len = Len(input)
      BY ArrangementElements DEF len, TypeOK
    <3>2. QED
      BY <3>1 DEF WholeArray
  <2>2. Done(WholeArray) => WholeArray \in DOMAIN tasks
    BY DEF Done
  <2>3. Done(WholeArray) => Done(WholeArray)'
    <3>1. ASSUME NEW w \in DOMAIN tasks, w = WholeArray, Done(w) PROVE Done(WholeArray)'
      BY <1>2, <2>1, <3>1 DEF Done
    <3>2. QED
      BY <2>2, <3>1
  <2>4. QED
    BY <1>1, <2>3 DEF QuickMain
<1>6. QED
  BY <1>2, <1>3, <1>4, <1>5 DEF QuickInv, QuickTasks, QuickRelated, QuickDone

\* The steps of t that leave the array alone.
LEMMA QuickCalm ==
  ASSUME TypeOK, QuickInv, program = "Quicksort", NEW t \in DOMAIN tasks,
         UNCHANGED <<program, input, array, mainPc>>, Typed(tasks'),
         DOMAIN tasks' = DOMAIN tasks,
         \A u \in DOMAIN tasks : u # t => tasks'[u] = tasks[u],
         HasSplit(t)' <=> HasSplit(t),
         HasSplit(t) => tasks'[t].left = tasks[t].left,
         Done(t) => Done(t)',
         Done(t)' => Done(t) \/ \A u \in DOMAIN tasks : Below(u, t) => Done(u),
         QuickTask(t)'
  PROVE  TypeOK' /\ QuickInv'
<1>1. array' \in Arrangements(input) /\ Typed(tasks)
  BY DEF TypeOK
<1>2. Arrays
  BY ArrangementElements DEF TypeOK, Arrays
<1>3. ASSUME NEW u \in DOMAIN tasks, u # t PROVE QuickTask(u)'
  <2>1. QuickTask(u)
    BY DEF QuickInv
  <2>2. QED
    BY <1>1, <1>2, <1>3, <2>1, QuickTaskSame
<1>4. QED
  BY <1>1, <1>3, QuickStep

\* The steps of the tasks of Quicksort that fork none.
LEMMA QuickBegins ==
  ASSUME TypeOK, QuickInv, program = "Quicksort", NEW t \in DOMAIN tasks, BeginScan(t)
  PROVE  TypeOK' /\ QuickInv'
<1>1. /\ tasks[t].status = "forked" /\ t.begin < t.end
      /\ UNCHANGED <<program, input, array, mainPc>>
      /\ tasks' = [tasks EXCEPT ![t] = [@ EXCEPT !.status = "scanning", !.left = t.begin,
                                            !.right = t.end, !.mid_value = array[t.end]]]
  BY DEF BeginScan
<1>2. QuickTask(t) /\ Inside(t) /\ Typed(tasks)
  BY DEF QuickInv, QuickTask, TypeOK
<1>3. input \in Seq(Int) /\ array \in Seq(Int) /\ Len(array) = Len(input)
  BY ArrangementElements DEF TypeOK
<1>4. PICK b, e, n \in Int : /\ t = Sort(b, e) /\ t.begin = b /\ t.end = e /\ n = Len(input)
                             /\ 1 <= b /\ b <= e + 1 /\ e <= n
  BY <1>2, <1>3, InsideIs
<1>5. b < e /\ array[e] \in Int
  <2>1. b < e /\ e \in 1 .. Len(array)
    BY <1>1, <1>3, <1>4
  <2>2. QED
    BY <1>3, <2>1, LenProperties
<1>6. /\ Typed(tasks') /\ DOMAIN tasks' = DOMAIN tasks
      /\ tasks'[t].status = "scanning" /\ tasks'[t].left = b /\ tasks'[t].right = e
      /\ tasks'[t].mid_value = array[e]
      /\ \A u \in DOMAIN tasks : u # t => tasks'[u] = tasks[u]
  <2>1. PICK m \in Int : m = array[e]
    BY <1>5
  <2>2. PICK r : r = [tasks[t] EXCEPT !.status = "scanning", !.left = b, !.right = e, !.mid_value = m]
    OBVIOUS
  <2>3. tasks' = [tasks EXCEPT ![t] = r]
    BY <1>1, <1>4, <2>1, <2>2
  <2>4. tasks[t] \in TaskState
    BY <1>2 DEF Typed
  <2>5. r \in TaskState /\ r.status = "scanning" /\ r.left = b /\ r.right = e /\ r.mid_value = m
    BY <2>2, <2>4 DEF TaskState
  <2>6. QED
    BY <1>2, <2>1, <2>3, <2>5, ChangedIs
<1>7. ~ HasSplit(t) /\ ~ HasSplit(t)' /\ ~ Done(t) /\ ~ Done(t)'
  BY <1>1, <1>6 DEF HasSplit, Done
<1>8. Scanning(t)'
  <2>1. \A k \in b .. b - 1 : array'[k] < array'[e]
    BY <1>4
  <2>2. \A k \in e .. e : array'[e] <= array'[k]
    BY <1>1, <1>5
  <2>3. b <= b /\ b <= e /\ e <= e /\ array'[e] = array[e]
    BY <1>1, <1>5
  <2>4. QED
    BY <1>4, <1>5, <1>6, <2>1, <2>2, <2>3 DEF Scanning
<1>9. QuickTask(t)'
  BY <1>1, <1>2, <1>6, <1>7, <1>8 DEF QuickTask, Inside, Parted
<1>10. QED
  BY <1>1, <1>6, <1>7, <1>9, QuickCalm

LEMMA QuickEmpty ==
  ASSUME TypeOK, QuickInv, program = "Quicksort", NEW t \in DOMAIN tasks, NothingToSort(t)
  PROVE  TypeOK' /\ QuickInv'
<1>1. /\ tasks[t].status = "forked" /\ t.begin >= t.end /\ Finish(t, <<>>)
      /\ UNCHANGED <<program, input, array, mainPc>>
  BY DEF NothingToSort
<1>2. QuickTask(t) /\ Inside(t) /\ Typed(tasks) /\ <<>> \in Seq(Int)
  BY DEF QuickInv, QuickTask, TypeOK
<1>3. input \in Seq(Int) /\ array \in Seq(Int) /\ Len(array) = Len(input)
  BY ArrangementElements DEF TypeOK
<1>4. PICK b, e, n \in Int : /\ t = Sort(b, e) /\ t.begin = b /\ t.end = e /\ n = Len(input)
                             /\ 1 <= b /\ b <= e + 1 /\ e <= n
  BY <1>2, <1>3, InsideIs
<1>5. /\ Typed(tasks') /\ DOMAIN tasks' = DOMAIN tasks
      /\ tasks'[t].status = "done"
      /\ \A u \in DOMAIN tasks : u # t => tasks'[u] = tasks[u]
  BY <1>1, <1>2, FinishIs
<1>6. ~ HasSplit(t) /\ ~ HasSplit(t)'
  BY <1>1, <1>4, <1>5 DEF HasSplit
<1>7. Sorted(Segment(array, t))
  <2>1. \A j, k \in b .. e : j < k => array[j] <= array[k]
    BY <1>1, <1>4
  <2>2. Sorted(SubSeq(array, b, e))
    BY <1>3, <1>4, <2>1, PartSorted
  <2>3. QED
    BY <1>4, <2>2 DEF Segment
<1>8. QuickTask(t)'
  BY <1>1, <1>2, <1>5, <1>6, <1>7 DEF QuickTask, Inside, Parted, Scanning, Segment
<1>9. Done(t)' /\ \A u \in DOMAIN tasks : ~ Below(u, t)
  BY <1>5, <1>6 DEF Done, Below
<1>10. QED
  BY <1>1, <1>5, <1>6, <1>8, <1>9, QuickCalm

LEMMA QuickScans ==
  ASSUME TypeOK, QuickInv, program = "Quicksort", NEW t \in DOMAIN tasks, Scan(t)
  PROVE  TypeOK' /\ QuickInv'
<1>1. QuickTask(t) /\ Inside(t) /\ Typed(tasks)
  BY DEF QuickInv, QuickTask, TypeOK
<1>2. input \in Seq(Int) /\ array \in Seq(Int) /\ Len(array) = Len(input) /\ array \in Arrangements(input)
  BY ArrangementElements DEF TypeOK
<1>3. PICK b, e, n \in Int : /\ t = Sort(b, e) /\ t.begin = b /\ t.end = e /\ n = Len(input)
                             /\ 1 <= b /\ b <= e + 1 /\ e <= n
  BY <1>1, <1>2, InsideIs
<1>4. PICK l, r, mid \in Int : l = tasks[t].left /\ r = tasks[t].right /\ mid = tasks[t].mid_value
  BY <1>1, Fields
<1>5. /\ tasks[t].status = "scanning" /\ l < r
      /\ UNCHANGED <<program, input, mainPc>>
  BY <1>4 DEF Scan
<1>6. PICK left, right, x :
        /\ Scanned(array, l, r, mid, left, right)
        /\ array' = x /\ x = Exchanged(array, left, right)
        /\ tasks' = [tasks EXCEPT ![t] = [@ EXCEPT !.left = left, !.right = right]]
  BY <1>4 DEF Scan, Scanned, NotLess, Less
<1>7. /\ b < e /\ b <= l /\ r <= e /\ mid = array[e]
      /\ InPlace(array, b, e, l, r)
  BY <1>1, <1>2, <1>3, <1>4, <1>5 DEF QuickTask, Scanning, InPlace
<1>8. /\ left \in Int /\ right \in Int /\ l <= left /\ left <= right /\ right <= r
      /\ left \in 1 .. Len(array) /\ right \in 1 .. Len(array)
      /\ x[e] = mid
      /\ InPlace(x, b, e, left, right)
  <2>1. Round(array, b, e, l, r, mid, left, right, x)
    BY <1>2, <1>5, <1>6, <1>7 DEF Round
  <2>2. AfterRound(array, b, e, l, r, mid, left, right, x)
    BY <2>1, ScanIs
  <2>3. QED
    BY <2>2 DEF AfterRound
<1>9. b <= left /\ left <= e /\ b <= right /\ right <= e
  BY <1>3, <1>7, <1>8
<1>10. MovedInside(array, Exchanged(array, left, right), b, e)
  <2>1. left \in Int /\ right \in Int
    BY <1>8
  <2>2. QED
    BY <1>2, <1>8, <1>9, <2>1, ExchangeIs
<1>19. /\ x \in Arrangements(array)
       /\ \A k \in 1 .. Len(array) : ~ (k \in b .. e) => x[k] = array[k]
       /\ \A k \in 1 .. Len(array) : k \in b .. e => \E j \in b .. e : x[k] = array[j]
  BY <1>6, <1>10 DEF MovedInside
<1>11. array' \in Arrangements(input) /\ array' \in Seq(Int) /\ Len(array') = Len(input)
  BY <1>2, <1>6, <1>19, ArrangedTwice, ArrangementElements
<1>12. Arrays
  BY <1>2, <1>5, <1>11 DEF Arrays
<1>13. /\ Typed(tasks') /\ DOMAIN tasks' = DOMAIN tasks
       /\ tasks'[t].status = "scanning" /\ tasks'[t].left = left /\ tasks'[t].right = right
       /\ tasks'[t].mid_value = mid
       /\ \A u \in DOMAIN tasks : u # t => tasks'[u] = tasks[u]
  <2>1. PICK q : q = [tasks[t] EXCEPT !.left = left, !.right = right]
    OBVIOUS
  <2>2. tasks' = [tasks EXCEPT ![t] = q]
    BY <1>6, <2>1
  <2>3. tasks[t] \in TaskState
    BY <1>1 DEF Typed
  <2>4. left \in Int /\ right \in Int
    BY <1>8
  <2>5. q \in TaskState /\ q.left = left /\ q.right = right
    BY <2>1, <2>3, <2>4 DEF TaskState
  <2>6. q.status = "scanning" /\ q.mid_value = mid
    BY <1>4, <1>5, <2>1, <2>3 DEF TaskState
  <2>7. QED
    BY <1>1, <2>2, <2>5, <2>6, ChangedIs
<1>14. ~ HasSplit(t) /\ ~ HasSplit(t)' /\ ~ Done(t) /\ ~ Done(t)'
  BY <1>5, <1>13 DEF HasSplit, Done
<1>15. Scanning(t)'
  BY <1>3, <1>6, <1>7, <1>8, <1>9, <1>13 DEF Scanning, InPlace
<1>16. QuickTask(t)'
  BY <1>1, <1>5, <1>13, <1>14, <1>15 DEF QuickTask, Inside, Parted
<1>17. ASSUME NEW u \in DOMAIN tasks, u # t PROVE QuickTask(u)'
  <2>1. QuickTask(u) /\ Related(t, u) /\ (Done(u) /\ Below(t, u) => Done(t))
    BY <1>17 DEF QuickInv
  <2>2. \A k \in 1 .. Len(input) : ~ (k \in t.begin .. t.end) => array'[k] = array[k]
    BY <1>2, <1>3, <1>6, <1>19
  <2>3. \A k \in 1 .. Len(input) : k \in t.begin .. t.end =>
          \E j \in t.begin .. t.end : array'[k] = array[j]
    BY <1>2, <1>3, <1>6, <1>19
  <2>4. DOMAIN tasks \subseteq DOMAIN tasks' /\ tasks'[u] = tasks[u]
    BY <1>13, <1>17
  <2>5. QED
    BY <1>1, <1>12, <1>14, <1>17, <2>1, <2>2, <2>3, <2>4, QuickTaskKept
<1>18. QED
  BY <1>5, <1>11, <1>13, <1>14, <1>16, <1>17, QuickStep


\* Two sides in order, split by what is between them, are one segment in order.
LEMMA SidesSorted ==
  ASSUME NEW a \in Seq(Int), NEW b \in Int, NEW e \in Int, NEW l \in Int,
         1 <= b, e <= Len(a), PartedAt(a, b, e, l),
         Sorted(SubSeq(a, b, l - 1)), Sorted(SubSeq(a, l + 1, e))
  PROVE  Sorted(SubSeq(a, b, e))
<1>1. /\ b <= l /\ l <= e
      /\ \A k \in b .. l - 1 : a[k] < a[l]
      /\ \A k \in l .. e : a[l] <= a[k]
  BY DEF PartedAt
<1>2. PICK m \in Int : m = l - 1
  OBVIOUS
<1>3. PICK p \in Int : p = l + 1
  OBVIOUS
<1>4. Len(a) \in Nat /\ \A k \in 1 .. Len(a) : a[k] \in Int
  BY LenProperties
<1>5. \A j, k \in b .. m : j < k => a[j] <= a[k]
  <2>1. b <= m + 1 /\ m <= Len(a)
    BY <1>1, <1>2, <1>4
  <2>2. Sorted(SubSeq(a, b, m))
    BY <1>2
  <2>3. QED
    BY <2>1, <2>2, PartSorted
<1>6. \A j, k \in p .. e : j < k => a[j] <= a[k]
  <2>1. 1 <= p /\ p <= e + 1
    BY <1>1, <1>3
  <2>2. Sorted(SubSeq(a, p, e))
    BY <1>3
  <2>3. QED
    BY <2>1, <2>2, PartSorted
<1>7. ASSUME NEW j \in b .. e, NEW k \in b .. e, j < k PROVE a[j] <= a[k]
  <2>7. j \in 1 .. Len(a) /\ k \in 1 .. Len(a) /\ l \in 1 .. Len(a)
    BY <1>1, <1>4
  <2>1. a[j] \in Int /\ a[k] \in Int /\ a[l] \in Int
    BY <1>4, <2>7
  <2>2. CASE k < l
    <3>1. j \in b .. m /\ k \in b .. m
      BY <1>2, <1>7, <2>2
    <3>2. QED
      BY <1>5, <1>7, <3>1
  <2>3. CASE j < l /\ l <= k
    <3>1. j \in b .. l - 1 /\ k \in l .. e
      BY <2>3
    <3>2. a[j] < a[l] /\ a[l] <= a[k]
      BY <1>1, <3>1
    <3>3. QED
      BY <2>1, <3>2
  <2>4. CASE j = l
    <3>1. k \in l .. e
      BY <1>7, <2>4
    <3>2. QED
      BY <1>1, <2>4, <3>1
  <2>5. CASE l < j
    <3>1. j \in p .. e /\ k \in p .. e
      BY <1>3, <1>7, <2>5
    <3>2. QED
      BY <1>6, <1>7, <3>1
  <2>6. QED
    BY <1>1, <1>7, <2>2, <2>3, <2>4, <2>5
<1>8. b <= e + 1
  BY <1>1
<1>9. QED
  BY <1>7, <1>8, PartSorted

\* Whatever is inside the segment of a task that is done is done.
LEMMA DoneInside ==
  ASSUME NEW c \in DOMAIN tasks, NEW u \in DOMAIN tasks, Inside(c), Inside(u),
         input \in Seq(Int), QuickRelated, QuickDone, Done(c),
         c.begin <= u.begin, u.end <= c.end
  PROVE  Done(u)
<1>1. PICK b, e, n \in Int : /\ u = Sort(b, e) /\ u.begin = b /\ u.end = e /\ n = Len(input)
                             /\ 1 <= b /\ b <= e + 1 /\ e <= n
  BY InsideIs
<1>2. PICK cb, ce, cn \in Int : /\ c = Sort(cb, ce) /\ c.begin = cb /\ c.end = ce /\ cn = Len(input)
                             /\ 1 <= cb /\ cb <= ce + 1 /\ ce <= cn
  BY InsideIs
<1>3. cb <= b /\ e <= ce
  BY <1>1, <1>2
<1>4. CASE u # c
  <2>1. Related(u, c)
    BY <1>4 DEF QuickRelated
  <2>2. ~ Apart(u, c)
    <3>1. ~ (e + 1 < cb) /\ ~ (ce + 1 < b)
      BY <1>1, <1>2, <1>3
    <3>2. QED
      BY <1>1, <1>2, <3>1 DEF Apart
  <2>3. ~ Below(c, u)
    <3>1. SUFFICES ASSUME b <= cb, ce <= e PROVE FALSE
      BY <1>1, <1>2 DEF Below
    <3>2. b = cb /\ e = ce
      BY <1>3, <3>1
    <3>3. QED
      BY <1>1, <1>2, <1>4, <3>2
  <2>4. QED
    BY <2>1, <2>2, <2>3 DEF Related, QuickDone
<1>5. QED
  BY <1>4

\* A task that joins its sides finds both in order, and nothing to be done in them.
LEMMA QuickJoins ==
  ASSUME TypeOK, QuickInv, program = "Quicksort", NEW t \in DOMAIN tasks, JoinSides(t)
  PROVE  TypeOK' /\ QuickInv'
<1>1. /\ tasks[t].status = "joining" /\ Finish(t, <<>>)
      /\ Done(LeftSort(t)) /\ Done(RightSort(t))
      /\ UNCHANGED <<program, input, array, mainPc>>
  BY DEF JoinSides
<1>2. QuickTask(t) /\ Inside(t) /\ Parted(t) /\ Typed(tasks) /\ <<>> \in Seq(Int)
  BY DEF QuickInv, QuickTask, TypeOK
<1>3. input \in Seq(Int) /\ array \in Seq(Int) /\ Len(array) = Len(input)
  BY ArrangementElements DEF TypeOK
<1>4. PICK b, e, n \in Int : /\ t = Sort(b, e) /\ t.begin = b /\ t.end = e /\ n = Len(input)
                             /\ 1 <= b /\ b <= e + 1 /\ e <= n
  BY <1>2, <1>3, InsideIs
<1>5. PICK l \in Int : l = tasks[t].left
  BY <1>2, Fields
<1>6. /\ Typed(tasks') /\ DOMAIN tasks' = DOMAIN tasks
      /\ tasks'[t].status = "done" /\ tasks'[t].left = l
      /\ \A u \in DOMAIN tasks : u # t => tasks'[u] = tasks[u]
  BY <1>1, <1>2, <1>5, FinishIs
<1>7. HasSplit(t) /\ HasSplit(t)' /\ Done(t)'
  BY <1>1, <1>2, <1>6 DEF HasSplit, QuickTask, Done
<1>8. PartedAt(array, b, e, l)
  BY <1>2, <1>4, <1>5, <1>7 DEF Parted, PartedAt
<1>9. LeftSort(t) = Sort(b, l - 1) /\ RightSort(t) = Sort(l + 1, e)
  BY <1>4, <1>5 DEF LeftSort, RightSort
<1>10. Sorted(SubSeq(array, b, l - 1)) /\ Sorted(SubSeq(array, l + 1, e))
  <2>1. Sorted(Segment(array, LeftSort(t))) /\ Sorted(Segment(array, RightSort(t)))
    BY <1>1, <1>2 DEF QuickInv, QuickTask, Parted, Done
  <2>2. QED
    BY <1>9, <2>1, SortFields DEF Segment
<1>11. Sorted(Segment(array, t))
  <2>1. Sorted(SubSeq(array, b, e))
    BY <1>3, <1>4, <1>8, <1>10, SidesSorted
  <2>2. QED
    BY <1>4, <2>1 DEF Segment
<1>12. Parted(t)'
  <2>1. LeftSort(t)' = LeftSort(t) /\ RightSort(t)' = RightSort(t)
    BY <1>5, <1>6 DEF LeftSort, RightSort
  <2>2. LeftSort(t) \in DOMAIN tasks' /\ RightSort(t) \in DOMAIN tasks'
    BY <1>1, <1>6 DEF Done
  <2>3. QED
    BY <1>1, <1>4, <1>6, <1>8, <2>1, <2>2 DEF Parted, PartedAt
<1>13. QuickTask(t)'
  <2>1. Inside(t)'
    BY <1>1, <1>2 DEF Inside
  <2>2. Scanning(t)'
    BY <1>6 DEF Scanning
  <2>3. QED
    BY <1>1, <1>6, <1>11, <1>12, <2>1, <2>2 DEF QuickTask, Segment
<1>14. QuickRelated /\ QuickDone /\ \A u \in DOMAIN tasks : Inside(u)
  BY QuickParts DEF QuickTasks, QuickTask
<1>15. ASSUME NEW u \in DOMAIN tasks, Below(u, t) PROVE Done(u)
  <2>1. PICK ub, ue, un \in Int : /\ u = Sort(ub, ue) /\ u.begin = ub /\ u.end = ue
                                  /\ un = Len(input) /\ 1 <= ub /\ ub <= ue + 1 /\ ue <= un
    BY <1>3, <1>14, InsideIs
  <2>2. b <= ub /\ ue <= e /\ (ue < l \/ l < ub)
    BY <1>4, <1>5, <1>15, <2>1 DEF Below
  <2>3. CASE ue < l
    <3>1. PICK c \in DOMAIN tasks : c = LeftSort(t) /\ Done(c)
      BY <1>1 DEF Done
    <3>2. c.begin = b /\ c.end = l - 1
      BY <1>9, <3>1, SortFields
    <3>3. c.begin <= u.begin /\ u.end <= c.end
      BY <2>1, <2>2, <2>3, <3>2
    <3>4. QED
      BY <1>3, <1>14, <3>1, <3>3, DoneInside
  <2>4. CASE l < ub
    <3>1. PICK c \in DOMAIN tasks : c = RightSort(t) /\ Done(c)
      BY <1>1 DEF Done
    <3>2. c.begin = l + 1 /\ c.end = e
      BY <1>9, <3>1, SortFields
    <3>3. c.begin <= u.begin /\ u.end <= c.end
      BY <2>1, <2>2, <2>4, <3>2
    <3>4. QED
      BY <1>3, <1>14, <3>1, <3>3, DoneInside
  <2>5. QED
    BY <2>2, <2>3, <2>4
<1>16. tasks'[t].left = tasks[t].left
  BY <1>5, <1>6
<1>17. QED
  BY <1>1, <1>6, <1>7, <1>13, <1>15, <1>16, QuickCalm


\* How two tasks lie to each other does not depend on their order.
LEMMA RelatedBoth ==
  ASSUME NEW t, NEW u, Related(t, u)
  PROVE  Related(u, t)
BY DEF Related, Apart

\* There is no task inside of one that has not split its segment.
LEMMA NoneInside ==
  ASSUME input \in Seq(Int), QuickRelated, NEW t \in DOMAIN tasks, NEW u \in DOMAIN tasks,
         Inside(t), Inside(u), ~ HasSplit(t), t.begin <= u.begin, u.end <= t.end
  PROVE  u = t
<1>1. PICK b, e, n \in Int : /\ t = Sort(b, e) /\ t.begin = b /\ t.end = e /\ n = Len(input)
                             /\ 1 <= b /\ b <= e + 1 /\ e <= n
  BY InsideIs
<1>2. PICK ub, ue, un \in Int : /\ u = Sort(ub, ue) /\ u.begin = ub /\ u.end = ue /\ un = Len(input)
                             /\ 1 <= ub /\ ub <= ue + 1 /\ ue <= un
  BY InsideIs
<1>3. b <= ub /\ ue <= e
  BY <1>1, <1>2
<1>4. ASSUME u # t PROVE FALSE
  <2>1. Related(t, u)
    BY <1>4 DEF QuickRelated
  <2>2. ~ (e + 1 < ub) /\ ~ (ue + 1 < b)
    BY <1>1, <1>2, <1>3
  <2>3. ~ Apart(t, u) /\ ~ Below(u, t)
    BY <1>1, <1>2, <2>2 DEF Apart, Below
  <2>4. ub <= b /\ e <= ue
    BY <1>1, <1>2, <2>1, <2>3 DEF Related, Below
  <2>5. b = ub /\ e = ue
    BY <1>3, <2>4
  <2>6. QED
    BY <1>1, <1>2, <1>4, <2>5
<1>5. QED
  BY <1>4

\* A side c of t lies to the other tasks as t does.
LEMMA SideRelated ==
  ASSUME input \in Seq(Int), NEW t \in DOMAIN tasks, NEW u \in DOMAIN tasks, NEW c,
         Typed(tasks), Inside(t), Inside(u), Inside(c), t.begin <= c.begin, c.end <= t.end,
         Related(t, u), ~ HasSplit(t),
         HasSplit(u)' <=> HasSplit(u), HasSplit(u) => tasks'[u].left = tasks[u].left
  PROVE  /\ Related(c, u)'
         /\ Below(c, u)' => Below(t, u)
<1>1. PICK b, e, n \in Int : /\ t = Sort(b, e) /\ t.begin = b /\ t.end = e /\ n = Len(input)
                             /\ 1 <= b /\ b <= e + 1 /\ e <= n
  BY InsideIs
<1>2. PICK ub, ue, un \in Int : /\ u = Sort(ub, ue) /\ u.begin = ub /\ u.end = ue /\ un = Len(input)
                             /\ 1 <= ub /\ ub <= ue + 1 /\ ue <= un
  BY InsideIs
<1>3. PICK cb, ce, cn \in Int : /\ c = Sort(cb, ce) /\ c.begin = cb /\ c.end = ce /\ cn = Len(input)
                             /\ 1 <= cb /\ cb <= ce + 1 /\ ce <= cn
  BY InsideIs
<1>4. b <= cb /\ ce <= e
  BY <1>1, <1>3
<1>5. PICK l \in Int : l = tasks[u].left
  BY Fields
<1>6. CASE Apart(t, u)
  <2>1. e + 1 < ub \/ ue + 1 < b
    BY <1>1, <1>2, <1>6 DEF Apart
  <2>2. ce + 1 < ub \/ ue + 1 < cb
    BY <1>1, <1>2, <1>3, <1>4, <2>1
  <2>3. Apart(c, u)
    BY <1>2, <1>3, <2>2 DEF Apart
  <2>4. ~ (ub <= cb /\ ce <= ue)
    BY <1>2, <1>3, <2>2
  <2>5. ~ Below(c, u)'
    BY <1>2, <1>3, <2>4 DEF Below
  <2>6. Related(c, u)'
    BY <2>3 DEF Related, Apart
  <2>7. QED
    BY <2>5, <2>6
<1>7. CASE Below(t, u)
  <2>1. HasSplit(u) /\ ub <= b /\ e <= ue /\ (e < l \/ l < b)
    BY <1>1, <1>2, <1>5, <1>7 DEF Below
  <2>2. ub <= cb /\ ce <= ue /\ (ce < l \/ l < cb)
    BY <1>1, <1>2, <1>3, <1>4, <2>1
  <2>3. HasSplit(u)' /\ tasks'[u].left = l
    BY <1>5, <2>1
  <2>4. Below(c, u)'
    BY <1>2, <1>3, <2>2, <2>3 DEF Below
  <2>5. QED
    BY <1>7, <2>4 DEF Related
<1>8. ~ Below(u, t)
  BY DEF Below
<1>9. QED
  BY <1>6, <1>7, <1>8 DEF Related


\* t has split its segment at l, and the sides c and d are new tasks.
SplitAt(t, l, c, d) ==
  /\ t \in DOMAIN tasks /\ c # d /\ ~ HasSplit(t) /\ ~ Done(t)
  /\ c \notin DOMAIN tasks /\ d \notin DOMAIN tasks
  /\ DOMAIN tasks' = DOMAIN tasks \cup {c, d}
  /\ tasks'[t].status = "joining" /\ tasks'[t].left = l
  /\ tasks'[c] = Forked(<<>>) /\ tasks'[d] = Forked(<<>>)
  /\ \A u \in DOMAIN tasks : u # t => tasks'[u] = tasks[u]
  /\ Typed(tasks')

\* The new tasks are apart from each other, below t, and to the others as t is.
LEMMA ForksOrder ==
  ASSUME input \in Seq(Int), Typed(tasks), QuickRelated, QuickDone,
         \A u \in DOMAIN tasks : Inside(u),
         NEW t \in DOMAIN tasks, NEW b \in Int, NEW e \in Int, NEW l \in Int, NEW c, NEW d,
         t = Sort(b, e), c = Sort(b, l - 1), d = Sort(l + 1, e), Inside(c), Inside(d),
         b < e, b <= l, l <= e,
         SplitAt(t, l, c, d)
  PROVE  QuickRelated' /\ QuickDone'
<1>1. /\ t.begin = b /\ t.end = e /\ c.begin = b /\ c.end = l - 1
      /\ d.begin = l + 1 /\ d.end = e
  BY SortFields
<1>2. /\ ~ HasSplit(t) /\ ~ Done(t) /\ DOMAIN tasks' = DOMAIN tasks \cup {c, d}
      /\ c \notin DOMAIN tasks /\ d \notin DOMAIN tasks
      /\ tasks'[t].status = "joining" /\ tasks'[t].left = l
      /\ \A u \in DOMAIN tasks : u # t => tasks'[u] = tasks[u]
  BY DEF SplitAt
<1>3. HasSplit(t)' /\ ~ Done(t)' /\ ~ Done(c)' /\ ~ Done(d)'
  BY <1>1, <1>2 DEF HasSplit, Done, SplitAt, Forked
<1>4. \A u \in DOMAIN tasks : u # t => (HasSplit(u)' <=> HasSplit(u)) /\ (Done(u)' <=> Done(u))
  BY <1>2 DEF HasSplit, Done
<1>5. \A s \in {c, d} : b <= s.begin /\ s.end <= e /\ Inside(s) /\ (s.end < l \/ l < s.begin)
  BY <1>1
<1>6. \A s \in {c, d} : Below(s, t)'
  BY <1>1, <1>2, <1>3, <1>5 DEF Below
<1>7. Apart(c, d)
  BY <1>1 DEF Apart
<1>8. ASSUME NEW s \in {c, d}, NEW u \in DOMAIN tasks, u # t
      PROVE  Related(s, u)' /\ (Below(s, u)' => Below(t, u))
  <2>1. Related(t, u) /\ Inside(t) /\ Inside(u) /\ Inside(s)
    BY <1>5, <1>8 DEF QuickRelated
  <2>2. t.begin <= s.begin /\ s.end <= t.end
    BY <1>1, <1>5
  <2>3. (HasSplit(u)' <=> HasSplit(u)) /\ tasks'[u].left = tasks[u].left
    BY <1>2, <1>4, <1>8
  <2>4. QED
    BY <1>2, <2>1, <2>2, <2>3, SideRelated
<1>9. ASSUME NEW u \in DOMAIN tasks', NEW v \in DOMAIN tasks', u # v PROVE Related(u, v)'
  <2>1. CASE u \in DOMAIN tasks /\ v \in DOMAIN tasks
    <3>1. Related(u, v)
      BY <1>9, <2>1 DEF QuickRelated
    <3>2. \A w \in DOMAIN tasks : HasSplit(w) => HasSplit(w)' /\ tasks'[w].left = tasks[w].left
      BY <1>2, <1>4
    <3>3. QED
      BY <2>1, <3>1, <3>2, RelatedKept
  <2>2. CASE u \in {c, d} /\ v \in DOMAIN tasks
    BY <1>6, <1>8, <2>2 DEF Related
  <2>3. CASE u \in DOMAIN tasks /\ v \in {c, d}
    BY <1>6, <1>8, <2>3 DEF Related, Apart
  <2>4. CASE u \in {c, d} /\ v \in {c, d}
    BY <1>7, <1>9, <2>4 DEF Related, Apart
  <2>5. QED
    BY <1>2, <1>9, <2>1, <2>2, <2>3, <2>4
<1>10. ASSUME NEW v \in DOMAIN tasks', NEW u \in DOMAIN tasks', Done(v)', Below(u, v)'
       PROVE  Done(u)'
  <2>1. v \in DOMAIN tasks /\ v # t /\ Done(v)
    BY <1>2, <1>3, <1>4, <1>10
  <2>2. ASSUME NEW w \in DOMAIN tasks, Below(w, v)' PROVE Done(w)
    <3>1. Below(w, v)
      BY <1>2, <1>4, <2>1, <2>2 DEF Below
    <3>2. QED
      BY <2>1, <3>1 DEF QuickDone
  <2>3. CASE u \in DOMAIN tasks
    BY <1>2, <1>4, <1>10, <2>2, <2>3
  <2>4. CASE u \in {c, d}
    <3>1. Below(t, v)
      BY <1>8, <1>10, <2>1, <2>4
    <3>2. Done(t)
      BY <2>1, <3>1 DEF QuickDone
    <3>3. QED
      BY <1>2, <3>2
  <2>5. QED
    BY <1>2, <2>3, <2>4
<1>11. QED
  BY <1>9, <1>10 DEF QuickRelated, QuickDone

\* The step that forks the sides.
LEMMA QuickForks ==
  ASSUME TypeOK, QuickInv, program = "Quicksort", NEW t \in DOMAIN tasks, ForkSides(t)
  PROVE  TypeOK' /\ QuickInv'
<1>1. QuickTask(t) /\ Inside(t) /\ Typed(tasks) /\ Scanning(t)
  BY DEF QuickInv, QuickTask, TypeOK
<1>2. /\ input \in Seq(Int) /\ array \in Seq(Int) /\ Len(array) = Len(input)
      /\ array \in Arrangements(input)
  BY ArrangementElements DEF TypeOK
<1>3. PICK b, e, n \in Int : /\ t = Sort(b, e) /\ t.begin = b /\ t.end = e /\ n = Len(input)
                             /\ 1 <= b /\ b <= e + 1 /\ e <= n
  BY <1>1, <1>2, InsideIs
<1>4. PICK l \in Int : l = tasks[t].left
  BY <1>1, Fields
<1>5. tasks[t].status = "scanning" /\ UNCHANGED <<program, input, mainPc>>
  BY DEF ForkSides
<1>6. b < e /\ b <= l /\ l <= e /\ InPlace(array, b, e, l, l)
  <2>1. PICK r \in Int : r = tasks[t].right
    BY <1>1, Fields
  <2>2. l >= r
    BY <1>4, <2>1 DEF ForkSides
  <2>3. /\ b < e /\ b <= l /\ l <= r /\ r <= e
        /\ \A k \in b .. l - 1 : array[k] < array[e]
        /\ \A k \in r .. e : array[e] <= array[k]
    BY <1>1, <1>3, <1>4, <1>5, <2>1 DEF Scanning
  <2>4. l = r
    BY <2>2, <2>3
  <2>5. QED
    BY <1>2, <1>3, <2>3, <2>4 DEF InPlace
<1>7. /\ Placed(array, l, e) = <<Exchanged(array, l, e), l>>
      /\ l \in 1 .. Len(array) /\ e \in 1 .. Len(array)
      /\ PartedAt(Exchanged(array, l, e), b, e, l)
  BY <1>2, <1>6, PlacedIs
<1>8. MovedInside(array, Exchanged(array, l, e), b, e)
  <2>1. b <= e /\ e <= e
    BY <1>6
  <2>2. QED
    BY <1>2, <1>6, <1>7, <2>1, ExchangeIs
<1>9. PICK x : x = Exchanged(array, l, e)
  OBVIOUS
<1>10. PICK c : c = Sort(b, l - 1)
  OBVIOUS
<1>11. PICK d : d = Sort(l + 1, e)
  OBVIOUS
<1>12. PICK old : old = [tasks EXCEPT ![t] = [@ EXCEPT !.status = "joining", !.left = l]]
  OBVIOUS
<1>13. array' = x /\ tasks' = With(With(old, c, <<>>), d, <<>>)
  <2>1. PICK p : p = Placed(array, l, e)
    OBVIOUS
  <2>2. /\ array' = p[1]
        /\ tasks' = With(With([tasks EXCEPT ![t] = [@ EXCEPT !.status = "joining", !.left = p[2]]],
                              Sort(b, p[2] - 1), <<>>), Sort(p[2] + 1, e), <<>>)
    BY <1>3, <1>4, <2>1 DEF ForkSides
  <2>3. p[1] = x /\ p[2] = l
    BY <1>7, <1>9, <2>1
  <2>4. QED
    BY <1>10, <1>11, <1>12, <2>2, <2>3
<1>14. /\ Typed(old) /\ DOMAIN old = DOMAIN tasks
       /\ old[t].status = "joining" /\ old[t].left = l
       /\ \A u \in DOMAIN tasks : u # t => old[u] = tasks[u]
  <2>1. PICK q : q = [tasks[t] EXCEPT !.status = "joining", !.left = l]
    OBVIOUS
  <2>2. old = [tasks EXCEPT ![t] = q]
    BY <1>12, <2>1
  <2>3. tasks[t] \in TaskState
    BY <1>1 DEF Typed
  <2>4. q \in TaskState /\ q.status = "joining" /\ q.left = l
    BY <2>1, <2>3 DEF TaskState
  <2>5. \A u \in DOMAIN tasks : tasks[u] \in TaskState
    BY <1>1 DEF Typed
  <2>6. \A u \in DOMAIN tasks : old[u] \in TaskState
    BY <2>2, <2>4, <2>5
  <2>7. DOMAIN old = DOMAIN tasks /\ old[t] = q /\ \A u \in DOMAIN tasks : u # t => old[u] = tasks[u]
    BY <2>2
  <2>8. Typed(old)
    <3> HIDE DEF TaskState
    <3>1. old = [u \in DOMAIN tasks |-> old[u]]
      BY <2>2
    <3>2. old \in [DOMAIN tasks -> TaskState]
      BY <2>6, <3>1
    <3>3. QED
      BY <2>7, <3>2 DEF Typed
  <2>9. QED
    BY <2>4, <2>7, <2>8
<1>15. BothForked(old, tasks', c, <<>>, d, <<>>)
  <2>4. <<>> \in Seq(Int)
    OBVIOUS
  <2>1. PICK z \in Seq(Int) : z = <<>>
    BY <2>4
  <2>2. BothForked(old, With(With(old, c, z), d, z), c, z, d, z)
    BY <1>14, WithBothIs
  <2>3. QED
    BY <1>13, <2>1, <2>2
<1>16. /\ c.begin = b /\ c.end = l - 1 /\ d.begin = l + 1 /\ d.end = e
  BY <1>10, <1>11, SortFields
<1>17. c # d /\ c # t /\ d # t
  <2>1. b # l + 1 /\ l - 1 # e
    BY <1>6
  <2>2. QED
    BY <1>3, <1>16, <2>1
<1>18. Inside(c) /\ Inside(d)
  <2>1. /\ l - 1 \in Int /\ l + 1 \in Int /\ b <= (l - 1) + 1 /\ l - 1 <= n
        /\ 1 <= l + 1 /\ l + 1 <= e + 1 /\ 1 <= b /\ e <= n
    BY <1>3, <1>6
  <2>2. QED
    BY <1>3, <1>10, <1>11, <2>1, IsInside
<1>19. ~ HasSplit(t) /\ ~ Done(t)
  BY <1>5 DEF HasSplit, Done
<1>20. QuickMain /\ QuickTasks /\ QuickRelated /\ QuickDone /\ \A u \in DOMAIN tasks : Inside(u)
  BY QuickParts DEF QuickTasks, QuickTask
<1>21. c \notin DOMAIN tasks /\ d \notin DOMAIN tasks
  <2>1. ASSUME NEW s \in {c, d}, s \in DOMAIN tasks PROVE FALSE
    <3>1. t.begin <= s.begin /\ s.end <= t.end
      BY <1>3, <1>6, <1>16
    <3>2. s = t
      BY <1>1, <1>2, <1>19, <1>20, <2>1, <3>1, NoneInside
    <3>3. QED
      BY <1>17, <2>1, <3>2
  <2>2. QED
    BY <2>1
<1>22. SplitAt(t, l, c, d)
  BY <1>14, <1>15, <1>17, <1>19, <1>21 DEF SplitAt, BothForked
<1>23. QuickRelated' /\ QuickDone'
  BY <1>1, <1>2, <1>3, <1>6, <1>10, <1>11, <1>18, <1>20, <1>22, ForksOrder
<1>24. /\ DOMAIN tasks' = DOMAIN tasks \cup {c, d} /\ Typed(tasks')
       /\ tasks'[t].status = "joining" /\ tasks'[t].left = l
       /\ tasks'[c] = Forked(<<>>) /\ tasks'[d] = Forked(<<>>)
       /\ \A u \in DOMAIN tasks : u # t => tasks'[u] = tasks[u]
  BY <1>22 DEF SplitAt
<1>25. /\ x \in Arrangements(array)
       /\ \A k \in 1 .. Len(array) : ~ (k \in b .. e) => x[k] = array[k]
       /\ \A k \in 1 .. Len(array) : k \in b .. e => \E j \in b .. e : x[k] = array[j]
  BY <1>8, <1>9 DEF MovedInside
<1>26. array' \in Arrangements(input) /\ array' \in Seq(Int) /\ Len(array') = Len(input)
  BY <1>2, <1>13, <1>25, ArrangedTwice, ArrangementElements
<1>27. Arrays
  BY <1>2, <1>5, <1>26 DEF Arrays
<1>28. QuickTask(t)'
  <2>1. Inside(t)'
    BY <1>1, <1>5 DEF Inside
  <2>2. Scanning(t)' /\ ~ Done(t)'
    BY <1>24 DEF Scanning, Done
  <2>3. LeftSort(t)' = c /\ RightSort(t)' = d
    BY <1>3, <1>10, <1>11, <1>24 DEF LeftSort, RightSort
  <2>4. PartedAt(array', b, e, l)
    BY <1>7, <1>9, <1>13
  <2>5. Parted(t)'
    BY <1>3, <1>24, <2>3, <2>4 DEF Parted, PartedAt
  <2>6. t.begin < t.end
    BY <1>3, <1>6
  <2>7. QED
    BY <2>1, <2>2, <2>5, <2>6 DEF QuickTask
<1>29. \A s \in {c, d} : QuickTask(s)'
  <2>1. ASSUME NEW s \in {c, d} PROVE QuickTask(s)'
    <3>1. tasks'[s].status = "forked"
      BY <1>24, <2>1 DEF Forked
    <3>2. Inside(s)'
      BY <1>5, <1>18, <2>1 DEF Inside
    <3>3. QED
      BY <3>1, <3>2 DEF QuickTask, Scanning, Parted, HasSplit, Done
  <2>2. QED
    BY <2>1
<1>30. ASSUME NEW u \in DOMAIN tasks, u # t PROVE QuickTask(u)'
  <2>1. QuickTask(u) /\ Related(t, u) /\ (Done(u) /\ Below(t, u) => Done(t))
    BY <1>30 DEF QuickInv
  <2>2. \A k \in 1 .. Len(input) : ~ (k \in t.begin .. t.end) => array'[k] = array[k]
    BY <1>2, <1>3, <1>13, <1>25
  <2>3. \A k \in 1 .. Len(input) : k \in t.begin .. t.end =>
          \E j \in t.begin .. t.end : array'[k] = array[j]
    BY <1>2, <1>3, <1>13, <1>25
  <2>4. DOMAIN tasks \subseteq DOMAIN tasks' /\ tasks'[u] = tasks[u]
    BY <1>24, <1>30
  <2>5. QED
    BY <1>1, <1>19, <1>27, <1>30, <2>1, <2>2, <2>3, <2>4, QuickTaskKept
<1>31. QuickTasks'
  BY <1>24, <1>28, <1>29, <1>30 DEF QuickTasks
<1>32. TypeOK'
  BY <1>5, <1>24, <1>26 DEF TypeOK
<1>33. QuickMain'
  <2>1. WholeArray' = WholeArray
    BY <1>2, <1>26 DEF WholeArray, len
  <2>2. Done(WholeArray) => Done(WholeArray)'
    BY <1>19, <1>24, <2>1 DEF Done
  <2>3. QED
    BY <1>5, <1>20, <2>2 DEF QuickMain
<1>34. QED
  BY <1>5, <1>23, <1>31, <1>32, <1>33 DEF QuickInv, QuickTasks, QuickRelated, QuickDone


\* A step of main that forks nothing.
LEMMA QuickRest ==
  ASSUME QuickTasks, QuickRelated, QuickDone, UNCHANGED <<input, array, tasks>>
  PROVE  QuickTasks' /\ QuickRelated' /\ QuickDone'
BY DEF QuickTasks, QuickRelated, QuickDone, QuickTask, Inside, Scanning, Parted, Related, Apart,
       Below, Done, HasSplit, LeftSort, RightSort, Segment

\* The steps of main for Quicksort.
LEMMA QuickSame ==
  ASSUME TypeOK, QuickInv, program = "Quicksort", UNCHANGED vars
  PROVE  TypeOK' /\ QuickInv'
<1>1. QuickMain /\ QuickTasks /\ QuickRelated /\ QuickDone
  BY QuickParts
<1>2. UNCHANGED <<program, input, array, tasks, mainPc>>
  BY DEF vars
<1>3. TypeOK'
  BY <1>2 DEF TypeOK
<1>4. QuickMain'
  BY <1>1, <1>2 DEF QuickMain, Done, WholeArray, len
<1>5. QuickTasks' /\ QuickRelated' /\ QuickDone'
  BY <1>1, <1>2, QuickRest
<1>6. QED
  BY <1>2, <1>3, <1>4, <1>5 DEF QuickInv, QuickTasks, QuickRelated, QuickDone

LEMMA QuickEnds ==
  ASSUME TypeOK, QuickInv, program = "Quicksort", JoinTask
  PROVE  TypeOK' /\ QuickInv'
<1>1. QuickMain /\ QuickTasks /\ QuickRelated /\ QuickDone
  BY QuickParts
<1>2. UNCHANGED <<program, input, array, tasks>> /\ mainPc' = "printed" /\ Done(WholeArray)
  BY DEF JoinTask, MainGoto
<1>3. TypeOK'
  BY <1>2 DEF TypeOK
<1>4. QuickMain'
  BY <1>1, <1>2 DEF QuickMain, Done, WholeArray, len
<1>5. QuickTasks' /\ QuickRelated' /\ QuickDone'
  BY <1>1, <1>2, QuickRest
<1>6. QED
  BY <1>2, <1>3, <1>4, <1>5 DEF QuickInv, QuickTasks, QuickRelated, QuickDone

LEMMA QuickStarts ==
  ASSUME TypeOK, QuickInv, program = "Quicksort", ForkTask
  PROVE  TypeOK' /\ QuickInv'
<1>1. /\ mainPc = "start" /\ mainPc' = "join" /\ tasks' = With(tasks, WholeArray, array)
      /\ program' = program /\ input' = input /\ array' = array
  BY DEF ForkTask, MainGoto
<1>2. /\ input \in Seq(Int) /\ Typed(tasks) /\ DOMAIN tasks = {}
      /\ array \in Seq(Int) /\ Len(array) = Len(input)
  BY <1>1, ArrangementElements DEF TypeOK, QuickInv, QuickMain
<1>3. PICK n \in Nat : n = Len(input)
  BY <1>2, LenProperties
<1>4. PICK t : t = Sort(1, n)
  OBVIOUS
<1>5. WholeArray = t /\ tasks' = With(tasks, t, array)
  BY <1>1, <1>2, <1>3, <1>4 DEF WholeArray, len
<1>6. Typed(tasks') /\ DOMAIN tasks' = {t} /\ tasks'[t] = Forked(array)
  <2>1. Typed(tasks')
    BY <1>2, <1>5, WithTyped
  <2>2. DOMAIN tasks' = DOMAIN tasks \cup {t}
    BY <1>5, WithDomain
  <2>3. tasks'[t] = Forked(array)
    BY <1>5, WithNew
  <2>4. QED
    BY <1>2, <2>1, <2>2, <2>3
<1>7. Inside(t)
  BY <1>3, <1>4, IsInside
<1>8. QuickTask(t)' /\ ~ Done(t)'
  <2>1. tasks'[t].status = "forked"
    BY <1>6 DEF Forked
  <2>2. Inside(t)'
    BY <1>1, <1>7 DEF Inside
  <2>3. QED
    BY <2>1, <2>2 DEF QuickTask, Scanning, Parted, HasSplit, Done
<1>9. TypeOK'
  BY <1>1, <1>6 DEF TypeOK
<1>10. QuickMain'
  BY <1>1 DEF QuickMain
<1>11. QuickTasks' /\ QuickRelated' /\ QuickDone'
  BY <1>6, <1>8 DEF QuickTasks, QuickRelated, QuickDone
<1>12. QED
  BY <1>9, <1>10, <1>11 DEF QuickInv, QuickTasks, QuickRelated, QuickDone

\* Nothing happens.
LEMMA MergeSame ==
  ASSUME TypeOK, MergeInv, program = "Mergesort", UNCHANGED vars
  PROVE  TypeOK' /\ MergeInv'
<1>1. UNCHANGED <<program, input, array, tasks, mainPc>>
  BY DEF vars
<1>2. TypeOK'
  BY <1>1 DEF TypeOK
<1>3. MergeMain'
  BY <1>1 DEF MergeInv, MergeMain
<1>4. \A u \in DOMAIN tasks : MergeTask(u)'
  BY <1>1, MergeTaskKept DEF MergeInv
<1>5. QED
  BY <1>1, <1>2, <1>3, <1>4 DEF MergeInv

-----------------------------------------------------------------------------
\* All the steps of each program.
LEMMA SortNext ==
  ASSUME ParallelSortAssumption, TypeOK, SortInv, program = "sort", [Next]_vars
  PROVE  TypeOK' /\ SortInv'
<1>1. IntMax \in Nat
  BY DEF ParallelSortAssumption
<1>2. mainPc # "join"
  BY DEF SortInv, SortTasks
<1>3. ~ ForkTask /\ ~ JoinTask
  BY <1>2 DEF ForkTask, JoinTask, MainGoto
<1>4. ASSUME NEW t \in DOMAIN tasks, TaskRuns(t) PROVE TypeOK' /\ SortInv'
  <2>1. partSort(t) \/ mergeSort(t)
    BY <1>4 DEF TaskRuns, BeginScan, Scan, ForkSides, NothingToSort, JoinSides, SortPair, Split,
                MergeResults
  <2>2. QED
    BY <1>1, <2>1, SortPartRuns, SortMerges
<1>5. QED
  BY <1>3, <1>4, SortSame, SortCreates, SortJoins, SortEnds DEF Next, Terminated

LEMMA QuickNext ==
  ASSUME TypeOK, QuickInv, program = "Quicksort", [Next]_vars
  PROVE  TypeOK' /\ QuickInv'
<1>1. mainPc # "parts" /\ mainPc # "merge"
  BY DEF QuickInv, QuickMain
<1>2. ~ CreateParts /\ ~ JoinParts /\ ~ JoinMerge
  BY <1>1 DEF CreateParts, JoinParts, JoinMerge, MainGoto
<1>3. ASSUME NEW t \in DOMAIN tasks, TaskRuns(t) PROVE TypeOK' /\ QuickInv'
  <2>1. t.kind = "sort"
    BY SortFields DEF QuickInv, QuickTask, Inside
  <2>2. ~ partSort(t) /\ ~ mergeSort(t)
    BY <2>1 DEF partSort, mergeSort
  <2>3. BeginScan(t) \/ Scan(t) \/ ForkSides(t) \/ NothingToSort(t) \/ JoinSides(t)
    BY <1>3, <2>2 DEF TaskRuns, SortPair, Split, MergeResults
  <2>4. QED
    BY <2>3, QuickBegins, QuickScans, QuickForks, QuickEmpty, QuickJoins
<1>4. QED
  BY <1>2, <1>3, QuickSame, QuickStarts, QuickEnds DEF Next, Terminated

LEMMA MergeNext ==
  ASSUME TypeOK, MergeInv, program = "Mergesort", [Next]_vars
  PROVE  TypeOK' /\ MergeInv'
<1>1. mainPc # "parts" /\ mainPc # "merge"
  BY DEF MergeInv, MergeMain
<1>2. ~ CreateParts /\ ~ JoinParts /\ ~ JoinMerge
  BY <1>1 DEF CreateParts, JoinParts, JoinMerge, MainGoto
<1>3. ASSUME NEW t \in DOMAIN tasks, TaskRuns(t) PROVE TypeOK' /\ MergeInv'
  <2>1. t.kind = "sort"
    BY SortFields DEF MergeInv, MergeTask, Inside
  <2>2. ~ partSort(t) /\ ~ mergeSort(t)
    BY <2>1 DEF partSort, mergeSort
  <2>3. SortPair(t) \/ Split(t) \/ MergeResults(t)
    BY <1>3, <2>2 DEF TaskRuns, BeginScan, Scan, ForkSides, NothingToSort, JoinSides
  <2>4. QED
    BY <2>3, MergePair, MergeSplits, MergeJoins
<1>4. QED
  BY <1>2, <1>3, MergeSame, MergeForks, MergeEnds DEF Next, Terminated

\* The inductive invariant.
Inv == TypeOK /\ SortInv /\ QuickInv /\ MergeInv

\* At the start there are no tasks.
LEMMA SortsStart ==
  ASSUME ParallelSortAssumption, Init
  PROVE  Inv
<1>1. input \in Seq(Int)
  <2>1. input \in Seq(-IntMax - 1 .. IntMax) /\ -IntMax - 1 .. IntMax \subseteq Int
    BY DEF Init, ParallelSortAssumption
  <2>2. \A k \in 1 .. Len(input) : input[k] \in Int
    BY <2>1, LenProperties
  <2>3. QED
    BY <2>1, SeqDef DEF ParallelSortAssumption
<1>2. DOMAIN tasks = {} /\ array = input /\ mainPc = "start"
  BY DEF Init
<1>3. Typed(tasks)
  BY DEF Init, Typed
<1>4. TypeOK
  BY <1>1, <1>2, <1>3, ArrangedItself DEF TypeOK, Init
<1>5. SortInv
  BY <1>2 DEF SortInv, SortTasks, SortOrder, Done
<1>6. QuickInv
  BY <1>2 DEF QuickInv, QuickMain
<1>7. MergeInv
  BY <1>2 DEF MergeInv, MergeMain
<1>8. QED
  BY <1>4, <1>5, <1>6, <1>7 DEF Inv

\* No step leaves the invariant; the program stays the same.
LEMMA SortsStep ==
  ASSUME ParallelSortAssumption, Inv, [Next]_vars
  PROVE  Inv'
<1>1. program \in {"sort", "Quicksort", "Mergesort"}
  BY DEF Inv, TypeOK
<1>2. program' = program
  BY DEF Next, TaskRuns, CreateParts, JoinParts, JoinMerge, ForkTask, JoinTask, partSort, mergeSort,
         BeginScan, Scan, ForkSides, NothingToSort, JoinSides, SortPair, Split, MergeResults,
         Terminated, vars
<1>3. CASE program = "sort"
  <2>1. TypeOK' /\ SortInv'
    BY <1>3, SortNext DEF Inv
  <2>2. QED
    BY <1>2, <1>3, <2>1 DEF Inv, QuickInv, MergeInv
<1>4. CASE program = "Quicksort"
  <2>1. TypeOK' /\ QuickInv'
    BY <1>4, QuickNext DEF Inv
  <2>2. QED
    BY <1>2, <1>4, <2>1 DEF Inv, SortInv, MergeInv
<1>5. CASE program = "Mergesort"
  <2>1. TypeOK' /\ MergeInv'
    BY <1>5, MergeNext DEF Inv
  <2>2. QED
    BY <1>2, <1>5, <2>1 DEF Inv, SortInv, QuickInv
<1>6. QED
  BY <1>1, <1>3, <1>4, <1>5

\* What the invariant says once the result is printed, and before.
LEMMA InvResultSorted == Inv => ResultSorted
<1> SUFFICES ASSUME Inv, mainPc = "printed"
             PROVE  /\ array \in Arrangements(input)
                    /\ (program = "sort" /\ ~ Close(input)) \/ Sorted(array)
  BY DEF ResultSorted
<1>1. array \in Arrangements(input) /\ program \in {"sort", "Quicksort", "Mergesort"}
  BY DEF Inv, TypeOK
<1>2. CASE program = "sort"
  BY <1>1, <1>2 DEF Inv, SortInv, SortTasks, SortOrder
<1>3. CASE program = "Mergesort"
  BY <1>1, <1>3 DEF Inv, MergeInv, MergeMain
<1>4. CASE program = "Quicksort"
  <2>1. Done(WholeArray) /\ \A t \in DOMAIN tasks : QuickTask(t)
    BY <1>4 DEF Inv, QuickInv, QuickMain
  <2>2. Sorted(Segment(array, WholeArray))
    BY <2>1 DEF Done, QuickTask
  <2>3. array \in Seq(Int)
    BY ArrayIs DEF Inv
  <2>4. Segment(array, WholeArray) = SubSeq(array, 1, Len(array))
    BY SortFields DEF Segment, WholeArray, len
  <2>5. SubSeq(array, 1, Len(array)) = array
    BY <2>3, SubSeqFull
  <2>6. QED
    BY <1>1, <2>2, <2>4, <2>5
<1>5. QED
  BY <1>1, <1>2, <1>3, <1>4

LEMMA InvSplitHolds == Inv => SplitHolds
<1> SUFFICES ASSUME Inv, program = "Quicksort", NEW t \in DOMAIN tasks
             PROVE  /\ HasSplit(t) =>
                         /\ \A k \in t.begin .. tasks[t].left - 1 : array[k] < array[tasks[t].left]
                         /\ \A k \in tasks[t].left .. t.end : array[tasks[t].left] <= array[k]
                    /\ Done(t) => Sorted(Segment(array, t))
  BY DEF SplitHolds
<1>1. QuickTask(t)
  BY DEF Inv, QuickInv
<1>2. QED
  BY <1>1 DEF QuickTask, Parted

(***************************************************************************)
(* What is printed is the input in order, for every input and every order  *)
(* in which the tasks run; where numbers are too far apart for cmp, sort   *)
(* prints an arrangement of the input (sort.c:21-69, 103-115,              *)
(* Mergesort.java:14-38, 65-73, Quicksort.java:17-53, 56-65).              *)
(***************************************************************************)
THEOREM SortedResult == Spec => []ResultSorted
<1>1. Init => Inv
  BY ParallelSortAssumption, SortsStart
<1>2. Inv /\ [Next]_vars => Inv'
  BY ParallelSortAssumption, SortsStep
<1>3. QED
  BY <1>1, <1>2, InvResultSorted, PTL DEF Spec

(***************************************************************************)
(* What a task of Quicksort has split stays split, and what it has done    *)
(* stays sorted, whatever the tasks of the sides and of other segments do  *)
(* at the same time (Quicksort.java:21-52).                                *)
(***************************************************************************)
THEOREM HeldSplit == Spec => []SplitHolds
<1>1. Init => Inv
  BY ParallelSortAssumption, SortsStart
<1>2. Inv /\ [Next]_vars => Inv'
  BY ParallelSortAssumption, SortsStep
<1>3. QED
  BY <1>1, <1>2, InvSplitHolds, PTL DEF Spec

-----------------------------------------------------------------------------
(***************************************************************************)
(* The validator of Pthreads/sudoku.                                       *)
(***************************************************************************)
LineThreads == {RowThread, ColumnThread}
MainPlaces == {"create", "join", "joinRow", "joinColumn", "judge", "free", "return",
           "done", "crashed"}

ThreadPlaces == {"none", "created", "running", "exited"}

GridTypes ==
  /\ valid \in [Threads -> BOOLEAN]
  /\ pc \in [Threads -> ThreadPlaces]
  /\ next \in [LineThreads -> Int]
  /\ stage \in MainPlaces /\ i \in 0 .. Size + 1
  /\ tidRow \in Threads /\ freed \in BOOLEAN

(***************************************************************************)
(* Where main is: which threads there are, which have ended, whose id      *)
(* tidRow holds, and what is left to be done.                              *)
(***************************************************************************)
CreatedSoFar ==
  /\ stage = "create" =>
       /\ \A k \in 0 .. Size + 1 : pc[Created(k)] = "none" <=> k >= i
       /\ i >= 2 => tidRow = ColumnThread
  /\ stage # "create" => tidRow = ColumnThread /\ \A t \in Threads : pc[t] # "none"

JoinedSoFar ==
  /\ stage = "join" => i < Size /\ \A t \in 0 .. i - 1 : pc[t] = "exited"
  /\ stage \in MainPlaces \ {"create", "join"} => \A t \in Index : pc[t] = "exited"
  /\ stage \in MainPlaces \ {"create", "join", "joinRow"} => pc[ColumnThread] = "exited"

JudgedSoFar ==
  /\ verdict # "none" => stage \in {"free", "return", "done", "crashed"}
  /\ freed => stage \in {"return", "done", "crashed"}
  /\ stage \in {"return", "done"} => freed
  /\ stage = "done" => \A t \in Threads : pc[t] = "exited"

(***************************************************************************)
(* How far the threads are, and what valid and the output tell of it.      *)
(***************************************************************************)
Progress ==
  stage # "done" => \A t \in LineThreads :
    /\ pc[t] \in {"none", "created"} => next[t] = 0
    /\ pc[t] = "created" => t = RowThread
    /\ pc[t] = "running" => next[t] < Size
    /\ t = ColumnThread \/ ~ freed =>
         /\ next[t] \in 0 .. Size
         /\ pc[t] = "exited" => next[t] = Size

\* Once its parameters are freed, the thread for the rows may report anything.
RowsFound == ~ freed =>
  /\ \A k \in Index : <<"Line", k>> \in printed => Repeats(Row(k))
  /\ ~ valid[RowThread] => ~ RowsRight
  /\ valid[RowThread] => \A k \in 0 .. next[RowThread] - 1 : ~ Repeats(Row(k))

ColumnsFound ==
  /\ \A k \in Index : <<"Column", k>> \in printed <=> k < next[ColumnThread] /\ Repeats(Column(k))
  /\ valid[ColumnThread] <=> \A k \in 0 .. next[ColumnThread] - 1 : ~ Repeats(Column(k))

SubgridsFound ==
  \A t \in Index : valid[t] <=> ~ (pc[t] = "exited" /\ Repeats(Subgrid(t)))

\* The thread for the columns has looked at all of them once it is joined.
ColumnsSeen ==
  stage \in MainPlaces \ {"create", "join", "joinRow"} => next[ColumnThread] = Size

SudokuInv ==
  /\ GridTypes /\ CreatedSoFar /\ JoinedSoFar /\ JudgedSoFar /\ Progress /\ ColumnsSeen
  /\ RowsFound /\ ColumnsFound /\ SubgridsFound

-----------------------------------------------------------------------------
\* A grid has rows.
LEMMA SizeIs ==
  ASSUME Box \in Nat \ {0}
  PROVE  Size \in Nat \ {0}
BY DEF Size

\* The element of valid that a subgrid answers for is the one of its thread.
LEMMA IndexIsThread ==
  ASSUME Box \in Nat \ {0}, NEW t \in Index
  PROVE  ValidIndex(t) = t
<1> DEFINE q == t \div Box
           r == t % Box
<1>1. t \in Nat
  BY SizeIs DEF Index
<1>2. q \in Nat /\ r \in 0 .. Box - 1 /\ t = Box * q + r
  BY <1>1
<1>3. StartRow(t) = Box * q /\ StartColumn(t) = Box * r
  BY DEF StartRow, StartColumn
<1>4. (Box * r) \div Box = r
  BY <1>2
<1>5. QED
  BY <1>2, <1>3, <1>4 DEF ValidIndex

\* main creates every thread once.
LEMMA CreatedIs ==
  ASSUME Box \in Nat \ {0}
  PROVE  /\ \A k \in 0 .. Size + 1 : Created(k) \in Threads
         /\ \A j, k \in 0 .. Size + 1 : Created(j) = Created(k) => j = k
         /\ \A t \in Threads : \E k \in 0 .. Size + 1 : Created(k) = t
         /\ Created(0) = RowThread /\ Created(1) = ColumnThread
         /\ \A k \in 2 .. Size + 1 : Created(k) = k - 2
<1>1. Size \in Nat \ {0}
  BY SizeIs
<1>2. \A k \in 0 .. Size + 1 :
        Created(k) = IF k = 0 THEN Size ELSE IF k = 1 THEN Size + 1 ELSE k - 2
  BY <1>1 DEF Created, RowThread, ColumnThread
<1>3. \A t \in Threads : \E k \in 0 .. Size + 1 : Created(k) = t
  <2> TAKE t \in Threads
  <2>1. CASE t = Size
    BY <1>1, <1>2, <2>1
  <2>2. CASE t = Size + 1
    BY <1>1, <1>2, <2>2
  <2>3. CASE t \in 0 .. Size - 1
    <3>1. t + 2 \in 0 .. Size + 1 /\ Created(t + 2) = t
      BY <1>1, <1>2, <2>3
    <3>2. QED
      BY <3>1
  <2>4. QED
    BY <1>1, <2>1, <2>2, <2>3 DEF Threads
<1>4. QED
  BY <1>1, <1>2, <1>3 DEF Threads, RowThread, ColumnThread

\* What there is to know of the numbers of the threads.
LEMMA ThreadFacts ==
  ASSUME Box \in Nat \ {0}
  PROVE  /\ Size \in Nat \ {0} /\ Index \subseteq Threads /\ LineThreads \subseteq Threads
         /\ RowThread \in LineThreads /\ ColumnThread \in LineThreads /\ RowThread # ColumnThread
         /\ RowThread \notin Index /\ ColumnThread \notin Index
         /\ Threads = Index \cup LineThreads /\ 0 \in Index
BY SizeIs DEF Index, Threads, LineThreads, RowThread, ColumnThread

\* At the start no thread has looked at anything.
LEMMA SudokuStart == ASSUME Box \in Nat \ {0}, GridInit PROVE SudokuInv
<1>1. GridTypes
  <2>1. next \in [LineThreads -> Int] /\ i \in 0 .. Size + 1 /\ tidRow \in Threads
    BY ThreadFacts DEF GridInit, LineThreads
  <2>2. valid \in [Threads -> BOOLEAN] /\ pc \in [Threads -> ThreadPlaces]
    BY DEF GridInit, ThreadPlaces
  <2>3. QED
    BY <2>1, <2>2 DEF GridInit, GridTypes, MainPlaces
<1>2. CreatedSoFar /\ JoinedSoFar /\ JudgedSoFar /\ Progress /\ ColumnsSeen
  BY CreatedIs, ThreadFacts DEF GridInit, CreatedSoFar, JoinedSoFar, JudgedSoFar, Progress,
     ColumnsSeen, MainPlaces, LineThreads
<1>3. RowsFound /\ ColumnsFound /\ SubgridsFound
  BY ThreadFacts DEF GridInit, RowsFound, ColumnsFound, SubgridsFound, LineThreads, Index
<1>4. QED
  BY <1>1, <1>2, <1>3 DEF SudokuInv

-----------------------------------------------------------------------------
(***************************************************************************)
(* The steps of the threads.                                               *)
(***************************************************************************)
\* What was found stays found.
LEMMA FoundStays ==
  ASSUME Box \in Nat \ {0}, SudokuInv, UNCHANGED <<puzzle, valid, next, printed>>,
         freed => freed', \A t \in Index : pc'[t] = "exited" <=> pc[t] = "exited"
  PROVE  RowsFound' /\ ColumnsFound' /\ SubgridsFound'
<1>1. /\ \A k : Repeats(Row(k))' <=> Repeats(Row(k))
      /\ \A k : Repeats(Column(k))' <=> Repeats(Column(k))
      /\ \A u : Repeats(Subgrid(u))' <=> Repeats(Subgrid(u))
  BY DEF Repeats, Row, Column, Subgrid, StartRow, StartColumn
<1>2. QED
  BY <1>1 DEF SudokuInv, RowsFound, ColumnsFound, SubgridsFound, RowsRight

\* A step of the thread for the rows or of the one for the columns.
LEMMA LineAdvances ==
  ASSUME Box \in Nat \ {0}, SudokuInv, NEW t \in LineThreads, Advances(t), UNCHANGED main
  PROVE  /\ stage # "done" /\ next[t] \in Int /\ next'[t] = next[t] + 1
         /\ t = ColumnThread \/ ~ freed => next[t] \in Index
         /\ \A u \in LineThreads \ {t} : next'[u] = next[u]
         /\ \A u \in Threads \ {t} : pc'[u] = pc[u]
         /\ pc[t] = "running" /\ pc'[t] \in {"running", "exited"}
         /\ next' \in [LineThreads -> Int]
         /\ pc' \in [Threads -> ThreadPlaces]
         /\ CreatedSoFar' /\ JoinedSoFar' /\ JudgedSoFar' /\ Progress' /\ ColumnsSeen'
<1>1. /\ pc[t] = "running" /\ UNCHANGED <<stage, i, tidRow, freed, verdict>>
      /\ next' = [next EXCEPT ![t] = @ + 1]
      /\ pc' = [pc EXCEPT ![t] = IF next[t] = Size - 1 THEN "exited" ELSE @]
  BY DEF Advances, main
<1>2. /\ pc \in [Threads -> ThreadPlaces] /\ next \in [LineThreads -> Int]
      /\ {"running", "exited"} \subseteq ThreadPlaces
      /\ t \in Threads /\ t \notin Index /\ Index \subseteq Threads /\ LineThreads \subseteq Threads
      /\ Size \in Nat \ {0} /\ ColumnThread \in LineThreads
  BY ThreadFacts DEF SudokuInv, GridTypes, LineThreads, ThreadPlaces
<1>3. /\ stage # "done" /\ next[t] \in Int /\ next[t] < Size
      /\ t = ColumnThread \/ ~ freed => next[t] \in 0 .. Size - 1
  BY <1>1, <1>2 DEF SudokuInv, JudgedSoFar, Progress
<1>4. /\ next'[t] = next[t] + 1 /\ \A u \in LineThreads \ {t} : next'[u] = next[u]
      /\ pc'[t] = IF next[t] = Size - 1 THEN "exited" ELSE "running"
      /\ \A u \in Threads \ {t} : pc'[u] = pc[u]
      /\ next' \in [LineThreads -> Int] /\ pc' \in [Threads -> ThreadPlaces]
  BY <1>1, <1>2, <1>3
<1>5. CreatedSoFar'
  <2>1. \A u \in Threads : pc'[u] = "none" <=> pc[u] = "none"
    BY <1>1, <1>2, <1>4
  <2>2. QED
    BY <1>1, <2>1, CreatedIs DEF SudokuInv, CreatedSoFar
<1>6. JoinedSoFar'
  <2>1. \A u \in Threads : pc[u] = "exited" => pc'[u] = "exited"
    BY <1>1, <1>2, <1>4
  <2>2. stage = "join" => 0 .. i - 1 \subseteq Threads
    BY <1>2 DEF SudokuInv, JoinedSoFar, Threads, GridTypes
  <2>3. QED
    BY <1>1, <1>2, <2>1, <2>2 DEF SudokuInv, JoinedSoFar
<1>7. JudgedSoFar' /\ Progress'
  BY <1>1, <1>2, <1>3, <1>4 DEF SudokuInv, JudgedSoFar, Progress
<1>8. ColumnsSeen'
  <2>1. stage \in MainPlaces \ {"create", "join", "joinRow"} => t # ColumnThread
    BY <1>1 DEF SudokuInv, JoinedSoFar
  <2>2. QED
    BY <1>1, <1>2, <1>4, <2>1 DEF SudokuInv, ColumnsSeen
<1>9. QED
  BY <1>1, <1>2, <1>3, <1>4, <1>5, <1>6, <1>7, <1>8 DEF Index

(***************************************************************************)
(* The thread for the rows reads in which row it begins: the first, unless *)
(* the parameters are freed.                                               *)
(***************************************************************************)
LEMMA BeginRowsHolds ==
  ASSUME Box \in Nat \ {0}, Garbage \subseteq Int, SudokuInv, BeginRows
  PROVE  SudokuInv'
<1>1. PICK k \in Read :
        /\ next' = [next EXCEPT ![RowThread] = k]
        /\ pc' = [pc EXCEPT ![RowThread] = IF k < Size THEN "running" ELSE "exited"]
  BY DEF BeginRows
<1>2. /\ k \in Int /\ (~ freed => k = 0) /\ Size \in Nat \ {0}
      /\ pc[RowThread] = "created"
      /\ UNCHANGED <<puzzle, valid, printed, stage, i, tidRow, freed, verdict, reported>>
  BY <1>1, ThreadFacts DEF Read, BeginRows, main
<1>3. /\ pc \in [Threads -> ThreadPlaces] /\ next \in [LineThreads -> Int]
      /\ {"running", "exited"} \subseteq ThreadPlaces
  BY DEF SudokuInv, GridTypes, ThreadPlaces
<1>4. /\ next' \in [LineThreads -> Int] /\ pc' \in [Threads -> ThreadPlaces]
      /\ next'[RowThread] = k /\ next'[ColumnThread] = next[ColumnThread]
      /\ \A t \in Threads \ {RowThread} : pc'[t] = pc[t]
      /\ pc'[RowThread] = IF k < Size THEN "running" ELSE "exited"
  BY <1>1, <1>2, <1>3, ThreadFacts
<1>5. GridTypes'
  BY <1>2, <1>4 DEF SudokuInv, GridTypes
<1>6. CreatedSoFar' /\ JoinedSoFar' /\ JudgedSoFar'
  <2>1. /\ \A u \in Threads : pc'[u] = "none" <=> pc[u] = "none"
        /\ \A u \in Threads : pc[u] = "exited" => pc'[u] = "exited"
    BY <1>2, <1>4
  <2>2. stage = "join" => 0 .. i - 1 \subseteq Threads
    BY ThreadFacts DEF SudokuInv, JoinedSoFar, Threads, GridTypes
  <2>3. CreatedSoFar'
    BY <1>2, <2>1, CreatedIs DEF SudokuInv, CreatedSoFar
  <2>4. JoinedSoFar'
    BY <1>2, <2>1, <2>2, ThreadFacts DEF SudokuInv, JoinedSoFar
  <2>5. JudgedSoFar'
    BY <1>2, <2>1 DEF SudokuInv, JudgedSoFar
  <2>6. QED
    BY <2>3, <2>4, <2>5
<1>7. Progress' /\ ColumnsSeen'
  BY <1>2, <1>4, ThreadFacts DEF SudokuInv, Progress, ColumnsSeen, LineThreads
<1>8. RowsFound' /\ ColumnsFound' /\ SubgridsFound'
  <2>1. /\ \A u : Repeats(Row(u))' <=> Repeats(Row(u))
        /\ \A u : Repeats(Column(u))' <=> Repeats(Column(u))
        /\ \A u : Repeats(Subgrid(u))' <=> Repeats(Subgrid(u))
    BY <1>2 DEF Repeats, Row, Column, Subgrid, StartRow, StartColumn
  <2>2. RowsFound'
    BY <1>2, <1>4, <2>1 DEF SudokuInv, RowsFound, RowsRight
  <2>3. ColumnsFound' /\ SubgridsFound'
    BY <1>2, <1>4, <2>1, ThreadFacts DEF SudokuInv, ColumnsFound, SubgridsFound
  <2>4. QED
    BY <2>2, <2>3
<1>9. QED
  BY <1>5, <1>6, <1>7, <1>8 DEF SudokuInv

\* A row is looked at; once the parameters are freed, it may be any.
LEMMA CheckRowHolds ==
  ASSUME Box \in Nat \ {0}, SudokuInv, CheckRow
  PROVE  SudokuInv'
<1> DEFINE n == next[RowThread]
<1>1. PICK bad \in BOOLEAN :
        /\ ~ freed => (bad <=> Repeats(Row(n)))
        /\ valid' = IF bad THEN [valid EXCEPT ![RowThread] = FALSE] ELSE valid
        /\ printed' = IF bad THEN printed \cup {<<"Line", n>>} ELSE printed
  <2>1. PICK from \in Read :
          \E bad \in IF InGrid(n, from) THEN {Repeats({n} \X (from .. Size - 1))} ELSE BOOLEAN :
            Finds(RowThread, bad, <<"Line", n>>)
    BY DEF CheckRow
  <2>2. PICK bad \in IF InGrid(n, from) THEN {Repeats({n} \X (from .. Size - 1))} ELSE BOOLEAN :
          Finds(RowThread, bad, <<"Line", n>>)
    BY <2>1
  <2>3. bad \in BOOLEAN
    BY <2>2 DEF Repeats
  <2>4. ~ freed => (bad <=> Repeats(Row(n)))
    <3> SUFFICES ASSUME ~ freed PROVE bad <=> Repeats(Row(n))
      OBVIOUS
    <3>1. from = 0
      BY DEF Read
    <3>2. n \in Index
      BY LineAdvances, ThreadFacts DEF CheckRow
    <3>3. InGrid(n, from) /\ {n} \X (from .. Size - 1) = Row(n)
      BY <3>1, <3>2, ThreadFacts DEF InGrid, Row, Index
    <3>4. QED
      BY <2>2, <3>3
  <2>5. QED
    BY <2>2, <2>3, <2>4 DEF Finds
<1>2. /\ stage # "done" /\ (~ freed => n \in Index) /\ next'[RowThread] = n + 1
      /\ next'[ColumnThread] = next[ColumnThread]
      /\ \A t \in Threads \ {RowThread} : pc'[t] = pc[t]
      /\ next' \in [LineThreads -> Int]
      /\ pc' \in [Threads -> ThreadPlaces]
      /\ CreatedSoFar' /\ JoinedSoFar' /\ JudgedSoFar' /\ Progress' /\ ColumnsSeen'
  BY LineAdvances, ThreadFacts DEF CheckRow
<1>3. UNCHANGED <<puzzle, stage, i, tidRow, freed, verdict, reported>>
  BY DEF CheckRow, main
<1>4. /\ valid \in [Threads -> BOOLEAN] /\ valid' \in [Threads -> BOOLEAN]
      /\ \A t \in Threads \ {RowThread} : valid'[t] = valid[t]
      /\ valid'[RowThread] <=> valid[RowThread] /\ ~ bad
  BY <1>1, ThreadFacts DEF SudokuInv, GridTypes
<1>5. GridTypes'
  BY <1>2, <1>3, <1>4 DEF SudokuInv, GridTypes
<1>6. /\ \A k : Repeats(Row(k))' <=> Repeats(Row(k))
      /\ \A k : Repeats(Column(k))' <=> Repeats(Column(k))
      /\ \A t : Repeats(Subgrid(t))' <=> Repeats(Subgrid(t))
  BY <1>3 DEF Repeats, Row, Column, Subgrid, StartRow, StartColumn
<1>7. RowsFound'
  BY <1>1, <1>2, <1>3, <1>4, <1>6 DEF SudokuInv, RowsFound, RowsRight, Index
<1>8. ColumnsFound' /\ SubgridsFound'
  BY <1>1, <1>2, <1>3, <1>4, <1>6, ThreadFacts DEF SudokuInv, ColumnsFound, SubgridsFound
<1>9. QED
  BY <1>2, <1>5, <1>7, <1>8 DEF SudokuInv

\* Looking outside of the grid may end the process.
LEMMA LooksOutsideHolds ==
  ASSUME Box \in Nat \ {0}, SudokuInv, LooksOutside
  PROVE  SudokuInv'
<1>1. /\ pc[RowThread] = "running" /\ stage' = "crashed"
      /\ UNCHANGED <<puzzle, valid, pc, next, printed, i, tidRow, freed, verdict, reported>>
  BY DEF LooksOutside, threads
<1>2. freed
  <2> SUFFICES ASSUME ~ freed PROVE FALSE
    OBVIOUS
  <2>1. next[RowThread] \in 0 .. Size
    BY <1>1, ThreadFacts DEF SudokuInv, JudgedSoFar, Progress
  <2>2. QED
    BY <2>1, ThreadFacts DEF LooksOutside, Read, InGrid
<1>3. stage \in {"return", "crashed"}
  BY <1>1, <1>2, ThreadFacts DEF SudokuInv, JudgedSoFar
<1>4. GridTypes' /\ CreatedSoFar' /\ JoinedSoFar' /\ JudgedSoFar' /\ Progress' /\ ColumnsSeen'
  BY <1>1, <1>2, <1>3 DEF SudokuInv, GridTypes, CreatedSoFar, JoinedSoFar, JudgedSoFar, Progress,
     ColumnsSeen, MainPlaces
<1>5. RowsFound' /\ ColumnsFound' /\ SubgridsFound'
  BY <1>1, FoundStays
<1>6. QED
  BY <1>4, <1>5 DEF SudokuInv

\* A column is looked at.
LEMMA CheckColumnHolds ==
  ASSUME Box \in Nat \ {0}, SudokuInv, CheckColumn
  PROVE  SudokuInv'
<1> DEFINE n == next[ColumnThread]
           bad == Repeats(Column(n))
<1>1. /\ valid' = IF bad THEN [valid EXCEPT ![ColumnThread] = FALSE] ELSE valid
      /\ printed' = IF bad THEN printed \cup {<<"Column", n>>} ELSE printed
  BY DEF CheckColumn, Finds
<1>2. /\ stage # "done" /\ n \in Index /\ next'[ColumnThread] = n + 1
      /\ next'[RowThread] = next[RowThread]
      /\ \A t \in Threads \ {ColumnThread} : pc'[t] = pc[t]
      /\ next' \in [LineThreads -> Int]
      /\ pc' \in [Threads -> ThreadPlaces]
      /\ CreatedSoFar' /\ JoinedSoFar' /\ JudgedSoFar' /\ Progress' /\ ColumnsSeen'
  BY LineAdvances, ThreadFacts DEF CheckColumn
<1>3. UNCHANGED <<puzzle, stage, i, tidRow, freed, verdict, reported>>
  BY DEF CheckColumn, main
<1>4. bad \in BOOLEAN
  BY DEF Repeats
<1>5. /\ valid \in [Threads -> BOOLEAN] /\ valid' \in [Threads -> BOOLEAN]
      /\ \A t \in Threads \ {ColumnThread} : valid'[t] = valid[t]
      /\ valid'[ColumnThread] <=> valid[ColumnThread] /\ ~ bad
  BY <1>1, ThreadFacts DEF SudokuInv, GridTypes
<1>6. GridTypes'
  BY <1>2, <1>3, <1>5 DEF SudokuInv, GridTypes
<1>7. /\ \A k : Repeats(Row(k))' <=> Repeats(Row(k))
      /\ \A k : Repeats(Column(k))' <=> Repeats(Column(k))
      /\ \A t : Repeats(Subgrid(t))' <=> Repeats(Subgrid(t))
  BY <1>3 DEF Repeats, Row, Column, Subgrid, StartRow, StartColumn
<1>8. RowsFound' /\ SubgridsFound'
  BY <1>1, <1>2, <1>3, <1>5, <1>7, ThreadFacts DEF SudokuInv, RowsFound, RowsRight, SubgridsFound
<1>9. ColumnsFound'
  <2> HIDE DEF bad
  <2>1. n \in 0 .. Size - 1 /\ Size \in Nat
    BY <1>2, ThreadFacts DEF Index
  <2>2. \A k \in Index : <<"Column", k>> \in printed' <=> <<"Column", k>> \in printed \/ (bad /\ k = n)
    BY <1>1
  <2>3. \A k \in Index : k < n + 1 <=> (k < n \/ k = n)
    BY <2>1 DEF Index
  <2>4. 0 .. n + 1 - 1 = (0 .. n - 1) \cup {n}
    BY <2>1
  <2>5. bad <=> Repeats(Column(n))
    BY DEF bad
  <2>6. \A k \in Index : <<"Column", k>> \in printed' <=> k < n + 1 /\ Repeats(Column(k))
    BY <2>2, <2>3, <2>5, <2>1 DEF SudokuInv, ColumnsFound
  <2>7. valid'[ColumnThread] <=> \A k \in 0 .. n + 1 - 1 : ~ Repeats(Column(k))
    BY <1>5, <2>4, <2>5 DEF SudokuInv, ColumnsFound
  <2>8. /\ \A k \in Index : <<"Column", k>> \in printed'
               <=> k < next'[ColumnThread] /\ Repeats(Column(k))'
        /\ valid'[ColumnThread]
               <=> \A k \in 0 .. next'[ColumnThread] - 1 : ~ Repeats(Column(k))'
    <3> HIDE DEF n
    <3>1. next'[ColumnThread] = n + 1
      BY <1>2
    <3>2. \A k : Repeats(Column(k))' <=> Repeats(Column(k))
      BY <1>7
    <3>3. \A k \in Index : <<"Column", k>> \in printed'
               <=> k < next'[ColumnThread] /\ Repeats(Column(k))
      BY <2>6, <3>1
    <3>4. valid'[ColumnThread]
               <=> \A k \in 0 .. next'[ColumnThread] - 1 : ~ Repeats(Column(k))
      BY <2>1, <2>7, <3>1
    <3>5. QED
      BY <3>2, <3>3, <3>4
  <2>9. QED
    BY <2>8, Zenon DEF ColumnsFound, Index, Size, ColumnThread
<1>10. QED
  BY <1>2, <1>6, <1>8, <1>9 DEF SudokuInv

\* A subgrid is looked at, and its thread ends.
LEMMA CheckSubgridHolds ==
  ASSUME Box \in Nat \ {0}, SudokuInv, NEW t \in Index, CheckSubgrid(t)
  PROVE  SudokuInv'
<1> DEFINE bad == Repeats(Subgrid(t))
<1>1. /\ pc[t] = "running" /\ pc' = [pc EXCEPT ![t] = "exited"]
      /\ valid' = IF bad THEN [valid EXCEPT ![t] = FALSE] ELSE valid
      /\ UNCHANGED <<puzzle, next, printed, stage, i, tidRow, freed, verdict, reported>>
  BY IndexIsThread DEF CheckSubgrid, main
<1>2. bad \in BOOLEAN /\ t \in Threads /\ t \notin LineThreads
  BY ThreadFacts DEF Repeats, LineThreads
<1>3. /\ valid \in [Threads -> BOOLEAN] /\ valid' \in [Threads -> BOOLEAN]
      /\ \A u \in Threads \ {t} : valid'[u] = valid[u] /\ pc'[u] = pc[u]
      /\ valid'[t] <=> valid[t] /\ ~ bad
      /\ pc'[t] = "exited" /\ pc' \in [Threads -> ThreadPlaces]
  BY <1>1, <1>2 DEF SudokuInv, GridTypes, ThreadPlaces
<1>4. GridTypes'
  BY <1>1, <1>3 DEF SudokuInv, GridTypes
<1>5. CreatedSoFar' /\ JoinedSoFar' /\ JudgedSoFar'
  <2>1. \A u \in Threads : /\ pc'[u] = "none" <=> pc[u] = "none"
                          /\ pc[u] = "exited" => pc'[u] = "exited"
    BY <1>1, <1>2, <1>3
  <2>2. stage = "join" => 0 .. i - 1 \subseteq Threads
    BY ThreadFacts DEF SudokuInv, JoinedSoFar, Threads, GridTypes
  <2>3. QED
    BY <1>1, <2>1, <2>2, CreatedIs, ThreadFacts
    DEF SudokuInv, CreatedSoFar, JoinedSoFar, JudgedSoFar
<1>6. Progress' /\ ColumnsSeen'
  BY <1>1, <1>2, <1>3, ThreadFacts DEF SudokuInv, Progress, ColumnsSeen
<1>7. /\ \A k : Repeats(Row(k))' <=> Repeats(Row(k))
      /\ \A k : Repeats(Column(k))' <=> Repeats(Column(k))
      /\ \A u : Repeats(Subgrid(u))' <=> Repeats(Subgrid(u))
  BY <1>1 DEF Repeats, Row, Column, Subgrid, StartRow, StartColumn
<1>8. RowsFound' /\ ColumnsFound'
  BY <1>1, <1>2, <1>3, <1>7, ThreadFacts DEF SudokuInv, RowsFound, ColumnsFound, RowsRight, LineThreads
<1>9. SubgridsFound'
  BY <1>1, <1>2, <1>3, <1>7, ThreadFacts DEF SudokuInv, SubgridsFound
<1>10. QED
  BY <1>4, <1>5, <1>6, <1>8, <1>9 DEF SudokuInv

-----------------------------------------------------------------------------
(***************************************************************************)
(* The steps of main.  Only those that start or end a thread change what   *)
(* is told of the threads.                                                 *)
(***************************************************************************)
\* One thread more.
LEMMA CreateThreadHolds ==
  ASSUME Box \in Nat \ {0}, SudokuInv, CreateThread
  PROVE  SudokuInv'
<1> DEFINE t == Created(i)
<1>1. /\ stage = "create" /\ stage' = IF i = Size + 1 THEN "join" ELSE "create"
      /\ pc' = [pc EXCEPT ![t] = IF i = 0 THEN "created" ELSE "running"]
      /\ tidRow' = IF i < 2 THEN t ELSE tidRow
      /\ i' = IF i = Size + 1 THEN 0 ELSE i + 1
      /\ UNCHANGED <<puzzle, valid, next, printed, freed, verdict, reported>>
  BY DEF CreateThread, StageGoto
<1>2. i \in 0 .. Size + 1 /\ t \in Threads /\ Size \in Nat \ {0}
  BY CreatedIs, ThreadFacts DEF SudokuInv, GridTypes
<1>3. pc[t] = "none" /\ verdict = "none" /\ ~ freed
  BY <1>1, <1>2 DEF SudokuInv, GridTypes, CreatedSoFar, JudgedSoFar
<1> HIDE DEF t
<1>4. /\ pc' \in [Threads -> ThreadPlaces]
      /\ pc'[t] \in {"created", "running"} /\ (pc'[t] = "created" => t = RowThread)
      /\ \A u \in Threads \ {t} : pc'[u] = pc[u]
  BY <1>1, <1>2, CreatedIs DEF SudokuInv, GridTypes, ThreadPlaces, t
<1>5. GridTypes'
  BY <1>1, <1>2, <1>4 DEF SudokuInv, GridTypes, MainPlaces
<1>6. CreatedSoFar'
  <2>1. \A k \in 0 .. Size + 1 : pc'[Created(k)] = "none" <=> k >= i + 1
    BY <1>1, <1>2, <1>4, CreatedIs DEF SudokuInv, CreatedSoFar, t
  <2>2. i + 1 >= 2 => tidRow' = ColumnThread
    BY <1>1, <1>2, CreatedIs DEF SudokuInv, CreatedSoFar, t
  <2>3. CASE i = Size + 1
    <3>1. \A u \in Threads : pc'[u] # "none"
      BY <1>2, <2>1, <2>3, CreatedIs
    <3>2. QED
      BY <1>1, <1>2, <2>2, <2>3, <3>1 DEF CreatedSoFar
  <2>4. CASE i # Size + 1
    BY <1>1, <2>1, <2>2, <2>4 DEF CreatedSoFar
  <2>5. QED
    BY <2>3, <2>4
<1>7. JoinedSoFar' /\ JudgedSoFar' /\ ColumnsSeen'
  BY <1>1, <1>2, <1>3 DEF JoinedSoFar, JudgedSoFar, ColumnsSeen, MainPlaces
<1>8. Progress'
  BY <1>1, <1>2, <1>3, <1>4, ThreadFacts DEF SudokuInv, Progress
<1>9. RowsFound' /\ ColumnsFound' /\ SubgridsFound'
  <2>1. \A u \in Index : pc'[u] = "exited" <=> pc[u] = "exited"
    BY <1>3, <1>4, ThreadFacts
  <2>2. QED
    BY <1>1, <2>1, FoundStays
<1>10. QED
  BY <1>5, <1>6, <1>7, <1>8, <1>9 DEF SudokuInv

\* The steps by which main waits, judges and frees.
LEMMA MainGoesOn ==
  ASSUME Box \in Nat \ {0}, SudokuInv,
         JoinSubgrid \/ JoinTidRow \/ JoinTidColumn \/ Judge \/ FreeParameters
  PROVE  SudokuInv'
<1>1. /\ UNCHANGED <<puzzle, valid, pc, next, printed, tidRow>>
      /\ stage \notin {"create", "done"} /\ stage' \in MainPlaces \ {"create", "done"}
      /\ Size \in Nat \ {0}
  BY ThreadFacts DEF threads, JoinSubgrid, JoinTidRow, JoinTidColumn, Judge, FreeParameters,
     StageGoto, MainPlaces
<1>2. /\ freed \in BOOLEAN /\ freed' \in BOOLEAN /\ (freed => freed')
      /\ i' \in 0 .. Size + 1
  <2>1. freed \in BOOLEAN /\ i \in 0 .. Size + 1 /\ (stage = "join" => i < Size)
    BY DEF SudokuInv, GridTypes, JoinedSoFar
  <2>2. CASE JoinSubgrid
    BY <1>1, <2>1, <2>2 DEF JoinSubgrid, StageGoto
  <2>3. CASE JoinTidRow \/ JoinTidColumn \/ Judge \/ FreeParameters
    <3>1. i' = i /\ (freed' = freed \/ freed' = TRUE)
      BY <2>3 DEF JoinTidRow, JoinTidColumn, Judge, FreeParameters
    <3>2. QED
      BY <2>1, <3>1
  <2>4. QED
    BY <2>2, <2>3
<1>3. GridTypes' /\ CreatedSoFar' /\ Progress'
  BY <1>1, <1>2 DEF SudokuInv, GridTypes, CreatedSoFar, Progress
<1>4. RowsFound' /\ ColumnsFound' /\ SubgridsFound'
  BY <1>1, <1>2, FoundStays
<1>5. JudgedSoFar'
  BY DEF SudokuInv, JudgedSoFar, JoinSubgrid, JoinTidRow, JoinTidColumn, Judge, FreeParameters,
     StageGoto
<1>6. JoinedSoFar'
  <2>1. CASE JoinSubgrid
    <3>1. /\ stage = "join" /\ stage' = IF i = Size - 1 THEN "joinRow" ELSE "join"
          /\ pc[i] = "exited" /\ i' = i + 1 /\ i \in 0 .. Size - 1
          /\ \A t \in 0 .. i - 1 : pc[t] = "exited"
      BY <1>1, <2>1 DEF SudokuInv, GridTypes, JoinedSoFar, JoinSubgrid, StageGoto
    <3>2. \A t \in 0 .. i : pc[t] = "exited"
      BY <3>1
    <3>3. QED
      BY <1>1, <3>1, <3>2 DEF JoinedSoFar, Index, MainPlaces
  <2>2. CASE ~ JoinSubgrid
    BY <1>1, <2>2 DEF SudokuInv, JoinedSoFar, CreatedSoFar, JoinTidRow, JoinTidColumn, Judge, FreeParameters,
     StageGoto, MainPlaces
  <2>3. QED
    BY <2>1, <2>2
<1>7. ColumnsSeen'
  BY <1>1, ThreadFacts DEF SudokuInv, ColumnsSeen, Progress, CreatedSoFar, JoinSubgrid, JoinTidRow,
     JoinTidColumn, Judge, FreeParameters, StageGoto, MainPlaces
<1>8. QED
  BY <1>3, <1>4, <1>5, <1>6, <1>7 DEF SudokuInv

\* main returns, and that ends the threads there still are.
LEMMA ReturnHolds ==
  ASSUME Box \in Nat \ {0}, SudokuInv, Return
  PROVE  SudokuInv'
<1>1. /\ stage = "return" /\ stage' = "done" /\ pc' = [t \in Threads |-> "exited"]
      /\ UNCHANGED <<puzzle, valid, next, printed, i, tidRow, freed, verdict, reported>>
  BY DEF Return, StageGoto
<1>2. \A t \in Threads : pc'[t] = "exited"
  BY <1>1
<1>3. \A t \in Index : pc[t] = "exited"
  BY <1>1 DEF SudokuInv, JoinedSoFar, MainPlaces
<1>4. GridTypes' /\ CreatedSoFar' /\ JoinedSoFar' /\ JudgedSoFar' /\ Progress' /\ ColumnsSeen'
  BY <1>1, <1>2, ThreadFacts DEF SudokuInv, GridTypes, CreatedSoFar, JoinedSoFar, JudgedSoFar,
     Progress, ColumnsSeen, MainPlaces
<1>5. RowsFound' /\ ColumnsFound' /\ SubgridsFound'
  BY <1>1, <1>2, <1>3, ThreadFacts, FoundStays
<1>6. QED
  BY <1>4, <1>5 DEF SudokuInv

\* No step of main or of a thread leaves the invariant.
LEMMA SudokuStep ==
  ASSUME Box \in Nat \ {0}, Garbage \subseteq Int, SudokuInv, [GridNext]_gridVars
  PROVE  SudokuInv'
<1>1. CASE MainRuns
  BY <1>1, CreateThreadHolds, MainGoesOn, ReturnHolds DEF MainRuns
<1>2. CASE ThreadRuns
  BY <1>2, BeginRowsHolds, CheckRowHolds, LooksOutsideHolds, CheckColumnHolds, CheckSubgridHolds DEF ThreadRuns
<1>3. CASE UNCHANGED gridVars
  BY <1>3 DEF gridVars, threads, main, SudokuInv, GridTypes, CreatedSoFar, JoinedSoFar, JudgedSoFar,
     Progress, ColumnsSeen, RowsFound, ColumnsFound, SubgridsFound, RowsRight, Repeats,
     Row, Column, Subgrid, StartRow, StartColumn
<1>4. QED
  BY <1>1, <1>2, <1>3 DEF GridNext, ProcessEnded

-----------------------------------------------------------------------------
(***************************************************************************)
(* When main has judged, every column was looked at, and what the output   *)
(* says of rows and columns is so, although the thread for the rows, whose *)
(* id was overwritten, may run on with parameters that are freed, and is   *)
(* ended by the return of main (sudoku.c:25-63, 125-128, 150-151).         *)
(***************************************************************************)
THEOREM OutlivedThreads == GridSpec => []ThreadsOutlived
<1>0. Box \in Nat \ {0} /\ Garbage \subseteq Int
  BY SudokuAssumption
<1>1. SudokuInv => ThreadsOutlived
  <2> SUFFICES ASSUME SudokuInv PROVE ThreadsOutlived
    OBVIOUS
  <2>1. verdict # "none" => next[ColumnThread] = Size
    BY DEF SudokuInv, JudgedSoFar, ColumnsSeen, MainPlaces
  <2>2. verdict # "none" => \A k \in Index : <<"Column", k>> \in printed <=> Repeats(Column(k))
    <3>1. \A k \in Index : k < Size
      BY <1>0, ThreadFacts DEF Index
    <3>2. QED
      BY <2>1, <3>1 DEF SudokuInv, ColumnsFound
  <2>3. freed => \A t \in Threads \ {RowThread} : pc[t] = "exited"
    BY <1>0, ThreadFacts DEF SudokuInv, JudgedSoFar, JoinedSoFar, MainPlaces, LineThreads
  <2>4. QED
    BY <2>2, <2>3 DEF SudokuInv, RowsFound, ThreadsOutlived
<1>2. GridInit => SudokuInv
  BY <1>0, SudokuStart
<1>3. SudokuInv /\ [GridNext]_gridVars => SudokuInv'
  BY <1>0, SudokuStep
<1>4. QED
  BY <1>1, <1>2, <1>3, PTL DEF GridSpec

\* What main judges by is what the threads it has waited for have found.
LEMMA JudgeIsSound ==
  ASSUME Box \in Nat \ {0}, SudokuInv, Judge
  PROVE  /\ verdict' = "Valid!" =>
              ColumnsRight /\ SubgridsRight /\ (RowsRight \/ pc[RowThread] # "exited")
         /\ verdict' = "invalid" =>
              /\ ~ (RowsRight /\ ColumnsRight /\ SubgridsRight)
              /\ reported' = {t \in Index : Repeats(Subgrid(t))}
<1>1. stage = "judge" /\ ~ freed
  BY DEF Judge, StageGoto, SudokuInv, JudgedSoFar
<1>2. /\ \A t \in Index : valid[t] <=> ~ Repeats(Subgrid(t))
      /\ next[ColumnThread] = Size /\ Size \in Nat
  BY <1>1, ThreadFacts DEF SudokuInv, SubgridsFound, JoinedSoFar, ColumnsSeen, MainPlaces
<1>3. valid[ColumnThread] <=> ColumnsRight
  BY <1>2 DEF SudokuInv, ColumnsFound, ColumnsRight, Index
<1>4. ~ valid[RowThread] => ~ RowsRight
  BY <1>1 DEF SudokuInv, RowsFound
<1>5. pc[RowThread] = "exited" /\ valid[RowThread] => RowsRight
  <2>1. pc[RowThread] = "exited" => next[RowThread] = Size
    BY <1>1, ThreadFacts DEF SudokuInv, Progress
  <2>2. QED
    BY <1>1, <1>2, <2>1 DEF SudokuInv, RowsFound, RowsRight, Index
<1>6. (\A t \in Threads : valid[t]) <=> SubgridsRight /\ valid[ColumnThread] /\ valid[RowThread]
  BY <1>2, ThreadFacts DEF SubgridsRight, LineThreads
<1>7. {t \in Index : ~ valid[t]} = {t \in Index : Repeats(Subgrid(t))}
  BY <1>2
<1>8. QED
  BY <1>3, <1>4, <1>5, <1>6, <1>7 DEF Judge

(***************************************************************************)
(* "Valid!" is printed of a grid whose columns and subgrids are right, and *)
(* whose rows are, unless the thread for the rows was still running; and a *)
(* grid that is called invalid is, and the subgrids reported are those     *)
(* that repeat a value (sudoku.c:120-148).                                 *)
(***************************************************************************)
THEOREM SoundVerdict == GridSpec => VerdictSound
<1>0. Box \in Nat \ {0} /\ Garbage \subseteq Int
  BY SudokuAssumption
<1>1. SudokuInv /\ [GridNext]_gridVars =>
        [ /\ verdict' # verdict /\ verdict' = "Valid!" =>
               ColumnsRight /\ SubgridsRight /\ (RowsRight \/ pc[RowThread] # "exited")
          /\ verdict' # verdict /\ verdict' = "invalid" =>
               /\ ~ (RowsRight /\ ColumnsRight /\ SubgridsRight)
               /\ reported' = {t \in Index : Repeats(Subgrid(t))} ]_gridVars
  <2> SUFFICES ASSUME SudokuInv, GridNext, verdict' # verdict
               PROVE  /\ verdict' = "Valid!" =>
                           ColumnsRight /\ SubgridsRight /\ (RowsRight \/ pc[RowThread] # "exited")
                      /\ verdict' = "invalid" =>
                           /\ ~ (RowsRight /\ ColumnsRight /\ SubgridsRight)
                           /\ reported' = {t \in Index : Repeats(Subgrid(t))}
    OBVIOUS
  <2>1. Judge
    BY DEF GridNext, MainRuns, ThreadRuns, ProcessEnded, gridVars, main, CreateThread, JoinSubgrid,
       JoinTidRow, JoinTidColumn, FreeParameters, Return, BeginRows, CheckRow, LooksOutside,
       CheckColumn, CheckSubgrid
  <2>2. QED
    BY <2>1, <1>0, JudgeIsSound
<1>2. GridInit => SudokuInv
  BY <1>0, SudokuStart
<1>3. SudokuInv /\ [GridNext]_gridVars => SudokuInv'
  BY <1>0, SudokuStep
<1>4. QED
  BY <1>1, <1>2, <1>3, PTL DEF GridSpec, VerdictSound

=============================================================================
