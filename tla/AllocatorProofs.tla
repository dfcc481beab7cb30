---------------------------- MODULE AllocatorProofs ----------------------------
(***************************************************************************)
(* The contiguous allocator for a memory and for requests of any size: the *)
(* list is whole through every split and join, and release, which only     *)
(* looks back, leaves no two unused regions side by side.  The list is the *)
(* row of regions of RegionMap: a request takes the front of one, and      *)
(* release, round by round, gives back all of a process at once.           *)
(***************************************************************************)
EXTENDS Allocator, FiniteSetTheorems, SequenceTheorems, WellFoundedInduction, TLAPS

Pointers == DOMAIN heap \cup {NULL}

LEMMA LeastOf ==
  ASSUME NEW S \in SUBSET Nat, S # {}
  PROVE  \E x \in S : \A y \in S : x <= y
<1>1. PICK x \in S : \A y \in S : ~ (<<y, x>> \in OpToRel(<, Nat))
  BY NatLessThanWellFounded, WFMin, Zenon
<1>2. \A y \in S : x <= y
  <2> TAKE y \in S
  <2>1. y < x => <<y, x>> \in OpToRel(<, Nat)
    BY DEF OpToRel
  <2>2. ~ (y < x)
    BY <1>1, <2>1, Zenon
  <2>3. x \in Nat /\ y \in Nat
    OBVIOUS
  <2>4. QED
    BY <2>2, <2>3
<1>3. QED
  BY <1>2

\* The walk along next, so many steps of it.
IsWalk(f, k) == \A n \in 1 .. k : f[n] = IF n = 1 THEN list ELSE After(f[n - 1])

\* There is such a walk, of any length.
LEMMA WalkExists ==
  ASSUME TypeOK, NEW k \in Nat \ {0}
  PROVE  \E f \in [1 .. k -> Pointers] : IsWalk(f, k)
<1>1. list \in Pointers /\ \A a : After(a) \in Pointers
  BY DEF TypeOK, After, Pointers
<1> DEFINE Walks(n) == \E f \in [1 .. n -> Pointers] : IsWalk(f, n)
           Bad == {n \in Nat \ {0} : ~ Walks(n)}
<1>2. SUFFICES ASSUME Bad # {} PROVE FALSE
  OBVIOUS
<1>3. PICK m \in Bad : \A n \in Bad : m <= n
  BY <1>2, LeastOf
<1>4. m # 1
  <2>1. [n \in 1 .. 1 |-> list] \in [1 .. 1 -> Pointers] /\ IsWalk([n \in 1 .. 1 |-> list], 1)
    BY <1>1 DEF IsWalk
  <2>2. QED
    BY <2>1
<1>5. m - 1 \in Nat \ {0} /\ Walks(m - 1)
  BY <1>3, <1>4
<1>6. PICK f \in [1 .. m - 1 -> Pointers] : IsWalk(f, m - 1)
  BY <1>5
<1> DEFINE g == [n \in 1 .. m |-> IF n = m THEN After(f[m - 1]) ELSE f[n]]
<1>7. g \in [1 .. m -> Pointers]
  BY <1>1, <1>5
<1>8. IsWalk(g, m)
  BY <1>4, <1>5, <1>6 DEF IsWalk
<1>9. QED
  BY <1>7, <1>8

\* The regions in order are the walk up to the first null pointer.
LEMMA PathIs ==
  ASSUME TypeOK
  PROVE  \E f \in [1 .. MaxRegions + 1 -> Pointers] :
           /\ IsWalk(f, MaxRegions + 1)
           /\ \E m \in 1 .. MaxRegions + 1 :
                /\ f[m] = NULL \/ m = MaxRegions + 1
                /\ \A k \in 1 .. m - 1 : f[k] # NULL
                /\ Path = [n \in 1 .. m - 1 |-> f[n]]
<1> DEFINE M == MaxRegions + 1
           to[n \in 1 .. M] == IF n = 1 THEN list ELSE After(to[n - 1])
           stops == CHOOSE n \in 1 .. M : /\ to[n] = NULL \/ n = M
                                          /\ \A k \in 1 .. n - 1 : to[k] # NULL
<1>1. Path = SubSeq([n \in 1 .. MaxRegions |-> to[n]], 1, stops - 1)
  BY DEF Path
<1>2. M \in Nat \ {0} /\ MaxRegions \in Nat
  BY AllocatorAssumption
<1>3. to \in [1 .. M -> Pointers] /\ IsWalk(to, M)
  <2>1. PICK f \in [1 .. M -> Pointers] : IsWalk(f, M)
    BY <1>2, WalkExists
  <2>2. f = [n \in 1 .. M |-> IF n = 1 THEN list ELSE After(f[n - 1])]
    BY <2>1 DEF IsWalk
  <2>3. to = [n \in 1 .. M |-> IF n = 1 THEN list ELSE After(to[n - 1])]
    BY <2>2
  <2> HIDE DEF to
  <2>4. \A n \in 1 .. M : to[n] \in Pointers
    <3>1. list \in Pointers /\ \A a : After(a) \in Pointers
      BY DEF TypeOK, After, Pointers
    <3>2. \A n \in 1 .. M : to[n] = IF n = 1 THEN list ELSE After(to[n - 1])
      BY <2>3
    <3>3. QED
      BY <3>1, <3>2
  <2>5. QED
    BY <2>3, <2>4 DEF IsWalk
<1> HIDE DEF to
<1>4. /\ stops \in 1 .. M /\ (to[stops] = NULL \/ stops = M)
      /\ \A k \in 1 .. stops - 1 : to[k] # NULL
  <2> DEFINE Ends == {n \in 1 .. M : to[n] = NULL \/ n = M}
  <2>1. Ends \in SUBSET Nat /\ M \in Ends
    BY <1>2
  <2>2. PICK m \in Ends : \A n \in Ends : m <= n
    BY <2>1, LeastOf
  <2>3. \A k \in 1 .. m - 1 : to[k] # NULL
    BY <1>2, <2>2
  <2>4. QED
    BY <2>2, <2>3
<1> HIDE DEF stops
<1>5. Path = [n \in 1 .. stops - 1 |-> to[n]]
  BY <1>1, <1>2, <1>4
<1>6. QED
  BY <1>3, <1>4, <1>5

-----------------------------------------------------------------------------
(***************************************************************************)
(* r numbers the regions in the order of the list.  Beginnings would not   *)
(* do: a request for nothing makes a region that is empty.                 *)
(***************************************************************************)
\* Region b comes next after a.
Follows(r, a, b) ==
  /\ r[a] < r[b]
  /\ \A c \in DOMAIN r : r[c] <= r[a] \/ r[b] <= r[c]

Linked(h, l, r) ==
  /\ r \in [DOMAIN h -> Nat] /\ l \in DOMAIN h
  /\ \A a, b \in DOMAIN h : r[a] = r[b] => a = b
  /\ \A a \in DOMAIN h : r[l] <= r[a]
  /\ \A a \in DOMAIN h : IF h[a].next = NULL
                           THEN \A b \in DOMAIN h : r[b] <= r[a]
                           ELSE h[a].next \in DOMAIN h /\ Follows(r, a, h[a].next)
  /\ \A a \in DOMAIN h : IF h[a].pre = NULL
                           THEN a = l
                           ELSE h[a].pre \in DOMAIN h /\ h[h[a].pre].next = a

\* next and pre are each other's way back.
LEMMA WaysBack ==
  ASSUME NEW h, NEW l, NEW r, Linked(h, l, r), NULL \notin DOMAIN h
  PROVE  /\ h[l].pre = NULL
         /\ \A a \in DOMAIN h : h[a].next # NULL => h[h[a].next].pre = a
         /\ \A a \in DOMAIN h : h[a].pre # NULL => Follows(r, h[a].pre, a)
<1>1. \A a \in DOMAIN h : r[a] \in Nat
  BY DEF Linked
<1>2. ASSUME NEW a \in DOMAIN h, h[a].pre # NULL PROVE Follows(r, h[a].pre, a)
  <2>1. h[a].pre \in DOMAIN h /\ h[h[a].pre].next = a /\ a # NULL
    BY <1>2 DEF Linked
  <2>2. QED
    BY <2>1 DEF Linked
<1>3. h[l].pre = NULL
  <2>1. SUFFICES ASSUME h[l].pre # NULL PROVE FALSE
    OBVIOUS
  <2>2. l \in DOMAIN h /\ h[l].pre \in DOMAIN h
    BY <2>1 DEF Linked
  <2>3. r[h[l].pre] < r[l] /\ r[l] <= r[h[l].pre]
    BY <1>2, <2>1, <2>2 DEF Linked, Follows
  <2>4. QED
    BY <1>1, <2>2, <2>3
<1>4. ASSUME NEW a \in DOMAIN h, h[a].next # NULL PROVE h[h[a].next].pre = a
  <2> DEFINE b == h[a].next
             c == h[b].pre
  <2>1. b \in DOMAIN h /\ Follows(r, a, b) /\ DOMAIN r = DOMAIN h
    BY <1>4 DEF Linked
  <2>2. c # NULL
    <3>1. SUFFICES ASSUME c = NULL PROVE FALSE
      OBVIOUS
    <3>2. b = l
      BY <2>1, <3>1 DEF Linked
    <3>3. r[b] <= r[a]
      BY <3>2 DEF Linked
    <3>4. QED
      BY <1>1, <2>1, <3>3 DEF Follows
  <2>3. c \in DOMAIN h /\ Follows(r, c, b)
    BY <1>2, <2>1, <2>2 DEF Linked
  <2> HIDE DEF b, c
  <2>4. r[a] = r[c]
    BY <1>1, <2>1, <2>3 DEF Follows
  <2>5. a = c
    BY <2>3, <2>4 DEF Linked
  <2>6. QED
    BY <2>5 DEF b, c
<1>5. QED
  BY <1>2, <1>3, <1>4

\* As long as it has not come to the end, the walk meets a new region at each step.
GoesOn(f, k) == IsWalk(f, k) /\ \A n \in 1 .. k : f[n] \in Pointers \ {NULL}

MeetsNew(f, k) ==
  /\ \A n \in 1 .. k : f[n] \in DOMAIN heap
  /\ \A n \in 1 .. k - 1 : f[n + 1] = heap[f[n]].next
  /\ \A m, n \in 1 .. k : m # n => f[m] # f[n]

LEMMA WalkGrows ==
  ASSUME TypeOK, NEW r, Linked(heap, list, r), NEW k \in Nat, NEW f, GoesOn(f, k)
  PROVE  MeetsNew(f, k)
<1> USE DEF GoesOn, MeetsNew
<1>1. \A n \in 1 .. k : f[n] \in DOMAIN heap
  BY DEF Pointers
<1>2. \A n \in 1 .. k - 1 : f[n + 1] = heap[f[n]].next
  <2> TAKE n \in 1 .. k - 1
  <2>1. n + 1 \in 1 .. k /\ n \in 1 .. k /\ n + 1 # 1 /\ (n + 1) - 1 = n
    OBVIOUS
  <2>2. f[n + 1] = After(f[n])
    BY <2>1 DEF IsWalk
  <2>3. QED
    BY <1>1, <2>1, <2>2 DEF After
<1>3. \A n \in 1 .. k : r[f[n]] \in Nat
  BY <1>1 DEF Linked
<1>4. \A n \in 1 .. k - 1 : r[f[n]] < r[f[n + 1]]
  <2> TAKE n \in 1 .. k - 1
  <2>1. n \in 1 .. k /\ n + 1 \in 1 .. k
    OBVIOUS
  <2>2. f[n] \in DOMAIN heap /\ heap[f[n]].next = f[n + 1] /\ f[n + 1] # NULL
    BY <1>1, <1>2, <2>1
  <2>3. Follows(r, f[n], f[n + 1])
    BY <2>2 DEF Linked
  <2>4. QED
    BY <2>3 DEF Follows
<1>5. \A n, m \in 1 .. k : m < n => r[f[m]] < r[f[n]]
  <2> DEFINE Bad == {n \in 1 .. k : \E m \in 1 .. k : m < n /\ ~ (r[f[m]] < r[f[n]])}
  <2>1. SUFFICES ASSUME Bad # {} PROVE FALSE
    OBVIOUS
  <2>2. PICK n \in Bad : \A x \in Bad : n <= x
    <3>1. Bad \in SUBSET Nat
      OBVIOUS
    <3> HIDE DEF Bad
    <3>2. QED
      BY <2>1, <3>1, LeastOf
  <2>3. PICK m \in 1 .. k : m < n /\ ~ (r[f[m]] < r[f[n]])
    BY <2>2
  <2>4. n - 1 \in 1 .. k - 1 /\ n - 1 \in 1 .. k /\ (n - 1) + 1 = n
    BY <2>2, <2>3
  <2>5. r[f[n - 1]] < r[f[n]]
    BY <1>4, <2>4
  <2>6. n - 1 \notin Bad
    BY <2>2, <2>4
  <2>7. m = n - 1 \/ r[f[m]] < r[f[n - 1]]
    BY <2>3, <2>4, <2>6
  <2> HIDE DEF Bad
  <2>8. n \in 1 .. k
    BY <2>2 DEF Bad
  <2>9. QED
    BY <1>3, <2>3, <2>4, <2>5, <2>7, <2>8
<1>6. \A m, n \in 1 .. k : m # n => f[m] # f[n]
  <2> TAKE m, n \in 1 .. k
  <2>1. m < n \/ n < m \/ m = n
    OBVIOUS
  <2>2. QED
    BY <1>3, <1>5, <2>1
<1>7. QED
  BY <1>1, <1>2, <1>6

(***************************************************************************)
(* The path leads through every region, once.                              *)
(***************************************************************************)
LeadsThrough(h, l, path, k) ==
  /\ k \in Nat \ {0} /\ path \in [1 .. k -> DOMAIN h] /\ Len(path) = k
  /\ path[1] = l /\ h[path[k]].next = NULL
  /\ \A n \in 1 .. k - 1 : path[n + 1] = h[path[n]].next
  /\ \A m, n \in 1 .. k : m # n => path[m] # path[n]
  /\ \A a \in DOMAIN h : \E n \in 1 .. k : path[n] = a

IsPath(path, k) == LeadsThrough(heap, list, path, k)

LEMMA PathWhole ==
  ASSUME TypeOK, NEW r, Linked(heap, list, r)
  PROVE  \E k : IsPath(Path, k)
<1> DEFINE M == MaxRegions + 1
<1>1. PICK f \in [1 .. M -> Pointers], m \in 1 .. M :
        /\ IsWalk(f, M)
        /\ f[m] = NULL \/ m = M
        /\ \A k \in 1 .. m - 1 : f[k] # NULL
        /\ Path = [n \in 1 .. m - 1 |-> f[n]]
  BY PathIs
<1>2. MaxRegions \in Nat \ {0} /\ DOMAIN heap \subseteq 1 .. MaxRegions /\ list \in DOMAIN heap
  BY AllocatorAssumption DEF TypeOK, Addresses
<1>3. NULL \notin DOMAIN heap
  BY <1>2 DEF NULL
<1>4. f[1] = list /\ f[1] # NULL
  <2>1. 1 \in 1 .. M
    BY <1>2
  <2>2. QED
    BY <1>1, <1>2, <1>3, <2>1 DEF IsWalk
<1> DEFINE k == m - 1
<1>5. k \in Nat \ {0} /\ k <= MaxRegions /\ m = k + 1
  <2>1. m # 1
    BY <1>1, <1>2, <1>4
  <2>2. QED
    BY <1>2, <2>1
<1>6. IsWalk(f, k) /\ \A n \in 1 .. k : f[n] \in Pointers \ {NULL}
  BY <1>1, <1>2, <1>5 DEF IsWalk
<1> HIDE DEF k
<1>7. /\ \A n \in 1 .. k : f[n] \in DOMAIN heap
      /\ \A n \in 1 .. k - 1 : f[n + 1] = heap[f[n]].next
      /\ \A i, n \in 1 .. k : i # n => f[i] # f[n]
  <2>1. k \in Nat /\ GoesOn(f, k)
    BY <1>5, <1>6 DEF GoesOn
  <2>2. MeetsNew(f, k)
    BY <2>1, WalkGrows
  <2>3. QED
    BY <2>2 DEF MeetsNew
<1>8. f[m] = heap[f[k]].next
  <2>1. m \in 1 .. M /\ m # 1 /\ m - 1 = k /\ k \in 1 .. k
    BY <1>5
  <2>2. f[m] = After(f[k])
    BY <1>1, <2>1 DEF IsWalk
  <2>3. QED
    BY <1>7, <2>1, <2>2 DEF After
<1>9. f[m] = NULL
  <2>1. SUFFICES ASSUME f[m] # NULL PROVE FALSE
    OBVIOUS
  <2>2. m = M
    BY <1>1, <2>1
  <2>3. \A n \in 1 .. M : f[n] \in Pointers \ {NULL}
    BY <1>1, <2>1, <2>2
  <2>4. M \in Nat /\ GoesOn(f, M)
    BY <1>1, <1>2, <2>3 DEF GoesOn
  <2> HIDE DEF M
  <2>5. /\ \A n \in 1 .. M : f[n] \in DOMAIN heap
        /\ \A i, n \in 1 .. M : i # n => f[i] # f[n]
    <3>1. MeetsNew(f, M)
      BY <2>4, WalkGrows
    <3>2. QED
      BY <3>1 DEF MeetsNew
  <2>6. f \in [1 .. M -> 1 .. MaxRegions]
    BY <1>1, <1>2, <2>5
  <2> USE DEF M
  <2>7. /\ IsFiniteSet(1 .. M) /\ Cardinality(1 .. M) = M
        /\ IsFiniteSet(1 .. MaxRegions) /\ Cardinality(1 .. MaxRegions) = MaxRegions
    BY <1>2, FS_Interval
  <2>8. \E i, n \in 1 .. M : i # n /\ f[i] = f[n]
    <3>1. Cardinality(1 .. MaxRegions) < Cardinality(1 .. M)
      BY <1>2, <2>7
    <3>2. QED
      BY <2>6, <2>7, <3>1, FS_PigeonHole, Zenon
  <2>9. QED
    BY <2>5, <2>8
<1>10. \A a \in DOMAIN heap : \E n \in 1 .. k : f[n] = a
  <2> DEFINE Missed == {a \in DOMAIN heap : \A n \in 1 .. k : f[n] # a}
             Numbers == {r[a] : a \in Missed}
  <2>1. SUFFICES ASSUME Missed # {} PROVE FALSE
    OBVIOUS
  <2>2. Numbers \in SUBSET Nat /\ Numbers # {}
    BY <2>1 DEF Linked
  <2>3. PICK x \in Numbers : \A y \in Numbers : x <= y
    <3> HIDE DEF Numbers
    <3>1. QED
      BY <2>2, LeastOf
  <2>4. PICK a \in Missed : \A b \in Missed : r[a] <= r[b]
    BY <2>3
  <2>5. a # list
    BY <1>4, <1>5
  <2> DEFINE c == heap[a].pre
  <2>6. c \in DOMAIN heap /\ heap[c].next = a /\ c # NULL
    BY <1>3, <2>4, <2>5 DEF Linked
  <2>7. r[c] < r[a] /\ r[c] \in Nat /\ r[a] \in Nat
    <3>1. Follows(r, c, a)
      BY <1>3, <2>6, WaysBack
    <3>2. QED
      BY <2>4, <2>6, <3>1 DEF Linked, Follows
  <2>8. PICK n \in 1 .. k : f[n] = c
    <3>1. c \notin Missed
      BY <2>4, <2>6, <2>7
    <3>2. QED
      BY <2>6, <3>1
  <2>9. a \in DOMAIN heap /\ \A i \in 1 .. k : f[i] # a
    BY <2>4
  <2> HIDE DEF c, Missed
  <2>10. n = k
    <3>1. SUFFICES ASSUME n # k PROVE FALSE
      OBVIOUS
    <3>2. n \in 1 .. k - 1 /\ n + 1 \in 1 .. k
      BY <1>5, <3>1
    <3>3. QED
      BY <1>7, <2>6, <2>8, <2>9, <3>2
  <2>11. QED
    BY <1>3, <1>8, <1>9, <2>6, <2>8, <2>9, <2>10
<1>11. Path = [n \in 1 .. k |-> f[n]]
  BY <1>1 DEF k
<1>12. 1 \in 1 .. k /\ k \in 1 .. k /\ \A n \in 1 .. k - 1 : n \in 1 .. k /\ n + 1 \in 1 .. k
  BY <1>5
<1>13. \A n \in 1 .. k : Path[n] = f[n]
  BY <1>11
<1>14. Path \in [1 .. k -> DOMAIN heap] /\ Len(Path) = k
  BY <1>5, <1>7, <1>11
<1>15. IsPath(Path, k)
  <2>1. Path[1] = list /\ heap[Path[k]].next = NULL
    BY <1>4, <1>8, <1>9, <1>12, <1>13
  <2>2. \A n \in 1 .. k - 1 : Path[n + 1] = heap[Path[n]].next
    BY <1>7, <1>12, <1>13
  <2>3. \A i, n \in 1 .. k : i # n => Path[i] # Path[n]
    BY <1>7, <1>13
  <2>4. \A a \in DOMAIN heap : \E n \in 1 .. k : Path[n] = a
    BY <1>10, <1>13
  <2>5. QED
    BY <1>5, <1>14, <2>1, <2>2, <2>3, <2>4 DEF IsPath, LeadsThrough
<1>16. QED
  BY <1>15

\* There is only one way through a list.
LEMMA OneWay ==
  ASSUME NEW h, NEW l, NULL \notin DOMAIN h, NEW p, NEW k, NEW q, NEW j,
         LeadsThrough(h, l, p, k), LeadsThrough(h, l, q, j)
  PROVE  p = q
<1>1. /\ k \in Nat \ {0} /\ p \in [1 .. k -> DOMAIN h]
      /\ p[1] = l /\ h[p[k]].next = NULL
      /\ \A n \in 1 .. k - 1 : p[n + 1] = h[p[n]].next
  BY DEF LeadsThrough
<1>2. /\ j \in Nat \ {0} /\ q \in [1 .. j -> DOMAIN h]
      /\ q[1] = l /\ h[q[j]].next = NULL
      /\ \A n \in 1 .. j - 1 : q[n + 1] = h[q[n]].next
  BY DEF LeadsThrough
<1> DEFINE Bad == {n \in 1 .. k : n <= j /\ p[n] # q[n]}
<1>3. Bad = {}
  <2>1. SUFFICES ASSUME Bad # {} PROVE FALSE
    OBVIOUS
  <2>2. PICK n \in Bad : \A i \in Bad : n <= i
    <3>1. Bad \in SUBSET Nat
      BY <1>1
    <3> HIDE DEF Bad
    <3>2. QED
      BY <2>1, <3>1, LeastOf
  <2>3. n # 1
    BY <1>1, <1>2, <2>2
  <2>4. n - 1 \in 1 .. k - 1 /\ n - 1 \in 1 .. j - 1 /\ (n - 1) + 1 = n /\ p[n - 1] = q[n - 1]
    BY <1>1, <1>2, <2>2, <2>3
  <2>5. p[n] = q[n]
    BY <1>1, <1>2, <2>4
  <2>6. QED
    BY <2>2, <2>5
<1>4. \A n \in 1 .. k : n <= j => p[n] = q[n]
  BY <1>3
<1>5. ~ (k < j)
  <2>1. SUFFICES ASSUME k < j PROVE FALSE
    OBVIOUS
  <2>2. k \in 1 .. k /\ k \in 1 .. j - 1 /\ k + 1 \in 1 .. j
    BY <1>1, <1>2, <2>1
  <2>3. p[k] = q[k] /\ q[k + 1] = h[q[k]].next /\ q[k + 1] \in DOMAIN h
    BY <1>2, <1>4, <2>1, <2>2
  <2>4. QED
    BY <1>1, <2>3
<1>6. ~ (j < k)
  <2>1. SUFFICES ASSUME j < k PROVE FALSE
    OBVIOUS
  <2>2. j \in 1 .. k /\ j \in 1 .. k - 1 /\ j + 1 \in 1 .. k
    BY <1>1, <1>2, <2>1
  <2>3. p[j] = q[j] /\ p[j + 1] = h[p[j]].next /\ p[j + 1] \in DOMAIN h
    BY <1>1, <1>2, <1>4, <2>1, <2>2
  <2>4. QED
    BY <1>2, <2>3
<1>7. k = j
  BY <1>1, <1>2, <1>5, <1>6
<1>8. \A n \in 1 .. k : p[n] = q[n]
  BY <1>4, <1>7
<1>9. QED
  BY <1>1, <1>2, <1>7, <1>8

\* Where next leads is what makes a path.
LEMMA SameWay ==
  ASSUME NEW h, NEW l, NEW p, NEW k, LeadsThrough(h, l, p, k),
         NEW g, DOMAIN g = DOMAIN h, \A b \in DOMAIN h : g[b].next = h[b].next
  PROVE  LeadsThrough(g, l, p, k)
<1>1. k \in Nat \ {0} /\ p \in [1 .. k -> DOMAIN h]
  BY DEF LeadsThrough
<1>2. \A n \in 1 .. k : g[p[n]].next = h[p[n]].next
  BY <1>1
<1>3. k \in 1 .. k /\ \A n \in 1 .. k - 1 : n \in 1 .. k
  BY <1>1
<1>4. QED
  BY <1>2, <1>3 DEF LeadsThrough

\* Along a path pre leads to the region before.
LEMMA PathBack ==
  ASSUME NEW h, NEW l, NEW r, Linked(h, l, r), NULL \notin DOMAIN h,
         NEW p, NEW k, LeadsThrough(h, l, p, k)
  PROVE  \A n \in 1 .. k : h[p[n]].pre = IF n = 1 THEN NULL ELSE p[n - 1]
<1>1. /\ k \in Nat \ {0} /\ p \in [1 .. k -> DOMAIN h] /\ p[1] = l
      /\ \A n \in 1 .. k - 1 : p[n + 1] = h[p[n]].next
  BY DEF LeadsThrough
<1> TAKE n \in 1 .. k
<1>2. CASE n = 1
  BY <1>1, <1>2, WaysBack
<1>3. CASE n # 1
  <2>1. n - 1 \in 1 .. k - 1 /\ n - 1 \in 1 .. k /\ (n - 1) + 1 = n
    BY <1>1, <1>3
  <2>2. p[n - 1] \in DOMAIN h /\ p[n] \in DOMAIN h /\ h[p[n - 1]].next = p[n]
    BY <1>1, <2>1
  <2>3. QED
    BY <1>3, <2>2, WaysBack
<1>4. QED
  BY <1>2, <1>3

\* Unused region b comes right behind another one.
Pair(h, b) == h[b].pre # NULL /\ h[b].name = Unused /\ h[h[b].pre].name = Unused

\* There may be such pairs only where release is still to come.
Apart(r) ==
  \A b \in DOMAIN heap :
    Pair(heap, b) => pc = "release" /\ cur # NULL /\ r[cur] <= r[b]

AllocatorInv ==
  /\ TypeOK
  /\ pc # "release" => cur = NULL
  /\ \E r : Linked(heap, list, r) /\ Apart(r)

LEMMA NoNull == TypeOK => NULL \notin DOMAIN heap
BY AllocatorAssumption DEF TypeOK, Addresses, NULL

\* What the two properties say follows.
LEMMA WholeAndApart ==
  ASSUME AllocatorInv
  PROVE  ListWhole /\ UnusedApart
<1>1. TypeOK /\ NULL \notin DOMAIN heap
  BY NoNull DEF AllocatorInv
<1>2. PICK r : Linked(heap, list, r) /\ Apart(r)
  BY DEF AllocatorInv
<1>3. PICK k : IsPath(Path, k)
  BY <1>1, <1>2, PathWhole
<1> DEFINE path == Path
<1>4. /\ k \in Nat \ {0} /\ path \in [1 .. k -> DOMAIN heap] /\ Len(path) = k
      /\ path[1] = list /\ heap[path[k]].next = NULL
      /\ \A n \in 1 .. k - 1 : path[n + 1] = heap[path[n]].next
      /\ \A m, n \in 1 .. k : m # n => path[m] # path[n]
      /\ \A a \in DOMAIN heap : \E n \in 1 .. k : path[n] = a
  BY <1>3 DEF IsPath, LeadsThrough
<1> HIDE DEF path
<1>5. Cardinality(DOMAIN heap) = k
  <2>1. path \in Bijection(1 .. k, DOMAIN heap)
    BY <1>4 DEF Bijection, Injection, Surjection, IsInjective
  <2>2. ExistsBijection(1 .. k, DOMAIN heap)
    BY <2>1 DEF ExistsBijection
  <2>3. QED
    BY <1>4, <2>2, FS_CountingElements
<1>6. \A n \in 1 .. k : heap[path[n]].pre = IF n = 1 THEN NULL ELSE path[n - 1]
  BY <1>1, <1>2, <1>3, PathBack DEF IsPath, path
<1>7. ListWhole
  <2>1. DOMAIN path = 1 .. k
    BY <1>4
  <2>2. QED
    BY <1>4, <1>5, <1>6, <2>1 DEF ListWhole, path
<1>8. UnusedApart
  <2>1. SUFFICES ASSUME pc # "release", NEW n \in 1 .. k - 1,
                        heap[path[n]].name = Unused, heap[path[n + 1]].name = Unused
                 PROVE  FALSE
    BY <1>4 DEF UnusedApart, path
  <2>2. n + 1 \in 1 .. k /\ n \in 1 .. k /\ n + 1 # 1 /\ (n + 1) - 1 = n
    BY <1>4
  <2>3. path[n] \in DOMAIN heap /\ path[n + 1] \in DOMAIN heap /\ heap[path[n + 1]].pre = path[n]
    BY <1>4, <1>6, <2>2
  <2>4. Pair(heap, path[n + 1])
    BY <1>1, <2>1, <2>3 DEF Pair
  <2>5. QED
    BY <1>2, <2>1, <2>3, <2>4 DEF Apart
<1>9. QED
  BY <1>7, <1>8

-----------------------------------------------------------------------------
\* The first of those that have the least value.
LEMMA FirstLeast ==
  ASSUME NEW S \in SUBSET Nat, S # {}, NEW g \in [S -> Nat]
  PROVE  \E n \in S : \A k \in S \ {n} : g[n] < g[k] \/ (g[n] = g[k] /\ n < k)
<1> DEFINE Values == {g[n] : n \in S}
<1>1. Values \in SUBSET Nat /\ Values # {}
  OBVIOUS
<1>2. PICK v \in Values : \A w \in Values : v <= w
  <2> HIDE DEF Values
  <2>1. QED
    BY <1>1, LeastOf
<1> DEFINE Best == {n \in S : g[n] = v}
<1>3. Best \in SUBSET Nat /\ Best # {}
  BY <1>2
<1>4. PICK n \in Best : \A k \in Best : n <= k
  <2> HIDE DEF Best
  <2>1. QED
    BY <1>3, LeastOf
<1>5. \A k \in S \ {n} : g[n] < g[k] \/ (g[n] = g[k] /\ n < k)
  <2> TAKE k \in S \ {n}
  <2>1. n \in S /\ g[n] = v /\ g[n] \in Nat /\ g[k] \in Nat /\ n \in Nat /\ k \in Nat /\ n # k
    BY <1>4
  <2>2. v <= g[k]
    BY <1>2
  <2>3. g[k] = v => n <= k
    BY <1>4
  <2>4. QED
    BY <2>1, <2>2, <2>3
<1>6. QED
  BY <1>4, <1>5

\* Every strategy takes a region that is unused and large enough.
LEMMA ChosenFits ==
  ASSUME TypeOK, NEW k, IsPath(Path, k), NEW size \in Int, Fitting(Path, size) # {},
         NEW strategy \in {"F", "B", "W"}
  PROVE  LET a == Chosen(Path, size, strategy)
         IN  a \in DOMAIN heap /\ heap[a].name = Unused /\ 0 <= size /\ size <= SizeOf(a)
<1> DEFINE path == Path
           S == Fitting(path, size)
<1>1. k \in Nat /\ path \in [1 .. k -> DOMAIN heap]
  BY DEF IsPath, LeadsThrough
<1> HIDE DEF path
<1>2. S \in SUBSET Nat /\ S # {}
  BY <1>1 DEF Fitting, path
<1>3. \A n \in S : /\ path[n] \in DOMAIN heap /\ heap[path[n]].name = Unused
                   /\ 0 <= size /\ size <= SizeOf(path[n])
  BY <1>1 DEF Fitting
<1>4. \A n \in S : SizeOf(path[n]) \in Nat /\ memorySize - SizeOf(path[n]) \in Nat
  <2> TAKE n \in S
  <2>1. heap[path[n]].begin \in 0 .. memorySize /\ heap[path[n]].end \in -1 .. memorySize - 1
    BY <1>3 DEF TypeOK
  <2>2. memorySize \in Nat
    BY AllocatorAssumption
  <2>3. 0 <= SizeOf(path[n])
    BY <1>3, <2>1, <2>2 DEF SizeOf
  <2>4. QED
    BY <2>1, <2>2, <2>3 DEF SizeOf
<1> HIDE DEF S
<1>5. \E n \in S : \A m \in S \ {n} : Preferred(strategy, path[n], n, path[m], m)
  <2>1. CASE strategy = "F"
    <3> DEFINE g == [n \in S |-> 0]
    <3>1. g \in [S -> Nat]
      OBVIOUS
    <3>2. PICK n \in S : \A m \in S \ {n} : g[n] < g[m] \/ (g[n] = g[m] /\ n < m)
      <4> HIDE DEF g
      <4>1. QED
        BY <1>2, <3>1, FirstLeast
    <3>3. \A m \in S \ {n} : n < m
      BY <3>2
    <3>4. QED
      BY <2>1, <3>3 DEF Preferred
  <2>2. CASE strategy = "B"
    <3> DEFINE g == [n \in S |-> memorySize - SizeOf(path[n])]
    <3>1. g \in [S -> Nat]
      BY <1>4
    <3>2. PICK n \in S : \A m \in S \ {n} : g[n] < g[m] \/ (g[n] = g[m] /\ n < m)
      <4> HIDE DEF g
      <4>1. QED
        BY <1>2, <3>1, FirstLeast
    <3>3. \A m \in S \ {n} : \/ SizeOf(path[n]) > SizeOf(path[m])
                             \/ SizeOf(path[n]) = SizeOf(path[m]) /\ n < m
      BY <1>4, <3>2, AllocatorAssumption
    <3>4. QED
      BY <2>2, <3>3 DEF Preferred
  <2>3. CASE strategy = "W"
    <3> DEFINE g == [n \in S |-> SizeOf(path[n])]
    <3>1. g \in [S -> Nat]
      BY <1>4
    <3>2. PICK n \in S : \A m \in S \ {n} : g[n] < g[m] \/ (g[n] = g[m] /\ n < m)
      <4> HIDE DEF g
      <4>1. QED
        BY <1>2, <3>1, FirstLeast
    <3>3. QED
      BY <2>3, <3>2 DEF Preferred
  <2>4. QED
    BY <2>1, <2>2, <2>3
<1>6. \E n \in S : Chosen(path, size, strategy) = path[n]
  BY <1>5 DEF Chosen, S
<1>7. QED
  BY <1>3, <1>6 DEF path

\* malloc has an address as long as there are fewer regions than there may be.
LEMMA NewAddressFacts ==
  ASSUME TypeOK, Cardinality(DOMAIN heap) < MaxRegions
  PROVE  NewAddress \in Addresses \ DOMAIN heap
<1>1. MaxRegions \in Nat /\ DOMAIN heap \subseteq Addresses
  BY AllocatorAssumption DEF TypeOK
<1>2. Cardinality(Addresses) = MaxRegions
  BY <1>1, FS_Interval DEF Addresses
<1>3. Addresses \ DOMAIN heap # {}
  BY <1>1, <1>2
<1>4. \E a \in Addresses \ DOMAIN heap : \A b \in Addresses \ DOMAIN heap : a <= b
  <2>1. Addresses \ DOMAIN heap \in SUBSET Nat
    BY <1>1 DEF Addresses
  <2>2. QED
    BY <1>3, <2>1, LeastOf
<1>5. QED
  BY <1>4 DEF NewAddress

-----------------------------------------------------------------------------
Region(P) ==
  [begin : 0 .. memorySize, end : -1 .. memorySize - 1, name : Names \cup {Unused},
   pre : P, next : P]

\* Only names differ, and fewer regions are unused.
LEMMA Renamed ==
  ASSUME NEW h, NEW g, NEW l, NEW r, Linked(h, l, r), DOMAIN g = DOMAIN h,
         \A b \in DOMAIN h : g[b].pre = h[b].pre /\ g[b].next = h[b].next
  PROVE  Linked(g, l, r)
BY DEF Linked

\* What a split makes of the regions: one is new, behind region a.
IsSplit(g, a, new, size, process) ==
  /\ DOMAIN g = DOMAIN heap \cup {new}
  /\ g[new].next = heap[a].next /\ g[new].pre = a /\ g[new].name = Unused
  /\ g[new].begin = heap[a].begin + size /\ g[new].end = heap[a].end
  /\ g[a].next = new /\ g[a].pre = heap[a].pre /\ g[a].name = process
  /\ g[a].begin = heap[a].begin /\ g[a].end = heap[a].begin + size - 1
  /\ \A b \in DOMAIN heap \ {a} :
       /\ g[b].next = heap[b].next /\ g[b].name = heap[b].name
       /\ g[b].begin = heap[b].begin /\ g[b].end = heap[b].end
       /\ g[b].pre = IF b = heap[a].next THEN new ELSE heap[b].pre

LEMMA SplitFacts ==
  ASSUME TypeOK, Cardinality(DOMAIN heap) < MaxRegions,
         NEW a \in DOMAIN heap, heap[a].next # a,
         NEW size \in Int, 0 <= size, size < SizeOf(a), NEW process \in Names
  PROVE  LET new == NewAddress
             g   == Split(a, size, process)
         IN  /\ new \in Addresses \ DOMAIN heap
             /\ IsSplit(g, a, new, size, process)
             /\ g \in [DOMAIN g -> Region(DOMAIN g \cup {NULL})]
<1> DEFINE new == NewAddress
           g   == Split(a, size, process)
           rest == [begin |-> heap[a].begin + size, end |-> heap[a].end, name |-> Unused,
                    pre |-> a, next |-> heap[a].next]
           front == [heap[a] EXCEPT !.name = process, !.next = new,
                                    !.end = heap[a].begin + size - 1]
           P == DOMAIN heap \cup {new, NULL}
<1>1. new \in Addresses \ DOMAIN heap
  BY NewAddressFacts
<1>2. g = [b \in DOMAIN heap \cup {new} |->
             CASE b = new          -> rest
               [] b = a            -> front
               [] b = heap[a].next -> [heap[b] EXCEPT !.pre = new]
               [] OTHER            -> heap[b]]
  BY DEF Split
<1> HIDE DEF g, new
<1>3. \A b \in DOMAIN heap : heap[b] \in Region(DOMAIN heap \cup {NULL})
  BY DEF TypeOK, Region
<1>4. \A b \in DOMAIN heap : heap[b] \in Region(P)
  BY <1>3 DEF Region
<1>5. /\ heap[a].begin \in 0 .. memorySize /\ heap[a].end \in -1 .. memorySize - 1
      /\ memorySize \in Nat /\ size < heap[a].end - heap[a].begin + 1
  BY <1>3, AllocatorAssumption DEF Region, SizeOf
<1>6. /\ rest \in Region(P)
      /\ rest.next = heap[a].next /\ rest.pre = a /\ rest.name = Unused
      /\ rest.begin = heap[a].begin + size /\ rest.end = heap[a].end
  <2>1. heap[a].next \in P /\ a \in P
    BY <1>4 DEF Region
  <2>2. heap[a].begin + size \in 0 .. memorySize
    BY <1>5
  <2>3. QED
    BY <1>5, <2>1, <2>2 DEF Region
<1>7. /\ front \in Region(P)
      /\ front.next = new /\ front.pre = heap[a].pre /\ front.name = process
      /\ front.begin = heap[a].begin /\ front.end = heap[a].begin + size - 1
  <2>1. heap[a].begin + size - 1 \in -1 .. memorySize - 1
    BY <1>5
  <2>2. QED
    BY <1>4, <2>1 DEF Region
<1>8. ASSUME NEW b \in DOMAIN heap
      PROVE  LET after == [heap[b] EXCEPT !.pre = new]
             IN  /\ after \in Region(P)
                 /\ after.next = heap[b].next /\ after.pre = new /\ after.name = heap[b].name
                 /\ after.begin = heap[b].begin /\ after.end = heap[b].end
  BY <1>4 DEF Region
<1> HIDE DEF rest, front
<1>9. DOMAIN g = DOMAIN heap \cup {new} /\ DOMAIN g \cup {NULL} = P
  BY <1>2
<1>10. g[new] = rest /\ g[a] = front
  <2>1. a # new /\ new \in DOMAIN g /\ a \in DOMAIN g
    BY <1>1, <1>9
  <2>2. heap[a].next # new
    BY <1>1, AllocatorAssumption DEF TypeOK, Addresses, NULL
  <2>3. g[new] = rest
    BY <1>2, <2>1, <2>2
  <2>4. g[a] = front
    BY <1>2, <2>1
  <2>5. QED
    BY <2>3, <2>4
<1>11. \A b \in DOMAIN heap \ {a} :
         g[b] = IF b = heap[a].next THEN [heap[b] EXCEPT !.pre = new] ELSE heap[b]
  BY <1>1, <1>2
<1>12. \A b \in DOMAIN heap \ {a} :
         /\ g[b] \in Region(P)
         /\ g[b].next = heap[b].next /\ g[b].name = heap[b].name
         /\ g[b].begin = heap[b].begin /\ g[b].end = heap[b].end
         /\ g[b].pre = IF b = heap[a].next THEN new ELSE heap[b].pre
  <2> TAKE b \in DOMAIN heap \ {a}
  <2>1. CASE b = heap[a].next
    <3>1. g[b] = [heap[b] EXCEPT !.pre = new]
      BY <1>11, <2>1
    <3>2. /\ g[b] \in Region(P)
          /\ g[b].next = heap[b].next /\ g[b].pre = new /\ g[b].name = heap[b].name
          /\ g[b].begin = heap[b].begin /\ g[b].end = heap[b].end
      BY <1>8, <3>1
    <3>3. QED
      BY <2>1, <3>2
  <2>2. CASE b # heap[a].next
    <3>1. g[b] = heap[b]
      BY <1>11, <2>2
    <3>2. QED
      BY <1>4, <2>2, <3>1
  <2>3. QED
    BY <2>1, <2>2
<1>13. \A b \in DOMAIN g : g[b] \in Region(DOMAIN g \cup {NULL})
  <2> TAKE b \in DOMAIN g
  <2> HIDE DEF P
  <2>1. b = new \/ b = a \/ b \in DOMAIN heap \ {a}
    BY <1>9
  <2>2. CASE b = new
    BY <1>6, <1>9, <1>10, <2>2
  <2>3. CASE b = a
    BY <1>7, <1>9, <1>10, <2>3
  <2>4. CASE b \in DOMAIN heap \ {a}
    BY <1>9, <1>12, <2>4
  <2>5. QED
    BY <2>1, <2>2, <2>3, <2>4
<1>14. g \in [DOMAIN g -> Region(DOMAIN g \cup {NULL})]
  <2>1. g = [b \in DOMAIN g |-> g[b]]
    BY <1>2
  <2> DEFINE D == DOMAIN g
             R == Region(DOMAIN g \cup {NULL})
  <2> HIDE DEF D, R
  <2>2. g = [b \in D |-> g[b]] /\ \A b \in D : g[b] \in R
    BY <1>13, <2>1 DEF D, R
  <2>3. QED
    BY <2>2 DEF D, R
<1>15. IsSplit(g, a, new, size, process)
  BY <1>6, <1>7, <1>9, <1>10, <1>12 DEF IsSplit
<1>16. QED
  BY <1>1, <1>14, <1>15 DEF g, new

\* Only the region split is unused, and none beside it: still there is no pair.
LEMMA SplitStep ==
  ASSUME NULL \notin DOMAIN heap, NEW r, Linked(heap, list, r),
         \A b \in DOMAIN heap : ~ Pair(heap, b),
         NEW a \in DOMAIN heap, heap[a].name = Unused,
         NEW new, new \notin DOMAIN heap, new # NULL,
         NEW size, NEW process, process # Unused,
         NEW g, IsSplit(g, a, new, size, process)
  PROVE  /\ \E s : Linked(g, list, s)
         /\ \A b \in DOMAIN g : ~ Pair(g, b)
<1> DEFINE s == [b \in DOMAIN g |->
                   IF b = new THEN r[a] + 1 ELSE IF r[b] <= r[a] THEN r[b] ELSE r[b] + 1]
<1> USE DEF IsSplit
<1>1. /\ DOMAIN r = DOMAIN heap /\ \A b \in DOMAIN heap : r[b] \in Nat
      /\ \A b, c \in DOMAIN heap : r[b] = r[c] => b = c
      /\ list \in DOMAIN heap /\ \A b \in DOMAIN heap : r[list] <= r[b]
  BY DEF Linked
<1>2. /\ heap[list].pre = NULL
      /\ \A b \in DOMAIN heap : heap[b].next # NULL => heap[heap[b].next].pre = b
      /\ \A b \in DOMAIN heap : heap[b].pre # NULL => Follows(r, heap[b].pre, b)
  BY WaysBack
<1>3. /\ s \in [DOMAIN g -> Nat] /\ s[new] = r[a] + 1
      /\ \A b \in DOMAIN heap : s[b] = IF r[b] <= r[a] THEN r[b] ELSE r[b] + 1
  BY <1>1
<1> HIDE DEF s
<1>4. \A b, c \in DOMAIN g : s[b] = s[c] => b = c
  BY <1>1, <1>3
<1>5. \A b \in DOMAIN g : s[list] <= s[b]
  BY <1>1, <1>3
<1>6. ASSUME NEW b \in DOMAIN g
      PROVE  IF g[b].next = NULL THEN \A c \in DOMAIN g : s[c] <= s[b]
                                 ELSE g[b].next \in DOMAIN g /\ Follows(s, b, g[b].next)
  <2>1. CASE b = a
    BY <1>1, <1>3, <2>1 DEF Follows
  <2>2. CASE b = new
    <3>1. CASE heap[a].next = NULL
      BY <1>1, <1>3, <2>2, <3>1 DEF Linked
    <3>2. CASE heap[a].next # NULL
      <4>1. heap[a].next \in DOMAIN heap /\ Follows(r, a, heap[a].next)
        BY <3>2 DEF Linked
      <4>2. QED
        BY <1>1, <1>3, <2>2, <3>2, <4>1 DEF Follows
    <3>3. QED
      BY <3>1, <3>2
  <2>3. CASE b \in DOMAIN heap \ {a}
    <3>1. g[b].next = heap[b].next /\ r[b] # r[a]
      BY <1>1, <2>3
    <3>2. CASE heap[b].next = NULL
      <4>1. \A c \in DOMAIN heap : r[c] <= r[b]
        BY <2>3, <3>2 DEF Linked
      <4>2. QED
        BY <1>1, <1>3, <2>3, <3>1, <3>2, <4>1
    <3>3. CASE heap[b].next # NULL
      <4>1. heap[b].next \in DOMAIN heap /\ Follows(r, b, heap[b].next)
        BY <2>3, <3>3 DEF Linked
      <4>2. QED
        BY <1>1, <1>3, <2>3, <3>1, <3>3, <4>1 DEF Follows
    <3>4. QED
      BY <3>2, <3>3
  <2>4. QED
    BY <2>1, <2>2, <2>3
<1>7. ASSUME NEW b \in DOMAIN g
      PROVE  IF g[b].pre = NULL THEN b = list
                                ELSE g[b].pre \in DOMAIN g /\ g[g[b].pre].next = b
  <2>1. CASE b = new
    BY <2>1
  <2>2. CASE b \in DOMAIN heap /\ b = heap[a].next
    <3>1. b # a
      BY <1>1, <2>2 DEF Linked, Follows
    <3>2. QED
      BY <2>2, <3>1
  <2>3. CASE b \in DOMAIN heap /\ b # heap[a].next
    <3>1. g[b].pre = heap[b].pre
      BY <2>3
    <3>2. CASE heap[b].pre = NULL
      BY <2>3, <3>1, <3>2 DEF Linked
    <3>3. CASE heap[b].pre # NULL
      <4>1. heap[b].pre \in DOMAIN heap /\ heap[heap[b].pre].next = b
        BY <2>3, <3>3 DEF Linked
      <4>2. heap[b].pre # a
        BY <2>3, <4>1
      <4>3. QED
        BY <3>1, <3>3, <4>1, <4>2
    <3>4. QED
      BY <3>2, <3>3
  <2>4. QED
    BY <2>1, <2>2, <2>3
<1>8. Linked(g, list, s)
  BY <1>1, <1>3, <1>4, <1>5, <1>6, <1>7 DEF Linked
<1>9. ASSUME NEW b \in DOMAIN g, Pair(g, b) PROVE FALSE
  <2>1. b # new /\ b # a /\ b \in DOMAIN heap /\ heap[b].name = Unused
    BY <1>9 DEF Pair
  <2>2. CASE b = heap[a].next
    <3>1. heap[b].pre = a /\ a # NULL
      BY <1>1, <1>2, <2>1, <2>2
    <3>2. QED
      BY <2>1, <3>1 DEF Pair
  <2>3. CASE b # heap[a].next
    <3>1. g[b].pre = heap[b].pre /\ heap[b].pre # NULL /\ g[heap[b].pre].name = Unused
      BY <1>9, <2>1, <2>3 DEF Pair
    <3>2. heap[b].pre \in DOMAIN heap /\ heap[b].pre # a
      BY <2>1, <3>1 DEF Linked
    <3>3. QED
      BY <2>1, <3>1, <3>2 DEF Pair
  <2>4. QED
    BY <2>2, <2>3
<1>10. QED
  BY <1>8, <1>9

\* What a join makes of the regions h: region t before region a is gone.
IsJoined(g, h, a, t) ==
  /\ DOMAIN g = DOMAIN h \ {t}
  /\ g[a].next = h[a].next /\ g[a].pre = h[t].pre /\ g[a].name = h[a].name
  /\ g[a].begin = h[t].begin /\ g[a].end = h[a].end
  /\ \A b \in DOMAIN h \ {a, t} :
       /\ g[b].pre = h[b].pre /\ g[b].name = h[b].name
       /\ g[b].begin = h[b].begin /\ g[b].end = h[b].end
       /\ g[b].next = IF b = h[t].pre THEN a ELSE h[b].next
  /\ g \in [DOMAIN g -> Region(DOMAIN h \cup {NULL})]

LEMMA JoinFacts ==
  ASSUME NEW h, \A b \in DOMAIN h : h[b] \in Region(DOMAIN h \cup {NULL}),
         NEW a \in DOMAIN h, NEW t \in DOMAIN h, t = h[a].pre, h[t].pre # a, a # t,
         NEW g, g = JoinedToPre(h, a)
  PROVE  IsJoined(g, h, a, t)
<1> DEFINE P == DOMAIN h \cup {NULL}
           whole == [h[a] EXCEPT !.pre = h[t].pre, !.begin = h[t].begin]
<1>1. g = [b \in DOMAIN h \ {t} |->
             CASE b = a        -> whole
               [] b = h[t].pre -> [h[b] EXCEPT !.next = a]
               [] OTHER        -> h[b]]
  BY DEF JoinedToPre
<1>2. h[t].pre \in P /\ h[t].begin \in 0 .. memorySize /\ h[a] \in Region(P) /\ a \in P
  BY DEF Region
<1>3. /\ whole \in Region(P)
      /\ whole.next = h[a].next /\ whole.pre = h[t].pre /\ whole.name = h[a].name
      /\ whole.begin = h[t].begin /\ whole.end = h[a].end
  BY <1>2 DEF Region
<1>4. ASSUME NEW b \in DOMAIN h
      PROVE  LET before == [h[b] EXCEPT !.next = a]
             IN  /\ before \in Region(P)
                 /\ before.next = a /\ before.pre = h[b].pre /\ before.name = h[b].name
                 /\ before.begin = h[b].begin /\ before.end = h[b].end
  BY <1>2 DEF Region
<1> HIDE DEF whole, P
<1>5. DOMAIN g = DOMAIN h \ {t}
  BY <1>1
<1>6. g[a] = whole
  BY <1>1
<1>7. \A b \in DOMAIN h \ {a, t} :
        g[b] = IF b = h[t].pre THEN [h[b] EXCEPT !.next = a] ELSE h[b]
  BY <1>1
<1>8. \A b \in DOMAIN h \ {a, t} :
        /\ g[b] \in Region(P)
        /\ g[b].pre = h[b].pre /\ g[b].name = h[b].name
        /\ g[b].begin = h[b].begin /\ g[b].end = h[b].end
        /\ g[b].next = IF b = h[t].pre THEN a ELSE h[b].next
  <2> TAKE b \in DOMAIN h \ {a, t}
  <2>1. CASE b = h[t].pre
    <3>1. g[b] = [h[b] EXCEPT !.next = a]
      BY <1>7, <2>1
    <3>2. /\ g[b] \in Region(P)
          /\ g[b].next = a /\ g[b].pre = h[b].pre /\ g[b].name = h[b].name
          /\ g[b].begin = h[b].begin /\ g[b].end = h[b].end
      BY <1>4, <3>1
    <3>3. QED
      BY <2>1, <3>2
  <2>2. CASE b # h[t].pre
    <3>1. g[b] = h[b]
      BY <1>7, <2>2
    <3>2. QED
      BY <2>2, <3>1 DEF P
  <2>3. QED
    BY <2>1, <2>2
<1>9. \A b \in DOMAIN g : g[b] \in Region(P)
  <2> TAKE b \in DOMAIN g
  <2>1. b = a \/ b \in DOMAIN h \ {a, t}
    BY <1>5
  <2>2. QED
    BY <1>3, <1>6, <1>8, <2>1
<1>10. g \in [DOMAIN g -> Region(P)]
  <2>1. g = [b \in DOMAIN g |-> g[b]]
    BY <1>1
  <2> DEFINE D == DOMAIN g
             R == Region(P)
  <2> HIDE DEF D, R
  <2>2. g = [b \in D |-> g[b]] /\ \A b \in D : g[b] \in R
    BY <1>9, <2>1 DEF D, R
  <2>3. QED
    BY <2>2 DEF D, R
<1>11. QED
  BY <1>3, <1>5, <1>6, <1>8, <1>10 DEF P, IsJoined

\* The region before a is taken out of the list.
LEMMA JoinStep ==
  ASSUME NEW h, NEW l, NEW r, Linked(h, l, r), NULL \notin DOMAIN h,
         NEW a \in DOMAIN h, NEW t \in DOMAIN h, t = h[a].pre,
         NEW g, DOMAIN g = DOMAIN h \ {t},
         g[a].next = h[a].next, g[a].pre = h[t].pre,
         \A b \in DOMAIN h \ {a, t} :
           g[b].pre = h[b].pre /\ g[b].next = IF b = h[t].pre THEN a ELSE h[b].next
  PROVE  Linked(g, IF h[t].pre = NULL THEN a ELSE l, [b \in DOMAIN g |-> r[b]])
<1> DEFINE s == [b \in DOMAIN g |-> r[b]]
           m == IF h[t].pre = NULL THEN a ELSE l
<1>1. /\ DOMAIN r = DOMAIN h /\ \A b \in DOMAIN h : r[b] \in Nat
      /\ \A b, c \in DOMAIN h : r[b] = r[c] => b = c
      /\ l \in DOMAIN h /\ \A b \in DOMAIN h : r[l] <= r[b]
  BY DEF Linked
<1>2. /\ h[l].pre = NULL
      /\ \A b \in DOMAIN h : h[b].next # NULL => h[h[b].next].pre = b
      /\ \A b \in DOMAIN h : h[b].pre # NULL => Follows(r, h[b].pre, b)
  BY WaysBack
<1>3. s \in [DOMAIN g -> Nat] /\ DOMAIN s = DOMAIN g /\ \A b \in DOMAIN g : s[b] = r[b]
  BY <1>1
<1>4. /\ t # NULL /\ Follows(r, t, a) /\ h[t].next = a
      /\ r[t] < r[a] /\ t # a /\ a \in DOMAIN g
  <2>1. t # NULL /\ Follows(r, t, a) /\ h[t].next = a
    BY <1>2 DEF Linked
  <2>2. r[t] < r[a]
    BY <2>1 DEF Follows
  <2>3. QED
    BY <1>1, <2>1, <2>2
<1> HIDE DEF s
<1>5. h[t].pre # NULL => h[t].pre \in DOMAIN g /\ h[t].pre # a /\ Follows(r, h[t].pre, t)
  <2>1. SUFFICES ASSUME h[t].pre # NULL
                 PROVE  h[t].pre \in DOMAIN g /\ h[t].pre # a /\ Follows(r, h[t].pre, t)
    OBVIOUS
  <2>2. h[t].pre \in DOMAIN h /\ Follows(r, h[t].pre, t)
    BY <1>2, <2>1 DEF Linked
  <2>3. r[h[t].pre] < r[t]
    BY <2>2 DEF Follows
  <2>4. QED
    BY <1>1, <1>4, <2>2, <2>3
<1>6. m \in DOMAIN g /\ \A b \in DOMAIN g : s[m] <= s[b]
  <2>1. CASE h[t].pre = NULL
    <3>1. t = l
      BY <2>1 DEF Linked
    <3>2. \A b \in DOMAIN g : r[a] <= r[b]
      BY <1>1, <1>4, <3>1 DEF Follows
    <3>3. QED
      BY <1>3, <1>4, <2>1, <3>2
  <2>2. CASE h[t].pre # NULL
    <3>1. l # t
      BY <1>2, <2>2
    <3>2. QED
      BY <1>1, <1>3, <2>2, <3>1
  <2>3. QED
    BY <2>1, <2>2
<1>7. ASSUME NEW b \in DOMAIN g
      PROVE  IF g[b].next = NULL THEN \A c \in DOMAIN g : s[c] <= s[b]
                                 ELSE g[b].next \in DOMAIN g /\ Follows(s, b, g[b].next)
  <2>1. CASE b # a /\ b = h[t].pre
    <3>1. g[b].next = a /\ Follows(r, b, t) /\ a # NULL
      BY <1>4, <1>5, <2>1
    <3>2. Follows(s, b, a)
      BY <1>1, <1>3, <1>4, <3>1 DEF Follows
    <3>3. QED
      BY <1>4, <3>1, <3>2
  <2>2. CASE b = a \/ b # h[t].pre
    <3>1. g[b].next = h[b].next
      BY <2>2
    <3>2. CASE h[b].next = NULL
      <4>1. \A c \in DOMAIN h : r[c] <= r[b]
        BY <3>2 DEF Linked
      <4>2. QED
        BY <1>3, <3>1, <3>2, <4>1
    <3>3. CASE h[b].next # NULL
      <4>1. h[b].next \in DOMAIN h /\ Follows(r, b, h[b].next) /\ h[h[b].next].pre = b
        BY <1>2, <3>3 DEF Linked
      <4>2. h[b].next # t
        BY <1>1, <1>4, <2>2, <4>1 DEF Follows
      <4>3. Follows(s, b, h[b].next)
        BY <1>1, <1>3, <4>1, <4>2 DEF Follows
      <4>4. QED
        BY <3>1, <3>3, <4>1, <4>2, <4>3
    <3>4. QED
      BY <3>2, <3>3
  <2>3. QED
    BY <2>1, <2>2
<1>8. ASSUME NEW b \in DOMAIN g
      PROVE  IF g[b].pre = NULL THEN b = m
                                ELSE g[b].pre \in DOMAIN g /\ g[g[b].pre].next = b
  <2>1. CASE b = a
    BY <1>5, <2>1
  <2>2. CASE b # a
    <3>1. g[b].pre = h[b].pre /\ b \in DOMAIN h /\ b # t
      BY <2>2
    <3>2. CASE h[b].pre = NULL
      <4>1. b = l
        BY <3>1, <3>2 DEF Linked
      <4>2. h[t].pre # NULL
        <5>1. SUFFICES ASSUME h[t].pre = NULL PROVE FALSE
          OBVIOUS
        <5>2. t = l
          BY <5>1 DEF Linked
        <5>3. QED
          BY <3>1, <4>1, <5>2
      <4>3. QED
        BY <3>1, <3>2, <4>1, <4>2
    <3>3. CASE h[b].pre # NULL
      <4>1. h[b].pre \in DOMAIN h /\ h[h[b].pre].next = b
        BY <3>1, <3>3 DEF Linked
      <4>2. h[b].pre # t
        BY <1>4, <2>2, <4>1
      <4>3. h[b].pre # a => h[b].pre # h[t].pre
        <5>1. SUFFICES ASSUME h[b].pre = h[t].pre PROVE FALSE
          OBVIOUS
        <5>2. h[h[t].pre].next = t
          BY <3>3, <5>1 DEF Linked
        <5>3. QED
          BY <3>1, <4>1, <5>1, <5>2
      <4>4. QED
        BY <3>1, <3>3, <4>1, <4>2, <4>3
    <3>4. QED
      BY <3>2, <3>3
  <2>3. QED
    BY <2>1, <2>2
<1>9. \A b, c \in DOMAIN g : s[b] = s[c] => b = c
  BY <1>1, <1>3
<1>10. Linked(g, m, s)
  BY <1>3, <1>6, <1>7, <1>8, <1>9 DEF Linked
<1>11. QED
  BY <1>10 DEF s

-----------------------------------------------------------------------------
LEMMA InitHolds == Init => AllocatorInv
<1> SUFFICES ASSUME Init PROVE AllocatorInv
  OBVIOUS
<1> DEFINE one == [begin |-> 0, end |-> memorySize - 1, name |-> Unused,
                   pre |-> NULL, next |-> NULL]
           r == [a \in {1} |-> 0]
<1>1. /\ memorySize \in Nat \ {0} /\ MaxRegions \in Nat \ {0} /\ 1 \in Addresses
      /\ NULL \notin {1}
  BY AllocatorAssumption DEF Addresses, NULL
<1>2. heap = [a \in {1} |-> one] /\ DOMAIN heap = {1} /\ list = 1 /\ pc = "prompt" /\ cur = NULL
  BY DEF Init
<1>3. one \in Region({1} \cup {NULL}) /\ one.pre = NULL /\ one.next = NULL
  BY <1>1 DEF Region
<1> HIDE DEF one
<1>4. TypeOK
  <2>1. heap \in [DOMAIN heap -> [begin : 0 .. memorySize, end : -1 .. memorySize - 1,
                                  name : Names \cup {Unused},
                                  pre : DOMAIN heap \cup {NULL}, next : DOMAIN heap \cup {NULL}]]
    BY <1>2, <1>3 DEF Region
  <2>2. name = Unused /\ flag = FALSE /\ reply = Silent
    BY DEF Init
  <2>3. QED
    BY <1>1, <1>2, <2>1, <2>2 DEF TypeOK
<1>5. Linked(heap, list, r)
  BY <1>2, <1>3 DEF Linked
<1>6. Apart(r)
  BY <1>2, <1>3 DEF Apart, Pair
<1>7. QED
  BY <1>2, <1>4, <1>5, <1>6 DEF AllocatorInv

LEMMA RoundedType ==
  ASSUME NEW size \in Int
  PROVE  Rounded(size) \in Int
<1>1. PageSize \in Nat \ {0}
  BY AllocatorAssumption
<1>2. (size + PageSize - 1) \div PageSize \in Int
  BY <1>1
<1>3. QED
  BY <1>1, <1>2 DEF Rounded

\* At the prompt there is no pair.
LEMMA NoPair ==
  ASSUME AllocatorInv, pc = "prompt"
  PROVE  \E r : Linked(heap, list, r) /\ \A b \in DOMAIN heap : ~ Pair(heap, b)
BY DEF AllocatorInv, Apart

\* The region that request finds is unused and large enough.
LEMMA GrantFits ==
  ASSUME AllocatorInv, NEW process \in Names, NEW size \in Int, NEW strategy \in Strategies,
         RequestGranted(process, size, strategy)
  PROVE  \E a \in DOMAIN heap :
           /\ heap[a].name = Unused /\ 0 <= size /\ size <= SizeOf(a)
           /\ IF SizeOf(a) = size THEN heap' = [heap EXCEPT ![a].name = process]
              ELSE /\ Cardinality(DOMAIN heap) < MaxRegions
                   /\ heap' = Split(a, size, process)
<1> DEFINE a == Chosen(Path, size, strategy)
<1>1. TypeOK /\ \E r : Linked(heap, list, r)
  BY DEF AllocatorInv
<1>2. a \in DOMAIN heap /\ heap[a].name = Unused /\ 0 <= size /\ size <= SizeOf(a)
  <2>1. PICK k : IsPath(Path, k)
    BY <1>1, PathWhole
  <2>2. strategy \in {"F", "B", "W"} /\ Fitting(Path, size) # {}
    BY DEF RequestGranted, Strategies
  <2>3. QED
    BY <1>1, <2>1, <2>2, ChosenFits
<1>3. IF SizeOf(a) = size THEN heap' = [heap EXCEPT ![a].name = process]
      ELSE /\ Cardinality(DOMAIN heap) < MaxRegions
           /\ heap' = Split(a, size, process)
  BY DEF RequestGranted
<1> HIDE DEF a
<1>4. QED
  BY <1>2, <1>3

LEMMA GrantStep ==
  ASSUME AllocatorInv, NEW process \in Names, NEW size \in Int, NEW strategy \in Strategies,
         RequestGranted(process, size, strategy)
  PROVE  AllocatorInv'
<1>1. TypeOK /\ NULL \notin DOMAIN heap /\ pc = "prompt" /\ cur = NULL
  BY NoNull DEF AllocatorInv, RequestGranted
<1>2. PICK r : Linked(heap, list, r) /\ \A b \in DOMAIN heap : ~ Pair(heap, b)
  BY <1>1, NoPair
<1>3. PICK a \in DOMAIN heap :
        /\ heap[a].name = Unused /\ 0 <= size /\ size <= SizeOf(a)
        /\ IF SizeOf(a) = size THEN heap' = [heap EXCEPT ![a].name = process]
           ELSE /\ Cardinality(DOMAIN heap) < MaxRegions
                /\ heap' = Split(a, size, process)
  BY GrantFits
<1>4. UNCHANGED <<list, pc, name, cur, flag>> /\ reply' = Silent
  BY DEF RequestGranted, releaseVars
<1>5. process # Unused /\ process \in Names \cup {Unused}
  BY AllocatorAssumption
<1>6. ASSUME NEW g, g = heap', g \in [DOMAIN g -> Region(DOMAIN g \cup {NULL})],
             DOMAIN heap \subseteq DOMAIN g, DOMAIN g \subseteq Addresses,
             NEW s, Linked(g, list, s), \A b \in DOMAIN g : ~ Pair(g, b)
      PROVE  AllocatorInv'
  <2>1. TypeOK'
    <3>1. (heap \in [DOMAIN heap -> [begin : 0 .. memorySize, end : -1 .. memorySize - 1,
                                     name : Names \cup {Unused},
                                     pre : DOMAIN heap \cup {NULL},
                                     next : DOMAIN heap \cup {NULL}]])'
      BY <1>6 DEF Region
    <3>2. QED
      BY <1>1, <1>4, <1>6, <3>1 DEF TypeOK
  <2>2. Linked(heap', list', s) /\ \A b \in DOMAIN heap' : ~ Pair(heap', b)
    BY <1>4, <1>6
  <2>3. Apart(s)'
    BY <2>2 DEF Apart
  <2>4. QED
    BY <1>1, <1>4, <2>1, <2>2, <2>3 DEF AllocatorInv
<1>7. CASE SizeOf(a) = size
  <2> DEFINE g == [heap EXCEPT ![a].name = process]
             named == [heap[a] EXCEPT !.name = process]
  <2>1. \A b \in DOMAIN heap : heap[b] \in Region(DOMAIN heap \cup {NULL})
    BY <1>1 DEF TypeOK, Region
  <2>2. /\ named \in Region(DOMAIN heap \cup {NULL}) /\ named.name = process
        /\ named.pre = heap[a].pre /\ named.next = heap[a].next
    BY <1>3, <1>5, <2>1 DEF Region
  <2>3. g = [b \in DOMAIN heap |-> IF b = a THEN named ELSE heap[b]]
    BY <1>1, <1>3 DEF TypeOK
  <2> HIDE DEF g, named
  <2>4. DOMAIN g = DOMAIN heap /\ \A b \in DOMAIN heap : g[b] = IF b = a THEN named ELSE heap[b]
    BY <2>3
  <2>5. g \in [DOMAIN g -> Region(DOMAIN g \cup {NULL})]
    <3> DEFINE R == Region(DOMAIN heap \cup {NULL})
    <3>1. named \in R /\ \A b \in DOMAIN heap : heap[b] \in R
      BY <2>1, <2>2
    <3> HIDE DEF R
    <3>2. g \in [DOMAIN heap -> R]
      BY <2>3, <3>1
    <3>3. QED
      BY <2>4, <3>2 DEF R
  <2>6. Linked(g, list, r)
    BY <1>2, <2>2, <2>4, Renamed
  <2>7. \A b \in DOMAIN g : ~ Pair(g, b)
    <3> SUFFICES ASSUME NEW b \in DOMAIN heap, Pair(g, b) PROVE FALSE
      BY <2>4
    <3>1. b # a /\ g[b] = heap[b]
      BY <1>5, <2>2, <2>4 DEF Pair
    <3>2. heap[b].pre # NULL /\ heap[b].name = Unused /\ g[heap[b].pre].name = Unused
      BY <3>1 DEF Pair
    <3>3. heap[b].pre \in DOMAIN heap
      BY <1>2, <3>2 DEF Linked
    <3>4. heap[heap[b].pre].name = Unused
      BY <1>3, <2>4, <3>2, <3>3
    <3>5. QED
      BY <1>2, <3>2, <3>4 DEF Pair
  <2>8. g = heap' /\ DOMAIN heap \subseteq DOMAIN g /\ DOMAIN g \subseteq Addresses
    <3>1. g = heap'
      BY <1>3, <1>7 DEF g
    <3>2. QED
      BY <1>1, <2>4, <3>1 DEF TypeOK
  <2>9. QED
    BY <1>6, <2>5, <2>6, <2>7, <2>8
<1>8. CASE SizeOf(a) # size
  <2> DEFINE g == Split(a, size, process)
             new == NewAddress
  <2>1. size < SizeOf(a) /\ Cardinality(DOMAIN heap) < MaxRegions /\ g = heap'
    <3>1. heap[a].begin \in Int /\ heap[a].end \in Int
      BY <1>1, <1>3 DEF TypeOK
    <3>2. QED
      BY <1>3, <1>8, <3>1 DEF SizeOf
  <2>2. heap[a].next # a
    <3>1. r[a] \in Nat
      BY <1>2, <1>3 DEF Linked
    <3>2. QED
      BY <1>1, <1>2, <1>3, <3>1 DEF Linked, Follows
  <2>3. /\ new \in Addresses \ DOMAIN heap
        /\ IsSplit(g, a, new, size, process)
        /\ g \in [DOMAIN g -> Region(DOMAIN g \cup {NULL})]
    BY <1>1, <1>3, <2>1, <2>2, SplitFacts
  <2> HIDE DEF g, new
  <2>4. new \notin DOMAIN heap /\ new # NULL
    BY <2>3, AllocatorAssumption DEF Addresses, NULL
  <2>5. /\ \E s : Linked(g, list, s)
        /\ \A b \in DOMAIN g : ~ Pair(g, b)
    BY <1>1, <1>2, <1>3, <1>5, <2>3, <2>4, SplitStep
  <2>6. DOMAIN heap \subseteq DOMAIN g /\ DOMAIN g \subseteq Addresses
    BY <1>1, <2>3 DEF TypeOK, IsSplit
  <2>7. QED
    BY <1>6, <2>1, <2>3, <2>5, <2>6
<1>9. QED
  BY <1>7, <1>8

\* What giving back region a makes of the regions.
IsGiven(h, a) ==
  /\ DOMAIN h = DOMAIN heap
  /\ h \in [DOMAIN h -> Region(DOMAIN h \cup {NULL})]
  /\ \A b \in DOMAIN heap : /\ h[b].pre = heap[b].pre /\ h[b].next = heap[b].next
                            /\ h[b].begin = heap[b].begin /\ h[b].end = heap[b].end
  /\ \A b \in DOMAIN heap \ {a} : h[b].name = heap[b].name
  /\ h[a].name = IF heap[a].name = name THEN Unused ELSE heap[a].name

LEMMA GivenBackIs ==
  ASSUME TypeOK, NEW a \in DOMAIN heap, NEW h, h = GivenBack(heap, a)
  PROVE  IsGiven(h, a)
<1> DEFINE R == Region(DOMAIN heap \cup {NULL})
           unused == [heap[a] EXCEPT !.name = Unused]
<1>1. heap \in [DOMAIN heap -> R]
  BY DEF TypeOK, Region
<1>2. /\ unused \in R /\ unused.name = Unused
      /\ unused.pre = heap[a].pre /\ unused.next = heap[a].next
      /\ unused.begin = heap[a].begin /\ unused.end = heap[a].end
  BY <1>1 DEF Region
<1>3. CASE heap[a].name # name
  <2>1. h = heap
    BY <1>3 DEF GivenBack
  <2>2. QED
    BY <1>1, <1>3, <2>1 DEF IsGiven
<1>4. CASE heap[a].name = name
  <2>1. h = [b \in DOMAIN heap |-> IF b = a THEN unused ELSE heap[b]]
    BY <1>1, <1>4 DEF GivenBack
  <2> HIDE DEF unused, R
  <2>2. /\ DOMAIN h = DOMAIN heap
        /\ \A b \in DOMAIN heap : h[b] = IF b = a THEN unused ELSE heap[b]
    BY <2>1
  <2>3. h \in [DOMAIN heap -> R]
    BY <1>1, <1>2, <2>1
  <2>4. QED
    BY <1>2, <1>4, <2>2, <2>3 DEF R, IsGiven
<1>5. QED
  BY <1>3, <1>4

(***************************************************************************)
(* One round of release.  What it leaves behind has no pair: region cur    *)
(* joins the unused one before it, and that one had none before it.        *)
(***************************************************************************)
LEMMA ReleaseRound ==
  ASSUME AllocatorInv, ReleaseStep
  PROVE  AllocatorInv'
<1> DEFINE h == GivenBack(heap, cur)
<1>1. TypeOK /\ NULL \notin DOMAIN heap
  BY NoNull DEF AllocatorInv
<1>2. PICK r : Linked(heap, list, r) /\ Apart(r)
  BY DEF AllocatorInv
<1>3. /\ pc = "release" /\ cur # NULL /\ cur \in DOMAIN heap
      /\ heap' = (IF JoinsPre(h, cur) THEN JoinedToPre(h, cur) ELSE h)
      /\ list' = IF heap'[cur].pre = NULL THEN cur ELSE list
      /\ cur' = heap'[cur].next
      /\ UNCHANGED <<pc, name, reply>>
  BY <1>1 DEF ReleaseStep, TypeOK
<1>4. /\ DOMAIN h = DOMAIN heap
      /\ h \in [DOMAIN h -> Region(DOMAIN h \cup {NULL})]
      /\ \A b \in DOMAIN heap : h[b].pre = heap[b].pre /\ h[b].next = heap[b].next
      /\ \A b \in DOMAIN heap \ {cur} : h[b].name = heap[b].name
  <2>1. PICK g : g = h
    OBVIOUS
  <2>2. IsGiven(g, cur)
    BY <1>1, <1>3, <2>1, GivenBackIs
  <2> HIDE DEF h
  <2>3. QED
    BY <2>1, <2>2 DEF IsGiven
<1> HIDE DEF h
<1>5. Linked(h, list, r)
  BY <1>2, <1>4, Renamed
<1>6. /\ \A b \in DOMAIN h : r[b] \in Nat
      /\ \A b, c \in DOMAIN h : r[b] = r[c] => b = c
      /\ DOMAIN r = DOMAIN h
  BY <1>5 DEF Linked
\* Behind cur begins what is left.
<1>7. /\ h[cur].next # NULL => h[cur].next \in DOMAIN h /\ r[cur] < r[h[cur].next]
      /\ \A b \in DOMAIN h : r[cur] <= r[b] /\ b # cur =>
           h[cur].next # NULL /\ r[h[cur].next] <= r[b]
      /\ \A b \in DOMAIN h : h[b].pre = cur => h[cur].next = b
  <2>1. h[cur].next # NULL => h[cur].next \in DOMAIN h /\ Follows(r, cur, h[cur].next)
    BY <1>3, <1>4, <1>5 DEF Linked
  <2>2. h[cur].next = NULL => \A b \in DOMAIN h : r[b] <= r[cur]
    BY <1>3, <1>4, <1>5 DEF Linked
  <2>3. \A b \in DOMAIN h : r[cur] <= r[b] /\ b # cur =>
          h[cur].next # NULL /\ r[h[cur].next] <= r[b]
    BY <1>3, <1>4, <1>6, <2>1, <2>2 DEF Follows
  <2>4. \A b \in DOMAIN h : h[b].pre = cur => h[cur].next = b
    BY <1>3, <1>5 DEF Linked
  <2>5. QED
    BY <2>1, <2>3, <2>4 DEF Follows
<1>8. ASSUME NEW g, g = heap', g \in [DOMAIN g -> Region(DOMAIN h \cup {NULL})],
             DOMAIN g \subseteq DOMAIN h, Linked(g, list', [b \in DOMAIN g |-> r[b]]),
             cur \in DOMAIN g, g[cur].next = h[cur].next,
             \A b \in DOMAIN g : Pair(g, b) => h[cur].next # NULL /\ r[h[cur].next] <= r[b]
      PROVE  AllocatorInv'
  <2> DEFINE s == [b \in DOMAIN g |-> r[b]]
  <2>1. cur' = h[cur].next /\ cur' \in DOMAIN g \cup {NULL} /\ list' \in DOMAIN g
    BY <1>3, <1>8 DEF Linked
  <2>2. \A b \in DOMAIN g : g[b].pre \in DOMAIN g \cup {NULL} /\ g[b].next \in DOMAIN g \cup {NULL}
    BY <1>8 DEF Linked
  <2>3. g \in [DOMAIN g -> Region(DOMAIN g \cup {NULL})]
    <3>1. \A b \in DOMAIN g : g[b] \in Region(DOMAIN g \cup {NULL})
      BY <1>8, <2>2 DEF Region
    <3>2. g = [b \in DOMAIN g |-> g[b]]
      BY <1>8
    <3> DEFINE D == DOMAIN g
               R == Region(DOMAIN g \cup {NULL})
    <3> HIDE DEF D, R
    <3>3. g = [b \in D |-> g[b]] /\ \A b \in D : g[b] \in R
      BY <3>1, <3>2 DEF D, R
    <3>4. QED
      BY <3>3 DEF D, R
  <2>4. TypeOK'
    <3>1. (heap \in [DOMAIN heap -> [begin : 0 .. memorySize, end : -1 .. memorySize - 1,
                                     name : Names \cup {Unused},
                                     pre : DOMAIN heap \cup {NULL},
                                     next : DOMAIN heap \cup {NULL}]])'
      BY <1>8, <2>3 DEF Region
    <3>2. flag' \in BOOLEAN
      BY <1>1, Zenon DEF ReleaseStep, TypeOK
    <3>3. DOMAIN heap' \subseteq Addresses
      BY <1>1, <1>4, <1>8 DEF TypeOK
    <3>4. QED
      BY <1>1, <1>3, <1>8, <2>1, <3>1, <3>2, <3>3 DEF TypeOK
  <2>5. (Linked(heap, list, s) /\ Apart(s))'
    <3>1. \A b \in DOMAIN heap' : Pair(heap', b) =>
            pc' = "release" /\ cur' # NULL /\ s[cur'] <= s[b]
      BY <1>3, <1>8, <2>1
    <3>2. Linked(heap', list', s)
      BY <1>8
    <3> HIDE DEF s
    <3>3. QED
      BY <3>1, <3>2 DEF Apart
  <2>6. pc' = "release"
    BY <1>3
  <2> HIDE DEF s
  <2>7. QED
    BY <2>4, <2>5, <2>6 DEF AllocatorInv
<1>9. CASE ~ JoinsPre(h, cur)
  <2>1. h = heap' /\ list' = list
    <3>1. h = heap'
      BY <1>3, <1>9
    <3>2. h[cur].pre = NULL => cur = list
      BY <1>3, <1>4, <1>5 DEF Linked
    <3>3. QED
      BY <1>3, <3>1, <3>2
  <2>2. [b \in DOMAIN h |-> r[b]] = r
    BY <1>5 DEF Linked
  <2>3. ASSUME NEW b \in DOMAIN h, Pair(h, b)
        PROVE  h[cur].next # NULL /\ r[h[cur].next] <= r[b]
    <3>1. b # cur
      BY <1>9, <2>3 DEF JoinsPre, Pair
    <3>2. CASE h[b].pre = cur
      BY <1>6, <1>7, <2>3, <3>2, <1>1, <1>4
    <3>3. CASE h[b].pre # cur
      <4>1. h[b].pre \in DOMAIN h
        BY <1>5, <2>3 DEF Pair, Linked
      <4>2. Pair(heap, b)
        BY <1>4, <2>3, <3>1, <3>3, <4>1 DEF Pair
      <4>3. r[cur] <= r[b]
        BY <1>2, <1>4, <4>2 DEF Apart
      <4>4. QED
        BY <1>7, <3>1, <4>3
    <3>4. QED
      BY <3>2, <3>3
  <2>4. QED
    BY <1>3, <1>4, <1>5, <1>8, <2>1, <2>2, <2>3
<1>10. CASE JoinsPre(h, cur)
  <2> DEFINE t == h[cur].pre
  <2>1. /\ t # NULL /\ t \in DOMAIN h /\ h[t].next = cur /\ Follows(r, t, cur)
        /\ h[cur].name = Unused /\ h[t].name = Unused
    <3>1. t # NULL /\ h[cur].name = Unused /\ h[t].name = Unused
      BY <1>10 DEF JoinsPre
    <3>2. t \in DOMAIN h /\ h[t].next = cur
      BY <1>3, <1>4, <1>5, <3>1 DEF Linked
    <3>3. Follows(r, t, cur)
      BY <1>1, <1>3, <1>4, <1>5, <3>1, WaysBack
    <3>4. QED
      BY <3>1, <3>2, <3>3
  <2>2. r[t] < r[cur] /\ t # cur
    BY <1>3, <1>4, <1>6, <2>1 DEF Follows
  <2>3. h[t].pre # NULL => h[t].pre \in DOMAIN h /\ r[h[t].pre] < r[t]
    BY <1>1, <1>4, <1>5, <2>1, WaysBack DEF Linked, Follows
  <2>4. h[t].pre # cur
    BY <1>1, <1>3, <1>4, <1>6, <2>1, <2>2, <2>3
  <2> HIDE DEF t
  <2> PICK g : g = JoinedToPre(h, cur)
    OBVIOUS
  <2>5. /\ DOMAIN g = DOMAIN h \ {t}
        /\ g[cur].next = h[cur].next /\ g[cur].pre = h[t].pre /\ g[cur].name = h[cur].name
        /\ \A b \in DOMAIN h \ {cur, t} :
             /\ g[b].pre = h[b].pre /\ g[b].name = h[b].name
             /\ g[b].next = IF b = h[t].pre THEN cur ELSE h[b].next
        /\ g \in [DOMAIN g -> Region(DOMAIN h \cup {NULL})]
    <3>1. \A b \in DOMAIN h : h[b] \in Region(DOMAIN h \cup {NULL})
      BY <1>4
    <3>2. cur \in DOMAIN h /\ t = h[cur].pre
      BY <1>3, <1>4 DEF t
    <3>3. cur # t /\ t \in DOMAIN h /\ h[t].pre # cur
      BY <2>1, <2>2, <2>4
    <3>4. g = JoinedToPre(h, cur)
      OBVIOUS
    <3>5. IsJoined(g, h, cur, t)
      BY <3>1, <3>2, <3>3, <3>4, JoinFacts
    <3>6. QED
      BY <3>5 DEF IsJoined
  <2>6. heap' = g /\ list' = IF h[t].pre = NULL THEN cur ELSE list
    BY <1>3, <1>10, <2>5
  <2>7. cur \in DOMAIN g /\ DOMAIN g \subseteq DOMAIN h
    BY <1>3, <1>4, <2>2, <2>5
  <2>8. Linked(g, list', [b \in DOMAIN g |-> r[b]])
    <3>1. NULL \notin DOMAIN h /\ cur \in DOMAIN h /\ t \in DOMAIN h /\ t = h[cur].pre
      BY <1>1, <1>3, <1>4, <2>1 DEF t
    <3>2. QED
      BY <1>5, <2>5, <2>6, <3>1, JoinStep
  <2>9. ASSUME NEW b \in DOMAIN g, Pair(g, b)
        PROVE  h[cur].next # NULL /\ r[h[cur].next] <= r[b]
    <3>1. CASE b = cur
      <4> DEFINE u == h[t].pre
      <4>1. u # NULL /\ g[u].name = Unused /\ u \in DOMAIN h \ {cur, t}
        BY <1>6, <2>1, <2>3, <2>4, <2>5, <2>9, <3>1 DEF Pair
      <4>2. heap[u].name = Unused /\ heap[t].name = Unused /\ heap[t].pre = u
        BY <1>4, <2>1, <2>2, <2>5, <4>1
      <4>3. Pair(heap, t)
        BY <4>1, <4>2 DEF Pair
      <4>4. r[cur] <= r[t]
        BY <1>2, <1>4, <2>1, <4>3 DEF Apart
      <4>5. QED
        BY <1>3, <1>4, <1>6, <2>1, <2>2, <4>4
    <3>2. CASE b # cur
      <4> DEFINE v == h[b].pre
      <4>1. b \in DOMAIN h \ {cur, t} /\ v # NULL /\ h[b].name = Unused /\ g[v].name = Unused
        BY <2>5, <2>9, <3>2 DEF Pair
      <4>2. v \in DOMAIN h /\ h[v].next = b
        BY <1>5, <4>1 DEF Linked
      <4>3. v # t
        BY <2>1, <3>2, <4>2
      <4>4. CASE v = cur
        BY <1>1, <1>4, <1>6, <1>7, <4>1, <4>2, <4>4
      <4>5. CASE v # cur
        <5>1. heap[v].name = Unused /\ heap[b].name = Unused /\ heap[b].pre = v
          BY <1>4, <2>5, <4>1, <4>2, <4>3, <4>5
        <5>2. r[cur] <= r[b]
          BY <1>2, <1>4, <4>1, <5>1 DEF Apart, Pair
        <5>3. QED
          BY <1>7, <4>1, <5>2
      <4>6. QED
        BY <4>4, <4>5
    <3>3. QED
      BY <3>1, <3>2
  <2>10. QED
    BY <1>8, <2>5, <2>6, <2>7, <2>8, <2>9
<1>11. QED
  BY <1>9, <1>10

LEMMA StepHolds ==
  ASSUME AllocatorInv, [Next]_vars
  PROVE  AllocatorInv'
<1>1. TypeOK
  BY DEF AllocatorInv
<1>2. PICK r : Linked(heap, list, r) /\ Apart(r)
  BY DEF AllocatorInv
<1>3. ASSUME UNCHANGED <<heap, list>>, cur' \in DOMAIN heap \cup {NULL},
             pc' \in {"prompt", "release", "quit"}, name' \in Names \cup {Unused},
             flag' \in BOOLEAN, reply' \in {Silent, NoAvailableMemory, NoMemoryToRelease},
             pc' # "release" => cur' = NULL,
             \A b \in DOMAIN heap : Pair(heap, b) => pc' = "release" /\ cur' # NULL /\ r[cur'] <= r[b]
      PROVE  AllocatorInv'
  <2>1. TypeOK'
    <3>1. (heap \in [DOMAIN heap -> [begin : 0 .. memorySize, end : -1 .. memorySize - 1,
                                     name : Names \cup {Unused},
                                     pre : DOMAIN heap \cup {NULL},
                                     next : DOMAIN heap \cup {NULL}]])'
      BY <1>1, <1>3 DEF TypeOK
    <3>2. QED
      BY <1>1, <1>3, <3>1 DEF TypeOK
  <2>2. (Linked(heap, list, r) /\ Apart(r))'
    <3>1. Linked(heap', list', r)
      BY <1>2, <1>3
    <3>2. QED
      BY <1>3, <3>1 DEF Apart
  <2>3. QED
    BY <1>3, <2>1, <2>2 DEF AllocatorInv
<1>4. ASSUME NEW process \in Names, NEW size \in Sizes, NEW strategy \in Strategies,
             Request(process, size, strategy)
      PROVE  AllocatorInv'
  <2>1. Rounded(size) \in Int
    BY RoundedType, AllocatorAssumption
  <2>2. CASE RequestRefused(Rounded(size), strategy)
    BY <1>1, <1>2, <1>3, <2>2 DEF RequestRefused, releaseVars, Apart, AllocatorInv, TypeOK
  <2>3. CASE RequestGranted(process, Rounded(size), strategy)
    BY <2>1, <2>3, GrantStep
  <2>4. QED
    BY <1>4, <2>2, <2>3 DEF Request
<1>5. ASSUME NEW process \in Names, Release(process) PROVE AllocatorInv'
  <2>1. \A b \in DOMAIN heap : r[list] <= r[b]
    BY <1>2 DEF Linked
  <2>2. list \in DOMAIN heap /\ list # NULL
    BY <1>1, NoNull DEF TypeOK
  <2>3. QED
    BY <1>1, <1>3, <1>5, <2>1, <2>2 DEF Release, TypeOK
<1>6. ASSUME ReleaseEnd PROVE AllocatorInv'
  BY <1>1, <1>2, <1>3, <1>6 DEF ReleaseEnd, Apart, TypeOK
<1>7. ASSUME Quit PROVE AllocatorInv'
  BY <1>1, <1>2, <1>3, <1>7 DEF Quit, releaseVars, Apart, AllocatorInv, TypeOK
<1>8. ASSUME UNCHANGED vars PROVE AllocatorInv'
  BY <1>1, <1>2, <1>3, <1>8 DEF vars, releaseVars, Apart, AllocatorInv, TypeOK
<1>9. QED
  BY <1>4, <1>5, <1>6, <1>7, <1>8, ReleaseRound DEF Next, Releasing, Terminated

\* The inductive invariant.
LEMMA InvHolds == Spec => []AllocatorInv
<1>1. AllocatorInv /\ [Next]_vars => AllocatorInv'
  BY StepHolds
<1>2. QED
  BY <1>1, InitHolds, PTL DEF Spec

\* Every pointer is null or leads to a region that was not freed.
THEOREM TypeCorrect == Spec => []TypeOK
<1>1. AllocatorInv => TypeOK
  BY DEF AllocatorInv
<1>2. QED
  BY <1>1, InvHolds, PTL

(***************************************************************************)
(* For any memory, sizes and number of regions the list leads through each *)
(* region once, and back, also between two rounds of release (Project7     *)
(* makeRegion 28-41, request 110-112, release 126-147).                    *)
(***************************************************************************)
THEOREM ListStaysWhole == Spec => []ListWhole
<1>1. AllocatorInv => ListWhole
  BY WholeAndApart
<1>2. QED
  BY <1>1, InvHolds, PTL

(***************************************************************************)
(* Although release joins a region only to the one before it, and its test *)
(* for the one behind is never true, no two unused regions are left side   *)
(* by side (Project7 release 120-147).                                     *)
(***************************************************************************)
THEOREM NoUnusedNeighbours == Spec => []UnusedApart
<1>1. AllocatorInv => UnusedApart
  BY WholeAndApart
<1>2. QED
  BY <1>1, InvHolds, PTL

-----------------------------------------------------------------------------
(***************************************************************************)
(* Rows: what becomes of one when unused regions side by side are made one *)
(* and the regions of a process are given back.                            *)
(***************************************************************************)
Entries == [name : Names \cup {Unused}, begin : Nat]

\* Entry n of a row begins a region when unused ones side by side are one.
Heads(row, n) == n > 1 => ~ (row[n].name = Unused /\ row[n - 1].name = Unused)

\* What becomes of s with entry n of the row behind it.
With(s, row, n) == IF Heads(row, n) THEN Append(s, row[n]) ELSE s

\* What the first n entries of a row become, for every n up to m.
IsJoining(f, row, m) ==
  /\ f[0] = << >>
  /\ \A n \in 1 .. m : f[n] = With(f[n - 1], row, n)

LEMMA JoiningExists ==
  ASSUME NEW row \in Seq(Entries), NEW k \in 0 .. Len(row)
  PROVE  \E f \in [0 .. k -> Seq(Entries)] : IsJoining(f, row, k)
<1> DEFINE Joins(n) == \E f \in [0 .. n -> Seq(Entries)] : IsJoining(f, row, n)
           Bad == {n \in 0 .. Len(row) : ~ Joins(n)}
<1>1. SUFFICES ASSUME Bad # {} PROVE FALSE
  OBVIOUS
<1>2. PICK m \in Bad : \A n \in Bad : m <= n
  <2>1. Bad \in SUBSET Nat
    OBVIOUS
  <2>2. QED
    BY <1>1, <2>1, LeastOf
<1>3. m # 0
  <2>1. [n \in 0 .. 0 |-> << >>] \in [0 .. 0 -> Seq(Entries)]
    OBVIOUS
  <2>2. IsJoining([n \in 0 .. 0 |-> << >>], row, 0)
    BY DEF IsJoining
  <2>3. QED
    BY <2>1, <2>2
<1>4. m - 1 \in 0 .. Len(row) /\ Joins(m - 1) /\ m \in 1 .. Len(row) /\ row[m] \in Entries
  BY <1>2, <1>3
<1>5. PICK f \in [0 .. m - 1 -> Seq(Entries)] : IsJoining(f, row, m - 1)
  BY <1>4
<1> DEFINE last == With(f[m - 1], row, m)
           g == [n \in 0 .. m |-> IF n = m THEN last ELSE f[n]]
<1>6. g \in [0 .. m -> Seq(Entries)]
  <2>1. f[m - 1] \in Seq(Entries)
    BY <1>4, <1>5
  <2>2. last \in Seq(Entries)
    BY <1>4, <2>1 DEF With
  <2> HIDE DEF last
  <2>3. QED
    BY <1>4, <1>5, <2>2
<1>7. IsJoining(g, row, m)
  <2>1. g[m] = last /\ \A n \in 0 .. m - 1 : g[n] = f[n]
    BY <1>4
  <2>2. \A n \in 1 .. m - 1 : n \in 0 .. m - 1 /\ n - 1 \in 0 .. m - 1
    BY <1>4
  <2> HIDE DEF g
  <2>3. g[0] = << >>
    <3>1. 0 \in 0 .. m - 1
      BY <1>4
    <3>2. f[0] = << >>
      BY <1>5 DEF IsJoining
    <3>3. QED
      BY <2>1, <3>1, <3>2
  <2>7. ASSUME NEW n \in 1 .. m - 1 PROVE g[n] = With(g[n - 1], row, n)
    <3>1. f[n] = With(f[n - 1], row, n)
      BY <1>5 DEF IsJoining
    <3>2. g[n] = f[n] /\ g[n - 1] = f[n - 1]
      BY <2>1, <2>2
    <3>3. QED
      BY <3>1, <3>2
  <2>4. g[m] = With(g[m - 1], row, m)
    BY <1>4, <2>1
  <2>5. \A n \in 1 .. m : n \in 1 .. m - 1 \/ n = m
    BY <1>4
  <2>6. QED
    BY <2>3, <2>4, <2>5, <2>7 DEF IsJoining
<1>8. QED
  BY <1>2, <1>6, <1>7

\* The row with every run of unused regions made one is built entry by entry.
LEMMA CoalescedIs ==
  ASSUME NEW row \in Seq(Entries)
  PROVE  \E f \in [0 .. Len(row) -> Seq(Entries)] :
           IsJoining(f, row, Len(row)) /\ Map!Coalesced[row] = f[Len(row)]
<1> DEFINE N == Len(row)
           upTo[n \in 0 .. N] ==
             IF n = 0 THEN << >>
             ELSE IF Heads(row, n) THEN Append(upTo[n - 1], row[n]) ELSE upTo[n - 1]
           built[n \in 0 .. N] == IF n = 0 THEN << >> ELSE With(built[n - 1], row, n)
<1>1. Map!Coalesced[row] = built[N]
  <2>1. Map!Coalesced[row] = upTo[N]
    BY DEF Map!Coalesced, Map!Rows, Entries, Heads
  <2>2. QED
    BY <2>1 DEF With
<1>2. PICK f \in [0 .. N -> Seq(Entries)] : IsJoining(f, row, N)
  BY JoiningExists
<1>3. f = [n \in 0 .. N |-> IF n = 0 THEN << >> ELSE With(f[n - 1], row, n)]
  <2>1. f = [n \in 0 .. N |-> f[n]]
    OBVIOUS
  <2>2. \A n \in 0 .. N : f[n] = IF n = 0 THEN << >> ELSE With(f[n - 1], row, n)
    BY <1>2 DEF IsJoining
  <2>3. QED
    BY <2>1, <2>2
<1>4. built = [n \in 0 .. N |-> IF n = 0 THEN << >> ELSE With(built[n - 1], row, n)]
  BY <1>3
<1> HIDE DEF built
<1>5. built[0] = << >>
  BY <1>4
<1>6. \A n \in 1 .. N : built[n] = With(built[n - 1], row, n)
  BY <1>4
<1>7. \A n \in 0 .. N : built[n] = f[n]
  <2> DEFINE Bad == {n \in 0 .. N : built[n] # f[n]}
  <2>1. SUFFICES ASSUME Bad # {} PROVE FALSE
    OBVIOUS
  <2>2. PICK m \in Bad : \A n \in Bad : m <= n
    <3>1. Bad \in SUBSET Nat
      OBVIOUS
    <3>2. QED
      BY <2>1, <3>1, LeastOf
  <2>3. m # 0
    BY <1>2, <1>5, <2>2 DEF IsJoining
  <2>4. m - 1 \in 0 .. N /\ m \in 1 .. N /\ built[m - 1] = f[m - 1]
    BY <2>2, <2>3
  <2>5. QED
    BY <1>2, <1>6, <2>2, <2>4 DEF IsJoining
<1>8. QED
  BY <1>1, <1>2, <1>7

\* Rows that begin alike become alike.
Alike(row, other, m) == \A n \in 1 .. m : other[n] = row[n]

LEMMA SameJoining ==
  \A row, other, f, g : \A m \in Nat :
    IsJoining(f, row, m) /\ IsJoining(g, other, m) /\ Alike(row, other, m) => f[m] = g[m]
<1> SUFFICES ASSUME NEW row, NEW other, NEW f, NEW g, NEW m \in Nat,
                    IsJoining(f, row, m), IsJoining(g, other, m), Alike(row, other, m)
             PROVE  f[m] = g[m]
  OBVIOUS
<1> DEFINE Bad == {n \in 0 .. m : f[n] # g[n]}
<1>1. SUFFICES ASSUME Bad # {} PROVE FALSE
  OBVIOUS
<1>2. PICK n \in Bad : \A k \in Bad : n <= k
  <2>1. Bad \in SUBSET Nat
    OBVIOUS
  <2>2. QED
    BY <1>1, <2>1, LeastOf
<1>3. n # 0
  BY <1>2 DEF IsJoining
<1>4. n - 1 \in 0 .. m /\ n \in 1 .. m /\ f[n - 1] = g[n - 1]
  BY <1>2, <1>3
<1>5. With(g[n - 1], other, n) = With(f[n - 1], row, n)
  <2>1. n > 1 => n - 1 \in 1 .. m
    BY <1>4
  <2>2. Heads(other, n) <=> Heads(row, n)
    BY <1>4, <2>1 DEF Heads, Alike
  <2>3. QED
    BY <1>4, <2>2 DEF With, Alike
<1>6. QED
  BY <1>2, <1>4, <1>5 DEF IsJoining

\* Of two unused regions side by side the second makes no difference.
Drops(other, row, m) ==
  /\ m \in 2 .. Len(row) /\ Len(other) = Len(row) - 1
  /\ \A n \in 1 .. m - 1 : other[n] = row[n]
  /\ \A n \in m .. Len(row) - 1 : other[n] = row[n + 1]
  /\ row[m].name = Unused /\ row[m - 1].name = Unused

LEMMA DropOne ==
  ASSUME NEW row \in Seq(Entries), NEW other \in Seq(Entries), NEW m, Drops(other, row, m)
  PROVE  Map!Coalesced[other] = Map!Coalesced[row]
<1> DEFINE N == Len(row)
<1>1. PICK f : IsJoining(f, row, N) /\ Map!Coalesced[row] = f[N]
  BY CoalescedIs
<1>2. PICK g : IsJoining(g, other, N - 1) /\ Map!Coalesced[other] = g[N - 1]
  <2>1. Len(other) = N - 1
    BY DEF Drops
  <2>2. QED
    BY <2>1, CoalescedIs
<1>3. /\ N \in Nat /\ m \in 2 .. N
      /\ \A n \in 1 .. m - 1 : other[n] = row[n]
      /\ \A n \in m .. N - 1 : other[n] = row[n + 1]
      /\ row[m].name = Unused /\ row[m - 1].name = Unused
  BY DEF Drops
<1> HIDE DEF N
<1>4. \A n \in 1 .. N : f[n] = With(f[n - 1], row, n)
  BY <1>1 DEF IsJoining
<1>5. \A n \in 1 .. N - 1 : g[n] = With(g[n - 1], other, n)
  BY <1>2 DEF IsJoining
<1>6. f[m - 1] = g[m - 1]
  <2>1. \A x \in Nat : IsJoining(f, row, x) /\ IsJoining(g, other, x) /\ Alike(row, other, x)
                        => f[x] = g[x]
    BY SameJoining
  <2>2. IsJoining(f, row, m - 1) /\ IsJoining(g, other, m - 1)
    <3>1. \A n \in 1 .. m - 1 : n \in 1 .. N /\ n \in 1 .. N - 1
      BY <1>3
    <3>2. QED
      BY <1>1, <1>2, <1>4, <1>5, <3>1 DEF IsJoining
  <2>3. m - 1 \in Nat /\ Alike(row, other, m - 1)
    BY <1>3 DEF Alike
  <2>4. QED
    BY <2>1, <2>2, <2>3
<1>7. f[m] = f[m - 1]
  <2>1. m \in 1 .. N /\ m > 1
    BY <1>3
  <2>2. ~ Heads(row, m)
    <3>1. row[m].name = Unused /\ row[m - 1].name = Unused
      BY <1>3
    <3>2. QED
      BY <2>1, <3>1 DEF Heads
  <2>3. f[m] = With(f[m - 1], row, m)
    BY <1>4, <2>1
  <2>4. QED
    BY <2>2, <2>3 DEF With
<1>8. \A n \in m .. N : f[n] = g[n - 1]
  <2> DEFINE Bad == {n \in m .. N : f[n] # g[n - 1]}
  <2>1. SUFFICES ASSUME Bad # {} PROVE FALSE
    OBVIOUS
  <2>2. PICK n \in Bad : \A k \in Bad : n <= k
    <3>1. Bad \in SUBSET Nat
      BY <1>3
    <3>2. QED
      BY <2>1, <3>1, LeastOf
  <2>3. n # m
    BY <1>6, <1>7, <2>2
  <2>4. n - 1 \in m .. N /\ n \in 1 .. N /\ n - 1 \in 1 .. N - 1 /\ f[n - 1] = g[(n - 1) - 1]
    BY <1>3, <2>2, <2>3
  <2> HIDE DEF Bad
  <2>5. other[n - 1] = row[n]
    <3>1. n - 1 \in m .. N - 1 /\ (n - 1) + 1 = n
      BY <1>3, <2>4
    <3>2. QED
      BY <1>3, <3>1
  <2>6. Heads(other, n - 1) <=> Heads(row, n)
    <3>1. CASE n = m + 1
      <4>1. other[m - 1] = row[m - 1] /\ n - 1 = m /\ (n - 1) - 1 = m - 1
        <5>1. m - 1 \in 1 .. m - 1
          BY <1>3
        <5>2. QED
          BY <1>3, <3>1, <5>1
      <4>2. other[n - 1].name = row[n].name /\ n > 1 /\ n - 1 > 1 /\ row[n - 1].name = Unused
        <5>1. n = m + 1 /\ m > 1 /\ n - 1 = m
          BY <1>3, <3>1
        <5>2. row[m].name = Unused
          BY <1>3
        <5>3. n > 1 /\ n - 1 > 1
          BY <1>3, <5>1
        <5>4. other[n - 1].name = row[n].name /\ row[n - 1].name = Unused
          BY <2>5, <5>1, <5>2
        <5>5. QED
          BY <5>3, <5>4
      <4>3. other[(n - 1) - 1].name = Unused
        BY <1>3, <4>1
      <4>4. QED
        BY <4>2, <4>3 DEF Heads
    <3>2. CASE n # m + 1
      <4>1. n - 2 \in m .. N - 1 /\ (n - 1) - 1 = n - 2 /\ (n - 2) + 1 = n - 1
        BY <1>3, <2>4, <3>2
      <4>2. other[(n - 1) - 1] = row[n - 1]
        BY <1>3, <4>1
      <4>3. n > 1 /\ n - 1 > 1
        BY <1>3, <2>4
      <4>4. QED
        BY <2>5, <4>2, <4>3 DEF Heads
    <3>3. QED
      BY <3>1, <3>2
  <2>7. With(g[(n - 1) - 1], other, n - 1) = With(f[n - 1], row, n)
    BY <2>4, <2>5, <2>6 DEF With
  <2>8. f[n] = g[n - 1]
    BY <1>4, <1>5, <2>4, <2>7
  <2>9. QED
    BY <2>2, <2>8 DEF Bad
<1>9. N \in m .. N
  BY <1>3
<1>10. QED
  BY <1>1, <1>2, <1>8, <1>9

\* A row in which no two unused regions lie side by side stays as it is.
LEMMA NothingToJoin ==
  ASSUME NEW row \in Seq(Entries), \A n \in 1 .. Len(row) : Heads(row, n)
  PROVE  Map!Coalesced[row] = row
<1> DEFINE N == Len(row)
<1>1. PICK f \in [0 .. N -> Seq(Entries)] :
        IsJoining(f, row, N) /\ Map!Coalesced[row] = f[N]
  BY CoalescedIs
<1>2. N \in Nat
  OBVIOUS
<1> DEFINE Same(n) == Len(f[n]) = n /\ \A i \in 1 .. n : f[n][i] = row[i]
           Bad == {n \in 0 .. N : ~ Same(n)}
<1>3. \A n \in 0 .. N : Same(n)
  <2>1. SUFFICES ASSUME Bad # {} PROVE FALSE
    OBVIOUS
  <2>2. PICK n \in Bad : \A k \in Bad : n <= k
    <3>1. Bad \in SUBSET Nat
      OBVIOUS
    <3>2. QED
      BY <2>1, <3>1, LeastOf
  <2>3. Same(0)
    BY <1>1 DEF IsJoining
  <2> HIDE DEF Same
  <2>4. n - 1 \in 0 .. N /\ n \in 1 .. N /\ Same(n - 1)
    BY <2>2, <2>3
  <2>5. f[n] = Append(f[n - 1], row[n]) /\ f[n - 1] \in Seq(Entries) /\ row[n] \in Entries
    <3>1. f[n] = With(f[n - 1], row, n)
      BY <1>1, <2>4 DEF IsJoining
    <3>2. Heads(row, n) /\ row[n] \in Entries /\ f[n - 1] \in Seq(Entries)
      BY <1>1, <2>4
    <3>3. QED
      BY <3>1, <3>2 DEF With
  <2>6. Same(n)
    BY <2>4, <2>5 DEF Same
  <2>7. QED
    BY <2>2, <2>6
<1>4. f[N] \in Seq(Entries) /\ Same(N)
  BY <1>1, <1>2, <1>3
<1>5. f[N] = row
  BY <1>2, <1>4, SeqEqual
<1>6. QED
  BY <1>1, <1>5

\* What is given back is named no more.
LEMMA FreedIs ==
  ASSUME NEW row \in Seq(Entries), NEW process \in Names
  PROVE  /\ Map!Freed(process)[row] \in Seq(Entries)
         /\ Len(Map!Freed(process)[row]) = Len(row)
         /\ \A n \in 1 .. Len(row) :
              Map!Freed(process)[row][n]
                = IF row[n].name = process THEN [name |-> Unused, begin |-> row[n].begin] ELSE row[n]
<1> DEFINE freed == [n \in 1 .. Len(row) |->
                       IF row[n].name = process THEN [name |-> Unused, begin |-> row[n].begin]
                                                ELSE row[n]]
<1>1. Map!Freed(process)[row] = freed
  BY DEF Map!Freed, Map!Region, Map!Rows, Entries
<1>2. \A n \in 1 .. Len(row) : row[n] \in Entries
  OBVIOUS
<1>3. \A n \in 1 .. Len(row) : [name |-> Unused, begin |-> row[n].begin] \in Entries
  BY <1>2 DEF Entries
<1>4. freed \in Seq(Entries) /\ Len(freed) = Len(row)
  BY <1>2, <1>3
<1>5. QED
  BY <1>1, <1>4

-----------------------------------------------------------------------------
(***************************************************************************)
(* The row that a path through the list shows, and what a split and a join *)
(* make of the path.                                                       *)
(***************************************************************************)
\* Names and beginnings of the regions of h along a path.
RowAlong(h, path) == [n \in DOMAIN path |-> [name |-> h[path[n]].name, begin |-> h[path[n]].begin]]

LEMMA RowType ==
  ASSUME NEW h, NEW P, h \in [DOMAIN h -> Region(P)], NEW l, NEW p, NEW k, LeadsThrough(h, l, p, k)
  PROVE  /\ RowAlong(h, p) \in Seq(Entries) /\ Len(RowAlong(h, p)) = k /\ DOMAIN p = 1 .. k
         /\ \A n \in 1 .. k : RowAlong(h, p)[n] = [name |-> h[p[n]].name, begin |-> h[p[n]].begin]
<1>1. k \in Nat /\ DOMAIN p = 1 .. k /\ \A n \in 1 .. k : p[n] \in DOMAIN h
  BY DEF LeadsThrough
<1>2. \A n \in 1 .. k : [name |-> h[p[n]].name, begin |-> h[p[n]].begin] \in Entries
  <2> TAKE n \in 1 .. k
  <2>1. h[p[n]] \in Region(P)
    BY <1>1
  <2>2. h[p[n]].name \in Names \cup {Unused} /\ h[p[n]].begin \in Nat
    BY <2>1, AllocatorAssumption DEF Region
  <2>3. QED
    BY <2>2 DEF Entries
<1>3. RowAlong(h, p) \in [1 .. k -> Entries]
  BY <1>1, <1>2 DEF RowAlong
<1>4. RowAlong(h, p) \in Seq(Entries) /\ Len(RowAlong(h, p)) = k
  BY <1>1, <1>3
<1>5. QED
  BY <1>1, <1>4 DEF RowAlong

LEMMA RowIs ==
  \A p, k : AllocatorInv /\ IsPath(p, k) => Row = RowAlong(heap, p)
<1> SUFFICES ASSUME AllocatorInv, NEW p, NEW k, IsPath(p, k) PROVE Row = RowAlong(heap, p)
  OBVIOUS
<1>1. TypeOK /\ NULL \notin DOMAIN heap
  BY NoNull DEF AllocatorInv
<1>2. Path = p
  <2>1. PICK r : Linked(heap, list, r)
    BY DEF AllocatorInv
  <2>2. PICK j : IsPath(Path, j)
    BY <1>1, <2>1, PathWhole
  <2> DEFINE path == Path
  <2>3. LeadsThrough(heap, list, path, j) /\ LeadsThrough(heap, list, p, k)
    BY <2>2 DEF IsPath
  <2> HIDE DEF path
  <2>4. path = p
    BY <1>1, <2>3, OneWay
  <2>5. QED
    BY <2>4 DEF path
<1>3. p \in Seq(Addresses)
  <2>1. k \in Nat /\ p \in [1 .. k -> Addresses]
    BY <1>1 DEF IsPath, LeadsThrough, TypeOK
  <2>2. QED
    BY <2>1
<1>4. QED
  BY <1>2, <1>3 DEF Row, RowOf, RowAlong

\* Each region begins where the one before it ends, and the last ends with the memory.
Tiled(h, p, k) ==
  \A n \in 1 .. k : h[p[n]].end + 1 = IF n = k THEN memorySize ELSE h[p[n + 1]].begin

\* The path with a region behind the one at j, and without the one at i.
WithRegion(p, k, j, new) ==
  [n \in 1 .. k + 1 |-> IF n <= j THEN p[n] ELSE IF n = j + 1 THEN new ELSE p[n - 1]]

WithoutRegion(p, k, i) == [n \in 1 .. k - 1 |-> IF n < i THEN p[n] ELSE p[n + 1]]

LEMMA SplitPath ==
  ASSUME TypeOK, NULL \notin DOMAIN heap, NEW p, NEW k, IsPath(p, k), Tiled(heap, p, k),
         NEW j \in 1 .. k, NEW new, new \notin DOMAIN heap,
         NEW size \in Int, NEW process, NEW g, IsSplit(g, p[j], new, size, process)
  PROVE  /\ LeadsThrough(g, list, WithRegion(p, k, j, new), k + 1)
         /\ Tiled(g, WithRegion(p, k, j, new), k + 1)
<1> DEFINE q == WithRegion(p, k, j, new)
           a == p[j]
<1>1. /\ k \in Nat \ {0} /\ p \in [1 .. k -> DOMAIN heap]
      /\ p[1] = list /\ heap[p[k]].next = NULL
      /\ \A n \in 1 .. k - 1 : p[n + 1] = heap[p[n]].next
      /\ \A m, n \in 1 .. k : m # n => p[m] # p[n]
      /\ \A b \in DOMAIN heap : \E n \in 1 .. k : p[n] = b
  BY DEF IsPath, LeadsThrough
<1>2. /\ DOMAIN g = DOMAIN heap \cup {new}
      /\ g[new].next = heap[a].next /\ g[a].next = new
      /\ \A b \in DOMAIN heap \ {a} : g[b].next = heap[b].next
  BY DEF IsSplit
<1>3. /\ g[new].begin = heap[a].begin + size /\ g[new].end = heap[a].end
      /\ g[a].begin = heap[a].begin /\ g[a].end = heap[a].begin + size - 1
      /\ \A b \in DOMAIN heap \ {a} : g[b].begin = heap[b].begin /\ g[b].end = heap[b].end
  BY DEF IsSplit
<1>4. /\ j \in 1 .. k + 1 /\ q[j + 1] = new
      /\ \A n \in 1 .. j : q[n] = p[n]
      /\ \A n \in j + 2 .. k + 1 : q[n] = p[n - 1]
  BY <1>1 DEF WithRegion
<1>5. a \in DOMAIN heap /\ \A n \in 1 .. k : n # j => p[n] \in DOMAIN heap \ {a}
  BY <1>1
<1>6. q \in [1 .. k + 1 -> DOMAIN g] /\ Len(q) = k + 1
  <2>1. \A n \in 1 .. k + 1 :
          (IF n <= j THEN p[n] ELSE IF n = j + 1 THEN new ELSE p[n - 1]) \in DOMAIN g
    <3> TAKE n \in 1 .. k + 1
    <3>1. CASE n <= j
      BY <1>1, <1>2, <3>1
    <3>2. CASE n = j + 1
      BY <1>2, <3>2
    <3>3. CASE n > j + 1
      <4>1. n - 1 \in 1 .. k
        BY <1>1, <3>3
      <4>2. QED
        BY <1>1, <1>2, <3>3, <4>1
    <3>4. QED
      BY <1>1, <3>1, <3>2, <3>3
  <2>2. QED
    BY <1>1, <2>1 DEF WithRegion
<1> HIDE DEF q, a
<1>7. q[1] = list /\ g[q[k + 1]].next = NULL
  <2>1. q[1] = list
    BY <1>1, <1>4
  <2>2. CASE j = k
    BY <1>1, <1>2, <1>4, <2>2 DEF a
  <2>3. CASE j # k
    <3>1. k + 1 \in j + 2 .. k + 1 /\ (k + 1) - 1 = k /\ k \in 1 .. k
      BY <1>1, <2>3
    <3>2. q[k + 1] = p[k] /\ p[k] \in DOMAIN heap \ {a}
      BY <1>4, <1>5, <2>3, <3>1
    <3>3. QED
      BY <1>1, <1>2, <2>1, <3>2
  <2>4. QED
    BY <2>1, <2>2, <2>3
<1>8. ASSUME NEW n \in 1 .. k PROVE q[n + 1] = g[q[n]].next
  <2>1. CASE n < j
    <3>1. n \in 1 .. k - 1 /\ n \in 1 .. j /\ n + 1 \in 1 .. j
      BY <1>1, <2>1
    <3>2. q[n] = p[n] /\ q[n + 1] = p[n + 1] /\ p[n] \in DOMAIN heap \ {a}
      BY <1>4, <1>5, <2>1, <3>1
    <3>3. QED
      BY <1>1, <1>2, <3>1, <3>2
  <2>2. CASE n = j
    BY <1>2, <1>4, <2>2 DEF a
  <2>3. CASE n = j + 1
    <3>1. n + 1 \in j + 2 .. k + 1 /\ (n + 1) - 1 = n /\ j \in 1 .. k - 1
      BY <1>1, <2>3
    <3>2. q[n + 1] = p[j + 1] /\ p[j + 1] = heap[a].next
      BY <1>1, <1>4, <2>3, <3>1 DEF a
    <3>3. QED
      BY <1>2, <1>4, <2>3, <3>2
  <2>4. CASE n > j + 1
    <3>1. n \in j + 2 .. k + 1 /\ n + 1 \in j + 2 .. k + 1 /\ n - 1 \in 1 .. k - 1
          /\ n - 1 \in 1 .. k /\ n - 1 # j /\ (n - 1) + 1 = n /\ (n + 1) - 1 = n
      BY <1>1, <2>4
    <3>2. q[n] = p[n - 1] /\ q[n + 1] = p[n] /\ p[n - 1] \in DOMAIN heap \ {a}
      BY <1>4, <1>5, <3>1
    <3>3. p[n] = heap[p[n - 1]].next
      BY <1>1, <3>1
    <3>4. QED
      BY <1>2, <3>2, <3>3
  <2>5. QED
    BY <1>1, <2>1, <2>2, <2>3, <2>4
<1>9. \A m, n \in 1 .. k + 1 : m # n => q[m] # q[n]
  <2> TAKE m, n \in 1 .. k + 1
  <2> DEFINE from(i) == IF i <= j THEN i ELSE i - 1
  <2>1. \A i \in 1 .. k + 1 : i # j + 1 => from(i) \in 1 .. k /\ q[i] = p[from(i)]
    BY <1>1, <1>4
  <2>2. \A i \in 1 .. k : p[i] # new
    BY <1>1
  <2>3. CASE m = j + 1 \/ n = j + 1
    BY <1>4, <2>1, <2>2, <2>3
  <2>4. CASE m # j + 1 /\ n # j + 1
    <3>1. m # n => from(m) # from(n)
      BY <1>1, <2>4
    <3> HIDE DEF from
    <3>2. QED
      BY <1>1, <2>1, <2>4, <3>1
  <2>5. QED
    BY <2>3, <2>4
<1>10. \A b \in DOMAIN g : \E n \in 1 .. k + 1 : q[n] = b
  <2> TAKE b \in DOMAIN g
  <2>1. CASE b = new
    <3>1. j + 1 \in 1 .. k + 1
      BY <1>1
    <3>2. QED
      BY <1>4, <2>1, <3>1
  <2>2. CASE b \in DOMAIN heap
    <3>1. PICK n \in 1 .. k : p[n] = b
      BY <1>1, <2>2
    <3>2. CASE n <= j
      <4>1. n \in 1 .. j /\ n \in 1 .. k + 1
        BY <1>1, <3>2
      <4>2. QED
        BY <1>4, <3>1, <4>1
    <3>3. CASE n > j
      <4>1. n + 1 \in j + 2 .. k + 1 /\ n + 1 \in 1 .. k + 1 /\ (n + 1) - 1 = n
        BY <1>1, <3>3
      <4>2. q[n + 1] = b
        BY <1>4, <3>1, <4>1
      <4>3. QED
        BY <4>1, <4>2
    <3>4. QED
      BY <1>1, <3>2, <3>3
  <2>3. QED
    BY <1>2, <2>1, <2>2
<1>11. LeadsThrough(g, list, q, k + 1)
  <2>1. k + 1 \in Nat \ {0} /\ (k + 1) - 1 = k
    BY <1>1
  <2>2. QED
    BY <1>6, <1>7, <1>8, <1>9, <1>10, <2>1 DEF LeadsThrough
<1>12. \A b \in DOMAIN heap : heap[b].begin \in Int /\ heap[b].end \in Int
  BY DEF TypeOK
<1>13. \A n \in 1 .. k : heap[p[n]].end + 1 = IF n = k THEN memorySize ELSE heap[p[n + 1]].begin
  BY DEF Tiled
<1>14. ASSUME NEW n \in 1 .. k + 1
       PROVE  g[q[n]].end + 1 = IF n = k + 1 THEN memorySize ELSE g[q[n + 1]].begin
  <2>0. \A b \in DOMAIN heap : g[b].begin = heap[b].begin
    BY <1>3
  <2>1. CASE n < j
    <3>1. n \in 1 .. k /\ n + 1 \in 1 .. k /\ n \in 1 .. j /\ n + 1 \in 1 .. j /\ n # k + 1 /\ n # k
      BY <1>1, <2>1
    <3>2. q[n] = p[n] /\ q[n + 1] = p[n + 1] /\ p[n] \in DOMAIN heap \ {a} /\ p[n + 1] \in DOMAIN heap
      BY <1>1, <1>4, <1>5, <2>1, <3>1
    <3>3. QED
      BY <1>3, <1>13, <2>0, <3>1, <3>2
  <2>2. CASE n = j
    <3>1. q[n] = a /\ q[n + 1] = new /\ n # k + 1
      BY <1>1, <1>4, <2>2 DEF a
    <3>2. QED
      BY <1>3, <1>5, <1>12, <3>1
  <2>3. CASE n = j + 1
    <3>1. q[n] = new /\ g[new].end = heap[a].end /\ j \in 1 .. k
      BY <1>3, <1>4, <2>3
    <3>2. CASE j = k
      BY <1>13, <2>3, <3>1, <3>2 DEF a
    <3>3. CASE j # k
      <4>1. n + 1 \in j + 2 .. k + 1 /\ (n + 1) - 1 = n /\ n # k + 1 /\ n \in 1 .. k
        BY <1>1, <2>3, <3>3
      <4>2. q[n + 1] = p[j + 1] /\ p[j + 1] \in DOMAIN heap
        BY <1>1, <1>4, <2>3, <4>1
      <4>3. QED
        BY <1>13, <2>0, <3>1, <3>3, <4>1, <4>2 DEF a
    <3>4. QED
      BY <3>2, <3>3
  <2>4. CASE n > j + 1
    <3>1. n \in j + 2 .. k + 1 /\ n - 1 \in 1 .. k /\ n - 1 # j /\ (n - 1) + 1 = n
      BY <1>1, <2>4
    <3>2. q[n] = p[n - 1] /\ p[n - 1] \in DOMAIN heap \ {a}
      BY <1>4, <1>5, <3>1
    <3>3. CASE n = k + 1
      <4>1. n - 1 = k
        BY <1>1, <3>3
      <4>2. QED
        BY <1>3, <1>13, <3>1, <3>2, <3>3, <4>1
    <3>4. CASE n # k + 1
      <4>1. n \in 1 .. k /\ n + 1 \in j + 2 .. k + 1 /\ (n + 1) - 1 = n /\ n - 1 # k
        <5>1. k \in Nat /\ j \in 1 .. k
          BY <1>1
        <5>2. QED
          BY <2>4, <3>4, <5>1
      <4>2. q[n + 1] = p[n] /\ p[n] \in DOMAIN heap
        BY <1>1, <1>4, <4>1
      <4>3. QED
        BY <1>3, <1>13, <2>0, <3>1, <3>2, <3>4, <4>1, <4>2
    <3>5. QED
      BY <3>3, <3>4
  <2>5. QED
    BY <1>1, <2>1, <2>2, <2>3, <2>4
<1>15. QED
  BY <1>11, <1>14 DEF Tiled, q

LEMMA JoinPath ==
  ASSUME NEW h, NEW P, h \in [DOMAIN h -> Region(P)], NULL \notin DOMAIN h,
         NEW l, NEW r, Linked(h, l, r),
         NEW p, NEW k, LeadsThrough(h, l, p, k), Tiled(h, p, k),
         NEW i \in 1 .. k - 1, NEW g, IsJoined(g, h, p[i + 1], p[i])
  PROVE  /\ LeadsThrough(g, IF h[p[i]].pre = NULL THEN p[i + 1] ELSE l, WithoutRegion(p, k, i), k - 1)
         /\ Tiled(g, WithoutRegion(p, k, i), k - 1)
<1> DEFINE q == WithoutRegion(p, k, i)
           t == p[i]
           a == p[i + 1]
           m == IF h[t].pre = NULL THEN a ELSE l
<1>0. k \in Nat /\ i \in 1 .. k - 1 /\ k - 1 \in Nat \ {0} /\ i \in 1 .. k /\ i + 1 \in 1 .. k
  BY DEF LeadsThrough
<1>1. /\ p \in [1 .. k -> DOMAIN h]
      /\ p[1] = l /\ h[p[k]].next = NULL
      /\ \A n \in 1 .. k - 1 : p[n + 1] = h[p[n]].next
      /\ \A x, n \in 1 .. k : x # n => p[x] # p[n]
      /\ \A b \in DOMAIN h : \E n \in 1 .. k : p[n] = b
  BY DEF LeadsThrough
<1>2. h[t].pre = IF i = 1 THEN NULL ELSE p[i - 1]
  BY <1>0, PathBack
<1>3. /\ DOMAIN g = DOMAIN h \ {t}
      /\ g[a].next = h[a].next
      /\ g[a].begin = h[t].begin /\ g[a].end = h[a].end
      /\ \A b \in DOMAIN h \ {a, t} :
           /\ g[b].begin = h[b].begin /\ g[b].end = h[b].end
           /\ g[b].next = IF b = h[t].pre THEN a ELSE h[b].next
  BY DEF IsJoined
<1>4. /\ \A n \in 1 .. i - 1 : q[n] = p[n]
      /\ \A n \in i .. k - 1 : q[n] = p[n + 1]
      /\ q[i] = a
  BY <1>0 DEF WithoutRegion
<1>5. /\ a \in DOMAIN h /\ t \in DOMAIN h /\ a # t
      /\ \A n \in 1 .. k : n # i => p[n] \in DOMAIN h \ {t}
      /\ \A n \in 1 .. k : n # i /\ n # i + 1 => p[n] \in DOMAIN h \ {a, t}
      /\ \A n \in 1 .. k : n # i /\ n # i + 1 => (p[n] = h[t].pre <=> n = i - 1)
  <2>1. a \in DOMAIN h /\ t \in DOMAIN h /\ a # t /\ i # i + 1
    BY <1>0, <1>1
  <2>2. \A n \in 1 .. k : n # i => p[n] \in DOMAIN h \ {t}
    BY <1>0, <1>1
  <2>3. \A n \in 1 .. k : n # i /\ n # i + 1 => p[n] \in DOMAIN h \ {a, t}
    BY <1>0, <1>1
  <2>4. ASSUME NEW n \in 1 .. k, n # i, n # i + 1 PROVE p[n] = h[t].pre <=> n = i - 1
    <3>1. CASE i = 1
      BY <1>1, <1>2, <3>1
    <3>2. CASE i # 1
      <4>1. i - 1 \in 1 .. k
        BY <1>0, <3>2
      <4>2. QED
        BY <1>1, <1>2, <3>2, <4>1
    <3>3. QED
      BY <3>1, <3>2
  <2>5. QED
    BY <2>1, <2>2, <2>3, <2>4
<1>6. q \in [1 .. k - 1 -> DOMAIN g] /\ Len(q) = k - 1
  <2>1. \A n \in 1 .. k - 1 : (IF n < i THEN p[n] ELSE p[n + 1]) \in DOMAIN g
    <3> TAKE n \in 1 .. k - 1
    <3>1. CASE n < i
      BY <1>0, <1>3, <1>5, <3>1
    <3>2. CASE ~ (n < i)
      <4>1. n + 1 \in 1 .. k /\ n + 1 # i
        BY <1>0, <3>2
      <4>2. QED
        BY <1>3, <1>5, <3>2, <4>1
    <3>3. QED
      BY <3>1, <3>2
  <2>2. QED
    BY <1>0, <2>1 DEF WithoutRegion
<1> HIDE DEF q, a, t
<1>7. q[1] = m /\ g[q[k - 1]].next = NULL
  <2>1. q[1] = m
    <3>1. CASE i = 1
      BY <1>2, <1>4, <3>1
    <3>2. CASE i # 1
      <4>1. 1 \in 1 .. i - 1 /\ i - 1 \in 1 .. k
        BY <1>0, <3>2
      <4>2. h[t].pre # NULL
        BY <1>1, <1>2, <3>2, <4>1
      <4>3. QED
        BY <1>1, <1>4, <4>1, <4>2
    <3>3. QED
      BY <3>1, <3>2
  <2>2. k - 1 \in i .. k - 1 /\ (k - 1) + 1 = k /\ k \in 1 .. k
    BY <1>0
  <2>3. q[k - 1] = p[k]
    BY <1>4, <2>2
  <2>4. g[q[k - 1]].next = NULL
    <3>1. CASE k = i + 1
      BY <1>1, <1>3, <2>3, <3>1 DEF a
    <3>2. CASE k # i + 1
      <4>1. k # i /\ k # i - 1
        BY <1>0
      <4>2. p[k] \in DOMAIN h \ {a, t} /\ p[k] # h[t].pre
        BY <1>5, <2>2, <3>2, <4>1
      <4>3. QED
        BY <1>1, <1>3, <2>3, <4>2
    <3>3. QED
      BY <3>1, <3>2
  <2>5. QED
    BY <2>1, <2>4
<1>8. ASSUME NEW n \in 1 .. (k - 1) - 1 PROVE q[n + 1] = g[q[n]].next
  <2>1. CASE n < i - 1
    <3>1. /\ n \in 1 .. i - 1 /\ n + 1 \in 1 .. i - 1 /\ n \in 1 .. k /\ n \in 1 .. k - 1
          /\ n # i /\ n # i + 1 /\ n # i - 1
      BY <1>0, <2>1
    <3>2. q[n] = p[n] /\ q[n + 1] = p[n + 1] /\ p[n] \in DOMAIN h \ {a, t} /\ p[n] # h[t].pre
      BY <1>4, <1>5, <3>1
    <3>3. QED
      BY <1>1, <1>3, <3>1, <3>2
  <2>2. CASE n = i - 1
    <3>1. n \in 1 .. i - 1 /\ n + 1 = i /\ n \in 1 .. k /\ n # i /\ n # i + 1
      BY <1>0, <2>2
    <3>2. q[n] = p[n] /\ q[n + 1] = a /\ p[n] \in DOMAIN h \ {a, t} /\ p[n] = h[t].pre
      BY <1>4, <1>5, <2>2, <3>1
    <3>3. QED
      BY <1>3, <3>2
  <2>3. CASE n = i
    <3>1. n + 1 \in i .. k - 1 /\ n + 1 \in 1 .. k - 1
      BY <1>0, <2>3
    <3>2. q[n] = a /\ q[n + 1] = p[(i + 1) + 1]
      BY <1>4, <2>3, <3>1
    <3>3. p[(i + 1) + 1] = h[a].next
      BY <1>1, <2>3, <3>1 DEF a
    <3>4. QED
      BY <1>3, <3>2, <3>3
  <2>4. CASE n > i
    <3>1. /\ n \in i .. k - 1 /\ n + 1 \in i .. k - 1 /\ n + 1 \in 1 .. k /\ n + 1 \in 1 .. k - 1
          /\ n + 1 # i /\ n + 1 # i + 1 /\ n + 1 # i - 1
      BY <1>0, <2>4
    <3>2. /\ q[n] = p[n + 1] /\ q[n + 1] = p[(n + 1) + 1]
          /\ p[n + 1] \in DOMAIN h \ {a, t} /\ p[n + 1] # h[t].pre
      BY <1>4, <1>5, <3>1
    <3>3. p[(n + 1) + 1] = h[p[n + 1]].next
      BY <1>1, <3>1
    <3>4. QED
      BY <1>3, <3>2, <3>3
  <2>5. n \in Int /\ i \in Int
    BY <1>0
  <2>6. QED
    BY <2>1, <2>2, <2>3, <2>4, <2>5
<1> DEFINE from(n) == IF n < i THEN n ELSE n + 1
<1>9. \A n \in 1 .. k - 1 : from(n) \in 1 .. k /\ from(n) # i /\ q[n] = p[from(n)]
  BY <1>0, <1>4
<1>10. \A x, n \in 1 .. k - 1 : x # n => q[x] # q[n]
  <2> TAKE x, n \in 1 .. k - 1
  <2>1. x # n => from(x) # from(n)
    BY <1>0
  <2> HIDE DEF from
  <2>2. QED
    BY <1>1, <1>9, <2>1
<1>11. \A b \in DOMAIN g : \E n \in 1 .. k - 1 : q[n] = b
  <2> TAKE b \in DOMAIN g
  <2>1. PICK n \in 1 .. k : p[n] = b
    BY <1>1, <1>3
  <2>2. n # i
    BY <1>3, <2>1 DEF t
  <2>3. CASE n < i
    <3>1. n \in 1 .. i - 1 /\ n \in 1 .. k - 1
      BY <1>0, <2>3
    <3>2. QED
      BY <1>4, <2>1, <3>1
  <2>4. CASE n > i
    <3>1. n - 1 \in i .. k - 1 /\ n - 1 \in 1 .. k - 1 /\ (n - 1) + 1 = n
      BY <1>0, <2>4
    <3>2. q[n - 1] = b
      BY <1>4, <2>1, <3>1
    <3>3. QED
      BY <3>1, <3>2
  <2>5. QED
    BY <1>0, <2>2, <2>3, <2>4
<1>12. LeadsThrough(g, m, q, k - 1)
  BY <1>0, <1>6, <1>7, <1>8, <1>10, <1>11 DEF LeadsThrough
<1>13. \A n \in 1 .. k : h[p[n]].end + 1 = IF n = k THEN memorySize ELSE h[p[n + 1]].begin
  BY DEF Tiled
<1>14. ASSUME NEW n \in 1 .. k - 1
       PROVE  g[q[n]].end + 1 = IF n = k - 1 THEN memorySize ELSE g[q[n + 1]].begin
  <2>1. CASE n < i - 1
    <3>1. /\ n \in 1 .. i - 1 /\ n + 1 \in 1 .. i - 1 /\ n \in 1 .. k /\ n + 1 \in 1 .. k
          /\ n # i /\ n # i + 1 /\ n + 1 # i /\ n + 1 # i + 1 /\ n # k /\ n # k - 1
      BY <1>0, <2>1
    <3>2. /\ q[n] = p[n] /\ q[n + 1] = p[n + 1]
          /\ p[n] \in DOMAIN h \ {a, t} /\ p[n + 1] \in DOMAIN h \ {a, t}
      BY <1>4, <1>5, <3>1
    <3>3. QED
      BY <1>3, <1>13, <3>1, <3>2
  <2>2. CASE n = i - 1
    <3>1. n \in 1 .. i - 1 /\ n + 1 = i /\ n \in 1 .. k /\ n # i /\ n # i + 1 /\ n # k /\ n # k - 1
      BY <1>0, <2>2
    <3>2. q[n] = p[n] /\ q[n + 1] = a /\ p[n] \in DOMAIN h \ {a, t} /\ p[n + 1] = t
      BY <1>4, <1>5, <3>1 DEF t
    <3>3. QED
      BY <1>3, <1>13, <3>1, <3>2
  <2>3. CASE n = i
    <3>1. q[n] = a /\ g[a].end = h[a].end
      BY <1>3, <1>4, <2>3
    <3>2. CASE n = k - 1
      <4>1. i + 1 = k
        BY <1>0, <2>3, <3>2
      <4>2. QED
        BY <1>0, <1>13, <3>1, <3>2, <4>1 DEF a
    <3>3. CASE n # k - 1
      <4>1. /\ n + 1 \in i .. k - 1 /\ (i + 1) + 1 \in 1 .. k /\ i + 1 # k
            /\ (i + 1) + 1 # i /\ (i + 1) + 1 # i + 1
        BY <1>0, <2>3, <3>3
      <4>2. q[n + 1] = p[(i + 1) + 1] /\ p[(i + 1) + 1] \in DOMAIN h \ {a, t}
        BY <1>4, <1>5, <2>3, <4>1
      <4>3. h[a].end + 1 = h[p[(i + 1) + 1]].begin
        BY <1>0, <1>13, <4>1 DEF a
      <4>4. QED
        BY <1>3, <3>1, <3>3, <4>2, <4>3
    <3>4. QED
      BY <3>2, <3>3
  <2>4. CASE n > i
    <3>1. n \in i .. k - 1 /\ n + 1 \in 1 .. k /\ n + 1 # i /\ n + 1 # i + 1
      BY <1>0, <2>4
    <3>2. q[n] = p[n + 1] /\ p[n + 1] \in DOMAIN h \ {a, t}
      BY <1>4, <1>5, <3>1
    <3>3. CASE n = k - 1
      <4>1. n + 1 = k
        BY <1>0, <3>3
      <4>2. QED
        BY <1>3, <1>13, <3>1, <3>2, <3>3, <4>1
    <3>4. CASE n # k - 1
      <4>1. /\ n + 1 \in i .. k - 1 /\ (n + 1) + 1 \in 1 .. k /\ n + 1 # k
            /\ (n + 1) + 1 # i /\ (n + 1) + 1 # i + 1
        BY <1>0, <2>4, <3>4
      <4>2. q[n + 1] = p[(n + 1) + 1] /\ p[(n + 1) + 1] \in DOMAIN h \ {a, t}
        BY <1>4, <1>5, <4>1
      <4>3. h[p[n + 1]].end + 1 = h[p[(n + 1) + 1]].begin
        BY <1>13, <3>1, <4>1
      <4>4. QED
        BY <1>3, <3>2, <3>4, <4>2, <4>3
    <3>5. QED
      BY <3>3, <3>4
  <2>5. n \in Int /\ i \in Int
    BY <1>0
  <2>6. QED
    BY <2>1, <2>2, <2>3, <2>4, <2>5
<1>15. QED
  BY <1>12, <1>14 DEF Tiled, q, a, t

-----------------------------------------------------------------------------
\* Entry i of a row in which the front of the region at n is taken, the rest being there or not.
TakenAt(row, n, process, size, rest, i) ==
  IF i < n THEN row[i]
  ELSE IF i = n THEN [name |-> process, begin |-> row[n].begin]
  ELSE IF rest = 1 /\ i = n + 1 THEN [name |-> Unused, begin |-> row[n].begin + size]
  ELSE row[i - rest]

IsTaken(other, row, n, process, size) ==
  \E rest :
    /\ rest = IF Map!Size(row, n) = size THEN 0 ELSE 1
    /\ Len(other) = Len(row) + rest
    /\ \A i \in 1 .. Len(other) : other[i] = TakenAt(row, n, process, size, rest, i)

LEMMA TakenIs ==
  ASSUME NEW row \in Seq(Entries), NEW n \in 1 .. Len(row), NEW process \in Names, NEW size \in Nat,
         NEW other \in Seq(Entries), IsTaken(other, row, n, process, size)
  PROVE  other = Map!Taken(row, n, process, size)
<1> PICK rest :
      /\ rest = IF Map!Size(row, n) = size THEN 0 ELSE 1
      /\ Len(other) = Len(row) + rest
      /\ \A i \in 1 .. Len(other) : other[i] = TakenAt(row, n, process, size, rest, i)
  BY DEF IsTaken
<1> DEFINE x == SubSeq(row, 1, n - 1)
           y == <<[name |-> process, begin |-> row[n].begin]>>
           z == IF rest = 0 THEN << >> ELSE <<[name |-> Unused, begin |-> row[n].begin + size]>>
           w == SubSeq(row, n + 1, Len(row))
           N == Len(row)
<1>1. Map!Taken(row, n, process, size) = ((x \o y) \o z) \o w
  <2>1. CASE Map!Size(row, n) = size
    <3>1. z = << >>
      BY <2>1
    <3> HIDE DEF z
    <3>2. QED
      BY <2>1, <3>1 DEF Map!Taken, Map!Region
  <2>2. CASE Map!Size(row, n) # size
    <3>1. z = <<[name |-> Unused, begin |-> row[n].begin + size]>>
      BY <2>2
    <3> HIDE DEF z
    <3>2. QED
      BY <2>2, <3>1 DEF Map!Taken, Map!Region
  <2>3. QED
    BY <2>1, <2>2
<1>2. N \in Nat /\ n \in 1 .. N /\ rest \in {0, 1} /\ \A i \in 1 .. N : row[i] \in Entries
  OBVIOUS
<1>3. x \in Seq(Entries) /\ Len(x) = n - 1 /\ \A i \in 1 .. n - 1 : x[i] = row[i]
  <2>1. \A i \in 1 .. n - 1 : row[i] \in Entries
    BY <1>2
  <2>2. /\ x \in Seq(Entries)
        /\ Len(x) = IF 1 <= n - 1 THEN (n - 1) - 1 + 1 ELSE 0
        /\ \A i \in 1 .. (n - 1) - 1 + 1 : x[i] = row[1 + i - 1]
    BY <1>2, <2>1, SubSeqProperties
  <2> HIDE DEF x
  <2>3. QED
    BY <1>2, <2>2
<1>4. w \in Seq(Entries) /\ Len(w) = N - n /\ \A i \in 1 .. N - n : w[i] = row[n + i]
  <2>1. \A i \in n + 1 .. N : row[i] \in Entries
    BY <1>2
  <2>2. /\ w \in Seq(Entries)
        /\ Len(w) = IF n + 1 <= N THEN N - (n + 1) + 1 ELSE 0
        /\ \A i \in 1 .. N - (n + 1) + 1 : w[i] = row[n + 1 + i - 1]
    BY <1>2, <2>1, SubSeqProperties
  <2> HIDE DEF w
  <2>3. QED
    BY <1>2, <2>2
<1>5. row[n].begin \in Nat /\ process \in Names \cup {Unused}
  BY <1>2 DEF Entries
<1>6. y \in Seq(Entries) /\ Len(y) = 1 /\ y[1] = [name |-> process, begin |-> row[n].begin]
  BY <1>5 DEF Entries
<1>7. /\ z \in Seq(Entries) /\ Len(z) = rest
      /\ rest = 1 => z[1] = [name |-> Unused, begin |-> row[n].begin + size]
  <2>1. CASE rest = 0
    BY <2>1
  <2>2. CASE rest = 1
    <3> DEFINE e == [name |-> Unused, begin |-> row[n].begin + size]
    <3>0. row[n].begin + size \in Nat
      BY <1>5
    <3>1. e \in Entries /\ z = <<e>>
      BY <2>2, <3>0 DEF Entries
    <3> HIDE DEF e, z
    <3>2. z \in Seq(Entries) /\ Len(z) = 1 /\ z[1] = e
      BY <3>1
    <3>3. QED
      BY <2>2, <3>2 DEF e
  <2>3. QED
    BY <1>2, <2>1, <2>2
<1> HIDE DEF x, y, z, w, N
<1> DEFINE s == x \o y
           t == s \o z
           u == t \o w
<1>8. /\ s \in Seq(Entries) /\ Len(s) = n
      /\ \A i \in 1 .. n : s[i] = IF i <= n - 1 THEN x[i] ELSE y[i - (n - 1)]
  <2>1. /\ s \in Seq(Entries) /\ Len(s) = Len(x) + Len(y)
        /\ \A i \in 1 .. Len(x) + Len(y) : s[i] = IF i <= Len(x) THEN x[i] ELSE y[i - Len(x)]
    BY <1>3, <1>6, ConcatProperties
  <2> HIDE DEF s
  <2>2. Len(x) + Len(y) = n /\ Len(x) = n - 1
    BY <1>2, <1>3, <1>6
  <2>3. QED
    BY <2>1, <2>2
<1> HIDE DEF s
<1>9. /\ t \in Seq(Entries) /\ Len(t) = n + rest
      /\ \A i \in 1 .. n + rest : t[i] = IF i <= n THEN s[i] ELSE z[i - n]
  <2>1. /\ t \in Seq(Entries) /\ Len(t) = Len(s) + Len(z)
        /\ \A i \in 1 .. Len(s) + Len(z) : t[i] = IF i <= Len(s) THEN s[i] ELSE z[i - Len(s)]
    BY <1>7, <1>8, ConcatProperties
  <2> HIDE DEF t
  <2>2. Len(s) + Len(z) = n + rest /\ Len(s) = n
    BY <1>7, <1>8
  <2>3. QED
    BY <2>1, <2>2
<1> HIDE DEF t
<1>10. /\ u \in Seq(Entries) /\ Len(u) = N + rest
       /\ \A i \in 1 .. N + rest : u[i] = IF i <= n + rest THEN t[i] ELSE w[i - (n + rest)]
  <2>1. /\ u \in Seq(Entries) /\ Len(u) = Len(t) + Len(w)
        /\ \A i \in 1 .. Len(t) + Len(w) : u[i] = IF i <= Len(t) THEN t[i] ELSE w[i - Len(t)]
    BY <1>4, <1>9, ConcatProperties
  <2> HIDE DEF u
  <2>2. Len(t) = n + rest /\ Len(t) + Len(w) = N + rest
    BY <1>2, <1>4, <1>9
  <2>3. QED
    BY <2>1, <2>2
<1> HIDE DEF u
<1>11. ASSUME NEW i \in 1 .. N + rest PROVE u[i] = other[i]
  <2>1. other[i] = TakenAt(row, n, process, size, rest, i)
    BY DEF N
  <2>2. CASE i < n
    <3>1. i \in 1 .. n - 1 /\ i \in 1 .. n /\ i <= n - 1 /\ i <= n /\ i \in 1 .. n + rest /\ i <= n + rest
      BY <1>2, <2>2
    <3>2. u[i] = t[i] /\ t[i] = s[i]
      BY <1>9, <1>10, <3>1
    <3>3. s[i] = x[i] /\ x[i] = row[i]
      BY <1>3, <1>8, <2>2, <3>1
    <3>4. QED
      BY <2>1, <2>2, <3>2, <3>3 DEF TakenAt
  <2>3. CASE i = n
    <3>1. i \in 1 .. n + rest /\ i <= n + rest /\ i \in 1 .. n /\ ~ (i <= n - 1) /\ i - (n - 1) = 1
      BY <1>2, <2>3
    <3>2. u[i] = t[i]
      BY <1>10, <3>1
    <3>3. t[i] = s[i]
      BY <1>9, <2>3, <3>1
    <3>4. s[i] = y[1]
      BY <1>8, <3>1
    <3>5. other[i] = y[1]
      BY <1>2, <1>6, <2>1, <2>3 DEF TakenAt
    <3>6. QED
      BY <3>2, <3>3, <3>4, <3>5
  <2>4. CASE rest = 1 /\ i = n + 1
    <3>1. i \in 1 .. n + rest /\ i <= n + rest /\ ~ (i <= n) /\ i - n = 1 /\ ~ (i < n) /\ i # n
      BY <1>2, <2>4
    <3>2. u[i] = z[1]
      BY <1>9, <1>10, <3>1
    <3>3. QED
      BY <1>7, <2>1, <2>4, <3>1, <3>2 DEF TakenAt
  <2>5. CASE i > n + rest
    <3>1. /\ ~ (i <= n + rest) /\ i - (n + rest) \in 1 .. N - n /\ n + (i - (n + rest)) = i - rest
          /\ ~ (i < n) /\ i # n /\ ~ (rest = 1 /\ i = n + 1)
      BY <1>2, <2>5
    <3>2. u[i] = row[i - rest]
      BY <1>4, <1>10, <3>1
    <3>3. QED
      BY <2>1, <3>1, <3>2 DEF TakenAt
  <2>6. QED
    BY <1>2, <2>2, <2>3, <2>4, <2>5
<1>12. u = other
  <2>1. Len(other) = N + rest
    BY DEF N
  <2>2. QED
    BY <1>10, <1>11, <2>1, SeqEqual
<1>13. QED
  BY <1>1, <1>12 DEF u, t, s

-----------------------------------------------------------------------------
(***************************************************************************)
(* Each step of the list is a step of the row or none.  A region given     *)
(* back in a round of release had been taken for given back in the row     *)
(* since release began, and the one it is joined to makes no difference.   *)
(***************************************************************************)
\* What release of a process will make of a row.
Given(process, row) == Map!Coalesced[Map!Freed(process)[row]]

LEMMA Shown ==
  \A p, k : AllocatorInv /\ LeadsThrough(heap, list, p, k) =>
    /\ RowReleased = IF pc = "release" THEN Given(name, RowAlong(heap, p)) ELSE RowAlong(heap, p)
    /\ heap \in [DOMAIN heap -> Region(DOMAIN heap \cup {NULL})]
<1> SUFFICES ASSUME NEW p, NEW k, AllocatorInv, LeadsThrough(heap, list, p, k)
             PROVE  /\ RowReleased = IF pc = "release" THEN Given(name, RowAlong(heap, p))
                                                       ELSE RowAlong(heap, p)
                    /\ heap \in [DOMAIN heap -> Region(DOMAIN heap \cup {NULL})]
  OBVIOUS
<1>1. Row = RowAlong(heap, p)
  BY RowIs DEF IsPath
<1>2. RowReleased = IF pc = "release" THEN Now!Coalesced[Now!Freed(name)[Row]] ELSE Row
  BY DEF RowReleased
<1>3. \A row : Now!Coalesced[Now!Freed(name)[row]] = Given(name, row)
  BY DEF Given, Now!Coalesced, Now!Freed, Now!Rows, Now!Region,
         Map!Coalesced, Map!Freed, Map!Rows, Map!Region
<1>4. heap \in [DOMAIN heap -> Region(DOMAIN heap \cup {NULL})]
  BY DEF AllocatorInv, TypeOK, Region
<1>5. QED
  BY <1>1, <1>2, <1>3, <1>4

LEMMA ShownNext ==
  \A p, k : AllocatorInv' /\ LeadsThrough(heap', list', p, k) =>
    /\ RowReleased' = IF pc' = "release" THEN Given(name', RowAlong(heap', p)) ELSE RowAlong(heap', p)
    /\ heap' \in [DOMAIN heap' -> Region(DOMAIN heap' \cup {NULL})]
<1>1. (\A p, k : AllocatorInv /\ LeadsThrough(heap, list, p, k) =>
        /\ RowReleased = IF pc = "release" THEN Given(name, RowAlong(heap, p)) ELSE RowAlong(heap, p)
        /\ heap \in [DOMAIN heap -> Region(DOMAIN heap \cup {NULL})])'
  BY Shown, PTL
<1>2. QED
  BY <1>1

\* While release is under way, what it is to give back lies before it.
Visited(p, k) ==
  pc = "release" =>
    /\ name \in Names
    /\ \A n \in 1 .. k : heap[p[n]].name = name =>
         cur # NULL /\ \A m \in 1 .. k : p[m] = cur => m <= n

InOrder(p, k) == LeadsThrough(heap, list, p, k) /\ Tiled(heap, p, k) /\ Visited(p, k)

\* A region is as large in the row as in the list.
LEMMA SizeShown ==
  ASSUME AllocatorInv, NEW p, NEW k, InOrder(p, k), NEW n \in 1 .. k
  PROVE  Map!Size(RowAlong(heap, p), n) = SizeOf(p[n])
<1> DEFINE row == RowAlong(heap, p)
<1>1. /\ Len(row) = k
      /\ \A i \in 1 .. k : row[i] = [name |-> heap[p[i]].name, begin |-> heap[p[i]].begin]
  BY RowType, Shown DEF InOrder
<1> HIDE DEF row
<1>2. k \in Nat /\ p \in [1 .. k -> DOMAIN heap]
  BY DEF InOrder, LeadsThrough
<1>3. heap[p[n]].end + 1 = IF n = k THEN memorySize ELSE heap[p[n + 1]].begin
  BY DEF InOrder, Tiled
<1>4. Map!EndOf(row, n) = heap[p[n]].end + 1
  <2>1. CASE n = k
    BY <1>1, <1>3, <2>1 DEF Map!EndOf
  <2>2. CASE n # k
    <3>1. n + 1 \in 1 .. k
      BY <1>2, <2>2
    <3>2. row[n + 1].begin = heap[p[n + 1]].begin
      BY <1>1, <3>1
    <3>3. QED
      BY <1>1, <1>3, <2>2, <3>2 DEF Map!EndOf
  <2>3. QED
    BY <2>1, <2>2
<1>5. row[n].begin = heap[p[n]].begin
  BY <1>1
<1>6. heap[p[n]].begin \in Int /\ heap[p[n]].end \in Int
  BY <1>2 DEF AllocatorInv, TypeOK
<1>7. Map!Size(row, n) = SizeOf(p[n])
  BY <1>4, <1>5, <1>6 DEF Map!Size, SizeOf
<1>8. QED
  BY <1>7 DEF row

\* A region of a row that is unused and large enough, taken: the row's way to grant a request.
LEMMA RowTaken ==
  ASSUME NEW row \in Seq(Entries), RowReleased = row, NEW n \in 1 .. Len(row), row[n].name = Unused,
         NEW process \in Names, NEW size \in Nat, Map!Size(row, n) >= size,
         NEW other \in Seq(Entries), RowReleased' = other, IsTaken(other, row, n, process, size)
  PROVE  Map!Allocate(process, size)
<1>1. other = Map!Taken(row, n, process, size)
  BY TakenIs
<1>2. n \in DOMAIN row
  OBVIOUS
<1>3. QED
  BY <1>1, <1>2 DEF Map!Allocate

LEMMA GrantMapped ==
  ASSUME AllocatorInv, NEW p, NEW k, InOrder(p, k),
         NEW process \in Names, NEW size \in Int, NEW strategy \in Strategies,
         RequestGranted(process, size, strategy)
  PROVE  /\ \E q, j : InOrder(q, j)'
         /\ size \in Nat /\ Map!Allocate(process, size)
<1>1. TypeOK /\ NULL \notin DOMAIN heap /\ AllocatorInv'
  BY NoNull, GrantStep DEF AllocatorInv
<1>2. pc = "prompt" /\ pc' = "prompt" /\ list' = list
  BY DEF RequestGranted, releaseVars
<1>3. PICK a \in DOMAIN heap :
        /\ heap[a].name = Unused /\ 0 <= size /\ size <= SizeOf(a)
        /\ IF SizeOf(a) = size THEN heap' = [heap EXCEPT ![a].name = process]
           ELSE /\ Cardinality(DOMAIN heap) < MaxRegions
                /\ heap' = Split(a, size, process)
  BY GrantFits
<1>4. LeadsThrough(heap, list, p, k) /\ Tiled(heap, p, k)
  BY DEF InOrder
<1>5. k \in Nat \ {0} /\ p \in [1 .. k -> DOMAIN heap] /\ \A x, n \in 1 .. k : x # n => p[x] # p[n]
  BY <1>4 DEF LeadsThrough
<1>6. PICK j \in 1 .. k : p[j] = a
  BY <1>4 DEF LeadsThrough
<1>7. PICK row : row = RowAlong(heap, p)
  OBVIOUS
<1>8. /\ row \in Seq(Entries) /\ Len(row) = k /\ RowReleased = row
      /\ \A n \in 1 .. k : row[n] = [name |-> heap[p[n]].name, begin |-> heap[p[n]].begin]
  BY <1>2, <1>4, <1>7, Shown, RowType
<1>9. j \in 1 .. Len(row) /\ row[j].name = Unused /\ size \in Nat
      /\ Map!Size(row, j) = SizeOf(a) /\ Map!Size(row, j) >= size
  <2>1. Map!Size(row, j) = SizeOf(a)
    BY <1>6, <1>7, SizeShown
  <2>2. SizeOf(a) \in Int
    BY <1>1, <1>3 DEF TypeOK, SizeOf
  <2>3. QED
    BY <1>3, <1>6, <1>8, <2>1, <2>2
<1>10. ASSUME NEW q, NEW i, LeadsThrough(heap', list', q, i), Tiled(heap', q, i),
              NEW rest, rest = (IF SizeOf(a) = size THEN 0 ELSE 1), i = k + rest,
              \A n \in 1 .. i : [name |-> heap'[q[n]].name, begin |-> heap'[q[n]].begin]
                                  = TakenAt(row, j, process, size, rest, n)
       PROVE  /\ \E c, d : InOrder(c, d)'
              /\ size \in Nat /\ Map!Allocate(process, size)
  <2>1. InOrder(q, i)'
    BY <1>2, <1>10 DEF InOrder, Visited
  <2>2. PICK other : other = RowAlong(heap', q)
    OBVIOUS
  <2>3. RowReleased' = other /\ heap' \in [DOMAIN heap' -> Region(DOMAIN heap' \cup {NULL})]
    BY <1>1, <1>2, <1>10, <2>2, ShownNext
  <2>4. /\ other \in Seq(Entries) /\ Len(other) = i
        /\ \A n \in 1 .. i : other[n] = [name |-> heap'[q[n]].name, begin |-> heap'[q[n]].begin]
    BY <1>10, <2>2, <2>3, RowType
  <2>5. IsTaken(other, row, j, process, size)
    <3>1. Len(other) = Len(row) + rest /\ rest = (IF Map!Size(row, j) = size THEN 0 ELSE 1)
      BY <1>8, <1>9, <1>10, <2>4
    <3>2. \A n \in 1 .. Len(other) : other[n] = TakenAt(row, j, process, size, rest, n)
      BY <1>8, <1>9, <1>10, <2>4
    <3>3. QED
      BY <3>1, <3>2 DEF IsTaken
  <2>6. Map!Allocate(process, size)
    BY <1>8, <1>9, <2>3, <2>4, <2>5, RowTaken
  <2>7. QED
    BY <1>9, <2>1, <2>6
<1>11. CASE SizeOf(a) = size
  <2> DEFINE named == [heap[a] EXCEPT !.name = process]
  <2>1. \A b \in DOMAIN heap : heap[b] \in Region(DOMAIN heap \cup {NULL})
    BY <1>1 DEF TypeOK, Region
  <2>2. /\ named.name = process /\ named.begin = heap[a].begin /\ named.end = heap[a].end
        /\ named.next = heap[a].next
    BY <1>3, <2>1 DEF Region
  <2>3. heap' = [b \in DOMAIN heap |-> IF b = a THEN named ELSE heap[b]]
    BY <1>1, <1>3, <1>11 DEF TypeOK
  <2> HIDE DEF named
  <2>4. /\ DOMAIN heap' = DOMAIN heap
        /\ \A b \in DOMAIN heap : /\ heap'[b].next = heap[b].next
                                  /\ heap'[b].begin = heap[b].begin /\ heap'[b].end = heap[b].end
                                  /\ heap'[b].name = IF b = a THEN process ELSE heap[b].name
    BY <2>2, <2>3
  <2>5. LeadsThrough(heap', list', p, k)
    BY <1>2, <1>4, <2>4, SameWay
  <2>6. Tiled(heap', p, k)
    <3>1. \A n \in 1 .. k : n # k => n + 1 \in 1 .. k
      BY <1>5
    <3>2. QED
      BY <1>4, <1>5, <2>4, <3>1 DEF Tiled
  <2>7. ASSUME NEW n \in 1 .. k
        PROVE  [name |-> heap'[p[n]].name, begin |-> heap'[p[n]].begin]
                 = TakenAt(row, j, process, size, 0, n)
    <3>1. CASE n = j
      <4>1. heap'[p[n]].name = process /\ heap'[p[n]].begin = heap[p[n]].begin
        BY <1>6, <2>4, <3>1
      <4>2. row[n].begin = heap[p[n]].begin /\ ~ (n < j)
        BY <1>8, <3>1
      <4>3. QED
        BY <3>1, <4>1, <4>2 DEF TakenAt
    <3>2. CASE n # j
      <4>1. p[n] # a /\ p[n] \in DOMAIN heap
        BY <1>5, <1>6, <3>2
      <4>2. [name |-> heap'[p[n]].name, begin |-> heap'[p[n]].begin] = row[n]
        BY <1>8, <2>4, <4>1
      <4>3. n - 0 = n
        BY <1>5
      <4>4. QED
        BY <3>2, <4>2, <4>3 DEF TakenAt
    <3>3. QED
      BY <3>1, <3>2
  <2>8. k = k + 0
    BY <1>5
  <2>9. QED
    BY <1>10, <1>11, <2>5, <2>6, <2>7, <2>8
<1>12. CASE SizeOf(a) # size
  <2> DEFINE new == NewAddress
             q == WithRegion(p, k, j, new)
  <2>1. size < SizeOf(a) /\ Cardinality(DOMAIN heap) < MaxRegions /\ heap' = Split(a, size, process)
    <3>1. SizeOf(a) \in Int
      BY <1>1, <1>3 DEF TypeOK, SizeOf
    <3>2. QED
      BY <1>3, <1>12, <3>1
  <2>2. heap[a].next # a
    <3>1. PICK r : Linked(heap, list, r)
      BY DEF AllocatorInv
    <3>2. r[a] \in Nat
      BY <1>3, <3>1 DEF Linked
    <3>3. QED
      BY <1>1, <1>3, <3>1, <3>2 DEF Linked, Follows
  <2>3. PICK g : g = heap'
    OBVIOUS
  <2>4. new \notin DOMAIN heap /\ IsSplit(g, a, new, size, process)
    BY <1>1, <1>3, <2>1, <2>2, <2>3, SplitFacts
  <2> HIDE DEF new
  <2>5. LeadsThrough(g, list, q, k + 1) /\ Tiled(g, q, k + 1)
    BY <1>1, <1>4, <1>6, <2>4, SplitPath DEF IsPath
  <2>6. /\ q[j] = a /\ q[j + 1] = new
        /\ \A n \in 1 .. k + 1 : n < j => q[n] = p[n] /\ p[n] \in DOMAIN heap \ {a}
        /\ \A n \in 1 .. k + 1 : n > j + 1 => /\ q[n] = p[n - 1] /\ p[n - 1] \in DOMAIN heap \ {a}
                                              /\ n - 1 \in 1 .. k
    BY <1>5, <1>6 DEF WithRegion
  <2> HIDE DEF q
  <2>7. ASSUME NEW n \in 1 .. k + 1
        PROVE  [name |-> g[q[n]].name, begin |-> g[q[n]].begin]
                 = TakenAt(row, j, process, size, 1, n)
    <3>1. /\ g[a].name = process /\ g[a].begin = heap[a].begin
          /\ g[new].name = Unused /\ g[new].begin = heap[a].begin + size
          /\ \A b \in DOMAIN heap \ {a} : g[b].name = heap[b].name /\ g[b].begin = heap[b].begin
      BY <2>4 DEF IsSplit
    <3>2. n \in Int /\ j \in Int /\ row[j].begin = heap[a].begin
      BY <1>5, <1>6, <1>8
    <3>3. CASE n < j
      <4>1. n \in 1 .. k /\ q[n] = p[n] /\ p[n] \in DOMAIN heap \ {a}
        BY <1>5, <2>6, <3>3
      <4>2. [name |-> g[q[n]].name, begin |-> g[q[n]].begin] = row[n]
        BY <1>8, <3>1, <4>1
      <4>3. QED
        BY <3>3, <4>2 DEF TakenAt
    <3>4. CASE n = j
      BY <2>6, <3>1, <3>2, <3>4 DEF TakenAt
    <3>5. CASE n = j + 1
      BY <2>6, <3>1, <3>2, <3>5 DEF TakenAt
    <3>6. CASE n > j + 1
      <4>1. q[n] = p[n - 1] /\ n - 1 \in 1 .. k /\ p[n - 1] \in DOMAIN heap \ {a}
        BY <2>6, <3>6
      <4>2. [name |-> g[q[n]].name, begin |-> g[q[n]].begin] = row[n - 1]
        BY <1>8, <3>1, <4>1
      <4>3. ~ (n < j) /\ n # j /\ n # j + 1
        BY <3>2, <3>6
      <4>4. QED
        BY <4>2, <4>3 DEF TakenAt
    <3>7. QED
      BY <3>2, <3>3, <3>4, <3>5, <3>6
  <2>8. QED
    BY <1>2, <1>10, <1>12, <2>3, <2>5, <2>7
<1>13. QED
  BY <1>11, <1>12

LEMMA GivenDrops ==
  ASSUME NEW row \in Seq(Entries), NEW other \in Seq(Entries), NEW m, Drops(other, row, m),
         NEW process \in Names
  PROVE  Given(process, other) = Given(process, row)
<1> DEFINE f == Map!Freed(process)[row]
           g == Map!Freed(process)[other]
<1>1. /\ f \in Seq(Entries) /\ Len(f) = Len(row)
      /\ \A n \in 1 .. Len(row) :
           f[n] = IF row[n].name = process THEN [name |-> Unused, begin |-> row[n].begin] ELSE row[n]
  BY FreedIs
<1>2. /\ g \in Seq(Entries) /\ Len(g) = Len(other)
      /\ \A n \in 1 .. Len(other) :
           g[n] = IF other[n].name = process THEN [name |-> Unused, begin |-> other[n].begin]
                                             ELSE other[n]
  BY FreedIs
<1> HIDE DEF f, g
<1>3. /\ m \in 2 .. Len(row) /\ Len(other) = Len(row) - 1
      /\ \A n \in 1 .. m - 1 : other[n] = row[n]
      /\ \A n \in m .. Len(row) - 1 : other[n] = row[n + 1]
      /\ row[m].name = Unused /\ row[m - 1].name = Unused
  BY DEF Drops
<1>4. Len(row) \in Nat /\ process # Unused
  BY AllocatorAssumption
<1>5. f[m].name = Unused /\ f[m - 1].name = Unused
  <2>1. m \in 1 .. Len(row) /\ m - 1 \in 1 .. Len(row)
    BY <1>3, <1>4
  <2>2. QED
    BY <1>1, <1>3, <1>4, <2>1
<1>6. \A n \in 1 .. m - 1 : g[n] = f[n]
  <2> TAKE n \in 1 .. m - 1
  <2>1. n \in 1 .. Len(row) /\ n \in 1 .. Len(other)
    BY <1>3, <1>4
  <2>2. QED
    BY <1>1, <1>2, <1>3, <2>1
<1>7. \A n \in m .. Len(row) - 1 : g[n] = f[n + 1]
  <2> TAKE n \in m .. Len(row) - 1
  <2>1. n + 1 \in 1 .. Len(row) /\ n \in 1 .. Len(other)
    BY <1>3, <1>4
  <2>2. QED
    BY <1>1, <1>2, <1>3, <2>1
<1>8. Drops(g, f, m)
  BY <1>1, <1>2, <1>3, <1>5, <1>6, <1>7 DEF Drops
<1>9. Map!Coalesced[g] = Map!Coalesced[f]
  BY <1>1, <1>2, <1>8, DropOne
<1>10. QED
  BY <1>9 DEF Given, f, g

\* Giving a region back before its turn in the row changes nothing.
LEMMA GivenAgain ==
  ASSUME NEW row \in Seq(Entries), NEW other \in Seq(Entries), NEW process \in Names,
         Len(other) = Len(row),
         \A n \in 1 .. Len(row) :
           \/ other[n] = row[n]
           \/ row[n].name = process /\ other[n] = [name |-> Unused, begin |-> row[n].begin]
  PROVE  Given(process, other) = Given(process, row)
<1> DEFINE f == Map!Freed(process)[row]
           g == Map!Freed(process)[other]
<1>1. /\ f \in Seq(Entries) /\ Len(f) = Len(row)
      /\ \A n \in 1 .. Len(row) :
           f[n] = IF row[n].name = process THEN [name |-> Unused, begin |-> row[n].begin] ELSE row[n]
  BY FreedIs
<1>2. /\ g \in Seq(Entries) /\ Len(g) = Len(other)
      /\ \A n \in 1 .. Len(other) :
           g[n] = IF other[n].name = process THEN [name |-> Unused, begin |-> other[n].begin]
                                             ELSE other[n]
  BY FreedIs
<1> HIDE DEF f, g
<1>3. process # Unused
  BY AllocatorAssumption
<1>4. \A n \in 1 .. Len(row) : g[n] = f[n]
  <2> TAKE n \in 1 .. Len(row)
  <2>1. g[n] = IF other[n].name = process THEN [name |-> Unused, begin |-> other[n].begin]
                                          ELSE other[n]
    BY <1>2
  <2>2. CASE other[n] = row[n]
    BY <1>1, <2>1, <2>2
  <2>3. CASE row[n].name = process /\ other[n] = [name |-> Unused, begin |-> row[n].begin]
    <3>1. other[n].name = Unused
      BY <2>3
    <3>2. g[n] = other[n]
      BY <1>3, <2>1, <3>1
    <3>3. QED
      BY <1>1, <2>3, <3>2
  <2>4. QED
    BY <2>2, <2>3
<1>5. g = f
  BY <1>1, <1>2, <1>4, SeqEqual
<1>6. QED
  BY <1>5 DEF Given, f, g

\* What is left of release when nothing is left to be given back.
LEMMA GivenNothing ==
  ASSUME NEW row \in Seq(Entries), NEW process \in Names,
         \A n \in 1 .. Len(row) : row[n].name # process /\ Heads(row, n)
  PROVE  Given(process, row) = row
<1> DEFINE f == Map!Freed(process)[row]
<1>1. /\ f \in Seq(Entries) /\ Len(f) = Len(row)
      /\ \A n \in 1 .. Len(row) :
           f[n] = IF row[n].name = process THEN [name |-> Unused, begin |-> row[n].begin] ELSE row[n]
  BY FreedIs
<1> HIDE DEF f
<1>2. f = row
  BY <1>1, SeqEqual
<1>3. Map!Coalesced[row] = row
  BY NothingToJoin
<1>4. QED
  BY <1>2, <1>3 DEF Given, f

\* In the row of what release makes nothing changes while it walks the list.
LEMMA RoundMapped ==
  ASSUME AllocatorInv, NEW p, NEW k, InOrder(p, k), ReleaseStep
  PROVE  (\E q, j : InOrder(q, j)') /\ RowReleased' = RowReleased
<1>1. TypeOK /\ NULL \notin DOMAIN heap /\ AllocatorInv'
  BY NoNull, ReleaseRound DEF AllocatorInv
<1>2. PICK r : Linked(heap, list, r)
  BY DEF AllocatorInv
<1>3. PICK h : h = GivenBack(heap, cur)
  OBVIOUS
<1>4. /\ pc = "release" /\ cur # NULL /\ cur \in DOMAIN heap
      /\ heap' = (IF JoinsPre(h, cur) THEN JoinedToPre(h, cur) ELSE h)
      /\ list' = IF heap'[cur].pre = NULL THEN cur ELSE list
      /\ cur' = heap'[cur].next
      /\ UNCHANGED <<pc, name, reply>>
  BY <1>1, <1>3 DEF ReleaseStep, TypeOK
<1>5. IsGiven(h, cur)
  BY <1>1, <1>3, <1>4, GivenBackIs
<1>6. /\ DOMAIN h = DOMAIN heap
      /\ h \in [DOMAIN h -> Region(DOMAIN h \cup {NULL})]
      /\ \A b \in DOMAIN heap : /\ h[b].pre = heap[b].pre /\ h[b].next = heap[b].next
                                /\ h[b].begin = heap[b].begin /\ h[b].end = heap[b].end
      /\ \A b \in DOMAIN heap \ {cur} : h[b].name = heap[b].name
      /\ h[cur].name = IF heap[cur].name = name THEN Unused ELSE heap[cur].name
  BY <1>5 DEF IsGiven
<1>7. LeadsThrough(heap, list, p, k) /\ Tiled(heap, p, k)
  BY DEF InOrder
<1>8. /\ k \in Nat \ {0} /\ p \in [1 .. k -> DOMAIN heap]
      /\ \A n \in 1 .. k - 1 : p[n + 1] = heap[p[n]].next
      /\ \A m, n \in 1 .. k : m # n => p[m] # p[n]
  BY <1>7 DEF LeadsThrough
<1>9. PICK j \in 1 .. k : p[j] = cur
  BY <1>4, <1>7 DEF LeadsThrough
<1>10. LeadsThrough(h, list, p, k) /\ Tiled(h, p, k) /\ Linked(h, list, r)
  <2>1. LeadsThrough(h, list, p, k)
    BY <1>6, <1>7, SameWay
  <2>2. Tiled(h, p, k)
    <3>1. \A n \in 1 .. k : n # k => n + 1 \in 1 .. k
      BY <1>8
    <3>2. QED
      BY <1>6, <1>7, <1>8, <3>1 DEF Tiled
  <2>3. Linked(h, list, r)
    BY <1>2, <1>6, Renamed
  <2>4. QED
    BY <2>1, <2>2, <2>3
<1>11. name \in Names /\ name # Unused
       /\ \A n \in 1 .. k : h[p[n]].name = name => j < n
  <2>1. /\ name \in Names
        /\ \A n \in 1 .. k : heap[p[n]].name = name => \A m \in 1 .. k : p[m] = cur => m <= n
    BY <1>4 DEF InOrder, Visited
  <2>2. name # Unused
    BY <2>1, AllocatorAssumption
  <2>3. ASSUME NEW n \in 1 .. k, h[p[n]].name = name PROVE j < n
    <3>1. p[n] # cur
      BY <1>6, <2>2, <2>3
    <3>2. n # j /\ heap[p[n]].name = name
      BY <1>6, <1>8, <1>9, <2>3, <3>1
    <3>3. j <= n
      BY <1>9, <2>1, <3>2
    <3>4. QED
      BY <1>8, <3>2, <3>3
  <2>4. QED
    BY <2>1, <2>2, <2>3
\* What is still to be given back lies from the next region on.
<1>12. \A n \in 1 .. k : h[p[n]].name = name =>
         j + 1 \in 1 .. k /\ j + 1 <= n /\ h[cur].next = p[j + 1] /\ p[j + 1] # NULL
  <2> SUFFICES ASSUME NEW n \in 1 .. k, h[p[n]].name = name
               PROVE  j + 1 \in 1 .. k /\ j + 1 <= n /\ h[cur].next = p[j + 1] /\ p[j + 1] # NULL
    OBVIOUS
  <2>1. j < n
    BY <1>11
  <2>2. j + 1 \in 1 .. k /\ j + 1 <= n /\ j \in 1 .. k - 1
    BY <1>8, <2>1
  <2>3. p[j + 1] = heap[cur].next /\ p[j + 1] \in DOMAIN heap
    BY <1>8, <1>9, <2>2
  <2>4. QED
    BY <1>1, <1>4, <1>6, <2>2, <2>3
<1>13. PICK row : row = RowAlong(heap, p)
  OBVIOUS
<1>14. PICK hrow : hrow = RowAlong(h, p)
  OBVIOUS
<1>15. /\ row \in Seq(Entries) /\ Len(row) = k /\ RowReleased = Given(name, row)
       /\ \A n \in 1 .. k : row[n] = [name |-> heap[p[n]].name, begin |-> heap[p[n]].begin]
  BY <1>4, <1>7, <1>13, Shown, RowType
<1>16. /\ hrow \in Seq(Entries) /\ Len(hrow) = k
       /\ \A n \in 1 .. k : hrow[n] = [name |-> h[p[n]].name, begin |-> h[p[n]].begin]
  BY <1>6, <1>10, <1>14, RowType
<1>17. Given(name, hrow) = Given(name, row)
  <2>1. ASSUME NEW n \in 1 .. k
        PROVE  \/ hrow[n] = row[n]
               \/ row[n].name = name /\ hrow[n] = [name |-> Unused, begin |-> row[n].begin]
    <3>1. p[n] \in DOMAIN heap /\ h[p[n]].begin = heap[p[n]].begin
      BY <1>6, <1>8
    <3>2. \/ h[p[n]].name = heap[p[n]].name
          \/ heap[p[n]].name = name /\ h[p[n]].name = Unused
      BY <1>6, <3>1
    <3>3. QED
      BY <1>15, <1>16, <3>1, <3>2
  <2>2. QED
    BY <1>11, <1>15, <1>16, <2>1, GivenAgain
<1>18. ASSUME NEW q, NEW i, LeadsThrough(heap', list', q, i), Tiled(heap', q, i),
              \A n \in 1 .. i : heap'[q[n]].name = name =>
                cur' # NULL /\ \A m \in 1 .. i : q[m] = cur' => m <= n,
              NEW other, other = RowAlong(heap', q), Given(name, other) = Given(name, hrow)
       PROVE  (\E c, d : InOrder(c, d)') /\ RowReleased' = RowReleased
  <2>1. InOrder(q, i)'
    BY <1>4, <1>11, <1>18 DEF InOrder, Visited
  <2>2. RowReleased' = Given(name', other)
    BY <1>1, <1>4, <1>18, ShownNext
  <2>3. RowReleased' = RowReleased
    BY <1>4, <1>15, <1>17, <1>18, <2>2
  <2>4. QED
    BY <2>1, <2>3
<1>19. CASE ~ JoinsPre(h, cur)
  <2>1. h = heap'
    BY <1>4, <1>19
  <2>2. list' = list
    <3>1. h[cur].pre = NULL => cur = list
      BY <1>4, <1>6, <1>10 DEF Linked
    <3>2. QED
      BY <1>4, <2>1, <3>1
  <2>3. ASSUME NEW n \in 1 .. k, h[p[n]].name = name
        PROVE  cur' # NULL /\ \A m \in 1 .. k : p[m] = cur' => m <= n
    <3>1. cur' = p[j + 1] /\ cur' # NULL /\ j + 1 \in 1 .. k /\ j + 1 <= n
      BY <1>4, <1>12, <2>1, <2>3
    <3>2. \A m \in 1 .. k : p[m] = cur' => m = j + 1
      BY <1>8, <3>1
    <3>3. QED
      BY <3>1, <3>2
  <2>4. QED
    BY <1>10, <1>14, <1>18, <2>1, <2>2, <2>3
<1>20. CASE JoinsPre(h, cur)
  <2> DEFINE t == p[j - 1]
             q == WithoutRegion(p, k, j - 1)
  <2>1. /\ h[cur].name = Unused /\ h[t].name = Unused /\ t = h[cur].pre
        /\ j - 1 \in 1 .. k - 1 /\ (j - 1) + 1 = j /\ t \in DOMAIN h /\ t # cur
    <3>1. h[cur].pre = IF j = 1 THEN NULL ELSE p[j - 1]
      BY <1>1, <1>6, <1>9, <1>10, PathBack
    <3>2. j # 1 /\ t = h[cur].pre
      BY <1>20, <3>1 DEF JoinsPre
    <3>3. j - 1 \in 1 .. k - 1 /\ (j - 1) + 1 = j /\ j - 1 \in 1 .. k /\ j - 1 # j
      BY <1>8, <3>2
    <3>4. t \in DOMAIN h /\ t # cur
      BY <1>6, <1>8, <1>9, <3>3
    <3>5. QED
      BY <1>20, <3>2, <3>3, <3>4 DEF JoinsPre
  <2>2. h[t].pre # cur
    <3>1. j - 1 \in 1 .. k
      BY <1>8, <2>1
    <3>2. h[t].pre = IF j - 1 = 1 THEN NULL ELSE p[j - 1 - 1]
      BY <1>1, <1>6, <1>10, <3>1, PathBack
    <3>3. j - 1 # 1 => j - 1 - 1 \in 1 .. k /\ j - 1 - 1 # j
      BY <1>8, <3>1
    <3>4. QED
      BY <1>4, <1>8, <1>9, <3>2, <3>3
  <2>3. PICK g : g = heap'
    OBVIOUS
  <2>4. IsJoined(g, h, cur, t)
    <3>1. g = JoinedToPre(h, cur)
      BY <1>4, <1>20, <2>3
    <3>2. \A b \in DOMAIN h : h[b] \in Region(DOMAIN h \cup {NULL})
      BY <1>6
    <3>3. cur \in DOMAIN h
      BY <1>4, <1>6
    <3> HIDE DEF t
    <3>4. QED
      BY <2>1, <2>2, <3>1, <3>2, <3>3, JoinFacts
  <2>5. /\ DOMAIN g = DOMAIN h \ {t}
        /\ g[cur].next = h[cur].next /\ g[cur].pre = h[t].pre /\ g[cur].name = h[cur].name
        /\ g[cur].begin = h[t].begin
        /\ \A b \in DOMAIN h \ {cur, t} : g[b].name = h[b].name /\ g[b].begin = h[b].begin
    BY <2>4 DEF IsJoined
  <2>6. list' = IF h[t].pre = NULL THEN cur ELSE list
    BY <1>4, <2>3, <2>5
  <2>7. LeadsThrough(g, list', q, k - 1) /\ Tiled(g, q, k - 1)
    <3>1. p[(j - 1) + 1] = cur
      BY <1>9, <2>1
    <3>2. IsJoined(g, h, p[(j - 1) + 1], p[j - 1])
      BY <2>4, <3>1
    <3>3. /\ LeadsThrough(g, IF h[p[j - 1]].pre = NULL THEN p[(j - 1) + 1] ELSE list, q, k - 1)
          /\ Tiled(g, q, k - 1)
      BY <1>1, <1>6, <1>10, <2>1, <3>2, JoinPath
    <3>4. QED
      BY <2>6, <3>1, <3>3
  <2>8. /\ \A n \in 1 .. k - 1 : n < j - 1 => q[n] = p[n]
        /\ q[j - 1] = cur
        /\ \A n \in j .. k - 1 : q[n] = p[n + 1]
    BY <1>8, <1>9, <2>1 DEF WithoutRegion
  <2> HIDE DEF q
  <2>9. /\ \A n \in 1 .. k : n < j - 1 => p[n] \in DOMAIN h \ {cur, t}
        /\ \A n \in 1 .. k : n > j => p[n] \in DOMAIN h \ {cur, t}
    <3>1. j - 1 \in 1 .. k
      BY <1>8, <2>1
    <3>2. ASSUME NEW n \in 1 .. k, n # j, n # j - 1 PROVE p[n] \in DOMAIN h \ {cur, t}
      BY <1>6, <1>8, <1>9, <3>1, <3>2
    <3>3. \A n \in 1 .. k : (n < j - 1 => n # j /\ n # j - 1) /\ (n > j => n # j /\ n # j - 1)
      BY <1>8
    <3>4. QED
      BY <3>2, <3>3
  <2> HIDE DEF t
  <2>10. ASSUME NEW n \in 1 .. k - 1, g[q[n]].name = name
         PROVE  cur' # NULL /\ \A m \in 1 .. k - 1 : q[m] = cur' => m <= n
    <3>1. PICK i \in 1 .. k : h[p[i]].name = name /\ n = i - 1
      <4>1. CASE n < j - 1
        <5>1. n \in 1 .. k /\ q[n] = p[n] /\ p[n] \in DOMAIN h \ {cur, t}
          BY <1>8, <2>8, <2>9, <4>1
        <5>2. h[p[n]].name = name
          BY <2>5, <2>10, <5>1
        <5>3. j < n
          BY <1>11, <5>1, <5>2
        <5>4. QED
          BY <1>8, <4>1, <5>3
      <4>2. CASE n = j - 1
        BY <1>11, <2>1, <2>5, <2>8, <2>10, <4>2
      <4>3. CASE n >= j
        <5>1. n \in j .. k - 1 /\ n + 1 \in 1 .. k /\ n + 1 > j /\ n = (n + 1) - 1
          BY <1>8, <4>3
        <5>2. q[n] = p[n + 1] /\ p[n + 1] \in DOMAIN h \ {cur, t}
          BY <2>8, <2>9, <5>1
        <5>3. h[p[n + 1]].name = name
          BY <2>5, <2>10, <5>2
        <5>4. QED
          BY <5>1, <5>3
      <4>4. QED
        BY <1>8, <4>1, <4>2, <4>3
    <3>2. j + 1 \in 1 .. k /\ j + 1 <= i /\ h[cur].next = p[j + 1] /\ p[j + 1] # NULL
      BY <1>12, <3>1
    <3>3. cur' = p[j + 1] /\ cur' # NULL
      BY <1>4, <2>3, <2>5, <3>2
    <3>4. j \in j .. k - 1 /\ j \in 1 .. k - 1 /\ j <= n
      BY <1>8, <3>1, <3>2
    <3>5. q[j] = cur'
      BY <2>8, <3>3, <3>4
    <3>6. \A m \in 1 .. k - 1 : m # j => q[m] # q[j]
      BY <2>7, <3>4 DEF LeadsThrough
    <3>7. \A m \in 1 .. k - 1 : q[m] = cur' => m <= n
      BY <3>4, <3>5, <3>6
    <3>8. QED
      BY <3>3, <3>7
  <2>11. PICK other : other = RowAlong(g, q)
    OBVIOUS
  <2>12. /\ other \in Seq(Entries) /\ Len(other) = k - 1
         /\ \A n \in 1 .. k - 1 : other[n] = [name |-> g[q[n]].name, begin |-> g[q[n]].begin]
    <3>1. heap' \in [DOMAIN heap' -> Region(DOMAIN heap' \cup {NULL})]
      BY <1>1, <2>3, <2>7, ShownNext
    <3>2. g \in [DOMAIN g -> Region(DOMAIN g \cup {NULL})]
      BY <2>3, <3>1
    <3>3. QED
      BY <2>7, <2>11, <3>2, RowType
  <2>13. Drops(other, hrow, j)
    <3>1. j \in 2 .. k /\ j - 1 \in 1 .. k /\ j \in 1 .. k
      BY <1>8, <2>1
    <3>2. hrow[j].name = Unused /\ hrow[j - 1].name = Unused
          /\ hrow[j - 1] = [name |-> Unused, begin |-> h[t].begin]
      BY <1>9, <1>16, <2>1, <3>1 DEF t
    <3>3. ASSUME NEW n \in 1 .. j - 1 PROVE other[n] = hrow[n]
      <4>1. n \in 1 .. k - 1 /\ n \in 1 .. k
        BY <1>8, <3>1
      <4>2. CASE n = j - 1
        BY <2>1, <2>5, <2>8, <2>12, <3>2, <4>1, <4>2
      <4>3. CASE n # j - 1
        <5>1. n < j - 1
          BY <3>1, <4>3
        <5>2. q[n] = p[n] /\ p[n] \in DOMAIN h \ {cur, t}
          BY <2>8, <2>9, <4>1, <5>1
        <5>3. QED
          BY <1>16, <2>5, <2>12, <4>1, <5>2
      <4>4. QED
        BY <4>2, <4>3
    <3>4. ASSUME NEW n \in j .. k - 1 PROVE other[n] = hrow[n + 1]
      <4>1. n \in 1 .. k - 1 /\ n + 1 \in 1 .. k /\ n + 1 > j
        BY <1>8, <3>1
      <4>2. q[n] = p[n + 1] /\ p[n + 1] \in DOMAIN h \ {cur, t}
        BY <2>8, <2>9, <4>1
      <4>3. QED
        BY <1>16, <2>5, <2>12, <4>1, <4>2
    <3>5. QED
      BY <1>16, <2>12, <3>1, <3>2, <3>3, <3>4 DEF Drops
  <2>14. Given(name, other) = Given(name, hrow)
    BY <1>11, <1>16, <2>12, <2>13, GivenDrops
  <2>15. QED
    BY <1>18, <2>3, <2>7, <2>10, <2>11, <2>14
<1>21. QED
  BY <1>19, <1>20

-----------------------------------------------------------------------------
\* The inductive invariant with the order of the regions.
MapInv == AllocatorInv /\ \E p, k : InOrder(p, k)

LEMMA InitMapped == Init => MapInv /\ Map!Init
<1> SUFFICES ASSUME Init PROVE MapInv /\ Map!Init
  OBVIOUS
<1> DEFINE one == [begin |-> 0, end |-> memorySize - 1, name |-> Unused,
                   pre |-> NULL, next |-> NULL]
           p == [n \in 1 .. 1 |-> 1]
<1>1. AllocatorInv
  BY InitHolds
<1>2. heap = [a \in {1} |-> one] /\ list = 1 /\ pc = "prompt"
  BY DEF Init
<1>3. DOMAIN heap = {1} /\ heap[1].begin = 0 /\ heap[1].end = memorySize - 1
      /\ heap[1].name = Unused /\ heap[1].next = NULL /\ memorySize \in Nat
  BY <1>2, AllocatorAssumption
<1>4. LeadsThrough(heap, list, p, 1)
  <2>1. p \in [1 .. 1 -> {1}] /\ Len(p) = 1 /\ p[1] = 1 /\ 1 \in 1 .. 1
    OBVIOUS
  <2> HIDE DEF p
  <2>2. QED
    BY <1>2, <1>3, <2>1 DEF LeadsThrough
<1>5. InOrder(p, 1)
  BY <1>2, <1>3, <1>4 DEF InOrder, Tiled, Visited
<1>6. RowReleased = RowAlong(heap, p) /\ heap \in [DOMAIN heap -> Region(DOMAIN heap \cup {NULL})]
  BY <1>1, <1>2, <1>4, Shown
<1>7. RowAlong(heap, p) = <<[name |-> Unused, begin |-> 0]>>
  <2>1. RowAlong(heap, p) = [n \in 1 .. 1 |-> [name |-> Unused, begin |-> 0]]
    BY <1>3 DEF RowAlong
  <2>2. QED
    BY <2>1
<1>8. Map!Init
  BY <1>6, <1>7 DEF Map!Init, Map!Region
<1>9. QED
  BY <1>1, <1>5, <1>8 DEF MapInv

\* Where neither the list nor release moves the row stays.
LEMMA RestMapped ==
  ASSUME AllocatorInv, AllocatorInv', NEW p, NEW k, InOrder(p, k),
         UNCHANGED <<heap, list>>, pc # "release", pc' # "release"
  PROVE  (\E q, j : InOrder(q, j)') /\ RowReleased' = RowReleased
<1>1. LeadsThrough(heap, list, p, k) /\ LeadsThrough(heap', list', p, k) /\ Tiled(heap', p, k)
  BY DEF InOrder
<1>2. InOrder(p, k)'
  BY <1>1 DEF InOrder, Visited
<1>3. RowReleased = RowAlong(heap, p)
  BY <1>1, Shown
<1>4. RowReleased' = RowAlong(heap', p)
  BY <1>1, ShownNext
<1>5. QED
  BY <1>2, <1>3, <1>4

LEMMA ReleaseMapped ==
  ASSUME AllocatorInv, AllocatorInv', NEW p, NEW k, InOrder(p, k),
         NEW process \in Names, Release(process)
  PROVE  (\E q, j : InOrder(q, j)') /\ Map!Release(process)
<1>1. /\ pc = "prompt" /\ pc' = "release" /\ name' = process /\ cur' = list
      /\ heap' = heap /\ list' = list
  BY DEF Release
<1>2. LeadsThrough(heap, list, p, k) /\ LeadsThrough(heap', list', p, k) /\ Tiled(heap', p, k)
  BY <1>1 DEF InOrder
<1>3. cur' # NULL /\ \A m \in 1 .. k : p[m] = cur' => m = 1
  <2>1. NULL \notin DOMAIN heap /\ list \in DOMAIN heap
    BY NoNull DEF AllocatorInv, TypeOK
  <2>2. k \in Nat \ {0} /\ p[1] = list /\ \A m, n \in 1 .. k : m # n => p[m] # p[n]
    BY <1>2 DEF LeadsThrough
  <2>3. QED
    BY <1>1, <2>1, <2>2
<1>4. InOrder(p, k)'
  <2>1. Visited(p, k)'
    BY <1>1, <1>3 DEF Visited
  <2>2. QED
    BY <1>2, <2>1 DEF InOrder
<1>5. RowReleased = RowAlong(heap, p)
  BY <1>1, <1>2, Shown
<1>6. RowReleased' = Given(name', RowAlong(heap', p))
  BY <1>1, <1>2, ShownNext
<1>7. RowReleased' = Given(process, RowReleased)
  BY <1>1, <1>5, <1>6
<1>8. QED
  BY <1>4, <1>7 DEF Map!Release, Given

LEMMA EndMapped ==
  ASSUME AllocatorInv, AllocatorInv', NEW p, NEW k, InOrder(p, k), ReleaseEnd
  PROVE  (\E q, j : InOrder(q, j)') /\ RowReleased' = RowReleased
<1>1. /\ pc = "release" /\ cur = NULL /\ pc' = "prompt" /\ heap' = heap /\ list' = list
  BY DEF ReleaseEnd
<1>2. LeadsThrough(heap, list, p, k) /\ LeadsThrough(heap', list', p, k) /\ Tiled(heap', p, k)
  BY <1>1 DEF InOrder
<1>3. InOrder(p, k)'
  BY <1>1, <1>2 DEF InOrder, Visited
<1>4. name \in Names /\ \A n \in 1 .. k : heap[p[n]].name # name
  BY <1>1 DEF InOrder, Visited
<1>5. PICK row : row = RowAlong(heap, p)
  OBVIOUS
<1>6. /\ row \in Seq(Entries) /\ Len(row) = k /\ RowReleased = Given(name, row)
      /\ \A n \in 1 .. k : row[n] = [name |-> heap[p[n]].name, begin |-> heap[p[n]].begin]
  BY <1>1, <1>2, <1>5, Shown, RowType
<1>7. ASSUME NEW n \in 1 .. k PROVE row[n].name # name /\ Heads(row, n)
  <2>1. row[n].name # name
    BY <1>4, <1>6
  <2>2. SUFFICES ASSUME n > 1, row[n].name = Unused, row[n - 1].name = Unused PROVE FALSE
    BY <2>1 DEF Heads
  <2>3. k \in Nat /\ p \in [1 .. k -> DOMAIN heap] /\ NULL \notin DOMAIN heap
    BY <1>2, NoNull DEF LeadsThrough, AllocatorInv
  <2>4. n - 1 \in 1 .. k /\ n # 1
    BY <2>2, <2>3
  <2>5. PICK r : Linked(heap, list, r) /\ Apart(r)
    BY DEF AllocatorInv
  <2>6. heap[p[n]].pre = p[n - 1]
    BY <1>2, <2>3, <2>4, <2>5, PathBack
  <2>7. Pair(heap, p[n])
    BY <1>6, <2>2, <2>3, <2>4, <2>6 DEF Pair
  <2>8. QED
    BY <1>1, <2>3, <2>5, <2>7 DEF Apart
<1>8. RowReleased = row
  BY <1>4, <1>6, <1>7, GivenNothing
<1>9. RowReleased' = RowAlong(heap', p)
  BY <1>1, <1>2, ShownNext
<1>10. QED
  BY <1>1, <1>3, <1>5, <1>8, <1>9

LEMMA StepMapped ==
  ASSUME MapInv, [Next]_vars
  PROVE  MapInv' /\ [Map!Next]_RowReleased
<1>1. AllocatorInv /\ AllocatorInv'
  BY StepHolds DEF MapInv
<1>2. PICK p, k : InOrder(p, k)
  BY DEF MapInv
<1>3. SUFFICES (\E q, j : InOrder(q, j)') /\ (Map!Next \/ RowReleased' = RowReleased)
  BY <1>1 DEF MapInv
<1>4. ASSUME NEW process \in Names, NEW size \in Sizes, NEW strategy \in Strategies,
             Request(process, size, strategy)
      PROVE  (\E q, j : InOrder(q, j)') /\ (Map!Next \/ RowReleased' = RowReleased)
  <2>1. Rounded(size) \in Int
    BY RoundedType, AllocatorAssumption
  <2>2. CASE RequestRefused(Rounded(size), strategy)
    <3>1. UNCHANGED <<heap, list>> /\ pc # "release" /\ pc' # "release"
      BY <2>2 DEF RequestRefused
    <3>2. QED
      BY <1>1, <1>2, <3>1, RestMapped
  <2>3. CASE RequestGranted(process, Rounded(size), strategy)
    <3>1. /\ \E q, j : InOrder(q, j)'
          /\ Rounded(size) \in Nat /\ Map!Allocate(process, Rounded(size))
      BY <1>1, <1>2, <2>1, <2>3, GrantMapped
    <3>2. Rounded(size) \in Grants
      BY <3>1 DEF Grants
    <3>3. Map!Next
      BY <3>1, <3>2 DEF Map!Next
    <3>4. QED
      BY <3>1, <3>3
  <2>4. QED
    BY <1>4, <2>2, <2>3 DEF Request
<1>5. ASSUME NEW process \in Names, Release(process)
      PROVE  (\E q, j : InOrder(q, j)') /\ (Map!Next \/ RowReleased' = RowReleased)
  <2>1. (\E q, j : InOrder(q, j)') /\ Map!Release(process)
    BY <1>1, <1>2, <1>5, ReleaseMapped
  <2>2. QED
    BY <2>1 DEF Map!Next
<1>6. CASE ReleaseStep
  BY <1>1, <1>2, <1>6, RoundMapped
<1>7. CASE ReleaseEnd
  BY <1>1, <1>2, <1>7, EndMapped
<1>8. CASE Quit
  <2>1. UNCHANGED <<heap, list>> /\ pc # "release" /\ pc' # "release"
    BY <1>8 DEF Quit
  <2>2. QED
    BY <1>1, <1>2, <2>1, RestMapped
<1>9. CASE UNCHANGED vars
  <2>1. UNCHANGED <<heap, list, pc, name, cur>>
    BY <1>9 DEF vars, releaseVars
  <2>2. InOrder(p, k)'
    BY <1>2, <2>1 DEF InOrder, Visited
  <2>3. LeadsThrough(heap, list, p, k) /\ LeadsThrough(heap', list', p, k)
    BY <1>2, <2>1 DEF InOrder
  <2>4. RowReleased' = RowReleased
    BY <1>1, <2>1, <2>3, Shown, ShownNext
  <2>5. QED
    BY <2>2, <2>4
<1>10. QED
  BY <1>4, <1>5, <1>6, <1>7, <1>8, <1>9 DEF Next, Releasing, Terminated

(***************************************************************************)
(* Walking, splitting and joining in a linked list is taking and giving    *)
(* back regions of a row: all regions of a process, whatever their number, *)
(* and nobody else's (Project7 request 56-115, release 117-150).           *)
(***************************************************************************)
THEOREM RegionMapImplemented == Spec => ImplementsRegionMap
<1>1. Init => MapInv /\ Map!Init
  BY InitMapped
<1>2. MapInv /\ [Next]_vars => MapInv' /\ [Map!Next]_RowReleased
  BY StepMapped
<1>3. QED
  BY <1>1, <1>2, PTL DEF Spec, ImplementsRegionMap, Map!Spec

=============================================================================
