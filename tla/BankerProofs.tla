----------------------------- MODULE BankerProofs -----------------------------
(***************************************************************************)
(* Project6/banker.c for every number of customers, kind of resource and   *)
(* amount: until a command with a number below zero is carried out, the    *)
(* books balance per customer, nothing is overdrawn, and whatever has been *)
(* granted, there is an order in which every customer can get all it needs *)
(* and finish.                                                             *)
(*                                                                         *)
(* That order is what safe() finds.  A plan is the order, with what is     *)
(* there to work with at each of its points; plans are given as functions, *)
(* so that no sum has to be taken.                                         *)
(***************************************************************************)
EXTENDS Banker, FiniteSetTheorems, WellFoundedInduction, TLAPS

NatVectors == [Resources -> Nat]

\* The first n customers to finish, and what is there before and after each.
IsPlan(avail, alloc, nd, n, order, w) ==
  /\ n \in Nat /\ order \in [1 .. n -> Customers] /\ w \in [1 .. n + 1 -> IntVectors]
  /\ w[1] = avail
  /\ \A k \in 1 .. n : vleq(nd[order[k]], w[k]) /\ w[k + 1] = Plus(w[k], alloc[order[k]])
  /\ \A j, k \in 1 .. n : order[j] = order[k] => j = k

\* The customers of S can finish, after which wk is there.
CanAllFinish(avail, alloc, nd, S, wk) ==
  \E n \in Nat : \E order \in [1 .. n -> Customers], w \in [1 .. n + 1 -> IntVectors] :
    /\ IsPlan(avail, alloc, nd, n, order, w)
    /\ S = {order[k] : k \in 1 .. n}
    /\ wk = w[n + 1]

Certified(avail, alloc, nd) ==
  \/ \A c \in Customers : alloc[c] = Zero
  \/ \E wk \in IntVectors : CanAllFinish(avail, alloc, nd, Customers, wk)

\* The books with the pending request taken back.
Before(u, f, g) ==
  Certified(Plus(u, request), [f EXCEPT ![customer_num] = Minus(@, request)],
            [g EXCEPT ![customer_num] = Plus(@, request)])

(***************************************************************************)
(* The inductive invariant, as long as no number below zero has got as far *)
(* as the books: they are certified, and while safe() is at work, so are   *)
(* the books it may have to go back to, and its finish and work are those  *)
(* of the plan it has found so far.                                        *)
(***************************************************************************)
RowsAddUp ==
  /\ \A c \in Customers : Plus(allocation[c], need[c]) = maximum[c]
  /\ allocation[NUMBER_OF_CUSTOMERS] = Zero /\ need[NUMBER_OF_CUSTOMERS] = Zero

HoldersCovered ==
  \A c \in Customers : allocation[c] # Zero => vleq(Zero, available) /\ vleq(Zero, need[c])

PendingInv ==
  /\ customer_num \in Rows \cap Numbers /\ request \in Vectors /\ request \in NatVectors
  /\ vleq(request, allocation[customer_num])
  /\ customer_num = NUMBER_OF_CUSTOMERS => request = Zero
  /\ Before(available, allocation, need)
  /\ CanAllFinish(available, allocation, need, finish, work)

Sound ==
  /\ allocation \in [Rows -> NatVectors]
  /\ RowsAddUp
  /\ HoldersCovered
  /\ pc # "safe" => Certified(available, allocation, need)
  /\ pc = "safe" => PendingInv

IInv == TypeOK /\ (misuses = 0 => Sound)

\* Adding and taking away what was added.
LEMMA VectorFacts ==
  ASSUME NEW u \in IntVectors, NEW v \in IntVectors
  PROVE  /\ Plus(u, v) \in IntVectors /\ Minus(u, v) \in IntVectors /\ Zero \in IntVectors
         /\ Minus(Plus(u, v), v) = u /\ Plus(Minus(u, v), v) = u
         /\ Plus(u, Zero) = u /\ Minus(u, Zero) = u
BY DEF IntVectors, Plus, Minus, Zero

\* The same where nothing is below zero.
LEMMA NaturalVectors ==
  /\ NatVectors \subseteq IntVectors /\ Zero \in NatVectors
  /\ \A u, v \in NatVectors :
       /\ Plus(u, v) \in NatVectors
       /\ vleq(v, u) => Minus(u, v) \in NatVectors
       /\ vleq(u, Zero) => u = Zero
BY DEF NatVectors, IntVectors, Plus, Minus, Zero, vleq

\* Vectors the user enters; with no number below zero, of natural numbers.
LEMMA EnteredVectors ==
  /\ Vectors \subseteq IntVectors /\ Zero \in IntVectors
  /\ \A v \in Vectors : vleq(Zero, v) => v \in NatVectors
<1>1. Vectors \subseteq IntVectors /\ Zero \in IntVectors
  BY BankerAssumption DEF IntVectors, Zero
<1>2. ASSUME NEW v \in Vectors, vleq(Zero, v) PROVE v \in NatVectors
  <2>1. v \in IntVectors /\ \A r \in Resources : 0 <= v[r]
    BY <1>1, <1>2 DEF Zero, vleq
  <2>2. QED
    BY <2>1 DEF IntVectors, NatVectors
<1>3. QED
  BY <1>1, <1>2

\* Customers have a row each, and there is one row more.
LEMMA RowFacts ==
  /\ Customers \subseteq Rows /\ NUMBER_OF_CUSTOMERS \in Rows \ Customers
  /\ Rows = Customers \cup {NUMBER_OF_CUSTOMERS} /\ 0 \in Customers
BY BankerAssumption DEF Customers, Rows

\* At the start nobody has finished.
LEMMA EmptyPlan ==
  ASSUME NEW avail \in IntVectors, NEW alloc, NEW nd
  PROVE  CanAllFinish(avail, alloc, nd, {}, avail)
<1> DEFINE order == [k \in 1 .. 0 |-> 0]
           w     == [k \in 1 .. 0 + 1 |-> avail]
<1>1. order \in [1 .. 0 -> Customers] /\ w \in [1 .. 0 + 1 -> IntVectors]
  OBVIOUS
<1>2. IsPlan(avail, alloc, nd, 0, order, w)
  BY <1>1 DEF IsPlan
<1>3. {} = {order[k] : k \in 1 .. 0} /\ avail = w[0 + 1]
  OBVIOUS
<1>4. QED
  BY <1>1, <1>2, <1>3 DEF CanAllFinish

\* A customer whose need is covered makes the plan one longer.
LEMMA LongerPlan ==
  ASSUME NEW avail \in IntVectors, NEW alloc \in [Rows -> NatVectors], NEW nd,
         NEW S, NEW wk \in IntVectors, CanAllFinish(avail, alloc, nd, S, wk),
         NEW c \in Customers, c \notin S, vleq(nd[c], wk)
  PROVE  CanAllFinish(avail, alloc, nd, S \cup {c}, Plus(wk, alloc[c]))
<1>1. PICK n \in Nat : \E order \in [1 .. n -> Customers], w \in [1 .. n + 1 -> IntVectors] :
        /\ IsPlan(avail, alloc, nd, n, order, w)
        /\ S = {order[k] : k \in 1 .. n}
        /\ wk = w[n + 1]
  BY DEF CanAllFinish
<1>2. PICK order \in [1 .. n -> Customers], w \in [1 .. n + 1 -> IntVectors] :
        /\ IsPlan(avail, alloc, nd, n, order, w)
        /\ S = {order[k] : k \in 1 .. n}
        /\ wk = w[n + 1]
  BY <1>1
<1> DEFINE order2 == [k \in 1 .. n + 1 |-> IF k <= n THEN order[k] ELSE c]
           w2     == [k \in 1 .. (n + 1) + 1 |-> IF k <= n + 1 THEN w[k] ELSE Plus(wk, alloc[c])]
<1>3. Plus(wk, alloc[c]) \in IntVectors
  BY VectorFacts, NaturalVectors, RowFacts
<1>4. order2 \in [1 .. n + 1 -> Customers] /\ w2 \in [1 .. (n + 1) + 1 -> IntVectors]
  BY <1>3
<1>5. /\ \A k \in 1 .. n : order2[k] = order[k] /\ w2[k] = w[k] /\ w2[k + 1] = w[k + 1]
      /\ order2[n + 1] = c /\ w2[n + 1] = wk /\ w2[(n + 1) + 1] = Plus(wk, alloc[c])
      /\ w2[1] = w[1]
  BY <1>2
<1>6. \A k \in 1 .. n : order2[k] # c
  BY <1>2, <1>5
<1> HIDE DEF order2, w2
<1>7. \A k \in 1 .. n + 1 : k \in 1 .. n \/ k = n + 1
  OBVIOUS
<1>8. \A k \in 1 .. n + 1 : /\ vleq(nd[order2[k]], w2[k])
                            /\ w2[k + 1] = Plus(w2[k], alloc[order2[k]])
  BY <1>2, <1>5, <1>7 DEF IsPlan
<1>9. \A j, k \in 1 .. n + 1 : order2[j] = order2[k] => j = k
  BY <1>2, <1>5, <1>6, <1>7 DEF IsPlan
<1>10. IsPlan(avail, alloc, nd, n + 1, order2, w2)
  BY <1>2, <1>4, <1>5, <1>8, <1>9 DEF IsPlan
<1>11. S \cup {c} = {order2[k] : k \in 1 .. n + 1}
  BY <1>2, <1>5, <1>7
<1>12. n + 1 \in Nat
  OBVIOUS
<1>13. QED
  BY <1>4, <1>5, <1>10, <1>11, <1>12 DEF CanAllFinish

\* Adding on both sides, and moving v from one side to the other.
LEMMA VectorSums ==
  ASSUME NEW a \in IntVectors, NEW b \in IntVectors, NEW v \in NatVectors
  PROVE  /\ Plus(Plus(a, b), v) = Plus(Plus(a, v), b)
         /\ Plus(a, b) = Plus(Plus(a, v), Minus(b, v))
         /\ vleq(a, b) => vleq(a, Plus(b, v)) /\ vleq(Plus(a, v), Plus(b, v))
BY DEF NatVectors, IntVectors, Plus, Minus, vleq

\* A customer who gives something back spoils no plan.
LEMMA PlanAfterRelease ==
  ASSUME NEW avail \in IntVectors,
         NEW alloc \in [Rows -> NatVectors], NEW nd \in [Rows -> IntVectors],
         NEW wk \in IntVectors, CanAllFinish(avail, alloc, nd, Customers, wk),
         NEW c \in Customers, NEW v \in NatVectors, vleq(v, alloc[c])
  PROVE  CanAllFinish(Plus(avail, v), [alloc EXCEPT ![c] = Minus(@, v)],
                      [nd EXCEPT ![c] = Plus(@, v)], Customers, wk)
<1> DEFINE alloc2 == [alloc EXCEPT ![c] = Minus(@, v)]
           nd2    == [nd EXCEPT ![c] = Plus(@, v)]
<1>1. PICK n \in Nat : \E order \in [1 .. n -> Customers], w \in [1 .. n + 1 -> IntVectors] :
        /\ IsPlan(avail, alloc, nd, n, order, w)
        /\ Customers = {order[k] : k \in 1 .. n}
        /\ wk = w[n + 1]
  BY DEF CanAllFinish
<1>2. PICK order \in [1 .. n -> Customers], w \in [1 .. n + 1 -> IntVectors] :
        /\ IsPlan(avail, alloc, nd, n, order, w)
        /\ Customers = {order[k] : k \in 1 .. n}
        /\ wk = w[n + 1]
  BY <1>1
<1>3. PICK j \in 1 .. n : order[j] = c
  BY <1>2
<1> DEFINE w2 == [k \in 1 .. n + 1 |-> IF k <= j THEN Plus(w[k], v) ELSE w[k]]
<1>4. \A k \in 1 .. n + 1 : w[k] \in IntVectors /\ Plus(w[k], v) \in IntVectors
  BY <1>2, VectorFacts, NaturalVectors
<1>5. w2 \in [1 .. n + 1 -> IntVectors]
  BY <1>4
<1>6. /\ \A k \in 1 .. n + 1 : /\ k <= j => w2[k] = Plus(w[k], v)
                               /\ k > j  => w2[k] = w[k]
      /\ w2[1] = Plus(avail, v) /\ w2[n + 1] = wk
  BY <1>2 DEF IsPlan
<1>7. /\ alloc2[c] = Minus(alloc[c], v) /\ nd2[c] = Plus(nd[c], v)
      /\ \A d \in Customers : d # c => alloc2[d] = alloc[d] /\ nd2[d] = nd[d]
      /\ \A d \in Customers : alloc[d] \in IntVectors /\ nd[d] \in IntVectors
  BY RowFacts, NaturalVectors
<1> HIDE DEF alloc2, nd2, w2
<1>8. ASSUME NEW k \in 1 .. n
      PROVE  vleq(nd2[order[k]], w2[k]) /\ w2[k + 1] = Plus(w2[k], alloc2[order[k]])
  <2>1. /\ vleq(nd[order[k]], w[k]) /\ w[k + 1] = Plus(w[k], alloc[order[k]])
        /\ order[k] \in Customers /\ k \in 1 .. n + 1 /\ k + 1 \in 1 .. n + 1
    BY <1>2 DEF IsPlan
  <2>2. CASE k < j
    <3>1. order[k] # c
      BY <1>2, <1>3, <2>2 DEF IsPlan
    <3>2. w2[k] = Plus(w[k], v) /\ w2[k + 1] = Plus(w[k + 1], v)
      BY <1>6, <2>1, <2>2
    <3>3. QED
      BY <1>4, <1>7, <2>1, <3>1, <3>2, VectorSums
  <2>3. CASE k = j
    <3>1. w2[k] = Plus(w[k], v) /\ w2[k + 1] = w[k + 1]
      BY <1>6, <2>1, <2>3
    <3>2. QED
      BY <1>3, <1>4, <1>7, <2>1, <2>3, <3>1, VectorSums
  <2>4. CASE k > j
    <3>1. order[k] # c
      BY <1>2, <1>3, <2>4 DEF IsPlan
    <3>2. w2[k] = w[k] /\ w2[k + 1] = w[k + 1]
      BY <1>6, <2>1, <2>4
    <3>3. QED
      BY <1>7, <2>1, <3>1, <3>2
  <2>5. QED
    BY <2>2, <2>3, <2>4
<1>9. IsPlan(Plus(avail, v), alloc2, nd2, n, order, w2)
  BY <1>2, <1>5, <1>6, <1>8 DEF IsPlan
<1>10. CanAllFinish(Plus(avail, v), alloc2, nd2, Customers, wk)
  BY <1>2, <1>5, <1>6, <1>9 DEF CanAllFinish
<1>11. QED
  BY <1>10 DEF alloc2, nd2

\* Nobody holds anything, or there is a plan: both outlive a release.
LEMMA CertifiedAfterRelease ==
  ASSUME NEW avail \in IntVectors,
         NEW alloc \in [Rows -> NatVectors], NEW nd \in [Rows -> IntVectors],
         Certified(avail, alloc, nd),
         NEW c \in Customers, NEW v \in NatVectors, vleq(v, alloc[c])
  PROVE  Certified(Plus(avail, v), [alloc EXCEPT ![c] = Minus(@, v)],
                   [nd EXCEPT ![c] = Plus(@, v)])
<1>1. CASE \A d \in Customers : alloc[d] = Zero
  <2>1. v = Zero /\ Minus(Zero, v) = Zero
    BY <1>1, VectorFacts, NaturalVectors
  <2>2. \A d \in Customers : [alloc EXCEPT ![c] = Minus(@, v)][d] = Zero
    BY <1>1, <2>1, RowFacts
  <2>3. QED
    BY <2>2 DEF Certified
<1>2. CASE \E wk \in IntVectors : CanAllFinish(avail, alloc, nd, Customers, wk)
  BY <1>2, PlanAfterRelease DEF Certified
<1>3. QED
  BY <1>1, <1>2 DEF Certified

\* What moving v does to one row of allocation and the same row of need.
LEMMA RowSums ==
  ASSUME NEW a \in NatVectors, NEW b \in IntVectors, NEW v \in NatVectors
  PROVE  /\ Plus(Plus(a, v), Minus(b, v)) = Plus(a, b)
         /\ Plus(Minus(a, v), Plus(b, v)) = Plus(a, b)
         /\ vleq(v, Plus(a, v))
BY DEF NatVectors, IntVectors, Plus, Minus, vleq

\* Places are the same if array and row are.
LEMMA PlacesDiffer ==
  ASSUME NEW a, NEW b, NEW r, NEW q
  PROVE  Place(a, r) = Place(b, q) <=> a = b /\ r = q
BY DEF Place

\* A number that is that of a row stands for that row: the three assignments
\* take v from available and need, and add it to allocation.
LEMMA AllocateRow ==
  ASSUME TypeOK, NEW c \in Numbers \cap Rows, NEW v \in IntVectors, Allocate(c, v)
  PROVE  /\ available' = Minus(available, v) /\ maximum' = maximum
         /\ allocation' = [allocation EXCEPT ![c] = Plus(@, v)]
         /\ need' = [need EXCEPT ![c] = Minus(@, v)]
<1>1. AllocationRow[c] = Place("allocation", c) /\ NeedRow[c] = Place("need", c)
  BY BankerAssumption
<1>2. \A u, r : /\ RowAfter(Place("available", r), u, c, v) = u
                /\ RowAfter(Place("maximum", r), u, c, v) = u
                /\ RowAfter(Place("allocation", r), u, c, v) = IF r = c THEN Plus(u, v) ELSE u
                /\ RowAfter(Place("need", r), u, c, v) = IF r = c THEN Minus(u, v) ELSE u
  BY <1>1, PlacesDiffer DEF RowAfter
<1>3. /\ allocation = [d \in Rows |-> allocation[d]] /\ need = [d \in Rows |-> need[d]]
      /\ maximum = [d \in Customers |-> maximum[d]]
  BY DEF TypeOK
<1>4. QED
  BY <1>2, <1>3 DEF Allocate

\* So do those that go back.
LEMMA DeallocateRow ==
  ASSUME TypeOK, NEW c \in Numbers \cap Rows, NEW v \in IntVectors, Deallocate(c, v)
  PROVE  /\ available' = Plus(available, v) /\ maximum' = maximum
         /\ allocation' = [allocation EXCEPT ![c] = Minus(@, v)]
         /\ need' = [need EXCEPT ![c] = Plus(@, v)]
<1> DEFINE w == Minus(Zero, v)
<1>1. w \in IntVectors /\ \A u \in IntVectors : Minus(u, w) = Plus(u, v) /\ Plus(u, w) = Minus(u, v)
  BY DEF IntVectors, Plus, Minus, Zero
<1>2. Allocate(c, w)
  BY DEF Deallocate
<1> HIDE DEF w
<1>3. /\ available' = Minus(available, w) /\ maximum' = maximum
      /\ allocation' = [allocation EXCEPT ![c] = Plus(@, w)]
      /\ need' = [need EXCEPT ![c] = Minus(@, w)]
  BY <1>1, <1>2, AllocateRow
<1>4. available \in IntVectors /\ allocation[c] \in IntVectors /\ need[c] \in IntVectors
  BY DEF TypeOK
<1>5. QED
  BY <1>1, <1>3, <1>4

\* Whatever memory a number names, there are integers in it.
LEMMA AllocateTyped ==
  ASSUME TypeOK, NEW c, NEW v \in IntVectors, Allocate(c, v)
  PROVE  /\ available' \in IntVectors /\ maximum' \in [Customers -> IntVectors]
         /\ allocation' \in [Rows -> IntVectors] /\ need' \in [Rows -> IntVectors]
<1>1. \A p : \A u \in IntVectors : RowAfter(p, u, c, v) \in IntVectors
  BY VectorFacts DEF RowAfter
<1>2. Minus(available, v) \in IntVectors
  BY VectorFacts DEF TypeOK
<1>3. QED
  BY <1>1, <1>2 DEF Allocate, TypeOK

\* The same when they go back.
LEMMA DeallocateTyped ==
  ASSUME TypeOK, NEW c, NEW v \in IntVectors, Deallocate(c, v)
  PROVE  /\ available' \in IntVectors /\ maximum' \in [Customers -> IntVectors]
         /\ allocation' \in [Rows -> IntVectors] /\ need' \in [Rows -> IntVectors]
<1>1. Zero \in IntVectors /\ Minus(Zero, v) \in IntVectors
  BY VectorFacts
<1>2. QED
  BY <1>1, AllocateTyped DEF Deallocate

\* Every variable keeps its type, whatever numbers are entered.
LEMMA TypeNext == TypeOK /\ [Next]_vars => TypeOK'
<1> SUFFICES ASSUME TypeOK, [Next]_vars PROVE TypeOK'
  OBVIOUS
<1>1. ASSUME NEW e \in {-3, -2, -1, 0, 1}, Reply(e), UNCHANGED argv, misuses' \in 0 .. MaxMisuses,
             /\ available' \in IntVectors /\ maximum' \in [Customers -> IntVectors]
             /\ allocation' \in [Rows -> IntVectors] /\ need' \in [Rows -> IntVectors]
      PROVE  TypeOK'
  <2>1. Zero \in IntVectors
    BY EnteredVectors
  <2>2. QED
    BY <1>1, <2>1 DEF Reply, TypeOK
<1>2. ASSUME NEW c, NEW v, CountMisuse(c, v) PROVE misuses' \in 0 .. MaxMisuses
  BY <1>2, BankerAssumption DEF CountMisuse, TypeOK
<1>3. ASSUME NEW c \in Numbers, NEW v \in Vectors, RequestRejected(c, v) PROVE TypeOK'
  BY <1>1, <1>3 DEF RequestRejected, TypeOK, books
<1>4. ASSUME NEW c \in Numbers, NEW v \in Vectors, RequestEntered(c, v) PROVE TypeOK'
  BY <1>2, <1>4, AllocateTyped, EnteredVectors DEF RequestEntered, TypeOK
<1>5. ASSUME NEW c \in Customers, Finish(c) PROVE TypeOK'
  <2>1. work' \in IntVectors
    BY <1>5, VectorFacts, RowFacts DEF Finish, TypeOK
  <2>2. QED
    BY <1>5, <2>1 DEF Finish, TypeOK, books
<1>6. CASE Granted
  BY <1>1, <1>6 DEF Granted, TypeOK, books
<1>7. CASE RolledBack
  <2>1. request \in IntVectors
    BY EnteredVectors DEF TypeOK
  <2>2. QED
    BY <1>1, <1>7, <2>1, DeallocateTyped DEF RolledBack, TypeOK
<1>8. ASSUME NEW c \in Numbers, NEW v \in Vectors, ReleaseRejected(c, v) PROVE TypeOK'
  BY <1>1, <1>8 DEF ReleaseRejected, TypeOK, books
<1>9. ASSUME NEW c \in Numbers, NEW v \in Vectors, Released(c, v) PROVE TypeOK'
  <2>1. v \in IntVectors
    BY EnteredVectors
  <2>2. QED
    BY <1>1, <1>2, <1>9, <2>1, DeallocateTyped DEF Released
<1>10. ASSUME NEW c, Crash(c) \/ Quit PROVE TypeOK'
  BY <1>10 DEF Crash, Quit, TypeOK, books, locals
<1>11. CASE UNCHANGED vars
  BY <1>11 DEF vars, TypeOK, books, locals
<1>12. QED
  BY <1>3, <1>4, <1>5, <1>6, <1>7, <1>8, <1>9, <1>10, <1>11
     DEF Next, RequestResources, ReleaseResources, Deciding, Terminated

\* The books are in order at the start: nobody holds anything.
LEMMA InitInv == Init => IInv
<1> SUFFICES ASSUME Init PROVE IInv
  OBVIOUS
<1>1. TypeOK
  BY VectorFacts, EnteredVectors, RowFacts, BankerAssumption DEF Init, TypeOK, NoCommand
<1>2. \A c \in Rows : allocation[c] = Zero /\ Zero \in NatVectors
  BY NaturalVectors DEF Init
<1>3. RowsAddUp
  <2>1. ASSUME NEW c \in Customers PROVE Plus(allocation[c], need[c]) = maximum[c]
    <3>1. allocation[c] = Zero /\ need[c] = maximum[c] /\ maximum[c] \in IntVectors
      BY EnteredVectors, RowFacts DEF Init
    <3>2. QED
      BY <3>1 DEF IntVectors, Plus, Zero
  <2>2. QED
    BY <2>1, RowFacts DEF Init, RowsAddUp
<1>4. HoldersCovered /\ Certified(available, allocation, need)
  BY <1>2, RowFacts DEF HoldersCovered, Certified
<1>5. Sound
  BY <1>2, <1>3, <1>4 DEF Init, Sound
<1>6. QED
  BY <1>1, <1>5 DEF IInv

\* A number and amounts that are not below zero: a row, and what it may hold.
LEMMA ProperEntry ==
  ASSUME NEW c \in Numbers, NEW v \in Vectors, c <= NUMBER_OF_CUSTOMERS, Proper(c, v)
  PROVE  /\ c \in Numbers \cap Rows /\ v \in NatVectors /\ v \in IntVectors
         /\ \A u \in IntVectors : Minus(u, v) \in IntVectors /\ Plus(u, v) \in IntVectors
         /\ MayCover(NeedRow[c], v) => vleq(v, need[c])
         /\ MayCover(AllocationRow[c], v) => vleq(v, allocation[c])
<1>1. c \in Numbers \cap Rows
  BY BankerAssumption DEF Proper, Rows
<1>2. v \in NatVectors /\ v \in IntVectors
  BY EnteredVectors DEF Proper
<1>3. /\ AllocationRow[c] = Place("allocation", c) /\ NeedRow[c] = Place("need", c)
      /\ Place("allocation", c) # Elsewhere /\ Place("need", c) # Elsewhere
  BY <1>1, BankerAssumption, PlacesDiffer DEF Elsewhere
<1>4. /\ Memory[Place("allocation", c).array][Place("allocation", c).row] = allocation[c]
      /\ Memory[Place("need", c).array][Place("need", c).row] = need[c]
  BY DEF Memory, Place
<1>5. QED
  BY <1>1, <1>2, <1>3, <1>4, VectorFacts DEF MayCover

\* What moving v does to a row, and to what is not below zero.
LEMMA CoverFacts ==
  ASSUME NEW u \in IntVectors, NEW v \in NatVectors
  PROVE  /\ vleq(v, u) => vleq(Zero, Minus(u, v))
         /\ vleq(Zero, u) => vleq(Zero, Plus(u, v))
         /\ u \in NatVectors /\ vleq(v, u) /\ Minus(u, v) # Zero => u # Zero
BY DEF IntVectors, NatVectors, Plus, Minus, Zero, vleq

\* Entering a request leaves the books as they were within reach.
LEMMA RequestEnteredInv ==
  ASSUME TypeOK, Sound, NEW c \in Numbers, NEW v \in Vectors, RequestEntered(c, v), Proper(c, v)
  PROVE  Sound'
<1>1. /\ c \in Numbers \cap Rows /\ v \in NatVectors /\ v \in IntVectors
      /\ vleq(v, available) /\ vleq(v, need[c])
  BY ProperEntry DEF RequestEntered
<1>2. /\ available \in IntVectors /\ allocation[c] \in NatVectors /\ need[c] \in IntVectors
      /\ allocation[c] \in IntVectors
      /\ allocation \in [Rows -> NatVectors] /\ need \in [Rows -> IntVectors]
  BY <1>1 DEF Sound, TypeOK
<1>3. /\ available' = Minus(available, v) /\ maximum' = maximum
      /\ allocation' = [allocation EXCEPT ![c] = Plus(@, v)]
      /\ need' = [need EXCEPT ![c] = Minus(@, v)]
  BY <1>1, AllocateRow DEF RequestEntered
<1>4. allocation' \in [Rows -> NatVectors]
  BY <1>1, <1>2, <1>3, NaturalVectors
<1>5. c = NUMBER_OF_CUSTOMERS => v = Zero
  BY <1>1, NaturalVectors DEF Sound, RowsAddUp
<1>6. RowsAddUp'
  <2>1. ASSUME NEW d \in Customers
        PROVE  Plus(allocation'[d], need'[d]) = maximum'[d]
    <3>1. CASE d = c
      BY <1>1, <1>2, <1>3, <3>1, RowSums DEF Sound, RowsAddUp
    <3>2. CASE d # c
      BY <1>2, <1>3, <3>2, RowFacts DEF Sound, RowsAddUp
    <3>3. QED
      BY <3>1, <3>2
  <2>2. allocation'[NUMBER_OF_CUSTOMERS] = Zero /\ need'[NUMBER_OF_CUSTOMERS] = Zero
    BY <1>2, <1>3, <1>5, VectorFacts, RowFacts DEF Sound, RowsAddUp
  <2>3. QED
    BY <2>1, <2>2 DEF RowsAddUp
<1>7. HoldersCovered'
  <2> SUFFICES ASSUME NEW d \in Customers, allocation'[d] # Zero
               PROVE  vleq(Zero, available') /\ vleq(Zero, need'[d])
    BY DEF HoldersCovered
  <2>1. vleq(Zero, available')
    BY <1>1, <1>2, <1>3, CoverFacts
  <2>2. CASE d = c
    BY <1>1, <1>2, <1>3, <2>1, <2>2, CoverFacts
  <2>3. CASE d # c
    BY <1>2, <1>3, <2>1, <2>3, RowFacts DEF Sound, HoldersCovered
  <2>4. QED
    BY <2>2, <2>3
<1>8. pc' = "safe" /\ customer_num' = c /\ request' = v /\ finish' = {} /\ work' = available'
  BY DEF RequestEntered
<1>9. PendingInv'
  <2>1. vleq(v, allocation'[c])
    BY <1>1, <1>2, <1>3, RowSums
  <2>2. /\ Plus(available', v) = available
        /\ [allocation' EXCEPT ![c] = Minus(@, v)] = allocation
        /\ [need' EXCEPT ![c] = Plus(@, v)] = need
    <3>1. /\ Minus(Plus(allocation[c], v), v) = allocation[c]
          /\ Plus(Minus(need[c], v), v) = need[c]
      BY <1>1, <1>2, VectorFacts
    <3>2. QED
      BY <1>1, <1>2, <1>3, <3>1, VectorFacts
  <2>3. Certified(available, allocation, need)
    BY DEF Sound, RequestEntered
  <2>4. Before(available, allocation, need)'
    BY <1>8, <2>2, <2>3 DEF Before
  <2>5. CanAllFinish(available', allocation', need', {}, available')
    BY <1>1, <1>2, <1>3, EmptyPlan, VectorFacts
  <2>6. QED
    BY <1>1, <1>5, <1>8, <2>1, <2>4, <2>5 DEF PendingInv
<1>10. QED
  BY <1>4, <1>6, <1>7, <1>8, <1>9 DEF Sound

\* A round of safe() makes its plan one customer longer.
LEMMA FinishInv ==
  ASSUME TypeOK, Sound, NEW c \in Customers, Finish(c)
  PROVE  Sound'
<1>1. /\ pc = "safe" /\ c \notin finish /\ vleq(need[c], work)
      /\ work' = Plus(work, allocation[c]) /\ finish' = finish \cup {c}
      /\ UNCHANGED <<argv, books, pc, customer_num, request>>
  BY DEF Finish, CanFinish
<1>2. work \in IntVectors /\ available \in IntVectors /\ allocation \in [Rows -> NatVectors]
  BY DEF Sound, TypeOK
<1>3. CanAllFinish(available, allocation, need, finish, work)'
  <2>1. CanAllFinish(available, allocation, need, finish, work)
    BY <1>1 DEF Sound, PendingInv
  <2>2. CanAllFinish(available, allocation, need, finish \cup {c}, Plus(work, allocation[c]))
    BY <1>1, <1>2, <2>1, LongerPlan
  <2>3. QED
    BY <1>1, <2>2 DEF books
<1>4. PendingInv'
  BY <1>1, <1>3 DEF Sound, PendingInv, Before, books
<1>5. RowsAddUp' /\ HoldersCovered'
  BY <1>1 DEF Sound, RowsAddUp, HoldersCovered, books
<1>6. QED
  BY <1>1, <1>4, <1>5 DEF Sound, books

\* Every step after which the books are as before and safe() is not at work.
LEMMA AnsweredInv ==
  ASSUME Sound, UNCHANGED books, Certified(available, allocation, need), pc' # "safe"
  PROVE  Sound'
BY DEF Sound, RowsAddUp, HoldersCovered, books

\* A request is granted when the plan has every customer in it.
LEMMA GrantedInv ==
  ASSUME TypeOK, Sound, Granted
  PROVE  Sound'
<1>1. CanAllFinish(available, allocation, need, Customers, work)
  BY DEF Sound, PendingInv, Granted
<1>2. Certified(available, allocation, need)
  BY <1>1 DEF TypeOK, Certified
<1>3. QED
  BY <1>2, AnsweredInv DEF Granted, Reply

\* A row whose books are moved back: whoever holds something is still covered,
\* and the sums stay.
LEMMA MovedBack ==
  ASSUME TypeOK, Sound, NEW c \in Numbers \cap Rows, NEW v \in NatVectors,
         vleq(v, allocation[c]), c = NUMBER_OF_CUSTOMERS => v = Zero, Deallocate(c, v)
  PROVE  /\ available' = Plus(available, v) /\ maximum' = maximum
         /\ allocation' = [allocation EXCEPT ![c] = Minus(@, v)]
         /\ need' = [need EXCEPT ![c] = Plus(@, v)]
         /\ allocation' \in [Rows -> NatVectors] /\ RowsAddUp' /\ HoldersCovered'
<1>1. v \in IntVectors
  BY NaturalVectors
<1>2. /\ available \in IntVectors /\ allocation[c] \in NatVectors /\ need[c] \in IntVectors
      /\ allocation \in [Rows -> NatVectors] /\ need \in [Rows -> IntVectors]
  BY DEF Sound, TypeOK
<1>3. /\ available' = Plus(available, v) /\ maximum' = maximum
      /\ allocation' = [allocation EXCEPT ![c] = Minus(@, v)]
      /\ need' = [need EXCEPT ![c] = Plus(@, v)]
  BY <1>1, DeallocateRow
<1>4. allocation' \in [Rows -> NatVectors]
  BY <1>2, <1>3, NaturalVectors
<1>5. RowsAddUp'
  <2>1. ASSUME NEW d \in Customers
        PROVE  Plus(allocation'[d], need'[d]) = maximum'[d]
    <3>1. CASE d = c
      BY <1>2, <1>3, <3>1, RowSums DEF Sound, RowsAddUp
    <3>2. CASE d # c
      BY <1>2, <1>3, <3>2, RowFacts DEF Sound, RowsAddUp
    <3>3. QED
      BY <3>1, <3>2
  <2>2. Plus(Zero, Zero) = Zero /\ Minus(Zero, Zero) = Zero
    BY NaturalVectors, VectorFacts
  <2>3. allocation'[NUMBER_OF_CUSTOMERS] = Zero /\ need'[NUMBER_OF_CUSTOMERS] = Zero
    BY <1>2, <1>3, <2>2, RowFacts DEF Sound, RowsAddUp
  <2>4. QED
    BY <2>1, <2>3 DEF RowsAddUp
<1>6. HoldersCovered'
  <2> SUFFICES ASSUME NEW d \in Customers, allocation'[d] # Zero
               PROVE  vleq(Zero, available') /\ vleq(Zero, need'[d])
    BY DEF HoldersCovered
  <2>1. allocation[d] # Zero
    <3>1. CASE d = c
      BY <1>2, <1>3, <3>1, NaturalVectors, CoverFacts
    <3>2. CASE d # c
      BY <1>2, <1>3, <3>2, RowFacts
    <3>3. QED
      BY <3>1, <3>2
  <2>2. vleq(Zero, available) /\ vleq(Zero, need[d])
    BY <2>1 DEF Sound, HoldersCovered
  <2>3. need'[d] = IF d = c THEN Plus(need[d], v) ELSE need[d]
    BY <1>2, <1>3, RowFacts
  <2>4. QED
    BY <1>2, <1>3, <2>2, <2>3, RowFacts, CoverFacts
<1>7. QED
  BY <1>3, <1>4, <1>5, <1>6

\* A request that is taken back leaves the books as they were before it.
LEMMA RolledBackInv ==
  ASSUME TypeOK, Sound, RolledBack
  PROVE  Sound'
<1>1. /\ customer_num \in Numbers \cap Rows /\ request \in NatVectors
      /\ vleq(request, allocation[customer_num])
      /\ customer_num = NUMBER_OF_CUSTOMERS => request = Zero
      /\ Before(available, allocation, need)
  BY DEF Sound, PendingInv, RolledBack
<1>2. /\ available' = Plus(available, request)
      /\ allocation' = [allocation EXCEPT ![customer_num] = Minus(@, request)]
      /\ need' = [need EXCEPT ![customer_num] = Plus(@, request)]
      /\ allocation' \in [Rows -> NatVectors] /\ RowsAddUp' /\ HoldersCovered'
  BY <1>1, MovedBack DEF RolledBack
<1>3. Certified(available, allocation, need)' /\ pc' # "safe"
  BY <1>1, <1>2 DEF Before, RolledBack, Reply
<1>4. QED
  BY <1>2, <1>3 DEF Sound

\* A release, too, leaves a plan.
LEMMA ReleasedInv ==
  ASSUME TypeOK, Sound, NEW c \in Numbers, NEW v \in Vectors, Released(c, v), Proper(c, v)
  PROVE  Sound'
<1>1. c <= NUMBER_OF_CUSTOMERS /\ c # NUMBER_OF_CUSTOMERS
  BY BankerAssumption DEF Released
<1>2. c \in Numbers \cap Rows /\ c \in Customers /\ v \in NatVectors /\ vleq(v, allocation[c])
  BY <1>1, ProperEntry, RowFacts DEF Released
<1>3. /\ available' = Plus(available, v)
      /\ allocation' = [allocation EXCEPT ![c] = Minus(@, v)]
      /\ need' = [need EXCEPT ![c] = Plus(@, v)]
      /\ allocation' \in [Rows -> NatVectors] /\ RowsAddUp' /\ HoldersCovered'
  BY <1>1, <1>2, MovedBack DEF Released
<1>4. Certified(available, allocation, need)
  BY DEF Sound, Released
<1>5. available \in IntVectors /\ allocation \in [Rows -> NatVectors] /\ need \in [Rows -> IntVectors]
  BY DEF Sound, TypeOK
<1>6. Certified(available, allocation, need)'
  BY <1>2, <1>3, <1>4, <1>5, CertifiedAfterRelease
<1>7. QED
  BY <1>3, <1>6 DEF Sound, Released, Reply

\* The number of misuses never falls, and a command that is none is proper.
LEMMA MisusesGrow ==
  ASSUME TypeOK, [Next]_vars, misuses' = 0
  PROVE  /\ misuses = 0
         /\ \A c \in Numbers, v \in Vectors : RequestEntered(c, v) \/ Released(c, v) => Proper(c, v)
<1>1. misuses \in Nat
  BY BankerAssumption DEF TypeOK
<1>2. \A c \in Numbers, v \in Vectors : CountMisuse(c, v) => misuses = 0 /\ Proper(c, v)
  BY <1>1 DEF CountMisuse
<1>3. misuses = 0 \/ misuses' = misuses
  BY <1>2 DEF Next, RequestResources, ReleaseResources, RequestRejected, RequestEntered,
              ReleaseRejected, Released, Crash, Deciding, Finish, Granted, RolledBack, Quit,
              Terminated, vars
<1>4. QED
  BY <1>2, <1>3 DEF RequestEntered, Released

\* No step but a misuse spoils the books.
LEMMA SoundNext ==
  ASSUME TypeOK, Sound, [Next]_vars, misuses' = 0
  PROVE  Sound'
<1>1. ASSUME pc = "prompt", pc' # "safe", UNCHANGED books PROVE Sound'
  BY <1>1, AnsweredInv DEF Sound
<1>2. ASSUME NEW c \in Numbers, NEW v \in Vectors, RequestResources(c, v) PROVE Sound'
  <2>1. RequestEntered(c, v) => Proper(c, v)
    BY MisusesGrow
  <2>2. QED
    BY <1>1, <1>2, <2>1, RequestEnteredInv DEF RequestResources, RequestRejected, Reply
<1>3. ASSUME NEW c \in Numbers, NEW v \in Vectors, ReleaseResources(c, v) PROVE Sound'
  <2>1. Released(c, v) => Proper(c, v)
    BY MisusesGrow
  <2>2. QED
    BY <1>1, <1>3, <2>1, ReleasedInv DEF ReleaseResources, ReleaseRejected, Reply
<1>4. ASSUME NEW c, Crash(c) \/ Quit PROVE Sound'
  BY <1>1, <1>4 DEF Crash, Quit
<1>5. CASE Deciding
  BY <1>5, FinishInv, GrantedInv, RolledBackInv DEF Deciding
<1>6. CASE UNCHANGED vars
  BY <1>6 DEF vars, Sound, RowsAddUp, HoldersCovered, PendingInv, Before, books, locals
<1>7. QED
  BY <1>2, <1>3, <1>4, <1>5, <1>6 DEF Next, Terminated

\* No step of the program leaves the invariant.
LEMMA NextInv == IInv /\ [Next]_vars => IInv'
<1> SUFFICES ASSUME IInv, [Next]_vars PROVE IInv'
  OBVIOUS
<1>1. TypeOK'
  BY TypeNext DEF IInv
<1>2. ASSUME misuses' = 0 PROVE Sound'
  BY <1>2, MisusesGrow, SoundNext DEF IInv
<1>3. QED
  BY <1>1, <1>2 DEF IInv

\* The invariant holds throughout.
THEOREM Invariance == Spec => []IInv
BY InitInv, NextInv, PTL DEF Spec

\* Every variable has its type, whatever numbers are entered, and whatever
\* memory they name (banker.c:69-73, 139-180).
THEOREM TypeCorrect == Spec => []TypeOK
<1>1. IInv => TypeOK
  BY DEF IInv
<1>2. QED
  BY <1>1, Invariance, PTL

\* Until a number below zero gets as far as the books, allocation and need of
\* a customer add up to its maximum, no customer holds less than nothing, and
\* nothing is overdrawn while one holds something, whatever was granted, taken
\* back or returned and whatever there was at the start (banker.c:27-53,
\* 140-162, 171-178).
THEOREM BooksStayBalanced == Spec => []BooksBalance
<1>1. IInv => BooksBalance
  <2> SUFFICES ASSUME IInv, misuses = 0 PROVE NeedIsRemaining /\ NothingOverdrawn
    BY DEF BooksBalance
  <2>1. NeedIsRemaining
    BY DEF IInv, Sound, RowsAddUp, NeedIsRemaining
  <2>2. \A c \in Customers : allocation[c] \in NatVectors
    BY RowFacts DEF IInv, Sound
  <2>3. \A c \in Customers : vleq(Zero, allocation[c])
    BY <2>2 DEF NatVectors, Zero, vleq
  <2>4. NothingOverdrawn
    BY <2>3 DEF IInv, Sound, HoldersCovered, NothingOverdrawn
  <2>5. QED
    BY <2>1, <2>4
<1>2. QED
  BY <1>1, Invariance, PTL

\* Whenever the user is asked for a command there is an order in which every
\* customer can be given all it still needs and return what it holds, unless
\* nobody holds anything, or a number below zero has got as far as the books
\* (banker.c:139-205).
THEOREM PlanAtPrompt ==
  Spec => [](misuses = 0 /\ pc = "prompt" => Certified(available, allocation, need))
<1>1. IInv => (misuses = 0 /\ pc = "prompt" => Certified(available, allocation, need))
  BY DEF IInv, Sound
<1>2. QED
  BY <1>1, Invariance, PTL

\* The customers never wait for one another: the first of the plan can be
\* served at once (banker.c:139-180).
THEOREM NoDeadlock == Spec => []SomeoneCanFinish
<1>1. IInv => SomeoneCanFinish
  <2> SUFFICES ASSUME IInv, misuses = 0, pc = "prompt",
                      \E c \in Customers : allocation[c] # Zero
               PROVE  \E c \in Customers : vleq(need[c], available)
    BY DEF SomeoneCanFinish
  <2>1. PICK wk \in IntVectors : CanAllFinish(available, allocation, need, Customers, wk)
    BY DEF IInv, Sound, Certified
  <2>2. PICK n \in Nat : \E order \in [1 .. n -> Customers], w \in [1 .. n + 1 -> IntVectors] :
          /\ IsPlan(available, allocation, need, n, order, w)
          /\ Customers = {order[k] : k \in 1 .. n}
          /\ wk = w[n + 1]
    BY <2>1 DEF CanAllFinish
  <2>3. PICK order \in [1 .. n -> Customers], w \in [1 .. n + 1 -> IntVectors] :
          /\ IsPlan(available, allocation, need, n, order, w)
          /\ Customers = {order[k] : k \in 1 .. n}
    BY <2>2
  <2>4. 1 \in 1 .. n
    BY <2>3, RowFacts
  <2>5. order[1] \in Customers /\ vleq(need[order[1]], available)
    BY <2>3, <2>4 DEF IsPlan
  <2>6. QED
    BY <2>5
<1>2. QED
  BY <1>1, Invariance, PTL

-----------------------------------------------------------------------------
(***************************************************************************)
(* What safe() has to work with is what is free and all that the customers *)
(* who finished hold.  Held is a sum over a set, taken in the order that   *)
(* CHOOSE gives; the lemmas say that the order does not matter.            *)
(***************************************************************************)
LEMMA LeastOf ==
  ASSUME NEW S \in SUBSET Nat, S # {}
  PROVE  \E x \in S : \A y \in S : x <= y
<1>1. PICK x \in S : \A y \in S : ~ (<<y, x>> \in OpToRel(<, Nat))
  BY NatLessThanWellFounded, WFMin, Zenon
<1>2. \A y \in S : x <= y
  <2> TAKE y \in S
  <2>1. y < x => <<y, x>> \in OpToRel(<, Nat)
    BY DEF OpToRel
  <2>2. ~ (y < x)
    BY <1>1, <2>1, Zenon
  <2>3. x \in Nat /\ y \in Nat
    OBVIOUS
  <2>4. QED
    BY <2>2, <2>3
<1>3. QED
  BY <1>2

\* If some sets are exceptions, one of them has none that is smaller.
LEMMA SmallestSet ==
  ASSUME NEW C, IsFiniteSet(C), NEW Bad \in SUBSET SUBSET C, Bad # {}
  PROVE  \E s \in Bad : \A x \in s : s \ {x} \notin Bad
<1> DEFINE Sizes == {Cardinality(s) : s \in Bad}
<1>1. \A s \in Bad : IsFiniteSet(s) /\ Cardinality(s) \in Nat
  BY FS_Subset, FS_CardinalityType
<1>2. Sizes \in SUBSET Nat /\ Sizes # {}
  BY <1>1
<1>3. PICK n \in Sizes : \A m \in Sizes : n <= m
  <2> HIDE DEF Sizes
  <2>1. QED
    BY <1>2, LeastOf
<1>4. PICK s \in Bad : \A t \in Bad : Cardinality(s) <= Cardinality(t)
  BY <1>3
<1>5. \A x \in s : s \ {x} \notin Bad
  <2> TAKE x \in s
  <2>1. Cardinality(s \ {x}) = Cardinality(s) - 1
    BY <1>1, FS_RemoveElement
  <2>2. QED
    BY <1>1, <1>4, <2>1
<1>6. QED
  BY <1>5

First(s) == CHOOSE x \in s : TRUE

\* F gives for every subset of C the sum of f over it.
IsTotal(F, f, C) ==
  /\ F \in [SUBSET C -> Nat]
  /\ \A s \in SUBSET C : F[s] = IF s = {} THEN 0 ELSE f[First(s)] + F[s \ {First(s)}]

\* The sums of f over all sets of customers, from the smaller to the larger.
LEMMA TotalExists ==
  ASSUME NEW C, IsFiniteSet(C), NEW f \in [C -> Nat]
  PROVE  \E F : IsTotal(F, f, C)
<1> DEFINE Small(n) == {s \in SUBSET C : Cardinality(s) <= n}
           Sums(F, n) == \A s \in Small(n) :
             F[s] = IF s = {} THEN 0 ELSE f[First(s)] + F[s \ {First(s)}]
           Bad == {n \in Nat : ~ \E F \in [Small(n) -> Nat] : Sums(F, n)}
<1>1. \A s \in SUBSET C :
        /\ IsFiniteSet(s) /\ Cardinality(s) \in Nat /\ Cardinality(s) <= Cardinality(C)
        /\ Cardinality(s) = 0 <=> s = {}
        /\ s # {} => /\ First(s) \in s /\ s \ {First(s)} \in SUBSET C
                     /\ Cardinality(s \ {First(s)}) = Cardinality(s) - 1
  <2> TAKE s \in SUBSET C
  <2>1. IsFiniteSet(s) /\ Cardinality(s) <= Cardinality(C)
    BY FS_Subset
  <2>2. Cardinality(s) \in Nat /\ (Cardinality(s) = 0 <=> s = {})
    BY <2>1, FS_CardinalityType, FS_EmptySet
  <2>3. s # {} => First(s) \in s
    BY DEF First
  <2>4. QED
    BY <2>1, <2>2, <2>3, FS_RemoveElement
<1>2. Bad = {}
  <2> SUFFICES ASSUME Bad # {} PROVE FALSE
    OBVIOUS
  <2>1. PICK n \in Bad : \A m \in Bad : n <= m
    <3>1. Bad \in SUBSET Nat
      OBVIOUS
    <3> HIDE DEF Bad
    <3>2. QED
      BY <3>1, LeastOf
  <2>2. CASE n = 0
    <3> DEFINE F == [s \in Small(0) |-> 0]
    <3>1. \A s \in Small(0) : s = {}
      <4> TAKE s \in Small(0)
      <4>1. s \in SUBSET C /\ Cardinality(s) <= 0
        OBVIOUS
      <4>2. Cardinality(s) \in Nat /\ (Cardinality(s) = 0 <=> s = {})
        BY <1>1, <4>1
      <4>3. QED
        BY <4>1, <4>2
    <3>2. F \in [Small(0) -> Nat] /\ Sums(F, 0)
      BY <3>1
    <3>3. QED
      BY <2>1, <2>2, <3>2
  <2>3. CASE n # 0
    <3>1. n - 1 \in Nat /\ n - 1 \notin Bad
      <4>1. n \in Nat
        OBVIOUS
      <4> HIDE DEF Bad
      <4>2. QED
        BY <2>1, <2>3, <4>1
    <3>2. PICK F \in [Small(n - 1) -> Nat] : Sums(F, n - 1)
      BY <3>1
    <3> DEFINE G == [s \in Small(n) |-> IF s = {} THEN 0 ELSE f[First(s)] + F[s \ {First(s)}]]
    <3>3. \A s \in Small(n) : s # {} => s \ {First(s)} \in Small(n - 1) /\ f[First(s)] \in Nat
      BY <1>1, <2>1
    <3>4. G \in [Small(n) -> Nat]
      BY <3>2, <3>3
    <3>5. \A s \in Small(n - 1) : s \in Small(n) /\ G[s] = F[s]
      BY <1>1, <2>1, <3>2
    <3>6. Sums(G, n)
      <4> TAKE s \in Small(n)
      <4>1. CASE s = {}
        BY <4>1
      <4>2. CASE s # {}
        <5>1. s \ {First(s)} \in Small(n - 1)
          BY <3>3, <4>2
        <5>2. G[s \ {First(s)}] = F[s \ {First(s)}]
          BY <3>5, <5>1
        <5>3. QED
          BY <4>2, <5>2
      <4>3. QED
        BY <4>1, <4>2
    <3>7. QED
      BY <2>1, <3>4, <3>6
  <2>4. QED
    BY <2>2, <2>3
<1>3. Cardinality(C) \in Nat /\ Small(Cardinality(C)) = SUBSET C
  BY <1>1, FS_CardinalityType
<1>4. PICK F \in [Small(Cardinality(C)) -> Nat] : Sums(F, Cardinality(C))
  BY <1>2, <1>3
<1>5. IsTotal(F, f, C)
  BY <1>3, <1>4 DEF IsTotal
<1>6. QED
  BY <1>5

\* Whichever element is taken out first, the sum is the same.
LEMMA TotalAdds ==
  ASSUME NEW C, IsFiniteSet(C), NEW f \in [C -> Nat], NEW F, IsTotal(F, f, C),
         NEW s \in SUBSET C, NEW y \in s
  PROVE  F[s] = f[y] + F[s \ {y}]
<1> DEFINE Bad == {t \in SUBSET C : \E x \in t : F[t] # f[x] + F[t \ {x}]}
<1>1. SUFFICES ASSUME Bad # {} PROVE FALSE
  OBVIOUS
<1>2. PICK t \in Bad : \A x \in t : t \ {x} \notin Bad
  <2>1. Bad \in SUBSET SUBSET C
    OBVIOUS
  <2> HIDE DEF Bad
  <2>2. QED
    BY <1>1, <2>1, SmallestSet
<1>3. PICK x \in t : F[t] # f[x] + F[t \ {x}]
  BY <1>2
<1> DEFINE a == First(t)
<1>4. a \in t /\ t \in SUBSET C /\ F[t] = f[a] + F[t \ {a}] /\ a # x
  BY <1>2, <1>3 DEF IsTotal, First
<1>5. t \ {a} \notin Bad /\ t \ {x} \notin Bad
  BY <1>2, <1>4
<1>6. F[t \ {a}] = f[x] + F[(t \ {a}) \ {x}]
  BY <1>3, <1>4, <1>5
<1>7. F[t \ {x}] = f[a] + F[(t \ {x}) \ {a}]
  BY <1>3, <1>4, <1>5
<1>8. (t \ {a}) \ {x} = (t \ {x}) \ {a} /\ (t \ {a}) \ {x} \in SUBSET C /\ t \ {x} \in SUBSET C
  BY <1>4
<1>9. f[a] \in Nat /\ f[x] \in Nat /\ F[(t \ {a}) \ {x}] \in Nat
  BY <1>3, <1>4, <1>8 DEF IsTotal
<1>10. F[(t \ {a}) \ {x}] = F[(t \ {x}) \ {a}]
  BY <1>8
<1> HIDE DEF a, Bad
<1>11. QED
  BY <1>3, <1>4, <1>6, <1>7, <1>9, <1>10

\* What alloc[c] has of r, for every customer.
Of(alloc, r) == [c \in Customers |-> alloc[c][r]]

\* Held is that sum, for each kind of resource.
LEMMA HeldIsTotal ==
  ASSUME NEW alloc, NEW r \in Resources, NEW F, IsTotal(F, Of(alloc, r), Customers),
         NEW T \in SUBSET Customers
  PROVE  Ledger!Held(alloc, T)[r] = F[T]
<1> DEFINE it[s \in SUBSET T] == IF s = {} THEN 0
                                 ELSE LET x == CHOOSE x \in s : TRUE
                                      IN  alloc[x][r] + it[s \ {x}]
           G == [s \in SUBSET T |-> F[s]]
           Step(g) == [s \in SUBSET T |->
                         IF s = {} THEN 0 ELSE alloc[First(s)][r] + g[s \ {First(s)}]]
<1>1. Ledger!Held(alloc, T)[r] = it[T]
  BY DEF Ledger!Held, Ledger!MapThenSumSet, Ledger!MapThenFoldSet
<1>2. \A s \in SUBSET T :
        /\ s \in SUBSET Customers
        /\ s # {} => First(s) \in s /\ First(s) \in Customers /\ s \ {First(s)} \in SUBSET T
  BY DEF First
<1>3. G = Step(G)
  <2> SUFFICES ASSUME NEW s \in SUBSET T
               PROVE  F[s] = IF s = {} THEN 0 ELSE alloc[First(s)][r] + G[s \ {First(s)}]
    OBVIOUS
  <2>1. CASE s = {}
    BY <1>2, <2>1 DEF IsTotal
  <2>2. CASE s # {}
    BY <1>2, <2>2 DEF IsTotal, Of
  <2>3. QED
    BY <2>1, <2>2
<1>4. it = Step(it)
  BY <1>3 DEF First
<1> HIDE DEF it
<1>5. it[T] = F[T]
  <2> DEFINE Bad == {s \in SUBSET T : it[s] # F[s]}
  <2> SUFFICES ASSUME Bad # {} PROVE FALSE
    OBVIOUS
  <2>1. IsFiniteSet(Customers)
    BY FS_Interval, BankerAssumption DEF Customers
  <2>2. Bad \in SUBSET SUBSET Customers
    OBVIOUS
  <2>3. PICK s \in Bad : \A x \in s : s \ {x} \notin Bad
    <3> HIDE DEF Bad
    <3>1. QED
      BY <2>1, <2>2, SmallestSet
  <2>4. s \in SUBSET T /\ it[s] # F[s] /\ s \in SUBSET Customers
    OBVIOUS
  <2>5. it[s] = IF s = {} THEN 0 ELSE alloc[First(s)][r] + it[s \ {First(s)}]
    BY <1>4, <2>4
  <2>6. F[s] = IF s = {} THEN 0 ELSE Of(alloc, r)[First(s)] + F[s \ {First(s)}]
    BY <2>4 DEF IsTotal
  <2>7. CASE s = {}
    BY <2>4, <2>5, <2>6, <2>7
  <2>8. CASE s # {}
    <3>1. Of(alloc, r)[First(s)] = alloc[First(s)][r]
      BY <1>2, <2>4, <2>8 DEF Of
    <3>2. it[s \ {First(s)}] = F[s \ {First(s)}]
      BY <1>2, <2>3, <2>4, <2>8
    <3>3. QED
      BY <2>4, <2>5, <2>6, <2>8, <3>1, <3>2
  <2>9. QED
    BY <2>7, <2>8
<1>6. QED
  BY <1>1, <1>5

\* The customers are an interval of numbers.
LEMMA CustomersFinite == IsFiniteSet(Customers)
BY FS_Interval, BankerAssumption DEF Customers

\* Held of some customers is a vector, and each of them adds its row to it.
LEMMA HeldFacts ==
  ASSUME NEW alloc, \A c \in Customers : alloc[c] \in NatVectors
  PROVE  /\ Ledger!Held(alloc, {}) = Zero
         /\ \A T \in SUBSET Customers : Ledger!Held(alloc, T) \in NatVectors
         /\ \A T \in SUBSET Customers : \A c \in T :
              Ledger!Held(alloc, T) = Plus(Ledger!Held(alloc, T \ {c}), alloc[c])
<1>1. \A T : Ledger!Held(alloc, T) = [r \in Resources |-> Ledger!Held(alloc, T)[r]]
  BY DEF Ledger!Held
<1>2. ASSUME NEW r \in Resources
      PROVE  /\ Ledger!Held(alloc, {})[r] = 0
             /\ \A T \in SUBSET Customers : Ledger!Held(alloc, T)[r] \in Nat
             /\ \A T \in SUBSET Customers : \A c \in T :
                  Ledger!Held(alloc, T)[r] = Ledger!Held(alloc, T \ {c})[r] + alloc[c][r]
  <2>1. Of(alloc, r) \in [Customers -> Nat]
    BY DEF Of, NatVectors
  <2>2. PICK F : IsTotal(F, Of(alloc, r), Customers)
    BY <2>1, CustomersFinite, TotalExists
  <2>3. \A T \in SUBSET Customers : Ledger!Held(alloc, T)[r] = F[T] /\ F[T] \in Nat
    <3> TAKE T \in SUBSET Customers
    <3>1. Ledger!Held(alloc, T)[r] = F[T]
      BY <2>2, HeldIsTotal
    <3>2. QED
      BY <2>2, <3>1 DEF IsTotal
  <2>4. {} \in SUBSET Customers /\ F[{}] = 0
    BY <2>2 DEF IsTotal
  <2>5. ASSUME NEW T \in SUBSET Customers, NEW c \in T
        PROVE  F[T] = F[T \ {c}] + alloc[c][r] /\ T \ {c} \in SUBSET Customers
    <3>1. F[T] = Of(alloc, r)[c] + F[T \ {c}]
      BY <2>1, <2>2, CustomersFinite, TotalAdds
    <3>2. Of(alloc, r)[c] = alloc[c][r] /\ Of(alloc, r)[c] \in Nat /\ F[T \ {c}] \in Nat
      BY <2>1, <2>3 DEF Of
    <3>3. QED
      BY <3>1, <3>2
  <2>6. QED
    BY <2>3, <2>4, <2>5
<1>3. Ledger!Held(alloc, {}) = Zero
  BY <1>1, <1>2 DEF Zero
<1>4. ASSUME NEW T \in SUBSET Customers PROVE Ledger!Held(alloc, T) \in NatVectors
  <2>1. \A r \in Resources : Ledger!Held(alloc, T)[r] \in Nat
    BY <1>2
  <2>2. QED
    BY <1>1, <2>1 DEF NatVectors
<1>5. ASSUME NEW T \in SUBSET Customers, NEW c \in T
      PROVE  Ledger!Held(alloc, T) = Plus(Ledger!Held(alloc, T \ {c}), alloc[c])
  <2>1. \A r \in Resources :
          Ledger!Held(alloc, T)[r] = Ledger!Held(alloc, T \ {c})[r] + alloc[c][r]
    BY <1>2
  <2>2. QED
    BY <1>1, <2>1 DEF Plus
<1>6. QED
  BY <1>3, <1>4, <1>5

\* More customers hold at least as much.
LEMMA HeldGrows ==
  ASSUME NEW alloc, \A c \in Customers : alloc[c] \in NatVectors,
         NEW U \in SUBSET Customers, NEW T \in SUBSET U
  PROVE  vleq(Ledger!Held(alloc, T), Ledger!Held(alloc, U))
<1> DEFINE Bad == {s \in SUBSET Customers :
                     T \subseteq s /\ ~ vleq(Ledger!Held(alloc, T), Ledger!Held(alloc, s))}
<1>1. SUFFICES ASSUME Bad # {} PROVE FALSE
  OBVIOUS
<1>2. PICK s \in Bad : \A x \in s : s \ {x} \notin Bad
  <2>1. Bad \in SUBSET SUBSET Customers
    OBVIOUS
  <2> HIDE DEF Bad
  <2>2. QED
    BY <1>1, <2>1, CustomersFinite, SmallestSet
<1>3. s \in SUBSET Customers /\ T \subseteq s /\ T \in SUBSET Customers
      /\ ~ vleq(Ledger!Held(alloc, T), Ledger!Held(alloc, s))
  OBVIOUS
<1>4. Ledger!Held(alloc, s) \in NatVectors /\ Ledger!Held(alloc, T) \in NatVectors
  BY <1>3, HeldFacts
<1>5. s # T
  BY <1>3, <1>4 DEF NatVectors, vleq
<1>6. PICK x \in s : x \notin T
  BY <1>3, <1>5
<1>7. vleq(Ledger!Held(alloc, T), Ledger!Held(alloc, s \ {x})) /\ s \ {x} \in SUBSET Customers
  BY <1>2, <1>3, <1>6
<1>8. Ledger!Held(alloc, s \ {x}) \in NatVectors /\ alloc[x] \in NatVectors
      /\ Ledger!Held(alloc, s) = Plus(Ledger!Held(alloc, s \ {x}), alloc[x])
  BY <1>3, <1>7, HeldFacts
<1>9. Ledger!Held(alloc, T) \in IntVectors /\ Ledger!Held(alloc, s \ {x}) \in IntVectors
  BY <1>4, <1>8, NaturalVectors
<1>10. QED
  BY <1>3, <1>7, <1>8, <1>9, VectorSums

\* Held asks for nothing but the rows of the customers.
LEMMA HeldSame ==
  ASSUME NEW alloc, NEW alloc2,
         \A c \in Customers : alloc[c] \in NatVectors /\ alloc2[c] = alloc[c],
         NEW T \in SUBSET Customers
  PROVE  Ledger!Held(alloc2, T) = Ledger!Held(alloc, T)
<1>1. ASSUME NEW r \in Resources
      PROVE  Ledger!Held(alloc2, T)[r] = Ledger!Held(alloc, T)[r]
  <2>1. Of(alloc, r) \in [Customers -> Nat] /\ Of(alloc2, r) = Of(alloc, r)
    BY DEF Of, NatVectors
  <2>2. PICK F : IsTotal(F, Of(alloc, r), Customers)
    BY <2>1, CustomersFinite, TotalExists
  <2>3. QED
    BY <2>1, <2>2, HeldIsTotal
<1>2. /\ Ledger!Held(alloc, T) = [r \in Resources |-> Ledger!Held(alloc, T)[r]]
      /\ Ledger!Held(alloc2, T) = [r \in Resources |-> Ledger!Held(alloc2, T)[r]]
  BY DEF Ledger!Held
<1>3. QED
  BY <1>1, <1>2

\* What covers u with less added covers it with more.
LEMMA VectorOrder ==
  ASSUME NEW a \in IntVectors, NEW b \in IntVectors, NEW h \in IntVectors, NEW u \in IntVectors
  PROVE  /\ Plus(Plus(a, b), h) = Plus(a, Plus(b, h))
         /\ vleq(b, h) /\ vleq(u, Plus(a, b)) => vleq(u, Plus(a, h))
BY DEF IntVectors, Plus, vleq

\* The customers that finish before point k of a plan.
Served(order, k) == {order[j] : j \in 1 .. k - 1}

\* At each point of a plan, what was free and what the customers before that
\* point hold is there.
LEMMA PlanWork ==
  ASSUME NEW avail \in IntVectors, NEW alloc, \A c \in Customers : alloc[c] \in NatVectors,
         NEW nd, NEW n \in Nat, NEW order \in [1 .. n -> Customers],
         NEW w \in [1 .. n + 1 -> IntVectors], IsPlan(avail, alloc, nd, n, order, w)
  PROVE  \A k \in 1 .. n + 1 : w[k] = Plus(avail, Ledger!Held(alloc, Served(order, k)))
<1> DEFINE Bad == {k \in 1 .. n + 1 : w[k] # Plus(avail, Ledger!Held(alloc, Served(order, k)))}
<1>1. SUFFICES ASSUME Bad # {} PROVE FALSE
  OBVIOUS
<1>2. PICK k \in Bad : \A j \in Bad : k <= j
  <2>1. Bad \in SUBSET Nat
    OBVIOUS
  <2> HIDE DEF Bad
  <2>2. QED
    BY <1>1, <2>1, LeastOf
<1>3. k \in 1 .. n + 1 /\ w[k] # Plus(avail, Ledger!Held(alloc, Served(order, k)))
  OBVIOUS
<1>4. CASE k = 1
  <2>1. Served(order, 1) = {} /\ w[1] = avail
    BY DEF IsPlan, Served
  <2> HIDE DEF Bad
  <2>2. Ledger!Held(alloc, Served(order, 1)) = Zero
    BY <2>1, HeldFacts
  <2>3. QED
    BY <1>3, <1>4, <2>1, <2>2, VectorFacts
<1>5. CASE k # 1
  <2> DEFINE c == order[k - 1]
  <2>1. k - 1 \in 1 .. n /\ k - 1 \in 1 .. n + 1 /\ (k - 1) + 1 = k
    BY <1>3, <1>5
  <2>2. w[k] = Plus(w[k - 1], alloc[c]) /\ c \in Customers
    BY <2>1 DEF IsPlan
  <2>3. k - 1 \notin Bad
    <3> HIDE DEF Bad
    <3>1. QED
      BY <1>2, <2>1
  <2>4. w[k - 1] = Plus(avail, Ledger!Held(alloc, Served(order, k - 1)))
    BY <2>1, <2>3
  <2>5. \A j \in 1 .. (k - 1) - 1 : j \in 1 .. n /\ order[j] # c
    BY <2>1 DEF IsPlan
  <2>6. \A j \in 1 .. k - 1 : j = k - 1 \/ j \in 1 .. (k - 1) - 1
    BY <2>1
  <2>7. c \in Served(order, k) /\ Served(order, k) \ {c} = Served(order, k - 1) /\ Served(order, k) \in SUBSET Customers
    BY <2>1, <2>2, <2>5, <2>6 DEF Served
  <2> HIDE DEF Bad, c
  <2>8. /\ Ledger!Held(alloc, Served(order, k)) = Plus(Ledger!Held(alloc, Served(order, k - 1)), alloc[c])
        /\ Ledger!Held(alloc, Served(order, k - 1)) \in NatVectors /\ alloc[c] \in NatVectors
    <3>1. Served(order, k - 1) \in SUBSET Customers
      BY <2>7
    <3>2. Ledger!Held(alloc, Served(order, k)) = Plus(Ledger!Held(alloc, Served(order, k) \ {c}), alloc[c])
      BY <2>7, HeldFacts
    <3>3. Ledger!Held(alloc, Served(order, k - 1)) \in NatVectors
      BY <3>1, HeldFacts
    <3>4. QED
      BY <2>2, <2>7, <3>2, <3>3
  <2>9. alloc[c] \in IntVectors /\ Ledger!Held(alloc, Served(order, k - 1)) \in IntVectors
    BY <2>8, NaturalVectors
  <2>10. Plus(Plus(avail, Ledger!Held(alloc, Served(order, k - 1))), alloc[c])
           = Plus(avail, Plus(Ledger!Held(alloc, Served(order, k - 1)), alloc[c]))
    BY <2>9, VectorOrder
  <2>11. QED
    BY <1>3, <2>2, <2>4, <2>8, <2>10
<1>6. QED
  BY <1>4, <1>5

\* Safe, in the banker's own terms.
LEMMA SafeMeans ==
  ASSUME NEW avail, NEW alloc
  PROVE  Ledger!Safe(avail, alloc) <=>
           \A S \in (SUBSET Customers) \ {{}} : \E c \in S :
             vleq(Minus(maximum[c], alloc[c]), Plus(avail, Ledger!Held(alloc, Customers \ S)))
BY DEF Ledger!Safe, Ledger!Leq, Ledger!Minus, Ledger!Plus, vleq, Minus, Plus

\* Of the customers that wait, the first of the plan can be served with what is
\* free or held by the others.
LEMMA PlanIsSafe ==
  ASSUME NEW avail \in IntVectors, NEW alloc, NEW nd, NEW wk,
         \A c \in Customers : /\ alloc[c] \in NatVectors /\ nd[c] \in IntVectors
                              /\ Minus(maximum[c], alloc[c]) = nd[c],
         CanAllFinish(avail, alloc, nd, Customers, wk)
  PROVE  Ledger!Safe(avail, alloc)
<1>1. PICK n \in Nat : \E order \in [1 .. n -> Customers], w \in [1 .. n + 1 -> IntVectors] :
        /\ IsPlan(avail, alloc, nd, n, order, w)
        /\ Customers = {order[k] : k \in 1 .. n}
        /\ wk = w[n + 1]
  BY DEF CanAllFinish
<1>2. PICK order \in [1 .. n -> Customers], w \in [1 .. n + 1 -> IntVectors] :
        /\ IsPlan(avail, alloc, nd, n, order, w)
        /\ Customers = {order[k] : k \in 1 .. n}
  BY <1>1
<1>3. ASSUME NEW S \in (SUBSET Customers) \ {{}}
      PROVE  \E c \in S :
               vleq(Minus(maximum[c], alloc[c]), Plus(avail, Ledger!Held(alloc, Customers \ S)))
  <2> DEFINE K == {k \in 1 .. n : order[k] \in S}
  <2>1. K \in SUBSET Nat /\ K # {}
    <3>1. PICK c \in S : c \in Customers
      OBVIOUS
    <3>2. PICK k \in 1 .. n : order[k] = c
      BY <1>2, <3>1
    <3>3. k \in K
      BY <3>1, <3>2
    <3>4. QED
      BY <3>3
  <2>2. PICK k \in K : \A j \in K : k <= j
    <3> HIDE DEF K
    <3>1. QED
      BY <2>1, LeastOf
  <2>3. k \in 1 .. n /\ order[k] \in S /\ k \in 1 .. n + 1
    OBVIOUS
  <2> DEFINE served == Served(order, k)
  <2>4. served \in SUBSET (Customers \ S)
    BY <2>2, <2>3 DEF Served
  <2>5. w[k] = Plus(avail, Ledger!Held(alloc, served))
    <3>1. \A j \in 1 .. n + 1 :
            w[j] = Plus(avail, Ledger!Held(alloc, Served(order, j)))
      <4>1. \A c \in Customers : alloc[c] \in NatVectors
        OBVIOUS
      <4>2. IsPlan(avail, alloc, nd, n, order, w)
        BY <1>2
      <4> HIDE DEF served, K
      <4>3. QED
        BY <4>1, <4>2, PlanWork
    <3>2. QED
      BY <2>3, <3>1
  <2> HIDE DEF served, K
  <2>6. vleq(nd[order[k]], w[k])
    BY <1>2, <2>3 DEF IsPlan
  <2>7. Customers \ S \in SUBSET Customers /\ served \in SUBSET Customers
    BY <2>4
  <2>8. /\ vleq(Ledger!Held(alloc, served), Ledger!Held(alloc, Customers \ S))
        /\ Ledger!Held(alloc, served) \in NatVectors
        /\ Ledger!Held(alloc, Customers \ S) \in NatVectors
    BY <2>4, <2>7, HeldGrows, HeldFacts
  <2>9. vleq(nd[order[k]], Plus(avail, Ledger!Held(alloc, Customers \ S)))
    <3>1. w[k] = Plus(avail, Ledger!Held(alloc, served)) /\ vleq(nd[order[k]], w[k])
      BY <1>2, <2>3, <2>5, <2>6
    <3>2. nd[order[k]] \in IntVectors
      BY <1>2, <2>3
    <3>3. /\ Ledger!Held(alloc, served) \in IntVectors
          /\ Ledger!Held(alloc, Customers \ S) \in IntVectors
      BY <2>8, NaturalVectors
    <3>4. QED
      BY <2>8, <3>1, <3>2, <3>3, VectorOrder
  <2>10. QED
    BY <2>3, <2>9
<1>4. QED
  BY <1>3, SafeMeans

\* What a customer still needs is what its maximum leaves.
LEMMA NeedIs ==
  ASSUME TypeOK, Sound
  PROVE  \A c \in Customers : /\ allocation[c] \in NatVectors /\ need[c] \in IntVectors
                              /\ Minus(maximum[c], allocation[c]) = need[c]
<1> SUFFICES ASSUME NEW c \in Customers
             PROVE  /\ allocation[c] \in NatVectors /\ need[c] \in IntVectors
                    /\ Minus(maximum[c], allocation[c]) = need[c]
  OBVIOUS
<1>1. /\ allocation[c] \in NatVectors /\ need[c] \in IntVectors
      /\ maximum[c] = Plus(allocation[c], need[c])
  BY RowFacts DEF TypeOK, Sound, RowsAddUp
<1>2. QED
  BY <1>1 DEF NatVectors, IntVectors, Plus, Minus

\* The search of safe() decides safety: it ends with every customer finished
\* just if, whichever customers wait, one of them could be given all it still
\* needs out of what is free or held by the others (banker.c:182-205).
THEOREM SearchDecides == Spec => []SearchIsExact
<1>1. IInv => SearchIsExact
  <2> SUFFICES ASSUME TypeOK, Sound, pc = "safe", CanFinish = {}
               PROVE  finish = Customers <=> Ledger!Safe(available, allocation)
    BY DEF SearchIsExact, IInv
  <2>1. /\ available \in IntVectors /\ finish \in SUBSET Customers
        /\ CanAllFinish(available, allocation, need, finish, work)
    BY DEF TypeOK, Sound, PendingInv
  <2>2. CASE finish = Customers
    <3>1. CanAllFinish(available, allocation, need, Customers, work)
      BY <2>1, <2>2
    <3>2. Ledger!Safe(available, allocation)
      BY <2>1, <3>1, NeedIs, PlanIsSafe
    <3>3. QED
      BY <2>2, <3>2
  <2>3. CASE finish # Customers
    <3>1. work = Plus(available, Ledger!Held(allocation, finish))
      <4>1. PICK n \in Nat : \E order \in [1 .. n -> Customers], w \in [1 .. n + 1 -> IntVectors] :
              /\ IsPlan(available, allocation, need, n, order, w)
              /\ finish = {order[k] : k \in 1 .. n}
              /\ work = w[n + 1]
        BY <2>1 DEF CanAllFinish
      <4>2. PICK order \in [1 .. n -> Customers], w \in [1 .. n + 1 -> IntVectors] :
              /\ IsPlan(available, allocation, need, n, order, w)
              /\ finish = {order[k] : k \in 1 .. n}
              /\ work = w[n + 1]
        BY <4>1
      <4>3. n + 1 \in 1 .. n + 1 /\ (n + 1) - 1 = n
        OBVIOUS
      <4>4. \A k \in 1 .. n + 1 :
              w[k] = Plus(available, Ledger!Held(allocation, Served(order, k)))
        <5>1. \A c \in Customers : allocation[c] \in NatVectors
          BY NeedIs
        <5>2. QED
          BY <2>1, <4>2, <5>1, PlanWork
      <4>5. QED
        BY <4>2, <4>3, <4>4 DEF Served
    <3> DEFINE S == Customers \ finish
    <3>2. S \in (SUBSET Customers) \ {{}} /\ Customers \ S = finish
      BY <2>1, <2>3
    <3>3. ~ \E c \in S : vleq(need[c], work)
      BY DEF CanFinish
    <3> HIDE DEF S
    <3>4. ~ \E c \in S : vleq(Minus(maximum[c], allocation[c]),
                              Plus(available, Ledger!Held(allocation, Customers \ S)))
      BY <3>1, <3>2, <3>3, NeedIs
    <3>5. QED
      BY <2>3, <3>2, <3>4, SafeMeans
  <2>4. QED
    BY <2>2, <2>3
<1>2. QED
  BY <1>1, Invariance, PTL

-----------------------------------------------------------------------------
(***************************************************************************)
(* The banker implements the ledger.  A request is entered, searched and   *)
(* granted or taken back in several steps; the ledger sees the books       *)
(* without the request until it is granted.                                *)
(***************************************************************************)
\* Whether the books are safe depends on nothing but the customers' rows.
LEMMA SafeSame ==
  ASSUME NEW avail, NEW alloc, NEW alloc2,
         \A c \in Customers : alloc[c] \in NatVectors /\ alloc2[c] = alloc[c],
         Ledger!Safe(avail, alloc)
  PROVE  Ledger!Safe(avail, alloc2)
<1>1. ASSUME NEW S \in (SUBSET Customers) \ {{}}
      PROVE  \E c \in S :
               vleq(Minus(maximum[c], alloc2[c]), Plus(avail, Ledger!Held(alloc2, Customers \ S)))
  <2>1. Customers \ S \in SUBSET Customers
    OBVIOUS
  <2>2. Ledger!Held(alloc2, Customers \ S) = Ledger!Held(alloc, Customers \ S)
    BY <2>1, HeldSame
  <2>3. PICK c \in S :
          vleq(Minus(maximum[c], alloc[c]), Plus(avail, Ledger!Held(alloc, Customers \ S)))
    BY SafeMeans
  <2>4. alloc2[c] = alloc[c]
    OBVIOUS
  <2>5. QED
    BY <2>2, <2>3, <2>4
<1>2. QED
  BY <1>1, SafeMeans

\* The rows of the customers alone.
RowsOf(alloc) == [c \in Customers |-> alloc[c]]

\* The ledger's books, when no request is pending and when one is.
LEMMA LedgerBooks ==
  /\ pc # "safe" => AvailableBefore = available /\ AllocationBefore = RowsOf(allocation)
  /\ pc = "safe" =>
       /\ AvailableBefore = Plus(available, request)
       /\ customer_num \in Rows /\ allocation \in [Rows -> NatVectors] =>
            AllocationBefore =
              RowsOf([allocation EXCEPT ![customer_num] = Minus(@, request)])
<1>1. ASSUME pc = "safe", customer_num \in Rows, allocation \in [Rows -> NatVectors]
      PROVE  AllocationBefore = RowsOf([allocation EXCEPT ![customer_num] = Minus(@, request)])
  BY <1>1, RowFacts DEF AllocationBefore, RowsOf
<1>2. QED
  BY <1>1 DEF AvailableBefore, AllocationBefore, RowsOf

\* What LedgerBooks says of the books, of the books after a step.
LEMMA LedgerBooksNext ==
  /\ pc' # "safe" => AvailableBefore' = available' /\ AllocationBefore' = RowsOf(allocation')
  /\ pc' = "safe" =>
       /\ AvailableBefore' = Plus(available', request')
       /\ customer_num' \in Rows /\ allocation' \in [Rows -> NatVectors] =>
            AllocationBefore' =
              RowsOf([allocation' EXCEPT ![customer_num'] = Minus(@, request')])
<1>1. LedgerBooks!1' /\ LedgerBooks!2'
  BY LedgerBooks, PTL
<1>2. QED
  BY <1>1

\* Before and after a step that leaves the ledger's books alone.
LEMMA LedgerStutters ==
  ASSUME maximum' = maximum, AvailableBefore' = AvailableBefore,
         AllocationBefore' = AllocationBefore
  PROVE  [Ledger!Next]_(Ledger!ledgerVars)
BY DEF Ledger!ledgerVars

\* The program starts as the ledger does.
LEMMA InitRefined == Init => Ledger!Init
<1> SUFFICES ASSUME Init PROVE Ledger!Init
  OBVIOUS
<1>1. /\ maximum \in [Customers -> Vectors] /\ available \in Vectors /\ pc = "prompt"
      /\ RowsOf(allocation) = [c \in Customers |-> Zero]
  BY RowFacts DEF Init, RowsOf
<1>2. AvailableBefore = available /\ AllocationBefore = RowsOf(allocation)
  BY <1>1, LedgerBooks
<1>3. QED
  BY <1>1, <1>2 DEF Ledger!Init, Ledger!Zero, Zero

\* Entering a request changes nothing in the ledger.
LEMMA RequestEnteredRefined ==
  ASSUME TypeOK, Sound, NEW c \in Numbers, NEW v \in Vectors, RequestEntered(c, v), Proper(c, v)
  PROVE  [Ledger!Next]_(Ledger!ledgerVars)
<1>1. c \in Numbers \cap Rows /\ c \in Rows /\ v \in IntVectors /\ v \in NatVectors
  BY ProperEntry DEF RequestEntered
<1>2. /\ available \in IntVectors /\ allocation[c] \in IntVectors
      /\ allocation[c] \in NatVectors /\ allocation \in [Rows -> NatVectors]
  BY <1>1 DEF Sound, TypeOK
<1>3. /\ available' = Minus(available, v) /\ maximum' = maximum
      /\ allocation' = [allocation EXCEPT ![c] = Plus(@, v)]
  BY <1>1, AllocateRow DEF RequestEntered
<1>4. pc = "prompt" /\ pc' = "safe" /\ customer_num' = c /\ request' = v
  BY DEF RequestEntered
<1>5. Plus(available', v) = available /\ Minus(Plus(allocation[c], v), v) = allocation[c]
  BY <1>1, <1>2, <1>3, VectorFacts
<1>6. allocation' \in [Rows -> NatVectors]
  BY <1>1, <1>2, <1>3, NaturalVectors
<1>7. [allocation' EXCEPT ![c] = Minus(@, v)] = allocation
  BY <1>1, <1>2, <1>3, <1>5
<1>8. AvailableBefore = available /\ AllocationBefore = RowsOf(allocation)
  BY <1>4, LedgerBooks
<1>9. /\ AvailableBefore' = Plus(available', request')
      /\ AllocationBefore' = RowsOf([allocation' EXCEPT ![customer_num'] = Minus(@, request')])
  BY <1>1, <1>4, <1>6, LedgerBooksNext
<1>10. QED
  BY <1>3, <1>4, <1>5, <1>7, <1>8, <1>9, LedgerStutters

\* So does a round of the search, and every step outside it that leaves the
\* books alone.
LEMMA BooksKeptRefined ==
  ASSUME UNCHANGED <<maximum, available, allocation>>,
         \/ pc = "safe" /\ UNCHANGED <<pc, customer_num, request>>
         \/ pc # "safe" /\ pc' # "safe"
  PROVE  [Ledger!Next]_(Ledger!ledgerVars)
<1>1. AvailableBefore' = AvailableBefore /\ AllocationBefore' = AllocationBefore
  BY DEF AvailableBefore, AllocationBefore
<1>2. QED
  BY <1>1, LedgerStutters

\* A request taken back was never in the ledger.
LEMMA RolledBackRefined ==
  ASSUME TypeOK, Sound, RolledBack
  PROVE  [Ledger!Next]_(Ledger!ledgerVars)
<1>1. /\ customer_num \in Numbers \cap Rows /\ request \in IntVectors
      /\ customer_num \in Rows /\ allocation \in [Rows -> NatVectors]
  BY NaturalVectors DEF Sound, PendingInv, RolledBack
<1>2. /\ available' = Plus(available, request) /\ maximum' = maximum
      /\ allocation' = [allocation EXCEPT ![customer_num] = Minus(@, request)]
  BY <1>1, DeallocateRow DEF RolledBack
<1>3. pc = "safe" /\ pc' = "prompt"
  BY DEF RolledBack, Reply
<1>4. AvailableBefore' = AvailableBefore /\ AllocationBefore' = AllocationBefore
  BY <1>1, <1>2, <1>3, LedgerBooks, LedgerBooksNext
<1>5. QED
  BY <1>2, <1>4, LedgerStutters

\* A request granted enters the ledger in one step, and leaves it safe.
LEMMA GrantedRefined ==
  ASSUME TypeOK, Sound, Granted
  PROVE  [Ledger!Next]_(Ledger!ledgerVars)
<1> DEFINE c == customer_num
           v == request
<1>1. /\ pc = "safe" /\ pc' = "prompt" /\ finish = Customers
      /\ UNCHANGED <<maximum, available, allocation>>
  BY DEF Granted, Reply, books
<1>2. /\ c \in Rows /\ v \in Vectors /\ v \in IntVectors /\ available \in IntVectors
      /\ allocation \in [Rows -> NatVectors] /\ v \in NatVectors
      /\ vleq(v, allocation[c]) /\ (c = NUMBER_OF_CUSTOMERS => v = Zero)
  BY <1>1, NaturalVectors DEF TypeOK, Sound, PendingInv
<1>3. /\ AvailableBefore = Plus(available, v)
      /\ AllocationBefore = RowsOf([allocation EXCEPT ![c] = Minus(@, v)])
      /\ AvailableBefore' = available /\ AllocationBefore' = RowsOf(allocation)
  BY <1>1, <1>2, LedgerBooks, LedgerBooksNext
<1>4. CASE v = Zero
  <2>1. Plus(available, v) = available /\ Minus(allocation[c], v) = allocation[c]
    BY <1>2, <1>4, VectorFacts, NaturalVectors
  <2>2. RowsOf([allocation EXCEPT ![c] = Minus(@, v)]) = RowsOf(allocation)
    BY <1>2, <2>1 DEF RowsOf
  <2>3. QED
    BY <1>1, <1>3, <2>1, <2>2, LedgerStutters
<1>5. CASE v # Zero
  <2>1. c \in Customers /\ allocation[c] # Zero
    BY <1>2, <1>5, RowFacts, NaturalVectors
  <2>2. /\ allocation[c] \in NatVectors /\ allocation[c] \in IntVectors /\ need[c] \in IntVectors
        /\ maximum[c] = Plus(allocation[c], need[c])
        /\ allocation[c] # Zero => vleq(Zero, available) /\ vleq(Zero, need[c])
    BY <2>1, NeedIs, NaturalVectors DEF Sound, RowsAddUp, HoldersCovered
  <2>3. Minus(AvailableBefore, v) = available /\ AvailableBefore = Plus(available, v)
    BY <1>2, <1>3, VectorFacts
  <2>4. [AllocationBefore EXCEPT ![c] = Plus(@, v)] = RowsOf(allocation)
    <3>1. Plus(Minus(allocation[c], v), v) = allocation[c]
      BY <1>2, <2>2, VectorFacts
    <3>2. QED
      BY <1>2, <1>3, <2>1, <3>1, RowFacts DEF RowsOf
  <2>5. vleq(v, AvailableBefore) /\ vleq(allocation[c], maximum[c]) /\ vleq(Zero, v)
    BY <1>2, <2>1, <2>2, <2>3 DEF NatVectors, IntVectors, Plus, Zero, vleq
  <2>6. Ledger!Safe(available, RowsOf(allocation))
    <3>1. CanAllFinish(available, allocation, need, Customers, work)
      BY <1>1 DEF Sound, PendingInv
    <3>2. Ledger!Safe(available, allocation)
      BY <1>2, <3>1, NeedIs, PlanIsSafe
    <3>3. \A d \in Customers : allocation[d] \in NatVectors /\ RowsOf(allocation)[d] = allocation[d]
      BY NeedIs DEF RowsOf
    <3>4. QED
      BY <3>2, <3>3, SafeSame
  <2>7. Ledger!Grant(c, v)
    <3>1. RowsOf(allocation)[c] = allocation[c]
      BY <2>1 DEF RowsOf
    <3>2. Ledger!Minus(AvailableBefore, v) = available /\ Ledger!Leq(v, AvailableBefore)
      BY <2>3, <2>5 DEF Ledger!Minus, Ledger!Leq, Minus, vleq
    <3>3. [AllocationBefore EXCEPT ![c] = Ledger!Plus(@, v)] = RowsOf(allocation)
      BY <2>4 DEF Ledger!Plus, Plus
    <3>4. Ledger!Leq(RowsOf(allocation)[c], maximum[c])
      BY <2>5, <3>1 DEF Ledger!Leq, vleq
    <3>5. QED
      BY <1>1, <1>3, <2>6, <3>2, <3>3, <3>4 DEF Ledger!Grant
  <2>8. QED
    BY <1>2, <2>1, <2>5, <2>7
       DEF Ledger!Next, Ledger!Leq, Ledger!Zero, Zero, vleq
<1>6. QED
  BY <1>4, <1>5

\* What is released is free in the ledger.
LEMMA ReleasedRefined ==
  ASSUME TypeOK, Sound, NEW c \in Numbers, NEW v \in Vectors, Released(c, v), Proper(c, v)
  PROVE  [Ledger!Next]_(Ledger!ledgerVars)
<1>1. c \in Customers /\ c \in Numbers \cap Rows /\ v \in IntVectors
      /\ vleq(v, allocation[c]) /\ vleq(Zero, v)
  <2>1. c <= NUMBER_OF_CUSTOMERS /\ c # NUMBER_OF_CUSTOMERS
    BY BankerAssumption DEF Released
  <2>2. QED
    BY <2>1, ProperEntry, RowFacts DEF Released, Proper
<1>2. /\ pc = "prompt" /\ pc' = "prompt" /\ maximum' = maximum
      /\ available' = Plus(available, v)
      /\ allocation' = [allocation EXCEPT ![c] = Minus(@, v)]
  BY <1>1, DeallocateRow DEF Released, Reply
<1>3. allocation \in [Rows -> NatVectors]
  BY DEF Sound
<1>4. /\ AvailableBefore = available /\ AvailableBefore' = available'
      /\ AllocationBefore = RowsOf(allocation) /\ AllocationBefore' = RowsOf(allocation')
  BY <1>2, LedgerBooks, LedgerBooksNext
<1>5. RowsOf(allocation') = [RowsOf(allocation) EXCEPT ![c] = Minus(@, v)]
  BY <1>1, <1>2, <1>3, RowFacts DEF RowsOf
<1>6. Ledger!Return(c, v)
  <2>1. Ledger!Leq(v, RowsOf(allocation)[c])
    BY <1>1, <1>2 DEF Ledger!Leq, vleq, RowsOf
  <2>2. /\ available' = Ledger!Plus(available, v)
        /\ RowsOf(allocation') = [RowsOf(allocation) EXCEPT ![c] = Ledger!Minus(@, v)]
    BY <1>2, <1>5 DEF Ledger!Plus, Ledger!Minus, Plus, Minus
  <2>3. QED
    BY <1>2, <1>4, <2>1, <2>2 DEF Ledger!Return
<1>7. QED
  BY <1>1, <1>6 DEF Ledger!Next, Ledger!Leq, Ledger!Zero, Zero, vleq

\* As long as there is no misuse, every step is one of the ledger, or none.
LEMMA NextRefined ==
  IInv /\ [Next]_vars => (misuses' = 0 => [Ledger!Next]_(Ledger!ledgerVars))
<1> SUFFICES ASSUME IInv, [Next]_vars, misuses' = 0 PROVE [Ledger!Next]_(Ledger!ledgerVars)
  OBVIOUS
<1>1. TypeOK /\ Sound
  BY MisusesGrow DEF IInv
<1>2. ASSUME NEW c \in Numbers, NEW v \in Vectors, RequestRejected(c, v) \/ ReleaseRejected(c, v)
      PROVE  [Ledger!Next]_(Ledger!ledgerVars)
  BY <1>2, BooksKeptRefined DEF RequestRejected, ReleaseRejected, Reply, books
<1>3. ASSUME NEW c \in Numbers, NEW v \in Vectors, RequestEntered(c, v)
      PROVE  [Ledger!Next]_(Ledger!ledgerVars)
  BY <1>1, <1>3, MisusesGrow, RequestEnteredRefined
<1>4. ASSUME NEW c \in Customers, Finish(c)
      PROVE  [Ledger!Next]_(Ledger!ledgerVars)
  BY <1>4, BooksKeptRefined DEF Finish, books
<1>5. CASE Granted
  BY <1>1, <1>5, GrantedRefined
<1>6. CASE RolledBack
  BY <1>1, <1>6, RolledBackRefined
<1>7. ASSUME NEW c \in Numbers, NEW v \in Vectors, Released(c, v)
      PROVE  [Ledger!Next]_(Ledger!ledgerVars)
  BY <1>1, <1>7, MisusesGrow, ReleasedRefined
<1>8. ASSUME NEW c, Crash(c) \/ Quit
      PROVE  [Ledger!Next]_(Ledger!ledgerVars)
  BY <1>8, BooksKeptRefined DEF Crash, Quit, books
<1>9. CASE UNCHANGED vars
  BY <1>9, BooksKeptRefined DEF vars, books, locals
<1>10. QED
  BY <1>2, <1>3, <1>4, <1>5, <1>6, <1>7, <1>8, <1>9
     DEF Next, RequestResources, ReleaseResources, Deciding, Terminated

\* The banker implements the ledger, until a number below zero gets as far as
\* the books: a request is granted at once and only if the books it leaves are
\* safe, or else nothing has changed (banker.c:139-165, 182-205).
THEOREM LedgerImplemented == Spec => ImplementsLedger
<1>1. Init => Ledger!Init
  BY InitRefined
<1>2. IInv /\ [Next]_vars => (misuses' = 0 => [Ledger!Next]_(Ledger!ledgerVars))
  BY NextRefined
<1>3. QED
  BY <1>1, <1>2, Invariance, PTL DEF Spec, ImplementsLedger

=============================================================================
