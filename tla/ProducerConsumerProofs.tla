------------------------ MODULE ProducerConsumerProofs ------------------------
(***************************************************************************)
(* Project5/producerConsumer is correct for every buffer size and every    *)
(* number of threads: the inductive invariant IInv, and what follows.      *)
(***************************************************************************)
EXTENDS ProducerConsumer, FiniteSetTheorems, SequenceTheorems, TLAPS

-----------------------------------------------------------------------------
(***************************************************************************)
(* The circular array: what one step of an index does to the number of     *)
(* elements and to their sequence.                                         *)
(***************************************************************************)
LEMMA RingSize == BUFFER_SIZE \in Nat \ {0}
BY ConstantsAssumption

\* Taking the remainder only matters at the last slot.
LEMMA SuccValue ==
  ASSUME NEW s \in Ring!Slots
  PROVE  /\ Ring!Succ(s) = IF s = BUFFER_SIZE THEN 0 ELSE s + 1
         /\ Ring!Succ(s) \in Ring!Slots
<1> USE RingSize
<1>1. (s + 1) % (BUFFER_SIZE + 1) = IF s = BUFFER_SIZE THEN 0 ELSE s + 1
  BY DEF Ring!Slots
<1>2. QED
  BY <1>1 DEF Ring!Succ, Ring!Slots

\* Adding a distance within the ring wraps around at most once.
LEMMA WrapValue ==
  ASSUME NEW a \in Ring!Slots, NEW b \in Ring!Slots
  PROVE  (a + b) % (BUFFER_SIZE + 1)
           = IF a + b <= BUFFER_SIZE THEN a + b ELSE a + b - (BUFFER_SIZE + 1)
BY RingSize DEF Ring!Slots

\* The two tests of the code say whether the ring holds nothing or BUFFER_SIZE elements.
LEMMA OccupancyRange ==
  ASSUME NEW f \in Ring!Slots, NEW r \in Ring!Slots
  PROVE  /\ Ring!Occupancy(f, r) \in 0 .. BUFFER_SIZE
         /\ Ring!Occupancy(f, r) = 0 <=> Ring!IsEmpty(f, r)
         /\ Ring!Occupancy(f, r) = BUFFER_SIZE <=> Ring!IsFull(f, r)
<1> USE RingSize
<1>1. Ring!Succ(r) = IF r = BUFFER_SIZE THEN 0 ELSE r + 1
  BY SuccValue
<1>2. QED
  BY <1>1 DEF Ring!Occupancy, Ring!IsEmpty, Ring!IsFull, Ring!Slots

\* Moving rear adds an element, unless the ring was full.
LEMMA OccupancyAfterPut ==
  ASSUME NEW f \in Ring!Slots, NEW r \in Ring!Slots, ~ Ring!IsFull(f, r)
  PROVE  Ring!Occupancy(f, Ring!Succ(r)) = Ring!Occupancy(f, r) + 1
<1> USE RingSize
<1>1. Ring!Succ(r) = IF r = BUFFER_SIZE THEN 0 ELSE r + 1
  BY SuccValue
<1>2. QED
  BY <1>1 DEF Ring!Occupancy, Ring!IsFull, Ring!Slots

\* Moving front removes one, unless it was empty.
LEMMA OccupancyAfterTake ==
  ASSUME NEW f \in Ring!Slots, NEW r \in Ring!Slots, ~ Ring!IsEmpty(f, r)
  PROVE  Ring!Occupancy(Ring!Succ(f), r) = Ring!Occupancy(f, r) - 1
<1> USE RingSize
<1>1. Ring!Succ(f) = IF f = BUFFER_SIZE THEN 0 ELSE f + 1
  BY SuccValue
<1>2. QED
  BY <1>1 DEF Ring!Occupancy, Ring!IsEmpty, Ring!Slots

\* The slot before s.
Pred(s) == (s + BUFFER_SIZE) % (BUFFER_SIZE + 1)

\* Going back one slot and on again, or on and back, leads to the same slot.
LEMMA PredFacts ==
  ASSUME NEW s \in Ring!Slots
  PROVE  Pred(s) \in Ring!Slots /\ Ring!Succ(Pred(s)) = s /\ Pred(Ring!Succ(s)) = s
<1> USE RingSize
<1>1. \A k \in Ring!Slots : Pred(k) = IF k = 0 THEN BUFFER_SIZE ELSE k - 1
  <2> TAKE k \in Ring!Slots
  <2>1. (k + BUFFER_SIZE) % (BUFFER_SIZE + 1)
          = IF k + BUFFER_SIZE <= BUFFER_SIZE THEN k + BUFFER_SIZE ELSE k + BUFFER_SIZE - (BUFFER_SIZE + 1)
    BY WrapValue DEF Ring!Slots
  <2>2. QED
    BY <2>1 DEF Pred, Ring!Slots
<1>2. Pred(s) \in Ring!Slots
  BY <1>1 DEF Ring!Slots
<1>3. /\ Ring!Succ(Pred(s)) = IF Pred(s) = BUFFER_SIZE THEN 0 ELSE Pred(s) + 1
      /\ Ring!Succ(s) = IF s = BUFFER_SIZE THEN 0 ELSE s + 1
      /\ Ring!Succ(s) \in Ring!Slots
  BY <1>2, SuccValue
<1>4. QED
  BY <1>1, <1>2, <1>3 DEF Ring!Slots

\* Where the k-th element lies.
LEMMA IndexInRing ==
  ASSUME NEW f \in Ring!Slots, NEW r \in Ring!Slots,
         NEW k \in 1 .. Ring!Occupancy(f, r)
  PROVE  (f + k) % (BUFFER_SIZE + 1) \in Ring!Slots
<1> USE RingSize
<1>1. Ring!Occupancy(f, r) \in 0 .. BUFFER_SIZE
  BY OccupancyRange
<1>2. k \in Ring!Slots
  BY <1>1 DEF Ring!Slots
<1>3. (f + k) % (BUFFER_SIZE + 1) = IF f + k <= BUFFER_SIZE THEN f + k ELSE f + k - (BUFFER_SIZE + 1)
  BY <1>2, WrapValue
<1>4. QED
  BY <1>2, <1>3 DEF Ring!Slots

\* The contents are a sequence, as long as the occupancy says.
LEMMA ContentsSeq ==
  ASSUME NEW S, NEW slots \in [Ring!Slots -> S],
         NEW f \in Ring!Slots, NEW r \in Ring!Slots
  PROVE  Ring!Contents(slots, f, r) \in Seq(S)
<1> USE RingSize
<1>1. Ring!Occupancy(f, r) \in Nat
  BY OccupancyRange
<1>2. QED
  BY <1>1, IndexInRing DEF Ring!Contents

\* There are as many of them as the occupancy says.
LEMMA ContentsLen ==
  ASSUME NEW slots, NEW f \in Ring!Slots, NEW r \in Ring!Slots
  PROVE  Len(Ring!Contents(slots, f, r)) = Ring!Occupancy(f, r)
<1> USE RingSize
<1>1. Ring!Occupancy(f, r) \in Nat
  BY OccupancyRange
<1>2. QED
  BY <1>1 DEF Ring!Contents

\* The k-th element is the one in the k-th slot after front.
LEMMA ContentsAt ==
  ASSUME NEW slots, NEW f, NEW r, NEW k \in 1 .. Ring!Occupancy(f, r)
  PROVE  Ring!Contents(slots, f, r)[k] = slots[(f + k) % (BUFFER_SIZE + 1)]
BY RingSize DEF Ring!Contents

\* Moving rear and storing there appends to the contents.
LEMMA ContentsAfterPut ==
  ASSUME NEW S, NEW slots \in [Ring!Slots -> S], NEW x \in S,
         NEW f \in Ring!Slots, NEW r \in Ring!Slots, ~ Ring!IsFull(f, r)
  PROVE  Ring!Contents([slots EXCEPT ![Ring!Succ(r)] = x], f, Ring!Succ(r))
           = Append(Ring!Contents(slots, f, r), x)
<1> USE RingSize
<1> DEFINE n     == Ring!Occupancy(f, r)
           new   == [slots EXCEPT ![Ring!Succ(r)] = x]
<1>1. /\ n \in 0 .. BUFFER_SIZE /\ n # BUFFER_SIZE
      /\ Ring!Succ(r) \in Ring!Slots /\ Ring!Succ(r) = IF r = BUFFER_SIZE THEN 0 ELSE r + 1
      /\ Ring!Occupancy(f, Ring!Succ(r)) = n + 1
      /\ new \in [Ring!Slots -> S]
  BY OccupancyRange, SuccValue, OccupancyAfterPut
<1>2. \A k \in 1 .. n + 1 :
        (f + k) % (BUFFER_SIZE + 1) = IF f + k <= BUFFER_SIZE THEN f + k ELSE f + k - (BUFFER_SIZE + 1)
  <2> TAKE k \in 1 .. n + 1
  <2>1. k \in Ring!Slots
    BY <1>1 DEF Ring!Slots
  <2>2. QED
    BY <2>1, WrapValue
<1>3. (f + (n + 1)) % (BUFFER_SIZE + 1) = Ring!Succ(r)
  <2>1. f \in 0 .. BUFFER_SIZE /\ r \in 0 .. BUFFER_SIZE /\ n + 1 \in 1 .. n + 1
    BY <1>1 DEF Ring!Slots
  <2>2. n = IF f <= r THEN r - f ELSE r - f + BUFFER_SIZE + 1
    BY DEF Ring!Occupancy
  <2> HIDE DEF n
  <2>3. IF f + (n + 1) <= BUFFER_SIZE THEN f + (n + 1) = Ring!Succ(r)
        ELSE f + (n + 1) - (BUFFER_SIZE + 1) = Ring!Succ(r)
    BY <1>1, <2>1, <2>2
  <2>4. QED
    BY <1>2, <2>1, <2>3
<1>4. \A k \in 1 .. n : (f + k) % (BUFFER_SIZE + 1) # Ring!Succ(r) /\ (f + k) % (BUFFER_SIZE + 1) \in Ring!Slots
  BY <1>1, <1>2 DEF Ring!Occupancy, Ring!Slots
<1>5. \A k \in 1 .. n : new[(f + k) % (BUFFER_SIZE + 1)] = slots[(f + k) % (BUFFER_SIZE + 1)]
  BY <1>1, <1>4
<1>6. new[(f + (n + 1)) % (BUFFER_SIZE + 1)] = x
  BY <1>1, <1>3
<1>7. /\ Ring!Contents(slots, f, r) \in Seq(S)
      /\ Len(Ring!Contents(slots, f, r)) = n
      /\ \A k \in 1 .. n : Ring!Contents(slots, f, r)[k] = slots[(f + k) % (BUFFER_SIZE + 1)]
  BY ContentsSeq, ContentsLen, ContentsAt
<1> HIDE DEF new
<1>8. /\ Ring!Contents(new, f, Ring!Succ(r)) \in Seq(S)
      /\ Len(Ring!Contents(new, f, Ring!Succ(r))) = n + 1
      /\ \A k \in 1 .. n + 1 : Ring!Contents(new, f, Ring!Succ(r))[k] = new[(f + k) % (BUFFER_SIZE + 1)]
  BY <1>1, ContentsSeq, ContentsLen, ContentsAt
<1>9. Append(Ring!Contents(slots, f, r), x) \in Seq(S)
      /\ Len(Append(Ring!Contents(slots, f, r), x)) = n + 1
      /\ \A k \in 1 .. n : Append(Ring!Contents(slots, f, r), x)[k] = Ring!Contents(slots, f, r)[k]
      /\ Append(Ring!Contents(slots, f, r), x)[n + 1] = x
  BY <1>1, <1>7, AppendProperties
<1>10. \A k \in 1 .. n + 1 :
         Ring!Contents(new, f, Ring!Succ(r))[k] = Append(Ring!Contents(slots, f, r), x)[k]
  <2> TAKE k \in 1 .. n + 1
  <2>1. CASE k = n + 1
    BY <1>1, <1>6, <1>8, <1>9, <2>1
  <2>2. CASE k # n + 1
    <3>1. k \in 1 .. n
      BY <1>1, <2>2
    <3>2. QED
      BY <1>5, <1>7, <1>8, <1>9, <3>1
  <2>3. QED
    BY <2>1, <2>2
<1>11. QED
  BY <1>8, <1>9, <1>10, SeqEqual DEF new

\* Moving front and loading there takes the head of the contents.
LEMMA ContentsAfterTake ==
  ASSUME NEW S, NEW slots \in [Ring!Slots -> S],
         NEW f \in Ring!Slots, NEW r \in Ring!Slots, ~ Ring!IsEmpty(f, r)
  PROVE  /\ Ring!Contents(slots, f, r) # << >>
         /\ slots[Ring!Succ(f)] = Head(Ring!Contents(slots, f, r))
         /\ Ring!Contents(slots, Ring!Succ(f), r) = Tail(Ring!Contents(slots, f, r))
<1> USE RingSize
<1> DEFINE n    == Ring!Occupancy(f, r)
           old  == Ring!Contents(slots, f, r)
           rest == Ring!Contents(slots, Ring!Succ(f), r)
<1>1. /\ n \in 1 .. BUFFER_SIZE
      /\ Ring!Succ(f) \in Ring!Slots /\ Ring!Succ(f) = IF f = BUFFER_SIZE THEN 0 ELSE f + 1
      /\ Ring!Occupancy(Ring!Succ(f), r) = n - 1
  BY OccupancyRange, SuccValue, OccupancyAfterTake
<1>2. /\ old \in Seq(S) /\ Len(old) = n
      /\ \A k \in 1 .. n : old[k] = slots[(f + k) % (BUFFER_SIZE + 1)]
  BY ContentsSeq, ContentsLen, ContentsAt
<1>3. /\ rest \in Seq(S) /\ Len(rest) = n - 1
      /\ \A k \in 1 .. n - 1 : rest[k] = slots[(Ring!Succ(f) + k) % (BUFFER_SIZE + 1)]
  BY <1>1, ContentsSeq, ContentsLen, ContentsAt
<1>4. \A k \in 1 .. n - 1 : (Ring!Succ(f) + k) % (BUFFER_SIZE + 1) = (f + (k + 1)) % (BUFFER_SIZE + 1)
  <2> TAKE k \in 1 .. n - 1
  <2>1. k \in Ring!Slots /\ k + 1 \in Ring!Slots
    BY <1>1 DEF Ring!Slots
  <2>2. /\ (Ring!Succ(f) + k) % (BUFFER_SIZE + 1)
             = IF Ring!Succ(f) + k <= BUFFER_SIZE THEN Ring!Succ(f) + k ELSE Ring!Succ(f) + k - (BUFFER_SIZE + 1)
        /\ (f + (k + 1)) % (BUFFER_SIZE + 1)
             = IF f + (k + 1) <= BUFFER_SIZE THEN f + (k + 1) ELSE f + (k + 1) - (BUFFER_SIZE + 1)
    BY <1>1, <2>1, WrapValue
  <2>3. QED
    BY <1>1, <2>1, <2>2 DEF Ring!Slots
<1>5. /\ old # << >>
      /\ Head(old) = old[1]
      /\ Tail(old) \in Seq(S) /\ Len(Tail(old)) = n - 1
      /\ \A k \in 1 .. n - 1 : Tail(old)[k] = old[k + 1]
  BY <1>1, <1>2, HeadTailProperties, EmptySeq
<1> HIDE DEF old, rest, n
<1>6. \A k \in 1 .. n - 1 : rest[k] = Tail(old)[k]
  <2> TAKE k \in 1 .. n - 1
  <2>1. k + 1 \in 1 .. n
    BY <1>1
  <2>2. old[k + 1] = slots[(f + (k + 1)) % (BUFFER_SIZE + 1)]
    BY <1>2, <2>1
  <2>3. rest[k] = slots[(f + (k + 1)) % (BUFFER_SIZE + 1)]
    BY <1>3, <1>4
  <2>4. QED
    BY <1>5, <2>2, <2>3
<1>7. old[1] = slots[Ring!Succ(f)]
  BY <1>1, <1>2 DEF Ring!Succ
<1>8. rest = Tail(old)
  BY <1>3, <1>5, <1>6, SeqEqual
<1>9. QED
  BY <1>5, <1>7, <1>8 DEF old, rest

\* All about the number of elements that the proofs below cite.
LEMMA RingFacts ==
  ASSUME NEW f \in Ring!Slots, NEW r \in Ring!Slots
  PROVE  /\ Ring!Succ(r) \in Ring!Slots
         /\ Ring!Occupancy(f, r) \in 0 .. BUFFER_SIZE
         /\ Ring!Occupancy(f, r) = 0 <=> Ring!IsEmpty(f, r)
         /\ Ring!Occupancy(f, r) = BUFFER_SIZE <=> Ring!IsFull(f, r)
         /\ ~ Ring!IsFull(f, r)
              => Ring!Occupancy(f, Ring!Succ(r)) = Ring!Occupancy(f, r) + 1
         /\ ~ Ring!IsEmpty(f, r)
              => Ring!Occupancy(Ring!Succ(f), r) = Ring!Occupancy(f, r) - 1
BY SuccValue, OccupancyRange, OccupancyAfterPut, OccupancyAfterTake

-----------------------------------------------------------------------------
\* Threads are numbered by integers, and no thread both produces and consumes.
LEMMA ThreadFacts ==
  /\ ThreadNum \in Nat /\ Threads \subseteq Int /\ IsFiniteSet(Threads)
  /\ Producers \subseteq Threads /\ Consumers \subseteq Threads
  /\ Producers \cap Consumers = {} /\ Nobody \notin Threads
  /\ Threads = Producers \cup Consumers
<1>1. IsFiniteSet(0 .. ThreadNum - 1)
  BY ConstantsAssumption, FS_Interval DEF ThreadNum
<1>2. QED
  BY <1>1, ConstantsAssumption DEF ThreadNum, Threads, Producers, Consumers, Nobody

\* A set of threads grows or shrinks by one thread at a time.
LEMMA CountOne ==
  ASSUME NEW S \in SUBSET Threads, NEW t \in Threads
  PROVE  /\ Cardinality(S) \in Nat
         /\ t \notin S => Cardinality(S \cup {t}) = Cardinality(S) + 1
         /\ t \in S => Cardinality(S \ {t}) = Cardinality(S) - 1
<1>1. IsFiniteSet(S)
  BY ThreadFacts, FS_Subset
<1>2. QED
  BY <1>1, FS_CardinalityType, FS_AddElement, FS_RemoveElement

\* The sets that the invariants count are sets of threads.
LEMMA CountedSets ==
  /\ Holding \in SUBSET Threads /\ Inserted \in SUBSET Threads
  /\ Removing \in SUBSET Threads
  /\ Cardinality(Holding) \in Nat /\ Cardinality(Inserted) \in Nat
  /\ Cardinality(Removing) \in Nat
<1>1. /\ Holding \in SUBSET Threads /\ Inserted \in SUBSET Threads
      /\ Removing \in SUBSET Threads
  BY ThreadFacts DEF Holding, Inserted, Removing
<1>2. \A S \in SUBSET Threads : Cardinality(S) \in Nat
  BY ThreadFacts, FS_Subset, FS_CardinalityType
<1>3. QED
  BY <1>1, <1>2

(***************************************************************************)
(* While a thread holds a token for which nothing is in the ring, there is *)
(* a free slot: what is in the ring is at most what full and the other     *)
(* holders account for.                                                    *)
(***************************************************************************)
LEMMA RoomInside ==
  ASSUME IInv, NEW t \in Holding, t \notin Inserted, t \notin Removing
  PROVE  ~ Ring!IsFull(front, rear)
<1> DEFINE Others == Holding \ {t}
<1>1. t \in Threads /\ mainPc # "init"
  BY ThreadFacts DEF Holding, IInv, LifeInv
<1>2. /\ Others \in SUBSET Threads /\ IsFiniteSet(Others)
      /\ Cardinality(Others) = Cardinality(Holding) - 1
  BY <1>1, ThreadFacts, CountedSets, CountOne, FS_Subset
<1>3. Inserted \subseteq Others /\ Removing \subseteq Others /\ Inserted \cap Removing = {}
  BY ThreadFacts DEF Inserted, Removing, Holding
<1>4. Cardinality(Inserted) + Cardinality(Removing) <= Cardinality(Others)
  <2>1. IsFiniteSet(Inserted) /\ IsFiniteSet(Removing)
    BY <1>2, <1>3, FS_Subset
  <2>2. Cardinality(Inserted \cup Removing) = Cardinality(Inserted) + Cardinality(Removing)
    BY <1>3, <2>1, FS_Union, FS_EmptySet, CountedSets
  <2>3. Cardinality(Inserted \cup Removing) <= Cardinality(Others)
    BY <1>2, <1>3, FS_Subset
  <2>4. QED
    BY <2>2, <2>3
<1>5. empty + full + Cardinality(Holding) = BUFFER_SIZE /\ empty \in Nat /\ full \in Nat
  BY <1>1 DEF IInv, TokensConserved, TypeOK
<1>6. Ring!Occupancy(front, rear) = full + Cardinality(Inserted) + Cardinality(Removing)
  BY DEF IInv, RingMatchesTokens
<1>7. Ring!Occupancy(front, rear) # BUFFER_SIZE
  BY <1>2, <1>4, <1>5, <1>6, CountedSets, ConstantsAssumption
<1>8. QED
  BY <1>7, RingFacts DEF IInv, TypeOK

\* An item that a thread has just put in, or is about to take, is in the ring.
LEMMA ItemInside ==
  ASSUME IInv, NEW t \in Removing \cup Inserted
  PROVE  ~ Ring!IsEmpty(front, rear)
<1>1. \A S \in SUBSET Threads : t \in S => Cardinality(S) # 0
  <2> TAKE S \in SUBSET Threads
  <2> HAVE t \in S
  <2>1. Cardinality(S \ {t}) \in Nat /\ Cardinality(S) \in Nat
    BY CountOne
  <2>2. Cardinality(S \ {t}) = Cardinality(S) - 1
    BY CountOne
  <2>3. QED
    BY <2>1, <2>2
<1>2. Cardinality(Removing) # 0 \/ Cardinality(Inserted) # 0
  BY <1>1, CountedSets
<1>3. Ring!Occupancy(front, rear) # 0
  BY <1>2, CountedSets DEF IInv, TypeOK, RingMatchesTokens
<1>4. QED
  BY <1>3, RingFacts DEF IInv, TypeOK

-----------------------------------------------------------------------------
(***************************************************************************)
(* What every step of a thread has in common: it leaves the other threads  *)
(* and main alone.                                                         *)
(***************************************************************************)
LEMMA ThreadMoves ==
  ASSUME IInv, NEW t \in Threads, NEW from, NEW to \in ThreadStates \ {"none", "error"},
         from \notin {"none", "exited"},
         Goto(t, from, to), UNCHANGED mainVars
  PROVE  /\ pc' \in [Threads -> ThreadStates]
         /\ pc[t] = from /\ pc'[t] = to /\ \A u \in Threads \ {t} : pc'[u] = pc[u]
         /\ mainPc \notin {"init", "done"} /\ live
         /\ NoErrorReported'
<1>1. /\ pc' \in [Threads -> ThreadStates]
      /\ pc[t] = from /\ pc'[t] = to /\ \A u \in Threads \ {t} : pc'[u] = pc[u]
  BY DEF IInv, TypeOK, Goto
<1>2. mainPc \notin {"init", "done"} /\ live
  BY <1>1 DEF IInv, LifeInv
<1>3. NoErrorReported'
  BY <1>1 DEF IInv, NoErrorReported
<1>4. QED
  BY <1>1, <1>2, <1>3

\* A live thread that moves on was there and is there, so main's view holds.
LEMMA LifeKept ==
  ASSUME IInv, NEW t \in Threads, pc' \in [Threads -> ThreadStates],
         pc[t] \notin {"none", "exited"}, pc'[t] # "none",
         \A u \in Threads \ {t} : pc'[u] = pc[u], UNCHANGED mainVars
  PROVE  LifeInv'
<1>1. mainPc \notin {"init", "done"}
  BY DEF IInv, LifeInv
<1>2. mainPc' = mainPc /\ i' = i /\ live' = live
  BY DEF mainVars
<1>3. \A u \in Threads : /\ pc'[u] = "none" <=> pc[u] = "none"
                         /\ pc[u] = "exited" => pc'[u] = "exited"
  OBVIOUS
<1>4. QED
  BY <1>1, <1>2, <1>3 DEF IInv, LifeInv

\* A step within the same part of the code is not counted.
LEMMA CountsKept ==
  ASSUME NEW t \in Threads, NEW from, NEW to,
         pc[t] = from, pc'[t] = to, \A u \in Threads \ {t} : pc'[u] = pc[u],
         \A S \in {{"lock", "critical", "store", "load", "post"},
                   {"store", "post"}, {"lock", "critical"}} : from \in S <=> to \in S
  PROVE  Holding' = Holding /\ Inserted' = Inserted /\ Removing' = Removing
<1>1. \A u \in Threads :
        /\ pc[u] \in {"lock", "critical", "store", "load", "post"}
             <=> pc'[u] \in {"lock", "critical", "store", "load", "post"}
        /\ pc[u] \in {"store", "post"} <=> pc'[u] \in {"store", "post"}
        /\ pc[u] \in {"lock", "critical"} <=> pc'[u] \in {"lock", "critical"}
  OBVIOUS
<1>2. QED
  BY <1>1, ThreadFacts DEF Holding, Inserted, Removing

\* Steps outside the critical section that only move the thread, or its item.
LEMMA OutsideStep ==
  ASSUME IInv, NEW t \in Threads, NEW from \in CancellationPoints, NEW to \in {"sleep", "wait", "exited"},
         Goto(t, from, to), UNCHANGED <<shared, sync, mainVars>>,
         item' \in [Threads -> Items \cup {Blank}]
  PROVE  IInv'
<1>1. /\ pc' \in [Threads -> ThreadStates]
      /\ pc[t] = from /\ pc'[t] = to /\ \A u \in Threads \ {t} : pc'[u] = pc[u]
      /\ NoErrorReported'
  BY ThreadMoves DEF CancellationPoints, ThreadStates
<1>2. Holding' = Holding /\ Inserted' = Inserted /\ Removing' = Removing
  BY <1>1, CountsKept DEF CancellationPoints
<1>3. TypeOK'
  BY <1>1 DEF IInv, TypeOK, shared, sync, mainVars
<1>4. MutexInv' /\ RoleInv'
  <2>1. MutexInv'
    BY <1>1 DEF IInv, MutexInv, sync, CancellationPoints
  <2>2. RoleInv'
    BY <1>1, ThreadFacts DEF IInv, RoleInv, CancellationPoints
  <2>3. QED
    BY <2>1, <2>2
<1>5. LifeInv'
  BY <1>1, LifeKept DEF CancellationPoints
<1>6. TokensConserved' /\ RingMatchesTokens'
  BY <1>2 DEF IInv, TokensConserved, RingMatchesTokens, shared, sync, mainVars
<1>7. QED
  BY <1>1, <1>3, <1>4, <1>5, <1>6 DEF IInv

-----------------------------------------------------------------------------
\* sem_wait(&empty): the token moves from empty to the producer.
LEMMA WaitEmptyStep ==
  ASSUME IInv, NEW t \in Producers, WaitEmpty(t)
  PROVE  IInv'
<1>1. /\ t \in Threads /\ t \notin Consumers
      /\ pc' \in [Threads -> ThreadStates]
      /\ pc[t] = "wait" /\ pc'[t] = "lock" /\ \A u \in Threads \ {t} : pc'[u] = pc[u]
      /\ mainPc \notin {"init", "done"} /\ NoErrorReported'
  BY ThreadFacts, ThreadMoves DEF WaitEmpty, ThreadStates
<1>2. Holding' = Holding \cup {t} /\ t \notin Holding
      /\ Inserted' = Inserted /\ Removing' = Removing
  BY <1>1, ThreadFacts DEF Holding, Inserted, Removing
<1>3. Cardinality(Holding') = Cardinality(Holding) + 1
  BY <1>1, <1>2, CountedSets, CountOne
<1>4. TypeOK'
  BY <1>1 DEF IInv, TypeOK, WaitEmpty, shared, mainVars
<1>5. MutexInv'
  BY <1>1 DEF IInv, MutexInv, WaitEmpty
<1>6. RoleInv'
  BY <1>1, ThreadFacts DEF IInv, RoleInv
<1>7. LifeInv'
  BY <1>1, LifeKept DEF WaitEmpty
<1>8. TokensConserved'
  BY <1>1, <1>3, CountedSets DEF IInv, TypeOK, TokensConserved, WaitEmpty, mainVars
<1>9. RingMatchesTokens'
  BY <1>2 DEF IInv, RingMatchesTokens, WaitEmpty, shared
<1>10. QED
  BY <1>1, <1>4, <1>5, <1>6, <1>7, <1>8, <1>9 DEF IInv

\* sem_wait(&full): the consumer answers for one item from here on.
LEMMA WaitFullStep ==
  ASSUME IInv, NEW t \in Consumers, WaitFull(t)
  PROVE  IInv'
<1>1. /\ t \in Threads /\ t \notin Producers
      /\ pc' \in [Threads -> ThreadStates]
      /\ pc[t] = "wait" /\ pc'[t] = "lock" /\ \A u \in Threads \ {t} : pc'[u] = pc[u]
      /\ mainPc \notin {"init", "done"} /\ NoErrorReported'
  BY ThreadFacts, ThreadMoves DEF WaitFull, ThreadStates
<1>2. /\ Holding' = Holding \cup {t} /\ t \notin Holding
      /\ Removing' = Removing \cup {t} /\ t \notin Removing
      /\ Inserted' = Inserted
  BY <1>1, ThreadFacts DEF Holding, Inserted, Removing
<1>3. /\ Cardinality(Holding') = Cardinality(Holding) + 1
      /\ Cardinality(Removing') = Cardinality(Removing) + 1
  BY <1>1, <1>2, CountedSets, CountOne
<1>4. TypeOK'
  BY <1>1 DEF IInv, TypeOK, WaitFull, shared, mainVars
<1>5. MutexInv'
  BY <1>1 DEF IInv, MutexInv, WaitFull
<1>6. RoleInv'
  BY <1>1, ThreadFacts DEF IInv, RoleInv
<1>7. LifeInv'
  BY <1>1, LifeKept DEF WaitFull
<1>8. TokensConserved'
  BY <1>1, <1>3, CountedSets DEF IInv, TypeOK, TokensConserved, WaitFull, mainVars
<1>9. RingMatchesTokens'
  BY <1>2, <1>3, CountedSets DEF IInv, TypeOK, RingMatchesTokens, WaitFull, shared
<1>10. QED
  BY <1>1, <1>4, <1>5, <1>6, <1>7, <1>8, <1>9 DEF IInv

\* pthread_mutex_lock.
LEMMA LockStep ==
  ASSUME IInv, NEW t \in Threads, Lock(t)
  PROVE  IInv'
<1>1. /\ pc' \in [Threads -> ThreadStates]
      /\ pc[t] = "lock" /\ pc'[t] = "critical" /\ \A u \in Threads \ {t} : pc'[u] = pc[u]
      /\ mainPc \notin {"init", "done"} /\ NoErrorReported'
  BY ThreadMoves DEF Lock, ThreadStates
<1>2. Holding' = Holding /\ Inserted' = Inserted /\ Removing' = Removing
  BY <1>1, CountsKept
<1>3. TypeOK'
  BY <1>1 DEF IInv, TypeOK, Lock, shared, mainVars
<1>4. MutexInv'
  BY <1>1, ThreadFacts DEF IInv, MutexInv, Lock
<1>5. RoleInv'
  BY <1>1, ThreadFacts DEF IInv, RoleInv
<1>6. LifeInv'
  BY <1>1, LifeKept DEF Lock
<1>7. TokensConserved' /\ RingMatchesTokens'
  BY <1>2 DEF IInv, TokensConserved, RingMatchesTokens, Lock, shared, mainVars
<1>8. QED
  BY <1>1, <1>3, <1>4, <1>5, <1>6, <1>7 DEF IInv

\* The check and the new rear: by RoomInside the check succeeds.
LEMMA AdvanceRearStep ==
  ASSUME IInv, NEW t \in Producers, AdvanceRear(t)
  PROVE  IInv'
<1>1. t \in Threads /\ t \notin Consumers /\ pc[t] = "critical"
  BY ThreadFacts DEF AdvanceRear, Goto
<1>2. ~ Ring!IsFull(front, rear)
  BY <1>1, RoomInside DEF Holding, Inserted, Removing
<1>3. /\ Goto(t, "critical", "store") /\ rear' = Ring!Succ(rear)
      /\ UNCHANGED <<buffer, front, sync, mainVars, item>>
  BY <1>2 DEF AdvanceRear, sync
<1>4. /\ pc' \in [Threads -> ThreadStates]
      /\ pc'[t] = "store" /\ \A u \in Threads \ {t} : pc'[u] = pc[u]
      /\ mainPc \notin {"init", "done"} /\ NoErrorReported'
  BY <1>1, <1>3, ThreadMoves DEF ThreadStates
<1>5. /\ Holding' = Holding /\ Removing' = Removing
      /\ Inserted' = Inserted \cup {t} /\ t \notin Inserted
  BY <1>1, <1>4, ThreadFacts DEF Holding, Inserted, Removing
<1>6. Cardinality(Inserted') = Cardinality(Inserted) + 1
  BY <1>1, <1>5, CountedSets, CountOne
<1>7. /\ rear' \in Ring!Slots
      /\ Ring!Occupancy(front, rear') = Ring!Occupancy(front, rear) + 1
  BY <1>2, <1>3, RingFacts DEF IInv, TypeOK
<1>8. TypeOK'
  BY <1>3, <1>4, <1>7 DEF IInv, TypeOK, sync, mainVars
<1>9. MutexInv'
  BY <1>1, <1>3, <1>4 DEF IInv, MutexInv, sync
<1>10. RoleInv'
  BY <1>1, <1>4, ThreadFacts DEF IInv, RoleInv
<1>11. LifeInv'
  BY <1>1, <1>3, <1>4, LifeKept
<1>12. TokensConserved'
  BY <1>3, <1>5 DEF IInv, TokensConserved, sync, mainVars
<1>13. RingMatchesTokens'
  BY <1>3, <1>5, <1>6, <1>7, CountedSets DEF IInv, TypeOK, RingMatchesTokens, sync
<1>14. QED
  BY <1>4, <1>8, <1>9, <1>10, <1>11, <1>12, <1>13 DEF IInv

\* The store, and pthread_mutex_unlock.
LEMMA StoreItemStep ==
  ASSUME IInv, NEW t \in Producers, StoreItem(t)
  PROVE  IInv'
<1>1. /\ t \in Threads /\ t \notin Consumers
      /\ pc' \in [Threads -> ThreadStates]
      /\ pc[t] = "store" /\ pc'[t] = "post" /\ \A u \in Threads \ {t} : pc'[u] = pc[u]
      /\ mainPc \notin {"init", "done"} /\ NoErrorReported'
  BY ThreadFacts, ThreadMoves DEF StoreItem, ThreadStates
<1>2. Holding' = Holding /\ Inserted' = Inserted /\ Removing' = Removing
  BY <1>1, CountsKept
<1>3. TypeOK'
  BY <1>1 DEF IInv, TypeOK, StoreItem, mainVars
<1>4. MutexInv'
  BY <1>1, ThreadFacts DEF IInv, MutexInv, StoreItem
<1>5. RoleInv'
  BY <1>1, ThreadFacts DEF IInv, RoleInv
<1>6. LifeInv'
  BY <1>1, LifeKept DEF StoreItem
<1>7. TokensConserved' /\ RingMatchesTokens'
  BY <1>2 DEF IInv, TokensConserved, RingMatchesTokens, StoreItem, mainVars
<1>8. QED
  BY <1>1, <1>3, <1>4, <1>5, <1>6, <1>7 DEF IInv

\* sem_post(&full): full now counts the item, and the producer no longer does.
LEMMA PostFullStep ==
  ASSUME IInv, NEW t \in Producers, PostFull(t)
  PROVE  IInv'
<1>1. /\ t \in Threads /\ t \notin Consumers
      /\ pc' \in [Threads -> ThreadStates]
      /\ pc[t] = "post" /\ pc'[t] = "report" /\ \A u \in Threads \ {t} : pc'[u] = pc[u]
      /\ mainPc \notin {"init", "done"} /\ NoErrorReported'
  BY ThreadFacts, ThreadMoves DEF PostFull, ThreadStates
<1>2. /\ Holding' = Holding \ {t} /\ t \in Holding
      /\ Inserted' = Inserted \ {t} /\ t \in Inserted
      /\ Removing' = Removing
  BY <1>1, ThreadFacts DEF Holding, Inserted, Removing
<1>3. /\ Cardinality(Holding') = Cardinality(Holding) - 1
      /\ Cardinality(Inserted') = Cardinality(Inserted) - 1
  BY <1>1, <1>2, CountedSets, CountOne
<1>4. TypeOK'
  BY <1>1 DEF IInv, TypeOK, PostFull, shared, mainVars
<1>5. MutexInv'
  BY <1>1 DEF IInv, MutexInv, PostFull
<1>6. RoleInv'
  BY <1>1, ThreadFacts DEF IInv, RoleInv
<1>7. LifeInv'
  BY <1>1, LifeKept DEF PostFull
<1>8. TokensConserved'
  BY <1>1, <1>3, CountedSets DEF IInv, TypeOK, TokensConserved, PostFull, mainVars
<1>9. RingMatchesTokens'
  BY <1>2, <1>3, CountedSets DEF IInv, TypeOK, RingMatchesTokens, PostFull, shared
<1>10. QED
  BY <1>1, <1>4, <1>5, <1>6, <1>7, <1>8, <1>9 DEF IInv

\* The check and the new front: by ItemInside the check succeeds.
LEMMA AdvanceFrontStep ==
  ASSUME IInv, NEW t \in Consumers, AdvanceFront(t)
  PROVE  IInv'
<1>1. t \in Threads /\ t \notin Producers /\ pc[t] = "critical"
  BY ThreadFacts DEF AdvanceFront, Goto
<1>2. ~ Ring!IsEmpty(front, rear)
  BY <1>1, ItemInside DEF Removing
<1>3. /\ Goto(t, "critical", "load") /\ front' = Ring!Succ(front)
      /\ UNCHANGED <<buffer, rear, sync, mainVars, item>>
  BY <1>2 DEF AdvanceFront, sync
<1>4. /\ pc' \in [Threads -> ThreadStates]
      /\ pc'[t] = "load" /\ \A u \in Threads \ {t} : pc'[u] = pc[u]
      /\ mainPc \notin {"init", "done"} /\ NoErrorReported'
  BY <1>1, <1>3, ThreadMoves DEF ThreadStates
<1>5. /\ Holding' = Holding /\ Inserted' = Inserted
      /\ Removing' = Removing \ {t} /\ t \in Removing
  BY <1>1, <1>4, ThreadFacts DEF Holding, Inserted, Removing
<1>6. Cardinality(Removing') = Cardinality(Removing) - 1
  BY <1>1, <1>5, CountedSets, CountOne
<1>7. /\ front' \in Ring!Slots
      /\ Ring!Occupancy(front', rear) = Ring!Occupancy(front, rear) - 1
  BY <1>2, <1>3, RingFacts DEF IInv, TypeOK
<1>8. TypeOK'
  BY <1>3, <1>4, <1>7 DEF IInv, TypeOK, sync, mainVars
<1>9. MutexInv'
  BY <1>1, <1>3, <1>4 DEF IInv, MutexInv, sync
<1>10. RoleInv'
  BY <1>1, <1>4, ThreadFacts DEF IInv, RoleInv
<1>11. LifeInv'
  BY <1>1, <1>3, <1>4, LifeKept
<1>12. TokensConserved'
  BY <1>3, <1>5 DEF IInv, TokensConserved, sync, mainVars
<1>13. RingMatchesTokens'
  BY <1>3, <1>5, <1>6, <1>7, CountedSets DEF IInv, TypeOK, RingMatchesTokens, sync
<1>14. QED
  BY <1>4, <1>8, <1>9, <1>10, <1>11, <1>12, <1>13 DEF IInv

\* The load, and pthread_mutex_unlock.
LEMMA LoadItemStep ==
  ASSUME IInv, NEW t \in Consumers, LoadItem(t)
  PROVE  IInv'
<1>1. /\ t \in Threads /\ t \notin Producers
      /\ pc' \in [Threads -> ThreadStates]
      /\ pc[t] = "load" /\ pc'[t] = "post" /\ \A u \in Threads \ {t} : pc'[u] = pc[u]
      /\ mainPc \notin {"init", "done"} /\ NoErrorReported'
  BY ThreadFacts, ThreadMoves DEF LoadItem, ThreadStates
<1>2. Holding' = Holding /\ Inserted' = Inserted /\ Removing' = Removing
  BY <1>1, ThreadFacts DEF Holding, Inserted, Removing
<1>3. TypeOK'
  BY <1>1 DEF IInv, TypeOK, LoadItem, shared, mainVars
<1>4. MutexInv'
  BY <1>1, ThreadFacts DEF IInv, MutexInv, LoadItem
<1>5. RoleInv'
  BY <1>1, ThreadFacts DEF IInv, RoleInv
<1>6. LifeInv'
  BY <1>1, LifeKept DEF LoadItem
<1>7. TokensConserved' /\ RingMatchesTokens'
  BY <1>2 DEF IInv, TokensConserved, RingMatchesTokens, LoadItem, shared, mainVars
<1>8. QED
  BY <1>1, <1>3, <1>4, <1>5, <1>6, <1>7 DEF IInv

\* sem_post(&empty): the consumer gives its token back.
LEMMA PostEmptyStep ==
  ASSUME IInv, NEW t \in Consumers, PostEmpty(t)
  PROVE  IInv'
<1>1. /\ t \in Threads /\ t \notin Producers
      /\ pc' \in [Threads -> ThreadStates]
      /\ pc[t] = "post" /\ pc'[t] = "report" /\ \A u \in Threads \ {t} : pc'[u] = pc[u]
      /\ mainPc \notin {"init", "done"} /\ NoErrorReported'
  BY ThreadFacts, ThreadMoves DEF PostEmpty, ThreadStates
<1>2. /\ Holding' = Holding \ {t} /\ t \in Holding
      /\ Inserted' = Inserted /\ Removing' = Removing
  BY <1>1, ThreadFacts DEF Holding, Inserted, Removing
<1>3. Cardinality(Holding') = Cardinality(Holding) - 1
  BY <1>1, <1>2, CountedSets, CountOne
<1>4. TypeOK'
  BY <1>1 DEF IInv, TypeOK, PostEmpty, shared, mainVars
<1>5. MutexInv'
  BY <1>1 DEF IInv, MutexInv, PostEmpty
<1>6. RoleInv'
  BY <1>1, ThreadFacts DEF IInv, RoleInv
<1>7. LifeInv'
  BY <1>1, LifeKept DEF PostEmpty
<1>8. TokensConserved'
  BY <1>1, <1>3, CountedSets DEF IInv, TypeOK, TokensConserved, PostEmpty, mainVars
<1>9. RingMatchesTokens'
  BY <1>2 DEF IInv, RingMatchesTokens, PostEmpty, shared
<1>10. QED
  BY <1>1, <1>4, <1>5, <1>6, <1>7, <1>8, <1>9 DEF IInv

-----------------------------------------------------------------------------
\* Every step of main.
LEMMA MainStep ==
  ASSUME IInv, MainRuns \/ MainWakes
  PROVE  IInv'
<1> USE DEF MainGoto
<1>1. CASE InitBuffer
  <2>1. /\ mainPc = "init" /\ mainPc' = "create" /\ live' /\ i' = i /\ i = 0
        /\ full' = 0 /\ empty' = BUFFER_SIZE /\ full = 0
        /\ UNCHANGED <<shared, mutex, pc, item, cancelled>>
        /\ \A t \in Threads : pc[t] = "none"
    BY <1>1 DEF InitBuffer, IInv, LifeInv
  <2>2. Holding' = {} /\ Holding = {} /\ Inserted' = Inserted /\ Removing' = Removing
    BY <2>1, ThreadFacts DEF Holding, Inserted, Removing
  <2>3. Cardinality(Holding') = 0
    BY <2>2, FS_EmptySet
  <2>4. TypeOK' /\ MutexInv' /\ RoleInv' /\ NoErrorReported'
    BY <2>1, ConstantsAssumption
    DEF IInv, TypeOK, MutexInv, RoleInv, NoErrorReported, shared, MainStates
  <2>5. LifeInv'
    BY <2>1, ConstantsAssumption DEF LifeInv, Threads
  <2>6. TokensConserved' /\ RingMatchesTokens'
    BY <2>1, <2>2, <2>3, ConstantsAssumption
    DEF IInv, TokensConserved, RingMatchesTokens, shared
  <2>7. QED
    BY <2>4, <2>5, <2>6 DEF IInv
<1>2. CASE CreateThread
  <2>1. /\ mainPc = "create" /\ mainPc' = "create" /\ i < ThreadNum /\ i' = i + 1
        /\ i \in Threads /\ pc[i] = "none" /\ pc' = [pc EXCEPT ![i] = "sleep"]
        /\ UNCHANGED <<shared, sync, item, live, cancelled>>
    BY <1>2, ThreadFacts DEF CreateThread, IInv, TypeOK, LifeInv, Threads
  <2>2. Holding' = Holding /\ Inserted' = Inserted /\ Removing' = Removing
    BY <2>1, ThreadFacts DEF Holding, Inserted, Removing, IInv, TypeOK
  <2>3. TypeOK'
    BY <2>1, ThreadFacts DEF IInv, TypeOK, shared, sync, ThreadStates
  <2>4. MutexInv' /\ NoErrorReported'
    BY <2>1 DEF IInv, TypeOK, MutexInv, NoErrorReported, sync
  <2>5. RoleInv'
    BY <2>1, ThreadFacts DEF IInv, TypeOK, RoleInv
  <2>6. LifeInv'
    BY <2>1, ThreadFacts DEF IInv, TypeOK, LifeInv
  <2>7. TokensConserved' /\ RingMatchesTokens'
    BY <2>1, <2>2 DEF IInv, TokensConserved, RingMatchesTokens, shared, sync
  <2>8. QED
    BY <2>3, <2>4, <2>5, <2>6, <2>7 DEF IInv
<1>3. ASSUME /\ mainPc \notin {"init", "done"} /\ mainPc' \in MainStates \ {"init", "create"}
             /\ UNCHANGED <<shared, sync, pc, item>>
             /\ cancelled' \in SUBSET Threads /\ i' \in 0 .. ThreadNum
             /\ live' \in BOOLEAN /\ LifeInv'
      PROVE  IInv'
  <2>1. Holding' = Holding /\ Inserted' = Inserted /\ Removing' = Removing
    BY <1>3 DEF Holding, Inserted, Removing
  <2>2. TypeOK' /\ MutexInv' /\ RoleInv' /\ NoErrorReported'
    BY <1>3 DEF IInv, TypeOK, MutexInv, RoleInv, NoErrorReported, shared, sync
  <2>3. TokensConserved' /\ RingMatchesTokens'
    BY <1>3, <2>1 DEF IInv, TokensConserved, RingMatchesTokens, shared, sync
  <2>4. QED
    BY <1>3, <2>2, <2>3 DEF IInv
<1>4. CASE AllCreated
  <2>1. LifeInv'
    BY <1>4, ThreadFacts DEF AllCreated, IInv, TypeOK, LifeInv, Threads
  <2>2. QED
    BY <1>3, <1>4, <2>1 DEF AllCreated, IInv, TypeOK, MainStates
<1>5. CASE MainWakes
  <2>1. LifeInv'
    BY <1>5, ThreadFacts DEF MainWakes, IInv, TypeOK, LifeInv, Threads
  <2>2. QED
    BY <1>3, <1>5, <2>1, ThreadFacts DEF MainWakes, IInv, TypeOK, MainStates
<1>6. CASE CancelThread
  <2>1. LifeInv' /\ i \in Threads
    BY <1>6, ThreadFacts DEF CancelThread, IInv, TypeOK, LifeInv, Threads
  <2>2. QED
    BY <1>3, <1>6, <2>1 DEF CancelThread, IInv, TypeOK, MainStates
<1>7. CASE JoinThread
  <2>1. LifeInv' /\ i + 1 \in 0 .. ThreadNum
    BY <1>7, ThreadFacts DEF JoinThread, IInv, TypeOK, LifeInv, Threads
  <2>2. QED
    BY <1>3, <1>7, <2>1 DEF JoinThread, IInv, TypeOK, MainStates
<1>8. CASE DestroyBuffer
  <2>1. LifeInv'
    BY <1>8, ThreadFacts DEF DestroyBuffer, IInv, TypeOK, LifeInv, Threads
  <2>2. QED
    BY <1>3, <1>8, <2>1 DEF DestroyBuffer, IInv, TypeOK, MainStates
<1>9. QED
  BY <1>1, <1>2, <1>4, <1>5, <1>6, <1>7, <1>8 DEF MainRuns

\* The invariant holds at the start.
LEMMA InitInv == Init => IInv
<1> SUFFICES ASSUME Init PROVE IInv
  OBVIOUS
<1>1. Holding = {} /\ Inserted = {} /\ Removing = {}
  BY ThreadFacts DEF Init, Holding, Inserted, Removing
<1>2. Ring!Occupancy(0, 0) = 0 /\ 0 \in Ring!Slots
  BY ConstantsAssumption DEF Ring!Occupancy, Ring!Slots
<1>3. TypeOK
  <2>1. front \in Ring!Slots /\ rear \in Ring!Slots /\ buffer \in [Ring!Slots -> Items \cup {Blank}]
    BY <1>2 DEF Init
  <2>2. pc \in [Threads -> ThreadStates] /\ item \in [Threads -> Items \cup {Blank}]
    BY DEF Init, ThreadStates
  <2>3. mainPc \in MainStates /\ i \in 0 .. ThreadNum
    BY ThreadFacts DEF Init, MainStates
  <2>4. QED
    BY <2>1, <2>2, <2>3 DEF Init, TypeOK
<1>4. MutexInv /\ NoErrorReported
  BY ThreadFacts DEF Init, MutexInv, NoErrorReported
<1>5. RoleInv
  BY ThreadFacts DEF Init, RoleInv
<1>6. LifeInv
  BY DEF Init, LifeInv
<1>7. TokensConserved /\ RingMatchesTokens
  BY <1>1, <1>2, FS_EmptySet DEF Init, TokensConserved, RingMatchesTokens
<1>8. QED
  BY <1>3, <1>4, <1>5, <1>6, <1>7 DEF IInv

\* Every step preserves it.
LEMMA NextInv == IInv /\ [Next]_vars => IInv'
<1> SUFFICES ASSUME IInv, [Next]_vars PROVE IInv'
  OBVIOUS
<1>1. CASE MainRuns \/ MainWakes
  BY <1>1, MainStep
<1>2. ASSUME NEW t \in Threads, Report(t) \/ EndCancelled(t)
      PROVE  IInv'
  BY <1>2, OutsideStep DEF Report, EndCancelled, CancellationPoints, IInv, TypeOK
<1>3. ASSUME NEW t \in Producers, ProducerStep(t)
      PROVE  IInv'
  <2>1. t \in Threads
    BY ThreadFacts
  <2>2. CASE ProducerWakes(t)
    BY <2>1, <2>2, OutsideStep DEF ProducerWakes, CancellationPoints, IInv, TypeOK
  <2>3. QED
    BY <1>2, <1>3, <2>1, <2>2, WaitEmptyStep, LockStep, AdvanceRearStep, StoreItemStep,
       PostFullStep DEF ProducerStep
<1>4. ASSUME NEW t \in Consumers, ConsumerStep(t)
      PROVE  IInv'
  <2>1. t \in Threads
    BY ThreadFacts
  <2>2. CASE ConsumerWakes(t)
    BY <2>1, <2>2, OutsideStep DEF ConsumerWakes, CancellationPoints, IInv, TypeOK
  <2>3. QED
    BY <1>2, <1>4, <2>1, <2>2, WaitFullStep, LockStep, AdvanceFrontStep, LoadItemStep,
       PostEmptyStep DEF ConsumerStep
<1>5. CASE UNCHANGED vars
  BY <1>5 DEF vars, shared, sync, mainVars, IInv, TypeOK, MutexInv, RoleInv, LifeInv,
              TokensConserved, RingMatchesTokens, NoErrorReported, Holding, Inserted, Removing
<1>6. QED
  BY <1>1, <1>3, <1>4, <1>5 DEF Next, Terminated

-----------------------------------------------------------------------------
(***************************************************************************)
(* The inductive invariant holds in every reachable state: tokens, ring,   *)
(* mutex and main's loop always agree (buffer.c, main.c).                  *)
(***************************************************************************)
THEOREM Invariance == Spec => []IInv
<1>1. QED
  BY InitInv, NextInv, PTL DEF Spec

(***************************************************************************)
(* No path through insert_item and remove_item loses a token or makes one  *)
(* up, whatever main cancels (buffer.c:81-122).                            *)
(***************************************************************************)
THEOREM TokensAreConserved == Spec => []TokensConserved
<1>1. IInv => TokensConserved
  BY DEF IInv
<1>2. QED
  BY <1>1, Invariance, PTL

(***************************************************************************)
(* The error branches of insert_item and remove_item are never taken       *)
(* (buffer.c:88-91, 110-113).                                              *)
(***************************************************************************)
THEOREM ErrorsNeverReported == Spec => []NoErrorReported
<1>1. IInv => NoErrorReported
  BY DEF IInv
<1>2. QED
  BY <1>1, Invariance, PTL

(***************************************************************************)
(* main frees and destroys what the threads share only when none is left   *)
(* to use it (main.c:40-54).                                               *)
(***************************************************************************)
THEOREM DestroyedUnused == Spec => []NoUseAfterDestroy
<1>1. IInv => NoUseAfterDestroy
  BY DEF IInv, LifeInv, NoUseAfterDestroy
<1>2. QED
  BY <1>1, Invariance, PTL

-----------------------------------------------------------------------------
(***************************************************************************)
(* The refinement.  The queue of the channel is what lies between the      *)
(* logical indices, which are one behind the real ones while a store or a  *)
(* load is on its way.  Besides IInv the mapping needs to know that a      *)
(* producer on its way to the buffer carries an item.                      *)
(***************************************************************************)
Carrying == \A t \in Producers : InHand(t) => item[t] \in Items

\* A producer keeps its item until it has stored it.
LEMMA CarryingInv ==
  ASSUME IInv, Carrying, [Next]_vars
  PROVE  Carrying'
<1> USE ThreadFacts DEF IInv, TypeOK, Carrying, InHand, Goto
<1>1. CASE MainRuns \/ MainWakes
  BY <1>1 DEF MainRuns, MainWakes, InitBuffer, CreateThread, AllCreated, CancelThread,
              JoinThread, DestroyBuffer, Threads
<1>2. ASSUME NEW t \in Producers, ProducerStep(t)
      PROVE  Carrying'
  BY <1>2 DEF ProducerStep, ProducerWakes, WaitEmpty, Lock, AdvanceRear, StoreItem, PostFull,
              Report, EndCancelled, CancellationPoints
<1>3. ASSUME NEW t \in Consumers, ConsumerStep(t)
      PROVE  Carrying'
  BY <1>3 DEF ConsumerStep, ConsumerWakes, WaitFull, Lock, AdvanceFront, LoadItem, PostEmpty,
              Report, EndCancelled, CancellationPoints
<1>4. CASE UNCHANGED vars
  BY <1>4 DEF vars
<1>5. QED
  BY <1>1, <1>2, <1>3, <1>4 DEF Next, Terminated

\* At most one index runs ahead, and only while the mutex is held.
LEMMA LogicalIndices ==
  ASSUME IInv
  PROVE  /\ LogicalFront = (IF \E t \in Consumers : pc[t] = "load" THEN Pred(front) ELSE front)
         /\ LogicalRear = (IF \E t \in Producers : pc[t] = "store" THEN Pred(rear) ELSE rear)
         /\ \A t, u \in Threads :
              pc[t] \in {"critical", "store", "load"} /\ pc[u] \in {"critical", "store", "load"}
                => t = u
<1>1. \A t \in Threads : pc[t] \in {"critical", "store", "load"} => mutex = t
  BY DEF IInv, MutexInv
<1>2. QED
  BY <1>1 DEF LogicalFront, LogicalRear, Pred

\* A step that moves no index and nobody from or to a store or a load.
LEMMA SameQueue ==
  ASSUME UNCHANGED shared,
         \A t \in Producers : pc'[t] = "store" <=> pc[t] = "store",
         \A t \in Consumers : pc'[t] = "load" <=> pc[t] = "load"
  PROVE  InBuffer' = InBuffer
<1>1. LogicalFront' = LogicalFront /\ LogicalRear' = LogicalRear
  BY DEF LogicalFront, LogicalRear, shared
<1>2. QED
  BY <1>1 DEF InBuffer, shared

\* A step after which everyone has in hand what they had before.
LEMMA SameHands ==
  ASSUME \A t \in Threads : /\ InHand(t)' <=> InHand(t)
                            /\ InHand(t) => item'[t] = item[t]
  PROVE  InHands' = InHands
BY DEF InHands

\* The store is the channel's Put: rear itself was moved before.
LEMMA StoreIsPut ==
  ASSUME IInv, Carrying, IInv', NEW t \in Producers, StoreItem(t)
  PROVE  Channel!Put(t)
<1>1. /\ t \in Threads /\ t \notin Consumers /\ pc[t] = "store" /\ pc' = [pc EXCEPT ![t] = "post"]
      /\ buffer' = [buffer EXCEPT ![rear] = item[t]] /\ UNCHANGED <<front, rear, item>>
  BY ThreadFacts DEF StoreItem, Goto
<1>2. /\ LogicalFront = front /\ LogicalRear = Pred(rear)
      /\ LogicalFront' = front /\ LogicalRear' = rear
  <2>1. \A u \in Threads \ {t} : pc[u] \notin {"critical", "store", "load"}
    BY <1>1, LogicalIndices
  <2>2. \A u \in Threads : pc'[u] \notin {"critical", "store", "load"}
    BY <1>1, <2>1 DEF IInv, TypeOK
  <2>3. LogicalFront' = front' /\ LogicalRear' = rear'
    BY <2>2, ThreadFacts DEF LogicalFront, LogicalRear
  <2>4. LogicalFront = front /\ LogicalRear = Pred(rear)
    BY <1>1, <2>1, LogicalIndices, ThreadFacts
  <2>5. QED
    BY <1>1, <2>3, <2>4
<1>3. /\ buffer \in [Ring!Slots -> Items \cup {Blank}] /\ item[t] \in Items \cup {Blank}
      /\ front \in Ring!Slots /\ rear \in Ring!Slots
      /\ Pred(rear) \in Ring!Slots /\ Ring!Succ(Pred(rear)) = rear
  BY <1>1, PredFacts DEF IInv, TypeOK
<1>4. ~ Ring!IsFull(front, Pred(rear))
  BY <1>1, <1>3, ItemInside DEF Inserted, Ring!IsFull, Ring!IsEmpty
<1>5. InBuffer' = Append(InBuffer, item[t])
  <2>1. Ring!Contents([buffer EXCEPT ![Ring!Succ(Pred(rear))] = item[t]],
                      front, Ring!Succ(Pred(rear)))
          = Append(Ring!Contents(buffer, front, Pred(rear)), item[t])
    BY <1>3, <1>4, ContentsAfterPut
  <2>2. Ring!Succ(Pred(rear)) = rear
    BY <1>3
  <2>3. QED
    BY <1>1, <1>2, <2>1, <2>2 DEF InBuffer
<1>6. Len(InBuffer) < BUFFER_SIZE
  <2>1. Len(InBuffer) = Ring!Occupancy(front, Pred(rear))
    BY <1>2, <1>3, ContentsLen DEF InBuffer
  <2>2. /\ Ring!Occupancy(front, Pred(rear)) \in 0 .. BUFFER_SIZE
        /\ Ring!Occupancy(front, Pred(rear)) # BUFFER_SIZE
    BY <1>3, <1>4, RingFacts
  <2>3. QED
    BY <2>1, <2>2, ConstantsAssumption
<1>7. /\ InHands[t] = item[t] /\ item[t] # Blank
      /\ InHands' = [InHands EXCEPT ![t] = Blank]
  <2>1. InHand(t) /\ ~ InHand(t)' /\ item[t] \in Items
    BY <1>1 DEF Carrying, InHand, IInv, TypeOK
  <2>2. \A u \in Threads \ {t} : InHand(u)' <=> InHand(u)
    BY <1>1 DEF InHand, IInv, TypeOK
  <2>3. item' = item
    BY <1>1
  <2> HIDE DEF InHand
  <2>4. QED
    BY <1>1, <2>1, <2>2, <2>3, ConstantsAssumption DEF InHands
<1>8. QED
  BY <1>5, <1>6, <1>7 DEF Channel!Put

\* The load is the channel's Take: front itself was moved before.
LEMMA LoadIsTake ==
  ASSUME IInv, IInv', NEW t \in Consumers, LoadItem(t)
  PROVE  Channel!Take(t)
<1>1. /\ t \in Threads /\ t \notin Producers /\ pc[t] = "load" /\ pc' = [pc EXCEPT ![t] = "post"]
      /\ item' = [item EXCEPT ![t] = buffer[front]] /\ UNCHANGED <<buffer, front, rear>>
  BY ThreadFacts DEF LoadItem, Goto, shared
<1>2. /\ LogicalFront = Pred(front) /\ LogicalRear = rear
      /\ LogicalFront' = front /\ LogicalRear' = rear
  <2>1. \A u \in Threads \ {t} : pc[u] \notin {"critical", "store", "load"}
    BY <1>1, LogicalIndices
  <2>2. \A u \in Threads : pc'[u] \notin {"critical", "store", "load"}
    BY <1>1, <2>1 DEF IInv, TypeOK
  <2>3. LogicalFront' = front' /\ LogicalRear' = rear'
    BY <2>2, ThreadFacts DEF LogicalFront, LogicalRear
  <2>4. LogicalFront = Pred(front) /\ LogicalRear = rear
    BY <1>1, <2>1, LogicalIndices, ThreadFacts
  <2>5. QED
    BY <1>1, <2>3, <2>4
<1>3. /\ buffer \in [Ring!Slots -> Items \cup {Blank}]
      /\ front \in Ring!Slots /\ rear \in Ring!Slots
      /\ Pred(front) \in Ring!Slots /\ Ring!Succ(Pred(front)) = front
  BY PredFacts DEF IInv, TypeOK
<1>4. ~ Ring!IsEmpty(Pred(front), rear)
  <2>1. t \in Holding /\ t \notin Inserted /\ t \notin Removing
    BY <1>1 DEF Holding, Inserted, Removing
  <2>2. QED
    BY <1>3, <2>1, RoomInside DEF Ring!IsFull, Ring!IsEmpty
<1>5. /\ InBuffer # << >> /\ buffer[front] = Head(InBuffer) /\ InBuffer' = Tail(InBuffer)
  <2>1. /\ Ring!Contents(buffer, Pred(front), rear) # << >>
        /\ buffer[front] = Head(Ring!Contents(buffer, Pred(front), rear))
        /\ Ring!Contents(buffer, front, rear) = Tail(Ring!Contents(buffer, Pred(front), rear))
    BY <1>3, <1>4, ContentsAfterTake
  <2>2. QED
    BY <1>1, <1>2, <2>1 DEF InBuffer
<1>6. /\ InHands[t] = Blank
      /\ InHands' = [InHands EXCEPT ![t] = buffer[front]]
  BY <1>1 DEF InHand, InHands, IInv, TypeOK
<1>7. QED
  BY <1>5, <1>6 DEF Channel!Take

\* A thread that puts its item down for good, or had none in hand.
LEMMA LetGoOrStay ==
  ASSUME IInv, NEW t \in Threads, UNCHANGED <<shared, item>>,
         NEW from \in CancellationPoints, NEW to \in {"sleep", "exited"}, Goto(t, from, to)
  PROVE  [Channel!LetGo(t)]_Channel!bbVars
<1>1. /\ pc[t] = from /\ pc'[t] = to /\ \A u \in Threads \ {t} : pc'[u] = pc[u]
  BY DEF Goto, IInv, TypeOK
<1>2. InBuffer' = InBuffer
  BY <1>1, SameQueue, ThreadFacts DEF CancellationPoints
<1>3. InHands' = [InHands EXCEPT ![t] = Blank]
  BY <1>1 DEF InHands, InHand
<1>4. CASE InHands[t] = Blank
  <2>1. InHands' = InHands
    BY <1>3, <1>4 DEF InHands
  <2>2. QED
    BY <1>2, <2>1 DEF Channel!bbVars
<1>5. CASE InHands[t] # Blank
  BY <1>2, <1>3, <1>5 DEF Channel!LetGo
<1>6. QED
  BY <1>4, <1>5

\* Every step is a step of the channel or leaves it alone.
LEMMA ChannelStep ==
  ASSUME IInv, IInv', Carrying, [Next]_vars
  PROVE  [Channel!Next]_Channel!bbVars
<1>1. ASSUME InBuffer' = InBuffer, InHands' = InHands
      PROVE  [Channel!Next]_Channel!bbVars
  BY <1>1 DEF Channel!bbVars
<1>2. CASE MainRuns \/ MainWakes
  <2>1. /\ UNCHANGED <<shared, item>>
        /\ \A t \in Threads : pc'[t] = pc[t] \/ (pc[t] = "none" /\ pc'[t] = "sleep")
    BY <1>2 DEF MainRuns, MainWakes, InitBuffer, CreateThread, AllCreated, CancelThread,
                JoinThread, DestroyBuffer, MainGoto, IInv, TypeOK, LifeInv, Threads
  <2>2. InBuffer' = InBuffer
    BY <2>1, SameQueue, ThreadFacts
  <2>3. InHands' = InHands
    BY <2>1, SameHands DEF InHand
  <2>4. QED
    BY <1>1, <2>2, <2>3
<1>3. ASSUME NEW t \in Producers, ProducerStep(t)
      PROVE  [Channel!Next]_Channel!bbVars
  <2>1. t \in Threads /\ t \notin Consumers
    BY ThreadFacts
  <2>2. CASE ProducerWakes(t)
    <3>1. /\ pc[t] = "sleep" /\ pc' = [pc EXCEPT ![t] = "wait"]
          /\ UNCHANGED shared
      BY <2>2 DEF ProducerWakes, Goto
    <3>2. PICK x \in Items : item' = [item EXCEPT ![t] = x]
      BY <2>2 DEF ProducerWakes
    <3>3. InBuffer' = InBuffer
      BY <3>1, SameQueue, ThreadFacts DEF IInv, TypeOK
    <3>4. InHands[t] = Blank /\ InHands' = [InHands EXCEPT ![t] = x]
      BY <2>1, <3>1, <3>2 DEF InHands, InHand, IInv, TypeOK
    <3>5. Channel!Produce(t)
      BY <3>3, <3>4 DEF Channel!Produce
    <3>6. QED
      BY <3>5 DEF Channel!Next
  <2>3. CASE WaitEmpty(t) \/ Lock(t) \/ AdvanceRear(t) \/ PostFull(t)
    <3>1. InBuffer' = InBuffer
      <4>1. CASE AdvanceRear(t)
        <5>1. /\ pc[t] = "critical" /\ ~ Ring!IsFull(front, rear)
              /\ pc' = [pc EXCEPT ![t] = "store"]
              /\ rear' = Ring!Succ(rear) /\ UNCHANGED <<buffer, front>>
          BY <2>1, <4>1, RoomInside DEF AdvanceRear, Goto, Holding, Inserted, Removing
        <5>2. \A u \in Threads \ {t} : pc[u] \notin {"critical", "store", "load"}
          BY <2>1, <5>1, LogicalIndices
        <5>3. LogicalFront' = front' /\ LogicalRear' = Pred(rear')
          BY <2>1, <5>1, <5>2, ThreadFacts DEF LogicalFront, LogicalRear, Pred, IInv, TypeOK
        <5>4. LogicalFront = front /\ LogicalRear = rear
          BY <2>1, <5>1, <5>2, ThreadFacts DEF LogicalFront, LogicalRear
        <5>5. Pred(rear') = rear
          BY <5>1, PredFacts DEF IInv, TypeOK
        <5>6. QED
          BY <5>1, <5>3, <5>4, <5>5 DEF InBuffer
      <4>2. CASE WaitEmpty(t) \/ Lock(t) \/ PostFull(t)
        BY <2>1, <4>2, SameQueue, ThreadFacts
        DEF WaitEmpty, Lock, PostFull, Goto, IInv, TypeOK
      <4>3. QED
        BY <2>3, <4>1, <4>2
    <3>2. InHands' = InHands
      <4>1. NoErrorReported'
        BY DEF IInv
      <4>2. QED
        BY <2>1, <2>3, <4>1, SameHands
        DEF WaitEmpty, Lock, AdvanceRear, PostFull, Goto, InHand, IInv, TypeOK, NoErrorReported
    <3>3. QED
      BY <1>1, <3>1, <3>2
  <2>4. CASE StoreItem(t)
    BY <2>4, StoreIsPut DEF Channel!Next
  <2>5. CASE Report(t) \/ EndCancelled(t)
    <3>1. [Channel!LetGo(t)]_Channel!bbVars
      BY <2>1, <2>5, LetGoOrStay DEF Report, EndCancelled, CancellationPoints
    <3>2. QED
      BY <3>1 DEF Channel!Next
  <2>6. QED
    BY <1>3, <2>2, <2>3, <2>4, <2>5 DEF ProducerStep
<1>4. ASSUME NEW t \in Consumers, ConsumerStep(t)
      PROVE  [Channel!Next]_Channel!bbVars
  <2>1. t \in Threads /\ t \notin Producers
    BY ThreadFacts
  <2>2. CASE ConsumerWakes(t) \/ WaitFull(t) \/ Lock(t) \/ AdvanceFront(t) \/ PostEmpty(t)
    <3>1. InBuffer' = InBuffer
      <4>1. CASE AdvanceFront(t)
        <5>1. /\ pc[t] = "critical" /\ ~ Ring!IsEmpty(front, rear)
              /\ pc' = [pc EXCEPT ![t] = "load"]
              /\ front' = Ring!Succ(front) /\ UNCHANGED <<buffer, rear>>
          BY <2>1, <4>1, ItemInside DEF AdvanceFront, Goto, Removing
        <5>2. \A u \in Threads \ {t} : pc[u] \notin {"critical", "store", "load"}
          BY <2>1, <5>1, LogicalIndices
        <5>3. LogicalFront' = Pred(front') /\ LogicalRear' = rear'
          BY <2>1, <5>1, <5>2, ThreadFacts DEF LogicalFront, LogicalRear, Pred, IInv, TypeOK
        <5>4. LogicalFront = front /\ LogicalRear = rear
          BY <2>1, <5>1, <5>2, ThreadFacts DEF LogicalFront, LogicalRear
        <5>5. Pred(front') = front
          BY <5>1, PredFacts DEF IInv, TypeOK
        <5>6. QED
          BY <5>1, <5>3, <5>4, <5>5 DEF InBuffer
      <4>2. CASE ConsumerWakes(t) \/ WaitFull(t) \/ Lock(t) \/ PostEmpty(t)
        BY <2>1, <4>2, SameQueue, ThreadFacts
        DEF ConsumerWakes, WaitFull, Lock, PostEmpty, Goto, IInv, TypeOK
      <4>3. QED
        BY <2>2, <4>1, <4>2
    <3>2. InHands' = InHands
      <4>1. NoErrorReported'
        BY DEF IInv
      <4>2. QED
        BY <2>1, <2>2, <4>1, SameHands
        DEF ConsumerWakes, WaitFull, Lock, AdvanceFront, PostEmpty, Goto, InHand, IInv, TypeOK,
            NoErrorReported
    <3>3. QED
      BY <1>1, <3>1, <3>2
  <2>3. CASE LoadItem(t)
    BY <2>3, LoadIsTake DEF Channel!Next
  <2>4. CASE Report(t) \/ EndCancelled(t)
    <3>1. [Channel!LetGo(t)]_Channel!bbVars
      BY <2>1, <2>4, LetGoOrStay DEF Report, EndCancelled, CancellationPoints
    <3>2. QED
      BY <3>1 DEF Channel!Next
  <2>5. QED
    BY <1>4, <2>2, <2>3, <2>4 DEF ConsumerStep
<1>5. CASE UNCHANGED vars
  <2>1. InBuffer' = InBuffer
    BY <1>5, SameQueue DEF vars
  <2>2. InHands' = InHands
    BY <1>5, SameHands DEF vars, InHand
  <2>3. QED
    BY <1>1, <2>1, <2>2
<1>6. QED
  BY <1>2, <1>3, <1>4, <1>5 DEF Next, Terminated

(***************************************************************************)
(* The threads implement the bounded first-in first-out channel: whatever  *)
(* the interleaving and whoever is cancelled, items leave the buffer once, *)
(* in the order they were stored (buffer.c:81-122).                        *)
(***************************************************************************)
THEOREM ChannelImplemented == Spec => ImplementsChannel
<1>1. Init => Channel!Init /\ Carrying
  <2> SUFFICES ASSUME Init PROVE Channel!Init /\ Carrying
    OBVIOUS
  <2>1. InBuffer = << >>
    <3>1. LogicalFront = 0 /\ LogicalRear = 0
      BY ThreadFacts DEF Init, LogicalFront, LogicalRear
    <3>2. 0 \in Ring!Slots /\ buffer \in [Ring!Slots -> {Blank}]
      BY RingSize DEF Init, Ring!Slots
    <3>3. Ring!Contents(buffer, 0, 0) \in Seq({Blank})
      BY <3>2, ContentsSeq
    <3>4. InBuffer \in Seq({Blank}) /\ Len(InBuffer) = Ring!Occupancy(0, 0)
      BY <3>1, <3>2, <3>3, ContentsLen DEF InBuffer
    <3>5. Ring!Occupancy(0, 0) = 0
      BY DEF Ring!Occupancy
    <3>6. QED
      BY <3>4, <3>5, EmptySeq
  <2>2. InHands = [t \in Threads |-> Blank]
    BY DEF Init, InHands
  <2>3. Carrying
    BY ThreadFacts DEF Init, Carrying, InHand
  <2>4. QED
    BY <2>1, <2>2, <2>3, ThreadFacts DEF Channel!Init
<1>2. IInv /\ Carrying /\ [Next]_vars => Carrying'
  BY CarryingInv
<1>3. IInv /\ IInv' /\ Carrying /\ [Next]_vars => [Channel!Next]_Channel!bbVars
  BY ChannelStep
<1>4. QED
  BY <1>1, <1>2, <1>3, Invariance, PTL DEF Spec, ImplementsChannel, Channel!Spec

=============================================================================
