--------------------------- MODULE ThreadPoolProofs ---------------------------
(***************************************************************************)
(* Project5/threadPool for every queue size and every number of workers and*)
(* tasks: the inductive invariant IInv, and what follows.                  *)
(***************************************************************************)
EXTENDS ThreadPool, FiniteSetTheorems, FunctionTheorems, SequenceTheorems, TLAPS

-----------------------------------------------------------------------------
(***************************************************************************)
(* The circular array: what one step of an index does to the number of     *)
(* elements and to their sequence.                                         *)
(***************************************************************************)
LEMMA RingSize == QUEUE_SIZE \in Nat \ {0}
BY PoolAssumption

\* Taking the remainder only matters at the last slot.
LEMMA SuccValue ==
  ASSUME NEW s \in Ring!Slots
  PROVE  /\ Ring!Succ(s) = IF s = QUEUE_SIZE THEN 0 ELSE s + 1
         /\ Ring!Succ(s) \in Ring!Slots
<1> USE RingSize
<1>1. (s + 1) % (QUEUE_SIZE + 1) = IF s = QUEUE_SIZE THEN 0 ELSE s + 1
  BY DEF Ring!Slots
<1>2. QED
  BY <1>1 DEF Ring!Succ, Ring!Slots

\* Adding a distance within the ring wraps around at most once.
LEMMA WrapValue ==
  ASSUME NEW a \in Ring!Slots, NEW b \in Ring!Slots
  PROVE  (a + b) % (QUEUE_SIZE + 1)
           = IF a + b <= QUEUE_SIZE THEN a + b ELSE a + b - (QUEUE_SIZE + 1)
BY RingSize DEF Ring!Slots

\* The two tests of the code say whether the ring holds nothing or QUEUE_SIZE elements.
LEMMA OccupancyRange ==
  ASSUME NEW f \in Ring!Slots, NEW r \in Ring!Slots
  PROVE  /\ Ring!Occupancy(f, r) \in 0 .. QUEUE_SIZE
         /\ Ring!Occupancy(f, r) = 0 <=> Ring!IsEmpty(f, r)
         /\ Ring!Occupancy(f, r) = QUEUE_SIZE <=> Ring!IsFull(f, r)
<1> USE RingSize
<1>1. Ring!Succ(r) = IF r = QUEUE_SIZE THEN 0 ELSE r + 1
  BY SuccValue
<1>2. QED
  BY <1>1 DEF Ring!Occupancy, Ring!IsEmpty, Ring!IsFull, Ring!Slots

\* Moving rear adds an element, unless the ring was full.
LEMMA OccupancyAfterPut ==
  ASSUME NEW f \in Ring!Slots, NEW r \in Ring!Slots, ~ Ring!IsFull(f, r)
  PROVE  Ring!Occupancy(f, Ring!Succ(r)) = Ring!Occupancy(f, r) + 1
<1> USE RingSize
<1>1. Ring!Succ(r) = IF r = QUEUE_SIZE THEN 0 ELSE r + 1
  BY SuccValue
<1>2. QED
  BY <1>1 DEF Ring!Occupancy, Ring!IsFull, Ring!Slots

\* Moving front removes one, unless it was empty.
LEMMA OccupancyAfterTake ==
  ASSUME NEW f \in Ring!Slots, NEW r \in Ring!Slots, ~ Ring!IsEmpty(f, r)
  PROVE  Ring!Occupancy(Ring!Succ(f), r) = Ring!Occupancy(f, r) - 1
<1> USE RingSize
<1>1. Ring!Succ(f) = IF f = QUEUE_SIZE THEN 0 ELSE f + 1
  BY SuccValue
<1>2. QED
  BY <1>1 DEF Ring!Occupancy, Ring!IsEmpty, Ring!Slots

\* The slot before s.
Pred(s) == (s + QUEUE_SIZE) % (QUEUE_SIZE + 1)

\* Going back one slot and on again, or on and back, leads to the same slot.
LEMMA PredFacts ==
  ASSUME NEW s \in Ring!Slots
  PROVE  Pred(s) \in Ring!Slots /\ Ring!Succ(Pred(s)) = s /\ Pred(Ring!Succ(s)) = s
<1> USE RingSize
<1>1. \A k \in Ring!Slots : Pred(k) = IF k = 0 THEN QUEUE_SIZE ELSE k - 1
  <2> TAKE k \in Ring!Slots
  <2>1. (k + QUEUE_SIZE) % (QUEUE_SIZE + 1)
          = IF k + QUEUE_SIZE <= QUEUE_SIZE THEN k + QUEUE_SIZE ELSE k + QUEUE_SIZE - (QUEUE_SIZE + 1)
    BY WrapValue DEF Ring!Slots
  <2>2. QED
    BY <2>1 DEF Pred, Ring!Slots
<1>2. Pred(s) \in Ring!Slots
  BY <1>1 DEF Ring!Slots
<1>3. /\ Ring!Succ(Pred(s)) = IF Pred(s) = QUEUE_SIZE THEN 0 ELSE Pred(s) + 1
      /\ Ring!Succ(s) = IF s = QUEUE_SIZE THEN 0 ELSE s + 1
      /\ Ring!Succ(s) \in Ring!Slots
  BY <1>2, SuccValue
<1>4. QED
  BY <1>1, <1>2, <1>3 DEF Ring!Slots

\* Where the k-th element lies.
LEMMA IndexInRing ==
  ASSUME NEW f \in Ring!Slots, NEW r \in Ring!Slots,
         NEW k \in 1 .. Ring!Occupancy(f, r)
  PROVE  (f + k) % (QUEUE_SIZE + 1) \in Ring!Slots
<1> USE RingSize
<1>1. Ring!Occupancy(f, r) \in 0 .. QUEUE_SIZE
  BY OccupancyRange
<1>2. k \in Ring!Slots
  BY <1>1 DEF Ring!Slots
<1>3. (f + k) % (QUEUE_SIZE + 1) = IF f + k <= QUEUE_SIZE THEN f + k ELSE f + k - (QUEUE_SIZE + 1)
  BY <1>2, WrapValue
<1>4. QED
  BY <1>2, <1>3 DEF Ring!Slots

\* The contents are a sequence, as long as the occupancy says.
LEMMA ContentsSeq ==
  ASSUME NEW S, NEW slots \in [Ring!Slots -> S],
         NEW f \in Ring!Slots, NEW r \in Ring!Slots
  PROVE  Ring!Contents(slots, f, r) \in Seq(S)
<1> USE RingSize
<1>1. Ring!Occupancy(f, r) \in Nat
  BY OccupancyRange
<1>2. QED
  BY <1>1, IndexInRing DEF Ring!Contents

\* There are as many of them as the occupancy says.
LEMMA ContentsLen ==
  ASSUME NEW slots, NEW f \in Ring!Slots, NEW r \in Ring!Slots
  PROVE  Len(Ring!Contents(slots, f, r)) = Ring!Occupancy(f, r)
<1> USE RingSize
<1>1. Ring!Occupancy(f, r) \in Nat
  BY OccupancyRange
<1>2. QED
  BY <1>1 DEF Ring!Contents

\* The k-th element is the one in the k-th slot after front.
LEMMA ContentsAt ==
  ASSUME NEW slots, NEW f, NEW r, NEW k \in 1 .. Ring!Occupancy(f, r)
  PROVE  Ring!Contents(slots, f, r)[k] = slots[(f + k) % (QUEUE_SIZE + 1)]
BY RingSize DEF Ring!Contents

\* Moving rear and storing there appends to the contents.
LEMMA ContentsAfterPut ==
  ASSUME NEW S, NEW slots \in [Ring!Slots -> S], NEW x \in S,
         NEW f \in Ring!Slots, NEW r \in Ring!Slots, ~ Ring!IsFull(f, r)
  PROVE  Ring!Contents([slots EXCEPT ![Ring!Succ(r)] = x], f, Ring!Succ(r))
           = Append(Ring!Contents(slots, f, r), x)
<1> USE RingSize
<1> DEFINE n     == Ring!Occupancy(f, r)
           new   == [slots EXCEPT ![Ring!Succ(r)] = x]
<1>1. /\ n \in 0 .. QUEUE_SIZE /\ n # QUEUE_SIZE
      /\ Ring!Succ(r) \in Ring!Slots /\ Ring!Succ(r) = IF r = QUEUE_SIZE THEN 0 ELSE r + 1
      /\ Ring!Occupancy(f, Ring!Succ(r)) = n + 1
      /\ new \in [Ring!Slots -> S]
  BY OccupancyRange, SuccValue, OccupancyAfterPut
<1>2. \A k \in 1 .. n + 1 :
        (f + k) % (QUEUE_SIZE + 1) = IF f + k <= QUEUE_SIZE THEN f + k ELSE f + k - (QUEUE_SIZE + 1)
  <2> TAKE k \in 1 .. n + 1
  <2>1. k \in Ring!Slots
    BY <1>1 DEF Ring!Slots
  <2>2. QED
    BY <2>1, WrapValue
<1>3. (f + (n + 1)) % (QUEUE_SIZE + 1) = Ring!Succ(r)
  <2>1. f \in 0 .. QUEUE_SIZE /\ r \in 0 .. QUEUE_SIZE /\ n + 1 \in 1 .. n + 1
    BY <1>1 DEF Ring!Slots
  <2>2. n = IF f <= r THEN r - f ELSE r - f + QUEUE_SIZE + 1
    BY DEF Ring!Occupancy
  <2> HIDE DEF n
  <2>3. IF f + (n + 1) <= QUEUE_SIZE THEN f + (n + 1) = Ring!Succ(r)
        ELSE f + (n + 1) - (QUEUE_SIZE + 1) = Ring!Succ(r)
    BY <1>1, <2>1, <2>2
  <2>4. QED
    BY <1>2, <2>1, <2>3
<1>4. \A k \in 1 .. n : (f + k) % (QUEUE_SIZE + 1) # Ring!Succ(r) /\ (f + k) % (QUEUE_SIZE + 1) \in Ring!Slots
  BY <1>1, <1>2 DEF Ring!Occupancy, Ring!Slots
<1>5. \A k \in 1 .. n : new[(f + k) % (QUEUE_SIZE + 1)] = slots[(f + k) % (QUEUE_SIZE + 1)]
  BY <1>1, <1>4
<1>6. new[(f + (n + 1)) % (QUEUE_SIZE + 1)] = x
  BY <1>1, <1>3
<1>7. /\ Ring!Contents(slots, f, r) \in Seq(S)
      /\ Len(Ring!Contents(slots, f, r)) = n
      /\ \A k \in 1 .. n : Ring!Contents(slots, f, r)[k] = slots[(f + k) % (QUEUE_SIZE + 1)]
  BY ContentsSeq, ContentsLen, ContentsAt
<1> HIDE DEF new
<1>8. /\ Ring!Contents(new, f, Ring!Succ(r)) \in Seq(S)
      /\ Len(Ring!Contents(new, f, Ring!Succ(r))) = n + 1
      /\ \A k \in 1 .. n + 1 : Ring!Contents(new, f, Ring!Succ(r))[k] = new[(f + k) % (QUEUE_SIZE + 1)]
  BY <1>1, ContentsSeq, ContentsLen, ContentsAt
<1>9. Append(Ring!Contents(slots, f, r), x) \in Seq(S)
      /\ Len(Append(Ring!Contents(slots, f, r), x)) = n + 1
      /\ \A k \in 1 .. n : Append(Ring!Contents(slots, f, r), x)[k] = Ring!Contents(slots, f, r)[k]
      /\ Append(Ring!Contents(slots, f, r), x)[n + 1] = x
  BY <1>1, <1>7, AppendProperties
<1>10. \A k \in 1 .. n + 1 :
         Ring!Contents(new, f, Ring!Succ(r))[k] = Append(Ring!Contents(slots, f, r), x)[k]
  <2> TAKE k \in 1 .. n + 1
  <2>1. CASE k = n + 1
    BY <1>1, <1>6, <1>8, <1>9, <2>1
  <2>2. CASE k # n + 1
    <3>1. k \in 1 .. n
      BY <1>1, <2>2
    <3>2. QED
      BY <1>5, <1>7, <1>8, <1>9, <3>1
  <2>3. QED
    BY <2>1, <2>2
<1>11. QED
  BY <1>8, <1>9, <1>10, SeqEqual DEF new

\* Moving front and loading there takes the head of the contents.
LEMMA ContentsAfterTake ==
  ASSUME NEW S, NEW slots \in [Ring!Slots -> S],
         NEW f \in Ring!Slots, NEW r \in Ring!Slots, ~ Ring!IsEmpty(f, r)
  PROVE  /\ Ring!Contents(slots, f, r) # << >>
         /\ slots[Ring!Succ(f)] = Head(Ring!Contents(slots, f, r))
         /\ Ring!Contents(slots, Ring!Succ(f), r) = Tail(Ring!Contents(slots, f, r))
<1> USE RingSize
<1> DEFINE n    == Ring!Occupancy(f, r)
           old  == Ring!Contents(slots, f, r)
           rest == Ring!Contents(slots, Ring!Succ(f), r)
<1>1. /\ n \in 1 .. QUEUE_SIZE
      /\ Ring!Succ(f) \in Ring!Slots /\ Ring!Succ(f) = IF f = QUEUE_SIZE THEN 0 ELSE f + 1
      /\ Ring!Occupancy(Ring!Succ(f), r) = n - 1
  BY OccupancyRange, SuccValue, OccupancyAfterTake
<1>2. /\ old \in Seq(S) /\ Len(old) = n
      /\ \A k \in 1 .. n : old[k] = slots[(f + k) % (QUEUE_SIZE + 1)]
  BY ContentsSeq, ContentsLen, ContentsAt
<1>3. /\ rest \in Seq(S) /\ Len(rest) = n - 1
      /\ \A k \in 1 .. n - 1 : rest[k] = slots[(Ring!Succ(f) + k) % (QUEUE_SIZE + 1)]
  BY <1>1, ContentsSeq, ContentsLen, ContentsAt
<1>4. \A k \in 1 .. n - 1 : (Ring!Succ(f) + k) % (QUEUE_SIZE + 1) = (f + (k + 1)) % (QUEUE_SIZE + 1)
  <2> TAKE k \in 1 .. n - 1
  <2>1. k \in Ring!Slots /\ k + 1 \in Ring!Slots
    BY <1>1 DEF Ring!Slots
  <2>2. /\ (Ring!Succ(f) + k) % (QUEUE_SIZE + 1)
             = IF Ring!Succ(f) + k <= QUEUE_SIZE THEN Ring!Succ(f) + k ELSE Ring!Succ(f) + k - (QUEUE_SIZE + 1)
        /\ (f + (k + 1)) % (QUEUE_SIZE + 1)
             = IF f + (k + 1) <= QUEUE_SIZE THEN f + (k + 1) ELSE f + (k + 1) - (QUEUE_SIZE + 1)
    BY <1>1, <2>1, WrapValue
  <2>3. QED
    BY <1>1, <2>1, <2>2 DEF Ring!Slots
<1>5. /\ old # << >>
      /\ Head(old) = old[1]
      /\ Tail(old) \in Seq(S) /\ Len(Tail(old)) = n - 1
      /\ \A k \in 1 .. n - 1 : Tail(old)[k] = old[k + 1]
  BY <1>1, <1>2, HeadTailProperties, EmptySeq
<1> HIDE DEF old, rest, n
<1>6. \A k \in 1 .. n - 1 : rest[k] = Tail(old)[k]
  <2> TAKE k \in 1 .. n - 1
  <2>1. k + 1 \in 1 .. n
    BY <1>1
  <2>2. old[k + 1] = slots[(f + (k + 1)) % (QUEUE_SIZE + 1)]
    BY <1>2, <2>1
  <2>3. rest[k] = slots[(f + (k + 1)) % (QUEUE_SIZE + 1)]
    BY <1>3, <1>4
  <2>4. QED
    BY <1>5, <2>2, <2>3
<1>7. old[1] = slots[Ring!Succ(f)]
  BY <1>1, <1>2 DEF Ring!Succ
<1>8. rest = Tail(old)
  BY <1>3, <1>5, <1>6, SeqEqual
<1>9. QED
  BY <1>5, <1>7, <1>8 DEF old, rest

\* All about the number of elements that the proofs below cite.
LEMMA RingFacts ==
  ASSUME NEW f \in Ring!Slots, NEW r \in Ring!Slots
  PROVE  /\ Ring!Succ(r) \in Ring!Slots
         /\ Ring!Occupancy(f, r) \in 0 .. QUEUE_SIZE
         /\ Ring!Occupancy(f, r) = 0 <=> Ring!IsEmpty(f, r)
         /\ Ring!Occupancy(f, r) = QUEUE_SIZE <=> Ring!IsFull(f, r)
         /\ ~ Ring!IsFull(f, r)
              => Ring!Occupancy(f, Ring!Succ(r)) = Ring!Occupancy(f, r) + 1
         /\ ~ Ring!IsEmpty(f, r)
              => Ring!Occupancy(Ring!Succ(f), r) = Ring!Occupancy(f, r) - 1
BY SuccValue, OccupancyRange, OccupancyAfterPut, OccupancyAfterTake

-----------------------------------------------------------------------------
\* Workers are numbered by integers; the client is none of them.
LEMMA WorkerFacts ==
  /\ Workers \subseteq Nat /\ IsFiniteSet(Workers)
  /\ Main \notin Workers /\ Nobody \notin Workers /\ Main # Nobody
  /\ NUMBER_OF_THREADS \in Nat /\ WorkNumber \in Nat
<1>1. IsFiniteSet(0 .. NUMBER_OF_THREADS - 1)
  BY PoolAssumption, FS_Interval
<1>2. QED
  BY <1>1, PoolAssumption DEF Workers, Main, Nobody

\* A set of workers grows or shrinks by one worker at a time.
LEMMA CountOne ==
  ASSUME NEW S \in SUBSET Workers, NEW w \in Workers
  PROVE  /\ Cardinality(S) \in Nat
         /\ w \notin S => Cardinality(S \cup {w}) = Cardinality(S) + 1
         /\ w \in S => Cardinality(S \ {w}) = Cardinality(S) - 1
<1>1. IsFiniteSet(S)
  BY WorkerFacts, FS_Subset
<1>2. QED
  BY <1>1, FS_CardinalityType, FS_AddElement, FS_RemoveElement

\* What the invariants count is counted by natural numbers.
LEMMA CountedSets ==
  /\ Holding \in SUBSET Workers /\ Removing \in SUBSET Holding
  /\ Removing \in SUBSET Workers
  /\ Cardinality(Holding) \in Nat /\ Cardinality(Removing) \in Nat
  /\ Cardinality(Removing) <= Cardinality(Holding)
  /\ Inserted \in {0, 1} /\ MainHolds \in {0, 1} /\ Inserted <= MainHolds
<1>1. /\ Holding \in SUBSET Workers /\ Removing \in SUBSET Holding
      /\ Inserted \in {0, 1} /\ MainHolds \in {0, 1} /\ Inserted <= MainHolds
  BY DEF Holding, Removing, Inserted, MainHolds
<1>2. IsFiniteSet(Holding) /\ IsFiniteSet(Removing)
  BY <1>1, WorkerFacts, FS_Subset
<1>3. QED
  BY <1>1, <1>2, FS_Subset, FS_CardinalityType

(***************************************************************************)
(* The check of enqueue always succeeds: the client holds a token for which*)
(* nothing is in the ring yet.                                             *)
(***************************************************************************)
LEMMA RoomInside ==
  ASSUME IInv, mainPc = "critical"
  PROVE  ~ Ring!IsFull(queueFront, queueRear)
<1>1. Inserted = 0 /\ MainHolds = 1
  BY DEF Inserted, MainHolds
<1>2. /\ empty + full + Cardinality(Holding) + MainHolds = QUEUE_SIZE
      /\ Ring!Occupancy(queueFront, queueRear) = full + Inserted + Cardinality(Removing)
      /\ empty \in Nat /\ full \in Nat
  BY DEF IInv, SemaphoresCountQueue, TypeOK
<1>3. Ring!Occupancy(queueFront, queueRear) # QUEUE_SIZE
  BY <1>1, <1>2, CountedSets, PoolAssumption
<1>4. QED
  BY <1>3, RingFacts DEF IInv, TypeOK

\* A worker in dequeue finds a task: its own token stands for one.
LEMMA TaskInside ==
  ASSUME IInv, NEW w \in Workers, pc[w] = "critical"
  PROVE  ~ Ring!IsEmpty(queueFront, queueRear)
<1>1. w \in Removing
  BY DEF Removing
<1>2. Cardinality(Removing) # 0
  <2>1. Removing \ {w} \in SUBSET Workers
    BY CountedSets
  <2>2. Cardinality(Removing \ {w}) \in Nat
    BY <2>1, CountOne
  <2>3. Cardinality(Removing \ {w}) = Cardinality(Removing) - 1
    BY <1>1, CountedSets, CountOne
  <2>4. QED
    BY <2>2, <2>3, CountedSets
<1>3. Ring!Occupancy(queueFront, queueRear) # 0
  BY <1>2, CountedSets DEF IInv, TypeOK, SemaphoresCountQueue
<1>4. QED
  BY <1>3, RingFacts DEF IInv, TypeOK

-----------------------------------------------------------------------------
\* What every step of a worker has in common.
LEMMA WorkerMoves ==
  ASSUME IInv, NEW w \in Workers, NEW from, NEW to \in WorkerStates \ {"none"},
         from \notin {"none", "exited"}, Goto(w, from, to), UNCHANGED mainVars
  PROVE  /\ pc' \in [Workers -> WorkerStates]
         /\ pc[w] = from /\ pc'[w] = to /\ \A v \in Workers \ {w} : pc'[v] = pc[v]
         /\ mainPc \notin {"init", "done"}
         /\ MainHolds' = MainHolds /\ Inserted' = Inserted
         /\ LifeInv'
<1>1. /\ pc' \in [Workers -> WorkerStates]
      /\ pc[w] = from /\ pc'[w] = to /\ \A v \in Workers \ {w} : pc'[v] = pc[v]
  BY DEF IInv, TypeOK, Goto
<1>2. mainPc \notin {"init", "done"}
  BY <1>1 DEF IInv, LifeInv
<1>3. mainPc' = mainPc /\ i' = i /\ live' = live
  BY DEF mainVars
<1>4. \A v \in Workers : /\ pc'[v] = "none" <=> pc[v] = "none"
                         /\ pc[v] = "exited" => pc'[v] = "exited"
  BY <1>1
<1>5. LifeInv'
  BY <1>2, <1>3, <1>4 DEF IInv, LifeInv
<1>6. QED
  BY <1>1, <1>2, <1>3, <1>5 DEF MainHolds, Inserted

\* sem_wait(&full).
LEMMA WaitFullStep ==
  ASSUME IInv, NEW w \in Workers, WaitFull(w)
  PROVE  IInv'
<1>1. /\ pc' \in [Workers -> WorkerStates]
      /\ pc[w] = "wait" /\ pc'[w] = "lock" /\ \A v \in Workers \ {w} : pc'[v] = pc[v]
      /\ mainPc \notin {"init", "done"} /\ LifeInv'
      /\ MainHolds' = MainHolds /\ Inserted' = Inserted
  BY WorkerMoves DEF WaitFull, WorkerStates
<1>2. /\ Holding' = Holding \cup {w} /\ w \notin Holding
      /\ Removing' = Removing \cup {w} /\ w \notin Removing
  BY <1>1 DEF Holding, Removing
<1>3. /\ Cardinality(Holding') = Cardinality(Holding) + 1
      /\ Cardinality(Removing') = Cardinality(Removing) + 1
  BY <1>2, CountedSets, CountOne
<1>4. TypeOK'
  BY <1>1 DEF IInv, TypeOK, WaitFull, queueVars, mainVars
<1>5. MutexInv'
  BY <1>1 DEF IInv, MutexInv, WaitFull, mainVars
<1>6. SemaphoresCountQueue'
  BY <1>1, <1>3, CountedSets
  DEF IInv, TypeOK, SemaphoresCountQueue, WaitFull, queueVars, mainVars
<1>7. QED
  BY <1>1, <1>4, <1>5, <1>6 DEF IInv

\* pthread_mutex_lock in dequeue.
LEMMA LockDequeueStep ==
  ASSUME IInv, NEW w \in Workers, LockDequeue(w)
  PROVE  IInv'
<1>1. /\ pc' \in [Workers -> WorkerStates]
      /\ pc[w] = "lock" /\ pc'[w] = "critical" /\ \A v \in Workers \ {w} : pc'[v] = pc[v]
      /\ LifeInv' /\ MainHolds' = MainHolds /\ Inserted' = Inserted
  BY WorkerMoves DEF LockDequeue, WorkerStates
<1>2. Holding' = Holding /\ Removing' = Removing
  BY <1>1 DEF Holding, Removing
<1>3. TypeOK'
  BY <1>1 DEF IInv, TypeOK, LockDequeue, queueVars, mainVars
<1>4. MutexInv'
  BY <1>1, WorkerFacts DEF IInv, MutexInv, LockDequeue, mainVars
<1>5. SemaphoresCountQueue'
  BY <1>1, <1>2 DEF IInv, SemaphoresCountQueue, LockDequeue, queueVars, mainVars
<1>6. QED
  BY <1>1, <1>3, <1>4, <1>5 DEF IInv

\* The new front: by TaskInside there is a task.
LEMMA AdvanceFrontStep ==
  ASSUME IInv, NEW w \in Workers, AdvanceFront(w)
  PROVE  IInv'
<1>1. /\ pc' \in [Workers -> WorkerStates]
      /\ pc[w] = "critical" /\ pc'[w] = "load" /\ \A v \in Workers \ {w} : pc'[v] = pc[v]
      /\ LifeInv' /\ MainHolds' = MainHolds /\ Inserted' = Inserted
  BY WorkerMoves DEF AdvanceFront, WorkerStates
<1>2. /\ Holding' = Holding
      /\ Removing' = Removing \ {w} /\ w \in Removing
  BY <1>1 DEF Holding, Removing
<1>3. Cardinality(Removing') = Cardinality(Removing) - 1
  BY <1>2, CountedSets, CountOne
<1>4. /\ queueFront' \in Ring!Slots
      /\ Ring!Occupancy(queueFront', queueRear) = Ring!Occupancy(queueFront, queueRear) - 1
  BY <1>1, TaskInside, RingFacts DEF AdvanceFront, IInv, TypeOK
<1>5. TypeOK'
  BY <1>1, <1>4 DEF IInv, TypeOK, AdvanceFront, sync, mainVars
<1>6. MutexInv'
  BY <1>1 DEF IInv, MutexInv, AdvanceFront, sync, mainVars
<1>7. SemaphoresCountQueue'
  BY <1>1, <1>2, <1>3, <1>4, CountedSets
  DEF IInv, TypeOK, SemaphoresCountQueue, AdvanceFront, sync, mainVars
<1>8. QED
  BY <1>1, <1>5, <1>6, <1>7 DEF IInv

\* The copy of the task, and pthread_mutex_unlock.
LEMMA LoadTaskStep ==
  ASSUME IInv, NEW w \in Workers, LoadTask(w)
  PROVE  IInv'
<1>1. /\ pc' \in [Workers -> WorkerStates]
      /\ pc[w] = "load" /\ pc'[w] = "post" /\ \A v \in Workers \ {w} : pc'[v] = pc[v]
      /\ LifeInv' /\ MainHolds' = MainHolds /\ Inserted' = Inserted
  BY WorkerMoves DEF LoadTask, WorkerStates
<1>2. Holding' = Holding /\ Removing' = Removing
  BY <1>1 DEF Holding, Removing
<1>3. TypeOK'
  BY <1>1 DEF IInv, TypeOK, LoadTask, queueVars, mainVars
<1>4. MutexInv'
  BY <1>1, WorkerFacts DEF IInv, MutexInv, LoadTask, mainVars
<1>5. SemaphoresCountQueue'
  BY <1>1, <1>2 DEF IInv, SemaphoresCountQueue, LoadTask, queueVars, mainVars
<1>6. QED
  BY <1>1, <1>3, <1>4, <1>5 DEF IInv

\* sem_post(&empty).
LEMMA PostEmptyStep ==
  ASSUME IInv, NEW w \in Workers, PostEmpty(w)
  PROVE  IInv'
<1>1. /\ pc' \in [Workers -> WorkerStates]
      /\ pc[w] = "post" /\ pc'[w] = "execute" /\ \A v \in Workers \ {w} : pc'[v] = pc[v]
      /\ LifeInv' /\ MainHolds' = MainHolds /\ Inserted' = Inserted
  BY WorkerMoves DEF PostEmpty, WorkerStates
<1>2. /\ Holding' = Holding \ {w} /\ w \in Holding
      /\ Removing' = Removing
  BY <1>1 DEF Holding, Removing
<1>3. Cardinality(Holding') = Cardinality(Holding) - 1
  BY <1>2, CountedSets, CountOne
<1>4. TypeOK'
  BY <1>1 DEF IInv, TypeOK, PostEmpty, queueVars, mainVars
<1>5. MutexInv'
  BY <1>1 DEF IInv, MutexInv, PostEmpty, mainVars
<1>6. SemaphoresCountQueue'
  BY <1>1, <1>2, <1>3, CountedSets
  DEF IInv, TypeOK, SemaphoresCountQueue, PostEmpty, queueVars, mainVars
<1>7. QED
  BY <1>1, <1>4, <1>5, <1>6 DEF IInv

\* Steps of a worker that touch neither the queue nor its semaphores.
LEMMA OutsideStep ==
  ASSUME IInv, NEW w \in Workers, Execute(w) \/ EndCancelled(w)
  PROVE  IInv'
<1>1. PICK from \in {"wait", "execute"}, to \in {"wait", "exited"} : Goto(w, from, to)
  BY DEF Execute, EndCancelled, CancellationPoints
<1>2. /\ UNCHANGED <<queueVars, sync, mainVars, worktodo>>
      /\ runs' \in [Tasks -> Nat]
  BY DEF Execute, EndCancelled, IInv, TypeOK
<1>3. /\ pc' \in [Workers -> WorkerStates]
      /\ pc[w] = from /\ pc'[w] = to /\ \A v \in Workers \ {w} : pc'[v] = pc[v]
      /\ LifeInv' /\ MainHolds' = MainHolds /\ Inserted' = Inserted
  BY <1>1, <1>2, WorkerMoves DEF WorkerStates
<1>4. Holding' = Holding /\ Removing' = Removing
  BY <1>3 DEF Holding, Removing
<1>5. TypeOK'
  BY <1>2, <1>3 DEF IInv, TypeOK, queueVars, sync, mainVars
<1>6. MutexInv'
  BY <1>2, <1>3 DEF IInv, MutexInv, sync, mainVars
<1>7. SemaphoresCountQueue'
  BY <1>2, <1>3, <1>4 DEF IInv, SemaphoresCountQueue, queueVars, sync, mainVars
<1>8. QED
  BY <1>3, <1>5, <1>6, <1>7 DEF IInv

-----------------------------------------------------------------------------
\* pool_init, and the change from creating to submitting to shutting down.
LEMMA LifecycleStep ==
  ASSUME IInv, \/ PoolInit \/ CreateWorker \/ AllCreated \/ AllSubmitted
               \/ CancelWorker \/ JoinWorker \/ DestroyPool
  PROVE  IInv'
<1> USE DEF MainGoto
<1>1. CASE PoolInit
  <2>1. /\ mainPc = "init" /\ mainPc' = "create" /\ live' = TRUE /\ i' = i /\ i = 0
        /\ full' = 0 /\ empty' = QUEUE_SIZE /\ full = 0
        /\ UNCHANGED <<queueVars, mutex, workerVars, cancelled>>
        /\ \A w \in Workers : pc[w] = "none"
    BY <1>1 DEF PoolInit, IInv, LifeInv
  <2>2. Holding' = {} /\ Removing' = Removing /\ Inserted' = Inserted /\ MainHolds' = 0
    BY <2>1 DEF Holding, Removing, Inserted, MainHolds, workerVars
  <2>3. Cardinality(Holding') = 0
    BY <2>2, FS_EmptySet
  <2>4. TypeOK'
    BY <2>1, PoolAssumption DEF IInv, TypeOK, queueVars, workerVars, MainStates
  <2>5. MutexInv'
    BY <2>1 DEF IInv, MutexInv, workerVars
  <2>6. LifeInv'
    BY <2>1, PoolAssumption DEF LifeInv, Workers, workerVars
  <2>7. SemaphoresCountQueue'
    BY <2>1, <2>2, <2>3, PoolAssumption DEF IInv, SemaphoresCountQueue, queueVars
  <2>8. QED
    BY <2>4, <2>5, <2>6, <2>7 DEF IInv
<1>2. CASE CreateWorker
  <2>1. /\ mainPc = "create" /\ mainPc' = "create" /\ i < NUMBER_OF_THREADS /\ i' = i + 1
        /\ i \in Workers /\ pc[i] = "none" /\ pc' = [pc EXCEPT ![i] = "wait"]
        /\ i' \in 0 .. NUMBER_OF_THREADS
        /\ UNCHANGED <<queueVars, sync, worktodo, runs, live, cancelled>>
    BY <1>2, WorkerFacts DEF CreateWorker, IInv, LifeInv, Workers
  <2>2. Holding' = Holding /\ Removing' = Removing /\ Inserted' = Inserted
        /\ MainHolds' = MainHolds
    BY <2>1 DEF Holding, Removing, Inserted, MainHolds, IInv, TypeOK
  <2>3. TypeOK'
    BY <2>1 DEF IInv, TypeOK, queueVars, sync, WorkerStates
  <2>4. MutexInv'
    BY <2>1 DEF IInv, TypeOK, MutexInv, sync
  <2>5. LifeInv'
    BY <2>1, WorkerFacts DEF IInv, TypeOK, LifeInv
  <2>6. SemaphoresCountQueue'
    BY <2>1, <2>2 DEF IInv, SemaphoresCountQueue, queueVars, sync
  <2>7. QED
    BY <2>3, <2>4, <2>5, <2>6 DEF IInv
<1>3. CASE AllCreated \/ AllSubmitted \/ CancelWorker \/ JoinWorker \/ DestroyPool
  <2>1. /\ mainPc \in {"create", "fill", "cancel", "join"}
        /\ mainPc' \in {"fill", "cancel", "join", "done"}
        /\ UNCHANGED <<queueVars, sync, workerVars>>
        /\ live' \in BOOLEAN
    BY <1>3 DEF AllCreated, AllSubmitted, CancelWorker, JoinWorker, DestroyPool, IInv, TypeOK
  <2>2. cancelled' \in SUBSET Workers
    <3>1. CancelWorker => i \in Workers
      BY WorkerFacts DEF CancelWorker, IInv, LifeInv, Workers
    <3>2. QED
      BY <1>3, <3>1 DEF AllCreated, AllSubmitted, CancelWorker, JoinWorker, DestroyPool, IInv,
                        TypeOK
  <2>3. i' \in 0 .. NUMBER_OF_THREADS \/ i' \in 0 .. WorkNumber
    BY <1>3, WorkerFacts DEF AllCreated, AllSubmitted, CancelWorker, JoinWorker, DestroyPool, IInv,
       TypeOK, LifeInv
  <2>4. LifeInv'
    <3>1. CASE AllCreated \/ AllSubmitted \/ CancelWorker
      BY <3>1, WorkerFacts DEF AllCreated, AllSubmitted, CancelWorker, IInv, LifeInv, Workers, workerVars
    <3>2. CASE JoinWorker
      BY <3>2, WorkerFacts DEF JoinWorker, IInv, LifeInv, Workers, workerVars
    <3>3. CASE DestroyPool
      BY <3>3, WorkerFacts DEF DestroyPool, IInv, LifeInv, Workers, workerVars
    <3>4. QED
      BY <1>3, <3>1, <3>2, <3>3
  <2>5. TypeOK'
    BY <2>1, <2>2, <2>3 DEF IInv, TypeOK, queueVars, sync, workerVars, MainStates
  <2>6. MutexInv'
    BY <2>1 DEF IInv, MutexInv, sync, workerVars
  <2>7. Holding' = Holding /\ Removing' = Removing /\ Inserted' = Inserted
        /\ MainHolds' = MainHolds
    BY <2>1 DEF Holding, Removing, Inserted, MainHolds, workerVars
  <2>8. SemaphoresCountQueue'
    BY <2>1, <2>7 DEF IInv, SemaphoresCountQueue, queueVars, sync
  <2>9. QED
    BY <2>4, <2>5, <2>6, <2>8 DEF IInv
<1>4. QED
  BY <1>1, <1>2, <1>3

\* pool_submit, step by step.
LEMMA SubmitStep ==
  ASSUME IInv, Submit
  PROVE  IInv'
<1> USE DEF MainGoto
<1>1. /\ mainPc \in {"fill", "wait", "lock", "critical", "store", "post"}
      /\ mainPc' \in {"fill", "wait", "lock", "critical", "store", "post"}
      /\ UNCHANGED <<workerVars, live, cancelled>>
      /\ Holding' = Holding /\ Removing' = Removing
      /\ ~ AdvanceRear => i' = i \/ i' = i + 1
  BY DEF Submit, FillWork, WaitEmpty, LockEnqueue, AdvanceRear, StoreTask, PostFull,
         Holding, Removing, workerVars
<1>2. AdvanceRear => /\ mainPc = "critical" /\ mainPc' = "store" /\ i' = i
                     /\ queueRear' = Ring!Succ(queueRear)
                     /\ UNCHANGED <<workQueue, queueFront, sync>>
                     /\ ~ Ring!IsFull(queueFront, queueRear)
  BY RoomInside DEF AdvanceRear, sync
<1>3. /\ mainPc' = "fill" => i' \in 0 .. WorkNumber
      /\ mainPc' # "fill" => i' \in 0 .. WorkNumber - 1
  BY <1>2, WorkerFacts
  DEF Submit, FillWork, WaitEmpty, LockEnqueue, StoreTask, PostFull, IInv, LifeInv
<1>4. LifeInv'
  BY <1>1, <1>3 DEF IInv, LifeInv, workerVars
<1>5. TypeOK'
  <2>1. workQueue' \in [Ring!Slots -> Tasks \cup {NoTask}]
    BY <1>2, WorkerFacts DEF Submit, FillWork, WaitEmpty, LockEnqueue, StoreTask, PostFull,
       IInv, TypeOK, LifeInv, queueVars, Tasks
  <2>2. queueFront' \in Ring!Slots /\ queueRear' \in Ring!Slots
    BY <1>2, RingFacts DEF Submit, FillWork, WaitEmpty, LockEnqueue, StoreTask, PostFull,
       IInv, TypeOK, queueVars
  <2>3. mutex' \in Workers \cup {Main, Nobody} /\ full' \in Nat /\ empty' \in Nat
    BY <1>2 DEF Submit, FillWork, WaitEmpty, LockEnqueue, StoreTask, PostFull,
       IInv, TypeOK, sync
  <2>4. QED
    BY <1>1, <1>3, <2>1, <2>2, <2>3, WorkerFacts DEF IInv, TypeOK, workerVars, MainStates
<1>6. MutexInv'
  BY <1>1, <1>2, WorkerFacts DEF Submit, FillWork, WaitEmpty, LockEnqueue, StoreTask, PostFull,
     IInv, MutexInv, sync, workerVars
<1>7. SemaphoresCountQueue'
  <2>1. CASE AdvanceRear
    <3>1. Ring!Occupancy(queueFront', queueRear') = Ring!Occupancy(queueFront, queueRear) + 1
      BY <1>2, <2>1, RingFacts DEF IInv, TypeOK
    <3>2. Inserted' = Inserted + 1 /\ MainHolds' = MainHolds
      BY <1>2, <2>1 DEF Inserted, MainHolds
    <3>3. QED
      BY <1>1, <1>2, <2>1, <3>1, <3>2, CountedSets DEF IInv, TypeOK, SemaphoresCountQueue, sync
  <2>2. CASE FillWork \/ LockEnqueue \/ StoreTask
    <3>1. Inserted' = Inserted /\ MainHolds' = MainHolds
      BY <2>2 DEF FillWork, LockEnqueue, StoreTask, Inserted, MainHolds
    <3>2. UNCHANGED <<queueFront, queueRear, full, empty>>
      BY <2>2 DEF FillWork, LockEnqueue, StoreTask, queueVars, sync
    <3>3. QED
      BY <1>1, <3>1, <3>2 DEF IInv, SemaphoresCountQueue
  <2>3. CASE WaitEmpty
    <3>1. Inserted' = Inserted /\ MainHolds' = MainHolds + 1
      BY <2>3 DEF WaitEmpty, Inserted, MainHolds
    <3>2. QED
      BY <1>1, <2>3, <3>1, CountedSets
      DEF WaitEmpty, IInv, TypeOK, SemaphoresCountQueue, queueVars
  <2>4. CASE PostFull
    <3>1. Inserted' = Inserted - 1 /\ MainHolds' = MainHolds - 1
      BY <2>4 DEF PostFull, Inserted, MainHolds
    <3>2. QED
      BY <1>1, <2>4, <3>1, CountedSets
      DEF PostFull, IInv, TypeOK, SemaphoresCountQueue, queueVars
  <2>5. QED
    BY <2>1, <2>2, <2>3, <2>4 DEF Submit
<1>8. QED
  BY <1>4, <1>5, <1>6, <1>7 DEF IInv

\* The invariant holds at the start.
LEMMA InitInv == Init => IInv
<1> SUFFICES ASSUME Init PROVE IInv
  OBVIOUS
<1>1. Holding = {} /\ Removing = {} /\ Inserted = 0 /\ MainHolds = 0
  BY DEF Init, Holding, Removing, Inserted, MainHolds
<1>2. Ring!Occupancy(0, 0) = 0 /\ 0 \in Ring!Slots
  BY PoolAssumption DEF Ring!Occupancy, Ring!Slots
<1>3. TypeOK
  <2>1. /\ workQueue \in [Ring!Slots -> Tasks \cup {NoTask}]
        /\ queueFront \in Ring!Slots /\ queueRear \in Ring!Slots
    BY <1>2 DEF Init
  <2>2. /\ pc \in [Workers -> WorkerStates] /\ worktodo \in [Workers -> Tasks \cup {NoTask}]
        /\ runs \in [Tasks -> Nat]
    BY DEF Init, WorkerStates
  <2>3. mainPc \in MainStates /\ i \in 0 .. WorkNumber
    BY WorkerFacts DEF Init, MainStates
  <2>4. QED
    BY <2>1, <2>2, <2>3 DEF Init, TypeOK
<1>4. MutexInv
  BY WorkerFacts DEF Init, MutexInv
<1>5. LifeInv
  BY DEF Init, LifeInv
<1>6. SemaphoresCountQueue
  BY <1>1, <1>2, FS_EmptySet DEF Init, SemaphoresCountQueue
<1>7. QED
  BY <1>3, <1>4, <1>5, <1>6 DEF IInv

\* Every step preserves it.
LEMMA NextInv == IInv /\ [Next]_vars => IInv'
<1> SUFFICES ASSUME IInv, [Next]_vars PROVE IInv'
  OBVIOUS
<1>1. CASE MainStep
  BY <1>1, LifecycleStep, SubmitStep DEF MainStep
<1>2. ASSUME NEW w \in Workers, WorkerStep(w)
      PROVE  IInv'
  BY <1>2, WaitFullStep, LockDequeueStep, AdvanceFrontStep, LoadTaskStep, PostEmptyStep,
     OutsideStep DEF WorkerStep
<1>3. CASE UNCHANGED vars
  BY <1>3 DEF vars, queueVars, sync, workerVars, mainVars, IInv, TypeOK, MutexInv, LifeInv,
              SemaphoresCountQueue, Holding, Removing, Inserted, MainHolds
<1>4. QED
  BY <1>1, <1>2, <1>3 DEF Next, Terminated

-----------------------------------------------------------------------------
(***************************************************************************)
(* The inductive invariant holds in every reachable state (threadpool.c).  *)
(***************************************************************************)
THEOREM Invariance == Spec => []IInv
<1>1. QED
  BY InitInv, NextInv, PTL DEF Spec

(***************************************************************************)
(* The semaphores count what is in the queue, as their comments say        *)
(* (threadpool.c:30-31).                                                   *)
(***************************************************************************)
THEOREM SemaphoresCount == Spec => []SemaphoresCountQueue
<1>1. IInv => SemaphoresCountQueue
  BY DEF IInv
<1>2. QED
  BY <1>1, Invariance, PTL

(***************************************************************************)
(* dequeue needs no check, and that of enqueue never fails                 *)
(* (threadpool.c:45-48, 59-60).                                            *)
(***************************************************************************)
THEOREM SemaphoresGuard == Spec => []SemaphoresGuardQueue
<1>1. IInv => SemaphoresGuardQueue
  BY RoomInside, TaskInside DEF SemaphoresGuardQueue
<1>2. QED
  BY <1>1, Invariance, PTL

(***************************************************************************)
(* Every worker has ended when the pool is destroyed and main returns      *)
(* (threadpool.c:120-126, client.c:41-43).                                 *)
(***************************************************************************)
THEOREM DestroyedUnused == Spec => []NoUseAfterDestroy
<1>1. IInv => NoUseAfterDestroy
  BY DEF IInv, LifeInv, NoUseAfterDestroy
<1>2. QED
  BY <1>1, Invariance, PTL

-----------------------------------------------------------------------------
(***************************************************************************)
(* The refinement.  The queue of the channel is what lies between the      *)
(* logical indices, which are one behind the real ones while a store or a  *)
(* load is on its way.                                                     *)
(***************************************************************************)
Values == Tasks \cup {NoTask}

\* Who is inside: one thread at most, and it may have moved its index ahead.
Inside(w) == pc[w] \in {"critical", "load"}
MainInside == mainPc \in {"critical", "store"}

LEMMA LogicalIndices ==
  ASSUME IInv
  PROVE  /\ LogicalFront = (IF \E w \in Workers : pc[w] = "load" THEN Pred(queueFront) ELSE queueFront)
         /\ LogicalRear = (IF mainPc = "store" THEN Pred(queueRear) ELSE queueRear)
         /\ LogicalFront \in Ring!Slots /\ LogicalRear \in Ring!Slots
         /\ \A v, w \in Workers : Inside(v) /\ Inside(w) => v = w
         /\ MainInside => \A w \in Workers : ~ Inside(w)
<1>1. \A w \in Workers : Inside(w) => mutex = w
  BY DEF IInv, MutexInv, Inside
<1>2. MainInside => mutex = Main
  BY DEF IInv, MutexInv, MainInside
<1>3. queueFront \in Ring!Slots /\ queueRear \in Ring!Slots
  BY DEF IInv, TypeOK
<1>4. QED
  BY <1>1, <1>2, <1>3, PredFacts, WorkerFacts DEF LogicalFront, LogicalRear, Pred

\* A step that moves no index and nobody from or to a store or a load.
LEMMA SameQueue ==
  ASSUME UNCHANGED queueVars,
         mainPc' = "store" <=> mainPc = "store",
         \A w \in Workers : pc'[w] = "load" <=> pc[w] = "load"
  PROVE  InQueue' = InQueue
<1>1. LogicalFront' = LogicalFront /\ LogicalRear' = LogicalRear
  BY DEF LogicalFront, LogicalRear, queueVars
<1>2. QED
  BY <1>1 DEF InQueue, queueVars

\* queueRear moves ahead, but not yet the logical index.
LEMMA RearMovesFirst ==
  ASSUME IInv, AdvanceRear
  PROVE  /\ mainPc = "critical" /\ mainPc' = "store" /\ i' = i
         /\ UNCHANGED <<workQueue, queueFront, sync, workerVars, live, cancelled>>
         /\ InQueue' = InQueue
<1>1. /\ mainPc = "critical" /\ ~ Ring!IsFull(queueFront, queueRear) /\ mainPc' = "store"
      /\ queueRear' = Ring!Succ(queueRear) /\ i' = i
      /\ UNCHANGED <<workQueue, queueFront, sync, workerVars, live, cancelled>>
  BY RoomInside DEF AdvanceRear, MainGoto, sync
<1>2. \A w \in Workers : pc[w] # "load" /\ pc'[w] # "load"
  BY <1>1, LogicalIndices DEF MainInside, Inside, workerVars
<1>3. LogicalFront' = queueFront /\ LogicalRear' = Pred(queueRear')
  BY <1>1, <1>2 DEF LogicalFront, LogicalRear, Pred
<1>4. LogicalFront = queueFront /\ LogicalRear = queueRear
  BY <1>1, <1>2 DEF LogicalFront, LogicalRear
<1>5. Pred(queueRear') = queueRear
  BY <1>1, PredFacts DEF IInv, TypeOK
<1>6. QED
  BY <1>1, <1>3, <1>4, <1>5 DEF InQueue

\* So does queueFront.
LEMMA FrontMovesFirst ==
  ASSUME IInv, NEW w \in Workers, AdvanceFront(w)
  PROVE  InQueue' = InQueue
<1>1. /\ pc[w] = "critical" /\ pc' = [pc EXCEPT ![w] = "load"]
      /\ queueFront' = Ring!Succ(queueFront) /\ UNCHANGED <<workQueue, queueRear, mainPc>>
  BY DEF AdvanceFront, Goto, mainVars
<1>2. mainPc # "store" /\ \A v \in Workers : pc[v] # "load"
  BY <1>1, LogicalIndices DEF MainInside, Inside
<1>3. LogicalFront' = Pred(queueFront') /\ LogicalRear' = queueRear
  BY <1>1, <1>2 DEF LogicalFront, LogicalRear, Pred, IInv, TypeOK
<1>4. LogicalFront = queueFront /\ LogicalRear = queueRear
  BY <1>2 DEF LogicalFront, LogicalRear
<1>5. Pred(queueFront') = queueFront
  BY <1>1, PredFacts DEF IInv, TypeOK
<1>6. QED
  BY <1>1, <1>3, <1>4, <1>5 DEF InQueue

\* The store appends the task to the queue.
LEMMA StoreAppends ==
  ASSUME IInv, StoreTask
  PROVE  /\ InQueue \in Seq(Values) /\ Len(InQueue) < QUEUE_SIZE
         /\ i + 1 \in Tasks /\ InQueue' = Append(InQueue, i + 1)
<1>1. /\ mainPc = "store" /\ mainPc' = "post"
      /\ workQueue' = [workQueue EXCEPT ![queueRear] = i + 1]
      /\ UNCHANGED <<queueFront, queueRear, pc>>
  BY DEF StoreTask, MainGoto, workerVars
<1>2. \A w \in Workers : pc[w] # "load"
  BY <1>1, LogicalIndices DEF MainInside, Inside
<1>3. /\ LogicalFront = queueFront /\ LogicalRear = Pred(queueRear)
      /\ LogicalFront' = queueFront /\ LogicalRear' = queueRear
  BY <1>1, <1>2 DEF LogicalFront, LogicalRear, Pred
<1>4. /\ workQueue \in [Ring!Slots -> Values] /\ i + 1 \in Tasks
      /\ queueFront \in Ring!Slots /\ queueRear \in Ring!Slots /\ i + 1 \in Values
      /\ Pred(queueRear) \in Ring!Slots /\ Ring!Succ(Pred(queueRear)) = queueRear
  BY <1>1, PredFacts, WorkerFacts DEF IInv, TypeOK, LifeInv, Tasks, Values
<1>5. Ring!Occupancy(queueFront, queueRear) # 0
  BY <1>1, CountedSets DEF IInv, TypeOK, SemaphoresCountQueue, Inserted
<1>6. ~ Ring!IsFull(queueFront, Pred(queueRear))
  BY <1>4, <1>5, RingFacts DEF Ring!IsFull, Ring!IsEmpty
<1>7. Ring!Contents([workQueue EXCEPT ![Ring!Succ(Pred(queueRear))] = i + 1],
                    queueFront, Ring!Succ(Pred(queueRear)))
        = Append(Ring!Contents(workQueue, queueFront, Pred(queueRear)), i + 1)
  BY <1>4, <1>6, ContentsAfterPut
<1>8. InQueue' = Append(InQueue, i + 1)
  BY <1>1, <1>3, <1>4, <1>7 DEF InQueue
<1>9. /\ InQueue \in Seq(Values)
      /\ Len(InQueue) = Ring!Occupancy(queueFront, Pred(queueRear))
  BY <1>3, <1>4, ContentsSeq, ContentsLen DEF InQueue
<1>10. Len(InQueue) < QUEUE_SIZE
  BY <1>4, <1>6, <1>9, RingFacts, PoolAssumption
<1>11. QED
  BY <1>4, <1>8, <1>9, <1>10

\* The load takes the first task of the queue.
LEMMA LoadTakes ==
  ASSUME IInv, NEW w \in Workers, LoadTask(w)
  PROVE  /\ InQueue \in Seq(Values) /\ InQueue # << >>
         /\ worktodo' = [worktodo EXCEPT ![w] = Head(InQueue)]
         /\ InQueue' = Tail(InQueue)
<1>1. /\ pc[w] = "load" /\ pc' = [pc EXCEPT ![w] = "post"]
      /\ worktodo' = [worktodo EXCEPT ![w] = workQueue[queueFront]]
      /\ UNCHANGED <<workQueue, queueFront, queueRear, mainPc>>
  BY DEF LoadTask, Goto, queueVars, mainVars
<1>2. mainPc # "store" /\ \A v \in Workers \ {w} : pc[v] # "load"
  BY <1>1, LogicalIndices DEF MainInside, Inside
<1>3. /\ LogicalFront = Pred(queueFront) /\ LogicalRear = queueRear
      /\ LogicalFront' = queueFront /\ LogicalRear' = queueRear
  BY <1>1, <1>2 DEF LogicalFront, LogicalRear, Pred, IInv, TypeOK
<1>4. /\ workQueue \in [Ring!Slots -> Values]
      /\ queueFront \in Ring!Slots /\ queueRear \in Ring!Slots
      /\ Pred(queueFront) \in Ring!Slots /\ Ring!Succ(Pred(queueFront)) = queueFront
  BY PredFacts DEF IInv, TypeOK, Values
<1>5. Ring!Occupancy(queueFront, queueRear) # QUEUE_SIZE
  <2>1. w \in Holding /\ w \notin Removing
    BY <1>1 DEF Holding, Removing
  <2>2. Removing \in SUBSET (Holding \ {w}) /\ IsFiniteSet(Holding \ {w})
    BY <2>1, CountedSets, WorkerFacts, FS_Subset
  <2>3. Cardinality(Removing) <= Cardinality(Holding) - 1
    BY <2>1, <2>2, FS_Subset, CountedSets, CountOne
  <2>4. /\ empty + full + Cardinality(Holding) + MainHolds = QUEUE_SIZE
        /\ Ring!Occupancy(queueFront, queueRear) = full + Inserted + Cardinality(Removing)
        /\ empty \in Nat /\ full \in Nat
    BY <1>1 DEF IInv, SemaphoresCountQueue, TypeOK, LifeInv
  <2>5. QED
    BY <2>3, <2>4, CountedSets, PoolAssumption
<1>6. ~ Ring!IsEmpty(Pred(queueFront), queueRear)
  BY <1>4, <1>5, RingFacts DEF Ring!IsFull, Ring!IsEmpty
<1>7. /\ Ring!Contents(workQueue, Pred(queueFront), queueRear) # << >>
      /\ workQueue[queueFront] = Head(Ring!Contents(workQueue, Pred(queueFront), queueRear))
      /\ Ring!Contents(workQueue, queueFront, queueRear)
           = Tail(Ring!Contents(workQueue, Pred(queueFront), queueRear))
  BY <1>4, <1>6, ContentsAfterTake
<1>8. Ring!Contents(workQueue, Pred(queueFront), queueRear) \in Seq(Values)
  BY <1>4, ContentsSeq, ContentsLen
<1>9. QED
  BY <1>1, <1>3, <1>7, <1>8 DEF InQueue

\* A step after which everyone has in hand what they had before.
LEMMA SameHands ==
  ASSUME mainPc' \in {"wait", "lock", "critical", "store"}
           <=> mainPc \in {"wait", "lock", "critical", "store"},
         mainPc \in {"wait", "lock", "critical", "store"} => i' = i,
         \A w \in Workers : /\ InHand(w)' <=> InHand(w)
                            /\ InHand(w) => worktodo'[w] = worktodo[w]
  PROVE  InHands' = InHands
BY WorkerFacts DEF InHands

\* A worker that is through with its task, or had none in hand.
LEMMA LetGoOrStay ==
  ASSUME IInv, NEW w \in Workers, Execute(w) \/ EndCancelled(w)
  PROVE  [Channel!LetGo(w)]_Channel!bbVars
<1>1. /\ pc[w] \in {"wait", "execute"} /\ pc'[w] \in {"wait", "exited"}
      /\ \A v \in Workers \ {w} : pc'[v] = pc[v]
      /\ UNCHANGED <<queueVars, mainPc, i, worktodo>>
  BY DEF Execute, EndCancelled, CancellationPoints, Goto, mainVars, IInv, TypeOK
<1>2. InQueue' = InQueue
  BY <1>1, SameQueue
<1>3. InHands' = [InHands EXCEPT ![w] = NoTask]
  BY <1>1, WorkerFacts DEF InHands, InHand
<1>4. CASE InHands[w] = NoTask
  BY <1>2, <1>3, <1>4 DEF InHands, Channel!bbVars
<1>5. CASE InHands[w] # NoTask
  BY <1>2, <1>3, <1>5 DEF Channel!LetGo
<1>6. QED
  BY <1>4, <1>5

\* Every step is a step of the channel or leaves it alone.
LEMMA ChannelStep ==
  ASSUME IInv, [Next]_vars
  PROVE  [Channel!Next]_Channel!bbVars
<1>1. ASSUME InQueue' = InQueue, InHands' = InHands
      PROVE  [Channel!Next]_Channel!bbVars
  BY <1>1 DEF Channel!bbVars
<1>2. CASE \/ PoolInit \/ CreateWorker \/ AllCreated \/ AllSubmitted
           \/ CancelWorker \/ JoinWorker \/ DestroyPool
  <2>1. /\ UNCHANGED <<queueVars, worktodo>>
        /\ mainPc \notin {"wait", "lock", "critical", "store"}
        /\ mainPc' \notin {"wait", "lock", "critical", "store"}
        /\ \A w \in Workers : pc'[w] = pc[w] \/ (pc[w] = "none" /\ pc'[w] = "wait")
    BY <1>2, WorkerFacts
    DEF PoolInit, CreateWorker, AllCreated, AllSubmitted, CancelWorker, JoinWorker,
        DestroyPool, MainGoto, workerVars, Workers, IInv, TypeOK, LifeInv
  <2>2. InQueue' = InQueue
    BY <2>1, SameQueue
  <2>3. InHands' = InHands
    BY <2>1, SameHands DEF InHand
  <2>4. QED
    BY <1>1, <2>2, <2>3
<1>3. CASE FillWork
  <2>1. /\ mainPc = "fill" /\ mainPc' = "wait" /\ UNCHANGED <<queueVars, pc, worktodo, i>>
        /\ i + 1 \in Tasks
    BY <1>3, WorkerFacts DEF FillWork, MainGoto, workerVars, IInv, LifeInv, Tasks
  <2>2. InQueue' = InQueue
    BY <2>1, SameQueue
  <2>3. InHands[Main] = NoTask /\ InHands' = [InHands EXCEPT ![Main] = i + 1]
    BY <2>1, WorkerFacts DEF InHands, InHand
  <2>4. Channel!Produce(Main)
    BY <2>1, <2>2, <2>3 DEF Channel!Produce
  <2>5. QED
    BY <2>4 DEF Channel!Next
<1>4. CASE WaitEmpty \/ LockEnqueue \/ AdvanceRear \/ PostFull
  <2>1. InQueue' = InQueue
    <3>1. CASE WaitEmpty \/ LockEnqueue \/ PostFull
      BY <3>1, SameQueue DEF WaitEmpty, LockEnqueue, PostFull, MainGoto, workerVars
    <3>2. QED
      BY <1>4, <3>1, RearMovesFirst
  <2>2. InHands' = InHands
    <3>1. UNCHANGED <<pc, worktodo>>
      BY <1>4 DEF WaitEmpty, LockEnqueue, AdvanceRear, PostFull, workerVars
    <3>2. \/ /\ mainPc \in {"wait", "lock", "critical"} /\ i' = i
             /\ mainPc' \in {"lock", "critical", "store"}
          \/ mainPc = "post" /\ mainPc' = "fill"
      BY <1>4, RearMovesFirst DEF WaitEmpty, LockEnqueue, PostFull, MainGoto
    <3>3. QED
      BY <3>1, <3>2, SameHands DEF InHand
  <2>3. QED
    BY <1>1, <2>1, <2>2
<1>5. CASE StoreTask
  <2>1. /\ Len(InQueue) < QUEUE_SIZE /\ i + 1 \in Tasks /\ InQueue' = Append(InQueue, i + 1)
    BY <1>5, StoreAppends
  <2>2. /\ mainPc = "store" /\ mainPc' = "post" /\ UNCHANGED <<pc, worktodo, i>>
    BY <1>5 DEF StoreTask, MainGoto, workerVars
  <2>3. InHands[Main] = i + 1 /\ InHands' = [InHands EXCEPT ![Main] = NoTask]
    BY <2>2, WorkerFacts DEF InHands, InHand
  <2>4. i + 1 # NoTask
    BY <2>1 DEF Tasks, NoTask
  <2>5. Channel!Put(Main)
    BY <2>1, <2>3, <2>4 DEF Channel!Put
  <2>6. QED
    BY <2>5 DEF Channel!Next
<1>6. ASSUME NEW w \in Workers, WorkerStep(w)
      PROVE  [Channel!Next]_Channel!bbVars
  <2>1. CASE WaitFull(w) \/ LockDequeue(w) \/ AdvanceFront(w) \/ PostEmpty(w)
    <3>1. InQueue' = InQueue
      <4>1. CASE WaitFull(w) \/ LockDequeue(w) \/ PostEmpty(w)
        BY <4>1, SameQueue
        DEF WaitFull, LockDequeue, PostEmpty, Goto, mainVars, IInv, TypeOK
      <4>2. QED
        BY <2>1, <4>1, FrontMovesFirst
    <3>2. InHands' = InHands
      BY <2>1, SameHands
      DEF WaitFull, LockDequeue, AdvanceFront, PostEmpty, Goto, mainVars, InHand, IInv, TypeOK
    <3>3. QED
      BY <1>1, <3>1, <3>2
  <2>2. CASE LoadTask(w)
    <3>1. /\ InQueue # << >> /\ worktodo' = [worktodo EXCEPT ![w] = Head(InQueue)]
          /\ InQueue' = Tail(InQueue)
      BY <2>2, LoadTakes
    <3>2. /\ pc[w] = "load" /\ pc' = [pc EXCEPT ![w] = "post"] /\ UNCHANGED <<mainPc, i>>
      BY <2>2 DEF LoadTask, Goto, mainVars
    <3>3. InHands[w] = NoTask /\ InHands' = [InHands EXCEPT ![w] = Head(InQueue)]
      BY <3>1, <3>2, WorkerFacts DEF InHands, InHand, IInv, TypeOK
    <3>4. Channel!Take(w)
      BY <3>1, <3>3 DEF Channel!Take
    <3>5. QED
      BY <3>4 DEF Channel!Next
  <2>3. CASE Execute(w) \/ EndCancelled(w)
    BY <2>3, LetGoOrStay DEF Channel!Next
  <2>4. QED
    BY <1>6, <2>1, <2>2, <2>3 DEF WorkerStep
<1>7. CASE UNCHANGED vars
  <2>1. InQueue' = InQueue
    BY <1>7, SameQueue DEF vars, workerVars, mainVars
  <2>2. InHands' = InHands
    BY <1>7, SameHands DEF vars, workerVars, mainVars, InHand
  <2>3. QED
    BY <1>1, <2>1, <2>2
<1>8. QED
  BY <1>2, <1>3, <1>4, <1>5, <1>6, <1>7 DEF Next, MainStep, Submit, Terminated

\* At the start the queue is empty.
LEMMA QueueAtStart == Init => InQueue = << >>
<1> SUFFICES ASSUME Init PROVE InQueue = << >>
  OBVIOUS
<1>1. LogicalFront = 0 /\ LogicalRear = 0
  BY DEF Init, LogicalFront, LogicalRear
<1>2. 0 \in Ring!Slots /\ workQueue \in [Ring!Slots -> Values] /\ Ring!Occupancy(0, 0) = 0
  BY PoolAssumption DEF Init, Ring!Slots, Ring!Occupancy, Values
<1>3. InQueue \in Seq(Values) /\ Len(InQueue) = 0
  BY <1>1, <1>2, ContentsSeq, ContentsLen DEF InQueue
<1>4. QED
  BY <1>3, EmptySeq

(***************************************************************************)
(* The pool is the bounded first-in first-out channel: tasks reach the     *)
(* workers in the order in which the client has submitted them             *)
(* (threadpool.c:42-63).                                                   *)
(***************************************************************************)
THEOREM ChannelImplemented == Spec => ImplementsChannel
<1>1. Init => Channel!Init
  <2> SUFFICES ASSUME Init PROVE Channel!Init
    OBVIOUS
  <2>1. InHands = [t \in {Main} \cup Workers |-> NoTask]
    BY DEF Init, InHands, InHand
  <2>2. QED
    BY <2>1, QueueAtStart DEF Channel!Init
<1>2. IInv /\ [Next]_vars => [Channel!Next]_Channel!bbVars
  BY ChannelStep
<1>3. QED
  BY <1>1, <1>2, Invariance, PTL DEF Spec, ImplementsChannel, Channel!Spec

-----------------------------------------------------------------------------
(***************************************************************************)
(* Where the tasks are.  A task is counted in the queue, in the hands of   *)
(* the workers, and in the past; a step moves it from one to the next.     *)
(***************************************************************************)
PlacesIn(s, k) == {j \in DOMAIN s : s[j] = k}
HandsWith(k)   == {w \in Workers : InHand(w) /\ worktodo[w] = k}

\* Both are finite, and so counted by natural numbers.
LEMMA FinitePlaces ==
  ASSUME NEW s \in Seq(Values), NEW k
  PROVE  IsFiniteSet(PlacesIn(s, k)) /\ Cardinality(PlacesIn(s, k)) \in Nat
<1>1. IsFiniteSet(1 .. Len(s)) /\ PlacesIn(s, k) \in SUBSET (1 .. Len(s))
  BY FS_Interval DEF PlacesIn
<1>2. QED
  BY <1>1, FS_Subset, FS_CardinalityType

\* A task that is appended is in one place more.
LEMMA CountAppend ==
  ASSUME NEW s \in Seq(Values), NEW x \in Values, NEW k
  PROVE  Cardinality(PlacesIn(Append(s, x), k))
           = Cardinality(PlacesIn(s, k)) + (IF x = k THEN 1 ELSE 0)
<1>1. /\ Len(s) + 1 \notin PlacesIn(s, k)
      /\ PlacesIn(Append(s, x), k)
           = PlacesIn(s, k) \cup (IF x = k THEN {Len(s) + 1} ELSE {})
  BY DEF PlacesIn
<1>2. Cardinality(PlacesIn(s, k) \cup {Len(s) + 1}) = Cardinality(PlacesIn(s, k)) + 1
  BY <1>1, FinitePlaces, FS_AddElement
<1>3. Cardinality(PlacesIn(s, k)) \in Nat
  BY FinitePlaces
<1>4. CASE x = k
  BY <1>1, <1>2, <1>4
<1>5. CASE x # k
  BY <1>1, <1>3, <1>5
<1>6. QED
  BY <1>4, <1>5

\* The task at the head is in one place less once it is taken.
LEMMA CountTail ==
  ASSUME NEW s \in Seq(Values), s # << >>, NEW k
  PROVE  Cardinality(PlacesIn(Tail(s), k))
           = Cardinality(PlacesIn(s, k)) - (IF Head(s) = k THEN 1 ELSE 0)
<1> DEFINE rest  == PlacesIn(Tail(s), k)
           later == PlacesIn(s, k) \ {1}
           on    == [j \in rest |-> j + 1]
<1>1. /\ Len(s) \in Nat \ {0} /\ DOMAIN s = 1 .. Len(s) /\ Head(s) = s[1]
      /\ Tail(s) \in Seq(Values) /\ DOMAIN Tail(s) = 1 .. Len(s) - 1
      /\ \A j \in 1 .. Len(s) - 1 : Tail(s)[j] = s[j + 1]
  BY EmptySeq
<1>2. on \in Bijection(rest, later)
  <2>1. \A j \in rest : j \in 1 .. Len(s) - 1 /\ s[j + 1] = k
    BY <1>1 DEF PlacesIn
  <2>2. on \in [rest -> later]
    BY <1>1, <2>1 DEF PlacesIn
  <2>3. \A a, b \in rest : on[a] = on[b] => a = b
    BY <2>1
  <2>4. \A m \in later : \E j \in rest : on[j] = m
    <3> TAKE m \in later
    <3>1. m - 1 \in rest
      BY <1>1 DEF PlacesIn
    <3>2. on[m - 1] = m
      BY <1>1, <3>1 DEF PlacesIn
    <3>3. QED
      BY <3>1, <3>2
  <2>5. QED
    BY <2>2, <2>3, <2>4, Fun_IsBij
<1>3. IsFiniteSet(rest) /\ Cardinality(later) = Cardinality(rest)
  <2>1. IsFiniteSet(rest)
    BY <1>1, FinitePlaces
  <2>2. QED
    BY <1>2, <2>1, FS_Bijection DEF ExistsBijection
<1>4. Cardinality(later) = Cardinality(PlacesIn(s, k)) - (IF 1 \in PlacesIn(s, k) THEN 1 ELSE 0)
  <2>1. IsFiniteSet(PlacesIn(s, k)) /\ Cardinality(PlacesIn(s, k)) \in Nat
    BY FinitePlaces
  <2>2. Cardinality(later)
          = IF 1 \in PlacesIn(s, k) THEN Cardinality(PlacesIn(s, k)) - 1
                                    ELSE Cardinality(PlacesIn(s, k))
    BY <2>1, FS_RemoveElement
  <2>3. QED
    BY <2>1, <2>2
<1>5. 1 \in PlacesIn(s, k) <=> Head(s) = k
  BY <1>1 DEF PlacesIn
<1>6. QED
  BY <1>3, <1>4, <1>5

\* What makes up the count of the places of a task.
LEMMA PlacesSum ==
  ASSUME IInv, NEW k \in Tasks
  PROVE  /\ InQueue \in Seq(Values)
         /\ HandsWith(k) \in SUBSET Workers
         /\ Cardinality(PlacesIn(InQueue, k)) \in Nat
         /\ Cardinality(HandsWith(k)) \in Nat /\ runs[k] \in Nat
         /\ Places(k) = Cardinality(PlacesIn(InQueue, k)) + Cardinality(HandsWith(k)) + runs[k]
<1>1. InQueue \in Seq(Values)
  <2>1. workQueue \in [Ring!Slots -> Values]
    BY DEF IInv, TypeOK, Values
  <2>2. QED
    BY <2>1, LogicalIndices, ContentsSeq, ContentsLen DEF InQueue
<1>2. HandsWith(k) \in SUBSET Workers
  BY DEF HandsWith
<1>3. Cardinality(PlacesIn(InQueue, k)) \in Nat /\ Cardinality(HandsWith(k)) \in Nat
  BY <1>1, <1>2, FinitePlaces, WorkerFacts, FS_Subset, FS_CardinalityType
<1>4. runs[k] \in Nat
  BY DEF IInv, TypeOK
<1>5. Places(k) = Cardinality(PlacesIn(InQueue, k)) + Cardinality(HandsWith(k)) + runs[k]
  BY DEF Places, PlacesIn, HandsWith
<1>6. QED
  BY <1>1, <1>2, <1>3, <1>4, <1>5

\* Who has dropped a task on cancellation keeps it for ever.
Dropped(k) == \E w \in Workers : pc[w] = "exited" /\ worktodo[w] = k

\* A step that neither moves a task nor puts one into the queue.
LEMMA PlacesKept ==
  ASSUME EachTaskInOnePlace, Stored' = Stored, InQueue' = InQueue, UNCHANGED <<worktodo, runs>>,
         \A w \in Workers : /\ InHand(w)' <=> InHand(w)
                            /\ pc[w] = "exited" => pc'[w] = "exited"
  PROVE  EachTaskInOnePlace'
<1>1. \A k \in Tasks : Places(k)' = Places(k)
  BY DEF Places
<1>2. \A k \in Tasks : Dropped(k) => Dropped(k)'
  BY DEF Dropped
<1>3. QED
  BY <1>1, <1>2 DEF EachTaskInOnePlace, Dropped

\* The store gives the task its place in the queue.
LEMMA StorePlaces ==
  ASSUME IInv, IInv', EachTaskInOnePlace, StoreTask
  PROVE  EachTaskInOnePlace'
<1>1. /\ InQueue' = Append(InQueue, i + 1) /\ i + 1 \in Tasks
      /\ mainPc = "store" /\ mainPc' = "post" /\ UNCHANGED <<pc, worktodo, runs, i>>
  BY StoreAppends DEF StoreTask, MainGoto, workerVars
<1>2. Stored = i /\ Stored' = i + 1 /\ i \in Nat
  BY <1>1, WorkerFacts DEF Stored, IInv, LifeInv
<1>3. ASSUME NEW k \in Tasks
      PROVE  Places(k)' = Places(k) + (IF k = i + 1 THEN 1 ELSE 0)
  <2>1. Cardinality(PlacesIn(InQueue', k))
          = Cardinality(PlacesIn(InQueue, k)) + (IF i + 1 = k THEN 1 ELSE 0)
    <3>1. i + 1 \in Values /\ InQueue \in Seq(Values)
      BY <1>1, PlacesSum DEF Values
    <3>2. QED
      BY <1>1, <3>1, CountAppend
  <2>2. HandsWith(k)' = HandsWith(k)
    BY <1>1 DEF HandsWith, InHand
  <2>3. Places(k)' = Cardinality(PlacesIn(InQueue', k)) + Cardinality(HandsWith(k)') + runs'[k]
    BY PlacesSum DEF Places, PlacesIn, HandsWith
  <2>4. QED
    BY <1>1, <2>1, <2>2, <2>3, PlacesSum
<1>4. ASSUME NEW k \in Tasks
      PROVE  IF k > Stored' THEN Places(k)' = 0
             ELSE Places(k)' = 1 \/ (Places(k)' = 0 /\ Dropped(k)')
  <2>1. Places(k) \in Nat /\ k \in Nat
    BY PlacesSum DEF Tasks
  <2>2. Dropped(k)' <=> Dropped(k)
    BY <1>1 DEF Dropped
  <2>3. IF k > Stored THEN Places(k) = 0
        ELSE Places(k) = 1 \/ (Places(k) = 0 /\ Dropped(k))
    BY DEF EachTaskInOnePlace, Dropped
  <2>4. QED
    BY <1>2, <1>3, <2>1, <2>2, <2>3
<1>5. QED
  BY <1>4 DEF EachTaskInOnePlace, Dropped

\* The load moves the task to the worker's hand.
LEMMA LoadPlaces ==
  ASSUME IInv, IInv', EachTaskInOnePlace, NEW w \in Workers, LoadTask(w)
  PROVE  EachTaskInOnePlace'
<1>1. /\ InQueue' = Tail(InQueue) /\ InQueue # << >>
      /\ worktodo' = [worktodo EXCEPT ![w] = Head(InQueue)]
      /\ pc[w] = "load" /\ pc' = [pc EXCEPT ![w] = "post"] /\ UNCHANGED <<mainPc, i, runs>>
  BY LoadTakes DEF LoadTask, Goto, mainVars
<1>2. /\ pc'[w] = "post" /\ worktodo'[w] = Head(InQueue)
      /\ \A v \in Workers \ {w} : pc'[v] = pc[v] /\ worktodo'[v] = worktodo[v]
  BY <1>1 DEF IInv, TypeOK
<1>3. ASSUME NEW k \in Tasks
      PROVE  Places(k)' = Places(k)
  <2>1. Cardinality(PlacesIn(InQueue', k))
          = Cardinality(PlacesIn(InQueue, k)) - (IF Head(InQueue) = k THEN 1 ELSE 0)
    BY <1>1, PlacesSum, CountTail
  <2>2. /\ w \notin HandsWith(k)
        /\ HandsWith(k)' = HandsWith(k) \cup (IF Head(InQueue) = k THEN {w} ELSE {})
    BY <1>1, <1>2 DEF HandsWith, InHand
  <2>3. Cardinality(HandsWith(k)')
          = Cardinality(HandsWith(k)) + (IF Head(InQueue) = k THEN 1 ELSE 0)
    <3>1. CASE Head(InQueue) = k
      BY <2>2, <3>1, PlacesSum, CountOne
    <3>2. CASE Head(InQueue) # k
      BY <2>2, <3>2, PlacesSum
    <3>3. QED
      BY <3>1, <3>2
  <2>4. Places(k)' = Cardinality(PlacesIn(InQueue', k)) + Cardinality(HandsWith(k)') + runs'[k]
    BY DEF Places, PlacesIn, HandsWith
  <2>5. QED
    BY <1>1, <2>1, <2>3, <2>4, PlacesSum
<1>4. \A k \in Tasks : Dropped(k) => Dropped(k)'
  BY <1>1, <1>2 DEF Dropped
<1>5. Stored' = Stored
  BY <1>1 DEF Stored
<1>6. QED
  BY <1>3, <1>4, <1>5 DEF EachTaskInOnePlace, Dropped

\* Executing moves the task from the hand to the past.
LEMMA ExecutePlaces ==
  ASSUME IInv, IInv', EachTaskInOnePlace, NEW w \in Workers, Execute(w)
  PROVE  EachTaskInOnePlace'
<1>1. /\ pc[w] = "execute" /\ pc' = [pc EXCEPT ![w] = "wait"]
      /\ UNCHANGED <<queueVars, mainPc, i, worktodo>>
      /\ \A k \in Tasks : runs'[k] = IF k = worktodo[w] THEN runs[k] + 1 ELSE runs[k]
  BY DEF Execute, Goto, mainVars
<1>2. pc'[w] = "wait" /\ \A v \in Workers \ {w} : pc'[v] = pc[v]
  BY <1>1 DEF IInv, TypeOK
<1>3. InQueue' = InQueue
  BY <1>1, <1>2, SameQueue
<1>4. ASSUME NEW k \in Tasks
      PROVE  Places(k)' = Places(k)
  <2>1. HandsWith(k)' = HandsWith(k) \ {w} /\ (w \in HandsWith(k) <=> worktodo[w] = k)
    BY <1>1, <1>2 DEF HandsWith, InHand
  <2>2. Cardinality(HandsWith(k)')
          = Cardinality(HandsWith(k)) - (IF worktodo[w] = k THEN 1 ELSE 0)
    <3>1. CASE worktodo[w] = k
      BY <2>1, <3>1, PlacesSum, CountOne
    <3>2. CASE worktodo[w] # k
      <4>1. HandsWith(k)' = HandsWith(k)
        BY <2>1, <3>2
      <4>2. QED
        BY <3>2, <4>1, PlacesSum
    <3>3. QED
      BY <3>1, <3>2
  <2>3. Places(k)' = Cardinality(PlacesIn(InQueue', k)) + Cardinality(HandsWith(k)') + runs'[k]
    BY DEF Places, PlacesIn, HandsWith
  <2>4. runs'[k] = runs[k] + (IF worktodo[w] = k THEN 1 ELSE 0)
    BY <1>1, PlacesSum
  <2>5. QED
    BY <1>3, <2>2, <2>3, <2>4, PlacesSum
<1>5. \A k \in Tasks : Dropped(k) => Dropped(k)'
  BY <1>1, <1>2 DEF Dropped
<1>6. Stored' = Stored
  BY <1>1 DEF Stored
<1>7. QED
  BY <1>4, <1>5, <1>6 DEF EachTaskInOnePlace, Dropped

\* A worker that ends on cancellation drops the task it has not executed.
LEMMA EndPlaces ==
  ASSUME IInv, IInv', EachTaskInOnePlace, NEW w \in Workers, EndCancelled(w)
  PROVE  EachTaskInOnePlace'
<1>1. /\ pc[w] \in {"wait", "execute"} /\ pc' = [pc EXCEPT ![w] = "exited"]
      /\ UNCHANGED <<queueVars, mainPc, i, worktodo, runs>>
  BY DEF EndCancelled, CancellationPoints, Goto, mainVars
<1>2. pc'[w] = "exited" /\ \A v \in Workers \ {w} : pc'[v] = pc[v]
  BY <1>1 DEF IInv, TypeOK
<1>3. InQueue' = InQueue
  BY <1>1, <1>2, SameQueue
<1>4. Stored' = Stored
  BY <1>1 DEF Stored
<1>5. ASSUME NEW k \in Tasks
      PROVE  IF k > Stored' THEN Places(k)' = 0
             ELSE Places(k)' = 1 \/ (Places(k)' = 0 /\ Dropped(k)')
  <2>1. IF k > Stored THEN Places(k) = 0
        ELSE Places(k) = 1 \/ (Places(k) = 0 /\ Dropped(k))
    BY DEF EachTaskInOnePlace, Dropped
  <2>2. HandsWith(k)' = HandsWith(k) \ {w}
    BY <1>1, <1>2 DEF HandsWith, InHand
  <2>3. Places(k)' = Cardinality(PlacesIn(InQueue', k)) + Cardinality(HandsWith(k)') + runs'[k]
    BY DEF Places, PlacesIn, HandsWith
  <2>4. Dropped(k) => Dropped(k)'
    BY <1>1, <1>2 DEF Dropped
  <2>5. CASE w \in HandsWith(k)
    <3>1. Cardinality(HandsWith(k)') = Cardinality(HandsWith(k)) - 1
      BY <2>2, <2>5, PlacesSum, CountOne
    <3>2. Cardinality(HandsWith(k)') \in Nat
      BY PlacesSum, CountOne DEF HandsWith
    <3>3. Places(k)' = Places(k) - 1 /\ Places(k)' \in Nat
      BY <1>1, <1>3, <2>3, <3>1, <3>2, PlacesSum
    <3>4. Dropped(k)'
      BY <1>1, <1>2, <2>5 DEF Dropped, HandsWith
    <3>5. QED
      BY <1>4, <2>1, <3>3, <3>4, PlacesSum
  <2>6. CASE w \notin HandsWith(k)
    <3>1. HandsWith(k)' = HandsWith(k)
      BY <2>2, <2>6
    <3>2. Places(k)' = Places(k)
      BY <1>1, <1>3, <2>3, <3>1, PlacesSum
    <3>3. QED
      BY <1>4, <2>1, <2>4, <3>2
  <2>7. QED
    BY <2>5, <2>6
<1>6. QED
  BY <1>5 DEF EachTaskInOnePlace, Dropped

\* Every step leaves each task in one place.
LEMMA OnePlaceStep ==
  ASSUME IInv, IInv', EachTaskInOnePlace, [Next]_vars
  PROVE  EachTaskInOnePlace'
<1>1. CASE \/ PoolInit \/ CreateWorker \/ AllCreated \/ AllSubmitted
           \/ CancelWorker \/ JoinWorker \/ DestroyPool
  <2>1. /\ UNCHANGED <<queueVars, worktodo, runs>>
        /\ mainPc # "store" /\ mainPc' # "store"
        /\ \A w \in Workers : pc'[w] = pc[w] \/ (pc[w] = "none" /\ pc'[w] = "wait")
    BY <1>1, WorkerFacts
    DEF PoolInit, CreateWorker, AllCreated, AllSubmitted, CancelWorker, JoinWorker,
        DestroyPool, MainGoto, workerVars, Workers, IInv, TypeOK, LifeInv
  <2>2. Stored' = Stored
    BY <1>1
    DEF PoolInit, CreateWorker, AllCreated, AllSubmitted, CancelWorker, JoinWorker,
        DestroyPool, MainGoto, Stored
  <2>3. InQueue' = InQueue
    BY <2>1, SameQueue
  <2>4. QED
    BY <2>1, <2>2, <2>3, PlacesKept DEF InHand
<1>2. CASE FillWork \/ WaitEmpty \/ LockEnqueue \/ PostFull
  <2>1. UNCHANGED <<queueVars, workerVars>> /\ mainPc # "store" /\ mainPc' # "store"
    BY <1>2 DEF FillWork, WaitEmpty, LockEnqueue, PostFull, MainGoto
  <2>2. Stored' = Stored
    BY <1>2 DEF FillWork, WaitEmpty, LockEnqueue, PostFull, MainGoto, Stored
  <2>3. InQueue' = InQueue
    BY <2>1, SameQueue DEF workerVars
  <2>4. QED
    BY <2>1, <2>2, <2>3, PlacesKept DEF workerVars, InHand
<1>3. CASE AdvanceRear
  <2>1. /\ mainPc = "critical" /\ mainPc' = "store" /\ i' = i
        /\ UNCHANGED workerVars /\ InQueue' = InQueue
    BY <1>3, RearMovesFirst
  <2>2. QED
    BY <2>1, PlacesKept DEF Stored, workerVars, InHand
<1>4. CASE StoreTask
  BY <1>4, StorePlaces
<1>5. ASSUME NEW w \in Workers, WorkerStep(w)
      PROVE  EachTaskInOnePlace'
  <2>1. CASE WaitFull(w) \/ LockDequeue(w) \/ AdvanceFront(w) \/ PostEmpty(w)
    <3>1. InQueue' = InQueue
      <4>1. CASE WaitFull(w) \/ LockDequeue(w) \/ PostEmpty(w)
        BY <4>1, SameQueue
        DEF WaitFull, LockDequeue, PostEmpty, Goto, mainVars, IInv, TypeOK
      <4>2. QED
        BY <2>1, <4>1, FrontMovesFirst
    <3>2. /\ UNCHANGED <<worktodo, runs>> /\ Stored' = Stored
          /\ \A v \in Workers : /\ InHand(v)' <=> InHand(v)
                                /\ pc[v] = "exited" => pc'[v] = "exited"
      BY <2>1
      DEF WaitFull, LockDequeue, AdvanceFront, PostEmpty, Goto, mainVars, InHand, Stored,
          IInv, TypeOK
    <3>3. QED
      BY <3>1, <3>2, PlacesKept
  <2>2. QED
    BY <1>5, <2>1, LoadPlaces, ExecutePlaces, EndPlaces DEF WorkerStep
<1>6. CASE UNCHANGED vars
  <2>1. InQueue' = InQueue
    BY <1>6, SameQueue DEF vars, workerVars, mainVars
  <2>2. QED
    BY <1>6, <2>1, PlacesKept DEF vars, workerVars, mainVars, Stored, InHand
<1>7. QED
  BY <1>1, <1>2, <1>3, <1>4, <1>5, <1>6 DEF Next, MainStep, Submit, Terminated

(***************************************************************************)
(* No task is lost or executed twice: each is in the queue, in the hands   *)
(* of one worker, or was executed once, unless the worker that had it      *)
(* ended on cancellation (threadpool.c:66-76, 118-123).                    *)
(***************************************************************************)
THEOREM TasksInOnePlace == Spec => []EachTaskInOnePlace
<1>1. Init => EachTaskInOnePlace
  <2> SUFFICES ASSUME Init, NEW k \in Tasks PROVE Places(k) = 0 /\ k > Stored
    BY DEF EachTaskInOnePlace
  <2>1. PlacesIn(InQueue, k) = {}
    BY QueueAtStart DEF PlacesIn
  <2>2. HandsWith(k) = {} /\ runs[k] = 0
    BY DEF Init, HandsWith, InHand
  <2>3. Places(k) = Cardinality(PlacesIn(InQueue, k)) + Cardinality(HandsWith(k)) + runs[k]
    BY DEF Places, PlacesIn, HandsWith
  <2>4. Stored = 0 /\ k > 0
    BY DEF Init, Stored, Tasks
  <2>5. QED
    BY <2>1, <2>2, <2>3, <2>4, FS_EmptySet
<1>2. IInv /\ IInv' /\ EachTaskInOnePlace /\ [Next]_vars => EachTaskInOnePlace'
  BY OnePlaceStep
<1>3. QED
  BY <1>1, <1>2, Invariance, PTL DEF Spec

=============================================================================
