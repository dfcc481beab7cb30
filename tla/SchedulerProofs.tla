---------------------------- MODULE SchedulerProofs ----------------------------
(***************************************************************************)
(* The five schedulers of Project4/posix, for every quantum and all files  *)
(* in which the tasks have different names: the inductive invariant        *)
(* ListInv, and what follows.                                              *)
(***************************************************************************)
EXTENDS Scheduler, FiniteSetTheorems, SequenceTheorems, WellFoundedInduction, TLAPS

(***************************************************************************)
(* delete goes by the name, and so a file in which two tasks have one name *)
(* makes it delete the wrong one: the theorems are about the others.       *)
(***************************************************************************)
NamesDiffer ==
  \A f \in Schedules : \A t, u \in DOMAIN f : f[t].name = f[u].name => t = u

NoTwice(list) == \A j, k \in DOMAIN list : list[j] = list[k] => j = k

\* Each task that was added is in one of the lists, once, or has been freed.
ListInv ==
  /\ tasks \in Schedules /\ program \in OneShot \cup Rotating
  /\ pc \in {"add", "rearrange", "run", "done"}
  /\ burst \in Seq(Nat) /\ Len(burst) <= Len(tasks)
  /\ pc # "add" => Len(burst) = Len(tasks)
  /\ taskList \in Seq(1 .. Len(burst)) /\ NoTwice(taskList)
  /\ newTaskList \in Seq(1 .. Len(burst)) /\ NoTwice(newTaskList)
  /\ Range(taskList) \cap Range(newTaskList) = {}
  /\ freed \in SUBSET (1 .. Len(burst))
  /\ freed \cap (Range(taskList) \cup Range(newTaskList)) = {}
  /\ pc \in {"add", "rearrange"} => freed = {}
  /\ pc = "add" => newTaskList = << >>
  /\ pc = "rearrange" => program \in Rotating
  /\ program \in Rotating /\ pc \in {"run", "done"} => taskList = << >>
  /\ program \in OneShot => newTaskList = << >>
  /\ pc \in {"run", "done"} /\ newTaskList # << >> => nextTask \in Range(newTaskList)

\* Whose turn comes later has waited for fewer of the others.
TurnInv ==
  /\ curTime \in Nat
  /\ pc \in {"add", "rearrange"} =>
       curTime = 0 /\ Len(taskList) + Len(newTaskList) = Len(burst)
  /\ program \in Rotating /\ pc # "add" =>
       /\ finish \in [DOMAIN tasks -> Nat]
       /\ pc = "rearrange" => finish = [t \in DOMAIN tasks |-> 0]
       /\ Len(newTaskList) <= Len(tasks)
       /\ pc = "run" => \A k \in DOMAIN Around :
            curTime - finish[Around[k]] <= (Len(tasks) - k) * QUANTUM

SchedulerInv == ListInv /\ TurnInv

-----------------------------------------------------------------------------
(***************************************************************************)
(* Sequences without a task.                                               *)
(***************************************************************************)
\* What follows the element that is removed moves up by one.
LEMMA RemoveAtIs ==
  ASSUME NEW S, NEW s \in Seq(S), NEW i \in 1 .. Len(s)
  PROVE  /\ RemoveAt(s, i) \in Seq(S) /\ Len(RemoveAt(s, i)) = Len(s) - 1
         /\ \A k \in 1 .. Len(s) - 1 :
              RemoveAt(s, i)[k] = IF k < i THEN s[k] ELSE s[k + 1]
<1> DEFINE front == SubSeq(s, 1, i - 1)
           back  == SubSeq(s, i + 1, Len(s))
<1>1. Len(s) \in Nat /\ \A k \in 1 .. Len(s) : s[k] \in S
  BY LenProperties, ElementOfSeq
<1>2. /\ front \in Seq(S) /\ Len(front) = i - 1
      /\ \A k \in 1 .. i - 1 : front[k] = s[k]
  <2>1. /\ 1 \in Int /\ i - 1 \in Int /\ \A k \in 1 .. i - 1 : s[k] \in S
        /\ (i - 1) - 1 + 1 = i - 1
        /\ (IF 1 <= i - 1 THEN (i - 1) - 1 + 1 ELSE 0) = i - 1
        /\ \A k \in 1 .. i - 1 : 1 + k - 1 = k
    BY <1>1
  <2>2. /\ front \in Seq(S)
        /\ Len(front) = (IF 1 <= i - 1 THEN (i - 1) - 1 + 1 ELSE 0)
        /\ \A k \in 1 .. (i - 1) - 1 + 1 : front[k] = s[1 + k - 1]
    BY <2>1, SubSeqProperties
  <2>3. QED
    BY <2>1, <2>2
<1>3. /\ back \in Seq(S) /\ Len(back) = Len(s) - i
      /\ \A k \in 1 .. Len(s) - i : back[k] = s[i + k]
  <2>1. /\ i + 1 \in Int /\ Len(s) \in Int /\ \A k \in i + 1 .. Len(s) : s[k] \in S
        /\ Len(s) - (i + 1) + 1 = Len(s) - i
        /\ (IF i + 1 <= Len(s) THEN Len(s) - (i + 1) + 1 ELSE 0) = Len(s) - i
        /\ \A k \in 1 .. Len(s) - i : (i + 1) + k - 1 = i + k
    BY <1>1
  <2>2. /\ back \in Seq(S)
        /\ Len(back) = (IF i + 1 <= Len(s) THEN Len(s) - (i + 1) + 1 ELSE 0)
        /\ \A k \in 1 .. Len(s) - (i + 1) + 1 : back[k] = s[(i + 1) + k - 1]
    <3> DEFINE m == i + 1
               n == Len(s)
    <3>1. m \in Int /\ n \in Int /\ \A k \in m .. n : s[k] \in S
      BY <2>1
    <3> HIDE DEF m, n
    <3>2. /\ SubSeq(s, m, n) \in Seq(S)
          /\ Len(SubSeq(s, m, n)) = (IF m <= n THEN n - m + 1 ELSE 0)
          /\ \A k \in 1 .. n - m + 1 : SubSeq(s, m, n)[k] = s[m + k - 1]
      BY <3>1, SubSeqProperties
    <3>3. QED
      BY <3>2 DEF m, n
  <2>3. QED
    BY <2>1, <2>2
<1> HIDE DEF front, back
<1>4. /\ front \o back \in Seq(S) /\ Len(front \o back) = Len(front) + Len(back)
      /\ \A k \in 1 .. Len(front) + Len(back) :
           (front \o back)[k] = IF k <= Len(front) THEN front[k] ELSE back[k - Len(front)]
  BY <1>2, <1>3, ConcatProperties
<1>5. RemoveAt(s, i) = front \o back
  BY DEF RemoveAt, front, back
<1>6. \A k \in 1 .. Len(s) - 1 :
        (front \o back)[k] = IF k < i THEN s[k] ELSE s[k + 1]
  <2> TAKE k \in 1 .. Len(s) - 1
  <2>1. k \in 1 .. Len(front) + Len(back)
    BY <1>1, <1>2, <1>3
  <2>2. CASE k < i
    BY <1>1, <1>2, <1>4, <2>1, <2>2
  <2>3. CASE ~ (k < i)
    <3>1. k - Len(front) \in 1 .. Len(s) - i /\ ~ (k <= Len(front)) /\ i + (k - Len(front)) = k + 1
      BY <1>1, <1>2, <2>3
    <3>2. QED
      BY <1>3, <1>4, <2>1, <2>3, <3>1
  <2>4. QED
    BY <2>2, <2>3
<1>7. Len(front) + Len(back) = Len(s) - 1
  BY <1>1, <1>2, <1>3
<1>8. QED
  BY <1>4, <1>5, <1>6, <1>7, Zenon

\* If no task is in the list twice, what is removed is gone and the rest is there.
LEMMA RemovedOnce ==
  ASSUME NEW S, NEW s \in Seq(S), NEW i \in 1 .. Len(s), NoTwice(s)
  PROVE  /\ NoTwice(RemoveAt(s, i))
         /\ Range(RemoveAt(s, i)) = Range(s) \ {s[i]}
<1> DEFINE r == RemoveAt(s, i)
<1>1. /\ r \in Seq(S) /\ Len(r) = Len(s) - 1 /\ Len(s) \in Nat
      /\ \A k \in 1 .. Len(s) - 1 : r[k] = IF k < i THEN s[k] ELSE s[k + 1]
  BY RemoveAtIs, LenProperties
<1>2. DOMAIN s = 1 .. Len(s) /\ DOMAIN r = 1 .. Len(s) - 1
  BY <1>1, LenProperties
<1> HIDE DEF r
<1>3. NoTwice(r)
  <2> SUFFICES ASSUME NEW j \in 1 .. Len(s) - 1, NEW k \in 1 .. Len(s) - 1, r[j] = r[k]
               PROVE  j = k
    BY <1>2 DEF NoTwice
  <2> DEFINE old(m) == IF m < i THEN m ELSE m + 1
  <2>1. /\ old(j) \in 1 .. Len(s) /\ old(k) \in 1 .. Len(s)
        /\ old(j) = old(k) => j = k
    BY <1>1
  <2>2. r[j] = s[old(j)] /\ r[k] = s[old(k)]
    BY <1>1
  <2> HIDE DEF old
  <2>3. QED
    BY <1>2, <2>1, <2>2 DEF NoTwice
<1>4. ASSUME NEW x \in Range(r)
      PROVE  x \in Range(s) \ {s[i]}
  <2>1. PICK k \in 1 .. Len(s) - 1 : x = r[k]
    BY <1>2, <1>4 DEF Range
  <2>2. PICK j \in 1 .. Len(s) : x = s[j] /\ j # i
    <3>1. CASE k < i
      <4>1. k \in 1 .. Len(s) /\ k # i
        BY <1>1, <3>1
      <4>2. x = s[k]
        BY <1>1, <2>1, <3>1
      <4>3. QED
        BY <4>1, <4>2
    <3>2. CASE ~ (k < i)
      <4>1. k + 1 \in 1 .. Len(s) /\ k + 1 # i
        BY <1>1, <3>2
      <4>2. x = s[k + 1]
        BY <1>1, <2>1, <3>2
      <4>3. QED
        BY <4>1, <4>2
    <3>3. QED
      BY <3>1, <3>2
  <2>3. x \in Range(s)
    BY <1>2, <2>2 DEF Range
  <2>4. x # s[i]
    BY <1>2, <2>2 DEF NoTwice
  <2>5. QED
    BY <2>3, <2>4
<1>5. ASSUME NEW x \in Range(s), x # s[i]
      PROVE  x \in Range(r)
  <2>1. PICK k \in 1 .. Len(s) : x = s[k]
    BY <1>2, <1>5 DEF Range
  <2>2. CASE k < i
    <3>1. k \in 1 .. Len(s) - 1 /\ r[k] = x
      BY <1>1, <2>1, <2>2
    <3>2. QED
      BY <1>2, <3>1 DEF Range
  <2>3. CASE k > i
    <3>1. k - 1 \in 1 .. Len(s) - 1 /\ r[k - 1] = x
      BY <1>1, <2>1, <2>3
    <3>2. QED
      BY <1>2, <3>1 DEF Range
  <2>4. k # i
    BY <1>5, <2>1
  <2>5. QED
    BY <1>1, <2>1, <2>2, <2>3, <2>4
<1>6. QED
  BY <1>3, <1>4, <1>5 DEF r

LEMMA LeastOf ==
  ASSUME NEW S \in SUBSET Nat, S # {}
  PROVE  \E x \in S : \A y \in S : x <= y
<1>1. PICK x \in S : \A y \in S : ~ (<<y, x>> \in OpToRel(<, Nat))
  BY NatLessThanWellFounded, WFMin, Zenon
<1>2. \A y \in S : x <= y
  <2> TAKE y \in S
  <2>1. y < x => <<y, x>> \in OpToRel(<, Nat)
    BY DEF OpToRel
  <2>2. ~ (y < x)
    BY <1>1, <2>1, Zenon
  <2>3. x \in Nat /\ y \in Nat
    OBVIOUS
  <2>4. QED
    BY <2>2, <2>3
<1>3. QED
  BY <1>2

\* The search for the least ends at a task of the list, and ties go to the first.
LEMMA SearchFinds ==
  ASSUME NEW S, NEW list \in Seq(S), list # << >>, NEW key,
         \A n \in DOMAIN list : key[list[n]] \in Int
  PROVE  \E n \in DOMAIN list :
           /\ FirstLeast(list, key) = list[n]
           /\ \A k \in DOMAIN list :
                \/ key[list[n]] < key[list[k]]
                \/ key[list[n]] = key[list[k]] /\ n <= k
<1> DEFINE v(n) == key[list[n]]
           IsLeast(n, m) == \A k \in 1 .. m : v(n) < v(k) \/ (v(n) = v(k) /\ n <= k)
           Bad == {m \in 1 .. Len(list) : ~ \E n \in 1 .. m : IsLeast(n, m)}
<1>1. DOMAIN list = 1 .. Len(list) /\ Len(list) \in Nat \ {0}
  BY LenProperties, EmptySeq
<1>2. \A n \in 1 .. Len(list) : v(n) \in Int
  BY <1>1
<1> HIDE DEF v
<1>3. Bad = {}
  <2> SUFFICES ASSUME Bad # {} PROVE FALSE
    OBVIOUS
  <2>1. Bad \in SUBSET Nat
    OBVIOUS
  <2>2. PICK m \in Bad : \A y \in Bad : m <= y
    <3> HIDE DEF Bad
    <3>1. QED
      BY <2>1, LeastOf
  <2>3. m \in 1 .. Len(list) /\ ~ \E n \in 1 .. m : IsLeast(n, m)
    OBVIOUS
  <2> DEFINE Good(y) == \E n \in 1 .. y : IsLeast(n, y)
  <2>7. \A y \in 1 .. Len(list) : ~ (m <= y) => Good(y)
    BY <2>2
  <2>8. m \in Nat
    BY <1>1, <2>3
  <2> HIDE DEF Bad
  <2>4. CASE m = 1
    <3>1. IsLeast(1, 1)
      BY <1>1
    <3>2. QED
      BY <2>3, <2>4, <3>1
  <2>5. CASE m # 1
    <3>1. m - 1 \in 1 .. Len(list) /\ ~ (m <= m - 1)
      BY <1>1, <2>3, <2>5, <2>8
    <3>2. PICK n \in 1 .. m - 1 : IsLeast(n, m - 1)
      BY <2>7, <3>1
    <3>3. v(n) \in Int /\ v(m) \in Int /\ \A k \in 1 .. m - 1 : v(k) \in Int
      <4>1. \A k \in 1 .. m - 1 : k \in 1 .. Len(list)
        BY <1>1, <2>3, <2>8
      <4>2. QED
        BY <1>2, <2>3, <4>1
    <3>4. n \in 1 .. m /\ m \in 1 .. m /\ n \in Nat
      BY <2>3, <2>8
    <3>5. CASE v(n) <= v(m)
      <4>1. IsLeast(n, m)
        <5> SUFFICES ASSUME NEW k \in 1 .. m
                     PROVE  v(n) < v(k) \/ (v(n) = v(k) /\ n <= k)
          OBVIOUS
        <5>1. k = m \/ k \in 1 .. m - 1
          BY <2>8
        <5>2. QED
          BY <3>2, <3>3, <3>4, <3>5, <5>1
      <4>2. QED
        BY <2>3, <3>4, <4>1
    <3>6. CASE v(m) < v(n)
      <4>1. IsLeast(m, m)
        <5> SUFFICES ASSUME NEW k \in 1 .. m
                     PROVE  v(m) < v(k) \/ (v(m) = v(k) /\ m <= k)
          OBVIOUS
        <5>1. k = m \/ k \in 1 .. m - 1
          BY <2>8
        <5>2. QED
          BY <2>8, <3>2, <3>3, <3>6, <5>1
      <4>2. QED
        BY <2>3, <3>4, <4>1
    <3>7. QED
      BY <3>3, <3>5, <3>6
  <2>6. QED
    BY <2>4, <2>5
<1>4. \E n \in 1 .. Len(list) : IsLeast(n, Len(list))
  <2>1. \A m \in 1 .. Len(list) : \E n \in 1 .. m : IsLeast(n, m)
    BY <1>3
  <2>2. Len(list) \in 1 .. Len(list)
    BY <1>1
  <2> HIDE DEF Bad, IsLeast
  <2>3. QED
    BY <2>1, <2>2
<1>5. \E n \in DOMAIN list : \A k \in DOMAIN list :
        \/ key[list[n]] < key[list[k]]
        \/ key[list[n]] = key[list[k]] /\ n <= k
  BY <1>1, <1>4 DEF v
<1>6. QED
  BY <1>5, Zenon DEF FirstLeast

\* With different names, delete deletes the task it is given.
LEMMA DeleteIs ==
  ASSUME NamesDiffer, tasks \in Schedules,
         NEW list \in Seq(DOMAIN tasks), NEW t \in Range(list)
  PROVE  /\ Place(list, t) \in 1 .. Len(list) /\ list[Place(list, t)] = t
         /\ delete(list, t) = RemoveAt(list, Place(list, t))
<1> DEFINE Found(n) == /\ tasks[list[n]].name = tasks[t].name
                       /\ \A k \in 1 .. n - 1 : tasks[list[k]].name # tasks[t].name
           Same == {n \in 1 .. Len(list) : tasks[list[n]].name = tasks[t].name}
<1>1. DOMAIN list = 1 .. Len(list) /\ Len(list) \in Nat
  BY LenProperties
<1>2. \A n \in 1 .. Len(list) : list[n] \in DOMAIN tasks
  BY ElementOfSeq
<1>3. Same # {} /\ Same \in SUBSET Nat
  BY <1>1 DEF Range
<1>4. PICK m \in Same : \A y \in Same : m <= y
  <2> HIDE DEF Same
  <2>1. QED
    BY <1>3, LeastOf
<1>5. m \in DOMAIN list /\ Found(m)
  <2>1. ASSUME NEW k \in 1 .. m - 1
        PROVE  k \in 1 .. Len(list) /\ ~ (m <= k)
    BY <1>1
  <2>2. QED
    BY <1>1, <1>4, <2>1
<1>6. Place(list, t) \in DOMAIN list /\ Found(Place(list, t))
  <2> DEFINE p == CHOOSE n \in DOMAIN list : Found(n)
  <2>1. p \in DOMAIN list /\ Found(p)
    <3> HIDE DEF Found
    <3>1. QED
      BY <1>5, Zenon
  <2>2. p = Place(list, t)
    BY DEF Place
  <2>3. QED
    BY <2>1, <2>2
<1>7. t \in DOMAIN tasks
  BY <1>1, <1>2 DEF Range
<1>8. list[Place(list, t)] = t
  BY <1>1, <1>2, <1>6, <1>7 DEF NamesDiffer
<1>9. QED
  BY <1>1, <1>6, <1>8 DEF delete

\* What a deletion leaves of a list.
LEMMA Deleted ==
  ASSUME NamesDiffer, tasks \in Schedules, NEW n \in Nat, n <= Len(tasks),
         NEW list \in Seq(1 .. n), NoTwice(list), NEW t \in Range(list)
  PROVE  /\ delete(list, t) \in Seq(1 .. n) /\ Len(delete(list, t)) = Len(list) - 1
         /\ NoTwice(delete(list, t)) /\ Range(delete(list, t)) = Range(list) \ {t}
<1>1. DOMAIN tasks = 1 .. Len(tasks) /\ Len(tasks) \in Nat
  BY SchedulerAssumption
<1>2. list \in Seq(DOMAIN tasks)
  <2>1. 1 .. n \subseteq DOMAIN tasks
    BY <1>1
  <2>2. QED
    BY <2>1, SeqMonotonic
<1>3. /\ Place(list, t) \in 1 .. Len(list) /\ list[Place(list, t)] = t
      /\ delete(list, t) = RemoveAt(list, Place(list, t))
  BY <1>2, DeleteIs
<1>4. /\ RemoveAt(list, Place(list, t)) \in Seq(1 .. n)
      /\ Len(RemoveAt(list, Place(list, t))) = Len(list) - 1
  BY <1>3, RemoveAtIs
<1>5. /\ NoTwice(RemoveAt(list, Place(list, t)))
      /\ Range(RemoveAt(list, Place(list, t))) = Range(list) \ {list[Place(list, t)]}
  BY <1>3, RemovedOnce
<1>6. QED
  BY <1>3, <1>4, <1>5

\* The same of a list of any of the tasks that were read.
LEMMA DeletedOfAll ==
  ASSUME NamesDiffer, tasks \in Schedules,
         NEW list \in Seq(1 .. Len(tasks)), NoTwice(list), NEW t \in Range(list)
  PROVE  Range(delete(list, t)) = Range(list) \ {t}
<1>1. Len(tasks) \in Nat /\ Len(tasks) <= Len(tasks)
  BY SchedulerAssumption
<1>2. QED
  BY <1>1, Deleted

\* What a list is with one more task at its head.
LEMMA Inserted ==
  ASSUME NEW S, NEW list \in Seq(S), NEW t \in S
  PROVE  /\ insert(list, t) \in Seq(S) /\ Len(insert(list, t)) = Len(list) + 1
         /\ Range(insert(list, t)) = Range(list) \cup {t}
         /\ NoTwice(list) /\ t \notin Range(list) => NoTwice(insert(list, t))
<1> DEFINE new == insert(list, t)
<1>1. /\ <<t>> \in Seq(S) /\ Len(<<t>>) = 1 /\ <<t>>[1] = t
      /\ Len(list) \in Nat /\ DOMAIN list = 1 .. Len(list)
  BY LenProperties
<1>2. /\ new \in Seq(S) /\ Len(new) = 1 + Len(list)
      /\ \A i \in 1 .. 1 + Len(list) : new[i] = IF i <= 1 THEN <<t>>[i] ELSE list[i - 1]
  BY <1>1, ConcatProperties DEF insert
<1>3. DOMAIN new = 1 .. Len(list) + 1
  BY <1>1, <1>2, LenProperties
<1>4. /\ new[1] = t
      /\ \A i \in 2 .. Len(list) + 1 : new[i] = list[i - 1]
  BY <1>1, <1>2
<1> HIDE DEF new
<1>5. Range(new) = Range(list) \cup {t}
  <2>1. ASSUME NEW x \in Range(new)
        PROVE  x \in Range(list) \cup {t}
    <3>1. PICK i \in 1 .. Len(list) + 1 : x = new[i]
      BY <1>3, <2>1 DEF Range
    <3>2. CASE i = 1
      BY <1>4, <3>1, <3>2
    <3>3. CASE i # 1
      <4>1. i \in 2 .. Len(list) + 1 /\ i - 1 \in 1 .. Len(list)
        BY <1>1, <3>3
      <4>2. x = list[i - 1]
        BY <1>4, <3>1, <4>1
      <4>3. QED
        BY <1>1, <4>1, <4>2 DEF Range
    <3>4. QED
      BY <3>2, <3>3
  <2>2. ASSUME NEW x \in Range(list)
        PROVE  x \in Range(new)
    <3>1. PICK i \in 1 .. Len(list) : x = list[i]
      BY <1>1, <2>2 DEF Range
    <3>2. i + 1 \in 2 .. Len(list) + 1 /\ (i + 1) - 1 = i
      BY <1>1
    <3>3. new[i + 1] = x
      BY <1>4, <3>1, <3>2
    <3>4. i + 1 \in DOMAIN new
      BY <1>3, <1>1
    <3>5. QED
      BY <3>3, <3>4 DEF Range
  <2>3. t \in Range(new)
    <3>1. 1 \in DOMAIN new
      BY <1>1, <1>3
    <3>2. QED
      BY <1>4, <3>1 DEF Range
  <2>4. QED
    BY <2>1, <2>2, <2>3
<1>6. ASSUME NoTwice(list), t \notin Range(list)
      PROVE  NoTwice(new)
  <2> SUFFICES ASSUME NEW j \in 1 .. Len(list) + 1, NEW k \in 1 .. Len(list) + 1, new[j] = new[k]
               PROVE  j = k
    BY <1>3 DEF NoTwice
  <2>1. \A i \in 1 .. Len(list) + 1 :
          i # 1 => i \in 2 .. Len(list) + 1 /\ i - 1 \in 1 .. Len(list)
    BY <1>1
  <2>2. \A i \in 1 .. Len(list) : list[i] # t
    BY <1>1, <1>6 DEF Range
  <2>3. CASE j = 1 \/ k = 1
    BY <1>4, <2>1, <2>2, <2>3
  <2>4. CASE j # 1 /\ k # 1
    <3>1. list[j - 1] = list[k - 1]
      BY <1>4, <2>1, <2>4
    <3>2. j - 1 = k - 1
      BY <1>1, <1>6, <2>1, <2>4, <3>1 DEF NoTwice
    <3>3. QED
      BY <3>2
  <2>5. QED
    BY <2>3, <2>4
<1>7. QED
  BY <1>1, <1>2, <1>5, <1>6 DEF new

LEMMA FileFacts ==
  ASSUME tasks \in Schedules
  PROVE  /\ Len(tasks) \in Nat /\ DOMAIN tasks = 1 .. Len(tasks)
         /\ \A t \in DOMAIN tasks : tasks[t].burst \in Nat /\ tasks[t].priority \in Int
BY SchedulerAssumption

\* Whatever a program runs or moves next is in the list.
LEMMA ChosenIsThere ==
  ASSUME ListInv, taskList # << >>, Len(burst) = Len(tasks)
  PROVE  /\ program \in OneShot => taskToRun \in Range(taskList)
         /\ program \in Rotating => TaskToMove \in Range(taskList)
<1>1. /\ taskList \in Seq(1 .. Len(burst)) /\ DOMAIN taskList = 1 .. Len(taskList)
      /\ Len(taskList) \in Nat \ {0}
      /\ \A n \in 1 .. Len(taskList) : taskList[n] \in 1 .. Len(burst)
  BY LenProperties, EmptySeq, ElementOfSeq DEF ListInv
<1>2. /\ Len(tasks) \in Nat /\ DOMAIN tasks = 1 .. Len(tasks)
      /\ \A t \in DOMAIN tasks : tasks[t].burst \in Nat /\ tasks[t].priority \in Int
  BY FileFacts DEF ListInv
<1>3. Last(taskList) \in Range(taskList) /\ Head(taskList) \in Range(taskList)
  <2>1. /\ 1 \in DOMAIN taskList /\ Len(taskList) \in DOMAIN taskList
        /\ Head(taskList) = taskList[1] /\ Last(taskList) = taskList[Len(taskList)]
    BY <1>1 DEF Last
  <2>2. QED
    BY <2>1 DEF Range
<1>4. \A n \in DOMAIN taskList : burst[taskList[n]] \in Int
  <2> TAKE n \in DOMAIN taskList
  <2>1. burst \in Seq(Nat) /\ taskList[n] \in 1 .. Len(burst)
    BY <1>1 DEF ListInv
  <2>2. QED
    BY <2>1, ElementOfSeq
<1>5. \A n \in DOMAIN taskList : taskList[n] \in DOMAIN tasks
  BY <1>1, <1>2
<1>6. FirstLeast(taskList, burst) \in Range(taskList)
  BY <1>1, <1>4, SearchFinds DEF Range
<1>7. ASSUME NEW key, \A t \in DOMAIN tasks : key[t] \in Int
      PROVE  FirstLeast(taskList, key) \in Range(taskList)
  BY <1>1, <1>5, <1>7, SearchFinds DEF Range
<1>8. FirstLeast(taskList, [t \in DOMAIN tasks |-> - tasks[t].priority]) \in Range(taskList)
  <2> DEFINE key == [t \in DOMAIN tasks |-> - tasks[t].priority]
  <2>1. \A t \in DOMAIN tasks : key[t] \in Int
    BY <1>2
  <2> HIDE DEF key
  <2>2. FirstLeast(taskList, key) \in Range(taskList)
    BY <1>7, <2>1
  <2>3. QED
    BY <2>2 DEF key
<1>9. FirstLeast(taskList, [t \in DOMAIN tasks |-> tasks[t].priority]) \in Range(taskList)
  <2> DEFINE key == [t \in DOMAIN tasks |-> tasks[t].priority]
  <2>1. \A t \in DOMAIN tasks : key[t] \in Int
    BY <1>2
  <2> HIDE DEF key
  <2>2. FirstLeast(taskList, key) \in Range(taskList)
    BY <1>7, <2>1
  <2>3. QED
    BY <2>2 DEF key
<1>10. program \in OneShot => taskToRun \in Range(taskList)
  BY <1>3, <1>6, <1>8 DEF OneShot, taskToRun
<1>11. program \in Rotating => TaskToMove \in Range(taskList)
  BY <1>3, <1>9 DEF Rotating, TaskToMove
<1>12. QED
  BY <1>10, <1>11

-----------------------------------------------------------------------------
(***************************************************************************)
(* Going around in a list.                                                 *)
(***************************************************************************)
LEMMA TurnedToIs ==
  ASSUME NEW S, NEW list \in Seq(S), NoTwice(list), NEW n \in 1 .. Len(list)
  PROVE  /\ TurnedTo(list, list[n]) \in Seq(S)
         /\ Len(TurnedTo(list, list[n])) = Len(list)
         /\ \A k \in 1 .. Len(list) :
              TurnedTo(list, list[n])[k]
                = list[IF k <= Len(list) - n + 1 THEN n + k - 1 ELSE n + k - 1 - Len(list)]
<1> DEFINE m     == Len(list)
           front == SubSeq(list, n, m)
           back  == SubSeq(list, 1, n - 1)
<1>1. m \in Nat /\ n \in 1 .. m /\ DOMAIN list = 1 .. m /\ \A k \in 1 .. m : list[k] \in S
  BY LenProperties, ElementOfSeq
<1>2. TurnedTo(list, list[n]) = front \o back
  <2>1. \A k \in 1 .. m : list[k] = list[n] => k = n
    BY <1>1 DEF NoTwice
  <2>2. (CHOOSE k \in DOMAIN list : list[k] = list[n]) = n
    BY <1>1, <2>1
  <2>3. QED
    BY <2>2 DEF TurnedTo
<1> HIDE DEF m
<1>3. /\ front \in Seq(S) /\ Len(front) = m - n + 1
      /\ \A k \in 1 .. m - n + 1 : front[k] = list[n + k - 1]
  <2>1. n \in Int /\ m \in Int /\ n <= m /\ \A k \in n .. m : list[k] \in S
    BY <1>1
  <2>2. QED
    BY <2>1, SubSeqProperties
<1>4. /\ back \in Seq(S) /\ Len(back) = n - 1
      /\ \A k \in 1 .. n - 1 : back[k] = list[k]
  <2>1. /\ 1 \in Int /\ n - 1 \in Int /\ \A k \in 1 .. n - 1 : list[k] \in S
        /\ (n - 1) - 1 + 1 = n - 1
        /\ (IF 1 <= n - 1 THEN (n - 1) - 1 + 1 ELSE 0) = n - 1
        /\ \A k \in 1 .. n - 1 : 1 + k - 1 = k
    BY <1>1
  <2>2. /\ back \in Seq(S)
        /\ Len(back) = (IF 1 <= n - 1 THEN (n - 1) - 1 + 1 ELSE 0)
        /\ \A k \in 1 .. (n - 1) - 1 + 1 : back[k] = list[1 + k - 1]
    BY <2>1, SubSeqProperties
  <2>3. QED
    BY <2>1, <2>2
<1> HIDE DEF front, back
<1>5. /\ front \o back \in Seq(S) /\ Len(front \o back) = Len(front) + Len(back)
      /\ \A k \in 1 .. Len(front) + Len(back) :
           (front \o back)[k] = IF k <= Len(front) THEN front[k] ELSE back[k - Len(front)]
  BY <1>3, <1>4, ConcatProperties
<1>6. Len(front) + Len(back) = m
  BY <1>1, <1>3, <1>4
<1>7. \A k \in 1 .. m :
        (front \o back)[k] = list[IF k <= m - n + 1 THEN n + k - 1 ELSE n + k - 1 - m]
  <2> TAKE k \in 1 .. m
  <2>1. CASE k <= m - n + 1
    <3>1. k \in 1 .. m - n + 1
      BY <1>1, <2>1
    <3>2. QED
      BY <1>3, <1>5, <1>6, <2>1, <3>1
  <2>2. CASE ~ (k <= m - n + 1)
    <3>1. k - Len(front) \in 1 .. n - 1 /\ k - Len(front) = n + k - 1 - m
      BY <1>1, <1>3, <2>2
    <3>2. (front \o back)[k] = back[k - Len(front)]
      BY <1>3, <1>5, <1>6, <2>2
    <3>3. QED
      BY <1>4, <2>2, <3>1, <3>2
  <2>3. QED
    BY <2>1, <2>2
<1>8. QED
  BY <1>2, <1>5, <1>6, <1>7 DEF m

\* Where the pointer goes from the n-th task, in the list as it was.
After(list, n) == IF n < Len(list) THEN list[n + 1] ELSE list[1]

\* The task that was served becomes the last, or is gone.
LEMMA TurnOn ==
  ASSUME NEW S, NEW list \in Seq(S), NoTwice(list), NEW n \in 1 .. Len(list)
  PROVE  LET all == TurnedTo(list, list[n])
         IN  /\ all # << >> /\ Head(all) = list[n]
             /\ TurnedTo(list, After(list, n)) = Append(Tail(all), list[n])
             /\ Len(list) > 1 =>
                  TurnedTo(RemoveAt(list, n), After(list, n)) = Tail(all)
<1> DEFINE m    == Len(list)
           all  == TurnedTo(list, list[n])
           next == IF n < m THEN n + 1 ELSE 1
           less == RemoveAt(list, n)
           at   == IF n < m THEN n ELSE 1
<1>1. m \in Nat /\ n \in 1 .. m /\ DOMAIN list = 1 .. m /\ \A k \in 1 .. m : list[k] \in S
  BY LenProperties, ElementOfSeq
<1>2. /\ all \in Seq(S) /\ Len(all) = m
      /\ \A k \in 1 .. m :
           all[k] = list[IF k <= m - n + 1 THEN n + k - 1 ELSE n + k - 1 - m]
  BY TurnedToIs
<1>3. next \in 1 .. m /\ After(list, n) = list[next]
  BY <1>1 DEF After
<1>4. /\ TurnedTo(list, list[next]) \in Seq(S) /\ Len(TurnedTo(list, list[next])) = m
      /\ \A k \in 1 .. m :
           TurnedTo(list, list[next])[k]
             = list[IF k <= m - next + 1 THEN next + k - 1 ELSE next + k - 1 - m]
  <2> HIDE DEF next
  <2>1. QED
    BY <1>3, TurnedToIs
<1>5. /\ less \in Seq(S) /\ Len(less) = m - 1 /\ NoTwice(less)
      /\ \A k \in 1 .. m - 1 : less[k] = IF k < n THEN list[k] ELSE list[k + 1]
  BY RemoveAtIs, RemovedOnce
<1> HIDE DEF m, all, less
<1>6. all # << >> /\ Head(all) = list[n]
  <2>1. all[1] = list[n]
    BY <1>1, <1>2
  <2>2. all # << >>
    BY <1>1, <1>2, EmptySeq
  <2>3. QED
    BY <1>2, <2>1, <2>2
<1>7. /\ Tail(all) \in Seq(S) /\ Len(Tail(all)) = m - 1
      /\ \A k \in 1 .. m - 1 : Tail(all)[k] = all[k + 1]
  BY <1>2, <1>6, HeadTailProperties
<1>8. /\ Append(Tail(all), list[n]) \in Seq(S) /\ Len(Append(Tail(all), list[n])) = m
      /\ \A k \in 1 .. m - 1 : Append(Tail(all), list[n])[k] = all[k + 1]
      /\ Append(Tail(all), list[n])[m] = list[n]
  <2>1. list[n] \in S /\ (m - 1) + 1 = m
    BY <1>1
  <2>2. QED
    BY <1>7, <2>1, AppendProperties
<1>9. TurnedTo(list, list[next]) = Append(Tail(all), list[n])
  <2>1. \A k \in 1 .. m : TurnedTo(list, list[next])[k] = Append(Tail(all), list[n])[k]
    <3> TAKE k \in 1 .. m
    <3>1. CASE k = m
      <4>1. (IF k <= m - next + 1 THEN next + k - 1 ELSE next + k - 1 - m) = n
        BY <1>1, <3>1
      <4>2. QED
        BY <1>4, <1>8, <3>1, <4>1
    <3>2. CASE k # m
      <4>1. k \in 1 .. m - 1 /\ k + 1 \in 1 .. m
        BY <1>1, <3>2
      <4>2. (IF k <= m - next + 1 THEN next + k - 1 ELSE next + k - 1 - m)
             = (IF k + 1 <= m - n + 1 THEN n + (k + 1) - 1 ELSE n + (k + 1) - 1 - m)
        BY <1>1, <4>1
      <4>3. all[k + 1] = list[IF k + 1 <= m - n + 1 THEN n + (k + 1) - 1 ELSE n + (k + 1) - 1 - m]
        BY <1>2, <4>1
      <4>4. QED
        BY <1>4, <1>8, <4>1, <4>2, <4>3
    <3>3. QED
      BY <3>1, <3>2
  <2> HIDE DEF next
  <2>2. QED
    BY <1>4, <1>8, <2>1, SeqEqual
<1>10. ASSUME m > 1
       PROVE  TurnedTo(less, list[next]) = Tail(all)
  <2>1. at \in 1 .. Len(less) /\ less[at] = list[next]
    BY <1>1, <1>5, <1>10
  <2>2. /\ TurnedTo(less, less[at]) \in Seq(S) /\ Len(TurnedTo(less, less[at])) = m - 1
        /\ \A k \in 1 .. Len(less) :
             TurnedTo(less, less[at])[k]
               = less[IF k <= Len(less) - at + 1 THEN at + k - 1 ELSE at + k - 1 - Len(less)]
    <3> HIDE DEF at
    <3>1. QED
      BY <1>5, <2>1, TurnedToIs
  <2>3. \A k \in 1 .. m - 1 : TurnedTo(less, less[at])[k] = Tail(all)[k]
    <3> TAKE k \in 1 .. m - 1
    <3> DEFINE p == IF k <= (m - 1) - at + 1 THEN at + k - 1 ELSE at + k - 1 - (m - 1)
               q == IF k + 1 <= m - n + 1 THEN n + (k + 1) - 1 ELSE n + (k + 1) - 1 - m
    <3>1. TurnedTo(less, less[at])[k] = less[p]
      BY <1>5, <2>2
    <3>2. Tail(all)[k] = list[q]
      <4>1. k + 1 \in 1 .. m
        BY <1>1
      <4>2. all[k + 1] = list[q]
        BY <1>2, <4>1
      <4>3. QED
        BY <1>7, <4>2
    <3>3. p \in 1 .. m - 1 /\ q = IF p < n THEN p ELSE p + 1
      BY <1>1, <1>10
    <3>4. less[p] = list[q]
      <4> HIDE DEF p, q
      <4>1. QED
        BY <1>5, <3>3
    <3>5. QED
      BY <3>1, <3>2, <3>4
  <2> HIDE DEF at
  <2>4. TurnedTo(less, less[at]) = Tail(all)
    BY <1>7, <2>2, <2>3, SeqEqual
  <2>5. QED
    BY <2>1, <2>4
<1>11. QED
  BY <1>3, <1>6, <1>9, <1>10 DEF all, less, m

-----------------------------------------------------------------------------
(***************************************************************************)
(* The invariant.                                                          *)
(***************************************************************************)
LEMMA EmptyList == Range(<< >>) = {} /\ NoTwice(<< >>) /\ Len(<< >>) = 0
BY DEF Range, NoTwice

LEMMA InitHolds == Init => SchedulerInv
<1> SUFFICES ASSUME Init PROVE SchedulerInv
  OBVIOUS
<1>1. tasks \in Schedules /\ program \in OneShot \cup Rotating
  BY SchedulerAssumption DEF Init
<1>2. Len(tasks) \in Nat
  BY <1>1, FileFacts
<1>3. /\ burst = << >> /\ taskList = << >> /\ newTaskList = << >> /\ pc = "add"
      /\ freed = {} /\ curTime = 0
  BY DEF Init
<1>4. burst \in Seq(Nat) /\ taskList \in Seq(1 .. Len(burst)) /\ newTaskList \in Seq(1 .. Len(burst))
  BY <1>3, EmptySeq
<1>5. ListInv
  BY <1>1, <1>2, <1>3, <1>4, EmptyList DEF ListInv
<1>6. TurnInv
  BY <1>3, EmptyList DEF TurnInv
<1>7. QED
  BY <1>5, <1>6 DEF SchedulerInv

LEMMA AddHolds ==
  ASSUME SchedulerInv, Add
  PROVE  SchedulerInv'
<1> DEFINE t == Len(burst) + 1
<1>1. /\ pc = "add" /\ Len(burst) < Len(tasks)
      /\ burst' = Append(burst, tasks[t].burst) /\ taskList' = insert(taskList, t)
      /\ UNCHANGED <<program, tasks, pc, newTaskList, nextTask, times, freed, totals>>
  BY DEF Add
<1>2. /\ Len(tasks) \in Nat /\ DOMAIN tasks = 1 .. Len(tasks)
      /\ \A k \in DOMAIN tasks : tasks[k].burst \in Nat
  BY FileFacts DEF SchedulerInv, ListInv
<1>3. burst \in Seq(Nat) /\ Len(burst) \in Nat /\ t \in DOMAIN tasks
  <2>1. burst \in Seq(Nat)
    BY DEF SchedulerInv, ListInv
  <2>2. QED
    BY <1>1, <1>2, <2>1, LenProperties
<1>4. burst' \in Seq(Nat) /\ Len(burst') = t
  BY <1>1, <1>2, <1>3, AppendProperties
<1> HIDE DEF t
<1>5. /\ 1 .. Len(burst) \subseteq 1 .. t /\ t \in 1 .. t /\ t \notin 1 .. Len(burst)
  BY <1>3 DEF t
<1>6. /\ taskList \in Seq(1 .. t) /\ t \notin Range(taskList) /\ NoTwice(taskList)
  <2>1. taskList \in Seq(1 .. Len(burst)) /\ NoTwice(taskList)
    BY DEF SchedulerInv, ListInv
  <2>2. taskList \in Seq(1 .. t)
    BY <1>5, <2>1, SeqMonotonic
  <2>3. Range(taskList) \in SUBSET (1 .. Len(burst))
    BY <2>1, ElementOfSeq, LenProperties DEF Range
  <2>4. QED
    BY <1>5, <2>1, <2>2, <2>3
<1>7. /\ taskList' \in Seq(1 .. t) /\ NoTwice(taskList') /\ Len(taskList') = Len(taskList) + 1
  BY <1>1, <1>5, <1>6, Inserted
<1>8. newTaskList = << >> /\ freed = {} /\ newTaskList \in Seq(1 .. t)
  BY <1>1, EmptySeq DEF SchedulerInv, ListInv
<1>9. ListInv'
  <2>1. t <= Len(tasks)
    BY <1>2, <1>3
  <2>2. Range(newTaskList) = {} /\ NoTwice(newTaskList)
    BY <1>8, EmptyList
  <2>3. QED
    BY <1>1, <1>4, <1>7, <1>8, <2>1, <2>2 DEF SchedulerInv, ListInv
<1>10. TurnInv'
  <2>1. Len(taskList) \in Nat /\ Len(newTaskList) = 0
    BY <1>6, <1>8, LenProperties, EmptyList
  <2>2. curTime = 0 /\ Len(taskList) = Len(burst)
    BY <1>1, <2>1 DEF SchedulerInv, TurnInv
  <2>3. Len(taskList') + Len(newTaskList') = Len(burst')
    BY <1>1, <1>3, <1>4, <1>7, <2>1, <2>2 DEF t
  <2>4. QED
    BY <1>1, <2>2, <2>3 DEF TurnInv, times
<1>11. QED
  BY <1>9, <1>10 DEF SchedulerInv

LEMMA BeginHolds ==
  ASSUME SchedulerInv, ScheduleBegins
  PROVE  SchedulerInv'
<1>1. /\ pc = "add" /\ Len(burst) = Len(tasks)
      /\ program \in OneShot => pc' = "run" /\ UNCHANGED <<finish, wait>>
      /\ program \notin OneShot => pc' = "rearrange" /\ finish' = [t \in DOMAIN tasks |-> 0]
      /\ UNCHANGED <<program, tasks, burst, taskList, newTaskList, nextTask, curTime, freed>>
  BY DEF ScheduleBegins, lists
<1>2. program \in OneShot <=> program \notin Rotating
  BY DEF SchedulerInv, ListInv, OneShot, Rotating
<1>3. ListInv'
  BY <1>1, <1>2 DEF SchedulerInv, ListInv
<1>4. Len(newTaskList) <= Len(tasks)
  <2>1. newTaskList = << >> /\ Len(tasks) \in Nat
    BY <1>1, FileFacts DEF SchedulerInv, ListInv
  <2>2. QED
    BY <2>1, EmptyList
<1>5. TurnInv'
  BY <1>1, <1>2, <1>4 DEF SchedulerInv, TurnInv
<1>6. QED
  BY <1>3, <1>5 DEF SchedulerInv

LEMMA RearrangeHolds ==
  ASSUME NamesDiffer, SchedulerInv, Rearrange
  PROVE  SchedulerInv'
<1> DEFINE t == TaskToMove
<1>1. /\ pc = "rearrange" /\ taskList # << >>
      /\ taskList' = delete(taskList, t) /\ newTaskList' = insert(newTaskList, t)
      /\ UNCHANGED <<program, tasks, pc, burst, nextTask, curTime, finish, freed>>
  BY DEF Rearrange, times
<1>2. /\ tasks \in Schedules /\ program \in Rotating
      /\ Len(burst) = Len(tasks) /\ Len(tasks) \in Nat
      /\ taskList \in Seq(1 .. Len(burst)) /\ NoTwice(taskList)
      /\ newTaskList \in Seq(1 .. Len(burst)) /\ NoTwice(newTaskList)
      /\ Range(taskList) \cap Range(newTaskList) = {} /\ freed = {}
  BY <1>1, FileFacts DEF SchedulerInv, ListInv
<1>3. t \in Range(taskList)
  BY <1>1, <1>2, ChosenIsThere DEF SchedulerInv
<1>4. t \in 1 .. Len(burst)
  BY <1>2, <1>3, ElementOfSeq, LenProperties DEF Range
<1> HIDE DEF t
<1>5. /\ taskList' \in Seq(1 .. Len(burst)) /\ Len(taskList') = Len(taskList) - 1
      /\ NoTwice(taskList') /\ Range(taskList') = Range(taskList) \ {t}
  <2>1. Len(burst) \in Nat /\ Len(burst) <= Len(tasks)
    BY <1>2
  <2>2. /\ delete(taskList, t) \in Seq(1 .. Len(burst))
        /\ Len(delete(taskList, t)) = Len(taskList) - 1
        /\ NoTwice(delete(taskList, t))
        /\ Range(delete(taskList, t)) = Range(taskList) \ {t}
    BY <1>2, <1>3, <2>1, Deleted
  <2>3. QED
    BY <1>1, <2>2
<1>6. /\ newTaskList' \in Seq(1 .. Len(burst)) /\ Len(newTaskList') = Len(newTaskList) + 1
      /\ NoTwice(newTaskList') /\ Range(newTaskList') = Range(newTaskList) \cup {t}
  <2>1. t \notin Range(newTaskList)
    BY <1>2, <1>3
  <2>2. /\ insert(newTaskList, t) \in Seq(1 .. Len(burst))
        /\ Len(insert(newTaskList, t)) = Len(newTaskList) + 1
        /\ NoTwice(insert(newTaskList, t))
        /\ Range(insert(newTaskList, t)) = Range(newTaskList) \cup {t}
    BY <1>2, <1>4, <2>1, Inserted
  <2>3. QED
    BY <1>1, <2>2
<1>7. ListInv'
  BY <1>1, <1>2, <1>5, <1>6 DEF SchedulerInv, ListInv, OneShot, Rotating
<1>8. Len(taskList) \in Nat \ {0} /\ Len(newTaskList) \in Nat
  BY <1>1, <1>2, LenProperties, EmptySeq
<1>9. TurnInv'
  <2>1. /\ curTime = 0 /\ Len(taskList) + Len(newTaskList) = Len(burst)
        /\ finish \in [DOMAIN tasks -> Nat] /\ finish = [k \in DOMAIN tasks |-> 0]
    BY <1>1, <1>2 DEF SchedulerInv, TurnInv
  <2>2. Len(taskList') + Len(newTaskList') = Len(burst') /\ Len(newTaskList') <= Len(tasks)
    <3>1. Len(taskList) - 1 + (Len(newTaskList) + 1) = Len(burst)
      BY <1>8, <2>1
    <3>2. Len(newTaskList) + 1 <= Len(burst)
      BY <1>8, <2>1
    <3>3. burst' = burst
      BY <1>1
    <3>4. QED
      BY <1>2, <1>5, <1>6, <3>1, <3>2, <3>3
  <2>3. QED
    BY <1>1, <2>1, <2>2 DEF TurnInv
<1>10. QED
  BY <1>7, <1>9 DEF SchedulerInv

\* Nobody has waited yet when the pointer is put at the head.
LEMMA RearrangedHolds ==
  ASSUME SchedulerInv, Rearranged
  PROVE  SchedulerInv'
<1>1. /\ pc = "rearrange" /\ taskList = << >> /\ pc' = "run"
      /\ newTaskList # << >> => nextTask' = Head(newTaskList)
      /\ UNCHANGED <<program, tasks, burst, taskList, newTaskList, curTime, finish, freed>>
  BY DEF Rearranged, times
<1>2. newTaskList \in Seq(1 .. Len(burst)) /\ program \in Rotating
  BY <1>1 DEF SchedulerInv, ListInv
<1>3. newTaskList # << >> => nextTask' \in Range(newTaskList)
  <2> SUFFICES ASSUME newTaskList # << >> PROVE nextTask' \in Range(newTaskList)
    OBVIOUS
  <2>1. Head(newTaskList) = newTaskList[1] /\ 1 \in DOMAIN newTaskList
    BY <1>2, LenProperties, EmptySeq
  <2>2. QED
    BY <1>1, <2>1 DEF Range
<1>4. ListInv'
  BY <1>1, <1>3 DEF SchedulerInv, ListInv
<1>5. ASSUME NEW k \in DOMAIN Around'
      PROVE  curTime' - finish'[Around'[k]] <= (Len(tasks) - k) * QUANTUM
  <2>1. CASE newTaskList = << >>
    BY <1>1, <1>5, <2>1 DEF Around
  <2>2. CASE newTaskList # << >>
    <3>1. PICK n \in DOMAIN newTaskList : newTaskList[n] = nextTask'
      BY <1>3, <2>2 DEF Range
    <3>2. /\ NoTwice(newTaskList) /\ Len(newTaskList) \in Nat
          /\ n \in 1 .. Len(newTaskList)
      BY <1>2, <3>1, LenProperties DEF SchedulerInv, ListInv
    <3>3. Around' = TurnedTo(newTaskList, newTaskList[n])
      BY <1>1, <2>2, <3>1 DEF Around
    <3>4. Around' \in Seq(1 .. Len(burst)) /\ Len(Around') = Len(newTaskList)
      BY <1>2, <3>2, <3>3, TurnedToIs
    <3>5. k \in 1 .. Len(newTaskList) /\ Around'[k] \in 1 .. Len(burst)
      BY <1>5, <3>4, LenProperties, ElementOfSeq
    <3>6. /\ Len(burst) = Len(tasks) /\ Len(tasks) \in Nat /\ DOMAIN tasks = 1 .. Len(tasks)
          /\ Len(newTaskList) <= Len(tasks)
          /\ curTime = 0 /\ finish = [t \in DOMAIN tasks |-> 0]
      BY <1>1, <1>2, FileFacts DEF SchedulerInv, ListInv, TurnInv
    <3>7. curTime' - finish'[Around'[k]] = 0
      BY <1>1, <3>5, <3>6
    <3>8. Len(tasks) - k \in Nat /\ QUANTUM \in Nat
      BY <3>2, <3>5, <3>6, SchedulerAssumption
    <3>9. (Len(tasks) - k) * QUANTUM \in Nat
      BY <3>8
    <3>10. QED
      BY <3>7, <3>9
  <2>3. QED
    BY <2>1, <2>2
<1>6. TurnInv'
  BY <1>1, <1>2, <1>5 DEF SchedulerInv, TurnInv
<1>7. QED
  BY <1>4, <1>6 DEF SchedulerInv

LEMMA RunTaskHolds ==
  ASSUME NamesDiffer, SchedulerInv, RunTask
  PROVE  SchedulerInv'
<1> DEFINE t == taskToRun
<1>1. /\ pc = "run" /\ program \in OneShot /\ taskList # << >>
      /\ curTime' = curTime + burst[t]
      /\ taskList' = delete(taskList, t) /\ freed' = freed \cup {t}
      /\ UNCHANGED <<program, tasks, pc, burst, newTaskList, nextTask>>
  BY DEF RunTask
<1>2. /\ tasks \in Schedules /\ program \notin Rotating
      /\ Len(burst) = Len(tasks) /\ Len(tasks) \in Nat /\ burst \in Seq(Nat)
      /\ taskList \in Seq(1 .. Len(burst)) /\ NoTwice(taskList)
      /\ newTaskList = << >> /\ freed \in SUBSET (1 .. Len(burst))
      /\ freed \cap Range(taskList) = {}
  BY <1>1, FileFacts DEF SchedulerInv, ListInv, OneShot, Rotating
<1>3. t \in Range(taskList)
  BY <1>1, <1>2, ChosenIsThere DEF SchedulerInv
<1>4. t \in 1 .. Len(burst)
  BY <1>2, <1>3, ElementOfSeq, LenProperties DEF Range
<1> HIDE DEF t
<1>5. /\ taskList' \in Seq(1 .. Len(burst))
      /\ NoTwice(taskList') /\ Range(taskList') = Range(taskList) \ {t}
  <2>1. Len(burst) \in Nat /\ Len(burst) <= Len(tasks)
    BY <1>2
  <2>2. /\ delete(taskList, t) \in Seq(1 .. Len(burst)) /\ NoTwice(delete(taskList, t))
        /\ Range(delete(taskList, t)) = Range(taskList) \ {t}
    BY <1>2, <1>3, <2>1, Deleted
  <2>3. QED
    BY <1>1, <2>2
<1>6. Range(newTaskList) = {}
  BY <1>2, EmptyList
<1>7. ListInv'
  BY <1>1, <1>2, <1>4, <1>5, <1>6 DEF SchedulerInv, ListInv
<1>8. curTime' \in Nat
  <2>1. curTime \in Nat /\ burst[t] \in Nat
    BY <1>2, <1>4, ElementOfSeq DEF SchedulerInv, TurnInv
  <2>2. QED
    BY <1>1, <2>1
<1>9. TurnInv'
  BY <1>1, <1>2, <1>8 DEF TurnInv
<1>10. QED
  BY <1>7, <1>9 DEF SchedulerInv

\* A slice is at most a quantum, and no more than the task needs.
LEMMA SliceIs ==
  ASSUME NEW t, burst[t] \in Nat
  PROVE  Slice(t) \in Nat /\ Slice(t) <= QUANTUM /\ Slice(t) <= burst[t]
BY SchedulerAssumption DEF Slice

\* The pointer and the list after a slice, in terms of the list from the pointer on.
LEMMA SliceGoesOn ==
  ASSUME NamesDiffer, SchedulerInv, RunSlice
  PROVE  /\ nextTask \in Range(newTaskList) /\ nextTask \in 1 .. Len(tasks)
         /\ program \in Rotating /\ Len(burst) = Len(tasks) /\ burst[nextTask] \in Nat
         /\ Around \in Seq(1 .. Len(tasks)) /\ Len(Around) = Len(newTaskList)
         /\ Around # << >> /\ Head(Around) = nextTask
         /\ burst'[nextTask] # 0 => Around' = Append(Tail(Around), nextTask)
         /\ burst'[nextTask] = 0 => Around' = Tail(Around)
         /\ newTaskList' # << >> => nextTask' \in Range(newTaskList')
<1>1. /\ pc = "run" /\ program \in Rotating /\ newTaskList # << >>
      /\ nextTask' = NextOf(nextTask)
      /\ burst'[nextTask] = 0 => newTaskList' = delete(newTaskList, nextTask)
      /\ burst'[nextTask] # 0 => newTaskList' = newTaskList
  BY DEF RunSlice
<1>2. /\ tasks \in Schedules /\ Len(burst) = Len(tasks) /\ Len(tasks) \in Nat
      /\ burst \in Seq(Nat)
      /\ newTaskList \in Seq(1 .. Len(tasks)) /\ NoTwice(newTaskList)
      /\ nextTask \in Range(newTaskList)
  BY <1>1, FileFacts DEF SchedulerInv, ListInv
<1>3. DOMAIN newTaskList = 1 .. Len(newTaskList) /\ Len(newTaskList) \in Nat \ {0}
  BY <1>1, <1>2, LenProperties, EmptySeq
<1>4. PICK n \in 1 .. Len(newTaskList) : newTaskList[n] = nextTask
  BY <1>2, <1>3 DEF Range
<1>5. nextTask \in 1 .. Len(tasks) /\ burst[nextTask] \in Nat
  <2>1. nextTask \in 1 .. Len(tasks)
    BY <1>2, <1>4, ElementOfSeq
  <2>2. QED
    BY <1>2, <2>1, ElementOfSeq
<1>6. nextTask' = After(newTaskList, n)
  <2> DEFINE at == CHOOSE k \in DOMAIN newTaskList : newTaskList[k] = nextTask
  <2>1. at = n
    BY <1>2, <1>3, <1>4 DEF NoTwice
  <2>2. NextOf(nextTask) = IF at < Len(newTaskList) THEN newTaskList[at + 1]
                           ELSE Head(newTaskList)
    BY DEF NextOf
  <2> HIDE DEF at
  <2>3. Head(newTaskList) = newTaskList[1]
    BY <1>2, <1>3
  <2>4. QED
    BY <1>1, <2>1, <2>2, <2>3 DEF After
<1>7. Around = TurnedTo(newTaskList, newTaskList[n])
  BY <1>1, <1>4 DEF Around
<1>8. Around \in Seq(1 .. Len(tasks)) /\ Len(Around) = Len(newTaskList)
  BY <1>2, <1>7, TurnedToIs
<1>9. /\ Around # << >> /\ Head(Around) = nextTask
      /\ TurnedTo(newTaskList, After(newTaskList, n)) = Append(Tail(Around), nextTask)
      /\ Len(newTaskList) > 1 =>
           TurnedTo(RemoveAt(newTaskList, n), After(newTaskList, n)) = Tail(Around)
  BY <1>2, <1>4, <1>7, TurnOn
<1>10. CASE burst'[nextTask] # 0
  <2>1. Around' = Append(Tail(Around), nextTask)
    BY <1>1, <1>6, <1>9, <1>10 DEF Around
  <2>2. nextTask' \in Range(newTaskList')
    <3>1. (IF n < Len(newTaskList) THEN n + 1 ELSE 1) \in DOMAIN newTaskList
      BY <1>3
    <3>2. QED
      BY <1>1, <1>6, <1>10, <3>1 DEF After, Range
  <2>3. QED
    BY <1>1, <1>2, <1>5, <1>8, <1>9, <1>10, <2>1, <2>2
<1>11. CASE burst'[nextTask] = 0
  <2>1. /\ Place(newTaskList, nextTask) \in 1 .. Len(newTaskList)
        /\ newTaskList[Place(newTaskList, nextTask)] = nextTask
        /\ newTaskList' = RemoveAt(newTaskList, Place(newTaskList, nextTask))
    <3>1. newTaskList \in Seq(DOMAIN tasks)
      BY <1>2, FileFacts
    <3>2. QED
      BY <1>1, <1>2, <1>11, <3>1, DeleteIs
  <2>2. newTaskList' = RemoveAt(newTaskList, n)
    BY <1>2, <1>3, <1>4, <2>1 DEF NoTwice
  <2>3. /\ RemoveAt(newTaskList, n) \in Seq(1 .. Len(tasks))
        /\ Len(RemoveAt(newTaskList, n)) = Len(newTaskList) - 1
        /\ \A k \in 1 .. Len(newTaskList) - 1 :
             RemoveAt(newTaskList, n)[k] = IF k < n THEN newTaskList[k] ELSE newTaskList[k + 1]
    BY <1>2, RemoveAtIs
  <2>4. CASE Len(newTaskList) = 1
    <3>1. newTaskList' = << >>
      BY <2>2, <2>3, <2>4, EmptySeq
    <3>2. Around' = << >>
      BY <3>1 DEF Around
    <3>3. Tail(Around) \in Seq(1 .. Len(tasks)) /\ Len(Tail(Around)) = 0
      BY <1>8, <1>9, <2>4, HeadTailProperties
    <3>4. Tail(Around) = << >>
      BY <3>3, EmptySeq
    <3>5. QED
      BY <1>1, <1>2, <1>5, <1>8, <1>9, <1>11, <3>1, <3>2, <3>4
  <2>5. CASE Len(newTaskList) # 1
    <3>1. Len(newTaskList) > 1 /\ newTaskList' # << >>
      <4>1. Len(newTaskList) > 1
        BY <1>3, <2>5
      <4>2. QED
        BY <2>2, <2>3, <4>1, EmptyList
    <3>2. Around' = Tail(Around)
      BY <1>6, <1>9, <2>2, <3>1 DEF Around
    <3>3. nextTask' \in Range(newTaskList')
      <4> DEFINE at == IF n < Len(newTaskList) THEN n ELSE 1
      <4>1. at \in 1 .. Len(newTaskList) - 1 /\ newTaskList'[at] = nextTask'
        BY <1>3, <1>6, <2>2, <2>3, <3>1 DEF After
      <4>2. DOMAIN newTaskList' = 1 .. Len(newTaskList) - 1
        BY <2>2, <2>3, LenProperties
      <4>3. QED
        BY <4>1, <4>2 DEF Range
    <3>4. QED
      BY <1>1, <1>2, <1>5, <1>8, <1>9, <1>11, <3>2, <3>3
  <2>6. QED
    BY <2>4, <2>5
<1>12. QED
  BY <1>10, <1>11

\* One turn less to wait for, one quantum more.
LEMMA TurnsAdd ==
  ASSUME NEW a \in Int, NEW k \in Int, NEW q \in Nat
  PROVE  (a - (k + 1)) * q + q = (a - k) * q
OBVIOUS

LEMMA RunSliceHolds ==
  ASSUME NamesDiffer, SchedulerInv, RunSlice
  PROVE  SchedulerInv'
<1> DEFINE t == nextTask
<1>1. /\ pc = "run" /\ pc' = "run" /\ newTaskList # << >> /\ t \notin freed
      /\ curTime' = curTime + Slice(t)
      /\ finish' = [finish EXCEPT ![t] = curTime']
      /\ burst' = [burst EXCEPT ![t] = @ - Slice(t)]
      /\ burst'[t] = 0 => newTaskList' = delete(newTaskList, t) /\ freed' = freed \cup {t}
      /\ burst'[t] # 0 => UNCHANGED <<newTaskList, freed>>
      /\ UNCHANGED <<program, tasks, taskList>>
  BY DEF RunSlice
<1>2. /\ t \in Range(newTaskList) /\ t \in 1 .. Len(tasks) /\ program \in Rotating
      /\ Len(burst) = Len(tasks) /\ burst[t] \in Nat
      /\ newTaskList' # << >> => nextTask' \in Range(newTaskList')
  BY SliceGoesOn
<1>3. /\ tasks \in Schedules /\ Len(tasks) \in Nat /\ DOMAIN tasks = 1 .. Len(tasks)
      /\ burst \in Seq(Nat) /\ taskList = << >>
      /\ newTaskList \in Seq(1 .. Len(tasks)) /\ NoTwice(newTaskList)
      /\ freed \in SUBSET (1 .. Len(tasks)) /\ freed \cap Range(newTaskList) = {}
  BY <1>1, <1>2, FileFacts DEF SchedulerInv, ListInv
<1> HIDE DEF t
<1>4. Slice(t) \in Nat /\ Slice(t) <= QUANTUM /\ Slice(t) <= burst[t] /\ QUANTUM \in Nat
  BY <1>2, SliceIs, SchedulerAssumption
<1>5. burst' \in Seq(Nat) /\ Len(burst') = Len(burst) /\ burst'[t] = burst[t] - Slice(t)
  <2>1. burst[t] - Slice(t) \in Nat /\ t \in 1 .. Len(burst)
    BY <1>2, <1>4
  <2> DEFINE rest == burst[t] - Slice(t)
  <2> HIDE DEF rest
  <2>2. /\ [burst EXCEPT ![t] = rest] \in Seq(Nat)
        /\ Len([burst EXCEPT ![t] = rest]) = Len(burst)
        /\ [burst EXCEPT ![t] = rest][t] = rest
    BY <1>3, <2>1, ExceptSeq DEF rest
  <2>3. QED
    BY <1>1, <2>2 DEF rest
<1>6. /\ delete(newTaskList, t) \in Seq(1 .. Len(tasks))
      /\ Len(delete(newTaskList, t)) = Len(newTaskList) - 1
      /\ NoTwice(delete(newTaskList, t))
      /\ Range(delete(newTaskList, t)) = Range(newTaskList) \ {t}
  BY <1>2, <1>3, Deleted
<1>7. /\ newTaskList' \in Seq(1 .. Len(tasks)) /\ NoTwice(newTaskList')
      /\ Len(newTaskList') <= Len(newTaskList)
      /\ freed' \in SUBSET (1 .. Len(tasks)) /\ freed' \cap Range(newTaskList') = {}
  <2>1. Len(newTaskList) \in Nat
    BY <1>3, LenProperties
  <2>2. CASE burst'[t] = 0
    <3>1. newTaskList' = delete(newTaskList, t) /\ freed' = freed \cup {t}
      BY <1>1, <2>2
    <3>2. Len(newTaskList') <= Len(newTaskList)
      BY <1>6, <2>1, <3>1
    <3>3. freed' \in SUBSET (1 .. Len(tasks)) /\ freed' \cap Range(newTaskList') = {}
      BY <1>2, <1>3, <1>6, <3>1
    <3>4. QED
      BY <1>6, <3>1, <3>2, <3>3
  <2>3. CASE burst'[t] # 0
    <3>1. newTaskList' = newTaskList /\ freed' = freed
      BY <1>1, <2>3
    <3>2. Len(newTaskList') <= Len(newTaskList)
      BY <2>1, <3>1
    <3>3. QED
      BY <1>3, <3>1, <3>2
  <2>4. QED
    BY <2>2, <2>3
<1>8. ListInv'
  <2>1. Range(taskList) = {} /\ NoTwice(taskList) /\ taskList \in Seq(1 .. Len(tasks))
    BY <1>3, EmptyList, EmptySeq
  <2>2. program \notin OneShot
    BY <1>2 DEF OneShot, Rotating
  <2>3. QED
    <3>1. /\ tasks' \in Schedules /\ program' \in OneShot \cup Rotating /\ pc' = "run"
          /\ Len(burst') = Len(tasks') /\ Len(tasks') \in Nat
          /\ taskList' = << >> /\ program' \notin OneShot
      BY <1>1, <1>2, <1>3, <1>5, <2>2
    <3>2. /\ newTaskList' \in Seq(1 .. Len(burst')) /\ freed' \in SUBSET (1 .. Len(burst'))
          /\ taskList' \in Seq(1 .. Len(burst')) /\ NoTwice(taskList')
          /\ Range(taskList') = {}
      BY <1>1, <1>2, <1>5, <1>7, <2>1
    <3>3. QED
      BY <1>2, <1>5, <1>7, <3>1, <3>2 DEF ListInv
<1>9. /\ curTime \in Nat /\ finish \in [DOMAIN tasks -> Nat]
      /\ Len(newTaskList) <= Len(tasks)
      /\ \A k \in DOMAIN Around : curTime - finish[Around[k]] <= (Len(tasks) - k) * QUANTUM
  BY <1>1, <1>2 DEF SchedulerInv, TurnInv
<1>10. curTime' \in Nat /\ curTime' <= curTime + QUANTUM /\ finish' \in [DOMAIN tasks -> Nat]
  <2>1. curTime' \in Nat /\ curTime' <= curTime + QUANTUM
    <3>1. curTime' = curTime + Slice(t)
      BY <1>1
    <3>2. QED
      BY <1>4, <1>9, <3>1
  <2>2. finish' = [finish EXCEPT ![t] = curTime']
    BY <1>1
  <2>3. QED
    BY <1>9, <2>1, <2>2
<1>11. /\ Around \in Seq(1 .. Len(tasks)) /\ Len(Around) = Len(newTaskList)
       /\ Around # << >> /\ Head(Around) = t
       /\ burst'[t] # 0 => Around' = Append(Tail(Around), t)
       /\ burst'[t] = 0 => Around' = Tail(Around)
  BY SliceGoesOn DEF t
<1>12. /\ Len(Around) \in Nat \ {0} /\ Len(Around) <= Len(tasks)
       /\ DOMAIN Around = 1 .. Len(Around)
       /\ Tail(Around) \in Seq(1 .. Len(tasks)) /\ Len(Tail(Around)) = Len(Around) - 1
       /\ \A k \in 1 .. Len(Around) - 1 : Tail(Around)[k] = Around[k + 1]
  BY <1>9, <1>11, LenProperties, EmptySeq, HeadTailProperties
<1>13. ASSUME NEW k \in 1 .. Len(Around) - 1
       PROVE  curTime' - finish'[Around[k + 1]] <= (Len(tasks) - k) * QUANTUM
  <2>1. k + 1 \in DOMAIN Around /\ k + 1 \in 1 .. Len(Around) /\ k \in Int
    BY <1>12
  <2>2. Around[k + 1] \in 1 .. Len(tasks)
    BY <1>11, <2>1, ElementOfSeq
  <2>3. curTime - finish[Around[k + 1]] <= (Len(tasks) - (k + 1)) * QUANTUM
    BY <1>9, <2>1
  <2>4. (Len(tasks) - (k + 1)) * QUANTUM + QUANTUM = (Len(tasks) - k) * QUANTUM
    BY <1>3, <1>4, <2>1, TurnsAdd
  <2> DEFINE x == (Len(tasks) - (k + 1)) * QUANTUM
             y == (Len(tasks) - k) * QUANTUM
  <2>5. x \in Int /\ y \in Int /\ y >= 0
    <3>1. Len(tasks) - k \in Nat
      BY <1>3, <1>12
    <3>2. QED
      BY <1>3, <1>4, <2>1, <3>1
  <2> HIDE DEF x, y
  <2>6. finish[Around[k + 1]] \in Nat
    BY <1>3, <1>9, <2>2
  <2>7. finish'[Around[k + 1]] = IF Around[k + 1] = t THEN curTime' ELSE finish[Around[k + 1]]
    BY <1>1, <1>3, <1>9, <2>2
  <2> DEFINE before == finish[Around[k + 1]]
             now    == finish'[Around[k + 1]]
  <2>8. curTime - finish[Around[k + 1]] <= x /\ x + QUANTUM = y
    BY <2>3, <2>4 DEF x, y
  <2>9. curTime' - finish'[Around[k + 1]] <= y
    <3>1. before \in Nat /\ (now = curTime' \/ now = before) /\ curTime - before <= x
      BY <2>6, <2>7, <2>8
    <3> HIDE DEF before, now
    <3>2. curTime' - now <= y
      BY <1>4, <1>9, <1>10, <2>5, <2>8, <3>1
    <3>3. QED
      BY <3>2 DEF now
  <2>10. QED
    BY <2>9 DEF y
<1>14. ASSUME NEW k \in DOMAIN Around'
       PROVE  curTime' - finish'[Around'[k]] <= (Len(tasks) - k) * QUANTUM
  <2>1. CASE burst'[t] = 0
    <3>1. k \in 1 .. Len(Around) - 1 /\ Around'[k] = Around[k + 1]
      <4>1. DOMAIN Tail(Around) = 1 .. Len(Around) - 1
        BY <1>12, LenProperties
      <4>2. QED
        BY <1>11, <1>12, <2>1, <4>1
    <3>2. QED
      BY <1>13, <3>1
  <2>2. CASE burst'[t] # 0
    <3>1. /\ Append(Tail(Around), t) \in Seq(1 .. Len(tasks))
          /\ Len(Append(Tail(Around), t)) = Len(Around)
          /\ \A j \in 1 .. Len(Around) - 1 : Append(Tail(Around), t)[j] = Around[j + 1]
          /\ Append(Tail(Around), t)[Len(Around)] = t
      <4>1. (Len(Around) - 1) + 1 = Len(Around)
        BY <1>12
      <4>2. QED
        BY <1>2, <1>12, <4>1, AppendProperties
    <3>2. k \in 1 .. Len(Around)
      BY <1>11, <2>2, <3>1, LenProperties
    <3>3. CASE k = Len(Around)
      <4>1. curTime' - finish'[Around'[k]] = 0
        <5>1. Around'[k] = t
          BY <1>11, <2>2, <3>1, <3>3
        <5>2. finish'[t] = curTime'
          BY <1>1, <1>2, <1>3, <1>9
        <5>3. finish'[Around'[k]] = curTime'
          BY <5>1, <5>2, Zenon
        <5> DEFINE now == finish'[Around'[k]]
        <5>4. now = curTime'
          BY <5>3
        <5> HIDE DEF now
        <5>5. curTime' - now = 0
          <6>1. \A x \in Nat : x - x = 0
            OBVIOUS
          <6>2. curTime' \in Nat
            BY <1>10
          <6>3. curTime' - curTime' = 0
            BY <6>1, <6>2, Zenon
          <6>4. QED
            BY <5>4, <6>3, Zenon
        <5>6. QED
          BY <5>5 DEF now
      <4>2. Len(tasks) - k \in Nat
        BY <1>3, <1>12, <3>3
      <4>3. (Len(tasks) - k) * QUANTUM \in Nat
        BY <1>4, <4>2
      <4>4. QED
        BY <4>1, <4>3
    <3>4. CASE k # Len(Around)
      <4>1. k \in 1 .. Len(Around) - 1
        BY <1>12, <3>2, <3>4
      <4>2. Around'[k] = Around[k + 1]
        BY <1>11, <2>2, <3>1, <4>1
      <4>3. QED
        BY <1>13, <4>1, <4>2
    <3>5. QED
      BY <3>3, <3>4
  <2>3. QED
    BY <2>1, <2>2
<1>15. TurnInv'
  <2>1. Len(newTaskList') <= Len(tasks)
    <3>1. Len(newTaskList') \in Nat /\ Len(newTaskList) \in Nat
      BY <1>3, <1>7, LenProperties
    <3>2. QED
      BY <1>3, <1>7, <1>9, <3>1
  <2>2. QED
    BY <1>1, <1>10, <1>14, <2>1 DEF TurnInv
<1>16. QED
  BY <1>8, <1>15 DEF SchedulerInv

LEMMA StepHolds ==
  ASSUME NamesDiffer, SchedulerInv, [Next]_vars
  PROVE  SchedulerInv'
<1>1. CASE Add
  BY <1>1, AddHolds
<1>2. CASE ScheduleBegins
  BY <1>2, BeginHolds
<1>3. CASE Rearrange
  BY <1>3, RearrangeHolds
<1>4. CASE Rearranged
  BY <1>4, RearrangedHolds
<1>5. CASE RunTask
  BY <1>5, RunTaskHolds
<1>6. CASE RunSlice
  BY <1>6, RunSliceHolds
<1>7. CASE Finished
  <2>1. /\ pc = "run" /\ pc' = "done" /\ newTaskList = << >>
        /\ UNCHANGED <<program, tasks, burst, taskList, newTaskList, nextTask,
                       curTime, finish, freed>>
    BY <1>7 DEF Finished, lists, times
  <2>2. QED
    BY <2>1 DEF SchedulerInv, ListInv, TurnInv
<1>8. CASE UNCHANGED vars
  BY <1>8 DEF vars, lists, times, SchedulerInv, ListInv, TurnInv, Around
<1>9. QED
  BY <1>1, <1>2, <1>3, <1>4, <1>5, <1>6, <1>7, <1>8 DEF Next, Running, Terminated

LEMMA InvHolds == ASSUME NamesDiffer PROVE Spec => []SchedulerInv
<1>1. SchedulerInv /\ [Next]_vars => SchedulerInv'
  BY StepHolds
<1>2. QED
  BY <1>1, InitHolds, PTL DEF Spec

-----------------------------------------------------------------------------
(***************************************************************************)
(* "delete the selected task from the list" (list.c:23): no task is in a   *)
(* list any more, nor under the pointer, once it has been freed, in any    *)
(* file in which the names differ.                                         *)
(***************************************************************************)
THEOREM FreedIsGone == ASSUME NamesDiffer PROVE Spec => []SelectedTaskDeleted
<1>1. SchedulerInv => SelectedTaskDeleted
  <2> SUFFICES ASSUME SchedulerInv PROVE SelectedTaskDeleted
    OBVIOUS
  <2>1. pc \in {"add", "rearrange"} => freed = {}
    BY DEF SchedulerInv, ListInv
  <2>2. newTaskList # << >> => nextTask \notin freed
    BY <2>1 DEF SchedulerInv, ListInv
  <2>3. QED
    BY <2>2 DEF SchedulerInv, ListInv, SelectedTaskDeleted
<1>2. QED
  BY <1>1, InvHolds, PTL

(***************************************************************************)
(* No task of a round robin waits longer than a quantum of each of the     *)
(* others, for any number of tasks and whichever of them end in the        *)
(* meantime (schedule_rr.c:41-45, 65-82).                                  *)
(***************************************************************************)
THEOREM NobodyStarves == ASSUME NamesDiffer PROVE Spec => []WaitBounded
<1>1. SchedulerInv => WaitBounded
  <2> SUFFICES ASSUME SchedulerInv, pc = "run", NEW t \in Range(newTaskList)
               PROVE  curTime - finish[t] <= (Len(tasks) - 1) * QUANTUM
    BY DEF WaitBounded
  <2>1. /\ tasks \in Schedules /\ Len(tasks) \in Nat /\ Len(burst) = Len(tasks)
        /\ DOMAIN tasks = 1 .. Len(tasks)
        /\ newTaskList \in Seq(1 .. Len(tasks)) /\ NoTwice(newTaskList)
        /\ newTaskList # << >> => nextTask \in Range(newTaskList)
    BY FileFacts DEF SchedulerInv, ListInv
  <2>2. DOMAIN newTaskList = 1 .. Len(newTaskList) /\ Len(newTaskList) \in Nat
    BY <2>1, LenProperties
  <2>3. newTaskList # << >> /\ program \in Rotating
    <3>1. newTaskList # << >>
      BY EmptyList
    <3>2. QED
      BY <3>1 DEF SchedulerInv, ListInv
  <2>4. PICK n \in 1 .. Len(newTaskList) : newTaskList[n] = nextTask
    BY <2>1, <2>2, <2>3 DEF Range
  <2>5. PICK j \in 1 .. Len(newTaskList) : newTaskList[j] = t
    BY <2>2 DEF Range
  <2>6. /\ Around \in Seq(1 .. Len(tasks)) /\ Len(Around) = Len(newTaskList)
        /\ \A k \in 1 .. Len(newTaskList) :
             Around[k] = newTaskList[IF k <= Len(newTaskList) - n + 1 THEN n + k - 1
                                     ELSE n + k - 1 - Len(newTaskList)]
    <3>1. Around = TurnedTo(newTaskList, newTaskList[n])
      BY <2>3, <2>4 DEF Around
    <3>2. QED
      BY <2>1, <3>1, TurnedToIs
  <2> DEFINE k == IF n <= j THEN j - n + 1 ELSE j - n + 1 + Len(newTaskList)
  <2>7. k \in 1 .. Len(newTaskList) /\ Around[k] = t
    <3>1. /\ k \in 1 .. Len(newTaskList)
          /\ (IF k <= Len(newTaskList) - n + 1 THEN n + k - 1
              ELSE n + k - 1 - Len(newTaskList)) = j
      BY <2>2, <2>4, <2>5
    <3> HIDE DEF k
    <3>2. QED
      BY <2>5, <2>6, <3>1
  <2> HIDE DEF k
  <2>8. /\ curTime - finish[t] <= (Len(tasks) - k) * QUANTUM
        /\ curTime \in Nat /\ finish \in [DOMAIN tasks -> Nat]
    <3>1. k \in DOMAIN Around
      BY <2>6, <2>7, LenProperties
    <3>2. QED
      BY <2>3, <2>7, <3>1 DEF SchedulerInv, TurnInv
  <2>9. t \in DOMAIN tasks /\ finish[t] \in Nat
    BY <2>1, <2>5, <2>8, ElementOfSeq
  <2>10. /\ (Len(tasks) - k) * QUANTUM \in Int
         /\ (Len(tasks) - 1) * QUANTUM \in Int
         /\ (Len(tasks) - k) * QUANTUM <= (Len(tasks) - 1) * QUANTUM
    <3>1. QUANTUM \in Nat /\ k - 1 \in Nat
      BY <2>2, <2>7, SchedulerAssumption
    <3>2. (k - 1) * QUANTUM \in Nat
      BY <3>1
    <3>3. (Len(tasks) - k) * QUANTUM + (k - 1) * QUANTUM = (Len(tasks) - 1) * QUANTUM
      BY <2>1, <2>2, <2>7, <3>1
    <3>4. (Len(tasks) - k) * QUANTUM \in Int /\ (Len(tasks) - 1) * QUANTUM \in Int
      BY <2>1, <2>2, <2>7, <3>1
    <3>5. QED
      BY <3>2, <3>3, <3>4
  <2>11. QED
    BY <2>8, <2>9, <2>10
<1>2. QED
  BY <1>1, InvHolds, PTL

-----------------------------------------------------------------------------
(***************************************************************************)
(* The queue of ReadyQueue.  A set of tasks can be put in the order of the *)
(* policy in one and only one way.                                         *)
(***************************************************************************)
Before(a, b) == Queue!Precedes(a, b)

IsTurn(S, s) ==
  /\ s \in [1 .. Cardinality(S) -> S]
  /\ \A t \in S : \E i \in DOMAIN s : s[i] = t
  /\ \A i, j \in DOMAIN s : i < j => Before(s[i], s[j])

\* The policies are strict orders of all tasks.
LEMMA PolicyIsOrder ==
  ASSUME tasks \in Schedules, program \in OneShot \cup Rotating
  PROVE  /\ \A a \in DOMAIN tasks : ~ Before(a, a)
         /\ \A a, b \in DOMAIN tasks : Before(a, b) => ~ Before(b, a)
         /\ \A a, b \in DOMAIN tasks : a # b => Before(a, b) \/ Before(b, a)
         /\ \A a, b, c \in DOMAIN tasks : Before(a, b) /\ Before(b, c) => Before(a, c)
<1> USE DEF Before, Queue!Precedes
<1>1. /\ DOMAIN tasks \in SUBSET Nat
      /\ \A t \in DOMAIN tasks : tasks[t].burst \in Int /\ tasks[t].priority \in Int
  BY FileFacts
<1> DEFINE bu(t) == tasks[t].burst
           pr(t) == tasks[t].priority
<1>2. \A t \in DOMAIN tasks : t \in Int /\ bu(t) \in Int /\ pr(t) \in Int
  BY <1>1
<1>3. CASE program \in {"fcfs", "rr"}
  <2>1. \A a, b : Before(a, b) <=> a < b
    BY <1>3
  <2> HIDE DEF Before
  <2>2. QED
    BY <1>2, <2>1
<1>4. CASE program = "sjf"
  <2>1. \A a, b : Before(a, b) <=> \/ bu(a) < bu(b)
                                   \/ bu(a) = bu(b) /\ a > b
    BY <1>4
  <2> HIDE DEF Before, bu
  <2>2. QED
    BY <1>2, <2>1
<1>5. CASE program = "priority"
  <2>1. \A a, b : Before(a, b) <=> \/ pr(a) > pr(b)
                                   \/ pr(a) = pr(b) /\ a > b
    BY <1>5
  <2> HIDE DEF Before, pr
  <2>2. QED
    BY <1>2, <2>1
<1>6. CASE program = "priority_rr"
  <2>1. \A a, b : Before(a, b) <=> \/ pr(a) > pr(b)
                                   \/ pr(a) = pr(b) /\ a < b
    BY <1>6
  <2> HIDE DEF Before, pr
  <2>2. QED
    BY <1>2, <2>1
<1>7. QED
  BY <1>3, <1>4, <1>5, <1>6 DEF OneShot, Rotating

\* Of some sets of tasks one has no smaller one among them.
LEMMA SmallestSet ==
  ASSUME NEW C, IsFiniteSet(C), NEW Bad \in SUBSET SUBSET C, Bad # {}
  PROVE  \E s \in Bad : \A x \in s : s \ {x} \notin Bad
<1> DEFINE Sizes == {Cardinality(s) : s \in Bad}
<1>1. \A s \in Bad : IsFiniteSet(s) /\ Cardinality(s) \in Nat
  BY FS_Subset, FS_CardinalityType
<1>2. Sizes \in SUBSET Nat /\ Sizes # {}
  BY <1>1
<1>3. PICK n \in Sizes : \A m \in Sizes : n <= m
  <2> HIDE DEF Sizes
  <2>1. QED
    BY <1>2, LeastOf
<1>4. PICK s \in Bad : \A t \in Bad : Cardinality(s) <= Cardinality(t)
  BY <1>3
<1>5. \A x \in s : s \ {x} \notin Bad
  <2> TAKE x \in s
  <2>1. Cardinality(s \ {x}) = Cardinality(s) - 1
    BY <1>1, FS_RemoveElement
  <2>2. QED
    BY <1>1, <1>4, <2>1
<1>6. QED
  BY <1>5

LEMMA FirstExists ==
  ASSUME tasks \in Schedules, program \in OneShot \cup Rotating,
         NEW S \in SUBSET DOMAIN tasks, S # {}
  PROVE  \E x \in S : \A y \in S \ {x} : Before(x, y)
<1> DEFINE Has(R) == \E x \in R : \A y \in R \ {x} : Before(x, y)
           Bad    == {R \in SUBSET DOMAIN tasks : R # {} /\ ~ Has(R)}
<1>1. IsFiniteSet(DOMAIN tasks)
  BY FileFacts, FS_Interval
<1>2. Bad = {}
  <2> SUFFICES ASSUME Bad # {} PROVE FALSE
    OBVIOUS
  <2>1. PICK R \in Bad : \A x \in R : R \ {x} \notin Bad
    <3>1. Bad \in SUBSET SUBSET DOMAIN tasks
      OBVIOUS
    <3> HIDE DEF Bad
    <3>2. QED
      BY <1>1, <3>1, SmallestSet
  <2>2. R \in SUBSET DOMAIN tasks /\ R # {} /\ ~ Has(R)
    OBVIOUS
  <2>3. PICK y \in R : TRUE
    BY <2>2
  <2>4. R \ {y} = {} \/ Has(R \ {y})
    BY <2>1, <2>2
  <2>5. CASE R \ {y} = {}
    BY <2>2, <2>3, <2>5
  <2>6. CASE Has(R \ {y})
    <3>1. PICK z \in R \ {y} : \A u \in (R \ {y}) \ {z} : Before(z, u)
      BY <2>6
    <3> HIDE DEF Bad
    <3>2. y \in DOMAIN tasks /\ z \in DOMAIN tasks /\ y # z
      BY <2>2, <2>3, <3>1
    <3>3. Before(y, z) \/ Before(z, y)
      BY <3>2, PolicyIsOrder
    <3>4. CASE Before(z, y)
      BY <2>2, <3>1, <3>4
    <3>5. CASE Before(y, z)
      <4>1. ASSUME NEW u \in R \ {y}
            PROVE  Before(y, u)
        <5>1. u = z \/ Before(z, u)
          BY <3>1
        <5>2. u \in DOMAIN tasks
          BY <2>2
        <5>3. QED
          BY <3>2, <3>5, <5>1, <5>2, PolicyIsOrder
      <4>2. QED
        BY <2>2, <2>3, <4>1
    <3>6. QED
      BY <3>3, <3>4, <3>5
  <2>7. QED
    BY <2>4, <2>5, <2>6
<1>3. S \notin Bad
  BY <1>2, Zenon
<1>4. QED
  BY <1>3

LEMMA TurnExists ==
  ASSUME tasks \in Schedules, program \in OneShot \cup Rotating,
         NEW S \in SUBSET DOMAIN tasks
  PROVE  \E s : IsTurn(S, s)
<1> DEFINE Has(R) == \E s : IsTurn(R, s)
           Bad    == {R \in SUBSET DOMAIN tasks : ~ Has(R)}
<1>1. IsFiniteSet(DOMAIN tasks)
  BY FileFacts, FS_Interval
<1>2. Bad = {}
  <2> SUFFICES ASSUME Bad # {} PROVE FALSE
    OBVIOUS
  <2>1. PICK R \in Bad : \A x \in R : R \ {x} \notin Bad
    <3>1. Bad \in SUBSET SUBSET DOMAIN tasks
      OBVIOUS
    <3> HIDE DEF Bad
    <3>2. QED
      BY <1>1, <3>1, SmallestSet
  <2>2. R \in SUBSET DOMAIN tasks /\ ~ Has(R)
    OBVIOUS
  <2>3. \A x \in R : Has(R \ {x})
    <3> SUFFICES ASSUME NEW x \in R PROVE Has(R \ {x})
      OBVIOUS
    <3>1. R \ {x} \notin Bad /\ R \ {x} \in SUBSET DOMAIN tasks
      BY <2>1, <2>2
    <3> HIDE DEF Has
    <3>2. QED
      BY <3>1
  <2> HIDE DEF Bad
  <2>4. IsFiniteSet(R) /\ Cardinality(R) \in Nat
    BY <1>1, <2>2, FS_Subset, FS_CardinalityType
  <2>5. CASE R = {}
    <3>1. Cardinality(R) = 0
      BY <2>5, FS_EmptySet
    <3>2. IsTurn(R, << >>)
      <4>1. << >> \in [1 .. Cardinality(R) -> R] /\ DOMAIN << >> = {}
        BY <3>1
      <4>2. QED
        BY <2>5, <4>1 DEF IsTurn
    <3>3. QED
      BY <2>2, <3>2
  <2>6. CASE R # {}
    <3>1. PICK x \in R : \A y \in R \ {x} : Before(x, y)
      BY <2>2, <2>6, FirstExists
    <3>2. PICK q : IsTurn(R \ {x}, q)
      BY <2>3, <3>1
    <3>3. Cardinality(R \ {x}) = Cardinality(R) - 1
      BY <2>4, <3>1, FS_RemoveElement
    <3> DEFINE n == Cardinality(R)
               s == [i \in 1 .. n |-> IF i = 1 THEN x ELSE q[i - 1]]
    <3>4. n \in Nat \ {0}
      BY <2>4, <2>6, FS_EmptySet
    <3>5. /\ q \in [1 .. n - 1 -> R \ {x}]
          /\ \A t \in R \ {x} : \E i \in 1 .. n - 1 : q[i] = t
          /\ \A i, j \in 1 .. n - 1 : i < j => Before(q[i], q[j])
      BY <3>2, <3>3 DEF IsTurn
    <3> HIDE DEF n
    <3>6. s \in [1 .. n -> R] /\ DOMAIN s = 1 .. n
      BY <3>1, <3>4, <3>5
    <3>7. \A t \in R : \E i \in DOMAIN s : s[i] = t
      <4> TAKE t \in R
      <4>1. CASE t = x
        <5>1. 1 \in 1 .. n /\ s[1] = t
          BY <3>4, <4>1
        <5>2. QED
          BY <3>6, <5>1
      <4>2. CASE t # x
        <5>1. PICK i \in 1 .. n - 1 : q[i] = t
          BY <3>5, <4>2
        <5>2. i + 1 \in 1 .. n /\ i + 1 # 1 /\ (i + 1) - 1 = i
          BY <3>4
        <5>3. s[i + 1] = t
          BY <5>1, <5>2
        <5>4. QED
          BY <3>6, <5>2, <5>3
      <4>3. QED
        BY <4>1, <4>2
    <3>8. \A i, j \in 1 .. n : i < j => Before(s[i], s[j])
      <4> SUFFICES ASSUME NEW i \in 1 .. n, NEW j \in 1 .. n, i < j
                   PROVE  Before(s[i], s[j])
        OBVIOUS
      <4>1. j - 1 \in 1 .. n - 1 /\ s[j] = q[j - 1] /\ q[j - 1] \in R \ {x}
        BY <3>4, <3>5
      <4>2. CASE i = 1
        BY <3>1, <4>1, <4>2
      <4>3. CASE i # 1
        <5>1. i - 1 \in 1 .. n - 1 /\ s[i] = q[i - 1] /\ i - 1 < j - 1
          BY <3>4, <4>3
        <5>2. QED
          BY <3>5, <4>1, <5>1
      <4>4. QED
        BY <4>2, <4>3
    <3>9. IsTurn(R, s)
      <4> HIDE DEF s
      <4>1. QED
        BY <3>6, <3>7, <3>8 DEF IsTurn, n
    <3>10. QED
      BY <2>2, <3>9
  <2>7. QED
    BY <2>5, <2>6
<1>3. S \notin Bad
  BY <1>2, Zenon
<1>4. QED
  BY <1>3

LEMMA OneTurn ==
  ASSUME tasks \in Schedules, program \in OneShot \cup Rotating,
         NEW S \in SUBSET DOMAIN tasks,
         NEW s, IsTurn(S, s), NEW u, IsTurn(S, u)
  PROVE  s = u
<1> DEFINE n   == Cardinality(S)
           Bad == {i \in 1 .. n : s[i] # u[i]}
<1>1. IsFiniteSet(S) /\ n \in Nat
  <2>1. IsFiniteSet(DOMAIN tasks)
    BY FileFacts, FS_Interval
  <2>2. QED
    BY <2>1, FS_Subset, FS_CardinalityType
<1> HIDE DEF n
<1>2. /\ s \in [1 .. n -> S] /\ DOMAIN s = 1 .. n
      /\ \A t \in S : \E i \in 1 .. n : s[i] = t
      /\ \A i, j \in 1 .. n : i < j => Before(s[i], s[j])
  BY DEF IsTurn, n
<1>3. /\ u \in [1 .. n -> S] /\ DOMAIN u = 1 .. n
      /\ \A t \in S : \E i \in 1 .. n : u[i] = t
      /\ \A i, j \in 1 .. n : i < j => Before(u[i], u[j])
  BY DEF IsTurn, n
<1>4. /\ \A a \in DOMAIN tasks : ~ Before(a, a)
      /\ \A a, b \in DOMAIN tasks : Before(a, b) => ~ Before(b, a)
  BY PolicyIsOrder
<1>5. Bad = {}
  <2> SUFFICES ASSUME Bad # {} PROVE FALSE
    OBVIOUS
  <2>1. PICK i \in Bad : \A j \in Bad : i <= j
    <3>1. Bad \in SUBSET Nat
      OBVIOUS
    <3> HIDE DEF Bad
    <3>2. QED
      BY <3>1, LeastOf
  <2>2. i \in 1 .. n /\ s[i] # u[i] /\ s[i] \in S /\ u[i] \in S
    BY <1>2, <1>3
  <2>3. \A j \in 1 .. n : j < i => s[j] = u[j]
    BY <2>1
  <2>4. PICK k \in 1 .. n : u[k] = s[i]
    BY <1>3, <2>2
  <2>5. PICK m \in 1 .. n : s[m] = u[i]
    BY <1>2, <2>2
  <2>6. k > i
    <3>1. k # i
      BY <2>2, <2>4
    <3>2. ~ (k < i)
      BY <1>2, <1>4, <2>2, <2>3, <2>4
    <3>3. QED
      BY <2>2, <3>1, <3>2
  <2>7. m > i
    <3>1. m # i
      BY <2>2, <2>5
    <3>2. ~ (m < i)
      BY <1>3, <1>4, <2>2, <2>3, <2>5
    <3>3. QED
      BY <2>2, <3>1, <3>2
  <2>8. Before(u[i], u[k]) /\ Before(s[i], s[m])
    BY <1>2, <1>3, <2>2, <2>6, <2>7
  <2>9. QED
    BY <1>4, <2>2, <2>4, <2>5, <2>8
<1>6. s = [i \in 1 .. n |-> s[i]] /\ u = [i \in 1 .. n |-> u[i]]
  BY <1>2, <1>3
<1>7. \A i \in 1 .. n : s[i] = u[i]
  BY <1>5
<1>8. [i \in 1 .. n |-> s[i]] = [i \in 1 .. n |-> u[i]]
  BY <1>7
<1>9. QED
  BY <1>6, <1>8, Zenon

\* What ReadyQueue chooses is that order.
LEMMA InTurnIs ==
  ASSUME tasks \in Schedules, program \in OneShot \cup Rotating,
         NEW S \in SUBSET DOMAIN tasks
  PROVE  IsTurn(S, Queue!InTurn(S)) /\ IsTurn(S, Policy!InTurn(S))
<1> DEFINE Good(s) == /\ \A t \in S : \E i \in DOMAIN s : s[i] = t
                      /\ \A i, j \in DOMAIN s : i < j => Before(s[i], s[j])
           chosen  == CHOOSE s \in [1 .. Cardinality(S) -> S] : Good(s)
<1>1. \E s \in [1 .. Cardinality(S) -> S] : Good(s)
  BY TurnExists DEF IsTurn
<1>2. chosen \in [1 .. Cardinality(S) -> S] /\ Good(chosen)
  <2> HIDE DEF Good
  <2>1. QED
    BY <1>1, Zenon
<1>3. IsTurn(S, chosen)
  <2> HIDE DEF chosen
  <2>1. QED
    BY <1>2 DEF IsTurn
<1>4. Queue!InTurn(S) = chosen
  BY DEF Queue!InTurn, Before, Queue!Cardinality, Cardinality, Queue!IsFiniteSet, IsFiniteSet
<1>5. Policy!InTurn(S) = chosen
  BY DEF Policy!InTurn, Before, Queue!Precedes, Policy!Precedes, Policy!Cardinality, Cardinality, Policy!IsFiniteSet, IsFiniteSet
<1>6. QED
  BY <1>3, <1>4, <1>5, Zenon

\* The one that goes before all others is the head, and the others are the tail.
LEMMA FirstServed ==
  ASSUME tasks \in Schedules, program \in OneShot \cup Rotating,
         NEW S \in SUBSET DOMAIN tasks, NEW s, IsTurn(S, s),
         NEW t \in S, \A x \in S \ {t} : Before(t, x)
  PROVE  s # << >> /\ Head(s) = t /\ IsTurn(S \ {t}, Tail(s))
<1> DEFINE n == Cardinality(S)
<1>1. /\ IsFiniteSet(S) /\ n \in Nat \ {0} /\ Cardinality(S \ {t}) = n - 1
  <2>1. IsFiniteSet(S)
    <3>1. IsFiniteSet(DOMAIN tasks)
      BY FileFacts, FS_Interval
    <3>2. QED
      BY <3>1, FS_Subset
  <2>2. n \in Nat /\ Cardinality(S \ {t}) = n - 1
    BY <2>1, FS_CardinalityType, FS_RemoveElement
  <2>3. n # 0
    BY <2>1, FS_EmptySet
  <2>4. QED
    BY <2>1, <2>2, <2>3
<1> HIDE DEF n
<1>2. /\ s \in [1 .. n -> S] /\ DOMAIN s = 1 .. n
      /\ \A x \in S : \E i \in 1 .. n : s[i] = x
      /\ \A i, j \in 1 .. n : i < j => Before(s[i], s[j])
  BY DEF IsTurn, n
<1>3. s \in Seq(S) /\ Len(s) = n
  <2>1. s \in Seq(S)
    BY <1>1, <1>2, SeqDef
  <2>2. QED
    BY <1>1, <1>2, <2>1, LenProperties
<1>4. s # << >>
  BY <1>1, <1>3, EmptySeq
<1>5. s[1] = t
  <2>1. PICK i \in 1 .. n : s[i] = t
    BY <1>2
  <2>2. CASE i = 1
    BY <2>1, <2>2
  <2>3. CASE i # 1
    <3>1. 1 \in 1 .. n /\ 1 < i
      BY <1>1, <2>3
    <3>2. Before(s[1], t) /\ s[1] \in S
      BY <1>2, <2>1, <3>1
    <3>3. s[1] # t => Before(t, s[1])
      BY <3>2
    <3>4. t \in DOMAIN tasks /\ s[1] \in DOMAIN tasks
      BY <3>2
    <3>5. QED
      BY <3>2, <3>3, <3>4, PolicyIsOrder
  <2>4. QED
    BY <2>2, <2>3
<1>6. /\ Tail(s) \in Seq(S) /\ Len(Tail(s)) = n - 1
      /\ \A i \in 1 .. n - 1 : Tail(s)[i] = s[i + 1]
  BY <1>3, <1>4, HeadTailProperties
<1> DEFINE q == Tail(s)
<1>7. DOMAIN q = 1 .. n - 1
  BY <1>6, LenProperties
<1>8. \A i \in 1 .. n - 1 : i + 1 \in 1 .. n /\ q[i] = s[i + 1] /\ q[i] \in S \ {t}
  <2> TAKE i \in 1 .. n - 1
  <2>1. i + 1 \in 1 .. n /\ 1 \in 1 .. n /\ 1 < i + 1
    BY <1>1
  <2>2. q[i] = s[i + 1] /\ s[i + 1] \in S /\ Before(s[1], s[i + 1])
    BY <1>2, <1>6, <2>1
  <2>3. ~ Before(t, t)
    BY PolicyIsOrder
  <2>4. QED
    BY <1>5, <2>1, <2>2, <2>3
<1>9. q \in [1 .. n - 1 -> S \ {t}]
  <2>1. q = [i \in 1 .. n - 1 |-> q[i]]
    BY <1>6, <1>7, LenProperties
  <2> HIDE DEF q
  <2>2. QED
    BY <1>8, <2>1
<1>10. \A x \in S \ {t} : \E i \in 1 .. n - 1 : q[i] = x
  <2> TAKE x \in S \ {t}
  <2>1. PICK i \in 1 .. n : s[i] = x
    BY <1>2
  <2>2. i - 1 \in 1 .. n - 1 /\ (i - 1) + 1 = i
    BY <1>1, <1>5, <2>1
  <2>3. q[i - 1] = x
    BY <1>8, <2>1, <2>2
  <2>4. QED
    BY <2>2, <2>3
<1>11. \A i, j \in 1 .. n - 1 : i < j => Before(q[i], q[j])
  <2> SUFFICES ASSUME NEW i \in 1 .. n - 1, NEW j \in 1 .. n - 1, i < j
               PROVE  Before(q[i], q[j])
    OBVIOUS
  <2>1. i + 1 \in 1 .. n /\ j + 1 \in 1 .. n /\ i + 1 < j + 1
    BY <1>1
  <2>2. QED
    BY <1>2, <1>8, <2>1
<1>12. IsTurn(S \ {t}, q)
  <2> HIDE DEF q
  <2>1. QED
    BY <1>1, <1>7, <1>9, <1>10, <1>11 DEF IsTurn
<1>13. QED
  BY <1>4, <1>5, <1>12

-----------------------------------------------------------------------------
(***************************************************************************)
(* The lists and the times as a queue and its times.                       *)
(***************************************************************************)
Latest(list) == \A j, k \in DOMAIN list : j < k => list[j] > list[k]
Sorted(list) == \A j, k \in DOMAIN list : j < k => Before(list[j], list[k])

\* The lists are in the orders the searches rely on.
ListsOrdered ==
  /\ Latest(taskList)
  /\ Range(taskList) \cup Range(newTaskList) \cup freed = 1 .. Len(burst)
  /\ pc = "rearrange" =>
       /\ Sorted(newTaskList)
       /\ \A t \in Range(taskList), u \in Range(newTaskList) : Before(t, u)
  /\ pc \in {"add", "rearrange"} \/ program \in OneShot =>
       \A t \in 1 .. Len(burst) : burst[t] = tasks[t].burst

\* The times tell which of the tasks that are left have been served.
TimesTell ==
  /\ response \in [DOMAIN tasks -> Times] /\ finish \in [DOMAIN tasks -> Times]
  /\ pc \in {"add", "rearrange"} \/ program \in OneShot =>
       \A t \in DOMAIN tasks \ freed : response[t] = Unwritten
  /\ program \in Rotating /\ pc # "add" =>
       \A t \in DOMAIN tasks \ freed : finish[t] = 0 <=> response[t] = Unwritten

QueueInv == ListsOrdered /\ TimesTell

\* Where the tasks are after an insertion.
LEMMA InsertedAt ==
  ASSUME NEW S, NEW list \in Seq(S), NEW t
  PROVE  /\ Len(insert(list, t)) = Len(list) + 1
         /\ DOMAIN insert(list, t) = 1 .. Len(list) + 1
         /\ insert(list, t)[1] = t
         /\ \A k \in 2 .. Len(list) + 1 : insert(list, t)[k] = list[k - 1]
<1> DEFINE all == S \cup {t}
<1>1. list \in Seq(all)
  BY SeqMonotonic
<1>2. /\ <<t>> \in Seq(all) /\ Len(<<t>>) = 1 /\ <<t>>[1] = t /\ Len(list) \in Nat
  BY LenProperties
<1> HIDE DEF all
<1>3. /\ <<t>> \o list \in Seq(all) /\ Len(<<t>> \o list) = 1 + Len(list)
      /\ \A k \in 1 .. 1 + Len(list) :
           (<<t>> \o list)[k] = IF k <= 1 THEN <<t>>[k] ELSE list[k - 1]
  BY <1>1, <1>2, ConcatProperties
<1>4. DOMAIN (<<t>> \o list) = 1 .. Len(list) + 1 /\ Len(<<t>> \o list) = Len(list) + 1
  BY <1>2, <1>3, LenProperties
<1>5. 1 \in 1 .. 1 + Len(list) /\ \A k \in 2 .. Len(list) + 1 : k \in 1 .. 1 + Len(list) /\ ~ (k <= 1)
  BY <1>2
<1>6. QED
  BY <1>2, <1>3, <1>4, <1>5 DEF insert

\* Of the tasks with the least key the search finds the one that came last.
LEMMA SearchIs ==
  ASSUME NEW S \in SUBSET Nat, NEW list \in Seq(S), list # << >>, Latest(list), NEW key,
         \A n \in DOMAIN list : key[list[n]] \in Int
  PROVE  \A x \in Range(list) \ {FirstLeast(list, key)} :
           \/ key[FirstLeast(list, key)] < key[x]
           \/ key[FirstLeast(list, key)] = key[x] /\ FirstLeast(list, key) > x
<1> DEFINE found == FirstLeast(list, key)
<1>1. PICK n \in DOMAIN list :
        /\ found = list[n]
        /\ \A k \in DOMAIN list :
             \/ key[list[n]] < key[list[k]]
             \/ key[list[n]] = key[list[k]] /\ n <= k
  BY SearchFinds
<1>2. DOMAIN list = 1 .. Len(list) /\ Len(list) \in Nat
  BY LenProperties
<1> HIDE DEF found
<1>3. ASSUME NEW x \in Range(list), x # found
      PROVE  key[found] < key[x] \/ (key[found] = key[x] /\ found > x)
  <2>1. PICK k \in DOMAIN list : x = list[k]
    BY DEF Range
  <2>2. k # n
    BY <1>1, <1>3, <2>1
  <2>3. CASE key[list[n]] < key[list[k]]
    BY <1>1, <2>1, <2>3
  <2>4. CASE key[list[n]] = key[list[k]] /\ n <= k
    <3>1. n < k
      BY <1>2, <2>2, <2>4
    <3>2. list[n] > list[k]
      BY <3>1 DEF Latest
    <3>3. QED
      BY <1>1, <2>1, <2>4, <3>2
  <2>5. QED
    BY <1>1, <2>3, <2>4
<1>4. QED
  BY <1>3 DEF found

\* The first of a list came last, and the last of it first.
LEMMA EndsOf ==
  ASSUME NEW S \in SUBSET Nat, NEW list \in Seq(S), list # << >>, Latest(list)
  PROVE  /\ \A x \in Range(list) \ {Last(list)} : Last(list) < x
         /\ \A x \in Range(list) \ {Head(list)} : x < Head(list)
<1>1. DOMAIN list = 1 .. Len(list) /\ Len(list) \in Nat \ {0}
  BY LenProperties, EmptySeq
<1>2. \A k \in 1 .. Len(list) : list[k] \in Nat
  BY ElementOfSeq
<1>3. Last(list) = list[Len(list)] /\ Head(list) = list[1]
  BY <1>1 DEF Last
<1>4. ASSUME NEW x \in Range(list)
      PROVE  (x # Last(list) => Last(list) < x) /\ (x # Head(list) => x < Head(list))
  <2>1. PICK k \in 1 .. Len(list) : x = list[k]
    BY <1>1 DEF Range
  <2>2. k # Len(list) => list[k] > list[Len(list)]
    <3>1. k \in Nat /\ k <= Len(list) /\ Len(list) \in 1 .. Len(list)
      BY <1>1
    <3>2. k # Len(list) => k < Len(list)
      <4>1. \A a, b \in Nat : a <= b /\ a # b => a < b
        OBVIOUS
      <4>2. QED
        BY <1>1, <3>1, <4>1, Zenon
    <3>3. QED
      BY <1>1, <3>1, <3>2 DEF Latest
  <2>3. k # 1 => list[1] > list[k]
    <3>1. k # 1 => 1 < k /\ 1 \in 1 .. Len(list)
      BY <1>1
    <3>2. QED
      BY <1>1, <3>1 DEF Latest
  <2>4. /\ list[k] \in Nat /\ list[Len(list)] \in Nat /\ list[1] \in Nat
    BY <1>1, <1>2
  <2>5. QED
    BY <1>3, <2>1, <2>2, <2>3, <2>4
<1>5. QED
  BY <1>4

\* A deletion keeps the order, and so does the insertion of the next task.
LEMMA StaysLatest ==
  ASSUME NEW S \in SUBSET Nat, NEW list \in Seq(S), Latest(list)
  PROVE  /\ \A i \in 1 .. Len(list) : Latest(RemoveAt(list, i))
         /\ \A t \in Nat : (\A x \in S : x < t) => Latest(insert(list, t))
<1>1. DOMAIN list = 1 .. Len(list) /\ Len(list) \in Nat
  BY LenProperties
<1>2. ASSUME NEW i \in 1 .. Len(list)
      PROVE  Latest(RemoveAt(list, i))
  <2> DEFINE r == RemoveAt(list, i)
  <2>1. /\ r \in Seq(S) /\ Len(r) = Len(list) - 1
        /\ \A k \in 1 .. Len(list) - 1 : r[k] = IF k < i THEN list[k] ELSE list[k + 1]
    BY RemoveAtIs
  <2>2. DOMAIN r = 1 .. Len(list) - 1
    BY <2>1, LenProperties
  <2> HIDE DEF r
  <2>3. ASSUME NEW j \in 1 .. Len(list) - 1, NEW k \in 1 .. Len(list) - 1, j < k
        PROVE  r[j] > r[k]
    <3> DEFINE old(m) == IF m < i THEN m ELSE m + 1
    <3>1. old(j) \in 1 .. Len(list) /\ old(k) \in 1 .. Len(list) /\ old(j) < old(k)
      BY <1>1, <2>3
    <3>2. r[j] = list[old(j)] /\ r[k] = list[old(k)]
      BY <2>1
    <3> HIDE DEF old
    <3>3. QED
      BY <1>1, <3>1, <3>2 DEF Latest
  <2>4. QED
    BY <2>2, <2>3 DEF Latest, r
<1>3. ASSUME NEW t \in Nat, \A x \in S : x < t
      PROVE  Latest(insert(list, t))
  <2> DEFINE new == insert(list, t)
  <2>1. /\ Len(new) = Len(list) + 1 /\ DOMAIN new = 1 .. Len(list) + 1
        /\ new[1] = t /\ \A k \in 2 .. Len(list) + 1 : new[k] = list[k - 1]
    BY InsertedAt
  <2> HIDE DEF new
  <2>2. ASSUME NEW j \in 1 .. Len(list) + 1, NEW k \in 1 .. Len(list) + 1, j < k
        PROVE  new[j] > new[k]
    <3>1. k - 1 \in 1 .. Len(list) /\ new[k] = list[k - 1] /\ list[k - 1] \in S
      <4>1. k - 1 \in 1 .. Len(list) /\ k \in 2 .. Len(list) + 1
        BY <1>1, <2>2
      <4>2. QED
        BY <2>1, <4>1, ElementOfSeq
    <3>2. CASE j = 1
      BY <1>3, <2>1, <3>1, <3>2
    <3>3. CASE j # 1
      <4>1. j - 1 \in 1 .. Len(list) /\ new[j] = list[j - 1] /\ j - 1 < k - 1
        BY <1>1, <2>1, <2>2, <3>3
      <4>2. QED
        BY <1>1, <3>1, <4>1 DEF Latest
    <3>4. QED
      BY <3>2, <3>3
  <2>3. QED
    BY <2>1, <2>2 DEF Latest, new
<1>4. QED
  BY <1>2, <1>3

\* What is put at the head of a sorted list before all of it keeps it sorted.
LEMMA StaysSorted ==
  ASSUME NEW S, NEW list \in Seq(S), NEW t \in S, Sorted(list),
         \A x \in Range(list) : Before(t, x)
  PROVE  Sorted(insert(list, t))
<1> DEFINE new == insert(list, t)
<1>1. /\ Len(new) = Len(list) + 1 /\ DOMAIN new = 1 .. Len(list) + 1
      /\ new[1] = t /\ \A k \in 2 .. Len(list) + 1 : new[k] = list[k - 1]
      /\ DOMAIN list = 1 .. Len(list) /\ Len(list) \in Nat
  BY InsertedAt, LenProperties
<1> HIDE DEF new
<1>2. ASSUME NEW j \in 1 .. Len(list) + 1, NEW k \in 1 .. Len(list) + 1, j < k
      PROVE  Before(new[j], new[k])
  <2>1. k - 1 \in 1 .. Len(list) /\ new[k] = list[k - 1]
    BY <1>1, <1>2
  <2>2. CASE j = 1
    BY <1>1, <2>1, <2>2 DEF Range
  <2>3. CASE j # 1
    <3>1. j - 1 \in 1 .. Len(list) /\ new[j] = list[j - 1] /\ j - 1 < k - 1
      BY <1>1, <1>2, <2>3
    <3>2. QED
      BY <1>1, <2>1, <3>1 DEF Sorted
  <2>4. QED
    BY <2>2, <2>3
<1>3. QED
  BY <1>1, <1>2 DEF Sorted, new

\* What is run goes before all that wait, and what is moved after them.
LEMMA ChosenInTurn ==
  ASSUME ListInv, QueueInv, taskList # << >>, Len(burst) = Len(tasks)
  PROVE  /\ program \in OneShot =>
              \A x \in Range(taskList) \ {taskToRun} : Before(taskToRun, x)
         /\ program \in Rotating =>
              \A x \in Range(taskList) \ {TaskToMove} : Before(x, TaskToMove)
<1>1. /\ Len(tasks) \in Nat /\ DOMAIN tasks = 1 .. Len(tasks)
      /\ \A t \in DOMAIN tasks : tasks[t].burst \in Nat /\ tasks[t].priority \in Int
  BY FileFacts DEF ListInv
<1>2. taskList \in Seq(1 .. Len(tasks)) /\ Latest(taskList)
  BY DEF ListInv, QueueInv, ListsOrdered
<1>3. /\ DOMAIN taskList = 1 .. Len(taskList)
      /\ \A n \in DOMAIN taskList : taskList[n] \in DOMAIN tasks
      /\ Range(taskList) \in SUBSET DOMAIN tasks
  BY <1>1, <1>2, LenProperties, ElementOfSeq DEF Range
<1>4. 1 .. Len(tasks) \in SUBSET Nat
  BY <1>1
<1>5. CASE program = "fcfs"
  <2>1. taskToRun = Last(taskList)
    BY <1>5 DEF taskToRun
  <2>2. \A x \in Range(taskList) \ {taskToRun} : taskToRun < x
    BY <1>2, <1>4, <2>1, EndsOf
  <2>3. QED
    BY <1>5, <2>2 DEF Before, Queue!Precedes, Rotating
<1>6. CASE program = "rr"
  <2>1. TaskToMove = Head(taskList)
    BY <1>6 DEF TaskToMove
  <2>2. \A x \in Range(taskList) \ {TaskToMove} : x < TaskToMove
    BY <1>2, <1>4, <2>1, EndsOf
  <2>3. QED
    BY <1>6, <2>2 DEF Before, Queue!Precedes, OneShot
<1>7. ASSUME NEW key, \A t \in DOMAIN tasks : key[t] \in Int
      PROVE  /\ FirstLeast(taskList, key) \in Range(taskList)
             /\ \A x \in Range(taskList) \ {FirstLeast(taskList, key)} :
                  \/ key[FirstLeast(taskList, key)] < key[x]
                  \/ key[FirstLeast(taskList, key)] = key[x]
                     /\ FirstLeast(taskList, key) > x
  <2>1. \A n \in DOMAIN taskList : key[taskList[n]] \in Int
    BY <1>3, <1>7
  <2>2. FirstLeast(taskList, key) \in Range(taskList)
    BY <1>2, <2>1, SearchFinds DEF Range
  <2>3. QED
    BY <1>2, <1>4, <2>1, <2>2, SearchIs
<1>8. CASE program = "sjf"
  <2>1. taskToRun = FirstLeast(taskList, burst)
    BY <1>8 DEF taskToRun
  <2>2. \A t \in DOMAIN tasks : burst[t] = tasks[t].burst
    BY <1>1, <1>8 DEF QueueInv, ListsOrdered, OneShot
  <2>3. \A t \in DOMAIN tasks : burst[t] \in Int
    BY <1>1, <2>2
  <2> DEFINE run == taskToRun
  <2> HIDE DEF run
  <2>4. /\ run \in Range(taskList)
        /\ \A x \in Range(taskList) \ {run} :
             burst[run] < burst[x] \/ (burst[run] = burst[x] /\ run > x)
    BY <1>7, <2>1, <2>3 DEF run
  <2>5. \A x \in Range(taskList) \ {run} :
          tasks[run].burst < tasks[x].burst \/ (tasks[run].burst = tasks[x].burst /\ run > x)
    BY <1>3, <2>2, <2>4
  <2>6. \A x \in Range(taskList) \ {run} : Before(run, x)
    BY <1>8, <2>5 DEF Before, Queue!Precedes
  <2>7. QED
    BY <1>8, <2>6 DEF Rotating, run
<1>9. CASE program = "priority"
  <2> DEFINE key == [t \in DOMAIN tasks |-> - tasks[t].priority]
             run == taskToRun
  <2>1. run = FirstLeast(taskList, key)
    BY <1>9 DEF taskToRun
  <2>2. \A t \in DOMAIN tasks : key[t] = - tasks[t].priority /\ key[t] \in Int
    BY <1>1
  <2> HIDE DEF run, key
  <2>3. /\ run \in Range(taskList)
        /\ \A x \in Range(taskList) \ {run} :
             key[run] < key[x] \/ (key[run] = key[x] /\ run > x)
    BY <1>7, <2>1, <2>2
  <2>4. \A x \in Range(taskList) \ {run} :
          \/ tasks[run].priority > tasks[x].priority
          \/ tasks[run].priority = tasks[x].priority /\ run > x
    <3> TAKE x \in Range(taskList) \ {run}
    <3> DEFINE a == tasks[run].priority
               b == tasks[x].priority
    <3>1. a \in Int /\ b \in Int /\ key[run] = - a /\ key[x] = - b
      BY <1>1, <1>3, <2>2, <2>3
    <3>2. key[run] < key[x] \/ (key[run] = key[x] /\ run > x)
      BY <2>3
    <3> HIDE DEF a, b
    <3>3. a > b \/ (a = b /\ run > x)
      BY <3>1, <3>2
    <3>4. QED
      BY <3>3 DEF a, b
  <2>5. \A x \in Range(taskList) \ {run} : Before(run, x)
    BY <1>9, <2>4 DEF Before, Queue!Precedes
  <2>6. QED
    BY <1>9, <2>5 DEF Rotating, run
<1>10. CASE program = "priority_rr"
  <2> DEFINE key  == [t \in DOMAIN tasks |-> tasks[t].priority]
             move == TaskToMove
  <2>1. move = FirstLeast(taskList, key)
    BY <1>10 DEF TaskToMove
  <2>2. \A t \in DOMAIN tasks : key[t] = tasks[t].priority /\ key[t] \in Int
    BY <1>1
  <2> HIDE DEF move, key
  <2>3. /\ move \in Range(taskList)
        /\ \A x \in Range(taskList) \ {move} :
             key[move] < key[x] \/ (key[move] = key[x] /\ move > x)
    BY <1>7, <2>1, <2>2
  <2>4. \A x \in Range(taskList) \ {move} :
          \/ tasks[x].priority > tasks[move].priority
          \/ tasks[x].priority = tasks[move].priority /\ x < move
    <3> TAKE x \in Range(taskList) \ {move}
    <3>1. x \in DOMAIN tasks /\ move \in DOMAIN tasks /\ x \in Int /\ move \in Int
      BY <1>1, <1>3, <2>3
    <3>2. key[move] < key[x] \/ (key[move] = key[x] /\ move > x)
      BY <2>3
    <3>3. /\ key[x] = tasks[x].priority /\ key[x] \in Int
          /\ key[move] = tasks[move].priority /\ key[move] \in Int
      BY <2>2, <3>1
    <3>4. QED
      BY <3>1, <3>2, <3>3
  <2>5. \A x \in Range(taskList) \ {move} : Before(x, move)
    BY <1>10, <2>4 DEF Before, Queue!Precedes
  <2>6. QED
    BY <1>10, <2>5 DEF OneShot, move
<1>11. QED
  BY <1>5, <1>6, <1>8, <1>9, <1>10 DEF ListInv, OneShot, Rotating

LEMMA QueueInit == Init => QueueInv
<1> SUFFICES ASSUME Init PROVE QueueInv
  OBVIOUS
<1>1. /\ burst = << >> /\ taskList = << >> /\ newTaskList = << >> /\ pc = "add"
      /\ freed = {}
      /\ response = [t \in DOMAIN tasks |-> Unwritten]
      /\ finish = [t \in DOMAIN tasks |-> Unwritten]
  BY DEF Init
<1>2. Range(<< >>) = {} /\ 1 .. Len(<< >>) = {}
  BY EmptyList
<1>3. ListsOrdered
  BY <1>1, <1>2 DEF ListsOrdered, Latest
<1>4. TimesTell
  BY <1>1 DEF TimesTell, Times
<1>5. QED
  BY <1>3, <1>4 DEF QueueInv

LEMMA AddQueue ==
  ASSUME SchedulerInv, QueueInv, Add
  PROVE  QueueInv'
<1> DEFINE t == Len(burst) + 1
<1>1. /\ pc = "add" /\ Len(burst) < Len(tasks)
      /\ burst' = Append(burst, tasks[t].burst) /\ taskList' = insert(taskList, t)
      /\ UNCHANGED <<program, tasks, pc, newTaskList, response, finish, freed>>
  BY DEF Add, times
<1>2. /\ Len(tasks) \in Nat /\ DOMAIN tasks = 1 .. Len(tasks)
      /\ \A k \in DOMAIN tasks : tasks[k].burst \in Nat
      /\ burst \in Seq(Nat) /\ newTaskList = << >> /\ freed = {}
      /\ taskList \in Seq(1 .. Len(burst))
  BY <1>1, FileFacts DEF SchedulerInv, ListInv
<1>3. Len(burst) \in Nat /\ t \in Nat /\ t \in DOMAIN tasks
  BY <1>1, <1>2, LenProperties
<1>4. /\ Len(burst') = Len(burst) + 1 /\ burst'[Len(burst) + 1] = tasks[t].burst
      /\ \A k \in 1 .. Len(burst) : burst'[k] = burst[k]
  BY <1>1, <1>2, <1>3, AppendProperties
<1>5. /\ 1 .. Len(burst) \in SUBSET Nat /\ (\A x \in 1 .. Len(burst) : x < t)
      /\ 1 .. t = (1 .. Len(burst)) \cup {t}
  BY <1>3
<1>6. Latest(taskList')
  <2>1. Latest(taskList)
    BY DEF QueueInv, ListsOrdered
  <2> HIDE DEF t
  <2>2. Latest(insert(taskList, t))
    BY <1>2, <1>3, <1>5, <2>1, StaysLatest
  <2>3. QED
    BY <1>1, <2>2
<1>7. Range(taskList') \cup Range(newTaskList') \cup freed' = 1 .. Len(burst')
  <2>1. Range(taskList) = 1 .. Len(burst)
    BY <1>2, EmptyList DEF QueueInv, ListsOrdered
  <2>2. taskList \in Seq(1 .. t) /\ t \in 1 .. t
    <3> HIDE DEF t
    <3>1. 1 .. Len(burst) \subseteq 1 .. t /\ t \in 1 .. t
      BY <1>5
    <3>2. QED
      BY <1>2, <3>1, SeqMonotonic
  <2>3. Range(insert(taskList, t)) = Range(taskList) \cup {t}
    <3> DEFINE S == 1 .. t
    <3>1. taskList \in Seq(S) /\ t \in S
      BY <2>2
    <3> HIDE DEF t, S
    <3>2. QED
      BY <3>1, Inserted
  <2>4. QED
    BY <1>1, <1>2, <1>4, <1>5, <2>1, <2>3, EmptyList
<1>8. \A k \in 1 .. Len(burst') : burst'[k] = tasks'[k].burst
  <2> SUFFICES ASSUME NEW k \in 1 .. Len(burst') PROVE burst'[k] = tasks[k].burst
    BY <1>1
  <2>1. k = t \/ k \in 1 .. Len(burst)
    BY <1>3, <1>4
  <2>2. CASE k = t
    BY <1>4, <2>2
  <2>3. CASE k \in 1 .. Len(burst)
    <3>1. burst[k] = tasks[k].burst
      BY <1>1, <2>3 DEF QueueInv, ListsOrdered
    <3>2. QED
      BY <1>4, <2>3, <3>1
  <2>4. QED
    BY <2>1, <2>2, <2>3
<1>9. ListsOrdered'
  <2>1. pc' # "rearrange"
    BY <1>1
  <2>2. QED
    BY <1>6, <1>7, <1>8, <2>1 DEF ListsOrdered
<1>10. TimesTell'
  BY <1>1 DEF QueueInv, TimesTell
<1>11. QED
  BY <1>9, <1>10 DEF QueueInv

LEMMA BeginQueue ==
  ASSUME SchedulerInv, QueueInv, ScheduleBegins
  PROVE  QueueInv'
<1>1. /\ pc = "add"
      /\ program \in OneShot => pc' = "run" /\ finish' = finish
      /\ program \notin OneShot => pc' = "rearrange" /\ finish' = [t \in DOMAIN tasks |-> 0]
      /\ UNCHANGED <<program, tasks, burst, taskList, newTaskList, response, freed>>
  BY DEF ScheduleBegins, lists
<1>2. /\ newTaskList = << >> /\ (program \in OneShot <=> program \notin Rotating)
  BY <1>1 DEF SchedulerInv, ListInv, OneShot, Rotating
<1>3. Sorted(newTaskList) /\ Sorted(newTaskList')
  BY <1>1, <1>2 DEF Sorted
<1>4. \A u \in Range(newTaskList) : FALSE
  BY <1>2, EmptyList
<1>5. ListsOrdered'
  <2>1. Sorted(newTaskList)'
    BY <1>1, <1>2 DEF Sorted
  <2>2. \A u \in Range(newTaskList)' : FALSE
    BY <1>1, <1>4
  <2>3. (Latest(taskList))' /\ (\A t \in 1 .. Len(burst) : burst[t] = tasks[t].burst)'
    BY <1>1 DEF QueueInv, ListsOrdered, Latest
  <2>4. (Range(taskList) \cup Range(newTaskList) \cup freed = 1 .. Len(burst))'
    BY <1>1 DEF QueueInv, ListsOrdered
  <2>5. QED
    BY <2>1, <2>2, <2>3, <2>4 DEF ListsOrdered
<1>6. \A t \in DOMAIN tasks \ freed : response[t] = Unwritten
  BY <1>1 DEF QueueInv, TimesTell
<1>7. TimesTell'
  <2>1. finish' \in [DOMAIN tasks -> Times]
    BY <1>1 DEF QueueInv, TimesTell, Times
  <2>2. program \in Rotating => \A t \in DOMAIN tasks : finish'[t] = 0
    BY <1>1, <1>2
  <2>3. response \in [DOMAIN tasks -> Times]
    BY DEF QueueInv, TimesTell
  <2>4. QED
    BY <1>1, <1>2, <1>6, <2>1, <2>2, <2>3 DEF TimesTell
<1>8. QED
  BY <1>5, <1>7 DEF QueueInv

LEMMA RearrangeQueue ==
  ASSUME NamesDiffer, SchedulerInv, QueueInv, Rearrange
  PROVE  QueueInv'
<1> DEFINE t == TaskToMove
<1>1. /\ pc = "rearrange" /\ taskList # << >>
      /\ taskList' = delete(taskList, t) /\ newTaskList' = insert(newTaskList, t)
      /\ UNCHANGED <<program, tasks, pc, burst, response, finish, freed>>
  BY DEF Rearrange, times
<1>2. /\ tasks \in Schedules /\ program \in Rotating
      /\ Len(burst) = Len(tasks) /\ Len(tasks) \in Nat
      /\ DOMAIN tasks = 1 .. Len(tasks)
      /\ taskList \in Seq(1 .. Len(tasks)) /\ NoTwice(taskList)
      /\ newTaskList \in Seq(1 .. Len(tasks)) /\ NoTwice(newTaskList)
      /\ Range(taskList) \cap Range(newTaskList) = {} /\ freed = {}
  BY <1>1, FileFacts DEF SchedulerInv, ListInv
<1>3. /\ t \in Range(taskList)
      /\ \A x \in Range(taskList) \ {t} : Before(x, t)
  BY <1>1, <1>2, ChosenIsThere, ChosenInTurn DEF SchedulerInv
<1>4. t \in 1 .. Len(tasks)
  BY <1>2, <1>3, ElementOfSeq, LenProperties DEF Range
<1>5. /\ Latest(taskList)
      /\ Range(taskList) \cup Range(newTaskList) \cup freed = 1 .. Len(burst)
      /\ Sorted(newTaskList)
      /\ \A x \in Range(taskList), u \in Range(newTaskList) : Before(x, u)
      /\ \A k \in 1 .. Len(burst) : burst[k] = tasks[k].burst
  BY <1>1 DEF QueueInv, ListsOrdered
<1> HIDE DEF t
<1>6. Range(taskList') = Range(taskList) \ {t}
  <2>1. Range(delete(taskList, t)) = Range(taskList) \ {t}
    BY <1>2, <1>3, DeletedOfAll
  <2>2. QED
    BY <1>1, <2>1
<1>7. Latest(taskList')
  <2>1. /\ Place(taskList, t) \in 1 .. Len(taskList)
        /\ taskList' = RemoveAt(taskList, Place(taskList, t))
    BY <1>1, <1>2, <1>3, DeleteIs
  <2>2. 1 .. Len(tasks) \in SUBSET Nat
    BY <1>2
  <2> DEFINE S == 1 .. Len(tasks)
  <2> HIDE DEF S
  <2>3. S \in SUBSET Nat /\ taskList \in Seq(S)
    BY <1>2, <2>2 DEF S
  <2>4. QED
    BY <1>5, <2>1, <2>3, StaysLatest
<1>8. Range(newTaskList') = Range(newTaskList) \cup {t} /\ Sorted(newTaskList')
  <2> DEFINE S == 1 .. Len(tasks)
  <2>1. newTaskList \in Seq(S) /\ t \in S
    BY <1>2, <1>4
  <2>2. \A x \in Range(newTaskList) : Before(t, x)
    BY <1>3, <1>5
  <2> HIDE DEF S
  <2>3. QED
    <3>1. Range(insert(newTaskList, t)) = Range(newTaskList) \cup {t}
      BY <2>1, Inserted
    <3>2. Sorted(insert(newTaskList, t))
      BY <1>5, <2>1, <2>2, StaysSorted
    <3>3. QED
      BY <1>1, <3>1, <3>2
<1>9. ListsOrdered'
  <2>1. Range(taskList') \cup Range(newTaskList') \cup freed' = 1 .. Len(burst')
    BY <1>1, <1>3, <1>5, <1>6, <1>8
  <2>2. \A x \in Range(taskList'), u \in Range(newTaskList') : Before(x, u)
    BY <1>3, <1>5, <1>6, <1>8
  <2>3. /\ (Sorted(newTaskList))'
        /\ (\A x \in Range(taskList), u \in Range(newTaskList) : Before(x, u))'
    <3>1. \A a, b : (Before(a, b))' <=> Before(a, b)
      BY <1>1 DEF Before, Queue!Precedes
    <3>2. (Sorted(newTaskList))'
      BY <1>8, <3>1 DEF Sorted
    <3>3. (\A x \in Range(taskList), u \in Range(newTaskList) : Before(x, u))'
      BY <2>2, <3>1
    <3>4. QED
      BY <3>2, <3>3
  <2>4. (\A k \in 1 .. Len(burst) : burst[k] = tasks[k].burst)' /\ (Latest(taskList))'
    BY <1>1, <1>5, <1>7 DEF Latest
  <2>5. QED
    BY <2>1, <2>3, <2>4 DEF ListsOrdered
<1>10. TimesTell'
  BY <1>1 DEF QueueInv, TimesTell
<1>11. QED
  BY <1>9, <1>10 DEF QueueInv

LEMMA RearrangedQueue ==
  ASSUME SchedulerInv, QueueInv, Rearranged
  PROVE  QueueInv'
<1>1. /\ pc = "rearrange" /\ pc' = "run"
      /\ UNCHANGED <<program, tasks, burst, taskList, newTaskList, response, finish, freed>>
  BY DEF Rearranged, times
<1>2. program \in Rotating /\ program \notin OneShot
  BY <1>1 DEF SchedulerInv, ListInv, OneShot, Rotating
<1>3. ListsOrdered'
  BY <1>1, <1>2 DEF QueueInv, ListsOrdered, Latest
<1>4. TimesTell'
  BY <1>1, <1>2 DEF QueueInv, TimesTell
<1>5. QED
  BY <1>3, <1>4 DEF QueueInv

\* A program that runs tasks to their end takes each from the list and frees it.
LEMMA RunTaskQueue ==
  ASSUME NamesDiffer, SchedulerInv, QueueInv, RunTask
  PROVE  QueueInv'
<1> DEFINE t == taskToRun
<1>1. /\ pc = "run" /\ pc' = "run" /\ program \in OneShot /\ taskList # << >>
      /\ response' = [response EXCEPT ![t] = curTime]
      /\ curTime' = curTime + burst[t]
      /\ finish' = [finish EXCEPT ![t] = curTime']
      /\ taskList' = delete(taskList, t) /\ freed' = freed \cup {t}
      /\ UNCHANGED <<program, tasks, burst, newTaskList>>
  BY DEF RunTask
<1>2. /\ tasks \in Schedules /\ program \notin Rotating
      /\ Len(burst) = Len(tasks) /\ Len(tasks) \in Nat
      /\ DOMAIN tasks = 1 .. Len(tasks) /\ burst \in Seq(Nat)
      /\ taskList \in Seq(1 .. Len(tasks)) /\ NoTwice(taskList)
  BY <1>1, FileFacts DEF SchedulerInv, ListInv, OneShot, Rotating
<1>3. t \in Range(taskList)
  BY <1>1, <1>2, ChosenIsThere DEF SchedulerInv
<1>4. t \in 1 .. Len(tasks)
  BY <1>2, <1>3, ElementOfSeq, LenProperties DEF Range
<1> HIDE DEF t
<1>5. Range(taskList') = Range(taskList) \ {t}
  <2>1. Range(delete(taskList, t)) = Range(taskList) \ {t}
    BY <1>2, <1>3, DeletedOfAll
  <2>2. QED
    BY <1>1, <2>1
<1>6. Latest(taskList')
  <2>1. /\ Place(taskList, t) \in 1 .. Len(taskList)
        /\ taskList' = RemoveAt(taskList, Place(taskList, t))
    BY <1>1, <1>2, <1>3, DeleteIs
  <2> DEFINE S == 1 .. Len(tasks)
  <2>2. S \in SUBSET Nat /\ taskList \in Seq(S)
    BY <1>2
  <2> HIDE DEF S
  <2>3. Latest(taskList)
    BY DEF QueueInv, ListsOrdered
  <2>4. QED
    BY <2>1, <2>2, <2>3, StaysLatest
<1>7. curTime \in Nat /\ curTime' \in Nat
  <2>1. curTime \in Nat /\ burst[t] \in Nat
    BY <1>2, <1>4, ElementOfSeq DEF SchedulerInv, TurnInv
  <2>2. QED
    BY <1>1, <2>1
<1>8. ListsOrdered'
  <2>1. Range(taskList') \cup Range(newTaskList') \cup freed' = 1 .. Len(burst')
    BY <1>1, <1>3, <1>5 DEF QueueInv, ListsOrdered
  <2>2. (\A k \in 1 .. Len(burst) : burst[k] = tasks[k].burst)' /\ (Latest(taskList))'
    BY <1>1, <1>6 DEF QueueInv, ListsOrdered, Latest
  <2>3. QED
    BY <1>1, <2>1, <2>2 DEF ListsOrdered
<1>9. TimesTell'
  <2>1. /\ response \in [DOMAIN tasks -> Times] /\ finish \in [DOMAIN tasks -> Times]
        /\ \A k \in DOMAIN tasks \ freed : response[k] = Unwritten
    BY <1>1 DEF QueueInv, TimesTell
  <2>2. response' \in [DOMAIN tasks -> Times] /\ finish' \in [DOMAIN tasks -> Times]
    BY <1>1, <1>7, <2>1 DEF Times
  <2>3. \A k \in DOMAIN tasks \ freed' : response'[k] = Unwritten
    BY <1>1, <2>1
  <2>4. QED
    BY <1>1, <1>2, <2>2, <2>3 DEF TimesTell
<1>10. QED
  BY <1>8, <1>9 DEF QueueInv

\* A round robin frees a task when it has got all it needs, and not before.
LEMMA RunSliceQueue ==
  ASSUME NamesDiffer, SchedulerInv, QueueInv, RunSlice
  PROVE  QueueInv'
<1> DEFINE t == nextTask
<1>1. /\ pc = "run" /\ pc' = "run"
      /\ response' = IF finish[t] = 0 THEN [response EXCEPT ![t] = curTime] ELSE response
      /\ curTime' = curTime + Slice(t)
      /\ finish' = [finish EXCEPT ![t] = curTime']
      /\ burst' = [burst EXCEPT ![t] = @ - Slice(t)]
      /\ burst'[t] = 0 => newTaskList' = delete(newTaskList, t) /\ freed' = freed \cup {t}
      /\ burst'[t] # 0 => UNCHANGED <<newTaskList, freed>>
      /\ UNCHANGED <<program, tasks, taskList>>
  BY DEF RunSlice
<1>2. /\ t \in Range(newTaskList) /\ t \in 1 .. Len(tasks) /\ program \in Rotating
      /\ Len(burst) = Len(tasks) /\ burst[t] \in Nat
  BY SliceGoesOn
<1>3. /\ tasks \in Schedules /\ Len(tasks) \in Nat /\ DOMAIN tasks = 1 .. Len(tasks)
      /\ burst \in Seq(Nat) /\ taskList = << >> /\ program \notin OneShot
      /\ newTaskList \in Seq(1 .. Len(tasks)) /\ NoTwice(newTaskList)
      /\ freed \cap Range(newTaskList) = {}
  BY <1>1, <1>2, FileFacts DEF SchedulerInv, ListInv, OneShot, Rotating
<1>4. /\ response \in [DOMAIN tasks -> Times] /\ finish \in [DOMAIN tasks -> Times]
      /\ \A k \in DOMAIN tasks \ freed : finish[k] = 0 <=> response[k] = Unwritten
      /\ curTime \in Nat /\ Unwritten \notin Nat /\ QUANTUM \in Nat \ {0}
  BY <1>1, <1>2, SchedulerAssumption DEF QueueInv, TimesTell, SchedulerInv, TurnInv
<1> HIDE DEF t
<1>5. /\ Slice(t) \in Nat /\ curTime' \in Nat
      /\ burst[t] - Slice(t) # 0 => curTime' # 0
  <2>1. Slice(t) \in Nat
    BY <1>2, SliceIs
  <2>2. burst[t] - Slice(t) # 0 => Slice(t) = QUANTUM
    <3>1. Slice(t) # QUANTUM => Slice(t) = burst[t]
      BY DEF Slice
    <3>2. burst[t] - burst[t] = 0
      BY <1>2
    <3>3. QED
      BY <3>1, <3>2
  <2> DEFINE slice == Slice(t)
  <2> HIDE DEF slice
  <2>3. slice \in Nat /\ curTime' = curTime + slice
    BY <1>1, <2>1 DEF slice
  <2>4. curTime' \in Nat /\ (slice = QUANTUM => curTime' # 0)
    BY <1>4, <2>3
  <2>5. QED
    BY <2>1, <2>2, <2>4 DEF slice
<1>6. burst'[t] = burst[t] - Slice(t)
  <2>1. t \in DOMAIN burst
    BY <1>2, <1>3, LenProperties
  <2>2. QED
    BY <1>1, <2>1
<1>7. Len(burst') = Len(burst)
  <2> DEFINE rest == burst[t] - Slice(t)
  <2>1. rest \in Nat /\ t \in 1 .. Len(burst)
    <3>1. Slice(t) <= burst[t]
      BY <1>2, SliceIs
    <3>2. QED
      BY <1>2, <1>5, <3>1
  <2> HIDE DEF rest
  <2>2. Len([burst EXCEPT ![t] = rest]) = Len(burst)
    BY <1>3, <2>1, ExceptSeq
  <2>3. QED
    BY <1>1, <2>2 DEF rest
<1>8. ListsOrdered'
  <2>1. Range(delete(newTaskList, t)) = Range(newTaskList) \ {t}
    BY <1>2, <1>3, Deleted
  <2>2. Range(newTaskList') \cup freed' = Range(newTaskList) \cup freed
    BY <1>1, <1>2, <2>1
  <2>3. Range(taskList') \cup Range(newTaskList') \cup freed' = 1 .. Len(burst')
    BY <1>1, <1>7, <2>2 DEF QueueInv, ListsOrdered
  <2>4. (Latest(taskList))'
    BY <1>1 DEF QueueInv, ListsOrdered, Latest
  <2>5. QED
    BY <1>1, <1>3, <2>3, <2>4 DEF ListsOrdered
<1>9. TimesTell'
  <2>1. response' \in [DOMAIN tasks -> Times] /\ finish' \in [DOMAIN tasks -> Times]
    <3>1. curTime \in Times /\ curTime' \in Times
      BY <1>4, <1>5 DEF Times
    <3>2. QED
      BY <1>1, <1>4, <3>1
  <2>2. ASSUME NEW k \in DOMAIN tasks \ freed'
        PROVE  finish'[k] = 0 <=> response'[k] = Unwritten
    <3>1. k \in DOMAIN tasks \ freed
      BY <1>1
    <3>2. CASE k # t
      <4>1. finish'[k] = finish[k] /\ response'[k] = response[k]
        BY <1>1, <1>4, <3>2
      <4>2. QED
        BY <1>4, <3>1, <4>1
    <3>3. CASE k = t
      <4>1. burst'[t] # 0
        BY <1>1, <3>3
      <4>2. finish'[k] = curTime' /\ curTime' # 0
        BY <1>1, <1>4, <1>5, <1>6, <3>3, <4>1
      <4>3. CASE finish[t] = 0
        <5>1. response'[k] = curTime
          BY <1>1, <1>4, <3>3, <4>3
        <5>2. QED
          BY <1>4, <4>2, <5>1
      <4>4. CASE finish[t] # 0
        BY <1>1, <1>4, <3>1, <3>3, <4>2, <4>4
      <4>5. QED
        BY <4>3, <4>4
    <3>4. QED
      BY <3>2, <3>3
  <2>3. QED
    BY <1>1, <1>2, <1>3, <2>1, <2>2 DEF TimesTell
<1>10. QED
  BY <1>8, <1>9 DEF QueueInv

LEMMA QueueStep ==
  ASSUME NamesDiffer, SchedulerInv, QueueInv, [Next]_vars
  PROVE  QueueInv'
<1>1. CASE Add
  BY <1>1, AddQueue
<1>2. CASE ScheduleBegins
  BY <1>2, BeginQueue
<1>3. CASE Rearrange
  BY <1>3, RearrangeQueue
<1>4. CASE Rearranged
  BY <1>4, RearrangedQueue
<1>5. CASE RunTask
  BY <1>5, RunTaskQueue
<1>6. CASE RunSlice
  BY <1>6, RunSliceQueue
<1>7. CASE Finished
  <2>1. /\ pc = "run" /\ pc' = "done"
        /\ UNCHANGED <<program, tasks, burst, taskList, newTaskList, response, finish, freed>>
    BY <1>7 DEF Finished, lists, times
  <2>2. ListsOrdered'
    BY <2>1 DEF QueueInv, ListsOrdered, Latest
  <2>3. TimesTell'
    BY <2>1 DEF QueueInv, TimesTell
  <2>4. QED
    BY <2>2, <2>3 DEF QueueInv
<1>8. CASE UNCHANGED vars
  <2>1. UNCHANGED <<program, tasks, pc, burst, taskList, newTaskList, response, finish, freed>>
    BY <1>8 DEF vars, lists, times
  <2>2. ListsOrdered'
    <3>1. \A a, b : (Before(a, b))' <=> Before(a, b)
      BY <2>1 DEF Before, Queue!Precedes
    <3>2. (Sorted(newTaskList))' <=> Sorted(newTaskList)
      BY <2>1, <3>1 DEF Sorted
    <3>3. (Latest(taskList))' <=> Latest(taskList)
      BY <2>1 DEF Latest
    <3>4. QED
      BY <2>1, <3>1, <3>2, <3>3 DEF QueueInv, ListsOrdered
  <2>3. TimesTell'
    BY <2>1 DEF QueueInv, TimesTell
  <2>4. QED
    BY <2>2, <2>3 DEF QueueInv
<1>9. QED
  BY <1>1, <1>2, <1>3, <1>4, <1>5, <1>6, <1>7, <1>8 DEF Next, Running, Terminated

LEMMA QueueInvHolds == ASSUME NamesDiffer PROVE Spec => [](SchedulerInv /\ QueueInv)
<1>1. SchedulerInv /\ QueueInv /\ [Next]_vars => (SchedulerInv /\ QueueInv)'
  BY StepHolds, QueueStep
<1>2. QED
  BY <1>1, InitHolds, QueueInit, PTL DEF Spec

-----------------------------------------------------------------------------
(***************************************************************************)
(* The steps of the programs as steps of the queue.                        *)
(***************************************************************************)
LEMMA FoundIsTurn == SchedulerInv => IsTurn(Range(taskList), FoundInTurn)
<1> SUFFICES ASSUME SchedulerInv PROVE IsTurn(Range(taskList), FoundInTurn)
  OBVIOUS
<1>1. /\ tasks \in Schedules /\ program \in OneShot \cup Rotating
      /\ taskList \in Seq(1 .. Len(burst)) /\ burst \in Seq(Nat) /\ Len(burst) <= Len(tasks)
  BY DEF SchedulerInv, ListInv
<1>2. Range(taskList) \in SUBSET DOMAIN tasks
  <2>1. Range(taskList) \in SUBSET (1 .. Len(burst))
    BY <1>1, ElementOfSeq, LenProperties DEF Range
  <2>2. 1 .. Len(burst) \subseteq DOMAIN tasks
    BY <1>1, FileFacts, LenProperties
  <2>3. QED
    BY <2>1, <2>2
<1>3. IsTurn(Range(taskList), Policy!InTurn(Range(taskList)))
  BY <1>1, <1>2, InTurnIs
<1>4. QED
  BY <1>3 DEF FoundInTurn

LEMMA FoundNext == SchedulerInv' => (IsTurn(Range(taskList), FoundInTurn))'
BY FoundIsTurn, PTL

\* The order of what is found does not change with the policy and the tasks.
LEMMA FoundAfter ==
  ASSUME SchedulerInv', UNCHANGED <<program, tasks>>
  PROVE  IsTurn(Range(taskList'), FoundInTurn')
<1>1. (IsTurn(Range(taskList), FoundInTurn))'
  BY FoundNext
<1>2. \A a, b : (Before(a, b))' <=> Before(a, b)
  BY DEF Before, Queue!Precedes
<1>3. QED
  BY <1>1, <1>2 DEF IsTurn

LEMMA FoundSame ==
  ASSUME SchedulerInv, SchedulerInv', UNCHANGED <<program, tasks, taskList>>
  PROVE  FoundInTurn' = FoundInTurn
<1>1. /\ tasks \in Schedules /\ program \in OneShot \cup Rotating
      /\ taskList \in Seq(1 .. Len(burst)) /\ burst \in Seq(Nat) /\ Len(burst) <= Len(tasks)
  BY DEF SchedulerInv, ListInv
<1>2. Range(taskList) \in SUBSET DOMAIN tasks
  <2>1. Range(taskList) \in SUBSET (1 .. Len(burst))
    BY <1>1, ElementOfSeq, LenProperties DEF Range
  <2>2. 1 .. Len(burst) \subseteq DOMAIN tasks
    BY <1>1, FileFacts, LenProperties
  <2>3. QED
    BY <2>1, <2>2
<1>3. IsTurn(Range(taskList), FoundInTurn) /\ IsTurn(Range(taskList), FoundInTurn')
  BY FoundIsTurn, FoundAfter
<1>4. QED
  BY <1>1, <1>2, <1>3, OneTurn

\* Before schedule has set up its arrays nobody stands in the queue.
LEMMA NotOpen ==
  SchedulerInv /\ QueueInv /\ pc \in {"add", "rearrange"} =>
    /\ ~ (pc \in {"run", "done"}) /\ Standing = << >>
    /\ Left = [t \in DOMAIN tasks |-> tasks[t].burst]
    /\ Ended = [t \in DOMAIN tasks |-> Unwritten]
<1> SUFFICES ASSUME SchedulerInv, QueueInv, pc \in {"add", "rearrange"}
             PROVE  /\ Standing = << >>
                    /\ Left = [t \in DOMAIN tasks |-> tasks[t].burst]
                    /\ Ended = [t \in DOMAIN tasks |-> Unwritten]
  OBVIOUS
<1>1. freed = {} /\ burst \in Seq(Nat)
  BY DEF SchedulerInv, ListInv
<1>2. \A t \in DOMAIN burst : burst[t] = tasks[t].burst
  BY <1>1, LenProperties DEF QueueInv, ListsOrdered
<1>3. Left = [t \in DOMAIN tasks |-> tasks[t].burst]
  BY <1>1, <1>2 DEF Left
<1>4. QED
  BY <1>1, <1>3 DEF Standing, Ended

LEMMA NotOpenYet ==
  (SchedulerInv /\ QueueInv /\ pc \in {"add", "rearrange"})' =>
    (/\ ~ (pc \in {"run", "done"}) /\ Standing = << >>
     /\ Left = [t \in DOMAIN tasks |-> tasks[t].burst]
     /\ Ended = [t \in DOMAIN tasks |-> Unwritten])'
BY NotOpen, PTL

\* What is left and who is through, once all tasks have arrived.
LEMMA LeftIs ==
  ASSUME SchedulerInv, Len(burst) = Len(tasks)
  PROVE  Left = [t \in DOMAIN tasks |-> IF t \in freed THEN 0 ELSE burst[t]]
<1>1. DOMAIN burst = DOMAIN tasks
  BY FileFacts, LenProperties DEF SchedulerInv, ListInv
<1>2. QED
  BY <1>1 DEF Left

LEMMA InitMaps == Init => Queue!Init
<1> SUFFICES ASSUME Init PROVE Queue!Init
  OBVIOUS
<1>1. /\ program \in Programs /\ tasks \in Schedules /\ pc = "add" /\ curTime = 0
      /\ response = [t \in DOMAIN tasks |-> Unwritten]
  BY DEF Init
<1>2. /\ Standing = << >> /\ Left = [t \in DOMAIN tasks |-> tasks[t].burst]
      /\ Ended = [t \in DOMAIN tasks |-> Unwritten] /\ ~ (pc \in {"run", "done"})
  BY <1>1, InitHolds, QueueInit, NotOpen
<1>3. QED
  BY <1>1, <1>2 DEF Queue!Init

\* Reading the file and moving the tasks to the second list are no steps of the queue.
LEMMA SetupMaps ==
  ASSUME SchedulerInv, QueueInv, SchedulerInv', QueueInv',
         pc \in {"add", "rearrange"}, pc' \in {"add", "rearrange"},
         UNCHANGED <<program, tasks, curTime, response>>
  PROVE  UNCHANGED Queue!queueVars
<1>1. /\ Standing = << >> /\ Left = [t \in DOMAIN tasks |-> tasks[t].burst]
      /\ Ended = [t \in DOMAIN tasks |-> Unwritten] /\ ~ (pc \in {"run", "done"})
  BY NotOpen
<1>2. /\ Standing' = << >> /\ Left' = [t \in DOMAIN tasks' |-> tasks'[t].burst]
      /\ Ended' = [t \in DOMAIN tasks' |-> Unwritten] /\ ~ (pc' \in {"run", "done"})
  BY NotOpenYet
<1>3. QED
  BY <1>1, <1>2 DEF Queue!queueVars

\* The queue opens when schedule has its arrays, or has moved the last task.
LEMMA OpenMaps ==
  ASSUME SchedulerInv, QueueInv, pc \in {"add", "rearrange"}, pc' = "run",
         Len(burst) = Len(tasks), UNCHANGED <<program, tasks, burst, curTime, response, freed>>,
         IsTurn(DOMAIN tasks, Standing')
  PROVE  Queue!Open
<1>1. /\ Standing = << >> /\ Left = [t \in DOMAIN tasks |-> tasks[t].burst]
      /\ Ended = [t \in DOMAIN tasks |-> Unwritten] /\ ~ (pc \in {"run", "done"})
  BY NotOpen
<1>2. tasks \in Schedules /\ program \in OneShot \cup Rotating /\ freed = {}
  BY DEF SchedulerInv, ListInv
<1>3. Standing' = Queue!InTurn(DOMAIN tasks)
  BY <1>2, InTurnIs, OneTurn
<1>4. Left' = Left
  BY DEF Left
<1>5. Ended' = Ended
  <2>1. Ended' = [t \in DOMAIN tasks |-> Unwritten]
    BY <1>2 DEF Ended
  <2>2. QED
    BY <1>1, <2>1
<1>6. QED
  BY <1>1, <1>3, <1>4, <1>5 DEF Queue!Open

LEMMA BeginMaps ==
  ASSUME SchedulerInv, QueueInv, SchedulerInv', QueueInv', ScheduleBegins
  PROVE  Queue!Open \/ UNCHANGED Queue!queueVars
<1>1. /\ pc = "add" /\ Len(burst) = Len(tasks)
      /\ program \in OneShot => pc' = "run"
      /\ program \notin OneShot => pc' = "rearrange"
      /\ UNCHANGED <<program, tasks, burst, taskList, curTime, response, freed, newTaskList>>
  BY DEF ScheduleBegins, lists
<1>2. CASE program \notin OneShot
  BY <1>1, <1>2, SetupMaps
<1>3. CASE program \in OneShot
  <2>1. Range(taskList') = DOMAIN tasks
    <3>1. newTaskList = << >> /\ freed = {} /\ DOMAIN tasks = 1 .. Len(tasks)
      BY <1>1, FileFacts DEF SchedulerInv, ListInv
    <3>2. QED
      BY <1>1, <3>1, EmptyList DEF QueueInv, ListsOrdered
  <2>2. IsTurn(DOMAIN tasks, FoundInTurn')
    BY <1>1, <2>1, FoundAfter
  <2>3. Standing' = FoundInTurn'
    BY <1>1, <1>3 DEF Standing
  <2>4. QED
    BY <1>1, <1>3, <2>2, <2>3, OpenMaps
<1>4. QED
  BY <1>2, <1>3

LEMMA RearrangedMaps ==
  ASSUME SchedulerInv, QueueInv, SchedulerInv', QueueInv', Rearranged
  PROVE  Queue!Open
<1>1. /\ pc = "rearrange" /\ taskList = << >> /\ pc' = "run"
      /\ newTaskList # << >> => nextTask' = Head(newTaskList)
      /\ UNCHANGED <<program, tasks, burst, taskList, newTaskList, curTime, response, freed>>
  BY DEF Rearranged, times
<1>2. /\ tasks \in Schedules /\ program \in Rotating /\ program \notin OneShot
      /\ Len(burst) = Len(tasks) /\ Len(tasks) \in Nat /\ DOMAIN tasks = 1 .. Len(tasks)
      /\ newTaskList \in Seq(DOMAIN tasks) /\ NoTwice(newTaskList) /\ freed = {}
  BY <1>1, FileFacts DEF SchedulerInv, ListInv, OneShot, Rotating
<1>3. Len(newTaskList) = Len(tasks) /\ DOMAIN newTaskList = DOMAIN tasks
  <2>1. Len(taskList) + Len(newTaskList) = Len(burst) /\ Len(taskList) = 0
    BY <1>1, EmptyList DEF SchedulerInv, TurnInv
  <2>2. Len(newTaskList) \in Nat /\ DOMAIN newTaskList = 1 .. Len(newTaskList)
    BY <1>2, LenProperties
  <2>3. QED
    BY <1>2, <2>1, <2>2
<1>4. Standing' = newTaskList
  <2>1. Standing' = Around'
    BY <1>1, <1>2 DEF Standing
  <2>2. CASE newTaskList = << >>
    BY <1>1, <2>1, <2>2 DEF Around
  <2>3. CASE newTaskList # << >>
    <3>1. nextTask' = newTaskList[1] /\ 1 \in 1 .. Len(newTaskList)
      BY <1>1, <1>2, <2>3, LenProperties, EmptySeq
    <3>2. Around' = TurnedTo(newTaskList, newTaskList[1])
      BY <1>1, <2>3, <3>1 DEF Around
    <3>3. /\ Around' \in Seq(DOMAIN tasks) /\ Len(Around') = Len(newTaskList)
          /\ \A k \in 1 .. Len(newTaskList) :
               Around'[k] = newTaskList[IF k <= Len(newTaskList) - 1 + 1 THEN 1 + k - 1
                                        ELSE 1 + k - 1 - Len(newTaskList)]
      BY <1>2, <3>1, <3>2, TurnedToIs
    <3>4. \A k \in 1 .. Len(newTaskList) : Around'[k] = newTaskList[k]
      <4> TAKE k \in 1 .. Len(newTaskList)
      <4>1. k <= Len(newTaskList) - 1 + 1 /\ 1 + k - 1 = k
        BY <1>2, <1>3
      <4>2. QED
        BY <3>3, <4>1
    <3>5. Around' = newTaskList
      BY <1>2, <3>3, <3>4, SeqEqual
    <3>6. QED
      BY <2>1, <3>5
  <2>4. QED
    BY <2>2, <2>3
<1>5. IsTurn(DOMAIN tasks, newTaskList)
  <2>1. Cardinality(DOMAIN tasks) = Len(tasks)
    <3> DEFINE n == Len(tasks)
    <3>1. n \in Nat /\ DOMAIN tasks = 1 .. n
      BY <1>2
    <3> HIDE DEF n
    <3>2. Cardinality(1 .. n) = IF 1 > n THEN 0 ELSE n - 1 + 1
      BY <3>1, FS_Interval
    <3>3. Cardinality(1 .. n) = n
      BY <3>1, <3>2
    <3>4. QED
      BY <3>1, <3>3 DEF n
  <2>2. newTaskList \in [1 .. Len(tasks) -> DOMAIN tasks]
    BY <1>2, <1>3, ElementOfSeq, LenProperties
  <2>3. Range(newTaskList) = DOMAIN tasks
    BY <1>1, <1>2, EmptyList DEF QueueInv, ListsOrdered
  <2>4. \A t \in DOMAIN tasks : \E i \in DOMAIN newTaskList : newTaskList[i] = t
    BY <2>3 DEF Range
  <2>5. \A i, j \in DOMAIN newTaskList : i < j => Before(newTaskList[i], newTaskList[j])
    BY <1>1 DEF QueueInv, ListsOrdered, Sorted
  <2>6. QED
    BY <2>1, <2>2, <2>4, <2>5 DEF IsTurn
<1>6. QED
  BY <1>1, <1>2, <1>4, <1>5, OpenMaps

\* What was searched for is who stands first.
LEMMA RunTaskMaps ==
  ASSUME NamesDiffer, SchedulerInv, QueueInv, SchedulerInv', RunTask
  PROVE  Queue!Serve
<1> DEFINE t == taskToRun
<1>1. /\ pc = "run" /\ pc' = "run" /\ program \in OneShot /\ taskList # << >>
      /\ t \notin freed
      /\ response' = [response EXCEPT ![t] = curTime]
      /\ curTime' = curTime + burst[t]
      /\ finish' = [finish EXCEPT ![t] = curTime']
      /\ taskList' = delete(taskList, t) /\ freed' = freed \cup {t}
      /\ UNCHANGED <<program, tasks, burst, newTaskList>>
  BY DEF RunTask
<1>2. /\ tasks \in Schedules /\ program \in OneShot \cup Rotating
      /\ Len(burst) = Len(tasks) /\ Len(tasks) \in Nat
      /\ DOMAIN tasks = 1 .. Len(tasks) /\ burst \in Seq(Nat)
      /\ taskList \in Seq(1 .. Len(tasks)) /\ NoTwice(taskList)
  BY <1>1, FileFacts DEF SchedulerInv, ListInv
<1>3. t \in Range(taskList) /\ \A x \in Range(taskList) \ {t} : Before(t, x)
  BY <1>1, <1>2, ChosenIsThere, ChosenInTurn DEF SchedulerInv
<1>4. Range(taskList) \in SUBSET DOMAIN tasks /\ t \in DOMAIN tasks
  BY <1>2, <1>3, ElementOfSeq, LenProperties DEF Range
<1>5. program \notin {"rr", "priority_rr"}
  BY <1>1 DEF OneShot
<1> HIDE DEF t
<1>6. Range(taskList') = Range(taskList) \ {t}
  <2>1. Range(delete(taskList, t)) = Range(taskList) \ {t}
    BY <1>2, <1>3, DeletedOfAll
  <2>2. QED
    BY <1>1, <2>1
<1>7. Standing # << >> /\ Head(Standing) = t /\ Standing' = Tail(Standing)
  <2>1. IsTurn(Range(taskList), FoundInTurn)
    BY FoundIsTurn
  <2>2. /\ FoundInTurn # << >> /\ Head(FoundInTurn) = t
        /\ IsTurn(Range(taskList) \ {t}, Tail(FoundInTurn))
    BY <1>2, <1>3, <1>4, <2>1, FirstServed
  <2>3. IsTurn(Range(taskList) \ {t}, FoundInTurn')
    BY <1>1, <1>6, FoundAfter
  <2>4. FoundInTurn' = Tail(FoundInTurn)
    <3>1. Range(taskList) \ {t} \in SUBSET DOMAIN tasks
      BY <1>4
    <3>2. QED
      BY <1>2, <2>2, <2>3, <3>1, OneTurn
  <2>5. Standing = FoundInTurn /\ Standing' = FoundInTurn'
    BY <1>1 DEF Standing
  <2>6. QED
    BY <2>2, <2>4, <2>5
<1>8. /\ Left = [u \in DOMAIN tasks |-> IF u \in freed THEN 0 ELSE burst[u]]
      /\ Left' = [u \in DOMAIN tasks |-> IF u \in freed' THEN 0 ELSE burst[u]]
  <2>1. DOMAIN burst = DOMAIN tasks
    BY <1>2, LenProperties
  <2>2. QED
    BY <1>1, <2>1 DEF Left
<1>9. burst[t] \in Nat /\ Left[t] = burst[t]
  BY <1>1, <1>2, <1>4, <1>8, ElementOfSeq
<1>10. Queue!Share(t) = Left[t]
  BY <1>5 DEF Queue!Share
<1>11. curTime' = curTime + Queue!Share(t)
  BY <1>1, <1>9, <1>10
<1>12. Left' = [Left EXCEPT ![t] = @ - Queue!Share(t)]
  <2>1. Left[t] - Queue!Share(t) = 0
    BY <1>9, <1>10
  <2>2. \A u \in DOMAIN tasks : Left'[u] = IF u = t THEN 0 ELSE Left[u]
    BY <1>1, <1>8
  <2>3. [Left EXCEPT ![t] = @ - Queue!Share(t)] = [u \in DOMAIN tasks |-> IF u = t THEN 0 ELSE Left[u]]
    BY <1>8, <2>1
  <2>4. Left' = [u \in DOMAIN tasks |-> Left'[u]]
    BY <1>8
  <2>5. QED
    BY <2>2, <2>3, <2>4
<1>13. response[t] = Unwritten
  BY <1>1, <1>4 DEF QueueInv, TimesTell
<1>14. Ended' = [Ended EXCEPT ![t] = curTime']
  <2>1. finish \in [DOMAIN tasks -> Times]
    BY DEF QueueInv, TimesTell
  <2>2. \A u \in DOMAIN tasks : finish'[u] = IF u = t THEN curTime' ELSE finish[u]
    BY <1>1, <2>1
  <2>3. QED
    BY <1>1, <1>4, <2>2 DEF Ended
<1>15. QED
  BY <1>1, <1>7, <1>10, <1>11, <1>12, <1>13, <1>14 DEF Queue!Serve

\* Who is under the pointer stands first, and what is next to be served is next to it.
LEMMA RunSliceMaps ==
  ASSUME NamesDiffer, SchedulerInv, QueueInv, RunSlice
  PROVE  Queue!Serve
<1> DEFINE t == nextTask
<1>1. /\ pc = "run" /\ pc' = "run" /\ t \notin freed
      /\ response' = IF finish[t] = 0 THEN [response EXCEPT ![t] = curTime] ELSE response
      /\ curTime' = curTime + Slice(t)
      /\ finish' = [finish EXCEPT ![t] = curTime']
      /\ burst' = [burst EXCEPT ![t] = @ - Slice(t)]
      /\ burst'[t] = 0 => freed' = freed \cup {t}
      /\ burst'[t] # 0 => freed' = freed
      /\ UNCHANGED <<program, tasks, taskList>>
  BY DEF RunSlice
<1>2. /\ t \in 1 .. Len(tasks) /\ program \in Rotating /\ program \notin OneShot
      /\ Len(burst) = Len(tasks) /\ burst[t] \in Nat
      /\ Around # << >> /\ Head(Around) = t
      /\ burst'[t] # 0 => Around' = Append(Tail(Around), t)
      /\ burst'[t] = 0 => Around' = Tail(Around)
  BY SliceGoesOn DEF OneShot, Rotating
<1>3. /\ tasks \in Schedules /\ Len(tasks) \in Nat /\ DOMAIN tasks = 1 .. Len(tasks)
      /\ burst \in Seq(Nat)
  BY <1>2, FileFacts DEF SchedulerInv, ListInv
<1>4. Standing = Around /\ Standing' = Around'
  BY <1>1, <1>2 DEF Standing
<1> HIDE DEF t
<1>5. DOMAIN burst = DOMAIN tasks /\ DOMAIN burst' = DOMAIN tasks
  <2>1. DOMAIN burst = DOMAIN tasks
    BY <1>2, <1>3, LenProperties
  <2>2. QED
    BY <1>1, <2>1
<1>6. /\ Left = [u \in DOMAIN tasks |-> IF u \in freed THEN 0 ELSE burst[u]]
      /\ Left' = [u \in DOMAIN tasks |-> IF u \in freed' THEN 0 ELSE burst'[u]]
  BY <1>1, <1>5 DEF Left
<1>7. Left[t] = burst[t] /\ Queue!Share(t) = Slice(t)
  <2>1. Left[t] = burst[t]
    BY <1>1, <1>2, <1>3, <1>6
  <2>2. Queue!Share(t) = IF Left[t] > QUANTUM THEN QUANTUM ELSE Left[t]
    BY <1>2 DEF Queue!Share, Rotating
  <2>3. QED
    BY <1>2, <2>1, <2>2, SchedulerAssumption DEF Slice
<1>8. /\ burst'[t] = burst[t] - Slice(t)
      /\ \A u \in DOMAIN tasks : u # t => burst'[u] = burst[u]
  BY <1>1, <1>2, <1>3, <1>5
<1>9. Left' = [Left EXCEPT ![t] = @ - Queue!Share(t)]
  <2>1. Left'[t] = burst[t] - Slice(t)
    BY <1>1, <1>2, <1>3, <1>6, <1>8
  <2>2. \A u \in DOMAIN tasks : u # t => Left'[u] = Left[u]
    BY <1>1, <1>6, <1>8
  <2>3. [Left EXCEPT ![t] = @ - Queue!Share(t)]
          = [u \in DOMAIN tasks |-> IF u = t THEN burst[t] - Slice(t) ELSE Left[u]]
    BY <1>6, <1>7
  <2>4. Left' = [u \in DOMAIN tasks |-> Left'[u]]
    BY <1>6
  <2>5. QED
    BY <2>1, <2>2, <2>3, <2>4
<1>10. response[t] = Unwritten <=> finish[t] = 0
  BY <1>1, <1>2, <1>3 DEF QueueInv, TimesTell
<1>11. Queue!Share(t) = Left[t] <=> burst'[t] = 0
  <2>1. Slice(t) \in Nat
    BY <1>2, SliceIs
  <2> DEFINE b == burst[t]
             s == Slice(t)
  <2>2. b \in Nat /\ s \in Nat
    BY <1>2, <2>1
  <2> HIDE DEF b, s
  <2>3. s = b <=> b - s = 0
    BY <2>2
  <2>4. QED
    BY <1>7, <1>8, <2>3 DEF b, s
<1>12. finish \in [DOMAIN tasks -> Times]
  BY DEF QueueInv, TimesTell
<1>13. \A u \in DOMAIN tasks : finish'[u] = IF u = t THEN curTime' ELSE finish[u]
  BY <1>1, <1>12
<1>14. /\ burst'[t] = 0 => Ended' = [Ended EXCEPT ![t] = curTime']
       /\ burst'[t] # 0 => Ended' = Ended
  BY <1>1, <1>2, <1>3, <1>13 DEF Ended
<1>15. curTime' = curTime + Queue!Share(t)
  BY <1>1, <1>7
<1>16. QED
  BY <1>1, <1>2, <1>4, <1>9, <1>10, <1>11, <1>14, <1>15 DEF Queue!Serve

LEMMA StepMaps ==
  ASSUME NamesDiffer, SchedulerInv, QueueInv, SchedulerInv', QueueInv', [Next]_vars
  PROVE  [Queue!Next]_Queue!queueVars
<1>1. CASE Add
  <2>1. pc = "add" /\ UNCHANGED <<program, tasks, pc, curTime, response>>
    BY <1>1 DEF Add, times
  <2>2. QED
    BY <2>1, SetupMaps
<1>2. CASE ScheduleBegins
  BY <1>2, BeginMaps DEF Queue!Next
<1>3. CASE Rearrange
  <2>1. pc = "rearrange" /\ UNCHANGED <<program, tasks, pc, curTime, response>>
    BY <1>3 DEF Rearrange, times
  <2>2. QED
    BY <2>1, SetupMaps
<1>4. CASE Rearranged
  BY <1>4, RearrangedMaps DEF Queue!Next
<1>5. CASE RunTask
  BY <1>5, RunTaskMaps DEF Queue!Next
<1>6. CASE RunSlice
  BY <1>6, RunSliceMaps DEF Queue!Next
<1>7. CASE Finished \/ UNCHANGED vars
  <2>1. /\ pc \in {"run", "done"} <=> pc' \in {"run", "done"}
        /\ pc \notin {"run", "done"} => pc' = pc
        /\ UNCHANGED <<program, tasks, burst, taskList, newTaskList, nextTask,
                       curTime, response, finish, freed>>
    BY <1>7 DEF Finished, vars, lists, times
  <2>2. FoundInTurn' = FoundInTurn /\ Around' = Around
    BY <2>1, FoundSame DEF Around
  <2>3. Standing' = Standing
    BY <2>1, <2>2 DEF Standing, SchedulerInv, ListInv
  <2>4. Left' = Left /\ Ended' = Ended
    BY <2>1 DEF Left, Ended
  <2>5. QED
    BY <2>1, <2>3, <2>4 DEF Queue!queueVars
<1>8. QED
  BY <1>1, <1>2, <1>3, <1>4, <1>5, <1>6, <1>7 DEF Next, Running, Terminated

(***************************************************************************)
(* Searching a list and going around in one with a pointer, while tasks    *)
(* are deleted from it, serve the tasks in the order of one queue, for any *)
(* number of tasks of different names, any bursts and any quantum, and the *)
(* response and turnaround times are those of that queue                   *)
(* (schedule_fcfs.c:31-54, schedule_sjf.c:31-57, schedule_priority.c:31-57,*)
(* schedule_rr.c:41-83, schedule_priority_rr.c:34-90).                     *)
(***************************************************************************)
THEOREM ServedInTurn == ASSUME NamesDiffer PROVE Spec => ImplementsReadyQueue
<1>1. SchedulerInv /\ QueueInv /\ (SchedulerInv /\ QueueInv)' /\ [Next]_vars
        => [Queue!Next]_Queue!queueVars
  BY StepMaps
<1>2. QED
  BY <1>1, InitMaps, QueueInvHolds, PTL DEF Spec, ImplementsReadyQueue, Queue!Spec

=============================================================================
