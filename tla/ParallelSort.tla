----------------------------- MODULE ParallelSort -----------------------------
(***************************************************************************)
(* The sorting programs of Project3.  Pthreads/sort sorts two halves with  *)
(* qsort in two threads and merges them in a third.  fork-join/Quicksort   *)
(* partitions a shared array and forks a task for each side.               *)
(* fork-join/Mergesort forks tasks that get copies of the halves, and      *)
(* merges what they return.                                                *)
(*                                                                         *)
(* Tasks are named by what they do to which positions, and run in any      *)
(* order.  Positions are counted from 1.  A round of the loop in which     *)
(* Quicksort's tasks exchange elements of the array they share is a step;  *)
(* qsort and the merges work on what nobody else does, and are one each.   *)
(***************************************************************************)
EXTENDS Integers, Sequences, FiniteSetsExt, Functions

CONSTANTS
  IntMax,    \* 2^31 - 1: an int is in -IntMax - 1 .. IntMax
  Inputs     \* sequences of int

ASSUME ParallelSortAssumption ==
  /\ IntMax \in Nat
  /\ Inputs \subseteq Seq(-IntMax - 1 .. IntMax)

VARIABLES
  program, input,
  array,          \* the shared array; Mergesort only keeps its result there
  tasks,          \* of every task there is: its status and its locals
  mainPc

vars == <<program, input, array, tasks, mainPc>>

Task(kind, begin, end) == [kind |-> kind, begin |-> begin, end |-> end]

\* own is the array that a task of Mergesort has; the rest are Quicksort's.
Forked(a) == [status |-> "forked", own |-> a, left |-> 0, right |-> 0, mid_value |-> 0]

Init ==
  /\ program \in {"sort", "Quicksort", "Mergesort"}
  /\ input \in Inputs /\ array = input
  /\ tasks = <<>>
  /\ mainPc = "start"

-----------------------------------------------------------------------------
len  == Len(array)
Half(n) == n \div 2

\* fork and pthread_create: a becomes a task of its own, with array a.
With(old, t, a) == [u \in DOMAIN old \cup {t} |-> IF u = t THEN Forked(a) ELSE old[u]]

Done(t) == t \in DOMAIN tasks /\ tasks[t].status = "done"
Segment(a, t) == SubSeq(a, t.begin, t.end)
Replaced(a, t, s) ==
  [k \in DOMAIN a |-> IF k \in t.begin .. t.end THEN s[k - t.begin + 1] ELSE a[k]]
Exchanged(a, l, r) == [a EXCEPT ![l] = a[r], ![r] = a[l]]

Finish(t, a) == tasks' = [tasks EXCEPT ![t].status = "done", ![t].own = a]

MainGoto(from, to) ==
  /\ mainPc = from
  /\ mainPc' = to

(***************************************************************************)
(* Two sorted sequences become one.  After n rounds, cur1 elements of the  *)
(* first and n - cur1 of the second are taken.  Of equal elements that of  *)
(* the second is first.                                                    *)
(***************************************************************************)
TakesLow(low, high, cur1, cur2) ==
  /\ cur1 < Len(low)
  /\ cur2 < Len(high) => low[cur1 + 1] < high[cur2 + 1]

Cursor(low, high) ==
  LET cur1[n \in Nat] ==
        IF n = 0 THEN 0
        ELSE IF TakesLow(low, high, cur1[n - 1], n - 1 - cur1[n - 1]) THEN cur1[n - 1] + 1
        ELSE cur1[n - 1]
  IN  cur1

Merged(low, high) ==
  LET cur1 == Cursor(low, high)
  IN  [n \in 1 .. Len(low) + Len(high) |->
         IF cur1[n] > cur1[n - 1] THEN low[cur1[n]] ELSE high[n - cur1[n]]]

-----------------------------------------------------------------------------
(***************************************************************************)
(* Pthreads/sort.                                                          *)
(***************************************************************************)
LeftPart  == Task("part", 1, Half(len))
RightPart == Task("part", Half(len) + 1, len)
MergeAll  == Task("merge", 1, len)

\* A difference that is too large for an int wraps around.
cmp(a, b) == ((a - b + IntMax + 1) % (2 * (IntMax + 1))) - (IntMax + 1)

(***************************************************************************)
(* The C library sorts by cmp.  Where cmp is no order, the result is some  *)
(* permutation.                                                            *)
(***************************************************************************)
Arrangements(s) == {[k \in DOMAIN s |-> s[p[k]]] : p \in Surjection(DOMAIN s, DOMAIN s)}
qsort(s) ==
  LET ordered == {r \in Arrangements(s) : \A j, k \in DOMAIN r : j < k => cmp(r[j], r[k]) <= 0}
  IN  IF ordered = {} THEN Arrangements(s) ELSE ordered

CreateParts ==
  /\ program = "sort"
  /\ MainGoto("start", "parts")
  /\ tasks' = With(With(tasks, LeftPart, <<>>), RightPart, <<>>)
  /\ UNCHANGED <<program, input, array>>

partSort(t) ==
  /\ t.kind = "part" /\ tasks[t].status = "forked"
  /\ \E s \in qsort(Segment(array, t)) : array' = Replaced(array, t, s)
  /\ Finish(t, <<>>)
  /\ UNCHANGED <<program, input, mainPc>>

LeftSorted == Done(LeftPart)  \* faulty: one part is not joined
PartsSorted == Done(LeftPart) /\ Done(RightPart)

JoinParts ==
  /\ MainGoto("parts", "merge")
  /\ PartsSorted
  /\ tasks' = With(tasks, MergeAll, <<>>)
  /\ UNCHANGED <<program, input, array>>

mergeSort(t) ==
  /\ t.kind = "merge" /\ tasks[t].status = "forked"
  /\ array' = Merged(SubSeq(array, 1, Half(len)), SubSeq(array, Half(len) + 1, len))
  /\ Finish(t, <<>>)
  /\ UNCHANGED <<program, input, mainPc>>

JoinMerge ==
  /\ Done(MergeAll)
  /\ MainGoto("merge", "printed")
  /\ UNCHANGED <<program, input, array, tasks>>

-----------------------------------------------------------------------------
(***************************************************************************)
(* fork-join/Quicksort: tasks <<begin, end>> of the shared array.          *)
(***************************************************************************)
Sort(begin, end) == Task("sort", begin, end)
WholeArray == Sort(1, len)

BeginScan(t) ==
  /\ program = "Quicksort" /\ tasks[t].status = "forked" /\ t.begin < t.end
  /\ tasks' = [tasks EXCEPT ![t] = [@ EXCEPT !.status = "scanning", !.left = t.begin,
                                            !.right = t.end, !.mid_value = array[t.end]]]
  /\ UNCHANGED <<program, input, array, mainPc>>

\* left and right move towards each other as far as the elements are in place.
Scan(t) ==
  /\ program = "Quicksort" /\ tasks[t].status = "scanning" /\ tasks[t].left < tasks[t].right
  /\ LET mid_value == tasks[t].mid_value
         left  == Min({tasks[t].right} \cup
                      {k \in tasks[t].left .. tasks[t].right : array[k] >= mid_value})
         right == Max({left} \cup {k \in left .. tasks[t].right : array[k] < mid_value})
     IN  /\ array' = Exchanged(array, left, right)
         /\ tasks' = [tasks EXCEPT ![t] = [@ EXCEPT !.left = left, !.right = right]]
  /\ UNCHANGED <<program, input, mainPc>>

\* What left and right met at is exchanged with the last element, or passed.
Unplaced(a, left, end) ==  \* faulty: it is not
  <<a, left>>
Placed(a, left, end) ==
  IF a[left] >= a[end] THEN <<Exchanged(a, left, end), left>> ELSE <<a, left + 1>>

LeftSort(t)  == Sort(t.begin, tasks[t].left - 1)
RightSort(t) == Sort(tasks[t].left + 1, t.end)

ForkSides(t) ==
  /\ program = "Quicksort" /\ tasks[t].status = "scanning" /\ tasks[t].left >= tasks[t].right
  /\ LET p == Placed(array, tasks[t].left, t.end)
     IN  /\ array' = p[1]
         /\ tasks' = With(With([tasks EXCEPT ![t] = [@ EXCEPT !.status = "joining", !.left = p[2]]],
                               Sort(t.begin, p[2] - 1), <<>>), Sort(p[2] + 1, t.end), <<>>)
  /\ UNCHANGED <<program, input, mainPc>>

NothingToSort(t) ==
  /\ program = "Quicksort" /\ tasks[t].status = "forked" /\ t.begin >= t.end
  /\ Finish(t, <<>>)
  /\ UNCHANGED <<program, input, array, mainPc>>

JoinSides(t) ==
  /\ program = "Quicksort" /\ tasks[t].status = "joining"
  /\ Done(LeftSort(t)) /\ Done(RightSort(t))
  /\ Finish(t, <<>>)
  /\ UNCHANGED <<program, input, array, mainPc>>

-----------------------------------------------------------------------------
(***************************************************************************)
(* fork-join/Mergesort: a task has an array of its own.                    *)
(***************************************************************************)
Length(t) == t.end - t.begin + 1
LeftHalf(t)  == Sort(t.begin, t.begin + Half(Length(t)) - 1)
RightHalf(t) == Sort(t.begin + Half(Length(t)), t.end)

SortPair(t) ==
  /\ program = "Mergesort" /\ tasks[t].status = "forked" /\ Length(t) <= 2
  /\ LET a == tasks[t].own
     IN  Finish(t, IF Len(a) = 2 /\ a[1] > a[2] THEN Exchanged(a, 1, 2) ELSE a)
  /\ UNCHANGED <<program, input, array, mainPc>>

Split(t) ==
  /\ program = "Mergesort" /\ tasks[t].status = "forked" /\ Length(t) > 2
  /\ LET a == tasks[t].own
         mid == Half(Length(t))
     IN  tasks' = With(With([tasks EXCEPT ![t].status = "joining"],
                            LeftHalf(t), SubSeq(a, 1, mid)), RightHalf(t), SubSeq(a, mid + 1, Length(t)))
  /\ UNCHANGED <<program, input, array, mainPc>>

MergeResults(t) ==
  /\ program = "Mergesort" /\ tasks[t].status = "joining"
  /\ Done(LeftHalf(t)) /\ Done(RightHalf(t))
  /\ Finish(t, Merged(tasks[LeftHalf(t)].own, tasks[RightHalf(t)].own))
  /\ UNCHANGED <<program, input, array, mainPc>>

-----------------------------------------------------------------------------
\* Task.fork() and Task.join() in the Java programs' main.
ForkTask ==
  /\ program # "sort"
  /\ MainGoto("start", "join")
  /\ tasks' = With(tasks, WholeArray, array)
  /\ UNCHANGED <<program, input, array>>

JoinTask ==
  /\ Done(WholeArray)
  /\ MainGoto("join", "printed")
  /\ array' = IF program = "Mergesort" THEN tasks[WholeArray].own ELSE array
  /\ UNCHANGED <<program, input, tasks>>

Terminated == mainPc = "printed" /\ UNCHANGED vars

TaskRuns(t) ==
  \/ partSort(t) \/ mergeSort(t)
  \/ BeginScan(t) \/ Scan(t) \/ ForkSides(t) \/ NothingToSort(t) \/ JoinSides(t)
  \/ SortPair(t) \/ Split(t) \/ MergeResults(t)

Next ==
  \/ CreateParts \/ JoinParts \/ JoinMerge
  \/ ForkTask \/ JoinTask
  \/ \E t \in DOMAIN tasks : TaskRuns(t)
  \/ Terminated

Spec == Init /\ [][Next]_vars

-----------------------------------------------------------------------------
\* The task has forked others, left and right of the element at left.
HasSplit(t) == tasks[t].status \in {"joining", "done"} /\ t.begin < t.end

Sorted(s) == \A j, k \in DOMAIN s : j < k => s[j] <= s[k]

\* No two numbers are so far apart that their difference is too large.
Close(s) == \A j, k \in DOMAIN s : s[j] - s[k] <= IntMax

(***************************************************************************)
(* What is printed is the input in order, whatever the order in which the  *)
(* tasks run; with numbers that are too far apart for cmp, which           *)
(* subtracts, sort still prints the same numbers (sort.c:21-69, 103-115,   *)
(* Mergesort.java:14-38, 65-73, Quicksort.java:17-53, 56-65).              *)
(***************************************************************************)
ResultSorted ==
  mainPc = "printed" =>
    /\ array \in Arrangements(input)
    /\ (program = "sort" /\ ~ Close(input)) \/ Sorted(array)

(***************************************************************************)
(* What a task of Quicksort has split stays split while the tasks of the   *)
(* sides run at the same time and after them, and what a task has done     *)
(* stays sorted (Quicksort.java:21-52).                                    *)
(***************************************************************************)
SplitHolds ==
  program = "Quicksort" => \A t \in DOMAIN tasks :
    /\ HasSplit(t) =>
         /\ \A k \in t.begin .. tasks[t].left - 1 : array[k] < array[tasks[t].left]
         /\ \A k \in tasks[t].left .. t.end : array[tasks[t].left] <= array[k]
    /\ Done(t) => Sorted(Segment(array, t))

=============================================================================
