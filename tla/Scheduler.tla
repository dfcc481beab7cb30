------------------------------- MODULE Scheduler -------------------------------
(***************************************************************************)
(* Project4/posix: the five schedulers, each a program of its own that     *)
(* links driver.c, list.c and CPU.c with one schedule_*.c.  The driver     *)
(* reads the tasks from a file and adds each to the head of taskList; then *)
(* schedule() runs them.  fcfs, sjf and priority run a task to its end and *)
(* look for the next one.  rr and priority_rr first move the tasks to a    *)
(* second list, one by one, and then go around in it with the pointer      *)
(* nextTask, a quantum for each.                                           *)
(*                                                                         *)
(* A task is its line number in the file (its tid plus one).  list.c never *)
(* frees a node, and each task has one, so a node is the task in it.  What *)
(* a program does after it has read a task that was freed is not described.*)
(***************************************************************************)
EXTENDS Integers, Sequences, FiniteSets, SequencesExt

CONSTANTS
  Programs,             \* which of the five
  Schedules,            \* files, as sequences of [name, priority, burst]
  QUANTUM,
  Unwritten             \* what malloc leaves in an array: no time

OneShot == {"fcfs", "sjf", "priority"}
Rotating == {"rr", "priority_rr"}
NULL == 0

ASSUME SchedulerAssumption ==
  /\ Programs \subseteq OneShot \cup Rotating
  /\ QUANTUM \in Nat \ {0} /\ Unwritten \notin Nat
  /\ \A f \in Schedules :
       /\ Len(f) \in Nat /\ DOMAIN f = 1 .. Len(f)
       /\ \A t \in DOMAIN f : f[t].burst \in Nat /\ f[t].priority \in Int

VARIABLES
  program, tasks,       \* which executable runs, and on which file
  pc,                   \* "add" (in main), "rearrange", "run" (in schedule), "done"
  burst,                \* task->burst of the tasks added so far
  taskList, newTaskList,
  nextTask,
  curTime,
  response, finish,     \* finish: turnaround in OneShot, lastFinish in Rotating
  wait,
  freed,                \* the tasks that were freed
  totals                \* the sums the averages are made of

lists == <<taskList, newTaskList, nextTask>>
times == <<curTime, response, finish, wait>>
vars  == <<program, tasks, pc, burst, lists, times, freed, totals>>

Init ==
  /\ program \in Programs /\ tasks \in Schedules
  /\ pc = "add"
  /\ burst = << >> /\ taskList = << >> /\ newTaskList = << >> /\ nextTask = NULL
  /\ curTime = 0
  /\ LET blank == [t \in DOMAIN tasks |-> Unwritten]
     IN  response = blank /\ finish = blank /\ wait = blank
  /\ freed = {}
  /\ totals = [turnaround |-> 0, response |-> 0, wait |-> 0]

\* Where delete finds the task it is given: it compares names.
Place(list, t) ==
  CHOOSE n \in DOMAIN list :
    /\ tasks[list[n]].name = tasks[t].name
    /\ \A k \in 1 .. n - 1 : tasks[list[k]].name # tasks[t].name

-----------------------------------------------------------------------------
(***************************************************************************)
(* Faulty variants of definitions below, one plausible bug each: put in    *)
(* their place, each makes the property it is meant for fail.              *)
(***************************************************************************)
\* The loop stops one node too late.
OvershootingDelete(list, t) ==
  RemoveAt(list, IF Place(list, t) = Len(list) THEN Len(list) ELSE Place(list, t) + 1)

\* <= for <: of equal tasks the last one of the list.
LastLeast(list, key) ==
  list[CHOOSE n \in DOMAIN list : \A k \in DOMAIN list :
         \/ key[list[n]] < key[list[k]]
         \/ key[list[n]] = key[list[k]] /\ n >= k]

\* Less than a quantum is never given.
IdleSlice(t) == IF burst[t] < QUANTUM THEN 0 ELSE QUANTUM

\* The pointer stays at a task that is not through.
StayingNextOf(t) ==
  LET n == CHOOSE k \in DOMAIN newTaskList : newTaskList[k] = t
  IN  IF burst[t] > QUANTUM THEN t
      ELSE IF n < Len(newTaskList) THEN newTaskList[n + 1] ELSE Head(newTaskList)

-----------------------------------------------------------------------------
\* insert and delete of list.c.
insert(list, t) == <<t>> \o list
delete(list, t) == RemoveAt(list, Place(list, t))

\* The loop that keeps the first task of a list that none has a smaller key than.
FirstLeast(list, key) ==
  list[CHOOSE n \in DOMAIN list : \A k \in DOMAIN list :
         \/ key[list[n]] < key[list[k]]
         \/ key[list[n]] = key[list[k]] /\ n <= k]

\* taskToRun of the programs that run a task to its end.
taskToRun ==
  CASE program = "fcfs"     -> Last(taskList)
    [] program = "sjf"      -> FirstLeast(taskList, burst)
    [] program = "priority" -> FirstLeast(taskList, [t \in DOMAIN tasks |-> - tasks[t].priority])

\* firstTask of rr and lowestPriorTask of priority_rr.
TaskToMove ==
  IF program = "rr" THEN Head(taskList)
  ELSE FirstLeast(taskList, [t \in DOMAIN tasks |-> tasks[t].priority])

\* Where nextTask goes from the node of t.
NextOf(t) ==
  LET n == CHOOSE k \in DOMAIN newTaskList : newTaskList[k] = t
  IN  IF n < Len(newTaskList) THEN newTaskList[n + 1] ELSE Head(newTaskList)

Slice(t) == IF burst[t] < QUANTUM THEN burst[t] ELSE QUANTUM

Waited(t) == wait[t] + curTime - finish[t]

\* main of driver.c reads a line, and add makes it a task.
Add ==
  /\ pc = "add" /\ Len(burst) < Len(tasks)
  /\ LET t == Len(burst) + 1
     IN  /\ burst' = Append(burst, tasks[t].burst)
         /\ taskList' = insert(taskList, t)
  /\ UNCHANGED <<program, tasks, pc, newTaskList, nextTask, times, freed, totals>>

\* schedule is called, and sets up its arrays.
ScheduleBegins ==
  /\ pc = "add" /\ Len(burst) = Len(tasks)
  /\ IF program \in OneShot THEN pc' = "run" /\ UNCHANGED <<finish, wait>>
     ELSE LET zero == [t \in DOMAIN tasks |-> 0]
          IN  pc' = "rearrange" /\ finish' = zero /\ wait' = zero
  /\ UNCHANGED <<program, tasks, burst, lists, curTime, response, freed, totals>>

\* One round of rearrangement, and what follows its last one.
Rearrange ==
  /\ pc = "rearrange" /\ taskList # << >>
  /\ taskList' = delete(taskList, TaskToMove)
  /\ newTaskList' = insert(newTaskList, TaskToMove)
  /\ UNCHANGED <<program, tasks, pc, burst, nextTask, times, freed, totals>>

Rearranged ==
  /\ pc = "rearrange" /\ taskList = << >>
  /\ nextTask' = IF newTaskList = << >> THEN NULL ELSE Head(newTaskList)
  /\ pc' = "run"
  /\ UNCHANGED <<program, tasks, burst, taskList, newTaskList, times, freed, totals>>

\* One round of schedule in fcfs, sjf and priority.
RunTask ==
  /\ pc = "run" /\ program \in OneShot /\ taskList # << >>
  /\ LET t == taskToRun
     IN  /\ t \notin freed
         /\ response' = [response EXCEPT ![t] = curTime]
         /\ curTime' = curTime + burst[t]
         /\ finish' = [finish EXCEPT ![t] = curTime']
         /\ taskList' = delete(taskList, t)
         /\ freed' = freed \cup {t}
  /\ UNCHANGED <<program, tasks, pc, burst, newTaskList, nextTask, wait, totals>>

\* One round of schedule in rr and priority_rr.
RunSlice ==
  /\ pc = "run" /\ program \in Rotating /\ newTaskList # << >>
  /\ LET t == nextTask
     IN  /\ t \notin freed
         /\ nextTask' = NextOf(t)
         /\ response' = IF finish[t] = 0 THEN [response EXCEPT ![t] = curTime] ELSE response
         /\ wait' = [wait EXCEPT ![t] = Waited(t)]
         /\ curTime' = curTime + Slice(t)
         /\ finish' = [finish EXCEPT ![t] = curTime']
         /\ burst' = [burst EXCEPT ![t] = @ - Slice(t)]
         /\ IF burst'[t] = 0
              THEN newTaskList' = delete(newTaskList, t) /\ freed' = freed \cup {t}
              ELSE UNCHANGED <<newTaskList, freed>>
  /\ UNCHANGED <<program, tasks, pc, taskList, totals>>

Total(times_) == MapThenSumSet(LAMBDA t : times_[t], DOMAIN tasks)

\* The list is empty: the averages are taken.
Finished ==
  /\ pc = "run"
  /\ taskList = << >> /\ newTaskList = << >>
  /\ pc' = "done"
  /\ totals' = [turnaround |-> Total(finish), response |-> Total(response),
                wait |-> Total(IF program \in OneShot THEN response ELSE wait)]
  /\ UNCHANGED <<program, tasks, burst, lists, times, freed>>

\* main has returned.
Terminated ==
  /\ pc = "done"
  /\ UNCHANGED vars

Running == Add \/ ScheduleBegins \/ Rearrange \/ Rearranged \/ RunTask \/ RunSlice \/ Finished

Next == Running \/ Terminated

Spec == Init /\ [][Next]_vars

\* A program with one thread, which never waits, runs on.
FairSpec == Spec /\ WF_vars(Running)

-----------------------------------------------------------------------------
(***************************************************************************)
(* Correctness.                                                            *)
(***************************************************************************)
Times == Nat \cup {Unwritten}

\* The type of every variable: no burst is ever overdrawn.
TypeOK ==
  /\ program \in Programs
  /\ pc \in {"add", "rearrange", "run", "done"}
  /\ burst \in Seq(Nat) /\ Len(burst) <= Len(tasks)
  /\ taskList \in Seq(DOMAIN tasks) /\ newTaskList \in Seq(DOMAIN tasks)
  /\ nextTask \in DOMAIN tasks \cup {NULL}
  /\ curTime \in Nat
  /\ response \in [DOMAIN tasks -> Times]
  /\ finish \in [DOMAIN tasks -> Times] /\ wait \in [DOMAIN tasks -> Times]
  /\ freed \in SUBSET DOMAIN tasks
  /\ totals \in [turnaround : Nat, response : Nat, wait : Nat]

(***************************************************************************)
(* "delete the selected task from the list" (list.c:23): no task is in a   *)
(* list any more, nor under the pointer, once it has been freed.  This     *)
(* needs the names to be different, since delete goes by the name.         *)
(***************************************************************************)
SelectedTaskDeleted ==
  /\ freed \cap (Range(taskList) \cup Range(newTaskList)) = {}
  /\ newTaskList # << >> => nextTask \notin freed

(***************************************************************************)
(* No task of a round robin waits longer than a quantum of each of the     *)
(* others, whichever tasks end in the meantime (schedule_rr.c:41-45,       *)
(* 65-82).                                                                 *)
(***************************************************************************)
WaitBounded ==
  pc = "run" => \A t \in Range(newTaskList) :
                  curTime - finish[t] <= (Len(tasks) - 1) * QUANTUM

\* A list from t on, all around: that of a round robin from its pointer on.
TurnedTo(list, t) ==
  LET n == CHOOSE k \in DOMAIN list : list[k] = t
  IN  SubSeq(list, n, Len(list)) \o SubSeq(list, 1, n - 1)
Around == IF newTaskList = << >> THEN << >> ELSE TurnedTo(newTaskList, nextTask)

\* Whom the policy serves first does not depend on the queue.
Policy == INSTANCE ReadyQueue WITH
  open <- TRUE, queue <- << >>, left <- burst, clock <- curTime,
  started <- response, ended <- finish

\* The tasks of the list in the order in which the searches will find them.
FoundInTurn == Policy!InTurn(Range(taskList))

Standing ==
  IF pc \in {"add", "rearrange"} THEN << >>
  ELSE IF program \in OneShot THEN FoundInTurn ELSE Around

Left ==
  [t \in DOMAIN tasks |-> IF t \in freed THEN 0
                          ELSE IF t \in DOMAIN burst THEN burst[t] ELSE tasks[t].burst]

Ended == [t \in DOMAIN tasks |-> IF t \in freed THEN finish[t] ELSE Unwritten]

Queue == INSTANCE ReadyQueue WITH
  open <- pc \in {"run", "done"}, queue <- Standing, left <- Left, clock <- curTime,
  started <- response, ended <- Ended

(***************************************************************************)
(* Searching a list and going around in one with a pointer, while tasks    *)
(* are deleted from it, serve the tasks in the order of one queue, and     *)
(* response and turnaround times are those of that queue                   *)
(* (schedule_fcfs.c:31-54, schedule_sjf.c:31-57, schedule_priority.c:31-57,*)
(* schedule_rr.c:41-83, schedule_priority_rr.c:34-90).                     *)
(***************************************************************************)
ImplementsReadyQueue == Queue!Spec

(***************************************************************************)
(* Every task is served to its end, whatever the others need               *)
(* (schedule_rr.c:65-83).                                                  *)
(***************************************************************************)
EveryTaskFinishes == <>(pc = "done" /\ freed = DOMAIN tasks)

=============================================================================
