------------------------------ MODULE ReadyQueue ------------------------------
(***************************************************************************)
(* What the schedulers of Project4 promise: the tasks stand in one queue,  *)
(* in the order of the policy.  The first one is served, for a quantum if  *)
(* the policy is a round robin and to its end if not, and goes to the end  *)
(* of the queue if it is not through.  There is no list to search, no      *)
(* cursor, and no deletion from the middle here.                           *)
(***************************************************************************)
EXTENDS Integers, Sequences, FiniteSets

CONSTANTS Programs, Schedules, QUANTUM, Unwritten

VARIABLES
  program, tasks,       \* the policy, and [name, priority, burst] of each task
  open,                 \* all tasks have arrived
  queue, left,          \* who is waiting, and for how much
  clock,
  started, ended        \* when a task was first served, and when it was through

queueVars == <<program, tasks, open, queue, left, clock, started, ended>>

\* Task a is to be served before task b: as they came, but for ties of the
\* programs that look for the best task, which find the last one first.
Precedes(a, b) ==
  CASE program \in {"fcfs", "rr"} -> a < b
    [] program = "sjf" ->
         \/ tasks[a].burst < tasks[b].burst
         \/ tasks[a].burst = tasks[b].burst /\ a > b
    [] program = "priority" ->
         \/ tasks[a].priority > tasks[b].priority
         \/ tasks[a].priority = tasks[b].priority /\ a > b
    [] program = "priority_rr" ->
         \/ tasks[a].priority > tasks[b].priority
         \/ tasks[a].priority = tasks[b].priority /\ a < b

\* The tasks of a set in the order in which they are to be served.
InTurn(S) ==
  CHOOSE s \in [1 .. Cardinality(S) -> S] :
    /\ \A t \in S : \E i \in DOMAIN s : s[i] = t
    /\ \A i, j \in DOMAIN s : i < j => Precedes(s[i], s[j])

Share(t) ==
  IF program \in {"rr", "priority_rr"} /\ left[t] > QUANTUM THEN QUANTUM ELSE left[t]

Init ==
  /\ program \in Programs /\ tasks \in Schedules
  /\ open = FALSE /\ queue = << >> /\ clock = 0
  /\ left = [t \in DOMAIN tasks |-> tasks[t].burst]
  /\ started = [t \in DOMAIN tasks |-> Unwritten]
  /\ ended = [t \in DOMAIN tasks |-> Unwritten]

Open ==
  /\ ~ open /\ open' = TRUE
  /\ queue' = InTurn(DOMAIN tasks)
  /\ UNCHANGED <<program, tasks, left, clock, started, ended>>

Serve ==
  /\ open /\ queue # << >>
  /\ LET t == Head(queue)
     IN  /\ clock' = clock + Share(t)
         /\ left' = [left EXCEPT ![t] = @ - Share(t)]
         /\ started' = IF started[t] = Unwritten THEN [started EXCEPT ![t] = clock]
                       ELSE started
         /\ IF Share(t) = left[t]
              THEN ended' = [ended EXCEPT ![t] = clock'] /\ queue' = Tail(queue)
              ELSE UNCHANGED ended /\ queue' = Append(Tail(queue), t)
  /\ UNCHANGED <<program, tasks, open>>

Next == Open \/ Serve

Spec == Init /\ [][Next]_queueVars

=============================================================================
