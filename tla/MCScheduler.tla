------------------------------ MODULE MCScheduler ------------------------------
(* The values the configurations give to the parameters of Scheduler. *)
EXTENDS Scheduler

AllPrograms == OneShot \cup Rotating

NoTime == -1

\* Files of so many tasks, named by a function of their line.
FilesOf(n, nameOf, priorities, bursts) ==
  {[t \in 1 .. n |-> [name |-> nameOf[t], priority |-> p[t], burst |-> b[t]]] :
     p \in [1 .. n -> priorities], b \in [1 .. n -> bursts]}

Line == [t \in 1 .. 4 |-> t]

\* Up to three tasks whose bursts are none, less than a quantum, one, and two
\* and a half; and four of which some take two rounds.
DistinctNames ==
  UNION {FilesOf(n, Line, {1, 2}, {0, 1, 2, 5}) : n \in 0 .. 3}
    \cup FilesOf(4, Line, {1, 2}, {1, 3})

=============================================================================
