------------------------------- MODULE ProcFile -------------------------------
(***************************************************************************)
(* The kernel modules jiffies and seconds of Project1 and pid of Project2: *)
(* one file under /proc each.  A user process reads it by calls of         *)
(* proc_read until one returns 0; the static variable completed, which all *)
(* readers share and no lock guards, is to tell the two calls apart.       *)
(*                                                                         *)
(* Each access to a shared variable is a step of its own.  The files have  *)
(* any number of readers at a time; pid also has writers, and the          *)
(* processes its file is about come and go.                                *)
(***************************************************************************)
EXTENDS Integers

CONSTANTS
  Readers,     \* user processes that read the file
  Pids,        \* the numbers written to /proc/pid
  WordSize,    \* 2^64: an unsigned long is counted modulo this
  HZ,          \* jiffies in a second
  LoadTimes,   \* values of jiffies when the module is loaded
  MaxTicks     \* bound: jiffies counted after that

ASSUME ProcFileAssumption ==
  /\ WordSize \in Nat \ {0} /\ HZ \in Nat \ {0} /\ MaxTicks \in Nat
  /\ LoadTimes \subseteq 0 .. WordSize - 1
  /\ MaxTicks < WordSize
  /\ Pids \subseteq Nat \ {0}

NoTask == 0      \* l_pid as it is loaded, and a task that was not found
Exited == -1     \* what a pointer to a task leads to once the task has exited

VARIABLES
  module,                  \* which of the three is loaded
  completed,               \* the static variable of proc_read
  jiffies, jiffies_init,   \* the kernel's counter, and its value at loading
  l_pid, alive,            \* the number written last; the processes there are
  place, tsk, value,          \* per reader: place in proc_read, and its locals
  ticks,                   \* observed: jiffies since loading
  seen,                    \* observed: what the file was about during the call
  count,                   \* observed: values got since open, 2 for more
  overlapped,              \* observed: two processes had the file open at once
  previous, latest         \* observed: how the last two readings ended, before that

kernel   == <<jiffies, ticks, l_pid, alive>>
observed == <<count, overlapped, previous, latest>>
fileVars == <<module, completed, jiffies_init, kernel, place, tsk, value, seen, observed>>

FileInit ==
  /\ module \in {"jiffies", "seconds", "pid"}
  /\ completed = FALSE
  /\ jiffies \in LoadTimes /\ jiffies_init = jiffies /\ ticks = 0
  /\ l_pid = NoTask /\ alive \in SUBSET Pids
  /\ place = [r \in Readers |-> "closed"]
  /\ tsk = [r \in Readers |-> NoTask]
  /\ value = [r \in Readers |-> <<>>]
  /\ seen = [r \in Readers |-> {}]
  /\ count = [r \in Readers |-> 0]
  /\ overlapped = FALSE /\ previous = "none" /\ latest = "none"

-----------------------------------------------------------------------------
Goto(r, from, to) ==
  /\ place[r] = from
  /\ place' = [place EXCEPT ![r] = to]

Subject == IF module = "pid" THEN l_pid ELSE ticks

\* The next call of proc_read has none of the locals of the last one.
Calls(r) ==
  /\ seen' = [seen EXCEPT ![r] = {Subject}]
  /\ tsk' = [tsk EXCEPT ![r] = NoTask]
  /\ value' = [value EXCEPT ![r] = <<>>]

Ends(r, outcome) ==
  /\ IF overlapped THEN UNCHANGED <<previous, latest>>
                   ELSE previous' = latest /\ latest' = outcome
  /\ seen' = [seen EXCEPT ![r] = {}]
  /\ tsk' = [tsk EXCEPT ![r] = NoTask]
  /\ value' = [value EXCEPT ![r] = <<>>]
  /\ count' = [count EXCEPT ![r] = 0]
  /\ UNCHANGED overlapped

Open(r) ==
  /\ Goto(r, "closed", "test")
  /\ Calls(r)
  /\ IF \E o \in Readers : place[o] # "closed"
       THEN overlapped' = TRUE /\ previous' = "none" /\ latest' = "none"
       ELSE UNCHANGED <<overlapped, previous, latest>>
  /\ UNCHANGED <<module, completed, jiffies_init, kernel, count>>

\* A process that is content with one value closes the file without more calls.
Abandon(r) ==
  /\ count[r] > 0
  /\ Goto(r, "test", "closed")
  /\ Ends(r, "cut short")
  /\ UNCHANGED <<module, completed, jiffies_init, kernel>>

-----------------------------------------------------------------------------
\* if (completed)
Test(r, next) ==
  /\ Goto(r, "test", IF completed THEN "reset" ELSE next)
  /\ UNCHANGED <<module, completed, jiffies_init, kernel, tsk, value, seen, observed>>

\* The outcome of a reading that the value 0 of proc_read has ended.
Outcome(r) ==
  CASE count[r] = 0 -> "nothing" [] count[r] = 1 -> "value" [] OTHER -> "repeated"

Forgets(r) ==  \* faulty: completed stays set
  /\ Goto(r, "reset", "closed")
  /\ Ends(r, Outcome(r))
  /\ UNCHANGED <<module, completed, jiffies_init, kernel>>

\* completed = 0; return 0
Reset(r) ==
  /\ Goto(r, "reset", "closed")
  /\ completed' = FALSE
  /\ Ends(r, Outcome(r))
  /\ UNCHANGED <<module, jiffies_init, kernel>>

MarkForgotten(r) ==  \* faulty: completed is never set
  /\ Goto(r, "mark", "format")
  /\ UNCHANGED <<module, completed, jiffies_init, kernel, tsk, value, seen, observed>>

\* completed = 1
Mark(r) ==
  /\ Goto(r, "mark", "format")
  /\ completed' = TRUE
  /\ UNCHANGED <<module, jiffies_init, kernel, tsk, value, seen, observed>>

Format(r, result) ==
  /\ Goto(r, "format", "copy")
  /\ value' = [value EXCEPT ![r] = result]
  /\ UNCHANGED <<module, completed, jiffies_init, kernel, tsk, seen, observed>>

\* copy_to_user, and return rv: the process reads on.
Copy(r) ==
  /\ Goto(r, "copy", "test")
  /\ count' = [count EXCEPT ![r] = IF @ = 0 THEN 1 ELSE 2]
  /\ Calls(r)
  /\ UNCHANGED <<module, completed, jiffies_init, kernel, overlapped, previous, latest>>

-----------------------------------------------------------------------------
ReadJiffies(r) ==
  /\ module = "jiffies"
  /\ Test(r, "mark") \/ Reset(r) \/ Mark(r) \/ Format(r, <<jiffies>>) \/ Copy(r)

SignedSeconds == (jiffies - jiffies_init) \div HZ  \* faulty: not modulo WordSize
Seconds == ((jiffies - jiffies_init) % WordSize) \div HZ

ReadSeconds(r) ==
  /\ module = "seconds"
  /\ Test(r, "mark") \/ Reset(r) \/ Mark(r) \/ Format(r, <<Seconds>>) \/ Copy(r)

\* pid_task(find_vpid(l_pid), PIDTYPE_PID)
Lookup(r) ==
  /\ Goto(r, "lookup", "mark")
  /\ tsk' = [tsk EXCEPT ![r] = IF l_pid \in alive THEN l_pid ELSE NoTask]
  /\ UNCHANGED <<module, completed, jiffies_init, kernel, value, seen, observed>>

\* No such process, or the value cannot be copied: completed stays set.
Fails(r) ==
  /\ \/ tsk[r] = NoTask /\ Goto(r, "format", "closed")
     \/ Goto(r, "copy", "closed")
  /\ Ends(r, "cut short")
  /\ UNCHANGED <<module, completed, jiffies_init, kernel>>

\* The command is that of the task found, if it is still there; the number is
\* read again.
ReadPid(r) ==
  /\ module = "pid"
  /\ \/ Test(r, "lookup") \/ Reset(r) \/ Lookup(r) \/ Mark(r)
     \/ tsk[r] # NoTask /\ Format(r, <<tsk[r], l_pid>>)
     \/ Copy(r) \/ Fails(r)

ReadStep(r) == ReadJiffies(r) \/ ReadSeconds(r) \/ ReadPid(r)

-----------------------------------------------------------------------------
\* What changes during calls of proc_read becomes a subject of each of them.
Changes(subject) ==
  seen' = [r \in Readers |-> IF place[r] = "closed" THEN {} ELSE seen[r] \cup {subject}]

\* kstrtol stores the number; a text that is none leaves l_pid alone.
WritePid(p) ==
  /\ module = "pid"
  /\ l_pid' = p
  /\ Changes(p)
  /\ UNCHANGED <<module, completed, jiffies, jiffies_init, ticks, alive, place, tsk, value, observed>>

Tick ==
  /\ module # "pid" /\ ticks < MaxTicks
  /\ ticks' = ticks + 1
  /\ jiffies' = (jiffies + 1) % WordSize
  /\ Changes(ticks + 1)
  /\ UNCHANGED <<module, completed, jiffies_init, l_pid, alive, place, tsk, value, observed>>

\* Nothing keeps a task that was looked up: the pointer to it is left behind.
StartOrExit(p) ==
  /\ module = "pid"
  /\ alive' = IF p \in alive THEN alive \ {p} ELSE alive \cup {p}
  /\ tsk' = [r \in Readers |-> IF p \in alive /\ tsk[r] = p THEN Exited ELSE tsk[r]]
  /\ UNCHANGED <<module, completed, jiffies, jiffies_init, ticks, l_pid, place, value, seen, observed>>

FileNext ==
  \/ \E r \in Readers : Open(r) \/ Abandon(r) \/ ReadStep(r)
  \/ \E p \in Pids : WritePid(p) \/ StartOrExit(p)
  \/ Tick

FileSpec == FileInit /\ [][FileNext]_fileVars

\* A call of proc_read runs to its end, and its caller calls again.
FairFileSpec == FileSpec /\ \A r \in Readers : WF_fileVars(ReadStep(r))

-----------------------------------------------------------------------------
(***************************************************************************)
(* What a call returns was true during the call: the seconds that have     *)
(* passed since loading, also across the wrap of the counter, the jiffies, *)
(* and of a process whose number was written before the call ended, unless *)
(* it has exited since it was looked up; the number printed may be another *)
(* than the one looked up, but no older                                    *)
(* (jiffies.c:43, seconds.c:19, 45, pid.c:74, 83, 116).                    *)
(***************************************************************************)
ValuesCurrent ==
  \A r \in Readers : place[r] = "copy" =>
    CASE module = "jiffies" ->
           \E t \in seen[r] : value[r] = <<(jiffies_init + t) % WordSize>>
      [] module = "seconds" -> \E t \in seen[r] : value[r] = <<t \div HZ>>
      [] module = "pid" -> value[r] \in (seen[r] \cup {Exited}) \X seen[r]

(***************************************************************************)
(* As long as no two processes have had the file open at once, a reading   *)
(* gets the value exactly once, unless the one before it ended without     *)
(* taking the 0 that was due: only then it gets nothing, even if the pid   *)
(* is valid by now (jiffies.c:36-41, seconds.c:38-43, pid.c:69-81).        *)
(***************************************************************************)
LoneReaderServed ==
  ~ overlapped => /\ latest # "repeated"
                  /\ latest = "nothing" => previous = "cut short"

(***************************************************************************)
(* A process that has the file for itself reads to its end: proc_read      *)
(* ultimately returns 0 (pid.c:54-61).                                     *)
(***************************************************************************)
LoneReaderEnds ==
  \A r \in Readers : place[r] # "closed" ~> (place[r] = "closed" \/ overlapped)

=============================================================================
