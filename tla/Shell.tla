-------------------------------- MODULE Shell --------------------------------
(***************************************************************************)
(* Project2/osh: the shell.  main reads a line of words, copies it into    *)
(* the arrays the command is run from, forks, waits or does not, and keeps *)
(* the line as history; the handler of SIGCHLD reaps whatever child ended. *)
(*                                                                         *)
(* A word is a pointer <<n, k>> to what malloc returned for word k of line *)
(* n: pointers are copied from array to array, shared by them, and freed.  *)
(* A child is seen by what it executes (its arrays are a copy, so they are *)
(* read when it is forked) and by its end; that open, dup2 or execvp fails *)
(* only makes it end sooner.                                               *)
(***************************************************************************)
EXTENDS Integers, Sequences, SequencesExt

CONSTANTS
  Lines,      \* the lines a user types, sequences of words
  MaxLines,   \* bound: so many lines, then only "exit"
  MaxArgs,    \* MAX_LINE/2
  NULL

ASSUME ShellAssumption ==
  /\ Lines \subseteq Seq(STRING) /\ \A l \in Lines : Len(l) \in 1 .. MaxArgs
  /\ MaxLines \in Nat /\ MaxArgs \in Nat
  /\ NULL \notin Nat \X Nat

Slots   == 0 .. MaxArgs
Garbage == "?"                   \* what is read from freed memory
Recall  == <<"!!">>

VARIABLES
  typed,                         \* the lines read so far
  buffer, buffer_len,            \* the history
  temp, father, child,           \* the arguments of the command, of its sides
  command,                       \* ifpara, ifpipe, redirect, filename
  freed,                         \* pointers that were given to free
  pc,                            \* where main is
  jobs,                          \* the children, in the order of fork
  installed, pending, handling   \* SIGCHLD has a handler, is due, is handled

arrays  == <<buffer, buffer_len, freed>>
parsed  == <<temp, father, child, command>>
signals == <<installed, pending, handling>>
vars == <<typed, arrays, parsed, pc, jobs, signals>>

-----------------------------------------------------------------------------
NoWords == [i \in Slots |-> NULL]
NoFlags == [ifpara |-> FALSE, ifpipe |-> FALSE, redirect |-> NULL, filename |-> NULL]

Init ==
  /\ typed = <<>>
  /\ buffer = NoWords /\ buffer_len = 0 /\ freed = {}
  /\ temp = NoWords /\ father = NoWords /\ child = NoWords
  /\ command = NoFlags
  /\ pc = "prompt" /\ jobs = <<>>
  /\ installed = FALSE /\ pending = FALSE /\ handling = FALSE

Line == Last(typed)
len  == Len(Line)
Text(p) == typed[p[1]][p[2] + 1]

\* What main has read; it looks at no element behind args[len].
args == [i \in Slots |-> IF i < len THEN <<Len(typed), i>> ELSE NULL]

\* The words execvp finds up to the first null pointer.
Executed(a) ==
  [k \in 1 .. Min({i \in Slots : a[i] = NULL}) |->
     IF a[k - 1] \in freed THEN Garbage ELSE Text(a[k - 1])]

\* "<" or ">" and the file name; behind a last "<" or ">" there is none.
Redirection ==
  LET c == command
  IN  CASE c.redirect = NULL -> <<>>
        [] c.redirect # NULL /\ c.filename = NULL -> <<Text(c.redirect)>>
        [] OTHER -> <<Text(c.redirect), Text(c.filename)>>

-----------------------------------------------------------------------------
\* main runs unless the handler interrupts it.
MainGoto(from, to) ==
  /\ ~ handling
  /\ pc = from
  /\ pc' = to

ReadLine(l) ==
  /\ MainGoto("prompt", IF l = <<"exit">> THEN "exited" ELSE "parse")
  /\ l = <<"exit">> \/ Len(typed) < MaxLines
  /\ typed' = IF l = <<"exit">> THEN typed ELSE Append(typed, l)
  /\ UNCHANGED <<arrays, parsed, jobs, signals>>

(***************************************************************************)
(* The words that are run end in front of a final "&" and of the first     *)
(* redirection.                                                            *)
(***************************************************************************)
Background(src, n) == Text(src[n - 1]) = "&"
End(src, n) == IF Background(src, n) THEN n - 1 ELSE n
Stop(src, n) ==
  Min({i \in 0 .. End(src, n) - 1 : Text(src[i]) \in {"<", ">"}} \cup {End(src, n)})

\* Faulty: no null pointer after the words.
UnendedTemp(src, stop) ==
  [i \in Slots |-> IF i < stop THEN src[i] ELSE temp[i]]

NewTemp(src, stop) ==
  [i \in Slots |-> CASE i < stop -> src[i] [] i = stop -> NULL [] i > stop -> temp[i]]

\* The copies to father and child put no null pointer behind the words.
NewFather(words, position) ==
  [i \in Slots |-> IF i < position THEN words[i] ELSE father[i]]
\* len is the length of the line just read, also when that is "!!".
NewChild(words, position) ==
  [i \in Slots |-> IF i + position + 1 < len THEN words[i + position + 1] ELSE child[i]]

\* A line, or for "!!" the history, is taken apart.
Parse(src, n) ==
  LET stop == Stop(src, n)
      bars == {i \in 0 .. stop - 1 : Text(src[i]) = "|"}
      redirected == stop < End(src, n)
  IN  /\ temp' = NewTemp(src, stop)
      /\ father' = IF bars = {} THEN father ELSE NewFather(temp', Max(bars))
      /\ child' = IF bars = {} THEN child ELSE NewChild(temp', Max(bars))
      /\ command' = [ifpara |-> Background(src, n), ifpipe |-> bars # {},
                     redirect |-> IF redirected THEN src[stop] ELSE NULL,
                     filename |-> IF redirected THEN src[stop + 1] ELSE NULL]

\* With no history "!!" goes on with the flags cleared and temp as it is.
ParseLine ==
  /\ MainGoto("parse", "fork")
  /\ CASE Line # Recall -> Parse(args, len)
       [] Line = Recall /\ buffer[0] # NULL -> Parse(buffer, buffer_len)
       [] OTHER -> command' = NoFlags /\ UNCHANGED <<temp, father, child>>
  /\ UNCHANGED <<typed, arrays, jobs, signals>>

ForkChild ==
  /\ MainGoto("fork", IF command.ifpara THEN "signal" ELSE "wait")
  /\ jobs' = Append(jobs,
       [state |-> "running", line |-> Len(typed), ifpara |-> command.ifpara,
        argv |-> Executed(IF command.ifpipe THEN child ELSE temp),
        left |-> IF command.ifpipe THEN Executed(father) ELSE <<>>,
        files |-> IF command.ifpipe THEN <<>> ELSE Redirection])
  /\ UNCHANGED <<typed, arrays, parsed, signals>>

\* fork failed: nothing runs, and main neither waits nor installs.
ForkFails ==
  /\ MainGoto("fork", "save")
  /\ UNCHANGED <<typed, arrays, parsed, jobs, signals>>

\* The first background command installs the handler, for good.
InstallHandler ==
  /\ MainGoto("signal", "save")
  /\ installed' = TRUE
  /\ UNCHANGED <<typed, arrays, parsed, jobs, pending, handling>>

(***************************************************************************)
(* waitpid(id): blocks while the child runs, reaps it when it has ended,   *)
(* and fails when the handler has reaped it; main does not look.           *)
(***************************************************************************)
Ended == {"unnoticed", "zombie", "reaped"}
AnyEnded == {j \in DOMAIN jobs : jobs[j].state \in Ended}  \* faulty: waitpid(-1)
Awaited == {j \in {Len(jobs)} : jobs[j].state \in Ended}

WaitsUntilItReaps ==  \* faulty: tries again when waitpid fails
  \/ /\ MainGoto("wait", "save")
     /\ \E j \in Awaited : /\ jobs[j].state # "reaped"
                          /\ jobs' = [jobs EXCEPT ![j].state = "reaped"]
     /\ UNCHANGED <<typed, arrays, parsed, signals>>
  \/ pc = "wait" /\ UNCHANGED vars

WaitForChild ==
  /\ MainGoto("wait", "save")
  /\ \E j \in Awaited : jobs' = [jobs EXCEPT ![j].state = "reaped"]
  /\ UNCHANGED <<typed, arrays, parsed, signals>>

\* The line becomes the history, and what it overwrites is freed.
AllButNull == 0 .. len - 1  \* faulty: the null pointer is not copied
Overwritten == 0 .. len
SaveHistory ==
  /\ MainGoto("save", "prompt")
  /\ IF Line = Recall
       THEN UNCHANGED arrays
       ELSE /\ freed' = freed \cup ({buffer[k] : k \in Overwritten} \ {NULL})
            /\ buffer' = [k \in Slots |-> IF k \in Overwritten THEN args[k] ELSE buffer[k]]
            /\ buffer_len' = len
  /\ UNCHANGED <<typed, parsed, jobs, signals>>

-----------------------------------------------------------------------------
(***************************************************************************)
(* A child ends.  Its SIGCHLD is discarded as long as there is no handler. *)
(***************************************************************************)
ChildEnds(j) ==
  /\ jobs[j].state = "running"
  /\ jobs' = [jobs EXCEPT ![j].state = IF installed THEN "zombie" ELSE "unnoticed"]
  /\ pending' = installed
  /\ UNCHANGED <<typed, arrays, parsed, pc, installed, handling>>

Unreaped == {j \in DOMAIN jobs : jobs[j].state \in {"unnoticed", "zombie"}}

\* The kernel delivers one SIGCHLD for any number of children that ended.
HandlerStarts ==
  /\ pending /\ ~ handling /\ pc # "exited"
  /\ pending' = FALSE /\ handling' = TRUE
  /\ UNCHANGED <<typed, arrays, parsed, pc, jobs, installed>>

\* waitpid(-1, &status, WNOHANG), until it finds none.
HandlerReaps ==
  /\ handling
  /\ \E j \in Unreaped : jobs' = [jobs EXCEPT ![j].state = "reaped"]
  /\ UNCHANGED <<typed, arrays, parsed, pc, signals>>

ReapsOneAtMost ==  \* faulty: if in place of while
  /\ handling
  /\ handling' = FALSE
  /\ UNCHANGED <<typed, arrays, parsed, pc, jobs, installed, pending>>

HandlerLeaves ==
  /\ handling /\ Unreaped = {}
  /\ handling' = FALSE
  /\ UNCHANGED <<typed, arrays, parsed, pc, jobs, installed, pending>>

-----------------------------------------------------------------------------
MainRuns ==
  ParseLine \/ ForkChild \/ ForkFails \/ InstallHandler \/ WaitForChild \/ SaveHistory

Handler == HandlerStarts \/ HandlerReaps \/ HandlerLeaves

Terminated == pc = "exited" /\ UNCHANGED vars

Next ==
  \/ \E l \in Lines \cup {<<"exit">>} : ReadLine(l)
  \/ MainRuns \/ Handler
  \/ \E j \in DOMAIN jobs : ChildEnds(j)
  \/ Terminated

Spec == Init /\ [][Next]_vars

\* Commands end, and the shell runs when it can; users may type nothing.
FairSpec ==
  /\ Spec
  /\ WF_vars(MainRuns) /\ WF_vars(Handler)
  /\ \A j \in 1 .. MaxLines : WF_vars(j \in DOMAIN jobs /\ ChildEnds(j))

-----------------------------------------------------------------------------
\* The line whose command line n runs, its words in front of "&", "<", ">",
\* and what a redirection says.
Meant(n) ==
  LET own == {k \in 1 .. n : typed[k] # Recall}
  IN  IF own = {} THEN <<>> ELSE typed[Max(own)]

Words(l) ==
  LET ends == {k \in DOMAIN l : l[k] \in {"<", ">"} \/ (l[k] = "&" /\ k = Len(l))}
  IN  SubSeq(l, 1, Min(ends \cup {Len(l) + 1}) - 1)

Files(l) ==
  LET rest == SubSeq(l, Len(Words(l)) + 1, Len(l))
  IN  IF rest = <<>> \/ rest = <<"&">> THEN <<>>
                                      ELSE SubSeq(rest, 1, Min({2, Len(rest)}))

Bar(words) == Max({k \in DOMAIN words : words[k] = "|"} \cup {0})
LeftSide(words)  == SubSeq(words, 1, Bar(words) - 1)
RightSide(words) == SubSeq(words, Bar(words) + 1, Len(words))

(***************************************************************************)
(* A child runs exactly the words of the line that was typed, or that "!!" *)
(* repeats, all of them still allocated, with the file that it names.  Of  *)
(* a pipeline both sides begin with their words: what the line does not    *)
(* overwrite in father and child may come after them (osh.c:68-145,        *)
(* 165-229).                                                               *)
(***************************************************************************)
RunsItsWords ==
  \A j \in DOMAIN jobs :
    LET words == Words(Meant(jobs[j].line))
    IN  IF Bar(words) = 0
          THEN /\ jobs[j].argv = words
               /\ jobs[j].files = Files(Meant(jobs[j].line))
          ELSE /\ IsPrefix(LeftSide(words), jobs[j].left)
               /\ IsPrefix(RightSide(words), jobs[j].argv)

(***************************************************************************)
(* What the comments on father and child say: they hold the commands of    *)
(* the two sides of the pipe, and no more (osh.c:29-30).                   *)
(***************************************************************************)
PipelineRunsItsWords ==
  \A j \in DOMAIN jobs :
    LET words == Words(Meant(jobs[j].line))
    IN  Bar(words) # 0 => /\ jobs[j].left = LeftSide(words)
                          /\ jobs[j].argv = RightSide(words)

(***************************************************************************)
(* The history owns its words: none was freed, none is there twice, so     *)
(* that none will be freed twice, and at the prompt it is the last line    *)
(* that was not "!!", "&" included (osh.c:72-75, 100, 231-239).            *)
(***************************************************************************)
HistoryOwned ==
  /\ \A k \in Slots : buffer[k] = NULL \/ buffer[k] \notin freed
  /\ \A k, m \in Slots : k # m => buffer[k] = NULL \/ buffer[k] # buffer[m]
  /\ pc = "prompt" => Executed(buffer) = Meant(Len(typed))

(***************************************************************************)
(* The prompt comes back only when the foreground command has ended,       *)
(* however many background commands end meanwhile (osh.c:159-162).         *)
(***************************************************************************)
ForegroundWaited ==
  pc = "prompt" => \A j \in DOMAIN jobs : jobs[j].ifpara \/ jobs[j].state # "running"

(***************************************************************************)
(* Signals coalesce, but no child whose end was signalled stays a zombie   *)
(* when the handler has nothing to do any more (osh.c:18-23).              *)
(***************************************************************************)
ZombiesCollected ==
  \A j \in DOMAIN jobs : jobs[j].state = "zombie" => pending \/ handling

(***************************************************************************)
(* main never waits for ever for a child that the handler has reaped in    *)
(* its place (osh.c:18-23, 157, 161).                                      *)
(***************************************************************************)
PromptReturns == pc = "wait" ~> pc = "prompt"

=============================================================================
