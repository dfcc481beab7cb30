-------------------------------- MODULE Sudoku --------------------------------
(***************************************************************************)
(* Project3/Pthreads/sudoku: main creates a thread for all rows, one for   *)
(* all columns and one for each subgrid, joins threads, and judges by what *)
(* they have left in valid.  Each row, each column and each subgrid is one *)
(* step; the order of the cells in it shows nowhere.                       *)
(***************************************************************************)
EXTENDS Integers

CONSTANTS
  Box,       \* 3: a subgrid is Box by Box
  Puzzles,   \* what sudoku.txt may hold
  Garbage    \* what may be read of memory that was freed

Size  == Box * Box
Index == 0 .. Size - 1
Cells == Index \X Index

(***************************************************************************)
(* A thread has the number of the element of valid that it answers for.    *)
(***************************************************************************)
RowThread    == Size
ColumnThread == Size + 1
Threads == 0 .. Size + 1

ASSUME SudokuAssumption ==
  /\ Box \in Nat \ {0}
  /\ \A p \in Puzzles : p \in [Cells -> 0 .. Size]
  /\ Garbage \subseteq Int

VARIABLES
  puzzle, valid,
  pc,          \* per thread: "none", "created" (rows only), "running", "exited"
  next,        \* the row, the column that those threads look at next
  stage, i,    \* main: where it is, and its loop index
  tidRow,      \* whose id the variable holds
  freed,       \* the parameters in data are freed
  printed,     \* rows and columns printed as invalid
  verdict, reported   \* what main prints: "Valid!", or the invalid subgrids

threads  == <<valid, pc, next, printed>>
main     == <<stage, i, tidRow, freed, verdict, reported>>
gridVars == <<puzzle, threads, main>>

GridInit ==
  /\ puzzle \in Puzzles
  /\ valid = [t \in Threads |-> TRUE]
  /\ pc = [t \in Threads |-> "none"]
  /\ next = [t \in {RowThread, ColumnThread} |-> 0]
  /\ stage = "create" /\ i = 0
  /\ tidRow = RowThread          \* not assigned yet
  /\ freed = FALSE /\ printed = {} /\ verdict = "none" /\ reported = {}

-----------------------------------------------------------------------------
\* A value is seen a second time: flag[puzzle[i][j]] is already set.
Repeats(cells) == \E c, d \in cells : c # d /\ puzzle[c] = puzzle[d]

Row(k)    == {k} \X Index
Column(k) == Index \X {k}

\* data[t]: the cell in which subgrid t starts.
StartRow(t)    == Box * (t \div Box)
StartColumn(t) == Box * (t % Box)
Subgrid(t) == (StartRow(t) .. StartRow(t) + Box - 1) \X (StartColumn(t) .. StartColumn(t) + Box - 1)

Finds(t, bad, line) ==
  /\ valid' = IF bad THEN [valid EXCEPT ![t] = FALSE] ELSE valid
  /\ printed' = IF bad THEN printed \cup {line} ELSE printed

Advances(t) ==
  /\ pc[t] = "running"
  /\ next' = [next EXCEPT ![t] = @ + 1]
  /\ pc' = [pc EXCEPT ![t] = IF next[t] = Size - 1 THEN "exited" ELSE @]

(***************************************************************************)
(* checkRow reads where to begin once, and where to begin in a row for     *)
(* every row.  Once the parameters, both 0, are freed, it may begin in any *)
(* row, at any column, be it one of the grid or not: outside there may be  *)
(* numbers that repeat or not, and it may be fatal to look.                *)
(***************************************************************************)
Read == IF freed THEN {0} \cup Garbage ELSE {0}

BeginRows ==
  /\ pc[RowThread] = "created"
  /\ \E k \in Read :
       /\ next' = [next EXCEPT ![RowThread] = k]
       /\ pc' = [pc EXCEPT ![RowThread] = IF k < Size THEN "running" ELSE "exited"]
  /\ UNCHANGED <<puzzle, valid, printed, main>>

InGrid(k, from) == k >= 0 /\ from >= 0

CheckRow ==
  /\ Advances(RowThread)
  /\ LET k == next[RowThread]
     IN  \E from \in Read :
           \E bad \in IF InGrid(k, from) THEN {Repeats({k} \X (from .. Size - 1))} ELSE BOOLEAN :
             Finds(RowThread, bad, <<"Line", k>>)
  /\ UNCHANGED <<puzzle, main>>

LooksOutside ==
  /\ pc[RowThread] = "running"
  /\ \E from \in Read : ~ InGrid(next[RowThread], from)
  /\ stage' = "crashed"
  /\ UNCHANGED <<puzzle, threads, i, tidRow, freed, verdict, reported>>

CheckColumn ==
  /\ Advances(ColumnThread)
  /\ Finds(ColumnThread, Repeats(Column(next[ColumnThread])), <<"Column", next[ColumnThread]>>)
  /\ UNCHANGED <<puzzle, main>>

TransposedIndex(t) == StartColumn(t) + (StartRow(t) \div Box)  \* faulty: row and column swapped
ValidIndex(t) == StartRow(t) + (StartColumn(t) \div Box)

CheckSubgrid(t) ==
  /\ pc[t] = "running"
  /\ pc' = [pc EXCEPT ![t] = "exited"]
  /\ valid' = IF Repeats(Subgrid(t)) THEN [valid EXCEPT ![ValidIndex(t)] = FALSE] ELSE valid
  /\ UNCHANGED <<puzzle, next, printed, main>>

-----------------------------------------------------------------------------
StageGoto(from, to) ==
  /\ stage = from
  /\ stage' = to

\* The threads in the order in which main creates them.
Created(k) ==
  CASE k = 0 -> RowThread [] k = 1 -> ColumnThread [] OTHER -> k - 2

\* The id of the column thread goes to tidRow too.
CreateThread ==
  /\ StageGoto("create", IF i = Size + 1 THEN "join" ELSE "create")
  /\ pc' = [pc EXCEPT ![Created(i)] = IF i = 0 THEN "created" ELSE "running"]
  /\ tidRow' = IF i < 2 THEN Created(i) ELSE tidRow
  /\ i' = IF i = Size + 1 THEN 0 ELSE i + 1
  /\ UNCHANGED <<puzzle, valid, next, printed, freed, verdict, reported>>

JoinSubgrid ==
  /\ StageGoto("join", IF i = Size - 1 THEN "joinRow" ELSE "join")
  /\ pc[i] = "exited"
  /\ i' = i + 1
  /\ UNCHANGED <<puzzle, threads, tidRow, freed, verdict, reported>>

WaitsForNobody ==  \* faulty: tidRow is not joined either
  /\ StageGoto("joinRow", "joinColumn")
  /\ UNCHANGED <<puzzle, threads, i, tidRow, freed, verdict, reported>>

JoinTidRow ==
  /\ StageGoto("joinRow", "joinColumn")
  /\ pc[tidRow] = "exited"
  /\ UNCHANGED <<puzzle, threads, i, tidRow, freed, verdict, reported>>

\* tidColumn was never assigned: pthread_join fails at once, or crashes.
JoinTidColumn ==
  /\ StageGoto("joinColumn", "judge") \/ StageGoto("joinColumn", "crashed")
  /\ UNCHANGED <<puzzle, threads, i, tidRow, freed, verdict, reported>>

Judge ==
  /\ StageGoto("judge", "free")
  /\ IF \A t \in Threads : valid[t]
       THEN verdict' = "Valid!" /\ UNCHANGED reported
       ELSE verdict' = "invalid" /\ reported' = {t \in Index : ~ valid[t]}
  /\ UNCHANGED <<puzzle, threads, i, tidRow, freed>>

FreeParameters ==
  /\ StageGoto("free", "return")
  /\ freed' = TRUE
  /\ UNCHANGED <<puzzle, threads, i, tidRow, verdict, reported>>

\* The process ends, and with it every thread that has not.
Return ==
  /\ StageGoto("return", "done")
  /\ pc' = [t \in Threads |-> "exited"]
  /\ UNCHANGED <<puzzle, valid, next, printed, i, tidRow, freed, verdict, reported>>

ProcessEnded == stage \in {"done", "crashed"} /\ UNCHANGED gridVars

MainRuns ==
  \/ CreateThread \/ JoinSubgrid \/ JoinTidRow \/ JoinTidColumn
  \/ Judge \/ FreeParameters \/ Return

ThreadRuns ==
  \/ BeginRows \/ CheckRow \/ LooksOutside
  \/ CheckColumn
  \/ \E t \in Index : CheckSubgrid(t)

GridNext == MainRuns \/ (stage # "crashed" /\ ThreadRuns) \/ ProcessEnded

GridSpec == GridInit /\ [][GridNext]_gridVars

-----------------------------------------------------------------------------
\* No value is there twice in a row, a column, a subgrid.
RowsRight     == \A k \in Index : ~ Repeats(Row(k))
ColumnsRight  == \A k \in Index : ~ Repeats(Column(k))
SubgridsRight == \A t \in Index : ~ Repeats(Subgrid(t))

(***************************************************************************)
(* The verdict is right about columns and subgrids, and about rows unless  *)
(* the thread for them, which is not joined, has yet to end; a puzzle that *)
(* is right is never found invalid, and main names exactly the subgrids    *)
(* that are wrong (sudoku.c:120-148).                                      *)
(***************************************************************************)
VerdictSound ==
  [][ /\ verdict' # verdict /\ verdict' = "Valid!" =>
           ColumnsRight /\ SubgridsRight /\ (RowsRight \/ pc[RowThread] # "exited")
      /\ verdict' # verdict /\ verdict' = "invalid" =>
           /\ ~ (RowsRight /\ ColumnsRight /\ SubgridsRight)
           /\ reported' = {t \in Index : Repeats(Subgrid(t))} ]_gridVars

(***************************************************************************)
(* What is printed of a row is true as long as the parameters are there;   *)
(* what is printed of the columns is true, and complete by the verdict;    *)
(* and only the thread for the rows can be left to read the parameters     *)
(* once they are freed (sudoku.c:25-63, 125-128, 150-151).                 *)
(***************************************************************************)
ThreadsOutlived ==
  /\ ~ freed => \A k \in Index : <<"Line", k>> \in printed => Repeats(Row(k))
  /\ verdict # "none" => \A k \in Index : <<"Column", k>> \in printed <=> Repeats(Column(k))
  /\ freed => \A t \in Threads \ {RowThread} : pc[t] = "exited"

(***************************************************************************)
(* What the comments on valid and on the verdict say: the last two         *)
(* elements are the validity of the rows and of the columns, and by them   *)
(* main judges whether the puzzle is valid (sudoku.c:15, 130).             *)
(***************************************************************************)
ValidMeansValid ==
  verdict = "Valid!" => RowsRight /\ ColumnsRight /\ SubgridsRight

=============================================================================
