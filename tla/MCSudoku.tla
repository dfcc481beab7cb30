------------------------------ MODULE MCSudoku ------------------------------
(* Small puzzles: a right one, and one each with wrong rows, wrong columns, *)
(* wrong subgrids, and single cells that are wrong in a row, a column and a *)
(* subgrid at once.                                                         *)
EXTENDS Sudoku

Grid(rows) == [c \in Cells |-> rows[c[1] + 1][c[2] + 1]]

MCPuzzles == {
  Grid(<< <<1,2,3,4>>, <<3,4,1,2>>, <<2,1,4,3>>, <<4,3,2,1>> >>),
  Grid(<< <<1,2,1,2>>, <<3,4,3,4>>, <<2,1,2,1>>, <<4,3,4,3>> >>),
  Grid(<< <<1,3,2,4>>, <<2,4,1,3>>, <<1,3,2,4>>, <<2,4,1,3>> >>),
  Grid(<< <<1,2,3,4>>, <<2,3,4,1>>, <<3,4,1,2>>, <<4,1,2,3>> >>),
  Grid(<< <<1,2,3,4>>, <<3,4,1,2>>, <<2,1,4,3>>, <<4,3,2,2>> >>),
  Grid(<< <<1,2,3,4>>, <<3,4,1,3>>, <<2,1,4,3>>, <<4,3,2,1>> >>) }

\* A row and column in front of the grid, in it, and behind it.
MCGarbage == {-1, 1, Size}

=============================================================================
