------------------------------- MODULE MCBanker -------------------------------
(***************************************************************************)
(* The values the configurations give to the parameters of Banker.         *)
(***************************************************************************)
EXTENDS Banker, TLC

TwoResources == 0 .. 1

\* At most one of each resource, and something below zero.
FewVectors == [TwoResources -> 0 .. 1] \cup {(0 :> -1) @@ (1 :> 1)}

(***************************************************************************)
(* The memory of the program src/Project6/banker, in rows of as many       *)
(* numbers as there are resources, from available on: the arrays follow    *)
(* one another in the order of their declarations, with a row behind each  *)
(* that belongs to none.                                                   *)
(***************************************************************************)
MaximumStart    == 2
AllocationStart == MaximumStart + NUMBER_OF_CUSTOMERS + 1
NeedStart       == AllocationStart + NUMBER_OF_CUSTOMERS + 1

AtRow(k) ==
  CASE k = 0                          -> Place("available", 0)
    [] k - MaximumStart \in Customers -> Place("maximum", k - MaximumStart)
    [] k - AllocationStart \in Rows   -> Place("allocation", k - AllocationStart)
    [] k - NeedStart \in Rows         -> Place("need", k - NeedStart)
    [] OTHER                          -> Elsewhere

AllocationInMemory == [c \in Numbers |-> AtRow(AllocationStart + c)]
NeedInMemory       == [c \in Numbers |-> AtRow(NeedStart + c)]

(***************************************************************************)
(* Numbers with which allocation and need have, in this order: a row of    *)
(* the array before them; available, and a row of maximum; none.           *)
(***************************************************************************)
AllNumbers == {-2, - (NUMBER_OF_CUSTOMERS + 3), -4 * NUMBER_OF_CUSTOMERS}
                \cup 0 .. NUMBER_OF_CUSTOMERS + 1
=============================================================================
