---------------------------- MODULE ResourceLedger ----------------------------
(***************************************************************************)
(* What the banker of Project6 promises its customers.  A request is       *)
(* granted in one step, and only if the books it leaves are safe: whichever*)
(* customers are still waiting, one of them could be given all it may still*)
(* ask for out of what is free or held by the others.  A refusal changes   *)
(* nothing, and what is returned is free again.  What there is at the      *)
(* start may be less than nothing, what is asked for or returned may not.  *)
(***************************************************************************)
EXTENDS Integers, FiniteSetsExt

CONSTANTS
  Customers, Resources,
  Vectors      \* amounts of all resources, as they are asked for or returned

VARIABLES maximum, available, allocation

ledgerVars == <<maximum, available, allocation>>

Zero == [r \in Resources |-> 0]
Plus(u, v)  == [r \in Resources |-> u[r] + v[r]]
Minus(u, v) == [r \in Resources |-> u[r] - v[r]]
Leq(u, v)   == \A r \in Resources : u[r] <= v[r]

\* All that the customers of S hold.
Held(alloc, S) ==
  [r \in Resources |-> MapThenSumSet(LAMBDA c : alloc[c][r], S)]

Safe(avail, alloc) ==
  \A S \in (SUBSET Customers) \ {{}} :
    \E c \in S :
      Leq(Minus(maximum[c], alloc[c]), Plus(avail, Held(alloc, Customers \ S)))

Init ==
  /\ maximum \in [Customers -> Vectors]
  /\ available \in Vectors
  /\ allocation = [c \in Customers |-> Zero]

Grant(c, v) ==
  LET left == Minus(available, v)
      held == [allocation EXCEPT ![c] = Plus(@, v)]
  IN  /\ Leq(v, available) /\ Leq(held[c], maximum[c])
      /\ Safe(left, held)
      /\ available' = left
      /\ allocation' = held
      /\ UNCHANGED maximum

Return(c, v) ==
  /\ Leq(v, allocation[c])
  /\ available' = Plus(available, v)
  /\ allocation' = [allocation EXCEPT ![c] = Minus(@, v)]
  /\ UNCHANGED maximum

Next ==
  \E c \in Customers, v \in Vectors : Leq(Zero, v) /\ (Grant(c, v) \/ Return(c, v))

Spec == Init /\ [][Next]_ledgerVars

=============================================================================
