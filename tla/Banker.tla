-------------------------------- MODULE Banker --------------------------------
(***************************************************************************)
(* Project6/banker.c: the banker's algorithm at a prompt.  RQ asks for     *)
(* resources, RL returns some, quit ends.  A request that passes the checks*)
(* is entered into the books first; then safe() looks, one round of its    *)
(* loop after the other, whether every customer could still finish, and    *)
(* the request is taken back if not.                                       *)
(*                                                                         *)
(* request_resources rejects a customer number above NUMBER_OF_CUSTOMERS,  *)
(* so it lets that number itself through, and works on the row behind the  *)
(* arrays.  In the program as built these are zero bytes that nothing else *)
(* uses, so the arrays have that row here.                                 *)
(*                                                                         *)
(* No number below zero is rejected, neither as the number of a customer,  *)
(* where it names memory in front of the array, nor as an amount.  What    *)
(* such a row is depends on the build: a row of another array, or memory   *)
(* that holds anything and that it may be fatal to touch.                  *)
(***************************************************************************)
EXTENDS Integers, FiniteSets

CONSTANTS
  NUMBER_OF_CUSTOMERS,
  Resources,            \* 0 .. NUMBER_OF_RESOURCES - 1
  Vectors,              \* what is entered: an amount of each resource
  Numbers,              \* the numbers entered as customer_num
  AllocationRow,        \* what allocation[c] is in memory, and need[c]
  NeedRow,
  MaxMisuses            \* bound of misuses

Customers == 0 .. NUMBER_OF_CUSTOMERS - 1
Rows      == 0 .. NUMBER_OF_CUSTOMERS

Place(a, r) == [array |-> a, row |-> r]
Elsewhere   == Place("elsewhere", 0)
Places ==
  {Elsewhere, Place("available", 0)} \cup {Place("maximum", c) : c \in Customers}
    \cup {Place(a, r) : a \in {"allocation", "need"}, r \in Rows}

ASSUME BankerAssumption ==
  /\ NUMBER_OF_CUSTOMERS \in Nat \ {0}
  /\ Vectors \subseteq [Resources -> Int]
  /\ Numbers \subseteq Int
  /\ AllocationRow \in [Numbers -> Places] /\ NeedRow \in [Numbers -> Places]
  /\ \A c \in Numbers \cap Rows :
       AllocationRow[c] = Place("allocation", c) /\ NeedRow[c] = Place("need", c)
  /\ MaxMisuses \in Nat

VARIABLES
  argv,                          \* available[] as given at the start
  available, maximum, allocation, need,
  pc,                            \* "prompt", "safe" (in safe()), "quit", "crashed"
  customer_num, request,         \* of the request that safe() is deciding
  work, finish,                  \* the locals of safe()
  err,                           \* what the last command returned
  misuses                        \* commands carried out, from the first with a number
                                 \* below zero on

books  == <<available, maximum, allocation, need>>
locals == <<customer_num, request, work, finish>>
vars   == <<argv, books, pc, locals, err, misuses>>

Zero == [r \in Resources |-> 0]
Plus(u, v)  == [r \in Resources |-> u[r] + v[r]]
Minus(u, v) == [r \in Resources |-> u[r] - v[r]]
vleq(u, v)  == \A r \in Resources : u[r] <= v[r]

NoCommand == 9      \* err before the first command

Init ==
  /\ argv \in Vectors
  /\ maximum \in [Customers -> Vectors]
  /\ available = argv
  /\ allocation = [c \in Rows |-> Zero]
  /\ need = [c \in Rows |-> IF c \in Customers THEN maximum[c] ELSE Zero]
  /\ pc = "prompt"
  /\ customer_num = 0 /\ request = Zero
  /\ work = Zero /\ finish = {}
  /\ err = NoCommand /\ misuses = 0

Reply(e) ==
  /\ pc' = "prompt"
  /\ err' = e
  /\ customer_num' = 0 /\ request' = Zero
  /\ work' = Zero /\ finish' = {}

\* Who can finish with what safe() has in its work array.
CanFinish == {c \in Customers : c \notin finish /\ vleq(need[c], work)}

-----------------------------------------------------------------------------
Memory == [available  |-> [r \in {0} |-> available], maximum |-> maximum,
           allocation |-> allocation,                need    |-> need]

\* How v compares with what is at p: either way, if nothing is known of it.
MayCover(p, v)    == p # Elsewhere => vleq(v, Memory[p.array][p.row])
MayNotCover(p, v) == p # Elsewhere => ~ vleq(v, Memory[p.array][p.row])

\* The row u at p, after v was added to allocation[c] and taken from need[c].
RowAfter(p, u, c, v) ==
  LET w == IF AllocationRow[c] = p THEN Plus(u, v) ELSE u
  IN  IF NeedRow[c] = p THEN Minus(w, v) ELSE w

\* The three assignments, in whatever memory c makes them work on.
Allocate(c, v) ==
  /\ available'  = RowAfter(Place("available", 0), Minus(available, v), c, v)
  /\ maximum'    = [d \in Customers |-> RowAfter(Place("maximum", d), maximum[d], c, v)]
  /\ allocation' = [d \in Rows |-> RowAfter(Place("allocation", d), allocation[d], c, v)]
  /\ need'       = [d \in Rows |-> RowAfter(Place("need", d), need[d], c, v)]

Deallocate(c, v) == Allocate(c, Minus(Zero, v))

\* misuses is a history variable: it guards nothing but its own bound.
Proper(c, v) == c >= 0 /\ vleq(Zero, v)

CountMisuse(c, v) ==
  /\ misuses' = IF misuses = 0 /\ Proper(c, v) THEN 0 ELSE misuses + 1
  /\ misuses' <= MaxMisuses

-----------------------------------------------------------------------------
(***************************************************************************)
(* Faulty variants of definitions below, one plausible bug each: put in    *)
(* their place, each makes the property it is meant for fail.              *)
(***************************************************************************)
\* The request is not compared with the need of the customer.
RequestUnlimited(c, v) ==
  /\ pc = "prompt"
  /\ c <= NUMBER_OF_CUSTOMERS /\ vleq(v, available)
  /\ CountMisuse(c, v)
  /\ Allocate(c, v)
  /\ customer_num' = c /\ request' = v
  /\ work' = available' /\ finish' = {}
  /\ pc' = "safe"
  /\ UNCHANGED <<argv, err>>

\* safe() adds the remaining need of a customer that finishes.
FinishReturnsNeed(c) ==
  /\ pc = "safe"
  /\ c \in CanFinish /\ \A d \in CanFinish : c <= d
  /\ work' = Plus(work, need[c])
  /\ finish' = finish \cup {c}
  /\ UNCHANGED <<argv, books, pc, customer_num, request, err, misuses>>

\* Whoever can finish, the state is taken for safe.
GrantedUnchecked ==
  /\ pc = "safe" /\ CanFinish = {}
  /\ Reply(0)
  /\ UNCHANGED <<argv, books, misuses>>

\* What could not be granted is not taken out of the books again.
RolledBackHalf ==
  /\ pc = "safe" /\ CanFinish = {}
  /\ finish # Customers
  /\ available' = Plus(available, request)
  /\ Reply(1)
  /\ UNCHANGED <<argv, maximum, allocation, need, misuses>>

-----------------------------------------------------------------------------
\* request_resources up to its call of safe(), which starts on its locals.
RequestRejected(c, v) ==
  /\ pc = "prompt"
  /\ \/ c > NUMBER_OF_CUSTOMERS /\ Reply(-1)
     \/ c <= NUMBER_OF_CUSTOMERS /\ ~ vleq(v, available) /\ Reply(-2)
     \/ /\ c <= NUMBER_OF_CUSTOMERS /\ vleq(v, available) /\ MayNotCover(NeedRow[c], v)
        /\ Reply(-3)
  /\ UNCHANGED <<argv, books, misuses>>

RequestEntered(c, v) ==
  /\ pc = "prompt"
  /\ c <= NUMBER_OF_CUSTOMERS /\ vleq(v, available) /\ MayCover(NeedRow[c], v)
  /\ CountMisuse(c, v)
  /\ Allocate(c, v)
  /\ customer_num' = c /\ request' = v
  /\ work' = available' /\ finish' = {}
  /\ pc' = "safe"
  /\ UNCHANGED <<argv, err>>

(***************************************************************************)
(* safe(): every round of the outer loop starts the search for a customer  *)
(* that can finish from the first one again.                               *)
(***************************************************************************)
Finish(c) ==
  /\ pc = "safe"
  /\ c \in CanFinish /\ \A d \in CanFinish : c <= d
  /\ work' = Plus(work, allocation[c])
  /\ finish' = finish \cup {c}
  /\ UNCHANGED <<argv, books, pc, customer_num, request, err, misuses>>

Granted ==
  /\ pc = "safe" /\ CanFinish = {}
  /\ finish = Customers
  /\ Reply(0)
  /\ UNCHANGED <<argv, books, misuses>>

RolledBack ==
  /\ pc = "safe" /\ CanFinish = {}
  /\ finish # Customers
  /\ Deallocate(customer_num, request)
  /\ Reply(1)
  /\ UNCHANGED <<argv, misuses>>

-----------------------------------------------------------------------------
\* release_resources.
ReleaseRejected(c, v) ==
  /\ pc = "prompt"
  /\ \/ c >= NUMBER_OF_CUSTOMERS /\ Reply(-1)
     \/ c < NUMBER_OF_CUSTOMERS /\ MayNotCover(AllocationRow[c], v) /\ Reply(1)
  /\ UNCHANGED <<argv, books, misuses>>

Released(c, v) ==
  /\ pc = "prompt"
  /\ c < NUMBER_OF_CUSTOMERS /\ MayCover(AllocationRow[c], v)
  /\ CountMisuse(c, v)
  /\ Deallocate(c, v)
  /\ Reply(0)
  /\ UNCHANGED argv

\* What is no row of an array cannot be read or written, or is needed.
Crash(c) ==
  /\ pc = "prompt"
  /\ c <= NUMBER_OF_CUSTOMERS /\ Elsewhere \in {AllocationRow[c], NeedRow[c]}
  /\ pc' = "crashed"
  /\ UNCHANGED <<argv, books, locals, err, misuses>>

Quit ==
  /\ pc = "prompt"
  /\ pc' = "quit"
  /\ UNCHANGED <<argv, books, locals, err, misuses>>

Terminated ==
  /\ pc \in {"quit", "crashed"}
  /\ UNCHANGED vars

RequestResources(c, v) == RequestRejected(c, v) \/ RequestEntered(c, v)
ReleaseResources(c, v) == ReleaseRejected(c, v) \/ Released(c, v)

Deciding == (\E c \in Customers : Finish(c)) \/ Granted \/ RolledBack

Next ==
  \/ \E c \in Numbers, v \in Vectors : RequestResources(c, v) \/ ReleaseResources(c, v)
  \/ \E c \in Numbers : Crash(c)
  \/ Deciding
  \/ Quit \/ Terminated

Spec == Init /\ [][Next]_vars

-----------------------------------------------------------------------------
(***************************************************************************)
(* Correctness.  What the program never rejects, numbers below zero, can   *)
(* put anything into the books; the properties are about the books as long *)
(* as no such command was carried out.                                     *)
(***************************************************************************)
IntVectors == [Resources -> Int]

\* The type of every variable, whatever is entered.
TypeOK ==
  /\ argv \in Vectors /\ maximum \in [Customers -> IntVectors]
  /\ available \in IntVectors
  /\ allocation \in [Rows -> IntVectors] /\ need \in [Rows -> IntVectors]
  /\ pc \in {"prompt", "safe", "quit", "crashed"}
  /\ customer_num \in Numbers \cup {0} /\ request \in Vectors \cup {Zero}
  /\ work \in IntVectors /\ finish \in SUBSET Customers
  /\ err \in {-3, -2, -1, 0, 1, NoCommand}
  /\ misuses \in 0 .. MaxMisuses

\* need is what is left of maximum; the row behind the arrays stays as it is.
NeedIsRemaining ==
  /\ \A c \in Customers : Plus(allocation[c], need[c]) = maximum[c]
  /\ allocation[NUMBER_OF_CUSTOMERS] = Zero /\ need[NUMBER_OF_CUSTOMERS] = Zero

\* No customer holds less than nothing, and while one holds something there is
\* no overdraft, of what is available or of what it may still ask for.
NothingOverdrawn ==
  \A c \in Customers :
    /\ vleq(Zero, allocation[c])
    /\ allocation[c] # Zero => vleq(Zero, available) /\ vleq(Zero, need[c])

(***************************************************************************)
(* The books balance for every customer and nothing is overdrawn, although *)
(* a request is entered before safe() looks at it and may be taken back,   *)
(* although one for NUMBER_OF_CUSTOMERS passes the check of the number, and*)
(* whatever amounts below zero there were at the start (banker.c:27-53,    *)
(* 140-162, 171-178).                                                      *)
(***************************************************************************)
BooksBalance == misuses = 0 => NeedIsRemaining /\ NothingOverdrawn

\* The books as they were before the request that safe() is looking at.
AvailableBefore == IF pc = "safe" THEN Plus(available, request) ELSE available
AllocationBefore ==
  [c \in Customers |-> IF pc = "safe" /\ c = customer_num THEN Minus(allocation[c], request)
                       ELSE allocation[c]]

Ledger == INSTANCE ResourceLedger WITH
  available  <- AvailableBefore,
  allocation <- AllocationBefore

(***************************************************************************)
(* safe() decides safety: when its search is over, every customer has      *)
(* finished just if, whichever customers still wait, one of them could be  *)
(* satisfied (banker.c:182-205).                                           *)
(***************************************************************************)
SearchIsExact ==
  misuses = 0 /\ pc = "safe" /\ CanFinish = {}
    => (finish = Customers <=> Ledger!Safe(available, allocation))

(***************************************************************************)
(* The customers never wait for one another: when some of them hold        *)
(* something, one can be given all that it still needs (banker.c:139-180). *)
(***************************************************************************)
SomeoneCanFinish ==
  misuses = 0 /\ pc = "prompt" =>
    \/ \A c \in Customers : allocation[c] = Zero
    \/ \E c \in Customers : vleq(need[c], available)

(***************************************************************************)
(* Entering a request and taking it back make one step, or none: the       *)
(* banker implements the ledger, whose grants are safe by definition, up   *)
(* to the first command with a number below zero that is carried out       *)
(* (banker.c:139-165).                                                     *)
(***************************************************************************)
ImplementsLedger ==
  Ledger!Init /\ [][misuses' = 0 => [Ledger!Next]_(Ledger!ledgerVars)]_vars

=============================================================================
