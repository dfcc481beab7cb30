--------------------------- MODULE ProducerConsumer ---------------------------
(***************************************************************************)
(* Project5/producerConsumer: producer and consumer threads that share the *)
(* circular buffer of buffer.c under one mutex and two counting semaphores,*)
(* and the main thread of main.c that creates them, sleeps, cancels and    *)
(* joins them one after the other, and destroys what they shared.          *)
(*                                                                         *)
(* A step of a thread is what it does between two points where another     *)
(* thread can be seen: taking a semaphore or the mutex, each access to the *)
(* shared buffer, releasing the mutex together with the last access under  *)
(* it, posting a semaphore.  Cancellation is deferred (the default type):  *)
(* a thread that pthread_cancel has marked ends only at a cancellation     *)
(* point, which are sleep, sem_wait and the output of a report.            *)
(***************************************************************************)
EXTENDS Integers, Sequences, FiniteSets

CONSTANTS
  BUFFER_SIZE,    \* capacity of the buffer
  ProducerNum,    \* argv[2]
  ConsumerNum,    \* argv[3]
  Items           \* what rand() returns as an item

Blank == 0        \* a static array starts out as zeros

ASSUME ConstantsAssumption ==
  /\ BUFFER_SIZE \in Nat \ {0}
  /\ ProducerNum \in Nat
  /\ ConsumerNum \in Nat
  /\ Blank \notin Items

(***************************************************************************)
(* Threads are numbered in the order main creates, cancels and joins them: *)
(* the producers first.                                                    *)
(***************************************************************************)
ThreadNum == ProducerNum + ConsumerNum
Threads   == 0 .. ThreadNum - 1
Producers == 0 .. ProducerNum - 1
Consumers == ProducerNum .. ThreadNum - 1

Nobody == -1      \* the holder of a free mutex

VARIABLES
  buffer, front, rear,  \* the circular buffer
  mutex,                \* the thread that holds it, or Nobody
  full, empty,          \* the values of the semaphores
  live,                 \* mutex, semaphores and argument arrays exist
  pc, item,             \* per thread: where it is, and its variable item
  cancelled,            \* the threads pthread_cancel has marked
  mainPc, i             \* main: where it is, and its loop index

shared  == <<buffer, front, rear>>
sync    == <<mutex, full, empty>>
mainVars == <<live, cancelled, mainPc, i>>
vars == <<shared, sync, mainVars, pc, item>>

Ring == INSTANCE RingQueue WITH Size <- BUFFER_SIZE

-----------------------------------------------------------------------------
Init ==
  /\ buffer = [s \in Ring!Slots |-> Blank]
  /\ front = 0 /\ rear = 0
  /\ mutex = Nobody /\ full = 0 /\ empty = 0
  /\ live = FALSE
  /\ pc = [t \in Threads |-> "none"]
  /\ item = [t \in Threads |-> Blank]
  /\ cancelled = {}
  /\ mainPc = "init" /\ i = 0

Goto(t, from, to) ==
  /\ pc[t] = from
  /\ pc' = [pc EXCEPT ![t] = to]

MainGoto(from, to) ==
  /\ mainPc = from
  /\ mainPc' = to

-----------------------------------------------------------------------------
(***************************************************************************)
(* Faulty variants of actions below, one plausible bug each: put in the    *)
(* place of the action, each makes the property it is meant for fail.      *)
(***************************************************************************)
\* The semaphore starts with a token for every slot of the array.
FaultyInitBuffer ==
  /\ MainGoto("init", "create")
  /\ live' = TRUE
  /\ full' = 0
  /\ empty' = BUFFER_SIZE + 1
  /\ UNCHANGED <<shared, mutex, pc, item, cancelled, i>>

\* The item goes into the slot that rear has just left.
LateStoreItem(t) ==
  /\ Goto(t, "store", "post")
  /\ mutex' = Nobody
  /\ buffer' = [buffer EXCEPT ![(rear + BUFFER_SIZE) % (BUFFER_SIZE + 1)] = item[t]]
  /\ UNCHANGED <<front, rear, full, empty, mainVars, item>>

\* sem_post(&full) is forgotten.
FaultyPostFull(t) ==
  /\ Goto(t, "post", "report")
  /\ UNCHANGED <<shared, sync, mainVars, item>>

\* Asynchronous cancellation: a thread may end while it holds a token.
FaultyCancellationPoints == {"sleep", "wait", "lock", "post", "report", "error"}

\* pthread_cancel is given the id of the next thread.
FaultyCancelThread ==
  /\ i < ThreadNum
  /\ MainGoto("cancel", "join")
  /\ cancelled' = cancelled \cup {(i + 1) % ThreadNum}
  /\ UNCHANGED <<shared, sync, pc, item, live, i>>

\* pthread_join is forgotten.
FaultyJoinThread ==
  /\ MainGoto("join", "cancel")
  /\ i' = i + 1
  /\ UNCHANGED <<shared, sync, pc, item, live, cancelled>>

-----------------------------------------------------------------------------
(***************************************************************************)
(* sleep(): a thread marked for cancellation does not come back from it. A *)
(* producer then draws its next item.                                      *)
(***************************************************************************)
ProducerWakes(t) ==
  /\ t \notin cancelled
  /\ Goto(t, "sleep", "wait")
  /\ \E x \in Items : item' = [item EXCEPT ![t] = x]
  /\ UNCHANGED <<shared, sync, mainVars>>

ConsumerWakes(t) ==
  /\ t \notin cancelled
  /\ Goto(t, "sleep", "wait")
  /\ UNCHANGED <<shared, sync, mainVars, item>>

\* sem_wait(&empty); a marked thread that finds a token may still take it.
WaitEmpty(t) ==
  /\ empty > 0
  /\ Goto(t, "wait", "lock")
  /\ empty' = empty - 1
  /\ UNCHANGED <<shared, mutex, full, mainVars, item>>

\* sem_wait(&full).
WaitFull(t) ==
  /\ full > 0
  /\ Goto(t, "wait", "lock")
  /\ full' = full - 1
  /\ UNCHANGED <<shared, mutex, empty, mainVars, item>>

\* pthread_mutex_lock(&mutex), which is not a cancellation point.
Lock(t) ==
  /\ mutex = Nobody
  /\ Goto(t, "lock", "critical")
  /\ mutex' = t
  /\ UNCHANGED <<shared, full, empty, mainVars, item>>

-----------------------------------------------------------------------------
(***************************************************************************)
(* insert_item, inside the mutex: the check for a full buffer, then the    *)
(* new rear, then the store.                                               *)
(***************************************************************************)
AdvanceRear(t) ==
  /\ IF Ring!IsFull(front, rear)
       THEN Goto(t, "critical", "error") /\ mutex' = Nobody /\ UNCHANGED rear
       ELSE Goto(t, "critical", "store") /\ rear' = Ring!Succ(rear) /\ UNCHANGED mutex
  /\ UNCHANGED <<buffer, front, full, empty, mainVars, item>>

StoreItem(t) ==
  /\ Goto(t, "store", "post")
  /\ buffer' = [buffer EXCEPT ![rear] = item[t]]
  /\ mutex' = Nobody
  /\ UNCHANGED <<front, rear, full, empty, mainVars, item>>

PostFull(t) ==
  /\ Goto(t, "post", "report")
  /\ full' = full + 1
  /\ UNCHANGED <<shared, mutex, empty, mainVars, item>>

(***************************************************************************)
(* remove_item, inside the mutex: the check for an empty buffer, then the  *)
(* new front, then the load.                                               *)
(***************************************************************************)
AdvanceFront(t) ==
  /\ IF Ring!IsEmpty(front, rear)
       THEN Goto(t, "critical", "error") /\ mutex' = Nobody /\ UNCHANGED front
       ELSE Goto(t, "critical", "load") /\ front' = Ring!Succ(front) /\ UNCHANGED mutex
  /\ UNCHANGED <<buffer, rear, full, empty, mainVars, item>>

LoadItem(t) ==
  /\ Goto(t, "load", "post")
  /\ item' = [item EXCEPT ![t] = buffer[front]]
  /\ mutex' = Nobody
  /\ UNCHANGED <<shared, full, empty, mainVars>>

PostEmpty(t) ==
  /\ Goto(t, "post", "report")
  /\ empty' = empty + 1
  /\ UNCHANGED <<shared, mutex, full, mainVars, item>>

-----------------------------------------------------------------------------
\* The thread prints what it did, or its error condition, and starts over.
Report(t) ==
  /\ \E p \in {"report", "error"} : Goto(t, p, "sleep")
  /\ UNCHANGED <<shared, sync, mainVars, item>>

CancellationPoints == {"sleep", "wait", "report", "error"}

\* A marked thread acts on the request at a cancellation point.
EndCancelled(t) ==
  /\ t \in cancelled
  /\ \E p \in CancellationPoints : Goto(t, p, "exited")
  /\ UNCHANGED <<shared, sync, mainVars, item>>

ProducerStep(t) ==
  \/ ProducerWakes(t) \/ WaitEmpty(t) \/ Lock(t)
  \/ AdvanceRear(t) \/ StoreItem(t) \/ PostFull(t)
  \/ Report(t) \/ EndCancelled(t)

ConsumerStep(t) ==
  \/ ConsumerWakes(t) \/ WaitFull(t) \/ Lock(t)
  \/ AdvanceFront(t) \/ LoadItem(t) \/ PostEmpty(t)
  \/ Report(t) \/ EndCancelled(t)

-----------------------------------------------------------------------------
\* init_buffer, and the allocation of the arrays of thread ids.
InitBuffer ==
  /\ MainGoto("init", "create")
  /\ live' = TRUE
  /\ full' = 0
  /\ empty' = BUFFER_SIZE
  /\ UNCHANGED <<shared, mutex, pc, item, cancelled, i>>

CreateThread ==
  /\ i < ThreadNum
  /\ MainGoto("create", "create")
  /\ pc' = [pc EXCEPT ![i] = "sleep"]
  /\ i' = i + 1
  /\ UNCHANGED <<shared, sync, item, live, cancelled>>

AllCreated ==
  /\ i = ThreadNum
  /\ MainGoto("create", "sleep")
  /\ UNCHANGED <<shared, sync, pc, item, live, cancelled, i>>

MainWakes ==
  /\ MainGoto("sleep", "cancel")
  /\ i' = 0
  /\ UNCHANGED <<shared, sync, pc, item, live, cancelled>>

CancelThread ==
  /\ i < ThreadNum
  /\ MainGoto("cancel", "join")
  /\ cancelled' = cancelled \cup {i}
  /\ UNCHANGED <<shared, sync, pc, item, live, i>>

JoinThread ==
  /\ MainGoto("join", "cancel")
  /\ pc[i] = "exited"
  /\ i' = i + 1
  /\ UNCHANGED <<shared, sync, pc, item, live, cancelled>>

\* The arrays are freed and destroy_buffer is called.
DestroyBuffer ==
  /\ i = ThreadNum
  /\ MainGoto("cancel", "done")
  /\ live' = FALSE
  /\ UNCHANGED <<shared, sync, pc, item, cancelled, i>>

\* What main does without sleeping.
MainRuns ==
  \/ InitBuffer \/ CreateThread \/ AllCreated
  \/ CancelThread \/ JoinThread \/ DestroyBuffer

\* main has returned: the process is gone.
Terminated ==
  /\ mainPc = "done"
  /\ UNCHANGED vars

Next ==
  \/ MainRuns \/ MainWakes
  \/ \E t \in Producers : ProducerStep(t)
  \/ \E t \in Consumers : ConsumerStep(t)
  \/ Terminated

Spec == Init /\ [][Next]_vars

(***************************************************************************)
(* Fairness: a thread that can go on does so.  The mutex is taken strongly *)
(* fairly: every thread sleeps a second or more between two uses of it, so *)
(* one that waits for it finds it free over and over and is woken.  Nothing*)
(* is assumed of the semaphores beyond weak fairness: a waiter may lose    *)
(* every race for a token.  main's own sleep may last as long as it likes. *)
(***************************************************************************)
Fairness ==
  /\ WF_vars(MainRuns)
  /\ \A t \in Producers : WF_vars(ProducerStep(t))
  /\ \A t \in Consumers : WF_vars(ConsumerStep(t))
  /\ \A t \in Threads : SF_vars(Lock(t))

FairSpec == Spec /\ Fairness
-----------------------------------------------------------------------------
(***************************************************************************)
(* Correctness.                                                            *)
(***************************************************************************)
ThreadStates ==
  {"none", "sleep", "wait", "lock", "critical", "store", "load", "post",
   "report", "error", "exited"}

MainStates == {"init", "create", "sleep", "cancel", "join", "done"}

\* The type of every variable.
TypeOK ==
  /\ buffer \in [Ring!Slots -> Items \cup {Blank}]
  /\ front \in Ring!Slots /\ rear \in Ring!Slots
  /\ mutex \in Threads \cup {Nobody}
  /\ full \in Nat /\ empty \in Nat
  /\ live \in BOOLEAN
  /\ pc \in [Threads -> ThreadStates]
  /\ item \in [Threads -> Items \cup {Blank}]
  /\ cancelled \in SUBSET Threads
  /\ mainPc \in MainStates /\ i \in 0 .. ThreadNum

\* A thread has taken a token and not yet posted the other semaphore.
Holding == {t \in Threads : pc[t] \in {"lock", "critical", "store", "load", "post"}}

\* Items in the buffer that full does not count (yet, or any more).
Inserted == {t \in Producers : pc[t] \in {"store", "post"}}
Removing == {t \in Consumers : pc[t] \in {"lock", "critical"}}

(***************************************************************************)
(* sem_wait and sem_post balance: no path through insert_item and          *)
(* remove_item, and no cancellation of a thread on its way, loses a token  *)
(* or makes one up (buffer.c:81-122, main.c:40-48).                        *)
(***************************************************************************)
TokensConserved ==
  mainPc # "init" => empty + full + Cardinality(Holding) = BUFFER_SIZE

(***************************************************************************)
(* The semaphore full and the indices of the ring describe one queue       *)
(* (buffer.c:88-97, 110-119).                                              *)
(***************************************************************************)
RingMatchesTokens ==
  Ring!Occupancy(front, rear)
    = full + Cardinality(Inserted) + Cardinality(Removing)

(***************************************************************************)
(* A thread that got its token finds the buffer fit for what it does: the  *)
(* error branches of insert_item and remove_item, which would keep the     *)
(* token, are never taken (buffer.c:88-91, 110-113).                       *)
(***************************************************************************)
NoErrorReported == \A t \in Threads : pc[t] # "error"

(***************************************************************************)
(* No thread is left to use the mutex, the semaphores or the id arrays     *)
(* once main has freed and destroyed them (main.c:50-54).                  *)
(***************************************************************************)
NoUseAfterDestroy ==
  ~ live => \A t \in Threads : pc[t] \in {"none", "exited"}

(***************************************************************************)
(* The threads implement a bounded first-in first-out channel: an item is  *)
(* in the queue from its store until its load, whatever the index that     *)
(* moved first says, and in a thread's hand while that thread is the one   *)
(* that has it (buffer.c:81-122).                                          *)
(***************************************************************************)
LogicalFront ==
  IF \E t \in Consumers : pc[t] = "load" THEN (front + BUFFER_SIZE) % (BUFFER_SIZE + 1)
                                         ELSE front
LogicalRear ==
  IF \E t \in Producers : pc[t] = "store" THEN (rear + BUFFER_SIZE) % (BUFFER_SIZE + 1)
                                          ELSE rear

InHand(t) ==
  IF t \in Producers THEN pc[t] \in {"wait", "lock", "critical", "store"}
                     ELSE pc[t] \in {"post", "report"}

InBuffer == Ring!Contents(buffer, LogicalFront, LogicalRear)
InHands  == [t \in Threads |-> IF InHand(t) THEN item[t] ELSE Blank]

Channel == INSTANCE BoundedBuffer WITH
  Capacity  <- BUFFER_SIZE,
  Senders   <- Producers,
  Receivers <- Consumers,
  queue     <- InBuffer,
  hand      <- InHands

ImplementsChannel == Channel!Spec

(***************************************************************************)
(* main's loop of cancel and join ends: every thread reaches a             *)
(* cancellation point, and none ends holding the mutex another needs       *)
(* (main.c:40-54).                                                         *)
(***************************************************************************)
ShutdownCompletes == mainPc = "cancel" ~> mainPc = "done"

(***************************************************************************)
(* As long as main sleeps, items keep being consumed: no wake-up is lost   *)
(* between sem_post and sem_wait.                                          *)
(***************************************************************************)
ItemsKeepFlowing ==
  mainPc = "sleep" ~> (mainPc # "sleep" \/ \E t \in Consumers : pc[t] = "report")

-----------------------------------------------------------------------------
(***************************************************************************)
(* What keeps the properties above true from step to step.                 *)
(***************************************************************************)
\* The mutex names the one thread that is inside.
MutexInv ==
  \A t \in Threads : pc[t] \in {"critical", "store", "load"} <=> mutex = t

\* Only producers store and only consumers load.
RoleInv ==
  /\ \A t \in Producers : pc[t] # "load"
  /\ \A t \in Consumers : pc[t] # "store"

\* How far main is tells which threads there are.
LifeInv ==
  /\ live <=> mainPc \notin {"init", "done"}
  /\ mainPc = "init" => /\ i = 0 /\ full = 0 /\ empty = 0
                        /\ \A t \in Threads : pc[t] = "none"
  /\ mainPc = "create" => \A t \in Threads : pc[t] = "none" <=> t >= i
  /\ mainPc \notin {"init", "create"} => \A t \in Threads : pc[t] # "none"
  /\ mainPc \in {"cancel", "join"} => \A t \in Threads : t < i => pc[t] = "exited"
  /\ mainPc = "join" => i < ThreadNum
  /\ mainPc = "done" => \A t \in Threads : pc[t] = "exited"

(***************************************************************************)
(* The inductive invariant: tokens, ring, lock and main agree.             *)
(***************************************************************************)
IInv ==
  /\ TypeOK /\ MutexInv /\ RoleInv /\ LifeInv
  /\ TokensConserved /\ RingMatchesTokens /\ NoErrorReported

=============================================================================
