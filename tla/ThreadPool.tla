------------------------------ MODULE ThreadPool ------------------------------
(***************************************************************************)
(* Project5/threadPool: the pool of threadpool.c, whose workers ("bees")   *)
(* take tasks from a ring under one mutex and two semaphores, and the      *)
(* client of client.c, the one thread that submits: it starts the pool,    *)
(* submits WorkNumber tasks, shuts the pool down and returns.              *)
(*                                                                         *)
(* Steps and cancellation are as in ProducerConsumer, except that the only *)
(* cancellation points of a worker are sem_wait and the printf of the task *)
(* it executes.                                                            *)
(***************************************************************************)
EXTENDS Integers, Sequences, FiniteSets

CONSTANTS
  QUEUE_SIZE,           \* capacity of workQueue
  NUMBER_OF_THREADS,    \* workers
  WorkNumber            \* tasks the client submits

ASSUME PoolAssumption ==
  /\ QUEUE_SIZE \in Nat \ {0}
  /\ NUMBER_OF_THREADS \in Nat \ {0}
  /\ WorkNumber \in Nat

Workers == 0 .. NUMBER_OF_THREADS - 1
Tasks   == 1 .. WorkNumber      \* task k is <<add, &work[k - 1]>>
NoTask  == 0                    \* a static array starts out as zeros

Main   == -1                    \* the client's thread
Nobody == -2                    \* the holder of a free mutex

VARIABLES
  workQueue, queueFront, queueRear,  \* the ring of tasks
  mutex,                             \* the thread that holds it, or Nobody
  full, empty,                       \* the values of the semaphores
  live,                              \* they exist, and so does work[]
  pc, worktodo,                      \* per worker: where it is, and its task
  cancelled,                         \* the workers pthread_cancel has marked
  mainPc, i,                         \* the client: where it is, and its index
  runs                               \* how often each task was executed

queueVars  == <<workQueue, queueFront, queueRear>>
sync       == <<mutex, full, empty>>
workerVars == <<pc, worktodo, runs>>
mainVars   == <<live, cancelled, mainPc, i>>
vars == <<queueVars, sync, workerVars, mainVars>>

Ring == INSTANCE RingQueue WITH Size <- QUEUE_SIZE

Init ==
  /\ workQueue = [s \in Ring!Slots |-> NoTask]
  /\ queueFront = 0 /\ queueRear = 0
  /\ mutex = Nobody /\ full = 0 /\ empty = 0
  /\ live = FALSE
  /\ pc = [w \in Workers |-> "none"]
  /\ worktodo = [w \in Workers |-> NoTask]
  /\ cancelled = {}
  /\ mainPc = "init" /\ i = 0
  /\ runs = [k \in Tasks |-> 0]

Goto(w, from, to) ==
  /\ pc[w] = from
  /\ pc' = [pc EXCEPT ![w] = to]

MainGoto(from, to) ==
  /\ mainPc = from
  /\ mainPc' = to

-----------------------------------------------------------------------------
(***************************************************************************)
(* Faulty variants of actions below, one plausible bug each: put in the    *)
(* place of the action, each makes the property it is meant for fail.      *)
(***************************************************************************)
\* The semaphore starts with a token for every slot of the array.
FaultyPoolInit ==
  /\ MainGoto("init", "create")
  /\ live' = TRUE
  /\ full' = 0
  /\ empty' = QUEUE_SIZE + 1
  /\ UNCHANGED <<queueVars, mutex, workerVars, cancelled, i>>

\* dequeue does not take the mutex.
FaultyLockDequeue(w) ==
  /\ Goto(w, "lock", "critical")
  /\ mutex' = w
  /\ UNCHANGED <<queueVars, full, empty, mainVars, worktodo, runs>>

\* dequeue takes the newest task.
FaultyLoadTask(w) ==
  /\ Goto(w, "load", "post")
  /\ worktodo' = [worktodo EXCEPT ![w] = workQueue[queueRear]]
  /\ mutex' = Nobody
  /\ UNCHANGED <<queueVars, full, empty, mainVars, runs>>

\* Asynchronous cancellation: a worker may end while it holds a token.
FaultyCancellationPoints == {"wait", "lock", "post", "execute"}

\* pthread_join is forgotten.
FaultyJoinWorker ==
  /\ MainGoto("join", "cancel")
  /\ i' = i + 1
  /\ UNCHANGED <<queueVars, sync, workerVars, live, cancelled>>

\* The loop over the workers does not move on.
StuckJoinWorker ==
  /\ MainGoto("join", "cancel")
  /\ pc[i] = "exited"
  /\ UNCHANGED <<queueVars, sync, workerVars, live, cancelled, i>>

-----------------------------------------------------------------------------
(***************************************************************************)
(* The worker: sem_wait(&full), dequeue(), sem_post(&empty), execute().    *)
(* dequeue relies on the semaphore: it does not look whether there is a    *)
(* task.                                                                   *)
(***************************************************************************)
WaitFull(w) ==
  /\ full > 0
  /\ Goto(w, "wait", "lock")
  /\ full' = full - 1
  /\ UNCHANGED <<queueVars, mutex, empty, mainVars, worktodo, runs>>

LockDequeue(w) ==
  /\ mutex = Nobody
  /\ Goto(w, "lock", "critical")
  /\ mutex' = w
  /\ UNCHANGED <<queueVars, full, empty, mainVars, worktodo, runs>>

AdvanceFront(w) ==
  /\ Goto(w, "critical", "load")
  /\ queueFront' = Ring!Succ(queueFront)
  /\ UNCHANGED <<workQueue, queueRear, sync, mainVars, worktodo, runs>>

LoadTask(w) ==
  /\ Goto(w, "load", "post")
  /\ worktodo' = [worktodo EXCEPT ![w] = workQueue[queueFront]]
  /\ mutex' = Nobody
  /\ UNCHANGED <<queueVars, full, empty, mainVars, runs>>

PostEmpty(w) ==
  /\ Goto(w, "post", "execute")
  /\ empty' = empty + 1
  /\ UNCHANGED <<queueVars, mutex, full, mainVars, worktodo, runs>>

\* execute(): the task runs, here until its printf has written its line.
Execute(w) ==
  /\ Goto(w, "execute", "wait")
  /\ runs' = [k \in Tasks |-> IF k = worktodo[w] THEN runs[k] + 1 ELSE runs[k]]
  /\ UNCHANGED <<queueVars, sync, mainVars, worktodo>>

CancellationPoints == {"wait", "execute"}

EndCancelled(w) ==
  /\ w \in cancelled
  /\ \E p \in CancellationPoints : Goto(w, p, "exited")
  /\ UNCHANGED <<queueVars, sync, mainVars, worktodo, runs>>

WorkerStep(w) ==
  \/ WaitFull(w) \/ LockDequeue(w) \/ AdvanceFront(w) \/ LoadTask(w)
  \/ PostEmpty(w) \/ Execute(w) \/ EndCancelled(w)

-----------------------------------------------------------------------------
\* pool_init: the mutex and the semaphores, then the workers.
PoolInit ==
  /\ MainGoto("init", "create")
  /\ live' = TRUE
  /\ full' = 0
  /\ empty' = QUEUE_SIZE
  /\ UNCHANGED <<queueVars, mutex, workerVars, cancelled, i>>

CreateWorker ==
  /\ i < NUMBER_OF_THREADS
  /\ MainGoto("create", "create")
  /\ pc' = [pc EXCEPT ![i] = "wait"]
  /\ i' = i + 1
  /\ UNCHANGED <<queueVars, sync, worktodo, runs, live, cancelled>>

AllCreated ==
  /\ i = NUMBER_OF_THREADS
  /\ MainGoto("create", "fill")
  /\ i' = 0
  /\ UNCHANGED <<queueVars, sync, workerVars, live, cancelled>>

\* The client fills in work[i] and calls pool_submit.
FillWork ==
  /\ i < WorkNumber
  /\ MainGoto("fill", "wait")
  /\ UNCHANGED <<queueVars, sync, workerVars, live, cancelled, i>>

\* pool_submit: sem_wait(&empty), enqueue(), sem_post(&full).
WaitEmpty ==
  /\ empty > 0
  /\ MainGoto("wait", "lock")
  /\ empty' = empty - 1
  /\ UNCHANGED <<queueVars, mutex, full, workerVars, live, cancelled, i>>

LockEnqueue ==
  /\ mutex = Nobody
  /\ MainGoto("lock", "critical")
  /\ mutex' = Main
  /\ UNCHANGED <<queueVars, full, empty, workerVars, live, cancelled, i>>

\* The client does not look at what pool_submit returns.
AdvanceRear ==
  /\ IF Ring!IsFull(queueFront, queueRear)
       THEN MainGoto("critical", "fill") /\ mutex' = Nobody /\ i' = i + 1
            /\ UNCHANGED queueRear
       ELSE MainGoto("critical", "store") /\ queueRear' = Ring!Succ(queueRear)
            /\ UNCHANGED <<mutex, i>>
  /\ UNCHANGED <<workQueue, queueFront, full, empty, workerVars, live, cancelled>>

StoreTask ==
  /\ MainGoto("store", "post")
  /\ workQueue' = [workQueue EXCEPT ![queueRear] = i + 1]
  /\ mutex' = Nobody
  /\ UNCHANGED <<queueFront, queueRear, full, empty, workerVars, live, cancelled, i>>

PostFull ==
  /\ MainGoto("post", "fill")
  /\ full' = full + 1
  /\ i' = i + 1
  /\ UNCHANGED <<queueVars, mutex, empty, workerVars, live, cancelled>>

\* pool_shutdown: each worker is cancelled and joined, whatever is queued.
AllSubmitted ==
  /\ i = WorkNumber
  /\ MainGoto("fill", "cancel")
  /\ i' = 0
  /\ UNCHANGED <<queueVars, sync, workerVars, live, cancelled>>

CancelWorker ==
  /\ i < NUMBER_OF_THREADS
  /\ MainGoto("cancel", "join")
  /\ cancelled' = cancelled \cup {i}
  /\ UNCHANGED <<queueVars, sync, workerVars, live, i>>

JoinWorker ==
  /\ MainGoto("join", "cancel")
  /\ pc[i] = "exited"
  /\ i' = i + 1
  /\ UNCHANGED <<queueVars, sync, workerVars, live, cancelled>>

\* The semaphores and the mutex are destroyed, and main returns.
DestroyPool ==
  /\ i = NUMBER_OF_THREADS
  /\ MainGoto("cancel", "done")
  /\ live' = FALSE
  /\ UNCHANGED <<queueVars, sync, workerVars, cancelled, i>>

Submit ==
  FillWork \/ WaitEmpty \/ LockEnqueue \/ AdvanceRear \/ StoreTask \/ PostFull

MainStep ==
  \/ PoolInit \/ CreateWorker \/ AllCreated \/ Submit \/ AllSubmitted
  \/ CancelWorker \/ JoinWorker \/ DestroyPool

\* main has returned: the process is gone.
Terminated ==
  /\ mainPc = "done"
  /\ UNCHANGED vars

Next ==
  \/ MainStep
  \/ \E w \in Workers : WorkerStep(w)
  \/ Terminated

Spec == Init /\ [][Next]_vars

(***************************************************************************)
(* Fairness: a thread that can go on does so.  Weak fairness is enough:    *)
(* there are only so many tasks, so the mutex cannot change hands for ever *)
(* while one thread waits for it.                                          *)
(***************************************************************************)
Fairness == WF_vars(MainStep) /\ \A w \in Workers : WF_vars(WorkerStep(w))

FairSpec == Spec /\ Fairness
-----------------------------------------------------------------------------
(***************************************************************************)
(* Correctness.                                                            *)
(***************************************************************************)
WorkerStates ==
  {"none", "wait", "lock", "critical", "load", "post", "execute", "exited"}

MainStates ==
  {"init", "create", "fill", "wait", "lock", "critical", "store", "post",
   "cancel", "join", "done"}

\* The type of every variable.
TypeOK ==
  /\ workQueue \in [Ring!Slots -> Tasks \cup {NoTask}]
  /\ queueFront \in Ring!Slots /\ queueRear \in Ring!Slots
  /\ mutex \in Workers \cup {Main, Nobody}
  /\ full \in Nat /\ empty \in Nat
  /\ live \in BOOLEAN
  /\ pc \in [Workers -> WorkerStates]
  /\ worktodo \in [Workers -> Tasks \cup {NoTask}]
  /\ cancelled \in SUBSET Workers
  /\ mainPc \in MainStates
  /\ i \in 0 .. NUMBER_OF_THREADS \/ i \in 0 .. WorkNumber
  /\ runs \in [Tasks -> Nat]

\* Who has taken a token and not yet posted the other semaphore.
Holding == {w \in Workers : pc[w] \in {"lock", "critical", "load", "post"}}
MainHolds == IF mainPc \in {"lock", "critical", "store", "post"} THEN 1 ELSE 0

\* Tasks in the ring that full does not count (yet, or any more).
Inserted == IF mainPc \in {"store", "post"} THEN 1 ELSE 0
Removing == {w \in Workers : pc[w] \in {"lock", "critical"}}

(***************************************************************************)
(* "number of works in the queue", "number of empty spaeces in the queue"  *)
(* (threadpool.c:30-31): up to the threads that are just changing them,    *)
(* that is what the semaphores are, and no token is lost, whoever is       *)
(* cancelled.                                                              *)
(***************************************************************************)
SemaphoresCountQueue ==
  /\ mainPc # "init" => empty + full + Cardinality(Holding) + MainHolds = QUEUE_SIZE
  /\ Ring!Occupancy(queueFront, queueRear) = full + Inserted + Cardinality(Removing)

(***************************************************************************)
(* dequeue, which does not look, finds a task, and enqueue finds room: the *)
(* client, which ignores the error, never skips one (threadpool.c:45-48,   *)
(* 59-60, 96-97).                                                          *)
(***************************************************************************)
SemaphoresGuardQueue ==
  /\ \A w \in Workers :
       pc[w] = "critical" => ~ Ring!IsEmpty(queueFront, queueRear)
  /\ mainPc = "critical" => ~ Ring!IsFull(queueFront, queueRear)

\* The queue between its logical indices: one behind while a thread is inside.
LogicalFront ==
  IF \E w \in Workers : pc[w] = "load"
    THEN (queueFront + QUEUE_SIZE) % (QUEUE_SIZE + 1)
    ELSE queueFront
LogicalRear ==
  IF mainPc = "store" THEN (queueRear + QUEUE_SIZE) % (QUEUE_SIZE + 1)
                      ELSE queueRear

InQueue == Ring!Contents(workQueue, LogicalFront, LogicalRear)

InHand(w) == pc[w] \in {"post", "execute"}

\* How many tasks the client has put into the queue so far.
Stored ==
  CASE mainPc \in {"init", "create"} -> 0
    [] mainPc \in {"fill", "wait", "lock", "critical", "store"} -> i
    [] mainPc = "post" -> i + 1
    [] OTHER -> WorkNumber

\* In how many places a task is: the queue, the hands of workers, the past.
Places(k) ==
  Cardinality({j \in DOMAIN InQueue : InQueue[j] = k})
    + Cardinality({w \in Workers : InHand(w) /\ worktodo[w] = k}) + runs[k]

(***************************************************************************)
(* A task that was submitted is in one place: it waits in the queue, or one*)
(* worker has it, or it was executed, once.  Only a worker that ends on    *)
(* cancellation before its task has run drops it (threadpool.c:66-76,      *)
(* 118-123).                                                               *)
(***************************************************************************)
EachTaskInOnePlace ==
  \A k \in Tasks :
    IF k > Stored THEN Places(k) = 0
    ELSE \/ Places(k) = 1
         \/ Places(k) = 0 /\ \E w \in Workers : pc[w] = "exited" /\ worktodo[w] = k

(***************************************************************************)
(* No worker is left to use the semaphores, the mutex, or the array work   *)
(* of main's frame, once they are gone (threadpool.c:124-126, client.c:27).*)
(***************************************************************************)
NoUseAfterDestroy == ~ live => \A w \in Workers : pc[w] \in {"none", "exited"}

(***************************************************************************)
(* The pool is a bounded first-in first-out channel from the client to the *)
(* workers: tasks are taken in the order they were submitted               *)
(* (threadpool.c:42-63).                                                   *)
(***************************************************************************)
InHands ==
  [t \in {Main} \cup Workers |->
     IF t = Main THEN IF mainPc \in {"wait", "lock", "critical", "store"}
                        THEN i + 1 ELSE NoTask
     ELSE IF InHand(t) THEN worktodo[t] ELSE NoTask]

Channel == INSTANCE BoundedBuffer WITH
  Capacity  <- QUEUE_SIZE,
  Items     <- Tasks,
  Blank     <- NoTask,
  Senders   <- {Main},
  Receivers <- Workers,
  queue     <- InQueue,
  hand      <- InHands

ImplementsChannel == Channel!Spec

(***************************************************************************)
(* The client gets all its tasks submitted, however few slots there are,   *)
(* and the shutdown ends (threadpool.c:89-101, 118-127).                   *)
(***************************************************************************)
PoolShutsDown == <>(mainPc = "done")

-----------------------------------------------------------------------------
(***************************************************************************)
(* What keeps the properties above true from step to step.                 *)
(***************************************************************************)
\* The mutex names the one thread that is inside.
MutexInv ==
  /\ \A w \in Workers : pc[w] \in {"critical", "load"} <=> mutex = w
  /\ mainPc \in {"critical", "store"} <=> mutex = Main

\* How far the client is tells which workers there are.
LifeInv ==
  /\ live <=> mainPc \notin {"init", "done"}
  /\ mainPc = "init" => /\ i = 0 /\ full = 0 /\ empty = 0
                        /\ \A w \in Workers : pc[w] = "none"
  /\ mainPc = "create" => \A w \in Workers : pc[w] = "none" <=> w >= i
  /\ mainPc \notin {"init", "create"} => \A w \in Workers : pc[w] # "none"
  /\ mainPc \in {"create", "cancel", "join"} => i \in 0 .. NUMBER_OF_THREADS
  /\ mainPc = "fill" => i \in 0 .. WorkNumber
  /\ mainPc \in {"wait", "lock", "critical", "store", "post"} => i \in 0 .. WorkNumber - 1
  /\ mainPc \in {"cancel", "join"} => \A w \in Workers : w < i => pc[w] = "exited"
  /\ mainPc = "join" => i < NUMBER_OF_THREADS
  /\ mainPc = "done" => \A w \in Workers : pc[w] = "exited"

(***************************************************************************)
(* The inductive invariant: tokens, ring, lock and client agree.           *)
(***************************************************************************)
IInv == TypeOK /\ MutexInv /\ LifeInv /\ SemaphoresCountQueue

=============================================================================
