# Verification of the SJTU CS2310 operating system projects

TLA+ models of the eight course projects under `src/`, the TLC runs that check
them on small instances, and the theorems about them that TLAPS proves for
every value of their parameters.

## 1. Inventory

Each project is a program of its own. They share no code, so the components
interact only inside a project.

| Component | State it keeps | Operations | What is hard | What makes it correct |
|---|---|---|---|---|
| `Project1` jiffies and seconds modules | `completed`, `jiffies_init`, the jiffies counter | `proc_read`, load, unload | `completed` is shared by every reader of the file; the counter wraps | each reading yields the value once, and ends; elapsed seconds are right across the wrap |
| `Project2` pid module | `l_pid`, `completed` | `proc_write`, `proc_read` | writers, readers and processes that exit, all at once; an unknown pid | what is read was true during the call |
| `Project2` osh shell | history `buffer`, `temp`, `father`, `child`, children, the handler of SIGCHLD | read a line, take it apart, `!!`, redirect, pipe, background, wait, reap | arrays of pointers survive from command to command and their words are freed; handler and `waitpid` race for children; signals coalesce | a command runs with exactly its own words; the prompt waits for the foreground command and comes back; no zombies |
| `Project3` Pthreads sort | the array, three threads | sort halves, merge, print | the merge must follow both joins; comparison by subtraction overflows | what is printed is the input, sorted |
| `Project3` fork-join sorts | the array, the tree of tasks | partition or split, fork, join, merge | tasks work on parts of one array at once | the same; a split stays a split |
| `Project3` sudoku validator | `puzzle`, `valid`, eleven threads and their ids | check rows, columns, subgrids; join, judge, free | a thread id is overwritten, so one thread is never joined, and another id is joined unassigned | the verdict is that of the grid; no thread outlives its parameters |
| `Project4` schedulers (FCFS, SJF, priority, RR, priority RR) | task list, statistics | `add`, `pickNextTask`, `schedule` | list edited during traversal; delete by name; ties | every task runs for its burst; order is the policy's, and so are the times at which it starts and ends |
| `Project5` producer-consumer | ring buffer, mutex, two semaphores, threads | insert, remove, create, cancel, join, destroy | interleaving, cancellation, shutdown | FIFO channel, no lost token, clean shutdown |
| `Project5` thread pool | task ring, mutex, two semaphores, workers | submit, worker loop, shutdown | interleaving; shutdown with tasks queued | each task runs at most once, in order; clean shutdown |
| `Project6` banker | `available`, `maximum`, `allocation`, `need` | RQ, RL, `*` | tentative grant and rollback; checks that let numbers below zero through; safety search | every granted request leaves a safe state; books balance, and nothing is overdrawn |
| `Project7` contiguous allocator | doubly linked list of regions | RQ (first, best, worst fit), RL, STAT | pointer surgery on split and merge | regions tile the memory; no two free neighbours; a release is one step |
| `Project8` virtual memory manager | TLB, page table, frames, counters | translate, TLB lookup, page fault, eviction | three caches of one mapping must agree; eviction | each access reads the backing store's byte; FIFO eviction |

## 2. Plan

In this order, the most concurrent and the most stateful parts first. All of it
is *done*.

| Step | Modules | Runs | Theorems |
|---|---|---|---|
| 1 *done* | `RingQueue`, `BoundedBuffer` (what a bounded channel promises), `ProducerConsumer` | `pc` | invariant, tokens, dead error branches, nothing used after it is destroyed, refinement of the channel |
| 2 *done* | `ThreadPool`, which shares `RingQueue` and `BoundedBuffer` with step 1 | `tp` | invariant, semaphores count and guard the queue, nothing used after it is destroyed, each task in one place, refinement of the channel |
| 3 *done* | `ResourceLedger` (what the banker promises), `Banker` | `bk` | books balance, a plan for all at every prompt, no waiting for one another, the search is exact, refinement of the ledger |
| 4 *done* | `DemandPaging` (what virtual memory promises), `VirtualMemory` | `vm` | invariant, exclusive frames, coherent TLB, the right byte, refinement of demand paging |
| 5 *done* | `RegionMap` (what the allocator promises), `Allocator` | `al` | types, list whole, no unused neighbours, refinement of the row |
| 6 *done* | `ReadyQueue` (what every scheduler promises), `Scheduler`: the five policies over one list with deletion by name | `sc` | no freed task in a list, a bounded wait in a round robin, refinement of the queue |
| 7 *done* | `Sudoku`: the threads of the validator | `sudoku`, `sudoku_verdict` | the verdict sound, no thread but that of the rows left |
| 8 *done* | `ParallelSort`: the sort with POSIX threads and the two with fork and join | `sort` | the result sorted, what is split stays split |
| 9 *done* | `ProcFile`: the three files under `/proc` | `proc` | what is read is current, a reader alone is served |
| 10 *done* | `Shell`: arguments, history, children and `SIGCHLD` | `shell`, `shell_pipeline` | history owned, a command runs its words, the foreground waited for, no zombies |

The project keeps to a dozen runs, one for each question asked of a program:
one run of each model with all its properties, and two that find a program at
odds with its comments. Type invariants are part of the inductive invariants
that are proved, and take no place in the runs.

## 3. The modules and the code

In every module a definition has the name it has in the code where there is
one. `pc` variables (`place` in `ProcFile`, `mainPc` and `stage` of a `main`)
say where in a function a thread or the program is. In the middle of each
module, under *Faulty variants*, there are mutated forms of definitions, or
next to the definition they vary, marked *faulty*: with one of these in its
place the property it is meant for fails. They are never part of a
specification.

### Producer-consumer (`src/Project5/producerConsumer`)

* `RingQueue` holds the index arithmetic of a ring of `Size + 1` slots, which
  `buffer.c` and `threadpool.c` share: `IsFull`, `IsEmpty`, `Succ`, and what a
  ring contains.
* `ProducerConsumer` is `buffer.c` with `main.c`. A step is what a thread does
  between two points at which another thread can see it: `sem_wait`
  (`WaitEmpty`, `WaitFull`), `pthread_mutex_lock` (`Lock`), moving an index
  (`AdvanceRear`, `AdvanceFront`; the test for a full or an empty buffer and
  its error return are part of them), copying the slot and unlocking
  (`StoreItem`, `LoadItem`), `sem_post` (`PostFull`, `PostEmpty`), printing
  (`Report`), `sleep`. The code moves the index *before* it copies the slot; so
  does the model, in a step of its own. `main` initialises, creates the
  threads, sleeps, cancels and joins them one by one, and destroys
  (`InitBuffer` to `DestroyBuffer`).
* Cancellation is deferred, the default: a marked thread ends at `sem_wait`,
  in `sleep` and in `printf` only (`CancellationPoints`), and a thread in
  `pthread_mutex_lock` goes on.
* `BoundedBuffer` is what both this program and the thread pool promise: a
  first-in first-out channel of bounded capacity with items in the hands of
  senders and receivers. The mapping has one trap: while a thread is between
  moving its index and copying the slot, the logical queue still ends (or
  begins) one slot earlier (`LogicalFront`, `LogicalRear`).

### Thread pool (`src/Project5/threadPool`)

`ThreadPool` is `threadpool.c` with the client of `client.c`, the one thread
that submits. A task is a number; executing it counts it in `runs`. `dequeue`
does not test for an empty queue and the client ignores the error `pool_submit`
returns: both are in the model as they are in the code, and
`SemaphoresGuardQueue` says why this does no harm.

### Banker (`src/Project6/banker.c`)

`Banker` has one action for each outcome of RQ and RL (`RequestRejected`,
`RequestEntered`, `ReleaseRejected`, `Released`), and `safe()` runs one round
of its outer loop at a time (`Finish`, then `Granted` or `RolledBack`). The
vector loops are atomic: the program has one thread.

The program checks little of what is entered, and the model lets it all in. A
customer number is compared with `NUMBER_OF_CUSTOMERS` at its upper end only,
and by RQ with `>`: that number itself works on the row behind the arrays. In
the program as built this row is padding, zero bytes that nothing else uses
(each array has 80 bytes and the next one begins at a multiple of 32), so the
arrays have one row more in the model. A number below zero works on memory in
front of `allocation` and `need`. What this is, the build decides, and so it is
a parameter: `AllocationRow` and `NeedRow` say which row of which array
(`Places`) each number names, or `Elsewhere`, memory that is none of them. There
a comparison may come out either way (`MayCover`, `MayNotCover`), a write does
not show, and touching it may end the process (`Crash`). `Allocate` does the
three assignments to whatever they hit, row by row. `MCBanker` has the layout
of the program as shipped, where `RL -2` works on a row of `maximum` and one of
`allocation`. Amounts may be below zero too, at the start and in commands: such
a request is a release, and such a release a request, that nothing else checks.

What a command with a number below zero has done to the books nothing can be
said about. `misuses` counts the commands that are carried out from the first
such one on, and guards nothing but its own bound; the properties are about the
time before it.

`ResourceLedger` promises that a grant is one step and only ever leaves safe
books, with the classical definition of safety over *sets* of waiting
customers, which has no search in it.

### Virtual memory manager (`src/Project8/vm_manager.c`)

`VirtualMemory` translates one address at a time: `ScanAddress` (`fscanf`),
`TLBHit` or `TLBMiss`, `PageFault` (with `get_frame`, the `fread`, the page
that is put out, and the clearing of the TLB), `UpdateTLB`, `AccessMemory`.
The numbers of pages, frames, TLB entries and bytes of a page are parameters:
the program as built has as many frames as pages, so the path that puts a page
out is never taken by it; the models take it. `DemandPaging` knows no TLB,
page table or frame, only the pages in memory in the order they came in.

### Contiguous allocator (`src/Project7/allocator.c`)

`Allocator` keeps the linked list as it is: `heap` maps addresses to records
with `pre` and `next`, and `free` removes an address, so that a pointer to
freed memory would show. `Request` is atomic. `release` walks the list one
round of its loop a step (`ReleaseStep`): give back, join with the region
before, move `list`, go on. The second test of `release`, for an unused region
after the current one, asks for a null pointer that is not null and is never
true. `RegionMap` promises a row of regions in which a release is one step.

### Schedulers (`src/Project4/posix`)

The five schedulers are five programs that differ in one file; `Scheduler` is
all of them, with the variable `program` for the executable that runs. `Add` is
a line of the driver's file; a round of `schedule`'s loop is `RunTask` in
`fcfs`, `sjf` and `priority` (search, run to the end, delete by name, free) and
`RunSlice` in `rr` and `priority_rr` (advance the pointer, run a quantum, maybe
delete); `Rearrange` moves one task to the second list. `ReadyQueue` is one
queue of which the first task is served and goes to the end if it is not
through; the mapping takes the list from the pointer on, all around, and in the
other three programs the list in the order in which the searches will find its
tasks. Ties are part of the promise: searching from the head of a list that
grows at its head finds the *last* of equal tasks first, and moving them to a
second list turns this around again. `priority_rr` goes around among all tasks,
not only among those of equal priority.

### Files under `/proc` (`src/Project1`, `src/Project2/pid`)

The three kernel modules have one `proc_read` in three variants; `ProcFile` is
all of them, with the variable `module` for the one that is loaded. Every
access to something shared is a step: the test of `completed` (`Test`), its
reset with the return of 0 (`Reset`), setting it (`Mark`), looking up the task
(`Lookup`), reading the counter or `l_pid` into the text (`Format`), copying
(`Copy`). The order differs: `pid` looks up the task before it sets
`completed`, and an invalid pid ends the reading with `completed` set
(`Fails`). A user process opens the file, calls `proc_read` until it returns 0,
or closes it early once it has a value (`Open`, `Abandon`). `WritePid` is a
number that `kstrtol` accepts; a text that it does not accept changes nothing.
Processes come and go (`StartOrExit`), and a task that was looked up and exits
leaves its pointer behind: what is printed of it then is not known (`Exited`).
The variables marked *observed* record what a user sees and guard nothing.

### Shell (`src/Project2/osh/osh.c`)

`Shell` has an action for each part of the loop of `main`: `ReadLine`,
`ParseLine`, `ForkChild` or `ForkFails`, `WaitForChild` or `InstallHandler`,
`SaveHistory`. The handler of SIGCHLD (`HandlerStarts`, `HandlerReaps`,
`HandlerLeaves`) interrupts `main` anywhere, and runs its loop a child at a
time while more children end. A word is a pointer, so that the arrays share
words and a freed word shows: `Executed` reads the words up to the first null
pointer as `execvp` does. The copies that `fork` makes of the arrays are read
when it makes them. Not knowing which child has an end signalled, `ChildEnds`
leaves a *zombie* if there is a handler, and a child *unnoticed* if there is
none yet; `ZombiesCollected` speaks of the former.

### Sorts (`src/Project3/Pthreads/sort`, `src/Project3/fork-join`)

`ParallelSort` has three programs. Tasks and threads are named by the range
they work on. Quicksort's tasks share one array: where a task begins
(`BeginScan`), each round of the loop in which it exchanges two elements
(`Scan`, in terms of the positions at which the two inner loops stop), and the
placing of the last element with the forks that follow (`ForkSides`) are steps
of their own, so that tasks meet between any two rounds. `qsort` and the merges
are one step each: their threads have a part of the array, or an array, that
nobody else uses at the time, and that they do is a part of the invariants
(`SortOrder`, `MergeTask`). `Merged` takes the elements in as many rounds as
there are elements, where `Cursor` says how many of them came from the first
sequence. `qsort` is the C library's: any arrangement that `cmp` calls ordered,
and any at all where `cmp`, which subtracts and wraps around, orders none. (Where
`cmp` is no order and yet calls some arrangement ordered, the C library may
return another one; nothing is claimed of such inputs but that the result is an
arrangement.) The
`else` branch after Quicksort's loops, which moves `left` on, is never taken:
where they meet the element is never smaller than the last one (`Scanning`).

### Sudoku validator (`src/Project3/Pthreads/sudoku/sudoku.c`)

`Sudoku` takes the eleven threads a row, a column or a subgrid at a time. The
variable `tidRow` holds the id of whichever thread was stored there last; the
thread for the rows is thus never joined, and `tidColumn`, which nothing ever
assigned, is joined with one of two outcomes: `pthread_join` fails, or the
program crashes. Between the verdict and the end of the process the thread for
the rows may read parameters that were freed: the row to begin with
(`BeginRows`), if it has not run before, and for each row the column to begin
with (`CheckRow`). Both are then any of `Garbage`, so it may skip rows and
parts of rows, or look at memory outside of the grid, where it reports what it
likes or ends the process (`LooksOutside`).

## 4. The runs

| Run | Instance | What it shows |
|---|---|---|
| `pc` | 2 producers with distinct items, 1 consumer, buffer 2, all interleavings and cancellations | `TokensConserved`, `NoErrorReported` (the error branches are dead), `NoUseAfterDestroy`, `ImplementsChannel`; `ItemsKeepFlowing` while main sleeps; `ShutdownCompletes` |
| `tp` | 5 tasks, queue 3, 3 workers | `SemaphoresCountQueue`, `SemaphoresGuardQueue`, `EachTaskInOnePlace`, `NoUseAfterDestroy`, `ImplementsChannel`, `PoolShutsDown` |
| `bk` | 3 customers, 2 kinds of resource, five vectors of amounts, one with an amount below zero, every start; customer numbers from below zero to one too many | `BooksBalance`, `SearchIsExact`, `SomeoneCanFinish`, `ImplementsLedger` |
| `vm` | 4 pages, 3 frames, TLB 2, 9 accesses | `FramesExclusive`, `TLBCoherent`, `ReadsBackingStore`, `ImplementsPaging` |
| `al` | 3 and a half pages of memory, at most 4 regions, 2 processes, sizes below zero, zero, odd and whole | `ListWhole`, `UnusedApart`, `ImplementsRegionMap`, `ReleaseEnds` |
| `sc` | five programs, all files of up to 3 tasks and 256 of 4, two priorities, bursts below, at and above the quantum, distinct names | `SelectedTaskDeleted`, `WaitBounded`, `ImplementsReadyQueue`, `EveryTaskFinishes` |
| `proc` | three files, 2 readers, 2 pids, a counter of 3 bits that wraps or has just wrapped | `ValuesCurrent`, `LoneReaderServed`, `LoneReaderEnds` |
| `shell` | 3 lines of 7, with `!!`, `&`, `<`, `>` and `\|` | `RunsItsWords`, `HistoryOwned`, `ForegroundWaited`, `ZombiesCollected`, `PromptReturns` |
| `sort` | three programs, all inputs of up to 5 numbers of 4, three longer | `ResultSorted`, `SplitHolds` |
| `sudoku` | six puzzles of 4 by 4, right, and wrong in each way alone and together; freed memory with numbers in front of, in and behind the grid | `VerdictSound`, `ThreadsOutlived` |
| `shell_pipeline` | as `shell`, 2 lines | *violated:* `PipelineRunsItsWords` |
| `sudoku_verdict` | as `sudoku` | *violated:* `ValidMeansValid` |

What the two violated runs found:

* `shell_pipeline`: the copies to `father` and `child` put no null pointer
  behind the words (`osh.c:139-144`), as the copy to `temp` does. After
  `ls -l | wc -l` the line `ls | wc` runs `ls -l` and `wc -l`.
* `sudoku_verdict`: the id of the thread for the columns is stored over that of
  the thread for the rows (`sudoku.c:121`), which nobody then waits for: main
  can print "Valid!" for a puzzle in which a row is wrong.

### Known deviations that the models keep

These were met while modelling. The models do what the code does, and the
properties are stated so that they hold of it.

* `pool_shutdown` cancels the workers at once: tasks that are still queued, or
  taken and not yet begun, are never executed, though `threadpool.c:19-20`
  speaks of "work that has to be completed". `EachTaskInOnePlace` says that
  they are still where they were.
* `request_resources` tests `>` where `release_resources` tests `>=`
  (`banker.c:140`, `168`): a request for customer `NUMBER_OF_CUSTOMERS` passes
  the check. `BooksBalance` says that it changes nothing.
* A customer number below zero passes both checks, although there is a message
  "Invalid customer number!" (`banker.c:77-78`, `99-100`). In the program as
  shipped `RL -2 1 1 1 1` takes the amounts out of `maximum[4]`, adds them to
  `allocation[4]` and to `available`, and answers that it was successful.
* An amount below zero passes all checks: `RQ 0 -1 0 0 0` leaves a customer
  with less than nothing, and `RL 0 -1 0 0 0` gives it one more without a look
  at what is available, needed or safe.
* Best fit and worst fit are the wrong way round (`allocator.c:67-92`); see
  `Preferred`.
* `delete` compares names (`list.c:30`): with two tasks of one name the task
  that was run is freed while its node stays in the list. The run has distinct
  names.
* Two processes that read one file under `/proc` at the same time may each get
  the value twice, or nothing, and may keep each other from ever seeing the
  end. The properties are about readers that come one at a time.
* A pid that is invalid leaves `completed` set, so that the next reading gets
  nothing; see `LoneReaderServed`.
* The prompt waits for the right side of a pipeline; the left side may outlive
  it and becomes a child of init.

### Bounds, and why they are enough

* **Threads.** Two producers are the least that race for a token, for the mutex
  and against each other's cancellation; a second consumer is in the proofs,
  which are for any number of both. The ring of three slots wraps around; the
  numbers of items are not bounded. A queue of three with five tasks has the
  ring wrap and the client wait.
* **Banker.** Three customers are the least at which the order of a plan
  matters beyond the first and the last. The starts include all maximum
  matrices of the given amounts, also those that exceed what there is or are
  below zero. The customer numbers below zero name a row of the array before,
  `available` and a row of `maximum`, and no row of any array. `MaxMisuses`
  bounds the commands from the first with a number below zero on to that one:
  nothing is claimed of what comes after it.
* **Virtual memory.** `MaxAccesses` bounds `total_cnt` and so the length of a
  run: nine accesses fill the three frames, put out every page and bring it in
  again. Each byte of the backing store differs from all others. The addresses
  include one behind the last page.
* **Allocator.** `MaxRegions` bounds the number of regions, because empty
  regions (requests of size zero) cost nothing; a split beyond it is not taken
  in the model. Four regions suffice for a region that is joined at both its
  sides and for two regions of one process apart from each other. `PageSize`
  stands for the 4096 of the code; memory is no multiple of it, so the last
  region never is.
* **Schedulers.** Three tasks are the least with a head, a middle and an end to
  delete; bursts of up to two quanta and a half let a task come around three
  times. Nothing is capped: every program ends.
* **Files under `/proc`.** Two readers can be one after the other or at once;
  since the file has no other memory than `completed`, a third adds nothing.
  `WordSize` stands for the 2^64 of a counter and `HZ` for its rate;
  `MaxTicks` bounds the time. The numbers of readings, writes and processes
  are not bounded.
* **Shell.** `MaxLines` bounds the lines: three are a long one, a short one
  over it and `!!`, or two background children and a foreground one, so that
  signals coalesce. `MaxArgs` stands for 40 words; no line has more than it.
* **Sorts.** Five elements are the least that Mergesort splits twice on one
  side, and sides of Quicksort come out empty, single and longer. With `IntMax`
  1 an int has four values, of which pairs are too far apart to subtract.
* **Sudoku.** `Box` stands for 3. Two by two has as many threads of each kind
  as matter: the row thread, the column thread, and subgrids whose row and
  column differ. `Garbage` has a number below zero, one of the grid, and one
  behind it.

No run uses symmetry, since most check liveness.

### Fairness

* *Producer-consumer.* Weak fairness for main and for each thread: the system
  schedules a thread that can run. Strong fairness for taking the mutex: the
  waiters do not wait on a mutex that is always busy, because each thread
  sleeps at least a second between two uses of it. No fairness at all for
  main's sleep, which may last for ever, and nothing beyond weak fairness for
  semaphores: one thread may lose every race for a token, which is why
  `ItemsKeepFlowing` speaks of consumers together.
* *Thread pool.* Weak fairness for the client and for each worker suffices,
  the tasks being finitely many.
* *Schedulers.* Weak fairness for the program, which has one thread and never
  waits.
* *Allocator.* Weak fairness for the rounds of `release` only: a call that has
  begun runs on. The user need not enter anything.
* *Files under `/proc`.* Weak fairness for each reader: a call of `proc_read`
  runs to its end, and the process that has the file open calls again.
* *Shell.* Weak fairness for `main`, for the handler, and for the end of every
  child: commands come to an end. The user need not type anything.

## 5. The theorems

All of them hold for every value of the constants that satisfies the
assumption of the module. The proofs are in modules named `...Proofs`, one for
each program; `Project2Proofs` has those of the shell and of all files under
`/proc`, and `Project3Proofs` those of the sorts and of the validator. So that
these two can extend the modules of both programs, `ProcFile` and `Sudoku` do
not share a name with the other one: their specifications are `FileSpec` and
`GridSpec`, and where the program is, `place` and `stage`.

* **Producer-consumer** (`ProducerConsumerProofs`).
  `TokensConserved` is not inductive: that a semaphore's token means a slot
  needs to know who is inside. `IInv` adds that the mutex names the one thread
  inside (`MutexInv`), that only producers store (`RoleInv`), and what threads
  there are at each point of main (`LifeInv`). The counting arguments rest on
  the lemmas `CountOne` and `CountedSets`: one thread entering or leaving a
  finite set changes its cardinality by one. From the invariant follow
  `TokensAreConserved`, `ErrorsNeverReported`, `DestroyedUnused`, and
  `ChannelImplemented`: each step is a `Put`, a `Take`, a `Produce`, a `LetGo`
  or a stutter, where `ContentsAfterPut` and `ContentsAfterTake` say what an
  index that moves does to the contents of the ring. This last theorem needs one more invariant, that a
  producer on its way to the buffer carries an item (`CarryingInv`).
* **Thread pool** (`ThreadPoolProofs`). The same argument with the client as
  the one sender; `SemaphoresGuard` is why `dequeue` need not look.
  Its ring is another instance of `RingQueue`, with the same lemmas.
  `TasksInOnePlace` counts the places of a task, in the queue, in the hands of
  workers and in the past: a store makes it one place more (`CountAppend`), a
  load takes it out of the queue (`CountTail`) into one hand, and executing it
  moves it to the past.
* **Banker** (`BankerProofs`). That one customer can finish (`NoDeadlock`) is
  not inductive: after one customer finished another one has to be able to.
  The invariant therefore carries a *plan*, an order in which all customers
  finish, with the working vector at each point as a function, so that no sum
  has to be taken (`IsPlan`). While `safe()` runs there are two plans: the one
  of the books before the request, for the case that it is taken back, and the
  one that `safe()` has built so far, which `Finish` makes longer
  (`LongerPlan`). `PlanAfterRelease` shows that a plan survives a release,
  with larger working vectors. A start that is not safe has no plan; then
  nobody ever holds anything, which is the other disjunct of `Certified`.
  All this is known only as long as `misuses` is 0 (`Sound`); what stays true
  whatever is entered is `TypeOK`, with integers for amounts. Amounts below zero
  at the start do no harm, because a request is compared with `need` and
  `available` before it is entered (`HoldersCovered`).
  `SearchDecides` and `LedgerImplemented` compare the search with the
  definition of safety over sets, and so need what sets of customers hold
  together. `IsTotal` says that a function on the subsets adds one member at a
  time; there is one and only one of them (`TotalExists`, by a smallest set
  that has none), and taking members in another order gives the same
  (`TotalAdds`). From a plan every set of waiting customers has one that can
  finish, the first of them in the plan (`PlanIsSafe`); and where `safe()` is
  stuck, those it has not finished are a set in which nobody can.
* **Virtual memory** (`VirtualMemoryProofs`). `ReadsBackingStore` needs the TLB
  to agree with the page table, the page table with memory, and the page table
  to give each frame to one page; and it needs to know, in the middle of a
  translation, what has been established so far (`PendingInv`). `Places` shows
  that no two frame and offset pairs share a byte; it is the one piece of
  nonlinear arithmetic. `PagingImplemented` needs that frames are occupied in
  turn (`FilledInTurn`): until all are, the pages in memory in the order they
  came in are those of frames 0, 1, ...; from then on the frame after the last
  one filled has the oldest (`Resident`).
* **Allocator** (`AllocatorProofs`). Beginnings of regions do not order them,
  as regions may be empty. The invariant instead says that there *is* a
  numbering of the regions in the order of the list (`Linked`), in which no two
  unused regions follow each other, except, while `release` walks, from the
  region it has come to on (`Apart`). A split makes room for one number and a join closes
  a gap. `PathWhole` leads from a numbering to the path that the properties
  speak of: a walk along `next` cannot come back to a region it has been to,
  since `pre` would then lead back to the head of the list, which has no region
  before it.
  `RegionMapImplemented` compares the path with a row. It needs that the regions
  lie end to end (`Tiled`), and that a region `release` has still to give back
  lies from `cur` on (`Visited`). A request that splits a region and a round
  that joins two make the path one region longer or shorter (`SplitPath`,
  `JoinPath`). The row releases a process in one step when `release` starts,
  and the list catches up over the rounds: marking one of its regions unused early
  makes no difference to the row released (`GivenAgain`), the second of two unused
  neighbours makes none either (`GivenDrops`, `DropOne`), and when the walk ends
  nothing is left to give back (`GivenNothing`).
* **Schedulers** (`SchedulerProofs`), for all files in which the tasks have
  different names (`NamesDiffer`): `delete` goes by the name, and of two tasks
  with one name it would remove the wrong one. `ListInv` says that each task is
  in one of the lists, once, or was freed. `NobodyStarves` needs to know more
  than how long each task has waited: whoever is `k` places from the pointer on
  has waited for at most `Len(tasks) - k` quanta (`TurnInv`), and `TurnOn` shows
  that a step of the pointer, with or without a deletion, takes the head off
  that order and moves the others up. For `ServedInTurn` the list has to be in
  the order in which the tasks came, latest first, which is what makes the
  searches settle ties as the policy does (`SearchIs`, `ChosenInTurn`); while
  the tasks are moved, the second list has to be sorted, and after all that are
  still in the first (`ListsOrdered`). A set of tasks has one and only one order
  that follows the policy (`TurnExists`, by a smallest set that has none, and
  `OneTurn`), and whoever goes before all others is its head (`FirstServed`).
* **Files under `/proc`** (`Project2Proofs`). For `ReadingsCurrent` each call
  carries the values that the file could have had since the call began, and
  these only grow (`CallObservesMore`). `LoneReadings` is about a reader that
  is alone from its opening to its end; it holds by what `completed` is at each
  point of such a reader's calls (`LoneInv`).
* **Shell** (`Project2Proofs`). `MainInv` ties the pointers of the arrays to the
  line they were read from: `HistoryInv` says that the history has
  the words of the last line that was not `!!`, none of which was freed,
  `ParsedInv` that `temp`, `father` and `child` have the words of the command
  and of its two sides. `WordsRun` then follows at the fork (`ForksWords`): the
  words up to the first null pointer are the words of the part of the line
  that the job was meant to be. `ForegroundWaited` needs
  that a foreground command runs only while `main` waits for it, and was forked
  last (`WaitInv`); `ZombiesCollected`, that while there is a zombie the handler
  runs or its signal is pending (`ZombieInv`).
* **Sorts** (`Project3Proofs`). `SortedResult` and `HeldSplit` follow from one
  invariant with a part for each program.
  What is done to an array makes an arrangement of it: a permutation of the
  whole from one of a segment (`Arrangements` of `Replaced`), of two halves from
  one of each (`Beside`), of a merge from the number of elements that were
  taken (`Taken`). That `Merged` sorts is proved by how far the two cursors
  have come after each round (`Cursor`); that a sorted arrangement exists at
  all, so that `qsort` returns one of numbers that are close, by a shortest
  sequence that has none.
  `SortInv` says which threads there are at which place of main, and that a
  half is in order once its thread is done. `MergeInv` says what a task's own
  array is: its segment of the input until it runs, a sorted arrangement of it
  when it is done. `QuickInv` is about how segments lie. Any two tasks are
  apart by at least one element, or one is on one side of where the other has
  split (`Related`); so a step of a task moves elements only within its own
  segment, and what tasks above it have split stays split since a permutation
  within a side changes no set of elements on it. A task that is done has only
  done ones below it (`QuickDone`), and so nobody moves what it has sorted.
* **Sudoku** (`Project3Proofs`), for grids of any size, whatever
  their cells hold. `SudokuInv` says how many threads main has created and
  joined at each place, how far each of the two threads that look at many lines
  has come, and that `valid` and the output agree with the lines looked at so
  far. Only for columns is there a fact that they all were, at the
  verdict (`ColumnsSeen`), and for rows if their thread has ended. What is known
  of the rows is known until the parameters are freed (`RowsFound`), which is
  after the verdict; what freed memory holds is left open.
  `SoundVerdict` is the action property, from the invariant before the step.

Assumptions of the theorems, each named in its module: at least one slot,
worker, customer, page, frame and TLB entry; amounts and customer numbers that are integers, where a number that
has a row of its own names that row;
a backing store that has all pages; at most 256 frames, as their number is kept
in a byte; a memory, a page and a number of regions above zero, and no process
with the name of an unused region; pids, a rate and a word size that are
natural numbers; tasks with natural numbers for bursts; numbers to be sorted
that are of type `int`; grids that have rows; lines that are sequences of at
least one and at most `MaxArgs` words. Those on the models' own bounds are that
the counter of jiffies ticks less than once around (`MaxTicks < WordSize`) and
that a list has at most `MaxRegions` regions.

Some definitions of the models were changed because a proof did not go
through. In `Redirection` two of the alternatives of a `CASE` overlapped, so
that which one held was left open; they are exclusive now, in the order in
which the code tests. In `ResourceLedger` a subset without the empty set had no
parentheses, which the two tools read differently. `Resident` was defined by
`SelectSeq` over the TLB's frames and is now by the frames in turn, as above.
In `RegionMap` `Coalesced`, which makes one region of a run of unused ones, is built entry by
entry, and `Freed` is a function on the rows, so that both can be unfolded.
In `ReadyQueue` the order of a set of tasks was a sort of the library, whose
definition cannot be unfolded either; `InTurn` says which order it is.
`ParallelSort` had the merge and Quicksort's loop as recursive functions; the
merge goes by rounds now, and the loop has become the steps it consists of,
which made the model finer.

## 6. What is only model-checked

* Liveness (`ShutdownCompletes`, `ItemsKeepFlowing`, `PoolShutsDown`,
  `ReleaseEnds`, `EveryTaskFinishes`, `LoneReaderEnds`, `PromptReturns`): beyond
  the reach of the proof system.

Every invariant, every action property and every refinement that a run checks
is stated by a theorem. Induction over data, which the provers cannot
instantiate with an operator, was not needed: where a fact holds of all finite
sets, sequences or rounds, the proof takes a least one of which it does not
hold (`WFMin` on natural numbers) and derives a contradiction. TLC checks the
same properties on the instances of section 4. That the code contradicts two of
its comments is shown by a run each, and is not a theorem.

## 7. What is not modelled

* Output, prompts and `STAT`, `*`, except the replies the banker and the
  allocator give, which are state.
* What a scheduler does once it has read a freed task (with two tasks of one
  name); the runs stop there.
* Failing `malloc`, `pthread_create`, `fopen` and short reads from the backing
  store; overflow of `int` but for the comparison of `sort`; words at the
  banker's prompt that are no numbers.
* What writes to memory that is no row of an array do, at the banker's prompt,
  and what the thread for the rows does to its stack with a value from outside
  of the grid: either has no effect or ends the process.
* The name of an unused region, which `makeRegion` never assigns: it is taken
  to be null, which is what the C library of the build gives (memory from the
  top of the heap is zero, and a region that was freed was unused).
* Whether the termination of `safe()` is reached is not checked as a property:
  each round of `Finish` adds a customer.
* Loading and unloading of the kernel modules, `copy_to_user` that fails in
  `jiffies` and `seconds`, which do not look at its result, and the byte that
  `proc_write` puts behind the text it has copied (`pid.c:115`).
* The shell at the end of its input and with lines of more than 40 words; the
  left side of a pipeline as a process of its own; a pipe that fails.
* Files of numbers that are missing or short, for the sort and the validator,
  and digits that are none.
* Generated, vendored and data files, and the reports.
