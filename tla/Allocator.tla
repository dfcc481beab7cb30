------------------------------- MODULE Allocator -------------------------------
(***************************************************************************)
(* Project7: the contiguous memory allocator at its prompt.  Memory is a   *)
(* doubly linked list of regions in the C heap; RQ takes a region for a    *)
(* process, and splits it when it is too large, RL walks the list once,    *)
(* gives back the regions of a process and joins each unused region to an  *)
(* unused one before it, and quit ends.                                    *)
(*                                                                         *)
(* A struct region is a record in heap, a pointer an address of heap or    *)
(* NULL.  A region that was freed is no longer in heap's domain.           *)
(*                                                                         *)
(* makeRegion leaves the name of an unused region uninitialised.  With the *)
(* C library the program is built with, this is zero: a region's memory    *)
(* comes from the top of the heap, or was a region that was freed unused.  *)
(*                                                                         *)
(* The second test of release, for an unused region after this one, is     *)
(* never true (it asks for a null pointer that is not null).               *)
(***************************************************************************)
EXTENDS Integers, Sequences, FiniteSets

CONSTANTS
  memorySize,
  PageSize,             \* requests are rounded up to multiples of it: 4096
  Names,                \* of processes
  Unused,               \* the name of an unused region: a null pointer
  Sizes,                \* the numbers the user enters as sizes
  MaxRegions            \* how many regions there may be in the model

ASSUME AllocatorAssumption ==
  /\ memorySize \in Nat \ {0} /\ PageSize \in Nat \ {0} /\ MaxRegions \in Nat \ {0}
  /\ Sizes \subseteq Int
  /\ Unused \notin Names

NULL      == 0
Addresses == 1 .. MaxRegions

\* Any other character names no strategy.
Strategies == {"F", "B", "W", "other"}

VARIABLES
  heap, list,
  pc,                   \* "prompt", "release" (in release()), "quit"
  name, cur, flag,      \* the argument and the locals of release()
  reply                 \* what the last command printed

releaseVars == <<name, cur, flag>>
vars        == <<heap, list, pc, releaseVars, reply>>

Silent == "Silent"      \* commands that succeed print nothing
NoAvailableMemory == "No available memory to allocate!"
NoMemoryToRelease == "No memory to release!"

Init ==
  /\ heap = [a \in {1} |-> [begin |-> 0, end |-> memorySize - 1, name |-> Unused,
                            pre |-> NULL, next |-> NULL]]
  /\ list = 1
  /\ pc = "prompt"
  /\ name = Unused /\ cur = NULL /\ flag = FALSE
  /\ reply = Silent

SizeOf(a) == heap[a].end - heap[a].begin + 1

After(a) == IF a \in DOMAIN heap THEN heap[a].next ELSE NULL

\* The regions in the order of the list, from list along next.
Path ==
  LET to[n \in 1 .. MaxRegions + 1] == IF n = 1 THEN list ELSE After(to[n - 1])
      stops == CHOOSE n \in 1 .. MaxRegions + 1 :
                 /\ to[n] = NULL \/ n = MaxRegions + 1
                 /\ \A k \in 1 .. n - 1 : to[k] # NULL
  IN  SubSeq([n \in 1 .. MaxRegions |-> to[n]], 1, stops - 1)

\* (processSize >> 12) + 1 pages unless the size is one of whole pages.
Rounded(processSize) == ((processSize + PageSize - 1) \div PageSize) * PageSize

\* Which regions of a path fit.  A size below zero is huge as a size_t.
Fitting(path, size) ==
  {n \in DOMAIN path : heap[path[n]].name = Unused /\ 0 <= size /\ size <= SizeOf(path[n])}

\* Whether a strategy takes region a, which comes at n, rather than b, at k.
Preferred(strategy, a, n, b, k) ==
  \/ strategy = "B" /\ SizeOf(a) > SizeOf(b)
  \/ strategy = "W" /\ SizeOf(a) < SizeOf(b)
  \/ (strategy = "F" \/ SizeOf(a) = SizeOf(b)) /\ n < k

Chosen(path, size, strategy) ==
  LET S == Fitting(path, size)
  IN  path[CHOOSE n \in S : \A k \in S \ {n} : Preferred(strategy, path[n], n, path[k], k)]

\* malloc.
NewAddress == CHOOSE a \in Addresses \ DOMAIN heap : \A b \in Addresses \ DOMAIN heap : a <= b

-----------------------------------------------------------------------------
(***************************************************************************)
(* Faulty variants of definitions below, one plausible bug each: put in    *)
(* their place, each makes the property it is meant for fail.              *)
(***************************************************************************)
\* The region after the new one keeps its way back.
OneWaySplit(a, size, process) ==
  LET new  == NewAddress
      rest == [begin |-> heap[a].begin + size, end |-> heap[a].end, name |-> Unused,
               pre |-> a, next |-> heap[a].next]
      front == [heap[a] EXCEPT !.name = process, !.next = new,
                               !.end = heap[a].begin + size - 1]
  IN  [b \in DOMAIN heap \cup {new} |->
         CASE b = new -> rest
           [] b = a   -> front
           [] OTHER   -> heap[b]]

-----------------------------------------------------------------------------
\* Region a split at a size: the new one, as makeRegion links it, is unused.
Split(a, size, process) ==
  LET new  == NewAddress
      rest == [begin |-> heap[a].begin + size, end |-> heap[a].end, name |-> Unused,
               pre |-> a, next |-> heap[a].next]
      front == [heap[a] EXCEPT !.name = process, !.next = new,
                               !.end = heap[a].begin + size - 1]
  IN  [b \in DOMAIN heap \cup {new} |->
         CASE b = new          -> rest
           [] b = a            -> front
           [] b = heap[a].next -> [heap[b] EXCEPT !.pre = new]
           [] OTHER            -> heap[b]]

\* The two changes release makes at region a of heap h.
GivenBack(h, a) == IF h[a].name = name THEN [h EXCEPT ![a].name = Unused] ELSE h

JoinsPre(h, a) ==
  h[a].name = Unused /\ h[a].pre # NULL /\ h[h[a].pre].name = Unused

JoinedToPre(h, a) ==
  LET temp == h[a].pre
  IN  [b \in DOMAIN h \ {temp} |->
         CASE b = a           -> [h[a] EXCEPT !.pre = h[temp].pre, !.begin = h[temp].begin]
           [] b = h[temp].pre -> [h[b] EXCEPT !.next = a]
           [] OTHER           -> h[b]]

\* More faulty variants, of the steps below.

\* Only a region given back now is joined to the one before it.
HastyReleaseStep ==
  LET h == GivenBack(heap, cur)
  IN  /\ pc = "release" /\ cur # NULL
      /\ flag' = (flag \/ heap[cur].name = name)
      /\ heap' = IF heap[cur].name = name /\ JoinsPre(h, cur) THEN JoinedToPre(h, cur) ELSE h
      /\ list' = IF heap'[cur].pre = NULL THEN cur ELSE list
      /\ cur' = heap'[cur].next
      /\ UNCHANGED <<pc, name, reply>>

\* Only one region is given back.
FirstOnlyReleaseStep ==
  LET h == IF flag THEN heap ELSE GivenBack(heap, cur)
  IN  /\ pc = "release" /\ cur # NULL
      /\ flag' = (flag \/ heap[cur].name = name)
      /\ heap' = IF JoinsPre(h, cur) THEN JoinedToPre(h, cur) ELSE h
      /\ list' = IF heap'[cur].pre = NULL THEN cur ELSE list
      /\ cur' = heap'[cur].next
      /\ UNCHANGED <<pc, name, reply>>

\* After a join the walk starts again, and no longer tells when to stop.
RestartingReleaseStep ==
  LET h == GivenBack(heap, cur)
  IN  /\ pc = "release" /\ cur # NULL
      /\ flag' = (flag \/ heap[cur].name = name)
      /\ heap' = IF JoinsPre(h, cur) THEN JoinedToPre(h, cur) ELSE h
      /\ list' = IF heap'[cur].pre = NULL THEN cur ELSE list
      /\ cur' = IF heap'[cur].name = Unused THEN list' ELSE heap'[cur].next
      /\ UNCHANGED <<pc, name, reply>>

-----------------------------------------------------------------------------
\* request finds nothing: no region fits, or there is no such strategy.
RequestRefused(size, strategy) ==
  /\ pc = "prompt"
  /\ Fitting(Path, size) = {} \/ strategy = "other"
  /\ reply' = NoAvailableMemory
  /\ UNCHANGED <<heap, list, pc, releaseVars>>

\* request finds a region, which is of the right size or is split.
RequestGranted(process, size, strategy) ==
  /\ pc = "prompt"
  /\ Fitting(Path, size) # {} /\ strategy # "other"
  /\ LET a == Chosen(Path, size, strategy)
     IN  IF SizeOf(a) = size THEN heap' = [heap EXCEPT ![a].name = process]
         ELSE /\ Cardinality(DOMAIN heap) < MaxRegions
              /\ heap' = Split(a, size, process)
  /\ reply' = Silent
  /\ UNCHANGED <<list, pc, releaseVars>>

\* RQ in main.
Request(process, processSize, strategy) ==
  \/ RequestRefused(Rounded(processSize), strategy)
  \/ RequestGranted(process, Rounded(processSize), strategy)

\* release starts its walk.
Release(process) ==
  /\ pc = "prompt"
  /\ pc' = "release"
  /\ name' = process /\ cur' = list /\ flag' = FALSE
  /\ UNCHANGED <<heap, list, reply>>

\* One round of its loop.
ReleaseStep ==
  LET h == GivenBack(heap, cur)
  IN  /\ pc = "release" /\ cur # NULL
      /\ flag' = (flag \/ heap[cur].name = name)
      /\ heap' = IF JoinsPre(h, cur) THEN JoinedToPre(h, cur) ELSE h
      /\ list' = IF heap'[cur].pre = NULL THEN cur ELSE list
      /\ cur' = heap'[cur].next
      /\ UNCHANGED <<pc, name, reply>>

ReleaseEnd ==
  /\ pc = "release" /\ cur = NULL
  /\ pc' = "prompt"
  /\ reply' = IF flag THEN Silent ELSE NoMemoryToRelease
  /\ name' = Unused /\ flag' = FALSE
  /\ UNCHANGED <<heap, list, cur>>

Quit ==
  /\ pc = "prompt"
  /\ pc' = "quit"
  /\ UNCHANGED <<heap, list, releaseVars, reply>>

Terminated ==
  /\ pc = "quit"
  /\ UNCHANGED vars

Releasing == ReleaseStep \/ ReleaseEnd

Next ==
  \/ \E process \in Names, processSize \in Sizes, strategy \in Strategies :
       Request(process, processSize, strategy)
  \/ \E process \in Names : Release(process)
  \/ Releasing
  \/ Quit \/ Terminated

Spec == Init /\ [][Next]_vars

\* A call of release that has begun runs on; the user need not enter anything.
FairSpec == Spec /\ WF_vars(Releasing)

-----------------------------------------------------------------------------
(***************************************************************************)
(* Correctness.                                                            *)
(***************************************************************************)
\* The type of every variable: every pointer is null or leads to a region.
TypeOK ==
  /\ DOMAIN heap \subseteq Addresses
  /\ LET Pointers == DOMAIN heap \cup {NULL}
     IN  /\ heap \in [DOMAIN heap -> [begin : 0 .. memorySize, end : -1 .. memorySize - 1,
                                      name : Names \cup {Unused},
                                      pre : Pointers, next : Pointers]]
         /\ list \in DOMAIN heap /\ cur \in Pointers
  /\ pc \in {"prompt", "release", "quit"}
  /\ name \in Names \cup {Unused} /\ flag \in BOOLEAN
  /\ reply \in {Silent, NoAvailableMemory, NoMemoryToRelease}

(***************************************************************************)
(* The list is whole, also while release is walking it: it leads through   *)
(* every region there is, once, and pre is the way back (Project7          *)
(* makeRegion 28-41, request 110-112, release 126-147).                    *)
(***************************************************************************)
ListWhole ==
  LET path == Path
  IN  /\ Len(path) = Cardinality(DOMAIN heap)
      /\ \A n \in DOMAIN path : heap[path[n]].pre = IF n = 1 THEN NULL ELSE path[n - 1]
      /\ heap[path[Len(path)]].next = NULL

(***************************************************************************)
(* At the prompt no two unused regions lie side by side, although release  *)
(* only ever looks back: each region of the list has its turn (Project7    *)
(* release 120-147).                                                       *)
(***************************************************************************)
UnusedApart ==
  pc # "release" =>
    LET path == Path
    IN  \A n \in 1 .. Len(path) - 1 :
          ~ (heap[path[n]].name = Unused /\ heap[path[n + 1]].name = Unused)

\* The list as a row of names and beginnings.
RowOf[path \in Seq(Addresses)] ==
  [n \in DOMAIN path |-> [name |-> heap[path[n]].name, begin |-> heap[path[n]].begin]]

Row == RowOf[Path]

Grants == {Rounded(s) : s \in Sizes} \cap Nat

Now == INSTANCE RegionMap WITH regions <- Row

\* What the row will be when release is through.
RowReleased == IF pc = "release" THEN Now!Coalesced[Now!Freed(name)[Row]] ELSE Row

Map == INSTANCE RegionMap WITH regions <- RowReleased

(***************************************************************************)
(* Walking, splitting and joining in a linked list is taking and giving    *)
(* back regions of a row: all regions of a process, whatever their number, *)
(* and nobody else's (Project7 request 56-115, release 117-150).           *)
(***************************************************************************)
ImplementsRegionMap == Map!Spec

(***************************************************************************)
(* release comes to an end, although it changes the list it walks          *)
(* (Project7 release 120-147).                                             *)
(***************************************************************************)
ReleaseEnds == pc = "release" ~> pc = "prompt"

=============================================================================
