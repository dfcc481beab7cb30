----------------------------- MODULE VirtualMemory -----------------------------
(***************************************************************************)
(* Project8/vm_manager.c: addresses are read one after the other from a    *)
(* file, translated through a TLB and a page table, and the byte they stand*)
(* for is read from physical memory.  Pages are brought in from the backing*)
(* store on demand; get_frame hands the frames out in turn, so that a page *)
(* that is in the way goes out first in, first out.                        *)
(*                                                                         *)
(* The sizes are parameters: the program as it is has as many frames as    *)
(* pages, and then page_fault never finds a page in its way.               *)
(***************************************************************************)
EXTENDS Integers, Sequences

CONSTANTS
  PAGE_SIZE, PAGE_NUM, FRAME_NUM, TLB_SIZE,
  BackingStore,         \* the bytes of BACKING_STORE.bin
  LogicalAddresses,     \* the addresses of addresses.txt
  MaxAccesses           \* how many of them a run reads

Pages   == 0 .. PAGE_NUM - 1
Frames  == 0 .. FRAME_NUM - 1
Offsets == 0 .. PAGE_SIZE - 1
Slots   == 0 .. TLB_SIZE - 1
Bytes   == 0 .. 255

\* Frame numbers are kept in uint8_t variables.
ASSUME MemoryAssumption ==
  /\ PAGE_SIZE \in Nat \ {0} /\ PAGE_NUM \in Nat \ {0} /\ TLB_SIZE \in Nat \ {0}
  /\ FRAME_NUM \in 1 .. 256
  /\ BackingStore \in [0 .. PAGE_NUM * PAGE_SIZE - 1 -> Bytes]
  /\ LogicalAddresses \subseteq Nat /\ 0 \in LogicalAddresses
  /\ MaxAccesses \in Nat

VARIABLES
  TLB, page_table, physical_memory,
  next_frame, next_TLB_index,
  total_cnt, TLB_miss_cnt, page_fault_cnt,
  pc,                   \* "scan", "lookup", "fault", "update", "access", "done"
  logical, physical,    \* of the address at hand
  value                 \* the byte read last

tables   == <<TLB, page_table, physical_memory, next_frame, next_TLB_index>>
counters == <<total_cnt, TLB_miss_cnt, page_fault_cnt>>
vars     == <<tables, counters, pc, logical, physical, value>>

\* (frameNumber << 8) + offset, and pageNumber * PAGE_SIZE likewise.
At(n, offset) == n * PAGE_SIZE + offset

Page(address)   == (address \div PAGE_SIZE) % PAGE_NUM
Offset(address) == address % PAGE_SIZE

NoTLBItem == [pageNumber |-> 0, frameNumber |-> 0, valid |-> FALSE]
EmptyTLB  == [i \in Slots |-> NoTLBItem]
NoPage    == [frameNumber |-> 0, valid |-> FALSE]

Cached(i, p) == TLB[i].valid /\ TLB[i].pageNumber = p
Holds(p, f)  == page_table[p].valid /\ page_table[p].frameNumber = f

Init ==
  /\ TLB = EmptyTLB /\ next_TLB_index = 0
  /\ page_table = [p \in Pages |-> NoPage]
  /\ physical_memory = [i \in 0 .. FRAME_NUM * PAGE_SIZE - 1 |-> 0] /\ next_frame = 0
  /\ total_cnt = 0 /\ TLB_miss_cnt = 0 /\ page_fault_cnt = 0
  /\ pc = "scan"
  /\ logical = 0 /\ physical = 0 /\ value = 0

-----------------------------------------------------------------------------
(***************************************************************************)
(* Faulty variants of definitions below, one plausible bug each: put in    *)
(* their place, each makes the property it is meant for fail.              *)
(***************************************************************************)
\* The page goes into the frame after the one it is mapped to.
MisplacedPageIn(p, f) ==
  [i \in DOMAIN physical_memory |->
     IF i \in At(f, 1) .. At(f, PAGE_SIZE) THEN BackingStore[At(p, i - At(f, 1))]
     ELSE physical_memory[i]]

\* The page that was in the frame keeps its entry in the page table.
LingeringMapped(p, f) ==
  [page_table EXCEPT ![p] = [frameNumber |-> f, valid |-> TRUE]]

-----------------------------------------------------------------------------
\* fread of page p into frame f.
PageIn(p, f) ==
  [i \in DOMAIN physical_memory |->
     IF i \in At(f, 0) .. At(f, PAGE_SIZE - 1) THEN BackingStore[At(p, i - At(f, 0))]
     ELSE physical_memory[i]]

\* The page table with p in frame f, and the first page found there put out.
Mapped(p, f) ==
  [q \in Pages |->
     IF q = p THEN [frameNumber |-> f, valid |-> TRUE]
     ELSE IF Holds(q, f) /\ \A r \in 0 .. q - 1 : ~ Holds(r, f)
          THEN [page_table[q] EXCEPT !.valid = FALSE]
     ELSE page_table[q]]

\* More faulty variants, of the steps below.

\* The TLB is not cleared.
StaleTLBPageFault ==
  /\ pc = "fault"
  /\ page_fault_cnt' = page_fault_cnt + 1
  /\ next_frame' = (next_frame + 1) % FRAME_NUM
  /\ physical_memory' = PageIn(Page(logical), next_frame)
  /\ page_table' = Mapped(Page(logical), next_frame)
  /\ pc' = "update"
  /\ UNCHANGED <<TLB, next_TLB_index, total_cnt, TLB_miss_cnt, logical, physical, value>>

\* The frame after the next one is taken once memory is full: not FIFO.
SkippingPageFault ==
  LET frame == IF \E p \in Pages : Holds(p, next_frame) THEN (next_frame + 1) % FRAME_NUM
               ELSE next_frame
  IN
  /\ pc = "fault"
  /\ page_fault_cnt' = page_fault_cnt + 1
  /\ next_frame' = (next_frame + 1) % FRAME_NUM
  /\ physical_memory' = PageIn(Page(logical), frame)
  /\ page_table' = Mapped(Page(logical), frame)
  /\ TLB' = EmptyTLB /\ next_TLB_index' = 0
  /\ pc' = "update"
  /\ UNCHANGED <<total_cnt, TLB_miss_cnt, logical, physical, value>>

-----------------------------------------------------------------------------
\* fscanf in main, and translate_address up to its call of check_TLB.
ScanAddress(a) ==
  /\ pc = "scan" /\ total_cnt < MaxAccesses
  /\ logical' = a
  /\ total_cnt' = total_cnt + 1
  /\ pc' = "lookup"
  /\ UNCHANGED <<tables, TLB_miss_cnt, page_fault_cnt, physical, value>>

\* check_TLB finds the page in slot i.
TLBHit(i) ==
  /\ pc = "lookup"
  /\ Cached(i, Page(logical)) /\ \A j \in 0 .. i - 1 : ~ Cached(j, Page(logical))
  /\ physical' = At(TLB[i].frameNumber, Offset(logical))
  /\ pc' = "access"
  /\ UNCHANGED <<tables, counters, logical, value>>

TLBMiss ==
  /\ pc = "lookup"
  /\ \A i \in Slots : ~ Cached(i, Page(logical))
  /\ TLB_miss_cnt' = TLB_miss_cnt + 1
  /\ pc' = IF page_table[Page(logical)].valid THEN "update" ELSE "fault"
  /\ UNCHANGED <<tables, total_cnt, page_fault_cnt, logical, physical, value>>

PageFault ==
  /\ pc = "fault"
  /\ page_fault_cnt' = page_fault_cnt + 1
  /\ next_frame' = (next_frame + 1) % FRAME_NUM
  /\ physical_memory' = PageIn(Page(logical), next_frame)
  /\ page_table' = Mapped(Page(logical), next_frame)
  /\ TLB' = EmptyTLB /\ next_TLB_index' = 0
  /\ pc' = "update"
  /\ UNCHANGED <<total_cnt, TLB_miss_cnt, logical, physical, value>>

\* update_TLB, and the end of translate_address.
UpdateTLB ==
  LET frameNumber == page_table[Page(logical)].frameNumber IN
  /\ pc = "update"
  /\ TLB' = [TLB EXCEPT ![next_TLB_index] =
               [pageNumber |-> Page(logical), frameNumber |-> frameNumber, valid |-> TRUE]]
  /\ next_TLB_index' = (next_TLB_index + 1) % TLB_SIZE
  /\ physical' = At(frameNumber, Offset(logical))
  /\ pc' = "access"
  /\ UNCHANGED <<page_table, physical_memory, next_frame, counters, logical, value>>

AccessMemory ==
  /\ pc = "access"
  /\ value' = physical_memory[physical]
  /\ pc' = "scan"
  /\ UNCHANGED <<tables, counters, logical, physical>>

EndOfFile ==
  /\ pc = "scan"
  /\ pc' = "done"
  /\ UNCHANGED <<tables, counters, logical, physical, value>>

Terminated ==
  /\ pc = "done"
  /\ UNCHANGED vars

Next ==
  \/ \E a \in LogicalAddresses : ScanAddress(a)
  \/ \E i \in Slots : TLBHit(i)
  \/ TLBMiss \/ PageFault \/ UpdateTLB \/ AccessMemory
  \/ EndOfFile \/ Terminated

Spec == Init /\ [][Next]_vars

-----------------------------------------------------------------------------
(***************************************************************************)
(* Correctness.                                                            *)
(***************************************************************************)
TypeOK ==
  /\ TLB \in [Slots -> [pageNumber : Pages, frameNumber : Frames, valid : BOOLEAN]]
  /\ page_table \in [Pages -> [frameNumber : Frames, valid : BOOLEAN]]
  /\ physical_memory \in [0 .. FRAME_NUM * PAGE_SIZE - 1 -> Bytes]
  /\ next_frame \in Frames /\ next_TLB_index \in Slots
  /\ total_cnt \in Nat /\ TLB_miss_cnt \in Nat /\ page_fault_cnt \in Nat
  /\ pc \in {"scan", "lookup", "fault", "update", "access", "done"}
  /\ logical \in LogicalAddresses /\ physical \in 0 .. FRAME_NUM * PAGE_SIZE - 1
  /\ value \in Bytes

\* No two pages are ever in the same frame: the page in the way of a new one
\* is put out of the page table (vm_manager.c:85-92).
FramesExclusive ==
  \A p, q \in Pages, f \in Frames : Holds(p, f) /\ Holds(q, f) => p = q

\* The frame of a page holds what the backing store has for it, however many
\* pages came and went before (vm_manager.c:82-92).
MemoryHoldsPages ==
  \A p \in Pages, f \in Frames, o \in Offsets :
    Holds(p, f) => physical_memory[At(f, o)] = BackingStore[At(p, o)]

(***************************************************************************)
(* The TLB never disagrees with the page table: what it says of a page is  *)
(* what the page table says, and it says it once.  It is filled from the   *)
(* page table, and cleared when a page goes out (vm_manager.c:51-60,       *)
(* 93-94, 105-110).                                                        *)
(***************************************************************************)
TLBCoherent ==
  \A i \in Slots :
    TLB[i].valid => /\ Holds(TLB[i].pageNumber, TLB[i].frameNumber)
                    /\ \A j \in Slots : Cached(j, TLB[i].pageNumber) => i = j

\* The byte read for an address is the one the backing store has for it,
\* whichever of the three ways it was found (vm_manager.c:45-64, 112-137).
ReadsBackingStore ==
  pc = "scan" /\ total_cnt > 0 => value = BackingStore[At(Page(logical), Offset(logical))]

Occupied(f) == \E p \in Pages : Holds(p, f)
Occupant(f) == CHOOSE p \in Pages : Holds(p, f)
Full        == \A f \in Frames : Occupied(f)

\* Frames are filled in turn, and a frame that is filled remains so.
FilledInTurn == Full \/ \A f \in Frames : Occupied(f) <=> f < next_frame

\* The pages in memory, from the one that get_frame will put out first.
Resident ==
  IF Full THEN [i \in 1 .. FRAME_NUM |-> Occupant((next_frame + i - 1) % FRAME_NUM)]
  ELSE [i \in 1 .. next_frame |-> Occupant(i - 1)]

StoredByte(address) == BackingStore[At(Page(address), Offset(address))]

Paging == INSTANCE DemandPaging WITH
  Capacity  <- FRAME_NUM,
  Addresses <- LogicalAddresses,
  PageOf    <- Page,
  Byte      <- StoredByte,
  resident  <- Resident,
  faults    <- page_fault_cnt,
  wanted    <- logical,
  reading   <- pc \notin {"scan", "done"}

(***************************************************************************)
(* Frames handed out in turn put the pages out in the order they came in,  *)
(* and each page fault is one that any first-in-first-out memory of this   *)
(* size would have: the TLB, cleared at every page fault, never adds or    *)
(* hides one (vm_manager.c:45-115).                                        *)
(***************************************************************************)
ImplementsPaging == Paging!Spec

\* Between the steps of a translation: a page that faults is not in memory,
\* one that goes into the TLB is in memory and not in the TLB, and the
\* physical address is the place of the byte.
PendingInv ==
  /\ pc = "fault" => ~ page_table[Page(logical)].valid
  /\ pc = "update" => /\ page_table[Page(logical)].valid
                      /\ \A i \in Slots : ~ Cached(i, Page(logical))
  /\ pc = "access" => \E f \in Frames : /\ Holds(Page(logical), f)
                                        /\ physical = At(f, Offset(logical))

IInv ==
  /\ TypeOK /\ FramesExclusive /\ MemoryHoldsPages /\ TLBCoherent
  /\ PendingInv /\ ReadsBackingStore

===============================================================================
