-------------------------- MODULE VirtualMemoryProofs --------------------------
(***************************************************************************)
(* Project8/vm_manager.c for any sizes of pages, memory and TLB: the page  *)
(* table, the TLB and memory agree with each other and with the backing    *)
(* store, so that every byte read is the right one.                        *)
(*                                                                         *)
(* The proof needs to know that a place in memory belongs to one frame     *)
(* only (Places), what the two halves of page_fault do to the frames       *)
(* (PagedIn, Remapped), and then follows a translation step by step.       *)
(***************************************************************************)
EXTENDS VirtualMemory, SequenceTheorems, TLAPS

\* Blocks of s places each follow one another without overlap.
LEMMA Blocks ==
  ASSUME NEW m \in Nat, NEW n \in Nat, NEW s \in Nat, m < n
  PROVE  m * s + s <= n * s
<1>1. PICK d \in Nat : n = m + 1 + d
  <2>1. n - m - 1 \in Nat /\ n = m + 1 + (n - m - 1)
    OBVIOUS
  <2>2. QED
    BY <2>1
<1>2. d * s \in Nat /\ m * s \in Nat
  OBVIOUS
<1>3. n * s = m * s + s + d * s
  BY <1>1
<1>4. QED
  BY <1>2, <1>3

\* A place is a place of one frame only, at one offset.
LEMMA Places ==
  ASSUME NEW f \in Nat, NEW g \in Nat, NEW o \in Offsets
  PROVE  /\ At(g, o) \in Int
         /\ At(g, o) \in At(f, 0) .. At(f, PAGE_SIZE - 1) <=> f = g
         /\ At(f, o) - At(f, 0) = o
<1>1. /\ PAGE_SIZE \in Nat /\ f * PAGE_SIZE \in Nat /\ g * PAGE_SIZE \in Nat
      /\ o \in Nat /\ o < PAGE_SIZE
  BY MemoryAssumption DEF Offsets
<1>2. f < g => f * PAGE_SIZE + PAGE_SIZE <= g * PAGE_SIZE
  BY <1>1, Blocks
<1>3. g < f => g * PAGE_SIZE + PAGE_SIZE <= f * PAGE_SIZE
  BY <1>1, Blocks
<1> DEFINE fs == f * PAGE_SIZE
           gs == g * PAGE_SIZE
<1>4. f = g => fs = gs
  OBVIOUS
<1> HIDE DEF fs, gs
<1>5. /\ At(g, o) = gs + o /\ At(f, 0) = fs /\ At(f, PAGE_SIZE - 1) = fs + (PAGE_SIZE - 1)
      /\ At(f, o) = fs + o
  BY <1>1 DEF At, fs, gs
<1>6. fs \in Nat /\ gs \in Nat
  BY <1>1 DEF fs, gs
<1>7. (f < g => fs + PAGE_SIZE <= gs) /\ (g < f => gs + PAGE_SIZE <= fs)
  BY <1>2, <1>3 DEF fs, gs
<1>8. QED
  BY <1>1, <1>4, <1>5, <1>6, <1>7

\* Frames lie in memory, and pages in the backing store.
LEMMA InRange ==
  ASSUME NEW n \in Nat, NEW m \in 0 .. n - 1, NEW o \in Offsets
  PROVE  At(m, o) \in 0 .. n * PAGE_SIZE - 1
<1>1. /\ PAGE_SIZE \in Nat /\ m \in Nat /\ m * PAGE_SIZE \in Nat /\ n * PAGE_SIZE \in Nat
      /\ o \in Nat /\ o < PAGE_SIZE
  BY MemoryAssumption DEF Offsets
<1>2. m * PAGE_SIZE + PAGE_SIZE <= n * PAGE_SIZE
  BY <1>1, Blocks
<1> DEFINE ms == m * PAGE_SIZE
           ns == n * PAGE_SIZE
<1>3. ms \in Nat /\ ns \in Nat /\ ms + PAGE_SIZE <= ns /\ At(m, o) = ms + o
  BY <1>1, <1>2 DEF At
<1> HIDE DEF ms, ns
<1>4. ms + o \in 0 .. ns - 1
  BY <1>1, <1>3
<1>5. QED
  BY <1>3, <1>4 DEF ns

LEMMA Constants ==
  /\ PAGE_NUM \in Nat /\ FRAME_NUM \in Nat /\ Pages \subseteq Nat /\ Frames \subseteq Nat
  /\ 0 \in Pages /\ 0 \in Frames /\ 0 \in Slots /\ 0 \in Bytes /\ 0 \in Offsets
BY MemoryAssumption DEF Pages, Frames, Slots, Bytes, Offsets

\* An address lies in a page, at an offset.
LEMMA AddressParts ==
  ASSUME NEW a \in LogicalAddresses
  PROVE  Page(a) \in Pages /\ Offset(a) \in Offsets
<1>1. a \in Nat /\ PAGE_SIZE \in Nat \ {0} /\ PAGE_NUM \in Nat \ {0}
  BY MemoryAssumption
<1>2. a \div PAGE_SIZE \in Nat /\ a % PAGE_SIZE \in 0 .. PAGE_SIZE - 1
  BY <1>1
<1>3. (a \div PAGE_SIZE) % PAGE_NUM \in 0 .. PAGE_NUM - 1
  BY <1>1, <1>2
<1>4. QED
  BY <1>2, <1>3 DEF Page, Offset, Pages, Offsets

\* What fread puts into memory, and what it leaves alone.
LEMMA PagedIn ==
  ASSUME TypeOK, NEW p \in Pages, NEW f \in Frames
  PROVE  /\ PageIn(p, f) \in [0 .. FRAME_NUM * PAGE_SIZE - 1 -> Bytes]
         /\ \A g \in Frames, o \in Offsets :
              PageIn(p, f)[At(g, o)] = IF g = f THEN BackingStore[At(p, o)]
                                       ELSE physical_memory[At(g, o)]
<1>1. /\ DOMAIN physical_memory = 0 .. FRAME_NUM * PAGE_SIZE - 1
      /\ \A i \in 0 .. FRAME_NUM * PAGE_SIZE - 1 : physical_memory[i] \in Bytes
      /\ f \in Nat /\ p \in Nat
  BY Constants DEF TypeOK
<1>2. ASSUME NEW i \in At(f, 0) .. At(f, PAGE_SIZE - 1)
      PROVE  BackingStore[At(p, i - At(f, 0))] \in Bytes
  <2>1. f * PAGE_SIZE \in Nat /\ PAGE_SIZE \in Nat
    BY <1>1, MemoryAssumption
  <2>2. i - At(f, 0) \in Offsets
    BY <2>1 DEF At, Offsets
  <2>3. At(p, i - At(f, 0)) \in 0 .. PAGE_NUM * PAGE_SIZE - 1
    BY <2>2, InRange, Constants DEF Pages
  <2>4. QED
    BY <2>3, MemoryAssumption
<1>3. PageIn(p, f) \in [0 .. FRAME_NUM * PAGE_SIZE - 1 -> Bytes]
  BY <1>1, <1>2 DEF PageIn
<1>4. ASSUME NEW g \in Frames, NEW o \in Offsets
      PROVE  PageIn(p, f)[At(g, o)] = IF g = f THEN BackingStore[At(p, o)]
                                      ELSE physical_memory[At(g, o)]
  <2>1. At(g, o) \in DOMAIN physical_memory
    BY <1>1, InRange, Constants DEF Frames
  <2>2. PageIn(p, f)[At(g, o)] = IF At(g, o) \in At(f, 0) .. At(f, PAGE_SIZE - 1)
                                 THEN BackingStore[At(p, At(g, o) - At(f, 0))]
                                 ELSE physical_memory[At(g, o)]
    BY <2>1 DEF PageIn
  <2>3. /\ At(g, o) \in At(f, 0) .. At(f, PAGE_SIZE - 1) <=> f = g
        /\ At(f, o) - At(f, 0) = o
    BY <1>1, Places, Constants
  <2>4. QED
    BY <2>2, <2>3
<1>5. QED
  BY <1>3, <1>4

\* In the page table p takes the place of whichever page was in frame f.
LEMMA Remapped ==
  ASSUME TypeOK, FramesExclusive, NEW p \in Pages, NEW f \in Frames
  PROVE  /\ Mapped(p, f) \in [Pages -> [frameNumber : Frames, valid : BOOLEAN]]
         /\ Mapped(p, f)[p] = [frameNumber |-> f, valid |-> TRUE]
         /\ \A q \in Pages, g \in Frames :
              q # p => (Mapped(p, f)[q].valid /\ Mapped(p, f)[q].frameNumber = g
                          <=> Holds(q, g) /\ g # f)
<1>1. Mapped(p, f) \in [Pages -> [frameNumber : Frames, valid : BOOLEAN]]
  BY DEF Mapped, TypeOK
<1>2. ASSUME NEW q \in Pages, NEW r \in 0 .. q - 1, Holds(q, f)
      PROVE  ~ Holds(r, f)
  BY <1>2, Constants DEF FramesExclusive, Pages
<1>3. ASSUME NEW q \in Pages, q # p
      PROVE  Mapped(p, f)[q] = IF Holds(q, f) THEN [page_table[q] EXCEPT !.valid = FALSE]
                               ELSE page_table[q]
  BY <1>2, <1>3 DEF Mapped
<1>4. ASSUME NEW q \in Pages, NEW g \in Frames, q # p
      PROVE  Mapped(p, f)[q].valid /\ Mapped(p, f)[q].frameNumber = g <=> Holds(q, g) /\ g # f
  BY <1>3, <1>4 DEF Holds, TypeOK
<1>5. QED
  BY <1>1, <1>4 DEF Mapped, TypeOK

LEMMA InitInv == Init => IInv
<1> SUFFICES ASSUME Init PROVE IInv
  OBVIOUS
<1>1. TypeOK
  <2>1. 0 \in 0 .. FRAME_NUM * PAGE_SIZE - 1
    BY InRange, Constants, MemoryAssumption DEF At, Frames
  <2>2. QED
    BY <2>1, Constants, MemoryAssumption DEF Init, TypeOK, EmptyTLB, NoTLBItem, NoPage
<1>2. FramesExclusive /\ MemoryHoldsPages
  BY DEF Init, FramesExclusive, MemoryHoldsPages, Holds, NoPage
<1>3. TLBCoherent
  BY DEF Init, TLBCoherent, EmptyTLB, NoTLBItem
<1>4. PendingInv /\ ReadsBackingStore
  BY DEF Init, PendingInv, ReadsBackingStore
<1>5. QED
  BY <1>1, <1>2, <1>3, <1>4 DEF IInv

\* Reading the next address changes no table.
LEMMA ScanAddressInv ==
  ASSUME IInv, NEW a \in LogicalAddresses, ScanAddress(a)
  PROVE  IInv'
<1>1. TypeOK'
  BY DEF IInv, TypeOK, ScanAddress, tables
<1>2. (FramesExclusive /\ MemoryHoldsPages /\ TLBCoherent)'
  BY DEF IInv, FramesExclusive, MemoryHoldsPages, TLBCoherent, Holds, Cached,
         ScanAddress, tables
<1>3. (PendingInv /\ ReadsBackingStore)'
  BY DEF PendingInv, ReadsBackingStore, ScanAddress
<1>4. QED
  BY <1>1, <1>2, <1>3 DEF IInv

\* The frame in the TLB is the frame in the page table.
LEMMA TLBHitInv ==
  ASSUME IInv, NEW i \in Slots, TLBHit(i)
  PROVE  IInv'
<1>1. /\ pc = "lookup" /\ pc' = "access" /\ Cached(i, Page(logical))
      /\ physical' = At(TLB[i].frameNumber, Offset(logical))
      /\ UNCHANGED <<tables, counters, logical, value>>
  BY DEF TLBHit
<1>2. Page(logical) \in Pages /\ Offset(logical) \in Offsets /\ TLB[i].frameNumber \in Frames
  BY AddressParts DEF IInv, TypeOK
<1>3. Holds(Page(logical), TLB[i].frameNumber)
  BY <1>1 DEF IInv, TLBCoherent, Cached
<1>4. physical' \in 0 .. FRAME_NUM * PAGE_SIZE - 1
  BY <1>1, <1>2, InRange, Constants DEF Frames
<1>5. TypeOK'
  BY <1>1, <1>4 DEF IInv, TypeOK, tables, counters
<1>6. (FramesExclusive /\ MemoryHoldsPages /\ TLBCoherent)'
  BY <1>1 DEF IInv, FramesExclusive, MemoryHoldsPages, TLBCoherent, Holds, Cached, tables
<1>7. (PendingInv /\ ReadsBackingStore)'
  BY <1>1, <1>2, <1>3 DEF PendingInv, ReadsBackingStore, Holds, tables
<1>8. QED
  BY <1>5, <1>6, <1>7 DEF IInv

LEMMA TLBMissInv ==
  ASSUME IInv, TLBMiss
  PROVE  IInv'
<1>1. TypeOK'
  BY DEF IInv, TypeOK, TLBMiss, tables
<1>2. (FramesExclusive /\ MemoryHoldsPages /\ TLBCoherent)'
  BY DEF IInv, FramesExclusive, MemoryHoldsPages, TLBCoherent, Holds, Cached, TLBMiss, tables
<1>3. (PendingInv /\ ReadsBackingStore)'
  BY DEF PendingInv, ReadsBackingStore, TLBMiss, Cached, tables
<1>4. QED
  BY <1>1, <1>2, <1>3 DEF IInv

\* After a page fault its page is in the next frame, and whoever was there is
\* nowhere.
LEMMA HoldsAfterFault ==
  ASSUME IInv, PageFault
  PROVE  \A q \in Pages, g \in Frames :
           Holds(q, g)' <=> \/ q = Page(logical) /\ g = next_frame
                            \/ q # Page(logical) /\ Holds(q, g) /\ g # next_frame
<1> DEFINE p == Page(logical)
<1>1. page_table' = Mapped(p, next_frame)
  BY DEF PageFault
<1>2. p \in Pages /\ next_frame \in Frames /\ TypeOK /\ FramesExclusive
  BY AddressParts DEF IInv, TypeOK
<1> HIDE DEF p
<1>3. Mapped(p, next_frame)[p] = [frameNumber |-> next_frame, valid |-> TRUE]
  BY <1>2, Remapped
<1>4. ASSUME NEW q \in Pages, NEW g \in Frames
      PROVE  Holds(q, g)' <=> \/ q = p /\ g = next_frame
                              \/ q # p /\ Holds(q, g) /\ g # next_frame
  <2>1. Holds(q, g)' <=> Mapped(p, next_frame)[q].valid
                           /\ Mapped(p, next_frame)[q].frameNumber = g
    BY <1>1 DEF Holds
  <2>2. QED
    BY <1>2, <1>3, <2>1, Remapped
<1>5. QED
  BY <1>4 DEF p

\* The page goes where the page table says, nobody else is there any more,
\* and the TLB says nothing.
LEMMA PageFaultInv ==
  ASSUME IInv, PageFault
  PROVE  IInv'
<1> DEFINE p == Page(logical)
<1>1. /\ pc = "fault" /\ pc' = "update" /\ logical' = logical
      /\ page_table' = Mapped(p, next_frame) /\ physical_memory' = PageIn(p, next_frame)
      /\ TLB' = EmptyTLB
  BY DEF PageFault
<1>2. /\ p \in Pages /\ next_frame \in Frames /\ TypeOK /\ FramesExclusive
      /\ ~ page_table[p].valid
  BY <1>1, AddressParts DEF IInv, TypeOK, PendingInv
<1> HIDE DEF p
<1>3. /\ Mapped(p, next_frame) \in [Pages -> [frameNumber : Frames, valid : BOOLEAN]]
      /\ Mapped(p, next_frame)[p] = [frameNumber |-> next_frame, valid |-> TRUE]
  BY <1>2, Remapped
<1>4. \A q \in Pages, g \in Frames :
        Holds(q, g)' <=> (q = p /\ g = next_frame) \/ (q # p /\ Holds(q, g) /\ g # next_frame)
  BY HoldsAfterFault DEF p
<1>5. TypeOK'
  <2>1. (next_frame + 1) % FRAME_NUM \in Frames
    BY <1>2, MemoryAssumption DEF Frames
  <2>2. EmptyTLB \in [Slots -> [pageNumber : Pages, frameNumber : Frames, valid : BOOLEAN]]
    BY Constants DEF EmptyTLB, NoTLBItem
  <2>3. PageIn(p, next_frame) \in [0 .. FRAME_NUM * PAGE_SIZE - 1 -> Bytes]
    BY <1>2, PagedIn
  <2>4. QED
    BY <1>1, <1>2, <1>3, <2>1, <2>2, <2>3, Constants DEF TypeOK, PageFault
<1>6. FramesExclusive'
  BY <1>2, <1>4 DEF FramesExclusive
<1>7. MemoryHoldsPages'
  <2>1. ASSUME NEW q \in Pages, NEW g \in Frames, NEW o \in Offsets, Holds(q, g)'
        PROVE  physical_memory'[At(g, o)] = BackingStore[At(q, o)]
    <3>1. physical_memory'[At(g, o)] = IF g = next_frame THEN BackingStore[At(p, o)]
                                       ELSE physical_memory[At(g, o)]
      BY <1>1, <1>2, PagedIn
    <3>2. CASE g = next_frame
      BY <1>4, <2>1, <3>1, <3>2
    <3>3. CASE g # next_frame
      BY <1>4, <2>1, <3>1, <3>3 DEF IInv, MemoryHoldsPages
    <3>4. QED
      BY <3>2, <3>3
  <2>2. QED
    BY <2>1 DEF MemoryHoldsPages
<1>8. TLBCoherent'
  BY <1>1 DEF TLBCoherent, EmptyTLB, NoTLBItem
<1>9. PendingInv'
  <2>1. page_table'[p].valid /\ \A i \in Slots : ~ TLB'[i].valid
    BY <1>1, <1>3 DEF EmptyTLB, NoTLBItem
  <2>2. Page(logical)' = p
    BY <1>1 DEF p
  <2>3. QED
    BY <1>1, <2>1, <2>2 DEF PendingInv, Cached
<1>10. ReadsBackingStore'
  BY <1>1 DEF ReadsBackingStore
<1>11. QED
  BY <1>5, <1>6, <1>7, <1>8, <1>9, <1>10 DEF IInv

\* The TLB takes over a page it does not have from the page table.
LEMMA UpdateTLBInv ==
  ASSUME IInv, UpdateTLB
  PROVE  IInv'
<1> DEFINE p == Page(logical)
           f == page_table[p].frameNumber
           item == [pageNumber |-> p, frameNumber |-> f, valid |-> TRUE]
<1>1. /\ pc = "update" /\ pc' = "access" /\ logical' = logical
      /\ TLB' = [TLB EXCEPT ![next_TLB_index] = item]
      /\ next_TLB_index' = (next_TLB_index + 1) % TLB_SIZE
      /\ physical' = At(f, Offset(logical))
      /\ UNCHANGED <<page_table, physical_memory, next_frame, counters, logical, value>>
  BY DEF UpdateTLB
<1>2. p \in Pages /\ Offset(logical) \in Offsets /\ f \in Frames /\ next_TLB_index \in Slots
  BY AddressParts DEF IInv, TypeOK
<1>3. Holds(p, f) /\ \A i \in Slots : ~ Cached(i, p)
  BY <1>1 DEF IInv, PendingInv, Holds
<1>4. TypeOK'
  <2>1. physical' \in 0 .. FRAME_NUM * PAGE_SIZE - 1
    BY <1>1, <1>2, InRange, Constants DEF Frames
  <2>2. next_TLB_index' \in Slots
    BY <1>1, <1>2, MemoryAssumption DEF Slots
  <2>3. TLB' \in [Slots -> [pageNumber : Pages, frameNumber : Frames, valid : BOOLEAN]]
    BY <1>1, <1>2 DEF IInv, TypeOK
  <2>4. QED
    BY <1>1, <2>1, <2>2, <2>3 DEF IInv, TypeOK, counters
<1>5. (FramesExclusive /\ MemoryHoldsPages)'
  BY <1>1 DEF IInv, FramesExclusive, MemoryHoldsPages, Holds
<1> HIDE DEF p, f, item
<1>6. TLBCoherent'
  <2>1. item.pageNumber = p /\ item.frameNumber = f /\ item.valid
    BY DEF item
  <2>2. \A i \in Slots : TLB'[i] = IF i = next_TLB_index THEN item ELSE TLB[i]
    BY <1>1 DEF IInv, TypeOK
  <2>3. ASSUME NEW i \in Slots, TLB'[i].valid
        PROVE  /\ Holds(TLB'[i].pageNumber, TLB'[i].frameNumber)
               /\ \A j \in Slots :
                    TLB'[j].valid /\ TLB'[j].pageNumber = TLB'[i].pageNumber => i = j
    <3>1. CASE i = next_TLB_index
      BY <1>2, <1>3, <2>1, <2>2, <3>1 DEF Cached
    <3>2. CASE i # next_TLB_index
      <4>1. TLB'[i] = TLB[i] /\ TLB[i].pageNumber # p
        BY <1>3, <2>2, <2>3, <3>2 DEF Cached
      <4>2. \A j \in Slots :
              TLB'[j].valid /\ TLB'[j].pageNumber = TLB[i].pageNumber => TLB'[j] = TLB[j]
        BY <2>1, <2>2, <4>1
      <4>3. QED
        BY <2>3, <4>1, <4>2 DEF IInv, TLBCoherent, Cached
    <3>3. QED
      BY <3>1, <3>2
  <2>4. QED
    BY <1>1, <2>3 DEF TLBCoherent, Holds, Cached
<1>7. PendingInv'
  BY <1>1, <1>2, <1>3 DEF PendingInv, Holds, p
<1>8. ReadsBackingStore'
  BY <1>1 DEF ReadsBackingStore
<1>9. QED
  BY <1>4, <1>5, <1>6, <1>7, <1>8 DEF IInv

\* The byte is read where the page is.
LEMMA AccessMemoryInv ==
  ASSUME IInv, AccessMemory
  PROVE  IInv'
<1>1. /\ pc = "access" /\ pc' = "scan" /\ value' = physical_memory[physical]
      /\ UNCHANGED <<tables, counters, logical, physical>>
  BY DEF AccessMemory
<1>2. Page(logical) \in Pages /\ Offset(logical) \in Offsets
  BY AddressParts DEF IInv, TypeOK
<1>3. value' = BackingStore[At(Page(logical), Offset(logical))]
  BY <1>1, <1>2 DEF IInv, PendingInv, MemoryHoldsPages
<1>4. TypeOK'
  BY <1>1 DEF IInv, TypeOK, tables, counters
<1>5. (FramesExclusive /\ MemoryHoldsPages /\ TLBCoherent)'
  BY <1>1 DEF IInv, FramesExclusive, MemoryHoldsPages, TLBCoherent, Holds, Cached, tables
<1>6. (PendingInv /\ ReadsBackingStore)'
  BY <1>1, <1>3 DEF PendingInv, ReadsBackingStore
<1>7. QED
  BY <1>4, <1>5, <1>6 DEF IInv

\* No step of the program leaves the invariant.
LEMMA NextInv == IInv /\ [Next]_vars => IInv'
<1> SUFFICES ASSUME IInv, [Next]_vars PROVE IInv'
  OBVIOUS
<1>1. CASE EndOfFile
  BY <1>1 DEF EndOfFile, IInv, TypeOK, FramesExclusive, MemoryHoldsPages, TLBCoherent,
              PendingInv, ReadsBackingStore, Holds, Cached, tables, counters
<1>2. CASE UNCHANGED vars
  BY <1>2 DEF vars, IInv, TypeOK, FramesExclusive, MemoryHoldsPages, TLBCoherent,
              PendingInv, ReadsBackingStore, Holds, Cached, tables, counters
<1>3. QED
  BY <1>1, <1>2, ScanAddressInv, TLBHitInv, TLBMissInv, PageFaultInv, UpdateTLBInv,
     AccessMemoryInv DEF Next, Terminated

\* The invariant holds throughout.
THEOREM Invariance == Spec => []IInv
BY InitInv, NextInv, PTL DEF Spec

\* Every variable has its type: no index leaves its array, for any sizes
\* (vm_manager.c:45-115).
THEOREM TypeCorrect == Spec => []TypeOK
<1>1. IInv => TypeOK
  BY DEF IInv
<1>2. QED
  BY <1>1, Invariance, PTL

\* No two pages are ever in one frame (vm_manager.c:85-92).
THEOREM NoSharedFrame == Spec => []FramesExclusive
<1>1. IInv => FramesExclusive
  BY DEF IInv
<1>2. QED
  BY <1>1, Invariance, PTL

\* The TLB never disagrees with the page table (vm_manager.c:51-60, 93-110).
THEOREM NoStaleTLB == Spec => []TLBCoherent
<1>1. IInv => TLBCoherent
  BY DEF IInv
<1>2. QED
  BY <1>1, Invariance, PTL

\* Whatever was put out and brought in before, the byte read is the one that
\* the backing store has (vm_manager.c:45-115).
THEOREM RightByte == Spec => []ReadsBackingStore
<1>1. IInv => ReadsBackingStore
  BY DEF IInv
<1>2. QED
  BY <1>1, Invariance, PTL

-----------------------------------------------------------------------------
(***************************************************************************)
(* The page table, the frames and the TLB together implement the paging of *)
(* DemandPaging.  Its queue of pages is read off the frames: they are      *)
(* filled in turn, so that either all of them are occupied and the page    *)
(* that came first is in the next frame, or just those before the next     *)
(* frame are.                                                              *)
(***************************************************************************)
\* The i-th frame that get_frame will hand out from now on.
Turn(i) == (next_frame + i - 1) % FRAME_NUM

LEMMA TurnValue ==
  ASSUME next_frame \in Frames, NEW i \in 1 .. FRAME_NUM
  PROVE  /\ Turn(i) = IF next_frame + i <= FRAME_NUM THEN next_frame + i - 1
                      ELSE next_frame + i - 1 - FRAME_NUM
         /\ Turn(i) \in Frames
BY MemoryAssumption DEF Turn, Frames

\* A page fault fills the next frame and empties none.
LEMMA OccupiedAfterFault ==
  ASSUME IInv, PageFault, NEW g \in Frames
  PROVE  Occupied(g)' <=> g = next_frame \/ Occupied(g)
<1> DEFINE p == Page(logical)
<1>1. p \in Pages /\ ~ page_table[p].valid
  BY AddressParts DEF IInv, TypeOK, PendingInv, PageFault
<1>2. \A q \in Pages :
        Holds(q, g)' <=> (q = p /\ g = next_frame) \/ (q # p /\ Holds(q, g) /\ g # next_frame)
  BY HoldsAfterFault
<1>3. ~ Holds(p, g)
  BY <1>1 DEF Holds
<1> HIDE DEF p
<1>4. Occupied(g)' <=> \E q \in Pages : Holds(q, g)'
  BY DEF Occupied
<1>5. QED
  BY <1>1, <1>2, <1>3, <1>4 DEF Occupied

LEMMA FilledInit == Init => FilledInTurn
BY Constants DEF Init, FilledInTurn, Occupied, Holds, NoPage, Frames

\* Frames are filled in turn.
LEMMA FilledNext == IInv /\ FilledInTurn /\ [Next]_vars => FilledInTurn'
<1> SUFFICES ASSUME IInv, FilledInTurn, [Next]_vars PROVE FilledInTurn'
  OBVIOUS
<1>1. CASE PageFault
  <2>1. next_frame \in Frames /\ next_frame' = (next_frame + 1) % FRAME_NUM
    BY <1>1 DEF IInv, TypeOK, PageFault
  <2>2. next_frame' = IF next_frame + 1 = FRAME_NUM THEN 0 ELSE next_frame + 1
    BY <2>1, MemoryAssumption DEF Frames
  <2>3. \A g \in Frames : Occupied(g)' <=> g = next_frame \/ Occupied(g)
    BY <1>1, OccupiedAfterFault
  <2>4. CASE Full
    BY <2>3, <2>4 DEF Full, FilledInTurn
  <2>5. CASE ~ Full
    <3>1. \A g \in Frames : Occupied(g) <=> g < next_frame
      BY <2>5 DEF FilledInTurn
    <3>2. \A g \in Frames : Occupied(g)' <=> g <= next_frame
      BY <2>1, <2>3, <3>1, Constants DEF Frames
    <3>3. CASE next_frame + 1 = FRAME_NUM
      <4>1. \A g \in Frames : Occupied(g)'
        BY <2>1, <3>2, <3>3 DEF Frames
      <4>2. QED
        BY <4>1 DEF Full, FilledInTurn
    <3>4. CASE next_frame + 1 # FRAME_NUM
      <4>1. \A g \in Frames : Occupied(g)' <=> g < next_frame'
        BY <2>1, <2>2, <3>2, <3>4 DEF Frames
      <4>2. QED
        BY <4>1 DEF FilledInTurn
    <3>5. QED
      BY <3>3, <3>4
  <2>6. QED
    BY <2>4, <2>5
<1>2. CASE UNCHANGED <<page_table, next_frame>>
  BY <1>2 DEF FilledInTurn, Full, Occupied, Holds
<1>3. PageFault \/ UNCHANGED <<page_table, next_frame>>
  BY DEF Next, ScanAddress, TLBHit, TLBMiss, UpdateTLB, AccessMemory, EndOfFile, Terminated,
         vars, tables
<1>4. QED
  BY <1>1, <1>2, <1>3

LEMMA Filled == Spec => [](IInv /\ FilledInTurn)
<1>1. Spec => []FilledInTurn
  BY FilledInit, FilledNext, Invariance, PTL DEF Spec
<1>2. QED
  BY <1>1, Invariance, PTL

\* Resident is a sequence of pages, each in the frame whose turn it is.
ResidentInv ==
  /\ Resident \in Seq(Pages)
  /\ Full => /\ Len(Resident) = FRAME_NUM
             /\ \A i \in 1 .. FRAME_NUM : Holds(Resident[i], Turn(i))
  /\ ~ Full => /\ Len(Resident) = next_frame
               /\ \A i \in 1 .. next_frame : Holds(Resident[i], i - 1)

LEMMA OccupantFacts ==
  ASSUME NEW f, Occupied(f)
  PROVE  Occupant(f) \in Pages /\ Holds(Occupant(f), f)
BY DEF Occupied, Occupant

LEMMA ResidentFacts == IInv /\ FilledInTurn => ResidentInv
<1> SUFFICES ASSUME IInv, FilledInTurn PROVE ResidentInv
  OBVIOUS
<1>1. next_frame \in Frames /\ next_frame \in Nat /\ FRAME_NUM \in Nat
  BY Constants DEF IInv, TypeOK
<1>2. CASE Full
  <2>1. \A i \in 1 .. FRAME_NUM : Occupant(Turn(i)) \in Pages /\ Holds(Occupant(Turn(i)), Turn(i))
    BY <1>1, <1>2, TurnValue, OccupantFacts DEF Full
  <2>2. Resident = [i \in 1 .. FRAME_NUM |-> Occupant(Turn(i))]
    BY <1>2 DEF Resident, Turn
  <2>3. QED
    BY <1>1, <1>2, <2>1, <2>2 DEF ResidentInv
<1>3. CASE ~ Full
  <2>1. \A i \in 1 .. next_frame : Occupied(i - 1)
    BY <1>1, <1>3 DEF FilledInTurn, Frames
  <2>2. \A i \in 1 .. next_frame : Occupant(i - 1) \in Pages /\ Holds(Occupant(i - 1), i - 1)
    BY <2>1, OccupantFacts
  <2>3. Resident = [i \in 1 .. next_frame |-> Occupant(i - 1)]
    BY <1>3 DEF Resident
  <2>4. QED
    BY <1>1, <1>3, <2>2, <2>3 DEF ResidentInv
<1>4. QED
  BY <1>2, <1>3

\* The pages of Resident are those that the page table has.
LEMMA ResidentPages ==
  ASSUME IInv, FilledInTurn, NEW p \in Pages
  PROVE  Paging!InMemory(p) <=> page_table[p].valid
<1>1. /\ ResidentInv /\ next_frame \in Frames /\ next_frame \in Nat
      /\ page_table \in [Pages -> [frameNumber : Frames, valid : BOOLEAN]]
      /\ DOMAIN Resident = 1 .. Len(Resident)
  BY ResidentFacts, Constants DEF IInv, TypeOK, ResidentInv
<1>2. ASSUME NEW i \in DOMAIN Resident, Resident[i] = p
      PROVE  page_table[p].valid
  BY <1>1, <1>2 DEF ResidentInv, Holds
<1>3. ASSUME page_table[p].valid
      PROVE  \E i \in DOMAIN Resident : Resident[i] = p
  <2>1. PICK f \in Frames : Holds(p, f)
    BY <1>1, <1>3 DEF Holds
  <2>2. Occupied(f)
    BY <2>1 DEF Occupied
  <2>3. ASSUME NEW i \in DOMAIN Resident, Holds(Resident[i], f)
        PROVE  Resident[i] = p
    <3>1. Resident[i] \in Pages
      BY <1>1, ElementOfSeq DEF ResidentInv
    <3>2. QED
      BY <2>1, <2>3, <3>1 DEF IInv, FramesExclusive
  <2>4. CASE Full
    <3>1. PICK i \in 1 .. FRAME_NUM : Turn(i) = f
      <4> DEFINE i == IF f >= next_frame THEN f - next_frame + 1
                      ELSE f - next_frame + 1 + FRAME_NUM
      <4>1. /\ i \in 1 .. FRAME_NUM
            /\ i = IF f >= next_frame THEN f - next_frame + 1
                   ELSE f - next_frame + 1 + FRAME_NUM
        BY <1>1, MemoryAssumption DEF Frames
      <4> HIDE DEF i
      <4>2. Turn(i) = f
        BY <1>1, <4>1, TurnValue, MemoryAssumption DEF Frames
      <4>3. QED
        BY <4>1, <4>2
    <3>2. i \in DOMAIN Resident /\ Holds(Resident[i], f)
      BY <1>1, <2>4, <3>1 DEF ResidentInv
    <3>3. QED
      BY <2>3, <3>2
  <2>5. CASE ~ Full
    <3>1. f + 1 \in 1 .. next_frame /\ (f + 1) - 1 = f
      BY <1>1, <2>2, <2>5 DEF FilledInTurn, Frames
    <3>2. f + 1 \in DOMAIN Resident /\ Holds(Resident[f + 1], f)
      BY <1>1, <2>5, <3>1 DEF ResidentInv
    <3>3. QED
      BY <2>3, <3>2
  <2>6. QED
    BY <2>4, <2>5
<1>4. QED
  BY <1>2, <1>3 DEF Paging!InMemory

\* Once memory is full, a page fault takes the first page out of the queue and
\* puts the new one at its end.
LEMMA LoadWhenFull ==
  ASSUME IInv, FilledInTurn, PageFault, Full, IInv', FilledInTurn'
  PROVE  Resident' = Append(Tail(Resident), Page(logical)) /\ Len(Resident) = FRAME_NUM
<1> DEFINE p == Page(logical)
           s == Append(Tail(Resident), p)
<1>1. /\ p \in Pages /\ next_frame \in Frames /\ next_frame' \in Frames
      /\ FRAME_NUM \in Nat \ {0} /\ next_frame' = (next_frame + 1) % FRAME_NUM
      /\ ~ page_table[p].valid
  BY AddressParts, MemoryAssumption DEF IInv, TypeOK, PageFault, PendingInv
<1>2. Full'
  <2>1. \A g \in Frames : Occupied(g)'
    BY OccupiedAfterFault DEF Full
  <2>2. QED
    BY <2>1 DEF Full
<1>3. ResidentInv /\ ResidentInv'
  <2>1. ResidentInv'
    BY ResidentFacts, PTL
  <2>2. QED
    BY <2>1, ResidentFacts
<1>4. /\ Resident \in Seq(Pages) /\ Len(Resident) = FRAME_NUM
      /\ \A i \in 1 .. FRAME_NUM : Holds(Resident[i], Turn(i)) /\ Resident[i] \in Pages
  BY <1>3 DEF ResidentInv
<1>5. /\ Resident' \in Seq(Pages) /\ Len(Resident') = FRAME_NUM
      /\ \A i \in 1 .. FRAME_NUM : Holds(Resident[i], Turn(i))' /\ Resident'[i] \in Pages
  BY <1>2, <1>3 DEF ResidentInv
<1> HIDE DEF p
<1>6. /\ s \in Seq(Pages) /\ Len(s) = FRAME_NUM
      /\ \A i \in 1 .. FRAME_NUM - 1 : s[i] = Resident[i + 1]
      /\ s[FRAME_NUM] = p
  <2>1. Resident # << >>
    BY <1>1, <1>4
  <2>2. /\ Tail(Resident) \in Seq(Pages) /\ Len(Tail(Resident)) = FRAME_NUM - 1
        /\ \A i \in 1 .. FRAME_NUM - 1 : Tail(Resident)[i] = Resident[i + 1]
    BY <1>4, <2>1, HeadTailProperties
  <2>3. QED
    BY <1>1, <2>2, AppendProperties
<1> HIDE DEF s
<1>7. ASSUME NEW i \in 1 .. FRAME_NUM
      PROVE  Resident'[i] = s[i]
  <2>1. Turn(i)' = IF i = FRAME_NUM THEN next_frame ELSE Turn(i + 1)
    <3>1. Turn(i)' = (next_frame' + i - 1) % FRAME_NUM
      BY DEF Turn
    <3>2. (next_frame' + i - 1) % FRAME_NUM = IF next_frame' + i <= FRAME_NUM
                                              THEN next_frame' + i - 1
                                              ELSE next_frame' + i - 1 - FRAME_NUM
      <4>1. PICK n \in Frames : n = next_frame'
        BY <1>1
      <4>2. (n + i - 1) % FRAME_NUM = IF n + i <= FRAME_NUM THEN n + i - 1
                                      ELSE n + i - 1 - FRAME_NUM
        BY MemoryAssumption DEF Frames
      <4>3. QED
        BY <4>1, <4>2
    <3>3. next_frame' = IF next_frame + 1 = FRAME_NUM THEN 0 ELSE next_frame + 1
      BY <1>1, MemoryAssumption DEF Frames
    <3>4. i # FRAME_NUM => Turn(i + 1) = IF next_frame + (i + 1) <= FRAME_NUM
                                         THEN next_frame + (i + 1) - 1
                                         ELSE next_frame + (i + 1) - 1 - FRAME_NUM
      BY <1>1, TurnValue
    <3>5. QED
      BY <1>1, <3>1, <3>2, <3>3, <3>4, MemoryAssumption DEF Frames
  <2>2. PICK g \in Frames : g = Turn(i)'
    <3>1. i # FRAME_NUM => Turn(i + 1) \in Frames
      BY <1>1, TurnValue
    <3>2. QED
      BY <1>1, <2>1, <3>1
  <2>3. PICK y \in Pages : y = Resident'[i]
    BY <1>5
  <2>4. PICK x \in Pages : x = s[i]
    BY <1>6, ElementOfSeq
  <2>5. Holds(y, g)'
    BY <1>5, <2>2, <2>3 DEF Holds
  <2>6. Holds(x, g)'
    <3>1. CASE i = FRAME_NUM
      BY <1>1, <1>6, <2>1, <2>2, <2>4, <3>1, HoldsAfterFault DEF p
    <3>2. CASE i # FRAME_NUM
      <4>1. i + 1 \in 1 .. FRAME_NUM /\ x = Resident[i + 1] /\ g = Turn(i + 1)
        BY <1>6, <2>1, <2>2, <2>4, <3>2
      <4>2. Holds(x, g) /\ x # p
        BY <1>1, <1>4, <4>1 DEF Holds
      <4>3. g # next_frame
        BY <1>1, <3>2, <4>1, TurnValue DEF Frames
      <4>4. QED
        BY <4>2, <4>3, HoldsAfterFault DEF p
    <3>3. QED
      BY <3>1, <3>2
  <2>7. FramesExclusive'
    BY DEF IInv
  <2>8. x = y
    BY <2>5, <2>6, <2>7 DEF FramesExclusive
  <2>9. QED
    BY <2>3, <2>4, <2>8
<1>8. QED
  BY <1>4, <1>5, <1>6, <1>7, SeqEqual DEF s, p

\* Before memory is full, it only puts the new one at the end.
LEMMA LoadWhenNotFull ==
  ASSUME IInv, FilledInTurn, PageFault, ~ Full, IInv', FilledInTurn'
  PROVE  Resident' = Append(Resident, Page(logical)) /\ Len(Resident) # FRAME_NUM
<1> DEFINE p == Page(logical)
           n == next_frame
           s == Append(Resident, p)
<1>1. /\ p \in Pages /\ n \in Frames /\ n \in Nat /\ n < FRAME_NUM
      /\ next_frame' = IF n + 1 = FRAME_NUM THEN 0 ELSE n + 1
      /\ ~ page_table[p].valid /\ FRAME_NUM \in Nat
  <2>1. p \in Pages /\ n \in Frames /\ ~ page_table[p].valid /\ next_frame' = (n + 1) % FRAME_NUM
    BY AddressParts DEF IInv, TypeOK, PageFault, PendingInv
  <2>2. QED
    BY <2>1, MemoryAssumption DEF Frames
<1>2. \A g \in Frames : Occupied(g)' <=> g <= n
  <2>1. \A g \in Frames : Occupied(g) <=> g < n
    BY DEF FilledInTurn
  <2>2. \A g \in Frames : Occupied(g)' <=> g = n \/ Occupied(g)
    BY OccupiedAfterFault
  <2>3. QED
    BY <1>1, <2>1, <2>2, Constants
<1>3. ResidentInv /\ ResidentInv'
  <2>1. ResidentInv'
    BY ResidentFacts, PTL
  <2>2. QED
    BY <2>1, ResidentFacts
<1>4. /\ Resident \in Seq(Pages) /\ Len(Resident) = n
      /\ \A i \in 1 .. n : Holds(Resident[i], i - 1)
  BY <1>3 DEF ResidentInv
<1>5. /\ Resident' \in Seq(Pages) /\ Len(Resident') = n + 1
      /\ \A i \in 1 .. n + 1 : Holds(Resident[i], i - 1)'
  <2>1. CASE n + 1 = FRAME_NUM
    <3>1. Full'
      <4>1. \A g \in Frames : Occupied(g)'
        BY <1>1, <1>2, <2>1 DEF Frames
      <4>2. QED
        BY <4>1 DEF Full
    <3>2. \A i \in 1 .. n + 1 : Turn(i)' = i - 1
      <4> TAKE i \in 1 .. n + 1
      <4>1. Turn(i)' = (0 + i - 1) % FRAME_NUM
        BY <1>1, <2>1 DEF Turn
      <4>2. (0 + i - 1) % FRAME_NUM = i - 1
        BY <1>1, <2>1, MemoryAssumption
      <4>3. QED
        BY <4>1, <4>2
    <3>3. \A i \in 1 .. FRAME_NUM : Holds(Resident[i], Turn(i))'
      BY <1>3, <3>1 DEF ResidentInv
    <3>4. \A i \in 1 .. n + 1 : Holds(Resident[i], i - 1)'
      BY <2>1, <3>2, <3>3 DEF Holds
    <3>5. QED
      BY <1>3, <2>1, <3>1, <3>4 DEF ResidentInv
  <2>2. CASE n + 1 # FRAME_NUM
    <3>1. ~ Full'
      <4>1. PICK g \in Frames : g = n + 1
        BY <1>1, <2>2 DEF Frames
      <4>2. ~ Occupied(g)'
        BY <1>1, <1>2, <4>1
      <4>3. QED
        BY <4>2 DEF Full
    <3>2. QED
      BY <1>1, <1>3, <2>2, <3>1 DEF ResidentInv
  <2>3. QED
    BY <2>1, <2>2
<1> HIDE DEF p
<1>6. /\ s \in Seq(Pages) /\ Len(s) = n + 1 /\ s[n + 1] = p
      /\ \A i \in 1 .. n : s[i] = Resident[i]
  BY <1>1, <1>4, AppendProperties
<1> HIDE DEF s
<1>7. ASSUME NEW i \in 1 .. n + 1
      PROVE  Resident'[i] = s[i]
  <2>1. PICK g \in Frames : g = i - 1
    BY <1>1 DEF Frames
  <2>2. PICK y \in Pages : y = Resident'[i]
    BY <1>5, ElementOfSeq
  <2>3. PICK x \in Pages : x = s[i]
    BY <1>6, ElementOfSeq
  <2>4. Holds(y, g)'
    BY <1>5, <2>1, <2>2 DEF Holds
  <2>5. Holds(x, g)'
    <3>1. CASE i = n + 1
      BY <1>1, <1>6, <2>1, <2>3, <3>1, HoldsAfterFault DEF p
    <3>2. CASE i # n + 1
      <4>1. i \in 1 .. n /\ x = Resident[i] /\ g # n
        BY <1>1, <1>6, <2>1, <2>3, <3>2
      <4>2. Holds(x, g) /\ x # p
        BY <1>1, <1>4, <2>1, <4>1 DEF Holds
      <4>3. QED
        BY <4>1, <4>2, HoldsAfterFault DEF p
    <3>3. QED
      BY <3>1, <3>2
  <2>6. FramesExclusive'
    BY DEF IInv
  <2>7. x = y
    BY <2>4, <2>5, <2>6 DEF FramesExclusive
  <2>8. QED
    BY <2>2, <2>3, <2>7
<1>8. QED
  BY <1>1, <1>4, <1>5, <1>6, <1>7, SeqEqual DEF s, p

\* A page fault is the loading of the page that is wanted.
LEMMA PageFaultRefined ==
  ASSUME IInv, FilledInTurn, PageFault, IInv', FilledInTurn'
  PROVE  Paging!Load
<1>1. /\ pc = "fault" /\ pc' = "update" /\ page_fault_cnt' = page_fault_cnt + 1
      /\ UNCHANGED <<logical, value>>
  BY DEF PageFault
<1>2. ~ Paging!InMemory(Page(logical))
  <2>1. Page(logical) \in Pages /\ ~ page_table[Page(logical)].valid
    BY <1>1, AddressParts DEF IInv, TypeOK, PendingInv
  <2>2. QED
    BY <2>1, ResidentPages
<1>3. Resident' = Append(IF Len(Resident) = FRAME_NUM THEN Tail(Resident) ELSE Resident,
                         Page(logical))
  BY LoadWhenFull, LoadWhenNotFull
<1>4. (pc' \notin {"scan", "done"}) = (pc \notin {"scan", "done"}) /\ pc \notin {"scan", "done"}
  BY <1>1
<1>5. QED
  BY <1>1, <1>2, <1>3, <1>4 DEF Paging!Load

\* A byte is read when its page is in memory, whichever way it was found.
LEMMA AccessMemoryRefined ==
  ASSUME IInv, FilledInTurn, AccessMemory
  PROVE  Paging!Answer
<1>1. /\ pc = "access" /\ pc' = "scan" /\ value' = physical_memory[physical]
      /\ UNCHANGED <<page_table, next_frame, page_fault_cnt, logical>>
  BY DEF AccessMemory, tables, counters
<1>2. Page(logical) \in Pages /\ Offset(logical) \in Offsets
  BY AddressParts DEF IInv, TypeOK
<1>3. value' = StoredByte(logical)
  BY <1>1, <1>2 DEF IInv, PendingInv, MemoryHoldsPages, StoredByte
<1>4. Paging!InMemory(Page(logical))
  <2>1. page_table[Page(logical)].valid
    BY <1>1 DEF IInv, PendingInv, Holds
  <2>2. QED
    BY <1>2, <2>1, ResidentPages
<1>5. Resident' = Resident
  BY <1>1 DEF Resident, Full, Occupied, Occupant, Holds
<1>6. QED
  BY <1>1, <1>3, <1>4, <1>5 DEF Paging!Answer

LEMMA NextRefined ==
  IInv /\ FilledInTurn /\ IInv' /\ FilledInTurn' /\ [Next]_vars => [Paging!Next]_(Paging!pagingVars)
<1> SUFFICES ASSUME IInv, FilledInTurn, IInv', FilledInTurn', [Next]_vars
             PROVE  [Paging!Next]_(Paging!pagingVars)
  OBVIOUS
<1>1. UNCHANGED <<page_table, next_frame>> => Resident' = Resident
  BY DEF Resident, Full, Occupied, Occupant, Holds
<1>2. ASSUME NEW a \in LogicalAddresses, ScanAddress(a)
      PROVE  [Paging!Next]_(Paging!pagingVars)
  <2>1. Paging!Ask(a)
    BY <1>1, <1>2 DEF ScanAddress, tables, Paging!Ask
  <2>2. QED
    BY <2>1 DEF Paging!Next
<1>3. CASE \/ \E i \in Slots : TLBHit(i)
           \/ TLBMiss \/ UpdateTLB \/ EndOfFile \/ UNCHANGED vars
  <2>1. /\ UNCHANGED <<page_table, next_frame, page_fault_cnt, logical, value>>
        /\ (pc' \notin {"scan", "done"}) = (pc \notin {"scan", "done"})
    BY <1>3 DEF TLBHit, TLBMiss, UpdateTLB, EndOfFile, vars, tables, counters
  <2>2. QED
    BY <1>1, <2>1 DEF Paging!pagingVars
<1>4. CASE PageFault
  BY <1>4, PageFaultRefined DEF Paging!Next
<1>5. CASE AccessMemory
  BY <1>5, AccessMemoryRefined DEF Paging!Next
<1>6. QED
  BY <1>2, <1>3, <1>4, <1>5 DEF Next, Terminated

LEMMA InitRefined == Init => Paging!Init
<1> SUFFICES ASSUME Init PROVE Paging!Init
  OBVIOUS
<1>1. ~ Full /\ next_frame = 0
  BY Constants DEF Init, Full, Occupied, Holds, NoPage
<1>2. Resident = << >>
  BY <1>1 DEF Resident
<1>3. QED
  BY <1>2, MemoryAssumption DEF Init, Paging!Init

\* The virtual memory is a first-in-first-out memory of FRAME_NUM pages that
\* gives the bytes of the backing store: the TLB adds no page fault and hides
\* none (vm_manager.c:45-115).
THEOREM PagingImplemented == Spec => ImplementsPaging
<1>1. Spec => [](IInv /\ FilledInTurn)
  BY Filled
<1>2. QED
  BY <1>1, InitRefined, NextRefined, PTL DEF Spec, ImplementsPaging, Paging!Spec

=============================================================================
