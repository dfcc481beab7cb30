---------------------------- MODULE MCVirtualMemory ----------------------------
(* The values the configurations give to the parameters of VirtualMemory. *)
EXTENDS VirtualMemory

\* Every byte differs from every other and from cleared memory.
DistinctBytes == [i \in 0 .. PAGE_NUM * PAGE_SIZE - 1 |-> i + 1]

\* The first byte of every page, a second byte, and an address behind the last page.
FirstBytesAndBeyond == {p * PAGE_SIZE : p \in 0 .. PAGE_NUM} \cup {1}
=============================================================================
