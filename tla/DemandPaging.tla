----------------------------- MODULE DemandPaging -----------------------------
(***************************************************************************)
(* What the virtual memory of Project8 promises: every address that is     *)
(* read gives the byte of the backing store, and a page that is not in     *)
(* memory is brought in when it is wanted, at the cost of the page that    *)
(* has been there longest once memory is full.  There is no TLB, no page   *)
(* table and no frame here.                                                *)
(***************************************************************************)
EXTENDS Integers, Sequences

CONSTANTS
  Capacity,             \* how many pages memory can hold
  Addresses,
  PageOf(_), Byte(_)    \* the page of an address, and what is stored there

VARIABLES
  resident,             \* the pages in memory, in the order they came in
  faults,
  wanted,               \* the address that is being read
  reading,
  value                 \* what was last read

pagingVars == <<resident, faults, wanted, reading, value>>

InMemory(p) == \E i \in DOMAIN resident : resident[i] = p

Init ==
  /\ resident = << >> /\ faults = 0
  /\ reading = FALSE /\ wanted \in Addresses /\ value = 0

Ask(a) ==
  /\ ~ reading
  /\ reading' = TRUE /\ wanted' = a
  /\ UNCHANGED <<resident, faults, value>>

Load ==
  /\ reading /\ ~ InMemory(PageOf(wanted))
  /\ resident' = Append(IF Len(resident) = Capacity THEN Tail(resident)
                        ELSE resident,
                        PageOf(wanted))
  /\ faults' = faults + 1
  /\ UNCHANGED <<wanted, reading, value>>

Answer ==
  /\ reading /\ InMemory(PageOf(wanted))
  /\ value' = Byte(wanted)
  /\ reading' = FALSE
  /\ UNCHANGED <<resident, faults, wanted>>

Next == (\E a \in Addresses : Ask(a)) \/ Load \/ Answer

Spec == Init /\ [][Next]_pagingVars

=============================================================================
