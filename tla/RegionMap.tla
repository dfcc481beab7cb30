------------------------------- MODULE RegionMap -------------------------------
(***************************************************************************)
(* What the allocator of Project7 promises: memory is a row of regions,    *)
(* each unused or of a process, and each beginning where the one before it *)
(* ends.  A request takes the front of an unused region that is large      *)
(* enough; a release gives back all regions of a process at once, and what *)
(* is unused side by side is one region.                                   *)
(***************************************************************************)
EXTENDS Integers, Sequences

CONSTANTS
  memorySize,
  Names, Unused,
  Grants                \* the sizes a request may be given

VARIABLE regions        \* a sequence of [name, begin]

Region(name, begin) == [name |-> name, begin |-> begin]

EndOf(row, n) == IF n = Len(row) THEN memorySize ELSE row[n + 1].begin
Size(row, n)  == EndOf(row, n) - row[n].begin

\* The front of region n given to the process, the rest, if any, unused.
Taken(row, n, name, size) ==
  LET rest == IF Size(row, n) = size THEN << >>
              ELSE <<Region(Unused, row[n].begin + size)>>
  IN  SubSeq(row, 1, n - 1) \o <<Region(name, row[n].begin)>> \o rest
        \o SubSeq(row, n + 1, Len(row))

Rows == Seq([name : Names \cup {Unused}, begin : Nat])

\* The row with nothing of the process any more.
Freed(name) ==
  [row \in Rows |->
     [n \in DOMAIN row |-> IF row[n].name = name THEN Region(Unused, row[n].begin) ELSE row[n]]]

\* The row with every run of unused regions made one.
Coalesced[row \in Rows] ==
  LET Begins(n) == n > 1 => ~ (row[n].name = Unused /\ row[n - 1].name = Unused)
      upTo[n \in 0 .. Len(row)] ==
        IF n = 0 THEN << >>
        ELSE IF Begins(n) THEN Append(upTo[n - 1], row[n]) ELSE upTo[n - 1]
  IN  upTo[Len(row)]

Init == regions = <<Region(Unused, 0)>>

Allocate(name, size) ==
  \E n \in DOMAIN regions :
    /\ regions[n].name = Unused /\ Size(regions, n) >= size
    /\ regions' = Taken(regions, n, name, size)

Release(name) == regions' = Coalesced[Freed(name)[regions]]

Next == \E name \in Names : Release(name) \/ \E size \in Grants : Allocate(name, size)

Spec == Init /\ [][Next]_regions

=============================================================================
