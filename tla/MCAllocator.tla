------------------------------ MODULE MCAllocator ------------------------------
(* The values the configurations give to the parameters of Allocator. *)
EXTENDS Allocator

\* Below zero and huge as a size_t, zero, rounded up, whole pages.
SizesEntered == {-5, 0, 3, 8}
=============================================================================
