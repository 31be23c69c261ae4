------------------------------ MODULE MCHeapWrap ------------------------------
(* Instance of Heap for TLC with a size so large that rounding it up wraps. *)
EXTENDS Heap
MCWrapSizes == {1, WORD - 1}
MCCounts == {2}
=============================================================================
