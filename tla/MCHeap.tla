-------------------------------- MODULE MCHeap --------------------------------
(* Instance of Heap for TLC.                                                *)
EXTENDS HeapBounded
MCSizes == {0, 1, 5, 12}
MCCounts == {2}
=============================================================================
