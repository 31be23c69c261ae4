------------------------------ MODULE HeapBounded ------------------------------
(***************************************************************************)
(* Heap with the sizes a client may ask for kept where the 32-bit sums of  *)
(* kmalloc and extend_heap_to_fit do not wrap, and the heap's limits where *)
(* kmalloc_init and the Makefile's image put them.                         *)
(***************************************************************************)
EXTENDS Heap

\* align_up(size, 8), + header_size and align_up(.., PAGE_SIZE) stay below WORD.
Representable(size) ==
  size + ALLOC_ALIGN + header_size + min_split_payload + PAGE_SIZE <= WORD

ASSUME NoWrap ==
  /\ \A size \in Sizes : Representable(size)
  /\ \A count \in Counts, size \in Sizes :
       Representable(count * size) \/ count * size >= WORD

ASSUME HeapLimits ==
  /\ HEAP_VIRT_LIMIT + PAGE_SIZE + header_size <= WORD
  /\ HEAP_VIRT_LIMIT >= IDENTITY_MAP_LIMIT
  /\ IDENTITY_MAP_LIMIT % PAGE_SIZE = 0 /\ HEAP_VIRT_LIMIT % PAGE_SIZE = 0

\* The first page table covers the identity map and the pool the whole heap.
ASSUME HeapTables ==
  /\ IDENTITY_MAP_LIMIT <= PAGE_ENTRIES * PAGE_SIZE
  /\ HEAP_VIRT_LIMIT <= PAGE_TABLE_POOL_COUNT * PAGE_ENTRIES * PAGE_SIZE
  /\ PAGE_TABLE_POOL_COUNT <= PAGE_ENTRIES
=============================================================================
