SPECIFICATION Spec
CONSTANTS
  PAGE_SIZE = 8
  PAGE_ENTRIES = 3
  PAGE_TABLE_POOL_COUNT = 2
  WORD = 64
  ALLOC_ALIGN = 2
  SIZEOF_HEAPBLOCK = 3
  KERNEL_END = 1
  IDENTITY_MAP_LIMIT = 16
  HEAP_VIRT_LIMIT = 32
  Sizes <- MCSizes
  Counts <- MCCounts
INVARIANTS TypeOK HeapInv FreedPointersRejected HeapAccounted HeapPagesMapped
PROPERTIES OnlyShrinkingFragments ImplementsAllocator
