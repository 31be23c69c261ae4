--------------------------------- MODULE Heap ---------------------------------
(***************************************************************************)
(* The kernel heap of src/modules/memory/memory.cpp: a first-fit allocator *)
(* over a doubly linked list of blocks, whose headers lie in the memory    *)
(* they describe, growing page by page through map_page.                   *)
(*                                                                         *)
(* Addresses and sizes are numbers, and the 32-bit arithmetic that can     *)
(* wrap is taken modulo WORD.  What is kept of the heap's memory is where  *)
(* it reads as a block header: a header stays readable after its block was *)
(* absorbed by a neighbour, until another header or an allocation covers   *)
(* it.  The contents of allocated memory belong to the client and are not  *)
(* modelled.  Each call runs to its end before the next: nothing in the    *)
(* kernel calls the allocator from an interrupt handler.                   *)
(***************************************************************************)
EXTENDS PageTables, FiniteSetsExt

CONSTANTS
  WORD,                \* 2^32: the values of a uint32_t are 0 .. WORD - 1
  ALLOC_ALIGN,         \* every size is rounded up to a multiple of this
  SIZEOF_HEAPBLOCK,    \* sizeof(HeapBlock)
  KERNEL_END,          \* where the kernel image ends
  IDENTITY_MAP_LIMIT,  \* the heap's end until it first grows
  HEAP_VIRT_LIMIT,     \* the heap does not grow from here on
  Sizes, Counts        \* the arguments of the client's calls

ASSUME HeapAssumption ==
  /\ WORD \in Nat \ {0} /\ ALLOC_ALIGN \in Nat \ {0}
  /\ SIZEOF_HEAPBLOCK \in Nat \ {0} /\ KERNEL_END \in Nat \ {0}
  /\ IDENTITY_MAP_LIMIT \in Nat /\ HEAP_VIRT_LIMIT \in Nat
  /\ SIZEOF_HEAPBLOCK + ALLOC_ALIGN <= WORD
  /\ KERNEL_END + ALLOC_ALIGN <= WORD
  /\ Sizes \subseteq Nat /\ Counts \subseteq Nat

VARIABLES
  blocks,             \* address -> the HeapBlock that reads there
  g_heap_mapped_end,
  g_next_free_phys,
  vm,                 \* the page tables (PageTables.tla)
  live,               \* pointers the client holds -> bytes it asked for
  freed               \* pointers it has freed, until their memory is reused

vars == <<blocks, g_heap_mapped_end, g_next_free_phys, vm, live, freed>>

Null == 0

HeapBlock == [size: Nat, free: BOOLEAN, prev: Nat, next: Nat]

-----------------------------------------------------------------------------

\* (value + alignment - 1) & ~(alignment - 1), on uint32_t
align_up(value, alignment) ==
  LET bumped == (value + alignment - 1) % WORD IN bumped - (bumped % alignment)

header_size == align_up(SIZEOF_HEAPBLOCK, ALLOC_ALIGN)
min_split_payload == ALLOC_ALIGN
g_heap_start == align_up(KERNEL_END, ALLOC_ALIGN)

\* kmalloc_init leaves g_heap_head null when the kernel image is too large.
HeapFits == g_heap_start + header_size + min_split_payload < IDENTITY_MAP_LIMIT
g_heap_head == IF HeapFits THEN g_heap_start ELSE Null

BlockEnd(m, b) == b + header_size + m[b].size

\* The blocks a loop "while (block) ... block = block->next" from g_heap_head
\* comes to when it returns at the first block of stop.
Visited(m, stop) ==
  LET Closed == {S \in SUBSET DOMAIN m :
                   /\ g_heap_head \in S
                   /\ \A b \in S \ stop : m[b].next = Null \/ m[b].next \in S}
  IN  {b \in DOMAIN m : \A S \in Closed : b \in S}

last_block(m) == CHOOSE b \in Visited(m, {}) : m[b].next = Null

\* First fit.
find_free_block(m, required_size) ==
  LET fits == {b \in DOMAIN m : m[b].free /\ m[b].size >= required_size}
      hit  == Visited(m, fits) \cap fits
  IN  IF hit = {} THEN Null ELSE CHOOSE b \in hit : TRUE

\* Headers that writing a header at address a destroys.
Overwritten(m, a) ==
  {b \in DOMAIN m : b < a + header_size /\ a < b + header_size}

\* Wrong variant: no room is kept for the header of what is split off.
split_block_NoRoom(m, b, required_size) ==
  LET new  == b + header_size + required_size
      next == m[b].next
  IN  IF m[b].size < required_size + min_split_payload
      THEN m
      ELSE [a \in (DOMAIN m \ Overwritten(m, new)) \cup {new} |->
              CASE a = new  -> [size |-> m[b].size - required_size - header_size,
                                free |-> TRUE, prev |-> b, next |-> next]
                [] a = b    -> [m[b] EXCEPT !.size = required_size, !.next = new]
                [] a = next -> [m[next] EXCEPT !.prev = new]
                [] OTHER    -> m[a]]

split_block(m, b, required_size) ==
  LET new  == b + header_size + required_size
      next == m[b].next
  IN  IF m[b].size < (required_size + header_size + min_split_payload) % WORD
      THEN m
      ELSE [a \in (DOMAIN m \ Overwritten(m, new)) \cup {new} |->
              CASE a = new  -> [size |-> m[b].size - required_size - header_size,
                                free |-> TRUE, prev |-> b, next |-> next]
                [] a = b    -> [m[b] EXCEPT !.size = required_size, !.next = new]
                [] a = next -> [m[next] EXCEPT !.prev = new]
                [] OTHER    -> m[a]]

\* Wrong variant: the block after the absorbed one keeps its old prev.
coalesce_with_next_NoBackLink(m, b) ==
  LET next == m[b].next IN
  IF next = Null \/ next \notin DOMAIN m \/ ~m[next].free
  THEN m
  ELSE [m EXCEPT ![b].size = @ + header_size + m[next].size,
                 ![b].next = m[next].next]

\* Wrong variant: the absorbed header's bytes are lost.
coalesce_with_next_HeaderLost(m, b) ==
  LET next == m[b].next IN
  IF next = Null \/ next \notin DOMAIN m \/ ~m[next].free
  THEN m
  ELSE [a \in DOMAIN m |->
          CASE a = b -> [m[b] EXCEPT !.size = @ + m[next].size,
                                     !.next = m[next].next]
            [] a = m[next].next -> [m[a] EXCEPT !.prev = b]
            [] OTHER -> m[a]]

\* The absorbed header is not erased.
coalesce_with_next(m, b) ==
  LET next == m[b].next IN
  IF next = Null \/ next \notin DOMAIN m \/ ~m[next].free
  THEN m
  ELSE [a \in DOMAIN m |->
          CASE a = b -> [m[b] EXCEPT !.size = @ + header_size + m[next].size,
                                     !.next = m[next].next]
            [] a = m[next].next -> [m[a] EXCEPT !.prev = b]
            [] OTHER -> m[a]]

ptr_in_heap(p, end) == g_heap_start <= p /\ p < end

\* A readable header in front of the pointer is what makes it a block.
block_from_ptr(m, end, p) ==
  IF /\ p # Null /\ ptr_in_heap(p, end)
     /\ p >= g_heap_start + header_size
     /\ p - header_size \in DOMAIN m
  THEN p - header_size ELSE Null

\* Wrong variant: a block that is free already is freed again.
kfree_FreeAgain(m, end, p) ==
  LET b      == block_from_ptr(m, end, p)
      marked == [m EXCEPT ![b].free = TRUE]
      joined == coalesce_with_next(marked, b)
      prev   == joined[b].prev
  IN  IF b = Null
      THEN m
      ELSE IF prev # Null /\ joined[prev].free
           THEN coalesce_with_next(joined, prev)
           ELSE joined

\* Wrong variant: the block before is not joined.
kfree_NextOnly(m, end, p) ==
  LET b == block_from_ptr(m, end, p) IN
  IF b = Null \/ m[b].free
  THEN m
  ELSE coalesce_with_next([m EXCEPT ![b].free = TRUE], b)

kfree(m, end, p) ==
  LET b      == block_from_ptr(m, end, p)
      marked == [m EXCEPT ![b].free = TRUE]
      joined == coalesce_with_next(marked, b)
      prev   == joined[b].prev
  IN  IF b = Null \/ m[b].free
      THEN m
      ELSE IF prev # Null /\ joined[prev].free
           THEN coalesce_with_next(joined, prev)
           ELSE joined

\* extend_heap_to_fit: how much is missing at the end of the list, ...
needed_payload(m, required_size) ==
  LET tail == last_block(m) IN
  IF m[tail].free THEN required_size - m[tail].size
                  ELSE (required_size + header_size) % WORD

\* ... in pages (none when the last block is large enough already), ...
pages_needed(m, required_size) ==
  LET tail == last_block(m) IN
  IF m[tail].free /\ m[tail].size >= required_size
  THEN 0
  ELSE align_up(needed_payload(m, required_size), PAGE_SIZE) \div PAGE_SIZE

\* ... how many of them its loop maps before it meets HEAP_VIRT_LIMIT ...
pages_mapped(end, pages) ==
  LET left == IF end >= HEAP_VIRT_LIMIT THEN 0
              ELSE (HEAP_VIRT_LIMIT - end + PAGE_SIZE - 1) \div PAGE_SIZE
  IN  IF pages <= left THEN pages ELSE left

\* ... and, when it could map them all, the block it makes of them.
extended(m, pages) ==
  LET tail  == last_block(m)
      added == pages * PAGE_SIZE
      new   == BlockEnd(m, tail)
  IN  IF m[tail].free
      THEN [m EXCEPT ![tail].size = @ + added]
      ELSE [a \in DOMAIN m \cup {new} |->
              CASE a = new  -> [size |-> (added + WORD - header_size) % WORD,
                                free |-> TRUE, prev |-> tail, next |-> Null]
                [] a = tail -> [m[tail] EXCEPT !.next = new]
                [] OTHER    -> m[a]]

\* What a call leaves of the blocks, what it returns, and the pages it maps.
Result(m, ptr, pages) == [blocks |-> m, ptr |-> ptr, pages |-> pages]

\* split_block, block->free = 0 and the return of the payload.
TakeBlock(m, b, required_size, pages) ==
  Result([split_block(m, b, required_size) EXCEPT ![b].free = FALSE],
         b + header_size, pages)

kmalloc(m, end, size) ==
  LET required == align_up(size, ALLOC_ALIGN)
      found    == find_free_block(m, required)
      needed   == pages_needed(m, required)
      mapped   == pages_mapped(end, needed)
      grown    == extended(m, needed)
      retried  == find_free_block(grown, required)
  IN  IF size = 0 \/ g_heap_head = Null THEN Result(m, Null, 0)
      ELSE IF found # Null THEN TakeBlock(m, found, required, 0)
      ELSE IF mapped < needed THEN Result(m, Null, mapped)
      ELSE IF retried = Null THEN Result(grown, Null, mapped)
      ELSE TakeBlock(grown, retried, required, mapped)

\* Wrong variant: a block grows into a free neighbour that is too small.
krealloc_NoFit(m, end, p, size) ==
  LET b        == block_from_ptr(m, end, p)
      required == align_up(size, ALLOC_ALIGN)
      next     == m[b].next
      moved    == kmalloc(m, end, required)
  IN  IF p = Null THEN kmalloc(m, end, size)
      ELSE IF b = Null \/ m[b].free THEN Result(m, Null, 0)
      ELSE IF required <= m[b].size
           THEN Result(split_block(m, b, required), p, 0)
      ELSE IF next # Null /\ m[next].free
           THEN Result(split_block(coalesce_with_next(m, b), b, required), p, 0)
      ELSE IF moved.ptr = Null THEN moved
      ELSE [moved EXCEPT
              !.blocks = kfree(@, end + moved.pages * PAGE_SIZE, p)]

\* krealloc of a size other than 0.
krealloc(m, end, p, size) ==
  LET b        == block_from_ptr(m, end, p)
      required == align_up(size, ALLOC_ALIGN)
      next     == m[b].next
      moved    == kmalloc(m, end, required)
  IN  IF p = Null THEN kmalloc(m, end, size)
      ELSE IF b = Null \/ m[b].free THEN Result(m, Null, 0)
      ELSE IF required <= m[b].size
           THEN Result(split_block(m, b, required), p, 0)
      ELSE IF /\ next # Null /\ m[next].free
              /\ m[b].size + header_size + m[next].size >= required
           THEN Result(split_block(coalesce_with_next(m, b), b, required), p, 0)
      ELSE IF moved.ptr = Null THEN moved
      ELSE [moved EXCEPT
              !.blocks = kfree(@, end + moved.pages * PAGE_SIZE, p)]

\* The bytes ksize reports for a pointer.
ksize(m, end, p) ==
  LET b == block_from_ptr(m, end, p) IN
  IF b = Null \/ m[b].free THEN 0 ELSE m[b].size

SizeSum(m, chosen) == MapThenSumSet(LAMBDA b : m[b].size, chosen)
kmalloc_total(m) == SizeSum(m, Visited(m, {}))
kmalloc_used(m) == SizeSum(m, {b \in Visited(m, {}) : ~m[b].free})
kmalloc_remaining(m) == SizeSum(m, {b \in Visited(m, {}) : m[b].free})

-----------------------------------------------------------------------------

\* Wrong variant: every page is mapped to the same frame.
MapHeapPages_OneFrame(tables, end, phys, n) ==
  LET mapOne(i, t) == map_page(t, Page(end) + i, Page(phys), {"RW"})
      highest(s)   == CHOOSE i \in s : \A j \in s : j <= i
  IN  MapThenFoldSet(mapOne, tables, LAMBDA i : i, highest, 0 .. n - 1)

\* The page tables after the loop of extend_heap_to_fit mapped n pages, the
\* lowest first.
MapHeapPages(tables, end, phys, n) ==
  LET mapOne(i, t) == map_page(t, Page(end) + i, Page(phys) + i, {"RW"})
      highest(s)   == CHOOSE i \in s : \A j \in s : j <= i
  IN  MapThenFoldSet(mapOne, tables, LAMBDA i : i, highest, 0 .. n - 1)

\* The client writes where it likes in the payload at p: no header survives
\* there.
Handed(m, p) ==
  LET b == p - header_size IN
  [a \in DOMAIN m \ {a \in DOMAIN m : b < a /\ a < BlockEnd(m, b)} |-> m[a]]

\* Freed pointers whose header the payload at p does not cover.
StillFreed(m, p) ==
  {q \in freed \ {p} : q <= p \/ BlockEnd(m, p - header_size) <= q - header_size}

\* The heap and its client after a call with result r, when the client asked
\* for size bytes and gave the pointer given (or Null) in return.
Return(r, size, given) ==
  /\ g_heap_mapped_end' = g_heap_mapped_end + r.pages * PAGE_SIZE
  /\ g_next_free_phys' = g_next_free_phys + r.pages * PAGE_SIZE
  /\ vm' = MapHeapPages(vm, g_heap_mapped_end, g_next_free_phys, r.pages)
  /\ IF r.ptr = Null
     THEN /\ blocks' = r.blocks
          /\ UNCHANGED <<live, freed>>
     ELSE /\ blocks' = Handed(r.blocks, r.ptr)
          /\ live' = [p \in (DOMAIN live \ {given}) \cup {r.ptr} |->
                        IF p = r.ptr THEN size ELSE live[p]]
          /\ freed' = StillFreed(r.blocks, r.ptr)
                        \cup ({given} \ {Null, r.ptr})

KMalloc(size) ==
  Return(kmalloc(blocks, g_heap_mapped_end, size), size, Null)

\* A product that does not fit a uint32_t is refused; else kmalloc and zeroes.
KCalloc(count, size) ==
  IF count = 0 \/ size = 0 \/ count * size > WORD - 1
  THEN UNCHANGED vars
  ELSE KMalloc(count * size)

KFree(p) ==
  /\ blocks' = kfree(blocks, g_heap_mapped_end, p)
  /\ live' = [q \in DOMAIN live \ {p} |-> live[q]]
  /\ freed' = freed \cup ({p} \cap DOMAIN live)
  /\ UNCHANGED <<g_heap_mapped_end, g_next_free_phys, vm>>

\* krealloc of size 0 is kfree.
KRealloc(p, size) ==
  IF p # Null /\ size = 0
  THEN KFree(p)
  ELSE Return(krealloc(blocks, g_heap_mapped_end, p, size), size, p)

\* paging_init, then kmalloc_init: one free block, or no heap at all.
Init ==
  /\ blocks = IF HeapFits
              THEN [b \in {g_heap_start} |->
                      [size |-> IDENTITY_MAP_LIMIT - g_heap_start - header_size,
                       free |-> TRUE, prev |-> Null, next |-> Null]]
              ELSE << >>
  /\ g_heap_mapped_end = IF HeapFits THEN IDENTITY_MAP_LIMIT ELSE 0
  /\ g_next_free_phys = align_up(IDENTITY_MAP_LIMIT, PAGE_SIZE)
  /\ vm = paging_init
  /\ live = << >>
  /\ freed = {}

\* A client calls with pointers it holds, with null, and with pointers it has
\* freed already and whose memory has not been handed out again.
Pointers == DOMAIN live \cup freed \cup {Null}

Next ==
  \/ \E size \in Sizes : KMalloc(size)
  \/ \E count \in Counts, size \in Sizes : KCalloc(count, size)
  \/ \E p \in Pointers : KFree(p)
  \/ \E p \in Pointers, size \in Sizes : KRealloc(p, size)

Spec == Init /\ [][Next]_vars

-----------------------------------------------------------------------------

\* Every header the allocator can follow a link to is one it can read, and
\* its sizes never go below zero.
TypeOK ==
  /\ blocks \in [DOMAIN blocks -> HeapBlock]
  /\ DOMAIN blocks \subseteq Nat \ {Null}
  /\ g_heap_mapped_end \in Nat
  /\ g_next_free_phys \in Nat
  /\ live \in [DOMAIN live -> Nat]
  /\ DOMAIN live \subseteq Nat \ {Null}
  /\ freed \subseteq Nat \ {Null}

\* The list is consistent: from C, the blocks on it, the links stay within C,
\* prev undoes next, the blocks lie one after the other without a gap and
\* without overlap, the last one alone has no next and the first one alone
\* has no prev (split_block, coalesce_with_next and extend_heap_to_fit each
\* rewrite up to four links, memory.cpp:174-206 and 259-274).
ListConsistent(C) ==
  /\ g_heap_head \in C /\ C \subseteq DOMAIN blocks
  /\ \A b \in C : g_heap_start <= b /\ BlockEnd(blocks, b) <= g_heap_mapped_end
  /\ \A a, b \in C : a < b => BlockEnd(blocks, a) <= b
  /\ \A b \in C : LET next == blocks[b].next IN
       IF next = Null
       THEN \A a \in C : a <= b
       ELSE next \in C /\ next = BlockEnd(blocks, b) /\ blocks[next].prev = b
  /\ \A b \in C : LET prev == blocks[b].prev IN
       IF prev = Null
       THEN b = g_heap_head
       ELSE prev \in C /\ blocks[prev].next = b

\* A header that reads as one but is not on the list is marked free and lies
\* inside the payload of a free block (memory.cpp:196 does not erase it).
StaleHeadersFree(C) ==
  \A s \in DOMAIN blocks \ C :
    /\ blocks[s].free
    /\ \E b \in C : /\ blocks[b].free
                    /\ b + header_size <= s
                    /\ s + header_size <= BlockEnd(blocks, b)

\* The allocated blocks are those of the pointers the client holds, each at
\* least as large as the client asked.
LiveBlocksAllocated(C) ==
  /\ \A p \in DOMAIN live :
       /\ p - header_size \in C
       /\ ~blocks[p - header_size].free
       /\ live[p] <= blocks[p - header_size].size
  /\ \A b \in C : ~blocks[b].free => b + header_size \in DOMAIN live

\* What the code keeps true of the heap, for some set C of listed blocks.
HeapInv ==
  HeapFits => \E C \in SUBSET DOMAIN blocks :
                /\ ListConsistent(C)
                /\ StaleHeadersFree(C)
                /\ LiveBlocksAllocated(C)

\* Freeing a pointer a second time changes nothing and its size reads as 0,
\* as long as its memory has not been handed out again (memory.cpp:217-219,
\* 357 and 391).
FreedPointersRejected ==
  \A p \in freed : /\ kfree(blocks, g_heap_mapped_end, p) = blocks
                   /\ ksize(blocks, g_heap_mapped_end, p) = 0

\* No byte of the heap is lost: the payloads kmalloc_total counts and their
\* headers make up the mapped heap, until a growth has met HEAP_VIRT_LIMIT
\* part of the way (memory.cpp:249-257); and every used byte is a client's.
HeapAccounted ==
  LET listed == Visited(blocks, {})
      sum    == kmalloc_total(blocks) + Cardinality(listed) * header_size
      heap   == g_heap_mapped_end - g_heap_start
  IN  HeapFits =>
        /\ sum = heap \/ (sum < heap /\ g_heap_mapped_end >= HEAP_VIRT_LIMIT)
        /\ kmalloc_total(blocks) =
             kmalloc_used(blocks) + kmalloc_remaining(blocks)

\* Every page below g_heap_mapped_end is mapped, writable, to a frame no other
\* page has (map_page does not report a page it could not map, memory.cpp:106).
HeapPagesMapped ==
  LET pages == 0 .. Page(g_heap_mapped_end - 1) IN
  HeapFits =>
    /\ \A page \in pages : /\ Walk(vm, page).present
                           /\ "RW" \in Walk(vm, page).flags
    /\ \A p, q \in pages : Walk(vm, p).frame = Walk(vm, q).frame => p = q

\* Neighbouring free blocks.
FreePairs(m) ==
  {b \in Visited(m, {}) : m[b].free /\ m[b].next # Null /\ m[m[b].next].free}

\* Only a krealloc that gives part of a block back can leave one more free
\* block beside a free block: kmalloc, kfree and a krealloc that grows or
\* moves a block leave no more of them than they found.
OnlyShrinkingFragments ==
  [][ \/ Cardinality(FreePairs(blocks)') <= Cardinality(FreePairs(blocks))
      \/ \E p \in DOMAIN live \cap DOMAIN live' :
           LET b == p - header_size IN blocks'[b].size < blocks[b].size ]_vars

\* The heap keeps what an allocator promises its client.
Promise == INSTANCE Allocator WITH
             ArenaStart <- g_heap_start,
             ArenaEnd   <- HEAP_VIRT_LIMIT,
             Gap        <- header_size

ImplementsAllocator == Promise!AllocatorSpec

-----------------------------------------------------------------------------

(* A claim the code does not live up to: a run refutes it. *)

\* A pointer is to at least as many bytes as were asked for.
SizeHonoured ==
  \A p \in DOMAIN live : ksize(blocks, g_heap_mapped_end, p) >= live[p]
=============================================================================
