-------------------------------- MODULE Paging --------------------------------
(***************************************************************************)
(* map_page and unmap_page of src/modules/memory/memory.cpp as operations  *)
(* on the live page tables, after paging_init, together with the           *)
(* processor's translation buffer: at any moment the processor may cache   *)
(* the entry of a page it walks to, and it keeps the entry until invlpg.   *)
(***************************************************************************)
EXTENDS PageTables

CONSTANTS
  MappedPages,   \* the pages the callers map and unmap
  MappedFrames,  \* the frames they map them to
  MapFlags       \* the flags they pass to map_page

ASSUME PagingAssumption ==
  /\ MappedPages \subseteq 0 .. PAGE_ENTRIES * PAGE_ENTRIES - 1
  /\ MappedFrames \subseteq Frames
  /\ MapFlags \subseteq SUBSET Flags

VARIABLES
  paging,  \* page_directory, page_table_pool and page_table_used
  tlb,     \* cached translations: page -> table entry
  request  \* the last call of map_page or unmap_page, with its arguments

pagingVars == <<paging, tlb, request>>

Without(cache, page) == [p \in DOMAIN cache \ {page} |-> cache[p]]

\* Wrong variant: the cached translation is kept.
invlpg_Missing(cache, page) == cache

\* invlpg: the processor forgets what it cached for the page.
invlpg(cache, page) == Without(cache, page)

\* map_page returns before invlpg when it could not have a table.
MapPage(page, frame, flags) ==
  /\ paging' = map_page(paging, page, frame, flags)
  /\ tlb' = IF get_page_table(paging', DirIndex(page)) = NoTable
            THEN tlb ELSE invlpg(tlb, page)
  /\ request' = <<"map", page, [present |-> TRUE, frame |-> frame, flags |-> flags]>>

UnmapPage(page) ==
  /\ paging' = unmap_page(paging, page)
  /\ tlb' = IF get_page_table(paging, DirIndex(page)) = NoTable
            THEN tlb ELSE invlpg(tlb, page)
  /\ request' = <<"unmap", page>>

\* The processor walks the tables for a page and caches what it finds.
CpuCachesWalk(page) ==
  /\ Walk(paging, page).present
  /\ tlb' = [p \in DOMAIN tlb \cup {page} |->
               IF p = page THEN Walk(paging, page) ELSE tlb[p]]
  /\ UNCHANGED <<paging, request>>

PagingInit ==
  /\ paging = paging_init
  /\ tlb = << >>
  /\ request = << >>

PagingNext ==
  \E page \in MappedPages :
    \/ \E frame \in MappedFrames, flags \in MapFlags :
         MapPage(page, frame, flags)
    \/ UnmapPage(page)
    \/ CpuCachesWalk(page)

PagingSpec == PagingInit /\ [][PagingNext]_pagingVars

-----------------------------------------------------------------------------

PagingTypeOK ==
  /\ paging \in PageTables
  /\ DOMAIN tlb \subseteq MappedPages
  /\ \A page \in DOMAIN tlb : tlb[page] \in TableEntry

\* No two directory entries share a page table, and every table a directory
\* entry points at is marked used: otherwise a later alloc_page_table would
\* clear it, and mapping one page would move another (memory.cpp:52-95).
TablesNotShared ==
  LET Present == {d \in Indices : paging.page_directory[d].present} IN
  /\ \A d \in Present : paging.page_table_used[paging.page_directory[d].table]
  /\ \A d, e \in Present :
       paging.page_directory[d].table = paging.page_directory[e].table => d = e

\* After every map_page and unmap_page the processor's cached translations
\* agree with the tables (the invlpg of memory.cpp:111 and :125).
CacheCoherent == \A page \in DOMAIN tlb : tlb[page] = Walk(paging, page)

\* The two-level tables behave as one flat map from pages to entries in which
\* mapping or unmapping a page does so, and touches that page alone.  A call of
\* map_page does nothing, which its caller is not told (memory.cpp:106), exactly
\* when the page's directory entry has no table and as many others have one as
\* the pool is large: no table is ever lost to the pool, and none is needed for
\* a region that has had its table.
Flat == INSTANCE AddressSpace WITH
          Pages      <- MappedPages,
          Entries    <- [present: {TRUE}, frame: MappedFrames \cup Indices,
                         flags: SUBSET Flags],
          NotMapped  <- NoEntry,
          RegionSize <- PAGE_ENTRIES,
          Capacity   <- PAGE_TABLE_POOL_COUNT,
          space      <- [page \in MappedPages |-> Walk(paging, page)],
          backed     <- {d \in Indices : paging.page_directory[d].present}

ImplementsFlatMap == Flat!SpaceSpec
=============================================================================
