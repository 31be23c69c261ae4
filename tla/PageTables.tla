------------------------------ MODULE PageTables ------------------------------
(***************************************************************************)
(* The two-level page tables of src/modules/memory/memory.cpp, as values:  *)
(* a record                                                                *)
(*    page_directory   directory index -> directory entry                  *)
(*    page_table_pool  table index     -> (entry index -> table entry)     *)
(*    page_table_used  table index     -> BOOLEAN                          *)
(* and the functions of memory.cpp that read and change it.  Paging.tla    *)
(* makes a state machine of it and Heap.tla grows the heap through it.     *)
(*                                                                         *)
(* A directory entry holds the index of its table in the pool where the    *)
(* code holds the table's address.  PRESENT is the entry not being NoEntry;*)
(* the other flags are kept as a set of names.                             *)
(***************************************************************************)
EXTENDS Naturals, FiniteSets

CONSTANTS
  PAGE_SIZE,              \* bytes in a page
  PAGE_ENTRIES,           \* entries of a page directory and of a page table
  PAGE_TABLE_POOL_COUNT   \* page tables in page_table_pool

ASSUME PageTablesAssumption ==
  /\ PAGE_SIZE \in Nat \ {0}
  /\ PAGE_ENTRIES \in Nat \ {0}
  /\ PAGE_TABLE_POOL_COUNT \in Nat \ {0}

NoEntry == [present |-> FALSE]
NoTable == PAGE_TABLE_POOL_COUNT

Flags == {"RW", "USER"}
Indices == 0 .. PAGE_ENTRIES - 1
Tables == 0 .. PAGE_TABLE_POOL_COUNT - 1
Frames == Nat

\* Every directory entry is writable; its pages decide for themselves.
DirectoryEntry == [present: {TRUE}, table: Tables, flags: {{"RW"}, Flags}]
TableEntry == [present: {TRUE}, frame: Frames, flags: SUBSET Flags]

PageTables ==
  [ page_directory:  [Indices -> DirectoryEntry \cup {NoEntry}],
    page_table_pool: [Tables -> [Indices -> TableEntry \cup {NoEntry}]],
    page_table_used: [Tables -> BOOLEAN] ]

-----------------------------------------------------------------------------

Page(addr) == addr \div PAGE_SIZE                       \* align_down, in pages
DirIndex(page) == (page \div PAGE_ENTRIES) % PAGE_ENTRIES
TableIndex(page) == page % PAGE_ENTRIES

\* The lowest slot of the pool that is not in use, or NoTable.
FreeTable(vm) ==
  IF \E i \in Tables : ~vm.page_table_used[i]
  THEN CHOOSE i \in Tables :
         /\ ~vm.page_table_used[i]
         /\ \A j \in 0 .. i - 1 : vm.page_table_used[j]
  ELSE NoTable

\* Wrong variant: the slot is cleared but not marked as used.
alloc_page_table_NotMarked(vm, i) ==
  [vm EXCEPT !.page_table_pool[i] = [j \in Indices |-> NoEntry]]

\* Takes slot i of the pool and clears its entries.
alloc_page_table(vm, i) ==
  [vm EXCEPT !.page_table_used[i] = TRUE,
             !.page_table_pool[i] = [j \in Indices |-> NoEntry]]

get_page_table(vm, dir) ==
  IF vm.page_directory[dir].present THEN vm.page_directory[dir].table
                                    ELSE NoTable

\* Wrong variant: the directory entry lacks PAGE_FLAG_RW.
get_or_create_page_table_ReadOnly(vm, dir) ==
  LET i == FreeTable(vm) IN
  IF get_page_table(vm, dir) # NoTable \/ i = NoTable
  THEN vm
  ELSE [alloc_page_table(vm, i) EXCEPT
          !.page_directory[dir] = [present |-> TRUE, table |-> i, flags |-> {}]]

\* What get_or_create_page_table leaves behind.  With the pool empty it
\* changes nothing and the directory entry stays absent.
get_or_create_page_table(vm, dir) ==
  LET i == FreeTable(vm) IN
  IF get_page_table(vm, dir) # NoTable \/ i = NoTable
  THEN vm
  ELSE [alloc_page_table(vm, i) EXCEPT
          !.page_directory[dir] =
             [present |-> TRUE, table |-> i, flags |-> {"RW"}]]

\* Wrong variant: a page is mapped only where its directory entry has a table.
map_page_NotCreated(vm, page, frame, flags) ==
  LET table == get_page_table(vm, DirIndex(page))
  IN  IF table = NoTable
      THEN vm
      ELSE [vm EXCEPT !.page_table_pool[table][TableIndex(page)] =
              [present |-> TRUE, frame |-> frame, flags |-> flags]]

\* Maps one page.  The caller is not told when no table could be had.
map_page(vm, page, frame, flags) ==
  LET dir   == DirIndex(page)
      with  == get_or_create_page_table(vm, dir)
      table == get_page_table(with, dir)
  IN  IF table = NoTable
      THEN vm
      ELSE [with EXCEPT !.page_table_pool[table][TableIndex(page)] =
              [present |-> TRUE, frame |-> frame, flags |-> flags]]

\* Wrong variant: the whole table goes, not the one entry.
unmap_page_Table(vm, page) ==
  LET table == get_page_table(vm, DirIndex(page)) IN
  IF table = NoTable
  THEN vm
  ELSE [vm EXCEPT !.page_table_pool[table] = [j \in Indices |-> NoEntry]]

unmap_page(vm, page) ==
  LET table == get_page_table(vm, DirIndex(page)) IN
  IF table = NoTable
  THEN vm
  ELSE [vm EXCEPT !.page_table_pool[table][TableIndex(page)] = NoEntry]

\* The tables paging_init leaves: table 0 maps directory entry 0 one to one.
paging_init ==
  LET none == [j \in Indices |-> NoEntry]
      user == [i \in Indices |->
                 [present |-> TRUE, frame |-> i, flags |-> {"RW", "USER"}]]
  IN  [ page_directory |->
          [none EXCEPT ![0] = [present |-> TRUE, table |-> 0,
                               flags |-> {"RW", "USER"}]],
        page_table_pool |-> [[t \in Tables |-> none] EXCEPT ![0] = user],
        page_table_used |-> [t \in Tables |-> t = 0] ]

-----------------------------------------------------------------------------

(* The processor's walk of the tables (not in src/: the MMU). *)
Walk(vm, page) ==
  LET table == get_page_table(vm, DirIndex(page)) IN
  IF table = NoTable THEN NoEntry
  ELSE vm.page_table_pool[table][TableIndex(page)]
=============================================================================
