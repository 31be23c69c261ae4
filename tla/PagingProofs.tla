----------------------------- MODULE PagingProofs -----------------------------
(***************************************************************************)
(* Lemmas about the operators of PageTables: what mapping and unmapping a  *)
(* page changes of what the processor finds, and when map_page finds a     *)
(* table.  The proofs about Heap rest on them too.  Then the proofs about  *)
(* Paging, for every size of the tables and of the pool, and every choice  *)
(* of pages, frames and flags.                                             *)
(***************************************************************************)
EXTENDS Paging, Integers, FiniteSetTheorems, FunctionTheorems,
        WellFoundedInduction, TLAPS

USE PageTablesAssumption

\* Directory entries that are present, and the entry two indices lead to.
Present(t) == {d \in Indices : t.page_directory[d].present}

Entry(t, d, j) ==
  IF get_page_table(t, d) = NoTable THEN NoEntry
  ELSE t.page_table_pool[get_page_table(t, d)][j]

NotShared(t) ==
  /\ \A d \in Present(t) : t.page_table_used[t.page_directory[d].table]
  /\ \A d, e \in Present(t) :
       t.page_directory[d].table = t.page_directory[e].table => d = e

-----------------------------------------------------------------------------

(* Numbers. *)

\* Naturals, when there are any, have a least one.
LEMMA LeastElement ==
  ASSUME NEW T \in SUBSET Nat, T # {}
  PROVE  \E x \in T : \A y \in T : x <= y
<1> DEFINE Less == {ss \in Nat \X Nat : ss[1] < ss[2]}
<1>1. IsWellFoundedOn(Less, Nat)
  BY NatLessThanWellFounded DEF OpToRel
<1>2. PICK x \in T : \A y \in T : ~(<<y, x>> \in Less)
  <2> HIDE DEF Less
  <2> QED
    BY <1>1, WFMin
<1>3. \A y \in T : x <= y
  <2>1. TAKE y \in T
  <2>2. ~(<<y, x>> \in Less)
    BY <1>2
  <2>3. y \in Nat /\ x \in Nat
    OBVIOUS
  <2>4. ~(y < x)
    BY <2>2, <2>3
  <2> QED
    BY <2>3, <2>4
<1> QED
  BY <1>3

\* A page number below PAGE_ENTRIES * PAGE_ENTRIES is its two indices.
LEMMA PageSplit ==
  ASSUME NEW p \in 0 .. PAGE_ENTRIES * PAGE_ENTRIES - 1
  PROVE  /\ DirIndex(p) \in Indices /\ TableIndex(p) \in Indices
         /\ DirIndex(p) = p \div PAGE_ENTRIES
         /\ p = DirIndex(p) * PAGE_ENTRIES + TableIndex(p)
<1>1. /\ p \div PAGE_ENTRIES \in Nat /\ p % PAGE_ENTRIES \in Indices
      /\ p = (p \div PAGE_ENTRIES) * PAGE_ENTRIES + (p % PAGE_ENTRIES)
  BY DEF Indices
<1>2. p \div PAGE_ENTRIES < PAGE_ENTRIES
  <2> DEFINE n == p \div PAGE_ENTRIES
  <2>1. n * PAGE_ENTRIES < PAGE_ENTRIES * PAGE_ENTRIES
    BY <1>1 DEF Indices
  <2>2. n \in Nat
    BY <1>1
  <2> HIDE DEF n
  <2>3. n < PAGE_ENTRIES
    BY <2>1, <2>2
  <2> QED
    BY <2>3 DEF n
<1>3. (p \div PAGE_ENTRIES) % PAGE_ENTRIES = p \div PAGE_ENTRIES
  <2> DEFINE n == p \div PAGE_ENTRIES
  <2>1. n \in Nat /\ n < PAGE_ENTRIES
    BY <1>1, <1>2
  <2> HIDE DEF n
  <2>2. n % PAGE_ENTRIES = n
    BY <2>1
  <2> QED
    BY <2>2 DEF n
<1> QED
  BY <1>1, <1>2, <1>3 DEF DirIndex, TableIndex, Indices

-----------------------------------------------------------------------------

(* The operators of PageTables. *)

\* The parts of the page tables, and their types.
LEMMA TablesShape ==
  ASSUME NEW t \in PageTables
  PROVE  /\ t.page_directory \in [Indices -> DirectoryEntry \cup {NoEntry}]
         /\ t.page_table_pool \in [Tables -> [Indices -> TableEntry \cup {NoEntry}]]
         /\ t.page_table_used \in [Tables -> BOOLEAN]
         /\ NoTable \notin Tables
BY DEF PageTables, NoTable, Tables

\* A directory entry is present exactly when it leads to a table of the pool.
LEMMA TableOfEntry ==
  ASSUME NEW t \in PageTables, NEW d \in Indices
  PROVE  /\ d \in Present(t) =>
              /\ get_page_table(t, d) = t.page_directory[d].table
              /\ get_page_table(t, d) \in Tables
         /\ d \notin Present(t) => get_page_table(t, d) = NoTable
         /\ d \in Present(t) <=> get_page_table(t, d) # NoTable
<1>1. t.page_directory[d] \in DirectoryEntry \cup {NoEntry}
  BY TablesShape
<1>2. CASE t.page_directory[d] \in DirectoryEntry
  <2>1. /\ t.page_directory[d].present = TRUE
        /\ t.page_directory[d].table \in Tables
    BY <1>2 DEF DirectoryEntry
  <2> QED
    BY <2>1, TablesShape DEF Present, get_page_table
<1>3. CASE t.page_directory[d] = NoEntry
  <2>1. t.page_directory[d].present = FALSE
    BY <1>3 DEF NoEntry
  <2> QED
    BY <2>1, TablesShape DEF Present, get_page_table
<1> QED
  BY <1>1, <1>2, <1>3

\* What FreeTable finds is free, and it finds one while there is one.
LEMMA FreeTableFree ==
  ASSUME NEW t \in PageTables
  PROVE  IF FreeTable(t) = NoTable
         THEN \A i \in Tables : t.page_table_used[i]
         ELSE FreeTable(t) \in Tables /\ ~t.page_table_used[FreeTable(t)]
<1> DEFINE free == {i \in Tables : ~t.page_table_used[i]}
<1>1. CASE free = {}
  BY <1>1 DEF FreeTable
<1>2. CASE free # {}
  <2>1. free \in SUBSET Nat
    BY DEF Tables
  <2>2. PICK i \in free : \A j \in free : ~(j < i)
    <3> HIDE DEF free
    <3> QED
      BY <1>2, <2>1, LeastElement
  <2>3. \A j \in 0 .. i - 1 : t.page_table_used[j]
    BY <2>2 DEF Tables
  <2>4. \E k \in Tables : /\ ~t.page_table_used[k]
                          /\ \A j \in 0 .. k - 1 : t.page_table_used[j]
    BY <2>2, <2>3
  <2>5. FreeTable(t) \in Tables /\ ~t.page_table_used[FreeTable(t)]
    BY <1>2, <2>4 DEF FreeTable
  <2> QED
    BY <2>5, TablesShape
<1> QED
  BY <1>1, <1>2

\* Directory entries with tables of their own, and a table that is in use by
\* none of them: the pool is larger than what they take of it.
LEMMA PoolNotExhausted ==
  ASSUME NEW t \in PageTables, NotShared(t),
         NEW i \in Tables, ~t.page_table_used[i]
  PROVE  Cardinality(Present(t)) < PAGE_TABLE_POOL_COUNT
<1> DEFINE tableOf == [d \in Present(t) |-> t.page_directory[d].table]
<1>1. tableOf \in Injection(Present(t), Tables \ {i})
  <2>1. \A d \in Present(t) : t.page_directory[d].table \in Tables \ {i}
    BY TableOfEntry DEF NotShared, Present
  <2> QED
    BY <2>1 DEF NotShared, Injection, IsInjective
<1>2. IsFiniteSet(Tables) /\ Cardinality(Tables) = PAGE_TABLE_POOL_COUNT
  BY FS_Interval DEF Tables
<1>3. /\ IsFiniteSet(Tables \ {i})
      /\ Cardinality(Tables \ {i}) = PAGE_TABLE_POOL_COUNT - 1
  BY <1>2, FS_RemoveElement
<1>4. Cardinality(Present(t)) <= PAGE_TABLE_POOL_COUNT - 1
  BY <1>1, <1>3, FS_Injection
<1>5. Cardinality(Present(t)) \in Nat
  BY <1>1, <1>3, FS_Injection, FS_CardinalityType
<1> QED
  BY <1>4, <1>5

\* get_or_create_page_table changes what no page has been mapped through yet,
\* or nothing at all.
LEMMA TableCreated ==
  ASSUME NEW t \in PageTables, NotShared(t), NEW d \in Indices,
         NEW w, w = get_or_create_page_table(t, d)
  PROVE  /\ w \in PageTables /\ NotShared(w)
         /\ get_page_table(w, d) = NoTable => w = t
         /\ get_page_table(w, d) # NoTable =>
              /\ Present(w) = Present(t) \cup {d}
              /\ d \in Present(t) \/ Cardinality(Present(t)) < PAGE_TABLE_POOL_COUNT
         /\ \A e, j \in Indices : Entry(w, e, j) = Entry(t, e, j)
<1> DEFINE i == FreeTable(t)
           empty == [j \in Indices |-> NoEntry]
           entry == [present |-> TRUE, table |-> i, flags |-> {"RW"}]
<1>1. CASE get_page_table(t, d) # NoTable \/ i = NoTable
  <2>1. w = t
    BY <1>1 DEF get_or_create_page_table
  <2>2. get_page_table(w, d) # NoTable => d \in Present(t)
    BY <2>1, TableOfEntry
  <2> QED
    BY <2>1, <2>2
<1>2. CASE get_page_table(t, d) = NoTable /\ i # NoTable
  <2>1. i \in Tables /\ ~t.page_table_used[i] /\ d \notin Present(t)
    BY <1>2, FreeTableFree, TableOfEntry
  <2>2. /\ w.page_directory = [t.page_directory EXCEPT ![d] = entry]
        /\ w.page_table_pool = [t.page_table_pool EXCEPT ![i] = empty]
        /\ w.page_table_used = [t.page_table_used EXCEPT ![i] = TRUE]
    BY <1>2 DEF get_or_create_page_table, alloc_page_table, PageTables
  <2>3. entry \in DirectoryEntry /\ empty \in [Indices -> TableEntry \cup {NoEntry}]
    BY <2>1 DEF DirectoryEntry
  <2>4. w \in PageTables
    <3> DEFINE u == [t EXCEPT !.page_table_used[i] = TRUE,
                              !.page_table_pool[i] = empty]
    <3>1. w = [u EXCEPT !.page_directory[d] = entry]
      BY <1>2 DEF get_or_create_page_table, alloc_page_table
    <3> HIDE DEF i, empty, entry
    <3>2. u \in PageTables
      BY <2>1, <2>3 DEF PageTables
    <3> HIDE DEF u
    <3>3. [u.page_directory EXCEPT ![d] = entry]
            \in [Indices -> DirectoryEntry \cup {NoEntry}]
      BY <2>3, <3>2, TablesShape
    <3> QED
      BY <3>1, <3>2, <3>3 DEF PageTables
  <2> HIDE DEF i, empty, entry
  <2>5. entry.present = TRUE /\ entry.table = i
    BY DEF entry
  <2>6. \A e \in Indices :
          w.page_directory[e] = IF e = d THEN entry ELSE t.page_directory[e]
    BY <2>2, TablesShape
  <2>7. Present(w) = Present(t) \cup {d}
    BY <2>5, <2>6 DEF Present
  <2>8. \A e \in Present(t) : t.page_directory[e].table \in Tables \ {i}
    BY <2>1, TableOfEntry DEF NotShared, Present
  <2>9. NotShared(w)
    <3>1. \A e \in Present(w) :
            w.page_directory[e].table = IF e = d THEN i ELSE t.page_directory[e].table
      BY <2>5, <2>6 DEF Present
    <3>2. /\ w.page_table_used[i]
          /\ \A k \in Tables \ {i} : w.page_table_used[k] = t.page_table_used[k]
      BY <2>1, <2>2, TablesShape
    <3>3. ASSUME NEW e \in Present(w)
          PROVE  w.page_table_used[w.page_directory[e].table]
      <4>1. CASE e = d
        BY <3>1, <3>2, <2>1, <4>1
      <4>2. CASE e # d
        <5>1. e \in Present(t) /\ t.page_directory[e].table \in Tables \ {i}
          BY <4>2, <2>7, <2>8
        <5>2. t.page_table_used[t.page_directory[e].table]
          BY <5>1 DEF NotShared
        <5> QED
          BY <3>1, <3>2, <4>2, <5>1, <5>2
      <4> QED
        BY <4>1, <4>2
    <3>4. \A e, f \in Present(w) :
            w.page_directory[e].table = w.page_directory[f].table => e = f
      BY <3>1, <2>7, <2>8 DEF NotShared
    <3> QED
      BY <3>3, <3>4 DEF NotShared
  <2>10. get_page_table(w, d) = i
    BY <2>4, <2>5, <2>6, <2>7, TableOfEntry
  <2>11. ASSUME NEW e \in Indices, NEW j \in Indices
         PROVE  Entry(w, e, j) = Entry(t, e, j)
    <3>1. CASE e = d
      <4>1. Entry(t, e, j) = NoEntry
        BY <3>1, <1>2 DEF Entry
      <4>2. w.page_table_pool[i] = empty
        BY <2>1, <2>2, TablesShape
      <4>3. Entry(w, e, j) = NoEntry
        BY <3>1, <4>2, <2>10 DEF Entry, empty
      <4> QED
        BY <4>1, <4>3
    <3>2. CASE e # d /\ e \in Present(t)
      <4>1. /\ get_page_table(t, e) = t.page_directory[e].table
            /\ get_page_table(w, e) = t.page_directory[e].table
            /\ get_page_table(t, e) \in Tables \ {i}
        BY <3>2, <2>4, <2>6, <2>7, <2>8, TableOfEntry
      <4>2. w.page_table_pool[get_page_table(t, e)] =
              t.page_table_pool[get_page_table(t, e)]
        BY <4>1, <2>2, TablesShape
      <4> QED
        BY <4>1, <4>2 DEF Entry
    <3>3. CASE e # d /\ e \notin Present(t)
      <4>1. get_page_table(t, e) = NoTable /\ get_page_table(w, e) = NoTable
        BY <3>3, <2>4, <2>7, TableOfEntry
      <4> QED
        BY <4>1 DEF Entry
    <3> QED
      BY <3>1, <3>2, <3>3
  <2>12. Cardinality(Present(t)) < PAGE_TABLE_POOL_COUNT
    BY <2>1, PoolNotExhausted
  <2>13. get_page_table(w, d) # NoTable
    BY <2>4, <2>7, TableOfEntry
  <2> QED
    BY <2>4, <2>7, <2>9, <2>11, <2>12, <2>13
<1> QED
  BY <1>1, <1>2

\* Writing an entry of the table of directory entry d is seen through d alone.
LEMMA EntryWritten ==
  ASSUME NEW t \in PageTables, NotShared(t),
         NEW d \in Present(t), NEW j \in Indices,
         NEW x \in TableEntry \cup {NoEntry},
         NEW w, w = [t EXCEPT !.page_table_pool[get_page_table(t, d)][j] = x]
  PROVE  /\ w \in PageTables /\ NotShared(w) /\ Present(w) = Present(t)
         /\ \A e \in Indices : get_page_table(w, e) = get_page_table(t, e)
         /\ \A e, k \in Indices :
              Entry(w, e, k) = IF e = d /\ k = j THEN x ELSE Entry(t, e, k)
<1> DEFINE i == get_page_table(t, d)
           table == [t.page_table_pool[i] EXCEPT ![j] = x]
<1>1. d \in Indices /\ i \in Tables
  BY TableOfEntry DEF Present
<1>2. /\ w.page_directory = t.page_directory
      /\ w.page_table_pool = [t.page_table_pool EXCEPT ![i] = table]
      /\ w.page_table_used = t.page_table_used
  BY DEF PageTables
<1>3. table \in [Indices -> TableEntry \cup {NoEntry}]
  BY <1>1, TablesShape
<1>4. \A k \in Indices : table[k] = IF k = j THEN x ELSE t.page_table_pool[i][k]
  BY <1>1, TablesShape
<1>5. w \in PageTables
  <2> HIDE DEF i
  <2> QED
    BY <1>1 DEF PageTables
<1> HIDE DEF table
<1>6. /\ w.page_directory = t.page_directory
      /\ w.page_table_used = t.page_table_used
  BY <1>2
<1>7. /\ NotShared(w) /\ Present(w) = Present(t)
      /\ \A e \in Indices : get_page_table(w, e) = get_page_table(t, e)
  BY <1>6 DEF NotShared, Present, get_page_table
<1>8. ASSUME NEW e \in Indices, NEW k \in Indices
      PROVE  Entry(w, e, k) = IF e = d /\ k = j THEN x ELSE Entry(t, e, k)
  <2>1. CASE e = d
    <3>1. w.page_table_pool[i] = table
      BY <1>1, <1>2, TablesShape
    <3>2. Entry(w, e, k) = table[k] /\ Entry(t, e, k) = t.page_table_pool[i][k]
      BY <2>1, <3>1, <1>1, <1>7, TablesShape DEF Entry
    <3> QED
      BY <2>1, <3>2, <1>4
  <2>2. CASE e # d /\ e \in Present(t)
    <3>1. get_page_table(t, e) \in Tables \ {i}
      <4>1. /\ get_page_table(t, e) = t.page_directory[e].table
            /\ get_page_table(t, e) \in Tables
            /\ i = t.page_directory[d].table
        BY <2>2, <1>1, TableOfEntry
      <4> QED
        BY <4>1, <2>2 DEF NotShared
    <3>2. w.page_table_pool[get_page_table(t, e)] =
            t.page_table_pool[get_page_table(t, e)]
      BY <3>1, <1>2, TablesShape
    <3> QED
      BY <2>2, <3>2, <1>7 DEF Entry
  <2>3. CASE e \notin Present(t)
    <3>1. get_page_table(t, e) = NoTable /\ e # d
      BY <2>3, TableOfEntry
    <3> QED
      BY <3>1, <1>7 DEF Entry
  <2> QED
    BY <2>1, <2>2, <2>3
<1> QED
  BY <1>5, <1>7, <1>8

PageNumbers == 0 .. PAGE_ENTRIES * PAGE_ENTRIES - 1

\* The processor reads the entry the two indices of a page lead to.
LEMMA WalkIsEntry ==
  ASSUME NEW t
  PROVE  \A q \in PageNumbers : Walk(t, q) = Entry(t, DirIndex(q), TableIndex(q))
BY DEF Walk, Entry

\* Two pages with the same indices are one.
LEMMA IndicesOfPages ==
  ASSUME NEW p \in PageNumbers
  PROVE  /\ DirIndex(p) \in Indices /\ TableIndex(p) \in Indices
         /\ \A q \in PageNumbers :
              DirIndex(q) = DirIndex(p) /\ TableIndex(q) = TableIndex(p) => q = p
<1>1. /\ DirIndex(p) \in Indices /\ TableIndex(p) \in Indices
      /\ p = DirIndex(p) * PAGE_ENTRIES + TableIndex(p)
  BY PageSplit DEF PageNumbers
<1>2. \A q \in PageNumbers : q = DirIndex(q) * PAGE_ENTRIES + TableIndex(q)
  BY PageSplit DEF PageNumbers
<1> HIDE DEF PageNumbers
<1> QED
  BY <1>1, <1>2, Zenon

\* map_page maps its page and moves no other, or changes nothing when it could
\* not have a table (memory.cpp:97-112).
LEMMA PageMapped ==
  ASSUME NEW t \in PageTables, NotShared(t), NEW page \in PageNumbers,
         NEW frame \in Frames, NEW flags \in SUBSET Flags,
         NEW w, w = map_page(t, page, frame, flags)
  PROVE  /\ w \in PageTables /\ NotShared(w)
         /\ get_page_table(w, DirIndex(page)) = NoTable => w = t
         /\ get_page_table(w, DirIndex(page)) # NoTable =>
              /\ Present(w) = Present(t) \cup {DirIndex(page)}
              /\ \/ DirIndex(page) \in Present(t)
                 \/ Cardinality(Present(t)) < PAGE_TABLE_POOL_COUNT
              /\ \A q \in PageNumbers :
                   Walk(w, q) = IF q = page
                                THEN [present |-> TRUE, frame |-> frame, flags |-> flags]
                                ELSE Walk(t, q)
<1> DEFINE dir == DirIndex(page)
           with == get_or_create_page_table(t, dir)
           entry == [present |-> TRUE, frame |-> frame, flags |-> flags]
<1>1. dir \in Indices /\ TableIndex(page) \in Indices
  BY IndicesOfPages
<1>2. /\ with \in PageTables /\ NotShared(with)
      /\ get_page_table(with, dir) = NoTable => with = t
      /\ get_page_table(with, dir) # NoTable =>
           /\ Present(with) = Present(t) \cup {dir}
           /\ dir \in Present(t) \/ Cardinality(Present(t)) < PAGE_TABLE_POOL_COUNT
      /\ \A e, j \in Indices : Entry(with, e, j) = Entry(t, e, j)
  BY <1>1, TableCreated
<1>3. CASE get_page_table(with, dir) = NoTable
  BY <1>2, <1>3 DEF map_page
<1>4. CASE get_page_table(with, dir) # NoTable
  <2>1. w = [with EXCEPT !.page_table_pool[get_page_table(with, dir)][TableIndex(page)]
                = entry]
    BY <1>4 DEF map_page
  <2>2. entry \in TableEntry \cup {NoEntry}
    BY DEF TableEntry
  <2>3. dir \in Present(with)
    BY <1>1, <1>2, <1>4
  <2> HIDE DEF dir, with, entry
  <2>4. /\ w \in PageTables /\ NotShared(w) /\ Present(w) = Present(with)
        /\ \A e \in Indices : get_page_table(w, e) = get_page_table(with, e)
        /\ \A e, k \in Indices :
             Entry(w, e, k) = IF e = dir /\ k = TableIndex(page)
                              THEN entry ELSE Entry(with, e, k)
    BY <1>1, <1>2, <2>1, <2>2, <2>3, EntryWritten
  <2>5. ASSUME NEW q \in PageNumbers
        PROVE  Walk(w, q) = IF q = page THEN entry ELSE Walk(t, q)
    <3>1. /\ DirIndex(q) \in Indices /\ TableIndex(q) \in Indices
          /\ DirIndex(q) = dir /\ TableIndex(q) = TableIndex(page) <=> q = page
      BY IndicesOfPages DEF dir
    <3>2. /\ Walk(w, q) = Entry(w, DirIndex(q), TableIndex(q))
          /\ Walk(t, q) = Entry(t, DirIndex(q), TableIndex(q))
      BY WalkIsEntry
    <3> QED
      BY <1>2, <2>4, <3>1, <3>2
  <2>6. get_page_table(w, dir) # NoTable
    BY <1>1, <1>4, <2>4
  <2> QED
    BY <1>2, <1>4, <2>4, <2>5, <2>6 DEF dir, entry
<1> QED
  BY <1>3, <1>4

\* unmap_page takes its page away and moves no other (memory.cpp:114-126).
LEMMA PageUnmapped ==
  ASSUME NEW t \in PageTables, NotShared(t), NEW page \in PageNumbers,
         NEW w, w = unmap_page(t, page)
  PROVE  /\ w \in PageTables /\ NotShared(w) /\ Present(w) = Present(t)
         /\ get_page_table(t, DirIndex(page)) = NoTable => w = t
         /\ \A q \in PageNumbers :
              Walk(w, q) = IF q = page THEN NoEntry ELSE Walk(t, q)
<1> DEFINE dir == DirIndex(page)
<1>1. dir \in Indices /\ TableIndex(page) \in Indices
  BY IndicesOfPages
<1>2. CASE get_page_table(t, dir) = NoTable
  <2>1. w = t
    BY <1>2 DEF unmap_page
  <2>2. Walk(t, page) = NoEntry
    BY <1>2 DEF Walk
  <2> QED
    BY <2>1, <2>2
<1>3. CASE get_page_table(t, dir) # NoTable
  <2>1. w = [t EXCEPT !.page_table_pool[get_page_table(t, dir)][TableIndex(page)]
               = NoEntry]
    BY <1>3 DEF unmap_page
  <2>2. dir \in Present(t)
    BY <1>1, <1>3, TableOfEntry
  <2>3. /\ w \in PageTables /\ NotShared(w) /\ Present(w) = Present(t)
        /\ \A e, k \in Indices :
             Entry(w, e, k) = IF e = dir /\ k = TableIndex(page)
                              THEN NoEntry ELSE Entry(t, e, k)
    BY <1>1, <2>1, <2>2, EntryWritten
  <2>4. ASSUME NEW q \in PageNumbers
        PROVE  Walk(w, q) = IF q = page THEN NoEntry ELSE Walk(t, q)
    <3>1. /\ DirIndex(q) \in Indices /\ TableIndex(q) \in Indices
          /\ DirIndex(q) = dir /\ TableIndex(q) = TableIndex(page) <=> q = page
      BY IndicesOfPages
    <3>2. /\ Walk(w, q) = Entry(w, DirIndex(q), TableIndex(q))
          /\ Walk(t, q) = Entry(t, DirIndex(q), TableIndex(q))
      BY WalkIsEntry
    <3> QED
      BY <2>3, <3>1, <3>2
  <2> QED
    BY <1>3, <2>3, <2>4
<1> QED
  BY <1>2, <1>3

\* What a page is mapped to is a table entry.
LEMMA WalkType ==
  ASSUME NEW t \in PageTables, NEW page \in PageNumbers
  PROVE  Walk(t, page) \in TableEntry \cup {NoEntry}
<1>1. DirIndex(page) \in Indices /\ TableIndex(page) \in Indices
  BY IndicesOfPages
<1>2. get_page_table(t, DirIndex(page)) # NoTable =>
        get_page_table(t, DirIndex(page)) \in Tables
  BY <1>1, TableOfEntry
<1> QED
  BY <1>1, <1>2, TablesShape DEF Walk

-----------------------------------------------------------------------------

(* When map_page finds a table. *)

\* Every table of the pool that is in use belongs to a directory entry.
AllOwned(t) ==
  \A i \in Tables : t.page_table_used[i] =>
    \E d \in Present(t) : t.page_directory[d].table = i

\* While fewer directory entries are present than the pool has tables, one of
\* its tables is free.
LEMMA PoolHasTable ==
  ASSUME NEW t \in PageTables, AllOwned(t), IsFiniteSet(Present(t)),
         Cardinality(Present(t)) < PAGE_TABLE_POOL_COUNT
  PROVE  FreeTable(t) # NoTable
<1> SUFFICES ASSUME \A i \in Tables : t.page_table_used[i] PROVE FALSE
  BY FreeTableFree
<1> DEFINE owner == [i \in Tables |->
                       CHOOSE d \in Present(t) : t.page_directory[d].table = i]
<1>1. ASSUME NEW i \in Tables
      PROVE  owner[i] \in Present(t) /\ t.page_directory[owner[i]].table = i
  BY DEF AllOwned
<1>2. owner \in Injection(Tables, Present(t))
  <2>1. owner \in [Tables -> Present(t)]
    BY <1>1
  <2>2. ASSUME NEW i \in Tables, NEW j \in Tables, owner[i] = owner[j]
        PROVE  i = j
    <3> HIDE DEF owner
    <3>1. t.page_directory[owner[i]].table = i
      BY <1>1
    <3>2. t.page_directory[owner[j]].table = j
      BY <1>1
    <3> QED
      BY <2>2, <3>1, <3>2
  <2> HIDE DEF owner
  <2> QED
    BY <2>1, <2>2 DEF Injection, IsInjective
<1>3. IsFiniteSet(Tables) /\ Cardinality(Tables) = PAGE_TABLE_POOL_COUNT
  BY FS_Interval DEF Tables
<1>4. Cardinality(Tables) <= Cardinality(Present(t))
  BY <1>2, FS_Injection
<1>5. Cardinality(Present(t)) \in Nat
  BY FS_CardinalityType
<1> QED
  BY <1>3, <1>4, <1>5

\* Then get_or_create_page_table has a table to give.
LEMMA TableHad ==
  ASSUME NEW t \in PageTables, AllOwned(t), IsFiniteSet(Present(t)), NEW d \in Indices,
         d \in Present(t) \/ Cardinality(Present(t)) < PAGE_TABLE_POOL_COUNT,
         NEW w, w = get_or_create_page_table(t, d), w \in PageTables
  PROVE  get_page_table(w, d) # NoTable /\ AllOwned(w)
<1> DEFINE i == FreeTable(t)
           empty == [j \in Indices |-> NoEntry]
           entry == [present |-> TRUE, table |-> i, flags |-> {"RW"}]
<1>1. CASE get_page_table(t, d) # NoTable
  BY <1>1 DEF get_or_create_page_table
<1>2. CASE get_page_table(t, d) = NoTable
  <2>1. i # NoTable /\ i \in Tables /\ ~t.page_table_used[i] /\ d \notin Present(t)
    BY <1>2, TableOfEntry, PoolHasTable, FreeTableFree
  <2>2. /\ w.page_directory = [t.page_directory EXCEPT ![d] = entry]
        /\ w.page_table_used = [t.page_table_used EXCEPT ![i] = TRUE]
    BY <1>2, <2>1 DEF get_or_create_page_table, alloc_page_table, PageTables
  <2> HIDE DEF i, entry
  <2>3. \A e \in Indices :
          w.page_directory[e] = IF e = d THEN entry ELSE t.page_directory[e]
    BY <2>2, TablesShape
  <2>4. \A k \in Tables \ {i} : w.page_table_used[k] = t.page_table_used[k]
    BY <2>1, <2>2, TablesShape
  <2>5. entry.present = TRUE /\ entry.table = i
    BY DEF entry
  <2>6. d \in Present(w) /\ w.page_directory[d].table = i
    BY <2>3, <2>5 DEF Present
  <2>7. \A e \in Present(t) :
          /\ e \in Present(w)
          /\ w.page_directory[e].table = t.page_directory[e].table
    BY <2>1, <2>3 DEF Present
  <2>8. AllOwned(w)
    <3> SUFFICES ASSUME NEW k \in Tables, w.page_table_used[k]
                 PROVE  \E e \in Present(w) : w.page_directory[e].table = k
      BY DEF AllOwned
    <3>1. CASE k = i
      BY <2>6, <3>1
    <3>2. CASE k # i
      <4>1. PICK e \in Present(t) : t.page_directory[e].table = k
        BY <2>4, <3>2 DEF AllOwned
      <4> QED
        BY <2>7, <4>1
    <3> QED
      BY <3>1, <3>2
  <2>9. get_page_table(w, d) # NoTable
    BY <2>6, TableOfEntry
  <2> QED
    BY <2>8, <2>9
<1> QED
  BY <1>1, <1>2

\* And map_page maps the page.
LEMMA PageHad ==
  ASSUME NEW t \in PageTables, NotShared(t), AllOwned(t), IsFiniteSet(Present(t)),
         NEW page \in PageNumbers,
         \/ DirIndex(page) \in Present(t)
         \/ Cardinality(Present(t)) < PAGE_TABLE_POOL_COUNT,
         NEW frame \in Frames, NEW flags \in SUBSET Flags,
         NEW w, w = map_page(t, page, frame, flags)
  PROVE  get_page_table(w, DirIndex(page)) # NoTable /\ AllOwned(w)
<1> DEFINE dir == DirIndex(page)
           with == get_or_create_page_table(t, dir)
           entry == [present |-> TRUE, frame |-> frame, flags |-> flags]
<1>1. dir \in Indices /\ TableIndex(page) \in Indices
  BY IndicesOfPages
<1>2. with \in PageTables /\ NotShared(with)
  BY <1>1, TableCreated
<1>3. get_page_table(with, dir) # NoTable /\ AllOwned(with)
  BY <1>1, <1>2, TableHad
<1>4. w = [with EXCEPT !.page_table_pool[get_page_table(with, dir)][TableIndex(page)]
              = entry]
  BY <1>3 DEF map_page
<1>5. dir \in Present(with)
  BY <1>1, <1>2, <1>3, TableOfEntry
<1> HIDE DEF dir, with, entry
<1>6. /\ w.page_directory = with.page_directory
      /\ w.page_table_used = with.page_table_used
  BY <1>2, <1>4 DEF PageTables
<1>7. get_page_table(w, dir) = get_page_table(with, dir) /\ Present(w) = Present(with)
  BY <1>6 DEF get_page_table, Present
<1> QED
  BY <1>3, <1>6, <1>7 DEF AllOwned, dir

\* w is t with page mapped to frame with flags, and mapped for certain.
Mapped(t, w, page, frame, flags) ==
  /\ w \in PageTables /\ NotShared(w) /\ AllOwned(w)
  /\ Present(w) = Present(t) \cup {DirIndex(page)}
  /\ \A q \in PageNumbers :
       Walk(w, q) = IF q = page
                    THEN [present |-> TRUE, frame |-> frame, flags |-> flags]
                    ELSE Walk(t, q)

\* So it is when directory entries are fewer than tables.
LEMMA PageMappedSurely ==
  ASSUME NEW t \in PageTables, NotShared(t), AllOwned(t), IsFiniteSet(Present(t)),
         NEW page \in PageNumbers,
         \/ DirIndex(page) \in Present(t)
         \/ Cardinality(Present(t)) < PAGE_TABLE_POOL_COUNT,
         NEW frame \in Frames, NEW flags \in SUBSET Flags
  PROVE  Mapped(t, map_page(t, page, frame, flags), page, frame, flags)
<1>1. PICK w : w = map_page(t, page, frame, flags)
  OBVIOUS
<1>2. get_page_table(w, DirIndex(page)) # NoTable /\ AllOwned(w)
  BY <1>1, PageHad
<1>3. /\ w \in PageTables /\ NotShared(w)
      /\ get_page_table(w, DirIndex(page)) # NoTable =>
           /\ Present(w) = Present(t) \cup {DirIndex(page)}
           /\ \A q \in PageNumbers :
                Walk(w, q) = IF q = page
                             THEN [present |-> TRUE, frame |-> frame, flags |-> flags]
                             ELSE Walk(t, q)
  BY <1>1, PageMapped
<1> QED
  BY <1>1, <1>2, <1>3 DEF Mapped

-----------------------------------------------------------------------------

(* The tables paging_init leaves. *)

\* The tables paging_init leaves.
LEMMA InitialTables ==
  /\ paging_init \in PageTables /\ NotShared(paging_init)
  /\ Present(paging_init) = {0}
  /\ \A q \in PageNumbers :
       Walk(paging_init, q) \in
         [present: {TRUE}, frame: Indices, flags: {{"RW", "USER"}}] \cup {NoEntry}
<1> DEFINE none == [j \in Indices |-> NoEntry]
           user == [i \in Indices |->
                      [present |-> TRUE, frame |-> i, flags |-> {"RW", "USER"}]]
           first == [present |-> TRUE, table |-> 0, flags |-> {"RW", "USER"}]
           t == paging_init
<1>1. 0 \in Indices /\ 0 \in Tables
  BY DEF Indices, Tables
<1>2. /\ t.page_directory = [none EXCEPT ![0] = first]
      /\ t.page_table_pool = [[k \in Tables |-> none] EXCEPT ![0] = user]
      /\ t.page_table_used = [k \in Tables |-> k = 0]
  BY DEF paging_init
<1>3. /\ none \in [Indices -> DirectoryEntry \cup {NoEntry}]
      /\ none \in [Indices -> TableEntry \cup {NoEntry}]
      /\ user \in [Indices -> TableEntry \cup {NoEntry}]
      /\ first \in DirectoryEntry
  BY <1>1 DEF DirectoryEntry, TableEntry, Flags, Frames, Indices
<1>4. t \in PageTables
  <2>1. [none EXCEPT ![0] = first] \in [Indices -> DirectoryEntry \cup {NoEntry}]
    BY <1>1, <1>3
  <2>2. [[k \in Tables |-> none] EXCEPT ![0] = user]
          \in [Tables -> [Indices -> TableEntry \cup {NoEntry}]]
    BY <1>1, <1>3
  <2>3. [k \in Tables |-> k = 0] \in [Tables -> BOOLEAN]
    OBVIOUS
  <2> QED
    BY <2>1, <2>2, <2>3 DEF paging_init, PageTables
<1>5. \A d \in Indices : t.page_directory[d] = IF d = 0 THEN first ELSE NoEntry
  BY <1>2
<1>6. Present(t) = {0}
  BY <1>1, <1>5 DEF Present, NoEntry
<1>7. NotShared(t)
  <2>1. t.page_directory[0].table = 0
    BY <1>1, <1>5
  <2>2. t.page_table_used[0]
    <3>1. t.page_table_used[0] = (0 = 0)
      BY <1>1, <1>2
    <3> QED
      BY <3>1
  <2> QED
    BY <1>6, <2>1, <2>2 DEF NotShared
<1>8. ASSUME NEW q \in PageNumbers
      PROVE  Walk(t, q) \in
               [present: {TRUE}, frame: Indices, flags: {{"RW", "USER"}}]
                 \cup {NoEntry}
  <2>1. DirIndex(q) \in Indices /\ TableIndex(q) \in Indices
    BY IndicesOfPages
  <2>2. CASE DirIndex(q) = 0
    <3>1. get_page_table(t, DirIndex(q)) = 0
      BY <1>1, <1>4, <1>5, <1>6, <2>2, TableOfEntry
    <3>2. t.page_table_pool[0] = user /\ NoTable # 0
      BY <1>1, <1>2 DEF NoTable
    <3>3. Walk(t, q) = user[TableIndex(q)]
      BY <3>1, <3>2 DEF Walk
    <3> QED
      BY <2>1, <3>3
  <2>3. CASE DirIndex(q) # 0
    <3>1. get_page_table(t, DirIndex(q)) = NoTable
      BY <1>4, <1>6, <2>1, <2>3, TableOfEntry
    <3> QED
      BY <3>1 DEF Walk
  <2> QED
    BY <2>2, <2>3
<1> QED
  BY <1>4, <1>6, <1>7, <1>8

\* After paging_init the one table in use is that of directory entry 0, and
\* every page of its region is its own frame.
LEMMA InitialRegion ==
  /\ AllOwned(paging_init)
  /\ \A q \in Indices :
       Walk(paging_init, q) = [present |-> TRUE, frame |-> q, flags |-> {"RW", "USER"}]
<1> DEFINE none == [j \in Indices |-> NoEntry]
           user == [i \in Indices |->
                      [present |-> TRUE, frame |-> i, flags |-> {"RW", "USER"}]]
           first == [present |-> TRUE, table |-> 0, flags |-> {"RW", "USER"}]
           t == paging_init
<1>1. 0 \in Indices /\ 0 \in Tables
  BY DEF Indices, Tables
<1>2. /\ t.page_directory = [none EXCEPT ![0] = first]
      /\ t.page_table_pool = [[k \in Tables |-> none] EXCEPT ![0] = user]
      /\ t.page_table_used = [k \in Tables |-> k = 0]
  BY DEF paging_init
<1>3. t.page_directory[0] = first
  BY <1>1, <1>2
<1>4. AllOwned(t)
  <2>1. 0 \in Present(t) /\ t.page_directory[0].table = 0
    BY <1>1, <1>3 DEF Present
  <2>2. \A k \in Tables : t.page_table_used[k] => k = 0
    BY <1>2
  <2> HIDE DEF t
  <2> QED
    BY <2>1, <2>2 DEF AllOwned
<1>5. ASSUME NEW q \in Indices PROVE Walk(t, q) = user[q]
  <2>1. q \in Nat /\ q < PAGE_ENTRIES
    BY DEF Indices
  <2>2. q \div PAGE_ENTRIES = 0 /\ q % PAGE_ENTRIES = q
    BY <2>1
  <2>3. DirIndex(q) = 0 /\ TableIndex(q) = q
    BY <2>2 DEF DirIndex, TableIndex
  <2>4. get_page_table(t, 0) = 0 /\ NoTable # 0
    BY <1>3 DEF get_page_table, NoTable
  <2>5. t.page_table_pool[0] = user
    BY <1>1, <1>2
  <2> QED
    BY <2>3, <2>4, <2>5 DEF Walk
<1> QED
  BY <1>4, <1>5

-----------------------------------------------------------------------------

(***************************************************************************)
(* The inductive invariant.  CacheCoherent rests on TablesNotShared, since *)
(* invlpg drops the translation of one page only: had two directory        *)
(* entries one table, or had one a table that is free, mapping a page      *)
(* would change what the processor has cached for others.  That every      *)
(* table in use belongs to a directory entry says that the pool is empty   *)
(* only when as many entries as it has tables are present.                 *)
(***************************************************************************)
PagingInv == PagingTypeOK /\ TablesNotShared /\ CacheCoherent /\ AllOwned(paging)

\* What the callers pass to map_page is in range.
LEMMA PagesAreNumbers ==
  /\ MappedPages \subseteq PageNumbers
  /\ MappedFrames \subseteq Frames /\ MapFlags \subseteq SUBSET Flags
BY PagingAssumption DEF PageNumbers

\* TablesNotShared, in the words of the lemmas.
LEMMA NotSharedIsInvariant == TablesNotShared <=> NotShared(paging)
BY DEF TablesNotShared, NotShared, Present

\* The inductive invariant holds of the tables paging_init leaves ...
LEMMA TablesBegin == PagingInit => PagingInv
<1> SUFFICES ASSUME PagingInit PROVE PagingInv
  OBVIOUS
<1>1. paging \in PageTables /\ TablesNotShared /\ AllOwned(paging)
  BY InitialTables, InitialRegion, NotSharedIsInvariant DEF PagingInit
<1>2. DOMAIN tlb = {}
  BY DEF PagingInit
<1> QED
  BY <1>1, <1>2 DEF PagingInv, PagingTypeOK, CacheCoherent

\* Dropping one page from the cache keeps it coherent when the tables change
\* for that page alone.
LEMMA CacheAfterInvlpg ==
  ASSUME PagingInv, NEW page \in MappedPages,
         tlb' = invlpg(tlb, page),
         \A q \in PageNumbers : q # page => Walk(paging', q) = Walk(paging, q)
  PROVE  /\ DOMAIN tlb' \subseteq MappedPages
         /\ \A q \in DOMAIN tlb' : tlb'[q] \in TableEntry
         /\ CacheCoherent'
<1>1. /\ DOMAIN tlb' = DOMAIN tlb \ {page}
      /\ \A q \in DOMAIN tlb' : tlb'[q] = tlb[q]
  BY DEF invlpg, Without
<1> QED
  BY <1>1, PagesAreNumbers DEF PagingInv, PagingTypeOK, CacheCoherent

\* There are finitely many directory entries.
LEMMA PresentFinite ==
  ASSUME NEW t
  PROVE  IsFiniteSet(Present(t))
<1>1. IsFiniteSet(Indices)
  BY FS_Interval DEF Indices
<1> QED
  BY <1>1, FS_Subset DEF Present

\* When map_page has no table for a page, its directory entry has none and the
\* pool has given all it has; and never is a table lost to it.
LEMMA OnlyRefusedWhenExhausted ==
  ASSUME NEW t \in PageTables, NotShared(t), AllOwned(t), NEW page \in PageNumbers,
         NEW frame \in Frames, NEW flags \in SUBSET Flags,
         NEW w, w = map_page(t, page, frame, flags)
  PROVE  /\ AllOwned(w)
         /\ get_page_table(w, DirIndex(page)) = NoTable =>
              /\ DirIndex(page) \notin Present(t)
              /\ ~(Cardinality(Present(t)) < PAGE_TABLE_POOL_COUNT)
<1>1. IsFiniteSet(Present(t))
  BY PresentFinite
<1>2. /\ get_page_table(w, DirIndex(page)) = NoTable => w = t
      /\ get_page_table(w, DirIndex(page)) # NoTable =>
           \/ DirIndex(page) \in Present(t)
           \/ Cardinality(Present(t)) < PAGE_TABLE_POOL_COUNT
  BY PageMapped
<1>3. CASE \/ DirIndex(page) \in Present(t)
           \/ Cardinality(Present(t)) < PAGE_TABLE_POOL_COUNT
  BY <1>1, <1>3, PageHad
<1>4. CASE /\ DirIndex(page) \notin Present(t)
           /\ ~(Cardinality(Present(t)) < PAGE_TABLE_POOL_COUNT)
  BY <1>2, <1>4
<1> QED
  BY <1>3, <1>4

\* unmap_page gives no table back.
LEMMA OwnedAfterUnmap ==
  ASSUME NEW t \in PageTables, AllOwned(t), NEW page,
         NEW w, w = unmap_page(t, page)
  PROVE  AllOwned(w)
<1>1. /\ w.page_directory = t.page_directory
      /\ w.page_table_used = t.page_table_used
  BY DEF unmap_page, PageTables
<1> QED
  BY <1>1 DEF AllOwned, Present

\* ... map_page keeps it, ...
LEMMA MapPageInv ==
  ASSUME PagingInv, NEW page \in MappedPages, NEW frame \in MappedFrames,
         NEW flags \in MapFlags, MapPage(page, frame, flags)
  PROVE  PagingInv'
<1>1. /\ paging \in PageTables /\ NotShared(paging) /\ AllOwned(paging)
      /\ paging' = map_page(paging, page, frame, flags)
      /\ page \in PageNumbers /\ frame \in Frames /\ flags \in SUBSET Flags
  BY PagesAreNumbers, NotSharedIsInvariant DEF PagingInv, PagingTypeOK, MapPage
<1>2. /\ paging' \in PageTables /\ NotShared(paging')
      /\ get_page_table(paging', DirIndex(page)) = NoTable => paging' = paging
      /\ get_page_table(paging', DirIndex(page)) # NoTable =>
           \A q \in PageNumbers : q # page => Walk(paging', q) = Walk(paging, q)
  BY <1>1, PageMapped
<1>3. TablesNotShared'
  BY <1>2 DEF TablesNotShared, NotShared, Present
<1>4. AllOwned(paging')
  BY <1>1, OnlyRefusedWhenExhausted
<1>5. CASE get_page_table(paging', DirIndex(page)) = NoTable
  <2>1. UNCHANGED <<paging, tlb>>
    BY <1>2, <1>5 DEF MapPage
  <2> QED
    BY <2>1 DEF PagingInv, PagingTypeOK, TablesNotShared, CacheCoherent
<1>6. CASE get_page_table(paging', DirIndex(page)) # NoTable
  <2>1. tlb' = invlpg(tlb, page)
    BY <1>6 DEF MapPage
  <2> QED
    BY <1>2, <1>3, <1>6, <1>4, <2>1, CacheAfterInvlpg DEF PagingInv, PagingTypeOK
<1> QED
  BY <1>5, <1>6

\* ... unmap_page keeps it, ...
LEMMA UnmapPageInv ==
  ASSUME PagingInv, NEW page \in MappedPages, UnmapPage(page)
  PROVE  PagingInv'
<1>1. /\ paging \in PageTables /\ NotShared(paging) /\ paging' = unmap_page(paging, page)
      /\ page \in PageNumbers
  BY PagesAreNumbers, NotSharedIsInvariant DEF PagingInv, PagingTypeOK, UnmapPage
<1>2. /\ paging' \in PageTables /\ NotShared(paging')
      /\ get_page_table(paging, DirIndex(page)) = NoTable => paging' = paging
      /\ \A q \in PageNumbers : q # page => Walk(paging', q) = Walk(paging, q)
  BY <1>1, PageUnmapped
<1>3. TablesNotShared'
  BY <1>2 DEF TablesNotShared, NotShared, Present
<1>4. AllOwned(paging')
  BY <1>1, OwnedAfterUnmap DEF PagingInv
<1>5. CASE get_page_table(paging, DirIndex(page)) = NoTable
  <2>1. UNCHANGED <<paging, tlb>>
    BY <1>2, <1>5 DEF UnmapPage
  <2> QED
    BY <2>1 DEF PagingInv, PagingTypeOK, TablesNotShared, CacheCoherent
<1>6. CASE get_page_table(paging, DirIndex(page)) # NoTable
  <2>1. tlb' = invlpg(tlb, page)
    BY <1>6 DEF UnmapPage
  <2> QED
    BY <1>2, <1>3, <1>4, <2>1, CacheAfterInvlpg DEF PagingInv, PagingTypeOK
<1> QED
  BY <1>5, <1>6

\* ... and so does the processor when it caches what it finds.
LEMMA CachesWalkInv ==
  ASSUME PagingInv, NEW page \in MappedPages, CpuCachesWalk(page)
  PROVE  PagingInv'
<1>1. /\ Walk(paging, page) \in TableEntry \cup {NoEntry} /\ Walk(paging, page).present
      /\ DOMAIN tlb \subseteq MappedPages
  BY PagesAreNumbers, WalkType DEF PagingInv, PagingTypeOK, CpuCachesWalk
<1>2. Walk(paging, page) \in TableEntry
  BY <1>1 DEF NoEntry
<1>3. /\ DOMAIN tlb' = DOMAIN tlb \cup {page} /\ paging' = paging
      /\ \A q \in DOMAIN tlb' : tlb'[q] = IF q = page THEN Walk(paging, page) ELSE tlb[q]
  BY DEF CpuCachesWalk
<1> QED
  BY <1>1, <1>2, <1>3 DEF PagingInv, PagingTypeOK, TablesNotShared, CacheCoherent

\* So every step keeps it, ...
LEMMA TablesKept == PagingInv /\ [PagingNext]_pagingVars => PagingInv'
<1> SUFFICES ASSUME PagingInv, [PagingNext]_pagingVars PROVE PagingInv'
  OBVIOUS
<1>1. ASSUME NEW page \in MappedPages, NEW frame \in MappedFrames,
             NEW flags \in MapFlags, MapPage(page, frame, flags)
      PROVE  PagingInv'
  BY <1>1, MapPageInv
<1>2. ASSUME NEW page \in MappedPages, UnmapPage(page)
      PROVE  PagingInv'
  BY <1>2, UnmapPageInv
<1>3. ASSUME NEW page \in MappedPages, CpuCachesWalk(page)
      PROVE  PagingInv'
  BY <1>3, CachesWalkInv
<1>4. CASE UNCHANGED pagingVars
  BY <1>4 DEF pagingVars, PagingInv, PagingTypeOK, TablesNotShared, CacheCoherent
<1> QED
  BY <1>1, <1>2, <1>3, <1>4 DEF PagingNext

\* ... and it holds always.
LEMMA PagingInvHolds == PagingSpec => []PagingInv
BY TablesBegin, TablesKept, PTL DEF PagingSpec

\* Directory entries lead to tables of the pool and table entries to frames.
THEOREM PagingTypes == PagingSpec => []PagingTypeOK
<1>1. PagingInv => PagingTypeOK
  BY DEF PagingInv
<1> QED
  BY <1>1, PagingInvHolds, PTL

\* alloc_page_table never hands out a page table that a directory entry leads
\* to already (memory.cpp:52-95).
THEOREM TablesNeverShared == PagingSpec => []TablesNotShared
<1>1. PagingInv => TablesNotShared
  BY DEF PagingInv
<1> QED
  BY <1>1, PagingInvHolds, PTL

\* The processor's cached translations never disagree with the tables: one
\* invlpg per map_page and unmap_page is enough (memory.cpp:111 and :125).
THEOREM CacheStaysCoherent == PagingSpec => []CacheCoherent
<1>1. PagingInv => CacheCoherent
  BY DEF PagingInv
<1> QED
  BY <1>1, PagingInvHolds, PTL

-----------------------------------------------------------------------------

(* The tables implement a flat map. *)

FlatSpace(t) == [page \in MappedPages |-> Walk(t, page)]

\* The refinement mapping of Paging, in the words of the lemmas.
LEMMA FlatVars ==
  /\ Flat!spaceVars = <<FlatSpace(paging), Present(paging), request>>
  /\ Flat!spaceVars' = <<FlatSpace(paging'), Present(paging'), request'>>
BY DEF Flat!spaceVars, FlatSpace, Present

\* A page of the flat map lies in the region of its directory entry.
LEMMA RegionIsDirIndex ==
  ASSUME NEW page \in MappedPages
  PROVE  Flat!Region(page) = DirIndex(page)
BY PageSplit, PagesAreNumbers DEF Flat!Region, PageNumbers

\* Cardinality means the same in both modules.
LEMMA FlatCardinality ==
  ASSUME NEW S
  PROVE  Flat!Cardinality(S) = Cardinality(S)
BY DEF Flat!Cardinality, Cardinality

\* The tables paging_init leaves are an initial flat map.
LEMMA FlatInit == PagingInit => Flat!SpaceInit
<1> SUFFICES ASSUME PagingInit PROVE Flat!SpaceInit
  OBVIOUS
<1>1. Present(paging) = {0}
  BY InitialTables DEF PagingInit
<1>2. \A page \in MappedPages :
        Walk(paging, page) \in [present: {TRUE}, frame: MappedFrames \cup Indices,
                            flags: SUBSET Flags] \cup {NoEntry}
  <2>1. ASSUME NEW page \in MappedPages
        PROVE  Walk(paging, page) \in
                 [present: {TRUE}, frame: Indices, flags: {{"RW", "USER"}}]
                   \cup {NoEntry}
    BY InitialTables, PagesAreNumbers DEF PagingInit
  <2>2. [present: {TRUE}, frame: Indices, flags: {{"RW", "USER"}}] \subseteq
          [present: {TRUE}, frame: MappedFrames \cup Indices, flags: SUBSET Flags]
    BY DEF Flags
  <2> QED
    BY <2>1, <2>2
<1> QED
  BY <1>1, <1>2 DEF Flat!SpaceInit, Present, PagingInit

\* Whether the flat map can back a page is a matter of directory entries.
LEMMA FlatCanBack ==
  ASSUME NEW page \in MappedPages
  PROVE  Flat!CanBack(page) <=>
           \/ DirIndex(page) \in Present(paging)
           \/ Cardinality(Present(paging)) < PAGE_TABLE_POOL_COUNT
<1>1. Flat!Region(page) = DirIndex(page)
  BY RegionIsDirIndex
<1>2. Flat!Cardinality(Present(paging)) = Cardinality(Present(paging))
  BY FlatCardinality
<1> QED
  BY <1>1, <1>2 DEF Flat!CanBack, Present

\* map_page maps the page in the flat map, or is refused there.
LEMMA FlatMapStep ==
  ASSUME PagingInv, NEW page \in MappedPages, NEW frame \in MappedFrames,
         NEW flags \in MapFlags, MapPage(page, frame, flags)
  PROVE  Flat!SpaceNext
<1> DEFINE entry == [present |-> TRUE, frame |-> frame, flags |-> flags]
<1>1. /\ paging \in PageTables /\ NotShared(paging) /\ AllOwned(paging)
      /\ paging' = map_page(paging, page, frame, flags)
      /\ page \in PageNumbers /\ frame \in Frames /\ flags \in SUBSET Flags
  BY PagesAreNumbers, NotSharedIsInvariant DEF PagingInv, PagingTypeOK, MapPage
<1>2. /\ get_page_table(paging', DirIndex(page)) = NoTable => paging' = paging
      /\ get_page_table(paging', DirIndex(page)) # NoTable =>
           /\ Present(paging') = Present(paging) \cup {DirIndex(page)}
           /\ \/ DirIndex(page) \in Present(paging)
              \/ Cardinality(Present(paging)) < PAGE_TABLE_POOL_COUNT
           /\ \A q \in PageNumbers :
                Walk(paging', q) = IF q = page THEN entry ELSE Walk(paging, q)
  BY <1>1, PageMapped
<1>3. request' = <<"map", page, entry>>
  BY DEF MapPage
<1>4. entry \in [present: {TRUE}, frame: MappedFrames \cup Indices,
                 flags: SUBSET Flags]
  BY <1>1
<1>5. CASE get_page_table(paging', DirIndex(page)) = NoTable
  <2>1. /\ DirIndex(page) \notin Present(paging)
        /\ ~(Cardinality(Present(paging)) < PAGE_TABLE_POOL_COUNT)
    BY <1>1, <1>5, OnlyRefusedWhenExhausted
  <2>2. ~Flat!CanBack(page)
    BY <2>1, FlatCanBack
  <2>3. /\ FlatSpace(paging') = FlatSpace(paging)
        /\ Present(paging') = Present(paging)
    BY <1>2, <1>5
  <2> HIDE DEF entry
  <2>4. Flat!Refuse(page, entry)
    BY <1>3, <2>2, <2>3, Zenon DEF Flat!Refuse, FlatSpace, Present
  <2> QED
    BY <1>4, <2>4 DEF Flat!SpaceNext
<1>6. CASE get_page_table(paging', DirIndex(page)) # NoTable
  <2>1. FlatSpace(paging') = [FlatSpace(paging) EXCEPT ![page] = entry]
    BY <1>2, <1>6, PagesAreNumbers DEF FlatSpace
  <2>2. /\ Flat!CanBack(page)
        /\ Present(paging') = Present(paging) \cup {Flat!Region(page)}
    BY <1>2, <1>6, FlatCanBack, RegionIsDirIndex
  <2> HIDE DEF entry
  <2>3. Flat!Map(page, entry)
    BY <1>3, <2>1, <2>2, Zenon DEF Flat!Map, FlatSpace, Present
  <2> QED
    BY <1>4, <2>3 DEF Flat!SpaceNext
<1> QED
  BY <1>5, <1>6

\* unmap_page unmaps it there.
LEMMA FlatUnmapStep ==
  ASSUME PagingInv, NEW page \in MappedPages, UnmapPage(page)
  PROVE  Flat!SpaceNext
<1>1. /\ paging \in PageTables /\ NotShared(paging) /\ paging' = unmap_page(paging, page)
      /\ page \in PageNumbers
  BY PagesAreNumbers, NotSharedIsInvariant DEF PagingInv, PagingTypeOK, UnmapPage
<1>2. /\ Present(paging') = Present(paging)
      /\ \A q \in PageNumbers :
           Walk(paging', q) = IF q = page THEN NoEntry ELSE Walk(paging, q)
  BY <1>1, PageUnmapped
<1>3. FlatSpace(paging') = [FlatSpace(paging) EXCEPT ![page] = NoEntry]
  BY <1>2, PagesAreNumbers DEF FlatSpace
<1>4. request' = <<"unmap", page>>
  BY DEF UnmapPage
<1>5. Flat!Unmap(page)
  BY <1>2, <1>3, <1>4 DEF Flat!Unmap, FlatSpace, Present
<1> QED
  BY <1>5 DEF Flat!SpaceNext

\* Every step of the tables is a step of the flat map or changes nothing of it.
LEMMA FlatStep ==
  PagingInv /\ [PagingNext]_pagingVars => [Flat!SpaceNext]_(Flat!spaceVars)
<1> SUFFICES ASSUME PagingInv, [PagingNext]_pagingVars
             PROVE  Flat!SpaceNext \/ UNCHANGED Flat!spaceVars
  OBVIOUS
<1>1. ASSUME NEW page \in MappedPages, NEW frame \in MappedFrames,
             NEW flags \in MapFlags, MapPage(page, frame, flags)
      PROVE  Flat!SpaceNext
  BY <1>1, FlatMapStep
<1>2. ASSUME NEW page \in MappedPages, UnmapPage(page)
      PROVE  Flat!SpaceNext
  BY <1>2, FlatUnmapStep
<1>3. ASSUME NEW page \in MappedPages, CpuCachesWalk(page)
      PROVE  UNCHANGED Flat!spaceVars
  BY <1>3, FlatVars DEF CpuCachesWalk
<1>4. CASE UNCHANGED pagingVars
  BY <1>4, FlatVars DEF pagingVars
<1> QED
  BY <1>1, <1>2, <1>3, <1>4 DEF PagingNext

\* Two levels of tables taken from a pool are one flat map from pages to
\* entries; map_page does nothing only when as many directory entries have a
\* table as the pool is large and the page's has none (memory.cpp:52-126).
THEOREM PagingIsFlatMap == PagingSpec => ImplementsFlatMap
BY PagingInvHolds, FlatInit, FlatStep, PTL
   DEF PagingSpec, ImplementsFlatMap, Flat!SpaceSpec
=============================================================================
