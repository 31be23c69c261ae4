------------------------------ MODULE HeapProofs ------------------------------
(***************************************************************************)
(* Proofs about Heap, for every client whose sizes keep the 32-bit sums    *)
(* from wrapping and for every layout of the heap that HeapBounded admits. *)
(* The first part is lemmas about the operators of Heap on maps of block   *)
(* headers: what align_up returns, what the walks along the list find, and *)
(* that split_block, coalesce_with_next, kfree, extend_heap_to_fit,        *)
(* kmalloc and krealloc keep a list sound.  The second part is the         *)
(* inductive invariant and the theorems.                                   *)
(***************************************************************************)
EXTENDS HeapBounded, PagingProofs

USE PageTablesAssumption, HeapAssumption

\* A map of headers, as Heap's blocks.
Headers(m) ==
  /\ m \in [DOMAIN m -> HeapBlock]
  /\ DOMAIN m \subseteq Nat \ {Null}

\* ListConsistent of Heap for any map of headers and any end of the heap; and
\* the list reaches up to the end, unless growth met its limit.
Linked(m, end, C) ==
  /\ g_heap_start \in C /\ C \subseteq DOMAIN m
  /\ \A b \in C : g_heap_start <= b /\ BlockEnd(m, b) <= end
  /\ \A a, b \in C : a < b => BlockEnd(m, a) <= b
  /\ \A b \in C : m[b].next = Null =>
       /\ \A a \in C : a <= b
       /\ BlockEnd(m, b) = end \/ end >= HEAP_VIRT_LIMIT
  /\ \A b \in C : m[b].next # Null =>
       /\ m[b].next \in C
       /\ m[b].next = BlockEnd(m, b)
       /\ m[m[b].next].prev = b
  /\ \A b \in C : m[b].prev = Null => b = g_heap_start
  /\ \A b \in C : m[b].prev # Null =>
       /\ m[b].prev \in C
       /\ m[m[b].prev].next = b

\* Headers off the list read as free and lie in the payload of a block that is
\* free, or of block x, which a call that has not returned yet works on.
Stale(m, C, x) ==
  \A s \in DOMAIN m \ C :
    /\ m[s].free
    /\ \E b \in C : /\ m[b].free \/ b = x
                    /\ b + header_size <= s
                    /\ s + header_size <= BlockEnd(m, b)

Sound(m, end, C, x) == Headers(m) /\ Linked(m, end, C) /\ Stale(m, C, x)

InUse(m, C) == {b \in C : ~m[b].free}

\* Apart from those in X, the same blocks are in use, with the same sizes.
Kept(m, C, n, D, X) ==
  /\ InUse(n, D) \ X = InUse(m, C) \ X
  /\ \A b \in InUse(m, C) \ X : n[b].size = m[b].size

\* What a call that works on block b, without taking or freeing it, leaves of
\* a sound list C: a sound list D in which the other blocks in use are kept.
Worked(m, C, n, D, end, x, b) ==
  /\ Sound(n, end, D, x)
  /\ Kept(m, C, n, D, {b})
  /\ b \in D /\ n[b].free = m[b].free

-----------------------------------------------------------------------------

(* Numbers. *)

\* What division and remainder give.
LEMMA DivMod ==
  ASSUME NEW n \in Nat \ {0}, NEW a \in Nat
  PROVE  /\ a \div n \in Nat /\ a % n \in Nat /\ a % n < n
         /\ a = (a \div n) * n + (a % n)
  OBVIOUS

\* Quotient and remainder are the only such numbers.
LEMMA DivModUnique ==
  ASSUME NEW n \in Nat \ {0}, NEW q \in Nat, NEW r \in Nat, r < n
  PROVE  /\ (q * n + r) \div n = q
         /\ (q * n + r) % n = r
  OBVIOUS

\* A set of numbers that is bounded has a largest one.
LEMMA LargestElement ==
  ASSUME NEW T \in SUBSET Nat, T # {}, NEW top \in Nat, \A y \in T : y <= top
  PROVE  \E x \in T : \A y \in T : y <= x
<1> DEFINE Less == {ss \in Nat \X Nat : ss[1] < ss[2]}
           Below == {top - y : y \in T}
<1>1. IsWellFoundedOn(Less, Nat)
  BY NatLessThanWellFounded DEF OpToRel
<1>2. Below \subseteq Nat /\ Below # {}
  <2>1. \A y \in T : top - y \in Nat
    OBVIOUS
  <2> QED
    BY <2>1, Zenon
<1>3. \E x \in Below : \A y \in Below : ~(<<y, x>> \in Less)
  <2> HIDE DEF Less, Below
  <2> QED
    BY <1>1, <1>2, WFMin
<1>4. PICK x \in T : \A y \in Below : ~(<<y, top - x>> \in Less)
  BY <1>3
<1>5. \A y \in T : y <= x
  <2>1. TAKE y \in T
  <2>2. ~(<<top - y, top - x>> \in Less)
    BY <1>4
  <2>3. top - y \in Nat /\ top - x \in Nat
    OBVIOUS
  <2>4. ~(top - y < top - x)
    BY <2>2, <2>3
  <2> QED
    BY <2>4
<1> QED
  BY <1>5

\* Rounding up, where the sum does not wrap.
LEMMA AlignUp ==
  ASSUME NEW v \in Nat, NEW a \in Nat \ {0}, v + a <= WORD
  PROVE  /\ align_up(v, a) \in Nat
         /\ v <= align_up(v, a) /\ align_up(v, a) < v + a
         /\ align_up(v, a) = (align_up(v, a) \div a) * a
         /\ align_up(v, a) \div a \in Nat
<1>1. PICK u : u = v + a - 1
  OBVIOUS
<1>2. u \in Nat /\ u < WORD
  BY <1>1
<1>3. u % WORD = u
  BY <1>2
<1>4. align_up(v, a) = u - (u % a)
  BY <1>1, <1>3 DEF align_up
<1>5. PICK q, r : q = u \div a /\ r = u % a
  OBVIOUS
<1>6. q \in Nat /\ r \in Nat /\ r < a /\ u = q * a + r
  BY <1>2, <1>5, DivMod
<1>7. q * a \in Nat
  BY <1>6
<1>8. align_up(v, a) = q * a + 0
  BY <1>4, <1>5, <1>6, <1>7
<1>9. (q * a + 0) \div a = q
  BY <1>6, DivModUnique
<1>10. align_up(v, a) \div a = q
  BY <1>8, <1>9
<1>11. align_up(v, a) = q * a
  BY <1>7, <1>8
<1>12. v <= q * a /\ q * a < v + a
  BY <1>1, <1>6, <1>7
<1> QED
  BY <1>6, <1>7, <1>10, <1>11, <1>12

\* A size that is rounded up already stays as it is.
LEMMA AlignUpAgain ==
  ASSUME NEW k \in Nat, NEW a \in Nat \ {0}, k * a + a <= WORD
  PROVE  align_up(k * a, a) = k * a
<1>1. PICK v : v = k * a
  OBVIOUS
<1>2. v \in Nat
  BY <1>1
<1>3. PICK u : u = v + a - 1
  OBVIOUS
<1>4. u \in Nat /\ u < WORD
  BY <1>1, <1>2, <1>3
<1>5. u % WORD = u
  BY <1>4
<1>6. u = k * a + (a - 1)
  BY <1>1, <1>2, <1>3
<1>7. (k * a + (a - 1)) % a = a - 1
  BY DivModUnique
<1>8. u % a = a - 1
  BY <1>6, <1>7
<1>9. align_up(v, a) = u - (u % a)
  BY <1>3, <1>5 DEF align_up
<1> QED
  BY <1>1, <1>2, <1>3, <1>8, <1>9

\* header_size, rounded up, does not wrap and is not 0.
LEMMA HeaderSize == header_size \in Nat \ {0} /\ header_size < WORD
<1>1. /\ align_up(SIZEOF_HEAPBLOCK, ALLOC_ALIGN) \in Nat
      /\ SIZEOF_HEAPBLOCK <= align_up(SIZEOF_HEAPBLOCK, ALLOC_ALIGN)
      /\ align_up(SIZEOF_HEAPBLOCK, ALLOC_ALIGN) < SIZEOF_HEAPBLOCK + ALLOC_ALIGN
  BY AlignUp
<1> QED
  BY <1>1 DEF header_size

\* The first block does not lie at the null address.
LEMMA HeapStart == g_heap_start \in Nat \ {Null}
<1>1. /\ align_up(KERNEL_END, ALLOC_ALIGN) \in Nat
      /\ KERNEL_END <= align_up(KERNEL_END, ALLOC_ALIGN)
  BY AlignUp
<1> QED
  BY <1>1 DEF g_heap_start, Null

-----------------------------------------------------------------------------

(* The walks along the list. *)

\* What a sound list says of each header by itself.
LEMMA SoundParts ==
  ASSUME NEW m, NEW end, NEW C, NEW x, Sound(m, end, C, x)
  PROVE  /\ C \subseteq DOMAIN m /\ C \subseteq Nat \ {0}
         /\ \A b \in DOMAIN m : /\ b \in Nat \ {0}
                                /\ m[b].size \in Nat /\ m[b].next \in Nat
                                /\ m[b].prev \in Nat /\ m[b].free \in BOOLEAN
  BY DEF Sound, Headers, Linked, HeapBlock, Null

\* A walk along the list comes to blocks of the list only.
LEMMA VisitedListed ==
  ASSUME HeapFits, NEW m, NEW end, NEW C, NEW x, Sound(m, end, C, x), NEW stop
  PROVE  Visited(m, stop) \subseteq C
<1> DEFINE Closed == {S \in SUBSET DOMAIN m :
                        /\ g_heap_head \in S
                        /\ \A b \in S \ stop : m[b].next = Null \/ m[b].next \in S}
<1>1. C \in Closed
  BY DEF Sound, Linked, g_heap_head
<1>2. Visited(m, stop) = {b \in DOMAIN m : \A S \in Closed : b \in S}
  BY DEF Visited
<1> HIDE DEF Closed
<1> QED
  BY <1>1, <1>2

\* A walk that nothing stops comes to the block that has no next.
LEMMA WalkEnds ==
  ASSUME HeapFits, NEW m, NEW end \in Nat, NEW C, NEW x, Sound(m, end, C, x)
  PROVE  \E b \in Visited(m, {}) : m[b].next = Null
<1> DEFINE Closed == {S \in SUBSET DOMAIN m :
                        /\ g_heap_head \in S
                        /\ \A b \in S : m[b].next = Null \/ m[b].next \in S}
           V == Visited(m, {})
<1>1. V = {b \in DOMAIN m : \A S \in Closed : b \in S}
  BY DEF Visited
<1>2. V \subseteq C
  BY VisitedListed
<1>3. g_heap_start \in V
  BY <1>1 DEF Sound, Linked, g_heap_head
<1>4. \A b \in V : m[b].next # Null => m[b].next \in V
  <2> SUFFICES ASSUME NEW b \in V, m[b].next # Null PROVE m[b].next \in V
    OBVIOUS
  <2>1. m[b].next \in DOMAIN m
    BY <1>2 DEF Sound, Linked
  <2>2. ASSUME NEW S \in Closed PROVE m[b].next \in S
    BY <1>1
  <2> QED
    BY <1>1, <2>1, <2>2
<1>5. \A b \in V : b \in Nat /\ b <= end
  <2> SUFFICES ASSUME NEW b \in V PROVE b \in Nat /\ b <= end
    OBVIOUS
  <2>1. b \in Nat /\ m[b].size \in Nat /\ BlockEnd(m, b) <= end
    BY <1>2, SoundParts DEF Sound, Linked
  <2> QED
    BY <2>1, HeaderSize DEF BlockEnd
<1> HIDE DEF V
<1>6. PICK b \in V : \A y \in V : y <= b
  BY <1>3, <1>5, LargestElement
<1>7. m[b].next = Null
  <2> SUFFICES ASSUME m[b].next # Null PROVE FALSE
    OBVIOUS
  <2>1. m[b].next \in V /\ m[b].next <= b
    BY <1>4, <1>6
  <2>2. m[b].next = BlockEnd(m, b) /\ b \in Nat /\ m[b].size \in Nat
    BY <1>2, SoundParts DEF Sound, Linked
  <2> QED
    BY <2>1, <2>2, HeaderSize DEF BlockEnd
<1> QED
  BY <1>7 DEF V

\* last_block finds the last block of the list.
LEMMA LastBlock ==
  ASSUME HeapFits, NEW m, NEW end \in Nat, NEW C, NEW x, Sound(m, end, C, x)
  PROVE  last_block(m) \in C /\ m[last_block(m)].next = Null
<1>1. last_block(m) \in Visited(m, {}) /\ m[last_block(m)].next = Null
  BY WalkEnds, Zenon DEF last_block
<1> QED
  BY <1>1, VisitedListed

\* What find_free_block returns is a free block of the list, and large enough.
LEMMA FindFreeBlock ==
  ASSUME HeapFits, NEW m, NEW end, NEW C, NEW x, Sound(m, end, C, x), NEW size,
         find_free_block(m, size) # Null
  PROVE  /\ find_free_block(m, size) \in C
         /\ m[find_free_block(m, size)].free
         /\ m[find_free_block(m, size)].size >= size
<1> DEFINE fits == {b \in DOMAIN m : m[b].free /\ m[b].size >= size}
           hit == Visited(m, fits) \cap fits
<1>1. find_free_block(m, size) = IF hit = {} THEN Null ELSE CHOOSE b \in hit : TRUE
  BY DEF find_free_block
<1>2. Visited(m, fits) \subseteq C
  BY VisitedListed
<1>3. find_free_block(m, size) \in hit
  <2> HIDE DEF hit
  <2> QED
    BY <1>1
<1> QED
  BY <1>2, <1>3

-----------------------------------------------------------------------------

(* split_block. *)

\* n is m with a free block at address new split off block b, of which size
\* bytes are left; stale headers that the new one covers are gone.
SplitInTwo(m, n, b, new, size) ==
  /\ n = [a \in DOMAIN n |-> n[a]]
  /\ DOMAIN n \subseteq DOMAIN m \cup {new}
  /\ \A a \in DOMAIN m : a \in DOMAIN n \/ (a < new + header_size /\ new < a + header_size)
  /\ \A a \in DOMAIN n : a = new \/ a + header_size <= new \/ new + header_size <= a
  /\ new \in DOMAIN n
  /\ n[new].size = m[b].size - size - header_size
  /\ n[new].free /\ n[new].prev = b /\ n[new].next = m[b].next
  /\ n[new] \in HeapBlock
  /\ \A a \in DOMAIN n \ {new} :
       /\ n[a].size = IF a = b THEN size ELSE m[a].size
       /\ n[a].free = m[a].free
       /\ n[a].prev = IF a = m[b].next THEN new ELSE m[a].prev
       /\ n[a].next = IF a = b THEN new ELSE m[a].next
       /\ n[a] \in HeapBlock

\* split_block where it splits, header by header.
LEMMA SplitPoints ==
  ASSUME NEW m, Headers(m), NEW b \in DOMAIN m, NEW size \in Nat,
         m[b].size >= size + header_size + min_split_payload,
         size + header_size + min_split_payload < WORD,
         m[b].next # b, m[b].next # b + header_size + size
  PROVE  SplitInTwo(m, split_block(m, b, size), b, b + header_size + size, size)
<1> DEFINE new == b + header_size + size
           next == m[b].next
           D == (DOMAIN m \ Overwritten(m, new)) \cup {new}
           first == [size |-> m[b].size - size - header_size,
                     free |-> TRUE, prev |-> b, next |-> next]
           n == split_block(m, b, size)
<1>1. /\ b \in Nat \ {0} /\ new \in Nat \ {0} /\ m[b].size \in Nat /\ next \in Nat
      /\ m[b].size - size - header_size \in Nat
  BY HeaderSize DEF Headers, HeapBlock, Null, min_split_payload
<1>2. (size + header_size + min_split_payload) % WORD = size + header_size + min_split_payload
  BY HeaderSize DEF min_split_payload
<1>3. ~(m[b].size < (size + header_size + min_split_payload) % WORD)
  BY <1>1, <1>2, HeaderSize DEF min_split_payload
<1>4. n = [a \in D |-> CASE a = new  -> first
                         [] a = b    -> [m[b] EXCEPT !.size = size, !.next = new]
                         [] a = next -> [m[next] EXCEPT !.prev = new]
                         [] OTHER    -> m[a]]
  BY <1>3 DEF split_block
<1>5. new # b /\ next # b /\ new # next
  BY <1>1, HeaderSize
<1> HIDE DEF D, n, new, next, first
<1>6. DOMAIN n = D /\ n = [a \in DOMAIN n |-> n[a]]
  BY <1>4
<1>7. n[new] = first
  <2>1. new \in D /\ new # b /\ new # next
    BY <1>5 DEF D
  <2> QED
    BY <1>4, <2>1
<1>8. ASSUME NEW a \in D \ {new}
      PROVE  /\ n[a].size = IF a = b THEN size ELSE m[a].size
             /\ n[a].free = m[a].free
             /\ n[a].prev = IF a = next THEN new ELSE m[a].prev
             /\ n[a].next = IF a = b THEN new ELSE m[a].next
             /\ n[a] \in HeapBlock
  <2>1. a \in DOMAIN m /\ m[a] \in HeapBlock
    BY <1>8 DEF D, Headers
  <2>2. CASE a = b
    <3>2. a # next
      BY <1>5, <2>2
    <3>1. n[a] = [m[b] EXCEPT !.size = size, !.next = new]
      BY <1>4, <1>8, <2>2, <3>2
    <3> QED
      BY <1>1, <2>1, <2>2, <3>1, <3>2 DEF HeapBlock
  <2>3. CASE a # b /\ a = next
    <3>1. n[a] = [m[a] EXCEPT !.prev = new]
      BY <1>4, <1>8, <2>3
    <3> QED
      BY <1>1, <2>1, <2>3, <3>1 DEF HeapBlock
  <2>4. CASE a # b /\ a # next
    <3>1. n[a] = m[a]
      BY <1>4, <1>8, <2>4
    <3> QED
      BY <2>1, <2>4, <3>1
  <2> QED
    BY <2>2, <2>3, <2>4
<1>9. \A a \in DOMAIN m : a \in D \/ (a < new + header_size /\ new < a + header_size)
  BY DEF D, Overwritten
<1>10. \A a \in D : a = new \/ a + header_size <= new \/ new + header_size <= a
  <2> SUFFICES ASSUME NEW a \in D, a # new
               PROVE  a + header_size <= new \/ new + header_size <= a
    OBVIOUS
  <2>1. a \in DOMAIN m /\ ~(a < new + header_size /\ new < a + header_size)
    BY DEF D, Overwritten
  <2>2. a \in Nat
    BY <2>1 DEF Headers
  <2> QED
    BY <1>1, <2>1, <2>2, HeaderSize
<1>11. first \in HeapBlock
  BY <1>1 DEF first, HeapBlock
<1>12. D \subseteq DOMAIN m \cup {new} /\ new \in D
  BY DEF D
<1>13. /\ first.size = m[b].size - size - header_size
       /\ first.free /\ first.prev = b /\ first.next = next
  BY DEF first
<1>14. SplitInTwo(m, n, b, new, size)
  <2>1. \A a \in DOMAIN n \ {new} :
           /\ n[a].size = IF a = b THEN size ELSE m[a].size
           /\ n[a].free = m[a].free
           /\ n[a].prev = IF a = m[b].next THEN new ELSE m[a].prev
           /\ n[a].next = IF a = b THEN new ELSE m[a].next
           /\ n[a] \in HeapBlock
    BY <1>6, <1>8 DEF next
  <2> QED
    BY <1>6, <1>7, <1>9, <1>10, <1>11, <1>12, <1>13, <2>1 DEF SplitInTwo, next
<1> QED
  BY <1>14 DEF n, new

\* What the ends and the order of a sound list's blocks are, as numbers.
LEMMA SoundEnds ==
  ASSUME NEW m, NEW end, NEW C, NEW x, Sound(m, end, C, x)
  PROVE  \A a \in C : /\ a \in Nat \ {0} /\ m[a].size \in Nat
                      /\ BlockEnd(m, a) = a + header_size + m[a].size
                      /\ BlockEnd(m, a) \in Nat
                      /\ a + header_size <= BlockEnd(m, a)
                      /\ a < BlockEnd(m, a)
<1> SUFFICES ASSUME NEW a \in C
             PROVE  /\ a \in Nat \ {0} /\ m[a].size \in Nat
                    /\ BlockEnd(m, a) = a + header_size + m[a].size
                    /\ BlockEnd(m, a) \in Nat
                    /\ a + header_size <= BlockEnd(m, a)
                    /\ a < BlockEnd(m, a)
  OBVIOUS
<1>1. a \in Nat \ {0} /\ m[a].size \in Nat
  BY SoundParts
<1> QED
  BY <1>1, HeaderSize DEF BlockEnd

\* Splitting a block of a sound list in two leaves the list sound.
LEMMA SplitSound ==
  ASSUME NEW m, NEW end \in Nat, NEW C, NEW x, Sound(m, end, C, x),
         NEW b \in C, NEW size \in Nat, NEW new, new = b + header_size + size,
         m[b].size >= size + header_size, size + header_size > 0,
         NEW n, SplitInTwo(m, n, b, new, size)
  PROVE  /\ Sound(n, end, C \cup {new}, x)
         /\ Kept(m, C, n, C \cup {new}, {b})
         /\ n[b].size = size /\ n[b].free = m[b].free
<1> DEFINE D == C \cup {new}
<1>1. /\ b \in Nat \ {0} /\ new \in Nat \ {0} /\ m[b].size \in Nat
      /\ b < new /\ b + header_size <= new
      /\ new + header_size <= BlockEnd(m, b) /\ new < BlockEnd(m, b)
      /\ BlockEnd(m, b) \in Nat
  BY SoundEnds, HeaderSize
<1>2. \A a \in C : BlockEnd(m, a) <= b \/ a = b \/ BlockEnd(m, b) <= a
  <2> SUFFICES ASSUME NEW a \in C PROVE BlockEnd(m, a) <= b \/ a = b \/ BlockEnd(m, b) <= a
    OBVIOUS
  <2>1. a < b \/ a = b \/ b < a
    BY SoundEnds
  <2> QED
    BY <2>1 DEF Sound, Linked
<1>3. \A a \in C : a # new /\ ~(a < new + header_size /\ new < a + header_size)
  <2> SUFFICES ASSUME NEW a \in C
               PROVE a # new /\ ~(a < new + header_size /\ new < a + header_size)
    OBVIOUS
  <2>1. /\ a \in Nat /\ BlockEnd(m, a) \in Nat /\ a + header_size <= BlockEnd(m, a)
        /\ a < BlockEnd(m, a)
    BY SoundEnds
  <2>2. BlockEnd(m, a) <= b \/ a = b \/ BlockEnd(m, b) <= a
    BY <1>2
  <2> QED
    BY <1>1, <2>1, <2>2, HeaderSize
<1>4. C \subseteq DOMAIN n /\ D \subseteq DOMAIN n
  BY <1>3 DEF SplitInTwo, Sound, Linked
<1>5. Headers(n)
  <2>1. \A a \in DOMAIN n : n[a] \in HeapBlock
    BY DEF SplitInTwo
  <2>2. n \in [DOMAIN n -> HeapBlock]
    BY <2>1 DEF SplitInTwo
  <2>3. DOMAIN n \subseteq Nat \ {Null}
    BY <1>1 DEF SplitInTwo, Sound, Headers, Null
  <2> QED
    BY <2>2, <2>3 DEF Headers
<1>6. \A a \in C : /\ n[a].size = IF a = b THEN size ELSE m[a].size
                   /\ n[a].free = m[a].free
                   /\ n[a].prev = IF a = m[b].next THEN new ELSE m[a].prev
                   /\ n[a].next = IF a = b THEN new ELSE m[a].next
  BY <1>3, <1>4 DEF SplitInTwo
<1>7. /\ n[new].size = m[b].size - size - header_size
      /\ n[new].free /\ n[new].prev = b /\ n[new].next = m[b].next
  BY DEF SplitInTwo
<1>8. /\ BlockEnd(n, new) = BlockEnd(m, b)
      /\ BlockEnd(n, b) = new
      /\ \A a \in C \ {b} : BlockEnd(n, a) = BlockEnd(m, a)
  <2>1. BlockEnd(n, new) = BlockEnd(m, b)
    BY <1>1, <1>7, HeaderSize DEF BlockEnd
  <2>2. BlockEnd(n, b) = new
    BY <1>1, <1>6, HeaderSize DEF BlockEnd
  <2> QED
    BY <1>6, <2>1, <2>2 DEF BlockEnd
<1> HIDE DEF D
<1>9. Linked(n, end, D)
  <2>1. g_heap_start \in D /\ D \subseteq DOMAIN n
    BY <1>4 DEF D, Sound, Linked
  <2>2. \A a \in D : g_heap_start <= a /\ BlockEnd(n, a) <= end
    <3>1. g_heap_start <= new /\ BlockEnd(n, new) <= end /\ BlockEnd(n, b) <= end
      BY <1>1, <1>8, HeapStart DEF Sound, Linked
    <3> QED
      BY <1>8, <3>1 DEF D, Sound, Linked
  <2>3. \A a, c \in D : a < c => BlockEnd(n, a) <= c
    <3> SUFFICES ASSUME NEW a \in D, NEW c \in D, a < c PROVE BlockEnd(n, a) <= c
      OBVIOUS
    <3>1. CASE a \in C \ {b} /\ c \in C
      BY <1>8, <3>1 DEF Sound, Linked
    <3>2. CASE a \in C \ {b} /\ c = new
      <4>1. BlockEnd(m, a) <= b \/ BlockEnd(m, b) <= a
        BY <1>2, <3>2
      <4>2. a \in Nat /\ BlockEnd(m, a) \in Nat
        BY <3>2, SoundEnds
      <4> QED
        BY <1>1, <1>8, <3>2, <4>1, <4>2
    <3>3. CASE a = b /\ c \in C
      <4>1. BlockEnd(m, b) <= c /\ c \in Nat
        BY <3>3, SoundEnds DEF Sound, Linked
      <4> QED
        BY <1>1, <1>8, <3>3, <4>1
    <3>4. CASE a = b /\ c = new
      BY <1>1, <1>8, <3>4
    <3>5. CASE a = new /\ c \in C
      <4>1. c \in Nat /\ BlockEnd(m, c) \in Nat /\ c < BlockEnd(m, c)
        BY <3>5, SoundEnds
      <4>2. BlockEnd(m, c) <= b \/ c = b \/ BlockEnd(m, b) <= c
        BY <1>2, <3>5
      <4> QED
        BY <1>1, <1>8, <3>5, <4>1, <4>2
    <3>6. CASE a = new /\ c = new
      BY <1>1, <3>6
    <3> QED
      BY <3>1, <3>2, <3>3, <3>4, <3>5, <3>6 DEF D
  <2>4. \A a \in D : n[a].next = Null =>
          /\ \A c \in D : c <= a
          /\ BlockEnd(n, a) = end \/ end >= HEAP_VIRT_LIMIT
    <3> SUFFICES ASSUME NEW a \in D, n[a].next = Null
                 PROVE  /\ \A c \in D : c <= a
                        /\ BlockEnd(n, a) = end \/ end >= HEAP_VIRT_LIMIT
      OBVIOUS
    <3>1. a # b
      BY <1>1, <1>6 DEF Null
    <3>2. CASE a = new
      <4>1. m[b].next = Null
        BY <1>7, <3>2
      <4>2. (\A c \in C : c <= b) /\ (BlockEnd(m, b) = end \/ end >= HEAP_VIRT_LIMIT)
        BY <4>1 DEF Sound, Linked
      <4>3. \A c \in C : c \in Nat
        BY SoundEnds
      <4>4. \A c \in D : c <= new
        BY <1>1, <4>2, <4>3 DEF D
      <4> QED
        BY <1>8, <3>2, <4>2, <4>4
    <3>3. CASE a # new
      <4>1. a \in C \ {b} /\ m[a].next = Null
        BY <1>6, <3>1, <3>3 DEF D
      <4>2. (\A c \in C : c <= a) /\ (BlockEnd(m, a) = end \/ end >= HEAP_VIRT_LIMIT)
        BY <4>1 DEF Sound, Linked
      <4>3. new <= a
        <5>1. b < a /\ a \in Nat
          BY <1>1, <4>1, <4>2, SoundEnds
        <5>2. BlockEnd(m, b) <= a
          BY <4>1, <5>1 DEF Sound, Linked
        <5> QED
          BY <1>1, <5>1, <5>2
      <4> QED
        BY <1>8, <4>1, <4>2, <4>3 DEF D
    <3> QED
      BY <3>2, <3>3
  <2>5. \A a \in D : n[a].next # Null =>
          /\ n[a].next \in D
          /\ n[a].next = BlockEnd(n, a)
          /\ n[n[a].next].prev = a
    <3> SUFFICES ASSUME NEW a \in D, n[a].next # Null
                 PROVE  /\ n[a].next \in D
                        /\ n[a].next = BlockEnd(n, a)
                        /\ n[n[a].next].prev = a
      OBVIOUS
    <3>1. CASE a = b
      BY <1>6, <1>7, <1>8, <3>1 DEF D
    <3>2. CASE a = new
      <4>1. m[b].next # Null
        BY <1>7, <3>2
      <4>2. m[b].next \in C /\ m[b].next = BlockEnd(m, b)
        BY <4>1 DEF Sound, Linked
      <4> QED
        BY <1>6, <1>7, <1>8, <3>2, <4>2 DEF D
    <3>3. CASE a \in C \ {b}
      <4>1. n[a].next = m[a].next
        BY <1>6, <3>3
      <4>2. m[a].next \in C /\ m[a].next = BlockEnd(m, a) /\ m[m[a].next].prev = a
        BY <3>3, <4>1 DEF Sound, Linked
      <4>3. m[a].next # m[b].next
        <5> SUFFICES ASSUME m[a].next = m[b].next PROVE FALSE
          OBVIOUS
        <5>1. m[m[b].next].prev = b
          BY <3>3, <4>1 DEF Sound, Linked
        <5> QED
          BY <3>3, <4>2, <5>1
      <4>4. n[m[a].next].prev = m[m[a].next].prev
        BY <1>6, <4>2, <4>3
      <4> QED
        BY <1>8, <3>3, <4>1, <4>2, <4>4 DEF D
    <3> QED
      BY <3>1, <3>2, <3>3 DEF D
  <2>6. \A a \in D : n[a].prev = Null => a = g_heap_start
    <3> SUFFICES ASSUME NEW a \in D, n[a].prev = Null PROVE a = g_heap_start
      OBVIOUS
    <3>1. a \in C /\ m[a].prev = Null
      BY <1>1, <1>6, <1>7 DEF D, Null
    <3> QED
      BY <3>1 DEF Sound, Linked
  <2>7. \A a \in D : n[a].prev # Null =>
          /\ n[a].prev \in D
          /\ n[n[a].prev].next = a
    <3> SUFFICES ASSUME NEW a \in D, n[a].prev # Null
                 PROVE  n[a].prev \in D /\ n[n[a].prev].next = a
      OBVIOUS
    <3>1. CASE a = new
      BY <1>6, <1>7, <3>1 DEF D
    <3>2. CASE a \in C /\ a = m[b].next
      BY <1>6, <1>7, <3>2 DEF D
    <3>3. CASE a \in C /\ a # m[b].next
      <4>1. n[a].prev = m[a].prev
        BY <1>6, <3>3
      <4>2. m[a].prev \in C /\ m[m[a].prev].next = a
        BY <3>3, <4>1 DEF Sound, Linked
      <4>3. m[a].prev # b
        BY <3>3, <4>2
      <4> QED
        BY <1>6, <4>1, <4>2, <4>3 DEF D
    <3> QED
      BY <3>1, <3>2, <3>3 DEF D
  <2> QED
    BY <2>1, <2>2, <2>3, <2>4, <2>5, <2>6, <2>7 DEF Linked
<1>10. Stale(n, D, x)
  <2> SUFFICES ASSUME NEW s \in DOMAIN n \ D
               PROVE  /\ n[s].free
                      /\ \E c \in D : /\ n[c].free \/ c = x
                                      /\ c + header_size <= s
                                      /\ s + header_size <= BlockEnd(n, c)
    BY DEF Stale
  <2>1. s \in DOMAIN m \ C /\ s # new
    BY DEF SplitInTwo, D
  <2>2. n[s].free = m[s].free /\ (s + header_size <= new \/ new + header_size <= s)
    BY <2>1 DEF SplitInTwo
  <2>3. s \in Nat
    BY <2>1, SoundParts
  <2>4. PICK c \in C : /\ m[s].free
                       /\ m[c].free \/ c = x
                       /\ c + header_size <= s
                       /\ s + header_size <= BlockEnd(m, c)
    BY <2>1 DEF Sound, Stale
  <2>5. CASE c # b
    BY <1>6, <1>8, <2>2, <2>4, <2>5 DEF D
  <2>6. CASE c = b /\ s + header_size <= new
    BY <1>6, <1>8, <2>2, <2>4, <2>6 DEF D
  <2>7. CASE c = b /\ new + header_size <= s
    BY <1>7, <1>8, <2>2, <2>4, <2>7 DEF D
  <2> QED
    BY <2>2, <2>5, <2>6, <2>7
<1>11. Kept(m, C, n, D, {b})
  <2>1. InUse(n, D) \ {b} = InUse(m, C) \ {b}
    BY <1>6, <1>7 DEF InUse, D
  <2>2. \A a \in InUse(m, C) \ {b} : n[a].size = m[a].size
    BY <1>6 DEF InUse
  <2> QED
    BY <2>1, <2>2 DEF Kept
<1> QED
  BY <1>5, <1>6, <1>9, <1>10, <1>11 DEF Sound, D

\* split_block keeps a list sound; what it works on keeps at least size bytes.
LEMMA SplitBlock ==
  ASSUME NEW m, NEW end \in Nat, NEW C, NEW x, Sound(m, end, C, x),
         NEW b \in C, NEW size \in Nat, size <= m[b].size,
         size + header_size + min_split_payload < WORD,
         NEW n, n = split_block(m, b, size)
  PROVE  \E D : Worked(m, C, n, D, end, x, b) /\ size <= n[b].size
<1>1. /\ b \in DOMAIN m /\ b \in Nat /\ m[b].size \in Nat
      /\ min_split_payload \in Nat \ {0}
  BY SoundParts DEF min_split_payload
<1>2. CASE m[b].size >= size + header_size + min_split_payload
  <2>0. PICK new : new = b + header_size + size
    OBVIOUS
  <2>1. m[b].next # b /\ m[b].next # new
    <3>1. CASE m[b].next = Null
      BY <1>1, <2>0, <3>1, SoundParts, HeaderSize DEF Null
    <3>2. CASE m[b].next # Null
      <4>1. m[b].next = b + header_size + m[b].size
        BY <3>2 DEF Sound, Linked, BlockEnd
      <4> QED
        BY <1>1, <1>2, <2>0, <4>1, HeaderSize
    <3> QED
      BY <3>1, <3>2
  <2>2. SplitInTwo(m, n, b, new, size)
    BY <1>1, <1>2, <2>0, <2>1, SplitPoints DEF Sound
  <2>3. m[b].size >= size + header_size /\ size + header_size > 0
    BY <1>1, <1>2, HeaderSize
  <2>4. /\ Sound(n, end, C \cup {new}, x) /\ Kept(m, C, n, C \cup {new}, {b})
        /\ n[b].size = size /\ n[b].free = m[b].free
    BY <2>0, <2>2, <2>3, SplitSound
  <2> QED
    BY <1>1, <2>4 DEF Worked
<1>3. CASE ~(m[b].size >= size + header_size + min_split_payload)
  <2>1. (size + header_size + min_split_payload) % WORD = size + header_size + min_split_payload
    BY <1>1, HeaderSize
  <2>2. m[b].size < (size + header_size + min_split_payload) % WORD
    BY <1>1, <1>3, <2>1, HeaderSize
  <2>3. n = m
    BY <2>2 DEF split_block
  <2> QED
    BY <2>3 DEF Worked, Kept
<1> QED
  BY <1>2, <1>3

-----------------------------------------------------------------------------

(* coalesce_with_next. *)

\* n is m with block b grown over its next block, whose header stays readable.
Joined(m, n, b) ==
  /\ n = [a \in DOMAIN m |-> n[a]]
  /\ \A a \in DOMAIN m :
       /\ n[a].size = IF a = b THEN m[b].size + header_size + m[m[b].next].size
                               ELSE m[a].size
       /\ n[a].free = m[a].free
       /\ n[a].prev = IF a = m[m[b].next].next THEN b ELSE m[a].prev
       /\ n[a].next = IF a = b THEN m[m[b].next].next ELSE m[a].next
       /\ n[a] \in HeapBlock

\* coalesce_with_next where it joins, header by header.
LEMMA JoinPoints ==
  ASSUME NEW m, Headers(m), NEW b \in DOMAIN m,
         m[b].next \in DOMAIN m, m[m[b].next].free, m[m[b].next].next # b
  PROVE  Joined(m, coalesce_with_next(m, b), b)
<1> DEFINE next == m[b].next
           after == m[next].next
           n == coalesce_with_next(m, b)
<1>1. next # Null
  BY DEF Headers
<1>2. n = [a \in DOMAIN m |->
             CASE a = b -> [m[b] EXCEPT !.size = @ + header_size + m[next].size,
                                        !.next = after]
               [] a = after -> [m[a] EXCEPT !.prev = b]
               [] OTHER -> m[a]]
  BY <1>1 DEF coalesce_with_next
<1>3. /\ m[b] \in HeapBlock /\ m[next] \in HeapBlock /\ b \in Nat
      /\ after # b
  BY DEF Headers
<1> HIDE DEF n, next, after
<1>4. DOMAIN n = DOMAIN m /\ n = [a \in DOMAIN m |-> n[a]]
  BY <1>2
<1>5. /\ m[b].size + header_size + m[next].size \in Nat /\ after \in Nat
  BY <1>3, HeaderSize DEF HeapBlock, after
<1>6. ASSUME NEW a \in DOMAIN m
      PROVE  /\ n[a].size = IF a = b THEN m[b].size + header_size + m[next].size
                                     ELSE m[a].size
             /\ n[a].free = m[a].free
             /\ n[a].prev = IF a = after THEN b ELSE m[a].prev
             /\ n[a].next = IF a = b THEN after ELSE m[a].next
             /\ n[a] \in HeapBlock
  <2>1. m[a] \in HeapBlock
    BY DEF Headers
  <2>2. CASE a = b
    <3>1. a # after
      BY <1>3, <2>2
    <3>2. n[a] = [m[b] EXCEPT !.size = @ + header_size + m[next].size, !.next = after]
      BY <1>2, <2>2, <3>1
    <3> QED
      BY <1>3, <1>5, <2>2, <3>1, <3>2 DEF HeapBlock
  <2>3. CASE a # b /\ a = after
    <3>1. n[a] = [m[a] EXCEPT !.prev = b]
      BY <1>2, <2>3
    <3> QED
      BY <1>3, <2>1, <2>3, <3>1 DEF HeapBlock
  <2>4. CASE a # b /\ a # after
    <3>1. n[a] = m[a]
      BY <1>2, <2>4
    <3> QED
      BY <2>1, <2>4, <3>1
  <2> QED
    BY <2>2, <2>3, <2>4
<1> QED
  BY <1>4, <1>6 DEF Joined, n, next, after

\* Growing a free block, or block x, over its free next block leaves the list
\* sound: the header it swallows goes stale.
LEMMA JoinSound ==
  ASSUME NEW m, NEW end \in Nat, NEW C, NEW x, Sound(m, end, C, x),
         NEW b \in C, m[b].free \/ b = x,
         m[b].next # Null, m[m[b].next].free, NEW n, Joined(m, n, b)
  PROVE  Worked(m, C, n, C \ {m[b].next}, end, x, b)
<1>0. PICK next, after : next = m[b].next /\ after = m[next].next
  OBVIOUS
<1> DEFINE D == C \ {next}
<1>1. next \in C /\ next = BlockEnd(m, b) /\ m[next].prev = b
  BY <1>0 DEF Sound, Linked
<1>2. /\ b \in Nat \ {0} /\ next \in Nat \ {0} /\ m[b].size \in Nat /\ m[next].size \in Nat
      /\ BlockEnd(m, next) = next + header_size + m[next].size
      /\ BlockEnd(m, b) = b + header_size + m[b].size
      /\ b < next /\ next < BlockEnd(m, next) /\ BlockEnd(m, next) \in Nat
      /\ b + header_size <= next /\ next + header_size <= BlockEnd(m, next)
  BY <1>1, SoundEnds
<1>3. after # Null => /\ after \in C /\ after = BlockEnd(m, next)
                      /\ m[after].prev = next
  BY <1>0, <1>1 DEF Sound, Linked
<1>4. after # b /\ after # next
  BY <1>2, <1>3 DEF Null
<1>5. \A a \in C : /\ n[a].size = IF a = b THEN m[b].size + header_size + m[next].size
                                           ELSE m[a].size
                   /\ n[a].free = m[a].free
                   /\ n[a].prev = IF a = after THEN b ELSE m[a].prev
                   /\ n[a].next = IF a = b THEN after ELSE m[a].next
  BY <1>0 DEF Joined, Sound, Linked
<1>6. /\ BlockEnd(n, b) = BlockEnd(m, next)
      /\ \A a \in C \ {b} : BlockEnd(n, a) = BlockEnd(m, a)
  <2>1. BlockEnd(n, b) = BlockEnd(m, next)
    BY <1>1, <1>2, <1>5, HeaderSize DEF BlockEnd
  <2> QED
    BY <1>5, <2>1 DEF BlockEnd
<1>7. Headers(n)
  <2>1. n \in [DOMAIN m -> HeapBlock] /\ DOMAIN n = DOMAIN m
    BY DEF Joined
  <2> QED
    BY <2>1 DEF Headers, Sound
<1>8. b \in D /\ D \subseteq C
  BY <1>2
<1>9. \A a \in D : a # next /\ a \in C
  OBVIOUS
<1> HIDE DEF D
<1>10. Linked(n, end, D)
  <2>1. g_heap_start \in D /\ D \subseteq DOMAIN n
    <3>1. g_heap_start # next
      <4>1. g_heap_start <= b /\ g_heap_start \in Nat
        BY HeapStart DEF Sound, Linked
      <4> QED
        BY <1>2, <4>1
    <3>2. DOMAIN n = DOMAIN m
      BY DEF Joined
    <3> QED
      BY <3>1, <3>2 DEF D, Sound, Linked
  <2>2. \A a \in D : g_heap_start <= a /\ BlockEnd(n, a) <= end
    <3>1. BlockEnd(n, b) <= end
      BY <1>1, <1>6 DEF Sound, Linked
    <3> QED
      BY <1>6, <1>9, <3>1 DEF Sound, Linked
  <2>3. \A a, c \in D : a < c => BlockEnd(n, a) <= c
    <3> SUFFICES ASSUME NEW a \in D, NEW c \in D, a < c PROVE BlockEnd(n, a) <= c
      OBVIOUS
    <3>1. CASE a # b
      BY <1>6, <1>9, <3>1 DEF Sound, Linked
    <3>2. CASE a = b
      <4>1. c \in Nat /\ next <= c
        BY <1>1, <1>9, <3>2, SoundEnds DEF Sound, Linked
      <4>2. next < c
        BY <1>2, <1>9, <4>1
      <4>3. BlockEnd(m, next) <= c
        BY <1>1, <1>9, <4>2 DEF Sound, Linked
      <4> QED
        BY <1>6, <3>2, <4>3
    <3> QED
      BY <3>1, <3>2
  <2>4. \A a \in D : n[a].next = Null =>
          /\ \A c \in D : c <= a
          /\ BlockEnd(n, a) = end \/ end >= HEAP_VIRT_LIMIT
    <3> SUFFICES ASSUME NEW a \in D, n[a].next = Null
                 PROVE  /\ \A c \in D : c <= a
                        /\ BlockEnd(n, a) = end \/ end >= HEAP_VIRT_LIMIT
      OBVIOUS
    <3>1. CASE a # b
      <4>1. a \in C /\ m[a].next = Null
        BY <1>5, <1>9, <3>1
      <4> QED
        BY <1>6, <1>9, <3>1, <4>1 DEF Sound, Linked
    <3>2. CASE a = b
      <4>1. m[next].next = Null
        BY <1>0, <1>5, <1>9, <3>2
      <4>2. (\A c \in C : c <= next) /\ (BlockEnd(m, next) = end \/ end >= HEAP_VIRT_LIMIT)
        BY <1>1, <4>1 DEF Sound, Linked
      <4>3. ASSUME NEW c \in D PROVE c <= b
        <5>1. c \in Nat /\ c <= next /\ c # next /\ c \in C
          BY <1>9, <4>2, SoundEnds
        <5>2. SUFFICES ASSUME b < c PROVE FALSE
          BY <1>2, <5>1
        <5>3. next <= c
          BY <1>1, <5>1, <5>2 DEF Sound, Linked
        <5> QED
          BY <1>2, <5>1, <5>3
      <4> QED
        BY <1>6, <3>2, <4>2, <4>3
    <3> QED
      BY <3>1, <3>2
  <2>5. \A a \in D : n[a].next # Null =>
          /\ n[a].next \in D
          /\ n[a].next = BlockEnd(n, a)
          /\ n[n[a].next].prev = a
    <3> SUFFICES ASSUME NEW a \in D, n[a].next # Null
                 PROVE  /\ n[a].next \in D
                        /\ n[a].next = BlockEnd(n, a)
                        /\ n[n[a].next].prev = a
      OBVIOUS
    <3>1. CASE a = b
      BY <1>3, <1>4, <1>5, <1>6, <1>9, <3>1 DEF D
    <3>2. CASE a # b
      <4>1. n[a].next = m[a].next /\ a \in C
        BY <1>5, <1>9, <3>2
      <4>2. m[a].next \in C /\ m[a].next = BlockEnd(m, a) /\ m[m[a].next].prev = a
        BY <3>2, <4>1 DEF Sound, Linked
      <4>3. m[a].next # next
        BY <1>1, <3>2, <4>2
      <4>4. m[a].next # after
        BY <1>3, <1>9, <3>2, <4>1, <4>2
      <4> QED
        BY <1>5, <1>6, <3>2, <4>1, <4>2, <4>3, <4>4 DEF D
    <3> QED
      BY <3>1, <3>2
  <2>6. \A a \in D : n[a].prev = Null => a = g_heap_start
    <3> SUFFICES ASSUME NEW a \in D, n[a].prev = Null PROVE a = g_heap_start
      OBVIOUS
    <3>1. a \in C /\ m[a].prev = Null
      BY <1>2, <1>5, <1>9 DEF Null
    <3> QED
      BY <3>1 DEF Sound, Linked
  <2>7. \A a \in D : n[a].prev # Null =>
          /\ n[a].prev \in D
          /\ n[n[a].prev].next = a
    <3> SUFFICES ASSUME NEW a \in D, n[a].prev # Null
                 PROVE  n[a].prev \in D /\ n[n[a].prev].next = a
      OBVIOUS
    <3>1. CASE a = after
      BY <1>5, <1>8, <1>9, <3>1
    <3>2. CASE a # after
      <4>1. n[a].prev = m[a].prev /\ a \in C
        BY <1>5, <1>9, <3>2
      <4>2. m[a].prev \in C /\ m[m[a].prev].next = a
        BY <3>2, <4>1 DEF Sound, Linked
      <4>3. m[a].prev # b
        BY <1>0, <1>9, <4>2
      <4>4. m[a].prev # next
        BY <1>0, <3>2, <4>2
      <4> QED
        BY <1>5, <4>1, <4>2, <4>3, <4>4 DEF D
    <3> QED
      BY <3>1, <3>2
  <2> QED
    BY <2>1, <2>2, <2>3, <2>4, <2>5, <2>6, <2>7 DEF Linked
<1>11. Stale(n, D, x)
  <2> SUFFICES ASSUME NEW s \in DOMAIN n \ D
               PROVE  /\ n[s].free
                      /\ \E c \in D : /\ n[c].free \/ c = x
                                      /\ c + header_size <= s
                                      /\ s + header_size <= BlockEnd(n, c)
    BY DEF Stale
  <2>1. s \in DOMAIN m /\ s \in Nat /\ n[s].free = m[s].free
    BY SoundParts DEF Joined
  <2>2. CASE s = next
    <3>1. n[b].free \/ b = x
      BY <1>5
    <3> QED
      BY <1>0, <1>2, <1>6, <1>8, <2>1, <2>2, <3>1
  <2>3. CASE s # next
    <3>1. s \in DOMAIN m \ C
      BY <2>1, <2>3 DEF D
    <3>2. PICK c \in C : /\ m[s].free
                         /\ m[c].free \/ c = x
                         /\ c + header_size <= s
                         /\ s + header_size <= BlockEnd(m, c)
      BY <3>1 DEF Sound, Stale
    <3>3. CASE c # b /\ c # next
      BY <1>5, <1>6, <2>1, <3>2, <3>3 DEF D
    <3>4. CASE c = b
      <4>1. s + header_size <= BlockEnd(n, b)
        BY <1>1, <1>2, <1>6, <2>1, <3>2, <3>4, HeaderSize
      <4> QED
        BY <1>5, <1>8, <2>1, <3>2, <3>4, <4>1
    <3>5. CASE c = next
      <4>1. b + header_size <= s
        BY <1>2, <2>1, <3>2, <3>5, HeaderSize
      <4>2. n[b].free \/ b = x
        BY <1>5
      <4> QED
        BY <1>6, <1>8, <2>1, <3>2, <3>5, <4>1, <4>2
    <3> QED
      BY <3>3, <3>4, <3>5
  <2> QED
    BY <2>2, <2>3
<1>12. Kept(m, C, n, D, {b})
  <2>1. InUse(n, D) \ {b} = InUse(m, C) \ {b}
    BY <1>0, <1>5, <1>9 DEF InUse, D
  <2>2. \A a \in InUse(m, C) \ {b} : n[a].size = m[a].size
    BY <1>5 DEF InUse
  <2> QED
    BY <2>1, <2>2 DEF Kept
<1> QED
  BY <1>0, <1>5, <1>7, <1>8, <1>10, <1>11, <1>12 DEF Sound, D, Worked

\* coalesce_with_next keeps a list sound and leaves the other blocks alone.
LEMMA Coalesce ==
  ASSUME NEW m, NEW end \in Nat, NEW C, NEW x, Sound(m, end, C, x),
         NEW b \in C, m[b].free \/ b = x, NEW n, n = coalesce_with_next(m, b)
  PROVE  \E D : /\ Worked(m, C, n, D, end, x, b)
                /\ n[b].prev = m[b].prev
                /\ m[b].next # Null /\ m[m[b].next].free =>
                     n[b].size = m[b].size + header_size + m[m[b].next].size
<1>1. CASE m[b].next # Null /\ m[m[b].next].free
  <2>1. m[b].next \in C /\ m[b].next = BlockEnd(m, b)
    BY <1>1 DEF Sound, Linked
  <2>2. m[m[b].next].next # b
    <3>1. /\ b \in Nat \ {0} /\ m[b].next \in Nat
          /\ b < m[b].next /\ m[b].next < BlockEnd(m, m[b].next)
          /\ BlockEnd(m, m[b].next) \in Nat
      BY <2>1, SoundEnds
    <3>2. m[m[b].next].next = Null \/ m[m[b].next].next = BlockEnd(m, m[b].next)
      BY <2>1 DEF Sound, Linked
    <3> QED
      BY <3>1, <3>2 DEF Null
  <2>3. Joined(m, n, b)
    BY <1>1, <2>1, <2>2, JoinPoints DEF Sound, Linked
  <2>4. Worked(m, C, n, C \ {m[b].next}, end, x, b)
    BY <1>1, <2>3, JoinSound
  <2>5. /\ n[b].size = m[b].size + header_size + m[m[b].next].size
        /\ n[b].prev = m[b].prev
    BY <2>2, <2>3 DEF Joined, Sound, Linked
  <2> QED
    BY <2>4, <2>5
<1>2. CASE ~(m[b].next # Null /\ m[m[b].next].free)
  <2>1. n = m
    BY <1>2 DEF coalesce_with_next
  <2> QED
    BY <1>2, <2>1 DEF Worked, Kept
<1> QED
  BY <1>1, <1>2

-----------------------------------------------------------------------------

(* Blocks in use. *)

\* What each of two steps keeps, both together keep.
LEMMA KeptTwice ==
  ASSUME NEW m, NEW C, NEW n, NEW D, NEW o, NEW E, NEW X,
         Kept(m, C, n, D, X), Kept(n, D, o, E, X)
  PROVE  Kept(m, C, o, E, X)
  BY DEF Kept

\* A block that is free before and after is no exception.
LEMMA KeptBesidesFree ==
  ASSUME NEW m, NEW C, NEW n, NEW D, NEW c, Kept(m, C, n, D, {c}),
         c \notin InUse(m, C), c \notin InUse(n, D)
  PROVE  Kept(m, C, n, D, {})
  BY DEF Kept

\* What is kept with few exceptions is kept with more.
LEMMA KeptMore ==
  ASSUME NEW m, NEW C, NEW n, NEW D, NEW X, NEW Y, X \subseteq Y, Kept(m, C, n, D, X)
  PROVE  Kept(m, C, n, D, Y)
  BY DEF Kept

\* A header may lie in the block a call works on, whichever that is.
LEMMA SoundAnyway ==
  ASSUME NEW m, NEW end, NEW C, NEW x, Sound(m, end, C, Null)
  PROVE  Sound(m, end, C, x)
<1>1. \A b \in C : b # Null
  BY SoundParts DEF Null
<1> QED
  BY <1>1 DEF Sound, Stale

\* n is m but for the mark of block b.
Marked(m, n, b) ==
  /\ n = [a \in DOMAIN m |-> n[a]]
  /\ \A a \in DOMAIN m :
       /\ n[a].size = m[a].size /\ n[a].next = m[a].next /\ n[a].prev = m[a].prev
       /\ a # b => n[a].free = m[a].free
       /\ n[a] \in HeapBlock

\* block->free = 1 changes that field and no other.
LEMMA MarkFree ==
  ASSUME NEW m, Headers(m), NEW b \in DOMAIN m, NEW n, n = [m EXCEPT ![b].free = TRUE]
  PROVE  Marked(m, n, b) /\ n[b].free
<1>1. n[b] = [m[b] EXCEPT !.free = TRUE] /\ \A a \in DOMAIN m : a # b => n[a] = m[a]
  OBVIOUS
<1>2. \A a \in DOMAIN m : m[a] \in HeapBlock
  BY DEF Headers
<1>3. n = [a \in DOMAIN m |-> n[a]]
  OBVIOUS
<1> QED
  BY <1>1, <1>2, <1>3 DEF HeapBlock, Marked

\* block->free = 0 changes that field and no other.
LEMMA MarkUsed ==
  ASSUME NEW m, Headers(m), NEW b \in DOMAIN m, NEW n, n = [m EXCEPT ![b].free = FALSE]
  PROVE  Marked(m, n, b) /\ ~n[b].free
<1>1. n[b] = [m[b] EXCEPT !.free = FALSE] /\ \A a \in DOMAIN m : a # b => n[a] = m[a]
  OBVIOUS
<1>2. \A a \in DOMAIN m : m[a] \in HeapBlock
  BY DEF Headers
<1>3. n = [a \in DOMAIN m |-> n[a]]
  OBVIOUS
<1> QED
  BY <1>1, <1>2, <1>3 DEF HeapBlock, Marked

\* Setting or clearing the mark of block b; in a block that is taken into use
\* stale headers may be left.
LEMMA MarkSound ==
  ASSUME NEW m, NEW end, NEW C, NEW x, NEW y, Sound(m, end, C, x), NEW b \in C,
         NEW n, Marked(m, n, b), x = y \/ x = b, n[b].free \/ y = b
  PROVE  Sound(n, end, C, y) /\ Kept(m, C, n, C, {b})
<1>1. b \in DOMAIN m /\ C \subseteq DOMAIN m
  BY DEF Sound, Linked
<1>2. DOMAIN n = DOMAIN m /\ n = [a \in DOMAIN m |-> n[a]]
  BY DEF Marked
<1>3. \A a \in DOMAIN m :
        /\ n[a].size = m[a].size /\ n[a].next = m[a].next /\ n[a].prev = m[a].prev
        /\ a # b => n[a].free = m[a].free
        /\ n[a] \in HeapBlock
  BY DEF Marked
<1>4. Headers(n)
  <2>1. n \in [DOMAIN m -> HeapBlock]
    BY <1>2, <1>3
  <2> QED
    BY <1>2, <2>1 DEF Sound, Headers
<1>5. \A a \in C : BlockEnd(n, a) = BlockEnd(m, a)
  BY <1>1, <1>3 DEF BlockEnd
<1>6. Linked(n, end, C)
  <2>1. \A a \in C : n[a].next = m[a].next /\ n[a].prev = m[a].prev
    BY <1>1, <1>3
  <2>2. g_heap_start \in C /\ C \subseteq DOMAIN n
    BY <1>1, <1>2 DEF Sound, Linked
  <2>3. \A a \in C : g_heap_start <= a /\ BlockEnd(n, a) <= end
    BY <1>5 DEF Sound, Linked
  <2>4. \A a, c \in C : a < c => BlockEnd(n, a) <= c
    BY <1>5 DEF Sound, Linked
  <2>5. \A a \in C : n[a].next = Null =>
          /\ \A c \in C : c <= a
          /\ BlockEnd(n, a) = end \/ end >= HEAP_VIRT_LIMIT
    BY <1>5, <2>1 DEF Sound, Linked
  <2>6. \A a \in C : n[a].next # Null =>
          /\ n[a].next \in C
          /\ n[a].next = BlockEnd(n, a)
          /\ n[n[a].next].prev = a
    <3> SUFFICES ASSUME NEW a \in C, n[a].next # Null
                 PROVE  /\ n[a].next \in C
                        /\ n[a].next = BlockEnd(n, a)
                        /\ n[n[a].next].prev = a
      OBVIOUS
    <3>1. /\ m[a].next \in C /\ m[a].next = BlockEnd(m, a)
          /\ m[m[a].next].prev = a
      BY <2>1 DEF Sound, Linked
    <3> QED
      BY <1>5, <2>1, <3>1
  <2>7. \A a \in C : n[a].prev = Null => a = g_heap_start
    BY <2>1 DEF Sound, Linked
  <2>8. \A a \in C : n[a].prev # Null => n[a].prev \in C /\ n[n[a].prev].next = a
    <3> SUFFICES ASSUME NEW a \in C, n[a].prev # Null
                 PROVE  n[a].prev \in C /\ n[n[a].prev].next = a
      OBVIOUS
    <3>1. m[a].prev \in C /\ m[m[a].prev].next = a
      BY <2>1 DEF Sound, Linked
    <3> QED
      BY <2>1, <3>1
  <2> QED
    BY <2>2, <2>3, <2>4, <2>5, <2>6, <2>7, <2>8 DEF Linked
<1>7. Stale(n, C, y)
  <2> SUFFICES ASSUME NEW s \in DOMAIN n \ C
               PROVE  /\ n[s].free
                      /\ \E c \in C : /\ n[c].free \/ c = y
                                      /\ c + header_size <= s
                                      /\ s + header_size <= BlockEnd(n, c)
    BY DEF Stale
  <2>1. s \in DOMAIN m \ C
    BY <1>2
  <2>2. PICK c \in C : /\ m[s].free
                       /\ m[c].free \/ c = x
                       /\ c + header_size <= s
                       /\ s + header_size <= BlockEnd(m, c)
    BY <2>1 DEF Sound, Stale
  <2>3. n[c].free \/ c = y
    BY <1>1, <1>3, <2>2
  <2> QED
    BY <1>3, <1>5, <2>1, <2>2, <2>3
<1>8. Kept(m, C, n, C, {b})
  BY <1>1, <1>3 DEF Kept, InUse
<1> QED
  BY <1>1, <1>3, <1>4, <1>6, <1>7, <1>8 DEF Sound

-----------------------------------------------------------------------------

(* kfree. *)

\* The pointer in front of whose payload the header of a block lies.
LEMMA BlockFromPtr ==
  ASSUME NEW m, NEW end \in Nat, NEW C, NEW x, Sound(m, end, C, x),
         NEW b \in C, m[b].size > 0
  PROVE  block_from_ptr(m, end, b + header_size) = b
<1>1. PICK p : p = b + header_size
  OBVIOUS
<1>2. /\ b \in Nat \ {0} /\ m[b].size \in Nat /\ p \in Nat /\ p - header_size = b
      /\ BlockEnd(m, b) = p + m[b].size
  BY <1>1, SoundEnds, HeaderSize
<1>3. g_heap_start <= b /\ BlockEnd(m, b) <= end /\ b \in DOMAIN m
  BY DEF Sound, Linked
<1>4. /\ p # Null /\ ptr_in_heap(p, end)
      /\ p >= g_heap_start + header_size
      /\ p - header_size \in DOMAIN m
  BY <1>1, <1>2, <1>3, HeaderSize, HeapStart DEF ptr_in_heap, Null
<1> QED
  BY <1>1, <1>2, <1>4 DEF block_from_ptr

\* kfree of a block in use: the others stay, and the list stays sound.
LEMMA KFreeSound ==
  ASSUME NEW m, NEW end \in Nat, NEW C, NEW x, Sound(m, end, C, x),
         NEW b \in InUse(m, C), m[b].size > 0,
         NEW n, n = kfree(m, end, b + header_size)
  PROVE  \E D : /\ Sound(n, end, D, x) /\ Kept(m, C, n, D, {b})
                /\ b \notin InUse(n, D)
<1>1. b \in C /\ ~m[b].free
  BY DEF InUse
<1>2. block_from_ptr(m, end, b + header_size) = b /\ b # Null
  BY <1>1, BlockFromPtr, SoundParts DEF Null
<1>3. PICK marked : marked = [m EXCEPT ![b].free = TRUE]
  OBVIOUS
<1>4. PICK joined : joined = coalesce_with_next(marked, b)
  OBVIOUS
<1>5. PICK prev : prev = joined[b].prev
  OBVIOUS
<1>6. n = IF prev # Null /\ joined[prev].free
          THEN coalesce_with_next(joined, prev) ELSE joined
  BY <1>1, <1>2, <1>3, <1>4, <1>5 DEF kfree
<1>7. Sound(marked, end, C, x) /\ Kept(m, C, marked, C, {b}) /\ marked[b].free
  <2>1. Marked(m, marked, b) /\ marked[b].free
    BY <1>1, <1>3, MarkFree DEF Sound, Linked
  <2> QED
    BY <1>1, <2>1, MarkSound
<1>8. PICK D1 : Worked(marked, C, joined, D1, end, x, b)
  BY <1>1, <1>4, <1>7, Coalesce
<1>9. /\ Sound(joined, end, D1, x) /\ Kept(m, C, joined, D1, {b})
      /\ b \in D1 /\ joined[b].free
  BY <1>7, <1>8, KeptTwice DEF Worked
<1>10. CASE ~(prev # Null /\ joined[prev].free)
  <2>1. n = joined
    BY <1>6, <1>10
  <2> QED
    BY <1>9, <2>1 DEF InUse
<1>11. CASE prev # Null /\ joined[prev].free
  <2>1. n = coalesce_with_next(joined, prev)
    BY <1>6, <1>11
  <2>2. prev \in D1
    BY <1>5, <1>9, <1>11 DEF Sound, Linked
  <2>3. PICK D : Worked(joined, D1, n, D, end, x, prev)
    BY <1>9, <1>11, <2>1, <2>2, Coalesce
  <2>4. prev \notin InUse(joined, D1) /\ prev \notin InUse(n, D)
    BY <1>11, <2>3 DEF Worked, InUse
  <2>5. Kept(joined, D1, n, D, {})
    BY <2>3, <2>4, KeptBesidesFree DEF Worked
  <2>6. Kept(joined, D1, n, D, {b})
    BY <2>5 DEF Kept
  <2>7. Kept(m, C, n, D, {b})
    BY <1>9, <2>6, KeptTwice
  <2>8. b \notin InUse(n, D)
    BY <1>9, <2>5 DEF Kept, InUse
  <2> QED
    BY <2>3, <2>7, <2>8 DEF Worked
<1> QED
  BY <1>10, <1>11

\* A pointer that is not to a block in use is turned away.
LEMMA PtrRejected ==
  ASSUME NEW m, NEW end, NEW p,
         p - header_size \in DOMAIN m => m[p - header_size].free
  PROVE  /\ block_from_ptr(m, end, p) = Null \/ m[block_from_ptr(m, end, p)].free
         /\ kfree(m, end, p) = m
         /\ ksize(m, end, p) = 0
<1>1. block_from_ptr(m, end, p) = Null \/ m[block_from_ptr(m, end, p)].free
  BY DEF block_from_ptr
<1> QED
  BY <1>1 DEF kfree, ksize

-----------------------------------------------------------------------------

(* extend_heap_to_fit. *)

\* An end of the heap: a page boundary up to the limit.
HeapEnd(end) == end \in Nat /\ end <= HEAP_VIRT_LIMIT /\ end % PAGE_SIZE = 0

\* The 32-bit sums of a search for size bytes and of the growth after it do
\* not wrap.
Fitting(size) ==
  /\ size + ALLOC_ALIGN <= WORD
  /\ align_up(size, ALLOC_ALIGN) + header_size + min_split_payload + PAGE_SIZE <= WORD

\* A representable size, rounded up once or twice, fits in the words.
LEMMA RepresentableFits ==
  ASSUME NEW size \in Nat, Representable(size)
  PROVE  /\ Fitting(size) /\ Fitting(align_up(size, ALLOC_ALIGN))
         /\ align_up(size, ALLOC_ALIGN) \in Nat /\ size <= align_up(size, ALLOC_ALIGN)
<1>1. size + ALLOC_ALIGN + header_size + ALLOC_ALIGN + PAGE_SIZE <= WORD
  BY DEF Representable, min_split_payload
<1>2. size + ALLOC_ALIGN <= WORD
  BY <1>1, HeaderSize
<1>3. PICK required : required = align_up(size, ALLOC_ALIGN)
  OBVIOUS
<1>4. PICK k : k = required \div ALLOC_ALIGN
  OBVIOUS
<1>5. /\ required \in Nat /\ size <= required /\ required < size + ALLOC_ALIGN
      /\ required = k * ALLOC_ALIGN /\ k \in Nat
  BY <1>2, <1>3, <1>4, AlignUp
<1>6. required + ALLOC_ALIGN <= WORD
  BY <1>1, <1>5, HeaderSize
<1>7. k * ALLOC_ALIGN + ALLOC_ALIGN <= WORD
  BY <1>5, <1>6
<1>8. align_up(k * ALLOC_ALIGN, ALLOC_ALIGN) = k * ALLOC_ALIGN
  BY <1>5, <1>7, AlignUpAgain
<1>9. align_up(required, ALLOC_ALIGN) = required
  BY <1>5, <1>8
<1>10. required + header_size + ALLOC_ALIGN + PAGE_SIZE <= WORD
  BY <1>1, <1>5, HeaderSize
<1> QED
  BY <1>2, <1>3, <1>5, <1>6, <1>9, <1>10 DEF Fitting, min_split_payload

\* The pages asked for hold what is missing, and their bytes do not wrap.
LEMMA PagesNeeded ==
  ASSUME HeapFits, NEW m, NEW end \in Nat, NEW C, NEW x, Sound(m, end, C, x),
         NEW required \in Nat, required + header_size + PAGE_SIZE <= WORD,
         NEW pages, pages = pages_needed(m, required)
  PROVE  /\ pages \in Nat /\ pages * PAGE_SIZE \in Nat
         /\ m[last_block(m)].free \/ required + header_size <= pages * PAGE_SIZE
         /\ pages * PAGE_SIZE < WORD
<1>1. PICK tail : tail = last_block(m)
  OBVIOUS
<1>2. tail \in C /\ m[tail].size \in Nat
  BY <1>1, LastBlock, SoundParts
<1>3. CASE m[tail].free /\ m[tail].size >= required
  <2>1. pages = 0
    BY <1>1, <1>3 DEF pages_needed
  <2> QED
    BY <1>1, <1>3, <2>1
<1>4. CASE ~(m[tail].free /\ m[tail].size >= required)
  <2>1. PICK needed : needed = needed_payload(m, required)
    OBVIOUS
  <2>2. /\ needed \in Nat /\ needed <= required + header_size
        /\ m[tail].free \/ needed = required + header_size
    <3>1. CASE m[tail].free
      <4>1. needed = required - m[tail].size /\ ~(m[tail].size >= required)
        BY <1>1, <1>4, <2>1, <3>1 DEF needed_payload
      <4> QED
        BY <1>2, <3>1, <4>1, HeaderSize
    <3>2. CASE ~m[tail].free
      <4>1. needed = (required + header_size) % WORD
        BY <1>1, <2>1, <3>2 DEF needed_payload
      <4>2. required + header_size \in Nat /\ required + header_size < WORD
        BY HeaderSize
      <4>3. (required + header_size) % WORD = required + header_size
        BY <4>2
      <4> QED
        BY <4>1, <4>2, <4>3
    <3> QED
      BY <3>1, <3>2
  <2>3. needed + PAGE_SIZE <= WORD
    BY <2>2, HeaderSize
  <2>4. PICK bytes : bytes = align_up(needed, PAGE_SIZE)
    OBVIOUS
  <2>5. /\ bytes \in Nat /\ needed <= bytes /\ bytes < needed + PAGE_SIZE
        /\ bytes = (bytes \div PAGE_SIZE) * PAGE_SIZE /\ bytes \div PAGE_SIZE \in Nat
    BY <2>2, <2>3, <2>4, AlignUp
  <2>6. pages = bytes \div PAGE_SIZE
    BY <1>1, <1>4, <2>1, <2>4 DEF pages_needed
  <2>7. pages \in Nat /\ pages * PAGE_SIZE = bytes
    BY <2>5, <2>6
  <2>8. m[tail].free \/ required + header_size <= bytes
    BY <2>2, <2>5, HeaderSize
  <2> QED
    BY <1>1, <2>2, <2>3, <2>5, <2>7, <2>8
<1> QED
  BY <1>3, <1>4

\* The loop stops at the limit, and only there.
LEMMA PagesMapped ==
  ASSUME NEW end, HeapEnd(end), NEW pages \in Nat,
         NEW mapped, mapped = pages_mapped(end, pages)
  PROVE  /\ mapped \in Nat /\ mapped <= pages
         /\ HeapEnd(end + mapped * PAGE_SIZE)
         /\ mapped < pages => end + mapped * PAGE_SIZE = HEAP_VIRT_LIMIT
         /\ end < HEAP_VIRT_LIMIT \/ mapped = 0
<1>1. PICK k, l : k = end \div PAGE_SIZE /\ l = HEAP_VIRT_LIMIT \div PAGE_SIZE
  OBVIOUS
<1>2. /\ end \in Nat /\ k \in Nat /\ end = k * PAGE_SIZE
      /\ l \in Nat /\ HEAP_VIRT_LIMIT = l * PAGE_SIZE
  <2>1. end \in Nat /\ end % PAGE_SIZE = 0 /\ HEAP_VIRT_LIMIT % PAGE_SIZE = 0
    BY HeapLimits DEF HeapEnd
  <2>2. /\ end \div PAGE_SIZE \in Nat
        /\ end = (end \div PAGE_SIZE) * PAGE_SIZE + (end % PAGE_SIZE)
    BY <2>1, DivMod
  <2>3. /\ HEAP_VIRT_LIMIT \div PAGE_SIZE \in Nat
        /\ HEAP_VIRT_LIMIT =
             (HEAP_VIRT_LIMIT \div PAGE_SIZE) * PAGE_SIZE + (HEAP_VIRT_LIMIT % PAGE_SIZE)
    BY DivMod
  <2>4. k * PAGE_SIZE \in Nat /\ l * PAGE_SIZE \in Nat
    BY <1>1, <2>2, <2>3
  <2> QED
    BY <1>1, <2>1, <2>2, <2>3, <2>4
<1>3. k <= l
  <2>1. SUFFICES ASSUME l < k PROVE FALSE
    BY <1>2
  <2>2. l + 1 <= k
    BY <1>2, <2>1
  <2>3. (l + 1) * PAGE_SIZE <= k * PAGE_SIZE
    BY <1>2, <2>2
  <2>4. (l + 1) * PAGE_SIZE = l * PAGE_SIZE + PAGE_SIZE /\ l * PAGE_SIZE \in Nat
    BY <1>2
  <2> QED
    BY <1>2, <2>3, <2>4 DEF HeapEnd
<1>4. PICK left : left = IF end >= HEAP_VIRT_LIMIT THEN 0
                         ELSE (HEAP_VIRT_LIMIT - end + PAGE_SIZE - 1) \div PAGE_SIZE
  OBVIOUS
<1>5. left = l - k
  <2>1. CASE end >= HEAP_VIRT_LIMIT
    <3>1. end = HEAP_VIRT_LIMIT
      BY <1>2, <2>1 DEF HeapEnd
    <3>2. k = l
      BY <1>1, <3>1
    <3> QED
      BY <1>2, <1>4, <2>1, <3>2
  <2>2. CASE ~(end >= HEAP_VIRT_LIMIT)
    <3>1. PICK d : d = l - k
      OBVIOUS
    <3>2. d \in Nat /\ l = k + d
      BY <1>2, <1>3, <3>1
    <3>3. d * PAGE_SIZE \in Nat /\ l * PAGE_SIZE = k * PAGE_SIZE + d * PAGE_SIZE
      BY <1>2, <3>2
    <3>4. HEAP_VIRT_LIMIT - end + PAGE_SIZE - 1 = d * PAGE_SIZE + (PAGE_SIZE - 1)
      BY <1>2, <3>3
    <3>5. (d * PAGE_SIZE + (PAGE_SIZE - 1)) \div PAGE_SIZE = d
      BY <3>2, DivModUnique
    <3> QED
      BY <1>4, <2>2, <3>1, <3>4, <3>5
  <2> QED
    BY <2>1, <2>2
<1>6. mapped = IF pages <= left THEN pages ELSE left
  BY <1>4 DEF pages_mapped
<1>7. mapped \in Nat /\ mapped <= pages /\ mapped <= l - k /\ (mapped < pages => mapped = l - k)
  BY <1>2, <1>3, <1>5, <1>6
<1>8. PICK j : j = k + mapped
  OBVIOUS
<1>9. /\ j \in Nat /\ j <= l /\ end + mapped * PAGE_SIZE = j * PAGE_SIZE
      /\ mapped < pages => j = l
  <2>1. j \in Nat /\ j <= l /\ (mapped < pages => j = l)
    BY <1>2, <1>3, <1>7, <1>8
  <2>2. mapped * PAGE_SIZE \in Nat /\ j * PAGE_SIZE = k * PAGE_SIZE + mapped * PAGE_SIZE
    BY <1>2, <1>7, <1>8
  <2> QED
    BY <1>2, <2>1, <2>2
<1>10. HeapEnd(j * PAGE_SIZE)
  <2>1. j * PAGE_SIZE \in Nat /\ j * PAGE_SIZE <= l * PAGE_SIZE
    BY <1>2, <1>9
  <2>2. (j * PAGE_SIZE + 0) % PAGE_SIZE = 0
    BY <1>9, DivModUnique
  <2>3. j * PAGE_SIZE + 0 = j * PAGE_SIZE
    BY <2>1
  <2> QED
    BY <1>2, <2>1, <2>2, <2>3 DEF HeapEnd
<1>11. end < HEAP_VIRT_LIMIT \/ mapped = 0
  BY <1>2, <1>4, <1>6, <1>7
<1> QED
  BY <1>2, <1>7, <1>9, <1>10, <1>11

\* n is m with added bytes at the end of its block tail.
Grown(m, n, tail, added) ==
  /\ n = [a \in DOMAIN m |-> n[a]]
  /\ \A a \in DOMAIN m :
       /\ n[a].size = IF a = tail THEN m[a].size + added ELSE m[a].size
       /\ n[a].free = m[a].free
       /\ n[a].next = m[a].next /\ n[a].prev = m[a].prev
       /\ n[a] \in HeapBlock

\* What extend_heap_to_fit writes when the last block is free.
LEMMA GrowPoints ==
  ASSUME NEW m, Headers(m), NEW tail \in DOMAIN m, NEW added \in Nat,
         NEW n, n = [m EXCEPT ![tail].size = @ + added]
  PROVE  Grown(m, n, tail, added)
<1>1. \A a \in DOMAIN m : m[a] \in HeapBlock
  BY DEF Headers
<1>2. m[tail].size \in Nat
  BY <1>1 DEF HeapBlock
<1>3. n = [a \in DOMAIN m |-> n[a]]
  OBVIOUS
<1>4. ASSUME NEW a \in DOMAIN m
      PROVE  /\ n[a].size = IF a = tail THEN m[a].size + added ELSE m[a].size
             /\ n[a].free = m[a].free
             /\ n[a].next = m[a].next /\ n[a].prev = m[a].prev
             /\ n[a] \in HeapBlock
  <2>1. m[a] \in HeapBlock
    BY <1>1
  <2>2. CASE a = tail
    <3>1. n[a] = [m[a] EXCEPT !.size = @ + added]
      BY <2>2
    <3> QED
      BY <1>2, <2>1, <2>2, <3>1 DEF HeapBlock
  <2>3. CASE a # tail
    <3>1. n[a] = m[a]
      BY <2>3
    <3> QED
      BY <2>1, <2>3, <3>1
  <2> QED
    BY <2>2, <2>3
<1> QED
  BY <1>3, <1>4 DEF Grown

\* A free last block grows by the pages, and the list stays sound.
LEMMA GrownSound ==
  ASSUME NEW m, NEW end \in Nat, NEW C, NEW x, Sound(m, end, C, x),
         NEW tail \in C, m[tail].next = Null, m[tail].free,
         NEW added \in Nat, end < HEAP_VIRT_LIMIT \/ added = 0,
         NEW n, Grown(m, n, tail, added)
  PROVE  Sound(n, end + added, C, x) /\ Kept(m, C, n, C, {})
<1>1. /\ tail \in DOMAIN m /\ C \subseteq DOMAIN m /\ m[tail].size \in Nat
      /\ \A a \in DOMAIN m : m[a] \in HeapBlock
  BY SoundParts DEF Sound, Headers
<1>2. DOMAIN n = DOMAIN m /\ n = [a \in DOMAIN m |-> n[a]]
  BY DEF Grown
<1>3. \A a \in DOMAIN m :
        /\ n[a].size = IF a = tail THEN m[a].size + added ELSE m[a].size
        /\ n[a].free = m[a].free
        /\ n[a].next = m[a].next /\ n[a].prev = m[a].prev
        /\ n[a] \in HeapBlock
  BY DEF Grown
<1>4. Headers(n)
  <2>1. n \in [DOMAIN m -> HeapBlock]
    BY <1>2, <1>3
  <2> QED
    BY <1>2, <2>1 DEF Sound, Headers
<1>5. /\ BlockEnd(n, tail) = BlockEnd(m, tail) + added
      /\ \A a \in C \ {tail} : BlockEnd(n, a) = BlockEnd(m, a)
      /\ BlockEnd(m, tail) \in Nat /\ BlockEnd(m, tail) <= end
      /\ BlockEnd(m, tail) = end \/ end >= HEAP_VIRT_LIMIT
      /\ \A a \in C : a <= tail /\ a \in Nat
  <2>1. BlockEnd(n, tail) = BlockEnd(m, tail) + added /\ BlockEnd(m, tail) \in Nat
    BY <1>1, <1>3, SoundParts, HeaderSize DEF BlockEnd
  <2>2. \A a \in C \ {tail} : BlockEnd(n, a) = BlockEnd(m, a)
    BY <1>1, <1>3 DEF BlockEnd
  <2>3. \A a \in C : a \in Nat
    BY SoundParts
  <2> QED
    BY <2>1, <2>2, <2>3 DEF Sound, Linked
<1>6. Linked(n, end + added, C)
  <2>1. \A a \in C : n[a].next = m[a].next /\ n[a].prev = m[a].prev
    BY <1>1, <1>3
  <2>2. g_heap_start \in C /\ C \subseteq DOMAIN n
    BY <1>1, <1>2 DEF Sound, Linked
  <2>3. \A a \in C : g_heap_start <= a /\ BlockEnd(n, a) <= end + added
    <3> SUFFICES ASSUME NEW a \in C
                 PROVE  g_heap_start <= a /\ BlockEnd(n, a) <= end + added
      OBVIOUS
    <3>1. g_heap_start <= a /\ BlockEnd(m, a) <= end /\ BlockEnd(m, a) \in Nat
      BY SoundEnds DEF Sound, Linked
    <3> QED
      BY <1>5, <3>1
  <2>4. \A a, c \in C : a < c => BlockEnd(n, a) <= c
    <3> SUFFICES ASSUME NEW a \in C, NEW c \in C, a < c PROVE BlockEnd(n, a) <= c
      OBVIOUS
    <3>1. a # tail
      BY <1>5
    <3> QED
      BY <1>5, <3>1 DEF Sound, Linked
  <2>5. \A a \in C : n[a].next = Null =>
          /\ \A c \in C : c <= a
          /\ BlockEnd(n, a) = end + added \/ end + added >= HEAP_VIRT_LIMIT
    <3> SUFFICES ASSUME NEW a \in C, n[a].next = Null
                 PROVE  /\ \A c \in C : c <= a
                        /\ BlockEnd(n, a) = end + added \/ end + added >= HEAP_VIRT_LIMIT
      OBVIOUS
    <3>1. \A c \in C : c <= a
      BY <2>1 DEF Sound, Linked
    <3>2. a = tail
      BY <1>5, <3>1
    <3> QED
      BY <1>5, <3>1, <3>2
  <2>6. \A a \in C : n[a].next # Null =>
          /\ n[a].next \in C
          /\ n[a].next = BlockEnd(n, a)
          /\ n[n[a].next].prev = a
    <3> SUFFICES ASSUME NEW a \in C, n[a].next # Null
                 PROVE  /\ n[a].next \in C
                        /\ n[a].next = BlockEnd(n, a)
                        /\ n[n[a].next].prev = a
      OBVIOUS
    <3>1. /\ m[a].next \in C /\ m[a].next = BlockEnd(m, a)
          /\ m[m[a].next].prev = a
      BY <2>1 DEF Sound, Linked
    <3>2. a # tail
      BY <2>1
    <3> QED
      BY <1>5, <2>1, <3>1, <3>2
  <2>7. \A a \in C : n[a].prev = Null => a = g_heap_start
    BY <2>1 DEF Sound, Linked
  <2>8. \A a \in C : n[a].prev # Null => n[a].prev \in C /\ n[n[a].prev].next = a
    <3> SUFFICES ASSUME NEW a \in C, n[a].prev # Null
                 PROVE  n[a].prev \in C /\ n[n[a].prev].next = a
      OBVIOUS
    <3>1. m[a].prev \in C /\ m[m[a].prev].next = a
      BY <2>1 DEF Sound, Linked
    <3> QED
      BY <2>1, <3>1
  <2> QED
    BY <2>2, <2>3, <2>4, <2>5, <2>6, <2>7, <2>8 DEF Linked
<1>7. Stale(n, C, x)
  <2> SUFFICES ASSUME NEW s \in DOMAIN n \ C
               PROVE  /\ n[s].free
                      /\ \E c \in C : /\ n[c].free \/ c = x
                                      /\ c + header_size <= s
                                      /\ s + header_size <= BlockEnd(n, c)
    BY DEF Stale
  <2>1. s \in DOMAIN m \ C /\ s \in Nat
    BY <1>2, SoundParts
  <2>2. PICK c \in C : /\ m[s].free
                       /\ m[c].free \/ c = x
                       /\ c + header_size <= s
                       /\ s + header_size <= BlockEnd(m, c)
    BY <2>1 DEF Sound, Stale
  <2>3. n[c].free \/ c = x
    BY <1>1, <1>3, <2>2
  <2>4. s + header_size <= BlockEnd(n, c)
    BY <1>5, <2>1, <2>2, HeaderSize
  <2> QED
    BY <1>3, <2>1, <2>2, <2>3, <2>4
<1>8. Kept(m, C, n, C, {})
  BY <1>1, <1>3 DEF Kept, InUse
<1> QED
  BY <1>4, <1>6, <1>7, <1>8 DEF Sound

\* So it does for the record extend_heap_to_fit writes.
LEMMA TailGrown ==
  ASSUME NEW m, NEW end \in Nat, NEW C, NEW x, Sound(m, end, C, x),
         NEW tail \in C, m[tail].next = Null, m[tail].free,
         NEW added \in Nat, end < HEAP_VIRT_LIMIT \/ added = 0,
         NEW n, n = [m EXCEPT ![tail].size = @ + added]
  PROVE  Sound(n, end + added, C, x) /\ Kept(m, C, n, C, {})
<1>1. Headers(m) /\ tail \in DOMAIN m
  BY SoundParts DEF Sound
<1>2. Grown(m, n, tail, added)
  BY <1>1, GrowPoints
<1> QED
  BY <1>2, GrownSound

\* n is m with a free block of size bytes at new after the last block, tail.
Appended(m, n, tail, new, size) ==
  /\ n = [a \in DOMAIN m \cup {new} |-> n[a]]
  /\ n[new].size = size /\ n[new].free /\ n[new].prev = tail /\ n[new].next = Null
  /\ n[new] \in HeapBlock
  /\ \A a \in DOMAIN m :
       /\ n[a].size = m[a].size /\ n[a].free = m[a].free /\ n[a].prev = m[a].prev
       /\ n[a].next = IF a = tail THEN new ELSE m[a].next
       /\ n[a] \in HeapBlock

\* extend_heap behind a used last block, header by header.
LEMMA AppendPoints ==
  ASSUME NEW m, Headers(m), NEW tail \in DOMAIN m, tail = last_block(m),
         ~m[tail].free, NEW pages \in Nat, pages * PAGE_SIZE \in Nat,
         header_size <= pages * PAGE_SIZE, pages * PAGE_SIZE < WORD,
         NEW new \in Nat, new = BlockEnd(m, tail), new \notin DOMAIN m,
         NEW n, n = extended(m, pages)
  PROVE  Appended(m, n, tail, new, pages * PAGE_SIZE - header_size)
<1>1. PICK added : added = pages * PAGE_SIZE
  OBVIOUS
<1>2. PICK size : size = added - header_size
  OBVIOUS
<1>3. (added + WORD - header_size) % WORD = size /\ size \in Nat
  <2>1. /\ added \in Nat /\ header_size <= added /\ added < WORD
    BY <1>1
  <2>2. size \in Nat /\ size < WORD /\ added + WORD - header_size = 1 * WORD + size
    BY <1>2, <2>1, HeaderSize
  <2>3. (1 * WORD + size) % WORD = size
    BY <2>2, DivModUnique
  <2> QED
    BY <2>2, <2>3
<1>4. PICK last : last = [size |-> (added + WORD - header_size) % WORD,
                          free |-> TRUE, prev |-> tail, next |-> Null]
  OBVIOUS
<1>5. n = [a \in DOMAIN m \cup {new} |->
             CASE a = new  -> last
               [] a = tail -> [m[tail] EXCEPT !.next = new]
               [] OTHER    -> m[a]]
  BY <1>1, <1>4 DEF extended
<1>6. new # tail /\ tail \in Nat
  BY DEF Headers
<1>7. DOMAIN n = DOMAIN m \cup {new} /\ n = [a \in DOMAIN m \cup {new} |-> n[a]]
  BY <1>5
<1>8. n[new] = last
  BY <1>5, <1>6
<1>9. /\ last.size = size /\ last.free /\ last.prev = tail /\ last.next = Null
      /\ last \in HeapBlock
  BY <1>3, <1>4, <1>6 DEF HeapBlock, Null
<1>10. ASSUME NEW a \in DOMAIN m
       PROVE  /\ n[a].size = m[a].size /\ n[a].free = m[a].free
              /\ n[a].prev = m[a].prev
              /\ n[a].next = IF a = tail THEN new ELSE m[a].next
              /\ n[a] \in HeapBlock
  <2>1. m[a] \in HeapBlock /\ a # new
    BY DEF Headers
  <2>2. CASE a = tail
    <3>1. n[a] = [m[tail] EXCEPT !.next = new]
      BY <1>5, <2>1, <2>2
    <3> QED
      BY <2>1, <2>2, <3>1 DEF HeapBlock
  <2>3. CASE a # tail
    <3>1. n[a] = m[a]
      BY <1>5, <2>1, <2>3
    <3> QED
      BY <2>1, <2>3, <3>1
  <2> QED
    BY <2>2, <2>3
<1> QED
  BY <1>1, <1>2, <1>7, <1>8, <1>9, <1>10 DEF Appended

\* A free block appended at the end of the heap leaves the list sound.
LEMMA AppendSound ==
  ASSUME NEW m, NEW end \in Nat, NEW C, NEW x, Sound(m, end, C, x),
         end < HEAP_VIRT_LIMIT,
         NEW tail \in C, m[tail].next = Null, ~m[tail].free,
         NEW new, new = BlockEnd(m, tail), NEW added \in Nat,
         NEW size \in Nat, added = size + header_size,
         NEW n, Appended(m, n, tail, new, size)
  PROVE  Sound(n, end + added, C \cup {new}, x) /\ Kept(m, C, n, C \cup {new}, {})
<1> DEFINE D == C \cup {new}
<1>1. /\ tail \in Nat /\ tail < new /\ new \in Nat \ {0}
      /\ new = end
      /\ \A a \in C : a <= tail /\ a \in Nat
  <2>1. tail \in Nat \ {0} /\ tail < new /\ new \in Nat
    BY SoundEnds
  <2>2. (\A a \in C : a <= tail) /\ (new = end \/ end >= HEAP_VIRT_LIMIT)
    BY DEF Sound, Linked
  <2>3. new = end
    BY <2>2
  <2>4. \A a \in C : a \in Nat
    BY SoundEnds
  <2> QED
    BY <2>1, <2>2, <2>3, <2>4
<1>2. new \notin C
  BY <1>1
<1>3. /\ n[new].size = size /\ n[new].free /\ n[new].prev = tail /\ n[new].next = Null
      /\ n[new] \in HeapBlock
  BY DEF Appended
<1>4. \A a \in DOMAIN m :
         /\ n[a].size = m[a].size /\ n[a].free = m[a].free /\ n[a].prev = m[a].prev
         /\ n[a].next = IF a = tail THEN new ELSE m[a].next
         /\ n[a] \in HeapBlock
  BY DEF Appended
<1>5. DOMAIN n = DOMAIN m \cup {new} /\ n = [a \in DOMAIN m \cup {new} |-> n[a]]
  BY DEF Appended
<1>6. C \subseteq DOMAIN m
  BY DEF Sound, Linked
<1>7. Headers(n)
  <2>1. n \in [DOMAIN m \cup {new} -> HeapBlock]
    BY <1>3, <1>4, <1>5
  <2>2. DOMAIN m \cup {new} \subseteq Nat \ {Null}
    BY <1>1 DEF Sound, Headers, Null
  <2> QED
    BY <1>5, <2>1, <2>2 DEF Headers
<1>8. /\ BlockEnd(n, new) = end + added
      /\ \A a \in C : BlockEnd(n, a) = BlockEnd(m, a)
  <2>1. BlockEnd(n, new) = end + added
    BY <1>1, <1>3, HeaderSize DEF BlockEnd
  <2> QED
    BY <1>4, <1>6, <2>1 DEF BlockEnd
<1>9. \A a \in C : BlockEnd(m, a) <= end /\ BlockEnd(m, a) \in Nat
  BY SoundEnds DEF Sound, Linked
<1> HIDE DEF D
<1>10. Linked(n, end + added, D)
  <2>1. g_heap_start \in D /\ D \subseteq DOMAIN n
    BY <1>5 DEF D, Sound, Linked
  <2>2. \A a \in D : g_heap_start <= a /\ BlockEnd(n, a) <= end + added
    <3> SUFFICES ASSUME NEW a \in D
                 PROVE  g_heap_start <= a /\ BlockEnd(n, a) <= end + added
      OBVIOUS
    <3>1. CASE a = new
      <4>1. g_heap_start <= tail
        BY DEF Sound, Linked
      <4> QED
        BY <1>1, <1>8, <3>1, <4>1, HeapStart
    <3>2. CASE a \in C
      <4>1. g_heap_start <= a /\ BlockEnd(m, a) <= end /\ BlockEnd(m, a) \in Nat
        BY <1>9, <3>2 DEF Sound, Linked
      <4> QED
        BY <1>8, <3>2, <4>1
    <3> QED
      BY <3>1, <3>2 DEF D
  <2>3. \A a, c \in D : a < c => BlockEnd(n, a) <= c
    <3> SUFFICES ASSUME NEW a \in D, NEW c \in D, a < c PROVE BlockEnd(n, a) <= c
      OBVIOUS
    <3>1. a \in C
      BY <1>1 DEF D
    <3>2. CASE c \in C
      BY <1>8, <3>1, <3>2 DEF Sound, Linked
    <3>3. CASE c = new
      BY <1>1, <1>8, <1>9, <3>1, <3>3
    <3> QED
      BY <3>2, <3>3 DEF D
  <2>4. \A a \in D : n[a].next = Null =>
          /\ \A c \in D : c <= a
          /\ BlockEnd(n, a) = end + added \/ end + added >= HEAP_VIRT_LIMIT
    <3> SUFFICES ASSUME NEW a \in D, n[a].next = Null
                 PROVE  /\ \A c \in D : c <= a
                        /\ BlockEnd(n, a) = end + added \/ end + added >= HEAP_VIRT_LIMIT
      OBVIOUS
    <3>1. a = new
      <4>1. SUFFICES ASSUME a \in C PROVE FALSE
        BY DEF D
      <4>2. a # tail
        BY <1>1, <1>4, <1>6 DEF Null
      <4>3. m[a].next = Null
        BY <1>4, <1>6, <4>1, <4>2
      <4>4. tail <= a
        BY <4>1, <4>3 DEF Sound, Linked
      <4> QED
        BY <1>1, <4>1, <4>2, <4>4
    <3> QED
      BY <1>1, <1>8, <3>1 DEF D
  <2>5. \A a \in D : n[a].next # Null =>
          /\ n[a].next \in D
          /\ n[a].next = BlockEnd(n, a)
          /\ n[n[a].next].prev = a
    <3> SUFFICES ASSUME NEW a \in D, n[a].next # Null
                 PROVE  /\ n[a].next \in D
                        /\ n[a].next = BlockEnd(n, a)
                        /\ n[n[a].next].prev = a
      OBVIOUS
    <3>1. a \in C /\ a \in DOMAIN m
      BY <1>3, <1>6 DEF D
    <3>2. CASE a = tail
      BY <1>3, <1>4, <1>8, <3>1, <3>2 DEF D
    <3>3. CASE a # tail
      <4>1. n[a].next = m[a].next
        BY <1>4, <3>1, <3>3
      <4>2. m[a].next \in C /\ m[a].next = BlockEnd(m, a) /\ m[m[a].next].prev = a
        BY <3>1, <4>1 DEF Sound, Linked
      <4> QED
        BY <1>4, <1>6, <1>8, <3>1, <4>1, <4>2 DEF D
    <3> QED
      BY <3>2, <3>3
  <2>6. \A a \in D : n[a].prev = Null => a = g_heap_start
    <3> SUFFICES ASSUME NEW a \in D, n[a].prev = Null PROVE a = g_heap_start
      OBVIOUS
    <3>1. tail # 0
      BY SoundParts
    <3>2. a \in C /\ m[a].prev = Null
      BY <1>3, <1>4, <1>6, <3>1 DEF D, Null
    <3> QED
      BY <3>2 DEF Sound, Linked
  <2>7. \A a \in D : n[a].prev # Null => n[a].prev \in D /\ n[n[a].prev].next = a
    <3> SUFFICES ASSUME NEW a \in D, n[a].prev # Null
                 PROVE  n[a].prev \in D /\ n[n[a].prev].next = a
      OBVIOUS
    <3>1. CASE a = new
      BY <1>3, <1>4, <1>6, <3>1 DEF D
    <3>2. CASE a \in C
      <4>1. n[a].prev = m[a].prev
        BY <1>4, <1>6, <3>2
      <4>2. m[a].prev \in C /\ m[m[a].prev].next = a
        BY <3>2, <4>1 DEF Sound, Linked
      <4>3. m[a].prev # tail
        <5>1. a # 0
          BY <3>2, SoundParts
        <5> QED
          BY <4>2, <5>1 DEF Null
      <4> QED
        BY <1>4, <1>6, <4>1, <4>2, <4>3 DEF D
    <3> QED
      BY <3>1, <3>2 DEF D
  <2> QED
    BY <2>1, <2>2, <2>3, <2>4, <2>5, <2>6, <2>7 DEF Linked
<1>11. Stale(n, D, x)
  <2> SUFFICES ASSUME NEW s \in DOMAIN n \ D
               PROVE  /\ n[s].free
                      /\ \E c \in D : /\ n[c].free \/ c = x
                                      /\ c + header_size <= s
                                      /\ s + header_size <= BlockEnd(n, c)
    BY DEF Stale
  <2>1. s \in DOMAIN m \ C
    BY <1>5 DEF D
  <2>2. PICK c \in C : /\ m[s].free
                       /\ m[c].free \/ c = x
                       /\ c + header_size <= s
                       /\ s + header_size <= BlockEnd(m, c)
    BY <2>1 DEF Sound, Stale
  <2> QED
    BY <1>4, <1>6, <1>8, <2>1, <2>2 DEF D
<1>12. Kept(m, C, n, D, {})
  <2>1. InUse(n, D) = InUse(m, C)
    BY <1>3, <1>4, <1>6 DEF InUse, D
  <2>2. \A a \in InUse(m, C) : n[a].size = m[a].size
    BY <1>4, <1>6 DEF InUse
  <2> QED
    BY <2>1, <2>2 DEF Kept
<1> QED
  BY <1>7, <1>10, <1>11, <1>12 DEF Sound, D

\* No header lies from the end of the last block on.
LEMMA NothingBehind ==
  ASSUME NEW m, NEW end \in Nat, NEW C, NEW x, Sound(m, end, C, x),
         NEW tail \in C, m[tail].next = Null
  PROVE  BlockEnd(m, tail) \notin DOMAIN m
<1> SUFFICES ASSUME BlockEnd(m, tail) \in DOMAIN m PROVE FALSE
  OBVIOUS
<1>1. PICK new : new = BlockEnd(m, tail)
  OBVIOUS
<1>2. /\ tail \in Nat /\ tail < new /\ new \in Nat
      /\ \A a \in C : a <= tail /\ a \in Nat
  BY <1>1, SoundEnds DEF Sound, Linked
<1>3. new \in DOMAIN m \ C
  BY <1>1, <1>2
<1>4. PICK c \in C : new + header_size <= BlockEnd(m, c)
  BY <1>3 DEF Sound, Stale
<1>5. BlockEnd(m, c) <= new
  <2>1. CASE c = tail
    BY <1>1, <1>2, <2>1
  <2>2. CASE c # tail
    <3>1. c < tail
      BY <1>2, <2>2
    <3>2. BlockEnd(m, c) <= tail /\ BlockEnd(m, c) \in Nat
      BY <3>1, SoundEnds DEF Sound, Linked
    <3> QED
      BY <1>2, <3>2
  <2> QED
    BY <2>1, <2>2
<1>6. BlockEnd(m, c) \in Nat
  BY SoundEnds
<1> QED
  BY <1>2, <1>4, <1>5, <1>6, HeaderSize

\* extend_heap_to_fit, when it could map the pages, keeps the list sound.
LEMMA ExtendedSound ==
  ASSUME HeapFits, NEW m, NEW end \in Nat, NEW C, NEW x, Sound(m, end, C, x),
         NEW pages \in Nat, pages * PAGE_SIZE \in Nat, pages * PAGE_SIZE < WORD,
         m[last_block(m)].free \/ header_size <= pages * PAGE_SIZE,
         end < HEAP_VIRT_LIMIT \/ pages = 0,
         NEW n, n = extended(m, pages)
  PROVE  \E D : Sound(n, end + pages * PAGE_SIZE, D, x) /\ Kept(m, C, n, D, {})
<1>1. PICK tail, added : tail = last_block(m) /\ added = pages * PAGE_SIZE
  OBVIOUS
<1>2. tail \in C /\ m[tail].next = Null /\ tail \in DOMAIN m
  BY <1>1, LastBlock, SoundParts
<1>3. CASE m[tail].free
  <2>1. n = [m EXCEPT ![tail].size = @ + added]
    BY <1>1, <1>3 DEF extended
  <2>2. added \in Nat /\ (end < HEAP_VIRT_LIMIT \/ added = 0)
    BY <1>1
  <2>3. Sound(n, end + added, C, x) /\ Kept(m, C, n, C, {})
    BY <1>2, <1>3, <2>1, <2>2, TailGrown
  <2> QED
    BY <1>1, <2>3
<1>4. CASE ~m[tail].free
  <2>1. PICK new : new = BlockEnd(m, tail)
    OBVIOUS
  <2>2. new \in Nat /\ new \notin DOMAIN m
    BY <1>2, <2>1, NothingBehind, SoundEnds
  <2>3. PICK size : size = added - header_size
    OBVIOUS
  <2>4. header_size <= added /\ added \in Nat
    BY <1>1, <1>4
  <2>5. size \in Nat /\ added = size + header_size /\ end < HEAP_VIRT_LIMIT
    <3>1. pages # 0
      BY <1>1, <2>4, HeaderSize
    <3> QED
      BY <2>3, <2>4, <3>1, HeaderSize
  <2>6. Appended(m, n, tail, new, size)
    <3>1. Headers(m)
      BY DEF Sound
    <3>2. header_size <= pages * PAGE_SIZE
      BY <1>1, <2>4
    <3>3. Appended(m, n, tail, new, pages * PAGE_SIZE - header_size)
      BY <1>1, <1>2, <1>4, <2>1, <2>2, <3>1, <3>2, AppendPoints
    <3> QED
      BY <1>1, <2>3, <3>3
  <2>7. Sound(n, end + added, C \cup {new}, x) /\ Kept(m, C, n, C \cup {new}, {})
    BY <1>2, <1>4, <2>1, <2>4, <2>5, <2>6, AppendSound
  <2> QED
    BY <1>1, <2>7
<1> QED
  BY <1>3, <1>4

-----------------------------------------------------------------------------

(* kmalloc. *)

\* A call with result r that gives its client nothing leaves a sound list D
\* with the same blocks in use.
Failed(m, C, end, r, D) ==
  Sound(r.blocks, end, D, Null) /\ Kept(m, C, r.blocks, D, {})

\* A call with result r that gives its client a block of at least size bytes,
\* in return for the blocks in G: the new block was free or is one of G, the
\* others of G are free now, and the new block lies apart from them.
Allotted(m, C, end, r, size, G, D) ==
  LET b == r.ptr - header_size IN
  /\ size > 0 /\ r.ptr \in Nat
  /\ Sound(r.blocks, end, D, b)
  /\ Kept(m, C, r.blocks, D, {b} \cup G)
  /\ b \in InUse(r.blocks, D) /\ size <= r.blocks[b].size
  /\ b \notin InUse(m, C) \ G
  /\ (G \ {b}) \cap InUse(r.blocks, D) = {}
  /\ \A g \in G \ {b} : b + header_size + size <= g \/ BlockEnd(m, g) <= b

\* Pages mapped up to the limit that no block gets leave the list sound.
LEMMA SoundAtLimit ==
  ASSUME NEW m, NEW end \in Nat, NEW C, NEW x, Sound(m, end, C, x),
         NEW limit \in Nat, end <= limit, limit >= HEAP_VIRT_LIMIT
  PROVE  Sound(m, limit, C, x)
<1>1. \A b \in C : BlockEnd(m, b) <= limit
  <2> SUFFICES ASSUME NEW b \in C PROVE BlockEnd(m, b) <= limit
    OBVIOUS
  <2>1. BlockEnd(m, b) <= end /\ BlockEnd(m, b) \in Nat
    BY SoundEnds DEF Sound, Linked
  <2> QED
    BY <2>1
<1> QED
  BY <1>1 DEF Sound, Linked

\* A free block that is split and taken.
LEMMA TakeBlockSound ==
  ASSUME NEW m, NEW end \in Nat, NEW C, Sound(m, end, C, Null),
         NEW b \in C, m[b].free, NEW required \in Nat, required <= m[b].size,
         required + header_size + min_split_payload < WORD,
         NEW size \in Nat, 0 < size, size <= required,
         NEW pages, NEW r, r = TakeBlock(m, b, required, pages)
  PROVE  /\ r.ptr = b + header_size /\ r.pages = pages
         /\ \E D : Allotted(m, C, end, r, size, {}, D)
<1>1. PICK parted : parted = split_block(m, b, required)
  OBVIOUS
<1>2. PICK n : n = [parted EXCEPT ![b].free = FALSE]
  OBVIOUS
<1>3. /\ r.ptr = b + header_size /\ r.pages = pages /\ r.blocks = n
  BY <1>1, <1>2 DEF TakeBlock, Result
<1>4. Sound(m, end, C, b)
  BY SoundAnyway
<1>5. PICK D : Worked(m, C, parted, D, end, b, b) /\ required <= parted[b].size
  BY <1>1, <1>4, SplitBlock
<1>6. Sound(parted, end, D, b) /\ Kept(m, C, parted, D, {b}) /\ b \in D
  BY <1>5 DEF Worked
<1>7. Marked(parted, n, b) /\ ~n[b].free
  BY <1>2, <1>6, MarkUsed DEF Sound, Linked
<1>8. Sound(n, end, D, b) /\ Kept(parted, D, n, D, {b})
  BY <1>6, <1>7, MarkSound
<1>9. Kept(m, C, n, D, {b})
  BY <1>6, <1>8, KeptTwice
<1>10. b \in Nat /\ parted[b].size \in Nat /\ b \in DOMAIN parted
  BY <1>6, SoundParts
<1>11. n[b].size = parted[b].size
  BY <1>7, <1>10 DEF Marked
<1>12. size <= n[b].size
  BY <1>5, <1>10, <1>11
<1>13. b \in InUse(n, D) /\ b \notin InUse(m, C)
  BY <1>6, <1>7 DEF InUse
<1>14. r.ptr \in Nat /\ r.ptr - header_size = b
  BY <1>3, <1>10, HeaderSize
<1>15. Allotted(m, C, end, r, size, {}, D)
  BY <1>3, <1>8, <1>9, <1>12, <1>13, <1>14 DEF Allotted
<1> QED
  BY <1>3, <1>15

\* kmalloc returns null and keeps all blocks in use, or allots a block.
LEMMA KMallocSound ==
  ASSUME HeapFits, NEW m, NEW end, HeapEnd(end), NEW C, Sound(m, end, C, Null),
         NEW size \in Nat, Fitting(size), NEW r, r = kmalloc(m, end, size)
  PROVE  /\ r.pages \in Nat /\ HeapEnd(end + r.pages * PAGE_SIZE)
         /\ r.ptr = Null => \E D : Failed(m, C, end + r.pages * PAGE_SIZE, r, D)
         /\ r.ptr # Null =>
              \E D : Allotted(m, C, end + r.pages * PAGE_SIZE, r, size, {}, D)
<1>1. PICK required : required = align_up(size, ALLOC_ALIGN)
  OBVIOUS
<1>2. PICK found, needed : /\ found = find_free_block(m, required)
                           /\ needed = pages_needed(m, required)
  OBVIOUS
<1>3. PICK mapped, grown : /\ mapped = pages_mapped(end, needed)
                           /\ grown = extended(m, needed)
  OBVIOUS
<1>4. PICK retried : retried = find_free_block(grown, required)
  OBVIOUS
<1>5. /\ required \in Nat /\ size <= required
      /\ required + header_size + min_split_payload + PAGE_SIZE <= WORD
  BY <1>1, AlignUp DEF Fitting
<1>6. /\ required + header_size + min_split_payload < WORD
      /\ required + header_size + PAGE_SIZE <= WORD
  BY <1>5, HeaderSize DEF min_split_payload
<1>7. end \in Nat /\ end + 0 * PAGE_SIZE = end
  BY DEF HeapEnd
<1>8. CASE size = 0
  <2>1. r = Result(m, Null, 0)
    BY <1>8 DEF kmalloc
  <2>2. r.blocks = m /\ r.ptr = Null /\ r.pages = 0
    BY <2>1 DEF Result
  <2>3. Failed(m, C, end, r, C)
    BY <2>2 DEF Failed, Kept
  <2> QED
    BY <1>7, <2>2, <2>3
<1>9. CASE size # 0 /\ found # Null
  <2>1. r = TakeBlock(m, found, required, 0)
    <3>1. g_heap_head # Null
      BY HeapStart DEF g_heap_head
    <3> QED
      BY <1>1, <1>2, <1>9, <3>1 DEF kmalloc
  <2>2. found \in C /\ m[found].free /\ m[found].size >= required
    BY <1>2, <1>9, FindFreeBlock
  <2>3. m[found].size \in Nat /\ found \in Nat
    BY <2>2, SoundParts
  <2>4. /\ r.ptr = found + header_size /\ r.pages = 0
        /\ \E D : Allotted(m, C, end, r, size, {}, D)
    BY <1>5, <1>6, <1>7, <1>9, <2>1, <2>2, <2>3, TakeBlockSound
  <2>5. r.ptr # Null
    BY <2>3, <2>4, HeaderSize DEF Null
  <2> QED
    BY <1>7, <2>4, <2>5
<1>10. CASE size # 0 /\ found = Null
  <2>1. r = IF mapped < needed THEN Result(m, Null, mapped)
            ELSE IF retried = Null THEN Result(grown, Null, mapped)
            ELSE TakeBlock(grown, retried, required, mapped)
    <3>1. g_heap_head # Null
      BY HeapStart DEF g_heap_head
    <3> QED
      BY <1>1, <1>2, <1>3, <1>4, <1>10, <3>1 DEF kmalloc
  <2>2. /\ needed \in Nat /\ needed * PAGE_SIZE \in Nat
        /\ m[last_block(m)].free \/ required + header_size <= needed * PAGE_SIZE
        /\ needed * PAGE_SIZE < WORD
    BY <1>2, <1>5, <1>6, <1>7, PagesNeeded
  <2>3. /\ mapped \in Nat /\ mapped <= needed
        /\ HeapEnd(end + mapped * PAGE_SIZE)
        /\ mapped < needed => end + mapped * PAGE_SIZE = HEAP_VIRT_LIMIT
        /\ end < HEAP_VIRT_LIMIT \/ mapped = 0
    BY <1>3, <2>2, PagesMapped
  <2>4. CASE mapped < needed
    <3>1. r.blocks = m /\ r.ptr = Null /\ r.pages = mapped
      BY <2>1, <2>4 DEF Result
    <3>2. /\ end + mapped * PAGE_SIZE \in Nat
          /\ end <= end + mapped * PAGE_SIZE
          /\ end + mapped * PAGE_SIZE >= HEAP_VIRT_LIMIT
      <4>1. end + mapped * PAGE_SIZE = HEAP_VIRT_LIMIT
        BY <2>3, <2>4
      <4> QED
        BY <4>1 DEF HeapEnd
    <3>3. Sound(m, end + mapped * PAGE_SIZE, C, Null)
      BY <1>7, <3>2, SoundAtLimit
    <3>4. Failed(m, C, end + mapped * PAGE_SIZE, r, C)
      BY <3>1, <3>3 DEF Failed, Kept
    <3> QED
      BY <2>3, <3>1, <3>4
  <2>5. CASE ~(mapped < needed)
    <3>1. mapped = needed
      BY <2>2, <2>3, <2>5
    <3>2. m[last_block(m)].free \/ header_size <= needed * PAGE_SIZE
      BY <1>5, <2>2, HeaderSize
    <3>3. end < HEAP_VIRT_LIMIT \/ needed = 0
      BY <2>3, <3>1
    <3>4. PICK E : /\ Sound(grown, end + needed * PAGE_SIZE, E, Null)
                   /\ Kept(m, C, grown, E, {})
      BY <1>3, <1>7, <2>2, <3>2, <3>3, ExtendedSound
    <3>5. PICK far : far = end + mapped * PAGE_SIZE
      OBVIOUS
    <3>6. far \in Nat /\ HeapEnd(far) /\ Sound(grown, far, E, Null)
      BY <2>3, <3>1, <3>4, <3>5 DEF HeapEnd
    <3>7. CASE retried = Null
      <4>1. r.blocks = grown /\ r.ptr = Null /\ r.pages = mapped
        BY <2>1, <2>5, <3>7 DEF Result
      <4>2. Failed(m, C, far, r, E)
        BY <3>4, <3>6, <4>1 DEF Failed
      <4> QED
        BY <2>3, <3>5, <4>1, <4>2
    <3>8. CASE retried # Null
      <4>1. r = TakeBlock(grown, retried, required, mapped)
        BY <2>1, <2>5, <3>8
      <4>2. /\ retried \in E /\ grown[retried].free
            /\ grown[retried].size >= required
        BY <1>4, <3>6, <3>8, FindFreeBlock
      <4>3. grown[retried].size \in Nat /\ retried \in Nat
        BY <3>6, <4>2, SoundParts
      <4>4. /\ r.ptr = retried + header_size /\ r.pages = mapped
            /\ \E D : Allotted(grown, E, far, r, size, {}, D)
        BY <1>5, <1>6, <1>10, <3>6, <4>1, <4>2, <4>3, TakeBlockSound
      <4>5. r.ptr # Null
        BY <4>3, <4>4, HeaderSize DEF Null
      <4>6. PICK D : Allotted(grown, E, far, r, size, {}, D)
        BY <4>4
      <4>7. InUse(grown, E) = InUse(m, C)
        BY <3>4 DEF Kept
      <4>8. PICK b : b = r.ptr - header_size
        OBVIOUS
      <4>9. Kept(grown, E, r.blocks, D, {b})
        BY <4>6, <4>8 DEF Allotted
      <4>10. Kept(m, C, grown, E, {b})
        BY <3>4, KeptMore
      <4>11. Kept(m, C, r.blocks, D, {b})
        BY <4>9, <4>10, KeptTwice
      <4>12. Allotted(m, C, far, r, size, {}, D)
        BY <4>6, <4>7, <4>8, <4>11 DEF Allotted
      <4> QED
        BY <2>3, <3>5, <4>4, <4>5, <4>12
    <3> QED
      BY <3>7, <3>8
  <2> QED
    BY <2>4, <2>5
<1> QED
  BY <1>8, <1>9, <1>10

-----------------------------------------------------------------------------

(* krealloc. *)

\* The fields of what a call returns.
LEMMA ResultFields ==
  ASSUME NEW m, NEW ptr, NEW pages
  PROVE  DOMAIN Result(m, ptr, pages) = {"blocks", "ptr", "pages"}
  BY DEF Result

\* kmalloc returns such a record on every path.
LEMMA KMallocFields ==
  ASSUME NEW m, NEW end, NEW size
  PROVE  DOMAIN kmalloc(m, end, size) = {"blocks", "ptr", "pages"}
<1>1. PICK required : required = align_up(size, ALLOC_ALIGN)
  OBVIOUS
<1>2. PICK found, needed : /\ found = find_free_block(m, required)
                           /\ needed = pages_needed(m, required)
  OBVIOUS
<1>3. PICK mapped, grown : /\ mapped = pages_mapped(end, needed)
                           /\ grown = extended(m, needed)
  OBVIOUS
<1>4. PICK retried : retried = find_free_block(grown, required)
  OBVIOUS
<1>5. PICK taken, late : /\ taken = TakeBlock(m, found, required, 0)
                         /\ late = TakeBlock(grown, retried, required, mapped)
  OBVIOUS
<1>6. \/ kmalloc(m, end, size) = Result(m, Null, 0)
      \/ kmalloc(m, end, size) = taken
      \/ kmalloc(m, end, size) = Result(m, Null, mapped)
      \/ kmalloc(m, end, size) = Result(grown, Null, mapped)
      \/ kmalloc(m, end, size) = late
  BY <1>1, <1>2, <1>3, <1>4, <1>5, Zenon DEF kmalloc
<1>7. /\ DOMAIN taken = {"blocks", "ptr", "pages"}
      /\ DOMAIN late = {"blocks", "ptr", "pages"}
  BY <1>5, ResultFields DEF TakeBlock
<1> QED
  BY <1>6, <1>7, ResultFields

\* krealloc of a pointer that is not to a block in use changes nothing.
LEMMA KReallocRejected ==
  ASSUME NEW m, NEW end, NEW p, NEW size, p # Null,
         p - header_size \in DOMAIN m => m[p - header_size].free
  PROVE  krealloc(m, end, p, size) = Result(m, Null, 0)
<1>1. block_from_ptr(m, end, p) = Null \/ m[block_from_ptr(m, end, p)].free
  BY PtrRejected
<1> QED
  BY <1>1 DEF krealloc

\* A block in use that is split in two stays where it is.
LEMMA ShrunkInPlace ==
  ASSUME NEW m, NEW end \in Nat, NEW C, NEW b, Sound(m, end, C, b), b \in InUse(m, C),
         NEW required \in Nat, required <= m[b].size,
         required + header_size + min_split_payload < WORD,
         NEW size \in Nat, 0 < size, size <= required,
         NEW p, p = b + header_size,
         NEW r, r = Result(split_block(m, b, required), p, 0)
  PROVE  \E D : Allotted(m, C, end, r, size, {b}, D)
<1>1. PICK n : n = split_block(m, b, required)
  OBVIOUS
<1>2. r.blocks = n /\ r.ptr = p
  BY <1>1 DEF Result
<1>3. b \in C /\ ~m[b].free /\ b \in Nat
  BY SoundParts DEF InUse
<1>4. PICK D : Worked(m, C, n, D, end, b, b) /\ required <= n[b].size
  BY <1>1, <1>3, SplitBlock
<1>5. Sound(n, end, D, b) /\ Kept(m, C, n, D, {b}) /\ b \in InUse(n, D)
  BY <1>3, <1>4 DEF Worked, InUse
<1>6. n[b].size \in Nat
  BY <1>5, SoundParts DEF InUse
<1>7. size <= n[b].size
  BY <1>4, <1>6
<1>8. p \in Nat /\ p - header_size = b
  BY <1>3, HeaderSize
<1>9. {b} \cup {b} = {b} /\ {b} \ {b} = {}
  OBVIOUS
<1>10. Allotted(m, C, end, r, size, {b}, D)
  BY <1>2, <1>5, <1>7, <1>8, <1>9 DEF Allotted
<1> QED
  BY <1>10

\* krealloc of a pointer to a block in use, to a size other than 0.
LEMMA KReallocSound ==
  ASSUME HeapFits, NEW m, NEW end, HeapEnd(end), NEW C, Sound(m, end, C, Null),
         NEW b \in InUse(m, C), m[b].size > 0,
         NEW size \in Nat, size > 0, Representable(size),
         NEW p, p = b + header_size, NEW r, r = krealloc(m, end, p, size)
  PROVE  /\ r.pages \in Nat /\ HeapEnd(end + r.pages * PAGE_SIZE)
         /\ r.ptr = Null => \E D : Failed(m, C, end + r.pages * PAGE_SIZE, r, D)
         /\ r.ptr # Null =>
              \E D : Allotted(m, C, end + r.pages * PAGE_SIZE, r, size, {b}, D)
<1>1. PICK required, next : required = align_up(size, ALLOC_ALIGN) /\ next = m[b].next
  OBVIOUS
<1>2. PICK moved : moved = kmalloc(m, end, required)
  OBVIOUS
<1>3. /\ required \in Nat /\ size <= required /\ Fitting(required)
      /\ required + header_size + min_split_payload < WORD
  <2>1. Fitting(size) /\ Fitting(required) /\ required \in Nat /\ size <= required
    BY <1>1, RepresentableFits
  <2>2. required + header_size + min_split_payload + PAGE_SIZE <= WORD
    BY <1>1, <2>1 DEF Fitting
  <2> QED
    BY <2>1, <2>2, HeaderSize DEF min_split_payload
<1>4. end \in Nat /\ end + 0 * PAGE_SIZE = end
  BY DEF HeapEnd
<1>5. b \in C /\ ~m[b].free /\ b \in Nat \ {0} /\ m[b].size \in Nat
  BY SoundParts DEF InUse
<1>6. p # Null /\ p \in Nat /\ block_from_ptr(m, end, p) = b
  BY <1>4, <1>5, BlockFromPtr, HeaderSize DEF Null
<1>7. Sound(m, end, C, b)
  BY SoundAnyway
<1>8. r = IF required <= m[b].size
          THEN Result(split_block(m, b, required), p, 0)
          ELSE IF /\ next # Null /\ m[next].free
                  /\ m[b].size + header_size + m[next].size >= required
          THEN Result(split_block(coalesce_with_next(m, b), b, required), p, 0)
          ELSE IF moved.ptr = Null THEN moved
          ELSE [moved EXCEPT !.blocks = kfree(@, end + moved.pages * PAGE_SIZE, p)]
  BY <1>1, <1>2, <1>5, <1>6 DEF krealloc, Null
<1>9. CASE required <= m[b].size
  <2>1. r = Result(split_block(m, b, required), p, 0)
    BY <1>8, <1>9
  <2>2. \E D : Allotted(m, C, end, r, size, {b}, D)
    BY <1>3, <1>4, <1>7, <1>9, <2>1, ShrunkInPlace
  <2>3. r.ptr = p /\ r.pages = 0
    BY <2>1 DEF Result
  <2>4. r.pages \in Nat /\ end + r.pages * PAGE_SIZE = end
    BY <1>4, <2>3
  <2>5. r.ptr # Null
    BY <1>6, <2>3
  <2> QED
    BY <2>2, <2>4, <2>5
<1>10. CASE /\ ~(required <= m[b].size)
            /\ next # Null /\ m[next].free
            /\ m[b].size + header_size + m[next].size >= required
  <2>1. PICK joined : joined = coalesce_with_next(m, b)
    OBVIOUS
  <2>2. PICK E : /\ Worked(m, C, joined, E, end, b, b)
                 /\ joined[b].size = m[b].size + header_size + m[next].size
    BY <1>1, <1>4, <1>5, <1>7, <1>10, <2>1, Coalesce
  <2>3. Sound(joined, end, E, b) /\ Kept(m, C, joined, E, {b}) /\ b \in InUse(joined, E)
    BY <1>5, <2>2 DEF Worked, InUse
  <2>4. r = Result(split_block(joined, b, required), p, 0)
    BY <1>8, <1>10, <2>1
  <2>5. required <= joined[b].size
    <3>1. next \in C
      BY <1>1, <1>5, <1>10 DEF Sound, Linked
    <3>2. m[next].size \in Nat
      BY <3>1, SoundParts
    <3> QED
      BY <1>3, <1>5, <1>10, <2>2, <3>2, HeaderSize
  <2>6. PICK D : Allotted(joined, E, end, r, size, {b}, D)
    BY <1>3, <1>4, <2>3, <2>4, <2>5, ShrunkInPlace
  <2>7. r.ptr = p /\ r.pages = 0 /\ r.ptr - header_size = b
    BY <1>5, <2>4, HeaderSize DEF Result
  <2>8. {b} \cup {b} = {b} /\ {b} \ {b} = {}
    OBVIOUS
  <2>9. Kept(m, C, r.blocks, D, {b})
    <3>1. Kept(joined, E, r.blocks, D, {b})
      BY <2>6, <2>7, <2>8 DEF Allotted
    <3> QED
      BY <2>3, <3>1, KeptTwice
  <2>10. Allotted(m, C, end, r, size, {b}, D)
    BY <2>6, <2>7, <2>8, <2>9 DEF Allotted
  <2>11. r.pages \in Nat /\ end + r.pages * PAGE_SIZE = end
    BY <1>4, <2>7
  <2>12. r.ptr # Null
    BY <1>6, <2>7
  <2> QED
    BY <2>10, <2>11, <2>12
<1>11. CASE /\ ~(required <= m[b].size)
            /\ ~(/\ next # Null /\ m[next].free
                 /\ m[b].size + header_size + m[next].size >= required)
  <2>1. r = IF moved.ptr = Null THEN moved
            ELSE [moved EXCEPT !.blocks = kfree(@, end + moved.pages * PAGE_SIZE, p)]
    BY <1>8, <1>11
  <2>2. /\ moved.pages \in Nat /\ HeapEnd(end + moved.pages * PAGE_SIZE)
        /\ moved.ptr = Null =>
             \E D : Failed(m, C, end + moved.pages * PAGE_SIZE, moved, D)
        /\ moved.ptr # Null =>
             \E D : Allotted(m, C, end + moved.pages * PAGE_SIZE, moved, required, {}, D)
    BY <1>2, <1>3, KMallocSound
  <2>3. CASE moved.ptr = Null
    BY <2>1, <2>2, <2>3
  <2>4. CASE moved.ptr # Null
    <3>1. PICK far : far = end + moved.pages * PAGE_SIZE
      OBVIOUS
    <3>2. far \in Nat
      BY <2>2, <3>1 DEF HeapEnd
    <3>3. PICK E : Allotted(m, C, far, moved, required, {}, E)
      BY <2>2, <2>4, <3>1
    <3>4. PICK before, x : before = moved.blocks /\ x = moved.ptr - header_size
      OBVIOUS
    <3>5. /\ moved.ptr \in Nat /\ Sound(before, far, E, x)
          /\ Kept(m, C, before, E, {x})
          /\ x \in InUse(before, E) /\ required <= before[x].size
          /\ x \notin InUse(m, C)
      <4>1. {x} \cup {} = {x} /\ InUse(m, C) \ {} = InUse(m, C)
        OBVIOUS
      <4> QED
        BY <3>3, <3>4, <4>1 DEF Allotted
    <3>6. b # x /\ b \in InUse(before, E) /\ before[b].size = m[b].size
      BY <3>5 DEF Kept
    <3>7. PICK n : n = kfree(before, far, p)
      OBVIOUS
    <3>8. PICK D : /\ Sound(n, far, D, x) /\ Kept(before, E, n, D, {b})
                   /\ b \notin InUse(n, D)
      BY <3>2, <3>5, <3>6, <3>7, KFreeSound
    <3>9. r.blocks = n /\ r.ptr = moved.ptr /\ r.pages = moved.pages
      <4>1. DOMAIN moved = {"blocks", "ptr", "pages"}
        BY <1>2, KMallocFields
      <4>2. r = [moved EXCEPT !.blocks = n]
        BY <2>1, <2>4, <3>1, <3>4, <3>7
      <4> QED
        BY <4>1, <4>2
    <3>10. x \in InUse(n, D) /\ n[x].size = before[x].size
      BY <3>5, <3>6, <3>8 DEF Kept
    <3>11. Kept(m, C, n, D, {x} \cup {b})
      <4>1. Kept(m, C, before, E, {x} \cup {b})
        BY <3>5, KeptMore
      <4>2. Kept(before, E, n, D, {x} \cup {b})
        BY <3>8, KeptMore
      <4> QED
        BY <4>1, <4>2, KeptTwice
    <3>12. x \in Nat /\ x \in E /\ b \in E /\ before[x].size \in Nat
      BY <3>5, <3>6, SoundParts DEF InUse
    <3>13. x + header_size + size <= b \/ BlockEnd(m, b) <= x
      <4>1. CASE x < b
        <5>1. BlockEnd(before, x) <= b
          BY <3>5, <3>12, <4>1 DEF Sound, Linked
        <5> QED
          BY <1>3, <1>5, <3>5, <3>12, <5>1, HeaderSize DEF BlockEnd
      <4>2. CASE b < x
        <5>1. BlockEnd(before, b) <= x
          BY <3>5, <3>12, <4>2 DEF Sound, Linked
        <5> QED
          BY <3>6, <5>1 DEF BlockEnd
      <4> QED
        BY <1>5, <3>6, <3>12, <4>1, <4>2
    <3>14. size <= n[x].size
      BY <1>3, <3>5, <3>10, <3>12
    <3>15. Allotted(m, C, far, r, size, {b}, D)
      <4>1. (\A g \in {b} \ {x} : x + header_size + size <= g \/ BlockEnd(m, g) <= x)
        BY <3>13
      <4>2. x \notin InUse(m, C) \ {b} /\ ({b} \ {x}) \cap InUse(n, D) = {}
        BY <3>5, <3>8
      <4>3. x = r.ptr - header_size /\ r.ptr \in Nat
        BY <3>4, <3>5, <3>9
      <4> QED
        BY <3>8, <3>9, <3>10, <3>11, <3>14, <4>1, <4>2, <4>3 DEF Allotted
    <3> QED
      BY <2>2, <2>4, <3>1, <3>9, <3>15
  <2> QED
    BY <2>3, <2>4
<1> QED
  BY <1>9, <1>10, <1>11

-----------------------------------------------------------------------------

(* Counting the bytes of a sound list. *)

\* A walk along the list that nothing stops comes to all of it.
LEMMA WalkSeesAll ==
  ASSUME HeapFits, NEW m, NEW end \in Nat, NEW C, NEW x, Sound(m, end, C, x)
  PROVE  Visited(m, {}) = C
<1> DEFINE Closed == {S \in SUBSET DOMAIN m :
                        /\ g_heap_head \in S
                        /\ \A b \in S : m[b].next = Null \/ m[b].next \in S}
           V == Visited(m, {})
<1>1. V = {b \in DOMAIN m : \A S \in Closed : b \in S}
  BY DEF Visited
<1>2. V \subseteq C
  BY VisitedListed
<1>3. g_heap_start \in V
  BY <1>1 DEF Sound, Linked, g_heap_head
<1>4. \A b \in V : m[b].next # Null => m[b].next \in V
  <2> SUFFICES ASSUME NEW b \in V, m[b].next # Null PROVE m[b].next \in V
    OBVIOUS
  <2>1. m[b].next \in DOMAIN m
    BY <1>2 DEF Sound, Linked
  <2>2. ASSUME NEW S \in Closed PROVE m[b].next \in S
    BY <1>1
  <2> QED
    BY <1>1, <2>1, <2>2
<1> HIDE DEF V
<1>5. C \ V = {}
  <2> SUFFICES ASSUME C \ V # {} PROVE FALSE
    OBVIOUS
  <2>1. C \subseteq Nat
    BY SoundParts
  <2>2. PICK b \in C \ V : \A y \in C \ V : b <= y
    BY <2>1, LeastElement
  <2>3. PICK p : p = m[b].prev
    OBVIOUS
  <2>4. p \in C /\ m[p].next = b /\ b # Null
    <3>1. b # g_heap_start /\ b \in C
      BY <1>3, <2>2
    <3>2. p # Null => p \in C /\ m[p].next = b
      BY <2>3, <3>1 DEF Sound, Linked
    <3>3. p # Null
      BY <2>3, <3>1 DEF Sound, Linked
    <3>4. b # Null
      BY <3>1, SoundParts DEF Null
    <3> QED
      BY <3>2, <3>3, <3>4
  <2>5. p < b /\ b \in Nat /\ p \in Nat
    <3>1. b = BlockEnd(m, p)
      BY <2>4 DEF Sound, Linked
    <3> QED
      BY <2>1, <2>2, <2>4, <3>1, SoundEnds
  <2>6. p \in V
    BY <2>2, <2>4, <2>5
  <2> QED
    BY <1>4, <2>2, <2>4, <2>6
<1> QED
  BY <1>2, <1>5 DEF V

\* The addresses of the payload of block b, and of its header.
Payload(m, b) == (b + header_size) .. (BlockEnd(m, b) - 1)
Payloads(m, S) == UNION {Payload(m, b) : b \in S}
HeaderBytes(S) == UNION {b .. (b + header_size - 1) : b \in S}

\* What is known of single blocks of a sound list, with numbers.
LEMMA BlockNumbers ==
  ASSUME HeapFits, NEW m, NEW end \in Nat, NEW C, NEW x, Sound(m, end, C, x), NEW b \in C
  PROVE  /\ b \in Nat /\ m[b].size \in Nat /\ header_size \in Nat \ {0}
         /\ BlockEnd(m, b) \in Nat /\ BlockEnd(m, b) = b + header_size + m[b].size
         /\ g_heap_start \in Nat /\ g_heap_start <= b /\ BlockEnd(m, b) <= end
         /\ \A a \in C : a < b => BlockEnd(m, a) <= b
         /\ \A a \in C : b < a => BlockEnd(m, b) <= a
<1>1. /\ b \in Nat /\ m[b].size \in Nat
  BY SoundParts
<1> QED
  BY <1>1, HeaderSize, HeapStart DEF Sound, Linked, BlockEnd

\* All payloads of a sound list lie below the end of the mapped heap.
LEMMA PayloadsFinite ==
  ASSUME HeapFits, NEW m, NEW end \in Nat, NEW C, NEW x, Sound(m, end, C, x),
         NEW S \in SUBSET C
  PROVE  /\ IsFiniteSet(Payloads(m, S)) /\ Payloads(m, S) \subseteq 0 .. end
         /\ IsFiniteSet(S) /\ S \subseteq 0 .. end
<1>1. Payloads(m, S) \subseteq 0 .. end
  <2> SUFFICES ASSUME NEW b \in S, NEW a \in Payload(m, b) PROVE a \in 0 .. end
    BY DEF Payloads
  <2>1. b \in Nat /\ header_size \in Nat /\ BlockEnd(m, b) \in Nat /\ BlockEnd(m, b) <= end
    BY BlockNumbers
  <2> QED
    BY <2>1 DEF Payload
<1>2. S \subseteq 0 .. end
  <2> SUFFICES ASSUME NEW b \in S PROVE b \in 0 .. end
    OBVIOUS
  <2>1. /\ b \in Nat /\ m[b].size \in Nat /\ header_size \in Nat
        /\ BlockEnd(m, b) = b + header_size + m[b].size /\ BlockEnd(m, b) <= end
    BY BlockNumbers
  <2> QED
    BY <2>1
<1>3. IsFiniteSet(0 .. end)
  BY FS_Interval
<1> QED
  BY <1>1, <1>2, <1>3, FS_Subset

\* Payloads have no address in common, so their sizes add up.
LEMMA PayloadsAdd ==
  ASSUME HeapFits, NEW m, NEW end \in Nat, NEW C, NEW x, Sound(m, end, C, x),
         NEW S \in SUBSET C, NEW b \in S
  PROVE  Cardinality(Payloads(m, S)) =
           m[b].size + Cardinality(Payloads(m, S \ {b}))
<1> DEFINE P == Payload(m, b)
           R == Payloads(m, S \ {b})
<1>1. Payloads(m, S) = P \cup R
  BY DEF Payloads
<1>2. P \cap R = {}
  <2> SUFFICES ASSUME NEW a \in P, NEW c \in S \ {b}, a \in Payload(m, c) PROVE FALSE
    BY DEF Payloads
  <2>1. /\ b \in Nat /\ c \in Nat /\ BlockEnd(m, b) \in Nat /\ BlockEnd(m, c) \in Nat
        /\ header_size \in Nat
        /\ c < b => BlockEnd(m, c) <= b
        /\ b < c => BlockEnd(m, b) <= c
    BY BlockNumbers
  <2> QED
    BY <2>1 DEF Payload
<1>3. IsFiniteSet(P) /\ Cardinality(P) = m[b].size
  <2>1. /\ b \in Nat /\ header_size \in Nat /\ m[b].size \in Nat
        /\ BlockEnd(m, b) = b + header_size + m[b].size
    BY BlockNumbers
  <2>2. PICK lo, hi : lo = b + header_size /\ hi = BlockEnd(m, b) - 1
    OBVIOUS
  <2>3. lo \in Int /\ hi \in Int /\ hi - lo + 1 = m[b].size
    BY <2>1, <2>2
  <2>4. /\ IsFiniteSet(lo .. hi)
        /\ Cardinality(lo .. hi) = IF lo > hi THEN 0 ELSE hi - lo + 1
    BY <2>3, FS_Interval
  <2>5. lo > hi => m[b].size = 0
    BY <2>1, <2>3
  <2>6. P = lo .. hi
    BY <2>2 DEF Payload
  <2> QED
    BY <2>3, <2>4, <2>5, <2>6
<1>4. IsFiniteSet(R)
  BY PayloadsFinite
<1> HIDE DEF P, R
<1>5. Cardinality(P \cup R) = Cardinality(P) + Cardinality(R) - Cardinality({})
  BY <1>2, <1>3, <1>4, FS_Union
<1>6. Cardinality({}) = 0 /\ Cardinality(R) \in Nat /\ m[b].size \in Nat
  BY <1>4, FS_EmptySet, FS_CardinalityType, BlockNumbers
<1> QED
  BY <1>1, <1>3, <1>5, <1>6 DEF R

\* The equation of the fold that adds up the sizes of a set of blocks.
SizesAdded(m, S, g) ==
  g = [s \in SUBSET S |->
         IF s = {} THEN 0
         ELSE m[CHOOSE b \in s : TRUE].size + g[s \ {CHOOSE b \in s : TRUE}]]

\* The sum of the blocks' sizes is the number of their payloads' bytes.
LEMMA SizesAreBytes ==
  ASSUME HeapFits, NEW m, NEW end \in Nat, NEW C, NEW x, Sound(m, end, C, x),
         NEW S \in SUBSET C
  PROVE  SizeSum(m, S) = Cardinality(Payloads(m, S))
<1> DEFINE count == [s \in SUBSET S |-> Cardinality(Payloads(m, s))]
           g == CHOOSE h : SizesAdded(m, S, h)
<1>1. SizesAdded(m, S, count)
  <2>1. ASSUME NEW s \in SUBSET S
        PROVE  count[s] = IF s = {} THEN 0
                          ELSE m[CHOOSE b \in s : TRUE].size
                                 + count[s \ {CHOOSE b \in s : TRUE}]
    <3>1. CASE s = {}
      <4>1. Payloads(m, s) = {}
        BY <3>1 DEF Payloads
      <4> QED
        BY <3>1, <4>1, FS_EmptySet
    <3>2. CASE s # {}
      <4>1. PICK b : b = CHOOSE c \in s : TRUE
        OBVIOUS
      <4>2. b \in s
        BY <3>2, <4>1
      <4>3. Cardinality(Payloads(m, s)) = m[b].size + Cardinality(Payloads(m, s \ {b}))
        BY <4>2, PayloadsAdd
      <4>4. count[s] = m[b].size + count[s \ {b}]
        BY <4>3
      <4> QED
        BY <3>2, <4>1, <4>4
    <3> QED
      BY <3>1, <3>2
  <2> QED
    BY <2>1 DEF SizesAdded
<1>2. SizesAdded(m, S, g)
  <2> HIDE DEF count
  <2> QED
    BY <1>1
<1>3. SizeSum(m, S) = g[S]
  BY DEF SizeSum, MapThenSumSet, MapThenFoldSet, SizesAdded
<1> HIDE DEF g
<1>4. ASSUME NEW s \in SUBSET S
      PROVE  g[s] = IF s = {} THEN 0
                    ELSE m[CHOOSE b \in s : TRUE].size + g[s \ {CHOOSE b \in s : TRUE}]
  BY <1>2 DEF SizesAdded
<1> DEFINE Wrong == {n \in Nat : \E s \in SUBSET S :
                       Cardinality(s) = n /\ g[s] # Cardinality(Payloads(m, s))}
<1>5. Wrong = {}
  <2> SUFFICES ASSUME Wrong # {} PROVE FALSE
    OBVIOUS
  <2>1. PICK n \in Wrong : \A k \in Wrong : n <= k
    BY LeastElement
  <2>2. PICK s \in SUBSET S : Cardinality(s) = n /\ g[s] # Cardinality(Payloads(m, s))
    BY <2>1
  <2>3. s # {}
    <3> SUFFICES ASSUME s = {} PROVE FALSE
      OBVIOUS
    <3>1. Payloads(m, s) = {} /\ g[s] = 0
      BY <1>4 DEF Payloads
    <3> QED
      BY <2>2, <3>1, FS_EmptySet
  <2>4. PICK b : b = CHOOSE c \in s : TRUE
    OBVIOUS
  <2>5. b \in s /\ g[s] = m[b].size + g[s \ {b}]
    BY <1>4, <2>3, <2>4
  <2>6. IsFiniteSet(s)
    BY PayloadsFinite
  <2>7. Cardinality(s \ {b}) = n - 1 /\ n \in Nat /\ Cardinality(s \ {b}) \in Nat
    BY <2>2, <2>5, <2>6, FS_RemoveElement, FS_CardinalityType
  <2>8. n - 1 \notin Wrong
    BY <2>1, <2>7
  <2>9. g[s \ {b}] = Cardinality(Payloads(m, s \ {b}))
    BY <2>7, <2>8
  <2>10. Cardinality(Payloads(m, s)) = m[b].size + Cardinality(Payloads(m, s \ {b}))
    BY <2>5, PayloadsAdd
  <2> QED
    BY <2>2, <2>5, <2>9, <2>10
<1>6. Cardinality(S) \in Nat
  BY PayloadsFinite, FS_CardinalityType
<1> QED
  BY <1>3, <1>5, <1>6

\* Each header takes header_size bytes of its own.
LEMMA HeadersAdd ==
  ASSUME HeapFits, NEW m, NEW end \in Nat, NEW C, NEW x, Sound(m, end, C, x)
  PROVE  /\ IsFiniteSet(HeaderBytes(C))
         /\ Cardinality(HeaderBytes(C)) = Cardinality(C) * header_size
<1> DEFINE offsets == 0 .. (header_size - 1)
           f == [p \in C \X offsets |-> p[1] + p[2]]
<1>1. IsFiniteSet(C)
  BY PayloadsFinite
<1>2. IsFiniteSet(offsets) /\ Cardinality(offsets) = header_size
  <2>1. header_size \in Nat \ {0} /\ header_size - 1 \in Int /\ 0 \in Int
    BY HeaderSize
  <2>2. /\ IsFiniteSet(offsets)
        /\ Cardinality(offsets) = IF 0 > header_size - 1 THEN 0 ELSE header_size - 1 - 0 + 1
    BY <2>1, FS_Interval
  <2> QED
    BY <2>1, <2>2
<1>3. /\ IsFiniteSet(C \X offsets)
      /\ Cardinality(C \X offsets) = Cardinality(C) * header_size
  <2> HIDE DEF offsets
  <2> QED
    BY <1>1, <1>2, FS_Product
<1>4. ASSUME NEW b \in C, NEW i \in offsets, NEW c \in C, NEW j \in offsets, b + i = c + j
      PROVE  b = c /\ i = j
  <2>1. /\ b \in Nat /\ c \in Nat /\ header_size \in Nat
        /\ m[b].size \in Nat /\ m[c].size \in Nat
        /\ BlockEnd(m, b) = b + header_size + m[b].size
        /\ BlockEnd(m, c) = c + header_size + m[c].size
        /\ c < b => BlockEnd(m, c) <= b
        /\ b < c => BlockEnd(m, b) <= c
    BY BlockNumbers
  <2> QED
    BY <1>4, <2>1
<1>5. \A b \in C, i \in offsets : b + i \in HeaderBytes(C)
  <2> SUFFICES ASSUME NEW b \in C, NEW i \in offsets PROVE b + i \in b .. (b + header_size - 1)
    BY DEF HeaderBytes
  <2>1. b \in Nat /\ header_size \in Nat
    BY BlockNumbers
  <2> QED
    BY <2>1
<1>6. ASSUME NEW a \in HeaderBytes(C) PROVE \E b \in C, i \in offsets : a = b + i
  <2>1. PICK b \in C : a \in b .. (b + header_size - 1)
    BY DEF HeaderBytes
  <2>2. b \in Nat /\ header_size \in Nat
    BY BlockNumbers
  <2>3. a - b \in offsets /\ a = b + (a - b)
    BY <2>1, <2>2
  <2> QED
    BY <2>3
<1> HIDE DEF offsets
<1>7. f \in [C \X offsets -> HeaderBytes(C)]
  BY <1>5
<1>8. f \in Surjection(C \X offsets, HeaderBytes(C))
  <2>1. ASSUME NEW a \in HeaderBytes(C) PROVE \E p \in C \X offsets : f[p] = a
    <3>1. PICK b \in C, i \in offsets : a = b + i
      BY <1>6
    <3>2. <<b, i>> \in C \X offsets /\ f[<<b, i>>] = a
      BY <3>1
    <3> QED
      BY <3>2
  <2> QED
    BY <1>7, <2>1 DEF Surjection
<1>9. f \in Injection(C \X offsets, HeaderBytes(C))
  <2>1. ASSUME NEW p \in C \X offsets, NEW q \in C \X offsets, f[p] = f[q]
        PROVE  p = q
    <3>1. p[1] = q[1] /\ p[2] = q[2]
      BY <1>4, <2>1
    <3> QED
      BY <3>1
  <2> QED
    BY <1>7, <2>1 DEF Injection, IsInjective
<1> HIDE DEF f
<1> QED
  BY <1>3, <1>8, <1>9, FS_Surjection

\* The blocks of a sound list fill the heap up to the end of the last one.
LEMMA BlocksTile ==
  ASSUME HeapFits, NEW m, NEW end \in Nat, NEW C, NEW x, Sound(m, end, C, x),
         NEW last \in C, m[last].next = Null
  PROVE  /\ Payloads(m, C) \cup HeaderBytes(C) = g_heap_start .. (BlockEnd(m, last) - 1)
         /\ Payloads(m, C) \cap HeaderBytes(C) = {}
<1> DEFINE Heap == g_heap_start .. (BlockEnd(m, last) - 1)
<1>1. ASSUME NEW b \in C, NEW a, a \in b .. (BlockEnd(m, b) - 1) PROVE a \in Heap
  <2>1. /\ b \in Nat /\ BlockEnd(m, b) \in Nat /\ BlockEnd(m, last) \in Nat
        /\ m[last].size \in Nat /\ header_size \in Nat /\ last \in Nat
        /\ g_heap_start \in Nat /\ g_heap_start <= b
        /\ BlockEnd(m, last) = last + header_size + m[last].size
        /\ b < last => BlockEnd(m, b) <= last
    BY BlockNumbers
  <2>2. b <= last
    BY DEF Sound, Linked
  <2> QED
    BY <1>1, <2>1, <2>2
<1>2. ASSUME NEW a \in Heap PROVE \E b \in C : a \in b .. (BlockEnd(m, b) - 1)
  <2>1. a \in Nat /\ g_heap_start \in Nat /\ g_heap_start <= a /\ a < BlockEnd(m, last)
    <3>1. g_heap_start \in Nat /\ BlockEnd(m, last) \in Nat
      BY BlockNumbers
    <3> QED
      BY <3>1
  <2> DEFINE T == {b \in C : b <= a}
  <2>2. g_heap_start \in T /\ T \in SUBSET Nat
    BY <2>1, SoundParts DEF Sound, Linked
  <2>3. PICK b \in T : \A c \in T : c <= b
    BY <2>1, <2>2, LargestElement
  <2>4. b \in Nat /\ BlockEnd(m, b) \in Nat /\ b < BlockEnd(m, b)
    BY <2>3, SoundEnds
  <2>5. a < BlockEnd(m, b)
    <3> SUFFICES ASSUME ~(a < BlockEnd(m, b)) PROVE FALSE
      OBVIOUS
    <3>1. CASE m[b].next = Null
      <4>1. b <= last /\ last <= b /\ last \in Nat
        BY <2>3, <3>1, SoundParts DEF Sound, Linked
      <4> QED
        BY <2>1, <2>4, <4>1
    <3>2. CASE m[b].next # Null
      <4>1. m[b].next \in C /\ m[b].next = BlockEnd(m, b)
        BY <2>3, <3>2 DEF Sound, Linked
      <4>2. m[b].next \in T
        BY <2>1, <2>4, <4>1
      <4> QED
        BY <2>3, <2>4, <4>1, <4>2
    <3> QED
      BY <3>1, <3>2
  <2> QED
    BY <2>1, <2>3, <2>4, <2>5
<1>3. ASSUME NEW b \in C
      PROVE  b .. (BlockEnd(m, b) - 1) = Payload(m, b) \cup (b .. (b + header_size - 1))
  <2>1. /\ b \in Nat /\ header_size \in Nat /\ m[b].size \in Nat
        /\ BlockEnd(m, b) = b + header_size + m[b].size
    BY BlockNumbers
  <2> QED
    BY <2>1 DEF Payload
<1>4. Payloads(m, C) \cup HeaderBytes(C) = Heap
  <2> HIDE DEF Heap
  <2> QED
    BY <1>1, <1>2, <1>3 DEF Payloads, HeaderBytes
<1>5. Payloads(m, C) \cap HeaderBytes(C) = {}
  <2> SUFFICES ASSUME NEW b \in C, NEW c \in C, NEW a \in Payload(m, b),
                      a \in c .. (c + header_size - 1)
               PROVE  FALSE
    BY DEF Payloads, HeaderBytes
  <2>1. /\ b \in Nat /\ c \in Nat /\ header_size \in Nat
        /\ m[b].size \in Nat /\ m[c].size \in Nat
        /\ BlockEnd(m, b) = b + header_size + m[b].size
        /\ BlockEnd(m, c) = c + header_size + m[c].size
        /\ c < b => BlockEnd(m, c) <= b
        /\ b < c => BlockEnd(m, b) <= c
    BY BlockNumbers
  <2> QED
    BY <2>1 DEF Payload
<1> QED
  BY <1>4, <1>5

\* What kmalloc_total, kmalloc_used and kmalloc_remaining return adds up.
LEMMA SumsAddUp ==
  ASSUME HeapFits, NEW m, NEW end \in Nat, NEW C, NEW x, Sound(m, end, C, x),
         NEW last \in C, m[last].next = Null
  PROVE  /\ kmalloc_total(m) \in Nat /\ Cardinality(C) * header_size \in Nat
         /\ kmalloc_total(m) + Cardinality(C) * header_size
              = BlockEnd(m, last) - g_heap_start
         /\ kmalloc_total(m) = kmalloc_used(m) + kmalloc_remaining(m)
<1> DEFINE used == {b \in C : ~m[b].free}
           unused == {b \in C : m[b].free}
<1>1. Visited(m, {}) = C
  BY WalkSeesAll
<1>2. /\ kmalloc_total(m) = Cardinality(Payloads(m, C))
      /\ kmalloc_used(m) = Cardinality(Payloads(m, used))
      /\ kmalloc_remaining(m) = Cardinality(Payloads(m, unused))
  <2>1. used \in SUBSET C /\ unused \in SUBSET C /\ C \in SUBSET C
    OBVIOUS
  <2>2. /\ SizeSum(m, C) = Cardinality(Payloads(m, C))
        /\ SizeSum(m, used) = Cardinality(Payloads(m, used))
        /\ SizeSum(m, unused) = Cardinality(Payloads(m, unused))
    <3> HIDE DEF used, unused
    <3> QED
      BY <2>1, SizesAreBytes
  <2> QED
    BY <1>1, <2>2 DEF kmalloc_total, kmalloc_used, kmalloc_remaining
<1>3. /\ IsFiniteSet(Payloads(m, C)) /\ IsFiniteSet(Payloads(m, used))
      /\ IsFiniteSet(Payloads(m, unused))
  BY PayloadsFinite
<1>4. /\ Cardinality(Payloads(m, C)) \in Nat /\ Cardinality(Payloads(m, used)) \in Nat
      /\ Cardinality(Payloads(m, unused)) \in Nat /\ Cardinality(HeaderBytes(C)) \in Nat
  BY <1>3, HeadersAdd, FS_CardinalityType
<1>5. kmalloc_total(m) + Cardinality(C) * header_size = BlockEnd(m, last) - g_heap_start
  <2>1. /\ Cardinality(Payloads(m, C) \cup HeaderBytes(C)) =
             Cardinality(Payloads(m, C)) + Cardinality(HeaderBytes(C)) - Cardinality({})
    BY <1>3, HeadersAdd, BlocksTile, FS_Union
  <2>2. PICK hi : hi = BlockEnd(m, last) - 1
    OBVIOUS
  <2>3. /\ g_heap_start \in Nat /\ hi \in Int /\ hi = BlockEnd(m, last) - 1
        /\ BlockEnd(m, last) \in Nat /\ g_heap_start <= hi
    <3>1. /\ BlockEnd(m, last) \in Nat /\ last \in Nat /\ last < BlockEnd(m, last)
          /\ g_heap_start \in Nat /\ g_heap_start <= last
      BY BlockNumbers, SoundEnds
    <3> QED
      BY <2>2, <3>1
  <2>4. Cardinality(g_heap_start .. hi) = hi - g_heap_start + 1
    BY <2>3, FS_Interval
  <2>5. Cardinality(Payloads(m, C) \cup HeaderBytes(C)) = hi - g_heap_start + 1
    BY <2>2, <2>4, BlocksTile
  <2>6. Cardinality({}) = 0
    BY FS_EmptySet
  <2>7. Cardinality(Payloads(m, C)) + Cardinality(HeaderBytes(C)) = BlockEnd(m, last) - g_heap_start
    BY <1>4, <2>1, <2>3, <2>5, <2>6
  <2> QED
    BY <1>2, <2>7, HeadersAdd
<1>6. Cardinality(Payloads(m, C)) = Cardinality(Payloads(m, used)) + Cardinality(Payloads(m, unused))
  <2>1. Payloads(m, C) = Payloads(m, used) \cup Payloads(m, unused)
    BY DEF Payloads
  <2>2. Payloads(m, used) \cap Payloads(m, unused) = {}
    <3> SUFFICES ASSUME NEW b \in used, NEW c \in unused, NEW a \in Payload(m, b),
                        a \in Payload(m, c)
                 PROVE  FALSE
      BY DEF Payloads
    <3>1. /\ b \in Nat /\ c \in Nat /\ header_size \in Nat
          /\ m[b].size \in Nat /\ m[c].size \in Nat
          /\ BlockEnd(m, b) = b + header_size + m[b].size
          /\ BlockEnd(m, c) = c + header_size + m[c].size
          /\ c < b => BlockEnd(m, c) <= b
          /\ b < c => BlockEnd(m, b) <= c
      BY BlockNumbers
    <3>2. b # c
      OBVIOUS
    <3> QED
      BY <3>1, <3>2 DEF Payload
  <2> HIDE DEF used, unused
  <2>3. Cardinality(Payloads(m, used) \cup Payloads(m, unused)) =
          Cardinality(Payloads(m, used)) + Cardinality(Payloads(m, unused)) - Cardinality({})
    BY <1>3, <2>2, FS_Union
  <2>4. Cardinality({}) = 0
    BY FS_EmptySet
  <2> QED
    BY <1>4, <2>1, <2>3, <2>4
<1>7. Cardinality(C) * header_size \in Nat
  BY <1>4, HeadersAdd
<1> QED
  BY <1>2, <1>4, <1>5, <1>6, <1>7

-----------------------------------------------------------------------------

(* Neighbouring free blocks. *)

\* The neighbouring free blocks of a list C.
Pairs(m, C) == {b \in C : m[b].free /\ m[b].next # Null /\ m[m[b].next].free}

\* One set is no larger than another when at most one of its elements is not
\* in the other, and that one has a counterpart it lacks.
LEMMA Exchanged ==
  ASSUME NEW P, IsFiniteSet(P), NEW a, NEW e, NEW Q,
         Q \subseteq (P \ {a}) \cup {e}, e \in Q => a \in P
  PROVE  IsFiniteSet(Q) /\ Cardinality(Q) <= Cardinality(P)
<1>1. Cardinality(P) \in Nat
  BY FS_CardinalityType
<1>2. CASE e \in Q /\ a \in P
  <2>1. IsFiniteSet(P \ {a}) /\ Cardinality(P \ {a}) = Cardinality(P) - 1
    BY <1>2, FS_RemoveElement
  <2>2. PICK R : R = P \ {a}
    OBVIOUS
  <2>3. /\ IsFiniteSet(R \cup {e})
        /\ Cardinality(R \cup {e}) = IF e \in R THEN Cardinality(R) ELSE Cardinality(R) + 1
    BY <2>1, <2>2, FS_AddElement
  <2>4. Q \in SUBSET (R \cup {e})
    BY <2>2
  <2>5. IsFiniteSet(Q) /\ Cardinality(Q) <= Cardinality(R \cup {e})
    BY <2>3, <2>4, FS_Subset
  <2>6. Cardinality(Q) \in Nat
    BY <2>5, FS_CardinalityType
  <2> QED
    BY <1>1, <2>1, <2>2, <2>3, <2>5, <2>6
<1>3. CASE ~(e \in Q /\ a \in P)
  <2>1. Q \in SUBSET P
    BY <1>3
  <2> QED
    BY <2>1, FS_Subset
<1> QED
  BY <1>2, <1>3

\* Pairs of a sound list, counted.
LEMMA PairsOfList ==
  ASSUME HeapFits, NEW m, NEW end \in Nat, NEW C, NEW x, Sound(m, end, C, x)
  PROVE  /\ FreePairs(m) = Pairs(m, C)
         /\ IsFiniteSet(Pairs(m, C)) /\ Cardinality(Pairs(m, C)) \in Nat
         /\ \A b \in C : m[b].next # Null => m[b].next \in C
<1>1. Visited(m, {}) = C
  BY WalkSeesAll
<1>2. IsFiniteSet(C) /\ Pairs(m, C) \in SUBSET C
  BY PayloadsFinite DEF Pairs
<1>3. IsFiniteSet(Pairs(m, C))
  BY <1>2, FS_Subset
<1> QED
  BY <1>1, <1>3, FS_CardinalityType DEF FreePairs, Pairs, Sound, Linked

\* n has no more neighbouring free blocks than m.
NoMorePairs(m, n) ==
  /\ Cardinality(FreePairs(m)) \in Nat /\ Cardinality(FreePairs(n)) \in Nat
  /\ Cardinality(FreePairs(n)) <= Cardinality(FreePairs(m))

\* Two operations in a row that make no new pair make none together.
LEMMA NoMoreTwice ==
  ASSUME NEW m, NEW n, NEW o, NoMorePairs(m, n), NoMorePairs(n, o)
  PROVE  NoMorePairs(m, o)
  BY DEF NoMorePairs

\* n and D are what joining block b with the one behind it leaves of m and C:
\* a new pair can only begin at b, and only if one began at the block that is
\* gone.
Coalesced(m, C, n, D, end, x, b) ==
  /\ Sound(n, end, D, x) /\ b \in D
  /\ n[b].prev = m[b].prev /\ n[b].free = m[b].free
  /\ \A a \in Pairs(n, D) : a # b => a \in Pairs(m, C) \ {m[b].next}
  /\ n[b].next # Null /\ n[n[b].next].free => m[b].next \in Pairs(m, C)

\* coalesce_with_next does so.
LEMMA CoalescePairs ==
  ASSUME NEW m, NEW end \in Nat, NEW C, NEW x, Sound(m, end, C, x),
         NEW b \in C, m[b].free \/ b = x, NEW n, n = coalesce_with_next(m, b)
  PROVE  \E D : Coalesced(m, C, n, D, end, x, b)
<1>1. CASE m[b].next # Null /\ m[m[b].next].free
  <2>1. PICK next : next = m[b].next
    OBVIOUS
  <2>2. next \in C /\ next = BlockEnd(m, b) /\ C \subseteq DOMAIN m
    BY <1>1, <2>1 DEF Sound, Linked
  <2>3. m[next].next # b /\ next # b
    <3>1. /\ b \in Nat \ {0} /\ next \in Nat
          /\ b < next /\ next < BlockEnd(m, next)
          /\ BlockEnd(m, next) \in Nat
      BY <2>2, SoundEnds
    <3>2. m[next].next = Null \/ m[next].next = BlockEnd(m, next)
      BY <2>2 DEF Sound, Linked
    <3> QED
      BY <3>1, <3>2 DEF Null
  <2>4. Joined(m, n, b)
    BY <1>1, <2>1, <2>2, <2>3, JoinPoints DEF Sound
  <2>5. Worked(m, C, n, C \ {next}, end, x, b)
    BY <1>1, <2>1, <2>4, JoinSound
  <2>6. \A a \in C : /\ n[a].free = m[a].free
                     /\ n[a].next = IF a = b THEN m[next].next ELSE m[a].next
    BY <2>1, <2>2, <2>4 DEF Joined
  <2>7. n[b].prev = m[b].prev
    BY <2>1, <2>2, <2>3, <2>4 DEF Joined
  <2>8. PICK D : D = C \ {next}
    OBVIOUS
  <2>9. \A a \in C : m[a].next # Null => m[a].next \in C
    BY DEF Sound, Linked
  <2>10. ASSUME NEW a \in Pairs(n, D), a # b PROVE a \in Pairs(m, C) \ {next}
    BY <2>6, <2>8, <2>9, <2>10 DEF Pairs
  <2>11. ASSUME n[b].next # Null, n[n[b].next].free PROVE next \in Pairs(m, C)
    <3>1. n[b].next = m[next].next
      BY <2>6
    <3>2. m[next].next \in C /\ n[m[next].next].free = m[m[next].next].free
      BY <2>2, <2>6, <2>9, <2>11, <3>1
    <3> QED
      BY <1>1, <2>1, <2>2, <2>11, <3>1, <3>2 DEF Pairs
  <2> QED
    BY <2>1, <2>5, <2>7, <2>8, <2>10, <2>11 DEF Worked, Coalesced
<1>2. CASE ~(m[b].next # Null /\ m[m[b].next].free)
  <2>1. n = m
    BY <1>2 DEF coalesce_with_next
  <2>3. m[b].next \notin Pairs(m, C)
    BY <1>2, SoundParts DEF Pairs, Null
  <2> QED
    BY <1>2, <2>1, <2>3 DEF Coalesced
<1> QED
  BY <1>1, <1>2

\* kfree leaves no more neighbouring free blocks than it found.
LEMMA KFreePairs ==
  ASSUME HeapFits, NEW m, NEW end \in Nat, NEW C, NEW x, Sound(m, end, C, x),
         NEW b \in InUse(m, C), m[b].size > 0,
         NEW n, n = kfree(m, end, b + header_size)
  PROVE  NoMorePairs(m, n)
<1>1. b \in C /\ ~m[b].free
  BY DEF InUse
<1>2. block_from_ptr(m, end, b + header_size) = b /\ b # Null
  BY <1>1, BlockFromPtr, SoundParts DEF Null
<1>3. PICK marked : marked = [m EXCEPT ![b].free = TRUE]
  OBVIOUS
<1>4. PICK joined : joined = coalesce_with_next(marked, b)
  OBVIOUS
<1>5. PICK prev : prev = joined[b].prev
  OBVIOUS
<1>6. n = IF prev # Null /\ joined[prev].free
          THEN coalesce_with_next(joined, prev) ELSE joined
  BY <1>1, <1>2, <1>3, <1>4, <1>5 DEF kfree
<1>7. Marked(m, marked, b) /\ marked[b].free
  BY <1>1, <1>3, MarkFree DEF Sound, Linked
<1>8. Sound(marked, end, C, x)
  BY <1>1, <1>7, MarkSound
<1>9. PICK D1 : Coalesced(marked, C, joined, D1, end, x, b)
  BY <1>1, <1>4, <1>7, <1>8, CoalescePairs
<1>10. PICK next : next = m[b].next
  OBVIOUS
<1>11. C \subseteq DOMAIN m
  BY DEF Sound, Linked
<1>12. \A a \in C : marked[a].next = m[a].next /\ marked[a].prev = m[a].prev
                    /\ (a # b => marked[a].free = m[a].free)
  BY <1>7, <1>11 DEF Marked
<1>13. marked[b].next = next /\ m[b].prev = prev
  BY <1>1, <1>5, <1>9, <1>10, <1>12 DEF Coalesced
<1>14. \A a \in C : m[a].next = b => a = prev
  BY <1>2, <1>13 DEF Sound, Linked
<1>15. \A a \in C : m[a].next # Null => m[a].next \in C
  BY DEF Sound, Linked
<1>16. ASSUME NEW a \in Pairs(marked, C), a # b, a # prev PROVE a \in Pairs(m, C)
  <2>1. a \in C /\ m[a].free /\ m[a].next # Null
    BY <1>12, <1>16 DEF Pairs
  <2>2. m[a].next # b /\ m[a].next \in C
    BY <1>14, <1>15, <1>16, <2>1
  <2>3. m[m[a].next].free
    BY <1>12, <1>16, <2>1, <2>2 DEF Pairs
  <2> QED
    BY <2>1, <2>3 DEF Pairs
<1>17. next \in C => next # b /\ next # prev
  <2> SUFFICES ASSUME next \in C PROVE next # b /\ next # prev
    OBVIOUS
  <2>1. next = BlockEnd(m, b) /\ next # Null
    <3>1. next # Null
      BY SoundParts DEF Null
    <3> QED
      BY <1>1, <1>10, <3>1 DEF Sound, Linked
  <2>2. b < next /\ b \in Nat /\ next \in Nat
    BY <1>1, <2>1, SoundEnds
  <2>3. prev # Null => prev \in C /\ m[prev].next = b
    BY <1>1, <1>13 DEF Sound, Linked
  <2>4. next # prev
    <3> SUFFICES ASSUME next = prev PROVE FALSE
      OBVIOUS
    <3>1. m[next].next = b
      BY <2>1, <2>3
    <3>2. BlockEnd(m, next) = b
      BY <1>2, <3>1 DEF Sound, Linked
    <3>3. next < b
      BY <3>2, SoundEnds
    <3> QED
      BY <2>2, <3>3
  <2> QED
    BY <2>2, <2>4
<1>18. /\ \A a \in Pairs(joined, D1) : a # b /\ a # prev => a \in Pairs(m, C) \ {next}
       /\ b \in Pairs(joined, D1) => next \in Pairs(m, C)
  <2>1. ASSUME NEW a \in Pairs(joined, D1), a # b, a # prev
        PROVE  a \in Pairs(m, C) \ {next}
    BY <1>9, <1>13, <1>16, <2>1 DEF Coalesced
  <2>2. ASSUME b \in Pairs(joined, D1) PROVE next \in Pairs(m, C)
    <3>1. next \in Pairs(marked, C)
      BY <1>9, <1>13, <2>2 DEF Coalesced, Pairs
    <3>2. next \in C
      BY <3>1 DEF Pairs
    <3> QED
      BY <1>16, <1>17, <3>1, <3>2
  <2> QED
    BY <2>1, <2>2
<1>19. ASSUME NEW D, Sound(n, end, D, x), NEW e,
              Pairs(n, D) \subseteq (Pairs(m, C) \ {next}) \cup {e},
              e \in Pairs(n, D) => next \in Pairs(m, C)
       PROVE  NoMorePairs(m, n)
  <2>1. /\ FreePairs(m) = Pairs(m, C) /\ FreePairs(n) = Pairs(n, D)
        /\ IsFiniteSet(Pairs(m, C)) /\ IsFiniteSet(Pairs(n, D))
        /\ Cardinality(Pairs(m, C)) \in Nat /\ Cardinality(Pairs(n, D)) \in Nat
    BY <1>19, PairsOfList
  <2>2. Cardinality(Pairs(n, D)) <= Cardinality(Pairs(m, C))
    BY <1>19, <2>1, Exchanged
  <2> QED
    BY <2>1, <2>2 DEF NoMorePairs
<1>20. CASE ~(prev # Null /\ joined[prev].free)
  <2>1. n = joined /\ Sound(n, end, D1, x)
    BY <1>6, <1>9, <1>20 DEF Coalesced
  <2>2. prev \notin Pairs(joined, D1)
    BY <1>9, <1>20, SoundParts DEF Pairs, Null, Coalesced
  <2>3. Pairs(n, D1) \subseteq (Pairs(m, C) \ {next}) \cup {b}
    BY <1>18, <2>1, <2>2
  <2> QED
    BY <1>18, <1>19, <2>1, <2>3
<1>21. CASE prev # Null /\ joined[prev].free
  <2>1. n = coalesce_with_next(joined, prev)
    BY <1>6, <1>21
  <2>2. prev \in D1 /\ joined[prev].next = b
    BY <1>5, <1>9, <1>21 DEF Sound, Linked, Coalesced
  <2>3. Sound(joined, end, D1, x)
    BY <1>9 DEF Coalesced
  <2>4. PICK D : Coalesced(joined, D1, n, D, end, x, prev)
    BY <1>21, <2>1, <2>2, <2>3, CoalescePairs
  <2>5. Sound(n, end, D, x)
    BY <2>4 DEF Coalesced
  <2>6. Pairs(n, D) \subseteq (Pairs(m, C) \ {next}) \cup {prev}
    BY <1>18, <2>2, <2>4 DEF Coalesced
  <2>7. prev \in Pairs(n, D) => next \in Pairs(m, C)
    <3>1. prev \in Pairs(n, D) => b \in Pairs(joined, D1)
      BY <2>2, <2>4 DEF Coalesced, Pairs
    <3> QED
      BY <1>18, <3>1
  <2> QED
    BY <1>19, <2>5, <2>6, <2>7
<1> QED
  BY <1>20, <1>21

\* n and D are what splitting block b leaves of m and C: a new pair begins at b
\* or at the block split off, at which one can begin only if the block behind b
\* is free.
Parted(m, C, n, D, end, x, b, new) ==
  /\ Sound(n, end, D, x) /\ b \in D /\ n[b].free = m[b].free
  /\ \A a \in Pairs(n, D) : a = b \/ a = new \/ a \in Pairs(m, C) \ {b}
  /\ new \in Pairs(n, D) => m[b].next # Null /\ m[m[b].next].free

\* split_block does so, and if it splits, b gets smaller.
LEMMA SplitPairs ==
  ASSUME NEW m, NEW end \in Nat, NEW C, NEW x, Sound(m, end, C, x),
         NEW b \in C, NEW size \in Nat, size <= m[b].size,
         size + header_size + min_split_payload < WORD,
         NEW n, n = split_block(m, b, size)
  PROVE  /\ \E D, new : Parted(m, C, n, D, end, x, b, new)
         /\ n = m \/ n[b].size < m[b].size
<1>1. /\ b \in DOMAIN m /\ b \in Nat /\ m[b].size \in Nat
      /\ min_split_payload \in Nat \ {0}
  BY SoundParts DEF min_split_payload
<1>2. CASE m[b].size >= size + header_size + min_split_payload
  <2>1. PICK new : new = b + header_size + size
    OBVIOUS
  <2>2. m[b].next # b /\ m[b].next # new
    <3>1. CASE m[b].next = Null
      BY <1>1, <2>1, <3>1, SoundParts, HeaderSize DEF Null
    <3>2. CASE m[b].next # Null
      <4>1. m[b].next = b + header_size + m[b].size
        BY <3>2 DEF Sound, Linked, BlockEnd
      <4> QED
        BY <1>1, <1>2, <2>1, <4>1, HeaderSize
    <3> QED
      BY <3>1, <3>2
  <2>3. SplitInTwo(m, n, b, new, size)
    BY <1>1, <1>2, <2>1, <2>2, SplitPoints DEF Sound
  <2>4. m[b].size >= size + header_size /\ size + header_size > 0
    BY <1>1, <1>2, HeaderSize
  <2>5. PICK D : D = C \cup {new}
    OBVIOUS
  <2>6. /\ Sound(n, end, D, x) /\ n[b].size = size /\ n[b].free = m[b].free
    <3>1. /\ Sound(n, end, C \cup {new}, x) /\ Kept(m, C, n, C \cup {new}, {b})
          /\ n[b].size = size /\ n[b].free = m[b].free
      BY <2>1, <2>3, <2>4, SplitSound
    <3> QED
      BY <2>5, <3>1
  <2>7. new \notin C
    <3> SUFFICES ASSUME new \in C PROVE FALSE
      OBVIOUS
    <3>1. /\ BlockEnd(m, b) \in Nat /\ BlockEnd(m, b) = b + header_size + m[b].size
          /\ b < new
      BY <1>1, <2>1, SoundEnds, HeaderSize
    <3>2. BlockEnd(m, b) <= new
      BY <3>1 DEF Sound, Linked
    <3> QED
      BY <1>1, <1>2, <2>1, <3>1, <3>2, HeaderSize
  <2>8. D \subseteq DOMAIN n
    BY <2>6, SoundParts
  <2>9. \A a \in C : /\ n[a].free = m[a].free
                     /\ n[a].next = IF a = b THEN new ELSE m[a].next
    <3>1. \A a \in C : a \in DOMAIN n \ {new}
      BY <2>5, <2>7, <2>8
    <3> QED
      BY <2>3, <3>1 DEF SplitInTwo
  <2>10. n[new].next = m[b].next
    BY <2>3 DEF SplitInTwo
  <2>11. \A a \in C : m[a].next # Null => m[a].next \in C
    BY DEF Sound, Linked
  <2>12. ASSUME NEW a \in Pairs(n, D), a # b, a # new PROVE a \in Pairs(m, C) \ {b}
    <3>1. a \in C /\ m[a].free /\ m[a].next # Null /\ n[m[a].next].free
      BY <2>5, <2>9, <2>12 DEF Pairs
    <3>2. m[m[a].next].free
      BY <2>9, <2>11, <3>1
    <3> QED
      BY <2>12, <3>1, <3>2 DEF Pairs
  <2>13. ASSUME new \in Pairs(n, D) PROVE m[b].next # Null /\ m[m[b].next].free
    <3>1. m[b].next # Null /\ n[m[b].next].free
      BY <2>10, <2>13 DEF Pairs
    <3> QED
      BY <2>9, <2>11, <3>1
  <2>14. Parted(m, C, n, D, end, x, b, new)
    BY <2>5, <2>6, <2>12, <2>13 DEF Parted
  <2>15. n[b].size < m[b].size
    BY <1>1, <1>2, <2>6, HeaderSize
  <2> QED
    BY <2>14, <2>15
<1>3. CASE ~(m[b].size >= size + header_size + min_split_payload)
  <2>1. (size + header_size + min_split_payload) % WORD = size + header_size + min_split_payload
    BY <1>1, HeaderSize
  <2>2. m[b].size < (size + header_size + min_split_payload) % WORD
    BY <1>1, <1>3, <2>1, HeaderSize
  <2>3. n = m
    BY <2>2 DEF split_block
  <2>4. Parted(m, C, n, C, end, x, b, b)
    BY <2>3 DEF Parted, Pairs
  <2> QED
    BY <2>3, <2>4
<1> QED
  BY <1>2, <1>3

\* Taking a free block leaves no more pairs.
LEMMA TakeBlockPairs ==
  ASSUME HeapFits, NEW m, NEW end \in Nat, NEW C, Sound(m, end, C, Null),
         NEW b \in C, m[b].free, NEW required \in Nat, required <= m[b].size,
         required + header_size + min_split_payload < WORD,
         NEW pages, NEW r, r = TakeBlock(m, b, required, pages)
  PROVE  NoMorePairs(m, r.blocks)
<1>1. PICK parted : parted = split_block(m, b, required)
  OBVIOUS
<1>2. PICK n : n = [parted EXCEPT ![b].free = FALSE]
  OBVIOUS
<1>3. r.blocks = n
  BY <1>1, <1>2 DEF TakeBlock, Result
<1>4. Sound(m, end, C, b)
  BY SoundAnyway
<1>5. PICK D, new : Parted(m, C, parted, D, end, b, b, new)
  BY <1>1, <1>4, SplitPairs
<1>6. Sound(parted, end, D, b) /\ b \in D
  BY <1>5 DEF Parted
<1>7. Marked(parted, n, b) /\ ~n[b].free
  BY <1>2, <1>6, MarkUsed DEF Sound, Linked
<1>8. Sound(n, end, D, b)
  BY <1>6, <1>7, MarkSound
<1>9. \A a \in D : /\ n[a].next = parted[a].next
                   /\ n[a].free => parted[a].free
                   /\ parted[a].next # Null => parted[a].next \in D
  BY <1>6, <1>7 DEF Marked, Sound, Linked
<1>10. Pairs(n, D) \subseteq Pairs(parted, D) \ {b}
  BY <1>7, <1>9 DEF Pairs
<1>11. Pairs(n, D) \subseteq (Pairs(m, C) \ {b}) \cup {new}
  BY <1>5, <1>10 DEF Parted
<1>12. new \in Pairs(n, D) => b \in Pairs(m, C)
  BY <1>5, <1>10 DEF Parted, Pairs
<1>13. /\ FreePairs(m) = Pairs(m, C) /\ FreePairs(n) = Pairs(n, D)
       /\ IsFiniteSet(Pairs(m, C))
       /\ Cardinality(Pairs(m, C)) \in Nat /\ Cardinality(Pairs(n, D)) \in Nat
  BY <1>4, <1>8, PairsOfList
<1>14. Cardinality(Pairs(n, D)) <= Cardinality(Pairs(m, C))
  BY <1>11, <1>12, <1>13, Exchanged
<1> QED
  BY <1>3, <1>13, <1>14 DEF NoMorePairs

\* Growing the heap leaves no more pairs.
LEMMA ExtendedPairs ==
  ASSUME HeapFits, NEW m, NEW end \in Nat, NEW C, NEW x, Sound(m, end, C, x),
         NEW pages \in Nat, pages * PAGE_SIZE \in Nat, pages * PAGE_SIZE < WORD,
         m[last_block(m)].free \/ header_size <= pages * PAGE_SIZE,
         end < HEAP_VIRT_LIMIT \/ pages = 0,
         NEW n, n = extended(m, pages)
  PROVE  NoMorePairs(m, n)
<1>1. PICK tail, added : tail = last_block(m) /\ added = pages * PAGE_SIZE
  OBVIOUS
<1>2. tail \in C /\ m[tail].next = Null /\ tail \in DOMAIN m /\ C \subseteq DOMAIN m
  BY <1>1, LastBlock, SoundParts
<1>3. \A a \in C : m[a].next # Null => m[a].next \in C
  BY DEF Sound, Linked
<1>4. end + added \in Nat
  BY <1>1
<1>5. ASSUME NEW D, Sound(n, end + added, D, x), Pairs(n, D) \subseteq Pairs(m, C)
      PROVE  NoMorePairs(m, n)
  <2>1. /\ FreePairs(m) = Pairs(m, C) /\ FreePairs(n) = Pairs(n, D)
        /\ IsFiniteSet(Pairs(m, C))
        /\ Cardinality(Pairs(m, C)) \in Nat /\ Cardinality(Pairs(n, D)) \in Nat
    BY <1>4, <1>5, PairsOfList
  <2>2. Cardinality(Pairs(n, D)) <= Cardinality(Pairs(m, C))
    BY <1>5, <2>1, FS_Subset
  <2> QED
    BY <2>1, <2>2 DEF NoMorePairs
<1>6. CASE m[tail].free
  <2>1. n = [m EXCEPT ![tail].size = @ + added]
    BY <1>1, <1>6 DEF extended
  <2>2. added \in Nat /\ (end < HEAP_VIRT_LIMIT \/ added = 0)
    BY <1>1
  <2>3. Sound(n, end + added, C, x)
    BY <1>2, <1>6, <2>1, <2>2, TailGrown
  <2>4. \A a \in C : n[a].free = m[a].free /\ n[a].next = m[a].next
    <3>1. m[tail] \in HeapBlock
      BY <1>2 DEF Sound, Headers
    <3> QED
      BY <1>2, <2>1, <3>1 DEF HeapBlock
  <2>5. Pairs(n, C) \subseteq Pairs(m, C)
    BY <1>3, <2>4 DEF Pairs
  <2> QED
    BY <1>5, <2>3, <2>5
<1>7. CASE ~m[tail].free
  <2>1. PICK new : new = BlockEnd(m, tail)
    OBVIOUS
  <2>2. new \in Nat /\ new \notin DOMAIN m
    BY <1>2, <2>1, NothingBehind, SoundEnds
  <2>3. PICK size : size = added - header_size
    OBVIOUS
  <2>4. header_size <= added /\ added \in Nat
    BY <1>1, <1>7
  <2>5. size \in Nat /\ added = size + header_size /\ end < HEAP_VIRT_LIMIT
    <3>1. pages # 0
      BY <1>1, <2>4, HeaderSize
    <3> QED
      BY <2>3, <2>4, <3>1, HeaderSize
  <2>6. Appended(m, n, tail, new, size)
    <3>1. Headers(m)
      BY DEF Sound
    <3>2. header_size <= pages * PAGE_SIZE
      BY <1>1, <2>4
    <3>3. Appended(m, n, tail, new, pages * PAGE_SIZE - header_size)
      BY <1>1, <1>2, <1>7, <2>1, <2>2, <3>1, <3>2, AppendPoints
    <3> QED
      BY <1>1, <2>3, <3>3
  <2>7. Sound(n, end + added, C \cup {new}, x)
    BY <1>2, <1>7, <2>1, <2>4, <2>5, <2>6, AppendSound
  <2>8. /\ n[new].next = Null
        /\ \A a \in C : n[a].free = m[a].free /\ (a # tail => n[a].next = m[a].next)
    BY <1>2, <2>6 DEF Appended
  <2>9. Pairs(n, C \cup {new}) \subseteq Pairs(m, C)
    BY <1>3, <1>7, <2>8 DEF Pairs
  <2> QED
    BY <1>5, <2>7, <2>9
<1> QED
  BY <1>6, <1>7

\* kmalloc leaves no more neighbouring free blocks than it found.
LEMMA KMallocPairs ==
  ASSUME HeapFits, NEW m, NEW end, HeapEnd(end), NEW C, Sound(m, end, C, Null),
         NEW size \in Nat, Fitting(size), NEW r, r = kmalloc(m, end, size)
  PROVE  NoMorePairs(m, r.blocks)
<1>1. PICK required : required = align_up(size, ALLOC_ALIGN)
  OBVIOUS
<1>2. PICK found, needed : /\ found = find_free_block(m, required)
                           /\ needed = pages_needed(m, required)
  OBVIOUS
<1>3. PICK mapped, grown : /\ mapped = pages_mapped(end, needed)
                           /\ grown = extended(m, needed)
  OBVIOUS
<1>4. PICK retried : retried = find_free_block(grown, required)
  OBVIOUS
<1>5. end \in Nat
  BY DEF HeapEnd
<1>6. NoMorePairs(m, m)
  BY <1>5, PairsOfList DEF NoMorePairs
<1>7. /\ required \in Nat /\ size <= required
      /\ required + header_size + min_split_payload + PAGE_SIZE <= WORD
  BY <1>1, AlignUp DEF Fitting
<1>8. /\ required + header_size + min_split_payload < WORD
      /\ required + header_size + PAGE_SIZE <= WORD
  BY <1>7, HeaderSize DEF min_split_payload
<1>9. r = IF size = 0 THEN Result(m, Null, 0)
          ELSE IF found # Null THEN TakeBlock(m, found, required, 0)
          ELSE IF mapped < needed THEN Result(m, Null, mapped)
          ELSE IF retried = Null THEN Result(grown, Null, mapped)
          ELSE TakeBlock(grown, retried, required, mapped)
  <2>1. g_heap_head # Null
    BY HeapStart DEF g_heap_head
  <2> QED
    BY <1>1, <1>2, <1>3, <1>4, <2>1 DEF kmalloc
<1>10. CASE size = 0 \/ (found = Null /\ mapped < needed)
  <2>1. r.blocks = m
    BY <1>9, <1>10 DEF Result
  <2> QED
    BY <1>6, <2>1
<1>11. CASE size # 0 /\ found # Null
  <2>1. r = TakeBlock(m, found, required, 0)
    BY <1>9, <1>11
  <2>2. found \in C /\ m[found].free /\ m[found].size >= required
    BY <1>2, <1>11, FindFreeBlock
  <2>3. required <= m[found].size
    BY <1>7, <2>2, SoundParts
  <2> QED
    BY <1>5, <1>7, <1>8, <2>1, <2>2, <2>3, TakeBlockPairs
<1>12. CASE size # 0 /\ found = Null /\ ~(mapped < needed)
  <2>1. /\ needed \in Nat /\ needed * PAGE_SIZE \in Nat
        /\ m[last_block(m)].free \/ required + header_size <= needed * PAGE_SIZE
        /\ needed * PAGE_SIZE < WORD
    BY <1>2, <1>5, <1>7, <1>8, PagesNeeded
  <2>2. /\ mapped \in Nat /\ mapped <= needed
        /\ HeapEnd(end + mapped * PAGE_SIZE)
        /\ end < HEAP_VIRT_LIMIT \/ mapped = 0
    BY <1>3, <2>1, PagesMapped
  <2>3. mapped = needed
    BY <1>12, <2>1, <2>2
  <2>4. m[last_block(m)].free \/ header_size <= needed * PAGE_SIZE
    BY <1>7, <2>1, HeaderSize
  <2>5. end < HEAP_VIRT_LIMIT \/ needed = 0
    BY <2>2, <2>3
  <2>6. NoMorePairs(m, grown)
    BY <1>3, <1>5, <2>1, <2>4, <2>5, ExtendedPairs
  <2>7. PICK E : Sound(grown, end + needed * PAGE_SIZE, E, Null)
    BY <1>3, <1>5, <2>1, <2>4, <2>5, ExtendedSound
  <2>8. PICK far : far = end + needed * PAGE_SIZE
    OBVIOUS
  <2>9. far \in Nat /\ Sound(grown, far, E, Null)
    BY <1>5, <2>1, <2>7, <2>8
  <2>10. CASE retried = Null
    <3>1. r.blocks = grown
      BY <1>9, <1>12, <2>10 DEF Result
    <3> QED
      BY <2>6, <3>1
  <2>11. CASE retried # Null
    <3>1. r = TakeBlock(grown, retried, required, mapped)
      BY <1>9, <1>12, <2>11
    <3>2. /\ retried \in E /\ grown[retried].free
          /\ grown[retried].size >= required
      BY <1>4, <2>9, <2>11, FindFreeBlock
    <3>3. required <= grown[retried].size
      BY <1>7, <2>9, <3>2, SoundParts
    <3>4. NoMorePairs(grown, r.blocks)
      BY <1>7, <1>8, <2>9, <3>1, <3>2, <3>3, TakeBlockPairs
    <3> QED
      BY <2>6, <3>4, NoMoreTwice
  <2> QED
    BY <2>10, <2>11
<1> QED
  BY <1>10, <1>11, <1>12

\* krealloc of a pointer to a block in use, to a size other than 0, leaves no
\* more of them, or the block where it was and smaller.
LEMMA KReallocPairs ==
  ASSUME HeapFits, NEW m, NEW end, HeapEnd(end), NEW C, Sound(m, end, C, Null),
         NEW b \in InUse(m, C), m[b].size > 0,
         NEW size \in Nat, size > 0, Representable(size),
         NEW p, p = b + header_size, NEW r, r = krealloc(m, end, p, size)
  PROVE  \/ NoMorePairs(m, r.blocks)
         \/ r.ptr = p /\ r.blocks[b].size < m[b].size
<1>1. PICK required, next : required = align_up(size, ALLOC_ALIGN) /\ next = m[b].next
  OBVIOUS
<1>2. PICK moved : moved = kmalloc(m, end, required)
  OBVIOUS
<1>3. /\ required \in Nat /\ size <= required /\ Fitting(required)
      /\ required + header_size + min_split_payload < WORD
  <2>1. Fitting(size) /\ Fitting(required) /\ required \in Nat /\ size <= required
    BY <1>1, RepresentableFits
  <2>2. required + header_size + min_split_payload + PAGE_SIZE <= WORD
    BY <1>1, <2>1 DEF Fitting
  <2> QED
    BY <2>1, <2>2, HeaderSize DEF min_split_payload
<1>4. end \in Nat
  BY DEF HeapEnd
<1>5. b \in C /\ ~m[b].free /\ b \in Nat \ {0} /\ m[b].size \in Nat
  BY SoundParts DEF InUse
<1>6. p # Null /\ p \in Nat /\ block_from_ptr(m, end, p) = b
  BY <1>4, <1>5, BlockFromPtr, HeaderSize DEF Null
<1>7. Sound(m, end, C, b)
  BY SoundAnyway
<1>8. r = IF required <= m[b].size
          THEN Result(split_block(m, b, required), p, 0)
          ELSE IF /\ next # Null /\ m[next].free
                  /\ m[b].size + header_size + m[next].size >= required
          THEN Result(split_block(coalesce_with_next(m, b), b, required), p, 0)
          ELSE IF moved.ptr = Null THEN moved
          ELSE [moved EXCEPT !.blocks = kfree(@, end + moved.pages * PAGE_SIZE, p)]
  BY <1>1, <1>2, <1>5, <1>6 DEF krealloc, Null
<1>9. NoMorePairs(m, m)
  BY <1>4, PairsOfList DEF NoMorePairs
<1>10. CASE required <= m[b].size
  <2>1. r.ptr = p /\ r.blocks = split_block(m, b, required)
    BY <1>8, <1>10 DEF Result
  <2>2. r.blocks = m \/ r.blocks[b].size < m[b].size
    BY <1>3, <1>4, <1>5, <1>7, <1>10, <2>1, SplitPairs
  <2> QED
    BY <1>9, <2>1, <2>2
<1>11. CASE /\ ~(required <= m[b].size)
            /\ next # Null /\ m[next].free
            /\ m[b].size + header_size + m[next].size >= required
  <2>1. PICK joined, n : /\ joined = coalesce_with_next(m, b)
                         /\ n = split_block(joined, b, required)
    OBVIOUS
  <2>2. r.blocks = n
    BY <1>8, <1>11, <2>1 DEF Result
  <2>3. PICK D1 : Coalesced(m, C, joined, D1, end, b, b)
    BY <1>4, <1>5, <1>7, <2>1, CoalescePairs
  <2>4. joined[b].size = m[b].size + header_size + m[next].size
    BY <1>1, <1>4, <1>5, <1>7, <1>11, <2>1, Coalesce
  <2>5. required <= joined[b].size
    <3>1. next \in C
      BY <1>1, <1>5, <1>11 DEF Sound, Linked
    <3>2. m[next].size \in Nat
      BY <3>1, SoundParts
    <3> QED
      BY <1>3, <1>5, <1>11, <2>4, <3>2, HeaderSize
  <2>6. Sound(joined, end, D1, b) /\ b \in D1 /\ ~joined[b].free
    BY <1>5, <2>3 DEF Coalesced
  <2>7. PICK D, new : Parted(joined, D1, n, D, end, b, b, new)
    BY <1>3, <1>4, <2>1, <2>5, <2>6, SplitPairs
  <2>8. Sound(n, end, D, b) /\ b \notin Pairs(n, D)
    BY <2>6, <2>7 DEF Parted, Pairs
  <2>9. Pairs(n, D) \subseteq (Pairs(m, C) \ {next}) \cup {new}
    BY <1>1, <2>3, <2>7, <2>8 DEF Parted, Coalesced
  <2>10. new \in Pairs(n, D) => next \in Pairs(m, C)
    BY <1>1, <2>3, <2>7 DEF Parted, Coalesced
  <2>11. /\ FreePairs(m) = Pairs(m, C) /\ FreePairs(n) = Pairs(n, D)
         /\ IsFiniteSet(Pairs(m, C))
         /\ Cardinality(Pairs(m, C)) \in Nat /\ Cardinality(Pairs(n, D)) \in Nat
    BY <1>4, <2>8, PairsOfList
  <2>12. Cardinality(Pairs(n, D)) <= Cardinality(Pairs(m, C))
    BY <2>9, <2>10, <2>11, Exchanged
  <2> QED
    BY <2>2, <2>11, <2>12 DEF NoMorePairs
<1>12. CASE /\ ~(required <= m[b].size)
            /\ ~(/\ next # Null /\ m[next].free
                 /\ m[b].size + header_size + m[next].size >= required)
  <2>1. r = IF moved.ptr = Null THEN moved
            ELSE [moved EXCEPT !.blocks = kfree(@, end + moved.pages * PAGE_SIZE, p)]
    BY <1>8, <1>12
  <2>2. NoMorePairs(m, moved.blocks)
    BY <1>2, <1>3, KMallocPairs
  <2>3. PICK far : far = end + moved.pages * PAGE_SIZE
    OBVIOUS
  <2>4. /\ moved.pages \in Nat /\ HeapEnd(far)
        /\ moved.ptr # Null => \E D : Allotted(m, C, far, moved, required, {}, D)
    BY <1>2, <1>3, <2>3, KMallocSound
  <2>5. CASE moved.ptr = Null
    BY <2>1, <2>2, <2>5
  <2>6. CASE moved.ptr # Null
    <3>1. PICK c : c = moved.ptr - header_size
      OBVIOUS
    <3>2. PICK D : Allotted(m, C, far, moved, required, {}, D)
      BY <2>4, <2>6
    <3>3. /\ Sound(moved.blocks, far, D, c) /\ Kept(m, C, moved.blocks, D, {c})
          /\ c \notin InUse(m, C)
      BY <3>1, <3>2 DEF Allotted
    <3>4. /\ b \in InUse(moved.blocks, D) /\ moved.blocks[b].size = m[b].size
      BY <3>3 DEF Kept
    <3>5. far \in Nat
      BY <2>4 DEF HeapEnd
    <3>6. DOMAIN moved = {"blocks", "ptr", "pages"}
      BY <1>2, KMallocFields
    <3>7. r.blocks = kfree(moved.blocks, far, p)
      BY <2>1, <2>3, <2>6, <3>6
    <3>8. NoMorePairs(moved.blocks, r.blocks)
      BY <3>3, <3>4, <3>5, <3>7, KFreePairs
    <3> QED
      BY <2>2, <3>8, NoMoreTwice
  <2> QED
    BY <2>5, <2>6
<1> QED
  BY <1>10, <1>11, <1>12

-----------------------------------------------------------------------------

(* The inductive invariant. *)

\* The list, as the lemmas above speak of it, and the client's blocks.
ListSound(C) ==
  Sound(blocks, g_heap_mapped_end, C, Null) /\ LiveBlocksAllocated(C)

\* No heap: kmalloc_init found no room for one.
NoHeap ==
  /\ DOMAIN blocks = {} /\ g_heap_mapped_end = 0
  /\ DOMAIN live = {} /\ freed = {}

ClientHolds ==
  /\ live \in [DOMAIN live -> Nat \ {0}] /\ DOMAIN live \subseteq Nat \ {Null}
  /\ freed \subseteq Nat \ {Null}
  /\ freed \cap DOMAIN live = {}

HeapState ==
  /\ ClientHolds
  /\ blocks \in [DOMAIN blocks -> HeapBlock]
  /\ g_next_free_phys \in Nat
  /\ HeapFits => HeapEnd(g_heap_mapped_end) /\ \E C : ListSound(C)
  /\ ~HeapFits => NoHeap

\* The inductive invariant has the types in it.
LEMMA HeapStateType == HeapState => TypeOK
<1> SUFFICES ASSUME HeapState PROVE TypeOK
  OBVIOUS
<1>1. live \in [DOMAIN live -> Nat] /\ DOMAIN live \subseteq Nat \ {Null}
  BY DEF HeapState, ClientHolds
<1>2. DOMAIN blocks \subseteq Nat \ {Null} /\ g_heap_mapped_end \in Nat
  BY DEF HeapState, NoHeap, ListSound, Sound, Headers, HeapEnd
<1> QED
  BY <1>1, <1>2 DEF HeapState, ClientHolds, TypeOK

\* The inductive invariant says that the list is consistent.
LEMMA HeapStateSound == HeapState => HeapInv
<1> SUFFICES ASSUME HeapState, HeapFits
             PROVE  \E C \in SUBSET DOMAIN blocks :
                      ListConsistent(C) /\ StaleHeadersFree(C) /\ LiveBlocksAllocated(C)
  BY DEF HeapInv
<1>1. PICK C : ListSound(C)
  BY DEF HeapState
<1>2. C \in SUBSET DOMAIN blocks
  BY <1>1, SoundParts DEF ListSound
<1>3. ListConsistent(C)
  <2>1. Linked(blocks, g_heap_mapped_end, C)
    BY <1>1 DEF ListSound, Sound
  <2> QED
    BY <2>1 DEF Linked, ListConsistent, g_heap_head
<1>4. StaleHeadersFree(C)
  <2>1. \A b \in C : b # Null
    BY <1>1, SoundParts DEF ListSound, Null
  <2> QED
    BY <1>1, <2>1 DEF ListSound, Sound, Stale, StaleHeadersFree
<1> QED
  BY <1>1, <1>2, <1>3, <1>4 DEF ListSound

\* A pointer the client does not hold is not to a block in use.
LEMMA NotHeld ==
  ASSUME HeapState, NEW p \in Nat, p \notin DOMAIN live,
         p - header_size \in DOMAIN blocks
  PROVE  blocks[p - header_size].free
<1>1. HeapFits
  BY DEF HeapState, NoHeap
<1>2. PICK C : ListSound(C)
  BY <1>1 DEF HeapState
<1>3. PICK b : b = p - header_size
  OBVIOUS
<1>4. b + header_size = p
  BY <1>3, HeaderSize
<1>5. CASE b \in C
  BY <1>2, <1>3, <1>4, <1>5 DEF ListSound, LiveBlocksAllocated
<1>6. CASE b \notin C
  BY <1>2, <1>3, <1>6 DEF ListSound, Sound, Stale
<1> QED
  BY <1>3, <1>5, <1>6

\* The inductive invariant makes kfree and ksize reject freed pointers.
LEMMA HeapStateRejects == HeapState => FreedPointersRejected
<1> SUFFICES ASSUME HeapState, NEW p \in freed
             PROVE  /\ kfree(blocks, g_heap_mapped_end, p) = blocks
                    /\ ksize(blocks, g_heap_mapped_end, p) = 0
  BY DEF FreedPointersRejected
<1>1. p \in Nat /\ p \notin DOMAIN live
  BY DEF HeapState, ClientHolds
<1>2. p - header_size \in DOMAIN blocks => blocks[p - header_size].free
  BY <1>1, NotHeld
<1> QED
  BY <1>2, PtrRejected

\* kmalloc_init establishes the inductive invariant.
LEMMA InitState == Init => HeapState
<1> SUFFICES ASSUME Init PROVE HeapState
  OBVIOUS
<1>1. ClientHolds
  BY DEF Init, ClientHolds
<1>2. g_next_free_phys \in Nat
  <2>1. IDENTITY_MAP_LIMIT + PAGE_SIZE <= WORD
    BY HeapLimits, HeaderSize
  <2>2. align_up(IDENTITY_MAP_LIMIT, PAGE_SIZE) \in Nat
    BY <2>1, AlignUp
  <2> QED
    BY <2>2 DEF Init
<1>3. CASE ~HeapFits
  <2>1. blocks = << >> /\ g_heap_mapped_end = 0 /\ live = << >> /\ freed = {}
    BY <1>3 DEF Init
  <2>2. NoHeap /\ blocks \in [DOMAIN blocks -> HeapBlock]
    BY <2>1 DEF NoHeap
  <2> QED
    BY <1>1, <1>2, <1>3, <2>2 DEF HeapState
<1>4. CASE HeapFits
  <2>1. PICK s, size : s = g_heap_start /\ size = IDENTITY_MAP_LIMIT - g_heap_start - header_size
    OBVIOUS
  <2>2. s \in Nat \ {0} /\ size \in Nat /\ s + header_size + size = IDENTITY_MAP_LIMIT
    BY <1>4, <2>1, HeapStart, HeaderSize DEF HeapFits, min_split_payload, Null
  <2>3. PICK first : first = [size |-> size, free |-> TRUE, prev |-> Null, next |-> Null]
    OBVIOUS
  <2>4. /\ first \in HeapBlock /\ first.size = size /\ first.free
        /\ first.prev = Null /\ first.next = Null
    BY <2>2, <2>3 DEF HeapBlock, Null
  <2>5. blocks = [b \in {s} |-> first] /\ g_heap_mapped_end = IDENTITY_MAP_LIMIT
    BY <1>4, <2>1, <2>3 DEF Init
  <2>6. /\ DOMAIN blocks = {s} /\ blocks[s] = first
        /\ blocks \in [DOMAIN blocks -> HeapBlock]
    BY <2>4, <2>5
  <2>7. BlockEnd(blocks, s) = g_heap_mapped_end
    BY <2>2, <2>4, <2>5, <2>6 DEF BlockEnd
  <2>8. Headers(blocks)
    BY <2>2, <2>6 DEF Headers, Null
  <2>9. Linked(blocks, g_heap_mapped_end, {s})
    <3>1. blocks[s].next = Null /\ blocks[s].prev = Null
      BY <2>4, <2>6
    <3>2. g_heap_start <= s /\ s <= s /\ ~(s < s)
      BY <2>1, <2>2
    <3>3. BlockEnd(blocks, s) <= g_heap_mapped_end
      BY <2>5, <2>7
    <3> QED
      BY <2>1, <2>6, <2>7, <3>1, <3>2, <3>3 DEF Linked
  <2>10. Stale(blocks, {s}, Null)
    BY <2>6 DEF Stale
  <2>11. LiveBlocksAllocated({s})
    <3>1. DOMAIN live = {}
      BY DEF Init
    <3> QED
      BY <2>4, <2>6, <3>1 DEF LiveBlocksAllocated
  <2>12. HeapEnd(g_heap_mapped_end)
    BY <2>5, HeapLimits DEF HeapEnd
  <2> QED
    BY <1>1, <1>2, <1>4, <2>6, <2>8, <2>9, <2>10, <2>11, <2>12
       DEF HeapState, ListSound, Sound
<1> QED
  BY <1>3, <1>4

-----------------------------------------------------------------------------

(* One call, seen from the client. *)

\* Handing a block to the client clears the stale headers in its payload.
LEMMA HandedSound ==
  ASSUME NEW m, NEW end, NEW C, NEW b, Sound(m, end, C, b), b \in InUse(m, C),
         NEW n, n = Handed(m, b + header_size)
  PROVE  Sound(n, end, C, Null) /\ Kept(m, C, n, C, {})
<1>1. /\ b \in C /\ ~m[b].free /\ b \in Nat /\ BlockEnd(m, b) \in Nat
      /\ b < BlockEnd(m, b) /\ C \subseteq DOMAIN m
  BY SoundEnds DEF InUse, Sound, Linked
<1>2. PICK gone : gone = {a \in DOMAIN m : b < a /\ a < BlockEnd(m, b)}
  OBVIOUS
<1>3. n = [a \in DOMAIN m \ gone |-> m[a]]
  <2>1. (b + header_size) - header_size = b
    BY <1>1, HeaderSize
  <2> QED
    BY <1>2, <2>1 DEF Handed
<1>4. \A a \in C : a \notin gone
  <2> SUFFICES ASSUME NEW a \in C, b < a, a < BlockEnd(m, b) PROVE FALSE
    BY <1>2
  <2>1. BlockEnd(m, b) <= a /\ a \in Nat
    BY <1>1, SoundEnds DEF Sound, Linked
  <2> QED
    BY <1>1, <2>1
<1>5. DOMAIN n = DOMAIN m \ gone /\ C \subseteq DOMAIN n
  BY <1>1, <1>3, <1>4
<1>6. \A a \in DOMAIN n : n[a] = m[a]
  BY <1>3
<1>7. \A a \in C : n[a] = m[a] /\ BlockEnd(n, a) = BlockEnd(m, a)
  BY <1>5, <1>6 DEF BlockEnd
<1>8. Headers(n)
  <2>1. \A a \in DOMAIN n : m[a] \in HeapBlock /\ a \in Nat \ {Null}
    BY <1>5 DEF Sound, Headers
  <2> QED
    BY <1>3, <1>5, <2>1 DEF Headers
<1>9. Linked(n, end, C)
  BY <1>5, <1>7 DEF Sound, Linked
<1>10. Stale(n, C, Null)
  <2> SUFFICES ASSUME NEW s \in DOMAIN n \ C
               PROVE  /\ n[s].free
                      /\ \E c \in C : /\ n[c].free \/ c = Null
                                      /\ c + header_size <= s
                                      /\ s + header_size <= BlockEnd(n, c)
    BY DEF Stale
  <2>1. s \in DOMAIN m \ C /\ s \notin gone /\ n[s] = m[s] /\ s \in Nat
    BY <1>5, <1>6, SoundParts
  <2>2. PICK c \in C : /\ m[s].free
                       /\ m[c].free \/ c = b
                       /\ c + header_size <= s
                       /\ s + header_size <= BlockEnd(m, c)
    BY <2>1 DEF Sound, Stale
  <2>3. c # b
    <3> SUFFICES ASSUME c = b PROVE FALSE
      OBVIOUS
    <3>1. b < s /\ s < BlockEnd(m, b)
      BY <1>1, <2>1, <2>2, HeaderSize
    <3> QED
      BY <1>2, <2>1, <3>1
  <2> QED
    BY <1>7, <2>1, <2>2, <2>3
<1>11. Kept(m, C, n, C, {})
  BY <1>7 DEF Kept, InUse
<1> QED
  BY <1>8, <1>9, <1>10, <1>11 DEF Sound

\* A block of a sound list is room for what its size holds, apart from what
\* other blocks hold.
LEMMA RoomInList ==
  ASSUME NEW m, NEW end, HeapEnd(end), NEW D, NEW x, Sound(m, end, D, x),
         NEW p \in Nat, p - header_size \in D,
         NEW n \in Nat, 0 < n, n <= m[p - header_size].size,
         NEW others \in SUBSET Nat, p \notin others, NEW held,
         \A q \in others : /\ q - header_size \in D
                           /\ held[q] \in Nat /\ held[q] <= m[q - header_size].size
  PROVE  /\ g_heap_start + header_size <= p /\ p + n <= HEAP_VIRT_LIMIT
         /\ \A q \in others : p + n <= q - header_size \/ q + held[q] <= p - header_size
<1>1. PICK b : b = p - header_size
  OBVIOUS
<1>2. /\ b \in D /\ b \in Nat /\ m[b].size \in Nat
      /\ BlockEnd(m, b) = b + header_size + m[b].size /\ BlockEnd(m, b) \in Nat
      /\ g_heap_start <= b /\ BlockEnd(m, b) <= end /\ p = b + header_size
      /\ n <= m[b].size
  <2>1. b \in D /\ g_heap_start <= b /\ BlockEnd(m, b) <= end
    BY <1>1 DEF Sound, Linked
  <2> QED
    BY <1>1, <2>1, SoundEnds, HeaderSize
<1>3. g_heap_start + header_size <= p /\ p + n <= HEAP_VIRT_LIMIT
  BY <1>2, HeaderSize, HeapStart DEF HeapEnd
<1>4. ASSUME NEW q \in others
      PROVE  p + n <= q - header_size \/ q + held[q] <= p - header_size
  <2>1. PICK c, k : c = q - header_size /\ k = held[q]
    OBVIOUS
  <2>2. /\ c \in D /\ c \in Nat /\ q = c + header_size /\ c # b
        /\ k \in Nat /\ k <= m[c].size /\ m[c].size \in Nat
        /\ BlockEnd(m, c) = c + header_size + m[c].size /\ BlockEnd(m, c) \in Nat
    <3>1. c \in D /\ k \in Nat /\ k <= m[c].size /\ q \in Nat /\ q # p
      BY <2>1
    <3> QED
      BY <1>1, <2>1, <3>1, SoundEnds, HeaderSize
  <2>3. CASE b < c
    <3>1. BlockEnd(m, b) <= c
      BY <1>2, <2>2, <2>3 DEF Sound, Linked
    <3>2. p + n <= c
      BY <1>2, <2>2, <3>1, HeaderSize
    <3> QED
      BY <2>1, <3>2
  <2>4. CASE c < b
    <3>1. BlockEnd(m, c) <= b
      BY <1>2, <2>2, <2>4 DEF Sound, Linked
    <3>2. q + k <= b
      BY <1>2, <2>2, <3>1, HeaderSize
    <3> QED
      BY <1>1, <2>1, <3>2
  <2> QED
    BY <1>2, <2>2, <2>3, <2>4
<1> QED
  BY <1>3, <1>4

\* The block of a pointer the client gives in return.
GivenBlock(given) == IF given \in DOMAIN live THEN {given - header_size} ELSE {}

\* What a call has to leave for the client's step to keep the invariant.
Answered(C, r, size, given) ==
  LET far == g_heap_mapped_end + r.pages * PAGE_SIZE IN
  /\ r.pages \in Nat /\ HeapEnd(far)
  /\ r.ptr = Null => \E D : Failed(blocks, C, far, r, D)
  /\ r.ptr # Null => \E D : Allotted(blocks, C, far, r, size, GivenBlock(given), D)
  /\ r.ptr # Null => given \notin freed

\* The pointers and the blocks in use are one and the same.
LEMMA LiveInUse ==
  ASSUME NEW C, ListSound(C)
  PROVE  /\ \A p \in DOMAIN live : /\ p - header_size \in InUse(blocks, C)
                                   /\ live[p] <= blocks[p - header_size].size
         /\ \A b \in InUse(blocks, C) : b + header_size \in DOMAIN live
  BY DEF ListSound, LiveBlocksAllocated, InUse

\* A call that returned null keeps the invariant and all the client holds.
LEMMA FailedStep ==
  ASSUME HeapState, HeapFits, NEW C, ListSound(C), NEW r, NEW size, NEW given \in Nat,
         Answered(C, r, size, given), Return(r, size, given), r.ptr = Null
  PROVE  HeapState' /\ UNCHANGED live
<1>1. PICK far : far = g_heap_mapped_end + r.pages * PAGE_SIZE
  OBVIOUS
<1>2. r.pages \in Nat /\ HeapEnd(far)
  BY <1>1 DEF Answered
<1>3. PICK D : Failed(blocks, C, far, r, D)
  BY <1>1 DEF Answered
<1>4. /\ g_heap_mapped_end' = far /\ blocks' = r.blocks /\ live' = live /\ freed' = freed
      /\ g_next_free_phys' = g_next_free_phys + r.pages * PAGE_SIZE
  BY <1>1 DEF Return
<1>5. Sound(blocks', far, D, Null) /\ Kept(blocks, C, blocks', D, {})
  BY <1>3, <1>4 DEF Failed
<1>6. InUse(blocks', D) = InUse(blocks, C)
      /\ \A b \in InUse(blocks, C) : blocks'[b].size = blocks[b].size
  BY <1>5 DEF Kept
<1>7. LiveBlocksAllocated(D)'
  <2>1. /\ \A p \in DOMAIN live : /\ p - header_size \in InUse(blocks', D)
                                  /\ live[p] <= blocks'[p - header_size].size
        /\ \A b \in InUse(blocks', D) : b + header_size \in DOMAIN live
    BY <1>6, LiveInUse
  <2> QED
    BY <1>4, <2>1 DEF LiveBlocksAllocated, InUse
<1>8. ListSound(D)'
  BY <1>4, <1>5, <1>7 DEF ListSound
<1>9. HeapEnd(g_heap_mapped_end')
  BY <1>2, <1>4
<1>10. g_next_free_phys' \in Nat
  <2>1. g_next_free_phys \in Nat /\ r.pages * PAGE_SIZE \in Nat
    BY <1>2 DEF HeapState
  <2> QED
    BY <1>4, <2>1
<1>11. blocks' \in [DOMAIN blocks' -> HeapBlock]
  BY <1>5 DEF Sound, Headers
<1>12. ClientHolds'
  BY <1>4 DEF HeapState, ClientHolds
<1>13. HeapState'
  BY <1>8, <1>9, <1>10, <1>11, <1>12 DEF HeapState
<1> QED
  BY <1>4, <1>13

\* A step of the client's is a step the allocator promises, or none.
Promised == Promise!AllocatorNext \/ UNCHANGED live

\* A call that returned a block is a promised step to the client.
LEMMA AllottedStep ==
  ASSUME HeapState, HeapFits, NEW C, ListSound(C), NEW r, NEW size \in Nat,
         NEW given \in Nat, Answered(C, r, size, given), Return(r, size, given),
         r.ptr # Null
  PROVE  HeapState' /\ Promised
<1>1. PICK far, ptr, n : /\ far = g_heap_mapped_end + r.pages * PAGE_SIZE
                         /\ ptr = r.ptr /\ n = r.blocks
  OBVIOUS
<1>2. PICK b, G : b = ptr - header_size /\ G = GivenBlock(given)
  OBVIOUS
<1>3. PICK D : Allotted(blocks, C, far, r, size, G, D)
  BY <1>1, <1>2 DEF Answered
<1>4. /\ size > 0 /\ ptr \in Nat
      /\ Sound(n, far, D, b)
      /\ Kept(blocks, C, n, D, {b} \cup G)
      /\ b \in InUse(n, D) /\ size <= n[b].size
      /\ b \notin InUse(blocks, C) \ G
      /\ (G \ {b}) \cap InUse(n, D) = {}
      /\ \A g \in G \ {b} : b + header_size + size <= g \/ BlockEnd(blocks, g) <= b
  BY <1>1, <1>2, <1>3 DEF Allotted
<1>5. ptr = b + header_size /\ b \in Nat /\ ptr # Null
  <2>1. b \in D
    BY <1>4 DEF InUse
  <2> QED
    BY <1>1, <1>2, <1>4, <2>1, SoundParts, HeaderSize
<1>6. /\ g_heap_mapped_end' = far
      /\ g_next_free_phys' = g_next_free_phys + r.pages * PAGE_SIZE
      /\ blocks' = Handed(n, ptr)
      /\ live' = [p \in (DOMAIN live \ {given}) \cup {ptr} |->
                    IF p = ptr THEN size ELSE live[p]]
      /\ freed' = StillFreed(n, ptr) \cup ({given} \ {Null, ptr})
  BY <1>1 DEF Return
<1>7. Sound(blocks', far, D, Null) /\ Kept(n, D, blocks', D, {})
  BY <1>4, <1>5, <1>6, HandedSound
<1>8. /\ InUse(blocks', D) = InUse(n, D)
      /\ \A a \in InUse(n, D) : blocks'[a].size = n[a].size
  BY <1>7 DEF Kept
<1>9. /\ DOMAIN live' = (DOMAIN live \ {given}) \cup {ptr}
      /\ live'[ptr] = size
      /\ \A p \in DOMAIN live \ {given} : p # ptr => live'[p] = live[p]
  BY <1>6
<1>10. /\ \A p \in DOMAIN live : p \in Nat /\ live[p] \in Nat \ {0}
       /\ DOMAIN live \subseteq Nat \ {0}
  BY DEF HeapState, ClientHolds, Null
<1>11. /\ \A p \in DOMAIN live : /\ p - header_size \in InUse(blocks, C)
                                 /\ live[p] <= blocks[p - header_size].size
       /\ \A a \in InUse(blocks, C) : a + header_size \in DOMAIN live
  BY LiveInUse
<1>12. ASSUME NEW p \in DOMAIN live \ {given}, p # ptr
       PROVE  /\ p - header_size \in InUse(blocks', D)
              /\ live[p] <= blocks'[p - header_size].size
  <2>1. PICK a : a = p - header_size
    OBVIOUS
  <2>2. a \in InUse(blocks, C) /\ live[p] <= blocks[a].size /\ p \in Nat
    BY <1>10, <1>11, <2>1
  <2>3. a # b
    BY <1>2, <1>4, <1>12, <2>1, <2>2, HeaderSize
  <2>4. a \notin G
    <3>1. CASE given \in DOMAIN live
      <4>1. G = {given - header_size}
        BY <1>2, <3>1 DEF GivenBlock
      <4>2. a # given - header_size
        BY <1>12, <2>1, <2>2, HeaderSize
      <4> QED
        BY <4>1, <4>2
    <3>2. CASE given \notin DOMAIN live
      BY <1>2, <3>2 DEF GivenBlock
    <3> QED
      BY <3>1, <3>2
  <2>5. a \in InUse(n, D) /\ n[a].size = blocks[a].size
    BY <1>4, <2>2, <2>3, <2>4 DEF Kept
  <2> QED
    BY <1>8, <2>1, <2>2, <2>5
<1>13. ASSUME NEW a \in InUse(blocks', D) PROVE a + header_size \in DOMAIN live'
  <2>1. CASE a = b
    BY <1>5, <1>9, <2>1
  <2>2. CASE a # b
    <3>1. a \in InUse(n, D) /\ a \notin G
      BY <1>4, <1>8, <1>13, <2>2
    <3>2. a \in InUse(blocks, C)
      BY <1>4, <2>2, <3>1 DEF Kept
    <3>3. a + header_size \in DOMAIN live
      BY <1>11, <3>2
    <3>4. a + header_size # given
      <4> SUFFICES ASSUME a + header_size = given PROVE FALSE
        OBVIOUS
      <4>1. G = {given - header_size}
        BY <1>2, <3>3 DEF GivenBlock
      <4>2. a \in Nat
        BY <3>1, <1>4, SoundParts DEF InUse
      <4>3. given - header_size = a
        BY <4>2, HeaderSize
      <4> QED
        BY <3>1, <4>1, <4>3
    <3> QED
      BY <1>9, <3>3, <3>4
  <2> QED
    BY <2>1, <2>2
<1>14. LiveBlocksAllocated(D)'
  <2>1. ASSUME NEW p \in DOMAIN live'
        PROVE  /\ p - header_size \in InUse(blocks', D)
               /\ live'[p] <= blocks'[p - header_size].size
    <3>1. CASE p = ptr
      BY <1>2, <1>4, <1>8, <1>9, <3>1
    <3>2. CASE p # ptr
      <4>1. p \in DOMAIN live \ {given} /\ live'[p] = live[p]
        BY <1>9, <3>2
      <4> QED
        BY <1>12, <3>2, <4>1
    <3> QED
      BY <3>1, <3>2
  <2> QED
    BY <1>13, <2>1 DEF LiveBlocksAllocated, InUse
<1>15. HeapEnd(far) /\ r.pages \in Nat
  BY <1>1 DEF Answered
<1>16. ListSound(D)'
  BY <1>6, <1>7, <1>14 DEF ListSound
<1>17. g_next_free_phys' \in Nat
  <2>1. g_next_free_phys \in Nat /\ r.pages * PAGE_SIZE \in Nat
    BY <1>15 DEF HeapState
  <2> QED
    BY <1>6, <2>1
<1>18. blocks' \in [DOMAIN blocks' -> HeapBlock]
  BY <1>7 DEF Sound, Headers
<1>19. ClientHolds'
  <2>1. live' \in [DOMAIN live' -> Nat \ {0}] /\ DOMAIN live' \subseteq Nat \ {Null}
    <3>1. \A p \in DOMAIN live' : live'[p] \in Nat \ {0}
      BY <1>4, <1>9, <1>10
    <3>2. live' = [p \in DOMAIN live' |-> live'[p]]
      BY <1>6
    <3>3. DOMAIN live' \subseteq Nat \ {Null}
      BY <1>4, <1>5, <1>9, <1>10 DEF Null
    <3> QED
      BY <3>1, <3>2, <3>3
  <2>2. /\ freed \subseteq Nat \ {Null} /\ freed \cap DOMAIN live = {}
        /\ StillFreed(n, ptr) \subseteq freed \ {ptr}
    BY DEF HeapState, ClientHolds, StillFreed
  <2>3. freed' \subseteq Nat \ {Null}
    BY <1>6, <2>2 DEF Null
  <2>4. freed' \cap DOMAIN live' = {}
    <3>1. \A q \in StillFreed(n, ptr) : q \notin DOMAIN live'
      BY <1>9, <2>2
    <3>2. \A q \in {given} \ {Null, ptr} : q \notin DOMAIN live'
      BY <1>9
    <3> QED
      BY <1>6, <3>1, <3>2
  <2> QED
    BY <2>1, <2>3, <2>4 DEF ClientHolds
<1>20. HeapState'
  BY <1>6, <1>15, <1>16, <1>17, <1>18, <1>19 DEF HeapState
<1>21. PICK others : others = DOMAIN live \ {given, ptr}
  OBVIOUS
<1>22. /\ g_heap_start + header_size <= ptr /\ ptr + size <= HEAP_VIRT_LIMIT
       /\ \A q \in others : ptr + size <= q - header_size \/ q + live[q] <= ptr - header_size
  <2>1. \A q \in others : /\ q - header_size \in D
                          /\ live[q] \in Nat /\ live[q] <= blocks'[q - header_size].size
    BY <1>10, <1>12, <1>21 DEF InUse
  <2>2. /\ ptr - header_size \in D
        /\ size <= blocks'[ptr - header_size].size
    BY <1>2, <1>4, <1>8 DEF InUse
  <2>3. others \in SUBSET Nat /\ ptr \notin others
    BY <1>10, <1>21
  <2> QED
    BY <1>4, <1>7, <1>15, <2>1, <2>2, <2>3, RoomInList
<1>23. Promise!Room(ptr, size, others)
  BY <1>4, <1>22 DEF Promise!Room, Promise!Apart
<1>24. \A q \in DOMAIN live : q # given => q # ptr
  <2> SUFFICES ASSUME ptr \in DOMAIN live, ptr # given PROVE FALSE
    OBVIOUS
  <2>1. b \in InUse(blocks, C)
    BY <1>2, <1>11
  <2>2. b \notin G
    <3>1. CASE given \in DOMAIN live
      <4>1. G = {given - header_size}
        BY <1>2, <3>1 DEF GivenBlock
      <4>2. b # given - header_size
        BY <1>2, <1>4, HeaderSize
      <4> QED
        BY <4>1, <4>2
    <3>2. CASE given \notin DOMAIN live
      BY <1>2, <3>2 DEF GivenBlock
    <3> QED
      BY <3>1, <3>2
  <2> QED
    BY <1>4, <2>1, <2>2
<1>25. Promised
  <2>1. CASE given \notin DOMAIN live
    <3>1. ptr \notin DOMAIN live /\ others = DOMAIN live
      BY <1>21, <1>24, <2>1
    <3>2. live' = [q \in DOMAIN live \cup {ptr} |-> IF q = ptr THEN size ELSE live[q]]
      <4>1. DOMAIN live \ {given} = DOMAIN live
        BY <2>1
      <4> QED
        BY <1>6, <4>1
    <3>3. Promise!Alloc(ptr, live'[ptr])
      BY <1>9, <1>23, <3>1, <3>2 DEF Promise!Alloc
    <3> QED
      BY <1>9, <3>3 DEF Promised, Promise!AllocatorNext
  <2>2. CASE given \in DOMAIN live /\ ptr = given
    <3>1. others = DOMAIN live \ {ptr}
      BY <1>21, <2>2
    <3>2. live' = [live EXCEPT ![ptr] = size]
      <4>1. (DOMAIN live \ {given}) \cup {ptr} = DOMAIN live
        BY <2>2
      <4>2. live = [q \in DOMAIN live |-> live[q]]
        BY DEF HeapState, ClientHolds
      <4> QED
        BY <1>6, <4>1, <4>2
    <3>3. Promise!ResizeInPlace(ptr, live'[ptr])
      BY <1>9, <1>23, <2>2, <3>1, <3>2 DEF Promise!ResizeInPlace
    <3> QED
      BY <1>9, <3>3 DEF Promised, Promise!AllocatorNext
  <2>3. CASE given \in DOMAIN live /\ ptr # given
    <3>1. ptr \notin DOMAIN live
      BY <1>24, <2>3
    <3>2. ptr + size <= given - header_size \/ given + live[given] <= ptr - header_size
      <4>1. PICK g : g = given - header_size
        OBVIOUS
      <4>2. G = {g} /\ g # b
        BY <1>2, <1>4, <2>3, <4>1, HeaderSize DEF GivenBlock
      <4>3. b + header_size + size <= g \/ BlockEnd(blocks, g) <= b
        BY <1>4, <4>2
      <4>4. /\ g \in InUse(blocks, C) /\ live[given] <= blocks[g].size
            /\ live[given] \in Nat
        BY <1>10, <1>11, <2>3, <4>1
      <4>5. /\ g \in Nat /\ blocks[g].size \in Nat
            /\ BlockEnd(blocks, g) = g + header_size + blocks[g].size
        BY <4>4, SoundEnds DEF ListSound, InUse
      <4>6. given = g + header_size
        BY <4>1, HeaderSize
      <4>7. CASE b + header_size + size <= g
        BY <1>2, <1>5, <4>1, <4>7
      <4>8. CASE BlockEnd(blocks, g) <= b
        <5>1. given + live[given] <= b
          BY <1>5, <4>4, <4>5, <4>6, <4>8, HeaderSize
        <5> QED
          BY <1>2, <5>1
      <4> QED
        BY <4>3, <4>7, <4>8
    <3>3. \A q \in DOMAIN live :
             ptr + size <= q - header_size \/ q + live[q] <= ptr - header_size
      BY <1>21, <1>22, <3>1, <3>2
    <3>4. Promise!Room(ptr, size, DOMAIN live)
      BY <1>4, <1>22, <3>3 DEF Promise!Room, Promise!Apart
    <3>5. Promise!Move(given, ptr, live'[ptr])
      BY <1>6, <1>9, <3>1, <3>4 DEF Promise!Move
    <3> QED
      BY <1>9, <2>3, <3>5 DEF Promised, Promise!AllocatorNext
  <2> QED
    BY <2>1, <2>2, <2>3
<1> QED
  BY <1>20, <1>25

-----------------------------------------------------------------------------

(* One lemma for each of the client's calls. *)

\* Either way, the return to the client is a promised step or a stutter.
LEMMA AnsweredStep ==
  ASSUME HeapState, HeapFits, NEW C, ListSound(C), NEW r, NEW size \in Nat,
         NEW given \in Nat, Answered(C, r, size, given), Return(r, size, given)
  PROVE  HeapState' /\ Promised
<1>1. CASE r.ptr = Null
  <2>1. HeapState' /\ UNCHANGED live
    BY <1>1, FailedStep
  <2> QED
    BY <2>1 DEF Promised
<1>2. CASE r.ptr # Null
  BY <1>2, AllottedStep
<1> QED
  BY <1>1, <1>2

\* A call that changes no block, maps no page and returns null.
LEMMA NothingStep ==
  ASSUME HeapState, NEW size, NEW given, Return(Result(blocks, Null, 0), size, given)
  PROVE  HeapState' /\ Promised
<1>1. PICK r : r = Result(blocks, Null, 0)
  OBVIOUS
<1>2. r.ptr = Null /\ r.pages = 0 /\ r.blocks = blocks
  BY <1>1 DEF Result
<1>3. /\ g_heap_mapped_end' = g_heap_mapped_end + 0 * PAGE_SIZE
      /\ g_next_free_phys' = g_next_free_phys + 0 * PAGE_SIZE
      /\ blocks' = blocks /\ live' = live /\ freed' = freed
  BY <1>1, <1>2 DEF Return
<1>4. g_heap_mapped_end \in Nat /\ g_next_free_phys \in Nat
  BY DEF HeapState, HeapEnd, NoHeap
<1>5. g_heap_mapped_end' = g_heap_mapped_end /\ g_next_free_phys' = g_next_free_phys
  BY <1>3, <1>4
<1>6. HeapState'
  BY <1>3, <1>5 DEF HeapState, ClientHolds, NoHeap, ListSound, LiveBlocksAllocated
<1> QED
  BY <1>3, <1>6 DEF Promised

\* kmalloc.
LEMMA KMallocStep ==
  ASSUME HeapState, NEW size \in Nat, Representable(size), KMalloc(size)
  PROVE  HeapState' /\ Promised
<1>1. PICK r : r = kmalloc(blocks, g_heap_mapped_end, size)
  OBVIOUS
<1>2. Return(r, size, Null)
  BY <1>1 DEF KMalloc
<1>3. CASE ~HeapFits
  <2>1. r = Result(blocks, Null, 0)
    BY <1>1, <1>3 DEF kmalloc, g_heap_head
  <2> QED
    BY <1>2, <2>1, NothingStep
<1>4. CASE HeapFits
  <2>1. PICK C : ListSound(C)
    BY <1>4 DEF HeapState
  <2>2. HeapEnd(g_heap_mapped_end)
    BY <1>4 DEF HeapState
  <2>3. Fitting(size)
    BY RepresentableFits
  <2>4. PICK far : far = g_heap_mapped_end + r.pages * PAGE_SIZE
    OBVIOUS
  <2>5. /\ r.pages \in Nat /\ HeapEnd(far)
        /\ r.ptr = Null => \E D : Failed(blocks, C, far, r, D)
        /\ r.ptr # Null => \E D : Allotted(blocks, C, far, r, size, {}, D)
    BY <1>1, <1>4, <2>1, <2>2, <2>3, <2>4, KMallocSound DEF ListSound
  <2>6. GivenBlock(Null) = {} /\ Null \notin freed /\ Null \in Nat
    BY DEF HeapState, ClientHolds, GivenBlock, Null
  <2>7. Answered(C, r, size, Null)
    BY <2>4, <2>5, <2>6 DEF Answered
  <2> QED
    BY <1>2, <1>4, <2>1, <2>6, <2>7, AnsweredStep
<1> QED
  BY <1>3, <1>4

\* kcalloc, kmalloc of a product that did not overflow.
LEMMA KCallocStep ==
  ASSUME HeapState, NEW count \in Counts, NEW size \in Sizes, KCalloc(count, size)
  PROVE  HeapState' /\ Promised
<1>1. CASE UNCHANGED vars
  BY <1>1 DEF vars, HeapState, ClientHolds, NoHeap, ListSound, LiveBlocksAllocated, Promised
<1>2. CASE ~(count = 0 \/ size = 0 \/ count * size > WORD - 1)
  <2>1. PICK product : product = count * size
    OBVIOUS
  <2>2. product \in Nat /\ ~(product > WORD - 1) /\ KMalloc(product)
    BY <1>2, <2>1 DEF KCalloc
  <2>3. Representable(product)
    BY <2>1, <2>2, NoWrap
  <2> QED
    BY <2>2, <2>3, KMallocStep
<1> QED
  BY <1>1, <1>2 DEF KCalloc

\* kfree, of a pointer held or one freed before.
LEMMA KFreeStep ==
  ASSUME HeapState, NEW p \in Pointers, KFree(p)
  PROVE  HeapState' /\ Promised
<1>1. p \in Nat
  BY DEF Pointers, HeapState, ClientHolds, Null
<1>2. /\ blocks' = kfree(blocks, g_heap_mapped_end, p)
      /\ live' = [q \in DOMAIN live \ {p} |-> live[q]]
      /\ freed' = freed \cup ({p} \cap DOMAIN live)
      /\ g_heap_mapped_end' = g_heap_mapped_end /\ g_next_free_phys' = g_next_free_phys
  BY DEF KFree
<1>3. CASE p \notin DOMAIN live
  <2>1. blocks' = blocks
    <3>1. p - header_size \in DOMAIN blocks => blocks[p - header_size].free
      BY <1>1, <1>3, NotHeld
    <3> QED
      BY <1>2, <3>1, PtrRejected
  <2>2. live' = live
    <3>1. DOMAIN live \ {p} = DOMAIN live /\ live = [q \in DOMAIN live |-> live[q]]
      BY <1>3 DEF HeapState, ClientHolds
    <3> QED
      BY <1>2, <3>1
  <2>3. freed' = freed
    BY <1>2, <1>3
  <2> QED
    BY <1>2, <2>1, <2>2, <2>3
       DEF HeapState, ClientHolds, NoHeap, ListSound, LiveBlocksAllocated, Promised
<1>4. CASE p \in DOMAIN live
  <2>1. HeapFits
    BY <1>4 DEF HeapState, NoHeap
  <2>2. PICK C : ListSound(C)
    BY <2>1 DEF HeapState
  <2>3. PICK b : b = p - header_size
    OBVIOUS
  <2>4. p = b + header_size
    BY <1>1, <2>3, HeaderSize
  <2>5. /\ b \in InUse(blocks, C) /\ live[p] <= blocks[b].size /\ live[p] \in Nat \ {0}
    BY <1>4, <2>2, <2>3, LiveInUse DEF HeapState, ClientHolds
  <2>6. blocks[b].size > 0
    <3>1. blocks[b].size \in Nat
      BY <2>2, <2>5, SoundParts DEF ListSound, InUse
    <3> QED
      BY <2>5, <3>1
  <2>7. g_heap_mapped_end \in Nat /\ Sound(blocks, g_heap_mapped_end, C, Null)
    BY <2>1, <2>2 DEF HeapState, HeapEnd, ListSound
  <2>8. PICK D : /\ Sound(blocks', g_heap_mapped_end, D, Null)
                 /\ Kept(blocks, C, blocks', D, {b}) /\ b \notin InUse(blocks', D)
    BY <1>2, <2>4, <2>5, <2>6, <2>7, KFreeSound
  <2>9. /\ DOMAIN live' = DOMAIN live \ {p}
        /\ \A q \in DOMAIN live' : live'[q] = live[q]
    BY <1>2
  <2>10. \A q \in DOMAIN live' : q \in Nat
    BY <2>9 DEF HeapState, ClientHolds
  <2>11. LiveBlocksAllocated(D)'
    <3>1. ASSUME NEW q \in DOMAIN live'
          PROVE  /\ q - header_size \in InUse(blocks', D)
                 /\ live'[q] <= blocks'[q - header_size].size
      <4>1. /\ q - header_size \in InUse(blocks, C)
            /\ live[q] <= blocks[q - header_size].size
        BY <2>2, <2>9, LiveInUse
      <4>2. q - header_size # b
        BY <1>1, <2>3, <2>9, <2>10, HeaderSize
      <4> QED
        BY <2>8, <2>9, <4>1, <4>2 DEF Kept
    <3>2. ASSUME NEW a \in InUse(blocks', D) PROVE a + header_size \in DOMAIN live'
      <4>1. a # b /\ a \in InUse(blocks, C)
        BY <2>8 DEF Kept
      <4>2. a + header_size \in DOMAIN live
        BY <2>2, <4>1, LiveInUse
      <4>3. a \in Nat /\ b \in Nat
        BY <2>7, <2>5, <4>1, SoundParts DEF InUse
      <4>4. a + header_size # p
        BY <2>4, <4>1, <4>3, HeaderSize
      <4> QED
        BY <2>9, <4>2, <4>4
    <3> QED
      BY <3>1, <3>2 DEF LiveBlocksAllocated, InUse
  <2>12. ListSound(D)'
    BY <1>2, <2>8, <2>11 DEF ListSound
  <2>13. ClientHolds'
    <3>1. live' \in [DOMAIN live' -> Nat \ {0}]
      BY <1>2, <2>9 DEF HeapState, ClientHolds
    <3>2. DOMAIN live' \subseteq Nat \ {Null}
      BY <2>9 DEF HeapState, ClientHolds
    <3>3. freed' \subseteq Nat \ {Null} /\ freed' \cap DOMAIN live' = {}
      BY <1>2, <2>9 DEF HeapState, ClientHolds
    <3> QED
      BY <3>1, <3>2, <3>3 DEF ClientHolds
  <2>14. blocks' \in [DOMAIN blocks' -> HeapBlock]
    BY <2>8 DEF Sound, Headers
  <2>15. HeapState'
    BY <1>2, <2>1, <2>12, <2>13, <2>14 DEF HeapState
  <2>16. Promised
    BY <1>2, <1>4 DEF Promised, Promise!AllocatorNext, Promise!Free
  <2> QED
    BY <2>15, <2>16
<1> QED
  BY <1>3, <1>4

\* krealloc, of no pointer, of one held or of one freed before.
LEMMA KReallocStep ==
  ASSUME HeapState, NEW p \in Pointers, NEW size \in Sizes, KRealloc(p, size)
  PROVE  HeapState' /\ Promised
<1>1. p \in Nat /\ size \in Nat /\ Representable(size)
  BY NoWrap DEF Pointers, HeapState, ClientHolds, Null
<1>2. CASE p # Null /\ size = 0
  BY <1>2, KFreeStep DEF KRealloc
<1>3. CASE ~(p # Null /\ size = 0)
  <2>1. PICK r : r = krealloc(blocks, g_heap_mapped_end, p, size)
    OBVIOUS
  <2>2. Return(r, size, p)
    BY <1>3, <2>1 DEF KRealloc
  <2>3. CASE p = Null
    <3>1. KMalloc(size)
      BY <2>1, <2>2, <2>3 DEF krealloc, KMalloc
    <3> QED
      BY <1>1, <3>1, KMallocStep
  <2>4. CASE p # Null /\ p \notin DOMAIN live
    <3>1. p - header_size \in DOMAIN blocks => blocks[p - header_size].free
      BY <1>1, <2>4, NotHeld
    <3>2. r = Result(blocks, Null, 0)
      BY <2>1, <2>4, <3>1, KReallocRejected
    <3> QED
      BY <2>2, <3>2, NothingStep
  <2>5. CASE p # Null /\ p \in DOMAIN live
    <3>1. HeapFits
      BY <2>5 DEF HeapState, NoHeap
    <3>2. PICK C : ListSound(C)
      BY <3>1 DEF HeapState
    <3>3. PICK b : b = p - header_size
      OBVIOUS
    <3>4. p = b + header_size
      BY <1>1, <3>3, HeaderSize
    <3>5. /\ b \in InUse(blocks, C) /\ live[p] <= blocks[b].size /\ live[p] \in Nat \ {0}
      BY <2>5, <3>2, <3>3, LiveInUse DEF HeapState, ClientHolds
    <3>6. blocks[b].size > 0
      <4>1. blocks[b].size \in Nat
        BY <3>2, <3>5, SoundParts DEF ListSound, InUse
      <4> QED
        BY <3>5, <4>1
    <3>7. /\ HeapEnd(g_heap_mapped_end) /\ Sound(blocks, g_heap_mapped_end, C, Null)
      BY <3>1, <3>2 DEF HeapState, ListSound
    <3>8. PICK far : far = g_heap_mapped_end + r.pages * PAGE_SIZE
      OBVIOUS
    <3>9. size > 0
      BY <1>1, <1>3, <2>5
    <3>10. /\ r.pages \in Nat /\ HeapEnd(far)
           /\ r.ptr = Null => \E D : Failed(blocks, C, far, r, D)
           /\ r.ptr # Null => \E D : Allotted(blocks, C, far, r, size, {b}, D)
      BY <1>1, <2>1, <3>1, <3>4, <3>5, <3>6, <3>7, <3>8, <3>9, KReallocSound
    <3>11. GivenBlock(p) = {b} /\ p \notin freed
      BY <2>5, <3>3 DEF GivenBlock, HeapState, ClientHolds
    <3>12. Answered(C, r, size, p)
      BY <3>8, <3>10, <3>11 DEF Answered
    <3> QED
      BY <1>1, <2>2, <3>1, <3>2, <3>12, AnsweredStep
  <2> QED
    BY <2>3, <2>4, <2>5
<1> QED
  BY <1>2, <1>3

\* Every step keeps the inductive invariant and is promised.
LEMMA NextState ==
  ASSUME HeapState, [Next]_vars PROVE HeapState' /\ Promised
<1>1. ASSUME NEW size \in Sizes, KMalloc(size) PROVE HeapState' /\ Promised
  BY <1>1, KMallocStep, NoWrap
<1>2. ASSUME NEW count \in Counts, NEW size \in Sizes, KCalloc(count, size)
      PROVE  HeapState' /\ Promised
  BY <1>2, KCallocStep
<1>3. ASSUME NEW p \in Pointers, KFree(p) PROVE HeapState' /\ Promised
  BY <1>3, KFreeStep
<1>4. ASSUME NEW p \in Pointers, NEW size \in Sizes, KRealloc(p, size)
      PROVE  HeapState' /\ Promised
  BY <1>4, KReallocStep
<1>5. CASE UNCHANGED vars
  BY <1>5 DEF vars, HeapState, ClientHolds, NoHeap, ListSound, LiveBlocksAllocated, Promised
<1> QED
  BY <1>1, <1>2, <1>3, <1>4, <1>5 DEF Next

\* The inductive invariant holds always.
LEMMA HeapStateAlways == Spec => []HeapState
<1>1. Init => HeapState
  BY InitState
<1>2. HeapState /\ [Next]_vars => HeapState'
  BY NextState
<1> QED
  BY <1>1, <1>2, PTL DEF Spec

\* The inductive invariant accounts for every byte: the payloads and the
\* headers of the list fill the heap up to the end of its last block.
LEMMA HeapStateAccounted == HeapState => HeapAccounted
<1> SUFFICES ASSUME HeapState, HeapFits PROVE HeapAccounted
  BY DEF HeapAccounted
<1>1. g_heap_mapped_end \in Nat /\ HeapEnd(g_heap_mapped_end)
  BY DEF HeapState, HeapEnd
<1>2. PICK C : Sound(blocks, g_heap_mapped_end, C, Null)
  BY DEF HeapState, ListSound
<1>3. PICK last \in C : blocks[last].next = Null
  BY <1>1, <1>2, LastBlock
<1>4. PICK total, headers : /\ total = kmalloc_total(blocks)
                            /\ headers = Cardinality(C) * header_size
  OBVIOUS
<1>5. /\ total \in Nat /\ headers \in Nat
      /\ total + headers = BlockEnd(blocks, last) - g_heap_start
      /\ total = kmalloc_used(blocks) + kmalloc_remaining(blocks)
  BY <1>1, <1>2, <1>3, <1>4, SumsAddUp
<1>6. /\ BlockEnd(blocks, last) \in Nat /\ BlockEnd(blocks, last) <= g_heap_mapped_end
      /\ g_heap_start \in Nat
  BY <1>1, <1>2, <1>3, BlockNumbers
<1>7. \/ BlockEnd(blocks, last) = g_heap_mapped_end
      \/ g_heap_mapped_end >= HEAP_VIRT_LIMIT
  BY <1>2, <1>3 DEF Sound, Linked
<1>8. PICK heap : heap = g_heap_mapped_end - g_heap_start
  OBVIOUS
<1>9. total + headers = heap \/ (total + headers < heap /\ g_heap_mapped_end >= HEAP_VIRT_LIMIT)
  BY <1>1, <1>5, <1>6, <1>7, <1>8
<1>10. Visited(blocks, {}) = C
  BY <1>1, <1>2, WalkSeesAll
<1> QED
  BY <1>4, <1>5, <1>8, <1>9, <1>10 DEF HeapAccounted

-----------------------------------------------------------------------------

(* Neighbouring free blocks across the steps. *)

\* Handing a block to the client changes no pair, and no size.
LEMMA HandedPairs ==
  ASSUME HeapFits, NEW m, NEW C, NEW far \in Nat, NEW r, NEW size, NEW G, NEW D,
         Allotted(m, C, far, r, size, G, D), NEW n, n = Handed(r.blocks, r.ptr)
  PROVE  /\ FreePairs(n) = FreePairs(r.blocks)
         /\ n[r.ptr - header_size].size = r.blocks[r.ptr - header_size].size
<1>1. PICK b, o : b = r.ptr - header_size /\ o = r.blocks
  OBVIOUS
<1>2. Sound(o, far, D, b) /\ b \in InUse(o, D) /\ r.ptr \in Nat
  BY <1>1 DEF Allotted
<1>3. n = Handed(o, b + header_size)
  <2>1. b + header_size = r.ptr
    BY <1>1, <1>2, HeaderSize
  <2> QED
    BY <1>1, <2>1
<1>4. Sound(n, far, D, Null)
  BY <1>2, <1>3, HandedSound
<1>5. D \subseteq DOMAIN n /\ \A a \in DOMAIN n : n[a] = o[a]
  BY <1>3, <1>4, SoundParts DEF Handed
<1>6. FreePairs(n) = Pairs(n, D) /\ FreePairs(o) = Pairs(o, D)
  BY <1>2, <1>4, PairsOfList
<1>7. \A a \in D : o[a].next # Null => o[a].next \in D
  BY <1>2 DEF Sound, Linked
<1>8. Pairs(n, D) = Pairs(o, D)
  BY <1>5, <1>7 DEF Pairs
<1>9. b \in D
  BY <1>2 DEF InUse
<1> QED
  BY <1>1, <1>5, <1>6, <1>8, <1>9

\* The block of a pointer the client holds.
LEMMA HeldBlock ==
  ASSUME HeapState, NEW C, ListSound(C), NEW p \in DOMAIN live, NEW b, b = p - header_size
  PROVE  b \in InUse(blocks, C) /\ blocks[b].size > 0
<1>1. b \in InUse(blocks, C) /\ live[p] <= blocks[b].size /\ live[p] \in Nat \ {0}
  BY LiveInUse DEF HeapState, ClientHolds
<1>2. blocks[b].size \in Nat
  BY <1>1, SoundParts DEF ListSound, InUse
<1> QED
  BY <1>1, <1>2

\* What a step may do to the pairs of neighbouring free blocks.
PairsOrShrunk ==
  \/ Cardinality(FreePairs(blocks)') <= Cardinality(FreePairs(blocks))
  \/ \E p \in DOMAIN live \cap DOMAIN live' :
       LET b == p - header_size IN blocks'[b].size < blocks[b].size

\* A step that leaves the blocks alone.
LEMMA SameBlocks ==
  ASSUME HeapState, blocks' = blocks PROVE PairsOrShrunk
<1>1. Cardinality(FreePairs(blocks)) \in Nat
  <2>1. CASE HeapFits
    BY <2>1, PairsOfList DEF HeapState, HeapEnd, ListSound
  <2>2. CASE ~HeapFits
    <3>1. FreePairs(blocks) = {}
      BY <2>2 DEF HeapState, NoHeap, FreePairs, Visited
    <3> QED
      BY <3>1, FS_EmptySet
  <2> QED
    BY <2>1, <2>2
<1> QED
  BY <1>1 DEF PairsOrShrunk

\* kmalloc, and what the client then does with its block, makes no new pair.
LEMMA KMallocStepPairs ==
  ASSUME HeapState, NEW size \in Nat, Representable(size), KMalloc(size)
  PROVE  PairsOrShrunk
<1>1. PICK r : r = kmalloc(blocks, g_heap_mapped_end, size)
  OBVIOUS
<1>2. /\ r.ptr = Null => blocks' = r.blocks
      /\ r.ptr # Null => blocks' = Handed(r.blocks, r.ptr)
  BY <1>1 DEF KMalloc, Return
<1>3. CASE ~HeapFits
  <2>1. r = Result(blocks, Null, 0)
    BY <1>1, <1>3 DEF kmalloc, g_heap_head
  <2> QED
    BY <1>2, <2>1, SameBlocks DEF Result
<1>4. CASE HeapFits
  <2>1. PICK C : Sound(blocks, g_heap_mapped_end, C, Null)
    BY <1>4 DEF HeapState, ListSound
  <2>2. HeapEnd(g_heap_mapped_end) /\ Fitting(size)
    BY <1>4, RepresentableFits DEF HeapState
  <2>3. PICK far : far = g_heap_mapped_end + r.pages * PAGE_SIZE
    OBVIOUS
  <2>4. /\ HeapEnd(far)
        /\ r.ptr # Null => \E D : Allotted(blocks, C, far, r, size, {}, D)
    BY <1>1, <1>4, <2>1, <2>2, <2>3, KMallocSound
  <2>5. NoMorePairs(blocks, r.blocks)
    BY <1>1, <1>4, <2>1, <2>2, KMallocPairs
  <2>6. FreePairs(blocks') = FreePairs(r.blocks)
    <3>1. far \in Nat
      BY <2>4 DEF HeapEnd
    <3> QED
      BY <1>2, <1>4, <2>4, <3>1, HandedPairs
  <2> QED
    BY <2>5, <2>6 DEF NoMorePairs, PairsOrShrunk
<1> QED
  BY <1>3, <1>4

\* kfree makes no new pair, of whatever pointer it is called.
LEMMA KFreeStepPairs ==
  ASSUME HeapState, NEW p \in Pointers, KFree(p)
  PROVE  PairsOrShrunk
<1>1. p \in Nat
  BY DEF Pointers, HeapState, ClientHolds, Null
<1>2. blocks' = kfree(blocks, g_heap_mapped_end, p)
  BY DEF KFree
<1>3. CASE p \notin DOMAIN live
  <2>1. p - header_size \in DOMAIN blocks => blocks[p - header_size].free
    BY <1>1, <1>3, NotHeld
  <2> QED
    BY <1>2, <2>1, PtrRejected, SameBlocks
<1>4. CASE p \in DOMAIN live
  <2>1. HeapFits
    BY <1>4 DEF HeapState, NoHeap
  <2>2. PICK C, b : ListSound(C) /\ b = p - header_size
    BY <2>1 DEF HeapState
  <2>3. p = b + header_size
    BY <1>1, <2>2, HeaderSize
  <2>4. b \in InUse(blocks, C) /\ blocks[b].size > 0
    BY <1>4, <2>2, HeldBlock
  <2>5. g_heap_mapped_end \in Nat /\ Sound(blocks, g_heap_mapped_end, C, Null)
    BY <2>1, <2>2 DEF HeapState, HeapEnd, ListSound
  <2>6. NoMorePairs(blocks, blocks')
    BY <1>2, <2>1, <2>3, <2>4, <2>5, KFreePairs
  <2> QED
    BY <2>6 DEF NoMorePairs, PairsOrShrunk
<1> QED
  BY <1>3, <1>4

\* krealloc makes a new pair only where it gives part of its block back.
LEMMA KReallocStepPairs ==
  ASSUME HeapState, NEW p \in Pointers, NEW size \in Sizes, KRealloc(p, size)
  PROVE  PairsOrShrunk
<1>1. p \in Nat /\ size \in Nat /\ Representable(size)
  BY NoWrap DEF Pointers, HeapState, ClientHolds, Null
<1>2. CASE p # Null /\ size = 0
  BY <1>2, KFreeStepPairs DEF KRealloc
<1>3. CASE ~(p # Null /\ size = 0)
  <2>1. PICK r : r = krealloc(blocks, g_heap_mapped_end, p, size)
    OBVIOUS
  <2>2. Return(r, size, p)
    BY <1>3, <2>1 DEF KRealloc
  <2>3. CASE p = Null
    <3>1. KMalloc(size)
      BY <2>1, <2>2, <2>3 DEF krealloc, KMalloc
    <3> QED
      BY <1>1, <3>1, KMallocStepPairs
  <2>4. CASE p # Null /\ p \notin DOMAIN live
    <3>1. p - header_size \in DOMAIN blocks => blocks[p - header_size].free
      BY <1>1, <2>4, NotHeld
    <3>2. r = Result(blocks, Null, 0)
      BY <2>1, <2>4, <3>1, KReallocRejected
    <3>3. blocks' = blocks
      BY <2>2, <3>2 DEF Return, Result
    <3> QED
      BY <3>3, SameBlocks
  <2>5. CASE p # Null /\ p \in DOMAIN live
    <3>1. HeapFits
      BY <2>5 DEF HeapState, NoHeap
    <3>2. PICK C, b : ListSound(C) /\ b = p - header_size
      BY <3>1 DEF HeapState
    <3>3. p = b + header_size
      BY <1>1, <3>2, HeaderSize
    <3>4. b \in InUse(blocks, C) /\ blocks[b].size > 0
      BY <2>5, <3>2, HeldBlock
    <3>5. HeapEnd(g_heap_mapped_end) /\ Sound(blocks, g_heap_mapped_end, C, Null)
      BY <3>1, <3>2 DEF HeapState, ListSound
    <3>6. PICK far : far = g_heap_mapped_end + r.pages * PAGE_SIZE
      OBVIOUS
    <3>7. size > 0
      BY <1>1, <1>3, <2>5
    <3>8. /\ HeapEnd(far)
          /\ r.ptr # Null => \E D : Allotted(blocks, C, far, r, size, {b}, D)
      BY <1>1, <2>1, <3>1, <3>3, <3>4, <3>5, <3>6, <3>7, KReallocSound
    <3>9. \/ NoMorePairs(blocks, r.blocks)
          \/ r.ptr = p /\ r.blocks[b].size < blocks[b].size
      BY <1>1, <2>1, <3>1, <3>3, <3>4, <3>5, <3>7, KReallocPairs
    <3>10. /\ r.ptr = Null => blocks' = r.blocks
           /\ r.ptr # Null => blocks' = Handed(r.blocks, r.ptr) /\ r.ptr \in DOMAIN live'
      BY <2>2 DEF Return
    <3>11. /\ FreePairs(blocks') = FreePairs(r.blocks)
           /\ r.ptr # Null =>
                blocks'[r.ptr - header_size].size = r.blocks[r.ptr - header_size].size
      <4>1. far \in Nat
        BY <3>8 DEF HeapEnd
      <4> QED
        BY <3>1, <3>8, <3>10, <4>1, HandedPairs
    <3>12. CASE NoMorePairs(blocks, r.blocks)
      BY <3>11, <3>12 DEF NoMorePairs, PairsOrShrunk
    <3>13. CASE r.ptr = p /\ r.blocks[b].size < blocks[b].size
      <4>1. p \in DOMAIN live \cap DOMAIN live' /\ blocks'[b].size < blocks[b].size
        BY <2>5, <3>2, <3>10, <3>11, <3>13
      <4> QED
        BY <3>2, <4>1 DEF PairsOrShrunk
    <3> QED
      BY <3>9, <3>12, <3>13
  <2> QED
    BY <2>3, <2>4, <2>5
<1> QED
  BY <1>2, <1>3

\* No step of the heap does anything else to the pairs.
LEMMA NextPairs == HeapState /\ [Next]_vars => [PairsOrShrunk]_vars
<1> SUFFICES ASSUME HeapState, Next PROVE PairsOrShrunk
  OBVIOUS
<1>1. ASSUME NEW size \in Sizes, KMalloc(size) PROVE PairsOrShrunk
  BY <1>1, KMallocStepPairs, NoWrap
<1>2. ASSUME NEW count \in Counts, NEW size \in Sizes, KCalloc(count, size)
      PROVE  PairsOrShrunk
  <2>1. CASE UNCHANGED vars
    BY <2>1, SameBlocks DEF vars
  <2>2. CASE ~(count = 0 \/ size = 0 \/ count * size > WORD - 1)
    <3>1. PICK product : product = count * size
      OBVIOUS
    <3>2. product \in Nat /\ ~(product > WORD - 1) /\ KMalloc(product)
      BY <1>2, <2>2, <3>1 DEF KCalloc
    <3>3. Representable(product)
      BY <3>1, <3>2, NoWrap
    <3> QED
      BY <3>2, <3>3, KMallocStepPairs
  <2> QED
    BY <1>2, <2>1, <2>2 DEF KCalloc
<1>3. ASSUME NEW p \in Pointers, KFree(p) PROVE PairsOrShrunk
  BY <1>3, KFreeStepPairs
<1>4. ASSUME NEW p \in Pointers, NEW size \in Sizes, KRealloc(p, size)
      PROVE  PairsOrShrunk
  BY <1>4, KReallocStepPairs
<1> QED
  BY <1>1, <1>2, <1>3, <1>4 DEF Next

-----------------------------------------------------------------------------

(* The pages of the heap. *)

\* The highest element of a set of numbers, and what the loop of
\* extend_heap_to_fit does in its turn i.
Highest(s) == CHOOSE i \in s : \A j \in s : j <= i
MapTurn(t, from, to, i) == map_page(t, from + i, to + i, {"RW"})

\* The equation of the fold that maps n pages.
PagesFolded(t, from, to, n, g) ==
  g = [s \in SUBSET (0 .. n - 1) |->
         IF s = {} THEN t
         ELSE MapTurn(g[s \ {Highest(s)}], from, to, Highest(s))]

\* The equation has a solution: one for n pages makes one for n + 1.
LEMMA PagesFold ==
  ASSUME NEW t, NEW from, NEW to, NEW n \in Nat
  PROVE  \E g : PagesFolded(t, from, to, n, g)
<1> DEFINE Bad == {k \in Nat : ~ \E g : PagesFolded(t, from, to, k, g)}
<1> SUFFICES ASSUME Bad # {} PROVE FALSE
  OBVIOUS
<1>1. PICK k \in Bad : \A j \in Bad : k <= j
  BY LeastElement
<1>2. CASE k = 0
  <2>1. PICK g : g = [s \in SUBSET (0 .. k - 1) |-> t]
    OBVIOUS
  <2>2. SUBSET (0 .. k - 1) = {{}}
    BY <1>2
  <2>3. PagesFolded(t, from, to, k, g)
    BY <2>1, <2>2 DEF PagesFolded
  <2> QED
    BY <1>1, <2>3
<1>3. CASE k # 0
  <2>1. k \in Nat /\ k - 1 \in Nat /\ k - 1 < k
    BY <1>1, <1>3
  <2>2. k - 1 \notin Bad
    BY <1>1, <2>1
  <2>3. PICK g : PagesFolded(t, from, to, k - 1, g)
    BY <2>1, <2>2
  <2>4. PICK last : last = k - 1
    OBVIOUS
  <2>5. PICK h : h = [s \in SUBSET (0 .. k - 1) |->
                        IF last \in s THEN MapTurn(g[s \ {last}], from, to, last)
                                      ELSE g[s]]
    OBVIOUS
  <2>6. ASSUME NEW s \in SUBSET (0 .. k - 1), last \notin s
        PROVE  /\ s \in SUBSET (0 .. (k - 1) - 1) /\ h[s] = g[s]
               /\ g[s] = IF s = {} THEN t
                         ELSE MapTurn(g[s \ {Highest(s)}], from, to, Highest(s))
    <3>1. h[s] = g[s]
      BY <2>5, <2>6
    <3>2. s \in SUBSET (0 .. (k - 1) - 1)
      BY <2>1, <2>4, <2>6
    <3> QED
      BY <2>3, <3>1, <3>2 DEF PagesFolded
  <2>7. ASSUME NEW s \in SUBSET (0 .. k - 1)
        PROVE  h[s] = IF s = {} THEN t
                      ELSE MapTurn(h[s \ {Highest(s)}], from, to, Highest(s))
    <3>1. CASE last \in s
      <4>1. Highest(s) = last
        <5>1. \A j \in s : j <= last
          BY <2>1, <2>4
        <5>2. \A i \in s : (\A j \in s : j <= i) => i = last
          BY <2>1, <2>4, <3>1, <5>1
        <5> QED
          BY <3>1, <5>1, <5>2 DEF Highest
      <4>2. h[s \ {last}] = g[s \ {last}]
        BY <2>6
      <4>3. h[s] = MapTurn(g[s \ {last}], from, to, last)
        BY <2>5, <3>1
      <4> QED
        BY <3>1, <4>1, <4>2, <4>3
    <3>2. CASE last \notin s
      <4>1. h[s \ {Highest(s)}] = g[s \ {Highest(s)}]
        BY <2>6, <3>2
      <4> QED
        BY <2>6, <3>2, <4>1
    <3> QED
      BY <3>1, <3>2
  <2>8. h = [s \in SUBSET (0 .. k - 1) |-> h[s]]
    BY <2>5
  <2>9. PagesFolded(t, from, to, k, h)
    BY <2>7, <2>8 DEF PagesFolded
  <2> QED
    BY <1>1, <2>9
<1> QED
  BY <1>2, <1>3

\* The tables after each turn of the loop.
LEMMA PagesInTurn ==
  ASSUME NEW t, NEW end, NEW phys, NEW n \in Nat
  PROVE  \E after : /\ after[0] = t
                    /\ \A i \in 0 .. n - 1 :
                         after[i + 1] = MapTurn(after[i], Page(end), Page(phys), i)
                    /\ after[n] = MapHeapPages(t, end, phys, n)
<1>1. PICK from, to : from = Page(end) /\ to = Page(phys)
  OBVIOUS
<1> DEFINE g == CHOOSE h : PagesFolded(t, from, to, n, h)
<1>2. PagesFolded(t, from, to, n, g)
  BY PagesFold
<1>3. MapHeapPages(t, end, phys, n) = g[0 .. n - 1]
  BY <1>1 DEF MapHeapPages, MapThenFoldSet, PagesFolded, MapTurn, Highest
<1> HIDE DEF g
<1>4. PICK after : after = [i \in 0 .. n |-> g[0 .. i - 1]]
  OBVIOUS
<1>5. \A s \in SUBSET (0 .. n - 1) :
        g[s] = IF s = {} THEN t
               ELSE MapTurn(g[s \ {Highest(s)}], from, to, Highest(s))
  BY <1>2 DEF PagesFolded
<1>6. after[0] = t
  <2>1. 0 .. 0 - 1 = {} /\ 0 \in 0 .. n
    OBVIOUS
  <2> QED
    BY <1>4, <1>5, <2>1
<1>7. ASSUME NEW i \in 0 .. n - 1
      PROVE  after[i + 1] = MapTurn(after[i], from, to, i)
  <2>1. i \in Nat /\ i \in 0 .. n /\ i + 1 \in 0 .. n /\ (i + 1) - 1 = i
    OBVIOUS
  <2>2. PICK s : s = 0 .. i
    OBVIOUS
  <2>3. s \in SUBSET (0 .. n - 1) /\ i \in s /\ s \ {i} = 0 .. i - 1
    BY <2>1, <2>2
  <2>4. Highest(s) = i
    <3>1. \A j \in s : j <= i
      BY <2>1, <2>2
    <3>2. \A k \in s : (\A j \in s : j <= k) => k = i
      BY <2>1, <2>2, <3>1
    <3> QED
      BY <2>3, <3>1, <3>2 DEF Highest
  <2>5. g[s] = MapTurn(g[0 .. i - 1], from, to, i)
    BY <1>5, <2>3, <2>4
  <2>6. after[i + 1] = g[s] /\ after[i] = g[0 .. i - 1]
    BY <1>4, <2>1, <2>2
  <2> QED
    BY <2>5, <2>6
<1>8. after[n] = MapHeapPages(t, end, phys, n)
  BY <1>3, <1>4
<1> QED
  BY <1>1, <1>6, <1>7, <1>8

\* The first n pages are mapped one to one and writable, through the tables of
\* as many directory entries as that takes.
MappedTo(t, n) ==
  /\ t \in PageTables /\ NotShared(t) /\ AllOwned(t)
  /\ Present(t) = 0 .. (n - 1) \div PAGE_ENTRIES
  /\ \A p \in 0 .. n - 1 : /\ Walk(t, p).present
                           /\ "RW" \in Walk(t, p).flags
                           /\ Walk(t, p).frame = p

\* The directory entries of the first n pages and of the page behind them.
LEMMA DirectoryGrows ==
  ASSUME NEW n \in Nat \ {0}, n < PAGE_TABLE_POOL_COUNT * PAGE_ENTRIES
  PROVE  /\ n \in PageNumbers /\ DirIndex(n) \in Nat
         /\ DirIndex(n) = ((n + 1) - 1) \div PAGE_ENTRIES
         /\ (n - 1) \div PAGE_ENTRIES \in Nat
         /\ (0 .. (n - 1) \div PAGE_ENTRIES) \cup {DirIndex(n)} = 0 .. DirIndex(n)
         /\ DirIndex(n) \notin 0 .. (n - 1) \div PAGE_ENTRIES =>
              (n - 1) \div PAGE_ENTRIES + 1 < PAGE_TABLE_POOL_COUNT
<1>1. n \in PageNumbers
  <2>1. PAGE_TABLE_POOL_COUNT * PAGE_ENTRIES <= PAGE_ENTRIES * PAGE_ENTRIES
    BY HeapTables
  <2>2. PICK a, b : a = PAGE_TABLE_POOL_COUNT * PAGE_ENTRIES /\ b = PAGE_ENTRIES * PAGE_ENTRIES
    OBVIOUS
  <2>3. a \in Nat /\ b \in Nat
    BY <2>2
  <2>4. n \in 0 .. b - 1
    BY <2>1, <2>2, <2>3
  <2> QED
    BY <2>2, <2>4 DEF PageNumbers
<1>2. DirIndex(n) = n \div PAGE_ENTRIES
  BY <1>1, PageSplit DEF PageNumbers
<1>3. PICK q, r : /\ q = (n - 1) \div PAGE_ENTRIES /\ r = (n - 1) % PAGE_ENTRIES
  OBVIOUS
<1>4. q \in Nat /\ r \in 0 .. PAGE_ENTRIES - 1 /\ n - 1 = q * PAGE_ENTRIES + r
  <2>1. n - 1 \in Nat
    OBVIOUS
  <2> QED
    BY <1>3, <2>1
<1>5. n \div PAGE_ENTRIES = IF r = PAGE_ENTRIES - 1 THEN q + 1 ELSE q
  <2>1. CASE r = PAGE_ENTRIES - 1
    <3>1. (q + 1) * PAGE_ENTRIES = q * PAGE_ENTRIES + PAGE_ENTRIES
      BY <1>4
    <3>2. n = (q + 1) * PAGE_ENTRIES + 0
      BY <1>4, <2>1, <3>1
    <3>3. q + 1 \in Nat /\ 0 < PAGE_ENTRIES
      BY <1>4
    <3> QED
      BY <2>1, <3>2, <3>3, DivModUnique
  <2>2. CASE r # PAGE_ENTRIES - 1
    <3>1. PICK d : d = r + 1
      OBVIOUS
    <3>2. n = q * PAGE_ENTRIES + d /\ d \in Nat /\ d < PAGE_ENTRIES
      <4>1. q * PAGE_ENTRIES \in Nat
        BY <1>4
      <4> QED
        BY <1>4, <2>2, <3>1, <4>1
    <3> QED
      BY <1>4, <2>2, <3>2, DivModUnique
  <2> QED
    BY <2>1, <2>2
<1>6. r = PAGE_ENTRIES - 1 => q + 1 < PAGE_TABLE_POOL_COUNT
  <2> SUFFICES ASSUME r = PAGE_ENTRIES - 1, q + 1 >= PAGE_TABLE_POOL_COUNT PROVE FALSE
    BY <1>4
  <2>1. (q + 1) * PAGE_ENTRIES = q * PAGE_ENTRIES + PAGE_ENTRIES
    BY <1>4
  <2>2. n = (q + 1) * PAGE_ENTRIES
    BY <1>4, <2>1
  <2>3. (q + 1) * PAGE_ENTRIES >= PAGE_TABLE_POOL_COUNT * PAGE_ENTRIES
    BY <1>4
  <2> QED
    BY <2>2, <2>3
<1>7. PICK d : d = n \div PAGE_ENTRIES
  OBVIOUS
<1>8. /\ d \in Nat /\ (0 .. q) \cup {d} = 0 .. d
      /\ d \notin 0 .. q => q + 1 < PAGE_TABLE_POOL_COUNT
  BY <1>4, <1>5, <1>6, <1>7
<1>9. (n + 1) - 1 = n
  OBVIOUS
<1> QED
  BY <1>1, <1>2, <1>3, <1>4, <1>7, <1>8, <1>9

\* One turn of the loop maps the page behind them.
LEMMA NextPageMapped ==
  ASSUME NEW n \in Nat \ {0}, n < PAGE_TABLE_POOL_COUNT * PAGE_ENTRIES,
         NEW t, MappedTo(t, n), NEW w, w = map_page(t, n, n, {"RW"})
  PROVE  MappedTo(w, n + 1)
<1>1. PICK q, d : q = (n - 1) \div PAGE_ENTRIES /\ d = DirIndex(n)
  OBVIOUS
<1>2. /\ n \in PageNumbers /\ d \in Nat /\ d = ((n + 1) - 1) \div PAGE_ENTRIES
      /\ q \in Nat /\ (0 .. q) \cup {d} = 0 .. d
      /\ d \notin 0 .. q => q + 1 < PAGE_TABLE_POOL_COUNT
  BY <1>1, DirectoryGrows
<1>3. /\ t \in PageTables /\ NotShared(t) /\ AllOwned(t)
      /\ Present(t) = 0 .. q
      /\ n \in Frames /\ {"RW"} \in SUBSET Flags
  BY <1>1 DEF MappedTo, Frames, Flags
<1>4. IsFiniteSet(Present(t)) /\ Cardinality(Present(t)) = q + 1
  <2>1. /\ IsFiniteSet(0 .. q)
        /\ Cardinality(0 .. q) = IF 0 > q THEN 0 ELSE q - 0 + 1
    BY <1>2, FS_Interval
  <2> QED
    BY <1>2, <1>3, <2>1
<1>5. d \in Present(t) \/ Cardinality(Present(t)) < PAGE_TABLE_POOL_COUNT
  BY <1>2, <1>3, <1>4
<1>6. Mapped(t, map_page(t, n, n, {"RW"}), n, n, {"RW"})
  BY <1>1, <1>2, <1>3, <1>4, <1>5, PageMappedSurely
<1>7. /\ w \in PageTables /\ NotShared(w) /\ AllOwned(w)
      /\ Present(w) = Present(t) \cup {d}
      /\ \A p \in PageNumbers :
           Walk(w, p) = IF p = n
                        THEN [present |-> TRUE, frame |-> n, flags |-> {"RW"}]
                        ELSE Walk(t, p)
  BY <1>1, <1>6 DEF Mapped
<1>8. ASSUME NEW p \in 0 .. (n + 1) - 1
      PROVE  Walk(w, p).present /\ "RW" \in Walk(w, p).flags /\ Walk(w, p).frame = p
  <2>1. p \in PageNumbers
    <3>1. PICK b : b = PAGE_ENTRIES * PAGE_ENTRIES
      OBVIOUS
    <3>2. b \in Nat /\ n \in 0 .. b - 1
      BY <1>2, <3>1 DEF PageNumbers
    <3> QED
      BY <3>1, <3>2 DEF PageNumbers
  <2>2. CASE p = n
    BY <1>7, <2>1, <2>2
  <2>3. CASE p # n
    <3>1. p \in 0 .. n - 1
      BY <2>3
    <3>2. Walk(w, p) = Walk(t, p)
      BY <1>7, <2>1, <2>3
    <3> QED
      BY <3>1, <3>2 DEF MappedTo
  <2> QED
    BY <2>2, <2>3
<1> QED
  BY <1>2, <1>3, <1>7, <1>8 DEF MappedTo

\* The loop of extend_heap_to_fit maps the next k pages, as long as the heap
\* stays below its limit.
LEMMA PagesGrown ==
  ASSUME NEW n \in Nat \ {0}, NEW k \in Nat, (n + k) * PAGE_SIZE <= HEAP_VIRT_LIMIT,
         NEW t, MappedTo(t, n),
         NEW u, u = MapHeapPages(t, n * PAGE_SIZE, n * PAGE_SIZE, k)
  PROVE  MappedTo(u, n + k)
<1>1. Page(n * PAGE_SIZE) = n
  <2>1. n * PAGE_SIZE = n * PAGE_SIZE + 0
    OBVIOUS
  <2> QED
    BY <2>1, DivModUnique DEF Page
<1>2. PICK after : /\ after[0] = t
                   /\ \A i \in 0 .. k - 1 : after[i + 1] = MapTurn(after[i], n, n, i)
                   /\ after[k] = u
  BY <1>1, PagesInTurn
<1>3. n + k <= PAGE_TABLE_POOL_COUNT * PAGE_ENTRIES
  <2>1. PICK a, b : a = PAGE_TABLE_POOL_COUNT * PAGE_ENTRIES /\ b = n + k
    OBVIOUS
  <2>2. a \in Nat /\ b \in Nat /\ b * PAGE_SIZE <= a * PAGE_SIZE
    BY <2>1, HeapTables
  <2>3. b <= a
    BY <2>2
  <2> QED
    BY <2>1, <2>3
<1> DEFINE Bad == {i \in 0 .. k : ~MappedTo(after[i], n + i)}
<1>4. Bad = {}
  <2> SUFFICES ASSUME Bad # {} PROVE FALSE
    OBVIOUS
  <2>1. Bad \in SUBSET Nat
    OBVIOUS
  <2>2. PICK i \in Bad : \A j \in Bad : i <= j
    <3> HIDE DEF Bad
    <3> QED
      BY <2>1, LeastElement
  <2>3. i \in 0 .. k /\ ~MappedTo(after[i], n + i)
    BY <2>2
  <2>4. i # 0
    BY <1>2, <2>3
  <2>5. PICK j, p : j = i - 1 /\ p = n + j
    OBVIOUS
  <2>6. /\ j \in 0 .. k - 1 /\ j + 1 = i /\ j \in 0 .. k
        /\ p \in Nat \ {0} /\ p + 1 = n + i
    BY <2>3, <2>4, <2>5
  <2>7. MappedTo(after[j], p)
    BY <2>2, <2>5, <2>6
  <2>8. after[i] = map_page(after[j], p, p, {"RW"})
    BY <1>2, <2>5, <2>6 DEF MapTurn
  <2>9. p < PAGE_TABLE_POOL_COUNT * PAGE_ENTRIES
    <3>1. PICK a : a = PAGE_TABLE_POOL_COUNT * PAGE_ENTRIES
      OBVIOUS
    <3>2. a \in Nat /\ n + k <= a
      BY <1>3, <3>1
    <3> QED
      BY <2>5, <2>6, <3>1, <3>2
  <2>10. MappedTo(after[i], p + 1)
    BY <2>6, <2>7, <2>8, <2>9, NextPageMapped
  <2> QED
    BY <2>3, <2>6, <2>10
<1>5. MappedTo(after[k], n + k)
  BY <1>4
<1> QED
  BY <1>2, <1>5

-----------------------------------------------------------------------------

\* The inductive invariant of the pages.
PagesState ==
  HeapFits => /\ g_next_free_phys = g_heap_mapped_end
              /\ \E n \in Nat \ {0} : /\ g_heap_mapped_end = n * PAGE_SIZE
                                      /\ MappedTo(vm, n)

\* What a step does to the pages: some are added at the end, or none.
PagesAdded ==
  \E k \in Nat :
    /\ g_heap_mapped_end' = g_heap_mapped_end + k * PAGE_SIZE
    /\ g_next_free_phys' = g_next_free_phys + k * PAGE_SIZE
    /\ vm' = MapHeapPages(vm, g_heap_mapped_end, g_next_free_phys, k)

\* The identity map paging_init makes is that of the first pages.
LEMMA InitPages == Init => PagesState
<1> SUFFICES ASSUME Init, HeapFits
             PROVE  /\ g_next_free_phys = g_heap_mapped_end
                    /\ \E n \in Nat \ {0} : /\ g_heap_mapped_end = n * PAGE_SIZE
                                            /\ MappedTo(vm, n)
  BY DEF PagesState
<1>1. PICK n : n = IDENTITY_MAP_LIMIT \div PAGE_SIZE
  OBVIOUS
<1>2. n \in Nat /\ IDENTITY_MAP_LIMIT = n * PAGE_SIZE
  <2>1. /\ IDENTITY_MAP_LIMIT \div PAGE_SIZE \in Nat
        /\ IDENTITY_MAP_LIMIT = (IDENTITY_MAP_LIMIT \div PAGE_SIZE) * PAGE_SIZE
                                  + (IDENTITY_MAP_LIMIT % PAGE_SIZE)
    OBVIOUS
  <2>2. n * PAGE_SIZE \in Nat
    BY <1>1, <2>1
  <2> QED
    BY <1>1, <2>1, <2>2, HeapLimits
<1>3. n # 0
  <2>1. 0 < IDENTITY_MAP_LIMIT
    <3>1. /\ g_heap_start \in Nat /\ header_size \in Nat /\ min_split_payload \in Nat
      BY HeapStart, HeaderSize DEF min_split_payload
    <3> QED
      BY <3>1 DEF HeapFits
  <2> QED
    BY <1>2, <2>1
<1>4. n <= PAGE_ENTRIES
  BY <1>2, HeapTables
<1>5. (n - 1) \div PAGE_ENTRIES = 0
  <2>1. n - 1 \in Nat /\ n - 1 < PAGE_ENTRIES
    BY <1>2, <1>3, <1>4
  <2> QED
    BY <2>1
<1>6. vm = paging_init
  BY DEF Init
<1>7. MappedTo(vm, n)
  <2>1. vm \in PageTables /\ NotShared(vm) /\ AllOwned(vm) /\ Present(vm) = {0}
    BY <1>6, InitialTables, InitialRegion
  <2>2. 0 .. (n - 1) \div PAGE_ENTRIES = {0}
    BY <1>5
  <2>3. ASSUME NEW p \in 0 .. n - 1
        PROVE  Walk(vm, p).present /\ "RW" \in Walk(vm, p).flags /\ Walk(vm, p).frame = p
    <3>1. p \in Indices
      BY <1>2, <1>4 DEF Indices
    <3>2. Walk(vm, p) = [present |-> TRUE, frame |-> p, flags |-> {"RW", "USER"}]
      BY <1>6, <3>1, InitialRegion
    <3> QED
      BY <3>2
  <2> QED
    BY <2>1, <2>2, <2>3 DEF MappedTo
<1>8. g_next_free_phys = IDENTITY_MAP_LIMIT
  <2>1. align_up(IDENTITY_MAP_LIMIT, PAGE_SIZE) = IDENTITY_MAP_LIMIT
    BY HeapLimits, HeaderSize, AlignUpAgain
  <2> QED
    BY <2>1 DEF Init
<1>9. g_heap_mapped_end = IDENTITY_MAP_LIMIT
  BY DEF Init
<1> QED
  BY <1>2, <1>3, <1>7, <1>8, <1>9

\* Adding pages below the limit keeps it.
LEMMA AddedPages ==
  ASSUME HeapState, HeapState', PagesState, PagesAdded PROVE PagesState'
<1> SUFFICES ASSUME HeapFits
             PROVE  /\ g_next_free_phys' = g_heap_mapped_end'
                    /\ \E n \in Nat \ {0} : /\ g_heap_mapped_end' = n * PAGE_SIZE
                                            /\ MappedTo(vm', n)
  BY DEF PagesState, HeapFits, g_heap_start, header_size, min_split_payload
<1>1. PICK k \in Nat :
        /\ g_heap_mapped_end' = g_heap_mapped_end + k * PAGE_SIZE
        /\ g_next_free_phys' = g_next_free_phys + k * PAGE_SIZE
        /\ vm' = MapHeapPages(vm, g_heap_mapped_end, g_next_free_phys, k)
  BY DEF PagesAdded
<1>2. PICK n \in Nat \ {0} : g_heap_mapped_end = n * PAGE_SIZE /\ MappedTo(vm, n)
  BY DEF PagesState
<1>3. g_next_free_phys = n * PAGE_SIZE
  BY <1>2 DEF PagesState
<1>4. n + k \in Nat \ {0} /\ (n + k) * PAGE_SIZE = n * PAGE_SIZE + k * PAGE_SIZE
  OBVIOUS
<1>5. HeapEnd(g_heap_mapped_end')
  BY DEF HeapState, HeapFits, g_heap_start, header_size, min_split_payload
<1>6. (n + k) * PAGE_SIZE <= HEAP_VIRT_LIMIT
  BY <1>1, <1>2, <1>4, <1>5 DEF HeapEnd
<1>7. MappedTo(vm', n + k)
  BY <1>1, <1>2, <1>3, <1>6, PagesGrown
<1> QED
  BY <1>1, <1>2, <1>3, <1>4, <1>7

\* kmalloc and kcalloc add pages at the end of the heap, or none.
LEMMA KMallocPages ==
  ASSUME HeapState, NEW size \in Nat, Representable(size), KMalloc(size)
  PROVE  PagesAdded
<1>1. PICK r : r = kmalloc(blocks, g_heap_mapped_end, size)
  OBVIOUS
<1>2. r.pages \in Nat
  <2>1. CASE ~HeapFits
    <3>1. r = Result(blocks, Null, 0)
      BY <1>1, <2>1 DEF kmalloc, g_heap_head
    <3> QED
      BY <3>1 DEF Result
  <2>2. CASE HeapFits
    <3>1. PICK C : Sound(blocks, g_heap_mapped_end, C, Null)
      BY <2>2 DEF HeapState, ListSound
    <3>2. HeapEnd(g_heap_mapped_end) /\ Fitting(size)
      BY <2>2, RepresentableFits DEF HeapState
    <3> QED
      BY <1>1, <2>2, <3>1, <3>2, KMallocSound
  <2> QED
    BY <2>1, <2>2
<1>3. Return(r, size, Null)
  BY <1>1 DEF KMalloc
<1> QED
  BY <1>2, <1>3 DEF Return, PagesAdded

\* A step that leaves the end of the heap and the tables alone adds none.
LEMMA NoPages ==
  ASSUME HeapState, UNCHANGED <<g_heap_mapped_end, g_next_free_phys, vm>>
  PROVE  PagesAdded
<1>1. g_heap_mapped_end \in Nat /\ g_next_free_phys \in Nat
  BY DEF HeapState, HeapEnd, NoHeap
<1>2. MapHeapPages(vm, g_heap_mapped_end, g_next_free_phys, 0) = vm
  BY PagesInTurn
<1>3. /\ g_heap_mapped_end' = g_heap_mapped_end + 0 * PAGE_SIZE
      /\ g_next_free_phys' = g_next_free_phys + 0 * PAGE_SIZE
  BY <1>1
<1> QED
  BY <1>2, <1>3 DEF PagesAdded

\* So does krealloc.
LEMMA KReallocPages ==
  ASSUME HeapState, NEW p \in Pointers, NEW size \in Sizes, KRealloc(p, size)
  PROVE  PagesAdded
<1>1. p \in Nat /\ size \in Nat /\ Representable(size)
  BY NoWrap DEF Pointers, HeapState, ClientHolds, Null
<1>2. CASE p # Null /\ size = 0
  BY <1>2, NoPages DEF KRealloc, KFree
<1>3. CASE ~(p # Null /\ size = 0)
  <2>1. PICK r : r = krealloc(blocks, g_heap_mapped_end, p, size)
    OBVIOUS
  <2>2. Return(r, size, p)
    BY <1>3, <2>1 DEF KRealloc
  <2>3. CASE p = Null
    <3>1. KMalloc(size)
      BY <2>1, <2>2, <2>3 DEF krealloc, KMalloc
    <3> QED
      BY <1>1, <3>1, KMallocPages
  <2>4. CASE p # Null /\ p \notin DOMAIN live
    <3>1. p - header_size \in DOMAIN blocks => blocks[p - header_size].free
      BY <1>1, <2>4, NotHeld
    <3>2. r = Result(blocks, Null, 0)
      BY <2>1, <2>4, <3>1, KReallocRejected
    <3>3. r.pages \in Nat
      BY <3>2 DEF Result
    <3> QED
      BY <2>2, <3>3 DEF Return, PagesAdded
  <2>5. CASE p # Null /\ p \in DOMAIN live
    <3>1. HeapFits
      BY <2>5 DEF HeapState, NoHeap
    <3>2. PICK C, b : ListSound(C) /\ b = p - header_size
      BY <3>1 DEF HeapState
    <3>3. p = b + header_size
      BY <1>1, <3>2, HeaderSize
    <3>4. b \in InUse(blocks, C) /\ blocks[b].size > 0
      BY <2>5, <3>2, HeldBlock
    <3>5. HeapEnd(g_heap_mapped_end) /\ Sound(blocks, g_heap_mapped_end, C, Null)
      BY <3>1, <3>2 DEF HeapState, ListSound
    <3>6. size > 0
      BY <1>1, <1>3, <2>5
    <3>7. r.pages \in Nat
      BY <1>1, <2>1, <3>1, <3>3, <3>4, <3>5, <3>6, KReallocSound
    <3> QED
      BY <2>2, <3>7 DEF Return, PagesAdded
  <2> QED
    BY <2>3, <2>4, <2>5
<1> QED
  BY <1>2, <1>3

\* No step does anything else to the end of the heap and to its pages.
LEMMA NextPages ==
  ASSUME HeapState, [Next]_vars PROVE PagesAdded
<1>1. ASSUME NEW size \in Sizes, KMalloc(size) PROVE PagesAdded
  BY <1>1, KMallocPages, NoWrap, HeapAssumption
<1>2. ASSUME NEW count \in Counts, NEW size \in Sizes, KCalloc(count, size)
      PROVE  PagesAdded
  <2>1. CASE UNCHANGED vars
    BY <2>1, NoPages DEF vars
  <2>2. CASE ~(count = 0 \/ size = 0 \/ count * size > WORD - 1)
    <3>1. PICK product : product = count * size
      OBVIOUS
    <3>2. product \in Nat /\ ~(product > WORD - 1) /\ KMalloc(product)
      BY <1>2, <2>2, <3>1 DEF KCalloc
    <3>3. Representable(product)
      BY <3>1, <3>2, NoWrap
    <3> QED
      BY <3>2, <3>3, KMallocPages
  <2> QED
    BY <1>2, <2>1, <2>2 DEF KCalloc
<1>3. ASSUME NEW p \in Pointers, KFree(p) PROVE PagesAdded
  BY <1>3, NoPages DEF KFree
<1>4. ASSUME NEW p \in Pointers, NEW size \in Sizes, KRealloc(p, size)
      PROVE  PagesAdded
  BY <1>4, KReallocPages
<1>5. CASE UNCHANGED vars
  BY <1>5, NoPages DEF vars
<1> QED
  BY <1>1, <1>2, <1>3, <1>4, <1>5 DEF Next

\* The pages below the end of the heap are the first n of the invariant.
LEMMA PagesStateMapped == HeapState /\ PagesState => HeapPagesMapped
<1> SUFFICES ASSUME HeapFits, PagesState PROVE HeapPagesMapped
  BY DEF HeapPagesMapped
<1>1. PICK n \in Nat \ {0} : g_heap_mapped_end = n * PAGE_SIZE /\ MappedTo(vm, n)
  BY DEF PagesState
<1>2. Page(g_heap_mapped_end - 1) = n - 1
  <2>1. PICK k : k = n - 1
    OBVIOUS
  <2>2. k \in Nat /\ n = k + 1
    BY <2>1
  <2>3. n * PAGE_SIZE = k * PAGE_SIZE + PAGE_SIZE
    BY <2>2
  <2>4. g_heap_mapped_end - 1 = k * PAGE_SIZE + (PAGE_SIZE - 1)
    <3>1. k * PAGE_SIZE \in Nat
      BY <2>2
    <3> QED
      BY <1>1, <2>3, <3>1
  <2>5. (k * PAGE_SIZE + (PAGE_SIZE - 1)) \div PAGE_SIZE = k
    BY <2>2, DivModUnique
  <2> QED
    BY <2>1, <2>4, <2>5 DEF Page
<1> QED
  BY <1>1, <1>2 DEF HeapPagesMapped, MappedTo

-----------------------------------------------------------------------------

(* Theorems. *)

\* Every header the allocator can follow a link to is readable, its size is
\* never below zero, and the client's books are in order.
THEOREM HeapTypeOK == Spec => []TypeOK
  BY HeapStateAlways, HeapStateType, PTL

\* The block list stays consistent over every sequence of kmalloc, kcalloc,
\* kfree and krealloc, growth and failed growth included: links stay on it and
\* undo each other, blocks neither overlap nor leave gaps, headers off it lie in
\* free blocks, and the blocks in use are those the client holds
\* (split_block, coalesce_with_next and extend_heap_to_fit, memory.cpp:174-274).
THEOREM HeapListConsistent == Spec => []HeapInv
  BY HeapStateAlways, HeapStateSound, PTL

\* Freeing a pointer again, or asking for its size, while its memory has not
\* been handed out changes nothing (memory.cpp:217-219, 357 and 391).
THEOREM DoubleFreeHarmless == Spec => []FreedPointersRejected
  BY HeapStateAlways, HeapStateRejects, PTL

\* The heap keeps an allocator's promises: what it hands out lies in the heap,
\* is not empty and is apart, headers included, from all other memory that is
\* handed out; krealloc takes the new memory before it gives up the old; a call
\* that fails leaves the client what it held.
THEOREM HeapKeepsPromises == Spec => ImplementsAllocator
<1>1. Init => Promise!AllocatorInit
  BY DEF Init, Promise!AllocatorInit
<1>2. HeapState /\ [Next]_vars => [Promise!AllocatorNext]_live
  BY NextState DEF Promised
<1> QED
  BY <1>1, <1>2, HeapStateAlways, PTL DEF Spec, ImplementsAllocator, Promise!AllocatorSpec

\* No byte of the heap is lost: the totals kmalloc_total, kmalloc_used and
\* kmalloc_remaining add up, and with one header for each block they make up
\* the heap, unless it has met its limit (memory.cpp:443-502).
THEOREM NoByteLost == Spec => []HeapAccounted
  BY HeapStateAlways, HeapStateAccounted, PTL

\* Neighbouring free blocks come about only where krealloc gives part of a
\* block back: kfree joins on both sides, and kmalloc takes all or splits off
\* what stays where the free block was (memory.cpp:174-277 and 354-441).
THEOREM FragmentsOnlyByShrinking == Spec => OnlyShrinkingFragments
<1>1. HeapState /\ [Next]_vars => [PairsOrShrunk]_vars
  BY NextPairs
<1> QED
  BY <1>1, HeapStateAlways, PTL DEF Spec, OnlyShrinkingFragments, PairsOrShrunk

\* The heap never counts a page as its own that is not mapped for it alone, to
\* write: map_page, which reports no failure, never finds the pool of tables
\* empty below the heap's limit (memory.cpp:52-112 and 249-257).
THEOREM HeapMemoryMapped == Spec => []HeapPagesMapped
<1>1. HeapState /\ PagesState /\ [Next]_vars => PagesState'
  BY NextState, NextPages, AddedPages
<1> QED
  BY <1>1, HeapStateAlways, InitPages, PagesStateMapped, PTL DEF Spec
=============================================================================
