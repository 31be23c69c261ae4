------------------------------- MODULE Allocator -------------------------------
(***************************************************************************)
(* What kmalloc, kcalloc, krealloc and kfree promise their client: memory  *)
(* handed out lies in the arena, is not empty, and together with the Gap   *)
(* bytes of bookkeeping in front of it is apart from all other memory that *)
(* is handed out.  Moving a block takes the new memory before it gives up  *)
(* the old.  A call that fails changes nothing the client holds.           *)
(***************************************************************************)
EXTENDS Naturals

CONSTANTS ArenaStart, ArenaEnd, Gap

VARIABLE live    \* pointers handed out -> bytes asked for

Apart(p, m, q, n) == p + m <= q - Gap \/ q + n <= p - Gap

Room(p, n, others) ==
  /\ n > 0
  /\ ArenaStart + Gap <= p /\ p + n <= ArenaEnd
  /\ \A q \in others : Apart(p, n, q, live[q])

Alloc(p, n) ==
  /\ p \notin DOMAIN live
  /\ Room(p, n, DOMAIN live)
  /\ live' = [q \in DOMAIN live \cup {p} |-> IF q = p THEN n ELSE live[q]]

Free(p) == live' = [q \in DOMAIN live \ {p} |-> live[q]]

ResizeInPlace(p, n) ==
  /\ p \in DOMAIN live
  /\ Room(p, n, DOMAIN live \ {p})
  /\ live' = [live EXCEPT ![p] = n]

Move(p, to, n) ==
  /\ to \notin DOMAIN live
  /\ Room(to, n, DOMAIN live)
  /\ live' = [q \in (DOMAIN live \ {p}) \cup {to} |->
                IF q = to THEN n ELSE live[q]]

AllocatorInit == live = [p \in {} |-> 0]

\* The allocator chooses the address, the client the size.
AllocatorNext ==
  \/ \E p \in DOMAIN live' : Alloc(p, live'[p]) \/ ResizeInPlace(p, live'[p])
  \/ \E p \in DOMAIN live : Free(p) \/ \E to \in DOMAIN live' : Move(p, to, live'[to])

AllocatorSpec == AllocatorInit /\ [][AllocatorNext]_live
=============================================================================
