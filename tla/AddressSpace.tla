----------------------------- MODULE AddressSpace -----------------------------
(***************************************************************************)
(* What map_page and unmap_page of memory.cpp promise: one flat map from   *)
(* pages to entries.  Changing a page changes that page and no other.      *)
(* Regions of RegionSize pages share a page table; at most Capacity        *)
(* regions can ever be backed by one and a backed region stays backed.  A  *)
(* page of a region that cannot be backed is silently not mapped, and      *)
(* every other page is.                                                    *)
(*                                                                         *)
(* request, the last call a client made, is part of the interface: a call  *)
(* changes it, so a call that should do something cannot pass for a step   *)
(* that does nothing.                                                      *)
(***************************************************************************)
EXTENDS Naturals, FiniteSets

CONSTANTS Pages, Entries, NotMapped, RegionSize, Capacity

VARIABLES space, backed, request

spaceVars == <<space, backed, request>>

Region(page) == page \div RegionSize

CanBack(page) == Region(page) \in backed \/ Cardinality(backed) < Capacity

Map(page, entry) ==
  /\ CanBack(page)
  /\ backed' = backed \cup {Region(page)}
  /\ space' = [space EXCEPT ![page] = entry]
  /\ request' = <<"map", page, entry>>

\* The client is not told.
Refuse(page, entry) ==
  /\ ~CanBack(page)
  /\ request' = <<"map", page, entry>>
  /\ UNCHANGED <<space, backed>>

Unmap(page) ==
  /\ space' = [space EXCEPT ![page] = NotMapped]
  /\ request' = <<"unmap", page>>
  /\ UNCHANGED backed

SpaceNext ==
  \E page \in Pages :
    \/ \E entry \in Entries : Map(page, entry) \/ Refuse(page, entry)
    \/ Unmap(page)

SpaceInit ==
  /\ backed = {0}
  /\ space \in [Pages -> Entries \cup {NotMapped}]
  /\ request = << >>

SpaceSpec == SpaceInit /\ [][SpaceNext]_spaceVars
=============================================================================
