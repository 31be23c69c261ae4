------------------------------- MODULE MCPaging -------------------------------
(* Instance of Paging for TLC: three directory entries, two page tables.   *)
EXTENDS Paging

MCPages == {1, 3, 4, 6}
MCFrames == {7, 8}
MCFlags == {{"RW"}, {"RW", "USER"}}
=============================================================================
