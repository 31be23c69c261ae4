------------------------------- MODULE MCCursor -------------------------------
(* Instance of Cursor for TLC: two lines of two cells.                      *)
EXTENDS Cursor
MCPrintable == {"a"}
=============================================================================
