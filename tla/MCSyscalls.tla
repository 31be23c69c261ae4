------------------------------ MODULE MCSyscalls ------------------------------
(* Instance of Syscalls for TLC.                                            *)
EXTENDS Syscalls
MCArgs == {5, 6}
MCResults == {0, 7}
MCErrorCodes == {0, 2}
=============================================================================
