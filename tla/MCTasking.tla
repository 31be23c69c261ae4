------------------------------- MODULE MCTasking -------------------------------
(* Instance of Tasking for TLC.                                             *)
EXTENDS Tasking
=============================================================================
