------------------------------ MODULE MCKeyboard ------------------------------
(* Instances of Keyboard for TLC.                                           *)
EXTENDS Keyboard

Key(code, ext) == [code |-> code, ext |-> ext]

\* Both shift keys, one letter, and the shift code an extended key sends.
MCKeys == {Key(42, FALSE), Key(54, FALSE), Key(30, FALSE), Key(42, TRUE)}
=============================================================================
