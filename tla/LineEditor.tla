------------------------------ MODULE LineEditor ------------------------------
(***************************************************************************)
(* What the shell promises who types: a line that is edited at its end,    *)
(* holds at most Capacity characters, and is submitted as it stands.       *)
(***************************************************************************)
EXTENDS Naturals, Sequences

CONSTANTS Letters, Capacity

VARIABLES line, submitted

editorVars == <<line, submitted>>

AddLetter(c) ==
  /\ Len(line) < Capacity
  /\ line' = Append(line, c)
  /\ UNCHANGED submitted

RemoveLast ==
  /\ line # << >>
  /\ line' = SubSeq(line, 1, Len(line) - 1)
  /\ UNCHANGED submitted

Submit ==
  /\ submitted' = line
  /\ line' = << >>

EditorInit == line = << >> /\ submitted = << >>

EditorNext == RemoveLast \/ Submit \/ \E c \in Letters : AddLetter(c)

EditorSpec == EditorInit /\ [][EditorNext]_editorVars
=============================================================================
