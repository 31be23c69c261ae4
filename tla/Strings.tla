-------------------------------- MODULE Strings --------------------------------
(***************************************************************************)
(* C strings, src/modules/string/string.cpp: a buffer is a function from   *)
(* its positions to characters, and the string at a position goes up to    *)
(* the next NUL.  Elsewhere a string is the sequence of its characters.    *)
(***************************************************************************)
EXTENDS SequencesExt

NUL == "nul"

\* The least element of a set of numbers.
Least(S) == CHOOSE n \in S : \A m \in S : n <= m

\* Positions from p up to the end of the string there.
UpToEnd(buffer, p) ==
  p .. Least({q \in DOMAIN buffer : q >= p /\ buffer[q] = NUL})

strlen(buffer, p) == Cardinality(UpToEnd(buffer, p)) - 1

StringAt(buffer, p) == [i \in 1 .. strlen(buffer, p) |-> buffer[p + i - 1]]

\* The position of the first space, in a set that is empty for a null pointer.
find_space(buffer, p) ==
  LET spaces == {q \in UpToEnd(buffer, p) : buffer[q] = " "}
  IN  IF spaces = {} THEN {} ELSE {Least(spaces)}

\* strcmp(a, b) == 0: no first difference, the terminating NULs included.
SameString(a, b) ==
  ~ \E i \in 1 .. Len(a) + 1 :
      /\ SubSeq(a, 1, i - 1) = SubSeq(b, 1, i - 1)
      /\ (a \o <<NUL>>)[i] # (b \o <<NUL, NUL>>)[i]

\* The character at position p of a sequence, which ends with a NUL.
CharAt(s, p) == IF p <= Len(s) THEN s[p] ELSE NUL

\* is_space and skip_spaces of calc.cpp.
Blanks == {" ", "tab", "newline", "return"}
skip_spaces(s, p) == Least({q \in p .. Len(s) + 1 : CharAt(s, q) \notin Blanks})
=============================================================================
