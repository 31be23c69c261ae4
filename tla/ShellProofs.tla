------------------------------ MODULE ShellProofs ------------------------------
(***************************************************************************)
(* Proofs about module Shell, for every size of the screen and of the      *)
(* buffer, every keyboard and every set of command names, and about module *)
(* Calc, the calculator that the shell calls, for every width of an int    *)
(* and every line.                                                         *)
(*                                                                         *)
(* Two facts make up the invariant of Shell: what has been typed is        *)
(* letters (Typed), and the prompt and the line stand on the screen behind *)
(* the start of some row (Shown).  That of Calc is which call the outcome  *)
(* is of; what it means is a fact about that call alone.                   *)
(***************************************************************************)
EXTENDS Shell, Calc, SequenceTheorems, FiniteSetTheorems, WellFoundedInduction,
        TLAPS

Row(y) == y * VGA_WIDTH

\* Nothing stands on the screen from the position on.
Clean(s) ==
  s \in Screens /\ \A i \in Cells : i >= Position(s) => s.buffer[i] = Blank

\* Whatever a text may hold that is printed.
Printed == Chars \cup {"backspace", "newline"}

\* A text stands on the screen between the start of row r and the position.
Shown(s, r, text) ==
  /\ Clean(s)
  /\ r \in Nat /\ Position(s) = Row(r) + Len(text)
  /\ \A i \in 1 .. Len(text) : s.buffer[Row(r) + i - 1] = text[i]

-----------------------------------------------------------------------------

(* Numbers. *)

\* Naturals, when there are any, have a least one.
LEMMA LeastElement ==
  ASSUME NEW T \in SUBSET Nat, T # {}
  PROVE  \E x \in T : \A y \in T : x <= y
<1> DEFINE Less == {ss \in Nat \X Nat : ss[1] < ss[2]}
<1>1. IsWellFoundedOn(Less, Nat)
  BY NatLessThanWellFounded DEF OpToRel
<1>2. PICK x \in T : \A y \in T : ~(<<y, x>> \in Less)
  <2> HIDE DEF Less
  <2> QED
    BY <1>1, WFMin
<1>3. ASSUME NEW y \in T PROVE x <= y
  <2>1. ~(<<y, x>> \in Less)
    BY <1>2
  <2>2. y \in Nat /\ x \in Nat
    OBVIOUS
  <2> QED
    BY <2>1, <2>2
<1> QED
  BY <1>3

\* Least finds it.
LEMMA LeastOf ==
  ASSUME NEW T \in SUBSET Nat, T # {}
  PROVE  /\ Least(T) \in T /\ Least(T) \in Nat
         /\ \A q \in Nat : q < Least(T) => q \notin T
<1>1. PICK x : x = Least(T)
  OBVIOUS
<1>2. \E n \in T : \A m \in T : n <= m
  BY LeastElement
<1>3. x \in T /\ \A m \in T : x <= m
  BY <1>1, <1>2 DEF Least
<1>4. x \in Nat /\ \A q \in Nat : q < x => q \notin T
  BY <1>3
<1> QED
  BY <1>1, <1>3, <1>4

-----------------------------------------------------------------------------

(* Rows and cells. *)

\* The screen has cells, and a blank is a character.
LEMMA Sizes ==
  /\ VGA_WIDTH \in Nat /\ VGA_WIDTH > 0 /\ VGA_HEIGHT \in Nat /\ VGA_HEIGHT > 0
  /\ VGA_WIDTH * VGA_HEIGHT \in Nat
  /\ Row(VGA_HEIGHT) = VGA_WIDTH * VGA_HEIGHT
  /\ Blank \in Chars
BY ScreenAssumption DEF Row, Chars

\* A row begins a width after the one before, and rows are in order.
LEMMA Rows ==
  /\ \A y \in Nat : Row(y) \in Nat /\ Row(y + 1) = Row(y) + VGA_WIDTH
  /\ \A y \in Nat : y > 0 => Row(y) = Row(y - 1) + VGA_WIDTH /\ Row(y - 1) \in Nat
  /\ \A y, z \in Nat : y <= z => Row(y) <= Row(z)
  /\ Row(0) = 0
<1>1. VGA_WIDTH \in Nat
  BY Sizes
<1>2. \A y \in Nat : Row(y) \in Nat /\ Row(y + 1) = Row(y) + VGA_WIDTH
  BY <1>1 DEF Row
<1>3. \A y \in Nat : y > 0 => Row(y) = Row(y - 1) + VGA_WIDTH /\ Row(y - 1) \in Nat
  BY <1>1 DEF Row
<1>4. ASSUME NEW y \in Nat, NEW z \in Nat, y <= z PROVE Row(y) <= Row(z)
  <2>1. PICK d \in Nat : z = y + d
    BY <1>4
  <2>2. z * VGA_WIDTH = y * VGA_WIDTH + d * VGA_WIDTH /\ d * VGA_WIDTH \in Nat
    BY <1>1, <2>1
  <2> QED
    BY <1>1, <2>2 DEF Row
<1>5. Row(0) = 0
  BY <1>1 DEF Row
<1> QED
  BY <1>2, <1>3, <1>4, <1>5

\* The start of a row is a multiple of the width.
LEMMA RowStarts ==
  ASSUME NEW r \in Nat PROVE Row(r) \in Nat /\ Row(r) % VGA_WIDTH = 0
<1>1. VGA_WIDTH \in Nat \ {0}
  BY Sizes
<1>2. ASSUME NEW n \in Nat \ {0} PROVE (r * n) % n = 0 /\ r * n \in Nat
  OBVIOUS
<1> QED
  BY <1>1, <1>2 DEF Row

\* The parts of a screen, and that its position is one of its cells.
LEMMA ScreenFields ==
  ASSUME NEW s \in Screens
  PROVE  /\ s.buffer \in [Cells -> Chars] /\ DOMAIN s = {"buffer", "x", "y"}
         /\ s.x \in Nat /\ s.x < VGA_WIDTH /\ s.y \in Nat /\ s.y + 1 <= VGA_HEIGHT
         /\ Position(s) = Row(s.y) + s.x /\ Row(s.y) \in Nat
         /\ Position(s) \in Cells /\ Position(s) \in Nat
<1>1. /\ s.buffer \in [Cells -> Chars] /\ DOMAIN s = {"buffer", "x", "y"}
      /\ s.x \in Nat /\ s.x < VGA_WIDTH /\ s.y \in Nat /\ s.y + 1 <= VGA_HEIGHT
  BY Sizes DEF Screens
<1>2. Position(s) = Row(s.y) + s.x /\ Row(s.y) \in Nat
  BY <1>1, Rows DEF Position, Row
<1>3. Row(s.y + 1) = Row(s.y) + VGA_WIDTH
  BY <1>1, Rows
<1>4. Row(s.y + 1) <= Row(VGA_HEIGHT)
  <2>1. s.y + 1 \in Nat /\ VGA_HEIGHT \in Nat
    BY <1>1, Sizes
  <2> QED
    BY <1>1, <2>1, Rows
<1>5. Position(s) \in Cells /\ Position(s) \in Nat
  BY <1>1, <1>2, <1>3, <1>4, Sizes DEF Cells
<1> QED
  BY <1>1, <1>2, <1>5

-----------------------------------------------------------------------------

(* What a character does to the screen. *)

\* A new line: the screen has moved up by d rows, 0 or 1.
LEMMA Advance ==
  ASSUME NEW s \in Screens, NEW t, t = advance_cursor(s),
         \A i \in Cells : i > Position(s) => s.buffer[i] = Blank
  PROVE  \E d \in {0, 1} :
           /\ d = 1 => Row(s.y + 1) = VGA_WIDTH * VGA_HEIGHT
           /\ s.y + 1 - d \in Nat
           /\ Clean(t) /\ Position(t) = Row(s.y + 1 - d)
           /\ \A i \in Cells : i + Row(d) \in Cells => t.buffer[i] = s.buffer[i + Row(d)]
<1>1. /\ s.buffer \in [Cells -> Chars] /\ DOMAIN s = {"buffer", "x", "y"}
      /\ s.y \in Nat /\ s.y + 1 <= VGA_HEIGHT /\ VGA_HEIGHT \in Nat
      /\ s.x \in Nat /\ s.x < VGA_WIDTH
      /\ Position(s) = Row(s.y) + s.x /\ Row(s.y) \in Nat
      /\ VGA_WIDTH \in Nat /\ VGA_WIDTH > 0
      /\ VGA_WIDTH * VGA_HEIGHT \in Nat /\ VGA_HEIGHT - 1 \in Nat
  BY ScreenFields, Sizes
<1>2. CASE s.y + 1 >= VGA_HEIGHT
  <2>1. s.y + 1 = VGA_HEIGHT
    BY <1>1, <1>2
  <2>2. /\ Row(VGA_HEIGHT) = VGA_WIDTH * VGA_HEIGHT
        /\ Row(VGA_HEIGHT) = Row(VGA_HEIGHT - 1) + VGA_WIDTH
        /\ Row(VGA_HEIGHT - 1) \in Nat /\ Row(1) = VGA_WIDTH
    <3>1. Row(0 + 1) = Row(0) + VGA_WIDTH /\ Row(0) = 0
      BY Rows
    <3>2. Row(1) = VGA_WIDTH
      BY <1>1, <3>1
    <3> QED
      BY <1>1, <3>2, Sizes, Rows
  <2>3. VGA_WIDTH * (VGA_HEIGHT - 1) = Row(VGA_HEIGHT - 1)
    BY <1>1 DEF Row
  <2>4. PICK b : b = [i \in Cells |-> IF i < Row(VGA_HEIGHT - 1)
                                      THEN s.buffer[i + VGA_WIDTH] ELSE Blank]
    OBVIOUS
  <2>5. t = [buffer |-> b, x |-> 0, y |-> VGA_HEIGHT - 1]
    BY <1>2, <2>3, <2>4 DEF advance_cursor, scroll_up
  <2>6. Cells = 0 .. Row(VGA_HEIGHT) - 1
    BY <2>2 DEF Cells
  <2>7. \A i \in Cells : i < Row(VGA_HEIGHT - 1) <=> i + VGA_WIDTH \in Cells
    BY <1>1, <2>2, <2>6, SMTT(30)
  <2>8. b \in [Cells -> Chars]
    BY <1>1, <2>4, <2>7, Sizes
  <2>9. t \in Screens /\ t.buffer = b
    BY <1>1, <2>5, <2>8 DEF Screens
  <2>10. Position(t) = Row(VGA_HEIGHT - 1)
    <3>1. Position(t) = Row(VGA_HEIGHT - 1) + 0
      BY <2>5 DEF Position, Row
    <3> QED
      BY <2>2, <3>1
  <2>11. \A i \in Cells : i >= Row(VGA_HEIGHT - 1) => ~(i < Row(VGA_HEIGHT - 1))
    BY <2>2, <2>6
  <2>12. Clean(t)
    BY <2>4, <2>9, <2>10, <2>11 DEF Clean
  <2>13. \A i \in Cells : i + Row(1) \in Cells => t.buffer[i] = s.buffer[i + Row(1)]
    BY <2>2, <2>4, <2>7, <2>9
  <2>14. Row(s.y + 1) = VGA_WIDTH * VGA_HEIGHT /\ s.y + 1 - 1 = VGA_HEIGHT - 1
    BY <1>1, <2>1, <2>2
  <2> QED
    BY <1>1, <2>10, <2>12, <2>13, <2>14
<1>3. CASE ~(s.y + 1 >= VGA_HEIGHT)
  <2>1. t = [[s EXCEPT !.x = 0] EXCEPT !.y = s.y + 1]
    BY <1>1, <1>3 DEF advance_cursor
  <2>2. t.buffer = s.buffer /\ t.x = 0 /\ t.y = s.y + 1
        /\ t = [buffer |-> s.buffer, x |-> 0, y |-> s.y + 1]
    BY <1>1, <2>1 DEF Screens
  <2>3. t \in Screens
    BY <1>1, <1>3, <2>2 DEF Screens
  <2>4. Row(s.y + 1) = Row(s.y) + VGA_WIDTH /\ Row(0) = 0
    BY <1>1, Rows
  <2>5. Position(t) = Row(s.y + 1)
    <3>1. Position(t) = Row(s.y + 1) + 0
      BY <2>2 DEF Position, Row
    <3> QED
      BY <1>1, <2>4, <3>1
  <2>6. \A i \in Cells : i >= Row(s.y + 1) => i > Position(s)
    BY <1>1, <2>4 DEF Cells
  <2>7. Clean(t)
    BY <2>2, <2>3, <2>5, <2>6 DEF Clean
  <2>8. \A i \in Cells : i + Row(0) \in Cells => t.buffer[i] = s.buffer[i + Row(0)]
    BY <2>2, <2>4 DEF Cells
  <2>9. s.y + 1 - 0 = s.y + 1 /\ s.y + 1 \in Nat
    BY <1>1
  <2> QED
    BY <2>5, <2>7, <2>8, <2>9
<1> QED
  BY <1>2, <1>3

\* Screen w is s with a character in cell p.
Poked(s, w, p, ch) == \A i \in Cells : w.buffer[i] = IF i = p THEN ch ELSE s.buffer[i]

\* What a character written to a cell changes.
LEMMA CellWritten ==
  ASSUME NEW s \in Screens, NEW ch \in Chars, NEW p \in Cells, NEW w,
         w = [s EXCEPT !.buffer[p] = ch]
  PROVE  /\ w \in Screens /\ w.x = s.x /\ w.y = s.y /\ Position(w) = Position(s)
         /\ Poked(s, w, p, ch)
<1>1. PICK b : b = [s.buffer EXCEPT ![p] = ch]
  OBVIOUS
<1>2. s.buffer \in [Cells -> Chars] /\ DOMAIN s = {"buffer", "x", "y"}
  BY ScreenFields
<1>3. b \in [Cells -> Chars] /\ \A i \in Cells : b[i] = IF i = p THEN ch ELSE s.buffer[i]
  BY <1>1, <1>2
<1>4. w = [s EXCEPT !.buffer = b]
  BY <1>1
<1>5. w.buffer = b /\ w.x = s.x /\ w.y = s.y
  BY <1>2, <1>4
<1>6. w \in Screens
  BY <1>3, <1>4 DEF Screens
<1> QED
  BY <1>3, <1>5, <1>6 DEF Position, Poked

\* The newline and the characters that can be seen.
LEMMA Newline ==
  ASSUME NEW s, Clean(s)
  PROVE  \E r \in Nat : Shown(putchar(s, "newline"), r, << >>)
<1>1. s \in Screens /\ \A i \in Cells : i > Position(s) => s.buffer[i] = Blank
  BY ScreenFields DEF Clean, Cells
<1>2. PICK t : t = advance_cursor(s)
  OBVIOUS
<1>3. putchar(s, "newline") = t
  BY <1>2 DEF putchar
<1>4. PICK d \in {0, 1} : /\ s.y + 1 - d \in Nat
                          /\ Clean(t) /\ Position(t) = Row(s.y + 1 - d)
  BY <1>1, <1>2, Advance
<1>5. PICK r \in Nat : r = s.y + 1 - d
  BY <1>4
<1>6. Row(r) = Row(r) + Len(<< >>) /\ 1 .. Len(<< >>) = {}
  <2>1. Row(r) \in Nat
    BY Rows
  <2> QED
    BY <2>1
<1>7. Shown(t, r, << >>)
  BY <1>4, <1>5, <1>6 DEF Shown
<1> QED
  BY <1>3, <1>7

\* A character is shown behind the text, on a screen that may have scrolled.
\* The text leaves room for it, so its start does not scroll away.
LEMMA CharacterShown ==
  ASSUME NEW s, NEW r, NEW text \in Seq(Chars), Shown(s, r, text), NEW ch \in Chars,
         Len(text) + 1 < VGA_WIDTH * VGA_HEIGHT
  PROVE  \E q \in Nat : Shown(putchar(s, ch), q, Append(text, ch))
<1>1. PICK P, n : P = Position(s) /\ n = Len(text)
  OBVIOUS
<1>2. PICK more : more = Append(text, ch)
  OBVIOUS
<1>3. s \in Screens /\ P \in Cells
  BY <1>1, ScreenFields DEF Shown, Clean
<1>4. /\ r \in Nat /\ P = Row(r) + n /\ n \in Nat /\ Row(r) \in Nat /\ P \in Nat
      /\ s.x \in Nat /\ s.x < VGA_WIDTH /\ s.y \in Nat
      /\ P = Row(s.y) + s.x /\ Row(s.y) \in Nat
  BY <1>1, <1>3, ScreenFields, Rows DEF Shown
<1>5. /\ \A i \in 1 .. n : s.buffer[Row(r) + i - 1] = text[i]
      /\ \A i \in Cells : i >= P => s.buffer[i] = Blank
  BY <1>1 DEF Shown, Clean
<1>6. PICK area, width \in Nat : area = VGA_WIDTH * VGA_HEIGHT /\ width = VGA_WIDTH
  BY Sizes
<1>7. Cells = 0 .. area - 1 /\ area \in Nat /\ width > 0 /\ n + 1 < area
  BY <1>1, <1>6, Sizes DEF Cells
<1>8. /\ Len(more) = n + 1
      /\ \A i \in 1 .. n + 1 : more[i] = IF i = n + 1 THEN ch ELSE text[i]
  BY <1>1, <1>2
<1>9. PICK w : w = [s EXCEPT !.buffer[P] = ch]
  OBVIOUS
<1>10. /\ w \in Screens /\ w.x = s.x /\ w.y = s.y /\ Position(w) = P
      /\ \A i \in Cells : w.buffer[i] = IF i = P THEN ch ELSE s.buffer[i]
  <2>1. Position(w) = Position(s)
    BY <1>3, <1>9, CellWritten
  <2>2. w \in Screens /\ w.x = s.x /\ w.y = s.y
    BY <1>3, <1>9, CellWritten
  <2>3. Poked(s, w, P, ch)
    BY <1>3, <1>9, CellWritten
  <2> QED
    BY <1>1, <2>1, <2>2, <2>3 DEF Poked
<1>11. \A i \in Cells : i > P => w.buffer[i] = Blank
  <2>1. \A i \in Cells : i > P => i # P /\ i >= P
    BY <1>4, <1>7, SMTT(30)
  <2> QED
    BY <1>5, <1>10, <2>1
<1>12. \A i \in 1 .. n + 1 : Row(r) + i - 1 \in Cells /\ w.buffer[Row(r) + i - 1] = more[i]
  <2>1. TAKE i \in 1 .. n + 1
  <2>2. Row(r) + i - 1 \in Cells
    BY <1>3, <1>4, <1>7, SMTT(30)
  <2>3. CASE i = n + 1
    <3>1. Row(r) + i - 1 = P
      BY <1>4, <2>3
    <3> QED
      BY <1>8, <1>10, <2>2, <2>3, <3>1
  <2>4. CASE i # n + 1
    <3>1. i \in 1 .. n /\ Row(r) + i - 1 # P
      BY <1>4, <2>4
    <3> QED
      BY <1>5, <1>8, <1>10, <2>2, <2>4, <3>1
  <2> QED
    BY <2>2, <2>3, <2>4
<1>13. ch # "backspace" /\ ch # "newline"
  BY ScreenAssumption DEF Chars, Blank
<1>14. putchar(s, ch) = IF s.x + 1 >= VGA_WIDTH THEN advance_cursor(w)
                                                ELSE [w EXCEPT !.x = @ + 1]
  BY <1>1, <1>9, <1>13 DEF putchar
<1>15. CASE ~(s.x + 1 >= VGA_WIDTH)
  <2>1. PICK t : t = [w EXCEPT !.x = w.x + 1]
    OBVIOUS
  <2>2. DOMAIN w = {"buffer", "x", "y"} /\ t = putchar(s, ch)
    BY <1>10, <1>14, <1>15, <2>1, ScreenFields
  <2>3. t.buffer = w.buffer /\ t.x = s.x + 1 /\ t.y = s.y
    BY <1>10, <2>1, <2>2
  <2>4. t \in Screens
    <3>1. s.x + 1 \in 0 .. VGA_WIDTH - 1
      <4>1. VGA_WIDTH \in Nat
        BY Sizes
      <4> QED
        BY <1>4, <1>15, <4>1, SMTT(30)
    <3> QED
      BY <1>10, <2>1, <3>1 DEF Screens
  <2>5. Position(t) = P + 1
    BY <1>4, <2>3, <2>4, ScreenFields, SMTT(30)
  <2>6. Clean(t)
    <3>1. \A i \in Cells : i >= P + 1 => i > P
      BY <1>4, <1>7
    <3> QED
      BY <1>11, <2>3, <2>4, <2>5, <3>1 DEF Clean
  <2>7. Position(t) = Row(r) + Len(more)
    BY <1>4, <1>8, <2>5
  <2>8. \A i \in 1 .. Len(more) : t.buffer[Row(r) + i - 1] = more[i]
    BY <1>8, <1>12, <2>3
  <2>9. Shown(t, r, more)
    BY <1>4, <2>6, <2>7, <2>8 DEF Shown
  <2> QED
    BY <1>2, <1>4, <2>2, <2>9
<1>16. CASE s.x + 1 >= VGA_WIDTH
  <2>1. PICK t : t = advance_cursor(w)
    OBVIOUS
  <2>2. t = putchar(s, ch)
    BY <1>14, <1>16, <2>1
  <2>3. PICK d \in {0, 1} :
           /\ d = 1 => Row(s.y + 1) = VGA_WIDTH * VGA_HEIGHT
           /\ s.y + 1 - d \in Nat
           /\ Clean(t) /\ Position(t) = Row(s.y + 1 - d)
           /\ \A i \in Cells : i + Row(d) \in Cells => t.buffer[i] = w.buffer[i + Row(d)]
    BY <1>10, <1>11, <2>1, Advance
  <2>4. Row(s.y + 1) = P + 1 /\ Row(s.y + 1) = Row(s.y) + width
    <3>1. Row(s.y + 1) = Row(s.y) + VGA_WIDTH
      BY <1>4, Rows
    <3>2. s.x + 1 = width
      BY <1>4, <1>6, <1>16, SMTT(30)
    <3> QED
      BY <1>4, <1>6, <3>1, <3>2, SMTT(30)
  <2>5. r - d \in Nat /\ Row(r - d) + Row(d) = Row(r) /\ Row(r - d) \in Nat
        /\ Position(t) + Row(d) = P + 1 /\ Row(d) \in Nat
    <3>1. CASE d = 0
      <4>1. s.y + 1 - 0 = s.y + 1 /\ r - 0 = r /\ Row(0) = 0
        BY <1>4, Rows
      <4>2. Position(t) = P + 1
        BY <2>3, <2>4, <3>1, <4>1
      <4> QED
        BY <1>4, <3>1, <4>1, <4>2, SMTT(30)
    <3>2. CASE d = 1
      <4>1. Row(r) > 0
        BY <1>4, <1>6, <1>7, <2>3, <2>4, <3>2, SMTT(30)
      <4>2. r > 0
        BY <1>4, <4>1, Rows
      <4>3. Row(r) = Row(r - 1) + VGA_WIDTH /\ Row(r - 1) \in Nat /\ r - 1 \in Nat
        BY <1>4, <4>2, Rows
      <4>4. Row(1) = VGA_WIDTH
        <5>1. Row(0 + 1) = Row(0) + VGA_WIDTH /\ Row(0) = 0
          BY Rows
        <5> QED
          BY <1>6, <5>1
      <4>5. s.y + 1 - 1 = s.y
        BY <1>4
      <4>6. Position(t) = Row(s.y)
        BY <2>3, <3>2, <4>5
      <4> QED
        BY <1>4, <1>6, <2>4, <3>2, <4>3, <4>4, <4>6
    <3> QED
      BY <3>1, <3>2
  <2>6. Position(t) = Row(r - d) + Len(more)
    <3>1. PICK p, a, b, c : p = Position(t) /\ a = Row(r - d) /\ b = Row(r) /\ c = Row(d)
      OBVIOUS
    <3>2. p \in Nat
      BY <2>3, <3>1, ScreenFields DEF Clean
    <3>3. a \in Nat /\ c \in Nat /\ b \in Nat /\ a + c = b /\ p + c = P + 1 /\ P = b + n
      BY <1>4, <2>5, <3>1
    <3>4. p = a + (n + 1)
      BY <1>4, <3>2, <3>3, SMTT(30)
    <3> QED
      BY <1>8, <3>1, <3>4
  <2>7. ASSUME NEW i \in 1 .. Len(more)
        PROVE  t.buffer[Row(r - d) + i - 1] = more[i]
    <3>1. Row(r) + i - 1 \in Cells /\ w.buffer[Row(r) + i - 1] = more[i]
      BY <1>8, <1>12
    <3>2. PICK c, k : c = Row(r - d) + i - 1 /\ k = Row(d)
      OBVIOUS
    <3>3. c \in Nat /\ c + k = Row(r) + i - 1 /\ k \in Nat
      <4>1. i \in Nat /\ i >= 1
        BY <1>4, <1>8
      <4>2. PICK a, b : a = Row(r - d) /\ b = Row(r)
        OBVIOUS
      <4>3. a \in Nat /\ k \in Nat /\ b \in Nat /\ a + k = b /\ c = a + i - 1
        BY <1>4, <2>5, <3>2, <4>2
      <4>4. c \in Nat /\ c + k = b + i - 1
        BY <4>1, <4>3
      <4> QED
        BY <4>2, <4>3, <4>4
    <3>4. c \in Cells
      BY <1>7, <3>1, <3>3
    <3> QED
      BY <2>3, <3>1, <3>2, <3>3, <3>4
  <2>8. Shown(t, r - d, more)
    BY <2>3, <2>5, <2>6, <2>7 DEF Shown
  <2> QED
    BY <1>2, <2>2, <2>5, <2>8
<1> QED
  BY <1>15, <1>16

\* A backspace steps back one cell, if there is one, and blanks it.
LEMMA BackspaceBack ==
  ASSUME NEW s \in Screens
  PROVE  /\ backspace(s) \in Screens
         /\ Position(backspace(s)) = IF Position(s) = 0 THEN 0 ELSE Position(s) - 1
         /\ Poked(s, backspace(s), Position(backspace(s)), Blank)
<1>1. /\ s.buffer \in [Cells -> Chars] /\ DOMAIN s = {"buffer", "x", "y"}
      /\ s.x \in Nat /\ s.x < VGA_WIDTH /\ s.y \in Nat /\ s.y + 1 <= VGA_HEIGHT
      /\ VGA_WIDTH \in Nat /\ VGA_WIDTH > 0 /\ VGA_HEIGHT \in Nat
      /\ Position(s) = Row(s.y) + s.x /\ Row(s.y) \in Nat
  BY ScreenFields, Sizes
<1>2. PICK back : back = IF s.x > 0 THEN [s EXCEPT !.x = @ - 1]
                         ELSE IF s.y > 0 THEN [s EXCEPT !.y = @ - 1, !.x = VGA_WIDTH - 1]
                         ELSE s
  OBVIOUS
<1>3. /\ back \in Screens /\ back.buffer = s.buffer
      /\ Position(back) = IF Position(s) = 0 THEN 0 ELSE Position(s) - 1
  <2>1. CASE s.x > 0
    <3>1. back = [s EXCEPT !.x = s.x - 1]
      BY <1>2, <2>1
    <3>2. back.buffer = s.buffer /\ back.x = s.x - 1 /\ back.y = s.y
      BY <1>1, <3>1
    <3>3. back \in Screens
      BY <1>1, <2>1, <3>1 DEF Screens
    <3>4. Position(back) = Row(s.y) + (s.x - 1)
      BY <3>2, <3>3, ScreenFields
    <3> QED
      BY <1>1, <2>1, <3>2, <3>3, <3>4
  <2>2. CASE ~(s.x > 0) /\ s.y > 0
    <3>1. back = [[s EXCEPT !.y = s.y - 1] EXCEPT !.x = VGA_WIDTH - 1]
      BY <1>2, <2>2
    <3>2. back.buffer = s.buffer /\ back.x = VGA_WIDTH - 1 /\ back.y = s.y - 1
          /\ back = [buffer |-> s.buffer, x |-> VGA_WIDTH - 1, y |-> s.y - 1]
      BY <1>1, <3>1 DEF Screens
    <3>3. back \in Screens
      BY <1>1, <2>2, <3>2 DEF Screens
    <3>4. Position(back) = Row(s.y - 1) + (VGA_WIDTH - 1)
      BY <3>2, <3>3, ScreenFields
    <3>5. Row(s.y) = Row(s.y - 1) + VGA_WIDTH /\ Row(s.y - 1) \in Nat
      BY <1>1, <2>2, Rows
    <3> QED
      BY <1>1, <2>2, <3>2, <3>3, <3>4, <3>5
  <2>3. CASE ~(s.x > 0) /\ ~(s.y > 0)
    <3>1. back = s
      BY <1>2, <2>3
    <3>2. Position(s) = 0
      BY <1>1, <2>3, Rows
    <3> QED
      BY <3>1, <3>2
  <2> QED
    BY <2>1, <2>2, <2>3
<1>4. PICK t : t = [back EXCEPT !.buffer[Position(back)] = Blank]
  OBVIOUS
<1>5. /\ t \in Screens /\ Position(t) = Position(back)
      /\ Poked(back, t, Position(back), Blank)
  BY <1>3, <1>4, CellWritten, ScreenFields, Sizes
<1>6. backspace(s) = t
  BY <1>2, <1>4 DEF backspace
<1> QED
  BY <1>3, <1>5, <1>6 DEF Poked

\* It leaves nothing behind the position.
LEMMA BackspaceClean ==
  ASSUME NEW s, Clean(s) PROVE Clean(backspace(s))
<1>1. PICK t : t = backspace(s)
  OBVIOUS
<1>2. /\ t \in Screens /\ s \in Screens
      /\ Position(t) = IF Position(s) = 0 THEN 0 ELSE Position(s) - 1
      /\ Poked(s, t, Position(t), Blank)
  BY <1>1, BackspaceBack DEF Clean
<1>3. PICK c, p : c = Position(s) /\ p = Position(t)
  OBVIOUS
<1>4. c \in Nat /\ p \in Nat
  BY <1>2, <1>3, ScreenFields
<1>5. \A i \in Cells : i >= p => i = p \/ i >= c
  BY <1>2, <1>3, <1>4 DEF Cells
<1>6. Clean(t)
  BY <1>2, <1>3, <1>5 DEF Clean, Poked
<1> QED
  BY <1>1, <1>6

\* It takes the last character of a text off the screen.
LEMMA BackspaceShown ==
  ASSUME NEW s, NEW r, NEW text \in Seq(Chars), NEW ch, Shown(s, r, Append(text, ch))
  PROVE  Shown(putchar(s, "backspace"), r, text)
<1>1. PICK t, n, more : t = backspace(s) /\ n = Len(text) /\ more = Append(text, ch)
  OBVIOUS
<1>2. n \in Nat /\ Len(more) = n + 1 /\ \A i \in 1 .. n : more[i] = text[i]
  BY <1>1
<1>3. /\ s \in Screens /\ r \in Nat /\ Position(s) = Row(r) + (n + 1) /\ Clean(s)
      /\ Row(r) \in Nat /\ Position(s) \in Cells
      /\ \A i \in 1 .. n + 1 : s.buffer[Row(r) + i - 1] = more[i]
  BY <1>1, <1>2, Rows, ScreenFields DEF Shown, Clean
<1>4. /\ Position(t) = IF Position(s) = 0 THEN 0 ELSE Position(s) - 1
      /\ Poked(s, t, Position(t), Blank)
  BY <1>1, <1>3, BackspaceBack
<1>5. Position(t) = Row(r) + n
  BY <1>2, <1>3, <1>4
<1>6. Clean(t)
  BY <1>1, <1>3, BackspaceClean
<1>7. ASSUME NEW i \in 1 .. n PROVE t.buffer[Row(r) + i - 1] = text[i]
  <2>1. PICK area \in Nat : Cells = 0 .. area - 1
    BY Sizes DEF Cells
  <2>2. Row(r) + i - 1 # Row(r) + n
    BY <1>2, <1>3
  <2>3. Row(r) + i - 1 \in Cells /\ i \in 1 .. n + 1
    BY <1>2, <1>3, <2>1
  <2> QED
    BY <1>2, <1>3, <1>4, <1>5, <2>2, <2>3 DEF Poked
<1>8. putchar(s, "backspace") = t
  BY <1>1 DEF putchar
<1> QED
  BY <1>1, <1>3, <1>5, <1>6, <1>7, <1>8 DEF Shown

\* Nor does any character that is printed.
LEMMA PutcharClean ==
  ASSUME NEW s, Clean(s), NEW ch \in Printed
  PROVE  Clean(putchar(s, ch))
<1>1. CASE ch = "backspace"
  BY <1>1, BackspaceClean DEF putchar
<1>2. CASE ch = "newline"
  BY <1>2, Newline DEF Shown
<1>3. CASE ch # "backspace" /\ ch # "newline"
  <2>1. ch \in Chars /\ s \in Screens
    BY <1>3 DEF Printed, Clean
  <2>2. PICK P : P = Position(s)
    OBVIOUS
  <2>3. /\ P \in Cells /\ P \in Nat /\ s.x \in Nat /\ s.y \in Nat
        /\ P = Row(s.y) + s.x /\ Row(s.y) \in Nat
    BY <2>1, <2>2, ScreenFields
  <2>4. PICK w : w = [s EXCEPT !.buffer[P] = ch]
    OBVIOUS
  <2>5. w \in Screens /\ w.x = s.x /\ w.y = s.y /\ Position(w) = P
    <3>1. Position(w) = Position(s)
      BY <2>1, <2>3, <2>4, CellWritten
    <3>2. w \in Screens /\ w.x = s.x /\ w.y = s.y
      BY <2>1, <2>3, <2>4, CellWritten
    <3> QED
      BY <2>2, <3>1, <3>2
  <2>6. Poked(s, w, P, ch)
    BY <2>1, <2>3, <2>4, CellWritten
  <2>7. \A i \in Cells : i > P => w.buffer[i] = Blank
    <3>1. \A i \in Cells : i > P => i # P /\ i >= P
      BY <2>3, Sizes DEF Cells
    <3> QED
      BY <2>2, <2>6, <3>1 DEF Clean, Poked
  <2>8. putchar(s, ch) = IF s.x + 1 >= VGA_WIDTH THEN advance_cursor(w)
                                                 ELSE [w EXCEPT !.x = @ + 1]
    BY <1>3, <2>2, <2>4 DEF putchar
  <2>9. CASE s.x + 1 >= VGA_WIDTH
    BY <2>5, <2>7, <2>8, <2>9, Advance
  <2>10. CASE ~(s.x + 1 >= VGA_WIDTH)
    <3>1. PICK t : t = [w EXCEPT !.x = w.x + 1]
      OBVIOUS
    <3>2. DOMAIN w = {"buffer", "x", "y"} /\ t = putchar(s, ch)
      BY <2>5, <2>8, <2>10, <3>1, ScreenFields
    <3>3. t.buffer = w.buffer /\ t.x = s.x + 1 /\ t.y = s.y
      BY <2>5, <3>1, <3>2
    <3>4. t \in Screens
      <4>1. VGA_WIDTH \in Nat
        BY Sizes
      <4>2. s.x + 1 \in 0 .. VGA_WIDTH - 1
        BY <2>3, <2>10, <4>1
      <4> QED
        BY <2>5, <3>1, <4>2 DEF Screens
    <3>5. Position(t) = P + 1
      BY <2>3, <3>3, <3>4, ScreenFields
    <3>6. \A i \in Cells : i >= P + 1 => i > P
      BY <2>3, Sizes DEF Cells
    <3>7. Clean(t)
      BY <2>7, <3>3, <3>4, <3>5, <3>6 DEF Clean
    <3> QED
      BY <3>2, <3>7
  <2> QED
    BY <2>9, <2>10
<1> QED
  BY <1>1, <1>2, <1>3

\* A cleared screen has nothing on it.
LEMMA ClearClean == Clean(clear)
<1>1. 0 \in 0 .. VGA_WIDTH - 1 /\ 0 \in 0 .. VGA_HEIGHT - 1
  BY Sizes
<1>2. [i \in Cells |-> Blank] \in [Cells -> Chars]
  BY Sizes
<1>3. clear \in Screens
  BY <1>1, <1>2 DEF clear, Screens
<1> QED
  BY <1>3 DEF Clean, clear

-----------------------------------------------------------------------------

(* Loops over a text. *)

\* What a loop does with a character: print writes it, parse_int_token adds it
\* to an int, and what a number means is counted without a limit.  The loops of
\* the calculator's functions go over the factors of a product, or just go on.
Turn(loop, v, c) ==
  CASE loop = "print"     -> putchar(v, c)
    [] loop = "read"      -> Wrap(v * 10 + DigitValue[c])
    [] loop = "count"     -> v * 10 + DigitValue[c]
    [] loop = "wrapped"   -> Wrap(v * c)
    [] loop = "capped"    -> Capped(v * c)
    [] loop = "whole"     -> v * c
    [] loop = "checked"   -> UNION {checked_mul_int(p, c) : p \in v}
    [] loop = "level"     -> TowerLevel(v, c)
    [] loop = "tower"     -> Power(c, v)
    [] loop = "fibonacci" -> <<v[2], v[1] + v[2]>>
    [] loop = "root"      -> RootTurn(v)
    [] loop = "log"       -> LogTurn(v)

Highest(S) == CHOOSE i \in S : \A j \in S : i >= j

\* The equation of a loop over the first n characters.
Looped(loop, base, text, n, g) ==
  g = [S \in SUBSET (1 .. n) |->
         IF S = {} THEN base
         ELSE Turn(loop, g[S \ {Highest(S)}], text[Highest(S)])]

\* The highest of a set that reaches up to n.
LEMMA HighestIs ==
  ASSUME NEW n \in Nat, NEW S \in SUBSET (1 .. n), n \in S
  PROVE  Highest(S) = n
<1>1. \A j \in S : n >= j
  OBVIOUS
<1>2. \A i \in S : (\A j \in S : i >= j) => i = n
  BY <1>1
<1> QED
  BY <1>1, <1>2 DEF Highest

\* The equation has a solution: one for n characters makes one for n + 1.
LEMMA LoopSolved ==
  ASSUME NEW loop, NEW base, NEW text, NEW n \in Nat
  PROVE  \E g : Looped(loop, base, text, n, g)
<1> DEFINE Bad == {k \in Nat : ~ \E g : Looped(loop, base, text, k, g)}
<1> SUFFICES ASSUME Bad # {} PROVE FALSE
  OBVIOUS
<1>1. PICK k \in Bad : \A j \in Bad : k <= j
  BY LeastElement
<1>2. CASE k = 0
  <2>1. PICK g : g = [S \in SUBSET (1 .. k) |-> base]
    OBVIOUS
  <2>2. SUBSET (1 .. k) = {{}}
    BY <1>2
  <2>3. Looped(loop, base, text, k, g)
    BY <2>1, <2>2 DEF Looped
  <2> QED
    BY <1>1, <2>3
<1>3. CASE k # 0
  <2>1. k \in Nat /\ k - 1 \in Nat /\ k - 1 < k
    BY <1>1, <1>3
  <2>2. k - 1 \notin Bad
    BY <1>1, <2>1
  <2>3. PICK g : Looped(loop, base, text, k - 1, g)
    BY <2>1, <2>2
  <2>4. PICK h : h = [S \in SUBSET (1 .. k) |->
                        IF k \in S THEN Turn(loop, g[S \ {k}], text[k]) ELSE g[S]]
    OBVIOUS
  <2>5. ASSUME NEW S \in SUBSET (1 .. k), k \notin S
        PROVE  /\ S \in SUBSET (1 .. k - 1) /\ h[S] = g[S]
               /\ g[S] = IF S = {} THEN base
                         ELSE Turn(loop, g[S \ {Highest(S)}], text[Highest(S)])
    <3>1. h[S] = g[S]
      BY <2>4, <2>5
    <3>2. S \in SUBSET (1 .. k - 1)
      BY <2>1, <2>5
    <3> QED
      BY <2>3, <3>1, <3>2 DEF Looped
  <2>6. ASSUME NEW S \in SUBSET (1 .. k)
        PROVE  h[S] = IF S = {} THEN base
                      ELSE Turn(loop, h[S \ {Highest(S)}], text[Highest(S)])
    <3>1. CASE k \in S
      <4>1. Highest(S) = k
        BY <2>1, <3>1, HighestIs
      <4>2. h[S \ {k}] = g[S \ {k}]
        BY <2>5
      <4>3. h[S] = Turn(loop, g[S \ {k}], text[k])
        BY <2>4, <3>1
      <4> QED
        BY <3>1, <4>1, <4>2, <4>3
    <3>2. CASE k \notin S
      <4>1. h[S \ {Highest(S)}] = g[S \ {Highest(S)}]
        BY <2>5, <3>2
      <4> QED
        BY <2>5, <3>2, <4>1
    <3> QED
      BY <3>1, <3>2
  <2>7. h = [S \in SUBSET (1 .. k) |-> h[S]]
    BY <2>4
  <2>8. Looped(loop, base, text, k, h)
    BY <2>6, <2>7 DEF Looped
  <2> QED
    BY <1>1, <2>8
<1> QED
  BY <1>2, <1>3

\* The value after each turn of a loop over a text of n characters, which
\* begins with base and ends with result.
InTurn(loop, base, text, n, result, after) ==
  /\ after[0] = base
  /\ \A i \in 0 .. n - 1 : after[i + 1] = Turn(loop, after[i], text[i + 1])
  /\ after[n] = result

\* The end of the loop, as FoldLeft chooses it.
LoopEnd(loop, base, text, n) ==
  (CHOOSE g : Looped(loop, base, text, n, g))[1 .. n]

\* The loop over a text, taken apart into its turns.
LEMMA LoopInTurn ==
  ASSUME NEW loop, NEW base, NEW text, NEW n \in Nat
  PROVE  \E after : InTurn(loop, base, text, n, LoopEnd(loop, base, text, n), after)
<1> DEFINE g == CHOOSE h : Looped(loop, base, text, n, h)
<1>1. Looped(loop, base, text, n, g)
  BY LoopSolved
<1>2. LoopEnd(loop, base, text, n) = g[1 .. n]
  BY DEF LoopEnd
<1> HIDE DEF g
<1>3. PICK after : after = [i \in 0 .. n |-> g[1 .. i]]
  OBVIOUS
<1>4. \A S \in SUBSET (1 .. n) :
        g[S] = IF S = {} THEN base
               ELSE Turn(loop, g[S \ {Highest(S)}], text[Highest(S)])
  BY <1>1 DEF Looped
<1>5. after[0] = base
  <2>1. 1 .. 0 = {} /\ 0 \in 0 .. n
    OBVIOUS
  <2> QED
    BY <1>3, <1>4, <2>1
<1>6. ASSUME NEW i \in 0 .. n - 1
      PROVE  after[i + 1] = Turn(loop, after[i], text[i + 1])
  <2>1. PICK k : k = i + 1
    OBVIOUS
  <2>2. PICK S : S = 1 .. k
    OBVIOUS
  <2>3. k \in Nat /\ i \in 0 .. n /\ k \in 0 .. n /\ k \in S
    BY <2>1, <2>2
  <2>4. S \in SUBSET (1 .. n) /\ S \in SUBSET (1 .. k) /\ S \ {k} = 1 .. i
    BY <2>1, <2>2
  <2>5. Highest(S) = k
    BY <2>3, <2>4, HighestIs
  <2>6. g[S] = Turn(loop, g[1 .. i], text[k])
    BY <1>4, <2>3, <2>4, <2>5
  <2>7. after[k] = g[S] /\ after[i] = g[1 .. i]
    BY <1>3, <2>2, <2>3
  <2> QED
    BY <2>1, <2>6, <2>7
<1>7. after[n] = g[1 .. n]
  BY <1>3
<1> QED
  BY <1>2, <1>5, <1>6, <1>7 DEF InTurn

\* A loop of no turns ends where it begins, ...
LEMMA LoopEmpty ==
  ASSUME NEW loop, NEW base, NEW text PROVE LoopEnd(loop, base, text, 0) = base
<1>1. PICK after : InTurn(loop, base, text, 0, LoopEnd(loop, base, text, 0), after)
  BY LoopInTurn
<1> QED
  BY <1>1 DEF InTurn

\* ... and one that is longer by a turn takes that turn from there.
LEMMA LoopLonger ==
  ASSUME NEW loop, NEW base, NEW text, NEW more, NEW n \in Nat,
         \A i \in 1 .. n : more[i] = text[i]
  PROVE  LoopEnd(loop, base, more, n + 1)
           = Turn(loop, LoopEnd(loop, base, text, n), more[n + 1])
<1>1. PICK m \in Nat : m = n + 1
  OBVIOUS
<1>2. PICK short : InTurn(loop, base, text, n, LoopEnd(loop, base, text, n), short)
  BY LoopInTurn
<1>3. PICK long : InTurn(loop, base, more, m, LoopEnd(loop, base, more, m), long)
  BY LoopInTurn
<1> DEFINE Bad == {i \in 0 .. n : short[i] # long[i]}
<1>4. Bad = {}
  <2> SUFFICES ASSUME Bad # {} PROVE FALSE
    OBVIOUS
  <2>1. Bad \in SUBSET Nat
    OBVIOUS
  <2>2. PICK k \in Bad : \A j \in Bad : k <= j
    <3> HIDE DEF Bad
    <3> QED
      BY <2>1, LeastElement
  <2>3. k # 0
    BY <1>2, <1>3, <2>2 DEF InTurn
  <2>4. PICK j : j = k - 1
    OBVIOUS
  <2>5. /\ j \in 0 .. n - 1 /\ j \in 0 .. m - 1 /\ j + 1 = k /\ ~(k <= j)
        /\ k \in 1 .. n /\ j \in 0 .. n
    BY <1>1, <2>2, <2>3, <2>4
  <2>6. j \notin Bad
    <3> HIDE DEF Bad
    <3> QED
      BY <2>2, <2>5
  <2>7. short[j] = long[j]
    BY <2>5, <2>6
  <2>8. short[k] = Turn(loop, short[j], text[k]) /\ long[k] = Turn(loop, long[j], more[k])
    BY <1>2, <1>3, <2>5 DEF InTurn
  <2> QED
    BY <2>2, <2>5, <2>7, <2>8
<1>5. long[n] = LoopEnd(loop, base, text, n)
  BY <1>2, <1>4 DEF InTurn
<1>6. n \in 0 .. m - 1
  BY <1>1
<1> QED
  BY <1>1, <1>3, <1>5, <1>6 DEF InTurn

\* Printing a text, character by character.
LEMMA WriteInTurn ==
  ASSUME NEW s, NEW S, NEW text \in Seq(S)
  PROVE  \E after : InTurn("print", s, text, Len(text), Write(s, text), after)
<1>1. DOMAIN text = 1 .. Len(text) /\ Len(text) \in Nat
  OBVIOUS
<1>2. Write(s, text) = LoopEnd("print", s, text, Len(text))
  BY <1>1 DEF Write, FoldLeft, MapThenFoldSet, Max, Highest, LoopEnd, Looped, Turn
<1> QED
  BY <1>1, <1>2, LoopInTurn

\* After every turn nothing stands from the position on.
LEMMA TurnsClean ==
  ASSUME NEW s, Clean(s), NEW text \in Seq(Printed), NEW end, NEW after,
         InTurn("print", s, text, Len(text), end, after)
  PROVE  \A i \in 0 .. Len(text) : Clean(after[i])
<1> DEFINE Bad == {i \in 0 .. Len(text) : ~Clean(after[i])}
<1> SUFFICES ASSUME Bad # {} PROVE FALSE
  OBVIOUS
<1>1. PICK k \in Bad : \A j \in Bad : k <= j
  <2>1. Bad \in SUBSET Nat
    OBVIOUS
  <2> HIDE DEF Bad
  <2> QED
    BY <2>1, LeastElement
<1>2. k # 0
  BY <1>1 DEF InTurn
<1>3. k - 1 \in 0 .. Len(text) - 1 /\ (k - 1) + 1 = k /\ k - 1 < k
      /\ k \in 1 .. Len(text) /\ k - 1 \in 0 .. Len(text)
  BY <1>1, <1>2
<1>4. Clean(after[k - 1])
  BY <1>1, <1>3
<1>5. after[k] = putchar(after[k - 1], text[k])
  BY <1>3 DEF InTurn, Turn
<1>6. text[k] \in Printed
  BY <1>3
<1>7. Clean(after[k])
  BY <1>4, <1>5, <1>6, PutcharClean
<1> QED
  BY <1>1, <1>7

\* A text printed leaves nothing behind the position.
LEMMA WriteClean ==
  ASSUME NEW s, Clean(s), NEW text \in Seq(Printed)
  PROVE  Clean(Write(s, text))
<1>1. PICK after : InTurn("print", s, text, Len(text), Write(s, text), after)
  BY WriteInTurn
<1>2. Len(text) \in 0 .. Len(text) /\ after[Len(text)] = Write(s, text)
  BY <1>1 DEF InTurn
<1>3. \A i \in 0 .. Len(text) : Clean(after[i])
  BY <1>1, TurnsClean
<1> QED
  BY <1>2, <1>3

-----------------------------------------------------------------------------

(* Numbers printed. *)

\* The digits of n, when g holds those of smaller numbers.
DigitsFrom(g, n) ==
  IF n < 10 THEN <<Digits[n + 1]>> ELSE Append(g[n \div 10], Digits[(n % 10) + 1])

DecimalUpTo(n, g) == \A k \in 0 .. n : g[k] = DigitsFrom(g, k)

\* What remains of a number without its last digit, and that digit.
LEMMA TenthIsLess ==
  ASSUME NEW n \in Nat
  PROVE  /\ n \div 10 \in Nat /\ n \div 10 <= n
         /\ n >= 10 => n \div 10 < n
         /\ (n % 10) + 1 \in 1 .. 10
OBVIOUS

\* The digits of all numbers up to n exist: by the least n for which they do not.
LEMMA DecimalSolved ==
  ASSUME NEW n \in Nat PROVE \E g : DecimalUpTo(n, g)
<1> DEFINE Bad == {k \in Nat : ~ \E g : DecimalUpTo(k, g)}
<1> SUFFICES ASSUME Bad # {} PROVE FALSE
  OBVIOUS
<1>1. PICK k \in Bad : \A j \in Bad : k <= j
  BY LeastElement
<1>2. k \in Nat
  OBVIOUS
<1>3. PICK g : k > 0 => DecimalUpTo(k - 1, g)
  <2>1. k > 0 => k - 1 \in Nat /\ k - 1 < k
    BY <1>2
  <2>2. k > 0 => k - 1 \notin Bad
    BY <1>1, <2>1
  <2> QED
    BY <2>1, <2>2
<1>4. PICK h : h = [i \in 0 .. k |-> IF i = k THEN DigitsFrom(g, k) ELSE g[i]]
  OBVIOUS
<1>5. ASSUME NEW i \in 0 .. k PROVE h[i] = DigitsFrom(h, i)
  <2>1. i \in Nat /\ i <= k
    BY <1>2
  <2>2. i >= 10 => i \div 10 \in 0 .. k /\ i \div 10 # k
    BY <1>2, <2>1, TenthIsLess
  <2>3. i >= 10 => h[i \div 10] = g[i \div 10]
    BY <1>4, <2>2
  <2>4. DigitsFrom(h, i) = DigitsFrom(g, i)
    BY <2>1, <2>3 DEF DigitsFrom
  <2>5. CASE i = k
    BY <1>4, <2>4, <2>5
  <2>6. CASE i # k
    <3>1. i \in 0 .. k - 1 /\ k > 0
      BY <1>2, <2>1, <2>6
    <3>2. g[i] = DigitsFrom(g, i)
      BY <1>3, <3>1 DEF DecimalUpTo
    <3> QED
      BY <1>4, <2>4, <2>6, <3>2
  <2> QED
    BY <2>5, <2>6
<1>6. DecimalUpTo(k, h)
  BY <1>5 DEF DecimalUpTo
<1> QED
  BY <1>1, <1>6

\* Solutions agree as far as both reach.
LEMMA DecimalUnique ==
  ASSUME NEW n \in Nat, NEW g, NEW h, DecimalUpTo(n, g), DecimalUpTo(n, h)
  PROVE  g[n] = h[n]
<1> DEFINE Bad == {k \in Nat : k <= n /\ g[k] # h[k]}
<1> SUFFICES ASSUME Bad # {} PROVE FALSE
  OBVIOUS
<1>1. PICK k \in Bad : \A j \in Bad : k <= j
  BY LeastElement
<1>2. k \in Nat /\ k <= n /\ k \in 0 .. n
  OBVIOUS
<1>3. k >= 10 => g[k \div 10] = h[k \div 10]
  <2>1. k >= 10 => k \div 10 \in Nat /\ k \div 10 < k /\ k \div 10 <= n
    BY <1>2, TenthIsLess
  <2> QED
    BY <1>1, <2>1
<1>4. DigitsFrom(g, k) = DigitsFrom(h, k)
  BY <1>2, <1>3 DEF DigitsFrom
<1>5. g[k] = h[k]
  BY <1>2, <1>4 DEF DecimalUpTo
<1> QED
  BY <1>5

\* So Decimal, chosen as a function of that recursion, satisfies it.
LEMMA DecimalEquation ==
  ASSUME NEW n \in Nat PROVE Decimal[n] = DigitsFrom(Decimal, n)
<1> DEFINE upTo(k) == CHOOSE g : DecimalUpTo(k, g)
<1>1. ASSUME NEW k \in Nat PROVE DecimalUpTo(k, upTo(k))
  BY DecimalSolved
<1> HIDE DEF upTo
<1>2. PICK d : d = [k \in Nat |-> upTo(k)[k]]
  OBVIOUS
<1>3. ASSUME NEW k \in Nat PROVE d[k] = DigitsFrom(d, k)
  <2>1. DecimalUpTo(k, upTo(k)) /\ k \in 0 .. k
    BY <1>1
  <2>2. d[k] = DigitsFrom(upTo(k), k)
    BY <1>2, <2>1 DEF DecimalUpTo
  <2>3. k >= 10 => upTo(k)[k \div 10] = d[k \div 10]
    <3> SUFFICES ASSUME k >= 10 PROVE upTo(k)[k \div 10] = d[k \div 10]
      OBVIOUS
    <3>1. PICK t : t = k \div 10
      OBVIOUS
    <3>2. t \in Nat /\ t <= k
      BY <3>1, TenthIsLess
    <3>3. \A i \in 0 .. t : i \in 0 .. k
      BY <3>2
    <3>4. DecimalUpTo(t, upTo(k)) /\ DecimalUpTo(t, upTo(t))
      BY <1>1, <2>1, <3>2, <3>3 DEF DecimalUpTo
    <3>5. upTo(k)[t] = upTo(t)[t]
      BY <3>2, <3>4, DecimalUnique
    <3> QED
      BY <1>2, <3>1, <3>2, <3>5
  <2>4. DigitsFrom(upTo(k), k) = DigitsFrom(d, k)
    BY <2>3 DEF DigitsFrom
  <2> QED
    BY <2>2, <2>4
<1>4. d = [k \in Nat |-> DigitsFrom(d, k)]
  <2>1. d = [k \in Nat |-> d[k]]
    BY <1>2
  <2> QED
    BY <1>3, <2>1
<1>5. \E e : e = [k \in Nat |-> DigitsFrom(e, k)]
  BY <1>4, ZenonT(30)
<1>6. Decimal = [k \in Nat |-> DigitsFrom(Decimal, k)]
  BY <1>5 DEF Decimal, DigitsFrom
<1> QED
  BY <1>6

\* A printed number is digits.
LEMMA DecimalDigits ==
  ASSUME NEW n \in Nat PROVE Decimal[n] \in Seq(Range(Digits))
<1> DEFINE Bad == {k \in Nat : Decimal[k] \notin Seq(Range(Digits))}
<1> SUFFICES ASSUME Bad # {} PROVE FALSE
  OBVIOUS
<1>1. PICK k \in Bad : \A j \in Bad : k <= j
  BY LeastElement
<1>2. \A i \in 1 .. 10 : Digits[i] \in Range(Digits)
  BY DEF Digits, Range
<1>3. CASE k < 10
  <2>1. Decimal[k] = <<Digits[k + 1]>>
    BY <1>3, DecimalEquation DEF DigitsFrom
  <2>2. k + 1 \in 1 .. 10
    BY <1>3
  <2>3. PICK d : d = Digits[k + 1]
    OBVIOUS
  <2>4. d \in Range(Digits)
    BY <1>2, <2>2, <2>3
  <2>5. <<d>> \in Seq(Range(Digits))
    BY <2>4
  <2> QED
    BY <1>1, <2>1, <2>3, <2>5
<1>4. CASE ~(k < 10)
  <2>1. Decimal[k] = Append(Decimal[k \div 10], Digits[(k % 10) + 1])
    BY <1>4, DecimalEquation DEF DigitsFrom
  <2>2. k \div 10 \in Nat /\ k \div 10 < k /\ (k % 10) + 1 \in 1 .. 10
    BY <1>4, TenthIsLess
  <2>3. Decimal[k \div 10] \in Seq(Range(Digits))
    BY <1>1, <2>2
  <2>4. PICK d, t : d = Digits[(k % 10) + 1] /\ t = Decimal[k \div 10]
    OBVIOUS
  <2>5. d \in Range(Digits) /\ t \in Seq(Range(Digits))
    BY <1>2, <2>2, <2>3, <2>4
  <2>6. Append(t, d) \in Seq(Range(Digits))
    BY <2>5
  <2> QED
    BY <1>1, <2>1, <2>4, <2>6
<1> QED
  BY <1>3, <1>4

-----------------------------------------------------------------------------

(* What the calculator prints. *)

\* Digits can be printed.
LEMMA DigitsShow == Range(Digits) \subseteq Chars
  BY ShellAssumption

\* A number cut to the width of an int.
LEMMA WrapIsInt ==
  ASSUME NEW x \in Int PROVE Wrap(x) \in Int
<1>1. PICK w, h : w = 2 ^ BITS /\ h = 2 ^ (BITS - 1)
  OBVIOUS
<1>2. w \in Int /\ w > 0 /\ h \in Int
  BY <1>1, CalculatorAssumption
<1>3. INT_MIN = -((h - 1) + 1)
  BY <1>1 DEF INT_MIN, INT_MAX
<1>4. INT_MIN \in Int
  BY <1>2, <1>3
<1>5. Wrap(x) = ((x - INT_MIN) % w) + INT_MIN
  BY <1>1 DEF Wrap
<1>6. \A y \in Int : y % w \in Int
  BY <1>2
<1> QED
  BY <1>4, <1>5, <1>6

\* An unsigned number is printed as characters.
LEMMA UnsignedText ==
  ASSUME NEW x \in Int PROVE print_uint32(x) \in Seq(Chars)
<1>1. PICK w : w = 2 ^ BITS
  OBVIOUS
<1>2. w \in Int /\ w > 0
  BY <1>1, CalculatorAssumption
<1>3. x % w \in Nat
  BY <1>2
<1>4. Decimal[x % w] \in Seq(Range(Digits))
  BY <1>3, DecimalDigits
<1>5. print_uint32(x) = Decimal[x % w]
  BY <1>1 DEF print_uint32, Unsigned
<1> QED
  BY <1>4, <1>5, DigitsShow, SeqMonotonic

\* So is a signed one.
LEMMA IntText ==
  ASSUME NEW x \in Int PROVE print_int32(x) \in Seq(Chars)
<1>1. CASE x < 0
  <2>1. -x \in Nat
    BY <1>1
  <2>2. Decimal[-x] \in Seq(Chars)
    BY <2>1, DecimalDigits, DigitsShow, SeqMonotonic
  <2>3. "-" \in Chars
    BY ShellAssumption
  <2> QED
    BY <1>1, <2>2, <2>3 DEF print_int32
<1>2. CASE ~(x < 0)
  <2>1. x \in Nat
    BY <1>2
  <2>2. Decimal[x] \in Seq(Chars)
    BY <2>1, DecimalDigits, DigitsShow, SeqMonotonic
  <2> QED
    BY <1>2, <2>2 DEF print_int32
<1> QED
  BY <1>1, <1>2

\* What a token or a calculation reads: the digits are known to be ten.
LEMMA DigitChars == Range(Digits) = {"0", "1", "2", "3", "4", "5", "6", "7", "8", "9"}
<1>1. DOMAIN Digits = 1 .. 10
  BY DEF Digits
<1>2. Range(Digits) = {Digits[i] : i \in 1 .. 10}
  BY <1>1 DEF Range
<1>3. 1 .. 10 = {1, 2, 3, 4, 5, 6, 7, 8, 9, 10}
  OBVIOUS
<1>4. /\ Digits[1] = "0" /\ Digits[2] = "1" /\ Digits[3] = "2" /\ Digits[4] = "3"
      /\ Digits[5] = "4" /\ Digits[6] = "5" /\ Digits[7] = "6" /\ Digits[8] = "7"
      /\ Digits[9] = "8" /\ Digits[10] = "9"
  BY DEF Digits
<1> QED
  BY <1>2, <1>3, <1>4

\* The value of a digit.
LEMMA DigitValueIsInt ==
  ASSUME NEW c \in Range(Digits) PROVE DigitValue[c] \in Int
<1>1. PICK k \in 1 .. 10 : Digits[k] = c
  BY DEF Digits, Range
<1>2. PICK i : i = CHOOSE j \in 1 .. 10 : Digits[j] = c
  OBVIOUS
<1>3. i \in 1 .. 10
  BY <1>1, <1>2
<1>4. DigitValue[c] = i - 1
  BY <1>2 DEF DigitValue
<1> QED
  BY <1>3, <1>4

\* A number read digit by digit, wrapping, is an integer.
LEMMA DigitsRead ==
  ASSUME NEW text \in Seq(Range(Digits))
  PROVE  FoldLeft(LAMBDA v, c : Wrap(v * 10 + DigitValue[c]), 0, text) \in Int
<1>1. PICK n \in Nat : n = Len(text) /\ DOMAIN text = 1 .. n
  OBVIOUS
<1>2. FoldLeft(LAMBDA v, c : Wrap(v * 10 + DigitValue[c]), 0, text)
        = LoopEnd("read", 0, text, n)
  BY <1>1 DEF FoldLeft, MapThenFoldSet, Max, Highest, LoopEnd, Looped, Turn
<1>3. PICK after : InTurn("read", 0, text, n, LoopEnd("read", 0, text, n), after)
  BY LoopInTurn
<1> DEFINE Bad == {i \in 0 .. n : after[i] \notin Int}
<1>4. Bad = {}
  <2> SUFFICES ASSUME Bad # {} PROVE FALSE
    OBVIOUS
  <2>1. Bad \in SUBSET Nat
    OBVIOUS
  <2>2. PICK k \in Bad : \A j \in Bad : k <= j
    <3> HIDE DEF Bad
    <3> QED
      BY <2>1, LeastElement
  <2>3. k # 0
    BY <1>3, <2>2 DEF InTurn
  <2>4. k - 1 \in 0 .. n - 1 /\ (k - 1) + 1 = k /\ k - 1 < k /\ k \in 1 .. n
        /\ k - 1 \in 0 .. n
    BY <2>2, <2>3
  <2>5. after[k - 1] \in Int
    BY <2>2, <2>4
  <2>6. DigitValue[text[k]] \in Int
    BY <1>1, <2>4, DigitValueIsInt
  <2>7. after[k] = Wrap(after[k - 1] * 10 + DigitValue[text[k]])
    BY <1>3, <2>4 DEF InTurn, Turn
  <2>8. after[k] \in Int
    <3>1. after[k - 1] * 10 + DigitValue[text[k]] \in Int
      BY <2>5, <2>6
    <3> QED
      BY <2>7, <3>1, WrapIsInt
  <2> QED
    BY <2>2, <2>8
<1>5. after[n] \in Int
  BY <1>1, <1>4
<1> QED
  BY <1>2, <1>3, <1>5 DEF InTurn

\* The positions that a search in a string which ends with a NUL can stop at.
LEMMA SpacesSkipped ==
  ASSUME NEW S, NEW s \in Seq(S), NEW p \in 1 .. Len(s) + 1
  PROVE  skip_spaces(s, p) \in p .. Len(s) + 1
<1>1. PICK T : T = {q \in p .. Len(s) + 1 : CharAt(s, q) \notin Blanks}
  OBVIOUS
<1>2. PICK n \in Nat : n = Len(s)
  OBVIOUS
<1>3. CharAt(s, n + 1) = NUL
  BY <1>2 DEF CharAt
<1>4. n + 1 \in T /\ T \in SUBSET Nat
  <2>1. NUL \notin Blanks
    BY DEF Blanks, NUL
  <2>2. p \in Nat /\ n + 1 \in p .. n + 1
    BY <1>2
  <2> QED
    BY <1>1, <1>2, <1>3, <2>1, <2>2
<1>5. Least(T) \in T
  BY <1>4, LeastOf
<1> QED
  BY <1>1, <1>5 DEF skip_spaces

\* A number read from a line, and the place behind it, which is on the line or
\* at its end.
LEMMA TokenRead ==
  ASSUME NEW S, NEW s \in Seq(S), NEW p \in 1 .. Len(s) + 1
  PROVE  /\ parse_int_token(s, p).value \in Int
         /\ parse_int_token(s, p).next \in 1 .. Len(s) + 1
<1>1. PICK n \in Nat : n = Len(s)
  OBVIOUS
<1>2. PICK start, first : /\ start = skip_spaces(s, p)
                          /\ first = IF CharAt(s, start) \in Signs THEN start + 1 ELSE start
  OBVIOUS
<1>3. PICK T : T = {q \in first .. n + 1 : CharAt(s, q) \notin Range(Digits)}
  OBVIOUS
<1>4. PICK after, text, result :
        /\ after = Least(T) /\ text = SubSeq(s, first, after - 1)
        /\ result = FoldLeft(LAMBDA v, c : Wrap(v * 10 + DigitValue[c]), 0, text)
  OBVIOUS
<1>5. start \in 1 .. n + 1
  <2>1. start \in p .. n + 1
    BY <1>1, <1>2, SpacesSkipped
  <2> QED
    BY <1>1, <2>1
<1>6. first \in 1 .. n + 1
  <2>1. CASE CharAt(s, start) \in Signs
    <3>1. CharAt(s, start) # NUL
      BY <2>1 DEF Signs, NUL
    <3>2. start <= n
      BY <1>1, <3>1 DEF CharAt
    <3> QED
      BY <1>1, <1>2, <1>5, <2>1, <3>2
  <2>2. CASE CharAt(s, start) \notin Signs
    BY <1>2, <1>5, <2>2
  <2> QED
    BY <2>1, <2>2
<1>7. n + 1 \in T /\ T \in SUBSET Nat
  <2>1. CharAt(s, n + 1) = NUL
    BY <1>1 DEF CharAt
  <2>2. NUL \notin Range(Digits)
    BY DigitChars DEF NUL
  <2> QED
    BY <1>1, <1>3, <1>6, <2>1, <2>2
<1>8. after \in T /\ after \in Nat /\ \A q \in Nat : q < after => q \notin T
  BY <1>4, <1>7, LeastOf
<1>9. after \in 1 .. n + 1
  BY <1>1, <1>3, <1>6, <1>8
<1>10. ASSUME NEW i \in first .. after - 1 PROVE s[i] \in Range(Digits)
  <2>1. i \in Nat /\ i < after /\ i \in first .. n + 1 /\ i <= n
    BY <1>1, <1>6, <1>9
  <2>2. CharAt(s, i) \in Range(Digits)
    BY <1>3, <1>8, <2>1
  <2> QED
    BY <1>1, <2>1, <2>2 DEF CharAt
<1>11. text \in Seq(Range(Digits))
  <2>1. first \in Int /\ after - 1 \in Int
    BY <1>1, <1>6, <1>9
  <2> QED
    BY <1>4, <1>10, <2>1, SubSeqProperties
<1>12. result \in Int
  BY <1>4, <1>11, DigitsRead
<1>13. parse_int_token(s, p)
         = [ok |-> first < after, next |-> after,
            value |-> IF CharAt(s, start) = "-" THEN Wrap(-result) ELSE result]
  BY <1>1, <1>2, <1>3, <1>4 DEF parse_int_token
<1>14. Wrap(-result) \in Int
  BY <1>12, WrapIsInt
<1> QED
  BY <1>1, <1>9, <1>12, <1>13, <1>14

\* An expression that is accepted has two integers and an operator.
LEMMA ExpressionParsed ==
  ASSUME NEW s \in Seq(Keys), parse_expression(s).ok
  PROVE  /\ parse_expression(s).left \in Int /\ parse_expression(s).right \in Int
         /\ parse_expression(s).op \in Operators
<1>1. PICK n \in Nat : n = Len(s)
  OBVIOUS
<1>2. PICK left, op, right : /\ left = parse_int_token(s, 1)
                             /\ op = skip_spaces(s, left.next)
                             /\ right = parse_int_token(s, op + 1)
  OBVIOUS
<1>3. PICK e : e = parse_expression(s)
  OBVIOUS
<1>4. e = IF /\ left.ok
             /\ CharAt(s, op) \in Operators
             /\ right.ok
             /\ skip_spaces(s, right.next) = Len(s) + 1
          THEN [ok |-> TRUE, left |-> left.value, op |-> s[op], right |-> right.value]
          ELSE [ok |-> FALSE]
  BY <1>2, <1>3 DEF parse_expression
<1>5. /\ CharAt(s, op) \in Operators
      /\ e = [ok |-> TRUE, left |-> left.value, op |-> s[op], right |-> right.value]
  BY <1>3, <1>4
<1>6. 1 \in 1 .. n + 1
  BY <1>1
<1>7. left.value \in Int /\ left.next \in 1 .. n + 1
  BY <1>1, <1>2, <1>6, TokenRead
<1>8. op \in 1 .. n + 1
  <2>1. op \in left.next .. n + 1
    BY <1>1, <1>2, <1>7, SpacesSkipped
  <2> QED
    BY <1>1, <1>7, <2>1
<1>9. op <= n /\ s[op] \in Operators
  <2>1. CharAt(s, op) # NUL
    BY <1>5 DEF Operators, NUL
  <2> QED
    BY <1>1, <1>5, <2>1 DEF CharAt
<1>10. op + 1 \in 1 .. n + 1
  BY <1>1, <1>8, <1>9
<1>11. right.value \in Int
  BY <1>1, <1>2, <1>10, TokenRead
<1> QED
  BY <1>3, <1>5, <1>7, <1>9, <1>11

\* What calc answers: a kind, and for a result a text that can be shown.
Answer(o) ==
  /\ o.kind \in {"result", "usage", "help", "error", "trap"}
  /\ o.kind = "result" => o.text \in Seq(Chars)

\* A number is an answer.
LEMMA ResultAnswers ==
  ASSUME NEW x \in Int PROVE Answer(print_result(x))
BY IntText DEF Answer, print_result, Result

\* The quotient of a division that is made.
LEMMA QuotientIsInt ==
  ASSUME NEW a \in Int, NEW b \in Int, b # 0 PROVE Quotient(a, b) \in Int
<1>1. Abs(a) \in Nat /\ Abs(b) \in Nat \ {0}
  BY DEF Abs
<1>2. \A x \in Nat, y \in Nat \ {0} : x \div y \in Int /\ -(x \div y) \in Int
  OBVIOUS
<1> QED
  BY <1>1, <1>2 DEF Quotient

\* Each of the four calculations answers.
LEMMA CalculationAnswers ==
  ASSUME NEW a \in Int, NEW b \in Int
  PROVE  /\ Answer(calc_add(a, b)) /\ Answer(calc_sub(a, b))
         /\ Answer(calc_mul(a, b)) /\ Answer(calc_div(a, b))
<1>1. Answer(calc_add(a, b))
  <2>1. a + b \in Int
    OBVIOUS
  <2> QED
    BY <2>1, WrapIsInt, ResultAnswers DEF calc_add
<1>2. Answer(calc_sub(a, b))
  <2>1. a - b \in Int
    OBVIOUS
  <2> QED
    BY <2>1, WrapIsInt, ResultAnswers DEF calc_sub
<1>3. Answer(calc_mul(a, b))
  <2>1. a * b \in Int
    OBVIOUS
  <2> QED
    BY <2>1, WrapIsInt, ResultAnswers DEF calc_mul
<1>4. Answer(calc_div(a, b))
  <2>1. CASE b = 0
    BY <2>1 DEF calc_div, Outcome, Answer
  <2>2. CASE b # 0 /\ Quotient(a, b) \notin Ints
    BY <2>2 DEF calc_div, Outcome, Answer
  <2>3. CASE b # 0 /\ Quotient(a, b) \in Ints
    <3>1. calc_div(a, b) = print_result(Quotient(a, b))
      BY <2>3 DEF calc_div
    <3> QED
      BY <2>3, <3>1, QuotientIsInt, ResultAnswers
  <2> QED
    BY <2>1, <2>2, <2>3
<1> QED
  BY <1>1, <1>2, <1>3, <1>4

\* A command's arguments: none, or a string of what keys give.
Arguments == {Null} \cup Seq(Keys)

\* The calculator answers whatever it is asked.
LEMMA CalcAnswers ==
  ASSUME NEW args \in Arguments PROVE Answer(calc_init(args))
<1>1. ASSUME NEW kind \in {"usage", "help"} PROVE Answer(Outcome(kind))
  BY DEF Outcome, Answer
<1>2. CASE args = Null
  BY <1>1, <1>2 DEF calc_init
<1>3. CASE args # Null /\ is_help_request(args)
  BY <1>1, <1>3 DEF calc_init
<1>4. CASE args # Null /\ ~is_help_request(args)
  <2>1. PICK e : e = parse_expression(args)
    OBVIOUS
  <2>2. calc_init(args) = IF e.ok THEN calc_expression(e) ELSE Outcome("usage")
    BY <1>4, <2>1 DEF calc_init
  <2>3. CASE ~e.ok
    BY <1>1, <2>2, <2>3
  <2>4. CASE e.ok
    <3>1. args \in Seq(Keys)
      BY <1>4 DEF Arguments
    <3>2. e.left \in Int /\ e.right \in Int /\ e.op \in Operators
      BY <2>1, <2>4, <3>1, ExpressionParsed
    <3>3. /\ e.op = "+" => calc_expression(e) = calc_add(e.left, e.right)
          /\ e.op = "-" => calc_expression(e) = calc_sub(e.left, e.right)
          /\ e.op = "*" => calc_expression(e) = calc_mul(e.left, e.right)
          /\ e.op = "/" => calc_expression(e) = calc_div(e.left, e.right)
      BY DEF calc_expression
    <3>4. Answer(calc_expression(e))
      BY <3>2, <3>3, CalculationAnswers DEF Operators
    <3> QED
      BY <2>2, <2>4, <3>4
  <2> QED
    BY <2>3, <2>4
<1> QED
  BY <1>2, <1>3, <1>4

-----------------------------------------------------------------------------

(* The width of an int. *)

\* The least and the greatest int are 2 ^ BITS - 1 apart, around 0.
LEMMA Widths ==
  /\ 2 ^ BITS \in Nat \ {0} /\ INT_MIN \in Int /\ INT_MAX \in Nat
  /\ INT_MAX = INT_MIN + 2 ^ BITS - 1 /\ INT_MIN = -INT_MAX - 1
<1>1. PICK w, h : w = 2 ^ BITS /\ h = 2 ^ (BITS - 1)
  OBVIOUS
<1>2. w \in Int /\ w > 0 /\ h \in Int /\ w = 2 * h
  <2>1. BITS \in 1 .. BITS
    BY CalculatorAssumption
  <2> QED
    BY <1>1, <2>1, CalculatorAssumption
<1>3. INT_MAX = h - 1 /\ INT_MIN = -((h - 1) + 1)
  BY <1>1 DEF INT_MIN, INT_MAX
<1> QED
  BY <1>1, <1>2, <1>3

\* A number other than 0, a width of times, is at least a width away from 0.
LEMMA WidthAway ==
  ASSUME NEW w \in Nat \ {0}, NEW d \in Int, d # 0
  PROVE  w * d >= w \/ w * d <= -w
<1>1. CASE d >= 1
  <2>1. PICK e \in Nat : d = e + 1
    BY <1>1
  <2>2. w * e \in Nat /\ w * d = w * e + w
    BY <2>1
  <2> QED
    BY <2>2
<1>2. CASE d <= -1
  <2>1. PICK e \in Nat : d = -(e + 1)
    <3>1. -d - 1 \in Nat /\ d = -((-d - 1) + 1)
      BY <1>2
    <3> QED
      BY <3>1
  <2>2. w * e \in Nat /\ w * d = -(w * e + w)
    BY <2>1
  <2> QED
    BY <2>2
<1> QED
  BY <1>1, <1>2

\* A number wraps to an int, a multiple of the width away.
LEMMA WrapParts ==
  ASSUME NEW x \in Int
  PROVE  /\ Wrap(x) \in Ints
         /\ \E k \in Int : x = Wrap(x) + 2 ^ BITS * k
<1>1. PICK w, low, y : w = 2 ^ BITS /\ low = INT_MIN /\ y = x - low
  OBVIOUS
<1>2. w \in Nat \ {0} /\ low \in Int /\ y \in Int /\ INT_MAX = low + w - 1
  BY <1>1, Widths
<1>3. PICK q, m : q = y \div w /\ m = y % w
  OBVIOUS
<1>4. q \in Int /\ m \in 0 .. w - 1 /\ y = w * q + m
  BY <1>2, <1>3
<1>5. Wrap(x) = m + low
  BY <1>1, <1>3 DEF Wrap
<1>6. m + low \in Ints
  BY <1>1, <1>2, <1>4 DEF Ints
<1>7. x = (m + low) + w * q
  <2>1. PICK p : p = w * q
    OBVIOUS
  <2>2. p \in Int /\ m \in Int /\ y = p + m /\ y = x - low
    BY <1>1, <1>2, <1>4, <2>1
  <2> QED
    BY <1>2, <2>1, <2>2
<1> QED
  BY <1>1, <1>4, <1>5, <1>6, <1>7

\* It is the only int that is.
LEMMA WrapIs ==
  ASSUME NEW x \in Int, NEW y \in Ints, NEW k \in Int, x = y + 2 ^ BITS * k
  PROVE  Wrap(x) = y
<1>1. PICK w : w = 2 ^ BITS
  OBVIOUS
<1>2. PICK z, j : z \in Ints /\ j \in Int /\ z = Wrap(x) /\ x = z + w * j
  BY <1>1, WrapParts
<1>3. /\ w \in Nat \ {0} /\ INT_MIN \in Int /\ INT_MAX = INT_MIN + w - 1
      /\ y \in Int /\ z \in Int
      /\ INT_MIN <= y /\ y <= INT_MAX /\ INT_MIN <= z /\ z <= INT_MAX
  BY <1>1, <1>2, Widths DEF Ints
<1>4. w * (k - j) = z - y /\ (k = j => z = y)
  <2>1. w \in Int /\ w * (k - j) = w * k - w * j /\ w * k \in Int /\ w * j \in Int
    BY <1>2, <1>3
  <2>2. x = y + w * k
    BY <1>1
  <2>3. PICK a, b : a = w * k /\ b = w * j
    OBVIOUS
  <2>4. x = z + b /\ x = y + a /\ a \in Int /\ b \in Int /\ w * (k - j) = a - b
        /\ (k = j => a = b)
    BY <1>2, <2>1, <2>2, <2>3
  <2> QED
    BY <1>3, <2>4
<1>5. ~(w * (k - j) >= w \/ w * (k - j) <= -w)
  BY <1>3, <1>4
<1>6. k - j = 0
  <2>1. k - j \in Int
    BY <1>2
  <2> QED
    BY <1>3, <1>5, <2>1, WidthAway
<1>7. k = j
  BY <1>2, <1>6
<1> QED
  BY <1>2, <1>4, <1>7

\* Numbers a multiple of the width apart wrap to one int.
LEMMA WrapSame ==
  ASSUME NEW x \in Int, NEW z \in Int, NEW k \in Int, x = z + 2 ^ BITS * k
  PROVE  Wrap(x) = Wrap(z)
<1>1. PICK w \in Nat : w = 2 ^ BITS
  BY Widths
<1>2. PICK y, j : y \in Ints /\ j \in Int /\ y = Wrap(z) /\ z = y + w * j
  BY <1>1, WrapParts
<1>3. y \in Int
  BY <1>2, Widths DEF Ints
<1>4. x = y + w * (j + k)
  BY <1>1, <1>2, <1>3
<1>5. j + k \in Int
  BY <1>2
<1> QED
  BY <1>1, <1>2, <1>4, <1>5, WrapIs

\* Wrapping in between changes nothing.
LEMMA WrapInside ==
  ASSUME NEW x \in Int, NEW d \in Int
  PROVE  Wrap(Wrap(x) * 10 + d) = Wrap(x * 10 + d) /\ Wrap(-Wrap(x)) = Wrap(-x)
<1>1. PICK w \in Nat : w = 2 ^ BITS
  BY Widths
<1>2. PICK y, k : y \in Ints /\ k \in Int /\ y = Wrap(x) /\ x = y + w * k
  BY <1>1, WrapParts
<1>3. y \in Int
  BY <1>2, Widths DEF Ints
<1>4. x * 10 + d = (y * 10 + d) + w * (10 * k) /\ -x = -y + w * (-k)
  BY <1>1, <1>2, <1>3
<1>5. /\ x * 10 + d \in Int /\ y * 10 + d \in Int /\ 10 * k \in Int
      /\ -x \in Int /\ -y \in Int /\ -k \in Int
  BY <1>2, <1>3
<1> QED
  BY <1>1, <1>2, <1>4, <1>5, WrapSame

-----------------------------------------------------------------------------

(* Numbers read. *)

\* The digits, and their values.
LEMMA DigitValueIs ==
  ASSUME NEW i \in 1 .. 10
  PROVE  Digits[i] \in Range(Digits) /\ DigitValue[Digits[i]] = i - 1
<1>1. Digits[i] \in Range(Digits)
  BY DEF Digits, Range
<1>2. \A j \in 1 .. 10 : Digits[j] = Digits[i] => j = i
  BY DEF Digits
<1>3. PICK j : j = CHOOSE k \in 1 .. 10 : Digits[k] = Digits[i]
  OBVIOUS
<1>4. j \in 1 .. 10 /\ Digits[j] = Digits[i]
  BY <1>3
<1>5. DigitValue[Digits[i]] = j - 1
  BY <1>1, <1>3 DEF DigitValue
<1> QED
  BY <1>1, <1>2, <1>4, <1>5

\* The value of a digit is a natural number.
LEMMA DigitValueIsNat ==
  ASSUME NEW c \in Range(Digits) PROVE DigitValue[c] \in Nat
<1>1. PICK k \in 1 .. 10 : Digits[k] = c
  BY DEF Digits, Range
<1>2. DigitValue[c] = k - 1
  BY <1>1, DigitValueIs
<1> QED
  BY <1>2

\* What a number means, counted digit by digit.
LEMMA NumberInTurn ==
  ASSUME NEW text \in Seq(Range(Digits))
  PROVE  \E after : /\ InTurn("count", 0, text, Len(text), NumberOf(text), after)
                    /\ \A i \in 0 .. Len(text) : after[i] \in Nat
<1>1. PICK n \in Nat : n = Len(text) /\ DOMAIN text = 1 .. n
  OBVIOUS
<1>2. NumberOf(text) = LoopEnd("count", 0, text, n)
  BY <1>1 DEF NumberOf, FoldLeft, MapThenFoldSet, Max, Highest, LoopEnd, Looped, Turn
<1>3. PICK after : InTurn("count", 0, text, n, LoopEnd("count", 0, text, n), after)
  BY LoopInTurn
<1> DEFINE Bad == {i \in 0 .. n : after[i] \notin Nat}
<1>4. Bad = {}
  <2> SUFFICES ASSUME Bad # {} PROVE FALSE
    OBVIOUS
  <2>1. Bad \in SUBSET Nat
    OBVIOUS
  <2>2. PICK k \in Bad : \A j \in Bad : k <= j
    <3> HIDE DEF Bad
    <3> QED
      BY <2>1, LeastElement
  <2>3. k # 0
    BY <1>3, <2>2 DEF InTurn
  <2>4. k - 1 \in 0 .. n - 1 /\ (k - 1) + 1 = k /\ k - 1 < k /\ k \in 1 .. n
        /\ k - 1 \in 0 .. n
    BY <2>2, <2>3
  <2>5. after[k - 1] \in Nat
    BY <2>2, <2>4
  <2>6. DigitValue[text[k]] \in Nat
    BY <1>1, <2>4, DigitValueIsNat
  <2>7. after[k] = after[k - 1] * 10 + DigitValue[text[k]]
    BY <1>3, <2>4 DEF InTurn, Turn
  <2>8. after[k] \in Nat
    BY <2>5, <2>6, <2>7
  <2> QED
    BY <2>2, <2>8
<1>5. \A i \in 0 .. n : after[i] \in Nat
  BY <1>4
<1> QED
  BY <1>1, <1>2, <1>3, <1>5

\* It is a natural number.
LEMMA NumberIsNat ==
  ASSUME NEW text \in Seq(Range(Digits)) PROVE NumberOf(text) \in Nat
<1>1. PICK after : /\ InTurn("count", 0, text, Len(text), NumberOf(text), after)
                   /\ \A i \in 0 .. Len(text) : after[i] \in Nat
  BY NumberInTurn
<1>2. Len(text) \in 0 .. Len(text)
  OBVIOUS
<1> QED
  BY <1>1, <1>2 DEF InTurn

\* The loop of parse_int_token, which wraps at every digit, comes to the number
\* its digits mean, wrapped.
LEMMA WrappedNumber ==
  ASSUME NEW text \in Seq(Range(Digits))
  PROVE  FoldLeft(LAMBDA v, c : Wrap(v * 10 + DigitValue[c]), 0, text)
           = Wrap(NumberOf(text))
<1>1. PICK n \in Nat : n = Len(text) /\ DOMAIN text = 1 .. n
  OBVIOUS
<1>2. PICK result : result = FoldLeft(LAMBDA v, c : Wrap(v * 10 + DigitValue[c]), 0, text)
  OBVIOUS
<1>3. result = LoopEnd("read", 0, text, n)
  BY <1>1, <1>2 DEF FoldLeft, MapThenFoldSet, Max, Highest, LoopEnd, Looped, Turn
<1>4. PICK read : InTurn("read", 0, text, n, result, read)
  BY <1>3, LoopInTurn
<1>5. PICK count : /\ InTurn("count", 0, text, n, NumberOf(text), count)
                   /\ \A i \in 0 .. n : count[i] \in Nat
  BY <1>1, NumberInTurn
<1> DEFINE Bad == {i \in 0 .. n : read[i] # Wrap(count[i])}
<1>6. Bad = {}
  <2> SUFFICES ASSUME Bad # {} PROVE FALSE
    OBVIOUS
  <2>1. Bad \in SUBSET Nat
    OBVIOUS
  <2>2. PICK k \in Bad : \A j \in Bad : k <= j
    <3> HIDE DEF Bad
    <3> QED
      BY <2>1, LeastElement
  <2>3. k # 0
    <3>1. read[0] = 0 /\ count[0] = 0
      BY <1>4, <1>5 DEF InTurn
    <3>2. 0 \in Ints /\ 0 = 0 + 2 ^ BITS * 0
      <4>1. 0 \in Ints
        BY Widths DEF Ints
      <4>2. \A w \in Nat : 0 = 0 + w * 0
        OBVIOUS
      <4> QED
        BY <4>1, <4>2, Widths
    <3>3. Wrap(0) = 0
      BY <3>2, WrapIs
    <3> QED
      BY <2>2, <3>1, <3>3
  <2>4. k - 1 \in 0 .. n - 1 /\ (k - 1) + 1 = k /\ k - 1 < k /\ k \in 1 .. n
        /\ k - 1 \in 0 .. n
    BY <2>2, <2>3
  <2>5. read[k - 1] = Wrap(count[k - 1]) /\ count[k - 1] \in Int
    BY <1>5, <2>2, <2>4
  <2>6. DigitValue[text[k]] \in Int
    BY <1>1, <2>4, DigitValueIsInt
  <2>7. /\ read[k] = Wrap(read[k - 1] * 10 + DigitValue[text[k]])
        /\ count[k] = count[k - 1] * 10 + DigitValue[text[k]]
    BY <1>4, <1>5, <2>4 DEF InTurn, Turn
  <2>8. read[k] = Wrap(count[k])
    BY <2>5, <2>6, <2>7, WrapInside
  <2> QED
    BY <2>2, <2>8
<1>7. read[n] = Wrap(count[n])
  BY <1>1, <1>6
<1> QED
  BY <1>2, <1>4, <1>5, <1>7 DEF InTurn

\* No digits mean 0, ...
LEMMA NumberEmpty == NumberOf(<< >>) = 0
<1>1. << >> \in Seq(Range(Digits)) /\ Len(<< >>) = 0
  OBVIOUS
<1>2. PICK after : InTurn("count", 0, << >>, 0, NumberOf(<< >>), after)
  BY <1>1, NumberInTurn
<1> QED
  BY <1>2 DEF InTurn

\* ... and a digit behind others makes them count ten times.
LEMMA NumberLonger ==
  ASSUME NEW text \in Seq(Range(Digits)), NEW d \in Range(Digits)
  PROVE  NumberOf(Append(text, d)) = NumberOf(text) * 10 + DigitValue[d]
<1>1. PICK n \in Nat, more \in Seq(Range(Digits)) :
        /\ n = Len(text) /\ more = Append(text, d) /\ Len(more) = n + 1
        /\ more[n + 1] = d /\ \A i \in 1 .. n : more[i] = text[i]
  <2>1. /\ Append(text, d) \in Seq(Range(Digits)) /\ Len(text) \in Nat
        /\ Len(Append(text, d)) = Len(text) + 1
    OBVIOUS
  <2>2. /\ Append(text, d)[Len(text) + 1] = d
        /\ \A i \in 1 .. Len(text) : Append(text, d)[i] = text[i]
    BY <2>1, AppendProperties
  <2> QED
    BY <2>1, <2>2
<1>2. PICK short : InTurn("count", 0, text, n, NumberOf(text), short)
  BY <1>1, NumberInTurn
<1>3. PICK long : InTurn("count", 0, more, n + 1, NumberOf(more), long)
  BY <1>1, NumberInTurn
<1> DEFINE Bad == {i \in 0 .. n : short[i] # long[i]}
<1>4. Bad = {}
  <2> SUFFICES ASSUME Bad # {} PROVE FALSE
    OBVIOUS
  <2>1. Bad \in SUBSET Nat
    OBVIOUS
  <2>2. PICK k \in Bad : \A j \in Bad : k <= j
    <3> HIDE DEF Bad
    <3> QED
      BY <2>1, LeastElement
  <2>3. k # 0
    BY <1>2, <1>3, <2>2 DEF InTurn
  <2>4. k - 1 \in 0 .. n - 1 /\ (k - 1) + 1 = k /\ k - 1 < k /\ k \in 1 .. n
        /\ k - 1 \in 0 .. n /\ k - 1 \in 0 .. (n + 1) - 1
    BY <2>2, <2>3
  <2>5. short[k - 1] = long[k - 1]
    <3>1. k - 1 \notin Bad
      <4>1. k - 1 < k /\ k \in Nat /\ k - 1 \in Nat
        BY <2>4
      <4>2. \A j \in Bad : k <= j
        BY <2>2
      <4> HIDE DEF Bad
      <4> QED
        BY <4>1, <4>2
    <3>2. k - 1 \in 0 .. n
      BY <2>4
    <3> QED
      BY <3>1, <3>2
  <2>6. /\ short[k] = short[k - 1] * 10 + DigitValue[text[k]]
        /\ long[k] = long[k - 1] * 10 + DigitValue[more[k]]
    BY <1>2, <1>3, <2>4 DEF InTurn, Turn
  <2> QED
    BY <1>1, <2>2, <2>4, <2>5, <2>6
<1>5. long[n] = NumberOf(text)
  BY <1>2, <1>4 DEF InTurn
<1>6. n \in 0 .. (n + 1) - 1
  OBVIOUS
<1>7. NumberOf(more) = long[n] * 10 + DigitValue[more[n + 1]]
  BY <1>3, <1>6 DEF InTurn, Turn
<1> QED
  BY <1>1, <1>5, <1>7

\* The digits that are printed of a number mean it.
LEMMA DecimalReads ==
  ASSUME NEW n \in Nat
  PROVE  NumberOf(Decimal[n]) = n /\ Decimal[n] # << >>
<1> DEFINE Bad == {k \in Nat : NumberOf(Decimal[k]) # k \/ Decimal[k] = << >>}
<1> SUFFICES ASSUME Bad # {} PROVE FALSE
  OBVIOUS
<1>1. PICK k \in Bad : \A j \in Bad : k <= j
  BY LeastElement
<1>2. CASE k < 10
  <2>1. PICK d : d = Digits[k + 1]
    OBVIOUS
  <2>2. k + 1 \in 1 .. 10 /\ (k + 1) - 1 = k
    BY <1>2
  <2>3. d \in Range(Digits) /\ DigitValue[d] = k
    BY <2>1, <2>2, DigitValueIs
  <2>4. Decimal[k] = <<d>>
    BY <1>2, <2>1, DecimalEquation DEF DigitsFrom
  <2>5. << >> \in Seq(Range(Digits)) /\ Append(<< >>, d) = <<d>>
    OBVIOUS
  <2>6. NumberOf(<<d>>) = 0 * 10 + k
    BY <2>3, <2>5, NumberEmpty, NumberLonger
  <2> QED
    BY <1>1, <2>4, <2>6
<1>3. CASE ~(k < 10)
  <2>1. PICK t, d, q, m : /\ q = k \div 10 /\ m = k % 10
                          /\ t = Decimal[q] /\ d = Digits[m + 1]
    OBVIOUS
  <2>2. q \in Nat /\ q < k /\ m \in Nat /\ m + 1 \in 1 .. 10 /\ k = q * 10 + m
        /\ (m + 1) - 1 = m
    BY <1>3, <2>1, TenthIsLess
  <2>3. d \in Range(Digits) /\ DigitValue[d] = m
    BY <2>1, <2>2, DigitValueIs
  <2>4. t \in Seq(Range(Digits)) /\ NumberOf(t) = q
    BY <1>1, <2>1, <2>2, DecimalDigits
  <2>5. Decimal[k] = Append(t, d)
    BY <1>3, <2>1, DecimalEquation DEF DigitsFrom
  <2>6. NumberOf(Append(t, d)) = k
    BY <2>2, <2>3, <2>4, NumberLonger
  <2>7. Append(t, d) # << >>
    BY <2>3, <2>4
  <2> QED
    BY <1>1, <2>5, <2>6, <2>7
<1> QED
  BY <1>2, <1>3

\* An int that is printed is a number that means it.
LEMMA IntReads ==
  ASSUME NEW x \in Int PROVE Reads(print_int32(x), x)
<1>1. /\ "-" \notin Range(Digits) /\ "+" \notin Range(Digits)
  BY DigitChars
<1>2. CASE ~(x < 0)
  <2>1. PICK t, n : t = Decimal[x] /\ n = Len(t)
    OBVIOUS
  <2>2. t \in Seq(Range(Digits)) /\ n \in Nat \ {0} /\ NumberOf(t) = x
    BY <1>2, <2>1, DecimalDigits, DecimalReads
  <2>3. \A i \in 1 .. n : t[i] \in Range(Digits)
    BY <2>1, <2>2
  <2>4. t[1] \notin {"-", "+"}
    BY <1>1, <2>2, <2>3
  <2>5. SubSeq(t, 1, n) = t
    BY <2>1, <2>2
  <2>6. IsNumber(t, 1, n) /\ Number(t, 1, n) = x
    <3>1. 1 <= n /\ t[1] # "-"
      BY <2>2, <2>4
    <3>2. IsNumber(t, 1, n)
      BY <2>3, <2>4, <3>1 DEF IsNumber, AllIn
    <3>3. Number(t, 1, n) = x
      BY <2>2, <2>4, <2>5, <3>1 DEF Number
    <3> QED
      BY <3>2, <3>3
  <2>7. print_int32(x) = t
    BY <1>2, <2>1 DEF print_int32
  <2> QED
    BY <2>1, <2>6, <2>7 DEF Reads
<1>3. CASE x < 0
  <2>1. PICK t, n, s : t = Decimal[-x] /\ n = Len(t) /\ s = <<"-">> \o t
    OBVIOUS
  <2>2. t \in Seq(Range(Digits)) /\ n \in Nat \ {0} /\ NumberOf(t) = -x
    <3>1. -x \in Nat
      BY <1>3
    <3> QED
      BY <2>1, <3>1, DecimalDigits, DecimalReads
  <2>3. \A i \in 1 .. n : t[i] \in Range(Digits)
    BY <2>1, <2>2
  <2>4. PICK D : D = Range(Digits) \cup {"-"}
    OBVIOUS
  <2>5. /\ s \in Seq(D) /\ Len(s) = n + 1 /\ s[1] = "-"
        /\ \A i \in 1 .. n : s[i + 1] = t[i]
    <3>1. t \in Seq(D) /\ <<"-">> \in Seq(D) /\ Len(<<"-">>) = 1 /\ <<"-">>[1] = "-"
      BY <2>2, <2>4, SeqMonotonic
    <3> QED
      BY <2>1, <2>2, <3>1, ConcatProperties
  <2>6. \A i \in 2 .. n + 1 : s[i] \in Range(Digits)
    <3>1. ASSUME NEW i \in 2 .. n + 1 PROVE s[i] \in Range(Digits)
      <4>1. i - 1 \in 1 .. n /\ (i - 1) + 1 = i
        BY <2>2
      <4> QED
        BY <2>3, <2>5, <4>1
    <3> QED
      BY <3>1
  <2>7. SubSeq(s, 2, n + 1) = t
    <3>1. PICK u : u = SubSeq(s, 2, n + 1)
      OBVIOUS
    <3>2. /\ u \in Seq(D) /\ Len(u) = n /\ \A i \in 1 .. n : u[i] = s[i + 1]
      <4>1. \A i \in 2 .. n + 1 : s[i] \in D
        BY <2>4, <2>6
      <4>2. /\ u \in Seq(D) /\ Len(u) = (n + 1) - 2 + 1
            /\ \A i \in 1 .. (n + 1) - 2 + 1 : u[i] = s[2 + i - 1]
        BY <2>2, <3>1, <4>1, SubSeqProperties
      <4>3. (n + 1) - 2 + 1 = n /\ \A i \in 1 .. n : 2 + i - 1 = i + 1
        BY <2>2
      <4> QED
        BY <4>2, <4>3
    <3>3. t \in Seq(D)
      BY <2>2, <2>4, SeqMonotonic
    <3>4. \A i \in 1 .. Len(t) : u[i] = t[i]
      BY <2>1, <2>5, <3>2
    <3> QED
      BY <2>1, <3>1, <3>2, <3>3, <3>4, SeqEqual
  <2>8. IsNumber(s, 1, n + 1) /\ Number(s, 1, n + 1) = x
    <3>1. 1 + 1 = 2 /\ 1 <= n + 1 /\ 2 <= n + 1 /\ -(-x) = x
      BY <2>2
    <3> QED
      BY <2>2, <2>5, <2>6, <2>7, <3>1 DEF IsNumber, Number, AllIn
  <2>9. print_int32(x) = s
    BY <1>3, <2>1 DEF print_int32
  <2> QED
    BY <2>5, <2>8, <2>9 DEF Reads
<1> QED
  BY <1>2, <1>3

\* A quotient is at most its dividend, and itself that when divided by 1 alone.
LEMMA NaturalQuotient ==
  ASSUME NEW x \in Nat, NEW y \in Nat \ {0}
  PROVE  /\ x \div y \in Nat /\ x % y \in 0 .. y - 1 /\ x = y * (x \div y) + (x % y)
         /\ x \div y <= x /\ (x \div y = x => x = 0 \/ y = 1)
<1>1. PICK q, m : q = x \div y /\ m = x % y
  OBVIOUS
<1>2. q \in Int /\ m \in 0 .. y - 1 /\ x = y * q + m
  BY <1>1
<1>3. q \in Nat
  BY <1>1
<1>4. PICK z \in Nat : y = z + 1
  <2>1. y - 1 \in Nat /\ y = (y - 1) + 1
    OBVIOUS
  <2> QED
    BY <2>1
<1>5. PICK p : p = z * q
  OBVIOUS
<1>6. p \in Nat /\ y * q = p + q
  BY <1>3, <1>4, <1>5
<1>7. q <= x /\ (q = x => p = 0)
  BY <1>2, <1>3, <1>6
<1>8. p = 0 => z = 0 \/ q = 0
  BY <1>3, <1>4, <1>5
<1> QED
  BY <1>1, <1>2, <1>3, <1>4, <1>7, <1>8

\* The quotient is the one C defines: the remainder is smaller than the divisor
\* and has the sign of the dividend.  It is an int, except the least divided by -1.
LEMMA QuotientMeans ==
  ASSUME NEW a \in Ints, NEW b \in Ints, b # 0
  PROVE  /\ Quotient(a, b) \in Int
         /\ Quotient(a, b) \in Ints <=> ~(a = INT_MIN /\ b = -1)
         /\ Computes("/", a, b, Quotient(a, b))
<1>1. PICK x, y, q, m : /\ x = Abs(a) /\ y = Abs(b) /\ q = x \div y /\ m = x % y
  OBVIOUS
<1>2. a \in Int /\ b \in Int /\ x \in Nat /\ y \in Nat \ {0}
  BY <1>1, Widths DEF Ints, Abs
<1>3. /\ q \in Nat /\ m \in 0 .. y - 1 /\ x = y * q + m
      /\ q <= x /\ (q = x => x = 0 \/ y = 1)
  BY <1>1, <1>2, NaturalQuotient
<1>4. PICK r : r = Quotient(a, b)
  OBVIOUS
<1>5. r = IF (a < 0) = (b < 0) THEN q ELSE -q
  BY <1>1, <1>4 DEF Quotient
<1>6. r \in Int
  BY <1>3, <1>5
<1>7. PICK p \in Nat : p = y * q
  BY <1>2, <1>3
<1>8. b * r = IF a < 0 THEN -p ELSE p
  <2>1. (b < 0 => b = -y) /\ (b >= 0 => b = y)
    BY <1>1, <1>2 DEF Abs
  <2>2. (-y) * q = -p /\ y * (-q) = -p /\ (-y) * (-q) = p
    BY <1>2, <1>3, <1>7
  <2>3. CASE (a < 0) = (b < 0)
    BY <1>2, <1>5, <1>7, <2>1, <2>2, <2>3
  <2>4. CASE (a < 0) # (b < 0)
    BY <1>2, <1>5, <1>7, <2>1, <2>2, <2>4
  <2> QED
    BY <2>3, <2>4
<1>9. a - b * r = IF a < 0 THEN -m ELSE m
  <2>1. a = IF a < 0 THEN -(p + m) ELSE p + m
    BY <1>1, <1>2, <1>3, <1>7 DEF Abs
  <2> QED
    BY <1>2, <1>3, <1>7, <1>8, <2>1
<1>10. PICK d : d = a - b * r
  OBVIOUS
<1>11. d = IF a < 0 THEN -m ELSE m
  BY <1>9, <1>10
<1>12. Abs(d) < Abs(b)
  BY <1>1, <1>2, <1>3, <1>11 DEF Abs
<1>13. d * a >= 0
  <2>1. /\ \A i, j \in Nat : i * j >= 0 /\ (-i) * (-j) >= 0
    OBVIOUS
  <2>2. CASE a < 0
    BY <1>2, <1>3, <1>11, <2>1, <2>2
  <2>3. CASE ~(a < 0)
    BY <1>2, <1>3, <1>11, <2>1, <2>3
  <2> QED
    BY <2>2, <2>3
<1>14. r \in Ints <=> ~(a = INT_MIN /\ b = -1)
  <2>1. PICK low, high : low = INT_MIN /\ high = INT_MAX
    OBVIOUS
  <2>2. low = -high - 1 /\ high \in Nat /\ low <= a /\ a <= high
    BY <2>1, Widths DEF Ints
  <2>3. x <= high + 1 /\ (x = high + 1 => a = low)
    BY <1>1, <1>2, <2>2 DEF Abs
  <2>4. r \in Ints <=> low <= r /\ r <= high
    BY <1>6, <2>1, <2>2 DEF Ints
  <2>5. CASE a = low /\ b = -1
    <3>1. x = high + 1 /\ y = 1
      <4>1. high \in Int /\ a = -high - 1 /\ b = -1 /\ a < 0 /\ b < 0
        BY <2>2, <2>5
      <4>2. x = -a /\ y = -b
        BY <1>1, <4>1 DEF Abs
      <4>3. x = high + 1
        BY <4>1, <4>2
      <4>4. y = 1
        <5>1. b \in Int /\ b + 1 = 0
          BY <1>2, <4>1
        <5> QED
          BY <4>2, <5>1
      <4> QED
        BY <4>3, <4>4
    <3>2. q = high + 1
      BY <1>3, <2>2, <3>1
    <3>3. r = high + 1
      BY <1>5, <2>2, <2>5, <3>2
    <3> QED
      BY <2>1, <2>2, <2>4, <2>5, <3>3
  <2>6. CASE ~(a = low /\ b = -1)
    <3>1. q <= high + 1
      BY <1>2, <1>3, <2>2, <2>3
    <3>2. r > high => q = high + 1 /\ (a < 0) = (b < 0)
      BY <1>3, <1>5, <2>2, <3>1
    <3>3. q = high + 1 => x = high + 1 /\ y = 1 /\ a = low
      BY <1>2, <1>3, <2>2, <2>3
    <3>4. r > high => b = -1 /\ a = low
      BY <1>1, <1>2, <2>2, <3>2, <3>3 DEF Abs
    <3>5. low <= r
      BY <1>3, <1>5, <2>2, <3>1
    <3> QED
      BY <1>6, <2>1, <2>2, <2>4, <2>6, <3>4, <3>5
  <2> QED
    BY <2>5, <2>6
<1> QED
  BY <1>4, <1>6, <1>10, <1>12, <1>13, <1>14 DEF Computes

-----------------------------------------------------------------------------

(* Expressions. *)

\* Least finds a number that is known to be the least one.
LEMMA LeastIs ==
  ASSUME NEW T \in SUBSET Nat, NEW m \in T, \A q \in T : m <= q
  PROVE  Least(T) = m
<1>1. PICK x : x = Least(T)
  OBVIOUS
<1>2. x \in T /\ \A q \in Nat : q < x => q \notin T
  BY <1>1, LeastOf
<1>3. x \in Nat /\ m \in Nat /\ m <= x /\ ~(m < x)
  BY <1>2
<1> QED
  BY <1>1, <1>3

\* A search in a string: up to the first position whose character, or the NUL
\* behind the string, is not among those to pass.
LEMMA SearchEnds ==
  ASSUME NEW S, NEW s \in Seq(S), NEW p \in 1 .. Len(s) + 1, NEW passed, NUL \notin passed,
         NEW q, q = Least({k \in p .. Len(s) + 1 : CharAt(s, k) \notin passed})
  PROVE  /\ q \in p .. Len(s) + 1
         /\ AllIn(s, p, q - 1, passed)
         /\ q <= Len(s) => s[q] \notin passed
<1>1. PICK n \in Nat : n = Len(s)
  OBVIOUS
<1>2. PICK T : T = {k \in p .. n + 1 : CharAt(s, k) \notin passed}
  OBVIOUS
<1>3. p \in Nat /\ n + 1 \in p .. n + 1 /\ p >= 1
  BY <1>1
<1>4. CharAt(s, n + 1) = NUL
  BY <1>1 DEF CharAt
<1>5. n + 1 \in T /\ T \in SUBSET Nat
  BY <1>2, <1>3, <1>4
<1>6. q \in T /\ q \in Nat /\ \A k \in Nat : k < q => k \notin T
  <2>1. q = Least(T)
    BY <1>1, <1>2
  <2> QED
    BY <1>5, <2>1, LeastOf
<1>7. q \in p .. n + 1 /\ CharAt(s, q) \notin passed
  BY <1>2, <1>6
<1>8. ASSUME NEW k \in p .. q - 1 PROVE s[k] \in passed
  <2>1. k \in Nat /\ k < q /\ k \in p .. n + 1 /\ k <= n
    BY <1>1, <1>3, <1>7
  <2>2. CharAt(s, k) \in passed
    BY <1>2, <1>6, <2>1
  <2> QED
    BY <1>1, <2>1, <2>2 DEF CharAt
<1>9. q <= n => s[q] \notin passed
  BY <1>1, <1>7 DEF CharAt
<1> QED
  BY <1>1, <1>7, <1>8, <1>9 DEF AllIn

\* So it is where all before, and not the one there, are among them.
LEMMA SearchIs ==
  ASSUME NEW S, NEW s \in Seq(S), NEW p \in 1 .. Len(s) + 1, NEW passed, NUL \notin passed,
         NEW i \in p .. Len(s) + 1, AllIn(s, p, i - 1, passed),
         i <= Len(s) => s[i] \notin passed
  PROVE  Least({k \in p .. Len(s) + 1 : CharAt(s, k) \notin passed}) = i
<1>1. PICK n \in Nat : n = Len(s)
  OBVIOUS
<1>2. PICK T : T = {k \in p .. n + 1 : CharAt(s, k) \notin passed}
  OBVIOUS
<1>3. CharAt(s, i) \notin passed
  BY <1>1 DEF CharAt
<1>4. i \in T /\ T \in SUBSET Nat
  BY <1>1, <1>2, <1>3
<1>5. ASSUME NEW k \in T PROVE i <= k
  <2>1. k \in p .. n + 1 /\ CharAt(s, k) \notin passed
    BY <1>2
  <2>2. CASE k < i
    <3>1. k \in p .. i - 1 /\ k <= n
      BY <1>1, <2>1, <2>2
    <3>2. CharAt(s, k) \in passed
      BY <1>1, <3>1 DEF CharAt, AllIn
    <3> QED
      BY <2>1, <3>2
  <2> QED
    BY <1>1, <2>1, <2>2
<1> QED
  BY <1>1, <1>2, <1>4, <1>5, LeastIs

\* The characters that are searched for.
LEMMA Searched ==
  /\ NUL \notin Blanks /\ NUL \notin Range(Digits)
  /\ NUL \notin Operators /\ NUL \notin Signs
  /\ Blanks \cap Operators = {} /\ Blanks \cap Signs = {}
  /\ Blanks \cap Range(Digits) = {} /\ Operators \cap Range(Digits) = {}
  /\ Signs \cap Range(Digits) = {}
BY DigitChars DEF NUL, Blanks, Operators, Signs

\* What parse_int_token does from position p on, with its places named.
TokenAt(s, p, start, first, token) ==
  /\ start \in p .. Len(s) + 1 /\ first \in start .. Len(s) + 1
  /\ AllIn(s, p, start - 1, Blanks) /\ (start <= Len(s) => s[start] \notin Blanks)
  /\ token.next = Least({q \in first .. Len(s) + 1 : CharAt(s, q) \notin Range(Digits)})
  /\ token.ok = (first < token.next)
  /\ token.next \in first .. Len(s) + 1
  /\ AllIn(s, first, token.next - 1, Range(Digits))
  /\ token.next <= Len(s) => s[token.next] \notin Range(Digits)

\* It skips blanks, then perhaps a sign, then digits.
LEMMA TokenParts ==
  ASSUME NEW S, NEW s \in Seq(S), NEW p \in 1 .. Len(s) + 1,
         NEW start, start = skip_spaces(s, p),
         NEW first, first = IF CharAt(s, start) \in Signs THEN start + 1 ELSE start,
         NEW token, token = parse_int_token(s, p)
  PROVE  TokenAt(s, p, start, first, token)
<1>1. PICK n \in Nat : n = Len(s)
  OBVIOUS
<1>2. /\ start \in p .. n + 1 /\ AllIn(s, p, start - 1, Blanks)
      /\ start <= n => s[start] \notin Blanks
  BY <1>1, Searched, SearchEnds DEF skip_spaces
<1>3. first \in start .. n + 1
  <2>1. CharAt(s, start) \in Signs => start <= n
    BY <1>1, Searched DEF CharAt
  <2> QED
    BY <1>1, <1>2, <2>1
<1>4. PICK after : after = Least({q \in first .. n + 1 : CharAt(s, q) \notin Range(Digits)})
  OBVIOUS
<1>5. first \in 1 .. n + 1
  BY <1>1, <1>2, <1>3
<1>6. /\ after \in first .. n + 1 /\ AllIn(s, first, after - 1, Range(Digits))
      /\ after <= n => s[after] \notin Range(Digits)
  BY <1>1, <1>4, <1>5, Searched, SearchEnds
<1>7. token.next = after /\ token.ok = (first < after)
  BY <1>1, <1>4 DEF parse_int_token
<1> QED
  BY <1>1, <1>2, <1>3, <1>4, <1>6, <1>7 DEF TokenAt

\* A part of a string that is all digits.
LEMMA DigitsPart ==
  ASSUME NEW S, NEW s \in Seq(S), NEW i \in 1 .. Len(s) + 1, NEW j \in i - 1 .. Len(s),
         AllIn(s, i, j, Range(Digits))
  PROVE  SubSeq(s, i, j) \in Seq(Range(Digits))
<1>1. i \in Int /\ j \in Int /\ \A k \in i .. j : s[k] \in Range(Digits)
  BY DEF AllIn
<1> QED
  BY <1>1, SubSeqProperties

\* A token that is accepted is a number, and its value is the int for it.
LEMMA TokenMeans ==
  ASSUME NEW S, NEW s \in Seq(S), NEW p \in 1 .. Len(s) + 1,
         NEW start, start = skip_spaces(s, p),
         NEW token, token = parse_int_token(s, p), token.ok
  PROVE  /\ start < token.next /\ IsNumber(s, start, token.next - 1)
         /\ token.value = Wrap(Number(s, start, token.next - 1))
<1>1. PICK n \in Nat : n = Len(s)
  OBVIOUS
<1>2. PICK next, first :
        /\ next = token.next
        /\ first = IF CharAt(s, start) \in Signs THEN start + 1 ELSE start
  OBVIOUS
<1>3. /\ start \in p .. n + 1 /\ first \in start .. n + 1 /\ next \in first .. n + 1
      /\ next = Least({q \in first .. n + 1 : CharAt(s, q) \notin Range(Digits)})
      /\ AllIn(s, first, next - 1, Range(Digits)) /\ first < next
  <2>1. TokenAt(s, p, start, first, token)
    BY <1>2, TokenParts
  <2> QED
    BY <1>1, <1>2, <2>1 DEF TokenAt
<1>4. start <= n /\ CharAt(s, start) = s[start] /\ start < next
  <2>1. start <= n
    BY <1>1, <1>3
  <2> QED
    BY <1>1, <1>3, <2>1 DEF CharAt
<1>5. first = IF s[start] \in {"-", "+"} THEN start + 1 ELSE start
  BY <1>2, <1>4 DEF Signs
<1>6. start <= next - 1 /\ first <= next - 1
  BY <1>1, <1>3
<1>7. IsNumber(s, start, next - 1)
  BY <1>3, <1>5, <1>6 DEF IsNumber
<1>8. PICK text : text = SubSeq(s, first, next - 1)
  OBVIOUS
<1>9. text \in Seq(Range(Digits))
  <2>1. first \in 1 .. n + 1 /\ next - 1 \in first - 1 .. n
    BY <1>1, <1>3
  <2> QED
    BY <1>1, <1>3, <1>8, <2>1, DigitsPart
<1>10. PICK result : result = FoldLeft(LAMBDA v, c : Wrap(v * 10 + DigitValue[c]), 0, text)
  OBVIOUS
<1>11. token.value = IF s[start] = "-" THEN Wrap(-result) ELSE result
  BY <1>1, <1>2, <1>3, <1>4, <1>8, <1>10 DEF parse_int_token
<1>12. result = Wrap(NumberOf(text)) /\ NumberOf(text) \in Nat
  BY <1>9, <1>10, WrappedNumber, NumberIsNat
<1>13. Wrap(-result) = Wrap(-NumberOf(text))
  BY <1>12, WrapInside
<1>14. Number(s, start, next - 1) = IF s[start] = "-" THEN -NumberOf(text)
                                                     ELSE NumberOf(text)
  BY <1>5, <1>8 DEF Number
<1> QED
  BY <1>2, <1>4, <1>7, <1>11, <1>12, <1>13, <1>14

\* A number behind blanks that no digit follows is a token that is accepted, and
\* the token ends where the number does.
LEMMA NumberIsToken ==
  ASSUME NEW S, NEW s \in Seq(S), NEW p \in 1 .. Len(s) + 1,
         NEW i \in p .. Len(s), NEW j \in i .. Len(s), IsNumber(s, i, j),
         AllIn(s, p, i - 1, Blanks), j < Len(s) => s[j + 1] \notin Range(Digits),
         NEW token, token = parse_int_token(s, p)
  PROVE  skip_spaces(s, p) = i /\ token.ok /\ token.next = j + 1
<1>0. PICK first : first = IF s[i] \in {"-", "+"} THEN i + 1 ELSE i
  OBVIOUS
<1>1. PICK n \in Nat : n = Len(s) /\ first = IF s[i] \in {"-", "+"} THEN i + 1 ELSE i
  BY <1>0
<1>2. first <= j /\ AllIn(s, first, j, Range(Digits)) /\ first \in {i, i + 1}
  BY <1>1 DEF IsNumber
<1>3. /\ i \in Nat /\ j \in Nat /\ p \in Nat /\ 1 <= p /\ p <= i /\ i <= j /\ j <= n
      /\ first \in Nat
  BY <1>1, <1>2
<1>4. s[i] \notin Blanks
  <2>1. s[i] \in Signs \/ (first = i /\ s[i] \in Range(Digits))
    BY <1>1, <1>2, <1>3 DEF Signs, AllIn
  <2> QED
    BY <2>1, Searched
<1>5. skip_spaces(s, p) = i
  <2>1. i \in p .. n + 1
    BY <1>3
  <2> QED
    BY <1>1, <1>4, <2>1, Searched, SearchIs DEF skip_spaces
<1>6. first = IF CharAt(s, i) \in Signs THEN i + 1 ELSE i
  BY <1>1, <1>3 DEF CharAt, Signs
<1>7. /\ token.next = Least({q \in first .. n + 1 : CharAt(s, q) \notin Range(Digits)})
      /\ token.ok = (first < token.next)
  <2>1. TokenAt(s, p, i, first, token)
    BY <1>5, <1>6, TokenParts
  <2> QED
    BY <1>1, <2>1 DEF TokenAt
<1>8. token.next = j + 1
  <2>1. /\ first \in 1 .. n + 1 /\ j + 1 \in first .. n + 1 /\ (j + 1) - 1 = j
        /\ j + 1 <= n <=> j < n
    BY <1>2, <1>3
  <2>2. j + 1 <= n => s[j + 1] \notin Range(Digits)
    BY <1>1, <2>1
  <2>3. AllIn(s, first, (j + 1) - 1, Range(Digits))
    BY <1>2, <2>1
  <2> QED
    BY <1>1, <1>7, <2>1, <2>2, <2>3, Searched, SearchIs
<1>9. first < j + 1
  BY <1>2, <1>3
<1> QED
  BY <1>5, <1>7, <1>8, <1>9

\* A line that is two numbers around an operator is parsed as them.
LEMMA ReadingIsParsed ==
  ASSUME NEW S, NEW s \in Seq(S), NEW r \in Readings(s)
  PROVE  parse_expression(s) = [ok |-> TRUE, left |-> Wrap(Number(s, r.i1, r.j1)),
                                op |-> s[r.op], right |-> Wrap(Number(s, r.i2, r.j2))]
<1>1. PICK n \in Nat : n = Len(s) /\ DOMAIN s = 1 .. n
  OBVIOUS
<1>2. PICK i1, j1, op, i2, j2 :
        i1 = r.i1 /\ j1 = r.j1 /\ op = r.op /\ i2 = r.i2 /\ j2 = r.j2
  OBVIOUS
<1>3. /\ i1 \in 1 .. n /\ j1 \in 1 .. n /\ op \in 1 .. n /\ i2 \in 1 .. n /\ j2 \in 1 .. n
      /\ s[op] \in Operators
      /\ i1 <= j1 /\ j1 < op /\ op < i2 /\ i2 <= j2
  BY <1>1, <1>2 DEF Readings
<1>4. /\ AllIn(s, 1, i1 - 1, Blanks) /\ AllIn(s, j1 + 1, op - 1, Blanks)
      /\ AllIn(s, op + 1, i2 - 1, Blanks) /\ AllIn(s, j2 + 1, n, Blanks)
      /\ IsNumber(s, i1, j1) /\ IsNumber(s, i2, j2)
  BY <1>1, <1>2 DEF Readings
<1>5. PICK left, right : left = parse_int_token(s, 1) /\ right = parse_int_token(s, op + 1)
  OBVIOUS
<1>6. skip_spaces(s, 1) = i1 /\ left.ok /\ left.next = j1 + 1
  <2>1. s[j1 + 1] \notin Range(Digits)
    <3>1. CASE j1 + 1 = op
      BY <1>3, <3>1, Searched
    <3>2. CASE j1 + 1 # op
      <4>1. j1 + 1 \in j1 + 1 .. op - 1
        BY <1>3, <3>2
      <4>2. s[j1 + 1] \in Blanks
        BY <1>4, <4>1 DEF AllIn
      <4> QED
        BY <4>2, Searched
    <3> QED
      BY <3>1, <3>2
  <2>2. 1 \in 1 .. n + 1 /\ i1 \in 1 .. n /\ j1 \in i1 .. n
    BY <1>3
  <2> QED
    BY <1>1, <1>4, <1>5, <2>1, <2>2, NumberIsToken
<1>7. skip_spaces(s, left.next) = op
  <2>1. s[op] \notin Blanks
    BY <1>3, Searched
  <2>2. j1 + 1 \in 1 .. n + 1 /\ op \in j1 + 1 .. n + 1
    BY <1>3
  <2> QED
    BY <1>1, <1>4, <1>6, <2>1, <2>2, Searched, SearchIs DEF skip_spaces
<1>8. skip_spaces(s, op + 1) = i2 /\ right.ok /\ right.next = j2 + 1
  <2>1. j2 < n => s[j2 + 1] \notin Range(Digits)
    <3> SUFFICES ASSUME j2 < n PROVE s[j2 + 1] \notin Range(Digits)
      OBVIOUS
    <3>1. j2 + 1 \in j2 + 1 .. n
      BY <1>3
    <3>2. s[j2 + 1] \in Blanks
      BY <1>4, <3>1 DEF AllIn
    <3> QED
      BY <3>2, Searched
  <2>2. op + 1 \in 1 .. n + 1 /\ i2 \in op + 1 .. n /\ j2 \in i2 .. n
    BY <1>3
  <2>3. AllIn(s, op + 1, i2 - 1, Blanks) /\ IsNumber(s, i2, j2)
    BY <1>4
  <2> QED
    BY <1>1, <1>5, <2>1, <2>2, <2>3, NumberIsToken
<1>9. skip_spaces(s, right.next) = n + 1
  <2>1. j2 + 1 \in 1 .. n + 1 /\ n + 1 \in j2 + 1 .. n + 1 /\ (n + 1) - 1 = n /\ ~(n + 1 <= n)
    BY <1>3
  <2> QED
    BY <1>1, <1>4, <1>8, <2>1, Searched, SearchIs DEF skip_spaces
<1>10. left.value = Wrap(Number(s, i1, j1)) /\ right.value = Wrap(Number(s, i2, j2))
  <2>1. 1 \in 1 .. n + 1 /\ op + 1 \in 1 .. n + 1 /\ (j1 + 1) - 1 = j1 /\ (j2 + 1) - 1 = j2
    BY <1>3
  <2>2. left.value = Wrap(Number(s, i1, left.next - 1))
    BY <1>1, <1>5, <1>6, <2>1, TokenMeans
  <2>3. right.value = Wrap(Number(s, i2, right.next - 1))
    BY <1>1, <1>5, <1>8, <2>1, TokenMeans
  <2> QED
    BY <1>6, <1>8, <2>1, <2>2, <2>3
<1>11. CharAt(s, op) \in Operators
  BY <1>1, <1>3 DEF CharAt
<1>12. parse_expression(s) = [ok |-> TRUE, left |-> left.value, op |-> s[op],
                              right |-> right.value]
  BY <1>1, <1>5, <1>6, <1>7, <1>8, <1>9, <1>11 DEF parse_expression
<1> QED
  BY <1>2, <1>10, <1>12

\* A line that is parsed is two numbers around an operator.
LEMMA ParsedIsReading ==
  ASSUME NEW S, NEW s \in Seq(S), parse_expression(s).ok
  PROVE  Readings(s) # {}
<1>1. PICK n \in Nat : n = Len(s) /\ DOMAIN s = 1 .. n
  OBVIOUS
<1>2. PICK left, op, right : /\ left = parse_int_token(s, 1)
                             /\ op = skip_spaces(s, left.next)
                             /\ right = parse_int_token(s, op + 1)
  OBVIOUS
<1>3. /\ left.ok /\ CharAt(s, op) \in Operators /\ right.ok
      /\ skip_spaces(s, right.next) = n + 1
  BY <1>1, <1>2 DEF parse_expression
<1>4. PICK i1, i2 : i1 = skip_spaces(s, 1) /\ i2 = skip_spaces(s, op + 1)
  OBVIOUS
<1>5. /\ i1 \in 1 .. n + 1 /\ AllIn(s, 1, i1 - 1, Blanks)
      /\ left.next \in i1 .. n + 1 /\ i1 < left.next
      /\ IsNumber(s, i1, left.next - 1)
  <2>1. PICK first : first = IF CharAt(s, i1) \in Signs THEN i1 + 1 ELSE i1
    OBVIOUS
  <2>2. 1 \in 1 .. n + 1
    BY <1>1
  <2>3. TokenAt(s, 1, i1, first, left)
    BY <1>1, <1>2, <1>4, <2>1, <2>2, TokenParts
  <2>4. i1 < left.next /\ IsNumber(s, i1, left.next - 1)
    BY <1>1, <1>2, <1>3, <1>4, <2>2, TokenMeans
  <2> QED
    BY <1>1, <2>3, <2>4 DEF TokenAt
<1>6. left.next \in 1 .. n + 1
  BY <1>5
<1>7. op \in left.next .. n + 1 /\ AllIn(s, left.next, op - 1, Blanks)
  BY <1>1, <1>2, <1>6, Searched, SearchEnds DEF skip_spaces
<1>8. op <= n /\ s[op] \in Operators
  BY <1>1, <1>3, <1>7, Searched DEF CharAt
<1>9. op + 1 \in 1 .. n + 1
  BY <1>6, <1>7, <1>8
<1>10. /\ i2 \in op + 1 .. n + 1 /\ AllIn(s, op + 1, i2 - 1, Blanks)
       /\ right.next \in i2 .. n + 1 /\ i2 < right.next
       /\ IsNumber(s, i2, right.next - 1)
  <2>1. PICK first : first = IF CharAt(s, i2) \in Signs THEN i2 + 1 ELSE i2
    OBVIOUS
  <2>2. TokenAt(s, op + 1, i2, first, right)
    BY <1>1, <1>2, <1>4, <1>9, <2>1, TokenParts
  <2>3. i2 < right.next /\ IsNumber(s, i2, right.next - 1)
    BY <1>1, <1>2, <1>3, <1>4, <1>9, TokenMeans
  <2> QED
    BY <1>1, <2>2, <2>3 DEF TokenAt
<1>11. AllIn(s, right.next, n, Blanks)
  <2>1. right.next \in 1 .. n + 1
    BY <1>9, <1>10
  <2>2. AllIn(s, right.next, (n + 1) - 1, Blanks)
    BY <1>1, <1>3, <2>1, Searched, SearchEnds DEF skip_spaces
  <2>3. (n + 1) - 1 = n
    OBVIOUS
  <2> QED
    BY <2>2, <2>3
<1>12. PICK j1, j2 : j1 = left.next - 1 /\ j2 = right.next - 1
  OBVIOUS
<1>13. /\ i1 \in 1 .. n /\ j1 \in 1 .. n /\ op \in 1 .. n /\ i2 \in 1 .. n /\ j2 \in 1 .. n
       /\ i1 <= j1 /\ j1 < op /\ op < i2 /\ i2 <= j2
       /\ left.next = j1 + 1 /\ right.next = j2 + 1
  <2>1. PICK a, b : a = left.next /\ b = right.next
    OBVIOUS
  <2>2. /\ i1 \in 1 .. n + 1 /\ a \in i1 .. n + 1 /\ i1 < a /\ op \in a .. n + 1 /\ op <= n
        /\ j1 = a - 1 /\ j2 = b - 1
    BY <1>5, <1>7, <1>8, <1>12, <2>1
  <2>3. i2 \in op + 1 .. n + 1 /\ b \in i2 .. n + 1 /\ i2 < b
    BY <1>10, <2>1
  <2>4. /\ i1 \in 1 .. n /\ j1 \in 1 .. n /\ op \in 1 .. n /\ i1 <= j1 /\ j1 < op
        /\ a = j1 + 1
    BY <2>2
  <2>5. i2 \in 1 .. n /\ j2 \in 1 .. n /\ op < i2 /\ i2 <= j2 /\ b = j2 + 1
    BY <2>2, <2>3, <2>4
  <2> QED
    BY <2>1, <2>4, <2>5
<1>14. [i1 |-> i1, j1 |-> j1, op |-> op, i2 |-> i2, j2 |-> j2] \in Readings(s)
  BY <1>1, <1>5, <1>7, <1>8, <1>10, <1>11, <1>12, <1>13 DEF Readings
<1> QED
  BY <1>14

\* A line that is two numbers around an operator does not ask for help: the help
\* words begin with no number.
LEMMA ReadingIsNoHelp ==
  ASSUME NEW S, NEW s \in Seq(S), NEW r \in Readings(s)
  PROVE  ~is_help_request(s)
<1> SUFFICES ASSUME is_help_request(s) PROVE FALSE
  OBVIOUS
<1>1. PICK n \in Nat : n = Len(s) /\ DOMAIN s = 1 .. n
  OBVIOUS
<1>2. PICK i, j : i = r.i1 /\ j = r.j1
  OBVIOUS
<1>3. /\ i \in 1 .. n /\ j \in 1 .. n /\ i <= j /\ j < n
      /\ AllIn(s, 1, i - 1, Blanks) /\ IsNumber(s, i, j)
  BY <1>1, <1>2 DEF Readings
<1>4. /\ s[i] \notin Blanks
      /\ \/ s[i] \in Range(Digits)
         \/ s[i] \in Signs /\ i + 1 <= j /\ s[i + 1] \in Range(Digits)
  <2>1. s[i] \in Signs => i + 1 <= j /\ s[i + 1] \in Range(Digits)
    BY <1>3 DEF IsNumber, AllIn, Signs
  <2>2. s[i] \notin Signs => s[i] \in Range(Digits)
    BY <1>3 DEF IsNumber, AllIn, Signs
  <2> QED
    BY <2>1, <2>2, Searched
<1>5. skip_spaces(s, 1) = i
  <2>1. 1 \in 1 .. n + 1 /\ i \in 1 .. n + 1
    BY <1>3
  <2> QED
    BY <1>1, <1>3, <1>4, <2>1, Searched, SearchIs DEF skip_spaces
<1>6. PICK after : after = Least({q \in i .. n + 1 : CharAt(s, q) \in Blanks \cup {NUL}})
  OBVIOUS
<1>7. PICK word : word = SubSeq(s, i, after - 1) /\ word \in HelpWords
  BY <1>1, <1>5, <1>6 DEF is_help_request
<1>8. after \in i .. n + 1
  <2>1. PICK T : T = {q \in i .. n + 1 : CharAt(s, q) \in Blanks \cup {NUL}}
    OBVIOUS
  <2>2. CharAt(s, n + 1) = NUL
    BY <1>1 DEF CharAt
  <2>3. n + 1 \in T /\ T \in SUBSET Nat
    BY <1>3, <2>1, <2>2
  <2>4. after = Least(T)
    BY <1>6, <2>1
  <2> QED
    BY <2>1, <2>3, <2>4, LeastOf
<1>9. Len(word) = after - i /\ \A k \in 1 .. after - i : word[k] = s[i + k - 1]
  <2>1. /\ i \in Int /\ after - 1 \in Int /\ i <= (after - 1) + 1
        /\ (after - 1) - i + 1 = after - i
        /\ \A k \in i .. after - 1 : k \in 1 .. n
    BY <1>3, <1>8
  <2>2. \A k \in i .. after - 1 : s[k] \in S
    BY <1>1, <2>1
  <2> QED
    BY <1>7, <2>1, <2>2, SubSeqProperties
<1>10. /\ Len(word) \in {4, 2, 6}
       /\ word[1] = "h" \/ (word[1] = "-" /\ word[2] \in {"h", "-"})
  <2>1. CASE word = <<"h", "e", "l", "p">>
    BY <2>1
  <2>2. CASE word = <<"-", "h">>
    BY <2>2
  <2>3. CASE word = <<"-", "-", "h", "e", "l", "p">>
    BY <2>3
  <2> QED
    BY <1>7, <2>1, <2>2, <2>3 DEF HelpWords
<1>11. word[1] = s[i] /\ word[2] = s[i + 1]
  <2>1. /\ 1 \in 1 .. after - i /\ 2 \in 1 .. after - i /\ i + 1 - 1 = i /\ i + 2 - 1 = i + 1
    BY <1>3, <1>8, <1>9, <1>10
  <2> QED
    BY <1>9, <2>1
<1> QED
  BY <1>4, <1>10, <1>11, DigitChars DEF Signs

\* The numbers of a reading are integers.
LEMMA ReadingsAreInts ==
  ASSUME NEW S, NEW s \in Seq(S), NEW r \in Readings(s)
  PROVE  Number(s, r.i1, r.j1) \in Int /\ Number(s, r.i2, r.j2) \in Int
<1>1. PICK n \in Nat : n = Len(s) /\ DOMAIN s = 1 .. n
  OBVIOUS
<1>2. ASSUME NEW i \in 1 .. n, NEW j \in 1 .. n, IsNumber(s, i, j)
      PROVE  Number(s, i, j) \in Int
  <2>1. PICK first : first = IF s[i] \in {"-", "+"} THEN i + 1 ELSE i
    OBVIOUS
  <2>2. first <= j /\ AllIn(s, first, j, Range(Digits)) /\ first \in {i, i + 1}
    BY <1>2, <2>1 DEF IsNumber
  <2>3. first \in 1 .. n + 1 /\ j \in first - 1 .. n
    BY <2>2
  <2>4. NumberOf(SubSeq(s, first, j)) \in Nat
    BY <1>1, <2>2, <2>3, DigitsPart, NumberIsNat
  <2> QED
    BY <2>1, <2>4 DEF Number
<1>3. /\ r.i1 \in 1 .. n /\ r.j1 \in 1 .. n /\ r.i2 \in 1 .. n /\ r.j2 \in 1 .. n
      /\ IsNumber(s, r.i1, r.j1) /\ IsNumber(s, r.i2, r.j2)
  BY <1>1 DEF Readings
<1> QED
  BY <1>2, <1>3

\* What a calculation prints of two ints is what its operator means; only a
\* division by 0 is refused, and only the one that does not fit is a trap.
LEMMA CalculationMeans ==
  ASSUME NEW op \in Operators, NEW a \in Ints, NEW b \in Ints, NEW outcomeOf,
         outcomeOf = calc_expression([ok |-> TRUE, left |-> a, op |-> op, right |-> b])
  PROVE  /\ op = "/" /\ b = 0 => outcomeOf.kind = "error"
         /\ op = "/" /\ a = INT_MIN /\ b = -1 => outcomeOf.kind = "trap"
         /\ ~(op = "/" /\ b = 0) /\ ~(op = "/" /\ a = INT_MIN /\ b = -1) =>
              /\ outcomeOf.kind = "result"
              /\ \E n \in Ints : Reads(outcomeOf.text, n) /\ Computes(op, a, b, n)
<1>1. /\ op = "+" => outcomeOf = calc_add(a, b)
      /\ op = "-" => outcomeOf = calc_sub(a, b)
      /\ op = "*" => outcomeOf = calc_mul(a, b)
      /\ op = "/" => outcomeOf = calc_div(a, b)
  BY DEF calc_expression
<1>2. a \in Int /\ b \in Int
  BY Widths DEF Ints
<1>3. ASSUME NEW n \in Ints, outcomeOf = print_result(n), Computes(op, a, b, n)
      PROVE  /\ outcomeOf.kind = "result"
             /\ \E m \in Ints : Reads(outcomeOf.text, m) /\ Computes(op, a, b, m)
  <2>1. n \in Int
    BY Widths DEF Ints
  <2>2. outcomeOf.kind = "result" /\ outcomeOf.text = print_int32(n)
    BY <1>3 DEF print_result, Result
  <2>3. Reads(outcomeOf.text, n)
    BY <2>1, <2>2, IntReads
  <2> QED
    BY <1>3, <2>2, <2>3
<1>4. CASE op \in {"+", "-", "*"}
  <2>1. PICK x \in Int : /\ outcomeOf = print_result(Wrap(x))
                         /\ Computes(op, a, b, Wrap(x))
    <3>1. a + b \in Int /\ a - b \in Int /\ a * b \in Int
      BY <1>2
    <3>2. CASE op = "+"
      BY <1>1, <3>1, <3>2 DEF calc_add, Computes
    <3>3. CASE op = "-"
      BY <1>1, <3>1, <3>3 DEF calc_sub, Computes
    <3>4. CASE op = "*"
      BY <1>1, <3>1, <3>4 DEF calc_mul, Computes
    <3> QED
      BY <1>4, <3>2, <3>3, <3>4
  <2>2. Wrap(x) \in Ints
    BY WrapParts
  <2>3. op # "/"
    BY <1>4
  <2> QED
    BY <1>3, <2>1, <2>2, <2>3
<1>5. CASE op = "/"
  <2>1. outcomeOf = calc_div(a, b)
    BY <1>1, <1>5
  <2>2. INT_MIN \in Int /\ -1 # 0
    BY Widths
  <2>3. CASE b = 0
    <3>1. outcomeOf.kind = "error"
      BY <2>1, <2>3 DEF calc_div, Outcome
    <3> QED
      BY <1>5, <2>2, <2>3, <3>1
  <2>4. CASE b # 0 /\ a = INT_MIN /\ b = -1
    <3>1. Quotient(a, b) \notin Ints
      BY <2>4, QuotientMeans
    <3>2. outcomeOf.kind = "trap"
      BY <2>1, <2>4, <3>1 DEF calc_div, Outcome
    <3> QED
      BY <1>5, <2>4, <3>2
  <2>5. CASE b # 0 /\ ~(a = INT_MIN /\ b = -1)
    <3>1. Quotient(a, b) \in Ints /\ Computes("/", a, b, Quotient(a, b))
      BY <2>5, QuotientMeans
    <3>2. outcomeOf = print_result(Quotient(a, b))
      BY <2>1, <2>5, <3>1 DEF calc_div
    <3>3. /\ outcomeOf.kind = "result"
          /\ \E m \in Ints : Reads(outcomeOf.text, m) /\ Computes(op, a, b, m)
      BY <1>3, <1>5, <3>1, <3>2
    <3> QED
      BY <2>5, <3>3
  <2> QED
    BY <2>3, <2>4, <2>5
<1> QED
  BY <1>4, <1>5 DEF Operators

\* Whatever call is under way, the outcome is that of its function.
ExpressionCalled ==
  call.fn = "calc_init" => \E line \in Lines \cup {Null} :
                             call.args = line /\ outcome = calc_init(line)

OneIntCalled ==
  call.fn \in {"sqr", "log10"} =>
    \E a \in Ints : /\ call.args = <<a>>
                    /\ call.fn = "sqr" => outcome = calc_sqr(a)
                    /\ call.fn = "log10" => outcome = calc_log10(a)

TwoIntsCalled ==
  call.fn \in {"pow", "root", "log", "tetration"} =>
    \E a, b \in Ints : /\ call.args = <<a, b>>
                       /\ call.fn = "pow" => outcome = calc_pow(a, b)
                       /\ call.fn = "root" => outcome = calc_root(a, b)
                       /\ call.fn = "log" => outcome = calc_log(a, b)
                       /\ call.fn = "tetration" => outcome = calc_tetration(a, b)

LimitedCalled ==
  call.fn \in {"factorial", "fibonacci"} =>
    \E n \in Int : /\ call.args = <<n>>
                   /\ call.fn = "factorial" => outcome = calc_factorial(n)
                   /\ call.fn = "fibonacci" => outcome = calc_fibonacci(n)

CallInv == ExpressionCalled /\ OneIntCalled /\ TwoIntsCalled /\ LimitedCalled

\* That is an invariant, ...
LEMMA CallInvHolds == CalcSpec => []CallInv
<1>1. CalcInit => CallInv
  BY DEF CalcInit, CallInv, ExpressionCalled, OneIntCalled, TwoIntsCalled, LimitedCalled,
         Idle
<1>2. CallInv /\ [CalcNext]_callVars => CallInv'
  <2> SUFFICES ASSUME CallInv, [CalcNext]_callVars PROVE CallInv'
    OBVIOUS
  <2> USE DEF ExpressionCalled, OneIntCalled, TwoIntsCalled, LimitedCalled, CallInv, Call
  <2>1. CASE Expression
    BY <2>1 DEF Expression
  <2>2. CASE IntegerFunction
    <3>1. ASSUME NEW a \in Ints,
                 \/ Call("sqr", <<a>>, calc_sqr(a))
                 \/ Call("log10", <<a>>, calc_log10(a))
          PROVE  CallInv'
      BY <3>1
    <3>2. ASSUME NEW a \in Ints, NEW b \in Ints,
                 \/ Call("pow", <<a, b>>, calc_pow(a, b))
                 \/ Call("root", <<a, b>>, calc_root(a, b))
                 \/ Call("log", <<a, b>>, calc_log(a, b))
                 \/ Call("tetration", <<a, b>>, calc_tetration(a, b))
          PROVE  CallInv'
      BY <3>2
    <3> QED
      BY <2>2, <3>1, <3>2 DEF IntegerFunction
  <2>3. CASE LimitedFunction
    <3>1. ASSUME NEW n \in Int,
                 \/ Call("factorial", <<n>>, calc_factorial(n))
                 \/ Call("fibonacci", <<n>>, calc_fibonacci(n))
          PROVE  CallInv'
      BY <3>1
    <3>2. -1 .. FibonacciLimit + 1 \subseteq Int
      BY DEF FibonacciLimit
    <3> QED
      BY <2>3, <3>1, <3>2 DEF LimitedFunction
  <2>4. CASE FixedPointFunction
    <3>1. call'.fn \in {"sin", "cos", "tan", "ctg", "asin", "acos", "atan", "actg"}
      BY <2>4 DEF FixedPointFunction
    <3> QED
      BY <3>1
  <2>5. CASE Return
    BY <2>5 DEF Return, Idle
  <2>6. CASE UNCHANGED callVars
    BY <2>6 DEF callVars
  <2> QED
    BY <2>1, <2>2, <2>3, <2>4, <2>5, <2>6 DEF CalcNext
<1> QED
  BY <1>1, <1>2, PTL DEF CalcSpec

\* ... and means what ExpressionMeans says.
LEMMA CallInvMeans == CallInv => ExpressionMeans
<1> SUFFICES ASSUME CallInv, call.fn = "calc_init"
             PROVE  IF call.args = Null \/ Readings(call.args) = {}
                    THEN outcome.kind \in {"usage", "help"}
                    ELSE \A r \in Readings(call.args) :
                           LET op == call.args[r.op]
                               a  == Wrap(Number(call.args, r.i1, r.j1))
                               b  == Wrap(Number(call.args, r.i2, r.j2))
                           IN  CASE op = "/" /\ b = 0 -> outcome.kind = "error"
                                 [] op = "/" /\ a = INT_MIN /\ b = -1 ->
                                      outcome.kind = "trap"
                                 [] OTHER ->
                                      /\ outcome.kind = "result"
                                      /\ \E n \in Ints : /\ Reads(outcome.text, n)
                                                         /\ Computes(op, a, b, n)
  BY DEF ExpressionMeans
<1>1. PICK s : s = call.args /\ outcome = calc_init(s) /\ (s = Null \/ s \in Seq(STRING))
  BY CalcAssumption DEF CallInv, ExpressionCalled
<1>2. CASE s = Null
  BY <1>1, <1>2 DEF calc_init, Outcome
<1>3. CASE s # Null /\ Readings(s) = {}
  <2>1. s \in Seq(STRING)
    BY <1>1, <1>3
  <2>2. ~parse_expression(s).ok
    BY <1>3, <2>1, ParsedIsReading
  <2>3. outcome \in {Outcome("help"), Outcome("usage")}
    BY <1>1, <1>3, <2>2 DEF calc_init
  <2> QED
    BY <1>1, <1>3, <2>3 DEF Outcome
<1>4. CASE s # Null /\ Readings(s) # {}
  <2>1. s \in Seq(STRING)
    BY <1>1, <1>4
  <2>2. ASSUME NEW r \in Readings(s), NEW op, NEW a, NEW b, op = s[r.op],
               a = Wrap(Number(s, r.i1, r.j1)), b = Wrap(Number(s, r.i2, r.j2))
        PROVE  CASE op = "/" /\ b = 0 -> outcome.kind = "error"
                 [] op = "/" /\ a = INT_MIN /\ b = -1 -> outcome.kind = "trap"
                 [] OTHER -> /\ outcome.kind = "result"
                             /\ \E n \in Ints : Reads(outcome.text, n) /\ Computes(op, a, b, n)
    <3>1. PICK e : e = [ok |-> TRUE, left |-> a, op |-> op, right |-> b]
      OBVIOUS
    <3>2. parse_expression(s) = e
      BY <2>1, <2>2, <3>1, ReadingIsParsed
    <3>3. ~is_help_request(s)
      BY <2>1, ReadingIsNoHelp
    <3>4. outcome = calc_expression(e)
      BY <1>1, <1>4, <3>1, <3>2, <3>3 DEF calc_init
    <3>5. op \in Operators
      BY <2>2 DEF Readings
    <3>6. a \in Ints /\ b \in Ints
      <4>1. Number(s, r.i1, r.j1) \in Int /\ Number(s, r.i2, r.j2) \in Int
        BY <2>1, ReadingsAreInts
      <4> QED
        BY <2>2, <4>1, WrapParts
    <3>7. /\ op = "/" /\ b = 0 => outcome.kind = "error"
          /\ op = "/" /\ a = INT_MIN /\ b = -1 => outcome.kind = "trap"
          /\ ~(op = "/" /\ b = 0) /\ ~(op = "/" /\ a = INT_MIN /\ b = -1) =>
               /\ outcome.kind = "result"
               /\ \E n \in Ints : Reads(outcome.text, n) /\ Computes(op, a, b, n)
      BY <3>1, <3>4, <3>5, <3>6, CalculationMeans
    <3> QED
      BY <3>7
  <2> QED
    BY <1>1, <1>4, <2>2
<1> QED
  BY <1>2, <1>3, <1>4

\* Whatever is typed behind calc, and however wide an int is: a line is computed
\* when it is two numbers around an operator and only then, the text that is
\* printed reads as the int its operator means, and only a division by 0 is
\* refused and only the quotient that does not fit raises an exception
\* (calc.cpp:11-67, 330-396).
THEOREM CalculatorMeans == CalcSpec => []ExpressionMeans
BY CallInvHolds, CallInvMeans, PTL

-----------------------------------------------------------------------------

(* Powers. *)

\* A set that has 0 and with each number the next one has all.
LEMMA AllReached ==
  ASSUME NEW S, 0 \in S, \A k \in Nat : k \in S => k + 1 \in S
  PROVE  \A k \in Nat : k \in S
<1> DEFINE Bad == {k \in Nat : k \notin S}
<1> SUFFICES ASSUME Bad # {} PROVE FALSE
  OBVIOUS
<1>1. PICK k \in Bad : \A j \in Bad : k <= j
  BY LeastElement
<1>2. k # 0
  BY <1>1
<1>3. k - 1 \in Nat /\ (k - 1) + 1 = k /\ ~(k <= k - 1)
  BY <1>1, <1>2
<1>4. k - 1 \in S
  BY <1>1, <1>3
<1> QED
  BY <1>1, <1>3, <1>4

\* What is above every int.
LEMMA AboveAll ==
  /\ Above \in Nat \ {0} /\ Above = 2 * INT_MAX + 2
  /\ INT_MAX \in Nat /\ INT_MIN = -INT_MAX - 1
<1>1. PICK w, low, high : w = 2 ^ BITS /\ low = INT_MIN /\ high = INT_MAX
  OBVIOUS
<1>2. /\ w \in Nat \ {0} /\ low \in Int /\ high \in Nat
      /\ high = low + w - 1 /\ low = -high - 1
  BY <1>1, Widths
<1>3. w = 2 * high + 2
  BY <1>2
<1> QED
  BY <1>1, <1>2, <1>3 DEF Above

\* A loop of n multiplications is one of the loops over a text.
LEMMA Multiplied ==
  ASSUME NEW base, NEW n \in Nat
  PROVE  PowerLoop(base, 0) = 1 /\ PowerLoop(base, n + 1) = Wrap(PowerLoop(base, n) * base)
<1>1. ASSUME NEW k \in Nat
      PROVE  PowerLoop(base, k) = LoopEnd("wrapped", 1, Repeated(base, k), k)
  <2>1. DOMAIN Repeated(base, k) = 1 .. k
    BY DEF Repeated
  <2> QED
    BY <2>1 DEF PowerLoop, FoldLeft, MapThenFoldSet, Max, Highest, LoopEnd, Looped, Turn
<1>2. PICK m \in Nat : m = n + 1
  OBVIOUS
<1>3. /\ \A i \in 1 .. n : Repeated(base, m)[i] = Repeated(base, n)[i]
      /\ Repeated(base, m)[m] = base
  BY <1>2 DEF Repeated
<1>4. LoopEnd("wrapped", 1, Repeated(base, m), m)
        = Turn("wrapped", LoopEnd("wrapped", 1, Repeated(base, n), n), base)
  BY <1>2, <1>3, LoopLonger
<1> QED
  BY <1>1, <1>2, <1>4, LoopEmpty DEF Turn

\* The powers, one after the other.
LEMMA PowerInTurn ==
  ASSUME NEW base, NEW n \in Nat
  PROVE  Power(base, 0) = 1 /\ Power(base, n + 1) = Capped(Power(base, n) * base)
<1>1. PICK g : g = [k \in Nat |-> LoopEnd("capped", 1, Repeated(base, k), k)]
  OBVIOUS
<1>2. g[0] = 1
  BY <1>1, LoopEmpty
<1>3. ASSUME NEW k \in Nat, k # 0 PROVE g[k] = Capped(g[k - 1] * base)
  <2>1. PICK j \in Nat : j = k - 1 /\ k = j + 1
    BY <1>3
  <2>2. /\ \A i \in 1 .. j : Repeated(base, k)[i] = Repeated(base, j)[i]
        /\ Repeated(base, k)[k] = base
    BY <1>3, <2>1 DEF Repeated
  <2>3. LoopEnd("capped", 1, Repeated(base, k), k)
          = Turn("capped", LoopEnd("capped", 1, Repeated(base, j), j), base)
    BY <2>1, <2>2, LoopLonger
  <2> QED
    BY <1>1, <2>1, <2>3 DEF Turn
<1>4. g = [k \in Nat |-> IF k = 0 THEN 1 ELSE Capped(g[k - 1] * base)]
  <2>1. g = [k \in Nat |-> g[k]]
    BY <1>1
  <2> QED
    BY <1>2, <1>3, <2>1
<1>5. PICK h : h = CHOOSE p : p = [k \in Nat |-> IF k = 0 THEN 1 ELSE Capped(p[k - 1] * base)]
  OBVIOUS
<1>6. h = [k \in Nat |-> IF k = 0 THEN 1 ELSE Capped(h[k - 1] * base)]
  BY <1>4, <1>5
<1>7. \A k \in Nat : Power(base, k) = h[k]
  BY <1>5 DEF Power
<1>8. h[0] = 1 /\ h[n + 1] = Capped(h[n] * base)
  <2>1. n + 1 \in Nat /\ n + 1 # 0 /\ (n + 1) - 1 = n
    OBVIOUS
  <2> QED
    BY <1>6, <2>1
<1> QED
  BY <1>7, <1>8

\* What powers of a natural number are between.
LEMMA PowerIsNat ==
  ASSUME NEW base \in Nat, NEW n \in Nat
  PROVE  Power(base, n) \in 0 .. Above
<1>1. PICK w \in Nat \ {0} : w = Above
  BY AboveAll
<1> DEFINE S == {k \in Nat : Power(base, k) \in 0 .. w}
<1>2. 0 \in S
  BY <1>1, PowerInTurn
<1>3. ASSUME NEW k \in Nat, k \in S PROVE k + 1 \in S
  <2>1. PICK p \in 0 .. w : p = Power(base, k)
    BY <1>3
  <2>2. p * base \in Nat
    OBVIOUS
  <2>3. Capped(p * base) \in 0 .. w
    BY <1>1, <2>2 DEF Capped
  <2> QED
    BY <2>1, <2>3, PowerInTurn
<1>4. n \in S
  <2> HIDE DEF S
  <2> QED
    BY <1>2, <1>3, AllReached
<1> QED
  BY <1>1, <1>4

\* In particular they are natural numbers.
LEMMA PowerInNat == ASSUME NEW base \in Nat, NEW n \in Nat PROVE Power(base, n) \in Nat
BY PowerIsNat, AboveAll

\* A power of a number but 0 is not 0, and the next one is not less.
LEMMA PowerGrows ==
  ASSUME NEW base \in Nat \ {0}, NEW n \in Nat
  PROVE  Power(base, n) >= 1 /\ Power(base, n) <= Power(base, n + 1)
<1>1. PICK w \in Nat \ {0} : w = Above
  BY AboveAll
<1>2. PICK e \in Nat : base = e + 1
  <2>1. base - 1 \in Nat /\ base = (base - 1) + 1
    OBVIOUS
  <2> QED
    BY <2>1
<1>3. ASSUME NEW p \in 0 .. w PROVE Capped(p * base) >= p
  <2>1. p * e \in Nat /\ p * base = p * e + p
    BY <1>2
  <2> QED
    BY <1>1, <2>1 DEF Capped
<1> DEFINE S == {k \in Nat : Power(base, k) >= 1}
<1>4. 0 \in S
  BY PowerInTurn
<1>5. ASSUME NEW k \in Nat, k \in S PROVE k + 1 \in S
  <2>1. PICK p \in 0 .. w : p = Power(base, k)
    BY <1>1, PowerIsNat
  <2>2. Power(base, k + 1) = Capped(p * base)
    BY <2>1, PowerInTurn
  <2>3. Power(base, k + 1) \in Int
    BY <1>1, PowerIsNat
  <2> QED
    BY <1>3, <1>5, <2>1, <2>2, <2>3
<1>6. n \in S
  <2> HIDE DEF S
  <2> QED
    BY <1>4, <1>5, AllReached
<1>7. Power(base, n + 1) >= Power(base, n)
  BY <1>1, <1>3, PowerIsNat, PowerInTurn
<1>8. Power(base, n) \in Int /\ Power(base, n + 1) \in Int
  BY <1>1, PowerIsNat
<1> QED
  BY <1>6, <1>7, <1>8

\* So later powers are not less.
LEMMA PowerLater ==
  ASSUME NEW base \in Nat \ {0}, NEW i \in Nat, NEW j \in Nat, i <= j
  PROVE  Power(base, i) <= Power(base, j)
<1> DEFINE S == {k \in Nat : Power(base, i) <= Power(base, i + k)}
<1>1. 0 \in S
  <2>1. Power(base, i) \in Int /\ i + 0 = i
    BY PowerIsNat, AboveAll
  <2> QED
    BY <2>1
<1>2. ASSUME NEW k \in Nat, k \in S PROVE k + 1 \in S
  <2>1. PICK m \in Nat : m = i + k /\ i + (k + 1) = m + 1
    OBVIOUS
  <2>2. Power(base, m) <= Power(base, m + 1)
    BY <2>1, PowerGrows
  <2>3. Power(base, i) \in Int /\ Power(base, m) \in Int /\ Power(base, m + 1) \in Int
    <3>1. m + 1 \in Nat /\ base \in Nat
      OBVIOUS
    <3>2. \A e \in Nat : Power(base, e) \in 0 .. Above
      BY <3>1, PowerIsNat
    <3> QED
      BY <3>1, <3>2, AboveAll
  <2> QED
    BY <1>2, <2>1, <2>2, <2>3
<1>3. j - i \in Nat /\ i + (j - i) = j
  OBVIOUS
<1>4. j - i \in S
  <2> HIDE DEF S
  <2> QED
    BY <1>1, <1>2, <1>3, AllReached
<1> QED
  BY <1>3, <1>4

\* Of two numbers the greater has the greater powers.
LEMMA PowerOfMore ==
  ASSUME NEW b \in Nat, NEW c \in Nat, b <= c, NEW n \in Nat
  PROVE  Power(b, n) <= Power(c, n)
<1>1. PICK w \in Nat \ {0} : w = Above
  BY AboveAll
<1> DEFINE S == {k \in Nat : Power(b, k) <= Power(c, k)}
<1>2. 0 \in S
  BY PowerInTurn
<1>3. ASSUME NEW k \in Nat, k \in S PROVE k + 1 \in S
  <2>1. PICK p \in 0 .. w, q \in 0 .. w : p = Power(b, k) /\ q = Power(c, k)
    BY <1>1, PowerIsNat
  <2>2. PICK d \in Nat, e \in Nat : q = p + d /\ c = b + e
    <3>1. q - p \in Nat /\ c - b \in Nat /\ q = p + (q - p) /\ c = b + (c - b)
      BY <1>3, <2>1
    <3> QED
      BY <3>1
  <2>3. q * c = p * b + (p * e + d * b + d * e)
    BY <2>2
  <2>4. PICK x, y : x = p * b /\ y = q * c
    OBVIOUS
  <2>5. x \in Nat /\ y \in Nat /\ x <= y
    <3>1. p * e + d * b + d * e \in Nat /\ p * b \in Nat
      OBVIOUS
    <3> QED
      BY <2>3, <2>4, <3>1
  <2>6. Capped(x) <= Capped(y)
    BY <1>1, <2>5 DEF Capped
  <2> QED
    BY <2>1, <2>4, <2>6, PowerInTurn
<1>4. n \in S
  <2> HIDE DEF S
  <2> QED
    BY <1>2, <1>3, AllReached
<1> QED
  BY <1>4

\* Powers of a number above 1 grow until they are above every int.
LEMMA PowerStrict ==
  ASSUME NEW base \in Nat \ {0, 1}, NEW n \in Nat, Power(base, n) < Above
  PROVE  Power(base, n) < Power(base, n + 1) /\ n < Power(base, n)
<1>1. PICK w \in Nat \ {0} : w = Above
  BY AboveAll
<1>2. PICK e \in Nat : base = e + 2
  <2>1. base - 2 \in Nat /\ base = (base - 2) + 2
    OBVIOUS
  <2> QED
    BY <2>1
<1>3. ASSUME NEW p \in Nat, p >= 1, p < w PROVE Capped(p * base) > p
  <2>1. p * e \in Nat /\ p * base = p * e + p + p
    BY <1>2
  <2> QED
    BY <1>1, <1>3, <2>1 DEF Capped
<1> DEFINE S == {k \in Nat : Power(base, k) < w => k < Power(base, k)}
<1>4. 0 \in S
  BY PowerInTurn
<1>5. ASSUME NEW k \in Nat, k \in S PROVE k + 1 \in S
  <2>1. PICK p \in 0 .. w, q \in 0 .. w : p = Power(base, k) /\ q = Power(base, k + 1)
    <3>1. k + 1 \in Nat
      OBVIOUS
    <3> QED
      BY <1>1, <3>1, PowerIsNat
  <2>2. p >= 1 /\ p <= q /\ q = Capped(p * base)
    BY <2>1, PowerGrows, PowerInTurn
  <2>3. q < w => p < q /\ k < p
    BY <1>3, <1>5, <2>1, <2>2
  <2> QED
    BY <2>1, <2>3
<1>6. n \in S
  <2> HIDE DEF S
  <2> QED
    BY <1>4, <1>5, AllReached
<1>7. Power(base, n) \in Nat /\ Power(base, n) >= 1
  BY <1>1, PowerIsNat, PowerGrows
<1> QED
  BY <1>1, <1>3, <1>6, <1>7, PowerInTurn

-----------------------------------------------------------------------------

(* Squares and powers. *)

\* What print_uint32 prints of a number below 2^BITS reads as that number.
LEMMA UnsignedReads ==
  ASSUME NEW x \in Nat, x < Above PROVE Reads(print_uint32(Wrap(x)), x)
<1>1. PICK w \in Nat \ {0} : w = Above /\ w = 2 ^ BITS
  BY AboveAll DEF Above
<1>2. PICK y, k : y \in Ints /\ k \in Int /\ y = Wrap(x) /\ x = y + w * k
  BY <1>1, WrapParts
<1>3. y \in Int
  BY <1>2, AboveAll DEF Ints
<1>4. y % w = x
  <2>1. PICK q, m : q = y \div w /\ m = y % w
    OBVIOUS
  <2>2. q \in Int /\ m \in 0 .. w - 1 /\ y = w * q + m
    BY <1>3, <2>1
  <2>3. w * (q + k) = x - m
    <3>1. PICK a, b : a = w * q /\ b = w * k
      OBVIOUS
    <3>2. a \in Int /\ b \in Int /\ w * (q + k) = a + b /\ y = a + m /\ x = y + b
      BY <1>2, <2>2, <3>1
    <3> QED
      BY <2>2, <3>2
  <2>4. q + k \in Int
    BY <1>2, <2>2
  <2>5. x - m < w /\ x - m > -w
    BY <1>1, <2>2
  <2>6. q + k = 0
    BY <2>3, <2>4, <2>5, WidthAway
  <2>7. x - m = 0
    BY <2>3, <2>6
  <2> QED
    BY <2>1, <2>2, <2>7
<1>5. print_uint32(Wrap(x)) = Decimal[x]
  BY <1>1, <1>2, <1>4 DEF print_uint32, Unsigned
<1>6. print_int32(x) = Decimal[x]
  BY DEF print_int32
<1> QED
  BY <1>5, <1>6, IntReads

\* An int is itself when it is wrapped.
LEMMA WrapIdle ==
  ASSUME NEW x \in Ints PROVE Wrap(x) = x
<1>1. PICK w \in Nat : w = 2 ^ BITS
  BY Widths
<1>2. x \in Int
  BY AboveAll DEF Ints
<1>3. x = x + w * 0
  BY <1>1, <1>2
<1> QED
  BY <1>1, <1>2, <1>3, WrapIs

\* A factor may be wrapped before it is multiplied.
LEMMA WrapFactor ==
  ASSUME NEW x \in Int, NEW y \in Int PROVE Wrap(Wrap(x) * y) = Wrap(x * y)
<1>1. PICK w \in Nat : w = 2 ^ BITS
  BY Widths
<1>2. PICK z, k : z \in Ints /\ k \in Int /\ z = Wrap(x) /\ x = z + w * k
  BY <1>1, WrapParts
<1>3. z \in Int
  BY <1>2, AboveAll DEF Ints
<1>4. x * y = z * y + w * (k * y)
  BY <1>1, <1>2, <1>3
<1>5. x * y \in Int /\ z * y \in Int /\ k * y \in Int
  BY <1>2, <1>3
<1> QED
  BY <1>1, <1>2, <1>4, <1>5, WrapSame

\* A square that does not reach 2^BITS is printed.
LEMMA SqrIsExact ==
  ASSUME NEW a \in Ints, outcome = calc_sqr(a) PROVE SqrExact(a)
<1>1. a \in Int
  BY AboveAll DEF Ints
<1>2. a * a \in Nat
  BY <1>1
<1>3. a * a < Above => Reads(print_uint32(Wrap(a * a)), a * a)
  BY <1>2, UnsignedReads
<1> QED
  BY <1>3 DEF calc_sqr, Result, SqrExact, Prints

\* Powers of 2, as far as ints reach: an int counts further than its width.
LEMMA PowersOfTwo ==
  /\ \A k \in 0 .. BITS : 2 ^ k \in Nat /\ 2 ^ k >= k + 1
  /\ INT_MAX >= BITS - 1 /\ INT_MAX >= 1 /\ Above >= 4
<1>1. PICK n \in Nat : n = BITS /\ n >= 2
  BY CalculatorAssumption
<1>1a. PICK g : g = [k \in 0 .. n |-> 2 ^ k]
  OBVIOUS
<1>2. g[0] = 1 /\ \A k \in 1 .. n : g[k] = 2 * g[k - 1]
  <2>1. \A k \in 1 .. n : k \in 0 .. n /\ k - 1 \in 0 .. n
    BY <1>1
  <2>2. 0 \in 0 .. n
    BY <1>1
  <2> QED
    BY <1>1a, <1>1, <2>1, <2>2, CalculatorAssumption
<1> DEFINE S == {k \in Nat : k <= n => g[k] \in Nat /\ g[k] >= k + 1}
<1>3. 0 \in S
  BY <1>2
<1>4. ASSUME NEW k \in Nat, k \in S PROVE k + 1 \in S
  <2> SUFFICES ASSUME k + 1 <= n PROVE g[k + 1] \in Nat /\ g[k + 1] >= (k + 1) + 1
    OBVIOUS
  <2>1. g[k] \in Nat /\ g[k] >= k + 1
    BY <1>4
  <2>2. k + 1 \in 1 .. n /\ (k + 1) - 1 = k
    OBVIOUS
  <2>3. g[k + 1] = 2 * g[k]
    BY <1>2, <2>2
  <2> QED
    BY <2>1, <2>3
<1>5. \A k \in Nat : k \in S
  <2> HIDE DEF S
  <2> QED
    BY <1>3, <1>4, AllReached
<1>6. \A k \in 0 .. n : g[k] \in Nat /\ g[k] >= k + 1
  BY <1>5
<1>7. INT_MAX = g[n - 1] - 1 /\ n - 1 \in 0 .. n
  BY <1>1a, <1>1 DEF INT_MAX
<1>8. INT_MAX >= n - 1
  BY <1>6, <1>7
<1> QED
  BY <1>1a, <1>1, <1>6, <1>8, AboveAll

\* A power of 0 is 0, but for the first one.
LEMMA PowerOfZero ==
  ASSUME NEW n \in Nat PROVE Power(0, n) \in {0, 1} /\ (n # 0 => Power(0, n) = 0)
<1>1. CASE n = 0
  BY <1>1, PowerInTurn
<1>2. CASE n # 0
  <2>1. PICK k \in Nat : n = k + 1
    <3>1. n - 1 \in Nat /\ n = (n - 1) + 1
      BY <1>2
    <3> QED
      BY <3>1
  <2>2. PICK p \in Nat : p = Power(0, k)
    BY PowerIsNat, AboveAll
  <2>3. Power(0, n) = Capped(0)
    <3>1. p * 0 = 0
      OBVIOUS
    <3> QED
      BY <2>1, <2>2, <3>1, PowerInTurn
  <2> QED
    BY <1>2, <2>3, AboveAll DEF Capped
<1> QED
  BY <1>1, <1>2

\* The factors of a power whose size is below 2^BITS: it wraps to what it is,
\* with a sign when a negative number is taken an odd number of times.
LEMMA SignedPower ==
  ASSUME NEW a \in Int, NEW n \in Nat, Power(Abs(a), n) < Above
  PROVE  PowerLoop(a, n)
           = Wrap(IF a < 0 /\ n % 2 = 1 THEN -Power(Abs(a), n) ELSE Power(Abs(a), n))
<1>1. PICK w \in Nat \ {0} : w = Above /\ w >= 4
  BY AboveAll, PowersOfTwo
<1>2. PICK c \in Nat : c = Abs(a) /\ (a >= 0 => a = c) /\ (a < 0 => a = -c /\ c # 0)
  BY DEF Abs
<1> DEFINE Signed(k, p) == IF a < 0 /\ k % 2 = 1 THEN -p ELSE p
<1> DEFINE S == {k \in Nat : Power(c, k) < w => PowerLoop(a, k) = Wrap(Signed(k, Power(c, k)))}
<1>3. 0 \in S
  <2>1. Wrap(1) = 1
    <3>1. 1 \in Ints
      BY AboveAll, PowersOfTwo DEF Ints
    <3> QED
      BY <3>1, WrapIdle
  <2>2. PowerLoop(a, 0) = 1 /\ Power(c, 0) = 1
    BY Multiplied, PowerInTurn
  <2>3. Signed(0, 1) = 1
    OBVIOUS
  <2> QED
    BY <2>1, <2>2, <2>3
<1>4. ASSUME NEW k \in Nat, k \in S PROVE k + 1 \in S
  <2> SUFFICES ASSUME Power(c, k + 1) < w
               PROVE  PowerLoop(a, k + 1) = Wrap(Signed(k + 1, Power(c, k + 1)))
    OBVIOUS
  <2>1. PICK p \in 0 .. w : p = Power(c, k)
    BY <1>1, PowerIsNat
  <2>2. PICK q : q = Power(c, k + 1) /\ q = Capped(p * c) /\ q < w
    BY <2>1, PowerInTurn
  <2>3. q = p * c
    BY <1>1, <2>2 DEF Capped
  <2>4. p < w
    <3>1. CASE c # 0
      <4>1. p <= q
        BY <2>1, <2>2, <3>1, PowerGrows
      <4>2. q \in Nat
        BY <2>3
      <4> QED
        BY <2>2, <4>1, <4>2
    <3>2. CASE c = 0
      <4>1. p \in {0, 1}
        BY <2>1, <3>2, PowerOfZero
      <4> QED
        BY <1>1, <4>1
    <3> QED
      BY <3>1, <3>2
  <2>5. PICK s \in Int : s = Signed(k, p)
    OBVIOUS
  <2>6. PowerLoop(a, k) = Wrap(s)
    BY <1>4, <2>1, <2>4, <2>5
  <2>7. PowerLoop(a, k + 1) = Wrap(s * a)
    BY <2>6, Multiplied, WrapFactor
  <2>8. s * a = Signed(k + 1, p * c)
    <3>1. CASE a >= 0
      BY <1>2, <2>5, <3>1
    <3>2. CASE a < 0
      <4>1. (k + 1) % 2 = 1 <=> k % 2 # 1
        OBVIOUS
      <4>2. (-p) * (-c) = p * c /\ p * (-c) = -(p * c)
        OBVIOUS
      <4> QED
        BY <1>2, <2>5, <3>2, <4>1, <4>2
    <3> QED
      BY <3>1, <3>2
  <2> QED
    BY <2>2, <2>3, <2>7, <2>8
<1>5. n \in S
  <2> HIDE DEF S
  <2> QED
    BY <1>3, <1>4, AllReached
<1> QED
  BY <1>1, <1>2, <1>5

\* A power that does not reach 2^BITS is printed.
LEMMA PowIsExact ==
  ASSUME NEW a \in Ints, NEW b \in Ints, outcome = calc_pow(a, b) PROVE PowExact(a, b)
<1> SUFFICES ASSUME b >= 0, Power(Abs(a), b) < Above, a >= 0 \/ b % 2 = 0
             PROVE  Prints(Power(Abs(a), b))
  BY DEF PowExact
<1>1. a \in Int /\ b \in Nat /\ Abs(a) \in Nat
  BY AboveAll DEF Ints, Abs
<1>2. PICK p \in Nat : p = Power(Abs(a), b)
  BY <1>1, PowerIsNat, AboveAll
<1>3. ~(a < 0 /\ b % 2 = 1)
  BY <1>1
<1>4. PowerLoop(a, b) = Wrap(p)
  BY <1>1, <1>2, <1>3, SignedPower
<1>5. Reads(print_uint32(Wrap(p)), p)
  BY <1>2, UnsignedReads
<1> QED
  BY <1>2, <1>4, <1>5 DEF calc_pow, Result, Prints

-----------------------------------------------------------------------------

(* Searches: a turn after the other, until it is done. *)

SearchStates(loop) == IF loop = "root" THEN RootState ELSE LogState

Done(loop, s) ==
  IF loop = "root" THEN s.low > s.high \/ <<s.low, s.high>> \in s.seen
                   ELSE s.power >= s.a \/ s.power \in s.seen

\* What the search comes to when it is done.
Conclusion(loop, s) ==
  IF loop = "root"
  THEN IF s.low > s.high THEN s.result ELSE Hang
  ELSE IF s.power >= s.a THEN (IF s.power > s.a THEN s.result - 1 ELSE s.result)
                         ELSE Hang

\* The state after k turns.
After(loop, s, k) == LoopEnd(loop, s, Repeated(0, k), k)

\* The turns after s are s itself and the turns after the next state.
LEMMA AfterTurns ==
  ASSUME NEW loop, NEW s, NEW n \in Nat
  PROVE  /\ After(loop, s, 0) = s
         /\ After(loop, s, n + 1) = Turn(loop, After(loop, s, n), 0)
         /\ After(loop, s, n + 1) = After(loop, Turn(loop, s, 0), n)
<1>1. ASSUME NEW t, NEW k \in Nat
      PROVE  After(loop, t, k + 1) = Turn(loop, After(loop, t, k), 0)
  <2>1. PICK m \in Nat : m = k + 1
    OBVIOUS
  <2>2. /\ \A i \in 1 .. k : Repeated(0, m)[i] = Repeated(0, k)[i]
        /\ Repeated(0, m)[m] = 0
    BY <2>1 DEF Repeated
  <2>3. LoopEnd(loop, t, Repeated(0, m), m)
          = Turn(loop, LoopEnd(loop, t, Repeated(0, k), k), 0)
    BY <2>1, <2>2, LoopLonger
  <2> QED
    BY <2>1, <2>3 DEF After
<1>2. ASSUME NEW t PROVE After(loop, t, 0) = t
  BY LoopEmpty DEF After
<1>3. PICK t : t = Turn(loop, s, 0)
  OBVIOUS
<1> DEFINE S == {k \in Nat : After(loop, s, k + 1) = After(loop, t, k)}
<1>4. 0 \in S
  BY <1>1, <1>2, <1>3
<1>5. ASSUME NEW k \in Nat, k \in S PROVE k + 1 \in S
  <2>1. k + 1 \in Nat
    OBVIOUS
  <2>2. After(loop, s, (k + 1) + 1) = Turn(loop, After(loop, s, k + 1), 0)
    BY <1>1, <2>1
  <2>3. After(loop, t, k + 1) = Turn(loop, After(loop, t, k), 0)
    BY <1>1
  <2> QED
    BY <1>5, <2>1, <2>2, <2>3
<1>6. n \in S
  <2> HIDE DEF S
  <2> QED
    BY <1>4, <1>5, AllReached
<1> QED
  BY <1>1, <1>2, <1>3, <1>6

\* A search has a value wherever it begins: its answer after the first turn that
\* it is done at, if there is one.
LEMMA SearchSolved ==
  ASSUME NEW loop, \A s \in SearchStates(loop) : Turn(loop, s, 0) \in SearchStates(loop)
  PROVE  \E h : h = [s \in SearchStates(loop) |->
                       IF Done(loop, s) THEN Conclusion(loop, s) ELSE h[Turn(loop, s, 0)]]
<1> DEFINE Ends(s) == {k \in Nat : Done(loop, After(loop, s, k))}
           Value(s) == IF Ends(s) = {} THEN Hang
                       ELSE Conclusion(loop, After(loop, s, Least(Ends(s))))
<1>1. PICK h : h = [s \in SearchStates(loop) |-> Value(s)]
  OBVIOUS
<1>2. ASSUME NEW s, NEW m \in Ends(s), \A k \in Ends(s) : m <= k
      PROVE  Value(s) = Conclusion(loop, After(loop, s, m))
  <2>1. Ends(s) \subseteq Nat /\ Ends(s) # {}
    BY <1>2
  <2>2. Least(Ends(s)) = m
    <3> HIDE DEF Ends
    <3> QED
      BY <1>2, <2>1, LeastIs
  <2> QED
    BY <2>1, <2>2
<1>3. ASSUME NEW s, Done(loop, s) PROVE Value(s) = Conclusion(loop, s)
  <2>1. 0 \in Ends(s) /\ After(loop, s, 0) = s
    BY <1>3, AfterTurns
  <2>2. \A k \in Ends(s) : 0 <= k
    OBVIOUS
  <2> QED
    BY <1>2, <2>1, <2>2
<1>4. ASSUME NEW s, ~Done(loop, s) PROVE Value(s) = Value(Turn(loop, s, 0))
  <2>1. PICK t : t = Turn(loop, s, 0)
    OBVIOUS
  <2>2. \A k \in Nat : After(loop, s, k + 1) = After(loop, t, k)
    BY <2>1, AfterTurns
  <2>3. 0 \notin Ends(s)
    BY <1>4, AfterTurns
  <2>4. \A k \in Nat : k \in Ends(t) <=> k + 1 \in Ends(s)
    BY <2>2
  <2>5. CASE Ends(t) = {}
    <3>1. ASSUME NEW k \in Ends(s) PROVE FALSE
      <4>1. k \in Nat /\ k # 0
        BY <2>3
      <4>2. k - 1 \in Nat /\ (k - 1) + 1 = k
        BY <4>1
      <4>3. k - 1 \in Ends(t)
        BY <2>4, <4>2
      <4> QED
        BY <2>5, <4>3
    <3>2. Ends(s) = {}
      BY <3>1
    <3> QED
      BY <2>1, <2>5, <3>2
  <2>6. CASE Ends(t) # {}
    <3>1. PICK m \in Ends(t) : \A k \in Ends(t) : m <= k
      <4>1. Ends(t) \in SUBSET Nat
        OBVIOUS
      <4> HIDE DEF Ends
      <4> QED
        BY <2>6, <4>1, LeastElement
    <3>2. m \in Nat /\ m + 1 \in Ends(s)
      BY <2>4, <3>1
    <3>3. ASSUME NEW k \in Ends(s) PROVE m + 1 <= k
      <4>1. k \in Nat /\ k # 0
        BY <2>3
      <4>2. k - 1 \in Nat /\ (k - 1) + 1 = k
        BY <4>1
      <4>3. k - 1 \in Ends(t)
        BY <2>4, <4>2
      <4>4. m <= k - 1
        BY <3>1, <4>3
      <4> QED
        BY <3>2, <4>1, <4>4
    <3>4. Value(s) = Conclusion(loop, After(loop, s, m + 1))
      <4> HIDE DEF Ends, Value
      <4> QED
        BY <1>2, <3>2, <3>3
    <3>5. Value(t) = Conclusion(loop, After(loop, t, m))
      <4> HIDE DEF Ends, Value
      <4> QED
        BY <1>2, <3>1
    <3> QED
      BY <2>1, <2>2, <3>2, <3>4, <3>5
  <2> QED
    BY <2>5, <2>6
<1> HIDE DEF Value
<1>5. h = [s \in SearchStates(loop) |->
             IF Done(loop, s) THEN Conclusion(loop, s) ELSE h[Turn(loop, s, 0)]]
  BY <1>1, <1>3, <1>4
<1> QED
  BY <1>5

\* A turn of calc_log leads to a state of calc_log.
LEMMA LogGoesOn ==
  ASSUME NEW s \in LogState PROVE LogTurn(s) \in LogState
<1>1. s.power * s.base \in Int /\ s.result + 1 \in Int /\ s.seen \cup {s.power} \subseteq Int
  BY DEF LogState
<1>2. Wrap(s.power * s.base) \in Int
  BY <1>1, WrapIsInt
<1> QED
  BY <1>1, <1>2 DEF LogTurn, LogState

\* So its search satisfies its equation.
LEMMA LogEquation ==
  ASSUME NEW s \in LogState
  PROVE  LogLoop[s] = IF Done("log", s) THEN Conclusion("log", s) ELSE LogLoop[LogTurn(s)]
<1>1. SearchStates("log") = LogState /\ \A t : Turn("log", t, 0) = LogTurn(t)
  BY DEF SearchStates, Turn
<1>2. PICK h : h = [t \in LogState |->
                      IF Done("log", t) THEN Conclusion("log", t) ELSE h[LogTurn(t)]]
  BY <1>1, LogGoesOn, SearchSolved
<1>3. \A t \in LogState : h[t] = IF t.power >= t.a
                                 THEN (IF t.power > t.a THEN t.result - 1 ELSE t.result)
                                 ELSE IF t.power \in t.seen THEN Hang
                                 ELSE h[LogTurn(t)]
  BY <1>2 DEF Done, Conclusion
<1>4. h = [t \in LogState |-> IF t.power >= t.a
                              THEN (IF t.power > t.a THEN t.result - 1 ELSE t.result)
                              ELSE IF t.power \in t.seen THEN Hang
                              ELSE h[LogTurn(t)]]
  BY <1>2, <1>3
<1>5. LogLoop = [t \in LogState |-> IF t.power >= t.a
                              THEN (IF t.power > t.a THEN t.result - 1 ELSE t.result)
                              ELSE IF t.power \in t.seen THEN Hang
                              ELSE LogLoop[LogTurn(t)]]
  BY <1>4 DEF LogLoop
<1> QED
  BY <1>5 DEF Done, Conclusion

\* What is printed of an int that is not negative reads as it.
LEMMA FoundReads ==
  ASSUME NEW r \in 0 .. INT_MAX, outcome = Found(r) PROVE Prints(r)
<1>1. r \in Ints /\ r \in Nat /\ r < Above /\ r # Hang
  BY AboveAll DEF Ints, Hang
<1>2. Reads(print_uint32(r), r)
  BY <1>1, WrapIdle, UnsignedReads
<1> QED
  BY <1>1, <1>2 DEF Found, Result, Prints

\* The state of calc_log after k turns of which none overflows.
LogAt(a, b, k) ==
  [a |-> a, base |-> b, power |-> Power(b, k), result |-> k,
   seen |-> {Power(b, j) : j \in 0 .. k - 1}]

\* While the power is below a the next one does not overflow.
LEMMA LogNext ==
  ASSUME NEW a \in Nat, NEW b \in Nat \ {0, 1}, a <= INT_MAX \div b,
         NEW k \in Nat, Power(b, k) < a
  PROVE  /\ LogAt(a, b, k) \in LogState /\ ~Done("log", LogAt(a, b, k))
         /\ LogTurn(LogAt(a, b, k)) = LogAt(a, b, k + 1)
         /\ Power(b, k) < Above
<1>1. PICK m \in Nat : m = INT_MAX /\ Above = 2 * m + 2
  BY AboveAll
<1>2. PICK q \in Nat : q = m \div b /\ b * q <= m /\ q <= m
  <2>1. /\ m \div b \in Nat /\ m % b \in 0 .. b - 1 /\ m = b * (m \div b) + (m % b)
        /\ m \div b <= m
    BY NaturalQuotient
  <2>2. PICK q \in Nat : q = m \div b
    BY <2>1
  <2>3. PICK x : x = b * q
    OBVIOUS
  <2>4. x \in Int /\ x <= m
    BY <2>1, <2>2, <2>3
  <2> QED
    BY <2>1, <2>2, <2>3, <2>4
<1>3. PICK p \in Nat : p = Power(b, k) /\ p < a
  BY PowerIsNat, AboveAll
<1>4. p < m
  BY <1>1, <1>2, <1>3
<1>5. p * b \in 0 .. m
  <2>1. PICK d \in Nat : q = p + d
    <3>1. q - p \in Nat /\ q = p + (q - p)
      BY <1>1, <1>2, <1>3
    <3> QED
      BY <3>1
  <2>2. b * q = p * b + b * d /\ b * d \in Nat /\ p * b \in Nat /\ b * q \in Nat
    BY <2>1
  <2>3. PICK x, y, z : x = p * b /\ y = b * d /\ z = b * q
    OBVIOUS
  <2>4. z = x + y /\ x \in Nat /\ y \in Nat /\ z <= m
    BY <1>2, <2>2, <2>3
  <2>5. x \in 0 .. m
    BY <2>4
  <2> QED
    BY <2>3, <2>5
<1>6. Power(b, k + 1) = p * b /\ Wrap(p * b) = p * b
  <2>1. p * b < Above /\ p * b \in Ints
    BY <1>1, <1>5, AboveAll DEF Ints
  <2> QED
    BY <1>3, <2>1, PowerInTurn, WrapIdle DEF Capped
<1>7. \A j \in 0 .. k - 1 : Power(b, j) \in Nat /\ Power(b, j) < p
  <2> SUFFICES ASSUME NEW j \in 0 .. k - 1 PROVE Power(b, j) \in Nat /\ Power(b, j) < p
    OBVIOUS
  <2>1. j \in Nat /\ j + 1 \in Nat /\ j + 1 <= k /\ j <= k
    OBVIOUS
  <2>2. PICK x \in Nat, y \in Nat : x = Power(b, j) /\ y = Power(b, j + 1)
    <3>1. b \in Nat
      OBVIOUS
    <3>2. Power(b, j) \in Nat /\ Power(b, j + 1) \in Nat
      BY <2>1, <3>1, PowerInNat
    <3> QED
      BY <3>2
  <2>3. x <= p /\ y <= p
    BY <1>3, <2>1, <2>2, PowerLater
  <2>4. x < y
    BY <1>1, <1>4, <2>1, <2>2, <2>3, PowerStrict
  <2> QED
    BY <2>2, <2>3, <2>4
<1>8. PICK s : s = LogAt(a, b, k)
  OBVIOUS
<1>9. /\ s.a = a /\ s.base = b /\ s.power = p /\ s.result = k
      /\ s.seen = {Power(b, j) : j \in 0 .. k - 1}
  BY <1>3, <1>8 DEF LogAt
<1>10. s \in LogState
  <2>1. {Power(b, j) : j \in 0 .. k - 1} \in SUBSET Int
    BY <1>7
  <2> QED
    BY <1>3, <1>8, <2>1 DEF LogAt, LogState
<1>11. p \notin s.seen
  BY <1>7, <1>9
<1>12. ~Done("log", s)
  BY <1>3, <1>9, <1>11 DEF Done
<1>13. LogTurn(s) = LogAt(a, b, k + 1)
  <2>1. s.seen \cup {p} = {Power(b, j) : j \in 0 .. (k + 1) - 1}
    <3>1. 0 .. (k + 1) - 1 = (0 .. k - 1) \cup {k}
      OBVIOUS
    <3> QED
      BY <1>3, <1>9, <3>1
  <2>2. LogTurn(s) = [s EXCEPT !.power = p * b, !.result = k + 1, !.seen = s.seen \cup {p}]
    BY <1>6, <1>9 DEF LogTurn
  <2> QED
    BY <1>6, <1>8, <1>9, <2>1, <2>2 DEF LogAt
<1> QED
  BY <1>1, <1>3, <1>4, <1>8, <1>10, <1>12, <1>13

\* The loop of calc_log stays below its argument until its last turn, and what
\* it comes to is the whole part of the logarithm.
LEMMA LogIsExact ==
  ASSUME NEW a \in Ints, NEW b \in Int, outcome = calc_log(a, b) PROVE LogExact(a, b)
<1>1. a \in Int /\ a <= INT_MAX
  BY AboveAll DEF Ints
<1>2. CASE a <= 0 \/ b <= 1
  <2>1. outcome.kind = "error"
    BY <1>2 DEF calc_log, Outcome
  <2> QED
    BY <1>1, <1>2, <2>1 DEF LogExact
<1>3. CASE ~(a <= 0 \/ b <= 1)
  <2>1. PICK value : value = LogLoop[LogAt(a, b, 0)]
    OBVIOUS
  <2>2. outcome = Found(value)
    <3>1. LogAt(a, b, 0) = [a |-> a, base |-> b, power |-> 1, result |-> 0, seen |-> {}]
      <4>1. 0 .. 0 - 1 = {}
        OBVIOUS
      <4> QED
        BY <4>1, PowerInTurn DEF LogAt
    <3> QED
      BY <1>3, <2>1, <3>1 DEF calc_log
  <2>3. outcome.kind # "error"
    BY <2>2 DEF Found, Outcome, Result
  <2>4. ASSUME a <= INT_MAX \div b
        PROVE  \E r \in 0 .. INT_MAX : Prints(r) /\ Power(b, r) <= a /\ a < Power(b, r + 1)
    <3>1. a \in Nat \ {0} /\ b \in Nat \ {0, 1} /\ b \in Nat /\ b \in Nat \ {0}
      BY <1>1, <1>3
    <3> DEFINE Ends == {k \in Nat : Power(b, k) >= a}
    <3>2. a \in Ends
      <4>1. PICK p \in Nat : p = Power(b, a)
        BY <3>1, PowerInNat
      <4>2. p < Above => a < p
        BY <3>1, <4>1, PowerStrict
      <4>3. Above \in Nat /\ a < Above
        BY <1>1, AboveAll
      <4> QED
        BY <3>1, <4>1, <4>2, <4>3
    <3>3. PICK m \in Ends : \A k \in Ends : m <= k
      <4>1. Ends \in SUBSET Nat
        OBVIOUS
      <4> HIDE DEF Ends
      <4> QED
        BY <3>2, <4>1, LeastElement
    <3>4. m \in Nat /\ Power(b, m) >= a
      OBVIOUS
    <3>5. \A k \in Nat : k < m => Power(b, k) < a
      <4> SUFFICES ASSUME NEW k \in Nat, k < m PROVE Power(b, k) < a
        OBVIOUS
      <4>1. k \notin Ends
        <5> HIDE DEF Ends
        <5> QED
          BY <3>3, <3>4
      <4>2. Power(b, k) \in Nat
        BY <3>1, PowerInNat
      <4> QED
        BY <3>1, <4>1, <4>2
    <3> DEFINE S == {d \in Nat : d <= m => LogLoop[LogAt(a, b, d)] = value}
    <3>6. 0 \in S
      BY <2>1
    <3>7. ASSUME NEW d \in Nat, d \in S PROVE d + 1 \in S
      <4> SUFFICES ASSUME d + 1 <= m PROVE LogLoop[LogAt(a, b, d + 1)] = value
        OBVIOUS
      <4>1. Power(b, d) < a
        BY <3>4, <3>5
      <4>2. LogLoop[LogAt(a, b, d)] = LogLoop[LogAt(a, b, d + 1)]
        BY <2>4, <3>1, <4>1, LogNext, LogEquation
      <4> QED
        BY <3>4, <3>7, <4>2
    <3>8. LogLoop[LogAt(a, b, m)] = value
      <4>1. m \in S
        <5> HIDE DEF S, Ends
        <5> QED
          BY <3>4, <3>6, <3>7, AllReached
      <4> QED
        BY <3>4, <4>1
    <3>9. PICK p \in Nat : p = Power(b, m) /\ p >= a
      BY <3>1, <3>4, PowerInNat
    <3>10. value = IF p > a THEN m - 1 ELSE m
      <4>1. PICK s : s = LogAt(a, b, m)
        OBVIOUS
      <4>2. s.a = a /\ s.power = p /\ s.result = m
        BY <3>9, <4>1 DEF LogAt
      <4>3. s \in LogState
        <5>1. {Power(b, j) : j \in 0 .. m - 1} \in SUBSET Int
          <6>1. \A j \in 0 .. m - 1 : j \in Nat
            OBVIOUS
          <6> QED
            BY <3>1, <6>1, PowerInNat
        <5> QED
          BY <1>1, <3>1, <3>4, <3>9, <4>1, <5>1 DEF LogAt, LogState
      <4>4. Done("log", s) /\ Conclusion("log", s) = IF p > a THEN m - 1 ELSE m
        BY <3>9, <4>2 DEF Done, Conclusion
      <4> QED
        BY <3>8, <4>1, <4>3, <4>4, LogEquation
    <3>11. CASE p > a
      <4>1. m # 0
        BY <3>1, <3>9, <3>11, PowerInTurn
      <4>2. PICK r \in Nat : r = m - 1 /\ m = r + 1
        BY <3>4, <4>1
      <4>3. PICK q \in Nat : q = Power(b, r) /\ q < a
        BY <3>1, <3>5, <4>2, PowerInNat
      <4>4. r < q
        <5>1. q < Above
          BY <1>1, <4>3, AboveAll
        <5> QED
          BY <3>1, <4>3, <5>1, PowerStrict
      <4>5. r \in 0 .. INT_MAX
        BY <1>1, <4>3, <4>4, AboveAll
      <4>6. Prints(r)
        BY <2>2, <3>10, <3>11, <4>2, <4>5, FoundReads
      <4> QED
        BY <1>1, <3>9, <3>11, <4>2, <4>3, <4>5, <4>6
    <3>12. CASE p = a
      <4>1. p < Above
        BY <1>1, <3>12, AboveAll
      <4>2. PICK q \in Nat : q = Power(b, m + 1)
        <5>1. m + 1 \in Nat
          BY <3>4
        <5> QED
          BY <3>1, <5>1, PowerInNat
      <4>3. p < q /\ m < p
        BY <3>1, <3>4, <3>9, <4>1, <4>2, PowerStrict
      <4>4. m \in 0 .. INT_MAX
        BY <1>1, <3>4, <3>12, <4>3, AboveAll
      <4>5. Prints(m)
        BY <2>2, <3>10, <3>12, <4>4, FoundReads
      <4> QED
        BY <1>1, <3>9, <3>12, <4>2, <4>3, <4>4, <4>5
    <3> QED
      BY <1>1, <3>9, <3>11, <3>12
  <2> QED
    BY <1>1, <1>3, <2>3, <2>4 DEF LogExact
<1> QED
  BY <1>2, <1>3

\* A turn of calc_root leads to a state of calc_root.
LEMMA RootGoesOn ==
  ASSUME NEW s \in RootState PROVE RootTurn(s) \in RootState
<1>1. PICK mid : mid = Quotient(Wrap(s.low + s.high), 2)
  OBVIOUS
<1>2. s.low + s.high \in Int
  BY DEF RootState
<1>3. mid \in Int
  BY <1>1, <1>2, WrapIsInt, QuotientIsInt
<1>4. PICK more : more = [s EXCEPT !.seen = @ \cup {<<s.low, s.high>>}]
  OBVIOUS
<1>5. more \in RootState /\ s.high + 1 \in Int /\ mid + 1 \in Int /\ mid - 1 \in Int
  BY <1>3, <1>4 DEF RootState
<1>6. \A result \in Int, low \in Int, high \in Int :
        /\ [more EXCEPT !.result = result, !.low = low] \in RootState
        /\ [more EXCEPT !.high = high] \in RootState
  BY <1>5 DEF RootState
<1> QED
  BY <1>1, <1>3, <1>4, <1>5, <1>6 DEF RootTurn

\* So its search satisfies its equation.
LEMMA RootEquation ==
  ASSUME NEW s \in RootState
  PROVE  RootSearch[s] = IF Done("root", s) THEN Conclusion("root", s)
                         ELSE RootSearch[RootTurn(s)]
<1>1. SearchStates("root") = RootState /\ \A t : Turn("root", t, 0) = RootTurn(t)
  BY DEF SearchStates, Turn
<1>2. PICK h : h = [t \in RootState |->
                      IF Done("root", t) THEN Conclusion("root", t) ELSE h[RootTurn(t)]]
  BY <1>1, RootGoesOn, SearchSolved
<1>3. \A t \in RootState : h[t] = IF t.low > t.high THEN t.result
                                  ELSE IF <<t.low, t.high>> \in t.seen THEN Hang
                                  ELSE h[RootTurn(t)]
  BY <1>2 DEF Done, Conclusion
<1>4. h = [t \in RootState |-> IF t.low > t.high THEN t.result
                               ELSE IF <<t.low, t.high>> \in t.seen THEN Hang
                               ELSE h[RootTurn(t)]]
  BY <1>2, <1>3
<1>5. RootSearch = [t \in RootState |-> IF t.low > t.high THEN t.result
                                        ELSE IF <<t.low, t.high>> \in t.seen THEN Hang
                                        ELSE RootSearch[RootTurn(t)]]
  BY <1>4 DEF RootSearch
<1> QED
  BY <1>5 DEF Done, Conclusion

\* The middle of a range that does not overflow lies in it.
LEMMA RootMiddle ==
  ASSUME NEW low \in Nat \ {0}, NEW high \in Nat, low <= high, 2 * high <= INT_MAX
  PROVE  /\ Quotient(Wrap(low + high), 2) = (low + high) \div 2
         /\ (low + high) \div 2 \in low .. high
<1>1. low + high \in Ints /\ low + high \in Nat
  BY AboveAll DEF Ints
<1>2. Wrap(low + high) = low + high
  BY <1>1, WrapIdle
<1>3. Quotient(low + high, 2) = (low + high) \div 2
  BY <1>1 DEF Quotient, Abs
<1> QED
  BY <1>2, <1>3

\* Of two numbers that follow each other the second has greater powers.
LEMMA PowerOfNext ==
  ASSUME NEW x \in Nat, NEW n \in Nat \ {0}, Power(x, n) < Above
  PROVE  Power(x, n) < Power(x + 1, n)
<1>1. PICK k \in Nat : n = k + 1
  <2>1. n - 1 \in Nat /\ n = (n - 1) + 1
    OBVIOUS
  <2> QED
    BY <2>1
<1>2. PICK y \in Nat \ {0} : y = x + 1
  OBVIOUS
<1>3. PICK p \in Nat : p = Power(x, k)
  BY PowerInNat
<1>4. PICK q \in Nat : q = Power(y, k)
  BY PowerInNat
<1>5. p <= q /\ q >= 1
  <2>1. x <= y
    BY <1>2
  <2> QED
    BY <1>2, <1>3, <1>4, <2>1, PowerOfMore, PowerGrows
<1>6. Power(x, n) = Capped(p * x) /\ Power(y, n) = Capped(q * y)
  BY <1>1, <1>3, <1>4, PowerInTurn
<1>7. PICK d \in Nat : q = p + d
  <2>1. q - p \in Nat /\ q = p + (q - p)
    BY <1>5
  <2> QED
    BY <2>1
<1>8. q * y = p * x + (d * x + q)
  BY <1>2, <1>7
<1>9. PICK u \in Nat, v \in Nat : u = p * x /\ v = q * y /\ u < v
  <2>1. p * x \in Nat /\ d * x \in Nat /\ q * y \in Nat
    OBVIOUS
  <2>2. p * x < q * y
    BY <1>5, <1>8, <2>1
  <2> QED
    BY <2>1, <2>2
<1> QED
  BY <1>2, <1>6, <1>9, AboveAll DEF Capped

\* A power of 1 is 1.
LEMMA PowerOfOne ==
  ASSUME NEW n \in Nat PROVE Power(1, n) = 1
<1>1. PICK w \in Nat \ {0} : w = Above /\ w >= 4
  BY AboveAll, PowersOfTwo
<1> DEFINE S == {k \in Nat : Power(1, k) = 1}
<1>2. 0 \in S
  BY PowerInTurn
<1>3. ASSUME NEW k \in Nat, k \in S PROVE k + 1 \in S
  <2>1. Power(1, k + 1) = Capped(Power(1, k) * 1)
    BY PowerInTurn
  <2>2. Power(1, k) * 1 = 1 /\ k + 1 \in Nat
    BY <1>3
  <2> QED
    BY <1>1, <2>1, <2>2 DEF Capped
<1>4. n \in S
  <2> HIDE DEF S
  <2> QED
    BY <1>2, <1>3, AllReached
<1> QED
  BY <1>4

\* A first power is what it is a power of, a second one its square.
LEMMA PowerOnce ==
  ASSUME NEW x \in Nat PROVE Power(x, 1) = Capped(x) /\ Power(x, 2) = Capped(Capped(x) * x)
<1>1. Power(x, 0) = 1 /\ Power(x, 0 + 1) = Capped(Power(x, 0) * x)
  BY PowerInTurn
<1>2. 1 \in Nat /\ 1 * x = x /\ 0 + 1 = 1 /\ 1 + 1 = 2
  OBVIOUS
<1>3. Power(x, 1) = Capped(x)
  BY <1>1, <1>2
<1>4. Power(x, 1 + 1) = Capped(Power(x, 1) * x)
  BY <1>2, PowerInTurn
<1> QED
  BY <1>2, <1>3, <1>4

\* Where calc_root starts: the power of the middle is an int, and so is that of
\* its argument, or the middle is not too small.
RootStarts(a, b) ==
  /\ a \in Nat \ {0} /\ b \in Nat \ {0} /\ 2 * a <= INT_MAX
  /\ \/ Power(a, b) <= INT_MAX
     \/ /\ Power((1 + a) \div 2, b) <= INT_MAX
        /\ Power((1 + a) \div 2, b) >= a

\* That is so whenever the property asks for an answer.
LEMMA RootBegins ==
  ASSUME NEW a \in Nat \ {0}, NEW b \in Nat \ {0}, 2 * a <= INT_MAX,
         Power(IF a < 4 THEN a ELSE (a + 1) \div 2, b) <= INT_MAX
  PROVE  RootStarts(a, b)
<1>1. PICK m \in Nat, w \in Nat : m = INT_MAX /\ w = Above /\ w = 2 * m + 2
  BY AboveAll
<1>2. a <= m
  BY <1>1
<1>3. CASE a < 4
  BY <1>3 DEF RootStarts
<1>4. CASE b = 1
  <2>1. Power(a, 1) = a
    BY <1>1, <1>2, PowerOnce DEF Capped
  <2> QED
    BY <1>1, <1>2, <1>4, <2>1 DEF RootStarts
<1>5. CASE a >= 4 /\ b # 1
  <2>1. PICK c \in Nat : c = (1 + a) \div 2 /\ 2 * c >= a /\ c >= 2 /\ c <= a
    BY <1>5
  <2>2. Power(c, b) <= m
    <3>1. a + 1 = 1 + a /\ ~(a < 4)
      BY <1>5
    <3> QED
      BY <1>1, <2>1, <3>1
  <2>3. c * c >= a
    <3>1. PICK d \in Nat : c = d + 2
      <4>1. c - 2 \in Nat /\ c = (c - 2) + 2
        BY <2>1
      <4> QED
        BY <4>1
    <3>2. PICK x, y : x = c * c /\ y = c * d
      OBVIOUS
    <3>3. x = y + 2 * c /\ y \in Nat
      BY <3>1, <3>2
    <3> QED
      BY <2>1, <3>2, <3>3
  <2>4. c < w /\ c * c \in Nat
    BY <1>1, <1>2, <2>1
  <2>5. Power(c, 2) >= a
    <3>1. Power(c, 2) = Capped(c * c)
      BY <1>1, <2>4, PowerOnce DEF Capped
    <3> QED
      BY <1>1, <1>2, <2>3, <2>4, <3>1 DEF Capped
  <2>6. Power(c, b) >= Power(c, 2)
    <3>1. c \in Nat \ {0} /\ 2 <= b
      BY <1>5, <2>1
    <3> QED
      BY <3>1, PowerLater
  <2>7. Power(c, b) \in Nat /\ Power(c, 2) \in Nat
    BY PowerInNat
  <2>8. Power(c, b) >= a
    BY <2>5, <2>6, <2>7
  <2> QED
    BY <1>1, <2>1, <2>2, <2>8 DEF RootStarts
<1> QED
  BY <1>3, <1>4, <1>5

\* A root rounded down.
IsRoot(a, b, r) == r \in 1 .. a /\ Power(r, b) <= a /\ a < Power(r + 1, b)

\* What holds of the search between two turns: the root is in the range or just
\* below it, no power in the range overflows after the first turn, and the
\* ranges were larger before.
Searching(a, b, s) ==
  /\ s \in RootState /\ s.a = a /\ s.n = b
  /\ s.low \in 1 .. a + 1 /\ s.high \in 0 .. a /\ s.low <= s.high + 1
  /\ a < Power(s.high + 1, b)
  /\ s.low = 1 \/ (s.result = s.low - 1 /\ Power(s.low - 1, b) < a)
  /\ \/ Power(s.high, b) <= INT_MAX
     \/ s.low = 1 /\ s.high = a
  /\ \A range \in s.seen : range[2] - range[1] > s.high - s.low

\* When the range is empty the root is found.
LEMMA RootFound ==
  ASSUME NEW a, NEW b, RootStarts(a, b), NEW s, Searching(a, b, s), s.low > s.high
  PROVE  IsRoot(a, b, s.result)
<1>1. PICK low \in 1 .. a + 1, high \in 0 .. a : low = s.low /\ high = s.high
  BY DEF Searching
<1>2. a \in Nat \ {0} /\ b \in Nat \ {0}
  BY DEF RootStarts
<1>3. low = high + 1 /\ a < Power(high + 1, b)
  BY <1>1, <1>2 DEF Searching
<1>4. low # 1
  <2>1. Power(1, b) = 1
    BY <1>2, PowerOfOne
  <2> QED
    BY <1>2, <1>3, <2>1
<1>5. s.result = high /\ Power(high, b) < a
  <2>1. low - 1 = high
    BY <1>1, <1>2, <1>3
  <2> QED
    BY <1>1, <1>4, <2>1 DEF Searching
<1>6. high \in 1 .. a /\ Power(high, b) \in Nat
  <2>1. high \in 1 .. a /\ high \in Nat /\ b \in Nat
    BY <1>1, <1>2, <1>3, <1>4
  <2>2. Power(high, b) \in Nat
    BY <2>1, PowerInNat
  <2> QED
    BY <2>1, <2>2
<1> QED
  BY <1>2, <1>3, <1>5, <1>6 DEF IsRoot
\* One turn finds the root, or makes the range smaller around it.
LEMMA RootNext ==
  ASSUME NEW a, NEW b, RootStarts(a, b), NEW s, Searching(a, b, s), s.low <= s.high
  PROVE  /\ ~Done("root", s)
         /\ \/ RootTurn(s).low > RootTurn(s).high /\ IsRoot(a, b, RootTurn(s).result)
            \/ /\ Searching(a, b, RootTurn(s))
               /\ RootTurn(s).high - RootTurn(s).low < s.high - s.low
<1>1. PICK low \in 1 .. a + 1, high \in 0 .. a : low = s.low /\ high = s.high
  BY DEF Searching
<1>2. PICK m \in Nat, w \in Nat : m = INT_MAX /\ w = Above /\ w = 2 * m + 2
  BY AboveAll
<1>3. a \in Nat \ {0} /\ b \in Nat \ {0} /\ a <= m /\ 2 * high <= m
  BY <1>1, <1>2 DEF RootStarts
<1>4. /\ s \in RootState /\ s.a = a /\ s.n = b /\ low <= high
      /\ s.seen \in SUBSET (Int \X Int)
      /\ \A range \in s.seen : range[2] - range[1] > high - low
  BY <1>1 DEF Searching, RootState
<1>5. ~Done("root", s)
  <2>1. <<low, high>>[2] - <<low, high>>[1] = high - low
    OBVIOUS
  <2>2. <<low, high>> \notin s.seen
    BY <1>1, <1>4, <2>1
  <2> QED
    BY <1>1, <1>4, <2>2 DEF Done
<1>6. PICK mid \in low .. high : /\ mid = (low + high) \div 2
                                 /\ mid = Quotient(Wrap(low + high), 2)
  <2>1. low \in Nat \ {0} /\ high \in Nat
    BY <1>1
  <2> QED
    BY <1>2, <1>3, <1>4, <2>1, RootMiddle
<1>7. mid \in Nat \ {0} /\ mid \in 1 .. a
  BY <1>1, <1>3
<1>8. PICK p \in Nat : p = Power(mid, b)
  BY <1>3, <1>7, PowerInNat
<1>9. /\ p <= m
      /\ p < a => Power(high, b) <= m
  <2>1. CASE Power(high, b) <= m
    <3>1. mid \in Nat /\ high \in Nat /\ mid <= high /\ b \in Nat
      BY <1>1, <1>3, <1>7
    <3>2. Power(mid, b) <= Power(high, b) /\ Power(high, b) \in Nat
      BY <3>1, PowerOfMore, PowerInNat
    <3> QED
      BY <1>2, <1>8, <2>1, <3>2
  <2>2. CASE ~(Power(high, b) <= m)
    <3>1. low = 1 /\ high = a /\ ~(Power(a, b) <= m)
      BY <1>1, <1>2, <2>2 DEF Searching
    <3>2. p <= m /\ p >= a
      BY <1>2, <1>6, <1>8, <3>1 DEF RootStarts
    <3> QED
      BY <1>3, <3>2
  <2> QED
    BY <2>1, <2>2
<1>10. PowerLoop(mid, b) = p
  <2>1. Abs(mid) = mid /\ ~(mid < 0) /\ p < Above /\ mid \in Int
    BY <1>2, <1>7, <1>9 DEF Abs
  <2>2. p \in Ints
    BY <1>2, <1>9, AboveAll DEF Ints
  <2>3. PowerLoop(mid, b) = Wrap(p)
    BY <1>3, <1>8, <2>1, SignedPower
  <2> QED
    BY <2>2, <2>3, WrapIdle
<1>11. PICK seen : seen = s.seen \cup {<<low, high>>}
  OBVIOUS
<1>12. RootTurn(s) = IF p = a THEN [s EXCEPT !.seen = seen, !.result = mid, !.low = high + 1]
                     ELSE IF p < a
                     THEN [s EXCEPT !.seen = seen, !.result = mid, !.low = mid + 1]
                     ELSE [s EXCEPT !.seen = seen, !.high = mid - 1]
  BY <1>1, <1>4, <1>6, <1>10, <1>11 DEF RootTurn, RootState
<1>13. RootTurn(s) \in RootState
  BY <1>4, RootGoesOn
<1>14. \A range \in seen : range[2] - range[1] >= high - low
  BY <1>4, <1>11
<1>15. CASE p = a
  <2>1. RootTurn(s).low = high + 1 /\ RootTurn(s).high = high /\ RootTurn(s).result = mid
    BY <1>1, <1>4, <1>12, <1>15 DEF RootState
  <2>2. p < Power(mid + 1, b)
    BY <1>2, <1>3, <1>7, <1>8, <1>9, PowerOfNext
  <2>3. IsRoot(a, b, mid)
    BY <1>3, <1>7, <1>8, <1>15, <2>2 DEF IsRoot
  <2> QED
    BY <1>5, <2>1, <2>3
<1>16. CASE p < a
  <2>1. PICK t : t = RootTurn(s)
    OBVIOUS
  <2>2. /\ t.a = a /\ t.n = b /\ t.low = mid + 1 /\ t.high = high /\ t.result = mid
        /\ t.seen = seen
    BY <1>1, <1>4, <1>12, <1>16, <2>1 DEF RootState
  <2>3. /\ mid + 1 \in 1 .. a + 1 /\ mid + 1 <= high + 1 /\ (mid + 1) - 1 = mid
        /\ high - (mid + 1) < high - low
    BY <1>1, <1>3, <1>7
  <2>4. a < Power(high + 1, b)
    BY <1>1 DEF Searching
  <2>5. \A range \in t.seen : range[2] - range[1] > t.high - t.low
    <3> SUFFICES ASSUME NEW range \in seen
                 PROVE  range[2] - range[1] > high - (mid + 1)
      BY <2>2
    <3>1. range[2] - range[1] >= high - low /\ range[2] \in Int /\ range[1] \in Int
      BY <1>4, <1>11, <1>14
    <3> QED
      BY <1>1, <1>7, <2>3, <3>1
  <2>6. Searching(a, b, t)
    BY <1>2, <1>8, <1>9, <1>13, <1>16, <2>1, <2>2, <2>3, <2>4, <2>5 DEF Searching
  <2> QED
    BY <1>1, <1>5, <2>1, <2>2, <2>3, <2>6
<1>17. CASE p > a
  <2>1. PICK t : t = RootTurn(s)
    OBVIOUS
  <2>2. /\ t.a = a /\ t.n = b /\ t.low = low /\ t.high = mid - 1 /\ t.result = s.result
        /\ t.seen = seen
    BY <1>1, <1>3, <1>4, <1>8, <1>12, <1>17, <2>1 DEF RootState
  <2>3. /\ mid - 1 \in 0 .. a /\ low <= (mid - 1) + 1 /\ (mid - 1) + 1 = mid
        /\ (mid - 1) - low < high - low
    BY <1>1, <1>3, <1>7
  <2>4. \A range \in t.seen : range[2] - range[1] > t.high - t.low
    <3> SUFFICES ASSUME NEW range \in seen
                 PROVE  range[2] - range[1] > (mid - 1) - low
      BY <2>2
    <3>1. range[2] - range[1] >= high - low /\ range[2] \in Int /\ range[1] \in Int
      BY <1>4, <1>11, <1>14
    <3> QED
      BY <1>1, <1>7, <2>3, <3>1
  <2>5. Power(mid - 1, b) <= m
    <3>1. mid - 1 \in Nat /\ mid - 1 <= mid
      BY <1>7
    <3>2. Power(mid - 1, b) <= p /\ Power(mid - 1, b) \in Nat
      BY <1>3, <1>7, <1>8, <3>1, PowerOfMore, PowerInNat
    <3> QED
      BY <1>9, <3>2
  <2>6. low = 1 \/ (s.result = low - 1 /\ Power(low - 1, b) < a)
    BY <1>1 DEF Searching
  <2>7. a < Power((mid - 1) + 1, b)
    BY <1>8, <1>17, <2>3
  <2>8. Searching(a, b, t)
    BY <1>1, <1>2, <1>13, <2>1, <2>2, <2>3, <2>4, <2>5, <2>6, <2>7 DEF Searching
  <2> QED
    BY <1>1, <1>5, <2>1, <2>2, <2>3, <2>8
<1> QED
  BY <1>3, <1>8, <1>15, <1>16, <1>17

\* So the search ends, with the root.
LEMMA RootSearched ==
  ASSUME NEW a, NEW b, RootStarts(a, b), NEW s, Searching(a, b, s)
  PROVE  IsRoot(a, b, RootSearch[s])
<1>1. ASSUME NEW t \in RootState, t.low > t.high PROVE RootSearch[t] = t.result
  BY <1>1, RootEquation DEF Done, Conclusion
<1> DEFINE S == {d \in Nat : \A t : Searching(a, b, t) /\ t.high - t.low < d
                                      => IsRoot(a, b, RootSearch[t])}
<1>2. ASSUME NEW t, Searching(a, b, t) PROVE t \in RootState /\ t.low \in Int /\ t.high \in Int
  BY <1>2 DEF Searching, RootState
<1>3. ASSUME NEW t, Searching(a, b, t), t.low > t.high PROVE IsRoot(a, b, RootSearch[t])
  BY <1>1, <1>2, <1>3, RootFound
<1>4. 0 \in S
  <2> SUFFICES ASSUME NEW t, Searching(a, b, t), t.high - t.low < 0
               PROVE  IsRoot(a, b, RootSearch[t])
    OBVIOUS
  <2>1. t.low > t.high
    BY <1>2
  <2> QED
    BY <1>3, <2>1
<1>5. ASSUME NEW d \in Nat, d \in S PROVE d + 1 \in S
  <2> SUFFICES ASSUME NEW t, Searching(a, b, t), t.high - t.low < d + 1
               PROVE  IsRoot(a, b, RootSearch[t])
    OBVIOUS
  <2>1. CASE t.low > t.high
    BY <1>3, <2>1
  <2>2. CASE ~(t.low > t.high)
    <3>1. t \in RootState /\ t.low \in Int /\ t.high \in Int /\ t.low <= t.high
      BY <1>2, <2>2
    <3>2. PICK u : u = RootTurn(t)
      OBVIOUS
    <3>3. u \in RootState /\ u.low \in Int /\ u.high \in Int
      BY <3>1, <3>2, RootGoesOn DEF RootState
    <3>4. RootSearch[t] = RootSearch[u]
      BY <3>1, <3>2, RootNext, RootEquation
    <3>5. \/ u.low > u.high /\ IsRoot(a, b, u.result)
          \/ Searching(a, b, u) /\ u.high - u.low < t.high - t.low
      BY <3>1, <3>2, RootNext
    <3>6. CASE u.low > u.high /\ IsRoot(a, b, u.result)
      BY <1>1, <3>3, <3>4, <3>6
    <3>7. CASE Searching(a, b, u) /\ u.high - u.low < t.high - t.low
      <4>1. u.high - u.low < d
        BY <3>1, <3>3, <3>7
      <4> QED
        BY <1>5, <3>4, <3>7, <4>1
    <3> QED
      BY <3>5, <3>6, <3>7
  <2> QED
    BY <2>1, <2>2
<1>6. PICK low \in Int, high \in Int : low = s.low /\ high = s.high
  BY <1>2
<1>7. PICK d \in Nat : high - low < d
  <2>1. CASE high - low < 0
    BY <2>1
  <2>2. CASE ~(high - low < 0)
    <3>1. high - low + 1 \in Nat /\ high - low < high - low + 1
      BY <2>2
    <3> QED
      BY <3>1
  <2> QED
    BY <2>1, <2>2
<1>8. d \in S
  <2> HIDE DEF S
  <2> QED
    BY <1>4, <1>5, AllReached
<1> QED
  BY <1>6, <1>7, <1>8

\* calc_root is right where its searches start well.
LEMMA RootIsExact ==
  ASSUME NEW a \in Ints, NEW b \in Int, outcome = calc_root(a, b) PROVE RootExact(a, b)
<1>1. a \in Int /\ a <= INT_MAX /\ INT_MAX \in Nat
  BY AboveAll DEF Ints
<1>2. CASE b <= 0
  <2>1. outcome.kind = "error"
    BY <1>2 DEF calc_root, Outcome
  <2> QED
    BY <1>2, <2>1 DEF RootExact
<1>3. CASE ~(b <= 0)
  <2>1. PICK s : s = [a |-> a, n |-> b, low |-> 1, high |-> a, result |-> 1, seen |-> {}]
    OBVIOUS
  <2>2. outcome = Found(RootSearch[s])
    BY <1>3, <2>1 DEF calc_root
  <2>3. outcome.kind # "error"
    BY <2>2 DEF Found, Outcome, Result
  <2>4. ASSUME a > 0, 2 * a <= INT_MAX,
               Power(IF a < 4 THEN a ELSE (a + 1) \div 2, b) <= INT_MAX
        PROVE  \E r \in 1 .. INT_MAX : Prints(r) /\ Power(r, b) <= a /\ a < Power(r + 1, b)
    <3>1. a \in Nat \ {0} /\ b \in Nat \ {0} /\ a + 1 \in Nat \ {0} /\ 1 <= b
      BY <1>1, <1>3, <2>4
    <3>2. RootStarts(a, b)
      BY <2>4, <3>1, RootBegins
    <3>3. a < Power(a + 1, b)
      <4>1. Power(a + 1, 1) = a + 1
        <5>1. a + 1 < Above
          BY <1>1, AboveAll
        <5> QED
          BY <3>1, <5>1, PowerOnce DEF Capped
      <4>2. Power(a + 1, 1) <= Power(a + 1, b)
        BY <3>1, PowerLater
      <4>3. Power(a + 1, b) \in Nat
        BY <3>1, PowerInNat
      <4> QED
        BY <3>1, <4>1, <4>2, <4>3
    <3>4. s \in RootState
      BY <2>1, <3>1 DEF RootState
    <3>5. /\ s.a = a /\ s.n = b /\ s.low = 1 /\ s.high = a /\ s.seen = {}
          /\ 1 \in 1 .. a + 1 /\ a \in 0 .. a /\ 1 <= a + 1
      BY <2>1, <3>1
    <3>6. Searching(a, b, s)
      BY <3>3, <3>4, <3>5 DEF Searching
    <3>7. IsRoot(a, b, RootSearch[s])
      BY <3>2, <3>6, RootSearched
    <3>8. PICK r \in 1 .. a : r = RootSearch[s] /\ Power(r, b) <= a /\ a < Power(r + 1, b)
      BY <3>7 DEF IsRoot
    <3>9. r \in 1 .. INT_MAX /\ r \in 0 .. INT_MAX
      BY <1>1
    <3>10. Prints(r)
      BY <2>2, <3>8, <3>9, FoundReads
    <3> QED
      BY <3>8, <3>9, <3>10
  <2> QED
    BY <1>3, <2>3, <2>4 DEF RootExact
<1> QED
  BY <1>2, <1>3

-----------------------------------------------------------------------------

(* Towers of powers. *)

\* What print_result prints reads as it.
LEMMA ResultReads ==
  ASSUME NEW x \in Int, outcome = print_result(x) PROVE Prints(x)
BY IntReads DEF print_result, Result, Prints

\* The division in front of a multiplication tells whether the product fits.
LEMMA FitsDivided ==
  ASSUME NEW m \in Nat, NEW p \in Nat, NEW b \in Nat \ {0}
  PROVE  Quotient(m, b) = m \div b /\ (p > m \div b <=> p * b > m)
<1>1. Quotient(m, b) = m \div b
  BY DEF Quotient, Abs
<1>2. PICK q \in Nat, r \in 0 .. b - 1 : q = m \div b /\ m = b * q + r
  BY NaturalQuotient
<1>3. PICK x \in Nat, y \in Nat : x = p * b /\ y = b * q
  OBVIOUS
<1>4. ASSUME p > q PROVE x > m
  <2>1. PICK d \in Nat : p = q + d + 1
    <3>1. p - q - 1 \in Nat /\ p = q + (p - q - 1) + 1
      BY <1>4
    <3> QED
      BY <3>1
  <2>2. p * b = b * q + d * b + b
    BY <2>1
  <2>3. PICK z \in Nat : z = d * b
    OBVIOUS
  <2>4. x = y + z + b
    BY <1>3, <2>2, <2>3
  <2> QED
    BY <1>2, <1>3, <2>4
<1>5. ASSUME ~(p > q) PROVE ~(x > m)
  <2>1. PICK d \in Nat : q = p + d
    <3>1. q - p \in Nat /\ q = p + (q - p)
      BY <1>5
    <3> QED
      BY <3>1
  <2>2. b * q = p * b + d * b
    BY <2>1
  <2>3. PICK z \in Nat : z = d * b
    OBVIOUS
  <2>4. y = x + z
    BY <1>3, <2>2, <2>3
  <2> QED
    BY <1>2, <1>3, <2>4
<1>6. p > q <=> x > m
  <2>1. p > q => x > m
    BY <1>4
  <2>2. ~(p > q) => ~(x > m)
    BY <1>5
  <2> QED
    BY <2>1, <2>2
<1> QED
  BY <1>1, <1>2, <1>3, <1>6

\* What fits: the number itself, or nothing.
Fitting(x) == IF x <= INT_MAX THEN {x} ELSE {}

\* checked_mul_int refuses exactly the products that do not fit.
LEMMA CheckedProduct ==
  ASSUME NEW p \in 1 .. INT_MAX, NEW b \in 1 .. INT_MAX
  PROVE  checked_mul_int(p, b) = Fitting(p * b)
<1>1. PICK m \in Nat : m = INT_MAX
  BY AboveAll
<1>2. p \in Nat \ {0} /\ b \in Nat \ {0} /\ p <= m /\ b <= m
  BY <1>1
<1>3. INT_MIN \in Int /\ INT_MIN < 0
  BY <1>1, AboveAll
<1>4. MulOverflows(p, b) <=> p > Quotient(m, b)
  BY <1>1, <1>2, <1>3 DEF MulOverflows
<1>5. MulOverflows(p, b) <=> p * b > m
  BY <1>1, <1>2, <1>4, FitsDivided
<1>6. p * b \in Nat /\ (p * b <= m => Wrap(p * b) = p * b)
  <2>1. PICK x \in Nat : x = p * b
    BY <1>2
  <2>2. x <= m => x \in Ints
    BY <1>1, AboveAll DEF Ints
  <2> QED
    BY <2>1, <2>2, WrapIdle
<1> QED
  BY <1>1, <1>2, <1>5, <1>6 DEF checked_mul_int, Fitting

\* What a loop of n checked multiplications comes to, ...
CheckedPower(b, n) == LoopEnd("checked", {1}, Repeated(b, n), n)

\* ... which is the power, if that fits.
LEMMA CheckedPowerFits ==
  ASSUME NEW b \in 1 .. INT_MAX, NEW n \in Nat
  PROVE  CheckedPower(b, n) = Fitting(Power(b, n))
<1>1. PICK m \in Nat : m = INT_MAX /\ m >= 1 /\ Above = 2 * m + 2
  BY AboveAll, PowersOfTwo
<1>2. b \in Nat /\ b \in Nat \ {0}
  BY <1>1
<1> DEFINE S == {k \in Nat : CheckedPower(b, k) = Fitting(Power(b, k))}
<1>3. 0 \in S
  <2>1. CheckedPower(b, 0) = {1}
    BY LoopEmpty DEF CheckedPower
  <2> QED
    BY <1>1, <2>1, PowerInTurn DEF Fitting
<1>4. ASSUME NEW k \in Nat, k \in S PROVE k + 1 \in S
  <2>1. CheckedPower(b, k + 1) = UNION {checked_mul_int(p, b) : p \in CheckedPower(b, k)}
    <3>1. PICK i \in Nat : i = k + 1
      OBVIOUS
    <3>2. /\ \A j \in 1 .. k : Repeated(b, i)[j] = Repeated(b, k)[j]
          /\ Repeated(b, i)[i] = b
      BY <3>1 DEF Repeated
    <3>3. LoopEnd("checked", {1}, Repeated(b, i), i)
            = Turn("checked", LoopEnd("checked", {1}, Repeated(b, k), k), b)
      BY <3>1, <3>2, LoopLonger
    <3> QED
      BY <3>1, <3>3 DEF CheckedPower, Turn
  <2>2. PICK p \in Nat, q \in Nat : /\ p = Power(b, k) /\ q = Power(b, k + 1)
                                    /\ p >= 1 /\ p <= q /\ q = Capped(p * b)
    <3>1. k + 1 \in Nat
      OBVIOUS
    <3>2. Power(b, k) \in Nat /\ Power(b, k + 1) \in Nat
      BY <1>2, <3>1, PowerInNat
    <3>3. Power(b, k) >= 1 /\ Power(b, k) <= Power(b, k + 1)
      BY <1>2, PowerGrows
    <3>4. Power(b, k + 1) = Capped(Power(b, k) * b)
      BY PowerInTurn
    <3> QED
      BY <3>2, <3>3, <3>4
  <2>3. CASE p <= m
    <3>1. CheckedPower(b, k) = {p} /\ p \in 1 .. m
      BY <1>1, <1>4, <2>2, <2>3 DEF Fitting
    <3>2. CheckedPower(b, k + 1) = Fitting(p * b)
      BY <1>1, <2>1, <3>1, CheckedProduct
    <3>3. PICK x \in Nat : x = p * b
      BY <1>2
    <3>4. Fitting(x) = Fitting(Capped(x))
      BY <1>1 DEF Fitting, Capped
    <3> QED
      BY <2>2, <3>2, <3>3, <3>4
  <2>4. CASE ~(p <= m)
    <3>1. CheckedPower(b, k) = {} /\ ~(q <= m)
      BY <1>1, <1>4, <2>2, <2>4 DEF Fitting
    <3>2. CheckedPower(b, k + 1) = {}
      BY <2>1, <3>1
    <3> QED
      BY <1>1, <2>2, <3>1, <3>2 DEF Fitting
  <2> QED
    BY <2>3, <2>4
<1> QED
  <2>1. n \in S
    <3> HIDE DEF S
    <3> QED
      BY <1>3, <1>4, AllReached
  <2> QED
    BY <2>1

\* A number above 1 has no powers that fit from the width of an int on.
LEMMA PowerTooLong ==
  ASSUME NEW b \in Nat \ {0, 1}, NEW n \in Nat, n > BITS - 1
  PROVE  Power(b, n) > INT_MAX
<1>1. PICK w \in Nat, e \in Nat : w = Above /\ e = BITS /\ e >= 2
  BY AboveAll, CalculatorAssumption
<1>2. PICK g : g = [k \in 0 .. e |-> 2 ^ k]
  OBVIOUS
<1>3. g[0] = 1 /\ g[e] = w /\ \A k \in 1 .. e : g[k] = 2 * g[k - 1]
  <2>1. \A k \in 1 .. e : k \in 0 .. e /\ k - 1 \in 0 .. e
    BY <1>1
  <2>2. 0 \in 0 .. e /\ e \in 0 .. e
    BY <1>1
  <2> QED
    BY <1>1, <1>2, <2>1, <2>2, CalculatorAssumption DEF Above
<1>4. \A k \in 0 .. e : g[k] \in Nat
  BY <1>1, <1>2, PowersOfTwo
<1> DEFINE S == {k \in Nat : k <= e => Power(2, k) = w \/ Power(2, k) >= g[k]}
<1>5. 0 \in S
  BY <1>3, PowerInTurn
<1>6. ASSUME NEW k \in Nat, k \in S PROVE k + 1 \in S
  <2> SUFFICES ASSUME k + 1 <= e PROVE Power(2, k + 1) = w \/ Power(2, k + 1) >= g[k + 1]
    OBVIOUS
  <2>1. k + 1 \in 1 .. e /\ (k + 1) - 1 = k /\ k \in 0 .. e /\ k + 1 \in Nat /\ k <= e
    BY <1>1
  <2>2. g[k + 1] = 2 * g[k] /\ g[k] \in Nat
    BY <1>3, <1>4, <2>1
  <2>3. PICK p \in Nat, q \in Nat : p = Power(2, k) /\ q = Power(2, k + 1) /\ q = Capped(p * 2)
    BY <2>1, PowerInNat, PowerInTurn
  <2>4. p = w \/ p >= g[k]
    BY <1>6, <2>1, <2>3
  <2> QED
    BY <1>1, <2>2, <2>3, <2>4 DEF Capped
<1>7. e \in S
  <2> HIDE DEF S
  <2> QED
    BY <1>1, <1>5, <1>6, AllReached
<1>8. PICK p \in Nat, q \in Nat, r \in Nat :
        p = Power(2, e) /\ q = Power(2, n) /\ r = Power(b, n)
  BY PowerInNat
<1>9. p >= w
  BY <1>1, <1>3, <1>7, <1>8
<1>10. p <= q
  <2>1. 2 \in Nat \ {0} /\ e <= n
    BY <1>1
  <2> QED
    BY <1>8, <2>1, PowerLater
<1>11. q <= r
  <2>1. 2 \in Nat /\ b \in Nat /\ 2 <= b
    OBVIOUS
  <2> QED
    BY <1>8, <2>1, PowerOfMore
<1> QED
  BY <1>1, <1>8, <1>9, <1>10, <1>11, AboveAll

\* So the limit on the exponent refuses no level that fits.
LEMMA LevelFits ==
  ASSUME NEW b \in 1 .. INT_MAX, NEW r \in 1 .. INT_MAX, b = 1 => r = 1
  PROVE  TowerLevel(Fitting(r), b) = Fitting(Power(b, r))
<1>1. PICK m \in Nat : m = INT_MAX /\ m >= 1 /\ m >= BITS - 1
  BY AboveAll, PowersOfTwo
<1>2. r \in Nat /\ r <= m /\ b \in Nat \ {0} /\ BITS \in Nat \ {0, 1}
  BY <1>1, CalculatorAssumption
<1>3. Fitting(r) = {r}
  BY <1>1, <1>2 DEF Fitting
<1>4. TowerLevel({r}, b) = IF r > BITS - 1 THEN {} ELSE CheckedPower(b, r)
  <2> DEFINE Level(x) == IF x > BITS - 1 THEN {}
                         ELSE FoldLeft(LAMBDA power, c :
                                         UNION {checked_mul_int(p, c) : p \in power},
                                       {1}, Repeated(b, x))
  <2>1. DOMAIN Repeated(b, r) = 1 .. r
    BY DEF Repeated
  <2>2. Level(r) = IF r > BITS - 1 THEN {} ELSE CheckedPower(b, r)
    BY <1>2, <2>1 DEF CheckedPower, FoldLeft, MapThenFoldSet, Max, Highest, LoopEnd, Looped,
                      Turn
  <2>3. TowerLevel({r}, b) = UNION {Level(x) : x \in {r}}
    BY DEF TowerLevel
  <2> HIDE DEF Level
  <2>4. UNION {Level(x) : x \in {r}} = Level(r)
    OBVIOUS
  <2> QED
    BY <2>2, <2>3, <2>4
<1>5. CASE r > BITS - 1
  <2>1. b # 1
    BY <1>2, <1>5
  <2>2. Power(b, r) > m /\ Power(b, r) \in Nat
    BY <1>1, <1>2, <1>5, <2>1, PowerTooLong, PowerInNat
  <2> QED
    BY <1>1, <1>3, <1>4, <1>5, <2>2 DEF Fitting
<1>6. CASE ~(r > BITS - 1)
  BY <1>2, <1>3, <1>4, <1>6, CheckedPowerFits
<1> QED
  BY <1>5, <1>6
\* The tower and its levels, after k more of them.
TowerAt(a, k) == LoopEnd("tower", a, Repeated(a, k), k)
LevelAt(a, k) == LoopEnd("level", {a}, Repeated(a, k), k)

\* Each turn takes both one level further.
LEMMA TowerInTurn ==
  ASSUME NEW a, NEW k \in Nat
  PROVE  /\ TowerAt(a, 0) = a /\ TowerAt(a, k + 1) = Power(a, TowerAt(a, k))
         /\ LevelAt(a, 0) = {a} /\ LevelAt(a, k + 1) = TowerLevel(LevelAt(a, k), a)
<1>1. PICK i \in Nat : i = k + 1
  OBVIOUS
<1>2. /\ \A j \in 1 .. k : Repeated(a, i)[j] = Repeated(a, k)[j]
      /\ Repeated(a, i)[i] = a
  BY <1>1 DEF Repeated
<1>3. LoopEnd("tower", a, Repeated(a, i), i)
        = Turn("tower", LoopEnd("tower", a, Repeated(a, k), k), a)
  BY <1>1, <1>2, LoopLonger
<1>4. LoopEnd("level", {a}, Repeated(a, i), i)
        = Turn("level", LoopEnd("level", {a}, Repeated(a, k), k), a)
  BY <1>1, <1>2, LoopLonger
<1>5. TowerAt(a, 0) = a /\ LevelAt(a, 0) = {a}
  BY LoopEmpty DEF TowerAt, LevelAt
<1>6. TowerAt(a, k + 1) = Power(a, TowerAt(a, k))
  BY <1>1, <1>3 DEF TowerAt, Turn
<1>7. LevelAt(a, k + 1) = TowerLevel(LevelAt(a, k), a)
  BY <1>1, <1>4 DEF LevelAt, Turn
<1> QED
  BY <1>5, <1>6, <1>7

\* That is the tower, ...
LEMMA TowerIs ==
  ASSUME NEW a, NEW k \in Nat PROVE Tower(a, k + 1) = TowerAt(a, k)
<1>1. DOMAIN Repeated(a, k) = 1 .. k
  BY DEF Repeated
<1>2. Repeated(a, (k + 1) - 1) = Repeated(a, k)
  OBVIOUS
<1>3. FoldLeft(LAMBDA tower, b : Power(b, tower), a, Repeated(a, k)) = TowerAt(a, k)
  BY <1>1 DEF TowerAt, FoldLeft, MapThenFoldSet, Max, Highest, LoopEnd, Looped, Turn
<1> QED
  BY <1>2, <1>3 DEF Tower

\* ... these are the levels of calc_tetration, ...
Levels(a, k) == FoldLeft(LAMBDA t, b : TowerLevel(t, b), {a}, Repeated(a, k))

\* ... as its loop makes them, ...
LEMMA LevelsAre ==
  ASSUME NEW a, NEW k \in Nat PROVE Levels(a, k) = LevelAt(a, k)
<1>1. DOMAIN Repeated(a, k) = 1 .. k
  BY DEF Repeated
<1> QED
  BY <1>1 DEF Levels, LevelAt, FoldLeft, MapThenFoldSet, Max, Highest, LoopEnd, Looped, Turn

\* ... and it answers from them.
LEMMA TetrationAnswers ==
  ASSUME NEW a \in Int, NEW b \in Int
  PROVE  /\ b < 0 \/ (b > 0 /\ a < 0) => calc_tetration(a, b) = Outcome("error")
         /\ b = 0 => calc_tetration(a, b) = print_result(1)
         /\ b > 0 /\ a = 0
              => calc_tetration(a, b) = print_result(IF b % 2 = 0 THEN 1 ELSE 0)
         /\ b > 0 /\ a > 0
              => calc_tetration(a, b)
                   = IF Levels(a, b - 1) = {} THEN Outcome("error")
                     ELSE print_result(CHOOSE result \in Levels(a, b - 1) : TRUE)
<1>1. calc_tetration(a, b)
        = CASE b < 0           -> Outcome("error")
            [] b = 0           -> print_result(1)
            [] b > 0 /\ a = 0 -> print_result(IF b % 2 = 0 THEN 1 ELSE 0)
            [] b > 0 /\ a < 0 -> Outcome("error")
            [] b > 0 /\ a > 0 ->
                 IF Levels(a, b - 1) = {} THEN Outcome("error")
                 ELSE print_result(CHOOSE result \in Levels(a, b - 1) : TRUE)
  BY DEF calc_tetration, Levels
<1> QED
  BY <1>1

\* The loop of calc_tetration holds the tower as long as it fits, and nothing
\* from then on: the tower never fits again.
LEMMA LevelsFit ==
  ASSUME NEW a \in 1 .. INT_MAX, NEW k \in Nat
  PROVE  TowerAt(a, k) \in Nat \ {0} /\ LevelAt(a, k) = Fitting(TowerAt(a, k))
<1>1. PICK m \in Nat : m = INT_MAX /\ m >= 1 /\ Above = 2 * m + 2
  BY AboveAll, PowersOfTwo
<1>2. a \in Nat /\ a \in Nat \ {0}
  BY <1>1
<1> DEFINE S == {i \in Nat : /\ TowerAt(a, i) \in Nat \ {0} /\ (a = 1 => TowerAt(a, i) = 1)
                             /\ LevelAt(a, i) = Fitting(TowerAt(a, i))}
<1>3. 0 \in S
  <2>1. Fitting(a) = {a}
    BY <1>1, <1>2 DEF Fitting
  <2> QED
    BY <1>2, <2>1, TowerInTurn
<1>4. ASSUME NEW i \in Nat, i \in S PROVE i + 1 \in S
  <2>1. PICK t \in Nat \ {0} : /\ t = TowerAt(a, i) /\ (a = 1 => t = 1)
                               /\ LevelAt(a, i) = Fitting(t)
    BY <1>4
  <2>2. PICK u \in Nat : u = Power(a, t) /\ u >= 1 /\ u = TowerAt(a, i + 1)
    <3>1. t \in Nat
      OBVIOUS
    <3> QED
      BY <1>2, <2>1, <3>1, TowerInTurn, PowerInNat, PowerGrows
  <2>3. a = 1 => u = 1
    BY <2>1, <2>2, PowerOfOne
  <2>4. LevelAt(a, i + 1) = TowerLevel(Fitting(t), a)
    BY <2>1, TowerInTurn
  <2>5. CASE t <= m
    <3>1. t \in 1 .. INT_MAX
      BY <1>1, <2>5
    <3>2. LevelAt(a, i + 1) = Fitting(u)
      BY <2>1, <2>2, <2>4, <3>1, LevelFits
    <3> QED
      BY <2>2, <2>3, <3>2
  <2>6. CASE ~(t <= m)
    <3>1. a \in Nat \ {0, 1} /\ t \in Nat
      BY <1>1, <1>2, <2>1, <2>6
    <3>2. u < Above => t < u
      BY <2>2, <3>1, PowerStrict
    <3>3. ~(u <= m)
      BY <1>1, <2>6, <3>1, <3>2
    <3>4. Fitting(t) = {} /\ Fitting(u) = {}
      BY <1>1, <2>6, <3>3 DEF Fitting
    <3>5. TowerLevel({}, a) = {}
      BY DEF TowerLevel
    <3> QED
      BY <2>2, <2>3, <2>4, <3>4, <3>5
  <2> QED
    BY <2>5, <2>6
<1>5. k \in S
  <2> HIDE DEF S
  <2> QED
    BY <1>3, <1>4, AllReached
<1> QED
  BY <1>5

\* A tower of zeros is 0 or 1 in turn.
LEMMA TowerOfZero ==
  ASSUME NEW k \in Nat PROVE TowerAt(0, k) = k % 2
<1> DEFINE S == {i \in Nat : TowerAt(0, i) = i % 2}
<1>1. 0 \in S
  BY TowerInTurn
<1>2. ASSUME NEW i \in Nat, i \in S PROVE i + 1 \in S
  <2>1. PICK t \in 0 .. 1 : t = i % 2 /\ t = TowerAt(0, i) /\ (i + 1) % 2 = 1 - t
    BY <1>2
  <2>2. TowerAt(0, i + 1) = Power(0, t)
    BY <2>1, TowerInTurn
  <2>3. Power(0, t) = 1 - t
    <3>1. CASE t = 0
      BY <3>1, PowerInTurn
    <3>2. CASE t = 1
      <4>1. 1 \in Nat /\ 1 # 0
        OBVIOUS
      <4> QED
        BY <3>2, <4>1, PowerOfZero
    <3> QED
      BY <3>1, <3>2
  <2> QED
    BY <2>1, <2>2, <2>3
<1> QED
  <2>1. k \in S
    <3> HIDE DEF S
    <3> QED
      BY <1>1, <1>2, AllReached
  <2> QED
    BY <2>1

\* calc_tetration prints the tower if that is an int, and refuses it otherwise.
LEMMA TetrationIsExact ==
  ASSUME NEW a \in Ints, NEW b \in Int, outcome = calc_tetration(a, b)
  PROVE  TetrationExact(a, b)
<1>1. PICK m \in Nat : m = INT_MAX /\ m >= 1
  BY PowersOfTwo, AboveAll
<1>2. a \in Int /\ a <= m
  BY <1>1, AboveAll DEF Ints
<1>3. CASE b < 0 \/ (a < 0 /\ b # 0)
  <2>1. b < 0 \/ (b > 0 /\ a < 0)
    BY <1>2, <1>3
  <2>2. outcome = Outcome("error")
    BY <1>2, <2>1, TetrationAnswers
  <2> QED
    BY <1>3, <2>2 DEF TetrationExact, Outcome
<1>4. CASE b = 0
  <2>1. outcome = print_result(1)
    BY <1>2, <1>4, TetrationAnswers
  <2>2. Prints(1)
    BY <2>1, ResultReads
  <2> QED
    BY <1>4, <2>2 DEF TetrationExact
<1>5. CASE b > 0 /\ a >= 0
  <2> DEFINE Right == IF Tower(a, b) <= INT_MAX THEN Prints(Tower(a, b))
                      ELSE outcome.kind = "error"
  <2> SUFFICES Right
    <3>1. ~(b < 0 \/ (a < 0 /\ b # 0)) /\ b # 0
      BY <1>2, <1>5
    <3> QED
      BY <3>1 DEF TetrationExact
  <2>1. PICK k \in Nat : k = b - 1 /\ b = k + 1
    BY <1>5
  <2>2. Tower(a, b) = TowerAt(a, k)
    BY <2>1, TowerIs
  <2>3. CASE a = 0
    <3>1. outcome = print_result(IF b % 2 = 0 THEN 1 ELSE 0)
      BY <1>2, <1>5, <2>3, TetrationAnswers
    <3>2. k % 2 = IF b % 2 = 0 THEN 1 ELSE 0
      BY <2>1
    <3>3. PICK x \in 0 .. 1 : x = k % 2
      BY <2>1
    <3>4. Prints(x) /\ Tower(a, b) = x /\ x <= m
      <4>1. x \in Int /\ outcome = print_result(x)
        BY <3>1, <3>2, <3>3
      <4>2. Prints(x)
        BY <4>1, ResultReads
      <4>3. Tower(a, b) = x
        BY <2>2, <2>3, <3>3, TowerOfZero
      <4> QED
        BY <1>1, <4>2, <4>3
    <3> QED
      BY <1>1, <3>4
  <2>4. CASE a > 0
    <3>1. PICK tower : tower = LevelAt(a, k)
      OBVIOUS
    <3>2. Levels(a, b - 1) = tower
      BY <2>1, <3>1, LevelsAre
    <3>3. outcome = IF tower = {} THEN Outcome("error")
                    ELSE print_result(CHOOSE result \in tower : TRUE)
      BY <1>2, <1>5, <2>4, <3>2, TetrationAnswers
    <3>4. PICK t \in Nat : t = TowerAt(a, k) /\ tower = Fitting(t)
      <4>1. a \in 1 .. INT_MAX
        BY <1>1, <1>2, <2>4
      <4> QED
        BY <3>1, <4>1, LevelsFit
    <3>5. CASE t <= m
      <4>1. tower = {t}
        BY <1>1, <3>4, <3>5 DEF Fitting
      <4>2. outcome = print_result(t)
        BY <3>3, <4>1
      <4>3. Prints(t)
        BY <4>2, ResultReads
      <4> QED
        BY <1>1, <2>2, <3>4, <3>5, <4>3
    <3>6. CASE ~(t <= m)
      <4>1. outcome = Outcome("error")
        BY <1>1, <3>3, <3>4, <3>6 DEF Fitting
      <4> QED
        BY <1>1, <2>2, <3>4, <3>6, <4>1 DEF Outcome
    <3> QED
      BY <3>5, <3>6
  <2> HIDE DEF Right
  <2> QED
    BY <1>2, <1>5, <2>3, <2>4
<1> QED
  BY <1>2, <1>3, <1>4, <1>5

-----------------------------------------------------------------------------

(* Factorials and Fibonacci numbers. *)

\* The products of the first numbers, and the pairs of calc_fibonacci.
Product(n) == LoopEnd("whole", 1, Times(n), n)
Pair(n) == LoopEnd("fibonacci", <<0, 1>>, Times(n), n)

\* How they go on.
LEMMA CountedInTurn ==
  ASSUME NEW n \in Nat
  PROVE  /\ Product(0) = 1 /\ Product(n + 1) = Product(n) * (n + 1)
         /\ Pair(0) = <<0, 1>> /\ Pair(n + 1) = <<Pair(n)[2], Pair(n)[1] + Pair(n)[2]>>
<1>1. PICK i \in Nat : i = n + 1
  OBVIOUS
<1>2. (\A j \in 1 .. n : Times(i)[j] = Times(n)[j]) /\ Times(i)[i] = i
  BY <1>1 DEF Times
<1>3. LoopEnd("whole", 1, Times(i), i)
        = Turn("whole", LoopEnd("whole", 1, Times(n), n), i)
  BY <1>1, <1>2, LoopLonger
<1>4. LoopEnd("fibonacci", <<0, 1>>, Times(i), i)
        = Turn("fibonacci", LoopEnd("fibonacci", <<0, 1>>, Times(n), n), i)
  BY <1>1, <1>2, LoopLonger
<1>5. Product(0) = 1 /\ Pair(0) = <<0, 1>>
  BY LoopEmpty DEF Product, Pair
<1>6. Product(n + 1) = Product(n) * (n + 1)
  BY <1>1, <1>3 DEF Product, Turn
<1>7. Pair(n + 1) = <<Pair(n)[2], Pair(n)[1] + Pair(n)[2]>>
  BY <1>1, <1>4 DEF Pair, Turn
<1> QED
  BY <1>5, <1>6, <1>7

\* The factorial is the product, ...
LEMMA FactorialIs ==
  ASSUME NEW n \in Nat PROVE Factorial[n] = Product(n) /\ Product(n) \in Nat
<1> DEFINE S == {k \in Nat : Product(k) \in Nat}
<1>1. 0 \in S
  BY CountedInTurn
<1>2. ASSUME NEW k \in Nat, k \in S PROVE k + 1 \in S
  <2>1. Product(k) * (k + 1) \in Nat /\ k + 1 \in Nat
    BY <1>2
  <2> QED
    BY <2>1, CountedInTurn
<1>3. \A k \in Nat : Product(k) \in Nat
  <2>1. \A k \in Nat : k \in S
    <3> HIDE DEF S
    <3> QED
      BY <1>1, <1>2, AllReached
  <2> QED
    BY <2>1
<1>4. PICK g : g = [k \in Nat |-> Product(k)]
  OBVIOUS
<1>5. ASSUME NEW k \in Nat, k # 0 PROVE g[k] = k * g[k - 1]
  <2>1. PICK j \in Nat : j = k - 1 /\ k = j + 1
    BY <1>5
  <2>2. PICK p \in Nat : p = Product(j)
    BY <1>3
  <2>3. Product(k) = p * k
    BY <2>1, <2>2, CountedInTurn
  <2>4. p * k = k * p
    OBVIOUS
  <2> QED
    BY <1>4, <2>1, <2>2, <2>3, <2>4
<1>6. g = [k \in Nat |-> IF k = 0 THEN 1 ELSE k * g[k - 1]]
  <2>1. g = [k \in Nat |-> g[k]] /\ g[0] = 1
    BY <1>4, CountedInTurn
  <2> QED
    BY <1>5, <2>1
<1>7. Factorial = [k \in Nat |-> IF k = 0 THEN 1 ELSE k * Factorial[k - 1]]
  BY <1>6 DEF Factorial
<1> DEFINE T == {k \in Nat : Factorial[k] = Product(k)}
<1>8. 0 \in T
  BY <1>7, CountedInTurn
<1>9. ASSUME NEW k \in Nat, k \in T PROVE k + 1 \in T
  <2>1. PICK j \in Nat : j = k + 1 /\ j # 0 /\ j - 1 = k
    OBVIOUS
  <2>2. Factorial[j] = j * Factorial[k]
    BY <1>7, <2>1
  <2>3. g[j] = j * g[k]
    BY <1>5, <2>1
  <2> QED
    BY <1>4, <1>9, <2>1, <2>2, <2>3
<1>10. n \in T
  <2> HIDE DEF T
  <2> QED
    BY <1>8, <1>9, AllReached
<1> QED
  BY <1>3, <1>10

\* ... and calc_factorial prints it.
LEMMA FactorialIsExact ==
  ASSUME NEW n \in Int, outcome = calc_factorial(n) PROVE FactorialExact(n)
<1>1. CASE n \in 0 .. 12
  <2>1. n \in Nat /\ DOMAIN Times(n) = 1 .. n
    BY <1>1 DEF Times
  <2>2. FoldLeft(LAMBDA r, i : r * i, 1, Times(n)) = Product(n)
    BY <2>1 DEF Product, FoldLeft, MapThenFoldSet, Max, Highest, LoopEnd, Looped, Turn
  <2>3. ~(n < 0 \/ n > FactorialLimit)
    BY <1>1 DEF FactorialLimit
  <2>4. outcome = print_result(Product(n))
    BY <2>2, <2>3 DEF calc_factorial
  <2>5. Product(n) = Factorial[n] /\ Product(n) \in Int
    BY <2>1, FactorialIs
  <2>6. Prints(Product(n))
    BY <2>4, <2>5, ResultReads
  <2> QED
    BY <1>1, <2>5, <2>6 DEF FactorialExact
<1>2. CASE n \notin 0 .. 12
  <2>1. n < 0 \/ n > FactorialLimit
    BY <1>2 DEF FactorialLimit
  <2>2. outcome = Outcome("error")
    BY <2>1 DEF calc_factorial
  <2> QED
    BY <1>2, <2>2 DEF FactorialExact, Outcome
<1> QED
  BY <1>1, <1>2

\* What calc_fibonacci prints.
FibonacciAt(n) == IF n = 0 THEN 0 ELSE Pair(n - 1)[2]

\* A pair is two natural numbers, ...
LEMMA PairsAre ==
  ASSUME NEW n \in Nat
  PROVE  Pair(n) \in Nat \X Nat
<1> DEFINE S == {k \in Nat : Pair(k) \in Nat \X Nat}
<1>1. 0 \in S
  BY CountedInTurn
<1>2. ASSUME NEW k \in Nat, k \in S PROVE k + 1 \in S
  <2>1. PICK x \in Nat, y \in Nat : Pair(k) = <<x, y>>
    BY <1>2
  <2>2. Pair(k + 1) = <<y, x + y>>
    BY <2>1, CountedInTurn
  <2>3. x + y \in Nat /\ k + 1 \in Nat
    OBVIOUS
  <2> QED
    BY <2>2, <2>3
<1>3. n \in S
  <2> HIDE DEF S
  <2> QED
    BY <1>1, <1>2, AllReached
<1> QED
  BY <1>3

\* ... and the text printed means the one that belongs to its argument.
LEMMA FibonacciPrints ==
  ASSUME NEW n \in 0 .. 46
  PROVE  /\ FibonacciAt(n) \in Int /\ calc_fibonacci(n) = print_result(FibonacciAt(n))
         /\ Fibonacci(n) = FibonacciAt(n)
<1>1. ~(n < 0 \/ n > FibonacciLimit)
  BY DEF FibonacciLimit
<1>2. FibonacciAt(n) \in Int /\ calc_fibonacci(n) = print_result(FibonacciAt(n))
  <2>1. CASE n = 0
    <3>1. calc_fibonacci(n) = print_result(0)
      BY <1>1, <2>1 DEF calc_fibonacci
    <3>2. FibonacciAt(n) = 0
      BY <2>1 DEF FibonacciAt
    <3> QED
      BY <3>1, <3>2
  <2>2. CASE n # 0
    <3>1. PICK k \in Nat : k = n - 1
      BY <2>2
    <3>2. DOMAIN Times(k) = 1 .. k
      BY DEF Times
    <3>3. FoldLeft(LAMBDA ab, i : <<ab[2], ab[1] + ab[2]>>, <<0, 1>>, Times(k)) = Pair(k)
      BY <3>2 DEF Pair, FoldLeft, MapThenFoldSet, Max, Highest, LoopEnd, Looped, Turn
    <3>4. calc_fibonacci(n) = print_result(Pair(k)[2])
      BY <1>1, <2>2, <3>1, <3>3 DEF calc_fibonacci
    <3>5. Pair(k)[2] \in Nat
      BY PairsAre
    <3> QED
      BY <2>2, <3>1, <3>4, <3>5 DEF FibonacciAt
  <2> QED
    BY <2>1, <2>2
<1>3. PICK x \in Int : x = FibonacciAt(n)
  BY <1>2
<1>4. Reads(print_int32(x), x)
  BY IntReads
<1>5. calc_fibonacci(n).text = print_int32(x)
  BY <1>2, <1>3 DEF print_result, Result
<1>6. Fibonacci(n) = x
  BY <1>4, <1>5 DEF Fibonacci, Reads
<1> QED
  BY <1>2, <1>3, <1>6

\* Each is the sum of the two before it.
LEMMA FibonacciIsExact ==
  ASSUME NEW n \in Int, outcome = calc_fibonacci(n) PROVE FibonacciExact(n)
<1>1. CASE n \notin 0 .. 46
  <2>1. n < 0 \/ n > FibonacciLimit
    BY <1>1 DEF FibonacciLimit
  <2>2. outcome = Outcome("error")
    BY <2>1 DEF calc_fibonacci
  <2> QED
    BY <1>1, <2>2 DEF FibonacciExact, Outcome
<1>2. CASE n \in 0 .. 46
  <2>1. Prints(FibonacciAt(n))
    BY <1>2, FibonacciPrints, ResultReads
  <2>2. CASE n < 2
    <3>1. FibonacciAt(n) = n
      <4>1. CASE n = 0
        BY <4>1 DEF FibonacciAt
      <4>2. CASE n = 1
        <5>1. n - 1 = 0 /\ Pair(0) = <<0, 1>>
          BY <4>2, CountedInTurn
        <5> QED
          BY <4>2, <5>1 DEF FibonacciAt
      <4> QED
        BY <1>2, <2>2, <4>1, <4>2
    <3> QED
      BY <1>2, <2>1, <2>2, <3>1 DEF FibonacciExact
  <2>3. CASE ~(n < 2)
    <3>1. PICK k \in Nat : /\ k = n - 2 /\ n - 1 = k + 1 /\ k + 1 # 0 /\ n # 0
                           /\ k \in 0 .. 46 /\ k + 1 \in 0 .. 46 /\ (k + 1) - 1 = k
      BY <1>2, <2>3
    <3>2. PICK x \in Nat, y \in Nat : Pair(k) = <<x, y>>
      BY PairsAre
    <3>3. Pair(k + 1) = <<y, x + y>>
      BY <3>2, CountedInTurn
    <3>4. FibonacciAt(n) = x + y
      BY <3>1, <3>3 DEF FibonacciAt
    <3>5. FibonacciAt(k + 1) = y
      BY <3>1, <3>2 DEF FibonacciAt
    <3>6. FibonacciAt(k) = x
      <4>1. CASE k = 0
        BY <3>2, <4>1, CountedInTurn DEF FibonacciAt
      <4>2. CASE k # 0
        <5>1. PICK j \in Nat : j = k - 1 /\ k = j + 1
          BY <4>2
        <5>2. PICK u \in Nat, v \in Nat : Pair(j) = <<u, v>>
          BY PairsAre
        <5>3. Pair(k) = <<v, u + v>>
          BY <5>1, <5>2, CountedInTurn
        <5>4. v = x
          BY <3>2, <5>3
        <5> QED
          BY <4>2, <5>1, <5>2, <5>4 DEF FibonacciAt
      <4> QED
        BY <4>1, <4>2
    <3>7. Fibonacci(k + 1) = y /\ Fibonacci(k) = x
      BY <3>1, <3>5, <3>6, FibonacciPrints
    <3>8. Fibonacci(n - 1) + Fibonacci(n - 2) = x + y
      <4>1. y + x = x + y
        OBVIOUS
      <4> QED
        BY <3>1, <3>7, <4>1
    <3> QED
      BY <1>2, <2>1, <2>3, <3>4, <3>8 DEF FibonacciExact
  <2> QED
    BY <2>2, <2>3
<1> QED
  BY <1>1, <1>2

\* So every call of an integer function is answered right.
LEMMA CallInvExact == CallInv => IntegersExact
<1> SUFFICES ASSUME CallInv PROVE IntegersExact
  OBVIOUS
<1>1. 10 \in Int
  OBVIOUS
<1>2. CASE call.fn \in {"sqr", "log10"}
  <2>1. PICK a \in Ints : /\ call.args = <<a>>
                          /\ call.fn = "sqr" => outcome = calc_sqr(a)
                          /\ call.fn = "log10" => outcome = calc_log10(a)
    BY <1>2 DEF CallInv, OneIntCalled
  <2>2. call.args[1] = a
    BY <2>1
  <2>3. call.fn = "sqr" => SqrExact(a)
    BY <2>1, SqrIsExact
  <2>4. call.fn = "log10" => LogExact(a, 10)
    BY <1>1, <2>1, LogIsExact DEF calc_log10
  <2> QED
    BY <1>2, <2>2, <2>3, <2>4 DEF IntegersExact
<1>3. CASE call.fn \in {"pow", "root", "log", "tetration"}
  <2>1. PICK a, b : /\ a \in Ints /\ b \in Ints /\ call.args = <<a, b>>
                    /\ call.fn = "pow" => outcome = calc_pow(a, b)
                    /\ call.fn = "root" => outcome = calc_root(a, b)
                    /\ call.fn = "log" => outcome = calc_log(a, b)
                    /\ call.fn = "tetration" => outcome = calc_tetration(a, b)
    BY <1>3 DEF CallInv, TwoIntsCalled
  <2>2. call.args[1] = a /\ call.args[2] = b /\ b \in Int
    BY <2>1, AboveAll DEF Ints
  <2>3. call.fn = "pow" => PowExact(a, b)
    BY <2>1, PowIsExact
  <2>4. call.fn = "root" => RootExact(a, b)
    BY <2>1, <2>2, RootIsExact
  <2>5. call.fn = "log" => LogExact(a, b)
    BY <2>1, <2>2, LogIsExact
  <2>6. call.fn = "tetration" => TetrationExact(a, b)
    BY <2>1, <2>2, TetrationIsExact
  <2> QED
    BY <1>3, <2>2, <2>3, <2>4, <2>5, <2>6 DEF IntegersExact
<1>4. CASE call.fn \in {"factorial", "fibonacci"}
  <2>1. PICK n \in Int : /\ call.args = <<n>>
                         /\ call.fn = "factorial" => outcome = calc_factorial(n)
                         /\ call.fn = "fibonacci" => outcome = calc_fibonacci(n)
    BY <1>4 DEF CallInv, LimitedCalled
  <2>2. call.args[1] = n
    BY <2>1
  <2>3. call.fn = "factorial" => FactorialExact(n)
    BY <2>1, FactorialIsExact
  <2>4. call.fn = "fibonacci" => FibonacciExact(n)
    BY <2>1, FibonacciIsExact
  <2> QED
    BY <1>4, <2>2, <2>3, <2>4 DEF IntegersExact
<1>5. CASE call.fn \notin {"sqr", "log10", "pow", "root", "log", "tetration", "factorial",
                           "fibonacci"}
  BY <1>5 DEF IntegersExact
<1> QED
  BY <1>2, <1>3, <1>4, <1>5

\* The integer functions are right for every width of an int: squares, powers,
\* roots, logarithms and towers wherever no intermediate result overflows, and
\* what they refuse is what has no int for a result (calc.cpp:136-169, 398-488,
\* 602-712).
THEOREM IntegersRight == CalcSpec => []IntegersExact
BY CallInvHolds, CallInvExact, PTL

-----------------------------------------------------------------------------

(* What a command prints. *)

\* Texts of printed characters, one behind another.
LEMMA TextsJoined ==
  ASSUME NEW a \in Seq(Printed), NEW b \in Seq(Printed)
  PROVE  a \o b \in Seq(Printed)
OBVIOUS

\* The messages of the commands are printed characters.
LEMMA Words ==
  /\ Word \in Seq(Printed) /\ Message \in Seq(Printed)
  /\ <<"newline">> \in Seq(Printed) /\ << >> \in Seq(Printed)
  /\ Message \o Message \in Seq(Printed)
  /\ Message \o Message \o Message \in Seq(Printed)
<1>1. "m" \in Printed /\ "newline" \in Printed
  BY ShellAssumption DEF Printed
<1>2. Word \in Seq(Printed) /\ Message \in Seq(Printed)
  BY <1>1 DEF Word, Message
<1>3. <<"newline">> \in Seq(Printed) /\ << >> \in Seq(Printed)
  BY <1>1
<1> QED
  BY <1>2, <1>3, TextsJoined

\* What keys give is printed too.
LEMMA KeysArePrinted ==
  /\ \A text \in Seq(Keys) : text \in Seq(Printed)
  /\ \A text \in Seq(Chars) : text \in Seq(Printed)
<1>1. Keys \subseteq Printed /\ Chars \subseteq Printed
  BY ShellAssumption DEF Printed
<1> QED
  BY <1>1, SeqMonotonic

\* What calc prints.
LEMMA CalculatedPrinted ==
  ASSUME NEW args \in Arguments PROVE Calculated(args) \in Seq(Printed)
<1>1. PICK o : o = calc_init(args)
  OBVIOUS
<1>2. Answer(o)
  BY <1>1, CalcAnswers
<1>3. Calculated(args) =
        CASE o.kind = "result"            -> Word \o o.text \o <<"newline">>
          [] o.kind \in {"usage", "help"} -> Message \o Message
          [] o.kind = "error"             -> Message
          [] o.kind = "trap"              -> << >>
  BY <1>1 DEF Calculated
<1>4. CASE o.kind = "result"
  <2>1. o.text \in Seq(Printed)
    BY <1>2, <1>4, KeysArePrinted DEF Answer
  <2>2. Word \o o.text \o <<"newline">> \in Seq(Printed)
    BY <2>1, Words, TextsJoined
  <2> QED
    BY <1>3, <1>4, <2>2
<1>5. CASE o.kind \in {"usage", "help"}
  BY <1>3, <1>5, Words
<1>6. CASE o.kind = "error"
  BY <1>3, <1>6, Words
<1>7. CASE o.kind = "trap"
  BY <1>3, <1>7, Words
<1> QED
  BY <1>2, <1>4, <1>5, <1>6, <1>7 DEF Answer

\* What syswrite prints.
LEMMA SyswritePrinted ==
  ASSUME NEW args \in Seq(Keys) PROVE syswrite(args) \in Seq(Printed)
<1>1. PICK n, one : n = print_uint32(Len(args)) /\ one = print_uint32(SYS_WRITE)
  OBVIOUS
<1>2. Len(args) \in Int /\ SYS_WRITE \in Int
  BY DEF SYS_WRITE
<1>3. n \in Seq(Printed) /\ one \in Seq(Printed) /\ args \in Seq(Printed)
  BY <1>1, <1>2, UnsignedText, KeysArePrinted
<1>4. syswrite(args) = Word \o n \o Word \o args \o Word \o Word \o one \o <<"newline">>
  BY <1>1 DEF syswrite
<1>5. PICK a : a = Word \o n \o Word \o args
  OBVIOUS
<1>6. a \in Seq(Printed)
  BY <1>3, <1>5, Words, TextsJoined
<1>7. a \o Word \o Word \o one \o <<"newline">> \in Seq(Printed)
  BY <1>3, <1>6, Words, TextsJoined
<1> QED
  BY <1>4, <1>5, <1>7

\* What any command but clear prints.
LEMMA OutputPrinted ==
  ASSUME NEW name \in (DOMAIN Names \cup {"unknown"}) \ {"clear"},
         NEW command \in Seq(Keys), NEW args \in Arguments
  PROVE  Output(name, command, args) \in Seq(Printed)
<1>1. name \in {"help", "about", "version", "ticks", "systicks", "syswrite", "mem",
                "panic", "echo", "calc", "unknown"}
  BY ShellAssumption
<1>2. CASE name = "help"
  BY <1>2, Words DEF Output
<1>3. CASE name \in {"version", "mem"}
  BY <1>3, Words DEF Output
<1>4. CASE name \in {"about", "ticks", "systicks", "panic"}
  BY <1>4, Words DEF Output
<1>5. CASE name = "syswrite" /\ args = Null
  BY <1>5, Words DEF Output
<1>6. CASE name = "syswrite" /\ args # Null
  <2>1. args \in Seq(Keys)
    BY <1>6 DEF Arguments
  <2>2. Output(name, command, args) = syswrite(args)
    BY <1>6 DEF Output
  <2> QED
    BY <2>1, <2>2, SyswritePrinted
<1>7. CASE name = "echo" /\ args = Null
  BY <1>7, Words DEF Output
<1>8. CASE name = "echo" /\ args # Null
  <2>1. args \in Seq(Printed)
    BY <1>8, KeysArePrinted DEF Arguments
  <2>2. Output(name, command, args) = args \o <<"newline">>
    BY <1>8 DEF Output
  <2> QED
    BY <2>1, <2>2, Words, TextsJoined
<1>9. CASE name = "calc"
  BY <1>9, CalculatedPrinted DEF Output
<1>10. CASE name = "unknown"
  <2>1. Output(name, command, args) = Word \o command \o <<"newline">>
    BY <1>10 DEF Output
  <2>2. command \in Seq(Printed)
    BY KeysArePrinted
  <2> QED
    BY <2>1, <2>2, Words, TextsJoined
<1> QED
  BY <1>1, <1>2, <1>3, <1>4, <1>5, <1>6, <1>7, <1>8, <1>9, <1>10

\* Whatever the command, it leaves nothing behind the position.
LEMMA CommandClean ==
  ASSUME NEW s, Clean(s), NEW line, line.command \in Seq(Keys), line.args \in Arguments
  PROVE  Clean(shell_handle_input(s, line))
<1>1. PICK name : name = NameOf(line.command)
  OBVIOUS
<1>2. name \in DOMAIN Names \cup {"unknown"}
  BY <1>1 DEF NameOf
<1>3. shell_handle_input(s, line) =
        IF name = "clear" THEN clear ELSE Write(s, Output(name, line.command, line.args))
  BY <1>1 DEF shell_handle_input
<1>4. CASE name = "clear"
  BY <1>3, <1>4, ClearClean
<1>5. CASE name # "clear"
  <2>1. Output(name, line.command, line.args) \in Seq(Printed)
    BY <1>2, <1>5, OutputPrinted
  <2> QED
    BY <1>3, <1>5, <2>1, WriteClean
<1> QED
  BY <1>4, <1>5

-----------------------------------------------------------------------------

(* The line and the prompt. *)

\* A full line and its prompt leave a cell of the screen free, and a letter is
\* never the end of a string.
LEMMA LineSizes ==
  /\ LINE_MAX \in Nat \ {0} /\ LINE_MAX + 2 < VGA_WIDTH * VGA_HEIGHT
  /\ NUL \notin Keys /\ Keys \subseteq Chars /\ Blank \in Chars
BY ShellAssumption, Sizes, Zenon

\* A newline and two characters at the end of a text begin a line.
LEMMA LineBegun ==
  ASSUME NEW s, Clean(s), NEW text \in Seq(Printed), Len(text) >= 3,
         NEW a \in Chars, NEW b \in Chars, text[Len(text) - 2] = "newline",
         text[Len(text) - 1] = a, text[Len(text)] = b
  PROVE  \E r \in Nat : Shown(Write(s, text), r, <<a, b>>)
<1>1. PICK n \in Nat : n = Len(text)
  OBVIOUS
<1>2. PICK after : InTurn("print", s, text, n, Write(s, text), after)
  BY <1>1, WriteInTurn
<1>3. Clean(after[n - 3])
  <2>1. \A i \in 0 .. n : Clean(after[i])
    BY <1>1, <1>2, TurnsClean
  <2>2. n - 3 \in 0 .. n
    BY <1>1
  <2> QED
    BY <2>1, <2>2
<1>4. /\ after[n - 2] = putchar(after[n - 3], "newline")
      /\ after[n - 1] = putchar(after[n - 2], a)
      /\ after[n] = putchar(after[n - 1], b)
  <2>1. /\ n - 3 \in 0 .. n - 1 /\ (n - 3) + 1 = n - 2
        /\ n - 2 \in 0 .. n - 1 /\ (n - 2) + 1 = n - 1
        /\ n - 1 \in 0 .. n - 1 /\ (n - 1) + 1 = n
    BY <1>1
  <2> QED
    BY <1>1, <1>2, <2>1 DEF InTurn, Turn
<1>5. 2 < VGA_WIDTH * VGA_HEIGHT /\ 1 < VGA_WIDTH * VGA_HEIGHT
  <2>1. PICK area \in Nat : area = VGA_WIDTH * VGA_HEIGHT
    BY Sizes
  <2>2. LINE_MAX \in Nat \ {0} /\ LINE_MAX + 2 < VGA_WIDTH * VGA_HEIGHT
    BY LineSizes
  <2>3. 2 < area /\ 1 < area
    BY <2>1, <2>2
  <2> QED
    BY <2>1, <2>3
<1>6. /\ << >> \in Seq(Chars) /\ Len(<< >>) + 1 = 1
      /\ Append(<< >>, a) = <<a>> /\ <<a>> \in Seq(Chars) /\ Len(<<a>>) + 1 = 2
      /\ Append(<<a>>, b) = <<a, b>>
  <2>1. << >> \in Seq(Chars) /\ Len(<< >>) + 1 = 1
    OBVIOUS
  <2>2. <<a>> \in Seq(Chars) /\ Len(<<a>>) + 1 = 2
    OBVIOUS
  <2>3. Append(<< >>, a) = <<a>>
    OBVIOUS
  <2>4. Append(<<a>>, b) = <<a, b>>
    <3>1. PICK u, v : u = Append(<<a>>, b) /\ v = <<a, b>>
      OBVIOUS
    <3>2. u \in Seq(Chars) /\ Len(u) = 2 /\ u[1] = a /\ u[2] = b
      BY <2>2, <3>1
    <3>3. v \in Seq(Chars) /\ Len(v) = 2 /\ v[1] = a /\ v[2] = b
      BY <3>1
    <3>4. \A i \in 1 .. Len(u) : u[i] = v[i]
      <4>1. 1 .. Len(u) = {1, 2}
        BY <3>2
      <4> QED
        BY <3>2, <3>3, <4>1
    <3> QED
      BY <3>1, <3>2, <3>3, <3>4, SeqEqual
  <2> QED
    BY <2>1, <2>2, <2>3, <2>4
<1>7. PICK r \in Nat : Shown(after[n - 2], r, << >>)
  BY <1>3, <1>4, Newline
<1>8. PICK q \in Nat : Shown(after[n - 1], q, <<a>>)
  <2>1. \E q \in Nat : Shown(putchar(after[n - 2], a), q, Append(<< >>, a))
    BY <1>5, <1>6, <1>7, CharacterShown
  <2> QED
    BY <1>4, <1>6, <2>1
<1>9. \E p \in Nat : Shown(after[n], p, <<a, b>>)
  <2>1. \E p \in Nat : Shown(putchar(after[n - 1], b), p, Append(<<a>>, b))
    BY <1>5, <1>6, <1>8, CharacterShown
  <2> QED
    BY <1>4, <1>6, <2>1
<1> QED
  BY <1>2, <1>9 DEF InTurn

\* A string in the buffer, from p up to its NUL at n.
LEMMA StringFound ==
  ASSUME NEW b, DOMAIN b = 0 .. LINE_MAX, NEW n \in 0 .. LINE_MAX, NEW p \in 0 .. n,
         b[n] = NUL, \A i \in p .. n - 1 : b[i] \in Keys
  PROVE  /\ UpToEnd(b, p) = p .. n
         /\ StringAt(b, p) = [i \in 1 .. n - p |-> b[p + i - 1]]
         /\ StringAt(b, p) \in Seq(Keys) /\ Len(StringAt(b, p)) = n - p
<1>1. LINE_MAX \in Nat /\ NUL \notin Keys
  BY LineSizes
<1>2. PICK T : T = {q \in DOMAIN b : q >= p /\ b[q] = NUL}
  OBVIOUS
<1>3. T \in SUBSET Nat /\ n \in T
  BY <1>1, <1>2
<1>4. Least(T) = n
  <2>1. PICK e : e = Least(T)
    OBVIOUS
  <2>2. e \in T /\ e \in Nat /\ \A q \in Nat : q < e => q \notin T
    BY <1>3, <2>1, LeastOf
  <2>3. e >= p /\ b[e] = NUL
    BY <1>2, <2>2
  <2>4. e \notin p .. n - 1
    BY <1>1, <2>3
  <2>5. ~(n < e)
    BY <1>1, <1>3, <2>2
  <2> QED
    BY <1>1, <2>1, <2>2, <2>3, <2>4, <2>5
<1>5. UpToEnd(b, p) = p .. n
  BY <1>2, <1>4 DEF UpToEnd
<1>6. strlen(b, p) = n - p
  <2>1. n \in Int /\ p \in Int /\ ~(p > n)
    BY <1>1
  <2>2. Cardinality(p .. n) = n - p + 1
    BY <2>1, FS_Interval
  <2> QED
    BY <1>1, <1>5, <2>1, <2>2 DEF strlen
<1>7. StringAt(b, p) = [i \in 1 .. n - p |-> b[p + i - 1]]
  BY <1>6 DEF StringAt
<1>8. PICK k \in Nat : k = n - p
  BY <1>1
<1>9. \A i \in 1 .. k : b[p + i - 1] \in Keys
  <2>1. \A i \in 1 .. k : p + i - 1 \in p .. n - 1
    BY <1>1, <1>8
  <2> QED
    BY <2>1
<1>10. StringAt(b, p) \in Seq(Keys) /\ Len(StringAt(b, p)) = k
  BY <1>7, <1>8, <1>9
<1> QED
  BY <1>5, <1>7, <1>8, <1>10

\* Sequence u is s with t behind it.
Concatenated(S, s, t, u) ==
  /\ u \in Seq(S) /\ Len(u) = Len(s) + Len(t)
  /\ \A i \in 1 .. Len(s) + Len(t) :
       u[i] = IF i <= Len(s) THEN s[i] ELSE t[i - Len(s)]

\* The concatenation of two sequences is that.
LEMMA Concatenation ==
  ASSUME NEW S, NEW s \in Seq(S), NEW t \in Seq(S)
  PROVE  Concatenated(S, s, t, s \o t)
BY ConcatProperties DEF Concatenated

\* The line that a command and its arguments were taken from.
Whole(command, args) ==
  IF args = Null THEN command ELSE command \o <<Blank>> \o args

\* What cutting a line of n letters gives: nothing is lost.
CutOf(b, n, line) ==
  /\ line.buffer \in [0 .. LINE_MAX -> Keys \cup {NUL}]
  /\ line.command \in Seq(Keys) /\ line.args \in Arguments
  /\ Whole(line.command, line.args) = [i \in 1 .. n |-> b[i - 1]]

\* Split cuts a line at its first space into the command and its arguments, which
\* are the line again (shell.cpp:38-47).
LEMMA LineCut ==
  ASSUME NEW b \in [0 .. LINE_MAX -> Keys \cup {NUL}], NEW n \in 0 .. LINE_MAX,
         b[n] = NUL, \A i \in 0 .. n - 1 : b[i] \in Keys
  PROVE  CutOf(b, n, Split(b))
<1>1. LINE_MAX \in Nat /\ NUL \notin Keys /\ DOMAIN b = 0 .. LINE_MAX /\ n \in Nat
  BY LineSizes
<1>2. PICK spaces : spaces = {q \in UpToEnd(b, 0) : b[q] = Blank}
  OBVIOUS
<1>3. 0 \in 0 .. n /\ n - 0 = n
  BY <1>1
<1>4. /\ UpToEnd(b, 0) = 0 .. n
      /\ StringAt(b, 0) = [i \in 1 .. n - 0 |-> b[0 + i - 1]]
      /\ StringAt(b, 0) \in Seq(Keys) /\ Len(StringAt(b, 0)) = n - 0
  BY <1>1, <1>3, StringFound
<1>5. PICK line : line = [i \in 1 .. n |-> b[i - 1]]
  OBVIOUS
<1>6. StringAt(b, 0) = line
  <2>1. \A i \in 1 .. n : 0 + i - 1 = i - 1
    BY <1>1
  <2> QED
    BY <1>3, <1>4, <1>5, <2>1
<1>7. line \in Seq(Keys) /\ Len(line) = n
  BY <1>3, <1>4, <1>6
<1>8. find_space(b, 0) = IF spaces = {} THEN {} ELSE {Least(spaces)}
  BY <1>2 DEF find_space, Blank
<1>9. PICK space, cut : /\ space = find_space(b, 0)
                        /\ cut = [i \in DOMAIN b |-> IF i \in space THEN NUL ELSE b[i]]
  OBVIOUS
<1>10. Split(b) =
         [buffer |-> cut, command |-> StringAt(cut, 0),
          args |-> IF space = {} THEN Null ELSE StringAt(cut, Least(space) + 1)]
  BY <1>9 DEF Split
<1>11. CASE spaces = {}
  <2>1. space = {}
    BY <1>8, <1>9, <1>11
  <2>2. cut = b
    BY <1>9, <2>1
  <2>3. Split(b) = [buffer |-> b, command |-> line, args |-> Null]
    BY <1>6, <1>10, <2>1, <2>2
  <2>4. Whole(line, Null) = line
    BY DEF Whole
  <2> QED
    BY <1>5, <1>7, <2>3, <2>4 DEF CutOf, Arguments
<1>12. CASE spaces # {}
  <2>1. spaces \in SUBSET Nat
    BY <1>1, <1>2, <1>4
  <2>2. PICK p : p = Least(spaces)
    OBVIOUS
  <2>3. p \in spaces
    BY <1>12, <2>1, <2>2, LeastOf
  <2>4. p \in 0 .. n - 1 /\ b[p] = Blank
    <3>1. p \in 0 .. n /\ b[p] = Blank
      BY <1>2, <1>4, <2>3
    <3>2. NUL # Blank
      BY DEF NUL, Blank
    <3> QED
      BY <1>1, <3>1, <3>2
  <2>5. space = {p} /\ Least(space) = p
    <3>1. space = {p}
      BY <1>8, <1>9, <1>12, <2>2
    <3>2. p \in Nat /\ {p} \in SUBSET Nat
      BY <1>1, <2>4
    <3>3. Least({p}) \in {p}
      BY <3>2, LeastOf
    <3> QED
      BY <3>1, <3>3
  <2>6. /\ cut \in [0 .. LINE_MAX -> Keys \cup {NUL}] /\ cut[p] = NUL
        /\ DOMAIN cut = 0 .. LINE_MAX
        /\ \A i \in 0 .. LINE_MAX : i # p => cut[i] = b[i]
    BY <1>1, <1>9, <2>4, <2>5
  <2>7. PICK command, args : command = StringAt(cut, 0) /\ args = StringAt(cut, p + 1)
    OBVIOUS
  <2>8. /\ command = [i \in 1 .. p - 0 |-> cut[0 + i - 1]]
        /\ command \in Seq(Keys) /\ Len(command) = p - 0
    <3>1. p \in 0 .. LINE_MAX /\ 0 \in 0 .. p
      BY <1>1, <2>4
    <3>2. \A i \in 0 .. p - 1 : i \in 0 .. LINE_MAX /\ i # p /\ i \in 0 .. n - 1
      BY <1>1, <2>4
    <3>3. \A i \in 0 .. p - 1 : cut[i] \in Keys
      BY <2>6, <3>2
    <3> QED
      BY <2>6, <2>7, <3>1, <3>3, StringFound
  <2>9. /\ args = [i \in 1 .. n - (p + 1) |-> cut[(p + 1) + i - 1]]
        /\ args \in Seq(Keys) /\ Len(args) = n - (p + 1)
    <3>1. p + 1 \in 0 .. n
      BY <1>1, <2>4
    <3>2. \A i \in p + 1 .. n - 1 : i \in 0 .. LINE_MAX /\ i # p /\ i \in 0 .. n - 1
      BY <1>1, <2>4
    <3>3. \A i \in p + 1 .. n - 1 : cut[i] \in Keys
      BY <2>6, <3>2
    <3>4. cut[n] = NUL
      BY <1>1, <2>4, <2>6
    <3> QED
      BY <2>6, <2>7, <3>1, <3>3, <3>4, StringFound
  <2>10. args # Null
    <3> SUFFICES ASSUME args = <<NUL>> PROVE FALSE
      BY DEF Null
    <3>1. args[1] = NUL /\ Len(args) = 1
      OBVIOUS
    <3>2. args[1] \in Keys
      BY <2>9, <3>1, ElementOfSeq
    <3> QED
      BY <1>1, <3>1, <3>2
  <2>11. PICK parts : parts = command \o <<Blank>> \o args
    OBVIOUS
  <2>12. Blank \in Keys /\ <<Blank>> \in Seq(Keys) /\ Len(<<Blank>>) = 1 /\ <<Blank>>[1] = Blank
    BY <2>4
  <2>13. PICK begun : begun = command \o <<Blank>>
    OBVIOUS
  <2>14. /\ begun \in Seq(Keys) /\ Len(begun) = p + 1
         /\ \A i \in 1 .. p + 1 : begun[i] = IF i <= p THEN command[i] ELSE Blank
    <3>1. Concatenated(Keys, command, <<Blank>>, begun)
      BY <2>8, <2>12, <2>13, Concatenation
    <3>2. Len(command) = p /\ p \in Nat
      BY <1>1, <2>4, <2>8
    <3>3. \A i \in 1 .. p + 1 : ~(i <= p) => i - p = 1
      BY <3>2
    <3> QED
      BY <2>12, <3>1, <3>2, <3>3 DEF Concatenated
  <2>15. /\ parts \in Seq(Keys) /\ Len(parts) = n
         /\ \A i \in 1 .. n : parts[i] = IF i <= p + 1 THEN begun[i] ELSE args[i - (p + 1)]
    <3>1. Concatenated(Keys, begun, args, parts)
      <4>1. parts = begun \o args
        BY <2>11, <2>13
      <4> QED
        BY <2>9, <2>14, <4>1, Concatenation
    <3>2. Len(begun) + Len(args) = n
      BY <1>1, <2>4, <2>9, <2>14
    <3> QED
      BY <2>14, <3>1, <3>2 DEF Concatenated
  <2>16. ASSUME NEW i \in 1 .. n PROVE parts[i] = line[i]
    <3>1. /\ line[i] = b[i - 1] /\ i \in Nat /\ p \in Nat /\ i - 1 \in 0 .. LINE_MAX
      BY <1>1, <1>5, <2>4
    <3>2. CASE i <= p
      <4>1. i \in 1 .. p - 0 /\ 0 + i - 1 = i - 1 /\ i - 1 # p
        BY <3>1, <3>2
      <4>2. command[i] = b[i - 1]
        BY <2>6, <2>8, <3>1, <4>1
      <4>3. i <= p + 1 /\ i \in 1 .. p + 1
        BY <3>1, <3>2
      <4> QED
        BY <2>14, <2>15, <3>1, <3>2, <4>2, <4>3
    <3>3. CASE i = p + 1
      <4>1. i - 1 = p /\ ~(i <= p) /\ i \in 1 .. p + 1 /\ i <= p + 1
        BY <3>1, <3>3
      <4> QED
        BY <2>4, <2>14, <2>15, <3>1, <4>1
    <3>4. CASE i > p + 1
      <4>1. PICK j : j = i - (p + 1)
        OBVIOUS
      <4>2. /\ j \in 1 .. n - (p + 1) /\ (p + 1) + j - 1 = i - 1 /\ i - 1 # p
            /\ ~(i <= p + 1)
        BY <1>1, <3>1, <3>4, <4>1
      <4>3. args[j] = b[i - 1]
        BY <2>6, <2>9, <3>1, <4>2
      <4> QED
        BY <2>15, <3>1, <4>1, <4>2, <4>3
    <3> QED
      BY <3>1, <3>2, <3>3, <3>4
  <2>17. parts = line
    BY <1>7, <2>15, <2>16, SeqEqual
  <2>18. Whole(command, args) = line
    BY <2>10, <2>11, <2>17 DEF Whole
  <2>19. Split(b) = [buffer |-> cut, command |-> command, args |-> args]
    BY <1>10, <2>5, <2>7
  <2> QED
    BY <1>5, <2>6, <2>8, <2>9, <2>18, <2>19 DEF CutOf, Arguments
<1> QED
  BY <1>11, <1>12

-----------------------------------------------------------------------------

(* The inductive invariant. *)

\* What has been typed is letters.  The rest of the buffer may hold anything.
Typed == \A i \in 0 .. length - 1 : input[i] \in Keys

ShellInv ==
  /\ TypeOK
  /\ Clean(screen)
  /\ ~halted => Typed /\ \E r \in Nat : Shown(screen, r, Prompt \o Line)

LineOf(b, n) == [i \in 1 .. n |-> b[i - 1]]

\* A line of letters in the buffer.
LEMMA LineLetters ==
  ASSUME NEW b, NEW n \in Nat, \A i \in 0 .. n - 1 : b[i] \in Keys
  PROVE  LineOf(b, n) \in Seq(Keys) /\ Len(LineOf(b, n)) = n
<1>1. \A i \in 1 .. n : b[i - 1] \in Keys
  <2>1. \A i \in 1 .. n : i - 1 \in 0 .. n - 1
    OBVIOUS
  <2> QED
    BY <2>1
<1> QED
  BY <1>1 DEF LineOf

\* Of length 0 it is the empty sequence.
LEMMA LineEmpty ==
  ASSUME NEW b PROVE LineOf(b, 0) = << >>
<1>1. LineOf(b, 0) \in Seq(Keys) /\ Len(LineOf(b, 0)) = 0
  <2>1. 0 \in Nat /\ 0 .. 0 - 1 = {}
    OBVIOUS
  <2> QED
    BY <2>1, LineLetters
<1> QED
  BY <1>1, EmptySeq

\* Behind a line that begins with all of another comes one letter.
LEMMA LineLonger ==
  ASSUME NEW b, NEW d, NEW n \in Nat, \A i \in 0 .. n - 1 : b[i] \in Keys,
         \A i \in 0 .. n - 1 : d[i] = b[i], NEW c \in Keys, d[n] = c
  PROVE  LineOf(d, n + 1) = Append(LineOf(b, n), c)
<1>1. PICK u, v : u = LineOf(d, n + 1) /\ v = Append(LineOf(b, n), c)
  OBVIOUS
<1>2. LineOf(b, n) \in Seq(Keys) /\ Len(LineOf(b, n)) = n
  BY LineLetters
<1>3. /\ v \in Seq(Keys) /\ Len(v) = n + 1
      /\ \A i \in 1 .. n + 1 : v[i] = IF i = n + 1 THEN c ELSE LineOf(b, n)[i]
  BY <1>1, <1>2
<1>4. \A i \in 0 .. (n + 1) - 1 : d[i] \in Keys
  <2>1. \A i \in 0 .. (n + 1) - 1 : i = n \/ i \in 0 .. n - 1
    OBVIOUS
  <2> QED
    BY <2>1
<1>5. n + 1 \in Nat
  OBVIOUS
<1>6. u \in Seq(Keys) /\ Len(u) = n + 1
  BY <1>1, <1>4, <1>5, LineLetters
<1>7. ASSUME NEW i \in 1 .. n + 1 PROVE u[i] = v[i]
  <2>1. u[i] = d[i - 1]
    BY <1>1 DEF LineOf
  <2>2. CASE i = n + 1
    <3>1. i - 1 = n
      BY <2>2
    <3> QED
      BY <1>3, <2>1, <2>2, <3>1
  <2>3. CASE i # n + 1
    <3>1. i \in 1 .. n /\ i - 1 \in 0 .. n - 1
      BY <2>3
    <3>2. LineOf(b, n)[i] = b[i - 1]
      BY <3>1 DEF LineOf
    <3> QED
      BY <1>3, <2>1, <2>3, <3>1, <3>2
  <2> QED
    BY <2>2, <2>3
<1> QED
  BY <1>1, <1>3, <1>6, <1>7, SeqEqual

\* The prompt is two characters.
LEMMA PromptText ==
  \E a, b \in Chars : Prompt = <<a, b>>
<1>1. ">" \in Chars
  BY ShellAssumption, Zenon
<1>2. " " \in Chars
  BY Sizes, Zenon DEF Blank
<1> QED
  BY <1>1, <1>2, Zenon DEF Prompt

\* So it is a sequence of length 2.
LEMMA PromptShape == Prompt \in Seq(Chars) /\ Len(Prompt) = 2
<1>1. PICK a \in Chars, b \in Chars : Prompt = <<a, b>>
  BY PromptText
<1>2. <<a, b>> \in Seq(Chars) /\ Len(<<a, b>>) = 2
  OBVIOUS
<1> QED
  BY <1>1, <1>2

\* The line behind the prompt, also when a letter is added.
LEMMA PromptedLine ==
  ASSUME NEW line \in Seq(Keys)
  PROVE  /\ Prompt \o line \in Seq(Chars) /\ Len(Prompt \o line) = Len(line) + 2
         /\ \A c \in Keys : Prompt \o Append(line, c) = Append(Prompt \o line, c)
<1>1. line \in Seq(Chars) /\ \A c \in Keys : c \in Chars
  BY LineSizes, SeqMonotonic
<1>2. PICK p : p = Prompt
  OBVIOUS
<1>3. p \in Seq(Chars) /\ Len(p) = 2
  BY <1>2, PromptShape
<1>4. Concatenated(Chars, p, line, p \o line)
  BY <1>1, <1>3, Concatenation
<1>5. p \o line \in Seq(Chars) /\ Len(p \o line) = Len(line) + 2
  BY <1>1, <1>3, <1>4 DEF Concatenated
<1>6. ASSUME NEW c \in Keys PROVE p \o Append(line, c) = Append(p \o line, c)
  BY <1>1, <1>3
<1> QED
  BY <1>2, <1>5, <1>6

\* The beginning of a line, on any clean screen.
LEMMA PromptBegins ==
  ASSUME NEW s, Clean(s), NEW text \in Seq(Printed), NEW n \in Nat \ {0}, Len(text) = n,
         text[n] = "newline"
  PROVE  \E r \in Nat : Shown(Write(s, text \o Prompt), r, Prompt \o << >>)
<1>1. PICK a \in Chars, b \in Chars : Prompt = <<a, b>>
  BY PromptText
<1>2. PICK p, whole : p = <<a, b>> /\ whole = text \o p
  OBVIOUS
<1>3. p \in Seq(Printed) /\ Len(p) = 2 /\ p[1] = a /\ p[2] = b
  BY <1>2 DEF Printed
<1>4. Concatenated(Printed, text, p, whole)
  BY <1>2, <1>3, Concatenation
<1>5. whole \in Seq(Printed) /\ Len(whole) = n + 2
  BY <1>3, <1>4 DEF Concatenated
<1>6. whole[n] = "newline" /\ whole[n + 1] = a /\ whole[n + 2] = b
  <2>1. /\ n \in 1 .. n + 2 /\ n <= n
        /\ n + 1 \in 1 .. n + 2 /\ ~(n + 1 <= n) /\ (n + 1) - n = 1
        /\ n + 2 \in 1 .. n + 2 /\ ~(n + 2 <= n) /\ (n + 2) - n = 2
    OBVIOUS
  <2>2. \A i \in 1 .. n + 2 : whole[i] = IF i <= n THEN text[i] ELSE p[i - n]
    BY <1>3, <1>4 DEF Concatenated
  <2> QED
    BY <1>3, <2>1, <2>2
<1>7. Len(whole) >= 3 /\ Len(whole) - 2 = n /\ Len(whole) - 1 = n + 1
  BY <1>5
<1>8. \E r \in Nat : Shown(Write(s, whole), r, <<a, b>>)
  BY <1>5, <1>6, <1>7, LineBegun
<1>9. Prompt \o << >> = Prompt
  BY PromptShape, ConcatEmptySeq
<1> QED
  BY <1>1, <1>2, <1>8, <1>9

-----------------------------------------------------------------------------

(* Its preservation, and the steps of the line editor. *)

\* What stands on the screen is the line, in terms of the buffer.
LEMMA InvOpen ==
  ASSUME ShellInv, ~halted
  PROVE  /\ screen \in Screens /\ Clean(screen)
         /\ input \in [0 .. LINE_MAX -> Keys \cup {NUL}]
         /\ length \in 0 .. LINE_MAX /\ length \in Nat
         /\ \A i \in 0 .. length - 1 : input[i] \in Keys
         /\ Line = LineOf(input, length)
         /\ Line \in Seq(Keys) /\ Len(Line) = length
         /\ \E r \in Nat : Shown(screen, r, Prompt \o Line)
<1>1. Line = LineOf(input, length)
  BY DEF Line, LineOf
<1>2. length \in Nat
  BY LineSizes DEF ShellInv, TypeOK
<1>3. \A i \in 0 .. length - 1 : input[i] \in Keys
  BY DEF ShellInv, Typed
<1>4. LineOf(input, length) \in Seq(Keys) /\ Len(LineOf(input, length)) = length
  BY <1>2, <1>3, LineLetters
<1> QED
  BY <1>1, <1>2, <1>3, <1>4 DEF ShellInv, TypeOK

\* The prompt stands on the screen from the start, with nothing behind it.
LEMMA InitInv == Init => ShellInv
<1> SUFFICES ASSUME Init PROVE ShellInv
  OBVIOUS
<1>1. length = 0 /\ halted = FALSE /\ 0 \in 0 .. LINE_MAX
  BY LineSizes DEF Init
<1>2. input \in [0 .. LINE_MAX -> Keys \cup {NUL}]
  BY DEF Init
<1>3. PICK text : text = Message \o Message
  OBVIOUS
<1>4. text \in Seq(Printed) /\ Len(text) = 4 /\ text[4] = "newline"
  <2>1. text \in Seq(Printed)
    BY <1>3, Words
  <2>2. Message = <<"m", "newline">>
    BY DEF Message
  <2>3. Concatenated(Printed, Message, Message, text)
    BY <1>3, Words, Concatenation
  <2>4. Len(Message) = 2 /\ Message[2] = "newline"
    BY <2>2
  <2>5. Len(text) = 4
    BY <2>3, <2>4 DEF Concatenated
  <2>6. 4 \in 1 .. Len(Message) + Len(Message) /\ ~(4 <= Len(Message)) /\ 4 - Len(Message) = 2
    BY <2>4
  <2>7. text[4] = Message[2]
    BY <2>3, <2>6 DEF Concatenated
  <2> QED
    BY <2>1, <2>4, <2>5, <2>7
<1>5. screen = Write(clear, text \o Prompt)
  BY <1>3 DEF Init
<1>6. \E r \in Nat : Shown(screen, r, Prompt \o << >>)
  <2>1. 4 \in Nat \ {0}
    OBVIOUS
  <2> QED
    BY <1>4, <1>5, <2>1, ClearClean, PromptBegins
<1>7. Line = << >>
  <2>1. Line = LineOf(input, length)
    BY DEF Line, LineOf
  <2> QED
    BY <1>1, <2>1, LineEmpty
<1>8. Typed
  BY <1>1 DEF Typed
<1>9. Clean(screen) /\ screen \in Screens
  BY <1>6 DEF Shown, Clean
<1> QED
  BY <1>1, <1>2, <1>6, <1>7, <1>8, <1>9 DEF ShellInv, TypeOK

\* A character typed.
LEMMA TypeStep ==
  ASSUME ShellInv, NEW c \in Keys, Type(c)
  PROVE  ShellInv' /\ Editor!AddLetter(c)
<1>1. /\ ~halted /\ length < LINE_MAX /\ length' = length + 1
      /\ input' = [input EXCEPT ![length] = c]
      /\ screen' = putchar(screen, c) /\ ran' = ran /\ halted' = halted
  BY DEF Type, Fits
<1>2. /\ input \in [0 .. LINE_MAX -> Keys \cup {NUL}]
      /\ length \in 0 .. LINE_MAX /\ length \in Nat
      /\ \A i \in 0 .. length - 1 : input[i] \in Keys
      /\ Line = LineOf(input, length)
      /\ Line \in Seq(Keys) /\ Len(Line) = length
  BY <1>1, InvOpen
<1>3. PICK r \in Nat : Shown(screen, r, Prompt \o Line)
  BY <1>1, InvOpen
<1>4. /\ input' \in [0 .. LINE_MAX -> Keys \cup {NUL}]
      /\ length' \in 0 .. LINE_MAX
      /\ input'[length] = c
      /\ \A i \in 0 .. length - 1 : input'[i] = input[i]
  <2>1. LINE_MAX \in Nat
    BY LineSizes
  <2>2. length + 1 \in 0 .. LINE_MAX
    BY <1>1, <1>2, <2>1
  <2>3. \A i \in 0 .. length - 1 : i \in 0 .. LINE_MAX /\ i # length
    BY <1>2, <2>1
  <2> QED
    BY <1>1, <1>2, <2>2, <2>3
<1>5. Line' = Append(Line, c)
  <2>1. Line' = LineOf(input', length + 1)
    BY <1>1 DEF Line, LineOf
  <2>2. PICK b, d, n : b = input /\ d = input' /\ n = length
    OBVIOUS
  <2>3. n \in Nat
    BY <1>2, <2>2
  <2>4. \A i \in 0 .. n - 1 : b[i] \in Keys
    BY <1>2, <2>2
  <2>5. \A i \in 0 .. n - 1 : d[i] = b[i]
    BY <1>4, <2>2
  <2>6. d[n] = c
    BY <1>4, <2>2
  <2>7. LineOf(d, n + 1) = Append(LineOf(b, n), c)
    BY <2>3, <2>4, <2>5, <2>6, LineLonger
  <2> QED
    BY <1>2, <2>1, <2>2, <2>7
<1>6. Prompt \o Line \in Seq(Chars) /\ Prompt \o Line' = Append(Prompt \o Line, c)
  BY <1>2, <1>5, PromptedLine
<1>7. Len(Prompt \o Line) + 1 < VGA_WIDTH * VGA_HEIGHT
  <2>1. Len(Prompt \o Line) = length + 2
    BY <1>2, PromptedLine
  <2>2. PICK area \in Nat : area = VGA_WIDTH * VGA_HEIGHT
    BY Sizes
  <2>3. LINE_MAX \in Nat /\ LINE_MAX + 2 < area
    BY <2>2, LineSizes
  <2>4. length + 2 + 1 < area
    BY <1>1, <1>2, <2>3
  <2> QED
    BY <2>1, <2>2, <2>4
<1>8. c \in Chars
  BY LineSizes
<1>9. \E q \in Nat : Shown(screen', q, Prompt \o Line')
  BY <1>1, <1>3, <1>6, <1>7, <1>8, CharacterShown
<1>10. Clean(screen)' /\ screen' \in Screens
  BY <1>9 DEF Shown, Clean
<1>11. Typed'
  <2>1. \A i \in 0 .. (length + 1) - 1 : i = length \/ i \in 0 .. length - 1
    BY <1>2
  <2> QED
    BY <1>1, <1>2, <1>4, <2>1 DEF Typed
<1>12. TypeOK'
  BY <1>1, <1>4, <1>10 DEF TypeOK, ShellInv
<1>13. ShellInv'
  BY <1>9, <1>10, <1>11, <1>12 DEF ShellInv
<1>14. Editor!AddLetter(c)
  <2>1. (IF halted THEN << >> ELSE Line) = Line
    BY <1>1
  <2>2. (IF halted' THEN << >> ELSE Line') = Append(Line, c)
    BY <1>1, <1>5
  <2>3. Joined' = Joined
    BY <1>1 DEF Joined
  <2> QED
    BY <1>1, <1>2, <2>1, <2>2, <2>3 DEF Editor!AddLetter
<1> QED
  BY <1>13, <1>14

\* Rubout takes the last character of a text off the screen.
LEMMA RuboutShown ==
  ASSUME NEW s, NEW r, NEW text \in Seq(Chars), NEW ch, Shown(s, r, Append(text, ch)),
         Len(text) + 1 < VGA_WIDTH * VGA_HEIGHT
  PROVE  \E q \in Nat : Shown(Write(s, Rubout), q, text)
<1>1. PICK rub : rub = <<"backspace", Blank, "backspace">>
  OBVIOUS
<1>2. Rubout = rub
  BY <1>1, Zenon DEF Rubout, Blank
<1>3. Blank \in Chars
  BY LineSizes
<1>4. /\ rub \in Seq(Printed) /\ Len(rub) = 3
      /\ rub[1] = "backspace" /\ rub[2] = Blank /\ rub[3] = "backspace"
  BY <1>1, <1>3 DEF Printed
<1>5. PICK after : InTurn("print", s, rub, Len(rub), Write(s, rub), after)
  BY <1>4, WriteInTurn
<1>6. /\ 0 \in 0 .. 3 - 1 /\ 1 \in 0 .. 3 - 1 /\ 2 \in 0 .. 3 - 1
      /\ 0 + 1 = 1 /\ 1 + 1 = 2 /\ 2 + 1 = 3
  OBVIOUS
<1>7. /\ after[0] = s /\ after[3] = Write(s, rub)
      /\ \A i \in 0 .. 3 - 1 : after[i + 1] = putchar(after[i], rub[i + 1])
  BY <1>4, <1>5 DEF InTurn, Turn
<1>8. /\ after[1] = putchar(s, "backspace") /\ after[2] = putchar(after[1], Blank)
      /\ after[3] = putchar(after[2], "backspace")
  BY <1>4, <1>6, <1>7
<1>9. Shown(after[1], r, text)
  BY <1>8, BackspaceShown
<1>10. PICK q \in Nat : Shown(after[2], q, Append(text, Blank))
  BY <1>3, <1>8, <1>9, CharacterShown
<1>11. Shown(after[3], q, text)
  BY <1>8, <1>10, BackspaceShown
<1> QED
  BY <1>2, <1>7, <1>11

\* The last character erased, also over the edge of the screen.
LEMMA EraseStep ==
  ASSUME ShellInv, Erase
  PROVE  ShellInv' /\ Editor!RemoveLast
<1>1. /\ ~halted /\ length > 0 /\ length' = length - 1
      /\ input' = input /\ screen' = Write(screen, Rubout)
      /\ ran' = ran /\ halted' = halted
  BY DEF Erase
<1>2. /\ input \in [0 .. LINE_MAX -> Keys \cup {NUL}]
      /\ length \in 0 .. LINE_MAX /\ length \in Nat
      /\ \A i \in 0 .. length - 1 : input[i] \in Keys
      /\ Line = LineOf(input, length)
      /\ Line \in Seq(Keys) /\ Len(Line) = length
  BY <1>1, InvOpen
<1>3. PICK r \in Nat : Shown(screen, r, Prompt \o Line)
  BY <1>1, InvOpen
<1>4. PICK n : n = length - 1
  OBVIOUS
<1>5. n \in Nat /\ length = n + 1 /\ n \in 0 .. LINE_MAX
  <2>1. LINE_MAX \in Nat
    BY LineSizes
  <2> QED
    BY <1>1, <1>2, <1>4, <2>1
<1>6. \A i \in 0 .. n - 1 : i \in 0 .. length - 1
  BY <1>5
<1>7. PICK c : c = input[n]
  OBVIOUS
<1>8. c \in Keys
  BY <1>2, <1>5, <1>7
<1>9. PICK short : short = LineOf(input, n)
  OBVIOUS
<1>10. short \in Seq(Keys) /\ Len(short) = n
  BY <1>2, <1>5, <1>6, <1>9, LineLetters
<1>11. Line = Append(short, c)
  <2>1. PICK b : b = input
    OBVIOUS
  <2>2. \A i \in 0 .. n - 1 : b[i] \in Keys
    BY <1>2, <1>6, <2>1
  <2>3. LineOf(b, n + 1) = Append(LineOf(b, n), c)
    BY <1>5, <1>7, <1>8, <2>1, <2>2, LineLonger
  <2> QED
    BY <1>2, <1>5, <1>9, <2>1, <2>3
<1>12. Line' = short
  <2>1. Line' = LineOf(input', length')
    BY DEF Line, LineOf
  <2> QED
    BY <1>1, <1>4, <1>9, <2>1
<1>13. Prompt \o short \in Seq(Chars) /\ Prompt \o Line = Append(Prompt \o short, c)
       /\ Len(Prompt \o short) = n + 2
  BY <1>8, <1>10, <1>11, PromptedLine
<1>14. Len(Prompt \o short) + 1 < VGA_WIDTH * VGA_HEIGHT
  <2>1. PICK area \in Nat : area = VGA_WIDTH * VGA_HEIGHT
    BY Sizes
  <2>2. LINE_MAX \in Nat /\ LINE_MAX + 2 < area
    BY <2>1, LineSizes
  <2>3. n + 2 + 1 < area
    BY <1>2, <1>5, <2>2
  <2> QED
    BY <1>13, <2>1, <2>3
<1>15. PICK text : text = Prompt \o short
  OBVIOUS
<1>16. Shown(screen, r, Append(text, c))
  BY <1>3, <1>13, <1>15
<1>17. \E q \in Nat : Shown(Write(screen, Rubout), q, text)
  BY <1>13, <1>14, <1>15, <1>16, RuboutShown
<1>18. \E q \in Nat : Shown(screen', q, Prompt \o Line')
  BY <1>1, <1>12, <1>15, <1>17
<1>19. Clean(screen)' /\ screen' \in Screens
  BY <1>18 DEF Shown, Clean
<1>20. Typed'
  BY <1>1, <1>2, <1>4, <1>6 DEF Typed
<1>21. TypeOK'
  BY <1>1, <1>2, <1>4, <1>5, <1>19 DEF TypeOK, ShellInv
<1>22. ShellInv'
  BY <1>18, <1>19, <1>20, <1>21 DEF ShellInv
<1>23. Editor!RemoveLast
  <2>1. SubSeq(Append(short, c), 1, Len(short)) = short
    BY <1>8, <1>10
  <2>2. Line # << >> /\ Line' = SubSeq(Line, 1, Len(Line) - 1)
    BY <1>2, <1>4, <1>5, <1>10, <1>11, <1>12, <2>1
  <2>3. (IF halted THEN << >> ELSE Line) = Line
    BY <1>1
  <2>4. (IF halted' THEN << >> ELSE Line') = Line'
    BY <1>1
  <2>5. Joined' = Joined
    BY <1>1 DEF Joined
  <2> QED
    BY <2>2, <2>3, <2>4, <2>5 DEF Editor!RemoveLast
<1> QED
  BY <1>22, <1>23

\* A line entered, and the command run.
LEMMA EnterStep ==
  ASSUME ShellInv, Enter
  PROVE  ShellInv' /\ Editor!Submit
<1>1. PICK b, line, done :
        /\ b = Terminate(input, length) /\ line = Split(b)
        /\ done = shell_handle_input(putchar(screen, "newline"), line)
  OBVIOUS
<1>2. /\ ~halted /\ input' = line.buffer
      /\ ran' = [command |-> line.command, args |-> line.args]
      /\ halted' = Halts(line)
      /\ IF Halts(line)
         THEN screen' = done /\ length' = length
         ELSE screen' = Write(done, <<"newline">> \o Prompt) /\ length' = 0
  BY <1>1 DEF Enter
<1>3. /\ input \in [0 .. LINE_MAX -> Keys \cup {NUL}]
      /\ length \in 0 .. LINE_MAX /\ length \in Nat
      /\ \A i \in 0 .. length - 1 : input[i] \in Keys
      /\ Line = LineOf(input, length) /\ Clean(screen)
      /\ Line \in Seq(Keys) /\ Len(Line) = length
  BY <1>2, InvOpen
<1>4. LINE_MAX \in Nat
  BY LineSizes
<1>5. b = [input EXCEPT ![length] = NUL]
  BY <1>1 DEF Terminate
<1>6. b \in [0 .. LINE_MAX -> Keys \cup {NUL}] /\ b[length] = NUL
  BY <1>3, <1>5
<1>7. \A i \in 0 .. length - 1 : b[i] = input[i]
  <2>1. \A i \in 0 .. length - 1 : i \in 0 .. LINE_MAX /\ i # length
    BY <1>3, <1>4
  <2> QED
    BY <1>3, <1>5, <2>1
<1>8. CutOf(b, length, line)
  <2>1. \A i \in 0 .. length - 1 : b[i] \in Keys
    BY <1>3, <1>7
  <2>2. PICK n : n = length
    OBVIOUS
  <2>3. n \in 0 .. LINE_MAX /\ b[n] = NUL /\ \A i \in 0 .. n - 1 : b[i] \in Keys
    BY <1>3, <1>6, <2>1, <2>2
  <2>4. CutOf(b, n, Split(b))
    BY <1>6, <2>3, LineCut
  <2> QED
    BY <1>1, <2>2, <2>4
<1>9. /\ line.buffer \in [0 .. LINE_MAX -> Keys \cup {NUL}]
      /\ line.command \in Seq(Keys) /\ line.args \in Arguments
      /\ Whole(line.command, line.args) = [i \in 1 .. length |-> b[i - 1]]
  BY <1>8 DEF CutOf
<1>10. [i \in 1 .. length |-> b[i - 1]] = Line
  <2>1. \A i \in 1 .. length : i - 1 \in 0 .. length - 1
    BY <1>3
  <2> QED
    BY <1>3, <1>7, <2>1 DEF LineOf
<1>11. Joined' = Line
  <2>1. Joined' = Whole(ran'.command, ran'.args)
    BY Zenon DEF Joined, Whole, Blank
  <2>2. ran'.command = line.command /\ ran'.args = line.args
    BY <1>2
  <2> QED
    BY <1>9, <1>10, <2>1, <2>2
<1>12. Clean(done)
  <2>1. "newline" \in Printed
    BY DEF Printed
  <2>2. Clean(putchar(screen, "newline"))
    BY <1>3, <2>1, PutcharClean
  <2> QED
    BY <1>1, <1>9, <2>2, CommandClean
<1>13. Halts(line) \in BOOLEAN
  BY DEF Halts
<1>14. CASE Halts(line)
  <2>1. screen' = done /\ length' = length /\ halted' = TRUE
    BY <1>2, <1>13, <1>14
  <2>2. Clean(screen)' /\ screen' \in Screens
    BY <1>12, <2>1 DEF Clean
  <2>3. ShellInv'
    BY <1>2, <1>3, <1>9, <2>1, <2>2 DEF ShellInv, TypeOK
  <2>4. (IF halted THEN << >> ELSE Line) = Line
    BY <1>2
  <2>5. (IF halted' THEN << >> ELSE Line') = << >>
    BY <2>1
  <2> QED
    BY <1>11, <2>3, <2>4, <2>5 DEF Editor!Submit
<1>15. CASE ~Halts(line)
  <2>1. /\ screen' = Write(done, <<"newline">> \o Prompt) /\ length' = 0
        /\ halted' = FALSE
    BY <1>2, <1>13, <1>15
  <2>2. Line' = << >>
    <3>1. Line' = LineOf(input', length')
      BY DEF Line, LineOf
    <3> QED
      BY <2>1, <3>1, LineEmpty
  <2>3. \E r \in Nat : Shown(screen', r, Prompt \o Line')
    <3>1. PICK text : text = <<"newline">>
      OBVIOUS
    <3>2. text \in Seq(Printed) /\ Len(text) = 1 /\ text[1] = "newline" /\ 1 \in Nat \ {0}
      BY <3>1, Words
    <3>3. \E r \in Nat : Shown(Write(done, text \o Prompt), r, Prompt \o << >>)
      BY <1>12, <3>2, PromptBegins
    <3> QED
      BY <2>1, <2>2, <3>1, <3>3
  <2>4. Clean(screen)' /\ screen' \in Screens
    BY <2>3 DEF Shown, Clean
  <2>5. Typed'
    BY <2>1 DEF Typed
  <2>6. 0 \in 0 .. LINE_MAX
    BY <1>4
  <2>7. TypeOK'
    BY <1>2, <1>9, <2>1, <2>4, <2>6 DEF TypeOK
  <2>8. ShellInv'
    BY <2>3, <2>4, <2>5, <2>7 DEF ShellInv
  <2>9. (IF halted THEN << >> ELSE Line) = Line
    BY <1>2
  <2>10. (IF halted' THEN << >> ELSE Line') = << >>
    BY <2>1, <2>2
  <2> QED
    BY <1>11, <2>8, <2>9, <2>10 DEF Editor!Submit
<1> QED
  BY <1>14, <1>15

-----------------------------------------------------------------------------

(* What follows for every behaviour. *)

\* Every step keeps the invariant, and is a step of the line editor.
LEMMA NextKept ==
  ASSUME ShellInv, Next PROVE ShellInv' /\ Editor!EditorNext
<1>1. CASE Enter
  BY <1>1, EnterStep DEF Editor!EditorNext
<1>2. CASE Erase
  BY <1>2, EraseStep DEF Editor!EditorNext
<1>3. ASSUME NEW c \in Keys, Type(c) PROVE ShellInv' /\ Editor!EditorNext
  BY <1>3, TypeStep DEF Editor!EditorNext
<1> QED
  BY <1>1, <1>2, <1>3 DEF Next

\* A step that changes nothing.
LEMMA ShellStutters ==
  ASSUME ShellInv, UNCHANGED vars PROVE ShellInv' /\ UNCHANGED Editor!editorVars
<1>1. /\ screen' = screen /\ input' = input /\ length' = length
      /\ ran' = ran /\ halted' = halted
  BY DEF vars
<1>2. Line' = Line /\ Joined' = Joined
  BY <1>1 DEF Line, Joined
<1>3. ShellInv'
  BY <1>1, <1>2 DEF ShellInv, TypeOK, Typed
<1> QED
  BY <1>1, <1>2, <1>3 DEF Editor!editorVars

\* The inductive invariant holds in every state.
LEMMA InvHolds == Spec => []ShellInv
<1>1. Init => ShellInv
  BY InitInv
<1>2. ShellInv /\ [Next]_vars => ShellInv'
  BY NextKept, ShellStutters
<1> QED
  BY <1>1, <1>2, PTL DEF Spec

\* The invariant is what the screen is to show.
LEMMA InvShows == ShellInv => LineShown
<1> SUFFICES ASSUME ShellInv, ~halted PROVE LineShown
  BY DEF LineShown
<1>1. PICK r \in Nat : Shown(screen, r, Prompt \o Line)
  BY InvOpen
<1>2. PICK text, n, p : text = Prompt \o Line /\ n = Len(text) /\ p = Position(screen)
  OBVIOUS
<1>3. text \in Seq(Chars) /\ n \in Nat /\ DOMAIN text = 1 .. n
  BY <1>2, InvOpen, PromptedLine
<1>4. PICK start : start = Row(r)
  OBVIOUS
<1>5. start \in Nat /\ start % VGA_WIDTH = 0
  BY <1>4, RowStarts
<1>6. p - n = start
  BY <1>1, <1>2, <1>3, <1>4, <1>5 DEF Shown
<1>7. /\ \A i \in 1 .. n : screen.buffer[start + i - 1] = text[i]
      /\ \A i \in Cells : i >= p => screen.buffer[i] = Blank
  BY <1>1, <1>2, <1>4 DEF Shown, Clean
<1>8. start >= 0
  BY <1>5
<1>9. /\ p - n >= 0 /\ (p - n) % VGA_WIDTH = 0
      /\ \A i \in DOMAIN text : screen.buffer[(p - n) + i - 1] = text[i]
      /\ \A i \in Cells : i >= p => screen.buffer[i] = Blank
  BY <1>3, <1>5, <1>6, <1>7, <1>8
<1> QED
  BY <1>2, <1>9, Zenon DEF LineShown, Blank

\* The screen, the buffer and its length have their types: the length stays a
\* position of the buffer (kernel.cpp:96-120).
THEOREM ShellTypes == Spec => []TypeOK
<1>1. ShellInv => TypeOK
  BY DEF ShellInv
<1> QED
  BY <1>1, InvHolds, PTL

\* While the kernel runs, the screen shows the prompt at the start of a line,
\* the line that is in the buffer behind it, and nothing behind that, however
\* lines have been typed, erased and scrolled, and whatever commands have
\* printed (kernel.cpp:94-122, vga_buffer.cpp).
THEOREM LineOnScreen == Spec => []LineShown
BY InvHolds, InvShows, PTL

\* What runs is the line as it was edited: the shell implements a line that is
\* edited at its end and submitted as it stands (kernel.cpp:96-120,
\* shell.cpp:38-47).
THEOREM ShellIsLineEditor == Spec => ImplementsLineEditor
<1>1. Init => Editor!EditorInit
  <2> SUFFICES ASSUME Init PROVE Editor!EditorInit
    OBVIOUS
  <2>1. length = 0 /\ halted = FALSE /\ ran = [command |-> << >>, args |-> Null]
    BY DEF Init
  <2>2. Line = << >>
    <3>1. Line = LineOf(input, length)
      BY DEF Line, LineOf
    <3> QED
      BY <2>1, <3>1, LineEmpty
  <2>3. Joined = << >>
    BY <2>1 DEF Joined
  <2> QED
    BY <2>1, <2>2, <2>3 DEF Editor!EditorInit
<1>2. ShellInv /\ [Next]_vars => [Editor!EditorNext]_Editor!editorVars
  BY NextKept, ShellStutters
<1> QED
  BY <1>1, <1>2, InvHolds, PTL DEF Spec, ImplementsLineEditor, Editor!EditorSpec
=============================================================================
