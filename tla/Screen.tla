-------------------------------- MODULE Screen --------------------------------
(***************************************************************************)
(* The text of the VGA screen, src/modules/vga_buffer/vga_buffer.cpp: a    *)
(* screen is a record of its cells, numbered in reading order, and of the  *)
(* position x, y the next character goes to.  The colour, which is the     *)
(* same everywhere, is left out.                                           *)
(***************************************************************************)
EXTENDS Naturals

CONSTANTS
  VGA_WIDTH, VGA_HEIGHT,
  Printable    \* the characters that are no blank

\* What an empty cell holds.
Blank == " "

ASSUME ScreenAssumption ==
  /\ VGA_WIDTH \in Nat \ {0} /\ VGA_HEIGHT \in Nat \ {0}
  /\ Printable \subseteq STRING
  /\ Printable \cap {Blank, "backspace", "newline"} = {}

Cells == 0 .. VGA_WIDTH * VGA_HEIGHT - 1
Chars == Printable \cup {Blank}

Screens == [buffer: [Cells -> Chars],
            x: 0 .. VGA_WIDTH - 1, y: 0 .. VGA_HEIGHT - 1]

Position(s) == s.y * VGA_WIDTH + s.x

\* Wrong variant: the bottom line keeps its text.
scroll_up_NoBlank(buffer) ==
  [i \in Cells |-> IF i < VGA_WIDTH * (VGA_HEIGHT - 1)
                   THEN buffer[i + VGA_WIDTH] ELSE buffer[i]]

scroll_up(buffer) ==
  [i \in Cells |-> IF i < VGA_WIDTH * (VGA_HEIGHT - 1)
                   THEN buffer[i + VGA_WIDTH] ELSE Blank]

\* Wrong variant: the screen does not scroll.
advance_cursor_NoScroll(s) == [s EXCEPT !.x = 0, !.y = @ + 1]

\* To the start of the next line, scrolling when there is none.
advance_cursor(s) ==
  IF s.y + 1 >= VGA_HEIGHT
  THEN [buffer |-> scroll_up(s.buffer), x |-> 0, y |-> VGA_HEIGHT - 1]
  ELSE [s EXCEPT !.x = 0, !.y = @ + 1]

\* Steps back, over the start of a line too, and blanks the cell there.
backspace(s) ==
  LET back == IF s.x > 0 THEN [s EXCEPT !.x = @ - 1]
              ELSE IF s.y > 0 THEN [s EXCEPT !.y = @ - 1, !.x = VGA_WIDTH - 1]
              ELSE s
  IN  [back EXCEPT !.buffer[Position(back)] = Blank]

putchar(s, ch) ==
  LET written == [s EXCEPT !.buffer[Position(s)] = ch] IN
  CASE ch = "backspace" -> backspace(s)
    [] ch = "newline"   -> advance_cursor(s)
    [] OTHER            -> IF s.x + 1 >= VGA_WIDTH THEN advance_cursor(written)
                                                   ELSE [written EXCEPT !.x = @ + 1]

clear == [buffer |-> [i \in Cells |-> Blank], x |-> 0, y |-> 0]
=============================================================================
