------------------------------ MODULE CursorProofs ------------------------------
(***************************************************************************)
(* Proofs about module Cursor, for every size of the screen and every      *)
(* period of the blink.                                                    *)
(*                                                                         *)
(* NothingAfterCursor with the type of the screen is inductive by itself.  *)
(* DisturbedOnlyByBlink needs what each step of sync_cursor and            *)
(* set_cursor_visible has done so far, as long as no blink has come        *)
(* between (Progress).                                                     *)
(***************************************************************************)
EXTENDS Cursor, TLAPS

Row(y) == y * VGA_WIDTH

\* Steps after the one that has written the low byte, the high byte, and has
\* read cursor_visible.
LowWritten == {"high", "high_data", "argument", "set_cursor_visible", "read_start",
               "start_again", "write_start"}
HighWritten == {"argument", "set_cursor_visible", "read_start", "start_again",
                "write_start"}
ArgumentRead == {"set_cursor_visible", "read_start", "start_again", "write_start"}

Progress ==
  ~blinked =>
    /\ pc = "low_data" => crt_index = "low"
    /\ pc = "high_data" => crt_index = "high"
    /\ pc \in {"read_start", "write_start"} => crt_index = "start"
    /\ pc \in LowWritten => crt["low"] = Position(screen) % BYTE
    /\ pc \in HighWritten => crt["high"] = (Position(screen) \div BYTE) % BYTE
    /\ pc \in ArgumentRead => visible = cursor_visible

Undisturbed == Progress /\ DisturbedOnlyByBlink

-----------------------------------------------------------------------------

(* Rows and cells. *)

LEMMA Sizes ==
  /\ VGA_WIDTH \in Nat /\ VGA_WIDTH > 0 /\ VGA_HEIGHT \in Nat /\ VGA_HEIGHT > 0
  /\ VGA_WIDTH * VGA_HEIGHT \in Nat
  /\ Row(VGA_HEIGHT) = VGA_WIDTH * VGA_HEIGHT
  /\ Blank \in Chars
BY ScreenAssumption DEF Row, Chars

\* A row begins a width after the one before, and rows are in order.
LEMMA Rows ==
  /\ \A y \in Nat : Row(y) \in Nat /\ Row(y + 1) = Row(y) + VGA_WIDTH
  /\ \A y \in Nat : y > 0 => Row(y) = Row(y - 1) + VGA_WIDTH /\ Row(y - 1) \in Nat
  /\ \A y, z \in Nat : y <= z => Row(y) <= Row(z)
  /\ Row(0) = 0
<1>1. VGA_WIDTH \in Nat
  BY Sizes
<1>2. \A y \in Nat : Row(y) \in Nat /\ Row(y + 1) = Row(y) + VGA_WIDTH
  BY <1>1 DEF Row
<1>3. \A y \in Nat : y > 0 => Row(y) = Row(y - 1) + VGA_WIDTH /\ Row(y - 1) \in Nat
  BY <1>1 DEF Row
<1>4. ASSUME NEW y \in Nat, NEW z \in Nat, y <= z PROVE Row(y) <= Row(z)
  <2>1. PICK d \in Nat : z = y + d
    BY <1>4
  <2>2. z * VGA_WIDTH = y * VGA_WIDTH + d * VGA_WIDTH /\ d * VGA_WIDTH \in Nat
    BY <1>1, <2>1
  <2> QED
    BY <1>1, <2>2 DEF Row
<1>5. Row(0) = 0
  BY <1>1 DEF Row
<1> QED
  BY <1>2, <1>3, <1>4, <1>5

LEMMA ScreenFields ==
  ASSUME NEW s \in Screens
  PROVE  /\ s.buffer \in [Cells -> Chars]
         /\ s.x \in Nat /\ s.x < VGA_WIDTH /\ s.y \in Nat /\ s.y < VGA_HEIGHT
         /\ s.y <= VGA_HEIGHT - 1
         /\ Position(s) = Row(s.y) + s.x
         /\ DOMAIN s = {"buffer", "x", "y"}
BY Sizes DEF Screens, Position, Row

LEMMA PositionIsCell ==
  ASSUME NEW s \in Screens
  PROVE  Position(s) \in Cells /\ Position(s) < Row(s.y + 1)
<1>1. /\ s.x \in Nat /\ s.x < VGA_WIDTH /\ s.y \in Nat /\ s.y + 1 <= VGA_HEIGHT
      /\ Position(s) = Row(s.y) + s.x
  BY ScreenFields, Sizes
<1>2. Row(s.y + 1) = Row(s.y) + VGA_WIDTH /\ Row(s.y) \in Nat
  BY <1>1, Rows
<1>3. Row(s.y + 1) <= Row(VGA_HEIGHT)
  <2>1. s.y + 1 \in Nat /\ VGA_HEIGHT \in Nat
    BY <1>1, Sizes
  <2> QED
    BY <1>1, <2>1, Rows
<1> QED
  BY <1>1, <1>2, <1>3, Sizes DEF Cells

-----------------------------------------------------------------------------

(* The text. *)

\* The cells from p on are empty.
EmptyFrom(s, p) == \A i \in Cells : i >= p => s.buffer[i] = Blank

Clean(s) == s \in Screens /\ EmptyFrom(s, Position(s))

LEMMA ScrollUp ==
  ASSUME NEW b \in [Cells -> Chars]
  PROVE  /\ scroll_up(b) \in [Cells -> Chars]
         /\ \A i \in Cells : i >= Row(VGA_HEIGHT - 1) => scroll_up(b)[i] = Blank
<1>1. /\ VGA_WIDTH \in Nat /\ VGA_HEIGHT - 1 \in Nat
      /\ Row(VGA_HEIGHT) = Row(VGA_HEIGHT - 1) + VGA_WIDTH
      /\ Row(VGA_HEIGHT - 1) \in Nat
      /\ Row(VGA_HEIGHT) = VGA_WIDTH * VGA_HEIGHT
      /\ Row(VGA_HEIGHT) \in Nat
  BY Rows, Sizes
<1>2. VGA_WIDTH * (VGA_HEIGHT - 1) = Row(VGA_HEIGHT - 1)
  BY <1>1 DEF Row
<1>3. Cells = 0 .. Row(VGA_HEIGHT) - 1
  BY <1>1 DEF Cells
<1>4. scroll_up(b) = [i \in Cells |-> IF i < Row(VGA_HEIGHT - 1) THEN b[i + VGA_WIDTH]
                                                             ELSE Blank]
  BY <1>2 DEF scroll_up
<1>5. \A i \in Cells : i < Row(VGA_HEIGHT - 1) => i + VGA_WIDTH \in Cells
  BY <1>1, <1>3
<1>6. \A i \in Cells : i >= Row(VGA_HEIGHT - 1) => ~(i < Row(VGA_HEIGHT - 1))
  BY <1>1, <1>3
<1> QED
  BY <1>4, <1>5, <1>6, Sizes

\* A new line, when nothing stands behind the cell the position names.
LEMMA AdvanceClean ==
  ASSUME NEW s \in Screens, EmptyFrom(s, Position(s) + 1)
  PROVE  Clean(advance_cursor(s))
<1>0. PICK t : t = advance_cursor(s)
  OBVIOUS
<1> SUFFICES Clean(t)
  BY <1>0
<1>1. /\ s.buffer \in [Cells -> Chars] /\ DOMAIN s = {"buffer", "x", "y"}
      /\ s.y \in Nat /\ s.y < VGA_HEIGHT /\ VGA_HEIGHT \in Nat
      /\ VGA_WIDTH \in Nat /\ VGA_WIDTH > 0
      /\ Position(s) < Row(s.y + 1) /\ Position(s) \in Cells
      /\ VGA_WIDTH * VGA_HEIGHT \in Nat
  BY ScreenFields, PositionIsCell, Sizes
<1>2. CASE s.y + 1 >= VGA_HEIGHT
  <2>1. t.buffer = scroll_up(s.buffer) /\ t.x = 0 /\ t.y = VGA_HEIGHT - 1
        /\ t = [buffer |-> scroll_up(s.buffer), x |-> 0, y |-> VGA_HEIGHT - 1]
    BY <1>0, <1>2 DEF advance_cursor
  <2>2. scroll_up(s.buffer) \in [Cells -> Chars]
    BY <1>1, ScrollUp
  <2>3. t \in Screens
    BY <1>1, <2>1, <2>2 DEF Screens
  <2>4. Position(t) = Row(VGA_HEIGHT - 1) + 0
    BY <2>1 DEF Position, Row
  <2>5. VGA_HEIGHT - 1 \in Nat
    BY <1>1
  <2>6. Row(VGA_HEIGHT - 1) \in Nat
    BY <2>5, Rows
  <2>7. Position(t) = Row(VGA_HEIGHT - 1)
    BY <2>4, <2>6
  <2>8. \A i \in Cells : i >= Row(VGA_HEIGHT - 1) => scroll_up(s.buffer)[i] = Blank
    BY <1>1, ScrollUp
  <2> QED
    BY <2>1, <2>3, <2>7, <2>8 DEF Clean, EmptyFrom
<1>3. CASE ~(s.y + 1 >= VGA_HEIGHT)
  <2>1. t = [[s EXCEPT !.x = 0] EXCEPT !.y = s.y + 1]
    BY <1>0, <1>1, <1>3 DEF advance_cursor
  <2>2. t.buffer = s.buffer /\ t.x = 0 /\ t.y = s.y + 1
        /\ t = [buffer |-> s.buffer, x |-> 0, y |-> s.y + 1]
    BY <1>1, <2>1 DEF Screens
  <2>3. t \in Screens
    BY <1>1, <1>3, <2>2 DEF Screens
  <2>4. Position(t) = Row(s.y + 1) + 0
    BY <2>2 DEF Position, Row
  <2>5. Position(t) = Row(s.y + 1) /\ Row(s.y + 1) \in Nat
    <3>1. s.y + 1 \in Nat
      BY <1>1
    <3>2. Row(s.y + 1) \in Nat
      BY <3>1, Rows
    <3> QED
      BY <2>4, <3>2
  <2>6. \A i \in Cells : i >= Row(s.y + 1) => i >= Position(s) + 1
    BY <1>1, <2>5 DEF Cells
  <2> QED
    BY <2>2, <2>3, <2>5, <2>6 DEF Clean, EmptyFrom
<1> QED
  BY <1>2, <1>3

\* A character put in the position's cell.
LEMMA Written ==
  ASSUME NEW s \in Screens, Clean(s), NEW ch \in Chars, NEW w,
         w = [s EXCEPT !.buffer[Position(s)] = ch]
  PROVE  /\ w \in Screens /\ w.x = s.x /\ w.y = s.y /\ Position(w) = Position(s)
         /\ EmptyFrom(w, Position(s) + 1)
         /\ w.buffer[Position(s)] = ch
         /\ \A i \in Cells : i # Position(s) => w.buffer[i] = s.buffer[i]
<1>1. PICK b, p : p = Position(s) /\ b = [s.buffer EXCEPT ![p] = ch]
  OBVIOUS
<1>2. /\ s.buffer \in [Cells -> Chars] /\ DOMAIN s = {"buffer", "x", "y"} /\ p \in Cells
      /\ VGA_WIDTH * VGA_HEIGHT \in Nat
  BY <1>1, ScreenFields, PositionIsCell, Sizes
<1>3. /\ b \in [Cells -> Chars] /\ b[p] = ch
      /\ \A i \in Cells : i # p => b[i] = s.buffer[i]
  BY <1>1, <1>2
<1>4. w = [s EXCEPT !.buffer = b]
  BY <1>1
<1>5. w.buffer = b /\ w.x = s.x /\ w.y = s.y
  BY <1>2, <1>4
<1>6. w \in Screens
  BY <1>3, <1>4 DEF Screens
<1>7. \A i \in Cells : i >= p + 1 => i # p /\ i >= p
  BY <1>2 DEF Cells
<1> QED
  BY <1>1, <1>3, <1>5, <1>6, <1>7 DEF EmptyFrom, Clean, Position

LEMMA BackspaceClean ==
  ASSUME NEW s, Clean(s) PROVE Clean(backspace(s))
<1>1. /\ s \in Screens /\ s.buffer \in [Cells -> Chars] /\ DOMAIN s = {"buffer", "x", "y"}
      /\ s.x \in Nat /\ s.x < VGA_WIDTH /\ s.y \in Nat /\ s.y < VGA_HEIGHT
      /\ VGA_WIDTH \in Nat /\ VGA_WIDTH > 0 /\ VGA_HEIGHT \in Nat
      /\ Position(s) = Row(s.y) + s.x /\ Position(s) \in Cells
      /\ VGA_WIDTH * VGA_HEIGHT \in Nat /\ Row(s.y) \in Nat
  BY ScreenFields, PositionIsCell, Sizes, Rows DEF Clean
<1>2. PICK back : back = IF s.x > 0 THEN [s EXCEPT !.x = @ - 1]
                         ELSE IF s.y > 0 THEN [s EXCEPT !.y = @ - 1, !.x = VGA_WIDTH - 1]
                         ELSE s
  OBVIOUS
<1>3. /\ back \in Screens /\ back.buffer = s.buffer
      /\ Position(back) + 1 >= Position(s)
  <2>1. CASE s.x > 0
    <3>1. back = [s EXCEPT !.x = s.x - 1]
      BY <1>2, <2>1
    <3>2. back.buffer = s.buffer /\ back.x = s.x - 1 /\ back.y = s.y
      BY <1>1, <3>1
    <3>3. back \in Screens
      BY <1>1, <2>1, <3>1 DEF Screens
    <3>4. Position(back) = Row(s.y) + (s.x - 1)
      BY <3>2, <3>3, ScreenFields
    <3> QED
      BY <1>1, <3>2, <3>3, <3>4
  <2>2. CASE ~(s.x > 0) /\ s.y > 0
    <3>1. back = [[s EXCEPT !.y = s.y - 1] EXCEPT !.x = VGA_WIDTH - 1]
      BY <1>2, <2>2
    <3>2. back.buffer = s.buffer /\ back.x = VGA_WIDTH - 1 /\ back.y = s.y - 1
          /\ back = [buffer |-> s.buffer, x |-> VGA_WIDTH - 1, y |-> s.y - 1]
      BY <1>1, <3>1 DEF Screens
    <3>3. back \in Screens
      BY <1>1, <2>2, <3>2 DEF Screens
    <3>4. Position(back) = Row(s.y - 1) + (VGA_WIDTH - 1)
      BY <3>2, <3>3, ScreenFields
    <3>5. Row(s.y) = Row(s.y - 1) + VGA_WIDTH /\ Row(s.y - 1) \in Nat
      BY <1>1, <2>2, Rows
    <3> QED
      BY <1>1, <2>2, <3>2, <3>3, <3>4, <3>5
  <2>3. CASE ~(s.x > 0) /\ ~(s.y > 0)
    <3>1. back = s
      BY <1>2, <2>3
    <3> QED
      BY <1>1, <3>1 DEF Cells
  <2> QED
    BY <2>1, <2>2, <2>3
<1>4. PICK p, t : p = Position(back) /\ t = [back EXCEPT !.buffer[p] = Blank]
  OBVIOUS
<1>5. PICK b : b = [s.buffer EXCEPT ![p] = Blank]
  OBVIOUS
<1>6. p \in Cells /\ DOMAIN back = {"buffer", "x", "y"}
  BY <1>3, <1>4, PositionIsCell, ScreenFields
<1>7. b \in [Cells -> Chars] /\ \A i \in Cells : b[i] = IF i = p THEN Blank ELSE s.buffer[i]
  BY <1>1, <1>5, <1>6, Sizes
<1>8. t = [back EXCEPT !.buffer = b]
  BY <1>3, <1>4, <1>5
<1>9. t \in Screens /\ t.buffer = b /\ t.x = back.x /\ t.y = back.y
  BY <1>3, <1>6, <1>7, <1>8 DEF Screens
<1>10. Position(t) = p
  BY <1>4, <1>9 DEF Position
<1>11. \A i \in Cells : i >= p => i = p \/ i >= Position(s)
  <2>1. PICK c : c = Position(s)
    OBVIOUS
  <2>2. c \in Nat /\ p \in Nat /\ p + 1 >= c
    BY <1>1, <1>3, <1>4, <1>6, <2>1 DEF Cells
  <2>3. \A i \in Nat : i >= p => i = p \/ i >= c
    BY <2>2
  <2> QED
    BY <1>1, <2>1, <2>3 DEF Cells
<1>12. Clean(t)
  BY <1>7, <1>9, <1>10, <1>11 DEF Clean, EmptyFrom
<1>13. backspace(s) = t
  BY <1>2, <1>4 DEF backspace
<1> QED
  BY <1>12, <1>13

LEMMA PutcharClean ==
  ASSUME NEW s, Clean(s), NEW ch \in Chars \cup {"backspace", "newline"}
  PROVE  Clean(putchar(s, ch))
<1>1. /\ s \in Screens /\ s.x \in Nat /\ s.y \in Nat /\ DOMAIN s = {"buffer", "x", "y"}
      /\ Position(s) = Row(s.y) + s.x /\ Row(s.y) \in Nat
      /\ VGA_WIDTH \in Nat /\ VGA_WIDTH * VGA_HEIGHT \in Nat
  BY ScreenFields, Sizes, Rows DEF Clean
<1>2. CASE ch = "backspace"
  BY <1>2, BackspaceClean DEF putchar
<1>3. CASE ch = "newline"
  <2>1. \A i \in Cells : i >= Position(s) + 1 => i >= Position(s)
    BY <1>1 DEF Cells
  <2>2. EmptyFrom(s, Position(s) + 1)
    BY <2>1 DEF Clean, EmptyFrom
  <2>3. putchar(s, ch) = advance_cursor(s)
    BY <1>3 DEF putchar
  <2> QED
    BY <1>1, <2>2, <2>3, AdvanceClean
<1>4. CASE ch # "backspace" /\ ch # "newline"
  <2>1. PICK w : w = [s EXCEPT !.buffer[Position(s)] = ch]
    OBVIOUS
  <2>2. /\ w \in Screens /\ w.x = s.x /\ w.y = s.y /\ Position(w) = Position(s)
        /\ EmptyFrom(w, Position(s) + 1)
    BY <1>1, <1>4, <2>1, Written
  <2>3. putchar(s, ch) = IF s.x + 1 >= VGA_WIDTH THEN advance_cursor(w)
                                                 ELSE [w EXCEPT !.x = @ + 1]
    BY <1>4, <2>1 DEF putchar
  <2>4. CASE s.x + 1 >= VGA_WIDTH
    BY <2>2, <2>3, <2>4, AdvanceClean
  <2>5. CASE ~(s.x + 1 >= VGA_WIDTH)
    <3>1. PICK t : t = [w EXCEPT !.x = w.x + 1]
      OBVIOUS
    <3>2. DOMAIN w = {"buffer", "x", "y"}
      BY <2>2, ScreenFields
    <3>3. t.buffer = w.buffer /\ t.x = s.x + 1 /\ t.y = s.y
      BY <2>2, <3>1, <3>2
    <3>4. t \in Screens
      BY <1>1, <2>2, <2>5, <3>1 DEF Screens
    <3>5. Position(t) = Position(s) + 1
      BY <1>1, <3>3, <3>4, ScreenFields
    <3>6. Clean(t)
      BY <2>2, <3>3, <3>4, <3>5 DEF Clean, EmptyFrom
    <3> QED
      BY <2>3, <2>5, <3>1, <3>6
  <2> QED
    BY <2>4, <2>5
<1> QED
  BY <1>2, <1>3, <1>4

LEMMA ClearClean == Clean(clear)
<1>1. 0 \in 0 .. VGA_WIDTH - 1 /\ 0 \in 0 .. VGA_HEIGHT - 1
  BY Sizes
<1>2. clear \in Screens
  BY <1>1, Sizes DEF clear, Screens
<1> QED
  BY <1>2 DEF clear, Clean, EmptyFrom

-----------------------------------------------------------------------------

(* The cursor. *)

LEMMA Numbers ==
  /\ BYTE \in Nat /\ BYTE > 0 /\ BYTE <= 256
  /\ WORD \in Nat /\ WORD > 0
  /\ BLINK_PERIOD \in Nat /\ BLINK_PERIOD > 0 /\ BLINK_PERIOD < WORD
BY CursorAssumption

\* Bit 5 of a byte.
LEMMA HideShow ==
  ASSUME NEW b \in Bytes
  PROVE  /\ Show(b) \in Bytes /\ ~Hidden(Show(b))
         /\ Hide(b) \in Bytes /\ Hidden(Hide(b))
<1>1. PICK q, r : q = b \div 32 /\ r = b % 32
  OBVIOUS
<1>2. b \in Nat /\ b <= 255 /\ q \in 0 .. 7 /\ r \in 0 .. 31 /\ b = 32 * q + r
  BY <1>1 DEF Bytes
<1>3. /\ (b + 32) \div 32 = q + 1
      /\ q > 0 => (b - 32) \div 32 = q - 1
  BY <1>2
<1>4. CASE q % 2 = 1
  <2>1. Hidden(b)
    BY <1>1, <1>4 DEF Hidden, VGA_CURSOR_DISABLE
  <2>2. Hide(b) = b /\ Show(b) = b - 32
    BY <2>1 DEF Hide, Show, VGA_CURSOR_DISABLE
  <2>3. q > 0 /\ (q - 1) % 2 = 0
    BY <1>2, <1>4
  <2> QED
    BY <1>2, <1>3, <2>1, <2>2, <2>3 DEF Bytes, Hidden, VGA_CURSOR_DISABLE
<1>5. CASE q % 2 # 1
  <2>1. ~Hidden(b)
    BY <1>1, <1>5 DEF Hidden, VGA_CURSOR_DISABLE
  <2>2. Hide(b) = b + 32 /\ Show(b) = b
    BY <2>1 DEF Hide, Show, VGA_CURSOR_DISABLE
  <2>3. q <= 6 /\ (q + 1) % 2 = 1
    BY <1>2, <1>5
  <2> QED
    BY <1>2, <1>3, <2>1, <2>2, <2>3 DEF Bytes, Hidden, VGA_CURSOR_DISABLE
<1> QED
  BY <1>4, <1>5

\* Two bytes hold every position.
LEMMA TwoBytes ==
  ASSUME NEW p \in Cells
  PROVE  /\ p % BYTE \in Bytes /\ (p \div BYTE) % BYTE \in Bytes
         /\ ((p \div BYTE) % BYTE) * BYTE + (p % BYTE) = p
<1>1. p \in Nat /\ p < BYTE * BYTE
  <2>1. /\ VGA_WIDTH * VGA_HEIGHT \in Nat /\ VGA_WIDTH * VGA_HEIGHT <= BYTE * BYTE
        /\ BYTE * BYTE \in Nat
    BY Sizes, Numbers, CursorAssumption
  <2> QED
    BY <2>1 DEF Cells
<1>2. PICK q, r : q = p \div BYTE /\ r = p % BYTE
  OBVIOUS
<1>3. /\ q \in Nat /\ r \in Nat /\ r < BYTE /\ p = BYTE * q + r
  BY <1>1, <1>2, Numbers
<1>4. q < BYTE
  <2>1. SUFFICES ASSUME q >= BYTE PROVE FALSE
    BY <1>3, Numbers
  <2>2. BYTE * q >= BYTE * BYTE
    BY <1>3, <2>1, Numbers
  <2> QED
    BY <1>1, <1>3, <2>2, Numbers
<1>5. q % BYTE = q
  BY <1>3, <1>4, Numbers
<1>6. q * BYTE = BYTE * q
  BY <1>3, Numbers
<1> QED
  BY <1>2, <1>3, <1>4, <1>5, <1>6, Numbers DEF Bytes

LEMMA InitType == Init => TypeOK
<1> SUFFICES ASSUME Init PROVE TypeOK
  OBVIOUS
<1>1. screen \in Screens
  BY ClearClean DEF Init, Clean
<1>2. /\ last_blink_tick \in 0 .. WORD - 1 /\ g_ticks \in 0 .. WORD - 1
      /\ crt \in [Registers -> Bytes] /\ cursor_start \in Bytes
  BY Numbers DEF Init, Bytes, BiosCursorStart, Registers
<1>3. /\ cursor_visible \in BOOLEAN /\ visible \in BOOLEAN /\ blinked \in BOOLEAN
      /\ crt_index \in Registers /\ pc \in Labels
  BY DEF Init, Registers, Labels
<1> QED
  BY <1>1, <1>2, <1>3 DEF TypeOK

-----------------------------------------------------------------------------

(* The type of the state, and what stands behind the cursor. *)

\* The first scan line of the cursor, shown or hidden, is a byte.
LEMMA TickType ==
  ASSUME TypeOK, irq0_handler PROVE TypeOK'
<1>1. g_ticks' \in 0 .. WORD - 1
  BY Numbers DEF irq0_handler, TypeOK
<1>2. UNCHANGED <<screen, pc, visible, cursor_start>> /\ tick(g_ticks')
  BY DEF irq0_handler
<1>3. CASE UNCHANGED <<sharedVars, crt_index, crt, blinked>>
  BY <1>1, <1>2, <1>3 DEF TypeOK, sharedVars
<1>4. CASE ~UNCHANGED <<sharedVars, crt_index, crt, blinked>>
  <2>1. /\ last_blink_tick' = g_ticks' /\ cursor_visible' = ~cursor_visible
        /\ crt_index' = "start" /\ blinked' = (blinked \/ pc # "idle")
        /\ crt' = [crt EXCEPT !["start"] = IF cursor_visible' THEN Show(crt["start"])
                                                              ELSE Hide(crt["start"])]
    BY <1>2, <1>4 DEF tick
  <2>2. crt["start"] \in Bytes
    BY DEF TypeOK, Registers
  <2>3. crt' \in [Registers -> Bytes]
    BY <2>1, <2>2, HideShow DEF TypeOK
  <2>4. cursor_visible' \in BOOLEAN /\ blinked' \in BOOLEAN /\ crt_index' \in Registers
    BY <2>1 DEF Registers
  <2> QED
    BY <1>1, <1>2, <2>1, <2>3, <2>4 DEF TypeOK
<1> QED
  BY <1>3, <1>4

LEMMA ByteOfPosition ==
  ASSUME TypeOK
  PROVE  Position(screen) % BYTE \in Bytes /\ (Position(screen) \div BYTE) % BYTE \in Bytes
BY PositionIsCell, TwoBytes DEF TypeOK

\* Selecting a register, or writing a byte into it, keeps the types.
LEMMA SelectType ==
  ASSUME TypeOK, NEW at, NEW next \in Labels, NEW register \in Registers,
         Select(at, next, register), UNCHANGED g_ticks
  PROVE  TypeOK'
BY DEF TypeOK, Select, Goto, sharedVars

LEMMA WriteType ==
  ASSUME TypeOK, NEW at, NEW next \in Labels, NEW byte \in Bytes,
         WriteData(at, next, byte), UNCHANGED g_ticks
  PROVE  TypeOK'
BY DEF TypeOK, WriteData, Goto, sharedVars

LEMMA SyncType ==
  ASSUME TypeOK, sync_cursor \/ set_cursor_visible, UNCHANGED g_ticks
  PROVE  TypeOK'
<1>0. /\ Position(screen) % BYTE \in Bytes
      /\ (Position(screen) \div BYTE) % BYTE \in Bytes
      /\ (IF visible THEN Show(cursor_start) ELSE Hide(cursor_start)) \in Bytes
  BY ByteOfPosition, HideShow DEF TypeOK
<1>1. CASE Select("sync_cursor", "low_data", "low")
  BY <1>1, SelectType DEF Labels, Registers
<1>2. CASE WriteData("low_data", "high", Position(screen) % BYTE)
  BY <1>0, <1>2, WriteType DEF Labels
<1>3. CASE Select("high", "high_data", "high")
  BY <1>3, SelectType DEF Labels, Registers
<1>4. CASE WriteData("high_data", "argument", (Position(screen) \div BYTE) % BYTE)
  BY <1>0, <1>4, WriteType DEF Labels
<1>5. CASE /\ Goto("argument", "set_cursor_visible")
           /\ visible' = cursor_visible
           /\ UNCHANGED <<screen, sharedVars, crt_index, crt, cursor_start, blinked>>
  BY <1>5 DEF TypeOK, Goto, sharedVars, Labels
<1>6. CASE Select("set_cursor_visible", "read_start", "start")
  BY <1>6, SelectType DEF Labels, Registers
<1>7. CASE /\ Goto("read_start", "start_again")
           /\ cursor_start' = crt[crt_index]
           /\ UNCHANGED <<screen, sharedVars, crt_index, crt, visible, blinked>>
  BY <1>7 DEF TypeOK, Goto, sharedVars, Labels
<1>8. CASE Select("start_again", "write_start", "start")
  BY <1>8, SelectType DEF Labels, Registers
<1>9. CASE WriteData("write_start", "idle",
                     IF visible THEN Show(cursor_start) ELSE Hide(cursor_start))
  BY <1>0, <1>9, WriteType DEF Labels
<1> QED
  BY <1>1, <1>2, <1>3, <1>4, <1>5, <1>6, <1>7, <1>8, <1>9 DEF sync_cursor, set_cursor_visible

\* The text changes in putchar and clear alone.
LEMMA TextStep ==
  ASSUME TypeOK, Clean(screen), [Next]_vars PROVE TypeOK' /\ Clean(screen')
<1>1. ASSUME NEW ch \in Chars \cup {"backspace", "newline"}, PutChar(ch), UNCHANGED g_ticks
      PROVE  TypeOK' /\ Clean(screen')
  <2>1. Clean(screen')
    BY <1>1, PutcharClean DEF PutChar
  <2> QED
    BY <1>1, <2>1 DEF PutChar, TypeOK, Goto, sharedVars, Labels, Clean
<1>2. CASE Clear /\ UNCHANGED g_ticks
  <2>1. Clean(screen')
    BY <1>2, ClearClean DEF Clear
  <2>2. 0 \in 0 .. WORD - 1
    BY Numbers
  <2> QED
    BY <1>2, <2>1, <2>2 DEF Clear, TypeOK, Goto, Labels, Clean
<1>3. CASE (sync_cursor \/ set_cursor_visible) /\ UNCHANGED g_ticks
  <2>1. UNCHANGED screen
    BY <1>3 DEF sync_cursor, set_cursor_visible, Select, WriteData
  <2> QED
    BY <1>3, <2>1, SyncType
<1>4. CASE irq0_handler
  BY <1>4, TickType DEF irq0_handler
<1>5. CASE UNCHANGED vars
  BY <1>5 DEF vars, sharedVars, TypeOK
<1> QED
  BY <1>1, <1>2, <1>3, <1>4, <1>5 DEF Next

LEMMA InitClean == Init => Clean(screen)
BY ClearClean DEF Init

\* Every variable keeps its type: no step of the driver leaves the screen or a
\* register of the CRT controller with what does not fit there.
THEOREM TypeCorrect == Spec => []TypeOK
<1>1. Init => TypeOK /\ Clean(screen)
  BY InitType, InitClean
<1>2. TypeOK /\ Clean(screen) /\ [Next]_vars => TypeOK' /\ Clean(screen)'
  BY TextStep
<1> QED
  BY <1>1, <1>2, PTL DEF Spec

\* Nothing stands on the screen from the cursor on, after any sequence of
\* putchar and clear and on a screen of any size (vga_buffer.cpp:26-46 and
\* 111-148).
THEOREM NothingAfter == Spec => []NothingAfterCursor
<1>1. Init => TypeOK /\ Clean(screen)
  BY InitType, InitClean
<1>2. TypeOK /\ Clean(screen) /\ [Next]_vars => TypeOK' /\ Clean(screen)'
  BY TextStep
<1>3. Clean(screen) => NothingAfterCursor
  BY DEF Clean, EmptyFrom, NothingAfterCursor
<1> QED
  BY <1>1, <1>2, <1>3, PTL DEF Spec

-----------------------------------------------------------------------------

(* Where the cursor is, and whether it is shown. *)

\* A call that begins has written nothing yet.
LEMMA CallBegins ==
  ASSUME pc' \in {"clear_blink", "sync_cursor"} PROVE Undisturbed'
BY DEF Undisturbed, Progress, DisturbedOnlyByBlink, CursorSynced, LowWritten, HighWritten,
       ArgumentRead

\* The steps of sync_cursor, each after what the ones before it have written.
LEMMA SyncKeeps ==
  ASSUME TypeOK, Undisturbed, sync_cursor PROVE Undisturbed'
<1>0. /\ UNCHANGED <<screen, cursor_visible, cursor_start, blinked>> /\ pc' # "idle"
      /\ "low" \in DOMAIN crt /\ "high" \in DOMAIN crt /\ "low" # "high"
  BY DEF sync_cursor, Select, WriteData, Goto, sharedVars, TypeOK, Registers
<1>1. DisturbedOnlyByBlink'
  BY <1>0 DEF DisturbedOnlyByBlink, CursorSynced
<1> SUFFICES ASSUME ~blinked' PROVE Progress'
  BY <1>1 DEF Undisturbed, Progress
<1>2. PICK low, high : low = Position(screen) % BYTE /\ high = (Position(screen) \div BYTE) % BYTE
  OBVIOUS
<1>3. low = Position(screen') % BYTE /\ high = (Position(screen') \div BYTE) % BYTE
  BY <1>0, <1>2
<1>4. /\ pc = "low_data" => crt_index = "low"
      /\ pc = "high_data" => crt_index = "high"
      /\ pc \in LowWritten => crt["low"] = low
      /\ pc \in HighWritten => crt["high"] = high
  BY <1>0, <1>2 DEF Undisturbed, Progress
<1>5. SUFFICES /\ pc' = "low_data" => crt_index' = "low"
               /\ pc' = "high_data" => crt_index' = "high"
               /\ pc' \in {"read_start", "write_start"} => crt_index' = "start"
               /\ pc' \in LowWritten => crt'["low"] = low
               /\ pc' \in HighWritten => crt'["high"] = high
               /\ pc' \in ArgumentRead => visible' = cursor_visible'
  BY <1>3 DEF Progress
<1>6. CASE Select("sync_cursor", "low_data", "low")
  BY <1>6 DEF Select, Goto, LowWritten, HighWritten, ArgumentRead
<1>7. CASE WriteData("low_data", "high", Position(screen) % BYTE)
  BY <1>0, <1>2, <1>4, <1>7 DEF WriteData, Goto, LowWritten, HighWritten, ArgumentRead
<1>8. CASE Select("high", "high_data", "high")
  BY <1>4, <1>8 DEF Select, Goto, LowWritten, HighWritten, ArgumentRead
<1>9. CASE WriteData("high_data", "argument", (Position(screen) \div BYTE) % BYTE)
  BY <1>0, <1>2, <1>4, <1>9 DEF WriteData, Goto, LowWritten, HighWritten, ArgumentRead
<1>10. CASE /\ Goto("argument", "set_cursor_visible")
            /\ visible' = cursor_visible
            /\ UNCHANGED <<screen, sharedVars, crt_index, crt, cursor_start, blinked>>
  BY <1>4, <1>10 DEF Goto, sharedVars, LowWritten, HighWritten, ArgumentRead
<1> QED
  BY <1>6, <1>7, <1>8, <1>9, <1>10 DEF sync_cursor

\* The steps of set_cursor_visible before the last one.
LEMMA VisibleKeeps ==
  ASSUME TypeOK, Undisturbed, set_cursor_visible, pc # "write_start"
  PROVE  Undisturbed'
<1>1. /\ UNCHANGED <<screen, cursor_visible, crt, visible, blinked>>
      /\ pc \in ArgumentRead /\ pc' \in ArgumentRead \ {"set_cursor_visible"}
      /\ pc' \in {"read_start", "write_start"} => crt_index' = "start"
  BY DEF set_cursor_visible, Select, WriteData, Goto, sharedVars, ArgumentRead
<1>2. /\ pc \in LowWritten /\ pc \in HighWritten
      /\ pc' # "idle" /\ pc' # "low_data" /\ pc' # "high_data"
  BY <1>1 DEF ArgumentRead, LowWritten, HighWritten
<1> QED
  BY <1>1, <1>2 DEF Undisturbed, Progress, DisturbedOnlyByBlink, CursorSynced

\* The last step puts the cursor right, if no blink has come since the call.
LEMMA LastWrite ==
  ASSUME TypeOK, Undisturbed, set_cursor_visible, pc = "write_start"
  PROVE  Undisturbed'
<1>1. WriteData("write_start", "idle", IF visible THEN Show(cursor_start) ELSE Hide(cursor_start))
  BY DEF set_cursor_visible, Select, Goto
<1>2. pc' = "idle" /\ UNCHANGED <<screen, cursor_visible, blinked>>
  BY <1>1 DEF WriteData, Goto, sharedVars
<1>3. Progress'
  BY <1>2 DEF Progress, LowWritten, HighWritten, ArgumentRead
<1> SUFFICES ASSUME ~blinked' PROVE CursorSynced'
  BY <1>3 DEF Undisturbed, DisturbedOnlyByBlink
<1>4. /\ crt_index = "start" /\ visible = cursor_visible
      /\ crt["low"] = Position(screen) % BYTE
      /\ crt["high"] = (Position(screen) \div BYTE) % BYTE
  BY <1>2 DEF Undisturbed, Progress, LowWritten, HighWritten, ArgumentRead
<1>5. /\ crt' = [crt EXCEPT !["start"] = IF visible THEN Show(cursor_start)
                                                    ELSE Hide(cursor_start)]
      /\ DOMAIN crt = {"start", "high", "low"}
  BY <1>1, <1>4 DEF WriteData, TypeOK, Registers
<1>6. /\ crt'["low"] = crt["low"] /\ crt'["high"] = crt["high"]
      /\ crt'["start"] = IF visible THEN Show(cursor_start) ELSE Hide(cursor_start)
  BY <1>5
<1>7. Position(screen) \in Cells
  BY PositionIsCell DEF TypeOK
<1>8. Location' = Position(screen')
  BY <1>2, <1>4, <1>6, <1>7, TwoBytes DEF Location
<1>9. Hidden(crt'["start"]) = ~cursor_visible'
  <2>1. cursor_start \in Bytes /\ visible \in BOOLEAN
    BY DEF TypeOK
  <2>2. ~Hidden(Show(cursor_start)) /\ Hidden(Hide(cursor_start))
    BY <2>1, HideShow
  <2> QED
    BY <1>2, <1>4, <1>6, <2>1, <2>2 DEF Hidden
<1> QED
  BY <1>8, <1>9 DEF CursorSynced

\* A blink while no call runs leaves the location, and shows or hides the cursor
\* as it says; one that comes during a call is noted in blinked.
LEMMA BlinkKeeps ==
  ASSUME TypeOK, Undisturbed, irq0_handler PROVE Undisturbed'
<1>1. UNCHANGED <<screen, pc, visible, cursor_start>> /\ tick(g_ticks')
  BY DEF irq0_handler
<1>2. CASE UNCHANGED <<sharedVars, crt_index, crt, blinked>>
  BY <1>1, <1>2 DEF Undisturbed, Progress, DisturbedOnlyByBlink, CursorSynced, Location,
                    sharedVars
<1>3. CASE ~UNCHANGED <<sharedVars, crt_index, crt, blinked>>
  <2>1. /\ cursor_visible' = ~cursor_visible
        /\ crt' = [crt EXCEPT !["start"] = IF cursor_visible' THEN Show(crt["start"])
                                                              ELSE Hide(crt["start"])]
        /\ blinked' = (blinked \/ pc # "idle")
    BY <1>1, <1>3 DEF tick
  <2>2. CASE blinked \/ pc # "idle"
    BY <2>1, <2>2 DEF Undisturbed, Progress, DisturbedOnlyByBlink
  <2>3. CASE ~blinked /\ pc = "idle"
    <3>1. pc' = "idle" /\ CursorSynced
      BY <1>1, <2>3 DEF Undisturbed, DisturbedOnlyByBlink
    <3>2. Progress'
      BY <3>1 DEF Progress, LowWritten, HighWritten, ArgumentRead
    <3>3. crt["start"] \in Bytes /\ DOMAIN crt = {"start", "high", "low"}
      BY DEF TypeOK, Registers
    <3>4. /\ crt'["low"] = crt["low"] /\ crt'["high"] = crt["high"]
          /\ crt'["start"] = IF cursor_visible' THEN Show(crt["start"]) ELSE Hide(crt["start"])
      BY <2>1, <3>3
    <3>5. Location' = Position(screen')
      BY <1>1, <2>3, <3>1, <3>4 DEF Location, CursorSynced
    <3>6. cursor_visible' \in BOOLEAN
      BY <2>1
    <3>7. ~Hidden(Show(crt["start"])) /\ Hidden(Hide(crt["start"]))
      BY <3>3, HideShow
    <3>8. Hidden(crt'["start"]) = ~cursor_visible'
      BY <3>4, <3>6, <3>7 DEF Hidden
    <3> QED
      BY <3>2, <3>5, <3>8 DEF Undisturbed, DisturbedOnlyByBlink, CursorSynced
  <2> QED
    BY <2>2, <2>3
<1> QED
  BY <1>2, <1>3

LEMMA UndisturbedStep ==
  ASSUME TypeOK, Undisturbed, [Next]_vars PROVE Undisturbed'
<1>1. ASSUME NEW ch \in Chars \cup {"backspace", "newline"}, PutChar(ch)
      PROVE  Undisturbed'
  BY <1>1, CallBegins DEF PutChar, Goto
<1>2. CASE Clear
  BY <1>2, CallBegins DEF Clear, Goto
<1>3. CASE sync_cursor
  BY <1>3, SyncKeeps
<1>4. CASE set_cursor_visible
  BY <1>4, VisibleKeeps, LastWrite
<1>5. CASE irq0_handler
  BY <1>5, BlinkKeeps
<1>6. CASE UNCHANGED vars
  BY <1>6 DEF vars, sharedVars, Undisturbed, Progress, DisturbedOnlyByBlink, CursorSynced,
              Location
<1> QED
  BY <1>1, <1>2, <1>3, <1>4, <1>5, <1>6 DEF Next

LEMMA InitUndisturbed == Init => Undisturbed
<1> SUFFICES ASSUME Init PROVE Undisturbed
  OBVIOUS
<1>1. Progress
  BY DEF Init, Progress, LowWritten, HighWritten, ArgumentRead
<1>2. Position(screen) = 0
  BY Sizes DEF Init, clear, Position
<1>3. crt["high"] = 0 /\ crt["low"] = 0 /\ crt["start"] = 13 /\ cursor_visible = TRUE
  BY DEF Init, Registers, BiosCursorStart
<1>4. Location = 0
  BY <1>3, Numbers DEF Location
<1>5. (13 \div 32) % 2 = 0
  OBVIOUS
<1>6. Hidden(crt["start"]) = ~cursor_visible
  BY <1>3, <1>5 DEF Hidden, VGA_CURSOR_DISABLE
<1>7. CursorSynced
  BY <1>2, <1>4, <1>6 DEF CursorSynced
<1> QED
  BY <1>1, <1>7 DEF Undisturbed, DisturbedOnlyByBlink

\* When no call runs and no blink came during the last one, the cursor is where
\* the text goes and shown as cursor_visible says: the steps of sync_cursor and
\* set_cursor_visible put right whatever an earlier blink has disturbed, and a
\* blink between two calls disturbs nothing (vga_buffer.cpp:70-109).
THEOREM OnlyBlinksDisturb == Spec => []DisturbedOnlyByBlink
<1>1. Init => Undisturbed
  BY InitUndisturbed
<1>2. TypeOK /\ Undisturbed /\ [Next]_vars => Undisturbed'
  BY UndisturbedStep
<1>3. Undisturbed => DisturbedOnlyByBlink
  BY DEF Undisturbed
<1> QED
  BY <1>1, <1>2, <1>3, TypeCorrect, PTL DEF Spec
=============================================================================
