-------------------------------- MODULE Cursor --------------------------------
(***************************************************************************)
(* The VGA driver with its hardware cursor: putchar, clear and sync_cursor *)
(* of src/modules/vga_buffer/vga_buffer.cpp, which the foreground runs     *)
(* with interrupts enabled, against VGABuffer::tick, which the timer       *)
(* interrupt runs.  The two share the CRT controller, whose registers are  *)
(* reached by writing an index to one port and then a byte to another, and *)
(* the blinking state.                                                     *)
(*                                                                         *)
(* The foreground is cut wherever an interrupt may come between two steps  *)
(* that touch what is shared.  The interrupt handler is one step.          *)
(***************************************************************************)
EXTENDS Screen

CONSTANTS
  BYTE,             \* 2^8, where a screen position is cut into two bytes
  WORD,             \* 2^32: g_ticks wraps
  BLINK_PERIOD      \* VGA_CURSOR_BLINK_PERIOD

ASSUME CursorAssumption ==
  /\ BYTE \in 1 .. 256 /\ VGA_WIDTH * VGA_HEIGHT <= BYTE * BYTE
  /\ WORD \in Nat \ {0} /\ BLINK_PERIOD \in Nat \ {0} /\ BLINK_PERIOD < WORD

VARIABLES
  screen, cursor_visible, last_blink_tick, g_ticks,
  crt_index, crt,    \* the CRT controller's index and registers
  pc,                \* the next step of the foreground
  visible,           \* set_cursor_visible's argument in the foreground
  cursor_start,      \* its local
  blinked            \* the cursor blinked during the foreground's last call

sharedVars == <<cursor_visible, last_blink_tick>>
vars == <<screen, sharedVars, g_ticks, crt_index, crt, pc, visible,
          cursor_start, blinked>>

\* Registers 0x0A, 0x0E and 0x0F, and what the BIOS leaves in the first: the
\* first scan line of the cursor, and a bit that hides it.
Registers == {"start", "high", "low"}
VGA_CURSOR_DISABLE == 32
BiosCursorStart == 13

Hidden(byte) == (byte \div VGA_CURSOR_DISABLE) % 2 = 1
Hide(byte) == IF Hidden(byte) THEN byte ELSE byte + VGA_CURSOR_DISABLE
Show(byte) == IF Hidden(byte) THEN byte - VGA_CURSOR_DISABLE ELSE byte

-----------------------------------------------------------------------------

\* One step of the foreground from label at to label next.
Goto(at, next) ==
  /\ pc = at
  /\ pc' = next

Select(at, next, register) ==
  /\ Goto(at, next)
  /\ crt_index' = register
  /\ UNCHANGED <<screen, sharedVars, crt, visible, cursor_start, blinked>>

WriteData(at, next, byte) ==
  /\ Goto(at, next)
  /\ crt' = [crt EXCEPT ![crt_index] = byte]
  /\ UNCHANGED <<screen, sharedVars, crt_index, visible, cursor_start, blinked>>

\* Wrong variant: the high byte of the location is not written.
sync_cursor_LowOnly ==
  \/ Select("sync_cursor", "low_data", "low")
  \/ WriteData("low_data", "argument", Position(screen) % BYTE)
  \/ /\ Goto("argument", "set_cursor_visible")
     /\ visible' = cursor_visible
     /\ UNCHANGED <<screen, sharedVars, crt_index, crt, cursor_start, blinked>>

\* The location, low byte first, and then the call of set_cursor_visible.
sync_cursor ==
  \/ Select("sync_cursor", "low_data", "low")
  \/ WriteData("low_data", "high", Position(screen) % BYTE)
  \/ Select("high", "high_data", "high")
  \/ WriteData("high_data", "argument", (Position(screen) \div BYTE) % BYTE)
  \/ /\ Goto("argument", "set_cursor_visible")
     /\ visible' = cursor_visible
     /\ UNCHANGED <<screen, sharedVars, crt_index, crt, cursor_start, blinked>>

set_cursor_visible ==
  \/ Select("set_cursor_visible", "read_start", "start")
  \/ /\ Goto("read_start", "start_again")
     /\ cursor_start' = crt[crt_index]
     /\ UNCHANGED <<screen, sharedVars, crt_index, crt, visible, blinked>>
  \/ Select("start_again", "write_start", "start")
  \/ WriteData("write_start", "idle",
               IF visible THEN Show(cursor_start) ELSE Hide(cursor_start))

PutChar(ch) ==
  /\ Goto("idle", "sync_cursor")
  /\ screen' = putchar(screen, ch)
  /\ blinked' = FALSE
  /\ UNCHANGED <<sharedVars, crt_index, crt, visible, cursor_start>>

Clear ==
  \/ /\ Goto("idle", "clear_blink")
     /\ screen' = clear
     /\ cursor_visible' = TRUE
     /\ blinked' = FALSE
     /\ UNCHANGED <<last_blink_tick, crt_index, crt, visible, cursor_start>>
  \/ /\ Goto("clear_blink", "sync_cursor")
     /\ last_blink_tick' = 0
     /\ UNCHANGED <<screen, cursor_visible, crt_index, crt, visible,
                    cursor_start, blinked>>

\* Wrong variant: the comparison does not survive the wrap of the counter.
tick_Wraps(ticks) ==
  IF ticks < last_blink_tick + BLINK_PERIOD
  THEN UNCHANGED <<sharedVars, crt_index, crt, blinked>>
  ELSE /\ last_blink_tick' = ticks
       /\ cursor_visible' = ~cursor_visible
       /\ crt_index' = "start"
       /\ crt' = [crt EXCEPT !["start"] = IF cursor_visible' THEN Show(@)
                                                             ELSE Hide(@)]
       /\ blinked' = (blinked \/ pc # "idle")

\* VGABuffer::tick, with the set_cursor_visible it calls.
tick(ticks) ==
  IF (ticks + WORD - last_blink_tick) % WORD < BLINK_PERIOD
  THEN UNCHANGED <<sharedVars, crt_index, crt, blinked>>
  ELSE /\ last_blink_tick' = ticks
       /\ cursor_visible' = ~cursor_visible
       /\ crt_index' = "start"
       /\ crt' = [crt EXCEPT !["start"] = IF cursor_visible' THEN Show(@)
                                                             ELSE Hide(@)]
       /\ blinked' = (blinked \/ pc # "idle")

irq0_handler ==
  /\ g_ticks' = (g_ticks + 1) % WORD
  /\ tick(g_ticks')
  /\ UNCHANGED <<screen, pc, visible, cursor_start>>

\* After the ksys_clear_screen of kernel_main.
Init ==
  /\ screen = clear
  /\ cursor_visible = TRUE
  /\ last_blink_tick = 0
  /\ g_ticks = 0
  /\ crt_index = "start"
  /\ crt = [r \in Registers |-> IF r = "start" THEN BiosCursorStart ELSE 0]
  /\ pc = "idle"
  /\ visible = TRUE
  /\ cursor_start = BiosCursorStart
  /\ blinked = FALSE

Next ==
  \/ /\ \/ \E ch \in Chars \cup {"backspace", "newline"} : PutChar(ch)
        \/ Clear
        \/ sync_cursor
        \/ set_cursor_visible
     /\ UNCHANGED g_ticks
  \/ irq0_handler

Spec == Init /\ [][Next]_vars

\* The PIT never stops ticking.
FairSpec == Spec /\ WF_vars(irq0_handler)

-----------------------------------------------------------------------------

Labels == {"idle", "clear_blink", "sync_cursor", "low_data", "high",
           "high_data", "argument", "set_cursor_visible", "read_start",
           "start_again", "write_start"}
Bytes == 0 .. 255

TypeOK ==
  /\ screen \in Screens
  /\ cursor_visible \in BOOLEAN /\ visible \in BOOLEAN /\ blinked \in BOOLEAN
  /\ last_blink_tick \in 0 .. WORD - 1 /\ g_ticks \in 0 .. WORD - 1
  /\ crt_index \in Registers
  /\ crt \in [Registers -> Bytes]
  /\ pc \in Labels
  /\ cursor_start \in Bytes

\* Nothing is left on the screen from the cursor on: what is typed next never
\* lands among old text, whatever was written, scrolled and taken back before
\* (vga_buffer.cpp:26-46 and 111-148).
NothingAfterCursor ==
  \A i \in Cells : i >= Position(screen) => screen.buffer[i] = Blank

Location == crt["high"] * BYTE + crt["low"]

\* The cursor is where the text goes, and is shown when the driver means it to
\* be, between two calls.
CursorSynced == pc = "idle" => /\ Location = Position(screen)
                               /\ Hidden(crt["start"]) = ~cursor_visible

\* "Hardware cursor sync and blink driven by timer ticks" (README.md:64): only a
\* blink during a call, between the index and the data of a port or after
\* sync_cursor has read cursor_visible, can leave the cursor in a wrong place or
\* state, and the next call that no blink disturbs puts both right
\* (vga_buffer.cpp:70-99).
DisturbedOnlyByBlink == ~blinked => CursorSynced

\* The cursor goes on blinking, when g_ticks wraps too (vga_buffer.cpp:103).
BlinksForever == []<>cursor_visible /\ []<>~cursor_visible
=============================================================================
