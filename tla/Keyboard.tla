------------------------------- MODULE Keyboard -------------------------------
(***************************************************************************)
(* Keyboard input: the scancode handler and ring buffer of                 *)
(* src/modules/keyboard/keyboard.cpp, the IRQ handlers that call it, and   *)
(* keyboard_getchar, which the shell loop runs in the foreground with      *)
(* interrupts enabled.                                                     *)
(*                                                                         *)
(* An interrupt handler runs to its end with interrupts disabled (its gate *)
(* is an interrupt gate), so it is one action; keyboard_getchar is cut     *)
(* where an interrupt may come between two steps that both matter.  Bytes  *)
(* are the numbers of scancode set 1.  A character is the pair of the code *)
(* of its key and whether it is the shifted one; the character 0 of the    *)
(* two key maps is NoChar.                                                 *)
(***************************************************************************)
EXTENDS Integers, Sequences, FiniteSets

CONSTANTS
  BUFFER_SIZE,    \* slots of key_buffer
  Keys,           \* physical keys: [code |-> ..., ext |-> has an 0xE0 prefix]
  MAX_PENDING     \* bound: key events the keyboard holds back

ASSUME KeyboardAssumption ==
  /\ BUFFER_SIZE \in Nat \ {0}
  /\ MAX_PENDING \in Nat
  /\ Keys \subseteq [code: (1 .. 127) \ {96, 97}, ext: BOOLEAN]

VARIABLES
  key_buffer, buf_head, buf_tail, shift_pressed, extended_scancode,
  pc,           \* where keyboard_getchar, or its caller, is
  c,            \* pop_char's local
  returned,     \* the last character keyboard_getchar returned
  in_service,   \* interrupt lines accepted by the PIC and not yet ended
  down,         \* keys that are physically down
  pending,      \* key events whose bytes have not all been read
  prefix_sent,  \* the 0xE0 of the first of them was read
  held          \* keys down as far as the bytes read so far tell

bufferVars == <<key_buffer, buf_head, buf_tail>>
readerVars == <<pc, c, returned>>
deviceVars == <<down, pending, prefix_sent, held>>
vars == <<bufferVars, shift_pressed, extended_scancode, readerVars, in_service,
          deviceVars>>

-----------------------------------------------------------------------------

Slots == 0 .. BUFFER_SIZE - 1

\* The codes keymap and keymap_shift hold 0 for, and those both maps agree on.
Unmapped == {0, 29, 42, 54, 56} \cup (58 .. 127)
Unshifted == {1, 14, 15, 28, 55, 57}

NoChar == <<0, FALSE>>
Chars == (0 .. 127) \X BOOLEAN

keymap == [s \in 0 .. 127 |-> IF s \in Unmapped THEN NoChar ELSE <<s, FALSE>>]
keymap_shift == [s \in 0 .. 127 |-> IF s \in Unmapped THEN NoChar
                                    ELSE <<s, s \notin Unshifted>>]

after(i) == (i + 1) % BUFFER_SIZE

\* Wrong variant: no slot is kept empty.
push_char_NoFullCheck(ch) ==
  /\ key_buffer' = [key_buffer EXCEPT ![buf_tail] = ch]
  /\ buf_tail' = after(buf_tail)
  /\ UNCHANGED buf_head

\* Wrong variant: a character that finds the buffer full pushes out the oldest.
push_char_DropOldest(ch) ==
  /\ key_buffer' = [key_buffer EXCEPT ![buf_tail] = ch]
  /\ buf_tail' = after(buf_tail)
  /\ buf_head' = IF after(buf_tail) = buf_head THEN after(buf_head) ELSE buf_head

\* A character that finds the buffer full is dropped.
push_char(ch) ==
  IF after(buf_tail) = buf_head
  THEN UNCHANGED bufferVars
  ELSE /\ key_buffer' = [key_buffer EXCEPT ![buf_tail] = ch]
       /\ buf_tail' = after(buf_tail)
       /\ UNCHANGED buf_head

\* Wrong variant: a shift code counts after an 0xE0 too.
keyboard_handle_scancode_ShiftFirst(scancode) ==
  IF scancode = 224
  THEN /\ extended_scancode' = TRUE
       /\ UNCHANGED <<bufferVars, shift_pressed>>
  ELSE IF scancode \in {42, 54, 170, 182}
  THEN /\ shift_pressed' = (scancode < 128)
       /\ UNCHANGED <<bufferVars, extended_scancode>>
  ELSE IF extended_scancode
  THEN /\ extended_scancode' = FALSE
       /\ UNCHANGED <<bufferVars, shift_pressed>>
  ELSE IF scancode >= 128
  THEN UNCHANGED <<bufferVars, shift_pressed, extended_scancode>>
  ELSE LET ch == IF shift_pressed THEN keymap_shift[scancode] ELSE keymap[scancode]
       IN  /\ IF ch = NoChar THEN UNCHANGED bufferVars ELSE push_char(ch)
           /\ UNCHANGED <<shift_pressed, extended_scancode>>

keyboard_handle_scancode(scancode) ==
  IF scancode = 224                                    \* 0xE0
  THEN /\ extended_scancode' = TRUE
       /\ UNCHANGED <<bufferVars, shift_pressed>>
  ELSE IF extended_scancode
  THEN /\ extended_scancode' = FALSE
       /\ UNCHANGED <<bufferVars, shift_pressed>>
  ELSE IF scancode \in {42, 54, 170, 182}              \* shift down, shift up
  THEN /\ shift_pressed' = (scancode < 128)
       /\ UNCHANGED <<bufferVars, extended_scancode>>
  ELSE IF scancode >= 128
  THEN UNCHANGED <<bufferVars, shift_pressed, extended_scancode>>
  ELSE LET ch == IF shift_pressed THEN keymap_shift[scancode] ELSE keymap[scancode]
       IN  /\ IF ch = NoChar THEN UNCHANGED bufferVars ELSE push_char(ch)
           /\ UNCHANGED <<shift_pressed, extended_scancode>>

-----------------------------------------------------------------------------

(* The keyboard and its controller (not in src/). *)

\* A key goes down, or repeats while it is down.
Press(key) ==
  /\ Len(pending) < MAX_PENDING
  /\ down' = down \cup {key}
  /\ pending' = Append(pending, [key |-> key, down |-> TRUE])
  /\ UNCHANGED <<bufferVars, shift_pressed, extended_scancode, readerVars,
                 in_service, prefix_sent, held>>

Release(key) ==
  /\ Len(pending) < MAX_PENDING
  /\ key \in down
  /\ down' = down \ {key}
  /\ pending' = Append(pending, [key |-> key, down |-> FALSE])
  /\ UNCHANGED <<bufferVars, shift_pressed, extended_scancode, readerVars,
                 in_service, prefix_sent, held>>

\* The next byte to be read from port 0x60 ...
NextByte ==
  LET event == Head(pending) IN
  IF event.key.ext /\ ~prefix_sent THEN 224
  ELSE event.key.code + (IF event.down THEN 0 ELSE 128)

\* ... and what reading it does to the keyboard's side.
ReadByte ==
  LET event == Head(pending) IN
  IF event.key.ext /\ ~prefix_sent
  THEN /\ prefix_sent' = TRUE
       /\ UNCHANGED <<down, pending, held>>
  ELSE /\ prefix_sent' = FALSE
       /\ pending' = Tail(pending)
       /\ held' = IF event.down THEN held \cup {event.key}
                                ELSE held \ {event.key}
       /\ UNCHANGED down

-----------------------------------------------------------------------------

\* Wrong variant: the timer line stays masked.
UnmaskedLines_NoTimer == {1}

\* The mask pic_remap writes to the master PIC is 0xFC.
UnmaskedLines == {0, 1}

\* A line is accepted when no line of its priority or above is in service.
Accepted(line) == line \in UnmaskedLines /\ \A l \in in_service : line < l

\* The interrupt returns; a processor that was halted goes on after its hlt.
Resume == pc' = IF pc = "halted" THEN "check" ELSE pc

\* Wrong variant: the end of the interrupt is not signalled.
EndOfInterrupt_Missing(lines) == lines

\* PIC_EOI ends the line of the highest priority.
EndOfInterrupt(lines) == {l \in lines : \E k \in lines : k < l}

\* The tick counter and the cursor's blinking are in Cursor.tla; no task
\* exists, so tasking_schedule returns to the code that was interrupted.
irq0_handler ==
  /\ Accepted(0)
  /\ in_service' = EndOfInterrupt(in_service \cup {0})
  /\ Resume
  /\ UNCHANGED <<bufferVars, shift_pressed, extended_scancode, c, returned,
                 deviceVars>>

irq1_handler ==
  /\ pending # << >>
  /\ Accepted(1)
  /\ ReadByte
  /\ keyboard_handle_scancode(NextByte)
  /\ in_service' = EndOfInterrupt(in_service \cup {1})
  /\ Resume
  /\ UNCHANGED <<c, returned>>

-----------------------------------------------------------------------------

keyboard_available == buf_head # buf_tail

\* The shell loop has dealt with the last character.
Call ==
  /\ pc = "caller"
  /\ pc' = "check"
  /\ UNCHANGED <<c, returned, buf_head>>

Check ==
  /\ pc = "check"
  /\ pc' = IF keyboard_available THEN "read" ELSE "hlt"
  /\ UNCHANGED <<c, returned, buf_head>>

Halt ==
  /\ pc = "hlt"
  /\ pc' = "halted"
  /\ UNCHANGED <<c, returned, buf_head>>

\* pop_char reads the character, ...
ReadChar ==
  /\ pc = "read"
  /\ pc' = "advance"
  /\ c' = key_buffer[buf_head]
  /\ UNCHANGED <<returned, buf_head>>

\* ... and then gives its slot back.
Advance ==
  /\ pc = "advance"
  /\ pc' = "caller"
  /\ buf_head' = after(buf_head)
  /\ returned' = c
  /\ UNCHANGED c

keyboard_getchar ==
  /\ Call \/ Check \/ Halt \/ ReadChar \/ Advance
  /\ UNCHANGED <<key_buffer, buf_tail, shift_pressed, extended_scancode,
                 in_service, deviceVars>>

\* keyboard_init, with every key up.
Init ==
  /\ key_buffer = [i \in Slots |-> NoChar]
  /\ buf_head = 0 /\ buf_tail = 0
  /\ shift_pressed = FALSE /\ extended_scancode = FALSE
  /\ pc = "caller" /\ c = NoChar /\ returned = NoChar
  /\ in_service = {}
  /\ down = {} /\ pending = << >> /\ prefix_sent = FALSE /\ held = {}

Next ==
  \/ \E key \in Keys : Press(key) \/ Release(key)
  \/ irq0_handler
  \/ irq1_handler
  \/ keyboard_getchar

\* The processor executes the foreground whenever it is not halted, the PIT
\* never stops ticking, and the controller keeps its line raised while a byte
\* waits.
Fairness ==
  /\ WF_vars(keyboard_getchar)
  /\ WF_vars(irq0_handler)
  /\ WF_vars(irq1_handler)

Spec == Init /\ [][Next]_vars
FairSpec == Spec /\ Fairness

-----------------------------------------------------------------------------

KeyEvents == [key: Keys, down: BOOLEAN]

TypeOK ==
  /\ key_buffer \in [Slots -> Chars]
  /\ buf_head \in Slots /\ buf_tail \in Slots
  /\ shift_pressed \in BOOLEAN /\ extended_scancode \in BOOLEAN
  /\ pc \in {"caller", "check", "hlt", "halted", "read", "advance"}
  /\ c \in Chars /\ returned \in Chars
  /\ in_service = {}
  /\ down \in SUBSET Keys /\ held \in SUBSET Keys
  /\ pending \in Seq(KeyEvents)
  /\ prefix_sent \in BOOLEAN

\* The characters in the buffer, the oldest first.
Buffered == (buf_tail - buf_head + BUFFER_SIZE) % BUFFER_SIZE
Waiting ==
  [i \in 1 .. Buffered |-> key_buffer[(buf_head + i - 1) % BUFFER_SIZE]]

\* keyboard_getchar never takes a character from an empty buffer, and the
\* character it has read is still the oldest when it gives the slot back,
\* whatever interrupts push meanwhile (keyboard.cpp:145-146).
TakenIsOldest ==
  /\ pc \in {"read", "advance"} => buf_head # buf_tail
  /\ pc = "advance" => c = key_buffer[buf_head]

ShiftKeys == {key \in Keys : ~key.ext /\ key.code \in {42, 54}}

\* In whatever order shift keys, with a prefix or without, go down, repeat and
\* come up: no character is taken for the shifted one once every shift key is
\* up again (keyboard.cpp:158-182).
ShiftNeverStuck == shift_pressed => held \cap ShiftKeys # {}

\* The flag of an 0xE0 prefix and the prefix go together, so that no key is
\* taken for its extended namesake, nor the other way round.
PrefixTracked == extended_scancode = prefix_sent

\* Seen from the shell, key events and keyboard_getchar are one atomic step
\* each on a queue of the characters typed (keyboard.cpp:133-203).
Promise == INSTANCE TypeAhead WITH
  PlainChar   <- [key \in Keys |-> IF key.ext THEN NoChar ELSE keymap[key.code]],
  ShiftedChar <- [key \in Keys |-> IF key.ext THEN NoChar
                                   ELSE keymap_shift[key.code]],
  None        <- NoChar,
  Capacity    <- BUFFER_SIZE - 1,
  shift       <- shift_pressed,
  waiting     <- Waiting,
  delivered   <- returned

ImplementsTypeAhead == Promise!TypeAheadSpec

\* A waiting character is taken, although the processor may halt after a key
\* arrived unseen between keyboard_available and hlt (keyboard.cpp:199-200):
\* the next timer interrupt wakes it.
WaitingIsTaken == keyboard_available ~> pc = "advance"

\* The keyboard gets rid of the events it holds back.
EventsAreHeard == Len(pending) = MAX_PENDING ~> Len(pending) < MAX_PENDING
=============================================================================
