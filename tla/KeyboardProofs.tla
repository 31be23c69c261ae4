---------------------------- MODULE KeyboardProofs ----------------------------
(***************************************************************************)
(* Proofs about Keyboard, for every size of the buffer and every set of    *)
(* keys.                                                                   *)
(***************************************************************************)
EXTENDS Keyboard, SequenceTheorems, TLAPS

\* The slot after a slot.
LEMMA AfterSlot ==
  ASSUME NEW i \in Slots
  PROVE  /\ after(i) \in Slots
         /\ after(i) = IF i + 1 = BUFFER_SIZE THEN 0 ELSE i + 1
BY KeyboardAssumption DEF Slots, after

\* How many characters wait, and the slot of the k-th of them.
LEMMA BufferedCount ==
  ASSUME buf_head \in Slots, buf_tail \in Slots
  PROVE  /\ Buffered \in 0 .. BUFFER_SIZE - 1
         /\ Buffered = IF buf_head <= buf_tail
                       THEN buf_tail - buf_head
                       ELSE buf_tail - buf_head + BUFFER_SIZE
BY KeyboardAssumption DEF Slots, Buffered

LEMMA WaitingSlot ==
  ASSUME NEW h \in Slots, NEW k \in 1 .. BUFFER_SIZE
  PROVE  /\ (h + k - 1) % BUFFER_SIZE \in Slots
         /\ (h + k - 1) % BUFFER_SIZE =
              IF h + k - 1 < BUFFER_SIZE THEN h + k - 1 ELSE h + k - 1 - BUFFER_SIZE
BY KeyboardAssumption DEF Slots

\* The PIC has nothing in service between two interrupts.
LEMMA NothingInService ==
  ASSUME NEW line \in {0, 1}
  PROVE  EndOfInterrupt({} \cup {line}) = {}
BY DEF EndOfInterrupt

-----------------------------------------------------------------------------

(***************************************************************************)
(* The inductive invariant.  TakenIsOldest needs it for the ring; that the *)
(* two flags agree with the keyboard needs PrefixOwned, since only then    *)
(* the byte after an 0xE0 is the second one of an extended key.            *)
(***************************************************************************)
PrefixOwned == prefix_sent => pending # << >> /\ Head(pending).key.ext

Inv ==
  /\ TypeOK
  /\ TakenIsOldest
  /\ PrefixTracked
  /\ PrefixOwned
  /\ ShiftNeverStuck

\* Both key maps hold characters.
LEMMA NoCharIsChar == NoChar \in Chars
<1>1. 0 \in 0 .. 127 /\ FALSE \in BOOLEAN
  OBVIOUS
<1> QED
  BY <1>1, Zenon DEF NoChar, Chars

LEMMA KeymapChars ==
  /\ keymap \in [0 .. 127 -> Chars]
  /\ keymap_shift \in [0 .. 127 -> Chars]
<1>1. \A s \in 0 .. 127, b \in BOOLEAN : <<s, b>> \in Chars
  BY DEF Chars
<1>2. NoChar \in Chars
  BY NoCharIsChar
<1>3. \A s \in 0 .. 127 : <<s, s \notin Unshifted>> \in Chars
  <2> SUFFICES ASSUME NEW s \in 0 .. 127
               PROVE  <<s, s \notin Unshifted>> \in Chars
    OBVIOUS
  <2>1. (s \notin Unshifted) \in BOOLEAN
    OBVIOUS
  <2> QED
    BY <1>1, <2>1, Zenon
<1> QED
  BY <1>1, <1>2, <1>3 DEF keymap, keymap_shift

LEMMA WaitingIsSeq ==
  ASSUME TypeOK
  PROVE  Waiting \in Seq(Chars) /\ Len(Waiting) = Buffered
<1>1. /\ key_buffer \in [Slots -> Chars] /\ buf_head \in Slots /\ buf_tail \in Slots
      /\ BUFFER_SIZE \in Nat \ {0}
  BY KeyboardAssumption DEF TypeOK
<1>2. Buffered \in 0 .. BUFFER_SIZE - 1
  BY <1>1, BufferedCount
<1>3. ASSUME NEW k \in 1 .. Buffered
      PROVE  key_buffer[(buf_head + k - 1) % BUFFER_SIZE] \in Chars
  BY <1>1, <1>2, WaitingSlot
<1> QED
  BY <1>1, <1>2, <1>3 DEF Waiting

\* Pushing a character into the ring appends it to the waiting ones, unless
\* BUFFER_SIZE - 1 of them wait already, and disturbs none of them.
LEMMA PushAppends ==
  ASSUME TypeOK, NEW ch \in Chars, push_char(ch)
  PROVE  /\ key_buffer' \in [Slots -> Chars]
         /\ buf_tail' \in Slots /\ buf_head' = buf_head
         /\ buf_head # buf_tail =>
              buf_head' # buf_tail' /\ key_buffer'[buf_head] = key_buffer[buf_head]
         /\ Waiting' = IF Buffered >= BUFFER_SIZE - 1 THEN Waiting
                       ELSE Append(Waiting, ch)
<1>1. /\ key_buffer \in [Slots -> Chars] /\ buf_head \in Slots /\ buf_tail \in Slots
      /\ after(buf_tail) \in Slots
      /\ after(buf_tail) = IF buf_tail + 1 = BUFFER_SIZE THEN 0 ELSE buf_tail + 1
      /\ BUFFER_SIZE \in Nat \ {0}
  BY AfterSlot, KeyboardAssumption DEF TypeOK
<1>2. /\ Buffered \in 0 .. BUFFER_SIZE - 1
      /\ Buffered = IF buf_head <= buf_tail THEN buf_tail - buf_head
                    ELSE buf_tail - buf_head + BUFFER_SIZE
  BY <1>1, BufferedCount
<1>3. CASE after(buf_tail) = buf_head
  <2>1. UNCHANGED bufferVars
    BY <1>3 DEF push_char
  <2>2. Buffered >= BUFFER_SIZE - 1
    BY <1>1, <1>2, <1>3 DEF Slots
  <2> QED
    BY <2>1, <2>2, <1>1 DEF bufferVars, Waiting, Buffered
<1>4. CASE after(buf_tail) # buf_head
  <2>1. /\ key_buffer' = [key_buffer EXCEPT ![buf_tail] = ch]
        /\ buf_tail' = after(buf_tail)
        /\ buf_head' = buf_head
    BY <1>4 DEF push_char
  <2>2. ~(Buffered >= BUFFER_SIZE - 1)
    BY <1>1, <1>2, <1>4 DEF Slots
  <2>3. Buffered' = Buffered + 1
    <3>1. /\ Buffered' = IF buf_head' <= buf_tail' THEN buf_tail' - buf_head'
                         ELSE buf_tail' - buf_head' + BUFFER_SIZE
      BY <2>1, <1>1 DEF Buffered, Slots
    <3> QED
      BY <3>1, <2>1, <1>1, <1>2, <1>4 DEF Slots
  <2>4. ASSUME NEW k \in 1 .. Buffered
        PROVE  key_buffer'[(buf_head' + k - 1) % BUFFER_SIZE] =
                 key_buffer[(buf_head + k - 1) % BUFFER_SIZE]
    <3> DEFINE slot == (buf_head + k - 1) % BUFFER_SIZE
    <3>1. /\ slot \in Slots
          /\ slot = IF buf_head + k - 1 < BUFFER_SIZE THEN buf_head + k - 1
                    ELSE buf_head + k - 1 - BUFFER_SIZE
      BY <1>1, <1>2, WaitingSlot
    <3>2. slot # buf_tail
      BY <3>1, <1>1, <1>2 DEF Slots
    <3> HIDE DEF slot
    <3>3. key_buffer'[slot] = key_buffer[slot]
      BY <3>1, <3>2, <2>1, <1>1
    <3> QED
      BY <3>3, <2>1 DEF slot
  <2>5. key_buffer'[(buf_head' + (Buffered + 1) - 1) % BUFFER_SIZE] = ch
    <3>1. (buf_head + (Buffered + 1) - 1) % BUFFER_SIZE = buf_tail
      BY <1>1, <1>2 DEF Slots
    <3> QED
      BY <3>1, <2>1, <1>1
  <2>6. Waiting' = Append(Waiting, ch)
    <3>1. Waiting' = [k \in 1 .. Buffered + 1 |->
                        key_buffer'[(buf_head' + k - 1) % BUFFER_SIZE]]
      BY <2>3 DEF Waiting
    <3>2. Waiting = [k \in 1 .. Buffered |->
                       key_buffer[(buf_head + k - 1) % BUFFER_SIZE]]
      BY DEF Waiting
    <3>3. Append(Waiting, ch) =
            [k \in 1 .. Buffered + 1 |-> IF k = Buffered + 1 THEN ch ELSE Waiting[k]]
      <4>1. Waiting \in Seq(Chars) /\ Len(Waiting) = Buffered
        BY WaitingIsSeq
      <4>2. /\ Append(Waiting, ch) \in [1 .. Buffered + 1 -> Chars]
            /\ \A k \in 1 .. Buffered : Append(Waiting, ch)[k] = Waiting[k]
            /\ Append(Waiting, ch)[Buffered + 1] = ch
        <5>1. /\ Append(Waiting, ch) \in Seq(Chars)
              /\ Len(Append(Waiting, ch)) = Buffered + 1
              /\ \A k \in 1 .. Buffered : Append(Waiting, ch)[k] = Waiting[k]
              /\ Append(Waiting, ch)[Buffered + 1] = ch
          BY <4>1, AppendProperties
        <5> QED
          BY <5>1, LenProperties
      <4>3. \A k \in 1 .. Buffered + 1 :
              Append(Waiting, ch)[k] = IF k = Buffered + 1 THEN ch ELSE Waiting[k]
        BY <4>2, <1>2
      <4> QED
        BY <4>2, <4>3
    <3>4. ASSUME NEW k \in 1 .. Buffered + 1
          PROVE  key_buffer'[(buf_head' + k - 1) % BUFFER_SIZE] =
                   IF k = Buffered + 1 THEN ch ELSE Waiting[k]
      <4>1. CASE k = Buffered + 1
        BY <4>1, <2>5
      <4>2. CASE k # Buffered + 1
        <5>1. k \in 1 .. Buffered
          BY <4>2, <1>2
        <5> QED
          BY <5>1, <4>2, <2>4, <3>2
      <4> QED
        BY <4>1, <4>2
    <3> QED
      BY <3>1, <3>3, <3>4
  <2> QED
    BY <1>1, <1>4, <2>1, <2>2, <2>6
<1> QED
  BY <1>3, <1>4

-----------------------------------------------------------------------------

\* The byte of a key that goes down or up.
LEMMA MakeAndBreak ==
  ASSUME NEW code \in 1 .. 127, code # 96, NEW goesDown \in BOOLEAN,
         NEW byte, byte = code + (IF goesDown THEN 0 ELSE 128)
  PROVE  /\ byte # 224
         /\ goesDown => byte = code /\ byte < 128 /\ ~(byte >= 128)
         /\ ~goesDown => ~(byte < 128) /\ byte >= 128
         /\ code \in {42, 54} <=> byte \in {42, 54, 170, 182}
<1>1. CASE goesDown
  BY <1>1
<1>2. CASE ~goesDown
  BY <1>2
<1> QED
  BY <1>1, <1>2

\* What one run of irq1_handler does, told apart by the event whose byte it
\* reads: the handler's comparisons of bytes come to this because no key has a
\* code that would make a byte of its own 0xE0.
LEMMA ByteHandled ==
  ASSUME Inv, pending # << >>, ReadByte, keyboard_handle_scancode(NextByte),
         NEW event, event = Head(pending),
         NEW key, key = event.key
  PROVE  /\ event \in KeyEvents /\ key \in Keys
         /\ key.ext /\ ~prefix_sent =>
              /\ prefix_sent' = TRUE /\ extended_scancode' = TRUE
              /\ UNCHANGED <<bufferVars, shift_pressed, down, pending, held>>
         /\ ~(key.ext /\ ~prefix_sent) =>
              /\ prefix_sent' = FALSE /\ extended_scancode' = FALSE
              /\ pending' = Tail(pending)
              /\ held' = IF event.down THEN held \cup {key} ELSE held \ {key}
              /\ UNCHANGED down
         /\ key.ext /\ prefix_sent => UNCHANGED <<bufferVars, shift_pressed>>
         /\ key \in ShiftKeys =>
              shift_pressed' = event.down /\ UNCHANGED bufferVars
         /\ ~key.ext /\ key \notin ShiftKeys =>
              /\ UNCHANGED shift_pressed
              /\ ~event.down => UNCHANGED bufferVars
              /\ event.down =>
                   LET ch == IF shift_pressed THEN keymap_shift[key.code]
                                              ELSE keymap[key.code]
                   IN  IF ch = NoChar THEN UNCHANGED bufferVars ELSE push_char(ch)
<1>1. event \in KeyEvents
  BY HeadTailProperties DEF Inv, TypeOK
<1>2. key \in Keys /\ event.down \in BOOLEAN
  BY <1>1 DEF KeyEvents
<1>3. key.code \in 1 .. 127 /\ key.code # 96 /\ key.ext \in BOOLEAN
  BY <1>2, KeyboardAssumption
<1>4. extended_scancode = prefix_sent /\ prefix_sent \in BOOLEAN
  BY DEF Inv, TypeOK, PrefixTracked
<1>5. prefix_sent => key.ext
  BY DEF Inv, PrefixOwned
<1>6. CASE key.ext /\ ~prefix_sent
  <2>1. NextByte = 224
    BY <1>6 DEF NextByte
  <2>2. /\ extended_scancode' = TRUE
        /\ UNCHANGED <<bufferVars, shift_pressed>>
    BY <2>1 DEF keyboard_handle_scancode
  <2>3. prefix_sent' = TRUE /\ UNCHANGED <<down, pending, held>>
    BY <1>6 DEF ReadByte
  <2>4. key \notin ShiftKeys
    BY <1>6 DEF ShiftKeys
  <2> QED
    BY <1>1, <1>2, <1>6, <2>2, <2>3, <2>4
<1>7. CASE ~(key.ext /\ ~prefix_sent)
  <2>1. NextByte = key.code + (IF event.down THEN 0 ELSE 128)
    BY <1>7 DEF NextByte
  <2>2. /\ NextByte # 224
        /\ event.down => NextByte = key.code /\ NextByte < 128 /\ ~(NextByte >= 128)
        /\ ~event.down => ~(NextByte < 128) /\ NextByte >= 128
        /\ key.code \in {42, 54} <=> NextByte \in {42, 54, 170, 182}
    <3> DEFINE code == key.code
               goesDown == event.down
               byte == NextByte
    <3>1. /\ code \in 1 .. 127 /\ code # 96 /\ goesDown \in BOOLEAN
          /\ byte = code + (IF goesDown THEN 0 ELSE 128)
      BY <2>1, <1>2, <1>3
    <3> HIDE DEF code, goesDown, byte
    <3>2. /\ byte # 224
          /\ goesDown => byte = code /\ byte < 128 /\ ~(byte >= 128)
          /\ ~goesDown => ~(byte < 128) /\ byte >= 128
          /\ code \in {42, 54} <=> byte \in {42, 54, 170, 182}
      BY <3>1, MakeAndBreak
    <3> QED
      BY <3>2 DEF code, goesDown, byte
  <2>3. /\ prefix_sent' = FALSE /\ pending' = Tail(pending)
        /\ held' = IF event.down THEN held \cup {key} ELSE held \ {key}
        /\ UNCHANGED down
    BY <1>7 DEF ReadByte
  <2>4. CASE prefix_sent
    <3>1. extended_scancode' = FALSE /\ UNCHANGED <<bufferVars, shift_pressed>>
      BY <2>2, <2>4, <1>4 DEF keyboard_handle_scancode
    <3>2. key \notin ShiftKeys
      BY <2>4, <1>5 DEF ShiftKeys
    <3> QED
      BY <1>1, <1>2, <1>5, <1>7, <2>3, <2>4, <3>1, <3>2
  <2>5. CASE ~prefix_sent
    <3>1. ~key.ext /\ ~extended_scancode
      BY <2>5, <1>7, <1>4
    <3>2. key \in ShiftKeys <=> NextByte \in {42, 54, 170, 182}
      BY <3>1, <1>2, <2>2 DEF ShiftKeys
    <3>3. CASE key \in ShiftKeys
      <4>1. /\ shift_pressed' = (NextByte < 128)
            /\ UNCHANGED <<bufferVars, extended_scancode>>
        BY <3>1, <3>2, <3>3, <2>2 DEF keyboard_handle_scancode
      <4>2. shift_pressed' = event.down
        BY <4>1, <2>2, <1>2
      <4> QED
        BY <1>1, <1>2, <1>4, <2>3, <2>5, <3>1, <3>3, <4>1, <4>2
    <3>4. CASE key \notin ShiftKeys /\ ~event.down
      <4>1. UNCHANGED <<bufferVars, shift_pressed, extended_scancode>>
        BY <3>1, <3>2, <3>4, <2>2 DEF keyboard_handle_scancode
      <4> QED
        BY <1>1, <1>2, <1>4, <2>3, <2>5, <3>1, <3>4, <4>1
    <3>5. CASE key \notin ShiftKeys /\ event.down
      <4>1. NextByte = key.code /\ ~(NextByte >= 128)
        BY <2>2, <3>5
      <4>2. LET ch == IF shift_pressed THEN keymap_shift[NextByte] ELSE keymap[NextByte]
            IN  /\ IF ch = NoChar THEN UNCHANGED bufferVars ELSE push_char(ch)
                /\ UNCHANGED <<shift_pressed, extended_scancode>>
        BY <3>1, <3>2, <3>5, <2>2, <4>1 DEF keyboard_handle_scancode
      <4>3. LET ch == IF shift_pressed THEN keymap_shift[key.code] ELSE keymap[key.code]
            IN  /\ IF ch = NoChar THEN UNCHANGED bufferVars ELSE push_char(ch)
                /\ UNCHANGED <<shift_pressed, extended_scancode>>
        BY <4>1, <4>2
      <4>4. UNCHANGED <<shift_pressed, extended_scancode>>
        BY <4>3
      <4> QED
        BY <1>1, <1>2, <1>4, <2>3, <2>5, <3>1, <3>5, <4>3, <4>4
    <3> QED
      BY <3>3, <3>4, <3>5
  <2> QED
    BY <2>4, <2>5
<1> QED
  BY <1>6, <1>7

-----------------------------------------------------------------------------

LEMMA InitInv == Init => Inv
<1> SUFFICES ASSUME Init PROVE Inv
  OBVIOUS
<1>1. NoChar \in Chars
  BY NoCharIsChar
<1>2. /\ key_buffer \in [Slots -> Chars]
      /\ buf_head \in Slots /\ buf_tail \in Slots
  BY <1>1, KeyboardAssumption DEF Init, Slots
<1>3. TypeOK
  BY <1>1, <1>2 DEF Init, TypeOK
<1>4. /\ TakenIsOldest /\ PrefixTracked /\ PrefixOwned
      /\ ShiftNeverStuck
  BY DEF Init, TakenIsOldest, PrefixTracked, PrefixOwned, ShiftNeverStuck
<1> QED
  BY <1>3, <1>4 DEF Inv

\* An event is added at the end, so the one whose prefix was read stays first.
LEMMA EventQueued ==
  ASSUME Inv, NEW key \in Keys, Press(key) \/ Release(key)
  PROVE  Inv'
<1>1. /\ UNCHANGED <<bufferVars, shift_pressed, extended_scancode, readerVars,
                     in_service, prefix_sent, held>>
      /\ down' \in SUBSET Keys
      /\ \E event \in KeyEvents : pending' = Append(pending, event)
  BY DEF Inv, TypeOK, Press, Release, KeyEvents
<1>2. PICK event \in KeyEvents : pending' = Append(pending, event)
  BY <1>1
<1>3. pending \in Seq(KeyEvents)
  BY DEF Inv, TypeOK
<1>4. /\ pending' \in Seq(KeyEvents)
      /\ pending # << >> => pending' # << >> /\ Head(pending') = Head(pending)
  BY <1>2, <1>3
<1>5. TypeOK'
  BY <1>1, <1>4 DEF Inv, TypeOK, bufferVars, readerVars
<1>6. /\ TakenIsOldest' /\ PrefixTracked'
      /\ ShiftNeverStuck'
  BY <1>1 DEF Inv, TakenIsOldest, PrefixTracked, ShiftNeverStuck,
              bufferVars, readerVars
<1>7. PrefixOwned'
  BY <1>1, <1>4 DEF Inv, PrefixOwned
<1> QED
  BY <1>5, <1>6, <1>7 DEF Inv

LEMMA TimerInv ==
  ASSUME Inv, irq0_handler
  PROVE  Inv'
<1>1. in_service' = {}
  BY NothingInService DEF Inv, TypeOK, irq0_handler
<1>2. /\ UNCHANGED <<bufferVars, shift_pressed, extended_scancode, c, returned,
                     deviceVars>>
      /\ pc' = IF pc = "halted" THEN "check" ELSE pc
  BY DEF irq0_handler, Resume
<1>3. TypeOK'
  BY <1>1, <1>2 DEF Inv, TypeOK, bufferVars, deviceVars
<1>4. TakenIsOldest'
  BY <1>2 DEF Inv, TakenIsOldest, bufferVars
<1>5. /\ PrefixTracked' /\ PrefixOwned'
      /\ ShiftNeverStuck'
  BY <1>2 DEF Inv, PrefixTracked, PrefixOwned, ShiftNeverStuck, deviceVars
<1> QED
  BY <1>3, <1>4, <1>5 DEF Inv

LEMMA GetcharInv ==
  ASSUME Inv, keyboard_getchar
  PROVE  Inv'
<1>1. /\ UNCHANGED <<key_buffer, buf_tail, shift_pressed, extended_scancode,
                     in_service, deviceVars>>
  BY DEF keyboard_getchar
<1>2. /\ PrefixTracked' /\ PrefixOwned'
      /\ ShiftNeverStuck'
  BY <1>1 DEF Inv, PrefixTracked, PrefixOwned, ShiftNeverStuck, deviceVars
<1>3. /\ key_buffer \in [Slots -> Chars] /\ buf_head \in Slots
      /\ key_buffer[buf_head] \in Chars /\ c \in Chars /\ after(buf_head) \in Slots
  BY AfterSlot DEF Inv, TypeOK
<1>4. TypeOK'
  <2>1. CASE Call \/ Check \/ Halt
    BY <2>1, <1>1 DEF Inv, TypeOK, Call, Check, Halt, deviceVars
  <2>2. CASE ReadChar
    BY <2>2, <1>1, <1>3 DEF Inv, TypeOK, ReadChar, deviceVars
  <2>3. CASE Advance
    BY <2>3, <1>1, <1>3 DEF Inv, TypeOK, Advance, deviceVars
  <2> QED
    BY <2>1, <2>2, <2>3 DEF keyboard_getchar
<1>5. TakenIsOldest'
  <2>1. CASE Call
    BY <2>1 DEF Call, TakenIsOldest
  <2>2. CASE Check
    BY <2>2, <1>1 DEF Check, TakenIsOldest, keyboard_available
  <2>3. CASE Halt
    BY <2>3 DEF Halt, TakenIsOldest
  <2>4. CASE ReadChar
    BY <2>4, <1>1 DEF Inv, ReadChar, TakenIsOldest
  <2>5. CASE Advance
    BY <2>5 DEF Advance, TakenIsOldest
  <2> QED
    BY <2>1, <2>2, <2>3, <2>4, <2>5 DEF keyboard_getchar
<1> QED
  BY <1>2, <1>4, <1>5 DEF Inv

\* What the scancode handler leaves of the ring, and of the character that
\* pop_char has read.
LEMMA RingAfterByte ==
  ASSUME Inv, pending # << >>, ReadByte, keyboard_handle_scancode(NextByte)
  PROVE  /\ key_buffer' \in [Slots -> Chars]
         /\ buf_tail' \in Slots /\ buf_head' = buf_head
         /\ buf_head # buf_tail =>
              buf_head' # buf_tail' /\ key_buffer'[buf_head] = key_buffer[buf_head]
<1>1. TypeOK
  BY DEF Inv
<1>2. CASE UNCHANGED bufferVars
  BY <1>1, <1>2 DEF TypeOK, bufferVars
<1>3. CASE \E ch \in Chars : push_char(ch)
  BY <1>1, <1>3, PushAppends
<1>4. UNCHANGED bufferVars \/ \E ch \in Chars : push_char(ch)
  <2> DEFINE event == Head(pending)
             key == event.key
             ch == IF shift_pressed THEN keymap_shift[key.code] ELSE keymap[key.code]
  <2>1. /\ key \in Keys
        /\ key.ext => UNCHANGED bufferVars
        /\ key \in ShiftKeys => UNCHANGED bufferVars
        /\ ~key.ext /\ key \notin ShiftKeys =>
             UNCHANGED bufferVars \/ push_char(ch)
    BY ByteHandled
  <2>2. key.code \in 0 .. 127
    BY <2>1, KeyboardAssumption
  <2>3. ch \in Chars
    BY <2>2, KeymapChars
  <2> HIDE DEF event, key, ch
  <2> QED
    BY <2>1, <2>3
<1> QED
  BY <1>2, <1>3, <1>4

LEMMA KeyboardInterruptInv ==
  ASSUME Inv, irq1_handler
  PROVE  Inv'
<1>1. /\ pending # << >> /\ ReadByte /\ keyboard_handle_scancode(NextByte)
      /\ UNCHANGED <<c, returned>>
      /\ pc' = IF pc = "halted" THEN "check" ELSE pc
  BY DEF irq1_handler, Resume
<1>2. in_service' = {}
  BY NothingInService DEF Inv, TypeOK, irq1_handler
<1>3. /\ key_buffer' \in [Slots -> Chars]
      /\ buf_tail' \in Slots /\ buf_head' = buf_head
      /\ buf_head # buf_tail =>
           buf_head' # buf_tail' /\ key_buffer'[buf_head] = key_buffer[buf_head]
  BY <1>1, RingAfterByte
<1> DEFINE event == Head(pending)
           key == event.key
<1>4. /\ event \in KeyEvents /\ key \in Keys
      /\ key.ext /\ ~prefix_sent =>
           /\ prefix_sent' = TRUE /\ extended_scancode' = TRUE
           /\ UNCHANGED <<shift_pressed, down, pending, held>>
      /\ ~(key.ext /\ ~prefix_sent) =>
           /\ prefix_sent' = FALSE /\ extended_scancode' = FALSE
           /\ pending' = Tail(pending)
           /\ held' = IF event.down THEN held \cup {key} ELSE held \ {key}
           /\ UNCHANGED down
      /\ key.ext /\ prefix_sent => UNCHANGED shift_pressed
      /\ key \in ShiftKeys => shift_pressed' = event.down
      /\ ~key.ext /\ key \notin ShiftKeys => UNCHANGED shift_pressed
  BY <1>1, ByteHandled
<1>5. /\ event.down \in BOOLEAN /\ key.ext \in BOOLEAN
      /\ key \in ShiftKeys => ~key.ext
      /\ prefix_sent \in BOOLEAN /\ shift_pressed \in BOOLEAN
      /\ extended_scancode \in BOOLEAN
      /\ down \in SUBSET Keys /\ held \in SUBSET Keys /\ pending \in Seq(KeyEvents)
  BY <1>4, KeyboardAssumption DEF Inv, TypeOK, KeyEvents, ShiftKeys
<1>6. Tail(pending) \in Seq(KeyEvents)
  BY <1>1, <1>5, HeadTailProperties
<1>7. PrefixOwned'
  <2>1. CASE key.ext /\ ~prefix_sent
    BY <1>1, <1>4, <2>1 DEF PrefixOwned
  <2>2. CASE ~(key.ext /\ ~prefix_sent)
    BY <1>4, <2>2 DEF PrefixOwned
  <2> QED
    BY <2>1, <2>2
<1> HIDE DEF event, key
<1>8. TypeOK'
  <2>1. /\ shift_pressed' \in BOOLEAN /\ extended_scancode' \in BOOLEAN
        /\ prefix_sent' \in BOOLEAN
    BY <1>4, <1>5
  <2>2. /\ pending' \in Seq(KeyEvents)
        /\ down' \in SUBSET Keys /\ held' \in SUBSET Keys
    BY <1>4, <1>5, <1>6
  <2> QED
    BY <1>1, <1>2, <1>3, <2>1, <2>2 DEF Inv, TypeOK
<1>9. TakenIsOldest'
  BY <1>1, <1>3 DEF Inv, TakenIsOldest
<1>10. PrefixTracked'
  <2>1. CASE key.ext /\ ~prefix_sent
    <3>1. prefix_sent' = TRUE /\ extended_scancode' = TRUE
      BY <1>4, <2>1
    <3> QED
      BY <3>1 DEF PrefixTracked
  <2>2. CASE ~(key.ext /\ ~prefix_sent)
    <3>1. prefix_sent' = FALSE /\ extended_scancode' = FALSE
      BY <1>4, <2>2
    <3> QED
      BY <3>1 DEF PrefixTracked
  <2> QED
    BY <2>1, <2>2
<1>11. ShiftNeverStuck'
  <2>1. shift_pressed => held \cap ShiftKeys # {}
    BY DEF Inv, ShiftNeverStuck
  <2>2. CASE key \in ShiftKeys
    <3>1. /\ held' = IF event.down THEN held \cup {key} ELSE held \ {key}
          /\ shift_pressed' = event.down
      BY <2>2, <1>4, <1>5
    <3> QED
      BY <2>2, <3>1 DEF ShiftNeverStuck, ShiftKeys
  <2>3. CASE key \notin ShiftKeys
    <3>1. shift_pressed' = shift_pressed
      BY <2>3, <1>4, <1>5
    <3>2. held' \cap ShiftKeys = held \cap ShiftKeys
      BY <2>3, <1>4
    <3> QED
      BY <3>1, <3>2, <2>1 DEF ShiftNeverStuck, ShiftKeys
  <2> QED
    BY <2>2, <2>3
<1> QED
  BY <1>7, <1>8, <1>9, <1>10, <1>11 DEF Inv

LEMMA NextInv ==
  ASSUME Inv, [Next]_vars
  PROVE  Inv'
<1>1. CASE \E key \in Keys : Press(key) \/ Release(key)
  BY <1>1, EventQueued
<1>2. CASE irq0_handler
  BY <1>2, TimerInv
<1>3. CASE irq1_handler
  BY <1>3, KeyboardInterruptInv
<1>4. CASE keyboard_getchar
  BY <1>4, GetcharInv
<1>5. CASE UNCHANGED vars
  BY <1>5 DEF vars, bufferVars, readerVars, deviceVars, Inv, TypeOK,
              TakenIsOldest, PrefixTracked, PrefixOwned, ShiftNeverStuck
<1> QED
  BY <1>1, <1>2, <1>3, <1>4, <1>5 DEF Next

LEMMA InvHolds == Spec => []Inv
BY InitInv, NextInv, PTL DEF Spec

-----------------------------------------------------------------------------

\* The ring's indices stay inside key_buffer and every slot holds a character,
\* and no interrupt line is left in service, whatever keys do.
THEOREM TypesCorrect == Spec => []TypeOK
<1>1. Inv => TypeOK
  BY DEF Inv
<1> QED
  BY <1>1, InvHolds, PTL

\* The foreground reads and gives back the oldest character although
\* irq1_handler may push between pop_char's two steps (keyboard.cpp:145-146).
THEOREM ForegroundTakesOldest == Spec => []TakenIsOldest
<1>1. Inv => TakenIsOldest
  BY DEF Inv
<1> QED
  BY <1>1, InvHolds, PTL

\* keyboard_handle_scancode takes a byte for the second one of an extended key
\* exactly when it is (keyboard.cpp:160-167).
THEOREM PrefixNeverMistaken == Spec => []PrefixTracked
<1>1. Inv => PrefixTracked
  BY DEF Inv
<1> QED
  BY <1>1, InvHolds, PTL

\* However many shift keys there are and in whatever order they go down, repeat
\* and come up, shift_pressed is never left set by a key that is up, nor set by
\* the second byte of an extended key (keyboard.cpp:160-178).
THEOREM ShiftReleased == Spec => []ShiftNeverStuck
<1>1. Inv => ShiftNeverStuck
  BY DEF Inv
<1> QED
  BY <1>1, InvHolds, PTL

-----------------------------------------------------------------------------

\* Giving the oldest character's slot back takes it from the waiting ones.
LEMMA PopTakes ==
  ASSUME TypeOK, buf_head # buf_tail, buf_head' = after(buf_head),
         UNCHANGED <<key_buffer, buf_tail>>
  PROVE  /\ Waiting # << >> /\ Head(Waiting) = key_buffer[buf_head]
         /\ Waiting' = Tail(Waiting)
<1>1. /\ key_buffer \in [Slots -> Chars] /\ buf_head \in Slots /\ buf_tail \in Slots
      /\ buf_head' \in Slots /\ buf_tail' \in Slots
      /\ buf_head' = IF buf_head + 1 = BUFFER_SIZE THEN 0 ELSE buf_head + 1
      /\ BUFFER_SIZE \in Nat \ {0}
  BY AfterSlot, KeyboardAssumption DEF TypeOK
<1>2. /\ Buffered \in 0 .. BUFFER_SIZE - 1
      /\ Buffered = IF buf_head <= buf_tail THEN buf_tail - buf_head
                    ELSE buf_tail - buf_head + BUFFER_SIZE
  BY <1>1, BufferedCount
<1>3. Buffered' = IF buf_head' <= buf_tail' THEN buf_tail' - buf_head'
                  ELSE buf_tail' - buf_head' + BUFFER_SIZE
  BY <1>1 DEF Buffered, Slots
<1>4. Buffered \in 1 .. BUFFER_SIZE - 1 /\ Buffered' = Buffered - 1
  BY <1>1, <1>2, <1>3 DEF Slots
<1>5. ASSUME NEW k \in 1 .. Buffered - 1
      PROVE  (buf_head' + k - 1) % BUFFER_SIZE = (buf_head + (k + 1) - 1) % BUFFER_SIZE
  <2>1. k \in 1 .. BUFFER_SIZE /\ k + 1 \in 1 .. BUFFER_SIZE
    BY <1>1, <1>4
  <2>2. (buf_head' + k - 1) % BUFFER_SIZE =
          IF buf_head' + k - 1 < BUFFER_SIZE THEN buf_head' + k - 1
          ELSE buf_head' + k - 1 - BUFFER_SIZE
    BY <1>1, <2>1, WaitingSlot
  <2>3. (buf_head + (k + 1) - 1) % BUFFER_SIZE =
          IF buf_head + (k + 1) - 1 < BUFFER_SIZE THEN buf_head + (k + 1) - 1
          ELSE buf_head + (k + 1) - 1 - BUFFER_SIZE
    BY <1>1, <2>1, WaitingSlot
  <2> QED
    BY <2>2, <2>3, <1>1, <1>4 DEF Slots
<1>6. Waiting \in Seq(Chars) /\ Len(Waiting) = Buffered
  BY WaitingIsSeq
<1>7. Waiting # << >>
  BY <1>4, <1>6
<1>8. Waiting = [k \in 1 .. Buffered |-> key_buffer[(buf_head + k - 1) % BUFFER_SIZE]]
  BY DEF Waiting
<1>9. Head(Waiting) = key_buffer[buf_head]
  <2>1. (buf_head + 1 - 1) % BUFFER_SIZE = buf_head
    BY <1>1 DEF Slots
  <2>2. Waiting[1] = key_buffer[(buf_head + 1 - 1) % BUFFER_SIZE]
    BY <1>4, <1>8
  <2>3. Head(Waiting) = Waiting[1]
    BY <1>6, <1>7, HeadTailProperties
  <2> QED
    BY <2>1, <2>2, <2>3
<1>10. Tail(Waiting) = [k \in 1 .. Buffered - 1 |-> Waiting[k + 1]]
  <2>1. /\ Tail(Waiting) \in Seq(Chars) /\ Len(Tail(Waiting)) = Buffered - 1
        /\ \A k \in 1 .. Buffered - 1 : Tail(Waiting)[k] = Waiting[k + 1]
    BY <1>6, <1>7, HeadTailProperties
  <2>2. Tail(Waiting) \in [1 .. Buffered - 1 -> Chars]
    BY <2>1, LenProperties
  <2> QED
    BY <2>1, <2>2
<1>11. Waiting' = [k \in 1 .. Buffered - 1 |->
                     key_buffer[(buf_head' + k - 1) % BUFFER_SIZE]]
  BY <1>4 DEF Waiting
<1>12. ASSUME NEW k \in 1 .. Buffered - 1
       PROVE  key_buffer[(buf_head' + k - 1) % BUFFER_SIZE] = Waiting[k + 1]
  <2>1. k + 1 \in 1 .. Buffered
    BY <1>4
  <2>2. Waiting[k + 1] = key_buffer[(buf_head + (k + 1) - 1) % BUFFER_SIZE]
    BY <2>1, <1>8
  <2> QED
    BY <2>2, <1>5
<1> QED
  BY <1>7, <1>9, <1>10, <1>11, <1>12

LEMMA InitTypeAhead == Init => Promise!TypeAheadInit
<1> SUFFICES ASSUME Init PROVE Promise!TypeAheadInit
  OBVIOUS
<1>1. Inv
  BY InitInv
<1>2. Buffered = 0
  BY KeyboardAssumption DEF Init, Buffered
<1>3. Waiting = << >>
  BY <1>2 DEF Waiting
<1> QED
  BY <1>3 DEF Init, Promise!TypeAheadInit

\* One run of irq1_handler is a key that goes down, one that goes up, or, when
\* it reads an 0xE0, nothing.
LEMMA ByteIsKeyEvent ==
  ASSUME Inv, irq1_handler
  PROVE  \/ \E key \in Keys : Promise!KeyDown(key) \/ Promise!KeyUp(key)
         \/ UNCHANGED Promise!typeAheadVars
<1>1. /\ pending # << >> /\ ReadByte /\ keyboard_handle_scancode(NextByte)
      /\ UNCHANGED <<c, returned>>
  BY DEF irq1_handler
<1> DEFINE event == Head(pending)
           key == event.key
           ch == IF shift_pressed THEN keymap_shift[key.code] ELSE keymap[key.code]
<1>2. /\ event \in KeyEvents /\ key \in Keys
      /\ key.ext /\ ~prefix_sent => UNCHANGED <<bufferVars, held, shift_pressed>>
      /\ ~(key.ext /\ ~prefix_sent) =>
           held' = IF event.down THEN held \cup {key} ELSE held \ {key}
      /\ key.ext /\ prefix_sent => UNCHANGED <<bufferVars, shift_pressed>>
      /\ key \in ShiftKeys => shift_pressed' = event.down /\ UNCHANGED bufferVars
      /\ ~key.ext /\ key \notin ShiftKeys =>
           /\ UNCHANGED shift_pressed
           /\ ~event.down => UNCHANGED bufferVars
           /\ event.down =>
                IF ch = NoChar THEN UNCHANGED bufferVars ELSE push_char(ch)
  BY <1>1, ByteHandled
<1>3. /\ event.down \in BOOLEAN /\ key.ext \in BOOLEAN /\ key.code \in 0 .. 127
      /\ key \in ShiftKeys => ~key.ext /\ key.code \in {42, 54}
      /\ prefix_sent \in BOOLEAN /\ shift_pressed \in BOOLEAN
      /\ TypeOK
  BY <1>2, KeyboardAssumption DEF Inv, TypeOK, KeyEvents, ShiftKeys
<1>4. ch \in Chars
  BY <1>3, KeymapChars, SMTT(30)
<1>5. UNCHANGED bufferVars => UNCHANGED Waiting
  BY DEF bufferVars, Waiting, Buffered
<1>6. Promise!CharOf(key) = IF key.ext THEN NoChar ELSE ch
  BY <1>2 DEF Promise!CharOf
<1>7. key \in ShiftKeys => ch = NoChar
  BY <1>3 DEF keymap, keymap_shift, Unmapped
<1>8. Len(Waiting) = Buffered
  BY <1>3, WaitingIsSeq
<1>9. ch # NoChar /\ push_char(ch) =>
        Waiting' = IF Buffered >= BUFFER_SIZE - 1 THEN Waiting ELSE Append(Waiting, ch)
  BY <1>3, <1>4, PushAppends
<1> HIDE DEF event, key, ch
<1>10. CASE key.ext /\ ~prefix_sent
  BY <1>1, <1>2, <1>5, <1>10 DEF Promise!typeAheadVars
<1>11. CASE ~(key.ext /\ ~prefix_sent) /\ ~event.down
  <2>1. UNCHANGED bufferVars
    BY <1>2, <1>3, <1>11
  <2>2. shift_pressed' \in Promise!ShiftAfter(key)
    BY <1>2, <1>3, <1>11 DEF Promise!ShiftAfter
  <2>3. Promise!KeyUp(key)
    BY <2>1, <2>2, <1>1, <1>2, <1>5, <1>11 DEF Promise!KeyUp
  <2> QED
    BY <2>3, <1>2
<1>12. CASE ~(key.ext /\ ~prefix_sent) /\ event.down
  <2>1. held' = held \cup {key}
    BY <1>2, <1>12
  <2>2. Waiting' = IF Promise!CharOf(key) = NoChar \/ Len(Waiting) >= BUFFER_SIZE - 1
                   THEN Waiting ELSE Append(Waiting, Promise!CharOf(key))
    <3>1. CASE key.ext
      <4>1. UNCHANGED bufferVars /\ Promise!CharOf(key) = NoChar
        BY <3>1, <1>2, <1>3, <1>6, <1>12
      <4> QED
        BY <4>1, <1>5
    <3>2. CASE key \in ShiftKeys
      <4>1. UNCHANGED bufferVars /\ Promise!CharOf(key) = NoChar
        BY <3>2, <1>2, <1>3, <1>6, <1>7
      <4> QED
        BY <4>1, <1>5
    <3>3. CASE ~key.ext /\ key \notin ShiftKeys
      <4>1. Promise!CharOf(key) = ch
        BY <3>3, <1>6
      <4>2. IF ch = NoChar THEN UNCHANGED bufferVars ELSE push_char(ch)
        BY <3>3, <1>2, <1>12
      <4> QED
        BY <4>1, <4>2, <1>5, <1>8, <1>9
    <3> QED
      BY <3>1, <3>2, <3>3
  <2>3. shift_pressed' = (shift_pressed \/ key \in ShiftKeys)
    BY <1>2, <1>3, <1>12
  <2>4. Promise!KeyDown(key)
    BY <2>1, <2>2, <2>3, <1>1 DEF Promise!KeyDown
  <2> QED
    BY <2>4, <1>2
<1> QED
  BY <1>10, <1>11, <1>12

LEMMA StepImplements ==
  ASSUME Inv, [Next]_vars
  PROVE  [Promise!TypeAheadNext]_(Promise!typeAheadVars)
<1>1. UNCHANGED <<bufferVars, returned, held, shift_pressed>> => UNCHANGED Promise!typeAheadVars
  BY DEF bufferVars, Waiting, Buffered, Promise!typeAheadVars
<1>2. CASE \E key \in Keys : Press(key) \/ Release(key)
  BY <1>1, <1>2 DEF Press, Release, readerVars
<1>3. CASE irq0_handler
  BY <1>1, <1>3 DEF irq0_handler, deviceVars
<1>4. CASE irq1_handler
  BY <1>4, ByteIsKeyEvent DEF Promise!TypeAheadNext
<1>5. CASE keyboard_getchar
  <2>1. UNCHANGED <<key_buffer, buf_tail, held, shift_pressed>>
    BY <1>5 DEF keyboard_getchar, deviceVars
  <2>2. CASE Call \/ Check \/ Halt \/ ReadChar
    BY <2>1, <2>2, <1>1 DEF Call, Check, Halt, ReadChar, bufferVars
  <2>3. CASE Advance
    <3>1. /\ buf_head # buf_tail /\ c = key_buffer[buf_head]
          /\ buf_head' = after(buf_head) /\ returned' = c
      BY <2>3 DEF Advance, Inv, TakenIsOldest
    <3>2. /\ Waiting # << >> /\ Head(Waiting) = key_buffer[buf_head]
          /\ Waiting' = Tail(Waiting)
      BY <2>1, <3>1, PopTakes DEF Inv
    <3>3. Promise!Take
      BY <2>1, <3>1, <3>2 DEF Promise!Take
    <3> QED
      BY <3>3 DEF Promise!TypeAheadNext
  <2> QED
    BY <1>5, <2>2, <2>3 DEF keyboard_getchar
<1>6. CASE UNCHANGED vars
  BY <1>1, <1>6 DEF vars, readerVars, deviceVars
<1> QED
  BY <1>2, <1>3, <1>4, <1>5, <1>6 DEF Next

\* Decoder, ring, interrupts and keyboard_getchar together are a queue of the
\* characters typed (keyboard.cpp:133-203), whichever
\* keys the keyboard has.
THEOREM KeyboardIsTypeAhead == Spec => ImplementsTypeAhead
<1>1. Inv /\ [Next]_vars => [Promise!TypeAheadNext]_(Promise!typeAheadVars)
  BY StepImplements
<1> QED
  BY <1>1, InvHolds, InitTypeAhead, PTL
     DEF Spec, ImplementsTypeAhead, Promise!TypeAheadSpec
=============================================================================
