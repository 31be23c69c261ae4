------------------------------- MODULE TypeAhead -------------------------------
(***************************************************************************)
(* What the keyboard module promises the shell: the characters of the keys *)
(* that go down, in that order, and none while Capacity characters are     *)
(* waiting.  They come shifted from when a shift key goes down until no    *)
(* shift key is held; when one of several comes up, it is left open        *)
(* whether those that remain still shift.  A key counts as held from the   *)
(* moment the driver has heard that it went down.                          *)
(***************************************************************************)
EXTENDS Naturals, Sequences

CONSTANTS
  Keys,            \* physical keys
  ShiftKeys,       \* those that shift
  PlainChar,       \* key -> its character, or None
  ShiftedChar,     \* ... while shifting
  None,
  Capacity

VARIABLES held, shift, waiting, delivered

typeAheadVars == <<held, shift, waiting, delivered>>

CharOf(key) == IF shift THEN ShiftedChar[key] ELSE PlainChar[key]

KeyDown(key) ==
  /\ held' = held \cup {key}
  /\ shift' = (shift \/ key \in ShiftKeys)
  /\ waiting' = IF CharOf(key) = None \/ Len(waiting) >= Capacity
                THEN waiting ELSE Append(waiting, CharOf(key))
  /\ UNCHANGED delivered

\* What releasing a key may leave of shift.
ShiftAfter(key) ==
  IF key \notin ShiftKeys THEN {shift}
  ELSE IF held \cap ShiftKeys \subseteq {key} THEN {FALSE}
  ELSE BOOLEAN

KeyUp(key) ==
  /\ held' = held \ {key}
  /\ shift' \in ShiftAfter(key)
  /\ UNCHANGED <<waiting, delivered>>

Take ==
  /\ waiting # << >>
  /\ delivered' = Head(waiting)
  /\ waiting' = Tail(waiting)
  /\ UNCHANGED <<held, shift>>

TypeAheadInit ==
  /\ held = {}
  /\ shift = FALSE
  /\ waiting = << >>
  /\ delivered = None

TypeAheadNext == Take \/ \E key \in Keys : KeyDown(key) \/ KeyUp(key)

TypeAheadSpec == TypeAheadInit /\ [][TypeAheadNext]_typeAheadVars
=============================================================================
