------------------------------ MODULE Keyboard ------------------------------
(***************************************************************************)
(* The keyboard: keys struck, the scan codes they send, the interrupt      *)
(* handler that rings them (keyboard.c) and the deferred decoding that     *)
(* keeps the modifier state (ps2_keyboard.c).  The scan code ring is the   *)
(* bounded FIFO IndexRing implements.  An extended key sends two bytes and *)
(* each byte is an interrupt, so the decoder may run between the two.      *)
(***************************************************************************)
EXTENDS Integers, Sequences, FiniteSets

CONSTANTS Capacity,    \* KEYBOARD_SCANCODE_RING_CAPACITY
          MaxStrokes   \* bound on presses and releases

KeyboardAssumption == Capacity \in Nat \ {0} /\ MaxStrokes \in Nat

\* The keys, by the decoder's case labels.  The control keys share a code, and so do the alt keys.
Code == [ shift_left |-> "2A", shift_right |-> "36", ctrl_left |-> "1D",
          ctrl_right |-> "1D", alt_left |-> "38", alt_right |-> "38",
          caps_lock |-> "3A", letter |-> "1E" ]
Keys      == DOMAIN Code
Codes     == {Code[k] : k \in Keys}
Extended  == {"ctrl_right", "alt_right"}
Modifiers == {"shift_left", "shift_right", "ctrl_left", "ctrl_right",
               "alt_left", "alt_right"}

VARIABLES held,        \* keys physically down
          caps,        \* what the user takes caps lock to be
          wire,        \* bytes the keyboard has yet to deliver
          ring,        \* keyboard_scancode_ring between tail and head
          drop_count,
          modifier,    \* personal_system_2_*_state
          caps_lock_state, extended_pending,
          key_down,    \* personal_system_2_key_down_bitmap, by code
          typed,       \* the character the stroke decoded last should give
          decoded,     \* the character keyboard_try_pop_char returned last
          strokes

vars == <<held, caps, wire, ring, drop_count, modifier, caps_lock_state,
          extended_pending, key_down, typed, decoded, strokes>>

decoder == <<modifier, caps_lock_state, extended_pending, key_down, typed, decoded>>
Prefix == [code |-> "E0"]
NoChar == << >>

\* A byte of a stroke; want is the character the user expects of it.
Byte(k, pressed, want) == [code |-> Code[k], pressed |-> pressed, want |-> want]
Bytes == {Prefix} \cup [code : Codes, pressed : BOOLEAN,
                        want : {NoChar} \cup ({"base", "shift", "altgr"} \X BOOLEAN)]

Init ==
  /\ held = {} /\ caps = FALSE
  /\ wire = << >> /\ ring = << >> /\ drop_count = 0
  /\ modifier = [m \in Modifiers |-> FALSE]
  /\ caps_lock_state = FALSE /\ extended_pending = FALSE
  /\ key_down = [c \in Codes |-> FALSE]
  /\ typed = NoChar /\ decoded = NoChar
  /\ strokes = 0

\* personal_system_2_keyboard_translate_make_code: AltGr before shift, caps last.
Translate(altgr, shift, capsLock) ==
  << IF altgr THEN "altgr" ELSE IF shift THEN "shift" ELSE "base", capsLock >>
-----------------------------------------------------------------------------
(* The user and the keyboard *)

Send(k, pressed, want) ==
  /\ strokes < MaxStrokes
  /\ strokes' = strokes + 1
  /\ wire' = wire \o (IF k \in Extended THEN <<Prefix>> ELSE << >>)
                  \o <<Byte(k, pressed, want)>>
  /\ UNCHANGED <<ring, drop_count, decoder>>

Press(k) ==
  /\ k \notin held
  /\ held' = held \cup {k}
  /\ caps' = (caps # (k = "caps_lock"))
  /\ Send(k, TRUE, IF k = "letter"
                   THEN Translate("alt_right" \in held,
                                  {"shift_left", "shift_right"} \cap held # {}, caps)
                   ELSE NoChar)

Release(k) ==
  /\ k \in held
  /\ held' = held \ {k}
  /\ UNCHANGED caps
  /\ Send(k, FALSE, NoChar)

Full == Len(ring) >= Capacity

\* keyboard_interrupt_handler: one byte per interrupt, dropped when the ring is full.
Interrupt ==
  /\ wire # << >>
  /\ wire' = Tail(wire)
  /\ IF Full
     THEN drop_count' = drop_count + 1 /\ UNCHANGED ring
     ELSE ring' = Append(ring, Head(wire)) /\ UNCHANGED drop_count
  /\ UNCHANGED <<held, caps, decoder, strokes>>
-----------------------------------------------------------------------------
(* personal_system_2_keyboard_decode_scancode *)

DecodePrefix ==
  /\ extended_pending' = TRUE
  /\ UNCHANGED <<modifier, caps_lock_state, key_down, typed, decoded>>

\* Extended codes are deliberately not recorded in the bitmap.
TrackKey(b) ==
  key_down' = IF extended_pending THEN key_down ELSE [key_down EXCEPT ![b.code] = b.pressed]

\* Mutant: the prefix does not tell left from right.
MeaningByCode(c, extended) == {m \in Modifiers : Code[m] = c}
\* The modifier a code stands for, or none: the two switch statements.
Meaning(c, extended) ==
  {m \in Modifiers : Code[m] = c /\ (m \in Extended) = extended}

\* The prefix applies to one byte.
ConsumePrefix == extended_pending' = FALSE

DecodeKey(b) ==
  /\ TrackKey(b)
  /\ ConsumePrefix
  /\ modifier' = [m \in Modifiers |->
                    IF m \in Meaning(b.code, extended_pending) THEN b.pressed ELSE modifier[m]]
  /\ caps_lock_state' = (caps_lock_state # (b.code = "3A" /\ ~extended_pending /\ b.pressed))
  /\ IF b.code = "1E" /\ ~extended_pending /\ b.pressed
     THEN /\ decoded' = Translate(modifier.alt_right,
                                  modifier.shift_left \/ modifier.shift_right, caps_lock_state)
          /\ typed' = b.want
     ELSE UNCHANGED <<typed, decoded>>

\* One turn of the loop of keyboard_try_pop_char.
PopAndDecode ==
  /\ ring # << >>
  /\ ring' = Tail(ring)
  /\ IF Head(ring) = Prefix THEN DecodePrefix ELSE DecodeKey(Head(ring))
  /\ UNCHANGED <<held, caps, wire, drop_count, strokes>>
-----------------------------------------------------------------------------
Next == \/ \E k \in Keys : Press(k) \/ Release(k)
        \/ Interrupt \/ PopAndDecode

Spec == Init /\ [][Next]_vars
-----------------------------------------------------------------------------
\* Every variable keeps its type.
TypeOK ==
  /\ held \subseteq Keys /\ caps \in BOOLEAN
  /\ wire \in Seq(Bytes) /\ ring \in Seq(Bytes) /\ Len(ring) <= Capacity
  /\ drop_count \in Nat /\ strokes \in 0 .. MaxStrokes
  /\ modifier \in [Modifiers -> BOOLEAN]
  /\ caps_lock_state \in BOOLEAN /\ extended_pending \in BOOLEAN
  /\ key_down \in [Codes -> BOOLEAN]

\* However long decoding is deferred, a key gives the character of the modifiers
\* that were down when it was struck, not of those down when it is decoded.
DecodedAsTyped == drop_count = 0 => decoded = typed

\* Once every byte is decoded and none was dropped, the modifier states, the caps
\* lock and the held-key bitmap say exactly which keys are down: no stuck key, and
\* neither control key disturbs the other.
StateFollowsKeys ==
  drop_count = 0 /\ wire = << >> /\ ring = << >> =>
    /\ \A m \in Modifiers : modifier[m] = (m \in held)
    /\ caps_lock_state = caps
    /\ \A k \in Keys \ Extended : key_down[Code[k]] = (k \in held)
    /\ ~extended_pending
=============================================================================
