------------------------------ MODULE HalAudio ------------------------------
(***************************************************************************)
(* Capture from the microphone to the satellite profile: the controller    *)
(* fills the two halves of a cyclic buffer for ever, hda.c polls its       *)
(* position and copies a finished half, hal_audio.c keeps the halves in a  *)
(* ring that drops its oldest, and satellite_app.c pumps, takes one and    *)
(* sleeps.                                                                 *)
(*                                                                         *)
(* A half is Chunks pieces, the unit in which the controller's writes and  *)
(* the driver's reads interleave; a piece is the number of its capture.    *)
(* The driver reads memory the controller goes on writing, so what it gets *)
(* depends on how far the controller moves meanwhile: StepsPerPoll between *)
(* two reads of the position, StepsPerCopy during one copy.                *)
(*                                                                         *)
(* And the output limiter of hal_audio.c, which shares no state with the   *)
(* capture: whatever sequence of gains is set, no sample that leaves it is *)
(* louder than the ceiling.  Samples have 16 bits; the scaled value is a   *)
(* 32-bit quotient that C rounds towards zero.                             *)
(***************************************************************************)
EXTENDS Integers, Sequences

CONSTANTS Chunks,         \* pieces of one half of the cyclic buffer
          Ring,           \* KERNEL_HAL_AUDIO_RING_FRAMES
          Word,           \* 2^32, the width of the ring's indices
          StepsPerPoll, StepsPerCopy,
          MaxPieces,      \* bound: pieces captured
          Samples, Gains, \* the samples and the gains callers try
          Ceiling,        \* KERNEL_HAL_AUDIO_OUTPUT_CEILING_AMPLITUDE
          MaxClipped      \* bound: clipped samples counted

AudioAssumption ==
  /\ {Chunks, Ring, Word} \subseteq Nat \ {0} /\ Word % Ring = 0
  /\ {StepsPerPoll, StepsPerCopy, MaxPieces} \subseteq Nat
  /\ Samples \subseteq -32768 .. 32767 /\ Gains \subseteq Nat /\ Ceiling \in Nat /\ MaxClipped \in Nat

VARIABLES captured,       \* pieces the controller has written
          buffer,         \* the cyclic buffer
          half_read,      \* hda_capture_half_read
          pc, ready, copy,
          ring, write_index, read_index, overruns,
          moved, taken,   \* frames put in and taken from the ring
          last,           \* the last frame taken
          since,          \* pieces captured since the position was read
          gain, clipped,
          input, output   \* the sample that went through the limiter last

hda == <<captured, buffer>>
poll == <<half_read, ready, copy>>
hal == <<ring, write_index, read_index, overruns, moved>>
capture_vars == <<hda, poll, hal, pc, taken, last, since>>
limiter_vars == <<gain, clipped, input, output>>

Halves == 2               \* HDA_CAPTURE_HALVES
Position == captured % (Halves * Chunks)
Nothing == [c \in 1 .. Chunks |-> 0]

CaptureInit ==
  /\ captured = 0 /\ buffer = [p \in 0 .. Halves * Chunks - 1 |-> 0] /\ half_read = 0
  /\ pc = "pump" /\ ready = 0 /\ copy = <<>>
  /\ ring = [s \in 0 .. Ring - 1 |-> Nothing]
  /\ write_index = 0 /\ read_index = 0 /\ overruns = 0
  /\ moved = 0 /\ taken = 0 /\ last = Nothing /\ since = 0

\* The controller writes the next piece; it waits for nobody.
Capture ==
  /\ captured < MaxPieces /\ since < (IF pc = "copy" THEN StepsPerCopy ELSE StepsPerPoll)
  /\ captured' = captured + 1
  /\ buffer' = [buffer EXCEPT ![Position] = captured + 1]
  /\ since' = since + 1
  /\ UNCHANGED <<poll, hal, pc, taken, last>>

\* Mutant: the half being written is the one handed over.
WritingHalf == Position \div Chunks
\* The half finished before the controller went on to the other.
FinishedHalf == half_read

\* intel_high_definition_audio_poll_capture reads the position and decides.
Poll ==
  /\ pc = "pump"
  /\ since' = 0
  /\ LET writing == Position \div Chunks IN
       IF writing = half_read THEN pc' = "take" /\ UNCHANGED poll
       ELSE /\ pc' = "copy" /\ copy' = <<>>
            /\ ready' = FinishedHalf /\ half_read' = writing % Halves
  /\ UNCHANGED <<hda, hal, taken, last>>

CopyPiece ==
  /\ pc = "copy" /\ Len(copy) < Chunks
  /\ copy' = Append(copy, buffer[ready * Chunks + Len(copy)])
  /\ UNCHANGED <<hda, half_read, ready, hal, pc, taken, last, since>>

Unread == (write_index - read_index) % Word

CountOverrun == IF Unread >= Ring
                THEN overruns' = overruns + 1 /\ read_index' = (read_index + 1) % Word
                ELSE UNCHANGED <<overruns, read_index>>

\* The rest of a turn of hardware_abstraction_layer_audio_capture_pump.
Move ==
  /\ pc = "copy" /\ Len(copy) = Chunks
  /\ ring' = [ring EXCEPT ![write_index % Ring] = copy]
  /\ CountOverrun
  /\ write_index' = (write_index + 1) % Word /\ moved' = moved + 1
  /\ pc' = "pump"
  /\ UNCHANGED <<hda, poll, taken, last, since>>

OldestSlot == read_index % Ring

\* hardware_abstraction_layer_audio_capture_take, then the sleep to the next frame.
Take ==
  /\ pc = "take" /\ pc' = "asleep"
  /\ IF write_index = read_index THEN UNCHANGED <<read_index, taken, last>>
     ELSE /\ last' = ring[OldestSlot] /\ taken' = taken + 1
          /\ read_index' = (read_index + 1) % Word
  /\ UNCHANGED <<hda, poll, ring, write_index, overruns, moved, since>>

Wake == pc = "asleep" /\ pc' = "pump" /\ UNCHANGED <<hda, poll, hal, taken, last, since>>

CaptureNext == Capture \/ Poll \/ CopyPiece \/ Move \/ Take \/ Wake
CaptureSpec == CaptureInit /\ [][CaptureNext]_capture_vars
-----------------------------------------------------------------------------
(* The limiter *)

FullGain == 1000          \* hal_audio_gain_permille is in thousandths

LimiterInit == gain = FullGain /\ clipped = 0 /\ input = 0 /\ output = 0

CapGain(g) == IF g > FullGain THEN FullGain ELSE g

SetGain == \E g \in Gains : gain' = CapGain(g) /\ UNCHANGED <<clipped, input, output>>

Quotient(a, b) == IF a < 0 THEN -((-a) \div b) ELSE a \div b
Scaled(s) == Quotient(s * gain, FullGain)

\* Mutant: only the positive side is cut.
ClampAbove(x) == IF x > Ceiling THEN Ceiling ELSE x
Clamp(x) == IF x > Ceiling THEN Ceiling ELSE IF x < -Ceiling THEN -Ceiling ELSE x

Limit ==
  \E s \in Samples :
    /\ clipped + 1 <= MaxClipped
    /\ input' = s /\ output' = Clamp(Scaled(s))
    /\ clipped' = clipped + (IF Clamp(Scaled(s)) = Scaled(s) THEN 0 ELSE 1)
    /\ UNCHANGED gain

LimiterNext == SetGain \/ Limit
LimiterSpec == LimiterInit /\ [][LimiterNext]_limiter_vars
-----------------------------------------------------------------------------
\* The ring never holds more than its frames.
TypeOK ==
  /\ pc \in {"pump", "copy", "take", "asleep"} /\ half_read \in 0 .. 1 /\ ready \in 0 .. 1
  /\ write_index \in 0 .. Word - 1 /\ read_index \in 0 .. Word - 1
  /\ Unread <= Ring

\* Every frame moved into the ring was taken, was dropped and counted, or is still there.
RingAccounted == moved = taken + overruns + Unread

Whole(f) == \A c \in 1 .. Chunks - 1 : f[c + 1] = f[c] + 1

\* A frame handed over is one piece of sound: none of it was overwritten while it was
\* copied.
FramesWhole == Whole(last) \/ last = Nothing

\* Sound that is lost is counted as an overrun: the last frame taken is no further on
\* than the frames taken and dropped before it.
LossCounted == last # Nothing => (last[Chunks] - 1) \div Chunks + 1 <= taken + overruns

Magnitude(x) == IF x < 0 THEN -x ELSE x

\* No sequence of calls reaches past the ceiling, on either side of zero.
NeverPastCeiling == Magnitude(output) <= Ceiling

\* The gain can lower a sample and never raises it or turns it over.
GainOnlyLowers == Magnitude(output) <= Magnitude(input) /\ output * input >= 0
=============================================================================
