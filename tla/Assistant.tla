------------------------------ MODULE Assistant ------------------------------
(***************************************************************************)
(* The demon's mind as the kernel hosts it: libassistant's boot, dialogue  *)
(* and gates (libassistant/src/assistant_boot.cpp and src/smoke/), over    *)
(* the tensor arena (ai/tensor_arena.c), the token budget                  *)
(* (ai/inference_budget.c) and the two rings of the dialogue channel       *)
(* (dialogue/dialogue_channel.c, whose interleavings are IndexRing's).     *)
(*                                                                         *)
(* The inference library is not part of the repository.  It is modelled by *)
(* what the callers rely on: each build step carves some of the arena or   *)
(* fails, a generation fails or yields at most maxTokens tokens, and the   *)
(* answer these decode to is some sequence of bytes.                       *)
(***************************************************************************)
EXTENDS Integers, Sequences, FiniteSets

CONSTANTS
  Sizes,        \* the region sizes a caller may ask for
  Byte,         \* the bytes of the dialogue
  Questions,    \* the prompts: sequences of bytes
  Phrases,      \* the calls of the grammar: sequences of bytes
  CAPACITY,     \* KERNEL_DIALOGUE_CHANNEL_CAPACITY
  HEARD,        \* the bytes either side reads in one exchange (128)
  BUDGET,       \* kReplyTokenBudget
  MaxAnswer     \* bound on the bytes an answer decodes to

VARIABLES
  arena,        \* the region: [size, carved], size 0 when not claimed
  high_water,   \* tensor_arena_high_water
  generation,   \* who carved the region last: a number, 0 for nobody
  gMind,        \* the live mind: the carving it holds, 0 for nullptr
  to_demon,     \* the ring of the sovereign's bytes
  to_sovereign, \* the ring of the demon's bytes
  dropped,      \* dialogue_dropped
  budget,       \* [granted, remaining, denied]
  step,         \* the exchange: "idle", "asked", "heard", "said"
  question, heard, answer, delivered, spent, valid, generated

avars == <<arena, high_water, generation, gMind, to_demon, to_sovereign, dropped,
           budget, step, question, heard, answer, delivered, spent, valid, generated>>
exchange == <<question, heard, answer, delivered, spent, valid, generated>>

\* The region is carved at most this often in one behaviour.
MaxGeneration == 2

AssistantAssumption ==
  /\ Sizes \subseteq Nat \ {0} /\ CAPACITY > 0 /\ HEARD > 0 /\ BUDGET > 0
  /\ Questions \cup Phrases \subseteq Seq(Byte)
  /\ \A p \in Phrases : Len(p) <= HEARD

FirstBytes(s, n) == SubSeq(s, 1, IF Len(s) < n THEN Len(s) ELSE n)

-----------------------------------------------------------------------------
(* The region and the budget.                                              *)

Init ==
  /\ arena = [size |-> 0, carved |-> 0]
  /\ high_water = 0 /\ generation = 0 /\ gMind = 0
  /\ to_demon = <<>> /\ to_sovereign = <<>> /\ dropped = 0
  /\ budget = [granted |-> 0, remaining |-> 0, denied |-> 0]
  /\ step = "idle"
  /\ question = <<>> /\ heard = <<>> /\ answer = <<>> /\ delivered = <<>>
  /\ spent = 0 /\ valid = FALSE /\ generated = 0

\* Claiming a region that is there already succeeds if it is large enough.
Claimable(bytes) == arena.size = 0 \/ arena.size >= bytes

\* The mark of an earlier region kept for a new one.
KeepHighWater(bytes) == high_water

\* A new region starts with no use recorded.
ClaimedHighWater(bytes) == IF arena.size = 0 THEN 0 ELSE high_water

record_used(mark, bytes) == IF bytes > mark THEN bytes ELSE mark

\* kernel_tensor_arena_release; its callers hold no pointer into the region.
kernel_tensor_arena_release ==
  /\ gMind = 0 /\ arena.size > 0
  /\ arena' = [size |-> 0, carved |-> 0]
  /\ UNCHANGED <<high_water, generation, gMind, to_demon, to_sovereign, dropped,
                 budget, step, exchange>>

\* Opening a budget leaves the count of refusals alone.
opened == [budget EXCEPT !.granted = BUDGET, !.remaining = BUDGET]

\* n claims in a row: what is left goes down to 0, then the refusals go up.
claimed(n) ==
  [budget EXCEPT !.remaining = IF n > @ THEN 0 ELSE @ - n,
                 !.denied = @ + (IF n > budget.remaining THEN n - budget.remaining ELSE 0)]

-----------------------------------------------------------------------------
(* The mind's life.                                                        *)

\* libassistant_boot.  The new mind takes the storage of the old one before
\* its parts are built; a part that cannot be built leaves no mind behind.
libassistant_boot(bytes) ==
  /\ step = "idle" /\ generation < MaxGeneration /\ Claimable(bytes)
  /\ generation' = generation + 1
  /\ \E size \in {IF arena.size = 0 THEN bytes ELSE arena.size}, used \in 0 .. 2,
        built \in BOOLEAN :
       /\ used <= size
       /\ arena' = [size |-> size, carved |-> used]
       /\ gMind' = IF built THEN generation' ELSE 0
       /\ IF built
          THEN /\ high_water' = record_used(ClaimedHighWater(bytes), used)
               /\ to_demon' = <<>> /\ to_sovereign' = <<>> /\ dropped' = 0
               /\ budget' = opened
          ELSE /\ high_water' = ClaimedHighWater(bytes)
               /\ UNCHANGED <<to_demon, to_sovereign, dropped, budget>>
  /\ UNCHANGED <<step, exchange>>

\* A refused claim (no memory, or a larger region than the one there is)
\* returns before anything else is touched.
BootRefused(bytes) ==
  step = "idle" /\ (arena.size > 0 => arena.size < bytes) /\ UNCHANGED avars

\* A gate that carves the region without dropping the mind.
FoldKeepsMind == UNCHANGED gMind

\* libassistant_shutdown, the first thing both gates do.
libassistant_shutdown == gMind' = 0

\* libassistant_mind_fold and libassistant_reasoning_fold: the region, when
\* there is one, is carved again from its base.  Only the first of the two
\* records what it used; without a region it uses memory of its own.
Fold(records) ==
  /\ step = "idle" /\ generation < MaxGeneration
  /\ libassistant_shutdown
  /\ \E used \in 0 .. 2 :
       /\ arena.size > 0 => used <= arena.size
       /\ arena' = IF arena.size > 0 THEN [arena EXCEPT !.carved = used] ELSE arena
       /\ generation' = IF arena.size > 0 THEN generation + 1 ELSE generation
       /\ high_water' = IF records THEN record_used(high_water, used) ELSE high_water
  /\ UNCHANGED <<to_demon, to_sovereign, dropped, budget, step, exchange>>

-----------------------------------------------------------------------------
(* One exchange (libassistant_dialogue_round_trip), its steps in order.    *)

\* Each byte is offered in turn: a full ring counts it and drops it.
Offered(ring, bytes) == ring \o FirstBytes(bytes, CAPACITY - Len(ring))
Lost(ring, bytes) == Len(ring) + Len(bytes) - Len(Offered(ring, bytes))

\* The rings left as the last exchange left them.
KeepRings == [demon |-> to_demon, sovereign |-> to_sovereign, dropped |-> dropped]

\* kernel_dialogue_channel_reset
channel_reset == [demon |-> <<>>, sovereign |-> <<>>, dropped |-> 0]

Ask(q) ==
  /\ step = "idle" /\ gMind # 0
  /\ step' = "asked"
  /\ question' = q
  /\ LET rings == channel_reset
     IN  /\ to_demon' = Offered(rings.demon, q)
         /\ to_sovereign' = rings.sovereign
         /\ dropped' = rings.dropped + Lost(rings.demon, q)
  /\ budget' = opened
  /\ heard' = <<>> /\ answer' = <<>> /\ delivered' = <<>>
  /\ spent' = 0 /\ valid' = FALSE /\ generated' = 0
  /\ UNCHANGED <<arena, high_water, generation, gMind>>

\* The demon takes what fits its buffer.
Hear ==
  /\ step = "asked"
  /\ step' = "heard"
  /\ heard' = FirstBytes(to_demon, HEARD)
  /\ to_demon' = SubSeq(to_demon, Len(heard') + 1, Len(to_demon))
  /\ UNCHANGED <<arena, high_water, generation, gMind, to_sovereign, dropped, budget,
                 question, answer, delivered, spent, valid, generated>>

\* A failed generation ends the exchange.
GenerateFails ==
  /\ step = "heard"
  /\ step' = "idle"
  /\ UNCHANGED <<arena, high_water, generation, gMind, to_demon, to_sovereign, dropped,
                 budget, exchange>>

\* The tokens are charged after the fact; what they decode to fits answer[128].
Say(tokens, bytes) ==
  /\ step = "heard"
  /\ step' = "said"
  /\ generated' = tokens
  /\ budget' = claimed(tokens)
  /\ answer' = FirstBytes(bytes, HEARD)
  /\ to_sovereign' = Offered(to_sovereign, answer')
  /\ dropped' = dropped + Lost(to_sovereign, answer')
  /\ UNCHANGED <<arena, high_water, generation, gMind, to_demon, question, heard,
                 delivered, spent, valid>>

\* The sovereign reads the answer; a whole phrase of the grammar is a call.
Deliver ==
  /\ step = "said"
  /\ step' = "idle"
  /\ delivered' = FirstBytes(to_sovereign, HEARD)
  /\ to_sovereign' = SubSeq(to_sovereign, Len(delivered') + 1, Len(to_sovereign))
  /\ valid' = (delivered' \in Phrases)
  /\ spent' = budget.granted - budget.remaining
  /\ high_water' = record_used(high_water, arena.carved)
  /\ UNCHANGED <<arena, generation, gMind, to_demon, dropped, budget, question, heard,
                 answer, generated>>

Next ==
  \/ kernel_tensor_arena_release
  \/ \E bytes \in Sizes : libassistant_boot(bytes) \/ BootRefused(bytes)
  \/ \E records \in BOOLEAN : Fold(records)
  \/ \E q \in Questions : Ask(q)
  \/ Hear \/ GenerateFails \/ Deliver
  \/ \E tokens \in 0 .. BUDGET, n \in 0 .. MaxAnswer :
       \E bytes \in [1 .. n -> Byte] : Say(tokens, bytes)

Spec == Init /\ [][Next]_avars

-----------------------------------------------------------------------------
\* The variables have their types; neither ring holds more than its capacity.
TypeOK ==
  /\ arena \in [size : {0} \cup Sizes, carved : Nat]
  /\ high_water \in Nat /\ generation \in 0 .. MaxGeneration
  /\ gMind \in 0 .. MaxGeneration
  /\ to_demon \in Seq(Byte) /\ to_sovereign \in Seq(Byte)
  /\ Len(to_demon) <= CAPACITY /\ Len(to_sovereign) <= CAPACITY
  /\ step \in {"idle", "asked", "heard", "said"}
  /\ valid \in BOOLEAN

\* A live mind holds the region as it is carved now: nothing that carves the
\* region again, fails to build a mind in it or gives it back leaves a mind
\* whose weights have been handed out to another.
MindHoldsRegion ==
  gMind # 0 => arena.size > 0 /\ generation = gMind

\* The recorded high-water mark is of the region there is: it never exceeds
\* its size, whatever was recorded for an earlier region or for none.
HighWaterFits == arena.size > 0 => high_water <= arena.size

\* An exchange hears its own question and nothing of an earlier one, and a
\* call is valid only if the bytes of this answer spell it.  No claim is ever
\* refused, and the tokens spent are the tokens generated.
DialogueHonest ==
  /\ step \in {"heard", "said"} => heard = FirstBytes(FirstBytes(question, CAPACITY), HEARD)
  /\ valid => delivered = answer /\ answer \in Phrases
  /\ budget.denied = 0
  /\ (step = "idle" /\ delivered # <<>>) => spent = generated
=============================================================================
