----------------------------- MODULE IndexRing ------------------------------
(***************************************************************************)
(* The single-producer single-consumer byte ring of the scan code ring     *)
(* (keyboard.c), and of both directions of the dialogue channel            *)
(* (dialogue_channel.c).  The two indices are free-running uint32_t        *)
(* counters; here they count modulo Word, so that wrap-around is reached.  *)
(* A step is one access to shared memory: the producer may be an interrupt *)
(* handler that lands between any two steps of the consumer, or another    *)
(* processor.                                                              *)
(***************************************************************************)
EXTENDS Integers, Sequences

CONSTANTS Capacity,  \* KEYBOARD_SCANCODE_RING_CAPACITY, a power of two
          Word,      \* 2^32 in the code, a multiple of the capacity
          Values,
          MaxDrops   \* bound on the drop counter

IndexRingAssumption ==
  /\ Capacity \in Nat \ {0} /\ Word \in Nat
  /\ Word > Capacity /\ Word % Capacity = 0
  /\ MaxDrops \in Nat

Nothing == "nothing"

VARIABLES ring, head, tail,
          producer,   \* [at, byte, head]: its program point and its locals
          consumer,   \* [at, byte, tail]
          drop_count,
          out         \* the byte the last successful pop returned

vars == <<ring, head, tail, producer, consumer, drop_count, out>>

Slots == 0 .. (Capacity - 1)
Index == 0 .. (Word - 1)
Idle  == "idle"

Init ==
  /\ ring \in [Slots -> {Nothing}]
  /\ head = 0 /\ tail = 0
  /\ producer = [at |-> Idle, byte |-> Nothing, head |-> 0]
  /\ consumer = [at |-> Idle, byte |-> Nothing, tail |-> 0]
  /\ drop_count = 0 /\ out = Nothing

Distance(h, t) == (h - t + Word) % Word
-----------------------------------------------------------------------------
(* The push of the interrupt handler *)

Room(h, t) == Distance(h, t) < Capacity

\* Head is the producer's own; reading tail decides between storing and dropping.
PushBegin(v) ==
  /\ producer.at = Idle
  /\ Room(head, tail)
  /\ producer' = [at |-> "store", byte |-> v, head |-> head]
  /\ UNCHANGED <<ring, head, tail, consumer, drop_count, out>>

\* A full ring drops the byte and counts it.
PushDropped ==
  /\ producer.at = Idle
  /\ ~Room(head, tail)
  /\ drop_count < MaxDrops
  /\ drop_count' = drop_count + 1
  /\ UNCHANGED <<ring, head, tail, producer, consumer, out>>

StoreByte ==
  /\ producer.at = "store"
  /\ ring' = [ring EXCEPT ![producer.head % Capacity] = producer.byte]
  /\ producer' = [producer EXCEPT !.at = "publish"]
  /\ UNCHANGED <<head, tail, consumer, drop_count, out>>

\* Mutant: the index is published by the slot it names.
PublishWrapped ==
  /\ producer.at = "publish"
  /\ head' = (producer.head + 1) % Capacity
  /\ producer' = [producer EXCEPT !.at = Idle]
  /\ UNCHANGED <<ring, tail, consumer, drop_count, out>>

PublishHead ==
  /\ producer.at = "publish"
  /\ head' = (producer.head + 1) % Word
  /\ producer' = [producer EXCEPT !.at = Idle]
  /\ UNCHANGED <<ring, tail, consumer, drop_count, out>>
-----------------------------------------------------------------------------
(* keyboard_scancode_ring_pop, dialogue_ring_pop *)

PopBegin ==
  /\ consumer.at = Idle
  /\ head # tail
  /\ consumer' = [consumer EXCEPT !.at = "load", !.tail = tail]
  /\ UNCHANGED <<ring, head, tail, producer, drop_count, out>>

LoadByte ==
  /\ consumer.at = "load"
  /\ consumer' = [consumer EXCEPT !.at = "release", !.byte = ring[consumer.tail % Capacity]]
  /\ UNCHANGED <<ring, head, tail, producer, drop_count, out>>

ReleaseSlot ==
  /\ consumer.at = "release"
  /\ tail' = (consumer.tail + 1) % Word
  /\ out' = consumer.byte
  /\ consumer' = [consumer EXCEPT !.at = Idle]
  /\ UNCHANGED <<ring, head, producer, drop_count>>
-----------------------------------------------------------------------------
Next == \/ \E v \in Values : PushBegin(v)
        \/ PushDropped \/ StoreByte \/ PublishHead
        \/ PopBegin \/ LoadByte \/ ReleaseSlot

Spec == Init /\ [][Next]_vars
-----------------------------------------------------------------------------
\* Every variable keeps its type, and the indices are never further apart than
\* the capacity, also across the wrap of the counters.
TypeOK ==
  /\ ring \in [Slots -> Values \cup {Nothing}]
  /\ head \in Index /\ tail \in Index
  /\ (head - tail + Word) % Word \in 0 .. Capacity
  /\ producer \in [at : {Idle, "store", "publish"}, byte : Values \cup {Nothing}, head : Index]
  /\ consumer \in [at : {Idle, "load", "release"}, byte : Values \cup {Nothing}, tail : Index]
  /\ drop_count \in Nat
  /\ out \in Values \cup {Nothing}

\* The handler never stores into the slot the consumer is loading from, although
\* it decided to store on a tail that may have moved since.
NoTornByte ==
  producer.at = "store" /\ consumer.at \in {"load", "release"} =>
    producer.head % Capacity # consumer.tail % Capacity

\* The accepted bytes, oldest first.
Contents == [i \in 1 .. ((head - tail + Word) % Word) |-> ring[(tail + i - 1) % Capacity]]

Fifo == INSTANCE BoundedFifo WITH queue <- Contents

\* Each accepted byte is delivered once and in order, with no lock and no shared
\* counter, when the indices wrap too.
RingIsFifo == Fifo!Spec
=============================================================================
