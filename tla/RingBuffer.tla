----------------------------- MODULE RingBuffer -----------------------------
(***************************************************************************)
(* The slot ring of kernel/memory/ring_buffer.c in the SPSC mode the       *)
(* kernel boots it in: one producer and one consumer run kernel_ring_      *)
(* buffer_enqueue and kernel_ring_buffer_dequeue concurrently, and share   *)
(* kernel_ring_buffer_count.  A step is one access to shared memory; the   *)
(* memset and the memcpy of a slot are two steps, so a slot can be seen    *)
(* half written.                                                           *)
(***************************************************************************)
EXTENDS Integers, Sequences

CONSTANTS Capacity,   \* slot_count
          Values,     \* messages that fit a slot
          MaxOps      \* bound on the enqueue and dequeue counters

RingAssumption == Capacity \in Nat \ {0} /\ MaxOps \in Nat

Blank   == "blank"    \* a slot after memset
Nothing == "nothing"
Slots   == 0 .. (Capacity - 1)

VARIABLES slot,            \* the backing store
          head, tail, count,
          high_watermark,
          enqueue_count, dequeue_count,
          failed_enqueue_count, failed_dequeue_count,
          producer,        \* where the producer is in enqueue
          message,         \* its data argument
          consumer,        \* where the consumer is in dequeue
          copied,          \* what memcpy put in the consumer's buffer
          out              \* what the last completed dequeue returned

ring_vars == <<slot, head, tail, count, high_watermark, enqueue_count, dequeue_count,
               failed_enqueue_count, failed_dequeue_count, producer, message,
               consumer, copied, out>>

stats == <<high_watermark, enqueue_count, dequeue_count,
           failed_enqueue_count, failed_dequeue_count>>

\* kernel_ring_buffer_initialize_ex
RingInit ==
  /\ slot \in [Slots -> {Blank}]
  /\ head = 0 /\ tail = 0 /\ count = 0
  /\ high_watermark = 0
  /\ enqueue_count = 0 /\ dequeue_count = 0
  /\ failed_enqueue_count = 0 /\ failed_dequeue_count = 0
  /\ producer = "idle" /\ message = Nothing
  /\ consumer = "idle" /\ copied = Nothing /\ out = Nothing
-----------------------------------------------------------------------------
(* kernel_ring_buffer_enqueue *)

HasRoom == count < Capacity

EnqueueBegin(v) ==
  /\ producer = "idle"
  /\ enqueue_count < MaxOps
  /\ HasRoom
  /\ producer' = "clear" /\ message' = v
  /\ UNCHANGED <<slot, head, tail, count, stats, consumer, copied, out>>

\* A full ring, or an argument the checks refuse.
EnqueueRefused ==
  /\ producer = "idle"
  /\ failed_enqueue_count < MaxOps
  /\ failed_enqueue_count' = failed_enqueue_count + 1
  /\ UNCHANGED <<slot, head, tail, count, high_watermark, enqueue_count, dequeue_count,
                 failed_dequeue_count, producer, message, consumer, copied, out>>

ClearSlot ==
  /\ producer = "clear"
  /\ slot' = [slot EXCEPT ![tail] = Blank]
  /\ producer' = "fill"
  /\ UNCHANGED <<head, tail, count, stats, message, consumer, copied, out>>

FillSlot ==
  /\ producer = "fill"
  /\ slot' = [slot EXCEPT ![tail] = message]
  /\ producer' = "advance"
  /\ UNCHANGED <<head, tail, count, stats, message, consumer, copied, out>>

\* next_tail = (current_tail + 1u) % capacity
AdvanceTail ==
  /\ producer = "advance"
  /\ tail' = (tail + 1) % Capacity
  /\ producer' = "publish"
  /\ UNCHANGED <<slot, head, count, stats, message, consumer, copied, out>>

Publish ==
  /\ producer = "publish"
  /\ count' = count + 1
  /\ producer' = "account"
  /\ UNCHANGED <<slot, head, tail, stats, message, consumer, copied, out>>

\* The statistics; the watermark reads a count the consumer may have lowered.
EnqueueEnd ==
  /\ producer = "account"
  /\ enqueue_count' = enqueue_count + 1
  /\ high_watermark' = IF count > high_watermark THEN count ELSE high_watermark
  /\ producer' = "idle" /\ message' = Nothing
  /\ UNCHANGED <<slot, head, tail, count, dequeue_count, failed_enqueue_count,
                 failed_dequeue_count, consumer, copied, out>>
-----------------------------------------------------------------------------
(* kernel_ring_buffer_dequeue *)

\* Mutant: the emptiness test is missing.
DequeueUnchecked ==
  /\ consumer = "idle"
  /\ consumer' = "copy"
  /\ UNCHANGED <<slot, head, tail, count, stats, producer, message, copied, out>>

DequeueBegin ==
  /\ consumer = "idle"
  /\ count # 0
  /\ consumer' = "copy"
  /\ UNCHANGED <<slot, head, tail, count, stats, producer, message, copied, out>>

DequeueRefused ==
  /\ consumer = "idle"
  /\ failed_dequeue_count < MaxOps
  /\ failed_dequeue_count' = failed_dequeue_count + 1
  /\ UNCHANGED <<slot, head, tail, count, high_watermark, enqueue_count, dequeue_count,
                 failed_enqueue_count, producer, message, consumer, copied, out>>

CopySlot ==
  /\ consumer = "copy"
  /\ copied' = slot[head]
  /\ consumer' = "advance"
  /\ UNCHANGED <<slot, head, tail, count, stats, producer, message, out>>

AdvanceHead ==
  /\ consumer = "advance"
  /\ head' = (head + 1) % Capacity
  /\ consumer' = "release"
  /\ UNCHANGED <<slot, tail, count, stats, producer, message, copied, out>>

\* The slot becomes the producer's again when count drops.
Release ==
  /\ consumer = "release"
  /\ count' = count - 1
  /\ out' = copied
  /\ consumer' = "account"
  /\ UNCHANGED <<slot, head, tail, stats, producer, message, copied>>

DequeueEnd ==
  /\ consumer = "account"
  /\ dequeue_count' = dequeue_count + 1
  /\ consumer' = "idle" /\ copied' = Nothing
  /\ UNCHANGED <<slot, head, tail, count, high_watermark, enqueue_count,
                 failed_enqueue_count, failed_dequeue_count, producer, message, out>>
-----------------------------------------------------------------------------
Producer == \/ \E v \in Values : EnqueueBegin(v)
            \/ EnqueueRefused \/ ClearSlot \/ FillSlot \/ AdvanceTail
            \/ Publish \/ EnqueueEnd

Consumer == \/ DequeueBegin \/ DequeueRefused \/ CopySlot \/ AdvanceHead
            \/ Release \/ DequeueEnd

RingNext == Producer \/ Consumer

RingSpec == RingInit /\ [][RingNext]_ring_vars
-----------------------------------------------------------------------------
(* Properties *)

\* Every variable keeps its type; count never leaves 0 .. Capacity.
RingTypeOK ==
  /\ slot \in [Slots -> Values \cup {Blank}]
  /\ head \in Slots /\ tail \in Slots
  /\ count \in 0 .. Capacity
  /\ high_watermark \in 0 .. Capacity
  /\ enqueue_count \in Nat /\ dequeue_count \in Nat
  /\ failed_enqueue_count \in Nat /\ failed_dequeue_count \in Nat
  /\ producer \in {"idle", "clear", "fill", "advance", "publish", "account"}
  /\ message \in Values \cup {Nothing}
  /\ consumer \in {"idle", "copy", "advance", "release", "account"}
  /\ copied \in Values \cup {Blank, Nothing}
  /\ out \in Values \cup {Blank, Nothing}

\* While the consumer copies a slot the producer never writes that slot, even
\* though the two only meet in kernel_ring_buffer_count.
SlotsNotShared ==
  producer \in {"clear", "fill"} /\ consumer \in {"copy", "advance"} => tail # head

\* The oldest slot the consumer has not given back.
OldestSlot == IF consumer = "release" THEN (head + Capacity - 1) % Capacity ELSE head

\* The accepted messages, oldest first.
Contents == [i \in 1 .. count |-> slot[(OldestSlot + i - 1) % Capacity]]

Fifo == INSTANCE BoundedFifo WITH queue <- Contents

\* The ring is a bounded FIFO: each message is delivered once, whole and in
\* order, under every interleaving of the two sides.
RingIsFifo == Fifo!Spec
=============================================================================
