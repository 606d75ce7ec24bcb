-------------------------- MODULE AllocatorProofs --------------------------
(***************************************************************************)
(* Proofs about the allocators and the slot ring of kernel/memory.         *)
(*                                                                         *)
(* ring_buffer.c is a bounded FIFO for every capacity and every set of     *)
(* messages, under every interleaving of its producer and its consumer.    *)
(* The two sides move tail, head and count in separate steps, so the three *)
(* agree only up to what each side has still to do: tail is count slots    *)
(* past the oldest one, and one more while the producer has advanced it    *)
(* and not yet published.                                                  *)
(*                                                                         *)
(* frame_arena.c and stack_allocator.c hand out regions that share no      *)
(* byte.  All live ones end below the offset, so one placed at or above it *)
(* is new; what has to be shown is that rounding up does not wrap.         *)
(*                                                                         *)
(* The over-aligned blocks of cxx_runtime.cpp and hal_memory.c each lie    *)
(* with the word below them in a chunk of kmalloc of their own, so filling *)
(* one leaves the words of the others alone.                               *)
(***************************************************************************)
EXTENDS RingBuffer, BumpAllocators, ArithmeticLemmas
-----------------------------------------------------------------------------
(* ring_buffer.c *)

\* k slots after slot o.
Wrap(o, k) == IF o + k < Capacity THEN o + k ELSE o + k - Capacity

Oldest == IF consumer = "release" THEN (IF head = 0 THEN Capacity - 1 ELSE head - 1) ELSE head
At(k) == Wrap(Oldest, k)

\* A side that is past its test of count keeps what the test found: only the other side
\* moves count meanwhile, and in the other direction.
SidesInv ==
  /\ producer \in {"clear", "fill", "advance", "publish"} => count < Capacity /\ message \in Values
  /\ consumer \in {"copy", "advance", "release"} => count > 0

IndexInv == tail = At(IF producer = "publish" THEN count + 1 ELSE count)

DataInv ==
  /\ producer \in {"advance", "publish"} => slot[At(count)] = message
  /\ consumer \in {"advance", "release"} => copied = slot[Oldest]

IInv == RingTypeOK /\ SidesInv /\ IndexInv /\ DataInv
-----------------------------------------------------------------------------
\* (o + k) % capacity of the code is the wrapped sum.
LEMMA WrapIsMod ==
  ASSUME RingAssumption, NEW o \in Slots, NEW k \in 0 .. Capacity
  PROVE  (o + k) % Capacity = Wrap(o, k) /\ Wrap(o, k) \in Slots
<1>0. Capacity \in Nat \ {0} /\ o \in 0 .. Capacity - 1
  BY DEF RingAssumption, Slots
<1>1. CASE o + k < Capacity
  <2>1. o + k = (0 * Capacity) + (o + k)
    BY <1>0
  <2>2. (o + k) % Capacity = o + k
    BY <1>0, <1>1, <2>1, DivisionUnique
  <2> QED
    BY <1>0, <1>1, <2>2 DEF Wrap, Slots
<1>2. CASE o + k >= Capacity
  <2>1. o + k = (1 * Capacity) + (o + k - Capacity) /\ o + k - Capacity \in 0 .. Capacity - 1
    BY <1>0, <1>2
  <2>2. (o + k) % Capacity = o + k - Capacity
    BY <1>0, <2>1, DivisionUnique
  <2> QED
    BY <1>0, <1>2, <2>1, <2>2 DEF Wrap, Slots
<1> QED
  BY <1>0, <1>1, <1>2

\* Fewer than capacity slots apart, two slots differ.
LEMMA WrapInjective ==
  ASSUME RingAssumption, NEW o \in Slots, NEW j \in 0 .. Capacity - 1, NEW k \in 0 .. Capacity - 1,
         Wrap(o, j) = Wrap(o, k)
  PROVE  j = k
BY DEF RingAssumption, Wrap, Slots

\* The next slot's successors are the slot's own, one further.
LEMMA WrapShift ==
  ASSUME RingAssumption, NEW o \in Slots, NEW k \in 0 .. Capacity - 1
  PROVE  Wrap(Wrap(o, 1), k) = Wrap(o, k + 1)
BY DEF RingAssumption, Wrap, Slots

\* The accepted messages are in the count slots from the oldest on.
LEMMA ContentsAt ==
  ASSUME RingAssumption, RingTypeOK
  PROVE  /\ Oldest = OldestSlot /\ Oldest \in Slots
         /\ Contents = [i \in 1 .. count |-> slot[At(i - 1)]]
         /\ Contents \in Seq(Values \cup {Blank}) /\ Len(Contents) = count
<1>0. Capacity \in Nat \ {0} /\ head \in 0 .. Capacity - 1 /\ count \in 0 .. Capacity
  BY DEF RingAssumption, RingTypeOK, Slots
<1>1. Oldest \in Slots
  BY <1>0 DEF Oldest, Slots
<1>2. Oldest = OldestSlot
  <2>1. head \in Slots /\ Capacity - 1 \in 0 .. Capacity
    BY <1>0 DEF Slots
  <2>2. (head + (Capacity - 1)) % Capacity = Wrap(head, Capacity - 1)
    BY <2>1, WrapIsMod
  <2>3. head + (Capacity - 1) = head + Capacity - 1
    BY <1>0
  <2> QED
    BY <1>0, <2>2, <2>3 DEF Oldest, OldestSlot, Wrap
<1>3. \A i \in 1 .. count : (Oldest + i - 1) % Capacity = At(i - 1) /\ At(i - 1) \in Slots
  <2> SUFFICES ASSUME NEW i \in 1 .. count
               PROVE  (Oldest + i - 1) % Capacity = At(i - 1) /\ At(i - 1) \in Slots
    OBVIOUS
  <2>1. i - 1 \in 0 .. Capacity /\ Oldest + (i - 1) = Oldest + i - 1
    BY <1>0, <1>1 DEF Slots
  <2> QED
    BY <1>1, <2>1, WrapIsMod DEF At
<1>4. Contents = [i \in 1 .. count |-> slot[At(i - 1)]]
  BY <1>2, <1>3 DEF Contents
<1>5. \A i \in 1 .. count : slot[At(i - 1)] \in Values \cup {Blank}
  BY <1>3 DEF RingTypeOK
<1>6. Contents \in Seq(Values \cup {Blank})
  BY <1>0, <1>4, <1>5
<1>7. Len(Contents) = count
  BY <1>0, <1>4
<1> QED
  BY <1>1, <1>2, <1>4, <1>6, <1>7

\* One slot after the k-th is the next one.
LEMMA WrapNext ==
  ASSUME RingAssumption, NEW o \in Slots, NEW k \in 0 .. Capacity - 1
  PROVE  Wrap(Wrap(o, k), 1) = Wrap(o, k + 1)
BY DEF RingAssumption, Wrap, Slots
-----------------------------------------------------------------------------
(* The inductive invariant *)

\* An initialised ring satisfies it.
LEMMA InitInv == ASSUME RingAssumption PROVE RingInit => IInv
<1> SUFFICES ASSUME RingInit PROVE IInv
  OBVIOUS
<1>0. Capacity \in Nat \ {0}
  BY DEF RingAssumption
<1>1. head \in Slots /\ tail \in Slots /\ count \in 0 .. Capacity /\ high_watermark \in 0 .. Capacity
      /\ enqueue_count \in Nat /\ dequeue_count \in Nat
      /\ failed_enqueue_count \in Nat /\ failed_dequeue_count \in Nat
  BY <1>0 DEF RingInit, Slots
<1>2. RingTypeOK
  BY <1>1 DEF RingInit, RingTypeOK
<1>3. SidesInv /\ DataInv
  BY DEF RingInit, SidesInv, DataInv
<1>4. IndexInv
  BY <1>0 DEF RingInit, IndexInv, At, Oldest, Wrap
<1> QED
  BY <1>2, <1>3, <1>4 DEF IInv

\* What the index arithmetic of one step amounts to in every state of the ring.
LEMMA IndexFacts ==
  ASSUME RingAssumption, IInv
  PROVE  /\ Capacity \in Nat \ {0} /\ Oldest \in Slots /\ head \in Slots /\ tail \in Slots
         /\ (head + 1) % Capacity = Wrap(head, 1) /\ Wrap(head, 1) \in Slots
         /\ (tail + 1) % Capacity = Wrap(tail, 1) /\ Wrap(tail, 1) \in Slots
         /\ consumer = "release" => head = Wrap(Oldest, 1)
         /\ producer # "publish" => tail = At(count)
         /\ producer = "publish" => tail = At(count + 1)
<1>1. Capacity \in Nat \ {0} /\ head \in Slots /\ tail \in Slots /\ 1 \in 0 .. Capacity
  BY DEF RingAssumption, IInv, RingTypeOK
<1>2. Oldest \in Slots
  BY ContentsAt DEF IInv
<1>3. consumer = "release" => head = Wrap(Oldest, 1)
  BY <1>1 DEF Oldest, Wrap, Slots
<1> QED
  BY <1>1, <1>2, <1>3, WrapIsMod DEF IInv, IndexInv

\* A write of the producer lands in none of the slots that hold an accepted message.
LEMMA WriteBesideContents ==
  ASSUME RingAssumption, IInv, producer \in {"clear", "fill"}, NEW v, NEW j \in 0 .. count - 1
  PROVE  /\ [slot EXCEPT ![tail] = v][At(j)] = slot[At(j)]
         /\ At(j) # tail
<1>1. tail = At(count) /\ count \in 0 .. Capacity - 1 /\ j \in 0 .. Capacity - 1 /\ j # count
      /\ slot \in [Slots -> Values \cup {Blank}] /\ Oldest \in Slots /\ Capacity \in Nat \ {0}
  BY IndexFacts DEF IInv, SidesInv, RingTypeOK, RingAssumption
<1>2. At(j) # tail
  BY <1>1, WrapInjective DEF At
<1>3. j \in 0 .. Capacity
  BY <1>1
<1>4. At(j) \in Slots
  BY <1>1, <1>3, WrapIsMod DEF At
<1> QED
  BY <1>1, <1>2, <1>4

\* Every step of the two sides keeps the types.
LEMMA TypeStep ==
  ASSUME RingAssumption, IInv, [RingNext]_ring_vars
  PROVE  RingTypeOK'
<1> USE DEF IInv, RingTypeOK
<1>0. Capacity \in Nat \ {0} /\ Wrap(head, 1) \in Slots /\ Wrap(tail, 1) \in Slots
      /\ (head + 1) % Capacity = Wrap(head, 1) /\ (tail + 1) % Capacity = Wrap(tail, 1)
  BY IndexFacts
<1>1. ASSUME NEW v \in Values, EnqueueBegin(v) PROVE RingTypeOK'
  BY <1>1 DEF EnqueueBegin, stats
<1>2. CASE EnqueueRefused
  BY <1>2 DEF EnqueueRefused
<1>3. CASE ClearSlot
  BY <1>3 DEF ClearSlot, stats
<1>4. CASE FillSlot
  BY <1>4 DEF FillSlot, SidesInv, stats
<1>5. CASE AdvanceTail
  BY <1>0, <1>5 DEF AdvanceTail, stats
<1>6. CASE Publish
  <2>1. count + 1 \in 0 .. Capacity
    BY <1>0, <1>6 DEF Publish, SidesInv
  <2> QED
    BY <1>6, <2>1 DEF Publish, stats
<1>7. CASE EnqueueEnd
  BY <1>7 DEF EnqueueEnd
<1>8. CASE DequeueBegin
  BY <1>8 DEF DequeueBegin, stats
<1>9. CASE DequeueRefused
  BY <1>9 DEF DequeueRefused
<1>10. CASE CopySlot
  BY <1>10 DEF CopySlot, stats
<1>11. CASE AdvanceHead
  BY <1>0, <1>11 DEF AdvanceHead, stats
<1>12. CASE Release
  <2>1. count - 1 \in 0 .. Capacity
    BY <1>0, <1>12 DEF Release, SidesInv
  <2> QED
    BY <1>12, <2>1 DEF Release, stats
<1>13. CASE DequeueEnd
  BY <1>13 DEF DequeueEnd
<1>14. CASE UNCHANGED ring_vars
  BY <1>14 DEF ring_vars
<1> QED
  BY <1>1, <1>2, <1>3, <1>4, <1>5, <1>6, <1>7, <1>8, <1>9, <1>10, <1>11, <1>12, <1>13, <1>14
  DEF RingNext, Producer, Consumer

\* A step that moves neither an index nor the store, and leaves both sides where they
\* were, keeps where the messages are.
LEMMA SameRing ==
  ASSUME UNCHANGED <<slot, head, tail, count, consumer>>
  PROVE  /\ Oldest' = Oldest /\ \A k : At(k)' = At(k)
         /\ Contents' = Contents
BY DEF Oldest, At, Wrap, Contents, OldestSlot

\* Every step of the two sides keeps the agreement of head, tail, count and the slots.
LEMMA RingStep ==
  ASSUME RingAssumption, IInv, [RingNext]_ring_vars
  PROVE  SidesInv' /\ IndexInv' /\ DataInv'
<1> USE DEF SidesInv, IndexInv, DataInv
<1>0. /\ Capacity \in Nat \ {0} /\ count \in 0 .. Capacity
      /\ Oldest \in Slots /\ head \in Slots /\ tail \in Slots
      /\ (head + 1) % Capacity = Wrap(head, 1) /\ Wrap(head, 1) \in Slots
      /\ (tail + 1) % Capacity = Wrap(tail, 1)
      /\ consumer = "release" => head = Wrap(Oldest, 1)
      /\ producer # "publish" => tail = At(count)
      /\ producer = "publish" => tail = At(count + 1)
      /\ slot \in [Slots -> Values \cup {Blank}]
  BY IndexFacts DEF IInv, RingTypeOK
<1>a. SidesInv /\ IndexInv /\ DataInv
  BY DEF IInv
<1>b. count > 0 => At(0) = Oldest /\ 0 \in 0 .. count - 1
  BY <1>0 DEF At, Wrap, Slots
<1>1. ASSUME NEW v \in Values, EnqueueBegin(v) PROVE SidesInv' /\ IndexInv' /\ DataInv'
  BY <1>a, <1>1 DEF EnqueueBegin, HasRoom, Oldest, At, Wrap
<1>2. CASE EnqueueRefused
  BY <1>a, <1>2 DEF EnqueueRefused, Oldest, At, Wrap
<1>3. CASE ClearSlot
  <2>1. Oldest' = Oldest /\ At(count)' = At(count)
    BY <1>3 DEF ClearSlot, Oldest, At, Wrap
  <2>2. consumer \in {"advance", "release"} => slot'[Oldest] = slot[Oldest]
    BY <1>3, <1>a, <1>b, WriteBesideContents DEF ClearSlot
  <2> QED
    BY <1>0, <1>3, <1>a, <2>1, <2>2 DEF ClearSlot
<1>4. CASE FillSlot
  <2>1. Oldest' = Oldest /\ At(count)' = At(count)
    BY <1>4 DEF FillSlot, Oldest, At, Wrap
  <2>2. consumer \in {"advance", "release"} => slot'[Oldest] = slot[Oldest]
    BY <1>4, <1>a, <1>b, WriteBesideContents DEF FillSlot
  <2>3. slot'[At(count)] = message
    BY <1>0, <1>4 DEF FillSlot
  <2> QED
    BY <1>0, <1>4, <1>a, <2>1, <2>2, <2>3 DEF FillSlot
<1>5. CASE AdvanceTail
  <2>1. Oldest' = Oldest /\ At(count)' = At(count) /\ At(count + 1)' = At(count + 1)
    BY <1>5 DEF AdvanceTail, Oldest, At, Wrap
  <2>2. count \in 0 .. Capacity - 1
    BY <1>0, <1>5, <1>a DEF AdvanceTail
  <2>3. Wrap(tail, 1) = At(count + 1)
    BY <1>0, <1>5, <2>2, WrapNext DEF AdvanceTail, At
  <2> QED
    BY <1>0, <1>5, <1>a, <2>1, <2>3 DEF AdvanceTail
<1>6. CASE Publish
  <2>1. Oldest' = Oldest /\ At(count)' = Wrap(Oldest, count + 1)
    BY <1>6 DEF Publish, Oldest, At, Wrap
  <2> QED
    BY <1>0, <1>6, <1>a, <2>1 DEF Publish, At
<1>7. CASE EnqueueEnd
  BY <1>a, <1>7 DEF EnqueueEnd, Oldest, At, Wrap
<1>8. CASE DequeueBegin
  <2>1. Oldest' = Oldest /\ At(count)' = At(count) /\ At(count + 1)' = At(count + 1)
    BY <1>8 DEF DequeueBegin, Oldest, At, Wrap
  <2> QED
    BY <1>0, <1>a, <1>8, <2>1 DEF DequeueBegin
<1>9. CASE DequeueRefused
  BY <1>a, <1>9 DEF DequeueRefused, Oldest, At, Wrap
<1>10. CASE CopySlot
  BY <1>a, <1>10 DEF CopySlot, Oldest, At, Wrap
<1>11. CASE AdvanceHead
  <2>1. Oldest' = Oldest
    BY <1>0, <1>11 DEF AdvanceHead, Oldest, Wrap, Slots
  <2>2. At(count)' = At(count) /\ At(count + 1)' = At(count + 1)
    BY <1>11, <2>1 DEF AdvanceHead, At, Wrap
  <2> QED
    BY <1>a, <1>11, <2>1, <2>2 DEF AdvanceHead
<1>12. CASE Release
  <2>1. Oldest' = Wrap(Oldest, 1) /\ count' = count - 1 /\ count - 1 \in 0 .. Capacity - 1
    BY <1>0, <1>12, <1>a DEF Release, Oldest
  <2>2. At(count)' = Wrap(Wrap(Oldest, 1), count - 1) /\ At(count + 1)' = Wrap(Wrap(Oldest, 1), count - 1 + 1)
    BY <2>1 DEF At, Wrap
  <2>3. At(count)' = At(count)
    BY <1>0, <2>1, <2>2, WrapShift DEF At
  <2>4. producer = "publish" => At(count + 1)' = At(count + 1)
    <3> SUFFICES ASSUME producer = "publish" PROVE At(count + 1)' = At(count + 1)
      OBVIOUS
    <3>1. count \in 0 .. Capacity - 1 /\ count - 1 + 1 = count
      BY <1>0, <1>a
    <3> QED
      BY <1>0, <2>2, <3>1, WrapShift DEF At
  <2> QED
    BY <1>0, <1>a, <1>12, <2>1, <2>3, <2>4 DEF Release
<1>13. CASE DequeueEnd
  BY <1>a, <1>13 DEF DequeueEnd, Oldest, At, Wrap
<1>14. CASE UNCHANGED ring_vars
  BY <1>a, <1>14 DEF ring_vars, Oldest, At, Wrap
<1> QED
  BY <1>1, <1>2, <1>3, <1>4, <1>5, <1>6, <1>7, <1>8, <1>9, <1>10, <1>11, <1>12, <1>13, <1>14
  DEF RingNext, Producer, Consumer
-----------------------------------------------------------------------------
(* The refinement *)

\* The value of count the producer publishes appends its message.
LEMMA PublishPuts ==
  ASSUME RingAssumption, IInv, IInv', Publish
  PROVE  Fifo!Put(message) /\ message \in Values
<1>1. /\ count \in 0 .. Capacity - 1 /\ count' = count + 1 /\ count + 1 \in Nat
      /\ message \in Values /\ slot[At(count)] = message /\ Capacity \in Nat
      /\ slot' = slot /\ out' = out /\ Oldest' = Oldest /\ \A k : At(k)' = At(k)
  <2>1. Capacity \in Nat
    BY DEF RingAssumption
  <2>2. /\ count \in 0 .. Capacity - 1 /\ count' = count + 1 /\ count + 1 \in Nat
        /\ message \in Values /\ slot[At(count)] = message
    BY <2>1 DEF IInv, RingTypeOK, SidesInv, DataInv, Publish
  <2>3. slot' = slot /\ out' = out /\ Oldest' = Oldest /\ \A k : At(k)' = At(k)
    BY DEF Publish, Oldest, At, Wrap
  <2> QED
    BY <2>1, <2>2, <2>3
<1>2. /\ Contents = [i \in 1 .. count |-> slot[At(i - 1)]]
      /\ Contents \in Seq(Values \cup {Blank}) /\ Len(Contents) = count
  BY ContentsAt DEF IInv
<1>3. (Contents = [i \in 1 .. count |-> slot[At(i - 1)]])'
  <2>1. RingTypeOK'
    BY DEF IInv
  <2> QED
    BY <2>1, ContentsAt, PTL
<1>4. Len(Contents) < Capacity
  BY <1>1, <1>2
<1>5. Contents' = [i \in 1 .. count + 1 |-> slot[At(i - 1)]]
  BY <1>1, <1>3
<1>6. Append(Contents, message) = [i \in 1 .. count + 1 |-> slot[At(i - 1)]]
  <2>1. Append(Contents, message) = [i \in 1 .. count + 1 |-> IF i <= count THEN Contents[i] ELSE message]
    BY <1>1, <1>2
  <2>2. \A i \in 1 .. count + 1 : (IF i <= count THEN Contents[i] ELSE message) = slot[At(i - 1)]
    <3> SUFFICES ASSUME NEW i \in 1 .. count + 1
                 PROVE  (IF i <= count THEN Contents[i] ELSE message) = slot[At(i - 1)]
      OBVIOUS
    <3>1. CASE i <= count
      BY <1>1, <1>2, <3>1
    <3>2. CASE i = count + 1
      BY <1>1, <3>2
    <3> QED
      BY <1>1, <3>1, <3>2
  <2> QED
    BY <2>1, <2>2
<1> QED
  BY <1>1, <1>4, <1>5, <1>6 DEF Fifo!Put

\* The value of count the consumer releases takes the oldest message, whole.
LEMMA ReleaseTakes ==
  ASSUME RingAssumption, IInv, IInv', Release
  PROVE  Fifo!Take
<1>1. /\ Capacity \in Nat \ {0} /\ count \in 1 .. Capacity /\ count' = count - 1
      /\ slot' = slot /\ out' = slot[Oldest] /\ Oldest \in Slots
      /\ Oldest' = head /\ head = Wrap(Oldest, 1)
  <2>1. count > 0 /\ count \in 0 .. Capacity /\ copied = slot[Oldest]
    BY DEF IInv, RingTypeOK, SidesInv, DataInv, Release
  <2> QED
    BY <2>1, IndexFacts DEF Release, Oldest
<1>2. /\ Contents = [i \in 1 .. count |-> slot[At(i - 1)]]
      /\ Contents \in Seq(Values \cup {Blank}) /\ Len(Contents) = count
  BY ContentsAt DEF IInv
<1>3. (Contents = [i \in 1 .. count |-> slot[At(i - 1)]])'
  <2>1. RingTypeOK'
    BY DEF IInv
  <2> QED
    BY <2>1, ContentsAt, PTL
<1>4. \A k : At(k)' = Wrap(Wrap(Oldest, 1), k)
  BY <1>1 DEF At, Wrap
<1>5. \A i \in 1 .. count - 1 : At(i - 1)' = At(i)
  <2> SUFFICES ASSUME NEW i \in 1 .. count - 1 PROVE At(i - 1)' = At(i)
    OBVIOUS
  <2>1. i - 1 \in 0 .. Capacity - 1 /\ i - 1 + 1 = i
    BY <1>1
  <2> QED
    BY <1>1, <1>4, <2>1, WrapShift DEF At
<1>6. Contents' = [i \in 1 .. count - 1 |-> slot[At(i)]]
  BY <1>1, <1>3, <1>5
<1>7. Contents # << >>
  BY <1>1, <1>2
<1>8. Tail(Contents) = [i \in 1 .. count - 1 |-> Contents[i + 1]]
  BY <1>1, <1>2
<1>9. \A i \in 1 .. count - 1 : Contents[i + 1] = slot[At(i)]
  <2> SUFFICES ASSUME NEW i \in 1 .. count - 1 PROVE Contents[i + 1] = slot[At(i)]
    OBVIOUS
  <2>1. i + 1 \in 1 .. count /\ i + 1 - 1 = i
    BY <1>1
  <2> QED
    BY <1>2, <2>1
<1>10. Head(Contents) = slot[Oldest]
  <2>1. 1 \in 1 .. count /\ 1 - 1 = 0 /\ At(0) = Oldest
    BY <1>1 DEF At, Wrap, Slots
  <2>2. Contents[1] = slot[Oldest]
    BY <1>2, <2>1
  <2> QED
    BY <1>2, <1>7, <2>2
<1> QED
  BY <1>1, <1>6, <1>7, <1>8, <1>9, <1>10 DEF Fifo!Take

\* Every other step is invisible: the messages accepted and the last one delivered stay.
LEMMA OtherStepsStutter ==
  ASSUME RingAssumption, IInv, IInv', [RingNext]_ring_vars, ~Publish, ~Release
  PROVE  UNCHANGED <<Contents, out>>
<1>1. ASSUME UNCHANGED <<slot, head, tail, count, consumer, out>> PROVE UNCHANGED <<Contents, out>>
  BY <1>1, SameRing
<1>2. /\ Contents = [i \in 1 .. count |-> slot[At(i - 1)]]
      /\ count \in 0 .. Capacity /\ Capacity \in Nat \ {0} /\ head \in Slots
  BY ContentsAt DEF IInv, RingTypeOK, RingAssumption
<1>3. (Contents = [i \in 1 .. count |-> slot[At(i - 1)]])'
  <2>1. RingTypeOK'
    BY DEF IInv
  <2> QED
    BY <2>1, ContentsAt, PTL
<1>4. ASSUME UNCHANGED <<slot, count, out>>, Oldest' = Oldest PROVE UNCHANGED <<Contents, out>>
  <2>1. \A k : At(k)' = At(k)
    BY <1>4 DEF At, Wrap
  <2> QED
    BY <1>2, <1>3, <1>4, <2>1
<1>5. ASSUME producer \in {"clear", "fill"},
             \E v \in {Blank, message} : slot' = [slot EXCEPT ![tail] = v],
             UNCHANGED <<head, count, consumer, out>>
      PROVE  UNCHANGED <<Contents, out>>
  <2>1. \A k : At(k)' = At(k)
    BY <1>5 DEF At, Oldest, Wrap
  <2>2. \A i \in 1 .. count : slot'[At(i - 1)] = slot[At(i - 1)]
    <3> SUFFICES ASSUME NEW i \in 1 .. count PROVE slot'[At(i - 1)] = slot[At(i - 1)]
      OBVIOUS
    <3>1. i - 1 \in 0 .. count - 1
      BY <1>2
    <3> QED
      BY <1>5, <3>1, WriteBesideContents
  <2> QED
    BY <1>2, <1>3, <1>5, <2>1, <2>2
<1>6. CASE ClearSlot
  <2>1. producer = "clear" /\ slot' = [slot EXCEPT ![tail] = Blank] /\ UNCHANGED <<head, count, consumer, out>>
    BY <1>6 DEF ClearSlot
  <2> QED
    BY <1>5, <2>1
<1>7. CASE FillSlot
  <2>1. producer = "fill" /\ slot' = [slot EXCEPT ![tail] = message] /\ UNCHANGED <<head, count, consumer, out>>
    BY <1>7 DEF FillSlot
  <2> QED
    BY <1>5, <2>1
<1>8. CASE AdvanceHead
  <2>1. Oldest' = Oldest
    <3>1. head' = Wrap(head, 1)
      BY <1>8, IndexFacts DEF AdvanceHead
    <3> QED
      BY <1>2, <1>8, <3>1 DEF AdvanceHead, Oldest, Wrap, Slots
  <2> QED
    BY <1>4, <1>8, <2>1 DEF AdvanceHead
<1>9. CASE AdvanceTail \/ DequeueBegin \/ CopySlot \/ DequeueEnd
  BY <1>4, <1>9 DEF AdvanceTail, DequeueBegin, CopySlot, DequeueEnd, Oldest
<1>10. ASSUME NEW v \in Values, EnqueueBegin(v) PROVE UNCHANGED <<Contents, out>>
  BY <1>1, <1>10 DEF EnqueueBegin
<1>11. CASE EnqueueRefused \/ EnqueueEnd \/ DequeueRefused
  BY <1>1, <1>11 DEF EnqueueRefused, EnqueueEnd, DequeueRefused
<1>12. CASE UNCHANGED ring_vars
  BY <1>1, <1>12 DEF ring_vars
<1> QED
  BY <1>6, <1>7, <1>8, <1>9, <1>10, <1>11, <1>12 DEF RingNext, Producer, Consumer

\* IInv holds in every state the two sides can reach.
LEMMA IInvInvariant == ASSUME RingAssumption PROVE RingSpec => []IInv
<1>1. IInv /\ [RingNext]_ring_vars => IInv'
  BY TypeStep, RingStep DEF IInv
<1> QED
  BY InitInv, <1>1, PTL DEF RingSpec

\* Every variable keeps its type, and the producer of ring_buffer.c never writes the slot
\* the consumer is copying, for every capacity, including 1.
THEOREM SlotsNotSharedTheorem ==
  ASSUME RingAssumption
  PROVE  RingSpec => [](RingTypeOK /\ SlotsNotShared)
<1>1. IInv => RingTypeOK /\ SlotsNotShared
  <2> SUFFICES ASSUME IInv, producer \in {"clear", "fill"}, consumer \in {"copy", "advance"}
               PROVE  tail # head
    BY DEF IInv, SlotsNotShared
  <2>1. 0 \in 0 .. count - 1 /\ At(0) = head
    BY DEF IInv, SidesInv, RingTypeOK, At, Wrap, Oldest, Slots, RingAssumption
  <2> QED
    BY <2>1, WriteBesideContents
<1> QED
  BY IInvInvariant, <1>1, PTL

\* The ring of ring_buffer.c is a bounded FIFO: publishing count is the put, releasing it
\* the take, and every other access to memory, on either side, is invisible.
THEOREM RingRefinesFifo ==
  ASSUME RingAssumption
  PROVE  RingSpec => RingIsFifo
<1>1. RingInit => Fifo!Init
  <2> SUFFICES ASSUME RingInit PROVE Contents = << >> /\ out = Nothing
    BY DEF Fifo!Init, Fifo!Nothing, Nothing
  <2>1. count = 0 /\ RingTypeOK /\ out = Nothing
    BY InitInv DEF RingInit, IInv
  <2> QED
    BY <2>1, ContentsAt
<1>2. IInv /\ IInv' /\ [RingNext]_ring_vars => [Fifo!Next]_<<Contents, out>>
  <2> SUFFICES ASSUME IInv, IInv', [RingNext]_ring_vars PROVE Fifo!Next \/ UNCHANGED <<Contents, out>>
    OBVIOUS
  <2>1. CASE Publish
    BY <2>1, PublishPuts DEF Fifo!Next
  <2>2. CASE Release
    BY <2>2, ReleaseTakes DEF Fifo!Next
  <2>3. CASE ~Publish /\ ~Release
    BY <2>3, OtherStepsStutter
  <2> QED
    BY <2>1, <2>2, <2>3
<1> QED
  BY IInvInvariant, <1>1, <1>2, PTL DEF RingSpec, RingIsFifo, Fifo!Spec
-----------------------------------------------------------------------------
(* frame_arena.c and stack_allocator.c *)

\* An offset inside the store is rounded up without wrapping: the alignment is small
\* enough beside what the word leaves above the store.
LEMMA RoundedUp ==
  ASSUME BumpAssumption, NEW align \in Aligns, NEW capacity \in {ArenaCapacity, StackCapacity},
         NEW offset \in 0 .. capacity
  PROVE  LET at == AlignUp(offset, EffectiveAlign(align)) IN at \in Nat /\ offset <= at
<1> DEFINE a == EffectiveAlign(align)
           sum == offset + a - 1
<1>1. a \in Nat \ {0} /\ capacity \in Nat /\ Word \in Nat \ {0} /\ capacity + a <= Word
  BY DEF BumpAssumption, EffectiveAlign
<1> HIDE DEF a
<1>2. sum \in Nat /\ sum < Word /\ sum = (0 * Word) + sum
  BY <1>1
<1>3. sum % Word = sum
  BY <1>1, <1>2, DivisionUnique
<1>4. sum % a \in 0 .. (a - 1)
  BY <1>1, <1>2, DivisionWithRemainder
<1>5. AlignUp(offset, a) = sum - (sum % a)
  BY <1>3 DEF AlignUp
<1> QED
  BY <1>1, <1>2, <1>4, <1>5 DEF a

ArenaInv ==
  /\ arena_offset \in 0 .. ArenaCapacity /\ arena_budget \in Budgets
  /\ arena_live \subseteq Regions(ArenaCapacity) /\ ArenaRegionsDisjoint

StackInv ==
  /\ stack_offset \in 0 .. StackCapacity /\ markers \subseteq 0 .. StackCapacity
  /\ stack_live \subseteq Regions(StackCapacity) /\ StackRegionsDisjoint

\* A region placed at or above the offset, behind which all live ones end, is disjoint
\* from them and ends below the new offset.
LEMMA RegionAbove ==
  ASSUME NEW capacity \in Nat, NEW offset \in 0 .. capacity, NEW at \in Nat, NEW size \in Nat \ {0},
         offset <= at, Fits(at, size, capacity),
         NEW live \in SUBSET Regions(capacity), Disjoint(live), Below(live, offset)
  PROVE  LET more == live \cup {Region(at, size)} IN
           /\ at + size \in 0 .. capacity
           /\ more \subseteq Regions(capacity)
           /\ Disjoint(more) /\ Below(more, at + size)
<1> DEFINE new == Region(at, size)
<1>1. at + size \in 0 .. capacity
  BY DEF Fits
<1>2. new.from = at /\ new.to = at + size - 1 /\ new \in Regions(capacity)
  BY <1>1 DEF Region, Regions
<1>3. \A r \in live : r.from \in Nat /\ r.to \in Nat /\ r.from <= r.to /\ r.to < offset
  BY DEF Below, Regions
<1> HIDE DEF new
<1>4. \A r \in live : r.to < new.from
  BY <1>2, <1>3
<1>5. Disjoint(live \cup {new})
  BY <1>4 DEF Disjoint
<1>6. Below(live \cup {new}, at + size)
  BY <1>1, <1>2, <1>3 DEF Below
<1> QED
  BY <1>1, <1>2, <1>5, <1>6 DEF new

\* A step of the arena keeps its regions apart and grows past no budget.
LEMMA ArenaStep ==
  ASSUME BumpAssumption, ArenaInv, [ArenaNext]_(arena_vars)
  PROVE  /\ ArenaInv'
         /\ arena_offset' > arena_offset /\ arena_budget # 0 => arena_offset' <= arena_budget
<1>1. ASSUME NEW size \in Sizes, NEW align \in Aligns, ArenaAlloc(size, align)
      PROVE  /\ ArenaInv'
             /\ arena_budget # 0 => arena_offset' <= arena_budget
  <2> DEFINE at == AlignUp(arena_offset, EffectiveAlign(align))
  <2>1. at \in Nat /\ arena_offset <= at
    BY RoundedUp DEF ArenaInv
  <2>2. /\ size \in Nat \ {0} /\ Fits(at, size, ArenaCapacity) /\ WithinBudget(at, size)
        /\ arena_offset' = at + size /\ arena_live' = arena_live \cup {Region(at, size)}
        /\ arena_budget' = arena_budget
    BY <1>1 DEF ArenaAlloc, BumpAssumption
  <2> HIDE DEF at
  <2>3. ArenaCapacity \in Nat /\ Word \in Nat \ {0} /\ ArenaCapacity < Word
    BY DEF BumpAssumption
  <2>4. /\ at + size \in 0 .. ArenaCapacity
        /\ arena_live' \subseteq Regions(ArenaCapacity)
        /\ Disjoint(arena_live') /\ Below(arena_live', at + size)
    BY <2>1, <2>2, <2>3, RegionAbove DEF ArenaInv, ArenaRegionsDisjoint
  <2>5. ArenaInv'
    BY <2>2, <2>4 DEF ArenaInv, ArenaRegionsDisjoint, Disjoint, Below, Regions
  <2>6. (at + size) % Word = at + size
    <3>1. at + size \in 0 .. (Word - 1) /\ at + size = (0 * Word) + (at + size)
      BY <2>3, <2>4
    <3> QED
      BY <3>1, <2>3, DivisionUnique
  <2> QED
    BY <2>2, <2>5, <2>6 DEF WithinBudget
<1>2. ASSUME ArenaReset
      PROVE  ArenaInv' /\ arena_offset' = 0
  <2>1. ArenaCapacity \in Nat
    BY DEF BumpAssumption
  <2>2. Disjoint(arena_live') /\ Below(arena_live', arena_offset')
    BY <1>2 DEF ArenaReset, Disjoint, Below
  <2> QED
    BY <1>2, <2>1, <2>2 DEF ArenaInv, ArenaReset, ArenaRegionsDisjoint, Disjoint, Below, Regions
<1>3. ASSUME NEW budget \in Budgets, SetFrameBudget(budget)
      PROVE  ArenaInv' /\ arena_offset' = arena_offset
  BY <1>3 DEF ArenaInv, SetFrameBudget, ArenaRegionsDisjoint, Disjoint, Below,
              Regions
<1>4. ASSUME UNCHANGED arena_vars
      PROVE  ArenaInv' /\ arena_offset' = arena_offset
  BY <1>4 DEF ArenaInv, arena_vars, ArenaRegionsDisjoint, Disjoint, Below,
              Regions
<1>5. arena_offset \in Nat
  BY DEF ArenaInv
<1> QED
  BY <1>1, <1>2, <1>3, <1>4, <1>5 DEF ArenaNext

\* frame_arena.c: for every capacity, word width and set of requests the regions handed out
\* in a frame share no byte and lie below the offset, although the rounding of an offset and
\* the budget's sum are computed modulo the word; and no allocation takes the frame past the
\* budget in force, also when that was lowered in mid-frame.
THEOREM ArenaTheorem ==
  ASSUME BumpAssumption
  PROVE  ArenaSpec => []ArenaRegionsDisjoint /\ BudgetCapsGrowth
<1>1. ArenaInit => ArenaInv
  BY DEF ArenaInv, ArenaInit, BumpAssumption, ArenaRegionsDisjoint, Disjoint,
         Below
<1>2. ArenaInv /\ [ArenaNext]_(arena_vars)
        => /\ ArenaInv'
           /\ [arena_offset' > arena_offset /\ arena_budget # 0
                 => arena_offset' <= arena_budget]_(arena_vars)
  BY ArenaStep
<1>3. ArenaInv => ArenaRegionsDisjoint
  BY DEF ArenaInv
<1> QED
  BY <1>1, <1>2, <1>3, PTL DEF ArenaSpec, BudgetCapsGrowth

\* stack_allocator.c: the same of its regions, through rollbacks to any marker taken since
\* boot, in any order and however stale.
THEOREM StackTheorem ==
  ASSUME BumpAssumption
  PROVE  StackSpec => []StackRegionsDisjoint
<1> USE DEF StackRegionsDisjoint
<1>1. StackInit => StackInv
  <2> SUFFICES ASSUME StackInit PROVE StackInv
    OBVIOUS
  <2>1. StackCapacity \in Nat
    BY DEF BumpAssumption
  <2>2. Disjoint(stack_live) /\ Below(stack_live, stack_offset)
    BY DEF StackInit, Disjoint, Below
  <2> QED
    BY <2>1, <2>2 DEF StackInv, StackInit
<1>2. StackInv /\ [StackNext]_(stack_vars) => StackInv'
  <2> SUFFICES ASSUME StackInv, [StackNext]_(stack_vars) PROVE StackInv'
    OBVIOUS
  <2>1. ASSUME NEW size \in Sizes, NEW align \in Aligns, StackPush(size, align)
        PROVE  StackInv'
    <3> DEFINE at == AlignUp(stack_offset, EffectiveAlign(align))
    <3>1. at \in Nat /\ stack_offset <= at
      BY RoundedUp DEF StackInv
    <3>2. /\ size \in Nat \ {0} /\ Fits(at, size, StackCapacity) /\ markers' = markers
          /\ stack_offset' = at + size /\ stack_live' = stack_live \cup {Region(at, size)}
      BY <2>1 DEF StackPush, BumpAssumption
    <3> HIDE DEF at
    <3>3. StackCapacity \in Nat
      BY DEF BumpAssumption
    <3>4. /\ at + size \in 0 .. StackCapacity
          /\ stack_live' \subseteq Regions(StackCapacity)
          /\ Disjoint(stack_live') /\ Below(stack_live', at + size)
      BY <3>1, <3>2, <3>3, RegionAbove DEF StackInv
    <3> QED
      BY <3>2, <3>4 DEF StackInv, Disjoint, Below, Regions
  <2>2. CASE StackMarker
    BY <2>2 DEF StackInv, StackMarker, Disjoint, Below, Regions
  <2>3. ASSUME NEW marker \in markers, StackRollback(marker)
        PROVE  StackInv'
    <3>1. marker \in 0 .. StackCapacity /\ stack_live' \subseteq stack_live
      BY <2>3 DEF StackInv, StackRollback
    <3>2. Below(stack_live', marker)
      BY <2>3 DEF StackInv, StackRollback, Below
    <3> QED
      BY <2>3, <3>1, <3>2 DEF StackInv, StackRollback, Disjoint, Below, Regions
  <2>4. CASE UNCHANGED stack_vars
    BY <2>4 DEF StackInv, stack_vars, Disjoint, Below, Regions
  <2> QED
    BY <2>1, <2>2, <2>3, <2>4 DEF StackNext
<1>3. StackInv => StackRegionsDisjoint
  BY DEF StackInv
<1> QED
  BY <1>1, <1>2, <1>3, PTL DEF StackSpec
-----------------------------------------------------------------------------
(* cxx_runtime.cpp and hal_memory.c *)

\* Rounding an address up moves it by less than the alignment.
LEMMA AlignedAbove ==
  ASSUME NEW x \in Nat, NEW a \in Nat \ {0}
  PROVE  /\ AlignedFrom(x, a) \in x .. (x + a - 1)
         /\ AlignedFrom(x, a) % a = 0
<1> DEFINE p == x + a - 1
           q == p \div a
<1>1. p \in Nat
  OBVIOUS
<1>2. q \in Nat /\ p % a \in 0 .. (a - 1) /\ p = (q * a) + (p % a)
  BY <1>1, DivisionWithRemainder
<1>3. AlignedFrom(x, a) = q * a
  BY DEF AlignedFrom
<1> HIDE DEF q
<1>4. q * a \in Nat
  BY <1>2
<1>5. q * a \in x .. (x + a - 1)
  BY <1>2, <1>4
<1>6. q * a = (q * a) + 0 /\ 0 \in 0 .. (a - 1)
  BY <1>4
<1>7. (q * a) % a = 0
  BY <1>2, <1>4, <1>6, DivisionUnique
<1> QED
  BY <1>3, <1>5, <1>7

Apart(c, d) == c.base + c.length <= d.base \/ d.base + d.length <= c.base

\* The stored word names the chunk that holds both the word and the block.
Carved(b, c) ==
  /\ c.base = word[b.block - Pointer]
  /\ c.base <= b.block - Pointer /\ b.block + b.size <= c.base + c.length

\* One chunk for each block: chunks are disjoint, and no two blocks name the same one.
BlocksInv ==
  /\ released = {}
  /\ \A c \in chunks : c.base \in Nat /\ c.length \in Nat \ {0}
  /\ \A c, d \in chunks : c # d => Apart(c, d)
  /\ \A b \in held :
       /\ b.block \in Nat /\ b.size \in Nat /\ b.block % b.align = 0
       /\ b.block - Pointer \in DOMAIN word /\ \E c \in chunks : Carved(b, c)
  /\ \A b, e \in held : b # e => word[b.block - Pointer] # word[e.block - Pointer]
  /\ \A c \in chunks : \E b \in held : word[b.block - Pointer] = c.base

\* Two blocks lie in two chunks.
LEMMA BlocksApart ==
  ASSUME BlocksInv, NEW b \in held, NEW e \in held, b # e
  PROVE  \E c, d \in chunks : Carved(b, c) /\ Carved(e, d) /\ Apart(c, d)
BY DEF BlocksInv, Carved

\* What kmalloc returns shares no byte with what it returned before.
LEMMA FreshChunk ==
  ASSUME BlocksInv, NEW base \in Nat, NEW length \in Nat \ {0}, kmalloc(length, base),
         NEW c \in chunks
  PROVE  base + length <= c.base \/ c.base + c.length <= base
<1>1. c.base \in Nat /\ c.length \in Nat \ {0}
  BY DEF BlocksInv
<1>2. Bytes(c.base, c.length) \subseteq Taken
  BY DEF Taken
<1>3. base \in Bytes(base, length) /\ c.base \in Bytes(c.base, c.length)
  BY <1>1 DEF Bytes
<1>4. base \notin Bytes(c.base, c.length) /\ c.base \notin Bytes(base, length)
  BY <1>2, <1>3 DEF kmalloc
<1> QED
  BY <1>1, <1>4 DEF Bytes

\* An allocation adds one chunk and one block that it holds.
LEMMA HoldKeeps ==
  ASSUME BlocksInv, Pointer \in Nat \ {0}, NEW by, NEW base \in Nat, NEW length \in Nat \ {0},
         NEW block \in Nat, NEW size \in Nat, NEW align, block % align = 0,
         base <= block - Pointer, block + size <= base + length,
         Hold(by, base, length, block, size, align)
  PROVE  BlocksInv'
<1> DEFINE chunk == [base |-> base, length |-> length]
           new == [by |-> by, block |-> block, size |-> size, align |-> align]
           key == block - Pointer
<1>1. /\ kmalloc(length, base) /\ chunks' = chunks \cup {chunk} /\ held' = held \cup {new}
      /\ released' = released
      /\ word' = [a \in DOMAIN word \cup {key} |-> IF a = key THEN base ELSE word[a]]
  BY DEF Hold
<1>2. /\ chunk.base = base /\ chunk.length = length
      /\ new.block = block /\ new.size = size /\ new.align = align /\ key \in Int
  OBVIOUS
<1> HIDE DEF chunk, new
<1>3. \A c \in chunks : Apart(chunk, c) /\ Apart(c, chunk) /\ c.base # base
  <2> SUFFICES ASSUME NEW c \in chunks PROVE Apart(chunk, c) /\ Apart(c, chunk) /\ c.base # base
    OBVIOUS
  <2>1. c.base \in Nat /\ c.length \in Nat \ {0}
    BY DEF BlocksInv
  <2>2. base + length <= c.base \/ c.base + c.length <= base
    BY <1>1, FreshChunk
  <2> QED
    BY <1>2, <2>1, <2>2 DEF Apart
<1>4. \A b \in held : b.block - Pointer # key /\ word[b.block - Pointer] # base
  <2> SUFFICES ASSUME NEW b \in held PROVE b.block - Pointer # key /\ word[b.block - Pointer] # base
    OBVIOUS
  <2>1. PICK c \in chunks : Carved(b, c)
    BY DEF BlocksInv
  <2>2. Apart(chunk, c) /\ c.base # base /\ c.base \in Nat /\ c.length \in Nat
    BY <1>3 DEF BlocksInv
  <2>3. b.block \in Nat /\ b.size \in Nat
    BY DEF BlocksInv
  <2> QED
    BY <1>2, <2>1, <2>2, <2>3 DEF Carved, Apart
<1>5. word'[key] = base /\ key \in DOMAIN word'
  BY <1>1
<1>6. \A b \in held : /\ b.block - Pointer \in DOMAIN word'
                      /\ word'[b.block - Pointer] = word[b.block - Pointer]
  BY <1>1, <1>4 DEF BlocksInv
<1>7. \A c \in chunks' : c.base \in Nat /\ c.length \in Nat \ {0}
  BY <1>1, <1>2 DEF BlocksInv
<1>8. \A c, d \in chunks' : c # d => Apart(c, d)
  BY <1>1, <1>3 DEF BlocksInv
<1>9. \A b \in held' :
         /\ b.block \in Nat /\ b.size \in Nat /\ b.block % b.align = 0
         /\ b.block - Pointer \in DOMAIN word' /\ \E c \in chunks' : Carved(b, c)'
  <2>1. Carved(new, chunk)'
    BY <1>2, <1>5 DEF Carved
  <2>2. \A b \in held, c \in chunks : Carved(b, c) => Carved(b, c)'
    BY <1>6 DEF Carved
  <2>3. chunk \in chunks' /\ chunks \subseteq chunks'
    BY <1>1
  <2>4. ASSUME NEW b \in held
        PROVE  /\ b.block \in Nat /\ b.size \in Nat /\ b.block % b.align = 0
               /\ b.block - Pointer \in DOMAIN word' /\ \E c \in chunks' : Carved(b, c)'
    BY <1>6, <2>2, <2>3 DEF BlocksInv
  <2> QED
    BY <1>1, <1>2, <1>5, <2>1, <2>3, <2>4
<1>10. \A b, e \in held' : b # e => word'[b.block - Pointer] # word'[e.block - Pointer]
  <2> SUFFICES ASSUME NEW b \in held', NEW e \in held', b # e
               PROVE  word'[b.block - Pointer] # word'[e.block - Pointer]
    OBVIOUS
  <2>1. word'[new.block - Pointer] = base
    BY <1>2, <1>5
  <2>2. CASE b \in held /\ e \in held
    BY <1>6, <2>2 DEF BlocksInv
  <2>3. CASE b \in held /\ e = new
    BY <1>4, <1>6, <2>1, <2>3
  <2>4. CASE b = new /\ e \in held
    BY <1>4, <1>6, <2>1, <2>4
  <2> QED
    BY <1>1, <2>2, <2>3, <2>4
<1>11. released' = {}
  BY <1>1 DEF BlocksInv
<1>12. \A c \in chunks' : \E b \in held' : word'[b.block - Pointer] = c.base
  BY <1>1, <1>2, <1>5, <1>6 DEF BlocksInv
<1> QED
  BY <1>7, <1>8, <1>9, <1>10, <1>11, <1>12 DEF BlocksInv, Apart, Carved

\* Filling a block leaves the word below every held block alone.
LEMMA FillKeeps ==
  ASSUME BlocksInv, Pointer \in Nat \ {0}, NEW b \in held, Fill(b)
  PROVE  BlocksInv'
<1>1. /\ UNCHANGED <<chunks, held, released>>
      /\ word' = [a \in {x \in DOMAIN word :
                           Bytes(x, Pointer) \cap Bytes(b.block, b.size) = {}} |-> word[a]]
  BY DEF Fill
<1>2. ASSUME NEW e \in held
      PROVE  Bytes(e.block - Pointer, Pointer) \cap Bytes(b.block, b.size) = {}
  <2>1. e.block \in Nat /\ e.size \in Nat /\ b.block \in Nat /\ b.size \in Nat
    BY DEF BlocksInv
  <2>2. e.block <= b.block \/ b.block + b.size <= e.block - Pointer
    <3>1. CASE e = b
      BY <2>1, <3>1
    <3>2. CASE e # b
      <4>1. PICK c \in chunks, d \in chunks : Carved(b, c) /\ Carved(e, d) /\ Apart(c, d)
        BY <3>2, BlocksApart
      <4>2. c.base \in Nat /\ c.length \in Nat /\ d.base \in Nat /\ d.length \in Nat
        BY DEF BlocksInv
      <4> QED
        BY <2>1, <4>1, <4>2 DEF Carved, Apart
    <3> QED
      BY <3>1, <3>2
  <2> QED
    BY <2>1, <2>2 DEF Bytes
<1>3. \A e \in held : /\ e.block - Pointer \in DOMAIN word'
                      /\ word'[e.block - Pointer] = word[e.block - Pointer]
  BY <1>1, <1>2 DEF BlocksInv
<1>4. \A e \in held, c \in chunks : Carved(e, c) => Carved(e, c)'
  BY <1>3 DEF Carved
<1>5. \A e \in held : \E c \in chunks : Carved(e, c)'
  BY <1>4 DEF BlocksInv
<1> QED
  BY <1>1, <1>3, <1>5 DEF BlocksInv, Apart

\* A release finds the pointer of its own chunk below its block, and takes back that chunk
\* and no other.
LEMMA FreeKeeps ==
  ASSUME BlocksInv, Pointer \in Nat \ {0}, NEW b \in held, free_aligned(b)
  PROVE  BlocksInv'
<1> DEFINE at == b.block - Pointer
<1>1. PICK c \in chunks : Carved(b, c)
  BY DEF BlocksInv
<1>2. at \in DOMAIN word /\ word[at] = c.base
  BY <1>1 DEF BlocksInv, Carved
<1>3. /\ chunks' = {x \in chunks : x.base # c.base} /\ released' = released
      /\ held' = held \ {b} /\ word' = [a \in DOMAIN word \ {at} |-> word[a]]
  BY <1>1, <1>2 DEF free_aligned
<1>4. \A x \in chunks : x.base = c.base <=> x = c
  BY DEF BlocksInv, Apart
<1>5. chunks' = chunks \ {c}
  BY <1>3, <1>4
<1>6. ASSUME NEW e \in held'
      PROVE  /\ e \in held /\ e.block - Pointer \in DOMAIN word'
             /\ word'[e.block - Pointer] = word[e.block - Pointer]
             /\ \E d \in chunks' : Carved(e, d)'
  <2>1. e \in held /\ e # b
    BY <1>3
  <2>2. PICK d \in chunks : Carved(e, d)
    BY <2>1 DEF BlocksInv
  <2>3. word[e.block - Pointer] # word[at] /\ e.block - Pointer \in DOMAIN word
    BY <2>1 DEF BlocksInv
  <2>4. e.block - Pointer \in DOMAIN word' /\ word'[e.block - Pointer] = word[e.block - Pointer]
    BY <1>3, <2>3
  <2>5. d \in chunks' /\ Carved(e, d)'
    BY <1>2, <1>3, <2>2, <2>3, <2>4 DEF Carved
  <2> QED
    BY <2>1, <2>4, <2>5
<1>7. \A e, f \in held' : e # f => word'[e.block - Pointer] # word'[f.block - Pointer]
  BY <1>6 DEF BlocksInv
<1>8. released' = {} /\ chunks' \subseteq chunks
  BY <1>3 DEF BlocksInv
<1>9. \A e \in held' : e.block \in Nat /\ e.size \in Nat /\ e.block % e.align = 0
  BY <1>6 DEF BlocksInv
<1>10. /\ \A x \in chunks' : x.base \in Nat /\ x.length \in Nat \ {0}
       /\ \A x, d \in chunks' : x # d => Apart(x, d)
  BY <1>8 DEF BlocksInv
<1>11. \A x \in chunks' : \E e \in held' : word'[e.block - Pointer] = x.base
  <2> SUFFICES ASSUME NEW x \in chunks' PROVE \E e \in held' : word'[e.block - Pointer] = x.base
    OBVIOUS
  <2>1. PICK e \in held : word[e.block - Pointer] = x.base
    BY <1>3 DEF BlocksInv
  <2>2. e \in held'
    BY <1>2, <1>3, <2>1
  <2> QED
    BY <1>6, <2>1, <2>2
<1> QED
  BY <1>6, <1>7, <1>8, <1>9, <1>10, <1>11 DEF BlocksInv, Apart

\* cxx_runtime.cpp and hal_memory.c: for every pointer size, alignment and size, and wherever
\* kmalloc places its memory, an over-aligned block is aligned as asked, it and the word below
\* it lie inside one allocation of kmalloc that no other block shares, and every release hands
\* kfree a pointer kmalloc returned.
THEOREM BlocksTheorem ==
  ASSUME BumpAssumption
  PROVE  BlocksSpec => []AlignedBlocksExact
<1>0. /\ Pointer \in Nat \ {0} /\ BlockSizes \subseteq Nat /\ Alignments \subseteq Nat \ {0}
      /\ Space \in Nat
  BY DEF BumpAssumption
<1>1. BlocksInit => BlocksInv
  BY DEF BlocksInit, BlocksInv
<1>2. BlocksInv /\ [BlocksNext]_(block_vars) => BlocksInv'
  <2> SUFFICES ASSUME BlocksInv, [BlocksNext]_(block_vars) PROVE BlocksInv'
    OBVIOUS
  <2>1. ASSUME NEW size \in BlockSizes, NEW alignment \in Alignments, NEW base \in 0 .. (Space - 1),
               allocate_aligned(size, alignment, base)
                 \/ hal_memory_reserve(size, alignment, base)
        PROVE  BlocksInv'
    <3> DEFINE align == AtLeast(alignment, Pointer)
               bytes == AtLeast(size, 1)
               block == AlignedFrom(base + Pointer, align)
    <3>1. base \in Nat /\ size \in Nat /\ align \in Nat \ {0} /\ bytes \in Nat \ {0}
      BY <1>0 DEF AtLeast
    <3>2. /\ allocate_aligned(size, alignment, base)
               => Hold("runtime", base, bytes + Pointer + align - 1, block, bytes, align)
          /\ hal_memory_reserve(size, alignment, base)
               => Hold("hal", base, size + align + Pointer, block, size, align)
      BY DEF allocate_aligned, hal_memory_reserve
    <3> HIDE DEF align, bytes
    <3>3. base + Pointer \in Nat
      BY <1>0, <3>1
    <3>4. block \in (base + Pointer) .. (base + Pointer + align - 1) /\ block % align = 0
      BY <3>1, <3>3, AlignedAbove
    <3> HIDE DEF block
    <3>5. /\ block \in Nat /\ base <= block - Pointer
          /\ bytes + Pointer + align - 1 \in Nat \ {0} /\ size + align + Pointer \in Nat \ {0}
          /\ block + bytes <= base + (bytes + Pointer + align - 1)
          /\ block + size <= base + (size + align + Pointer)
      BY <1>0, <3>1, <3>4
    <3>6. CASE allocate_aligned(size, alignment, base)
      BY <1>0, <3>1, <3>2, <3>4, <3>5, <3>6, HoldKeeps
    <3>7. CASE hal_memory_reserve(size, alignment, base)
      BY <1>0, <3>1, <3>2, <3>4, <3>5, <3>7, HoldKeeps
    <3> QED
      BY <2>1, <3>6, <3>7
  <2>2. CASE \E b \in held : Fill(b) \/ free_aligned(b)
    BY <1>0, <2>2, FillKeeps, FreeKeeps
  <2>3. CASE UNCHANGED block_vars
    BY <2>3 DEF block_vars, BlocksInv, Apart, Carved
  <2> QED
    BY <2>1, <2>2, <2>3 DEF BlocksNext
<1>3. BlocksInv => AlignedBlocksExact
  <2> SUFFICES ASSUME BlocksInv PROVE AlignedBlocksExact
    OBVIOUS
  <2>1. ASSUME NEW b \in held, NEW c \in chunks, Carved(b, c)
        PROVE  Bytes(b.block - Pointer, b.size + Pointer) \subseteq Bytes(c.base, c.length)
    <3>1. /\ b.block \in Nat /\ b.size \in Nat /\ c.base \in Nat /\ c.length \in Nat
          /\ c.base <= b.block - Pointer /\ b.block + b.size <= c.base + c.length
      BY <2>1 DEF BlocksInv, Carved
    <3> QED
      BY <1>0, <3>1 DEF Bytes
  <2> QED
    BY <2>1 DEF AlignedBlocksExact, BlocksInv, Carved
<1> QED
  BY <1>1, <1>2, <1>3, PTL DEF BlocksSpec
=============================================================================
