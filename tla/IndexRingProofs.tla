-------------------------- MODULE IndexRingProofs ---------------------------
(***************************************************************************)
(* The scan code ring of keyboard.c and the dialogue rings are bounded     *)
(* FIFOs for every capacity and every width of the free-running indices    *)
(* that the capacity divides, across the wrap of the indices.              *)
(*                                                                         *)
(* Each index has one writer, so a side's copy of its own index is exact   *)
(* and its copy of the other side's index errs on the safe side: the room  *)
(* or the byte it saw is still there when it acts.                         *)
(***************************************************************************)
EXTENDS IndexRing, ArithmeticLemmas

Used == Distance(head, tail)

SidesInv ==
  /\ producer.at # Idle => producer.head = head /\ producer.byte \in Values /\ Used < Capacity
  /\ consumer.at # Idle => consumer.tail = tail /\ Used > 0

DataInv ==
  /\ producer.at = "publish" => ring[head % Capacity] = producer.byte
  /\ consumer.at = "release" => consumer.byte = ring[tail % Capacity]

IInv == TypeOK /\ SidesInv /\ DataInv
-----------------------------------------------------------------------------
(* Arithmetic of the indices *)

\* A whole turn of an index changes no slot number.
LEMMA WordTurn ==
  ASSUME IndexRingAssumption, NEW x \in Nat
  PROVE  (x + Word) % Capacity = x % Capacity
<1> DEFINE q == x \div Capacity
           r == x % Capacity
           m == Word \div Capacity
<1>1. Capacity \in Nat \ {0} /\ Word \in Nat /\ Word % Capacity = 0
  BY DEF IndexRingAssumption
<1>2. q \in Nat /\ r \in 0 .. Capacity - 1 /\ x = (q * Capacity) + r
  BY <1>1, DivisionWithRemainder
<1>3. m \in Nat /\ Word = (m * Capacity) + 0
  BY <1>1, DivisionWithRemainder
<1> HIDE DEF q, r, m
<1>4. q + m \in Nat /\ (q + m) * Capacity = (q * Capacity) + (m * Capacity)
      /\ q * Capacity \in Nat /\ m * Capacity \in Nat
  BY <1>1, <1>2, <1>3
<1>5. x + Word = ((q + m) * Capacity) + r /\ x + Word \in Nat
  BY <1>1, <1>2, <1>3, <1>4
<1>6. (x + Word) % Capacity = r
  BY <1>1, <1>2, <1>4, <1>5, DivisionUnique
<1> QED
  BY <1>6 DEF r

\* Less than a capacity apart, two indices name two slots.
LEMMA SlotsDistinct ==
  ASSUME IndexRingAssumption, NEW a \in Nat, NEW b \in Nat, a < b, b < a + Capacity
  PROVE  a % Capacity # b % Capacity
<1> DEFINE qa == a \div Capacity
           ra == a % Capacity
           qb == b \div Capacity
           rb == b % Capacity
<1>1. Capacity \in Nat \ {0}
  BY DEF IndexRingAssumption
<1>2. /\ qa \in Nat /\ ra \in 0 .. Capacity - 1 /\ a = (qa * Capacity) + ra
      /\ qb \in Nat /\ rb \in 0 .. Capacity - 1 /\ b = (qb * Capacity) + rb
  BY <1>1, DivisionWithRemainder
<1> HIDE DEF qa, ra, qb, rb
<1>3. qa * Capacity \in Nat /\ qb * Capacity \in Nat
  BY <1>1, <1>2
<1>4. CASE qb <= qa
  <2>1. qb * Capacity <= qa * Capacity
    BY <1>1, <1>2, <1>4, TimesMonotone
  <2> QED
    BY <1>1, <1>2, <1>3, <2>1 DEF ra, rb
<1>5. CASE qa + 1 <= qb
  <2>1. (qa + 1) * Capacity <= qb * Capacity
    BY <1>1, <1>2, <1>5, TimesMonotone
  <2>2. (qa + 1) * Capacity = (qa * Capacity) + Capacity
    BY <1>1, <1>2
  <2> QED
    BY <1>1, <1>2, <1>3, <2>1, <2>2 DEF ra, rb
<1> QED
  BY <1>2, <1>4, <1>5

\* Unsigned subtraction of the indices is their distance, also across the wrap.
LEMMA DistanceIs ==
  ASSUME IndexRingAssumption, NEW h \in Index, NEW t \in Index
  PROVE  Distance(h, t) = IF h >= t THEN h - t ELSE h - t + Word
<1>1. Word \in Nat \ {0} /\ h \in 0 .. Word - 1 /\ t \in 0 .. Word - 1 /\ h - t + Word \in Nat
  BY DEF IndexRingAssumption, Index
<1>2. CASE h >= t
  <2>1. h - t + Word = (1 * Word) + (h - t) /\ h - t \in 0 .. Word - 1
    BY <1>1, <1>2
  <2>2. (h - t + Word) % Word = h - t
    BY <1>1, <2>1, DivisionUnique
  <2> QED
    BY <1>2, <2>2 DEF Distance
<1>3. CASE h < t
  <2>1. h - t + Word = (0 * Word) + (h - t + Word) /\ h - t + Word \in 0 .. Word - 1
    BY <1>1, <1>3
  <2>2. (h - t + Word) % Word = h - t + Word
    BY <1>1, <2>1, DivisionUnique
  <2> QED
    BY <1>1, <1>3, <2>2 DEF Distance
<1> QED
  BY <1>1, <1>2, <1>3

\* The increment of an index.
LEMMA Increment ==
  ASSUME IndexRingAssumption, NEW h \in Index
  PROVE  (h + 1) % Word = (IF h + 1 = Word THEN 0 ELSE h + 1) /\ (h + 1) % Word \in Index
<1>1. Word \in Nat \ {0} /\ h \in 0 .. Word - 1
  BY DEF IndexRingAssumption, Index
<1>2. CASE h + 1 = Word
  <2>1. h + 1 = (1 * Word) + 0 /\ 0 \in 0 .. Word - 1
    BY <1>1, <1>2
  <2>2. (h + 1) % Word = 0
    BY <1>1, <2>1, DivisionUnique
  <2> QED
    BY <1>1, <1>2, <2>2 DEF Index
<1>3. CASE h + 1 # Word
  <2>1. h + 1 = (0 * Word) + (h + 1) /\ h + 1 \in 0 .. Word - 1
    BY <1>1, <1>3
  <2>2. (h + 1) % Word = h + 1
    BY <1>1, <2>1, DivisionUnique
  <2> QED
    BY <1>1, <1>3, <2>1, <2>2 DEF Index
<1> QED
  BY <1>2, <1>3

\* The slot head names is Used slots past the one tail names.
LEMMA HeadSlot ==
  ASSUME IndexRingAssumption, TypeOK
  PROVE  head % Capacity = (tail + Used) % Capacity /\ Used \in 0 .. Capacity
<1>1. /\ Word \in Nat \ {0} /\ head \in Index /\ tail \in Index /\ Used \in 0 .. Capacity
      /\ Index = 0 .. Word - 1
  BY DEF IndexRingAssumption, TypeOK, Used, Distance, Index
<1>2. Used = IF head >= tail THEN head - tail ELSE head - tail + Word
  BY <1>1, DistanceIs DEF Used
<1>3. CASE head >= tail
  <2>1. tail + Used = head
    BY <1>1, <1>2, <1>3
  <2> QED
    BY <1>1, <2>1
<1>4. CASE head < tail
  <2>1. tail + Used = head + Word /\ head \in Nat
    BY <1>1, <1>2, <1>4
  <2> QED
    BY <1>1, <2>1, WordTurn
<1> QED
  BY <1>1, <1>3, <1>4
-----------------------------------------------------------------------------
(* The inductive invariant *)

\* Two empty indices satisfy it.
LEMMA InitInv == ASSUME IndexRingAssumption PROVE Init => IInv
<1> SUFFICES ASSUME Init PROVE IInv
  OBVIOUS
<1>1. Capacity \in Nat \ {0} /\ Word \in Nat \ {0} /\ 0 \in Index
  BY DEF IndexRingAssumption, Index
<1>2. Distance(0, 0) = 0
  BY <1>1, DistanceIs
<1>3. (head - tail + Word) % Word \in 0 .. Capacity
  BY <1>1, <1>2 DEF Init, Distance
<1>4. TypeOK
  BY <1>1, <1>3 DEF Init, TypeOK, Idle
<1> QED
  BY <1>4 DEF Init, IInv, SidesInv, DataInv, Idle

\* Publishing adds one to the distance, and releasing takes one from it.
LEMMA DistanceSteps ==
  ASSUME IndexRingAssumption, NEW h \in Index, NEW t \in Index
  PROVE  /\ Distance(h, t) < Capacity => Distance((h + 1) % Word, t) = Distance(h, t) + 1
         /\ Distance(h, t) > 0 => Distance(h, (t + 1) % Word) = Distance(h, t) - 1
<1>1. /\ Word \in Nat \ {0} /\ Capacity \in Nat /\ Capacity < Word
      /\ h \in 0 .. Word - 1 /\ t \in 0 .. Word - 1
      /\ (h + 1) % Word \in Index /\ (t + 1) % Word \in Index
      /\ (h + 1) % Word = (IF h + 1 = Word THEN 0 ELSE h + 1)
      /\ (t + 1) % Word = (IF t + 1 = Word THEN 0 ELSE t + 1)
  BY Increment DEF IndexRingAssumption, Index
<1> DEFINE hn == (h + 1) % Word
           tn == (t + 1) % Word
<1>2. /\ Distance(h, t) = IF h >= t THEN h - t ELSE h - t + Word
      /\ Distance(hn, t) = IF hn >= t THEN hn - t ELSE hn - t + Word
      /\ Distance(h, tn) = IF h >= tn THEN h - tn ELSE h - tn + Word
  BY <1>1, DistanceIs
<1>3. hn = (IF h + 1 = Word THEN 0 ELSE h + 1) /\ tn = (IF t + 1 = Word THEN 0 ELSE t + 1)
  BY <1>1
<1> HIDE DEF hn, tn
<1>4. /\ Distance(h, t) < Capacity => Distance(hn, t) = Distance(h, t) + 1
      /\ Distance(h, t) > 0 => Distance(h, tn) = Distance(h, t) - 1
  BY <1>1, <1>2, <1>3
<1> QED
  BY <1>4 DEF hn, tn

\* Every step of the two sides keeps the invariant.
LEMMA StepInv ==
  ASSUME IndexRingAssumption, IInv, [Next]_vars
  PROVE  IInv'
<1>0. /\ Capacity \in Nat \ {0} /\ Used \in 0 .. Capacity /\ Word \in Nat \ {0}
      /\ head % Capacity = (tail + Used) % Capacity
      /\ head \in Index /\ tail \in Index /\ Index = 0 .. Word - 1 /\ Slots = 0 .. Capacity - 1
      /\ head % Capacity \in Slots /\ tail % Capacity \in Slots
  <2>1. Capacity \in Nat \ {0} /\ Word \in Nat \ {0}
    BY DEF IndexRingAssumption
  <2>2. head \in Index /\ tail \in Index /\ TypeOK
    BY DEF IInv, TypeOK
  <2>3. Index = 0 .. Word - 1 /\ Slots = 0 .. Capacity - 1
    BY DEF Index, Slots
  <2>4. head % Capacity \in Slots /\ tail % Capacity \in Slots
    BY <2>1, <2>2, <2>3
  <2> QED
    BY <2>1, <2>2, <2>3, <2>4, HeadSlot
<1>a. TypeOK /\ SidesInv /\ DataInv
  BY DEF IInv
<1> USE <1>a DEF TypeOK, SidesInv, DataInv, Idle
<1>1. ASSUME NEW v \in Values, PushBegin(v) PROVE IInv'
  BY <1>1 DEF PushBegin, Room, Used, Distance, IInv
<1>2. CASE PushDropped
  BY <1>2 DEF PushDropped, Used, Distance, IInv
<1>3. CASE StoreByte
  <2>1. consumer.at # Idle => tail % Capacity # head % Capacity
    <3> SUFFICES ASSUME consumer.at # Idle PROVE tail % Capacity # (tail + Used) % Capacity
      BY <1>0
    <3>1. Used > 0 /\ Used < Capacity
      BY <1>3 DEF StoreByte
    <3> HIDE <1>a DEF TypeOK, SidesInv, DataInv
    <3>2. tail \in Nat /\ tail + Used \in Nat /\ tail < tail + Used /\ tail + Used < tail + Capacity
      BY <1>0, <3>1
    <3> QED
      BY <3>2, SlotsDistinct
  <2> QED
    BY <1>0, <1>3, <2>1 DEF StoreByte, Used, Distance, IInv
<1>4. CASE PublishHead
  <2>1. head' = (head + 1) % Word /\ tail' = tail /\ Used < Capacity
    BY <1>4 DEF PublishHead
  <2>2. Used' = Used + 1 /\ Used + 1 \in 0 .. Capacity /\ head' \in Index
    <3> HIDE <1>a DEF TypeOK, SidesInv, DataInv
    <3>1. Used' = Distance((head + 1) % Word, tail)
      BY <2>1 DEF Used, Distance
    <3>2. Used' = Used + 1 /\ head' \in Index
      BY <1>0, <2>1, <3>1, DistanceSteps, Increment DEF Used
    <3> QED
      BY <1>0, <2>1, <3>2
  <2>3. (head' - tail' + Word) % Word \in 0 .. Capacity
    BY <2>2 DEF Used, Distance
  <2>4. TypeOK'
    BY <1>4, <2>2, <2>3 DEF PublishHead
  <2>5. SidesInv' /\ DataInv'
    BY <1>0, <1>4, <2>1, <2>2 DEF PublishHead
  <2> QED
    BY <2>4, <2>5 DEF IInv
<1>5. CASE PopBegin
  <2>1. Used > 0
    <3>1. head # tail
      BY <1>5 DEF PopBegin
    <3> HIDE <1>a DEF TypeOK, SidesInv, DataInv
    <3>2. Used = IF head >= tail THEN head - tail ELSE head - tail + Word
      BY <1>0, DistanceIs DEF Used
    <3> QED
      BY <1>0, <3>1, <3>2
  <2> QED
    BY <1>0, <1>5, <2>1 DEF PopBegin, Used, Distance, IInv
<1>6. CASE LoadByte
  BY <1>0, <1>6 DEF LoadByte, Used, Distance, IInv
<1>7. CASE ReleaseSlot
  <2>1. tail' = (tail + 1) % Word /\ head' = head /\ Used > 0
    BY <1>7 DEF ReleaseSlot
  <2>2. Used' = Used - 1 /\ Used - 1 \in 0 .. Capacity /\ tail' \in Index
    <3> HIDE <1>a DEF TypeOK, SidesInv, DataInv
    <3>1. Used' = Distance(head, (tail + 1) % Word)
      BY <2>1 DEF Used, Distance
    <3>2. Used' = Used - 1 /\ tail' \in Index
      BY <1>0, <2>1, <3>1, DistanceSteps, Increment DEF Used
    <3> QED
      BY <1>0, <2>1, <3>2
  <2>3. (head' - tail' + Word) % Word \in 0 .. Capacity
    BY <2>2 DEF Used, Distance
  <2>4. TypeOK'
    BY <1>7, <2>2, <2>3 DEF ReleaseSlot
  <2>5. SidesInv' /\ DataInv'
    BY <1>0, <1>7, <2>1, <2>2 DEF ReleaseSlot
  <2> QED
    BY <2>4, <2>5 DEF IInv
<1>8. CASE UNCHANGED vars
  BY <1>8 DEF vars, Used, Distance, IInv
<1> QED
  BY <1>1, <1>2, <1>3, <1>4, <1>5, <1>6, <1>7, <1>8 DEF Next

\* IInv holds in every state the two sides can reach.
LEMMA IInvInvariant == ASSUME IndexRingAssumption PROVE Spec => []IInv
BY InitInv, StepInv, PTL DEF Spec
-----------------------------------------------------------------------------
(* The refinement *)

\* The accepted bytes are the Used bytes from tail's slot on.
LEMMA ContentsIs ==
  ASSUME IndexRingAssumption, TypeOK
  PROVE  /\ Contents = [i \in 1 .. Used |-> ring[(tail + i - 1) % Capacity]]
         /\ Contents \in Seq(Values \cup {Nothing}) /\ Len(Contents) = Used /\ Used \in 0 .. Capacity
<1>1. Contents = [i \in 1 .. Used |-> ring[(tail + i - 1) % Capacity]]
  BY DEF Contents, Used, Distance
<1>2. Used \in 0 .. Capacity /\ Capacity \in Nat \ {0} /\ tail \in Nat
  BY HeadSlot DEF TypeOK, IndexRingAssumption, Index
<1>3. \A i \in 1 .. Used : ring[(tail + i - 1) % Capacity] \in Values \cup {Nothing}
  <2> SUFFICES ASSUME NEW i \in 1 .. Used
               PROVE  ring[(tail + i - 1) % Capacity] \in Values \cup {Nothing}
    OBVIOUS
  <2>1. tail + i - 1 \in Nat
    BY <1>2
  <2>2. (tail + i - 1) % Capacity \in 0 .. Capacity - 1
    BY <1>2, <2>1, DivisionWithRemainder
  <2> QED
    BY <2>2 DEF TypeOK, Slots
<1>4. Contents \in Seq(Values \cup {Nothing})
  BY <1>1, <1>2, <1>3
<1>5. Len(Contents) = Used
  BY <1>1, <1>2
<1> QED
  BY <1>1, <1>2, <1>4, <1>5

\* Publishing head appends the byte stored before it.
LEMMA PublishPuts ==
  ASSUME IndexRingAssumption, IInv, PublishHead
  PROVE  Fifo!Put(producer.byte) /\ producer.byte \in Values
<1>1. /\ head \in Index /\ tail \in Index /\ tail' = tail /\ ring' = ring /\ out' = out
      /\ head' = (head + 1) % Word /\ Used < Capacity
      /\ ring[head % Capacity] = producer.byte /\ producer.byte \in Values
  BY DEF IInv, TypeOK, SidesInv, DataInv, PublishHead, Idle
<1>2. /\ Contents = [i \in 1 .. Used |-> ring[(tail + i - 1) % Capacity]]
      /\ Contents \in Seq(Values \cup {Nothing}) /\ Len(Contents) = Used /\ Used \in 0 .. Capacity
  BY ContentsIs DEF IInv
<1>3. Used' = Used + 1
  <2>1. Used' = Distance((head + 1) % Word, tail)
    BY <1>1 DEF Used, Distance
  <2> QED
    BY <1>1, <2>1, DistanceSteps DEF Used
<1>4. Contents' = [i \in 1 .. Used + 1 |-> ring[(tail + i - 1) % Capacity]]
  <2>1. Contents' = [i \in 1 .. Used' |-> ring'[(tail' + i - 1) % Capacity]]
    BY DEF Contents, Used, Distance
  <2> QED
    BY <1>1, <1>3, <2>1
<1>5. Capacity \in Nat /\ tail \in Nat
  BY <1>1 DEF IndexRingAssumption, Index
<1>6. Append(Contents, producer.byte)
        = [i \in 1 .. Used + 1 |-> IF i <= Used THEN Contents[i] ELSE producer.byte]
  BY <1>1, <1>2, <1>5
<1>7. \A i \in 1 .. Used + 1 : (IF i <= Used THEN Contents[i] ELSE producer.byte)
                                 = ring[(tail + i - 1) % Capacity]
  <2> SUFFICES ASSUME NEW i \in 1 .. Used + 1
               PROVE  (IF i <= Used THEN Contents[i] ELSE producer.byte) = ring[(tail + i - 1) % Capacity]
    OBVIOUS
  <2>1. CASE i <= Used
    BY <1>2, <1>5, <2>1
  <2>2. CASE i = Used + 1
    <3>1. tail + i - 1 = tail + Used /\ ~(i <= Used)
      BY <1>2, <1>5, <2>2
    <3> QED
      BY <1>1, <3>1, HeadSlot DEF IInv
  <2> QED
    BY <1>2, <1>5, <2>1, <2>2
<1>8. Len(Contents) < Capacity
  BY <1>1, <1>2
<1> QED
  BY <1>1, <1>4, <1>6, <1>7, <1>8 DEF Fifo!Put

\* Releasing tail takes the byte loaded before it, the oldest one.
LEMMA ReleaseTakes ==
  ASSUME IndexRingAssumption, IInv, ReleaseSlot
  PROVE  Fifo!Take
<1>1. /\ head \in Index /\ tail \in Index /\ head' = head /\ ring' = ring
      /\ out' = ring[tail % Capacity] /\ tail' = (tail + 1) % Word /\ Used > 0
  BY DEF IInv, TypeOK, SidesInv, DataInv, ReleaseSlot, Idle
<1>2. /\ Contents = [i \in 1 .. Used |-> ring[(tail + i - 1) % Capacity]]
      /\ Contents \in Seq(Values \cup {Nothing}) /\ Len(Contents) = Used /\ Used \in 0 .. Capacity
  BY ContentsIs DEF IInv
<1>3. Used' = Used - 1
  <2>1. Used' = Distance(head, (tail + 1) % Word)
    BY <1>1 DEF Used, Distance
  <2> QED
    BY <1>1, <2>1, DistanceSteps DEF Used
<1>4. Contents' = [i \in 1 .. Used - 1 |-> ring[(tail' + i - 1) % Capacity]]
  <2>1. Contents' = [i \in 1 .. Used' |-> ring'[(tail' + i - 1) % Capacity]]
    BY DEF Contents, Used, Distance
  <2> QED
    BY <1>1, <1>3, <2>1
<1>5. Capacity \in Nat \ {0} /\ tail \in Nat /\ Word \in Nat
  BY <1>1 DEF IndexRingAssumption, Index
<1>6. \A i \in 1 .. Used - 1 : (tail' + i - 1) % Capacity = (tail + i) % Capacity
  <2> SUFFICES ASSUME NEW i \in 1 .. Used - 1
               PROVE  (tail' + i - 1) % Capacity = (tail + i) % Capacity
    OBVIOUS
  <2>1. tail' = IF tail + 1 = Word THEN 0 ELSE tail + 1
    BY <1>1, Increment
  <2>2. CASE tail + 1 = Word
    <3>1. tail' + i - 1 = i - 1 /\ tail + i = (i - 1) + Word /\ i - 1 \in Nat
      BY <1>2, <1>5, <2>1, <2>2
    <3> QED
      BY <3>1, WordTurn
  <2>3. CASE tail + 1 # Word
    <3>1. tail' + i - 1 = tail + i
      BY <1>2, <1>5, <2>1, <2>3
    <3> QED
      BY <3>1
  <2> QED
    BY <2>2, <2>3
<1>7. Contents # << >>
  BY <1>1, <1>2
<1>8. Tail(Contents) = [i \in 1 .. Used - 1 |-> Contents[i + 1]]
  BY <1>1, <1>2, <1>5
<1>9. \A i \in 1 .. Used - 1 : Contents[i + 1] = ring[(tail + i) % Capacity]
  <2> SUFFICES ASSUME NEW i \in 1 .. Used - 1 PROVE Contents[i + 1] = ring[(tail + i) % Capacity]
    OBVIOUS
  <2>1. i + 1 \in 1 .. Used /\ tail + (i + 1) - 1 = tail + i
    BY <1>2, <1>5
  <2> QED
    BY <1>2, <2>1
<1>10. Head(Contents) = ring[tail % Capacity]
  <2>1. 1 \in 1 .. Used /\ tail + 1 - 1 = tail
    BY <1>1, <1>2, <1>5
  <2>2. Contents[1] = ring[tail % Capacity]
    BY <1>2, <2>1
  <2> QED
    BY <1>2, <1>7, <2>2
<1>11. Contents' = Tail(Contents)
  BY <1>4, <1>6, <1>8, <1>9
<1> QED
  BY <1>1, <1>7, <1>10, <1>11 DEF Fifo!Take

\* Every other step is invisible; the store hits none of the accepted bytes.
LEMMA OtherStepsStutter ==
  ASSUME IndexRingAssumption, IInv, [Next]_vars, ~PublishHead, ~ReleaseSlot
  PROVE  UNCHANGED <<Contents, out>>
<1>1. ASSUME UNCHANGED <<ring, head, tail, out>> PROVE UNCHANGED <<Contents, out>>
  BY <1>1 DEF Contents
<1>2. CASE StoreByte
  <2>1. /\ Used < Capacity /\ head \in Index /\ tail \in Index /\ UNCHANGED <<head, tail, out>>
        /\ ring' = [ring EXCEPT ![head % Capacity] = producer.byte]
        /\ ring \in [Slots -> Values \cup {Nothing}]
    BY <1>2 DEF IInv, TypeOK, SidesInv, StoreByte, Idle
  <2>2. /\ Contents = [i \in 1 .. Used |-> ring[(tail + i - 1) % Capacity]] /\ Used \in 0 .. Capacity
        /\ Capacity \in Nat \ {0} /\ tail \in Nat
    BY <2>1, ContentsIs DEF IInv, IndexRingAssumption, Index
  <2>3. Contents' = [i \in 1 .. Used |-> ring'[(tail + i - 1) % Capacity]]
    BY <2>1 DEF Contents, Used, Distance
  <2>4. \A i \in 1 .. Used : ring'[(tail + i - 1) % Capacity] = ring[(tail + i - 1) % Capacity]
    <3> SUFFICES ASSUME NEW i \in 1 .. Used
                 PROVE  ring'[(tail + i - 1) % Capacity] = ring[(tail + i - 1) % Capacity]
      OBVIOUS
    <3>1. /\ tail + i - 1 \in Nat /\ tail + Used \in Nat /\ tail + i - 1 < tail + Used
          /\ tail + Used < tail + i - 1 + Capacity
      BY <2>1, <2>2
    <3>2. (tail + i - 1) % Capacity # (tail + Used) % Capacity
      BY <3>1, SlotsDistinct
    <3>3. (tail + i - 1) % Capacity # head % Capacity
      BY <3>2, HeadSlot DEF IInv
    <3>4. (tail + i - 1) % Capacity \in Slots
      BY <2>2, <3>1, DivisionWithRemainder DEF Slots
    <3> QED
      BY <2>1, <3>3, <3>4
  <2> QED
    BY <2>1, <2>2, <2>3, <2>4
<1>3. ASSUME NEW v \in Values, PushBegin(v) PROVE UNCHANGED <<Contents, out>>
  BY <1>1, <1>3 DEF PushBegin
<1>4. CASE PushDropped \/ PopBegin \/ LoadByte \/ UNCHANGED vars
  BY <1>1, <1>4 DEF PushDropped, PopBegin, LoadByte, vars
<1> QED
  BY <1>2, <1>3, <1>4 DEF Next

\* The indices of keyboard.c and dialogue_channel.c are never further apart than the
\* capacity, and the handler never stores into the slot being loaded, at every index
\* width the capacity divides.
THEOREM NoTornByteTheorem ==
  ASSUME IndexRingAssumption
  PROVE  Spec => [](TypeOK /\ NoTornByte)
<1>1. IInv => TypeOK /\ NoTornByte
  <2> SUFFICES ASSUME IInv, producer.at = "store", consumer.at \in {"load", "release"}
               PROVE  producer.head % Capacity # consumer.tail % Capacity
    BY DEF IInv, NoTornByte
  <2>1. producer.head = head /\ consumer.tail = tail /\ Used < Capacity /\ Used > 0 /\ tail \in Index
    BY DEF IInv, SidesInv, TypeOK, Idle
  <2>2. head % Capacity = (tail + Used) % Capacity /\ Used \in 0 .. Capacity
    BY HeadSlot DEF IInv
  <2>3. tail \in Nat /\ tail + Used \in Nat /\ tail < tail + Used /\ tail + Used < tail + Capacity
    BY <2>1, <2>2 DEF Index, IndexRingAssumption
  <2> QED
    BY <2>1, <2>2, <2>3, SlotsDistinct
<1> QED
  BY IInvInvariant, <1>1, PTL

\* The lock-free byte ring is a bounded FIFO: publishing head is the put, releasing tail
\* the take, and the wrap of either index is invisible.
THEOREM IndexRingRefinesFifo ==
  ASSUME IndexRingAssumption
  PROVE  Spec => RingIsFifo
<1>1. Init => Fifo!Init
  <2> SUFFICES ASSUME Init PROVE Contents = << >> /\ out = Nothing
    BY DEF Fifo!Init, Fifo!Nothing, Nothing
  <2>1. TypeOK /\ out = Nothing /\ head = 0 /\ tail = 0
    BY InitInv DEF Init, IInv
  <2>2. Used = 0
    <3>1. 0 \in Index
      BY DEF IndexRingAssumption, Index
    <3> QED
      BY <2>1, <3>1, DistanceIs DEF Used
  <2> QED
    BY <2>1, <2>2, ContentsIs
<1>2. IInv /\ [Next]_vars => [Fifo!Next]_<<Contents, out>>
  <2> SUFFICES ASSUME IInv, [Next]_vars PROVE Fifo!Next \/ UNCHANGED <<Contents, out>>
    OBVIOUS
  <2>1. CASE PublishHead
    BY <2>1, PublishPuts DEF Fifo!Next
  <2>2. CASE ReleaseSlot
    BY <2>2, ReleaseTakes DEF Fifo!Next
  <2>3. CASE ~PublishHead /\ ~ReleaseSlot
    BY <2>3, OtherStepsStutter
  <2> QED
    BY <2>1, <2>2, <2>3
<1> QED
  BY IInvInvariant, <1>1, <1>2, PTL DEF Spec, RingIsFifo, Fifo!Spec
=============================================================================
