----------------------------- MODULE BoundedFifo -----------------------------
(***************************************************************************)
(* What every ring of the kernel promises to its producer and its          *)
(* consumer: values come out once, in the order they went in, and a full   *)
(* ring accepts nothing.  A refused operation changes nothing.             *)
(***************************************************************************)
EXTENDS Integers, Sequences

CONSTANTS Values, Capacity

VARIABLES queue,  \* accepted and not yet delivered, oldest first
          out     \* the value delivered last, or Nothing

Nothing == "nothing"

Init == queue = << >> /\ out = Nothing

Put(v) ==
  /\ Len(queue) < Capacity
  /\ queue' = Append(queue, v)
  /\ UNCHANGED out

Take ==
  /\ queue # << >>
  /\ out' = Head(queue)
  /\ queue' = Tail(queue)

Next == Take \/ \E v \in Values : Put(v)

Spec == Init /\ [][Next]_<<queue, out>>
=============================================================================
