------------------------------ MODULE Containers ------------------------------
(***************************************************************************)
(* The owning types of kstd: vector, string (with its inline buffer) and   *)
(* inplace_function, over one kernel heap of blocks.  A behaviour is about *)
(* objects of one type, `shape`.  The member functions are operators on a  *)
(* state s == [o |-> the object, h |-> the heap], composed as the code     *)
(* composes them.  A slot of storage holds a live element or RAW; the      *)
(* bytes of a string past its terminator are never read, and are RAW too.  *)
(* An allocation that returns has succeeded: operator new and vector's     *)
(* reallocate halt the kernel otherwise.                                   *)
(***************************************************************************)
EXTENDS Integers, Sequences, FiniteSets, SequencesExt

CONSTANTS
  T,                \* element values
  Objects,
  Blocks,           \* block addresses, naturals above 0 (0 is the null pointer)
  INLINE_CAPACITY,  \* 23 in the code
  MaxSize           \* bound on the length of a container

ContainersAssumption ==
  /\ Blocks \subseteq Nat \ {0} /\ Cardinality(Blocks) > Cardinality(Objects)
  /\ INLINE_CAPACITY \in 1 .. MaxSize /\ MaxSize \in Nat

VARIABLES
  shape,     \* "vector", "string" or "function"
  obj,       \* object -> its members
  heap,      \* live block -> its slots
  contents   \* object -> the sequence it stands for (a ghost)

kvars == <<shape, obj, heap, contents>>

RAW == "raw"
NUL == "nul"
Raws(n) == [i \in 1 .. n |-> RAW]
Without(f, S) == [x \in (DOMAIN f) \ S |-> f[x]]
With(f, x, v) == [y \in DOMAIN f \cup {x} |-> IF y = x THEN v ELSE f[y]]
Fresh(h) == CHOOSE b \in Blocks : b \notin DOMAIN h

\* In a function, `size` says whether _vtable is set and `inline` is the callable.
NewVector == [data |-> 0, size |-> 0, capacity |-> 0, inline |-> <<>>]
NewString == [data |-> 0, size |-> 0, capacity |-> INLINE_CAPACITY,
              inline |-> <<NUL>> \o Raws(INLINE_CAPACITY)]
NewFunction == [data |-> 0, size |-> 0, capacity |-> 1, inline |-> <<RAW>>]
New == IF shape = "vector" THEN NewVector
       ELSE IF shape = "string" THEN NewString ELSE NewFunction

Init ==
  /\ shape \in {"vector", "string", "function"}
  /\ obj = [x \in Objects |-> New]
  /\ heap = <<>>
  /\ contents = [x \in Objects |-> <<>>]

State(x) == [o |-> obj[x], h |-> heap]
-----------------------------------------------------------------------------
(* vector *)

Elements(s) == IF s.o.size = 0 THEN <<>> ELSE SubSeq(s.h[s.o.data], 1, s.o.size)

reallocate(s, capacity) ==
  LET b == Fresh(s.h)
      kept == Without(s.h, {s.o.data})
  IN [o |-> [s.o EXCEPT !.data = b, !.capacity = capacity],
      h |-> With(kept, b, Elements(s) \o Raws(capacity - s.o.size))]

reserve(s, capacity) == IF capacity <= s.o.capacity THEN s ELSE reallocate(s, capacity)

\* The capacity is compared after the element was placed.
emplace_back_late(s, value) ==
  LET r == IF s.o.size <= s.o.capacity /\ s.o.capacity # 0 THEN s
           ELSE reallocate(s, IF s.o.capacity = 0 THEN 1 ELSE s.o.capacity * 2)
  IN [o |-> [r.o EXCEPT !.size = @ + 1],
      h |-> [r.h EXCEPT ![r.o.data] = IF r.o.size < Len(@)
                                      THEN [@ EXCEPT ![r.o.size + 1] = value] ELSE @]]

emplace_back(s, value) ==
  LET r == IF s.o.size # s.o.capacity THEN s
           ELSE reallocate(s, IF s.o.capacity = 0 THEN 1 ELSE s.o.capacity * 2)
  IN [o |-> [r.o EXCEPT !.size = @ + 1],
      h |-> [r.h EXCEPT ![r.o.data][r.o.size + 1] = value]]

\* Destroys the elements from index `from` on: clear, pop_back and a shrinking resize.
Truncate(s, from) ==
  IF from >= s.o.size THEN s
  ELSE [o |-> [s.o EXCEPT !.size = from],
        h |-> [s.h EXCEPT ![s.o.data] = SubSeq(@, 1, from) \o Raws(Len(@) - from)]]

resize(s, size, value) ==
  IF size < s.o.size THEN Truncate(s, size)
  ELSE LET r == reserve(s, size)
       IN FoldLeft(LAMBDA t, i : emplace_back(t, value), r,
                   [i \in 1 .. (size - s.o.size) |-> i])

\* The tail is shifted and the last element is not destroyed.
erase_keeps_last(s, i) ==
  LET shifted == [k \in 1 .. Len(s.h[s.o.data]) |->
                    IF k \in i .. (s.o.size - 1) THEN s.h[s.o.data][k + 1]
                    ELSE s.h[s.o.data][k]]
  IN [s EXCEPT !.h[s.o.data] = shifted, !.o.size = @ - 1]

erase(s, i) ==
  LET shifted == [k \in 1 .. Len(s.h[s.o.data]) |->
                    IF k \in i .. (s.o.size - 1) THEN s.h[s.o.data][k + 1]
                    ELSE s.h[s.o.data][k]]
  IN Truncate([s EXCEPT !.h[s.o.data] = shifted], s.o.size - 1)

\* Elements one by one onto reserved storage: the copy constructor and the one from a list.
FromList(s, list) == FoldLeft(emplace_back, reserve(s, Len(list)), list)

CopyVector(s, from) == FromList(Truncate(s, 0), Elements(from))

\* The constructor from a pair of iterators knows no length to reserve.
FromRange(s, list) == FoldLeft(emplace_back, s, list)

Filled(s, count, value) == FromList(s, [i \in 1 .. count |-> value])

destroy_and_free(s) == [o |-> NewVector, h |-> Without(s.h, {s.o.data})]
-----------------------------------------------------------------------------
(* string *)

is_inline(o) == o.capacity = INLINE_CAPACITY
data(s) == IF is_inline(s.o) THEN s.o.inline ELSE s.h[s.o.data]
Put(s, bytes) ==
  IF is_inline(s.o) THEN [s EXCEPT !.o.inline = bytes] ELSE [s EXCEPT !.h[s.o.data] = bytes]

\* The text of s.o.size bytes, its terminator and what is never read.
Text(chars, capacity) == chars \o <<NUL>> \o Raws(capacity - Len(chars))

grow_to(s, minimum) ==
  LET k == CHOOSE j \in 0 .. minimum : /\ s.o.capacity * 2 ^ j >= minimum
                                       /\ \A i \in 0 .. (j - 1) : s.o.capacity * 2 ^ i < minimum
      capacity == s.o.capacity * 2 ^ k
      b == Fresh(s.h)
      kept == IF is_inline(s.o) THEN s.h ELSE Without(s.h, {s.o.data})
  IN [o |-> [s.o EXCEPT !.data = b, !.capacity = capacity, !.inline = <<>>],
      h |-> With(kept, b, Text(SubSeq(data(s), 1, s.o.size), capacity))]

reserve_string(s, capacity) == IF capacity <= s.o.capacity THEN s ELSE grow_to(s, capacity)

append(s, text) ==
  LET r == IF s.o.size + Len(text) > s.o.capacity THEN grow_to(s, s.o.size + Len(text)) ELSE s
      chars == SubSeq(data(r), 1, r.o.size) \o text
  IN IF text = <<>> THEN s
     ELSE [Put(r, Text(chars, r.o.capacity)) EXCEPT !.o.size = Len(chars)]

assign(s, text) ==
  LET r == IF Len(text) > s.o.capacity THEN grow_to(s, Len(text)) ELSE s
  IN [Put(r, Text(text, r.o.capacity)) EXCEPT !.o.size = Len(text)]

CopyString(s, from) == assign(s, SubSeq(data(from), 1, from.o.size))

release(s) == IF is_inline(s.o) THEN s ELSE [s EXCEPT !.h = Without(@, {s.o.data})]

\* The moved-from string keeps its capacity, and so its heap pointer.
take_keeping_capacity(from) ==
  [to |-> from, from |-> [NewString EXCEPT !.capacity = from.capacity, !.data = from.data]]

\* What take(other) makes of this string and of the other one.
take(from) ==
  [to |-> IF is_inline(from) THEN [NewString EXCEPT !.size = from.size, !.inline = from.inline]
          ELSE [NewString EXCEPT !.size = from.size, !.capacity = from.capacity,
                                 !.data = from.data, !.inline = <<>>],
   from |-> NewString]
-----------------------------------------------------------------------------
(* inplace_function *)

copy_impl(source, destination) == [destination EXCEPT !.inline = source.inline]
destroy_impl(storage) == [storage EXCEPT !.inline = <<RAW>>]

reset(o) == IF o.size = 0 THEN o ELSE [destroy_impl(o) EXCEPT !.size = 0]

CopyFunction(o, from) ==
  IF from.size = 0 THEN reset(o) ELSE [copy_impl(from, reset(o)) EXCEPT !.size = from.size]

\* A callable that is moved from is still there until it is reset.
MoveFunction(o, from) == [to |-> CopyFunction(o, from), from |-> reset(from)]
-----------------------------------------------------------------------------
(* The operations on the objects *)

Set(x, s, sequence) ==
  /\ obj' = [obj EXCEPT ![x] = s.o]
  /\ heap' = s.h
  /\ contents' = [contents EXCEPT ![x] = sequence]
  /\ UNCHANGED shape

VectorPush(x, value) ==
  /\ shape = "vector" /\ Len(contents[x]) < MaxSize
  /\ Set(x, emplace_back(State(x), value), Append(contents[x], value))

\* push_back(v[i]): the reference is read after reallocate has freed what it names, so
\* only a vector with room to spare can be given one of its own elements.
PushOwn(x, i) ==
  /\ shape = "vector" /\ obj[x].size < obj[x].capacity /\ obj[x].size < MaxSize
  /\ Set(x, emplace_back(State(x), contents[x][i]), Append(contents[x], contents[x][i]))

VectorReserve(x, n) == shape = "vector" /\ Set(x, reserve(State(x), n), contents[x])

VectorTruncate(x, n) ==
  /\ shape = "vector" /\ n \in {0, obj[x].size - 1} /\ n >= 0
  /\ Set(x, Truncate(State(x), n), SubSeq(contents[x], 1, n))

VectorErase(x, i) ==
  /\ shape = "vector"
  /\ Set(x, erase(State(x), i), RemoveAt(contents[x], i))

VectorResize(x, n, value) ==
  /\ shape = "vector"
  /\ Set(x, resize(State(x), n, value),
         [i \in 1 .. n |-> IF i <= Len(contents[x]) THEN contents[x][i] ELSE value])

StringAppend(x, text) ==
  /\ shape = "string" /\ Len(contents[x]) + Len(text) <= MaxSize
  /\ Set(x, append(State(x), text), contents[x] \o text)

StringAssign(x, text) == shape = "string" /\ Set(x, assign(State(x), text), text)

StringReserve(x, n) == shape = "string" /\ Set(x, reserve_string(State(x), n), contents[x])

StringClear(x) ==
  /\ shape = "string"
  /\ Set(x, [Put(State(x), Text(<<>>, obj[x].capacity)) EXCEPT !.o.size = 0], <<>>)

\* Constructing a function from a callable, or assigning one.
FunctionSet(x, target) ==
  /\ shape = "function"
  /\ Set(x, [State(x) EXCEPT !.o.inline = <<target>>, !.o.size = 1], <<target>>)

Copied(s, from) ==
  IF shape = "vector" THEN CopyVector(s, from)
  ELSE IF shape = "string" THEN CopyString(s, from)
  ELSE [s EXCEPT !.o = CopyFunction(s.o, from.o)]

\* a = b
Copy(a, b) == a # b /\ Set(a, Copied(State(a), State(b)), contents[b])

\* The target's storage is given up.
GiveUp(s) ==
  IF shape = "vector" THEN destroy_and_free(s)
  ELSE IF shape = "string" THEN [release(s) EXCEPT !.o = NewString]
  ELSE [s EXCEPT !.o = reset(s.o)]

\* The members of both after a vector has taken over the other's.
MoveVector(from) == [to |-> from, from |-> NewVector]

\* a = std::move(b): a gives up what it owns and takes what b owns; b is left empty.
Move(a, b) ==
  /\ a # b
  /\ LET m == IF shape = "vector" THEN MoveVector(obj[b])
              ELSE IF shape = "string" THEN take(obj[b]) ELSE MoveFunction(obj[a], obj[b])
     IN obj' = [obj EXCEPT ![a] = m.to, ![b] = m.from]
  /\ heap' = GiveUp(State(a)).h
  /\ contents' = [contents EXCEPT ![a] = contents[b], ![b] = <<>>]
  /\ UNCHANGED shape

Swap(a, b) ==
  /\ shape = "vector" /\ a # b
  /\ obj' = [obj EXCEPT ![a] = obj[b], ![b] = obj[a]]
  /\ contents' = [contents EXCEPT ![a] = contents[b], ![b] = contents[a]]
  /\ UNCHANGED <<shape, heap>>

\* The object is destroyed and constructed anew: empty, as a copy, or from values.
Destroy(x) == Set(x, GiveUp(State(x)), <<>>)

CopyConstruct(a, b) == a # b /\ Set(a, Copied(GiveUp(State(a)), State(b)), contents[b])

ConstructFilled(x, n, value) ==
  /\ shape = "vector"
  /\ Set(x, Filled(GiveUp(State(x)), n, value), [i \in 1 .. n |-> value])

ConstructFrom(a, b) ==
  /\ shape = "vector" /\ a # b
  /\ Set(a, FromRange(GiveUp(State(a)), Elements(State(b))), contents[b])

Next ==
  \E x \in Objects :
    \/ \E v \in T : VectorPush(x, v) \/ FunctionSet(x, v)
    \/ \E i \in 1 .. obj[x].size : PushOwn(x, i) \/ VectorErase(x, i)
    \/ \E n \in 0 .. MaxSize : \/ VectorReserve(x, n)
                               \/ VectorTruncate(x, n)
                               \/ StringReserve(x, n)
                               \/ \E v \in T : VectorResize(x, n, v) \/ ConstructFilled(x, n, v)
    \/ \E v \in T, n \in 0 .. MaxSize : \/ StringAppend(x, [i \in 1 .. n |-> v])
                                        \/ StringAssign(x, [i \in 1 .. n |-> v])
    \/ StringClear(x)
    \/ \E y \in Objects : \/ Copy(x, y)
                          \/ CopyConstruct(x, y)
                          \/ ConstructFrom(x, y)
                          \/ Move(x, y)
                          \/ Swap(x, y)
    \/ Destroy(x)

Spec == Init /\ [][Next]_kvars
-----------------------------------------------------------------------------
\* The variables have their types.
TypeOK ==
  /\ shape \in {"vector", "string", "function"}
  /\ \A x \in Objects : obj[x].data \in Blocks \cup {0} /\ obj[x].size \in 0 .. MaxSize
  /\ DOMAIN heap \subseteq Blocks

\* A container holds the sequence its operations have built, through growth, truncation,
\* copies and moves: the first _size slots of a vector are live elements and every other
\* slot is raw, so that each element is constructed once and destroyed once
\* (vector.hpp:147-250); a string is its text and a terminator (string.hpp:96-203); a
\* function's buffer holds a callable exactly while _vtable says so.
StorageExact ==
  \A x \in Objects :
    LET s == State(x)
    IN /\ s.o.size = Len(contents[x])
       /\ shape = "vector" =>
            IF s.o.data = 0 THEN contents[x] = <<>> /\ s.o.capacity = 0
            ELSE s.h[s.o.data] = contents[x] \o Raws(s.o.capacity - s.o.size)
       /\ shape = "string" => data(s) = Text(contents[x], s.o.capacity)
       /\ shape = "function" => s.o.inline = IF s.o.size = 1 THEN contents[x] ELSE <<RAW>>

\* Every live block has exactly one owner and every owner's block is live, so that no
\* storage is freed twice, leaked or used after it was freed; a string is inline exactly
\* when it owns no block, although that is only encoded in its capacity
\* (string.hpp:141-203, vector.hpp:220-250).
BlocksOwnedOnce ==
  LET owners == {x \in Objects : obj[x].data # 0}
  IN /\ DOMAIN heap = {obj[x].data : x \in owners}
     /\ Cardinality(DOMAIN heap) = Cardinality(owners)
     /\ shape = "string" => \A x \in Objects : is_inline(obj[x]) <=> x \notin owners
=============================================================================
