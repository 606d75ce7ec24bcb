----------------------------- MODULE ClientHeap -----------------------------
(***************************************************************************)
(* The client profile of kernel/memory/heap.c.  kmalloc tries the slab     *)
(* cache of the exact size, then the TLSF pool; inside a hot loop it stops *)
(* there, outside it goes on to the virtual memory manager and to the      *)
(* first-fit list.  The allocators behind the facade are those of Slab,    *)
(* Tlsf, VirtualMemory and ServerHeap; here each is the number of blocks   *)
(* it can still give, and all but the slab may fail earlier, since a       *)
(* request can be larger than what is left.  Callers free live blocks.     *)
(***************************************************************************)
EXTENDS Integers, FiniteSets, FiniteSetsExt

CONSTANTS SlabSizes,    \* object sizes of the slab caches
          Sizes,        \* total_size of the requests, header included
          BigSize,      \* totals above this are first asked of the VMM
          PageSize,     \* no block of the first-fit list is larger
          SlabCapacity, TlsfCapacity, VmmCapacity, ListCapacity,
          MaxDepth,     \* bound on nested hot loops
          MaxCount      \* bound on the hot loop counters

ClientHeapAssumption ==
  /\ SlabSizes \cup Sizes \subseteq Nat
  /\ {SlabCapacity, TlsfCapacity, VmmCapacity, ListCapacity, MaxDepth, MaxCount} \subseteq Nat

VARIABLES free,        \* blocks left, by allocator
          live,        \* blocks in use, by the flag in their header
          lost,        \* blocks whose kfree was refused
          depth,       \* kernel_heap_hot_loop_depth
          violations, bounded, rejected, large_count,
          escapes      \* history: blocks taken from or given to an unbounded path in a hot loop,
                       \* and requests that a hot loop could not have served

vars == <<free, live, lost, depth, violations, bounded, rejected, large_count, escapes>>

Slab(s) == <<"slab", s>>
Tlsf == <<"tlsf", 0>>
Vmm == <<"vmm", 0>>
Sensitive == <<"sensitive", 0>>  \* a VMM block with KERNEL_HEAP_BLOCK_FLAG_SENS
List == <<"list", 0>>

Slabs == {Slab(s) : s \in SlabSizes}
Bounded == Slabs \cup {Tlsf}
Unbounded == {Vmm, Sensitive, List}
Kinds == Bounded \cup Unbounded

\* Where a block of a kind comes from: sensitive blocks are VMM pages too.
Source(k) == IF k = Sensitive THEN Vmm ELSE k

Capacity(a) == CASE a = Tlsf -> TlsfCapacity
                 [] a = Vmm -> VmmCapacity
                 [] a = Sensitive -> 0
                 [] a = List -> ListCapacity
                 [] OTHER -> SlabCapacity

Init ==
  /\ free = [a \in Kinds |-> Capacity(a)]
  /\ live = [k \in Kinds |-> 0] /\ lost = [k \in Kinds |-> 0]
  /\ depth = 0
  /\ violations = 0 /\ bounded = 0 /\ rejected = 0 /\ large_count = 0 /\ escapes = 0

InHotLoop == depth > 0
Counted(n) == IF InHotLoop THEN n + 1 ELSE n
Countable == InHotLoop => violations + bounded < MaxCount /\ escapes < MaxCount

Take(k) ==
  /\ free[Source(k)] > 0
  /\ free' = [free EXCEPT ![Source(k)] = @ - 1]
  /\ live' = [live EXCEPT ![k] = @ + 1]
  /\ UNCHANGED lost

Give(k, to) ==
  /\ live[k] > 0
  /\ live' = [live EXCEPT ![k] = @ - 1]
  /\ free' = [free EXCEPT ![to] = @ + 1]
  /\ UNCHANGED lost
-----------------------------------------------------------------------------
(* kmalloc *)

SlabServes(size) == size \in SlabSizes /\ free[Slab(size)] > 0

KmallocBounded(size) ==
  /\ Countable
  /\ IF SlabServes(size) THEN Take(Slab(size)) ELSE Take(Tlsf)
  /\ bounded' = Counted(bounded)
  /\ UNCHANGED <<depth, violations, rejected, large_count, escapes>>

\* Mutant: only a nested hot loop is guarded.
RefusesInNested == depth > 1
\* in_hot_loop, at the point where slab and TLSF have both failed.
Refuses == InHotLoop

KmallocRefused(size) ==
  /\ Countable /\ Refuses
  /\ ~SlabServes(size)
  /\ violations' = violations + 1 /\ escapes' = escapes + 1
  /\ UNCHANGED <<free, live, lost, depth, bounded, rejected, large_count>>

KmallocVmm(size) ==
  /\ ~Refuses
  /\ ~SlabServes(size)
  /\ size > BigSize
  /\ Take(Vmm)
  /\ large_count' = large_count + 1
  /\ UNCHANGED <<depth, violations, bounded, rejected, escapes>>

\* The list is also where a large request ends when the VMM failed; the client
\* never grows it.
KmallocFirstFit(size) ==
  /\ ~Refuses
  /\ ~SlabServes(size)
  /\ size <= PageSize
  /\ Take(List)
  /\ UNCHANGED <<depth, violations, bounded, rejected, large_count, escapes>>

\* kmalloc_sensitive goes to the VMM and does not look at the hot loop.
KmallocSensitive ==
  /\ Countable
  /\ Take(Sensitive)
  /\ large_count' = large_count + 1
  /\ escapes' = Counted(escapes)
  /\ UNCHANGED <<depth, violations, bounded, rejected>>
-----------------------------------------------------------------------------
(* kfree *)

\* Mutant: an object may be filed under a cache of larger objects.
AnyCache(s) == SlabSizes
\* kernel_slab_free takes the first cache whose address range holds the object and
\* whose stride divides its offset; the ranges overlap, so this is its own cache or
\* one of smaller objects.
CacheOf(s) == {t \in SlabSizes : t <= s}

KfreeSlab(s) ==
  /\ Countable
  /\ \E t \in CacheOf(s) : Give(Slab(s), Slab(t))
  /\ bounded' = Counted(bounded)
  /\ UNCHANGED <<depth, violations, rejected, large_count, escapes>>

KfreeTlsf ==
  /\ Countable
  /\ Give(Tlsf, Tlsf)
  /\ bounded' = Counted(bounded)
  /\ UNCHANGED <<depth, violations, rejected, large_count, escapes>>

LargeAfter(k) == IF k # List /\ large_count > 0 THEN large_count - 1 ELSE large_count

\* A release to the VMM or the list is carried out in a hot loop too, and counted.
KfreeUnbounded(k) ==
  /\ Countable
  /\ Give(k, Source(k))
  /\ violations' = Counted(violations) /\ escapes' = Counted(escapes)
  /\ large_count' = LargeAfter(k)
  /\ UNCHANGED <<depth, bounded, rejected>>

\* The canary of these blocks is only written with LPL_KERNEL_DEBUG_POISON; without
\* it kfree compares what the memory held and may refuse, before it counts anything.
KfreeRefused(k) ==
  /\ Countable
  /\ live[k] > 0
  /\ live' = [live EXCEPT ![k] = @ - 1]
  /\ lost' = [lost EXCEPT ![k] = @ + 1]
  /\ rejected' = rejected + 1
  /\ escapes' = Counted(escapes)
  /\ UNCHANGED <<free, depth, violations, bounded, large_count>>
-----------------------------------------------------------------------------
HotLoopEnter ==
  /\ depth < MaxDepth
  /\ depth' = depth + 1
  /\ UNCHANGED <<free, live, lost, violations, bounded, rejected, large_count, escapes>>

HotLoopLeave ==
  /\ depth' = IF depth > 0 THEN depth - 1 ELSE depth
  /\ UNCHANGED <<free, live, lost, violations, bounded, rejected, large_count, escapes>>

Next ==
  \/ \E s \in Sizes : \/ KmallocBounded(s) \/ KmallocRefused(s)
                      \/ KmallocVmm(s) \/ KmallocFirstFit(s)
  \/ KmallocSensitive
  \/ \E s \in SlabSizes : KfreeSlab(s)
  \/ KfreeTlsf
  \/ \E k \in Unbounded : KfreeUnbounded(k) \/ KfreeRefused(k)
  \/ HotLoopEnter \/ HotLoopLeave

Spec == Init /\ [][Next]_vars
-----------------------------------------------------------------------------
SumOver(f, S) == MapThenSumSet(LAMBDA k : f[k], S)

\* The counters are naturals, and kfree keeps every block of the slab caches, of
\* TLSF, of the VMM and of the list accounted for: free, in use or lost.
TypeOK ==
  /\ \A k \in Kinds : {free[k], live[k], lost[k]} \subseteq Nat
  /\ \A S \in {Slabs, {Tlsf}, {List}, {Vmm, Sensitive}} :
       SumOver(free, S) + SumOver(live, S) + SumOver(lost, S) = SumOver([k \in Kinds |-> Capacity(k)], S)
  /\ depth \in 0 .. MaxDepth
  /\ {violations, bounded, rejected, large_count, escapes} \subseteq Nat

\* Inside a hot loop, however deep, kmalloc never returns a block of the VMM or of
\* the first-fit list: what slab and TLSF cannot serve is refused.
KmallocStaysBounded ==
  [][InHotLoop => live'[Vmm] <= live[Vmm] /\ live'[List] <= live[List]]_vars

\* kernel_slab_free never files an object under a cache of larger objects, whose
\* next owner would write past its end: the caches of size s and above never hold
\* more objects between them than were carved at that size or above.
NoUndersizedObject ==
  \A s \in SlabSizes :
    LET larger == {Slab(t) : t \in {u \in SlabSizes : u >= s}}
    IN  SumOver(free, larger) + SumOver(live, larger) <= Cardinality(larger) * SlabCapacity

\* The large allocation counter is the number of VMM blocks that were not given back.
LargeCountExact ==
  large_count = SumOver(live, {Vmm, Sensitive}) + SumOver(lost, {Vmm, Sensitive})

\* heap.h: a violation is an allocation or release that took an unbounded path inside
\* a hot loop, or that could not be served at all.
EscapesCounted == violations = escapes
=============================================================================
