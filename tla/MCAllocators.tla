---------------------------- MODULE MCAllocators ----------------------------
(* The fixed-size, arena and two-level segregated fit allocators, the SPSC      *)
(* ring, the aligned blocks of the C++ runtime and the kstd containers.  They   *)
(* share no state, so a behaviour runs one of them, its subject, and leaves the *)
(* others where they start.                                                     *)
EXTENDS RingBuffer, BumpAllocators

VARIABLES
  subject,            \* the component this behaviour is about
  \* FixedSizePools
  donations, slab_free_head, slab_link, slab_cookie, slab_free_count, used_count, base, end,
  slab_live,
  initialized, pool_free_head, pool_link, pool_cookie, pool_free_count, peak_used,
  pool_failed_alloc_count, pool_live,
  frame_lists, populated, numa_known, frames_held, unmapped,
  \* Tlsf
  block, free_lists, fl_bitmap, sl_bitmap, free_bytes, tlsf_failed_alloc_count, tlsf_live,
  \* UnorderedMap
  buckets, size, map_heap, arrays, entries, walk,
  \* Containers
  shape, obj, kstd_heap, contents

slab_vars == <<donations, slab_free_head, slab_link, slab_cookie, slab_free_count, used_count,
               base, end, slab_live>>
pool_vars == <<initialized, pool_free_head, pool_link, pool_cookie, pool_free_count, peak_used,
               pool_failed_alloc_count, pool_live>>
frame_vars == <<frame_lists, populated, numa_known, frames_held, unmapped>>
tlsf_vars == <<block, free_lists, fl_bitmap, sl_bitmap, free_bytes, tlsf_failed_alloc_count,
               tlsf_live>>

map_vars == <<buckets, size, map_heap, arrays, entries, walk>>
kstd_vars == <<shape, obj, kstd_heap, contents>>

\* Objects of 16, 64 and 256 bytes, scaled; the donated frames come off the client
\* free list from the highest address down.
ObjectSize == [c \in 0 .. 2 |-> 2 ^ c]
DonatedPages == [i \in 0 .. 4 |-> 24 - 4 * i]
\* Both nodes have frames inside and outside the boot mapping.
NodeOfEachFrame == [f \in 1 .. 5 |-> f % 2]

-----------------------------------------------------------------------------
Pools == INSTANCE FixedSizePools WITH
  PoolCapacity <- 5, MaxFailed <- 2,
  PageSize <- 4, Size <- ObjectSize, Donated <- DonatedPages, MaxLive <- 3,
  BootFrames <- 3, Frames <- 5, FrameNode <- NodeOfEachFrame, MaxNodes <- 2, LocalNodes <- {0, 1, 2}
Segregated == INSTANCE Tlsf WITH
  FLI_COUNT <- 7, PoolSize <- 200, Requests <- {0, 1, 41, 104, 128}, MaxLive <- 4,
  MaxFailed <- 1, failed_alloc_count <- tlsf_failed_alloc_count, live <- tlsf_live
Map == INSTANCE UnorderedMap WITH
  Keys <- {0, 1, 2}, Maps <- {"a", "b"}, INITIAL_BUCKETS <- 2, MaxNodes <- 3,
  heap <- map_heap
Kstd == INSTANCE Containers WITH
  T <- {"x", "y"}, Objects <- {"a", "b"}, Blocks <- {1, 2, 3, 4}, INLINE_CAPACITY <- 1,
  MaxSize <- 3, heap <- kstd_heap

ASSUME ConstantsAssumption ==
  /\ Pools!PoolsAssumption
  /\ BumpAssumption
  /\ Segregated!TlsfAssumption
  /\ RingAssumption
  /\ Map!MapAssumption
  /\ Kstd!ContainersAssumption

Subjects == {"slab", "pool", "arena", "stack", "tlsf", "ring", "map", "kstd",
             "aligned", "frames"}

vars == <<subject, slab_vars, pool_vars, frame_vars, arena_vars, stack_vars, block_vars, tlsf_vars,
          ring_vars, map_vars, kstd_vars>>

\* A component that is not the subject is in one of its initial states.
Init ==
  /\ subject \in Subjects
  /\ Pools!SlabInit /\ Pools!PoolInit /\ Pools!FramesInit
  /\ ArenaInit /\ StackInit /\ BlocksInit
  /\ Segregated!Init
  /\ RingInit
  /\ Map!Init
  /\ Kstd!Init /\ (subject # "kstd" => shape = "vector")

Others(x) ==
  /\ UNCHANGED subject
  /\ IF x = "slab" THEN TRUE ELSE UNCHANGED slab_vars
  /\ IF x = "pool" THEN TRUE ELSE UNCHANGED pool_vars
  /\ IF x = "frames" THEN TRUE ELSE UNCHANGED frame_vars
  /\ IF x = "arena" THEN TRUE ELSE UNCHANGED arena_vars
  /\ IF x = "stack" THEN TRUE ELSE UNCHANGED stack_vars
  /\ IF x = "tlsf" THEN TRUE ELSE UNCHANGED tlsf_vars
  /\ IF x = "ring" THEN TRUE ELSE UNCHANGED ring_vars
  /\ IF x = "map" THEN TRUE ELSE UNCHANGED map_vars
  /\ IF x = "kstd" THEN TRUE ELSE UNCHANGED kstd_vars
  /\ IF x = "aligned" THEN TRUE ELSE UNCHANGED block_vars

Next ==
  \/ subject = "slab" /\ Pools!SlabNext /\ Others("slab")
  \/ subject = "pool" /\ Pools!PoolNext /\ Others("pool")
  \/ subject = "frames" /\ Pools!FramesNext /\ Others("frames")
  \/ subject = "arena" /\ ArenaNext /\ Others("arena")
  \/ subject = "stack" /\ StackNext /\ Others("stack")
  \/ subject = "tlsf" /\ Segregated!Next /\ Others("tlsf")
  \/ subject = "ring" /\ RingNext /\ Others("ring")
  \/ subject = "map" /\ Map!Next /\ Others("map")
  \/ subject = "kstd" /\ Kstd!Next /\ Others("kstd")
  \/ subject = "aligned" /\ BlocksNext /\ Others("aligned")

Spec == Init /\ [][Next]_vars
-----------------------------------------------------------------------------
\* What an allocator believes to be free is exactly what nobody holds, through any
\* order of allocations, frees and double frees: the slab lists and the pool's list have
\* no cycle, their counts are their lengths and they partition the objects with the
\* callers (slab.c:100-163, pool_allocator.c:78-149), and so do the client's lists of page
\* frames, one per node, from the first population pass on (pmm.c:118-176); a TLSF block is free exactly when it
\* is filed, once, in its bucket, and both levels of bitmaps say which buckets are
\* non-empty (tlsf.c).
FreeListsExact ==
  /\ subject = "slab" => Pools!TypeOK /\ Pools!ListsPartitionObjects
  /\ subject = "pool" => Pools!TypeOK /\ Pools!ListIsTheFreeSlots
  /\ subject = "frames" => Pools!TypeOK /\ Pools!FrameListsExact
  /\ subject = "tlsf" => Segregated!TypeOK /\ Segregated!BucketsExact

\* Every caller has memory of its own, as much as it asked for.  No two share any: slab
\* objects, also those that came back on the list of another cache; arena and stack
\* regions, also where 32-bit sums wrap and through rollbacks to stale markers; TLSF
\* blocks, which tile the pool up to the sentinel; and the ring's slots, of which the
\* producer never writes the one the consumer copies.  A TLSF block is "at least size
\* bytes" (tlsf.h); a block of the C++ runtime and of the HAL is also aligned as asked,
\* lies whole inside the chunk kmalloc returned without covering the word in front of
\* it, and leads kfree back to the start of that chunk, once (cxx_runtime.cpp:53-77).
RegionsDisjoint ==
  /\ subject = "slab" => Pools!LiveObjectsDisjoint
  /\ subject = "arena" => BumpTypeOK /\ ArenaRegionsDisjoint
  /\ subject = "stack" => BumpTypeOK /\ StackRegionsDisjoint
  /\ subject = "tlsf" => Segregated!BlocksTile /\ Segregated!AllocationsFit
  /\ subject = "ring" => RingTypeOK /\ SlotsNotShared
  /\ subject = "aligned" => BumpTypeOK /\ AlignedBlocksExact

\* The kstd containers hold what was stored in them, through growth, rehashing, erasure,
\* copies, moves and swaps, in storage that one container owns and that is given back
\* once: a map finds each key with its last value in the bucket its hash selects
\* (unordered_map.hpp), a vector's elements are constructed exactly up to its size and
\* within its capacity (vector.hpp), a string is terminated and inline exactly while its
\* capacity says so (string.hpp), a function holds its target (inplace_function.hpp).
\* And a walk over a map that erases at its iterator as it goes (unordered_map.hpp:189)
\* meets every element that was there when it began, once.
ContainersExact ==
  /\ subject = "map" =>
       Map!TypeOK /\ Map!FindsWhatWasStored /\ Map!NodesOwnedOnce /\ Map!WalkMeetsEachOnce
  /\ subject = "kstd" => Kstd!TypeOK /\ Kstd!StorageExact /\ Kstd!BlocksOwnedOnce

\* An allocator refuses exactly what it must: TLSF only when no free block is as large
\* as the class the request was rounded up to, and the arena whenever a request would
\* take it past the budget then in force, which may have been lowered in mid-frame.
RefusalsRight ==
  /\ Segregated!RefusedOnlyWhenShort
  /\ BudgetCapsGrowth
=============================================================================
