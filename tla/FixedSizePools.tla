---------------------------- MODULE FixedSizePools ----------------------------
(***************************************************************************)
(* The allocators of equal-sized objects, whose free lists are threaded    *)
(* through the free objects themselves, with a cookie in the second word   *)
(* of a free object against a double free:                                 *)
(*   - the pool of kernel/memory/pool_allocator.c, one list of slots; the  *)
(*     address of a slot is its index;                                     *)
(*   - the client profile's slab (kernel/memory/slab.c), three caches each *)
(*     with its list, and an address range that is the hull of the pages   *)
(*     donated to it.  Sizes are in units: a page is PageSize units and an *)
(*     object of cache c is Size[c] of them;                               *)
(*   - the client profile's page frames (cpu/pmm.c), one list per node of  *)
(*     the NUMA policy, without a cookie: its callers free what they hold. *)
(*     Frames are numbered from 1, those of the boot mapping first.  The   *)
(*     counters of local and remote hits are only printed, and left out.   *)
(* They share no state: each has its variables and its specification.      *)
(***************************************************************************)
EXTENDS Integers, FiniteSetsExt

CONSTANTS PoolCapacity,
          MaxFailed,  \* bound on the pool's failure counter
          PageSize, Size,
          Donated,    \* the page address kernel_heap_build_client_boot_pool
                      \* hands over at each index
          MaxLive,    \* bound on the slab objects out at once
          BootFrames, Frames,  \* the frames below PMM_BOOT_MAP_LIMIT, and all
          FrameNode,  \* numa_policy_get_node_for_address, once the SRAT is read
          MaxNodes,   \* NUMA_POLICY_MAX_NODES
          LocalNodes  \* what numa_policy_get_local_node may return

Null == 0
Slots == 1 .. PoolCapacity
Caches == 0 .. 2                           \* SLAB_NUM_CACHES
Indices == DOMAIN Donated
CacheOfIndex(i) == i % 3

PoolsAssumption ==
  /\ PoolCapacity \in Nat \ {0} /\ MaxFailed \in Nat
  /\ PageSize \in Nat \ {0} /\ MaxLive \in Nat
  /\ Size \in [Caches -> 1 .. PageSize]
  /\ \A i \in Indices : Donated[i] \in Nat \ {Null} /\ Donated[i] % PageSize = 0
  /\ Frames \in Nat /\ BootFrames \in 0 .. Frames /\ MaxNodes \in Nat \ {0}
  /\ FrameNode \in [1 .. Frames -> 0 .. MaxNodes - 1] /\ LocalNodes \subseteq Nat

VARIABLES initialized, pool_free_head, pool_link, pool_cookie, pool_free_count, peak_used,
          pool_failed_alloc_count,
          pool_live,             \* the slots callers hold
          donations,             \* how many pages slab_initialize has placed
          slab_free_head,        \* per cache
          slab_link,             \* the next pointer in an object's first word
          slab_cookie,           \* whether its second word is SLAB_FREE_COOKIE
          slab_free_count, used_count, base, end,
          slab_live,             \* callers' objects: address -> size asked for
          frame_lists,           \* the lists of pmm.c, with their count and watermarks
          populated,             \* the frames the two population passes went over
          numa_known,            \* numa_policy_initialize ran
          frames_held, unmapped  \* frames handed out, and those that could not be mapped

pool_vars == <<initialized, pool_free_head, pool_link, pool_cookie, pool_free_count, peak_used,
               pool_failed_alloc_count, pool_live>>
slab_vars == <<donations, slab_free_head, slab_link, slab_cookie, slab_free_count, used_count,
               base, end, slab_live>>
frame_vars == <<frame_lists, populated, numa_known, frames_held, unmapped>>
-----------------------------------------------------------------------------
(* The pool *)

PoolInit ==
  /\ initialized = FALSE
  /\ pool_free_head = Null /\ pool_free_count = 0 /\ peak_used = 0 /\ pool_failed_alloc_count = 0
  /\ pool_link = [s \in Slots |-> Null] /\ pool_cookie = [s \in Slots |-> FALSE]
  /\ pool_live = {}

\* kernel_pool_allocator_initialize, once; a second call returns early.
PoolInitialize ==
  /\ ~initialized
  /\ initialized' = TRUE
  /\ pool_link' = [s \in Slots |-> s - 1]
  /\ pool_cookie' = [s \in Slots |-> TRUE]
  /\ pool_free_head' = PoolCapacity /\ pool_free_count' = PoolCapacity
  /\ UNCHANGED <<peak_used, pool_failed_alloc_count, pool_live>>

\* kernel_pool_alloc.  The caller then writes its own data over both words.
PoolAlloc ==
  /\ initialized /\ pool_free_head # Null
  /\ pool_free_head' = pool_link[pool_free_head]
  /\ pool_cookie' = [pool_cookie EXCEPT ![pool_free_head] = FALSE]
  /\ pool_link' = [pool_link EXCEPT ![pool_free_head] = Null]
  /\ pool_free_count' = pool_free_count - 1
  /\ LET used == PoolCapacity - pool_free_count'
     IN peak_used' = IF used > peak_used THEN used ELSE peak_used
  /\ pool_live' = pool_live \cup {pool_free_head}
  /\ UNCHANGED <<initialized, pool_failed_alloc_count>>

PoolAllocFails ==
  /\ initialized /\ pool_free_head = Null
  /\ pool_failed_alloc_count < MaxFailed
  /\ pool_failed_alloc_count' = pool_failed_alloc_count + 1
  /\ UNCHANGED <<initialized, pool_free_head, pool_link, pool_cookie, pool_free_count, peak_used,
                 pool_live>>

\* In range, on a slot boundary and without the cookie.
PoolAccepts(ptr) == ptr \in Slots /\ ~pool_cookie[ptr]

\* kernel_pool_free of a slot that was handed out, once or twice.
PoolFree(ptr) ==
  /\ initialized
  /\ PoolAccepts(ptr)
  /\ pool_link' = [pool_link EXCEPT ![ptr] = pool_free_head]
  /\ pool_cookie' = [pool_cookie EXCEPT ![ptr] = TRUE]
  /\ pool_free_head' = ptr
  /\ pool_free_count' = pool_free_count + (IF pool_free_count < PoolCapacity THEN 1 ELSE 0)
  /\ pool_live' = pool_live \ {ptr}
  /\ UNCHANGED <<initialized, peak_used, pool_failed_alloc_count>>

PoolNext == PoolInitialize \/ PoolAlloc \/ PoolAllocFails \/ \E ptr \in Slots : PoolFree(ptr)

PoolSpec == PoolInit /\ [][PoolNext]_pool_vars
-----------------------------------------------------------------------------
(* The slab *)

\* The addresses slab_cache_populate carves from the page at index i.
Carved(i) == {Donated[i] + k * Size[CacheOfIndex(i)] :
                k \in 0 .. (PageSize \div Size[CacheOfIndex(i)] - 1)}
Objects == UNION {Carved(i) : i \in Indices}

SlabInit ==
  /\ donations = 0
  /\ slab_free_head = [c \in Caches |-> Null]
  /\ slab_link = [a \in Objects |-> Null]
  /\ slab_cookie = [a \in Objects |-> FALSE]
  /\ slab_free_count = [c \in Caches |-> 0] /\ used_count = [c \in Caches |-> 0]
  /\ base = [c \in Caches |-> 0] /\ end = [c \in Caches |-> 0]
  /\ slab_live = [a \in {} |-> 0]
\* slab_cache_populate: each object is pushed on the list, lowest first.
Populate ==
  /\ donations \in Indices
  /\ LET i == donations
         c == CacheOfIndex(i)
         page == Donated[i]
     IN /\ base' = [base EXCEPT ![c] = IF @ = 0 \/ page < @ THEN page ELSE @]
        /\ end' = [end EXCEPT ![c] = IF page + PageSize > @ THEN page + PageSize ELSE @]
        /\ slab_link' = [a \in Objects |->
                           CASE a = page -> slab_free_head[c]
                             [] a \in Carved(i) \ {page} -> a - Size[c]
                             [] OTHER -> slab_link[a]]
        /\ slab_cookie' = [a \in Objects |-> a \in Carved(i) \/ slab_cookie[a]]
        /\ slab_free_head' = [slab_free_head EXCEPT ![c] =
                                page + Size[c] * (PageSize \div Size[c] - 1)]
        /\ slab_free_count' = [slab_free_count EXCEPT ![c] = @ + PageSize \div Size[c]]
        /\ donations' = donations + 1
  /\ UNCHANGED <<used_count, slab_live>>

\* kernel_slab_alloc(size).  The caller's data then overwrites both words.
SlabAlloc(size) ==
  /\ donations \notin Indices
  /\ Cardinality(DOMAIN slab_live) < MaxLive
  /\ \E c \in Caches :
       /\ Size[c] = size
       /\ slab_free_head[c] # Null
       /\ LET obj == slab_free_head[c] IN
          /\ slab_free_head' = [slab_free_head EXCEPT ![c] = slab_link[obj]]
          /\ slab_cookie' = [slab_cookie EXCEPT ![obj] = FALSE]
          /\ slab_link' = [slab_link EXCEPT ![obj] = Null]
          /\ slab_free_count' = [slab_free_count EXCEPT ![c] = @ - 1]
          /\ used_count' = [used_count EXCEPT ![c] = @ + 1]
          /\ slab_live' = [a \in DOMAIN slab_live \cup {obj} |-> IF a = obj THEN size ELSE slab_live[a]]
  /\ UNCHANGED <<donations, base, end>>

Owns(c, ptr) == base[c] <= ptr /\ ptr < end[c] /\ (ptr - base[c]) % Size[c] = 0

\* Mutant: the last cache whose range fits takes the object.
LastOwnerOf(ptr) == {c \in Caches : Owns(c, ptr) /\ \A d \in Caches : d > c => ~Owns(d, ptr)}

\* The first cache, in table order, that kernel_slab_free takes ptr for.
OwnerOf(ptr) == {c \in Caches : Owns(c, ptr) /\ \A d \in Caches : d < c => ~Owns(d, ptr)}

\* Mutant: the cookie is never looked at.
AlwaysAccepted(ptr) == TRUE
NotAlreadyFree(ptr) == ~slab_cookie[ptr]

\* kernel_slab_free(ptr), for a pointer kernel_slab_alloc returned before;
\* the caller may free it a second time.
SlabFree(ptr) ==
  /\ donations \notin Indices
  /\ NotAlreadyFree(ptr)
  /\ \E c \in OwnerOf(ptr) :
       /\ slab_link' = [slab_link EXCEPT ![ptr] = slab_free_head[c]]
       /\ slab_cookie' = [slab_cookie EXCEPT ![ptr] = TRUE]
       /\ slab_free_head' = [slab_free_head EXCEPT ![c] = ptr]
       /\ slab_free_count' = [slab_free_count EXCEPT ![c] = @ + 1]
       /\ used_count' = [used_count EXCEPT ![c] = IF @ > 0 THEN @ - 1 ELSE 0]
  /\ slab_live' = [a \in DOMAIN slab_live \ {ptr} |-> slab_live[a]]
  /\ UNCHANGED <<donations, base, end>>

SlabNext ==
  \/ Populate
  \/ \E c \in Caches : SlabAlloc(Size[c])
  \/ \E ptr \in Objects : SlabFree(ptr)

SlabSpec == SlabInit /\ [][SlabNext]_slab_vars
-----------------------------------------------------------------------------
(* The page frames of the client profile *)

Nodes == 0 .. MaxNodes - 1

\* The heads, the word stored in each free frame, free_page_count, and the low and high
\* watermarks once they are seeded.
FramesInit ==
  /\ frame_lists = [heads |-> [n \in Nodes |-> Null], next |-> [f \in 1 .. Frames |-> Null],
                    count |-> 0, marks |-> <<>>]
  /\ populated = 0 /\ numa_known = FALSE /\ frames_held = {} /\ unmapped = {}

pmm_update_watermarks(l) ==
  [l EXCEPT !.marks = IF @ = <<>> THEN <<l.count, l.count>>
                      ELSE <<Min({@[1], l.count}), Max({@[2], l.count})>>]

\* Before the SRAT is read every frame is taken for one of node 0.
NodeOfFrame(f) == IF numa_known THEN FrameNode[f] ELSE 0

freelist_push(l, f) ==
  LET n == NodeOfFrame(f) IN
    pmm_update_watermarks([l EXCEPT !.next[f] = l.heads[n], !.heads[n] = f, !.count = @ + 1])

\* The list a processor of node local takes from: its own, or else the first with a frame.
SourceNodes(l, local) ==
  LET own == IF local \in Nodes THEN local ELSE 0
      stocked == {n \in Nodes : l.heads[n] # Null}
  IN IF own \in stocked \/ stocked = {} THEN stocked \cap {own} ELSE {Min(stocked)}

freelist_pop(l, n) ==
  pmm_update_watermarks([l EXCEPT !.heads[n] = l.next[@], !.count = @ - 1])

\* physical_memory_manager_initialize, a frame at a time.
PopulateBootFrame ==
  /\ populated < BootFrames
  /\ frame_lists' = freelist_push(frame_lists, populated + 1)
  /\ populated' = populated + 1
  /\ UNCHANGED <<numa_known, frames_held, unmapped>>

\* kernel_initialize reads the SRAT between the two passes.
LearnNodes ==
  /\ populated = BootFrames /\ ~numa_known /\ numa_known' = TRUE
  /\ UNCHANGED <<frame_lists, populated, frames_held, unmapped>>

\* physical_memory_manager_extend_mapping, a frame at a time: mapping it may first take a
\* frame for a page table, and a frame that cannot be mapped is passed over.
ExtendMapping ==
  /\ numa_known /\ populated < Frames
  /\ populated' = populated + 1
  /\ LET f == populated + 1 IN
       \/ /\ frame_lists' = freelist_push(frame_lists, f)
          /\ UNCHANGED <<frames_held, unmapped>>
       \/ \E local \in LocalNodes : \E n \in SourceNodes(frame_lists, local) :
            /\ frame_lists' = freelist_push(freelist_pop(frame_lists, n), f)
            /\ frames_held' = frames_held \cup {frame_lists.heads[n]}
            /\ UNCHANGED unmapped
       \/ /\ unmapped' = unmapped \cup {f}
          /\ UNCHANGED <<frame_lists, frames_held>>
  /\ UNCHANGED numa_known

\* physical_memory_manager_page_frame_allocate; with every list empty it returns 0.
AllocateFrame(local) ==
  /\ numa_known /\ populated = Frames
  /\ \E n \in SourceNodes(frame_lists, local) :
       /\ frame_lists' = freelist_pop(frame_lists, n)
       /\ frames_held' = frames_held \cup {frame_lists.heads[n]}
  /\ UNCHANGED <<populated, numa_known, unmapped>>

\* physical_memory_manager_page_frame_free of a frame that is held.
FreeFrame(f) ==
  /\ numa_known /\ populated = Frames
  /\ f \in frames_held
  /\ frame_lists' = freelist_push(frame_lists, f)
  /\ frames_held' = frames_held \ {f}
  /\ UNCHANGED <<populated, numa_known, unmapped>>

FramesNext ==
  \/ PopulateBootFrame \/ LearnNodes \/ ExtendMapping
  \/ \E local \in LocalNodes : AllocateFrame(local)
  \/ \E f \in 1 .. Frames : FreeFrame(f)

FramesSpec == FramesInit /\ [][FramesNext]_frame_vars
-----------------------------------------------------------------------------
(* Properties *)

\* The n-th member of a free list, following the stored pointers.
ListFrom(first, link, length) ==
  LET at[n \in 0 .. length] ==
        IF n = 0 THEN first
        ELSE LET a == at[n - 1] IN IF a = Null THEN Null ELSE link[a]
  IN at

\* List heads and links are slots or objects of their own allocator, or NULL.
TypeOK ==
  /\ initialized \in BOOLEAN
  /\ pool_free_head \in Slots \cup {Null}
  /\ pool_link \in [Slots -> Slots \cup {Null}]
  /\ pool_cookie \in [Slots -> BOOLEAN]
  /\ pool_free_count \in 0 .. PoolCapacity /\ peak_used \in 0 .. PoolCapacity
  /\ pool_failed_alloc_count \in 0 .. MaxFailed
  /\ pool_live \subseteq Slots
  /\ donations \in 0 .. Cardinality(Indices)
  /\ slab_free_head \in [Caches -> Objects \cup {Null}]
  /\ slab_link \in [Objects -> Objects \cup {Null}]
  /\ slab_cookie \in [Objects -> BOOLEAN]
  /\ slab_free_count \in [Caches -> 0 .. Cardinality(Objects)]
  /\ used_count \in [Caches -> 0 .. Cardinality(Objects)]
  /\ DOMAIN slab_live \subseteq Objects
  /\ frame_lists.heads \in [Nodes -> 0 .. Frames]
  /\ frame_lists.next \in [1 .. Frames -> 0 .. Frames] /\ frame_lists.count \in 0 .. Frames
  /\ populated \in 0 .. Frames /\ numa_known \in BOOLEAN
  /\ frames_held \subseteq 1 .. Frames /\ unmapped \subseteq 1 .. Frames

\* The list through the slots has free_count members, no cycle, and is exactly
\* the slots nobody holds, whatever the order of allocations, frees and double
\* frees; so the guarded increment of free_count never hides a miscount.
ListIsTheFreeSlots ==
  initialized =>
    LET at == ListFrom(pool_free_head, pool_link, PoolCapacity)
        listed == {at[n] : n \in 0 .. PoolCapacity} \ {Null}
    IN /\ listed = Slots \ pool_live
       /\ Cardinality(listed) = pool_free_count
       /\ at[pool_free_count] = Null

SlabList(c) == ListFrom(slab_free_head[c], slab_link, Cardinality(Objects))
FreeObjects(c) == LET at == SlabList(c) IN {at[n] : n \in DOMAIN at} \ {Null}

Placed == UNION {Carved(i) : i \in {j \in Indices : j < donations}}

\* The intrusive lists stay well formed through any order of frees: no cycle,
\* free_count is the length, no object on two lists or on one and in use, and
\* no object on neither.
ListsPartitionObjects ==
  /\ \A c \in Caches : /\ Cardinality(FreeObjects(c)) = slab_free_count[c]
                       /\ SlabList(c)[slab_free_count[c]] = Null
  /\ \A c, d \in Caches : c # d => FreeObjects(c) \cap FreeObjects(d) = {}
  /\ (UNION {FreeObjects(c) : c \in Caches}) \cup DOMAIN slab_live = Placed
  /\ \A c \in Caches : FreeObjects(c) \cap DOMAIN slab_live = {}

\* No two callers share memory, even after an object came back on the list of
\* another cache and was handed out at that cache's size.
LiveObjectsDisjoint ==
  \A a, b \in DOMAIN slab_live : a < b => a + slab_live[a] <= b

FrameList(n) == ListFrom(frame_lists.heads[n], frame_lists.next, Frames)
ListedFrames(n) == LET at == FrameList(n) IN {at[k] : k \in DOMAIN at} \ {Null}

\* Every frame below the second pass's cursor is on the list of one node, held by one
\* caller or was never mapped, and free_page_count is what the lists hold together, between
\* the watermarks.  A frame freed since the SRAT was read lies on its own node's list: only
\* frames of the boot mapping, pushed before, may lie on another's, and that is node 0's.
FrameListsExact ==
  /\ \A n \in Nodes : FrameList(n)[Cardinality(ListedFrames(n))] = Null
  /\ \A n, m \in Nodes : n # m => ListedFrames(n) \cap ListedFrames(m) = {}
  /\ LET listed == UNION {ListedFrames(n) : n \in Nodes} IN
       /\ listed \cup frames_held \cup unmapped = 1 .. populated
       /\ listed \cap (frames_held \cup unmapped) = {} /\ frames_held \cap unmapped = {}
       /\ frame_lists.count = Cardinality(listed)
  /\ frame_lists.marks # <<>> =>
       frame_lists.count \in frame_lists.marks[1] .. frame_lists.marks[2]
  /\ \A n \in Nodes : \A f \in ListedFrames(n) :
       FrameNode[f] = n \/ (n = 0 /\ f <= BootFrames)

\* slab.h: kernel_slab_free returns "an object to its cache", so a cache's list
\* only ever holds objects carved from the pages donated to it.
ReturnedToItsCache ==
  \A c \in Caches :
    FreeObjects(c) \subseteq UNION {Carved(i) : i \in {j \in Indices : CacheOfIndex(j) = c}}
=============================================================================
