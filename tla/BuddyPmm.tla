------------------------------ MODULE BuddyPmm ------------------------------
(***************************************************************************)
(* The server-profile physical memory manager of arch/i386/cpu/pmm.c: the  *)
(* buddy allocator, its two population passes and the NUMA policy that is  *)
(* initialised between them.                                               *)
(*                                                                         *)
(* A page is its index (phys_addr >> 12); a block is a base page and an    *)
(* order.  The intrusive free lists buddy_free_list_heads[node][order] are *)
(* the set `filed' of the blocks they hold: which block of one list a pop  *)
(* returns (the code takes the most recent one) is left open.              *)
(* buddy_page_is_free and buddy_page_order are one marker, because the     *)
(* order is valid only while the page is the base of a free block.         *)
(***************************************************************************)
EXTENDS Integers, FiniteSets

CONSTANTS MaxOrder,     \* PMM_BUDDY_MAX_ORDER
          BlockPages,   \* BlockPages[o] is 1u << o
          BootPages,    \* pages below PMM_BOOT_MAP_LIMIT that pass 1 releases
          ExtendPages,  \* pages above it that pass 2 maps and releases
          NodeCount,    \* numa_policy_get_node_count() once SRAT is parsed
          SratNode,     \* node of the SRAT range that holds a page
          LocalNode,    \* numa_policy_get_local_node()
          MaxRejects    \* bound on the rejected frees a run counts

Orders == 0 .. MaxOrder
Pages  == 0 .. (BlockPages[MaxOrder] - 1)      \* PMM_MAX_PAGE_COUNT of them
Nodes  == 0 .. (NodeCount - 1)
NotFree == -1                                  \* buddy_page_is_free[p] == 0

\* 1u << order doubles at every order.
ASSUME OrderAssumption ==
  /\ MaxOrder \in Nat
  /\ BlockPages \in [Orders -> Nat]
  /\ BlockPages[0] = 1
  /\ \A o \in Orders : o < MaxOrder => BlockPages[o + 1] = 2 * BlockPages[o]

\* The usable pages of the memory map; page 0 lies below PMM_LOW_MEMORY_LIMIT,
\* and the two passes split the map at PMM_BOOT_MAP_LIMIT.
ASSUME PageAssumption ==
  /\ BootPages \subseteq Pages \ {0}
  /\ ExtendPages \subseteq Pages \ {0}
  /\ BootPages \cap ExtendPages = {}

\* numa_policy_parse_srat files a range only under a node it has counted.
ASSUME NodeAssumption ==
  /\ NodeCount \in Nat \ {0}
  /\ SratNode \in [Pages -> Nodes]
  /\ LocalNode \in Nodes

ASSUME RejectAssumption == MaxRejects \in Nat

VARIABLES phase,                 \* boot progress: pass1, numa, pass2, run
          pending,               \* pages the population passes have still to visit
          withheld,              \* pages pass 2 could not map
          filed,                 \* the free lists
          marker,                \* buddy_page_is_free and buddy_page_order
          buddy_page_allocated,  \* the ownership map
          free_page_count,
          watermark_low,
          watermark_high,
          buddy_rejected_free_count,
          buddy_double_free_count

vars == <<phase, pending, withheld, filed, marker, buddy_page_allocated,
          free_page_count, watermark_low, watermark_high,
          buddy_rejected_free_count, buddy_double_free_count>>

counts == <<buddy_rejected_free_count, buddy_double_free_count>>
-----------------------------------------------------------------------------
(* Blocks and their buddies *)

Block(b, o) == b .. (b + BlockPages[o] - 1)

\* current_phys after the merge loop has climbed to order o.
BlockBase(p, o) == p - (p % BlockPages[o])

\* current_phys ^ block_size
Buddy(b, o) == IF (b \div BlockPages[o]) % 2 = 0 THEN b + BlockPages[o]
                                                  ELSE b - BlockPages[o]

FreeBlock(n, o, b) == [node |-> n, order |-> o, base |-> b]
PagesOf(x) == Block(x.base, x.order)
FreePages == UNION {PagesOf(x) : x \in filed}

\* numa_policy_get_node_for_address: no range is known before the SRAT is read.
NodeOf(p) == IF phase \in {"pass1", "numa"} THEN 0 ELSE SratNode[p]

buddy_is_order_aligned(p, o) == p % BlockPages[o] = 0

\* Mutant: only the first page is looked up.
FirstPageIsAllocated(p, o) == p \in buddy_page_allocated

buddy_range_is_allocated(p, o) == Block(p, o) \subseteq buddy_page_allocated

\* buddy_can_merge, then buddy_list_remove_exact in the list of the node that
\* the address maps to now.
buddy_can_merge(o, b) ==
  /\ b \in Pages
  /\ marker[b] = o
  /\ FreeBlock(NodeOf(b), o, b) \in filed

\* Mutant: one merge instead of a loop of merges.
MergeOnce(p, o) ==
  IF o < MaxOrder /\ buddy_can_merge(o, Buddy(BlockBase(p, o), o)) THEN o + 1 ELSE o

\* The order at which the merge loop started with block (p, o) stops.
MergeOrder(p, o) ==
  CHOOSE k \in o .. MaxOrder :
    /\ \A j \in o .. (k - 1) : buddy_can_merge(j, Buddy(BlockBase(p, j), j))
    /\ k < MaxOrder => ~ buddy_can_merge(k, Buddy(BlockBase(p, k), k))

\* The first page ever inserted seeds both marks (watermarks_seeded).
pmm_update_watermarks ==
  IF watermark_high = 0
  THEN /\ watermark_high' = free_page_count'
       /\ watermark_low'  = free_page_count'
  ELSE /\ watermark_high' = IF free_page_count' > watermark_high
                            THEN free_page_count' ELSE watermark_high
       /\ watermark_low'  = IF free_page_count' < watermark_low
                            THEN free_page_count' ELSE watermark_low
-----------------------------------------------------------------------------
(* buddy_insert_order and buddy_remove_order *)

CreditPages(o) == free_page_count' = free_page_count + BlockPages[o]

\* The markers after a merge: the absorbed bases are cleared, the new one set.
MarkMerged(base, k, absorbed) ==
  [q \in Pages |-> IF q = base THEN k
                   ELSE IF \E x \in absorbed : x.base = q THEN NotFree
                   ELSE marker[q]]

\* The part of buddy_insert_order behind its checks: climb while the buddy is
\* free, then push the merged block.
InsertBlock(p, o) ==
  LET k       == MergeOrder(p, o)
      base    == BlockBase(p, k)
      absorbed == {FreeBlock(NodeOf(Buddy(BlockBase(p, j), j)), j,
                             Buddy(BlockBase(p, j), j)) : j \in o .. (k - 1)}
  IN  /\ filed' = (filed \ absorbed) \cup {FreeBlock(NodeOf(base), k, base)}
      /\ marker' = MarkMerged(base, k, absorbed)
      /\ buddy_page_allocated' = buddy_page_allocated \ Block(base, k)
      /\ CreditPages(o)
      /\ pmm_update_watermarks

\* The checks of buddy_insert_order that no phase skips.
GoodArgument(p, o) ==
  /\ o \in Orders
  /\ p \in Pages
  /\ buddy_is_order_aligned(p, o)

\* The distance of a node in the scan (local_node + i) % node_count.
ScanDistance(n) == (n - LocalNode + NodeCount) % NodeCount

\* The blocks buddy_remove_order may pop: in the first node of the scan that
\* holds a block of at least the requested order, the smallest such order.
Candidates(o) ==
  {x \in filed :
     /\ x.order >= o
     /\ \A y \in filed : y.order >= o =>
          \/ ScanDistance(x.node) < ScanDistance(y.node)
          \/ x.node = y.node /\ x.order <= y.order}

\* The right halves a block of order `from' at b leaves when it is split down.
RightHalves(b, from, to) ==
  {FreeBlock(NodeOf(b + BlockPages[j]), j, b + BlockPages[j]) : j \in to .. (from - 1)}

\* Mutant: the pop leaves the marker of the popped block set.
MarkHalves(b, halves) ==
  [q \in Pages |-> IF \E h \in halves : h.base = q
                   THEN (CHOOSE h \in halves : h.base = q).order ELSE marker[q]]

\* The markers after a pop: the right halves are set, the popped base cleared.
MarkSplit(b, halves) ==
  [q \in Pages |-> IF \E h \in halves : h.base = q
                   THEN (CHOOSE h \in halves : h.base = q).order
                   ELSE IF q = b THEN NotFree ELSE marker[q]]

\* Pop x, split it down to order o and push the right halves.
TakeBlock(x, o) ==
  LET halves == RightHalves(x.base, x.order, o)
  IN  /\ filed' = (filed \ {x}) \cup halves
      /\ marker' = MarkSplit(x.base, halves)
      /\ buddy_page_allocated' = (buddy_page_allocated \cup PagesOf(x))
                                   \ UNION {PagesOf(h) : h \in halves}
      /\ free_page_count' = free_page_count - BlockPages[o]
      /\ pmm_update_watermarks
-----------------------------------------------------------------------------
(* Boot: the two population passes around the NUMA discovery *)

Init ==
  /\ phase = "pass1"
  /\ pending = BootPages \cup ExtendPages
  /\ withheld = {}
  /\ filed = {}
  /\ marker = [p \in Pages |-> NotFree]
  /\ buddy_page_allocated = {}
  /\ free_page_count = 0
  /\ watermark_low = 0 /\ watermark_high = 0
  /\ buddy_rejected_free_count = 0 /\ buddy_double_free_count = 0

\* One page of physical_memory_manager_initialize's loop; the ownership check
\* is off (buddy_population_in_progress).
PopulateBoot(p) ==
  /\ phase = "pass1"
  /\ p \in pending \cap BootPages
  /\ InsertBlock(p, 0)
  /\ pending' = pending \ {p}
  /\ UNCHANGED <<phase, withheld, counts>>

EndPass1 ==
  /\ phase = "pass1" /\ pending \cap BootPages = {}
  /\ phase' = "numa"
  /\ UNCHANGED <<pending, withheld, filed, marker, buddy_page_allocated,
                 free_page_count, watermark_low, watermark_high, counts>>

\* From here on an address maps to the node of its SRAT range; the blocks
\* already filed stay in the lists of node 0.
numa_policy_initialize ==
  /\ phase = "numa"
  /\ phase' = "pass2"
  /\ UNCHANGED <<pending, withheld, filed, marker, buddy_page_allocated,
                 free_page_count, watermark_low, watermark_high, counts>>

\* One page of physical_memory_manager_extend_mapping's loop, once
\* paging_map_page has mapped it.
PopulateExtend(p) ==
  /\ phase = "pass2"
  /\ p \in pending
  /\ InsertBlock(p, 0)
  /\ pending' = pending \ {p}
  /\ UNCHANGED <<phase, withheld, counts>>

\* paging_map_page failed: the loop continues with the next page.
SkipUnmappable(p) ==
  /\ phase = "pass2"
  /\ p \in pending
  /\ pending' = pending \ {p}
  /\ withheld' = withheld \cup {p}
  /\ UNCHANGED <<phase, filed, marker, buddy_page_allocated, free_page_count,
                 watermark_low, watermark_high, counts>>

EndPass2 ==
  /\ phase = "pass2" /\ pending = {}
  /\ phase' = "run"
  /\ UNCHANGED <<pending, withheld, filed, marker, buddy_page_allocated,
                 free_page_count, watermark_low, watermark_high, counts>>
-----------------------------------------------------------------------------
(* The allocator's interface *)

\* page_frame_allocate_order.  During pass 2 only paging_map_page calls it,
\* for a page-table frame (an order-1 block, else a single page).
Allocate(o) ==
  /\ phase = "run" \/ (phase = "pass2" /\ o \in {0, 1})
  /\ o \in Orders
  /\ \E x \in Candidates(o) : TakeBlock(x, o)
  /\ UNCHANGED <<phase, pending, withheld, counts>>

\* page_frame_free_order of a block whose pages are all allocated.
Free(p, o) ==
  /\ phase = "run"
  /\ GoodArgument(p, o)
  /\ buddy_range_is_allocated(p, o)
  /\ InsertBlock(p, o)
  /\ UNCHANGED <<phase, pending, withheld, counts>>

\* page_frame_free_order of anything else: only the debug counters move.
RejectFree(p, o) ==
  /\ phase = "run"
  /\ buddy_rejected_free_count < MaxRejects
  /\ ~ (GoodArgument(p, o) /\ buddy_range_is_allocated(p, o))
  /\ buddy_rejected_free_count' = buddy_rejected_free_count + 1
  /\ buddy_double_free_count' = buddy_double_free_count
                                + (IF GoodArgument(p, o) THEN 1 ELSE 0)
  /\ UNCHANGED <<phase, pending, withheld, filed, marker, buddy_page_allocated,
                 free_page_count, watermark_low, watermark_high>>

\* Callers may pass any page and any order, one past each limit included.
AnyPage  == Pages \cup {BlockPages[MaxOrder]}
AnyOrder == 0 .. (MaxOrder + 1)

Next ==
  \/ \E p \in BootPages : PopulateBoot(p)
  \/ EndPass1
  \/ numa_policy_initialize
  \/ \E p \in ExtendPages : PopulateExtend(p) \/ SkipUnmappable(p)
  \/ EndPass2
  \/ \E o \in Orders : Allocate(o)
  \/ \E p \in AnyPage, o \in AnyOrder : Free(p, o) \/ RejectFree(p, o)

Spec == Init /\ [][Next]_vars
-----------------------------------------------------------------------------
(* Properties *)

\* The lists file blocks of managed memory under an existing node and order, and a
\* marker is an order or NotFree, before, between and after the population passes.
TypeOK ==
  /\ phase \in {"pass1", "numa", "pass2", "run"}
  /\ pending \subseteq BootPages \cup ExtendPages
  /\ withheld \subseteq ExtendPages \ pending
  /\ filed \subseteq [node : Nodes, order : Orders, base : Pages]
  /\ marker \in [Pages -> Orders \cup {NotFree}]
  /\ buddy_page_allocated \subseteq Pages
  /\ free_page_count \in Nat
  /\ watermark_low \in Nat /\ watermark_high \in Nat
  /\ buddy_rejected_free_count \in Nat /\ buddy_double_free_count \in Nat

\* No page is handed out twice: two blocks of the free lists never overlap, none
\* reaches past managed memory, and no page of one is also in the ownership map,
\* whatever pages and orders the callers of page_frame_free_order pass.
NoPageInTwoPlaces ==
  /\ \A x, y \in filed : x # y => PagesOf(x) \cap PagesOf(y) = {}
  /\ FreePages \cap buddy_page_allocated = {}

\* No page is lost: every page the population passes released is in a free
\* block or in the ownership map, and no other page is (page 0, whose address is
\* the lists' NULL, the kernel image and pages that could not be mapped stay out).
NoPageLost ==
  FreePages \cup buddy_page_allocated
    = (BootPages \cup ExtendPages) \ (pending \cup withheld)

\* buddy_can_merge trusts the per-page markers: a marker names exactly the
\* blocks that are in a free list.
MarkersNameFreeBlocks ==
  \A p \in Pages, o \in Orders :
    marker[p] = o <=> \E x \in filed : x.base = p /\ x.order = o

\* free_page_count, which the fragmentation ratio and the watermarks use, counts
\* exactly the pages of the free blocks through every split and merge.
CountIsExact == free_page_count = Cardinality(FreePages)

\* Coalescing never stops early: two buddies that both lie in the list of their
\* own node are never free together.
FullyCoalesced ==
  \A x, y \in filed :
    (x.order = y.order /\ x.order < MaxOrder /\ y.base = Buddy(x.base, x.order))
      => x.node # NodeOf(x.base) \/ y.node # NodeOf(y.base)

\* An allocation takes only free pages and a free returns only allocated pages:
\* the double-free guard lets no step outside the population passes do more.
PagesChangeHandsOnce ==
  [][/\ buddy_page_allocated' \ buddy_page_allocated \subseteq FreePages
     /\ phase = "run" => FreePages' \ FreePages \subseteq buddy_page_allocated]_vars

\* The inductive invariant: in every well-typed state each page the population passes
\* released is free in one block or allocated and never both, the markers the merge
\* loop trusts name exactly the free blocks, and the counter counts their pages.
BuddyInv ==
  /\ TypeOK
  /\ NoPageInTwoPlaces
  /\ NoPageLost
  /\ MarkersNameFreeBlocks
  /\ CountIsExact
-----------------------------------------------------------------------------
(* The instance that BuddyPmm.cfg names: eight pages, of which 1 to 3 come from pass 1 and  *)
(* 4 to 7 from pass 2; odd pairs belong to the second node, so that pages 2 and 3 are filed *)
(* under a node they no longer map to.                                                      *)

MCBlockPages == [o \in 0 .. MaxOrder |-> 2 ^ o]
MCSratNode == [p \in 0 .. 7 |-> (p \div 2) % 2]
=============================================================================
