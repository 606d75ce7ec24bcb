----------------------------- MODULE ServerHeap -----------------------------
(***************************************************************************)
(* The server profile of kernel/memory/heap.c: kmalloc pops a block from   *)
(* the size class lists of the local or of another domain, refills a class *)
(* by carving a batch from the first-fit list, grows that list page by     *)
(* page, and takes large requests to the virtual memory manager.  Memory   *)
(* is counted in units of KERNEL_HEAP_ALIGNMENT bytes; a block is its      *)
(* first unit and its length, header included.                             *)
(***************************************************************************)
EXTENDS Integers, Sequences, FiniteSets, FiniteSetsExt, SequencesExt

CONSTANTS Pages,         \* page numbers the page frame allocator may hand out
          PageUnits,     \* PAGE_SIZE
          Header,        \* sizeof(KernelHeapBlock_t)
          ClassSize,     \* kernel_heap_size_class_sizes, payload units by class
          Domains, Node, \* the domains and numa_policy_get_node_for_slot
          MinSplit,      \* KERNEL_HEAP_MIN_SPLIT
          Batch,         \* batch_count of a refill
          BigPayload,    \* the 1024 bytes above which the VMM is asked first
          Payloads,      \* requests, in units
          MaxLarge,      \* bound on blocks from the VMM
          MaxRejected    \* bound on refused frees

HeapAssumption ==
  /\ Pages \subseteq Nat /\ PageUnits \in Nat \ {0} /\ Header \in Nat \ {0}
  /\ ClassSize \in Seq(Nat \ {0}) /\ \A i, j \in DOMAIN ClassSize : i < j => ClassSize[i] < ClassSize[j]
  /\ Domains \subseteq Nat /\ Node \in [Domains -> Nat]
  /\ \A c \in DOMAIN ClassSize : Batch * (ClassSize[c] + Header) <= PageUnits

Classes == DOMAIN ClassSize
Full(c) == ClassSize[c] + Header

VARIABLES page_frames,   \* pages still with the page frame allocator
          free_list,     \* kernel_heap_free_list: blocks [at, size]
          small_free_blocks, small_free_bytes,
          class_list,    \* size_class_lists of each domain: header addresses
          free_count,    \* size_class_free_counts
          live,          \* blocks handed out: [at, size, class, owner, asked]
          lost,          \* blocks whose kfree was refused, and tails of batches
          large_count,   \* kernel_heap_large_allocation_count
          rejected_free_count

vars == <<page_frames, free_list, small_free_blocks, small_free_bytes, class_list,
          free_count, live, lost, large_count, rejected_free_count>>

None == 0                \* flags without KERNEL_HEAP_BLOCK_FLAG_SC
Vmm  == -1               \* KERNEL_HEAP_BLOCK_FLAG_VMM

Init ==
  /\ page_frames = Pages
  /\ free_list = << >> /\ small_free_blocks = 0 /\ small_free_bytes = 0
  /\ class_list = [d \in Domains |-> [c \in Classes |-> << >>]]
  /\ free_count = [d \in Domains |-> [c \in Classes |-> 0]]
  /\ live = {} /\ lost = {}
  /\ large_count = 0 /\ rejected_free_count = 0
-----------------------------------------------------------------------------
(* The address-ordered list *)

Blk(at, size) == [at |-> at, size |-> size]

\* kernel_heap_add_free_block
AddFreeBlock(list, b) ==
  SelectSeq(list, LAMBDA x : x.at < b.at) \o <<b>> \o SelectSeq(list, LAMBDA x : x.at > b.at)

\* kernel_heap_merge_adjacent_blocks, repeated from position i
MergeFrom(list, i) ==
  LET touching(j) == \A k \in i .. (j - 1) : list[k].at + list[k].size = list[k + 1].at
      last  == Max({j \in i .. Len(list) : touching(j)})
      whole == Blk(list[i].at, list[last].at + list[last].size - list[i].at)
  IN SubSeq(list, 1, i - 1) \o <<whole>> \o SubSeq(list, last + 1, Len(list))

\* kernel_heap_coalesce_around: to the right of the block, then from its left
\* neighbour.
CoalesceAround(list, at) ==
  LET i == CHOOSE k \in DOMAIN list : list[k].at = at
      right == MergeFrom(list, i)
  IN IF i = 1 THEN right ELSE MergeFrom(right, i - 1)

\* kernel_heap_grow_small_pool
Grown(list, page) == AddFreeBlock(list, Blk(page * PageUnits, PageUnits))

\* The first block large enough, or 0.
FirstFit(list, total) ==
  LET fits == {i \in DOMAIN list : list[i].size >= total}
  IN IF fits = {} THEN 0 ELSE Min(fits)

\* Mutant: the block is handed out whole and split all the same.
TakeWithoutTrim(list, i, total) ==
  LET b == list[i]
      rest == RemoveAt(list, i)
  IN IF b.size - total >= MinSplit
     THEN [block |-> b, list |-> AddFreeBlock(rest, Blk(b.at + total, b.size - total))]
     ELSE [block |-> b, list |-> rest]

\* The block at position i cut to total units, and the list without it.
TakeBlock(list, i, total) ==
  LET b == list[i]
      rest == RemoveAt(list, i)
  IN IF b.size - total >= MinSplit
     THEN [block |-> Blk(b.at, total),
           list |-> AddFreeBlock(rest, Blk(b.at + total, b.size - total))]
     ELSE [block |-> b, list |-> rest]

-----------------------------------------------------------------------------
(* kmalloc *)

\* The first class that holds the payload.
ClassOf(payload) == Min({c \in Classes : payload <= ClassSize[c]})
IsSmall(payload) == \E c \in Classes : payload <= ClassSize[c]

\* kernel_heap_server_try_pop_remote_bucket: domains of the same node first.
RemoteOwners(d, c) == {e \in Domains \ {d} : class_list[e][c] # << >>}
RemoteOwner(d, c) ==
  LET near == {e \in RemoteOwners(d, c) : Node[e] = Node[d]}
  IN Min(IF near # {} THEN near ELSE RemoteOwners(d, c))

\* Where a small request finds a ready block: the local list, then another's.
BucketOwner(d, c) == IF class_list[d][c] # << >> THEN d ELSE RemoteOwner(d, c)

KmallocBucket(d, payload) ==
  /\ IsSmall(payload)
  /\ LET c == ClassOf(payload)
     IN /\ class_list[d][c] # << >> \/ RemoteOwners(d, c) # {}
        /\ LET o == BucketOwner(d, c)
           IN /\ class_list' = [class_list EXCEPT ![o][c] = Tail(@)]
              /\ free_count' = [free_count EXCEPT ![o][c] = @ - 1]
              /\ live' = live \cup {[at |-> Head(class_list[o][c]), size |-> Full(c), class |-> c,
                                     owner |-> o, asked |-> payload]}
  /\ UNCHANGED <<page_frames, free_list, small_free_blocks, small_free_bytes, lost,
                 large_count, rejected_free_count>>

\* The list after as many pages as the first-fit loop takes, and what is left.
\* A request no page can hold takes every page there is before it gives up.
Supply(total) ==
  IF FirstFit(free_list, total) # 0 THEN {<<free_list, page_frames>>}
  ELSE IF total <= PageUnits
  THEN {<<Grown(free_list, p), page_frames \ {p}>> : p \in page_frames}
  ELSE {<<FoldSet(LAMBDA p, list : Grown(list, p), free_list, page_frames), {}>>}

\* The batch carved from a block: the first piece is handed out, the others go to
\* the head of the local list.
Refill(d, c, b, payload) ==
  /\ class_list' = [class_list EXCEPT ![d][c] =
                      [i \in 1 .. (Batch - 1) |-> b.at + (Batch - i) * Full(c)] \o @]
  /\ free_count' = [free_count EXCEPT ![d][c] = @ + Batch - 1]
  /\ lost' = IF b.size > Batch * Full(c)
             THEN lost \cup {Blk(b.at + Batch * Full(c), b.size - Batch * Full(c))}
             ELSE lost
  /\ live' = live \cup {[at |-> b.at, size |-> Full(c), class |-> c, owner |-> d,
                         asked |-> payload]}

FirstFitBlock(b, payload) ==
  /\ live' = live \cup {[at |-> b.at, size |-> b.size, class |-> None, owner |-> 0,
                         asked |-> payload]}
  /\ UNCHANGED <<class_list, free_count, lost>>

\* The first-fit path with the list and the pages the loop ended with.
TakeFrom(d, payload, total, list, frames) ==
  LET i == FirstFit(list, total)
      t == TakeBlock(list, i, total)
      grown == Cardinality(page_frames) - Cardinality(frames)
      split == list[i].size > t.block.size
  IN /\ page_frames' = frames
     /\ IF i = 0
        THEN /\ free_list' = list
             /\ small_free_blocks' = small_free_blocks + grown
             /\ small_free_bytes' = small_free_bytes + grown * PageUnits
             /\ UNCHANGED <<class_list, free_count, live, lost>>
        ELSE /\ free_list' = t.list
             /\ small_free_blocks' = small_free_blocks + grown - (IF split THEN 0 ELSE 1)
             /\ small_free_bytes' = small_free_bytes + grown * PageUnits - t.block.size
             /\ IF IsSmall(payload) THEN Refill(d, ClassOf(payload), t.block, payload)
                                    ELSE FirstFitBlock(t.block, payload)

KmallocFirstFit(d, payload) ==
  /\ IF IsSmall(payload)
     THEN class_list[d][ClassOf(payload)] = << >> /\ RemoteOwners(d, ClassOf(payload)) = {}
     ELSE TRUE
  /\ LET total == IF IsSmall(payload) THEN Batch * Full(ClassOf(payload)) ELSE payload + Header
     IN \E s \in Supply(total) : TakeFrom(d, payload, total, s[1], s[2])
  /\ UNCHANGED <<large_count, rejected_free_count>>

\* A block of whole pages from kernel_vmm_alloc_pages; its address is not the heap's.
VmmBlock(payload) ==
  /\ large_count < MaxLarge
  /\ LET id == Max((-MaxLarge .. -1) \ {b.at : b \in live})
     IN live' = live \cup {[at |-> id, size |-> payload + Header, class |-> Vmm, owner |-> 0,
                           asked |-> payload]}
  /\ large_count' = large_count + 1
  /\ UNCHANGED <<page_frames, free_list, small_free_blocks, small_free_bytes, class_list,
                 free_count, lost, rejected_free_count>>

\* When the VMM cannot serve a large request it falls through to the first fit.
KmallocVmm(payload) == payload > BigPayload /\ VmmBlock(payload)

\* kmalloc_sensitive never falls through.
KmallocSensitive(payload) == VmmBlock(payload)

Kmalloc(d, payload) == \/ KmallocBucket(d, payload) \/ KmallocFirstFit(d, payload)
                       \/ KmallocVmm(payload)
-----------------------------------------------------------------------------
(* kfree *)

\* kfree compares a canary that only debug builds write, so in other builds it
\* compares whatever the memory held: any free may be refused.
FreeRefused(b) ==
  /\ rejected_free_count < MaxRejected
  /\ rejected_free_count' = rejected_free_count + 1
  /\ live' = live \ {b}
  /\ lost' = IF b.class = Vmm THEN lost ELSE lost \cup {Blk(b.at, b.size)}
  /\ UNCHANGED <<page_frames, free_list, small_free_blocks, small_free_bytes, class_list,
                 free_count, large_count>>

FreeVmm(b) ==
  /\ b.class = Vmm
  /\ large_count' = IF large_count > 0 THEN large_count - 1 ELSE 0
  /\ live' = live \ {b}
  /\ UNCHANGED <<page_frames, free_list, small_free_blocks, small_free_bytes, class_list,
                 free_count, lost, rejected_free_count>>

\* The block returns to the domain it was carved for, its reserved field.
FreeToClass(b) ==
  /\ b.class \in Classes
  /\ class_list' = [class_list EXCEPT ![b.owner][b.class] = <<b.at>> \o @]
  /\ free_count' = [free_count EXCEPT ![b.owner][b.class] = @ + 1]
  /\ live' = live \ {b}
  /\ UNCHANGED <<page_frames, free_list, small_free_blocks, small_free_bytes, lost,
                 large_count, rejected_free_count>>

FreeToList(b) ==
  /\ b.class = None
  /\ free_list' = CoalesceAround(AddFreeBlock(free_list, Blk(b.at, b.size)), b.at)
  /\ small_free_blocks' = small_free_blocks + Len(free_list') - Len(free_list)
  /\ small_free_bytes' = small_free_bytes + b.size
  /\ live' = live \ {b}
  /\ UNCHANGED <<page_frames, class_list, free_count, lost, large_count, rejected_free_count>>

Kfree(b) == FreeRefused(b) \/ FreeVmm(b) \/ FreeToClass(b) \/ FreeToList(b)
-----------------------------------------------------------------------------
Next == \/ \E d \in Domains, payload \in Payloads : Kmalloc(d, payload)
        \/ \E payload \in Payloads : KmallocSensitive(payload)
        \/ \E b \in live : Kfree(b)

Spec == Init /\ [][Next]_vars
-----------------------------------------------------------------------------
(* Properties *)

HeapLive == {b \in live : b.class # Vmm}
Listed == UNION {{Blk(class_list[d][c][i], Full(c)) : i \in DOMAIN class_list[d][c]} :
                   d \in Domains, c \in Classes}

\* Every variable keeps its type.
TypeOK ==
  /\ page_frames \subseteq Pages
  /\ \A i \in DOMAIN free_list : free_list[i].at \in Nat /\ free_list[i].size \in Nat \ {0}
  /\ small_free_blocks \in Nat /\ small_free_bytes \in Nat
  /\ class_list \in [Domains -> [Classes -> Seq(Nat)]]
  /\ free_count \in [Domains -> [Classes -> Nat]]
  /\ \A b \in live : b.class \in Classes \cup {None, Vmm}
  /\ large_count \in 0 .. MaxLarge /\ rejected_free_count \in 0 .. MaxRejected

Units(b) == b.at .. (b.at + b.size - 1)
PageSet == UNION {(p * PageUnits) .. ((p + 1) * PageUnits - 1) : p \in Pages \ page_frames}

\* Every unit of every page the heap took is in exactly one place: a first-fit
\* block, a block of a size class list, a block in use, or lost.  No two callers
\* share memory and nothing in use is on a list, whatever was split, carved in
\* batches, popped from another domain and merged back.
EveryUnitInOnePlace ==
  LET free   == ToSet(free_list)
      used   == {Blk(b.at, b.size) : b \in HeapLive}
      pieces == free \cup Listed \cup used \cup lost
      count  == Len(free_list) + Cardinality(HeapLive) + Cardinality(lost)
                  + FoldFunction(+, 0, [dc \in Domains \X Classes |-> Len(class_list[dc[1]][dc[2]])])
  IN /\ Cardinality(pieces) = count
     /\ UNION {Units(b) : b \in pieces} = PageSet
     /\ FoldSet(LAMBDA b, n : b.size + n, 0, pieces) = Cardinality(PageSet)

\* A block holds what was asked for.
RequestsFit == \A b \in live : b.size >= b.asked + Header

\* The first-fit list is in address order and the counters the telemetry reads
\* describe the lists exactly.
CountersExact ==
  /\ \A i \in 1 .. (Len(free_list) - 1) : free_list[i].at < free_list[i + 1].at
  /\ small_free_blocks = Len(free_list)
  /\ small_free_bytes = FoldSeq(LAMBDA b, n : b.size + n, 0, free_list)
  /\ \A d \in Domains, c \in Classes : free_count[d][c] = Len(class_list[d][c])
  /\ large_count >= Cardinality({b \in live : b.class = Vmm})

\* kfree takes back every block kmalloc handed out.
FreesAccepted == [][rejected_free_count' = rejected_free_count]_vars
=============================================================================
