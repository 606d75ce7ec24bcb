-------------------------------- MODULE Tlsf --------------------------------
(***************************************************************************)
(* The two-level segregated fit allocator of kernel/memory/tlsf.c: blocks  *)
(* tile one pool, free blocks are filed in buckets (fl, sl) found through  *)
(* two levels of bitmaps, and neighbours coalesce on free.  Sizes are in   *)
(* bytes and a block is named by the address of its header.                *)
(***************************************************************************)
EXTENDS Integers, FiniteSets, SequencesExt

CONSTANTS FLI_COUNT,     \* first-level classes (16)
          PoolSize, Requests,
          MaxLive, MaxFailed   \* bounds: blocks out at once, failed_alloc_count

SLI_LOG2 == 2
SLI_COUNT == 4
MIN_BLOCK_SIZE == 16
MAX_BLOCK_SIZE == 2 ^ FLI_COUNT - 1
ALIGN == 8
OVERHEAD == 8
Sentinel == PoolSize - OVERHEAD

TlsfAssumption ==
  /\ FLI_COUNT \in Nat /\ MaxLive \in Nat /\ MaxFailed \in Nat
  /\ PoolSize \in Nat /\ PoolSize % ALIGN = 0
  /\ PoolSize >= OVERHEAD + MIN_BLOCK_SIZE + OVERHEAD
  /\ Requests \subseteq Nat

VARIABLES block,               \* header address -> [size, free, prev_free, prev_phys]
          free_lists,          \* bucket -> addresses, head first
          fl_bitmap, sl_bitmap,
          free_bytes, failed_alloc_count,
          live                 \* address -> the size the caller asked for

vars == <<block, free_lists, fl_bitmap, sl_bitmap, free_bytes, failed_alloc_count, live>>

FLs == 0 .. (FLI_COUNT - 1)
SLs == 0 .. (SLI_COUNT - 1)
Buckets == FLs \X SLs
-----------------------------------------------------------------------------
(* Mapping a size to its bucket *)

log2_floor(v) == CHOOSE k \in 0 .. 31 : 2 ^ k <= v /\ v < 2 ^ (k + 1)

mapping_insert(size) ==
  IF size < 2 ^ (SLI_LOG2 + 1)
  THEN LET sl == size \div (MIN_BLOCK_SIZE \div SLI_COUNT)
       IN <<0, IF sl >= SLI_COUNT THEN SLI_COUNT - 1 ELSE sl>>
  ELSE LET fl == log2_floor(size)
       IN IF fl >= FLI_COUNT THEN <<FLI_COUNT - 1, SLI_COUNT - 1>>
          ELSE <<fl, size \div 2 ^ (fl - SLI_LOG2) - SLI_COUNT>>

\* Mutant: the request is looked up in the bucket it would be filed in.
SearchOwnBucket(size) == mapping_insert(size)

mapping_search(size) ==
  mapping_insert(IF size >= 2 ^ (SLI_LOG2 + 1)
                 THEN size + 2 ^ (log2_floor(size) - SLI_LOG2) - 1 ELSE size)

\* The request, at least the minimum and rounded up to the alignment.
Rounded(request) ==
  LET size == IF request < MIN_BLOCK_SIZE THEN MIN_BLOCK_SIZE ELSE request
  IN ((size + ALIGN - 1) \div ALIGN) * ALIGN
-----------------------------------------------------------------------------
(* Free lists and bitmaps, as a record [lists, fl, sl] *)

Filed == [lists |-> free_lists, fl |-> fl_bitmap, sl |-> sl_bitmap]

\* Mutant: the first-level bit is not set.
InsertWithoutFl(f, addr, size) ==
  LET b == mapping_insert(size)
  IN [lists |-> [f.lists EXCEPT ![b] = <<addr>> \o @], fl |-> f.fl,
      sl |-> [f.sl EXCEPT ![b[1]] = @ \cup {b[2]}]]

free_list_insert(f, addr, size) ==
  LET b == mapping_insert(size)
  IN [lists |-> [f.lists EXCEPT ![b] = <<addr>> \o @],
      fl |-> f.fl \cup {b[1]},
      sl |-> [f.sl EXCEPT ![b[1]] = @ \cup {b[2]}]]

free_list_remove(f, addr, size) ==
  LET b == mapping_insert(size)
      rest == SelectSeq(f.lists[b], LAMBDA a : a # addr)
      sl == IF rest = << >> THEN [f.sl EXCEPT ![b[1]] = @ \ {b[2]}] ELSE f.sl
  IN [lists |-> [f.lists EXCEPT ![b] = rest],
      fl |-> IF sl[b[1]] = {} THEN f.fl \ {b[1]} ELSE f.fl,
      sl |-> sl]

File(f) == free_lists' = f.lists /\ fl_bitmap' = f.fl /\ sl_bitmap' = f.sl

LowestBit(S) == CHOOSE x \in S : \A y \in S : x <= y

\* find_suitable_block: the first non-empty bucket at or above (fl, sl), by the
\* bitmaps; the empty set when there is none.
find_suitable_block(fl, sl) ==
  LET here == {j \in sl_bitmap[fl] : j >= sl}
      above == {i \in fl_bitmap : i > fl}
  IN IF here # {} THEN {Head(free_lists[<<fl, LowestBit(here)>>])}
     ELSE IF above = {} THEN {}
     ELSE LET i == LowestBit(above) IN {Head(free_lists[<<i, LowestBit(sl_bitmap[i])>>])}
-----------------------------------------------------------------------------
(* Physical neighbours *)

block_next_phys(blocks, a) == a + OVERHEAD + blocks[a].size

\* The headers after a changed size: the next block, unless it is the sentinel,
\* points back at it.
Relink(blocks, a) ==
  LET next == block_next_phys(blocks, a)
  IN IF next = Sentinel THEN blocks ELSE [blocks EXCEPT ![next].prev_phys = a]

\* block_split, with the remainder marked free and its neighbour used.
block_split(blocks, a, size) ==
  LET rest == a + OVERHEAD + size
      cut == [x \in DOMAIN blocks \cup {rest} |->
                IF x = rest THEN [size |-> blocks[a].size - size - OVERHEAD, free |-> TRUE,
                                  prev_free |-> FALSE, prev_phys |-> a]
                ELSE IF x = a THEN [blocks[a] EXCEPT !.size = size] ELSE blocks[x]]
  IN Relink(cut, rest)

block_absorb_next(blocks, a, next) ==
  LET grown == [blocks[a] EXCEPT !.size = @ + OVERHEAD + blocks[next].size]
  IN Relink([x \in DOMAIN blocks \ {next} |-> IF x = a THEN grown ELSE blocks[x]], a)

MarkNext(blocks, a, is_free) ==
  LET next == block_next_phys(blocks, a)
  IN IF next = Sentinel THEN blocks ELSE [blocks EXCEPT ![next].prev_free = is_free]
-----------------------------------------------------------------------------
\* kernel_tlsf_initialize
Init ==
  LET usable == PoolSize - 2 * OVERHEAD
      empty == [lists |-> [b \in Buckets |-> << >>], fl |-> {}, sl |-> [f \in FLs |-> {}]]
      f == free_list_insert(empty, 0, usable)
  IN /\ block = [a \in {0} |-> [size |-> usable, free |-> TRUE, prev_free |-> FALSE,
                                prev_phys |-> 0]]
     /\ free_lists = f.lists /\ fl_bitmap = f.fl /\ sl_bitmap = f.sl
     /\ free_bytes = usable /\ failed_alloc_count = 0
     /\ live = [a \in {} |-> 0]

Suitable(request) ==
  IF request > MAX_BLOCK_SIZE THEN {}
  ELSE LET b == mapping_search(Rounded(request)) IN find_suitable_block(b[1], b[2])

LeavesBlock(bsize, size) == bsize >= size + OVERHEAD + MIN_BLOCK_SIZE

\* kernel_tlsf_alloc
Alloc(request) ==
  /\ request # 0
  /\ Cardinality(DOMAIN live) < MaxLive
  /\ \E a \in Suitable(request) :
       LET size == Rounded(request)
           bsize == block[a].size
           unfiled == free_list_remove(Filed, a, bsize)
           split == LeavesBlock(bsize, size)
           cut == IF split THEN block_split(block, a, size) ELSE block
       IN /\ block' = MarkNext([cut EXCEPT ![a].free = FALSE], a, FALSE)
          /\ IF split
             THEN /\ File(free_list_insert(unfiled, a + OVERHEAD + size, bsize - size - OVERHEAD))
                  /\ free_bytes' = free_bytes - (size + OVERHEAD)
             ELSE File(unfiled) /\ free_bytes' = free_bytes - bsize
          /\ live' = [x \in DOMAIN live \cup {a} |-> IF x = a THEN request ELSE live[x]]
  /\ UNCHANGED failed_alloc_count

AllocFails(request) ==
  /\ request # 0
  /\ Suitable(request) = {}
  /\ failed_alloc_count < MaxFailed
  /\ failed_alloc_count' = failed_alloc_count + 1
  /\ UNCHANGED <<block, free_lists, fl_bitmap, sl_bitmap, free_bytes, live>>

\* kernel_tlsf_free of a block in use: absorb the next block, then be absorbed
\* by the previous one.
Free(a) ==
  LET next == block_next_phys(block, a)
      with_next == next # Sentinel /\ block[next].free
      f1 == IF with_next THEN free_list_remove(Filed, next, block[next].size) ELSE Filed
      b1 == IF with_next THEN block_absorb_next(block, a, next) ELSE block
      prev == block[a].prev_phys
      with_prev == b1[a].prev_free /\ prev # a /\ b1[prev].free
      f2 == IF with_prev THEN free_list_remove(f1, prev, b1[prev].size) ELSE f1
      b2 == IF with_prev THEN block_absorb_next(b1, prev, a) ELSE b1
      freed == IF with_prev THEN prev ELSE a
  IN /\ block' = MarkNext([b2 EXCEPT ![freed].free = TRUE], freed, TRUE)
     /\ File(free_list_insert(f2, freed, b2[freed].size))
     /\ free_bytes' = free_bytes + block[a].size
                        + (IF with_next THEN OVERHEAD ELSE 0) + (IF with_prev THEN OVERHEAD ELSE 0)
     /\ live' = [x \in DOMAIN live \ {a} |-> live[x]]
     /\ UNCHANGED failed_alloc_count

Next ==
  \/ \E request \in Requests : Alloc(request) \/ AllocFails(request)
  \/ \E a \in DOMAIN live : Free(a)

Spec == Init /\ [][Next]_vars
-----------------------------------------------------------------------------
(* Properties *)

\* Every variable keeps its type; the free-byte count never goes negative.
TypeOK ==
  /\ \A a \in DOMAIN block : a \in 0 .. (Sentinel - 1) /\ a % ALIGN = 0
  /\ \A a \in DOMAIN block : block[a].size \in MIN_BLOCK_SIZE .. PoolSize
  /\ fl_bitmap \subseteq FLs /\ sl_bitmap \in [FLs -> SUBSET SLs]
  /\ free_bytes \in 0 .. PoolSize /\ failed_alloc_count \in 0 .. MaxFailed
  /\ DOMAIN live \subseteq DOMAIN block

\* The blocks tile the pool up to the sentinel, the back pointers and the
\* prev_free flags describe the neighbour, and no two free blocks touch.
BlocksTile ==
  /\ 0 \in DOMAIN block
  /\ \A a \in DOMAIN block :
       LET next == block_next_phys(block, a) IN
       /\ next = Sentinel \/ next \in DOMAIN block
       /\ \A b \in DOMAIN block : b <= a \/ b >= next
       /\ next # Sentinel =>
            /\ block[next].prev_phys = a
            /\ block[next].prev_free = block[a].free
            /\ ~(block[a].free /\ block[next].free)
       /\ block[a].free = (a \notin DOMAIN live)

\* A block is free exactly when it is filed, once, in its bucket, and the two
\* levels of bitmaps say which buckets are non-empty; free_bytes is the sum.
BucketsExact ==
  /\ \A a \in DOMAIN block : \A b \in Buckets :
       Cardinality({i \in DOMAIN free_lists[b] : free_lists[b][i] = a})
         = (IF block[a].free /\ mapping_insert(block[a].size) = b THEN 1 ELSE 0)
  /\ \A b \in Buckets : ToSet(free_lists[b]) \subseteq DOMAIN block
  /\ \A i \in FLs : \A j \in SLs : (j \in sl_bitmap[i]) = (free_lists[<<i, j>>] # << >>)
  /\ \A i \in FLs : (i \in fl_bitmap) = (sl_bitmap[i] # {})
  /\ free_bytes = FoldSet(LAMBDA a, sum : sum + block[a].size, 0,
                          {a \in DOMAIN block : block[a].free})

\* tlsf.h: an allocation returns "a block of at least size bytes".
AllocationsFit == \A a \in DOMAIN live : live[a] <= block[a].size

\* The rounded-up search is a good fit: a request is refused only when no free
\* block is as large as the class it was rounded up to.
RefusedOnlyWhenShort ==
  [][\A request \in Requests :
       request <= MAX_BLOCK_SIZE /\ AllocFails(request) =>
         \A a \in DOMAIN block :
           block[a].free =>
             block[a].size < Rounded(request) + 2 ^ (log2_floor(Rounded(request)) - SLI_LOG2)]_vars
=============================================================================
