---------------------------- MODULE BumpAllocators ----------------------------
(***************************************************************************)
(* The allocators that place a request by rounding an address up:          *)
(*   - the frame arena (kernel/memory/frame_arena.c), emptied as a whole   *)
(*     once a frame, with a budget that caps what a frame may use;         *)
(*   - the stack allocator (kernel/memory/stack_allocator.c), taken back   *)
(*     to a marker read earlier;                                           *)
(*   - the over-aligned blocks of the C++ runtime's operator new and of    *)
(*     the HAL's memory_reserve, carved out of larger ones of kmalloc.     *)
(* The three share no state: each has its variables and its specification. *)
(***************************************************************************)
EXTENDS Integers, FiniteSets

CONSTANTS Word,                          \* 2^32 in the code
          ArenaCapacity, StackCapacity,  \* bytes behind the allocators
          DefaultAlign,                  \* used for an align argument of 0
          Sizes, Aligns,                 \* arguments
          Budgets,
          MaxRegions,                    \* bound on the regions live at once
          MaxMarkers,                    \* bound on the markers callers remember
          Pointer,                       \* sizeof(void *)
          KmallocAlign,                  \* kmalloc's alignment, a multiple of Pointer
          BlockSizes, Alignments,        \* arguments for blocks
          Space,                         \* bytes of address space of kmalloc
          MaxHeld                        \* bound on the blocks held at once

\* Alignments are powers of two, so that align_up's mask rounds down; the sums for blocks
\* stay within size_t.
BumpAssumption ==
  /\ {Word, ArenaCapacity, StackCapacity, DefaultAlign, Pointer} \subseteq Nat \ {0}
  /\ Sizes \subseteq Nat /\ Aligns \subseteq Nat
  /\ \A a \in (Aligns \cup {DefaultAlign}) \ {0} :
       Word % a = 0 /\ ArenaCapacity + a <= Word /\ StackCapacity + a <= Word
  /\ Budgets \subseteq Nat /\ 0 \in Budgets /\ MaxRegions \in Nat /\ MaxMarkers \in Nat
  /\ KmallocAlign % Pointer = 0 /\ BlockSizes \subseteq Nat /\ Alignments \subseteq Nat \ {0}
  /\ Space \in Nat /\ MaxHeld \in Nat

VARIABLES arena_offset, arena_peak, arena_budget,
          arena_live,     \* regions handed out this frame
          stack_offset, stack_peak,
          stack_live,     \* regions pushed and not rolled back
          markers,        \* markers callers took and may roll back to
          chunks,         \* what kmalloc has handed out: set of [base, length]
          word,           \* address -> the pointer stored there, for the words below live blocks
          held,           \* set of [by, block, size, align] the callers hold
          released        \* base addresses handed to kfree that kmalloc did not hand out

Larger(a, b) == IF a > b THEN a ELSE b

\* (value + (align - 1)) & ~(align - 1) on uint32_t
AlignUp(value, align) ==
  LET sum == (value + align - 1) % Word IN sum - (sum % align)

EffectiveAlign(align) == IF align = 0 THEN DefaultAlign ELSE align

Fits(offset, size, capacity) == offset <= capacity /\ size <= capacity - offset

Region(at, size) == [from |-> at, to |-> at + size - 1]
Disjoint(regions) == \A r, s \in regions : r # s => r.to < s.from \/ s.to < r.from
Below(regions, offset) == \A r \in regions : r.from <= r.to /\ r.to < offset
-----------------------------------------------------------------------------
(* The frame arena *)

arena_vars == <<arena_offset, arena_peak, arena_budget, arena_live>>

\* kernel_frame_arena_initialize
ArenaInit == arena_offset = 0 /\ arena_peak = 0 /\ arena_budget = 0 /\ arena_live = {}

WithinBudget(offset, size) == arena_budget = 0 \/ (offset + size) % Word <= arena_budget

\* kernel_frame_arena_alloc
ArenaAlloc(size, align) ==
  LET at == AlignUp(arena_offset, EffectiveAlign(align)) IN
  /\ size # 0
  /\ Cardinality(arena_live) < MaxRegions
  /\ Fits(at, size, ArenaCapacity)
  /\ WithinBudget(at, size)
  /\ arena_offset' = at + size
  /\ arena_peak' = Larger(arena_peak, at + size)
  /\ arena_live' = arena_live \cup {Region(at, size)}
  /\ UNCHANGED <<arena_budget>>

\* kernel_frame_arena_reset: what was handed out is gone with the frame.
ArenaReset ==
  /\ arena_offset' = 0 /\ arena_live' = {}
  /\ UNCHANGED <<arena_peak, arena_budget>>

\* kernel_frame_arena_set_frame_budget, also in the middle of a frame.
SetFrameBudget(budget) ==
  /\ arena_budget' = budget
  /\ UNCHANGED <<arena_offset, arena_peak, arena_live>>

ArenaNext ==
  \/ \E size \in Sizes, align \in Aligns : ArenaAlloc(size, align)
  \/ ArenaReset
  \/ \E budget \in Budgets : SetFrameBudget(budget)

ArenaSpec == ArenaInit /\ [][ArenaNext]_arena_vars
-----------------------------------------------------------------------------
(* The stack allocator *)

stack_vars == <<stack_offset, stack_peak, stack_live, markers>>

\* kernel_stack_allocator_initialize
StackInit == stack_offset = 0 /\ stack_peak = 0 /\ stack_live = {} /\ markers = {}

\* kernel_stack_alloc_push
StackPush(size, align) ==
  LET at == AlignUp(stack_offset, EffectiveAlign(align)) IN
  /\ size # 0
  /\ Cardinality(stack_live) < MaxRegions
  /\ Fits(at, size, StackCapacity)
  /\ stack_offset' = at + size
  /\ stack_peak' = Larger(stack_peak, at + size)
  /\ stack_live' = stack_live \cup {Region(at, size)}
  /\ UNCHANGED markers

\* kernel_stack_alloc_get_marker
StackMarker ==
  /\ Cardinality(markers) < MaxMarkers
  /\ markers' = markers \cup {stack_offset}
  /\ UNCHANGED <<stack_offset, stack_peak, stack_live>>

\* kernel_stack_alloc_rollback, with any marker taken since boot, however stale.
\* The regions that end at or below it survive.
StackRollback(marker) ==
  /\ marker <= stack_offset
  /\ stack_offset' = marker
  /\ stack_live' = {r \in stack_live : r.to < marker}
  /\ UNCHANGED <<stack_peak, markers>>

StackNext ==
  \/ \E size \in Sizes, align \in Aligns : StackPush(size, align)
  \/ StackMarker
  \/ \E marker \in markers : StackRollback(marker)

StackSpec == StackInit /\ [][StackNext]_stack_vars
-----------------------------------------------------------------------------
(* Over-aligned blocks.  The pointer is aligned up within a larger allocation and      *)
(* kmalloc's own pointer kept in the word below it, where the release finds it.        *)
(* Addresses are bytes of a small address space; kmalloc and kfree are external.       *)

block_vars == <<chunks, word, held, released>>

Bytes(from, length) == from .. (from + length - 1)
Taken == UNION {Bytes(c.base, c.length) : c \in chunks}
AlignedFrom(x, a) == ((x + a - 1) \div a) * a
AtLeast(x, y) == IF x < y THEN y ELSE x

BlocksInit == chunks = {} /\ word = <<>> /\ held = {} /\ released = {}

\* kmalloc returns any aligned run of bytes that is free.
kmalloc(length, base) ==
  /\ base % KmallocAlign = 0 /\ base + length <= Space
  /\ Bytes(base, length) \cap Taken = {}

Hold(by, base, length, block, size, align) ==
  /\ Cardinality(held) < MaxHeld
  /\ kmalloc(length, base)
  /\ chunks' = chunks \cup {[base |-> base, length |-> length]}
  /\ word' = [a \in DOMAIN word \cup {block - Pointer} |->
                IF a = block - Pointer THEN base ELSE word[a]]
  /\ held' = held \cup {[by |-> by, block |-> block, size |-> size, align |-> align]}
  /\ UNCHANGED released

\* operator new with an alignment (a size of 0 is 1); on failure it never returns
allocate_aligned(size, alignment, base) ==
  LET align == AtLeast(alignment, Pointer)
      bytes == AtLeast(size, 1)
  IN Hold("runtime", base, bytes + Pointer + align - 1, AlignedFrom(base + Pointer, align), bytes,
          align)

\* A request of 0 bytes is refused.
hal_memory_reserve(size, alignment, base) ==
  LET align == AtLeast(alignment, Pointer)
  IN /\ size # 0
     /\ Hold("hal", base, size + align + Pointer, AlignedFrom(base + Pointer, align), size, align)

\* The holder fills its block, which destroys any stored word it overlaps.
Fill(b) ==
  /\ word' = [a \in {x \in DOMAIN word :
                       Bytes(x, Pointer) \cap Bytes(b.block, b.size) = {}} |-> word[a]]
  /\ UNCHANGED <<chunks, held, released>>

\* free_aligned and memory_release: kfree(((void **) block)[-1])
free_aligned(b) ==
  LET at == b.block - Pointer
      base == IF at \in DOMAIN word THEN word[at] ELSE -1
  IN /\ chunks' = {c \in chunks : c.base # base}
     /\ released' = IF \E c \in chunks : c.base = base THEN released ELSE released \cup {base}
     /\ held' = held \ {b}
     /\ word' = [a \in DOMAIN word \ {at} |-> word[a]]

BlocksNext ==
  \/ \E size \in BlockSizes, align \in Alignments, base \in 0 .. (Space - 1) :
       allocate_aligned(size, align, base) \/ hal_memory_reserve(size, align, base)
  \/ \E b \in held : Fill(b) \/ free_aligned(b)

BlocksSpec == BlocksInit /\ [][BlocksNext]_block_vars
-----------------------------------------------------------------------------
(* Properties *)

Regions(capacity) == [from : 0 .. (capacity - 1), to : 0 .. (capacity - 1)]

\* The offsets stay within the backing stores and no region leaves them.
BumpTypeOK ==
  /\ arena_offset \in 0 .. ArenaCapacity /\ arena_peak \in 0 .. ArenaCapacity
  /\ arena_budget \in Budgets /\ arena_live \subseteq Regions(ArenaCapacity)
  /\ stack_offset \in 0 .. StackCapacity /\ stack_peak \in 0 .. StackCapacity
  /\ stack_live \subseteq Regions(StackCapacity) /\ markers \subseteq 0 .. StackCapacity
  /\ \A c \in chunks : c.base \in 0 .. Space /\ c.length \in Nat
  /\ \A b \in held : b.block \in 0 .. Space /\ b.size \in Nat

\* No two live regions of the arena share a byte, and all lie below the offset.
ArenaRegionsDisjoint == Disjoint(arena_live) /\ Below(arena_live, arena_offset)

\* An allocation never takes the arena past the budget then in force; only a
\* budget lowered in mid-frame can be below what is already used.
BudgetCapsGrowth ==
  [][arena_offset' > arena_offset /\ arena_budget # 0 => arena_offset' <= arena_budget]_arena_vars

\* No two live regions of the stack share a byte and all lie below the offset, through
\* rollbacks to stale markers in any order.
StackRegionsDisjoint == Disjoint(stack_live) /\ Below(stack_live, stack_offset)

\* Wherever kmalloc's pointer falls, the block handed out is aligned as asked, and it and
\* the word below it lie inside what kmalloc gave; the holder's writes never reach that
\* word, so every release hands kfree the pointer it came from and nothing that kmalloc gave
\* is left without a block that names it (cxx_runtime.cpp:53-77, hal_memory.c:21-47).
AlignedBlocksExact ==
  /\ released = {}
  /\ \A b \in held :
       /\ b.block % b.align = 0
       /\ b.block - Pointer \in DOMAIN word
       /\ \E c \in chunks :
            /\ c.base = word[b.block - Pointer]
            /\ Bytes(b.block - Pointer, b.size + Pointer) \subseteq Bytes(c.base, c.length)
  /\ \A c \in chunks : \E b \in held : word[b.block - Pointer] = c.base
  /\ \A b, e \in held : b # e => word[b.block - Pointer] # word[e.block - Pointer]
=============================================================================
