---------------------------- MODULE VirtualMemory ----------------------------
(***************************************************************************)
(* The kernel's virtual ranges: the page reservation bitmap of             *)
(* kernel/memory/vmm.c, the page directory and tables of                   *)
(* arch/i386/cpu/paging.c, the pinned allocator of                         *)
(* kernel/memory/pinned_memory.c and the device and framebuffer mappings   *)
(* made through them, over the page frame pool.                            *)
(*                                                                         *)
(* Pages are the pages of the VMM's dynamic range, Frames the RAM the      *)
(* frame pool manages.  The pool hands out its lowest frame: frames are    *)
(* interchangeable here.                                                   *)
(***************************************************************************)
EXTENDS Integers, FiniteSets

CONSTANTS PageCount,       \* VMM_PAGE_COUNT
          TableSpan,       \* pages one page table maps (1024)
          FrameCount,
          DeviceFrames,    \* physical pages of a device BAR, in order
          FramebufferDir,  \* the directory entry map_framebuffer takes over
          FramebufferPages,
          DirectMap,       \* page -> frame: the part of the pool's direct map that
                           \* falls into the dynamic range (RAM above 256 MiB)
          Server,          \* whether this is the server profile
          Sizes,           \* page counts asked for
          MaxRegions       \* bound on the regions held at once

Pages == 0 .. (PageCount - 1)
Frames == 1 .. FrameCount
None == 0
DirOf(page) == page \div TableSpan
Dirs == {DirOf(p) : p \in Pages}
DeviceFrame(i) == DeviceFrames[i + 1]
StaticTable == -1           \* framebuffer_page_table, not from the pool

VirtualMemoryAssumption ==
  /\ PageCount \in Nat \ {0} /\ TableSpan \in Nat \ {0} /\ FrameCount \in Nat
  /\ \A i \in DOMAIN DeviceFrames : DeviceFrames[i] \in Nat \ (Frames \cup {None})
  /\ FramebufferDir \in Dirs /\ FramebufferPages \in 1 .. TableSpan
  /\ DOMAIN DirectMap \subseteq Pages
  /\ Server \in BOOLEAN /\ MaxRegions \in Nat /\ Sizes \subseteq Nat \ {0}

VARIABLES mm,        \* frames and tables: the fields pool, pte, pde, owned, cached
          reserved,  \* vmm_bitmap
          regions,   \* ranges callers hold: [kind, from, count]
          framebuffer,
          dropped    \* frames kernel_pinned_alloc let go of without freeing

vars == <<mm, reserved, regions, framebuffer, dropped>>

Lowest(S) == CHOOSE x \in S : \A y \in S : x <= y
Range(from, count) == from .. (from + count - 1)
-----------------------------------------------------------------------------
(* The frame pool, as its callers see it. *)

\* page_frame_free: the buddy allocator refuses what it does not manage, the
\* client's free list takes any address.
FreeFrame(m, frame) ==
  IF Server /\ frame \notin Frames THEN m
  ELSE [m EXCEPT !.pool = @ \cup {frame}]

TakeFrame(m) == [m EXCEPT !.pool = @ \ {Lowest(@)}]

\* Two adjacent frames, for page_frame_allocate_order(1).
Pairs(m) == {f \in m.pool : f % 2 = 0 /\ f + 1 \in m.pool}
-----------------------------------------------------------------------------
(* paging.c *)

\* paging_allocate_page_table_frame, into pde[d]; the server takes frames in
\* pairs and keeps the second one for the next table.
InstallTable(m, d) ==
  IF Server /\ m.cached # None
  THEN [m EXCEPT !.pde[d] = m.cached, !.cached = None, !.owned = @ \cup {d}]
  ELSE IF Server /\ Pairs(m) # {}
  THEN LET f == Lowest(Pairs(m)) IN
       [m EXCEPT !.pde[d] = f, !.cached = f + 1, !.pool = @ \ {f, f + 1},
                 !.owned = @ \cup {d}]
  ELSE [TakeFrame(m) EXCEPT !.pde[d] = Lowest(m.pool), !.owned = @ \cup {d}]

CanMap(m, page) ==
  m.pde[DirOf(page)] # None \/ m.pool # {} \/ (Server /\ m.cached # None)

\* paging_map_page when CanMap; it fails and changes nothing otherwise.
paging_map_page(m, page, frame) ==
  LET d == DirOf(page)
      t == IF m.pde[d] = None THEN InstallTable(m, d) ELSE m
  IN [t EXCEPT !.pte[page] = frame]

TableIsEmpty(pte, d) == \A p \in Pages : DirOf(p) = d => pte[p] = None

\* Mutant: an empty table stays in the directory.
UnmapKeepingTable(m, page) == [m EXCEPT !.pte[page] = None]

\* paging_unmap_page: a table the runtime created goes when its last entry does.
paging_unmap_page(m, page) ==
  LET d == DirOf(page)
      c == [m EXCEPT !.pte[page] = None]
  IN IF m.pde[d] = None \/ m.pte[page] = None THEN m
     ELSE IF d \in m.owned /\ TableIsEmpty(c.pte, d)
     THEN FreeFrame([c EXCEPT !.pde[d] = None, !.owned = @ \ {d}], m.pde[d])
     ELSE c
-----------------------------------------------------------------------------
(* vmm.c *)

\* Mutant: the loop forgets to give the frame back.
UnmapOnly(m, page) == paging_unmap_page(m, page)

\* The body of kernel_vmm_free_pages' loop.
ReleasePage(m, page) ==
  paging_unmap_page(IF m.pte[page] # None THEN FreeFrame(m, m.pte[page]) ELSE m, page)

\* The frames and tables after the loop over count pages.
ReleaseRange(m, from, count) ==
  LET after[n \in 0 .. count] ==
        IF n = 0 THEN m ELSE ReleasePage(after[n - 1], from + n - 1)
  IN after[count]

\* kernel_vmm_reserve_pages: the first run of count clear bits.
Fits(count) == {i \in Pages : Range(i, count) \subseteq Pages \ reserved}

\* Mutant: only the first bit of the run is looked at.
FirstBitClear(count) == {i \in Pages : i \notin reserved /\ i + count <= PageCount}
Candidates(count) == Fits(count)

\* The loop of kernel_vmm_alloc_pages and kernel_pinned_alloc: a frame and a
\* mapping per page, up to the first failure ("frame": none left; "map": no
\* frame for a page table).
BackRange(from, count) ==
  LET after[n \in 0 .. count] ==
        IF n = 0 THEN [m |-> mm, done |-> 0, failed |-> "no"]
        ELSE LET s == after[n - 1]
                 page == from + n - 1
             IN IF s.failed # "no" THEN s
                ELSE IF s.m.pool = {} THEN [s EXCEPT !.failed = "frame"]
                ELSE IF ~CanMap(TakeFrame(s.m), page)
                THEN [s EXCEPT !.failed = "map"]
                ELSE [m |-> paging_map_page(TakeFrame(s.m), page, Lowest(s.m.pool)),
                      done |-> s.done + 1, failed |-> "no"]
  IN after[count]

Hold(kind, from, count) == [kind |-> kind, from |-> from, count |-> count]

\* kernel_vmm_free_pages(virt_base, i): only the i pages done are cleared.
BitsAfterFailure(from, count, done) ==
  (reserved \cup Range(from, count)) \ Range(from, done)

\* kernel_vmm_alloc_pages and, for kind "pinned", kernel_pinned_alloc.  On a
\* mapping failure the first frees the frame in hand and the second does not.
Alloc(kind, count) ==
  /\ Cardinality(regions) < MaxRegions
  /\ Candidates(count) # {}
  /\ LET from == Lowest(Candidates(count))
         b == BackRange(from, count)
         lost == IF kind = "pinned" /\ b.failed = "map" THEN {Lowest(b.m.pool)} ELSE {}
         kept == IF lost = {} THEN b.m ELSE TakeFrame(b.m)
     IN IF b.failed = "no"
        THEN /\ mm' = b.m
             /\ reserved' = reserved \cup Range(from, count)
             /\ regions' = regions \cup {Hold(kind, from, count)}
             /\ UNCHANGED dropped
        ELSE /\ mm' = ReleaseRange(kept, from, b.done)
             /\ reserved' = BitsAfterFailure(from, count, b.done)
             /\ dropped' = dropped \cup lost
             /\ UNCHANGED regions
  /\ UNCHANGED framebuffer

\* kernel_vmm_free_pages and kernel_pinned_free.  The second unmaps the pages
\* itself, then lets the first clear the bits of pages it finds unmapped.
Free(r) ==
  /\ r.kind \in {"vmm", "pinned"}
  /\ mm' = ReleaseRange(mm, r.from, r.count)
  /\ reserved' = reserved \ Range(r.from, r.count)
  /\ regions' = regions \ {r}
  /\ UNCHANGED <<framebuffer, dropped>>
-----------------------------------------------------------------------------
(* Device ranges: hda_map_window and the virtio GPU's BAR mapping. *)

MapDevice ==
  LET count == Cardinality(DOMAIN DeviceFrames)
      from == Lowest(Candidates(count))
      after[n \in 0 .. count] ==
        IF n = 0 THEN [m |-> mm, ok |-> TRUE]
        ELSE LET s == after[n - 1] IN
             IF s.ok /\ CanMap(s.m, from + n - 1)
             THEN [m |-> paging_map_page(s.m, from + n - 1, DeviceFrame(n - 1)), ok |-> TRUE]
             ELSE [s EXCEPT !.ok = FALSE]
  IN /\ count # 0 /\ \A r \in regions : r.kind # "device"
     /\ Cardinality(regions) < MaxRegions
     /\ Candidates(count) # {}
     /\ IF after[count].ok
        THEN /\ mm' = after[count].m
             /\ reserved' = reserved \cup Range(from, count)
             /\ regions' = regions \cup {Hold("device", from, count)}
        ELSE /\ mm' = ReleaseRange(after[count].m, from, count)
             /\ reserved' = reserved \ Range(from, count)
             /\ UNCHANGED regions
     /\ UNCHANGED <<framebuffer, dropped>>

\* map_framebuffer points one directory entry at its static table and marks the
\* range reserved.  Boot reaches it with no range handed out that high.
MapFramebuffer ==
  LET first == FramebufferDir * TableSpan IN
  /\ ~framebuffer
  /\ \A p \in reserved : DirOf(p) # FramebufferDir
  /\ mm' = [mm EXCEPT !.pde[FramebufferDir] = StaticTable,
                      !.pte = [p \in Pages |->
                         IF DirOf(p) # FramebufferDir THEN @[p]
                         ELSE IF p < first + FramebufferPages THEN StaticTable ELSE None]]
  /\ reserved' = reserved \cup Range(first, FramebufferPages)
  /\ regions' = regions \cup {Hold("framebuffer", first, FramebufferPages)}
  /\ framebuffer' = TRUE
  /\ UNCHANGED dropped
-----------------------------------------------------------------------------
\* Boot: the bitmap is clear; the tables hold the direct map only.
DirectTables == {DirOf(p) : p \in DOMAIN DirectMap}
Init ==
  /\ mm = [pool |-> Frames \ Range(1, Cardinality(DirectTables)),
           pte |-> [p \in Pages |-> IF p \in DOMAIN DirectMap THEN DirectMap[p] ELSE None],
           pde |-> [d \in Dirs |-> IF d \in DirectTables THEN d + 1 ELSE None],
           owned |-> DirectTables, cached |-> None]
  /\ reserved = {} /\ regions = {} /\ framebuffer = FALSE /\ dropped = {}

Next ==
  \/ \E count \in Sizes : Alloc("vmm", count) \/ Alloc("pinned", count)
  \/ \E r \in regions : Free(r)
  \/ MapDevice
  \/ MapFramebuffer

Spec == Init /\ [][Next]_vars
-----------------------------------------------------------------------------
(* Properties *)

\* Every variable keeps its type; the pool holds only frames of RAM.
TypeOK ==
  /\ mm.pool \subseteq Frames
  /\ mm.pte \in [Pages -> {None, StaticTable} \cup Frames \cup {DeviceFrames[i] : i \in DOMAIN DeviceFrames}]
  /\ mm.pde \in [Dirs -> {None, StaticTable} \cup Frames]
  /\ mm.owned \subseteq Dirs /\ mm.cached \in Frames \cup {None}
  /\ reserved \subseteq Pages
  /\ \A r \in regions : Range(r.from, r.count) \subseteq Pages
  /\ framebuffer \in BOOLEAN /\ dropped \subseteq Frames

MappedFrames == {mm.pte[p] : p \in Pages} \cap Frames
TableFrames == {mm.pde[d] : d \in Dirs} \cap Frames
CachedFrame == {mm.cached} \cap Frames

\* Each frame is in exactly one place: free, mapped at one page, a page table,
\* kept back for the next table, or lost by a failed pinned allocation; so no
\* frame is freed while a page still reaches it, on the rollback paths either.
FramesAccounted ==
  /\ mm.pool \cup MappedFrames \cup TableFrames \cup CachedFrame \cup dropped = Frames
  /\ Cardinality(mm.pool) + Cardinality(MappedFrames) + Cardinality(TableFrames)
       + Cardinality(CachedFrame) + Cardinality(dropped) = FrameCount
  /\ \A p, q \in Pages : p # q /\ mm.pte[p] \in Frames => mm.pte[p] # mm.pte[q]
  /\ \A d, e \in Dirs : d # e /\ mm.pde[d] # None => mm.pde[d] # mm.pde[e]

\* What a caller holds is reserved and fully mapped, and nobody else's.
RegionsBacked ==
  /\ \A r \in regions : \A p \in Range(r.from, r.count) : p \in reserved /\ mm.pte[p] # None
  /\ \A r, s \in regions : r # s => Range(r.from, r.count) \cap Range(s.from, s.count) = {}

\* A table is present exactly while it maps something, and only tables taken
\* from the pool are marked for returning to it.
TablesExact ==
  /\ \A p \in Pages : mm.pte[p] # None => mm.pde[DirOf(p)] # None
  /\ \A d \in mm.owned : mm.pde[d] \in Frames /\ ~TableIsEmpty(mm.pte, d)
  /\ \A d \in Dirs : mm.pde[d] \in Frames => d \in mm.owned

\* vmm.h: a reservation fails when the range is "already in use"; every set bit
\* stands for a page somebody holds.
ReservedMeansInUse == reserved \subseteq UNION {Range(r.from, r.count) : r \in regions}

\* pinned_memory.c: an allocation is "never handed a range already claimed": its
\* pages were not mapped before.
HandedOutUnmapped ==
  [][\A r \in regions' \ regions : \A p \in Range(r.from, r.count) : mm.pte[p] = None]_vars

\* pmm.h: page_frame_free "returns" a page to the pool; nothing enters the pool
\* that is not RAM the pool manages.
PoolIsRam == mm.pool \subseteq Frames
=============================================================================
