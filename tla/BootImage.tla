------------------------------- MODULE BootImage -------------------------------
(***************************************************************************)
(* What the bootloader leaves in memory, and how the kernel keeps it: the  *)
(* walk of the multiboot memory map, the two passes that populate the page *)
(* frame pool around the kernel image and the modules, and the later       *)
(* lookup of a module by name by the cartridge and the weights slot.       *)
(* Addresses are bytes of a small address space; a page is PageSize of     *)
(* them.  Between the passes and the lookups the pool hands out frames,    *)
(* which their new owners overwrite.                                       *)
(***************************************************************************)
EXTENDS Integers, Sequences, SequencesExt, FiniteSets

CONSTANTS
  PageSize,
  Word,              \* 2^32: addresses are below it
  LowLimit,          \* 1 MiB, where the kernel image starts
  KernelEnd,         \* physical end of the image
  BootLimit,         \* 64 MiB: what boot.S maps
  MaxPhys,           \* 1 GiB
  MemoryMaps,        \* memory maps a bootloader passes
  ModuleLists,       \* module lists it passes
  TableSize,         \* sizeof(Module_t)
  MinimumBytes       \* KERNEL_MODEL_SLOT_MINIMUM_BYTES

ImageAssumption ==
  /\ \A x \in {LowLimit, BootLimit, MaxPhys, Word} : x % PageSize = 0
  /\ LowLimit < KernelEnd /\ KernelEnd < BootLimit /\ BootLimit <= MaxPhys /\ MaxPhys <= Word

VARIABLES
  mmap,         \* sequence of [form, base, length, type]
  modules,      \* sequence of [start, end, string, name, magic]
  mods_addr,    \* physical address of their table, 0 when there is none
  phase,        \* "boot", "pass1", "pass2"
  pool,         \* pages in the frame pool
  mapped,       \* pages the direct map reaches
  written,      \* pages a new owner has overwritten
  slot          \* what the last lookup of the weights slot reported

ivars == <<mmap, modules, mods_addr, phase, pool, mapped, written, slot>>

Page(a) == a \div PageSize
PagesOf(start, end) == {Page(a) : a \in start .. (end - 1)}
AlignUp(a) == ((a + PageSize - 1) \div PageSize) * PageSize
Pages == 0 .. (Word \div PageSize - 1)

\* pmm_next_mmap_entry ends the walk at an entry that is too short or runs past the end.
Walk(entries) ==
  LET bad == {i \in DOMAIN entries : entries[i].form # "whole"}
  IN IF bad = {} THEN entries
     ELSE SubSeq(entries, 1, (CHOOSE i \in bad : \A j \in bad : i <= j) - 1)

\* pmm_compute_region_bounds: a base above 4 GiB is passed over, a longer length and a
\* sum that wraps are cut off at the last address.
RegionEnd(e) ==
  IF e.length >= Word \/ (e.base + e.length) >= Word THEN Word - 1 ELSE e.base + e.length
\* The end is rounded up.
RegionPagesUp(e) ==
  IF e.base >= Word THEN {}
  ELSE {p \in Pages : AlignUp(e.base) <= p * PageSize /\ p * PageSize < RegionEnd(e)}

RegionPages(e) ==
  IF e.base >= Word THEN {}
  ELSE {p \in Pages : AlignUp(e.base) <= p * PageSize
                      /\ (p + 1) * PageSize <= (RegionEnd(e) \div PageSize) * PageSize}

Available == UNION {RegionPages(Walk(mmap)[i]) :
                      i \in {j \in DOMAIN Walk(mmap) : Walk(mmap)[j].type = 1}}

pmm_is_kernel_page(p) == p * PageSize >= LowLimit /\ p * PageSize < KernelEnd

TableEnd == mods_addr + Len(modules) * TableSize
Overlaps(p, start, end) == p * PageSize + PageSize > start /\ p * PageSize < end

\* Containment of the page instead of overlap.
ContainedPagesOnly(p) ==
  /\ modules # <<>> /\ mods_addr # 0
  /\ \/ Overlaps(p, mods_addr, TableEnd)
     \/ \E i \in DOMAIN modules : /\ p * PageSize >= modules[i].start
                                  /\ p * PageSize + PageSize <= modules[i].end

\* The table is left out.
ModulesWithoutTable(p) ==
  \E i \in DOMAIN modules : /\ modules[i].end > modules[i].start
                            /\ Overlaps(p, modules[i].start, modules[i].end)

pmm_is_boot_module_page(p) ==
  /\ modules # <<>> /\ mods_addr # 0
  /\ \/ Overlaps(p, mods_addr, TableEnd)
     \/ \E i \in DOMAIN modules : /\ modules[i].end > modules[i].start
                                  /\ Overlaps(p, modules[i].start, modules[i].end)

NoSlot == [state |-> "unprobed", found |-> 0, bytes |-> FALSE]

Init ==
  /\ mmap \in MemoryMaps
  /\ \E m \in ModuleLists : modules = m.list /\ mods_addr = m.at
  /\ phase = "boot"
  /\ pool = {}
  /\ mapped = {p \in Pages : p * PageSize < BootLimit}
  /\ written = {}
  /\ slot = NoSlot
-----------------------------------------------------------------------------
\* physical_memory_manager_initialize: frames the boot mapping reaches
Populate ==
  /\ phase = "boot"
  /\ pool' = {p \in Available : /\ p * PageSize >= LowLimit
                                /\ ~pmm_is_kernel_page(p)
                                /\ ~pmm_is_boot_module_page(p)
                                /\ p * PageSize < BootLimit
                                /\ p * PageSize < MaxPhys}
  /\ phase' = "pass1"
  /\ UNCHANGED <<mmap, modules, mods_addr, mapped, written, slot>>

\* physical_memory_manager_extend_mapping: the rest, each frame mapped before it is freed
\* (paging_map_page succeeds here; the mapping that fails is in module BuddyPmm).
ExtendMapping ==
  /\ phase = "pass1"
  /\ LET fresh == {p \in Available : /\ p * PageSize >= BootLimit
                                     /\ p * PageSize < MaxPhys
                                     /\ ~pmm_is_boot_module_page(p)}
     IN mapped' = mapped \cup fresh /\ pool' = pool \cup fresh
  /\ phase' = "pass2"
  /\ UNCHANGED <<mmap, modules, mods_addr, written, slot>>

\* Some part of the kernel takes a frame and uses it.
TakeFrame(p) ==
  /\ p \in pool
  /\ pool' = pool \ {p}
  /\ written' = written \cup {p}
  /\ UNCHANGED <<mmap, modules, mods_addr, phase, mapped, slot>>

boot_module_count == IF mods_addr = 0 THEN 0 ELSE Len(modules)

\* The modules boot_module_find may answer with, in order: not empty, and named with the
\* suffix, or unnamed and the only one.
Matches(suffix) ==
  {i \in 1 .. boot_module_count :
     /\ modules[i].end > modules[i].start
     /\ IF modules[i].string # 0 THEN modules[i].name = suffix ELSE boot_module_count = 1}
\* An unnamed module is taken whatever else was passed.
FindUnnamed(suffix) ==
  LET any == {i \in 1 .. boot_module_count :
                modules[i].end > modules[i].start
                /\ (modules[i].string = 0 \/ modules[i].name = suffix)}
  IN IF any = {} THEN 0 ELSE CHOOSE i \in any : \A j \in any : i <= j

boot_module_find(suffix) ==
  IF Matches(suffix) = {} THEN 0 ELSE CHOOSE i \in Matches(suffix) : \A j \in Matches(suffix) : i <= j

\* kernel_model_slot_probe
ProbeSlot ==
  /\ phase = "pass2"
  /\ LET i == boot_module_find("mind")
         m == modules[i]
     IN slot' =
          IF i = 0 THEN [state |-> "empty", found |-> 0, bytes |-> FALSE]
          ELSE [state |-> IF m.end - m.start < MinimumBytes \/ ~m.magic THEN "malformed"
                          ELSE "loaded",
                found |-> i, bytes |-> TRUE]
  /\ UNCHANGED <<mmap, modules, mods_addr, phase, pool, mapped, written>>

Next == Populate \/ ExtendMapping \/ (\E p \in Pages : TakeFrame(p)) \/ ProbeSlot

Spec == Init /\ [][Next]_ivars
-----------------------------------------------------------------------------
\* The variables have their types.
TypeOK ==
  /\ phase \in {"boot", "pass1", "pass2"}
  /\ pool \subseteq Pages /\ mapped \subseteq Pages /\ written \subseteq Pages
  /\ slot.found \in 0 .. Len(modules)

\* No frame the pool ever hands out holds a byte of the kernel image, of the module table
\* or of a module, although the memory map reports that memory as available and none of
\* them need start or end on a page (pmm.c:577-630, 839-852, 894-907); every frame in the
\* pool is whole available RAM between 1 MiB and 1 GiB, and mapped.
LoadedImageKept ==
  /\ \A p \in pool \cup written :
       /\ p \in mapped /\ ~Overlaps(p, 0, KernelEnd) /\ p * PageSize < MaxPhys
       /\ \E i \in DOMAIN mmap : /\ mmap[i].type = 1 /\ mmap[i].base <= p * PageSize
                                 /\ (p + 1) * PageSize <= mmap[i].base + mmap[i].length
  /\ mods_addr # 0 =>
       /\ written \cap PagesOf(mods_addr, TableEnd) = {}
       /\ \A i \in DOMAIN modules : written \cap PagesOf(modules[i].start, modules[i].end) = {}

\* The weights slot reports a module as loaded only when it is a named weights image of at
\* least a header, or the only module there is; a module of another name never stands in
\* for it; and it reports the slot empty only when no such module was passed
\* (boot_module.c:59-101, model_slot.c:17-55).
SlotHonest ==
  /\ slot.state = "loaded" =>
       LET m == modules[slot.found]
       IN /\ m.end - m.start >= MinimumBytes /\ m.magic
          /\ IF m.string # 0 THEN m.name = "mind" ELSE Len(modules) = 1
  /\ slot.state = "empty" =>
       \A i \in DOMAIN modules :
         modules[i].string # 0 /\ modules[i].name = "mind" /\ mods_addr # 0 =>
           modules[i].end <= modules[i].start

\* boot_module.h:32: a lookup "Receives a kernel-virtual pointer to the module contents":
\* every page of a module the slot reports is mapped.
ModuleReadable ==
  slot.found # 0 => PagesOf(modules[slot.found].start, modules[slot.found].end) \subseteq mapped
=============================================================================
