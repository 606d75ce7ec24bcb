------------------------------ MODULE MCMemory ------------------------------
(* The virtual address space with its page tables, under both profiles, the heap *)
(* of each profile, and what the bootloader left in memory.  A behaviour runs    *)
(* one of them, its subject, and leaves the others where they start.             *)
EXTENDS Integers, Sequences

VARIABLES
  subject,            \* the component this behaviour is about
  \* VirtualMemory
  mm, reserved, regions, framebuffer, dropped,
  \* ServerHeap
  page_frames, free_list, small_free_blocks, small_free_bytes, class_list, free_count,
  server_live, server_lost, server_large_count, rejected_free_count,
  \* ClientHeap
  free, client_live, client_lost, depth, violations, bounded, rejected, client_large_count,
  escapes,
  \* BootImage
  mmap, modules, mods_addr, image_phase, pool, mapped, written, slot

vm_vars == <<mm, reserved, regions, framebuffer, dropped>>
server_vars == <<page_frames, free_list, small_free_blocks, small_free_bytes, class_list,
                 free_count, server_live, server_lost, server_large_count, rejected_free_count>>
client_vars == <<free, client_live, client_lost, depth, violations, bounded, rejected,
                 client_large_count, escapes>>
image_vars == <<mmap, modules, mods_addr, image_phase, pool, mapped, written, slot>>

\* Frames are numbered from 1; the device's three pages lie above them.
Device == <<101, 102, 103>>
NoDevice == << >>
NoDirectMap == [p \in {} |-> 0]
\* One size class, and two domains on two nodes.
OneClass == <<3>>
DomainNode == [d \in {0, 1} |-> d]
\* RAM above 256 MiB: the direct map's alias of frame 7 is the first page.
Overlap == [p \in {0} |-> 7]

\* Memory maps with regions that start and end inside a page, lie beyond the last address
\* or wrap past it, and one whose walk ends at a short entry.
Region(at, length, type) == [form |-> "whole", base |-> at, length |-> length, type |-> type]
Maps == {<<Region(0, 64, 1)>>,
         <<Region(0, 1, 1), Region(3, 9, 1), Region(13, 19, 1)>>,
         <<Region(2, 5, 1), Region(7, 3, 2), Region(40, 8, 1), Region(10, 21, 1)>>,
         <<Region(0, 9, 1), [Region(9, 4, 1) EXCEPT !.form = "short"], Region(14, 2, 1)>>}
\* None, one or two modules, empty ones, unnamed ones and ones across a page boundary or
\* the end of the boot mapping included, with their table below 1 MiB or among them.
Module(start, length, string, name, magic) ==
  [start |-> start, end |-> start + length, string |-> string, name |-> name, magic |-> magic]
Single ==
  {Module(a, n, s, x, g) : a \in {6, 7, 9, 11, 13}, n \in {0, 1, 3}, s \in {0, 1},
                           x \in {"mind", "pak"}, g \in BOOLEAN}
Lists ==
  {[list |-> <<>>, at |-> 0]}
  \cup {[list |-> <<m>>, at |-> t] : m \in Single, t \in {0, 1}}
  \cup {[list |-> <<m>>, at |-> 8] : m \in {m \in Single : 8 \notin m.start .. (m.end - 1)}}
  \cup {[list |-> <<Module(6, 3, s, x, TRUE), Module(11, n, t, y, TRUE)>>, at |-> 1] :
          s \in {0, 1}, t \in {0, 1}, n \in {0, 2}, x \in {"mind", "pak"}, y \in {"mind", "pak"}}

-----------------------------------------------------------------------------
VmServer == INSTANCE VirtualMemory WITH
  PageCount <- 6, TableSpan <- 2, FrameCount <- 5, DeviceFrames <- Device, FramebufferDir <- 2,
  FramebufferPages <- 1, DirectMap <- NoDirectMap, Server <- TRUE, Sizes <- {1, 2, 3},
  MaxRegions <- 3
VmClient == INSTANCE VirtualMemory WITH
  PageCount <- 6, TableSpan <- 2, FrameCount <- 5, DeviceFrames <- NoDevice,
  FramebufferDir <- 2, FramebufferPages <- 1, DirectMap <- NoDirectMap, Server <- FALSE,
  Sizes <- {1, 2, 3}, MaxRegions <- 3
VmOverlap == INSTANCE VirtualMemory WITH
  PageCount <- 6, TableSpan <- 2, FrameCount <- 7, DeviceFrames <- NoDevice,
  FramebufferDir <- 2, FramebufferPages <- 1, DirectMap <- Overlap, Server <- TRUE,
  Sizes <- {1, 2, 3}, MaxRegions <- 3
\* A page is 16 units of 4 bytes here.
Server == INSTANCE ServerHeap WITH
  Pages <- {1, 2}, PageUnits <- 16, Header <- 2, ClassSize <- OneClass, Domains <- {0, 1},
  Node <- DomainNode, MinSplit <- 4, Batch <- 2, BigPayload <- 8, Payloads <- {2, 5, 15},
  MaxLarge <- 1, MaxRejected <- 1, live <- server_live, lost <- server_lost,
  large_count <- server_large_count
Client == INSTANCE ClientHeap WITH
  SlabSizes <- {16, 64, 256}, Sizes <- {24, 64, 256, 2048, 8192}, BigSize <- 1040,
  PageSize <- 4096, SlabCapacity <- 1, TlsfCapacity <- 1, VmmCapacity <- 2, ListCapacity <- 1,
  MaxDepth <- 2, MaxCount <- 3, live <- client_live, lost <- client_lost,
  large_count <- client_large_count
\* A page is 2 bytes here, and the address space 32.
Image == INSTANCE BootImage WITH
  PageSize <- 2, Word <- 32, LowLimit <- 2, KernelEnd <- 5, BootLimit <- 10, MaxPhys <- 16,
  MemoryMaps <- Maps, ModuleLists <- Lists, TableSize <- 1, MinimumBytes <- 2,
  phase <- image_phase

ASSUME ConstantsAssumption ==
  /\ VmServer!VirtualMemoryAssumption
  /\ VmClient!VirtualMemoryAssumption
  /\ VmOverlap!VirtualMemoryAssumption
  /\ Server!HeapAssumption
  /\ Client!ClientHeapAssumption
  /\ Image!ImageAssumption

Subjects == {"vm_server", "vm_client", "server_heap", "client_heap", "image"}

vars == <<subject, vm_vars, server_vars, client_vars, image_vars>>

\* A component that is not the subject is in one of its initial states.
Init ==
  /\ subject \in Subjects
  /\ VmServer!Init
  /\ Server!Init
  /\ Client!Init
  /\ Image!Init
  /\ subject # "image" => Len(mmap) = 1 /\ modules = <<>>

Others(x) ==
  /\ UNCHANGED subject
  /\ IF x \in {"vm_server", "vm_client"} THEN TRUE ELSE UNCHANGED vm_vars
  /\ IF x = "server_heap" THEN TRUE ELSE UNCHANGED server_vars
  /\ IF x = "client_heap" THEN TRUE ELSE UNCHANGED client_vars
  /\ IF x = "image" THEN TRUE ELSE UNCHANGED image_vars

Next ==
  \/ subject = "vm_server" /\ VmServer!Next /\ Others("vm_server")
  \/ subject = "vm_client" /\ VmClient!Next /\ Others("vm_client")
  \/ subject = "server_heap" /\ Server!Next /\ Others("server_heap")
  \/ subject = "client_heap" /\ Client!Next /\ Others("client_heap")
  \/ subject = "image" /\ Image!Next /\ Others("image")

Spec == Init /\ [][Next]_vars

\* The address space of a server whose RAM reaches past 256 MiB
OverlapSpec ==
  /\ subject = "vm_server" /\ VmOverlap!Init /\ Server!Init /\ Client!Init
  /\ Image!Init /\ Len(mmap) = 1 /\ modules = <<>>
  /\ [][VmOverlap!Next /\ Others("vm_server")]_vars
-----------------------------------------------------------------------------
\* Bitmap, page tables, frame pool and callers agree, on the rollback paths too: each
\* frame is in exactly one place (free, mapped at one page, a page table, kept back for
\* the next table, or lost by a failed pinned allocation), so that none is freed while a
\* page still reaches it; what a caller holds is reserved, fully mapped and nobody
\* else's; a table is present exactly while it maps something, and only tables taken
\* from the pool are marked for returning to it.
MappingsExact ==
  /\ subject = "vm_server" =>
       /\ VmServer!TypeOK
       /\ VmServer!FramesAccounted
       /\ VmServer!RegionsBacked
       /\ VmServer!TablesExact
  /\ subject = "vm_client" =>
       /\ VmClient!TypeOK
       /\ VmClient!FramesAccounted
       /\ VmClient!RegionsBacked
       /\ VmClient!TablesExact

\* Every unit of every page the server's heap took is in exactly one place (a first-fit
\* block, a block of a size class list, a block in use, or lost), whatever was split,
\* carved in batches, popped from another domain and merged back; a block holds what
\* was asked for, and the counters the telemetry reads describe the lists exactly, as
\* the client's counter does its large blocks.  The client's kernel_slab_free never files
\* an object under a cache of larger objects, whose next owner would write past its end:
\* the caches of size s and above never hold more objects between them than were carved
\* at that size or above.
HeapExact ==
  /\ subject = "server_heap" =>
       /\ Server!TypeOK
       /\ Server!EveryUnitInOnePlace
       /\ Server!RequestsFit
       /\ Server!CountersExact
  /\ subject = "client_heap" =>
       /\ Client!TypeOK
       /\ Client!LargeCountExact
       /\ Client!NoUndersizedObject

\* pinned_memory.c: an allocation is "never handed a range already claimed": its pages
\* were not mapped before.
HandedOutUnmapped == VmServer!HandedOutUnmapped
\* The same of OverlapSpec.
PinnedRangeUnclaimed == VmOverlap!HandedOutUnmapped

\* Inside a hot loop, however deep, kmalloc never returns a block of the VMM or of the
\* first-fit list: what slab and TLSF cannot serve is refused.
KmallocStaysBounded == Client!KmallocStaysBounded

\* No frame the pool ever hands out holds a byte of the kernel image, of the bootloader's
\* module table or of a module, although the memory map reports that memory as available
\* and none of them need start or end on a page (pmm.c:577-630, 839-852, 894-907); every
\* frame in the pool is whole available RAM between 1 MiB and 1 GiB, and mapped.
LoadedImageKept == subject = "image" => Image!TypeOK /\ Image!LoadedImageKept

\* The weights slot reports a module as loaded only when it is a named weights image of at
\* least a header, or the only module there is; a module of another name never stands in
\* for it; and it reports the slot empty only when no such module was passed
\* (boot_module.c:59-101, model_slot.c:17-55).
SlotHonest == subject = "image" => Image!SlotHonest

\* boot_module.h:32: a lookup "Receives a kernel-virtual pointer to the module contents":
\* every page of a module the slot reports is mapped.
ModuleReadable == subject = "image" => Image!ModuleReadable
=============================================================================
