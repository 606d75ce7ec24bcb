---------------------------- MODULE TlbShootdown ----------------------------
(***************************************************************************)
(* Unmapping a page while other CPUs may cache its translation: the        *)
(* paging_unmap_page of arch/i386/cpu/paging.c and the shootdown protocol  *)
(* of arch/i386/cpu/apic_ipi.c.  One CPU, the BSP, maps and unmaps; the    *)
(* others use the mappings and take vector 0x40.                           *)
(*                                                                         *)
(* A mapping is the number of the paging_map_page call that installed it,  *)
(* so a translation of an earlier mapping of the page is recognised.  The  *)
(* pages of PageSet lie in one 4 MiB region: they share a directory entry  *)
(* and the page table in its frame, which is given back when the last of   *)
(* them is unmapped, before the shootdown.  A CPU caches the directory     *)
(* entry too, and walks the frame it names until it executes invlpg.  The  *)
(* local APIC is modelled by its request and in-service bits for vector    *)
(* 0x40.  Nothing sends it an end of interrupt: neither the handler nor    *)
(* isr_common_stub does, so the in-service bit stays set.                  *)
(* The responsive CPUs are taken to reach the handler, the protocol's own  *)
(* premise; how the vector is entered is in module InterruptEntry, where   *)
(* an application processor that is sent it has no interrupt table.        *)
(***************************************************************************)
EXTENDS Integers, FiniteSets

CONSTANTS Bsp, Remotes, \* the CPUs cpu_topology counts as online
          Responsive,   \* those that take vector 0x40 when it is requested
          PageSet,
          Frames,       \* the frames the page table of the region may live in
          AllPages,     \* the address 0xFFFFFFFF of broadcast_tlb_flush
          Word,         \* 2^32, the width of apic_ipi_tlb_shootdown_pending
          MaxMaps,      \* bound on the mappings installed
          MaxTimeouts,  \* bound on the shootdowns abandoned
          SendOutcomes, \* {TRUE} when the ICR is never busy, else BOOLEAN
          Patient       \* the spin limit outlasts any handler that can run

TlbAssumption ==
  /\ IsFiniteSet(Remotes) /\ Bsp \notin Remotes /\ Responsive \subseteq Remotes /\ AllPages \notin PageSet
  /\ Frames \subseteq Nat \ {0}
  /\ Word \in Nat /\ Cardinality(Remotes) < Word
  /\ MaxMaps \in Nat /\ MaxTimeouts \in Nat /\ Patient \in BOOLEAN
  /\ SendOutcomes \subseteq BOOLEAN

CPUs == Remotes \cup {Bsp}

VARIABLES pte,            \* page -> its mapping, 0 when not present
          maps,           \* mappings installed so far
          pde,            \* the frame of the region's page table, 0 when not present
          frame_use,      \* frame -> what the PMM has given it out for
          tlb,            \* CPU -> page -> the mapping cached, 0 for none
          walk,           \* CPU -> the page table its cached directory entry names, 0 for none
          tlb_pc,         \* where the BSP is
          target,         \* virt_addr of the shootdown in progress
          shootdown_addr, shootdown_pending,
          timeout_count,
          irr, isr,       \* AP -> vector 0x40 requested, in service
          handler,        \* AP -> where its handler is
          completed       \* history: the last shootdown was acknowledged, not abandoned

ipi_vars == <<irr, isr, handler>>
mapping == <<pte, maps, pde, frame_use>>
cached == <<tlb, walk>>
tlb_vars == <<mapping, cached, tlb_pc, target, shootdown_addr, shootdown_pending, timeout_count,
              ipi_vars, completed>>

TlbInit ==
  /\ pte = [p \in PageSet |-> 0] /\ maps = 0
  /\ pde = 0 /\ frame_use = [f \in Frames |-> "free"]
  /\ tlb = [c \in CPUs |-> [p \in PageSet |-> 0]] /\ walk = [c \in CPUs |-> 0]
  /\ tlb_pc = "idle" /\ target = AllPages
  /\ shootdown_addr = AllPages /\ shootdown_pending = 0 /\ timeout_count = 0
  /\ irr = [c \in Remotes |-> FALSE] /\ isr = [c \in Remotes |-> FALSE]
  /\ handler = [c \in Remotes |-> "out"]
  /\ completed = FALSE

\* invlpg of one address, which also drops every cached directory entry; 0xFFFFFFFF is
\* in none of the pages.
paging_invlpg(c, a) ==
  /\ tlb' = IF a \in PageSet THEN [tlb EXCEPT ![c][a] = 0] ELSE tlb
  /\ walk' = [walk EXCEPT ![c] = 0]
paging_flush_tlb(c) ==
  /\ tlb' = [tlb EXCEPT ![c] = [p \in PageSet |-> 0]]
  /\ walk' = [walk EXCEPT ![c] = 0]
-----------------------------------------------------------------------------
(* The BSP *)

\* paging_create_page_table: any free frame; without one paging_map_page fails.
paging_create_page_table ==
  \E f \in Frames :
    /\ frame_use[f] = "free"
    /\ pde' = f /\ frame_use' = [frame_use EXCEPT ![f] = "table"]

\* paging_map_page of a page that is not mapped.
Map(p) ==
  /\ tlb_pc = "idle" /\ pte[p] = 0 /\ maps < MaxMaps
  /\ IF pde = 0 THEN paging_create_page_table ELSE UNCHANGED <<pde, frame_use>>
  /\ maps' = maps + 1 /\ pte' = [pte EXCEPT ![p] = maps + 1]
  /\ paging_invlpg(Bsp, p)
  /\ UNCHANGED <<tlb_pc, target, shootdown_addr, shootdown_pending, timeout_count, ipi_vars, completed>>

\* The PMM hands a free frame to somebody else, who writes to it, and gets it back.  Only
\* the BSP allocates, and not from an interrupt handler.
AllocateFrame(f) ==
  /\ tlb_pc = "idle" /\ frame_use[f] = "free"
  /\ frame_use' = [frame_use EXCEPT ![f] = "data"]
  /\ UNCHANGED <<pte, maps, pde, cached, tlb_pc, target, shootdown_addr, shootdown_pending,
                 timeout_count, ipi_vars, completed>>

FreeFrame(f) ==
  /\ tlb_pc = "idle" /\ frame_use[f] = "data"
  /\ frame_use' = [frame_use EXCEPT ![f] = "free"]
  /\ UNCHANGED <<pte, maps, pde, cached, tlb_pc, target, shootdown_addr, shootdown_pending,
                 timeout_count, ipi_vars, completed>>

\* With one CPU online there is nobody to interrupt.
Broadcast == IF Remotes = {} THEN "local" ELSE "address"

\* The directory entry is cleared and the frame of the emptied page table given back.
ReclaimPageTable ==
  IF \A p \in PageSet : pte'[p] = 0
  THEN pde' = 0 /\ frame_use' = [frame_use EXCEPT ![pde] = "free"]
  ELSE UNCHANGED <<pde, frame_use>>

Unmap(p) ==
  /\ tlb_pc = "idle" /\ pte[p] # 0
  /\ pte' = [pte EXCEPT ![p] = 0] /\ ReclaimPageTable
  /\ target' = p /\ tlb_pc' = Broadcast /\ completed' = FALSE
  /\ UNCHANGED <<maps, cached, shootdown_addr, shootdown_pending, timeout_count, ipi_vars>>

broadcast_tlb_flush ==
  /\ tlb_pc = "idle"
  /\ target' = AllPages /\ tlb_pc' = Broadcast /\ completed' = FALSE
  /\ UNCHANGED <<mapping, cached, shootdown_addr, shootdown_pending, timeout_count, ipi_vars>>

StoreAddress ==
  /\ tlb_pc = "address"
  /\ shootdown_addr' = target /\ tlb_pc' = "pending"
  /\ UNCHANGED <<mapping, cached, target, shootdown_pending, timeout_count, ipi_vars, completed>>

\* cpu_count - 1u
TargetCount == Cardinality(Remotes)

StorePending ==
  /\ tlb_pc = "pending"
  /\ shootdown_pending' = TargetCount /\ tlb_pc' = "send"
  /\ UNCHANGED <<mapping, cached, target, shootdown_addr, timeout_count, ipi_vars, completed>>

\* advanced_pic_ipi_send_fixed: the command reaches every other CPU, or the ICR was
\* still busy and nothing is written; the caller ignores which.
SendIpi(written) ==
  /\ tlb_pc = "send" /\ tlb_pc' = "wait"
  /\ irr' = IF written THEN [c \in Remotes |-> TRUE] ELSE irr
  /\ UNCHANGED <<mapping, cached, target, shootdown_addr, shootdown_pending, timeout_count,
                 isr, handler, completed>>

WaitDone ==
  /\ tlb_pc = "wait" /\ shootdown_pending = 0
  /\ tlb_pc' = "local" /\ completed' = TRUE
  /\ UNCHANGED <<mapping, cached, target, shootdown_addr, shootdown_pending, timeout_count, ipi_vars>>

CanHandle(c) == handler[c] # "out" \/ (c \in Responsive /\ irr[c] /\ ~isr[c])

WaitAbandoned ==
  /\ tlb_pc = "wait" /\ shootdown_pending > 0
  /\ timeout_count < MaxTimeouts
  /\ Patient => \A c \in Remotes : ~CanHandle(c)
  /\ shootdown_pending' = 0 /\ timeout_count' = timeout_count + 1
  /\ tlb_pc' = "local"
  /\ UNCHANGED <<mapping, cached, target, shootdown_addr, ipi_vars, completed>>

LocalInvalidate ==
  /\ tlb_pc = "local" /\ tlb_pc' = "idle"
  /\ paging_invlpg(Bsp, target)
  /\ UNCHANGED <<mapping, target, shootdown_addr, shootdown_pending, timeout_count, ipi_vars, completed>>
-----------------------------------------------------------------------------
(* Memory accesses, and the handler of the other CPUs *)

\* A memory access through a present mapping fills the TLB.
Access(c, p) ==
  /\ pte[p] # 0
  /\ IF c = Bsp THEN tlb_pc = "idle" ELSE handler[c] = "out"
  /\ tlb' = [tlb EXCEPT ![c][p] = IF @ = 0 THEN pte[p] ELSE @]
  /\ walk' = [walk EXCEPT ![c] = IF tlb[c][p] = 0 /\ @ = 0 THEN pde ELSE @]
  /\ UNCHANGED <<mapping, tlb_pc, target, shootdown_addr, shootdown_pending, timeout_count, ipi_vars, completed>>

HandlerEnter(c) ==
  /\ c \in Responsive /\ handler[c] = "out"
  /\ irr[c] /\ ~isr[c]
  /\ irr' = [irr EXCEPT ![c] = FALSE] /\ isr' = [isr EXCEPT ![c] = TRUE]
  /\ handler' = [handler EXCEPT ![c] = "compare"]
  /\ UNCHANGED <<mapping, cached, tlb_pc, target, shootdown_addr, shootdown_pending, timeout_count, completed>>

\* The volatile address is read twice: for the comparison and for the invlpg.
HandlerCompare(c) ==
  /\ handler[c] = "compare"
  /\ handler' = [handler EXCEPT ![c] = IF shootdown_addr = AllPages THEN "flush" ELSE "invlpg"]
  /\ UNCHANGED <<mapping, cached, tlb_pc, target, shootdown_addr, shootdown_pending, timeout_count,
                 irr, isr, completed>>

\* Mutant: the acknowledgement is sent before the translation is dropped.
AckFirst(c) ==
  /\ handler[c] \in {"flush", "invlpg"}
  /\ handler' = [handler EXCEPT ![c] = "ack"]
  /\ UNCHANGED <<mapping, cached, tlb_pc, target, shootdown_addr, shootdown_pending, timeout_count,
                 irr, isr, completed>>

HandlerInvalidate(c) ==
  /\ handler[c] \in {"flush", "invlpg"}
  /\ IF handler[c] = "flush" THEN paging_flush_tlb(c) ELSE paging_invlpg(c, shootdown_addr)
  /\ handler' = [handler EXCEPT ![c] = "ack"]
  /\ UNCHANGED <<mapping, tlb_pc, target, shootdown_addr, shootdown_pending, timeout_count,
                 irr, isr, completed>>

\* __sync_fetch_and_sub on a uint32_t.
Decremented(n) == (n + Word - 1) % Word

HandlerAck(c) ==
  /\ handler[c] = "ack"
  /\ shootdown_pending' = Decremented(shootdown_pending)
  /\ handler' = [handler EXCEPT ![c] = "out"]
  /\ UNCHANGED <<mapping, cached, tlb_pc, target, shootdown_addr, timeout_count, irr, isr, completed>>

CallerStep ==
  \/ \E p \in PageSet : Map(p) \/ Unmap(p)
  \/ \E f \in Frames : AllocateFrame(f) \/ FreeFrame(f)
  \/ broadcast_tlb_flush
  \/ StoreAddress \/ StorePending
  \/ \E written \in SendOutcomes : SendIpi(written)
  \/ WaitDone \/ WaitAbandoned \/ LocalInvalidate

TlbNext ==
  \/ CallerStep
  \/ \E c \in CPUs, p \in PageSet : Access(c, p)
  \/ \E c \in Remotes : HandlerEnter(c) \/ HandlerCompare(c) \/ HandlerInvalidate(c) \/ HandlerAck(c)

TlbSpec == TlbInit /\ [][TlbNext]_tlb_vars
-----------------------------------------------------------------------------
\* The variables keep their types; shootdown_pending stays within its word.
TlbTypeOK ==
  /\ pte \in [PageSet -> 0 .. MaxMaps] /\ maps \in 0 .. MaxMaps
  /\ pde \in Frames \cup {0} /\ frame_use \in [Frames -> {"free", "table", "data"}]
  /\ tlb \in [CPUs -> [PageSet -> 0 .. MaxMaps]] /\ walk \in [CPUs -> Frames \cup {0}]
  /\ tlb_pc \in {"idle", "address", "pending", "send", "wait", "local"}
  /\ target \in PageSet \cup {AllPages} /\ shootdown_addr \in PageSet \cup {AllPages}
  /\ shootdown_pending \in 0 .. Word - 1 /\ timeout_count \in 0 .. MaxTimeouts
  /\ irr \in [Remotes -> BOOLEAN] /\ isr \in [Remotes -> BOOLEAN]
  /\ handler \in [Remotes -> {"out", "compare", "flush", "invlpg", "ack"}]
  /\ completed \in BOOLEAN

\* Until a shootdown is abandoned, no CPU keeps using an unmapped page once
\* paging_unmap_page has returned: no TLB holds a translation that is not the
\* page's present mapping.
TranslationsCurrent ==
  tlb_pc = "idle" /\ timeout_count = 0 =>
    \A c \in CPUs, p \in PageSet : tlb[c][p] \in {0, pte[p]}

\* Until a shootdown is abandoned, the wait never ends while a CPU that was sent the
\* interrupt has still to drop its translation: the pending count covers them all.
WaitCoversTargets ==
  tlb_pc = "wait" /\ timeout_count = 0 =>
    Cardinality({c \in Remotes : irr[c] \/ handler[c] # "out"}) <= shootdown_pending

\* Until a shootdown is abandoned, no CPU walks a page table that is not one any more:
\* paging_unmap_page gives the frame back before the other CPUs have dropped the
\* directory entry that names it, but nobody else gets the frame until they have.
NoWalkOfReusedFrame ==
  timeout_count = 0 => \A c \in CPUs : walk[c] # 0 => frame_use[walk[c]] # "data"

\* Until a shootdown is abandoned, unmapping a page leaves nothing of it behind: no TLB
\* holds a translation that is not the page's present mapping once paging_unmap_page has
\* returned, the pending count covers every CPU that has still to drop its own, and no
\* CPU walks a frame that has a new owner since it was a page table (paging.c:270-310,
\* apic_ipi.c).
NoStaleTranslation ==
  TlbTypeOK /\ TranslationsCurrent /\ WaitCoversTargets /\ NoWalkOfReusedFrame

\* A shootdown that ended because every target acknowledged, not because it was
\* abandoned, has removed the page from the TLB of every other CPU.
CompletedMeansFlushed ==
  completed /\ tlb_pc = "idle" /\ target \in PageSet =>
    \A c \in Remotes : tlb[c][target] \in {0, pte[target]}

\* apic_ipi.h: an abandoned shootdown means a target that is unresponsive or a phantom.
TimeoutMeansUnresponsive == Responsive = Remotes => timeout_count = 0
=============================================================================
