---------------------------- MODULE MCProcessors ----------------------------
(* The processors and their interrupts: reading the firmware tables, starting    *)
(* the application processors, the TLB shootdown between them, the entry of      *)
(* interrupts and exceptions, and the timer and the interrupt controllers of the *)
(* client with a satellite build's tickless sleep and of the server.  A          *)
(* behaviour runs one of them, its subject, and leaves the others where they     *)
(* start.                                                                        *)
EXTENDS Integers, SequencesExt, SmpBoot, TlbShootdown, InterruptRouting

CONSTANT NoTable   \* the firmware has no such table

VARIABLES
  subject,            \* the component this behaviour is about
  \* PlatformDiscovery
  platform_pc, firmware, madt, srat, bsp, available, lapics, ioapics, isos, slot_ids, platform_online,
  online_count, node_of_slot, node_count, ranges, units, routes, redir, aps,
  \* InterruptEntry
  entry_pc, gdt, idt, idtr, g_isr_table, isr_fpu_save_area, mode, eip, entry_regs, ds, fpu,
  interrupt_flag, stack, ipi, taken, raised

platform_vars == <<platform_pc, firmware, madt, srat, bsp, available, lapics, ioapics, isos, slot_ids,
                   platform_online, online_count, node_of_slot, node_count, ranges, units,
                   routes, redir, aps>>
entry_vars == <<entry_pc, gdt, idt, idtr, g_isr_table, isr_fpu_save_area, mode, eip, entry_regs,
                ds, fpu, interrupt_flag, stack, ipi, taken, raised>>

\* Small firmware tables: every sequence of up to three MADT entries after the boot
\* processor's own, up to two when there is an SRAT, and SRATs of two entries.
Lapic(id, on) == [type |-> "lapic", id |-> id, enabled |-> on]
IoApic(at, gsi) == [type |-> "ioapic", base |-> at, gsi |-> gsi]
Iso(bus, irq, gsi) == [type |-> "iso", bus |-> bus, irq |-> irq, gsi |-> gsi]
Cpu(id, domain) == [type |-> "cpu", id |-> id, domain |-> domain, enabled |-> TRUE]
Mem(at, length, domain) ==
  [type |-> "mem", base |-> at, length |-> length, domain |-> domain, enabled |-> TRUE]

MadtEntries ==
  {Lapic(1, TRUE), Lapic(2, TRUE), Lapic(3, FALSE), IoApic(10, 0), IoApic(11, 2), IoApic(12, 2),
   Iso(0, 0, 2), Iso(1, 1, 3), Iso(0, 1, 3), [type |-> "bad"], [type |-> "other"]}
MadtsUpTo(n) == {NoTable} \cup {<<Lapic(0, TRUE)>> \o s : s \in BoundedSeq(MadtEntries, n)}
Madts == MadtsUpTo(3)
Srats == {NoTable, <<Cpu(0, 1), Mem(0, 4, 1)>>, <<Cpu(0, 9), Mem(4, 4, 2)>>}

\* ACPI tables in eight pages of which the kernel's virtual addresses begin at the sixth:
\* one in page 4 cannot be mapped, and one in pages 1 and 2 crosses the end.
Sdt(at, signature) ==
  [at |-> at, pages |-> 1, signature |-> signature, length |-> TRUE, checksum |-> TRUE]
Rsdt(listed) ==
  [at |-> 3, pages |-> 1, signature |-> "RSDT", length |-> TRUE, checksum |-> TRUE,
   entries |-> listed]
Tables == <<Sdt(3, "APIC"), Sdt(3, "SRAT")>>
RootPointer ==
  [signature |-> TRUE, checksum |-> TRUE, revision |-> 0, length |-> TRUE, extended |-> TRUE,
   last |-> FALSE, rsdt |-> Rsdt(Tables)]
RootPointers ==
  {RootPointer,
   [RootPointer EXCEPT !.signature = FALSE],
   [RootPointer EXCEPT !.checksum = FALSE],
   [RootPointer EXCEPT !.last = TRUE],
   [RootPointer EXCEPT !.revision = 2],
   [RootPointer EXCEPT !.revision = 2, !.length = FALSE],
   [RootPointer EXCEPT !.revision = 2, !.extended = FALSE, !.rsdt = NoTable],
   [RootPointer EXCEPT !.rsdt = NoTable],
   [RootPointer EXCEPT !.rsdt.checksum = FALSE],
   [RootPointer EXCEPT !.rsdt.signature = "XSDT"],
   [RootPointer EXCEPT !.rsdt.at = 4],
   [RootPointer EXCEPT !.rsdt.at = 1, !.rsdt.pages = 2],
   [RootPointer EXCEPT !.rsdt.entries = <<[Sdt(3, "APIC") EXCEPT !.checksum = FALSE],
                                          [Sdt(3, "APIC") EXCEPT !.length = FALSE],
                                          Sdt(4, "APIC")>> \o Tables],
   [RootPointer EXCEPT !.rsdt.entries = <<[Sdt(1, "FACP") EXCEPT !.pages = 2]>> \o Tables],
   [RootPointer EXCEPT !.rsdt.entries = <<[Sdt(1, "SRAT") EXCEPT !.pages = 2]>> \o Tables],
   [RootPointer EXCEPT !.rsdt.entries = <<Sdt(3, "SRAT")>>]}
PlainFirmware == [ebda_base |-> FALSE, ebda |-> <<>>, bios |-> <<RootPointer>>]
RootSearches ==
  [ebda_base : BOOLEAN, ebda : BoundedSeq(RootPointers, 1), bios : BoundedSeq(RootPointers, 1)]
    \cup [ebda_base : {FALSE}, ebda : {<<>>}, bios : BoundedSeq(RootPointers, 2)]

-----------------------------------------------------------------------------
Platform == INSTANCE PlatformDiscovery WITH
  Firmwares <- RootSearches, Pages <- 8, KernelPage <- 6, LowPages <- 1, NoRoom <- {4},
  MadtTables <- Madts, SratTables <- Srats, BspIds <- {0, 2, 999}, MaxSlots <- 3,
  MaxLocalApics <- 3, MaxIoApics <- 2, MaxIsos <- 1, MaxNodes <- 3, MaxRanges <- 2, MaxAps <- 2,
  Unmappable <- {12}, Redirections <- 3, Word <- 16, pc <- platform_pc,
  online <- platform_online
\* A division by zero, a general protection and a page fault with their error codes, the
\* timer's line and the spurious vector 0xFF, which has no gate.
Entry == INSTANCE InterruptEntry WITH
  Bsp <- "bsp", APs <- {"a1"}, Faults <- {0, 13, 14}, Lines <- {32, 255}, TssBytes <- {53, 192},
  MaxInterrupts <- 3, pc <- entry_pc, regs <- entry_regs
\* The routing that is extended is the client's, with a satellite build; this is the server's.
ServerRouting == INSTANCE InterruptRouting WITH
  Client <- FALSE, Satellite <- FALSE, CalTicks <- 1, ClockHz <- 100, SatelliteHz <- 1000

ASSUME ConstantsAssumption ==
  /\ Platform!PlatformAssumption
  /\ SmpAssumption
  /\ TlbAssumption
  /\ Entry!EntryAssumption
  /\ RoutingAssumption
  /\ ServerRouting!RoutingAssumption

Subjects == {"platform", "smp_boot", "tlb", "entry", "client", "server"}

vars == <<subject, platform_vars, smp_vars, tlb_vars, entry_vars, routing_vars>>

\* The tables vary under one firmware, and the search for them with one table.
Machine ==
  \/ /\ subject # "platform"
     /\ firmware = PlainFirmware /\ madt = NoTable /\ srat = NoTable /\ bsp = 0
  \/ /\ subject = "platform"
     /\ firmware = PlainFirmware /\ bsp \in {0, 2, 999}
     /\ \/ madt \in Madts /\ srat = NoTable
        \/ madt \in MadtsUpTo(2) /\ srat \in Srats \ {NoTable}
  \/ /\ subject = "platform"
     /\ firmware \in RootSearches \ {PlainFirmware}
     /\ madt = <<Lapic(0, TRUE), Lapic(1, TRUE)>> /\ srat = NoTable /\ bsp = 0

\* A component that is not the subject is in one of its initial states.
Init ==
  /\ subject \in Subjects
  /\ Machine
  /\ Platform!Init
  /\ SmpInit
  /\ subject # "smp_boot" => ~x2apic
  /\ TlbInit
  /\ Entry!Init
  /\ subject # "entry" =>
       gdt = Entry!global_descriptor_table_initialize(<<53, 53, 53, 53>>)
  /\ RoutingInit
  /\ subject \notin {"client", "server"} => picMask = {}

Others(x) ==
  /\ UNCHANGED subject
  /\ IF x = "platform" THEN TRUE ELSE UNCHANGED platform_vars
  /\ IF x = "smp_boot" THEN TRUE ELSE UNCHANGED smp_vars
  /\ IF x = "tlb" THEN TRUE ELSE UNCHANGED tlb_vars
  /\ IF x = "entry" THEN TRUE ELSE UNCHANGED entry_vars
  /\ IF x \in {"client", "server"} THEN TRUE ELSE UNCHANGED routing_vars

\* These run into their bounds and have nothing more to do.
AtBounds == subject \in {"platform", "tlb", "entry"} /\ UNCHANGED vars

Next ==
  \/ subject = "platform" /\ Platform!Next /\ Others("platform")
  \/ subject = "smp_boot" /\ SmpNext /\ Others("smp_boot")
  \/ subject = "tlb" /\ TlbNext /\ Others("tlb")
  \/ subject = "entry" /\ Entry!Next /\ Others("entry")
  \/ subject = "client" /\ RoutingNext /\ Others("client")
  \/ subject = "server" /\ ServerRouting!RoutingNext /\ Others("server")
  \/ AtBounds

Spec ==
  /\ Init /\ [][Next]_vars
  /\ WF_smp_vars(subject = "smp_boot" /\ BspStep)
  /\ WF_routing_vars(subject = "client" /\ PitTick)
  /\ WF_routing_vars(subject = "client" /\ LapicTick)
  /\ WF_routing_vars(subject = "client" /\ MainStep)
  /\ WF_routing_vars(subject = "client" /\ PicDelivers(Timer))
  /\ WF_routing_vars(subject = "client" /\ LapicDelivers(Timer))
  /\ WF_routing_vars(subject = "server" /\ ServerRouting!PitTick)
  /\ WF_routing_vars(subject = "server" /\ ServerRouting!LapicTick)
  /\ WF_routing_vars(subject = "server" /\ ServerRouting!MainStep)
  /\ WF_routing_vars(subject = "server" /\ ServerRouting!PicDelivers(ServerRouting!Timer))
  /\ WF_routing_vars(subject = "server" /\ ServerRouting!LapicDelivers(ServerRouting!Timer))
-----------------------------------------------------------------------------
\* What the boot knows of the machine is what the firmware's table says, although the
\* MADT is searched for among half-written and damaged ones and parsed twice and each processor reports itself twice: nothing of the first
\* parse survives the second; no APIC id has two slots; every other enabled processor
\* is started, on a stack of its own; the count a shootdown waits for is the number of
\* slots online; and the entry programmed for a line is one its IOAPIC has, carries
\* the line's vector and is not overwritten by the other line, unless the firmware
\* gives both the same one.
TopologyConsistent ==
  subject = "platform" =>
    /\ Platform!TypeOK
    /\ Platform!TablesFound
    /\ Platform!SecondParseExact
    /\ Platform!SlotsDistinct
    /\ Platform!EveryApPrepared
    /\ Platform!OnlineExact
    /\ Platform!RoutesProgrammed

\* An interrupted processor goes on as if nothing had happened, although there is one
\* FXSAVE area and a frame is built by the processor, a macro and the common stub in
\* turn: its stack, registers, data segment, FPU state and interrupt flag are its own
\* again, and only the probe's faulting store is stepped over; the dispatcher was given
\* the vector, the error code and the address of what happened, whichever macro made the
\* stub; and each selector the entry code loads names a present segment of its kind and
\* ring, out of the split fields of its descriptor (isr_stubs.s, isr.c, gdt_helper.c).
InterruptTransparent ==
  subject = "entry" =>
    /\ Entry!TypeOK
    /\ Entry!InterruptTransparent
    /\ Entry!FrameExact
    /\ Entry!SelectorsNameSegments

\* The boot and the tick go on: the boot CPU always gets past the APs, whichever of them
\* stay silent, answer late or cannot be sent to, because both waits are bounded and so
\* are the attempts; and as long as no hand-off of the timer was interrupted by the new
\* owner, ticks come for ever, except while the satellite has stopped them.
BootContinues ==
  /\ subject = "smp_boot" => BootEnds
  /\ subject = "client" => TicksKeepComing
  /\ subject = "server" => ServerRouting!TicksKeepComing
=============================================================================
