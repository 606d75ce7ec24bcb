-------------------------- MODULE PlatformDiscovery --------------------------
(***************************************************************************)
(* What the boot processor learns of the machine, in the order of          *)
(* kernel_initialize: its own APIC (cpu_topology.c), the MADT searched for *)
(* and parsed twice (acpi.c), the SRAT (numa_policy.c), the processors of the MADT    *)
(* given slots, the IOAPICs and the two ISA routes (ioapic.c), the table   *)
(* of processors to start (ap_bootstrap.c), and the processors coming      *)
(* online.                                                                 *)
(*                                                                         *)
(* Boot is sequential, so a loop over a table is one step, a fold over its *)
(* entries.  Tables are sequences of records, and a checksum is whether it *)
(* holds.  Physical addresses of the SRAT have 64 bits and are kept in     *)
(* words of Word values; those of the ACPI tables are counted in pages, of *)
(* which the address space has Pages.                                      *)
(***************************************************************************)
EXTENDS Integers, SequencesExt, FiniteSetsExt

CONSTANTS MadtTables, SratTables,   \* what the firmware may provide, or NoTable
          NoTable,
          Firmwares,                \* where it may put the pointers to them
          Pages, KernelPage,        \* 2^20, and the page of KERNEL_VIRTUAL_BASE
          LowPages,                 \* ACPI_LOW_MEM_END
          NoRoom,                   \* pages that paging_map_page refuses
          BspIds,                   \* APIC ids the boot processor may have, or NoApic
          MaxSlots,                 \* CPU_TOPOLOGY_MAX_LOGICAL_CPUS
          MaxLocalApics, MaxIoApics, MaxIsos,   \* the tables of acpi.c
          MaxNodes, MaxRanges,      \* the tables of numa_policy.c
          MaxAps,                   \* AP_BOOTSTRAP_MAX_APS
          Unmappable,               \* IOAPIC bases that paging_map_page refuses
          Redirections,             \* the entries of every IOAPIC
          Word                      \* 2^32

PlatformAssumption ==
  /\ MaxSlots \in Nat \ {0} /\ MaxLocalApics \in Nat /\ MaxIoApics \in Nat /\ MaxIsos \in Nat
  /\ MaxNodes \in Nat \ {0} /\ MaxRanges \in Nat /\ MaxAps \in Nat
  /\ Redirections \in 1 .. 128 /\ Word \in Nat \ {0}
  /\ Pages \in Nat \ {0} /\ KernelPage \in 0 .. Pages - 1 /\ LowPages \in 0 .. Pages

NoApic == 999                       \* CPU_TOPOLOGY_INVALID_APIC_ID
VectorBase == 32                    \* PIC_VECTOR_OFFSET_MASTER

VARIABLES pc,
          firmware, madt, srat, bsp,                    \* the machine
          available, lapics, ioapics, isos,             \* acpi.c
          slot_ids, online, online_count,               \* cpu_topology.c
          node_of_slot, node_count, ranges,             \* numa_policy.c
          units, routes, redir,                         \* ioapic.c
          aps                                           \* ap_bootstrap.c

machine == <<firmware, madt, srat, bsp>>
acpi == <<available, lapics, ioapics, isos>>
topology == <<slot_ids, online, online_count>>
numa == <<node_of_slot, node_count, ranges>>
ioapic == <<units, routes, redir>>
vars == <<pc, machine, acpi, topology, numa, ioapic, aps>>

Slots == 0 .. MaxSlots - 1
\* The slots are counted from zero.
IdAt(s) == IF s < Len(slot_ids) THEN slot_ids[s + 1] ELSE NoApic

Init ==
  /\ pc = "topology"
  /\ firmware \in Firmwares /\ madt \in MadtTables /\ srat \in SratTables /\ bsp \in BspIds
  /\ available = FALSE /\ lapics = <<>> /\ ioapics = <<>> /\ isos = <<>>
  /\ slot_ids = <<>> /\ online = {} /\ online_count = 0
  /\ node_of_slot = [s \in Slots |-> 0] /\ node_count = 1 /\ ranges = <<>>
  /\ units = <<>> /\ routes = <<>> /\ redir = <<>>
  /\ aps = {}
-----------------------------------------------------------------------------
(* cpu_topology.c *)

\* cpu_topology_register_apic_id_internal: the slots afterwards, and the slot it returns.
Register(ids, id) == IF Contains(ids, id) \/ Len(ids) >= MaxSlots THEN ids ELSE Append(ids, id)
SlotReturned(ids, id) ==
  IF Contains(ids, id) THEN SelectInSeq(ids, LAMBDA x : x = id) - 1
  ELSE IF Len(ids) < MaxSlots THEN Len(ids) ELSE id

\* Mutant: a processor that is online already is counted again.
CountAgain(slot) == online_count' = online_count + 1
CountOnline(slot) == online_count' = online_count + (IF slot \in online THEN 0 ELSE 1)

cpu_topology_mark_apic_id_online(id) ==
  LET slot == SlotReturned(slot_ids, id) IN
    /\ slot_ids' = Register(slot_ids, id)
    /\ IF slot < MaxSlots THEN online' = online \cup {slot} /\ CountOnline(slot)
                          ELSE UNCHANGED <<online, online_count>>

\* A processor without a local APIC keeps an unnamed slot and is not marked online.
cpu_topology_initialize ==
  /\ pc = "topology" /\ pc' = "madt1"
  /\ IF bsp = NoApic THEN slot_ids' = <<NoApic>> /\ UNCHANGED <<online, online_count>>
                     ELSE cpu_topology_mark_apic_id_online(bsp)
  /\ UNCHANGED <<machine, acpi, numa, ioapic, aps>>

\* kernel_initialize gives every enabled local APIC of the MADT a slot.
SyncTopology ==
  /\ pc = "sync" /\ pc' = "ioapic"
  /\ slot_ids' = IF available
                 THEN FoldLeft(LAMBDA ids, l : IF l.enabled THEN Register(ids, l.id) ELSE ids,
                               slot_ids, lapics)
                 ELSE slot_ids
  /\ UNCHANGED <<machine, acpi, online, online_count, numa, ioapic, aps>>
-----------------------------------------------------------------------------
(* acpi.c *)

(* A root pointer is [signature, checksum, revision, length, extended, last,        *)
(* rsdt]: whether the signature and the sum of its first 20 bytes are right; for a  *)
(* revision of 2, whether the length is at least the structure's and the sum of all *)
(* of it right; whether it lies in the last 36 bytes of its area; and the RSDT, or  *)
(* NoTable for a null address.  A table is [at, pages, signature, length, checksum] *)
(* and the RSDT has entries, which are tables.                                      *)

Virtual(page) == (page + KernelPage) % Pages

\* acpi_map_physical_const: the pages from the first to the last are mapped as long as
\* their virtual addresses do not pass the last one's, which may have wrapped.
acpi_map_physical_const(at, pages) ==
  LET loop == IF Virtual(at) <= Virtual(at + pages - 1) THEN at .. at + pages - 1 ELSE {}
  IN IF at < LowPages THEN "mapped"
     ELSE IF loop \cap NoRoom # {} THEN "null"
     ELSE IF loop = {} THEN "unmapped" ELSE "mapped"

\* The header, and the whole table once its length is known.
acpi_map_sdt_full(t) ==
  IF acpi_map_physical_const(t.at, 1) = "null" \/ ~t.length THEN "null"
  ELSE acpi_map_physical_const(t.at, t.pages)

\* The scan stops where a whole revision 2 structure would no longer fit.
acpi_rsdp_accepted(c) ==
  /\ ~c.last
  /\ c.signature /\ c.checksum
  /\ c.revision >= 2 => c.length /\ c.extended

acpi_find_rsdp_in_range(area) == SelectSeq(area, acpi_rsdp_accepted)

\* The EBDA when the BIOS data area points to one above 512 KiB, then the BIOS area.
acpi_read_ebda_base_physical == firmware.ebda_base
acpi_find_rsdp ==
  (IF acpi_read_ebda_base_physical THEN acpi_find_rsdp_in_range(firmware.ebda) ELSE <<>>)
    \o acpi_find_rsdp_in_range(firmware.bios)

\* The table of that signature, where it is read: its sum is taken only when the
\* signature matches, and a page that is not mapped is then a page fault.
acpi_checksum_of(t) == IF acpi_map_sdt_full(t) = "unmapped" THEN "fault"
                       ELSE IF t.checksum THEN "found" ELSE "damaged"

\* The loop over the RSDT passes over what it cannot map, other tables and damaged ones.
acpi_find_entry(rsdt, signature) ==
  LET Ends(t) == /\ acpi_map_sdt_full(t) # "null" /\ t.signature = signature
                 /\ acpi_checksum_of(t) # "damaged"
      hits == SelectSeq(rsdt.entries, Ends)
  IN IF hits = <<>> THEN "none" ELSE acpi_checksum_of(hits[1])

\* advanced_configuration_and_power_interface_find_table
find_table(signature) ==
  LET rsdt == acpi_find_rsdp[1].rsdt
  IN IF acpi_find_rsdp = <<>> THEN "none"
     ELSE IF rsdt = NoTable THEN "none"
     ELSE IF acpi_map_sdt_full(rsdt) = "null" \/ rsdt.signature # "RSDT" THEN "none"
     ELSE IF acpi_checksum_of(rsdt) # "found" THEN acpi_checksum_of(rsdt)
     ELSE acpi_find_entry(rsdt, signature)

\* What the caller goes on with; a page fault stops the machine.
TableFound(signature, table) == IF find_table(signature) = "found" THEN table ELSE NoTable
Reached(signature, to) == pc' = IF find_table(signature) = "fault" THEN "fault" ELSE to

OfType(t, entries) == SelectSeq(entries, LAMBDA e : e.type = t)
Prefix(s, n) == SubSeq(s, 1, IF Len(s) < n THEN Len(s) ELSE n)

\* An entry of impossible length, or a local APIC beyond 4 GiB, ends the parse.
Fatal(e) == e.type \in {"bad", "override64"}
Parsed(entries) == IF \E i \in DOMAIN entries : Fatal(entries[i])
                   THEN SubSeq(entries, 1, SelectInSeq(entries, Fatal) - 1) ELSE entries

ResetCount(old) == <<>>

Collected(old, table, t, max) == Prefix(ResetCount(old) \o OfType(t, Parsed(table)), max)

\* advanced_configuration_and_power_interface_madt_initialize
MadtInitialize(from, to) ==
  /\ pc = from /\ Reached("APIC", to)
  /\ LET table == TableFound("APIC", madt) IN
       IF table = NoTable
       THEN available' = FALSE /\ lapics' = <<>> /\ ioapics' = <<>> /\ isos' = <<>>
       ELSE /\ available' = (Parsed(table) = table)
            /\ lapics' = Collected(lapics, table, "lapic", MaxLocalApics)
            /\ ioapics' = Collected(ioapics, table, "ioapic", MaxIoApics)
            /\ isos' = Collected(isos, table, "iso", MaxIsos)
  /\ UNCHANGED <<machine, topology, numa, ioapic, aps>>

\* The first override of the ISA bus for the line, or the line itself.
Override(irq) == SelectInSeq(isos, LAMBDA o : o.bus = 0 /\ o.irq = irq)
ResolveIsaIrq(irq) == IF Override(irq) = 0 THEN irq ELSE isos[Override(irq)].gsi
-----------------------------------------------------------------------------
(* numa_policy.c *)

SlotForApicId(id) == IF Contains(slot_ids, id) THEN SelectInSeq(slot_ids, LAMBDA x : x = id) - 1 ELSE NoApic

\* One entry of the SRAT, applied to the tables so far.
SratStep(t, e) ==
  LET grown == IF e.domain >= t.count /\ e.domain < MaxNodes THEN e.domain + 1 ELSE t.count IN
    IF ~e.enabled THEN t
    ELSE IF e.type = "cpu"
    THEN IF SlotForApicId(e.id) < MaxSlots
         THEN [t EXCEPT !.node[SlotForApicId(e.id)] = e.domain, !.count = grown]
         ELSE t
    ELSE [t EXCEPT !.count = grown,
                   !.ranges = IF e.domain < MaxNodes /\ Len(t.ranges) < MaxRanges
                              THEN Append(@, [base |-> e.base % Word, length |-> e.length % Word,
                                              node |-> e.domain])
                              ELSE @]

numa_policy_initialize ==
  /\ pc = "numa" /\ Reached("SRAT", "madt2")
  /\ LET empty == [node |-> [s \in Slots |-> 0], count |-> 1, ranges |-> <<>>]
         table == TableFound("SRAT", srat)
         t == IF table = NoTable THEN empty ELSE FoldLeft(SratStep, empty, table) IN
       node_of_slot' = t.node /\ node_count' = t.count /\ ranges' = t.ranges
  /\ UNCHANGED <<machine, acpi, topology, ioapic, aps>>

\* numa_policy_get_node_for_address
NodeForAddress(a) ==
  LET i == SelectInSeq(ranges, LAMBDA r : a >= r.base /\ a < (r.base + r.length) % Word) IN
    IF i = 0 THEN 0 ELSE ranges[i].node
-----------------------------------------------------------------------------
(* ioapic.c *)

\* The units of the MADT up to the first that cannot be mapped.
MapFails(u) == u.base \in Unmappable
Mapped == LET tried == IF available THEN ioapics ELSE <<>>
              bad == SelectInSeq(tried, MapFails) IN
            IF bad = 0 THEN tried ELSE SubSeq(tried, 1, bad - 1)
AllMapped == available /\ ioapics # <<>> /\ Mapped = ioapics

Covers(u, gsi) == u.base # 0 /\ gsi >= u.gsi /\ gsi < u.gsi + Redirections

RelativeEntry(u, gsi) == gsi - u.gsi

\* io_apic_program_masked_isa_route, applied to the routes and entries so far.
ProgramRoute(r, irq) ==
  LET gsi == ResolveIsaIrq(irq)
      i == SelectInSeq(r.units, LAMBDA u : Covers(u, gsi))
      key == <<i, RelativeEntry(r.units[i], gsi)>>
      entry == [vector |-> VectorBase + irq, masked |-> TRUE, destination |-> 0] IN
    IF i = 0 THEN r
    ELSE [r EXCEPT !.routes = Append(@, [irq |-> irq, gsi |-> gsi, unit |-> i]),
                   !.redir = [k \in DOMAIN @ \cup {key} |-> IF k = key THEN entry ELSE @[k]]]

\* A unit that cannot be mapped ends the scaffold with the units before it mapped and no route.
InitializeScaffold ==
  /\ pc = "ioapic" /\ pc' = "destination"
  /\ LET empty == [units |-> Mapped, routes |-> <<>>, redir |-> <<>>]
         r == IF AllMapped /\ \E i \in DOMAIN Mapped : Mapped[i].base # 0
              THEN ProgramRoute(ProgramRoute(empty, 0), 1) ELSE empty IN
       units' = r.units /\ routes' = r.routes /\ redir' = r.redir
  /\ UNCHANGED <<machine, acpi, topology, numa, aps>>

RouteOf(irq) == SelectInSeq(routes, LAMBDA r : r.irq = irq)
KeyOf(r) == <<r.unit, RelativeEntry(units[r.unit], r.gsi)>>

\* The keyboard's route is given APIC id 0 as its destination.
SetRouteDestination ==
  /\ pc = "destination" /\ pc' = "bootstrap"
  /\ redir' = IF RouteOf(1) = 0 THEN redir
              ELSE [redir EXCEPT ![KeyOf(routes[RouteOf(1)])].destination = 0]
  /\ UNCHANGED <<machine, acpi, topology, numa, units, routes, aps>>

EnableKeyboardRoute ==
  /\ pc = "run" /\ RouteOf(1) # 0
  /\ redir' = [redir EXCEPT ![KeyOf(routes[RouteOf(1)])].masked = FALSE]
  /\ UNCHANGED <<pc, machine, acpi, topology, numa, units, routes, aps>>
-----------------------------------------------------------------------------
(* ap_bootstrap.c *)

\* cpu_topology_get_local_apic_id
LocalApicId == IF bsp = NoApic THEN 0 ELSE bsp

IsBsp(s) == IdAt(s) = LocalApicId

\* The slots that get an entry, in order.
ApSlots == {s \in Slots : IdAt(s) # NoApic /\ ~IsBsp(s)}
StackOf(s) == Cardinality({t \in ApSlots : t < s})

application_processor_bootstrap_initialize ==
  /\ pc = "bootstrap" /\ pc' = "run"
  /\ aps' = {[slot |-> s, id |-> IdAt(s), stack |-> StackOf(s)] : s \in {t \in ApSlots : StackOf(t) < MaxAps}}
  /\ UNCHANGED <<machine, acpi, topology, numa, ioapic>>

\* A processor that was started reports, the trampoline and the C entry each once.
ReportOnline ==
  /\ pc = "run"
  /\ \E a \in aps : cpu_topology_mark_apic_id_online(a.id)
  /\ UNCHANGED <<pc, machine, acpi, numa, ioapic, aps>>

Next ==
  \/ cpu_topology_initialize \/ SyncTopology
  \/ MadtInitialize("madt1", "numa") \/ MadtInitialize("madt2", "sync")
  \/ numa_policy_initialize
  \/ InitializeScaffold \/ SetRouteDestination \/ EnableKeyboardRoute
  \/ application_processor_bootstrap_initialize \/ ReportOnline

Spec == Init /\ [][Next]_vars
-----------------------------------------------------------------------------
\* The tables never outgrow their arrays.
TypeOK ==
  /\ pc \in {"topology", "madt1", "numa", "madt2", "sync", "ioapic", "destination", "bootstrap", "run",
             "fault"}
  /\ Len(slot_ids) <= MaxSlots /\ online \subseteq Slots /\ online_count \in 0 .. MaxSlots
  /\ Len(lapics) <= MaxLocalApics /\ Len(ioapics) <= MaxIoApics /\ Len(isos) <= MaxIsos
  /\ node_count \in 1 .. MaxNodes /\ Len(ranges) <= MaxRanges
  /\ Len(routes) <= 2 /\ Cardinality(aps) <= MaxAps

\* The MADT is parsed twice during boot, and the second parse leaves exactly what the
\* table says: nothing of the first survives it.
SecondParseExact ==
  pc \in {"sync", "run"} /\ TableFound("APIC", madt) # NoTable =>
    /\ lapics = Prefix(OfType("lapic", Parsed(madt)), MaxLocalApics)
    /\ isos = Prefix(OfType("iso", Parsed(madt)), MaxIsos)

\* The root pointers the firmware really provides, those of the areas it may use.
Whole(c) == c.signature /\ c.checksum /\ (c.revision >= 2 => c.length /\ c.extended)
Provided == {c \in ToSet(firmware.bios) \cup (IF firmware.ebda_base THEN ToSet(firmware.ebda) ELSE {}) :
               Whole(c)}
\* An RSDT, or a table of it, that is whole and can be mapped, on one side of the end of
\* the virtual addresses.
Reachable(t) == /\ t.length /\ t.checksum /\ NoRoom \cap (t.at .. t.at + t.pages - 1) = {}
                /\ Virtual(t.at) + t.pages <= Pages
Intact(t, signature) == t.signature = signature /\ Reachable(t)
Leads(c) == /\ c.rsdt # NoTable
            /\ Intact(c.rsdt, "RSDT")
            /\ \E i \in DOMAIN c.rsdt.entries : Intact(c.rsdt.entries[i], "APIC")
\* Some table lies across the end of the virtual addresses.
Straddles(c) ==
  c.rsdt # NoTable /\ \E t \in {c.rsdt} \cup ToSet(c.rsdt.entries) : Virtual(t.at) + t.pages > Pages

\* The processors are those of a table the firmware really provides: when every whole
\* root pointer, in the EBDA or the BIOS area, leads to an intact MADT and one does not lie
\* at the very end of its area, that MADT is found, whatever half-written pointers and
\* damaged tables precede it; when none is whole, none is used; and reading the tables
\* faults only on one that crosses the end of the virtual addresses (acpi.c).
TablesFound ==
  /\ pc = "run" /\ madt # NoTable =>
       /\ (\A c \in Provided : Leads(c) /\ ~Straddles(c)) /\ (\E c \in Provided : ~c.last)
            => available = (Parsed(madt) = madt)
       /\ (\A c \in Provided : ~Leads(c)) => ~available
  /\ pc = "fault" => \E c \in Provided : Straddles(c)

\* No APIC id has two slots, whether it came from CPUID, the MADT or its own report, so
\* no processor is started twice.
SlotsDistinct == IsInjective(slot_ids)

\* Every other processor the MADT enables is started, on a stack of its own, and the
\* boot processor is not.
EveryApPrepared ==
  pc = "run" /\ available =>
    /\ \A a, b \in aps : a.stack = b.stack => a = b
    /\ LocalApicId \notin {a.id : a \in aps}
    /\ \A i \in DOMAIN lapics :
         lapics[i].enabled /\ lapics[i].id \in ToSet(slot_ids) \ {LocalApicId}
           => lapics[i].id \in {a.id : a \in aps}

\* The count that a TLB shootdown waits for is the number of slots online, although
\* each processor reports itself twice.
OnlineExact == online_count = Cardinality(online)

\* The entry programmed for a line is one its IOAPIC has, carries the line's vector, and
\* is not overwritten by the other line, unless the firmware gives both the same one.
RoutesProgrammed ==
  \A i \in DOMAIN routes :
    LET r == routes[i] IN
      /\ r.gsi - units[r.unit].gsi \in 0 .. Redirections - 1
      /\ KeyOf(r) \in DOMAIN redir
      /\ (\A j \in DOMAIN routes : routes[j].gsi = r.gsi => j = i)
           => redir[KeyOf(r)].vector = VectorBase + r.irq
-----------------------------------------------------------------------------
\* numa_policy.h: a slot's node is the one the SRAT associates with its processor.
SlotNodesKnown ==
  pc = "run" /\ srat # NoTable =>
    \A i \in DOMAIN srat :
      srat[i].type = "cpu" /\ srat[i].enabled /\ Contains(slot_ids, srat[i].id)
        => node_of_slot[SlotForApicId(srat[i].id)] = srat[i].domain

\* numa_policy.h: an address belongs to the node of the range that holds it, and to
\* node 0 when none does.
AddressNodesKnown ==
  pc = "run" /\ srat # NoTable =>
    \A a \in 0 .. Word - 1 :
      LET holds(e) == /\ e.type = "mem" /\ e.enabled
                      /\ a \in e.base .. (e.base + e.length - 1)
          i == SelectInSeq(srat, holds) IN
        NodeForAddress(a) = IF i = 0 THEN 0 ELSE srat[i].domain

\* cpu_topology.h: registering an id gives its own slot, or 0 when that fails.
RegistrationHonest ==
  pc = "run" /\ available =>
    \A i \in DOMAIN lapics :
      LET s == SlotReturned(slot_ids, lapics[i].id) IN s = 0 \/ IdAt(s) = lapics[i].id
=============================================================================
