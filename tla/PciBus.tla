-------------------------------- MODULE PciBus --------------------------------
(***************************************************************************)
(* PCI configuration space through ports 0xCF8/0xCFC: the brute-force scan *)
(* into a fixed table, the probing of base address registers and the       *)
(* read-modify-write of half a dword.  The bus is a set of functions; the  *)
(* registers of one of them are modelled, dwords being numbers below Word. *)
(***************************************************************************)
EXTENDS Integers, Sequences, SequencesExt, FiniteSets

CONSTANTS
  Buses, Devices, Functions,  \* numbers 0 .. n; 256, 32 and 8 of them in the code
  MAX_DEVICES,                \* 64 in the code
  BAR_COUNT,                  \* 6 in the code
  Word,                       \* 2^32
  IoSpace,                    \* 2^16: what an I/O register decodes
  MemSizes, IoSizes           \* region sizes, powers of two

PciAssumption ==
  /\ 0 \in Buses \cap Devices \cap Functions
  /\ \A s \in MemSizes : s >= 16 /\ Word % s = 0 /\ s < Word
  /\ \A s \in IoSizes : s >= 4 /\ IoSpace % s = 0 /\ s < IoSpace
  /\ Word % IoSpace = 0

VARIABLES
  present,   \* the functions on the bus: set of <<bus, device, function>>
  multi,     \* the functions 0 whose header type has bit 7 set
  table,     \* the recorded functions, in order
  cursor,    \* the <<bus, device>> slots the scan has still to look at
  region,    \* slot -> what the device implements there (external)
  bar,       \* slot -> the register
  pc, index, original, listed,  \* the probing of the registers, one by one
  command, status

bvars == <<present, multi, table, cursor, region, bar, pc, index, original, listed, command,
           status>>

None == [kind |-> "none", size |-> 0]
Regions ==
  {None} \cup [kind : {"io"}, size : IoSizes] \cup [kind : {"mem32", "mem64"}, size : MemSizes]
High == [kind |-> "high", size |-> 0]

\* A 64-bit register is followed by its high half, and by nothing else is one.
Layouts ==
  {l \in [0 .. (BAR_COUNT - 1) -> Regions \cup {High}] :
     \A i \in 0 .. (BAR_COUNT - 1) :
       /\ (l[i].kind = "mem64") => i + 1 < BAR_COUNT /\ l[i + 1] = High
       /\ (l[i] = High) => i > 0 /\ l[i - 1].kind = "mem64"}

\* What a register reads back after v is written to it: the low bits are wired to the
\* kind of region and those below the size to zero (external).
Flags(r) == CASE r.kind = "io" -> 1 [] r.kind = "mem64" -> 4 [] OTHER -> 0
Latch(r, v) ==
  CASE r.kind = "none" -> 0
    [] r.kind = "high" -> v
    [] r.kind = "io" -> (v % IoSpace) - (v % r.size) + Flags(r)
    [] OTHER -> v - (v % r.size) + Flags(r)

\* Where the firmware put slot i's region.
Assigned(l, i) == IF l[i].kind = "high" THEN 0 ELSE Latch(l[i], l[i].size)

Slots == {<<b, d>> : b \in Buses, d \in Devices}
Before(s, t) == s[1] < t[1] \/ (s[1] = t[1] /\ s[2] < t[2])

\* The scan reads no base address register and the probe concerns one function, so that
\* each of the two is varied while the other is fixed.
Init ==
  /\ \/ /\ present \in SUBSET (Buses \X Devices \X Functions)
        /\ multi \in SUBSET {f \in present : f[3] = 0}
        /\ region = [i \in 0 .. (BAR_COUNT - 1) |-> None]
     \/ /\ present = {<<0, 0, 0>>} /\ multi = {}
        /\ region \in Layouts
  /\ bar = [i \in 0 .. (BAR_COUNT - 1) |-> Assigned(region, i)]
  /\ table = <<>> /\ cursor = {}
  /\ pc = "idle" /\ index = 0 /\ original = 0 /\ listed = <<>>
  /\ command = {"parity"} /\ status = {"capabilities", "error"}
-----------------------------------------------------------------------------
\* peripheral_component_interconnect_scan at boot, and again for the console's "pci"
scan ==
  /\ pc = "idle" /\ cursor = {}
  /\ table' = <<>>
  /\ cursor' = Slots
  /\ pc' = "scanning"
  /\ UNCHANGED <<present, multi, region, bar, index, original, listed, command, status>>

\* record_function drops what does not fit.
Record(t, found) == SubSeq(t \o found, 1, IF Len(t) + Len(found) > MAX_DEVICES
                                          THEN MAX_DEVICES ELSE Len(t) + Len(found))

\* The functions are looked for whatever the header type of function 0 says.
FunctionsOfAny(slot) ==
  LET there == {f \in Functions : <<slot[1], slot[2], f>> \in present}
  IN [i \in 1 .. Cardinality(there) |->
        <<slot[1], slot[2], SetToSortSeq(there, LAMBDA x, y : x < y)[i]>>]

\* The functions of one device: only function 0 says whether there are others.
FunctionsOf(slot) ==
  LET f0 == <<slot[1], slot[2], 0>>
      looked == IF f0 \in multi THEN Functions ELSE {0}
      there == {f \in looked : <<slot[1], slot[2], f>> \in present}
  IN IF f0 \notin present THEN <<>>
     ELSE [i \in 1 .. Cardinality(there) |->
             <<slot[1], slot[2], SetToSortSeq(there, LAMBDA x, y : x < y)[i]>>]

ScanDevice ==
  /\ pc = "scanning"
  /\ LET slot == CHOOSE s \in cursor : \A t \in cursor \ {s} : Before(s, t)
     IN /\ table' = Record(table, FunctionsOf(slot))
        /\ cursor' = cursor \ {slot}
        /\ pc' = IF cursor = {slot} THEN "listing" ELSE "scanning"
  /\ index' = 0 /\ listed' = <<>>
  /\ UNCHANGED <<present, multi, region, bar, original, command, status>>

\* read_base_address_register: the register is saved and overwritten with ones ...
ProbeWrite ==
  /\ pc = "listing" /\ index < BAR_COUNT
  /\ original' = bar[index]
  /\ bar' = [bar EXCEPT ![index] = Latch(region[index], Word - 1)]
  /\ pc' = "probing"
  /\ UNCHANGED <<present, multi, table, cursor, region, index, listed, command, status>>

Negated(mask) == (Word - mask) % Word

\* ... read back, and restored before anything is decoded from the two values.
Decoded(probe) ==
  LET is_io == original % 2 = 1
      mask == probe - (probe % (IF is_io THEN 4 ELSE 16))
  IN [index |-> index,
      is_io |-> is_io,
      is_64bit |-> ~is_io /\ (original \div 2) % 4 = 2,
      base |-> original - (original % (IF is_io THEN 4 ELSE 16)),
      size |-> IF mask = 0 THEN 0
               ELSE IF is_io THEN Negated(mask) % IoSpace ELSE Negated(mask)]

\* The register is left as the probe wrote it.
NotRestored == bar

Restored == [bar EXCEPT ![index] = Latch(region[index], original)]

\* write_base_address_registers: an unimplemented slot is passed over, and the high half
\* of a 64-bit one is skipped.
ProbeRead ==
  /\ pc = "probing"
  /\ LET d == Decoded(bar[index])
     IN /\ listed' = IF d.size # 0 THEN Append(listed, d) ELSE listed
        /\ index' = IF d.size # 0 /\ d.is_64bit THEN index + 2 ELSE index + 1
  /\ bar' = Restored
  /\ pc' = "listing"
  /\ UNCHANGED <<present, multi, table, cursor, region, original, command, status>>

EndList ==
  /\ pc = "listing" /\ index >= BAR_COUNT
  /\ pc' = "idle"
  /\ UNCHANGED <<present, multi, table, cursor, region, bar, index, original, listed, command,
                 status>>

\* What a dword write of both halves does to them: the error bits of the status are
\* cleared by writing ones, its other bits are read-only (external).
WriteDword(low, high) ==
  /\ command' = low
  /\ status' = status \ (high \cap {"error"})

\* The low half is replaced instead of merged with what was read.
EnableOnly ==
  /\ pc = "idle"
  /\ WriteDword({"memory", "master"}, status)
  /\ UNCHANGED <<present, multi, table, cursor, region, bar, pc, index, original, listed>>

\* hda.c enables memory and bus mastering with a read and a write of the command word;
\* config_write_word rewrites the status half with what it read.
EnableDevice ==
  /\ pc = "idle"
  /\ WriteDword(command \cup {"memory", "master"}, status)
  /\ UNCHANGED <<present, multi, table, cursor, region, bar, pc, index, original, listed>>

Next == scan \/ ScanDevice \/ ProbeWrite \/ ProbeRead \/ EndList \/ EnableDevice

Spec == Init /\ [][Next]_bvars
-----------------------------------------------------------------------------
\* The variables have their types.
TypeOK ==
  /\ table \in Seq(present) /\ cursor \subseteq Slots
  /\ index \in 0 .. (BAR_COUNT + 1) /\ original \in 0 .. (Word - 1)
  /\ \A i \in DOMAIN bar : bar[i] \in 0 .. (Word - 1)
  /\ pc \in {"idle", "scanning", "listing", "probing"}

\* A function can be reached when function 0 of its device answers and it is that one or
\* the device says it has several.
Reachable == {f \in present : \/ f[3] = 0 \/ <<f[1], f[2], 0>> \in multi}

\* A finished scan holds every reachable function once and nothing else, in bus order,
\* unless there are more than the table takes: then it is full (pci.c:88-147).  A second
\* scan replaces the first.
ScanExact ==
  pc # "scanning" /\ (table # <<>> \/ pc = "listing") =>
    /\ IsInjective(table) /\ Range(table) \subseteq Reachable
    /\ Len(table) < MAX_DEVICES => Range(table) = Reachable
    /\ Len(table) <= MAX_DEVICES
    /\ \A i, j \in DOMAIN table : i < j => table[i][1] <= table[j][1]

\* Probing leaves the device decoding where it did: outside the probe of a register every
\* one of them holds what the firmware assigned, and during it the others do; what was
\* listed is exactly the implemented regions, with their bases and sizes, the high halves
\* of 64-bit registers not taken for regions (pci.c:162-207, pci_helper.c:21-48).
BarsExact ==
  /\ \A i \in DOMAIN bar : bar[i] = Assigned(region, i) \/ (pc = "probing" /\ i = index)
  /\ pc = "listing" /\ index >= BAR_COUNT =>
       {<<listed[i].index, listed[i].is_io, listed[i].is_64bit, listed[i].base, listed[i].size>> :
          i \in DOMAIN listed}
       = {<<i, region[i].kind = "io", region[i].kind = "mem64", region[i].size % IF
             region[i].kind = "io" THEN IoSpace ELSE Word, region[i].size>> :
            i \in {j \in DOMAIN region : region[j].size # 0}}

\* Enabling a device takes away no command bit and no capability bit (hda.c:815-819).
CommandBitsKept == [][command \subseteq command' /\ (status \ {"error"}) \subseteq status']_bvars
=============================================================================
