------------------------------- MODULE Mouse --------------------------------
(***************************************************************************)
(* The PS/2 mouse (ps2_mouse.c): the device sends three-byte packets, the  *)
(* interrupt handler rings each byte or drops it, and                      *)
(* personal_system_2_mouse_try_pop_packet assembles packets with separate  *)
(* peeks between which more interrupts land.  The byte ring is the bounded *)
(* FIFO IndexRing implements; each ringed byte also carries the number and *)
(* the movement of the packet it was sent in, which the code cannot see.   *)
(*                                                                         *)
(* Before that the driver probes for the device with interrupts off.  The  *)
(* controller's configuration is the set of its bits; a scan code that     *)
(* waits in the output buffer is a byte like any other, hence such a set.  *)
(***************************************************************************)
EXTENDS Integers, Sequences

CONSTANTS Capacity,    \* PERSONAL_SYSTEM_2_MOUSE_RING_CAPACITY
          Moves,       \* movements of an axis, some outside -256 .. 255
          MaxPackets,  \* bound on the packets sent
          Machines,    \* which of "none", "port" (no device on it) and "mouse" to probe
          ScanCodes    \* scan codes of keys struck during the probe, as sets of bits

\* The controller's configuration at boot, and the bits that are the mouse's.
Booted == {"keyboard_interrupt", "translation", "auxiliary_clock_off"}
MouseBits == {"auxiliary_interrupt", "auxiliary_clock_off"}
Acknowledge == {"acknowledge"}

MouseAssumption ==
  /\ Capacity \in Nat \ {0} /\ Moves \subseteq Int /\ MaxPackets \in Nat
  /\ Machines \subseteq {"none", "port", "mouse"} /\ Acknowledge \notin ScanCodes

Bit(b, weight) == (b \div weight) % 2 = 1
Overflows(d) == d \notin -256 .. 255

VARIABLES machine, configuration, reporting,   \* the controller and the device
          output,      \* the bytes in the controller's output buffer
          probe,       \* the next call of personal_system_2_mouse_initialize
          read_config, \* configuration, the driver's local
          present,     \* personal_system_2_mouse_present
          struck,      \* history: a key was struck during the probe
          sent,        \* packets the device has begun to send
          wire,        \* bytes the device has yet to deliver
          ring,        \* personal_system_2_mouse_ring between tail and head
          dropped_byte_count, resynchronization_count,
          consumer,    \* where try_pop_packet is
          read,        \* the bytes peeked so far: flags, raw_x
          popped,      \* packets returned
          torn,        \* packets returned whose bytes are not of one packet
          last         \* the last packet returned and the bytes it came from

probing == <<machine, configuration, reporting, output, probe, read_config, present, struck>>
vars == <<probing, sent, wire, ring, dropped_byte_count, resynchronization_count,
          consumer, read, popped, torn, last>>

Init ==
  /\ machine \in Machines /\ configuration = Booted /\ reporting = FALSE
  /\ output = << >> /\ probe = "enable" /\ read_config = {} /\ present = FALSE
  /\ struck = FALSE
  /\ sent = 0 /\ wire = << >> /\ ring = << >>
  /\ dropped_byte_count = 0 /\ resynchronization_count = 0
  /\ consumer = "header" /\ read = << >>
  /\ popped = 0 /\ torn = 0
  /\ last = [delta_x |-> 0, delta_y |-> 0, from |-> << >>]
-----------------------------------------------------------------------------
(* personal_system_2_mouse_initialize *)

packets == <<sent, wire, ring, dropped_byte_count, resynchronization_count, consumer, read,
             popped, torn, last>>

\* A wait runs out of its budget where there is no controller: its status reads as ones.
wait_for_input_clear == machine # "none"
wait_for_output_full == output # << >>

Fail == probe' = "failed" /\ UNCHANGED <<machine, configuration, reporting, output, read_config,
                                         present, struck, packets>>

write_command(from, to, answer) ==
  /\ probe = from
  /\ IF wait_for_input_clear
     THEN /\ probe' = to /\ output' = output \o answer
          /\ UNCHANGED <<machine, configuration, reporting, read_config, present, struck, packets>>
     ELSE Fail

EnableAuxiliary == write_command("enable", "ask", << >>)
AskConfiguration == write_command("ask", "read", <<configuration>>)

ReadConfiguration ==
  /\ probe = "read"
  /\ IF wait_for_output_full
     THEN /\ read_config' = (Head(output) \cup {"auxiliary_interrupt"}) \ {"auxiliary_clock_off"}
          /\ output' = Tail(output) /\ probe' = "write"
          /\ UNCHANGED <<machine, configuration, reporting, present, struck, packets>>
     ELSE Fail

\* The waits of this write and of the later ones end as that of EnableAuxiliary did.
WriteConfiguration ==
  /\ probe = "write"
  /\ configuration' = read_config /\ probe' = "defaults"
  /\ UNCHANGED <<machine, reporting, output, read_config, present, struck, packets>>

\* The device answers what it is sent, if there is one.  A key struck between the write
\* and the read leaves its code before the answer or after it, as Strike does.
mouse_send(from, to, on) ==
  /\ probe = from
  /\ LET answers == output \o (IF machine = "mouse" THEN <<Acknowledge>> ELSE << >>) IN
     /\ output' = IF answers = << >> THEN << >> ELSE Tail(answers)
     /\ probe' = IF answers # << >> /\ Head(answers) = Acknowledge THEN to ELSE "failed"
  /\ reporting' = (reporting \/ (on /\ machine = "mouse"))
  /\ UNCHANGED <<machine, configuration, read_config, present, struck, packets>>

SetDefaults == mouse_send("defaults", "reports", FALSE)
EnableReports == mouse_send("reports", "install", TRUE)

\* The handler, the masks of lines 2 and 12, and the flag.
Install ==
  /\ probe = "install" /\ probe' = "done" /\ present' = TRUE
  /\ UNCHANGED <<machine, configuration, reporting, output, read_config, struck, packets>>

\* External: a key is struck while interrupts are off, and its scan code waits.
Strike(code) ==
  /\ probe \notin {"done", "failed"} /\ machine # "none" /\ ~struck
  /\ output' = Append(output, code) /\ struck' = TRUE
  /\ UNCHANGED <<machine, configuration, reporting, probe, read_config, present, packets>>
-----------------------------------------------------------------------------
\* The three bytes of a report: bit 3 of the first is always set, bits 4 and 5
\* hold the signs and bits 6 and 7 the overflows.
Report(dx, dy) ==
  << 8 + (IF dx < 0 THEN 16 ELSE 0) + (IF dy < 0 THEN 32 ELSE 0)
       + (IF Overflows(dx) THEN 64 ELSE 0) + (IF Overflows(dy) THEN 128 ELSE 0),
     dx % 256, dy % 256 >>

DeviceMoves(dx, dy) ==
  /\ present /\ ~struck   \* packets are followed after a probe no key disturbed
  /\ wire = << >> /\ sent < MaxPackets
  /\ sent' = sent + 1
  /\ wire' = [i \in 1 .. 3 |-> [byte |-> Report(dx, dy)[i], of |-> sent + 1,
                                dx |-> dx, dy |-> dy]]
  /\ UNCHANGED <<probing, ring, dropped_byte_count, resynchronization_count,
                 consumer, read, popped, torn, last>>

Full == Len(ring) >= Capacity

\* personal_system_2_mouse_interrupt_handler
Interrupt ==
  /\ wire # << >>
  /\ wire' = Tail(wire)
  /\ IF Full
     THEN dropped_byte_count' = dropped_byte_count + 1 /\ UNCHANGED ring
     ELSE ring' = Append(ring, Head(wire)) /\ UNCHANGED dropped_byte_count
  /\ UNCHANGED <<probing, sent, resynchronization_count, consumer, read, popped, torn, last>>
-----------------------------------------------------------------------------
(* personal_system_2_mouse_try_pop_packet *)

\* Mutant: any byte is taken for a header.
AnyByte(b) == TRUE
\* Bit 3 of the first byte is always set.
IsHeader(b) == Bit(b, 8)

\* A byte that cannot be a header is skipped.
Resynchronize ==
  /\ consumer = "header" /\ ring # << >>
  /\ ~IsHeader(Head(ring).byte)
  /\ ring' = Tail(ring)
  /\ resynchronization_count' = resynchronization_count + 1
  /\ UNCHANGED <<probing, sent, wire, dropped_byte_count, consumer, read, popped, torn, last>>

PeekHeader ==
  /\ consumer = "header" /\ ring # << >>
  /\ IsHeader(Head(ring).byte)
  /\ consumer' = "x" /\ read' = <<ring[1]>>
  /\ UNCHANGED <<probing, sent, wire, ring, dropped_byte_count, resynchronization_count,
                 popped, torn, last>>

\* The second and the third peek; an incomplete packet is left in the ring.
PeekRest ==
  /\ consumer \in {"x", "y"}
  /\ IF Len(ring) <= Len(read)
     THEN consumer' = "header" /\ read' = << >>
     ELSE /\ consumer' = (IF consumer = "x" THEN "y" ELSE "take")
          /\ read' = Append(read, ring[Len(read) + 1])
  /\ UNCHANGED <<probing, sent, wire, ring, dropped_byte_count, resynchronization_count,
                 popped, torn, last>>

\* Sign extension from the flags, and zero for an overflowed axis.
Delta(flags, raw, sign, overflow) ==
  IF Bit(flags, overflow) THEN 0 ELSE IF Bit(flags, sign) THEN raw - 256 ELSE raw

RestAfterPacket == SubSeq(ring, 4, Len(ring))

TakePacket ==
  /\ consumer = "take"
  /\ ring' = RestAfterPacket
  /\ LET flags == read[1].byte
     IN last' = [delta_x |-> Delta(flags, read[2].byte, 16, 64),
                 delta_y |-> Delta(flags, read[3].byte, 32, 128),
                 from    |-> read]
  /\ popped' = popped + 1
  /\ torn' = IF read[1].of = read[2].of /\ read[2].of = read[3].of THEN torn ELSE torn + 1
  /\ consumer' = "header" /\ read' = << >>
  /\ UNCHANGED <<probing, sent, wire, dropped_byte_count, resynchronization_count>>
-----------------------------------------------------------------------------
Next == \/ EnableAuxiliary \/ AskConfiguration \/ ReadConfiguration \/ WriteConfiguration
        \/ SetDefaults \/ EnableReports \/ Install
        \/ \E code \in ScanCodes : Strike(code)
        \/ \E dx, dy \in Moves : DeviceMoves(dx, dy)
        \/ Interrupt \/ Resynchronize \/ PeekHeader \/ PeekRest \/ TakePacket

Spec == Init /\ [][Next]_vars
-----------------------------------------------------------------------------
RingedBytes == [byte : 0 .. 255, of : 1 .. MaxPackets, dx : Moves, dy : Moves]

\* Every variable keeps its type; the ring never holds more than its capacity.
TypeOK ==
  /\ machine \in Machines /\ reporting \in BOOLEAN /\ present \in BOOLEAN /\ struck \in BOOLEAN
  /\ probe \in {"enable", "ask", "read", "write", "defaults", "reports", "install", "done",
                "failed"}
  /\ sent \in 0 .. MaxPackets
  /\ wire \in Seq(RingedBytes) /\ Len(wire) <= 3
  /\ ring \in Seq(RingedBytes) /\ Len(ring) <= Capacity
  /\ dropped_byte_count \in Nat /\ resynchronization_count \in Nat
  /\ consumer \in {"header", "x", "y", "take"}
  /\ read \in Seq(RingedBytes) /\ Len(read) <= 3
  /\ popped \in Nat /\ torn \in Nat
  /\ last.delta_x \in -256 .. 255 /\ last.delta_y \in -256 .. 255

\* The probe leaves the keyboard's bits of the configuration as they were and finds the
\* mouse exactly where there is one that reports, unless a scan code was waiting to be
\* taken for an answer; even then a mouse said to be present is one that reports.
ProbeExact ==
  /\ present => machine = "mouse" /\ reporting
  /\ ~struck => /\ configuration \ MouseBits = Booted \ MouseBits
                /\ probe = "done" => configuration \cap MouseBits = {"auxiliary_interrupt"}
                /\ probe = "failed" => machine # "mouse"

Meant(d) == IF Overflows(d) THEN 0 ELSE d

\* Until a byte is dropped, the packets returned are the packets sent, each once,
\* in order, with the movement the device meant; no byte is skipped, whatever the
\* movement bytes look like and wherever the interrupts land between the peeks.
PacketsAsSent ==
  dropped_byte_count = 0 =>
    /\ resynchronization_count = 0 /\ torn = 0
    /\ popped > 0 =>
         /\ last.from[1].of = popped
         /\ last.delta_x = Meant(last.from[1].dx) /\ last.delta_y = Meant(last.from[1].dy)

\* While no movement byte looks like a header, each dropped byte costs at most one
\* packet put together from two: bit 3 finds the next header again.
OneTornPacketPerDrop == torn <= dropped_byte_count
=============================================================================
