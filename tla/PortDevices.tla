----------------------------- MODULE PortDevices -----------------------------
(***************************************************************************)
(* Two devices that are driven through I/O ports.                          *)
(*                                                                         *)
(* The serial line (serial.c): programming the divisor, and writing        *)
(* numbers, decimal, hexadecimal or binary, one character at a time, each  *)
(* once the holding register is empty.  The numbers of the text terminal   *)
(* and of the system monitor are made the same way and put on a screen.    *)
(*                                                                         *)
(* The CMOS clock (rtc.c).  The device raises update-in-progress a little  *)
(* before it updates, its registers read as anything while it does, and    *)
(* the driver reads them one by one, twice, until the two readings agree.  *)
(* The date registers are one register.  The periodic interrupt stays off, *)
(* as clock_initialize asks for; its handler would move the index port     *)
(* under a reader and is not modelled.                                     *)
(***************************************************************************)
EXTENDS Integers, Sequences, SequencesExt

CONSTANTS Base,        \* BASE_SERIAL_SPEED
          Speeds,      \* the speeds a caller may ask for
          Width,       \* bits of an int32_t
          Unsigned,    \* the unsigned numbers a caller may write
          Bases        \* the bases terminal_write_number may be given

SerialAssumption ==
  /\ Base \in Nat /\ Speeds \subseteq 1..Base
  /\ Width \in Nat \ {0, 1}
  /\ Unsigned \subseteq Nat /\ Bases \subseteq 0..255

IntMin == -(2^(Width - 1))
Int32  == IntMin..(2^(Width - 1) - 1)
Minus  == 16                 \* the characters '-', 'x' and 'b', next to the digits 0..15
Hexa   == 17
Binary == 18
Chars  == 0..Binary

VARIABLES speed, divisor,    \* asked for; the two divisor latches, low and high
          initialized,
          value, radix,      \* the number being written, or written last, and how
          buffer,            \* its characters still to be given to the UART
          holding, wire      \* the transmit holding register; what a reader has seen

port == <<speed, divisor, initialized>>
text == <<value, radix>>
serial_vars == <<port, text, buffer, holding, wire>>

SerialInit ==
  /\ speed = 0 /\ divisor = <<0, 0>> /\ initialized = FALSE
  /\ value = 0 /\ radix = 10 /\ buffer = << >> /\ holding = << >> /\ wire = << >>

\* The port answers the loopback test or it does not.
serial_initialize(s, loopback) ==
  /\ speed = 0 /\ speed' = s
  /\ divisor' = <<(Base \div s) % 256, (Base \div s) % 256>>
  /\ initialized' = loopback
  /\ UNCHANGED <<text, buffer, holding, wire>>

\* The digits of n, most significant first: filled by % base, written backwards.
Digits[n \in Nat, base \in 2..16] ==
  IF n = 0 THEN << >> ELSE Append(Digits[n \div base, base], n % base)

\* Negating the least integer yields itself, and a negative number has no digits.
Negated(i) == IF i = IntMin THEN i ELSE -i

Numeral(i) ==
  IF i = 0 THEN <<0>>
  ELSE LET m == IF i < 0 THEN Negated(i) ELSE i
       IN  (IF i < 0 THEN <<Minus>> ELSE << >>) \o (IF m > 0 THEN Digits[m, 10] ELSE << >>)

\* (i >> bits) & mask; no number of the model has more than 30 bits.
Shifted(i, bits, mask) == IF bits > 30 THEN 0 ELSE (i \div 2^bits) % (mask + 1)

\* The nibbles from the highest down, so that leading zeros are written too.
Hex(i, nibbles) == <<0, Hexa>> \o [j \in 1..nibbles |-> Shifted(i, 4 * (nibbles - j), 15)]

\* The last number has been read from an idle line or screen.
Ready == speed # 0 /\ buffer = << >> /\ holding = << >> /\ wire = << >>

Write(i, base, chars) ==
  /\ Ready
  /\ value' = i /\ radix' = base /\ buffer' = chars
  /\ UNCHANGED <<port, holding, wire>>

serial_write_int(i) == Write(i, 10, Numeral(i))
serial_write_hex8(i) == i < 256 /\ Write(i, 16, Hex(i, 2))
serial_write_hex16(i) == i < 65536 /\ Write(i, 16, Hex(i, 4))
serial_write_hex32(i) == Write(i, 16, Hex(i, 8))
serial_write_hex64(i) == Write(i, 16, Hex(i, 16))
serial_write_binary8(i) ==
  i < 256 /\ Write(i, 2, <<0, Binary>> \o [j \in 1..8 |-> Shifted(i, 8 - j, 1)])

\* Nothing is written in a base out of range.  A negative number is widened after it
\* is negated, so that the least one comes out as a number of 64 bits (here 2 * Width).
terminal_write_number(i, base) ==
  /\ Ready /\ base \in 2..16
  /\ value' = i /\ radix' = base
  /\ LET m == IF i = IntMin THEN 2^(2 * Width) + IntMin ELSE IF i < 0 THEN -i ELSE i IN
     wire' = (IF i < 0 THEN <<Minus>> ELSE << >>)
             \o (IF m = 0 THEN <<0>> ELSE Digits[m, base])
  /\ UNCHANGED <<port, buffer, holding>>

sm_utoa(v) ==
  /\ Ready
  /\ value' = v /\ radix' = 10
  /\ wire' = IF v = 0 THEN <<0>> ELSE Digits[v, 10]
  /\ UNCHANGED <<port, buffer, holding>>

\* serial_write_char's busy wait ends when the holding register is empty.
serial_write_char ==
  /\ buffer # << >> /\ holding = << >>
  /\ holding' = <<Head(buffer)>> /\ buffer' = Tail(buffer)
  /\ UNCHANGED <<port, text, wire>>

\* External: the UART shifts a character out.
Transmit ==
  /\ holding # << >>
  /\ wire' = wire \o holding /\ holding' = << >>
  /\ UNCHANGED <<port, text, buffer>>

\* External: what was written is read, and the reader waits for the next number.
Receive ==
  /\ buffer = << >> /\ holding = << >> /\ wire # << >>
  /\ value' = 0 /\ radix' = 10 /\ wire' = << >>
  /\ UNCHANGED <<port, buffer, holding>>

SerialNext ==
  \/ \E s \in Speeds, ok \in BOOLEAN : serial_initialize(s, ok)
  \/ \E i \in Int32 : \/ serial_write_int(i)
                      \/ \E base \in Bases : terminal_write_number(i, base)
  \/ \E i \in Unsigned : \/ serial_write_hex8(i) \/ serial_write_hex16(i)
                         \/ serial_write_hex32(i) \/ serial_write_hex64(i)
                         \/ serial_write_binary8(i) \/ sm_utoa(i)
  \/ serial_write_char \/ Transmit \/ Receive

SerialSpec == SerialInit /\ [][SerialNext]_serial_vars
-----------------------------------------------------------------------------
(* What the registers and buffers hold. *)
SerialTypeOK ==
  /\ speed \in {0} \cup Speeds /\ divisor \in (0..255) \X (0..255)
  /\ initialized \in BOOLEAN /\ value \in Int32 \cup Unsigned /\ radix \in 2..16
  /\ buffer \in Seq(Chars) /\ wire \in Seq(Chars)
  /\ holding \in {<< >>} \cup {<<c>> : c \in Chars}

Magnitude(w) == FoldLeft(LAMBDA n, d : radix * n + d, 0, w)
Prefixed(w) == Len(w) > 1 /\ w[2] \in {Hexa, Binary}
Read(w) ==
  IF Head(w) = Minus THEN -Magnitude(Tail(w))
  ELSE IF Prefixed(w) THEN Magnitude(SubSeq(w, 3, Len(w))) ELSE Magnitude(w)

(* A number written on the line or the screen is read back as itself, in   *)
(* its base, once the line is idle: no character is lost to the holding    *)
(* register, no digit falls off the end of a fixed width, the prefix is    *)
(* that of the base, and only a number with a prefix has leading zeros     *)
(* (serial.c:38-149, tty.c:137-170, sysmon.c:231-243).  The least integer  *)
(* has no numeral: negating it overflows (serial.c:53, tty.c:149).         *)
NumberArrives ==
  buffer = << >> /\ holding = << >> /\ wire # << >> /\ value # IntMin
    => /\ Read(wire) = value
       /\ Prefixed(wire) => wire[2] = (IF radix = 16 THEN Hexa ELSE Binary)
       /\ Head(wire) = 0 => value = 0 \/ Prefixed(wire)

(* The divisor latches hold the divisor of the speed asked for, so that    *)
(* the line runs at that speed (serial.c:23-24).                           *)
LineSpeed == speed # 0 => divisor[1] + 256 * divisor[2] = Base \div speed

-----------------------------------------------------------------------------
(* The CMOS clock.                                                          *)

CONSTANTS Starts,       \* seconds since midnight at which the machine may boot
          MaxUpdates    \* bound on the updates of the clock

ClockAssumption == Starts \subseteq 0..86399 /\ MaxUpdates \in Nat

VARIABLES time,         \* seconds since midnight of day 1
          phase,        \* the device: "stable", "soon" or "updating"
          mode,         \* register B: periodic, binary, hours24
          enabled,      \* realtime_clock_periodic_interrupt_enabled
          pc, first, second,   \* where the reader is and its two readings
          snapshot,     \* what realtime_clock_read_time returned
          since,        \* the time when the reading pass began
          updates       \* updates begun in this pass, and in all

device == <<time, phase, updates>>
reader == <<pc, first, second, snapshot, since>>
clock_vars == <<device, mode, enabled, reader>>

Registers == 4          \* second, minute, hour, date
Modes == [periodic : BOOLEAN, binary : BOOLEAN, hours24 : BOOLEAN]
-----------------------------------------------------------------------------
(* How the device encodes a time, and how the driver decodes it *)

Fields(t) == << t % 60, (t \div 60) % 60, (t \div 3600) % 24, 1 + (t \div 86400) >>

Encoded(m, v) == IF m.binary THEN v ELSE 16 * (v \div 10) + (v % 10)

\* Without hours24 the hours run from 12, 1 to 11, with bit 7 set after noon.
EncodedHour(m, h) ==
  IF m.hours24 THEN Encoded(m, h)
  ELSE Encoded(m, IF h % 12 = 0 THEN 12 ELSE h % 12) + (IF h >= 12 THEN 128 ELSE 0)

Contents(m, t) ==
  [r \in 1..Registers |-> IF r = 3 THEN EncodedHour(m, Fields(t)[3])
                                   ELSE Encoded(m, Fields(t)[r])]

bcd_to_binary(v) == (v % 16) + (v \div 16) * 10

Converted(m, raw) ==
  LET plain(v) == IF m.binary THEN v ELSE bcd_to_binary(v)
      hour == plain(raw[3] % 128)
      pm   == raw[3] >= 128
  IN  << plain(raw[1]), plain(raw[2]),
         IF m.hours24 THEN hour
         ELSE IF pm /\ hour < 12 THEN hour + 12
         ELSE IF ~pm /\ hour = 12 THEN 0 ELSE hour,
         plain(raw[4]) >>
-----------------------------------------------------------------------------
ClockInit ==
  /\ time \in Starts /\ phase = "stable" /\ updates = [pass |-> 0, all |-> 0]
  /\ mode \in Modes /\ enabled = FALSE
  /\ pc = "boot" /\ first = << >> /\ second = << >>
  /\ snapshot = << >> /\ since = time

\* realtime_clock_initialize, then set_periodic_interrupt_enabled(0), interrupts off.
Initialize ==
  /\ pc = "boot" /\ pc' = "idle"
  /\ mode' = [mode EXCEPT !.periodic = FALSE]
  /\ enabled' = FALSE
  /\ UNCHANGED <<device, first, second, snapshot, since>>
-----------------------------------------------------------------------------
(* The device.  It updates once a second, and two readings take far less,  *)
(* so one pass of the reader meets at most one update.                     *)

UpdateSoon ==
  /\ phase = "stable" /\ phase' = "soon"
  /\ updates.all < MaxUpdates
  /\ pc \notin {"boot", "idle"} => updates.pass = 0
  /\ updates' = [pass |-> updates.pass + 1, all |-> updates.all + 1]
  /\ UNCHANGED <<time, mode, enabled, reader>>

UpdateStart ==
  /\ phase = "soon" /\ phase' = "updating"
  /\ UNCHANGED <<time, updates, mode, enabled, reader>>

UpdateEnd ==
  /\ phase = "updating" /\ phase' = "stable"
  /\ time' = time + 1
  /\ UNCHANGED <<updates, mode, enabled, reader>>

\* What reading register r may return: while the device updates, any of a few values.
Values(r) ==
  IF phase # "updating" THEN {Contents(mode, time)[r]}
  ELSE {Contents(mode, time)[r], Contents(mode, time + 1)[r], 0}
-----------------------------------------------------------------------------
(* realtime_clock_read_time *)

is_update_in_progress == phase # "stable"

BeginPass ==
  /\ first' = << >> /\ second' = << >>
  /\ since' = time
  /\ updates' = [updates EXCEPT !.pass = IF phase = "stable" THEN 0 ELSE 1]

Call ==
  /\ pc = "idle" /\ pc' = "wait1"
  /\ BeginPass
  /\ UNCHANGED <<time, phase, mode, enabled, snapshot>>

WaitFirst ==
  /\ pc = "wait1" /\ ~is_update_in_progress /\ pc' = "read1"
  /\ UNCHANGED <<device, mode, enabled, first, second, snapshot, since>>

ReadFirst ==
  /\ pc = "read1"
  /\ \E v \in Values(Len(first) + 1) : first' = Append(first, v)
  /\ pc' = IF Len(first) + 1 = Registers THEN "wait2" ELSE pc
  /\ UNCHANGED <<device, mode, enabled, second, snapshot, since>>

WaitSecond ==
  /\ pc = "wait2" /\ ~is_update_in_progress /\ pc' = "read2"
  /\ UNCHANGED <<device, mode, enabled, first, second, snapshot, since>>

ReadSecond ==
  /\ pc = "read2" /\ Len(second) < Registers
  /\ \E v \in Values(Len(second) + 1) : second' = Append(second, v)
  /\ UNCHANGED <<device, mode, enabled, pc, first, snapshot, since>>

AcceptAny ==
  /\ pc = "read2" /\ Len(second) = Registers
  /\ pc' = "idle" /\ snapshot' = Converted(mode, second)
  /\ UNCHANGED <<device, first, second, since, mode, enabled>>

\* The end of the do loop: another pass, or the conversion of the second reading.
Compare ==
  /\ pc = "read2" /\ Len(second) = Registers
  /\ \/ /\ first # second /\ pc' = "wait1"
        /\ BeginPass
        /\ UNCHANGED <<time, phase, snapshot>>
     \/ /\ first = second /\ pc' = "idle"
        /\ snapshot' = Converted(mode, second)
        /\ UNCHANGED <<device, first, second, since>>
  /\ UNCHANGED <<mode, enabled>>

ClockNext ==
  \/ Initialize \/ UpdateSoon \/ UpdateStart \/ UpdateEnd
  \/ Call \/ WaitFirst \/ ReadFirst \/ WaitSecond \/ ReadSecond \/ Compare

ClockSpec == ClockInit /\ [][ClockNext]_clock_vars
-----------------------------------------------------------------------------
(* The device and the reader hold values of their kinds. *)
ClockTypeOK ==
  /\ time \in Nat /\ since \in Nat /\ mode \in Modes /\ enabled \in BOOLEAN
  /\ phase \in {"stable", "soon", "updating"}
  /\ updates \in [pass : 0..MaxUpdates, all : 0..MaxUpdates]
  /\ pc \in {"boot", "idle", "wait1", "read1", "wait2", "read2"}
  /\ {Len(first), Len(second)} \subseteq 0..Registers
  /\ Len(snapshot) \in {0, Registers}

(* realtime_clock_read_time returns a time the clock showed while the call *)
(* was reading, in every encoding the firmware may have chosen, although   *)
(* it reads register by register and an update may fall between two reads  *)
(* or under one (rtc.c:133-174).                                           *)
SnapshotCoherent ==
  [][pc = "read2" /\ pc' = "idle" => \E t \in since..time : snapshot' = Fields(t)]_clock_vars
=============================================================================
