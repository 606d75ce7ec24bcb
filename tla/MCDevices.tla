----------------------------- MODULE MCDevices ------------------------------
(* The drivers: PCI enumeration, the HDA codec walk, the capture pump, the       *)
(* output limiter, the virtio GPU, drawing on the framebuffer, the serial port,  *)
(* the real-time clock, and input: the interrupt-to-thread byte ring, the        *)
(* keyboard and the mouse behind it, and the console that reads them.  A         *)
(* behaviour runs one of them, its subject, and leaves the others where they     *)
(* start.                                                                        *)
EXTENDS Integers, Sequences

VARIABLES
  subject,            \* the component this behaviour is about
  \* HdaCodec
  machine, hda_step, slot, group, widget, answered, counted, capture_converter, capture_pin,
  playback_converter, playback_pin, outputs_muted, capture_running, corb, wp, rp, rirb, rirbwp,
  rrp, waiting, hda_sent, responses, timeouts, matched, stopped, muted, bound, hda_enabled,
  \* HalAudio
  captured, capture_buffer, half_read, capture_pc, ready, copy, ring, write_index, read_index,
  overruns, moved, capture_taken, last, capture_since,
  gain, clipped, input, output,
  \* VirtioGpu
  gpu_pc, cmd, gpu_sent, chain, avail, doorbell, used, last_used, gpu_taken, work, gpu_step,
  response, pinned, resource, frame, host, shown, goal, presented, completed, concluded,
  \* PortDevices: the serial line
  speed, divisor, initialized, value, radix, serial_buffer, holding, wire,
  \* PortDevices: the clock
  time, phase, mode, rtc_enabled, rtc_pc, first, second, snapshot, rtc_since, updates,
  \* PciBus
  present, multi, table, cursor, region, bar, pci_pc, index, original, listed, pci_command,
  status,
  \* Display
  boot, drawable, screen, image, known, wild,
  \* SystemMonitor
  surface, monitor_phase, scanout, back, now, prev, baseline, monitor_frame, flow, monitor_wild,
  \* IndexRing
  index_ring, head, tail, producer, index_consumer, index_drop_count, out,
  \* Keyboard
  held, caps, keyboard_wire, keyboard_ring, keyboard_drop_count, modifier, caps_lock_state,
  extended_pending, key_down, typed, decoded, strokes,
  \* Mouse
  mouse_machine, configuration, reporting, mouse_output, probe, read_config, mouse_present,
  struck, sent, mouse_wire, mouse_ring, dropped_byte_count, resynchronization_count, mouse_consumer,
  read, popped, torn, last_packet,
  \* Console
  keyboard, serial, keys, framebuffer, term, command, console_pc, done, erased

hda_vars == <<machine, hda_step, slot, group, widget, answered, counted, capture_converter,
              capture_pin, playback_converter, playback_pin, outputs_muted, capture_running,
              corb, wp, rp, rirb, rirbwp, rrp, waiting, hda_sent, responses, timeouts, matched,
              stopped, muted, bound, hda_enabled>>
capture_vars == <<captured, capture_buffer, half_read, capture_pc, ready, copy, ring,
                  write_index, read_index, overruns, moved, capture_taken, last, capture_since>>
limiter_vars == <<gain, clipped, input, output>>
gpu_vars == <<gpu_pc, cmd, gpu_sent, chain, avail, doorbell, used, last_used, gpu_taken, work,
              gpu_step, response, pinned, resource, frame, host, shown, goal, presented,
              completed, concluded>>
serial_vars == <<speed, divisor, initialized, value, radix, serial_buffer, holding, wire>>
rtc_vars == <<time, phase, mode, rtc_enabled, rtc_pc, first, second, snapshot, rtc_since,
              updates>>
pci_vars == <<present, multi, table, cursor, region, bar, pci_pc, index, original, listed,
              pci_command, status>>
display_vars == <<boot, drawable, screen, image, known, wild>>
monitor_vars == <<surface, monitor_phase, scanout, back, now, prev, baseline, monitor_frame, flow,
                  monitor_wild>>
index_vars == <<index_ring, head, tail, producer, index_consumer, index_drop_count, out>>
keyboard_vars == <<held, caps, keyboard_wire, keyboard_ring, keyboard_drop_count, modifier,
                   caps_lock_state, extended_pending, key_down, typed, decoded, strokes>>
mouse_vars == <<mouse_machine, configuration, reporting, mouse_output, probe, read_config,
                mouse_present, struck, sent, mouse_wire, mouse_ring, dropped_byte_count,
                resynchronization_count, mouse_consumer, read, popped, torn, last_packet>>
console_vars == <<keyboard, serial, keys, framebuffer, term, command, console_pc, done, erased>>

\* Codecs of up to four widgets in one or two function groups.
In == [type |-> "input", in |-> FALSE, out |-> FALSE]
Out == [type |-> "output", in |-> FALSE, out |-> FALSE]
Mic == [type |-> "pin", in |-> TRUE, out |-> FALSE]
Speaker == [type |-> "pin", in |-> FALSE, out |-> TRUE]
Jack == [type |-> "pin", in |-> TRUE, out |-> TRUE]
Audio(ws) == [audio |-> TRUE, first |-> 3, widgets |-> ws]
Modem == [audio |-> FALSE, first |-> 9, widgets |-> <<>>]
One(groups) == [s \in {0} |-> groups]
Duplex == One(<<Audio(<<Out, Speaker, In, Mic>>)>>)
AllMachines == {Duplex, One(<<Modem, Audio(<<In, Jack>>)>>), One(<<Audio(<<Out, Speaker>>)>>),
                One(<<Modem>>), One(<<Audio(<<>>)>>),
                [s \in {0, 1} |-> IF s = 0 THEN <<Audio(<<In, Mic>>)>> ELSE <<Modem>>]}
\* The ends of the 16-bit range and both sides of the ceiling and of zero.
EdgeSamples == {-32768, -32767, -8231, -8230, -8229, -1, 0, 1, 8229, 8230, 8231, 32766, 32767}
\* Every nibble and bit pattern's edge: alternating bits and both sides of each width.
Numbers == {0, 9, 10, 85, 128, 170, 255, 256, 4095, 43981, 65535, 65536, 305419896, 1073741823}
\* One second before the hours around midnight, noon and the carries of the tens.
HourEnds == {3600 * h + 3599 : h \in {0, 9, 10, 11, 12, 19, 22, 23}}
\* A mode with a padded pitch and its fields the other way round, a large one, a tiny
\* one, and one of the wrong depth.
Mode(w, h, p, r, b, m) ==
  [flag |-> TRUE, type |-> 1, bpp |-> 32, width |-> w, height |-> h, pitch |-> p, red |-> r,
   green |-> 8, blue |-> b, mask |-> m]
Modes == {Mode(320, 240, 328, 0, 16, 8), Mode(1024, 768, 1024, 16, 0, 0), Mode(3, 2, 4, 0, 16, 8),
          [Mode(320, 240, 320, 16, 0, 8) EXCEPT !.bpp = 24]}
Pink == 16711687
Green == 65280
\* The smallest surface the monitor accepts, with padded rows, a large one, one too flat.
Area(w, h, p) == [width |-> w, height |-> h, pitch |-> p, bpp |-> 32]
Panels == {Area(320, 240, 328), Area(1024, 768, 1024), Area(400, 160, 400)}
\* What the monitor samples: a kernel where nothing is set up, one with every gauge at its
\* end, and one that is half full, whose counters have been started again.
Bare == [free_pages |-> 0, buddy |-> [o \in 1 .. 11 |-> 0], anomaly |-> FALSE,
         small_free_blocks |-> 0, hot_loop_depth |-> 0, size_class |-> [c \in 1 .. 12 |-> 0],
         arena |-> <<>>, pool |-> <<>>, stack |-> <<>>, ring |-> <<>>, pinned_allocated |-> 0,
         pinned_released |-> 0, pci_devices |-> 0]
Full == [free_pages |-> 100, buddy |-> [o \in 1 .. 11 |-> o], anomaly |-> TRUE,
         small_free_blocks |-> 70, hot_loop_depth |-> 9, size_class |-> [c \in 1 .. 12 |-> 500],
         arena |-> [used |-> 65536, cap |-> 65536, peak |-> 65536],
         pool |-> [free |-> 0, cap |-> 64, peak |-> 64],
         stack |-> [used |-> 999, cap |-> 1000, peak |-> 1000],
         ring |-> [count |-> 255, cap |-> 256, high |-> 256, enqueue |-> 258, dequeue |-> 3],
         pinned_allocated |-> 90, pinned_released |-> 1, pci_devices |-> 50]
Half == [Full EXCEPT !.free_pages = 4000, !.anomaly = FALSE, !.small_free_blocks = 60,
                     !.hot_loop_depth = 1, !.arena = <<>>,
                     !.ring = [@ EXCEPT !.count = 4, !.enqueue = 5, !.dequeue = 1],
                     !.pci_devices = 9]
\* The extremes of a signed axis, a byte with bit 3 set (-1) and an overflow.
LoudMoves == {-256, -1, 255, 300}
\* Movements whose byte has bit 3 clear, so that no data byte passes for a header.
QuietMoves == {0, -16}
ExitCommand == <<"x">>

-----------------------------------------------------------------------------
Hda == INSTANCE HdaCodec WITH
  Machines <- AllMachines, Ring <- 4, LateAnswers <- FALSE, step <- hda_step, sent <- hda_sent,
  enabled <- hda_enabled
HalSound == INSTANCE HalAudio WITH
  Chunks <- 2, Ring <- 2, Word <- 4, StepsPerPoll <- 2, StepsPerCopy <- 1, MaxPieces <- 15,
  Samples <- EdgeSamples, Gains <- {0, 1, 250, 999, 1000, 1001, 60000}, Ceiling <- 8230,
  MaxClipped <- 3,
  buffer <- capture_buffer, pc <- capture_pc, taken <- capture_taken, since <- capture_since
\* A device that answers in time, and one that may not, or that may stop.
Gpu == INSTANCE VirtioGpu WITH
  QueueSizes <- {0, 64, 128, 256},
  Refusals <- {"info", "create", "attach", "scanout", "transfer", "flush"},
  PollsTimeOut <- FALSE, Word <- 8, MaxFrames <- 2, MaxSent <- 10, pc <- gpu_pc,
  sent <- gpu_sent, taken <- gpu_taken, step <- gpu_step
SlowGpu == INSTANCE VirtioGpu WITH
  QueueSizes <- {64, 256},
  Refusals <- {"info", "create", "attach", "scanout", "transfer", "flush"},
  PollsTimeOut <- TRUE, Word <- 8, MaxFrames <- 1, MaxSent <- 8, pc <- gpu_pc, sent <- gpu_sent,
  taken <- gpu_taken, step <- gpu_step
Ports == INSTANCE PortDevices WITH
  Base <- 115200, Speeds <- {9600}, Width <- 8, Unsigned <- Numbers,
  Bases <- {0, 2, 10, 16, 17}, buffer <- serial_buffer,
  Starts <- HourEnds, MaxUpdates <- 2, enabled <- rtc_enabled, pc <- rtc_pc, since <- rtc_since
Pci == INSTANCE PciBus WITH
  Buses <- {0, 1}, Devices <- {0, 1}, Functions <- {0, 1}, MAX_DEVICES <- 4, BAR_COUNT <- 3,
  Word <- 64, IoSpace <- 16, MemSizes <- {16, 32}, IoSizes <- {4, 8}, pc <- pci_pc,
  command <- pci_command
Screen == INSTANCE Display WITH
  Boots <- Modes, Colors <- {Pink, Green}, TABLE <- 1024 * 1024, initialized <- drawable
\* The lanes are short enough for a particle to leave after the second frame.
Monitor == INSTANCE SystemMonitor WITH
  Surfaces <- Panels, Machines <- {Bare, Full, Half}, PARTICLES <- 3, LaneEnd <- 30, Blink <- 2,
  Word <- 2^16, MaxFrames <- 4, phase <- monitor_phase, frame <- monitor_frame,
  wild <- monitor_wild
\* The indices wrap at 12, a multiple of the capacity as 2^32 is.
Bytes == INSTANCE IndexRing WITH
  Capacity <- 4, Word <- 12, Values <- {"a", "b"}, MaxDrops <- 2, ring <- index_ring,
  consumer <- index_consumer, drop_count <- index_drop_count
Keys == INSTANCE Keyboard WITH
  Capacity <- 3, MaxStrokes <- 4, wire <- keyboard_wire, ring <- keyboard_ring,
  drop_count <- keyboard_drop_count
LoudMouse == INSTANCE Mouse WITH
  Capacity <- 4, Moves <- LoudMoves, MaxPackets <- 2, Machines <- {"none", "port", "mouse"},
  ScanCodes <- {{}, {"keyboard_interrupt", "auxiliary_clock_off"}}, machine <- mouse_machine,
  output <- mouse_output, present <- mouse_present, wire <- mouse_wire, ring <- mouse_ring,
  consumer <- mouse_consumer, last <- last_packet
QuietMouse == INSTANCE Mouse WITH
  Capacity <- 4, Moves <- QuietMoves, MaxPackets <- 4, Machines <- {"mouse"}, ScanCodes <- {},
  machine <- mouse_machine, output <- mouse_output, present <- mouse_present,
  wire <- mouse_wire, ring <- mouse_ring, consumer <- mouse_consumer, last <- last_packet
\* The console on the text screen, which echoes, and on the framebuffer.
Graphics == INSTANCE Console WITH
  Rows <- 3, Cols <- 3, Letters <- {"x", "y"}, CommandMax <- 3, MaxKeys <- 6, MaxPending <- 2,
  Exit <- ExitCommand, Displays <- {TRUE},
  pc <- console_pc
Text == INSTANCE Console WITH
  Rows <- 3, Cols <- 3, Letters <- {"x", "y"}, CommandMax <- 3, MaxKeys <- 6, MaxPending <- 1,
  Exit <- ExitCommand, Displays <- {FALSE},
  pc <- console_pc

ASSUME ConstantsAssumption ==
  /\ Hda!HdaAssumption
  /\ HalSound!AudioAssumption
  /\ Gpu!GpuAssumption
  /\ SlowGpu!GpuAssumption
  /\ Ports!SerialAssumption
  /\ Ports!ClockAssumption
  /\ Pci!PciAssumption
  /\ Screen!DisplayAssumption
  /\ Monitor!MonitorAssumption
  /\ Bytes!IndexRingAssumption
  /\ Keys!KeyboardAssumption
  /\ LoudMouse!MouseAssumption
  /\ QuietMouse!MouseAssumption
  /\ Graphics!ConsoleAssumption
  /\ Text!ConsoleAssumption
  /\ Graphics!TerminalAssumption
  /\ Text!TerminalAssumption

Subjects == {"hda", "capture", "limiter", "gpu", "slow_gpu", "serial", "rtc", "pci", "display",
             "monitor", "index_ring", "keyboard", "mouse", "quiet_mouse", "graphics", "text"}

vars == <<subject, hda_vars, capture_vars, limiter_vars, gpu_vars, serial_vars, rtc_vars,
          pci_vars, display_vars, monitor_vars, index_vars, keyboard_vars, mouse_vars, console_vars>>

\* A component that is not the subject is in one of its initial states.
Init ==
  /\ subject \in Subjects
  /\ Hda!Init
  /\ subject # "hda" => machine = Duplex
  /\ HalSound!CaptureInit /\ HalSound!LimiterInit
  /\ Gpu!Init
  /\ Ports!SerialInit
  /\ Ports!ClockInit
  /\ subject # "rtc" => time = 3599 /\ mode = [m \in DOMAIN mode |-> FALSE]
  /\ Pci!Init
  /\ subject # "pci" => present = {}
  /\ Screen!Init
  /\ subject # "display" => boot.width = 3
  /\ Monitor!Init
  /\ subject # "monitor" => surface.width = 400
  /\ Bytes!Init
  /\ Keys!Init
  /\ LoudMouse!Init
  /\ subject # "mouse" => mouse_machine = "mouse"
  /\ IF subject = "graphics" THEN Graphics!Init ELSE Text!Init

Others(x) ==
  /\ UNCHANGED subject
  /\ IF x = "hda" THEN TRUE ELSE UNCHANGED hda_vars
  /\ IF x = "capture" THEN TRUE ELSE UNCHANGED capture_vars
  /\ IF x = "limiter" THEN TRUE ELSE UNCHANGED limiter_vars
  /\ IF x \in {"gpu", "slow_gpu"} THEN TRUE ELSE UNCHANGED gpu_vars
  /\ IF x = "serial" THEN TRUE ELSE UNCHANGED serial_vars
  /\ IF x = "rtc" THEN TRUE ELSE UNCHANGED rtc_vars
  /\ IF x = "pci" THEN TRUE ELSE UNCHANGED pci_vars
  /\ IF x = "display" THEN TRUE ELSE UNCHANGED display_vars
  /\ IF x = "monitor" THEN TRUE ELSE UNCHANGED monitor_vars
  /\ IF x = "index_ring" THEN TRUE ELSE UNCHANGED index_vars
  /\ IF x = "keyboard" THEN TRUE ELSE UNCHANGED keyboard_vars
  /\ IF x \in {"mouse", "quiet_mouse"} THEN TRUE ELSE UNCHANGED mouse_vars
  /\ IF x \in {"graphics", "text"} THEN TRUE ELSE UNCHANGED console_vars

\* These run into their bounds and have nothing more to do.
AtBounds ==
  /\ subject \in {"limiter", "gpu", "slow_gpu", "pci", "display", "monitor", "keyboard",
                  "mouse", "quiet_mouse", "text", "graphics"}
  /\ UNCHANGED vars

Next ==
  \/ subject = "hda" /\ Hda!Next /\ Others("hda")
  \/ subject = "capture" /\ HalSound!CaptureNext /\ Others("capture")
  \/ subject = "limiter" /\ HalSound!LimiterNext /\ Others("limiter")
  \/ subject = "gpu" /\ Gpu!Next /\ Others("gpu")
  \/ subject = "slow_gpu" /\ SlowGpu!Next /\ Others("slow_gpu")
  \/ subject = "serial" /\ Ports!SerialNext /\ Others("serial")
  \/ subject = "rtc" /\ Ports!ClockNext /\ Others("rtc")
  \/ subject = "pci" /\ Pci!Next /\ Others("pci")
  \/ subject = "display" /\ Screen!Next /\ Others("display")
  \/ subject = "monitor" /\ Monitor!Next /\ Others("monitor")
  \/ subject = "index_ring" /\ Bytes!Next /\ Others("index_ring")
  \/ subject = "keyboard" /\ Keys!Next /\ Others("keyboard")
  \/ subject = "mouse" /\ LoudMouse!Next /\ Others("mouse")
  \/ subject = "quiet_mouse" /\ QuietMouse!Next /\ Others("quiet_mouse")
  \/ subject = "graphics" /\ Graphics!Next /\ Others("graphics")
  \/ subject = "text" /\ Text!Next /\ Others("text")
  \/ AtBounds

Spec ==
  /\ Init /\ [][Next]_vars
  /\ WF_hda_vars(subject = "hda" /\ Hda!Driver)
  /\ WF_hda_vars(subject = "hda" /\ (Hda!Controller \/ Hda!Stop))
  /\ WF_gpu_vars(subject = "gpu" /\ (Gpu!Bring \/ Gpu!Submit))
  /\ WF_gpu_vars(subject = "gpu" /\ Gpu!Device)
  /\ WF_gpu_vars(subject = "slow_gpu" /\ (SlowGpu!Bring \/ SlowGpu!Submit \/ SlowGpu!TimeOut))
  /\ WF_console_vars(subject = "graphics" /\ Graphics!Tick)
  /\ WF_console_vars(subject = "graphics" /\ Graphics!Poll)
  /\ WF_console_vars(subject = "graphics" /\ Graphics!Halt)
-----------------------------------------------------------------------------
\* What the bring-up of a codec reports is what the codec holds: an answer taken is the
\* answer to the verb just sent, so no field is read from the answer to another question,
\* and every verb is accounted for as answered or timed out; a mute that is counted was
\* obeyed; with every verb answered, each output amplifier of a walked codec is muted;
\* the capture pin is one that takes a signal in; and a running capture stream is bound
\* to the converter that was found.
CodecSetUp ==
  subject = "hda" =>
    /\ Hda!TypeOK
    /\ Hda!AnswerIsOwn /\ Hda!VerbsBalance
    /\ Hda!MutesReal
    /\ Hda!OutputsSilent
    /\ Hda!CapturePinIsInput
    /\ Hda!CaptureBound

\* Every captured frame was taken whole, was dropped and counted, or is still there:
\* none is overwritten while it is copied, and the last frame taken is no further on
\* than the frames taken and dropped before it.
SoundAccounted ==
  subject = "capture" =>
    /\ HalSound!TypeOK
    /\ HalSound!RingAccounted
    /\ HalSound!FramesWhole
    /\ HalSound!LossCounted

\* The drivers' integer arithmetic is right at the ends of its range: no sequence of
\* calls takes a sample past the limiter's ceiling on either side of zero, or raises it
\* or turns it over; and a number written on the serial line is read back as itself
\* once the line is idle (serial.c:38-70; the least integer has no numeral: negating it
\* overflows, serial.c:53).
ArithmeticExact ==
  /\ subject = "limiter" => HalSound!NeverPastCeiling /\ HalSound!GainOnlyLowers
  /\ subject = "serial" => Ports!SerialTypeOK /\ Ports!NumberArrives

\* The device never has work whose buffers have been freed, a display in use is bound
\* to a surface that is still allocated, and one that is not in use holds neither
\* surface nor command buffer, whichever commands were refused and allocations failed
\* on the way.
BuffersPinned ==
  /\ subject = "gpu" =>
       /\ Gpu!TypeOK
       /\ Gpu!OutstandingPinned
       /\ Gpu!ReadyMeansBound
       /\ Gpu!NothingKeptOnFailure
  /\ subject = "slow_gpu" => SlowGpu!TypeOK /\ SlowGpu!NothingKeptOnFailure

\* What is shown is what was drawn: a completion the GPU driver believes in is that of its
\* own command, and present shows the frame that was drawn when it was called, if it says
\* so; and the monitor's frame reaches the framebuffer row by row as it was drawn,
\* although the screen's rows are longer (sysmon.c:46-59).
PresentShowsFrame ==
  /\ subject = "gpu" => Gpu!SubmitMeansDone /\ Gpu!PresentShowsFrame
  /\ subject = "monitor" => Monitor!TypeOK /\ Monitor!FrameShown

\* Every drawing call changes the pixels of its shape that are on the screen, in the
\* colour's own bit positions, and no other, where the shape is cut off by an edge or lies
\* outside too (framebuffer.c:155-336); and each panel, gauge, bar and table of the
\* monitor stays inside its surface on every display it is willing to start on, whatever
\* it samples (sysmon.c:336-505).
DrawingExact ==
  /\ subject = "display" => Screen!TypeOK /\ Screen!DrawingExact
  /\ subject = "monitor" => Monitor!LayoutFits

\* realtime_clock_read_time returns a time the clock showed while the call was reading,
\* in every encoding the firmware may have chosen, although it reads register by
\* register and an update may fall between two reads or under one (rtc.c:133-174).
SnapshotCoherent ==
  /\ [](subject = "rtc" => Ports!ClockTypeOK)
  /\ Ports!SnapshotCoherent

\* A finished scan lists every function that can be reached once, in bus order, or fills
\* its table; the regions listed for one are the ones its BARs implement, with their
\* bases, sizes and kinds, and sizing leaves every BAR as it was, although it overwrites
\* each (pci.c:88-207, pci_helper.c:21-85).  And enabling a device for memory decoding
\* and bus mastering takes away no COMMAND bit and no capability bit (hda.c:813-820).
BusScanned ==
  /\ [](subject = "pci" => Pci!TypeOK /\ Pci!ScanExact /\ Pci!BarsExact)
  /\ Pci!CommandBitsKept

\* Input decodes as it was made, however long decoding is deferred.  No byte is loaded
\* while the handler stores into its slot.  A key gives the character of the modifiers
\* that were down when it was struck, and once every byte is decoded and none was
\* dropped, the modifier states and the held-key bitmap say exactly which keys are down.
\* Until a byte is dropped, the mouse packets returned are the packets sent, each once,
\* in order, whatever the movement bytes look like and wherever the interrupts land
\* between the peeks; and while no movement byte looks like a header, each dropped byte
\* costs at most one packet put together from two.  The probe for the mouse, undisturbed,
\* finds it exactly where there is one and keeps the keyboard's half of the controller's
\* configuration (ps2_mouse.c:170-209).
DecodedAsTyped ==
  /\ subject = "index_ring" => Bytes!TypeOK /\ Bytes!NoTornByte
  /\ subject = "keyboard" => Keys!TypeOK /\ Keys!DecodedAsTyped /\ Keys!StateFollowsKeys
  /\ subject = "mouse" => LoudMouse!TypeOK /\ LoudMouse!PacketsAsSent /\ LoudMouse!ProbeExact
  /\ subject = "quiet_mouse" =>
       /\ QuietMouse!TypeOK
       /\ QuietMouse!PacketsAsSent
       /\ QuietMouse!OneTornPacketPerDrop

\* While nothing on the line has been erased, the characters before the cursor spell
\* the command buffer and follow the prompt, across the line wraps and scrolls of the
\* echo (console.c:246-252, tty.c:117-134); and the terminal erases the last character
\* written wherever the cursor is, on the line before too (tty.c:103-116).
EchoSpellsCommand ==
  /\ subject = "text" => Text!TypeOK /\ Text!EchoSpellsCommand /\ Text!EraseUndoesWrite
  /\ subject = "graphics" => Graphics!TypeOK

\* Every byte that arrives is served.  Each byte the ring accepts is delivered once and in
\* order, with no lock and no shared counter, when the indices wrap too; and the console's
\* loop takes every byte, although the test for pending input and hlt are separate and the
\* serial line raises no interrupt: the next timer tick ends the halt (console.c:199-260).
InputServed ==
  /\ Bytes!RingIsFifo
  /\ subject = "graphics" => Graphics!InputServed

\* The boot does not hang on a device: the audio bring-up and display_init end whatever
\* the controller does, because no verb and no command is awaited for ever.
BringUpEnds ==
  /\ subject = "hda" => Hda!BringUpEnds
  /\ subject = "gpu" => Gpu!InitEnds
  /\ subject = "slow_gpu" => SlowGpu!InitEnds
=============================================================================
