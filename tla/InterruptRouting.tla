--------------------------- MODULE InterruptRouting ---------------------------
(***************************************************************************)
(* Which controller an interrupt comes from and which one is acknowledged: *)
(* the handlers of irq.c, keyboard.c and ps2_mouse.c, the hand-off of the  *)
(* keyboard line to the IOAPIC (core/kernel.c) and of the tick to the      *)
(* local APIC timer (apic_timer.c), and the satellite's tickless sleep     *)
(* (power/tickless.c), which stops that timer.                             *)
(*                                                                         *)
(* The boot code is preempted between any two of its steps.  A handler     *)
(* runs behind an interrupt gate on the one CPU that takes these lines, so *)
(* from its delivery to its end of interrupt it is one step.               *)
(***************************************************************************)
EXTENDS Integers, FiniteSets, FiniteSetsExt

CONSTANTS Client,       \* LPL_KERNEL_REAL_TIME_MODE: hand the lines to the APICs
          Satellite,    \* kernel_satellite_app_run is called after the boot
          CalTicks,     \* the PIT ticks a calibration lasts (8 in the code)
          ClockHz, SatelliteHz   \* 100 and 1000 in the code

RoutingAssumption ==
  /\ Client \in BOOLEAN /\ Satellite \in BOOLEAN
  /\ CalTicks \in Nat /\ ClockHz \in Nat /\ SatelliteHz \in Nat

Timer == 0
Key == 1
Cascade == 2
MouseLine == 12
Lines == {Timer, Key, Cascade, MouseLine}

VARIABLES picIrr, picIsr, picMask,   \* the two 8259s, by line
          lapicIrr, lapicIsr,        \* the local APIC, by line (vector 32 + line)
          lapicTimer,                \* "off", "oneshot" or "periodic"
          route,                     \* the IOAPIC entry of the keyboard is unmasked
          timer_owner_is_apic, apic_owned_lines,
          apic,                      \* the local APIC is mapped
          calibrated, periods,       \* calibration succeeded; its ticks so far
          permitted,                 \* tickless_permitted
          hz,                        \* the cadence of the source that ticks
          tick,                      \* interrupt_request_tick_count modulo 2
          routing_pc,
          raced                      \* history: a hand-off was interrupted by its new owner

pic == <<picIrr, picIsr, picMask>>
lapic == <<lapicIrr, lapicIsr, lapicTimer>>
owners == <<timer_owner_is_apic, apic_owned_lines>>
routing_vars == <<pic, lapic, route, owners, apic, calibrated, periods, permitted, hz, tick, routing_pc, raced>>

(* clock_initialize, before interrupts are enabled *)

\* The two 8259s are set up with nothing requested or in service.
programmable_interrupt_controller_initialize == picIrr = {} /\ picIsr = {}

interrupt_request_mask_all == Lines
clear_mask(mask, l) == mask \ {l}
set_mask(mask, l) == mask \cup {l}

\* personal_system_2_mouse_initialize unmasks the cascade and its line when a mouse answered.
MouseUnmasked(mask, mouse) == IF mouse THEN clear_mask(clear_mask(mask, Cascade), MouseLine) ELSE mask

PitInput == 1193182
frequency_to_divisor(f) == Max({1, Min({65535, PitInput \div Max({1, f})})})
PitFrequency(f) == PitInput \div frequency_to_divisor(f)

\* The APIC backend always declines, so the PIT is the source.
clock_initialize == hz = PitFrequency(ClockHz)

RoutingInit ==
  /\ programmable_interrupt_controller_initialize
  /\ \E mouse \in BOOLEAN :
       picMask = clear_mask(clear_mask(MouseUnmasked(interrupt_request_mask_all, mouse), Timer), Key)
  /\ lapicIrr = {} /\ lapicIsr = {} /\ lapicTimer = "off"
  /\ route = FALSE /\ timer_owner_is_apic = FALSE /\ apic_owned_lines = {}
  /\ apic = FALSE /\ calibrated = FALSE /\ periods = 0
  /\ permitted = FALSE /\ clock_initialize /\ tick = 0
  /\ routing_pc = "late" /\ raced = FALSE
-----------------------------------------------------------------------------
(* The devices *)

\* The PIT keeps its line going whoever owns the tick.
PitTick ==
  /\ Timer \notin picIrr /\ picIrr' = picIrr \cup {Timer}
  /\ UNCHANGED <<picIsr, picMask, lapic, route, owners, apic, calibrated, periods, permitted,
                 hz, tick, routing_pc, raced>>

KeyPress ==
  /\ picIrr' = picIrr \cup {Key}
  /\ lapicIrr' = IF route THEN lapicIrr \cup {Key} ELSE lapicIrr
  /\ UNCHANGED <<picIsr, picMask, lapicIsr, lapicTimer, route, owners, apic, calibrated, periods,
                 permitted, hz, tick, routing_pc, raced>>

MouseMove ==
  /\ picIrr' = picIrr \cup {MouseLine}
  /\ UNCHANGED <<picIsr, picMask, lapic, route, owners, apic, calibrated, periods, permitted,
                 hz, tick, routing_pc, raced>>

LapicTick ==
  /\ lapicTimer # "off" /\ Timer \notin lapicIrr
  /\ lapicIrr' = lapicIrr \cup {Timer}
  /\ lapicTimer' = IF lapicTimer = "oneshot" THEN "off" ELSE lapicTimer
  /\ UNCHANGED <<pic, lapicIsr, route, owners, apic, calibrated, periods, permitted, hz, tick,
                 routing_pc, raced>>
-----------------------------------------------------------------------------
(* Delivery, handler and end of interrupt *)

Master(S) == {l \in S : l < 8}
Slave(S) == S \ Master(S)
WithoutFirst(S) == S \ {l \in S : \A k \in S : l <= k}

\* A request goes through when nothing of its priority or above is in service; the
\* slave's lines come through the cascade.
PicReady(l) ==
  /\ l \in picIrr \ picMask
  /\ l < 8 => \A k \in Master(picIsr) : k > l
  /\ l >= 8 => /\ Cascade \notin picMask
               /\ \A k \in Master(picIsr) : k > Cascade
               /\ \A k \in Slave(picIsr) : k > l

Accepted(l) == picIsr \cup {l} \cup (IF l >= 8 THEN {Cascade} ELSE {})

\* programmable_interrupt_controller_send_end_of_interrupt is not specific: each
\* controller drops its first line in service.
PicEoi(l, isr) ==
  WithoutFirst(Master(isr)) \cup (IF l >= 8 THEN WithoutFirst(Slave(isr)) ELSE Slave(isr))

\* All of these vectors are of one priority class: one in service holds back the others.
LapicReady(l) == l \in lapicIrr /\ lapicIsr = {}
LapicEoi(isr) == isr \ {l \in isr : \A k \in isr : l >= k}

\* What the handler of a line asks before its end of interrupt.
OwnerIsApic(l) == IF l = Timer THEN timer_owner_is_apic ELSE l \in apic_owned_lines

\* Every delivery ends a halt, and the tick's handler counts.
Handled(l) ==
  /\ tick' = IF l = Timer THEN 1 - tick ELSE tick
  /\ periods' = IF l = Timer /\ routing_pc = "calibrate" /\ periods <= CalTicks THEN periods + 1 ELSE periods
  /\ routing_pc' = IF routing_pc = "halted" THEN "woken" ELSE routing_pc
  /\ UNCHANGED <<picMask, lapicTimer, route, owners, apic, calibrated, permitted, hz>>

PicDelivers(l) ==
  /\ PicReady(l)
  /\ picIrr' = picIrr \ {l}
  /\ picIsr' = IF OwnerIsApic(l) THEN Accepted(l) ELSE PicEoi(l, Accepted(l))
  /\ lapicIsr' = IF OwnerIsApic(l) THEN LapicEoi(lapicIsr) ELSE lapicIsr
  /\ Handled(l) /\ UNCHANGED <<lapicIrr, raced>>

\* The boot code is between the first and the last step of the line's hand-off.
InHandoff(l) == IF l = Timer THEN routing_pc \in {"mask0", "own0"} ELSE routing_pc \in {"mask1", "own1"}

LapicDelivers(l) ==
  /\ LapicReady(l)
  /\ lapicIrr' = lapicIrr \ {l}
  /\ lapicIsr' = IF OwnerIsApic(l) THEN LapicEoi(lapicIsr \cup {l}) ELSE lapicIsr \cup {l}
  /\ picIsr' = IF OwnerIsApic(l) THEN picIsr ELSE PicEoi(l, picIsr)
  /\ raced' = (raced \/ InHandoff(l))
  /\ Handled(l) /\ UNCHANGED picIrr

is_in_service(l) == l \in picIsr

\* Of a spurious line 15 only the cascade is acknowledged, of line 7 nothing.
AfterSpurious(l) ==
  LET isr == picIsr \cup (IF l = 15 THEN {Cascade} ELSE {})
  IN IF is_in_service(l) THEN PicEoi(l, isr) ELSE IF l = 15 THEN PicEoi(Cascade, isr) ELSE isr

\* A request that went away before its acknowledge cycle shows up as line 7 or 15.
Spurious(l) ==
  /\ l = 15 => Cascade \notin picMask /\ \A k \in Master(picIsr) : k > Cascade
  /\ picIsr' = AfterSpurious(l)
  /\ routing_pc' = IF routing_pc = "halted" THEN "woken" ELSE routing_pc
  /\ UNCHANGED <<picIrr, picMask, lapic, route, owners, apic, calibrated, periods, permitted,
                 hz, tick, raced>>
-----------------------------------------------------------------------------
(* The boot code, kernel.c *)

Goto(p) == routing_pc' = p

\* What CPUID and the APIC base register may say of the boot processor.
Cpus == [apic : BOOLEAN, enabled : BOOLEAN, x2apic_mode : BOOLEAN, base : {0, 4}]

\* advanced_pic_timer_backend_initialize: the base it keeps, 0 for an APIC it will not use.
probed_base(cpu) == IF cpu.apic /\ cpu.enabled /\ ~cpu.x2apic_mode THEN cpu.base ELSE 0

\* paging_map_page may find no frame for a page table.
map_local_apic_mmio(base, frame) == base # 0 /\ frame

LateInitialize(cpu, frame) ==
  /\ routing_pc = "late"
  /\ apic' = map_local_apic_mmio(probed_base(cpu), frame)
  /\ Goto(CASE ~apic' -> "run" [] apic' /\ Client -> "route" [] OTHER -> "calibrate")
  /\ UNCHANGED <<pic, lapic, route, owners, calibrated, periods, permitted, hz, tick, raced>>

\* enable_isa_route fails when the MADT or the routing scaffold gave no route.
EnableRoute(found) ==
  /\ routing_pc = "route"
  /\ route' = found /\ Goto(IF found THEN "mask1" ELSE "calibrate")
  /\ UNCHANGED <<pic, lapic, owners, apic, calibrated, periods, permitted, hz, tick, raced>>

\* programmable_interrupt_controller_set_mask: no handler writes the mask.
SetMask(l, from, to) ==
  /\ routing_pc = from /\ Goto(to)
  /\ picMask' = set_mask(picMask, l)
  /\ UNCHANGED <<picIrr, picIsr, lapic, route, owners, apic, calibrated, periods, permitted, hz,
                 tick, raced>>

SetKeyboardOwner ==
  /\ routing_pc = "own1" /\ Goto("calibrate")
  /\ apic_owned_lines' = apic_owned_lines \cup {Key}
  /\ UNCHANGED <<pic, lapic, route, timer_owner_is_apic, apic, calibrated, periods, permitted, hz,
                 tick, raced>>

\* One tick to start on, CalTicks to measure; zero elapsed counts is a failure.
Calibrate(progress) ==
  /\ routing_pc = "calibrate" /\ periods = CalTicks + 1
  /\ calibrated' = progress
  /\ Goto(IF progress /\ Client THEN "start" ELSE "run")
  /\ UNCHANGED <<pic, lapic, route, owners, apic, periods, permitted, hz, tick, raced>>

\* The divider, the LVT entry and the count; from the last write on it runs.
StartPeriodic(f) ==
  /\ lapicTimer' = "periodic" /\ hz' = f /\ Goto("mask0")
  /\ UNCHANGED <<pic, lapicIrr, lapicIsr, owners>>

EnablePeriodic ==
  /\ \/ routing_pc = "start" /\ StartPeriodic(ClockHz)
     \/ routing_pc = "restart" /\ StartPeriodic(SatelliteHz)
  /\ UNCHANGED <<route, apic, calibrated, periods, permitted, tick, raced>>

\* Mutant: the owner is not recorded.
TimerOwnerForgotten ==
  /\ routing_pc = "own0" /\ Goto("run")
  /\ UNCHANGED <<pic, lapic, route, owners, apic, calibrated, periods, permitted, hz, tick, raced>>

SetTimerOwner ==
  /\ routing_pc = "own0" /\ Goto("run")
  /\ timer_owner_is_apic' = TRUE
  /\ UNCHANGED <<pic, lapic, route, apic_owned_lines, apic, calibrated, periods, permitted, hz,
                 tick, raced>>
-----------------------------------------------------------------------------
(* The satellite, tickless.c *)

\* A timer register reached through the mapping, when there is one.
apic_write(mode) == lapicTimer' = IF apic THEN mode ELSE lapicTimer

advanced_pic_timer_backend_disable == apic_write("off")

\* Without a calibration nothing is armed.
arm_one_shot == IF calibrated THEN apic_write("oneshot") ELSE UNCHANGED lapicTimer

TicklessEnable ==
  /\ routing_pc = "run" /\ Satellite /\ ~permitted
  /\ advanced_pic_timer_backend_disable
  /\ permitted' = TRUE /\ Goto("satellite")
  /\ UNCHANGED <<pic, lapicIrr, lapicIsr, route, owners, apic, calibrated, periods, hz, tick, raced>>

\* When nothing was armed the core just halts.
TicklessSleep ==
  /\ routing_pc = "satellite"
  /\ arm_one_shot
  /\ Goto("armed")
  /\ UNCHANGED <<pic, lapicIrr, lapicIsr, route, owners, apic, calibrated, periods, permitted, hz,
                 tick, raced>>

Halt ==
  /\ routing_pc = "armed" /\ Goto("halted")
  /\ UNCHANGED <<pic, lapic, route, owners, apic, calibrated, periods, permitted, hz, tick, raced>>

Woken ==
  /\ routing_pc = "woken" /\ Goto("satellite")
  /\ IF calibrated THEN advanced_pic_timer_backend_disable ELSE UNCHANGED lapicTimer
  /\ UNCHANGED <<pic, lapicIrr, lapicIsr, route, owners, apic, calibrated, periods, permitted, hz,
                 tick, raced>>

\* Mutant: permission is withdrawn and the periodic timer forgotten.
ForgetPeriodic ==
  /\ routing_pc = "satellite" /\ Goto("run")
  /\ permitted' = FALSE
  /\ UNCHANGED <<pic, lapic, route, owners, apic, calibrated, periods, hz, tick, raced>>

\* kernel_tickless_disable; enable_periodic_mode refuses without a calibration and
\* makes the PIT the owner again.
TicklessDisable ==
  /\ routing_pc = "satellite"
  /\ permitted' = FALSE
  /\ Goto(IF calibrated THEN "restart" ELSE "run")
  /\ timer_owner_is_apic' = (calibrated /\ timer_owner_is_apic)
  /\ UNCHANGED <<pic, lapic, route, apic_owned_lines, apic, calibrated, periods, hz, tick, raced>>

MainStep ==
  \/ \E cpu \in Cpus, frame \in BOOLEAN : LateInitialize(cpu, frame)
  \/ \E found \in BOOLEAN : EnableRoute(found)
  \/ SetMask(Key, "mask1", "own1") \/ SetKeyboardOwner
  \/ \E progress \in BOOLEAN : Calibrate(progress)
  \/ EnablePeriodic \/ SetMask(Timer, "mask0", "own0") \/ SetTimerOwner
  \/ TicklessSleep \/ Halt \/ Woken \/ TicklessDisable

RoutingNext ==
  \/ PitTick \/ KeyPress \/ MouseMove \/ LapicTick
  \/ \E l \in {Timer, Key, MouseLine} : PicDelivers(l)
  \/ \E l \in {Timer, Key} : LapicDelivers(l)
  \/ \E l \in {7, 15} : Spurious(l)
  \/ MainStep \/ TicklessEnable

\* The timers run, a request that can be delivered is, and the boot CPU executes its
\* code; keys, mouse, spurious interrupts and the satellite's start come or not.
RoutingSpec ==
  /\ RoutingInit /\ [][RoutingNext]_routing_vars
  /\ WF_routing_vars(PitTick) /\ WF_routing_vars(LapicTick) /\ WF_routing_vars(MainStep)
  /\ WF_routing_vars(PicDelivers(Timer)) /\ WF_routing_vars(LapicDelivers(Timer))
-----------------------------------------------------------------------------
\* The controllers hold known lines and the program counter a known step.
RoutingTypeOK ==
  /\ picIrr \subseteq Lines /\ picIsr \subseteq Lines /\ picMask \subseteq Lines
  /\ lapicIrr \subseteq {Timer, Key} /\ lapicIsr \subseteq {Timer, Key}
  /\ lapicTimer \in {"off", "oneshot", "periodic"}
  /\ route \in BOOLEAN /\ timer_owner_is_apic \in BOOLEAN /\ apic_owned_lines \subseteq {Key}
  /\ apic \in BOOLEAN /\ calibrated \in BOOLEAN /\ periods \in 0 .. CalTicks + 1
  /\ permitted \in BOOLEAN /\ hz \in {PitFrequency(ClockHz), ClockHz, SatelliteHz} /\ tick \in {0, 1}
  /\ routing_pc \in {"late", "route", "mask1", "own1", "calibrate", "start", "restart", "mask0", "own0", "run",
                     "satellite", "armed", "halted", "woken"}
  /\ raced \in BOOLEAN

\* Whatever is handed over, and in whichever moment an interrupt comes, the 8259s are
\* left with nothing in service once a handler has returned: no line of theirs, the
\* mouse's included, is ever blocked.
PicAcknowledged == picIsr = {}

\* A line whose owner is an APIC is masked on the 8259 first, so no interrupt of it is
\* ever handled twice.
OwnerIsOnlySource ==
  /\ timer_owner_is_apic => Timer \in picMask
  /\ Key \in apic_owned_lines => Key \in picMask /\ route

\* As long as no hand-off was interrupted by the new owner, the local APIC has nothing
\* in service once a handler has returned.
LapicAcknowledgedUnlessRaced == ~raced => lapicIsr = {}

\* Whatever is handed over, and in whichever moment an interrupt comes, each interrupt is
\* acknowledged at the controller it came from: the 8259s are left with nothing in service
\* once a handler has returned, and so is the local APIC unless a hand-off was interrupted
\* by the new owner; a line whose owner is an APIC is masked on the 8259 first.
Acknowledged ==
  RoutingTypeOK /\ PicAcknowledged /\ OwnerIsOnlySource /\ LapicAcknowledgedUnlessRaced

\* As long as no hand-off was interrupted by the new owner, the tick goes on for ever,
\* except while the satellite has stopped it.
TicksKeepComing == []~raced => \A b \in {0, 1} : []<>(tick = b \/ permitted)

\* irq.c: a handler acknowledges the controller that delivered the interrupt.
LapicAcknowledged == lapicIsr = {}

\* tickless.h: the deadline is the latest the caller wakes.
SleepEnds == []~raced => (routing_pc = "halted" ~> routing_pc # "halted")

\* tickless.h: the sleep has no tick in it, so the periodic source is silent.
NoTickInSleep == routing_pc = "halted" => Timer \in picMask /\ lapicTimer # "periodic"

\* tickless.h: disabling tickless operation restores the periodic timer.
CadenceRestored == routing_pc = "run" => hz = ClockHz
=============================================================================
