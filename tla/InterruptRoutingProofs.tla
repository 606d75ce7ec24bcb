----------------------- MODULE InterruptRoutingProofs -----------------------
(***************************************************************************)
(* Every interrupt is acknowledged where it came from, for every build and *)
(* every length of the calibration, in whichever moment of the hand-offs   *)
(* and of the tickless sleep it comes.                                     *)
(*                                                                         *)
(* That the 8259s are left with nothing in service rests on the order of a *)
(* hand-off: the line is masked before its owner is recorded.  That the    *)
(* local APIC is rests on more: it requests a line only if the line is its *)
(* own or is being handed over, which needs what the calibration and the   *)
(* sleep say of the timer.                                                 *)
(***************************************************************************)
EXTENDS InterruptRouting, TLAPS

\* A line is masked on the 8259 by the time the boot code records its owner.
MaskInv ==
  /\ routing_pc \in {"late", "route"} => ~route /\ apic_owned_lines = {}
  /\ routing_pc \in {"mask1", "own1"} => route
  /\ routing_pc = "own1" => Key \in picMask
  /\ routing_pc = "own0" => Timer \in picMask

PicInv == RoutingTypeOK /\ PicAcknowledged /\ OwnerIsOnlySource /\ MaskInv

\* The IOAPIC requests the keyboard's line only once it is routed, and then the line is
\* the APIC's or being handed over.
RouteInv ==
  /\ Key \in lapicIrr => route
  /\ route => Key \in apic_owned_lines \/ routing_pc \in {"mask1", "own1"}

\* The local APIC's timer runs only once it is calibrated, and then the tick is the
\* APIC's or being handed over.
TimerInv ==
  /\ routing_pc \in {"late", "route", "mask1", "own1", "calibrate"} => ~calibrated
  /\ routing_pc = "start" => Client
  /\ routing_pc \in {"satellite", "armed", "halted", "woken", "restart"} => Satellite
  /\ routing_pc \in {"start", "restart", "mask0", "own0"} => calibrated
  /\ ~calibrated \/ ~Client => lapicTimer = "off" /\ Timer \notin lapicIrr
  /\ calibrated /\ Client => timer_owner_is_apic \/ routing_pc \in {"start", "mask0", "own0"}
  /\ routing_pc = "start" => lapicTimer = "off" /\ Timer \notin lapicIrr

LapicInv == RouteInv /\ TimerInv /\ LapicAcknowledgedUnlessRaced
-----------------------------------------------------------------------------
USE DEF Timer, Key, Cascade, MouseLine, Lines

\* The end of interrupt that a handler sends to the 8259s drops the line just accepted,
\* and the cascade with the slave's; with nothing in service it drops nothing.
LEMMA PicEoiEffect ==
  /\ \A l \in {Timer, Key, Cascade} : PicEoi(l, {l}) = {}
  /\ PicEoi(MouseLine, {MouseLine, Cascade}) = {}
  /\ \A l \in {Timer, Key, Cascade, MouseLine} : PicEoi(l, {}) = {}
BY DEF PicEoi, WithoutFirst, Master, Slave

\* So does the local APIC's.
LEMMA LapicEoiEffect ==
  /\ LapicEoi({}) = {}
  /\ \A l \in {Timer, Key} : LapicEoi({l}) = {}
BY DEF LapicEoi

\* A spurious line 7 or 15 leaves nothing in service.
LEMMA SpuriousEffect ==
  ASSUME PicAcknowledged, NEW l \in {7, 15} PROVE AfterSpurious(l) = {}
BY PicEoiEffect DEF PicAcknowledged, AfterSpurious, is_in_service

\* The 8259s start with nothing requested or in service, and with no line handed over.
LEMMA PicInit == ASSUME RoutingAssumption PROVE RoutingInit => PicInv
<1> SUFFICES ASSUME RoutingInit PROVE PicInv
  OBVIOUS
<1>1. RoutingTypeOK
  <2>1. picMask \subseteq Lines
    BY DEF RoutingInit, clear_mask, MouseUnmasked, interrupt_request_mask_all
  <2>2. hz = PitFrequency(ClockHz) /\ picIrr = {} /\ picIsr = {} /\ periods \in 0 .. CalTicks + 1
    BY DEF RoutingInit, clock_initialize, programmable_interrupt_controller_initialize, RoutingAssumption
  <2>3. /\ route \in BOOLEAN /\ timer_owner_is_apic \in BOOLEAN /\ apic \in BOOLEAN
        /\ calibrated \in BOOLEAN /\ permitted \in BOOLEAN /\ raced \in BOOLEAN
    BY DEF RoutingInit
  <2>4. /\ lapicIrr = {} /\ lapicIsr = {} /\ lapicTimer = "off" /\ apic_owned_lines = {}
        /\ tick = 0 /\ routing_pc = "late"
    BY DEF RoutingInit
  <2> QED
    BY <2>1, <2>2, <2>3, <2>4 DEF RoutingTypeOK
<1> QED
  BY <1>1 DEF RoutingInit, PicInv, PicAcknowledged, OwnerIsOnlySource, MaskInv,
              programmable_interrupt_controller_initialize

\* No step leaves a line in service at the 8259s, and the boot code records an owner only
\* after the mask.
LEMMA PicStep == ASSUME RoutingAssumption, PicInv, [RoutingNext]_routing_vars PROVE PicInv'
<1> USE DEF PicInv, RoutingTypeOK, PicAcknowledged, OwnerIsOnlySource, MaskInv, pic, lapic, owners, Goto
<1>0. CalTicks \in Nat /\ Client \in BOOLEAN /\ Satellite \in BOOLEAN
  BY DEF RoutingAssumption
<1> USE <1>0
<1>1. CASE PitTick
  BY <1>1 DEF PitTick
<1>2. CASE KeyPress
  BY <1>2 DEF KeyPress
<1>3. CASE MouseMove
  BY <1>3 DEF MouseMove
<1>4. CASE LapicTick
  BY <1>4 DEF LapicTick
<1>5. ASSUME NEW l \in {Timer, Key, MouseLine}, PicDelivers(l) PROVE PicInv'
  <2>1. ~OwnerIsApic(l)
    BY <1>5 DEF PicDelivers, PicReady, OwnerIsApic
  <2>2. picIsr' = {}
    <3>1. picIsr' = PicEoi(l, Accepted(l))
      BY <1>5, <2>1 DEF PicDelivers
    <3>2. Accepted(l) = IF l = MouseLine THEN {MouseLine, Cascade} ELSE {l}
      BY DEF Accepted
    <3> QED
      BY <3>1, <3>2, PicEoiEffect
  <2> QED
    BY <1>5, <2>1, <2>2 DEF PicDelivers, Handled
<1>6. ASSUME NEW l \in {Timer, Key}, LapicDelivers(l) PROVE PicInv'
  <2>1. picIsr' = {}
    BY <1>6, PicEoiEffect DEF LapicDelivers
  <2>2. lapicIsr' \subseteq {Timer, Key}
    BY <1>6 DEF LapicDelivers, LapicEoi
  <2>3. raced' \in BOOLEAN /\ lapicIrr' \subseteq {Timer, Key} /\ picIrr' = picIrr
    BY <1>6 DEF LapicDelivers, InHandoff
  <2>4. /\ tick' \in {0, 1} /\ periods' \in 0 .. CalTicks + 1 /\ (routing_pc' = routing_pc \/ routing_pc' = "woken")
        /\ UNCHANGED <<picMask, lapicTimer, route, owners, apic, calibrated, permitted, hz>>
    BY <1>6 DEF LapicDelivers, Handled
  <2> QED
    BY <2>1, <2>2, <2>3, <2>4
<1>7. ASSUME NEW l \in {7, 15}, Spurious(l) PROVE PicInv'
  BY <1>7, SpuriousEffect DEF Spurious
<1>8. ASSUME NEW cpu \in Cpus, NEW frame \in BOOLEAN, LateInitialize(cpu, frame) PROVE PicInv'
  BY <1>8 DEF LateInitialize, map_local_apic_mmio
<1>9. ASSUME NEW found \in BOOLEAN, EnableRoute(found) PROVE PicInv'
  BY <1>9 DEF EnableRoute
<1>10. CASE SetMask(Key, "mask1", "own1")
  BY <1>10 DEF SetMask, set_mask
<1>11. CASE SetKeyboardOwner
  BY <1>11 DEF SetKeyboardOwner
<1>12. ASSUME NEW progress \in BOOLEAN, Calibrate(progress) PROVE PicInv'
  BY <1>12 DEF Calibrate
<1>13. CASE EnablePeriodic
  <2>1. /\ UNCHANGED <<pic, lapicIrr, lapicIsr, route, owners, apic, calibrated, periods, permitted,
                       tick, raced>>
        /\ lapicTimer' = "periodic" /\ routing_pc' = "mask0" /\ hz' \in {ClockHz, SatelliteHz}
    BY <1>13 DEF EnablePeriodic, StartPeriodic
  <2> QED
    BY <2>1
<1>14. CASE SetMask(Timer, "mask0", "own0")
  BY <1>14 DEF SetMask, set_mask
<1>15. CASE SetTimerOwner
  BY <1>15 DEF SetTimerOwner
<1>16. CASE TicklessSleep
  BY <1>16 DEF TicklessSleep, arm_one_shot, apic_write
<1>17. CASE Halt
  BY <1>17 DEF Halt
<1>18. CASE Woken
  BY <1>18 DEF Woken, advanced_pic_timer_backend_disable, apic_write
<1>19. CASE TicklessDisable
  <2>1. timer_owner_is_apic' \in BOOLEAN /\ (timer_owner_is_apic' => timer_owner_is_apic)
    BY <1>19, Zenon DEF TicklessDisable
  <2>2. routing_pc' \in {"restart", "run"} /\ permitted' = FALSE /\ routing_pc = "satellite"
    BY <1>19 DEF TicklessDisable
  <2>3. UNCHANGED <<pic, lapic, route, apic_owned_lines, apic, calibrated, periods, hz, tick, raced>>
    BY <1>19 DEF TicklessDisable
  <2>4. RoutingTypeOK'
    <3>1. RoutingTypeOK /\ routing_pc' \in {"restart", "run"} /\ permitted' \in BOOLEAN
      BY <2>2
    <3> QED
      BY <2>1, <2>3, <3>1 DEF RoutingTypeOK
  <2>5. MaskInv' /\ PicAcknowledged'
    BY <2>2, <2>3
  <2>6. OwnerIsOnlySource'
    <3>1. UNCHANGED <<picMask, route, apic_owned_lines>>
      BY <2>3
    <3> QED
      BY <2>1, <3>1, Zenon
  <2> QED
    BY <2>4, <2>5, <2>6
<1>20. CASE TicklessEnable
  BY <1>20 DEF TicklessEnable, advanced_pic_timer_backend_disable, apic_write
<1>21. CASE UNCHANGED routing_vars
  BY <1>21 DEF routing_vars
<1> HIDE DEF PicInv
<1> QED
  BY <1>1, <1>2, <1>3, <1>4, <1>5, <1>6, <1>7, <1>8, <1>9, <1>10, <1>11, <1>12, <1>13, <1>14,
     <1>15, <1>16, <1>17, <1>18, <1>19, <1>20, <1>21 DEF RoutingNext, MainStep

\* Every request of the local APIC is for a line it owns or is being given, in a build
\* that hands the tick over before the satellite's sleep uses the local APIC's timer.
LEMMA LapicStep ==
  ASSUME RoutingAssumption, Satellite => Client, PicInv, LapicInv, [RoutingNext]_routing_vars PROVE LapicInv'
<1> USE DEF PicInv, RoutingTypeOK, MaskInv, LapicInv, RouteInv, TimerInv, LapicAcknowledgedUnlessRaced,
            pic, lapic, owners, Goto
<1>0. Client \in BOOLEAN /\ Satellite \in BOOLEAN
  BY DEF RoutingAssumption
<1> USE <1>0
<1>1. CASE PitTick
  BY <1>1 DEF PitTick
<1>2. CASE KeyPress
  BY <1>2 DEF KeyPress
<1>3. CASE MouseMove
  BY <1>3 DEF MouseMove
<1>4. CASE LapicTick
  BY <1>4 DEF LapicTick
<1>5. ASSUME NEW l \in {Timer, Key, MouseLine}, PicDelivers(l) PROVE LapicInv'
  <2>1. lapicIsr' = lapicIsr \/ lapicIsr' = LapicEoi(lapicIsr)
    BY <1>5 DEF PicDelivers
  <2>2. lapicIsr = {} => lapicIsr' = {}
    BY <2>1, LapicEoiEffect
  <2>3. /\ UNCHANGED <<lapicIrr, raced, lapicTimer, route, owners, calibrated>>
        /\ routing_pc' = routing_pc \/ (routing_pc = "halted" /\ routing_pc' = "woken")
    BY <1>5 DEF PicDelivers, Handled
  <2> QED
    BY <2>2, <2>3
<1>6. ASSUME NEW l \in {Timer, Key}, LapicDelivers(l) PROVE LapicInv'
  <2>1. ~raced' => OwnerIsApic(l)
    BY <1>6 DEF LapicDelivers, LapicReady, OwnerIsApic, InHandoff
  <2>2. ~raced' => lapicIsr' = {}
    <3>1. ASSUME ~raced' PROVE lapicIsr' = LapicEoi({l})
      BY <1>6, <2>1, <3>1 DEF LapicDelivers, LapicReady
    <3> QED
      BY <3>1, LapicEoiEffect
  <2>3. /\ UNCHANGED <<lapicTimer, route, owners, calibrated>> /\ lapicIrr' \subseteq lapicIrr
        /\ routing_pc' = routing_pc \/ (routing_pc = "halted" /\ routing_pc' = "woken")
    BY <1>6 DEF LapicDelivers, Handled
  <2> QED
    BY <2>2, <2>3
<1>7. ASSUME NEW l \in {7, 15}, Spurious(l) PROVE LapicInv'
  BY <1>7 DEF Spurious
<1>8. ASSUME NEW cpu \in Cpus, NEW frame \in BOOLEAN, LateInitialize(cpu, frame) PROVE LapicInv'
  BY <1>8 DEF LateInitialize
<1>9. ASSUME NEW found \in BOOLEAN, EnableRoute(found) PROVE LapicInv'
  BY <1>9 DEF EnableRoute
<1>10. CASE SetMask(Key, "mask1", "own1")
  BY <1>10 DEF SetMask
<1>11. CASE SetKeyboardOwner
  BY <1>11 DEF SetKeyboardOwner
<1>12. ASSUME NEW progress \in BOOLEAN, Calibrate(progress) PROVE LapicInv'
  BY <1>12 DEF Calibrate
<1>13. CASE EnablePeriodic
  BY <1>13 DEF EnablePeriodic, StartPeriodic
<1>14. CASE SetMask(Timer, "mask0", "own0")
  BY <1>14 DEF SetMask
<1>15. CASE SetTimerOwner
  BY <1>15 DEF SetTimerOwner
<1>16. CASE TicklessSleep
  BY <1>16 DEF TicklessSleep, arm_one_shot, apic_write
<1>17. CASE Halt
  BY <1>17 DEF Halt
<1>18. CASE Woken
  BY <1>18 DEF Woken, advanced_pic_timer_backend_disable, apic_write
<1>19. CASE TicklessDisable
  BY <1>19 DEF TicklessDisable
<1>20. CASE TicklessEnable
  BY <1>20 DEF TicklessEnable, advanced_pic_timer_backend_disable, apic_write
<1>21. CASE UNCHANGED routing_vars
  BY <1>21 DEF routing_vars
<1> HIDE DEF LapicInv
<1> QED
  BY <1>1, <1>2, <1>3, <1>4, <1>5, <1>6, <1>7, <1>8, <1>9, <1>10, <1>11, <1>12, <1>13, <1>14,
     <1>15, <1>16, <1>17, <1>18, <1>19, <1>20, <1>21 DEF RoutingNext, MainStep

\* In every build, whatever is handed over and in whichever moment an interrupt comes, the
\* 8259s are left with nothing in service once a handler has returned (irq.c, keyboard.c,
\* ps2_mouse.c), and a line whose owner is an APIC is masked on them first.
THEOREM PicTheorem ==
  ASSUME RoutingAssumption
  PROVE  RoutingSpec => [](RoutingTypeOK /\ PicAcknowledged /\ OwnerIsOnlySource)
<1>1. RoutingInit => PicInv
  BY PicInit
<1>2. PicInv /\ [RoutingNext]_routing_vars => PicInv'
  BY PicStep
<1>3. PicInv => RoutingTypeOK /\ PicAcknowledged /\ OwnerIsOnlySource
  BY DEF PicInv
<1> QED
  BY <1>1, <1>2, <1>3, PTL DEF RoutingSpec

\* In a build that hands the tick to the local APIC, or that never runs the satellite's
\* sleep, every interrupt is acknowledged where it came from: the local APIC too is left
\* with nothing in service, unless a hand-off was interrupted by the new owner.
THEOREM AcknowledgedTheorem ==
  ASSUME RoutingAssumption, Satellite => Client
  PROVE  RoutingSpec => []Acknowledged
<1>1. RoutingInit => PicInv /\ LapicInv
  BY PicInit DEF RoutingInit, LapicInv, RouteInv, TimerInv, LapicAcknowledgedUnlessRaced
<1>2. (PicInv /\ LapicInv) /\ [RoutingNext]_routing_vars => (PicInv /\ LapicInv)'
  BY PicStep, LapicStep
<1>3. PicInv /\ LapicInv => Acknowledged
  BY DEF PicInv, LapicInv, Acknowledged
<1> QED
  BY <1>1, <1>2, <1>3, PTL DEF RoutingSpec
=============================================================================
