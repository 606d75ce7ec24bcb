--------------------------- MODULE ProcessorSleep ---------------------------
(***************************************************************************)
(* processor_sleep.c and frequency_scaling.c as satellite_app.c uses them: *)
(* a processor that sleeps until a device writes a word or an interrupt    *)
(* arrives, accounts for its time asleep and awake, and asks for the clock *)
(* its measured load deserves.                                             *)
(*                                                                         *)
(* The device and the interrupts are actors of their own and act between   *)
(* any two steps of the processor.  A monitor that is armed remembers a    *)
(* write; an interrupt that arrives while the processor runs is handled    *)
(* there and wakes nobody later.                                           *)
(***************************************************************************)
EXTENDS Integers

CONSTANTS Ratios,         \* the bus ratios a processor may be found at
          MaxTime,        \* bound: the timestamp counter
          MaxWrites,      \* bound: writes of the device
          MaxCalls        \* bound: calls that sleep or skip

SleepAssumption == Ratios \subseteq Nat /\ MaxTime \in Nat \ {0} /\ MaxWrites \in Nat /\ MaxCalls \in Nat

VARIABLES now,            \* the timestamp counter, never zero
          monitor_available, available, maximum_ratio, ratio,
          sleep_pc, sleep_before, expected,
          word,           \* the watched word: the number of the device's writes
          monitor,        \* "off", "armed", or "spent" by a write
          sleeps, skipped, halts, asleep, awake, last_wake,
          start           \* when the accounting began, 0 until it has

machine == <<monitor_available, available, maximum_ratio>>
account == <<sleeps, skipped, halts, asleep, awake, last_wake, start>>
sleep_vars == <<now, machine, ratio, sleep_pc, sleep_before, expected, word, monitor, account>>

\* Scaling is offered by SpeedStep and needs a ratio to scale from: the one it is found at.
FindScaling ==
  \E speedstep \in BOOLEAN : \E found \in Ratios :
    /\ ratio = found
    /\ maximum_ratio = (IF speedstep THEN found ELSE 0)
    /\ available = (speedstep /\ found # 0)

\* MONITOR is trusted only with a line size.
SleepInit ==
  /\ now = 1 /\ word = 0 /\ monitor = "off" /\ sleep_pc = "awake" /\ sleep_before = 0 /\ expected = 0
  /\ \E advertised \in BOOLEAN, line \in {0, 64} : monitor_available = (advertised /\ line # 0)
  /\ FindScaling
  /\ sleeps = 0 /\ skipped = 0 /\ halts = 0 /\ asleep = 0 /\ awake = 0 /\ last_wake = 0 /\ start = 0

Pass == now < MaxTime /\ now' = now + 1 /\ UNCHANGED <<machine, ratio, sleep_pc, sleep_before, expected, word, monitor, account>>

\* The device writes the watched word, which an armed monitor sees.
DeviceWrites ==
  /\ word < MaxWrites /\ word' = word + 1
  /\ monitor' = IF monitor = "armed" THEN "spent" ELSE monitor
  /\ UNCHANGED <<now, machine, ratio, sleep_pc, sleep_before, expected, account>>

\* processor_sleep_charge_awake
ChargeAwake ==
  /\ awake' = IF last_wake # 0 /\ now > last_wake THEN awake + (now - last_wake) ELSE awake
  /\ start' = IF start = 0 THEN now ELSE start

\* A sleep begins: the caller has seen the word at some value and calls with it.
UntilWrite ==
  /\ sleep_pc = "awake" /\ sleeps + skipped < MaxCalls /\ sleep_before' = now /\ ChargeAwake
  /\ expected' \in 0 .. word
  /\ sleep_pc' = IF monitor_available THEN "arm" ELSE "recheck"
  /\ UNCHANGED <<now, machine, ratio, word, monitor, sleeps, skipped, halts, asleep, last_wake>>

\* processor_sleep_until_interrupt, also what a call without an address comes to.
UntilInterrupt ==
  /\ sleep_pc = "awake" /\ sleeps + skipped < MaxCalls /\ sleep_before' = now /\ ChargeAwake
  /\ sleeps' = sleeps + 1 /\ halts' = halts + 1
  /\ sleep_pc' = "halted"
  /\ UNCHANGED <<now, machine, ratio, expected, word, monitor, skipped, asleep, last_wake>>

ArmAndGo == sleep_pc = "arm" /\ monitor' = "armed" /\ sleep_pc' = "recheck"
\* Mutant: MWAIT follows MONITOR at once, the word is not read again.
ArmAndSleep == /\ sleep_pc = "arm" /\ monitor' = "armed" /\ sleep_pc' = "waiting" /\ sleeps' = sleeps + 1
               /\ UNCHANGED <<now, machine, ratio, sleep_before, expected, word, skipped, halts, asleep, awake,
                              last_wake, start>>
Arm == ArmAndGo /\ UNCHANGED <<now, machine, ratio, sleep_before, expected, word, account>>

\* Mutant: a skipped sleep leaves the last wake-up where it was.
KeepLastWake == UNCHANGED last_wake
SkipRestarts == last_wake' = sleep_before

\* The word is read again, after arming where there is a monitor.
Recheck ==
  /\ sleep_pc = "recheck"
  /\ IF word # expected
     THEN /\ skipped' = skipped + 1 /\ SkipRestarts /\ sleep_pc' = "awake" /\ UNCHANGED <<sleeps, halts>>
     ELSE /\ sleeps' = sleeps + 1
          /\ IF monitor_available THEN sleep_pc' = "waiting" /\ UNCHANGED halts
             ELSE sleep_pc' = "halted" /\ halts' = halts + 1
          /\ UNCHANGED <<skipped, last_wake>>
  /\ UNCHANGED <<now, machine, ratio, sleep_before, expected, word, monitor, asleep, awake, start>>

SleptFor == now - sleep_before

WakeUp ==
  /\ asleep' = asleep + SleptFor /\ last_wake' = now
  /\ sleep_pc' = "awake" /\ monitor' = "off"
  /\ UNCHANGED <<now, machine, ratio, sleep_before, expected, word, sleeps, skipped, halts, awake, start>>

\* MWAIT ends by the write the monitor saw; an interrupt ends both kinds of sleep.
WokenByWrite == sleep_pc = "waiting" /\ monitor = "spent" /\ WakeUp
WokenByInterrupt == sleep_pc \in {"waiting", "halted"} /\ WakeUp

duty_cycle_permille ==
  IF awake + asleep = 0 THEN 1000 ELSE (awake * 1000) \div (awake + asleep)

govern(busy, deadline_bound) ==
  CASE busy >= 600 -> "high"
    [] busy <= 100 /\ ~deadline_bound -> "low"
    [] OTHER -> "medium"

Share(state) == CASE state = "high" -> 1 [] state = "medium" -> 2 [] state = "low" -> 4
RatioFor(state) == IF maximum_ratio \div Share(state) = 0 THEN 1 ELSE maximum_ratio \div Share(state)

\* The counts of applied and refused requests are only printed.
kernel_frequency_scaling_request(state) == ratio' = IF available THEN RatioFor(state) ELSE ratio

\* The end of kernel_satellite_app_run: the measured duty is governed and requested.
Govern ==
  /\ sleep_pc = "awake" /\ sleep_pc' = "governed"
  /\ kernel_frequency_scaling_request(govern(duty_cycle_permille, FALSE))
  /\ UNCHANGED <<now, machine, sleep_before, expected, word, monitor, account>>

Processor == UntilWrite \/ UntilInterrupt \/ Arm \/ Recheck \/ WokenByWrite \/ Govern
SleepNext == Pass \/ DeviceWrites \/ Processor \/ WokenByInterrupt

\* The processor runs, and wakes from MWAIT once its monitor is spent.  No interrupt and no
\* write is promised.
Fairness == WF_sleep_vars(Arm \/ Recheck \/ WokenByWrite)
SleepSpec == SleepInit /\ [][SleepNext]_sleep_vars /\ Fairness
-----------------------------------------------------------------------------
\* Types, and a duty cycle that is a share: processor_sleep.h promises 0 to 1000.
SleepTypeOK ==
  /\ now \in 1 .. MaxTime /\ word \in 0 .. MaxWrites /\ monitor \in {"off", "armed", "spent"}
  /\ sleep_pc \in {"awake", "arm", "recheck", "waiting", "halted", "governed"}
  /\ duty_cycle_permille \in 0 .. 1000

\* The accounting leaves no gap and counts nothing twice: between sleeps, time awake and
\* time asleep add up to what has passed from the first call to the last wake-up,
\* whatever mix of skipped and completed sleeps there was.
TimeAddsUp ==
  sleep_pc \in {"awake", "governed"} /\ start # 0 => awake + asleep = last_wake - start

\* A call that has armed the monitor returns once the word has changed, with no interrupt
\* to help it.
WriteEndsSleep ==
  (sleep_pc \in {"arm", "recheck", "waiting"} /\ monitor_available /\ word # expected) ~> sleep_pc = "awake"

\* The clock that is asked for is never zero and never above the one found at the start.
ClockRuns == available => ratio \in 1 .. maximum_ratio

\* The accounting of sleep leaves no gap and counts nothing twice, its duty cycle is a
\* share and the clock it asks for one the processor has (processor_sleep.c,
\* frequency_scaling.c).
TimeAccounted == SleepTypeOK /\ ClockRuns /\ TimeAddsUp
=============================================================================
