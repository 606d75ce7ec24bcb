------------------------------ MODULE Reconciler ------------------------------
(***************************************************************************)
(* The reconciler of core/reconciler.c: a declaration adopted by the main  *)
(* thread, a comparison pass run by every sampled timer tick, and the      *)
(* queues of memory/backpressure.c whose losses it judges.                 *)
(*                                                                         *)
(* The tick interrupts kernel_reconciler_declare between any two of its    *)
(* statements; the pass itself runs in interrupt context and is one step.  *)
(* The copy of the declaration is one step too: what a pass makes of a     *)
(* half-written one is discarded by the statements that follow.            *)
(***************************************************************************)
EXTENDS Integers, Sequences

CONSTANTS Declarations,   \* [budget, protection, write_protect]
          QueueNames, DropCorrupts,   \* the queues, and those of policy DROP_CORRUPTS
          Breakable,      \* the facts that may cease to hold
          MaxQueues,      \* KERNEL_BACKPRESSURE_MAX_QUEUES
          SamplePeriod,   \* KERNEL_RECONCILER_TICK_SAMPLE_PERIOD
          WaitLimit,      \* KERNEL_RECONCILER_PERIODIC_WAIT_LIMIT
          MaxViolations,  \* bound on the hot loop violations
          MaxPasses       \* where the pass and drift counts saturate

\* The facts of the kernel that a pass compares, besides the two counters.
Facts == {"section_protection", "read_only_page_count", "write_protect", "frame_arena"}
Invariants == Facts \cup {"real_time", "queue_integrity"}

ReconcilerAssumption ==
  /\ DropCorrupts \subseteq QueueNames /\ Breakable \subseteq Facts
  /\ Declarations \subseteq [budget : Nat, protection : BOOLEAN, write_protect : BOOLEAN]
  /\ MaxQueues \in Nat /\ SamplePeriod \in Nat \ {0} /\ WaitLimit \in Nat
  /\ MaxViolations \in Nat /\ MaxPasses \in Nat \ {0}

VARIABLES reconciler_pc,           \* the statement of the main thread
          declaration, declared, baseline,
          passes, drifts, mask,    \* reconciler_pass_count, _drift_count, _drift_mask
          periodic,                \* whether reconciler_periodic_pass_count is non-zero
          tick,                    \* interrupt_request_tick_count modulo the period
          violations,              \* the heap's hot loop violation count
          dropped,                 \* the queues that have dropped something
          queues,                  \* the registered queues
          broken,                  \* the facts that do not hold now
          spin,                    \* iterations of wait_for_periodic_pass
          adopted,                 \* history: the violations when declare was called
          raced                    \* history: a pass ran inside declare, where it leaves a trace

counts == <<passes, drifts, mask, periodic, tick>>
world == <<violations, dropped, queues, broken>>
reconciler_vars == <<reconciler_pc, declaration, declared, baseline, counts, world, spin, adopted, raced>>

ReconcilerInit ==
  /\ reconciler_pc = "main"
  /\ declaration = [budget |-> 0, protection |-> FALSE, write_protect |-> FALSE]
  /\ declared = FALSE /\ baseline = 0
  /\ passes = 0 /\ drifts = 0 /\ mask = {} /\ periodic = FALSE /\ tick = 0
  /\ violations \in 0 .. MaxViolations /\ dropped = {} /\ queues = <<>> /\ broken = {}
  /\ spin = 0 /\ adopted = 0 /\ raced = FALSE
-----------------------------------------------------------------------------
(* The main thread *)

kernel_backpressure_reset ==
  /\ reconciler_pc = "main" /\ queues' = <<>>
  /\ UNCHANGED <<reconciler_pc, declaration, declared, baseline, counts, violations, dropped, broken,
                 spin, adopted, raced>>

\* Registration is refused when the table is full.
kernel_backpressure_register(q) ==
  /\ reconciler_pc = "main" /\ Len(queues) < MaxQueues
  /\ queues' = Append(queues, q)
  /\ UNCHANGED <<reconciler_pc, declaration, declared, baseline, counts, violations, dropped, broken,
                 spin, adopted, raced>>

DeclareStep(from, to) == reconciler_pc = from /\ reconciler_pc' = to

Declare(d) ==
  /\ DeclareStep("main", "declared")
  /\ declaration' = d /\ adopted' = violations
  /\ UNCHANGED <<declared, baseline, counts, world, spin, raced>>

SetDeclared ==
  /\ DeclareStep("declared", "passes") /\ declared' = TRUE
  /\ UNCHANGED <<declaration, baseline, counts, world, spin, adopted, raced>>

ClearPasses ==
  /\ DeclareStep("passes", "drifts") /\ passes' = 0
  /\ UNCHANGED <<declaration, declared, baseline, drifts, mask, periodic, tick, world, spin,
                 adopted, raced>>

ClearDrifts ==
  /\ DeclareStep("drifts", "mask") /\ drifts' = 0 /\ raced' = FALSE
  /\ UNCHANGED <<declaration, declared, baseline, passes, mask, periodic, tick, world, spin,
                 adopted>>

ClearMask ==
  /\ DeclareStep("mask", "baseline") /\ mask' = {}
  /\ UNCHANGED <<declaration, declared, baseline, passes, drifts, periodic, tick, world, spin,
                 adopted, raced>>

\* Mutant: the baseline is left at zero.
KeepBaseline ==
  /\ DeclareStep("baseline", "main")
  /\ UNCHANGED <<declaration, declared, baseline, counts, world, spin, adopted, raced>>

SetBaseline ==
  /\ DeclareStep("baseline", "main") /\ baseline' = violations
  /\ UNCHANGED <<declaration, declared, counts, world, spin, adopted, raced>>

\* kernel_reconciler_report starts to wait.
Report ==
  /\ DeclareStep("main", "wait") /\ spin' = 0
  /\ UNCHANGED <<declaration, declared, baseline, counts, world, adopted, raced>>

ReportEnds ==
  /\ DeclareStep("wait", "main")
  /\ periodic \/ spin = WaitLimit
  /\ UNCHANGED <<declaration, declared, baseline, counts, world, spin, adopted, raced>>

\* A refused unbounded allocation in a hot loop.
HotLoopViolation ==
  /\ reconciler_pc = "main" /\ violations < MaxViolations
  /\ violations' = violations + 1
  /\ UNCHANGED <<reconciler_pc, declaration, declared, baseline, counts, dropped, queues, broken, spin,
                 adopted, raced>>

\* The dialogue channel, filled by the main thread, loses a message.
Drop(q) ==
  /\ reconciler_pc = "main" /\ dropped' = dropped \cup {q}
  /\ UNCHANGED <<reconciler_pc, declaration, declared, baseline, counts, violations, queues, broken, spin,
                 adopted, raced>>

\* A fact ceases to hold, or holds again; the frame arena's peak never comes back.
Break(f) ==
  /\ reconciler_pc = "main" /\ f \notin broken /\ broken' = broken \cup {f}
  /\ UNCHANGED <<reconciler_pc, declaration, declared, baseline, counts, violations, dropped, queues,
                 spin, adopted, raced>>

Mend(f) ==
  /\ reconciler_pc = "main" /\ f \in broken \ {"frame_arena"} /\ broken' = broken \ {f}
  /\ UNCHANGED <<reconciler_pc, declaration, declared, baseline, counts, violations, dropped, queues,
                 spin, adopted, raced>>
-----------------------------------------------------------------------------
(* Interrupt context *)

Waited == spin' = IF reconciler_pc = "wait" /\ ~periodic /\ spin < WaitLimit THEN spin + 1 ELSE spin

\* The keyboard or the mouse interrupts, possibly to find its queue full; like the
\* tick it ends one halt of the report's wait.
DeviceInterrupt ==
  /\ Waited
  /\ \E q \in QueueNames \ DropCorrupts : dropped' \in {dropped, dropped \cup {q}}
  /\ UNCHANGED <<reconciler_pc, declaration, declared, baseline, counts, violations, queues, broken, adopted,
                 raced>>

Registered == {queues[i] : i \in DOMAIN queues}

kernel_backpressure_get_intolerant_drop_count == Registered \cap DropCorrupts \cap dropped

\* reconciler_real_time_violations_since_declaration
ViolationsSince == IF violations <= baseline THEN 0 ELSE violations - baseline

\* The invariants one pass finds in drift.
Drifted ==
  (IF declaration.protection THEN broken \cap {"section_protection", "read_only_page_count"} ELSE {})
    \cup (IF declaration.write_protect THEN broken \cap {"write_protect"} ELSE {})
    \cup (broken \cap {"frame_arena"})
    \cup (IF ViolationsSince > declaration.budget THEN {"real_time"} ELSE {})
    \cup (IF kernel_backpressure_get_intolerant_drop_count # {} THEN {"queue_integrity"} ELSE {})

Raise == mask' = mask \cup Drifted

Bump(n) == IF n < MaxPasses THEN n + 1 ELSE n

kernel_reconciler_check ==
  IF declared
  THEN /\ Raise
       /\ passes' = Bump(passes)
       /\ drifts' = IF Drifted # {} THEN Bump(drifts) ELSE drifts
       /\ raced' = (raced \/ (reconciler_pc \notin {"main", "wait"}))
  ELSE UNCHANGED <<mask, passes, drifts, raced>>

\* Mutant: the sample never falls on a tick.
NeverSampled(t) == t = SamplePeriod
Sampled(t) == t = 0

\* interrupt_request_timer_handler; it also ends one halt of the report's wait.
Tick ==
  /\ tick' = (tick + 1) % SamplePeriod
  /\ Waited
  /\ IF Sampled(tick') THEN kernel_reconciler_check /\ periodic' = TRUE
                       ELSE UNCHANGED <<mask, passes, drifts, periodic, raced>>
  /\ UNCHANGED <<reconciler_pc, declaration, declared, baseline, world, adopted>>

DeclareSteps == SetDeclared \/ ClearPasses \/ ClearDrifts \/ ClearMask \/ SetBaseline \/ ReportEnds

ReconcilerNext ==
  \/ kernel_backpressure_reset
  \/ \E q \in QueueNames : kernel_backpressure_register(q)
  \/ \E q \in DropCorrupts : Drop(q)
  \/ \E d \in Declarations : Declare(d)
  \/ DeclareSteps \/ Report \/ HotLoopViolation
  \/ \E f \in Breakable : Break(f) \/ Mend(f)
  \/ Tick \/ DeviceInterrupt

\* The tick keeps coming and the main thread gets on with what it has started.
ReconcilerSpec == ReconcilerInit /\ [][ReconcilerNext]_reconciler_vars /\ WF_reconciler_vars(Tick) /\ WF_reconciler_vars(DeclareSteps)
-----------------------------------------------------------------------------
\* The declaration is one of the given ones and the counts stay within their bounds.
ReconcilerTypeOK ==
  /\ reconciler_pc \in {"main", "declared", "passes", "drifts", "mask", "baseline", "wait"}
  /\ declared \in BOOLEAN
  /\ declaration \in [budget : Nat, protection : BOOLEAN, write_protect : BOOLEAN]
  /\ baseline \in 0 .. MaxViolations /\ violations \in 0 .. MaxViolations
  /\ passes \in 0 .. MaxPasses /\ drifts \in 0 .. MaxPasses
  /\ mask \subseteq Invariants /\ periodic \in BOOLEAN /\ tick \in 0 .. SamplePeriod - 1
  /\ dropped \subseteq QueueNames /\ queues \in Seq(QueueNames) /\ Len(queues) <= MaxQueues /\ broken \subseteq Facts
  /\ spin \in 0 .. WaitLimit /\ adopted \in 0 .. MaxViolations /\ raced \in BOOLEAN

\* reconciler.h calls the mask sticky: only a new declaration takes an invariant out of
\* it, even when the fact is mended before the next pass.
DriftIsSticky == [][reconciler_pc # "mask" => mask \subseteq mask']_reconciler_vars

\* A loss on a queue that corrupts is found by the tick, as long as the queue stays
\* registered and no new declaration is made; and what was found stays in the mask.
CorruptionFound ==
  /\ DriftIsSticky
  /\ \A q \in DropCorrupts :
       [](declared /\ q \in Registered /\ q \in dropped /\ reconciler_pc \in {"main", "wait"}
            => <>(\/ "queue_integrity" \in mask
                  \/ reconciler_pc \notin {"main", "wait"}
                  \/ q \notin Registered))

\* Unless a pass ran inside declare, the mask accuses the real-time budget only when
\* it was exceeded by violations counted after the declaration was adopted.
AlarmExplained ==
  ~raced /\ reconciler_pc = "main" /\ "real_time" \in mask => violations > adopted + declaration.budget

\* Unless a pass ran inside declare, a drift is counted exactly when the mask names one.
DriftsExplained == ~raced /\ reconciler_pc = "main" => (drifts > 0 <=> mask # {})

\* Unless a pass ran inside declare, nothing is reported that did not happen: the mask
\* accuses the real-time budget only when it was exceeded by violations counted after the
\* declaration was adopted, and a drift is counted exactly when the mask names one
\* (reconciler.c).
NoFalseAlarm == ReconcilerTypeOK /\ AlarmExplained /\ DriftsExplained

\* reconciler.c: only the violations since the declaration was adopted are judged.
OnlyDeltaJudged ==
  reconciler_pc = "main" /\ "real_time" \in mask => violations > adopted + declaration.budget
=============================================================================
