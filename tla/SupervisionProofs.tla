------------------------- MODULE SupervisionProofs --------------------------
(***************************************************************************)
(* What the kernel reports about itself is true for every value of the     *)
(* constants: the time processor_sleep.c accounts for, the probes of       *)
(* section_protection.c and the drifts of reconciler.c.                    *)
(*                                                                         *)
(* The components share no state; each theorem is about one of them.       *)
(***************************************************************************)
EXTENDS ProcessorSleep, SectionProtection, Reconciler, ArithmeticLemmas
-----------------------------------------------------------------------------
(* processor_sleep.c *)

\* Between two sleeps the accounted time ends at the last wake-up; during one it ends
\* where the sleep began.
SleepCharged ==
  /\ sleep_pc \in {"awake", "governed"} /\ start # 0 => last_wake # 0 /\ awake + asleep = last_wake - start
  /\ sleep_pc \in {"awake", "governed"} /\ start = 0 => last_wake = 0 /\ awake = 0 /\ asleep = 0
  /\ sleep_pc \notin {"awake", "governed"} => start # 0 /\ sleep_before # 0 /\ awake + asleep = sleep_before - start

SleepTypes ==
  /\ now \in 1 .. MaxTime /\ word \in 0 .. MaxWrites /\ monitor \in {"off", "armed", "spent"}
  /\ sleep_pc \in {"awake", "arm", "recheck", "waiting", "halted", "governed"}
  /\ sleep_before \in 0 .. now /\ last_wake \in 0 .. now /\ start \in Nat
  /\ awake \in Nat /\ asleep \in Nat

SleepClock == maximum_ratio \in Nat /\ ClockRuns

SleepInv == SleepTypes /\ SleepCharged /\ SleepClock

\* A part of a whole, counted in k-ths, is at most k.
LEMMA ShareOfWhole ==
  ASSUME NEW a \in Nat, NEW d \in Nat \ {0}, NEW k \in Nat, a <= d
  PROVE  (a * k) \div d \in 0 .. k
<1> DEFINE n == a * k
           q == n \div d
<1>1. n \in Nat
  OBVIOUS
<1>2. n <= d * k
  BY TimesMonotone
<1> HIDE DEF n
<1>3. q \in Nat /\ n % d \in 0 .. (d - 1) /\ n = (q * d) + (n % d)
  BY <1>1, DivisionWithRemainder
<1> HIDE DEF q
<1>4. ~(k + 1 <= q)
  <2> SUFFICES ASSUME k + 1 <= q PROVE FALSE
    OBVIOUS
  <2>1. (k + 1) * d <= q * d
    BY <1>3, TimesMonotone
  <2>2. (k + 1) * d = (d * k) + d /\ q * d \in Nat /\ d * k \in Nat
    BY <1>3
  <2> QED
    BY <1>2, <1>3, <2>1, <2>2
<1>5. q \in 0 .. k
  BY <1>3, <1>4
<1> QED
  BY <1>5, Zenon DEF q, n

\* The first state of processor_sleep.c and frequency_scaling.c.
LEMMA SleepInitInv == ASSUME SleepAssumption PROVE SleepInit => SleepInv
<1> SUFFICES ASSUME SleepInit PROVE SleepInv
  OBVIOUS
<1>1. SleepTypes /\ SleepCharged
  BY DEF SleepInit, SleepAssumption, SleepTypes, SleepCharged
<1>2. SleepClock
  <2>1. PICK speedstep \in BOOLEAN, found \in Ratios :
          ratio = found /\ maximum_ratio = (IF speedstep THEN found ELSE 0)
            /\ available = (speedstep /\ found # 0)
    BY DEF SleepInit, FindScaling
  <2>2. found \in Nat
    BY DEF SleepAssumption
  <2>3. available => speedstep /\ found # 0
    BY <2>1, Zenon
  <2>4. maximum_ratio \in Nat /\ ratio = found /\ (speedstep => maximum_ratio = found)
    BY <2>1, <2>2
  <2> QED
    BY <2>2, <2>3, <2>4 DEF SleepClock, ClockRuns
<1> QED
  BY <1>1, <1>2 DEF SleepInv

\* Every step keeps the account and the clock.
LEMMA SleepStep ==
  ASSUME SleepAssumption, SleepInv, [SleepNext]_sleep_vars
  PROVE  SleepInv'
<1> USE DEF SleepTypes, SleepCharged, SleepClock, ClockRuns, machine, account
<1>0. SleepTypes /\ SleepCharged /\ SleepClock /\ MaxTime \in Nat /\ MaxWrites \in Nat
  BY DEF SleepInv, SleepAssumption
<1>1. CASE Pass
  BY <1>0, <1>1 DEF Pass, SleepInv
<1>2. CASE DeviceWrites
  BY <1>0, <1>2 DEF DeviceWrites, SleepInv
<1>3. CASE UntilWrite
  BY <1>0, <1>3 DEF UntilWrite, ChargeAwake, SleepInv
<1>4. CASE UntilInterrupt
  BY <1>0, <1>4 DEF UntilInterrupt, ChargeAwake, SleepInv
<1>5. CASE Arm
  BY <1>0, <1>5 DEF Arm, ArmAndGo, SleepInv
<1>6. CASE Recheck
  BY <1>0, <1>6 DEF Recheck, SkipRestarts, SleepInv
<1>7. CASE WokenByWrite \/ WokenByInterrupt
  BY <1>0, <1>7 DEF WokenByWrite, WokenByInterrupt, WakeUp, SleptFor, SleepInv
<1>8. CASE Govern
  <2>1. SleepTypes' /\ SleepCharged'
    BY <1>0, <1>8 DEF Govern
  <2>2. ASSUME NEW s \in {"high", "medium", "low"}, available PROVE RatioFor(s) \in 1 .. maximum_ratio
    <3>1. maximum_ratio \in Nat \ {0}
      BY <1>0, <2>2
    <3>2. Share(s) \in {1, 2, 4}
      BY DEF Share
    <3>3. \A k \in {1, 2, 4} : maximum_ratio \div k \in 0 .. maximum_ratio
      BY <3>1
    <3>4. maximum_ratio \div Share(s) \in 0 .. maximum_ratio
      BY <3>2, <3>3
    <3> QED
      BY <3>1, <3>4 DEF RatioFor
  <2>3. govern(duty_cycle_permille, FALSE) \in {"high", "medium", "low"}
    BY DEF govern
  <2>4. SleepClock'
    BY <1>0, <1>8, <2>2, <2>3 DEF Govern, kernel_frequency_scaling_request
  <2> QED
    BY <2>1, <2>4 DEF SleepInv
<1>9. CASE UNCHANGED sleep_vars
  BY <1>0, <1>9 DEF sleep_vars, SleepInv
<1> QED
  BY <1>1, <1>2, <1>3, <1>4, <1>5, <1>6, <1>7, <1>8, <1>9 DEF SleepNext, Processor

\* processor_sleep.c counts every moment once: time awake and time asleep add up to what has
\* passed from the first call to the last wake-up, the duty cycle is a share of a thousand,
\* and frequency_scaling.c never asks for a clock of zero or above the one found.
THEOREM TimeAccountedTheorem ==
  ASSUME SleepAssumption
  PROVE  SleepSpec => []TimeAccounted
<1>1. SleepInv => TimeAccounted
  <2> SUFFICES ASSUME SleepInv PROVE SleepTypeOK /\ ClockRuns /\ TimeAddsUp
    BY DEF TimeAccounted
  <2>1. duty_cycle_permille \in 0 .. 1000
    <3> DEFINE k == 1000
               d == awake + asleep
    <3>1. awake \in Nat /\ asleep \in Nat
      BY DEF SleepInv, SleepTypes
    <3>2. k \in Nat /\ k \in 0 .. k
      OBVIOUS
    <3>3. d \in Nat /\ awake <= d
      BY <3>1
    <3>4. duty_cycle_permille = IF d = 0 THEN k ELSE (awake * k) \div d
      BY DEF duty_cycle_permille
    <3> HIDE DEF k, d
    <3>5. duty_cycle_permille \in 0 .. k
      BY <3>1, <3>2, <3>3, <3>4, ShareOfWhole
    <3> QED
      BY <3>5 DEF k
  <2> QED
    BY <2>1 DEF SleepInv, SleepTypes, SleepCharged, SleepClock, SleepTypeOK, TimeAddsUp
<1> QED
  BY SleepInitInv, SleepStep, <1>1, PTL DEF SleepSpec
-----------------------------------------------------------------------------
(* section_protection.c *)

Probing == {"arm", "publish", "store", "disarm", "restore"}

SectionTypes ==
  /\ SectionTypeOK
  /\ section_before \in Nat /\ probes \in 0 .. MaxProbes /\ recovered \in 0 .. probes
  /\ asked \in [Pages -> Bytes]
  /\ section_pc \in Probing => target \in Targets /\ probes > 0 /\ original = asked[target]

\* The loop of apply: every page before the cursor is protected and counted, unless
\* some page has failed.
ApplyInv ==
  /\ section_pc \in {"boot", "apply"} => ~active /\ probes = 0
  /\ section_pc = "apply" =>
       /\ read_only_page_count \in 0 .. cursor - 1
       /\ all_protected => /\ read_only_page_count = cursor - 1
                           /\ \A i \in 1 .. cursor - 1 : entry[Range[i]] = "ro"
  /\ ActiveMeansProtected

\* The probe: the recovered count moves at its own store and nowhere else.
ProbeInv ==
  /\ section_pc \in {"arm", "publish", "store"} => recovered = section_before /\ recovered < probes
  /\ section_pc = "disarm" /\ ~halted => (recovered # section_before <=> ~stored)
  /\ FaultReported

\* Memory while a probe runs: only the target can differ, and only once the store has
\* happened.
ByteInv ==
  /\ section_pc \in Probing => \A p \in Targets : p # target => byte[p] = asked[p]
  /\ section_pc \in {"arm", "publish", "store"} => byte[target] = asked[target]
  /\ section_pc \in {"disarm", "restore"} /\ ~stored => byte[target] = asked[target]
  /\ ProbeHarmless

SectionInv == SectionTypes /\ ApplyInv /\ ProbeInv /\ ByteInv

\* Boot starts with no page protected and no probe run.
LEMMA SectionInitInv == ASSUME SectionAssumption PROVE SectionInit => SectionInv
<1> SUFFICES ASSUME SectionInit PROVE SectionInv
  OBVIOUS
<1>0. Range \in Seq(RangePages) /\ Len(Range) \in Nat
  BY DEF SectionAssumption
<1>1. SectionTypeOK
  <2>1. /\ active \in BOOLEAN /\ all_protected \in BOOLEAN /\ resume_published \in BOOLEAN
        /\ armed \in BOOLEAN /\ stored \in BOOLEAN /\ did_fault \in BOOLEAN /\ halted \in BOOLEAN
    BY DEF SectionInit
  <2>2. cursor \in 1 .. Len(Range) + 1 /\ read_only_page_count \in 0 .. Len(Range)
        /\ recovered \in 0 .. MaxProbes
    BY <1>0 DEF SectionInit, SectionAssumption
  <2>3. /\ entry \in [Pages -> {"absent", "rw", "ro"}] /\ byte \in [Pages -> Bytes]
        /\ target \in Pages \cup {NoPage} /\ original \in Bytes
    BY DEF SectionInit, SectionAssumption
  <2> QED
    BY <2>1, <2>2, <2>3 DEF SectionInit, SectionTypeOK
<1>2. SectionTypes
  BY <1>1 DEF SectionInit, SectionAssumption, SectionTypes, Probing
<1>3. ApplyInv /\ ProbeInv /\ ByteInv
  BY DEF SectionInit, ApplyInv, ProbeInv, ByteInv, Probing, ActiveMeansProtected,
         FaultReported, ProbeHarmless
<1> QED
  BY <1>2, <1>3 DEF SectionInv

\* What a fault of an interrupt handler does: the page fault handler does not take it for
\* the probe's, and the kernel halts.
LEMMA HandlerFaultHalts ==
  ASSUME SectionAssumption, SectionInv, NEW p, NEW write,
         write => p \in HandlerPages, write \in BOOLEAN, PageFault(p, write)
  PROVE  halted' = TRUE /\ UNCHANGED <<target, resume_published, armed, recovered>>
<1>1. ~kernel_section_protection_handle_page_fault(p, write)
  BY DEF kernel_section_protection_handle_page_fault, SectionAssumption,
         SectionInv, SectionTypes, SectionTypeOK, Probing
<1> QED
  BY <1>1 DEF PageFault, shared

\* An interrupt handler keeps what the main thread relies on.
LEMMA HandlerStep ==
  ASSUME SectionAssumption, SectionInv,
         \/ \E p \in Pages : HandlerReads(p)
         \/ \E p \in HandlerPages, b \in Bytes : HandlerWrites(p, b)
  PROVE  SectionInv' /\ recovered' = recovered
<1>1. /\ UNCHANGED <<section_pc, cursor, entry, active, read_only_page_count, all_protected, section_before, original,
                     stored, did_fault, probes, asked>>
      /\ UNCHANGED <<target, resume_published, armed, recovered>>
      /\ halted' \in BOOLEAN /\ (halted => halted')
      /\ byte' \in [Pages -> Bytes] /\ \A q \in Targets : byte'[q] = byte[q]
  <2>1. CASE \E p \in Pages : HandlerReads(p)
    <3>1. PICK p \in Pages : HandlerReads(p)
      BY <2>1
    <3>2. PageFault(p, FALSE) /\ byte' = byte
          /\ UNCHANGED <<section_pc, cursor, entry, active, read_only_page_count, all_protected, section_before,
                         original, stored, did_fault, probes, asked>>
      BY <3>1 DEF HandlerReads, apply_vars, locals
    <3>3. halted' = TRUE /\ UNCHANGED <<target, resume_published, armed, recovered>>
      BY <3>2, HandlerFaultHalts
    <3> QED
      BY <3>2, <3>3 DEF SectionInv, SectionTypes, SectionTypeOK
  <2>2. CASE \E p \in HandlerPages, b \in Bytes : HandlerWrites(p, b)
    <3>1. PICK p \in HandlerPages, b \in Bytes : HandlerWrites(p, b)
      BY <2>2
    <3>2. UNCHANGED <<section_pc, cursor, entry, active, read_only_page_count, all_protected, section_before,
                      original, stored, did_fault, probes, asked>>
      BY <3>1 DEF HandlerWrites, apply_vars, locals
    <3>3. p \in Pages /\ p \notin Targets /\ Targets \subseteq Pages
      BY DEF SectionAssumption
    <3>4. CASE WriteFaults(p)
      <4>1. PageFault(p, TRUE) /\ byte' = byte
        BY <3>1, <3>4 DEF HandlerWrites
      <4>2. halted' = TRUE /\ UNCHANGED <<target, resume_published, armed, recovered>>
        BY <4>1, HandlerFaultHalts
      <4> QED
        BY <3>2, <4>1, <4>2 DEF SectionInv, SectionTypes, SectionTypeOK
    <3>5. CASE ~WriteFaults(p)
      <4>1. byte' = [byte EXCEPT ![p] = b]
            /\ UNCHANGED <<target, resume_published, armed, recovered, halted>>
        BY <3>1, <3>5 DEF HandlerWrites, shared
      <4> QED
        BY <3>2, <3>3, <4>1 DEF SectionInv, SectionTypes, SectionTypeOK
    <3> QED
      BY <3>4, <3>5
  <2> QED
    BY <2>1, <2>2
<1>2. SectionTypes'
  BY <1>1 DEF SectionInv, SectionTypes, SectionTypeOK, NoPage
<1>3. ApplyInv'
  BY <1>1 DEF SectionInv, ApplyInv, ActiveMeansProtected
<1>4. ProbeInv'
  BY <1>1 DEF SectionInv, ProbeInv, FaultReported
<1>5. ByteInv'
  BY <1>1 DEF SectionInv, SectionTypes, ByteInv, Probing, ProbeHarmless
<1> QED
  BY <1>1, <1>2, <1>3, <1>4, <1>5 DEF SectionInv

\* apply: each iteration protects and counts its page, or gives up the claim that all are.
LEMMA ApplyStep ==
  ASSUME SectionAssumption, SectionInv,
         Apply \/ ProtectPage \/ Applied
  PROVE  SectionInv' /\ recovered' = recovered
<1> DEFINE last == Len(Range)
<1>0. /\ Range \in Seq(RangePages) /\ last \in Nat
      /\ RangePages = {Range[i] : i \in 1 .. last}
      /\ Range = <<>> => last = 0
  BY DEF SectionAssumption, RangePages
<1>1. UNCHANGED <<byte, target, resume_published, armed, recovered, section_before, original, stored,
                  did_fault, halted, probes, asked>>
  BY DEF Apply, ProtectPage, Applied, shared, locals
<1>2. section_pc \in {"boot", "apply"} /\ section_pc' \in {"apply", "idle"} /\ probes = 0 /\ ~active
  BY DEF Apply, ProtectPage, Applied, SectionInv, ApplyInv
<1>3. /\ cursor' \in 1 .. last + 1 /\ entry' \in [Pages -> {"absent", "rw", "ro"}]
      /\ active' \in BOOLEAN /\ all_protected' \in BOOLEAN /\ read_only_page_count' \in 0 .. last
      /\ ApplyInv'
  <2>0. /\ cursor \in 1 .. last + 1 /\ entry \in [Pages -> {"absent", "rw", "ro"}]
        /\ active \in BOOLEAN /\ all_protected \in BOOLEAN /\ read_only_page_count \in 0 .. last
    BY DEF SectionInv, SectionTypes, SectionTypeOK
  <2>1. CASE Apply
    <3>1. /\ cursor' = 1 /\ entry' = entry /\ active' = FALSE /\ read_only_page_count' = 0
          /\ all_protected' \in BOOLEAN
      BY <2>1 DEF Apply
    <3>2. 1 \in 1 .. last + 1 /\ 0 \in 0 .. last /\ 0 \in 0 .. 1 - 1 /\ 0 = 1 - 1
          /\ \A i \in 1 .. 1 - 1 : FALSE
      BY <1>0
    <3>3. ApplyInv'
      BY <1>1, <1>2, <3>1, <3>2 DEF ApplyInv, ActiveMeansProtected
    <3> QED
      BY <2>0, <3>1, <3>2, <3>3
  <2>2. CASE ProtectPage
    <3> DEFINE p == Range[cursor]
    <3>1. /\ section_pc = "apply" /\ section_pc' = "apply" /\ cursor \in 1 .. last /\ cursor' = cursor + 1
          /\ active' = active
      BY <2>0, <2>2, <1>0 DEF ProtectPage
    <3>2. p \in Pages
      BY <1>0, <3>1 DEF Pages
    <3>3. /\ read_only_page_count \in 0 .. cursor - 1
          /\ all_protected => /\ read_only_page_count = cursor - 1
                              /\ \A i \in 1 .. cursor - 1 : entry[Range[i]] = "ro"
      BY <3>1 DEF SectionInv, ApplyInv
    <3>4. CASE entry[p] # "absent"
      <4>1. /\ entry' = [entry EXCEPT ![p] = "ro"] /\ all_protected' = all_protected
            /\ read_only_page_count' = read_only_page_count + 1
        BY <2>2, <3>4 DEF ProtectPage
      <4>2. entry' \in [Pages -> {"absent", "rw", "ro"}]
        BY <2>0, <3>2, <4>1
      <4>3. all_protected' => \A i \in 1 .. cursor' - 1 : entry'[Range[i]] = "ro"
        <5> SUFFICES ASSUME all_protected, NEW i \in 1 .. cursor PROVE entry'[Range[i]] = "ro"
          BY <3>1, <4>1
        <5>1. Range[i] \in Pages
          BY <1>0, <3>1 DEF Pages
        <5>2. CASE i = cursor
          BY <2>0, <3>2, <4>1, <5>2
        <5>3. CASE i # cursor
          <6>1. entry[Range[i]] = "ro"
            BY <3>1, <3>3, <5>3
          <6> QED
            BY <2>0, <3>2, <4>1, <5>1, <6>1
        <5> QED
          BY <5>2, <5>3
      <4>4. /\ read_only_page_count' \in 0 .. cursor' - 1 /\ read_only_page_count' \in 0 .. last
            /\ all_protected' => read_only_page_count' = cursor' - 1
        BY <3>1, <3>3, <4>1, <1>0
      <4>5. ApplyInv'
        BY <1>1, <1>2, <3>1, <4>3, <4>4 DEF ApplyInv, ActiveMeansProtected
      <4>6. cursor' \in 1 .. last + 1
        BY <1>0, <3>1
      <4> QED
        BY <1>2, <2>0, <3>1, <4>1, <4>2, <4>4, <4>5, <4>6
    <3>5. CASE ~(entry[p] # "absent")
      <4>1. entry' = entry /\ all_protected' = FALSE /\ read_only_page_count' = read_only_page_count
        BY <2>2, <3>5 DEF ProtectPage, FailPage
      <4>2. cursor' \in 1 .. last + 1 /\ read_only_page_count' \in 0 .. cursor' - 1
        BY <1>0, <3>1, <3>3, <4>1
      <4>3. ApplyInv'
        BY <1>1, <1>2, <3>1, <4>1, <4>2 DEF ApplyInv, ActiveMeansProtected
      <4> QED
        BY <1>2, <2>0, <3>1, <4>1, <4>2, <4>3
    <3> QED
      BY <3>4, <3>5
  <2>3. CASE Applied
    <3>1. /\ section_pc = "apply" /\ section_pc' = "idle" /\ cursor > last /\ active' = all_protected
          /\ UNCHANGED <<cursor, entry, read_only_page_count, all_protected>>
      BY <2>3 DEF Applied
    <3>2. all_protected => /\ read_only_page_count = cursor - 1
                           /\ \A i \in 1 .. cursor - 1 : entry[Range[i]] = "ro"
      BY <3>1 DEF SectionInv, ApplyInv
    <3>3. cursor = last + 1
      BY <1>0, <2>0, <3>1
    <3>4. all_protected => /\ read_only_page_count = last
                           /\ \A q \in RangePages : entry[q] = "ro"
      BY <1>0, <3>2, <3>3
    <3>5. ApplyInv'
      BY <3>1, <3>4 DEF ApplyInv, ActiveMeansProtected
    <3> QED
      BY <2>0, <3>1, <3>5
  <2> QED
    BY <2>1, <2>2, <2>3
<1>4. armed = FALSE
  BY <1>2 DEF SectionInv, SectionTypes, SectionTypeOK
<1>5. SectionTypes'
  BY <1>1, <1>2, <1>3, <1>4 DEF SectionInv, SectionTypes, SectionTypeOK, NoPage, Probing
<1>6. ProbeInv'
  BY <1>1, <1>2 DEF ProbeInv, FaultReported
<1>7. ByteInv'
  BY <1>1, <1>2 DEF SectionInv, ApplyInv, ByteInv, Probing, ProbeHarmless
<1> QED
  BY <1>1, <1>3, <1>5, <1>6, <1>7 DEF SectionInv

\* The probe, one instruction at a time.
LEMMA ProbeStep ==
  ASSUME SectionAssumption, SectionInv,
         \/ \E p \in Targets : ReadOriginal(p)
         \/ ArmProbe \/ PublishResume \/ StoreZero \/ Disarm
         \/ Restore
  PROVE  SectionInv' /\ (recovered' # recovered => section_pc = "store" /\ section_pc' = "disarm")
<1>0. Targets \subseteq Pages /\ MaxProbes \in Nat /\ 0 \in Bytes
  BY DEF SectionAssumption
<1>1. UNCHANGED <<cursor, entry, active, read_only_page_count, all_protected>>
  BY DEF ReadOriginal, ArmProbe, PublishResume, StoreZero,
         Disarm, Restore, apply_vars
<1>2. section_pc \notin {"boot", "apply"} /\ section_pc' \notin {"boot", "apply"} /\ ~halted
  BY DEF ReadOriginal, ArmProbe, PublishResume, StoreZero,
         Disarm, Restore, At
<1>3. ApplyInv'
  BY <1>1, <1>2 DEF SectionInv, ApplyInv, ActiveMeansProtected
<1> USE DEF At, shared, locals
<1>4. CASE \E p \in Targets : ReadOriginal(p)
  <2>1. PICK p \in Targets : ReadOriginal(p)
    BY <1>4
  <2>2. SectionTypes'
    <3>1. /\ probes \in 0 .. MaxProbes /\ probes < MaxProbes /\ probes' = probes + 1
          /\ recovered \in 0 .. probes /\ recovered' = recovered
      BY <2>1 DEF ReadOriginal, SectionInv, SectionTypes
    <3>2. probes' \in 0 .. MaxProbes /\ recovered' \in 0 .. probes' /\ probes' > 0
      BY <1>0, <3>1
    <3>3. /\ section_pc' = "arm" /\ section_before' = recovered /\ original' = byte[p] /\ target' = p /\ asked' = byte
          /\ stored' = FALSE /\ did_fault' = FALSE /\ section_pc = "idle" /\ p \in Pages
          /\ UNCHANGED <<byte, resume_published, armed, recovered, halted>>
      BY <1>0, <2>1 DEF ReadOriginal
    <3>4. section_before' \in Nat /\ recovered' \in 0 .. MaxProbes
      BY <1>0, <3>1, <3>3
    <3>5. SectionTypeOK'
      BY <1>1, <3>3, <3>4 DEF SectionInv, SectionTypes, SectionTypeOK
    <3> QED
      BY <2>1, <3>2, <3>3, <3>4, <3>5 DEF SectionInv, SectionTypes, SectionTypeOK
  <2>3. ProbeInv'
    <3>1. /\ section_pc' = "arm" /\ section_before' = recovered /\ recovered' = recovered
          /\ probes' = probes + 1
      BY <2>1 DEF ReadOriginal
    <3>2. probes \in Nat /\ recovered \in 0 .. probes
      BY DEF SectionInv, SectionTypes
    <3> QED
      BY <3>1, <3>2 DEF ProbeInv, FaultReported
  <2>4. ByteInv'
    BY <2>1 DEF ReadOriginal, SectionInv, ByteInv, ProbeHarmless, Probing
  <2> QED
    BY <1>3, <2>1, <2>2, <2>3, <2>4 DEF ReadOriginal, SectionInv
<1>5. CASE ArmProbe \/ PublishResume
  <2>0. /\ (section_pc = "arm" /\ section_pc' = "publish") \/ (section_pc = "publish" /\ section_pc' = "store")
        /\ UNCHANGED <<byte, target, recovered, section_before, original, stored, did_fault, halted,
                       probes, asked>>
        /\ resume_published' \in BOOLEAN /\ armed' \in BOOLEAN
    BY <1>5 DEF ArmProbe, PublishResume, SectionInv, SectionTypes, SectionTypeOK
  <2>1. SectionTypes'
    BY <1>0, <1>1, <2>0 DEF SectionInv, SectionTypes, SectionTypeOK, NoPage, Probing
  <2>2. ProbeInv'
    BY <2>0 DEF SectionInv, ProbeInv, FaultReported
  <2>3. ByteInv'
    BY <2>0 DEF SectionInv, ByteInv, ProbeHarmless, Probing
  <2> QED
    BY <1>3, <2>0, <2>1, <2>2, <2>3 DEF SectionInv
<1>6. CASE StoreZero
  <2>1. /\ section_pc = "store" /\ section_pc' = "disarm" /\ stored' = ~WriteFaults(target)
        /\ UNCHANGED <<section_before, original, did_fault, probes, asked>>
    BY <1>6 DEF StoreZero
  <2>2. /\ target \in Targets /\ probes > 0 /\ original = asked[target]
        /\ recovered = section_before /\ recovered < probes /\ byte[target] = asked[target]
        /\ \A p \in Targets : p # target => byte[p] = asked[p]
        /\ recovered \in Nat /\ byte \in [Pages -> Bytes]
    BY <2>1 DEF SectionInv, SectionTypes, SectionTypeOK, ProbeInv, ByteInv, Probing
  <2>3. CASE WriteFaults(target)
    <3>1. PageFault(target, TRUE) /\ byte' = byte /\ stored' = FALSE
      BY <1>6, <2>1, <2>3 DEF StoreZero
    <3>2. /\ target' = target /\ resume_published' = resume_published
          /\ \/ armed' = FALSE /\ recovered' = recovered + 1 /\ halted' = halted
             \/ halted' = TRUE /\ armed' = armed /\ recovered' = recovered
      BY <3>1 DEF PageFault
    <3>3. SectionTypes'
      <4>1. recovered' \in 0 .. probes' /\ recovered' \in 0 .. MaxProbes
        BY <1>0, <2>1, <2>2, <3>2 DEF SectionInv, SectionTypes
      <4>2. armed' \in BOOLEAN /\ halted' \in BOOLEAN
        BY <3>2 DEF SectionInv, SectionTypes, SectionTypeOK
      <4>3. SectionTypeOK'
        BY <1>1, <2>1, <3>1, <3>2, <4>1, <4>2
           DEF SectionInv, SectionTypes, SectionTypeOK, NoPage
      <4> QED
        BY <2>1, <2>2, <3>2, <4>1, <4>3 DEF SectionInv, SectionTypes, NoPage, Probing
    <3>4. ProbeInv'
      <4>1. section_pc' = "disarm" /\ section_before' = section_before
        BY <1>2, <2>1
      <4>2. ~halted' => recovered' # section_before'
        BY <2>2, <3>2, <4>1 DEF SectionInv, SectionTypes
      <4> QED
        BY <3>1, <4>1, <4>2 DEF ProbeInv, FaultReported
    <3>5. ByteInv'
      BY <2>1, <2>2, <3>1, <3>2 DEF ByteInv, ProbeHarmless, Probing
    <3> QED
      BY <1>3, <2>1, <3>3, <3>4, <3>5 DEF SectionInv
  <2>4. CASE ~WriteFaults(target)
    <3>1. /\ byte' = [byte EXCEPT ![target] = 0] /\ stored' = TRUE
          /\ UNCHANGED <<target, resume_published, armed, recovered, halted>>
      BY <1>6, <2>1, <2>4 DEF StoreZero
    <3>2. byte' \in [Pages -> Bytes] /\ \A p \in Targets : p # target => byte'[p] = byte[p]
      BY <1>0, <2>2, <3>1
    <3>3. SectionTypes'
      BY <1>0, <1>1, <2>1, <2>2, <3>1, <3>2
         DEF SectionInv, SectionTypes, SectionTypeOK, NoPage, Probing
    <3>4. ProbeInv'
      BY <1>2, <2>1, <2>2, <3>1 DEF ProbeInv, FaultReported
    <3>5. ByteInv'
      BY <2>1, <2>2, <3>1, <3>2 DEF ByteInv, ProbeHarmless, Probing
    <3> QED
      BY <1>3, <2>1, <3>3, <3>4, <3>5 DEF SectionInv
  <2> QED
    BY <2>3, <2>4
<1>7. CASE Disarm
  <2>1. /\ section_pc = "disarm" /\ section_pc' = "restore" /\ armed' = FALSE /\ resume_published' = FALSE
        /\ did_fault' = (recovered # section_before)
        /\ UNCHANGED <<byte, target, recovered, section_before, original, stored, halted, probes, asked>>
    BY <1>7 DEF Disarm, ClearArmed, Faulted
  <2>2. SectionTypes'
    BY <1>0, <1>1, <2>1 DEF SectionInv, SectionTypes, SectionTypeOK, NoPage, Probing
  <2>3. ProbeInv'
    BY <1>2, <2>1 DEF SectionInv, ProbeInv, FaultReported
  <2>4. ByteInv'
    BY <2>1 DEF SectionInv, ByteInv, ProbeHarmless, Probing
  <2> QED
    BY <1>3, <2>1, <2>2, <2>3, <2>4 DEF SectionInv
<1>8. CASE Restore
  <2>1. /\ section_pc = "restore" /\ section_pc' = "idle" /\ target' = NoPage
        /\ byte' = IF did_fault THEN byte ELSE [byte EXCEPT ![target] = original]
        /\ UNCHANGED <<resume_published, armed, recovered, section_before, original, stored, did_fault,
                       halted, probes, asked>>
    BY <1>8 DEF Restore, PutBack
  <2>2. /\ target \in Targets /\ original = asked[target] /\ did_fault \in BOOLEAN
        /\ original \in Bytes /\ (did_fault => byte[target] = asked[target])
        /\ \A p \in Targets : p # target => byte[p] = asked[p]
        /\ byte \in [Pages -> Bytes]
    BY <2>1 DEF SectionInv, SectionTypes, SectionTypeOK, ProbeInv, FaultReported, ByteInv,
                Probing
  <2>3. byte' \in [Pages -> Bytes] /\ \A p \in Targets : byte'[p] = asked[p]
    BY <1>0, <2>1, <2>2
  <2>4. SectionTypes'
    BY <1>1, <2>1, <2>3 DEF SectionInv, SectionTypes, SectionTypeOK, NoPage, Probing
  <2>5. ProbeInv' /\ ByteInv'
    BY <2>1, <2>3 DEF ProbeInv, ByteInv, FaultReported, ProbeHarmless, Probing
  <2> QED
    BY <1>3, <2>1, <2>4, <2>5 DEF SectionInv
<1> QED
  BY <1>4, <1>5, <1>6, <1>7, <1>8

\* section_protection.c: whatever the interrupt handlers do between its instructions, a
\* probe says "faulted" exactly when its store did not happen, leaves every probed byte as
\* it was, and is the only access that is ever stepped over; and "active" is only said of a
\* range every page of which is read-only.
THEOREM SectionTheorem ==
  ASSUME SectionAssumption
  PROVE  SectionSpec => ProbeTruthful
<1>1. SectionInit => SectionInv
  BY SectionInitInv
<1>2. SectionInv /\ [SectionNext]_section_vars
        => SectionInv' /\ [recovered' # recovered => section_pc = "store" /\ section_pc' = "disarm"]_section_vars
  <2> SUFFICES ASSUME SectionInv, [SectionNext]_section_vars
               PROVE  /\ SectionInv'
                      /\ [recovered' # recovered => section_pc = "store" /\ section_pc' = "disarm"]_section_vars
    OBVIOUS
  <2>1. CASE SectionNext
    BY <2>1, ApplyStep, ProbeStep, HandlerStep DEF SectionNext
  <2>2. CASE UNCHANGED section_vars
    <3>0. /\ section_pc' = section_pc /\ cursor' = cursor /\ entry' = entry /\ active' = active
          /\ read_only_page_count' = read_only_page_count /\ all_protected' = all_protected
          /\ byte' = byte /\ target' = target /\ resume_published' = resume_published
          /\ armed' = armed /\ recovered' = recovered /\ section_before' = section_before
          /\ original' = original /\ stored' = stored /\ did_fault' = did_fault
          /\ halted' = halted /\ probes' = probes /\ asked' = asked
      BY <2>2 DEF section_vars, apply_vars, shared, locals
    <3>1. SectionTypes'
      <4>1. SectionTypeOK'
        BY <3>0 DEF SectionInv, SectionTypes, SectionTypeOK
      <4> QED
        BY <3>0, <4>1 DEF SectionInv, SectionTypes
    <3>2. ApplyInv'
      BY <3>0 DEF SectionInv, ApplyInv, ActiveMeansProtected
    <3>3. ProbeInv' /\ ByteInv'
      BY <3>0 DEF SectionInv, ProbeInv, ByteInv, FaultReported, ProbeHarmless
    <3>4. SectionInv'
      BY <3>1, <3>2, <3>3 DEF SectionInv
    <3> QED
      BY <3>0, <3>4
  <2> QED
    BY <2>1, <2>2
<1>3. SectionInv => /\ SectionTypeOK /\ ActiveMeansProtected
                    /\ FaultReported /\ ProbeHarmless
  BY DEF SectionInv, SectionTypes, ApplyInv, ProbeInv, ByteInv
<1> QED
  BY <1>1, <1>2, <1>3, PTL DEF SectionSpec, ProbeTruthful, OnlyProbeRecovered
-----------------------------------------------------------------------------
(* reconciler.c *)

Settled == {"main", "wait"}   \* the main thread is outside kernel_reconciler_declare

\* Before the first declaration no pass has compared anything.
UndeclaredInv == ~declared => mask = {} /\ drifts = 0 /\ ~raced /\ reconciler_pc \in Settled \cup {"declared"}

\* The violations counted while declare runs are none, so that the baseline it stores last
\* is the count it was called with.
BaselineInv ==
  /\ reconciler_pc \notin Settled => violations = adopted
  /\ reconciler_pc \in Settled /\ declared => baseline = adopted

\* Unless a pass ran inside declare, mask and drift count start together from nothing and
\* grow together.
MaskInv ==
  ~raced =>
    /\ reconciler_pc \in {"mask", "baseline"} => drifts = 0
    /\ reconciler_pc = "baseline" => mask = {}
    /\ reconciler_pc \in Settled => /\ drifts > 0 <=> mask # {}
                                    /\ "real_time" \in mask => violations > adopted + declaration.budget

ReconcileInv == ReconcilerTypeOK /\ UndeclaredInv /\ BaselineInv /\ MaskInv

\* The kernel starts with no declaration and nothing compared.
LEMMA ReconcileInitInv == ASSUME ReconcilerAssumption PROVE ReconcilerInit => ReconcileInv
<1> SUFFICES ASSUME ReconcilerInit PROVE ReconcileInv
  OBVIOUS
<1>1. queues \in Seq(QueueNames) /\ Len(queues) <= MaxQueues
  BY DEF ReconcilerInit, ReconcilerAssumption
<1>2. /\ 0 \in 0 .. MaxViolations /\ 0 \in 0 .. MaxPasses /\ 0 \in 0 .. SamplePeriod - 1
      /\ 0 \in 0 .. WaitLimit
  BY DEF ReconcilerAssumption
<1>3. ReconcilerTypeOK
  BY <1>1, <1>2 DEF ReconcilerInit, ReconcilerTypeOK
<1>4. UndeclaredInv /\ BaselineInv
  BY DEF ReconcilerInit, UndeclaredInv, BaselineInv, Settled
<1>5. MaskInv
  <2>1. drifts = 0 /\ mask = {} /\ reconciler_pc = "main"
    BY DEF ReconcilerInit
  <2> QED
    BY <2>1 DEF MaskInv
<1> QED
  BY <1>3, <1>4, <1>5 DEF ReconcileInv

\* What one pass compares is an invariant it knows, and what it says of the real-time
\* budget is the truth when the baseline is the count that was adopted.
LEMMA DriftedFacts ==
  ASSUME ReconcilerAssumption, ReconcilerTypeOK
  PROVE  /\ Drifted \subseteq Invariants
         /\ "real_time" \in Drifted /\ baseline = adopted
              => violations > adopted + declaration.budget
<1>1. Drifted \subseteq Invariants
  BY DEF Drifted, Invariants, Facts, ReconcilerTypeOK
<1>2. "real_time" \in Drifted => ViolationsSince > declaration.budget
  BY DEF Drifted
<1>3. baseline \in Nat /\ violations \in Nat /\ declaration.budget \in Nat
  BY DEF ReconcilerTypeOK, ReconcilerAssumption
<1>4. ViolationsSince > declaration.budget => violations > baseline + declaration.budget
  BY <1>3 DEF ViolationsSince
<1> QED
  BY <1>1, <1>2, <1>4

\* Outside declare the main thread touches neither mask nor counts, and can only add
\* violations.
LEMMA WorldStep ==
  ASSUME ReconcilerAssumption, ReconcileInv,
         \/ kernel_backpressure_reset
         \/ \E q \in QueueNames : kernel_backpressure_register(q)
         \/ \E q \in DropCorrupts : Drop(q)
         \/ Report \/ ReportEnds \/ HotLoopViolation
         \/ \E f \in Breakable : Break(f) \/ Mend(f)
         \/ DeviceInterrupt
  PROVE  ReconcileInv' /\ mask' = mask
<1>1. /\ UNCHANGED <<declaration, declared, baseline, passes, drifts, mask, periodic, tick, adopted, raced>>
      /\ \/ reconciler_pc' = reconciler_pc
         \/ reconciler_pc \in Settled /\ reconciler_pc' \in Settled
      /\ \/ violations' = violations
         \/ reconciler_pc \in Settled /\ violations < MaxViolations /\ violations' = violations + 1
  BY DEF kernel_backpressure_reset, kernel_backpressure_register, Drop,
         Report, ReportEnds, HotLoopViolation, Break,
         Mend, DeviceInterrupt, DeclareStep, counts,
         world, Settled
<1>2. queues' \in Seq(QueueNames) /\ Len(queues') <= MaxQueues
  <2>0. queues \in Seq(QueueNames) /\ Len(queues) <= MaxQueues /\ MaxQueues \in Nat
    BY DEF ReconcileInv, ReconcilerTypeOK, ReconcilerAssumption
  <2>1. CASE \E q \in QueueNames : kernel_backpressure_register(q)
    <3>1. PICK q \in QueueNames : queues' = Append(queues, q) /\ Len(queues) < MaxQueues
      BY <2>1 DEF kernel_backpressure_register
    <3> QED
      BY <2>0, <3>1
  <2>2. CASE queues' = <<>>
    BY <2>0, <2>2
  <2>3. CASE queues' = queues
    BY <2>0, <2>3
  <2> QED
    BY <2>1, <2>2, <2>3
       DEF kernel_backpressure_reset, Drop, Report,
           ReportEnds, HotLoopViolation, Break, Mend,
           DeviceInterrupt, world
<1>3. dropped' \subseteq QueueNames /\ broken' \subseteq Facts
  BY DEF kernel_backpressure_reset, kernel_backpressure_register, Drop,
         Report, ReportEnds, HotLoopViolation, Break,
         Mend, DeviceInterrupt, world, ReconcileInv, ReconcilerTypeOK,
         ReconcilerAssumption
<1>4. spin' \in 0 .. WaitLimit
  <2>1. spin' \in {0, spin} \/ Waited
    BY DEF kernel_backpressure_reset, kernel_backpressure_register, Drop,
           Report, ReportEnds, HotLoopViolation, Break,
           Mend, DeviceInterrupt
  <2>2. spin \in 0 .. WaitLimit /\ WaitLimit \in Nat
    BY DEF ReconcileInv, ReconcilerTypeOK, ReconcilerAssumption
  <2> QED
    BY <2>1, <2>2 DEF Waited
<1>5. violations' \in 0 .. MaxViolations /\ violations' >= violations
  <2>1. violations \in 0 .. MaxViolations /\ MaxViolations \in Nat
    BY DEF ReconcileInv, ReconcilerTypeOK, ReconcilerAssumption
  <2> QED
    BY <1>1, <2>1
<1>6. ReconcilerTypeOK'
  BY <1>1, <1>2, <1>3, <1>4, <1>5 DEF ReconcileInv, ReconcilerTypeOK, Settled
<1>7. UndeclaredInv' /\ BaselineInv'
  BY <1>1 DEF ReconcileInv, UndeclaredInv, BaselineInv, Settled
<1>8. MaskInv'
  <2>1. adopted \in Nat /\ declaration.budget \in Nat /\ violations \in Nat /\ violations' \in Nat
    BY <1>5 DEF ReconcileInv, ReconcilerTypeOK, ReconcilerAssumption
  <2>2. violations > adopted + declaration.budget => violations' > adopted + declaration.budget
    BY <1>5, <2>1
  <2> QED
    BY <1>1, <2>2 DEF ReconcileInv, MaskInv, Settled
<1> QED
  BY <1>1, <1>6, <1>7, <1>8 DEF ReconcileInv

\* The statements of declare, in their order.
LEMMA DeclareKeeps ==
  ASSUME ReconcilerAssumption, ReconcileInv,
         \/ \E d \in Declarations : Declare(d)
         \/ SetDeclared \/ ClearPasses \/ ClearDrifts
         \/ ClearMask \/ SetBaseline
  PROVE  ReconcileInv' /\ (reconciler_pc # "mask" => mask' = mask)
<1> USE DEF DeclareStep, counts, world
<1>1. UNCHANGED <<violations, dropped, queues, broken, spin, periodic, tick>>
  BY DEF Declare, SetDeclared, ClearPasses, ClearDrifts,
         ClearMask, SetBaseline
<1>2. ReconcilerTypeOK'
  <2>1. 0 \in 0 .. MaxPasses
    BY DEF ReconcilerAssumption
  <2>2. /\ declaration' \in [budget : Nat, protection : BOOLEAN, write_protect : BOOLEAN]
        /\ declared' \in BOOLEAN /\ raced' \in BOOLEAN
        /\ baseline' \in 0 .. MaxViolations /\ adopted' \in 0 .. MaxViolations
        /\ mask' \subseteq Invariants
        /\ passes' \in {passes, 0} /\ drifts' \in {drifts, 0}
        /\ reconciler_pc' \in {"main", "declared", "passes", "drifts", "mask", "baseline", "wait"}
    BY DEF Declare, SetDeclared, ClearPasses, ClearDrifts,
           ClearMask, SetBaseline, ReconcileInv, ReconcilerTypeOK,
           ReconcilerAssumption
  <2> QED
    BY <1>1, <2>1, <2>2 DEF ReconcileInv, ReconcilerTypeOK
<1>3. UndeclaredInv' /\ BaselineInv' /\ MaskInv' /\ (reconciler_pc # "mask" => mask' = mask)
  <2> USE DEF ReconcileInv, UndeclaredInv, BaselineInv, MaskInv, Settled
  <2>1. CASE \E d \in Declarations : Declare(d)
    <3>1. /\ reconciler_pc = "main" /\ reconciler_pc' = "declared" /\ adopted' = violations /\ violations' = violations
          /\ UNCHANGED <<declared, drifts, mask, raced>>
      BY <2>1 DEF Declare
    <3>2. UndeclaredInv'
      BY <3>1
    <3>3. BaselineInv' /\ MaskInv'
      BY <3>1
    <3> QED
      BY <3>1, <3>2, <3>3
  <2>2. CASE SetDeclared
    BY <2>2 DEF SetDeclared
  <2>3. CASE ClearPasses
    BY <2>3 DEF ClearPasses
  <2>4. CASE ClearDrifts
    BY <2>4 DEF ClearDrifts
  <2>5. CASE ClearMask
    BY <2>5 DEF ClearMask
  <2>6. CASE SetBaseline
    <3>1. /\ reconciler_pc = "baseline" /\ reconciler_pc' = "main" /\ baseline' = violations /\ violations' = violations
          /\ UNCHANGED <<declared, drifts, mask, raced, adopted>>
      BY <2>6 DEF SetBaseline
    <3>2. UndeclaredInv' /\ BaselineInv'
      BY <3>1
    <3>3. ~raced => drifts = 0 /\ mask = {}
      BY <3>1
    <3>4. MaskInv'
      BY <3>1, <3>3
    <3> QED
      BY <3>1, <3>2, <3>4
  <2> QED
    BY <2>1, <2>2, <2>3, <2>4, <2>5, <2>6
<1> QED
  BY <1>2, <1>3 DEF ReconcileInv

\* A tick, with or without a pass, between any two statements of the main thread.
LEMMA TickKeeps ==
  ASSUME ReconcilerAssumption, ReconcileInv, Tick
  PROVE  ReconcileInv' /\ mask \subseteq mask'
<1>1. UNCHANGED <<reconciler_pc, declaration, declared, baseline, violations, dropped, queues, broken, adopted>>
  BY DEF Tick, world
<1>2. tick' \in 0 .. SamplePeriod - 1 /\ spin' \in 0 .. WaitLimit /\ periodic' \in BOOLEAN
  <2>1. /\ tick \in 0 .. SamplePeriod - 1 /\ SamplePeriod \in Nat \ {0}
        /\ spin \in 0 .. WaitLimit /\ WaitLimit \in Nat
    BY DEF ReconcileInv, ReconcilerTypeOK, ReconcilerAssumption
  <2>2. tick' \in 0 .. SamplePeriod - 1
    BY <2>1 DEF Tick
  <2>3. spin' \in 0 .. WaitLimit
    BY <2>1 DEF Tick, Waited
  <2>4. periodic' \in BOOLEAN
    BY DEF Tick, ReconcileInv, ReconcilerTypeOK
  <2> QED
    BY <2>2, <2>3, <2>4
<1>3. CASE UNCHANGED <<mask, passes, drifts, raced>>
  <2>1. ReconcilerTypeOK'
    BY <1>1, <1>2, <1>3 DEF ReconcileInv, ReconcilerTypeOK
  <2> QED
    BY <1>1, <1>3, <2>1 DEF ReconcileInv, UndeclaredInv, BaselineInv, MaskInv
<1>4. CASE declared /\ kernel_reconciler_check
  <2>1. /\ mask' = mask \cup Drifted /\ passes' = Bump(passes)
        /\ drifts' = IF Drifted # {} THEN Bump(drifts) ELSE drifts
        /\ raced' = (raced \/ (reconciler_pc \notin Settled))
    BY <1>4 DEF kernel_reconciler_check, Raise, Settled
  <2>2. passes' \in 0 .. MaxPasses /\ drifts' \in 0 .. MaxPasses
        /\ (drifts' > 0 <=> drifts > 0 \/ Drifted # {})
    <3>1. passes \in 0 .. MaxPasses /\ drifts \in 0 .. MaxPasses /\ MaxPasses \in Nat \ {0}
      BY DEF ReconcileInv, ReconcilerTypeOK, ReconcilerAssumption
    <3>2. \A n \in 0 .. MaxPasses : Bump(n) \in 1 .. MaxPasses
      BY <3>1 DEF Bump
    <3> QED
      BY <2>1, <3>1, <3>2
  <2>3. Drifted \subseteq Invariants
        /\ ("real_time" \in Drifted /\ baseline = adopted
              => violations > adopted + declaration.budget)
    BY DriftedFacts DEF ReconcileInv
  <2>4. ReconcilerTypeOK'
    <3>1. raced' \in BOOLEAN
      BY <2>1
    <3> QED
      BY <1>1, <1>2, <2>1, <2>2, <2>3, <3>1 DEF ReconcileInv, ReconcilerTypeOK
  <2>5. UndeclaredInv' /\ BaselineInv'
    BY <1>1, <1>4 DEF ReconcileInv, UndeclaredInv, BaselineInv
  <2>6. MaskInv'
    <3> SUFFICES ASSUME ~raced' PROVE MaskInv'
      BY DEF MaskInv
    <3>1. ~raced /\ reconciler_pc \in Settled
      BY <2>1
    <3>2. baseline = adopted
      BY <1>4, <3>1 DEF ReconcileInv, BaselineInv
    <3>3. (drifts > 0 <=> mask # {})
          /\ ("real_time" \in mask => violations > adopted + declaration.budget)
      BY <3>1 DEF ReconcileInv, MaskInv
    <3>4. drifts' > 0 <=> mask' # {}
      BY <2>1, <2>2, <3>3
    <3>5. "real_time" \in mask' => violations > adopted + declaration.budget
      BY <2>1, <2>3, <3>2, <3>3
    <3> QED
      BY <1>1, <3>1, <3>4, <3>5 DEF MaskInv, Settled
  <2> QED
    BY <2>1, <2>4, <2>5, <2>6 DEF ReconcileInv
<1> QED
  BY <1>3, <1>4 DEF Tick, kernel_reconciler_check

\* reconciler.c: wherever the ticks fall, unless a pass ran inside declare the mask accuses
\* the real-time budget only when it was exceeded by violations counted since the
\* declaration was adopted, a drift is counted exactly when the mask names one, and only a
\* new declaration takes a name out of the mask.
THEOREM ReconcilerTheorem ==
  ASSUME ReconcilerAssumption
  PROVE  ReconcilerSpec => []NoFalseAlarm /\ DriftIsSticky
<1>1. ReconcilerInit => ReconcileInv
  BY ReconcileInitInv
<1>2. ReconcileInv /\ [ReconcilerNext]_reconciler_vars
        => ReconcileInv' /\ [reconciler_pc # "mask" => mask \subseteq mask']_reconciler_vars
  <2> SUFFICES ASSUME ReconcileInv, [ReconcilerNext]_reconciler_vars
               PROVE  ReconcileInv' /\ [reconciler_pc # "mask" => mask \subseteq mask']_reconciler_vars
    OBVIOUS
  <2>1. CASE ReconcilerNext
    BY <2>1, WorldStep, DeclareKeeps, TickKeeps DEF ReconcilerNext, DeclareSteps
  <2>2. CASE UNCHANGED reconciler_vars
    <3> USE <2>2 DEF reconciler_vars, counts, world, ReconcileInv
    <3>1. ReconcilerTypeOK'
      BY DEF ReconcilerTypeOK
    <3>2. UndeclaredInv' /\ BaselineInv'
      BY DEF UndeclaredInv, BaselineInv
    <3>3. MaskInv'
      BY DEF MaskInv
    <3> QED
      BY <3>1, <3>2, <3>3
  <2> QED
    BY <2>1, <2>2
<1>3. ReconcileInv => NoFalseAlarm
  BY DEF ReconcileInv, MaskInv, Settled, NoFalseAlarm, AlarmExplained, DriftsExplained
<1> QED
  BY <1>1, <1>2, <1>3, PTL DEF ReconcilerSpec, DriftIsSticky
=============================================================================
