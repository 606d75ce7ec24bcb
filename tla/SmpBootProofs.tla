--------------------------- MODULE SmpBootProofs ---------------------------
(***************************************************************************)
(* The hand-off of ap_trampoline.c is exclusive for every number of        *)
(* application processors, every set of them that never starts and every   *)
(* number of attempts.                                                     *)
(*                                                                         *)
(* The invariant is not inductive alone: that an AP reads its own stack    *)
(* from the one mailbox needs that no other AP is under way, which needs   *)
(* that the BSP leaves its waits only when the AP is done, which needs     *)
(* what the two acknowledgement words say of the AP it waits for.          *)
(***************************************************************************)
EXTENDS SmpBoot, TLAPS

Trying == {"reset", "apic", "stack", "slot", "send", "ack", "c_entry"}
Waiting == {"ack", "c_entry"}
Acked == {"acked", "stack", "apic", "slot", "init", "ready", "loop"}

\* An AP is under way only after all three words of the mailbox were written, and they
\* and what it has read of them name APs.
SentInv ==
  \A a \in APs :
    /\ ap[a] # "halted" => mailbox.apic \in APs /\ mailbox.stack \in APs /\ mailbox.slot \in APs
    /\ ap[a] \in {"slot", "init", "ready", "loop"} => regs[a].apic \in APs
    /\ ap[a] \in {"init", "ready", "loop"} => regs[a].slot \in APs

\* The identity mapping precedes every start, and a boot processor that tries an AP has
\* one to try.
BspInv ==
  /\ smp_pc # "prepare" => identity
  /\ smp_pc \in Trying => current \in APs /\ attempt \in 1 .. MaxAttempts
  /\ smp_pc \in {"stack", "slot", "send", "ack", "c_entry"} => mailbox.apic = current
  /\ smp_pc \in {"slot", "send", "ack", "c_entry"} => mailbox.stack = current
  /\ smp_pc \in {"send", "ack", "c_entry"} => mailbox.slot = current

\* Only the AP that the BSP waits for is under way, one it has still to try is halted,
\* and the two words tell how far it has come.
ApInv ==
  /\ \A a \in APs : UnderWay(a) => a = current /\ smp_pc \in Waiting
  /\ \A a \in APs : a > current => ap[a] = "halted"
  /\ smp_pc \in Trying \ Waiting => ap[current] = "halted"
  /\ smp_pc \in {"apic", "stack", "slot", "send"} => ~ack /\ ~c_entry
  /\ smp_pc \in Waiting => (ack <=> ap[current] \in Acked) /\ (c_entry <=> ap[current] = "loop")
  /\ smp_pc = "c_entry" => ack

\* What an AP has read so far is its own.
RegsInv ==
  \A a \in APs :
    /\ ap[a] # "lost"
    /\ ap[a] \in {"apic", "slot", "init", "ready", "loop"} => regs[a].stack = a
    /\ ap[a] \in {"slot", "init", "ready", "loop"} => regs[a].apic = a
    /\ ap[a] \in {"init", "ready", "loop"} => regs[a].slot = a
    /\ ap[a] \in {"ready", "loop"} => a \in online /\ a \in booted

\* The APs counted as delivered are behind the BSP, in their main loop.
DeliveredInv ==
  /\ \A a \in delivered : a <= current /\ ap[a] = "loop"
  /\ smp_pc \in Trying => current \notin delivered

Base == SmpTypeOK /\ SentInv /\ BspInv

Exclusive == ApInv /\ RegsInv /\ DeliveredInv

IInv == Base /\ (~overtaken => Exclusive)
-----------------------------------------------------------------------------
\* An interrupt command reaches the AP it names on an xAPIC and none on an x2APIC
\* (apic_write_icr), whose id the shifted one is not.
LEMMA RestartedEffect ==
  ASSUME SmpAssumption, SmpTypeOK, NEW a \in APs, NEW to
  PROVE  Restarted(a, to) = IF ~x2apic /\ a \notin Dead THEN [ap EXCEPT ![a] = to] ELSE ap
<1>1. a \in 1 .. 255 /\ \A b \in APs : b \in 1 .. 255
  BY DEF SmpAssumption
<1>2. /\ IdUnit \in Nat /\ (a * IdUnit) \div IdUnit = a
      /\ a * IdUnit > 255
  BY <1>1 DEF IdUnit
<1>3. CASE x2apic
  <2>1. a * IdUnit \notin APs
    BY <1>1, <1>2
  <2> QED
    BY <2>1, <1>3 DEF Restarted, apic_write_icr
<1>4. CASE ~x2apic
  BY <1>2, <1>4 DEF Restarted, apic_write_icr
<1> QED
  BY <1>3, <1>4

\* The boot starts with every AP halted and nothing in the mailbox.
LEMMA TypeInit == ASSUME SmpAssumption PROVE SmpInit => Base
<1> SUFFICES ASSUME SmpInit PROVE Base
  OBVIOUS
<1> USE DEF SmpInit, SmpAssumption
<1>1. SmpTypeOK
  <2>1. /\ x2apic \in BOOLEAN /\ identity \in BOOLEAN
        /\ ack \in BOOLEAN /\ c_entry \in BOOLEAN /\ overtaken \in BOOLEAN
    OBVIOUS
  <2>2. /\ current \in APs \cup {0} /\ attempt \in 0 .. MaxAttempts
    OBVIOUS
  <2>3. /\ mailbox \in [apic : APs \cup {0}, stack : APs \cup {0}, slot : APs \cup {0}]
        /\ regs \in [APs -> [apic : APs \cup {0}, stack : APs \cup {0}, slot : APs \cup {0}]]
    BY DEF Empty
  <2> QED
    BY <2>1, <2>2, <2>3 DEF SmpTypeOK
<1>2. SentInv
  BY DEF SentInv
<1>3. BspInv
  BY DEF BspInv, Trying, Waiting
<1> QED
  BY <1>1, <1>2, <1>3 DEF Base

\* No step of the boot processor or of an AP breaks the types, reads a mailbox word that
\* was not written, or starts an AP without the identity mapping.
LEMMA BaseStep == ASSUME SmpAssumption, Base, [SmpNext]_smp_vars PROVE Base'
<1> USE DEF Base, SmpTypeOK, SentInv, BspInv, Trying, Waiting, machine, bspv, words, tables
<1>1. CASE Prepare
  BY <1>1 DEF Prepare, ensure_low_identity_mapping, reset_acknowledgement
<1>2. CASE Pick
  BY <1>2 DEF Pick, NextUnbooted, SmpAssumption
<1>3. CASE ResetAck
  BY <1>3 DEF ResetAck, reset_acknowledgement
<1>4. CASE WriteMailbox("apic", "apic", "stack")
  BY <1>4 DEF WriteMailbox
<1>5. CASE WriteMailbox("stack", "stack", "slot")
  BY <1>5 DEF WriteMailbox
<1>6. CASE WriteMailbox("slot", "slot", "send")
  BY <1>6 DEF WriteMailbox
<1>7. CASE SendOk
  <2>1. ap' = ap \/ ap' = [ap EXCEPT ![current] = "start"]
    BY <1>7, RestartedEffect DEF SendOk
  <2> QED
    BY <1>7, <2>1 DEF SendOk, UnderWay
<1>8. ASSUME NEW upto \in {"nothing", "init", "sipi"}, SendFailed(upto) PROVE Base'
  <2>1. \/ ap' = ap
        \/ ap' = [ap EXCEPT ![current] = "start"]
        \/ ap' = [ap EXCEPT ![current] = "halted"]
    BY <1>8, RestartedEffect DEF SendFailed
  <2> QED
    <3>1. /\ current' = current /\ attempt' \in 1 .. MaxAttempts
          /\ smp_pc' \in {"reset", "pick"}
      BY <1>8 DEF SendFailed, Continue, SmpAssumption
    <3>2. UNCHANGED <<machine, words, mailbox, regs, tables, delivered>> /\ overtaken' \in BOOLEAN
      BY <1>8 DEF SendFailed, UnderWay
    <3>3. identity /\ mailbox.apic \in APs /\ mailbox.stack \in APs /\ mailbox.slot \in APs /\ current \in APs
      BY <1>8 DEF SendFailed
    <3> QED
      BY <2>1, <3>1, <3>2, <3>3
<1>9. CASE AckSeen
  BY <1>9 DEF AckSeen
<1>10. CASE CEntrySeen
  BY <1>10 DEF CEntrySeen
<1>11. CASE WaitTimeout
  BY <1>11 DEF WaitTimeout, Continue, UnderWay, SmpAssumption
<1>12. ASSUME NEW a \in APs, Trampoline(a) PROVE Base'
  BY <1>12, SMTT(20) DEF Trampoline
<1>13. ASSUME NEW a \in APs, ClearCEntry(a) PROVE Base'
  BY <1>13 DEF ClearCEntry
<1>14. ASSUME NEW a \in APs, ReadMailbox(a, "stack", "apic") PROVE Base'
  BY <1>14 DEF ReadMailbox
<1>15. ASSUME NEW a \in APs, ReadMailbox(a, "apic", "slot") PROVE Base'
  BY <1>15 DEF ReadMailbox
<1>16. ASSUME NEW a \in APs, ReadMailbox(a, "slot", "init") PROVE Base'
  BY <1>16 DEF ReadMailbox
<1>17. ASSUME NEW a \in APs, InitializeCpu(a) PROVE Base'
  BY <1>17 DEF InitializeCpu
<1>18. ASSUME NEW a \in APs, EnterMainLoop(a) PROVE Base'
  BY <1>18 DEF EnterMainLoop
<1>19. CASE UNCHANGED smp_vars
  BY <1>19 DEF smp_vars
<1> QED
  BY <1>1, <1>2, <1>3, <1>4, <1>5, <1>6, <1>7, <1>8, <1>9, <1>10, <1>11, <1>12, <1>13, <1>14,
     <1>15, <1>16, <1>17, <1>18, <1>19 DEF SmpNext, BspStep, ApStep, Done

\* While the BSP has not given up on an AP under way, no step lets a second AP run, or
\* lets the BSP go on before the one it waits for has entered its main loop.
LEMMA ExclusiveStep ==
  ASSUME SmpAssumption, Base, Base', ~overtaken', ~overtaken => Exclusive, [SmpNext]_smp_vars
  PROVE  Exclusive'
<1> USE DEF Base, SmpTypeOK, BspInv, Trying, Waiting, Acked, UnderWay, machine, bspv, words, tables
<1>0. ~overtaken /\ Exclusive
  BY DEF SmpNext, BspStep, ApStep, Done, smp_vars, Prepare, Pick, ResetAck, WriteMailbox, SendOk,
         SendFailed, AckSeen, CEntrySeen, WaitTimeout, Trampoline, ClearCEntry, ReadMailbox,
         InitializeCpu, EnterMainLoop
<1> USE <1>0 DEF Exclusive, ApInv, RegsInv, DeliveredInv
<1>1. CASE Prepare
  BY <1>1 DEF Prepare, ensure_low_identity_mapping, reset_acknowledgement
<1>2. CASE Pick
  BY <1>2 DEF Pick, NextUnbooted, SmpAssumption
<1>3. CASE ResetAck
  BY <1>3 DEF ResetAck, reset_acknowledgement
<1>4. CASE WriteMailbox("apic", "apic", "stack")
  BY <1>4 DEF WriteMailbox
<1>5. CASE WriteMailbox("stack", "stack", "slot")
  BY <1>5 DEF WriteMailbox
<1>6. CASE WriteMailbox("slot", "slot", "send")
  BY <1>6 DEF WriteMailbox
<1>7. CASE SendOk
  <2>1. ap' = ap \/ ap' = [ap EXCEPT ![current] = "start"]
    BY <1>7, RestartedEffect DEF SendOk
  <2>2. /\ smp_pc = "send" /\ smp_pc' = "ack" /\ current \in APs /\ current' = current
        /\ ~ack' /\ ~c_entry' /\ UNCHANGED <<mailbox, regs, tables, delivered>>
    BY <1>7 DEF SendOk
  <2>3. ap[current] = "halted" /\ current \notin delivered
    BY <2>2
  <2>4. ApInv'
    BY <2>1, <2>2, <2>3, SMTT(30) DEF SmpAssumption
  <2>5. RegsInv'
    BY <2>1, <2>2, <2>3
  <2>6. DeliveredInv'
    BY <2>1, <2>2, <2>3
  <2> QED
    BY <2>4, <2>5, <2>6
<1>8. ASSUME NEW upto \in {"nothing", "init", "sipi"}, SendFailed(upto) PROVE Exclusive'
  <2>0. smp_pc = "send" /\ current \in APs /\ ap[current] = "halted"
    BY <1>8 DEF SendFailed
  <2>1. ap' = ap
    <3>1. CASE upto = "nothing"
      BY <1>8, <3>1 DEF SendFailed
    <3>2. CASE upto = "init"
      <4>1. ap' = Restarted(current, "halted")
        BY <1>8, <3>2 DEF SendFailed
      <4> QED
        BY <4>1, <2>0, RestartedEffect
    <3>3. CASE upto = "sipi"
      <4>1. ap' = Restarted(current, "start") /\ current \in Dead
        BY <1>8, <3>3 DEF SendFailed
      <4> QED
        BY <4>1, <2>0, RestartedEffect
    <3> QED
      BY <1>8, <3>1, <3>2, <3>3
  <2> QED
    BY <1>8, <2>1 DEF SendFailed, Continue
<1>9. CASE AckSeen
  BY <1>9 DEF AckSeen
<1>10. CASE CEntrySeen
  BY <1>10 DEF CEntrySeen, SmpAssumption
<1>11. CASE WaitTimeout
  BY <1>11 DEF WaitTimeout, Continue
<1>12. ASSUME NEW a \in APs, Trampoline(a) PROVE Exclusive'
  BY <1>12, SMTT(20) DEF Trampoline
<1>13. ASSUME NEW a \in APs, ClearCEntry(a) PROVE Exclusive'
  BY <1>13 DEF ClearCEntry
<1>14. ASSUME NEW a \in APs, ReadMailbox(a, "stack", "apic") PROVE Exclusive'
  BY <1>14 DEF ReadMailbox
<1>15. ASSUME NEW a \in APs, ReadMailbox(a, "apic", "slot") PROVE Exclusive'
  BY <1>15 DEF ReadMailbox
<1>16. ASSUME NEW a \in APs, ReadMailbox(a, "slot", "init") PROVE Exclusive'
  BY <1>16 DEF ReadMailbox
<1>17. ASSUME NEW a \in APs, InitializeCpu(a) PROVE Exclusive'
  BY <1>17 DEF InitializeCpu
<1>18. ASSUME NEW a \in APs, EnterMainLoop(a) PROVE Exclusive'
  BY <1>18 DEF EnterMainLoop
<1>19. CASE UNCHANGED smp_vars
  BY <1>19 DEF smp_vars
<1> HIDE DEF Exclusive
<1> QED
  BY <1>1, <1>2, <1>3, <1>4, <1>5, <1>6, <1>7, <1>8, <1>9, <1>10, <1>11, <1>12, <1>13, <1>14,
     <1>15, <1>16, <1>17, <1>18, <1>19 DEF SmpNext, BspStep, ApStep, Done

\* Both together are an inductive invariant of the boot.
LEMMA IInvInvariant == ASSUME SmpAssumption PROVE SmpSpec => []IInv
<1>1. SmpInit => IInv
  <2> SUFFICES ASSUME SmpInit PROVE Exclusive
    BY TypeInit DEF IInv
  <2> QED
    BY DEF SmpInit, Exclusive, ApInv, RegsInv, DeliveredInv, UnderWay, Trying, Waiting
<1>2. IInv /\ [SmpNext]_smp_vars => IInv'
  BY BaseStep, ExclusiveStep DEF IInv
<1> QED
  BY <1>1, <1>2, PTL DEF SmpSpec

\* However many APs the firmware lists, whichever of them never start and however often
\* each is tried, as long as the BSP has not given up on an AP that was under way
\* (kernel_symmetric_multiprocessing_try_start_discovered_aps), every AP runs on its own
\* stack under its own id and slot, and the ones counted as delivered run their loop.
THEOREM HandoffTheorem ==
  ASSUME SmpAssumption
  PROVE  SmpSpec => []HandoffIsExclusive
<1>1. IInv => HandoffIsExclusive
  <2> SUFFICES ASSUME IInv PROVE HandoffOwn /\ DeliveredIsRunning
    BY DEF IInv, Base, HandoffIsExclusive
  <2>1. HandoffOwn
    BY DEF IInv, Base, SmpTypeOK, Exclusive, RegsInv, HandoffOwn, OnStack
  <2>2. DeliveredIsRunning
    BY DEF IInv, Base, SmpTypeOK, Exclusive, RegsInv, DeliveredInv, DeliveredIsRunning
  <2> QED
    BY <2>1, <2>2
<1> QED
  BY <1>1, IInvInvariant, PTL

\* So what ap_bootstrap.h promises, a stack of its own for every AP, can only fail after
\* the BSP has given up on an AP that was under way.
THEOREM OwnStacksUnlessOvertaken ==
  ASSUME SmpAssumption
  PROVE  SmpSpec => [](~overtaken => OwnStacks)
<1>1. HandoffIsExclusive => (~overtaken => OwnStacks)
  BY DEF HandoffIsExclusive, HandoffOwn, OwnStacks, OnStack
<1> QED
  BY <1>1, HandoffTheorem, PTL
=============================================================================
