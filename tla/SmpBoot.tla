------------------------------ MODULE SmpBoot ------------------------------
(***************************************************************************)
(* Starting the application processors: the retry loop of core/smp.c, the  *)
(* one mailbox and the two acknowledgement words of ap_trampoline.c, the   *)
(* code the APs run (ap_trampoline_blob.S, ap_startup.c) and the tables    *)
(* they fill (ap_bootstrap.c, cpu_topology.c).                             *)
(*                                                                         *)
(* An AP is its logical slot: the slot stands for its APIC id and for its  *)
(* stack.  The three are separate words of the mailbox, written and read   *)
(* one at a time, so they may come from different hand-offs.               *)
(***************************************************************************)
EXTENDS Integers

CONSTANTS APs,          \* 1 .. n, in the order of the bootstrap table
          Dead,         \* APs that the MADT lists and that never start
          MaxAttempts   \* KERNEL_AP_STARTUP_MAX_ATTEMPTS

SmpAssumption ==
  /\ \E n \in 0 .. 255 : APs = 1 .. n   \* APIC ids are bytes
  /\ Dead \subseteq APs
  /\ MaxAttempts \in Nat \ {0}

VARIABLES x2apic,                   \* the processors have an x2APIC, which apic.c turns on
          identity,                 \* the first entry of the boot page directory is present
          smp_pc, current, attempt, \* the BSP: the entry and the attempt it is at
          ack, c_entry,             \* the words at 0x7DF0 and 0x7DF2 hold their magic
          mailbox,                  \* [apic, stack, slot]
          ap,                       \* AP -> where it is
          regs,                     \* AP -> what it has read: [apic, stack, slot]
          online, booted, reported, \* cpu_topology, bootstrap table, ap_startup bitmap
          delivered,                \* the APs the summary counts as delivered
          overtaken                 \* history: the BSP gave up waiting for an AP under way

machine == <<x2apic, identity>>
bspv == <<smp_pc, current, attempt>>
words == <<ack, c_entry>>
tables == <<online, booted, reported>>
smp_vars == <<machine, bspv, words, mailbox, ap, regs, tables, delivered, overtaken>>

Empty == [apic |-> 0, stack |-> 0, slot |-> 0]

SmpInit ==
  /\ x2apic \in BOOLEAN /\ identity = FALSE
  /\ smp_pc = "prepare" /\ current = 0 /\ attempt = 0
  /\ ack = FALSE /\ c_entry = FALSE
  /\ mailbox = Empty
  /\ ap = [a \in APs |-> "halted"]
  /\ regs = [a \in APs |-> Empty]
  /\ online = {} /\ booted = {} /\ reported = {}
  /\ delivered = {} /\ overtaken = FALSE
-----------------------------------------------------------------------------
(* The BSP: kernel_symmetric_multiprocessing_try_start_discovered_aps *)

reset_acknowledgement == ack' = FALSE /\ c_entry' = FALSE

ensure_low_identity_mapping == identity' = TRUE

\* What precedes the loop.  advanced_pic_ipi_is_ready: kernel_initialize calls this only
\* once the local APIC is mapped.
Prepare ==
  /\ smp_pc = "prepare" /\ smp_pc' = "pick"
  /\ ensure_low_identity_mapping
  /\ reset_acknowledgement   \* application_processor_trampoline_install
  /\ UNCHANGED <<x2apic, current, attempt, mailbox, ap, regs, tables, delivered, overtaken>>

\* application_processor_bootstrap_next_unbooted_ap; the table is full after the last.
NextUnbooted ==
  {a \in APs : a > current /\ a \notin booted
                 /\ \A b \in APs : b > current /\ b < a => b \in booted}

Pick ==
  /\ smp_pc = "pick"
  /\ IF NextUnbooted = {}
     THEN smp_pc' = "done" /\ UNCHANGED <<current, attempt>>
     ELSE smp_pc' = "reset" /\ current' \in NextUnbooted /\ attempt' = 1
  /\ UNCHANGED <<machine, words, mailbox, ap, regs, tables, delivered, overtaken>>

ResetAck ==
  /\ smp_pc = "reset" /\ smp_pc' = "apic"
  /\ reset_acknowledgement
  /\ UNCHANGED <<machine, current, attempt, mailbox, ap, regs, tables, delivered, overtaken>>

\* configure_handoff writes the words in this order.
WriteMailbox(field, from, to) ==
  /\ smp_pc = from /\ smp_pc' = to
  /\ mailbox' = [mailbox EXCEPT ![field] = current]
  /\ UNCHANGED <<machine, current, attempt, words, ap, regs, tables, delivered, overtaken>>

\* Mutant: the loop retries for ever.
RetryForever == smp_pc' = "reset" /\ UNCHANGED <<attempt, current>>

\* `continue': the next attempt, or the next AP once they are used up.
Continue ==
  /\ IF attempt < MaxAttempts
     THEN smp_pc' = "reset" /\ attempt' = attempt + 1
     ELSE smp_pc' = "pick" /\ UNCHANGED attempt
  /\ UNCHANGED current

UnderWay(a) == ap[a] \notin {"halted", "loop"}

\* The APIC id that an interrupt command with high word `high' addresses: apic_write_icr
\* stores it in the MMIO register, whose top byte is the id, or in the upper half of the
\* x2APIC's, all of which is.
IdUnit == 256 * 256 * 256   \* 1 << 24
apic_write_icr(high) == IF x2apic THEN high ELSE high \div IdUnit

\* The INIT resets the AP wherever it is, the SIPI starts it; a dead one ignores both.
Restarted(a, to) ==
  LET target == apic_write_icr(a * IdUnit)
  IN IF target \in APs \ Dead THEN [ap EXCEPT ![target] = to] ELSE ap

\* advanced_pic_ipi_wait_delivery: the x2APIC has no delivery status and never fails.
MayFail == ~x2apic

\* send_startup_sequence: it may stop, with nothing, the INIT or a SIPI delivered.
SendOk ==
  /\ smp_pc = "send" /\ smp_pc' = "ack"
  /\ ap' = Restarted(current, "start")
  /\ overtaken' = (overtaken \/ UnderWay(current))
  /\ UNCHANGED <<machine, current, attempt, words, mailbox, regs, tables, delivered>>

SendFailed(upto) ==
  /\ smp_pc = "send" /\ MayFail
  /\ Continue
  /\ ap' = CASE upto = "nothing" -> ap
             [] upto = "init" -> Restarted(current, "halted")
             [] upto = "sipi" -> Restarted(current, "start")
  /\ overtaken' = (overtaken \/ UnderWay(current) \/ (upto = "sipi" /\ current \notin Dead))
  /\ UNCHANGED <<machine, words, mailbox, regs, tables, delivered>>

\* Mutant: the hand-off ends with the first acknowledgement.
AckIsEnough ==
  /\ smp_pc = "ack" /\ ack
  /\ smp_pc' = "pick"
  /\ UNCHANGED <<machine, current, attempt, words, mailbox, ap, regs, tables, delivered, overtaken>>

AckSeen ==
  /\ smp_pc = "ack" /\ ack
  /\ smp_pc' = "c_entry"
  /\ UNCHANGED <<machine, current, attempt, words, mailbox, ap, regs, tables, delivered, overtaken>>

CEntrySeen ==
  /\ smp_pc = "c_entry" /\ c_entry
  /\ smp_pc' = "pick"
  /\ delivered' = delivered \cup {current}
  /\ UNCHANGED <<machine, current, attempt, words, mailbox, ap, regs, tables, overtaken>>

\* Either spin limit is reached.
WaitTimeout ==
  /\ \/ smp_pc = "ack" /\ ~ack
     \/ smp_pc = "c_entry" /\ ~c_entry
  /\ Continue
  /\ overtaken' = (overtaken \/ UnderWay(current))
  /\ UNCHANGED <<machine, words, mailbox, ap, regs, tables, delivered>>

BspStep ==
  \/ Prepare \/ Pick \/ ResetAck
  \/ WriteMailbox("apic", "apic", "stack")
  \/ WriteMailbox("stack", "stack", "slot")
  \/ WriteMailbox("slot", "slot", "send")
  \/ SendOk
  \/ \E upto \in {"nothing", "init", "sipi"} : SendFailed(upto)
  \/ AckSeen \/ CEntrySeen \/ WaitTimeout
-----------------------------------------------------------------------------
(* An AP, from the first instruction of the trampoline to the main loop *)

Trampoline(a) ==
  /\ ap[a] = "start" /\ ap' = [ap EXCEPT ![a] = "acked"]
  /\ ack' = TRUE
  /\ UNCHANGED <<machine, bspv, c_entry, mailbox, regs, tables, delivered, overtaken>>

\* The AP turns paging on while it runs below 1 MiB.
ClearCEntry(a) ==
  /\ ap[a] = "acked" /\ ap' = [ap EXCEPT ![a] = IF identity THEN "stack" ELSE "lost"]
  /\ c_entry' = FALSE
  /\ UNCHANGED <<machine, bspv, ack, mailbox, regs, tables, delivered, overtaken>>

ReadMailbox(a, field, to) ==
  /\ ap[a] = field /\ ap' = [ap EXCEPT ![a] = to]
  /\ regs' = [regs EXCEPT ![a][field] = mailbox[field]]
  /\ UNCHANGED <<machine, bspv, words, mailbox, tables, delivered, overtaken>>

\* application_processor_startup_initialize_cpu, with the ids of the mailbox.
InitializeCpu(a) ==
  /\ ap[a] = "init" /\ ap' = [ap EXCEPT ![a] = "ready"]
  /\ online' = online \cup {regs[a].apic}
  /\ reported' = reported \cup {regs[a].apic}
  /\ booted' = booted \cup {regs[a].slot}
  /\ UNCHANGED <<machine, bspv, words, mailbox, regs, delivered, overtaken>>

EnterMainLoop(a) ==
  /\ ap[a] = "ready" /\ ap' = [ap EXCEPT ![a] = "loop"]
  /\ c_entry' = TRUE
  /\ UNCHANGED <<machine, bspv, ack, mailbox, regs, tables, delivered, overtaken>>

ApStep(a) ==
  \/ Trampoline(a) \/ ClearCEntry(a)
  \/ ReadMailbox(a, "stack", "apic")
  \/ ReadMailbox(a, "apic", "slot")
  \/ ReadMailbox(a, "slot", "init")
  \/ InitializeCpu(a) \/ EnterMainLoop(a)

Done == smp_pc = "done" /\ UNCHANGED smp_vars

SmpNext == BspStep \/ (\E a \in APs : ApStep(a)) \/ Done

\* The BSP keeps executing its loop; an AP need not make progress.
SmpSpec == SmpInit /\ [][SmpNext]_smp_vars /\ WF_smp_vars(BspStep)
-----------------------------------------------------------------------------
OnStack == {a \in APs : ap[a] \in {"apic", "slot", "init", "ready", "loop"}}

\* The program counters, words and tables keep their types; only listed APs are online.
SmpTypeOK ==
  /\ x2apic \in BOOLEAN /\ identity \in BOOLEAN
  /\ smp_pc \in {"prepare", "pick", "reset", "apic", "stack", "slot", "send", "ack", "c_entry", "done"}
  /\ current \in APs \cup {0} /\ attempt \in 0 .. MaxAttempts
  /\ ack \in BOOLEAN /\ c_entry \in BOOLEAN
  /\ mailbox \in [apic : APs \cup {0}, stack : APs \cup {0}, slot : APs \cup {0}]
  /\ ap \in [APs -> {"halted", "start", "acked", "stack", "apic", "slot", "init", "ready", "loop", "lost"}]
  /\ regs \in [APs -> [apic : APs \cup {0}, stack : APs \cup {0}, slot : APs \cup {0}]]
  /\ online \subseteq APs /\ booted \subseteq APs /\ reported \subseteq APs
  /\ delivered \subseteq APs /\ overtaken \in BOOLEAN

\* As long as the BSP has not given up on an AP that was under way, every AP runs on
\* its own stack under its own id and slot, although they share one mailbox, and none was
\* started without the identity mapping its trampoline turns paging on in.
HandoffOwn ==
  ~overtaken =>
    /\ \A a \in APs : ap[a] # "lost"
    /\ \A a \in OnStack : regs[a].stack = a
    /\ \A a \in APs : ap[a] \in {"init", "ready", "loop"} => regs[a] = [apic |-> a, stack |-> a, slot |-> a]

\* As long as the BSP has not given up on an AP that was under way, the APs it counts
\* as delivered are running their main loop, and nothing dead was ever delivered.
DeliveredIsRunning ==
  ~overtaken => \A a \in delivered : ap[a] = "loop" /\ a \in online /\ a \in booted

\* The hand-off of the APs through their one mailbox: as long as the BSP has not given up
\* on an AP that was under way, each runs on its own stack under its own id and slot, and
\* those counted as delivered are running their main loop (ap_bootstrap.c, smp_boot.c).
HandoffIsExclusive == SmpTypeOK /\ HandoffOwn /\ DeliveredIsRunning

\* The boot CPU always gets past the APs, whichever of them stay silent, answer late
\* or cannot be sent to: both waits are bounded, and so are the attempts.
BootEnds == <>(smp_pc = "done")

\* ap_bootstrap.h gives every AP a stack of its own.
OwnStacks == \A a, b \in OnStack : a # b => regs[a].stack # regs[b].stack
=============================================================================
