-------------------------- MODULE SectionProtection --------------------------
(***************************************************************************)
(* The read-only sections of kernel/memory/section_protection.c: the loop  *)
(* that protects them, and the probe that writes to a byte, lets the page  *)
(* fault handler step over the store, and puts the byte back.  Interrupt   *)
(* handlers access memory between any two instructions of the probe, and   *)
(* a fault of theirs goes through the same page fault handler.             *)
(* Each page is represented by one byte of it.                             *)
(***************************************************************************)
EXTENDS Integers, Sequences, FiniteSets

CONSTANTS Range,           \* the pages from _kernel_read_only_start to _end, in order
          Data,            \* writable pages
          Targets,         \* the pages that are probed
          HandlerPages,    \* the pages interrupt handlers write to, none of them probed
          WriteProtect,    \* CR0.WP
          Bytes,           \* values of a byte, 0 among them
          MaxProbes        \* bound on the probes

RangePages == {Range[i] : i \in DOMAIN Range}
Pages == RangePages \cup Data

SectionAssumption ==
  /\ Range \in Seq(RangePages) /\ 0 \in Bytes /\ WriteProtect \in BOOLEAN /\ MaxProbes \in Nat
  /\ Targets \subseteq Pages /\ HandlerPages \subseteq Pages \ Targets /\ RangePages \cap Data = {}

NoPage == "none"

VARIABLES section_pc, cursor,    \* the main thread: what it runs, and the loop of apply
          entry,                 \* page table entries: "absent", "rw" or "ro"
          active, read_only_page_count, all_protected,
          byte,                  \* memory
          target, resume_published, armed, recovered,   \* the probe's shared words
          section_before, original, stored, did_fault,  \* and its locals
          halted,                \* the kernel has panicked
          probes, asked          \* history: probes run; the bytes when the last one started

apply_vars == <<cursor, entry, active, read_only_page_count, all_protected>>
shared == <<target, resume_published, armed, recovered>>
locals == <<section_before, original, stored, did_fault>>
section_vars == <<section_pc, apply_vars, byte, shared, locals, halted, probes, asked>>

SectionInit ==
  /\ section_pc = "boot" /\ cursor = 1
  /\ entry \in [Pages -> {"absent", "rw"}] /\ \A p \in Data : entry[p] = "rw"
  /\ active = FALSE /\ read_only_page_count = 0 /\ all_protected = FALSE
  /\ byte \in [Pages -> Bytes]
  /\ target = NoPage /\ resume_published = FALSE /\ armed = FALSE /\ recovered = 0
  /\ section_before = 0 /\ original = 0 /\ stored = FALSE /\ did_fault = FALSE
  /\ halted = FALSE /\ probes = 0 /\ asked = byte
-----------------------------------------------------------------------------
(* kernel_section_protection_apply *)

Apply ==
  /\ section_pc = "boot" /\ ~halted
  /\ active' = FALSE /\ read_only_page_count' = 0 /\ cursor' = 1
  /\ all_protected' = (Range # <<>>)
  /\ section_pc' = IF Range = <<>> THEN "idle" ELSE "apply"
  /\ UNCHANGED <<entry, byte, shared, locals, halted, probes, asked>>

FailPage(p) == all_protected' = FALSE

\* One iteration: paging_set_page_read_only of a present page.
ProtectPage ==
  /\ section_pc = "apply" /\ cursor <= Len(Range) /\ ~halted
  /\ LET p == Range[cursor] IN
       IF entry[p] # "absent"
       THEN /\ entry' = [entry EXCEPT ![p] = "ro"]
            /\ read_only_page_count' = read_only_page_count + 1
            /\ UNCHANGED all_protected
       ELSE FailPage(p) /\ UNCHANGED <<entry, read_only_page_count>>
  /\ cursor' = cursor + 1
  /\ UNCHANGED <<section_pc, active, byte, shared, locals, halted, probes, asked>>

Applied ==
  /\ section_pc = "apply" /\ cursor > Len(Range) /\ ~halted
  /\ active' = all_protected /\ section_pc' = "idle"
  /\ UNCHANGED <<cursor, entry, read_only_page_count, all_protected, byte, shared, locals, halted,
                 probes, asked>>
-----------------------------------------------------------------------------
(* Page faults *)

WriteFaults(p) == entry[p] = "absent" \/ (entry[p] = "ro" /\ WriteProtect)

\* Mutant: any protection fault on a write is taken for the probe's.
AnyWriteRecovered(p, write) == armed /\ resume_published /\ write /\ entry[p] = "ro"
kernel_section_protection_handle_page_fault(p, write) ==
  armed /\ resume_published /\ p = target /\ write /\ entry[p] = "ro"

\* exception_handle_page_fault: the store is stepped over, or the kernel panics.
PageFault(p, write) ==
  IF kernel_section_protection_handle_page_fault(p, write)
  THEN armed' = FALSE /\ recovered' = recovered + 1 /\ UNCHANGED <<halted, target, resume_published>>
  ELSE halted' = TRUE /\ UNCHANGED shared
-----------------------------------------------------------------------------
(* kernel_section_protection_probe_write, one instruction at a time *)

At(from, to) == section_pc = from /\ section_pc' = to /\ ~halted

ReadOriginal(p) ==
  /\ At("idle", "arm") /\ probes < MaxProbes /\ entry[p] # "absent"
  /\ section_before' = recovered /\ original' = byte[p] /\ target' = p
  /\ stored' = FALSE /\ did_fault' = FALSE
  /\ probes' = probes + 1 /\ asked' = byte
  /\ UNCHANGED <<apply_vars, byte, resume_published, armed, recovered, halted>>

ArmProbe ==
  /\ At("arm", "publish") /\ resume_published' = FALSE /\ armed' = TRUE
  /\ UNCHANGED <<apply_vars, byte, target, recovered, locals, halted, probes, asked>>

PublishResume ==
  /\ At("publish", "store") /\ resume_published' = TRUE
  /\ UNCHANGED <<apply_vars, byte, target, armed, recovered, locals, halted, probes, asked>>

StoreZero ==
  /\ At("store", "disarm") /\ stored' = ~WriteFaults(target)
  /\ IF WriteFaults(target)
     THEN PageFault(target, TRUE) /\ UNCHANGED byte
     ELSE byte' = [byte EXCEPT ![target] = 0] /\ UNCHANGED <<shared, halted>>
  /\ UNCHANGED <<apply_vars, section_before, original, did_fault, probes, asked>>

ClearArmed == armed' = FALSE

\* Mutant: a fault of an earlier probe counts.
EverFaulted == recovered # 0
Faulted == recovered # section_before

\* Disarming, and the comparison of the recovered count with the one before.
Disarm ==
  /\ At("disarm", "restore") /\ ClearArmed /\ resume_published' = FALSE
  /\ did_fault' = Faulted
  /\ UNCHANGED <<apply_vars, byte, target, recovered, section_before, original, stored, halted, probes, asked>>

PutBack == byte' = IF did_fault THEN byte ELSE [byte EXCEPT ![target] = original]

Restore ==
  /\ At("restore", "idle") /\ PutBack /\ target' = NoPage
  /\ UNCHANGED <<apply_vars, resume_published, armed, recovered, locals, halted, probes, asked>>
-----------------------------------------------------------------------------
\* An interrupt handler writes to a page of its own; a write that faults is an error of
\* that handler and goes through the page fault handler.
HandlerWrites(p, b) ==
  /\ ~halted
  /\ IF WriteFaults(p) THEN PageFault(p, TRUE) /\ UNCHANGED byte
                       ELSE byte' = [byte EXCEPT ![p] = b] /\ UNCHANGED <<shared, halted>>
  /\ UNCHANGED <<section_pc, apply_vars, locals, probes, asked>>

\* An interrupt handler reads a page that is not there.
HandlerReads(p) ==
  /\ ~halted /\ entry[p] = "absent" /\ PageFault(p, FALSE)
  /\ UNCHANGED <<section_pc, apply_vars, byte, locals, probes, asked>>

SectionNext ==
  \/ Apply \/ ProtectPage \/ Applied
  \/ \E p \in Targets : ReadOriginal(p)
  \/ \E p \in Pages : HandlerReads(p)
  \/ ArmProbe \/ PublishResume \/ StoreZero \/ Disarm \/ Restore
  \/ \E p \in HandlerPages, b \in Bytes : HandlerWrites(p, b)

SectionSpec == SectionInit /\ [][SectionNext]_section_vars
-----------------------------------------------------------------------------
\* The words of the probe have the values their declarations allow, and nothing is armed
\* once a probe is over.
SectionTypeOK ==
  /\ section_pc \in {"boot", "apply", "idle", "arm", "publish", "store", "disarm", "restore"}
  /\ cursor \in 1 .. Len(Range) + 1 /\ entry \in [Pages -> {"absent", "rw", "ro"}]
  /\ active \in BOOLEAN /\ read_only_page_count \in 0 .. Len(Range) /\ all_protected \in BOOLEAN
  /\ byte \in [Pages -> Bytes] /\ target \in Pages \cup {NoPage}
  /\ resume_published \in BOOLEAN /\ armed \in BOOLEAN /\ recovered \in 0 .. MaxProbes
  /\ original \in Bytes /\ stored \in BOOLEAN /\ did_fault \in BOOLEAN /\ halted \in BOOLEAN
  /\ armed => section_pc \in {"publish", "store", "disarm"}

\* Once apply says that the protection is active, every page of the range is read-only
\* and has been counted, even when some page was missing part of the way.
ActiveMeansProtected ==
  active => /\ \A p \in RangePages : entry[p] = "ro"
            /\ read_only_page_count = Len(Range)

\* A probe reports a fault exactly when its store did not happen, whatever interrupts
\* ran around it.
FaultReported == section_pc = "restore" => (did_fault <=> ~stored)

\* Only the probe's own store is ever stepped over; a fault of an interrupt handler
\* ends in the panic, also while a probe is armed.
OnlyProbeRecovered == [][recovered' # recovered => section_pc = "store" /\ section_pc' = "disarm"]_section_vars

\* A probe is over with memory as it was, but for what interrupt handlers wrote to
\* their own pages.
ProbeHarmless ==
  section_pc = "idle" /\ probes > 0 => \A p \in Targets : byte[p] = asked[p]

\* What section protection says is so: once apply reports it active every page of the
\* range is read-only and counted; a probe reports a fault exactly when its store did
\* not happen, whatever interrupts ran around it, and leaves memory as it was; and only
\* the probe's own store is ever stepped over (section_protection.c:70-190).
ProbeTruthful ==
  /\ [](SectionTypeOK /\ ActiveMeansProtected /\ FaultReported /\ ProbeHarmless)
  /\ OnlyProbeRecovered
=============================================================================
