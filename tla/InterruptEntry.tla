--------------------------- MODULE InterruptEntry ---------------------------
(***************************************************************************)
(* The way into the kernel and back: the descriptor tables of gdt.c and    *)
(* idt.c, the entry stubs of isr_stubs.s, the dispatch of isr.c, and the   *)
(* exceptions of exception.c, on the boot processor and on the others.     *)
(*                                                                         *)
(* A context is a symbolic instruction pointer, register set and FPU       *)
(* state.  The words of an interrupt frame are pushed and popped one by    *)
(* one, so that a stub that does not fit its vector shifts the frame; the  *)
(* eight words of pusha are one.  There is one FXSAVE area for all         *)
(* processors.  An application processor never executes lidt: its IDTR is  *)
(* as INIT left it.                                                        *)
(***************************************************************************)
EXTENDS Integers, Sequences, TLC

CONSTANTS Bsp, APs,
          Faults,        \* the exceptions an erring instruction of the kernel may raise
          Lines,         \* the vectors of the device interrupts that are unmasked
          TssBytes,      \* the bytes the address of the task state segment is made of
          MaxInterrupts  \* bound on the interrupts and exceptions taken

CPUs == APs \cup {Bsp}

\* What the processor does: the exceptions for which it pushes an error code (external).
CpuPushesError == {8, 10, 11, 12, 13, 14, 17, 21}

EntryAssumption ==
  /\ Bsp \notin APs /\ MaxInterrupts \in Nat
  /\ Faults \subseteq 0 .. 31 /\ Lines \subseteq 32 .. 255
  /\ TssBytes \subseteq 0 .. 255

TssBases == [1 .. 4 -> TssBytes]

VARIABLES
  pc,            \* how far kernel_initialize has come on the boot processor
  gdt,           \* selector -> descriptor
  idt,           \* the vectors with a gate
  idtr,          \* CPU -> "reset" or "kernel"
  g_isr_table,   \* vector -> handler, a partial function
  isr_fpu_save_area,
  mode,          \* CPU -> where it is on the way through isr_common_stub
  eip, regs, ds, fpu, interrupt_flag,   \* CPU -> its context
  stack,         \* CPU -> the words on its stack above the interrupted code
  ipi,           \* AP -> vector 0x40 is pending
  taken,         \* interrupts and exceptions taken so far
  raised         \* history: CPU -> vector, error code and eip of the last one taken

tables == <<gdt, idt, idtr, g_isr_table>>
context == <<eip, regs, ds, fpu, interrupt_flag>>
vars == <<pc, tables, isr_fpu_save_area, mode, context, stack, ipi, taken, raised>>

KernelCode == 8
KernelData == 16
UserCode == 24
UserData == 32
TssSelector == 40
-----------------------------------------------------------------------------
(* The global descriptor table *)

\* global_descriptor_table_encode_entry; base is a sequence of four bytes, lowest first.
encode_entry(base, limit, access, flags) ==
  LET clamped == IF limit > 1048575 THEN 1048575 ELSE limit IN
  [limit_low   |-> clamped % 65536,
   base_low    |-> base[1] + 256 * base[2],
   base_middle |-> base[3],
   base_high   |-> base[4],
   access      |-> access,
   flags       |-> ((clamped \div 65536) % 16) + (flags \div 16) * 16]

Flat == <<0, 0, 0, 0>>
global_descriptor_table_initialize(tss) ==
  (0           :> encode_entry(Flat, 0, 0, 0)) @@
  (KernelCode  :> encode_entry(Flat, 1048575, 154, 192)) @@
  (KernelData  :> encode_entry(Flat, 1048575, 146, 192)) @@
  (UserCode    :> encode_entry(Flat, 1048575, 250, 192)) @@
  (UserData    :> encode_entry(Flat, 1048575, 242, 192)) @@
  (TssSelector :> encode_entry(tss, 103, 137, 64))

\* What print_gdt_entry and write_gdt_entry put together again.
Bit(byte, n) == (byte \div 2^n) % 2 = 1
access_byte_decoded(access) ==
  [present |-> Bit(access, 7), dpl |-> (access \div 32) % 4,
   kind |-> IF ~Bit(access, 4) THEN "System" ELSE IF Bit(access, 3) THEN "Code" ELSE "Data",
   read_write |-> Bit(access, 1)]
flags_decoded(flags) ==
  [granularity |-> Bit(flags, 7), default_big |-> Bit(flags, 6), long_mode |-> Bit(flags, 5)]
gdt_entry(e) ==
  [base   |-> <<e.base_low % 256, e.base_low \div 256, e.base_middle, e.base_high>>,
   limit  |-> e.limit_low + 65536 * (e.flags % 16),
   access |-> access_byte_decoded(e.access),
   flags  |-> flags_decoded(e.flags)]
-----------------------------------------------------------------------------
(* Boot *)

\* interrupt_descriptor_table_initialize
Gates == (0 .. 31) \cup (32 .. 47) \cup {64, 128}

\* interrupt_exception_initialize, and the vectors interrupt_request_initialize,
\* the keyboard, the mouse and the clock register.
Exceptions == [v \in {1, 3, 6, 8, 13} |-> "panic"] @@ (14 :> "page_fault")
IrqHandlers == [v \in {32, 33, 39, 40, 44, 47} |-> "device"]

Init ==
  /\ pc = "gdt"
  /\ gdt \in {global_descriptor_table_initialize(tss) : tss \in TssBases}
  /\ idt = {} /\ idtr = [c \in CPUs |-> "reset"] /\ g_isr_table = <<>>
  /\ isr_fpu_save_area = "zero"
  /\ mode = [c \in CPUs |-> IF c = Bsp THEN "run" ELSE "off"]
  /\ eip = [c \in CPUs |-> "code"] /\ regs = [c \in CPUs |-> "own"]
  /\ ds = [c \in CPUs |-> KernelData] /\ fpu = [c \in CPUs |-> "own"]
  /\ interrupt_flag = [c \in CPUs |-> FALSE]
  /\ stack = [c \in CPUs |-> <<>>] /\ ipi = [c \in APs |-> FALSE]
  /\ taken = 0 /\ raised = [c \in CPUs |-> <<>>]

BootStep(from, to) == pc = from /\ pc' = to /\ mode[Bsp] = "run"

LoadIdt ==
  /\ BootStep("gdt", "idt")
  /\ idt' = Gates /\ idtr' = [idtr EXCEPT ![Bsp] = "kernel"]
  /\ UNCHANGED <<gdt, g_isr_table, isr_fpu_save_area, mode, context, stack, ipi, taken, raised>>

interrupt_request_initialize ==
  /\ BootStep("idt", "irq")
  /\ g_isr_table' = Exceptions @@ IrqHandlers
  /\ interrupt_flag' = [interrupt_flag EXCEPT ![Bsp] = TRUE]
  /\ UNCHANGED <<gdt, idt, idtr, isr_fpu_save_area, mode, eip, regs, ds, fpu, stack, ipi, taken,
                 raised>>

advanced_pic_ipi_initialize ==
  /\ BootStep("irq", "ipi")
  /\ g_isr_table' = g_isr_table @@ (64 :> "ipi")
  /\ UNCHANGED <<gdt, idt, idtr, isr_fpu_save_area, mode, context, stack, ipi, taken, raised>>

\* The trampoline, then application_processor_startup_main_loop: cr3, the local APIC, sti.
StartAp(c) ==
  /\ pc = "ipi" /\ mode[Bsp] = "run" /\ mode[c] = "off"
  /\ mode' = [mode EXCEPT ![c] = "run"]
  /\ interrupt_flag' = [interrupt_flag EXCEPT ![c] = TRUE]
  /\ UNCHANGED <<pc, tables, isr_fpu_save_area, eip, regs, ds, fpu, stack, ipi, taken, raised>>

\* The store of kernel_section_protection_probe_write, the one instruction meant to fault.
Probe ==
  /\ pc = "ipi" /\ mode[Bsp] = "run" /\ eip[Bsp] = "code"
  /\ eip' = [eip EXCEPT ![Bsp] = "probe"]
  /\ UNCHANGED <<pc, tables, isr_fpu_save_area, mode, regs, ds, fpu, interrupt_flag, stack, ipi,
                 taken, raised>>

\* The instructions after the one resumed at.
GoOn ==
  /\ mode[Bsp] = "run" /\ eip[Bsp] = "resume"
  /\ eip' = [eip EXCEPT ![Bsp] = "code"]
  /\ UNCHANGED <<pc, tables, isr_fpu_save_area, mode, regs, ds, fpu, interrupt_flag, stack, ipi,
                 taken, raised>>

SendShootdown ==
  /\ pc = "ipi" /\ mode[Bsp] = "run"
  /\ ipi' = [c \in APs |-> ipi[c] \/ mode[c] = "run"]
  /\ ipi' # ipi
  /\ UNCHANGED <<pc, tables, isr_fpu_save_area, mode, context, stack, taken, raised>>
-----------------------------------------------------------------------------
(* Entry *)

\* A vector without a gate raises #NP instead, whose error code names it.
Vector(v) == IF v \in idt THEN v ELSE 11
ErrorCode(v) == IF v \notin idt THEN 8 * v + 2 ELSE IF v \in CpuPushesError THEN 1 ELSE 0

\* The macros: ISR_ERR pushes the vector, ISR_NOERR a dummy 0 first.
ISR_ERR == {8, 10, 11, 12, 13, 14, 17, 21}
StubPushes(v) == IF v \in ISR_ERR THEN <<v>> ELSE <<0, v>>

\* Pushed, in this order: eflags, cs, eip and the error code by the processor, the
\* stub's words, then pusha and ds; the segment registers get the kernel's selector.
Enter(c, v) ==
  /\ taken < MaxInterrupts /\ taken' = taken + 1
  /\ IF idtr[c] = "reset"
     THEN /\ mode' = [mode EXCEPT ![c] = "shutdown"]
          /\ UNCHANGED <<context, stack, raised>>
     ELSE LET w == Vector(v)
              cpu == <<interrupt_flag[c], KernelCode, eip[c]>> \o
                     (IF w \in CpuPushesError THEN <<ErrorCode(v)>> ELSE <<>>) IN
          /\ stack' = [stack EXCEPT ![c] = @ \o cpu \o StubPushes(w) \o <<regs[c], ds[c]>>]
          /\ raised' = [raised EXCEPT ![c] = <<w, ErrorCode(v), eip[c]>>]
          /\ mode' = [mode EXCEPT ![c] = "entered"]
          /\ interrupt_flag' = [interrupt_flag EXCEPT ![c] = FALSE]
          /\ eip' = [eip EXCEPT ![c] = "handler"] /\ regs' = [regs EXCEPT ![c] = "handler"]
          /\ ds' = [ds EXCEPT ![c] = KernelData]
          /\ UNCHANGED fpu
  /\ UNCHANGED <<pc, tables, isr_fpu_save_area>>

DeviceInterrupt(v) ==
  /\ mode[Bsp] = "run" /\ interrupt_flag[Bsp] /\ pc \in {"irq", "ipi"}
  /\ Enter(Bsp, v) /\ UNCHANGED ipi

Shootdown(c) ==
  /\ mode[c] = "run" /\ interrupt_flag[c] /\ ipi[c]
  /\ Enter(c, 64) /\ ipi' = [ipi EXCEPT ![c] = FALSE]

\* The probe's store, and an error of the kernel, in its own code or in a handler.
Fault(c, v) ==
  /\ mode[c] \in {"run", "handling"} /\ idtr[c] = "kernel"
  /\ IF eip[c] = "probe" THEN v = 14 ELSE v \in Faults
  /\ Enter(c, v) /\ UNCHANGED ipi

FxSave(c) ==
  /\ mode[c] = "entered" /\ mode' = [mode EXCEPT ![c] = "saved"]
  /\ isr_fpu_save_area' = fpu[c]
  /\ UNCHANGED <<pc, tables, context, stack, ipi, taken, raised>>

\* InterruptFrame_t, from the lowest address up.
Frame(c) ==
  LET s == stack[c]  top == Len(s) IN
  [ds |-> s[top], regs |-> s[top - 1], int_no |-> s[top - 2], err_code |-> s[top - 3],
   eip |-> s[top - 4], cs |-> s[top - 5], eflags |-> s[top - 6]]

Handler(c) ==
  LET v == Frame(c).int_no IN IF v \in DOMAIN g_isr_table THEN g_isr_table[v] ELSE "default"

\* exception_halt_forever, after the report: cli, then hlt for ever.
Halt(c) ==
  /\ mode' = [mode EXCEPT ![c] = "halted"]
  /\ UNCHANGED <<pc, tables, isr_fpu_save_area, context, stack, ipi, taken, raised>>

isr_default_handler(c) == mode[c] = "saved" /\ Handler(c) = "default" /\ Halt(c)

\* exception_handle_double_fault, _debug_exception, _breakpoint, _invalid_opcode and
\* _general_protection_fault
exception_handle(c) == mode[c] = "saved" /\ Handler(c) = "panic" /\ Halt(c)

\* interrupt_frame_set_resume_address writes the eip of the live frame.
interrupt_frame_set_resume_address(c) ==
  /\ stack' = [stack EXCEPT ![c][Len(stack[c]) - 4] = "resume"]
  /\ mode' = [mode EXCEPT ![c] = "handling"] /\ fpu' = [fpu EXCEPT ![c] = "handler"]
  /\ UNCHANGED <<pc, tables, isr_fpu_save_area, eip, regs, ds, interrupt_flag, ipi, taken, raised>>

\* Only the fault of the probe's store is recovered from.
exception_handle_page_fault(c) ==
  /\ mode[c] = "saved" /\ Handler(c) = "page_fault"
  /\ IF Frame(c).eip = "probe" THEN interrupt_frame_set_resume_address(c) ELSE Halt(c)

\* The handler's C code, compiled with SSE.
Dispatch(c) ==
  /\ mode[c] = "saved" /\ Handler(c) \in {"device", "ipi"}
  /\ mode' = [mode EXCEPT ![c] = "handling"] /\ fpu' = [fpu EXCEPT ![c] = "handler"]
  /\ UNCHANGED <<pc, tables, isr_fpu_save_area, eip, regs, ds, interrupt_flag, stack, ipi, taken,
                 raised>>

\* Mutant: the FPU state is not restored.
NoFxRestore(c) == UNCHANGED fpu
FxRestore(c) == fpu' = [fpu EXCEPT ![c] = isr_fpu_save_area]

\* fxrstor, then the pops: ds, popa, the vector and the error code, and iret.
Return(c) ==
  /\ mode[c] = "handling"
  /\ FxRestore(c)
  /\ ds' = [ds EXCEPT ![c] = Frame(c).ds] /\ regs' = [regs EXCEPT ![c] = Frame(c).regs]
  /\ eip' = [eip EXCEPT ![c] = Frame(c).eip]
  /\ interrupt_flag' = [interrupt_flag EXCEPT ![c] = Frame(c).eflags]
  /\ stack' = [stack EXCEPT ![c] = SubSeq(@, 1, Len(@) - 7)]
  /\ mode' = [mode EXCEPT ![c] = IF Frame(c).eip = "handler" THEN "handling" ELSE "run"]
  /\ UNCHANGED <<pc, tables, isr_fpu_save_area, ipi, taken, raised>>

Next ==
  \/ LoadIdt \/ interrupt_request_initialize \/ advanced_pic_ipi_initialize
  \/ \E c \in APs : StartAp(c) \/ Shootdown(c)
  \/ Probe \/ GoOn \/ SendShootdown
  \/ \E v \in Lines : DeviceInterrupt(v)
  \/ \E c \in CPUs : \/ \E v \in Faults \cup {14} : Fault(c, v)
                     \/ FxSave(c) \/ isr_default_handler(c) \/ exception_handle(c)
                     \/ exception_handle_page_fault(c) \/ Dispatch(c) \/ Return(c)

Spec == Init /\ [][Next]_vars
-----------------------------------------------------------------------------
\* The variables keep their types; there is a kernel frame on the stack of a processor
\* that is on its way through isr_common_stub.
TypeOK ==
  /\ pc \in {"gdt", "idt", "irq", "ipi"} /\ idtr \in [CPUs -> {"reset", "kernel"}]
  /\ mode \in [CPUs -> {"off", "run", "entered", "saved", "handling", "halted", "shutdown"}]
  /\ eip \in [CPUs -> {"code", "probe", "resume", "handler"}]
  /\ fpu \in [CPUs -> {"own", "handler"}] /\ interrupt_flag \in [CPUs -> BOOLEAN]
  /\ \A c \in CPUs : mode[c] \in {"entered", "saved", "handling"} => Len(stack[c]) >= 7

\* interrupt_service_routine_dispatch is given the vector, the error code (0 where the
\* processor has none) and the instruction pointer of what happened, whichever macro
\* made the stub.
FrameExact ==
  \A c \in CPUs : mode[c] = "saved" =>
    raised[c] = <<Frame(c).int_no, Frame(c).err_code, Frame(c).eip>>

\* An interrupted processor goes on as if nothing had happened: its stack is as it was,
\* its registers, its data segment and its FPU state are its own, interrupts are on
\* again, and only the probe's faulting store is stepped over.  There is one FXSAVE
\* area, so this rests on no two entries through it being open at once: a handler is
\* not interrupted, and one that faults never returns.
InterruptTransparent ==
  \A c \in CPUs : mode[c] = "run" =>
    /\ stack[c] = <<>> /\ regs[c] = "own" /\ ds[c] = KernelData /\ fpu[c] = "own"
    /\ interrupt_flag[c] = (c # Bsp \/ pc \in {"irq", "ipi"})
    /\ eip[c] = "resume" => raised[c] # <<>> /\ raised[c][3] \in {"probe", "resume"}

\* Each selector the entry code loads names a present segment of its kind and ring, and
\* the task state segment's base and limit come out of its split fields as they went in.
SelectorsNameSegments ==
  LET d(s) == gdt_entry(gdt[s]) IN
  /\ \A s \in {KernelCode, KernelData, UserCode, UserData} :
       /\ d(s).access.present /\ d(s).access.read_write
       /\ d(s).access.kind = (IF s \in {KernelCode, UserCode} THEN "Code" ELSE "Data")
       /\ d(s).access.dpl = (IF s \in {KernelCode, KernelData} THEN 0 ELSE 3)
       /\ d(s).base = Flat /\ d(s).limit = 1048575
       /\ d(s).flags = [granularity |-> TRUE, default_big |-> TRUE, long_mode |-> FALSE]
  /\ d(TssSelector).base \in TssBases /\ d(TssSelector).limit = 103
  /\ d(TssSelector).access.kind = "System" /\ d(TssSelector).access.dpl = 0

\* apic_ipi.h: vector 0x40 makes "all other CPUs" invalidate the address.  So one that is
\* sent it comes to the handler, and is not lost on the way.
ShootdownReachesHandler == \A c \in APs : mode[c] # "shutdown"
=============================================================================
