------------------------------ MODULE VirtioGpu ------------------------------
(***************************************************************************)
(* The virtio-gpu display of hal_virtio_gpu.c: bring-up, one command at a  *)
(* time over a split virtqueue, and the frames the engine draws and        *)
(* presents.  The device is an actor of its own.  It takes a published     *)
(* entry, reads the descriptor chain, executes the command and completes   *)
(* it, and the driver may meanwhile do anything it does not wait for.      *)
(*                                                                         *)
(* Every command uses the chain at descriptor 0, so an entry the device    *)
(* takes late reads the chain of a later command.  A surface is the number *)
(* of the frame drawn on it; a pinned buffer is its role.                  *)
(***************************************************************************)
EXTENDS Integers

CONSTANTS QueueSizes,     \* sizes a device may report for its control queue
          Refusals,       \* commands the device may refuse
          PollsTimeOut,   \* whether the device may outlast VIRTIO_GPU_POLL_LIMIT
          Word,           \* 2^16, the width of the ring indices
          MaxFrames, MaxSent   \* bounds: frames drawn, commands sent

Commands == {"info", "create", "attach", "scanout", "transfer", "flush"}

GpuAssumption ==
  /\ QueueSizes \subseteq Nat /\ Refusals \subseteq Commands /\ PollsTimeOut \in BOOLEAN
  /\ Word \in Nat \ {0} /\ {MaxFrames, MaxSent} \subseteq Nat

VARIABLES pc, cmd,        \* where display_init or present is, and its command
          sent, chain,    \* commands sent; the chain at descriptor 0
          avail, doorbell, used, last_used,
          taken, work, step,   \* the device: entries taken, its chain, how far it is
          response,       \* the response cell of each buffer that has one
          pinned,         \* buffers that are allocated
          resource,       \* the host's resource
          frame, host, shown,  \* frames: drawn, transferred, displayed
          goal, presented,     \* frame at the last call of present, and its result
          completed, concluded \* last command completed by the device, and believed so

driver == <<pc, cmd>>
queue == <<sent, chain, avail, doorbell, last_used, concluded>>
device == <<used, taken, work, step, response, resource, host, shown, completed>>
surface == <<frame, goal, presented>>
vars == <<driver, queue, device, pinned, surface>>

AlignUp(value, align) == ((value + align - 1) \div align) * align
\* Descriptor table, available ring and used ring in one page.
RingsFit(size) == LET available == 16 * size
                      usedRing == AlignUp(available + 6 + 2 * size, 16)
                  IN  size # 0 /\ usedRing + 6 + 8 * size <= 4096

NextIndex(i) == (i + 1) % Word

NoChain == [id |-> 0, cmd |-> "info"]

Init ==
  /\ pc = "probe" /\ cmd = "info" /\ sent = 0 /\ chain = NoChain
  /\ avail = 0 /\ doorbell = FALSE /\ used = 0 /\ last_used = 0
  /\ taken = 0 /\ work = NoChain /\ step = "idle" /\ response = [b \in {"info", "cmd"} |-> "none"]
  /\ pinned = {} /\ resource = "none" /\ frame = 0 /\ host = 0 /\ shown = 0
  /\ goal = 0 /\ presented = FALSE /\ completed = 0 /\ concluded = 0

\* A stage of display_init that gives up leaves the software framebuffer to the display.
Stage(at, ok, then) ==
  /\ pc = at /\ pc' = IF ok THEN then ELSE "failed"
  /\ UNCHANGED <<cmd, queue, device, surface>>

Probe == \E found \in BOOLEAN : Stage("probe", found, "map") /\ UNCHANGED pinned
Map == \E common, window \in BOOLEAN : Stage("map", common /\ window, "bringup") /\ UNCHANGED pinned
BringUp == \E features_ok, failed \in BOOLEAN :
             Stage("bringup", features_ok /\ ~failed, "queue") /\ UNCHANGED pinned
SetupQueue == \E size \in QueueSizes, got \in BOOLEAN :
                /\ Stage("queue", RingsFit(size) /\ got, "ok")
                /\ pinned' = IF RingsFit(size) /\ got THEN pinned \cup {"ring"} ELSE pinned
DriverOk == \E status \in BOOLEAN : Stage("ok", status, "send") /\ UNCHANGED pinned
-----------------------------------------------------------------------------
\* The buffers a command needs, and the ones it gives back when it is over.
Needs(c) == CASE c = "info" -> {"info"} [] c = "create" -> {"cmd", "fb"} [] c = "attach" -> {"entries"}
              [] OTHER -> {}
Scratch(c) == CASE c = "info" -> {"info"} [] c = "attach" -> {"entries"} [] OTHER -> {}
Setup == {"create", "attach", "scanout"}
ResponseOf(c) == IF c = "info" THEN "info" ELSE "cmd"

After == [c \in {"info", "create", "attach", "transfer"} |->
            CASE c = "info" -> "create" [] c = "create" -> "attach" [] c = "attach" -> "scanout"
              [] c = "transfer" -> "flush"]

\* What follows a command that is over: the display's geometry is optional, the other
\* stages of create_scanout free what they had, and present reports what it got.
Over(ok) ==
  /\ pinned' = (pinned \ Scratch(cmd)) \ (IF ~ok /\ cmd \in Setup THEN {"cmd", "fb"} ELSE {})
  /\ IF cmd = "info" \/ (ok /\ cmd \in DOMAIN After) THEN pc' = "send" /\ cmd' = After[cmd]
     ELSE pc' = (IF ~ok /\ cmd \in Setup THEN "failed" ELSE "ready") /\ UNCHANGED cmd
  /\ presented' = (ok /\ cmd = "flush")
  /\ UNCHANGED <<frame, goal>>

\* A request is written, its response cell cleared, and the descriptors follow.  A buffer
\* that cannot be had ends the command.
Send ==
  /\ pc = "send" /\ sent < MaxSent
  /\ \E got \in SUBSET Needs(cmd) :
       IF got = Needs(cmd)
       THEN /\ pinned' = pinned \cup got /\ sent' = sent + 1
            /\ chain' = [id |-> sent + 1, cmd |-> cmd]
            /\ response' = [response EXCEPT ![ResponseOf(cmd)] = "none"]
            /\ pc' = "publish" /\ UNCHANGED <<cmd, surface>>
       ELSE Over(FALSE) /\ UNCHANGED <<sent, chain, response>>
  /\ UNCHANGED <<avail, doorbell, last_used, concluded, used, taken, work, step, resource, host, shown,
                 completed>>

RingDoorbell == doorbell' = TRUE

Publish ==
  /\ pc = "publish" /\ pc' = "poll"
  /\ avail' = NextIndex(avail) /\ RingDoorbell
  /\ UNCHANGED <<cmd, sent, chain, last_used, concluded, device, pinned, surface>>

SeesUsed == used # last_used

\* Mutant: any completion is a success.
AnyResponse == TRUE
ResponseOk == response[ResponseOf(cmd)] = "ok"

Poll ==
  /\ pc = "poll" /\ SeesUsed
  /\ last_used' = NextIndex(last_used) /\ concluded' = chain.id
  /\ Over(ResponseOk)
  /\ UNCHANGED <<sent, chain, avail, doorbell, device>>

\* The device outlasts the poll: the command is given up, and its entry stays published.
TimeOut ==
  /\ PollsTimeOut /\ pc = "poll" /\ ~SeesUsed /\ Over(FALSE)
  /\ UNCHANGED <<queue, device>>

Spin == pc = "poll" /\ UNCHANGED vars
-----------------------------------------------------------------------------
\* The device, external: it takes entries in order, the chain of head 0 each time.
Take ==
  /\ doorbell /\ step = "idle" /\ taken # avail
  /\ taken' = NextIndex(taken) /\ work' = chain /\ step' = "taken"
  /\ UNCHANGED <<driver, queue, used, response, resource, host, shown, completed, pinned, surface>>

Execute(ok) ==
  /\ resource' = CASE ok /\ work.cmd = "create" -> "created" [] ok /\ work.cmd = "attach" -> "backed"
                   [] ok /\ work.cmd = "scanout" -> "bound" [] OTHER -> resource
  /\ host' = IF ok /\ work.cmd = "transfer" THEN frame ELSE host
  /\ shown' = IF ok /\ work.cmd = "flush" THEN host ELSE shown

Perform ==
  /\ step = "taken"
  /\ \E ok \in (IF work.cmd \in Refusals THEN BOOLEAN ELSE {TRUE}) :
       Execute(ok) /\ step' = IF ok THEN "performed" ELSE "refused"
  /\ UNCHANGED <<driver, queue, used, taken, work, response, completed, pinned, surface>>

Complete ==
  /\ step \in {"performed", "refused"} /\ step' = "idle"
  /\ response' = [response EXCEPT ![ResponseOf(work.cmd)] = IF step = "performed" THEN "ok" ELSE "error"]
  /\ used' = NextIndex(used) /\ completed' = work.id
  /\ UNCHANGED <<driver, queue, taken, work, resource, host, shown, pinned, surface>>
-----------------------------------------------------------------------------
\* The engine draws on the surface of a display that is ready.
Draw ==
  /\ pc = "ready" /\ frame < MaxFrames /\ frame' = frame + 1
  /\ UNCHANGED <<driver, queue, device, pinned, goal, presented>>

\* Mutant: what the host has is shown, then the surface is transferred.
FlushFirst == "flush"
FirstOfPresent == "transfer"

Present ==
  /\ pc = "ready" /\ pc' = "send" /\ cmd' = FirstOfPresent /\ goal' = frame /\ presented' = FALSE
  /\ UNCHANGED <<queue, device, pinned, frame>>

Bring == Probe \/ Map \/ BringUp \/ SetupQueue \/ DriverOk
Submit == Send \/ Publish \/ Poll
Device == Take \/ Perform \/ Complete
Next == Bring \/ Submit \/ TimeOut \/ Spin \/ Device \/ Draw \/ Present

\* The driver runs and the device answers what it was told of.
Fairness == WF_vars(Bring \/ Submit) /\ WF_vars(Device)
Spec == Init /\ [][Next]_vars /\ Fairness
-----------------------------------------------------------------------------
\* Types; the host's resource moves only through its four states.
TypeOK ==
  /\ pc \in {"probe", "map", "bringup", "queue", "ok", "send", "publish", "poll", "ready", "failed"}
  /\ cmd \in Commands /\ resource \in {"none", "created", "backed", "bound"}
  /\ pinned \subseteq {"ring", "info", "cmd", "fb", "entries"}
  /\ {avail, used, last_used, taken} \subseteq 0 .. Word - 1

Touches(c) == {"ring", ResponseOf(c)} \cup (IF c = "attach" THEN {"entries"} ELSE {})
                                      \cup (IF c = "transfer" THEN {"fb"} ELSE {})

\* The device never has work whose buffers have been freed: what get_display_info and
\* create_scanout free they free after the command that uses it is over.
OutstandingPinned ==
  /\ step # "idle" => Touches(work.cmd) \subseteq pinned
  /\ taken # avail => Touches(chain.cmd) \subseteq pinned

\* A completion the driver believes in is that of its own command: submit_chain returns
\* true on completion of the chain it was given.
SubmitMeansDone == concluded <= completed

\* A display that is in use is bound to a resource backed by a surface that is still
\* allocated, whichever commands were refused and allocations failed on the way.
ReadyMeansBound ==
  pc = "ready" \/ (pc = "send" /\ cmd = "transfer") => resource = "bound" /\ {"ring", "cmd", "fb"} \subseteq pinned

\* present shows the frame that was drawn when it was called, if it says so.
PresentShowsFrame == pc = "ready" /\ presented => shown >= goal

\* A display that is not in use holds no surface and no command buffer.
NothingKeptOnFailure == pc = "failed" => pinned \subseteq {"ring"}

\* display_init ends: the kernel's boot does not hang on a device that answers, nor, by
\* the limit of the poll, on one that does not.
InitEnds == <>(pc \in {"ready", "failed"})
=============================================================================
