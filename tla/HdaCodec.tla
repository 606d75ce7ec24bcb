------------------------------ MODULE HdaCodec ------------------------------
(***************************************************************************)
(* The bring-up of the High Definition Audio controller (hda.c): one verb  *)
(* at a time goes on the command ring and its answer is awaited on the     *)
(* response ring, first to ask every codec who it is, then to walk a codec *)
(* for its converters and pins and mute its outputs, then to set up        *)
(* capture.  The driver gives up on a verb after a bounded wait.           *)
(*                                                                         *)
(* The controller and the codecs are external: they fetch verbs in order,  *)
(* act on them, and answer or not.  An answer is kept with the verb it     *)
(* answers; the driver sees only its value, and when the verb is not the   *)
(* one it asked, reads the value as whatever such a field may hold.        *)
(***************************************************************************)
EXTENDS Integers, Sequences, FiniteSets

CONSTANTS Machines,       \* what may be on the bus: slot -> codec
          Ring,           \* HDA_RING_ENTRIES
          LateAnswers     \* may an answer arrive after HDA_SPIN_BUDGET is spent?

HdaAssumption == Ring \in Nat \ {0, 1} /\ LateAnswers \in BOOLEAN

(* A codec is a sequence of function groups [audio, first, widgets]; widget i of a
   group is node first + i - 1 and is [type, in, out].                           *)

VARIABLES machine,
          step, slot, group, widget,        \* where the walk is
          answered, counted,                \* a codec answered; the group or widget count
          capture_converter, capture_pin, playback_converter, playback_pin,
          outputs_muted, capture_running,
          corb, wp, rp,                     \* command ring, CORBWP and CORBRP
          rirb, rirbwp, rrp,                \* response ring, RIRBWP and the driver's pointer
          waiting, sent, responses, timeouts,
          matched,                          \* the last answer taken was to the verb just sent
          stopped,                          \* the controller fetches no more
          muted, bound, enabled             \* what the codecs were told

walk == <<step, slot, group, widget, answered, counted>>
found == <<capture_converter, capture_pin, playback_converter, playback_pin, outputs_muted, capture_running>>
driver == <<wp, rrp, waiting, sent, responses, timeouts, matched>>
device == <<rp, rirb, rirbwp, stopped, muted, bound, enabled>>
vars == <<machine, walk, found, driver, corb, device>>

Slots == DOMAIN machine
Verbs == {"vendor", "groups", "kind", "widgets", "caps", "pin", "mute_conv", "mute_pin",
          "format", "stream", "gain", "enable"}

NoVerb == [codec |-> 0, node |-> 0, verb |-> "none"]

Init ==
  /\ machine \in Machines
  /\ step = "present" /\ slot = 0 /\ group = 1 /\ widget = 1 /\ answered = FALSE /\ counted = 0
  /\ capture_converter = 0 /\ capture_pin = 0 /\ playback_converter = 0 /\ playback_pin = 0
  /\ outputs_muted = 0 /\ capture_running = FALSE
  /\ corb = [i \in 0 .. Ring - 1 |-> NoVerb] /\ wp = 0 /\ rp = 0
  /\ rirb = [i \in 0 .. Ring - 1 |-> NoVerb] /\ rirbwp = 0 /\ rrp = 0
  /\ waiting = FALSE /\ sent = 0 /\ responses = 0 /\ timeouts = 0 /\ matched = TRUE
  /\ stopped = FALSE /\ muted = {} /\ bound = {} /\ enabled = {}
-----------------------------------------------------------------------------
(* The verb of each step. *)

Group == machine[slot][group]
Node == IF step \in {"vendor", "groups"} THEN 0
        ELSE IF step \in {"kind", "widgets"} THEN group
        ELSE IF step \in {"caps", "pin"} THEN Group.first + widget - 1
        ELSE IF step = "mute_conv" THEN playback_converter
        ELSE IF step = "mute_pin" THEN playback_pin
        ELSE IF step = "enable" THEN capture_pin
        ELSE capture_converter

\* intel_high_definition_audio_start_capture speaks to codec 0.
CaptureCodec == 0
Codec == IF step \in {"format", "stream", "gain", "enable"} THEN CaptureCodec ELSE slot

\* The codec's own answer; a slot or node that is not there answers nothing useful.
Widgets(c) == UNION {{<<g.first + i - 1, g.widgets[i]>> : i \in DOMAIN g.widgets} :
                     g \in {machine[c][j] : j \in DOMAIN machine[c]}}
TrueValue(v) ==
  LET c == machine[v.codec] IN
    CASE v.verb = "groups" -> Len(c)
      [] v.verb = "kind" -> c[v.node].audio
      [] v.verb = "widgets" -> Len(c[v.node].widgets)
      [] v.verb \in {"caps", "pin"} ->
           (CHOOSE w \in Widgets(v.codec) : w[1] = v.node)[2]
      [] OTHER -> 0

\* Every value the field may hold when the answer belongs to another verb.
AnyValue(verb) ==
  CASE verb \in {"groups", "widgets"} -> {0, 1}
    [] verb = "kind" -> BOOLEAN
    [] verb \in {"caps", "pin"} -> {[type |-> t, in |-> TRUE, out |-> TRUE] : t \in {"input", "pin"}}
    [] OTHER -> {0}
-----------------------------------------------------------------------------
(* hda_submit *)

Submit ==
  /\ step \in Verbs /\ ~waiting
  /\ wp' = (wp + 1) % Ring
  /\ corb' = [corb EXCEPT ![wp'] = [codec |-> Codec, node |-> Node, verb |-> step]]
  /\ sent' = sent + 1 /\ waiting' = TRUE
  /\ UNCHANGED <<machine, walk, found, rrp, responses, timeouts, matched, device>>

Answered == rirbwp # rrp

\* The value the driver reads for the verb it waits for.
Readings(r) == IF r = corb[wp] THEN {TrueValue(r)} ELSE AnyValue(step)

\* Mutant: the value is taken but the pointer stays.
KeepPointer == UNCHANGED rrp
AdvancePointer == rrp' = (rrp + 1) % Ring

\* Mutant: the wait has no budget.
NeverGiveUp == FALSE
\* The budget is spent with no answer in the ring.
GiveUp == ~Answered /\ (LateAnswers \/ stopped \/ rp = wp)
-----------------------------------------------------------------------------
(* What the driver does with an answer v, or without one. *)

Later(s) == {t \in Slots : t > s}
Least(S) == CHOOSE s \in S : \A t \in S : s <= t

GoTo(s, sl, g, w) == step' = s /\ slot' = sl /\ group' = g /\ widget' = w

\* After the last vendor is asked, the walk starts if one answered.
VendorDone(ok, v) ==
  /\ step = "vendor"
  /\ answered' = (answered \/ ok)
  /\ IF Later(slot) # {} THEN GoTo("vendor", Least(Later(slot)), 1, 1)
     ELSE GoTo(IF answered' THEN "groups" ELSE "done", Least(Slots), 1, 1)
  /\ UNCHANGED <<counted, found>>

\* The next codec is walked unless this one had an input converter.
NextCodec == IF capture_converter' # 0 \/ Later(slot) = {} THEN GoTo("start", slot, 1, 1)
             ELSE GoTo("groups", Least(Later(slot)), 1, 1)

GroupsDone(ok, v) ==
  /\ step = "groups"
  /\ UNCHANGED <<answered, found>>
  /\ IF ~ok \/ v = 0 THEN NextCodec /\ UNCHANGED counted
     ELSE GoTo("kind", slot, 1, 1) /\ counted' = v

NextGroup == IF group < counted THEN GoTo("kind", slot, group + 1, 1) ELSE NextCodec

KindDone(ok, v) ==
  /\ step = "kind"
  /\ UNCHANGED <<answered, counted, found>>
  /\ IF ok /\ v THEN GoTo("widgets", slot, group, 1) ELSE NextGroup

\* The outputs are muted as soon as the group has been walked.
MuteConverter == GoTo(IF playback_converter' # 0 THEN "mute_conv"
                      ELSE IF playback_pin' # 0 THEN "mute_pin" ELSE "walked", slot, group, widget)
NextWidget(n) == IF widget < n THEN GoTo("caps", slot, group, widget + 1) ELSE MuteConverter

WidgetsDone(ok, v) ==
  /\ step = "widgets"
  /\ UNCHANGED <<answered, found>>
  /\ IF ~ok THEN NextCodec /\ UNCHANGED counted
     ELSE /\ counted' = v
          /\ IF v = 0 THEN MuteConverter ELSE GoTo("caps", slot, group, 1)

Classify(v, dir, old) == IF v[dir] /\ old = 0 THEN Node ELSE old

CapsDone(ok, v) ==
  /\ step = "caps"
  /\ LET type == IF ok THEN v.type ELSE "none" IN
       /\ capture_converter' = IF type = "input" /\ capture_converter = 0 THEN Node ELSE capture_converter
       /\ playback_converter' = IF type = "output" /\ playback_converter = 0 THEN Node ELSE playback_converter
       /\ UNCHANGED <<answered, counted, capture_pin, playback_pin, outputs_muted, capture_running>>
       /\ IF type = "pin" THEN GoTo("pin", slot, group, widget) ELSE NextWidget(counted)

PinDone(ok, v) ==
  /\ step = "pin"
  /\ capture_pin' = IF ok THEN Classify(v, "in", capture_pin) ELSE capture_pin
  /\ playback_pin' = IF ok THEN Classify(v, "out", playback_pin) ELSE playback_pin
  /\ UNCHANGED <<answered, counted, capture_converter, playback_converter, outputs_muted, capture_running>>
  /\ NextWidget(counted)

CountMuted(ok) == IF ok THEN 1 ELSE 0

MuteDone(ok, v) ==
  /\ step \in {"mute_conv", "mute_pin"}
  /\ outputs_muted' = outputs_muted + CountMuted(ok)
  /\ UNCHANGED <<answered, counted, capture_converter, capture_pin, playback_converter,
                 playback_pin, capture_running>>
  /\ GoTo(IF step = "mute_conv" /\ playback_pin # 0 THEN "mute_pin" ELSE "walked", slot, group, widget)

\* Mutant: the converter is given its format and not its stream.
SkipStream == IF step = "format" THEN "gain" ELSE IF step = "gain" /\ capture_pin # 0 THEN "enable" ELSE "run"
NextSetup == CASE step = "format" -> "stream" [] step = "stream" -> "gain"
               [] step = "gain" /\ capture_pin # 0 -> "enable" [] OTHER -> "run"

\* The answers to the verbs that set up capture are ignored.
SetupDone ==
  /\ step \in {"format", "stream", "gain", "enable"}
  /\ GoTo(NextSetup, slot, group, widget)
  /\ UNCHANGED <<answered, counted, found>>

Continue(ok, v) == \/ VendorDone(ok, v) \/ GroupsDone(ok, v) \/ KindDone(ok, v) \/ WidgetsDone(ok, v)
               \/ CapsDone(ok, v) \/ PinDone(ok, v) \/ MuteDone(ok, v) \/ SetupDone

Receive ==
  /\ waiting /\ Answered
  /\ AdvancePointer
  /\ LET r == rirb[(rrp + 1) % Ring] IN
       /\ matched' = (r = corb[wp])
       /\ \E v \in Readings(r) : Continue(TRUE, v)
  /\ responses' = responses + 1 /\ waiting' = FALSE
  /\ UNCHANGED <<machine, wp, sent, timeouts, corb, device>>

CountTimeout == timeouts' = timeouts + 1

TimeOut ==
  /\ waiting /\ GiveUp
  /\ Continue(FALSE, 0)
  /\ CountTimeout /\ waiting' = FALSE
  /\ UNCHANGED <<machine, wp, rrp, sent, responses, matched, corb, device>>
-----------------------------------------------------------------------------
(* The steps that send no verb. *)

\* A step of the bring-up that may fail; a failure ends it.
Stage(from, to) ==
  /\ step = from
  /\ \/ GoTo("done", 0, 1, 1)
     \/ Slots # {} /\ GoTo(to, Least(Slots), 1, 1)
  /\ UNCHANGED <<machine, answered, counted, found, driver, corb, device>>

FindController == Stage("present", "window")
hda_map_window == Stage("window", "reset")
hda_reset_controller == Stage("reset", "rings")
hda_start_rings == Stage("rings", "vendor")
BringUp == FindController \/ hda_map_window \/ hda_reset_controller \/ hda_start_rings

CodecWalked ==
  /\ step = "walked"
  /\ UNCHANGED capture_converter /\ NextCodec
  /\ UNCHANGED <<machine, answered, counted, capture_pin, playback_converter, playback_pin,
                 outputs_muted, capture_running, driver, corb, device>>

\* A converter was found and the pages for the stream could be had, or not.
StartCapture ==
  /\ step = "start"
  /\ \/ capture_converter # 0 /\ GoTo("format", slot, group, widget)
     \/ GoTo("done", slot, group, widget)
  /\ UNCHANGED <<machine, answered, counted, found, driver, corb, device>>

RunStream ==
  /\ step = "run" /\ GoTo("done", slot, group, widget)
  /\ capture_running' \in BOOLEAN
  /\ UNCHANGED <<machine, answered, counted, capture_converter, capture_pin, playback_converter,
                 playback_pin, outputs_muted, driver, corb, device>>

(* The controller fetches the next verb; the codec obeys and answers, or is not there. *)
Fetch(r) ==
  /\ ~stopped /\ rp # wp /\ rp' = (rp + 1) % Ring
  /\ UNCHANGED stopped /\ UNCHANGED <<machine, walk, found, driver, corb>>
  /\ \/ UNCHANGED <<rirb, rirbwp, muted, bound, enabled>>
     \/ /\ r.codec \in Slots
        /\ rirbwp' = (rirbwp + 1) % Ring /\ rirb' = [rirb EXCEPT ![rirbwp'] = r]
        /\ LET it == {<<r.codec, r.node>>} IN
             /\ muted' = muted \cup (IF r.verb \in {"mute_conv", "mute_pin"} THEN it ELSE {})
             /\ bound' = bound \cup (IF r.verb = "stream" THEN it ELSE {})
             /\ enabled' = enabled \cup (IF r.verb = "enable" THEN it ELSE {})

\* A controller in a state nobody anticipated fetches no more.
Stop == ~stopped /\ stopped' = TRUE /\ UNCHANGED <<machine, walk, found, driver, corb, rp, rirb, rirbwp, muted, bound, enabled>>

Controller == Fetch(corb[(rp + 1) % Ring])

Driver == Submit \/ Receive \/ TimeOut \/ BringUp \/ CodecWalked \/ StartCapture \/ RunStream
\* The driver is done, or goes round its spin once more.
Idle == (step = "done" \/ waiting) /\ UNCHANGED vars
Next == Driver \/ Controller \/ Stop \/ Idle

(* The driver spins, so it goes on.  Within its budget the controller fetches the verb
   or has stopped for good; nothing says that a codec answers.                      *)
Spec == Init /\ [][Next]_vars /\ WF_vars(Driver) /\ WF_vars(Controller \/ Stop)
-----------------------------------------------------------------------------
\* The pointers stay in the ring, and the rings hold verbs.
TypeOK ==
  /\ {wp, rp, rirbwp, rrp} \subseteq 0 .. Ring - 1
  /\ step \in Verbs \cup {"present", "window", "reset", "rings", "walked", "start", "run", "done"}
  /\ outputs_muted \in 0 .. 2 * Cardinality(Slots)

\* Every verb is accounted for as answered or timed out, which is what the boot line
\* prints as the health of the command path.
VerbsBalance == sent = responses + timeouts + (IF waiting THEN 1 ELSE 0)

\* An answer taken is the answer to the verb just sent, so no field of a codec is read
\* from the answer to another question.
AnswerIsOwn == matched

\* A mute that is counted was obeyed by a codec.
MutesReal == outputs_muted <= Cardinality(muted)

\* The capture pin is one that takes a signal in, never the speaker's.
CapturePinIsInput ==
  capture_pin # 0 => \E c \in Slots : \E w \in Widgets(c) : w[1] = capture_pin /\ w[2].in

\* With every verb answered, each output amplifier of a walked codec is muted.
OutputsSilent ==
  step = "done" /\ answered /\ timeouts = 0 =>
    \A w \in Widgets(Least(Slots)) :
      w[2].type = "output" \/ (w[2].type = "pin" /\ w[2].out) => <<Least(Slots), w[1]>> \in muted

\* A running capture stream is bound to the converter that was found.
CaptureBound ==
  capture_running /\ timeouts = 0 =>
    \E b \in bound : \E w \in Widgets(b[1]) : w[1] = b[2] /\ w[2].type = "input"

\* The bring-up ends whatever the controller does: no verb is awaited for ever.
BringUpEnds == <>(step = "done")
=============================================================================
