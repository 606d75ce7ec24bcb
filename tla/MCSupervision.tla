--------------------------- MODULE MCSupervision ----------------------------
(* What watches the running kernel: the reconciler, telemetry records, section   *)
(* protection with its probes, the processor's sleep, and the assistant with its *)
(* region, budget and dialogue.  A behaviour runs one of them, its subject, and  *)
(* leaves the others where they start.                                           *)
EXTENDS Reconciler, SectionProtection, ProcessorSleep

VARIABLES
  subject,            \* the component this behaviour is about
  \* Telemetry
  record_is_open, seen_keys, line, duplicate_key_count, sanitised_character_count,
  dropped_field_count, record_count, written, requests, emitted, repeats,
  \* Assistant
  arena, high_water, generation, gMind, to_demon, to_sovereign, dialogue_dropped, budget,
  dialogue_step, question, heard, answer, delivered, spent, valid, generated

telemetry_vars == <<record_is_open, seen_keys, line, duplicate_key_count,
                    sanitised_character_count, dropped_field_count, record_count, written,
                    requests, emitted, repeats>>
assistant_vars == <<arena, high_water, generation, gMind, to_demon, to_sovereign,
                    dialogue_dropped, budget, dialogue_step, question, heard, answer, delivered,
                    spent, valid, generated>>

\* The truthful declaration of kernel.c, and one that asks for less.
AllDeclarations ==
  { [budget |-> 0, protection |-> TRUE, write_protect |-> TRUE],
    [budget |-> 1, protection |-> FALSE, write_protect |-> FALSE] }
DomainNames == { <<"d">>, <<"d", " ">> }
KeyNames == { <<"a">>, <<"b">>, <<"a", "b">> }
FieldValues == { <<"v">>, <<" ", "=">>, <<"=">> }
ReadOnlyRange == <<"text", "rodata">>
\* A question longer than the ring and than what is heard of it, and a shorter one.
AllQuestions == {<<"a", "b", "a", "b">>, <<"b", "b">>}
AllPhrases == {<<"a">>, <<"a", "b">>}

-----------------------------------------------------------------------------
Records == INSTANCE Telemetry WITH
  Domains <- DomainNames, Keys <- KeyNames, Values <- FieldValues, MaxKeyLength <- 2,
  MaxFields <- 3, MaxRequests <- 4
Mind == INSTANCE Assistant WITH
  Sizes <- {1, 2}, Byte <- {"a", "b"}, Questions <- AllQuestions, Phrases <- AllPhrases,
  CAPACITY <- 3, HEARD <- 2, BUDGET <- 2, MaxAnswer <- 3, dropped <- dialogue_dropped,
  step <- dialogue_step

ASSUME ConstantsAssumption ==
  /\ ReconcilerAssumption
  /\ Records!TelemetryAssumption
  /\ SectionAssumption
  /\ SleepAssumption
  /\ Mind!AssistantAssumption

Subjects == {"reconciler", "telemetry", "section", "sleep", "assistant"}

vars == <<subject, reconciler_vars, telemetry_vars, section_vars, sleep_vars, assistant_vars>>

\* A component that is not the subject is in one of its initial states.
Init ==
  /\ subject \in Subjects
  /\ ReconcilerInit
  /\ subject # "reconciler" => violations = 0
  /\ Records!Init
  /\ SectionInit
  /\ subject # "section" => entry = [p \in DOMAIN entry |-> "rw"] /\ byte = [p \in DOMAIN byte |-> 0]
  /\ SleepInit
  /\ subject # "sleep" => monitor_available = TRUE /\ ratio = 0 /\ maximum_ratio = 0 /\ available = FALSE
  /\ Mind!Init

Others(x) ==
  /\ UNCHANGED subject
  /\ IF x = "reconciler" THEN TRUE ELSE UNCHANGED reconciler_vars
  /\ IF x = "telemetry" THEN TRUE ELSE UNCHANGED telemetry_vars
  /\ IF x = "section" THEN TRUE ELSE UNCHANGED section_vars
  /\ IF x = "sleep" THEN TRUE ELSE UNCHANGED sleep_vars
  /\ IF x = "assistant" THEN TRUE ELSE UNCHANGED assistant_vars

\* These run into their bounds and have nothing more to do.
AtBounds == subject \in {"telemetry", "section", "sleep"} /\ UNCHANGED vars

Next ==
  \/ subject = "reconciler" /\ ReconcilerNext /\ Others("reconciler")
  \/ subject = "telemetry" /\ Records!Next /\ Others("telemetry")
  \/ subject = "section" /\ SectionNext /\ Others("section")
  \/ subject = "sleep" /\ SleepNext /\ Others("sleep")
  \/ subject = "assistant" /\ Mind!Next /\ Others("assistant")
  \/ AtBounds

Spec ==
  /\ Init /\ [][Next]_vars
  /\ WF_reconciler_vars(subject = "reconciler" /\ Tick)
  /\ WF_reconciler_vars(subject = "reconciler" /\ DeclareSteps)
  /\ WF_sleep_vars(subject = "sleep" /\ (Arm \/ Recheck \/ WokenByWrite))
-----------------------------------------------------------------------------

\* A reader can rely on a record: there is exactly one space before the domain and one
\* before each field, and one equals sign in each field, whatever text the values hold;
\* a field asked for is on some line or counted as dropped; and every key repeated
\* within one record is counted, as long as the keys fit the table.
RecordsReadable ==
  subject = "telemetry" =>
    /\ Records!TypeOK
    /\ Records!LineIsUnambiguous
    /\ Records!FieldsAccounted
    /\ Records!DuplicatesExact

\* A mind is never left on weights it no longer has: a live mind holds the region as it is
\* carved now, although a smoke test or a later boot carves it again, a boot may fail half
\* way and the region may be given back; and the high-water mark that is reported is of
\* the region there is (tensor_arena.c, assistant_boot.cpp, p14_mind_smoke.cpp).
MindHoldsRegion ==
  subject = "assistant" => Mind!TypeOK /\ Mind!MindHoldsRegion /\ Mind!HighWaterFits

\* An exchange hears its own question and nothing of an earlier one, although ring and
\* buffer cut it off; a call is valid only if the bytes of this answer spell it; and the
\* tokens reported as spent are the tokens generated, with no claim refused
\* (assistant_boot.cpp:147-233, dialogue_channel.c, inference_budget.c).
DialogueHonest == subject = "assistant" => Mind!DialogueHonest
=============================================================================
