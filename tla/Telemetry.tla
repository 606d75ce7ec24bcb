------------------------------ MODULE Telemetry ------------------------------
(***************************************************************************)
(* The structured records of kernel/diag/telemetry.c: one line per record, *)
(* a bounded number of fields, duplicate keys and rewritten separators     *)
(* counted.  Text is a sequence of characters, of which only the two       *)
(* separators matter.  Callers open a record, write fields and end it.     *)
(***************************************************************************)
EXTENDS Integers, SequencesExt

CONSTANTS Domains, Keys, Values,   \* sequences of characters
          MaxKeyLength,            \* TELEMETRY_MAX_KEY_LENGTH
          MaxFields,               \* KERNEL_TELEMETRY_MAX_FIELDS_PER_RECORD
          MaxRequests              \* bound on the fields asked for, and on the records

Separators == {" ", "="}

TelemetryAssumption ==
  /\ MaxKeyLength \in Nat /\ MaxFields \in Nat \ {0} /\ MaxRequests \in Nat
  /\ \A k \in Keys : ToSet(k) \cap Separators = {}

VARIABLES record_is_open,
          seen_keys,           \* the telemetry_field_count keys remembered so far
          line,                \* the line on the serial port since the prefix
          duplicate_key_count, sanitised_character_count, dropped_field_count, record_count,
          written,             \* history: the keys of this record as they were given
          requests, emitted, repeats   \* history: fields asked for, on a line, repeating a key

counters == <<duplicate_key_count, sanitised_character_count, dropped_field_count, record_count>>
vars == <<record_is_open, seen_keys, line, counters, written, requests, emitted, repeats>>

Init ==
  /\ record_is_open = FALSE /\ seen_keys = <<>> /\ line = <<>>
  /\ duplicate_key_count = 0 /\ sanitised_character_count = 0
  /\ dropped_field_count = 0 /\ record_count = 0
  /\ written = <<>> /\ requests = 0 /\ emitted = 0 /\ repeats = 0

\* Mutant: only the space is replaced.
SpacesOnly(text) == [i \in DOMAIN text |-> IF text[i] = " " THEN "_" ELSE text[i]]
\* telemetry_write_sanitised_text, and the number of characters it replaces.
Emitted(text) == [i \in DOMAIN text |-> IF text[i] \in Separators THEN "_" ELSE text[i]]
Replaced(text) == Len(SelectSeq(text, LAMBDA c : c \in Separators))

kernel_telemetry_begin_record(domain) ==
  /\ ~record_is_open /\ record_count < MaxRequests
  /\ record_is_open' = TRUE /\ seen_keys' = <<>>
  /\ line' = <<" ">> \o Emitted(domain)
  /\ sanitised_character_count' = sanitised_character_count + Replaced(domain)
  /\ written' = <<>>
  /\ UNCHANGED <<duplicate_key_count, dropped_field_count, record_count, requests, emitted, repeats>>

\* The stored key is truncated; the key it is compared with is not.
telemetry_key_was_already_written(key) == \E i \in DOMAIN seen_keys : seen_keys[i] = key

telemetry_remember_key(key) ==
  seen_keys' = Append(seen_keys, SubSeq(key, 1, IF Len(key) < MaxKeyLength THEN Len(key) ELSE MaxKeyLength))

TableFull == Len(seen_keys) >= MaxFields

DropField(key) == dropped_field_count' = dropped_field_count + 1

\* telemetry_open_field followed by the value of one of the write functions.
WriteField(key, value) ==
  /\ record_is_open /\ requests < MaxRequests
  /\ requests' = requests + 1
  /\ IF TableFull
     THEN /\ DropField(key)
          /\ UNCHANGED <<seen_keys, line, duplicate_key_count, sanitised_character_count, written,
                         emitted, repeats>>
     ELSE /\ duplicate_key_count' =
               duplicate_key_count + (IF telemetry_key_was_already_written(key) THEN 1 ELSE 0)
          /\ telemetry_remember_key(key)
          /\ line' = line \o <<" ">> \o key \o <<"=">> \o Emitted(value)
          /\ sanitised_character_count' = sanitised_character_count + Replaced(value)
          /\ written' = Append(written, key) /\ emitted' = emitted + 1
          /\ repeats' = repeats + (IF key \in ToSet(written) THEN 1 ELSE 0)
          /\ UNCHANGED dropped_field_count
  /\ UNCHANGED <<record_is_open, record_count>>

kernel_telemetry_end_record ==
  /\ record_is_open
  /\ record_is_open' = FALSE /\ seen_keys' = <<>> /\ record_count' = record_count + 1
  /\ line' = <<>> /\ written' = <<>>
  /\ UNCHANGED <<duplicate_key_count, sanitised_character_count, dropped_field_count, requests,
                 emitted, repeats>>

Next ==
  \/ \E d \in Domains : kernel_telemetry_begin_record(d)
  \/ \E k \in Keys, v \in Values : WriteField(k, v)
  \/ kernel_telemetry_end_record

Spec == Init /\ [][Next]_vars
-----------------------------------------------------------------------------
\* A record never remembers more keys than its table holds, nor a longer one.
TypeOK ==
  /\ record_is_open \in BOOLEAN
  /\ Len(seen_keys) <= MaxFields /\ \A i \in DOMAIN seen_keys : Len(seen_keys[i]) <= MaxKeyLength
  /\ requests \in 0 .. MaxRequests /\ repeats \in 0 .. MaxRequests
  /\ duplicate_key_count \in Nat /\ sanitised_character_count \in Nat
  /\ dropped_field_count \in Nat /\ record_count \in Nat

Occurrences(c) == Len(SelectSeq(line, LAMBDA d : d = c))

\* A reader splits the line at its separators: there is exactly one space before the
\* domain and one before each field, and one equals sign in each field, whatever
\* text the domain and the values hold.
LineIsUnambiguous ==
  record_is_open => /\ Occurrences(" ") = Len(written) + 1
                    /\ Occurrences("=") = Len(written)

\* Every key repeated within one record is counted, and no other is, as long as the
\* keys fit the table.
DuplicatesExact ==
  (\A k \in Keys : Len(k) <= MaxKeyLength) => duplicate_key_count = repeats

\* A field that was asked for inside a record is on some line or counted as dropped.
FieldsAccounted == requests = emitted + dropped_field_count

\* telemetry.c: truncating a long key can only report a duplicate that is not one, so
\* no repeated key goes uncounted.
NoDuplicateMissed == duplicate_key_count >= repeats
=============================================================================
