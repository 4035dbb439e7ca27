------------------------------ MODULE CheckIn ------------------------------
(***************************************************************************)
(* What POST /events makes of a body before anything is stored: which      *)
(* checks it passes, in their order, what is recorded of the first it      *)
(* fails, and whose it is.                                                 *)
(***************************************************************************)
EXTENDS Integers, Sequences, SequencesExt

CONSTANTS
  NoSerial,   \* no serial number could be told
  Ceiling     \* MAX_DECOMPRESSED_BODY_BYTES

ASSUME CeilingAssumption == Ceiling \in Nat

(* The body as a stream: its Content-Encoding, whether it inflates, to what, and to its end. *)
Encodings == {"none", "identity", "gzip", "deflate", "other"}

(* A body without encoding is taken as it is; an inflated one must end, within the ceiling. *)
Decodes(stream) ==
  \/ stream.encoding \in {"none", "identity"}
  \/ /\ stream.encoding \in {"gzip", "deflate"}
     /\ stream.inflates /\ stream.size <= Ceiling /\ stream.ended

(* The facts the serial checks look at. *)
Serials == [blank: BOOLEAN, sentinel: BOOLEAN, fewDigits: BOOLEAN, hostShaped: BOOLEAN, ownName: BOOLEAN]

Check(passes, reason, status) == [passes |-> passes, reason |-> reason, status |-> status]

(* Reading: the body arrives, is there, decodes and parses. *)
ReadingChecks(b) == <<
  Check(b.arrives # "aborted", "upload_aborted", 400),
  Check(b.arrives # "broken", "body_unreadable", 400),
  Check(~b.empty, "empty_body", 400),
  Check(Decodes(b.stream), "body_unreadable", 400),
  Check(b.parses, "malformed_json", 400)>>

(* Content: the structure, and a serial number that is a hardware serial. *)
ContentChecks(b) == <<
  Check(b.fits, "invalid_payload", 422),
  Check(~b.serial.blank, "empty_serial", 400),
  Check(~b.serial.sentinel, "sentinel_serial", 400),
  Check(~b.serial.fewDigits, "short_serial", 400),
  Check(~b.serial.hostShaped, "hostname_serial", 400),
  Check(~b.serial.ownName, "serial_equals_hostname", 400)>>

Passed(checks) == \A i \in DOMAIN checks : checks[i].passes

(* The first check that fails, as a sequence of at most one. *)
FirstFailed(checks) ==
  IF Passed(checks) THEN <<>>
  ELSE LET first == CHOOSE i \in DOMAIN checks :
                      ~checks[i].passes /\ \A j \in 1 .. (i - 1) : checks[j].passes
       IN <<[reason |-> checks[first].reason, status |-> checks[first].status]>>

(***************************************************************************)
(* What a body leaves in ingest_failures, in order.  NULs are stripped and *)
(* recorded as soon as the body has parsed, before its content is checked. *)
(***************************************************************************)
RecordedOf(b) ==
  IF ~Passed(ReadingChecks(b)) THEN FirstFailed(ReadingChecks(b))
  ELSE (IF b.nul THEN <<[reason |-> "nul_in_payload", status |-> 200]>> ELSE <<>>)
       \o FirstFailed(ContentChecks(b))

Valid(b) == Passed(ReadingChecks(b)) /\ Passed(ContentChecks(b))

(* Whose a record is: the body says when it parsed, else the headers. *)
SerialOf(bodySerial, headerSerial) ==
  IF bodySerial # NoSerial THEN bodySerial ELSE headerSerial

(* Reasons a retry may settle: the payload was never the problem. *)
Transport == {"upload_aborted", "body_unreadable", "empty_body"}
=============================================================================
