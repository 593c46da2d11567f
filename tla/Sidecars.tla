------------------------------ MODULE Sidecars ------------------------------
(***************************************************************************)
(* What the readers of the optional sidecars make of them: the validators  *)
(* and the summary (labos.evidence, labos.prediction_reality), triage      *)
(* (labos.triage.thermomechanical) and the EPR compiler's check of linked  *)
(* provenance.  Each reads the same JSON files with rules of its own.      *)
(*                                                                         *)
(* A folder is a function from file numbers to contents.  File n >= 1 has  *)
(* the name the command line proposes for object n (EVD-00n.json), file 0  *)
(* is a temporary ".labos-*.json" that a template command left behind; it  *)
(* has the suffix of a sidecar, and its name sorts before all others.      *)
(***************************************************************************)
EXTENDS Integers, FiniteSets

CONSTANTS Absent,       \* no such file
          Malformed,    \* a file that is not JSON
          NotObject,    \* JSON, but not an object
          EvidenceId, MeasurementId, RecordId,   \* numbers in EVD-, MSR-, PRL-###
          Quantity, Stress, Bow, Todo, Unnamed,  \* quantity labels; "" is Unnamed
          Unit, NoUnit,                          \* exact unit strings, null
          Value, Null,      \* JSON values where a number is expected; null
          JsonNumber,       \* JSON numbers, NaN and Infinity among them
          Decimal,          \* what decimal_value takes: text that reads as a
                            \* number is a number
          Undefined         \* (reality, prediction) whose errors Decimal does
                            \* not define, an infinite reality for one

ASSUME SidecarsAssumption ==
  /\ \A S \in {EvidenceId, MeasurementId, RecordId} : IsFiniteSet(S) /\ S \subseteq Nat \ {0}
  /\ {Stress, Bow, Todo, Unnamed} \subseteq Quantity /\ Cardinality({Stress, Bow, Todo, Unnamed}) = 4
  /\ NoUnit \notin Unit
  /\ JsonNumber \subseteq Decimal /\ Decimal \subseteq Value /\ Null \in Value \ Decimal
  /\ Undefined \subseteq Decimal \X Decimal

EvidenceFile == {0} \cup EvidenceId
MeasurementFile == {0} \cup MeasurementId
RecordFile == {0} \cup RecordId

(* How a sidecar writes the ID of its case: the bare ID, the ID between    *)
(* blanks, the ID as an intake may write it, with quotes or a comment      *)
(* (dressed), or another.                                                  *)
Spelling == {"bare", "padded", "dressed", "other"}

(* case: the spelling of case_id; sound: every format rule holds that is   *)
(* not named here (required and extra fields, types, versions,             *)
(* vocabularies, source and claim rules, confidentiality).                 *)
Evidence ==
  [ id : EvidenceId, case : Spelling, compatible : BOOLEAN,
    status : {"draft", "reviewed", "rejected", "deprecated"},
    reviewer : BOOLEAN, links : SUBSET MeasurementId, sound : BOOLEAN ]

Measurement ==
  [ id : MeasurementId, case : Spelling, evidence : EvidenceId,
    status : {"planned", "completed", "reviewed", "rejected"},
    quantity : Quantity, value : Value, unit : Unit \cup {NoUnit},
    reviewer : BOOLEAN, sound : BOOLEAN ]

(* shaped: the prediction object has exactly its documented fields.        *)
Prediction ==
  [ id : RecordId, case : Spelling, measurement : MeasurementId, basis : SUBSET EvidenceId,
    status : {"draft", "comparable", "reviewed", "rejected"},
    quantity : Quantity, value : Value, unit : Unit \cup {NoUnit}, shaped : BOOLEAN,
    disposition : {"pending_review", "accepted_for_calibration", "rejected_from_calibration"},
    reviewer : BOOLEAN, sound : BOOLEAN ]

Content(S) == S \cup {Absent, Malformed, NotObject}

Store ==
  [ evidence : [EvidenceFile -> Content(Evidence)],
    measurements : [MeasurementFile -> Content(Measurement)],
    predictions : [RecordFile -> Content(Prediction)] ]

-----------------------------------------------------------------------------
(* Loading and finding.                                                    *)

(* iter_sidecar_json                                                       *)
Files(folder) == {f \in DOMAIN folder : folder[f] # Absent}

(* load_json                                                               *)
Readable(folder) == {f \in DOMAIN folder : folder[f] \notin {Absent, Malformed, NotObject}}

WithId(folder, id) == {f \in Readable(folder) : folder[f].id = id}

(* find_by_id: an ID that is used twice finds nothing.                     *)
Found(folder, id) == Cardinality(WithId(folder, id)) = 1

TheFile(folder, id) == CHOOSE f \in WithId(folder, id) : TRUE

(* is_number_or_null                                                       *)
NumberOrNull(v) == v \in Decimal \cup {Null}

(* validate_common: read_case_id takes quotes and comments off the case_id *)
(* of the intake, and text strips that of the sidecar.                     *)
Own(x) == x.case \in {"bare", "padded"}

-----------------------------------------------------------------------------
(* Validation: TRUE stands for the status FAIL.                            *)

EvidenceObjectFails(s, e) ==
  \/ ~e.sound \/ ~Own(e)
  \/ e.status = "reviewed" /\ ~e.reviewer
  \/ \E m \in e.links : ~Found(s.measurements, m)

(* validate_evidence                                                       *)
EvidenceFails(s, f) ==
  f \notin Readable(s.evidence) \/ EvidenceObjectFails(s, s.evidence[f])

MeasurementObjectFails(s, m) ==
  \/ ~m.sound \/ ~Own(m) \/ ~NumberOrNull(m.value)
  \/ m.status \in {"completed", "reviewed"} /\ (m.value \notin Decimal \/ m.unit = NoUnit)
  \/ ~Found(s.evidence, m.evidence)
  \/ ~s.evidence[TheFile(s.evidence, m.evidence)].compatible
  \/ m.status = "reviewed" /\ ~m.reviewer

(* validate_measurement_reference                                          *)
MeasurementFails(s, f) ==
  f \notin Readable(s.measurements) \/ MeasurementObjectFails(s, s.measurements[f])

Usable(p) == p.value \in Decimal /\ p.unit # NoUnit

(* A label that is empty differs from nothing.                             *)
QuantityDiffers(s, p) ==
  /\ Found(s.measurements, p.measurement)
  /\ LET quantity == s.measurements[TheFile(s.measurements, p.measurement)].quantity
     IN Unnamed \notin {quantity, p.quantity} /\ quantity # p.quantity

(* Faulty variant: acceptance is not tied to the review.                   *)
LearningAllowed_Always(p) == TRUE

(* PREDICTION-LEARNING-001                                                 *)
LearningAllowed(p) ==
  p.disposition = "accepted_for_calibration" => p.status = "reviewed" /\ p.reviewer

PredictionObjectFails(s, p) ==
  \/ ~p.sound \/ ~Own(p) \/ ~p.shaped
  \/ ~Found(s.measurements, p.measurement)
  \/ \E e \in p.basis : ~Found(s.evidence, e)
  \/ ~NumberOrNull(p.value)
  \/ p.status \in {"comparable", "reviewed"} /\ ~Usable(p)
  \/ p.status = "reviewed" /\ ~p.reviewer
  \/ ~LearningAllowed(p)
  \/ QuantityDiffers(s, p)

(* validate_prediction_reality_record                                      *)
PredictionFails(s, f) ==
  f \notin Readable(s.predictions) \/ PredictionObjectFails(s, s.predictions[f])

(* compare_prediction_to_measurement; a record without its complete        *)
(* prediction object is not compared.                                      *)
Comparison(s, f) ==
  IF f \notin Readable(s.predictions) THEN "none" ELSE
  LET p == s.predictions[f]
      m == s.measurements[TheFile(s.measurements, p.measurement)]
  IN CASE ~p.shaped \/ ~Found(s.measurements, p.measurement) -> "none"
       [] OTHER ->
            IF QuantityDiffers(s, p) \/ m.value \notin Decimal \/ ~Usable(p) THEN "none"
            ELSE IF p.unit # m.unit THEN "unit_mismatch"
            ELSE IF <<m.value, p.value>> \in Undefined THEN "raises" ELSE "comparable"

-----------------------------------------------------------------------------
(* The summary of a case.                                                  *)

DuplicateIn(folder) == \E f, g \in Readable(folder) : f # g /\ folder[f].id = folder[g].id

(* duplicate_ids                                                           *)
Duplicates(s) ==
  DuplicateIn(s.evidence) \/ DuplicateIn(s.measurements) \/ DuplicateIn(s.predictions)

(* summarize_case: its status is FAIL, or there is none, because Decimal   *)
(* raises in a comparison.                                                 *)
SummaryFails(s) ==
  \/ \E f \in Files(s.evidence) : EvidenceFails(s, f)
  \/ \E f \in Files(s.measurements) : MeasurementFails(s, f)
  \/ \E f \in Files(s.predictions) : PredictionFails(s, f) \/ Comparison(s, f) = "raises"
  \/ Duplicates(s)

Comparable(s) == {f \in Files(s.predictions) : Comparison(s, f) = "comparable"}

(* A file that cannot be loaded is skipped before its value is looked at.  *)
MissingValues(s) == {f \in Readable(s.measurements) : s.measurements[f].value = Null}

(* reality_loop_status                                                     *)
LoopStatus(s) ==
  CASE Files(s.predictions) = {} /\ Files(s.evidence) = {} -> "NO_EVIDENCE"
    [] OTHER ->
         IF Files(s.measurements) = {} THEN "EVIDENCE_CAPTURED"
         ELSE IF Comparable(s) # {} THEN "HUMAN_REVIEW_REQUIRED"
         ELSE IF MissingValues(s) = {} /\ Files(s.predictions) # {} THEN "COMPARISON_READY"
         ELSE "MEASUREMENT_LINKED"
=============================================================================
