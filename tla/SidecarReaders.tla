--------------------------- MODULE SidecarReaders ---------------------------
(***************************************************************************)
(* Two readers that rely on sidecars: the thermomechanical screening of    *)
(* triage, which reads the files without validating them, and the EPR      *)
(* compiler, which checks the provenance of a quantity against them.       *)
(***************************************************************************)
EXTENDS Sidecars

CONSTANTS KindQuantity, \* labels that name an engineering quantity kind
          Registered,   \* the units registered for it: pairs of label and unit
          Convertible   \* values in the decimal syntax of the EPR: finite, and
                        \* within its digits and exponents

ASSUME KindAssumption ==
  /\ KindQuantity \subseteq Quantity \ {Unnamed}
  /\ Registered \subseteq KindQuantity \X Unit
  /\ Convertible \subseteq Decimal

(* What the case text leaves open, by the rule that asks for it: it is not *)
(* declared with a resolved basis, or it is listed as missing; "lateral"   *)
(* and "downstream" are open only where they are relevant.                 *)
TextGap == {"property", "history", "criteria", "adhesion", "fixture", "lateral", "downstream"}

(* The numbered files as far as these readers go: those gaps, and how the  *)
(* intake spells its case_id, if it has one.                               *)
CaseText == [ gaps : SUBSET TextGap, case : {"bare", "dressed", "none"} ]

-----------------------------------------------------------------------------
(* Screening: _evidence_state.                                             *)

(* A JSON value that is no object has no get: triage ends with an error.   *)
TriageRaises(s) ==
  \/ \E f \in DOMAIN s.evidence : s.evidence[f] = NotObject
  \/ \E f \in DOMAIN s.measurements : s.measurements[f] = NotObject

(* evidence_by_id: a later file with the same ID replaces an earlier one.  *)
Parent(s, m) ==
  {f \in WithId(s.evidence, m.evidence) : \A g \in WithId(s.evidence, m.evidence) : g <= f}

(* _case_id takes the rest of the line as it is, and a sidecar is of this  *)
(* case if it has the very same text.                                      *)
SameCase(text, x) == text.case # "none" /\ x.case = text.case

(* Completed or reviewed numeric context with a usable parent of the case. *)
SourceContext(text, m, e) ==
  /\ m.status \in {"completed", "reviewed"}
  /\ m.value \in JsonNumber
  /\ e.status \in {"draft", "reviewed"}
  /\ SameCase(text, e) /\ SameCase(text, m)

(* Faulty variant: the status of the measurement speaks for its parent.    *)
ReviewedContext_ByMeasurement(text, m, e) ==
  /\ SourceContext(text, m, e)
  /\ m.status = "reviewed" /\ m.reviewer

ReviewedContext(text, m, e) ==
  /\ SourceContext(text, m, e)
  /\ m.status = "reviewed" /\ e.status = "reviewed"
  /\ m.reviewer /\ e.reviewer
  /\ m.id \in e.links

SourceFiles(s, text) ==
  {f \in Readable(s.measurements) :
     \E g \in Parent(s, s.measurements[f]) : SourceContext(text, s.measurements[f], s.evidence[g])}

ReviewedFiles(s, text) ==
  {f \in Readable(s.measurements) :
     \E g \in Parent(s, s.measurements[f]) : ReviewedContext(text, s.measurements[f], s.evidence[g])}

QuantitiesOf(s, files) == {s.measurements[f].quantity : f \in files}

(* _quantity_state                                                         *)
QuantityState(s, text, q) ==
  IF q \in QuantitiesOf(s, ReviewedFiles(s, text)) THEN "reviewed"
  ELSE IF q \in QuantitiesOf(s, SourceFiles(s, text)) THEN "source_pending_review"
  ELSE "missing"

(* Faulty variant: source context is evidence enough.                      *)
EvidenceRequired_Unreviewed(s, text) == \E q \in {Stress, Bow} : QuantityState(s, text, q) = "missing"

EvidenceRequired(s, text) == \E q \in {Stress, Bow} : QuantityState(s, text, q) # "reviewed"

(* The rules TRIAGE-THERMOMECH-001 to -007 that fire.                      *)
ScreeningRules(s, text) ==
  { n \in 1..7 :
      \/ n = 1 /\ "property" \in text.gaps
      \/ n = 2 /\ "history" \in text.gaps
      \/ n = 3 /\ (EvidenceRequired(s, text) \/ "criteria" \in text.gaps)
      \/ n = 4 /\ "adhesion" \in text.gaps
      \/ n = 5 /\ "fixture" \in text.gaps
      \/ n = 6 /\ "lateral" \in text.gaps
      \/ n = 7 /\ "downstream" \in text.gaps }

(* screen_thermomechanical, for a case it applies to.                      *)
ScreeningStatus(s, text) ==
  IF ScreeningRules(s, text) # {} THEN "needs_evidence"
  ELSE IF ReviewedFiles(s, text) # {} THEN "reviewed_evidence_referenced"
  ELSE IF SourceFiles(s, text) # {} THEN "source_context_pending_review"
  ELSE "stated_context_no_explicit_gap"

-----------------------------------------------------------------------------
(* Compiler: a provenance entry p names its source ("evidence_object" or   *)
(* "measurement_reference"), an Evidence Object, for a measurement its     *)
(* reference too, and the review disposition declared for it, with the     *)
(* hash of the named file and the numeric value that stands in it.         *)
(* p.usable: the status of the enclosing value is neither conflicting nor  *)
(* evidence_required.                                                      *)

(* _actual_review_status                                                   *)
ActualStatus(source, status) ==
  CASE status \in {"reviewed", "rejected"} -> status
    [] source = "evidence_object" /\ status = "draft" -> "source_documented"
    [] source = "measurement_reference" /\ status = "completed" -> "source_documented"
    [] OTHER -> "unverified"

(* _STATUS_RANK: other dispositions have no rank and are not compared.     *)
Overclaims(declared, actual) ==
  \/ declared = "reviewed" /\ actual \in {"unverified", "source_documented"}
  \/ declared = "source_documented" /\ actual = "unverified"

(* _safe_sidecar reads the file that the ID names; then its validation and *)
(* identity, for which IDs are compared as they stand.                     *)
EvidenceBound(s, id) ==
  /\ id \in Readable(s.evidence)
  /\ ~EvidenceFails(s, id)
  /\ s.evidence[id].id = id /\ s.evidence[id].case = "bare"

MeasurementBound(s, p) ==
  /\ p.measurement \in Readable(s.measurements)
  /\ ~MeasurementFails(s, p.measurement)
  /\ s.measurements[p.measurement].id = p.measurement
  /\ s.measurements[p.measurement].case = "bare"
  /\ s.measurements[p.measurement].evidence = p.evidence

(* Faulty variant: the owner of a measurement is not looked at.            *)
DispositionAllowed_OwnStatus(p, status, owner) ==
  LET actual == ActualStatus(p.source, status)
  IN /\ ~Overclaims(p.declared, actual)
     /\ p.declared = "reviewed" => actual = "reviewed"
     /\ p.declared = "rejected" => actual = "rejected"
     /\ actual = "rejected" => ~p.usable
     /\ p.declared # "not_applicable"

(* What may be declared, from the status of the sidecar and of its owner.  *)
DispositionAllowed(p, status, owner) ==
  LET actual == ActualStatus(p.source, status)
  IN /\ ~Overclaims(p.declared, actual)
     /\ p.declared = "reviewed" => actual = "reviewed"
     /\ p.source = "measurement_reference" =>
          /\ ~Overclaims(p.declared, ActualStatus("evidence_object", owner))
          /\ p.declared = "reviewed" => owner = "reviewed"
     /\ p.declared = "rejected" => actual = "rejected"
     /\ actual = "rejected" \/ owner \in {"rejected", "deprecated"} => ~p.usable
     /\ p.declared # "not_applicable"

(* convert_quantity: a text that reads as a number is converted like one;  *)
(* what cannot be converted, or has no unit registered for its kind,       *)
(* raises and becomes a finding.                                           *)
ValueSubstantiates(p, m) ==
  /\ m.status \in {"completed", "reviewed"} =>
       m.value \in Convertible /\ <<m.quantity, m.unit>> \in Registered
  /\ m.status = "planned" /\ m.value = Null => ~p.usable

(* _intake_case_id finds an ID, and _provenance_reality nothing on p.      *)
Substantiated(s, text, p) ==
  /\ text.case # "none"
  /\ EvidenceBound(s, p.evidence)
  /\ LET owner == s.evidence[p.evidence].status
     IN IF p.source = "evidence_object" THEN DispositionAllowed(p, owner, owner)
        ELSE /\ MeasurementBound(s, p)
             /\ DispositionAllowed(p, s.measurements[p.measurement].status, owner)
             /\ ValueSubstantiates(p, s.measurements[p.measurement])

ReviewedProvenance(e, m) ==
  [ source |-> "measurement_reference", evidence |-> e, measurement |-> m,
    declared |-> "reviewed", usable |-> TRUE ]
=============================================================================
