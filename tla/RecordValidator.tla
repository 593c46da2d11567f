--------------------------- MODULE RecordValidator ---------------------------
(***************************************************************************)
(* The guardrails of validate_decision_record                              *)
(* (labos/decision_record/validator.py), as one verdict on what a human    *)
(* has written (a body), on whether the record's binding matches, and on   *)
(* the review package it is validated against.                             *)
(*                                                                         *)
(* Texts are abstracted to what the rules ask of them: the rationale is    *)
(* missing, talks about bulk conductivity only, or about the system; the   *)
(* other fields are in order or not.  Route lists stay sequences of names, *)
(* because duplicates, aliases and unknown names each have a rule.         *)
(***************************************************************************)
EXTENDS DecisionBoard

CONSTANTS Name,       \* what people write in a route list
          Unknown,    \* resolve_pattern_id found nothing
          Canonical   \* resolve_pattern_id, as a function

ASSUME NameAssumption ==
  /\ Unknown \notin Name
  /\ Route \subseteq Name
  /\ Canonical \in [Name -> Route \cup {Unknown}]

Outcome == {"pending", "approved", "deferred", "rejected", "more_evidence_required"}

Body ==
  [ wellFormed   : BOOLEAN,    \* fields, lists and objects are there
    status       : {"draft", "final"},
    outcome      : Outcome,
    release      : {"not_requested", "blocked", "approved"},
    approved     : Seq(Name),
    rejected     : Seq(Name),
    deferred     : Seq(Name),
    rationale    : {"none", "bulk", "system"},
    evidence     : BOOLEAN,    \* evidence_references is not empty
    required     : BOOLEAN,    \* required_additional_evidence is not empty
    basis        : BOOLEAN,    \* customer_release_basis is not empty
    identity     : BOOLEAN,    \* name and role of reviewer and owner
    acknowledged : BOOLEAN,    \* every acknowledgement and attestation is true
    note         : BOOLEAN,    \* the attestation note says what it is not
    risk         : BOOLEAN ]   \* risk acceptance is explicit and has a rationale

(* build_decision_record_template: what new-decision-record writes.        *)
TemplateBody ==
  [ wellFormed |-> TRUE, status |-> "draft", outcome |-> "pending",
    release |-> "blocked", approved |-> <<>>, rejected |-> <<>>,
    deferred |-> <<>>, rationale |-> "none", evidence |-> FALSE,
    required |-> FALSE, basis |-> FALSE, identity |-> FALSE,
    acknowledged |-> FALSE, note |-> TRUE, risk |-> FALSE ]

-----------------------------------------------------------------------------
Listed(b) == Elements(b.approved) \cup Elements(b.rejected) \cup Elements(b.deferred)

Resolved(s) == {Canonical[n] : n \in Elements(s)}

(* A canonical route occurs in a list at most once, under whatever name.   *)
OnceEach(s) == \A i, j \in DOMAIN s : Canonical[s[i]] = Canonical[s[j]] => i = j

(* RECORD-ROUTE-002, 004 and 005: every name resolves to a route of the    *)
(* package (Unknown is no route), and no route is in two lists.            *)
RoutesAllowed(b, p) ==
  /\ \A n \in Listed(b) : Canonical[n] \in p.routes
  /\ Resolved(b.approved) \cap Resolved(b.rejected) = {}
  /\ Resolved(b.approved) \cap Resolved(b.deferred) = {}
  /\ Resolved(b.rejected) \cap Resolved(b.deferred) = {}

(* RECORD-ROUTE-001, 003 and 006: no duplicates, no aliases.               *)
RoutesTidy(b) ==
  /\ OnceEach(b.approved) /\ OnceEach(b.rejected) /\ OnceEach(b.deferred)
  /\ \A n \in Listed(b) : n \in Route \/ Canonical[n] = n

(* Faulty variant: the board status is not looked at.                      *)
OutcomeJustified_AnyBoard(b, p) ==
  /\ b.outcome = "pending" => b.approved = <<>> /\ b.release # "approved"
  /\ b.outcome # "pending" => b.status = "final" /\ b.identity
  /\ b.outcome = "approved" =>
       b.acknowledged /\ b.rationale = "system" /\ b.approved # <<>> /\ b.evidence /\ b.risk
  /\ b.outcome = "rejected" => b.rejected # <<>> /\ b.rationale # "none"

(* The errors of _validate_outcome and _require_*, outcome by outcome.     *)
OutcomeJustified(b, p) ==
  /\ b.outcome = "pending" =>
       b.approved = <<>> /\ b.release # "approved"
  /\ b.outcome # "pending" =>
       b.status = "final" /\ b.identity
  /\ b.outcome = "approved" =>
       /\ p.status = "READY_FOR_HUMAN_DECISION"
       /\ b.acknowledged /\ b.rationale = "system"
       /\ b.approved # <<>> /\ b.evidence /\ b.risk
  /\ b.outcome = "rejected" =>
       b.rejected # <<>> /\ b.rationale # "none"
  /\ b.outcome \in {"deferred", "more_evidence_required"} =>
       b.acknowledged /\ b.rationale # "none" /\ b.required /\ b.release # "approved"
  /\ b.outcome = "more_evidence_required" =>
       b.approved = <<>>

(* _validate_customer_release.                                             *)
ReleaseJustified(b, p) ==
  b.release = "approved" =>
    /\ b.outcome = "approved" /\ b.status = "final"
    /\ p.status = "READY_FOR_HUMAN_DECISION"
    /\ b.basis /\ b.evidence /\ b.acknowledged

(* Nothing to warn about: a pending record always is, a rejection should   *)
(* cite evidence, and an attestation should say it is no signature.        *)
Complete(b) ==
  /\ b.outcome # "pending"
  /\ b.outcome = "rejected" => b.evidence
  /\ b.outcome # "rejected" \/ b.release = "approved" => b.note

(* validate_decision_record: errors, else warnings, else PASS.  Of the     *)
(* package p it uses the board status of the manifest, and the routes of   *)
(* the manifest and of the board preview.                                  *)
Verdict(b, bound, p) ==
  LET sound == /\ b.wellFormed /\ bound
               /\ RoutesAllowed(b, p) /\ OutcomeJustified(b, p) /\ ReleaseJustified(b, p)
  IN  IF ~sound THEN "FAIL"
      ELSE IF RoutesTidy(b) /\ Complete(b) THEN "PASS"
      ELSE "WARN"
=============================================================================
