---------------------------- MODULE DecisionBoard ----------------------------
(***************************************************************************)
(* The screening rules as functions of a case: triage_case                 *)
(* (labos/triage/engine.py, rules.py) and build_decision_board on top of   *)
(* it (labos/decision_board/builder.py).                                   *)
(*                                                                         *)
(* The rules look for phrases in the numbered case files; the one on       *)
(* thermomechanics also looks at the sidecars in evidence/ and             *)
(* measurements/.  What they find is abstracted to facts; two cases with   *)
(* the same facts get the same board, up to wording.  Of the lists of a    *)
(* board those are kept that other rules or people act on: routes,         *)
(* deferred routes, next actions.                                          *)
(***************************************************************************)
EXTENDS Naturals, Sequences

CONSTANTS Route,         \* canonical pattern IDs of the index
          Diamond,       \* those that contain "DIA"
          GanOnDiamond   \* PAT-GAN-DIA-001

ASSUME DiamondAssumption == Diamond \subseteq Route /\ GanOnDiamond \in Diamond

(* CRITICAL_FIELDS, in the order in which they are asked for.              *)
Critical == <<"heat_source_geometry", "power_or_power_density", "cooling_boundary">>

Facts ==
  [ missing          : SUBSET {"heat_source_geometry", "power_or_power_density",
                               "cooling_boundary"},
    patterns         : Seq(Route),  \* in order of mention, each once
    diamond          : BOOLEAN,     \* the text talks of diamond, bonding, solder ...
    bounded          : BOOLEAN,     \* has_bounded_interface_evidence
    packageUncertain : BOOLEAN,     \* has_package_uncertainty
    packagePath      : BOOLEAN,     \* "package_path" is mentioned
    symptom          : BOOLEAN,     \* overheating, hot spot, thermal symptom
    measured         : BOOLEAN,     \* has_measurement_evidence
    thermomechanical : BOOLEAN,     \* screen_thermomechanical triggers a rule
    reviewed         : BOOLEAN ]    \* the scorecard has a review marker

(* The secondary classifications, in the order in which they are made.     *)
Classes == <<"cooling_boundary_limited", "interface_limited_candidate",
             "package_limited_candidate", "thermomechanical_validation_needed",
             "measurement_limited">>

Elements(s) == {s[i] : i \in DOMAIN s}

(* The elements of s that are in S, in their order.                        *)
Kept(s, S) ==
  LET kept[n \in 0..Len(s)] ==
        IF n = 0 THEN <<>>
        ELSE IF s[n] \in S THEN Append(kept[n - 1], s[n]) ELSE kept[n - 1]
  IN kept[Len(s)]

(* The first element of s that is in S.                                    *)
FirstOf(s, S) ==
  s[CHOOSE i \in DOMAIN s : s[i] \in S /\ \A j \in DOMAIN s : j < i => s[j] \notin S]

-----------------------------------------------------------------------------
(* triage_case                                                             *)

DiamondContext(f) == f.diamond \/ Elements(f.patterns) \cap Diamond # {}

(* When a secondary classification is made.  A missing critical input ends *)
(* the assessment before package and measurement are looked at.            *)
Classified(f, class) ==
  CASE class = "cooling_boundary_limited"           -> "cooling_boundary" \in f.missing
    [] class = "interface_limited_candidate"        -> DiamondContext(f) /\ ~f.bounded
    [] class = "package_limited_candidate"          -> f.missing = {} /\ f.packageUncertain
    [] class = "thermomechanical_validation_needed" -> f.thermomechanical
    [] class = "measurement_limited"                -> f.missing = {} /\ f.symptom /\ ~f.measured

Secondary(f) == {class \in Elements(Classes) : Classified(f, class)}

TriageStatus(f) ==
  IF f.missing # {} THEN "NEEDS_DATA"
  ELSE IF Secondary(f) = {"measurement_limited"} THEN "NEEDS_MEASUREMENT"
  ELSE "READY_FOR_SCREENING"

MaterialReady(f) == Secondary(f) = {} /\ f.packagePath /\ f.bounded

Primary(f) ==
  CASE TriageStatus(f) = "NEEDS_DATA"        -> "insufficient_data"
    [] TriageStatus(f) = "NEEDS_MEASUREMENT" -> "measurement_limited"
    [] MaterialReady(f)                      -> "material_limited_candidate"
    [] OTHER                                 -> "design_space_unclear"

(* next_best_action and top_uncertainty, each named after its subject.     *)
TriageAction(f) ==
  IF f.missing # {} THEN FirstOf(Critical, f.missing)
  ELSE IF f.thermomechanical THEN "thermomechanical"
  ELSE IF TriageStatus(f) = "NEEDS_MEASUREMENT" THEN "measurement"
  ELSE "comparison"

TopUncertainty(f) ==
  IF f.missing # {} THEN FirstOf(Critical, f.missing)
  ELSE IF f.thermomechanical THEN "thermomechanical_validation_needed"
  ELSE IF Secondary(f) # {} THEN FirstOf(Classes, Secondary(f))
  ELSE "comparison"

-----------------------------------------------------------------------------
(* build_decision_board                                                    *)

(* Faulty variant: a reviewed comparison is enough.                        *)
StatusOf_ReviewedIsEnough(f) ==
  CASE TriageStatus(f) = "NEEDS_DATA"        -> "HOLD_FOR_DATA"
    [] TriageStatus(f) = "NEEDS_MEASUREMENT" -> "HOLD_FOR_MEASUREMENT"
    [] TriageStatus(f) = "READY_FOR_SCREENING" /\ f.reviewed -> "READY_FOR_HUMAN_DECISION"
    [] OTHER                                 -> "READY_FOR_ARCHITECTURE_SCREENING"

(* Faulty variant: a selected pattern counts as compared.                  *)
StatusOf_SelectionCounts(f) ==
  CASE TriageStatus(f) = "NEEDS_DATA"        -> "HOLD_FOR_DATA"
    [] TriageStatus(f) = "NEEDS_MEASUREMENT" -> "HOLD_FOR_MEASUREMENT"
    [] TriageStatus(f) = "READY_FOR_SCREENING" /\ Secondary(f) = {}
         /\ (f.reviewed \/ f.patterns # <<>>) -> "READY_FOR_HUMAN_DECISION"
    [] OTHER                                 -> "READY_FOR_ARCHITECTURE_SCREENING"

(* Faulty variant: only a case that is ready for material screening.       *)
StatusOf_MaterialOnly(f) ==
  CASE TriageStatus(f) = "NEEDS_DATA"        -> "HOLD_FOR_DATA"
    [] TriageStatus(f) = "NEEDS_MEASUREMENT" -> "HOLD_FOR_MEASUREMENT"
    [] MaterialReady(f) /\ f.reviewed        -> "READY_FOR_HUMAN_DECISION"
    [] OTHER                                 -> "READY_FOR_ARCHITECTURE_SCREENING"

(* _board_state: a reviewed comparison and no classification left open.    *)
StatusOf(f) ==
  CASE TriageStatus(f) = "NEEDS_DATA"        -> "HOLD_FOR_DATA"
    [] TriageStatus(f) = "NEEDS_MEASUREMENT" -> "HOLD_FOR_MEASUREMENT"
    [] TriageStatus(f) = "READY_FOR_SCREENING" /\ f.reviewed /\ Secondary(f) = {}
                                             -> "READY_FOR_HUMAN_DECISION"
    [] OTHER                                 -> "READY_FOR_ARCHITECTURE_SCREENING"

InterfaceOpen(f) == "interface_limited_candidate" \in Secondary(f)

(* _route: the decision status of a candidate; later rules override.       *)
RouteStatus(f, r) ==
  CASE r = GanOnDiamond /\ f.missing = {}  -> "human_review_required"
    [] r = GanOnDiamond /\ f.missing # {}  -> "needs_data"
    [] r # GanOnDiamond /\ r \in Diamond /\ InterfaceOpen(f) -> "needs_validation"
    [] r # GanOnDiamond /\ ~(r \in Diamond /\ InterfaceOpen(f)) ->
         IF f.missing # {} THEN "needs_data" ELSE "screening_only"

(* _route: the key uncertainties.  A diamond route has a general remark on *)
(* its interface unless the particular one is there.                       *)
RouteUncertainties(f, r) ==
  LET data  == IF f.missing # {} THEN {"data"} ELSE {}
      open  == IF InterfaceOpen(f) /\ r \in Diamond THEN {"interface unbounded"} ELSE {}
  IN  data \cup open
      \cup (IF r \in Diamond /\ open = {} THEN {"interface review"} ELSE {})
      \cup (IF r = GanOnDiamond THEN {"integration"} ELSE {})

(* Faulty variant: the two reasons to defer do not exclude each other.     *)
Deferred_Twice(f) ==
  Kept(f.patterns, IF f.missing # {} THEN {GanOnDiamond} ELSE {})
  \o Kept(f.patterns, IF InterfaceOpen(f) THEN Diamond ELSE {})

(* _deferred_routes                                                        *)
Deferred(f) ==
  Kept(f.patterns, IF f.missing # {} THEN {GanOnDiamond} ELSE {})
  \o Kept(f.patterns, IF InterfaceOpen(f) THEN Diamond \ {GanOnDiamond} ELSE {})

(* What there is to do besides: the comparison basis, if a pattern is      *)
(* mentioned, and the criteria always.                                     *)
Wanted(f) ==
  {"criteria"}
  \cup (IF InterfaceOpen(f) THEN {"interface"} ELSE {})
  \cup (IF "measurement_limited" \in Secondary(f) THEN {"powered mapping"} ELSE {})
  \cup (IF f.patterns # <<>> THEN {"comparison basis"} ELSE {})

(* Faulty variant: one more kind of action, and still a cut at five.       *)
AllActions_Package(f) ==
  <<TriageAction(f)>>
  \o Kept(<<"interface", "package", "powered mapping", "comparison basis", "criteria">>,
          Wanted(f) \cup (IF "package_limited_candidate" \in Secondary(f)
                          THEN {"package"} ELSE {}))

(* _next_actions, before it is cut to five.                                *)
AllActions(f) ==
  <<TriageAction(f)>>
  \o Kept(<<"interface", "powered mapping", "comparison basis", "criteria">>, Wanted(f))

NextActions(f) == SubSeq(AllActions(f), 1, IF Len(AllActions(f)) < 5 THEN Len(AllActions(f)) ELSE 5)

(* The candidate and deferred routes, as IDs.                              *)
RoutesOf(f) == Elements(f.patterns) \cup Elements(Deferred(f))
=============================================================================
