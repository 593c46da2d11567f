---------------------------- MODULE CaseScreening ----------------------------
(***************************************************************************)
(* A case in the course of its life: people edit the numbered files and    *)
(* the sidecars, one fact at a time, and triage and decision board are     *)
(* computed anew from what is there.  The board has no memory, so the      *)
(* order in which gaps are opened and closed must not matter to what it    *)
(* stands for.                                                             *)
(***************************************************************************)
EXTENDS DecisionBoard, FiniteSets

CONSTANT MaxPatterns   \* bound on the patterns a case mentions

VARIABLE case          \* the facts in the numbered files and sidecars

ASSUME PatternsAssumption == MaxPatterns \in Nat

(* The facts that may change from one text to the next.                    *)
Statement == {"diamond", "bounded", "packageUncertain", "packagePath", "symptom",
              "measured", "thermomechanical", "reviewed"}

(* What create_case writes: nothing is known yet, the package path is to   *)
(* be defined, and a pattern may be selected.  The template speaks of      *)
(* bonding and of interface resistance, and says neither to be unknown.    *)
Init ==
  /\ case \in [ missing : {Elements(Critical)}, patterns : {<<>>} \cup {<<r>> : r \in Route},
                diamond : {TRUE}, bounded : {TRUE}, packageUncertain : {TRUE},
                packagePath : {TRUE}, symptom : {FALSE}, measured : {FALSE},
                thermomechanical : {FALSE}, reviewed : {FALSE} ]

StateInput(x) == case' = [case EXCEPT !.missing = @ \ {x}]

WithdrawInput(x) == case' = [case EXCEPT !.missing = @ \cup {x}]

Revise(s) == case' = [case EXCEPT ![s] = ~@]

(* A pattern that is mentioned already, under whatever name, is not listed *)
(* again (_patterns).                                                      *)
SelectPattern(r) ==
  /\ r \notin Elements(case.patterns)
  /\ Len(case.patterns) < MaxPatterns
  /\ case' = [case EXCEPT !.patterns = Append(@, r)]

DropPattern(r) ==
  /\ r \in Elements(case.patterns)
  /\ case' = [case EXCEPT !.patterns = Kept(@, Route \ {r})]

Next ==
  \/ \E x \in Elements(Critical) : StateInput(x) \/ WithdrawInput(x)
  \/ \E s \in Statement : Revise(s)
  \/ \E r \in Route : SelectPattern(r) \/ DropPattern(r)

Spec == Init /\ [][Next]_case

-----------------------------------------------------------------------------
(* "Complete inputs plus an explicit reviewed comparison-evidence marker": *)
(* a board that is ready for a human decision hides no gap.  Nothing is    *)
(* missing, no candidate is deferred or waits for data or validation, the  *)
(* interface of a diamond route is bounded, a symptom is backed by a       *)
(* measurement, the classification names no lack of data or measurement,   *)
(* and the next thing to do is to compare.                                 *)
ReadyHidesNoGap ==
  StatusOf(case) = "READY_FOR_HUMAN_DECISION" =>
    /\ case.missing = {} /\ case.reviewed
    /\ Deferred(case) = <<>>
    /\ \A r \in RoutesOf(case) :
         /\ RouteStatus(case, r) \notin {"needs_data", "needs_validation"}
         /\ r \in Diamond => case.bounded
    /\ case.symptom => case.measured
    /\ Primary(case) \notin {"insufficient_data", "measurement_limited"}
    /\ TriageAction(case) = "comparison" /\ TopUncertainty(case) = "comparison"

(* "Pattern selection by itself can never create READY_FOR_HUMAN_DECISION" *)
(* (and selecting a pattern never lifts a hold for data).                  *)
SelectionNeverReadies ==
  [][Elements(case.patterns) \subseteq Elements(case'.patterns)
     /\ case' = [case EXCEPT !.patterns = case'.patterns]
       => /\ StatusOf(case') = "READY_FOR_HUMAN_DECISION" => StatusOf(case) = StatusOf(case')
          /\ StatusOf(case) = "HOLD_FOR_DATA" => StatusOf(case') = StatusOf(case)]_case

(* A ready board is lost only to a new gap, a withdrawn review or a new    *)
(* diamond context; closing a gap or dropping a pattern never loses it.    *)
ReadyIsLostToGaps ==
  [][StatusOf(case) = "READY_FOR_HUMAN_DECISION" /\ StatusOf(case') # StatusOf(case)
       => \/ case'.missing # {} \/ ~case'.reviewed
          \/ DiamondContext(case') /\ ~case'.bounded
          \/ case'.packageUncertain /\ ~case.packageUncertain
          \/ case'.thermomechanical /\ ~case.thermomechanical
          \/ case'.symptom /\ ~case'.measured]_case

(* Routes are framed consistently, although _route and _deferred_routes    *)
(* decide separately: a deferred route is a candidate, is deferred once    *)
(* and for one reason, never looks open to screening, and names the reason *)
(* among its uncertainties; a diamond candidate never loses the remark on  *)
(* its interface, whichever of its three sources it comes from.            *)
DeferredAreFramed ==
  /\ Len(Deferred(case)) = Cardinality(Elements(Deferred(case)))
  /\ \A r \in Elements(Deferred(case)) :
       /\ r \in Elements(case.patterns)
       /\ RouteStatus(case, r) \in {"needs_data", "needs_validation"}
       /\ RouteUncertainties(case, r) \cap {"data", "interface unbounded"} # {}
  /\ \A r \in Elements(case.patterns) \cap Diamond :
       RouteUncertainties(case, r) \cap {"interface unbounded", "interface review"} # {}

(* The list of next actions is cut to five and starts with the action of   *)
(* triage: nothing is ever cut off, and what triage is uncertain about is  *)
(* always acted upon.                                                      *)
NoActionIsCut ==
  /\ NextActions(case) = AllActions(case)
  /\ TopUncertainty(case) = "interface_limited_candidate"
       => "interface" \in Elements(NextActions(case))
  /\ TopUncertainty(case) = "measurement_limited"
       => {"measurement", "powered mapping"} \subseteq Elements(NextActions(case))
=============================================================================
