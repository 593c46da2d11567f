----------------------------- MODULE TreeAudits -----------------------------
(***************************************************************************)
(* The commands that draw conclusions from files which others may change   *)
(* meanwhile: one measurement projection, one leakage audit, one sealing   *)
(* and its verification, or execution baselines.  One tool is in use in a  *)
(* behaviour; people change the files, or the repository, at any moment.   *)
(***************************************************************************)
EXTENDS MeasurementAdapter, LeakageScan, SealedManifest, ExecutionBaseline

CONSTANTS FilesFor,      \* for each tool, the files that may be there at first
          PathsFor,      \* bound: the paths that people then change
          RootChoices    \* tuples of scan roots

ASSUME AuditAssumption ==
  /\ \A t \in {"adapter", "scan", "seal", "baseline"} : PathsFor[t] \subseteq Path
  /\ RootChoices \subseteq Seq(Directories) \ {<<>>}

VARIABLE tool

vars == <<tree, git, adapter, scan, seal, baseline, tool>>

(* Tools that are not in use have one initial state.                       *)
Init ==
  /\ tool \in {"adapter", "scan", "seal", "baseline"}
  /\ \E present \in FilesFor[tool] : TreeInit(present)
  /\ \E roots \in RootChoices : ScanInit(IF tool = "scan" THEN roots ELSE <<>>)
  /\ \E v \in IF tool = "baseline" THEN Version ELSE {CHOOSE w \in Version : TRUE} : GitInit(v)
  /\ AdapterInit /\ SealInit /\ BaselineInit

Adapter == tool = "adapter" /\ AdapterStep /\ UNCHANGED <<scan, seal, baseline, git, tool>>

Scan == tool = "scan" /\ ScanStep /\ UNCHANGED <<adapter, seal, baseline, git, tool>>

Seal == tool = "seal" /\ SealStep /\ UNCHANGED <<adapter, scan, baseline, git, tool>>

Baseline == tool = "baseline" /\ (BaselineStep \/ GitStep) /\ UNCHANGED <<adapter, scan, seal, tree, tool>>

(* Changes matter until the verdict is settled: an audit with a finding    *)
(* fails, whatever else it finds.                                          *)
InUse ==
  CASE tool = "adapter" -> adapter.phase \notin {"failed", "projected"}
    [] tool = "scan" -> scan.phase \notin {"error", "pass", "fail"} /\ scan.findings = {}
    [] tool = "seal" -> seal.phase \notin {"error", "clean", "mismatch"}
    [] OTHER -> FALSE

Others == InUse /\ People(PathsFor[tool]) /\ UNCHANGED <<adapter, scan, seal, baseline, git, tool>>

Next == Adapter \/ Scan \/ Seal \/ Baseline \/ Others

Spec == Init /\ [][Next]_vars
=============================================================================
