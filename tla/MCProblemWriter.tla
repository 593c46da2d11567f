--------------------------- MODULE MCProblemWriter ---------------------------
(* Instances of ProblemWriter for TLC: the intake, one measurement and the *)
(* evidence that owns it.  The authoring data has a provenance for each    *)
(* sidecar, so that the evidence is read for its hash twice.               *)
EXTENDS ProblemWriter, TLC

CONSTANTS intake, evidence, measurement, a1

Provenances == <<[sidecar |-> evidence, owner |-> evidence],
                 [sidecar |-> measurement, owner |-> evidence]>>

Validators == (evidence    :> {evidence, intake}) @@
              (measurement :> {measurement, intake, evidence})

(* The authoring data was written for the evidence as it is first and the  *)
(* measurement as it is after an edit.                                     *)
Declared == (a1 :> <<0, 1>>)

(* What a call may still do, and what the properties say of it, depends on *)
(* all it holds up to its link and for as long as its file is the target;  *)
(* afterwards only on the EPR it reports, or on nothing.                   *)
Unsettled(w) == target = w \/ pc[w] \notin {"collide", "cleanup", "done", "crashed", "uncompiled"}

Remains(w) ==
  IF Unsettled(w)
  THEN <<pc[w], failed[w], bytes[w], recorded[w], verdict[w], author[w],
         [s \in (IF pc[w] \in Compiling THEN Source ELSE recorded[w]) |->
            <<seen[w][s], basis[w][s], asOf[w][s]>>],
         IF pc[w] \in Reality THEN <<turn[w], held[w]>> ELSE <<>>,
         IF pc[w] \in {"read", "check", "checkOwner", "verify", "reverify"} THEN todo[w] ELSE {}>>
  ELSE IF pc[w] = "collide" \/ (pc[w] \in {"cleanup", "done"} /\ ~failed[w])
  THEN <<pc[w], Epr(w)>>
  ELSE <<pc[w] = "cleanup">>

View == <<version, target, entryLost, [w \in Writer |-> Remains(w)]>>

Symmetry == Permutations(Writer)
=============================================================================
