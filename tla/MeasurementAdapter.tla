------------------------- MODULE MeasurementAdapter -------------------------
(***************************************************************************)
(* labos.engineering.prediction_reality_adapter: the projection of a       *)
(* persisted prediction onto a measurement reads the measurement through   *)
(* one snapshot before and one after its validation, which reads the same  *)
(* path and the evidence on its own, and compares the two.  One step is    *)
(* one system call.                                                        *)
(***************************************************************************)
EXTENDS FileTree

CONSTANTS CaseDirectory, MeasurementsDirectory, Target, EvidencePath,
          Sound      \* pairs of contents (measurement, evidence) that validate

ASSUME AdapterAssumption ==
  /\ CaseDirectory \in Path
  /\ MeasurementsDirectory \in Names(CaseDirectory)
  /\ Target \in Names(MeasurementsDirectory) \ Directories

VARIABLE adapter

Chain == {CaseDirectory, MeasurementsDirectory, Target}
Expected(p) == IF p = Target THEN "file" ELSE "dir"

NoSnapshot == [p \in Chain |-> Nowhere]

(* round: 1 before validation, 2 after it; at: the next step of a snapshot;*)
(* stats, data: the snapshot in progress; before: the first one; judged:   *)
(* what the validator read; steady: history, the path was not touched from *)
(* the first look at it to this one.                                       *)
AdapterInit ==
  adapter = [ phase |-> "reload", round |-> 1, stats |-> NoSnapshot, opened |-> Nowhere, data |-> <<>>,
              before |-> [stats |-> NoSnapshot, data |-> <<>>], judged |-> << <<>>, <<>> >>,
              steady |-> FALSE ]

FailProjection == adapter' = [adapter EXCEPT !.phase = "failed"]

(* _authoritative_reload: the supplied EER must equal its file.            *)
ReloadEvaluation ==
  /\ adapter.phase = "reload"
  /\ FailProjection \/ adapter' = [adapter EXCEPT !.phase = "case"]
  /\ UNCHANGED tree

(* The first lstat of the case, of the directory and of the target; the    *)
(* resolved path must be the path.                                         *)
Look(phase, p, next) ==
  /\ adapter.phase = phase
  /\ IF /\ Stat(p).kind = Expected(p)
        /\ p = Target => \A q \in Chain : Stat(q).kind = Expected(q)
     THEN adapter' = [adapter EXCEPT !.phase = next, !.stats[p] = Stat(p)]
     ELSE FailProjection
  /\ IF p = Target /\ adapter.round = 1 THEN Vouch({Target}) ELSE UNCHANGED tree

LookAtPath ==
  \/ Look("case", CaseDirectory, "directory")
  \/ Look("directory", MeasurementsDirectory, "target")
  \/ Look("target", Target, "open")

SameObject(s, t) == s.kind = t.kind /\ s.id = t.id

(* os.open with O_NOFOLLOW, and fstat.                                     *)
OpenTarget ==
  /\ adapter.phase = "open"
  /\ IF Regular(Target) /\ SameObject(Stat(Target), adapter.stats[Target])
     THEN adapter' = [adapter EXCEPT !.phase = "read", !.opened = Stat(Target)]
     ELSE FailProjection
  /\ UNCHANGED tree

ReadTarget ==
  /\ adapter.phase = "read"
  /\ adapter' = [adapter EXCEPT !.phase = "check", !.data = object[<<Target, adapter.opened.id>>].data]
  /\ UNCHANGED tree

CheckDescriptor ==
  /\ adapter.phase = "check"
  /\ IF DescriptorStat(Target, adapter.opened.id) = adapter.opened
     THEN adapter' = [adapter EXCEPT !.phase = "directory again"]
     ELSE FailProjection
  /\ UNCHANGED tree

(* The second lstat of each.  The snapshot is compared once all are taken; *)
(* that one which already differs ends the call here changes no outcome.   *)
LookAgain(phase, p, next) ==
  /\ adapter.phase = phase
  /\ IF Stat(p) = adapter.stats[p]
     THEN adapter' = [adapter EXCEPT !.phase = next, !.steady = IF p = Target THEN Target \notin late ELSE @]
     ELSE FailProjection
  /\ UNCHANGED tree

LookAgainAtPath ==
  \/ LookAgain("directory again", MeasurementsDirectory, "target again")
  \/ LookAgain("target again", Target, "case again")
  \/ LookAgain("case again", CaseDirectory, IF adapter.round = 1 THEN "validate" ELSE "compare")

(* validate_measurement_reference reads the measurement, then the evidence.*)
ValidateMeasurement ==
  /\ adapter.phase = "validate"
  /\ IF ReadableAt(Target)
     THEN adapter' = [adapter EXCEPT !.phase = "evidence", !.judged[1] = Contents(Target)]
     ELSE FailProjection
  /\ UNCHANGED tree

ValidateEvidence ==
  /\ adapter.phase = "evidence"
  /\ adapter' = [adapter EXCEPT
       !.phase = "case", !.round = 2,
       !.judged[2] = IF ReadableAt(EvidencePath) THEN Contents(EvidencePath) ELSE <<>>,
       !.before = [stats |-> adapter.stats, data |-> adapter.data]]
  /\ UNCHANGED tree

(* Faulty variant: the versions of the two snapshots are not compared.     *)
SameSnapshot_Identity ==
  /\ adapter.data = adapter.before.data
  /\ \A p \in Chain : SameObject(adapter.stats[p], adapter.before.stats[p])

(* Bytes, identities and versions of the two snapshots.                    *)
SameSnapshot ==
  /\ adapter.data = adapter.before.data
  /\ adapter.stats = adapter.before.stats

(* The end of _validated_measurement, and the projection of its result.    *)
ProjectMeasurement ==
  /\ adapter.phase = "compare"
  /\ IF SameSnapshot /\ adapter.judged \in Sound
     THEN adapter' = [adapter EXCEPT !.phase = "projected"]
     ELSE FailProjection
  /\ UNCHANGED tree

AdapterStep ==
  \/ ReloadEvaluation \/ LookAtPath \/ OpenTarget \/ ReadTarget \/ CheckDescriptor
  \/ LookAgainAtPath \/ ValidateMeasurement \/ ValidateEvidence \/ ProjectMeasurement

-----------------------------------------------------------------------------
(* The measurement that is projected is the one that was validated: the    *)
(* validator, which reads the path without any protection, saw the bytes   *)
(* that the caller gets, and the path led to them and nothing else from    *)
(* the first look at it to the last, even if directories were moved away   *)
(* and back, files edited and restored, or links put in their place.       *)
ProjectsWhatWasValidated ==
  adapter.phase = "projected" =>
    /\ adapter.judged[1] = adapter.data
    /\ adapter.steady
=============================================================================
