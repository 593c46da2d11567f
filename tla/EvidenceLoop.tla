---------------------------- MODULE EvidenceLoop ----------------------------
(***************************************************************************)
(* The sidecars of one case in use.  People edit one field at a time, copy *)
(* and delete files and save broken ones; the three new-* commands create  *)
(* drafts through a temporary file in the same folder and may be killed.   *)
(* Validators, summary, triage and compiler read what is there; nobody     *)
(* tells them what changed, so what holds must hold in every state.        *)
(***************************************************************************)
EXTENDS SidecarReaders

CONSTANTS NoJob,
          Beginnings,     \* the stores that behaviours start from
          MaxChanges      \* bound on edits, and on commands started

ASSUME LoopAssumption == MaxChanges \in Nat /\ Beginnings \subseteq Store

VARIABLES store,     \* the three folders
          text,      \* the numbered files of the case
          job,       \* the template command that is running
          changes    \* edits made and commands started

vars == <<store, text, job, changes>>

-----------------------------------------------------------------------------
(* Drafts.                                                                 *)

EvidenceDraft(id, compatible) ==
  [ id |-> id, case |-> "bare", compatible |-> compatible, status |-> "draft",
    reviewer |-> FALSE, links |-> {}, sound |-> TRUE ]

MeasurementDraft(id, evidence) ==
  [ id |-> id, case |-> "bare", evidence |-> evidence, status |-> "planned",
    quantity |-> Todo, value |-> Null,
    unit |-> NoUnit, reviewer |-> FALSE, sound |-> TRUE ]

PredictionDraft(id, measurement) ==
  [ id |-> id, case |-> "bare", measurement |-> measurement, basis |-> {},
    status |-> "draft", quantity |-> Todo,
    value |-> Null, unit |-> NoUnit, shaped |-> TRUE,
    disposition |-> "pending_review", reviewer |-> FALSE, sound |-> TRUE ]

(* The output name is free within the folder; it is varied for evidence.   *)
Job ==
  [ folder : {"evidence"}, file : EvidenceId, phase : {"checked", "made", "written"},
    data : {EvidenceDraft(i, c) : i \in EvidenceId, c \in BOOLEAN} ]
  \cup
  { [ folder |-> "measurements", file |-> i, phase |-> p, data |-> MeasurementDraft(i, e)] :
      i \in MeasurementId, p \in {"checked", "made", "written"}, e \in EvidenceId }
  \cup
  { [ folder |-> "predictions", file |-> i, phase |-> p, data |-> PredictionDraft(i, m)] :
      i \in RecordId, p \in {"checked", "made", "written"}, m \in MeasurementId }

TypeOK ==
  /\ store \in Store
  /\ text \in CaseText
  /\ job \in Job \cup {NoJob}
  /\ changes \in 0..MaxChanges

Init ==
  /\ store \in Beginnings
  /\ text = [gaps |-> {}, case |-> "bare"]
  /\ job = NoJob
  /\ changes = 0

-----------------------------------------------------------------------------
(* The commands new-evidence, new-measurement-reference and                *)
(* new-prediction-reality-record, one at a time.                           *)

(* The existence check.  Bound: one left-over temporary per folder.        *)
BeginTemplate ==
  /\ job = NoJob /\ changes < MaxChanges
  /\ \E j \in Job, force \in BOOLEAN :
       /\ j.phase = "checked"
       /\ store[j.folder][j.file] = Absent \/ force
       /\ store[j.folder][0] = Absent
       /\ job' = j
  /\ changes' = changes + 1
  /\ UNCHANGED <<store, text>>

(* mkstemp: the file is empty until its content is flushed.                *)
MakeTemporary ==
  /\ job # NoJob /\ job.phase = "checked"
  /\ store' = [store EXCEPT ![job.folder][0] = Malformed]
  /\ job' = [job EXCEPT !.phase = "made"]
  /\ UNCHANGED <<text, changes>>

WriteTemporary ==
  /\ job # NoJob /\ job.phase = "made"
  /\ store' = IF store[job.folder][0] = Absent THEN store   \* unlinked meanwhile
              ELSE [store EXCEPT ![job.folder][0] = job.data]
  /\ job' = [job EXCEPT !.phase = "written"]
  /\ UNCHANGED <<text, changes>>

(* os.replace: whatever has the name by now is gone.                       *)
ReplaceTarget ==
  /\ job # NoJob /\ job.phase = "written"
  /\ store[job.folder][0] # Absent
  /\ store' = [store EXCEPT ![job.folder][job.file] = job.data,
                            ![job.folder][0] = Absent]
  /\ job' = NoJob
  /\ UNCHANGED <<text, changes>>

(* A call fails, and the temporary is unlinked if it is there.             *)
FailTemplate ==
  /\ job # NoJob
  /\ store' = IF job.phase = "checked" THEN store
              ELSE [store EXCEPT ![job.folder][0] = Absent]
  /\ job' = NoJob
  /\ UNCHANGED <<text, changes>>

(* The temporary stays.                                                    *)
KillTemplate ==
  /\ job # NoJob
  /\ job' = NoJob
  /\ UNCHANGED <<store, text, changes>>

CommandStep ==
  BeginTemplate \/ MakeTemporary \/ WriteTemporary \/ ReplaceTarget \/ FailTemplate \/ KillTemplate

-----------------------------------------------------------------------------
(* People.                                                                 *)

EvidenceField ==
  [ id |-> EvidenceId, case |-> Spelling, compatible |-> BOOLEAN,
    status |-> {"draft", "reviewed", "rejected", "deprecated"},
    reviewer |-> BOOLEAN, links |-> SUBSET MeasurementId, sound |-> BOOLEAN ]

MeasurementField ==
  [ id |-> MeasurementId, case |-> Spelling, evidence |-> EvidenceId,
    status |-> {"planned", "completed", "reviewed", "rejected"},
    quantity |-> Quantity, value |-> Value, unit |-> Unit \cup {NoUnit},
    reviewer |-> BOOLEAN, sound |-> BOOLEAN ]

PredictionField ==
  [ id |-> RecordId, case |-> Spelling, measurement |-> MeasurementId, basis |-> SUBSET EvidenceId,
    status |-> {"draft", "comparable", "reviewed", "rejected"},
    quantity |-> Quantity, value |-> Value, unit |-> Unit \cup {NoUnit}, shaped |-> BOOLEAN,
    disposition |-> {"pending_review", "accepted_for_calibration", "rejected_from_calibration"},
    reviewer |-> BOOLEAN, sound |-> BOOLEAN ]

FieldsOf == [evidence |-> EvidenceField, measurements |-> MeasurementField, predictions |-> PredictionField]

Change(folder, f, content) ==
  /\ changes < MaxChanges
  /\ store' = [store EXCEPT ![folder][f] = content]
  /\ changes' = changes + 1
  /\ UNCHANGED <<text, job>>

EditField(folder, f) ==
  /\ f \in Readable(store[folder]) \ {0}
  /\ \E k \in DOMAIN FieldsOf[folder] : \E v \in FieldsOf[folder][k] \ {store[folder][f][k]} :
       Change(folder, f, [store[folder][f] EXCEPT ![k] = v])

CopyFile(folder, f, g) ==
  /\ f \in Readable(store[folder]) /\ g # 0 /\ store[folder][g] = Absent
  /\ Change(folder, g, store[folder][f])

BreakFile(folder, f) ==
  /\ f \in Readable(store[folder]) \ {0}
  /\ \E c \in {Malformed, NotObject} : Change(folder, f, c)

RemoveFile(folder, f) ==
  /\ store[folder][f] # Absent
  /\ Change(folder, f, Absent)

ReviseText ==
  /\ changes < MaxChanges
  /\ \/ \E g \in TextGap :
          text' = [text EXCEPT !.gaps = IF g \in @ THEN @ \ {g} ELSE @ \cup {g}]
     \/ \E c \in {"bare", "dressed", "none"} \ {text.case} : text' = [text EXCEPT !.case = c]
  /\ changes' = changes + 1
  /\ UNCHANGED <<store, job>>

Next ==
  \/ CommandStep
  \/ \E folder \in DOMAIN store : \E f \in DOMAIN store[folder] :
       \/ EditField(folder, f) \/ BreakFile(folder, f) \/ RemoveFile(folder, f)
       \/ \E g \in DOMAIN store[folder] : CopyFile(folder, f, g)
  \/ ReviseText

Spec == Init /\ [][Next]_vars

-----------------------------------------------------------------------------
(* In a case whose summary does not fail, the reader that validates        *)
(* nothing and the reader that checks everything agree: triage counts a    *)
(* measurement of a known quantity kind as reviewed exactly if the EPR     *)
(* compiler would let it be cited as reviewed, up to the conditions that   *)
(* one of them has alone: for triage an intake that spells the case ID     *)
(* bare, a JSON number and a link back from the evidence; for the compiler *)
(* a registered unit and a number it can convert, which NaN is not.  Files *)
(* bear the names of their objects.                                        *)
ReadersConcur ==
  ~SummaryFails(store) =>
    \A f \in Readable(store.measurements) :
      LET m == store.measurements[f]
      IN f = m.id /\ m.quantity \in KindQuantity /\ m.evidence \in WithId(store.evidence, m.evidence) =>
           ( /\ f \in ReviewedFiles(store, text)
             /\ <<m.quantity, m.unit>> \in Registered /\ m.value \in Convertible
             <=>
             /\ Substantiated(store, text, ReviewedProvenance(m.evidence, f))
             /\ text.case = "bare" /\ m.value \in JsonNumber
             /\ f \in store.evidence[m.evidence].links )

(* "Source-documented values and prose declarations do not replace         *)
(* reviewed evidence": when the screening of a case has nothing left to    *)
(* ask for, and its summary does not fail, stress and bow are each known   *)
(* from a validated, signed measurement that one measurement-compatible,   *)
(* signed Evidence Object of the same case refers back to.                 *)
ScreenedIsReviewed ==
  ~TriageRaises(store) /\ ScreeningRules(store, text) = {} =>
    /\ ScreeningStatus(store, text) = "reviewed_evidence_referenced"
    /\ ~SummaryFails(store) =>
         \A q \in {Stress, Bow} :
           \E f \in Readable(store.measurements), g \in Readable(store.evidence) :
             LET m == store.measurements[f]
                 e == store.evidence[g]
             IN /\ m.quantity = q /\ m.status = "reviewed" /\ m.reviewer /\ m.case = "bare"
                /\ WithId(store.evidence, m.evidence) = {g}
                /\ WithId(store.measurements, m.id) = {f}
                /\ e.compatible /\ e.status = "reviewed" /\ e.reviewer /\ e.case = "bare"
                /\ m.id \in e.links

(* Human review comes before learning, and a comparison before it: in a    *)
(* case whose summary does not fail, every record that is accepted for     *)
(* calibration is reviewed and signed, every record accepted or compared   *)
(* names one measurement of this case, which one measurement-compatible    *)
(* Evidence Object of it owns, and the two speak of one quantity unless    *)
(* one of them names none; and when the loop stops at COMPARISON_READY,    *)
(* what keeps a record from being compared is its own prediction or the    *)
(* unit, never the measurement.                                            *)
LearningBacked ==
  ~SummaryFails(store) =>
    \A f \in Files(store.predictions) :
      LET p == store.predictions[f]
          g == TheFile(store.measurements, p.measurement)
          m == store.measurements[g]
          e == store.evidence[TheFile(store.evidence, m.evidence)]
      IN /\ p.disposition = "accepted_for_calibration" => p.status = "reviewed" /\ p.reviewer
         /\ p.disposition = "accepted_for_calibration" \/ f \in Comparable(store) =>
              /\ WithId(store.measurements, p.measurement) = {g}
              /\ Own(p) /\ Own(m) /\ (m.quantity = p.quantity \/ Unnamed \in {m.quantity, p.quantity})
              /\ WithId(store.evidence, m.evidence) # {} /\ Own(e) /\ e.compatible
         /\ LoopStatus(store) = "COMPARISON_READY" =>
              ~Usable(p) \/ p.unit # m.unit

(* Templates do not fabricate results: no step of a command that puts      *)
(* nothing in the place of an existing file, killed at any point or not,   *)
(* makes triage count one more quantity as reviewed, though its temporary  *)
(* file is a sidecar to every reader.                                      *)
CommandsPromoteNothing ==
  [][ job' # job /\ (\A folder \in DOMAIN store : \A f \in DOMAIN store[folder] \ {0} :
                       store[folder][f] \in {Absent, store'[folder][f]}) =>
      QuantitiesOf(store', ReviewedFiles(store', text'))
        \subseteq QuantitiesOf(store, ReviewedFiles(store, text)) ]_vars
=============================================================================
