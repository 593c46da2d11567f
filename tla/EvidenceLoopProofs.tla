------------------------- MODULE EvidenceLoopProofs -------------------------
(***************************************************************************)
(* What holds of the sidecars of a case for any number of objects, labels, *)
(* units, edits and commands, killed or not.                               *)
(***************************************************************************)
EXTENDS EvidenceLoop, FiniteSetTheorems, TLAPS

Folder == {"evidence", "measurements", "predictions"}

FolderFile(folder) ==
  CASE folder = "evidence" -> EvidenceFile
    [] folder = "measurements" -> MeasurementFile
    [] OTHER -> RecordFile

FolderContent(folder) ==
  CASE folder = "evidence" -> Content(Evidence)
    [] folder = "measurements" -> Content(Measurement)
    [] OTHER -> Content(Prediction)

-----------------------------------------------------------------------------
(* Type correctness.                                                       *)

LEMMA StoreShape ==
  ASSUME NEW s \in Store
  PROVE  /\ DOMAIN s = Folder
         /\ \A folder \in Folder : s[folder] \in [FolderFile(folder) -> FolderContent(folder)]
  BY DEF Store, Folder, FolderFile, FolderContent

(* One file changes, to something that its folder may contain.             *)
LEMMA StoreChange ==
  ASSUME NEW s \in Store, NEW folder \in Folder, NEW f \in FolderFile(folder),
         NEW content \in FolderContent(folder)
  PROVE  [s EXCEPT ![folder][f] = content] \in Store
<1>1. CASE folder = "evidence"
  BY <1>1 DEF Store, FolderFile, FolderContent
<1>2. CASE folder = "measurements"
  BY <1>2 DEF Store, FolderFile, FolderContent
<1>3. CASE folder = "predictions"
  BY <1>3 DEF Store, FolderFile, FolderContent
<1> QED
  BY <1>1, <1>2, <1>3 DEF Folder

LEMMA EvidenceEdited ==
  ASSUME NEW e \in Evidence, NEW k \in DOMAIN EvidenceField, NEW v \in EvidenceField[k]
  PROVE  [e EXCEPT ![k] = v] \in Evidence
<1>1. k \in {"id", "case", "compatible", "status", "reviewer", "links", "sound"}
  BY DEF EvidenceField
<1> QED
  BY <1>1 DEF EvidenceField, Evidence

LEMMA MeasurementEdited ==
  ASSUME NEW m \in Measurement, NEW k \in DOMAIN MeasurementField, NEW v \in MeasurementField[k]
  PROVE  [m EXCEPT ![k] = v] \in Measurement
<1>1. k \in {"id", "case", "evidence", "status", "quantity", "value", "unit", "reviewer", "sound"}
  BY DEF MeasurementField
<1> QED
  BY <1>1 DEF MeasurementField, Measurement

LEMMA PredictionEdited ==
  ASSUME NEW p \in Prediction, NEW k \in DOMAIN PredictionField, NEW v \in PredictionField[k]
  PROVE  [p EXCEPT ![k] = v] \in Prediction
<1>1. k \in {"id", "case", "measurement", "basis", "status", "quantity", "value", "unit", "shaped",
             "disposition", "reviewer", "sound"}
  BY DEF PredictionField
<1> QED
  BY <1>1 DEF PredictionField, Prediction

(* What a command leaves: nothing that counts as reviewed.                 *)
IsDraft(content) == content.status \in {"draft", "planned"}

LEMMA JobIsTyped ==
  ASSUME NEW j \in Job
  PROVE  /\ j.folder \in Folder /\ j.file \in FolderFile(j.folder)
         /\ j.data \in FolderContent(j.folder) /\ IsDraft(j.data)
         /\ \A p \in {"checked", "made", "written"} : [j EXCEPT !.phase = p] \in Job
<1> DEFINE Typed == /\ j.folder \in Folder /\ j.file \in FolderFile(j.folder)
                    /\ j.data \in FolderContent(j.folder) /\ IsDraft(j.data)
                    /\ \A q \in {"checked", "made", "written"} : [j EXCEPT !.phase = q] \in Job
<1>1. Todo \in Quantity /\ Null \in Value
  BY SidecarsAssumption
<1>2. \A i \in EvidenceId, c \in BOOLEAN : EvidenceDraft(i, c) \in Evidence /\ IsDraft(EvidenceDraft(i, c))
  BY DEF EvidenceDraft, Evidence, Spelling, IsDraft
<1>3. \A i \in MeasurementId, e \in EvidenceId :
        MeasurementDraft(i, e) \in Measurement /\ IsDraft(MeasurementDraft(i, e))
  BY <1>1 DEF MeasurementDraft, Measurement, Spelling, IsDraft
<1>4. \A i \in RecordId, m \in MeasurementId :
        PredictionDraft(i, m) \in Prediction /\ IsDraft(PredictionDraft(i, m))
  BY <1>1 DEF PredictionDraft, Prediction, Spelling, IsDraft
<1>a. CASE j \in [ folder : {"evidence"}, file : EvidenceId, phase : {"checked", "made", "written"},
                   data : {EvidenceDraft(i, c) : i \in EvidenceId, c \in BOOLEAN} ]
  BY <1>a, <1>2 DEF Job, Folder, FolderFile, FolderContent, EvidenceFile, Content
<1>b. ASSUME NEW i \in MeasurementId, NEW p \in {"checked", "made", "written"}, NEW e \in EvidenceId,
             j = [folder |-> "measurements", file |-> i, phase |-> p, data |-> MeasurementDraft(i, e)]
      PROVE  Typed
  BY <1>b, <1>3 DEF Job, Folder, FolderFile, FolderContent, MeasurementFile, Content
<1>c. ASSUME NEW i \in RecordId, NEW p \in {"checked", "made", "written"}, NEW m \in MeasurementId,
             j = [folder |-> "predictions", file |-> i, phase |-> p, data |-> PredictionDraft(i, m)]
      PROVE  Typed
  BY <1>c, <1>4 DEF Job, Folder, FolderFile, FolderContent, RecordFile, Content
<1>d. CASE \E i \in MeasurementId, p \in {"checked", "made", "written"}, e \in EvidenceId :
             j = [folder |-> "measurements", file |-> i, phase |-> p, data |-> MeasurementDraft(i, e)]
  BY <1>b, <1>d, Zenon
<1>e. CASE \E i \in RecordId, p \in {"checked", "made", "written"}, m \in MeasurementId :
             j = [folder |-> "predictions", file |-> i, phase |-> p, data |-> PredictionDraft(i, m)]
  BY <1>c, <1>e, Zenon
<1>f. \/ j \in [ folder : {"evidence"}, file : EvidenceId, phase : {"checked", "made", "written"},
                 data : {EvidenceDraft(i, c) : i \in EvidenceId, c \in BOOLEAN} ]
      \/ \E i \in MeasurementId, p \in {"checked", "made", "written"}, e \in EvidenceId :
           j = [folder |-> "measurements", file |-> i, phase |-> p, data |-> MeasurementDraft(i, e)]
      \/ \E i \in RecordId, p \in {"checked", "made", "written"}, m \in MeasurementId :
           j = [folder |-> "predictions", file |-> i, phase |-> p, data |-> PredictionDraft(i, m)]
  BY DEF Job
<1> QED
  BY <1>a, <1>d, <1>e, <1>f

LEMMA NoContentIsTyped ==
  ASSUME NEW folder \in Folder
  PROVE  /\ {Absent, Malformed, NotObject} \subseteq FolderContent(folder)
         /\ 0 \in FolderFile(folder)
  BY DEF Folder, FolderContent, FolderFile, Content, EvidenceFile, MeasurementFile, RecordFile

LEMMA EditIsTyped ==
  ASSUME NEW folder \in Folder, NEW e \in FolderContent(folder) \ {Absent, Malformed, NotObject},
         NEW k \in DOMAIN FieldsOf[folder], NEW v \in FieldsOf[folder][k]
  PROVE  [e EXCEPT ![k] = v] \in FolderContent(folder)
<1>1. CASE folder = "evidence"
  BY <1>1, EvidenceEdited DEF FieldsOf, FolderContent, Content
<1>2. CASE folder = "measurements"
  BY <1>2, MeasurementEdited DEF FieldsOf, FolderContent, Content
<1>3. CASE folder = "predictions"
  BY <1>3, PredictionEdited DEF FieldsOf, FolderContent, Content
<1> QED
  BY <1>1, <1>2, <1>3 DEF Folder

LEMMA TypeInit == Init => TypeOK
  BY LoopAssumption DEF Init, TypeOK, CaseText

LEMMA TypeStep == TypeOK /\ [Next]_vars => TypeOK'
<1> SUFFICES ASSUME TypeOK, [Next]_vars PROVE TypeOK'
  OBVIOUS
<1> USE DEF TypeOK
<1>1. /\ DOMAIN store = Folder
      /\ \A folder \in Folder : store[folder] \in [FolderFile(folder) -> FolderContent(folder)]
  BY StoreShape
<1>2. MaxChanges \in Nat
  BY LoopAssumption
<1>3. ASSUME NEW folder \in Folder, NEW f \in FolderFile(folder),
             NEW content \in FolderContent(folder), Change(folder, f, content)
      PROVE  TypeOK'
  <2>1. store' \in Store
    BY <1>3, StoreChange DEF Change
  <2> QED
    BY <1>2, <1>3, <2>1 DEF Change
<1>4. \A folder \in Folder : \A f \in FolderFile(folder) :
        f \in Readable(store[folder]) =>
          store[folder][f] \in FolderContent(folder) \ {Absent, Malformed, NotObject}
  BY <1>1 DEF Readable
<1>a. CASE BeginTemplate
  BY <1>a, <1>2 DEF BeginTemplate
<1>b. CASE MakeTemporary
  BY <1>b, <1>2, JobIsTyped, NoContentIsTyped, StoreChange DEF MakeTemporary
<1>c. CASE WriteTemporary
  BY <1>c, <1>2, JobIsTyped, NoContentIsTyped, StoreChange DEF WriteTemporary
<1>d. CASE ReplaceTarget
  <2>1. job \in Job
    BY <1>d DEF ReplaceTarget
  <2> DEFINE one == [store EXCEPT ![job.folder][job.file] = job.data]
             two == [one EXCEPT ![job.folder][0] = Absent]
  <2>2. one \in Store
    BY <2>1, JobIsTyped, StoreChange
  <2> HIDE DEF one
  <2>3. two \in Store
    BY <2>1, <2>2, JobIsTyped, NoContentIsTyped, StoreChange
  <2> QED
    BY <1>d, <2>3 DEF ReplaceTarget, one
<1>e. CASE FailTemplate
  BY <1>e, <1>2, JobIsTyped, NoContentIsTyped, StoreChange DEF FailTemplate
<1>f. CASE KillTemplate
  BY <1>f DEF KillTemplate
<1>g. ASSUME NEW folder \in Folder, NEW f \in FolderFile(folder), EditField(folder, f) PROVE TypeOK'
  <2>0. PICK k \in DOMAIN FieldsOf[folder] :
          \E v \in FieldsOf[folder][k] :
            /\ f \in Readable(store[folder])
            /\ Change(folder, f, [store[folder][f] EXCEPT ![k] = v])
    BY <1>g DEF EditField
  <2>1. PICK v \in FieldsOf[folder][k] :
          /\ f \in Readable(store[folder])
          /\ Change(folder, f, [store[folder][f] EXCEPT ![k] = v])
    BY <2>0
  <2>2. [store[folder][f] EXCEPT ![k] = v] \in FolderContent(folder)
    BY <1>4, <2>1, EditIsTyped
  <2> QED
    BY <1>3, <2>1, <2>2
<1>h. ASSUME NEW folder \in Folder, NEW f \in FolderFile(folder), NEW g \in FolderFile(folder),
             CopyFile(folder, f, g)
      PROVE  TypeOK'
  BY <1>h, <1>3, <1>4 DEF CopyFile
<1>i. ASSUME NEW folder \in Folder, NEW f \in FolderFile(folder), BreakFile(folder, f) PROVE TypeOK'
  BY <1>i, <1>3, NoContentIsTyped DEF BreakFile
<1>j. ASSUME NEW folder \in Folder, NEW f \in FolderFile(folder), RemoveFile(folder, f) PROVE TypeOK'
  BY <1>j, <1>3, NoContentIsTyped DEF RemoveFile
<1>k. CASE ReviseText
  BY <1>k, <1>2 DEF ReviseText, CaseText
<1>l. CASE UNCHANGED vars
  BY <1>l DEF vars
<1>5. \A folder \in Folder : DOMAIN store[folder] = FolderFile(folder)
  BY <1>1
<1> QED
  BY <1>1, <1>5, <1>a, <1>b, <1>c, <1>d, <1>e, <1>f, <1>g, <1>h, <1>i, <1>j, <1>k, <1>l
     DEF Next, CommandStep

(* Whatever people and commands do, the folders hold what a sidecar can    *)
(* contain and the command that runs is one of the three.                  *)
THEOREM TypeCorrect == Spec => []TypeOK
  BY TypeInit, TypeStep, PTL DEF Spec

-----------------------------------------------------------------------------
(* An identifier that is found is the identifier of one file.              *)

LEMMA FoundIsOne ==
  ASSUME NEW s \in Store, NEW folder \in Folder, NEW id, Found(s[folder], id)
  PROVE  /\ WithId(s[folder], id) = {TheFile(s[folder], id)}
         /\ TheFile(s[folder], id) \in Readable(s[folder])
         /\ s[folder][TheFile(s[folder], id)].id = id
<1>1. IsFiniteSet(WithId(s[folder], id))
  <2>1. IsFiniteSet({0}) /\ IsFiniteSet(EvidenceId) /\ IsFiniteSet(MeasurementId) /\ IsFiniteSet(RecordId)
    BY FS_Singleton, SidecarsAssumption
  <2>2. IsFiniteSet(FolderFile(folder))
    BY <2>1, FS_Union DEF Folder, FolderFile, EvidenceFile, MeasurementFile, RecordFile
  <2>3. WithId(s[folder], id) \subseteq FolderFile(folder)
    BY StoreShape DEF WithId, Readable
  <2> QED
    BY <2>2, <2>3, FS_Subset
<1>2. \E f : WithId(s[folder], id) = {f}
  BY <1>1, FS_Singleton DEF Found
<1>3. WithId(s[folder], id) = {TheFile(s[folder], id)}
  BY <1>2 DEF TheFile
<1> QED
  BY <1>3 DEF WithId

(* What a summary without a failure says of a measurement and of its owner.*)
LEMMA MeasurementIsOwned ==
  ASSUME NEW s \in Store, ~SummaryFails(s), NEW f \in Readable(s.measurements)
  PROVE  LET m == s.measurements[f]
             g == TheFile(s.evidence, m.evidence)
         IN /\ ~MeasurementObjectFails(s, m)
            /\ WithId(s.evidence, m.evidence) = {g}
            /\ g \in Readable(s.evidence) /\ s.evidence[g].id = m.evidence
            /\ ~EvidenceFails(s, g) /\ ~EvidenceObjectFails(s, s.evidence[g])
            /\ s.evidence[g].compatible
<1> DEFINE m == s.measurements[f]
           g == TheFile(s.evidence, m.evidence)
<1>1. ~MeasurementFails(s, f)
  BY DEF SummaryFails, Files, Readable
<1>2. ~MeasurementObjectFails(s, m)
  BY <1>1 DEF MeasurementFails
<1>3. Found(s.evidence, m.evidence) /\ s.evidence[g].compatible
  BY <1>2 DEF MeasurementObjectFails
<1>4. /\ WithId(s.evidence, m.evidence) = {g}
      /\ g \in Readable(s.evidence) /\ s.evidence[g].id = m.evidence
  <2>1. "evidence" \in Folder
    BY DEF Folder
  <2> QED
    BY <1>3, <2>1, FoundIsOne
<1>5. ~EvidenceFails(s, g)
  BY <1>4 DEF SummaryFails, Files, Readable
<1> QED
  BY <1>2, <1>3, <1>4, <1>5 DEF EvidenceFails

LEMMA LearningStands == ASSUME TypeOK PROVE LearningBacked
<1> SUFFICES ASSUME ~SummaryFails(store), NEW f \in Files(store.predictions)
             PROVE  LET p == store.predictions[f]
                        g == TheFile(store.measurements, p.measurement)
                        m == store.measurements[g]
                        e == store.evidence[TheFile(store.evidence, m.evidence)]
                    IN /\ p.disposition = "accepted_for_calibration" => p.status = "reviewed" /\ p.reviewer
                       /\ p.disposition = "accepted_for_calibration" \/ f \in Comparable(store) =>
                            /\ WithId(store.measurements, p.measurement) = {g}
                            /\ Own(p) /\ Own(m) /\ (m.quantity = p.quantity \/ Unnamed \in {m.quantity, p.quantity})
                            /\ WithId(store.evidence, m.evidence) # {} /\ Own(e) /\ e.compatible
                       /\ LoopStatus(store) = "COMPARISON_READY" => ~Usable(p) \/ p.unit # m.unit
  BY DEF LearningBacked
<1> DEFINE p == store.predictions[f]
           g == TheFile(store.measurements, p.measurement)
           m == store.measurements[g]
           h == TheFile(store.evidence, m.evidence)
           e == store.evidence[h]
<1>0. store \in Store /\ "measurements" \in Folder
  BY DEF TypeOK, Folder
<1>1. /\ f \in Readable(store.predictions) /\ ~PredictionObjectFails(store, p)
      /\ Comparison(store, f) # "raises"
  BY DEF SummaryFails, PredictionFails
<1>2. /\ Own(p) /\ p.shaped /\ Found(store.measurements, p.measurement)
      /\ LearningAllowed(p) /\ ~QuantityDiffers(store, p)
  BY <1>1 DEF PredictionObjectFails
<1>3. WithId(store.measurements, p.measurement) = {g} /\ g \in Readable(store.measurements)
  BY <1>0, <1>2, FoundIsOne
<1>4. /\ ~MeasurementObjectFails(store, m)
      /\ WithId(store.evidence, m.evidence) = {h}
      /\ ~EvidenceObjectFails(store, e) /\ e.compatible
  BY <1>0, <1>3, MeasurementIsOwned
<1>5. Own(m) /\ Own(e)
  BY <1>4 DEF MeasurementObjectFails, EvidenceObjectFails
<1>6. m.quantity = p.quantity \/ Unnamed \in {m.quantity, p.quantity}
  BY <1>2 DEF QuantityDiffers
<1>7. ASSUME LoopStatus(store) = "COMPARISON_READY", Usable(p) PROVE p.unit # m.unit
  <2>1. Comparable(store) = {} /\ MissingValues(store) = {}
    BY <1>7 DEF LoopStatus
  <2>2. Comparison(store, f) # "comparable"
    BY <2>1 DEF Comparable
  <2>3. m.value \in Decimal
    BY <1>3, <1>4, <2>1 DEF MissingValues, MeasurementObjectFails, NumberOrNull
  <2> QED
    BY <1>1, <1>2, <1>7, <2>2, <2>3 DEF Comparison
<1> QED
  BY <1>2, <1>3, <1>4, <1>5, <1>6, <1>7 DEF LearningAllowed

LEMMA ReviewedHasParent ==
  ASSUME NEW s \in Store, NEW c, NEW f \in ReviewedFiles(s, c)
  PROVE  /\ f \in Readable(s.measurements)
         /\ \E g \in Parent(s, s.measurements[f]) :
              /\ g \in Readable(s.evidence) /\ s.evidence[g].id = s.measurements[f].evidence
              /\ ReviewedContext(c, s.measurements[f], s.evidence[g])
  BY DEF ReviewedFiles, Parent, WithId

LEMMA ScreeningStands == ASSUME TypeOK PROVE ScreenedIsReviewed
<1> SUFFICES ASSUME ScreeningRules(store, text) = {}
             PROVE  /\ ScreeningStatus(store, text) = "reviewed_evidence_referenced"
                    /\ ~SummaryFails(store) =>
                         \A q \in {Stress, Bow} :
                           \E f \in Readable(store.measurements), g \in Readable(store.evidence) :
                             LET m == store.measurements[f]
                                 e == store.evidence[g]
                             IN /\ m.quantity = q /\ m.status = "reviewed" /\ m.reviewer /\ m.case = "bare"
                                /\ WithId(store.evidence, m.evidence) = {g}
                                /\ WithId(store.measurements, m.id) = {f}
                                /\ e.compatible /\ e.status = "reviewed" /\ e.reviewer /\ e.case = "bare"
                                /\ m.id \in e.links
  BY DEF ScreenedIsReviewed
<1>0. store \in Store
  BY DEF TypeOK
<1>1. ~EvidenceRequired(store, text)
  BY DEF ScreeningRules
<1>2. \A q \in {Stress, Bow} : q \in QuantitiesOf(store, ReviewedFiles(store, text))
  BY <1>1 DEF EvidenceRequired, QuantityState
<1>3. \A q \in {Stress, Bow} : \E f \in ReviewedFiles(store, text) : store.measurements[f].quantity = q
  BY <1>2 DEF QuantitiesOf
<1>4. ScreeningStatus(store, text) = "reviewed_evidence_referenced"
  BY <1>3 DEF ScreeningStatus
<1>5. ASSUME ~SummaryFails(store), NEW q \in {Stress, Bow}
      PROVE  \E f \in Readable(store.measurements), g \in Readable(store.evidence) :
               LET m == store.measurements[f]
                   e == store.evidence[g]
               IN /\ m.quantity = q /\ m.status = "reviewed" /\ m.reviewer /\ m.case = "bare"
                  /\ WithId(store.evidence, m.evidence) = {g}
                  /\ WithId(store.measurements, m.id) = {f}
                  /\ e.compatible /\ e.status = "reviewed" /\ e.reviewer /\ e.case = "bare"
                  /\ m.id \in e.links
  <2>1. PICK f \in ReviewedFiles(store, text) : store.measurements[f].quantity = q
    BY <1>3
  <2> DEFINE m == store.measurements[f]
  <2>2. f \in Readable(store.measurements)
    BY <1>0, <2>1, ReviewedHasParent
  <2>3. PICK g \in Readable(store.evidence) :
          store.evidence[g].id = m.evidence /\ ReviewedContext(text, m, store.evidence[g])
    BY <1>0, <2>1, ReviewedHasParent
  <2> DEFINE e == store.evidence[g]
  <2>4. /\ m.status = "reviewed" /\ e.status = "reviewed" /\ m.reviewer /\ e.reviewer
        /\ m.case = text.case /\ e.case = text.case /\ text.case # "none" /\ m.id \in e.links
    BY <2>3 DEF ReviewedContext, SourceContext, SameCase
  <2>a. text.case = "bare"
    <3>1. ~MeasurementFails(store, f)
      BY <1>5, <2>2 DEF SummaryFails, Files, Readable
    <3>2. m.case \in {"bare", "padded"}
      BY <3>1 DEF MeasurementFails, MeasurementObjectFails, Own
    <3> QED
      BY <2>4, <3>2 DEF TypeOK, CaseText
  <2>5. WithId(store.evidence, m.evidence) = {g} /\ e.compatible
    <3>1. g \in WithId(store.evidence, m.evidence)
      BY <2>3 DEF WithId
    <3> QED
      BY <1>0, <1>5, <2>2, <3>1, MeasurementIsOwned
  <2>6. WithId(store.measurements, m.id) = {f}
    <3>1. ~DuplicateIn(store.measurements)
      BY <1>5 DEF SummaryFails, Duplicates
    <3> QED
      BY <2>2, <3>1 DEF DuplicateIn, WithId
  <2> QED
    BY <2>1, <2>2, <2>4, <2>a, <2>5, <2>6
<1> QED
  BY <1>4, <1>5

(* Both readers, asked about a measurement of a case without a failure     *)
(* whose files bear the names of their objects.                            *)
LEMMA ReadersAgreeOn ==
  ASSUME NEW s \in Store, NEW c \in CaseText, ~SummaryFails(s), NEW f \in Readable(s.measurements),
         f = s.measurements[f].id, s.measurements[f].quantity \in KindQuantity,
         s.measurements[f].evidence \in WithId(s.evidence, s.measurements[f].evidence)
  PROVE  LET m == s.measurements[f]
         IN /\ f \in ReviewedFiles(s, c)
            /\ <<m.quantity, m.unit>> \in Registered /\ m.value \in Convertible
            <=>
            /\ Substantiated(s, c, ReviewedProvenance(m.evidence, f))
            /\ c.case = "bare" /\ m.value \in JsonNumber
            /\ f \in s.evidence[m.evidence].links
<1> DEFINE m == s.measurements[f]
           g == m.evidence
           e == s.evidence[g]
           p == ReviewedProvenance(g, f)
           fits == <<m.quantity, m.unit>> \in Registered /\ m.value \in Convertible
<1>1. /\ ~MeasurementObjectFails(s, m) /\ WithId(s.evidence, g) = {g}
      /\ g \in Readable(s.evidence) /\ e.id = g
      /\ ~EvidenceFails(s, g) /\ ~EvidenceObjectFails(s, e) /\ e.compatible
  BY MeasurementIsOwned
<1>2. /\ m.case \in {"bare", "padded"} /\ e.case \in {"bare", "padded"}
      /\ m.status = "reviewed" => m.reviewer
      /\ e.status = "reviewed" => e.reviewer
  BY <1>1 DEF MeasurementObjectFails, EvidenceObjectFails, Own
<1>3. m \in Measurement /\ e \in Evidence
  BY <1>1 DEF Store, Readable, Content
<1>4. Parent(s, m) = {g}
  <2>1. g \in Nat
    BY <1>3, SidecarsAssumption DEF Measurement
  <2> QED
    BY <1>1, <2>1 DEF Parent
<1>5. f \in ReviewedFiles(s, c) <=> ReviewedContext(c, m, e)
  BY <1>4 DEF ReviewedFiles
<1>6. ReviewedContext(c, m, e) <=>
        /\ m.status = "reviewed" /\ e.status = "reviewed" /\ m.value \in JsonNumber /\ f \in e.links
        /\ c.case = "bare" /\ m.case = "bare" /\ e.case = "bare"
  <2>1. SameCase(c, m) /\ SameCase(c, e) <=> c.case = "bare" /\ m.case = "bare" /\ e.case = "bare"
    BY <1>2 DEF SameCase, CaseText
  <2> QED
    BY <1>2, <2>1 DEF ReviewedContext, SourceContext
<1>7. Substantiated(s, c, p) <=>
        /\ m.status = "reviewed" /\ e.status = "reviewed" /\ fits
        /\ c.case # "none" /\ m.case = "bare" /\ e.case = "bare"
  <2>1. /\ p.source = "measurement_reference" /\ p.evidence = g /\ p.measurement = f
        /\ p.declared = "reviewed" /\ p.usable = TRUE
    BY DEF ReviewedProvenance
  <2>2. EvidenceBound(s, g) <=> e.case = "bare"
    BY <1>1 DEF EvidenceBound
  <2>3. MeasurementBound(s, p) <=> m.case = "bare"
    BY <1>1, <2>1 DEF MeasurementBound, MeasurementFails
  <2>4. Substantiated(s, c, p) <=>
          /\ c.case # "none" /\ e.case = "bare" /\ m.case = "bare"
          /\ DispositionAllowed(p, m.status, e.status) /\ ValueSubstantiates(p, m)
    BY <2>1, <2>2, <2>3 DEF Substantiated
  <2>5. DispositionAllowed(p, m.status, e.status) <=> m.status = "reviewed" /\ e.status = "reviewed"
    <3>1. ActualStatus("measurement_reference", m.status) = "reviewed" <=> m.status = "reviewed"
      BY DEF ActualStatus
    <3>2. ActualStatus("evidence_object", e.status) = "reviewed" <=> e.status = "reviewed"
      BY DEF ActualStatus
    <3> QED
      BY <2>1, <3>1, <3>2 DEF DispositionAllowed, Overclaims
  <2>6. m.status = "reviewed" => (ValueSubstantiates(p, m) <=> fits)
    BY DEF ValueSubstantiates
  <2> QED
    BY <2>4, <2>5, <2>6
<1> HIDE DEF fits
<1>8. f \in ReviewedFiles(s, c) /\ fits
      <=> Substantiated(s, c, p) /\ c.case = "bare" /\ m.value \in JsonNumber /\ f \in e.links
  BY <1>5, <1>6, <1>7
<1> QED
  BY <1>8 DEF fits

LEMMA ReadersStand == ASSUME TypeOK PROVE ReadersConcur
  BY ReadersAgreeOn DEF ReadersConcur, TypeOK

-----------------------------------------------------------------------------
(* Commands.                                                               *)

(* Nothing was replaced, and what is new is a draft or cannot be read.     *)
LEMMA DraftsPromoteNothing ==
  ASSUME NEW s \in Store, NEW t \in Store, NEW c,
         \A folder \in Folder : \A f \in FolderFile(folder) :
           /\ \/ t[folder][f] \in {s[folder][f], Absent, Malformed, NotObject}
              \/ IsDraft(t[folder][f])
           /\ f # 0 => s[folder][f] \in {Absent, t[folder][f]}
  PROVE  QuantitiesOf(t, ReviewedFiles(t, c)) \subseteq QuantitiesOf(s, ReviewedFiles(s, c))
<1> SUFFICES ASSUME NEW f \in ReviewedFiles(t, c)
             PROVE  f \in ReviewedFiles(s, c) /\ s.measurements[f] = t.measurements[f]
  BY DEF QuantitiesOf
<1> DEFINE m == t.measurements[f]
<1>1. f \in Readable(t.measurements)
  BY ReviewedHasParent
<1>2. PICK g \in Parent(t, m) :
        g \in Readable(t.evidence) /\ t.evidence[g].id = m.evidence /\ ReviewedContext(c, m, t.evidence[g])
  BY ReviewedHasParent
<1>3. m.status = "reviewed" /\ t.evidence[g].status = "reviewed"
  BY <1>2 DEF ReviewedContext
<1>4. f \in MeasurementFile /\ g \in EvidenceFile
  BY <1>1, <1>2 DEF Readable, Store
<1>5. s.measurements[f] = m
  BY <1>1, <1>3, <1>4 DEF Folder, FolderFile, Readable, IsDraft
<1>6. s.evidence[g] = t.evidence[g]
  BY <1>2, <1>3, <1>4 DEF Folder, FolderFile, Readable, IsDraft
<1>7. f \in Readable(s.measurements) /\ g \in Readable(s.evidence)
  BY <1>1, <1>2, <1>4, <1>5, <1>6 DEF Readable, Store
<1>8. g \in Parent(s, m)
  <2>1. EvidenceFile \subseteq Nat
    BY SidecarsAssumption DEF EvidenceFile
  <2>2. ASSUME NEW h \in WithId(s.evidence, m.evidence) PROVE h <= g
    <3>1. h \in EvidenceFile /\ h \in Readable(s.evidence)
      BY <2>2 DEF WithId, Readable, Store
    <3>2. CASE h = 0
      BY <1>4, <2>1, <3>2
    <3>3. CASE h # 0
      <4>1. t.evidence[h] = s.evidence[h]
        BY <3>1, <3>3 DEF Folder, FolderFile, Readable
      <4>2. h \in WithId(t.evidence, m.evidence)
        BY <2>2, <3>1, <4>1 DEF WithId, Readable, Store
      <4> QED
        BY <1>2, <4>2 DEF Parent
    <3> QED
      BY <3>2, <3>3
  <2>3. g \in WithId(s.evidence, m.evidence)
    BY <1>2, <1>6, <1>7 DEF WithId
  <2> QED
    BY <2>2, <2>3 DEF Parent
<1>9. ReviewedContext(c, m, s.evidence[g])
  BY <1>2, <1>6 DEF ReviewedContext, SourceContext
<1> QED
  BY <1>5, <1>7, <1>8, <1>9 DEF ReviewedFiles

(* Only steps of a command change which command runs, and they leave       *)
(* nothing but drafts and files that cannot be read.                       *)
LEMMA CommandsLeaveDrafts ==
  ASSUME TypeOK, Next, job' # job
  PROVE  \A folder \in Folder : \A f \in FolderFile(folder) :
           \/ store'[folder][f] \in {store[folder][f], Absent, Malformed, NotObject}
           \/ IsDraft(store'[folder][f])
<1>1. CommandStep
  BY DEF Next, EditField, BreakFile, RemoveFile, CopyFile, Change, ReviseText
<1>2. /\ store \in Store /\ job \in Job \cup {NoJob} /\ DOMAIN store = Folder
      /\ \A folder \in Folder : store[folder] \in [FolderFile(folder) -> FolderContent(folder)]
  BY StoreShape DEF TypeOK
<1>a. CASE BeginTemplate \/ KillTemplate
  BY <1>a DEF BeginTemplate, KillTemplate
<1>b. CASE MakeTemporary
  BY <1>b, <1>2, JobIsTyped, NoContentIsTyped DEF MakeTemporary
<1>c. CASE WriteTemporary
  BY <1>c, <1>2, JobIsTyped, NoContentIsTyped DEF WriteTemporary
<1>d. CASE ReplaceTarget
  BY <1>d, <1>2, JobIsTyped, NoContentIsTyped DEF ReplaceTarget
<1>e. CASE FailTemplate
  BY <1>e, <1>2, JobIsTyped, NoContentIsTyped DEF FailTemplate
<1> QED
  BY <1>1, <1>a, <1>b, <1>c, <1>d, <1>e DEF CommandStep

-----------------------------------------------------------------------------
(* The reader that validates nothing (_evidence_state) and the one that    *)
(* checks everything (_provenance_reality) agree wherever the summary      *)
(* finds no failure.                                                       *)
THEOREM ReadersAlwaysConcur == Spec => []ReadersConcur
<1>1. TypeOK => ReadersConcur
  BY ReadersStand
<1> QED
  BY <1>1, TypeCorrect, PTL

(* A screening with nothing left to ask for (screen_thermomechanical)      *)
(* stands on reviewed measurements of stress and of bow.                   *)
THEOREM ScreeningStandsOnReview == Spec => []ScreenedIsReviewed
<1>1. TypeOK => ScreenedIsReviewed
  BY ScreeningStands
<1> QED
  BY <1>1, TypeCorrect, PTL

(* Nothing is accepted for calibration in a case without a failure         *)
(* (validate_prediction_reality_record, summarize_case) unless a reviewed  *)
(* chain of prediction, measurement and evidence stands behind it.         *)
THEOREM LearningIsBacked == Spec => []LearningBacked
<1>1. TypeOK => LearningBacked
  BY LearningStands
<1> QED
  BY <1>1, TypeCorrect, PTL

(* No template command (_write_json_atomically), finished, failed or       *)
(* killed, makes a quantity count as reviewed.                             *)
THEOREM CommandsNeverPromote == Spec => CommandsPromoteNothing
<1> DEFINE Harmless ==
      job' # job /\ (\A folder \in DOMAIN store : \A f \in DOMAIN store[folder] \ {0} :
                        store[folder][f] \in {Absent, store'[folder][f]}) =>
        QuantitiesOf(store', ReviewedFiles(store', text')) \subseteq QuantitiesOf(store, ReviewedFiles(store, text))
<1>1. TypeOK /\ TypeOK' /\ [Next]_vars => [Harmless]_vars
  <2> SUFFICES ASSUME TypeOK, TypeOK', Next, job' # job,
                      \A folder \in DOMAIN store : \A f \in DOMAIN store[folder] \ {0} :
                        store[folder][f] \in {Absent, store'[folder][f]}
               PROVE  QuantitiesOf(store', ReviewedFiles(store', text')) \subseteq
                        QuantitiesOf(store, ReviewedFiles(store, text))
    OBVIOUS
  <2>1. /\ store \in Store /\ store' \in Store /\ DOMAIN store = Folder
        /\ \A folder \in Folder : DOMAIN store[folder] = FolderFile(folder)
    BY StoreShape DEF TypeOK
  <2>2. \A folder \in Folder : \A f \in FolderFile(folder) :
          f # 0 => store[folder][f] \in {Absent, store'[folder][f]}
    BY <2>1
  <2>3. text' = text
    BY DEF Next, CommandStep, BeginTemplate, MakeTemporary, WriteTemporary, ReplaceTarget,
           FailTemplate, KillTemplate, EditField, BreakFile, RemoveFile, CopyFile, Change, ReviseText
  <2> QED
    BY <2>1, <2>2, <2>3, CommandsLeaveDrafts, DraftsPromoteNothing
<1> QED
  BY <1>1, TypeCorrect, PTL DEF Spec, CommandsPromoteNothing
=============================================================================
