CONSTANTS
  intake = intake
  evidence = evidence
  measurement = measurement
  a1 = a1
  Writer = {w1, w2}
  Authoring = {a1}
  Numbered = {intake}
  Sidecar = {evidence, measurement}
  Linked <- Provenances
  Consults <- Validators
  Declares <- Declared
  MaxEdits = 1
  NoFile = NoFile
  NoEpr = NoEpr
SPECIFICATION Spec
SYMMETRY Symmetry
VIEW View
INVARIANTS TypeOK PublishedComplete SnapshotFresh SuccessBacked RecordsItsBasis
CHECK_DEADLOCK FALSE
