CONSTANTS
  Path = {0, 1, 2, 3, 4, 5, 6}
  Top = 0
  Parent <- MCParent
  Data <- MCData
  MaxChanges = 2
  CaseDirectory = 0
  MeasurementsDirectory = 1
  Target = 3
  EvidencePath = 5
  Sound <- MCSound
  PathsFor <- MCPathsFor
  RootChoices <- MCRootChoices
  FilesFor <- MCFilesFor
  TellingPath = {}
  TellingData <- MCTelling
  BinaryData <- MCBinary
  HugeData = {}
  SealedRoot = 1
  Artifacts <- MCArtifacts
  OutputFile = 5
  Protected <- MCProtected
  Version = {1, 2}
  NoRecord = NoRecord
  MaxGitSteps = 4
SPECIFICATION Spec
INVARIANTS ProjectsWhatWasValidated PassMissesNothing VerdictIsRight FrozenIsReviewed
CHECK_DEADLOCK FALSE
