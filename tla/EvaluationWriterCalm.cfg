CONSTANTS
  Writer = {w1, w2, w3}
  Eer = {v1, v2}
  Dir = {d1}
  NoDir = NoDir
  NoFile = NoFile
  NoEer = NoEer
  MaxEdits = 1
  Budget <- CalmBudget
SPECIFICATION Spec
SYMMETRY Symmetry
INVARIANTS TypeOK SuccessBacked ReadersAgree
PROPERTY ImplementsWriteOnceStore
CHECK_DEADLOCK FALSE
