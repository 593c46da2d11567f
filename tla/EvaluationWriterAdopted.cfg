CONSTANTS
  Writer = {w1, w2}
  Eer = {v1, v2}
  Dir = {d1}
  NoDir = NoDir
  NoFile = NoFile
  NoEer = NoEer
  MaxEdits = 0
  Budget <- ReadBackBudget
SPECIFICATION Spec
INVARIANT SuccessBacked
CHECK_DEADLOCK FALSE
