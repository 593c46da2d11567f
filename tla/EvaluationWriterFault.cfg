CONSTANTS
  Writer = {w1, w2}
  Eer = {v1, v2}
  Dir = {d1, d2, d3}
  NoDir = NoDir
  NoFile = NoFile
  NoEer = NoEer
  MaxEdits = 0
  Budget <- FaultBudget
SPECIFICATION Spec
SYMMETRY Symmetry
INVARIANTS PublishedComplete CreatedSuccessKept FailedLeavesNoTarget TemporaryRemoved
PROPERTIES NoClobber OnlyOwnLinkRemoved
CHECK_DEADLOCK FALSE
