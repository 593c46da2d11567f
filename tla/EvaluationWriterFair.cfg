CONSTANTS
  Writer = {w1, w2}
  Eer = {v1}
  Dir = {d1, d2}
  NoDir = NoDir
  NoFile = NoFile
  NoEer = NoEer
  MaxEdits = 1
  Budget <- EndBudget
SPECIFICATION FairSpec
PROPERTIES StaleNeverPublished CallsEnd EventuallyPublished
CHECK_DEADLOCK FALSE
