SPECIFICATION Spec
CONSTANTS
  AmbientLimit = 10
  SourceArea = 1
  NoResult = NoResult
  SourceTemperature <- MCSourceTemperature
  Problems <- MCProblems
  Plans <- MCPlans
INVARIANTS
  RefusalsExplained
  ResultsComeFromCore
  RankedAreComparable
  AcknowledgementsClosed
CHECK_DEADLOCK FALSE
