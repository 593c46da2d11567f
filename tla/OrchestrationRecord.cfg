SPECIFICATION Spec
CONSTANTS
  AmbientLimit = 10
  SourceArea = 1
  NoResult = NoResult
  SourceTemperature <- MCSourceTemperature
  Problems <- MCProblems
  Plans <- MCPlans
INVARIANT OrchestratedIsRecorded
CHECK_DEADLOCK FALSE
