SPECIFICATION Spec
CONSTANTS
  Effects = {"write"}
  RepeatIds = FALSE
  MaxModelCalls = 2
  MaxToolCalls = 2
  MaxBatch = 1
  MaxCalls = 2
  SpreadCalls = FALSE
  MaxTurns = 1
  MaxAsks = 2
  MaxFaults = 0
INVARIANT
  NotExecutedMeansNoEffect
CHECK_DEADLOCK FALSE
