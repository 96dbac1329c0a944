SPECIFICATION FairSpec
CONSTANTS
  Effects = {"read", "write"}
  RepeatIds = FALSE
  MaxModelCalls = 2
  MaxToolCalls = 2
  MaxBatch = 2
  MaxCalls = 3
  SpreadCalls = FALSE
  MaxTurns = 2
  MaxAsks = 2
  MaxFaults = 1
INVARIANTS
  EffectsAccounted
  HistorySound
PROPERTY
  TurnEnds
CHECK_DEADLOCK FALSE
