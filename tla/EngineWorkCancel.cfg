SPECIFICATION FairSpec
CONSTANTS
  Actions = {a1, a2}
  MaxTurns = 2
  MaxEpochs = 1
  MaxAsks = 1
  MaxFaults = 0
PROPERTY
  CancelSettles
CHECK_DEADLOCK FALSE
