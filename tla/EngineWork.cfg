SPECIFICATION FairSpec
CONSTANTS
  Actions = {a1, a2}
  MaxTurns = 2
  MaxEpochs = 2
  MaxAsks = 1
  MaxFaults = 1
INVARIANTS
  RowsAgree
  OwnerHolds
  CancelAnswered
PROPERTIES
  LivesOnce
  QueuedServed
CHECK_DEADLOCK FALSE
