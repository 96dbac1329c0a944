SPECIFICATION FairSpec
CONSTANTS
  Contents = {"text", "command"}
  Limit = 2
  MaxAsks = 2
  MaxInputs = 2
  MaxPrompts = 1
  MaxFaults = 0
PROPERTY
  FollowUpsServed
CHECK_DEADLOCK FALSE
