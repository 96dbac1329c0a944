SPECIFICATION FairSpec
CONSTANTS
  Contents = {"text", "command"}
  Limit = 2
  MaxAsks = 2
  MaxInputs = 2
  MaxPrompts = 1
  MaxFaults = 2
INVARIANTS
  InputsKept
PROPERTY
  InputsServed
CHECK_DEADLOCK FALSE
