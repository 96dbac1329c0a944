CONSTANTS
  Writers = {w1, w2}
  NoWriter = NoWriter
  Texts = {"wide", "separator"}
  MaxRecords = 2
  MaxQueue = 2
  MaxPowerLoss = 0
SPECIFICATION Spec
INVARIANTS AlwaysReplayable
CHECK_DEADLOCK FALSE
