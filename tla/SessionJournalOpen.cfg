CONSTANTS
  Writers = {w1, w2}
  NoWriter = NoWriter
  Texts = {"wide"}
  MaxRecords = 3
  MaxQueue = 2
  MaxPowerLoss = 0
SPECIFICATION Spec
INVARIANTS AppendsOverSeenHistory
CHECK_DEADLOCK FALSE
