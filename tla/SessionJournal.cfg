CONSTANTS
  Writers = {w1, w2}
  NoWriter = NoWriter
  Texts = {"wide", "separator"}
  MaxRecords = 3
  MaxQueue = 2
  MaxPowerLoss = 1
SPECIFICATION FairSpec
INVARIANTS NoFork AckedKept FailedWriterFenced Replayable
PROPERTIES ImplementsLog LockReleased
CHECK_DEADLOCK FALSE
