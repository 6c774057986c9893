SPECIFICATION StreamFairSpec
CONSTANTS
  Nil = Nil
  MaxBatches = 1
  MaxEvents = 2
  EventBatchSize = 2
  MaxMounts = 0
PROPERTY Reconnects
