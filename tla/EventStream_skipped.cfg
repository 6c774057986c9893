SPECIFICATION StreamSpec
CONSTANTS
  Nil = Nil
  MaxBatches = 2
  MaxEvents = 2
  EventBatchSize = 2
  MaxMounts = 0
INVARIANT NotSkipped
