SPECIFICATION FairSpec
CONSTANTS
  None = None
  Processes = {p1}
  MaxBatches = 1
  MaxEvents = 2
  BatchSize = 2
  CleanupBatchSize = 1
  MaximumCleanupRuns = 2
  MaxStarts = 2
  LostReplies = 1
PROPERTY RecoveryCompletes
