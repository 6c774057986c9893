SPECIFICATION FairSpec
CONSTANTS
  None = None
  Processes = {p1}
  MaxBatches = 2
  MaxEvents = 2
  BatchSize = 1
  CleanupBatchSize = 1
  MaximumCleanupRuns = 2
  MaxStarts = 2
  LostReplies = 1
PROPERTY EventuallyFed
PROPERTY RecoveryUnlessLost
