SPECIFICATION MCSpec
CONSTANTS
  None = None
  Nil = Nil
  Processes = {p1, p2}
  MaxBatches = 2
  MaxEvents = 2
  MaxTotal = 3
  StreamTotal = 2
  BatchSize = 2
  CleanupBatchSize = 1
  MaximumCleanupRuns = 2
  MaxStarts = 2
  LostReplies = 1
  EventBatchSize = 2
  MaxMounts = 1
  Stores = {1, 2}
  LegacyLogs <- Legacy
  MaxLog = 5
  BackfillSize = 2
  PageSize = 2
  MaxRotations = 2
  MaxCrashes = 1
  Absent = Absent
  MaxOps = 2
  MaxSends = 3
  MaxLogins = 2
  MaxIssued = 2
  WriteLimit = 1
SYMMETRY AnyProcess
INVARIANT DeliveryWhole
 
INVARIANT ReadModelExact
PROPERTY FeedIsPrefix
PROPERTY CursorForward
