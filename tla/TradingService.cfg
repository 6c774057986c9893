SPECIFICATION MCSpec
CONSTANTS
  BaseScale = 1
  QuantityStep = 1
  MaxInt64 = 1000000000
  Prices = {1, 10000, 10300, 10700}
  SpreadsBPS <- OneSpread
  MaxJumpBPS = 500
  MinRepriceBPS = 10
  PriceTick = 1
  MaxRuns = 2
  MaxMakerFaults = 2
  MaxMakers = 1
  MaxFaults = 1
  OpenStreams = TRUE
  k1 = k1
  s1 = s1
  p1 = p1
  p2 = p2
  c1 = c1
  c2 = c2
  None = None
  Calls = {c1, c2}
  Keys = {k1, s1}
  SystemKeys = {s1}
  Payloads = {p1, p2}
  QueueSize = 1
  SnapshotEvery = 2
  MaxVersion = 1
  MaxStarts = 2
CHECK_DEADLOCK FALSE
INVARIANT QuotesBelong
INVARIANT FenceWindow
INVARIANT MemoryFollowsLog
PROPERTY ResumesAfterThreeSamples
PROPERTY ExactlyOnce
 
 
