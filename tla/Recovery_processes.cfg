SPECIFICATION WarmSpec
CONSTANTS
  p1 = p1
  p2 = p2
  t1 = t1
  t2 = t2
  t3 = t3
  r1 = r1
  r2 = r2
  None = None
  Processes = {p1, p2}
  Threads = {t1, t2}
  Owner <- TwoProcesses
  Release <- TwoReleases
  MaxEpoch = 2
  MaxVersion = 13
CHECK_DEADLOCK FALSE
INVARIANT WritesNeedProof
INVARIANT BreakerHolds
PROPERTY ForwardOnly
