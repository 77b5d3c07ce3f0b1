SPECIFICATION Spec
CONSTANTS
  Thread = {s1, s2, s3}
  NoThread = none
  MaxDepth = 2
  AllocMayFail = TRUE
  Consumer = {e1, e2}
  Reader = {r1}
  Producer = {p1}
  CV = {v1}
  Batch = 1
  MaxItems = 2
  KWaiter = {n1, n2}
  KReleaser = {m1}
  Key = {k1, k2}
  MaxWaits = 1
  MaxReleases = 2
  TimedWait = TRUE
  TimedRelease = TRUE
CHECK_DEADLOCK FALSE
INVARIANTS SleeperIsWoken HandOverExact SleepersSafe ReachedOnce
PROPERTIES ImplementsReadWriteLock ImplementsLock WaiterEnters AllWoken ReleasedReturns
