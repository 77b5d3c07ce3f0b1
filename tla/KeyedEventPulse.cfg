SPECIFICATION KFairSpec
CONSTANTS
  KWaiter = {n1}
  KReleaser = {m1}
  Key = {k1}
  MaxWaits = 1
  MaxReleases = 1
  TimedWait = FALSE
  TimedRelease = FALSE
CHECK_DEADLOCK FALSE
PROPERTY ReleaseReturns
