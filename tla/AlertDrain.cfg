SPECIFICATION Spec
CONSTANTS
  Waiter = {t1, t2}
  Alerter = {t3}
  WakeBatch = 1
  AllocMayFail = TRUE
INVARIANT DrainedMeansNoWaiter
