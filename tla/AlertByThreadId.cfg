SPECIFICATION FairSpec
CONSTANTS
  Waiter = {t1, t2}
  Alerter = {t2}
  WakeBatch = 1
  AllocMayFail = TRUE
INVARIANTS StackSafe
PROPERTIES ImplementsThreadAlert AlertedWaitReturns TerminateDrains
