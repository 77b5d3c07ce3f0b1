SPECIFICATION WOASpec
CONSTANTS
  Waiter = {t1, t2}
  Alerter = {w, drv}
  Unloader = drv
  Address = {a1}
  WakeBatch = 2
  IdBatch = 1
  AllocMayFail = TRUE
  MaxWrites = 1
  MaxWaits = 1
  StrayAlerts = 1
  Timeouts = {TRUE}
SYMMETRY Symmetry
CHECK_DEADLOCK FALSE
INVARIANTS WaitersReached NoMissedWake
