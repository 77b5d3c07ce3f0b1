SPECIFICATION PoolSpec
CONSTANTS
  Client = {c1}
  Item = {i1, i2}
  RaceDll = TRUE
  Caller = {d1}
  Watcher = w
  Nobody = none
  MaxSets = 3
INVARIANTS WorkObjectSafe WaitDrains DllExact WatcherSafe LegacyBlockStays
PROPERTIES ClosedIsFreed CloseReturns FiresAgain
