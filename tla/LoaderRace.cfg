SPECIFICATION LSpec
CONSTANTS
  a = a
  b = b
  c = c
  LThread = {t1, t2}
  Dll = {a, b, c}
  Imports <- Fork
  MaxInst = 4
  MaxOps = 4
  MayFail = FALSE
  SerialUnload = FALSE
CHECK_DEADLOCK FALSE
INVARIANT ImportsStayLoaded
