SPECIFICATION LSpec
CONSTANTS
  a = a
  b = b
  c = c
  LThread = {t1, t2}
  Dll = {a, b, c}
  Imports <- Fork
  MaxInst = 4
  MaxOps = 5
  MayFail = TRUE
  SerialUnload = TRUE
CHECK_DEADLOCK FALSE
INVARIANTS ModulesCounted ImportsStayLoaded DetachInOrder
