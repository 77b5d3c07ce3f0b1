SPECIFICATION TebSpec
CONSTANTS
  TebWorker = {p1}
  TebDriver = {d1}
  Unloader = un
  NoTeb = none
  FlsSlots = 1
  TlsSlots = 1
  MaxAllocs = 1
CHECK_DEADLOCK FALSE
INVARIANT WalkSafe
