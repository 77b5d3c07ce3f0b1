SPECIFICATION Spec
CONSTANTS
  Worker = {w1, w2}
  Main = main
  Closer = {c1, c2}
  MaxSuspend = 2
  TebWorker = {p1}
  TebDriver = {d1}
  Unloader = un
  NoTeb = none
  FlsSlots = 1
  TlsSlots = 1
  MaxAllocs = 2
CHECK_DEADLOCK FALSE
INVARIANTS ContextSafe DrainedMeansGone SlotDataExact StaticTlsExact
PROPERTIES BarrierReturns FlsNotDropped
