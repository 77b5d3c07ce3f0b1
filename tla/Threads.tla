------------------------------- MODULE Threads -------------------------------
(* The threads that contend for a lock, in SRWLock and in CriticalSection.  *)
EXTENDS FiniteSets

CONSTANT Thread

ASSUME ThreadAssumption == IsFiniteSet(Thread)
=============================================================================
