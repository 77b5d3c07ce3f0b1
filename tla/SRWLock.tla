------------------------------- MODULE SRWLock -------------------------------
(***************************************************************************)
(* Slim reader/writer locks, src/src/ntdll/srwlock.c.  The lock is one     *)
(* pointer: NULL is free, -1 is held exclusively, n > 0 is held by n       *)
(* readers.  Each volatile read and each InterlockedCompareExchangePointer *)
(* is a step of its own.  Waiting is RtlWaitOnAddress on the pointer: it   *)
(* blocks only if the pointer still has the value the caller saw, returns  *)
(* when RtlWakeAddressAll takes it, may return although nobody woke it     *)
(* (an alert left over in alert.c), and does not block during shutdown.    *)
(***************************************************************************)
EXTENDS Integers, FiniteSets, Threads

VARIABLES
  ptr,       \* SRWLock->Ptr
  spc,       \* where each thread is in srwlock.c, or what it holds
  seen,      \* State or PreviousState, the value a thread has read
  asleep,    \* threads registered in the wait-on-address list
  srwStop    \* LDK is shutting down: address waits return at once

srwVars == <<ptr, spc, seen, asleep, srwStop>>

EXCLUSIVE == -1

WaitLabel == {"waitX", "waitS"}
SRWLabel == WaitLabel \cup
  {"idle", "casX", "exclusive", "readS", "casS", "shared", "tryRead", "tryCas",
   "relRead", "relCas", "wake", "raised"}

(* A reader keeps its share until the compare-exchange that gives it back. *)
Readers == {t \in Thread : spc[t] \in {"shared", "relRead", "relCas"}}
Writers == {t \in Thread : spc[t] = "exclusive"}

SRWInit ==
  /\ ptr = 0
  /\ spc = [t \in Thread |-> "idle"]
  /\ seen = [t \in Thread |-> 0]
  /\ asleep = {}
  /\ srwStop = FALSE

SGoto(t, label) == spc' = [spc EXCEPT ![t] = label]
Sees(t, v) == seen' = [seen EXCEPT ![t] = v]

(***************************************************************************)
(* RtlAcquireSRWLockExclusive, RtlTryAcquireSRWLockExclusive.              *)
(***************************************************************************)
(* Fault: readers do not keep a writer out.                                *)
AcquireExclusiveIgnoresReaders(t) ==
  /\ spc[t] \in {"idle", "casX"}
  /\ IF ptr # EXCLUSIVE THEN ptr' = EXCLUSIVE /\ SGoto(t, "exclusive") /\ Sees(t, 0)
                        ELSE UNCHANGED ptr /\ SGoto(t, "waitX") /\ Sees(t, ptr)
  /\ UNCHANGED <<asleep, srwStop>>

AcquireExclusive(t) ==
  /\ spc[t] \in {"idle", "casX"}
  /\ IF ptr = 0 THEN ptr' = EXCLUSIVE /\ SGoto(t, "exclusive") /\ Sees(t, 0)
                ELSE UNCHANGED ptr /\ SGoto(t, "waitX") /\ Sees(t, ptr)
  /\ UNCHANGED <<asleep, srwStop>>

TryAcquireExclusive(t) ==
  /\ spc[t] = "idle"
  /\ IF ptr = 0 THEN ptr' = EXCLUSIVE /\ SGoto(t, "exclusive")
                ELSE UNCHANGED <<ptr, spc>>
  /\ UNCHANGED <<seen, asleep, srwStop>>

(***************************************************************************)
(* LdkpWaitForSRWLockChange: RtlWaitOnAddress compares under its list lock *)
(* and registers, or returns at once.                                      *)
(***************************************************************************)
(* The loop of the caller: compare-exchange again, or read again.          *)
LoopAgain(t) ==
  /\ SGoto(t, IF spc[t] = "waitX" THEN "casX" ELSE "readS")
  /\ Sees(t, 0)

(* Fault: the waiter registers without comparing the value it has seen.    *)
WaitForChangeUnchecked(t) ==
  /\ spc[t] \in WaitLabel /\ t \notin asleep
  /\ IF srwStop THEN LoopAgain(t) /\ UNCHANGED asleep
                ELSE asleep' = asleep \cup {t} /\ UNCHANGED <<spc, seen>>
  /\ UNCHANGED <<ptr, srwStop>>

WaitForChange(t) ==
  /\ spc[t] \in WaitLabel /\ t \notin asleep
  /\ IF ptr = seen[t] /\ ~srwStop
       THEN asleep' = asleep \cup {t} /\ UNCHANGED <<spc, seen>>
       ELSE LoopAgain(t) /\ UNCHANGED asleep
  /\ UNCHANGED <<ptr, srwStop>>

(* RtlWaitOnAddress returns although no RtlWakeAddressAll took the entry.  *)
SpuriousReturn(t) ==
  /\ t \in asleep
  /\ asleep' = asleep \ {t}
  /\ LoopAgain(t)
  /\ UNCHANGED <<ptr, srwStop>>

Awaken(S) ==
  /\ asleep' = asleep \ S
  /\ spc' = [t \in Thread |->
               IF t \in S THEN IF spc[t] = "waitX" THEN "casX" ELSE "readS"
                          ELSE spc[t]]
  /\ seen' = [t \in Thread |-> IF t \in S THEN 0 ELSE seen[t]]

(***************************************************************************)
(* RtlReleaseSRWLockExclusive.                                             *)
(***************************************************************************)
ReleaseExclusive(t) ==
  /\ spc[t] = "exclusive"
  /\ IF ptr = EXCLUSIVE THEN ptr' = 0 /\ SGoto(t, "wake")
                        ELSE UNCHANGED ptr /\ SGoto(t, "raised")
  /\ UNCHANGED <<seen, asleep, srwStop>>

(* RtlWakeAddressAll( &SRWLock->Ptr ), for up to a batch of sleepers: the  *)
(* entries leave the list before the lock is let go.                       *)
WakeSleepers(t) ==
  /\ spc[t] = "wake"
  /\ asleep' = {}
  /\ spc' = [u \in Thread |->
               IF u = t THEN "idle"
               ELSE IF u \in asleep
                 THEN IF spc[u] = "waitX" THEN "casX" ELSE "readS"
                 ELSE spc[u]]
  /\ seen' = [u \in Thread |-> IF u \in asleep THEN 0 ELSE seen[u]]
  /\ UNCHANGED <<ptr, srwStop>>

(***************************************************************************)
(* RtlAcquireSRWLockShared.                                                *)
(***************************************************************************)
ReadShared(t) ==
  /\ spc[t] \in {"idle", "readS"}
  /\ Sees(t, ptr)
  /\ SGoto(t, IF ptr >= 0 THEN "casS" ELSE "waitS")
  /\ UNCHANGED <<ptr, asleep, srwStop>>

CasShared(t) ==
  /\ spc[t] = "casS"
  /\ IF ptr = seen[t]
       THEN ptr' = seen[t] + 1 /\ SGoto(t, "shared") /\ Sees(t, 0)
       ELSE /\ UNCHANGED ptr
            /\ IF ptr >= 0 THEN SGoto(t, "readS") /\ Sees(t, 0)
                           ELSE SGoto(t, "waitS") /\ Sees(t, ptr)
  /\ UNCHANGED <<asleep, srwStop>>

(***************************************************************************)
(* RtlTryAcquireSRWLockShared.                                             *)
(***************************************************************************)
TryReadShared(t) ==
  /\ spc[t] \in {"idle", "tryRead"}
  /\ IF ptr >= 0 THEN SGoto(t, "tryCas") /\ Sees(t, ptr)
                 ELSE SGoto(t, "idle") /\ Sees(t, 0)
  /\ UNCHANGED <<ptr, asleep, srwStop>>

TryCasShared(t) ==
  /\ spc[t] = "tryCas"
  /\ IF ptr = seen[t] THEN ptr' = seen[t] + 1 /\ SGoto(t, "shared")
                      ELSE UNCHANGED ptr /\ SGoto(t, "tryRead")
  /\ Sees(t, 0)
  /\ UNCHANGED <<asleep, srwStop>>

(***************************************************************************)
(* RtlReleaseSRWLockShared.                                                *)
(***************************************************************************)
ReleaseReadShared(t) ==
  /\ spc[t] \in {"shared", "relRead"}
  /\ IF ptr <= 0 THEN SGoto(t, "raised") /\ Sees(t, 0)
                 ELSE SGoto(t, "relCas") /\ Sees(t, ptr)
  /\ UNCHANGED <<ptr, asleep, srwStop>>

ReleaseCasShared(t) ==
  /\ spc[t] = "relCas"
  /\ IF ptr = seen[t]
       THEN /\ ptr' = seen[t] - 1
            /\ SGoto(t, IF seen[t] = 1 THEN "wake" ELSE "idle")
       ELSE UNCHANGED ptr /\ SGoto(t, "relRead")
  /\ Sees(t, 0)
  /\ UNCHANGED <<asleep, srwStop>>

(* LdkpTerminateWaitOnAddressList ends every address wait, whatever value  *)
(* the lock has.                                                           *)
ShutdownSleepers ==
  /\ ~srwStop
  /\ srwStop' = TRUE
  /\ Awaken(asleep)
  /\ UNCHANGED ptr

(* Steps a thread inside a call takes as soon as it is scheduled.          *)
SRWStep(t) ==
  \/ spc[t] # "idle" /\ (AcquireExclusive(t) \/ ReadShared(t) \/ TryReadShared(t))
  \/ WaitForChange(t) \/ CasShared(t) \/ TryCasShared(t)
  \/ spc[t] = "relRead" /\ ReleaseReadShared(t)
  \/ ReleaseCasShared(t) \/ WakeSleepers(t)

(* An owner releases what it holds.                                        *)
SRWRelease(t) ==
  ReleaseExclusive(t) \/ (spc[t] = "shared" /\ ReleaseReadShared(t))

SRWNext ==
  \/ \E t \in Thread :
       \/ spc[t] = "idle" /\ (AcquireExclusive(t) \/ ReadShared(t) \/ TryReadShared(t))
       \/ TryAcquireExclusive(t)
       \/ SRWStep(t) \/ SRWRelease(t) \/ SpuriousReturn(t)
  \/ ShutdownSleepers

SRWSpec == SRWInit /\ [][SRWNext]_srwVars

(* Runnable threads run; nobody is obliged to release.                     *)
SRWFairness ==
  \A t \in Thread : WF_srwVars(SRWStep(t))

SRWFairSpec == SRWSpec /\ SRWFairness
-----------------------------------------------------------------------------
(* Types: the pointer is -1, 0 or a count.                                 *)
SRWTypeOK ==
  /\ ptr \in Int /\ ptr >= EXCLUSIVE
  /\ spc \in [Thread -> SRWLabel]
  /\ seen \in [Thread -> Int]
  /\ asleep \in SUBSET Thread
  /\ srwStop \in BOOLEAN

(* The pointer says exactly who is inside: -1 for one writer and nobody    *)
(* else, the number of readers otherwise.                                  *)
LockExact ==
  /\ \A t, u \in Writers : t = u
  /\ Writers # {} => Readers = {}
  /\ ptr = IF Writers # {} THEN EXCLUSIVE ELSE Cardinality(Readers)

(* An owner that releases is never told STATUS_RESOURCE_NOT_OWNED.         *)
NeverRaises == \A t \in Thread : spc[t] # "raised"

(* A thread sleeps only while somebody is going to wake it: whoever frees  *)
(* the lock has RtlWakeAddressAll still to call.                           *)
SleeperIsWoken ==
  asleep # {} => ptr # 0 \/ \E t \in Thread : spc[t] = "wake"

RWLock == INSTANCE ReadWriteLock WITH readers <- Readers, writers <- Writers

(* The compare-exchange loops implement a reader/writer lock.              *)
ImplementsReadWriteLock == RWLock!Spec

(* A thread asleep on a lock that has become free gets to try again.       *)
SleeperReturns ==
  \A t \in Thread : (t \in asleep /\ ptr = 0) ~> (t \notin asleep)
=============================================================================
