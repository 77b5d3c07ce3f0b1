--------------------------- MODULE AlertByThreadId ---------------------------
(***************************************************************************)
(* The alert-by-thread-id primitive of src/src/ntdll/alert.c: a thread     *)
(* blocks in NtWaitForAlertByThreadId until another thread names it in     *)
(* NtAlertThreadByThreadId; an alert that finds no waiter is kept as a     *)
(* pending entry.  LdkpTerminateAlertByThreadIdList wakes every waiter and *)
(* waits for the count of active waits to drain.                           *)
(*                                                                         *)
(* Each region held under LdkpAlertByThreadIdListLock is one step.  What   *)
(* the code does outside the lock (KeWaitForSingleObject, KeSetEvent, the  *)
(* allocation, the interlocked decrement and the KeSetEvent that follows   *)
(* it) is a step of its own.  The wait entry and its KEVENT live on the    *)
(* stack of the waiting thread, so a thread names its entry; the order of  *)
(* the two lists cannot be observed (one is searched by thread, the other  *)
(* is emptied), and they are sets.                                         *)
(***************************************************************************)
EXTENDS Integers, FiniteSets

CONSTANTS
  Waiter,        \* threads that wait for an alert
  Alerter,       \* threads that alert a waiter (a thread may do both)
  WakeBatch,     \* LDK_ALERT_BY_THREAD_ID_WAKE_BATCH (64 in the code)
  AllocMayFail   \* may ExAllocateFromNPagedLookasideList return NULL

ASSUME ThreadAssumption == IsFiniteSet(Waiter) /\ IsFiniteSet(Alerter)
ASSUME WakeBatchAssumption == WakeBatch \in Nat \ {0}
ASSUME AllocAssumption == AllocMayFail \in BOOLEAN

Thread == Waiter \cup Alerter

VARIABLES
  pc,            \* where each thread is in its call
  timed,         \* threads whose wait has a timeout
  status,        \* NTSTATUS of the thread's KeWait, then of its wait call
  target,        \* the thread an alert call names
  waiters,       \* LdkpAlertByThreadIdListHead
  inList,        \* threads whose Entry.InList is set
  woken,         \* threads whose Entry.Woken is set
  event,         \* threads whose KEVENT, on their stack, is signalled
  pending,       \* LdkpAlertByThreadIdPendingListHead
  ref,           \* thread object references taken by alert calls
  count,         \* LdkpAlertByThreadIdWaitCount
  drained,       \* LdkpAlertByThreadIdDrainedEvent
  ldkShutdown,   \* LDK_SHUTDOWN_IN_PROGRESS in LdkGlobalFlags
  shuttingDown,  \* LdkpAlertByThreadIdShuttingDown
  tpc,           \* where the thread in LdkTerminate is
  batch,         \* Events[] collected by LdkpWakeAllAlertByThreadIdWaiters
  full           \* did the last collection fill Events[]

entryVars == <<waiters, inList, woken>>
drainVars == <<count, drained>>
termVars  == <<ldkShutdown, shuttingDown, tpc, batch, full>>
vars == <<pc, timed, status, target, waiters, inList, woken, event, pending,
          ref, count, drained, ldkShutdown, shuttingDown, tpc, batch, full>>

Statuses == {"NONE", "SUCCESS", "TIMEOUT", "ALERTED", "DELETE_PENDING"}
WaitPc   == {"blocked", "relock", "rewait"}
AlertPc  == {"alloc", "retry", "pend", "setEvent"}
DerefPc  == {"deref", "setDrained"}
TermPc   == {"run", "flagged", "collect", "wake", "stopping", "drain", "clear",
             "done"}

(* The wait frame of t, with its entry and its event, is on t's stack.     *)
InFrame(t) == pc[t] \in WaitPc

(* Threads whose wait is counted in LdkpAlertByThreadIdWaitCount.          *)
Counted == {t \in Thread : pc[t] \in WaitPc \cup {"deref"}}

Init ==
  /\ pc = [t \in Thread |-> "idle"]
  /\ timed = {}
  /\ status = [t \in Thread |-> "NONE"]
  /\ target = [t \in Thread |-> t]
  /\ waiters = {}
  /\ inList = {}
  /\ woken = {}
  /\ event = {}
  /\ pending = {}
  /\ ref = [t \in Thread |-> 0]
  /\ count = 0
  /\ drained = TRUE
  /\ ldkShutdown = FALSE
  /\ shuttingDown = FALSE
  /\ tpc = "run"
  /\ batch = {}
  /\ full = FALSE

Goto(t, label) == pc' = [pc EXCEPT ![t] = label]

(***************************************************************************)
(* LdkpReferenceAlertByThreadIdWait and its inverse.  The reference runs   *)
(* under the list lock; the decrement and the KeSetEvent do not.           *)
(***************************************************************************)
ReferenceWait ==
  /\ count' = count + 1
  /\ drained' = (drained /\ count + 1 # 1)

DereferenceWait(t) ==
  /\ pc[t] = "deref"
  /\ count' = count - 1
  /\ Goto(t, IF count - 1 = 0 THEN "setDrained" ELSE "idle")
  /\ UNCHANGED <<timed, status, target, entryVars, event, pending, ref,
                 drained, termVars>>

(* Fault: the last waiter does not signal the drained event.               *)
SetDrainedMissing(t) ==
  /\ pc[t] = "setDrained"
  /\ Goto(t, "idle")
  /\ UNCHANGED <<timed, status, target, entryVars, event, pending, ref,
                 count, drained, termVars>>

SetDrained(t) ==
  /\ pc[t] = "setDrained"
  /\ drained' = TRUE
  /\ Goto(t, "idle")
  /\ UNCHANGED <<timed, status, target, entryVars, event, pending, ref,
                 count, termVars>>

(***************************************************************************)
(* NtWaitForAlertByThreadId.                                               *)
(***************************************************************************)
WaitRefused(t) ==
  /\ pc[t] = "idle"
  /\ shuttingDown \/ ldkShutdown
  /\ status' = [status EXCEPT ![t] = "DELETE_PENDING"]
  /\ UNCHANGED <<pc, timed, target, entryVars, event, pending, ref,
                 drainVars, termVars>>

WaitTakesPending(t) ==
  /\ pc[t] = "idle"
  /\ ~shuttingDown /\ ~ldkShutdown
  /\ t \in pending
  /\ ReferenceWait
  /\ pending' = pending \ {t}
  /\ ref' = [ref EXCEPT ![t] = @ - 1]
  /\ status' = [status EXCEPT ![t] = "ALERTED"]
  /\ Goto(t, "deref")
  /\ UNCHANGED <<timed, target, entryVars, event, termVars>>

(* Fault: a wait blocks without looking for a pending alert.               *)
WaitBlocksIgnoringPending(t, hasTimeout) ==
  /\ pc[t] = "idle"
  /\ ~shuttingDown /\ ~ldkShutdown
  /\ ReferenceWait
  /\ waiters' = waiters \cup {t}
  /\ inList' = inList \cup {t}
  /\ timed' = IF hasTimeout THEN timed \cup {t} ELSE timed
  /\ Goto(t, "blocked")
  /\ UNCHANGED <<status, target, woken, event, pending, ref, termVars>>

WaitBlocks(t, hasTimeout) ==
  /\ pc[t] = "idle"
  /\ ~shuttingDown /\ ~ldkShutdown
  /\ t \notin pending
  /\ ReferenceWait
  /\ waiters' = waiters \cup {t}
  /\ inList' = inList \cup {t}
  /\ woken' = woken \ {t}
  /\ event' = event \ {t}
  /\ timed' = IF hasTimeout THEN timed \cup {t} ELSE timed
  /\ Goto(t, "blocked")
  /\ UNCHANGED <<status, target, pending, ref, termVars>>

(* KeWaitForSingleObject satisfied: a synchronization event resets itself. *)
WaitSatisfied(t) ==
  /\ pc[t] = "blocked"
  /\ t \in event
  /\ event' = event \ {t}
  /\ status' = [status EXCEPT ![t] = "SUCCESS"]
  /\ Goto(t, "relock")
  /\ UNCHANGED <<timed, target, entryVars, pending, ref, drainVars, termVars>>

(* The wait may time out although the event is being signalled.            *)
WaitTimesOut(t) ==
  /\ pc[t] = "blocked"
  /\ t \in timed
  /\ status' = [status EXCEPT ![t] = "TIMEOUT"]
  /\ Goto(t, "relock")
  /\ UNCHANGED <<timed, target, entryVars, event, pending, ref, drainVars,
                 termVars>>

(* The wait is over: its entry and event are dead storage from here on.    *)
LeaveFrame(t, result) ==
  /\ woken' = woken \ {t}
  /\ event' = event \ {t}
  /\ timed' = timed \ {t}
  /\ status' = [status EXCEPT ![t] = result]
  /\ Goto(t, "deref")

(* Fault: a timed-out wait returns although a waker owns its event.        *)
WaitUnlinksNoRewait(t) ==
  /\ pc[t] = "relock"
  /\ waiters' = IF t \in inList THEN waiters \ {t} ELSE waiters
  /\ inList' = inList \ {t}
  /\ LeaveFrame(t, IF status[t] = "SUCCESS" THEN "ALERTED" ELSE status[t])
  /\ UNCHANGED <<target, pending, ref, drainVars, termVars>>

WaitUnlinks(t) ==
  /\ pc[t] = "relock"
  /\ waiters' = IF t \in inList THEN waiters \ {t} ELSE waiters
  /\ inList' = inList \ {t}
  /\ IF t \in woken /\ status[t] # "SUCCESS"
       THEN /\ Goto(t, "rewait")
            /\ UNCHANGED <<woken, event, timed, status>>
       ELSE LeaveFrame(t, IF status[t] = "SUCCESS" THEN "ALERTED" ELSE status[t])
  /\ UNCHANGED <<target, pending, ref, drainVars, termVars>>

(* A waker owns the event: wait for its KeSetEvent without a timeout.      *)
WaitAgain(t) ==
  /\ pc[t] = "rewait"
  /\ t \in event
  /\ LeaveFrame(t, "ALERTED")
  /\ UNCHANGED <<target, waiters, inList, pending, ref, drainVars, termVars>>

(***************************************************************************)
(* NtAlertThreadByThreadId.  PsLookupThreadByThreadId is modelled for the  *)
(* ids of live threads; for any other id the service returns at once.      *)
(***************************************************************************)
(* The alert call of t returns.                                            *)
LeaveAlert(t) ==
  /\ target' = [target EXCEPT ![t] = t]
  /\ Goto(t, "idle")

RemoveWaiter(u) ==
  /\ waiters' = waiters \ {u}
  /\ inList' = inList \ {u}
  /\ woken' = woken \cup {u}

AlertFindsWaiter(t, u) ==
  /\ pc[t] = "idle"
  /\ u \in waiters
  /\ RemoveWaiter(u)
  /\ target' = [target EXCEPT ![t] = u]
  /\ Goto(t, "setEvent")
  /\ UNCHANGED <<timed, status, event, pending, ref, drainVars, termVars>>

AlertFindsNone(t, u) ==
  /\ pc[t] = "idle"
  /\ u \notin waiters
  /\ target' = [target EXCEPT ![t] = u]
  /\ ref' = [ref EXCEPT ![u] = @ + 1]
  /\ Goto(t, "alloc")
  /\ UNCHANGED <<timed, status, entryVars, event, pending, drainVars, termVars>>

AlertAllocates(t) ==
  /\ pc[t] = "alloc"
  /\ \/ Goto(t, "pend")
     \/ AllocMayFail /\ Goto(t, "retry")
  /\ UNCHANGED <<timed, status, target, entryVars, event, pending, ref,
                 drainVars, termVars>>

AlertRetries(t) ==
  LET u == target[t] IN
  /\ pc[t] = "retry"
  /\ ref' = [ref EXCEPT ![u] = @ - 1]
  /\ \/ /\ u \in waiters
        /\ RemoveWaiter(u)
        /\ Goto(t, "setEvent")
        /\ UNCHANGED target
     \/ /\ u \notin waiters          \* STATUS_INSUFFICIENT_RESOURCES
        /\ LeaveAlert(t)
        /\ UNCHANGED entryVars
  /\ UNCHANGED <<timed, status, event, pending, drainVars, termVars>>

AlertPends(t) ==
  LET u == target[t] IN
  /\ pc[t] = "pend"
  /\ \/ /\ u \in waiters
        /\ RemoveWaiter(u)
        /\ ref' = [ref EXCEPT ![u] = @ - 1]
        /\ Goto(t, "setEvent")
        /\ UNCHANGED target
        /\ UNCHANGED pending
     \/ /\ u \notin waiters
        /\ pending' = pending \cup {u}
        /\ ref' = IF u \in pending THEN [ref EXCEPT ![u] = @ - 1] ELSE ref
        /\ LeaveAlert(t)
        /\ UNCHANGED entryVars
  /\ UNCHANGED <<timed, status, event, drainVars, termVars>>

(* Fault: the waiter is unlinked but its event is never set.               *)
AlertSetsEventMissing(t) ==
  /\ pc[t] = "setEvent"
  /\ LeaveAlert(t)
  /\ UNCHANGED <<timed, status, entryVars, event, pending, ref, drainVars,
                 termVars>>

AlertSetsEvent(t) ==
  /\ pc[t] = "setEvent"
  /\ event' = event \cup {target[t]}
  /\ LeaveAlert(t)
  /\ UNCHANGED <<timed, status, entryVars, pending, ref, drainVars,
                 termVars>>

(***************************************************************************)
(* Termination: LdkTerminate raises LDK_SHUTDOWN_IN_PROGRESS;              *)
(* LdkpTerminateWaitOnAddressList then calls                               *)
(* LdkpWakeAllAlertByThreadIdWaiters once (while shuttingDown is FALSE),   *)
(* and LdkpTerminateAlertByThreadIdList follows.                           *)
(***************************************************************************)
RaiseShutdown ==
  /\ tpc = "run"
  /\ ldkShutdown' = TRUE
  /\ tpc' = "flagged"
  /\ UNCHANGED <<pc, timed, status, target, entryVars, event, pending, ref,
                 drainVars, shuttingDown, batch, full>>

(* Entry of LdkpWakeAllAlertByThreadIdWaiters from its two callers.        *)
WakeAllForAddressList ==
  /\ tpc = "flagged"
  /\ tpc' = "collect"
  /\ UNCHANGED <<pc, timed, status, target, entryVars, event, pending, ref,
                 drainVars, ldkShutdown, shuttingDown, batch, full>>

BeginTerminate ==
  /\ tpc = "stopping"
  /\ shuttingDown' = TRUE
  /\ tpc' = "collect"
  /\ UNCHANGED <<pc, timed, status, target, entryVars, event, pending, ref,
                 drainVars, ldkShutdown, batch, full>>

(* LdkpCollectAlertByThreadIdEvents takes up to WakeBatch entries.         *)
CollectEvents ==
  /\ tpc = "collect"
  /\ \E B \in SUBSET waiters :
       /\ \/ B = waiters /\ Cardinality(B) < WakeBatch /\ full' = FALSE
          \/ Cardinality(B) = WakeBatch /\ full' = TRUE
       /\ batch' = B
       /\ waiters' = waiters \ B
       /\ inList' = inList \ B
       /\ woken' = woken \cup B
  /\ tpc' = "wake"
  /\ UNCHANGED <<pc, timed, status, target, event, pending, ref, drainVars,
                 ldkShutdown, shuttingDown>>

SetEvents(t) ==
  /\ tpc = "wake"
  /\ t \in batch
  /\ event' = event \cup {t}
  /\ batch' = batch \ {t}
  /\ UNCHANGED <<pc, timed, status, target, entryVars, pending, ref, drainVars,
                 ldkShutdown, shuttingDown, tpc, full>>

AfterBatch ==
  /\ tpc = "wake"
  /\ batch = {}
  /\ tpc' = IF full THEN "collect" ELSE IF shuttingDown THEN "drain"
                                                        ELSE "stopping"
  /\ UNCHANGED <<pc, timed, status, target, entryVars, event, pending, ref,
                 drainVars, ldkShutdown, shuttingDown, batch, full>>

WaitDrained ==
  /\ tpc = "drain"
  /\ drained
  /\ tpc' = "clear"
  /\ UNCHANGED <<pc, timed, status, target, entryVars, event, pending, ref,
                 drainVars, ldkShutdown, shuttingDown, batch, full>>

ClearPending ==
  /\ tpc = "clear"
  /\ \/ /\ pending = {}
        /\ tpc' = "done"
        /\ UNCHANGED <<pending, ref>>
     \/ \E u \in pending :
          /\ pending' = pending \ {u}
          /\ ref' = [ref EXCEPT ![u] = @ - 1]
          /\ UNCHANGED tpc
  /\ UNCHANGED <<pc, timed, status, target, entryVars, event, drainVars,
                 ldkShutdown, shuttingDown, batch, full>>

WaitCall(t) ==
  \/ WaitRefused(t)
  \/ WaitTakesPending(t)
  \/ \E hasTimeout \in BOOLEAN : WaitBlocks(t, hasTimeout)

AlertCall(t, u) == AlertFindsWaiter(t, u) \/ AlertFindsNone(t, u)

(* The steps a thread inside a call takes as soon as it is scheduled.      *)
ThreadStep(t) ==
  \/ WaitSatisfied(t) \/ WaitUnlinks(t) \/ WaitAgain(t)
  \/ DereferenceWait(t) \/ SetDrained(t)
  \/ AlertAllocates(t) \/ AlertRetries(t) \/ AlertPends(t) \/ AlertSetsEvent(t)

WakeAllStep == CollectEvents \/ (\E t \in Thread : SetEvents(t)) \/ AfterBatch

TerminateStep ==
  \/ WakeAllForAddressList \/ BeginTerminate \/ WakeAllStep
  \/ WaitDrained \/ ClearPending

Next ==
  \/ \E t \in Waiter : WaitCall(t) \/ WaitTimesOut(t)
  \/ \E t \in Alerter, u \in Waiter : AlertCall(t, u)
  \/ \E t \in Thread : ThreadStep(t)
  \/ RaiseShutdown
  \/ TerminateStep

Spec == Init /\ [][Next]_vars

(* A runnable thread is scheduled; nobody is obliged to make a call or to  *)
(* unload the driver, and a timeout need not expire.                       *)
Fairness ==
  /\ \A t \in Thread : WF_vars(ThreadStep(t))
  /\ WF_vars(TerminateStep)

FairSpec == Spec /\ Fairness
-----------------------------------------------------------------------------
(***************************************************************************)
(* Properties.                                                             *)
(***************************************************************************)

(* Every variable keeps its type: program counters, entry flags, the list  *)
(* as a set of threads, the interlocked count as a natural number.         *)
TypeOK ==
  /\ pc \in [Thread -> {"idle"} \cup WaitPc \cup AlertPc \cup DerefPc]
  /\ timed \in SUBSET Thread
  /\ status \in [Thread -> Statuses]
  /\ target \in [Thread -> Thread]
  /\ waiters \in SUBSET Thread
  /\ inList \in SUBSET Thread
  /\ woken \in SUBSET Thread
  /\ event \in SUBSET Thread
  /\ pending \in SUBSET Thread
  /\ ref \in [Thread -> Nat]
  /\ count \in Nat
  /\ drained \in BOOLEAN
  /\ ldkShutdown \in BOOLEAN
  /\ shuttingDown \in BOOLEAN
  /\ tpc \in TermPc
  /\ batch \in SUBSET Thread
  /\ full \in BOOLEAN

(* Alert calls that hold a reference on the thread object of u.            *)
Referencing(u) ==
  {t \in Thread : pc[t] \in {"alloc", "retry", "pend"} /\ target[t] = u}

(* The entry of t's wait was removed by a waker whose signal t has not     *)
(* received yet.                                                           *)
Owed(t) == t \in woken /\ ~(pc[t] = "relock" /\ status[t] = "SUCCESS")

(* u is about to call KeSetEvent on the event of t's wait entry.           *)
HoldsEventOf(u, t) == pc[u] = "setEvent" /\ target[u] = t

(* The entry and the event of a wait are on the waiter's stack.  Whoever   *)
(* still has a pointer to them, the list, the Events[] array of a          *)
(* wake-all, or an alert call between its unlock and its KeSetEvent, finds *)
(* the waiter inside NtWaitForAlertByThreadId, even if its timeout has     *)
(* expired meanwhile.                                                      *)
StackSafe ==
  /\ \A t \in waiters \cup batch : InFrame(t)
  /\ \A t, u \in Thread : HoldsEventOf(u, t) => InFrame(t)

(* A wait whose entry a waker has removed is owed exactly one signal: its  *)
(* event is set, or exactly one waker has yet to set it, or the wait has   *)
(* just been satisfied.  The wait without a timeout that follows a lost    *)
(* race with the timeout therefore cannot hang, nor end on somebody else's *)
(* signal.                                                                 *)
OneSignalOwed ==
  \A t \in Thread :
    InFrame(t) =>
      Cardinality({u \in Thread : HoldsEventOf(u, t)})
      + (IF t \in batch THEN 1 ELSE 0) + (IF t \in event THEN 1 ELSE 0)
      = (IF Owed(t) THEN 1 ELSE 0)

(* LdkpAlertByThreadIdWaitCount is the number of active waits, and when it *)
(* is zero the drained event is set or the thread that took it to zero is  *)
(* about to set it: termination cannot hang on the event.                  *)
CountExact ==
  /\ count = Cardinality(Counted)
  /\ count = 0 => drained \/ \E t \in Thread : pc[t] = "setDrained"

(* Every thread reference taken by PsLookupThreadByThreadId is dropped     *)
(* once: what is held is one per pending entry and one per alert call that *)
(* has not yet found a waiter or given up.                                 *)
RefExact ==
  \A u \in Thread :
    ref[u] = Cardinality(Referencing(u)) + (IF u \in pending THEN 1 ELSE 0)

(* Once termination has woken every waiter the list stays empty: the       *)
(* shutdown check and the insertion are under one lock.                    *)
NoWaiterAfterWakeAll ==
  tpc \in {"stopping", "drain", "clear", "done"} => waiters = {}

(* Alerts t has been given and has not yet consumed.                       *)
Alerts == [t \in Thread |-> (IF t \in pending THEN 1 ELSE 0)
                           + (IF InFrame(t) /\ t \in woken THEN 1 ELSE 0)]

(* What the caller knows of t's last wait.                                 *)
Result == [t \in Thread |-> IF InFrame(t) THEN "PENDING" ELSE status[t]]

Abstract == INSTANCE ThreadAlert WITH result <- Result, alerts <- Alerts,
                                      down <- ldkShutdown

(* The wait service implements a per-thread alert: a wait returns ALERTED  *)
(* only by consuming an alert, times out only if there is none, and never  *)
(* drops one before LDK is being terminated.                               *)
ImplementsThreadAlert == Abstract!Spec

(* An alert call that reports success has left its target an alert: the    *)
(* target's wait is going to return ALERTED, or its next one will.         *)
AlertDelivered ==
  [][\A t \in Thread :
       pc[t] \in {"pend", "setEvent"} /\ pc'[t] = "idle"
         => Alerts'[target[t]] > 0]_vars

(* A waiter that was alerted does return from NtWaitForAlertByThreadId.    *)
AlertedWaitReturns ==
  \A t \in Thread : (InFrame(t) /\ t \in woken) ~> ~InFrame(t)

(* Unloading does not hang on the alert list: whatever waits were blocked, *)
(* LdkpTerminateAlertByThreadIdList gets past its wait for the drain.      *)
TerminateDrains == (tpc = "flagged") ~> (tpc \in {"clear", "done"})

(* docs/runtime/wait-on-address.md: active waiters are drained during      *)
(* termination, so none is in LDK code once the drain is over.             *)
DrainedMeansNoWaiter == tpc \in {"clear", "done"} => Counted = {}
=============================================================================
