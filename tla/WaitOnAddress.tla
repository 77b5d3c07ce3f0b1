---------------------------- MODULE WaitOnAddress ----------------------------
(***************************************************************************)
(* RtlWaitOnAddress and its wakers, src/src/ntdll/waitonaddress.c, on top  *)
(* of the alert-by-thread-id services they call.  A thread that waits on   *)
(* an address registers a stack entry in one global list, then blocks in   *)
(* NtWaitForAlertByThreadId; a waker unlinks entries under the list lock   *)
(* and alerts their threads one by one after unlocking.                    *)
(*                                                                         *)
(* wpc is where a thread is in waitonaddress.c, pc (of AlertByThreadId)    *)
(* where it is in alert.c: a thread in a nested call has both.  The        *)
(* watched memory changes by writers that write first and wake after.      *)
(***************************************************************************)
EXTENDS AlertByThreadId, Subsequences

CONSTANTS
  Address,      \* watched addresses
  Unloader,     \* the thread that runs LdkTerminate; alerts, never waits
  IdBatch,      \* LDK_WAIT_ON_ADDRESS_WAKE_BATCH (64 in the code)
  MaxWrites,    \* bound: writes to each address
  MaxWaits,     \* bound: RtlWaitOnAddress calls of each thread
  StrayAlerts,  \* bound: direct calls of NtAlertThreadByThreadId
  Timeouts      \* waits that callers make: TRUE with a timeout, FALSE without

ASSUME UnloaderAssumption == Unloader \in Alerter \ Waiter
ASSUME IdBatchAssumption == IdBatch \in Nat \ {0}
ASSUME TimeoutAssumption == Timeouts \subseteq BOOLEAN

VARIABLES
  mem,          \* the watched values
  wpc,          \* where each thread is in waitonaddress.c
  wait,         \* arguments of the thread's wait: address, value, timeout
  waits,        \* waits each thread has begun
  queue,        \* LdkpWaitOnAddressListHead
  wInList,      \* threads whose Entry.InList is set
  wWoken,       \* threads whose Entry.Woken is set
  wCount,       \* LdkpWaitOnAddressWaitCount
  wDrained,     \* LdkpWaitOnAddressDrainedEvent
  wShuttingDown,\* LdkpWaitOnAddressShuttingDown
  wakeAddr,     \* address a waker was called for
  ids,          \* ThreadIds[] collected and not yet alerted
  idsFull,      \* wakers whose last collection filled ThreadIds[]
  strays,       \* direct alerts the driver may still make
  wakeSingle,   \* writers call RtlWakeAddressSingle instead of ...All
  unsent        \* history: woken threads that an alert was given up for

waitVars  == <<wait, waits, queue, wInList, wWoken>>
wCountVars == <<wCount, wDrained>>
driver    == <<strays, wakeSingle>>
wakeVars  == <<wakeAddr, ids, idsFull, driver>>
woaVars   == <<mem, wpc, wait, waits, queue, wInList, wWoken, wCount, wDrained,
               wShuttingDown, wakeAddr, ids, idsFull, driver>>
allVars   == <<vars, woaVars, unsent>>

AnyAddress == "any"
Writers == Alerter \ {Unloader}

NoWait == [addr |-> AnyAddress, value |-> 0, timeout |-> FALSE]

(* The entry of t's wait is on its stack.                                  *)
Registered == {"call", "in", "callAgain", "inAgain", "finish"}
InWait(t) == wpc[t] \in Registered

WOAInit ==
  /\ Init
  /\ mem = [a \in Address |-> 0]
  /\ wpc = [t \in Thread |-> "out"]
  /\ wait = [t \in Thread |-> NoWait]
  /\ waits = [t \in Thread |-> 0]
  /\ queue = <<>>
  /\ wInList = {}
  /\ wWoken = {}
  /\ wCount = 0
  /\ wDrained = TRUE
  /\ wShuttingDown = FALSE
  /\ wakeAddr = [t \in Thread |-> AnyAddress]
  /\ ids = [t \in Thread |-> <<>>]
  /\ idsFull = {}
  /\ wakeSingle \in BOOLEAN
  /\ strays = IF wakeSingle THEN StrayAlerts ELSE 0
  /\ unsent = {}

WGoto(t, label) == wpc' = [wpc EXCEPT ![t] = label]

(***************************************************************************)
(* RtlWaitOnAddress.                                                       *)
(***************************************************************************)
ValuesMatch(t) == mem[wait[t].addr] = wait[t].value

(* The first comparison, outside the lock.  The caller passes a value it   *)
(* has seen at the address.                                                *)
WaitBegins(t, a, v, hasTimeout) ==
  /\ wpc[t] = "out" /\ pc[t] = "idle"
  /\ waits[t] < MaxWaits
  /\ v = mem[a]
  /\ wait' = [wait EXCEPT ![t] = [addr |-> a, value |-> v, timeout |-> hasTimeout]]
  /\ waits' = [waits EXCEPT ![t] = @ + 1]
  /\ WGoto(t, "matched")
  /\ UNCHANGED <<vars, mem, queue, wInList, wWoken, wCountVars, wShuttingDown,
                 wakeVars>>

WaitReturns(t) ==
  /\ wait' = [wait EXCEPT ![t] = NoWait]
  /\ WGoto(t, "out")

WaitRefusedByShutdown(t) ==
  /\ wpc[t] = "matched"
  /\ wShuttingDown \/ ldkShutdown
  /\ WaitReturns(t)
  /\ UNCHANGED <<vars, mem, waits, queue, wInList, wWoken, wCountVars,
                 wShuttingDown, wakeVars>>

(* The comparison under the lock fails before the insertion.               *)
WaitFindsChange(t) ==
  /\ wpc[t] = "matched"
  /\ ~wShuttingDown /\ ~ldkShutdown
  /\ ~ValuesMatch(t)
  /\ WaitReturns(t)
  /\ UNCHANGED <<vars, mem, waits, queue, wInList, wWoken, wCountVars,
                 wShuttingDown, wakeVars>>

WReference ==
  /\ wCount' = wCount + 1
  /\ wDrained' = (wDrained /\ wCount + 1 # 1)

(* The value changes between the two comparisons made under the lock: the  *)
(* entry is inserted and removed in the same critical section.             *)
WaitBacksOut(t) ==
  /\ wpc[t] = "matched"
  /\ ~wShuttingDown /\ ~ldkShutdown
  /\ ~ValuesMatch(t)
  /\ WReference
  /\ WGoto(t, "deref")
  /\ UNCHANGED <<vars, mem, waitVars, wShuttingDown, wakeVars>>

(* Fault: the value is not compared again under the lock.                  *)
WaitRegistersUnchecked(t) ==
  /\ wpc[t] = "matched"
  /\ ~wShuttingDown /\ ~ldkShutdown
  /\ WReference
  /\ queue' = Append(queue, t)
  /\ wInList' = wInList \cup {t}
  /\ WGoto(t, "call")
  /\ UNCHANGED <<vars, mem, wait, waits, wWoken, wShuttingDown, wakeVars>>

WaitRegisters(t) ==
  /\ wpc[t] = "matched"
  /\ ~wShuttingDown /\ ~ldkShutdown
  /\ ValuesMatch(t)
  /\ WReference
  /\ queue' = Append(queue, t)
  /\ wInList' = wInList \cup {t}
  /\ WGoto(t, "call")
  /\ UNCHANGED <<vars, mem, wait, waits, wWoken, wShuttingDown, wakeVars>>

(* NtWaitForAlertByThreadId( NULL, Timeout )                               *)
AlertWait(t, hasTimeout) ==
  WaitRefused(t) \/ WaitTakesPending(t) \/ WaitBlocks(t, hasTimeout)

WaitCallsAlert(t) ==
  /\ wpc[t] = "call"
  /\ AlertWait(t, wait[t].timeout)
  /\ WGoto(t, "in")
  /\ UNCHANGED <<mem, waitVars, wCountVars, wShuttingDown, wakeVars>>

WUnlinks(t) ==
  /\ wpc[t] = "in" /\ pc[t] = "idle"
  /\ queue' = IF t \in wInList THEN Remaining(queue, {t}) ELSE queue
  /\ wInList' = wInList \ {t}
  /\ WGoto(t, IF t \in wWoken /\ status[t] # "ALERTED" THEN "callAgain"
                                                       ELSE "finish")
  /\ UNCHANGED <<vars, mem, wait, waits, wWoken, wCountVars, wShuttingDown,
                 wakeVars>>

(* A waker owns the entry: take its alert, without a timeout.              *)
WaitCallsAlertAgain(t) ==
  /\ wpc[t] = "callAgain"
  /\ AlertWait(t, FALSE)
  /\ WGoto(t, "inAgain")
  /\ UNCHANGED <<mem, waitVars, wCountVars, wShuttingDown, wakeVars>>

WaitEnds(t) ==
  /\ \/ wpc[t] = "finish"
     \/ wpc[t] = "inAgain" /\ pc[t] = "idle"
  /\ wWoken' = wWoken \ {t}
  /\ WGoto(t, "deref")
  /\ UNCHANGED <<vars, mem, wait, waits, queue, wInList, wCountVars,
                 wShuttingDown, wakeVars>>

(* LdkpDereferenceWaitOnAddressWait.                                       *)
WDereference(t) ==
  /\ wpc[t] = "deref"
  /\ wCount' = wCount - 1
  /\ IF wCount - 1 = 0 THEN WGoto(t, "setDrained") /\ UNCHANGED wait
                       ELSE WaitReturns(t)
  /\ UNCHANGED <<vars, mem, waits, queue, wInList, wWoken, wDrained,
                 wShuttingDown, wakeVars>>

WSetDrained(t) ==
  /\ wpc[t] = "setDrained"
  /\ wDrained' = TRUE
  /\ WaitReturns(t)
  /\ UNCHANGED <<vars, mem, waits, queue, wInList, wWoken, wCount,
                 wShuttingDown, wakeVars>>

(***************************************************************************)
(* RtlWakeAddressSingle and RtlWakeAddressAll, by a thread that has just   *)
(* changed the value.                                                      *)
(***************************************************************************)
Write(t, a) ==
  /\ wpc[t] = "out" /\ pc[t] = "idle"
  /\ mem[a] < MaxWrites
  /\ mem' = [mem EXCEPT ![a] = @ + 1]
  /\ wakeAddr' = [wakeAddr EXCEPT ![t] = a]
  /\ WGoto(t, "collect")
  /\ UNCHANGED <<vars, waitVars, wCountVars, wShuttingDown, ids, idsFull, driver>>

(* The first entries, in list order, whose address is a (any if NULL).     *)
Matching(a) ==
  AtPositions(queue, {i \in DOMAIN queue : a = AnyAddress \/ wait[queue[i]].addr = a})
Prefix(s, n) == SubSeq(s, 1, IF Len(s) < n THEN Len(s) ELSE n)
ToSet(s) == {s[i] : i \in DOMAIN s}

(* Fault: the last thread id of the batch is not stored.                   *)
CollectOffByOne(t, a, limit) ==
  LET taken == Prefix(Matching(a), limit)
  IN /\ ids' = [ids EXCEPT ![t] = Prefix(taken, limit - 1)]
     /\ idsFull' = IF Len(taken) = limit THEN idsFull \cup {t} ELSE idsFull \ {t}
     /\ queue' = Remaining(queue, ToSet(taken))
     /\ wInList' = wInList \ ToSet(taken)
     /\ wWoken' = wWoken \cup ToSet(taken)

(* LdkpCollectWaitOnAddressThreadIds.                                      *)
Collect(t, a, limit) ==
  LET taken == Prefix(Matching(a), limit)
  IN /\ ids' = [ids EXCEPT ![t] = taken]
     /\ idsFull' = IF Len(taken) = limit THEN idsFull \cup {t} ELSE idsFull \ {t}
     /\ queue' = Remaining(queue, ToSet(taken))
     /\ wInList' = wInList \ ToSet(taken)
     /\ wWoken' = wWoken \cup ToSet(taken)

IsSingle(t) == wakeSingle /\ t # Unloader

WakeCollects(t) ==
  /\ wpc[t] = "collect"
  /\ Collect(t, wakeAddr[t], IF IsSingle(t) THEN 1 ELSE IdBatch)
  /\ WGoto(t, "alert")
  /\ UNCHANGED <<vars, mem, wait, waits, wCountVars, wShuttingDown, wakeAddr,
                 driver>>

(* LdkpAlertThreadIds: one NtAlertThreadByThreadId after the other.        *)
WakeAlerts(t) ==
  /\ wpc[t] = "alert" /\ pc[t] = "idle"
  /\ ids[t] # <<>>
  /\ AlertCall(t, Head(ids[t]))
  /\ ids' = [ids EXCEPT ![t] = Tail(@)]
  /\ UNCHANGED <<mem, wpc, waitVars, wCountVars, wShuttingDown, wakeAddr,
                 idsFull, driver>>

WakeEnds(t) ==
  /\ wpc[t] = "alert" /\ pc[t] = "idle"
  /\ ids[t] = <<>>
  /\ IF t \in idsFull /\ ~IsSingle(t)
       THEN WGoto(t, "collect") /\ UNCHANGED <<wakeAddr, idsFull>>
       ELSE /\ WGoto(t, IF t = Unloader THEN "wakeAlerts" ELSE "out")
            /\ wakeAddr' = [wakeAddr EXCEPT ![t] = AnyAddress]
            /\ idsFull' = idsFull \ {t}
  /\ UNCHANGED <<vars, mem, waitVars, wCountVars, wShuttingDown, ids, driver>>

(* A driver may call NtAlertThreadByThreadId itself.                       *)
StrayAlert(t, u) ==
  /\ wpc[t] = "out" /\ strays > 0
  /\ AlertCall(t, u)
  /\ strays' = strays - 1
  /\ UNCHANGED <<mem, wpc, waitVars, wCountVars, wShuttingDown, wakeAddr, ids,
                 idsFull, wakeSingle>>

(***************************************************************************)
(* LdkpTerminateWaitOnAddressList, then LdkpTerminateAlertByThreadIdList.  *)
(***************************************************************************)
UnloadBegins ==
  /\ RaiseShutdown
  /\ WGoto(Unloader, "terminate")
  /\ UNCHANGED <<mem, waitVars, wCountVars, wShuttingDown, wakeVars>>

WTerminate ==
  /\ wpc[Unloader] = "terminate"
  /\ wShuttingDown' = TRUE
  /\ WGoto(Unloader, "collect")
  /\ UNCHANGED <<vars, mem, waitVars, wCountVars, wakeVars>>

WWakesAlerts ==
  /\ wpc[Unloader] = "wakeAlerts"
  /\ WakeAllForAddressList
  /\ WGoto(Unloader, "drain")
  /\ UNCHANGED <<mem, waitVars, wCountVars, wShuttingDown, wakeVars>>

WWaitDrained ==
  /\ wpc[Unloader] = "drain" /\ tpc = "stopping"
  /\ wDrained
  /\ WGoto(Unloader, "done")
  /\ UNCHANGED <<vars, mem, waitVars, wCountVars, wShuttingDown, wakeVars>>

WTerminateAlerts ==
  /\ wpc[Unloader] = "done"
  /\ BeginTerminate
  /\ UNCHANGED woaVars

AlertLayer(t) == ThreadStep(t) /\ UNCHANGED woaVars
AlertTimeout(t) == WaitTimesOut(t) /\ UNCHANGED woaVars
AlertTerminate == (WakeAllStep \/ WaitDrained \/ ClearPending) /\ UNCHANGED woaVars

WaitStep(t) ==
  \/ WaitRefusedByShutdown(t) \/ WaitFindsChange(t) \/ WaitBacksOut(t)
  \/ WaitRegisters(t) \/ WaitCallsAlert(t) \/ WUnlinks(t)
  \/ WaitCallsAlertAgain(t) \/ WaitEnds(t) \/ WDereference(t) \/ WSetDrained(t)

WakeStep(t) == WakeCollects(t) \/ WakeAlerts(t) \/ WakeEnds(t)

UnloadStep == WTerminate \/ WWakesAlerts \/ WWaitDrained \/ WTerminateAlerts

WOAStep ==
  \/ \E t \in Waiter : \/ \E a \in Address, b \in Timeouts :
                            WaitBegins(t, a, mem[a], b)
                       \/ WaitStep(t) \/ AlertTimeout(t)
  \/ \E t \in Writers : \/ \E a \in Address : Write(t, a)
                        \/ \E u \in Waiter : StrayAlert(t, u)
  \/ \E t \in Alerter : WakeStep(t)
  \/ \E t \in Thread : AlertLayer(t)
  \/ UnloadBegins \/ UnloadStep \/ AlertTerminate

(* NtAlertThreadByThreadId returns STATUS_INSUFFICIENT_RESOURCES to t, which *)
(* LdkpAlertThreadIds ignores: u is not alerted.  Noted of taken waiters    *)
(* until LdkTerminate begins.                                              *)
AlertGivenUp(t, u) == pc[t] = "retry" /\ pc'[t] = "idle" /\ target[t] = u

NoteUnsent ==
  unsent' = {u \in wWoken' :
               ~ldkShutdown' /\ (u \in unsent \/ \E t \in Thread : AlertGivenUp(t, u))}

WOANext == WOAStep /\ NoteUnsent

WOASpec == WOAInit /\ [][WOANext]_allVars

-----------------------------------------------------------------------------
(* The list of stack entries holds the entries of waits in progress only,  *)
(* and InList says so.                                                     *)
WaitListSafe ==
  /\ ToSet(queue) = wInList
  /\ \A t \in wInList : wpc[t] \in {"call", "in"} /\ t \notin wWoken
  /\ \A t \in wWoken : InWait(t)

(* A waker that has still to look at the list for address a.               *)
WillCollect(a) ==
  \E t \in Alerter :
    /\ wakeAddr[t] = a
    /\ wpc[t] = "collect" \/ (wpc[t] = "alert" /\ t \in idsFull)

(* No wake-up is lost between the comparison and the wait: a thread that   *)
(* is registered, not woken, and whose value has changed, is going to be   *)
(* found by the writer's RtlWakeAddressAll.                                *)
NoMissedWake ==
  ~wakeSingle =>
    \A t \in wInList : ValuesMatch(t) \/ WillCollect(wait[t].addr)

(* An alert for t is on its way.                                           *)
AlertComing(t) ==
  \/ Alerts[t] > 0
  \/ \E u \in Alerter : \/ t \in ToSet(ids[u])
                        \/ pc[u] \in AlertPc /\ target[u] = t

(* A thread whose entry a waker has taken is sent an alert, so the second  *)
(* wait for it, which has no timeout, ends.  The one exception: the alert  *)
(* finds the thread not yet, or no longer, in the alert layer's list and   *)
(* its pending entry cannot be allocated; LdkpAlertThreadIds ignores that. *)
(* Once LdkTerminate has begun, the unloading thread wakes every waiter.   *)
WokenIsAlerted ==
  \A t \in wWoken : \/ AlertComing(t) \/ ldkShutdown
                    \/ wpc[t] \in {"in", "inAgain", "finish"}
                         /\ ~InFrame(t) /\ status[t] = "ALERTED"
                    \/ AllocMayFail /\ t \in unsent

(* A waiter is listed while it waits and no longer, and once a waker has   *)
(* taken its entry the alert reaches it, although its own timeout expires  *)
(* meanwhile (RtlWaitOnAddress against RtlWakeAddress), unless since then  *)
(* an alert was given up because its pending entry could not be allocated, *)
(* or LdkTerminate has begun.                                              *)
WaitersReached == WaitListSafe /\ WokenIsAlerted
=============================================================================
