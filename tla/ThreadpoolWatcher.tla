-------------------------- MODULE ThreadpoolWatcher --------------------------
(***************************************************************************)
(* Timer and wait objects of the thread pool, src/src/kernel32/            *)
(* threadpoolapiset.c.  Each has a thread of its own, the watcher, that    *)
(* sleeps on the object's control event until somebody arms the object,    *)
(* then waits for the due time (or the awaited object, or its timeout) and *)
(* makes the callback.  TP_TIMER and TP_WAIT differ in what an expiry does *)
(* to the flags; one object of either kind is modelled.                    *)
(*                                                                         *)
(* Flags is updated in two ways: with interlocked instructions, and with   *)
(* plain ones under the object's spin lock.  A plain update is a load and  *)
(* a store, between which an interlocked one can fall and be undone.       *)
(*                                                                         *)
(* Due times are left out: an armed object may expire at any time.  So are *)
(* references to the awaited object, which is replaced with its pointer.   *)
(***************************************************************************)
EXTENDS Integers, FiniteSets

CONSTANTS
  Caller,     \* threads of the driver
  Watcher,    \* the thread of the object; its callback makes calls too
  Nobody,      \* the spin lock is free
  MaxSets     \* bound: calls of SetThreadpoolTimer / SetThreadpoolWait

ASSUME WatcherAssumption ==
  /\ IsFiniteSet(Caller)
  /\ Watcher \notin Caller /\ Nobody \notin Caller \cup {Watcher}
  /\ MaxSets \in Nat

Party == Caller \cup {Watcher}

VARIABLES
  kind,       \* "timer" or "wait"
  wflags,     \* Flags
  control,    \* ControlEvent, a synchronization event
  idleEvent,  \* Event: no callback is running
  running,    \* OutstandingCount
  wrefs,      \* ReferenceCount
  spin,       \* owner of Lock
  setting,    \* number of the setting and whether it is periodic
  seen,       \* the setting the watcher is waiting for
  loaded,     \* Flags as a plain update has loaded them
  watch,      \* where the watcher is
  wcall,      \* where each thread is in a call
  asks,       \* threads whose wait asks to cancel callbacks
  inGroup,    \* threads in CloseThreadpoolCleanupGroupMembers
  shut,       \* the thread that closes the object
  opened,     \* the reference of the handle is still held
  clobbered,  \* a plain update has undone an interlocked one (history)
  rearmed     \* the object was set between expiry and callback (history)

watcherVars == <<kind, wflags, control, idleEvent, running, wrefs, spin, setting,
                 seen, loaded, watch, wcall, asks, inGroup, shut, opened,
                 clobbered, rearmed>>
countVars == <<idleEvent, running, wrefs, opened>>
armVars == <<setting, seen>>
callVars == <<wcall, asks, inGroup, shut>>
raceVars == <<clobbered, rearmed>>

WatcherInit ==
  /\ kind \in {"timer", "wait"}
  /\ wflags = {} /\ control = FALSE /\ idleEvent = TRUE /\ running = 0
  /\ wrefs = 2 /\ spin = Nobody
  /\ setting = [number |-> 0, periodic |-> FALSE] /\ seen = setting
  /\ loaded = {} /\ watch = "look"
  /\ wcall = [p \in Party |-> "idle"]
  /\ asks = {} /\ inGroup = {} /\ shut = Nobody /\ opened = TRUE
  /\ clobbered = FALSE /\ rearmed = FALSE

WatchGoto(l) == watch' = l
CallGoto(p, l) == wcall' = [wcall EXCEPT ![p] = l]

(* A plain update of Flags ends: whatever changed since the load is lost.  *)
Store(new) ==
  /\ wflags' = new
  /\ clobbered' = (clobbered \/ wflags # loaded)
  /\ spin' = Nobody /\ loaded' = {}

(* A thread between two calls, or the callback.                            *)
Able(p) == wcall[p] = "idle" /\ (p = Watcher => watch = "callback")

-----------------------------------------------------------------------------
(* The watcher.                                                            *)

(* Fault: the request to delete is looked at only when nothing is armed.   *)
LookArmedFirst ==
  /\ watch = "look" /\ spin = Nobody
  /\ \/ /\ "set" \in wflags /\ "expired" \notin wflags
        /\ seen' = setting
        /\ WatchGoto("due")
     \/ /\ "set" \notin wflags \/ "expired" \in wflags
        /\ WatchGoto(IF "delete" \in wflags THEN "end" ELSE "sleep")
        /\ UNCHANGED seen
  /\ UNCHANGED <<kind, wflags, control, countVars, spin, setting, loaded, callVars, raceVars>>

Look ==
  /\ watch = "look" /\ spin = Nobody
  /\ \/ "delete" \in wflags /\ WatchGoto("end") /\ UNCHANGED seen
     \/ /\ "delete" \notin wflags /\ ("set" \notin wflags \/ "expired" \in wflags)
        /\ WatchGoto("sleep") /\ UNCHANGED seen
     \/ /\ "set" \in wflags /\ wflags \cap {"delete", "expired"} = {}
        /\ seen' = setting
        /\ WatchGoto("due")
  /\ UNCHANGED <<kind, wflags, control, countVars, spin, setting, loaded, callVars, raceVars>>

(* The control event ends the sleep, and the wait for the due time.        *)
Kicked ==
  /\ watch \in {"sleep", "due"} /\ control
  /\ control' = FALSE
  /\ WatchGoto("look")
  /\ UNCHANGED <<kind, wflags, countVars, spin, armVars, loaded, callVars, raceVars>>

(* The due time has come, or the awaited object is signalled.              *)
Expires ==
  /\ watch = "due"
  /\ WatchGoto("relock")
  /\ UNCHANGED <<kind, wflags, control, countVars, spin, armVars, loaded, callVars, raceVars>>

(* The object may have been set again since: the watcher goes by the       *)
(* period it has read and by the flags as they are now.                    *)
Relock ==
  /\ watch = "relock" /\ spin = Nobody
  /\ \/ /\ "delete" \in wflags \/ "set" \notin wflags
        /\ WatchGoto("look")
        /\ UNCHANGED <<spin, loaded, rearmed>>
     \/ /\ "set" \in wflags /\ "delete" \notin wflags
        /\ rearmed' = (rearmed \/ seen # setting)
        /\ IF kind = "timer" /\ seen.periodic
           THEN WatchGoto("check") /\ UNCHANGED <<spin, loaded>>
           ELSE WatchGoto("mark") /\ spin' = Watcher /\ loaded' = wflags
  /\ UNCHANGED <<kind, wflags, control, countVars, armVars, callVars, clobbered>>

(* A one-shot timer is expired, a wait is not set any more.                *)
Mark ==
  /\ watch = "mark"
  /\ Store(IF kind = "timer" THEN loaded \cup {"expired"} ELSE loaded \ {"set"})
  /\ WatchGoto("check")
  /\ UNCHANGED <<kind, control, countVars, armVars, callVars, rearmed>>

Check ==
  /\ watch = "check"
  /\ WatchGoto(IF \/ wflags \cap {"delete", "cancel"} # {}
                  \/ kind = "timer" /\ "set" \notin wflags
               THEN "look" ELSE "ref")
  /\ UNCHANGED <<kind, wflags, control, countVars, spin, armVars, loaded, callVars, raceVars>>

TakeRef ==
  /\ watch = "ref"
  /\ wrefs' = wrefs + 1
  /\ WatchGoto("out")
  /\ UNCHANGED <<kind, wflags, control, idleEvent, running, opened, spin, armVars, loaded, callVars, raceVars>>

CountOut ==
  /\ watch = "out"
  /\ running' = running + 1
  /\ WatchGoto("reset")
  /\ UNCHANGED <<kind, wflags, control, idleEvent, wrefs, opened, spin, armVars, loaded, callVars, raceVars>>

ResetIdle ==
  /\ watch = "reset"
  /\ idleEvent' = FALSE
  /\ WatchGoto("callback")
  /\ UNCHANGED <<kind, wflags, control, running, wrefs, opened, spin, armVars, loaded, callVars, raceVars>>

Returns ==
  /\ watch = "callback" /\ wcall[Watcher] = "idle"
  /\ running' = running - 1
  /\ WatchGoto(IF running = 1 THEN "uncancel" ELSE "deref")
  /\ UNCHANGED <<kind, wflags, control, idleEvent, wrefs, opened, spin, armVars, loaded, callVars, raceVars>>

Uncancel ==
  /\ watch = "uncancel"
  /\ wflags' = wflags \ {"cancel"}
  /\ WatchGoto("wakeup")
  /\ UNCHANGED <<kind, control, countVars, spin, armVars, loaded, callVars, raceVars>>

SignalIdle ==
  /\ watch = "wakeup"
  /\ idleEvent' = TRUE
  /\ WatchGoto("deref")
  /\ UNCHANGED <<kind, wflags, control, running, wrefs, opened, spin, armVars, loaded, callVars, raceVars>>

(* The reference of a callback, or of the watcher itself when it ends.     *)
DropRef ==
  /\ watch \in {"deref", "end"}
  /\ wrefs' = wrefs - 1
  /\ WatchGoto(IF watch = "end" THEN "dead" ELSE "look")
  /\ UNCHANGED <<kind, wflags, control, idleEvent, running, opened, spin, armVars, loaded, callVars, raceVars>>

-----------------------------------------------------------------------------
(* SetThreadpoolTimer and SetThreadpoolWait: Flags is loaded ...           *)
SetLoad(p) ==
  /\ Able(p) /\ shut = Nobody /\ spin = Nobody /\ setting.number < MaxSets
  /\ spin' = p /\ loaded' = wflags
  /\ CallGoto(p, "store")
  /\ UNCHANGED <<kind, wflags, control, countVars, armVars, watch, asks, inGroup, shut, raceVars>>

(* Fault: the watcher is not told.                                         *)
SetStoreSilent(p, on, periodic) ==
  /\ wcall[p] = "store" /\ (periodic => on /\ kind = "timer")
  /\ setting' = [number |-> setting.number + 1, periodic |-> periodic]
  /\ Store(IF on THEN (loaded \cup {"set"}) \ {"cancel", "expired"}
                 ELSE loaded \ {"set", "expired"})
  /\ CallGoto(p, "idle")
  /\ UNCHANGED <<kind, control, countVars, seen, watch, asks, inGroup, shut, rearmed>>

(* ... and stored, with the new setting (the code sets one flag and clears *)
(* another in two such updates).  NULL disarms the object.  Only timers    *)
(* have periods, and are ever marked as expired.                           *)
SetStore(p, on, periodic) ==
  /\ wcall[p] = "store" /\ (periodic => on /\ kind = "timer")
  /\ setting' = [number |-> setting.number + 1, periodic |-> periodic]
  /\ Store(IF on THEN (loaded \cup {"set"}) \ {"cancel", "expired"}
                 ELSE loaded \ {"set", "expired"})
  /\ control' = TRUE
  /\ CallGoto(p, "idle")
  /\ UNCHANGED <<kind, countVars, seen, watch, asks, inGroup, shut, rearmed>>

-----------------------------------------------------------------------------
(* WaitForThreadpoolTimerCallbacks, WaitForThreadpoolWaitCallbacks.        *)

BeginWait(p, cancel) ==
  /\ p \in Caller /\ Able(p) /\ shut = Nobody
  /\ asks' = IF cancel THEN asks \cup {p} ELSE asks
  /\ CallGoto(p, "w_ref")
  /\ UNCHANGED <<kind, wflags, control, countVars, spin, armVars, loaded, watch, inGroup, shut, raceVars>>

AfterWait(p) == IF p \in inGroup THEN "c_deref" ELSE "idle"

(* A count that was zero means that the object is gone.                    *)
WaiterRef(p) ==
  /\ wcall[p] = "w_ref"
  /\ wrefs' = wrefs + 1
  /\ CallGoto(p, IF wrefs' <= 1 THEN AfterWait(p) ELSE IF p \in asks THEN "w_cancel" ELSE "w_wait")
  /\ UNCHANGED <<kind, wflags, control, idleEvent, running, opened, spin, armVars, loaded, watch, asks, inGroup, shut, raceVars>>

WaiterCancel(p) ==
  /\ wcall[p] = "w_cancel"
  /\ wflags' = wflags \cup {"cancel"}
  /\ CallGoto(p, "w_kick")
  /\ UNCHANGED <<kind, control, countVars, spin, armVars, loaded, watch, asks, inGroup, shut, raceVars>>

WaiterKick(p) ==
  /\ wcall[p] = "w_kick"
  /\ control' = TRUE
  /\ CallGoto(p, "w_wait")
  /\ UNCHANGED <<kind, wflags, countVars, spin, armVars, loaded, watch, asks, inGroup, shut, raceVars>>

WaiterOver(p) ==
  /\ wcall[p] = "w_wait" /\ idleEvent
  /\ CallGoto(p, IF p \in asks THEN "w_clear" ELSE "w_deref")
  /\ UNCHANGED <<kind, wflags, control, countVars, spin, armVars, loaded, watch, asks, inGroup, shut, raceVars>>

WaiterClear(p) ==
  /\ wcall[p] = "w_clear"
  /\ wflags' = wflags \ {"cancel"}
  /\ asks' = asks \ {p}
  /\ CallGoto(p, "w_deref")
  /\ UNCHANGED <<kind, control, countVars, spin, armVars, loaded, watch, inGroup, shut, raceVars>>

WaiterDeref(p) ==
  /\ wcall[p] = "w_deref"
  /\ wrefs' = wrefs - 1
  /\ CallGoto(p, AfterWait(p))
  /\ UNCHANGED <<kind, wflags, control, idleEvent, running, opened, spin, armVars, loaded, watch, asks, inGroup, shut, raceVars>>

-----------------------------------------------------------------------------
(* CloseThreadpoolTimer, CloseThreadpoolWait and the cleanup group.        *)

(* The contract: the object is closed once, by the callback or by a thread *)
(* of the driver, when every call under way has a reference of its own.    *)
MayShut(p) ==
  /\ Able(p) /\ shut = Nobody
  /\ \A q \in Party \ {p} : wcall[q] \notin {"store", "w_ref"}

BeginClose(p) ==
  /\ MayShut(p)
  /\ shut' = p
  /\ CallGoto(p, "c_delete")
  /\ UNCHANGED <<kind, wflags, control, countVars, spin, armVars, loaded, watch, asks, inGroup, raceVars>>

(* CloseThreadpoolCleanupGroupMembers asks to cancel before it closes.     *)
BeginGroupClose(p, cancel) ==
  /\ p \in Caller /\ MayShut(p)
  /\ shut' = p /\ inGroup' = inGroup \cup {p}
  /\ asks' = IF cancel THEN asks \cup {p} ELSE asks
  /\ wflags' = IF cancel THEN wflags \cup {"cancel"} ELSE wflags
  /\ CallGoto(p, "c_delete")
  /\ UNCHANGED <<kind, control, countVars, spin, armVars, loaded, watch, raceVars>>

ShutDelete(p) ==
  /\ wcall[p] = "c_delete"
  /\ wflags' = wflags \cup {"delete"}
  /\ CallGoto(p, "c_kick")
  /\ UNCHANGED <<kind, control, countVars, spin, armVars, loaded, watch, asks, inGroup, shut, raceVars>>

ShutKick(p) ==
  /\ wcall[p] = "c_kick"
  /\ control' = TRUE
  /\ CallGoto(p, "c_join")
  /\ UNCHANGED <<kind, wflags, countVars, spin, armVars, loaded, watch, asks, inGroup, shut, raceVars>>

Joined(p) == IF kind = "wait" THEN "c_load" ELSE IF p \in inGroup THEN "w_ref" ELSE "c_deref"

(* Fault: the close does not wait for the watcher.                         *)
ShutJoinSkipped(p) ==
  /\ wcall[p] = "c_join"
  /\ CallGoto(p, Joined(p))
  /\ UNCHANGED <<kind, wflags, control, countVars, spin, armVars, loaded, watch, asks, inGroup, shut, raceVars>>

(* ZwWaitForSingleObject on the watcher, unless the watcher is the caller. *)
ShutJoin(p) ==
  /\ wcall[p] = "c_join" /\ (watch = "dead" \/ p = Watcher)
  /\ CallGoto(p, Joined(p))
  /\ UNCHANGED <<kind, wflags, control, countVars, spin, armVars, loaded, watch, asks, inGroup, shut, raceVars>>

(* A wait object lets go of what it waits for.                             *)
ShutLoad(p) ==
  /\ wcall[p] = "c_load" /\ spin = Nobody
  /\ spin' = p /\ loaded' = wflags
  /\ CallGoto(p, "c_store")
  /\ UNCHANGED <<kind, wflags, control, countVars, armVars, watch, asks, inGroup, shut, raceVars>>

ShutStore(p) ==
  /\ wcall[p] = "c_store"
  /\ Store(loaded \ {"set"})
  /\ CallGoto(p, IF p \in inGroup THEN "w_ref" ELSE "c_deref")
  /\ UNCHANGED <<kind, control, countVars, armVars, watch, asks, inGroup, shut, rearmed>>

ShutDeref(p) ==
  /\ wcall[p] = "c_deref"
  /\ wrefs' = wrefs - 1 /\ opened' = FALSE
  /\ CallGoto(p, "idle")
  /\ UNCHANGED <<kind, wflags, control, idleEvent, running, spin, armVars, loaded, watch, asks, inGroup, shut, raceVars>>

-----------------------------------------------------------------------------
WatchRuns ==
  \/ Look \/ Kicked \/ Relock \/ Mark \/ Check
  \/ TakeRef \/ CountOut \/ ResetIdle \/ Returns \/ Uncancel \/ SignalIdle \/ DropRef

CallStep(p) ==
  \/ \E on, periodic \in BOOLEAN : SetStore(p, on, periodic)
  \/ WaiterRef(p) \/ WaiterCancel(p) \/ WaiterKick(p) \/ WaiterOver(p) \/ WaiterClear(p) \/ WaiterDeref(p)
  \/ ShutDelete(p) \/ ShutKick(p) \/ ShutJoin(p) \/ ShutLoad(p) \/ ShutStore(p) \/ ShutDeref(p)

CallBegins(p) ==
  \/ SetLoad(p) \/ BeginClose(p)
  \/ \E cancel \in BOOLEAN : BeginWait(p, cancel) \/ BeginGroupClose(p, cancel)

(* The object is closed and everybody is out of its calls.  (Or a plain    *)
(* update of the flags has undone the request to delete: see CloseReturns.) *)
WatcherFinished ==
  /\ clobbered \/ (watch = "dead" /\ \A p \in Party : wcall[p] = "idle")
  /\ UNCHANGED watcherVars

WatcherNext ==
  \/ WatchRuns \/ Expires \/ WatcherFinished
  \/ \E p \in Party : CallBegins(p) \/ CallStep(p)

(* The watcher runs, the due time of a timer comes, callbacks return and   *)
(* calls go on.  The object of a wait need not ever be signalled.          *)
WatcherFairness ==
  /\ WF_watcherVars(WatchRuns \/ (kind = "timer" /\ Expires))
  /\ \A p \in Party : WF_watcherVars(CallStep(p))

WatcherSpec == WatcherInit /\ [][WatcherNext]_watcherVars /\ WatcherFairness
-----------------------------------------------------------------------------
(* Properties.                                                             *)

InCallback == watch \in {"out", "reset", "callback", "uncancel", "wakeup", "deref"}
WaiterHolds == {"w_cancel", "w_kick", "w_wait", "w_clear", "w_deref"}

(* ReferenceCount is the number of users (the handle, the watcher, its     *)
(* callback, the waits under way), so that the object is freed when the    *)
(* last of them is done with it, and not before.                           *)
WatcherRefsExact ==
  LET one(b) == IF b THEN 1 ELSE 0 IN
  wrefs = one(opened) + one(watch # "dead") + one(InCallback)
            + Cardinality({p \in Party : wcall[p] \in WaiterHolds})

(* When a close has returned no callback runs or will run.  A callback     *)
(* that closes its own object is the last one.                             *)
NoCallbackAfterClose ==
  ~opened => \/ watch = "dead"
             \/ /\ shut = Watcher
                /\ watch \in {"callback", "uncancel", "wakeup", "deref", "look", "end"}

(* A timer or wait object lives as long as its users and makes no callback *)
(* once its close has returned.                                            *)
WatcherSafe == WatcherRefsExact /\ NoCallbackAfterClose

(* A close returns, whatever it meets, unless the request to delete is     *)
(* undone by a plain update of the flags.                                  *)
CloseReturns ==
  \A p \in Caller : wcall[p] = "c_join" ~> wcall[p] # "c_join" \/ clobbered

(* A periodic timer goes on firing until it is set again or closed, unless *)
(* it was set while an earlier setting was expiring.                       *)
FiresAgain ==
  setting.periodic /\ "set" \in wflags ~>
    \/ watch = "callback" \/ ~setting.periodic \/ "set" \notin wflags
    \/ "cancel" \in wflags \/ shut # Nobody \/ clobbered \/ rearmed
=============================================================================
