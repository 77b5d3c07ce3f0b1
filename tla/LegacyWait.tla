----------------------------- MODULE LegacyWait -----------------------------
(***************************************************************************)
(* Timer-queue timers and registered waits, src/src/kernel32/              *)
(* threadpoollegacyapiset.c: a block of pool memory around the TP_TIMER or *)
(* TP_WAIT of ThreadpoolWatcher, whose callback gets the block as its      *)
(* context.  A registered wait arms its object again from the callback.    *)
(* Deleting one disarms the object, waits for its callbacks, closes it and *)
(* frees the block.                                                        *)
(*                                                                         *)
(* The calls of the layer below are those of ThreadpoolWatcher, step by    *)
(* step.  The driver deletes a block once, after its creation has          *)
(* returned, and not from its own callback, which would wait for itself.   *)
(***************************************************************************)
EXTENDS ThreadpoolWatcher

VARIABLES
  blockLives,       \* the block is allocated
  onlyOnce,         \* WT_EXECUTEONLYONCE
  deleteRequested,  \* DeleteRequested
  legacyNext,       \* the call below that each thread makes next
  callbackAt        \* where the callback of the layer is

legacyVars == <<blockLives, onlyOnce, deleteRequested, legacyNext, callbackAt>>

LWInit ==
  /\ WatcherInit
  /\ blockLives = TRUE /\ deleteRequested = FALSE /\ callbackAt = "none"
  /\ onlyOnce \in BOOLEAN /\ (kind = "timer" => ~onlyOnce)
  /\ \E creator \in Caller :
       legacyNext = [p \in Caller |-> IF p = creator THEN "arm" ELSE "none"]

LegacyGoto(p, l) == legacyNext' = [legacyNext EXCEPT ![p] = l]

-----------------------------------------------------------------------------
(* CreateTimerQueueTimer and RegisterWaitForSingleObject arm the object.   *)
Arm(p) ==
  /\ legacyNext[p] = "arm" /\ SetLoad(p)
  /\ LegacyGoto(p, "armed")
  /\ UNCHANGED <<blockLives, onlyOnce, deleteRequested, callbackAt>>

(* DeleteTimerQueueTimer and UnregisterWaitEx, one call after another.     *)
BeginDelete(p) ==
  /\ \A q \in Caller : wcall[q] = "idle" /\ legacyNext[q] \in {"none", "armed"}
  /\ deleteRequested' = (kind = "wait")
  /\ LegacyGoto(p, "disarm")
  /\ UNCHANGED <<watcherVars, blockLives, onlyOnce, callbackAt>>

Disarm(p) ==
  /\ legacyNext[p] = "disarm" /\ SetLoad(p)
  /\ LegacyGoto(p, "drain")
  /\ UNCHANGED <<blockLives, onlyOnce, deleteRequested, callbackAt>>

(* Fault: the block is freed when the callbacks are over, before the close.*)
DrainAndFree(p) ==
  /\ legacyNext[p] = "drain" /\ BeginWait(p, TRUE)
  /\ LegacyGoto(p, "free")
  /\ UNCHANGED <<blockLives, onlyOnce, deleteRequested, callbackAt>>

Drain(p) ==
  /\ legacyNext[p] = "drain" /\ BeginWait(p, TRUE)
  /\ LegacyGoto(p, "close")
  /\ UNCHANGED <<blockLives, onlyOnce, deleteRequested, callbackAt>>

Close(p) ==
  /\ legacyNext[p] = "close" /\ BeginClose(p)
  /\ LegacyGoto(p, "free")
  /\ UNCHANGED <<blockLives, onlyOnce, deleteRequested, callbackAt>>

FreeBlock(p) ==
  /\ legacyNext[p] = "free" /\ wcall[p] = "idle"
  /\ blockLives' = FALSE
  /\ LegacyGoto(p, "gone")
  /\ UNCHANGED <<watcherVars, onlyOnce, deleteRequested, callbackAt>>

(* A call below goes on; what it sets is what the layer asks for.          *)
LegacyCallStep(p) ==
  /\ CallStep(p)
  /\ wcall[p] = "store" =>
       ("set" \in wflags') = (p = Watcher \/ legacyNext[p] = "armed")
  /\ UNCHANGED legacyVars

-----------------------------------------------------------------------------
(* LdkpLegacyTimerQueueTimerCallback, LdkpLegacyRegisteredWaitCallback.    *)

CallbackEnters ==
  /\ watch = "callback" /\ callbackAt = "none"
  /\ callbackAt' = "user"
  /\ UNCHANGED <<watcherVars, blockLives, onlyOnce, deleteRequested, legacyNext>>

(* The driver's callback has returned; the block is looked at again.       *)
UserReturns ==
  /\ callbackAt = "user"
  /\ callbackAt' = IF kind = "timer" \/ onlyOnce \/ deleteRequested THEN "done" ELSE "rearm"
  /\ UNCHANGED <<watcherVars, blockLives, onlyOnce, deleteRequested, legacyNext>>

(* The wait was not deleted when the callback looked.                      *)
Rearm ==
  /\ callbackAt = "rearm" /\ SetLoad(Watcher)
  /\ callbackAt' = "done"
  /\ UNCHANGED <<blockLives, onlyOnce, deleteRequested, legacyNext>>

(* The watcher goes on, and leaves the callback when the layer has.        *)
LegacyWatchRuns ==
  /\ WatchRuns
  /\ IF watch = "callback"
     THEN callbackAt = "done" /\ callbackAt' = "none"
     ELSE UNCHANGED callbackAt
  /\ UNCHANGED <<blockLives, onlyOnce, deleteRequested, legacyNext>>

(* Bound: what a registered wait waits for is signalled so many times that *)
(* the last setting is left for the call that disarms the object.          *)
LegacyExpires ==
  /\ (kind = "wait" /\ ~onlyOnce) => setting.number < MaxSets - 1
  /\ Expires
  /\ UNCHANGED legacyVars

LegacyFinished == WatcherFinished /\ UNCHANGED legacyVars

LWNext ==
  \/ \E p \in Caller :
       Arm(p) \/ BeginDelete(p) \/ Disarm(p) \/ Drain(p) \/ Close(p) \/ FreeBlock(p)
  \/ \E p \in Party : LegacyCallStep(p)
  \/ CallbackEnters \/ UserReturns \/ Rearm
  \/ LegacyWatchRuns \/ LegacyExpires \/ LegacyFinished

LWSpec == LWInit /\ [][LWNext]_<<watcherVars, legacyVars>>
-----------------------------------------------------------------------------
(* Properties.                                                             *)

(* The callback, the driver's callback included, runs on a block that is   *)
(* still there: deleting it races with an expiry, with a callback that has *)
(* decided to arm the object again, and with the callback that follows.    *)
(* When the block is gone, so is the thread that made the callbacks        *)
(* (UnregisterWaitEx, DeleteTimerQueueTimer).                              *)
LegacyBlockStays ==
  ~blockLives => watch = "dead" /\ callbackAt = "none" /\ ~opened
=============================================================================
