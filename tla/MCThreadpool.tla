---------------------------- MODULE MCThreadpool ----------------------------
(***************************************************************************)
(* The thread pool's objects for TLC: a work object, a timer or wait with  *)
(* its watcher, and the legacy layer over the latter.  They share no state *)
(* but the pool: a behaviour is about one of them.                         *)
(***************************************************************************)
EXTENDS ThreadpoolWork, LegacyWait

VARIABLE about     \* the object this behaviour is about

poolVars == <<about, vars, watcherVars, legacyVars>>

PoolInit ==
  /\ about \in {"work", "watcher", "legacy"}
  /\ Init /\ LWInit
  /\ about # "work" => ~member
  /\ about = "work" => kind = "timer"
  /\ about # "legacy" => ~onlyOnce

PoolNext ==
  \/ about = "work" /\ Next /\ UNCHANGED <<about, watcherVars, legacyVars>>
  \/ about = "watcher" /\ WatcherNext /\ UNCHANGED <<about, vars, legacyVars>>
  \/ about = "legacy" /\ LWNext /\ UNCHANGED <<about, vars>>

(* The fairness of each object, for the one that runs.  A legacy callback  *)
(* returns because its watcher does.                                       *)
PoolFairness ==
  LET work == about = "work" IN
  /\ \A p \in Proc :
       WF_vars(work /\ pc[p] # "idle" /\ pc[p] # "run" /\ (Submit(p) \/ CloseSteps(p)))
  /\ \A c \in Client : WF_vars(work /\ pc[c] # "idle" /\ (Wait(c) \/ GroupClose(c)))
  /\ \A i \in Item : WF_vars(work /\ Worker(i)) /\ SF_vars(work /\ CallbackReturns(i))
  /\ WF_watcherVars(~work /\ (WatchRuns \/ (kind = "timer" /\ Expires)))
  /\ \A p \in Party : WF_watcherVars(~work /\ CallStep(p))

PoolSpec == PoolInit /\ [][PoolNext]_poolVars /\ PoolFairness
=============================================================================
