----------------------------- MODULE MCPrimitives -----------------------------
(***************************************************************************)
(* The synchronization primitives of ntdll for TLC, each with threads of   *)
(* its own.  They share no state, so one behaviour exercises one of them:  *)
(* which one is chosen at the start, and the others stay as they are.      *)
(***************************************************************************)
EXTENDS SRWLock, CriticalSection, ConditionVariable, KeyedEvent

VARIABLE primitive     \* the one this behaviour is about

vars == <<primitive, srwVars, csVars, cvVars, keyVars>>

Init ==
  /\ primitive \in {"srw", "critical section", "condition", "keyed event"}
  /\ SRWInit /\ CSInit /\ CVInit /\ KInit
  /\ primitive # "condition" =>
       wakesOne /\ cv = [t \in CVThread |-> CHOOSE c \in CV : TRUE]

Next ==
  \/ /\ primitive = "srw" /\ SRWNext
     /\ UNCHANGED <<primitive, csVars, cvVars, keyVars>>
  \/ /\ primitive = "critical section" /\ CSNext
     /\ UNCHANGED <<primitive, srwVars, cvVars, keyVars>>
  \/ /\ primitive = "condition" /\ CVNext
     /\ UNCHANGED <<primitive, srwVars, csVars, keyVars>>
  \/ /\ primitive = "keyed event" /\ KNext
     /\ UNCHANGED <<primitive, srwVars, csVars, cvVars>>

(* The fairness of each specification, for the primitive that runs.        *)
Fairness ==
  /\ \A t \in Thread :
       LET running == primitive = "critical section" IN
       /\ WF_srwVars(primitive = "srw" /\ SRWStep(t))
       /\ WF_csVars(running /\ (EnterStep(t) \/ Signal(t)))
       /\ SF_csVars(running /\ Leave(t) /\ depth'[t] = 0)
       /\ WF_csVars(running /\ Leave(t) /\ depth[t] = MaxDepth)
  /\ \A t \in Sleeper : SF_cvVars(primitive = "condition" /\ SleeperStep(t))
  /\ \A t \in Producer : WF_cvVars(primitive = "condition" /\ ProducerStep(t))
  /\ \A t \in KThread :
       WF_keyVars(primitive = "keyed event" /\ (KStep(t) \/ SleepTimesOut(t)))

Spec == Init /\ [][Next]_vars /\ Fairness
=============================================================================
