------------------------------ MODULE MCThreads ------------------------------
(***************************************************************************)
(* Thread contexts and thread blocks for TLC.  The code keeps them apart:  *)
(* a context is about starting and waiting for a thread, a TEB about what  *)
(* the thread stores.  A behaviour is about one of the two.                *)
(***************************************************************************)
EXTENDS ThreadContexts, TebMap

VARIABLE part      \* the one this behaviour is about

vars == <<part, tcVars, tebVars>>

Init ==
  /\ part \in {"contexts", "blocks"}
  /\ TCInit /\ TebInit
  /\ part = "contexts" => tebs = <<>>

Next ==
  \/ part = "contexts" /\ TCNext /\ UNCHANGED <<part, tebVars>>
  \/ part = "blocks" /\ TebNext /\ UNCHANGED <<part, tcVars>>

(* The steps that are fair are not enabled while the contexts stay idle.    *)
Spec == Init /\ [][Next]_vars /\ TCFairness
=============================================================================
