---------------------------- MODULE ThreadAlert ----------------------------
(***************************************************************************)
(* What the alert-by-thread-id services promise: every thread has a small  *)
(* store of alerts.  A wait that finds one consumes it and returns         *)
(* ALERTED; a wait that finds none blocks, until an alert arrives or its   *)
(* timeout expires with the store still empty.  Alerts coalesce, so at     *)
(* most two are stored: one given to the wait in progress, one kept for    *)
(* the next.  Stored alerts are discarded only when LDK goes down.         *)
(***************************************************************************)
EXTENDS Integers

CONSTANT Thread

VARIABLES
  result,    \* result of each thread's last wait, "PENDING" while it blocks
  alerts,    \* alerts given to each thread and not consumed
  down       \* LDK is being terminated

avars == <<result, alerts, down>>

Init ==
  /\ result = [t \in Thread |-> "NONE"]
  /\ alerts = [t \in Thread |-> 0]
  /\ down = FALSE

Waiting(t) == result[t] = "PENDING"

Block(t) ==
  /\ ~Waiting(t) /\ alerts[t] = 0 /\ ~down
  /\ result' = [result EXCEPT ![t] = "PENDING"]
  /\ UNCHANGED <<alerts, down>>

Consume(t) ==
  /\ alerts[t] > 0
  /\ alerts' = [alerts EXCEPT ![t] = @ - 1]
  /\ result' = [result EXCEPT ![t] = "ALERTED"]
  /\ UNCHANGED down

TimeOut(t) ==
  /\ Waiting(t) /\ alerts[t] = 0
  /\ result' = [result EXCEPT ![t] = "TIMEOUT"]
  /\ UNCHANGED <<alerts, down>>

Refuse(t) ==
  /\ ~Waiting(t) /\ down
  /\ result' = [result EXCEPT ![t] = "DELETE_PENDING"]
  /\ UNCHANGED <<alerts, down>>

(* One alert for every thread of B; a thread that is not waiting has room  *)
(* for one, a waiting one for two.                                         *)
Alert(B) ==
  /\ \A u \in B : alerts[u] < (IF Waiting(u) THEN 2 ELSE 1)
  /\ alerts' = [u \in Thread |-> IF u \in B THEN alerts[u] + 1 ELSE alerts[u]]
  /\ UNCHANGED <<result, down>>

GoDown == down' = TRUE /\ UNCHANGED <<result, alerts>>

Discard(t) ==
  /\ down /\ alerts[t] > 0
  /\ alerts' = [alerts EXCEPT ![t] = @ - 1]
  /\ UNCHANGED <<result, down>>

Next ==
  \/ \E t \in Thread : \/ Block(t) \/ Consume(t) \/ TimeOut(t) \/ Refuse(t)
                        \/ Discard(t)
  \/ \E B \in SUBSET Thread : Alert(B)
  \/ GoDown

Spec == Init /\ [][Next]_avars
=============================================================================
