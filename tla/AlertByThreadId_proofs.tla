----------------------- MODULE AlertByThreadId_proofs -----------------------
(***************************************************************************)
(* Proofs about the alert-by-thread-id services, for any finite sets of    *)
(* waiting and alerting threads and any batch size.                        *)
(***************************************************************************)
EXTENDS WaitOnAddress, Subsequences_proofs, FiniteSetTheorems, TLAPS

(* TypeOK with the two counters as integers: that they never go below zero *)
(* follows from what they count.                                           *)
TypeInt ==
  /\ pc \in [Thread -> {"idle"} \cup WaitPc \cup AlertPc \cup DerefPc]
  /\ timed \in SUBSET Thread
  /\ status \in [Thread -> Statuses]
  /\ target \in [Thread -> Thread]
  /\ waiters \in SUBSET Thread
  /\ inList \in SUBSET Thread
  /\ woken \in SUBSET Thread
  /\ event \in SUBSET Thread
  /\ pending \in SUBSET Thread
  /\ ref \in [Thread -> Int]
  /\ count \in Int
  /\ drained \in BOOLEAN
  /\ ldkShutdown \in BOOLEAN
  /\ shuttingDown \in BOOLEAN
  /\ tpc \in TermPc
  /\ batch \in SUBSET Thread
  /\ full \in BOOLEAN

(* The list, the entry flags and the wait frames agree.                    *)
EntryInv ==
  \A t \in Thread :
    /\ t \in inList <=> t \in waiters
    /\ t \in waiters => InFrame(t) /\ t \notin woken /\ t \notin pending
    /\ InFrame(t) /\ t \notin woken => t \in waiters
    /\ t \in woken => InFrame(t)
    /\ pc[t] = "rewait" => t \in woken
    /\ pc[t] = "relock" => status[t] \in {"SUCCESS", "TIMEOUT"}
    /\ pc[t] = "relock" /\ status[t] = "SUCCESS" => t \in woken

(* A woken entry has one source of its signal, and only a woken one has.   *)
SignalInv ==
  \A t \in Thread :
    /\ t \in event => Owed(t) /\ t \notin batch
    /\ t \in batch => Owed(t)
    /\ \A u \in Thread :
         HoldsEventOf(u, t) => Owed(t) /\ t \notin event /\ t \notin batch
    /\ \A u, v \in Thread : HoldsEventOf(u, t) /\ HoldsEventOf(v, t) => u = v
    /\ Owed(t) => t \in event \/ t \in batch \/ \E u \in Thread : HoldsEventOf(u, t)

BatchInv == tpc # "wake" => batch = {}

IInv == TypeInt /\ EntryInv /\ SignalInv /\ BatchInv

USE DEF Thread, WaitPc, AlertPc, DerefPc, TermPc, Statuses

LEMMA InitIInv == Init => IInv
<1> SUFFICES ASSUME Init PROVE IInv
  OBVIOUS
<1>1. TypeInt
  <2>1. pc \in [Thread -> {"idle"} \cup WaitPc \cup AlertPc \cup DerefPc]
    BY DEF Init
  <2>2. status \in [Thread -> Statuses] /\ target \in [Thread -> Thread]
    BY DEF Init
  <2>3. ref \in [Thread -> Int] /\ count \in Int /\ tpc \in TermPc
    BY DEF Init
  <2>4. /\ {drained, ldkShutdown, shuttingDown, full} \subseteq BOOLEAN
        /\ UNION {timed, waiters, inList, woken, event, pending, batch} = {}
    BY DEF Init
  <2> QED
    BY <2>1, <2>2, <2>3, <2>4 DEF Init, TypeInt
<1>2. EntryInv /\ SignalInv /\ BatchInv
  BY DEF Init, EntryInv, SignalInv, BatchInv, InFrame, Owed, HoldsEventOf
<1> QED
  BY <1>1, <1>2 DEF IInv

LEMMA NextTypeInt == TypeInt /\ [Next]_vars => TypeInt'
<1> SUFFICES ASSUME TypeInt, [Next]_vars PROVE TypeInt'
  OBVIOUS
<1> USE DEF TypeInt, entryVars, drainVars, termVars, Goto
<1>1. ASSUME NEW t \in Waiter, WaitCall(t) PROVE TypeInt'
  <2>1. CASE WaitRefused(t)
    BY <2>1 DEF WaitRefused
  <2>2. CASE WaitTakesPending(t)
    BY <2>2 DEF WaitTakesPending, ReferenceWait
  <2>3. ASSUME NEW b \in BOOLEAN, WaitBlocks(t, b) PROVE TypeInt'
    BY <2>3 DEF WaitBlocks, ReferenceWait
  <2> QED
    BY <1>1, <2>1, <2>2, <2>3 DEF WaitCall
<1>2. ASSUME NEW t \in Waiter, WaitTimesOut(t) PROVE TypeInt'
  BY <1>2 DEF WaitTimesOut
<1>3. ASSUME NEW t \in Alerter, NEW u \in Waiter, AlertCall(t, u) PROVE TypeInt'
  BY <1>3 DEF AlertCall, AlertFindsWaiter, AlertFindsNone, RemoveWaiter
<1>4. ASSUME NEW t \in Thread, ThreadStep(t) PROVE TypeInt'
  <2>1. CASE WaitSatisfied(t) \/ WaitUnlinks(t) \/ WaitAgain(t)
    BY <2>1 DEF WaitSatisfied, WaitUnlinks, WaitAgain, LeaveFrame
  <2>2. CASE DereferenceWait(t)
    BY <2>2 DEF DereferenceWait
  <2>6. CASE SetDrained(t)
    <3>1. drained' \in BOOLEAN
      BY <2>6 DEF SetDrained
    <3> QED
      BY <2>6, <3>1 DEF SetDrained
  <2>3. CASE AlertAllocates(t)
    <3>1. pc'[t] \in {"pend", "retry"} /\ pc' = [pc EXCEPT ![t] = pc'[t]]
      BY <2>3, Zenon DEF AlertAllocates
    <3> QED
      BY <2>3, <3>1 DEF AlertAllocates
  <2>5. CASE AlertRetries(t)
    BY <2>5 DEF AlertRetries, RemoveWaiter, LeaveAlert
  <2>4. CASE AlertPends(t) \/ AlertSetsEvent(t)
    BY <2>4 DEF AlertPends, AlertSetsEvent, RemoveWaiter, LeaveAlert
  <2> QED
    BY <1>4, <2>1, <2>2, <2>3, <2>4, <2>5, <2>6 DEF ThreadStep
<1>5. CASE RaiseShutdown \/ TerminateStep
  <2>1. CASE RaiseShutdown \/ WakeAllForAddressList \/ BeginTerminate \/ AfterBatch
    BY <2>1 DEF RaiseShutdown, WakeAllForAddressList, BeginTerminate, AfterBatch
  <2>2. CASE CollectEvents
    BY <2>2 DEF CollectEvents
  <2>3. ASSUME NEW t \in Thread, SetEvents(t) PROVE TypeInt'
    BY <2>3 DEF SetEvents
  <2>4. CASE WaitDrained \/ ClearPending
    BY <2>4 DEF WaitDrained, ClearPending
  <2> QED
    BY <1>5, <2>1, <2>2, <2>3, <2>4 DEF TerminateStep, WakeAllStep
<1>6. CASE UNCHANGED vars
  BY <1>6 DEF vars
<1> QED
  BY <1>1, <1>2, <1>3, <1>4, <1>5, <1>6 DEF Next

-----------------------------------------------------------------------------
USE DEF entryVars, drainVars, termVars, Goto

(* The parts of the invariant about entries and signals, action by action. *)
Inv == EntryInv /\ SignalInv /\ BatchInv

LEMMA NextInv == IInv /\ [Next]_vars => Inv'
<1> SUFFICES ASSUME IInv, [Next]_vars PROVE Inv'
  OBVIOUS
<1> USE DEF IInv, TypeInt, EntryInv, SignalInv, BatchInv, Inv, InFrame, Owed,
            HoldsEventOf
<1>0. TypeInt'
  BY NextTypeInt
<1>1. ASSUME NEW t \in Waiter, WaitCall(t) PROVE Inv'
  <2>1. CASE WaitRefused(t)
    BY <2>1 DEF WaitRefused
  <2>2. CASE WaitTakesPending(t)
    BY <2>2 DEF WaitTakesPending
  <2>3. ASSUME NEW b \in BOOLEAN, WaitBlocks(t, b) PROVE Inv'
    BY <2>3 DEF WaitBlocks
  <2> QED
    BY <1>1, <2>1, <2>2, <2>3 DEF WaitCall
<1>2. ASSUME NEW t \in Waiter, WaitTimesOut(t) PROVE Inv'
  BY <1>2 DEF WaitTimesOut
<1>3. ASSUME NEW t \in Alerter, NEW u \in Waiter, AlertCall(t, u) PROVE Inv'
  <2>1. CASE AlertFindsWaiter(t, u)
    BY <2>1 DEF AlertFindsWaiter, RemoveWaiter
  <2>2. CASE AlertFindsNone(t, u)
    BY <2>2 DEF AlertFindsNone
  <2> QED
    BY <1>3, <2>1, <2>2 DEF AlertCall
<1>4. ASSUME NEW t \in Thread, ThreadStep(t) PROVE Inv'
  <2>1. CASE WaitSatisfied(t)
    BY <2>1 DEF WaitSatisfied
  <2>2. CASE WaitUnlinks(t)
    BY <2>2 DEF WaitUnlinks, LeaveFrame
  <2>3. CASE WaitAgain(t)
    BY <2>3 DEF WaitAgain, LeaveFrame
  <2>4. CASE DereferenceWait(t) \/ SetDrained(t)
    BY <2>4 DEF DereferenceWait, SetDrained
  <2>5. CASE AlertAllocates(t)
    BY <2>5 DEF AlertAllocates
  <2>6. CASE AlertRetries(t)
    BY <2>6 DEF AlertRetries, RemoveWaiter, LeaveAlert
  <2>7. CASE AlertPends(t)
    BY <2>7 DEF AlertPends, RemoveWaiter, LeaveAlert
  <2>8. CASE AlertSetsEvent(t)
    BY <2>8 DEF AlertSetsEvent, LeaveAlert
  <2> QED
    BY <1>4, <2>1, <2>2, <2>3, <2>4, <2>5, <2>6, <2>7, <2>8 DEF ThreadStep
<1>5. CASE RaiseShutdown \/ TerminateStep
  <2>1. CASE RaiseShutdown \/ WakeAllForAddressList \/ BeginTerminate \/ AfterBatch
    BY <2>1 DEF RaiseShutdown, WakeAllForAddressList, BeginTerminate, AfterBatch
  <2>2. CASE CollectEvents
    BY <2>2 DEF CollectEvents
  <2>3. ASSUME NEW t \in Thread, SetEvents(t) PROVE Inv'
    BY <2>3 DEF SetEvents
  <2>4. CASE WaitDrained \/ ClearPending
    BY <2>4 DEF WaitDrained, ClearPending
  <2> QED
    BY <1>5, <2>1, <2>2, <2>3, <2>4 DEF TerminateStep, WakeAllStep
<1>6. CASE UNCHANGED vars
  BY <1>6 DEF vars
<1> QED
  BY <1>1, <1>2, <1>3, <1>4, <1>5, <1>6 DEF Next

-----------------------------------------------------------------------------
(* The count and the references.                                           *)
LEMMA FiniteThread == IsFiniteSet(Thread)
BY ThreadAssumption, FS_Union

LEMMA FiniteCounted == IsFiniteSet(Counted) /\ Cardinality(Counted) \in Nat
BY FiniteThread, FS_Subset, FS_CardinalityType DEF Counted

LEMMA NextCount == TypeInt /\ CountExact /\ [Next]_vars => CountExact'
<1> SUFFICES ASSUME TypeInt, CountExact, [Next]_vars PROVE CountExact'
  OBVIOUS
<1> USE DEF TypeInt
<1>1. ASSUME NEW t \in Thread, t \notin Counted, Counted' = Counted \cup {t},
             ReferenceWait
      PROVE CountExact'
  <2>1. count' = count + 1 /\ count = Cardinality(Counted)
    BY <1>1, Zenon DEF CountExact, ReferenceWait
  <2>2. Cardinality(Counted') = Cardinality(Counted) + 1
    BY <1>1, FiniteCounted, FS_AddElement
  <2>3. count' # 0
    BY <2>1, FiniteCounted
  <2> QED
    BY <2>1, <2>2, <2>3 DEF CountExact
<1>2. ASSUME NEW t \in Thread, DereferenceWait(t) PROVE CountExact'
  <2>1. Counted' = Counted \ {t} /\ t \in Counted
    BY <1>2 DEF DereferenceWait, Counted
  <2>2. count' = Cardinality(Counted')
    BY <1>2, <2>1, FiniteCounted, FS_RemoveElement DEF DereferenceWait, CountExact
  <2>3. count' = 0 => pc'[t] = "setDrained"
    BY <1>2 DEF DereferenceWait
  <2> QED
    BY <2>2, <2>3 DEF CountExact
<1>3. ASSUME NEW t \in Thread, SetDrained(t) PROVE CountExact'
  <2>1. Counted' = Counted /\ count' = count /\ drained'
    BY <1>3 DEF SetDrained, Counted
  <2> QED
    BY <2>1 DEF CountExact
<1>4. ASSUME UNCHANGED <<count, drained>>, Counted' = Counted,
             \A t \in Thread : pc[t] = "setDrained" => pc'[t] = "setDrained"
      PROVE CountExact'
  BY <1>4 DEF CountExact
<1>5. ASSUME NEW t \in Waiter, WaitCall(t) PROVE CountExact'
  <2>1. CASE WaitRefused(t)
    BY <2>1, <1>4 DEF WaitRefused, Counted
  <2>2. CASE WaitTakesPending(t)
    BY <2>2, <1>1 DEF WaitTakesPending, Counted
  <2>3. ASSUME NEW b \in BOOLEAN, WaitBlocks(t, b) PROVE CountExact'
    BY <2>3, <1>1 DEF WaitBlocks, Counted
  <2> QED
    BY <1>5, <2>1, <2>2, <2>3 DEF WaitCall
<1>6. ASSUME NEW t \in Waiter, WaitTimesOut(t) PROVE CountExact'
  BY <1>6, <1>4 DEF WaitTimesOut, Counted
<1>7. ASSUME NEW t \in Alerter, NEW u \in Waiter, AlertCall(t, u)
      PROVE CountExact'
  BY <1>7, <1>4 DEF AlertCall, AlertFindsWaiter, AlertFindsNone, Counted
<1>8. ASSUME NEW t \in Thread, ThreadStep(t) PROVE CountExact'
  <2>1. CASE WaitSatisfied(t)
    BY <2>1, <1>4 DEF WaitSatisfied, Counted
  <2>2. CASE WaitUnlinks(t)
    BY <2>2, <1>4 DEF WaitUnlinks, LeaveFrame, Counted
  <2>3. CASE WaitAgain(t)
    BY <2>3, <1>4 DEF WaitAgain, LeaveFrame, Counted
  <2>4. CASE AlertAllocates(t)
    BY <2>4, <1>4 DEF AlertAllocates, Counted
  <2>5. CASE AlertRetries(t)
    BY <2>5, <1>4 DEF AlertRetries, LeaveAlert, Counted
  <2>6. CASE AlertPends(t)
    BY <2>6, <1>4 DEF AlertPends, LeaveAlert, Counted
  <2>7. CASE AlertSetsEvent(t)
    BY <2>7, <1>4 DEF AlertSetsEvent, LeaveAlert, Counted
  <2> QED
    BY <1>2, <1>3, <1>8, <2>1, <2>2, <2>3, <2>4, <2>5, <2>6, <2>7 DEF ThreadStep
<1>9. CASE RaiseShutdown \/ TerminateStep
  <2>1. UNCHANGED <<count, drained, pc>>
    BY <1>9 DEF RaiseShutdown, TerminateStep, WakeAllForAddressList,
                BeginTerminate, WakeAllStep, CollectEvents, SetEvents,
                AfterBatch, WaitDrained, ClearPending
  <2> QED
    BY <2>1, <1>4 DEF Counted
<1>10. CASE UNCHANGED vars
  BY <1>10, <1>4 DEF vars, Counted
<1> QED
  BY <1>5, <1>6, <1>7, <1>8, <1>9, <1>10 DEF Next

LEMMA FiniteReferencing ==
  ASSUME NEW u
  PROVE  IsFiniteSet(Referencing(u)) /\ Cardinality(Referencing(u)) \in Nat
BY FiniteThread, FS_Subset, FS_CardinalityType DEF Referencing

LEMMA NextRef == TypeInt /\ RefExact /\ [Next]_vars => RefExact'
<1> SUFFICES ASSUME TypeInt, RefExact, [Next]_vars, NEW w \in Thread
             PROVE  (ref[w] = Cardinality(Referencing(w))
                              + (IF w \in pending THEN 1 ELSE 0))'
  BY DEF RefExact
<1> DEFINE Goal == (ref[w] = Cardinality(Referencing(w))
                             + (IF w \in pending THEN 1 ELSE 0))'
<1> USE DEF TypeInt
<1>0. /\ ref[w] = Cardinality(Referencing(w)) + (IF w \in pending THEN 1 ELSE 0)
      /\ IsFiniteSet(Referencing(w)) /\ Cardinality(Referencing(w)) \in Nat
      /\ \A t : Cardinality(Referencing(w) \cup {t}) =
                 IF t \in Referencing(w) THEN Cardinality(Referencing(w))
                 ELSE Cardinality(Referencing(w)) + 1
      /\ \A t : Cardinality(Referencing(w) \ {t}) =
                 IF t \in Referencing(w) THEN Cardinality(Referencing(w)) - 1
                 ELSE Cardinality(Referencing(w))
  BY FiniteReferencing, FS_AddElement, FS_RemoveElement DEF RefExact
<1>1. ASSUME ref'[w] = ref[w], w \in pending' <=> w \in pending,
             Referencing(w)' = Referencing(w)
      PROVE Goal
  BY <1>0, <1>1
<1>2. ASSUME NEW t \in Thread, t \in Referencing(w),
             Referencing(w)' = Referencing(w) \ {t},
             \/ ref'[w] = ref[w] - 1 /\ (w \in pending' <=> w \in pending)
             \/ ref'[w] = ref[w] /\ w \in pending' /\ w \notin pending
      PROVE Goal
  BY <1>0, <1>2
<1>3. ASSUME NEW t \in Waiter, WaitCall(t) PROVE Goal
  <2>1. CASE WaitRefused(t)
    BY <2>1, <1>1 DEF WaitRefused, Referencing
  <2>2. CASE WaitTakesPending(t)
    <3>1. Referencing(w)' = Referencing(w)
      BY <2>2 DEF WaitTakesPending, Referencing
    <3> QED
      BY <2>2, <3>1, <1>0 DEF WaitTakesPending
  <2>3. ASSUME NEW b \in BOOLEAN, WaitBlocks(t, b) PROVE Goal
    BY <2>3, <1>1 DEF WaitBlocks, Referencing
  <2> QED
    BY <1>3, <2>1, <2>2, <2>3 DEF WaitCall
<1>4. ASSUME NEW t \in Waiter, WaitTimesOut(t) PROVE Goal
  BY <1>4, <1>1 DEF WaitTimesOut, Referencing
<1>5. ASSUME NEW t \in Alerter, NEW u \in Waiter, AlertCall(t, u) PROVE Goal
  <2>1. CASE AlertFindsWaiter(t, u)
    BY <2>1, <1>1 DEF AlertFindsWaiter, Referencing
  <2>2. CASE AlertFindsNone(t, u)
    <3>1. CASE w = u
      <4>1. Referencing(w)' = Referencing(w) \cup {t} /\ t \notin Referencing(w)
        BY <2>2, <3>1 DEF AlertFindsNone, Referencing
      <4> QED
        BY <2>2, <3>1, <4>1, <1>0 DEF AlertFindsNone
    <3>2. CASE w # u
      BY <2>2, <3>2, <1>1 DEF AlertFindsNone, Referencing
    <3> QED
      BY <3>1, <3>2
  <2> QED
    BY <1>5, <2>1, <2>2 DEF AlertCall
<1>6. ASSUME NEW t \in Thread, ThreadStep(t) PROVE Goal
  <2>1. CASE WaitSatisfied(t) \/ WaitUnlinks(t) \/ WaitAgain(t)
    BY <2>1, <1>1 DEF WaitSatisfied, WaitUnlinks, WaitAgain, LeaveFrame, Referencing
  <2>2. CASE DereferenceWait(t) \/ SetDrained(t)
    BY <2>2, <1>1 DEF DereferenceWait, SetDrained, Referencing
  <2>3. CASE AlertAllocates(t)
    BY <2>3, <1>1 DEF AlertAllocates, Referencing
  <2>4. CASE AlertRetries(t)
    <3>1. CASE w = target[t]
      <4>1. Referencing(w)' = Referencing(w) \ {t} /\ t \in Referencing(w)
        BY <2>4, <3>1 DEF AlertRetries, LeaveAlert, Referencing
      <4> QED
        BY <2>4, <3>1, <4>1, <1>2 DEF AlertRetries
    <3>2. CASE w # target[t]
      BY <2>4, <3>2, <1>1 DEF AlertRetries, LeaveAlert, Referencing
    <3> QED
      BY <3>1, <3>2
  <2>5. CASE AlertPends(t)
    <3>1. CASE w = target[t]
      <4>1. Referencing(w)' = Referencing(w) \ {t} /\ t \in Referencing(w)
        BY <2>5, <3>1 DEF AlertPends, LeaveAlert, Referencing
      <4> QED
        BY <2>5, <3>1, <4>1, <1>2 DEF AlertPends
    <3>2. CASE w # target[t]
      BY <2>5, <3>2, <1>1 DEF AlertPends, LeaveAlert, Referencing
    <3> QED
      BY <3>1, <3>2
  <2>6. CASE AlertSetsEvent(t)
    BY <2>6, <1>1 DEF AlertSetsEvent, LeaveAlert, Referencing
  <2> QED
    BY <1>6, <2>1, <2>2, <2>3, <2>4, <2>5, <2>6 DEF ThreadStep
<1>7. CASE RaiseShutdown \/ TerminateStep
  <2>1. UNCHANGED <<pc, target>>
    BY <1>7 DEF RaiseShutdown, TerminateStep, WakeAllForAddressList,
                BeginTerminate, WakeAllStep, CollectEvents, SetEvents,
                AfterBatch, WaitDrained, ClearPending
  <2>2. CASE UNCHANGED <<pending, ref>>
    BY <2>1, <2>2, <1>1 DEF Referencing
  <2>3. CASE ClearPending
    <3>1. Referencing(w)' = Referencing(w)
      BY <2>1 DEF Referencing
    <3> QED
      BY <2>3, <3>1, <1>0 DEF ClearPending
  <2> QED
    BY <1>7, <2>2, <2>3 DEF RaiseShutdown, TerminateStep, WakeAllForAddressList,
                BeginTerminate, WakeAllStep, CollectEvents, SetEvents,
                AfterBatch, WaitDrained
<1>8. CASE UNCHANGED vars
  BY <1>8, <1>1 DEF vars, Referencing
<1> QED
  BY <1>3, <1>4, <1>5, <1>6, <1>7, <1>8 DEF Next

-----------------------------------------------------------------------------
(* The whole inductive invariant holds: entries, signals, count and        *)
(* references of alert.c stay consistent through every interleaving.       *)
THEOREM Invariance == Spec => [](IInv /\ CountExact /\ RefExact)
<1>1. Init => CountExact
  <2> SUFFICES ASSUME Init PROVE CountExact
    OBVIOUS
  <2>1. Counted = {}
    BY DEF Init, Counted
  <2> QED
    BY <2>1, FS_EmptySet DEF Init, CountExact
<1>2. Init => RefExact
  <2> SUFFICES ASSUME Init, NEW u \in Thread
               PROVE  ref[u] = Cardinality(Referencing(u))
                               + (IF u \in pending THEN 1 ELSE 0)
    BY DEF RefExact
  <2>1. Referencing(u) = {}
    BY DEF Init, Referencing
  <2> QED
    BY <2>1, FS_EmptySet DEF Init
<1>3. IInv /\ CountExact /\ RefExact /\ [Next]_vars
        => (IInv /\ CountExact /\ RefExact)'
  BY NextTypeInt, NextInv, NextCount, NextRef DEF IInv, Inv
<1> QED
  BY <1>1, <1>2, <1>3, InitIInv, PTL DEF Spec

(* Type correctness; in particular the interlocked wait count and the      *)
(* thread references never go below zero.                                  *)
THEOREM TypeCorrect == Spec => []TypeOK
<1>1. IInv /\ CountExact /\ RefExact => TypeOK
  <2> SUFFICES ASSUME IInv, CountExact, RefExact PROVE TypeOK
    OBVIOUS
  <2>1. count \in Nat
    BY FiniteCounted DEF CountExact
  <2>2. ASSUME NEW u \in Thread PROVE ref[u] \in Nat
    BY FiniteReferencing DEF RefExact
  <2>3. ref \in [Thread -> Nat]
    BY <2>2 DEF IInv, TypeInt
  <2> QED
    BY <2>1, <2>3 DEF IInv, TypeInt, TypeOK
<1> QED
  BY <1>1, Invariance, PTL

(* No pointer to a stack-allocated wait entry or event outlives the wait.  *)
THEOREM StackSafety == Spec => []StackSafe
<1>1. IInv => StackSafe
  BY DEF IInv, TypeInt, EntryInv, SignalInv, StackSafe, InFrame, Owed
<1> QED
  BY <1>1, Invariance, PTL

(* A woken wait is owed exactly one signal.                                *)
THEOREM SignalOnce == Spec => []OneSignalOwed
<1>1. IInv => OneSignalOwed
  <2> SUFFICES ASSUME IInv, NEW t \in Thread, InFrame(t)
               PROVE  Cardinality({u \in Thread : HoldsEventOf(u, t)})
                      + (IF t \in batch THEN 1 ELSE 0)
                      + (IF t \in event THEN 1 ELSE 0)
                      = (IF Owed(t) THEN 1 ELSE 0)
    BY DEF OneSignalOwed
  <2> DEFINE H == {u \in Thread : HoldsEventOf(u, t)}
  <2>1. CASE \E u \in Thread : HoldsEventOf(u, t)
    <3>1. PICK u \in Thread : HoldsEventOf(u, t)
      BY <2>1
    <3>2. H = {u} /\ Owed(t) /\ t \notin batch /\ t \notin event
      BY <3>1 DEF IInv, SignalInv
    <3>3. Cardinality(H) = 1
      BY <3>2, FS_Singleton
    <3> QED
      BY <3>2, <3>3
  <2>2. CASE ~\E u \in Thread : HoldsEventOf(u, t)
    <3>1. H = {}
      BY <2>2
    <3>2. Cardinality(H) = 0
      BY <3>1, FS_EmptySet
    <3>3. /\ Owed(t) <=> t \in event \/ t \in batch
          /\ ~(t \in event /\ t \in batch)
      BY <2>2 DEF IInv, SignalInv
    <3> QED
      BY <3>2, <3>3
  <2> QED
    BY <2>1, <2>2
<1> QED
  BY <1>1, Invariance, PTL

(* The wait count is the number of active waits, and a count of zero has   *)
(* signalled, or is about to signal, the drained event.                    *)
THEOREM CountCorrect == Spec => []CountExact
BY Invariance, PTL

(* Thread object references are neither leaked nor dropped twice.          *)
THEOREM ReferencesCorrect == Spec => []RefExact
BY Invariance, PTL

-----------------------------------------------------------------------------
(* Termination leaves the list empty.                                      *)
ListInv ==
  /\ tpc # "run" \/ shuttingDown => ldkShutdown
  /\ tpc = "wake" /\ ~full => waiters = {}
  /\ NoWaiterAfterWakeAll

LEMMA NextListInv == TypeInt /\ ListInv /\ [Next]_vars => ListInv'
<1> SUFFICES ASSUME TypeInt, ListInv, [Next]_vars PROVE ListInv'
  OBVIOUS
<1> USE DEF ListInv, NoWaiterAfterWakeAll
<1> USE DEF TypeInt
<1>1. ASSUME UNCHANGED <<tpc, ldkShutdown, shuttingDown, full>>, waiters' \subseteq waiters
      PROVE ListInv'
  BY <1>1
<1>2. ASSUME NEW t \in Waiter, WaitCall(t) PROVE ListInv'
  BY <1>2, <1>1 DEF WaitCall, WaitRefused, WaitTakesPending, WaitBlocks
<1>3. ASSUME NEW t \in Waiter, WaitTimesOut(t) PROVE ListInv'
  BY <1>3, <1>1 DEF WaitTimesOut
<1>4. ASSUME NEW t \in Alerter, NEW u \in Waiter, AlertCall(t, u) PROVE ListInv'
  BY <1>4, <1>1 DEF AlertCall, AlertFindsWaiter, AlertFindsNone, RemoveWaiter
<1>5. ASSUME NEW t \in Thread, ThreadStep(t) PROVE ListInv'
  <2>1. UNCHANGED <<tpc, ldkShutdown, shuttingDown, full>> /\ waiters' \subseteq waiters
    BY <1>5 DEF ThreadStep, WaitSatisfied, WaitUnlinks, WaitAgain,
         DereferenceWait, SetDrained, AlertAllocates, AlertRetries,
         AlertPends, AlertSetsEvent, RemoveWaiter
  <2> QED
    BY <2>1, <1>1
<1>6. CASE RaiseShutdown
  BY <1>6 DEF RaiseShutdown
<1>7. CASE TerminateStep
  <2>1. CASE WakeAllForAddressList \/ BeginTerminate \/ AfterBatch
    BY <2>1 DEF WakeAllForAddressList, BeginTerminate, AfterBatch
  <2>2. CASE CollectEvents
    <3>1. /\ tpc = "collect" /\ tpc' = "wake"
          /\ UNCHANGED <<ldkShutdown, shuttingDown>>
          /\ ~full' => waiters' = {}
      BY <2>2 DEF CollectEvents
    <3> QED
      BY <3>1
  <2>3. ASSUME NEW t \in Thread, SetEvents(t) PROVE ListInv'
    BY <2>3, <1>1 DEF SetEvents
  <2>4. CASE WaitDrained \/ ClearPending
    BY <2>4 DEF WaitDrained, ClearPending
  <2> QED
    BY <1>7, <2>1, <2>2, <2>3, <2>4 DEF TerminateStep, WakeAllStep
<1>8. CASE UNCHANGED vars
  BY <1>8, <1>1 DEF vars
<1> QED
  BY <1>2, <1>3, <1>4, <1>5, <1>6, <1>7, <1>8 DEF Next

LEMMA ListInvariance == Spec => []ListInv
<1>1. Init => ListInv
  BY DEF Init, ListInv, NoWaiterAfterWakeAll
<1>3. IInv => TypeInt
  BY DEF IInv
<1> QED
  BY <1>1, <1>3, NextListInv, Invariance, PTL DEF Spec

(* After LdkpWakeAllAlertByThreadIdWaiters has run, in batches of any      *)
(* size, no wait can enter the list again.                                 *)
THEOREM ListStaysEmpty == Spec => []NoWaiterAfterWakeAll
<1>1. ListInv => NoWaiterAfterWakeAll
  BY DEF ListInv
<1> QED
  BY <1>1, ListInvariance, PTL

(* An alert call that reports success has left its target an alert.        *)
THEOREM Delivery == Spec => AlertDelivered
<1> DEFINE A == \A t \in Thread : pc[t] \in {"pend", "setEvent"} /\ pc'[t] = "idle"
                  => Alerts'[target[t]] > 0
<1>1. IInv /\ [Next]_vars => A
  <2> SUFFICES ASSUME IInv, [Next]_vars, NEW t \in Thread,
                      pc[t] \in {"pend", "setEvent"}, pc'[t] = "idle"
               PROVE  Alerts'[target[t]] > 0
    OBVIOUS
  <2> USE DEF IInv, TypeInt
  <2>1. AlertPends(t) \/ AlertSetsEvent(t)
    <3>1. ASSUME NEW u \in Thread \ {t}, pc' = [pc EXCEPT ![u] = pc'[u]]
          PROVE FALSE
      BY <3>1
    <3>2. ASSUME UNCHANGED pc PROVE FALSE
      BY <3>2
    <3>3. ASSUME NEW w \in Waiter, WaitCall(w) \/ WaitTimesOut(w) PROVE FALSE
      BY <3>3, <3>2 DEF WaitCall, WaitRefused, WaitTakesPending, WaitBlocks,
                        WaitTimesOut
    <3>4. ASSUME NEW w \in Alerter, NEW u \in Waiter, AlertCall(w, u) PROVE FALSE
      BY <3>4 DEF AlertCall, AlertFindsWaiter, AlertFindsNone
    <3>5. ASSUME NEW u \in Thread, ThreadStep(u) PROVE u = t
      <4>1. pc' = [pc EXCEPT ![u] = pc'[u]]
        BY <3>5 DEF ThreadStep, WaitSatisfied, WaitUnlinks, WaitAgain, LeaveFrame,
             DereferenceWait, SetDrained, AlertAllocates, AlertRetries,
             AlertPends, AlertSetsEvent, LeaveAlert
      <4> QED
        BY <4>1, <3>1
    <3>6. ThreadStep(t) => AlertPends(t) \/ AlertSetsEvent(t)
      BY DEF ThreadStep, WaitSatisfied, WaitUnlinks, WaitAgain,
             DereferenceWait, SetDrained, AlertAllocates, AlertRetries
    <3>7. CASE RaiseShutdown \/ TerminateStep
      BY <3>7, <3>2 DEF RaiseShutdown, TerminateStep, WakeAllForAddressList,
           BeginTerminate, WakeAllStep, CollectEvents, SetEvents,
           AfterBatch, WaitDrained, ClearPending
    <3>8. CASE UNCHANGED vars
      BY <3>8, <3>2 DEF vars
    <3> QED
      BY <3>3, <3>4, <3>5, <3>6, <3>7, <3>8 DEF Next
  <2>2. CASE AlertPends(t)
    <3>1. target[t] \in pending'
      BY <2>2 DEF AlertPends
    <3> QED
      BY <3>1 DEF Alerts
  <2>3. CASE AlertSetsEvent(t)
    <3>1. target[t] \in woken /\ pc[target[t]] \in WaitPc
      BY <2>3 DEF AlertSetsEvent, SignalInv, EntryInv, HoldsEventOf, Owed, InFrame
    <3>2. target[t] \in woken' /\ pc'[target[t]] \in WaitPc
      BY <2>3, <3>1 DEF AlertSetsEvent, LeaveAlert
    <3> QED
      BY <3>2 DEF Alerts, InFrame
  <2> QED
    BY <2>1, <2>2, <2>3
<1> QED
  BY <1>1, Invariance, PTL DEF Spec, AlertDelivered

-----------------------------------------------------------------------------
(* Refinement.  A step changes the abstract state of one thread at most,   *)
(* except that a wake-all alerts a batch.                                  *)
LEMMA OneLess ==
  ASSUME NEW t \in Thread, Alerts'[t] = Alerts[t] - 1,
         \A v \in Thread \ {t} : Alerts'[v] = Alerts[v]
  PROVE  Alerts' = [Alerts EXCEPT ![t] = @ - 1]
BY DEF Alerts

LEMMA AlertsOf ==
  ASSUME NEW t \in Thread
  PROVE  Alerts[t] = (IF t \in pending THEN 1 ELSE 0)
                     + (IF InFrame(t) /\ t \in woken THEN 1 ELSE 0)
BY DEF Alerts

LEMMA AlertsOfNext ==
  ASSUME NEW t \in Thread
  PROVE  Alerts'[t] = (IF t \in pending' THEN 1 ELSE 0)
                      + (IF InFrame(t)' /\ t \in woken' THEN 1 ELSE 0)
BY DEF Alerts

LEMMA AbstractStep ==
  ASSUME IInv, ListInv, [Next]_vars
  PROVE  Abstract!Next \/ UNCHANGED <<Result, Alerts, ldkShutdown>>
<1> DEFINE Goal == Abstract!Next \/ UNCHANGED <<Result, Alerts, ldkShutdown>>
<1> USE DEF IInv, TypeInt
<1>1. ASSUME UNCHANGED <<pending, woken, ldkShutdown>>,
             \A t \in Thread : InFrame(t)' <=> InFrame(t),
             \A t \in Thread : ~InFrame(t) => status'[t] = status[t]
      PROVE Goal
  BY <1>1 DEF Result, Alerts
<1>2. ASSUME NEW B \in SUBSET Thread, UNCHANGED <<Result, ldkShutdown>>,
             \A u \in B : Alerts[u] < (IF InFrame(u) THEN 2 ELSE 1),
             Alerts' = [u \in Thread |-> IF u \in B THEN Alerts[u] + 1 ELSE Alerts[u]]
      PROVE Goal
  <2>1. \A u \in B : InFrame(u) => Result[u] = "PENDING"
    BY DEF Result
  <2>2. ASSUME NEW u \in B
        PROVE Alerts[u] < (IF Result[u] = "PENDING" THEN 2 ELSE 1)
    <3>1. CASE InFrame(u)
      BY <1>2, <2>1, <3>1
    <3>2. CASE ~InFrame(u)
      <4>1. Alerts[u] \in {0, 1}
        BY <3>2, AlertsOf
      <4>2. Alerts[u] < 1
        BY <1>2, <3>2, Zenon
      <4> QED
        BY <4>1, <4>2
    <3> QED
      BY <3>1, <3>2
  <2> QED
    BY <1>2, <2>2 DEF Abstract!Next, Abstract!Alert, Abstract!Waiting
<1>3. ASSUME NEW u \in Thread, u \in waiters, RemoveWaiter(u),
             UNCHANGED <<status, pending, ldkShutdown>>,
             \A t \in Thread : InFrame(t)' <=> InFrame(t)
      PROVE Goal
  <2>1. u \notin woken /\ InFrame(u)
    BY <1>3 DEF EntryInv
  <2>2. Result' = Result
    BY <1>3 DEF Result
  <2>3. /\ Alerts[u] < 2
        /\ Alerts' = [v \in Thread |-> IF v \in {u} THEN Alerts[v] + 1 ELSE Alerts[v]]
    BY <1>3, <2>1 DEF Alerts, RemoveWaiter
  <2>4. \A v \in {u} : Alerts[v] < (IF InFrame(v) THEN 2 ELSE 1)
    BY <2>1, <2>3
  <2>5. {u} \in SUBSET Thread /\ UNCHANGED <<Result, ldkShutdown>>
    BY <1>3, <2>2
  <2> HIDE DEF Goal
  <2> QED
    BY <1>2, <2>3, <2>4, <2>5
<1>4. ASSUME NEW t \in Waiter, WaitCall(t) PROVE Goal
  <2>1. CASE WaitRefused(t)
    <3>1. Alerts' = Alerts /\ ldkShutdown' = ldkShutdown /\ ldkShutdown
      BY <2>1 DEF WaitRefused, Alerts, InFrame, ListInv
    <3>2. Result' = [Result EXCEPT ![t] = "DELETE_PENDING"] /\ Result[t] # "PENDING"
      BY <2>1 DEF WaitRefused, Result, InFrame
    <3> QED
      BY <3>1, <3>2 DEF Abstract!Next, Abstract!Refuse, Abstract!Waiting
  <2>2. CASE WaitTakesPending(t)
    <3>0. /\ t \in pending /\ pending' = pending \ {t} /\ woken' = woken
          /\ ~InFrame(t) /\ ~InFrame(t)'
          /\ \A v \in Thread \ {t} : InFrame(v)' <=> InFrame(v)
      BY <2>2 DEF WaitTakesPending, InFrame
    <3>1. Alerts[t] > 0 /\ Alerts' = [Alerts EXCEPT ![t] = @ - 1]
      <4>1. Alerts[t] = 1 /\ Alerts'[t] = 0
        BY <3>0, AlertsOf, AlertsOfNext
      <4>2. \A v \in Thread \ {t} : Alerts'[v] = Alerts[v]
        BY <3>0, AlertsOf, AlertsOfNext
      <4> QED
        BY <4>1, <4>2, OneLess
    <3>2. Result' = [Result EXCEPT ![t] = "ALERTED"] /\ ldkShutdown' = ldkShutdown
      BY <2>2 DEF WaitTakesPending, Result, InFrame
    <3> QED
      BY <3>1, <3>2 DEF Abstract!Next, Abstract!Consume
  <2>3. ASSUME NEW b \in BOOLEAN, WaitBlocks(t, b) PROVE Goal
    <3>1. Alerts[t] = 0 /\ Alerts' = Alerts
      BY <2>3 DEF WaitBlocks, Alerts, InFrame
    <3>2. /\ Result' = [Result EXCEPT ![t] = "PENDING"] /\ Result[t] # "PENDING"
          /\ ldkShutdown' = ldkShutdown /\ ~ldkShutdown
      BY <2>3 DEF WaitBlocks, Result, InFrame
    <3> QED
      BY <3>1, <3>2 DEF Abstract!Next, Abstract!Block, Abstract!Waiting
  <2> QED
    BY <1>4, <2>1, <2>2, <2>3 DEF WaitCall
<1>5. ASSUME NEW t \in Waiter, WaitTimesOut(t) PROVE Goal
  BY <1>5, <1>1 DEF WaitTimesOut, InFrame
<1>6. ASSUME NEW t \in Alerter, NEW u \in Waiter, AlertCall(t, u) PROVE Goal
  <2>1. CASE AlertFindsWaiter(t, u)
    BY <2>1, <1>3 DEF AlertFindsWaiter, InFrame
  <2>2. CASE AlertFindsNone(t, u)
    BY <2>2, <1>1 DEF AlertFindsNone, InFrame
  <2> QED
    BY <1>6, <2>1, <2>2 DEF AlertCall
<1>7. ASSUME NEW t \in Thread, InFrame(t), t \in woken, LeaveFrame(t, "ALERTED"),
             UNCHANGED <<pending, ldkShutdown>>
      PROVE Goal
  <2>0. /\ woken' = woken \ {t} /\ ~InFrame(t)'
        /\ \A v \in Thread \ {t} : InFrame(v)' <=> InFrame(v)
    BY <1>7 DEF InFrame, LeaveFrame
  <2>1. Alerts[t] > 0 /\ Alerts' = [Alerts EXCEPT ![t] = @ - 1]
    <3>1. Alerts[t] > 0 /\ Alerts'[t] = Alerts[t] - 1
      BY <1>7, <2>0, AlertsOf, AlertsOfNext
    <3>2. \A v \in Thread \ {t} : Alerts'[v] = Alerts[v]
      BY <1>7, <2>0, AlertsOf, AlertsOfNext
    <3> QED
      BY <3>1, <3>2, OneLess
  <2>2. Result' = [Result EXCEPT ![t] = "ALERTED"]
    BY <1>7 DEF Result, InFrame, LeaveFrame
  <2> QED
    BY <1>7, <2>1, <2>2 DEF Abstract!Next, Abstract!Consume
<1>8. ASSUME NEW t \in Thread, ThreadStep(t) PROVE Goal
  <2>1. CASE WaitSatisfied(t)
    BY <2>1, <1>1 DEF WaitSatisfied, InFrame
  <2>2. CASE WaitUnlinks(t)
    <3>1. CASE t \in woken /\ status[t] # "SUCCESS"
      BY <2>2, <3>1, <1>1 DEF WaitUnlinks, InFrame
    <3>2. CASE status[t] = "SUCCESS"
      <4>1. InFrame(t) /\ t \in woken
        BY <2>2, <3>2 DEF WaitUnlinks, InFrame, EntryInv
      <4> QED
        BY <2>2, <3>2, <4>1, <1>7 DEF WaitUnlinks
    <3>3. CASE t \notin woken /\ status[t] # "SUCCESS"
      <4>0. LeaveFrame(t, "TIMEOUT") /\ UNCHANGED <<pending, ldkShutdown>>
        BY <2>2, <3>3 DEF WaitUnlinks, EntryInv
      <4>1. pc[t] = "relock" /\ t \notin pending
        BY <2>2, <3>3 DEF WaitUnlinks, EntryInv, InFrame
      <4>2. Alerts' = Alerts
        BY <4>0, <4>1, <3>3 DEF Alerts, InFrame, LeaveFrame
      <4>3. Alerts[t] = 0
        BY <4>1, <3>3 DEF Alerts, InFrame
      <4>4. Result[t] = "PENDING" /\ Result' = [Result EXCEPT ![t] = "TIMEOUT"]
        BY <4>0, <4>1 DEF Result, InFrame, LeaveFrame
      <4> QED
        BY <4>0, <4>2, <4>3, <4>4 DEF Abstract!Next, Abstract!TimeOut, Abstract!Waiting
    <3> QED
      BY <3>1, <3>2, <3>3
  <2>3. CASE WaitAgain(t)
    <3>1. InFrame(t) /\ t \in woken
      BY <2>3 DEF WaitAgain, InFrame, EntryInv
    <3> QED
      BY <2>3, <3>1, <1>7 DEF WaitAgain
  <2>4. CASE DereferenceWait(t) \/ SetDrained(t)
    BY <2>4, <1>1 DEF DereferenceWait, SetDrained, InFrame
  <2>5. CASE AlertAllocates(t)
    BY <2>5, <1>1 DEF AlertAllocates, InFrame
  <2>6. CASE AlertRetries(t)
    <3>1. \A u \in Thread : InFrame(u)' <=> InFrame(u)
      BY <2>6 DEF AlertRetries, LeaveAlert, InFrame
    <3>2. CASE target[t] \in waiters
      BY <2>6, <3>1, <3>2, <1>3 DEF AlertRetries
    <3>3. CASE target[t] \notin waiters
      BY <2>6, <3>1, <3>3, <1>1 DEF AlertRetries
    <3> QED
      BY <3>2, <3>3
  <2>7. CASE AlertPends(t)
    <3>1. \A u \in Thread : InFrame(u)' <=> InFrame(u)
      BY <2>7 DEF AlertPends, LeaveAlert, InFrame
    <3>2. CASE target[t] \in waiters
      BY <2>7, <3>1, <3>2, <1>3 DEF AlertPends
    <3>3. CASE target[t] \notin waiters /\ target[t] \in pending
      <4>0. pending' = pending \cup {target[t]}
        BY <2>7, <3>3 DEF AlertPends
      <4>1. pending' = pending
        BY <4>0, <3>3
      <4> QED
        BY <2>7, <3>1, <3>3, <4>1, <1>1 DEF AlertPends
    <3>4. CASE target[t] \notin waiters /\ target[t] \notin pending
      <4> DEFINE u == target[t]
      <4>1. pending' = pending \cup {u} /\ UNCHANGED <<woken, status, ldkShutdown>>
        BY <2>7, <3>4 DEF AlertPends
      <4>2. Result' = Result
        BY <3>1, <4>1 DEF Result
      <4>3. Alerts' = [v \in Thread |-> IF v \in {u} THEN Alerts[v] + 1 ELSE Alerts[v]]
        BY <3>1, <3>4, <4>1 DEF Alerts
      <4>4. Alerts[u] < (IF InFrame(u) THEN 2 ELSE 1)
        BY <3>4 DEF Alerts
      <4>5. /\ {u} \in SUBSET Thread
            /\ \A v \in {u} : Alerts[v] < (IF InFrame(v) THEN 2 ELSE 1)
        BY <4>4
      <4> HIDE DEF Goal, u
      <4> QED
        BY <4>1, <4>2, <4>3, <4>5, <1>2
    <3> QED
      BY <3>2, <3>3, <3>4
  <2>8. CASE AlertSetsEvent(t)
    BY <2>8, <1>1 DEF AlertSetsEvent, LeaveAlert, InFrame
  <2> QED
    BY <1>8, <2>1, <2>2, <2>3, <2>4, <2>5, <2>6, <2>7, <2>8 DEF ThreadStep
<1>9. CASE RaiseShutdown
  <2>1. UNCHANGED <<Result, Alerts>> /\ ldkShutdown' = TRUE
    BY <1>9 DEF RaiseShutdown, Result, Alerts, InFrame
  <2> QED
    BY <2>1, Zenon DEF Abstract!Next, Abstract!GoDown
<1>10. CASE TerminateStep
  <2>1. CASE WakeAllForAddressList \/ BeginTerminate \/ AfterBatch \/ WaitDrained
    BY <2>1, <1>1 DEF WakeAllForAddressList, BeginTerminate, AfterBatch,
                      WaitDrained, InFrame
  <2>2. CASE CollectEvents
    <3>1. PICK B \in SUBSET waiters : woken' = woken \cup B
      BY <2>2 DEF CollectEvents
    <3>2. UNCHANGED <<pc, status, pending, ldkShutdown>>
      BY <2>2 DEF CollectEvents
    <3>3. \A u \in B : InFrame(u) /\ u \notin woken
      BY <3>1 DEF EntryInv
    <3>4. Result' = Result
      BY <3>2 DEF Result, InFrame
    <3>5. /\ \A u \in B : Alerts[u] < 2
          /\ Alerts' = [u \in Thread |-> IF u \in B THEN Alerts[u] + 1 ELSE Alerts[u]]
      BY <3>1, <3>2, <3>3 DEF Alerts, InFrame
    <3> QED
      BY <3>1, <3>2, <3>3, <3>4, <3>5, <1>2
  <2>3. ASSUME NEW t \in Thread, SetEvents(t) PROVE Goal
    BY <2>3, <1>1 DEF SetEvents, InFrame
  <2>4. CASE ClearPending
    <3>1. CASE UNCHANGED pending
      BY <2>4, <3>1, <1>1 DEF ClearPending, InFrame
    <3>2. ASSUME NEW u \in pending, pending' = pending \ {u} PROVE Goal
      <4>1. Result' = Result /\ UNCHANGED <<ldkShutdown, pc, woken>> /\ ldkShutdown
        BY <2>4 DEF ClearPending, Result, InFrame, ListInv
      <4>2. Alerts[u] > 0 /\ Alerts' = [Alerts EXCEPT ![u] = @ - 1]
        <5>0. \A v \in Thread : InFrame(v)' <=> InFrame(v)
          BY <4>1 DEF InFrame
        <5>1. Alerts[u] > 0 /\ Alerts'[u] = Alerts[u] - 1
          BY <3>2, <4>1, <5>0, AlertsOf, AlertsOfNext
        <5>2. \A v \in Thread \ {u} : Alerts'[v] = Alerts[v]
          BY <3>2, <4>1, <5>0, AlertsOf, AlertsOfNext
        <5> QED
          BY <5>1, <5>2, OneLess
      <4> QED
        BY <3>2, <4>1, <4>2 DEF Abstract!Next, Abstract!Discard
    <3> QED
      BY <2>4, <3>1, <3>2 DEF ClearPending
  <2> QED
    BY <1>10, <2>1, <2>2, <2>3, <2>4 DEF TerminateStep, WakeAllStep
<1>11. CASE UNCHANGED vars
  BY <1>11, <1>1 DEF vars, InFrame
<1> QED
  BY <1>4, <1>5, <1>6, <1>8, <1>9, <1>10, <1>11 DEF Next

(* The services of alert.c implement ThreadAlert: a wait returns ALERTED   *)
(* only by consuming an alert, a timeout never swallows one, and none is   *)
(* dropped before shutdown.                                                *)
THEOREM Refinement == Spec => ImplementsThreadAlert
<1>1. Init => Abstract!Init
  <2> SUFFICES ASSUME Init PROVE Abstract!Init
    OBVIOUS
  <2>1. Alerts = [t \in Thread |-> 0] /\ Result = [t \in Thread |-> "NONE"]
    BY DEF Init, Alerts, Result, InFrame
  <2> QED
    BY <2>1 DEF Init, Abstract!Init
<1>2. IInv /\ ListInv /\ [Next]_vars => [Abstract!Next]_(Abstract!avars)
  BY AbstractStep DEF Abstract!avars
<1> QED
  BY <1>1, <1>2, Invariance, ListInvariance, PTL
  DEF Spec, ImplementsThreadAlert, Abstract!Spec

-----------------------------------------------------------------------------
(***************************************************************************)
(* RtlWaitOnAddress and its wakers, on top of these services.              *)
(***************************************************************************)
HIDE DEF Thread, WaitPc, AlertPc, DerefPc, TermPc, Statuses, entryVars, drainVars, termVars, Goto

WLabels == {"out", "matched", "call", "in", "callAgain", "inAgain", "finish", "deref", "setDrained",
            "collect", "alert", "terminate", "wakeAlerts", "drain", "done"}
WaitArgs == [addr : Address \cup {AnyAddress}, value : Int, timeout : BOOLEAN]

(* The types of what waitonaddress.c adds to the state of alert.c.         *)
WTypes ==
  /\ mem \in [Address -> Int] /\ wpc \in [Thread -> WLabels] /\ wait \in [Thread -> WaitArgs]
  /\ queue \in Seq(Waiter) /\ wWoken \subseteq Waiter
  /\ wakeAddr \in [Thread -> Address \cup {AnyAddress}]
  /\ ids \in [Thread -> Seq(Waiter)] /\ idsFull \subseteq Thread

(* Where a thread is in alert.c and in waitonaddress.c fit together, and   *)
(* a waker holds thread ids only while it alerts them.                     *)
NestOK ==
  /\ \A t \in Thread :
       /\ pc[t] \in WaitPc \cup DerefPc => wpc[t] \in {"in", "inAgain"}
       /\ ids[t] # <<>> => wpc[t] = "alert"
       /\ wpc[t] \in {"matched", "call", "in"} => wait[t].addr \in Address
       /\ ~AllocMayFail => pc[t] # "retry"
  /\ tpc = "run" => wpc[Unloader] = "out"

(* What a waker takes from the list: threads of the list, and, unless it   *)
(* fills ThreadIds[], every one that waits on its address.                 *)
LEMMA Collected ==
  ASSUME queue \in Seq(Waiter), NEW a, NEW n \in Nat
  PROVE  /\ Prefix(Matching(a), n) \in Seq(Waiter)
         /\ ToSet(Prefix(Matching(a), n)) \subseteq ToSet(queue)
         /\ Len(Prefix(Matching(a), n)) # n =>
              \A i \in DOMAIN queue :
                wait[queue[i]].addr = a => queue[i] \in ToSet(Prefix(Matching(a), n))
<1> DEFINE P == {i \in DOMAIN queue : a = AnyAddress \/ wait[queue[i]].addr = a}
           M == Matching(a)
           m == IF Len(M) < n THEN Len(M) ELSE n
<1>1. P \in SUBSET (DOMAIN queue)
    OBVIOUS
<1>2. M = AtPositions(queue, P)
    BY DEF Matching
<1>3. /\ M \in Seq(Waiter) /\ DOMAIN M = 1..Cardinality(P)
      /\ \A k \in 1..Cardinality(P) : \E i \in P : M[k] = queue[i]
      /\ \A i \in P : \E k \in 1..Cardinality(P) : M[k] = queue[i]
  <2> HIDE DEF P, M
  <2> QED
      BY <1>1, <1>2, PositionsKept
<1>4. Prefix(M, n) = SubSeq(M, 1, m)
    BY DEF Prefix
<1>5. \A i \in DOMAIN queue : wait[queue[i]].addr = a => i \in P
    OBVIOUS
<1> HIDE DEF M, P
<1>6. Len(M) \in Nat /\ DOMAIN M = 1..Len(M) /\ m \in 0..Len(M) /\ m <= n
    BY <1>3
<1>9. m # n => m = Len(M)
    BY <1>6
<1> HIDE DEF m
<1>7. /\ SubSeq(M, 1, m) \in Seq(Waiter) /\ Len(SubSeq(M, 1, m)) = m
      /\ \A k \in 1..m : SubSeq(M, 1, m)[k] = M[k]
  <2>1. M \in Seq(Waiter) /\ m \in Int /\ m <= Len(M) /\ 0 <= m
      BY <1>3, <1>6
  <2> QED
      BY <2>1
<1>8. DOMAIN SubSeq(M, 1, m) = 1..m
    BY <1>7
<1>10. ToSet(SubSeq(M, 1, m)) = {M[k] : k \in 1..m}
    BY <1>7, <1>8 DEF ToSet
<1>11. \A k \in 1..m : k \in 1..Cardinality(P)
  <2>1. \A k \in 1..m : k \in 1..Len(M)
      BY <1>6
  <2> QED
      BY <1>3, <1>6, <2>1
<1>12. ToSet(Prefix(M, n)) \subseteq ToSet(queue)
  <2>1. ASSUME NEW k \in 1..m PROVE M[k] \in ToSet(queue)
    <3>1. PICK i \in P : M[k] = queue[i]
        BY <1>3, <1>11
    <3> QED
        BY <1>1, <3>1 DEF ToSet
  <2>2. ToSet(Prefix(M, n)) = {M[k] : k \in 1..m}
      BY <1>4, <1>10
  <2> QED
      BY <2>1, <2>2
<1>13. ASSUME Len(Prefix(M, n)) # n, NEW i \in DOMAIN queue, wait[queue[i]].addr = a
       PROVE  queue[i] \in ToSet(Prefix(M, n))
  <2>1. PICK k \in 1..Cardinality(P) : M[k] = queue[i]
      BY <1>3, <1>5, <1>13
  <2>2. k \in 1..m
      BY <1>3, <1>4, <1>6, <1>7, <1>9, <1>13
  <2> QED
      BY <1>4, <1>10, <2>1, <2>2
<1>14. Prefix(M, n) \in Seq(Waiter)
    BY <1>4, <1>7
<1> QED
    BY <1>12, <1>13, <1>14 DEF M

LEMMA Unlinked ==
  ASSUME queue \in Seq(Waiter), NEW S
  PROVE  Remaining(queue, S) \in Seq(Waiter) /\ ToSet(Remaining(queue, S)) = ToSet(queue) \ S
<1>1. \A s : ToSet(s) = Members(s)
    BY DEF ToSet, Members
<1> QED
    BY <1>1, RemainingMembers

(* Thread t goes to l in waitonaddress.c and the others stay.              *)
WMoves(t, l) == wpc'[t] = l /\ \A u \in Thread \ {t} : wpc'[u] = wpc[u]

LEMMA WMovesTo ==
  ASSUME WTypes, NEW t \in Thread, NEW l \in WLabels, WGoto(t, l)
  PROVE  WMoves(t, l) /\ wpc' \in [Thread -> WLabels]
BY DEF WTypes, WGoto, WMoves

LEMMA WThreads ==
  /\ Waiter \subseteq Thread /\ Alerter \subseteq Thread /\ Writers \subseteq Alerter
  /\ Unloader \in Thread /\ Unloader \in Alerter /\ Unloader \notin Waiter
BY UnloaderAssumption DEF Thread, Writers

LEMMA WLabelled ==
  /\ {"out", "matched", "call", "in", "callAgain", "inAgain", "finish"} \subseteq WLabels
  /\ {"deref", "setDrained", "collect", "alert"} \subseteq WLabels
  /\ {"terminate", "wakeAlerts", "drain", "done"} \subseteq WLabels
BY DEF WLabels

WFrames == <<mem, wait, queue, wWoken, wakeAddr, ids, idsFull>>

LEMMA WTypesKept ==
  ASSUME WTypes, wpc' \in [Thread -> WLabels], UNCHANGED WFrames PROVE WTypes'
BY DEF WTypes, WFrames

LEMMA WaitReturned ==
  ASSUME WTypes, NEW t \in Thread, WaitReturns(t)
  PROVE  /\ WMoves(t, "out") /\ wpc' \in [Thread -> WLabels] /\ wait' \in [Thread -> WaitArgs]
         /\ \A u \in Thread \ {t} : wait'[u] = wait[u]
<1>1. NoWait \in WaitArgs
    BY DEF NoWait, WaitArgs
<1>2. WGoto(t, "out")
    BY DEF WaitReturns
<1>3. wait' = [wait EXCEPT ![t] = NoWait]
    BY DEF WaitReturns
<1> QED
    BY <1>1, <1>2, <1>3, WMovesTo, WLabelled DEF WTypes

LEMMA WTypesStep == WTypes /\ [WOANext]_allVars => WTypes'
<1> SUFFICES ASSUME WTypes, [WOANext]_allVars PROVE WTypes'
    OBVIOUS
<1> USE DEF waitVars, wCountVars, driver, wakeVars
<1>1. CASE UNCHANGED allVars
    BY <1>1 DEF allVars, woaVars, WTypes
<1>2. ASSUME UNCHANGED woaVars PROVE WTypes'
    BY <1>2 DEF woaVars, WTypes
<1>3. ASSUME NEW t \in Waiter, NEW a \in Address, NEW b \in Timeouts, WaitBegins(t, a, mem[a], b)
      PROVE  WTypes'
  <2>1. t \in Thread /\ [addr |-> a, value |-> mem[a], timeout |-> b] \in WaitArgs
      BY WThreads, TimeoutAssumption DEF WTypes, WaitArgs
  <2>2. wpc' \in [Thread -> WLabels]
      BY <1>3, <2>1, WMovesTo, WLabelled DEF WaitBegins
  <2>3. wait' \in [Thread -> WaitArgs]
      BY <1>3, <2>1 DEF WaitBegins, WTypes
  <2> QED
      BY <1>3, <2>2, <2>3 DEF WaitBegins, WTypes
<1>4. ASSUME NEW t \in Waiter, WaitRefusedByShutdown(t) \/ WaitFindsChange(t) PROVE WTypes'
  <2>1. t \in Thread /\ WaitReturns(t) /\ UNCHANGED <<mem, queue, wWoken, wakeAddr, ids, idsFull>>
      BY <1>4, WThreads DEF WaitRefusedByShutdown, WaitFindsChange
  <2>2. wpc' \in [Thread -> WLabels] /\ wait' \in [Thread -> WaitArgs]
      BY <2>1, WaitReturned
  <2> QED
      BY <2>1, <2>2 DEF WTypes
<1>5. ASSUME NEW t \in Waiter, WaitBacksOut(t) \/ WaitCallsAlert(t) \/ WaitCallsAlertAgain(t) PROVE WTypes'
  <2>1. UNCHANGED WFrames
      BY <1>5 DEF WaitBacksOut, WaitCallsAlert, WaitCallsAlertAgain, WFrames
  <2>2. \E l \in WLabels : WGoto(t, l)
      BY <1>5, WLabelled DEF WaitBacksOut, WaitCallsAlert, WaitCallsAlertAgain
  <2> QED
      BY <2>1, <2>2, WMovesTo, WThreads, WTypesKept
<1>6. ASSUME NEW t \in Waiter, WaitRegisters(t) PROVE WTypes'
  <2>1. wpc' \in [Thread -> WLabels]
      BY <1>6, WMovesTo, WLabelled, WThreads DEF WaitRegisters
  <2>2. queue' \in Seq(Waiter)
      BY <1>6 DEF WaitRegisters, WTypes
  <2>3. UNCHANGED <<mem, wait, wWoken, wakeAddr, ids, idsFull>>
      BY <1>6 DEF WaitRegisters
  <2> QED
      BY <2>1, <2>2, <2>3 DEF WTypes
<1>7. ASSUME NEW t \in Waiter, WUnlinks(t) PROVE WTypes'
  <2>1. \E l \in WLabels : WGoto(t, l)
      BY <1>7, WLabelled DEF WUnlinks
  <2>2. wpc' \in [Thread -> WLabels]
      BY <2>1, WMovesTo, WThreads
  <2>3. queue' \in Seq(Waiter)
      BY <1>7, Unlinked DEF WUnlinks, WTypes
  <2>4. UNCHANGED <<mem, wait, wWoken, wakeAddr, ids, idsFull>>
      BY <1>7 DEF WUnlinks
  <2> QED
      BY <2>2, <2>3, <2>4 DEF WTypes
<1>8. ASSUME NEW t \in Waiter, WaitEnds(t) PROVE WTypes'
  <2>1. wpc' \in [Thread -> WLabels]
      BY <1>8, WMovesTo, WLabelled, WThreads DEF WaitEnds
  <2>2. wWoken' \subseteq Waiter
      BY <1>8 DEF WaitEnds, WTypes
  <2>3. UNCHANGED <<mem, wait, queue, wakeAddr, ids, idsFull>>
      BY <1>8 DEF WaitEnds
  <2> QED
      BY <2>1, <2>2, <2>3 DEF WTypes
<1>9. ASSUME NEW t \in Waiter, WDereference(t) \/ WSetDrained(t) PROVE WTypes'
  <2>1. UNCHANGED <<mem, queue, wWoken, wakeAddr, ids, idsFull>>
      BY <1>9 DEF WDereference, WSetDrained
  <2>2. CASE WaitReturns(t)
    <3>1. wpc' \in [Thread -> WLabels] /\ wait' \in [Thread -> WaitArgs]
        BY <2>2, WaitReturned, WThreads
    <3> QED
        BY <2>1, <3>1 DEF WTypes
  <2>3. CASE WGoto(t, "setDrained") /\ UNCHANGED wait
    <3>1. wpc' \in [Thread -> WLabels]
        BY <2>3, WMovesTo, WLabelled, WThreads
    <3> QED
        BY <2>1, <2>3, <3>1 DEF WTypes
  <2> QED
      BY <1>9, <2>2, <2>3 DEF WDereference, WSetDrained
<1>10. ASSUME NEW t \in Writers, NEW a \in Address, Write(t, a) PROVE WTypes'
  <2>1. wpc' \in [Thread -> WLabels] /\ t \in Thread
      BY <1>10, WMovesTo, WLabelled, WThreads DEF Write
  <2>2. mem' \in [Address -> Int] /\ wakeAddr' \in [Thread -> Address \cup {AnyAddress}]
    <3>1. mem[a] + 1 \in Int
        BY DEF WTypes
    <3> QED
        BY <1>10, <2>1, <3>1 DEF Write, WTypes
  <2>3. UNCHANGED <<wait, queue, wWoken, ids, idsFull>>
      BY <1>10 DEF Write
  <2> QED
      BY <2>1, <2>2, <2>3 DEF WTypes
<1>11. ASSUME NEW t \in Writers, NEW u \in Waiter, StrayAlert(t, u) PROVE WTypes'
  <2>1. UNCHANGED <<mem, wpc, wait, queue, wWoken, wakeAddr, ids, idsFull>>
      BY <1>11 DEF StrayAlert
  <2> QED
      BY <2>1 DEF WTypes
<1>12. ASSUME NEW t \in Alerter, WakeCollects(t) PROVE WTypes'
  <2>1. PICK n \in Nat : Collect(t, wakeAddr[t], n)
      BY <1>12, IdBatchAssumption DEF WakeCollects
  <2>2. PICK taken : taken = Prefix(Matching(wakeAddr[t]), n)
      OBVIOUS
  <2>3. taken \in Seq(Waiter) /\ ToSet(taken) \subseteq Waiter
    <3>1. taken \in Seq(Waiter) /\ ToSet(taken) \subseteq ToSet(queue)
        BY <2>2, Collected DEF WTypes
    <3> QED
        BY <3>1 DEF ToSet, WTypes
  <2>4. /\ ids' = [ids EXCEPT ![t] = taken] /\ idsFull' \subseteq idsFull \cup {t}
        /\ queue' = Remaining(queue, ToSet(taken)) /\ wWoken' = wWoken \cup ToSet(taken)
      BY <2>1, <2>2 DEF Collect
  <2>5. queue' \in Seq(Waiter)
      BY <2>4, Unlinked DEF WTypes
  <2>6. wpc' \in [Thread -> WLabels]
      BY <1>12, WMovesTo, WLabelled, WThreads DEF WakeCollects
  <2>7. ids' \in [Thread -> Seq(Waiter)] /\ idsFull' \subseteq Thread /\ wWoken' \subseteq Waiter
      BY <2>3, <2>4, WThreads DEF WTypes
  <2>8. UNCHANGED <<mem, wait, wakeAddr>>
      BY <1>12 DEF WakeCollects
  <2> QED
      BY <2>5, <2>6, <2>7, <2>8 DEF WTypes
<1>13. ASSUME NEW t \in Alerter, WakeAlerts(t) PROVE WTypes'
  <2>1. t \in Thread /\ ids[t] \in Seq(Waiter)
      BY WThreads DEF WTypes
  <2>2. Tail(ids[t]) \in Seq(Waiter)
      BY <1>13, <2>1 DEF WakeAlerts
  <2>3. ids' \in [Thread -> Seq(Waiter)]
      BY <1>13, <2>1, <2>2 DEF WakeAlerts, WTypes
  <2>4. UNCHANGED <<mem, wpc, wait, queue, wWoken, wakeAddr, idsFull>>
      BY <1>13 DEF WakeAlerts
  <2> QED
      BY <2>3, <2>4 DEF WTypes
<1>14. ASSUME NEW t \in Alerter, WakeEnds(t) PROVE WTypes'
  <2>1. \E l \in WLabels : WGoto(t, l)
      BY <1>14, WLabelled DEF WakeEnds
  <2>2. wpc' \in [Thread -> WLabels]
      BY <2>1, WMovesTo, WThreads
  <2>3. wakeAddr' \in [Thread -> Address \cup {AnyAddress}] /\ idsFull' \subseteq idsFull
      BY <1>14 DEF WakeEnds, WTypes
  <2>4. UNCHANGED <<mem, wait, queue, wWoken, ids>>
      BY <1>14 DEF WakeEnds
  <2> QED
      BY <2>2, <2>3, <2>4 DEF WTypes
<1>15. CASE UnloadBegins \/ WTerminate \/ WWakesAlerts \/ WWaitDrained
  <2>1. UNCHANGED WFrames
      BY <1>15 DEF UnloadBegins, WTerminate, WWakesAlerts, WWaitDrained, WFrames
  <2>2. \E l \in WLabels : WGoto(Unloader, l)
      BY <1>15, WLabelled DEF UnloadBegins, WTerminate, WWakesAlerts, WWaitDrained
  <2> QED
      BY <2>1, <2>2, WMovesTo, WThreads, WTypesKept
<1>16. CASE WTerminateAlerts \/ AlertTerminate \/ \E t \in Thread : AlertLayer(t) \/ AlertTimeout(t)
    BY <1>2, <1>16 DEF WTerminateAlerts, AlertTerminate, AlertLayer, AlertTimeout
<1>17. ASSUME NEW t \in Waiter, AlertTimeout(t) PROVE WTypes'
    BY <1>2, <1>17 DEF AlertTimeout
<1>18. ASSUME NEW t \in Waiter, WaitStep(t) PROVE WTypes'
    BY <1>4, <1>5, <1>6, <1>7, <1>8, <1>9, <1>18 DEF WaitStep
<1>19. ASSUME NEW t \in Alerter, WakeStep(t) PROVE WTypes'
    BY <1>12, <1>13, <1>14, <1>19 DEF WakeStep
<1> QED
    BY <1>1, <1>3, <1>10, <1>11, <1>15, <1>16, <1>17, <1>18, <1>19 DEF WOANext, WOAStep, UnloadStep

(* A step of these functions is at most one step of alert.c.               *)
LEMMA AlertBelow == WTypes /\ [WOANext]_allVars => [Next]_vars
<1> SUFFICES ASSUME WTypes, [WOANext]_allVars PROVE Next \/ UNCHANGED vars
    OBVIOUS
<1>1. CASE UNCHANGED allVars
    BY <1>1 DEF allVars
<1>2. ASSUME NEW t \in Waiter, NEW a \in Address, NEW b \in Timeouts, WaitBegins(t, a, mem[a], b)
      PROVE  UNCHANGED vars
    BY <1>2 DEF WaitBegins
<1>3. ASSUME NEW t \in Waiter, WaitStep(t) PROVE Next \/ UNCHANGED vars
  <2>1. CASE WaitCallsAlert(t) \/ WaitCallsAlertAgain(t)
    <3>1. \E b \in BOOLEAN : AlertWait(t, b)
      <4>1. wait[t].timeout \in BOOLEAN
        <5>1. wait[t] \in WaitArgs
            BY WThreads DEF WTypes
        <5> QED
            BY <5>1 DEF WaitArgs
      <4> QED
          BY <2>1, <4>1 DEF WaitCallsAlert, WaitCallsAlertAgain
    <3>2. WaitCall(t)
        BY <3>1 DEF AlertWait, WaitCall
    <3> QED
        BY <3>2 DEF Next
  <2>2. CASE ~(WaitCallsAlert(t) \/ WaitCallsAlertAgain(t))
      BY <1>3, <2>2 DEF WaitStep, WaitRefusedByShutdown, WaitFindsChange, WaitBacksOut, WaitRegisters,
                        WUnlinks, WaitEnds, WDereference, WSetDrained
  <2> QED
      BY <2>1, <2>2
<1>4. ASSUME NEW t \in Waiter, AlertTimeout(t) PROVE Next
    BY <1>4 DEF AlertTimeout, Next
<1>5. ASSUME NEW t \in Writers, NEW a \in Address, Write(t, a) PROVE UNCHANGED vars
    BY <1>5 DEF Write
<1>6. ASSUME NEW t \in Writers, NEW u \in Waiter, StrayAlert(t, u) PROVE Next
    BY <1>6, WThreads DEF StrayAlert, Next
<1>7. ASSUME NEW t \in Alerter, WakeStep(t) PROVE Next \/ UNCHANGED vars
  <2>1. CASE WakeAlerts(t)
    <3>1. ids[t] \in Seq(Waiter) /\ ids[t] # <<>>
        BY <2>1, WThreads DEF WakeAlerts, WTypes
    <3>2. Head(ids[t]) \in Waiter
        BY <3>1
    <3> QED
        BY <2>1, <3>2 DEF WakeAlerts, Next
  <2> QED
      BY <1>7, <2>1 DEF WakeStep, WakeCollects, WakeEnds
<1>8. ASSUME NEW t \in Thread, AlertLayer(t) PROVE Next
    BY <1>8 DEF AlertLayer, Next
<1>9. CASE UnloadBegins \/ UnloadStep \/ AlertTerminate
    BY <1>9 DEF UnloadBegins, UnloadStep, AlertTerminate, WTerminate, WWakesAlerts, WWaitDrained,
                WTerminateAlerts, Next, TerminateStep
<1> QED
    BY <1>1, <1>2, <1>3, <1>4, <1>5, <1>6, <1>7, <1>8, <1>9 DEF WOANext, WOAStep

LEMMA WTypesStart == WOAInit => WTypes
<1> SUFFICES ASSUME WOAInit PROVE WTypes
    OBVIOUS
<1>1. NoWait \in WaitArgs
    BY DEF NoWait, WaitArgs
<1>2. wpc \in [Thread -> WLabels] /\ wait \in [Thread -> WaitArgs]
    BY <1>1, WLabelled DEF WOAInit
<1>3. ids \in [Thread -> Seq(Waiter)] /\ queue \in Seq(Waiter)
    BY DEF WOAInit
<1> QED
    BY <1>2, <1>3 DEF WOAInit, WTypes

(* RtlWaitOnAddress and its wakers use the alert services only as their    *)
(* specification allows: what is proved of alert.c holds below them.       *)
THEOREM AlertsAsSpecified == WOASpec => Spec
<1>1. WOAInit => Init
    BY DEF WOAInit
<1> QED
    BY <1>1, WTypesStart, WTypesStep, AlertBelow, PTL DEF WOASpec, Spec

(* Steps of alert.c other than the call of a wait.                         *)
Other ==
  \/ UNCHANGED vars
  \/ \E t \in Thread : WaitTimesOut(t) \/ ThreadStep(t)
  \/ \E t \in Alerter, u \in Waiter : AlertCall(t, u)
  \/ RaiseShutdown \/ TerminateStep

InAlertWait(t) == pc[t] \in WaitPc \cup DerefPc
NoRetry(t) == ~AllocMayFail => pc[t] # "retry"

LEMMA OtherPc ==
  ASSUME TypeInt, Other, NEW t \in Thread
  PROVE  /\ InAlertWait(t)' => InAlertWait(t)
         /\ NoRetry(t) => NoRetry(t)'
         /\ tpc' = "run" => tpc = "run"
<1> USE DEF InAlertWait, NoRetry, WaitPc, DerefPc, AlertPc, TermPc, TypeInt, Goto, entryVars, drainVars, termVars
<1>1. CASE UNCHANGED vars
    BY <1>1 DEF vars
<1>2. ASSUME NEW u \in Thread, WaitTimesOut(u)
      PROVE  (InAlertWait(t)' => InAlertWait(t)) /\ (NoRetry(t) => NoRetry(t)') /\ UNCHANGED tpc
    BY <1>2 DEF WaitTimesOut
<1>3. ASSUME NEW u \in Thread, ThreadStep(u)
      PROVE  (InAlertWait(t)' => InAlertWait(t)) /\ (NoRetry(t) => NoRetry(t)') /\ UNCHANGED tpc
  <2>1. CASE WaitSatisfied(u)
      BY <2>1 DEF WaitSatisfied
  <2>2. CASE WaitUnlinks(u)
      BY <2>2 DEF WaitUnlinks, LeaveFrame
  <2>3. CASE WaitAgain(u)
      BY <2>3 DEF WaitAgain, LeaveFrame
  <2>4. CASE DereferenceWait(u) \/ SetDrained(u)
      BY <2>4 DEF DereferenceWait, SetDrained
  <2>5. CASE AlertAllocates(u)
      BY <2>5 DEF AlertAllocates
  <2>6. CASE AlertRetries(u) \/ AlertPends(u) \/ AlertSetsEvent(u)
      BY <2>6 DEF AlertRetries, AlertPends, AlertSetsEvent, LeaveAlert
  <2> QED
      BY <1>3, <2>1, <2>2, <2>3, <2>4, <2>5, <2>6 DEF ThreadStep
<1>4. ASSUME NEW u \in Alerter, NEW v \in Waiter, AlertCall(u, v)
      PROVE  (InAlertWait(t)' => InAlertWait(t)) /\ (NoRetry(t) => NoRetry(t)') /\ UNCHANGED tpc
    BY <1>4, WThreads DEF AlertCall, AlertFindsWaiter, AlertFindsNone
<1>5. CASE RaiseShutdown \/ TerminateStep
  <2>1. UNCHANGED pc /\ tpc' # "run"
      BY <1>5 DEF RaiseShutdown, TerminateStep, WakeAllForAddressList, BeginTerminate, WakeAllStep,
                  CollectEvents, SetEvents, AfterBatch, WaitDrained, ClearPending
  <2> QED
      BY <2>1
<1> QED
    BY <1>1, <1>2, <1>3, <1>4, <1>5 DEF Other

LEMMA WaitCallPc ==
  ASSUME TypeInt, NEW t \in Thread, NEW b, AlertWait(t, b)
  PROVE  /\ \A u \in Thread \ {t} : UNCHANGED <<pc[u], status[u]>>
         /\ NoRetry(t)' /\ UNCHANGED tpc /\ pc[t] = "idle"
<1> USE DEF NoRetry, TypeInt, Goto, entryVars, drainVars, termVars, AlertWait
<1>1. CASE WaitRefused(t)
    BY <1>1 DEF WaitRefused
<1>2. CASE WaitTakesPending(t)
    BY <1>2 DEF WaitTakesPending
<1>3. CASE WaitBlocks(t, b)
    BY <1>3 DEF WaitBlocks
<1> QED
    BY <1>1, <1>2, <1>3

NestOf(t) ==
  /\ InAlertWait(t) => wpc[t] \in {"in", "inAgain"}
  /\ ids[t] # <<>> => wpc[t] = "alert"
  /\ wpc[t] \in {"matched", "call", "in"} => wait[t].addr \in Address
  /\ NoRetry(t)

LEMMA NestParts ==
  /\ NestOK <=> (\A t \in Thread : NestOf(t)) /\ (tpc = "run" => wpc[Unloader] = "out")
  /\ NestOK' <=> (\A t \in Thread : NestOf(t)') /\ (tpc' = "run" => wpc'[Unloader] = "out")
BY DEF NestOK, NestOf, InAlertWait, NoRetry

LEMMA NestKept ==
  ASSUME NestOK, NEW t \in Thread, NEW l, WMoves(t, l),
         \A u \in Thread \ {t} : InAlertWait(u)' => InAlertWait(u),
         \A u \in Thread : NoRetry(u) => NoRetry(u)',
         l \in {"in", "inAgain"} \/ ~InAlertWait(t)',
         \A u \in Thread \ {t} : ids'[u] = ids[u] /\ wait'[u] = wait[u],
         ids'[t] # <<>> => l = "alert",
         l \in {"matched", "call", "in"} => wait'[t].addr \in Address,
         tpc' = "run" => tpc = "run", t = Unloader => tpc' # "run"
  PROVE  NestOK'
<1>1. ASSUME NEW u \in Thread \ {t} PROVE NestOf(u)'
  <2>1. wpc'[u] = wpc[u] /\ NestOf(u)
      BY NestParts DEF WMoves
  <2> QED
      BY <2>1 DEF NestOf
<1>2. NestOf(t)'
  <2>1. wpc'[t] = l /\ NoRetry(t)
      BY NestParts DEF WMoves, NestOf
  <2> QED
      BY <2>1 DEF NestOf
<1>3. tpc' = "run" => wpc'[Unloader] = "out"
    BY NestParts, WThreads DEF WMoves
<1> QED
    BY <1>1, <1>2, <1>3, NestParts

LEMMA NestStill ==
  ASSUME NestOK, WTypes, \A u \in Thread : InAlertWait(u)' => InAlertWait(u),
         \A u \in Thread : NoRetry(u) => NoRetry(u)', UNCHANGED <<wpc, wait>>,
         \A u \in Thread : ids'[u] # <<>> => ids[u] # <<>>, tpc' = "run" => tpc = "run"
  PROVE  NestOK'
<1>1. ASSUME NEW u \in Thread PROVE NestOf(u)'
  <2>1. NestOf(u)
      BY NestParts
  <2> QED
      BY <2>1 DEF NestOf
<1> QED
    BY <1>1, NestParts

LEMMA NestStep == TypeInt /\ WTypes /\ NestOK /\ [WOANext]_allVars => NestOK'
<1> SUFFICES ASSUME TypeInt, WTypes, NestOK, [WOANext]_allVars PROVE NestOK'
    OBVIOUS
<1> USE DEF waitVars, wCountVars, driver, wakeVars
<1>n. ASSUME NEW t \in Thread PROVE NestOf(t)
    BY NestParts
<1>0. ASSUME UNCHANGED vars
      PROVE  /\ \A u \in Thread : InAlertWait(u)' => InAlertWait(u)
             /\ \A u \in Thread : NoRetry(u) => NoRetry(u)'
             /\ UNCHANGED <<pc, tpc>>
    BY <1>0 DEF vars, InAlertWait, NoRetry
<1>o. ASSUME Other
      PROVE  /\ \A u \in Thread : InAlertWait(u)' => InAlertWait(u)
             /\ \A u \in Thread : NoRetry(u) => NoRetry(u)'
             /\ tpc' = "run" => tpc = "run"
  <2>1. Unloader \in Thread
      BY WThreads
  <2> QED
      BY <1>o, <2>1, OtherPc
<1>1. CASE UNCHANGED allVars
    BY <1>0, <1>1, NestStill DEF allVars, woaVars
<1>2. ASSUME UNCHANGED woaVars, Other PROVE NestOK'
    BY <1>2, <1>o, NestStill DEF woaVars
<1>3. ASSUME NEW t \in Waiter, NEW a \in Address, NEW b \in Timeouts, WaitBegins(t, a, mem[a], b)
      PROVE  NestOK'
  <2>1. t \in Thread /\ t # Unloader /\ UNCHANGED vars /\ UNCHANGED ids /\ wpc[t] = "out" /\ pc[t] = "idle"
      BY <1>3, WThreads DEF WaitBegins
  <2>2. WMoves(t, "matched")
      BY <1>3, <2>1, WMovesTo, WLabelled DEF WaitBegins
  <2>3. wait'[t].addr = a /\ \A u \in Thread \ {t} : wait'[u] = wait[u]
      BY <1>3, <2>1 DEF WaitBegins, WTypes
  <2>4. ids[t] = <<>>
      BY <1>n, <2>1 DEF NestOf
  <2>5. ~InAlertWait(t)'
      BY <1>0, <2>1 DEF InAlertWait, WaitPc, DerefPc
  <2> QED
      BY <1>0, <2>1, <2>2, <2>3, <2>4, <2>5, NestKept
<1>4. ASSUME NEW t \in Waiter, WaitRefusedByShutdown(t) \/ WaitFindsChange(t) PROVE NestOK'
  <2>1. t \in Thread /\ t # Unloader /\ WaitReturns(t) /\ UNCHANGED vars /\ UNCHANGED ids /\ wpc[t] = "matched"
      BY <1>4, WThreads DEF WaitRefusedByShutdown, WaitFindsChange
  <2>2. WMoves(t, "out") /\ \A u \in Thread \ {t} : wait'[u] = wait[u]
      BY <2>1, WaitReturned
  <2>3. ids[t] = <<>> /\ ~InAlertWait(t)'
      BY <1>0, <1>n, <2>1 DEF NestOf
  <2> QED
      BY <1>0, <2>1, <2>2, <2>3, NestKept
<1>5. ASSUME NEW t \in Waiter, WaitBacksOut(t) \/ WaitRegisters(t) PROVE NestOK'
  <2>1. t \in Thread /\ t # Unloader /\ UNCHANGED vars /\ UNCHANGED <<ids, wait>> /\ wpc[t] = "matched"
      BY <1>5, WThreads DEF WaitBacksOut, WaitRegisters
  <2>2. PICK l \in {"deref", "call"} : WMoves(t, l)
      BY <1>5, <2>1, WMovesTo, WLabelled DEF WaitBacksOut, WaitRegisters
  <2>3. ids[t] = <<>> /\ ~InAlertWait(t)' /\ wait[t].addr \in Address
      BY <1>0, <1>n, <2>1 DEF NestOf
  <2> QED
      BY <1>0, <2>1, <2>2, <2>3, NestKept
<1>6. ASSUME NEW t \in Waiter, WaitCallsAlert(t) \/ WaitCallsAlertAgain(t) PROVE NestOK'
  <2>1. t \in Thread /\ t # Unloader /\ UNCHANGED <<ids, wait>>
      BY <1>6, WThreads DEF WaitCallsAlert, WaitCallsAlertAgain
  <2>2. PICK l \in {"in", "inAgain"} : WMoves(t, l) /\ (l = "in" => wpc[t] = "call") /\ wpc[t] \in {"call", "callAgain"}
      BY <1>6, <2>1, WMovesTo, WLabelled DEF WaitCallsAlert, WaitCallsAlertAgain
  <2>3. PICK b : AlertWait(t, b)
      BY <1>6 DEF WaitCallsAlert, WaitCallsAlertAgain
  <2>4. /\ \A u \in Thread \ {t} : UNCHANGED <<pc[u], status[u]>>
        /\ NoRetry(t)' /\ UNCHANGED tpc /\ pc[t] = "idle"
      BY <2>1, <2>3, WaitCallPc
  <2>5. /\ \A u \in Thread \ {t} : InAlertWait(u)' => InAlertWait(u)
        /\ \A u \in Thread : NoRetry(u) => NoRetry(u)'
      BY <2>4 DEF InAlertWait, NoRetry
  <2>6. ids[t] = <<>> /\ (wpc[t] = "call" => wait[t].addr \in Address)
      BY <1>n, <2>1, <2>2 DEF NestOf
  <2> QED
      BY <2>1, <2>2, <2>4, <2>5, <2>6, NestKept
<1>7. ASSUME NEW t \in Waiter, WUnlinks(t) \/ WaitEnds(t) PROVE NestOK'
  <2>1. /\ t \in Thread /\ t # Unloader /\ UNCHANGED vars /\ UNCHANGED <<ids, wait>>
        /\ wpc[t] = "finish" \/ (wpc[t] \in {"in", "inAgain"} /\ pc[t] = "idle")
      BY <1>7, WThreads DEF WUnlinks, WaitEnds
  <2>2. PICK l \in {"callAgain", "finish", "deref"} : WMoves(t, l)
      BY <1>7, <2>1, WMovesTo, WLabelled DEF WUnlinks, WaitEnds
  <2>3. ids[t] = <<>>
      BY <1>n, <2>1 DEF NestOf
  <2>4. ~InAlertWait(t)
      BY <1>n, <2>1 DEF NestOf, InAlertWait, WaitPc, DerefPc
  <2> QED
      BY <1>0, <2>1, <2>2, <2>3, <2>4, NestKept
<1>8. ASSUME NEW t \in Waiter, WDereference(t) \/ WSetDrained(t) PROVE NestOK'
  <2>1. t \in Thread /\ t # Unloader /\ UNCHANGED vars /\ UNCHANGED ids /\ wpc[t] \in {"deref", "setDrained"}
      BY <1>8, WThreads DEF WDereference, WSetDrained
  <2>2. ids[t] = <<>> /\ ~InAlertWait(t)
      BY <1>n, <2>1 DEF NestOf
  <2>3. PICK l \in {"setDrained", "out"} : WMoves(t, l) /\ \A u \in Thread \ {t} : wait'[u] = wait[u]
    <3>1. CASE WaitReturns(t)
        BY <2>1, <3>1, WaitReturned
    <3>2. CASE WGoto(t, "setDrained") /\ UNCHANGED wait
        BY <2>1, <3>2, WMovesTo, WLabelled
    <3> QED
        BY <1>8, <3>1, <3>2 DEF WDereference, WSetDrained
  <2> QED
      BY <1>0, <2>1, <2>2, <2>3, NestKept
<1>9. ASSUME NEW t \in Writers, NEW a \in Address, Write(t, a) PROVE NestOK'
  <2>1. t \in Thread /\ t # Unloader /\ UNCHANGED vars /\ UNCHANGED <<ids, wait>> /\ wpc[t] = "out"
      BY <1>9, WThreads DEF Write, Writers
  <2>2. WMoves(t, "collect")
      BY <1>9, <2>1, WMovesTo, WLabelled DEF Write
  <2>3. ids[t] = <<>> /\ ~InAlertWait(t)
      BY <1>n, <2>1 DEF NestOf
  <2> QED
      BY <1>0, <2>1, <2>2, <2>3, NestKept
<1>10. ASSUME NEW t \in Writers, NEW u \in Waiter, StrayAlert(t, u) PROVE NestOK'
  <2>1. AlertCall(t, u) /\ UNCHANGED <<wpc, wait, ids>> /\ t \in Alerter
      BY <1>10, WThreads DEF StrayAlert
  <2>2. Other
      BY <2>1 DEF Other
  <2> QED
      BY <1>o, <2>1, <2>2, NestStill
<1>11. ASSUME NEW t \in Alerter, WakeCollects(t) \/ WakeEnds(t) PROVE NestOK'
  <2>1. t \in Thread /\ UNCHANGED vars /\ UNCHANGED wait /\ wpc[t] \in {"collect", "alert"}
      BY <1>11, WThreads DEF WakeCollects, WakeEnds
  <2>2. PICK l \in {"collect", "alert", "wakeAlerts", "out"} :
          WMoves(t, l) /\ (ids'[t] # <<>> => l = "alert") /\ \A u \in Thread \ {t} : ids'[u] = ids[u]
    <3>1. CASE WakeCollects(t)
      <4>1. \A u \in Thread \ {t} : ids'[u] = ids[u]
          BY <3>1 DEF WakeCollects, Collect, WTypes
      <4> QED
          BY <2>1, <3>1, <4>1, WMovesTo, WLabelled DEF WakeCollects
    <3>2. CASE WakeEnds(t)
      <4>1. UNCHANGED ids /\ ids[t] = <<>>
          BY <3>2 DEF WakeEnds
      <4>2. \E l \in {"collect", "wakeAlerts", "out"} : WGoto(t, l)
          BY <3>2 DEF WakeEnds
      <4> QED
          BY <2>1, <4>1, <4>2, WMovesTo, WLabelled
    <3> QED
        BY <1>11, <3>1, <3>2
  <2>3. ~InAlertWait(t) /\ (t = Unloader => tpc # "run")
      BY <1>n, <2>1, NestParts DEF NestOf
  <2> QED
      BY <1>0, <2>1, <2>2, <2>3, NestKept
<1>12. ASSUME NEW t \in Alerter, WakeAlerts(t) PROVE NestOK'
  <2>1. AlertCall(t, Head(ids[t])) /\ UNCHANGED <<wpc, wait>> /\ ids[t] # <<>> /\ t \in Thread
      BY <1>12, WThreads DEF WakeAlerts
  <2>2. ids[t] \in Seq(Waiter)
      BY <2>1 DEF WTypes
  <2>3. Head(ids[t]) \in Waiter
      BY <2>1, <2>2
  <2>4. Other
      BY <2>1, <2>3 DEF Other
  <2>5. \A u \in Thread : ids'[u] # <<>> => ids[u] # <<>>
      BY <1>12, <2>1 DEF WakeAlerts, WTypes
  <2> QED
      BY <1>o, <2>1, <2>4, <2>5, NestStill
<1>13. CASE UnloadBegins \/ WWakesAlerts
  <2>1. Other /\ UNCHANGED pc /\ UNCHANGED <<ids, wait>> /\ tpc' # "run"
      BY <1>13 DEF UnloadBegins, WWakesAlerts, Other, TerminateStep, RaiseShutdown, WakeAllForAddressList
  <2>2. wpc[Unloader] \in {"out", "wakeAlerts"}
      BY <1>13, NestParts DEF UnloadBegins, WWakesAlerts, RaiseShutdown
  <2>3. PICK l \in {"terminate", "drain"} : WMoves(Unloader, l)
      BY <1>13, WMovesTo, WLabelled, WThreads DEF UnloadBegins, WWakesAlerts
  <2>4. ids[Unloader] = <<>> /\ ~InAlertWait(Unloader)
      BY <1>n, <2>2, WThreads DEF NestOf
  <2>5. ~InAlertWait(Unloader)'
      BY <2>1, <2>4 DEF InAlertWait
  <2> QED
      BY <1>o, <2>1, <2>3, <2>4, <2>5, NestKept, WThreads
<1>14. CASE WTerminate \/ WWaitDrained
  <2>1. UNCHANGED vars /\ UNCHANGED <<ids, wait>> /\ wpc[Unloader] \in {"terminate", "drain"}
      BY <1>14 DEF WTerminate, WWaitDrained
  <2>2. PICK l \in {"collect", "done"} : WMoves(Unloader, l)
      BY <1>14, WMovesTo, WLabelled, WThreads DEF WTerminate, WWaitDrained
  <2>3. ids[Unloader] = <<>> /\ ~InAlertWait(Unloader) /\ tpc # "run"
      BY <1>n, <2>1, WThreads, NestParts DEF NestOf
  <2> QED
      BY <1>0, <2>1, <2>2, <2>3, NestKept, WThreads
<1>15. CASE WTerminateAlerts \/ AlertTerminate
  <2>1. Other /\ UNCHANGED woaVars
      BY <1>15 DEF WTerminateAlerts, AlertTerminate, Other, TerminateStep
  <2> QED
      BY <1>2, <2>1
<1>16. ASSUME NEW t \in Thread, AlertLayer(t) \/ AlertTimeout(t) PROVE NestOK'
  <2>1. Other /\ UNCHANGED woaVars
      BY <1>16 DEF AlertLayer, AlertTimeout, Other
  <2> QED
      BY <1>2, <2>1
<1>17. ASSUME NEW t \in Waiter, WaitStep(t) \/ AlertTimeout(t) PROVE NestOK'
    BY <1>4, <1>5, <1>6, <1>7, <1>8, <1>16, <1>17, WThreads DEF WaitStep
<1>18. ASSUME NEW t \in Alerter, WakeStep(t) PROVE NestOK'
    BY <1>11, <1>12, <1>18 DEF WakeStep
<1> QED
    BY <1>1, <1>3, <1>9, <1>10, <1>13, <1>14, <1>15, <1>16, <1>17, <1>18 DEF WOANext, WOAStep, UnloadStep

(* The list and the flags of the entries, action by action.                *)
LEMMA ListKept ==
  ASSUME WaitListSafe, WTypes, NEW t \in Thread, NEW l, WMoves(t, l), UNCHANGED <<queue, wInList, wWoken>>,
         t \in wInList => l \in {"call", "in"}, t \in wWoken => l \in Registered
  PROVE  WaitListSafe'
<1>1. wInList \subseteq Thread /\ wWoken \subseteq Thread
    BY WThreads DEF WaitListSafe, ToSet, WTypes
<1>2. \A u \in wInList : wpc'[u] \in {"call", "in"}
    BY <1>1 DEF WaitListSafe, WMoves
<1>3. \A u \in wWoken : wpc'[u] \in Registered
    BY <1>1 DEF WaitListSafe, WMoves, InWait
<1>4. ToSet(queue) = wInList /\ \A u \in wInList : u \notin wWoken
    BY DEF WaitListSafe
<1>5. ToSet(queue)' = ToSet(queue)
    BY DEF ToSet
<1> QED
    BY <1>2, <1>3, <1>4, <1>5 DEF WaitListSafe, InWait

LEMMA ListStep == WTypes /\ WaitListSafe /\ NestOK /\ [WOANext]_allVars => WaitListSafe'
<1> SUFFICES ASSUME WTypes, WaitListSafe, NestOK, [WOANext]_allVars PROVE WaitListSafe'
    OBVIOUS
<1> USE DEF waitVars, wCountVars, driver, wakeVars
<1>0. /\ ToSet(queue) = wInList
      /\ \A u \in wInList : u \in Thread /\ wpc[u] \in {"call", "in"} /\ u \notin wWoken
      /\ \A u \in wWoken : u \in Thread /\ wpc[u] \in Registered
  <2>1. \A u \in ToSet(queue) : u \in Waiter
      BY DEF ToSet, WTypes
  <2> QED
      BY <2>1, WThreads DEF WaitListSafe, InWait, WTypes
<1>1. ASSUME UNCHANGED <<wpc, queue, wInList, wWoken>> PROVE WaitListSafe'
    BY <1>1 DEF WaitListSafe, InWait, ToSet
<1>2. ASSUME NEW t \in Thread, NEW l, WMoves(t, l), UNCHANGED <<queue, wInList, wWoken>>,
             wpc[t] \in {"out", "matched", "deref", "setDrained", "collect", "alert", "terminate",
                         "wakeAlerts", "drain", "done"}
      PROVE  WaitListSafe'
  <2>1. t \notin wInList /\ t \notin wWoken
      BY <1>0, <1>2 DEF Registered
  <2> QED
      BY <1>2, <2>1, ListKept
<1>3. ASSUME NEW t \in Waiter, NEW a \in Address, NEW b \in Timeouts, WaitBegins(t, a, mem[a], b)
      PROVE  WaitListSafe'
  <2>1. WMoves(t, "matched") /\ t \in Thread
      BY <1>3, WMovesTo, WLabelled, WThreads DEF WaitBegins
  <2> QED
      BY <1>2, <1>3, <2>1 DEF WaitBegins
<1>4. ASSUME NEW t \in Waiter, WaitRefusedByShutdown(t) \/ WaitFindsChange(t) PROVE WaitListSafe'
  <2>1. WMoves(t, "out") /\ t \in Thread
      BY <1>4, WaitReturned, WThreads DEF WaitRefusedByShutdown, WaitFindsChange
  <2> QED
      BY <1>2, <1>4, <2>1 DEF WaitRefusedByShutdown, WaitFindsChange
<1>5. ASSUME NEW t \in Waiter, WaitBacksOut(t) PROVE WaitListSafe'
  <2>1. WMoves(t, "deref") /\ t \in Thread
      BY <1>5, WMovesTo, WLabelled, WThreads DEF WaitBacksOut
  <2> QED
      BY <1>2, <1>5, <2>1 DEF WaitBacksOut
<1>6. ASSUME NEW t \in Waiter, WaitRegisters(t) PROVE WaitListSafe'
  <2>1. WMoves(t, "call") /\ t \in Thread /\ wpc[t] = "matched"
      BY <1>6, WMovesTo, WLabelled, WThreads DEF WaitRegisters
  <2>2. queue' = Append(queue, t) /\ wInList' = wInList \cup {t} /\ UNCHANGED wWoken
      BY <1>6 DEF WaitRegisters
  <2>3. ToSet(queue)' = ToSet(queue) \cup {t}
    <3>1. Members(Append(queue, t)) = Members(queue) \cup {t}
        BY AppendMembers DEF WTypes
    <3> QED
        BY <2>2, <3>1 DEF Members, ToSet
  <2>4. t \notin wWoken /\ t \notin wInList
      BY <1>0, <2>1 DEF Registered
  <2>5. \A u \in wInList' : wpc'[u] \in {"call", "in"} /\ u \notin wWoken'
      BY <1>0, <2>1, <2>2, <2>4 DEF WMoves
  <2>6. \A u \in wWoken' : wpc'[u] \in Registered
      BY <1>0, <2>1, <2>2, <2>4 DEF WMoves
  <2> QED
      BY <1>0, <2>2, <2>3, <2>5, <2>6 DEF WaitListSafe, InWait
<1>7. ASSUME NEW t \in Waiter, WaitCallsAlert(t) \/ WaitCallsAlertAgain(t) PROVE WaitListSafe'
  <2>1. PICK l \in {"in", "inAgain"} : WMoves(t, l) /\ wpc[t] = IF l = "in" THEN "call" ELSE "callAgain"
      BY <1>7, WMovesTo, WLabelled, WThreads DEF WaitCallsAlert, WaitCallsAlertAgain
  <2>2. (t \in wInList => l \in {"call", "in"}) /\ l \in Registered
      BY <1>0, <2>1 DEF Registered
  <2> QED
      BY <1>7, <2>1, <2>2, ListKept, WThreads DEF WaitCallsAlert, WaitCallsAlertAgain
<1>8. ASSUME NEW t \in Waiter, WUnlinks(t) PROVE WaitListSafe'
  <2>1. PICK l \in {"callAgain", "finish"} : WMoves(t, l)
      BY <1>8, WMovesTo, WLabelled, WThreads DEF WUnlinks
  <2>2. wInList' = wInList \ {t} /\ UNCHANGED wWoken
      BY <1>8 DEF WUnlinks
  <2>3. ToSet(queue)' = ToSet(queue) \ {t}
    <3>1. CASE t \in wInList
      <4>1. queue' = Remaining(queue, {t})
          BY <1>8, <3>1 DEF WUnlinks
      <4>2. ToSet(Remaining(queue, {t})) = ToSet(queue) \ {t}
          BY Unlinked DEF WTypes
      <4> QED
          BY <4>1, <4>2 DEF ToSet
    <3>2. CASE t \notin wInList
      <4>1. queue' = queue
          BY <1>8, <3>2 DEF WUnlinks
      <4> QED
          BY <1>0, <3>2, <4>1 DEF ToSet
    <3> QED
        BY <3>1, <3>2
  <2>4. \A u \in wInList' : wpc'[u] \in {"call", "in"} /\ u \notin wWoken'
      BY <1>0, <2>1, <2>2 DEF WMoves
  <2>5. \A u \in wWoken' : wpc'[u] \in Registered
      BY <1>0, <2>1, <2>2 DEF WMoves, Registered
  <2> QED
      BY <1>0, <2>2, <2>3, <2>4, <2>5 DEF WaitListSafe, InWait
<1>9. ASSUME NEW t \in Waiter, WaitEnds(t) PROVE WaitListSafe'
  <2>1. WMoves(t, "deref") /\ wpc[t] \in {"finish", "inAgain"}
      BY <1>9, WMovesTo, WLabelled, WThreads DEF WaitEnds
  <2>2. wWoken' = wWoken \ {t} /\ UNCHANGED <<queue, wInList>>
      BY <1>9 DEF WaitEnds
  <2>3. \A u \in wInList' : wpc'[u] \in {"call", "in"} /\ u \notin wWoken'
      BY <1>0, <2>1, <2>2 DEF WMoves
  <2>4. \A u \in wWoken' : wpc'[u] \in Registered
      BY <1>0, <2>1, <2>2 DEF WMoves
  <2>5. ToSet(queue)' = wInList'
      BY <1>0, <2>2 DEF ToSet
  <2> QED
      BY <2>3, <2>4, <2>5 DEF WaitListSafe, InWait
<1>10. ASSUME NEW t \in Waiter, WDereference(t) \/ WSetDrained(t) PROVE WaitListSafe'
  <2>1. PICK l : WMoves(t, l)
    <3>1. CASE WaitReturns(t)
        BY <3>1, WaitReturned, WThreads
    <3>2. CASE WGoto(t, "setDrained")
        BY <3>2, WMovesTo, WLabelled, WThreads
    <3> QED
        BY <1>10, <3>1, <3>2 DEF WDereference, WSetDrained
  <2> QED
      BY <1>2, <1>10, <2>1, WThreads DEF WDereference, WSetDrained
<1>11. ASSUME NEW t \in Writers, NEW a \in Address, Write(t, a) PROVE WaitListSafe'
  <2>1. WMoves(t, "collect") /\ t \in Thread
      BY <1>11, WMovesTo, WLabelled, WThreads DEF Write
  <2> QED
      BY <1>2, <1>11, <2>1 DEF Write
<1>12. ASSUME NEW t \in Alerter, WakeCollects(t) PROVE WaitListSafe'
  <2>1. PICK n \in Nat : Collect(t, wakeAddr[t], n)
      BY <1>12, IdBatchAssumption DEF WakeCollects
  <2>2. PICK S : /\ S \subseteq ToSet(queue) /\ queue' = Remaining(queue, S)
                 /\ wInList' = wInList \ S /\ wWoken' = wWoken \cup S
    <3>1. ToSet(Prefix(Matching(wakeAddr[t]), n)) \subseteq ToSet(queue)
        BY Collected DEF WTypes
    <3> QED
        BY <2>1, <3>1 DEF Collect
  <2>3. ToSet(queue)' = ToSet(queue) \ S
    <3>1. ToSet(Remaining(queue, S)) = ToSet(queue) \ S
        BY Unlinked DEF WTypes
    <3> QED
        BY <2>2, <3>1 DEF ToSet
  <2>4. WMoves(t, "alert") /\ wpc[t] = "collect"
      BY <1>12, WMovesTo, WLabelled, WThreads DEF WakeCollects
  <2>5. \A u \in wInList' : wpc'[u] \in {"call", "in"} /\ u \notin wWoken'
      BY <1>0, <2>2, <2>4 DEF WMoves
  <2>6. \A u \in wWoken' : wpc'[u] \in Registered
      BY <1>0, <2>2, <2>4 DEF WMoves, Registered
  <2> QED
      BY <1>0, <2>2, <2>3, <2>5, <2>6 DEF WaitListSafe, InWait
<1>13. ASSUME NEW t \in Alerter, WakeEnds(t) PROVE WaitListSafe'
  <2>1. \E l \in {"collect", "wakeAlerts", "out"} : WGoto(t, l)
      BY <1>13 DEF WakeEnds
  <2>2. PICK l : WMoves(t, l)
      BY <2>1, WMovesTo, WLabelled, WThreads
  <2> QED
      BY <1>2, <1>13, <2>2, WThreads DEF WakeEnds
<1>14. CASE UnloadBegins \/ WTerminate \/ WWakesAlerts \/ WWaitDrained
  <2>1. PICK l \in {"terminate", "collect", "drain", "done"} : WMoves(Unloader, l)
      BY <1>14, WMovesTo, WLabelled, WThreads DEF UnloadBegins, WTerminate, WWakesAlerts, WWaitDrained
  <2>2. wpc[Unloader] \in {"out", "terminate", "wakeAlerts", "drain"}
      BY <1>14, NestParts DEF UnloadBegins, WTerminate, WWakesAlerts, WWaitDrained, RaiseShutdown
  <2>3. UNCHANGED <<queue, wInList, wWoken>>
      BY <1>14 DEF UnloadBegins, WTerminate, WWakesAlerts, WWaitDrained
  <2> QED
      BY <1>2, <2>1, <2>2, <2>3, WThreads
<1>15. CASE \/ UNCHANGED allVars \/ WTerminateAlerts \/ AlertTerminate
            \/ \E t \in Thread : AlertLayer(t) \/ AlertTimeout(t)
  <2>1. UNCHANGED woaVars
      BY <1>15 DEF allVars, WTerminateAlerts, AlertTerminate, AlertLayer, AlertTimeout
  <2> QED
      BY <1>1, <2>1 DEF woaVars
<1>16. ASSUME NEW t \in Alerter, WakeAlerts(t) PROVE WaitListSafe'
    BY <1>1, <1>16 DEF WakeAlerts
<1>17. ASSUME NEW t \in Writers, NEW u \in Waiter, StrayAlert(t, u) PROVE WaitListSafe'
    BY <1>1, <1>17 DEF StrayAlert
<1>18. ASSUME NEW t \in Waiter, WaitStep(t) \/ AlertTimeout(t) PROVE WaitListSafe'
    BY <1>4, <1>5, <1>6, <1>7, <1>8, <1>9, <1>10, <1>15, <1>18, WThreads DEF WaitStep
<1>19. ASSUME NEW t \in Alerter, WakeStep(t) PROVE WaitListSafe'
    BY <1>12, <1>13, <1>16, <1>19 DEF WakeStep
<1> QED
    BY <1>3, <1>11, <1>14, <1>15, <1>17, <1>18, <1>19 DEF WOANext, WOAStep, UnloadStep

(* An alert for t is in alert.c: kept for it, given to its wait, or on its *)
(* way in somebody's call.                                                 *)
Sending(u, t) == pc[u] \in AlertPc /\ target[u] = t
AlertUnderWay(t) == t \in pending \/ (InFrame(t) /\ t \in woken) \/ \E u \in Alerter : Sending(u, t)

(* It stays there until a wait of t returns with it, or LDK is unloaded,   *)
(* or a call gives it up because it cannot allocate the pending entry.     *)
GivenUp(t) == \E u \in Thread : AlertGivenUp(u, t)

LEMMA AlertKept ==
  ASSUME IInv, ListInv, [Next]_vars, NEW t \in Thread, AlertUnderWay(t)
  PROVE  \/ AlertUnderWay(t)' \/ (pc'[t] = "deref" /\ status'[t] = "ALERTED") \/ ldkShutdown'
         \/ GivenUp(t)
<1>0. TypeInt /\ EntryInv /\ SignalInv /\ \A u \in Alerter : u \in Thread
    BY WThreads DEF IInv
<1> USE DEF AlertUnderWay, Sending, InFrame, WaitPc, AlertPc, Goto, entryVars, drainVars, termVars
<1>t. /\ pc \in [Thread -> {"idle"} \cup WaitPc \cup AlertPc \cup DerefPc] /\ target \in [Thread -> Thread]
      /\ status \in [Thread -> Statuses]
    BY <1>0 DEF TypeInt
<1>1. CASE UNCHANGED vars
    BY <1>1 DEF vars
<1>2. ASSUME NEW w \in Waiter, WaitCall(w)
      PROVE  AlertUnderWay(t)' \/ (pc'[t] = "deref" /\ status'[t] = "ALERTED")
  <2>1. w \in Thread
      BY WThreads
  <2>2. CASE WaitRefused(w)
      BY <2>2 DEF WaitRefused
  <2>3. CASE WaitTakesPending(w)
    <3>1. pc[w] = "idle" /\ pc'[w] = "deref" /\ status'[w] = "ALERTED" /\ \A u \in Thread \ {w} : pc'[u] = pc[u]
        BY <1>t, <2>1, <2>3 DEF WaitTakesPending
    <3>2. pending' = pending \ {w} /\ UNCHANGED <<target, woken>>
        BY <2>3 DEF WaitTakesPending
    <3>3. CASE t = w
        BY <3>1, <3>3
    <3>4. CASE t # w
        BY <1>0, <3>1, <3>2, <3>4
    <3> QED
        BY <3>3, <3>4
  <2>4. ASSUME NEW b \in BOOLEAN, WaitBlocks(w, b) PROVE AlertUnderWay(t)'
    <3>1. pc[w] = "idle" /\ pc'[w] = "blocked" /\ \A u \in Thread \ {w} : pc'[u] = pc[u]
        BY <1>t, <2>1, <2>4 DEF WaitBlocks
    <3>2. woken' = woken \ {w} /\ UNCHANGED <<target, pending>>
        BY <2>4 DEF WaitBlocks
    <3> QED
        BY <1>0, <3>1, <3>2
  <2> QED
      BY <1>2, <2>2, <2>3, <2>4 DEF WaitCall
<1>3. ASSUME NEW w \in Waiter, WaitTimesOut(w) PROVE AlertUnderWay(t)'
  <2>1. pc[w] = "blocked" /\ pc'[w] = "relock" /\ \A u \in Thread \ {w} : pc'[u] = pc[u]
      BY <1>t, <1>3, WThreads DEF WaitTimesOut
  <2>2. UNCHANGED <<target, pending, woken>>
      BY <1>3 DEF WaitTimesOut
  <2> QED
      BY <1>0, <2>1, <2>2
<1>4. ASSUME NEW a \in Alerter, NEW v \in Waiter, AlertCall(a, v) PROVE AlertUnderWay(t)'
  <2>1. /\ pc[a] = "idle" /\ \A u \in Thread \ {a} : pc'[u] = pc[u] /\ target'[u] = target[u]
        /\ UNCHANGED pending /\ woken \subseteq woken'
      BY <1>0, <1>t, <1>4 DEF AlertCall, AlertFindsWaiter, AlertFindsNone, RemoveWaiter
  <2> QED
      BY <1>0, <2>1
<1>5. ASSUME NEW w \in Thread, ThreadStep(w)
      PROVE  AlertUnderWay(t)' \/ (pc'[t] = "deref" /\ status'[t] = "ALERTED") \/ GivenUp(t)
  <2>1. CASE WaitSatisfied(w)
    <3>1. pc[w] = "blocked" /\ pc'[w] = "relock" /\ \A u \in Thread \ {w} : pc'[u] = pc[u]
        BY <1>t, <2>1 DEF WaitSatisfied
    <3>2. UNCHANGED <<target, pending, woken>>
        BY <2>1 DEF WaitSatisfied
    <3> QED
        BY <1>0, <3>1, <3>2
  <2>2. CASE WaitUnlinks(w)
    <3>1. pc[w] = "relock" /\ \A u \in Thread \ {w} : pc'[u] = pc[u]
        BY <1>t, <2>2 DEF WaitUnlinks, LeaveFrame
    <3>2. UNCHANGED <<target, pending>> /\ \A u \in Thread \ {w} : u \in woken <=> u \in woken'
        BY <2>2 DEF WaitUnlinks, LeaveFrame
    <3>3. CASE w \in woken /\ status[w] # "SUCCESS"
      <4>1. pc'[w] = "rewait" /\ UNCHANGED woken
          BY <1>t, <2>2, <3>3 DEF WaitUnlinks
      <4> QED
          BY <1>0, <3>1, <3>2, <4>1
    <3>4. CASE w \in woken /\ status[w] = "SUCCESS"
      <4>1. pc'[w] = "deref" /\ status'[w] = "ALERTED"
          BY <1>t, <2>2, <3>4 DEF WaitUnlinks, LeaveFrame
      <4> QED
          BY <1>0, <3>1, <3>2, <4>1
    <3>5. CASE w \notin woken
        BY <1>0, <3>1, <3>2, <3>5
    <3> QED
        BY <3>3, <3>4, <3>5
  <2>3. CASE WaitAgain(w)
    <3>1. /\ pc[w] = "rewait" /\ pc'[w] = "deref" /\ status'[w] = "ALERTED"
          /\ \A u \in Thread \ {w} : pc'[u] = pc[u]
        BY <1>t, <2>3 DEF WaitAgain, LeaveFrame
    <3>2. UNCHANGED <<target, pending>> /\ \A u \in Thread \ {w} : u \in woken <=> u \in woken'
        BY <2>3 DEF WaitAgain, LeaveFrame
    <3> QED
        BY <1>0, <3>1, <3>2
  <2>4. CASE DereferenceWait(w) \/ SetDrained(w)
    <3>1. pc[w] \in {"deref", "setDrained"} /\ \A u \in Thread \ {w} : pc'[u] = pc[u]
        BY <1>t, <2>4 DEF DereferenceWait, SetDrained
    <3>2. UNCHANGED <<target, pending, woken>>
        BY <2>4 DEF DereferenceWait, SetDrained
    <3> QED
        BY <1>0, <3>1, <3>2
  <2>5. CASE AlertAllocates(w)
    <3>1. pc[w] = "alloc" /\ pc'[w] \in {"pend", "retry"} /\ \A u \in Thread \ {w} : pc'[u] = pc[u]
        BY <1>t, <2>5 DEF AlertAllocates
    <3>2. UNCHANGED <<target, pending, woken>>
        BY <2>5 DEF AlertAllocates
    <3> QED
        BY <1>0, <3>1, <3>2
  <2>6. CASE AlertRetries(w)
    <3>1. pc[w] = "retry" /\ \A u \in Thread \ {w} : pc'[u] = pc[u] /\ target'[u] = target[u]
        BY <1>t, <2>6 DEF AlertRetries, LeaveAlert
    <3>2. UNCHANGED pending /\ woken \subseteq woken'
        BY <2>6 DEF AlertRetries, RemoveWaiter
    <3>3. CASE target[w] = t /\ t \in waiters
      <4>1. t \in woken' /\ pc[t] \in WaitPc
          BY <1>0, <2>6, <3>3 DEF AlertRetries, RemoveWaiter, EntryInv
      <4>2. t # w
          BY <3>1, <4>1
      <4> QED
          BY <3>1, <4>1, <4>2
    <3>4. CASE target[w] = t /\ t \notin waiters
      <4>1. pc'[w] = "idle"
          BY <1>t, <2>6, <3>4 DEF AlertRetries, LeaveAlert
      <4> QED
          BY <3>1, <3>4, <4>1 DEF GivenUp, AlertGivenUp
    <3>5. CASE target[w] # t
        BY <1>0, <3>1, <3>2, <3>5
    <3> QED
        BY <3>3, <3>4, <3>5
  <2>7. CASE AlertPends(w)
    <3>1. pc[w] = "pend" /\ \A u \in Thread \ {w} : pc'[u] = pc[u] /\ target'[u] = target[u]
        BY <1>t, <2>7 DEF AlertPends, LeaveAlert
    <3>2. pending \subseteq pending' /\ woken \subseteq woken'
        BY <2>7 DEF AlertPends, RemoveWaiter
    <3>3. CASE target[w] = t /\ t \in waiters
      <4>1. t \in woken' /\ pc[t] \in WaitPc
          BY <1>0, <2>7, <3>3 DEF AlertPends, RemoveWaiter, EntryInv
      <4>2. t # w
          BY <3>1, <4>1
      <4> QED
          BY <3>1, <4>1, <4>2
    <3>4. CASE target[w] = t /\ t \notin waiters
        BY <2>7, <3>4 DEF AlertPends
    <3>5. CASE target[w] # t
        BY <1>0, <3>1, <3>2, <3>5
    <3> QED
        BY <3>3, <3>4, <3>5
  <2>8. CASE AlertSetsEvent(w)
    <3>1. pc[w] = "setEvent" /\ \A u \in Thread \ {w} : pc'[u] = pc[u] /\ target'[u] = target[u]
        BY <1>t, <2>8 DEF AlertSetsEvent, LeaveAlert
    <3>2. UNCHANGED <<pending, woken>>
        BY <2>8 DEF AlertSetsEvent
    <3>3. CASE target[w] = t
      <4>1. t \in woken /\ pc[t] \in WaitPc
        <5>1. HoldsEventOf(w, t)
            BY <3>1, <3>3 DEF HoldsEventOf
        <5>2. Owed(t)
            BY <1>0, <5>1 DEF SignalInv
        <5> QED
            BY <1>0, <5>2 DEF Owed, EntryInv
      <4>2. t # w
          BY <3>1, <4>1
      <4> QED
          BY <3>1, <3>2, <4>1, <4>2
    <3>4. CASE target[w] # t
        BY <1>0, <3>1, <3>2, <3>4
    <3> QED
        BY <3>3, <3>4
  <2> QED
      BY <1>5, <2>1, <2>2, <2>3, <2>4, <2>5, <2>6, <2>7, <2>8 DEF ThreadStep
<1>6. CASE RaiseShutdown \/ TerminateStep
  <2>1. tpc' # "run"
      BY <1>6 DEF RaiseShutdown, TerminateStep, WakeAllForAddressList, BeginTerminate, WakeAllStep,
                  CollectEvents, SetEvents, AfterBatch, WaitDrained, ClearPending
  <2>2. ListInv'
      BY <1>0, NextListInv
  <2> QED
      BY <2>1, <2>2 DEF ListInv
<1> QED
    BY <1>1, <1>2, <1>3, <1>4, <1>5, <1>6 DEF Next

(* A thread that does not call or wait in alert.c keeps its status.        *)
LEMMA StatusKept ==
  ASSUME TypeInt, Other, NEW t \in Thread, ~InFrame(t)
  PROVE  ~InFrame(t)' /\ status'[t] = status[t]
<1> USE DEF InFrame, WaitPc, AlertPc, DerefPc, TypeInt, Goto, entryVars, drainVars, termVars
<1>1. CASE UNCHANGED vars
    BY <1>1 DEF vars
<1>2. ASSUME NEW u \in Thread, WaitTimesOut(u) PROVE ~InFrame(t)' /\ status'[t] = status[t]
    BY <1>2 DEF WaitTimesOut
<1>3. ASSUME NEW u \in Thread, ThreadStep(u) PROVE ~InFrame(t)' /\ status'[t] = status[t]
  <2>1. CASE WaitSatisfied(u)
      BY <2>1 DEF WaitSatisfied
  <2>2. CASE WaitUnlinks(u)
      BY <2>2 DEF WaitUnlinks, LeaveFrame
  <2>3. CASE WaitAgain(u)
      BY <2>3 DEF WaitAgain, LeaveFrame
  <2>4. CASE DereferenceWait(u) \/ SetDrained(u)
      BY <2>4 DEF DereferenceWait, SetDrained
  <2>5. CASE AlertAllocates(u)
      BY <2>5 DEF AlertAllocates
  <2>6. CASE AlertRetries(u) \/ AlertPends(u) \/ AlertSetsEvent(u)
      BY <2>6 DEF AlertRetries, AlertPends, AlertSetsEvent, LeaveAlert
  <2> QED
      BY <1>3, <2>1, <2>2, <2>3, <2>4, <2>5, <2>6 DEF ThreadStep
<1>4. ASSUME NEW u \in Alerter, NEW v \in Waiter, AlertCall(u, v)
      PROVE  ~InFrame(t)' /\ status'[t] = status[t]
    BY <1>4, WThreads DEF AlertCall, AlertFindsWaiter, AlertFindsNone
<1>5. CASE RaiseShutdown \/ TerminateStep
  <2>1. UNCHANGED <<pc, status>>
      BY <1>5 DEF RaiseShutdown, TerminateStep, WakeAllForAddressList, BeginTerminate, WakeAllStep,
                  CollectEvents, SetEvents, AfterBatch, WaitDrained, ClearPending
  <2> QED
      BY <2>1
<1> QED
    BY <1>1, <1>2, <1>3, <1>4, <1>5 DEF Other

LEMMA ShutdownStays == [Next]_vars /\ ldkShutdown => ldkShutdown'
BY DEF Next, vars, WaitCall, WaitRefused, WaitTakesPending, WaitBlocks, WaitTimesOut, AlertCall,
       AlertFindsWaiter, AlertFindsNone, ThreadStep, WaitSatisfied, WaitUnlinks, WaitAgain,
       DereferenceWait, SetDrained, AlertAllocates, AlertRetries, AlertPends, AlertSetsEvent,
       RaiseShutdown, TerminateStep, WakeAllForAddressList, BeginTerminate, WakeAllStep,
       CollectEvents, SetEvents, AfterBatch, WaitDrained, ClearPending, termVars

Collecting(t) == \E u \in Alerter : t \in ToSet(ids[u])

LEMMA ComingParts ==
  ASSUME NEW t \in Thread
  PROVE  /\ AlertComing(t) => AlertUnderWay(t) \/ Collecting(t)
         /\ AlertUnderWay(t)' \/ Collecting(t)' => AlertComing(t)'
<1>1. Alerts[t] > 0 => t \in pending \/ (InFrame(t) /\ t \in woken)
    BY DEF Alerts
<1>2. t \in pending' \/ (InFrame(t)' /\ t \in woken') => Alerts'[t] > 0
    BY DEF Alerts
<1> QED
    BY <1>1, <1>2 DEF AlertComing, AlertUnderWay, Sending, Collecting

(* The wait of t has returned with the alert of its waker.                 *)
Returned(t) == wpc[t] \in {"in", "inAgain", "finish"} /\ ~InFrame(t) /\ status[t] = "ALERTED"

(* Its alert was given up.                                                 *)
Unsent(t) == AllocMayFail /\ t \in unsent

LEMMA WokenStep ==
  /\ IInv /\ ListInv /\ WTypes /\ WaitListSafe /\ NestOK /\ NestOK' /\ WokenIsAlerted /\ [WOANext]_allVars
  => WokenIsAlerted'
<1> SUFFICES ASSUME IInv, ListInv, WTypes, WaitListSafe, NestOK, NestOK', WokenIsAlerted, [WOANext]_allVars,
                    NEW t \in wWoken'
             PROVE  AlertComing(t)' \/ ldkShutdown' \/ Returned(t)' \/ Unsent(t)'
    BY DEF WokenIsAlerted, Returned, Unsent
<1> DEFINE Goal == AlertComing(t)' \/ ldkShutdown' \/ Returned(t)' \/ Unsent(t)'
<1> USE DEF waitVars, wCountVars, driver, wakeVars
<1>a. [Next]_vars /\ WTypes' /\ TypeInt
    BY AlertBelow, WTypesStep DEF IInv
<1>b. t \in Waiter /\ t \in Thread
    BY <1>a, WThreads DEF WTypes
<1>c. \A u \in Thread : NestOf(u)
    BY NestParts
<1>d. t \in wWoken => AlertUnderWay(t) \/ Collecting(t) \/ ldkShutdown \/ Returned(t) \/ Unsent(t)
    BY <1>b, ComingParts DEF WokenIsAlerted, Returned, Unsent
<1>e. Unsent(t) \/ GivenUp(t) => Unsent(t)' \/ ldkShutdown'
  <2>1. CASE UNCHANGED allVars
    <3>1. ~GivenUp(t)
        BY <2>1 DEF allVars, vars, GivenUp, AlertGivenUp
    <3> QED
        BY <2>1, <3>1 DEF allVars, Unsent
  <2>2. CASE NoteUnsent
    <3>1. GivenUp(t) => AllocMayFail
        BY <1>c DEF GivenUp, AlertGivenUp, NestOf, NoRetry
    <3>2. ~ldkShutdown' /\ (t \in unsent \/ GivenUp(t)) => t \in unsent'
        BY <2>2 DEF NoteUnsent, GivenUp
    <3>3. Unsent(t)' <=> AllocMayFail /\ t \in unsent'
        BY DEF Unsent
    <3> QED
        BY <3>1, <3>2, <3>3 DEF Unsent
  <2> QED
      BY <2>1, <2>2 DEF WOANext
<1>1. ASSUME AlertUnderWay(t) PROVE Goal
  <2>1. \/ AlertUnderWay(t)' \/ (pc'[t] = "deref" /\ status'[t] = "ALERTED") \/ ldkShutdown'
        \/ GivenUp(t)
      BY <1>1, <1>a, <1>b, AlertKept
  <2>2. CASE pc'[t] = "deref" /\ status'[t] = "ALERTED"
    <3>1. wpc'[t] \in {"in", "inAgain"}
        BY <1>b, <2>2, NestParts DEF NestOf, InAlertWait, DerefPc
    <3>2. ~InFrame(t)'
        BY <2>2 DEF InFrame, WaitPc
    <3> QED
        BY <2>2, <3>1, <3>2 DEF Returned
  <2> QED
      BY <1>b, <1>e, <2>1, <2>2, ComingParts
<1>2. ldkShutdown => Goal
    BY <1>a, ShutdownStays
(* What is left to show of a step that wakes nobody.                       *)
<1>3. ASSUME wWoken' \subseteq wWoken, Collecting(t) => Collecting(t)' \/ AlertUnderWay(t)',
             Returned(t) => Returned(t)'
      PROVE  Goal
    BY <1>1, <1>2, <1>3, <1>b, <1>d, <1>e, ComingParts
<1>4. ASSUME Other, UNCHANGED wpc, Returned(t) PROVE Returned(t)'
    BY <1>4, <1>a, <1>b, StatusKept DEF Returned
<1>5. ASSUME Other, NEW w \in Thread, NEW l, WMoves(w, l), wpc[w] \notin {"in", "inAgain", "finish"}, Returned(t)
      PROVE  Returned(t)'
  <2>1. w # t /\ wpc'[t] = wpc[t]
      BY <1>5, <1>b DEF Returned, WMoves
  <2> QED
      BY <1>5, <1>a, <1>b, <2>1, StatusKept DEF Returned
<1>u. ASSUME UNCHANGED vars PROVE Other
    BY <1>u DEF Other
<1>i. UNCHANGED ids => (Collecting(t) => Collecting(t)')
    BY DEF Collecting
<1>6. CASE UNCHANGED allVars
    BY <1>3, <1>4, <1>6, <1>i, <1>u DEF allVars, woaVars
<1>7. ASSUME NEW w \in Waiter, NEW a \in Address, NEW b \in Timeouts, WaitBegins(w, a, mem[a], b) PROVE Goal
  <2>1. w \in Thread /\ WMoves(w, "matched") /\ UNCHANGED vars /\ wpc[w] = "out" /\ UNCHANGED <<wWoken, ids>>
      BY <1>7, WMovesTo, WLabelled, WThreads DEF WaitBegins
  <2> QED
      BY <1>3, <1>5, <1>i, <1>u, <2>1
<1>8. ASSUME NEW w \in Waiter,
             \/ WaitRefusedByShutdown(w) \/ WaitFindsChange(w) \/ WaitBacksOut(w) \/ WaitRegisters(w)
             \/ WDereference(w) \/ WSetDrained(w)
      PROVE  Goal
  <2>1. /\ UNCHANGED vars /\ wpc[w] \in {"matched", "deref", "setDrained"} /\ UNCHANGED <<wWoken, ids>>
      BY <1>8 DEF WaitRefusedByShutdown, WaitFindsChange, WaitBacksOut, WaitRegisters, WDereference, WSetDrained
  <2>2. WaitReturns(w) \/ \E l \in {"deref", "call", "setDrained"} : WGoto(w, l)
      BY <1>8 DEF WaitRefusedByShutdown, WaitFindsChange, WaitBacksOut, WaitRegisters, WDereference, WSetDrained
  <2>3. PICK l : WMoves(w, l)
      BY <2>2, WaitReturned, WMovesTo, WLabelled, WThreads
  <2> QED
      BY <1>3, <1>5, <1>i, <1>u, <2>1, <2>3, WThreads
<1>9. ASSUME NEW w \in Waiter, WaitCallsAlert(w) \/ WaitCallsAlertAgain(w) PROVE Goal
  <2>1. /\ w \in Thread /\ wpc[w] \in {"call", "callAgain"} /\ UNCHANGED <<wWoken, ids>>
      BY <1>9, WThreads DEF WaitCallsAlert, WaitCallsAlertAgain
  <2>2. PICK l \in {"in", "inAgain"} : WMoves(w, l)
      BY <1>9, <2>1, WMovesTo, WLabelled DEF WaitCallsAlert, WaitCallsAlertAgain
  <2>3. PICK b : AlertWait(w, b)
      BY <1>9 DEF WaitCallsAlert, WaitCallsAlertAgain
  <2>4. \A u \in Thread \ {w} : UNCHANGED <<pc[u], status[u]>>
      BY <1>a, <2>1, <2>3, WaitCallPc
  <2>5. Returned(t) => Returned(t)'
    <3> SUFFICES ASSUME Returned(t) PROVE Returned(t)'
        OBVIOUS
    <3>1. t # w /\ wpc'[t] = wpc[t] /\ pc'[t] = pc[t] /\ status'[t] = status[t]
        BY <1>b, <2>1, <2>2, <2>4 DEF Returned, WMoves
    <3> QED
        BY <3>1 DEF Returned, InFrame
  <2> QED
      BY <1>3, <1>i, <2>1, <2>5
<1>10. ASSUME NEW w \in Waiter, WUnlinks(w) PROVE Goal
  <2>1. /\ w \in Thread /\ UNCHANGED vars /\ UNCHANGED <<wWoken, ids>> /\ Other
      BY <1>10, <1>u, WThreads DEF WUnlinks
  <2>2. PICK l \in {"callAgain", "finish"} : WMoves(w, l) /\ (status[w] = "ALERTED" => l = "finish")
    <3>1. CASE status[w] = "ALERTED"
        BY <1>10, <2>1, <3>1, WMovesTo, WLabelled DEF WUnlinks
    <3>2. CASE status[w] # "ALERTED"
        BY <1>10, <2>1, <3>2, WMovesTo, WLabelled DEF WUnlinks
    <3> QED
        BY <3>1, <3>2
  <2>3. Returned(t) => Returned(t)'
    <3> SUFFICES ASSUME Returned(t) PROVE Returned(t)'
        OBVIOUS
    <3>1. wpc'[t] \in {"in", "inAgain", "finish"}
        BY <1>b, <2>2 DEF WMoves, Returned
    <3>2. ~InFrame(t)' /\ status'[t] = "ALERTED"
        BY <1>a, <1>b, <2>1, StatusKept DEF Returned
    <3> QED
        BY <3>1, <3>2 DEF Returned
  <2> QED
      BY <1>3, <1>i, <2>1, <2>3
<1>11. ASSUME NEW w \in Waiter, WaitEnds(w) PROVE Goal
  <2>1. w \in Thread /\ Other /\ WMoves(w, "deref") /\ wWoken' = wWoken \ {w} /\ UNCHANGED ids
      BY <1>11, <1>u, WMovesTo, WLabelled, WThreads DEF WaitEnds
  <2>2. Returned(t) => Returned(t)'
    <3> SUFFICES ASSUME Returned(t) PROVE Returned(t)'
        OBVIOUS
    <3>1. t # w /\ wpc'[t] = wpc[t]
        BY <1>b, <2>1 DEF WMoves
    <3> QED
        BY <1>a, <1>b, <2>1, <3>1, StatusKept DEF Returned
  <2> QED
      BY <1>3, <1>i, <2>1, <2>2
<1>12. ASSUME NEW w \in Writers, NEW a \in Address, Write(w, a) PROVE Goal
  <2>1. w \in Thread /\ WMoves(w, "collect") /\ UNCHANGED vars /\ wpc[w] = "out" /\ UNCHANGED <<wWoken, ids>>
      BY <1>12, WMovesTo, WLabelled, WThreads DEF Write
  <2> QED
      BY <1>3, <1>5, <1>i, <1>u, <2>1
<1>13. ASSUME NEW w \in Writers, NEW v \in Waiter, StrayAlert(w, v) PROVE Goal
  <2>1. Other /\ UNCHANGED <<wpc, wWoken, ids>>
      BY <1>13, WThreads DEF StrayAlert, Other
  <2> QED
      BY <1>3, <1>4, <1>i, <2>1
<1>14. ASSUME NEW w \in Alerter, WakeCollects(w) PROVE Goal
  <2>1. w \in Thread /\ WMoves(w, "alert") /\ Other /\ wpc[w] = "collect"
      BY <1>14, <1>u, WMovesTo, WLabelled, WThreads DEF WakeCollects
  <2>2. PICK taken : ids' = [ids EXCEPT ![w] = taken] /\ wWoken' = wWoken \cup ToSet(taken)
      BY <1>14 DEF WakeCollects, Collect
  <2>3. ids'[w] = taken /\ ids[w] = <<>> /\ \A u \in Thread \ {w} : ids'[u] = ids[u]
      BY <1>c, <2>1, <2>2 DEF WTypes, NestOf
  <2>4. Collecting(t) => Collecting(t)'
    <3>1. ToSet(ids[w]) = {}
        BY <2>3 DEF ToSet
    <3> QED
        BY <2>3, <3>1, WThreads DEF Collecting
  <2>5. t \in ToSet(taken) => Collecting(t)'
      BY <2>3 DEF Collecting
  <2>6. Returned(t) => Returned(t)'
      BY <1>5, <2>1
  <2> QED
      BY <1>1, <1>2, <1>b, <1>d, <1>e, <2>2, <2>4, <2>5, <2>6, ComingParts
<1>15. ASSUME NEW w \in Alerter, WakeAlerts(w) PROVE Goal
  <2>1. /\ w \in Thread /\ ids[w] \in Seq(Waiter) /\ ids[w] # <<>> /\ AlertCall(w, Head(ids[w]))
        /\ UNCHANGED <<wpc, wWoken>> /\ ids' = [ids EXCEPT ![w] = Tail(@)]
      BY <1>15, WThreads DEF WakeAlerts, WTypes
  <2>2. Head(ids[w]) \in Waiter /\ \A x \in ToSet(ids[w]) : x = Head(ids[w]) \/ x \in ToSet(Tail(ids[w]))
    <3>1. /\ Head(ids[w]) \in Waiter /\ Head(ids[w]) = ids[w][1] /\ Len(ids[w]) \in Nat
          /\ DOMAIN ids[w] = 1..Len(ids[w]) /\ DOMAIN Tail(ids[w]) = 1..(Len(ids[w]) - 1)
          /\ \A i \in 1..(Len(ids[w]) - 1) : Tail(ids[w])[i] = ids[w][i + 1]
        BY <2>1
    <3>2. ASSUME NEW i \in DOMAIN ids[w], i # 1 PROVE ids[w][i] \in ToSet(Tail(ids[w]))
      <4>1. i - 1 \in DOMAIN Tail(ids[w]) /\ Tail(ids[w])[i - 1] = ids[w][i]
          BY <3>1, <3>2
      <4> QED
          BY <4>1 DEF ToSet
    <3> QED
        BY <3>1, <3>2 DEF ToSet
  <2>3. Other
      BY <2>1, <2>2 DEF Other
  <2>h. PICK h : h = Head(ids[w])
      OBVIOUS
  <2>4. Sending(w, h)'
    <3>1. pc'[w] \in {"setEvent", "alloc"} /\ target'[w] = h
        BY <1>a, <2>1, <2>h DEF AlertCall, AlertFindsWaiter, AlertFindsNone, Goto, TypeInt
    <3> QED
        BY <3>1 DEF Sending, AlertPc
  <2>5. Collecting(t) => Collecting(t)' \/ AlertUnderWay(t)'
    <3> SUFFICES ASSUME NEW u \in Alerter, t \in ToSet(ids[u]) PROVE Collecting(t)' \/ AlertUnderWay(t)'
        BY DEF Collecting
    <3>1. CASE u # w
      <4>1. ids'[u] = ids[u]
          BY <2>1, <3>1, WThreads DEF WTypes
      <4> QED
          BY <4>1 DEF Collecting
    <3>2. CASE u = w /\ t = Head(ids[w])
        BY <2>4, <2>h, <3>2 DEF AlertUnderWay
    <3>3. CASE u = w /\ t \in ToSet(Tail(ids[w]))
      <4>1. ids'[w] = Tail(ids[w])
          BY <2>1 DEF WTypes
      <4> QED
          BY <3>3, <4>1 DEF Collecting
    <3> QED
        BY <2>2, <3>1, <3>2, <3>3
  <2> QED
      BY <1>3, <1>4, <2>1, <2>3, <2>5
<1>16. ASSUME NEW w \in Alerter, WakeEnds(w) PROVE Goal
  <2>1. w \in Thread /\ Other /\ wpc[w] = "alert" /\ UNCHANGED <<wWoken, ids>>
      BY <1>16, <1>u, WThreads DEF WakeEnds
  <2>2. \E l \in {"collect", "wakeAlerts", "out"} : WGoto(w, l)
      BY <1>16 DEF WakeEnds
  <2>3. PICK l : WMoves(w, l)
      BY <2>1, <2>2, WMovesTo, WLabelled
  <2> QED
      BY <1>3, <1>5, <1>i, <2>1, <2>3
<1>17. CASE UnloadBegins \/ WTerminate \/ WWakesAlerts \/ WWaitDrained
  <2>1. PICK l \in {"terminate", "collect", "drain", "done"} : WMoves(Unloader, l)
      BY <1>17, WMovesTo, WLabelled, WThreads DEF UnloadBegins, WTerminate, WWakesAlerts, WWaitDrained
  <2>2. wpc[Unloader] \in {"out", "terminate", "wakeAlerts", "drain"}
      BY <1>17, NestParts DEF UnloadBegins, WTerminate, WWakesAlerts, WWaitDrained, RaiseShutdown
  <2>3. UNCHANGED <<wWoken, ids>> /\ Other
      BY <1>17, <1>u DEF UnloadBegins, WTerminate, WWakesAlerts, WWaitDrained, Other, TerminateStep
  <2> QED
      BY <1>3, <1>5, <1>i, <2>1, <2>2, <2>3, WThreads
<1>18. CASE \/ WTerminateAlerts \/ AlertTerminate \/ \E w \in Thread : AlertLayer(w) \/ AlertTimeout(w)
  <2>1. UNCHANGED woaVars /\ Other
      BY <1>18 DEF WTerminateAlerts, AlertTerminate, AlertLayer, AlertTimeout, Other, TerminateStep
  <2>2. UNCHANGED <<wpc, wWoken, ids>>
      BY <2>1 DEF woaVars
  <2> QED
      BY <1>3, <1>4, <1>i, <2>1, <2>2
<1>19. ASSUME NEW w \in Waiter, WaitStep(w) \/ AlertTimeout(w) PROVE Goal
    BY <1>8, <1>9, <1>10, <1>11, <1>18, <1>19, WThreads DEF WaitStep
<1>20. ASSUME NEW w \in Alerter, WakeStep(w) PROVE Goal
    BY <1>14, <1>15, <1>16, <1>20 DEF WakeStep
<1> QED
    BY <1>6, <1>7, <1>12, <1>13, <1>17, <1>18, <1>19, <1>20 DEF WOANext, WOAStep, UnloadStep

(* Waker u has still to look at the list for address a.                    *)
Will(u, a) == wakeAddr[u] = a /\ (wpc[u] = "collect" \/ (wpc[u] = "alert" /\ u \in idsFull))

LEMMA WillKept ==
  ASSUME WTypes, NEW w \in Thread, NEW l, WMoves(w, l), NEW a, WillCollect(a),
         wpc[w] \notin {"collect", "alert"}, \A u \in Thread \ {w} : wakeAddr'[u] = wakeAddr[u],
         UNCHANGED idsFull
  PROVE  WillCollect(a)'
<1>1. PICK u \in Alerter : Will(u, a)
    BY DEF WillCollect, Will
<1>2. u \in Thread \ {w}
    BY <1>1, WThreads DEF Will
<1>3. wakeAddr'[u] = wakeAddr[u] /\ wpc'[u] = wpc[u]
    BY <1>2 DEF WMoves
<1> QED
    BY <1>1, <1>3 DEF WillCollect, Will

LEMMA MissStep == WTypes /\ WaitListSafe /\ NestOK /\ NoMissedWake /\ [WOANext]_allVars => NoMissedWake'
<1> SUFFICES ASSUME WTypes, WaitListSafe, NestOK, NoMissedWake, [WOANext]_allVars PROVE NoMissedWake'
    OBVIOUS
<1> USE DEF waitVars, wCountVars, driver, wakeVars
<1>0. UNCHANGED wakeSingle
    BY DEF WOANext, WOAStep, allVars, woaVars, WaitBegins, WaitStep, WaitRefusedByShutdown, WaitFindsChange, WaitBacksOut,
           WaitRegisters, WaitCallsAlert, WUnlinks, WaitCallsAlertAgain, WaitEnds, WDereference, WSetDrained,
           AlertTimeout, Write, StrayAlert, WakeStep, WakeCollects, WakeAlerts, WakeEnds, AlertLayer,
           UnloadBegins, UnloadStep, WTerminate, WWakesAlerts, WWaitDrained, WTerminateAlerts, AlertTerminate
<1> SUFFICES ASSUME ~wakeSingle, NEW t \in wInList'
             PROVE  ValuesMatch(t)' \/ WillCollect(wait[t].addr)'
    BY <1>0 DEF NoMissedWake
<1>l. ASSUME NEW u \in wInList
      PROVE  /\ u \in Waiter /\ u \in Thread /\ wpc[u] \in {"call", "in"} /\ wait[u].addr \in Address
             /\ ValuesMatch(u) \/ WillCollect(wait[u].addr)
  <2>1. u \in Waiter /\ wpc[u] \in {"call", "in"}
      BY DEF WaitListSafe, ToSet, WTypes
  <2> QED
      BY <2>1, WThreads, NestParts DEF NestOf, NoMissedWake
(* What is left to show of a step that registers no wait.                  *)
<1>k. ASSUME wInList' \subseteq wInList, wait'[t] = wait[t], UNCHANGED mem,
             \A a : WillCollect(a) => WillCollect(a)'
      PROVE  ValuesMatch(t)' \/ WillCollect(wait[t].addr)'
  <2>1. PICK a : a = wait[t].addr
      OBVIOUS
  <2>2. ValuesMatch(t) \/ WillCollect(a)
      BY <1>k, <1>l, <2>1
  <2>3. wait'[t].addr = a
      BY <1>k, <2>1
  <2>4. WillCollect(a)' => WillCollect(wait[t].addr)'
      BY <2>3 DEF WillCollect
  <2> QED
      BY <1>k, <2>2, <2>4 DEF ValuesMatch
<1>m. ASSUME NEW w \in Thread, NEW l, WMoves(w, l), wpc[w] \notin {"collect", "alert"}, UNCHANGED <<wakeAddr, idsFull>>
      PROVE  \A a : WillCollect(a) => WillCollect(a)'
    BY <1>m, WillKept
<1>1. ASSUME UNCHANGED <<mem, wpc, wait, wInList, wakeAddr, idsFull>>
      PROVE  ValuesMatch(t)' \/ WillCollect(wait[t].addr)'
    BY <1>1, <1>l DEF ValuesMatch, WillCollect
<1>2. ASSUME NEW w \in Waiter, NEW a \in Address, NEW b \in Timeouts, WaitBegins(w, a, mem[a], b)
      PROVE  ValuesMatch(t)' \/ WillCollect(wait[t].addr)'
  <2>1. w \in Thread /\ WMoves(w, "matched") /\ wpc[w] = "out" /\ UNCHANGED <<mem, wInList, wakeAddr, idsFull>>
      BY <1>2, WMovesTo, WLabelled, WThreads DEF WaitBegins
  <2>2. wait'[t] = wait[t]
      BY <1>2, <1>l, <2>1 DEF WaitBegins, WTypes
  <2> QED
      BY <1>k, <1>m, <2>1, <2>2
<1>3. ASSUME NEW w \in Waiter,
             WaitRefusedByShutdown(w) \/ WaitFindsChange(w) \/ WDereference(w) \/ WSetDrained(w)
      PROVE  ValuesMatch(t)' \/ WillCollect(wait[t].addr)'
  <2>1. /\ w \in Thread /\ wpc[w] \in {"matched", "deref", "setDrained"} /\ UNCHANGED <<mem, wInList, wakeAddr, idsFull>>
      BY <1>3, WThreads DEF WaitRefusedByShutdown, WaitFindsChange, WDereference, WSetDrained
  <2>2. WaitReturns(w) \/ (WGoto(w, "setDrained") /\ UNCHANGED wait)
      BY <1>3 DEF WaitRefusedByShutdown, WaitFindsChange, WDereference, WSetDrained
  <2>3. PICK l : WMoves(w, l) /\ \A u \in Thread \ {w} : wait'[u] = wait[u]
      BY <2>1, <2>2, WaitReturned, WMovesTo, WLabelled
  <2>4. t # w /\ wait'[t] = wait[t]
      BY <1>l, <2>1, <2>3
  <2> QED
      BY <1>k, <1>m, <2>1, <2>3, <2>4
<1>4. ASSUME NEW w \in Waiter,
             WaitBacksOut(w) \/ WaitCallsAlert(w) \/ WaitCallsAlertAgain(w) \/ WUnlinks(w) \/ WaitEnds(w)
      PROVE  ValuesMatch(t)' \/ WillCollect(wait[t].addr)'
  <2>1. /\ w \in Thread /\ wpc[w] \in {"matched", "call", "callAgain", "in", "inAgain", "finish"}
        /\ wInList' \subseteq wInList /\ UNCHANGED <<mem, wait, wakeAddr, idsFull>>
      BY <1>4, WThreads DEF WaitBacksOut, WaitCallsAlert, WaitCallsAlertAgain, WUnlinks, WaitEnds
  <2>2. \E l \in {"deref", "in", "inAgain", "callAgain", "finish"} : WGoto(w, l)
      BY <1>4 DEF WaitBacksOut, WaitCallsAlert, WaitCallsAlertAgain, WUnlinks, WaitEnds
  <2>3. PICK l : WMoves(w, l)
      BY <2>1, <2>2, WMovesTo, WLabelled
  <2> QED
      BY <1>k, <1>m, <2>1, <2>3
<1>5. ASSUME NEW w \in Waiter, WaitRegisters(w)
      PROVE  ValuesMatch(t)' \/ WillCollect(wait[t].addr)'
  <2>1. /\ w \in Thread /\ wpc[w] = "matched" /\ wInList' = wInList \cup {w}
        /\ UNCHANGED <<mem, wait, wakeAddr, idsFull>> /\ WMoves(w, "call") /\ ValuesMatch(w)
      BY <1>5, WMovesTo, WLabelled, WThreads DEF WaitRegisters
  <2>2. CASE t = w
      BY <2>1, <2>2 DEF ValuesMatch
  <2>3. CASE t # w
    <3>1. PICK a : a = wait[t].addr
        OBVIOUS
    <3>2. ValuesMatch(t) \/ WillCollect(a)'
        BY <1>l, <1>m, <2>1, <2>3, <3>1
    <3>3. WillCollect(a)' => WillCollect(wait[t].addr)'
        BY <2>1, <3>1 DEF WillCollect
    <3> QED
        BY <2>1, <3>2, <3>3 DEF ValuesMatch
  <2> QED
      BY <2>2, <2>3
<1>6. ASSUME NEW w \in Writers, NEW a \in Address, Write(w, a)
      PROVE  ValuesMatch(t)' \/ WillCollect(wait[t].addr)'
  <2>1. /\ w \in Thread /\ w \in Alerter /\ wpc[w] = "out" /\ WMoves(w, "collect") /\ UNCHANGED <<wait, wInList, idsFull>>
      BY <1>6, WMovesTo, WLabelled, WThreads DEF Write
  <2>2. /\ wakeAddr'[w] = a /\ \A u \in Thread \ {w} : wakeAddr'[u] = wakeAddr[u]
      BY <1>6, <2>1 DEF Write, WTypes
  <2>3. PICK c \in Address : c = wait[t].addr /\ wait'[t].addr = c
      BY <1>l, <2>1
  <2>4. CASE c = a
    <3>1. WillCollect(c)'
        BY <2>1, <2>2, <2>4 DEF WillCollect, WMoves
    <3> QED
        BY <2>3, <3>1 DEF WillCollect
  <2>5. CASE c # a
    <3>1. mem'[c] = mem[c]
        BY <1>6, <2>5 DEF Write, WTypes
    <3>2. WillCollect(c) => WillCollect(c)'
        BY <2>1, <2>2, WillKept
    <3>3. ValuesMatch(t) \/ WillCollect(c)
        BY <1>l, <2>1, <2>3
    <3>4. ValuesMatch(t) => ValuesMatch(t)'
        BY <2>1, <2>3, <3>1 DEF ValuesMatch
    <3>5. WillCollect(c)' => WillCollect(wait[t].addr)'
        BY <2>3 DEF WillCollect
    <3> QED
        BY <3>2, <3>3, <3>4, <3>5
  <2> QED
      BY <2>4, <2>5
<1>7. ASSUME NEW w \in Alerter, WakeCollects(w)
      PROVE  ValuesMatch(t)' \/ WillCollect(wait[t].addr)'
  <2>1. w \in Thread /\ WMoves(w, "alert") /\ wpc[w] = "collect" /\ UNCHANGED <<mem, wait, wakeAddr>>
      BY <1>7, WMovesTo, WLabelled, WThreads DEF WakeCollects
  <2>2. PICK n \in Nat : Collect(w, wakeAddr[w], n)
      BY <1>7, IdBatchAssumption DEF WakeCollects
  <2>3. PICK taken : taken = Prefix(Matching(wakeAddr[w]), n)
      OBVIOUS
  <2>4. /\ idsFull' = IF Len(taken) = n THEN idsFull \cup {w} ELSE idsFull \ {w}
        /\ wInList' = wInList \ ToSet(taken)
      BY <2>2, <2>3 DEF Collect
  <2>5. PICK c : c = wait[t].addr /\ wait'[t].addr = c
      BY <2>1
  <2>6. t \in wInList /\ t \notin ToSet(taken)
      BY <2>4
  <2>7. ASSUME Len(taken) # n PROVE c # wakeAddr[w]
    <3>1. \A i \in DOMAIN queue : wait[queue[i]].addr = wakeAddr[w] => queue[i] \in ToSet(taken)
        BY <2>3, <2>7, Collected DEF WTypes
    <3>2. PICK i \in DOMAIN queue : queue[i] = t
        BY <2>6 DEF WaitListSafe, ToSet
    <3> QED
        BY <2>5, <2>6, <3>1, <3>2
  <2>8. ASSUME WillCollect(c) PROVE WillCollect(c)'
    <3>1. PICK u \in Alerter : Will(u, c)
        BY <2>8 DEF WillCollect, Will
    <3>2. CASE u = w
      <4>1. w \in idsFull'
          BY <2>4, <2>7, <3>1, <3>2 DEF Will
      <4> QED
          BY <2>1, <3>1, <3>2, <4>1 DEF Will, WillCollect, WMoves
    <3>3. CASE u # w
      <4>1. wpc'[u] = wpc[u] /\ (u \in idsFull => u \in idsFull')
          BY <2>1, <2>4, <3>3, WThreads DEF WMoves
      <4> QED
          BY <2>1, <3>1, <4>1 DEF Will, WillCollect
    <3> QED
        BY <3>2, <3>3
  <2>9. ValuesMatch(t) \/ WillCollect(c)
      BY <1>l, <2>5, <2>6
  <2>10. WillCollect(c)' => WillCollect(wait[t].addr)'
      BY <2>5 DEF WillCollect
  <2> QED
      BY <2>1, <2>8, <2>9, <2>10 DEF ValuesMatch
<1>8. ASSUME NEW w \in Alerter, WakeEnds(w)
      PROVE  ValuesMatch(t)' \/ WillCollect(wait[t].addr)'
  <2>1. w \in Thread /\ wpc[w] = "alert" /\ UNCHANGED <<mem, wait, wInList>> /\ ~IsSingle(w)
      BY <1>8, WThreads DEF WakeEnds, IsSingle
  <2>2. CASE w \in idsFull
    <3>1. WMoves(w, "collect") /\ UNCHANGED <<wakeAddr, idsFull>>
        BY <1>8, <2>1, <2>2, WMovesTo, WLabelled DEF WakeEnds
    <3>2. \A a : WillCollect(a) => WillCollect(a)'
        BY <2>1, <2>2, <3>1, WThreads DEF WillCollect, WMoves
    <3> QED
        BY <1>k, <2>1, <3>2
  <2>3. CASE w \notin idsFull
    <3>1. PICK l \in {"wakeAlerts", "out"} : WMoves(w, l)
        BY <1>8, <2>1, <2>3, WMovesTo, WLabelled DEF WakeEnds
    <3>2. /\ \A u \in Thread \ {w} : wakeAddr'[u] = wakeAddr[u] /\ wpc'[u] = wpc[u]
          /\ \A u \in Thread \ {w} : u \in idsFull => u \in idsFull'
        BY <1>8, <2>3, <3>1 DEF WakeEnds, WTypes, WMoves
    <3>3. ASSUME NEW a, WillCollect(a) PROVE WillCollect(a)'
      <4>1. PICK u \in Alerter : Will(u, a)
          BY <3>3 DEF WillCollect, Will
      <4>2. u \in Thread \ {w}
          BY <2>1, <2>3, <4>1, WThreads DEF Will
      <4> QED
          BY <3>2, <4>1, <4>2 DEF Will, WillCollect
    <3> QED
        BY <1>k, <2>1, <3>3
  <2> QED
      BY <2>2, <2>3
<1>9. CASE UnloadBegins \/ WTerminate \/ WWakesAlerts \/ WWaitDrained
  <2>1. PICK l \in {"terminate", "collect", "drain", "done"} : WMoves(Unloader, l)
      BY <1>9, WMovesTo, WLabelled, WThreads DEF UnloadBegins, WTerminate, WWakesAlerts, WWaitDrained
  <2>2. wpc[Unloader] \in {"out", "terminate", "wakeAlerts", "drain"}
      BY <1>9, NestParts DEF UnloadBegins, WTerminate, WWakesAlerts, WWaitDrained, RaiseShutdown
  <2>3. UNCHANGED <<mem, wait, wInList, wakeAddr, idsFull>>
      BY <1>9 DEF UnloadBegins, WTerminate, WWakesAlerts, WWaitDrained
  <2> QED
      BY <1>k, <1>m, <2>1, <2>2, <2>3, WThreads
<1>10. CASE \/ UNCHANGED allVars \/ WTerminateAlerts \/ AlertTerminate
            \/ \E w \in Thread : AlertLayer(w) \/ AlertTimeout(w)
  <2>1. UNCHANGED woaVars
      BY <1>10 DEF allVars, WTerminateAlerts, AlertTerminate, AlertLayer, AlertTimeout
  <2> QED
      BY <1>1, <2>1 DEF woaVars
<1>11. ASSUME NEW w \in Alerter, WakeAlerts(w) PROVE ValuesMatch(t)' \/ WillCollect(wait[t].addr)'
    BY <1>1, <1>11 DEF WakeAlerts
<1>12. ASSUME NEW w \in Writers, NEW u \in Waiter, StrayAlert(w, u)
       PROVE  ValuesMatch(t)' \/ WillCollect(wait[t].addr)'
    BY <1>1, <1>12 DEF StrayAlert
<1>13. ASSUME NEW w \in Waiter, WaitStep(w) \/ AlertTimeout(w)
       PROVE  ValuesMatch(t)' \/ WillCollect(wait[t].addr)'
    BY <1>3, <1>4, <1>5, <1>10, <1>13, WThreads DEF WaitStep
<1>14. ASSUME NEW w \in Alerter, WakeStep(w) PROVE ValuesMatch(t)' \/ WillCollect(wait[t].addr)'
    BY <1>7, <1>8, <1>11, <1>14 DEF WakeStep
<1> QED
    BY <1>2, <1>6, <1>9, <1>10, <1>12, <1>13, <1>14 DEF WOANext, WOAStep, UnloadStep

(* What RtlWaitOnAddress and its wakers keep.                              *)
WInv == WTypes /\ NestOK /\ WaitListSafe /\ WokenIsAlerted /\ NoMissedWake

LEMMA WInvariance == WOASpec => []WInv
<1>1. WOAInit => WInv
  <2> SUFFICES ASSUME WOAInit PROVE WInv
      OBVIOUS
  <2>1. WTypes
      BY WTypesStart
  <2>2. NestOK
      BY WThreads DEF WOAInit, Init, NestOK, WaitPc, DerefPc
  <2>3. WaitListSafe /\ WokenIsAlerted /\ NoMissedWake
      BY DEF WOAInit, WaitListSafe, WokenIsAlerted, NoMissedWake, ToSet
  <2> QED
      BY <2>1, <2>2, <2>3 DEF WInv
<1>2. IInv /\ ListInv /\ WInv /\ [WOANext]_allVars => WInv'
    BY WTypesStep, NestStep, ListStep, WokenStep, MissStep DEF WInv, IInv
<1>3. WOASpec => [](IInv /\ ListInv)
  <2>1. IInv /\ CountExact /\ RefExact => IInv
      OBVIOUS
  <2> QED
      BY <2>1, AlertsAsSpecified, Invariance, ListInvariance, PTL
<1> QED
    BY <1>1, <1>2, <1>3, PTL DEF WOASpec

(* A waiter is in the list exactly while it waits, and the alert of the    *)
(* waker that took its entry reaches it even if its timeout expires        *)
(* meanwhile, for any number of waiters, wakers and addresses, whether     *)
(* allocations fail or not.  A waiter is excepted only when an alert for   *)
(* it was given up after its entry was taken, because the pending entry of *)
(* the alert could not be allocated: LdkpAlertThreadIds ignores that.      *)
(* From the start of LdkTerminate on, the unloading thread wakes everybody *)
(* and the theorem speaks of the list only.                                *)
THEOREM WaitersAlwaysReached == WOASpec => []WaitersReached
<1>1. WInv => WaitersReached
    BY DEF WInv, WaitersReached
<1> QED
    BY <1>1, WInvariance, PTL

(* RtlWakeAddressAll misses no registered waiter whose value has changed,  *)
(* although it collects thread ids in batches, unlocking in between.       *)
THEOREM WakeNotMissed == WOASpec => []NoMissedWake
<1>1. WInv => NoMissedWake
    BY DEF WInv
<1> QED
    BY <1>1, WInvariance, PTL
=============================================================================
