--------------------------- MODULE Threadpool_proofs ---------------------------
(***************************************************************************)
(* Proofs about the thread pool: the references, the event and the DLL of  *)
(* a work object, and the waits for its callbacks; the watcher of a timer  *)
(* or wait object; and the legacy layer over it.                           *)
(***************************************************************************)
EXTENDS ThreadpoolWork, LegacyWait, FiniteSetTheorems, TLAPS

(* How a finite set changes when only x may leave or enter it.             *)
LEMMA OneMoves ==
  ASSUME NEW S, NEW T, NEW x, IsFiniteSet(S), T \ {x} = S \ {x}
  PROVE  /\ IsFiniteSet(T) /\ Cardinality(S) \in Nat /\ Cardinality(T) \in Nat
         /\ Cardinality(T) = Cardinality(S) - One(x \in S) + One(x \in T)
<1> DEFINE R == S \ {x}
<1>1. IsFiniteSet(R) /\ Cardinality(R) \in Nat /\ x \notin R
    BY FS_Subset, FS_CardinalityType
<1>2. /\ IsFiniteSet(R \cup {x})
      /\ Cardinality(R \cup {x}) = Cardinality(R) + 1
    BY <1>1, FS_AddElement
<1>3. S = IF x \in S THEN R \cup {x} ELSE R
    OBVIOUS
<1>4. T = IF x \in T THEN R \cup {x} ELSE R
    OBVIOUS
<1> HIDE DEF R
<1>5. Cardinality(S) = Cardinality(R) + One(x \in S)
  <2>1. CASE x \in S
    <3>1. Cardinality(S) = Cardinality(R) + 1
        BY <1>2, <1>3, <2>1
    <3> QED
        BY <2>1, <3>1 DEF One
  <2>2. CASE x \notin S
    <3>1. Cardinality(S) = Cardinality(R)
        BY <1>3, <2>2
    <3> QED
        BY <1>1, <2>2, <3>1 DEF One
  <2> QED
      BY <2>1, <2>2
<1>6. Cardinality(T) = Cardinality(R) + One(x \in T) /\ IsFiniteSet(T)
  <2>1. CASE x \in T
    <3>1. Cardinality(T) = Cardinality(R) + 1 /\ IsFiniteSet(T)
        BY <1>2, <1>4, <2>1
    <3> QED
        BY <2>1, <3>1 DEF One
  <2>2. CASE x \notin T
    <3>1. Cardinality(T) = Cardinality(R) /\ IsFiniteSet(T)
        BY <1>1, <1>4, <2>2
    <3> QED
        BY <1>1, <2>2, <3>1 DEF One
  <2> QED
      BY <2>1, <2>2
<1>7. One(x \in S) \in Int /\ One(x \in T) \in Int
    BY DEF One
<1>8. Cardinality(S) \in Nat /\ Cardinality(T) \in Nat
    BY <1>6, FS_CardinalityType
<1> QED
    BY <1>1, <1>5, <1>6, <1>7, <1>8

LEMMA OneEnters ==
  ASSUME NEW S, NEW T, NEW x, IsFiniteSet(S), T \ {x} = S \ {x}, x \notin S, x \in T
  PROVE  Cardinality(T) = Cardinality(S) + 1
<1>1. One(x \in S) = 0 /\ One(x \in T) = 1
    BY DEF One
<1> QED
    BY <1>1, OneMoves

LEMMA OneLeaves ==
  ASSUME NEW S, NEW T, NEW x, IsFiniteSet(S), T \ {x} = S \ {x}, x \in S, x \notin T
  PROVE  Cardinality(T) = Cardinality(S) - 1
<1>1. One(x \in S) = 1 /\ One(x \in T) = 0
    BY DEF One
<1> QED
    BY <1>1, OneMoves

-----------------------------------------------------------------------------
(* The work object.                                                        *)

SubmitHolds == {"s_out", "s_reset", "s_alloc", "s_undo", "s_set", "s_deref"}
WaitHolds   == {"w_cancel", "w_wait", "w_clear", "w_deref"}
HoldsWork   == SubmitHolds \cup WaitHolds
CloseLabels == {"c_read", "c_lock", "c_delete", "c_deref"}
GroupLabels == {"g_delete", "g_callback", "g_deref"}
SetLabels   == {"s_set", "x_clear", "x_set"}
Counting    == {"s_reset", "s_alloc", "s_undo"}
Completed   == {"none", "x_clear", "x_set", "x_deref"}

ClientLabels ==
  {"idle", "w_ref"} \cup SubmitPc \cup WaitHolds \cup CloseLabels \cup GroupLabels
WorkerPc == {"queued", "run", "end", "x_out", "x_clear", "x_set", "x_deref"}
ItemLabels == {"none"} \cup WorkerPc \cup SubmitPc \cup CloseLabels

WorkTypes ==
  /\ pc \in [Proc -> ClientLabels \cup ItemLabels]
  /\ \A c \in Client : pc[c] \in ClientLabels
  /\ \A i \in Item : pc[i] \in ItemLabels
  /\ grouping \subseteq Client

(* ReferenceCount: the handle, each work item, each call that took one.    *)
LiveItems == {i \in Item : pc[i] # "none"}
CallHolders == {p \in Proc : pc[p] \in HoldsWork}
RefsOK == refs = One(handle) + Cardinality(LiveItems) + Cardinality(CallHolders)

(* OutstandingCount: each work item that has not completed, each           *)
(* submission that has counted its own.                                    *)
OpenItems == {i \in Item : pc[i] \notin Completed}
CallCounts == {p \in Proc : pc[p] \in Counting}
OutOK == outstanding = Cardinality(OpenItems) + Cardinality(CallCounts)

(* One thread closes the object, and until it is done the handle's         *)
(* reference is there; a call without a reference has started before.      *)
Closer(p) == pc[p] \in CloseLabels \cup GroupLabels \/ p \in grouping
Unreferenced(c) == pc[c] \in {"s_check", "s_ref"} \/ (pc[c] = "w_ref" /\ c \notin grouping)

CloseOK ==
  /\ \A p \in Proc : Closer(p) => closing /\ handle
  /\ \A p, q \in Proc : Closer(p) /\ Closer(q) => p = q
  /\ ~closing => handle
  /\ \A c \in Client : Unreferenced(c) => ~closing
  /\ \A c \in Client : c \in grouping => pc[c] \in GroupLabels \cup WaitHolds \cup {"w_ref"}
  /\ \A c \in Client : pc[c] \in GroupLabels => c \in grouping

FreedOK == freed => refs = 0

WorkInv == WorkTypes /\ RefsOK /\ OutOK /\ CloseOK /\ FreedOK /\ NoLostEvent

(* What a thread or work item p at label l contributes to the counts.      *)
RefsOf(p, l) == One(p \in Item /\ l # "none") + One(l \in HoldsWork)
OutOf(p, l)  == One(p \in Item /\ l \notin Completed) + One(l \in Counting)

LEMMA WorkSetsFinite ==
  /\ IsFiniteSet(LiveItems) /\ IsFiniteSet(CallHolders)
  /\ IsFiniteSet(OpenItems) /\ IsFiniteSet(CallCounts)
<1>1. IsFiniteSet(Proc)
    BY WorkAssumption, FS_Union DEF Proc
<1>2. LiveItems \subseteq Item /\ OpenItems \subseteq Item
      /\ CallHolders \subseteq Proc /\ CallCounts \subseteq Proc
    BY DEF LiveItems, OpenItems, CallHolders, CallCounts
<1> QED
    BY <1>1, <1>2, WorkAssumption, FS_Subset

LEMMA WorkCounts ==
  ASSUME RefsOK, OutOK
  PROVE  /\ refs \in Nat /\ outstanding \in Nat
         /\ Cardinality(LiveItems) \in Nat /\ Cardinality(CallHolders) \in Nat
         /\ Cardinality(OpenItems) \in Nat /\ Cardinality(CallCounts) \in Nat
<1>1. /\ Cardinality(LiveItems) \in Nat /\ Cardinality(CallHolders) \in Nat
      /\ Cardinality(OpenItems) \in Nat /\ Cardinality(CallCounts) \in Nat
    BY WorkSetsFinite, FS_CardinalityType
<1> QED
    BY <1>1 DEF RefsOK, OutOK, One

(* The counts after thread or work item p has gone to label l.             *)
LEMMA CountsMove ==
  ASSUME WorkTypes, RefsOK, OutOK, NEW p \in Proc, NEW l,
         pc' = [pc EXCEPT ![p] = l],
         refs' = refs + One(handle') - One(handle) + RefsOf(p, l) - RefsOf(p, pc[p]),
         outstanding' = outstanding + OutOf(p, l) - OutOf(p, pc[p])
  PROVE  RefsOK' /\ OutOK'
<1>1. \A q \in Proc : pc'[q] = IF q = p THEN l ELSE pc[q]
    BY DEF WorkTypes
<1>2. \A i \in Item : i \in Proc
    BY DEF Proc
<1>3. /\ LiveItems' \ {p} = LiveItems \ {p} /\ CallHolders' \ {p} = CallHolders \ {p}
      /\ OpenItems' \ {p} = OpenItems \ {p} /\ CallCounts' \ {p} = CallCounts \ {p}
    BY <1>1, <1>2 DEF LiveItems, CallHolders, OpenItems, CallCounts
<1>4. /\ Cardinality(LiveItems') = Cardinality(LiveItems)
                                     - One(p \in LiveItems) + One(p \in LiveItems')
      /\ Cardinality(CallHolders') = Cardinality(CallHolders)
                                     - One(p \in CallHolders) + One(p \in CallHolders')
    BY <1>3, WorkSetsFinite, OneMoves
<1>5. /\ Cardinality(OpenItems') = Cardinality(OpenItems)
                                     - One(p \in OpenItems) + One(p \in OpenItems')
      /\ Cardinality(CallCounts') = Cardinality(CallCounts)
                                     - One(p \in CallCounts) + One(p \in CallCounts')
    BY <1>3, WorkSetsFinite, OneMoves
<1>6. /\ (p \in LiveItems) <=> (p \in Item /\ pc[p] # "none")
      /\ (p \in LiveItems') <=> (p \in Item /\ l # "none")
      /\ (p \in CallHolders) <=> (pc[p] \in HoldsWork)
      /\ (p \in CallHolders') <=> (l \in HoldsWork)
      /\ (p \in OpenItems) <=> (p \in Item /\ pc[p] \notin Completed)
      /\ (p \in OpenItems') <=> (p \in Item /\ l \notin Completed)
      /\ (p \in CallCounts) <=> (pc[p] \in Counting)
      /\ (p \in CallCounts') <=> (l \in Counting)
    BY <1>1, <1>2 DEF LiveItems, CallHolders, OpenItems, CallCounts
<1>7. /\ One(p \in LiveItems) = One(p \in Item /\ pc[p] # "none")
      /\ One(p \in LiveItems') = One(p \in Item /\ l # "none")
      /\ One(p \in CallHolders) = One(pc[p] \in HoldsWork)
      /\ One(p \in CallHolders') = One(l \in HoldsWork)
      /\ One(p \in OpenItems) = One(p \in Item /\ pc[p] \notin Completed)
      /\ One(p \in OpenItems') = One(p \in Item /\ l \notin Completed)
      /\ One(p \in CallCounts) = One(pc[p] \in Counting)
      /\ One(p \in CallCounts') = One(l \in Counting)
    BY <1>6 DEF One
<1>8. \A b : One(b) \in Int
    BY DEF One
<1>9. refs \in Int /\ outstanding \in Int
      /\ Cardinality(LiveItems) \in Int /\ Cardinality(CallHolders) \in Int
      /\ Cardinality(OpenItems) \in Int /\ Cardinality(CallCounts) \in Int
    BY WorkCounts
<1>10. RefsOK'
    BY <1>4, <1>7, <1>8, <1>9 DEF RefsOK, RefsOf
<1>11. OutOK'
    BY <1>5, <1>7, <1>8, <1>9 DEF OutOK, OutOf
<1> QED
    BY <1>10, <1>11

(* A step that takes p to label l, and neither begins nor ends a close.    *)
LabelStep(p, l) ==
  /\ p \in Client => l \in ClientLabels
  /\ p \in Item => l \in ItemLabels
  /\ l \in CloseLabels \cup GroupLabels => Closer(p)
  /\ p \in Client /\ (l \in {"s_check", "s_ref"} \/ (l = "w_ref" /\ p \notin grouping))
       => ~closing
  /\ p \in grouping => l \in GroupLabels \cup WaitHolds \cup {"w_ref"}
  /\ l \in GroupLabels => p \in grouping

CountStep(p, l) ==
  /\ refs' = refs + RefsOf(p, l) - RefsOf(p, pc[p])
  /\ outstanding' = outstanding + OutOf(p, l) - OutOf(p, pc[p])
  /\ freed' => refs' = 0

EventStep(p, l) ==
  \/ event' \/ outstanding' # 0 \/ l \in SetLabels
  \/ outstanding = 0 /\ event' = event /\ pc[p] \notin SetLabels

LEMMA PartsMove ==
  ASSUME WorkInv, NEW p \in Proc, NEW l, pc' = [pc EXCEPT ![p] = l],
         p \in Client => l \in ClientLabels, p \in Item => l \in ItemLabels,
         grouping' \subseteq Client, EventStep(p, l)
  PROVE  /\ WorkTypes' /\ NoLostEvent'
         /\ \A q \in Proc : pc'[q] = IF q = p THEN l ELSE pc[q]
<1> USE DEF WorkInv, EventStep
<1>1. \A q \in Proc : pc'[q] = IF q = p THEN l ELSE pc[q]
    BY DEF WorkTypes
<1>2. /\ \A c \in Client : c \in Proc
      /\ \A i \in Item : i \in Proc
      /\ p \in Client \/ p \in Item
    BY DEF Proc
<1>3. WorkTypes'
  <2>1. l \in ClientLabels \cup ItemLabels
      BY <1>2
  <2>2. pc' \in [Proc -> ClientLabels \cup ItemLabels]
      BY <2>1 DEF WorkTypes
  <2> QED
      BY <1>1, <1>2, <2>2 DEF WorkTypes
<1>4. NoLostEvent'
  <2> SUFFICES ASSUME outstanding' = 0, \A q \in Proc : pc'[q] \notin SetLabels
               PROVE  event'
      BY DEF NoLostEvent, SetLabels, Setting
  <2>1. CASE outstanding = 0 /\ event' = event /\ pc[p] \notin SetLabels
    <3>1. \A q \in Proc : pc[q] \notin SetLabels
        BY <1>1, <2>1
    <3>2. event
        BY <2>1, <3>1 DEF NoLostEvent, SetLabels, Setting
    <3> QED
        BY <2>1, <3>2
  <2>2. l \notin SetLabels
      BY <1>1
  <2> QED
      BY <2>1, <2>2
<1> QED
    BY <1>1, <1>3, <1>4

LEMMA WorkMove ==
  ASSUME WorkInv, NEW p \in Proc, NEW l, pc' = [pc EXCEPT ![p] = l],
         handle' = handle, grouping' = grouping, closing' = closing,
         LabelStep(p, l), CountStep(p, l), EventStep(p, l)
  PROVE  WorkInv'
<1> USE DEF WorkInv, LabelStep, CountStep
<1>1. /\ WorkTypes' /\ NoLostEvent'
      /\ \A q \in Proc : pc'[q] = IF q = p THEN l ELSE pc[q]
  <2>1. grouping' \subseteq Client
      BY DEF WorkTypes
  <2> QED
      BY <2>1, PartsMove
<1>2. \A c \in Client : c \in Proc
    BY DEF Proc
<1>3. RefsOK' /\ OutOK'
  <2>1. refs' = refs + One(handle') - One(handle) + RefsOf(p, l) - RefsOf(p, pc[p])
      BY WorkCounts DEF RefsOf, One
  <2> QED
      BY <2>1, CountsMove
<1>4. CloseOK'
  <2>1. \A q \in Proc : Closer(q)' => Closer(q)
      BY <1>1 DEF Closer
  <2>2. \A c \in Client : Unreferenced(c)' => ~closing
      BY <1>1, <1>2 DEF Unreferenced, CloseOK
  <2>3. \A c \in Client : c \in grouping => pc'[c] \in GroupLabels \cup WaitHolds \cup {"w_ref"}
      BY <1>1, <1>2 DEF CloseOK
  <2>4. \A c \in Client : pc'[c] \in GroupLabels => c \in grouping
      BY <1>1, <1>2 DEF CloseOK
  <2> QED
      BY <2>1, <2>2, <2>3, <2>4 DEF CloseOK
<1> QED
    BY <1>1, <1>3, <1>4 DEF FreedOK

(* Once the object is freed nobody is inside a call on it.                 *)
LEMMA FreedQuiet == WorkInv => NoUseAfterFree
<1> SUFFICES ASSUME WorkInv, freed PROVE ~handle /\ \A p \in Proc : pc[p] \in {"idle", "none"}
    BY DEF NoUseAfterFree
<1> USE DEF WorkInv
<1>1. /\ Cardinality(LiveItems) \in Nat /\ Cardinality(CallHolders) \in Nat
    BY WorkCounts
<1>2. One(handle) \in Nat /\ (handle => One(handle) = 1)
    BY DEF One
<1>3. One(handle) = 0 /\ Cardinality(LiveItems) = 0 /\ Cardinality(CallHolders) = 0
    BY <1>1, <1>2 DEF FreedOK, RefsOK
<1>4. ~handle
    BY <1>2, <1>3
<1>5. LiveItems = {} /\ CallHolders = {}
    BY <1>3, WorkSetsFinite, FS_EmptySet
<1>6. \A p \in Proc : pc[p] \notin HoldsWork
    BY <1>5 DEF CallHolders
<1>7. \A i \in Item : pc[i] = "none"
    BY <1>5 DEF LiveItems
<1>8. closing
    BY <1>4 DEF CloseOK
<1>9. ASSUME NEW c \in Client PROVE pc[c] = "idle"
  <2>1. c \in Proc
      BY DEF Proc
  <2>2. pc[c] \notin CloseLabels \cup GroupLabels /\ c \notin grouping
      BY <1>4, <2>1 DEF CloseOK, Closer
  <2>3. pc[c] \notin {"s_check", "s_ref", "w_ref"}
      BY <1>8, <2>2 DEF CloseOK, Unreferenced
  <2> QED
      BY <1>6, <2>1, <2>2, <2>3
         DEF WorkTypes, ClientLabels, SubmitPc, HoldsWork, SubmitHolds, WaitHolds
<1> QED
    BY <1>4, <1>7, <1>9 DEF Proc

(* A call that has no reference of its own finds the object referenced.    *)
LEMMA InUse ==
  ASSUME WorkInv, NEW p \in Proc, pc[p] \notin {"idle", "none"}
  PROVE  ~freed /\ refs \in Nat /\ outstanding \in Nat
BY FreedQuiet, WorkCounts DEF NoUseAfterFree, WorkInv

LEMMA HandleHolds ==
  ASSUME WorkInv, handle
  PROVE  refs >= 1
<1>1. One(handle) = 1
    BY DEF One
<1>2. Cardinality(LiveItems) \in Nat /\ Cardinality(CallHolders) \in Nat
    BY WorkCounts DEF WorkInv
<1>3. refs = One(handle) + Cardinality(LiveItems) + Cardinality(CallHolders)
    BY DEF WorkInv, RefsOK
<1> QED
    BY <1>1, <1>2, <1>3

LEMMA CountedCalls ==
  ASSUME WorkInv, NEW p \in Proc
  PROVE  /\ pc[p] \in Counting => outstanding >= 1
         /\ p \in Item /\ pc[p] \notin Completed => outstanding >= 1
<1> USE DEF WorkInv
<1>1. /\ Cardinality(OpenItems) \in Nat /\ Cardinality(CallCounts) \in Nat
      /\ outstanding = Cardinality(OpenItems) + Cardinality(CallCounts)
    BY WorkCounts DEF OutOK
<1>2. ASSUME pc[p] \in Counting PROVE Cardinality(CallCounts) # 0
    BY <1>2, WorkSetsFinite, FS_EmptySet DEF CallCounts
<1>3. ASSUME p \in Item, pc[p] \notin Completed PROVE Cardinality(OpenItems) # 0
    BY <1>3, WorkSetsFinite, FS_EmptySet DEF OpenItems
<1> QED
    BY <1>1, <1>2, <1>3

(* What is known of a thread or work item before it takes a step.          *)
LEMMA BeforeStep ==
  ASSUME WorkInv, NEW p \in Proc
  PROVE  /\ p \in Client \/ p \in Item
         /\ ~ (p \in Client /\ p \in Item)
         /\ refs \in Nat /\ outstanding \in Nat
         /\ freed => refs = 0
         /\ freed => pc[p] \in {"idle", "none"}
         /\ p \in grouping => p \in Client
         /\ p \in grouping => pc[p] \in GroupLabels \cup WaitHolds \cup {"w_ref"}
         /\ p \in Client => pc[p] \in ClientLabels
         /\ p \in Item => pc[p] \in ItemLabels
<1>1. p \in Client \/ p \in Item
    BY DEF Proc
<1>2. ~ (p \in Client /\ p \in Item)
    BY WorkAssumption
<1>3. refs \in Nat /\ outstanding \in Nat
    BY WorkCounts DEF WorkInv
<1>4. freed => refs = 0
    BY DEF WorkInv, FreedOK
<1>5. freed => pc[p] \in {"idle", "none"}
    BY FreedQuiet DEF NoUseAfterFree
<1>6. p \in grouping => p \in Client
    BY DEF WorkInv, WorkTypes
<1>7. p \in grouping => pc[p] \in GroupLabels \cup WaitHolds \cup {"w_ref"}
    BY <1>6 DEF WorkInv, CloseOK
<1>8. (p \in Client => pc[p] \in ClientLabels) /\ (p \in Item => pc[p] \in ItemLabels)
    BY DEF WorkInv, WorkTypes
<1> QED
    BY <1>1, <1>2, <1>3, <1>4, <1>5, <1>6, <1>7, <1>8

(* SubmitThreadpoolWork, up to the work item.                              *)
LEMMA SubmitInv ==
  ASSUME WorkInv, NEW p \in Proc,
         \/ CallSubmit(p) \/ SubmitCheck(p) \/ SubmitRef(p) \/ SubmitOut(p)
         \/ SubmitReset(p) \/ SubmitAllocFails(p) \/ SubmitUndo(p) \/ SubmitSet(p)
         \/ SubmitDeref(p)
  PROVE  WorkInv'
<1>0. /\ p \in Client \/ p \in Item
      /\ ~ (p \in Client /\ p \in Item)
      /\ refs \in Nat /\ outstanding \in Nat
      /\ freed => refs = 0
      /\ freed => pc[p] \in {"idle", "none"}
      /\ p \in grouping => p \in Client
      /\ p \in grouping => pc[p] \in GroupLabels \cup WaitHolds \cup {"w_ref"}
    BY BeforeStep
<1>10. p \in Client /\ pc[p] = "s_check" => ~closing
    BY DEF WorkInv, CloseOK, Unreferenced
<1>11. pc[p] \in Counting => outstanding >= 1
    BY CountedCalls
<1>12. "s_reset" \in Counting
    BY DEF Counting
<1>1. CASE CallSubmit(p)
  <2>1. /\ pc[p] = (IF p \in Client THEN "idle" ELSE "run") /\ pc' = [pc EXCEPT ![p] = "s_check"]
        /\ p \in Client => ~closing
        /\ refs' = refs /\ outstanding' = outstanding /\ event' = event /\ freed' = freed
        /\ handle' = handle /\ grouping' = grouping /\ closing' = closing
      BY <1>1 DEF CallSubmit, Goto, objVars, useVars, MayCall
  <2>2. LabelStep(p, "s_check")
      BY <1>0, <2>1 DEF LabelStep, ClientLabels, ItemLabels, SubmitPc, WorkerPc,
         CloseLabels, GroupLabels, WaitHolds
  <2>3. CountStep(p, "s_check")
      BY <1>0, <2>1 DEF CountStep, RefsOf, OutOf, One, HoldsWork, SubmitHolds,
         WaitHolds, Counting, Completed
  <2>4. EventStep(p, "s_check")
      BY <1>0, <2>1 DEF EventStep, SetLabels
  <2> QED
      BY <2>1, <2>2, <2>3, <2>4, WorkMove
<1>2. CASE SubmitCheck(p)
  <2>0. PICK l \in {"s_ref", "run", "g_callback", "idle"} :
          /\ pc' = [pc EXCEPT ![p] = l]
          /\ l = "run" => p \in Item
          /\ l = "idle" => p \in Client
          /\ l = "g_callback" => p \in grouping
      BY <1>0, <1>2 DEF SubmitCheck, Goto, Return
  <2>1. /\ pc[p] = "s_check"
        /\ refs' = refs /\ outstanding' = outstanding /\ event' = event /\ freed' = freed
        /\ handle' = handle /\ grouping' = grouping /\ closing' = closing
      BY <1>2 DEF SubmitCheck, Goto, objVars, useVars
  <2>2. LabelStep(p, l)
      BY <1>0, <2>0, <2>1, <1>10 DEF LabelStep, ClientLabels, ItemLabels, SubmitPc,
         WorkerPc, CloseLabels, GroupLabels, WaitHolds
  <2>3. CountStep(p, l)
      BY <1>0, <2>0, <2>1 DEF CountStep, RefsOf, OutOf, One, HoldsWork, SubmitHolds,
         WaitHolds, Counting, Completed
  <2>4. EventStep(p, l)
      BY <1>0, <2>0, <2>1 DEF EventStep, SetLabels
  <2> QED
      BY <2>0, <2>1, <2>2, <2>3, <2>4, WorkMove
<1>3. CASE SubmitRef(p)
  <2>1. /\ pc[p] = "s_ref" /\ pc' = [pc EXCEPT ![p] = "s_out"]
        /\ refs' = refs + 1 /\ outstanding' = outstanding /\ event' = event /\ freed' = freed
        /\ handle' = handle /\ grouping' = grouping /\ closing' = closing
      BY <1>3 DEF SubmitRef, Goto, objVars, useVars
  <2>2. LabelStep(p, "s_out")
      BY <1>0, <2>1 DEF LabelStep, ClientLabels, ItemLabels, SubmitPc, WorkerPc,
         CloseLabels, GroupLabels, WaitHolds
  <2>3. CountStep(p, "s_out")
      BY <1>0, <2>1 DEF CountStep, RefsOf, OutOf, One, HoldsWork, SubmitHolds,
         WaitHolds, Counting, Completed
  <2>4. EventStep(p, "s_out")
      BY <1>0, <2>1 DEF EventStep, SetLabels
  <2> QED
      BY <2>1, <2>2, <2>3, <2>4, WorkMove
<1>4. CASE SubmitOut(p)
  <2>1. /\ pc[p] = "s_out" /\ pc' = [pc EXCEPT ![p] = "s_reset"]
        /\ refs' = refs /\ outstanding' = outstanding + 1 /\ event' = event /\ freed' = freed
        /\ handle' = handle /\ grouping' = grouping /\ closing' = closing
      BY <1>4 DEF SubmitOut, Goto, objVars, useVars
  <2>2. LabelStep(p, "s_reset")
      BY <1>0, <2>1 DEF LabelStep, ClientLabels, ItemLabels, SubmitPc, WorkerPc,
         CloseLabels, GroupLabels, WaitHolds
  <2>3. CountStep(p, "s_reset")
      BY <1>0, <2>1 DEF CountStep, RefsOf, OutOf, One, HoldsWork, SubmitHolds,
         WaitHolds, Counting, Completed
  <2>4. EventStep(p, "s_reset")
      BY <1>0, <2>1 DEF EventStep, SetLabels
  <2> QED
      BY <2>1, <2>2, <2>3, <2>4, WorkMove
<1>5. CASE SubmitReset(p)
  <2>1. /\ pc[p] = "s_reset" /\ pc' = [pc EXCEPT ![p] = "s_alloc"]
        /\ refs' = refs /\ outstanding' = outstanding /\ event' = FALSE /\ freed' = freed
        /\ handle' = handle /\ grouping' = grouping /\ closing' = closing
      BY <1>5 DEF SubmitReset, Goto, objVars
  <2>2. LabelStep(p, "s_alloc")
      BY <1>0, <2>1 DEF LabelStep, ClientLabels, ItemLabels, SubmitPc, WorkerPc,
         CloseLabels, GroupLabels, WaitHolds
  <2>3. CountStep(p, "s_alloc")
      BY <1>0, <2>1 DEF CountStep, RefsOf, OutOf, One, HoldsWork, SubmitHolds,
         WaitHolds, Counting, Completed
  <2>4. EventStep(p, "s_alloc")
      BY <1>0, <2>1, <1>11, <1>12 DEF EventStep, SetLabels
  <2> QED
      BY <2>1, <2>2, <2>3, <2>4, WorkMove
<1>6. CASE SubmitAllocFails(p)
  <2>1. /\ pc[p] = "s_alloc" /\ pc' = [pc EXCEPT ![p] = "s_undo"]
        /\ refs' = refs /\ outstanding' = outstanding /\ event' = event /\ freed' = freed
        /\ handle' = handle /\ grouping' = grouping /\ closing' = closing
      BY <1>6 DEF SubmitAllocFails, Goto, objVars, useVars
  <2>2. LabelStep(p, "s_undo")
      BY <1>0, <2>1 DEF LabelStep, ClientLabels, ItemLabels, SubmitPc, WorkerPc,
         CloseLabels, GroupLabels, WaitHolds
  <2>3. CountStep(p, "s_undo")
      BY <1>0, <2>1 DEF CountStep, RefsOf, OutOf, One, HoldsWork, SubmitHolds,
         WaitHolds, Counting, Completed
  <2>4. EventStep(p, "s_undo")
      BY <1>0, <2>1 DEF EventStep, SetLabels
  <2> QED
      BY <2>1, <2>2, <2>3, <2>4, WorkMove
<1>7. CASE SubmitUndo(p)
  <2>0. PICK l \in {"s_set", "s_deref"} :
          /\ pc' = [pc EXCEPT ![p] = l]
          /\ l = "s_set" <=> outstanding = 1
      BY <1>0, <1>7 DEF SubmitUndo, Goto
  <2>1. /\ pc[p] = "s_undo"
        /\ refs' = refs /\ outstanding' = outstanding - 1 /\ event' = event /\ freed' = freed
        /\ handle' = handle /\ grouping' = grouping /\ closing' = closing
      BY <1>7 DEF SubmitUndo, Goto, objVars, useVars
  <2>2. LabelStep(p, l)
      BY <1>0, <2>0, <2>1 DEF LabelStep, ClientLabels, ItemLabels, SubmitPc, WorkerPc,
         CloseLabels, GroupLabels, WaitHolds
  <2>3. CountStep(p, l)
      BY <1>0, <2>0, <2>1 DEF CountStep, RefsOf, OutOf, One, HoldsWork, SubmitHolds,
         WaitHolds, Counting, Completed
  <2>4. EventStep(p, l)
      BY <1>0, <2>0, <2>1 DEF EventStep, SetLabels
  <2> QED
      BY <2>0, <2>1, <2>2, <2>3, <2>4, WorkMove
<1>8. CASE SubmitSet(p)
  <2>1. /\ pc[p] = "s_set" /\ pc' = [pc EXCEPT ![p] = "s_deref"]
        /\ refs' = refs /\ outstanding' = outstanding /\ event' = TRUE /\ freed' = freed
        /\ handle' = handle /\ grouping' = grouping /\ closing' = closing
      BY <1>8 DEF SubmitSet, SetEvent, Goto
  <2>2. LabelStep(p, "s_deref")
      BY <1>0, <2>1 DEF LabelStep, ClientLabels, ItemLabels, SubmitPc, WorkerPc,
         CloseLabels, GroupLabels, WaitHolds
  <2>3. CountStep(p, "s_deref")
      BY <1>0, <2>1 DEF CountStep, RefsOf, OutOf, One, HoldsWork, SubmitHolds,
         WaitHolds, Counting, Completed
  <2>4. EventStep(p, "s_deref")
      BY <1>0, <2>1 DEF EventStep, SetLabels
  <2> QED
      BY <2>1, <2>2, <2>3, <2>4, WorkMove
<1>9. CASE SubmitDeref(p)
  <2>0. PICK l \in {"run", "g_callback", "idle"} :
          /\ pc' = [pc EXCEPT ![p] = l]
          /\ l = "run" => p \in Item
          /\ l = "idle" => p \in Client
          /\ l = "g_callback" => p \in grouping
      BY <1>0, <1>9 DEF SubmitDeref, Goto, Return
  <2>1. /\ pc[p] = "s_deref"
        /\ refs' = refs - 1 /\ outstanding' = outstanding /\ event' = event /\ (freed' => freed \/ refs = 1)
        /\ handle' = handle /\ grouping' = grouping /\ closing' = closing
      BY <1>9 DEF SubmitDeref, Goto, objVars, useVars, Dereference
  <2>2. LabelStep(p, l)
      BY <1>0, <2>0, <2>1 DEF LabelStep, ClientLabels, ItemLabels, SubmitPc, WorkerPc,
         CloseLabels, GroupLabels, WaitHolds
  <2>3. CountStep(p, l)
      BY <1>0, <2>0, <2>1 DEF CountStep, RefsOf, OutOf, One, HoldsWork, SubmitHolds,
         WaitHolds, Counting, Completed
  <2>4. EventStep(p, l)
      BY <1>0, <2>0, <2>1 DEF EventStep, SetLabels
  <2> QED
      BY <2>0, <2>1, <2>2, <2>3, <2>4, WorkMove
<1> QED
    BY <1>1, <1>2, <1>3, <1>4, <1>5, <1>6, <1>7, <1>8, <1>9

(* LdkpThreadpoolWokerThreadRoutine.                                       *)
LEMMA WorkerInv ==
  ASSUME WorkInv, NEW p \in Proc, p \in Item,
         \/ Dequeue(p) \/ CallbackReturns(p) \/ EndCallback(p) \/ CompleteOut(p)
         \/ CompleteClear(p) \/ CompleteSet(p) \/ CompleteDeref(p)
  PROVE  WorkInv'
<1>0. /\ p \in Client \/ p \in Item
      /\ ~ (p \in Client /\ p \in Item)
      /\ refs \in Nat /\ outstanding \in Nat
      /\ freed => refs = 0
      /\ freed => pc[p] \in {"idle", "none"}
      /\ p \in grouping => p \in Client
      /\ p \in grouping => pc[p] \in GroupLabels \cup WaitHolds \cup {"w_ref"}
    BY BeforeStep
<1>1. CASE Dequeue(p)
  <2>0. PICK l \in {"end", "run"} : pc' = [pc EXCEPT ![p] = l]
      BY <1>0, <1>1 DEF Dequeue, Goto
  <2>1. /\ pc[p] = "queued"
        /\ refs' = refs /\ outstanding' = outstanding /\ event' = event /\ freed' = freed
        /\ handle' = handle /\ grouping' = grouping /\ closing' = closing
      BY <1>1 DEF Dequeue, Goto, objVars, useVars
  <2>2. LabelStep(p, l)
      BY <1>0, <2>0, <2>1 DEF LabelStep, ClientLabels, ItemLabels, SubmitPc, WorkerPc,
         CloseLabels, GroupLabels, WaitHolds
  <2>3. CountStep(p, l)
      BY <1>0, <2>0, <2>1 DEF CountStep, RefsOf, OutOf, One, HoldsWork, SubmitHolds,
         WaitHolds, Counting, Completed
  <2>4. EventStep(p, l)
      BY <1>0, <2>0, <2>1 DEF EventStep, SetLabels
  <2> QED
      BY <2>0, <2>1, <2>2, <2>3, <2>4, WorkMove
<1>2. CASE CallbackReturns(p)
  <2>1. /\ pc[p] = "run" /\ pc' = [pc EXCEPT ![p] = "end"]
        /\ refs' = refs /\ outstanding' = outstanding /\ event' = event /\ freed' = freed
        /\ handle' = handle /\ grouping' = grouping /\ closing' = closing
      BY <1>2 DEF CallbackReturns, Goto, objVars, useVars
  <2>2. LabelStep(p, "end")
      BY <1>0, <2>1 DEF LabelStep, ClientLabels, ItemLabels, SubmitPc, WorkerPc,
         CloseLabels, GroupLabels, WaitHolds
  <2>3. CountStep(p, "end")
      BY <1>0, <2>1 DEF CountStep, RefsOf, OutOf, One, HoldsWork, SubmitHolds,
         WaitHolds, Counting, Completed
  <2>4. EventStep(p, "end")
      BY <1>0, <2>1 DEF EventStep, SetLabels
  <2> QED
      BY <2>1, <2>2, <2>3, <2>4, WorkMove
<1>3. CASE EndCallback(p)
  <2>1. /\ pc[p] = "end" /\ pc' = [pc EXCEPT ![p] = "x_out"]
        /\ refs' = refs /\ outstanding' = outstanding /\ event' = event /\ freed' = freed
        /\ handle' = handle /\ grouping' = grouping /\ closing' = closing
      BY <1>3 DEF EndCallback, Goto, objVars, useVars
  <2>2. LabelStep(p, "x_out")
      BY <1>0, <2>1 DEF LabelStep, ClientLabels, ItemLabels, SubmitPc, WorkerPc,
         CloseLabels, GroupLabels, WaitHolds
  <2>3. CountStep(p, "x_out")
      BY <1>0, <2>1 DEF CountStep, RefsOf, OutOf, One, HoldsWork, SubmitHolds,
         WaitHolds, Counting, Completed
  <2>4. EventStep(p, "x_out")
      BY <1>0, <2>1 DEF EventStep, SetLabels
  <2> QED
      BY <2>1, <2>2, <2>3, <2>4, WorkMove
<1>4. CASE CompleteOut(p)
  <2>0. PICK l \in {"x_clear", "x_deref"} :
          /\ pc' = [pc EXCEPT ![p] = l]
          /\ l = "x_clear" <=> outstanding = 1
      BY <1>0, <1>4 DEF CompleteOut, Goto
  <2>1. /\ pc[p] = "x_out"
        /\ refs' = refs /\ outstanding' = outstanding - 1 /\ event' = event /\ freed' = freed
        /\ handle' = handle /\ grouping' = grouping /\ closing' = closing
      BY <1>4 DEF CompleteOut, Goto, objVars, useVars
  <2>2. LabelStep(p, l)
      BY <1>0, <2>0, <2>1 DEF LabelStep, ClientLabels, ItemLabels, SubmitPc, WorkerPc,
         CloseLabels, GroupLabels, WaitHolds
  <2>3. CountStep(p, l)
      BY <1>0, <2>0, <2>1 DEF CountStep, RefsOf, OutOf, One, HoldsWork, SubmitHolds,
         WaitHolds, Counting, Completed
  <2>4. EventStep(p, l)
      BY <1>0, <2>0, <2>1 DEF EventStep, SetLabels
  <2> QED
      BY <2>0, <2>1, <2>2, <2>3, <2>4, WorkMove
<1>5. CASE CompleteClear(p)
  <2>1. /\ pc[p] = "x_clear" /\ pc' = [pc EXCEPT ![p] = "x_set"]
        /\ refs' = refs /\ outstanding' = outstanding /\ event' = event /\ freed' = freed
        /\ handle' = handle /\ grouping' = grouping /\ closing' = closing
      BY <1>5 DEF CompleteClear, Goto, objVars, useVars
  <2>2. LabelStep(p, "x_set")
      BY <1>0, <2>1 DEF LabelStep, ClientLabels, ItemLabels, SubmitPc, WorkerPc,
         CloseLabels, GroupLabels, WaitHolds
  <2>3. CountStep(p, "x_set")
      BY <1>0, <2>1 DEF CountStep, RefsOf, OutOf, One, HoldsWork, SubmitHolds,
         WaitHolds, Counting, Completed
  <2>4. EventStep(p, "x_set")
      BY <1>0, <2>1 DEF EventStep, SetLabels
  <2> QED
      BY <2>1, <2>2, <2>3, <2>4, WorkMove
<1>6. CASE CompleteSet(p)
  <2>1. /\ pc[p] = "x_set" /\ pc' = [pc EXCEPT ![p] = "x_deref"]
        /\ refs' = refs /\ outstanding' = outstanding /\ event' = TRUE /\ freed' = freed
        /\ handle' = handle /\ grouping' = grouping /\ closing' = closing
      BY <1>6 DEF CompleteSet, SetEvent, Goto
  <2>2. LabelStep(p, "x_deref")
      BY <1>0, <2>1 DEF LabelStep, ClientLabels, ItemLabels, SubmitPc, WorkerPc,
         CloseLabels, GroupLabels, WaitHolds
  <2>3. CountStep(p, "x_deref")
      BY <1>0, <2>1 DEF CountStep, RefsOf, OutOf, One, HoldsWork, SubmitHolds,
         WaitHolds, Counting, Completed
  <2>4. EventStep(p, "x_deref")
      BY <1>0, <2>1 DEF EventStep, SetLabels
  <2> QED
      BY <2>1, <2>2, <2>3, <2>4, WorkMove
<1>7. CASE CompleteDeref(p)
  <2>1. /\ pc[p] = "x_deref" /\ pc' = [pc EXCEPT ![p] = "none"]
        /\ refs' = refs - 1 /\ outstanding' = outstanding /\ event' = event /\ (freed' => freed \/ refs = 1)
        /\ handle' = handle /\ grouping' = grouping /\ closing' = closing
      BY <1>7 DEF CompleteDeref, Goto, objVars, useVars, Dereference
  <2>2. LabelStep(p, "none")
      BY <1>0, <2>1 DEF LabelStep, ClientLabels, ItemLabels, SubmitPc, WorkerPc,
         CloseLabels, GroupLabels, WaitHolds
  <2>3. CountStep(p, "none")
      BY <1>0, <2>1 DEF CountStep, RefsOf, OutOf, One, HoldsWork, SubmitHolds,
         WaitHolds, Counting, Completed
  <2>4. EventStep(p, "none")
      BY <1>0, <2>1 DEF EventStep, SetLabels
  <2> QED
      BY <2>1, <2>2, <2>3, <2>4, WorkMove
<1> QED
    BY <1>1, <1>2, <1>3, <1>4, <1>5, <1>6, <1>7

(* WaitForThreadpoolWorkCallbacks.                                         *)
LEMMA WaitInv ==
  ASSUME WorkInv, NEW p \in Proc, p \in Client,
         \/ (\E cancel \in BOOLEAN : CallWait(p, cancel)) \/ WaitRef(p)
         \/ WaitCancel(p) \/ WaitOver(p) \/ WaitClear(p) \/ WaitDeref(p)
  PROVE  WorkInv'
<1>0. /\ p \in Client \/ p \in Item
      /\ ~ (p \in Client /\ p \in Item)
      /\ refs \in Nat /\ outstanding \in Nat
      /\ freed => refs = 0
      /\ freed => pc[p] \in {"idle", "none"}
      /\ p \in grouping => p \in Client
      /\ p \in grouping => pc[p] \in GroupLabels \cup WaitHolds \cup {"w_ref"}
    BY BeforeStep
<1>10. pc[p] = "w_ref" => refs >= 1
  <2>1. pc[p] = "w_ref" => handle
      BY DEF WorkInv, CloseOK, Closer, Unreferenced
  <2> QED
      BY <2>1, HandleHolds
<1>11. WaitRef(p) => ~ (refs' <= 1)
    BY <1>0, <1>10 DEF WaitRef
<1>1. CASE \E cancel \in BOOLEAN : CallWait(p, cancel)
  <2>1. /\ pc[p] = "idle" /\ pc' = [pc EXCEPT ![p] = "w_ref"]
        /\ ~closing
        /\ refs' = refs /\ outstanding' = outstanding /\ event' = event /\ freed' = freed
        /\ handle' = handle /\ grouping' = grouping /\ closing' = closing
      BY <1>1 DEF CallWait, Goto, objVars, useVars
  <2>2. LabelStep(p, "w_ref")
      BY <1>0, <2>1 DEF LabelStep, ClientLabels, ItemLabels, SubmitPc, WorkerPc,
         CloseLabels, GroupLabels, WaitHolds
  <2>3. CountStep(p, "w_ref")
      BY <1>0, <2>1 DEF CountStep, RefsOf, OutOf, One, HoldsWork, SubmitHolds,
         WaitHolds, Counting, Completed
  <2>4. EventStep(p, "w_ref")
      BY <1>0, <2>1 DEF EventStep, SetLabels
  <2> QED
      BY <2>1, <2>2, <2>3, <2>4, WorkMove
<1>2. CASE WaitRef(p)
  <2>0. PICK l \in {"w_cancel", "w_wait"} : pc' = [pc EXCEPT ![p] = l]
      BY <1>0, <1>2, <1>11 DEF WaitRef, Goto
  <2>1. /\ pc[p] = "w_ref"
        /\ refs' = refs + 1 /\ outstanding' = outstanding /\ event' = event /\ freed' = freed
        /\ handle' = handle /\ grouping' = grouping /\ closing' = closing
      BY <1>2 DEF WaitRef, Goto, objVars, useVars
  <2>2. LabelStep(p, l)
      BY <1>0, <2>0, <2>1 DEF LabelStep, ClientLabels, ItemLabels, SubmitPc, WorkerPc,
         CloseLabels, GroupLabels, WaitHolds
  <2>3. CountStep(p, l)
      BY <1>0, <2>0, <2>1 DEF CountStep, RefsOf, OutOf, One, HoldsWork, SubmitHolds,
         WaitHolds, Counting, Completed
  <2>4. EventStep(p, l)
      BY <1>0, <2>0, <2>1 DEF EventStep, SetLabels
  <2> QED
      BY <2>0, <2>1, <2>2, <2>3, <2>4, WorkMove
<1>3. CASE WaitCancel(p)
  <2>1. /\ pc[p] = "w_cancel" /\ pc' = [pc EXCEPT ![p] = "w_wait"]
        /\ refs' = refs /\ outstanding' = outstanding /\ event' = event /\ freed' = freed
        /\ handle' = handle /\ grouping' = grouping /\ closing' = closing
      BY <1>3 DEF WaitCancel, Goto, objVars, useVars
  <2>2. LabelStep(p, "w_wait")
      BY <1>0, <2>1 DEF LabelStep, ClientLabels, ItemLabels, SubmitPc, WorkerPc,
         CloseLabels, GroupLabels, WaitHolds
  <2>3. CountStep(p, "w_wait")
      BY <1>0, <2>1 DEF CountStep, RefsOf, OutOf, One, HoldsWork, SubmitHolds,
         WaitHolds, Counting, Completed
  <2>4. EventStep(p, "w_wait")
      BY <1>0, <2>1 DEF EventStep, SetLabels
  <2> QED
      BY <2>1, <2>2, <2>3, <2>4, WorkMove
<1>4. CASE WaitOver(p)
  <2>0. PICK l \in {"w_clear", "w_deref"} : pc' = [pc EXCEPT ![p] = l]
      BY <1>0, <1>4 DEF WaitOver, Goto
  <2>1. /\ pc[p] = "w_wait"
        /\ refs' = refs /\ outstanding' = outstanding /\ event' = event /\ freed' = freed
        /\ handle' = handle /\ grouping' = grouping /\ closing' = closing
      BY <1>4 DEF WaitOver, Goto, objVars, useVars
  <2>2. LabelStep(p, l)
      BY <1>0, <2>0, <2>1 DEF LabelStep, ClientLabels, ItemLabels, SubmitPc, WorkerPc,
         CloseLabels, GroupLabels, WaitHolds
  <2>3. CountStep(p, l)
      BY <1>0, <2>0, <2>1 DEF CountStep, RefsOf, OutOf, One, HoldsWork, SubmitHolds,
         WaitHolds, Counting, Completed
  <2>4. EventStep(p, l)
      BY <1>0, <2>0, <2>1 DEF EventStep, SetLabels
  <2> QED
      BY <2>0, <2>1, <2>2, <2>3, <2>4, WorkMove
<1>5. CASE WaitClear(p)
  <2>1. /\ pc[p] = "w_clear" /\ pc' = [pc EXCEPT ![p] = "w_deref"]
        /\ refs' = refs /\ outstanding' = outstanding /\ event' = event /\ freed' = freed
        /\ handle' = handle /\ grouping' = grouping /\ closing' = closing
      BY <1>5 DEF WaitClear, Goto, objVars, useVars
  <2>2. LabelStep(p, "w_deref")
      BY <1>0, <2>1 DEF LabelStep, ClientLabels, ItemLabels, SubmitPc, WorkerPc,
         CloseLabels, GroupLabels, WaitHolds
  <2>3. CountStep(p, "w_deref")
      BY <1>0, <2>1 DEF CountStep, RefsOf, OutOf, One, HoldsWork, SubmitHolds,
         WaitHolds, Counting, Completed
  <2>4. EventStep(p, "w_deref")
      BY <1>0, <2>1 DEF EventStep, SetLabels
  <2> QED
      BY <2>1, <2>2, <2>3, <2>4, WorkMove
<1>6. CASE WaitDeref(p)
  <2>0. PICK l \in {"g_callback", "idle"} :
          /\ pc' = [pc EXCEPT ![p] = l]
          /\ l = "g_callback" <=> p \in grouping
      BY <1>0, <1>6 DEF WaitDeref, Goto, Return
  <2>1. /\ pc[p] = "w_deref"
        /\ refs' = refs - 1 /\ outstanding' = outstanding /\ event' = event /\ (freed' => freed \/ refs = 1)
        /\ handle' = handle /\ grouping' = grouping /\ closing' = closing
      BY <1>6 DEF WaitDeref, Goto, objVars, useVars, Dereference
  <2>2. LabelStep(p, l)
      BY <1>0, <2>0, <2>1 DEF LabelStep, ClientLabels, ItemLabels, SubmitPc, WorkerPc,
         CloseLabels, GroupLabels, WaitHolds, Closer
  <2>3. CountStep(p, l)
      BY <1>0, <2>0, <2>1 DEF CountStep, RefsOf, OutOf, One, HoldsWork, SubmitHolds,
         WaitHolds, Counting, Completed
  <2>4. EventStep(p, l)
      BY <1>0, <2>0, <2>1 DEF EventStep, SetLabels
  <2> QED
      BY <2>0, <2>1, <2>2, <2>3, <2>4, WorkMove
<1> QED
    BY <1>1, <1>2, <1>3, <1>4, <1>5, <1>6

(* CloseThreadpoolWork up to the reference, and the cleanup group.         *)
LEMMA CloseMovesInv ==
  ASSUME WorkInv, NEW p \in Proc,
         \/ CloseRead(p) \/ CloseUnregister(p) \/ CloseDelete(p) \/ GroupDelete(p)
         \/ GroupCallback(p)
  PROVE  WorkInv'
<1>0. /\ p \in Client \/ p \in Item
      /\ ~ (p \in Client /\ p \in Item)
      /\ refs \in Nat /\ outstanding \in Nat
      /\ freed => refs = 0
      /\ freed => pc[p] \in {"idle", "none"}
      /\ p \in grouping => p \in Client
      /\ p \in grouping => pc[p] \in GroupLabels \cup WaitHolds \cup {"w_ref"}
    BY BeforeStep
<1>10. pc[p] \in GroupLabels => p \in grouping
    BY <1>0 DEF WorkInv, CloseOK, WorkTypes, ItemLabels, WorkerPc, SubmitPc, CloseLabels,
                GroupLabels
<1>1. CASE CloseRead(p)
  <2>0. PICK l \in {"c_lock", "c_delete"} : pc' = [pc EXCEPT ![p] = l]
      BY <1>0, <1>1 DEF CloseRead, Goto
  <2>1. /\ pc[p] = "c_read"
        /\ refs' = refs /\ outstanding' = outstanding /\ event' = event /\ freed' = freed
        /\ handle' = handle /\ grouping' = grouping /\ closing' = closing
      BY <1>1 DEF CloseRead, Goto, objVars, useVars
  <2>2. LabelStep(p, l)
      BY <1>0, <2>0, <2>1 DEF LabelStep, ClientLabels, ItemLabels, SubmitPc, WorkerPc,
         CloseLabels, GroupLabels, WaitHolds, Closer
  <2>3. CountStep(p, l)
      BY <1>0, <2>0, <2>1 DEF CountStep, RefsOf, OutOf, One, HoldsWork, SubmitHolds,
         WaitHolds, Counting, Completed
  <2>4. EventStep(p, l)
      BY <1>0, <2>0, <2>1 DEF EventStep, SetLabels
  <2> QED
      BY <2>0, <2>1, <2>2, <2>3, <2>4, WorkMove
<1>2. CASE CloseUnregister(p)
  <2>1. /\ pc[p] = "c_lock" /\ pc' = [pc EXCEPT ![p] = "c_delete"]
        /\ refs' = refs /\ outstanding' = outstanding /\ event' = event /\ freed' = freed
        /\ handle' = handle /\ grouping' = grouping /\ closing' = closing
      BY <1>2 DEF CloseUnregister, Goto, objVars, useVars
  <2>2. LabelStep(p, "c_delete")
      BY <1>0, <2>1 DEF LabelStep, ClientLabels, ItemLabels, SubmitPc, WorkerPc,
         CloseLabels, GroupLabels, WaitHolds, Closer
  <2>3. CountStep(p, "c_delete")
      BY <1>0, <2>1 DEF CountStep, RefsOf, OutOf, One, HoldsWork, SubmitHolds,
         WaitHolds, Counting, Completed
  <2>4. EventStep(p, "c_delete")
      BY <1>0, <2>1 DEF EventStep, SetLabels
  <2> QED
      BY <2>1, <2>2, <2>3, <2>4, WorkMove
<1>3. CASE CloseDelete(p)
  <2>1. /\ pc[p] = "c_delete" /\ pc' = [pc EXCEPT ![p] = "c_deref"]
        /\ refs' = refs /\ outstanding' = outstanding /\ event' = event /\ freed' = freed
        /\ handle' = handle /\ grouping' = grouping /\ closing' = closing
      BY <1>3 DEF CloseDelete, Goto, objVars, useVars
  <2>2. LabelStep(p, "c_deref")
      BY <1>0, <2>1 DEF LabelStep, ClientLabels, ItemLabels, SubmitPc, WorkerPc,
         CloseLabels, GroupLabels, WaitHolds, Closer
  <2>3. CountStep(p, "c_deref")
      BY <1>0, <2>1 DEF CountStep, RefsOf, OutOf, One, HoldsWork, SubmitHolds,
         WaitHolds, Counting, Completed
  <2>4. EventStep(p, "c_deref")
      BY <1>0, <2>1 DEF EventStep, SetLabels
  <2> QED
      BY <2>1, <2>2, <2>3, <2>4, WorkMove
<1>4. CASE GroupDelete(p)
  <2>1. /\ pc[p] = "g_delete" /\ pc' = [pc EXCEPT ![p] = "w_ref"]
        /\ refs' = refs /\ outstanding' = outstanding /\ event' = event /\ freed' = freed
        /\ handle' = handle /\ grouping' = grouping /\ closing' = closing
      BY <1>4 DEF GroupDelete, Goto, objVars, useVars
  <2>2. LabelStep(p, "w_ref")
      BY <1>0, <2>1, <1>10 DEF LabelStep, ClientLabels, ItemLabels, SubmitPc, WorkerPc,
         CloseLabels, GroupLabels, WaitHolds
  <2>3. CountStep(p, "w_ref")
      BY <1>0, <2>1 DEF CountStep, RefsOf, OutOf, One, HoldsWork, SubmitHolds,
         WaitHolds, Counting, Completed
  <2>4. EventStep(p, "w_ref")
      BY <1>0, <2>1 DEF EventStep, SetLabels
  <2> QED
      BY <2>1, <2>2, <2>3, <2>4, WorkMove
<1>5. CASE GroupCallback(p)
  <2>1. /\ pc[p] = "g_callback" /\ pc' = [pc EXCEPT ![p] = "g_deref"]
        /\ refs' = refs /\ outstanding' = outstanding /\ event' = event /\ freed' = freed
        /\ handle' = handle /\ grouping' = grouping /\ closing' = closing
      BY <1>5 DEF GroupCallback, Goto, objVars, useVars
  <2>2. LabelStep(p, "g_deref")
      BY <1>0, <2>1, <1>10 DEF LabelStep, ClientLabels, ItemLabels, SubmitPc, WorkerPc,
         CloseLabels, GroupLabels, WaitHolds, Closer
  <2>3. CountStep(p, "g_deref")
      BY <1>0, <2>1 DEF CountStep, RefsOf, OutOf, One, HoldsWork, SubmitHolds,
         WaitHolds, Counting, Completed
  <2>4. EventStep(p, "g_deref")
      BY <1>0, <2>1 DEF EventStep, SetLabels
  <2> QED
      BY <2>1, <2>2, <2>3, <2>4, WorkMove
<1> QED
    BY <1>1, <1>2, <1>3, <1>4, <1>5

(* ExQueueWorkItem: the submission's reference and count go to the item.   *)
LEMMA QueueInv ==
  ASSUME WorkInv, NEW p \in Proc, NEW i \in Item, SubmitQueue(p, i)
  PROVE  WorkInv'
<1> USE DEF WorkInv
<1>0. /\ p \in Client \/ p \in Item
      /\ ~ (p \in Client /\ p \in Item)
      /\ refs \in Nat /\ outstanding \in Nat
      /\ p \in grouping => pc[p] \in GroupLabels \cup WaitHolds \cup {"w_ref"}
    BY BeforeStep
<1>1. PICK l : l = Return(p)
    OBVIOUS
<1>2. /\ pc[p] = "s_alloc" /\ pc[i] = "none" /\ i # p /\ i \in Proc
      /\ pc' = [pc EXCEPT ![p] = l, ![i] = "queued"]
      /\ UNCHANGED <<refs, outstanding, event, freed, handle, closing, grouping>>
    BY <1>1 DEF SubmitQueue, objVars, useVars, Proc
<1>3. l = IF p \in Item THEN "run" ELSE "idle"
    BY <1>0, <1>1, <1>2 DEF Return, GroupLabels, WaitHolds
<1>4. \A q \in Proc : pc'[q] = IF q = i THEN "queued" ELSE IF q = p THEN l ELSE pc[q]
  <2>1. pc \in [Proc -> ClientLabels \cup ItemLabels]
      BY DEF WorkTypes
  <2> QED
      BY <1>2, <2>1
<1>5. (\A c \in Client : c \in Proc /\ c # i) /\ (\A j \in Item : j \in Proc)
    BY WorkAssumption DEF Proc
<1>6. WorkTypes'
  <2>1. /\ "queued" \in ItemLabels /\ "run" \in ItemLabels /\ "idle" \in ClientLabels
        /\ l \in ClientLabels \cup ItemLabels
      BY <1>3 DEF ItemLabels, WorkerPc, ClientLabels
  <2>2. pc' \in [Proc -> ClientLabels \cup ItemLabels]
      BY <1>2, <2>1 DEF WorkTypes
  <2>3. \A c \in Client : pc'[c] \in ClientLabels
      BY <1>0, <1>3, <1>4, <1>5, <2>1 DEF WorkTypes
  <2>4. \A j \in Item : pc'[j] \in ItemLabels
      BY <1>0, <1>3, <1>4, <1>5, <2>1 DEF WorkTypes
  <2> QED
      BY <1>2, <2>2, <2>3, <2>4 DEF WorkTypes
<1>7. /\ LiveItems' \ {i} = LiveItems \ {i} /\ i \notin LiveItems /\ i \in LiveItems'
      /\ OpenItems' \ {i} = OpenItems \ {i} /\ i \notin OpenItems /\ i \in OpenItems'
  <2> HIDE DEF WorkInv
  <2>0. p \in Item => pc'[p] = "run"
      BY <1>2, <1>3, <1>4
  <2>1. \A j \in Item \ {i} : /\ pc'[j] # "none" <=> pc[j] # "none"
                              /\ pc'[j] \notin Completed <=> pc[j] \notin Completed
      BY <1>2, <1>4, <1>5, <2>0 DEF Completed
  <2>2. pc'[i] = "queued" /\ "queued" \notin Completed /\ pc[i] \in Completed
      BY <1>2, <1>4 DEF Completed
  <2> QED
      BY <1>2, <2>1, <2>2 DEF LiveItems, OpenItems
<1>8. /\ CallHolders' \ {p} = CallHolders \ {p} /\ p \in CallHolders /\ p \notin CallHolders'
      /\ CallCounts' \ {p} = CallCounts \ {p} /\ p \in CallCounts /\ p \notin CallCounts'
  <2> HIDE DEF WorkInv
  <2>0. pc'[p] \in {"run", "idle"}
      BY <1>2, <1>3, <1>4
  <2>1. \A q \in Proc \ {p} : /\ pc'[q] \in HoldsWork <=> pc[q] \in HoldsWork
                              /\ pc'[q] \in Counting <=> pc[q] \in Counting
    <3>1. \A q \in Proc \ {p, i} : pc'[q] = pc[q]
        BY <1>4
    <3>2. /\ pc'[i] \notin HoldsWork /\ pc'[i] \notin Counting
          /\ pc[i] \notin HoldsWork /\ pc[i] \notin Counting
      <4>1. pc'[i] = "queued" /\ pc[i] = "none"
          BY <1>2, <1>4
      <4> QED
          BY <4>1 DEF HoldsWork, SubmitHolds, WaitHolds, Counting
    <3> QED
        BY <3>1, <3>2
  <2>2. /\ pc'[p] \notin HoldsWork /\ pc'[p] \notin Counting
        /\ pc[p] \in HoldsWork /\ pc[p] \in Counting
      BY <1>2, <2>0 DEF HoldsWork, SubmitHolds, WaitHolds, Counting
  <2> QED
      BY <2>1, <2>2 DEF CallHolders, CallCounts
<1>9. /\ Cardinality(LiveItems') = Cardinality(LiveItems) + 1
      /\ Cardinality(OpenItems') = Cardinality(OpenItems) + 1
  <2> HIDE DEF WorkInv
  <2>1. IsFiniteSet(LiveItems) /\ IsFiniteSet(OpenItems)
      BY WorkSetsFinite
  <2>2. Cardinality(LiveItems') = Cardinality(LiveItems) + 1
      BY <1>7, <2>1, OneEnters
  <2>3. Cardinality(OpenItems') = Cardinality(OpenItems) + 1
      BY <1>7, <2>1, OneEnters
  <2> QED
      BY <2>2, <2>3
<1>10. /\ Cardinality(CallHolders') = Cardinality(CallHolders) - 1
       /\ Cardinality(CallCounts') = Cardinality(CallCounts) - 1
  <2> HIDE DEF WorkInv
  <2>1. IsFiniteSet(CallHolders) /\ IsFiniteSet(CallCounts)
      BY WorkSetsFinite
  <2>2. Cardinality(CallHolders') = Cardinality(CallHolders) - 1
      BY <1>8, <2>1, OneLeaves
  <2>3. Cardinality(CallCounts') = Cardinality(CallCounts) - 1
      BY <1>8, <2>1, OneLeaves
  <2> QED
      BY <2>2, <2>3
<1>11. RefsOK'
  <2>1. refs = One(handle) + Cardinality(LiveItems) + Cardinality(CallHolders)
        /\ One(handle) \in Nat /\ One(handle') = One(handle)
      BY <1>2 DEF RefsOK, One
  <2>2. Cardinality(LiveItems) \in Nat /\ Cardinality(CallHolders) \in Nat
      BY WorkCounts
  <2> QED
      BY <1>2, <1>9, <1>10, <2>1, <2>2 DEF RefsOK
<1>12. OutOK'
  <2>1. outstanding = Cardinality(OpenItems) + Cardinality(CallCounts)
      BY DEF OutOK
  <2>2. Cardinality(OpenItems) \in Nat /\ Cardinality(CallCounts) \in Nat
      BY WorkCounts
  <2> QED
      BY <1>2, <1>9, <1>10, <2>1, <2>2 DEF OutOK
<1>13. CloseOK'
  <2>1. \A q \in Proc : Closer(q)' => Closer(q)
      BY <1>2, <1>3, <1>4 DEF Closer, CloseLabels, GroupLabels
  <2>2. \A c \in Client : Unreferenced(c)' => ~closing
      BY <1>2, <1>3, <1>4, <1>5 DEF Unreferenced, CloseOK
  <2>3. p \notin grouping
      BY <1>0, <1>2 DEF GroupLabels, WaitHolds
  <2>4. \A c \in Client : c \in grouping => pc'[c] \in GroupLabels \cup WaitHolds \cup {"w_ref"}
      BY <1>4, <1>5, <2>3 DEF CloseOK
  <2>5. \A c \in Client : pc'[c] \in GroupLabels => c \in grouping
      BY <1>3, <1>4, <1>5 DEF CloseOK, GroupLabels
  <2> QED
      BY <1>2, <2>1, <2>2, <2>4, <2>5 DEF CloseOK
<1>14. NoLostEvent'
  <2>1. outstanding >= 1
      BY <1>2, CountedCalls DEF Counting
  <2> QED
      BY <1>2, <2>1 DEF NoLostEvent, Setting
<1>15. FreedOK'
    BY <1>2 DEF FreedOK
<1> QED
    BY <1>6, <1>11, <1>12, <1>13, <1>14, <1>15

(* A close begins; no call is left that has no reference of its own.       *)
LEMMA CloseBegins ==
  ASSUME WorkInv, NEW p \in Proc, MayClose(p), closing' = TRUE,
         NEW l \in {"c_read", "g_delete"}, pc' = [pc EXCEPT ![p] = l],
         l = "g_delete" => p \in Client,
         grouping' = IF l = "g_delete" THEN grouping \cup {p} ELSE grouping,
         UNCHANGED <<refs, outstanding, event, freed, handle>>
  PROVE  WorkInv'
<1> USE DEF WorkInv
<1>0. /\ p \in Client \/ p \in Item
      /\ ~ (p \in Client /\ p \in Item)
      /\ refs \in Nat /\ outstanding \in Nat
    BY BeforeStep
<1>1. /\ pc[p] = (IF p \in Client THEN "idle" ELSE "run") /\ ~closing
      /\ \A c \in Client : pc[c] \notin {"s_check", "s_ref", "w_ref"}
    BY DEF MayClose, MayCall
<1>2. handle /\ (\A q \in Proc : ~Closer(q)) /\ grouping = {}
  <2>1. handle /\ \A q \in Proc : ~Closer(q)
      BY <1>1 DEF CloseOK
  <2> QED
      BY <2>1 DEF Closer, WorkTypes, Proc
<1>3. WorkTypes' /\ NoLostEvent' /\ \A q \in Proc : pc'[q] = IF q = p THEN l ELSE pc[q]
  <2>1. EventStep(p, l)
      BY <1>0, <1>1 DEF EventStep, SetLabels
  <2>2. (p \in Client => l \in ClientLabels) /\ (p \in Item => l \in ItemLabels)
        /\ grouping' \subseteq Client
      BY <1>0, <1>2 DEF ClientLabels, ItemLabels, CloseLabels, GroupLabels
  <2> QED
      BY <2>1, <2>2, PartsMove
<1>4. RefsOK' /\ OutOK'
  <2>1. /\ refs' = refs + One(handle') - One(handle) + RefsOf(p, l) - RefsOf(p, pc[p])
        /\ outstanding' = outstanding + OutOf(p, l) - OutOf(p, pc[p])
      BY <1>0, <1>1 DEF RefsOf, OutOf, One, HoldsWork, SubmitHolds, WaitHolds, Counting,
                        Completed
  <2> QED
      BY <2>1, CountsMove
<1>5. CloseOK'
  <2>1. \A q \in Proc : Closer(q)' => q = p
      BY <1>2, <1>3 DEF Closer
  <2>2. \A c \in Client : ~Unreferenced(c)'
      BY <1>1, <1>3 DEF Unreferenced, Proc
  <2>3. \A c \in Client : c \in grouping' => pc'[c] \in GroupLabels
      BY <1>2, <1>3 DEF GroupLabels
  <2>4. \A c \in Client : pc'[c] \in GroupLabels => c \in grouping'
      BY <1>2, <1>3 DEF CloseOK, GroupLabels, Proc, Closer
  <2>5. handle'
      BY <1>2
  <2> QED
      BY <2>1, <2>2, <2>3, <2>4, <2>5 DEF CloseOK
<1> QED
    BY <1>3, <1>4, <1>5 DEF FreedOK

(* The close gives up the reference of the handle.                         *)
LEMMA CloseEnds ==
  ASSUME WorkInv, NEW p \in Proc, pc[p] \in {"c_deref", "g_deref"}, NEW l \in {"run", "idle"},
         pc' = [pc EXCEPT ![p] = l], l = "run" <=> p \in Item,
         handle' = FALSE, refs' = refs - 1, freed' => freed \/ refs = 1,
         grouping' = grouping \ {p}, closing' = closing,
         UNCHANGED <<outstanding, event>>
  PROVE  WorkInv'
<1> USE DEF WorkInv
<1>0. /\ p \in Client \/ p \in Item
      /\ ~ (p \in Client /\ p \in Item)
      /\ refs \in Nat /\ outstanding \in Nat
      /\ freed => pc[p] \in {"idle", "none"}
    BY BeforeStep
<1>1. Closer(p)
    BY DEF Closer, CloseLabels, GroupLabels
<1>2. handle /\ closing /\ \A q \in Proc : Closer(q) => q = p
    BY <1>1 DEF CloseOK
<1>3. WorkTypes' /\ NoLostEvent' /\ \A q \in Proc : pc'[q] = IF q = p THEN l ELSE pc[q]
  <2>1. EventStep(p, l)
      BY <1>0 DEF EventStep, SetLabels
  <2>2. (p \in Client => l \in ClientLabels) /\ (p \in Item => l \in ItemLabels)
        /\ grouping' \subseteq Client
      BY <1>0 DEF ClientLabels, ItemLabels, WorkerPc, WorkTypes
  <2> QED
      BY <2>1, <2>2, PartsMove
<1>4. RefsOK' /\ OutOK'
  <2>0. One(handle') = 0 /\ One(handle) = 1
      BY <1>2 DEF One
  <2>1. /\ RefsOf(p, l) = RefsOf(p, pc[p]) /\ RefsOf(p, l) \in Nat
        /\ OutOf(p, l) = OutOf(p, pc[p]) /\ OutOf(p, l) \in Nat
      BY <1>0 DEF RefsOf, OutOf, One, HoldsWork, SubmitHolds, WaitHolds, Counting, Completed
  <2>2. /\ refs' = refs + One(handle') - One(handle) + RefsOf(p, l) - RefsOf(p, pc[p])
        /\ outstanding' = outstanding + OutOf(p, l) - OutOf(p, pc[p])
      BY <1>0, <2>0, <2>1
  <2> QED
      BY <2>2, CountsMove
<1>5. CloseOK'
  <2>1. \A q \in Proc : ~Closer(q)'
      BY <1>2, <1>3 DEF Closer, CloseLabels, GroupLabels
  <2>2. \A c \in Client : ~Unreferenced(c)'
    <3>1. \A c \in Client : ~Unreferenced(c)
        BY <1>2 DEF CloseOK
    <3> QED
        BY <1>2, <1>3, <3>1 DEF Unreferenced, Proc
  <2>3. \A c \in Client : c \notin grouping' /\ pc'[c] \notin GroupLabels
      BY <2>1 DEF Closer, Proc
  <2> QED
      BY <1>2, <2>1, <2>2, <2>3 DEF CloseOK
<1>6. FreedOK'
    BY <1>0 DEF FreedOK
<1> QED
    BY <1>3, <1>4, <1>5, <1>6

LEMMA WorkStepInv == WorkInv /\ [Next]_vars => WorkInv'
<1> SUFFICES ASSUME WorkInv, [Next]_vars PROVE WorkInv'
    OBVIOUS
<1>1. ASSUME NEW p \in Proc, CallClose(p) PROVE WorkInv'
    BY <1>1, CloseBegins DEF CallClose, Goto, objVars
<1>2. ASSUME NEW c \in Client, NEW cancel \in BOOLEAN, CallGroupClose(c, cancel) PROVE WorkInv'
  <2>1. c \in Proc
      BY DEF Proc
  <2> QED
      BY <1>2, <2>1, CloseBegins DEF CallGroupClose, Goto, objVars
<1>3. ASSUME NEW p \in Proc, CloseDeref(p) PROVE WorkInv'
  <2>1. /\ p \in Client \/ p \in Item
        /\ p \in grouping => pc[p] \in GroupLabels \cup WaitHolds \cup {"w_ref"}
      BY BeforeStep
  <2>2. pc[p] = "c_deref" /\ p \notin grouping
      BY <1>3, <2>1 DEF CloseDeref, GroupLabels, WaitHolds
  <2>3. PICK l \in {"run", "idle"} : pc' = [pc EXCEPT ![p] = l] /\ (l = "run" <=> p \in Item)
      BY <1>3, <2>1, <2>2 DEF CloseDeref, Goto, Return
  <2>4. /\ handle' = FALSE /\ refs' = refs - 1 /\ (freed' => freed \/ refs = 1)
        /\ closing' = closing /\ grouping' = grouping \ {p}
        /\ UNCHANGED <<outstanding, event>>
      BY <1>3, <2>2 DEF CloseDeref, Dereference, useVars
  <2> QED
      BY <2>2, <2>3, <2>4, CloseEnds
<1>4. ASSUME NEW c \in Client, GroupDeref(c) PROVE WorkInv'
  <2>1. c \in Proc /\ c \notin Item
      BY WorkAssumption DEF Proc
  <2>2. /\ pc[c] = "g_deref" /\ pc' = [pc EXCEPT ![c] = "idle"]
        /\ handle' = FALSE /\ refs' = refs - 1 /\ (freed' => freed \/ refs = 1)
        /\ closing' = closing /\ grouping' = grouping \ {c}
        /\ UNCHANGED <<outstanding, event>>
      BY <1>4 DEF GroupDeref, Dereference, Goto
  <2> QED
      BY <2>1, <2>2, CloseEnds
<1>5. CASE UNCHANGED <<pc, objVars, useVars>>
  <2> USE <1>5 DEF objVars, useVars
  <2>1. /\ LiveItems' = LiveItems /\ CallHolders' = CallHolders
        /\ OpenItems' = OpenItems /\ CallCounts' = CallCounts
      BY DEF LiveItems, CallHolders, OpenItems, CallCounts
  <2>2. WorkTypes' /\ FreedOK' /\ NoLostEvent'
      BY DEF WorkInv, WorkTypes, FreedOK, NoLostEvent, Setting
  <2>3. RefsOK' /\ OutOK'
      BY <2>1 DEF WorkInv, RefsOK, OutOK
  <2>4. CloseOK'
      BY DEF WorkInv, CloseOK, Closer, Unreferenced
  <2> QED
      BY <2>2, <2>3, <2>4 DEF WorkInv
<1>6. ASSUME NEW c \in Client, Wait(c) PROVE WorkInv'
    BY <1>6, WaitInv DEF Wait, Proc
<1>7. ASSUME NEW c \in Client, GroupClose(c) PROVE WorkInv'
    BY <1>2, <1>4, <1>7, CloseMovesInv DEF GroupClose, Proc
<1>8. ASSUME NEW i \in Item, Worker(i) PROVE WorkInv'
    BY <1>8, WorkerInv DEF Worker, Proc
<1>9. ASSUME NEW p \in Proc, Submit(p) \/ CloseSteps(p) PROVE WorkInv'
    BY <1>3, <1>9, SubmitInv, QueueInv, CloseMovesInv DEF Submit, CloseSteps
<1>10. CASE FreeLibrary \/ Finished \/ UNCHANGED vars \/ \E i \in Item : DeferFree(i)
    BY <1>5, <1>10 DEF FreeLibrary, Finished, DeferFree, vars
<1> QED
    BY <1>1, <1>6, <1>7, <1>8, <1>9, <1>10 DEF Next

(* The inductive invariant of the work object.                             *)
THEOREM WorkInvariance == Spec => []WorkInv
<1>1. Init => WorkInv
  <2> SUFFICES ASSUME Init PROVE WorkInv
      OBVIOUS
  <2> USE DEF Init
  <2>1. /\ \A c \in Client : pc[c] = "idle" /\ c \in Proc
        /\ \A i \in Item : pc[i] = "none" /\ i \in Proc
      BY WorkAssumption DEF Proc
  <2>2. WorkTypes
      BY <2>1 DEF WorkTypes, ClientLabels, ItemLabels, Proc
  <2>3. LiveItems = {} /\ CallHolders = {} /\ OpenItems = {} /\ CallCounts = {}
      BY <2>1 DEF LiveItems, CallHolders, OpenItems, CallCounts, HoldsWork, SubmitHolds,
                  WaitHolds, Counting, Completed, Proc
  <2>4. RefsOK /\ OutOK
      BY <2>3, FS_EmptySet DEF RefsOK, OutOK, One
  <2>5. \A p \in Proc : ~Closer(p)
      BY <2>1 DEF Closer, CloseLabels, GroupLabels, Proc
  <2>6. \A c \in Client : pc[c] \notin GroupLabels /\ ~Unreferenced(c)
      BY <2>1 DEF GroupLabels, Unreferenced
  <2>7. CloseOK
      BY <2>5, <2>6 DEF CloseOK
  <2> QED
      BY <2>2, <2>4, <2>7 DEF WorkInv, FreedOK, NoLostEvent, Setting
<1> QED
    BY <1>1, WorkStepInv, PTL DEF Spec

(* However submissions, completions, waits, cancellations and the close    *)
(* overlap, LdkpDereferenceThreadpoolWork frees a work object when nobody  *)
(* is inside a call on it, and its event is not left reset with nothing    *)
(* outstanding.                                                            *)
THEOREM WorkObjectKept == Spec => []WorkObjectSafe
<1>1. WorkInv => WorkObjectSafe
    BY FreedQuiet DEF WorkObjectSafe, WorkInv
<1> QED
    BY <1>1, WorkInvariance, PTL

-----------------------------------------------------------------------------
(* The DLL of the callbacks.  A work item has its references from the time *)
(* it is taken from the queue until its callback has ended.                *)

HeldAt == SubmitPc \cup CloseLabels \cup {"run", "end"}

HeldOK == \A i \in held \cup deferred : i \in Item /\ pc[i] \in HeldAt

DllInv == HeldOK /\ (own => deferred = {} /\ ~leaked) /\ DllExact

LEMMA HeldFinite ==
  ASSUME HeldOK
  PROVE  /\ IsFiniteSet(held) /\ IsFiniteSet(deferred)
         /\ Cardinality(held) \in Nat /\ Cardinality(deferred) \in Nat
<1>1. held \subseteq Item /\ deferred \subseteq Item
    BY DEF HeldOK
<1> QED
    BY <1>1, WorkAssumption, FS_Subset, FS_CardinalityType

(* A step that keeps the references to the DLL.                            *)
LEMMA DllMove ==
  ASSUME WorkInv, DllInv, NEW p \in Proc, NEW l, pc' = [pc EXCEPT ![p] = l],
         p \in Item /\ pc[p] \in HeldAt => l \in HeldAt, UNCHANGED dllVars
  PROVE  DllInv'
<1> USE DEF dllVars, DllInv
<1>1. \A q \in Proc : pc'[q] = IF q = p THEN l ELSE pc[q]
    BY DEF WorkInv, WorkTypes
<1>2. HeldOK'
    BY <1>1 DEF HeldOK, Proc
<1>3. DllExact' /\ (own => deferred = {} /\ ~leaked)'
    BY DEF DllExact, One
<1> QED
    BY <1>2, <1>3

LEMMA DllStepInv == WorkInv /\ DllInv /\ [Next]_vars => DllInv'
<1> SUFFICES ASSUME WorkInv, DllInv, [Next]_vars PROVE DllInv'
    OBVIOUS
<1>0. /\ \A i \in Item : i \in Proc /\ i \notin Client
      /\ \A c \in Client : c \in Proc /\ c \notin Item
      /\ pc \in [Proc -> ClientLabels \cup ItemLabels]
    BY WorkAssumption DEF Proc, WorkInv, WorkTypes
<1>1. ASSUME NEW p \in Proc, NEW l, pc' = [pc EXCEPT ![p] = l], UNCHANGED dllVars,
             p \in Item => l \in HeldAt \/ pc[p] \notin HeldAt
      PROVE  DllInv'
    BY <1>1, DllMove
<1>2. ASSUME NEW p \in Proc, NEW i \in Item, SubmitQueue(p, i) PROVE DllInv'
  <2>1. /\ pc[i] = "none" /\ pc[p] = "s_alloc" /\ i # p /\ UNCHANGED dllVars
        /\ pc' = [pc EXCEPT ![p] = Return(p), ![i] = "queued"]
      BY <1>2 DEF SubmitQueue
  <2>2. \A j \in Item : j # i => pc'[j] = pc[j] \/ pc'[j] = "run"
      BY <1>0, <2>1 DEF Return
  <2>3. "none" \notin HeldAt /\ "run" \in HeldAt
      BY DEF HeldAt, SubmitPc, CloseLabels
  <2>4. HeldOK'
      BY <2>1, <2>2, <2>3 DEF DllInv, HeldOK, dllVars
  <2>5. DllExact' /\ (own => deferred = {} /\ ~leaked)'
      BY <2>1 DEF DllInv, dllVars, DllExact, One
  <2> QED
      BY <2>4, <2>5 DEF DllInv
<1>3. ASSUME NEW p \in Proc,
             \/ CallSubmit(p) \/ SubmitCheck(p) \/ SubmitRef(p) \/ SubmitOut(p)
             \/ SubmitReset(p) \/ SubmitAllocFails(p) \/ SubmitUndo(p)
             \/ SubmitSet(p) \/ SubmitDeref(p) \/ CallClose(p) \/ CloseSteps(p)
      PROVE  DllInv'
  <2>1. PICK l : pc' = [pc EXCEPT ![p] = l] /\ (p \in Item => l \in HeldAt)
      BY <1>3 DEF CallSubmit, SubmitCheck, SubmitRef, SubmitOut, SubmitReset, SubmitAllocFails,
                  SubmitUndo, SubmitSet, SubmitDeref, CallClose, CloseSteps, CloseRead,
                  CloseUnregister, CloseDelete, CloseDeref, Goto, Return, HeldAt, SubmitPc,
                  CloseLabels
  <2>2. UNCHANGED dllVars
      BY <1>3 DEF CallSubmit, SubmitCheck, SubmitRef, SubmitOut, SubmitReset, SubmitAllocFails,
                  SubmitUndo, SubmitSet, SubmitDeref, CallClose, CloseSteps, CloseRead,
                  CloseUnregister, CloseDelete, CloseDeref
  <2> QED
      BY <1>1, <2>1, <2>2
<1>4. ASSUME NEW c \in Client, Wait(c) \/ GroupClose(c) PROVE DllInv'
  <2>1. \E l : pc' = [pc EXCEPT ![c] = l]
      BY <1>4 DEF Wait, CallWait, WaitRef, WaitCancel, WaitOver, WaitClear, WaitDeref, GroupClose,
                  CallGroupClose, GroupDelete, GroupCallback, GroupDeref, Goto
  <2>2. UNCHANGED dllVars
      BY <1>4 DEF Wait, CallWait, WaitRef, WaitCancel, WaitOver, WaitClear, WaitDeref, GroupClose,
                  CallGroupClose, GroupDelete, GroupCallback, GroupDeref
  <2> QED
      BY <1>0, <1>1, <2>1, <2>2
<1>5. ASSUME NEW i \in Item, \/ CallbackReturns(i) \/ CompleteOut(i) \/ CompleteClear(i)
                             \/ CompleteSet(i) \/ CompleteDeref(i)
      PROVE  DllInv'
  <2>1. PICK l : pc' = [pc EXCEPT ![i] = l] /\ (l \in HeldAt \/ pc[i] \notin HeldAt)
      BY <1>5 DEF CallbackReturns, CompleteOut, CompleteClear, CompleteSet, CompleteDeref, Goto,
                  HeldAt, SubmitPc, CloseLabels
  <2>2. UNCHANGED dllVars
      BY <1>5 DEF CallbackReturns, CompleteOut, CompleteClear, CompleteSet, CompleteDeref
  <2> QED
      BY <1>0, <1>1, <2>1, <2>2
<1>6. ASSUME NEW i \in Item, Dequeue(i) PROVE DllInv'
  <2>1. PICK l \in {"end", "run"} : pc' = [pc EXCEPT ![i] = l]
      BY <1>6 DEF Dequeue, Goto
  <2>2. /\ pc[i] = "queued" /\ UNCHANGED <<own, deferred, leaked>>
        /\ \/ UNCHANGED <<held, dll>>
           \/ held' = held \cup {i} /\ dll' = dll + 1
      BY <1>6 DEF Dequeue
  <2>3. i \notin held /\ i \notin deferred
      BY <2>2 DEF DllInv, HeldOK, HeldAt, SubmitPc, CloseLabels
  <2>4. HeldOK'
    <3>1. \A j \in Item : pc'[j] = IF j = i THEN l ELSE pc[j]
        BY <1>0, <2>1
    <3>2. l \in HeldAt
        BY DEF HeldAt
    <3> QED
        BY <2>2, <3>1, <3>2 DEF DllInv, HeldOK
  <2>5. IsFiniteSet(held) /\ Cardinality(held) \in Nat /\ Cardinality(deferred) \in Nat
      BY HeldFinite DEF DllInv
  <2>6. Cardinality(held \cup {i}) = Cardinality(held) + 1
      BY <2>3, <2>5, FS_AddElement
  <2>7. DllExact'
    <3>1. /\ One(own) \in Nat /\ One(leaked) \in Nat
          /\ One(own') = One(own) /\ One(leaked') = One(leaked)
        BY <2>2 DEF One
    <3>2. dll = One(own) + Cardinality(held) + Cardinality(deferred) + One(leaked)
        BY DEF DllInv, DllExact
    <3>3. CASE UNCHANGED <<held, dll>>
        BY <2>2, <3>1, <3>2, <3>3 DEF DllExact
    <3>4. CASE held' = held \cup {i} /\ dll' = dll + 1
        BY <2>2, <2>5, <2>6, <3>1, <3>2, <3>4 DEF DllExact
    <3> QED
        BY <2>2, <3>3, <3>4
  <2>8. (own => deferred = {} /\ ~leaked)'
      BY <2>2 DEF DllInv
  <2> QED
      BY <2>4, <2>7, <2>8 DEF DllInv
<1>7. ASSUME NEW i \in Item, EndCallback(i) PROVE DllInv'
  <2>1. /\ dll' = dll - Cardinality({i} \cap held) - Cardinality({i} \cap deferred)
        /\ held' = held \ {i} /\ deferred' = deferred \ {i}
        /\ pc' = [pc EXCEPT ![i] = "x_out"] /\ UNCHANGED <<own, leaked>>
      BY <1>7 DEF EndCallback, Goto
  <2>2. HeldOK'
    <3>1. \A j \in Item : j # i => pc'[j] = pc[j]
        BY <1>0, <2>1
    <3> QED
        BY <2>1, <3>1 DEF DllInv, HeldOK
  <2>3. ASSUME NEW S, IsFiniteSet(S)
        PROVE  /\ Cardinality({i} \cap S) \in Nat /\ Cardinality(S \ {i}) \in Nat
               /\ Cardinality(S) = Cardinality(S \ {i}) + Cardinality({i} \cap S)
    <3>1. IsFiniteSet(S \ {i}) /\ Cardinality(S \ {i}) \in Nat /\ Cardinality(S) \in Nat
        BY <2>3, FS_Subset, FS_CardinalityType
    <3>2. CASE i \in S
      <4>1. {i} \cap S = {i}
          BY <3>2
      <4>2. Cardinality({i} \cap S) = 1
          BY <4>1, FS_Singleton
      <4>3. Cardinality(S \ {i}) = Cardinality(S) - 1
          BY <2>3, <3>2, FS_RemoveElement
      <4> QED
          BY <3>1, <4>2, <4>3
    <3>3. CASE i \notin S
      <4>1. {i} \cap S = {} /\ S \ {i} = S
          BY <3>3
      <4>2. Cardinality({i} \cap S) = 0
          BY <4>1, FS_EmptySet
      <4> QED
          BY <3>1, <4>1, <4>2
    <3> QED
        BY <3>2, <3>3
  <2>4. /\ IsFiniteSet(held) /\ IsFiniteSet(deferred)
      BY HeldFinite DEF DllInv
  <2>5. /\ Cardinality({i} \cap held) \in Nat /\ Cardinality(held \ {i}) \in Nat
        /\ Cardinality(held) = Cardinality(held \ {i}) + Cardinality({i} \cap held)
        /\ Cardinality({i} \cap deferred) \in Nat /\ Cardinality(deferred \ {i}) \in Nat
        /\ Cardinality(deferred) = Cardinality(deferred \ {i}) + Cardinality({i} \cap deferred)
      BY <2>3, <2>4
  <2>6. One(own) \in Nat /\ One(leaked) \in Nat /\ One(own') = One(own) /\ One(leaked') = One(leaked)
      BY <2>1 DEF One
  <2>7. dll' = One(own) + Cardinality(held \ {i}) + Cardinality(deferred \ {i}) + One(leaked)
      BY <2>1, <2>5, <2>6 DEF DllInv, DllExact
  <2>8. DllExact'
      BY <2>1, <2>6, <2>7 DEF DllExact
  <2>9. (own => deferred = {} /\ ~leaked)'
      BY <2>1 DEF DllInv
  <2> QED
      BY <2>2, <2>8, <2>9 DEF DllInv
<1>8. ASSUME NEW i \in Item, DeferFree(i) PROVE DllInv'
  <2>1. /\ pc[i] = "run" /\ own /\ own' = FALSE /\ UNCHANGED <<pc, dll, held>>
        /\ \/ deferred' = deferred \cup {i} /\ leaked' = leaked
           \/ deferred' = deferred /\ leaked' = TRUE
      BY <1>8 DEF DeferFree
  <2>2. deferred = {} /\ ~leaked
      BY <2>1 DEF DllInv
  <2>3. Cardinality({}) = 0 /\ Cardinality({i}) = 1 /\ Cardinality(held) \in Nat
      BY HeldFinite, FS_EmptySet, FS_Singleton DEF DllInv
  <2>4. One(own) = 1 /\ One(own') = 0 /\ One(leaked) = 0 /\ One(TRUE) = 1
      BY <2>1, <2>2 DEF One
  <2>5. HeldOK'
      BY <2>1 DEF DllInv, HeldOK, HeldAt
  <2>6. dll = 1 + Cardinality(held)
      BY <2>2, <2>3, <2>4 DEF DllInv, DllExact
  <2>7. DllExact'
    <3>1. CASE deferred' = {i} /\ leaked' = leaked
      <4>1. Cardinality(deferred') = 1 /\ One(leaked') = 0
          BY <2>3, <2>4, <3>1
      <4> QED
          BY <2>1, <2>3, <2>4, <2>6, <4>1 DEF DllExact
    <3>2. CASE deferred' = {} /\ leaked' = TRUE
      <4>1. Cardinality(deferred') = 0 /\ One(leaked') = 1
          BY <2>3, <2>4, <3>2
      <4> QED
          BY <2>1, <2>3, <2>4, <2>6, <4>1 DEF DllExact
    <3> QED
        BY <2>1, <2>2, <3>1, <3>2
  <2> QED
      BY <2>1, <2>5, <2>7 DEF DllInv
<1>9. CASE FreeLibrary
  <2>1. own /\ own' = FALSE /\ dll' = dll - 1 /\ UNCHANGED <<pc, held, deferred, leaked>>
      BY <1>9 DEF FreeLibrary
  <2>2. Cardinality(deferred) \in Nat /\ Cardinality(held) \in Nat
      BY HeldFinite DEF DllInv
  <2>3. One(own) = 1 /\ One(own') = 0 /\ One(leaked) \in Nat /\ One(leaked') = One(leaked)
      BY <2>1 DEF One
  <2>4. dll = One(own) + Cardinality(held) + Cardinality(deferred) + One(leaked)
      BY DEF DllInv, DllExact
  <2>5. DllExact'
      BY <2>1, <2>2, <2>3, <2>4 DEF DllExact
  <2>6. HeldOK'
      BY <2>1 DEF DllInv, HeldOK
  <2> QED
      BY <2>1, <2>5, <2>6 DEF DllInv
<1>10. CASE Finished \/ UNCHANGED vars
  <2>1. UNCHANGED <<pc, dllVars>>
      BY <1>10 DEF Finished, vars
  <2>2. DllExact' /\ (own => deferred = {} /\ ~leaked)'
      BY <2>1 DEF DllInv, dllVars, DllExact, One
  <2> QED
      BY <2>1, <2>2 DEF DllInv, HeldOK, dllVars
<1> QED
    BY <1>2, <1>3, <1>4, <1>5, <1>6, <1>7, <1>8, <1>9, <1>10 DEF Next, Submit, Worker

(* The loader's count of the DLL that FreeLibraryWhenCallbackReturns and   *)
(* the callback environment refer to is the references that are accounted *)
(* for, whatever allocation fails: none is dropped twice.                  *)
THEOREM DllCounted == Spec => []DllExact
<1>1. Init => DllInv
  <2> SUFFICES ASSUME Init PROVE DllInv
      OBVIOUS
  <2>1. Cardinality({}) = 0
      BY FS_EmptySet
  <2> QED
      BY <2>1 DEF Init, DllInv, HeldOK, DllExact, One
<1>2. DllInv => DllExact
    BY DEF DllInv
<1> QED
    BY <1>1, <1>2, DllStepInv, WorkInvariance, PTL DEF Spec

-----------------------------------------------------------------------------
(* Waiting for the callbacks.  An event that is signalled, and not stale,   *)
(* was set when nothing was outstanding and nothing has been submitted      *)
(* since: a wait that ends on it has no callback left to wait for.          *)

SettledPc == {"none", "end", "x_out", "x_clear", "x_set", "x_deref"}
WaitedPc  == {"w_clear", "w_deref"}
GroupedPc == {"g_callback", "g_deref"}

DueOK == due \in [Client -> SUBSET Item] /\ \A c \in Client : due[c] \subseteq Unfinished

(* A work item has not completed, or is about to be queued.                *)
Busy ==
  \/ \E i \in Item : pc[i] \notin Completed
  \/ \E q \in Proc : pc[q] \in {"s_alloc", "s_undo"}

EventOK ==
  /\ event /\ ~stale => ~Busy
  /\ \A q \in Proc : pc[q] \in SetLabels /\ q \notin late => ~Busy
  /\ \A i \in Item : pc[i] # "s_set"

(* The wait of CloseThreadpoolCleanupGroupMembers is over.                 *)
Grouped(c) == pc[c] \in GroupedPc \/ (c \in grouping /\ pc[c] \in WaitedPc)

WaitOK ==
  /\ \A c \in Client : pc[c] \in WaitedPc /\ c \notin misled => due[c] = {}
  /\ \A c \in Client : Grouped(c) /\ c \notin misled => Unfinished = {}
  /\ grouping # {} => \A d \in Client : pc[d] \notin SubmitPc

DrainInv == DueOK /\ EventOK /\ WaitOK

(* When the last outstanding count is that of work item i, of the          *)
(* submission of p, or of nobody.                                          *)
LEMMA LastOut ==
  ASSUME WorkInv
  PROVE  /\ \A i \in Item : outstanding = 1 /\ pc[i] \notin Completed =>
              /\ \A j \in Item \ {i} : pc[j] \in Completed
              /\ \A q \in Proc : pc[q] \notin Counting
         /\ \A p \in Proc : outstanding = 1 /\ pc[p] \in Counting =>
              /\ \A j \in Item : pc[j] \in Completed
              /\ \A q \in Proc \ {p} : pc[q] \notin Counting
<1> USE DEF WorkInv
<1>1. /\ Cardinality(OpenItems) \in Nat /\ Cardinality(CallCounts) \in Nat
      /\ outstanding = Cardinality(OpenItems) + Cardinality(CallCounts)
    BY WorkCounts DEF OutOK
<1>2. IsFiniteSet(OpenItems) /\ IsFiniteSet(CallCounts)
    BY WorkSetsFinite
<1> HIDE DEF WorkInv
<1>3. ASSUME NEW i \in Item, outstanding = 1, pc[i] \notin Completed
      PROVE  /\ \A j \in Item \ {i} : pc[j] \in Completed
             /\ \A q \in Proc : pc[q] \notin Counting
  <2>1. i \in OpenItems
      BY <1>3 DEF OpenItems
  <2>2. Cardinality(OpenItems \ {i}) = Cardinality(OpenItems) - 1 /\ IsFiniteSet(OpenItems \ {i})
      BY <1>2, <2>1, FS_RemoveElement
  <2>3. Cardinality(OpenItems \ {i}) \in Nat
      BY <2>2, FS_CardinalityType
  <2>4. Cardinality(OpenItems \ {i}) = 0 /\ Cardinality(CallCounts) = 0
      BY <1>1, <1>3, <2>2, <2>3
  <2>5. OpenItems \ {i} = {} /\ CallCounts = {}
      BY <1>2, <2>2, <2>4, FS_EmptySet
  <2> QED
      BY <2>5 DEF OpenItems, CallCounts
<1>4. ASSUME NEW p \in Proc, outstanding = 1, pc[p] \in Counting
      PROVE  /\ \A j \in Item : pc[j] \in Completed
             /\ \A q \in Proc \ {p} : pc[q] \notin Counting
  <2>1. p \in CallCounts
      BY <1>4 DEF CallCounts
  <2>2. Cardinality(CallCounts \ {p}) = Cardinality(CallCounts) - 1 /\ IsFiniteSet(CallCounts \ {p})
      BY <1>2, <2>1, FS_RemoveElement
  <2>3. Cardinality(CallCounts \ {p}) \in Nat
      BY <2>2, FS_CardinalityType
  <2>4. Cardinality(CallCounts \ {p}) = 0 /\ Cardinality(OpenItems) = 0
      BY <1>1, <1>4, <2>2, <2>3
  <2>5. CallCounts \ {p} = {} /\ OpenItems = {}
      BY <1>2, <2>2, <2>4, FS_EmptySet
  <2> QED
      BY <2>5 DEF OpenItems, CallCounts
<1> QED
    BY <1>3, <1>4

(* A step that takes p to label l, sets nothing and makes nothing busy.    *)
LEMMA EventMove ==
  ASSUME WorkInv, EventOK, NEW p \in Proc, NEW l, pc' = [pc EXCEPT ![p] = l],
         UNCHANGED <<event, stale, late>>,
         l \in {"s_alloc", "s_undo"} => pc[p] \in {"s_alloc", "s_undo"},
         l \in SetLabels => pc[p] \in SetLabels,
         p \in Item => l # "s_set" /\ (l \in Completed \/ pc[p] \notin Completed)
  PROVE  EventOK'
<1>1. \A q \in Proc : pc'[q] = IF q = p THEN l ELSE pc[q]
    BY DEF WorkInv, WorkTypes
<1>2. \A i \in Item : i \in Proc
    BY DEF Proc
<1>3. Busy' => Busy
    BY <1>1, <1>2 DEF Busy
<1>4. \A q \in Proc : pc'[q] \in SetLabels => pc[q] \in SetLabels
    BY <1>1
<1>5. \A i \in Item : pc'[i] # "s_set"
    BY <1>1, <1>2 DEF EventOK
<1> QED
    BY <1>3, <1>4, <1>5 DEF EventOK

(* A step that takes p to label l with the last count: nothing is busy.    *)
LEMMA EventZero ==
  ASSUME WorkInv, EventOK, NEW p \in Proc, NEW l \in {"s_set", "x_clear"},
         pc' = [pc EXCEPT ![p] = l], outstanding = 1,
         \/ l = "x_clear" /\ p \in Item /\ pc[p] \notin Completed
         \/ l = "s_set" /\ pc[p] = "s_undo"
  PROVE  EventOK'
<1>1. \A q \in Proc : pc'[q] = IF q = p THEN l ELSE pc[q]
    BY DEF WorkInv, WorkTypes
<1>2. \A i \in Item : i \in Proc
    BY DEF Proc
<1>3. {"s_alloc", "s_undo"} \subseteq Counting /\ "s_undo" \notin Completed /\ "x_clear" \in Completed
    BY DEF Counting, Completed
<1>4. CASE l = "x_clear" /\ p \in Item /\ pc[p] \notin Completed
  <2>1. /\ \A j \in Item \ {p} : pc[j] \in Completed
        /\ \A q \in Proc : pc[q] \notin Counting
      BY <1>4, LastOut
  <2>2. ~Busy'
      BY <1>1, <1>2, <1>3, <1>4, <2>1 DEF Busy
  <2> QED
      BY <1>1, <1>2, <1>4, <2>2 DEF EventOK
<1>5. CASE l = "s_set" /\ pc[p] = "s_undo"
  <2>1. /\ \A j \in Item : pc[j] \in Completed
        /\ \A q \in Proc \ {p} : pc[q] \notin Counting
      BY <1>3, <1>5, LastOut
  <2>2. p \notin Item
      BY <1>3, <1>5, <2>1
  <2>3. ~Busy'
      BY <1>1, <1>2, <1>3, <1>5, <2>1, <2>2 DEF Busy
  <2> QED
      BY <1>1, <1>2, <1>5, <2>2, <2>3 DEF EventOK
<1> QED
    BY <1>4, <1>5

(* The KeSetEvent of p: when p is late, the event is stale afterwards      *)
(* unless it was signalled, and not stale, before.                         *)
LEMMA EventSet ==
  ASSUME WorkInv, EventOK, NEW p \in Proc, NEW l \in {"s_deref", "x_deref"},
         pc' = [pc EXCEPT ![p] = l], pc[p] \in SetLabels, SetEvent(p),
         l = "s_deref" => pc[p] = "s_set"
  PROVE  EventOK'
<1>1. \A q \in Proc : pc'[q] = IF q = p THEN l ELSE pc[q]
    BY DEF WorkInv, WorkTypes
<1>2. \A i \in Item : i \in Proc
    BY DEF Proc
<1>3. p \in Item => l = "x_deref"
    BY DEF EventOK
<1>4. Busy' => Busy
    BY <1>1, <1>2, <1>3 DEF Busy, Completed
<1>5. event' /\ ~stale' => ~Busy
    BY DEF SetEvent, EventOK
<1>6. ASSUME NEW q \in Proc, pc'[q] \in SetLabels, q \notin late' PROVE ~Busy
  <2>1. q # p /\ pc[q] \in SetLabels
      BY <1>1, <1>6 DEF SetLabels
  <2> QED
      BY <1>6, <2>1 DEF EventOK, SetEvent
<1>7. \A i \in Item : pc'[i] # "s_set"
    BY <1>1, <1>2 DEF EventOK
<1> QED
    BY <1>4, <1>5, <1>6, <1>7 DEF EventOK

LEMMA EventSubmit ==
  ASSUME WorkInv, EventOK, NEW p \in Proc, Submit(p) \/ CallClose(p) \/ CloseSteps(p)
  PROVE  EventOK'
<1>0. /\ \A i \in Item : i \in Proc
      /\ p \in Item => p \notin Client
      /\ p \in grouping => pc[p] \in GroupLabels \cup WaitHolds \cup {"w_ref"}
      /\ \A q \in Proc : pc[q] \in SetLabels <=> q \in Setting
    BY BeforeStep DEF Proc, Setting, SetLabels
<1>1. CASE CallSubmit(p) \/ SubmitCheck(p) \/ SubmitRef(p) \/ SubmitOut(p) \/ SubmitAllocFails(p)
             \/ SubmitDeref(p) \/ CallClose(p) \/ CloseSteps(p)
  <2>1. UNCHANGED <<event, stale, late>>
      BY <1>1 DEF CallSubmit, SubmitCheck, SubmitRef, SubmitOut, SubmitAllocFails, SubmitDeref,
                  CallClose, CloseSteps, CloseRead, CloseUnregister, CloseDelete, CloseDeref,
                  objVars, useVars, lateVars
  <2>2. p \in Item => pc[p] \notin Completed
      BY <1>0, <1>1 DEF CallSubmit, SubmitCheck, SubmitRef, SubmitOut, SubmitAllocFails, SubmitDeref,
                  CallClose, CloseSteps, CloseRead, CloseUnregister, CloseDelete, CloseDeref,
                  MayClose, MayCall, Completed
  <2>3. PICK l \in {"s_check", "s_ref", "s_out", "s_reset", "s_undo", "c_read", "c_lock", "c_delete",
                    "c_deref", "run", "idle", "g_callback"} :
          /\ pc' = [pc EXCEPT ![p] = l]
          /\ l = "s_undo" => pc[p] = "s_alloc"
      BY <1>1 DEF CallSubmit, SubmitCheck, SubmitRef, SubmitOut, SubmitAllocFails, SubmitDeref,
                  CallClose, CloseSteps, CloseRead, CloseUnregister, CloseDelete, CloseDeref,
                  Goto, Return
  <2> QED
      BY <2>1, <2>2, <2>3, EventMove DEF SetLabels
<1>2. CASE SubmitReset(p)
  <2>1. /\ ~event' /\ late' = late \cup Setting /\ pc[p] = "s_reset"
        /\ pc' = [pc EXCEPT ![p] = "s_alloc"]
      BY <1>2 DEF SubmitReset, Goto
  <2>2. \A q \in Proc : pc'[q] = IF q = p THEN "s_alloc" ELSE pc[q]
      BY <2>1 DEF WorkInv, WorkTypes
  <2>3. \A q \in Proc : pc'[q] \in SetLabels => q \in late'
      BY <1>0, <2>1, <2>2 DEF SetLabels
  <2>4. \A i \in Item : pc'[i] # "s_set"
      BY <1>0, <2>2 DEF EventOK
  <2> QED
      BY <2>1, <2>3, <2>4 DEF EventOK
<1>3. CASE SubmitUndo(p)
  <2>1. /\ pc[p] = "s_undo" /\ UNCHANGED <<event, stale, late>>
        /\ pc' = [pc EXCEPT ![p] = IF outstanding = 1 THEN "s_set" ELSE "s_deref"]
      BY <1>3 DEF SubmitUndo, Goto, useVars, lateVars
  <2>2. CASE outstanding = 1
      BY <2>1, <2>2, EventZero
  <2>3. CASE outstanding # 1
    <3>1. pc' = [pc EXCEPT ![p] = "s_deref"] /\ pc[p] \notin Completed
        BY <2>1, <2>3 DEF Completed
    <3> QED
        BY <2>1, <3>1, EventMove DEF SetLabels
  <2> QED
      BY <2>2, <2>3
<1>4. CASE SubmitSet(p)
  <2>1. pc[p] = "s_set" /\ pc' = [pc EXCEPT ![p] = "s_deref"] /\ SetEvent(p)
      BY <1>4 DEF SubmitSet, Goto
  <2> QED
      BY <2>1, EventSet DEF SetLabels
<1>5. ASSUME NEW i \in Item, SubmitQueue(p, i) PROVE EventOK'
  <2>1. /\ pc[p] = "s_alloc" /\ pc[i] = "none" /\ p # i /\ UNCHANGED <<event, stale, late>>
        /\ pc' = [pc EXCEPT ![p] = Return(p), ![i] = "queued"]
      BY <1>5 DEF SubmitQueue, objVars, useVars, lateVars
  <2>2. \A q \in Proc : pc'[q] = IF q = i THEN "queued" ELSE IF q = p THEN Return(p) ELSE pc[q]
      BY <1>0, <2>1 DEF WorkInv, WorkTypes
  <2>3. Busy
      BY <2>1 DEF Busy
  <2>4. \A q \in Proc : pc'[q] \in SetLabels => pc[q] \in SetLabels
      BY <2>2 DEF Return, SetLabels
  <2>5. \A j \in Item : pc'[j] # "s_set"
      BY <1>0, <2>2 DEF EventOK, Return
  <2> QED
      BY <2>1, <2>3, <2>4, <2>5 DEF EventOK
<1> QED
    BY <1>1, <1>2, <1>3, <1>4, <1>5 DEF Submit

LEMMA EventStepOK == WorkInv /\ EventOK /\ [Next]_vars => EventOK'
<1> SUFFICES ASSUME WorkInv, EventOK, [Next]_vars PROVE EventOK'
    OBVIOUS
<1>0. /\ \A i \in Item : i \in Proc
      /\ \A c \in Client : c \in Proc /\ c \notin Item
    BY WorkAssumption DEF Proc
<1>1. ASSUME NEW i \in Item, Dequeue(i) \/ CallbackReturns(i) \/ EndCallback(i)
                               \/ CompleteClear(i) \/ CompleteDeref(i)
      PROVE  EventOK'
  <2>1. UNCHANGED <<event, stale, late>>
      BY <1>1 DEF Dequeue, CallbackReturns, EndCallback, CompleteClear, CompleteDeref, objVars,
                  useVars, lateVars
  <2>2. PICK l \in {"run", "end", "x_out", "x_set", "none"} :
          /\ pc' = [pc EXCEPT ![i] = l]
          /\ l = "x_set" => pc[i] = "x_clear"
          /\ l \in {"run", "end", "x_out"} => pc[i] \in {"queued", "run", "end"}
      BY <1>1 DEF Dequeue, CallbackReturns, EndCallback, CompleteClear, CompleteDeref, Goto
  <2>3. l \in Completed \/ pc[i] \notin Completed
      BY <2>2 DEF Completed
  <2>4. l \in SetLabels => pc[i] \in SetLabels
      BY <2>2 DEF SetLabels
  <2> QED
      BY <1>0, <2>1, <2>2, <2>3, <2>4, EventMove
<1>2. ASSUME NEW i \in Item, CompleteOut(i) PROVE EventOK'
  <2>1. /\ pc[i] = "x_out" /\ UNCHANGED <<event, stale, late>>
        /\ pc' = [pc EXCEPT ![i] = IF outstanding = 1 THEN "x_clear" ELSE "x_deref"]
      BY <1>2 DEF CompleteOut, Goto, useVars, lateVars
  <2>2. CASE outstanding = 1
      BY <1>0, <2>1, <2>2, EventZero DEF Completed
  <2>3. CASE outstanding # 1
    <3>1. pc' = [pc EXCEPT ![i] = "x_deref"] /\ "x_deref" \in Completed
        BY <2>1, <2>3 DEF Completed
    <3> QED
        BY <1>0, <2>1, <3>1, EventMove DEF SetLabels
  <2> QED
      BY <2>2, <2>3
<1>3. ASSUME NEW i \in Item, CompleteSet(i) PROVE EventOK'
  <2>1. pc[i] = "x_set" /\ pc' = [pc EXCEPT ![i] = "x_deref"] /\ SetEvent(i)
      BY <1>3 DEF CompleteSet, Goto
  <2> QED
      BY <1>0, <2>1, EventSet DEF SetLabels
<1>4. ASSUME NEW c \in Client, Wait(c) \/ GroupClose(c) PROVE EventOK'
  <2>1. UNCHANGED <<event, stale, late>>
      BY <1>4 DEF Wait, CallWait, WaitRef, WaitCancel, WaitOver, WaitClear, WaitDeref, GroupClose,
                  CallGroupClose, GroupDelete, GroupCallback, GroupDeref, objVars, useVars, lateVars
  <2>2. PICK l \in {"w_ref", "w_cancel", "w_wait", "w_clear", "w_deref", "run", "idle", "g_delete",
                    "g_callback", "g_deref"} : pc' = [pc EXCEPT ![c] = l]
      BY <1>4 DEF Wait, CallWait, WaitRef, WaitCancel, WaitOver, WaitClear, WaitDeref, GroupClose,
                  CallGroupClose, GroupDelete, GroupCallback, GroupDeref, Goto, Return
  <2> QED
      BY <1>0, <2>1, <2>2, EventMove DEF SetLabels
<1>5. CASE UNCHANGED <<pc, event, stale, late>>
    BY <1>5 DEF EventOK, Busy
<1>6. CASE FreeLibrary \/ Finished \/ UNCHANGED vars \/ \E i \in Item : DeferFree(i)
    BY <1>5, <1>6 DEF FreeLibrary, Finished, DeferFree, vars, useVars, objVars, lateVars
<1> QED
    BY <1>1, <1>2, <1>3, <1>4, <1>6, EventSubmit DEF Next, Worker

(* A step that takes p to label l, and leaves what the others wait for.    *)
LEMMA WaitMove ==
  ASSUME WorkInv, WaitOK, NEW p \in Proc, NEW l, pc' = [pc EXCEPT ![p] = l],
         grouping' \subseteq grouping \/ (l \notin SubmitPc /\ \A d \in Client : pc[d] \notin SubmitPc),
         \A c \in Client : c # p => /\ due'[c] \subseteq due[c]
                                    /\ c \in misled => c \in misled'
                                    /\ c \in grouping' => c \in grouping,
         p \in Item => l \in SettledPc \/ pc[p] \notin SettledPc,
         p \in Client /\ l \in WaitedPc /\ p \notin misled' => due'[p] = {},
         p \in Client /\ Grouped(p)' /\ p \notin misled' => Unfinished = {},
         p \in Client /\ l \in SubmitPc => pc[p] \in SubmitPc \/ grouping = {}
  PROVE  WaitOK'
<1>1. \A q \in Proc : pc'[q] = IF q = p THEN l ELSE pc[q]
    BY DEF WorkInv, WorkTypes
<1>2. /\ \A c \in Client : c \in Proc
      /\ \A i \in Item : i \in Proc
    BY DEF Proc
<1>3. Unfinished' \subseteq Unfinished
    BY <1>1, <1>2 DEF Unfinished, SettledPc
<1>4. ASSUME NEW c \in Client, pc'[c] \in WaitedPc, c \notin misled' PROVE due'[c] = {}
  <2>1. CASE c = p
      BY <1>1, <1>2, <1>4, <2>1
  <2>2. CASE c # p
      BY <1>1, <1>2, <1>4, <2>2 DEF WaitOK
  <2> QED
      BY <2>1, <2>2
<1>5. ASSUME NEW c \in Client, Grouped(c)', c \notin misled' PROVE Unfinished' = {}
  <2>1. CASE c = p
      BY <1>3, <1>5, <2>1
  <2>2. CASE c # p
    <3>1. Grouped(c) /\ c \notin misled
        BY <1>1, <1>2, <1>5, <2>2 DEF Grouped
    <3> QED
        BY <1>3, <3>1 DEF WaitOK
  <2> QED
      BY <2>1, <2>2
<1>6. ASSUME grouping' # {}, NEW d \in Client PROVE pc'[d] \notin SubmitPc
  <2>1. CASE grouping' \subseteq grouping
    <3>1. grouping # {}
        BY <1>6, <2>1
    <3>2. pc[d] \notin SubmitPc
        BY <3>1 DEF WaitOK
    <3> QED
        BY <1>1, <1>2, <3>1, <3>2
  <2>2. CASE l \notin SubmitPc /\ pc[d] \notin SubmitPc
      BY <1>1, <1>2, <2>2
  <2> QED
      BY <2>1, <2>2
<1> QED
    BY <1>4, <1>5, <1>6 DEF WaitOK

(* The same, when the step is none of a wait or of a group's close.        *)
LEMMA WaitPlain ==
  ASSUME WorkInv, WaitOK, NEW p \in Proc, NEW l, pc' = [pc EXCEPT ![p] = l],
         UNCHANGED <<grouping, misled>>, \A c \in Client : due'[c] \subseteq due[c],
         l \notin WaitedPc \cup GroupedPc,
         p \in Item => l \in SettledPc \/ pc[p] \notin SettledPc,
         p \in Client /\ l \in SubmitPc => pc[p] \in SubmitPc \/ grouping = {}
  PROVE  WaitOK'
<1>1. pc'[p] = l
    BY DEF WorkInv, WorkTypes
<1>2. ~Grouped(p)'
    BY <1>1 DEF Grouped
<1> QED
    BY <1>2, WaitMove

LEMMA WaitSubmit ==
  ASSUME WorkInv, DueOK, WaitOK, NEW p \in Proc, Submit(p) \/ CallClose(p) \/ CloseSteps(p)
  PROVE  WaitOK'
<1>0. /\ \A i \in Item : i \in Proc /\ i \notin Client
      /\ \A c \in Client : c \in Proc /\ c \notin Item
      /\ p \in grouping => p \in Client /\ pc[p] \in GroupLabels \cup WaitHolds \cup {"w_ref"}
    BY BeforeStep, WorkAssumption DEF Proc
<1>1. CASE CallSubmit(p) \/ SubmitCheck(p) \/ SubmitRef(p) \/ SubmitOut(p) \/ SubmitReset(p)
             \/ SubmitAllocFails(p) \/ SubmitUndo(p) \/ SubmitSet(p) \/ SubmitDeref(p)
             \/ CallClose(p) \/ CloseSteps(p)
  <2>1. UNCHANGED <<grouping, misled, due>>
      BY <1>1 DEF CallSubmit, SubmitCheck, SubmitRef, SubmitOut, SubmitReset, SubmitAllocFails,
                  SubmitUndo, SubmitSet, SubmitDeref, CallClose, CloseSteps, CloseRead,
                  CloseUnregister, CloseDelete, CloseDeref, useVars, lateVars
  <2>2. /\ pc[p] \in SubmitPc \cup CloseLabels \cup {"idle", "run"}
        /\ p \in Item => pc[p] \notin SettledPc
      BY <1>0, <1>1 DEF CallSubmit, SubmitCheck, SubmitRef, SubmitOut, SubmitReset, SubmitAllocFails,
                  SubmitUndo, SubmitSet, SubmitDeref, CallClose, CloseSteps, CloseRead,
                  CloseUnregister, CloseDelete, CloseDeref, MayClose, MayCall, SubmitPc,
                  CloseLabels, SettledPc
  <2>3. p \notin grouping
      BY <1>0, <2>2 DEF SubmitPc, CloseLabels, GroupLabels, WaitHolds
  <2>4. PICK l \in SubmitPc \cup CloseLabels \cup {"idle", "run"} :
          /\ pc' = [pc EXCEPT ![p] = l]
          /\ l \in SubmitPc => pc[p] \in SubmitPc \/ CallSubmit(p)
      BY <1>1, <2>3 DEF CallSubmit, SubmitCheck, SubmitRef, SubmitOut, SubmitReset, SubmitAllocFails,
                  SubmitUndo, SubmitSet, SubmitDeref, CallClose, CloseSteps, CloseRead,
                  CloseUnregister, CloseDelete, CloseDeref, Goto, Return, SubmitPc, CloseLabels
  <2>5. p \in Client /\ CallSubmit(p) => grouping = {}
    <3> SUFFICES ASSUME p \in Client, CallSubmit(p), grouping # {} PROVE FALSE
        OBVIOUS
    <3>1. PICK c : c \in grouping
        OBVIOUS
    <3>2. c \in Proc /\ Closer(c)
        BY <1>0, <3>1 DEF WorkInv, WorkTypes, Closer
    <3> QED
        BY <3>2 DEF CallSubmit, WorkInv, CloseOK
  <2>6. l \notin WaitedPc \cup GroupedPc
      BY DEF WaitedPc, GroupedPc, SubmitPc, CloseLabels
  <2> QED
      BY <2>1, <2>2, <2>4, <2>5, <2>6, WaitPlain
<1>2. ASSUME NEW i \in Item, SubmitQueue(p, i) PROVE WaitOK'
  <2>1. /\ pc[p] = "s_alloc" /\ pc[i] = "none" /\ p # i /\ UNCHANGED <<grouping, misled, due>>
        /\ pc' = [pc EXCEPT ![p] = Return(p), ![i] = "queued"]
      BY <1>2 DEF SubmitQueue, useVars, lateVars
  <2>2. \A q \in Proc : pc'[q] = IF q = i THEN "queued" ELSE IF q = p THEN Return(p) ELSE pc[q]
      BY <1>0, <2>1 DEF WorkInv, WorkTypes
  <2>3. p \notin grouping
      BY <1>0, <2>1 DEF GroupLabels, WaitHolds
  <2>4. Return(p) \in {"run", "idle"}
      BY <2>3 DEF Return
  <2>5. \A c \in Client : pc'[c] = pc[c] \/ pc'[c] \in {"run", "idle"}
      BY <1>0, <2>2, <2>4
  <2>6. ASSUME NEW c \in Client, Grouped(c), c \notin misled PROVE FALSE
    <3>1. c \in grouping
        BY <2>6 DEF Grouped, WorkInv, CloseOK, GroupedPc, GroupLabels
    <3>2. p \notin Client
        BY <2>1, <3>1 DEF WaitOK, SubmitPc
    <3>3. p \in Unfinished
        BY <2>1, <3>2 DEF Unfinished, Proc
    <3> QED
        BY <2>6, <3>3 DEF WaitOK
  <2>7. \A c \in Client : Grouped(c)' => Grouped(c)
      BY <2>1, <2>5 DEF Grouped, WaitedPc, GroupedPc
  <2>8. \A c \in Client : pc'[c] \in WaitedPc /\ c \notin misled' => due'[c] = {}
      BY <2>1, <2>5 DEF WaitOK, WaitedPc
  <2>9. grouping' # {} => \A d \in Client : pc'[d] \notin SubmitPc
      BY <2>1, <2>5 DEF WaitOK, SubmitPc
  <2> QED
      BY <2>1, <2>6, <2>7, <2>8, <2>9 DEF WaitOK
<1> QED
    BY <1>1, <1>2 DEF Submit

LEMMA WaitWorker ==
  ASSUME WorkInv, DueOK, WaitOK, NEW i \in Item, Worker(i)
  PROVE  WaitOK'
<1>1. UNCHANGED <<grouping, misled>>
    BY DEF Worker, Dequeue, CallbackReturns, EndCallback, CompleteOut, CompleteClear, CompleteSet,
           CompleteDeref, useVars, lateVars
<1>2. \A c \in Client : due'[c] \subseteq due[c]
    BY DEF Worker, Dequeue, CallbackReturns, EndCallback, CompleteOut, CompleteClear, CompleteSet,
           CompleteDeref, useVars, DueOK
<1>3. PICK l \in SettledPc \cup {"run"} :
        pc' = [pc EXCEPT ![i] = l] /\ (l = "run" => pc[i] = "queued")
    BY DEF Worker, Dequeue, CallbackReturns, EndCallback, CompleteOut, CompleteClear, CompleteSet,
           CompleteDeref, Goto, SettledPc
<1>4. i \in Proc /\ i \notin Client
    BY WorkAssumption DEF Proc
<1>5. l \notin WaitedPc \cup GroupedPc /\ (l \in SettledPc \/ pc[i] \notin SettledPc)
    BY <1>3 DEF WaitedPc, GroupedPc, SettledPc
<1> QED
    BY <1>1, <1>2, <1>3, <1>4, <1>5, WaitPlain

LEMMA WaitWait ==
  ASSUME WorkInv, DueOK, EventOK, WaitOK, NEW p \in Client, Wait(p)
  PROVE  WaitOK'
<1>0. p \in Proc /\ p \notin Item
    BY WorkAssumption DEF Proc
<1>1. /\ grouping' = grouping
      /\ \A c \in Client : c # p => due'[c] \subseteq due[c] /\ (c \in misled => c \in misled')
  <2>1. grouping' = grouping
      BY DEF Wait, CallWait, WaitRef, WaitCancel, WaitOver, WaitClear, WaitDeref, useVars
  <2>2. \A c \in Client : c # p => due'[c] = due[c]
      BY DEF Wait, CallWait, WaitRef, WaitCancel, WaitOver, WaitClear, WaitDeref, useVars, DueOK
  <2>3. \A c \in Client : c # p => (c \in misled => c \in misled')
      BY DEF Wait, CallWait, WaitRef, WaitCancel, WaitOver, WaitClear, WaitDeref, useVars, lateVars
  <2> QED
      BY <2>1, <2>2, <2>3
<1>2. CASE (\E cancel \in BOOLEAN : CallWait(p, cancel)) \/ WaitRef(p) \/ WaitCancel(p)
  <2>1. WaitRef(p) => ~ (refs' <= 1)
    <3> SUFFICES ASSUME WaitRef(p) PROVE ~ (refs' <= 1)
        OBVIOUS
    <3>1. pc[p] = "w_ref" => handle
        BY <1>0 DEF WorkInv, CloseOK, Closer, Unreferenced
    <3>2. refs >= 1 /\ refs \in Nat
        BY <1>0, <3>1, HandleHolds, BeforeStep DEF WaitRef
    <3> QED
        BY <3>2 DEF WaitRef
  <2>2. PICK l \in {"w_ref", "w_cancel", "w_wait"} : pc' = [pc EXCEPT ![p] = l]
      BY <1>2, <2>1 DEF CallWait, WaitRef, WaitCancel, Goto
  <2>3. ~Grouped(p)'
    <3>1. pc'[p] = l
        BY <1>0, <2>2 DEF WorkInv, WorkTypes
    <3> QED
        BY <3>1 DEF Grouped, WaitedPc, GroupedPc
  <2> QED
      BY <1>0, <1>1, <2>2, <2>3, WaitMove DEF SubmitPc, WaitedPc
<1>3. CASE WaitOver(p)
  <2>1. PICK l \in WaitedPc : pc' = [pc EXCEPT ![p] = l]
      BY <1>3 DEF WaitOver, Goto, WaitedPc
  <2>2. event /\ due' = due /\ (p \notin misled' => ~stale)
      BY <1>3 DEF WaitOver
  <2>3. p \notin misled' => Unfinished = {}
      BY <2>2 DEF EventOK, Busy, Completed, Unfinished
  <2>4. p \notin misled' => due'[p] = {}
      BY <2>2, <2>3 DEF DueOK
  <2> QED
      BY <1>0, <1>1, <2>1, <2>3, <2>4, WaitMove DEF WaitedPc, SubmitPc
<1>4. CASE WaitClear(p)
  <2>1. /\ pc[p] = "w_clear" /\ pc' = [pc EXCEPT ![p] = "w_deref"]
        /\ due' = due /\ misled' = misled
      BY <1>4 DEF WaitClear, Goto, lateVars
  <2>2. p \notin misled' => due'[p] = {}
      BY <2>1 DEF WaitOK, WaitedPc
  <2>3. Grouped(p)' => Grouped(p)
    <3>1. pc'[p] = "w_deref"
        BY <1>0, <2>1 DEF WorkInv, WorkTypes
    <3> QED
        BY <1>1, <2>1, <3>1 DEF Grouped, WaitedPc, GroupedPc
  <2> QED
      BY <1>0, <1>1, <2>1, <2>2, <2>3, WaitMove DEF WaitOK, SubmitPc
<1>5. CASE WaitDeref(p)
  <2>1. PICK l \in {"g_callback", "idle"} :
          pc' = [pc EXCEPT ![p] = l] /\ (l = "g_callback" <=> p \in grouping)
      BY <1>0, <1>5 DEF WaitDeref, Goto, Return
  <2>2. pc[p] = "w_deref" /\ (p \in grouping => misled' = misled)
      BY <1>5 DEF WaitDeref
  <2>3. Grouped(p)' => p \in grouping
    <3>1. pc'[p] = l
        BY <1>0, <2>1 DEF WorkInv, WorkTypes
    <3> QED
        BY <1>1, <2>1, <3>1 DEF Grouped, GroupedPc
  <2>4. p \in grouping => Grouped(p)
      BY <2>2 DEF Grouped, WaitedPc
  <2>5. Grouped(p)' /\ p \notin misled' => Unfinished = {}
      BY <2>2, <2>3, <2>4 DEF WaitOK
  <2> QED
      BY <1>0, <1>1, <2>1, <2>5, WaitMove DEF WaitedPc, SubmitPc
<1> QED
    BY <1>2, <1>3, <1>4, <1>5 DEF Wait

LEMMA WaitGroup ==
  ASSUME WorkInv, DueOK, WaitOK, NEW p \in Client, GroupClose(p)
  PROVE  WaitOK'
<1>0. p \in Proc /\ p \notin Item
    BY WorkAssumption DEF Proc
<1>1. PICK l \in {"g_delete", "w_ref", "g_deref", "idle"} :
        /\ pc' = [pc EXCEPT ![p] = l]
        /\ l = "g_deref" => GroupCallback(p)
    BY DEF GroupClose, CallGroupClose, GroupDelete, GroupCallback, GroupDeref, Goto
<1>2. \/ grouping' \subseteq grouping
      \/ grouping' = grouping \cup {p} /\ \A d \in Client : pc[d] \notin SubmitPc
    BY DEF GroupClose, CallGroupClose, GroupDelete, GroupCallback, GroupDeref, useVars
<1>3. \A c \in Client : c # p => due'[c] \subseteq due[c]
  <2>1. \A c \in Client : c # p => due'[c] = due[c]
      BY DEF GroupClose, CallGroupClose, GroupDelete, GroupCallback, GroupDeref, useVars, DueOK
  <2> QED
      BY <2>1
<1>4. \A c \in Client : c # p => (c \in misled => c \in misled') /\ (c \in grouping' => c \in grouping)
    BY DEF GroupClose, CallGroupClose, GroupDelete, GroupCallback, GroupDeref, useVars, lateVars
<1>5. Grouped(p)' /\ p \notin misled' => Unfinished = {}
  <2> SUFFICES ASSUME Grouped(p)', p \notin misled' PROVE Unfinished = {}
      OBVIOUS
  <2>1. pc'[p] = l
      BY <1>0, <1>1 DEF WorkInv, WorkTypes
  <2>2. GroupCallback(p)
      BY <1>1, <2>1 DEF Grouped, WaitedPc, GroupedPc
  <2>3. pc[p] = "g_callback" /\ misled' = misled
      BY <2>2 DEF GroupCallback, useVars, lateVars
  <2> QED
      BY <2>3 DEF WaitOK, Grouped, GroupedPc
<1> QED
    BY <1>0, <1>1, <1>2, <1>3, <1>4, <1>5, WaitMove DEF SubmitPc, WaitedPc

(* What a wait has to see finished is not finished.                        *)
LEMMA DueStep == WorkInv /\ DueOK /\ [Next]_vars => DueOK'
<1> SUFFICES ASSUME WorkInv, DueOK, [Next]_vars PROVE DueOK'
    OBVIOUS
<1> DEFINE Finishing == {"none", "end", "x_out", "x_clear", "x_set", "x_deref"}
<1>0. /\ \A i \in Item : i \in Proc /\ i \notin Client
      /\ \A c \in Client : c \in Proc /\ c \notin Item
      /\ pc \in [Proc -> ClientLabels \cup ItemLabels]
      /\ \A S : Unfinished = {i \in Item : pc[i] \notin Finishing}
    BY WorkAssumption DEF Proc, WorkInv, WorkTypes, Unfinished
<1>1. ASSUME NEW p \in Proc, NEW l, pc' = [pc EXCEPT ![p] = l], due' \in [Client -> SUBSET Item],
             \A c \in Client : due'[c] \subseteq due[c] \/ due'[c] \subseteq Unfinished,
             p \in Item /\ l \in Finishing =>
               pc[p] \in Finishing \/ \A c \in Client : p \notin due'[c]
      PROVE  DueOK'
  <2>1. \A i \in Item : pc'[i] = IF i = p THEN l ELSE pc[i]
      BY <1>0, <1>1
  <2>2. ASSUME NEW c \in Client, NEW i \in due'[c] PROVE i \in Unfinished'
    <3>1. i \in Unfinished /\ i \in Item
        BY <1>1, <2>2 DEF DueOK, Unfinished
    <3> QED
        BY <1>1, <2>1, <2>2, <3>1 DEF Unfinished
  <2> QED
      BY <1>1, <2>2 DEF DueOK
<1>2. ASSUME NEW p \in Proc, NEW l, pc' = [pc EXCEPT ![p] = l], due' = due,
             p \in Item => l \notin Finishing \/ pc[p] \in Finishing
      PROVE  DueOK'
    BY <1>1, <1>2 DEF DueOK
<1>3. ASSUME NEW p \in Proc,
             \/ CallSubmit(p) \/ SubmitCheck(p) \/ SubmitRef(p) \/ SubmitOut(p)
             \/ SubmitReset(p) \/ SubmitAllocFails(p) \/ SubmitUndo(p)
             \/ SubmitSet(p) \/ SubmitDeref(p) \/ CallClose(p) \/ CloseSteps(p)
      PROVE  DueOK'
  <2>1. PICK l : pc' = [pc EXCEPT ![p] = l] /\ (p \in Item => l \notin Finishing)
      BY <1>3 DEF CallSubmit, SubmitCheck, SubmitRef, SubmitOut, SubmitReset, SubmitAllocFails,
                  SubmitUndo, SubmitSet, SubmitDeref, CallClose, CloseSteps, CloseRead,
                  CloseUnregister, CloseDelete, CloseDeref, Goto, Return
  <2>2. due' = due
      BY <1>3 DEF CallSubmit, SubmitCheck, SubmitRef, SubmitOut, SubmitReset, SubmitAllocFails,
                  SubmitUndo, SubmitSet, SubmitDeref, CallClose, CloseSteps, CloseRead,
                  CloseUnregister, CloseDelete, CloseDeref, useVars
  <2> QED
      BY <1>2, <2>1, <2>2
<1>4. ASSUME NEW p \in Proc, NEW i \in Item, SubmitQueue(p, i) PROVE DueOK'
  <2>1. /\ pc[i] = "none" /\ pc[p] = "s_alloc" /\ i # p /\ due' = due
        /\ pc' = [pc EXCEPT ![p] = Return(p), ![i] = "queued"]
      BY <1>4 DEF SubmitQueue, useVars
  <2>2. \A j \in Item : pc'[j] = pc[j] \/ pc'[j] \in {"run", "queued"}
      BY <1>0, <2>1 DEF Return
  <2> QED
      BY <2>1, <2>2 DEF DueOK, Unfinished
<1>5. ASSUME NEW i \in Item, EndCallback(i) \/ CompleteOut(i) \/ CompleteClear(i)
                               \/ CompleteSet(i) \/ CompleteDeref(i)
      PROVE  DueOK'
  <2>1. PICK l : pc' = [pc EXCEPT ![i] = l] /\ pc[i] \in Finishing
      BY <1>5 DEF EndCallback, CompleteOut, CompleteClear, CompleteSet, CompleteDeref, Goto
  <2>2. due' = due
      BY <1>5 DEF EndCallback, CompleteOut, CompleteClear, CompleteSet, CompleteDeref, useVars
  <2> QED
      BY <1>0, <1>2, <2>1, <2>2
<1>6. ASSUME NEW i \in Item, CallbackReturns(i) \/ Dequeue(i) PROVE DueOK'
  <2>1. PICK l : /\ pc' = [pc EXCEPT ![i] = l]
                 /\ \/ due' = [c \in Client |-> due[c] \ {i}]
                    \/ due' = due /\ l \notin Finishing
      BY <1>6 DEF CallbackReturns, Dequeue, Goto
  <2>2. CASE due' = [c \in Client |-> due[c] \ {i}]
    <3>1. due' \in [Client -> SUBSET Item] /\ \A c \in Client : due'[c] = due[c] \ {i}
        BY <2>2 DEF DueOK
    <3>2. \A c \in Client : due'[c] \subseteq due[c] /\ i \notin due'[c]
        BY <3>1
    <3> QED
        BY <1>0, <1>1, <2>1, <3>1, <3>2
  <2> QED
      BY <1>0, <1>2, <2>1, <2>2
<1>7. ASSUME NEW c \in Client, Wait(c) \/ GroupClose(c) PROVE DueOK'
  <2>1. PICK l : pc' = [pc EXCEPT ![c] = l]
      BY <1>7 DEF Wait, CallWait, WaitRef, WaitCancel, WaitOver, WaitClear, WaitDeref, GroupClose,
                  CallGroupClose, GroupDelete, GroupCallback, GroupDeref, Goto
  <2>2. due' = due \/ due' = [due EXCEPT ![c] = Unfinished] \/ due' = [due EXCEPT ![c] = {}]
      BY <1>7 DEF Wait, CallWait, WaitRef, WaitCancel, WaitOver, WaitClear, WaitDeref, GroupClose,
                  CallGroupClose, GroupDelete, GroupCallback, GroupDeref, useVars
  <2>3. due' \in [Client -> SUBSET Item]
      BY <2>2 DEF DueOK, Unfinished
  <2>4. \A d \in Client : due'[d] \subseteq due[d] \/ due'[d] \subseteq Unfinished
      BY <2>2 DEF DueOK
  <2> QED
      BY <1>0, <1>1, <2>1, <2>3, <2>4
<1>8. CASE UNCHANGED <<pc, due>>
    BY <1>8 DEF DueOK, Unfinished
<1>9. CASE FreeLibrary \/ Finished \/ UNCHANGED vars \/ \E i \in Item : DeferFree(i)
    BY <1>8, <1>9 DEF FreeLibrary, Finished, DeferFree, vars, useVars
<1> QED
    BY <1>3, <1>4, <1>5, <1>6, <1>7, <1>9 DEF Next, Submit, Worker

LEMMA DrainStep == WorkInv /\ DrainInv /\ [Next]_vars => DrainInv'
<1> SUFFICES ASSUME WorkInv, DueOK, EventOK, WaitOK, [Next]_vars PROVE WaitOK'
    BY DueStep, EventStepOK DEF DrainInv
<1>1. CASE UNCHANGED <<pc, grouping, due, misled>>
    BY <1>1 DEF WaitOK, Grouped, Unfinished
<1>2. CASE FreeLibrary \/ Finished \/ UNCHANGED vars \/ \E i \in Item : DeferFree(i)
    BY <1>1, <1>2 DEF FreeLibrary, Finished, DeferFree, vars, useVars, lateVars
<1> QED
    BY <1>2, WaitSubmit, WaitWorker, WaitWait, WaitGroup DEF Next

(* WaitForThreadpoolWorkCallbacks and CloseThreadpoolCleanupGroupMembers   *)
(* return only when the callbacks submitted before have returned or were   *)
(* cancelled, however often threads and callbacks submit the object, with  *)
(* the one exception of a wait that ended on an event set late: by the     *)
(* KeSetEvent of a completion, or of a failed submission, that another     *)
(* submission's KeResetEvent has overtaken.                                *)
THEOREM WaitsDrain == Spec => []WaitDrains
<1>1. Init => DrainInv
  <2> SUFFICES ASSUME Init PROVE DrainInv
      OBVIOUS
  <2>1. /\ \A c \in Client : pc[c] = "idle"
        /\ \A i \in Item : pc[i] = "none"
      BY WorkAssumption DEF Init, Proc
  <2>2. due \in [Client -> SUBSET Item] /\ (\A c \in Client : due[c] = {}) /\ grouping = {}
      BY DEF Init
  <2>3. EventOK
      BY <2>1 DEF EventOK, Busy, Completed, SetLabels, Proc
  <2>4. WaitOK
      BY <2>1, <2>2 DEF WaitOK, Grouped, WaitedPc, GroupedPc
  <2> QED
      BY <2>2, <2>3, <2>4 DEF DrainInv, DueOK
<1>2. DrainInv => WaitDrains
    BY DEF DrainInv, WaitOK, Grouped, WaitDrains, WaitedPc, GroupedPc
<1> QED
    BY <1>1, <1>2, DrainStep, WorkInvariance, PTL DEF Spec

-----------------------------------------------------------------------------
(* The watcher of a timer or wait object.                                  *)

ShutLate == {"c_kick", "c_join", "c_load", "c_store", "c_deref"}
Shutting == {"c_delete"} \cup ShutLate
CallLabels == {"idle", "store", "w_ref"} \cup WaiterHolds \cup Shutting
WatchLabels == {"look", "sleep", "due", "relock", "mark", "check", "ref", "out", "reset",
                "callback", "uncancel", "wakeup", "deref", "end", "dead"}

WatchTypes ==
  /\ wcall \in [Party -> CallLabels] /\ watch \in WatchLabels /\ wrefs \in Nat
  /\ inGroup \subseteq Caller /\ shut \in Party \cup {Nobody}

(* Who closes the object: one thread, once; who is past the join; who has  *)
(* no reference of its own while the object is open.                       *)
CloserOK ==
  /\ \A p \in Party : wcall[p] \in Shutting => shut = p /\ opened
  /\ \A p \in inGroup : shut = p /\ (wcall[p] # "idle" => opened) /\ wcall[p] # "store"
  /\ \A p \in Party : wcall[p] \in {"w_ref", "store"} /\ p \notin inGroup => shut = Nobody
  /\ shut = Nobody => opened
PastJoin(p) ==
  \/ wcall[p] \in {"c_load", "c_store", "c_deref"}
  \/ p \in inGroup /\ wcall[p] \in {"w_ref"} \cup WaiterHolds
JoinOK ==
  /\ wcall[Watcher] # "idle" => watch = "callback"
  /\ wcall[Watcher] \notin {"w_ref"} \cup WaiterHolds
  /\ \A p \in Caller : PastJoin(p) => watch = "dead"
(* What keeps the request to delete when the callback closes the object.   *)
DeleteOK ==
  /\ shut = Watcher /\ (~opened \/ wcall[Watcher] \in ShutLate) => "delete" \in wflags
  /\ wcall[Watcher] = "c_store" => "delete" \in loaded
  /\ \A p \in Party : wcall[p] \in {"store", "c_store"} => spin = p
  /\ watch = "mark" => spin = Watcher
WatcherInv == WatchTypes /\ CloserOK /\ JoinOK /\ DeleteOK /\ WatcherSafe

WaitUsers == {p \in Party : wcall[p] \in WaiterHolds}

(* A step of the watcher.                                                  *)
WatchKeeps == UNCHANGED callVars /\ UNCHANGED opened
LEMMA WatchFrame == WatchRuns \/ Expires => WatchKeeps
BY DEF WatchRuns, Look, Kicked, Expires, Relock, Mark, Check, TakeRef, CountOut, ResetIdle,
       Returns, Uncancel, SignalIdle, DropRef, WatchKeeps, callVars, countVars

WatchEdge(l, m) ==
  <<l, m>> \in {<<"look", "end">>, <<"look", "sleep">>, <<"look", "due">>, <<"sleep", "look">>,
     <<"due", "look">>, <<"due", "relock">>, <<"relock", "look">>, <<"relock", "check">>,
     <<"relock", "mark">>, <<"mark", "check">>, <<"check", "look">>, <<"check", "ref">>,
     <<"ref", "out">>, <<"out", "reset">>, <<"reset", "callback">>, <<"callback", "uncancel">>,
     <<"callback", "deref">>, <<"uncancel", "wakeup">>, <<"wakeup", "deref">>,
     <<"deref", "look">>, <<"end", "dead">>}
LEMMA WatchEdges ==
  WatchRuns \/ Expires =>
    /\ WatchEdge(watch, watch')
    /\ watch = "callback" => wcall[Watcher] = "idle"
    /\ wrefs' = IF watch = "ref" THEN wrefs + 1
                ELSE IF watch \in {"deref", "end"} THEN wrefs - 1 ELSE wrefs
<1>1. Look \/ Kicked \/ Expires => watch \in {"look", "sleep", "due"} /\ WatchEdge(watch, watch') /\ wrefs' = wrefs
    BY DEF Look, Kicked, Expires, WatchGoto, countVars, WatchEdge
<1>2. Relock \/ Mark \/ Check => watch \in {"relock", "mark", "check"} /\ WatchEdge(watch, watch') /\ wrefs' = wrefs
    BY DEF Relock, Mark, Check, WatchGoto, countVars, WatchEdge
<1>3. TakeRef => watch = "ref" /\ WatchEdge(watch, watch') /\ wrefs' = wrefs + 1
    BY DEF TakeRef, WatchGoto, WatchEdge
<1>4. CountOut \/ ResetIdle \/ Uncancel \/ SignalIdle =>
        watch \in {"out", "reset", "uncancel", "wakeup"} /\ WatchEdge(watch, watch') /\ wrefs' = wrefs
    BY DEF CountOut, ResetIdle, Uncancel, SignalIdle, WatchGoto, countVars, WatchEdge
<1>5. Returns => watch = "callback" /\ wcall[Watcher] = "idle" /\ WatchEdge(watch, watch') /\ wrefs' = wrefs
    BY DEF Returns, WatchGoto, WatchEdge
<1>6. DropRef => watch \in {"deref", "end"} /\ WatchEdge(watch, watch') /\ wrefs' = wrefs - 1
    BY DEF DropRef, WatchGoto, WatchEdge
<1> QED
    BY <1>1, <1>2, <1>3, <1>4, <1>5, <1>6 DEF WatchRuns

LEMMA WatchTypesStep ==
  ASSUME WatcherInv, WatchRuns \/ Expires PROVE WatchTypes' /\ WatcherRefsExact'
<1>1. WatchKeeps /\ WatchEdge(watch, watch')
    BY WatchFrame, WatchEdges
<1>2. UNCHANGED <<wcall, inGroup, shut, opened>>
    BY <1>1 DEF WatchKeeps, callVars
<1>3. watch' \in WatchLabels
    BY <1>1 DEF WatchEdge, WatchLabels
<1>4. PICK n \in Nat : n = Cardinality(WaitUsers)
  <2>1. IsFiniteSet(Party)
      BY WatcherAssumption, FS_AddElement DEF Party
  <2>2. IsFiniteSet(WaitUsers)
      BY <2>1, FS_Subset DEF WaitUsers
  <2> QED
      BY <2>2, FS_CardinalityType
<1>5. n = Cardinality(WaitUsers)'
    BY <1>2, <1>4 DEF WaitUsers
<1> DEFINE c == One(watch # "dead") + One(InCallback)
<1>6. wrefs = One(opened) + One(watch # "dead") + One(InCallback) + n /\ wrefs \in Nat
    BY <1>4 DEF WatcherInv, WatcherSafe, WatcherRefsExact, WaitUsers, One, WatchTypes
<1>7. wrefs' = One(opened)' + One(watch # "dead")' + One(InCallback)' + n
  <2>1. CASE watch = "ref"
    <3>1. watch' = "out" /\ wrefs' = wrefs + 1
        BY <1>1, <2>1, WatchEdges DEF WatchEdge
    <3> QED
        BY <1>2, <1>6, <2>1, <3>1 DEF One, InCallback
  <2>2. CASE watch = "deref"
    <3>1. watch' = "look" /\ wrefs' = wrefs - 1
        BY <1>1, <2>2, WatchEdges DEF WatchEdge
    <3> QED
        BY <1>2, <1>6, <2>2, <3>1 DEF One, InCallback
  <2>3. CASE watch = "end"
    <3>1. watch' = "dead" /\ wrefs' = wrefs - 1
        BY <1>1, <2>3, WatchEdges DEF WatchEdge
    <3> QED
        BY <1>2, <1>6, <2>3, <3>1 DEF One, InCallback
  <2>4. CASE watch \notin {"ref", "deref", "end"}
    <3>1. wrefs' = wrefs
        BY <2>4, WatchEdges
    <3>2. watch # "dead" /\ watch' # "dead" /\ (InCallback' <=> InCallback)
        BY <1>1, <2>4 DEF WatchEdge, InCallback
    <3> QED
        BY <1>2, <1>6, <3>1, <3>2 DEF One
  <2> QED
      BY <2>1, <2>2, <2>3, <2>4
<1>8. WatcherRefsExact'
    BY <1>5, <1>7 DEF WatcherRefsExact, WaitUsers, One
<1>9. wrefs' \in Nat
    BY <1>4, <1>7 DEF One
<1> QED
    BY <1>2, <1>3, <1>8, <1>9 DEF WatchTypes, WatcherInv

LEMMA WatchShutStep ==
  ASSUME WatcherInv, WatchRuns \/ Expires
  PROVE  CloserOK' /\ JoinOK' /\ DeleteOK' /\ NoCallbackAfterClose'
<1>1. WatchEdge(watch, watch') /\ (watch = "callback" => wcall[Watcher] = "idle")
    BY WatchEdges
<1>2. UNCHANGED <<wcall, inGroup, shut, opened>>
    BY WatchFrame DEF WatchKeeps, callVars
<1>3. wcall[Watcher] = "idle" /\ watch # "dead"
    BY <1>1 DEF WatcherInv, JoinOK, WatchEdge
<1>4. CloserOK' /\ JoinOK'
    BY <1>2, <1>3 DEF WatcherInv, CloserOK, JoinOK, PastJoin
<1>5. ~opened => shut = Watcher /\ "delete" \in wflags /\ watch # "mark"
    BY <1>3 DEF WatcherInv, WatcherSafe, NoCallbackAfterClose, DeleteOK
<1>6. ~opened => "delete" \in wflags'
    BY <1>5 DEF WatchRuns, Look, Kicked, Expires, Relock, Mark, Check, TakeRef, CountOut, ResetIdle,
                Returns, Uncancel, SignalIdle, DropRef, countVars
<1>7. NoCallbackAfterClose'
  <2>1. "delete" \in wflags /\ watch = "look" => watch' = "end"
      BY DEF WatchRuns, Look, Kicked, Expires, Relock, Mark, Check, TakeRef, CountOut, ResetIdle,
             Returns, Uncancel, SignalIdle, DropRef, WatchGoto
  <2> QED
      BY <1>1, <1>2, <1>3, <1>5, <2>1 DEF NoCallbackAfterClose, WatcherInv, WatcherSafe, WatchEdge
<1>8. \A p \in Party : wcall[p] \in {"store", "c_store"} => spin = p /\ p # Watcher /\ p # Nobody
    BY <1>3, WatcherAssumption DEF WatcherInv, DeleteOK, Party
<1>9. /\ \A p \in Party : wcall[p] \in {"store", "c_store"} => spin' = p
      /\ watch' = "mark" => spin' = Watcher
  <2>1. CASE Relock
      BY <1>8, <2>1 DEF Relock, WatchGoto
  <2>2. CASE Mark
      BY <1>8, <2>2 DEF Mark, WatchGoto, WatcherInv, DeleteOK
  <2>3. CASE ~Relock /\ ~Mark
      BY <1>8, <2>3 DEF WatchRuns, Look, Kicked, Expires, Check, TakeRef, CountOut, ResetIdle,
             Returns, Uncancel, SignalIdle, DropRef, WatchGoto
  <2> QED
      BY <2>1, <2>2, <2>3
<1>10. DeleteOK'
    BY <1>2, <1>3, <1>5, <1>6, <1>9 DEF DeleteOK, ShutLate
<1> QED
    BY <1>4, <1>7, <1>10

(* A step of a call: thread p goes to l.                                   *)
CallMoves(p, l) ==
  /\ wcall[p] # l /\ wcall'[p] = l
  /\ \A q \in Party \ {p} : wcall'[q] = wcall[q]
  /\ watch' = watch

LEMMA CallMovesTo ==
  ASSUME WatchTypes, NEW p \in Party, NEW l, CallGoto(p, l), wcall[p] # l, UNCHANGED watch
  PROVE  CallMoves(p, l)
BY DEF WatchTypes, CallGoto, CallMoves

LEMMA CallTypesStep ==
  ASSUME WatcherInv, NEW p \in Party, NEW l \in CallLabels, CallMoves(p, l), CallGoto(p, l),
         wrefs' = wrefs + One(opened') - One(opened)
                   + One(l \in WaiterHolds) - One(wcall[p] \in WaiterHolds),
         inGroup' \subseteq Caller, shut' \in Party \cup {Nobody}
  PROVE  WatchTypes' /\ WatcherRefsExact'
<1> DEFINE S == WaitUsers
           T == WaitUsers'
<1>1. IsFiniteSet(S)
  <2>1. IsFiniteSet(Party)
      BY WatcherAssumption, FS_AddElement DEF Party
  <2> QED
      BY <2>1, FS_Subset DEF WaitUsers
<1>2. /\ T \ {p} = S \ {p}
      /\ p \in S <=> wcall[p] \in WaiterHolds
      /\ p \in T <=> l \in WaiterHolds
    BY DEF WaitUsers, CallMoves
<1>3. /\ Cardinality(S) \in Nat /\ Cardinality(T) \in Nat
      /\ Cardinality(T) = Cardinality(S) - One(p \in S) + One(p \in T)
    BY <1>1, <1>2, OneMoves
<1>4. Cardinality(T) = Cardinality(S) - One(wcall[p] \in WaiterHolds) + One(l \in WaiterHolds)
    BY <1>2, <1>3 DEF One
<1> HIDE DEF S, T
<1>5. wrefs = One(opened) + One(watch # "dead") + One(InCallback) + Cardinality(S) /\ wrefs \in
    Nat
    BY DEF S, WatcherInv, WatcherSafe, WatcherRefsExact, WaitUsers, One, WatchTypes
<1>6. /\ One(watch # "dead")' = One(watch # "dead") /\ One(InCallback)' = One(InCallback)
      /\ One(opened)' = One(opened')
    BY DEF CallMoves, InCallback, One
<1>7. /\ One(opened) \in Nat /\ One(opened') \in Nat /\ One(watch # "dead") \in Nat
      /\ One(InCallback) \in Nat /\ One(l \in WaiterHolds) \in Nat
      /\ One(wcall[p] \in WaiterHolds) \in Nat
    BY DEF One
<1>8. wrefs' = One(opened)' + One(watch # "dead")' + One(InCallback)' + Cardinality(T)
    BY <1>3, <1>4, <1>5, <1>6, <1>7
<1>9. wrefs' \in Nat
    BY <1>3, <1>6, <1>7, <1>8
<1>10. WatcherRefsExact'
    BY <1>8 DEF T, WatcherRefsExact, WaitUsers, One
<1>11. wcall' \in [Party -> CallLabels] /\ watch' \in WatchLabels
    BY DEF WatcherInv, WatchTypes, CallGoto, CallMoves
<1> QED
    BY <1>9, <1>10, <1>11 DEF WatchTypes

(* A thread that asks for a reference without one finds the object open.   *)
LEMMA RefFound ==
  ASSUME WatcherInv, NEW p \in Party, wcall[p] = "w_ref" PROVE opened /\ wrefs >= 1
<1>1. opened
    BY DEF WatcherInv, CloserOK
<1>2. Cardinality(WaitUsers) \in Nat
  <2>1. IsFiniteSet(Party)
      BY WatcherAssumption, FS_AddElement DEF Party
  <2>2. IsFiniteSet(WaitUsers)
      BY <2>1, FS_Subset DEF WaitUsers
  <2> QED
      BY <2>2, FS_CardinalityType
<1>3. wrefs = One(opened) + One(watch # "dead") + One(InCallback) + Cardinality(WaitUsers)
    BY DEF WatcherInv, WatcherSafe, WatcherRefsExact, WaitUsers, One
<1> QED
    BY <1>1, <1>2, <1>3 DEF One

ShutSafe == CloserOK /\ JoinOK /\ DeleteOK /\ NoCallbackAfterClose

LEMMA SetLoadStep ==
  ASSUME WatcherInv, NEW p \in Party, SetLoad(p)
  PROVE  WatchTypes' /\ WatcherRefsExact' /\ ShutSafe'
<1>1. PICK l \in {"store"} : CallGoto(p, l)
    BY DEF SetLoad, Able, CallGoto
<1>2. wcall[p] = "idle" /\ l \in CallLabels /\ wcall[p] # l /\ UNCHANGED watch
    BY DEF SetLoad, Able, CallLabels, WaiterHolds, Shutting, ShutLate
<1>3. CallMoves(p, l)
    BY <1>1, <1>2, CallMovesTo DEF WatcherInv
<1>4. /\ wrefs' = wrefs + One(opened') - One(opened)
                    + One(l \in WaiterHolds) - One(wcall[p] \in WaiterHolds)
      /\ inGroup' \subseteq Caller /\ shut' \in Party \cup {Nobody}
    BY <1>2 DEF SetLoad, Able, countVars, callVars, One, WaiterHolds, WatcherInv, WatchTypes,
        CloserOK, Shutting, ShutLate
<1>5. CloserOK'
    BY <1>2, <1>3, WatcherAssumption
       DEF SetLoad, Able, countVars, WatcherInv, WatchTypes, CloserOK, CallMoves, Shutting,
           ShutLate, WaiterHolds, Party
<1>6. JoinOK'
    BY <1>2, <1>3, WatcherAssumption
       DEF SetLoad, Able, countVars, WatcherInv, WatchTypes, CloserOK, JoinOK, PastJoin,
           CallMoves, Shutting, ShutLate, WaiterHolds, Party
<1>7. DeleteOK'
    BY <1>2, <1>3, WatcherAssumption
       DEF SetLoad, Able, countVars, WatcherInv, WatchTypes, CloserOK, JoinOK, DeleteOK,
           CallMoves, Shutting, ShutLate, WaiterHolds, Party
<1>8. NoCallbackAfterClose'
    BY <1>2, <1>3, WatcherAssumption
       DEF SetLoad, Able, countVars, WatcherInv, WatcherSafe, WatchTypes, CloserOK, JoinOK,
           PastJoin, NoCallbackAfterClose, CallMoves, Shutting, ShutLate, Party
<1> QED
    BY <1>1, <1>2, <1>3, <1>4, <1>5, <1>6, <1>7, <1>8, CallTypesStep DEF ShutSafe

LEMMA SetStoreStep ==
  ASSUME WatcherInv, NEW p \in Party, NEW on, NEW periodic, SetStore(p, on, periodic)
  PROVE  WatchTypes' /\ WatcherRefsExact' /\ ShutSafe'
<1>1. PICK l \in {"idle"} : CallGoto(p, l)
    BY DEF SetStore, Store, CallGoto
<1>2. wcall[p] = "store" /\ l \in CallLabels /\ wcall[p] # l /\ UNCHANGED watch
    BY DEF SetStore, Store, CallLabels, WaiterHolds, Shutting, ShutLate
<1>3. CallMoves(p, l)
    BY <1>1, <1>2, CallMovesTo DEF WatcherInv
<1>4. /\ wrefs' = wrefs + One(opened') - One(opened)
                    + One(l \in WaiterHolds) - One(wcall[p] \in WaiterHolds)
      /\ inGroup' \subseteq Caller /\ shut' \in Party \cup {Nobody}
    BY <1>2 DEF SetStore, Store, countVars, callVars, One, WaiterHolds, WatcherInv, WatchTypes,
        CloserOK, Shutting, ShutLate
<1>5. CloserOK'
    BY <1>2, <1>3, WatcherAssumption
       DEF SetStore, Store, countVars, WatcherInv, WatchTypes, CloserOK, CallMoves, Shutting,
           ShutLate, WaiterHolds, Party
<1>6. JoinOK'
    BY <1>2, <1>3, WatcherAssumption
       DEF SetStore, Store, countVars, WatcherInv, WatchTypes, CloserOK, JoinOK, PastJoin,
           CallMoves, Shutting, ShutLate, WaiterHolds, Party
<1>7. DeleteOK'
    BY <1>2, <1>3, WatcherAssumption
       DEF SetStore, Store, countVars, WatcherInv, WatchTypes, CloserOK, JoinOK, DeleteOK,
           CallMoves, Shutting, ShutLate, WaiterHolds, Party
<1>8. NoCallbackAfterClose'
    BY <1>2, <1>3, WatcherAssumption
       DEF SetStore, Store, countVars, WatcherInv, WatcherSafe, WatchTypes, CloserOK, JoinOK,
           PastJoin, NoCallbackAfterClose, CallMoves, Shutting, ShutLate, Party
<1> QED
    BY <1>1, <1>2, <1>3, <1>4, <1>5, <1>6, <1>7, <1>8, CallTypesStep DEF ShutSafe

LEMMA BeginWaitStep ==
  ASSUME WatcherInv, NEW p \in Party, NEW cancel, BeginWait(p, cancel)
  PROVE  WatchTypes' /\ WatcherRefsExact' /\ ShutSafe'
<1>1. PICK l \in {"w_ref"} : CallGoto(p, l)
    BY DEF BeginWait, Able, CallGoto
<1>2. wcall[p] = "idle" /\ l \in CallLabels /\ wcall[p] # l /\ UNCHANGED watch
    BY DEF BeginWait, Able, CallLabels, WaiterHolds, Shutting, ShutLate
<1>3. CallMoves(p, l)
    BY <1>1, <1>2, CallMovesTo DEF WatcherInv
<1>4. /\ wrefs' = wrefs + One(opened') - One(opened)
                    + One(l \in WaiterHolds) - One(wcall[p] \in WaiterHolds)
      /\ inGroup' \subseteq Caller /\ shut' \in Party \cup {Nobody}
    BY <1>2 DEF BeginWait, Able, countVars, callVars, One, WaiterHolds, WatcherInv, WatchTypes,
        CloserOK, Shutting, ShutLate
<1>5. CloserOK'
    BY <1>2, <1>3, WatcherAssumption
       DEF BeginWait, Able, countVars, WatcherInv, WatchTypes, CloserOK, CallMoves, Shutting,
           ShutLate, WaiterHolds, Party
<1>6. JoinOK'
    BY <1>2, <1>3, WatcherAssumption
       DEF BeginWait, Able, countVars, WatcherInv, WatchTypes, CloserOK, JoinOK, PastJoin,
           CallMoves, Shutting, ShutLate, WaiterHolds, Party
<1>7. DeleteOK'
    BY <1>2, <1>3, WatcherAssumption
       DEF BeginWait, Able, countVars, WatcherInv, WatchTypes, CloserOK, JoinOK, DeleteOK,
           CallMoves, Shutting, ShutLate, WaiterHolds, Party
<1>8. NoCallbackAfterClose'
    BY <1>2, <1>3, WatcherAssumption
       DEF BeginWait, Able, countVars, WatcherInv, WatcherSafe, WatchTypes, CloserOK, JoinOK,
           PastJoin, NoCallbackAfterClose, CallMoves, Shutting, ShutLate, Party
<1> QED
    BY <1>1, <1>2, <1>3, <1>4, <1>5, <1>6, <1>7, <1>8, CallTypesStep DEF ShutSafe

LEMMA WaiterRefStep ==
  ASSUME WatcherInv, NEW p \in Party, WaiterRef(p)
  PROVE  WatchTypes' /\ WatcherRefsExact' /\ ShutSafe'
<1>0. ~(wrefs + 1 <= 1)
    BY RefFound DEF WaiterRef, WatcherInv, WatchTypes
<1>1. PICK l \in {"w_cancel", "w_wait"} : CallGoto(p, l)
    BY <1>0 DEF WaiterRef, CallGoto
<1>2. wcall[p] = "w_ref" /\ l \in CallLabels /\ wcall[p] # l /\ UNCHANGED watch
    BY DEF WaiterRef, CallLabels, WaiterHolds, Shutting, ShutLate
<1>3. CallMoves(p, l)
    BY <1>1, <1>2, CallMovesTo DEF WatcherInv
<1>4. /\ wrefs' = wrefs + One(opened') - One(opened)
                    + One(l \in WaiterHolds) - One(wcall[p] \in WaiterHolds)
      /\ inGroup' \subseteq Caller /\ shut' \in Party \cup {Nobody}
    BY <1>2 DEF WaiterRef, countVars, callVars, One, WaiterHolds, WatcherInv, WatchTypes,
        CloserOK, Shutting, ShutLate
<1>5. CloserOK'
    BY <1>2, <1>3, WatcherAssumption
       DEF WaiterRef, countVars, WatcherInv, WatchTypes, CloserOK, CallMoves, Shutting,
           ShutLate, WaiterHolds, Party
<1>6. JoinOK'
    BY <1>2, <1>3, WatcherAssumption
       DEF WaiterRef, countVars, WatcherInv, WatchTypes, CloserOK, JoinOK, PastJoin, CallMoves,
           Shutting, ShutLate, WaiterHolds, Party
<1>7. DeleteOK'
    BY <1>2, <1>3, WatcherAssumption
       DEF WaiterRef, countVars, WatcherInv, WatchTypes, CloserOK, JoinOK, DeleteOK, CallMoves,
           Shutting, ShutLate, WaiterHolds, Party
<1>8. NoCallbackAfterClose'
    BY <1>2, <1>3, WatcherAssumption
       DEF WaiterRef, countVars, WatcherInv, WatcherSafe, WatchTypes, CloserOK, JoinOK,
           PastJoin, NoCallbackAfterClose, CallMoves, Shutting, ShutLate, Party
<1> QED
    BY <1>1, <1>2, <1>3, <1>4, <1>5, <1>6, <1>7, <1>8, CallTypesStep DEF ShutSafe

LEMMA WaiterCancelStep ==
  ASSUME WatcherInv, NEW p \in Party, WaiterCancel(p)
  PROVE  WatchTypes' /\ WatcherRefsExact' /\ ShutSafe'
<1>1. PICK l \in {"w_kick"} : CallGoto(p, l)
    BY DEF WaiterCancel, CallGoto
<1>2. wcall[p] = "w_cancel" /\ l \in CallLabels /\ wcall[p] # l /\ UNCHANGED watch
    BY DEF WaiterCancel, CallLabels, WaiterHolds, Shutting, ShutLate
<1>3. CallMoves(p, l)
    BY <1>1, <1>2, CallMovesTo DEF WatcherInv
<1>4. /\ wrefs' = wrefs + One(opened') - One(opened)
                    + One(l \in WaiterHolds) - One(wcall[p] \in WaiterHolds)
      /\ inGroup' \subseteq Caller /\ shut' \in Party \cup {Nobody}
    BY <1>2 DEF WaiterCancel, countVars, callVars, One, WaiterHolds, WatcherInv, WatchTypes,
        CloserOK, Shutting, ShutLate
<1>5. CloserOK'
    BY <1>2, <1>3, WatcherAssumption
       DEF WaiterCancel, countVars, WatcherInv, WatchTypes, CloserOK, CallMoves, Shutting,
           ShutLate, WaiterHolds, Party
<1>6. JoinOK'
    BY <1>2, <1>3, WatcherAssumption
       DEF WaiterCancel, countVars, WatcherInv, WatchTypes, CloserOK, JoinOK, PastJoin,
           CallMoves, Shutting, ShutLate, WaiterHolds, Party
<1>7. DeleteOK'
    BY <1>2, <1>3, WatcherAssumption
       DEF WaiterCancel, countVars, WatcherInv, WatchTypes, CloserOK, JoinOK, DeleteOK,
           CallMoves, Shutting, ShutLate, WaiterHolds, Party
<1>8. NoCallbackAfterClose'
    BY <1>2, <1>3, WatcherAssumption
       DEF WaiterCancel, countVars, WatcherInv, WatcherSafe, WatchTypes, CloserOK, JoinOK,
           PastJoin, NoCallbackAfterClose, CallMoves, Shutting, ShutLate, Party
<1> QED
    BY <1>1, <1>2, <1>3, <1>4, <1>5, <1>6, <1>7, <1>8, CallTypesStep DEF ShutSafe

LEMMA WaiterKickStep ==
  ASSUME WatcherInv, NEW p \in Party, WaiterKick(p)
  PROVE  WatchTypes' /\ WatcherRefsExact' /\ ShutSafe'
<1>1. PICK l \in {"w_wait"} : CallGoto(p, l)
    BY DEF WaiterKick, CallGoto
<1>2. wcall[p] = "w_kick" /\ l \in CallLabels /\ wcall[p] # l /\ UNCHANGED watch
    BY DEF WaiterKick, CallLabels, WaiterHolds, Shutting, ShutLate
<1>3. CallMoves(p, l)
    BY <1>1, <1>2, CallMovesTo DEF WatcherInv
<1>4. /\ wrefs' = wrefs + One(opened') - One(opened)
                    + One(l \in WaiterHolds) - One(wcall[p] \in WaiterHolds)
      /\ inGroup' \subseteq Caller /\ shut' \in Party \cup {Nobody}
    BY <1>2 DEF WaiterKick, countVars, callVars, One, WaiterHolds, WatcherInv, WatchTypes,
        CloserOK, Shutting, ShutLate
<1>5. CloserOK'
    BY <1>2, <1>3, WatcherAssumption
       DEF WaiterKick, countVars, WatcherInv, WatchTypes, CloserOK, CallMoves, Shutting,
           ShutLate, WaiterHolds, Party
<1>6. JoinOK'
    BY <1>2, <1>3, WatcherAssumption
       DEF WaiterKick, countVars, WatcherInv, WatchTypes, CloserOK, JoinOK, PastJoin, CallMoves,
           Shutting, ShutLate, WaiterHolds, Party
<1>7. DeleteOK'
    BY <1>2, <1>3, WatcherAssumption
       DEF WaiterKick, countVars, WatcherInv, WatchTypes, CloserOK, JoinOK, DeleteOK, CallMoves,
           Shutting, ShutLate, WaiterHolds, Party
<1>8. NoCallbackAfterClose'
    BY <1>2, <1>3, WatcherAssumption
       DEF WaiterKick, countVars, WatcherInv, WatcherSafe, WatchTypes, CloserOK, JoinOK,
           PastJoin, NoCallbackAfterClose, CallMoves, Shutting, ShutLate, Party
<1> QED
    BY <1>1, <1>2, <1>3, <1>4, <1>5, <1>6, <1>7, <1>8, CallTypesStep DEF ShutSafe

LEMMA WaiterOverStep ==
  ASSUME WatcherInv, NEW p \in Party, WaiterOver(p)
  PROVE  WatchTypes' /\ WatcherRefsExact' /\ ShutSafe'
<1>1. PICK l \in {"w_clear", "w_deref"} : CallGoto(p, l)
    BY DEF WaiterOver, CallGoto
<1>2. wcall[p] = "w_wait" /\ l \in CallLabels /\ wcall[p] # l /\ UNCHANGED watch
    BY DEF WaiterOver, CallLabels, WaiterHolds, Shutting, ShutLate
<1>3. CallMoves(p, l)
    BY <1>1, <1>2, CallMovesTo DEF WatcherInv
<1>4. /\ wrefs' = wrefs + One(opened') - One(opened)
                    + One(l \in WaiterHolds) - One(wcall[p] \in WaiterHolds)
      /\ inGroup' \subseteq Caller /\ shut' \in Party \cup {Nobody}
    BY <1>2 DEF WaiterOver, countVars, callVars, One, WaiterHolds, WatcherInv, WatchTypes,
        CloserOK, Shutting, ShutLate
<1>5. CloserOK'
    BY <1>2, <1>3, WatcherAssumption
       DEF WaiterOver, countVars, WatcherInv, WatchTypes, CloserOK, CallMoves, Shutting,
           ShutLate, WaiterHolds, Party
<1>6. JoinOK'
    BY <1>2, <1>3, WatcherAssumption
       DEF WaiterOver, countVars, WatcherInv, WatchTypes, CloserOK, JoinOK, PastJoin, CallMoves,
           Shutting, ShutLate, WaiterHolds, Party
<1>7. DeleteOK'
    BY <1>2, <1>3, WatcherAssumption
       DEF WaiterOver, countVars, WatcherInv, WatchTypes, CloserOK, JoinOK, DeleteOK, CallMoves,
           Shutting, ShutLate, WaiterHolds, Party
<1>8. NoCallbackAfterClose'
    BY <1>2, <1>3, WatcherAssumption
       DEF WaiterOver, countVars, WatcherInv, WatcherSafe, WatchTypes, CloserOK, JoinOK,
           PastJoin, NoCallbackAfterClose, CallMoves, Shutting, ShutLate, Party
<1> QED
    BY <1>1, <1>2, <1>3, <1>4, <1>5, <1>6, <1>7, <1>8, CallTypesStep DEF ShutSafe

LEMMA WaiterClearStep ==
  ASSUME WatcherInv, NEW p \in Party, WaiterClear(p)
  PROVE  WatchTypes' /\ WatcherRefsExact' /\ ShutSafe'
<1>1. PICK l \in {"w_deref"} : CallGoto(p, l)
    BY DEF WaiterClear, CallGoto
<1>2. wcall[p] = "w_clear" /\ l \in CallLabels /\ wcall[p] # l /\ UNCHANGED watch
    BY DEF WaiterClear, CallLabels, WaiterHolds, Shutting, ShutLate
<1>3. CallMoves(p, l)
    BY <1>1, <1>2, CallMovesTo DEF WatcherInv
<1>4. /\ wrefs' = wrefs + One(opened') - One(opened)
                    + One(l \in WaiterHolds) - One(wcall[p] \in WaiterHolds)
      /\ inGroup' \subseteq Caller /\ shut' \in Party \cup {Nobody}
    BY <1>2 DEF WaiterClear, countVars, callVars, One, WaiterHolds, WatcherInv, WatchTypes,
        CloserOK, Shutting, ShutLate
<1>5. CloserOK'
    BY <1>2, <1>3, WatcherAssumption
       DEF WaiterClear, countVars, WatcherInv, WatchTypes, CloserOK, CallMoves, Shutting,
           ShutLate, WaiterHolds, Party
<1>6. JoinOK'
    BY <1>2, <1>3, WatcherAssumption
       DEF WaiterClear, countVars, WatcherInv, WatchTypes, CloserOK, JoinOK, PastJoin,
           CallMoves, Shutting, ShutLate, WaiterHolds, Party
<1>7. DeleteOK'
    BY <1>2, <1>3, WatcherAssumption
       DEF WaiterClear, countVars, WatcherInv, WatchTypes, CloserOK, JoinOK, DeleteOK,
           CallMoves, Shutting, ShutLate, WaiterHolds, Party
<1>8. NoCallbackAfterClose'
    BY <1>2, <1>3, WatcherAssumption
       DEF WaiterClear, countVars, WatcherInv, WatcherSafe, WatchTypes, CloserOK, JoinOK,
           PastJoin, NoCallbackAfterClose, CallMoves, Shutting, ShutLate, Party
<1> QED
    BY <1>1, <1>2, <1>3, <1>4, <1>5, <1>6, <1>7, <1>8, CallTypesStep DEF ShutSafe

LEMMA WaiterDerefStep ==
  ASSUME WatcherInv, NEW p \in Party, WaiterDeref(p)
  PROVE  WatchTypes' /\ WatcherRefsExact' /\ ShutSafe'
<1>1. PICK l \in {"c_deref", "idle"} : CallGoto(p, l) /\ (l = "c_deref" <=> p \in inGroup)
    BY DEF WaiterDeref, AfterWait, CallGoto
<1>2. wcall[p] = "w_deref" /\ l \in CallLabels /\ wcall[p] # l /\ UNCHANGED watch
    BY DEF WaiterDeref, AfterWait, CallLabels, WaiterHolds, Shutting, ShutLate
<1>3. CallMoves(p, l)
    BY <1>1, <1>2, CallMovesTo DEF WatcherInv
<1>4. /\ wrefs' = wrefs + One(opened') - One(opened)
                    + One(l \in WaiterHolds) - One(wcall[p] \in WaiterHolds)
      /\ inGroup' \subseteq Caller /\ shut' \in Party \cup {Nobody}
    BY <1>2 DEF WaiterDeref, AfterWait, countVars, callVars, One, WaiterHolds, WatcherInv,
        WatchTypes, CloserOK, Shutting, ShutLate
<1>5. CloserOK'
    BY <1>1, <1>2, <1>3, WatcherAssumption
       DEF WaiterDeref, AfterWait, countVars, WatcherInv, WatchTypes, CloserOK, CallMoves,
           Shutting, ShutLate, WaiterHolds, Party
<1>6. JoinOK'
    BY <1>1, <1>2, <1>3, WatcherAssumption
       DEF WaiterDeref, AfterWait, countVars, WatcherInv, WatchTypes, CloserOK, JoinOK,
           PastJoin, CallMoves, Shutting, ShutLate, WaiterHolds, Party
<1>7. DeleteOK'
    BY <1>1, <1>2, <1>3, WatcherAssumption
       DEF WaiterDeref, AfterWait, countVars, WatcherInv, WatchTypes, CloserOK, JoinOK,
           DeleteOK, CallMoves, Shutting, ShutLate, WaiterHolds, Party
<1>8. NoCallbackAfterClose'
    BY <1>1, <1>2, <1>3, WatcherAssumption
       DEF WaiterDeref, AfterWait, countVars, WatcherInv, WatcherSafe, WatchTypes, CloserOK,
           JoinOK, PastJoin, NoCallbackAfterClose, CallMoves, Shutting, ShutLate, Party
<1> QED
    BY <1>1, <1>2, <1>3, <1>4, <1>5, <1>6, <1>7, <1>8, CallTypesStep DEF ShutSafe

LEMMA BeginCloseStep ==
  ASSUME WatcherInv, NEW p \in Party, BeginClose(p)
  PROVE  WatchTypes' /\ WatcherRefsExact' /\ ShutSafe'
<1>1. PICK l \in {"c_delete"} : CallGoto(p, l)
    BY DEF BeginClose, MayShut, Able, CallGoto
<1>2. wcall[p] = "idle" /\ l \in CallLabels /\ wcall[p] # l /\ UNCHANGED watch
    BY DEF BeginClose, MayShut, Able, CallLabels, WaiterHolds, Shutting, ShutLate
<1>3. CallMoves(p, l)
    BY <1>1, <1>2, CallMovesTo DEF WatcherInv
<1>4. /\ wrefs' = wrefs + One(opened') - One(opened)
                    + One(l \in WaiterHolds) - One(wcall[p] \in WaiterHolds)
      /\ inGroup' \subseteq Caller /\ shut' \in Party \cup {Nobody}
    BY <1>2 DEF BeginClose, MayShut, Able, countVars, callVars, One, WaiterHolds, WatcherInv,
        WatchTypes, CloserOK, Shutting, ShutLate
<1>5. CloserOK'
    BY <1>2, <1>3, WatcherAssumption
       DEF BeginClose, MayShut, Able, countVars, WatcherInv, WatchTypes, CloserOK, CallMoves,
           Shutting, ShutLate, WaiterHolds, Party
<1>6. JoinOK'
    BY <1>2, <1>3, WatcherAssumption
       DEF BeginClose, MayShut, Able, countVars, WatcherInv, WatchTypes, CloserOK, JoinOK,
           PastJoin, CallMoves, Shutting, ShutLate, WaiterHolds, Party
<1>7. DeleteOK'
    BY <1>2, <1>3, WatcherAssumption
       DEF BeginClose, MayShut, Able, countVars, WatcherInv, WatchTypes, CloserOK, JoinOK,
           DeleteOK, CallMoves, Shutting, ShutLate, WaiterHolds, Party
<1>8. NoCallbackAfterClose'
    BY <1>2, <1>3, WatcherAssumption
       DEF BeginClose, MayShut, Able, countVars, WatcherInv, WatcherSafe, WatchTypes, CloserOK,
           JoinOK, PastJoin, NoCallbackAfterClose, CallMoves, Shutting, ShutLate, Party
<1> QED
    BY <1>1, <1>2, <1>3, <1>4, <1>5, <1>6, <1>7, <1>8, CallTypesStep DEF ShutSafe

LEMMA BeginGroupCloseStep ==
  ASSUME WatcherInv, NEW p \in Party, NEW cancel, BeginGroupClose(p, cancel)
  PROVE  WatchTypes' /\ WatcherRefsExact' /\ ShutSafe'
<1>1. PICK l \in {"c_delete"} : CallGoto(p, l)
    BY DEF BeginGroupClose, MayShut, Able, CallGoto
<1>2. wcall[p] = "idle" /\ l \in CallLabels /\ wcall[p] # l /\ UNCHANGED watch
    BY DEF BeginGroupClose, MayShut, Able, CallLabels, WaiterHolds, Shutting, ShutLate
<1>3. CallMoves(p, l)
    BY <1>1, <1>2, CallMovesTo DEF WatcherInv
<1>4. /\ wrefs' = wrefs + One(opened') - One(opened)
                    + One(l \in WaiterHolds) - One(wcall[p] \in WaiterHolds)
      /\ inGroup' \subseteq Caller /\ shut' \in Party \cup {Nobody}
    BY <1>2 DEF BeginGroupClose, MayShut, Able, countVars, callVars, One, WaiterHolds,
        WatcherInv, WatchTypes, CloserOK, Shutting, ShutLate
<1>5. CloserOK'
    BY <1>2, <1>3, WatcherAssumption
       DEF BeginGroupClose, MayShut, Able, countVars, WatcherInv, WatchTypes, CloserOK,
           CallMoves, Shutting, ShutLate, WaiterHolds, Party
<1>6. JoinOK'
    BY <1>2, <1>3, WatcherAssumption
       DEF BeginGroupClose, MayShut, Able, countVars, WatcherInv, WatchTypes, CloserOK, JoinOK,
           PastJoin, CallMoves, Shutting, ShutLate, WaiterHolds, Party
<1>7. DeleteOK'
    BY <1>2, <1>3, WatcherAssumption
       DEF BeginGroupClose, MayShut, Able, countVars, WatcherInv, WatchTypes, CloserOK, JoinOK,
           DeleteOK, CallMoves, Shutting, ShutLate, WaiterHolds, Party
<1>8. NoCallbackAfterClose'
    BY <1>2, <1>3, WatcherAssumption
       DEF BeginGroupClose, MayShut, Able, countVars, WatcherInv, WatcherSafe, WatchTypes,
           CloserOK, JoinOK, PastJoin, NoCallbackAfterClose, CallMoves, Shutting, ShutLate,
           Party
<1> QED
    BY <1>1, <1>2, <1>3, <1>4, <1>5, <1>6, <1>7, <1>8, CallTypesStep DEF ShutSafe

LEMMA ShutDeleteStep ==
  ASSUME WatcherInv, NEW p \in Party, ShutDelete(p)
  PROVE  WatchTypes' /\ WatcherRefsExact' /\ ShutSafe'
<1>1. PICK l \in {"c_kick"} : CallGoto(p, l)
    BY DEF ShutDelete, CallGoto
<1>2. wcall[p] = "c_delete" /\ l \in CallLabels /\ wcall[p] # l /\ UNCHANGED watch
    BY DEF ShutDelete, CallLabels, WaiterHolds, Shutting, ShutLate
<1>3. CallMoves(p, l)
    BY <1>1, <1>2, CallMovesTo DEF WatcherInv
<1>4. /\ wrefs' = wrefs + One(opened') - One(opened)
                    + One(l \in WaiterHolds) - One(wcall[p] \in WaiterHolds)
      /\ inGroup' \subseteq Caller /\ shut' \in Party \cup {Nobody}
    BY <1>2 DEF ShutDelete, countVars, callVars, One, WaiterHolds, WatcherInv, WatchTypes,
        CloserOK, Shutting, ShutLate
<1>5. CloserOK'
    BY <1>2, <1>3, WatcherAssumption
       DEF ShutDelete, countVars, WatcherInv, WatchTypes, CloserOK, CallMoves, Shutting,
           ShutLate, WaiterHolds, Party
<1>6. JoinOK'
    BY <1>2, <1>3, WatcherAssumption
       DEF ShutDelete, countVars, WatcherInv, WatchTypes, CloserOK, JoinOK, PastJoin, CallMoves,
           Shutting, ShutLate, WaiterHolds, Party
<1>7. DeleteOK'
    BY <1>2, <1>3, WatcherAssumption
       DEF ShutDelete, countVars, WatcherInv, WatchTypes, CloserOK, JoinOK, DeleteOK, CallMoves,
           Shutting, ShutLate, WaiterHolds, Party
<1>8. NoCallbackAfterClose'
    BY <1>2, <1>3, WatcherAssumption
       DEF ShutDelete, countVars, WatcherInv, WatcherSafe, WatchTypes, CloserOK, JoinOK,
           PastJoin, NoCallbackAfterClose, CallMoves, Shutting, ShutLate, Party
<1> QED
    BY <1>1, <1>2, <1>3, <1>4, <1>5, <1>6, <1>7, <1>8, CallTypesStep DEF ShutSafe

LEMMA ShutKickStep ==
  ASSUME WatcherInv, NEW p \in Party, ShutKick(p)
  PROVE  WatchTypes' /\ WatcherRefsExact' /\ ShutSafe'
<1>1. PICK l \in {"c_join"} : CallGoto(p, l)
    BY DEF ShutKick, CallGoto
<1>2. wcall[p] = "c_kick" /\ l \in CallLabels /\ wcall[p] # l /\ UNCHANGED watch
    BY DEF ShutKick, CallLabels, WaiterHolds, Shutting, ShutLate
<1>3. CallMoves(p, l)
    BY <1>1, <1>2, CallMovesTo DEF WatcherInv
<1>4. /\ wrefs' = wrefs + One(opened') - One(opened)
                    + One(l \in WaiterHolds) - One(wcall[p] \in WaiterHolds)
      /\ inGroup' \subseteq Caller /\ shut' \in Party \cup {Nobody}
    BY <1>2 DEF ShutKick, countVars, callVars, One, WaiterHolds, WatcherInv, WatchTypes,
        CloserOK, Shutting, ShutLate
<1>5. CloserOK'
    BY <1>2, <1>3, WatcherAssumption
       DEF ShutKick, countVars, WatcherInv, WatchTypes, CloserOK, CallMoves, Shutting, ShutLate,
           WaiterHolds, Party
<1>6. JoinOK'
    BY <1>2, <1>3, WatcherAssumption
       DEF ShutKick, countVars, WatcherInv, WatchTypes, CloserOK, JoinOK, PastJoin, CallMoves,
           Shutting, ShutLate, WaiterHolds, Party
<1>7. DeleteOK'
    BY <1>2, <1>3, WatcherAssumption
       DEF ShutKick, countVars, WatcherInv, WatchTypes, CloserOK, JoinOK, DeleteOK, CallMoves,
           Shutting, ShutLate, WaiterHolds, Party
<1>8. NoCallbackAfterClose'
    BY <1>2, <1>3, WatcherAssumption
       DEF ShutKick, countVars, WatcherInv, WatcherSafe, WatchTypes, CloserOK, JoinOK, PastJoin,
           NoCallbackAfterClose, CallMoves, Shutting, ShutLate, Party
<1> QED
    BY <1>1, <1>2, <1>3, <1>4, <1>5, <1>6, <1>7, <1>8, CallTypesStep DEF ShutSafe

LEMMA ShutJoinStep ==
  ASSUME WatcherInv, NEW p \in Party, ShutJoin(p)
  PROVE  WatchTypes' /\ WatcherRefsExact' /\ ShutSafe'
<1>1. PICK l \in {"c_load", "w_ref", "c_deref"} : CallGoto(p, l) /\ (l = "w_ref" => p \in
    inGroup) /\ (watch = "dead" \/ p = Watcher)
    BY DEF ShutJoin, Joined, CallGoto
<1>2. wcall[p] = "c_join" /\ l \in CallLabels /\ wcall[p] # l /\ UNCHANGED watch
    BY DEF ShutJoin, Joined, CallLabels, WaiterHolds, Shutting, ShutLate
<1>3. CallMoves(p, l)
    BY <1>1, <1>2, CallMovesTo DEF WatcherInv
<1>4. /\ wrefs' = wrefs + One(opened') - One(opened)
                    + One(l \in WaiterHolds) - One(wcall[p] \in WaiterHolds)
      /\ inGroup' \subseteq Caller /\ shut' \in Party \cup {Nobody}
    BY <1>2 DEF ShutJoin, Joined, countVars, callVars, One, WaiterHolds, WatcherInv, WatchTypes,
        CloserOK, Shutting, ShutLate
<1>5. CloserOK'
    BY <1>1, <1>2, <1>3, WatcherAssumption
       DEF ShutJoin, Joined, countVars, WatcherInv, WatchTypes, CloserOK, CallMoves, Shutting,
           ShutLate, WaiterHolds, Party
<1>6. JoinOK'
    BY <1>1, <1>2, <1>3, WatcherAssumption
       DEF ShutJoin, Joined, countVars, WatcherInv, WatchTypes, CloserOK, JoinOK, PastJoin,
           CallMoves, Shutting, ShutLate, WaiterHolds, Party
<1>7. DeleteOK'
    BY <1>1, <1>2, <1>3, WatcherAssumption
       DEF ShutJoin, Joined, countVars, WatcherInv, WatchTypes, CloserOK, JoinOK, DeleteOK,
           CallMoves, Shutting, ShutLate, WaiterHolds, Party
<1>8. NoCallbackAfterClose'
    BY <1>1, <1>2, <1>3, WatcherAssumption
       DEF ShutJoin, Joined, countVars, WatcherInv, WatcherSafe, WatchTypes, CloserOK, JoinOK,
           PastJoin, NoCallbackAfterClose, CallMoves, Shutting, ShutLate, Party
<1> QED
    BY <1>1, <1>2, <1>3, <1>4, <1>5, <1>6, <1>7, <1>8, CallTypesStep DEF ShutSafe

LEMMA ShutLoadStep ==
  ASSUME WatcherInv, NEW p \in Party, ShutLoad(p)
  PROVE  WatchTypes' /\ WatcherRefsExact' /\ ShutSafe'
<1>1. PICK l \in {"c_store"} : CallGoto(p, l)
    BY DEF ShutLoad, CallGoto
<1>2. wcall[p] = "c_load" /\ l \in CallLabels /\ wcall[p] # l /\ UNCHANGED watch
    BY DEF ShutLoad, CallLabels, WaiterHolds, Shutting, ShutLate
<1>3. CallMoves(p, l)
    BY <1>1, <1>2, CallMovesTo DEF WatcherInv
<1>4. /\ wrefs' = wrefs + One(opened') - One(opened)
                    + One(l \in WaiterHolds) - One(wcall[p] \in WaiterHolds)
      /\ inGroup' \subseteq Caller /\ shut' \in Party \cup {Nobody}
    BY <1>2 DEF ShutLoad, countVars, callVars, One, WaiterHolds, WatcherInv, WatchTypes,
        CloserOK, Shutting, ShutLate
<1>5. CloserOK'
    BY <1>2, <1>3, WatcherAssumption
       DEF ShutLoad, countVars, WatcherInv, WatchTypes, CloserOK, CallMoves, Shutting, ShutLate,
           WaiterHolds, Party
<1>6. JoinOK'
    BY <1>2, <1>3, WatcherAssumption
       DEF ShutLoad, countVars, WatcherInv, WatchTypes, CloserOK, JoinOK, PastJoin, CallMoves,
           Shutting, ShutLate, WaiterHolds, Party
<1>7. DeleteOK'
    BY <1>2, <1>3, WatcherAssumption
       DEF ShutLoad, countVars, WatcherInv, WatchTypes, CloserOK, JoinOK, DeleteOK, CallMoves,
           Shutting, ShutLate, WaiterHolds, Party
<1>8. NoCallbackAfterClose'
    BY <1>2, <1>3, WatcherAssumption
       DEF ShutLoad, countVars, WatcherInv, WatcherSafe, WatchTypes, CloserOK, JoinOK, PastJoin,
           NoCallbackAfterClose, CallMoves, Shutting, ShutLate, Party
<1> QED
    BY <1>1, <1>2, <1>3, <1>4, <1>5, <1>6, <1>7, <1>8, CallTypesStep DEF ShutSafe

LEMMA ShutStoreStep ==
  ASSUME WatcherInv, NEW p \in Party, ShutStore(p)
  PROVE  WatchTypes' /\ WatcherRefsExact' /\ ShutSafe'
<1>1. PICK l \in {"w_ref", "c_deref"} : CallGoto(p, l) /\ (l = "w_ref" <=> p \in inGroup)
    BY DEF ShutStore, Store, CallGoto
<1>2. wcall[p] = "c_store" /\ l \in CallLabels /\ wcall[p] # l /\ UNCHANGED watch
    BY DEF ShutStore, Store, CallLabels, WaiterHolds, Shutting, ShutLate
<1>3. CallMoves(p, l)
    BY <1>1, <1>2, CallMovesTo DEF WatcherInv
<1>4. /\ wrefs' = wrefs + One(opened') - One(opened)
                    + One(l \in WaiterHolds) - One(wcall[p] \in WaiterHolds)
      /\ inGroup' \subseteq Caller /\ shut' \in Party \cup {Nobody}
    BY <1>2 DEF ShutStore, Store, countVars, callVars, One, WaiterHolds, WatcherInv, WatchTypes,
        CloserOK, Shutting, ShutLate
<1>5. CloserOK'
    BY <1>1, <1>2, <1>3, WatcherAssumption
       DEF ShutStore, Store, countVars, WatcherInv, WatchTypes, CloserOK, CallMoves, Shutting,
           ShutLate, WaiterHolds, Party
<1>6. JoinOK'
    BY <1>1, <1>2, <1>3, WatcherAssumption
       DEF ShutStore, Store, countVars, WatcherInv, WatchTypes, CloserOK, JoinOK, PastJoin,
           CallMoves, Shutting, ShutLate, WaiterHolds, Party
<1>7. DeleteOK'
    BY <1>1, <1>2, <1>3, WatcherAssumption
       DEF ShutStore, Store, countVars, WatcherInv, WatchTypes, CloserOK, JoinOK, DeleteOK,
           CallMoves, Shutting, ShutLate, WaiterHolds, Party
<1>8. NoCallbackAfterClose'
    BY <1>1, <1>2, <1>3, WatcherAssumption
       DEF ShutStore, Store, countVars, WatcherInv, WatcherSafe, WatchTypes, CloserOK, JoinOK,
           PastJoin, NoCallbackAfterClose, CallMoves, Shutting, ShutLate, Party
<1> QED
    BY <1>1, <1>2, <1>3, <1>4, <1>5, <1>6, <1>7, <1>8, CallTypesStep DEF ShutSafe

LEMMA ShutDerefStep ==
  ASSUME WatcherInv, NEW p \in Party, ShutDeref(p)
  PROVE  WatchTypes' /\ WatcherRefsExact' /\ ShutSafe'
<1>1. PICK l \in {"idle"} : CallGoto(p, l)
    BY DEF ShutDeref, CallGoto
<1>2. wcall[p] = "c_deref" /\ l \in CallLabels /\ wcall[p] # l /\ UNCHANGED watch
    BY DEF ShutDeref, CallLabels, WaiterHolds, Shutting, ShutLate
<1>3. CallMoves(p, l)
    BY <1>1, <1>2, CallMovesTo DEF WatcherInv
<1>4. /\ wrefs' = wrefs + One(opened') - One(opened)
                    + One(l \in WaiterHolds) - One(wcall[p] \in WaiterHolds)
      /\ inGroup' \subseteq Caller /\ shut' \in Party \cup {Nobody}
    BY <1>2 DEF ShutDeref, countVars, callVars, One, WaiterHolds, WatcherInv, WatchTypes,
        CloserOK, Shutting, ShutLate
<1>5. CloserOK'
    BY <1>2, <1>3, WatcherAssumption
       DEF ShutDeref, countVars, WatcherInv, WatchTypes, CloserOK, CallMoves, Shutting,
           ShutLate, WaiterHolds, Party
<1>6. JoinOK'
    BY <1>2, <1>3, WatcherAssumption
       DEF ShutDeref, countVars, WatcherInv, WatchTypes, CloserOK, JoinOK, PastJoin, CallMoves,
           Shutting, ShutLate, WaiterHolds, Party
<1>7. DeleteOK'
    BY <1>2, <1>3, WatcherAssumption
       DEF ShutDeref, countVars, WatcherInv, WatchTypes, CloserOK, JoinOK, DeleteOK, CallMoves,
           Shutting, ShutLate, WaiterHolds, Party
<1>8. NoCallbackAfterClose'
    BY <1>2, <1>3, WatcherAssumption
       DEF ShutDeref, countVars, WatcherInv, WatcherSafe, WatchTypes, CloserOK, JoinOK,
           PastJoin, NoCallbackAfterClose, CallMoves, Shutting, ShutLate, Party
<1> QED
    BY <1>1, <1>2, <1>3, <1>4, <1>5, <1>6, <1>7, <1>8, CallTypesStep DEF ShutSafe

LEMMA WatcherStep == WatcherInv /\ [WatcherNext]_watcherVars => WatcherInv'
<1> SUFFICES ASSUME WatcherInv, [WatcherNext]_watcherVars PROVE WatcherInv'
    OBVIOUS
<1>1. CASE WatchRuns \/ Expires
    BY <1>1, WatchTypesStep, WatchShutStep DEF WatcherInv, WatcherSafe
<1>2. ASSUME NEW p \in Party, CallBegins(p) PROVE WatcherInv'
    BY <1>2, SetLoadStep, BeginCloseStep, BeginWaitStep, BeginGroupCloseStep
       DEF CallBegins, WatcherInv, WatcherSafe, ShutSafe
<1>3. ASSUME NEW p \in Party, CallStep(p) PROVE WatcherInv'
    BY <1>3, SetStoreStep, WaiterRefStep, WaiterCancelStep, WaiterKickStep, WaiterOverStep,
       WaiterClearStep, WaiterDerefStep, ShutDeleteStep, ShutKickStep, ShutJoinStep,
       ShutLoadStep, ShutStoreStep, ShutDerefStep
       DEF CallStep, WatcherInv, WatcherSafe, ShutSafe
<1>4. CASE UNCHANGED watcherVars
    BY <1>4 DEF watcherVars, WatcherInv, WatchTypes, CloserOK, JoinOK, PastJoin, DeleteOK, WatcherSafe,
                WatcherRefsExact, InCallback, NoCallbackAfterClose
<1>5. CASE WatcherFinished
    BY <1>4, <1>5 DEF WatcherFinished
<1> QED
    BY <1>1, <1>2, <1>3, <1>4, <1>5 DEF WatcherNext

LEMMA WatcherStart == WatcherInit => WatcherInv
<1> SUFFICES ASSUME WatcherInit PROVE WatcherInv
    OBVIOUS
<1>1. wcall \in [Party -> CallLabels] /\ \A p \in Party : wcall[p] = "idle"
    BY DEF WatcherInit, CallLabels
<1>2. /\ watch = "look" /\ wrefs = 2 /\ inGroup = {} /\ shut = Nobody /\ opened
      /\ Watcher \in Party
    BY DEF WatcherInit, Party
<1>3. WatchTypes
    BY <1>1, <1>2 DEF WatchTypes, WatchLabels
<1>4. CloserOK /\ JoinOK /\ DeleteOK /\ NoCallbackAfterClose
    BY <1>1, <1>2, WatcherAssumption
       DEF CloserOK, JoinOK, PastJoin, DeleteOK, NoCallbackAfterClose, Shutting, ShutLate,
           WaiterHolds, Party
<1>5. {p \in Party : wcall[p] \in WaiterHolds} = {}
    BY <1>1 DEF WaiterHolds
<1>6. WatcherRefsExact
    BY <1>2, <1>5, FS_EmptySet DEF WatcherRefsExact, InCallback
<1> QED
    BY <1>3, <1>4, <1>6 DEF WatcherInv, WatcherSafe

(* The reference count of a TP_TIMER or TP_WAIT counts exactly its users,  *)
(* and no callback runs once the close of the object has returned, whoever *)
(* closes it: a driver thread, its cleanup group, or its own callback.     *)
THEOREM WatchersSafe == WatcherSpec => []WatcherSafe
<1>1. WatcherInv => WatcherSafe
    BY DEF WatcherInv
<1> QED
    BY <1>1, WatcherStart, WatcherStep, PTL DEF WatcherSpec

-----------------------------------------------------------------------------
(* The legacy layer, which takes the steps of the layer below.             *)

LegacyInv ==
  /\ callbackAt # "none" => watch = "callback"
  /\ legacyNext \in [Caller -> {"none", "arm", "armed", "disarm", "drain", "close", "free", "gone"}]
  /\ \A p \in Caller : legacyNext[p] = "free" => shut = p /\ (wcall[p] \in Shutting \/ ~opened)
  /\ inGroup = {}
  /\ LegacyBlockStays

LEMMA LegacyBelow == [LWNext]_<<watcherVars, legacyVars>> => [WatcherNext]_watcherVars
<1>1. \A p \in Caller : p \in Party
    BY DEF Party
<1>2. Watcher \in Party
    BY DEF Party
<1>3. ASSUME NEW p \in Caller, Arm(p) \/ Disarm(p) \/ Drain(p) \/ Close(p) PROVE WatcherNext
    BY <1>1, <1>3 DEF Arm, Disarm, Drain, Close, WatcherNext, CallBegins
<1>4. ASSUME NEW p \in Caller, BeginDelete(p) \/ FreeBlock(p) PROVE UNCHANGED watcherVars
    BY <1>4 DEF BeginDelete, FreeBlock
<1>5. CallbackEnters \/ UserReturns => UNCHANGED watcherVars
    BY DEF CallbackEnters, UserReturns
<1>6. (\E p \in Party : LegacyCallStep(p)) \/ Rearm => WatcherNext
    BY <1>2 DEF LegacyCallStep, Rearm, WatcherNext, CallBegins
<1>7. LegacyWatchRuns \/ LegacyExpires \/ LegacyFinished => WatcherNext
    BY DEF LegacyWatchRuns, LegacyExpires, LegacyFinished, WatcherNext
<1> QED
    BY <1>3, <1>4, <1>5, <1>6, <1>7 DEF LWNext

(* What the calls below do to the state the layer goes by.                 *)
LEMMA CallStepLeaves ==
  ASSUME WatcherInv, inGroup = {}, NEW p \in Party, CallStep(p)
  PROVE  /\ UNCHANGED <<watch, inGroup, shut>>
         /\ \A q \in Party \ {p} : wcall'[q] = wcall[q]
         /\ wcall[p] # "idle"
         /\ \/ opened' = opened /\ (wcall[p] \in Shutting => wcall'[p] \in Shutting)
            \/ wcall[p] \in Shutting /\ ~opened'
<1>1. /\ UNCHANGED <<watch, inGroup, shut>> /\ \E l \in CallLabels : wcall' = [wcall EXCEPT ![p] = l]
  <2>1. AfterWait(p) \in CallLabels /\ Joined(p) \in CallLabels
      BY DEF AfterWait, Joined, CallLabels, Shutting, ShutLate
  <2> QED
      BY <2>1 DEF CallStep, CallGoto, SetStore, WaiterRef, WaiterCancel, WaiterKick, WaiterOver, WaiterClear,
             WaiterDeref, ShutDelete, ShutKick, ShutJoin, ShutLoad, ShutStore, ShutDeref,
             CallLabels, WaiterHolds, Shutting, ShutLate
<1>2. \A q \in Party \ {p} : wcall'[q] = wcall[q]
    BY <1>1 DEF WatcherInv, WatchTypes
<1>3. CASE ShutDeref(p)
    BY <1>1, <1>2, <1>3 DEF ShutDeref, Shutting, ShutLate
<1>4. CASE ShutDelete(p) \/ ShutKick(p) \/ ShutJoin(p) \/ ShutLoad(p) \/ ShutStore(p)
    BY <1>1, <1>2, <1>4 DEF ShutDelete, ShutKick, ShutJoin, ShutLoad, ShutStore, Joined, CallGoto, countVars,
                WatcherInv, WatchTypes, Shutting, ShutLate
<1>5. CASE \E on, periodic \in BOOLEAN : SetStore(p, on, periodic)
    BY <1>1, <1>2, <1>5 DEF SetStore, countVars, Shutting, ShutLate
<1>6. CASE WaiterRef(p) \/ WaiterCancel(p) \/ WaiterKick(p) \/ WaiterOver(p) \/ WaiterClear(p) \/ WaiterDeref(p)
    BY <1>1, <1>2, <1>6 DEF WaiterRef, WaiterCancel, WaiterKick, WaiterOver, WaiterClear, WaiterDeref, countVars,
                Shutting, ShutLate
<1> QED
    BY <1>3, <1>4, <1>5, <1>6 DEF CallStep

LEMMA LegacyStep ==
  WatcherInv /\ LegacyInv /\ [LWNext]_<<watcherVars, legacyVars>> => LegacyInv'
<1> SUFFICES ASSUME WatcherInv, LegacyInv, [LWNext]_<<watcherVars, legacyVars>> PROVE LegacyInv'
    OBVIOUS
<1>1. ASSUME NEW p \in Caller, Arm(p) \/ Disarm(p) \/ Drain(p) PROVE LegacyInv'
  <2>1. PICK l \in {"armed", "drain", "close"} : LegacyGoto(p, l)
      BY <1>1 DEF Arm, Disarm, Drain
  <2>2. /\ UNCHANGED <<watch, inGroup, shut, opened, blockLives, callbackAt>>
        /\ wcall[p] = "idle" /\ \E l1 \in {"store", "w_ref"} : wcall' = [wcall EXCEPT ![p] = l1]
        /\ shut = Nobody
      BY <1>1 DEF Arm, Disarm, Drain, SetLoad, BeginWait, countVars, Able, CallGoto
  <2>3. \A q \in Caller : legacyNext[q] # "free"
      BY <2>2, WatcherAssumption DEF LegacyInv
  <2> QED
      BY <2>1, <2>2, <2>3 DEF LegacyInv, LegacyGoto, LegacyBlockStays
<1>2. ASSUME NEW p \in Caller, Close(p) PROVE LegacyInv'
  <2>1. /\ LegacyGoto(p, "free") /\ UNCHANGED <<watch, inGroup, opened, blockLives, callbackAt>>
        /\ shut = Nobody /\ shut' = p /\ CallGoto(p, "c_delete")
      BY <1>2 DEF Close, BeginClose, MayShut, countVars
  <2>2. \A q \in Caller : legacyNext[q] # "free"
      BY <2>1, WatcherAssumption DEF LegacyInv
  <2>3. \A q \in Caller : legacyNext'[q] = "free" => q = p
      BY <2>1, <2>2 DEF LegacyGoto, LegacyInv
  <2>4. p \in Party
      BY DEF Party
  <2>5. wcall'[p] = "c_delete"
      BY <2>1, <2>4 DEF CallGoto, WatcherInv, WatchTypes
  <2> QED
      BY <2>1, <2>3, <2>5 DEF LegacyInv, LegacyGoto, LegacyBlockStays, Shutting
<1>3. ASSUME NEW p \in Caller, BeginDelete(p) PROVE LegacyInv'
    BY <1>3 DEF BeginDelete, LegacyGoto, LegacyInv, LegacyBlockStays, watcherVars
<1>4. ASSUME NEW p \in Caller, FreeBlock(p) PROVE LegacyInv'
  <2>1. ~opened /\ shut = p
      BY <1>4 DEF FreeBlock, LegacyInv, Shutting, ShutLate
  <2>2. watch = "dead" /\ callbackAt = "none"
      BY <2>1, WatcherAssumption DEF WatcherInv, WatcherSafe, NoCallbackAfterClose, LegacyInv
  <2> QED
      BY <1>4, <2>1, <2>2 DEF FreeBlock, LegacyGoto, LegacyInv, LegacyBlockStays, watcherVars
<1>5. ASSUME NEW p \in Party, LegacyCallStep(p) PROVE LegacyInv'
  <2>1. CallStep(p) /\ UNCHANGED legacyVars
      BY <1>5 DEF LegacyCallStep
  <2>2. /\ UNCHANGED <<watch, inGroup, shut, blockLives, callbackAt, legacyNext>>
        /\ \A q \in Party \ {p} : wcall'[q] = wcall[q]
        /\ wcall[p] # "idle"
        /\ \/ opened' = opened /\ (wcall[p] \in Shutting => wcall'[p] \in Shutting)
           \/ wcall[p] \in Shutting /\ ~opened'
      BY <2>1, CallStepLeaves DEF LegacyInv, legacyVars
  <2>3. ~opened => ~opened'
      BY <2>2 DEF WatcherInv, CloserOK
  <2>4. ASSUME NEW q \in Caller, legacyNext[q] = "free" PROVE wcall'[q] \in Shutting \/ ~opened'
    <3>1. (wcall[q] \in Shutting \/ ~opened) /\ q \in Party
        BY <2>4 DEF LegacyInv, Party
    <3> QED
        BY <2>2, <2>3, <3>1
  <2> QED
      BY <2>2, <2>3, <2>4 DEF LegacyInv, LegacyBlockStays
<1>6. CASE CallbackEnters \/ UserReturns
    BY <1>6 DEF CallbackEnters, UserReturns, LegacyInv, LegacyBlockStays, watcherVars
<1>7. CASE Rearm
  <2>1. /\ UNCHANGED <<watch, inGroup, shut, opened, blockLives, legacyNext>>
        /\ wcall[Watcher] = "idle" /\ CallGoto(Watcher, "store") /\ callbackAt' = "done"
        /\ callbackAt = "rearm"
      BY <1>7 DEF Rearm, SetLoad, countVars, Able
  <2>2. \A q \in Caller : wcall'[q] = wcall[q]
      BY <2>1, WatcherAssumption DEF CallGoto, WatcherInv, WatchTypes, Party
  <2> QED
      BY <2>1, <2>2 DEF LegacyInv, LegacyBlockStays
<1>8. CASE LegacyWatchRuns
  <2>1. WatchRuns /\ UNCHANGED <<wcall, inGroup, shut, opened, blockLives, legacyNext>>
      BY <1>8, WatchFrame DEF LegacyWatchRuns, WatchKeeps, callVars
  <2>2. WatchEdge(watch, watch')
      BY <2>1, WatchEdges
  <2>3. watch # "dead"
      BY <2>2 DEF WatchEdge
  <2>4. callbackAt' # "none" => watch # "callback" /\ callbackAt' = callbackAt
      BY <1>8 DEF LegacyWatchRuns
  <2> QED
      BY <2>1, <2>3, <2>4 DEF LegacyInv, LegacyBlockStays
<1>9. CASE LegacyExpires
    BY <1>9 DEF LegacyExpires, Expires, WatchGoto, legacyVars, callVars, countVars, LegacyInv, LegacyBlockStays
<1>10. CASE UNCHANGED <<watcherVars, legacyVars>>
    BY <1>10 DEF watcherVars, legacyVars, LegacyInv, LegacyBlockStays
<1>11. CASE LegacyFinished
    BY <1>10, <1>11 DEF LegacyFinished, WatcherFinished
<1> QED
    BY <1>1, <1>2, <1>3, <1>4, <1>5, <1>6, <1>7, <1>8, <1>9, <1>10, <1>11 DEF LWNext

(* DeleteTimerQueueTimer and UnregisterWaitEx free the block only when the *)
(* thread that makes its callbacks is gone: no callback of the layer, and  *)
(* no callback that arms the object again, uses a freed block.             *)
THEOREM BlocksStay == LWSpec => []LegacyBlockStays
<1>1. LWInit => WatcherInv /\ LegacyInv
  <2> SUFFICES ASSUME LWInit PROVE LegacyInv
      BY WatcherStart DEF LWInit
  <2>1. legacyNext \in [Caller -> {"none", "arm"}] /\ callbackAt = "none" /\ blockLives /\ inGroup = {}
      BY DEF LWInit, WatcherInit
  <2> QED
      BY <2>1 DEF LegacyInv, LegacyBlockStays
<1>2. WatcherInv /\ LegacyInv /\ [LWNext]_<<watcherVars, legacyVars>> => (WatcherInv /\ LegacyInv)'
    BY LegacyBelow, WatcherStep, LegacyStep
<1>3. LegacyInv => LegacyBlockStays
    BY DEF LegacyInv
<1> QED
    BY <1>1, <1>2, <1>3, PTL DEF LWSpec
=============================================================================
