----------------------- MODULE ThreadContexts_proofs -----------------------
(***************************************************************************)
(* Proofs about threads, for any number of them.                           *)
(*                                                                         *)
(* ThreadContexts: a live thread is either linked or still counted as a    *)
(* creation, so that an empty list together with a zero count means that   *)
(* no thread is left; and admission is closed by then, so that it stays so.*)
(*                                                                         *)
(* TebMap: a walk round the list of TEBs has what it is to take away only  *)
(* before it, although TEBs are put at the head of the list meanwhile.     *)
(***************************************************************************)
EXTENDS ThreadContexts, TebMap, FiniteSetTheorems, TLAPS

InFlight == {w \in Worker : cpc[w] \in InFlightPc}
CallPc == InFlightPc \cup {"alloc", "free"}

(* LdkpThreadContextCreationCount counts the creations in flight.          *)
CountExact == count = Cardinality(InFlight)

(* A thread that lives is linked or in flight; who may use a context, and  *)
(* that nothing else is allocated.                                         *)
Tracked ==
  \A w \in Worker :
    /\ tpc[w] \in AlivePc => w \in linked \/ cpc[w] \in {"made", "undo"}
    /\ cpc[w] \in {"none", "alloc", "counted"} => tpc[w] = "none"
    /\ w \in linked => cpc[w] = "returned"
    /\ w \in live <=> w \in linked \/ cpc[w] \in CallPc

(* What the start gate knows of each thread.                               *)
GateOK ==
  /\ cancelled \subseteq released
  /\ \A w \in Worker :
       /\ cpc[w] \in {"none", "alloc", "counted", "made"} => w \notin released
       /\ w \in released \ cancelled => suspend[w] = 0
       /\ tpc[w] \in {"woken", "run", "exit"} => w \in released
       /\ tpc[w] \in {"run", "exit"} => w \notin cancelled

(* A worker that makes a thread is inside its own routine.                 *)
ParentOK ==
  \A w \in Worker :
    cpc[w] \in CallPc /\ parent[w] # Main => tpc[parent[w]] = "run"

Quiet == shutdown /\ linked = {} /\ count = 0

(* The barrier has begun; or has returned; or the list was deleted.        *)
BarrierOK ==
  /\ \A c \in Closer : bpc[c] # "out" => shutdown
  /\ \A c \in Closer : bpc[c] = "drained" => Quiet
  /\ torn => Quiet /\ live = {}

TCInv ==
  /\ TCTypeOK /\ CountExact /\ Tracked /\ GateOK /\ ParentOK /\ BarrierOK
  /\ NobodyStranded

USE DEF InFlightPc, CreatePc, AlivePc, CallPc

(* The number of creations in flight, as the actions change it.            *)
LEMMA InFlightFinite ==
  /\ IsFiniteSet(InFlight)
  /\ Cardinality(InFlight) \in Nat
  /\ Cardinality(InFlight) = 0 <=> InFlight = {}
BY ThreadAssumption, FS_Subset, FS_CardinalityType, FS_EmptySet DEF InFlight

LEMMA CountSame ==
  ASSUME CountExact, count' = count, InFlight' = InFlight
  PROVE  CountExact'
BY DEF CountExact, InFlight

LEMMA CountUp ==
  ASSUME CountExact, NEW w \in Worker, w \notin InFlight,
         InFlight' = InFlight \cup {w}, count' = count + 1
  PROVE  CountExact'
<1>1. Cardinality(InFlight') = Cardinality(InFlight) + 1
    BY InFlightFinite, FS_AddElement
<1> QED
    BY <1>1 DEF CountExact

LEMMA CountDown ==
  ASSUME CountExact, NEW w \in InFlight,
         InFlight' = InFlight \ {w}, count' = count - 1
  PROVE  CountExact' /\ count' \in Nat /\ count # 0
<1>1. Cardinality(InFlight') = Cardinality(InFlight) - 1
    BY InFlightFinite, FS_RemoveElement
<1>2. Cardinality(InFlight) \in Nat \ {0}
    BY InFlightFinite
<1> QED
    BY <1>1, <1>2 DEF CountExact

(* In a quiet state no thread lives and no creation is in flight.          *)
LEMMA QuietMeansGone ==
  ASSUME TCTypeOK, CountExact, Tracked, Quiet
  PROVE  \A w \in Worker : tpc[w] \notin AlivePc /\ cpc[w] \notin InFlightPc
<1>1. InFlight = {}
    BY InFlightFinite DEF CountExact, Quiet
<1> QED
    BY <1>1 DEF InFlight, Tracked, Quiet

LEMMA TCInitInv == TCInit => TCInv
<1> SUFFICES ASSUME TCInit PROVE TCInv
    OBVIOUS
<1>1. TCTypeOK
  <2>1. cpc \in [Worker -> CreatePc] /\ parent \in [Worker -> Worker \cup {Main}]
      BY DEF TCInit
  <2>2. tpc \in [Worker -> {"none", "dead"} \cup AlivePc]
      BY DEF TCInit
  <2>3. /\ live \subseteq Worker /\ linked \subseteq Worker
        /\ released \subseteq Worker /\ cancelled \subseteq Worker
      BY DEF TCInit
  <2>4. suspend \in [Worker -> 0..MaxSuspend] /\ count \in Nat
      BY ThreadAssumption DEF TCInit
  <2>5. complete \in BOOLEAN
      BY DEF TCInit
  <2>6. shutdown \in BOOLEAN
      BY DEF TCInit
  <2>7. torn \in BOOLEAN
      BY DEF TCInit
  <2>8. bpc \in [Closer -> {"out", "drain", "onThread", "onEvent", "drained"}]
      BY DEF TCInit
  <2>9. target \in [Closer -> Worker \cup {Main}]
      BY DEF TCInit
  <2> QED
      BY <2>1, <2>2, <2>3, <2>4, <2>5, <2>6, <2>7, <2>8, <2>9 DEF TCTypeOK
<1>2. CountExact
  <2>1. InFlight = {}
      BY DEF TCInit, InFlight
  <2> QED
      BY <2>1, FS_EmptySet DEF TCInit, CountExact
<1>3. Tracked /\ GateOK
    BY DEF TCInit, Tracked, GateOK
<1>4. ParentOK
    BY DEF TCInit, ParentOK
<1>5. ~shutdown /\ ~torn
    BY DEF TCInit
<1>6. BarrierOK
    BY <1>5 DEF TCInit, BarrierOK
<1>7. NobodyStranded
    BY <1>5 DEF NobodyStranded
<1> QED
    BY <1>1, <1>2, <1>3, <1>4, <1>6, <1>7 DEF TCInv

LEMMA AllocateInv ==
  ASSUME TCInv, NEW w \in Worker, NEW p \in Worker \cup {Main}, NEW s \in BOOLEAN,
         Allocate(w, p, s)
  PROVE  TCInv'
<1> USE DEF TCInv, TCTypeOK, Allocate, CreateGoto, Callable, Busy,
            createVars, gateVars, closeVars
<1>1. CountExact'
    BY CountSame DEF InFlight
<1>2. TCTypeOK'
    BY ThreadAssumption
<1>3. Tracked'
    BY DEF Tracked
<1>4. GateOK'
    BY DEF GateOK
<1>5. ParentOK'
    BY DEF ParentOK
<1>6. BarrierOK'
    BY DEF BarrierOK, Quiet, Tracked
<1>7. NobodyStranded'
    BY DEF NobodyStranded, GateOK
<1> QED
    BY <1>1, <1>2, <1>3, <1>4, <1>5, <1>6, <1>7 DEF TCInv

LEMMA AdmitInv ==
  ASSUME TCInv, NEW w \in Worker, Admit(w)
  PROVE  TCInv'
<1> USE DEF TCInv, TCTypeOK, Admit, CreateGoto, Reap, Dead,
            createVars, gateVars, closeVars
<1>1. CountExact'
  <2>1. CASE shutdown
    <3>1. InFlight' = InFlight
        BY <2>1 DEF InFlight
    <3> QED
        BY <2>1, <3>1, CountSame
  <2>2. CASE ~shutdown
    <3>1. w \notin InFlight /\ InFlight' = InFlight \cup {w}
        BY <2>2 DEF InFlight
    <3> QED
        BY <2>2, <3>1, CountUp
  <2> QED
      BY <2>1, <2>2
<1>2. TCTypeOK'
  <2>1. CASE shutdown
      BY <2>1, ThreadAssumption
  <2>2. CASE ~shutdown
    <3>1. complete' \in BOOLEAN
        BY <2>2
    <3>2. shutdown' \in BOOLEAN /\ torn' \in BOOLEAN
        BY <2>2
    <3>3. count' = count + 1
        BY <2>2, Zenon
    <3>4. count \in Nat
        OBVIOUS
    <3> HIDE DEF Admit, TCInv
    <3>5. count' \in Nat
        BY <3>3, <3>4
    <3> USE DEF Admit, TCInv
    <3>6. cpc' \in [Worker -> CreatePc]
        BY <2>2
    <3>7. live' \subseteq Worker /\ linked' \subseteq Worker
        OBVIOUS
    <3>8. /\ suspend' \in [Worker -> 0..MaxSuspend]
          /\ released' \subseteq Worker /\ cancelled' \subseteq Worker
        OBVIOUS
    <3> QED
        BY <3>1, <3>2, <3>5, <3>6, <3>7, <3>8 DEF TCTypeOK
  <2> QED
      BY <2>1, <2>2
<1>3. Tracked'
    BY DEF Tracked
<1>4. GateOK'
    BY DEF GateOK
<1>5. ParentOK'
    BY DEF ParentOK
<1>6. BarrierOK'
    BY DEF BarrierOK, Quiet, Tracked
<1>7. NobodyStranded'
    BY DEF NobodyStranded, GateOK
<1> QED
    BY <1>1, <1>2, <1>3, <1>4, <1>5, <1>6, <1>7 DEF TCInv

LEMMA FreeContextInv ==
  ASSUME TCInv, NEW w \in Worker, FreeContext(w)
  PROVE  TCInv'
<1> USE DEF TCInv, TCTypeOK, FreeContext, CreateGoto,
            createVars, gateVars, closeVars
<1>1. CountExact'
    BY CountSame DEF InFlight
<1>2. TCTypeOK'
    BY ThreadAssumption
<1>3. Tracked'
    BY DEF Tracked
<1>4. GateOK'
    BY DEF GateOK
<1>5. ParentOK'
    BY DEF ParentOK
<1>6. BarrierOK'
    BY DEF BarrierOK, Quiet, Tracked
<1>7. NobodyStranded'
    BY DEF NobodyStranded, GateOK
<1> QED
    BY <1>1, <1>2, <1>3, <1>4, <1>5, <1>6, <1>7 DEF TCInv

LEMMA MakeThreadInv ==
  ASSUME TCInv, NEW w \in Worker, MakeThread(w)
  PROVE  TCInv'
<1> USE DEF TCInv, TCTypeOK, MakeThread, CreateGoto, ThreadGoto,
            createVars, gateVars, closeVars
<1>1. CountExact'
    BY CountSame DEF InFlight
<1>2. TCTypeOK'
    BY ThreadAssumption
<1>3. Tracked'
    BY DEF Tracked
<1>4. GateOK'
    BY DEF GateOK
<1>5. ParentOK'
    BY ThreadAssumption DEF ParentOK, Tracked
<1>6. BarrierOK'
    BY DEF BarrierOK, Quiet, Tracked
<1>7. NobodyStranded'
    BY DEF NobodyStranded, GateOK
<1> QED
    BY <1>1, <1>2, <1>3, <1>4, <1>5, <1>6, <1>7 DEF TCInv

LEMMA MakeFailsInv ==
  ASSUME TCInv, NEW w \in Worker, MakeFails(w)
  PROVE  TCInv'
<1> USE DEF TCInv, TCTypeOK, MakeFails, CreateGoto, CompleteCreation,
            createVars, gateVars, closeVars
<1>1. CountExact' /\ count' \in Nat /\ count # 0
  <2>1. w \in InFlight /\ InFlight' = InFlight \ {w}
      BY DEF InFlight
  <2> QED
      BY <2>1, CountDown
<1>2. TCTypeOK'
    BY <1>1, ThreadAssumption
<1>3. Tracked'
    BY DEF Tracked
<1>4. GateOK'
    BY DEF GateOK
<1>5. ParentOK'
    BY DEF ParentOK
<1>6. BarrierOK'
    BY <1>1 DEF BarrierOK, Quiet, Tracked
<1>7. NobodyStranded'
    BY DEF NobodyStranded, GateOK
<1> QED
    BY <1>1, <1>2, <1>3, <1>4, <1>5, <1>6, <1>7 DEF TCInv

LEMMA LookupFailsInv ==
  ASSUME TCInv, NEW w \in Worker, LookupFails(w)
  PROVE  TCInv'
<1> USE DEF TCInv, TCTypeOK, LookupFails, CreateGoto,
            createVars, gateVars, closeVars
<1>1. CountExact'
    BY CountSame DEF InFlight
<1>2. TCTypeOK'
    BY ThreadAssumption
<1>3. Tracked'
    BY DEF Tracked
<1>4. GateOK'
    BY DEF GateOK
<1>5. ParentOK'
    BY DEF ParentOK
<1>6. BarrierOK'
    BY DEF BarrierOK, Quiet, Tracked
<1>7. NobodyStranded'
    BY DEF NobodyStranded, GateOK
<1> QED
    BY <1>1, <1>2, <1>3, <1>4, <1>5, <1>6, <1>7 DEF TCInv

LEMMA UndoThreadInv ==
  ASSUME TCInv, NEW w \in Worker, UndoThread(w)
  PROVE  TCInv'
<1> USE DEF TCInv, TCTypeOK, UndoThread, CreateGoto, CompleteCreation,
            createVars, gateVars, closeVars
<1>1. CountExact' /\ count' \in Nat /\ count # 0
  <2>1. w \in InFlight /\ InFlight' = InFlight \ {w}
      BY DEF InFlight
  <2> QED
      BY <2>1, CountDown
<1>2. TCTypeOK'
    BY <1>1, ThreadAssumption
<1>3. Tracked'
    BY DEF Tracked
<1>4. GateOK'
    BY DEF GateOK
<1>5. ParentOK'
    BY DEF ParentOK
<1>6. BarrierOK'
    BY <1>1 DEF BarrierOK, Quiet, Tracked
<1>7. NobodyStranded'
    BY DEF NobodyStranded, GateOK
<1> QED
    BY <1>1, <1>2, <1>3, <1>4, <1>5, <1>6, <1>7 DEF TCInv

LEMMA LinkInv ==
  ASSUME TCInv, NEW w \in Worker, Link(w)
  PROVE  TCInv'
<1> USE DEF TCInv, TCTypeOK, Link, CreateGoto, CompleteCreation,
            createVars, gateVars, closeVars
<1>1. CountExact' /\ count' \in Nat /\ count # 0
  <2>1. w \in InFlight /\ InFlight' = InFlight \ {w}
      BY DEF InFlight
  <2> QED
      BY <2>1, CountDown
<1>2. TCTypeOK'
  <2>1. complete' \in BOOLEAN
      OBVIOUS
  <2>2. suspend' \in [Worker -> 0..MaxSuspend]
      BY ThreadAssumption
  <2>3. released' \subseteq Worker
      OBVIOUS
  <2>4. cancelled' \subseteq Worker
      OBVIOUS
  <2> QED
      BY <1>1, <2>1, <2>2, <2>3, <2>4, ThreadAssumption
<1>3. Tracked'
    BY DEF Tracked
<1>4. GateOK'
    BY DEF GateOK
<1>5. ParentOK'
    BY DEF ParentOK
<1>6. BarrierOK'
    BY <1>1 DEF BarrierOK, Quiet, Tracked
<1>7. NobodyStranded'
    BY DEF NobodyStranded, GateOK
<1> QED
    BY <1>1, <1>2, <1>3, <1>4, <1>5, <1>6, <1>7 DEF TCInv

LEMMA WakeInv ==
  ASSUME TCInv, NEW w \in Worker, Wake(w)
  PROVE  TCInv'
<1> USE DEF TCInv, TCTypeOK, Wake, ThreadGoto,
            createVars, gateVars, closeVars
<1>1. CountExact'
    BY CountSame DEF InFlight
<1>2. TCTypeOK'
    BY ThreadAssumption
<1>3. Tracked'
    BY DEF Tracked
<1>4. GateOK'
    BY DEF GateOK
<1>5. ParentOK'
    BY DEF ParentOK
<1>6. BarrierOK'
    BY DEF BarrierOK, Quiet, Tracked
<1>7. NobodyStranded'
    BY DEF NobodyStranded, GateOK
<1> QED
    BY <1>1, <1>2, <1>3, <1>4, <1>5, <1>6, <1>7 DEF TCInv

LEMMA StartInv ==
  ASSUME TCInv, NEW w \in Worker, Start(w)
  PROVE  TCInv'
<1> USE DEF TCInv, TCTypeOK, Start, ThreadGoto,
            createVars, gateVars, closeVars
<1>1. CountExact'
    BY CountSame DEF InFlight
<1>2. TCTypeOK'
    BY ThreadAssumption
<1>3. Tracked'
    BY DEF Tracked
<1>4. GateOK'
    BY DEF GateOK
<1>5. ParentOK'
    BY DEF ParentOK
<1>6. BarrierOK'
    BY DEF BarrierOK, Quiet, Tracked
<1>7. NobodyStranded'
    BY DEF NobodyStranded, GateOK
<1> QED
    BY <1>1, <1>2, <1>3, <1>4, <1>5, <1>6, <1>7 DEF TCInv

LEMMA RoutineReturnsInv ==
  ASSUME TCInv, NEW w \in Worker, RoutineReturns(w)
  PROVE  TCInv'
<1> USE DEF TCInv, TCTypeOK, RoutineReturns, ThreadGoto, Busy,
            createVars, gateVars, closeVars
<1>1. CountExact'
    BY CountSame DEF InFlight
<1>2. TCTypeOK'
    BY ThreadAssumption
<1>3. Tracked'
    BY DEF Tracked
<1>4. GateOK'
    BY DEF GateOK
<1>5. ParentOK'
    BY DEF ParentOK
<1>6. BarrierOK'
    BY DEF BarrierOK, Quiet, Tracked
<1>7. NobodyStranded'
    BY DEF NobodyStranded, GateOK
<1> QED
    BY <1>1, <1>2, <1>3, <1>4, <1>5, <1>6, <1>7 DEF TCInv

LEMMA TerminateInv ==
  ASSUME TCInv, NEW w \in Worker, Terminate(w)
  PROVE  TCInv'
<1> USE DEF TCInv, TCTypeOK, Terminate, ThreadGoto,
            createVars, gateVars, closeVars
<1>1. CountExact'
    BY CountSame DEF InFlight
<1>2. TCTypeOK'
    BY ThreadAssumption
<1>3. Tracked'
    BY DEF Tracked
<1>4. GateOK'
    BY DEF GateOK
<1>5. ParentOK'
    BY DEF ParentOK
<1>6. BarrierOK'
    BY DEF BarrierOK, Quiet, Tracked
<1>7. NobodyStranded'
    BY DEF NobodyStranded, GateOK
<1> QED
    BY <1>1, <1>2, <1>3, <1>4, <1>5, <1>6, <1>7 DEF TCInv

LEMMA SuspendThreadInv ==
  ASSUME TCInv, NEW w \in Worker, SuspendThread(w)
  PROVE  TCInv'
<1> USE DEF TCInv, TCTypeOK, SuspendThread,
            createVars, gateVars, closeVars
<1>1. CountExact'
    BY CountSame DEF InFlight
<1>2. TCTypeOK'
    BY ThreadAssumption
<1>3. Tracked'
    BY DEF Tracked
<1>4. GateOK'
  <2>1. \A v \in Worker : v \in released => suspend'[v] = suspend[v]
      OBVIOUS
  <2> QED
      BY <2>1 DEF GateOK
<1>5. ParentOK'
    BY DEF ParentOK
<1>6. BarrierOK'
    BY DEF BarrierOK, Quiet, Tracked
<1>7. NobodyStranded'
    BY DEF NobodyStranded, GateOK
<1> QED
    BY <1>1, <1>2, <1>3, <1>4, <1>5, <1>6, <1>7 DEF TCInv

LEMMA ResumeThreadInv ==
  ASSUME TCInv, NEW w \in Worker, ResumeThread(w)
  PROVE  TCInv'
<1> USE DEF TCInv, TCTypeOK, ResumeThread,
            createVars, gateVars, closeVars
<1>1. CountExact'
    BY CountSame DEF InFlight
<1>2. TCTypeOK'
    BY ThreadAssumption
<1>3. Tracked'
    BY DEF Tracked
<1>4. GateOK'
  <2>1. cpc[w] = "returned"
      BY DEF Tracked
  <2>2. CASE suspend[w] = 1
      BY <2>1, <2>2, ThreadAssumption DEF GateOK
  <2>3. CASE suspend[w] # 1
    <3>1. w \notin released \ cancelled
        BY DEF GateOK
    <3>2. released' = released
        BY <2>3
    <3>3. \A v \in Worker : v # w => suspend'[v] = suspend[v]
        OBVIOUS
    <3> QED
        BY <3>1, <3>2, <3>3 DEF GateOK
  <2> QED
      BY <2>2, <2>3
<1>5. ParentOK'
    BY DEF ParentOK
<1>6. BarrierOK'
    BY DEF BarrierOK, Quiet, Tracked
<1>7. NobodyStranded'
    BY DEF NobodyStranded, GateOK
<1> QED
    BY <1>1, <1>2, <1>3, <1>4, <1>5, <1>6, <1>7 DEF TCInv

LEMMA BeginShutdownInv ==
  ASSUME TCInv, NEW c \in Closer, BeginShutdown(c)
  PROVE  TCInv'
<1> USE DEF TCInv, TCTypeOK, BeginShutdown, CloserGoto, Reap, Dead, Gated,
            createVars, gateVars, closeVars
<1>1. CountExact'
    BY CountSame DEF InFlight
<1>2. TCTypeOK'
    BY ThreadAssumption
<1>3. Tracked'
    BY DEF Tracked
<1>4. GateOK'
    BY DEF GateOK, Tracked
<1>5. ParentOK'
    BY DEF ParentOK
<1>6. BarrierOK'
    BY DEF BarrierOK, Quiet, Tracked
<1>7. NobodyStranded'
    BY DEF NobodyStranded, GateOK
<1> QED
    BY <1>1, <1>2, <1>3, <1>4, <1>5, <1>6, <1>7 DEF TCInv

LEMMA LookInv ==
  ASSUME TCInv, NEW c \in Closer, Look(c)
  PROVE  TCInv'
<1> USE DEF TCInv, TCTypeOK, Look, CloserGoto, Reap, Dead,
            createVars, gateVars, closeVars
<1>1. CountExact'
    BY CountSame DEF InFlight
<1>2. TCTypeOK'
    BY ThreadAssumption
<1>3. Tracked'
    BY DEF Tracked
<1>4. GateOK'
    BY DEF GateOK
<1>5. ParentOK'
    BY DEF ParentOK
<1>6. BarrierOK'
    BY DEF BarrierOK, Quiet, Tracked
<1>7. NobodyStranded'
    BY DEF NobodyStranded, GateOK
<1> QED
    BY <1>1, <1>2, <1>3, <1>4, <1>5, <1>6, <1>7 DEF TCInv

LEMMA WaitOverInv ==
  ASSUME TCInv, NEW c \in Closer, WaitOver(c)
  PROVE  TCInv'
<1> USE DEF TCInv, TCTypeOK, WaitOver, CloserGoto,
            createVars, gateVars, closeVars
<1>1. CountExact'
    BY CountSame DEF InFlight
<1>2. TCTypeOK'
    BY ThreadAssumption
<1>3. Tracked'
    BY DEF Tracked
<1>4. GateOK'
    BY DEF GateOK
<1>5. ParentOK'
    BY DEF ParentOK
<1>6. BarrierOK'
    BY DEF BarrierOK, Quiet, Tracked
<1>7. NobodyStranded'
    BY DEF NobodyStranded, GateOK
<1> QED
    BY <1>1, <1>2, <1>3, <1>4, <1>5, <1>6, <1>7 DEF TCInv

LEMMA DeleteLookasideInv ==
  ASSUME TCInv, NEW c \in Closer, DeleteLookaside(c)
  PROVE  TCInv'
<1> USE DEF TCInv, TCTypeOK, DeleteLookaside, Busy,
            createVars, gateVars, closeVars
<1>1. CountExact'
    BY CountSame DEF InFlight
<1>2. TCTypeOK'
    BY ThreadAssumption
<1>3. Tracked'
    BY DEF Tracked
<1>4. GateOK'
    BY DEF GateOK
<1>5. ParentOK'
    BY DEF ParentOK
<1>6. BarrierOK'
  <2>1. Quiet
      BY DEF BarrierOK
  <2>2. \A v \in Worker : tpc[v] \notin AlivePc /\ cpc[v] \notin InFlightPc
      BY <2>1, QuietMeansGone
  <2>3. ASSUME NEW v \in Worker, cpc[v] \in CallPc PROVE FALSE
    <3>1. parent[v] # Main
        BY <2>3
    <3>2. parent[v] \in Worker /\ tpc[parent[v]] = "run"
        BY <2>3, <3>1 DEF ParentOK
    <3> QED
        BY <2>2, <3>2
  <2>4. live = {}
      BY <2>1, <2>3 DEF Tracked, Quiet
  <2> QED
      BY <2>1, <2>4 DEF BarrierOK, Quiet
<1>7. NobodyStranded'
    BY DEF NobodyStranded, GateOK
<1> QED
    BY <1>1, <1>2, <1>3, <1>4, <1>5, <1>6, <1>7 DEF TCInv

LEMMA TCStepInv == TCInv /\ [TCNext]_tcVars => TCInv'
<1> SUFFICES ASSUME TCInv, [TCNext]_tcVars PROVE TCInv'
    OBVIOUS
<1>1. ASSUME NEW w \in Worker, NEW p \in Worker \cup {Main}, NEW s \in BOOLEAN,
             Allocate(w, p, s) PROVE TCInv'
    BY <1>1, AllocateInv
<1>2. ASSUME NEW w \in Worker, Admit(w) PROVE TCInv'
    BY <1>2, AdmitInv
<1>3. ASSUME NEW w \in Worker, FreeContext(w) PROVE TCInv'
    BY <1>3, FreeContextInv
<1>4. ASSUME NEW w \in Worker, MakeThread(w) PROVE TCInv'
    BY <1>4, MakeThreadInv
<1>5. ASSUME NEW w \in Worker, MakeFails(w) PROVE TCInv'
    BY <1>5, MakeFailsInv
<1>6. ASSUME NEW w \in Worker, LookupFails(w) PROVE TCInv'
    BY <1>6, LookupFailsInv
<1>7. ASSUME NEW w \in Worker, UndoThread(w) PROVE TCInv'
    BY <1>7, UndoThreadInv
<1>8. ASSUME NEW w \in Worker, Link(w) PROVE TCInv'
    BY <1>8, LinkInv
<1>9. ASSUME NEW w \in Worker, Wake(w) PROVE TCInv'
    BY <1>9, WakeInv
<1>10. ASSUME NEW w \in Worker, Start(w) PROVE TCInv'
    BY <1>10, StartInv
<1>11. ASSUME NEW w \in Worker, RoutineReturns(w) PROVE TCInv'
    BY <1>11, RoutineReturnsInv
<1>12. ASSUME NEW w \in Worker, Terminate(w) PROVE TCInv'
    BY <1>12, TerminateInv
<1>13. ASSUME NEW w \in Worker, SuspendThread(w) PROVE TCInv'
    BY <1>13, SuspendThreadInv
<1>14. ASSUME NEW w \in Worker, ResumeThread(w) PROVE TCInv'
    BY <1>14, ResumeThreadInv
<1>15. ASSUME NEW c \in Closer, BeginShutdown(c) PROVE TCInv'
    BY <1>15, BeginShutdownInv
<1>16. ASSUME NEW c \in Closer, Look(c) PROVE TCInv'
    BY <1>16, LookInv
<1>17. ASSUME NEW c \in Closer, WaitOver(c) PROVE TCInv'
    BY <1>17, WaitOverInv
<1>18. ASSUME NEW c \in Closer, DeleteLookaside(c) PROVE TCInv'
    BY <1>18, DeleteLookasideInv
<1>19. CASE UNCHANGED tcVars
  <2>1. CountExact'
      BY <1>19, CountSame DEF TCInv, InFlight, tcVars
  <2>2. TCTypeOK'
      BY <1>19 DEF TCInv, TCTypeOK, tcVars
  <2>3. Tracked' /\ GateOK' /\ ParentOK'
      BY <1>19 DEF TCInv, Tracked, GateOK, ParentOK, tcVars
  <2>4. BarrierOK' /\ NobodyStranded'
      BY <1>19 DEF TCInv, BarrierOK, Quiet, NobodyStranded, tcVars
  <2> QED
      BY <2>1, <2>2, <2>3, <2>4 DEF TCInv
<1> QED
    BY <1>1, <1>2, <1>3, <1>4, <1>5, <1>6, <1>7, <1>8, <1>9,
       <1>10, <1>11, <1>12, <1>13, <1>14, <1>15, <1>16, <1>17, <1>18, <1>19
       DEF TCNext, CreateStep, ThreadStep, CloserStep

(* The inductive invariant holds in every reachable state.                 *)
THEOREM TCInvariant == TCSpec => []TCInv
<1> QED
    BY TCInitInv, TCStepInv, PTL DEF TCSpec

(* The state of the thread contexts is always well typed; in particular    *)
(* the startup suspend count never passes MAXIMUM_SUSPEND_COUNT.           *)
THEOREM TCTypeCorrect == TCSpec => []TCTypeOK
<1>1. TCInv => TCTypeOK
    BY DEF TCInv
<1> QED
    BY <1>1, TCInvariant, PTL

(* A Context outlives everybody who reads it: the thread at its gate, the  *)
(* CreateThread call and the list.                                         *)
THEOREM ContextsOutliveReaders == TCSpec => []ContextSafe
<1>1. TCInv => ContextSafe
  <2> SUFFICES ASSUME TCInv PROVE ContextSafe
      OBVIOUS
  <2> QED
      BY DEF TCInv, TCTypeOK, Tracked, ContextSafe
<1> QED
    BY <1>1, TCInvariant, PTL

(* When LdkPrepareForTermination has returned no thread of CreateThread    *)
(* lives and none can be made.                                             *)
THEOREM BarrierSafe == TCSpec => []DrainedMeansGone
<1>1. TCInv => DrainedMeansGone
  <2> SUFFICES ASSUME TCInv, NEW c \in Closer, bpc[c] = "drained"
               PROVE  \A w \in Worker : tpc[w] \notin AlivePc /\ cpc[w] \notin InFlightPc
      BY DEF DrainedMeansGone
  <2>1. Quiet
      BY DEF TCInv, BarrierOK
  <2> QED
      BY <2>1, QuietMeansGone DEF TCInv
<1> QED
    BY <1>1, TCInvariant, PTL

(* Nothing is given back to the lookaside list after its deletion.         *)
THEOREM DeletedWhenUnused == TCSpec => []NoUseAfterDelete
<1>1. TCInv => NoUseAfterDelete
    BY DEF TCInv, BarrierOK, NoUseAfterDelete
<1> QED
    BY <1>1, TCInvariant, PTL

(* The caller's routine runs only in threads that were released with a     *)
(* suspend count of zero and never in a cancelled one.                     *)
THEOREM GateSafe == TCSpec => []GateHeld
<1>1. TCInv => GateHeld
  <2> SUFFICES ASSUME TCInv PROVE GateHeld
      OBVIOUS
  <2> QED
      BY DEF TCInv, TCTypeOK, GateOK, GateHeld
<1> QED
    BY <1>1, TCInvariant, PTL

(* Once the barrier has begun no linked thread is left at its gate.        *)
THEOREM NoStrandedThread == TCSpec => []NobodyStranded
<1>1. TCInv => NobodyStranded
    BY DEF TCInv
<1> QED
    BY <1>1, TCInvariant, PTL

-----------------------------------------------------------------------------
(* TEBs and their slots (TebMap), for any number of threads and slots.     *)

TebLabels == {"none", "idle", "visit", "next", "crashed", "read", "take",
              "detach", "teardown", "gone"}
TlsData == {"null", "data", "block"}
TebJob == [kind : {"none", "fls", "tls", "dll"}, index : Nat, callback : Nat,
           teb : TebThread \cup {NoTeb}]

TebTypes ==
  /\ tebs \in Seq(TebThread) /\ temporary \in SUBSET {Unloader}
  /\ ending \in BOOLEAN /\ moved \in Seq(TebThread)
  /\ at \in [TebThread -> TebLabels] /\ job \in [TebThread -> TebJob]
  /\ flsOwner \in [FlsIndex -> Nat] /\ flsCallback \in [FlsIndex -> Nat]
  /\ flsSlot \in [TebThread -> [FlsIndex -> Nat]]
  /\ tlsBits \in SUBSET TlsIndex
  /\ tlsSlot \in [TebThread -> [TlsIndex -> TlsData]]
  /\ dll \in Nat /\ listed \in BOOLEAN /\ blocks \in Int /\ allocs \in Nat
  /\ bare \in BOOLEAN

Resting(t) == IF t \in TebWorker THEN "none" ELSE "idle"
Walking == {"visit", "next", "crashed"}
Leaving == {"read", "take"}

(* What a thread has in hand where it is, and who is where once            *)
(* LdkTerminate has begun.                                                 *)
PhaseOf(t) ==
  /\ at[t] \in Walking =>
       /\ job[t].kind \in {"fls", "tls", "dll"} /\ job[t].teb \in TebThread
       /\ job[t].kind = "fls" => job[t].index \in FlsIndex
       /\ job[t].kind # "fls" => job[t].index \in TlsIndex
       /\ job[t].kind # "dll" => pebLock = t
  /\ at[t] \in Leaving =>
       /\ job[t].kind = "none" /\ job[t].teb \in TebThread
       /\ job[t].index \in 1 .. (FlsSlots + 1)
       /\ at[t] = "take" => job[t].index \in FlsIndex
       /\ t \in TebWorker => job[t].teb = t
       /\ t \in TebWorker \/ (t = Unloader /\ ending)
  /\ at[t] \notin Walking \cup Leaving => job[t] = NoJob
  /\ ending => t = Unloader \/ at[t] = Resting(t)
  /\ at[t] \in {"detach", "teardown", "gone"} => ending /\ t = Unloader
  /\ ending => at[Unloader] # "idle"
  /\ at[t] = "none" => t \in TebWorker

PhasesOK == \A t \in TebThread : PhaseOf(t)

(* The list has been moved away.                                           *)
Moved == ending /\ at[Unloader] \in {"teardown", "gone"} \cup Leaving

(* The list has a TEB once; only the unloader has a temporary TEB; who     *)
(* walks has a TEB.                                                        *)
ListsOK ==
  /\ \A i, j \in DOMAIN tebs : tebs[i] = tebs[j] => i = j
  /\ temporary # {} => ending /\ Unloader \notin Linked
  /\ \A t \in TebThread : at[t] \in Walking => t \in Linked \cup temporary

(* Slots without a TEB are empty, and once the list is moved away data are *)
(* only where the teardown will come by.                                   *)
EmptyOK ==
  /\ ~Moved => \A u \in TebThread \ (Linked \cup temporary) :
       /\ \A i \in FlsIndex : flsSlot[u][i] = 0
       /\ \A i \in TlsIndex : tlsSlot[u][i] # "block"
  /\ Moved => \A u \in TebThread, i \in FlsIndex : flsSlot[u][i] # 0 =>
       \/ \E k \in DOMAIN moved : moved[k] = u
       \/ u \in temporary \/ u = job[Unloader].teb

(* An index has the callback of its owner, or none; FlsFree has that of    *)
(* the owner in hand; data in the slots are the owner's.                   *)
FlsOK ==
  /\ \A i \in FlsIndex : flsCallback[i] \in {0, flsOwner[i]}
  /\ \A t \in TebThread : at[t] \in Walking /\ job[t].kind = "fls" =>
       /\ flsCallback[job[t].index] = 0 /\ job[t].callback # 0
       /\ job[t].callback = flsOwner[job[t].index]
  /\ ~bare => \A u \in TebThread, i \in FlsIndex :
                flsSlot[u][i] \in {0, flsOwner[i]}

(* What an ending thread read of the callback still goes with the data     *)
(* that it is about to take.                                               *)
TakeOK ==
  ~bare => \A t \in TebThread : at[t] = "take" =>
    /\ job[t].callback # 0 =>
         flsSlot[job[t].teb][job[t].index] \in {0, job[t].callback}
    /\ job[t].callback = 0 /\ flsSlot[job[t].teb][job[t].index] # 0 =>
         flsCallback[job[t].index] = 0

(* An ending thread leaves its slots empty.                                *)
LeftClean ==
  /\ \A t \in TebThread : at[t] \in Leaving =>
       \A j \in FlsIndex : j < job[t].index => flsSlot[job[t].teb][j] = 0
  /\ \A t \in TebWorker : at[t] = "none" => \A j \in FlsIndex : flsSlot[t][j] = 0

BlockLeft ==
  \A t \in TebWorker :
    at[t] \in {"none"} \cup Leaving /\ listed => tlsSlot[t][dll] # "block"

IsDllWalk(t) == at[t] \in Walking /\ job[t].kind = "dll"

(* Who has the DLL: the module list, or the one thread that unloads it.    *)
DllOK ==
  /\ dll # 0 => dll \in tlsBits
  /\ listed => dll # 0
  /\ \A t \in TebThread : IsDllWalk(t) => ~listed /\ dll # 0 /\ job[t].index = dll
  /\ \A t, u \in TebThread : IsDllWalk(t) /\ IsDllWalk(u) => t = u
  /\ \A t \in TebThread : at[t] \in Walking /\ job[t].kind = "tls" =>
       job[t].index \in tlsBits /\ job[t].index # dll
  /\ dll # 0 => listed \/ \E t \in TebThread : IsDllWalk(t)
  /\ Moved => dll = 0

(* The walk of t has the TEB u still before it: p is where it began, q     *)
(* where it is and r where u is.                                           *)
Left(t, u) ==
  \E p, q, r \in DOMAIN tebs :
    /\ tebs[p] = t /\ tebs[q] = job[t].teb /\ tebs[r] = u
    /\ \/ r = q /\ at[t] = "visit"
       \/ p <= q /\ (q < r \/ r < p)
       \/ q < p /\ q < r /\ r < p

(* What a walk is to take away is only where it has yet to come.           *)
WalkOf(t) ==
  at[t] \in {"visit", "next"} =>
    /\ t \notin Linked => job[t].teb = t
    /\ t \in Linked =>
         /\ job[t].teb \in Linked
         /\ job[t].kind = "fls" =>
              \A u \in TebThread : flsSlot[u][job[t].index] # 0 => Left(t, u)
         /\ job[t].kind = "dll" =>
              \A u \in TebThread : tlsSlot[u][job[t].index] = "block" => Left(t, u)

WalksOK == \A t \in TebThread : WalkOf(t)

TebInv ==
  /\ TebTypes /\ PhasesOK /\ ListsOK /\ EmptyOK /\ FlsOK /\ TakeOK /\ LeftClean
  /\ BlockLeft /\ DllOK /\ WalksOK /\ StaticTlsExact

USE DEF listVars, flsVars, tlsVars, endVars, FlsIndex, TlsIndex, TebLabels, TlsData

(* What LdkCurrentTeb does to the lists, and what it leaves.               *)
Grown(t) ==
  /\ \/ tebs' = tebs
     \/ tebs' = <<t>> \o tebs /\ t \notin Linked \cup temporary /\ ~ending
  /\ \/ temporary' = temporary
     \/ temporary' = temporary \cup {t} /\ t \notin Linked /\ tebs' = tebs /\ ending
  /\ Linked \subseteq Linked' /\ Linked' \subseteq Linked \cup {t}

LEMMA LinkedInsert ==
  ASSUME NEW t \in TebThread, TebTypes, tebs' = <<t>> \o tebs
  PROVE  Linked' = Linked \cup {t}
<1>1. /\ tebs \in Seq(TebThread) /\ tebs' \in Seq(TebThread)
      /\ DOMAIN tebs = 1 .. Len(tebs)
      /\ DOMAIN tebs' = 1 .. (Len(tebs) + 1)
      /\ tebs'[1] = t
      /\ \A k \in 1 .. Len(tebs) : tebs'[k + 1] = tebs[k]
      /\ Len(tebs) \in Nat
  BY DEF TebTypes
<1>2. ASSUME NEW u \in Linked' PROVE u \in Linked \cup {t}
  <2>1. PICK k \in 1 .. (Len(tebs) + 1) : tebs'[k] = u
    BY <1>1, <1>2 DEF Linked
  <2>2. CASE k = 1
    BY <1>1, <2>1, <2>2
  <2>3. CASE k # 1
    <3>1. k - 1 \in 1 .. Len(tebs) /\ (k - 1) + 1 = k
      BY <1>1, <2>3
    <3>2. u = tebs[k - 1]
      BY <1>1, <2>1, <3>1
    <3> QED BY <1>1, <3>1, <3>2 DEF Linked
  <2> QED BY <2>2, <2>3
<1>3. ASSUME NEW u \in Linked PROVE u \in Linked'
  <2>1. PICK k \in 1 .. Len(tebs) : tebs[k] = u
    BY <1>1, <1>3 DEF Linked
  <2>2. k + 1 \in 1 .. (Len(tebs) + 1) /\ tebs'[k + 1] = u
    BY <1>1, <2>1
  <2> QED BY <1>1, <2>2 DEF Linked
<1>4. t \in Linked'
  <2>1. 1 \in 1 .. (Len(tebs) + 1)
    BY <1>1
  <2> QED BY <1>1, <2>1 DEF Linked
<1> QED BY <1>2, <1>3, <1>4

LEMMA LinkedSame == tebs' = tebs => Linked' = Linked
BY DEF Linked

LEMMA Grows ==
  ASSUME NEW t \in TebThread, TebTypes, CurrentTeb(t)
  PROVE  Grown(t) /\ t \in Linked' \cup temporary'
BY LinkedInsert, LinkedSame DEF CurrentTeb, Grown

LEMMA NotGrown ==
  ASSUME NEW t \in TebThread, UNCHANGED listVars
  PROVE  Grown(t)
BY LinkedSame DEF Grown

(* The TEB a walk comes to next.                                           *)
LEMMA NextIs ==
  ASSUME TebTypes, ListsOK, NEW t \in TebThread, NEW u \in Linked
  PROVE  /\ \E q \in DOMAIN tebs :
              /\ tebs[q] = u
              /\ q = Len(tebs) => NextTeb(u, t) = tebs[1]
              /\ q # Len(tebs) => NextTeb(u, t) = tebs[q + 1]
         /\ NextTeb(u, t) \in Linked /\ NextTeb(u, t) \in TebThread
<1> DEFINE q == CHOOSE k \in DOMAIN tebs : tebs[k] = u
<1>1. q \in DOMAIN tebs /\ tebs[q] = u
  BY DEF Linked
<1>2. NextTeb(u, t) = IF q = Len(tebs) THEN tebs[1] ELSE tebs[q + 1]
  BY DEF NextTeb
<1> HIDE DEF q
<1>3. DOMAIN tebs = 1 .. Len(tebs) /\ Len(tebs) \in Nat
  BY DEF TebTypes
<1>4. \E k \in DOMAIN tebs : NextTeb(u, t) = tebs[k]
  <2>1. CASE q = Len(tebs)
    BY <1>1, <1>2, <1>3, <2>1
  <2>2. CASE q # Len(tebs)
    <3>1. q + 1 \in DOMAIN tebs
      BY <1>1, <1>3, <2>2
    <3> QED BY <1>2, <2>2, <3>1
  <2> QED BY <2>1, <2>2
<1> QED BY <1>1, <1>2, <1>4 DEF Linked, TebTypes

(* A caller, once LdkTerminate has begun, is the unloader.                 *)
LEMMA CallerIs ==
  ASSUME PhasesOK, TebTypes, NEW t \in TebThread, MayCall(t)
  PROVE  /\ at[t] \in {"idle", "detach"} /\ job[t] = NoJob
         /\ ending => t = Unloader
         /\ ~ending => at[t] = "idle"
         /\ ~Moved
BY DEF PhasesOK, PhaseOf, MayCall, Walking, Leaving, TebTypes, Moved

LEMMA TebInitInv == TebInit => TebInv
<1> SUFFICES ASSUME TebInit PROVE TebInv
  OBVIOUS
<1> USE TebAssumption DEF TebInit, NoJob
<1>1. TebTypes
  <2>0. Unloader \in TebThread
    BY DEF TebThread
  <2>5. <<>> \in Seq(TebThread) /\ <<Unloader>> \in Seq(TebThread)
    BY <2>0
  <2>1. tebs \in Seq(TebThread) /\ moved \in Seq(TebThread)
    BY <2>5
  <2>2. NoJob \in TebJob
    BY DEF TebJob
  <2>3. job \in [TebThread -> TebJob]
    BY <2>2
  <2>4. at \in [TebThread -> TebLabels]
    BY DEF TebThread
  <2>6. flsOwner \in [FlsIndex -> Nat] /\ flsCallback \in [FlsIndex -> Nat]
        /\ flsSlot \in [TebThread -> [FlsIndex -> Nat]]
    OBVIOUS
  <2>7. tlsSlot \in [TebThread -> [TlsIndex -> TlsData]]
    OBVIOUS
  <2>8. /\ temporary \in SUBSET {Unloader} /\ ending \in BOOLEAN
        /\ tlsBits \in SUBSET TlsIndex /\ listed \in BOOLEAN /\ bare \in BOOLEAN
    OBVIOUS
  <2>9. dll \in Nat /\ blocks \in Int /\ allocs \in Nat
    OBVIOUS
  <2> HIDE DEF TebInit
  <2> QED BY <2>1, <2>3, <2>4, <2>6, <2>7, <2>8, <2>9 DEF TebTypes
<1>2. PhasesOK
  BY DEF PhasesOK, PhaseOf, Walking, Leaving, TebThread
<1>3. ListsOK /\ Linked \subseteq {Unloader}
  BY DEF ListsOK, Walking, Linked
<1>4. EmptyOK
  BY <1>3 DEF EmptyOK, Moved
<1>5. FlsOK /\ TakeOK /\ LeftClean
  BY DEF FlsOK, TakeOK, LeftClean, Walking, Leaving, TebThread
<1>6. BlockLeft /\ DllOK /\ WalksOK
  BY DEF BlockLeft, DllOK, WalksOK, WalkOf, IsDllWalk, Walking, Moved
<1>7. StaticTlsExact
  <2>1. {s \in TebThread \X TlsIndex : tlsSlot[s[1]][s[2]] = "block"} = {}
    OBVIOUS
  <2> QED BY <2>1, FS_EmptySet DEF StaticTlsExact
<1> QED BY <1>1, <1>2, <1>3, <1>4, <1>5, <1>6, <1>7 DEF TebInv

(* A write to one slot.                                                    *)
LEMMA FlsPut ==
  ASSUME TebTypes, NEW u \in TebThread, NEW i \in FlsIndex, NEW d \in Nat,
         flsSlot' = [flsSlot EXCEPT ![u][i] = d]
  PROVE  /\ flsSlot' \in [TebThread -> [FlsIndex -> Nat]]
         /\ flsSlot'[u][i] = d
         /\ \A v \in TebThread, j \in FlsIndex :
              v # u \/ j # i => flsSlot'[v][j] = flsSlot[v][j]
BY DEF TebTypes

LEMMA TlsPut ==
  ASSUME TebTypes, NEW u \in TebThread, NEW i \in TlsIndex, NEW d \in TlsData,
         tlsSlot' = [tlsSlot EXCEPT ![u][i] = d]
  PROVE  /\ tlsSlot' \in [TebThread -> [TlsIndex -> TlsData]]
         /\ tlsSlot'[u][i] = d
         /\ \A v \in TebThread, j \in TlsIndex :
              v # u \/ j # i => tlsSlot'[v][j] = tlsSlot[v][j]
BY DEF TebTypes

(* A static TLS block comes to the slot of t, or nothing changes.          *)
LEMMA StaticPut ==
  ASSUME TebTypes, NEW t \in TebThread, NEW i \in TlsIndex, StaticTlsForTeb(t, i)
  PROVE  /\ tlsSlot' \in [TebThread -> [TlsIndex -> TlsData]] /\ blocks' \in Int
         /\ \/ tlsSlot' = tlsSlot /\ blocks' = blocks
            \/ /\ tlsSlot[t][i] = "null" /\ tlsSlot'[t][i] = "block"
               /\ blocks' = blocks + 1
         /\ \A v \in TebThread, j \in TlsIndex :
              v # t \/ j # i => tlsSlot'[v][j] = tlsSlot[v][j]
<1>1. CASE tlsSlot[t][i] = "null"
  <2>1. tlsSlot' = [tlsSlot EXCEPT ![t][i] = "block"] /\ blocks' = blocks + 1
    BY <1>1 DEF StaticTlsForTeb
  <2>2. blocks' \in Int
    BY <2>1 DEF TebTypes
  <2> QED BY <1>1, <2>1, <2>2, TlsPut
<1>2. CASE tlsSlot[t][i] # "null"
  <2>1. tlsSlot' = tlsSlot /\ blocks' = blocks
    BY <1>2 DEF StaticTlsForTeb
  <2> QED BY <2>1 DEF TebTypes
<1> QED BY <1>1, <1>2

(* A thread gives up its static TLS block, if it has one.                  *)
LEMMA StaticTaken ==
  ASSUME TebTypes, DllOK, NEW t \in TebThread, ThreadDetach(t)
  PROVE  \/ tlsSlot' = tlsSlot /\ blocks' = blocks /\ (listed => tlsSlot[t][dll] # "block")
         \/ /\ listed /\ dll \in TlsIndex /\ tlsSlot[t][dll] = "block"
            /\ tlsSlot' = [tlsSlot EXCEPT ![t][dll] = "null"] /\ blocks' = blocks - 1
BY DEF ThreadDetach, FreesBlock, DllOK, TebTypes

(* One step keeps the types.                                               *)
LEMMA TypesStep == TebInv /\ TebNext => TebTypes'
<1> SUFFICES ASSUME TebTypes, PhasesOK, ListsOK, DllOK, TebNext PROVE TebTypes'
  BY DEF TebInv
<1> USE TebAssumption
<1>0. Unloader \in TebThread
  BY DEF TebThread
<1>a. ASSUME NEW t \in TebThread, CurrentTeb(t), ending => t = Unloader
      PROVE  tebs' \in Seq(TebThread) /\ temporary' \in SUBSET {Unloader}
  <2>1. <<t>> \o tebs \in Seq(TebThread)
    BY DEF TebTypes
  <2> QED BY <1>a, <2>1 DEF CurrentTeb, TebTypes
<1>b. ASSUME NEW t \in TebThread, NEW l \in TebLabels, At(t, l)
      PROVE  at' \in [TebThread -> TebLabels]
  BY <1>b DEF At, TebTypes
<1>c. ASSUME NEW t \in TebThread, NEW j \in TebJob, job' = [job EXCEPT ![t] = j]
      PROVE  job' \in [TebThread -> TebJob]
  BY <1>c DEF TebTypes
<1>d. NoJob \in TebJob
  BY DEF NoJob, TebJob
<1>1. ASSUME NEW t \in TebThread, NEW i \in FlsIndex, NEW c \in BOOLEAN, FlsAlloc(t, i, c)
      PROVE  TebTypes'
  <2>1. tebs' \in Seq(TebThread) /\ temporary' \in SUBSET {Unloader}
    BY <1>1, <1>a, CallerIs DEF FlsAlloc
  <2>2. flsSlot' \in [TebThread -> [FlsIndex -> Nat]]
    BY <1>1, FlsPut DEF FlsAlloc
  <2>3. allocs' \in Nat
    BY <1>1 DEF FlsAlloc, TebTypes
  <2>4. flsOwner' \in [FlsIndex -> Nat] /\ flsCallback' \in [FlsIndex -> Nat]
    BY <1>1, <2>3 DEF FlsAlloc, TebTypes
  <2> QED BY <1>1, <2>1, <2>2, <2>3, <2>4 DEF FlsAlloc, TebTypes
<1>2. ASSUME NEW t \in TebThread, NEW i \in FlsIndex, FlsSetValue(t, i)
      PROVE  TebTypes'
  BY <1>2, <1>a, CallerIs DEF FlsSetValue, TebTypes
<1>3. ASSUME NEW t \in TebThread, NEW i \in FlsIndex, FlsFree(t, i)
      PROVE  TebTypes'
  <2>1. tebs' \in Seq(TebThread) /\ temporary' \in SUBSET {Unloader}
    BY <1>3, <1>a, CallerIs DEF FlsFree
  <2>2. [kind |-> "fls", index |-> i, callback |-> flsCallback[i], teb |-> t] \in TebJob
    BY DEF TebJob, TebTypes
  <2>3. job' \in [TebThread -> TebJob] /\ at' \in [TebThread -> TebLabels]
    BY <1>3, <1>b, <1>c, <2>2 DEF FlsFree, TebTypes
  <2> QED BY <1>3, <2>1, <2>3 DEF FlsFree, TebTypes
<1>4. ASSUME NEW t \in TebThread, NEW i \in TlsIndex, TlsAlloc(t, i)
      PROVE  TebTypes'
  BY <1>4, <1>a, CallerIs DEF TlsAlloc, TebTypes
<1>5. ASSUME NEW t \in TebThread, NEW i \in TlsIndex, TlsSetValue(t, i)
      PROVE  TebTypes'
  BY <1>5, <1>a, CallerIs DEF TlsSetValue, TebTypes
<1>6. ASSUME NEW t \in TebThread, NEW i \in TlsIndex, TlsFree(t, i)
      PROVE  TebTypes'
  <2>1. tebs' \in Seq(TebThread) /\ temporary' \in SUBSET {Unloader}
    BY <1>6, <1>a, CallerIs DEF TlsFree
  <2>2. [kind |-> "tls", index |-> i, callback |-> 0, teb |-> t] \in TebJob
    BY DEF TebJob
  <2>3. job' \in [TebThread -> TebJob] /\ at' \in [TebThread -> TebLabels]
    BY <1>6, <1>b, <1>c, <2>2 DEF TlsFree
  <2> QED BY <1>6, <2>1, <2>3 DEF TlsFree, TebTypes
<1>7. ASSUME NEW t \in TebThread, NEW i \in TlsIndex, LoadDll(t, i)
      PROVE  TebTypes'
  <2>1. tebs' \in Seq(TebThread) /\ temporary' \in SUBSET {Unloader}
    BY <1>7, <1>a, CallerIs DEF LoadDll
  <2>2. tlsSlot' \in [TebThread -> [TlsIndex -> TlsData]] /\ blocks' \in Int
    <3>1. StaticTlsForTeb(t, i) \/ UNCHANGED <<tlsSlot, blocks>>
      BY <1>7 DEF LoadDll
    <3> QED BY <3>1, StaticPut DEF TebTypes
  <2>3. tlsBits' \in SUBSET TlsIndex /\ dll' \in Nat
    <3>1. \/ tlsBits' = tlsBits \cup {i} /\ dll' = i
          \/ tlsBits' = tlsBits /\ dll' = dll
      BY <1>7 DEF LoadDll
    <3>2. i \in Nat
      OBVIOUS
    <3> QED BY <3>1, <3>2 DEF TebTypes
  <2>4. listed' \in BOOLEAN
    BY <1>7, Zenon DEF LoadDll, TebTypes
  <2> QED BY <1>7, <2>1, <2>2, <2>3, <2>4 DEF LoadDll, TebTypes
<1>8. ASSUME NEW t \in TebThread, UnloadDll(t) PROVE TebTypes'
  <2>1. tebs' \in Seq(TebThread) /\ temporary' \in SUBSET {Unloader}
    BY <1>8, <1>a, CallerIs DEF UnloadDll
  <2>2. [kind |-> "dll", index |-> dll, callback |-> 0, teb |-> t] \in TebJob
    BY DEF TebJob, TebTypes
  <2>3. job' \in [TebThread -> TebJob] /\ at' \in [TebThread -> TebLabels]
    BY <1>8, <1>b, <1>c, <2>2 DEF UnloadDll
  <2> QED BY <1>8, <2>1, <2>3 DEF UnloadDll, TebTypes
<1>9. ASSUME NEW t \in TebThread, Visit(t) PROVE TebTypes'
  <2>1. at' \in [TebThread -> TebLabels]
    BY <1>9, <1>b DEF Visit
  <2>2. job[t].teb \in TebThread /\ at[t] = "visit"
    BY <1>9 DEF Visit, PhasesOK, PhaseOf, Walking
  <2>3. flsSlot' \in [TebThread -> [FlsIndex -> Nat]]
    <3>1. job[t].kind = "fls" => job[t].index \in FlsIndex
      BY <2>2 DEF PhasesOK, PhaseOf, Walking
    <3> QED BY <1>9, <2>2, <3>1, FlsPut DEF Visit, TebTypes
  <2>4. tlsSlot' \in [TebThread -> [TlsIndex -> TlsData]] /\ blocks' \in Int
    <3>1. job[t].kind # "fls" => job[t].index \in TlsIndex
      BY <2>2 DEF PhasesOK, PhaseOf, Walking
    <3>2. tlsSlot' \in [TebThread -> [TlsIndex -> TlsData]]
      BY <1>9, <2>2, <3>1, TlsPut DEF Visit, TebTypes
    <3>3. blocks' \in Int
      BY <1>9 DEF Visit, TebTypes
    <3> QED BY <3>2, <3>3
  <2> QED BY <1>9, <2>1, <2>3, <2>4 DEF Visit, TebTypes
<1>10. ASSUME NEW t \in TebThread, StepOn(t) PROVE TebTypes'
  <2>1. NextTeb(job[t].teb, t) \in TebThread
    BY <1>10, NextIs DEF StepOn
  <2>2. job[t] \in TebJob
    BY DEF TebTypes
  <2>3. [job[t] EXCEPT !.teb = NextTeb(job[t].teb, t)] \in TebJob
    BY <2>1, <2>2 DEF TebJob
  <2>4. job' \in [TebThread -> TebJob]
    BY <1>10, <1>c, <1>d, <2>3 DEF StepOn, TebTypes
  <2>5. at' \in [TebThread -> TebLabels]
    BY <1>10 DEF StepOn, At, TebTypes
  <2>6. flsOwner' \in [FlsIndex -> Nat] /\ tlsBits' \in SUBSET TlsIndex /\ dll' \in Nat
    BY <1>10 DEF StepOn, TebTypes
  <2> QED BY <1>10, <2>4, <2>5, <2>6 DEF StepOn, TebTypes
<1>11. ASSUME NEW t \in TebThread, NextCrashes(t) PROVE TebTypes'
  BY <1>11, <1>b DEF NextCrashes, TebTypes
<1>12. ASSUME NEW t \in TebThread, ThreadAttach(t) PROVE TebTypes'
  <2>1. tebs' \in Seq(TebThread) /\ temporary' \in SUBSET {Unloader}
    BY <1>12, <1>a DEF ThreadAttach
  <2>2. at' \in [TebThread -> TebLabels]
    BY <1>12, <1>b DEF ThreadAttach
  <2>3. tlsSlot' \in [TebThread -> [TlsIndex -> TlsData]] /\ blocks' \in Int
    <3>1. listed => dll \in TlsIndex
      BY DEF DllOK, TebTypes
    <3>2. (listed /\ StaticTlsForTeb(t, dll)) \/ UNCHANGED <<tlsSlot, blocks>>
      BY <1>12 DEF ThreadAttach
    <3> QED BY <3>1, <3>2, StaticPut DEF TebTypes
  <2> QED BY <1>12, <2>1, <2>2, <2>3 DEF ThreadAttach, TebTypes
<1>13. ASSUME NEW t \in TebThread, ThreadDetach(t) PROVE TebTypes'
  <2>1. [NoJob EXCEPT !.index = 1, !.teb = t] \in TebJob
    BY DEF NoJob, TebJob
  <2>2. job' \in [TebThread -> TebJob] /\ at' \in [TebThread -> TebLabels]
    BY <1>13, <1>b, <1>c, <2>1 DEF ThreadDetach
  <2>3. tlsSlot' \in [TebThread -> [TlsIndex -> TlsData]] /\ blocks' \in Int
    <3>1. CASE tlsSlot' = tlsSlot /\ blocks' = blocks
      BY <3>1 DEF TebTypes
    <3>2. CASE /\ tlsSlot' = [tlsSlot EXCEPT ![t][dll] = "null"] /\ blocks' = blocks - 1
               /\ dll \in TlsIndex
      <4>1. blocks' \in Int
        BY <3>2 DEF TebTypes
      <4> QED BY <3>2, <4>1, TlsPut
    <3> QED BY <1>13, <3>1, <3>2, StaticTaken
  <2> QED BY <1>13, <2>2, <2>3 DEF ThreadDetach, TebTypes
<1>14. ASSUME NEW t \in TebThread, ReadCallback(t) PROVE TebTypes'
  <2>1. job[t] \in TebJob /\ job[t].index \in FlsIndex
    BY <1>14 DEF ReadCallback, TebTypes, PhasesOK, PhaseOf, Leaving
  <2>2. [job[t] EXCEPT !.callback = flsCallback[job[t].index]] \in TebJob
    BY <2>1 DEF TebJob, TebTypes
  <2>3. job' \in [TebThread -> TebJob] /\ at' \in [TebThread -> TebLabels]
    BY <1>14, <1>b, <1>c, <2>2 DEF ReadCallback, TebTypes
  <2> QED BY <1>14, <2>3 DEF ReadCallback, TebTypes
<1>15. ASSUME NEW t \in TebThread, TakeData(t) PROVE TebTypes'
  <2>1. job[t] \in TebJob /\ job[t].index \in FlsIndex /\ job[t].teb \in TebThread
    BY <1>15 DEF TakeData, TebTypes, PhasesOK, PhaseOf, Leaving
  <2>2. [job[t] EXCEPT !.index = job[t].index + 1] \in TebJob
    BY <2>1 DEF TebJob
  <2>3. job' \in [TebThread -> TebJob] /\ at' \in [TebThread -> TebLabels]
    BY <1>15, <1>b, <1>c, <2>2 DEF TakeData, TebTypes
  <2>4. flsSlot' \in [TebThread -> [FlsIndex -> Nat]]
    BY <1>15, <2>1 DEF TakeData, TebTypes
  <2> QED BY <1>15, <2>3, <2>4 DEF TakeData, TebTypes
<1>16. ASSUME NEW t \in TebThread, ThreadEnds(t) PROVE TebTypes'
  <2>1. job' \in [TebThread -> TebJob] /\ at' \in [TebThread -> TebLabels]
    BY <1>16, <1>b, <1>c, <1>d DEF ThreadEnds
  <2> QED BY <1>16, <2>1 DEF ThreadEnds, TebTypes
<1>17. CASE BeginTerminate
  BY <1>17, <1>0, <1>b DEF BeginTerminate, TebTypes
<1>18. CASE MoveList
  <2>1. at' \in [TebThread -> TebLabels]
    BY <1>18, <1>0, <1>b DEF MoveList
  <2>2. <<>> \in Seq(TebThread)
    OBVIOUS
  <2>3. tebs' \in Seq(TebThread) /\ moved' \in Seq(TebThread)
    BY <1>18, <2>2 DEF MoveList, TebTypes
  <2> QED BY <1>18, <2>1, <2>3 DEF MoveList, TebTypes
<1>19. CASE TeardownNext
  <2>1. Head(moved) \in TebThread /\ Tail(moved) \in Seq(TebThread)
    BY <1>19 DEF TeardownNext, TebTypes
  <2>2. [NoJob EXCEPT !.index = 1, !.teb = Head(moved)] \in TebJob
    BY <2>1 DEF NoJob, TebJob
  <2>3. job' \in [TebThread -> TebJob] /\ at' \in [TebThread -> TebLabels]
    BY <1>19, <1>0, <1>b, <1>c, <2>2 DEF TeardownNext
  <2> QED BY <1>19, <2>1, <2>3 DEF TeardownNext, TebTypes
<1>20. CASE DeleteTeb
  <2>1. job' \in [TebThread -> TebJob] /\ at' \in [TebThread -> TebLabels]
    BY <1>20, <1>0, <1>b, <1>c, <1>d DEF DeleteTeb
  <2>2. job[Unloader].teb \in TebThread
    BY <1>20, <1>0 DEF DeleteTeb, PhasesOK, PhaseOf, Leaving
  <2>3. /\ flsSlot' \in [TebThread -> [FlsIndex -> Nat]]
        /\ tlsSlot' \in [TebThread -> [TlsIndex -> TlsData]]
    BY <1>20, <2>2 DEF DeleteTeb, TebTypes
  <2> QED BY <1>20, <2>1, <2>3 DEF DeleteTeb, TebTypes
<1>21. CASE DeleteTemporary
  <2>1. at' \in [TebThread -> TebLabels]
    BY <1>21, <1>0, <1>b DEF DeleteTemporary
  <2> QED BY <1>21, <2>1 DEF DeleteTemporary, TebTypes
<1> QED
  BY <1>1, <1>2, <1>3, <1>4, <1>5, <1>6, <1>7, <1>8, <1>9, <1>10, <1>11, <1>12, <1>13,
     <1>14, <1>15, <1>16, <1>17, <1>18, <1>19, <1>20, <1>21 DEF TebNext

(* Where a step takes its thread: what the others do is not touched.       *)
Moves(t) == \A v \in TebThread : v # t => at'[v] = at[v] /\ job'[v] = job[v]
Went(t, label, kind, index, callback, teb) ==
  /\ Moves(t) /\ at'[t] = label
  /\ job'[t].kind = kind /\ job'[t].index = index
  /\ job'[t].callback = callback /\ job'[t].teb = teb
Rests(t, label) == Moves(t) /\ at'[t] = label /\ job'[t] = NoJob
Stands == at' = at /\ job' = job

LEMMA FlsFreeGoes ==
  ASSUME TebTypes, PhasesOK, NEW t \in TebThread, NEW i \in FlsIndex, FlsFree(t, i)
  PROVE  \/ /\ Went(t, "visit", "fls", i, flsCallback[i], t)
            /\ pebLock' = t /\ flsCallback[i] # 0 /\ UNCHANGED <<flsOwner, bare>>
         \/ /\ Stands /\ flsOwner' = [flsOwner EXCEPT ![i] = 0]
            /\ bare' = TRUE /\ pebLock' = pebLock
BY DEF FlsFree, At, TebTypes, Went, Rests, Moves, Stands

LEMMA TlsFreeGoes ==
  ASSUME TebTypes, PhasesOK, NEW t \in TebThread, NEW i \in TlsIndex, TlsFree(t, i)
  PROVE  Went(t, "visit", "tls", i, 0, t)
BY DEF TlsFree, At, TebTypes, Went, Rests, Moves, Stands

LEMMA UnloadDllGoes ==
  ASSUME TebTypes, PhasesOK, NEW t \in TebThread, UnloadDll(t)
  PROVE  Went(t, "visit", "dll", dll, 0, t)
BY DEF UnloadDll, At, TebTypes, Went, Rests, Moves, Stands

LEMMA VisitGoes ==
  ASSUME TebTypes, PhasesOK, NEW t \in TebThread, Visit(t)
  PROVE  Went(t, "next", job[t].kind, job[t].index, job[t].callback, job[t].teb)
BY DEF Visit, At, TebTypes, Went, Rests, Moves, Stands

LEMMA StepOnGoes ==
  ASSUME TebTypes, PhasesOK, NEW t \in TebThread, StepOn(t)
  PROVE  \/ /\ Went(t, "visit", job[t].kind, job[t].index, job[t].callback, 
                    NextTeb(job[t].teb, t))
            /\ NextTeb(job[t].teb, t) # t
            /\ UNCHANGED <<pebLock, flsOwner, tlsBits, dll>>
         \/ /\ Rests(t, IF ending THEN "detach" ELSE "idle")
            /\ NextTeb(job[t].teb, t) = t /\ pebLock' = NoTeb
BY DEF StepOn, TebJob, At, TebTypes, Went, Rests, Moves, Stands

LEMMA NextCrashesGoes ==
  ASSUME TebTypes, PhasesOK, NEW t \in TebThread, NextCrashes(t)
  PROVE  Went(t, "crashed", job[t].kind, job[t].index, job[t].callback, job[t].teb)
BY DEF NextCrashes, At, TebTypes, Went, Rests, Moves, Stands

LEMMA ThreadAttachGoes ==
  ASSUME TebTypes, PhasesOK, NEW t \in TebThread, ThreadAttach(t)
  PROVE  Rests(t, "idle")
<1>1. job[t] = NoJob
  BY DEF ThreadAttach, PhasesOK, PhaseOf, Walking, Leaving
<1> QED BY <1>1 DEF ThreadAttach, At, TebTypes, Rests, Moves

LEMMA ThreadDetachGoes ==
  ASSUME TebTypes, PhasesOK, NEW t \in TebThread, ThreadDetach(t)
  PROVE  Went(t, "read", "none", 1, 0, t)
BY DEF ThreadDetach, NoJob, At, TebTypes, Went, Rests, Moves, Stands

LEMMA ReadCallbackGoes ==
  ASSUME TebTypes, PhasesOK, NEW t \in TebThread, ReadCallback(t)
  PROVE  Went(t, "take", job[t].kind, job[t].index,
              flsCallback[job[t].index], job[t].teb)
BY DEF ReadCallback, TebJob, At, TebTypes, Went, Rests, Moves, Stands

LEMMA TakeDataGoes ==
  ASSUME TebTypes, PhasesOK, NEW t \in TebThread, TakeData(t)
  PROVE  Went(t, "read", job[t].kind, job[t].index + 1,
              job[t].callback, job[t].teb)
BY DEF TakeData, TebJob, At, TebTypes, Went, Rests, Moves, Stands

LEMMA ThreadEndsGoes ==
  ASSUME TebTypes, PhasesOK, NEW t \in TebThread, ThreadEnds(t)
  PROVE  Rests(t, "none")
BY DEF ThreadEnds, At, TebTypes, Went, Rests, Moves, Stands

LEMMA BeginTerminateGoes ==
  ASSUME TebTypes, PhasesOK, BeginTerminate
  PROVE  Rests(Unloader, "detach")
BY TebAssumption DEF BeginTerminate, TebThread, PhasesOK, PhaseOf, Walking, Leaving, At, TebTypes, Went, Rests, Moves, Stands

LEMMA MoveListGoes ==
  ASSUME TebTypes, PhasesOK, MoveList
  PROVE  Rests(Unloader, "teardown")
BY DEF MoveList, TebThread, PhasesOK, PhaseOf, Walking, Leaving, At, TebTypes, Went, Rests, Moves, Stands

LEMMA TeardownNextGoes ==
  ASSUME TebTypes, PhasesOK, TeardownNext
  PROVE  Went(Unloader, "read", "none", 1, 0, Head(moved))
BY DEF TeardownNext, NoJob, TebThread, At, TebTypes, Went, Rests, Moves, Stands

LEMMA DeleteTebGoes ==
  ASSUME TebTypes, PhasesOK, DeleteTeb
  PROVE  Rests(Unloader, "teardown")
BY DEF DeleteTeb, TebThread, At, TebTypes, Went, Rests, Moves, Stands

LEMMA DeleteTemporaryGoes ==
  ASSUME TebTypes, PhasesOK, DeleteTemporary
  PROVE  Rests(Unloader, "gone")
BY DEF DeleteTemporary, TebThread, PhasesOK, PhaseOf, Walking, Leaving, At, TebTypes, Went, Rests, Moves, Stands

(* One step keeps every thread where its phase lets it be.                 *)
LEMMA PhasesKept ==
  ASSUME TebTypes, PhasesOK, NEW t \in TebThread, Moves(t), PhaseOf(t)',
         ending' = ending, pebLock' = pebLock \/ pebLock \in {NoTeb, t}
  PROVE  PhasesOK'
<1> SUFFICES ASSUME NEW v \in TebThread, v # t PROVE PhaseOf(v)'
  BY DEF PhasesOK
<1>1. at'[v] = at[v] /\ job'[v] = job[v] /\ PhaseOf(v)
  BY DEF Moves, PhasesOK
<1>2. at[v] \in Walking /\ job[v].kind # "dll" => pebLock' = v
  BY <1>1, TebAssumption DEF PhaseOf
<1>3. ending' => at'[Unloader] # "idle"
  BY DEF PhaseOf
<1> QED BY <1>1, <1>2, <1>3 DEF PhaseOf, Resting

LEMMA PhasesStand ==
  PhasesOK /\ Stands /\ UNCHANGED <<ending, pebLock>> => PhasesOK'
BY DEF PhasesOK, PhaseOf, Stands, Resting

LEMMA PhasesStep == TebInv /\ TebNext => PhasesOK'
<1> SUFFICES ASSUME TebTypes, PhasesOK, ListsOK, DllOK, TebNext PROVE PhasesOK'
  BY DEF TebInv
<1> USE TebAssumption
<1>0. Unloader \in TebThread /\ Unloader \notin TebWorker
  BY DEF TebThread
<1>1. ASSUME NEW t \in TebThread, NEW i \in FlsIndex,
             (\E c \in BOOLEAN : FlsAlloc(t, i, c)) \/ FlsSetValue(t, i)
      PROVE  PhasesOK'
  BY <1>1, PhasesStand DEF FlsAlloc, FlsSetValue, Stands
<1>2. ASSUME NEW t \in TebThread, NEW i \in FlsIndex, FlsFree(t, i) PROVE PhasesOK'
  <2>1. ending' = ending /\ pebLock = NoTeb
    BY <1>2 DEF FlsFree
  <2>2. CASE Went(t, "visit", "fls", i, flsCallback[i], t) /\ pebLock' = t
    <3>1. PhaseOf(t)'
      BY <1>0, <1>2, <2>1, <2>2, CallerIs DEF FlsFree, Went, PhaseOf, Walking, Leaving
    <3> QED BY <2>1, <2>2, <3>1, PhasesKept DEF Went
  <2>3. CASE Stands /\ pebLock' = pebLock
    BY <2>1, <2>3, PhasesStand
  <2> QED BY <1>2, <2>2, <2>3, FlsFreeGoes
<1>3. ASSUME NEW t \in TebThread, NEW i \in TlsIndex,
             TlsAlloc(t, i) \/ TlsSetValue(t, i) \/ LoadDll(t, i)
      PROVE  PhasesOK'
  BY <1>3, PhasesStand DEF TlsAlloc, TlsSetValue, LoadDll, Stands
<1>4. ASSUME NEW t \in TebThread, NEW i \in TlsIndex, TlsFree(t, i) PROVE PhasesOK'
  <2>1. ending' = ending /\ pebLock = NoTeb /\ pebLock' = t
    BY <1>4 DEF TlsFree
  <2>2. Went(t, "visit", "tls", i, 0, t)
    BY <1>4, TlsFreeGoes
  <2>3. PhaseOf(t)'
    BY <1>0, <1>4, <2>1, <2>2, CallerIs DEF TlsFree, Went, PhaseOf, Walking, Leaving
  <2> QED BY <2>1, <2>2, <2>3, PhasesKept DEF Went
<1>5. ASSUME NEW t \in TebThread, UnloadDll(t) PROVE PhasesOK'
  <2>1. ending' = ending /\ pebLock' = pebLock /\ dll \in TlsIndex
    BY <1>5 DEF UnloadDll, DllOK, TebTypes
  <2>2. Went(t, "visit", "dll", dll, 0, t)
    BY <1>5, UnloadDllGoes
  <2>3. PhaseOf(t)'
    BY <1>0, <1>5, <2>1, <2>2, CallerIs DEF UnloadDll, Went, PhaseOf, Walking, Leaving
  <2> QED BY <2>1, <2>2, <2>3, PhasesKept DEF Went
<1>6. ASSUME NEW t \in TebThread, Visit(t) \/ NextCrashes(t) PROVE PhasesOK'
  <2>1. ending' = ending /\ pebLock' = pebLock /\ at[t] \in {"visit", "next"}
    BY <1>6 DEF Visit, NextCrashes
  <2>2. PICK l \in {"next", "crashed"} :
          Went(t, l, job[t].kind, job[t].index, job[t].callback, job[t].teb)
    BY <1>6, VisitGoes, NextCrashesGoes
  <2>3. PhaseOf(t)'
    BY <1>0, <2>1, <2>2 DEF PhasesOK, Went, PhaseOf, Walking, Leaving, Resting
  <2> QED BY <2>1, <2>2, <2>3, PhasesKept DEF Went
<1>7. ASSUME NEW t \in TebThread, StepOn(t) PROVE PhasesOK'
  <2>1. ending' = ending /\ at[t] = "next" /\ PhaseOf(t)
    BY <1>7 DEF StepOn, PhasesOK
  <2>2. CASE /\ Went(t, "visit", job[t].kind, job[t].index, job[t].callback,
                      NextTeb(job[t].teb, t))
             /\ pebLock' = pebLock
    <3>1. NextTeb(job[t].teb, t) \in TebThread
      BY <1>7, NextIs DEF StepOn
    <3>2. PhaseOf(t)'
      BY <1>0, <2>1, <2>2, <3>1 DEF Went, PhaseOf, Walking, Leaving, Resting
    <3> QED BY <2>1, <2>2, <3>2, PhasesKept DEF Went
  <2>3. CASE Rests(t, IF ending THEN "detach" ELSE "idle") /\ NextTeb(job[t].teb, t) = t
    <3>1. pebLock \in {NoTeb, t}
      BY <1>7, <2>1, <2>3 DEF StepOn, PhaseOf, Walking
    <3>2. PhaseOf(t)'
      BY <1>0, <2>1, <2>3 DEF Rests, PhaseOf, Walking, Leaving, Resting
    <3> QED BY <2>1, <2>3, <3>1, <3>2, PhasesKept DEF Rests
  <2> QED BY <1>7, <2>2, <2>3, StepOnGoes
<1>8. ASSUME NEW t \in TebThread, ThreadAttach(t) PROVE PhasesOK'
  <2>1. ending' = ending /\ pebLock' = pebLock /\ ~ending /\ Rests(t, "idle")
    BY <1>8, ThreadAttachGoes DEF ThreadAttach
  <2>2. PhaseOf(t)'
    BY <1>0, <2>1 DEF Rests, PhaseOf, Walking, Leaving
  <2> QED BY <2>1, <2>2, PhasesKept DEF Rests
<1>9. ASSUME NEW t \in TebThread, ThreadDetach(t) PROVE PhasesOK'
  <2>1. /\ ending' = ending /\ pebLock' = pebLock /\ Went(t, "read", "none", 1, 0, t)
        /\ t \in TebWorker /\ at[t] = "idle" /\ PhaseOf(t)
    BY <1>9, ThreadDetachGoes DEF ThreadDetach, PhasesOK
  <2>2. PhaseOf(t)'
    BY <1>0, <2>1 DEF Went, PhaseOf, Walking, Leaving, Resting
  <2> QED BY <2>1, <2>2, PhasesKept DEF Went
<1>10. ASSUME NEW t \in TebThread, ReadCallback(t) PROVE PhasesOK'
  <2>1. /\ ending' = ending /\ pebLock' = pebLock /\ at[t] = "read" /\ PhaseOf(t)
        /\ Went(t, "take", job[t].kind, job[t].index, flsCallback[job[t].index], job[t].teb)
        /\ job[t].index <= FlsSlots
    BY <1>10, ReadCallbackGoes DEF ReadCallback, PhasesOK
  <2>2. PhaseOf(t)'
    BY <1>0, <2>1 DEF Went, PhaseOf, Walking, Leaving, Resting
  <2> QED BY <2>1, <2>2, PhasesKept DEF Went
<1>11. ASSUME NEW t \in TebThread, TakeData(t) PROVE PhasesOK'
  <2>1. /\ ending' = ending /\ pebLock' = pebLock /\ at[t] = "take" /\ PhaseOf(t)
        /\ Went(t, "read", job[t].kind, job[t].index + 1, job[t].callback, job[t].teb)
    BY <1>11, TakeDataGoes DEF TakeData, PhasesOK
  <2>2. PhaseOf(t)'
    BY <1>0, <2>1 DEF Went, PhaseOf, Walking, Leaving, Resting
  <2> QED BY <2>1, <2>2, PhasesKept DEF Went
<1>12. ASSUME NEW t \in TebThread, ThreadEnds(t) PROVE PhasesOK'
  <2>1. /\ ending' = ending /\ pebLock' = pebLock /\ PhaseOf(t) /\ Rests(t, "none")
        /\ t \in TebWorker /\ at[t] = "read"
    BY <1>12, ThreadEndsGoes DEF ThreadEnds, PhasesOK
  <2>2. PhaseOf(t)'
    BY <1>0, <2>1 DEF Rests, PhaseOf, Walking, Leaving, Resting
  <2> QED BY <2>1, <2>2, PhasesKept DEF Rests
<1>13. CASE BeginTerminate
  <2>1. Rests(Unloader, "detach") /\ ending' = TRUE
    BY <1>13, BeginTerminateGoes DEF BeginTerminate
  <2>2. \A v \in TebThread : v # Unloader => at'[v] = Resting(v) /\ job'[v] = NoJob
    BY <1>13, <2>1 DEF BeginTerminate, PhasesOK, PhaseOf, Rests, Moves, Walking, Leaving, Resting
  <2> QED BY <1>0, <2>1, <2>2 DEF PhasesOK, PhaseOf, Rests, Walking, Leaving, Resting
<1>14. CASE MoveList \/ DeleteTeb \/ DeleteTemporary
  <2>1. PICK l \in {"teardown", "gone"} : Rests(Unloader, l)
    BY <1>14, MoveListGoes, DeleteTebGoes, DeleteTemporaryGoes
  <2>2. /\ ending' = ending /\ pebLock' = pebLock /\ PhaseOf(Unloader)
        /\ at[Unloader] \in {"detach", "read", "teardown"}
    BY <1>0, <1>14 DEF MoveList, DeleteTeb, DeleteTemporary, PhasesOK
  <2>3. PhaseOf(Unloader)'
    BY <1>0, <2>1, <2>2 DEF Rests, PhaseOf, Walking, Leaving
  <2> QED BY <1>0, <2>1, <2>2, <2>3, PhasesKept DEF Rests
<1>15. CASE TeardownNext
  <2>1. /\ Went(Unloader, "read", "none", 1, 0, Head(moved)) /\ Head(moved) \in TebThread
        /\ ending' = ending /\ pebLock' = pebLock /\ at[Unloader] = "teardown"
        /\ PhaseOf(Unloader)
    BY <1>0, <1>15, TeardownNextGoes DEF TeardownNext, PhasesOK, TebTypes
  <2>2. PhaseOf(Unloader)'
    BY <1>0, <2>1 DEF Went, PhaseOf, Walking, Leaving
  <2> QED BY <1>0, <2>1, <2>2, PhasesKept DEF Went
<1> QED
  BY <1>1, <1>2, <1>3, <1>4, <1>5, <1>6, <1>7, <1>8, <1>9, <1>10, <1>11, <1>12, <1>13,
     <1>14, <1>15 DEF TebNext

(* The steps that enter LDK, those of walks and ending threads, and those  *)
(* of LdkTerminate.                                                        *)
Calls(t) ==
  \/ \E i \in FlsIndex : \/ \E c \in BOOLEAN : FlsAlloc(t, i, c)
                         \/ FlsSetValue(t, i) \/ FlsFree(t, i)
  \/ \E i \in TlsIndex : \/ TlsAlloc(t, i) \/ TlsSetValue(t, i)
                         \/ TlsFree(t, i) \/ LoadDll(t, i)
  \/ UnloadDll(t) \/ ThreadAttach(t)
Takes(t) ==
  \/ Visit(t) \/ StepOn(t) \/ NextCrashes(t) \/ ThreadDetach(t)
  \/ ReadCallback(t) \/ TakeData(t) \/ ThreadEnds(t)

LEMMA TebSteps ==
  ASSUME TebNext
  PROVE  \/ \E t \in TebThread : Calls(t) \/ Takes(t)
         \/ BeginTerminate \/ MoveList \/ TeardownNext \/ DeleteTeb \/ DeleteTemporary
BY DEF TebNext, Calls, Takes

(* What a step that only takes away leaves in the slots of v.              *)
FlsFalls(v) == \A i \in FlsIndex : flsSlot'[v][i] # 0 => flsSlot'[v][i] = flsSlot[v][i]
TlsFalls(v) == \A i \in TlsIndex : tlsSlot'[v][i] = "block" => tlsSlot[v][i] = "block"

LEMMA MovedSame ==
  ASSUME TebTypes, PhasesOK, NEW t \in TebThread, Takes(t)
  PROVE  /\ Moved' <=> Moved
         /\ UNCHANGED <<listVars, endVars>>
         /\ Moved => job'[Unloader].teb = job[Unloader].teb
<1> USE TebAssumption
<1>0. Unloader \in TebThread /\ Unloader \notin TebWorker
  BY DEF TebThread
<1>1. UNCHANGED <<listVars, endVars>>
  BY DEF Takes, Visit, StepOn, NextCrashes, ThreadDetach, ReadCallback, TakeData, ThreadEnds
<1>2. CASE t # Unloader
  <2>1. Moves(t)
    BY VisitGoes, StepOnGoes, NextCrashesGoes, ThreadDetachGoes, ReadCallbackGoes,
       TakeDataGoes, ThreadEndsGoes DEF Takes, Went, Rests
  <2> QED BY <1>0, <1>1, <1>2, <2>1 DEF Moves, Moved
<1>3. CASE t = Unloader
  <2>1. CASE Visit(t) \/ StepOn(t) \/ NextCrashes(t)
    <3>1. at[t] \in {"visit", "next"}
      BY <2>1 DEF Visit, StepOn, NextCrashes
    <3>2. at'[t] \in {"visit", "next", "crashed", "detach", "idle"}
      BY <2>1, VisitGoes, StepOnGoes, NextCrashesGoes DEF Went, Rests
    <3> QED BY <1>1, <1>3, <3>1, <3>2 DEF Moved, Leaving
  <2>2. CASE ReadCallback(t) \/ TakeData(t)
    <3>1. at[t] \in Leaving
      BY <2>2 DEF ReadCallback, TakeData, Leaving
    <3>2. at'[t] \in Leaving /\ job'[t].teb = job[t].teb
      BY <2>2, ReadCallbackGoes, TakeDataGoes DEF Went, Leaving
    <3> QED BY <1>1, <1>3, <3>1, <3>2 DEF Moved
  <2> QED BY <1>0, <1>3, <2>1, <2>2 DEF Takes, ThreadDetach, ThreadEnds
<1> QED BY <1>2, <1>3

(* The steps that take away data.                                          *)
LEMMA SlotsFall ==
  ASSUME TebTypes, PhasesOK, DllOK, NEW t \in TebThread, Takes(t),
         NEW v \in TebThread
  PROVE  FlsFalls(v) /\ TlsFalls(v)
<1>1. CASE Visit(t)
  <2>1. /\ job[t].teb \in TebThread
        /\ job[t].kind = "fls" => job[t].index \in FlsIndex
        /\ job[t].kind # "fls" => job[t].index \in TlsIndex
    BY <1>1 DEF Visit, PhasesOK, PhaseOf, Walking
  <2>2. FlsFalls(v)
    <3>1. \/ flsSlot' = flsSlot
          \/ /\ flsSlot' = [flsSlot EXCEPT ![job[t].teb][job[t].index] = 0]
             /\ job[t].index \in FlsIndex
      BY <1>1, <2>1 DEF Visit
    <3> QED BY <2>1, <3>1, FlsPut DEF FlsFalls
  <2>3. TlsFalls(v)
    BY <1>1, <2>1, TlsPut DEF Visit, TlsFalls
  <2> QED BY <2>2, <2>3
<1>2. CASE StepOn(t) \/ NextCrashes(t) \/ ReadCallback(t) \/ ThreadEnds(t)
  BY <1>2 DEF StepOn, NextCrashes, ReadCallback, ThreadEnds, FlsFalls, TlsFalls
<1>3. CASE ThreadDetach(t)
  <2>1. FlsFalls(v)
    BY <1>3 DEF ThreadDetach, FlsFalls
  <2>2. TlsFalls(v)
    BY <1>3, StaticTaken, TlsPut DEF TlsFalls
  <2> QED BY <2>1, <2>2
<1>4. CASE TakeData(t)
  <2>1. job[t].teb \in TebThread /\ job[t].index \in FlsIndex
    BY <1>4 DEF TakeData, PhasesOK, PhaseOf, Leaving
  <2>2. flsSlot' = [flsSlot EXCEPT ![job[t].teb][job[t].index] = 0]
    BY <1>4 DEF TakeData
  <2>3. FlsFalls(v)
    BY <2>1, <2>2, FlsPut DEF FlsFalls
  <2>4. TlsFalls(v)
    BY <1>4 DEF TakeData, TlsFalls
  <2> QED BY <2>3, <2>4
<1> QED BY <1>1, <1>2, <1>3, <1>4 DEF Takes

(* The steps that enter LDK write to the slots of their own thread only.   *)
LEMMA CallsOwnSlots ==
  ASSUME TebTypes, PhasesOK, DllOK, NEW t \in TebThread, Calls(t)
  PROVE  /\ CurrentTeb(t) /\ Moves(t) /\ ending' = ending /\ moved' = moved
         /\ ending => t = Unloader
         /\ ~Moved /\ ~Moved'
         /\ \A v \in TebThread : v # t => FlsFalls(v) /\ TlsFalls(v)
<1>0. Unloader \in TebThread /\ Unloader \notin TebWorker
  BY TebAssumption DEF TebThread
<1>a. ASSUME CurrentTeb(t), Moves(t), ending' = ending, moved' = moved, MayCall(t),
             at'[t] \notin {"teardown", "gone"} \cup Leaving,
             \A v \in TebThread : v # t => FlsFalls(v) /\ TlsFalls(v)
      PROVE  /\ CurrentTeb(t) /\ Moves(t) /\ ending' = ending /\ moved' = moved
             /\ ending => t = Unloader
             /\ ~Moved /\ ~Moved'
             /\ \A v \in TebThread : v # t => FlsFalls(v) /\ TlsFalls(v)
  BY <1>0, <1>a, CallerIs DEF Moved, Moves
<1>b. ASSUME Stands, MayCall(t)
      PROVE  Moves(t) /\ at'[t] \notin {"teardown", "gone"} \cup Leaving
  BY <1>b, CallerIs DEF Stands, Moves, Leaving
<1>c. ASSUME flsSlot' = flsSlot PROVE \A v \in TebThread : FlsFalls(v)
  BY <1>c DEF FlsFalls
<1>d. ASSUME tlsSlot' = tlsSlot PROVE \A v \in TebThread : TlsFalls(v)
  BY <1>d DEF TlsFalls
<1>1. ASSUME NEW i \in FlsIndex, NEW c \in BOOLEAN, FlsAlloc(t, i, c)
      PROVE  \A v \in TebThread : v # t => FlsFalls(v) /\ TlsFalls(v)
  BY <1>1, <1>d, FlsPut DEF FlsAlloc, FlsFalls
<1>2. ASSUME NEW i \in FlsIndex, FlsSetValue(t, i)
      PROVE  \A v \in TebThread : v # t => FlsFalls(v) /\ TlsFalls(v)
  <2>1. flsOwner[i] \in Nat
    BY DEF TebTypes
  <2> QED BY <1>2, <1>d, <2>1, FlsPut DEF FlsSetValue, FlsFalls
<1>3. ASSUME NEW i \in TlsIndex, TlsAlloc(t, i) \/ TlsSetValue(t, i)
      PROVE  \A v \in TebThread : v # t => FlsFalls(v) /\ TlsFalls(v)
  BY <1>3, <1>c, TlsPut DEF TlsAlloc, TlsSetValue, TlsFalls
<1>4. ASSUME NEW i \in TlsIndex, LoadDll(t, i)
      PROVE  \A v \in TebThread : v # t => FlsFalls(v) /\ TlsFalls(v)
  <2>1. StaticTlsForTeb(t, i) \/ tlsSlot' = tlsSlot
    BY <1>4 DEF LoadDll
  <2>2. flsSlot' = flsSlot
    BY <1>4 DEF LoadDll
  <2> QED BY <1>c, <1>d, <2>1, <2>2, StaticPut DEF TlsFalls
<1>5. CASE ThreadAttach(t)
  <2>1. (listed /\ StaticTlsForTeb(t, dll)) \/ tlsSlot' = tlsSlot
    BY <1>5 DEF ThreadAttach
  <2>2. flsSlot' = flsSlot /\ CurrentTeb(t) /\ ending' = ending /\ moved' = moved /\ ~ending
    BY <1>5 DEF ThreadAttach
  <2>3. listed => dll \in TlsIndex
    BY DEF DllOK, TebTypes
  <2>4. \A v \in TebThread : v # t => FlsFalls(v) /\ TlsFalls(v)
    BY <1>c, <1>d, <2>1, <2>2, <2>3, StaticPut DEF TlsFalls
  <2>5. Moves(t)
    BY <1>5, ThreadAttachGoes DEF Rests
  <2> QED BY <2>2, <2>4, <2>5 DEF Moved
<1>6. ASSUME NEW i \in FlsIndex,
             (\E c \in BOOLEAN : FlsAlloc(t, i, c)) \/ FlsSetValue(t, i) \/ FlsFree(t, i)
      PROVE  /\ CurrentTeb(t) /\ Moves(t) /\ ending' = ending /\ moved' = moved
             /\ MayCall(t) /\ at'[t] \notin {"teardown", "gone"} \cup Leaving
             /\ \A v \in TebThread : v # t => FlsFalls(v) /\ TlsFalls(v)
  <2>1. CurrentTeb(t) /\ ending' = ending /\ moved' = moved /\ MayCall(t)
    BY <1>6 DEF FlsAlloc, FlsSetValue, FlsFree
  <2>2. FlsFree(t, i) \/ Stands
    BY <1>6 DEF FlsAlloc, FlsSetValue, Stands
  <2>3. Moves(t) /\ at'[t] \notin {"teardown", "gone"} \cup Leaving
    BY <1>b, <2>1, <2>2, FlsFreeGoes DEF Went, Leaving
  <2>4. FlsFree(t, i) => flsSlot' = flsSlot /\ tlsSlot' = tlsSlot
    BY DEF FlsFree
  <2> QED BY <1>1, <1>2, <1>6, <1>c, <1>d, <2>1, <2>3, <2>4
<1>7. ASSUME NEW i \in TlsIndex,
             TlsAlloc(t, i) \/ TlsSetValue(t, i) \/ TlsFree(t, i) \/ LoadDll(t, i)
      PROVE  /\ CurrentTeb(t) /\ Moves(t) /\ ending' = ending /\ moved' = moved
             /\ MayCall(t) /\ at'[t] \notin {"teardown", "gone"} \cup Leaving
             /\ \A v \in TebThread : v # t => FlsFalls(v) /\ TlsFalls(v)
  <2>1. CurrentTeb(t) /\ ending' = ending /\ moved' = moved /\ MayCall(t)
    BY <1>7 DEF TlsAlloc, TlsSetValue, TlsFree, LoadDll
  <2>2. TlsFree(t, i) \/ Stands
    BY <1>7 DEF TlsAlloc, TlsSetValue, LoadDll, Stands
  <2>3. Moves(t) /\ at'[t] \notin {"teardown", "gone"} \cup Leaving
    BY <1>b, <2>1, <2>2, TlsFreeGoes DEF Went, Leaving
  <2>4. TlsFree(t, i) => flsSlot' = flsSlot /\ tlsSlot' = tlsSlot
    BY DEF TlsFree
  <2> QED BY <1>3, <1>4, <1>7, <1>c, <1>d, <2>1, <2>3, <2>4
<1>8. CASE UnloadDll(t)
  <2>1. /\ CurrentTeb(t) /\ ending' = ending /\ moved' = moved /\ MayCall(t)
        /\ flsSlot' = flsSlot /\ tlsSlot' = tlsSlot
    BY <1>8 DEF UnloadDll
  <2>2. Moves(t) /\ at'[t] \notin {"teardown", "gone"} \cup Leaving
    BY <1>8, UnloadDllGoes DEF Went, Leaving
  <2> QED BY <1>a, <1>c, <1>d, <2>1, <2>2
<1> QED BY <1>a, <1>5, <1>6, <1>7, <1>8 DEF Calls

(* One step keeps the lists in order.                                      *)
LEMMA ListsKept ==
  ASSUME TebTypes, ListsOK, NEW t \in TebThread, Grown(t), Moves(t), ending' = ending,
         ending => t = Unloader,
         at'[t] \in Walking => at[t] \in Walking \/ t \in Linked' \cup temporary'
  PROVE  ListsOK'
<1>1. \A i, j \in DOMAIN tebs' : tebs'[i] = tebs'[j] => i = j
  <2>1. CASE tebs' = tebs
    BY <2>1 DEF ListsOK
  <2>2. CASE tebs' = <<t>> \o tebs /\ t \notin Linked
    <3>1. /\ DOMAIN tebs = 1 .. Len(tebs) /\ Len(tebs) \in Nat
          /\ DOMAIN tebs' = 1 .. (Len(tebs) + 1)
          /\ tebs'[1] = t
          /\ \A k \in 2 .. (Len(tebs) + 1) : tebs'[k] = tebs[k - 1] /\ k - 1 \in 1 .. Len(tebs)
      BY <2>2 DEF TebTypes
    <3>2. \A k \in 1 .. Len(tebs) : tebs[k] # t
      BY <2>2, <3>1 DEF Linked
    <3> SUFFICES ASSUME NEW i \in 1 .. (Len(tebs) + 1), NEW j \in 1 .. (Len(tebs) + 1),
                        tebs'[i] = tebs'[j]
                 PROVE  i = j
      BY <3>1
    <3>3. CASE i # 1 /\ j # 1
      <4>1. tebs[i - 1] = tebs[j - 1] /\ i - 1 \in DOMAIN tebs /\ j - 1 \in DOMAIN tebs
        BY <3>1, <3>3
      <4>2. i - 1 = j - 1
        BY <4>1 DEF ListsOK
      <4> QED BY <4>2
    <3>4. CASE i = 1 \/ j = 1
      BY <3>1, <3>2, <3>4
    <3> QED BY <3>3, <3>4
  <2> QED BY <2>1, <2>2 DEF Grown
<1>2. temporary' # {} => ending' /\ Unloader \notin Linked'
  <2>1. CASE tebs' = tebs
    <3>1. Linked' = Linked
      BY <2>1, LinkedSame
    <3> QED BY <3>1 DEF Grown, ListsOK
  <2>2. CASE tebs' # tebs
    BY <2>2 DEF Grown, ListsOK
  <2> QED BY <2>1, <2>2
<1>3. temporary \subseteq temporary' /\ Linked \subseteq Linked'
  BY DEF Grown
<1> QED BY <1>1, <1>2, <1>3 DEF ListsOK, Moves

LEMMA ListsStep == TebInv /\ TebNext => ListsOK'
<1> SUFFICES ASSUME TebTypes, PhasesOK, ListsOK, DllOK, TebNext PROVE ListsOK'
  BY DEF TebInv
<1> USE TebAssumption
<1>0. Unloader \in TebThread /\ Unloader \notin TebWorker
  BY DEF TebThread
<1>1. ASSUME NEW t \in TebThread, Calls(t) PROVE ListsOK'
  BY <1>1, CallsOwnSlots, Grows, ListsKept
<1>2. ASSUME NEW t \in TebThread, Takes(t) PROVE ListsOK'
  <2>1. UNCHANGED listVars /\ ending' = ending
    BY <1>2, MovedSame
  <2>2. Moves(t) /\ (at'[t] \in Walking => at[t] \in Walking)
    BY <1>2, VisitGoes, StepOnGoes, NextCrashesGoes, ThreadDetachGoes, ReadCallbackGoes,
       TakeDataGoes, ThreadEndsGoes
       DEF Takes, Went, Rests, Visit, StepOn, NextCrashes, Walking
  <2>4. Linked' = Linked
    BY <2>1, LinkedSame
  <2> QED BY <2>1, <2>2, <2>4 DEF ListsOK, Moves
<1>3. CASE BeginTerminate
  <2>1. Rests(Unloader, "detach") /\ ending' = TRUE /\ UNCHANGED listVars
    BY <1>3, BeginTerminateGoes DEF BeginTerminate
  <2>2. Linked' = Linked
    BY <2>1, LinkedSame
  <2> QED BY <1>0, <2>1, <2>2 DEF ListsOK, Rests, Moves, Walking
<1>4. CASE MoveList
  <2>1. Rests(Unloader, "teardown") /\ tebs' = <<>> /\ ending' = ending /\ ending
    BY <1>4, MoveListGoes DEF MoveList
  <2>2. Linked' = {}
    BY <2>1 DEF Linked
  <2>3. \A v \in TebThread : at'[v] \notin Walking
    BY <1>0, <2>1 DEF Rests, Moves, PhasesOK, PhaseOf, Resting, Walking
  <2> QED BY <2>1, <2>2, <2>3 DEF ListsOK
<1>5. CASE TeardownNext \/ DeleteTeb \/ DeleteTemporary
  <2>1. /\ tebs' = tebs /\ ending' = ending /\ temporary' \subseteq temporary
        /\ at[Unloader] \in {"teardown", "read"} /\ at'[Unloader] \in {"teardown", "read", "gone"}
        /\ Moves(Unloader)
    BY <1>5, TeardownNextGoes, DeleteTebGoes, DeleteTemporaryGoes
       DEF TeardownNext, DeleteTeb, DeleteTemporary, Rests, Went
  <2>2. ending
    BY <1>0, <2>1 DEF PhasesOK, PhaseOf, Leaving
  <2>3. \A v \in TebThread : at'[v] \notin Walking
    BY <1>0, <2>1, <2>2 DEF Moves, PhasesOK, PhaseOf, Resting, Walking
  <2>4. Linked' = Linked
    BY <2>1, LinkedSame
  <2> QED BY <2>1, <2>3, <2>4 DEF ListsOK
<1> QED BY <1>1, <1>2, <1>3, <1>4, <1>5, TebSteps

(* One step leaves no data in slots that nobody will come by.              *)
LEMMA EmptyStep == TebInv /\ TebNext => EmptyOK'
<1> SUFFICES ASSUME TebInv, TebNext PROVE EmptyOK'
  OBVIOUS
<1>i. TebTypes /\ PhasesOK /\ ListsOK /\ DllOK /\ EmptyOK
  BY DEF TebInv
<1>0. Unloader \in TebThread /\ Unloader \notin TebWorker
  BY TebAssumption DEF TebThread
<1>t. TebTypes'
  BY TypesStep
<1>1. ASSUME NEW t \in TebThread, Calls(t) PROVE EmptyOK'
  <2>1. /\ CurrentTeb(t) /\ ~Moved /\ ~Moved'
        /\ \A v \in TebThread : v # t => FlsFalls(v) /\ TlsFalls(v)
    BY <1>1, <1>i, CallsOwnSlots
  <2>2. Grown(t) /\ t \in Linked' \cup temporary'
    BY <1>i, <2>1, Grows
  <2>3. ASSUME NEW u \in TebThread, u \notin Linked' \cup temporary'
        PROVE  /\ \A i \in FlsIndex : flsSlot'[u][i] = 0
               /\ \A i \in TlsIndex : tlsSlot'[u][i] # "block"
    <3>1. u # t /\ u \notin Linked \cup temporary
      BY <2>2, <2>3 DEF Grown
    <3>2. /\ \A i \in FlsIndex : flsSlot[u][i] = 0
          /\ \A i \in TlsIndex : tlsSlot[u][i] # "block"
      BY <1>i, <2>1, <3>1 DEF EmptyOK
    <3> QED BY <2>1, <3>1, <3>2 DEF FlsFalls, TlsFalls
  <2> QED BY <2>1, <2>3 DEF EmptyOK
<1>2. ASSUME NEW t \in TebThread, Takes(t) PROVE EmptyOK'
  <2>1. /\ Moved' <=> Moved
        /\ UNCHANGED <<tebs, temporary, moved>>
        /\ Moved => job'[Unloader].teb = job[Unloader].teb
    BY <1>2, <1>i, MovedSame
  <2>2. \A v \in TebThread : FlsFalls(v) /\ TlsFalls(v)
    BY <1>2, <1>i, SlotsFall
  <2>3. Linked' = Linked
    BY <2>1, LinkedSame
  <2>4. CASE ~Moved
    <3>1. ASSUME NEW u \in TebThread, u \notin Linked' \cup temporary'
          PROVE  /\ \A i \in FlsIndex : flsSlot'[u][i] = 0
                 /\ \A i \in TlsIndex : tlsSlot'[u][i] # "block"
      BY <1>i, <2>1, <2>2, <2>3, <2>4, <3>1 DEF EmptyOK, FlsFalls, TlsFalls
    <3> QED BY <2>1, <2>4, <3>1 DEF EmptyOK
  <2>5. CASE Moved
    <3>1. ASSUME NEW u \in TebThread, NEW i \in FlsIndex, flsSlot'[u][i] # 0
          PROVE  \/ \E k \in DOMAIN moved : moved[k] = u
                 \/ u \in temporary \/ u = job[Unloader].teb
      BY <1>i, <2>2, <2>5, <3>1 DEF EmptyOK, FlsFalls
    <3> QED BY <2>1, <2>5, <3>1 DEF EmptyOK
  <2> QED BY <2>4, <2>5
<1>3. CASE BeginTerminate
  <2>1. /\ UNCHANGED <<tebs, temporary, flsSlot, tlsSlot>> /\ ~ending
        /\ Rests(Unloader, "detach")
    BY <1>3, <1>i, BeginTerminateGoes DEF BeginTerminate
  <2>2. ~Moved /\ ~Moved' /\ Linked' = Linked
    BY <2>1, LinkedSame DEF Moved, Rests, Leaving
  <2> QED BY <1>i, <2>1, <2>2 DEF EmptyOK
<1>4. CASE MoveList
  <2>1. /\ moved' = tebs /\ UNCHANGED flsSlot /\ ending' = ending /\ ending
        /\ temporary \subseteq temporary'
        /\ at[Unloader] = "detach" /\ Rests(Unloader, "teardown")
    BY <1>4, <1>i, MoveListGoes DEF MoveList
  <2>2. ~Moved /\ Moved'
    BY <2>1 DEF Moved, Rests, Leaving
  <2>3. ASSUME NEW u \in TebThread, NEW i \in FlsIndex, flsSlot'[u][i] # 0
        PROVE  (\E k \in DOMAIN moved' : moved'[k] = u) \/ u \in temporary'
    <3>1. u \in Linked \cup temporary
      BY <1>i, <2>1, <2>2, <2>3 DEF EmptyOK
    <3> QED BY <2>1, <3>1 DEF Linked
  <2> QED BY <2>2, <2>3 DEF EmptyOK
<1>5. CASE TeardownNext
  <2>1. /\ moved # <<>> /\ moved' = Tail(moved) /\ UNCHANGED <<flsSlot, temporary, ending>>
        /\ at[Unloader] = "teardown" /\ Went(Unloader, "read", "none", 1, 0, Head(moved))
    BY <1>5, <1>i, TeardownNextGoes DEF TeardownNext
  <2>2. Moved /\ Moved' /\ job[Unloader].teb = NoTeb
    BY <1>0, <1>i, <2>1 DEF Moved, Went, Leaving, Walking, PhasesOK, PhaseOf, NoJob
  <2>3. ASSUME NEW u \in TebThread, NEW i \in FlsIndex, flsSlot'[u][i] # 0
        PROVE  \/ \E k \in DOMAIN moved' : moved'[k] = u
               \/ u \in temporary' \/ u = job'[Unloader].teb
    <3>1. (\E k \in DOMAIN moved : moved[k] = u) \/ u \in temporary
      BY <1>i, <2>1, <2>2, <2>3, TebAssumption DEF EmptyOK
    <3>2. ASSUME NEW k \in DOMAIN moved, moved[k] = u
          PROVE  (\E m \in DOMAIN moved' : moved'[m] = u) \/ u = Head(moved)
      <4>1. /\ DOMAIN moved = 1 .. Len(moved) /\ Len(moved) \in Nat
            /\ Head(moved) = moved[1] /\ DOMAIN moved' = 1 .. (Len(moved) - 1)
            /\ \A m \in 1 .. (Len(moved) - 1) : moved'[m] = moved[m + 1]
        BY <1>i, <2>1 DEF TebTypes
      <4>2. CASE k = 1
        BY <3>2, <4>1, <4>2
      <4>3. CASE k # 1
        <5>1. k - 1 \in 1 .. (Len(moved) - 1) /\ (k - 1) + 1 = k
          BY <4>1, <4>3
        <5>2. moved'[k - 1] = u
          BY <3>2, <4>1, <5>1
        <5> QED BY <4>1, <5>1, <5>2
      <4> QED BY <4>2, <4>3
    <3> QED BY <2>1, <3>1, <3>2 DEF Went
  <2> QED BY <2>2, <2>3 DEF EmptyOK
<1>6. CASE DeleteTeb
  <2>1. /\ flsSlot' = [flsSlot EXCEPT ![job[Unloader].teb] = [i \in FlsIndex |-> 0]]
        /\ UNCHANGED <<temporary, moved, ending>> /\ ending /\ at[Unloader] = "read"
        /\ Rests(Unloader, "teardown")
    BY <1>6, <1>i, DeleteTebGoes DEF DeleteTeb
  <2>2. Moved /\ Moved'
    BY <2>1 DEF Moved, Rests, Leaving
  <2>3. ASSUME NEW u \in TebThread, NEW i \in FlsIndex, flsSlot'[u][i] # 0
        PROVE  (\E k \in DOMAIN moved' : moved'[k] = u) \/ u \in temporary'
    <3>1. u # job[Unloader].teb /\ flsSlot[u][i] # 0
      BY <1>i, <2>1, <2>3 DEF TebTypes
    <3> QED BY <1>i, <2>1, <2>2, <3>1 DEF EmptyOK
  <2> QED BY <2>2, <2>3 DEF EmptyOK
<1>7. CASE DeleteTemporary
  <2>1. /\ flsSlot' = [t \in TebThread |-> [i \in FlsIndex |-> 0]]
        /\ UNCHANGED ending /\ Rests(Unloader, "gone") /\ at[Unloader] = "teardown"
    BY <1>7, <1>i, DeleteTemporaryGoes DEF DeleteTemporary
  <2>2. Moved'
    BY <1>0, <1>i, <2>1 DEF Moved, Rests, PhasesOK, PhaseOf
  <2> QED BY <2>1, <2>2 DEF EmptyOK
<1> QED BY <1>1, <1>2, <1>3, <1>4, <1>5, <1>6, <1>7, TebSteps

(* A walk that comes back to its TEB has been everywhere.                  *)
LEMMA WalkRound ==
  ASSUME TebInv, NEW t \in TebThread, StepOn(t), NextTeb(job[t].teb, t) = t
  PROVE  /\ job[t].kind = "fls" => \A u \in TebThread : flsSlot[u][job[t].index] = 0
         /\ job[t].kind = "dll" => \A u \in TebThread : tlsSlot[u][job[t].index] # "block"
<1>i. TebTypes /\ ListsOK /\ WalkOf(t)
  BY DEF TebInv, WalksOK
<1>1. at[t] = "next" /\ job[t].teb \in Linked
  BY DEF StepOn
<1>2. t \in Linked
  BY <1>i, <1>1 DEF WalkOf
<1>3. PICK n \in DOMAIN tebs :
        /\ tebs[n] = job[t].teb
        /\ n = Len(tebs) => t = tebs[1]
        /\ n # Len(tebs) => t = tebs[n + 1]
  BY <1>i, <1>1, NextIs
<1>4. DOMAIN tebs = 1 .. Len(tebs) /\ Len(tebs) \in Nat /\ n \in 1 .. Len(tebs)
  BY <1>i DEF TebTypes
<1>5. ASSUME NEW u, Left(t, u) PROVE FALSE
  <2>1. PICK p \in DOMAIN tebs, q \in DOMAIN tebs, r \in DOMAIN tebs :
          /\ tebs[p] = t /\ tebs[q] = job[t].teb /\ tebs[r] = u
          /\ \/ r = q /\ at[t] = "visit"
             \/ p <= q /\ (q < r \/ r < p)
             \/ q < p /\ q < r /\ r < p
    BY <1>5 DEF Left
  <2>2. q = n
    BY <1>i, <1>3, <2>1 DEF ListsOK
  <2>3. p = IF n = Len(tebs) THEN 1 ELSE n + 1
    <3>1. CASE n = Len(tebs)
      <4>1. 1 \in DOMAIN tebs
        BY <1>4
      <4> QED BY <1>i, <1>3, <2>1, <3>1, <4>1 DEF ListsOK
    <3>2. CASE n # Len(tebs)
      <4>1. n + 1 \in DOMAIN tebs
        BY <1>4, <3>2
      <4> QED BY <1>i, <1>3, <2>1, <3>2, <4>1 DEF ListsOK
    <3> QED BY <3>1, <3>2
  <2>4. p \in 1 .. Len(tebs) /\ q \in 1 .. Len(tebs) /\ r \in 1 .. Len(tebs)
    BY <1>4
  <2> QED BY <1>1, <1>4, <2>1, <2>2, <2>3, <2>4
<1> QED BY <1>i, <1>1, <1>2, <1>5 DEF WalkOf

(* The walk of v was there before the step.                                *)
NoNewWalk(v, kind) ==
  at'[v] \in Walking /\ job'[v].kind = kind =>
    /\ at[v] \in Walking /\ job[v].kind = kind
    /\ job'[v].index = job[v].index /\ job'[v].callback = job[v].callback

LEMMA TakesNoWalk ==
  ASSUME TebTypes, PhasesOK, NEW t \in TebThread, Takes(t), NEW kind, NEW v \in TebThread
  PROVE  NoNewWalk(v, kind)
<1>1. CASE v # t
  <2>1. at'[v] = at[v] /\ job'[v] = job[v]
    BY <1>1, VisitGoes, StepOnGoes, NextCrashesGoes, ThreadDetachGoes, ReadCallbackGoes,
       TakeDataGoes, ThreadEndsGoes DEF Takes, Went, Rests, Moves
  <2> QED BY <2>1 DEF NoNewWalk
<1>2. CASE v = t
  <2>1. CASE Visit(t) \/ StepOn(t) \/ NextCrashes(t)
    <3>1. at[t] \in Walking
      BY <2>1 DEF Visit, StepOn, NextCrashes, Walking
    <3>2. \/ /\ job'[t].kind = job[t].kind /\ job'[t].index = job[t].index
             /\ job'[t].callback = job[t].callback
          \/ at'[t] \notin Walking
      BY <2>1, VisitGoes, StepOnGoes, NextCrashesGoes DEF Went, Rests, Walking
    <3> QED BY <1>2, <3>1, <3>2 DEF NoNewWalk
  <2>2. CASE ThreadDetach(t) \/ ReadCallback(t) \/ TakeData(t) \/ ThreadEnds(t)
    BY <1>2, <2>2, ThreadDetachGoes, ReadCallbackGoes, TakeDataGoes, ThreadEndsGoes
       DEF Went, Rests, Walking, NoNewWalk
  <2> QED BY <2>1, <2>2 DEF Takes
<1> QED BY <1>1, <1>2

LEMMA StandsNoWalk ==
  ASSUME Stands, NEW kind, NEW v \in TebThread
  PROVE  NoNewWalk(v, kind)
BY DEF Stands, NoNewWalk

LEMMA RestsNoWalk ==
  ASSUME NEW t \in TebThread, NEW l, Rests(t, l), l \notin Walking, NEW kind,
         NEW v \in TebThread
  PROVE  NoNewWalk(v, kind)
BY DEF Rests, Moves, NoNewWalk

(* The steps of LdkTerminate: no walk begins, nothing but slots changes.   *)
Terminates == BeginTerminate \/ MoveList \/ TeardownNext \/ DeleteTeb \/ DeleteTemporary

LEMMA TerminateFrame ==
  ASSUME TebTypes, PhasesOK, Terminates
  PROVE  /\ UNCHANGED <<flsOwner, flsCallback, allocs, bare, tlsBits, dll, listed, blocks, pebLock>>
         /\ Moves(Unloader) /\ at'[Unloader] \notin Walking
         /\ \A v \in TebThread : FlsFalls(v) /\ TlsFalls(v)
         /\ \A v \in TebThread, kind \in {"fls", "tls", "dll"} : NoNewWalk(v, kind)
         /\ \A v \in TebThread : v # Unloader => at[v] = Resting(v)
<1>0. Unloader \in TebThread /\ Unloader \notin TebWorker
  BY TebAssumption DEF TebThread
<1>1. UNCHANGED <<flsOwner, flsCallback, allocs, bare, tlsBits, dll, listed, blocks, pebLock>>
  BY DEF Terminates, BeginTerminate, MoveList, TeardownNext, DeleteTeb, DeleteTemporary
<1>2. Moves(Unloader) /\ at'[Unloader] \notin Walking
  BY BeginTerminateGoes, MoveListGoes, TeardownNextGoes, DeleteTebGoes, DeleteTemporaryGoes
     DEF Terminates, Rests, Went, Walking
<1>3. \A v \in TebThread, kind \in {"fls", "tls", "dll"} : NoNewWalk(v, kind)
  BY <1>2 DEF Moves, NoNewWalk
<1>4. ASSUME NEW v \in TebThread PROVE FlsFalls(v) /\ TlsFalls(v)
  <2>1. CASE BeginTerminate \/ MoveList \/ TeardownNext
    BY <2>1 DEF BeginTerminate, MoveList, TeardownNext, FlsFalls, TlsFalls
  <2>2. CASE DeleteTeb
    BY <2>2 DEF DeleteTeb, TebTypes, FlsFalls, TlsFalls
  <2>3. CASE DeleteTemporary
    BY <2>3 DEF DeleteTemporary, FlsFalls, TlsFalls
  <2> QED BY <2>1, <2>2, <2>3 DEF Terminates
<1>5. ASSUME NEW v \in TebThread, v # Unloader PROVE at[v] = Resting(v)
  <2>1. CASE BeginTerminate
    BY <2>1 DEF BeginTerminate, Resting
  <2>2. CASE ~BeginTerminate
    <3>1. ending
      BY <1>0, <2>2 DEF Terminates, MoveList, TeardownNext, DeleteTeb, DeleteTemporary,
                        PhasesOK, PhaseOf, Leaving
    <3> QED BY <1>5, <3>1 DEF PhasesOK, PhaseOf
  <2> QED BY <2>1, <2>2
<1> QED BY <1>1, <1>2, <1>3, <1>4, <1>5

(* One step keeps owners, callbacks and data together.                     *)
LEMMA FlsKept ==
  ASSUME TebTypes, FlsOK, \A v \in TebThread : NoNewWalk(v, "fls") /\ FlsFalls(v),
         UNCHANGED <<flsOwner, flsCallback, bare>>
  PROVE  FlsOK'
<1>1. ~bare' => \A u \in TebThread, i \in FlsIndex : flsSlot'[u][i] \in {0, flsOwner'[i]}
  BY DEF FlsOK, FlsFalls
<1>2. ASSUME NEW v \in TebThread, at'[v] \in Walking, job'[v].kind = "fls"
      PROVE  /\ flsCallback'[job'[v].index] = 0 /\ job'[v].callback # 0
             /\ job'[v].callback = flsOwner'[job'[v].index]
  BY <1>2 DEF FlsOK, NoNewWalk
<1> QED BY <1>1, <1>2 DEF FlsOK

LEMMA FlsStep == TebInv /\ TebNext => FlsOK'
<1> SUFFICES ASSUME TebInv, TebNext PROVE FlsOK'
  OBVIOUS
<1>i. TebTypes /\ PhasesOK /\ ListsOK /\ DllOK /\ FlsOK
  BY DEF TebInv
<1>0. ASSUME pebLock = NoTeb, NEW v \in TebThread, at[v] \in Walking, job[v].kind = "fls"
      PROVE  FALSE
  BY <1>0, <1>i, TebAssumption DEF PhasesOK, PhaseOf
<1>1. ASSUME NEW t \in TebThread, NEW i \in FlsIndex, NEW c \in BOOLEAN, FlsAlloc(t, i, c)
      PROVE  FlsOK'
  <2>1. /\ pebLock = NoTeb /\ flsOwner[i] = 0 /\ Stands /\ bare' = bare
        /\ allocs' = allocs + 1
        /\ flsOwner' = [flsOwner EXCEPT ![i] = allocs']
        /\ flsCallback' = [flsCallback EXCEPT ![i] = IF c THEN allocs' ELSE 0]
        /\ flsSlot' = [flsSlot EXCEPT ![t][i] = 0]
    BY <1>1 DEF FlsAlloc, Stands, Lowest
  <2>2. \A j \in FlsIndex : flsCallback'[j] \in {0, flsOwner'[j]}
    BY <1>i, <2>1 DEF FlsOK, TebTypes
  <2>3. \A v \in TebThread : ~(at'[v] \in Walking /\ job'[v].kind = "fls")
    BY <1>0, <2>1 DEF Stands
  <2>4. ASSUME ~bare, NEW u \in TebThread, NEW j \in FlsIndex
        PROVE  flsSlot'[u][j] \in {0, flsOwner'[j]}
    <3>1. flsSlot[u][j] \in {0, flsOwner[j]}
      BY <1>i, <2>4 DEF FlsOK
    <3>2. flsSlot'[u][j] = 0 \/ flsSlot'[u][j] = flsSlot[u][j]
      BY <1>i, <2>1, FlsPut
    <3>3. j # i => flsOwner'[j] = flsOwner[j]
      BY <1>i, <2>1 DEF TebTypes
    <3> QED BY <2>1, <3>1, <3>2, <3>3
  <2> QED BY <2>1, <2>2, <2>3, <2>4 DEF FlsOK
<1>2. ASSUME NEW t \in TebThread, NEW i \in FlsIndex, FlsSetValue(t, i) PROVE FlsOK'
  <2>1. /\ Stands /\ UNCHANGED <<flsOwner, flsCallback, bare>>
        /\ flsSlot' = [flsSlot EXCEPT ![t][i] = flsOwner[i]] /\ flsOwner[i] \in Nat
    BY <1>i, <1>2 DEF FlsSetValue, Stands, TebTypes
  <2>2. ASSUME ~bare, NEW u \in TebThread, NEW j \in FlsIndex
        PROVE  flsSlot'[u][j] \in {0, flsOwner[j]}
    BY <1>i, <2>1, <2>2, FlsPut DEF FlsOK
  <2> QED BY <1>i, <2>1, <2>2 DEF FlsOK, Stands
<1>3. ASSUME NEW t \in TebThread, NEW i \in FlsIndex, FlsFree(t, i) PROVE FlsOK'
  <2>1. /\ pebLock = NoTeb /\ flsCallback' = [flsCallback EXCEPT ![i] = 0]
        /\ flsSlot' = flsSlot
    BY <1>3 DEF FlsFree
  <2>2. CASE /\ Went(t, "visit", "fls", i, flsCallback[i], t)
             /\ flsCallback[i] # 0 /\ UNCHANGED <<flsOwner, bare>>
    <3>1. \A j \in FlsIndex : flsCallback'[j] \in {0, flsOwner'[j]}
      BY <1>i, <2>1, <2>2 DEF FlsOK, TebTypes
    <3>2. ASSUME NEW v \in TebThread, at'[v] \in Walking, job'[v].kind = "fls"
          PROVE  /\ flsCallback'[job'[v].index] = 0 /\ job'[v].callback # 0
                 /\ job'[v].callback = flsOwner'[job'[v].index]
      <4>1. v = t
        BY <1>0, <2>1, <2>2, <3>2 DEF Went, Moves
      <4> QED BY <1>i, <2>1, <2>2, <4>1 DEF Went, FlsOK, TebTypes
    <3> QED BY <1>i, <2>1, <2>2, <3>1, <3>2 DEF FlsOK
  <2>3. CASE Stands /\ flsOwner' = [flsOwner EXCEPT ![i] = 0] /\ bare' = TRUE
    <3>1. \A j \in FlsIndex : flsCallback'[j] \in {0, flsOwner'[j]}
      BY <1>i, <2>1, <2>3 DEF FlsOK, TebTypes
    <3>2. \A v \in TebThread : ~(at'[v] \in Walking /\ job'[v].kind = "fls")
      BY <1>0, <2>1, <2>3 DEF Stands
    <3> QED BY <2>3, <3>1, <3>2 DEF FlsOK
  <2> QED BY <1>i, <1>3, <2>2, <2>3, FlsFreeGoes
<1>4. ASSUME NEW t \in TebThread, NEW i \in TlsIndex,
             TlsAlloc(t, i) \/ TlsSetValue(t, i) \/ TlsFree(t, i) \/ LoadDll(t, i)
      PROVE  FlsOK'
  <2>1. UNCHANGED <<flsOwner, flsCallback, flsSlot, bare>> /\ (TlsFree(t, i) \/ Stands)
    BY <1>4 DEF TlsAlloc, TlsSetValue, TlsFree, LoadDll, Stands
  <2>2. \A v \in TebThread : NoNewWalk(v, "fls")
    BY <1>i, <2>1, StandsNoWalk, TlsFreeGoes DEF Went, Moves, NoNewWalk
  <2> QED BY <1>i, <2>1, <2>2, FlsKept DEF FlsFalls
<1>5. ASSUME NEW t \in TebThread, UnloadDll(t) \/ ThreadAttach(t) PROVE FlsOK'
  <2>1. UNCHANGED <<flsOwner, flsCallback, flsSlot, bare>>
    BY <1>5 DEF UnloadDll, ThreadAttach
  <2>2. \A v \in TebThread : NoNewWalk(v, "fls")
    BY <1>i, <1>5, UnloadDllGoes, ThreadAttachGoes DEF Went, Rests, Moves, NoNewWalk, Walking
  <2> QED BY <1>i, <2>1, <2>2, FlsKept DEF FlsFalls
<1>6. ASSUME NEW t \in TebThread, StepOn(t), NextTeb(job[t].teb, t) = t PROVE FlsOK'
  <2>1. /\ flsOwner' = [i \in FlsIndex |->
             IF job[t].kind = "fls" /\ i = job[t].index THEN 0 ELSE flsOwner[i]]
        /\ UNCHANGED <<flsCallback, flsSlot, bare>>
        /\ at[t] = "next" /\ pebLock \in {NoTeb, t}
    BY <1>i, <1>6, TebAssumption DEF StepOn, PhasesOK, PhaseOf, Walking
  <2>2. Rests(t, IF ending THEN "detach" ELSE "idle")
    BY <1>i, <1>6, StepOnGoes
  <2>3. \A v \in TebThread : ~(at'[v] \in Walking /\ job'[v].kind = "fls")
    BY <1>i, <2>1, <2>2, TebAssumption DEF Rests, Moves, Walking, PhasesOK, PhaseOf
  <2>4. \A j \in FlsIndex : flsCallback'[j] \in {0, flsOwner'[j]}
    BY <1>i, <2>1 DEF FlsOK, Walking
  <2>5. ASSUME ~bare, NEW u \in TebThread, NEW j \in FlsIndex
        PROVE  flsSlot'[u][j] \in {0, flsOwner'[j]}
    <3>1. job[t].kind = "fls" /\ j = job[t].index => flsSlot[u][j] = 0
      BY <1>6, WalkRound
    <3> QED BY <1>i, <2>1, <2>5, <3>1 DEF FlsOK
  <2> QED BY <2>1, <2>3, <2>4, <2>5 DEF FlsOK
<1>7. ASSUME NEW t \in TebThread, Takes(t), ~(StepOn(t) /\ NextTeb(job[t].teb, t) = t)
      PROVE  FlsOK'
  <2>1. UNCHANGED <<flsOwner, flsCallback, bare>>
    BY <1>7 DEF Takes, Visit, StepOn, NextCrashes, ThreadDetach, ReadCallback, TakeData, ThreadEnds
  <2> QED BY <1>i, <1>7, <2>1, TakesNoWalk, SlotsFall, FlsKept
<1>8. CASE Terminates
  BY <1>i, <1>8, TerminateFrame, FlsKept
<1> QED BY <1>1, <1>2, <1>3, <1>4, <1>5, <1>6, <1>7, <1>8, TebSteps DEF Calls, Terminates

(* A thread that enters LDK does not write to the TEB of one that leaves.  *)
LEMMA LeaversApart ==
  ASSUME TebTypes, PhasesOK, DllOK, NEW t \in TebThread, Calls(t)
  PROVE  /\ at'[t] \notin {"none"} \cup Leaving
         /\ \A v \in TebThread : at[v] \in Leaving =>
              v # t /\ v \in TebWorker /\ job[v].teb = v /\ FlsFalls(v)
<1> USE TebAssumption
<1>0. Unloader \in TebThread /\ Unloader \notin TebWorker
  BY DEF TebThread
<1>1. at[t] \in {"idle", "detach", "none"}
  BY CallerIs DEF Calls, FlsAlloc, FlsSetValue, FlsFree, TlsAlloc, TlsSetValue, TlsFree,
                  LoadDll, UnloadDll, ThreadAttach
<1>2. at'[t] \notin {"none"} \cup Leaving
  <2>1. CASE MayCall(t) /\ Stands
    BY <2>1, CallerIs DEF Stands, Leaving
  <2>2. CASE at'[t] \in {"visit", "idle"}
    BY <2>2 DEF Leaving
  <2>3. ASSUME NEW i \in FlsIndex,
               (\E c \in BOOLEAN : FlsAlloc(t, i, c)) \/ FlsSetValue(t, i) \/ FlsFree(t, i)
        PROVE  (MayCall(t) /\ Stands) \/ at'[t] \in {"visit", "idle"}
    BY <2>3, FlsFreeGoes DEF FlsAlloc, FlsSetValue, FlsFree, Stands, Went
  <2>4. ASSUME NEW i \in TlsIndex,
               TlsAlloc(t, i) \/ TlsSetValue(t, i) \/ TlsFree(t, i) \/ LoadDll(t, i)
        PROVE  (MayCall(t) /\ Stands) \/ at'[t] \in {"visit", "idle"}
    BY <2>4, TlsFreeGoes DEF TlsAlloc, TlsSetValue, LoadDll, Stands, Went
  <2>5. CASE UnloadDll(t) \/ ThreadAttach(t)
    BY <2>5, <2>2, UnloadDllGoes, ThreadAttachGoes DEF Went, Rests
  <2> QED BY <2>1, <2>2, <2>3, <2>4, <2>5 DEF Calls
<1>3. ASSUME NEW v \in TebThread, at[v] \in Leaving
      PROVE  v # t /\ v \in TebWorker /\ job[v].teb = v /\ FlsFalls(v)
  <2>1. v # t
    BY <1>1, <1>3 DEF Leaving
  <2>2. v \in TebWorker
    BY <1>0, <1>3, CallsOwnSlots DEF PhasesOK, PhaseOf, Moved
  <2> QED BY <1>3, <2>1, <2>2, CallsOwnSlots DEF PhasesOK, PhaseOf
<1> QED BY <1>2, <1>3

(* One step keeps what ending threads have read.                           *)
LEMMA TakeKept ==
  ASSUME TebTypes, PhasesOK, TakeOK, bare => bare',
         \A v \in TebThread : at'[v] = "take" =>
           at[v] = "take" /\ job'[v] = job[v] /\ FlsFalls(job[v].teb),
         \A i \in FlsIndex : flsCallback'[i] \in {0, flsCallback[i]}
  PROVE  TakeOK'
<1> SUFFICES ASSUME ~bare', NEW t \in TebThread, at'[t] = "take"
             PROVE  /\ job'[t].callback # 0 =>
                         flsSlot'[job'[t].teb][job'[t].index] \in {0, job'[t].callback}
                    /\ job'[t].callback = 0 /\ flsSlot'[job'[t].teb][job'[t].index] # 0 =>
                         flsCallback'[job'[t].index] = 0
  BY DEF TakeOK
<1>1. at[t] = "take" /\ job'[t] = job[t] /\ FlsFalls(job[t].teb) /\ ~bare
  OBVIOUS
<1>2. job[t].index \in FlsIndex
  BY <1>1 DEF PhasesOK, PhaseOf, Leaving
<1>3. flsSlot'[job[t].teb][job[t].index] \in {0, flsSlot[job[t].teb][job[t].index]}
  BY <1>1, <1>2 DEF FlsFalls
<1>4. /\ job[t].callback # 0 =>
           flsSlot[job[t].teb][job[t].index] \in {0, job[t].callback}
      /\ job[t].callback = 0 /\ flsSlot[job[t].teb][job[t].index] # 0 =>
           flsCallback[job[t].index] = 0
  BY <1>1 DEF TakeOK
<1>5. flsCallback[job[t].index] = 0 => flsCallback'[job[t].index] = 0
  BY <1>2
<1> QED BY <1>1, <1>3, <1>4, <1>5

LEMMA TakeStep == TebInv /\ TebNext => TakeOK'
<1> SUFFICES ASSUME TebInv, TebNext PROVE TakeOK'
  OBVIOUS
<1>i. TebTypes /\ PhasesOK /\ ListsOK /\ DllOK /\ FlsOK /\ TakeOK
  BY DEF TebInv
<1>a. ASSUME NEW t \in TebThread, Calls(t), NEW v \in TebThread, at'[v] = "take"
      PROVE  /\ at[v] = "take" /\ job'[v] = job[v] /\ FlsFalls(job[v].teb)
             /\ job[v].teb = v
  <2>1. v # t
    BY <1>a, <1>i, LeaversApart DEF Leaving
  <2>2. at[v] = "take" /\ job'[v] = job[v]
    BY <1>a, <1>i, <2>1, CallsOwnSlots DEF Moves
  <2> QED BY <1>a, <1>i, <2>2, LeaversApart DEF Leaving
<1>1. ASSUME NEW t \in TebThread, NEW i \in FlsIndex, NEW c \in BOOLEAN, FlsAlloc(t, i, c)
      PROVE  TakeOK'
  <2>1. /\ flsOwner[i] = 0 /\ bare' = bare /\ Calls(t)
        /\ flsCallback' = [flsCallback EXCEPT ![i] = IF c THEN allocs' ELSE 0]
    BY <1>1 DEF FlsAlloc, Lowest, Calls
  <2> SUFFICES ASSUME ~bare, NEW v \in TebThread, at'[v] = "take"
               PROVE  /\ job'[v].callback # 0 =>
                           flsSlot'[job'[v].teb][job'[v].index] \in {0, job'[v].callback}
                      /\ job'[v].callback = 0 /\ flsSlot'[job'[v].teb][job'[v].index] # 0 =>
                           flsCallback'[job'[v].index] = 0
    BY <2>1 DEF TakeOK
  <2>2. at[v] = "take" /\ job'[v] = job[v] /\ FlsFalls(job[v].teb) /\ job[v].teb = v
    BY <1>a, <2>1
  <2>3. job[v].index \in FlsIndex
    BY <1>i, <2>2 DEF PhasesOK, PhaseOf, Leaving
  <2>4. flsSlot'[v][job[v].index] \in {0, flsSlot[v][job[v].index]}
    BY <2>2, <2>3 DEF FlsFalls
  <2>5. job[v].index = i => flsSlot[v][job[v].index] = 0
    BY <1>i, <2>1 DEF FlsOK
  <2>6. job[v].index # i => flsCallback'[job[v].index] = flsCallback[job[v].index]
    BY <1>i, <2>1, <2>3 DEF TebTypes
  <2>7. /\ job[v].callback # 0 => flsSlot[v][job[v].index] \in {0, job[v].callback}
        /\ job[v].callback = 0 /\ flsSlot[v][job[v].index] # 0 =>
             flsCallback[job[v].index] = 0
    BY <1>i, <2>2 DEF TakeOK
  <2> QED BY <2>2, <2>4, <2>5, <2>6, <2>7
<1>2. ASSUME NEW t \in TebThread, Calls(t),
             ~\E i \in FlsIndex, c \in BOOLEAN : FlsAlloc(t, i, c)
      PROVE  TakeOK'
  <2>1. \A i \in FlsIndex : flsCallback'[i] \in {0, flsCallback[i]}
    BY <1>2, <1>i DEF Calls, FlsSetValue, FlsFree, TlsAlloc, TlsSetValue, TlsFree, LoadDll,
                      UnloadDll, ThreadAttach, TebTypes
  <2>2. bare => bare'
    BY <1>2 DEF Calls, FlsSetValue, FlsFree, TlsAlloc, TlsSetValue, TlsFree, LoadDll,
                UnloadDll, ThreadAttach
  <2> QED BY <1>2, <1>a, <1>i, <2>1, <2>2, TakeKept
<1>3. ASSUME NEW t \in TebThread, Takes(t), ~ReadCallback(t) PROVE TakeOK'
  <2>1. UNCHANGED <<flsCallback, bare>>
    BY <1>3 DEF Takes, Visit, StepOn, NextCrashes, ThreadDetach, TakeData, ThreadEnds
  <2>2. ASSUME NEW v \in TebThread, at'[v] = "take"
        PROVE  at[v] = "take" /\ job'[v] = job[v] /\ FlsFalls(job[v].teb)
    <3>1. v # t /\ Moves(t)
      BY <1>3, <1>i, <2>2, VisitGoes, StepOnGoes, NextCrashesGoes, ThreadDetachGoes,
         TakeDataGoes, ThreadEndsGoes DEF Takes, Went, Rests
    <3>2. at[v] = "take" /\ job'[v] = job[v]
      BY <2>2, <3>1 DEF Moves
    <3>3. job[v].teb \in TebThread
      BY <1>i, <3>2 DEF PhasesOK, PhaseOf, Leaving
    <3> QED BY <1>3, <1>i, <3>2, <3>3, SlotsFall
  <2> QED BY <1>i, <2>1, <2>2, TakeKept
<1>4. ASSUME NEW t \in TebThread, ReadCallback(t) PROVE TakeOK'
  <2>0. UNCHANGED <<flsCallback, bare, flsSlot>> /\ at[t] = "read" /\ job[t].index <= FlsSlots
    BY <1>4 DEF ReadCallback
  <2>1. /\ UNCHANGED <<flsCallback, bare, flsSlot>>
        /\ Went(t, "take", job[t].kind, job[t].index, flsCallback[job[t].index], job[t].teb)
        /\ job[t].index \in FlsIndex /\ job[t].teb \in TebThread
    BY <1>4, <1>i, <2>0, ReadCallbackGoes, TebAssumption DEF PhasesOK, PhaseOf, Leaving
  <2> SUFFICES ASSUME ~bare, NEW v \in TebThread, at'[v] = "take"
               PROVE  /\ job'[v].callback # 0 =>
                           flsSlot[job'[v].teb][job'[v].index] \in {0, job'[v].callback}
                      /\ job'[v].callback = 0 /\ flsSlot[job'[v].teb][job'[v].index] # 0 =>
                           flsCallback[job'[v].index] = 0
    BY <2>1 DEF TakeOK
  <2>2. CASE v = t
    BY <1>i, <2>1, <2>2 DEF Went, FlsOK
  <2>3. CASE v # t
    BY <1>i, <2>1, <2>3 DEF Went, Moves, TakeOK
  <2> QED BY <2>2, <2>3
<1>5. CASE Terminates
  <2>1. UNCHANGED <<flsCallback, bare>> /\ \A v \in TebThread : FlsFalls(v)
    BY <1>5, <1>i, TerminateFrame
  <2>2. \A v \in TebThread : at'[v] # "take"
    <3>1. at'[Unloader] # "take"
      BY <1>5, <1>i, BeginTerminateGoes, MoveListGoes, TeardownNextGoes, DeleteTebGoes,
         DeleteTemporaryGoes DEF Terminates, Rests, Went
    <3>2. \A v \in TebThread : v # Unloader => at'[v] = Resting(v)
      BY <1>5, <1>i, TerminateFrame DEF Moves
    <3> QED BY <3>1, <3>2 DEF Resting
  <2> QED BY <2>2 DEF TakeOK
<1> QED BY <1>1, <1>2, <1>3, <1>4, <1>5, TebSteps DEF Terminates

(* One step lets no thread leave with something in its slots.              *)
LEMMA LeftStep == TebInv /\ TebNext => LeftClean'
<1> SUFFICES ASSUME TebInv, TebNext PROVE LeftClean'
  OBVIOUS
<1>i. TebTypes /\ PhasesOK /\ ListsOK /\ DllOK /\ LeftClean
  BY DEF TebInv
<1>w. TebWorker \subseteq TebThread /\ Unloader \in TebThread /\ Unloader \notin TebWorker
  BY TebAssumption DEF TebThread
<1>a. ASSUME NEW v \in TebThread, at'[v] = at[v], job'[v] = job[v],
             at[v] \in Leaving, FlsFalls(job[v].teb)
      PROVE  \A j \in FlsIndex : j < job'[v].index => flsSlot'[job'[v].teb][j] = 0
  BY <1>a, <1>i DEF LeftClean, FlsFalls
<1>b. ASSUME NEW v \in TebWorker, at[v] = "none", FlsFalls(v)
      PROVE  \A j \in FlsIndex : flsSlot'[v][j] = 0
  BY <1>b, <1>i DEF LeftClean, FlsFalls
<1>1. ASSUME NEW t \in TebThread, Calls(t) PROVE LeftClean'
  <2>1. ASSUME NEW v \in TebThread, at'[v] \in {"none"} \cup Leaving
        PROVE  v # t /\ at'[v] = at[v] /\ job'[v] = job[v]
    BY <1>1, <1>i, <2>1, LeaversApart, CallsOwnSlots DEF Moves
  <2>2. ASSUME NEW v \in TebThread, at'[v] \in Leaving
        PROVE  \A j \in FlsIndex : j < job'[v].index => flsSlot'[job'[v].teb][j] = 0
    BY <1>1, <1>a, <1>i, <2>1, <2>2, LeaversApart
  <2>3. ASSUME NEW v \in TebWorker, at'[v] = "none"
        PROVE  \A j \in FlsIndex : flsSlot'[v][j] = 0
    BY <1>1, <1>b, <1>i, <1>w, <2>1, <2>3, CallsOwnSlots
  <2> QED BY <2>2, <2>3 DEF LeftClean
<1>2. ASSUME NEW t \in TebThread, Takes(t) PROVE LeftClean'
  <2>0. Moves(t) /\ \A v \in TebThread : FlsFalls(v)
    BY <1>2, <1>i, SlotsFall, VisitGoes, StepOnGoes, NextCrashesGoes, ThreadDetachGoes,
       ReadCallbackGoes, TakeDataGoes, ThreadEndsGoes DEF Takes, Went, Rests
  <2>1. ASSUME NEW v \in TebThread, at'[v] \in Leaving, v # t
        PROVE  \A j \in FlsIndex : j < job'[v].index => flsSlot'[job'[v].teb][j] = 0
    <3>1. at'[v] = at[v] /\ job'[v] = job[v]
      BY <2>0, <2>1 DEF Moves
    <3>2. job[v].teb \in TebThread
      BY <1>i, <2>1, <3>1 DEF PhasesOK, PhaseOf
    <3> QED BY <1>a, <2>0, <2>1, <3>1, <3>2
  <2>2. ASSUME NEW v \in TebWorker, at'[v] = "none", v # t
        PROVE  \A j \in FlsIndex : flsSlot'[v][j] = 0
    BY <1>b, <1>w, <2>0, <2>2 DEF Moves
  <2>3. ASSUME at'[t] \in Leaving
        PROVE  \A j \in FlsIndex : j < job'[t].index => flsSlot'[job'[t].teb][j] = 0
    <3>1. CASE ThreadDetach(t)
      <4>1. job'[t].index = 1
        BY <1>i, <3>1, ThreadDetachGoes DEF Went
      <4> QED BY <4>1
    <3>2. CASE ReadCallback(t)
      <4>1. at[t] = "read" /\ job'[t].index = job[t].index /\ job'[t].teb = job[t].teb
        BY <1>i, <3>2, ReadCallbackGoes DEF Went, ReadCallback
      <4>2. flsSlot' = flsSlot
        BY <3>2 DEF ReadCallback
      <4> QED BY <1>i, <4>1, <4>2 DEF LeftClean, Leaving
    <3>3. CASE TakeData(t)
      <4>1. /\ at[t] = "take" /\ job'[t].index = job[t].index + 1
            /\ job'[t].teb = job[t].teb /\ job[t].index \in FlsIndex
            /\ job[t].teb \in TebThread
        BY <1>i, <3>3, TakeDataGoes DEF Went, TakeData, PhasesOK, PhaseOf, Leaving
      <4>2. flsSlot' = [flsSlot EXCEPT ![job[t].teb][job[t].index] = 0]
        BY <3>3 DEF TakeData
      <4>3. flsSlot'[job[t].teb][job[t].index] = 0
        BY <1>i, <4>1, <4>2, FlsPut
      <4>4. \A j \in FlsIndex : j < job[t].index => flsSlot[job[t].teb][j] = 0
        BY <1>i, <4>1 DEF LeftClean, Leaving
      <4>5. ASSUME NEW j \in FlsIndex, j < job[t].index + 1
            PROVE  flsSlot'[job[t].teb][j] = 0
        <5>1. j < job[t].index \/ j = job[t].index
          BY <4>1, <4>5
        <5> QED BY <2>0, <4>1, <4>3, <4>4, <5>1 DEF FlsFalls
      <4> QED BY <4>1, <4>5
    <3>4. CASE Visit(t) \/ StepOn(t) \/ NextCrashes(t) \/ ThreadEnds(t)
      BY <1>i, <2>3, <3>4, VisitGoes, StepOnGoes, NextCrashesGoes, ThreadEndsGoes
         DEF Went, Rests, Leaving
    <3> QED BY <1>2, <3>1, <3>2, <3>3, <3>4 DEF Takes
  <2>4. ASSUME t \in TebWorker, at'[t] = "none"
        PROVE  \A j \in FlsIndex : flsSlot'[t][j] = 0
    <3>1. ThreadEnds(t)
      BY <1>2, <1>i, <2>4, VisitGoes, StepOnGoes, NextCrashesGoes, ThreadDetachGoes,
         ReadCallbackGoes, TakeDataGoes DEF Takes, Went, Rests
    <3>2. /\ at[t] = "read" /\ job[t].index > FlsSlots /\ job[t].teb = t /\ flsSlot' = flsSlot
          /\ job[t].index \in Nat
      BY <1>i, <2>4, <3>1 DEF ThreadEnds, PhasesOK, PhaseOf, Leaving, TebTypes, TebJob
    <3>3. \A j \in FlsIndex : j < job[t].index
      BY <3>2, TebAssumption
    <3> QED BY <1>i, <3>2, <3>3 DEF LeftClean, Leaving
  <2> QED BY <2>1, <2>2, <2>3, <2>4 DEF LeftClean
<1>3. CASE Terminates
  <2>1. /\ Moves(Unloader) /\ \A v \in TebThread : FlsFalls(v)
        /\ \A v \in TebThread : v # Unloader => at[v] = Resting(v)
    BY <1>3, <1>i, TerminateFrame
  <2>2. at'[Unloader] \in Leaving => job'[Unloader].index = 1
    BY <1>3, <1>i, BeginTerminateGoes, MoveListGoes, TeardownNextGoes, DeleteTebGoes,
       DeleteTemporaryGoes DEF Terminates, Rests, Went, Leaving
  <2>3. ASSUME NEW v \in TebThread, at'[v] \in Leaving PROVE job'[v].index = 1
    BY <2>1, <2>2, <2>3 DEF Moves, Resting, Leaving
  <2>4. ASSUME NEW v \in TebWorker, at'[v] = "none"
        PROVE  \A j \in FlsIndex : flsSlot'[v][j] = 0
    BY <1>b, <1>w, <2>1, <2>4 DEF Moves
  <2>5. \A v \in TebThread : at'[v] \in Leaving =>
          \A j \in FlsIndex : j < job'[v].index => flsSlot'[job'[v].teb][j] = 0
    BY <2>3
  <2> QED BY <2>4, <2>5 DEF LeftClean
<1> QED BY <1>1, <1>2, <1>3, TebSteps DEF Terminates

(* What each step does to the bits, the DLL and the module list.           *)
LEMMA DllFrame ==
  ASSUME TebTypes, PhasesOK, DllOK, NEW t \in TebThread, Calls(t) \/ Takes(t)
  PROVE  \/ UNCHANGED <<tlsBits, dll, listed>>
         \/ \E i \in TlsIndex : /\ TlsAlloc(t, i) /\ UNCHANGED <<dll, listed>>
                                /\ tlsBits' = tlsBits \cup {i} /\ i \notin tlsBits
         \/ \E i \in TlsIndex : /\ LoadDll(t, i) /\ dll = 0 /\ i \notin tlsBits
                                /\ tlsBits' = tlsBits \cup {i} /\ dll' = i /\ listed' = TRUE
         \/ UnloadDll(t) /\ UNCHANGED <<tlsBits, dll>> /\ listed /\ listed' = FALSE
         \/ /\ StepOn(t) /\ NextTeb(job[t].teb, t) = t /\ listed' = listed
            /\ tlsBits' = IF job[t].kind = "fls" THEN tlsBits ELSE tlsBits \ {job[t].index}
            /\ dll' = IF job[t].kind = "dll" THEN 0 ELSE dll
<1>1. CASE Calls(t)
  BY <1>1 DEF Calls, FlsAlloc, FlsSetValue, FlsFree, TlsAlloc, TlsSetValue, TlsFree, LoadDll,
              UnloadDll, ThreadAttach, Lowest
<1>2. CASE Takes(t)
  BY <1>2 DEF Takes, Visit, StepOn, NextCrashes, ThreadDetach, ReadCallback, TakeData, ThreadEnds
<1> QED BY <1>1, <1>2

(* Without a DLL there is no block.                                        *)
LEMMA NoBlocks ==
  ASSUME StaticTlsExact, NEW u \in TebThread, NEW i \in TlsIndex, tlsSlot[u][i] = "block"
  PROVE  i = dll
<1> DEFINE held == {s \in TebThread \X TlsIndex : tlsSlot[s[1]][s[2]] = "block"}
<1>1. <<u, i>> \in held /\ <<u, i>>[2] = i
  OBVIOUS
<1>2. \A s \in held : s[2] = dll
  BY DEF StaticTlsExact
<1> QED BY <1>1, <1>2

(* One step lets no thread leave with a static TLS block.                  *)
LEMMA BlockStep == TebInv /\ TebNext => BlockLeft'
<1> SUFFICES ASSUME TebInv, TebNext PROVE BlockLeft'
  OBVIOUS
<1>i. TebTypes /\ PhasesOK /\ ListsOK /\ DllOK /\ BlockLeft /\ StaticTlsExact
  BY DEF TebInv
<1>w. TebWorker \subseteq TebThread /\ Unloader \in TebThread /\ Unloader \notin TebWorker
  BY TebAssumption DEF TebThread
<1>d. listed => dll \in TlsIndex
  BY <1>i DEF DllOK, TebTypes
<1>a. ASSUME NEW v \in TebWorker, at[v] \in {"none"} \cup Leaving, TlsFalls(v),
             listed, dll' = dll
      PROVE  tlsSlot'[v][dll'] # "block"
  BY <1>a, <1>d, <1>i DEF BlockLeft, TlsFalls
<1>1. ASSUME NEW t \in TebThread, Calls(t), NEW v \in TebWorker,
             at'[v] \in {"none"} \cup Leaving, listed'
      PROVE  tlsSlot'[v][dll'] # "block"
  <2>1. v # t /\ at[v] = at'[v] /\ TlsFalls(v)
    BY <1>1, <1>i, <1>w, LeaversApart, CallsOwnSlots DEF Moves
  <2>2. CASE listed /\ dll' = dll
    BY <1>1, <1>a, <2>1, <2>2
  <2>3. ASSUME NEW i \in TlsIndex, dll = 0, dll' = i
        PROVE  tlsSlot'[v][dll'] # "block"
    <3>1. tlsSlot[v][i] # "block"
      BY <1>i, <1>w, <2>3, NoBlocks
    <3> QED BY <2>1, <2>3, <3>1 DEF TlsFalls
  <2>4. \/ listed /\ dll' = dll
        \/ \E i \in TlsIndex : dll = 0 /\ dll' = i
    <3>1. ~StepOn(t)
      BY <1>1, <1>i, LeaversApart DEF StepOn, Calls, FlsAlloc, FlsSetValue, FlsFree, TlsAlloc,
           TlsSetValue, TlsFree, LoadDll, UnloadDll, ThreadAttach, MayCall
    <3> QED BY <1>1, <1>i, <3>1, DllFrame
  <2> QED BY <2>2, <2>3, <2>4
<1>2. ASSUME NEW t \in TebThread, Takes(t), NEW v \in TebWorker,
             at'[v] \in {"none"} \cup Leaving, listed'
      PROVE  tlsSlot'[v][dll'] # "block"
  <2>1. listed /\ dll' = dll
    <3>1. listed' = listed
      BY <1>2 DEF Takes, Visit, StepOn, NextCrashes, ThreadDetach, ReadCallback, TakeData,
                  ThreadEnds
    <3>2. dll' = dll \/ (StepOn(t) /\ job[t].kind = "dll")
      BY <1>2 DEF Takes, Visit, StepOn, NextCrashes, ThreadDetach, ReadCallback, TakeData,
                  ThreadEnds
    <3>3. ~(StepOn(t) /\ job[t].kind = "dll")
      BY <1>2, <1>i, <3>1 DEF StepOn, DllOK, IsDllWalk, Walking
    <3> QED BY <1>2, <3>1, <3>2, <3>3
  <2>2. Moves(t) /\ TlsFalls(v)
    BY <1>2, <1>i, <1>w, SlotsFall, VisitGoes, StepOnGoes, NextCrashesGoes, ThreadDetachGoes,
       ReadCallbackGoes, TakeDataGoes, ThreadEndsGoes DEF Takes, Went, Rests
  <2>3. CASE at[v] \in {"none"} \cup Leaving
    BY <1>a, <2>1, <2>2, <2>3
  <2>4. CASE at[v] \notin {"none"} \cup Leaving
    <3>1. v = t
      BY <1>2, <1>w, <2>2, <2>4 DEF Moves
    <3>2. ThreadDetach(t)
      BY <1>2, <1>i, <2>4, <3>1, VisitGoes, StepOnGoes, NextCrashesGoes
         DEF Takes, Went, Rests, ReadCallback, TakeData, ThreadEnds, Leaving
    <3>3. CASE tlsSlot' = tlsSlot /\ tlsSlot[t][dll] # "block"
      BY <2>1, <3>1, <3>3
    <3>4. CASE tlsSlot' = [tlsSlot EXCEPT ![t][dll] = "null"]
      <4>1. tlsSlot'[t][dll] = "null"
        BY <1>d, <1>i, <2>1, <3>4, TlsPut
      <4> QED BY <2>1, <3>1, <4>1
    <3> QED BY <1>i, <2>1, <3>2, <3>3, <3>4, StaticTaken
  <2> QED BY <2>3, <2>4
<1>3. ASSUME Terminates, NEW v \in TebWorker, at'[v] \in {"none"} \cup Leaving, listed'
      PROVE  tlsSlot'[v][dll'] # "block"
  <2>1. /\ Moves(Unloader) /\ TlsFalls(v) /\ dll' = dll /\ listed' = listed
    BY <1>3, <1>i, <1>w, TerminateFrame
  <2> QED BY <1>3, <1>a, <1>w, <2>1 DEF Moves
<1> QED BY <1>1, <1>2, <1>3, TebSteps DEF Terminates, BlockLeft

(* One step leaves the DLL to the list or to one walk.                     *)
LEMMA DllKept ==
  ASSUME TebTypes, DllOK, UNCHANGED <<dll, listed>>, tlsBits \subseteq tlsBits',
         \A v \in TebThread : NoNewWalk(v, "dll") /\ NoNewWalk(v, "tls"),
         \A v \in TebThread : IsDllWalk(v) => IsDllWalk(v)',
         Moved' => dll = 0
  PROVE  DllOK'
<1>1. \A v \in TebThread : IsDllWalk(v)' <=> IsDllWalk(v)
  BY DEF NoNewWalk, IsDllWalk
<1>2. \A v \in TebThread : IsDllWalk(v)' => job'[v].index = job[v].index
  BY DEF NoNewWalk, IsDllWalk
<1>3. \A v \in TebThread : at'[v] \in Walking /\ job'[v].kind = "tls" =>
        job'[v].index \in tlsBits' /\ job'[v].index # dll'
  BY DEF NoNewWalk, DllOK
<1>4. \A t \in TebThread : IsDllWalk(t)' => ~listed' /\ dll' # 0 /\ job'[t].index = dll'
  BY <1>1, <1>2 DEF DllOK
<1>5. \A t, u \in TebThread : IsDllWalk(t)' /\ IsDllWalk(u)' => t = u
  BY <1>1 DEF DllOK
<1>6. dll' # 0 => listed' \/ \E t \in TebThread : IsDllWalk(t)'
  BY <1>1 DEF DllOK
<1> QED BY <1>3, <1>4, <1>5, <1>6 DEF DllOK

LEMMA DllStep == TebInv /\ TebNext => DllOK'
<1> SUFFICES ASSUME TebInv, TebNext PROVE DllOK'
  OBVIOUS
<1>i. TebTypes /\ PhasesOK /\ ListsOK /\ DllOK
  BY DEF TebInv
<1> USE TebAssumption
<1>0. Unloader \in TebThread /\ Unloader \notin TebWorker
  BY DEF TebThread
<1>a. ASSUME NEW t \in TebThread, Calls(t)
      PROVE  /\ at[t] \notin Walking /\ ~Moved' /\ Moves(t)
             /\ \A v \in TebThread : v # t => at'[v] = at[v] /\ job'[v] = job[v]
  <2>1. at[t] \in {"idle", "detach", "none"}
    BY <1>a, <1>i, CallerIs DEF Calls, FlsAlloc, FlsSetValue, FlsFree, TlsAlloc, TlsSetValue,
         TlsFree, LoadDll, UnloadDll, ThreadAttach
  <2> QED BY <1>a, <1>i, <2>1, CallsOwnSlots DEF Moves, Walking
<1>1. ASSUME NEW t \in TebThread, Calls(t), UNCHANGED <<dll, listed>>,
             tlsBits \subseteq tlsBits',
             at'[t] \in Walking => job'[t].kind = "fls"
      PROVE  DllOK'
  <2>1. \A v \in TebThread : NoNewWalk(v, "dll") /\ NoNewWalk(v, "tls")
    BY <1>1, <1>a DEF NoNewWalk
  <2>2. \A v \in TebThread : IsDllWalk(v) => IsDllWalk(v)'
    BY <1>1, <1>a DEF IsDllWalk
  <2> QED BY <1>1, <1>a, <1>i, <2>1, <2>2, DllKept
<1>2. ASSUME NEW t \in TebThread, NEW i \in FlsIndex,
             (\E c \in BOOLEAN : FlsAlloc(t, i, c)) \/ FlsSetValue(t, i) \/ FlsFree(t, i)
      PROVE  DllOK'
  <2>1. Calls(t) /\ UNCHANGED <<tlsBits, dll, listed>>
    BY <1>2 DEF Calls, FlsAlloc, FlsSetValue, FlsFree
  <2>2. Stands \/ Went(t, "visit", "fls", i, flsCallback[i], t)
    BY <1>2, <1>i, FlsFreeGoes DEF FlsAlloc, FlsSetValue, Stands
  <2>3. at'[t] \in Walking => job'[t].kind = "fls"
    BY <1>a, <2>1, <2>2 DEF Stands, Went
  <2> QED BY <1>1, <2>1, <2>3
<1>3. ASSUME NEW t \in TebThread, NEW i \in TlsIndex, TlsAlloc(t, i) \/ TlsSetValue(t, i)
      PROVE  DllOK'
  <2>1. Calls(t) /\ UNCHANGED <<dll, listed>> /\ tlsBits \subseteq tlsBits' /\ Stands
    BY <1>3 DEF Calls, TlsAlloc, TlsSetValue, Stands
  <2> QED BY <1>1, <1>a, <2>1 DEF Stands
<1>4. ASSUME NEW t \in TebThread, NEW i \in TlsIndex, TlsFree(t, i) PROVE DllOK'
  <2>1. Calls(t) /\ UNCHANGED <<tlsBits, dll, listed>> /\ i \in tlsBits /\ i # dll
    BY <1>4 DEF Calls, TlsFree, Owned
  <2>2. Went(t, "visit", "tls", i, 0, t)
    BY <1>4, <1>i, TlsFreeGoes
  <2>3. \A v \in TebThread : /\ IsDllWalk(v)' <=> IsDllWalk(v)
                             /\ IsDllWalk(v)' => job'[v] = job[v]
    BY <1>a, <2>1, <2>2 DEF IsDllWalk, Went
  <2>4. ASSUME NEW v \in TebThread, at'[v] \in Walking, job'[v].kind = "tls"
        PROVE  job'[v].index \in tlsBits' /\ job'[v].index # dll'
    <3>1. CASE v = t
      BY <2>1, <2>2, <3>1 DEF Went
    <3>2. CASE v # t
      BY <1>a, <1>i, <2>1, <2>4, <3>2 DEF DllOK
    <3> QED BY <3>1, <3>2
  <2>5. \A v \in TebThread : IsDllWalk(v)' => ~listed' /\ dll' # 0 /\ job'[v].index = dll'
    BY <1>i, <2>1, <2>3 DEF DllOK
  <2>6. \A v, u \in TebThread : IsDllWalk(v)' /\ IsDllWalk(u)' => v = u
    BY <1>i, <2>3 DEF DllOK
  <2>7. dll' # 0 => listed' \/ \E v \in TebThread : IsDllWalk(v)'
    BY <1>i, <2>1, <2>3 DEF DllOK
  <2> QED BY <1>a, <1>i, <2>1, <2>4, <2>5, <2>6, <2>7 DEF DllOK
<1>5. ASSUME NEW t \in TebThread, NEW i \in TlsIndex, LoadDll(t, i) PROVE DllOK'
  <2>1. Calls(t) /\ Stands /\ dll = 0 /\ i \notin tlsBits
    BY <1>5 DEF Calls, LoadDll, Stands, Lowest
  <2>2. CASE UNCHANGED <<tlsBits, dll, listed>>
    BY <1>1, <1>a, <2>1, <2>2 DEF Stands
  <2>3. CASE tlsBits' = tlsBits \cup {i} /\ dll' = i /\ listed' = TRUE
    <3>1. \A v \in TebThread : ~IsDllWalk(v)'
      BY <1>i, <2>1 DEF DllOK, IsDllWalk, Stands
    <3>2. \A v \in TebThread : at'[v] \in Walking /\ job'[v].kind = "tls" =>
            job'[v].index \in tlsBits' /\ job'[v].index # dll'
      BY <1>i, <2>1, <2>3 DEF DllOK, Stands
    <3> QED BY <1>a, <2>1, <2>3, <3>1, <3>2 DEF DllOK
  <2> QED BY <1>5, <2>2, <2>3 DEF LoadDll
<1>6. ASSUME NEW t \in TebThread, UnloadDll(t) PROVE DllOK'
  <2>1. Calls(t) /\ UNCHANGED <<tlsBits, dll>> /\ listed /\ ~listed'
    BY <1>6 DEF Calls, UnloadDll
  <2>2. Went(t, "visit", "dll", dll, 0, t)
    BY <1>6, <1>i, UnloadDllGoes
  <2>3. dll # 0 /\ \A v \in TebThread : ~IsDllWalk(v)
    BY <1>i, <2>1 DEF DllOK
  <2>4. \A v \in TebThread : IsDllWalk(v)' <=> v = t
    BY <1>a, <2>1, <2>2, <2>3 DEF IsDllWalk, Went, Walking
  <2>5. \A v \in TebThread : at'[v] \in Walking /\ job'[v].kind = "tls" =>
          job'[v].index \in tlsBits' /\ job'[v].index # dll'
    BY <1>a, <1>i, <2>1, <2>2 DEF DllOK, Went
  <2> QED BY <1>a, <1>i, <2>1, <2>2, <2>3, <2>4, <2>5 DEF DllOK, Went
<1>7. ASSUME NEW t \in TebThread, ThreadAttach(t) PROVE DllOK'
  <2>1. Calls(t) /\ UNCHANGED <<tlsBits, dll, listed>>
    BY <1>7 DEF Calls, ThreadAttach
  <2>2. at'[t] \notin Walking
    BY <1>7, <1>i, ThreadAttachGoes DEF Rests, Walking
  <2> QED BY <1>1, <2>1, <2>2
<1>8. ASSUME NEW t \in TebThread, Takes(t), ~(StepOn(t) /\ NextTeb(job[t].teb, t) = t)
      PROVE  DllOK'
  <2>1. UNCHANGED <<tlsBits, dll, listed>>
    BY <1>8 DEF Takes, Visit, StepOn, NextCrashes, ThreadDetach, ReadCallback, TakeData, ThreadEnds
  <2>2. \A v \in TebThread : NoNewWalk(v, "dll") /\ NoNewWalk(v, "tls")
    BY <1>8, <1>i, TakesNoWalk
  <2>3. ASSUME NEW v \in TebThread, IsDllWalk(v) PROVE IsDllWalk(v)'
    <3>1. CASE v # t
      <4>1. Moves(t)
        BY <1>8, <1>i, VisitGoes, StepOnGoes, NextCrashesGoes, ThreadDetachGoes,
           ReadCallbackGoes, TakeDataGoes, ThreadEndsGoes DEF Takes, Went, Rests
      <4> QED BY <2>3, <3>1, <4>1 DEF Moves, IsDllWalk
    <3>2. CASE v = t
      <4>1. Visit(t) \/ StepOn(t) \/ NextCrashes(t)
        BY <1>8, <1>i, <2>3, <3>2 DEF Takes, IsDllWalk, Walking, ThreadDetach, ReadCallback,
             TakeData, ThreadEnds
      <4>2. at'[t] \in Walking /\ job'[t].kind = job[t].kind
        BY <1>8, <1>i, <4>1, VisitGoes, StepOnGoes, NextCrashesGoes DEF Went, Walking
      <4> QED BY <2>3, <3>2, <4>2 DEF IsDllWalk
    <3> QED BY <3>1, <3>2
  <2>4. Moved' => dll = 0
    BY <1>8, <1>i, MovedSame DEF DllOK
  <2> QED BY <1>i, <2>1, <2>2, <2>3, <2>4, DllKept
<1>9. ASSUME NEW t \in TebThread, StepOn(t), NextTeb(job[t].teb, t) = t PROVE DllOK'
  <2>1. /\ tlsBits' = IF job[t].kind = "fls" THEN tlsBits ELSE tlsBits \ {job[t].index}
        /\ dll' = IF job[t].kind = "dll" THEN 0 ELSE dll
        /\ listed' = listed /\ at[t] = "next" /\ Takes(t)
    BY <1>9 DEF StepOn, Takes
  <2>2. Rests(t, IF ending THEN "detach" ELSE "idle")
    BY <1>9, <1>i, StepOnGoes
  <2>3. at'[t] \notin Walking
    BY <2>2 DEF Rests, Walking
  <2>4. Moved' => dll = 0
    BY <1>i, <2>1, MovedSame DEF DllOK
  <2>5. \A v \in TebThread : IsDllWalk(v)' <=> IsDllWalk(v) /\ v # t
    BY <2>2, <2>3 DEF Rests, Moves, IsDllWalk
  <2>6. CASE job[t].kind = "dll"
    <3>1. /\ IsDllWalk(t) /\ ~listed /\ job[t].index = dll
          /\ \A v \in TebThread : ~IsDllWalk(v)'
      BY <1>i, <2>1, <2>5, <2>6 DEF IsDllWalk, DllOK, Walking
    <3>2. ASSUME NEW v \in TebThread, at'[v] \in Walking, job'[v].kind = "tls"
          PROVE  job'[v].index \in tlsBits' /\ job'[v].index # dll'
      <4>1. at[v] \in Walking /\ job[v].kind = "tls" /\ job'[v] = job[v]
        BY <2>2, <2>3, <3>2 DEF Rests, Moves
      <4>2. job[v].index \in tlsBits /\ job[v].index # dll /\ job[v].index # 0
        BY <1>i, <4>1 DEF DllOK, PhasesOK, PhaseOf
      <4> QED BY <2>1, <2>6, <3>1, <4>1, <4>2
    <3> QED BY <2>1, <2>6, <3>1, <3>2 DEF DllOK
  <2>7. CASE job[t].kind # "dll"
    <3>1. \A v \in TebThread : IsDllWalk(v)' <=> IsDllWalk(v)
      BY <2>5, <2>7 DEF IsDllWalk
    <3>2. \A v \in TebThread : IsDllWalk(v)' => job'[v] = job[v]
      BY <2>2, <2>5 DEF Rests, Moves
    <3>3. ASSUME NEW v \in TebThread, at'[v] \in Walking, job'[v].kind = "tls"
          PROVE  FALSE
      <4>1. at[v] \in Walking /\ job[v].kind = "tls" /\ v # t
        BY <2>2, <2>3, <3>3 DEF Rests, Moves
      <4>2. pebLock = v /\ pebLock = t
        BY <1>i, <2>1, <2>7, <4>1 DEF PhasesOK, PhaseOf, Walking
      <4> QED BY <4>1, <4>2
    <3>4. dll' # 0 => dll' \in tlsBits'
      BY <1>i, <2>1, <2>7 DEF DllOK, PhasesOK, PhaseOf, Walking
    <3>5. \A v \in TebThread : IsDllWalk(v)' => ~listed' /\ dll' # 0 /\ job'[v].index = dll'
      BY <1>i, <2>1, <2>7, <3>1, <3>2 DEF DllOK
    <3>6. \A v, u \in TebThread : IsDllWalk(v)' /\ IsDllWalk(u)' => v = u
      BY <1>i, <3>1 DEF DllOK
    <3>7. dll' # 0 => listed' \/ \E v \in TebThread : IsDllWalk(v)'
      BY <1>i, <2>1, <2>7, <3>1 DEF DllOK
    <3>8. listed' => dll' # 0
      BY <1>i, <2>1, <2>7 DEF DllOK
    <3> QED BY <2>1, <2>4, <2>7, <3>3, <3>4, <3>5, <3>6, <3>7, <3>8 DEF DllOK
  <2> QED BY <2>6, <2>7
<1>10. CASE Terminates
  <2>1. /\ UNCHANGED <<tlsBits, dll, listed>>
        /\ \A v \in TebThread : NoNewWalk(v, "dll") /\ NoNewWalk(v, "tls")
        /\ \A v \in TebThread : v # Unloader => at[v] = Resting(v)
    BY <1>10, <1>i, TerminateFrame
  <2>2. \A v \in TebThread : ~IsDllWalk(v)
    <3>1. at[Unloader] \notin Walking
      BY <1>0, <1>10 DEF Terminates, BeginTerminate, MoveList, TeardownNext, DeleteTeb,
           DeleteTemporary, Walking
    <3> QED BY <2>1, <3>1 DEF IsDllWalk, Resting, Walking
  <2>3. Moved' => dll = 0
    <3>1. CASE BeginTerminate
      BY <1>i, <3>1, BeginTerminateGoes DEF Moved, Rests, Leaving
    <3>2. CASE MoveList
      BY <1>i, <2>2, <3>2 DEF MoveList, DllOK
    <3>3. CASE TeardownNext \/ DeleteTeb \/ DeleteTemporary
      <4>1. Moved
        BY <1>0, <1>i, <3>3 DEF TeardownNext, DeleteTeb, DeleteTemporary, Moved, Leaving,
             PhasesOK, PhaseOf
      <4> QED BY <1>i, <4>1 DEF DllOK
    <3> QED BY <1>10, <3>1, <3>2, <3>3 DEF Terminates
  <2> QED BY <1>i, <2>1, <2>2, <2>3, DllKept
<1> QED BY <1>2, <1>3, <1>4, <1>5, <1>6, <1>7, <1>8, <1>9, <1>10, TebSteps DEF Calls, Terminates

(* The slots that hold a static TLS block, as steps change them.           *)
Held == {s \in TebThread \X TlsIndex : tlsSlot[s[1]][s[2]] = "block"}

LEMMA HeldIs == StaticTlsExact <=> blocks = Cardinality(Held) /\ \A s \in Held : s[2] = dll
BY DEF StaticTlsExact, Held

LEMMA HeldFinite == IsFiniteSet(Held) /\ Cardinality(Held) \in Nat
<1>1. IsFiniteSet(TebWorker) /\ IsFiniteSet(TebDriver)
  BY TebAssumption
<1>2. IsFiniteSet({Unloader})
  BY FS_Singleton
<1>3. IsFiniteSet(TebThread)
  BY <1>1, <1>2, FS_Union DEF TebThread
<1>4. IsFiniteSet(TlsIndex)
  BY TebAssumption, FS_Interval
<1>5. IsFiniteSet(TebThread \X TlsIndex)
  BY <1>3, <1>4, FS_Product
<1>6. Held \subseteq TebThread \X TlsIndex
  BY DEF Held
<1> QED BY <1>5, <1>6, FS_Subset, FS_CardinalityType

LEMMA HeldSame ==
  ASSUME StaticTlsExact, blocks' = blocks, dll' = dll,
         \A u \in TebThread, i \in TlsIndex :
           tlsSlot'[u][i] = "block" <=> tlsSlot[u][i] = "block"
  PROVE  StaticTlsExact'
<1>1. Held' = Held
  BY DEF Held
<1>2. (blocks = Cardinality(Held) /\ \A s \in Held : s[2] = dll)'
  BY <1>1, HeldIs
<1> QED BY <1>2 DEF StaticTlsExact, Held

LEMMA HeldMore ==
  ASSUME StaticTlsExact, NEW u \in TebThread, NEW i \in TlsIndex, dll' = i,
         Held = {} \/ dll' = dll, blocks' = blocks + 1,
         tlsSlot[u][i] # "block", tlsSlot'[u][i] = "block",
         \A v \in TebThread, j \in TlsIndex :
           v # u \/ j # i => tlsSlot'[v][j] = tlsSlot[v][j]
  PROVE  StaticTlsExact'
<1>1. Held' = Held \cup {<<u, i>>}
  <2>1. ASSUME NEW s \in TebThread \X TlsIndex
        PROVE  s \in Held' <=> s \in Held \/ s = <<u, i>>
    <3>1. PICK v \in TebThread, j \in TlsIndex : s = <<v, j>>
      OBVIOUS
    <3>2. (s \in Held <=> tlsSlot[v][j] = "block") /\ (s \in Held' <=> tlsSlot'[v][j] = "block")
      BY <3>1 DEF Held
    <3> QED BY <3>1, <3>2
  <2>2. Held \subseteq TebThread \X TlsIndex /\ Held' \subseteq TebThread \X TlsIndex
    BY DEF Held
  <2> QED BY <2>1, <2>2
<1>2. <<u, i>> \notin Held
  BY DEF Held
<1>3. Cardinality(Held') = Cardinality(Held) + 1
  BY <1>1, <1>2, HeldFinite, FS_AddElement
<1>4. \A s \in Held' : s[2] = dll'
  BY <1>1, HeldIs
<1>5. blocks' = Cardinality(Held')
  BY <1>3, HeldIs
<1> QED BY <1>4, <1>5 DEF StaticTlsExact, Held

LEMMA HeldLess ==
  ASSUME StaticTlsExact, NEW u \in TebThread, NEW i \in TlsIndex, dll' = dll,
         blocks' = blocks - 1,
         tlsSlot[u][i] = "block", tlsSlot'[u][i] # "block",
         \A v \in TebThread, j \in TlsIndex :
           v # u \/ j # i => tlsSlot'[v][j] = tlsSlot[v][j]
  PROVE  StaticTlsExact'
<1>1. Held' = Held \ {<<u, i>>}
  <2>1. ASSUME NEW s \in TebThread \X TlsIndex
        PROVE  s \in Held' <=> s \in Held /\ s # <<u, i>>
    <3>1. PICK v \in TebThread, j \in TlsIndex : s = <<v, j>>
      OBVIOUS
    <3>2. (s \in Held <=> tlsSlot[v][j] = "block") /\ (s \in Held' <=> tlsSlot'[v][j] = "block")
      BY <3>1 DEF Held
    <3> QED BY <3>1, <3>2
  <2>2. Held \subseteq TebThread \X TlsIndex /\ Held' \subseteq TebThread \X TlsIndex
    BY DEF Held
  <2> QED BY <2>1, <2>2
<1>2. <<u, i>> \in Held
  BY DEF Held
<1>3. Cardinality(Held') = Cardinality(Held) - 1
  BY <1>1, <1>2, HeldFinite, FS_RemoveElement
<1>4. \A s \in Held' : s[2] = dll'
  BY <1>1, HeldIs
<1>5. blocks' = Cardinality(Held')
  BY <1>3, HeldIs
<1> QED BY <1>4, <1>5 DEF StaticTlsExact, Held

LEMMA HeldNone ==
  ASSUME StaticTlsExact, blocks' = blocks,
         \A u \in TebThread, i \in TlsIndex : tlsSlot[u][i] # "block" /\ tlsSlot'[u][i] # "block"
  PROVE  StaticTlsExact'
<1>1. Held = {} /\ Held' = {}
  BY DEF Held
<1>2. blocks' = Cardinality(Held')
  BY <1>1, HeldIs
<1> QED BY <1>1, <1>2 DEF StaticTlsExact, Held

(* One step keeps the count of the static TLS blocks.                      *)
LEMMA StaticStep == TebInv /\ TebNext => StaticTlsExact'
<1> SUFFICES ASSUME TebInv, TebNext PROVE StaticTlsExact'
  OBVIOUS
<1>i. TebTypes /\ PhasesOK /\ ListsOK /\ DllOK /\ StaticTlsExact
  BY DEF TebInv
<1>a. ASSUME UNCHANGED <<tlsSlot, blocks, dll>> PROVE StaticTlsExact'
  BY <1>a, <1>i, HeldSame
<1>b. ASSUME NEW u \in TebThread, NEW i \in TlsIndex, i # dll, NEW d \in {"null", "data"},
             tlsSlot' = [tlsSlot EXCEPT ![u][i] = d], UNCHANGED <<blocks, dll>>
      PROVE  StaticTlsExact'
  <2>1. tlsSlot[u][i] # "block"
    BY <1>b, <1>i, NoBlocks
  <2>2. /\ tlsSlot'[u][i] = d
        /\ \A v \in TebThread, j \in TlsIndex :
             v # u \/ j # i => tlsSlot'[v][j] = tlsSlot[v][j]
    BY <1>b, <1>i, TlsPut
  <2> QED BY <1>b, <1>i, <2>1, <2>2, HeldSame
<1>c. ASSUME dll = 0, NEW u \in TebThread, NEW i \in TlsIndex PROVE tlsSlot[u][i] # "block"
  BY <1>c, <1>i, NoBlocks
<1>1. ASSUME NEW t \in TebThread, NEW i \in FlsIndex,
             (\E c \in BOOLEAN : FlsAlloc(t, i, c)) \/ FlsSetValue(t, i) \/ FlsFree(t, i)
      PROVE  StaticTlsExact'
  BY <1>1, <1>a DEF FlsAlloc, FlsSetValue, FlsFree
<1>2. ASSUME NEW t \in TebThread, NEW i \in TlsIndex, TlsAlloc(t, i) PROVE StaticTlsExact'
  <2>1. /\ i \notin tlsBits /\ tlsSlot' = [tlsSlot EXCEPT ![t][i] = "null"]
        /\ UNCHANGED <<blocks, dll>>
    BY <1>2 DEF TlsAlloc, Lowest
  <2>2. i # dll
    BY <1>i, <2>1 DEF DllOK
  <2> QED BY <1>b, <2>1, <2>2
<1>3. ASSUME NEW t \in TebThread, NEW i \in TlsIndex, TlsSetValue(t, i) PROVE StaticTlsExact'
  BY <1>3, <1>b DEF TlsSetValue, Owned
<1>4. ASSUME NEW t \in TebThread, NEW i \in TlsIndex, TlsFree(t, i) PROVE StaticTlsExact'
  BY <1>4, <1>a DEF TlsFree
<1>5. ASSUME NEW t \in TebThread, NEW i \in TlsIndex, LoadDll(t, i) PROVE StaticTlsExact'
  <2>0. dll = 0
    BY <1>5 DEF LoadDll
  <2>1. CASE UNCHANGED <<tlsSlot, blocks, dll>>
    BY <1>a, <2>1
  <2>2. CASE StaticTlsForTeb(t, i) /\ dll' = i
    <3>1. Held = {}
      BY <1>c, <2>0 DEF Held
    <3>2. CASE tlsSlot' = tlsSlot /\ blocks' = blocks
      BY <1>c, <1>i, <2>0, <3>2, HeldNone
    <3>3. CASE tlsSlot[t][i] = "null" /\ tlsSlot'[t][i] = "block" /\ blocks' = blocks + 1
      BY <1>i, <2>2, <3>1, <3>3, HeldMore, StaticPut
    <3> QED BY <1>i, <2>2, <3>2, <3>3, StaticPut
  <2> QED BY <1>5, <2>1, <2>2 DEF LoadDll
<1>6. ASSUME NEW t \in TebThread, UnloadDll(t) PROVE StaticTlsExact'
  BY <1>6, <1>a DEF UnloadDll
<1>7. ASSUME NEW t \in TebThread, ThreadAttach(t) PROVE StaticTlsExact'
  <2>1. dll' = dll
    BY <1>7 DEF ThreadAttach
  <2>2. CASE UNCHANGED <<tlsSlot, blocks>>
    BY <1>a, <2>1, <2>2
  <2>3. CASE listed /\ StaticTlsForTeb(t, dll)
    <3>1. dll \in TlsIndex
      BY <1>i, <2>3 DEF DllOK, TebTypes
    <3>2. CASE tlsSlot' = tlsSlot /\ blocks' = blocks
      BY <1>a, <2>1, <3>2
    <3>3. CASE tlsSlot[t][dll] = "null" /\ tlsSlot'[t][dll] = "block" /\ blocks' = blocks + 1
      <4>1. \A v \in TebThread, j \in TlsIndex :
              v # t \/ j # dll => tlsSlot'[v][j] = tlsSlot[v][j]
        BY <1>i, <2>3, <3>1, StaticPut
      <4> QED BY <1>i, <2>1, <3>1, <3>3, <4>1, HeldMore
    <3> QED BY <1>i, <2>3, <3>1, <3>2, <3>3, StaticPut
  <2> QED BY <1>7, <2>2, <2>3 DEF ThreadAttach
<1>8. ASSUME NEW t \in TebThread, Visit(t) PROVE StaticTlsExact'
  <2>1. /\ dll' = dll /\ at[t] \in Walking /\ job[t].teb \in TebThread
        /\ job[t].kind # "fls" => job[t].index \in TlsIndex
    BY <1>8, <1>i DEF Visit, Walking, PhasesOK, PhaseOf
  <2>2. CASE job[t].kind = "fls"
    BY <1>8, <1>a, <2>1, <2>2 DEF Visit
  <2>3. CASE job[t].kind = "tls"
    <3>1. job[t].index # dll
      BY <1>i, <2>1, <2>3 DEF DllOK
    <3>2. /\ tlsSlot' = [tlsSlot EXCEPT ![job[t].teb][job[t].index] = "null"]
          /\ blocks' = blocks
      BY <1>8, <2>3 DEF Visit
    <3> QED BY <1>b, <2>1, <2>3, <3>1, <3>2
  <2>4. CASE job[t].kind = "dll"
    <3>1. /\ tlsSlot' = [tlsSlot EXCEPT ![job[t].teb][job[t].index] = "null"]
          /\ blocks' = IF tlsSlot[job[t].teb][job[t].index] = "block"
                       THEN blocks - 1 ELSE blocks
      BY <1>8, <2>4 DEF Visit, FreesBlock
    <3>2. /\ tlsSlot'[job[t].teb][job[t].index] = "null"
          /\ \A v \in TebThread, j \in TlsIndex :
               v # job[t].teb \/ j # job[t].index => tlsSlot'[v][j] = tlsSlot[v][j]
      BY <1>i, <2>1, <2>4, <3>1, TlsPut
    <3>3. CASE tlsSlot[job[t].teb][job[t].index] = "block"
      BY <1>i, <2>1, <2>4, <3>1, <3>2, <3>3, HeldLess
    <3>4. CASE tlsSlot[job[t].teb][job[t].index] # "block"
      BY <1>i, <2>1, <2>4, <3>1, <3>2, <3>4, HeldSame
    <3> QED BY <3>3, <3>4
  <2> QED BY <1>8, <2>2, <2>3, <2>4 DEF Visit
<1>9. ASSUME NEW t \in TebThread, StepOn(t) PROVE StaticTlsExact'
  <2>1. UNCHANGED <<tlsSlot, blocks>> /\ at[t] = "next"
    BY <1>9 DEF StepOn
  <2>2. CASE dll' = dll
    BY <1>a, <2>1, <2>2
  <2>3. CASE dll' # dll
    <3>1. job[t].kind = "dll" /\ NextTeb(job[t].teb, t) = t
      BY <1>9, <2>3 DEF StepOn
    <3>2. job[t].index = dll
      BY <1>i, <2>1, <3>1 DEF DllOK, IsDllWalk, Walking
    <3>3. ASSUME NEW u \in TebThread, NEW i \in TlsIndex PROVE tlsSlot[u][i] # "block"
      <4>1. tlsSlot[u][dll] # "block"
        BY <1>9, <3>1, <3>2, WalkRound
      <4> QED BY <1>i, <4>1, NoBlocks
    <3> QED BY <1>i, <2>1, <3>3, HeldNone
  <2> QED BY <2>2, <2>3
<1>10. ASSUME NEW t \in TebThread, ThreadDetach(t) PROVE StaticTlsExact'
  <2>1. dll' = dll
    BY <1>10 DEF ThreadDetach
  <2>2. CASE UNCHANGED <<tlsSlot, blocks>>
    BY <1>a, <2>1, <2>2
  <2>3. CASE /\ dll \in TlsIndex /\ tlsSlot[t][dll] = "block"
             /\ tlsSlot' = [tlsSlot EXCEPT ![t][dll] = "null"] /\ blocks' = blocks - 1
    <3>1. /\ tlsSlot'[t][dll] = "null"
          /\ \A v \in TebThread, j \in TlsIndex :
               v # t \/ j # dll => tlsSlot'[v][j] = tlsSlot[v][j]
      BY <1>i, <2>3, TlsPut
    <3> QED BY <1>i, <2>1, <2>3, <3>1, HeldLess
  <2> QED BY <1>10, <1>i, <2>2, <2>3, StaticTaken
<1>11. ASSUME NEW t \in TebThread, NextCrashes(t) \/ ReadCallback(t) \/ TakeData(t) \/ ThreadEnds(t)
       PROVE  StaticTlsExact'
  BY <1>11, <1>a DEF NextCrashes, ReadCallback, TakeData, ThreadEnds
<1>12. CASE BeginTerminate \/ MoveList \/ TeardownNext
  BY <1>12, <1>a DEF BeginTerminate, MoveList, TeardownNext
<1>13. CASE DeleteTeb \/ DeleteTemporary
  <2>1. UNCHANGED <<blocks, dll>> /\ \A v \in TebThread : TlsFalls(v)
    BY <1>13, <1>i, TerminateFrame DEF Terminates
  <2>2. Moved
    <3>1. Unloader \in TebThread
      BY DEF TebThread
    <3> QED BY <1>13, <1>i, <3>1 DEF DeleteTeb, DeleteTemporary, Moved, Leaving, PhasesOK, PhaseOf
  <2>3. dll = 0
    BY <1>i, <2>2 DEF DllOK
  <2>4. \A u \in TebThread, i \in TlsIndex : tlsSlot[u][i] # "block" /\ tlsSlot'[u][i] # "block"
    BY <1>c, <2>1, <2>3 DEF TlsFalls
  <2> QED BY <1>i, <2>1, <2>4, HeldNone
<1> QED
  BY <1>1, <1>2, <1>3, <1>4, <1>5, <1>6, <1>7, <1>8, <1>9, <1>10, <1>11, <1>12, <1>13
     DEF TebNext

(* A walk that goes on when a TEB is put at the head of the list.          *)
LEMMA LeftGrown ==
  ASSUME TebTypes, NEW t \in TebThread, NEW v \in TebThread, NEW u, Left(v, u),
         tebs' = tebs \/ tebs' = <<t>> \o tebs, at'[v] = at[v], job'[v] = job[v]
  PROVE  Left(v, u)'
<1>1. CASE tebs' = tebs
  BY <1>1 DEF Left
<1>2. CASE tebs' = <<t>> \o tebs
  <2>1. PICK p \in DOMAIN tebs, q \in DOMAIN tebs, r \in DOMAIN tebs :
          /\ tebs[p] = v /\ tebs[q] = job[v].teb /\ tebs[r] = u
          /\ \/ r = q /\ at[v] = "visit"
             \/ p <= q /\ (q < r \/ r < p)
             \/ q < p /\ q < r /\ r < p
    BY DEF Left
  <2>2. /\ DOMAIN tebs = 1 .. Len(tebs) /\ Len(tebs) \in Nat
        /\ DOMAIN tebs' = 1 .. (Len(tebs) + 1)
        /\ \A k \in 1 .. Len(tebs) : tebs'[k + 1] = tebs[k]
    BY <1>2 DEF TebTypes
  <2>3. /\ p + 1 \in DOMAIN tebs' /\ q + 1 \in DOMAIN tebs' /\ r + 1 \in DOMAIN tebs'
        /\ p \in Nat /\ q \in Nat /\ r \in Nat
    BY <2>2
  <2>4. tebs'[p + 1] = v /\ tebs'[q + 1] = job'[v].teb /\ tebs'[r + 1] = u
    BY <2>1, <2>2
  <2>5. \/ r + 1 = q + 1 /\ at'[v] = "visit"
        \/ p + 1 <= q + 1 /\ (q + 1 < r + 1 \/ r + 1 < p + 1)
        \/ q + 1 < p + 1 /\ q + 1 < r + 1 /\ r + 1 < p + 1
    BY <2>1, <2>3
  <2> HIDE <2>1
  <2>6. \E a, b, c \in DOMAIN tebs' :
          /\ tebs'[a] = v /\ tebs'[b] = job'[v].teb /\ tebs'[c] = u
          /\ \/ c = b /\ at'[v] = "visit"
             \/ a <= b /\ (b < c \/ c < a)
             \/ b < a /\ b < c /\ c < a
    BY <2>3, <2>4, <2>5
  <2> QED BY <2>6 DEF Left
<1> QED BY <1>1, <1>2

LEMMA WalkKept ==
  ASSUME TebTypes, ListsOK, NEW t \in TebThread, NEW v \in TebThread, Grown(t), WalkOf(v),
         at'[v] = at[v], job'[v] = job[v],
         ASSUME at[v] \in {"visit", "next"}, job[v].kind = "fls", NEW u \in TebThread,
                flsSlot'[u][job[v].index] # 0
         PROVE  flsSlot[u][job[v].index] # 0,
         ASSUME at[v] \in {"visit", "next"}, job[v].kind = "dll", NEW u \in TebThread,
                tlsSlot'[u][job[v].index] = "block"
         PROVE  tlsSlot[u][job[v].index] = "block"
  PROVE  WalkOf(v)'
<1> SUFFICES ASSUME at[v] \in {"visit", "next"}
             PROVE  /\ v \notin Linked' => job[v].teb = v
                    /\ v \in Linked' =>
                         /\ job[v].teb \in Linked'
                         /\ job[v].kind = "fls" =>
                              \A u \in TebThread :
                                flsSlot'[u][job[v].index] # 0 => Left(v, u)'
                         /\ job[v].kind = "dll" =>
                              \A u \in TebThread :
                                tlsSlot'[u][job[v].index] = "block" => Left(v, u)'
  BY DEF WalkOf
<1>1. Linked \subseteq Linked' /\ (tebs' = tebs \/ tebs' = <<t>> \o tebs)
  BY DEF Grown
<1>2. v \in Linked' => v \in Linked
  <2>1. v \in Linked \cup temporary
    BY DEF ListsOK, Walking
  <2>2. CASE tebs' = tebs
    BY <2>2, LinkedSame
  <2>3. CASE tebs' # tebs
    BY <2>1, <2>3 DEF Grown
  <2> QED BY <2>2, <2>3
<1>3. \A u \in TebThread : Left(v, u) => Left(v, u)'
  BY <1>1, LeftGrown
<1> QED BY <1>1, <1>2, <1>3 DEF WalkOf

(* A walk begins at the TEB of its thread and has all of them before it.   *)
LEMMA WalkBegins ==
  ASSUME ListsOK', EmptyOK', ~Moved', NEW t \in TebThread, ending' => t = Unloader,
         at'[t] = "visit", job'[t].teb = t, TebTypes',
         job'[t].kind = "fls" => job'[t].index \in FlsIndex,
         job'[t].kind = "dll" => job'[t].index \in TlsIndex
  PROVE  WalkOf(t)'
<1>1. ASSUME t \in Linked', NEW u \in TebThread, u \in Linked' \cup temporary'
      PROVE  Left(t, u)'
  <2>1. u \in Linked'
    BY <1>1 DEF ListsOK, TebTypes
  <2>2. PICK p \in DOMAIN tebs' : tebs'[p] = t
    BY <1>1 DEF Linked
  <2>3. PICK r \in DOMAIN tebs' : tebs'[r] = u
    BY <2>1 DEF Linked
  <2>4. p \in Int /\ r \in Int
    BY DEF TebTypes
  <2>5. r = p \/ p < r \/ r < p
    BY <2>4
  <2>6. p <= p
    BY <2>4
  <2> QED BY <2>2, <2>3, <2>5, <2>6 DEF Left
<1>2. ASSUME NEW u \in TebThread, u \notin Linked' \cup temporary'
      PROVE  /\ \A i \in FlsIndex : flsSlot'[u][i] = 0
             /\ \A i \in TlsIndex : tlsSlot'[u][i] # "block"
  BY <1>2 DEF EmptyOK
<1>3. t \in Linked' => \A u \in TebThread :
        /\ job'[t].kind = "fls" /\ flsSlot'[u][job'[t].index] # 0 => Left(t, u)'
        /\ job'[t].kind = "dll" /\ tlsSlot'[u][job'[t].index] = "block" => Left(t, u)'
  BY <1>1, <1>2
<1> QED BY <1>3 DEF WalkOf

(* The walk goes on.                                                       *)
LEMMA LeftVisited ==
  ASSUME NEW t \in TebThread, NEW u, Left(t, u), u # job[t].teb, tebs' = tebs,
         job'[t].teb = job[t].teb
  PROVE  Left(t, u)'
BY DEF Left

LEMMA LeftStepped ==
  ASSUME TebTypes, ListsOK, NEW t \in TebThread, NEW u, at[t] = "next", Left(t, u),
         job[t].teb \in Linked, tebs' = tebs, at'[t] = "visit",
         job'[t].teb = NextTeb(job[t].teb, t), NextTeb(job[t].teb, t) # t
  PROVE  Left(t, u)'
<1>1. PICK p \in DOMAIN tebs, q \in DOMAIN tebs, r \in DOMAIN tebs :
        /\ tebs[p] = t /\ tebs[q] = job[t].teb /\ tebs[r] = u
        /\ \/ p <= q /\ (q < r \/ r < p)
           \/ q < p /\ q < r /\ r < p
  BY DEF Left
<1>2. PICK n \in DOMAIN tebs :
        /\ tebs[n] = job[t].teb
        /\ n = Len(tebs) => NextTeb(job[t].teb, t) = tebs[1]
        /\ n # Len(tebs) => NextTeb(job[t].teb, t) = tebs[n + 1]
  BY NextIs
<1>3. n = q
  BY <1>1, <1>2 DEF ListsOK
<1>4. DOMAIN tebs = 1 .. Len(tebs) /\ Len(tebs) \in Nat
  BY DEF TebTypes
<1>5. p \in 1 .. Len(tebs) /\ q \in 1 .. Len(tebs) /\ r \in 1 .. Len(tebs)
  BY <1>4
<1>6. ASSUME NEW m \in 1 .. Len(tebs), tebs[m] = NextTeb(job[t].teb, t),
             m = IF q = Len(tebs) THEN 1 ELSE q + 1
      PROVE  Left(t, u)'
  <2>1. m # p
    BY <1>1, <1>6
  <2>2. \/ r = m
        \/ p <= m /\ (m < r \/ r < p)
        \/ m < p /\ m < r /\ r < p
    <3>1. CASE q = Len(tebs)
      BY <1>1, <1>4, <1>5, <1>6, <2>1, <3>1
    <3>2. CASE q # Len(tebs)
      BY <1>1, <1>4, <1>5, <1>6, <2>1, <3>2
    <3> QED BY <3>1, <3>2
  <2>3. tebs'[p] = t /\ tebs'[m] = job'[t].teb /\ tebs'[r] = u
    BY <1>1, <1>6
  <2>4. p \in DOMAIN tebs' /\ m \in DOMAIN tebs' /\ r \in DOMAIN tebs'
    BY <1>4, <1>5
  <2> QED BY <2>2, <2>3, <2>4 DEF Left
<1>7. CASE q = Len(tebs)
  <2>1. 1 \in 1 .. Len(tebs)
    BY <1>4, <1>5
  <2> QED BY <1>2, <1>3, <1>6, <1>7, <2>1
<1>8. CASE q # Len(tebs)
  <2>1. q + 1 \in 1 .. Len(tebs)
    BY <1>4, <1>5, <1>8
  <2> QED BY <1>2, <1>3, <1>6, <1>8, <2>1
<1> QED BY <1>7, <1>8

(* A thread that enters LDK stores nothing where a walk is taking away.    *)
LEMMA CallsSpareWalks ==
  ASSUME TebInv, NEW t \in TebThread, Calls(t), NEW v \in TebThread,
         at[v] \in {"visit", "next"}, NEW u \in TebThread
  PROVE  /\ job[v].kind = "fls" /\ flsSlot'[u][job[v].index] # 0 =>
              flsSlot[u][job[v].index] # 0
         /\ job[v].kind = "dll" /\ tlsSlot'[u][job[v].index] = "block" =>
              tlsSlot[u][job[v].index] = "block"
<1>i. TebTypes /\ PhasesOK /\ DllOK
  BY DEF TebInv
<1>1. /\ job[v].kind = "fls" => job[v].index \in FlsIndex
      /\ job[v].kind = "dll" => job[v].index \in TlsIndex /\ ~listed /\ dll # 0
      /\ u # t => FlsFalls(u) /\ TlsFalls(u)
  BY <1>i, CallsOwnSlots DEF PhasesOK, PhaseOf, DllOK, IsDllWalk, Walking
<1>2. ASSUME job[v].kind = "fls", flsSlot'[u][job[v].index] # 0
      PROVE  flsSlot[u][job[v].index] # 0
  <2>1. CASE u # t
    BY <1>1, <1>2, <2>1 DEF FlsFalls
  <2>2. CASE \E i \in FlsIndex : FlsSetValue(t, i)
    <3>1. PICK i \in FlsIndex : FlsSetValue(t, i)
      BY <2>2
    <3>2. i # job[v].index /\ flsSlot' = [flsSlot EXCEPT ![t][i] = flsOwner[i]]
      BY <1>2, <3>1 DEF FlsSetValue, Freeing
    <3>3. flsOwner[i] \in Nat
      BY <1>i DEF TebTypes
    <3> QED BY <1>1, <1>2, <1>i, <3>2, <3>3, FlsPut
  <2>3. CASE \E i \in FlsIndex, c \in BOOLEAN : FlsAlloc(t, i, c)
    <3>1. PICK i \in FlsIndex, c \in BOOLEAN : FlsAlloc(t, i, c)
      BY <2>3
    <3>2. flsSlot' = [flsSlot EXCEPT ![t][i] = 0]
      BY <3>1 DEF FlsAlloc
    <3> QED BY <1>1, <1>2, <1>i, <3>2, FlsPut
  <2>4. CASE flsSlot' = flsSlot
    BY <1>2, <2>4
  <2> QED BY <2>2, <2>3, <2>4 DEF Calls, FlsFree, TlsAlloc, TlsSetValue, TlsFree, LoadDll,
            UnloadDll, ThreadAttach
<1>3. ASSUME job[v].kind = "dll", tlsSlot'[u][job[v].index] = "block"
      PROVE  tlsSlot[u][job[v].index] = "block"
  <2>1. CASE tlsSlot' = tlsSlot
    BY <1>3, <2>1
  <2>2. ASSUME NEW i \in TlsIndex, TlsAlloc(t, i) \/ TlsSetValue(t, i)
        PROVE  tlsSlot[u][job[v].index] = "block"
    <3>1. \E d \in {"null", "data"} : tlsSlot' = [tlsSlot EXCEPT ![t][i] = d]
      BY <2>2 DEF TlsAlloc, TlsSetValue
    <3> QED BY <1>1, <1>3, <1>i, <3>1, TlsPut
  <2>3. (\E i \in TlsIndex : TlsAlloc(t, i) \/ TlsSetValue(t, i)) \/ tlsSlot' = tlsSlot
    BY <1>1, <1>3 DEF Calls, FlsAlloc, FlsSetValue, FlsFree, TlsFree, LoadDll, UnloadDll,
         ThreadAttach
  <2> QED BY <2>1, <2>2, <2>3
<1> QED BY <1>2, <1>3

(* One step keeps every walk before what it is to take away.               *)
LEMMA WalksStep == TebInv /\ TebNext => WalksOK'
<1> SUFFICES ASSUME TebInv, TebNext, NEW v \in TebThread PROVE WalkOf(v)'
  BY DEF WalksOK
<1>i. TebTypes /\ PhasesOK /\ ListsOK /\ DllOK /\ WalkOf(v)
  BY DEF TebInv, WalksOK
<1>p. TebTypes' /\ PhasesOK' /\ ListsOK' /\ EmptyOK'
  BY TypesStep, PhasesStep, ListsStep, EmptyStep
<1>1. ASSUME NEW t \in TebThread, Calls(t) PROVE WalkOf(v)'
  <2>0. /\ Grown(t) /\ Moves(t) /\ ~Moved' /\ ending' = ending
        /\ ending => t = Unloader
    BY <1>1, <1>i, CallsOwnSlots, Grows
  <2>1. CASE v # t
    <3>1. at'[v] = at[v] /\ job'[v] = job[v]
      BY <2>0, <2>1 DEF Moves
    <3>2. ASSUME at[v] \in {"visit", "next"}, job[v].kind = "fls", NEW u \in TebThread,
                 flsSlot'[u][job[v].index] # 0
          PROVE  flsSlot[u][job[v].index] # 0
      BY <1>1, <3>2, CallsSpareWalks
    <3>3. ASSUME at[v] \in {"visit", "next"}, job[v].kind = "dll", NEW u \in TebThread,
                 tlsSlot'[u][job[v].index] = "block"
          PROVE  tlsSlot[u][job[v].index] = "block"
      BY <1>1, <3>3, CallsSpareWalks
    <3> QED BY <1>i, <2>0, <3>1, <3>2, <3>3, WalkKept
  <2>2. CASE v = t /\ at'[t] \notin {"visit", "next"}
    BY <2>2 DEF WalkOf
  <2>3. CASE v = t /\ at'[t] \in {"visit", "next"}
    <3>1. at'[t] = "visit" /\ job'[t].teb = t
      <4>1. at[t] \in {"idle", "detach", "none"}
        BY <1>1, <1>i, CallerIs DEF Calls, FlsAlloc, FlsSetValue, FlsFree, TlsAlloc,
             TlsSetValue, TlsFree, LoadDll, UnloadDll, ThreadAttach
      <4>2. ~Stands
        BY <2>3, <4>1 DEF Stands
      <4>3. /\ \A i \in FlsIndex, c \in BOOLEAN : ~FlsAlloc(t, i, c)
            /\ \A i \in FlsIndex : ~FlsSetValue(t, i)
            /\ \A i \in TlsIndex : ~TlsAlloc(t, i) /\ ~TlsSetValue(t, i) /\ ~LoadDll(t, i)
        BY <4>2 DEF FlsAlloc, FlsSetValue, TlsAlloc, TlsSetValue, LoadDll, Stands
      <4>4. ~ThreadAttach(t)
        BY <1>i, <2>3, ThreadAttachGoes DEF Rests
      <4>5. CASE \E i \in FlsIndex : FlsFree(t, i)
        BY <1>i, <4>2, <4>5, FlsFreeGoes DEF Went
      <4>6. CASE \E i \in TlsIndex : TlsFree(t, i)
        BY <1>i, <4>6, TlsFreeGoes DEF Went
      <4>7. CASE UnloadDll(t)
        BY <1>i, <4>7, UnloadDllGoes DEF Went
      <4> QED BY <1>1, <4>3, <4>4, <4>5, <4>6, <4>7 DEF Calls
    <3>2. /\ job'[t].kind = "fls" => job'[t].index \in FlsIndex
          /\ job'[t].kind = "dll" => job'[t].index \in TlsIndex
      BY <1>p, <3>1 DEF PhasesOK, PhaseOf, Walking
    <3> QED BY <1>p, <2>0, <2>3, <3>1, <3>2, WalkBegins
  <2> QED BY <2>1, <2>2, <2>3
<1>2. ASSUME NEW t \in TebThread, Takes(t) PROVE WalkOf(v)'
  <2>0. /\ UNCHANGED listVars /\ Moves(t) /\ Grown(t) /\ Linked' = Linked
    BY <1>2, <1>i, MovedSame, NotGrown, LinkedSame, VisitGoes, StepOnGoes, NextCrashesGoes,
       ThreadDetachGoes, ReadCallbackGoes, TakeDataGoes, ThreadEndsGoes DEF Takes, Went, Rests
  <2>1. \A u \in TebThread : FlsFalls(u) /\ TlsFalls(u)
    BY <1>2, <1>i, SlotsFall
  <2>2. at[v] \in {"visit", "next"} => /\ job[v].kind = "fls" => job[v].index \in FlsIndex
                                       /\ job[v].kind = "dll" => job[v].index \in TlsIndex
    BY <1>i DEF PhasesOK, PhaseOf, Walking
  <2>3. CASE v # t
    <3>1. at'[v] = at[v] /\ job'[v] = job[v]
      BY <2>0, <2>3 DEF Moves
    <3>2. ASSUME at[v] \in {"visit", "next"}, job[v].kind = "fls", NEW u \in TebThread,
                 flsSlot'[u][job[v].index] # 0
          PROVE  flsSlot[u][job[v].index] # 0
      BY <2>1, <2>2, <3>2 DEF FlsFalls
    <3>3. ASSUME at[v] \in {"visit", "next"}, job[v].kind = "dll", NEW u \in TebThread,
                 tlsSlot'[u][job[v].index] = "block"
          PROVE  tlsSlot[u][job[v].index] = "block"
      BY <2>1, <2>2, <3>3 DEF TlsFalls
    <3> QED BY <1>i, <2>0, <3>1, <3>2, <3>3, WalkKept
  <2>4. CASE v = t /\ Visit(t)
    <3>1. /\ at[t] = "visit"
          /\ Went(t, "next", job[t].kind, job[t].index, job[t].callback, job[t].teb)
      BY <1>i, <2>4, VisitGoes DEF Visit
    <3>2. job[t].teb \in TebThread
      BY <1>i, <3>1 DEF PhasesOK, PhaseOf, Walking
    <3>3. ASSUME t \in Linked, job[t].kind = "fls", NEW u \in TebThread,
                 flsSlot'[u][job[t].index] # 0
          PROVE  Left(t, u)'
      <4>1. flsSlot' = [flsSlot EXCEPT ![job[t].teb][job[t].index] = 0]
        BY <2>4, <3>3 DEF Visit
      <4>2. u # job[t].teb
        BY <1>i, <2>2, <2>4, <3>1, <3>2, <3>3, <4>1, FlsPut
      <4>3. Left(t, u)
        BY <1>i, <2>1, <2>2, <2>4, <3>1, <3>3 DEF WalkOf, FlsFalls
      <4> QED BY <2>0, <3>1, <4>2, <4>3, LeftVisited DEF Went
    <3>4. ASSUME t \in Linked, job[t].kind = "dll", NEW u \in TebThread,
                 tlsSlot'[u][job[t].index] = "block"
          PROVE  Left(t, u)'
      <4>1. tlsSlot' = [tlsSlot EXCEPT ![job[t].teb][job[t].index] = "null"]
        BY <2>4, <3>4 DEF Visit
      <4>2. u # job[t].teb
        BY <1>i, <2>2, <2>4, <3>1, <3>2, <3>4, <4>1, TlsPut
      <4>3. Left(t, u)
        BY <1>i, <2>1, <2>2, <2>4, <3>1, <3>4 DEF WalkOf, TlsFalls
      <4> QED BY <2>0, <3>1, <4>2, <4>3, LeftVisited DEF Went
    <3> QED BY <1>i, <2>0, <2>4, <3>1, <3>3, <3>4 DEF WalkOf, Went
  <2>5. CASE v = t /\ StepOn(t)
    <3>1. at[t] = "next" /\ job[t].teb \in Linked
      BY <2>5 DEF StepOn
    <3>2. t \in Linked
      BY <1>i, <2>5, <3>1 DEF WalkOf
    <3>3. CASE at'[t] \notin {"visit", "next"}
      BY <2>5, <3>3 DEF WalkOf
    <3>4. CASE /\ Went(t, "visit", job[t].kind, job[t].index, job[t].callback,
                        NextTeb(job[t].teb, t))
               /\ NextTeb(job[t].teb, t) # t
      <4>1. \A u \in TebThread : Left(t, u) => Left(t, u)'
        BY <1>i, <2>0, <3>1, <3>4, LeftStepped DEF Went
      <4>2. NextTeb(job[t].teb, t) \in Linked
        BY <1>i, <3>1, NextIs
      <4>3. flsSlot' = flsSlot /\ tlsSlot' = tlsSlot
        BY <2>5 DEF StepOn
      <4> QED BY <1>i, <2>0, <2>5, <3>1, <3>2, <3>4, <4>1, <4>2, <4>3 DEF WalkOf, Went
    <3> QED BY <1>i, <2>5, <3>3, <3>4, StepOnGoes DEF Rests
  <2>6. CASE v = t /\ ~Visit(t) /\ ~StepOn(t)
    <3>1. at'[t] \notin {"visit", "next"}
      BY <1>2, <1>i, <2>6, NextCrashesGoes, ThreadDetachGoes, ReadCallbackGoes,
         TakeDataGoes, ThreadEndsGoes DEF Takes, Went, Rests
    <3> QED BY <2>6, <3>1 DEF WalkOf
  <2> QED BY <2>3, <2>4, <2>5, <2>6
<1>3. CASE Terminates
  <2>1. at'[v] \notin Walking
    BY <1>3, <1>i, TerminateFrame DEF Moves, Resting, Walking
  <2> QED BY <2>1 DEF WalkOf, Walking
<1> QED BY <1>1, <1>2, <1>3, TebSteps DEF Terminates

-----------------------------------------------------------------------------
LEMMA TebInvariance == TebSpec => []TebInv
<1>1. TebInv /\ [TebNext]_tebVars => TebInv'
  <2>1. CASE TebNext
    BY <2>1, TypesStep, PhasesStep, ListsStep, EmptyStep, FlsStep, TakeStep, LeftStep,
       BlockStep, DllStep, WalksStep, StaticStep DEF TebInv
  <2>2. CASE UNCHANGED tebVars
    <3> USE <2>2 DEF tebVars
    <3>1. TebInv => TebTypes' /\ PhasesOK' /\ ListsOK' /\ EmptyOK'
      BY DEF TebInv, TebTypes, PhasesOK, PhaseOf, ListsOK, EmptyOK, Moved, Linked
    <3>2. TebInv => FlsOK' /\ TakeOK' /\ LeftClean' /\ BlockLeft'
      BY DEF TebInv, FlsOK, TakeOK, LeftClean, BlockLeft
    <3>3. TebInv => DllOK' /\ WalksOK' /\ StaticTlsExact'
      BY DEF TebInv, DllOK, IsDllWalk, Moved, WalksOK, WalkOf, Left, Linked, StaticTlsExact
    <3> QED BY <3>1, <3>2, <3>3 DEF TebInv
  <2> QED BY <2>1, <2>2
<1> QED BY <1>1, TebInitInv, PTL DEF TebSpec

(* The slots of TEBs hold what their types say, and no one walks or leaves *)
(* without the job it needs.                                               *)
THEOREM TebTypeCorrect == TebSpec => []TebTypes
<1>1. TebInv => TebTypes
  BY DEF TebInv
<1> QED BY <1>1, TebInvariance, PTL

(* Data go to the callback they were stored for, and a thread at a reused  *)
(* PETHREAD finds nothing of its predecessor: data in a slot belong to the *)
(* owner of the index, a walk takes all of them away before the index has  *)
(* no owner, and an ending thread empties every slot on its way out.       *)
THEOREM SlotDataKept == TebSpec => []SlotDataExact
<1>1. TebInv => SlotDataExact
  <2> SUFFICES ASSUME TebInv PROVE SlotDataExact
    OBVIOUS
  <2>1. FlsOwnCallback
    <3> SUFFICES ASSUME ~bare, NEW t \in TebThread,
                        \/ at[t] = "visit" /\ job[t].kind = "fls"
                        \/ at[t] = "take" /\ job[t].callback # 0
                 PROVE  flsSlot[job[t].teb][job[t].index] \in {0, job[t].callback}
      BY DEF FlsOwnCallback
    <3>1. CASE at[t] = "visit" /\ job[t].kind = "fls"
      <4>1. job[t].teb \in TebThread /\ job[t].index \in FlsIndex
        BY <3>1 DEF TebInv, PhasesOK, PhaseOf, Walking
      <4>2. job[t].callback = flsOwner[job[t].index]
        BY <3>1 DEF TebInv, FlsOK, Walking
      <4> QED BY <4>1, <4>2 DEF TebInv, FlsOK
    <3>2. CASE at[t] = "take" /\ job[t].callback # 0
      BY <3>2 DEF TebInv, TakeOK
    <3> QED BY <3>1, <3>2
  <2>2. ReusedTebIsClean
    BY DEF TebInv, LeftClean, BlockLeft, ReusedTebIsClean
  <2> QED BY <2>1, <2>2 DEF SlotDataExact
<1> QED BY <1>1, TebInvariance, PTL

(* Every static TLS block is in one slot, under the index of its DLL: the  *)
(* walk of an unloading frees those that are left before the index is      *)
(* given back, whatever threads attach, detach and end meanwhile.          *)
THEOREM StaticTlsCounted == TebSpec => []StaticTlsExact
<1>1. TebInv => StaticTlsExact
  BY DEF TebInv
<1> QED BY <1>1, TebInvariance, PTL

(* While an index has its callback no step drops data stored under it but  *)
(* the one of an ending thread, or of the teardown, that has the callback  *)
(* in hand.                                                                *)
THEOREM DataNotDropped == TebSpec => FlsNotDropped
<1> DEFINE Drops(u, i) == /\ flsSlot[u][i] # 0 /\ flsSlot'[u][i] = 0 /\ flsCallback[i] # 0
                          /\ ~bare /\ u \notin temporary
           Taken(u, i) == \E t \in TebThread : /\ at[t] = "take" /\ job[t].callback # 0
                                               /\ job[t].teb = u /\ job[t].index = i
           Goal == \A u \in TebThread, i \in FlsIndex : Drops(u, i) => Taken(u, i)
<1>1. TebInv /\ [TebNext]_tebVars => [Goal]_tebVars
  <2> SUFFICES ASSUME TebInv, TebNext, NEW u \in TebThread, NEW i \in FlsIndex, Drops(u, i)
               PROVE  Taken(u, i)
    BY DEF Goal
  <2>i. TebTypes /\ PhasesOK /\ DllOK /\ FlsOK /\ TakeOK /\ LeftClean /\ EmptyOK
    BY DEF TebInv
  <2>1. ASSUME NEW t \in TebThread, NEW j \in FlsIndex, NEW c \in BOOLEAN, FlsAlloc(t, j, c)
        PROVE  FALSE
    <3>1. flsOwner[j] = 0 /\ flsSlot' = [flsSlot EXCEPT ![t][j] = 0]
      BY <2>1 DEF FlsAlloc, Lowest
    <3>2. i = j
      BY <2>i, <3>1, FlsPut
    <3> QED BY <2>i, <3>1, <3>2 DEF FlsOK
  <2>2. ASSUME NEW t \in TebThread, NEW j \in FlsIndex, FlsSetValue(t, j) PROVE FALSE
    <3>1. /\ flsSlot' = [flsSlot EXCEPT ![t][j] = flsOwner[j]]
          /\ flsOwner[j] # 0 /\ flsOwner[j] \in Nat
      BY <2>2, <2>i DEF FlsSetValue, TebTypes
    <3> QED BY <2>i, <3>1, FlsPut
  <2>3. ASSUME flsSlot' = flsSlot PROVE FALSE
    BY <2>3
  <2>4. ASSUME NEW t \in TebThread, Visit(t) PROVE FALSE
    <3>1. at[t] = "visit" /\ job[t].kind = "fls"
          /\ flsSlot' = [flsSlot EXCEPT ![job[t].teb][job[t].index] = 0]
      BY <2>3, <2>4 DEF Visit
    <3>2. job[t].teb \in TebThread /\ job[t].index \in FlsIndex
      BY <2>i, <3>1 DEF PhasesOK, PhaseOf, Walking
    <3>3. i = job[t].index
      BY <2>i, <3>1, <3>2, FlsPut
    <3> QED BY <2>i, <3>1, <3>3 DEF FlsOK, Walking
  <2>5. ASSUME NEW t \in TebThread, TakeData(t) PROVE Taken(u, i)
    <3>1. /\ at[t] = "take"
          /\ flsSlot' = [flsSlot EXCEPT ![job[t].teb][job[t].index] = 0]
      BY <2>5 DEF TakeData
    <3>2. job[t].teb \in TebThread /\ job[t].index \in FlsIndex
      BY <2>i, <3>1 DEF PhasesOK, PhaseOf, Leaving
    <3>3. u = job[t].teb /\ i = job[t].index
      BY <2>i, <3>1, <3>2, FlsPut
    <3>4. job[t].callback # 0
      BY <2>i, <3>1, <3>3 DEF TakeOK
    <3> QED BY <3>1, <3>3, <3>4
  <2>6. ASSUME DeleteTeb PROVE FALSE
    <3>0. Unloader \in TebThread
      BY DEF TebThread
    <3>1. /\ at[Unloader] = "read" /\ job[Unloader].index > FlsSlots
          /\ flsSlot' = [flsSlot EXCEPT ![job[Unloader].teb] = [k \in FlsIndex |-> 0]]
      BY <2>6 DEF DeleteTeb
    <3>2. job[Unloader].index \in Nat
      BY <2>i, <3>0, <3>1 DEF PhasesOK, PhaseOf, Leaving
    <3>3. i < job[Unloader].index
      BY <3>1, <3>2, TebAssumption
    <3>4. u = job[Unloader].teb
      BY <2>i, <3>1 DEF TebTypes
    <3> QED BY <2>i, <3>0, <3>1, <3>3, <3>4 DEF LeftClean, Leaving
  <2>7. ASSUME DeleteTemporary PROVE FALSE
    <3>0. Unloader \in TebThread
      BY DEF TebThread
    <3>1. at[Unloader] = "teardown" /\ moved = <<>>
      BY <2>7 DEF DeleteTemporary
    <3>2. Moved /\ job[Unloader].teb = NoTeb
      BY <2>i, <3>0, <3>1 DEF Moved, PhasesOK, PhaseOf, Walking, Leaving, NoJob
    <3> QED BY <2>i, <3>1, <3>2, TebAssumption DEF EmptyOK
  <2>8. CASE \E t \in TebThread : Calls(t) \/ Takes(t)
    BY <2>1, <2>2, <2>3, <2>4, <2>5, <2>8 DEF Calls, Takes, FlsFree, TlsAlloc, TlsSetValue,
       TlsFree, LoadDll, UnloadDll, ThreadAttach, StepOn, NextCrashes, ThreadDetach,
       ReadCallback, ThreadEnds
  <2>9. CASE BeginTerminate \/ MoveList \/ TeardownNext
    BY <2>3, <2>9 DEF BeginTerminate, MoveList, TeardownNext
  <2> QED BY <2>6, <2>7, <2>8, <2>9, TebSteps
<1>2. Goal => [\A u \in TebThread, i \in FlsIndex :
       flsSlot[u][i] # 0 /\ flsSlot'[u][i] = 0 /\ flsCallback[i] # 0 /\ ~bare /\ u \notin temporary =>
         \E t \in TebThread : /\ at[t] = "take" /\ job[t].callback # 0
                              /\ job[t].teb = u /\ job[t].index = i]_tebVars
  OBVIOUS
<1> HIDE DEF Goal
<1> QED BY <1>1, <1>2, TebInvariance, PTL DEF TebSpec, FlsNotDropped

(* A walk comes to a TEB that is not in the list only when LdkTerminate    *)
(* has begun: before that every thread that walks is in the list itself,   *)
(* and nothing is taken out of it.                                         *)
THEOREM WalksSafeInService == TebSpec => [](~ending => WalkSafe)
<1> DEFINE Crashes == \A t \in TebThread : at[t] = "crashed" => ending
<1>1. TebInit => Crashes
  BY DEF TebInit
<1>2. TebInv /\ Crashes /\ [TebNext]_tebVars => Crashes'
  <2> SUFFICES ASSUME TebInv, Crashes, [TebNext]_tebVars, NEW v \in TebThread,
                      at'[v] = "crashed"
               PROVE  ending'
    OBVIOUS
  <2>i. TebTypes /\ PhasesOK /\ ListsOK /\ DllOK /\ WalkOf(v)
    BY DEF TebInv, WalksOK
  <2>1. ASSUME NEW t \in TebThread, Calls(t) PROVE ending'
    <3>1. ending' = ending /\ Moves(t)
      BY <2>1, <2>i, CallsOwnSlots
    <3>2. at'[t] # "crashed"
      <4>1. CASE MayCall(t) /\ Stands
        BY <4>1, <2>i, CallerIs DEF Stands
      <4>2. ASSUME NEW i \in FlsIndex,
                   (\E c \in BOOLEAN : FlsAlloc(t, i, c)) \/ FlsSetValue(t, i) \/ FlsFree(t, i)
            PROVE  (MayCall(t) /\ Stands) \/ at'[t] = "visit"
        BY <4>2, <2>i, FlsFreeGoes DEF FlsAlloc, FlsSetValue, FlsFree, Stands, Went
      <4>3. ASSUME NEW i \in TlsIndex,
                   TlsAlloc(t, i) \/ TlsSetValue(t, i) \/ TlsFree(t, i) \/ LoadDll(t, i)
            PROVE  (MayCall(t) /\ Stands) \/ at'[t] = "visit"
        BY <4>3, <2>i, TlsFreeGoes DEF TlsAlloc, TlsSetValue, LoadDll, Stands, Went
      <4>4. CASE UnloadDll(t) \/ ThreadAttach(t)
        BY <4>4, <2>i, UnloadDllGoes, ThreadAttachGoes DEF Went, Rests
      <4> QED BY <2>1, <4>1, <4>2, <4>3, <4>4 DEF Calls
    <3> QED BY <3>1, <3>2 DEF Moves
  <2>2. ASSUME NEW t \in TebThread, Takes(t) PROVE ending'
    <3>1. ending' = ending
      BY <2>2, <2>i, MovedSame
    <3>2. CASE at[v] = "crashed"
      BY <3>1, <3>2
    <3>3. CASE at[v] # "crashed"
      <4>1. v = t /\ NextCrashes(t)
        BY <2>2, <2>i, <3>3, VisitGoes, StepOnGoes, NextCrashesGoes, ThreadDetachGoes,
           ReadCallbackGoes, TakeDataGoes, ThreadEndsGoes DEF Takes, Went, Rests, Moves
      <4>2. at[v] = "next" /\ job[v].teb \notin Linked
        BY <4>1 DEF NextCrashes
      <4>3. v \notin Linked /\ v \in Linked \cup temporary
        BY <2>i, <4>2 DEF WalkOf, ListsOK, Walking
      <4> QED BY <2>i, <3>1, <4>3 DEF ListsOK
    <3> QED BY <3>2, <3>3
  <2>3. CASE Terminates
    <3>1. at[v] = "crashed"
      BY <2>3, <2>i, TerminateFrame DEF Moves, Walking
    <3>2. ending => ending'
      BY <2>3 DEF Terminates, BeginTerminate, MoveList, TeardownNext, DeleteTeb, DeleteTemporary
    <3> QED BY <3>1, <3>2
  <2>4. CASE UNCHANGED tebVars
    BY <2>4 DEF tebVars
  <2> QED BY <2>1, <2>2, <2>3, <2>4, TebSteps DEF Terminates
<1>3. Crashes => (~ending => WalkSafe)
  BY DEF WalkSafe
<1> HIDE DEF Crashes
<1> QED BY <1>1, <1>2, <1>3, TebInvariance, PTL DEF TebSpec
=============================================================================
