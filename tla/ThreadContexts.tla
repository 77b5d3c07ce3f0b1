--------------------------- MODULE ThreadContexts ---------------------------
(***************************************************************************)
(* CreateThread, its start gate and the termination barrier, src/src/      *)
(* kernel32/processthreadsapi.c.  Every thread made by CreateThread has an *)
(* LDK_THREAD_CONTEXT that is linked into LdkpThreadContextListHead until  *)
(* the thread has terminated and somebody reaps it.  The new thread waits  *)
(* at its StartEvent.  LdkPrepareForTermination refuses new threads,       *)
(* cancels those still at the gate and waits for all the others; then      *)
(* LdkpTerminateThreadContexts deletes the lookaside list of the contexts. *)
(*                                                                         *)
(* What is done under LdkpThreadContextListMutex is one step.  The order   *)
(* of the list is left out: the barrier waits for some linked thread.      *)
(***************************************************************************)
EXTENDS Integers, FiniteSets

CONSTANTS
  Worker,        \* threads that CreateThread makes, each once
  Main,          \* stands for the callers that were not made by CreateThread
  Closer,        \* untracked threads that call LdkPrepareForTermination
  MaxSuspend     \* MAXIMUM_SUSPEND_COUNT

ASSUME ThreadAssumption ==
  /\ IsFiniteSet(Worker)
  /\ Main \notin Worker
  /\ MaxSuspend \in Nat \ {0}

VARIABLES
  cpc,        \* where the CreateThread call that makes each worker is
  parent,     \* who makes that call
  tpc,        \* where the new thread itself is
  live,       \* contexts allocated from LdkpThreadContextLookaside
  linked,     \* contexts in LdkpThreadContextListHead
  released,   \* StartReleased; StartEvent is set together with it
  cancelled,  \* ShutdownCancelled
  suspend,    \* StartupSuspendCount
  count,      \* LdkpThreadContextCreationCount
  complete,   \* LdkpThreadContextCreationCompleteEvent
  shutdown,   \* LdkpThreadContextShutdown
  bpc,        \* where each caller of the barrier is
  target,     \* the thread object it waits for
  torn        \* the lookaside list has been deleted

tcVars == <<cpc, parent, tpc, live, linked, released, cancelled, suspend,
            count, complete, shutdown, bpc, target, torn>>
createVars == <<cpc, parent>>
gateVars == <<released, cancelled, suspend>>
closeVars == <<bpc, target>>

InFlightPc == {"counted", "made", "undo"}
CreatePc == InFlightPc \cup {"none", "alloc", "free", "returned", "failed"}
AlivePc == {"gate", "woken", "run", "exit"}
Dead == {w \in Worker : tpc[w] = "dead"}

TCInit ==
  /\ cpc = [w \in Worker |-> "none"]
  /\ parent = [w \in Worker |-> Main]
  /\ tpc = [w \in Worker |-> "none"]
  /\ live = {} /\ linked = {} /\ released = {} /\ cancelled = {}
  /\ suspend = [w \in Worker |-> 0]
  /\ count = 0
  /\ complete = TRUE
  /\ shutdown = FALSE
  /\ bpc = [c \in Closer |-> "out"]
  /\ target \in [Closer -> {Main}]
  /\ torn = FALSE

CreateGoto(w, label) == cpc' = [cpc EXCEPT ![w] = label]
ThreadGoto(w, label) == tpc' = [tpc EXCEPT ![w] = label]

(* Fault: contexts of threads that were released are taken as finished.    *)
ReapReleased ==
  /\ linked' = linked \ released
  /\ live' = live \ (linked \cap released)

(* LdkpReapTerminatedThreadContextsLocked.                                 *)
Reap ==
  /\ linked' = linked \ Dead
  /\ live' = live \ (linked \cap Dead)

(* LdkpCompleteThreadContextCreationLocked.                                *)
CompleteCreation ==
  /\ count' = count - 1
  /\ complete' = IF count = 1 THEN TRUE ELSE complete

(***************************************************************************)
(* CreateThread.                                                           *)
(***************************************************************************)
Callable(p) == IF p = Main THEN ~torn ELSE tpc[p] = "run"
Busy(p) == \E w \in Worker : parent[w] = p /\ cpc[w] \in InFlightPc \cup {"alloc", "free"}

Allocate(w, p, suspended) ==
  /\ cpc[w] = "none" /\ p # w
  /\ Callable(p) /\ (p # Main => ~Busy(p))
  /\ CreateGoto(w, "alloc")
  /\ parent' = [parent EXCEPT ![w] = p]
  /\ live' = live \cup {w}
  /\ suspend' = [suspend EXCEPT ![w] = IF suspended THEN 1 ELSE 0]
  /\ UNCHANGED <<tpc, linked, released, cancelled, count, complete, shutdown,
                 closeVars, torn>>

Admit(w) ==
  /\ cpc[w] = "alloc"
  /\ Reap
  /\ \/ shutdown /\ CreateGoto(w, "free") /\ UNCHANGED <<count, complete>>
     \/ /\ ~shutdown
        /\ CreateGoto(w, "counted")
        /\ complete' = IF count = 0 THEN FALSE ELSE complete
        /\ count' = count + 1
  /\ UNCHANGED <<parent, tpc, gateVars, shutdown, closeVars, torn>>

(* ExFreeToNPagedLookasideList on the paths that return NULL.              *)
FreeContext(w) ==
  /\ cpc[w] = "free"
  /\ CreateGoto(w, "failed")
  /\ live' = live \ {w}
  /\ UNCHANGED <<parent, tpc, linked, gateVars, count, complete, shutdown,
                 closeVars, torn>>

(* PsCreateSystemThread: the thread is at its gate, or there is none.      *)
MakeThread(w) ==
  /\ cpc[w] = "counted"
  /\ CreateGoto(w, "made")
  /\ ThreadGoto(w, "gate")
  /\ UNCHANGED <<parent, live, linked, gateVars, count, complete, shutdown,
                 closeVars, torn>>

MakeFails(w) ==
  /\ cpc[w] = "counted"
  /\ CompleteCreation
  /\ CreateGoto(w, "free")
  /\ UNCHANGED <<parent, tpc, live, linked, gateVars, shutdown, closeVars, torn>>

(* PsLookupThreadByThreadId fails: cancel the thread, wait for it, undo.   *)
LookupFails(w) ==
  /\ cpc[w] = "made"
  /\ CreateGoto(w, "undo")
  /\ cancelled' = cancelled \cup {w}
  /\ released' = released \cup {w}
  /\ UNCHANGED <<parent, tpc, live, linked, suspend, count, complete, shutdown,
                 closeVars, torn>>

UndoThread(w) ==
  /\ cpc[w] = "undo" /\ tpc[w] = "dead"
  /\ CompleteCreation
  /\ CreateGoto(w, "free")
  /\ UNCHANGED <<parent, tpc, live, linked, gateVars, shutdown, closeVars, torn>>

Link(w) ==
  /\ cpc[w] = "made"
  /\ CreateGoto(w, "returned")
  /\ linked' = linked \cup {w}
  /\ CompleteCreation
  /\ released' = IF suspend[w] = 0 \/ shutdown THEN released \cup {w} ELSE released
  /\ cancelled' = IF shutdown THEN cancelled \cup {w} ELSE cancelled
  /\ suspend' = IF shutdown THEN [suspend EXCEPT ![w] = 0] ELSE suspend
  /\ UNCHANGED <<parent, tpc, live, shutdown, closeVars, torn>>

(***************************************************************************)
(* LdkpThreadStartRoutine.  "run" stands for the attach notifications and  *)
(* the caller's routine, "exit" for the detach notifications and the FLS   *)
(* callbacks, which ExitThread does too.                                   *)
(***************************************************************************)
Wake(w) ==
  /\ tpc[w] = "gate" /\ w \in released
  /\ ThreadGoto(w, "woken")
  /\ UNCHANGED <<createVars, live, linked, gateVars, count, complete, shutdown,
                 closeVars, torn>>

Start(w) ==
  /\ tpc[w] = "woken"
  /\ ThreadGoto(w, IF w \in cancelled THEN "dead" ELSE "run")
  /\ UNCHANGED <<createVars, live, linked, gateVars, count, complete, shutdown,
                 closeVars, torn>>

RoutineReturns(w) ==
  /\ tpc[w] = "run" /\ ~Busy(w)
  /\ ThreadGoto(w, "exit")
  /\ UNCHANGED <<createVars, live, linked, gateVars, count, complete, shutdown,
                 closeVars, torn>>

Terminate(w) ==
  /\ tpc[w] = "exit"
  /\ ThreadGoto(w, "dead")
  /\ UNCHANGED <<createVars, live, linked, gateVars, count, complete, shutdown,
                 closeVars, torn>>

(***************************************************************************)
(* SuspendThread and ResumeThread on a context they find; the paths that   *)
(* only return an error change nothing.                                    *)
(***************************************************************************)
SuspendThread(w) ==
  /\ w \in linked \ released
  /\ suspend[w] # 0 /\ suspend[w] < MaxSuspend
  /\ suspend' = [suspend EXCEPT ![w] = @ + 1]
  /\ UNCHANGED <<createVars, tpc, live, linked, released, cancelled, count,
                 complete, shutdown, closeVars, torn>>

ResumeThread(w) ==
  /\ w \in linked /\ suspend[w] > 0
  /\ suspend' = [suspend EXCEPT ![w] = @ - 1]
  /\ released' = IF suspend[w] = 1 THEN released \cup {w} ELSE released
  /\ UNCHANGED <<createVars, tpc, live, linked, cancelled, count, complete,
                 shutdown, closeVars, torn>>

(***************************************************************************)
(* LdkPrepareForTermination: LdkpBeginThreadContextShutdown, then the loop *)
(* of LdkpWaitForThreadContexts.                                           *)
(***************************************************************************)
CloserGoto(c, label) == bpc' = [bpc EXCEPT ![c] = label]
Gated == linked' \ released

(* Fault: threads at the gate are left there.                              *)
BeginLeavesGated(c) ==
  /\ bpc[c] \in {"out", "drained"}
  /\ shutdown' = TRUE
  /\ Reap
  /\ CloserGoto(c, "drain")
  /\ UNCHANGED <<createVars, tpc, gateVars, count, complete, target, torn>>

BeginShutdown(c) ==
  /\ bpc[c] \in {"out", "drained"}
  /\ shutdown' = TRUE
  /\ Reap
  /\ cancelled' = cancelled \cup Gated
  /\ released' = released \cup Gated
  /\ suspend' = [w \in Worker |-> IF w \in Gated THEN 0 ELSE suspend[w]]
  /\ CloserGoto(c, "drain")
  /\ UNCHANGED <<createVars, tpc, count, complete, target, torn>>

(* Fault: a creation in progress is not waited for.                        *)
LookForgetsCreations(c) ==
  /\ bpc[c] = "drain"
  /\ Reap
  /\ \/ /\ linked' # {}
        /\ \E w \in linked' : target' = [target EXCEPT ![c] = w]
        /\ CloserGoto(c, "onThread")
     \/ linked' = {} /\ CloserGoto(c, "drained") /\ UNCHANGED target
  /\ UNCHANGED <<createVars, tpc, gateVars, count, complete, shutdown, torn>>

Look(c) ==
  /\ bpc[c] = "drain"
  /\ Reap
  /\ \/ /\ linked' # {}
        /\ \E w \in linked' : target' = [target EXCEPT ![c] = w]
        /\ CloserGoto(c, "onThread")
     \/ linked' = {} /\ count # 0 /\ CloserGoto(c, "onEvent") /\ UNCHANGED target
     \/ linked' = {} /\ count = 0 /\ CloserGoto(c, "drained") /\ UNCHANGED target
  /\ UNCHANGED <<createVars, tpc, gateVars, count, complete, shutdown, torn>>

(* KeWaitForSingleObject on the thread object or on the event.             *)
WaitOver(c) ==
  /\ \/ bpc[c] = "onThread" /\ target[c] \in Dead
     \/ bpc[c] = "onEvent" /\ complete
  /\ CloserGoto(c, "drain")
  /\ UNCHANGED <<createVars, tpc, live, linked, gateVars, count, complete,
                 shutdown, target, torn>>

(* LdkpTerminateThreadContexts, after its own barrier.  Callers that the   *)
(* barrier does not know have returned by then.                            *)
DeleteLookaside(c) ==
  /\ bpc[c] = "drained" /\ ~torn /\ ~Busy(Main)
  /\ torn' = TRUE
  /\ UNCHANGED <<createVars, tpc, live, linked, gateVars, count, complete,
                 shutdown, closeVars>>

CreateStep(w) ==
  \/ Admit(w) \/ FreeContext(w) \/ MakeThread(w) \/ MakeFails(w)
  \/ LookupFails(w) \/ UndoThread(w) \/ Link(w)

ThreadStep(w) == Wake(w) \/ Start(w) \/ RoutineReturns(w) \/ Terminate(w)

CloserStep(c) == Look(c) \/ WaitOver(c)

TCNext ==
  \/ \E w \in Worker :
       \/ \E p \in Worker \cup {Main}, s \in BOOLEAN : Allocate(w, p, s)
       \/ CreateStep(w) \/ ThreadStep(w) \/ SuspendThread(w) \/ ResumeThread(w)
  \/ \E c \in Closer : BeginShutdown(c) \/ CloserStep(c) \/ DeleteLookaside(c)

TCSpec == TCInit /\ [][TCNext]_tcVars

(* Threads that can run do, and the routines of the workers return, as     *)
(* docs/runtime/threading-and-callbacks.md asks of the driver.             *)
TCFairness ==
  /\ \A w \in Worker : WF_tcVars(CreateStep(w)) /\ WF_tcVars(ThreadStep(w))
  /\ \A c \in Closer : WF_tcVars(CloserStep(c))
-----------------------------------------------------------------------------
(* Types of the thread context state.                                      *)
TCTypeOK ==
  /\ cpc \in [Worker -> CreatePc]
  /\ parent \in [Worker -> Worker \cup {Main}]
  /\ tpc \in [Worker -> {"none", "dead"} \cup AlivePc]
  /\ live \subseteq Worker /\ linked \subseteq Worker
  /\ released \subseteq Worker /\ cancelled \subseteq Worker
  /\ suspend \in [Worker -> 0..MaxSuspend]
  /\ count \in Nat
  /\ complete \in BOOLEAN /\ shutdown \in BOOLEAN /\ torn \in BOOLEAN
  /\ bpc \in [Closer -> {"out", "drain", "onThread", "onEvent", "drained"}]
  /\ target \in [Closer -> Worker \cup {Main}]

(* A Context is not freed while its new thread still reads it, while the   *)
(* call that makes it does, or while it is in the list.                    *)
ContextSafe ==
  /\ \A w \in Worker : tpc[w] \in {"gate", "woken"} => w \in live
  /\ \A w \in Worker : cpc[w] \in InFlightPc => w \in live
  /\ linked \subseteq live

(* LdkPrepareForTermination has returned: every thread that CreateThread   *)
(* has made is dead, and stays so.                                         *)
DrainedMeansGone ==
  (\E c \in Closer : bpc[c] = "drained") =>
    \A w \in Worker : tpc[w] \notin AlivePc /\ cpc[w] \notin InFlightPc

(* Once the lookaside list is deleted nothing allocated from it is left,   *)
(* so that nobody gives anything back to it.                               *)
NoUseAfterDelete == torn => live = {}

(* A routine is entered only when the suspend count has come down to zero  *)
(* and the thread was not cancelled; a cancelled thread never enters it.   *)
GateHeld ==
  \A w \in Worker :
    tpc[w] \in {"run", "exit"} => w \in released \ cancelled /\ suspend[w] = 0

(* After the barrier has begun nobody is left at a gate that only the      *)
(* driver could open.                                                      *)
NobodyStranded == shutdown => linked \subseteq released

(* The barrier returns, whatever creations, suspensions and resumptions    *)
(* it races with.                                                          *)
BarrierReturns ==
  \A c \in Closer : (bpc[c] = "drain") ~> (bpc[c] = "drained")
=============================================================================
