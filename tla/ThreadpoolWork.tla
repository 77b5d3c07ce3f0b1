---------------------------- MODULE ThreadpoolWork ----------------------------
(***************************************************************************)
(* One threadpool work object of kernel32/threadpoolapiset.c: TP_WORK with *)
(* its ReferenceCount, OutstandingCount, Flags and notification Event, the *)
(* kernel work items queued for it, and its membership of a cleanup group. *)
(*                                                                         *)
(* The counters and the flags are interlocked words and the event is a     *)
(* dispatcher object: each access is a step of its own, nothing orders two *)
(* of them, and no lock covers a whole call.                               *)
(*                                                                         *)
(* Callers follow the contract of the API.  Nobody starts a call once the  *)
(* object is being closed, except a callback of the object, which its own  *)
(* work item keeps alive; a close starts when every call that is under way *)
(* has taken its own reference; the object is closed once, by its handle   *)
(* or through its cleanup group.                                           *)
(***************************************************************************)
EXTENDS Naturals, FiniteSets

CONSTANTS
    Client,      \* threads of the driver
    Item,        \* work items (LDK_THREAD_POOL_WORK_ITEM), reused when free
    RaceDll      \* TRUE: the callback environment names a DLL

ASSUME WorkAssumption ==
    /\ IsFiniteSet(Client) /\ IsFiniteSet(Item)
    /\ Client \cap Item = {}
    /\ RaceDll \in BOOLEAN

Proc == Client \cup Item

VARIABLES
    pc,           \* where each thread and each work item is
    refs,         \* Work->ReferenceCount
    outstanding,  \* Work->OutstandingCount
    event,        \* Work->Event is signalled
    flags,        \* Work->Flags
    freed,        \* the object went back to its lookaside list
    handle,       \* ghost: the reference of CreateThreadpoolWork is not yet given up
    closing,      \* ghost: some close has started
    member,       \* Member->CleanupGroup is the group
    cancels,      \* threads in a wait with fCancelPendingCallbacks
    grouping,     \* threads in CloseThreadpoolCleanupGroupMembers with the member
    due,          \* ghost: the callbacks a wait has to see finished
    late,         \* ghost: who will set the event although a submission has reset it since
    stale,        \* ghost: the event is signalled, and was set by one of these
    misled,       \* ghost: waits that ended on such an event
    dll,          \* load count of the DLL the callbacks live in (the loader's)
    own,          \* ghost: the driver still has its own reference to it
    held,         \* work items with ReleaseRaceDll = TRUE
    deferred,     \* work items with an entry in Instance->ModuleList
    leaked        \* ghost: a FreeLibraryWhenCallbackReturns was dropped

objVars == <<refs, outstanding, event, flags, freed, handle>>
lateVars == <<late, stale, misled>>
useVars == <<closing, member, cancels, grouping, due, lateVars>>
dllVars == <<dll, own, held, deferred, leaked>>
vars    == <<pc, objVars, useVars, dllVars>>

SubmitPc == {"s_check", "s_ref", "s_out", "s_reset", "s_alloc", "s_undo", "s_set", "s_deref"}

(* Callbacks that have been submitted and have not returned.                 *)
Unfinished == {i \in Item : pc[i] \notin {"none", "end", "x_out", "x_clear", "x_set", "x_deref"}}

(* The count has gone to zero and KeSetEvent is still to come.               *)
Setting == {p \in Proc : pc[p] \in {"s_set", "x_clear", "x_set"}}

Goto(p, l) == pc' = [pc EXCEPT ![p] = l]

(* Where a call made by p returns to: into the callback, into the loop of    *)
(* CloseThreadpoolCleanupGroupMembers, or to the driver.                     *)
Return(p) == IF p \in Item THEN "run" ELSE IF p \in grouping THEN "g_callback" ELSE "idle"

Init ==
    /\ pc = [p \in Proc |-> IF p \in Client THEN "idle" ELSE "none"]
    /\ refs = 1 /\ outstanding = 0 /\ event = TRUE /\ flags = {}
    /\ freed = FALSE /\ handle = TRUE /\ closing = FALSE
    /\ member \in BOOLEAN
    /\ cancels = {} /\ grouping = {} /\ due = [c \in Client |-> {}]
    /\ late = {} /\ stale = FALSE /\ misled = {}
    /\ dll = 1 /\ own = TRUE /\ held = {} /\ deferred = {} /\ leaked = FALSE

(* A thread between two calls, or a callback of this object.                 *)
MayCall(p) == pc[p] = IF p \in Client THEN "idle" ELSE "run"

-----------------------------------------------------------------------------
(* SubmitThreadpoolWork                                                      *)

CallSubmit(p) ==
    /\ MayCall(p)
    /\ p \in Client => ~closing
    /\ Goto(p, "s_check")
    /\ UNCHANGED <<objVars, useVars, dllVars>>

SubmitCheck(p) ==
    /\ pc[p] = "s_check"
    /\ Goto(p, IF "delete" \in flags THEN Return(p) ELSE "s_ref")
    /\ UNCHANGED <<objVars, useVars, dllVars>>

SubmitRef(p) ==
    /\ pc[p] = "s_ref"
    /\ refs' = refs + 1
    /\ Goto(p, "s_out")
    /\ UNCHANGED <<outstanding, event, flags, freed, handle, useVars, dllVars>>

SubmitOut(p) ==
    /\ pc[p] = "s_out"
    /\ outstanding' = outstanding + 1
    /\ Goto(p, "s_reset")
    /\ UNCHANGED <<refs, event, flags, freed, handle, useVars, dllVars>>

SubmitReset(p) ==
    /\ pc[p] = "s_reset"
    /\ event' = FALSE
    /\ late' = late \cup Setting /\ stale' = FALSE
    /\ Goto(p, "s_alloc")
    /\ UNCHANGED <<refs, outstanding, flags, freed, handle, closing, member, cancels,
                   grouping, due, misled, dllVars>>

(* ExQueueWorkItem: the call's reference and count now belong to the item.   *)
SubmitQueue(p, i) ==
    /\ pc[p] = "s_alloc" /\ pc[i] = "none"
    /\ pc' = [pc EXCEPT ![p] = Return(p), ![i] = "queued"]
    /\ UNCHANGED <<objVars, useVars, dllVars>>

SubmitAllocFails(p) ==
    /\ pc[p] = "s_alloc"
    /\ Goto(p, "s_undo")
    /\ UNCHANGED <<objVars, useVars, dllVars>>

SubmitUndo(p) ==
    /\ pc[p] = "s_undo"
    /\ outstanding' = outstanding - 1
    /\ Goto(p, IF outstanding = 1 THEN "s_set" ELSE "s_deref")
    /\ UNCHANGED <<refs, event, flags, freed, handle, useVars, dllVars>>

(* KeSetEvent.  When a submission has reset the event since p took the count *)
(* to zero, the event does not say that nothing is outstanding; unless it is *)
(* signalled already, by a completion that was not overtaken.                *)
SetEvent(p) ==
    /\ event' = TRUE
    /\ stale' = (p \in late /\ (stale \/ ~event))
    /\ late' = late \ {p}

SubmitSet(p) ==
    /\ pc[p] = "s_set"
    /\ SetEvent(p)
    /\ Goto(p, "s_deref")
    /\ UNCHANGED <<refs, outstanding, flags, freed, handle, closing, member, cancels,
                   grouping, due, misled, dllVars>>

(* LdkpDereferenceThreadpoolWork.                                            *)
Dereference == refs' = refs - 1 /\ freed' = (freed \/ refs = 1)

SubmitDeref(p) ==
    /\ pc[p] = "s_deref"
    /\ Dereference
    /\ Goto(p, Return(p))
    /\ UNCHANGED <<outstanding, event, flags, handle, useVars, dllVars>>

-----------------------------------------------------------------------------
(* LdkpThreadpoolWokerThreadRoutine                                          *)

(* The flags are read once and the DLL is referenced: then the callback runs *)
(* or, when a wait has asked to cancel, is skipped.  LdrAddRefDll fails when *)
(* the DLL is gone; the callback is made all the same.                       *)
Dequeue(i) ==
    /\ pc[i] = "queued"
    /\ LET take == RaceDll /\ dll > 0 IN
        /\ held' = IF take THEN held \cup {i} ELSE held
        /\ dll' = IF take THEN dll + 1 ELSE dll
    /\ Goto(i, IF "cancel" \in flags THEN "end" ELSE "run")
    /\ due' = IF "cancel" \in flags THEN [c \in Client |-> due[c] \ {i}] ELSE due
    /\ UNCHANGED <<objVars, closing, member, cancels, grouping, lateVars, own, deferred, leaked>>

(* The callback, and the finalization callback after it, have returned.      *)
CallbackReturns(i) ==
    /\ pc[i] = "run"
    /\ Goto(i, "end")
    /\ due' = [c \in Client |-> due[c] \ {i}]
    /\ UNCHANGED <<objVars, closing, member, cancels, grouping, lateVars, dllVars>>

(* FreeLibraryWhenCallbackReturns, for the driver's own reference.  The      *)
(* entry may not be allocated; the caller is not told.                       *)
DeferFree(i) ==
    /\ pc[i] = "run" /\ own
    /\ own' = FALSE
    /\ \/ deferred' = deferred \cup {i} /\ leaked' = leaked
       \/ deferred' = deferred /\ leaked' = TRUE
    /\ UNCHANGED <<pc, objVars, useVars, dll, held>>

(* Mutant: the reference of the callback environment is not released.        *)
EndCallbackKeepsRace(i) ==
    /\ pc[i] = "end"
    /\ dll' = dll - Cardinality({i} \cap deferred)
    /\ held' = held \ {i} /\ deferred' = deferred \ {i}
    /\ Goto(i, "x_out")
    /\ UNCHANGED <<objVars, useVars, own, leaked>>

(* LdkpEndThreadpoolCallback: the libraries of ModuleList, then the RaceDll. *)
EndCallback(i) ==
    /\ pc[i] = "end"
    /\ dll' = dll - Cardinality({i} \cap held) - Cardinality({i} \cap deferred)
    /\ held' = held \ {i} /\ deferred' = deferred \ {i}
    /\ Goto(i, "x_out")
    /\ UNCHANGED <<objVars, useVars, own, leaked>>

(* Mutant: every completion sets the event.                                  *)
CompleteAlwaysSets(i) ==
    /\ pc[i] = "x_out"
    /\ outstanding' = outstanding - 1
    /\ Goto(i, "x_clear")
    /\ UNCHANGED <<refs, event, flags, freed, handle, useVars, dllVars>>

(* LdkpCompleteThreadpoolWorkItem.                                           *)
CompleteOut(i) ==
    /\ pc[i] = "x_out"
    /\ outstanding' = outstanding - 1
    /\ Goto(i, IF outstanding = 1 THEN "x_clear" ELSE "x_deref")
    /\ UNCHANGED <<refs, event, flags, freed, handle, useVars, dllVars>>

CompleteClear(i) ==
    /\ pc[i] = "x_clear"
    /\ flags' = flags \ {"cancel"}
    /\ Goto(i, "x_set")
    /\ UNCHANGED <<refs, outstanding, event, freed, handle, useVars, dllVars>>

CompleteSet(i) ==
    /\ pc[i] = "x_set"
    /\ SetEvent(i)
    /\ Goto(i, "x_deref")
    /\ UNCHANGED <<refs, outstanding, flags, freed, handle, closing, member, cancels,
                   grouping, due, misled, dllVars>>

CompleteDeref(i) ==
    /\ pc[i] = "x_deref"
    /\ Dereference
    /\ Goto(i, "none")
    /\ UNCHANGED <<outstanding, event, flags, handle, useVars, dllVars>>

-----------------------------------------------------------------------------
(* WaitForThreadpoolWorkCallbacks                                            *)

CallWait(c, cancel) ==
    /\ pc[c] = "idle" /\ ~closing
    /\ cancels' = IF cancel THEN cancels \cup {c} ELSE cancels
    /\ due' = [due EXCEPT ![c] = Unfinished]
    /\ Goto(c, "w_ref")
    /\ UNCHANGED <<objVars, closing, member, grouping, lateVars, dllVars>>

(* Mutant: the wait takes no reference.                                      *)
WaitNoRef(c) ==
    /\ pc[c] = "w_ref"
    /\ Goto(c, IF c \in cancels THEN "w_cancel" ELSE "w_wait")
    /\ UNCHANGED <<objVars, useVars, dllVars>>

(* A count of zero means that the object is gone.                            *)
WaitRef(c) ==
    /\ pc[c] = "w_ref"
    /\ refs' = refs + 1
    /\ Goto(c, IF refs' <= 1 THEN Return(c) ELSE IF c \in cancels THEN "w_cancel" ELSE "w_wait")
    /\ UNCHANGED <<outstanding, event, flags, freed, handle, useVars, dllVars>>

WaitCancel(c) ==
    /\ pc[c] = "w_cancel"
    /\ flags' = flags \cup {"cancel"}
    /\ Goto(c, "w_wait")
    /\ UNCHANGED <<refs, outstanding, event, freed, handle, useVars, dllVars>>

WaitOver(c) ==
    /\ pc[c] = "w_wait" /\ event
    /\ misled' = IF stale THEN misled \cup {c} ELSE misled
    /\ Goto(c, IF c \in cancels THEN "w_clear" ELSE "w_deref")
    /\ UNCHANGED <<objVars, closing, member, cancels, grouping, due, late, stale, dllVars>>

WaitClear(c) ==
    /\ pc[c] = "w_clear"
    /\ flags' = flags \ {"cancel"}
    /\ cancels' = cancels \ {c}
    /\ Goto(c, "w_deref")
    /\ UNCHANGED <<refs, outstanding, event, freed, handle, closing, member, grouping, due, lateVars, dllVars>>

WaitDeref(c) ==
    /\ pc[c] = "w_deref"
    /\ Dereference
    /\ due' = [due EXCEPT ![c] = {}]
    /\ misled' = IF c \in grouping THEN misled ELSE misled \ {c}
    /\ Goto(c, Return(c))
    /\ UNCHANGED <<outstanding, event, flags, handle, closing, member, cancels, grouping,
                   late, stale, dllVars>>

-----------------------------------------------------------------------------
(* CloseThreadpoolWork and CloseThreadpoolCleanupGroupMembers                *)

(* The contract of a close: it is the first one, and every thread inside a   *)
(* call has its own reference.                                               *)
MayClose(p) ==
    /\ MayCall(p) /\ ~closing
    /\ \A c \in Client : pc[c] \notin {"s_check", "s_ref", "w_ref"}

CallClose(p) ==
    /\ MayClose(p)
    /\ closing' = TRUE
    /\ Goto(p, "c_read")
    /\ UNCHANGED <<objVars, member, cancels, grouping, due, lateVars, dllVars>>

(* LdkpUnregisterThreadpoolCleanupGroupMember reads the group without its    *)
(* lock and compares again under it.                                         *)
CloseRead(p) ==
    /\ pc[p] = "c_read"
    /\ Goto(p, IF member THEN "c_lock" ELSE "c_delete")
    /\ UNCHANGED <<objVars, useVars, dllVars>>

CloseUnregister(p) ==
    /\ pc[p] = "c_lock"
    /\ member' = FALSE
    /\ Goto(p, "c_delete")
    /\ UNCHANGED <<objVars, closing, cancels, grouping, due, lateVars, dllVars>>

CloseDelete(p) ==
    /\ pc[p] = "c_delete"
    /\ flags' = flags \cup {"delete"}
    /\ Goto(p, "c_deref")
    /\ UNCHANGED <<refs, outstanding, event, freed, handle, useVars, dllVars>>

CloseDeref(p) ==
    /\ pc[p] = "c_deref"
    /\ Dereference
    /\ handle' = FALSE
    /\ Goto(p, Return(p))
    /\ UNCHANGED <<outstanding, event, flags, useVars, dllVars>>

(* The members leave the group's list under its lock.  All calls of the      *)
(* driver's threads into the object are over; its callbacks need not be.     *)
CallGroupClose(c, cancel) ==
    /\ c \in Client /\ member /\ MayClose(c)
    /\ \A d \in Client : pc[d] \notin SubmitPc
    /\ closing' = TRUE /\ member' = FALSE
    /\ grouping' = grouping \cup {c}
    /\ cancels' = IF cancel THEN cancels \cup {c} ELSE cancels
    /\ Goto(c, "g_delete")
    /\ UNCHANGED <<objVars, due, lateVars, dllVars>>

(* The work object is marked, then WaitForThreadpoolWorkCallbacks is called. *)
GroupDelete(c) ==
    /\ pc[c] = "g_delete"
    /\ flags' = flags \cup {"delete"}
    /\ due' = [due EXCEPT ![c] = Unfinished]
    /\ Goto(c, "w_ref")
    /\ UNCHANGED <<refs, outstanding, event, freed, handle, closing, member, cancels, grouping, lateVars, dllVars>>

(* The cleanup callback, if there is one.                                    *)
GroupCallback(c) ==
    /\ pc[c] = "g_callback"
    /\ Goto(c, "g_deref")
    /\ UNCHANGED <<objVars, useVars, dllVars>>

(* Mutant: the reference of the handle is not given up.                      *)
GroupDerefMissing(c) ==
    /\ pc[c] = "g_deref"
    /\ grouping' = grouping \ {c} /\ misled' = misled \ {c}
    /\ Goto(c, "idle")
    /\ UNCHANGED <<objVars, closing, member, cancels, due, late, stale, dllVars>>

GroupDeref(c) ==
    /\ pc[c] = "g_deref"
    /\ Dereference
    /\ handle' = FALSE /\ grouping' = grouping \ {c} /\ misled' = misled \ {c}
    /\ Goto(c, "idle")
    /\ UNCHANGED <<outstanding, event, flags, closing, member, cancels, due, late, stale,
                   dllVars>>

-----------------------------------------------------------------------------
(* The driver gives up its reference to the DLL itself.                      *)
FreeLibrary ==
    /\ own
    /\ own' = FALSE /\ dll' = dll - 1
    /\ UNCHANGED <<pc, objVars, useVars, held, deferred, leaked>>

(* The object is closed and every thread is out of its calls.                *)
Finished ==
    /\ closing /\ ~own
    /\ \A p \in Proc : pc[p] \in {"idle", "none"}
    /\ UNCHANGED vars

Submit(p) == \/ CallSubmit(p) \/ SubmitCheck(p) \/ SubmitRef(p) \/ SubmitOut(p)
             \/ SubmitReset(p) \/ SubmitAllocFails(p) \/ SubmitUndo(p)
             \/ SubmitSet(p) \/ SubmitDeref(p)
             \/ \E i \in Item : SubmitQueue(p, i)

Worker(i) == \/ Dequeue(i) \/ CallbackReturns(i) \/ EndCallback(i)
             \/ CompleteOut(i) \/ CompleteClear(i) \/ CompleteSet(i) \/ CompleteDeref(i)

Wait(c) == \/ \E cancel \in BOOLEAN : CallWait(c, cancel)
           \/ WaitRef(c) \/ WaitCancel(c) \/ WaitOver(c) \/ WaitClear(c) \/ WaitDeref(c)

CloseSteps(p) == CloseRead(p) \/ CloseUnregister(p) \/ CloseDelete(p) \/ CloseDeref(p)

GroupClose(c) == \/ \E cancel \in BOOLEAN : CallGroupClose(c, cancel)
                 \/ GroupDelete(c) \/ GroupCallback(c) \/ GroupDeref(c)

Next ==
    \/ \E p \in Proc : Submit(p) \/ CallClose(p) \/ CloseSteps(p)
    \/ \E i \in Item : Worker(i) \/ DeferFree(i)
    \/ \E c \in Client : Wait(c) \/ GroupClose(c)
    \/ FreeLibrary
    \/ Finished

Spec == Init /\ [][Next]_vars
-----------------------------------------------------------------------------
(* Properties                                                                *)

One(b) == IF b THEN 1 ELSE 0

(* The object is back on its lookaside list only when no thread is inside a  *)
(* call on it, no work item names it and its handle is closed.               *)
NoUseAfterFree ==
    freed => ~handle /\ \A p \in Proc : pc[p] \in {"idle", "none"}

(* WaitForThreadpoolWorkCallbacks returns only when every callback that was  *)
(* submitted before the call has returned or been cancelled, and the cleanup *)
(* group closes its member only when no callback is left, although threads   *)
(* and callbacks submit the object again meanwhile.  One history is excepted *)
(* and no more: the wait ended on an event that was set late, by a           *)
(* completion (or a failed submission) that took the count to zero, and      *)
(* whose KeSetEvent came after the KeResetEvent of a later submission.       *)
WaitDrains ==
    /\ \A c \in Client : pc[c] \in {"w_clear", "w_deref"} /\ c \notin misled => due[c] = {}
    /\ \A c \in Client : pc[c] \in {"g_callback", "g_deref"} /\ c \notin misled => Unfinished = {}

(* However submissions and completions overlap, the event is not left reset  *)
(* when nothing is outstanding: a wait does not hang.                        *)
NoLostEvent ==
    outstanding = 0 /\ Setting = {} => event

(* The references and the event of a work object agree with its users: it  *)
(* is freed under nobody, and nobody waits for a callback that is not      *)
(* outstanding.                                                            *)
WorkObjectSafe == NoUseAfterFree /\ NoLostEvent

(* The load count of the callbacks' DLL is the references that are accounted *)
(* for; the DLL a work item holds for its callback is loaded until it ends.  *)
DllExact ==
    dll = One(own) + Cardinality(held) + Cardinality(deferred) + One(leaked)

(* Every step of a call that has started, and every work item, goes on; a    *)
(* callback returns, however often it calls SubmitThreadpoolWork before.     *)
Fairness ==
    /\ \A p \in Proc : WF_vars(pc[p] # "idle" /\ pc[p] # "run" /\ (Submit(p) \/ CloseSteps(p)))
    /\ \A c \in Client : WF_vars(pc[c] # "idle" /\ (Wait(c) \/ GroupClose(c)))
    /\ \A i \in Item : WF_vars(Worker(i)) /\ SF_vars(CallbackReturns(i))

FairSpec == Spec /\ Fairness

(* Once it is closed the object is freed, and a wait that is under way is    *)
(* over before that: no interleaving of resubmissions, cancellation and      *)
(* completion leaves the event reset for ever.                               *)
ClosedIsFreed == closing ~> freed

=============================================================================
