------------------------------ MODULE WaitObjects ------------------------------
(***************************************************************************)
(* The LDK-owned handles of kernel32/processhandle.c: a global list of     *)
(* handles, the wait objects (mutants) they refer to and the registry of   *)
(* named objects.                                                          *)
(*                                                                         *)
(* A wait object has two counts.  ReferenceCount keeps its memory,         *)
(* HandleCount its name: the handle that takes HandleCount to zero takes   *)
(* the object out of the registry.  The handle list has a spin lock and    *)
(* the registry a fast mutex; the counts are interlocked words outside     *)
(* both.                                                                   *)
(*                                                                         *)
(* Calls that fail before they change anything (a bad handle, a missing    *)
(* access right) are stutters.  A driver gives a mutex up before it closes *)
(* the last handle to it, and does not wait for a mutex it owns.           *)
(***************************************************************************)
EXTENDS Integers, FiniteSets

CONSTANTS
    Thread,       \* threads of the driver
    Obj,          \* memory of wait objects, reused when free
    Handle,       \* memory of handles, reused when free
    Name,         \* names of mutexes
    None,         \* no object, no handle, no name, no owner
    MaxDrift      \* bound: duplications that leave HandleCount short

ASSUME WOAssumption ==
    /\ IsFiniteSet(Thread) /\ IsFiniteSet(Handle)
    /\ None \notin Thread \cup Obj \cup Handle \cup Name
    /\ MaxDrift \in Nat

VARIABLES
    pc,        \* where each thread is
    cur,       \* WaitObject of the call a thread is in
    want,      \* Name of the call
    source,    \* SourceHandle of a DuplicateHandle with DUPLICATE_CLOSE_SOURCE
    hobj,      \* LdkpProcessHandleListHead: the object of each listed handle
    alive,     \* objects that are allocated
    refs,      \* ReferenceCount
    hcount,    \* HandleCount
    name,      \* Name
    registry,  \* LdkpNamedWaitObjectListHead: the objects with Named = TRUE
    owner,     \* the thread that owns the mutant (the kernel's KMUTANT)
    down,      \* LdkpTerminateProcessHandles has taken the list
    strained   \* ghost: a handle was duplicated, or two calls that change
               \* the registry have overlapped

callVars == <<cur, want, source>>
objVars  == <<alive, refs, hcount, name, registry, owner>>
life     == <<down, strained>>
vars     == <<pc, callVars, hobj, objVars, life>>

Goto(t, l) == pc' = [pc EXCEPT ![t] = l]

(* The call returns; its local variables are gone.                           *)
Return(t) == /\ Goto(t, "idle")
             /\ cur' = [cur EXCEPT ![t] = None]
             /\ want' = [want EXCEPT ![t] = None]
             /\ source' = [source EXCEPT ![t] = None]

(* The memory of o goes back to its lookaside list; its fields mean nothing. *)
Free(o) == /\ alive' = alive \ {o}
           /\ name' = [name EXCEPT ![o] = None]
           /\ owner' = [owner EXCEPT ![o] = None]

Open == {h \in Handle : hobj[h] # None}

(* LdkpFindNamedWaitObjectLocked.                                            *)
Find(n) == {o \in registry : name[o] = n}

Init ==
    /\ pc = [t \in Thread |-> "idle"]
    /\ cur = [t \in Thread |-> None] /\ want = [t \in Thread |-> None]
    /\ source = [t \in Thread |-> None]
    /\ hobj = [h \in Handle |-> None]
    /\ alive = {} /\ registry = {}
    /\ refs = [o \in Obj |-> 0] /\ hcount = [o \in Obj |-> 0]
    /\ name = [o \in Obj |-> None] /\ owner = [o \in Obj |-> None]
    /\ down = FALSE /\ strained = FALSE

(* A thread starts a call, maybe while another is between the steps of one   *)
(* that changes the registry.                                                *)
Ready(t) == pc[t] = "idle" /\ ~down
ChangesNames(t) ==
    strained' = (strained \/ \E u \in Thread \ {t} :
                    pc[u] \notin {"idle", "u_wait", "u_release", "r_deref"})

-----------------------------------------------------------------------------
(* LdkCreateMutantHandle, LdkOpenMutantHandle                                *)

(* Fault: an opened name raises ReferenceCount only.                        *)
FindUncounted(t, n) ==
    /\ Ready(t) /\ ChangesNames(t) /\ n \in Name
    /\ \E o \in Find(n) : refs' = [refs EXCEPT ![o] = @ + 1] /\ cur' = [cur EXCEPT ![t] = o]
    /\ Goto(t, "handle")
    /\ UNCHANGED <<want, source, hobj, alive, hcount, name, registry, owner, down>>

(* LdkpReferenceWaitObjectHandle.                                            *)
RefHandle(o) == /\ hcount' = [hcount EXCEPT ![o] = @ + 1]
                /\ refs' = [refs EXCEPT ![o] = @ + 1]

FindExisting(t, n) ==
    /\ Ready(t) /\ ChangesNames(t) /\ n \in Name
    /\ \E o \in Find(n) : RefHandle(o) /\ cur' = [cur EXCEPT ![t] = o]
    /\ Goto(t, "handle")
    /\ UNCHANGED <<want, source, hobj, alive, name, registry, owner, down>>

CreateNew(t, n) ==
    /\ Ready(t) /\ ChangesNames(t) /\ n \in Name \cup {None}
    /\ n \in Name => Find(n) = {}
    /\ want' = [want EXCEPT ![t] = n]
    /\ Goto(t, "c_alloc")
    /\ UNCHANGED <<cur, source, hobj, objVars, down>>

CreateAlloc(t, o, initialOwner) ==
    /\ pc[t] = "c_alloc" /\ o \notin alive
    /\ alive' = alive \cup {o}
    /\ refs' = [refs EXCEPT ![o] = 1] /\ hcount' = [hcount EXCEPT ![o] = 1]
    /\ name' = [name EXCEPT ![o] = want[t]]
    /\ owner' = [owner EXCEPT ![o] = IF initialOwner THEN t ELSE None]
    /\ cur' = [cur EXCEPT ![t] = o]
    /\ Goto(t, IF want[t] = None THEN "handle" ELSE "c_insert")
    /\ UNCHANGED <<want, source, hobj, registry, life>>

(* The object, or the copy of its name, cannot be allocated.                 *)
CreateAllocFails(t) ==
    /\ pc[t] = "c_alloc"
    /\ Return(t)
    /\ UNCHANGED <<hobj, objVars, life>>

CreateInsert(t) ==
    /\ pc[t] = "c_insert" /\ Find(want[t]) = {}
    /\ registry' = registry \cup {cur[t]}
    /\ Goto(t, "handle")
    /\ UNCHANGED <<callVars, hobj, alive, refs, hcount, name, owner, life>>

(* Another thread was first: its object is used and the own one, which       *)
(* nobody else has seen, is released.                                        *)
CreateLost(t) ==
    /\ pc[t] = "c_insert"
    /\ \E o \in Find(want[t]) :
        /\ hcount' = [hcount EXCEPT ![o] = @ + 1, ![cur[t]] = 0]
        /\ refs' = [refs EXCEPT ![o] = @ + 1, ![cur[t]] = 0]
        /\ cur' = [cur EXCEPT ![t] = o]
    /\ Free(cur[t])
    /\ Goto(t, "handle")
    /\ UNCHANGED <<want, source, hobj, registry, life>>

(* Fault: the reference is kept when the handle cannot be made.             *)
HandleFailsKeepsRef(t) ==
    /\ pc[t] = "handle"
    /\ Return(t)
    /\ UNCHANGED <<hobj, objVars, life>>

(* LdkpCreateProcessHandle.                                                  *)
HandleMade(t, h) ==
    /\ pc[t] = "handle" /\ h \notin Open
    /\ hobj' = [hobj EXCEPT ![h] = cur[t]]
    /\ IF source[t] = None THEN Return(t) ELSE Goto(t, "d_close") /\ UNCHANGED callVars
    /\ UNCHANGED <<objVars, life>>

HandleFails(t) ==
    /\ pc[t] = "handle"
    /\ source' = [source EXCEPT ![t] = None]
    /\ Goto(t, "r_dec")
    /\ UNCHANGED <<cur, want, hobj, objVars, life>>

-----------------------------------------------------------------------------
(* LdkCloseProcessHandle                                                     *)

(* Closing the last handle of a mutex that is owned or waited for is left    *)
(* to no driver.                                                             *)
MayClose(h) ==
    \/ \E g \in Open \ {h} : hobj[g] = hobj[h]
    \/ /\ owner[hobj[h]] = None
       /\ \A u \in Thread : pc[u] \in {"u_wait", "u_release"} => cur[u] # hobj[h]

Take(t, h) ==
    /\ hobj' = [hobj EXCEPT ![h] = None]
    /\ cur' = [cur EXCEPT ![t] = hobj[h]]
    /\ Goto(t, "r_dec")

CloseHandle(t, h) ==
    /\ Ready(t) /\ ChangesNames(t) /\ h \in Open /\ MayClose(h)
    /\ Take(t, h)
    /\ UNCHANGED <<want, source, objVars, down>>

(* LdkpReleaseWaitObjectHandleReference: the count, then the registry, which *)
(* is looked at again under its lock, then the reference.                    *)
ReleaseCount(t) ==
    /\ pc[t] = "r_dec"
    /\ hcount' = [hcount EXCEPT ![cur[t]] = @ - 1]
    /\ Goto(t, IF hcount[cur[t]] = 1 /\ cur[t] \in registry THEN "r_unname" ELSE "r_deref")
    /\ UNCHANGED <<callVars, hobj, alive, refs, name, registry, owner, life>>

ReleaseName(t) ==
    /\ pc[t] = "r_unname"
    /\ registry' = registry \ {cur[t]}
    /\ Goto(t, "r_deref")
    /\ UNCHANGED <<callVars, hobj, alive, refs, hcount, name, owner, life>>

(* LdkpDereferenceWaitObject.                                                *)
Dereference(t) ==
    /\ pc[t] = "r_deref"
    /\ refs' = [refs EXCEPT ![cur[t]] = @ - 1]
    /\ IF refs[cur[t]] = 1
       THEN Free(cur[t]) /\ hcount' = [hcount EXCEPT ![cur[t]] = 0]
       ELSE UNCHANGED <<alive, name, owner, hcount>>
    /\ Return(t)
    /\ UNCHANGED <<hobj, registry, life>>

-----------------------------------------------------------------------------
(* LdkDuplicateProcessHandle                                                 *)

(* The object is referenced under the lock of the handle list.  Its          *)
(* HandleCount is not changed; a failure to make the handle releases both.   *)
Duplicate(t, h, closeSource) ==
    /\ Ready(t) /\ h \in Open
    /\ strained' = TRUE
    /\ hcount[hobj[h]] > 0 - MaxDrift
    /\ refs' = [refs EXCEPT ![hobj[h]] = @ + 1]
    /\ cur' = [cur EXCEPT ![t] = hobj[h]]
    /\ source' = [source EXCEPT ![t] = IF closeSource THEN h ELSE None]
    /\ Goto(t, "handle")
    /\ UNCHANGED <<want, hobj, alive, hcount, name, registry, owner, down>>

DuplicateClose(t) ==
    /\ pc[t] = "d_close"
    /\ IF source[t] \in Open
       THEN Take(t, source[t]) /\ source' = [source EXCEPT ![t] = None] /\ want' = want
       ELSE Return(t) /\ hobj' = hobj
    /\ UNCHANGED <<objVars, life>>

-----------------------------------------------------------------------------
(* WaitForSingleObjectEx and LdkReleaseMutantHandle hold a reference while   *)
(* they use the object; the handle may be closed meanwhile.                  *)

UseHandle(t, h, l) ==
    /\ Ready(t) /\ h \in Open
    /\ l = "u_wait" => owner[hobj[h]] # t
    /\ refs' = [refs EXCEPT ![hobj[h]] = @ + 1]
    /\ cur' = [cur EXCEPT ![t] = hobj[h]]
    /\ Goto(t, l)
    /\ UNCHANGED <<want, source, hobj, alive, hcount, name, registry, owner, life>>

Acquire(t) ==
    /\ pc[t] = "u_wait" /\ owner[cur[t]] = None
    /\ owner' = [owner EXCEPT ![cur[t]] = t]
    /\ Goto(t, "r_deref")
    /\ UNCHANGED <<callVars, hobj, alive, refs, hcount, name, registry, life>>

TimesOut(t) ==
    /\ pc[t] = "u_wait"
    /\ Goto(t, "r_deref")
    /\ UNCHANGED <<callVars, hobj, objVars, life>>

(* KeReleaseMutant raises when the caller is not the owner; the exception is *)
(* caught and the reference dropped.                                         *)
ReleaseMutant(t) ==
    /\ pc[t] = "u_release"
    /\ owner' = [owner EXCEPT ![cur[t]] = IF @ = t THEN None ELSE @]
    /\ Goto(t, "r_deref")
    /\ UNCHANGED <<callVars, hobj, alive, refs, hcount, name, registry, life>>

-----------------------------------------------------------------------------
(* LdkpTerminateProcessHandles, when the driver's threads are gone: every    *)
(* handle that is left is released, one after the other, by one thread.      *)
TerminateHandles(t) ==
    /\ \A u \in Thread : pc[u] = "idle"
    /\ down' = TRUE
    /\ IF Open = {}
       THEN UNCHANGED <<pc, cur, hobj>>
       ELSE \E h \in Open : Take(t, h)
    /\ UNCHANGED <<want, source, objVars, strained>>

Next ==
    \E t \in Thread :
        \/ \E n \in Name \cup {None} : FindExisting(t, n) \/ CreateNew(t, n)
        \/ \E o \in Obj, io \in BOOLEAN : CreateAlloc(t, o, io)
        \/ CreateAllocFails(t) \/ CreateInsert(t) \/ CreateLost(t)
        \/ \E h \in Handle : HandleMade(t, h)
        \/ HandleFails(t)
        \/ \E h \in Handle : CloseHandle(t, h)
        \/ ReleaseCount(t) \/ ReleaseName(t) \/ Dereference(t)
        \/ \E h \in Handle, c \in BOOLEAN : Duplicate(t, h, c)
        \/ DuplicateClose(t)
        \/ \E h \in Handle, l \in {"u_wait", "u_release"} : UseHandle(t, h, l)
        \/ Acquire(t) \/ TimesOut(t) \/ ReleaseMutant(t)
        \/ TerminateHandles(t)

Spec == Init /\ [][Next]_vars

-----------------------------------------------------------------------------
(* Properties                                                                *)

HoldsRef == {"handle", "r_dec", "r_unname", "r_deref", "u_wait", "u_release", "c_insert"}

Holders(o) == {h \in Handle : hobj[h] = o}
Users(o)   == {t \in Thread : pc[t] \in HoldsRef /\ cur[t] = o}

(* ReferenceCount is the number of handles and calls that use the object,    *)
(* and the memory is given back exactly when there is none.                  *)
ReferencesExact ==
    \A o \in Obj :
        /\ o \in alive => refs[o] = Cardinality(Holders(o)) + Cardinality(Users(o))
        /\ o \notin alive => Holders(o) = {} /\ Users(o) = {}
        /\ o \in alive => refs[o] > 0

(* The registry lists only objects that are allocated, and one of each name. *)
RegistrySafe ==
    /\ registry \subseteq alive
    /\ \A n \in Name : Cardinality(Find(n)) <= 1

(* Whichever allocation fails, an object of the process lives exactly as   *)
(* long as its handles and the calls that use it, and can be found by its  *)
(* name only while it lives.                                               *)
WaitObjectsSafe == ReferencesExact /\ RegistrySafe

(* Whoever opens or creates the name of a mutex that has an open handle gets *)
(* that mutex, as long as no handle is duplicated and the calls that change  *)
(* the registry come one after the other.                                    *)
NameKept ==
    strained \/ \A h \in Open : name[hobj[h]] # None => Find(name[hobj[h]]) = {hobj[h]}
=============================================================================
