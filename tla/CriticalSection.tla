--------------------------- MODULE CriticalSection ---------------------------
(***************************************************************************)
(* Critical sections, src/src/ntdll/resource.c.  One global fast mutex     *)
(* guards the fields of every critical section, so what the code does      *)
(* under it is one step.  A thread that finds the section owned makes sure *)
(* that its wait list exists (the list is allocated by the first contender *)
(* and installed with a compare-exchange outside the mutex), queues a wait *)
(* block of its own stack and blocks without a timeout.  The last leave of *)
(* the owner hands the section to the first waiter under the mutex and     *)
(* signals its event after releasing it.                                   *)
(***************************************************************************)
EXTENDS Integers, FiniteSets, Sequences, Threads

CONSTANTS
  NoThread,      \* OwningThread is NULL
  MaxDepth,      \* bound: nested enters of one thread
  AllocMayFail   \* may ExAllocatePoolWithTag return NULL

ASSUME NoThreadAssumption == NoThread \notin Thread

VARIABLES
  owner,         \* OwningThread
  recursion,     \* RecursionCount
  lockCount,     \* LockCount
  hasList,       \* LockSemaphore holds a wait list
  queue,         \* State->WaitList, by thread
  signalled,     \* threads whose WaitBlock.Event is set
  cpc,           \* where each thread is in resource.c
  wakes,         \* thread whose event the leaving thread is about to set
  depth,         \* enters minus leaves of each thread, as its caller counts
  pool           \* wait lists allocated and not freed

csVars == <<owner, recursion, lockCount, hasList, queue, signalled, cpc, wakes,
            depth, pool>>
fields == <<owner, recursion, lockCount>>

CSInit ==
  /\ owner = NoThread
  /\ recursion = 0
  /\ lockCount = -1
  /\ hasList = FALSE
  /\ queue = <<>>
  /\ signalled = {}
  /\ cpc = [t \in Thread |-> "out"]
  /\ wakes = [t \in Thread |-> t]
  /\ depth = [t \in Thread |-> 0]
  /\ pool = 0

CGoto(t, label) == cpc' = [cpc EXCEPT ![t] = label]
Deeper(t) == depth' = [depth EXCEPT ![t] = @ + 1]

(* RtlTryEnterCriticalSection, and the first branches of the enter loop.   *)
Take(t) ==
  /\ \/ /\ owner = NoThread
        /\ owner' = t /\ lockCount' = 0 /\ recursion' = 1
     \/ /\ owner = t
        /\ recursion' = recursion + 1
        /\ UNCHANGED <<owner, lockCount>>
  /\ Deeper(t)

(***************************************************************************)
(* RtlEnterCriticalSection.                                                *)
(***************************************************************************)
Enter(t) ==
  /\ cpc[t] \in {"out", "again"} /\ depth[t] < MaxDepth
  /\ \/ Take(t) /\ CGoto(t, "out") /\ UNCHANGED queue
     \/ /\ owner \notin {NoThread, t}
        /\ ~hasList
        /\ CGoto(t, "alloc")
        /\ UNCHANGED <<fields, queue, depth>>
     \/ /\ owner \notin {NoThread, t}
        /\ hasList
        /\ lockCount' = lockCount + 1
        /\ queue' = Append(queue, t)
        /\ CGoto(t, "blocked")
        /\ UNCHANGED <<owner, recursion, depth>>
  /\ UNCHANGED <<hasList, signalled, wakes, pool>>

TryEnter(t) ==
  /\ cpc[t] = "out" /\ depth[t] < MaxDepth
  /\ Take(t)
  /\ UNCHANGED <<hasList, queue, signalled, cpc, wakes, pool>>

(* LdkpEnsureCriticalSectionState: an unsynchronised look, an allocation,  *)
(* and a compare-exchange that the loser answers by freeing its list.      *)
AllocateList(t) ==
  /\ cpc[t] = "alloc"
  /\ \/ hasList /\ CGoto(t, "again") /\ UNCHANGED pool
     \/ ~hasList /\ CGoto(t, "install") /\ pool' = pool + 1
     \/ ~hasList /\ AllocMayFail /\ CGoto(t, "out") /\ UNCHANGED pool
  /\ UNCHANGED <<fields, hasList, queue, signalled, wakes, depth>>

(* Fault: the list is stored without a compare-exchange.                   *)
InstallListStore(t) ==
  /\ cpc[t] = "install"
  /\ hasList' = TRUE
  /\ queue' = <<>>
  /\ CGoto(t, "again")
  /\ UNCHANGED <<fields, signalled, wakes, depth, pool>>

InstallList(t) ==
  /\ cpc[t] = "install"
  /\ IF hasList THEN pool' = pool - 1 /\ UNCHANGED hasList
                ELSE hasList' = TRUE /\ UNCHANGED pool
  /\ CGoto(t, "again")
  /\ UNCHANGED <<fields, queue, signalled, wakes, depth>>

(* KeWaitForSingleObject, which without a timeout only returns satisfied:  *)
(* the thread owns the section already.                                    *)
WaitSatisfied(t) ==
  /\ cpc[t] = "blocked" /\ t \in signalled
  /\ signalled' = signalled \ {t}
  /\ Deeper(t)
  /\ CGoto(t, "out")
  /\ UNCHANGED <<fields, hasList, queue, wakes, pool>>

(***************************************************************************)
(* RtlLeaveCriticalSection.                                                *)
(***************************************************************************)
Free ==
  /\ owner' = NoThread /\ lockCount' = -1 /\ recursion' = 0
  /\ UNCHANGED queue

(* Fault: the section is freed, and the waiter signalled to try again.     *)
HandOverFrees(u) ==
  /\ queue' = Tail(queue)
  /\ owner' = NoThread
  /\ recursion' = 0
  /\ lockCount' = lockCount - 1

HandOver(u) ==
  /\ queue' = Tail(queue)
  /\ owner' = u
  /\ recursion' = 1
  /\ lockCount' = lockCount - 1

Leave(t) ==
  /\ cpc[t] = "out" /\ depth[t] > 0
  /\ \/ /\ owner # t \/ recursion <= 0
        /\ CGoto(t, "raised")
        /\ UNCHANGED <<fields, queue, wakes, depth>>
     \/ /\ owner = t /\ recursion > 0
        /\ depth' = [depth EXCEPT ![t] = @ - 1]
        /\ \/ /\ recursion > 1
              /\ recursion' = recursion - 1
              /\ UNCHANGED <<owner, lockCount, queue, cpc, wakes>>
           \/ /\ recursion = 1 /\ queue = <<>>
              /\ Free
              /\ UNCHANGED <<cpc, wakes>>
           \/ /\ recursion = 1 /\ queue # <<>>
              /\ HandOver(Head(queue))
              /\ wakes' = [wakes EXCEPT ![t] = Head(queue)]
              /\ CGoto(t, "signal")
  /\ UNCHANGED <<hasList, signalled, pool>>

(* Fault: the event of the thread that was handed the section is not set.   *)
SignalNobody(t) ==
  /\ cpc[t] = "signal"
  /\ wakes' = [wakes EXCEPT ![t] = t]
  /\ CGoto(t, "out")
  /\ UNCHANGED <<fields, hasList, queue, signalled, depth, pool>>

Signal(t) ==
  /\ cpc[t] = "signal"
  /\ signalled' = signalled \cup {wakes[t]}
  /\ wakes' = [wakes EXCEPT ![t] = t]
  /\ CGoto(t, "out")
  /\ UNCHANGED <<fields, hasList, queue, depth, pool>>

(* RtlDeleteCriticalSection: its caller makes sure that nobody is using    *)
(* the section.  What remains is as good as initialised.                   *)
Delete ==
  /\ owner = NoThread
  /\ \A t \in Thread : cpc[t] = "out"
  /\ hasList
  /\ hasList' = FALSE
  /\ pool' = pool - 1
  /\ UNCHANGED <<fields, queue, signalled, cpc, wakes, depth>>

EnterStep(t) ==
  \/ cpc[t] = "again" /\ Enter(t)
  \/ AllocateList(t) \/ InstallList(t) \/ WaitSatisfied(t)

CSNext ==
  \/ \E t \in Thread :
       \/ cpc[t] = "out" /\ Enter(t)
       \/ TryEnter(t) \/ EnterStep(t) \/ Leave(t) \/ Signal(t)
  \/ Delete

CSSpec == CSInit /\ [][CSNext]_csVars

(* Threads run when they can, and whoever is inside leaves in the end (it  *)
(* may enter again before that, so leaving is a matter of persistence).    *)
CSFairness ==
  \A t \in Thread : /\ WF_csVars(EnterStep(t)) /\ WF_csVars(Signal(t))
                    /\ SF_csVars(Leave(t) /\ depth'[t] = 0)
                    /\ WF_csVars(Leave(t) /\ depth[t] = MaxDepth)

CSFairSpec == CSSpec /\ CSFairness
-----------------------------------------------------------------------------
InQueue(t) == \E i \in DOMAIN queue : queue[i] = t
Inside == {t \in Thread : depth[t] > 0}

(* Threads to which the section was handed over and which have not         *)
(* returned from RtlEnterCriticalSection yet.                              *)
Chosen == {t \in Thread : cpc[t] = "blocked" /\ ~InQueue(t)}

(* Types, and no thread is queued twice.                                   *)
CSTypeOK ==
  /\ owner \in Thread \cup {NoThread}
  /\ recursion \in Nat
  /\ lockCount \in Int
  /\ hasList \in BOOLEAN
  /\ queue \in Seq(Thread)
  /\ \A i, j \in DOMAIN queue : queue[i] = queue[j] => i = j
  /\ signalled \in SUBSET Thread
  /\ cpc \in [Thread -> {"out", "again", "alloc", "install", "blocked", "signal",
                         "raised"}]
  /\ wakes \in [Thread -> Thread]
  /\ depth \in [Thread -> Nat]
  /\ pool \in Nat

(* One thread is inside, it is the owner, and it is nested as deep as      *)
(* RecursionCount says; to leave never raises STATUS_RESOURCE_NOT_OWNED.   *)
OwnerExact ==
  \A t \in Thread :
    /\ depth[t] > 0 => owner = t /\ recursion = depth[t]
    /\ cpc[t] # "raised"

(* LockCount is -1 for a free section and counts the waiters of an owned   *)
(* one; only an owned section has waiters.                                 *)
LockCountExact ==
  lockCount = IF owner = NoThread THEN -1 ELSE Len(queue)

(* The section is handed to one waiter, which owns it before it runs and   *)
(* is sent exactly one signal; an owner is inside or was handed the        *)
(* section, so that no section is orphaned.                                *)
HandOverExact ==
  /\ \A t \in Chosen :
       /\ owner = t /\ recursion = 1 /\ depth[t] = 0
       /\ Cardinality({u \in Thread : cpc[u] = "signal" /\ wakes[u] = t})
          + (IF t \in signalled THEN 1 ELSE 0) = 1
  /\ owner # NoThread => owner \in Inside \cup Chosen

(* Wait lists are not leaked: one per critical section in contention, and  *)
(* those about to be installed.                                            *)
ListsExact ==
  pool = (IF hasList THEN 1 ELSE 0)
         + Cardinality({t \in Thread : cpc[t] = "install"})

Lock == INSTANCE ReadWriteLock WITH readers <- {}, writers <- Inside

(* A critical section is an exclusive lock.                                *)
ImplementsLock == Lock!Spec

(* Waiters get the section in the order they came: nobody overtakes them.  *)
NoOvertaking ==
  [][queue # <<>> /\ owner' # owner => owner' = Head(queue)]_csVars

(* A thread that waits for the section gets it.                            *)
WaiterEnters == \A t \in Thread : (cpc[t] = "blocked") ~> (depth[t] > 0)
=============================================================================
