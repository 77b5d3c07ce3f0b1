------------------------------- MODULE TebMap -------------------------------
(***************************************************************************)
(* The list of TEBs and the slots in them: src/src/teb.c, FLS in src/src/  *)
(* kernel32/fibersapi.c, TLS in processthreadsapi.c and the static TLS of  *)
(* DLLs in src/src/ldk.c.                                                  *)
(*                                                                         *)
(* A TEB is made by the first call of a thread, found by its PETHREAD, and *)
(* stays in the list when the thread has ended: a later thread at the same *)
(* PETHREAD takes it over.  TEBs are named by their PETHREAD here.  They   *)
(* are deleted by LdkTerminate only, when no other thread is inside LDK,   *)
(* so taking rundown protection does not fail.  A new TEB is zeroed; the   *)
(* slots of a PETHREAD without a TEB are kept empty.                       *)
(*                                                                         *)
(* FlsFree, TlsFree and the unloading of a DLL walk round the list from    *)
(* the caller's TEB, one TEB at a time.  What is done under the PEB lock   *)
(* is exclusive, but FlsSetValue and the callbacks of an ending thread do  *)
(* not take it.                                                            *)
(***************************************************************************)
EXTENDS Integers, Sequences, FiniteSets

CONSTANTS
  TebWorker,     \* PETHREADs of threads made by CreateThread, reused
  TebDriver,     \* threads of the driver
  Unloader,      \* the thread that calls LdkTerminate
  NoTeb,         \* no thread
  FlsSlots,      \* LDK_FLS_SLOTS_SIZE
  TlsSlots,      \* LDK_TLS_SLOTS_SIZE
  MaxAllocs      \* bound: calls of FlsAlloc

TebThread == TebWorker \cup TebDriver \cup {Unloader}
FlsIndex == 1 .. FlsSlots
TlsIndex == 1 .. TlsSlots

ASSUME TebAssumption ==
  /\ NoTeb \notin TebThread
  /\ TebWorker \cap (TebDriver \cup {Unloader}) = {}
  /\ FlsSlots \in Nat /\ TlsSlots \in Nat /\ MaxAllocs \in Nat
  /\ IsFiniteSet(TebWorker) /\ IsFiniteSet(TebDriver)

VARIABLES
  tebs,        \* LdkpTebListHead
  temporary,   \* LdkpTemporaryTebListHead
  ending,      \* LDK_SHUTDOWN_IN_PROGRESS
  moved,       \* TebListHead of LdkpTerminateTebMap
  at,          \* what each thread is doing
  job,         \* its locals: kind of walk, index, callback, current TEB
  pebLock,     \* owner of the PEB lock
  flsOwner,    \* FlsBitmap: the FlsAlloc call an index belongs to, 0 if clear
  flsCallback, \* FlsCallbacks: the number of the FlsAlloc call, 0 is NULL
  flsSlot,     \* FlsSlots: the number of the FlsAlloc call it was stored under
  tlsBits,     \* TlsBitmap
  tlsSlot,     \* TlsSlots: NULL, a value of the driver or a static TLS block
  dll,         \* TlsIndex of the DLL with a TLS directory, 0 if not loaded
  listed,      \* the DLL is in the module list
  blocks,      \* static TLS blocks allocated and not freed
  allocs,      \* calls of FlsAlloc so far
  bare         \* some index without a callback was freed (history)

tebVars == <<tebs, temporary, ending, moved, at, job, pebLock, flsOwner,
             flsCallback, flsSlot, tlsBits, tlsSlot, dll, listed, blocks,
             allocs, bare>>
listVars == <<tebs, temporary>>
flsVars == <<flsOwner, flsCallback, flsSlot, allocs, bare>>
tlsVars == <<tlsBits, tlsSlot, dll, listed, blocks>>
endVars == <<ending, moved>>

Linked == {tebs[k] : k \in DOMAIN tebs}
NoJob == [kind |-> "none", index |-> 0, callback |-> 0, teb |-> NoTeb]

(* The thread that will unload the driver may have called LDK before.      *)
TebInit ==
  /\ tebs \in {<<>>, <<Unloader>>}
  /\ temporary = {} /\ ending = FALSE /\ moved = <<>>
  /\ at = [t \in TebThread |-> IF t \in TebWorker THEN "none" ELSE "idle"]
  /\ job = [t \in TebThread |-> NoJob]
  /\ pebLock = NoTeb
  /\ flsOwner = [i \in FlsIndex |-> 0] /\ flsCallback = [i \in FlsIndex |-> 0]
  /\ flsSlot = [t \in TebThread |-> [i \in FlsIndex |-> 0]]
  /\ tlsBits = {} /\ tlsSlot = [t \in TebThread |-> [i \in TlsIndex |-> "null"]]
  /\ dll = 0 /\ listed = FALSE /\ blocks = 0
  /\ allocs = 0 /\ bare = FALSE

At(t, label) == at' = [at EXCEPT ![t] = label]

(* LdkCurrentTeb.                                                          *)
CurrentTeb(t) ==
  IF t \in Linked \cup temporary
  THEN UNCHANGED listVars
  ELSE \/ ending /\ temporary' = temporary \cup {t} /\ UNCHANGED tebs
       \/ ~ending /\ tebs' = <<t>> \o tebs /\ UNCHANGED temporary

(* A thread that runs code of the driver or of a DLL.  Once LdkTerminate   *)
(* has begun that is only the detaching code which the unloader calls.     *)
MayCall(t) == at[t] = IF ending THEN "detach" ELSE "idle"

(* RtlFindClearBitsAndSet: the lowest clear bit.                           *)
Lowest(i, clear) == i \in clear /\ \A j \in clear : i <= j

-----------------------------------------------------------------------------
(* FLS.                                                                    *)

(* FlsAlloc: bitmap, callback and the caller's own slot, under the lock.   *)
FlsAlloc(t, i, withCallback) ==
  /\ MayCall(t) /\ pebLock = NoTeb /\ allocs < MaxAllocs
  /\ Lowest(i, {j \in FlsIndex : flsOwner[j] = 0})
  /\ CurrentTeb(t)
  /\ allocs' = allocs + 1
  /\ flsOwner' = [flsOwner EXCEPT ![i] = allocs']
  /\ flsCallback' = [flsCallback EXCEPT ![i] = IF withCallback THEN allocs' ELSE 0]
  /\ flsSlot' = [flsSlot EXCEPT ![t][i] = 0]
  /\ UNCHANGED <<endVars, at, job, pebLock, tlsVars, bare>>

Freeing(i) == \E t \in TebThread : job[t].kind = "fls" /\ job[t].index = i

(* FlsSetValue, on an index the driver has and is not giving back.         *)
FlsSetValue(t, i) ==
  /\ MayCall(t) /\ flsOwner[i] # 0 /\ ~Freeing(i)
  /\ CurrentTeb(t)
  /\ flsSlot' = [flsSlot EXCEPT ![t][i] = flsOwner[i]]
  /\ UNCHANGED <<endVars, at, job, pebLock, flsOwner, flsCallback, allocs, bare, tlsVars>>

(* FlsFree up to the walk.  Without a callback there is none.              *)
FlsFree(t, i) ==
  /\ MayCall(t) /\ pebLock = NoTeb /\ flsOwner[i] # 0
  /\ CurrentTeb(t)
  /\ flsCallback' = [flsCallback EXCEPT ![i] = 0]
  /\ \/ /\ flsCallback[i] # 0
        /\ pebLock' = t
        /\ job' = [job EXCEPT ![t] = [kind |-> "fls", index |-> i,
                                      callback |-> flsCallback[i], teb |-> t]]
        /\ At(t, "visit")
        /\ UNCHANGED <<flsOwner, bare>>
     \/ /\ flsCallback[i] = 0
        /\ flsOwner' = [flsOwner EXCEPT ![i] = 0] /\ bare' = TRUE
        /\ UNCHANGED <<pebLock, at, job>>
  /\ UNCHANGED <<endVars, flsSlot, allocs, tlsVars>>

-----------------------------------------------------------------------------
(* TLS of the driver.                                                      *)

TlsAlloc(t, i) ==
  /\ MayCall(t) /\ pebLock = NoTeb
  /\ Lowest(i, TlsIndex \ tlsBits)
  /\ CurrentTeb(t)
  /\ tlsBits' = tlsBits \cup {i}
  /\ tlsSlot' = [tlsSlot EXCEPT ![t][i] = "null"]
  /\ UNCHANGED <<endVars, at, job, pebLock, flsVars, dll, listed, blocks>>

(* The index is the driver's: it is neither the DLL's nor being freed.     *)
Owned(i) == i \in tlsBits /\ i # dll /\ \A t \in TebThread : job[t].kind = "tls" => job[t].index # i

TlsSetValue(t, i) ==
  /\ MayCall(t) /\ Owned(i)
  /\ CurrentTeb(t)
  /\ tlsSlot' = [tlsSlot EXCEPT ![t][i] = "data"]
  /\ UNCHANGED <<endVars, at, job, pebLock, flsVars, tlsBits, dll, listed, blocks>>

TlsFree(t, i) ==
  /\ MayCall(t) /\ pebLock = NoTeb /\ Owned(i)
  /\ CurrentTeb(t)
  /\ pebLock' = t
  /\ job' = [job EXCEPT ![t] = [kind |-> "tls", index |-> i, callback |-> 0, teb |-> t]]
  /\ At(t, "visit")
  /\ UNCHANGED <<endVars, flsVars, tlsVars>>

-----------------------------------------------------------------------------
(* Static TLS of a DLL.                                                    *)

(* LdkpInitializeStaticTlsForTeb: a block for an empty slot.               *)
StaticTlsForTeb(t, i) ==
  IF tlsSlot[t][i] = "null"
  THEN tlsSlot' = [tlsSlot EXCEPT ![t][i] = "block"] /\ blocks' = blocks + 1
  ELSE UNCHANGED <<tlsSlot, blocks>>

(* LdkpInitializeModuleTls, in a load that then lists the DLL, or fails.   *)
LoadDll(t, i) ==
  /\ MayCall(t) /\ ~ending /\ dll = 0 /\ pebLock = NoTeb
  /\ Lowest(i, TlsIndex \ tlsBits)
  /\ CurrentTeb(t)
  /\ \/ /\ StaticTlsForTeb(t, i)
        /\ tlsBits' = tlsBits \cup {i} /\ dll' = i /\ listed' = TRUE
     \/ UNCHANGED <<tlsBits, tlsSlot, blocks, dll, listed>>
  /\ UNCHANGED <<endVars, at, job, pebLock, flsVars>>

(* LdkpUninitializeModuleTls, by whoever took the DLL out of the list.     *)
UnloadDll(t) ==
  /\ MayCall(t) /\ listed
  /\ CurrentTeb(t)
  /\ listed' = FALSE
  /\ job' = [job EXCEPT ![t] = [kind |-> "dll", index |-> dll, callback |-> 0, teb |-> t]]
  /\ At(t, "visit")
  /\ UNCHANGED <<endVars, pebLock, flsVars, tlsBits, tlsSlot, dll, blocks>>

-----------------------------------------------------------------------------
(* The walk.                                                               *)

FreesBlock(t, i) == tlsSlot[t][i] = "block"

(* The slot is exchanged for NULL and what was in it is passed to the      *)
(* callback, dropped, or freed.                                            *)
Visit(t) ==
  LET u == job[t].teb
      i == job[t].index IN
  /\ at[t] = "visit"
  /\ \/ /\ job[t].kind = "fls"
        /\ flsSlot' = [flsSlot EXCEPT ![u][i] = 0]
        /\ UNCHANGED <<tlsSlot, blocks>>
     \/ /\ job[t].kind = "tls"
        /\ tlsSlot' = [tlsSlot EXCEPT ![u][i] = "null"]
        /\ UNCHANGED <<flsSlot, blocks>>
     \/ /\ job[t].kind = "dll"
        /\ tlsSlot' = [tlsSlot EXCEPT ![u][i] = "null"]
        /\ blocks' = IF FreesBlock(u, i) THEN blocks - 1 ELSE blocks
        /\ UNCHANGED flsSlot
  /\ At(t, "next")
  /\ UNCHANGED <<listVars, endVars, job, pebLock, flsOwner, flsCallback, allocs, bare,
                 tlsBits, dll, listed>>

(* Fault: the walk ends at the end of the list.                            *)
NextTebNoWrap(u, first) ==
  LET n == CHOOSE k \in DOMAIN tebs : tebs[k] = u IN
  IF n = Len(tebs) THEN first ELSE tebs[n + 1]

(* LdkGetNextTebRundownProtection.                                         *)
NextTeb(u, first) ==
  LET n == CHOOSE k \in DOMAIN tebs : tebs[k] = u IN
  IF n = Len(tebs) THEN tebs[1] ELSE tebs[n + 1]

(* The links of a temporary TEB are zero: there is no next TEB to read.    *)
NextCrashes(t) ==
  /\ at[t] = "next" /\ job[t].teb \notin Linked
  /\ At(t, "crashed")
  /\ UNCHANGED <<listVars, endVars, job, pebLock, flsVars, tlsVars>>

(* When the walk is round, the bit is cleared and the lock released (the   *)
(* unloading of a DLL takes the lock for the bit only).                    *)
StepOn(t) ==
  LET u == NextTeb(job[t].teb, t) IN
  /\ at[t] = "next" /\ job[t].teb \in Linked
  /\ \/ /\ u # t
        /\ job' = [job EXCEPT ![t].teb = u]
        /\ At(t, "visit")
        /\ UNCHANGED <<pebLock, flsOwner, tlsBits, dll>>
     \/ /\ u = t
        /\ job[t].kind = "dll" => pebLock = NoTeb
        /\ pebLock' = NoTeb
        /\ flsOwner' = [i \in FlsIndex |->
             IF job[t].kind = "fls" /\ i = job[t].index THEN 0 ELSE flsOwner[i]]
        /\ tlsBits' = IF job[t].kind = "fls" THEN tlsBits ELSE tlsBits \ {job[t].index}
        /\ dll' = IF job[t].kind = "dll" THEN 0 ELSE dll
        /\ job' = [job EXCEPT ![t] = NoJob]
        /\ At(t, IF ending THEN "detach" ELSE "idle")
  /\ UNCHANGED <<listVars, endVars, flsCallback, flsSlot, allocs, bare, tlsSlot, listed, blocks>>

-----------------------------------------------------------------------------
(* Threads made by CreateThread.                                           *)

(* LdkpCallThreadNotifications for an attach: the TEB, and a block for the *)
(* DLL if it is listed and there is memory for it.                         *)
ThreadAttach(t) ==
  /\ t \in TebWorker /\ at[t] = "none" /\ ~ending
  /\ CurrentTeb(t)
  /\ \/ listed /\ StaticTlsForTeb(t, dll)
     \/ UNCHANGED <<tlsSlot, blocks>>
  /\ At(t, "idle")
  /\ UNCHANGED <<endVars, job, pebLock, flsVars, tlsBits, dll, listed>>

(* The thread returns or calls ExitThread: the detach notification frees   *)
(* its block if the DLL is still listed, then FLS callbacks are invoked.   *)
ThreadDetach(t) ==
  /\ t \in TebWorker /\ at[t] = "idle"
  /\ IF listed /\ FreesBlock(t, dll)
     THEN tlsSlot' = [tlsSlot EXCEPT ![t][dll] = "null"] /\ blocks' = blocks - 1
     ELSE UNCHANGED <<tlsSlot, blocks>>
  /\ job' = [job EXCEPT ![t] = [NoJob EXCEPT !.index = 1, !.teb = t]]
  /\ At(t, "read")
  /\ UNCHANGED <<listVars, endVars, pebLock, flsVars, tlsBits, dll, listed>>

(* LdkpInvokeFlsCallback reads the callback, then takes the data.          *)
ReadCallback(t) ==
  /\ at[t] = "read" /\ job[t].index <= FlsSlots
  /\ job' = [job EXCEPT ![t].callback = flsCallback[job[t].index]]
  /\ At(t, "take")
  /\ UNCHANGED <<listVars, endVars, pebLock, flsVars, tlsVars>>

(* Fault: data are left where they are when there is no callback.          *)
TakeDataIfCalled(t) ==
  LET i == job[t].index IN
  /\ at[t] = "take"
  /\ flsSlot' = IF job[t].callback = 0 THEN flsSlot ELSE [flsSlot EXCEPT ![job[t].teb][i] = 0]
  /\ job' = [job EXCEPT ![t].index = i + 1]
  /\ At(t, "read")
  /\ UNCHANGED <<listVars, endVars, pebLock, flsOwner, flsCallback, allocs, bare, tlsVars>>

TakeData(t) ==
  LET i == job[t].index IN
  /\ at[t] = "take"
  /\ flsSlot' = [flsSlot EXCEPT ![job[t].teb][i] = 0]
  /\ job' = [job EXCEPT ![t].index = i + 1]
  /\ At(t, "read")
  /\ UNCHANGED <<listVars, endVars, pebLock, flsOwner, flsCallback, allocs, bare, tlsVars>>

(* The thread has ended; its PETHREAD may be used again.                   *)
ThreadEnds(t) ==
  /\ t \in TebWorker /\ at[t] = "read" /\ job[t].index > FlsSlots
  /\ job' = [job EXCEPT ![t] = NoJob]
  /\ At(t, "none")
  /\ UNCHANGED <<listVars, endVars, pebLock, flsVars, tlsVars>>

-----------------------------------------------------------------------------
(* LdkTerminate.                                                           *)

(* After the barrier the workers are gone, and the driver keeps its own    *)
(* threads out.  DLLs are detached by the unloader.                        *)
BeginTerminate ==
  /\ ~ending
  /\ at = [t \in TebThread |-> IF t \in TebWorker THEN "none" ELSE "idle"]
  /\ ending' = TRUE
  /\ At(Unloader, "detach")
  /\ UNCHANGED <<listVars, moved, job, pebLock, flsVars, tlsVars>>

(* LdkpTerminateTebMap: the list is moved away under its lock.             *)
MoveList ==
  /\ ending /\ at[Unloader] = "detach" /\ ~listed
  /\ \/ Unloader \in Linked \cup temporary /\ UNCHANGED temporary
     \/ Unloader \notin Linked \cup temporary /\ temporary' = temporary \cup {Unloader}
  /\ moved' = tebs /\ tebs' = <<>>
  /\ At(Unloader, "teardown")
  /\ UNCHANGED <<ending, job, pebLock, flsVars, tlsVars>>

(* Fault: the TEB is deleted without a look at its FLS data.               *)
TeardownSkipsCallbacks ==
  /\ at[Unloader] = "teardown" /\ moved # <<>>
  /\ job' = [job EXCEPT ![Unloader] = [NoJob EXCEPT !.index = FlsSlots + 1, !.teb = Head(moved)]]
  /\ moved' = Tail(moved)
  /\ At(Unloader, "read")
  /\ UNCHANGED <<listVars, ending, pebLock, flsVars, tlsVars>>

TeardownNext ==
  /\ at[Unloader] = "teardown" /\ moved # <<>>
  /\ job' = [job EXCEPT ![Unloader] = [NoJob EXCEPT !.index = 1, !.teb = Head(moved)]]
  /\ moved' = Tail(moved)
  /\ At(Unloader, "read")
  /\ UNCHANGED <<listVars, ending, pebLock, flsVars, tlsVars>>

(* LdkDeleteTeb: the slots are zeroed.                                     *)
DeleteTeb ==
  LET u == job[Unloader].teb IN
  /\ ending /\ at[Unloader] = "read" /\ job[Unloader].index > FlsSlots
  /\ flsSlot' = [flsSlot EXCEPT ![u] = [i \in FlsIndex |-> 0]]
  /\ tlsSlot' = [tlsSlot EXCEPT ![u] = [i \in TlsIndex |-> "null"]]
  /\ job' = [job EXCEPT ![Unloader] = NoJob]
  /\ At(Unloader, "teardown")
  /\ UNCHANGED <<listVars, endVars, pebLock, flsOwner, flsCallback, allocs, bare,
                 tlsBits, dll, listed, blocks>>

(* The temporary TEBs are deleted; their FLS data get no callback.         *)
DeleteTemporary ==
  /\ at[Unloader] = "teardown" /\ moved = <<>>
  /\ temporary' = {}
  /\ flsSlot' = [t \in TebThread |-> [i \in FlsIndex |-> 0]]
  /\ tlsSlot' = [t \in TebThread |-> [i \in TlsIndex |-> "null"]]
  /\ At(Unloader, "gone")
  /\ UNCHANGED <<tebs, endVars, job, pebLock, flsOwner, flsCallback, allocs, bare,
                 tlsBits, dll, listed, blocks>>

-----------------------------------------------------------------------------
TebNext ==
  \/ \E t \in TebThread :
       \/ \E i \in FlsIndex : \/ \E c \in BOOLEAN : FlsAlloc(t, i, c)
                              \/ FlsSetValue(t, i) \/ FlsFree(t, i)
       \/ \E i \in TlsIndex : TlsAlloc(t, i) \/ TlsSetValue(t, i) \/ TlsFree(t, i) \/ LoadDll(t, i)
       \/ UnloadDll(t) \/ Visit(t) \/ StepOn(t) \/ NextCrashes(t)
       \/ ThreadAttach(t) \/ ThreadDetach(t) \/ ReadCallback(t) \/ TakeData(t) \/ ThreadEnds(t)
  \/ BeginTerminate \/ MoveList \/ TeardownNext \/ DeleteTeb \/ DeleteTemporary

TebSpec == TebInit /\ [][TebNext]_tebVars
-----------------------------------------------------------------------------
(* Properties.                                                             *)

(* Data go to the callback that was given to FlsAlloc when the index they  *)
(* were stored under was allocated, never to that of a later owner of the  *)
(* index.  (FlsFree without a callback leaves data of other threads in     *)
(* their slots, and FlsAlloc clears the slot of its caller only.)          *)
FlsOwnCallback ==
  ~bare => \A t \in TebThread :
    LET data == flsSlot[job[t].teb][job[t].index] IN
    \/ at[t] = "visit" /\ job[t].kind = "fls"
    \/ at[t] = "take" /\ job[t].callback # 0
    => data \in {0, job[t].callback}

(* As long as an index has its callback, data leave its slots through the  *)
(* callback: when the thread ends, and when the TEB map is torn down.  (It *)
(* is not so for a temporary TEB, which is deleted with what is in it.)    *)
FlsNotDropped ==
  [][\A u \in TebThread, i \in FlsIndex :
       flsSlot[u][i] # 0 /\ flsSlot'[u][i] = 0 /\ flsCallback[i] # 0 /\ ~bare /\ u \notin temporary =>
         \E t \in TebThread : /\ at[t] = "take" /\ job[t].callback # 0
                              /\ job[t].teb = u /\ job[t].index = i]_tebVars

(* A thread at a reused PETHREAD finds no FLS data and no static TLS block *)
(* of its predecessor, unless the DLL is just being unloaded.              *)
ReusedTebIsClean ==
  \A t \in TebWorker : at[t] = "none" =>
    /\ \A i \in FlsIndex : flsSlot[t][i] = 0
    /\ listed => tlsSlot[t][dll] # "block"

(* FLS data reach the callback they were stored for and no other, and are, *)
(* like static TLS blocks, not found by a later thread at the same         *)
(* PETHREAD, although FlsFree, thread exit and teardown take them from     *)
(* several threads (fibersapi.c, teb.c).                                   *)
SlotDataExact == FlsOwnCallback /\ ReusedTebIsClean

(* Every static TLS block is in exactly one slot, of the DLL it belongs    *)
(* to, and none is left when the DLL is gone.                              *)
StaticTlsExact ==
  LET held == {s \in TebThread \X TlsIndex : tlsSlot[s[1]][s[2]] = "block"} IN
  /\ blocks = Cardinality(held)
  /\ \A s \in held : s[2] = dll

(* A walk round the list never comes to a TEB that is not in the list.     *)
WalkSafe == \A t \in TebThread : at[t] # "crashed"
=============================================================================
