----------------------------- MODULE KeyedEvent -----------------------------
(***************************************************************************)
(* Keyed events, src/src/ntdll/keyedevent.c.  A waiter links an entry with *)
(* its key and its TEB into one global list, pulses the backing event and  *)
(* blocks on the semaphore of its TEB.  A releaser takes the first entry   *)
(* with its key, releases that TEB's semaphore and pulses; if there is no  *)
(* entry it waits for the backing event and searches again.                *)
(*                                                                         *)
(* ZwPulseEvent on a notification event releases the threads that are      *)
(* waiting for it at that moment and leaves it unsignalled.                *)
(***************************************************************************)
EXTENDS Integers, FiniteSets, Sequences

CONSTANTS
  KWaiter,      \* threads that call NtWaitForKeyedEvent
  KReleaser,    \* threads that call NtReleaseKeyedEvent
  Key,
  MaxWaits,     \* bound: waits of each waiter
  MaxReleases,  \* bound: releases of each releaser
  TimedWait,    \* do waiters pass a timeout
  TimedRelease  \* do releasers pass a timeout

ASSUME KeyedAssumption == IsFiniteSet(KReleaser)

KThread == KWaiter \cup KReleaser

VARIABLES
  entries,   \* LdkpKeyedEventWaitListHead: records of key and thread
  sem,       \* Teb->KeyedWaitSemaphore
  kpc,       \* where each thread is in keyedevent.c
  key,       \* the key of its call
  found,     \* the waiter a releaser has taken from the list
  onEvent,   \* threads waiting for the backing event
  calls,     \* calls so far
  torn,      \* LdkpTerminateKeyedEventList has run
  expired    \* some wait has ended by its timeout (history)

keyVars == <<entries, sem, kpc, key, found, onEvent, calls, torn, expired>>
ended   == <<torn, expired>>

WaitPc    == {"pulse", "blocked"}
ReleasePc == {"search", "sleep", "onEvent", "post", "pulseRel"}

KInit ==
  /\ entries = <<>>
  /\ sem = [t \in KThread |-> 0]
  /\ kpc = [t \in KThread |-> "idle"]
  /\ key \in [KThread -> {CHOOSE k \in Key : TRUE}]
  /\ found = [t \in KThread |-> t]
  /\ onEvent = {}
  /\ calls = [t \in KThread |-> 0]
  /\ torn = FALSE /\ expired = FALSE

KGoto(t, label) == kpc' = [kpc EXCEPT ![t] = label]

Call(t, k) ==
  /\ kpc[t] = "idle" /\ ~torn
  /\ calls[t] < (IF t \in KWaiter THEN MaxWaits ELSE MaxReleases)
  /\ calls' = [calls EXCEPT ![t] = @ + 1]
  /\ key' = [key EXCEPT ![t] = k]

(* ZwPulseEvent: those who wait for the event search again.                *)
Pulse(t, next) ==
  /\ kpc' = [u \in KThread |-> IF u = t THEN next
                              ELSE IF u \in onEvent THEN "search" ELSE kpc[u]]
  /\ onEvent' = {}

(***************************************************************************)
(* NtWaitForKeyedEvent.                                                    *)
(***************************************************************************)
WaitKey(t, k) ==
  /\ Call(t, k)
  /\ \/ /\ entries' = Append(entries, [key |-> k, teb |-> t])
        /\ KGoto(t, "pulse")
     \/ UNCHANGED <<entries, kpc>>    \* STATUS_INSUFFICIENT_RESOURCES
  /\ UNCHANGED <<sem, found, onEvent, ended>>

WaitPulses(t) ==
  /\ kpc[t] = "pulse"
  /\ Pulse(t, "blocked")
  /\ UNCHANGED <<entries, sem, key, found, calls, ended>>

WaitEnds(t) ==
  /\ kpc[t] = "blocked" /\ sem[t] > 0
  /\ sem' = [sem EXCEPT ![t] = @ - 1]
  /\ KGoto(t, "idle")
  /\ UNCHANGED <<entries, key, found, onEvent, calls, ended>>

(* STATUS_TIMEOUT is returned; the entry stays in the list.                *)
WaitTimesOut(t) ==
  /\ TimedWait
  /\ kpc[t] = "blocked" /\ sem[t] = 0
  /\ expired' = TRUE
  /\ KGoto(t, "idle")
  /\ UNCHANGED <<entries, sem, key, found, onEvent, calls, torn>>

(***************************************************************************)
(* NtReleaseKeyedEvent.                                                    *)
(***************************************************************************)
ReleaseKey(t, k) ==
  /\ Call(t, k)
  /\ KGoto(t, "search")
  /\ UNCHANGED <<entries, sem, found, onEvent, ended>>

WithKey(k) == {i \in DOMAIN entries : entries[i].key = k}
IsFirst(i, S) == i \in S /\ \A j \in S : i <= j
Without(i) == SubSeq(entries, 1, i - 1) \o SubSeq(entries, i + 1, Len(entries))

(* Fault: the key is not compared.                                         *)
SearchAnyKey(t) ==
  /\ kpc[t] = "search"
  /\ \/ /\ entries # <<>>
        /\ found' = [found EXCEPT ![t] = Head(entries).teb]
        /\ entries' = Tail(entries)
        /\ KGoto(t, "post")
     \/ entries = <<>> /\ KGoto(t, "sleep") /\ UNCHANGED <<entries, found>>
  /\ UNCHANGED <<sem, key, onEvent, calls, ended>>

Search(t) ==
  /\ kpc[t] = "search"
  /\ \/ \E i \in DOMAIN entries :
          /\ IsFirst(i, WithKey(key[t]))
          /\ found' = [found EXCEPT ![t] = entries[i].teb]
          /\ entries' = Without(i)
          /\ KGoto(t, "post")
     \/ WithKey(key[t]) = {} /\ KGoto(t, "sleep") /\ UNCHANGED <<entries, found>>
  /\ UNCHANGED <<sem, key, onEvent, calls, ended>>

(* ZwWaitForSingleObject begins: only now does a pulse reach the thread.   *)
SleepOnEvent(t) ==
  /\ kpc[t] = "sleep"
  /\ onEvent' = onEvent \cup {t}
  /\ KGoto(t, "onEvent")
  /\ UNCHANGED <<entries, sem, key, found, calls, ended>>

(* STATUS_TIMEOUT is a success code, so the loop goes on.                  *)
SleepTimesOut(t) ==
  /\ TimedRelease
  /\ kpc[t] = "onEvent"
  /\ onEvent' = onEvent \ {t}
  /\ KGoto(t, "search")
  /\ UNCHANGED <<entries, sem, key, found, calls, ended>>

Post(t) ==
  /\ kpc[t] = "post"
  /\ sem' = [sem EXCEPT ![found[t]] = @ + 1]
  /\ found' = [found EXCEPT ![t] = t]
  /\ KGoto(t, "pulseRel")
  /\ UNCHANGED <<entries, key, onEvent, calls, ended>>

ReleasePulses(t) ==
  /\ kpc[t] = "pulseRel"
  /\ Pulse(t, "idle")
  /\ UNCHANGED <<entries, sem, key, found, calls, ended>>

(* Fault: the entries are dropped without releasing their waiters.         *)
TerminateSilently ==
  /\ ~torn
  /\ torn' = TRUE
  /\ entries' = <<>>
  /\ UNCHANGED <<sem, kpc, key, found, onEvent, calls, expired>>

(* LdkpTerminateKeyedEventList, when no new call is made any more.         *)
Terminate ==
  /\ ~torn
  /\ torn' = TRUE
  /\ sem' = [t \in KThread |->
               sem[t] + Cardinality({i \in DOMAIN entries : entries[i].teb = t})]
  /\ entries' = <<>>
  /\ UNCHANGED <<kpc, key, found, onEvent, calls, expired>>

KStep(t) ==
  \/ WaitPulses(t) \/ WaitEnds(t) \/ Search(t) \/ SleepOnEvent(t) \/ Post(t)
  \/ ReleasePulses(t)

KNext ==
  \/ \E t \in KWaiter, k \in Key : WaitKey(t, k)
  \/ \E t \in KReleaser, k \in Key : ReleaseKey(t, k)
  \/ \E t \in KThread : KStep(t) \/ SleepTimesOut(t) \/ WaitTimesOut(t)
  \/ Terminate

KSpec == KInit /\ [][KNext]_keyVars

(* Runnable threads run; a timeout, where one is given, expires.           *)
KFairSpec ==
  KSpec /\ \A t \in KThread : WF_keyVars(KStep(t)) /\ WF_keyVars(SleepTimesOut(t))
-----------------------------------------------------------------------------
Holders(t) == {r \in KReleaser : kpc[r] = "post" /\ found[r] = t}

(* How many ways lead to t: entries, releasers that have taken one, and    *)
(* releases of its semaphore.                                              *)
Ways(t) ==
  Cardinality({i \in DOMAIN entries : entries[i].teb = t})
  + Cardinality(Holders(t)) + sem[t]

(* NtWaitForKeyedEvent / NtReleaseKeyedEvent: a waiting thread can always  *)
(* be reached, also when the entries of waits that timed out stay listed   *)
(* and when the list is torn down.  Until a wait has timed out it is       *)
(* reached in exactly one way, a thread that does not wait in none (no     *)
(* release is spent on it), and a releaser finds a waiter of its own key.  *)
ReachedOnce ==
  /\ \A t \in KWaiter : kpc[t] \in WaitPc => Ways(t) > 0
  /\ ~expired =>
       /\ \A t \in KWaiter : Ways(t) = IF kpc[t] \in WaitPc THEN 1 ELSE 0
       /\ \A r \in KReleaser : kpc[r] = "post" => key[found[r]] = key[r]

(* A waiter that was taken from the list, or was waiting when the list was *)
(* torn down, returns.                                                     *)
ReleasedReturns ==
  \A t \in KWaiter :
    (kpc[t] \in WaitPc /\ (torn \/ Holders(t) # {})) ~> (kpc[t] = "idle")

(* test/ntdll/keyedevent.c: a release without a timeout comes back once a  *)
(* waiter with its key is there, whether it came before or after.          *)
ReleaseReturns ==
  \A r \in KReleaser :
    (kpc[r] \in ReleasePc /\ WithKey(key[r]) # {} /\ ~torn)
      ~> (kpc[r] = "idle" \/ torn)
=============================================================================
