-------------------------- MODULE ConditionVariable --------------------------
(***************************************************************************)
(* Condition variables, src/src/ntdll/cond.c.  LdkpSleepConditionVariable  *)
(* puts a wait block of its own stack into one global list, releases the   *)
(* caller's lock, blocks, unlinks the block if it is still listed, waits   *)
(* again if a waker has taken it, and reacquires the lock.  Wakers unlink  *)
(* blocks under the list lock and set their events after unlocking.        *)
(*                                                                         *)
(* The caller's lock is the ReadWriteLock that SRWLock and CriticalSection *)
(* are shown to implement.  The driver around it is the use condition      *)
(* variables exist for: consumers test under the lock and sleep while      *)
(* there is nothing, producers add an item under the lock and then wake.   *)
(***************************************************************************)
EXTENDS Integers, FiniteSets, Sequences, Subsequences

CONSTANTS
  Consumer,     \* threads that wait for an item and take it
  Reader,       \* threads that wait for an item in shared mode and leave it
  Producer,     \* threads that add an item and wake
  CV,           \* condition variables: one stock of items each
  Batch,        \* LDK_CONDITION_VARIABLE_WAKE_BATCH (64 in the code)
  MaxItems      \* bound: items ever produced for each condition variable

ASSUME CVAssumption ==
  Batch \in Nat \ {0} /\ IsFiniteSet(Consumer) /\ IsFiniteSet(Producer)

Sleeper == Consumer \cup Reader
CVThread  == Sleeper \cup Producer

VARIABLES
  readers, writers,  \* who holds the lock
  items, made,       \* items in stock and items produced, by CV
  vpc,               \* where each thread is
  cv,                \* the condition variable a thread is concerned with
  timedOut,          \* threads whose wait timed out
  list,              \* LdkpConditionVariableWaitList
  inList,            \* threads whose WaitBlock.InList is set
  woken,             \* threads whose WaitBlock.Woken is set
  event,             \* threads whose WaitBlock.Event is set
  hold,              \* Waiters[] a waker has collected and not yet signalled
  full,              \* wakers whose last collection filled Waiters[]
  wakesOne           \* producers call RtlWakeConditionVariable, not ...All

lockVars == <<readers, writers>>
stock    == <<items, made>>
block    == <<list, inList, woken, event>>
wakeVars == <<hold, full>>
use      == <<cv, wakesOne>>    \* fixed from the start
cvVars   == <<lockVars, stock, vpc, use, timedOut, block, wakeVars>>

CVLock == INSTANCE ReadWriteLock WITH Thread <- CVThread

(* Inside LdkpSleepConditionVariable, with the wait block in use.          *)
SleepPc == {"listed", "blocked", "unlink", "rewait"}

CVInit ==
  /\ readers = {} /\ writers = {}
  /\ items = [c \in CV |-> 0] /\ made = [c \in CV |-> 0]
  /\ vpc = [t \in CVThread |-> "out"]
  /\ cv \in [CVThread -> CV] /\ wakesOne \in BOOLEAN
  /\ timedOut = {}
  /\ list = <<>> /\ inList = {} /\ woken = {} /\ event = {}
  /\ hold = [t \in CVThread |-> {}] /\ full = {}

VGoto(t, label) == vpc' = [vpc EXCEPT ![t] = label]

GetLock(t) == IF t \in Reader THEN CVLock!Read(t) ELSE CVLock!Write(t)
GiveBack(t) == IF t \in Reader THEN CVLock!EndRead(t) ELSE CVLock!EndWrite(t)

(***************************************************************************)
(* The consumer around the wait.  One that leaves the item for others      *)
(* cannot be served by RtlWakeConditionVariable.                           *)
(***************************************************************************)
Begin(t) ==
  /\ vpc[t] = "out"
  /\ t \in Reader => ~wakesOne
  /\ GetLock(t)
  /\ VGoto(t, "test")
  /\ UNCHANGED <<stock, use, timedOut, block, wakeVars>>

(* The predicate holds, or the wait timed out: leave, with an item if any. *)
Finish(t) ==
  /\ vpc[t] = "test"
  /\ items[cv[t]] > 0 \/ t \in timedOut
  /\ items' = IF t \in Consumer /\ items[cv[t]] > 0
                THEN [items EXCEPT ![cv[t]] = @ - 1] ELSE items
  /\ GiveBack(t)
  /\ timedOut' = timedOut \ {t}
  /\ VGoto(t, "done")
  /\ UNCHANGED <<made, use, block, wakeVars>>

(***************************************************************************)
(* LdkpSleepConditionVariable.                                             *)
(***************************************************************************)
Sleep(t) ==
  /\ vpc[t] = "test"
  /\ items[cv[t]] = 0 /\ t \notin timedOut
  /\ list' = Append(list, t)
  /\ inList' = inList \cup {t}
  /\ woken' = woken \ {t}
  /\ event' = event \ {t}
  /\ VGoto(t, "listed")
  /\ UNCHANGED <<lockVars, stock, use, timedOut, wakeVars>>

ReleaseLock(t) ==
  /\ vpc[t] = "listed"
  /\ GiveBack(t)
  /\ VGoto(t, "blocked")
  /\ UNCHANGED <<stock, use, timedOut, block, wakeVars>>

Satisfied(t) ==
  /\ vpc[t] = "blocked" /\ t \in event
  /\ event' = event \ {t}
  /\ VGoto(t, "unlink")
  /\ UNCHANGED <<lockVars, stock, use, timedOut, list, inList, woken, wakeVars>>

TimesOut(t) ==
  /\ vpc[t] = "blocked"
  /\ timedOut' = timedOut \cup {t}
  /\ VGoto(t, "unlink")
  /\ UNCHANGED <<lockVars, stock, use, block, wakeVars>>

(* Fault: a timed-out wait returns although a waker has taken its block.   *)
UnlinkNoRewait(t) ==
  /\ vpc[t] = "unlink"
  /\ list' = IF t \in inList THEN Remaining(list, {t}) ELSE list
  /\ inList' = inList \ {t}
  /\ woken' = woken \ {t}
  /\ VGoto(t, "relock")
  /\ UNCHANGED <<lockVars, stock, use, timedOut, event, wakeVars>>

Unlink(t) ==
  /\ vpc[t] = "unlink"
  /\ list' = IF t \in inList THEN Remaining(list, {t}) ELSE list
  /\ inList' = inList \ {t}
  /\ IF t \in woken /\ t \in timedOut
       THEN VGoto(t, "rewait") /\ UNCHANGED woken
       ELSE VGoto(t, "relock") /\ woken' = woken \ {t}
  /\ UNCHANGED <<lockVars, stock, use, timedOut, event, wakeVars>>

(* A waker has the block: wait for its KeSetEvent.  The sleep succeeded.   *)
Rewait(t) ==
  /\ vpc[t] = "rewait" /\ t \in event
  /\ event' = event \ {t}
  /\ woken' = woken \ {t}
  /\ timedOut' = timedOut \ {t}
  /\ VGoto(t, "relock")
  /\ UNCHANGED <<lockVars, stock, use, list, inList, wakeVars>>

Relock(t) ==
  /\ vpc[t] = "relock"
  /\ GetLock(t)
  /\ VGoto(t, "test")
  /\ UNCHANGED <<stock, use, timedOut, block, wakeVars>>

(***************************************************************************)
(* The producer, RtlWakeConditionVariable and RtlWakeAllConditionVariable. *)
(***************************************************************************)
Produce(t) ==
  /\ vpc[t] = "out"
  /\ made[cv[t]] < MaxItems
  /\ CVLock!Write(t)
  /\ items' = [items EXCEPT ![cv[t]] = @ + 1]
  /\ made' = [made EXCEPT ![cv[t]] = @ + 1]
  /\ VGoto(t, "unlock")
  /\ UNCHANGED <<use, timedOut, block, wakeVars>>

Unlock(t) ==
  /\ vpc[t] = "unlock"
  /\ CVLock!EndWrite(t)
  /\ VGoto(t, "collect")
  /\ UNCHANGED <<stock, use, timedOut, block, wakeVars>>

Limit == IF wakesOne THEN 1 ELSE Batch

(* The first blocks that wait for c, as many as Waiters[] can hold.        *)
WaitingFor(c) == {i \in DOMAIN list : cv[list[i]] = c}
Taken(c) == {list[i] : i \in {j \in WaitingFor(c) : Before(WaitingFor(c), j) < Limit}}

(* LdkpCollectConditionVariableWaiters.                                    *)
Collect(t) ==
  LET taken == Taken(cv[t]) IN
  /\ vpc[t] = "collect"
  /\ hold' = [hold EXCEPT ![t] = taken]
  /\ full' = IF Cardinality(taken) = Batch /\ ~wakesOne THEN full \cup {t}
                                                        ELSE full \ {t}
  /\ list' = Remaining(list, taken)
  /\ inList' = inList \ taken
  /\ woken' = woken \cup taken
  /\ VGoto(t, "signal")
  /\ UNCHANGED <<lockVars, stock, use, timedOut, event>>

(* Fault: a collected sleeper is skipped.                                  *)
SignalOneSkips(t) ==
  /\ vpc[t] = "signal"
  /\ \E u \in hold[t] : hold' = [hold EXCEPT ![t] = @ \ {u}]
  /\ UNCHANGED <<lockVars, stock, vpc, use, timedOut, block, full>>

(* LdkpWakeConditionVariableWaiters, one KeSetEvent at a time.             *)
SignalOne(t) ==
  /\ vpc[t] = "signal"
  /\ \E u \in hold[t] : /\ event' = event \cup {u}
                        /\ hold' = [hold EXCEPT ![t] = @ \ {u}]
  /\ UNCHANGED <<lockVars, stock, vpc, use, timedOut, list, inList, woken, full>>

SignalDone(t) ==
  /\ vpc[t] = "signal" /\ hold[t] = {}
  /\ VGoto(t, IF t \in full THEN "collect" ELSE "out")
  /\ full' = full \ {t}
  /\ UNCHANGED <<lockVars, stock, use, timedOut, block, hold>>

(* Steps a thread takes as soon as it is scheduled (and gets the lock).    *)
SleeperStep(t) ==
  \/ Begin(t) \/ Finish(t) \/ Sleep(t) \/ ReleaseLock(t) \/ Satisfied(t)
  \/ Unlink(t) \/ Rewait(t) \/ Relock(t)
ProducerStep(t) == Unlock(t) \/ Collect(t) \/ SignalOne(t) \/ SignalDone(t)

CVNext ==
  \/ \E t \in Sleeper : SleeperStep(t) \/ TimesOut(t)
  \/ \E t \in Producer : Produce(t) \/ ProducerStep(t)

CVSpec == CVInit /\ [][CVNext]_cvVars

(* Runnable threads run, and a thread that keeps trying gets the lock;     *)
(* nobody is obliged to produce, and a timeout need not expire.            *)
CVFairSpec ==
  /\ CVSpec
  /\ \A t \in Sleeper : SF_cvVars(SleeperStep(t))
  /\ \A t \in Producer : WF_cvVars(ProducerStep(t))
-----------------------------------------------------------------------------
Listed == {list[i] : i \in DOMAIN list}

(* Wait blocks are on the stacks of their sleepers: whoever can reach one, *)
(* through the list or through Waiters[], finds the sleeper still inside   *)
(* LdkpSleepConditionVariable, even if its timeout has expired.            *)
BlockSafe ==
  /\ Listed = inList
  /\ \A t \in inList : vpc[t] \in SleepPc \ {"rewait"} /\ t \notin woken
  /\ \A p \in Producer : \A t \in hold[p] : vpc[t] \in SleepPc

(* Somebody is going to look at the items of c, or to wake a sleeper.      *)
Attended(c) ==
  \/ \E p \in Producer : /\ cv[p] = c
                         /\ \/ vpc[p] \in {"unlock", "collect"}
                            \/ hold[p] # {} \/ p \in full
  \/ \E t \in Consumer : /\ cv[t] = c
                         /\ t \in woken \/ vpc[t] \in {"unlink", "relock", "test"}

(* No wake-up is lost between the test and the wait, or to a sleeper whose *)
(* timeout expires: items are never left with a sleeper listed for them    *)
(* and nobody attending.                                                   *)
NoLostWake ==
  \A c \in CV : items[c] > 0 /\ (\E t \in inList : cv[t] = c) => Attended(c)

(* A sleeper on a condition variable can be reached as long as anybody may *)
(* reach it, and is not left asleep over an item, whichever of its timeout *)
(* and a waker comes first.                                                *)
SleepersSafe == BlockSafe /\ NoLostWake

(* After RtlWakeAllConditionVariable every sleeper of the condition        *)
(* variable that was listed when it was called comes back with its lock,   *)
(* whether or not its timeout expires while it is being woken.             *)
AllWoken ==
  \A p \in Producer, t \in Sleeper :
    (~wakesOne /\ vpc[p] = "collect" /\ t \in inList /\ cv[t] = cv[p])
      ~> (vpc[t] \in {"test", "done"})
=============================================================================
