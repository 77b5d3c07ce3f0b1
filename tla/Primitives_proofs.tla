--------------------------- MODULE Primitives_proofs ---------------------------
(***************************************************************************)
(* Proofs about condition variables and keyed events.                      *)
(***************************************************************************)
EXTENDS ConditionVariable, KeyedEvent, Subsequences_proofs

-----------------------------------------------------------------------------
(* Condition variables: the wait blocks.                                   *)

CVLabels == {"out", "test", "done", "relock", "unlock", "collect", "signal"} \cup SleepPc

CVTypes ==
  /\ vpc \in [CVThread -> CVLabels] /\ cv \in [CVThread -> CV] /\ items \in [CV -> Nat]
  /\ list \in Seq(Sleeper) /\ hold \in [CVThread -> SUBSET Sleeper]

(* A block is listed, or in the hands of one waker, which will set its     *)
(* event, or neither.  A sleeper that has seen its event is in neither.    *)
BlocksOK ==
  /\ Distinct(list) /\ Members(list) = inList
  /\ \A t \in inList : vpc[t] \in SleepPc \ {"rewait"} /\ t \notin woken /\ t \notin event
  /\ \A p \in Producer : \A t \in hold[p] : vpc[t] \in SleepPc /\ t \in woken /\ t \notin event
  /\ \A p, q \in Producer : p # q => hold[p] \cap hold[q] = {}
  /\ \A t \in Sleeper : vpc[t] = "unlink" /\ t \notin timedOut =>
       t \notin inList /\ \A p \in Producer : t \notin hold[p]

LEMMA CVThreads == Sleeper \subseteq CVThread /\ Producer \subseteq CVThread
BY DEF CVThread

LEMMA TakenListed ==
  ASSUME NEW c PROVE Taken(c) \subseteq Members(list) /\ \A u \in Taken(c) : cv[u] = c
BY DEF Taken, WaitingFor, Members

LEMMA CVTypesStep == CVTypes /\ [CVNext]_cvVars => CVTypes'
<1> SUFFICES ASSUME CVTypes, [CVNext]_cvVars PROVE CVTypes'
    OBVIOUS
<1>1. CASE UNCHANGED cvVars
    BY <1>1 DEF cvVars, CVTypes, use, stock, block, wakeVars
<1>2. ASSUME NEW t \in CVThread, NEW l \in CVLabels, VGoto(t, l) PROVE vpc' \in [CVThread -> CVLabels]
    BY <1>2 DEF VGoto, CVTypes
<1>3. /\ "test" \in CVLabels /\ "done" \in CVLabels /\ "listed" \in CVLabels /\ "blocked" \in CVLabels
      /\ "unlink" \in CVLabels /\ "rewait" \in CVLabels /\ "relock" \in CVLabels
      /\ "unlock" \in CVLabels /\ "collect" \in CVLabels /\ "signal" \in CVLabels /\ "out" \in CVLabels
    BY DEF CVLabels, SleepPc
<1>4. ASSUME NEW t \in Sleeper, SleeperStep(t) \/ TimesOut(t) PROVE CVTypes'
  <2>0. t \in CVThread /\ cv[t] \in CV
      BY CVThreads DEF CVTypes
  <2>1. cv' \in [CVThread -> CV] /\ hold' \in [CVThread -> SUBSET Sleeper]
      BY <1>4 DEF SleeperStep, TimesOut, Begin, Finish, Sleep, ReleaseLock, Satisfied, Unlink, Rewait,
                  Relock, CVTypes, wakeVars, use
  <2>2. vpc' \in [CVThread -> CVLabels]
      BY <1>2, <1>3, <1>4, <2>0 DEF SleeperStep, TimesOut, Begin, Finish, Sleep, ReleaseLock,
                Satisfied, Unlink, Rewait, Relock
  <2>3. items' \in [CV -> Nat]
    <3>1. CASE Finish(t)
      <4>1. items[cv[t]] \in Nat
          BY <2>0 DEF CVTypes
      <4>2. items[cv[t]] > 0 => items[cv[t]] - 1 \in Nat
          BY <4>1
      <4> QED
          BY <3>1, <4>2 DEF Finish, CVTypes
    <3>2. CASE ~Finish(t)
        BY <1>4, <3>2 DEF SleeperStep, TimesOut, Begin, Sleep, ReleaseLock, Satisfied, Unlink, Rewait,
                  Relock, CVTypes, stock
    <3> QED
        BY <3>1, <3>2
  <2>4. list' \in Seq(Sleeper)
    <3>1. CASE Sleep(t)
        BY <3>1 DEF Sleep, CVTypes
    <3>2. CASE Unlink(t)
        BY <3>2, RemainingMembers DEF Unlink, CVTypes
    <3>3. CASE ~Sleep(t) /\ ~Unlink(t)
        BY <1>4, <3>3 DEF SleeperStep, TimesOut, Begin, Finish, ReleaseLock, Satisfied, Rewait,
                  Relock, CVTypes, block
    <3> QED
        BY <3>1, <3>2, <3>3
  <2> QED
      BY <2>1, <2>2, <2>3, <2>4 DEF CVTypes
<1>5. ASSUME NEW t \in Producer, Produce(t) \/ ProducerStep(t) PROVE CVTypes'
  <2>0. t \in CVThread /\ cv[t] \in CV
      BY CVThreads DEF CVTypes
  <2>1. cv' \in [CVThread -> CV]
      BY <1>5 DEF ProducerStep, Produce, Unlock, Collect, SignalOne, SignalDone, CVTypes, use
  <2>2. vpc' \in [CVThread -> CVLabels]
    <3>1. CASE SignalOne(t)
        BY <3>1 DEF SignalOne, CVTypes
    <3>2. CASE ~SignalOne(t)
        BY <1>2, <1>3, <1>5, <2>0, <3>2 DEF ProducerStep, Produce, Unlock, Collect, SignalDone
    <3> QED
        BY <3>1, <3>2
  <2>3. items' \in [CV -> Nat]
    <3>1. CASE Produce(t)
      <4>1. items[cv[t]] + 1 \in Nat
          BY <2>0 DEF CVTypes
      <4> QED
          BY <3>1, <4>1 DEF Produce, CVTypes
    <3>2. CASE ~Produce(t)
        BY <1>5, <3>2 DEF ProducerStep, Unlock, Collect, SignalOne, SignalDone, CVTypes, stock
    <3> QED
        BY <3>1, <3>2
  <2>4. list' \in Seq(Sleeper)
    <3>1. CASE Collect(t)
        BY <3>1, RemainingMembers DEF Collect, CVTypes
    <3>2. CASE ~Collect(t)
        BY <1>5, <3>2 DEF ProducerStep, Produce, Unlock, SignalOne, SignalDone, CVTypes, block
    <3> QED
        BY <3>1, <3>2
  <2>5. hold' \in [CVThread -> SUBSET Sleeper]
    <3>1. CASE Collect(t)
      <4>1. Taken(cv[t]) \in SUBSET Sleeper
        <5>1. Members(list) \subseteq Sleeper
            BY DEF CVTypes, Members
        <5> QED
            BY <5>1, TakenListed
      <4> QED
          BY <3>1, <4>1 DEF Collect, CVTypes
    <3>2. CASE SignalOne(t)
      <4>1. PICK u \in hold[t] : hold' = [hold EXCEPT ![t] = @ \ {u}]
          BY <3>2 DEF SignalOne
      <4>2. hold[t] \ {u} \in SUBSET Sleeper
          BY <2>0 DEF CVTypes
      <4> QED
          BY <4>1, <4>2 DEF CVTypes
    <3>3. CASE Produce(t) \/ Unlock(t) \/ SignalDone(t)
        BY <3>3 DEF Produce, Unlock, SignalDone, CVTypes, wakeVars
    <3> QED
        BY <1>5, <3>1, <3>2, <3>3 DEF ProducerStep
  <2> QED
      BY <2>1, <2>2, <2>3, <2>4, <2>5 DEF CVTypes
<1> QED
    BY <1>1, <1>4, <1>5 DEF CVNext

(* Thread t goes to l and the others stay.                                 *)
VMoves(t, l) == vpc'[t] = l /\ \A u \in CVThread \ {t} : vpc'[u] = vpc[u]

LEMMA VMovesTo ==
  ASSUME CVTypes, NEW t \in CVThread, NEW l, VGoto(t, l) PROVE VMoves(t, l)
BY DEF CVTypes, VGoto, VMoves

(* A step that leaves the blocks and the wakers alone.                     *)
LEMMA BlocksCalm ==
  ASSUME CVTypes, BlocksOK, NEW t \in CVThread, NEW l, VMoves(t, l),
         UNCHANGED block, UNCHANGED hold,
         vpc[t] \in SleepPc => l \in {"listed", "blocked"}, l # "unlink",
         \A u \in timedOut \ {t} : u \in timedOut'
  PROVE  BlocksOK'
<1>1. UNCHANGED <<list, inList, woken, event, hold>>
    BY DEF block
<1>2. \A u \in Sleeper : vpc[u] \in SleepPc => vpc'[u] \in SleepPc
    BY CVThreads DEF VMoves, SleepPc
<1>3. inList \subseteq Sleeper /\ \A p \in Producer : hold[p] \subseteq Sleeper
    BY CVThreads DEF CVTypes, BlocksOK, Members
<1>4. \A u \in inList : vpc'[u] # "rewait"
    BY <1>3, CVThreads DEF VMoves, BlocksOK, SleepPc
<1>5. \A u \in Sleeper : vpc'[u] = "unlink" /\ u \notin timedOut' => vpc[u] = "unlink" /\ u \notin timedOut
    BY CVThreads DEF VMoves
<1> QED
    BY <1>1, <1>2, <1>3, <1>4, <1>5 DEF BlocksOK

LEMMA BlocksSleeper ==
  ASSUME CVTypes, BlocksOK, NEW t \in Sleeper, SleeperStep(t) \/ TimesOut(t) PROVE BlocksOK'
<1>0. t \in CVThread
    BY CVThreads
<1>s. inList \subseteq Sleeper /\ \A p \in Producer : hold[p] \subseteq Sleeper
    BY CVThreads DEF CVTypes, BlocksOK, Members
<1>1. CASE Begin(t) \/ Relock(t)
  <2>1. VMoves(t, "test")
      BY <1>0, <1>1, VMovesTo DEF Begin, Relock
  <2> QED
      BY <1>0, <1>1, <2>1, BlocksCalm DEF Begin, Relock, wakeVars, SleepPc
<1>2. CASE Finish(t)
  <2>1. VMoves(t, "done")
      BY <1>0, <1>2, VMovesTo DEF Finish
  <2> QED
      BY <1>0, <1>2, <2>1, BlocksCalm DEF Finish, wakeVars, SleepPc
<1>3. CASE ReleaseLock(t)
  <2>1. VMoves(t, "blocked")
      BY <1>0, <1>3, VMovesTo DEF ReleaseLock
  <2> QED
      BY <1>0, <1>3, <2>1, BlocksCalm DEF ReleaseLock, wakeVars
<1>4. CASE Sleep(t)
  <2>1. VMoves(t, "listed") /\ vpc[t] = "test"
      BY <1>0, <1>4, VMovesTo DEF Sleep
  <2>2. t \notin inList /\ \A p \in Producer : t \notin hold[p]
      BY <2>1 DEF BlocksOK, SleepPc
  <2>3. Distinct(list') /\ Members(list') = inList'
    <3>1. Distinct(list) /\ Members(list) = inList /\ list \in Seq(Sleeper)
        BY DEF BlocksOK, CVTypes
    <3> QED
        BY <1>4, <2>2, <3>1, AppendMembers DEF Sleep
  <2>4. /\ inList' = inList \cup {t} /\ woken' = woken \ {t} /\ event' = event \ {t}
        /\ UNCHANGED <<hold, timedOut>>
      BY <1>4 DEF Sleep, wakeVars
  <2>5. \A u \in inList' : vpc'[u] \in SleepPc \ {"rewait"} /\ u \notin woken' /\ u \notin event'
      BY <1>s, <2>1, <2>4, CVThreads DEF VMoves, BlocksOK, SleepPc
  <2>6. \A p \in Producer : \A u \in hold'[p] : vpc'[u] \in SleepPc /\ u \in woken' /\ u \notin event'
      BY <1>s, <2>1, <2>2, <2>4, CVThreads DEF VMoves, BlocksOK
  <2>7. \A u \in Sleeper : vpc'[u] = "unlink" /\ u \notin timedOut' =>
          u \notin inList' /\ \A p \in Producer : u \notin hold'[p]
      BY <2>1, <2>4, CVThreads DEF VMoves, BlocksOK
  <2> QED
      BY <2>3, <2>4, <2>5, <2>6, <2>7 DEF BlocksOK, Distinct, Members
<1>5. CASE Satisfied(t)
  <2>1. VMoves(t, "unlink") /\ vpc[t] = "blocked" /\ t \in event
      BY <1>0, <1>5, VMovesTo DEF Satisfied
  <2>2. t \notin inList /\ \A p \in Producer : t \notin hold[p]
      BY <2>1 DEF BlocksOK
  <2>3. event' = event \ {t} /\ UNCHANGED <<hold, timedOut, list, inList, woken>>
      BY <1>5 DEF Satisfied, wakeVars
  <2> QED
      BY <1>s, <2>1, <2>2, <2>3, CVThreads DEF VMoves, BlocksOK, SleepPc
<1>6. CASE TimesOut(t)
  <2>1. VMoves(t, "unlink") /\ vpc[t] = "blocked"
      BY <1>0, <1>6, VMovesTo DEF TimesOut
  <2>2. timedOut' = timedOut \cup {t} /\ UNCHANGED <<hold, event, list, inList, woken>>
      BY <1>6 DEF TimesOut, wakeVars, block
  <2> QED
      BY <1>s, <2>1, <2>2, CVThreads DEF VMoves, BlocksOK, SleepPc
<1>7. CASE Unlink(t)
  <2>1. vpc[t] = "unlink" /\ inList' = inList \ {t} /\ UNCHANGED <<hold, event, timedOut>>
      BY <1>7 DEF Unlink, wakeVars
  <2>2. Distinct(list') /\ Members(list') = inList'
    <3>1. Distinct(list) /\ Members(list) = inList /\ list \in Seq(Sleeper)
        BY DEF BlocksOK, CVTypes
    <3>2. CASE t \in inList
        BY <1>7, <2>1, <3>1, <3>2, RemainingMembers DEF Unlink
    <3>3. CASE t \notin inList
        BY <1>7, <2>1, <3>1, <3>3 DEF Unlink
    <3> QED
        BY <3>2, <3>3
  <2>3. CASE t \in woken /\ t \in timedOut
    <3>1. VMoves(t, "rewait") /\ woken' = woken
        BY <1>0, <1>7, <2>3, VMovesTo DEF Unlink
    <3> QED
        BY <1>s, <2>1, <2>2, <3>1, CVThreads DEF VMoves, BlocksOK, SleepPc, Distinct, Members
  <2>4. CASE ~(t \in woken /\ t \in timedOut)
    <3>1. VMoves(t, "relock") /\ woken' = woken \ {t}
        BY <1>0, <1>7, <2>4, VMovesTo DEF Unlink
    <3>2. \A p \in Producer : t \notin hold[p]
        BY <2>1, <2>4 DEF BlocksOK
    <3> QED
        BY <1>s, <2>1, <2>2, <3>1, <3>2, CVThreads DEF VMoves, BlocksOK, Distinct, Members
  <2> QED
      BY <2>3, <2>4
<1>8. CASE Rewait(t)
  <2>1. VMoves(t, "relock") /\ vpc[t] = "rewait" /\ t \in event
      BY <1>0, <1>8, VMovesTo DEF Rewait
  <2>2. /\ event' = event \ {t} /\ woken' = woken \ {t} /\ timedOut' = timedOut \ {t}
        /\ UNCHANGED <<hold, list, inList>>
      BY <1>8 DEF Rewait, wakeVars
  <2>3. t \notin inList /\ \A p \in Producer : t \notin hold[p]
      BY <2>1 DEF BlocksOK
  <2> QED
      BY <1>s, <2>1, <2>2, <2>3, CVThreads DEF VMoves, BlocksOK
<1> QED
    BY <1>1, <1>2, <1>3, <1>4, <1>5, <1>6, <1>7, <1>8 DEF SleeperStep

LEMMA BlocksProducer ==
  ASSUME CVTypes, BlocksOK, NEW t \in Producer, Produce(t) \/ ProducerStep(t) PROVE BlocksOK'
<1>0. t \in CVThread
    BY CVThreads
<1>s. inList \subseteq Sleeper /\ \A p \in Producer : hold[p] \subseteq Sleeper
    BY CVThreads DEF CVTypes, BlocksOK, Members
<1>1. CASE Produce(t) \/ Unlock(t) \/ SignalDone(t)
  <2>1. PICK l \in {"unlock", "collect", "out"} : VMoves(t, l)
      BY <1>0, <1>1, VMovesTo DEF Produce, Unlock, SignalDone
  <2>2. vpc[t] \notin SleepPc
      BY <1>1 DEF Produce, Unlock, SignalDone, SleepPc
  <2>3. UNCHANGED <<block, hold, timedOut>>
      BY <1>1 DEF Produce, Unlock, SignalDone, wakeVars
  <2> QED
      BY <1>0, <2>1, <2>2, <2>3, BlocksCalm
<1>2. CASE Collect(t)
  <2> DEFINE S == Taken(cv[t])
  <2>1. VMoves(t, "signal") /\ vpc[t] = "collect"
      BY <1>0, <1>2, VMovesTo DEF Collect
  <2>2. /\ hold' = [hold EXCEPT ![t] = S] /\ list' = Remaining(list, S)
        /\ inList' = inList \ S /\ woken' = woken \cup S /\ UNCHANGED <<event, timedOut>>
      BY <1>2 DEF Collect
  <2>3. S \subseteq inList
      BY TakenListed DEF BlocksOK
  <2> HIDE DEF S
  <2>4. hold'[t] = S /\ \A p \in Producer \ {t} : hold'[p] = hold[p]
      BY <1>0, <2>2, CVThreads DEF CVTypes
  <2>5. Distinct(list') /\ Members(list') = inList'
      BY <2>2, RemainingMembers DEF BlocksOK, CVTypes
  <2>6. \A p \in Producer : hold[p] \cap inList = {}
      BY DEF BlocksOK
  <2>7. \A u \in Sleeper : vpc[u] \in SleepPc => vpc'[u] = vpc[u]
      BY <2>1, CVThreads DEF VMoves, SleepPc
  <2>8. \A u \in inList' : vpc'[u] \in SleepPc \ {"rewait"} /\ u \notin woken' /\ u \notin event'
      BY <1>s, <2>2, <2>7 DEF BlocksOK
  <2>9. \A p \in Producer : \A u \in hold'[p] : vpc'[u] \in SleepPc /\ u \in woken' /\ u \notin event'
      BY <1>s, <2>2, <2>3, <2>4, <2>7 DEF BlocksOK
  <2>10. \A p, q \in Producer : p # q => hold'[p] \cap hold'[q] = {}
      BY <2>3, <2>4, <2>6 DEF BlocksOK
  <2>11. \A u \in Sleeper : vpc'[u] = "unlink" /\ u \notin timedOut' =>
           u \notin inList' /\ \A p \in Producer : u \notin hold'[p]
    <3>1. \A u \in Sleeper : vpc'[u] = "unlink" => vpc[u] = "unlink"
        BY <2>1, CVThreads DEF VMoves
    <3> QED
        BY <2>2, <2>3, <2>4, <3>1 DEF BlocksOK
  <2> QED
      BY <2>5, <2>8, <2>9, <2>10, <2>11 DEF BlocksOK, Distinct, Members
<1>3. CASE SignalOne(t)
  <2>1. PICK u \in hold[t] : event' = event \cup {u} /\ hold' = [hold EXCEPT ![t] = @ \ {u}]
      BY <1>3 DEF SignalOne
  <2>2. UNCHANGED <<vpc, timedOut, list, inList, woken>>
      BY <1>3 DEF SignalOne
  <2>3. hold'[t] = hold[t] \ {u} /\ \A p \in Producer \ {t} : hold'[p] = hold[p]
      BY <1>0, <2>1, CVThreads DEF CVTypes
  <2>4. u \notin inList /\ \A p \in Producer : u \notin hold'[p]
      BY <2>1, <2>3 DEF BlocksOK
  <2>5. \A p \in Producer : hold'[p] \subseteq hold[p]
      BY <2>3
  <2> QED
      BY <2>1, <2>2, <2>3, <2>4, <2>5 DEF BlocksOK
<1> QED
    BY <1>1, <1>2, <1>3 DEF ProducerStep

LEMMA BlocksStep == CVTypes /\ BlocksOK /\ [CVNext]_cvVars => BlocksOK'
<1>1. UNCHANGED cvVars /\ BlocksOK => BlocksOK'
    BY DEF cvVars, BlocksOK, block, wakeVars
<1> QED
    BY <1>1, BlocksSleeper, BlocksProducer DEF CVNext

-----------------------------------------------------------------------------
(* Condition variables: the wake-ups.                                      *)

(* Who is going to look at the items of c, and who is bringing one.  With  *)
(* RtlWakeConditionVariable there are as many of them as items while       *)
(* anybody is listed; with RtlWakeAllConditionVariable the list is not     *)
(* left before it is empty.                                                *)
Looking(c) ==
  {t \in Consumer : /\ cv[t] = c /\ t \notin inList
                    /\ t \in woken \/ vpc[t] \in {"unlink", "relock", "test"}}
Bringing(c) == {p \in Producer : cv[p] = c /\ vpc[p] \in {"unlock", "collect"}}
SomeListed(c) == \E t \in inList : cv[t] = c
Enough(c) == SomeListed(c) => items[c] <= Cardinality(Looking(c)) + Cardinality(Bringing(c))
OneOK ==
  wakesOne => /\ full = {}
              /\ \A t \in Reader : vpc[t] \notin SleepPc \cup {"test", "relock"}
              /\ \A c \in CV : Enough(c)
Serving(p, c) == cv[p] = c /\ (vpc[p] \in {"unlock", "collect"} \/ p \in full)
AllOK ==
  ~wakesOne => \A c \in CV : items[c] > 0 /\ SomeListed(c) => \E p \in Producer : Serving(p, c)

CVInv == CVTypes /\ BlocksOK /\ OneOK /\ AllOK

LEMMA PositionsFinite ==
  ASSUME CVTypes, NEW c
  PROVE  WaitingFor(c) \in SUBSET Int /\ IsFiniteSet(WaitingFor(c)) /\ Limit \in Nat \ {0}
<1>1. DOMAIN list = 1..Len(list) /\ Len(list) \in Nat
    BY DEF CVTypes
<1>2. IsFiniteSet(1..Len(list))
    BY <1>1, FS_Interval
<1>3. WaitingFor(c) \in SUBSET (1..Len(list))
    BY <1>1 DEF WaitingFor
<1>4. IsFiniteSet(WaitingFor(c))
    BY <1>2, <1>3, FS_Subset
<1> QED
    BY <1>1, <1>3, <1>4, CVAssumption DEF Limit

(* A waker that finds a block takes one.                                   *)
LEMMA SomeTaken ==
  ASSUME CVTypes, BlocksOK, NEW c, SomeListed(c) PROVE \E u \in Taken(c) : TRUE
<1> DEFINE P == WaitingFor(c)
           T == {i \in P : Before(P, i) < Limit}
<1>1. PICK k \in P : TRUE
    BY DEF SomeListed, BlocksOK, Members, WaitingFor
<1>2. P \in SUBSET Int /\ IsFiniteSet(P) /\ Limit \in Nat \ {0}
    BY PositionsFinite
<1> HIDE DEF P
<1>3. T # {}
  <2> SUFFICES ASSUME T = {} PROVE FALSE
      OBVIOUS
  <2>1. T # P
      BY <1>1
  <2>2. Cardinality(T) = Limit
      BY <1>2, <2>1, FirstTaken
  <2> QED
      BY <1>2, <2>2, FS_EmptySet
<1>4. PICK i \in T : TRUE
    BY <1>3
<1> QED
    BY <1>4 DEF Taken, P

(* One that does not fill Waiters[] takes all.                             *)
LEMMA AllTaken ==
  ASSUME CVTypes, BlocksOK, NEW c, Cardinality(Taken(c)) # Limit
  PROVE  \A u \in inList : cv[u] = c => u \in Taken(c)
<1> DEFINE P == WaitingFor(c)
           T == {i \in P : Before(P, i) < Limit}
           f == [i \in T |-> list[i]]
<1>1. P \in SUBSET Int /\ IsFiniteSet(P) /\ Limit \in Nat \ {0}
    BY PositionsFinite
<1>2. Taken(c) = {list[i] : i \in T}
    BY DEF Taken
<1>3. \A i \in P : i \in DOMAIN list /\ cv[list[i]] = c
    BY DEF WaitingFor
<1>4. \A i \in DOMAIN list : cv[list[i]] = c => i \in P
    BY DEF WaitingFor
<1> HIDE DEF P
<1>5. f \in Bijection(T, Taken(c))
  <2>1. \A i, j \in T : list[i] = list[j] => i = j
      BY <1>3 DEF BlocksOK, Distinct
  <2> QED
      BY <1>2, <2>1 DEF Bijection, Injection, Surjection, IsInjective
<1>6. IsFiniteSet(T)
    BY <1>1, FS_Subset
<1>7. Cardinality(T) = Cardinality(Taken(c))
    BY <1>5, <1>6, FS_Bijection DEF ExistsBijection
<1>8. T = P
    BY <1>1, <1>7, FirstTaken
<1> QED
    BY <1>2, <1>4, <1>8 DEF BlocksOK, Members

LEMMA LookersFinite ==
  ASSUME NEW c
  PROVE  /\ IsFiniteSet(Looking(c)) /\ IsFiniteSet(Bringing(c))
         /\ Cardinality(Looking(c)) \in Nat /\ Cardinality(Bringing(c)) \in Nat
<1>1. Looking(c) \in SUBSET Consumer /\ Bringing(c) \in SUBSET Producer
    BY DEF Looking, Bringing
<1>2. IsFiniteSet(Looking(c)) /\ IsFiniteSet(Bringing(c))
    BY <1>1, CVAssumption, FS_Subset
<1> QED
    BY <1>2, FS_CardinalityType

LEMMA LookersFiniteNext ==
  ASSUME NEW c
  PROVE  /\ IsFiniteSet(Looking(c)') /\ IsFiniteSet(Bringing(c)')
         /\ Cardinality(Looking(c)') \in Nat /\ Cardinality(Bringing(c)') \in Nat
<1>1. Looking(c)' \in SUBSET Consumer /\ Bringing(c)' \in SUBSET Producer
    BY DEF Looking, Bringing
<1>2. IsFiniteSet(Looking(c)') /\ IsFiniteSet(Bringing(c)')
    BY <1>1, CVAssumption, FS_Subset
<1> QED
    BY <1>2, FS_CardinalityType

LEMMA Grows ==
  ASSUME NEW S, NEW T, IsFiniteSet(T), S \subseteq T
  PROVE  Cardinality(S) <= Cardinality(T)
BY FS_Subset

LEMMA GrowsByOne ==
  ASSUME NEW S, NEW T, NEW x, IsFiniteSet(S), IsFiniteSet(T), S \ {x} \subseteq T
  PROVE  /\ Cardinality(S) <= Cardinality(T) + 1
         /\ x \notin S /\ x \in T => Cardinality(S) + 1 <= Cardinality(T)
<1>1. /\ IsFiniteSet(S \ {x})
      /\ Cardinality(S \ {x}) = IF x \in S THEN Cardinality(S) - 1 ELSE Cardinality(S)
    BY FS_RemoveElement
<1>2. Cardinality(S \ {x}) <= Cardinality(T)
    BY <1>1, Grows
<1>3. Cardinality(S) \in Nat /\ Cardinality(T) \in Nat /\ Cardinality(S \ {x}) \in Nat
    BY <1>1, FS_CardinalityType
<1>4. ASSUME x \notin S, x \in T PROVE Cardinality(S) + 1 <= Cardinality(T)
  <2>1. Cardinality(S \cup {x}) = Cardinality(S) + 1
      BY <1>4, FS_AddElement
  <2>2. S \cup {x} \subseteq T
      BY <1>4
  <2> QED
      BY <2>1, <2>2, Grows
<1> QED
    BY <1>1, <1>2, <1>3, <1>4

LEMMA EnoughKept ==
  ASSUME CVTypes, CVTypes', NEW c \in CV, Enough(c),
         Looking(c) \subseteq Looking(c)', Bringing(c) \subseteq Bringing(c)',
         items'[c] <= items[c], SomeListed(c)' => SomeListed(c)
  PROVE  Enough(c)'
<1>1. /\ Cardinality(Looking(c)) <= Cardinality(Looking(c)')
      /\ Cardinality(Bringing(c)) <= Cardinality(Bringing(c)')
    BY LookersFiniteNext, Grows
<1>2. items[c] \in Nat /\ items'[c] \in Nat
    BY DEF CVTypes
<1>3. /\ Cardinality(Looking(c)) \in Nat /\ Cardinality(Bringing(c)) \in Nat
      /\ Cardinality(Looking(c)') \in Nat /\ Cardinality(Bringing(c)') \in Nat
    BY LookersFinite, LookersFiniteNext
<1>4. ASSUME SomeListed(c)' PROVE items'[c] <= Cardinality(Looking(c)') + Cardinality(Bringing(c)')
  <2>1. items[c] <= Cardinality(Looking(c)) + Cardinality(Bringing(c))
      BY <1>4 DEF Enough
  <2> QED
      BY <1>1, <1>2, <1>3, <2>1
<1> QED
    BY <1>4 DEF Enough

LEMMA UseFixed == [CVNext]_cvVars => UNCHANGED <<cv, wakesOne>>
BY DEF CVNext, cvVars, use, SleeperStep, ProducerStep, TimesOut, Begin, Finish, Sleep, ReleaseLock,
       Satisfied, Unlink, Rewait, Relock, Produce, Unlock, Collect, SignalOne, SignalDone

LEMMA EnoughSleeper ==
  ASSUME CVInv, CVTypes', wakesOne, UNCHANGED cv, NEW t \in Sleeper,
         SleeperStep(t) \/ TimesOut(t), NEW c \in CV
  PROVE  Enough(c)'
<1>0. t \in CVThread /\ Sleeper \subseteq CVThread /\ Producer \subseteq CVThread /\ Consumer \subseteq CVThread
    BY CVThreads DEF Sleeper
<1>i. items[c] \in Nat /\ items'[c] \in Nat /\ Enough(c)
    BY DEF CVInv, CVTypes, OneOK
<1>c. vpc[t] # "out" => t \in Consumer
    BY DEF CVInv, OneOK, SleeperStep, TimesOut, Begin, Finish, Sleep, ReleaseLock, Satisfied, Unlink,
           Rewait, Relock, SleepPc, Sleeper
<1>1. CASE Begin(t) \/ ReleaseLock(t) \/ Satisfied(t) \/ TimesOut(t) \/ Relock(t)
  <2>1. UNCHANGED <<items, inList, woken>>
      BY <1>1 DEF Begin, ReleaseLock, Satisfied, TimesOut, Relock, stock, block
  <2>2. PICK l \in {"test", "blocked", "unlink"} : VMoves(t, l) /\ (l = "blocked" => vpc[t] = "listed")
      BY <1>0, <1>1, VMovesTo DEF Begin, ReleaseLock, Satisfied, TimesOut, Relock, CVInv
  <2>3. vpc[t] \notin {"unlock", "collect"}
      BY <1>1 DEF Begin, ReleaseLock, Satisfied, TimesOut, Relock
  <2>4. Looking(c) \subseteq Looking(c)'
      BY <1>0, <2>1, <2>2 DEF Looking, VMoves
  <2>5. Bringing(c) \subseteq Bringing(c)'
      BY <1>0, <2>2, <2>3 DEF Bringing, VMoves
  <2> QED
      BY <1>i, <2>1, <2>4, <2>5, EnoughKept DEF SomeListed, CVInv
<1>2. CASE Unlink(t) \/ Rewait(t)
  <2>1. UNCHANGED items /\ inList' \subseteq inList /\ (t \in inList' => t \in inList)
      BY <1>2 DEF Unlink, Rewait, stock
  <2>2. PICK l \in {"rewait", "relock"} :
          VMoves(t, l) /\ (l = "rewait" => t \in woken') /\ \A u \in woken \ {t} : u \in woken'
      BY <1>0, <1>2, VMovesTo DEF Unlink, Rewait, CVInv
  <2>3. vpc[t] \notin {"unlock", "collect"}
      BY <1>2 DEF Unlink, Rewait
  <2>4. Looking(c) \subseteq Looking(c)'
      BY <1>0, <2>1, <2>2 DEF Looking, VMoves
  <2>5. Bringing(c) \subseteq Bringing(c)'
      BY <1>0, <2>2, <2>3 DEF Bringing, VMoves
  <2> QED
      BY <1>i, <2>1, <2>4, <2>5, EnoughKept DEF SomeListed, CVInv
<1>3. CASE Sleep(t)
  <2>1. UNCHANGED items /\ inList' = inList \cup {t} /\ woken' = woken \ {t} /\ items[cv[t]] = 0
      BY <1>3 DEF Sleep, stock
  <2>2. VMoves(t, "listed") /\ vpc[t] = "test"
      BY <1>0, <1>3, VMovesTo DEF Sleep, CVInv
  <2>3. CASE c = cv[t]
      BY <1>i, <2>1, <2>3, LookersFiniteNext DEF Enough
  <2>4. CASE c # cv[t]
    <3>1. Looking(c) \subseteq Looking(c)' /\ Bringing(c) \subseteq Bringing(c)'
        BY <1>0, <2>1, <2>2, <2>4 DEF Looking, Bringing, VMoves
    <3> QED
        BY <1>i, <2>1, <2>4, <3>1, EnoughKept DEF SomeListed, CVInv
  <2> QED
      BY <2>3, <2>4
<1>4. CASE Finish(t)
  <2>1. UNCHANGED <<inList, woken>> /\ VMoves(t, "done") /\ vpc[t] = "test" /\ t \in Consumer
      BY <1>0, <1>4, <1>c, VMovesTo DEF Finish, block, CVInv
  <2>2. Bringing(c) \subseteq Bringing(c)'
      BY <1>0, <2>1 DEF Bringing, VMoves
  <2>3. CASE c # cv[t] \/ ~(items[cv[t]] > 0)
    <3>1. items'[c] = items[c]
        BY <1>4, <2>1, <2>3 DEF Finish, CVInv, CVTypes
    <3>2. CASE c # cv[t]
      <4>1. Looking(c) \subseteq Looking(c)'
          BY <1>0, <2>1, <3>2 DEF Looking, VMoves
      <4> QED
          BY <1>i, <2>1, <2>2, <3>1, <4>1, EnoughKept DEF SomeListed, CVInv
    <3>3. CASE c = cv[t]
      <4>1. items'[c] = 0
          BY <1>i, <2>3, <3>1, <3>3
      <4> QED
          BY <4>1, LookersFiniteNext DEF Enough
    <3> QED
        BY <3>2, <3>3
  <2>4. CASE c = cv[t] /\ items[cv[t]] > 0
    <3>1. items'[c] = items[c] - 1
        BY <1>4, <2>1, <2>4 DEF Finish, CVInv, CVTypes
    <3>2. Looking(c) \ {t} \subseteq Looking(c)'
        BY <1>0, <2>1 DEF Looking, VMoves
    <3>3. Cardinality(Looking(c)) <= Cardinality(Looking(c)') + 1
        BY <3>2, LookersFinite, LookersFiniteNext, GrowsByOne
    <3>4. Cardinality(Bringing(c)) <= Cardinality(Bringing(c)')
        BY <2>2, LookersFiniteNext, Grows
    <3>5. /\ Cardinality(Looking(c)) \in Nat /\ Cardinality(Bringing(c)) \in Nat
          /\ Cardinality(Looking(c)') \in Nat /\ Cardinality(Bringing(c)') \in Nat
        BY LookersFinite, LookersFiniteNext
    <3>6. ASSUME SomeListed(c)'
          PROVE  items'[c] <= Cardinality(Looking(c)') + Cardinality(Bringing(c)')
      <4>1. items[c] <= Cardinality(Looking(c)) + Cardinality(Bringing(c))
          BY <1>i, <2>1, <3>6 DEF Enough, SomeListed
      <4> QED
          BY <1>i, <3>1, <3>3, <3>4, <3>5, <4>1
    <3> QED
        BY <3>6 DEF Enough
  <2> QED
      BY <2>3, <2>4
<1> QED
    BY <1>1, <1>2, <1>3, <1>4 DEF SleeperStep

LEMMA EnoughProducer ==
  ASSUME CVInv, CVTypes', wakesOne, UNCHANGED cv, NEW t \in Producer,
         Produce(t) \/ ProducerStep(t), NEW c \in CV
  PROVE  Enough(c)'
<1>0. t \in CVThread /\ Sleeper \subseteq CVThread /\ Producer \subseteq CVThread /\ Consumer \subseteq CVThread
    BY CVThreads DEF Sleeper
<1>i. items[c] \in Nat /\ items'[c] \in Nat /\ Enough(c)
    BY DEF CVInv, CVTypes, OneOK
<1>n. /\ Cardinality(Looking(c)) \in Nat /\ Cardinality(Bringing(c)) \in Nat
      /\ Cardinality(Looking(c)') \in Nat /\ Cardinality(Bringing(c)') \in Nat
    BY LookersFinite, LookersFiniteNext
<1>1. CASE Unlock(t) \/ SignalDone(t)
  <2>1. UNCHANGED <<items, inList, woken>>
      BY <1>1 DEF Unlock, SignalDone, stock, block
  <2>2. PICK l \in {"collect", "out"} : VMoves(t, l) /\ (l = "out" => vpc[t] = "signal")
      BY <1>0, <1>1, VMovesTo DEF Unlock, SignalDone, CVInv
  <2>3. vpc[t] \notin {"unlink", "relock", "test"}
      BY <1>1 DEF Unlock, SignalDone
  <2>4. Looking(c) \subseteq Looking(c)' /\ Bringing(c) \subseteq Bringing(c)'
      BY <1>0, <2>1, <2>2, <2>3 DEF Looking, Bringing, VMoves
  <2> QED
      BY <1>i, <2>1, <2>4, EnoughKept DEF SomeListed, CVInv
<1>2. CASE SignalOne(t)
  <2>1. UNCHANGED <<items, inList, woken, vpc>>
      BY <1>2 DEF SignalOne, stock
  <2>2. Looking(c) \subseteq Looking(c)' /\ Bringing(c) \subseteq Bringing(c)'
      BY <2>1 DEF Looking, Bringing
  <2> QED
      BY <1>i, <2>1, <2>2, EnoughKept DEF SomeListed, CVInv
<1>3. CASE Produce(t)
  <2>1. UNCHANGED <<inList, woken>> /\ VMoves(t, "unlock") /\ vpc[t] = "out"
      BY <1>0, <1>3, VMovesTo DEF Produce, block, CVInv
  <2>2. Looking(c) \subseteq Looking(c)' /\ Bringing(c) \subseteq Bringing(c)'
      BY <1>0, <2>1 DEF Looking, Bringing, VMoves
  <2>3. CASE c # cv[t]
    <3>1. items'[c] = items[c]
        BY <1>3, <2>3 DEF Produce, CVInv, CVTypes
    <3> QED
        BY <1>i, <2>1, <2>2, <3>1, EnoughKept DEF SomeListed, CVInv
  <2>4. CASE c = cv[t]
    <3>1. items'[c] = items[c] + 1
        BY <1>3, <2>4 DEF Produce, CVInv, CVTypes
    <3>2. t \notin Bringing(c) /\ t \in Bringing(c)'
        BY <2>1, <2>4 DEF Bringing, VMoves
    <3>3. Cardinality(Bringing(c)) + 1 <= Cardinality(Bringing(c)')
        BY <2>2, <3>2, LookersFinite, LookersFiniteNext, GrowsByOne
    <3>4. Cardinality(Looking(c)) <= Cardinality(Looking(c)')
        BY <2>2, LookersFiniteNext, Grows
    <3>5. ASSUME SomeListed(c)'
          PROVE  items'[c] <= Cardinality(Looking(c)') + Cardinality(Bringing(c)')
      <4>1. items[c] <= Cardinality(Looking(c)) + Cardinality(Bringing(c))
          BY <1>i, <2>1, <3>5 DEF Enough, SomeListed
      <4> QED
          BY <1>i, <1>n, <3>1, <3>3, <3>4, <4>1
    <3> QED
        BY <3>5 DEF Enough
  <2> QED
      BY <2>3, <2>4
<1>4. CASE Collect(t)
  <2>1. /\ UNCHANGED items /\ inList' = inList \ Taken(cv[t]) /\ woken' = woken \cup Taken(cv[t])
        /\ VMoves(t, "signal") /\ vpc[t] = "collect"
      BY <1>0, <1>4, VMovesTo DEF Collect, stock, CVInv
  <2>2. Looking(c) \subseteq Looking(c)'
      BY <1>0, <2>1 DEF Looking, VMoves
  <2>3. CASE c # cv[t]
    <3>1. Bringing(c) \subseteq Bringing(c)'
        BY <1>0, <2>1, <2>3 DEF Bringing, VMoves
    <3> QED
        BY <1>i, <2>1, <2>2, <3>1, EnoughKept DEF SomeListed, CVInv
  <2>4. CASE c = cv[t]
    <3>1. Bringing(c) \ {t} \subseteq Bringing(c)'
        BY <1>0, <2>1 DEF Bringing, VMoves
    <3>2. Cardinality(Bringing(c)) <= Cardinality(Bringing(c)') + 1
        BY <3>1, LookersFinite, LookersFiniteNext, GrowsByOne
    <3>3. ASSUME SomeListed(c)'
          PROVE  items'[c] <= Cardinality(Looking(c)') + Cardinality(Bringing(c)')
      <4>1. SomeListed(c)
          BY <2>1, <3>3 DEF SomeListed
      <4>2. PICK u \in Taken(c) : TRUE
          BY <4>1, SomeTaken DEF CVInv
      <4>3. u \in inList /\ cv[u] = c
          BY <4>2, TakenListed DEF CVInv, BlocksOK
      <4>4. u \in Consumer
        <5>1. u \in Sleeper /\ vpc[u] \in SleepPc
            BY <4>3 DEF CVInv, BlocksOK, CVTypes, Members
        <5> QED
            BY <5>1 DEF CVInv, OneOK, Sleeper
      <4>5. u \notin Looking(c) /\ u \in Looking(c)'
          BY <2>1, <2>4, <4>2, <4>3, <4>4 DEF Looking
      <4>6. Cardinality(Looking(c)) + 1 <= Cardinality(Looking(c)')
          BY <2>2, <4>5, LookersFinite, LookersFiniteNext, GrowsByOne
      <4>7. items[c] <= Cardinality(Looking(c)) + Cardinality(Bringing(c))
          BY <1>i, <4>1 DEF Enough
      <4> QED
          BY <1>i, <1>n, <2>1, <3>2, <4>6, <4>7
    <3> QED
        BY <3>3 DEF Enough
  <2> QED
      BY <2>3, <2>4
<1> QED
    BY <1>1, <1>2, <1>3, <1>4 DEF ProducerStep

LEMMA OneStep == CVInv /\ CVTypes' /\ [CVNext]_cvVars => OneOK'
<1> SUFFICES ASSUME CVInv, CVTypes', [CVNext]_cvVars, wakesOne'
             PROVE  /\ full' = {}
                    /\ \A t \in Reader : vpc'[t] \notin SleepPc \cup {"test", "relock"}
                    /\ \A c \in CV : Enough(c)'
    BY DEF OneOK
<1>1. UNCHANGED cv /\ wakesOne /\ full = {}
    BY UseFixed DEF CVInv, OneOK
<1>2. CASE UNCHANGED cvVars
    BY <1>1, <1>2 DEF cvVars, CVInv, OneOK, Enough, SomeListed, Looking, Bringing, stock, block, wakeVars
<1>3. ASSUME NEW t \in Sleeper, SleeperStep(t) \/ TimesOut(t)
      PROVE  /\ full' = {} /\ \A u \in Reader : vpc'[u] \notin SleepPc \cup {"test", "relock"}
  <2>1. t \in CVThread /\ \A u \in Reader : u \in CVThread
      BY CVThreads DEF Sleeper
  <2>2. full' = full
      BY <1>3 DEF SleeperStep, TimesOut, Begin, Finish, Sleep, ReleaseLock, Satisfied, Unlink, Rewait,
                  Relock, wakeVars
  <2>3. t \notin Reader
      BY <1>1, <1>3 DEF CVInv, OneOK, SleeperStep, TimesOut, Begin, Finish, Sleep, ReleaseLock, Satisfied,
             Unlink, Rewait, Relock, SleepPc
  <2>4. \E l : VMoves(t, l)
      BY <1>3, <2>1, VMovesTo DEF CVInv, SleeperStep, TimesOut, Begin, Finish, Sleep, ReleaseLock,
         Satisfied, Unlink, Rewait, Relock
  <2> QED
      BY <1>1, <2>1, <2>2, <2>3, <2>4 DEF VMoves, CVInv, OneOK
<1>4. ASSUME NEW t \in Producer, Produce(t) \/ ProducerStep(t)
      PROVE  /\ full' = {} /\ \A u \in Reader : vpc'[u] \notin SleepPc \cup {"test", "relock"}
  <2>1. t \in CVThread /\ \A u \in Reader : u \in CVThread
      BY CVThreads DEF Sleeper, CVThread
  <2>2. full' = {}
      BY <1>1, <1>4 DEF ProducerStep, Produce, Unlock, Collect, SignalOne, SignalDone, wakeVars
  <2>3. CASE SignalOne(t)
      BY <1>1, <2>2, <2>3 DEF SignalOne, CVInv, OneOK
  <2>4. CASE ~SignalOne(t)
    <3>1. PICK l \in {"unlock", "collect", "signal", "out"} : VMoves(t, l)
        BY <1>4, <2>1, <2>4, VMovesTo DEF CVInv, ProducerStep, Produce, Unlock, Collect, SignalDone
    <3> QED
        BY <1>1, <2>1, <2>2, <3>1 DEF VMoves, CVInv, OneOK, SleepPc
  <2> QED
      BY <2>3, <2>4
<1> QED
    BY <1>1, <1>2, <1>3, <1>4, EnoughSleeper, EnoughProducer DEF CVNext

(* A waker that serves c goes on, and the list of c is not left non-empty. *)
LEMMA AllStep == CVInv /\ CVTypes' /\ [CVNext]_cvVars => AllOK'
<1> SUFFICES ASSUME CVInv, CVTypes', [CVNext]_cvVars, ~wakesOne',
                    NEW c \in CV, items'[c] > 0, SomeListed(c)'
             PROVE  \E p \in Producer : Serving(p, c)'
    BY DEF AllOK
<1>1. UNCHANGED cv /\ ~wakesOne
    BY UseFixed
<1>2. items[c] \in Nat /\ items'[c] \in Nat
    BY DEF CVInv, CVTypes
<1>3. CASE UNCHANGED cvVars
    BY <1>1, <1>3 DEF cvVars, CVInv, AllOK, SomeListed, Serving, stock, block, wakeVars
<1>4. ASSUME NEW t \in Sleeper, SleeperStep(t) \/ TimesOut(t)
      PROVE  \E p \in Producer : Serving(p, c)'
  <2>1. t \in CVThread /\ Producer \subseteq CVThread
      BY CVThreads
  <2>2. full' = full /\ vpc[t] \notin {"unlock", "collect"}
      BY <1>4 DEF SleeperStep, TimesOut, Begin, Finish, Sleep, ReleaseLock, Satisfied, Unlink, Rewait,
                  Relock, wakeVars
  <2>3. items[c] > 0
    <3>1. CASE Finish(t)
        BY <1>2, <3>1 DEF Finish, CVInv, CVTypes
    <3>2. CASE ~Finish(t)
        BY <1>4, <3>2 DEF SleeperStep, TimesOut, Begin, Sleep, ReleaseLock, Satisfied, Unlink, Rewait,
                  Relock, stock
    <3> QED
        BY <3>1, <3>2
  <2>4. SomeListed(c)
    <3>1. CASE Sleep(t)
        BY <1>1, <2>3, <3>1 DEF Sleep, SomeListed
    <3>2. CASE ~Sleep(t)
      <4>1. inList' \subseteq inList
          BY <1>4, <3>2 DEF SleeperStep, TimesOut, Begin, Finish, ReleaseLock, Satisfied, Unlink, Rewait,
                  Relock, block
      <4> QED
          BY <1>1, <4>1 DEF SomeListed
    <3> QED
        BY <3>1, <3>2
  <2>5. PICK p \in Producer : Serving(p, c)
      BY <1>1, <2>3, <2>4 DEF CVInv, AllOK
  <2>6. \E l : VMoves(t, l)
      BY <1>4, <2>1, VMovesTo DEF CVInv, SleeperStep, TimesOut, Begin, Finish, Sleep, ReleaseLock,
         Satisfied, Unlink, Rewait, Relock
  <2> QED
      BY <1>1, <2>1, <2>2, <2>5, <2>6 DEF Serving, VMoves
<1>5. ASSUME NEW t \in Producer, Produce(t) \/ ProducerStep(t)
      PROVE  \E p \in Producer : Serving(p, c)'
  <2>1. t \in CVThread /\ Producer \subseteq CVThread
      BY CVThreads
  <2>2. CASE Produce(t)
    <3>1. VMoves(t, "unlock") /\ vpc[t] = "out" /\ UNCHANGED <<inList, full>>
        BY <2>1, <2>2, VMovesTo DEF Produce, CVInv, block, wakeVars
    <3>2. CASE c = cv[t]
        BY <1>1, <3>1, <3>2 DEF Serving, VMoves
    <3>3. CASE c # cv[t]
      <4>1. items'[c] = items[c]
          BY <2>2, <3>3 DEF Produce, CVInv, CVTypes
      <4>2. PICK p \in Producer : Serving(p, c)
          BY <1>1, <3>1, <4>1 DEF CVInv, AllOK, SomeListed
      <4> QED
          BY <1>1, <2>1, <3>1, <4>2 DEF Serving, VMoves
    <3> QED
        BY <3>2, <3>3
  <2>3. CASE ~Produce(t)
    <3>1. items' = items /\ inList' \subseteq inList
        BY <1>5, <2>3 DEF ProducerStep, Unlock, Collect, SignalOne, SignalDone, stock, block
    <3>2. PICK p \in Producer : Serving(p, c)
        BY <1>1, <3>1 DEF CVInv, AllOK, SomeListed
    <3>3. CASE Unlock(t)
      <4>1. VMoves(t, "collect") /\ UNCHANGED full
          BY <2>1, <3>3, VMovesTo DEF Unlock, CVInv, wakeVars
      <4> QED
          BY <1>1, <2>1, <3>2, <4>1 DEF Serving, VMoves
    <3>4. CASE SignalOne(t)
        BY <1>1, <3>2, <3>4 DEF SignalOne, Serving
    <3>5. CASE SignalDone(t)
      <4>1. PICK l : VMoves(t, l) /\ (t \in full => l = "collect") /\ vpc[t] = "signal" /\ full' = full \ {t}
          BY <2>1, <3>5, VMovesTo DEF SignalDone, CVInv
      <4> QED
          BY <1>1, <2>1, <3>2, <4>1 DEF Serving, VMoves
    <3>6. CASE Collect(t)
      <4>1. VMoves(t, "signal") /\ inList' = inList \ Taken(cv[t])
          BY <2>1, <3>6, VMovesTo DEF Collect, CVInv
      <4>2. \A q \in full \ {t} : q \in full'
          BY <3>6 DEF Collect
      <4>3. CASE p # t
          BY <1>1, <2>1, <3>2, <4>1, <4>2, <4>3 DEF Serving, VMoves
      <4>4. CASE p = t
        <5>1. cv[t] = c /\ cv'[t] = c
            BY <1>1, <3>2, <4>4 DEF Serving
        <5>2. CASE Cardinality(Taken(cv[t])) = Batch
          <6>1. t \in full'
              BY <1>1, <3>6, <5>2 DEF Collect
          <6> QED
              BY <5>1, <6>1 DEF Serving
        <5>3. CASE Cardinality(Taken(cv[t])) # Batch
          <6>1. Cardinality(Taken(c)) # Limit
              BY <1>1, <5>1, <5>3 DEF Limit
          <6>2. \A u \in inList : cv[u] = c => u \in Taken(c)
              BY <6>1, AllTaken DEF CVInv
          <6> QED
              BY <1>1, <4>1, <5>1, <6>2 DEF SomeListed
        <5> QED
            BY <5>2, <5>3
      <4> QED
          BY <4>3, <4>4
    <3> QED
        BY <1>5, <2>3, <3>3, <3>4, <3>5, <3>6 DEF ProducerStep
  <2> QED
      BY <2>2, <2>3
<1> QED
    BY <1>3, <1>4, <1>5 DEF CVNext

LEMMA CVStart == CVInit => CVInv
<1> SUFFICES ASSUME CVInit PROVE CVInv
    OBVIOUS
<1>1. \A t \in CVThread : vpc[t] = "out" /\ hold[t] = {}
    BY DEF CVInit
<1>2. list = <<>> /\ list \in Seq(Sleeper) /\ Distinct(list) /\ Members(list) = {}
    BY DEF CVInit, Distinct, Members
<1>3. inList = {} /\ full = {}
    BY DEF CVInit
<1>4. CVTypes
    BY <1>2 DEF CVInit, CVTypes, CVLabels
<1>5. BlocksOK
    BY <1>1, <1>2, <1>3, CVThreads DEF BlocksOK
<1>6. OneOK
    BY <1>1, <1>3, CVThreads DEF OneOK, Enough, SomeListed, SleepPc, Sleeper
<1>7. AllOK
    BY <1>3 DEF AllOK, SomeListed
<1> QED
    BY <1>4, <1>5, <1>6, <1>7 DEF CVInv

LEMMA CVInvStep == CVInv /\ [CVNext]_cvVars => CVInv'
BY CVTypesStep, BlocksStep, OneStep, AllStep DEF CVInv

LEMMA CVInvSafe == CVInv => SleepersSafe
<1> SUFFICES ASSUME CVInv PROVE BlockSafe /\ NoLostWake
    BY DEF SleepersSafe
<1>1. BlockSafe
    BY DEF CVInv, BlocksOK, BlockSafe, Listed, Members
<1>2. ASSUME NEW c \in CV, items[c] > 0, SomeListed(c) PROVE Attended(c)
  <2>1. CASE wakesOne
    <3>1. items[c] <= Cardinality(Looking(c)) + Cardinality(Bringing(c)) /\ items[c] \in Nat
        BY <1>2, <2>1 DEF CVInv, OneOK, Enough, CVTypes
    <3>2. Looking(c) # {} \/ Bringing(c) # {}
      <4>1. ~(Cardinality(Looking(c)) = 0 /\ Cardinality(Bringing(c)) = 0)
          BY <1>2, <3>1, LookersFinite
      <4> QED
          BY <4>1, FS_EmptySet
    <3> QED
        BY <3>2 DEF Looking, Bringing, Attended
  <2>2. CASE ~wakesOne
      BY <1>2, <2>2 DEF CVInv, AllOK, Serving, Attended
  <2> QED
      BY <2>1, <2>2
<1> QED
    BY <1>1, <1>2 DEF NoLostWake, SomeListed

(* RtlSleepConditionVariableCS/SRW and the wakes: whoever reaches a wait   *)
(* block finds its sleeper still in the call, and no item is left with a   *)
(* sleeper listed for it and nobody on the way, for any number of threads, *)
(* condition variables and items, and any size of Waiters[].               *)
THEOREM SleepersKept == CVSpec => []SleepersSafe
<1> QED
    BY CVStart, CVInvStep, CVInvSafe, PTL DEF CVSpec

-----------------------------------------------------------------------------
(* Keyed events: the entries of the list.                                  *)

KeyValues == Key \cup {CHOOSE k \in Key : TRUE}
KEntry == [key : KeyValues, teb : KWaiter]
KLabels == {"idle"} \cup WaitPc \cup ReleasePc
EntriesOf(t) == {i \in DOMAIN entries : entries[i].teb = t}

(* Taking entry i out moves the entries behind it one place forward.       *)
Shift(i, j) == IF j < i THEN j ELSE j + 1
LEMMA TakeEntry ==
  ASSUME entries \in Seq(KEntry), NEW i \in DOMAIN entries
  PROVE  /\ Without(i) \in Seq(KEntry) /\ Len(Without(i)) = Len(entries) - 1
         /\ \A j \in 1..(Len(entries) - 1) :
              Without(i)[j] = entries[Shift(i, j)] /\ Shift(i, j) \in DOMAIN entries \ {i}
<1> DEFINE a == SubSeq(entries, 1, i - 1)
           b == SubSeq(entries, i + 1, Len(entries))
<1>1. /\ i \in 1..Len(entries) /\ Len(entries) \in Nat /\ DOMAIN entries = 1..Len(entries)
    OBVIOUS
<1>2. /\ a \in Seq(KEntry) /\ Len(a) = i - 1
      /\ \A j \in 1..(i - 1) : a[j] = entries[j]
    BY <1>1
<1>3. /\ b \in Seq(KEntry) /\ Len(b) = Len(entries) - i
      /\ \A j \in 1..(Len(entries) - i) : b[j] = entries[i + j]
    BY <1>1
<1> HIDE DEF a, b
<1>4. /\ a \o b \in Seq(KEntry) /\ Len(a \o b) = Len(a) + Len(b)
      /\ \A j \in 1..Len(a) : (a \o b)[j] = a[j]
      /\ \A j \in 1..Len(b) : (a \o b)[Len(a) + j] = b[j]
  <2>1. a \in Seq(KEntry) /\ b \in Seq(KEntry)
      BY <1>2, <1>3
  <2> QED
      BY <2>1
<1>5. ASSUME NEW j \in 1..(Len(entries) - 1)
      PROVE  (a \o b)[j] = entries[Shift(i, j)] /\ Shift(i, j) \in DOMAIN entries \ {i}
  <2>1. CASE j < i
    <3>1. j \in 1..(i - 1)
        BY <1>1, <2>1
    <3> QED
        BY <1>1, <1>2, <1>4, <2>1, <3>1 DEF Shift
  <2>2. CASE ~(j < i)
    <3>1. PICK k \in Int : k = j - (i - 1)
        BY <1>1
    <3>2. k \in 1..(Len(entries) - i) /\ i + k = j + 1 /\ (i - 1) + k = j
        BY <1>1, <2>2, <3>1
    <3>3. (a \o b)[(i - 1) + k] = b[k] /\ b[k] = entries[i + k]
        BY <1>2, <1>3, <1>4, <3>2
    <3>4. (a \o b)[j] = entries[j + 1]
        BY <3>2, <3>3
    <3> QED
        BY <1>1, <2>2, <3>4 DEF Shift
  <2> QED
      BY <2>1, <2>2
<1>6. Len(a \o b) = Len(entries) - 1
    BY <1>1, <1>2, <1>3, <1>4
<1>7. Without(i) = a \o b
    BY DEF Without, a, b
<1> QED
    BY <1>4, <1>5, <1>6, <1>7

LEMMA EntriesFinite ==
  ASSUME entries \in Seq(KEntry), NEW t
  PROVE  IsFiniteSet(EntriesOf(t)) /\ Cardinality(EntriesOf(t)) \in Nat
<1>1. DOMAIN entries = 1..Len(entries) /\ Len(entries) \in Nat
    OBVIOUS
<1>2. EntriesOf(t) \in SUBSET (1..Len(entries))
    BY <1>1 DEF EntriesOf
<1>3. IsFiniteSet(1..Len(entries))
    BY <1>1, FS_Interval
<1>4. IsFiniteSet(EntriesOf(t))
    BY <1>2, <1>3, FS_Subset
<1> QED
    BY <1>4, FS_CardinalityType

(* How many entries each thread has when one is added or taken.            *)
LEMMA EntryAdded ==
  ASSUME entries \in Seq(KEntry), NEW e \in KEntry, entries' = Append(entries, e), NEW t
  PROVE  Cardinality(EntriesOf(t)') =
           IF e.teb = t THEN Cardinality(EntriesOf(t)) + 1 ELSE Cardinality(EntriesOf(t))
<1> DEFINE n == Len(entries) + 1
<1>1. /\ DOMAIN entries = 1..Len(entries) /\ Len(entries) \in Nat
      /\ DOMAIN entries' = 1..n /\ entries'[n] = e
      /\ \A i \in DOMAIN entries : entries'[i] = entries[i]
    OBVIOUS
<1>2. n \notin EntriesOf(t) /\ \A i \in DOMAIN entries' : i \in DOMAIN entries \/ i = n
    BY <1>1 DEF EntriesOf
<1>3. n \in DOMAIN entries' /\ \A i \in DOMAIN entries : i \in DOMAIN entries'
    BY <1>1
<1>4. EntriesOf(t)' = IF e.teb = t THEN EntriesOf(t) \cup {n} ELSE EntriesOf(t)
    BY <1>1, <1>2, <1>3 DEF EntriesOf
<1> QED
    BY <1>2, <1>4, EntriesFinite, FS_AddElement

LEMMA EntryTaken ==
  ASSUME entries \in Seq(KEntry), NEW i \in DOMAIN entries, entries' = Without(i), NEW t
  PROVE  Cardinality(EntriesOf(t)') =
           IF entries[i].teb = t THEN Cardinality(EntriesOf(t)) - 1 ELSE Cardinality(EntriesOf(t))
<1> DEFINE S == EntriesOf(t) \ {i}
           T == EntriesOf(t)'
           f == [j \in T |-> Shift(i, j)]
<1>1. /\ DOMAIN entries = 1..Len(entries) /\ Len(entries) \in Nat
      /\ entries' \in Seq(KEntry) /\ DOMAIN entries' = 1..(Len(entries) - 1)
      /\ \A j \in 1..(Len(entries) - 1) :
           entries'[j] = entries[Shift(i, j)] /\ Shift(i, j) \in DOMAIN entries \ {i}
  <2>1. entries' \in Seq(KEntry) /\ Len(entries') = Len(entries) - 1
      BY TakeEntry
  <2>2. DOMAIN entries' = 1..Len(entries')
      BY <2>1
  <2>3. \A j \in 1..(Len(entries) - 1) :
          Without(i)[j] = entries[Shift(i, j)] /\ Shift(i, j) \in DOMAIN entries \ {i}
      BY TakeEntry
  <2>4. DOMAIN entries = 1..Len(entries) /\ Len(entries) \in Nat
      OBVIOUS
  <2> QED
      BY <2>1, <2>2, <2>3, <2>4
<1>2. f \in Injection(T, S)
  <2>1. \A j \in T : j \in Int /\ Shift(i, j) \in S
      BY <1>1 DEF EntriesOf
  <2>2. \A j, k \in Int : Shift(i, j) = Shift(i, k) => j = k
      BY <1>1 DEF Shift
  <2> QED
      BY <2>1, <2>2 DEF Injection, IsInjective
<1>3. ASSUME NEW k \in S PROVE \E j \in T : f[j] = k
  <2>1. k \in 1..Len(entries) /\ k # i /\ i \in 1..Len(entries) /\ entries[k].teb = t
      BY <1>1 DEF EntriesOf
  <2>2. PICK j \in 1..(Len(entries) - 1) : Shift(i, j) = k
    <3>1. CASE k < i
        BY <1>1, <2>1, <3>1 DEF Shift
    <3>2. CASE ~(k < i)
      <4>1. k - 1 \in 1..(Len(entries) - 1) /\ Shift(i, k - 1) = k
          BY <1>1, <2>1, <3>2 DEF Shift
      <4> QED
          BY <4>1
    <3> QED
        BY <3>1, <3>2
  <2>3. j \in T
      BY <1>1, <2>1, <2>2 DEF EntriesOf
  <2> QED
      BY <2>2, <2>3
<1>4. f \in Surjection(T, S)
    BY <1>2, <1>3 DEF Surjection, Injection
<1>5. /\ IsFiniteSet(S)
      /\ Cardinality(S) = IF i \in EntriesOf(t) THEN Cardinality(EntriesOf(t)) - 1 ELSE Cardinality(EntriesOf(t))
    BY EntriesFinite, FS_RemoveElement
<1>6. Cardinality(T) = Cardinality(S)
    BY <1>2, <1>4, <1>5, FS_Injection
<1>7. i \in EntriesOf(t) <=> entries[i].teb = t
    BY DEF EntriesOf
<1> QED
    BY <1>5, <1>6, <1>7

KTypes ==
  /\ entries \in Seq(KEntry) /\ sem \in [KThread -> Nat] /\ kpc \in [KThread -> KLabels]
  /\ key \in [KThread -> KeyValues] /\ found \in [KThread -> KThread] /\ onEvent \subseteq KThread
  /\ \A t \in onEvent : kpc[t] = "onEvent"
  /\ \A t \in KThread : /\ kpc[t] \in WaitPc => t \in KWaiter
                        /\ kpc[t] \in ReleasePc => t \in KReleaser
                        /\ kpc[t] = "post" => found[t] \in KWaiter

(* Every waiter is reached, exactly once while no wait has timed out.      *)
WaysOK ==
  \A t \in KWaiter :
    /\ kpc[t] \in WaitPc => Ways(t) > 0
    /\ ~expired => Ways(t) = IF kpc[t] \in WaitPc THEN 1 ELSE 0

(* And then entries, and the releasers that hold one, have the key of the  *)
(* wait that is still under way.                                           *)
KeysOK ==
  ~expired => /\ \A i \in DOMAIN entries : key[entries[i].teb] = entries[i].key
              /\ \A r \in KReleaser : kpc[r] = "post" => key[found[r]] = key[r]

KInv == KTypes /\ WaysOK /\ KeysOK

LEMMA KThreads == KWaiter \subseteq KThread /\ KReleaser \subseteq KThread
BY DEF KThread

(* Thread t goes to l and the others stay, or stop waiting for the event.  *)
KMoves(t, l) == kpc'[t] = l /\ \A u \in KThread \ {t} : kpc'[u] = kpc[u]
KPulses(t, l) ==
  /\ kpc'[t] = l
  /\ \A u \in KThread \ {t} : kpc'[u] = IF kpc[u] = "onEvent" /\ u \in onEvent THEN "search" ELSE kpc[u]

LEMMA KMovesTo ==
  ASSUME KTypes, NEW t \in KThread, NEW l \in KLabels, KGoto(t, l)
  PROVE  KMoves(t, l) /\ kpc' \in [KThread -> KLabels]
BY DEF KTypes, KGoto, KMoves

LEMMA KPulsesTo ==
  ASSUME KTypes, NEW t \in KThread, NEW l \in KLabels, Pulse(t, l)
  PROVE  KPulses(t, l) /\ kpc' \in [KThread -> KLabels] /\ onEvent' = {}
BY DEF KTypes, Pulse, KPulses, KLabels, ReleasePc

LEMMA KLabelled ==
  /\ "idle" \in KLabels /\ "pulse" \in KLabels /\ "blocked" \in KLabels /\ "search" \in KLabels
  /\ "sleep" \in KLabels /\ "onEvent" \in KLabels /\ "post" \in KLabels /\ "pulseRel" \in KLabels
BY DEF KLabels, WaitPc, ReleasePc

(* What a step leaves of the types when it does not touch the list.        *)
LEMMA KTypesKept ==
  ASSUME KTypes, NEW t \in KThread, NEW l, KMoves(t, l) \/ KPulses(t, l),
         kpc' \in [KThread -> KLabels], entries' \in Seq(KEntry), sem' \in [KThread -> Nat],
         key' \in [KThread -> KeyValues], found' \in [KThread -> KThread],
         onEvent' \subseteq KThread, \A u \in onEvent' : kpc'[u] = "onEvent",
         l \in WaitPc => t \in KWaiter, l \in ReleasePc => t \in KReleaser,
         l = "post" => found'[t] \in KWaiter, \A u \in KThread \ {t} : found'[u] = found[u]
  PROVE  KTypes'
<1>1. ASSUME NEW u \in KThread \ {t}
      PROVE  kpc'[u] = kpc[u] \/ (kpc'[u] = "search" /\ kpc[u] = "onEvent")
    BY DEF KMoves, KPulses
<1>2. kpc'[t] = l
    BY DEF KMoves, KPulses
<1>3. ASSUME NEW u \in KThread
      PROVE  /\ kpc'[u] \in WaitPc => u \in KWaiter
             /\ kpc'[u] \in ReleasePc => u \in KReleaser
             /\ kpc'[u] = "post" => found'[u] \in KWaiter
    BY <1>1, <1>2 DEF KTypes, WaitPc, ReleasePc
<1> QED
    BY <1>3 DEF KTypes

LEMMA KTypesStep == KTypes /\ [KNext]_keyVars => KTypes'
<1> SUFFICES ASSUME KTypes, [KNext]_keyVars PROVE KTypes'
    OBVIOUS
<1>1. CASE UNCHANGED keyVars
    BY <1>1 DEF keyVars, KTypes
<1>2. ASSUME NEW t \in KWaiter, NEW k \in Key, WaitKey(t, k) PROVE KTypes'
  <2>1. t \in KThread /\ k \in KeyValues /\ key' \in [KThread -> KeyValues]
      BY <1>2, KThreads DEF WaitKey, Call, KTypes, KeyValues
  <2>2. CASE UNCHANGED <<entries, kpc>>
      BY <1>2, <2>1, <2>2 DEF WaitKey, KTypes
  <2>3. CASE entries' = Append(entries, [key |-> k, teb |-> t]) /\ KGoto(t, "pulse")
    <3>1. entries' \in Seq(KEntry)
      <4>1. [key |-> k, teb |-> t] \in KEntry
          BY <2>1 DEF KEntry
      <4> QED
          BY <2>3, <4>1 DEF KTypes
    <3>2. KMoves(t, "pulse") /\ kpc' \in [KThread -> KLabels] /\ kpc[t] = "idle"
        BY <1>2, <2>1, <2>3, KMovesTo, KLabelled DEF WaitKey, Call
    <3>3. UNCHANGED <<sem, found, onEvent>>
        BY <1>2 DEF WaitKey
    <3>4. \A u \in onEvent' : kpc'[u] = "onEvent"
        BY <3>2, <3>3 DEF KTypes, KMoves
    <3>5. sem' \in [KThread -> Nat] /\ found' \in [KThread -> KThread] /\ onEvent' \subseteq KThread
        BY <3>3 DEF KTypes
    <3> QED
        BY <2>1, <3>1, <3>2, <3>3, <3>4, <3>5, KTypesKept DEF ReleasePc
  <2> QED
      BY <1>2, <2>2, <2>3 DEF WaitKey
<1>3. ASSUME NEW t \in KReleaser, NEW k \in Key, ReleaseKey(t, k) PROVE KTypes'
  <2>1. t \in KThread /\ key' \in [KThread -> KeyValues]
      BY <1>3, KThreads DEF ReleaseKey, Call, KTypes, KeyValues
  <2>2. KMoves(t, "search") /\ kpc' \in [KThread -> KLabels] /\ kpc[t] = "idle"
      BY <1>3, <2>1, KMovesTo, KLabelled DEF ReleaseKey, Call
  <2>3. UNCHANGED <<entries, sem, found, onEvent>>
      BY <1>3 DEF ReleaseKey
  <2>4. \A u \in onEvent' : kpc'[u] = "onEvent"
      BY <2>2, <2>3 DEF KTypes, KMoves
  <2>5. /\ entries' \in Seq(KEntry) /\ sem' \in [KThread -> Nat] /\ found' \in [KThread -> KThread]
        /\ onEvent' \subseteq KThread
      BY <2>3 DEF KTypes
  <2> QED
      BY <2>1, <2>2, <2>3, <2>4, <2>5, KTypesKept DEF WaitPc
<1>4. ASSUME NEW t \in KThread, WaitPulses(t) \/ ReleasePulses(t) PROVE KTypes'
  <2>1. PICK l \in {"blocked", "idle"} : /\ Pulse(t, l) /\ (l = "blocked" => kpc[t] = "pulse")
      BY <1>4 DEF WaitPulses, ReleasePulses
  <2>2. KPulses(t, l) /\ kpc' \in [KThread -> KLabels] /\ onEvent' = {}
      BY <2>1, KPulsesTo, KLabelled
  <2>3. UNCHANGED <<entries, sem, key, found>>
      BY <1>4 DEF WaitPulses, ReleasePulses
  <2>4. l = "blocked" => t \in KWaiter
      BY <2>1 DEF KTypes, WaitPc
  <2>5. /\ entries' \in Seq(KEntry) /\ sem' \in [KThread -> Nat] /\ found' \in [KThread -> KThread]
        /\ key' \in [KThread -> KeyValues]
      BY <2>3 DEF KTypes
  <2> QED
      BY <2>1, <2>2, <2>3, <2>4, <2>5, KTypesKept DEF WaitPc, ReleasePc
<1>5. ASSUME NEW t \in KThread, WaitEnds(t) \/ WaitTimesOut(t) PROVE KTypes'
  <2>1. KMoves(t, "idle") /\ kpc' \in [KThread -> KLabels] /\ kpc[t] = "blocked"
      BY <1>5, KMovesTo, KLabelled DEF WaitEnds, WaitTimesOut
  <2>2. UNCHANGED <<entries, key, found, onEvent>>
      BY <1>5 DEF WaitEnds, WaitTimesOut
  <2>3. sem' \in [KThread -> Nat]
    <3>1. sem[t] \in Nat
        BY DEF KTypes
    <3>2. sem[t] > 0 => sem[t] - 1 \in Nat
        BY <3>1
    <3> QED
        BY <1>5, <3>2 DEF WaitEnds, WaitTimesOut, KTypes
  <2>4. \A u \in onEvent' : kpc'[u] = "onEvent"
      BY <2>1, <2>2 DEF KTypes, KMoves
  <2>5. /\ entries' \in Seq(KEntry) /\ key' \in [KThread -> KeyValues] /\ found' \in [KThread -> KThread]
        /\ onEvent' \subseteq KThread
      BY <2>2 DEF KTypes
  <2> QED
      BY <2>1, <2>2, <2>3, <2>4, <2>5, KTypesKept DEF WaitPc, ReleasePc
<1>6. ASSUME NEW t \in KThread, Search(t) PROVE KTypes'
  <2>0. kpc[t] = "search" /\ t \in KReleaser
      BY <1>6 DEF Search, KTypes, ReleasePc
  <2>1. UNCHANGED <<sem, key, onEvent>>
      BY <1>6 DEF Search
  <2>2. /\ sem' \in [KThread -> Nat] /\ key' \in [KThread -> KeyValues] /\ onEvent' \subseteq KThread
      BY <2>1 DEF KTypes
  <2>3. ASSUME NEW i \in DOMAIN entries, found' = [found EXCEPT ![t] = entries[i].teb],
               entries' = Without(i), KGoto(t, "post")
        PROVE  KTypes'
    <3>1. entries[i].teb \in KWaiter
      <4>1. entries[i] \in KEntry
          BY <2>3 DEF KTypes
      <4> QED
          BY <4>1 DEF KEntry
    <3>2. found' \in [KThread -> KThread] /\ found'[t] \in KWaiter /\ \A u \in KThread \ {t} : found'[u] = found[u]
        BY <2>3, <3>1, KThreads DEF KTypes
    <3>3. entries' \in Seq(KEntry)
        BY <2>3, TakeEntry DEF KTypes
    <3>4. KMoves(t, "post") /\ kpc' \in [KThread -> KLabels]
        BY <2>3, KMovesTo, KLabelled
    <3>5. \A u \in onEvent' : kpc'[u] = "onEvent"
        BY <2>0, <2>1, <3>4 DEF KTypes, KMoves
    <3> QED
        BY <2>0, <2>2, <3>2, <3>3, <3>4, <3>5, KTypesKept DEF WaitPc
  <2>4. CASE KGoto(t, "sleep") /\ UNCHANGED <<entries, found>>
    <3>1. KMoves(t, "sleep") /\ kpc' \in [KThread -> KLabels]
        BY <2>4, KMovesTo, KLabelled
    <3>2. \A u \in onEvent' : kpc'[u] = "onEvent"
        BY <2>0, <2>1, <3>1 DEF KTypes, KMoves
    <3>3. entries' \in Seq(KEntry) /\ found' \in [KThread -> KThread]
        BY <2>4 DEF KTypes
    <3> QED
        BY <2>0, <2>2, <2>4, <3>1, <3>2, <3>3, KTypesKept DEF WaitPc
  <2> QED
      BY <1>6, <2>3, <2>4 DEF Search
<1>7. ASSUME NEW t \in KThread, SleepOnEvent(t) \/ SleepTimesOut(t) PROVE KTypes'
  <2>0. kpc[t] \in {"sleep", "onEvent"} /\ t \in KReleaser
      BY <1>7 DEF SleepOnEvent, SleepTimesOut, KTypes, ReleasePc
  <2>1. UNCHANGED <<entries, sem, key, found>>
      BY <1>7 DEF SleepOnEvent, SleepTimesOut
  <2>2. PICK l \in {"onEvent", "search"} :
          /\ KMoves(t, l) /\ kpc' \in [KThread -> KLabels]
          /\ onEvent' = IF l = "onEvent" THEN onEvent \cup {t} ELSE onEvent \ {t}
      BY <1>7, KMovesTo, KLabelled DEF SleepOnEvent, SleepTimesOut
  <2>3. onEvent' \subseteq KThread /\ \A u \in onEvent' : kpc'[u] = "onEvent"
      BY <2>2 DEF KTypes, KMoves
  <2>4. /\ entries' \in Seq(KEntry) /\ sem' \in [KThread -> Nat] /\ found' \in [KThread -> KThread]
        /\ key' \in [KThread -> KeyValues]
      BY <2>1 DEF KTypes
  <2> QED
      BY <2>0, <2>1, <2>2, <2>3, <2>4, KTypesKept DEF WaitPc
<1>8. ASSUME NEW t \in KThread, Post(t) PROVE KTypes'
  <2>0. kpc[t] = "post" /\ t \in KReleaser /\ UNCHANGED <<entries, key, onEvent>>
      BY <1>8 DEF Post, KTypes, ReleasePc
  <2>1. KMoves(t, "pulseRel") /\ kpc' \in [KThread -> KLabels]
      BY <1>8, KMovesTo, KLabelled DEF Post
  <2>2. found' \in [KThread -> KThread] /\ \A u \in KThread \ {t} : found'[u] = found[u]
      BY <1>8 DEF Post, KTypes
  <2>3. sem' \in [KThread -> Nat]
    <3>1. found[t] \in KThread /\ sem[found[t]] + 1 \in Nat
        BY DEF KTypes
    <3> QED
        BY <1>8, <3>1 DEF Post, KTypes
  <2>4. \A u \in onEvent' : kpc'[u] = "onEvent"
      BY <2>0, <2>1 DEF KTypes, KMoves
  <2>5. entries' \in Seq(KEntry) /\ key' \in [KThread -> KeyValues] /\ onEvent' \subseteq KThread
      BY <2>0 DEF KTypes
  <2> QED
      BY <2>0, <2>1, <2>2, <2>3, <2>4, <2>5, KTypesKept DEF WaitPc
<1>9. CASE Terminate
  <2>1. ASSUME NEW t \in KThread
        PROVE  sem[t] + Cardinality({i \in DOMAIN entries : entries[i].teb = t}) \in Nat
    <3>1. Cardinality({i \in DOMAIN entries : entries[i].teb = t}) \in Nat
        BY EntriesFinite DEF KTypes, EntriesOf
    <3> QED
        BY <3>1 DEF KTypes
  <2> QED
      BY <1>9, <2>1 DEF Terminate, KTypes
<1> QED
    BY <1>1, <1>2, <1>3, <1>4, <1>5, <1>6, <1>7, <1>8, <1>9 DEF KNext, KStep

LEMMA HoldersFinite ==
  ASSUME NEW t PROVE IsFiniteSet(Holders(t)) /\ Cardinality(Holders(t)) \in Nat
<1>1. Holders(t) \in SUBSET KReleaser
    BY DEF Holders
<1>2. IsFiniteSet(Holders(t))
    BY <1>1, KeyedAssumption, FS_Subset
<1> QED
    BY <1>2, FS_CardinalityType

LEMMA WaysCounted ==
  ASSUME KTypes, NEW t \in KWaiter
  PROVE  /\ Ways(t) = Cardinality(EntriesOf(t)) + Cardinality(Holders(t)) + sem[t]
         /\ Cardinality(EntriesOf(t)) \in Nat /\ Cardinality(Holders(t)) \in Nat /\ sem[t] \in Nat
<1>1. Cardinality(EntriesOf(t)) \in Nat
    BY EntriesFinite DEF KTypes
<1>2. sem[t] \in Nat
    BY KThreads DEF KTypes
<1> QED
    BY <1>1, <1>2, HoldersFinite DEF Ways, EntriesOf

(* A waiter that does not wait, while none has timed out, is not reached.  *)
LEMMA IdleUnreached ==
  ASSUME KInv, ~expired, NEW t \in KWaiter, kpc[t] = "idle"
  PROVE  (\A i \in DOMAIN entries : entries[i].teb # t) /\ Holders(t) = {}
<1>1. Ways(t) = 0
    BY DEF KInv, WaysOK, WaitPc
<1>2. Cardinality(EntriesOf(t)) = 0 /\ Cardinality(Holders(t)) = 0
    BY <1>1, WaysCounted DEF KInv
<1>3. EntriesOf(t) = {} /\ Holders(t) = {}
    BY <1>2, EntriesFinite, HoldersFinite, FS_EmptySet DEF KInv, KTypes
<1> QED
    BY <1>3 DEF EntriesOf

LEMMA KeysStep == KInv /\ [KNext]_keyVars => KeysOK'
<1> SUFFICES ASSUME KInv, [KNext]_keyVars, ~expired' PROVE
             /\ \A i \in DOMAIN entries' : key'[entries'[i].teb] = entries'[i].key
             /\ \A r \in KReleaser : kpc'[r] = "post" => key'[found'[r]] = key'[r]
    BY DEF KeysOK
<1>0. ~expired
    BY DEF KNext, KStep, keyVars, ended, WaitKey, ReleaseKey, WaitPulses, WaitEnds, Search, SleepOnEvent,
           Post, ReleasePulses, SleepTimesOut, WaitTimesOut, Terminate
<1>1. /\ \A i \in DOMAIN entries : key[entries[i].teb] = entries[i].key /\ entries[i].teb \in KWaiter
      /\ \A r \in KReleaser : kpc[r] = "post" => key[found[r]] = key[r] /\ found[r] \in KWaiter
  <2>1. \A i \in DOMAIN entries : entries[i] \in KEntry
      BY DEF KInv, KTypes
  <2>2. \A i \in DOMAIN entries : entries[i].teb \in KWaiter
      BY <2>1 DEF KEntry
  <2> QED
      BY <1>0, <2>2, KThreads DEF KInv, KeysOK, KTypes
<1>2. CASE UNCHANGED keyVars
    BY <1>1, <1>2 DEF keyVars
<1>k. ASSUME NEW t \in KThread, NEW k, Call(t, k)
      PROVE  /\ key'[t] = k /\ \A u \in KThread \ {t} : key'[u] = key[u]
             /\ \A i \in DOMAIN entries : entries[i].teb # t
             /\ \A r \in KReleaser : kpc[r] = "post" => found[r] # t /\ r # t
  <2>1. kpc[t] = "idle" /\ key'[t] = k /\ \A u \in KThread \ {t} : key'[u] = key[u]
      BY <1>k DEF Call, KInv, KTypes
  <2>2. CASE t \in KWaiter
    <3>1. (\A i \in DOMAIN entries : entries[i].teb # t) /\ Holders(t) = {}
        BY <1>0, <2>1, <2>2, IdleUnreached
    <3> QED
        BY <2>1, <3>1 DEF Holders
  <2>3. CASE t \notin KWaiter
      BY <1>1, <2>1, <2>3
  <2> QED
      BY <2>2, <2>3
<1>3. ASSUME NEW t \in KWaiter, NEW k \in Key, WaitKey(t, k)
      PROVE  /\ \A i \in DOMAIN entries' : key'[entries'[i].teb] = entries'[i].key
             /\ \A r \in KReleaser : kpc'[r] = "post" => key'[found'[r]] = key'[r]
  <2>1. t \in KThread /\ UNCHANGED found /\ Call(t, k)
      BY <1>3, KThreads DEF WaitKey
  <2>2. /\ key'[t] = k /\ \A u \in KThread \ {t} : key'[u] = key[u]
        /\ \A i \in DOMAIN entries : entries[i].teb # t
        /\ \A r \in KReleaser : kpc[r] = "post" => found[r] # t /\ r # t
      BY <1>k, <2>1
  <2>3. \A i \in DOMAIN entries : key'[entries[i].teb] = entries[i].key
      BY <1>1, <2>2, KThreads
  <2>4. \A r \in KReleaser : kpc'[r] = "post" => kpc[r] = "post"
    <3>1. CASE KGoto(t, "pulse")
        BY <2>1, <3>1, KMovesTo, KLabelled, KThreads DEF KInv, KMoves
    <3>2. CASE UNCHANGED kpc
        BY <3>2
    <3> QED
        BY <1>3, <3>1, <3>2 DEF WaitKey
  <2>5. \A i \in DOMAIN entries' : key'[entries'[i].teb] = entries'[i].key
    <3>1. CASE UNCHANGED entries
        BY <2>3, <3>1
    <3>2. CASE entries' = Append(entries, [key |-> k, teb |-> t])
      <4>1. entries \in Seq(KEntry)
          BY DEF KInv, KTypes
      <4>2. [key |-> k, teb |-> t] \in KEntry
          BY DEF KEntry, KeyValues
      <4>3. ASSUME NEW i \in DOMAIN entries'
            PROVE  (i \in DOMAIN entries /\ entries'[i] = entries[i]) \/ entries'[i] = [key |-> k, teb |-> t]
          BY <3>2, <4>1, <4>2
      <4> QED
          BY <2>2, <2>3, <4>3
    <3> QED
        BY <1>3, <3>1, <3>2 DEF WaitKey
  <2>6. \A r \in KReleaser : kpc[r] = "post" => key'[found[r]] = key'[r]
      BY <1>1, <2>2, KThreads
  <2> QED
      BY <2>1, <2>4, <2>5, <2>6
<1>4. ASSUME NEW t \in KReleaser, NEW k \in Key, ReleaseKey(t, k)
      PROVE  /\ \A i \in DOMAIN entries' : key'[entries'[i].teb] = entries'[i].key
             /\ \A r \in KReleaser : kpc'[r] = "post" => key'[found'[r]] = key'[r]
  <2>1. t \in KThread /\ UNCHANGED <<entries, found>> /\ Call(t, k) /\ KGoto(t, "search")
      BY <1>4, KThreads DEF ReleaseKey
  <2>2. /\ key'[t] = k /\ \A u \in KThread \ {t} : key'[u] = key[u]
        /\ \A i \in DOMAIN entries : entries[i].teb # t
        /\ \A r \in KReleaser : kpc[r] = "post" => found[r] # t /\ r # t
      BY <1>k, <2>1
  <2>3. \A r \in KReleaser : kpc'[r] = "post" => kpc[r] = "post"
      BY <2>1, KMovesTo, KLabelled, KThreads DEF KInv, KMoves
  <2>4. \A i \in DOMAIN entries : key'[entries[i].teb] = entries[i].key
      BY <1>1, <2>2, KThreads
  <2>5. \A r \in KReleaser : kpc[r] = "post" => key'[found[r]] = key'[r]
      BY <1>1, <2>2, KThreads
  <2> QED
      BY <2>1, <2>3, <2>4, <2>5
<1>5. ASSUME NEW t \in KThread, Search(t)
      PROVE  /\ \A i \in DOMAIN entries' : key'[entries'[i].teb] = entries'[i].key
             /\ \A r \in KReleaser : kpc'[r] = "post" => key'[found'[r]] = key'[r]
  <2>1. UNCHANGED key /\ kpc[t] = "search"
      BY <1>5 DEF Search
  <2>2. ASSUME NEW i \in DOMAIN entries, IsFirst(i, WithKey(key[t])),
               found' = [found EXCEPT ![t] = entries[i].teb], entries' = Without(i), KGoto(t, "post")
        PROVE  /\ \A j \in DOMAIN entries' : key'[entries'[j].teb] = entries'[j].key
               /\ \A r \in KReleaser : kpc'[r] = "post" => key'[found'[r]] = key'[r]
    <3>1. entries[i].key = key[t]
        BY <2>2 DEF IsFirst, WithKey
    <3>2. KMoves(t, "post")
        BY <2>2, KMovesTo, KLabelled DEF KInv
    <3>3. found'[t] = entries[i].teb /\ \A u \in KThread \ {t} : found'[u] = found[u]
        BY <2>2 DEF KInv, KTypes
    <3>4. \A r \in KReleaser : kpc'[r] = "post" => key'[found'[r]] = key'[r]
        BY <1>1, <2>1, <3>1, <3>2, <3>3, KThreads DEF KMoves
    <3>5. \A j \in DOMAIN entries' : \E m \in DOMAIN entries : entries'[j] = entries[m]
      <4>1. entries \in Seq(KEntry)
          BY DEF KInv, KTypes
      <4>2. /\ entries' \in Seq(KEntry) /\ Len(entries') = Len(entries) - 1
          BY <2>2, <4>1, TakeEntry
      <4>3. DOMAIN entries' = 1..(Len(entries) - 1)
          BY <4>2
      <4>4. \A j \in 1..(Len(entries) - 1) :
              Without(i)[j] = entries[Shift(i, j)] /\ Shift(i, j) \in DOMAIN entries \ {i}
          BY <2>2, <4>1, TakeEntry
      <4> QED
          BY <2>2, <4>3, <4>4
    <3> QED
        BY <1>1, <2>1, <3>4, <3>5
  <2>3. CASE KGoto(t, "sleep") /\ UNCHANGED <<entries, found>>
    <3>1. KMoves(t, "sleep")
        BY <2>3, KMovesTo, KLabelled DEF KInv
    <3> QED
        BY <1>1, <2>1, <2>3, <3>1, KThreads DEF KMoves
  <2> QED
      BY <1>5, <2>2, <2>3 DEF Search
<1>6. ASSUME NEW t \in KThread, WaitPulses(t) \/ ReleasePulses(t)
      PROVE  /\ \A i \in DOMAIN entries' : key'[entries'[i].teb] = entries'[i].key
             /\ \A r \in KReleaser : kpc'[r] = "post" => key'[found'[r]] = key'[r]
  <2>1. PICK l \in {"blocked", "idle"} : Pulse(t, l)
      BY <1>6 DEF WaitPulses, ReleasePulses
  <2>2. KPulses(t, l)
      BY <2>1, KPulsesTo, KLabelled DEF KInv
  <2>3. UNCHANGED <<entries, key, found>>
      BY <1>6 DEF WaitPulses, ReleasePulses
  <2> QED
      BY <1>1, <2>2, <2>3, KThreads DEF KPulses
<1>7. ASSUME NEW t \in KThread, WaitEnds(t) \/ WaitTimesOut(t) \/ SleepOnEvent(t) \/ SleepTimesOut(t)
      PROVE  /\ \A i \in DOMAIN entries' : key'[entries'[i].teb] = entries'[i].key
             /\ \A r \in KReleaser : kpc'[r] = "post" => key'[found'[r]] = key'[r]
  <2>1. PICK l \in {"idle", "onEvent", "search"} : KGoto(t, l)
      BY <1>7 DEF WaitEnds, WaitTimesOut, SleepOnEvent, SleepTimesOut
  <2>2. KMoves(t, l)
      BY <2>1, KMovesTo, KLabelled DEF KInv
  <2>3. UNCHANGED <<entries, key, found>>
      BY <1>7 DEF WaitEnds, WaitTimesOut, SleepOnEvent, SleepTimesOut
  <2> QED
      BY <1>1, <2>2, <2>3, KThreads DEF KMoves
<1>8. ASSUME NEW t \in KThread, Post(t)
      PROVE  /\ \A i \in DOMAIN entries' : key'[entries'[i].teb] = entries'[i].key
             /\ \A r \in KReleaser : kpc'[r] = "post" => key'[found'[r]] = key'[r]
  <2>1. KMoves(t, "pulseRel") /\ UNCHANGED <<entries, key>>
      BY <1>8, KMovesTo, KLabelled DEF Post, KInv
  <2>2. \A u \in KThread \ {t} : found'[u] = found[u]
      BY <1>8 DEF Post, KInv, KTypes
  <2> QED
      BY <1>1, <2>1, <2>2, KThreads DEF KMoves
<1>9. CASE Terminate
    BY <1>1, <1>9 DEF Terminate
<1> QED
    BY <1>2, <1>3, <1>4, <1>5, <1>6, <1>7, <1>8, <1>9 DEF KNext, KStep

(* How a step changes the three ways that lead to a waiter.                *)
LEMMA WaysSum ==
  ASSUME NEW w
  PROVE  /\ Ways(w) = Cardinality(EntriesOf(w)) + Cardinality(Holders(w)) + sem[w]
         /\ Ways(w)' = Cardinality(EntriesOf(w)') + Cardinality(Holders(w)') + sem'[w]
BY DEF Ways, EntriesOf

LEMMA HoldersKept ==
  ASSUME NEW w, \A r \in KReleaser : (kpc'[r] = "post" <=> kpc[r] = "post"),
         \A r \in KReleaser : kpc[r] = "post" => found'[r] = found[r]
  PROVE  Holders(w)' = Holders(w)
BY DEF Holders

LEMMA EntriesKept == ASSUME NEW w, UNCHANGED entries PROVE EntriesOf(w)' = EntriesOf(w)
BY DEF EntriesOf

LEMMA WaysStill ==
  ASSUME NEW w \in KWaiter, UNCHANGED <<entries, sem>>,
         \A r \in KReleaser : (kpc'[r] = "post" <=> kpc[r] = "post"),
         \A r \in KReleaser : kpc[r] = "post" => found'[r] = found[r]
  PROVE  Ways(w)' = Ways(w)
<1>1. EntriesOf(w)' = EntriesOf(w) /\ Holders(w)' = Holders(w)
    BY EntriesKept, HoldersKept
<1> QED
    BY <1>1, WaysSum

(* A releaser takes the entry of a waiter: it holds that waiter instead.   *)
LEMMA WaysTaken ==
  ASSUME KTypes, NEW t \in KReleaser, NEW i \in DOMAIN entries, kpc[t] = "search",
         entries' = Without(i), KMoves(t, "post"), UNCHANGED sem,
         found' = [found EXCEPT ![t] = entries[i].teb], NEW w \in KWaiter
  PROVE  Ways(w)' = Ways(w)
<1>1. t \in KThread /\ entries \in Seq(KEntry)
    BY KThreads DEF KTypes
<1>2. found'[t] = entries[i].teb /\ \A r \in KThread \ {t} : found'[r] = found[r]
    BY <1>1 DEF KTypes
<1>3. Holders(w)' = IF entries[i].teb = w THEN Holders(w) \cup {t} ELSE Holders(w)
    BY <1>1, <1>2, KThreads DEF KMoves, Holders
<1>4. t \notin Holders(w)
    BY DEF Holders
<1>5. Cardinality(Holders(w)') = IF entries[i].teb = w THEN Cardinality(Holders(w)) + 1 ELSE Cardinality(Holders(w))
    BY <1>3, <1>4, HoldersFinite, FS_AddElement
<1>6. Cardinality(EntriesOf(w)') =
        IF entries[i].teb = w THEN Cardinality(EntriesOf(w)) - 1 ELSE Cardinality(EntriesOf(w))
    BY <1>1, EntryTaken
<1>7. /\ Cardinality(EntriesOf(w)) \in Nat /\ Cardinality(Holders(w)) \in Nat /\ sem[w] \in Nat
    BY WaysCounted
<1> QED
    BY <1>5, <1>6, <1>7, WaysSum

(* It posts the semaphore: the waiter is released instead of held.         *)
LEMMA WaysPosted ==
  ASSUME KTypes, NEW t \in KThread, Post(t), NEW w \in KWaiter
  PROVE  Ways(w)' = Ways(w)
<1>1. kpc[t] = "post" /\ t \in KReleaser /\ UNCHANGED entries /\ found[t] \in KThread
    BY DEF Post, KTypes, ReleasePc
<1>2. KMoves(t, "pulseRel")
    BY KMovesTo, KLabelled DEF Post
<1>3. \A r \in KThread \ {t} : found'[r] = found[r]
    BY DEF Post, KTypes
<1>4. Holders(w)' = Holders(w) \ {t}
    BY <1>2, <1>3, KThreads DEF KMoves, Holders
<1>5. t \in Holders(w) <=> found[t] = w
    BY <1>1 DEF Holders
<1>6. Cardinality(Holders(w)') = IF found[t] = w THEN Cardinality(Holders(w)) - 1 ELSE Cardinality(Holders(w))
    BY <1>4, <1>5, HoldersFinite, FS_RemoveElement
<1>7. sem'[w] = IF found[t] = w THEN sem[w] + 1 ELSE sem[w]
    BY <1>1, KThreads DEF Post, KTypes
<1>8. EntriesOf(w)' = EntriesOf(w)
    BY <1>1, EntriesKept
<1>9. /\ Cardinality(EntriesOf(w)) \in Nat /\ Cardinality(Holders(w)) \in Nat /\ sem[w] \in Nat
    BY WaysCounted
<1> QED
    BY <1>6, <1>7, <1>8, <1>9, WaysSum

(* LdkpTerminateKeyedEventList: every entry becomes a release.             *)
LEMMA WaysTorn ==
  ASSUME KTypes, Terminate, NEW w \in KWaiter
  PROVE  Ways(w)' = Ways(w)
<1>1. Holders(w)' = Holders(w)
    BY DEF Terminate, Holders
<1>2. sem'[w] = sem[w] + Cardinality(EntriesOf(w))
    BY KThreads DEF Terminate, EntriesOf
<1>3. EntriesOf(w)' = {}
    BY DEF Terminate, EntriesOf
<1>4. Cardinality(EntriesOf(w)') = 0
    BY <1>3, FS_EmptySet
<1>5. /\ Cardinality(EntriesOf(w)) \in Nat /\ Cardinality(Holders(w)) \in Nat /\ sem[w] \in Nat
    BY WaysCounted
<1> QED
    BY <1>1, <1>2, <1>4, <1>5, WaysSum

(* Only a wait that is made, ends or times out changes who is to be        *)
(* reached.                                                                *)
LEMMA WaysCalm ==
  ASSUME KInv, \A w \in KWaiter : Ways(w)' = Ways(w), UNCHANGED expired,
         \A w \in KWaiter : kpc'[w] \in WaitPc <=> kpc[w] \in WaitPc
  PROVE  WaysOK'
BY DEF KInv, WaysOK

LEMMA WaysStep == KInv /\ [KNext]_keyVars => WaysOK'
<1> SUFFICES ASSUME KInv, [KNext]_keyVars PROVE WaysOK'
    OBVIOUS
<1>t. KTypes
    BY DEF KInv
<1>1. CASE UNCHANGED keyVars
  <2>1. \A w \in KWaiter : Ways(w)' = Ways(w)
      BY <1>1, WaysStill DEF keyVars
  <2> QED
      BY <1>1, <2>1, WaysCalm DEF keyVars
<1>2. ASSUME NEW t \in KWaiter, NEW k \in Key, WaitKey(t, k) PROVE WaysOK'
  <2>1. t \in KThread /\ kpc[t] = "idle" /\ UNCHANGED <<sem, found, expired>>
      BY <1>2, KThreads DEF WaitKey, Call, ended
  <2>2. CASE UNCHANGED <<entries, kpc>>
    <3>1. \A w \in KWaiter : Ways(w)' = Ways(w)
        BY <2>1, <2>2, WaysStill
    <3> QED
        BY <2>1, <2>2, <3>1, WaysCalm
  <2>3. CASE entries' = Append(entries, [key |-> k, teb |-> t]) /\ KGoto(t, "pulse")
    <3>1. KMoves(t, "pulse")
        BY <1>t, <2>1, <2>3, KMovesTo, KLabelled
    <3>2. \A r \in KReleaser : (kpc'[r] = "post" <=> kpc[r] = "post")
        BY <2>1, <3>1, KThreads DEF KMoves
    <3>3. ASSUME NEW w \in KWaiter
          PROVE  Ways(w)' = (IF w = t THEN Ways(w) + 1 ELSE Ways(w)) /\ Ways(w) \in Nat
      <4>1. PICK e : e = [key |-> k, teb |-> t]
          OBVIOUS
      <4>2. e \in KEntry /\ e.teb = t /\ entries' = Append(entries, e) /\ entries \in Seq(KEntry)
          BY <1>t, <2>3, <4>1 DEF KEntry, KeyValues, KTypes
      <4>3. Cardinality(EntriesOf(w)') = IF t = w THEN Cardinality(EntriesOf(w)) + 1 ELSE Cardinality(EntriesOf(w))
          BY <4>2, EntryAdded
      <4>4. Holders(w)' = Holders(w)
          BY <2>1, <3>2, HoldersKept
      <4>5. /\ Cardinality(EntriesOf(w)) \in Nat /\ Cardinality(Holders(w)) \in Nat /\ sem[w] \in Nat
          BY <1>t, WaysCounted
      <4> QED
          BY <2>1, <4>3, <4>4, <4>5, WaysSum
    <3>4. ASSUME NEW w \in KWaiter
          PROVE  /\ kpc'[w] \in WaitPc => Ways(w)' > 0
                 /\ ~expired' => Ways(w)' = IF kpc'[w] \in WaitPc THEN 1 ELSE 0
      <4>1. CASE w = t
        <5>1. ~expired => Ways(t) = 0
            BY <2>1 DEF KInv, WaysOK, WaitPc
        <5>2. kpc'[w] \in WaitPc
            BY <3>1, <4>1 DEF KMoves, WaitPc
        <5> QED
            BY <2>1, <3>3, <4>1, <5>1, <5>2
      <4>2. CASE w # t
        <5>1. kpc'[w] = kpc[w]
            BY <3>1, <4>2, KThreads DEF KMoves
        <5> QED
            BY <2>1, <3>3, <4>2, <5>1 DEF KInv, WaysOK
      <4> QED
          BY <4>1, <4>2
    <3> QED
        BY <3>4 DEF WaysOK
  <2> QED
      BY <1>2, <2>2, <2>3 DEF WaitKey
<1>3. ASSUME NEW t \in KReleaser, NEW k \in Key, ReleaseKey(t, k) PROVE WaysOK'
  <2>1. t \in KThread /\ kpc[t] = "idle" /\ UNCHANGED <<entries, sem, found, expired>>
      BY <1>3, KThreads DEF ReleaseKey, Call, ended
  <2>2. KMoves(t, "search")
      BY <1>t, <1>3, <2>1, KMovesTo, KLabelled DEF ReleaseKey
  <2>3. /\ \A r \in KReleaser : (kpc'[r] = "post" <=> kpc[r] = "post")
        /\ \A w \in KWaiter : kpc'[w] \in WaitPc <=> kpc[w] \in WaitPc
      BY <2>1, <2>2, KThreads DEF KMoves, WaitPc
  <2>4. \A w \in KWaiter : Ways(w)' = Ways(w)
      BY <2>1, <2>3, WaysStill
  <2> QED
      BY <2>1, <2>3, <2>4, WaysCalm
<1>4. ASSUME NEW t \in KThread, WaitPulses(t) \/ ReleasePulses(t) PROVE WaysOK'
  <2>1. PICK l \in {"blocked", "idle"} :
          /\ Pulse(t, l) /\ kpc[t] = (IF l = "blocked" THEN "pulse" ELSE "pulseRel")
      BY <1>4 DEF WaitPulses, ReleasePulses
  <2>2. KPulses(t, l)
      BY <1>t, <2>1, KPulsesTo, KLabelled
  <2>3. UNCHANGED <<entries, sem, found, expired>>
      BY <1>4 DEF WaitPulses, ReleasePulses, ended
  <2>4. /\ \A r \in KReleaser : (kpc'[r] = "post" <=> kpc[r] = "post")
        /\ \A w \in KWaiter : kpc'[w] \in WaitPc <=> kpc[w] \in WaitPc
      BY <2>1, <2>2, KThreads DEF KPulses, WaitPc
  <2>5. \A w \in KWaiter : Ways(w)' = Ways(w)
      BY <2>3, <2>4, WaysStill
  <2> QED
      BY <2>3, <2>4, <2>5, WaysCalm
<1>5. ASSUME NEW t \in KThread, WaitEnds(t) PROVE WaysOK'
  <2>1. /\ kpc[t] = "blocked" /\ sem[t] > 0 /\ t \in KWaiter /\ UNCHANGED <<entries, found, expired>>
      BY <1>t, <1>5 DEF WaitEnds, KTypes, WaitPc, ended
  <2>2. KMoves(t, "idle")
      BY <1>t, <1>5, KMovesTo, KLabelled DEF WaitEnds
  <2>3. \A r \in KReleaser : (kpc'[r] = "post" <=> kpc[r] = "post")
      BY <2>1, <2>2, KThreads DEF KMoves
  <2>4. ASSUME NEW w \in KWaiter
        PROVE  Ways(w)' = (IF w = t THEN Ways(w) - 1 ELSE Ways(w)) /\ Ways(w) \in Nat
    <3>1. Holders(w)' = Holders(w) /\ EntriesOf(w)' = EntriesOf(w)
        BY <2>1, <2>3, HoldersKept, EntriesKept
    <3>2. sem'[w] = IF w = t THEN sem[w] - 1 ELSE sem[w]
        BY <1>t, <1>5, KThreads DEF WaitEnds, KTypes
    <3>3. /\ Cardinality(EntriesOf(w)) \in Nat /\ Cardinality(Holders(w)) \in Nat /\ sem[w] \in Nat
        BY <1>t, WaysCounted
    <3> QED
        BY <3>1, <3>2, <3>3, WaysSum
  <2>5. ASSUME NEW w \in KWaiter
        PROVE  /\ kpc'[w] \in WaitPc => Ways(w)' > 0
               /\ ~expired' => Ways(w)' = IF kpc'[w] \in WaitPc THEN 1 ELSE 0
    <3>1. CASE w = t
      <4>1. ~expired => Ways(t) = 1
          BY <2>1 DEF KInv, WaysOK, WaitPc
      <4>2. kpc'[w] \notin WaitPc
          BY <2>2, <3>1 DEF KMoves, WaitPc
      <4> QED
          BY <2>1, <2>4, <3>1, <4>1, <4>2
    <3>2. CASE w # t
      <4>1. kpc'[w] = kpc[w]
          BY <2>2, <3>2, KThreads DEF KMoves
      <4> QED
          BY <2>1, <2>4, <3>2, <4>1 DEF KInv, WaysOK
    <3> QED
        BY <3>1, <3>2
  <2> QED
      BY <2>5 DEF WaysOK
<1>6. ASSUME NEW t \in KThread, WaitTimesOut(t) PROVE WaysOK'
  <2>1. /\ kpc[t] = "blocked" /\ UNCHANGED <<entries, sem, found>> /\ expired' = TRUE
      BY <1>6 DEF WaitTimesOut
  <2>2. KMoves(t, "idle")
      BY <1>t, <1>6, KMovesTo, KLabelled DEF WaitTimesOut
  <2>3. \A r \in KReleaser : (kpc'[r] = "post" <=> kpc[r] = "post")
      BY <2>1, <2>2, KThreads DEF KMoves
  <2>4. \A w \in KWaiter : Ways(w)' = Ways(w)
      BY <2>1, <2>3, WaysStill
  <2>5. \A w \in KWaiter : kpc'[w] \in WaitPc => kpc[w] \in WaitPc
      BY <2>2, KThreads DEF KMoves, WaitPc
  <2> QED
      BY <2>1, <2>4, <2>5 DEF WaysOK, KInv
<1>7. ASSUME NEW t \in KThread, Search(t) PROVE WaysOK'
  <2>1. kpc[t] = "search" /\ t \in KReleaser /\ UNCHANGED <<sem, expired>>
      BY <1>t, <1>7 DEF Search, KTypes, ReleasePc, ended
  <2>2. ASSUME NEW i \in DOMAIN entries, found' = [found EXCEPT ![t] = entries[i].teb],
               entries' = Without(i), KGoto(t, "post")
        PROVE  WaysOK'
    <3>1. KMoves(t, "post")
        BY <1>t, <2>2, KMovesTo, KLabelled
    <3>2. \A w \in KWaiter : Ways(w)' = Ways(w)
        BY <1>t, <2>1, <2>2, <3>1, WaysTaken
    <3>3. \A w \in KWaiter : kpc'[w] \in WaitPc <=> kpc[w] \in WaitPc
        BY <2>1, <3>1, KThreads DEF KMoves, WaitPc
    <3> QED
        BY <2>1, <3>2, <3>3, WaysCalm
  <2>3. CASE KGoto(t, "sleep") /\ UNCHANGED <<entries, found>>
    <3>1. KMoves(t, "sleep")
        BY <1>t, <2>3, KMovesTo, KLabelled
    <3>2. /\ \A r \in KReleaser : (kpc'[r] = "post" <=> kpc[r] = "post")
          /\ \A w \in KWaiter : kpc'[w] \in WaitPc <=> kpc[w] \in WaitPc
        BY <2>1, <3>1, KThreads DEF KMoves, WaitPc
    <3>3. \A w \in KWaiter : Ways(w)' = Ways(w)
        BY <2>1, <2>3, <3>2, WaysStill
    <3> QED
        BY <2>1, <3>2, <3>3, WaysCalm
  <2> QED
      BY <1>7, <2>2, <2>3 DEF Search
<1>8. ASSUME NEW t \in KThread, SleepOnEvent(t) \/ SleepTimesOut(t) PROVE WaysOK'
  <2>1. kpc[t] \in {"sleep", "onEvent"} /\ UNCHANGED <<entries, sem, found, expired>>
      BY <1>8 DEF SleepOnEvent, SleepTimesOut, ended
  <2>2. PICK l \in {"onEvent", "search"} : KMoves(t, l)
      BY <1>t, <1>8, KMovesTo, KLabelled DEF SleepOnEvent, SleepTimesOut
  <2>3. /\ \A r \in KReleaser : (kpc'[r] = "post" <=> kpc[r] = "post")
        /\ \A w \in KWaiter : kpc'[w] \in WaitPc <=> kpc[w] \in WaitPc
      BY <2>1, <2>2, KThreads DEF KMoves, WaitPc
  <2>4. \A w \in KWaiter : Ways(w)' = Ways(w)
      BY <2>1, <2>3, WaysStill
  <2> QED
      BY <2>1, <2>3, <2>4, WaysCalm
<1>9. ASSUME NEW t \in KThread, Post(t) PROVE WaysOK'
  <2>1. kpc[t] = "post" /\ UNCHANGED expired
      BY <1>9 DEF Post, ended
  <2>2. KMoves(t, "pulseRel")
      BY <1>t, <1>9, KMovesTo, KLabelled DEF Post
  <2>3. \A w \in KWaiter : kpc'[w] \in WaitPc <=> kpc[w] \in WaitPc
      BY <2>1, <2>2, KThreads DEF KMoves, WaitPc
  <2>4. \A w \in KWaiter : Ways(w)' = Ways(w)
      BY <1>t, <1>9, WaysPosted
  <2> QED
      BY <2>1, <2>3, <2>4, WaysCalm
<1>10. CASE Terminate
  <2>1. UNCHANGED <<kpc, expired>>
      BY <1>10 DEF Terminate
  <2>2. \A w \in KWaiter : Ways(w)' = Ways(w)
      BY <1>t, <1>10, WaysTorn
  <2> QED
      BY <2>1, <2>2, WaysCalm
<1> QED
    BY <1>1, <1>2, <1>3, <1>4, <1>5, <1>6, <1>7, <1>8, <1>9, <1>10 DEF KNext, KStep

LEMMA KStart == KInit => KInv
<1> SUFFICES ASSUME KInit PROVE KInv
    OBVIOUS
<1>1. KTypes
    BY DEF KInit, KTypes, KLabels, KeyValues, WaitPc, ReleasePc
<1>2. ASSUME NEW w \in KWaiter PROVE Ways(w) = 0 /\ kpc[w] = "idle"
  <2>1. EntriesOf(w) = {} /\ Holders(w) = {} /\ sem[w] = 0 /\ kpc[w] = "idle"
      BY KThreads DEF KInit, EntriesOf, Holders
  <2>2. Cardinality({}) = 0
      BY FS_EmptySet
  <2>3. Cardinality(EntriesOf(w)) = 0 /\ Cardinality(Holders(w)) = 0
      BY <2>1, <2>2
  <2>4. Ways(w) = Cardinality(EntriesOf(w)) + Cardinality(Holders(w)) + sem[w]
      BY <1>1, WaysCounted
  <2> QED
      BY <2>1, <2>3, <2>4
<1>3. WaysOK
    BY <1>2 DEF WaysOK, WaitPc
<1>4. KeysOK
    BY KThreads DEF KInit, KeysOK
<1> QED
    BY <1>1, <1>3, <1>4 DEF KInv

(* Keyed events lose no waiter and spend no release: a waiting thread is   *)
(* reached by an entry, a releaser or its semaphore, by exactly one of     *)
(* them until some wait has timed out.                                     *)
THEOREM WaitersReachedOnce == KSpec => []ReachedOnce
<1>1. KInv /\ [KNext]_keyVars => KInv'
    BY KTypesStep, WaysStep, KeysStep DEF KInv
<1>2. KInv => ReachedOnce
    BY DEF KInv, WaysOK, KeysOK, ReachedOnce
<1> QED
    BY KStart, <1>1, <1>2, PTL DEF KSpec
=============================================================================
