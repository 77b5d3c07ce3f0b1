----------------------------- MODULE Locks_proofs -----------------------------
(***************************************************************************)
(* Proofs about the two locks, for any finite set of threads.              *)
(*                                                                         *)
(* SRWLock.  What is inductive is that the pointer is exact (LockExact)    *)
(* together with what a thread knows of the value it has seen: a thread on *)
(* its way to sleep has seen a lock that is not free, a reader about to    *)
(* exchange has seen a count.                                              *)
(*                                                                         *)
(* CriticalSection.  The heart of the invariant is the hand-over: between  *)
(* the leave that passes the section on and the return of the chosen       *)
(* waiter, that waiter is the owner, is blocked, and is no longer queued,  *)
(* so nobody else can leave.                                               *)
(***************************************************************************)
EXTENDS SRWLock, CriticalSection, FiniteSetTheorems, TLAPS

-----------------------------------------------------------------------------
(* Slim reader/writer locks.                                               *)

(* What the value a thread has seen says at each point of the loops.       *)
SeenOK ==
  \A t \in Thread :
    /\ spc[t] \in WaitLabel => seen[t] # 0
    /\ spc[t] \in {"casS", "tryCas"} => seen[t] >= 0
    /\ spc[t] = "relCas" => seen[t] > 0

(* Sleepers are inside LdkpWaitForSRWLockChange.                           *)
SleepersWait == \A t \in asleep : spc[t] \in WaitLabel

SRWInv ==
  /\ SRWTypeOK /\ LockExact /\ NeverRaises /\ SleeperIsWoken
  /\ SeenOK /\ SleepersWait

USE DEF SRWLabel, WaitLabel, EXCLUSIVE

(* Facts about the sets of owners.                                         *)
LEMMA OwnersFinite == IsFiniteSet(Readers) /\ IsFiniteSet(Writers)
BY ThreadAssumption, FS_Subset DEF Readers, Writers

LEMMA InitInv == SRWInit => SRWInv
<1> SUFFICES ASSUME SRWInit PROVE SRWInv
    OBVIOUS
<1>1. Readers = {} /\ Writers = {}
    BY DEF SRWInit, Readers, Writers
<1>2. LockExact
    BY <1>1, FS_EmptySet DEF SRWInit, LockExact
<1>3. SRWTypeOK
  <2>1. ptr \in Int /\ ptr >= EXCLUSIVE
      BY DEF SRWInit
  <2>2. spc \in [Thread -> SRWLabel] /\ seen \in [Thread -> Int]
      BY DEF SRWInit
  <2> QED
      BY <2>1, <2>2 DEF SRWInit, SRWTypeOK
<1>4. NeverRaises /\ SleeperIsWoken /\ SleepersWait
    BY DEF SRWInit, NeverRaises, SleeperIsWoken, SleepersWait
<1>5. SeenOK
    BY DEF SRWInit, SeenOK
<1> QED
    BY <1>2, <1>3, <1>4, <1>5 DEF SRWInv

(* The number of owners in LockExact, as the actions change it.            *)
LEMMA ExactSame ==
  ASSUME LockExact, ptr' = ptr, Readers' = Readers, Writers' = Writers
  PROVE  LockExact'
BY DEF LockExact

LEMMA ExactWriterIn ==
  ASSUME NEW t \in Thread, LockExact, ptr = 0, ptr' = EXCLUSIVE,
         Readers' = Readers, Writers' = Writers \cup {t}
  PROVE  LockExact'
<1>1. Writers = {} /\ Readers = {}
    BY OwnersFinite, FS_EmptySet DEF LockExact
<1> QED
    BY <1>1 DEF LockExact

LEMMA ExactWriterOut ==
  ASSUME NEW t \in Writers, LockExact, ptr' = 0,
         Readers' = Readers, Writers' = Writers \ {t}
  PROVE  LockExact'
<1>1. Readers = {} /\ Writers' = {}
    BY DEF LockExact
<1> QED
    BY <1>1, FS_EmptySet DEF LockExact

LEMMA ExactReaderIn ==
  ASSUME NEW t \in Thread, LockExact, t \notin Readers, ptr >= 0,
         ptr' = ptr + 1, Readers' = Readers \cup {t}, Writers' = Writers
  PROVE  LockExact'
<1>1. Writers = {} /\ ptr = Cardinality(Readers)
    BY DEF LockExact
<1>2. Cardinality(Readers') = Cardinality(Readers) + 1
    BY OwnersFinite, FS_AddElement
<1> QED
    BY <1>1, <1>2 DEF LockExact

LEMMA ExactReaderOut ==
  ASSUME NEW t \in Readers, LockExact, ptr' = ptr - 1,
         Readers' = Readers \ {t}, Writers' = Writers
  PROVE  LockExact'
<1>1. Writers = {} /\ ptr = Cardinality(Readers)
    BY DEF LockExact
<1>2. Cardinality(Readers') = Cardinality(Readers) - 1
    BY OwnersFinite, FS_RemoveElement
<1> QED
    BY <1>1, <1>2 DEF LockExact

(* A reader finds a positive count, a writer finds -1.                     *)
LEMMA OwnerSees ==
  ASSUME LockExact
  PROVE  /\ Readers # {} => ptr > 0
         /\ Writers # {} => ptr = EXCLUSIVE
<1>1. ASSUME Readers # {} PROVE ptr > 0
  <2>1. Cardinality(Readers) \in Nat /\ Cardinality(Readers) # 0
      BY <1>1, OwnersFinite, FS_EmptySet, FS_CardinalityType
  <2> QED
      BY <1>1, <2>1 DEF LockExact
<1> QED
    BY <1>1 DEF LockExact

(* Unchanged owners when no thread enters or leaves an owning label.       *)
OwnLabel == {"shared", "relRead", "relCas", "exclusive"}

LEMMA SameOwners ==
  ASSUME \A u \in Thread : \/ spc'[u] = spc[u]
                           \/ spc[u] \notin OwnLabel /\ spc'[u] \notin OwnLabel
  PROVE  Readers' = Readers /\ Writers' = Writers
BY DEF Readers, Writers, OwnLabel

LEMMA StepInv == SRWInv /\ [SRWNext]_srwVars => SRWInv'
<1> SUFFICES ASSUME SRWInv, [SRWNext]_srwVars PROVE SRWInv'
    OBVIOUS
<1> USE DEF SRWInv, SRWTypeOK
<1>1. ASSUME NEW t \in Thread, AcquireExclusive(t) PROVE SRWInv'
  <2> USE <1>1 DEF AcquireExclusive, SGoto, Sees
  <2>1. LockExact'
    <3>1. CASE ptr = 0
      <4>1. Readers' = Readers /\ Writers' = Writers \cup {t}
          BY <3>1 DEF Readers, Writers
      <4> QED
          BY <3>1, <4>1, ExactWriterIn
    <3>2. CASE ptr # 0
      <4>1. \A u \in Thread : \/ spc'[u] = spc[u]
                              \/ spc[u] \notin OwnLabel /\ spc'[u] \notin OwnLabel
          BY <3>2 DEF OwnLabel
      <4> QED
          BY <3>2, <4>1, SameOwners, ExactSame
    <3> QED
        BY <3>1, <3>2
  <2>2. SRWTypeOK' /\ NeverRaises' /\ SeenOK' /\ SleepersWait'
      BY DEF NeverRaises, SeenOK, SleepersWait
  <2>3. SleeperIsWoken'
      BY DEF SleeperIsWoken
  <2> QED
      BY <2>1, <2>2, <2>3
<1>2. ASSUME NEW t \in Thread, TryAcquireExclusive(t) PROVE SRWInv'
  <2> USE <1>2 DEF TryAcquireExclusive, SGoto
  <2>1. LockExact'
    <3>1. CASE ptr = 0
      <4>1. Readers' = Readers /\ Writers' = Writers \cup {t}
          BY <3>1 DEF Readers, Writers
      <4> QED
          BY <3>1, <4>1, ExactWriterIn
    <3>2. CASE ptr # 0
        BY <3>2, SameOwners, ExactSame
    <3> QED
        BY <3>1, <3>2
  <2>2. SRWTypeOK' /\ NeverRaises' /\ SeenOK' /\ SleepersWait'
      BY DEF NeverRaises, SeenOK, SleepersWait
  <2>3. SleeperIsWoken'
      BY DEF SleeperIsWoken
  <2> QED
      BY <2>1, <2>2, <2>3
<1>3. ASSUME NEW t \in Thread, WaitForChange(t) PROVE SRWInv'
  <2> USE <1>3 DEF WaitForChange, LoopAgain, SGoto, Sees
  <2>1. \A u \in Thread : \/ spc'[u] = spc[u]
                          \/ spc[u] \notin OwnLabel /\ spc'[u] \notin OwnLabel
      BY DEF OwnLabel
  <2>2. LockExact'
      BY <2>1, SameOwners, ExactSame
  <2>3. SRWTypeOK' /\ NeverRaises' /\ SeenOK' /\ SleepersWait'
      BY DEF NeverRaises, SeenOK, SleepersWait
  <2>4. SleeperIsWoken'
      BY DEF SleeperIsWoken, SeenOK
  <2> QED
      BY <2>2, <2>3, <2>4
<1>4. ASSUME NEW t \in Thread, SpuriousReturn(t) PROVE SRWInv'
  <2> USE <1>4 DEF SpuriousReturn, LoopAgain, SGoto, Sees
  <2>1. \A u \in Thread : \/ spc'[u] = spc[u]
                          \/ spc[u] \notin OwnLabel /\ spc'[u] \notin OwnLabel
      BY DEF OwnLabel, SleepersWait
  <2>2. LockExact'
      BY <2>1, SameOwners, ExactSame
  <2>3. SRWTypeOK' /\ NeverRaises' /\ SeenOK' /\ SleepersWait'
      BY DEF NeverRaises, SeenOK, SleepersWait
  <2>4. SleeperIsWoken'
      BY DEF SleeperIsWoken, SleepersWait
  <2> QED
      BY <2>2, <2>3, <2>4
<1>5. ASSUME NEW t \in Thread, ReleaseExclusive(t) PROVE SRWInv'
  <2> USE <1>5 DEF ReleaseExclusive, SGoto
  <2>1. t \in Writers /\ ptr = EXCLUSIVE
      BY OwnerSees DEF Writers
  <2>2. Readers' = Readers /\ Writers' = Writers \ {t}
      BY <2>1 DEF Readers, Writers
  <2>3. LockExact'
      BY <2>1, <2>2, ExactWriterOut
  <2>4. SRWTypeOK' /\ NeverRaises' /\ SeenOK' /\ SleepersWait'
      BY <2>1 DEF NeverRaises, SeenOK, SleepersWait
  <2>5. SleeperIsWoken'
      BY <2>1 DEF SleeperIsWoken
  <2> QED
      BY <2>3, <2>4, <2>5
<1>6. ASSUME NEW t \in Thread, WakeSleepers(t) PROVE SRWInv'
  <2> USE <1>6 DEF WakeSleepers
  <2>1. \A u \in Thread : \/ spc'[u] = spc[u]
                          \/ spc[u] \notin OwnLabel /\ spc'[u] \notin OwnLabel
      BY DEF OwnLabel, SleepersWait
  <2>2. LockExact'
      BY <2>1, SameOwners, ExactSame
  <2>3. SRWTypeOK' /\ NeverRaises' /\ SeenOK' /\ SleepersWait'
      BY DEF NeverRaises, SeenOK, SleepersWait
  <2>4. SleeperIsWoken'
      BY DEF SleeperIsWoken
  <2> QED
      BY <2>2, <2>3, <2>4
<1>7. ASSUME NEW t \in Thread, ReadShared(t) PROVE SRWInv'
  <2> USE <1>7 DEF ReadShared, SGoto, Sees
  <2>1. \A u \in Thread : \/ spc'[u] = spc[u]
                          \/ spc[u] \notin OwnLabel /\ spc'[u] \notin OwnLabel
      BY DEF OwnLabel
  <2>2. LockExact'
      BY <2>1, SameOwners, ExactSame
  <2>3. SRWTypeOK' /\ NeverRaises' /\ SeenOK' /\ SleepersWait'
      BY DEF NeverRaises, SeenOK, SleepersWait
  <2>4. SleeperIsWoken'
      BY DEF SleeperIsWoken
  <2> QED
      BY <2>2, <2>3, <2>4
<1>8. ASSUME NEW t \in Thread, CasShared(t) PROVE SRWInv'
  <2> USE <1>8 DEF CasShared, SGoto, Sees
  <2>1. LockExact'
    <3>1. CASE ptr = seen[t]
      <4>1. ptr >= 0 /\ ptr' = ptr + 1
          BY <3>1 DEF SeenOK
      <4>2. t \notin Readers /\ Readers' = Readers \cup {t} /\ Writers' = Writers
          BY <3>1 DEF Readers, Writers
      <4> QED
          BY <4>1, <4>2, ExactReaderIn
    <3>2. CASE ptr # seen[t]
      <4>1. \A u \in Thread : \/ spc'[u] = spc[u]
                              \/ spc[u] \notin OwnLabel /\ spc'[u] \notin OwnLabel
          BY <3>2 DEF OwnLabel
      <4> QED
          BY <3>2, <4>1, SameOwners, ExactSame
    <3> QED
        BY <3>1, <3>2
  <2>2. SRWTypeOK' /\ NeverRaises' /\ SeenOK' /\ SleepersWait'
      BY DEF NeverRaises, SeenOK, SleepersWait
  <2>3. SleeperIsWoken'
      BY DEF SleeperIsWoken, SeenOK
  <2> QED
      BY <2>1, <2>2, <2>3
<1>9. ASSUME NEW t \in Thread, TryReadShared(t) PROVE SRWInv'
  <2> USE <1>9 DEF TryReadShared, SGoto, Sees
  <2>1. \A u \in Thread : \/ spc'[u] = spc[u]
                          \/ spc[u] \notin OwnLabel /\ spc'[u] \notin OwnLabel
      BY DEF OwnLabel
  <2>2. LockExact'
      BY <2>1, SameOwners, ExactSame
  <2>3. SRWTypeOK' /\ NeverRaises' /\ SeenOK' /\ SleepersWait'
      BY DEF NeverRaises, SeenOK, SleepersWait
  <2>4. SleeperIsWoken'
      BY DEF SleeperIsWoken
  <2> QED
      BY <2>2, <2>3, <2>4
<1>10. ASSUME NEW t \in Thread, TryCasShared(t) PROVE SRWInv'
  <2> USE <1>10 DEF TryCasShared, SGoto, Sees
  <2>1. LockExact'
    <3>1. CASE ptr = seen[t]
      <4>1. ptr >= 0 /\ ptr' = ptr + 1
          BY <3>1 DEF SeenOK
      <4>2. t \notin Readers /\ Readers' = Readers \cup {t} /\ Writers' = Writers
          BY <3>1 DEF Readers, Writers
      <4> QED
          BY <4>1, <4>2, ExactReaderIn
    <3>2. CASE ptr # seen[t]
      <4>1. \A u \in Thread : \/ spc'[u] = spc[u]
                              \/ spc[u] \notin OwnLabel /\ spc'[u] \notin OwnLabel
          BY <3>2 DEF OwnLabel
      <4> QED
          BY <3>2, <4>1, SameOwners, ExactSame
    <3> QED
        BY <3>1, <3>2
  <2>2. SRWTypeOK' /\ NeverRaises' /\ SeenOK' /\ SleepersWait'
      BY DEF NeverRaises, SeenOK, SleepersWait
  <2>3. SleeperIsWoken'
      BY DEF SleeperIsWoken, SeenOK
  <2> QED
      BY <2>1, <2>2, <2>3
<1>11. ASSUME NEW t \in Thread, ReleaseReadShared(t) PROVE SRWInv'
  <2> USE <1>11 DEF ReleaseReadShared, SGoto, Sees
  <2>1. ptr > 0
      BY OwnerSees DEF Readers
  <2>2. Readers' = Readers /\ Writers' = Writers
      BY <2>1 DEF Readers, Writers
  <2>3. LockExact'
      BY <2>2, ExactSame
  <2>4. SRWTypeOK' /\ NeverRaises' /\ SeenOK' /\ SleepersWait'
      BY <2>1 DEF NeverRaises, SeenOK, SleepersWait
  <2>5. SleeperIsWoken'
      BY <2>1 DEF SleeperIsWoken
  <2> QED
      BY <2>3, <2>4, <2>5
<1>12. ASSUME NEW t \in Thread, ReleaseCasShared(t) PROVE SRWInv'
  <2> USE <1>12 DEF ReleaseCasShared, SGoto, Sees
  <2>1. t \in Readers
      BY DEF Readers
  <2>2. LockExact'
    <3>1. CASE ptr = seen[t]
      <4>1. ptr' = ptr - 1
          BY <3>1
      <4>2. Readers' = Readers \ {t} /\ Writers' = Writers
          BY <3>1 DEF Readers, Writers
      <4> QED
          BY <2>1, <4>1, <4>2, ExactReaderOut
    <3>2. CASE ptr # seen[t]
      <4>1. Readers' = Readers /\ Writers' = Writers
          BY <3>2 DEF Readers, Writers
      <4> QED
          BY <3>2, <4>1, ExactSame
    <3> QED
        BY <3>1, <3>2
  <2>3. SRWTypeOK' /\ NeverRaises' /\ SeenOK' /\ SleepersWait'
      BY DEF NeverRaises, SeenOK, SleepersWait
  <2>4. SleeperIsWoken'
      BY DEF SleeperIsWoken, SeenOK
  <2> QED
      BY <2>2, <2>3, <2>4
<1>13. ASSUME ShutdownSleepers PROVE SRWInv'
  <2> USE <1>13 DEF ShutdownSleepers, Awaken
  <2>1. \A u \in Thread : \/ spc'[u] = spc[u]
                          \/ spc[u] \notin OwnLabel /\ spc'[u] \notin OwnLabel
      BY DEF OwnLabel, SleepersWait
  <2>2. LockExact'
      BY <2>1, SameOwners, ExactSame
  <2>3. SRWTypeOK' /\ NeverRaises' /\ SeenOK' /\ SleepersWait'
      BY DEF NeverRaises, SeenOK, SleepersWait
  <2>4. SleeperIsWoken'
      BY DEF SleeperIsWoken
  <2> QED
      BY <2>2, <2>3, <2>4
<1>14. CASE UNCHANGED srwVars
  <2> USE <1>14 DEF srwVars
  <2>1. LockExact'
      BY ExactSame DEF Readers, Writers
  <2> QED
      BY <2>1 DEF NeverRaises, SeenOK, SleepersWait, SleeperIsWoken
<1> QED
    BY <1>1, <1>2, <1>3, <1>4, <1>5, <1>6, <1>7, <1>8, <1>9, <1>10, <1>11,
       <1>12, <1>13, <1>14 DEF SRWNext, SRWStep, SRWRelease

(* The inductive invariant of the lock.                                    *)
THEOREM SRWInvariance == SRWSpec => []SRWInv
<1> QED
    BY InitInv, StepInv, PTL DEF SRWSpec

(* Types: the pointer never goes below -1.                                 *)
THEOREM SRWTypeCorrect == SRWSpec => []SRWTypeOK
<1>1. SRWInv => SRWTypeOK
    BY DEF SRWInv
<1> QED
    BY <1>1, SRWInvariance, PTL

(* Mutual exclusion: RtlAcquireSRWLock* let one writer in, or readers, and *)
(* the pointer counts them exactly.                                        *)
THEOREM MutualExclusion == SRWSpec => []LockExact
<1>1. SRWInv => LockExact
    BY DEF SRWInv
<1> QED
    BY <1>1, SRWInvariance, PTL

(* RtlReleaseSRWLock* never raises for an owner.                           *)
THEOREM OwnersNeverRaise == SRWSpec => []NeverRaises
<1>1. SRWInv => NeverRaises
    BY DEF SRWInv
<1> QED
    BY <1>1, SRWInvariance, PTL

(* No wake-up is lost: a free lock with a sleeper has a waker on its way.  *)
THEOREM NoLostWakeup == SRWSpec => []SleeperIsWoken
<1>1. SRWInv => SleeperIsWoken
    BY DEF SRWInv
<1> QED
    BY <1>1, SRWInvariance, PTL

(* The compare-exchange loops implement ReadWriteLock.                     *)
LEMMA RefineInit == SRWInit => RWLock!Init
BY DEF SRWInit, RWLock!Init, Readers, Writers

LEMMA RefineSame ==
  ASSUME Readers' = Readers, Writers' = Writers
  PROVE  [RWLock!Next]_<<Readers, Writers>>
OBVIOUS

LEMMA RefineWriterIn ==
  ASSUME NEW t \in Thread, LockExact, ptr = 0,
         Readers' = Readers, Writers' = Writers \cup {t}
  PROVE  RWLock!Next
<1>1. Writers = {} /\ Readers = {}
    BY OwnersFinite, FS_EmptySet DEF LockExact
<1> QED
    BY <1>1 DEF RWLock!Next, RWLock!Write

LEMMA RefineReaderIn ==
  ASSUME NEW t \in Thread, LockExact, t \notin Readers, ptr >= 0,
         Readers' = Readers \cup {t}, Writers' = Writers
  PROVE  RWLock!Next
<1>1. Writers = {}
    BY DEF LockExact
<1> QED
    BY <1>1 DEF RWLock!Next, RWLock!Read

LEMMA RefineStep ==
  SRWInv /\ [SRWNext]_srwVars => [RWLock!Next]_<<Readers, Writers>>
<1> SUFFICES ASSUME SRWInv, [SRWNext]_srwVars
             PROVE  [RWLock!Next]_<<Readers, Writers>>
    OBVIOUS
<1> USE DEF SRWInv, SRWTypeOK
<1> DEFINE Kept(u) == \/ spc'[u] = spc[u]
                      \/ spc[u] \notin OwnLabel /\ spc'[u] \notin OwnLabel
<1>1. ASSUME \A u \in Thread : Kept(u) PROVE [RWLock!Next]_<<Readers, Writers>>
    BY <1>1, SameOwners, RefineSame
<1>2. ASSUME NEW t \in Thread, AcquireExclusive(t) \/ TryAcquireExclusive(t)
      PROVE  [RWLock!Next]_<<Readers, Writers>>
  <2> USE <1>2 DEF AcquireExclusive, TryAcquireExclusive, SGoto
  <2>1. CASE ptr = 0
    <3>1. Readers' = Readers /\ Writers' = Writers \cup {t}
        BY <2>1 DEF Readers, Writers
    <3> QED
        BY <2>1, <3>1, RefineWriterIn
  <2>2. CASE ptr # 0
    <3>1. \A u \in Thread : Kept(u)
        BY <2>2 DEF OwnLabel
    <3> QED
        BY <3>1, <1>1
  <2> QED
      BY <2>1, <2>2
<1>3. ASSUME NEW t \in Thread, CasShared(t) \/ TryCasShared(t)
      PROVE  [RWLock!Next]_<<Readers, Writers>>
  <2> USE <1>3 DEF CasShared, TryCasShared, SGoto
  <2>1. CASE ptr = seen[t]
    <3>1. ptr >= 0
        BY <2>1 DEF SeenOK
    <3>2. t \notin Readers /\ Readers' = Readers \cup {t} /\ Writers' = Writers
        BY <2>1 DEF Readers, Writers
    <3> QED
        BY <3>1, <3>2, RefineReaderIn
  <2>2. CASE ptr # seen[t]
    <3>1. \A u \in Thread : Kept(u)
        BY <2>2 DEF OwnLabel
    <3> QED
        BY <3>1, <1>1
  <2> QED
      BY <2>1, <2>2
<1>4. ASSUME NEW t \in Thread, ReleaseExclusive(t)
      PROVE  [RWLock!Next]_<<Readers, Writers>>
  <2>1. t \in Writers /\ ptr = EXCLUSIVE
      BY <1>4, OwnerSees DEF ReleaseExclusive, Writers
  <2>2. Readers' = Readers /\ Writers' = Writers \ {t}
      BY <1>4, <2>1 DEF ReleaseExclusive, SGoto, Readers, Writers
  <2> QED
      BY <2>1, <2>2 DEF RWLock!Next, RWLock!EndWrite
<1>5. ASSUME NEW t \in Thread, ReleaseReadShared(t)
      PROVE  [RWLock!Next]_<<Readers, Writers>>
  <2>1. ptr > 0
      BY <1>5, OwnerSees DEF ReleaseReadShared, Readers
  <2>2. Readers' = Readers /\ Writers' = Writers
      BY <1>5, <2>1 DEF ReleaseReadShared, SGoto, Readers, Writers
  <2> QED
      BY <2>2, RefineSame
<1>6. ASSUME NEW t \in Thread, ReleaseCasShared(t)
      PROVE  [RWLock!Next]_<<Readers, Writers>>
  <2> USE <1>6 DEF ReleaseCasShared, SGoto
  <2>1. t \in Readers
      BY DEF Readers
  <2>2. CASE ptr = seen[t]
    <3>1. Readers' = Readers \ {t} /\ Writers' = Writers
        BY <2>2 DEF Readers, Writers
    <3> QED
        BY <2>1, <3>1 DEF RWLock!Next, RWLock!EndRead
  <2>3. CASE ptr # seen[t]
    <3>1. Readers' = Readers /\ Writers' = Writers
        BY <2>3 DEF Readers, Writers
    <3> QED
        BY <3>1, RefineSame
  <2> QED
      BY <2>2, <2>3
<1>7. ASSUME NEW t \in Thread,
             WaitForChange(t) \/ ReadShared(t) \/ TryReadShared(t)
      PROVE  \A u \in Thread : Kept(u)
    BY <1>7 DEF WaitForChange, ReadShared, TryReadShared, LoopAgain, SGoto, OwnLabel
<1>8. ASSUME NEW t \in Thread, SpuriousReturn(t)
      PROVE  \A u \in Thread : Kept(u)
    BY <1>8 DEF SpuriousReturn, LoopAgain, SGoto, OwnLabel, SleepersWait
<1>9. ASSUME NEW t \in Thread, WakeSleepers(t) PROVE \A u \in Thread : Kept(u)
    BY <1>9 DEF WakeSleepers, OwnLabel, SleepersWait
<1>10. ASSUME ShutdownSleepers PROVE \A u \in Thread : Kept(u)
    BY <1>10 DEF ShutdownSleepers, Awaken, OwnLabel, SleepersWait
<1>11. ASSUME UNCHANGED srwVars PROVE \A u \in Thread : Kept(u)
    BY <1>11 DEF srwVars
<1> HIDE DEF Kept
<1> QED
    BY <1>1, <1>2, <1>3, <1>4, <1>5, <1>6, <1>7, <1>8, <1>9, <1>10, <1>11
    DEF SRWNext, SRWStep, SRWRelease

(* srwlock.c implements a reader/writer lock.                              *)
THEOREM SRWRefinement == SRWSpec => ImplementsReadWriteLock
<1> QED
    BY RefineInit, SRWInvariance, RefineStep, PTL
    DEF SRWSpec, ImplementsReadWriteLock, RWLock!Spec

HIDE DEF SRWLabel, WaitLabel, EXCLUSIVE

-----------------------------------------------------------------------------
(* Critical sections.                                                      *)

(* Queued threads are blocked, outside, and not signalled.                 *)
QueuedOK ==
  \A i \in DOMAIN queue :
    /\ cpc[queue[i]] = "blocked" /\ owner # queue[i]
    /\ queue[i] \notin signalled
    /\ \A u \in Thread : cpc[u] = "signal" => wakes[u] # queue[i]

(* Whoever is signalled, or is going to be, was handed the section.        *)
SignalledOK ==
  /\ \A t \in signalled : cpc[t] = "blocked" /\ owner = t /\ recursion = 1
  /\ \A u \in Thread : cpc[u] = "signal" =>
       /\ cpc[wakes[u]] = "blocked" /\ owner = wakes[u] /\ recursion = 1
       /\ wakes[u] \notin signalled
  /\ \A t, u \in Thread : cpc[t] = "signal" /\ cpc[u] = "signal" => t = u

(* A thread inside a call is not inside the section; a free section has no *)
(* waiters; an owner is inside, or is about to be.                         *)
OutsideOK ==
  /\ \A t \in Thread : cpc[t] # "out" => depth[t] = 0
  /\ owner = NoThread => queue = <<>>
  /\ owner # NoThread => depth[owner] > 0 \/ cpc[owner] = "blocked"

Installing == {t \in Thread : cpc[t] = "install"}

CSInv ==
  /\ CSTypeOK /\ OwnerExact /\ LockCountExact /\ ListsExact
  /\ QueuedOK /\ SignalledOK /\ OutsideOK

(* The number of wait lists, as the actions change it.                     *)
LEMMA InstallingFinite == IsFiniteSet(Installing)
BY ThreadAssumption, FS_Subset DEF Installing

LEMMA ListsSame ==
  ASSUME ListsExact, pool' = pool, hasList' = hasList, Installing' = Installing
  PROVE  ListsExact'
BY DEF ListsExact, Installing

LEMMA ListsBegin ==
  ASSUME NEW t \in Thread, ListsExact, t \notin Installing,
         Installing' = Installing \cup {t}, pool' = pool + 1, hasList' = hasList
  PROVE  ListsExact'
<1>1. Cardinality(Installing') = Cardinality(Installing) + 1
    BY InstallingFinite, FS_AddElement
<1>2. Cardinality(Installing) \in Nat
    BY InstallingFinite, FS_CardinalityType
<1> QED
    BY <1>1, <1>2 DEF ListsExact, Installing

LEMMA ListsEnd ==
  ASSUME NEW t \in Installing, ListsExact, Installing' = Installing \ {t},
         hasList \in BOOLEAN, hasList' = TRUE,
         pool' = IF hasList THEN pool - 1 ELSE pool
  PROVE  ListsExact' /\ pool' \in Nat
<1>1. Cardinality(Installing') = Cardinality(Installing) - 1
    BY InstallingFinite, FS_RemoveElement
<1>2. Cardinality(Installing) \in Nat /\ Cardinality(Installing) # 0
    BY InstallingFinite, FS_CardinalityType, FS_EmptySet
<1>3. pool = (IF hasList THEN 1 ELSE 0) + Cardinality(Installing)
    BY DEF ListsExact, Installing
<1>4. pool' = 1 + Cardinality(Installing')
    BY <1>1, <1>2, <1>3
<1>5. Cardinality(Installing') \in Nat
    BY <1>1, <1>2
<1> QED
    BY <1>4, <1>5 DEF ListsExact, Installing

LEMMA CSInitInv == CSInit => CSInv
<1> SUFFICES ASSUME CSInit PROVE CSInv
    OBVIOUS
<1>1. Installing = {}
    BY DEF CSInit, Installing
<1>2. ListsExact
  <2>1. ~hasList /\ pool = 0
      BY DEF CSInit
  <2>2. Cardinality(Installing) = 0
      BY <1>1, FS_EmptySet
  <2> QED
      BY <2>1, <2>2 DEF ListsExact, Installing
<1>3. CSTypeOK
  <2>1. cpc \in [Thread -> {"out", "again", "alloc", "install", "blocked",
                            "signal", "raised"}]
      BY DEF CSInit
  <2>2. queue \in Seq(Thread) /\ \A i, j \in DOMAIN queue : queue[i] = queue[j] => i = j
      BY DEF CSInit
  <2>3. wakes \in [Thread -> Thread] /\ depth \in [Thread -> Nat]
      BY DEF CSInit
  <2>4. hasList \in BOOLEAN
      BY DEF CSInit
  <2>5. recursion \in Nat /\ lockCount \in Int /\ pool \in Nat
      BY DEF CSInit
  <2>6. owner \in Thread \cup {NoThread} /\ signalled \in SUBSET Thread
      BY DEF CSInit
  <2> QED
      BY <2>1, <2>2, <2>3, <2>4, <2>5, <2>6 DEF CSTypeOK
<1>4. OwnerExact /\ LockCountExact /\ OutsideOK
    BY DEF CSInit, OwnerExact, LockCountExact, OutsideOK
<1>5. QueuedOK /\ SignalledOK
    BY DEF CSInit, QueuedOK, SignalledOK
<1> QED
    BY <1>2, <1>3, <1>4, <1>5 DEF CSInv

LEMMA TakeInv ==
  ASSUME CSInv, NEW t \in Thread, cpc[t] \in {"out", "again"}, Take(t),
         cpc' = [cpc EXCEPT ![t] = "out"],
         UNCHANGED <<queue, hasList, signalled, wakes, pool>>
  PROVE  CSInv'
<1> USE DEF CSInv, CSTypeOK, Take, Deeper
<1>1. Installing' = Installing
    BY DEF Installing
<1>2. ListsExact'
    BY <1>1, ListsSame
<1>3. \A u \in Thread : cpc[u] = "signal" => owner = wakes[u] /\ wakes[u] # t
    BY DEF SignalledOK
<1>4. OwnerExact'
  <2>1. CASE owner = NoThread
    <3>1. \A u \in Thread : depth[u] = 0
        BY <2>1, NoThreadAssumption DEF OwnerExact
    <3> QED
        BY <2>1, <3>1, NoThreadAssumption DEF OwnerExact
  <2>2. CASE owner = t
    <3>1. depth[t] > 0 /\ recursion = depth[t]
        BY <2>2, NoThreadAssumption DEF OwnerExact, OutsideOK
    <3>2. \A u \in Thread : u # t => depth[u] = 0
        BY <2>2 DEF OwnerExact
    <3> QED
        BY <2>2, <3>1, <3>2, NoThreadAssumption DEF OwnerExact
  <2> QED
      BY <2>1, <2>2
<1>5. CSTypeOK'
    BY DEF OwnerExact
<1>6. LockCountExact' /\ OutsideOK'
  <2>1. LockCountExact'
      BY NoThreadAssumption DEF LockCountExact, OutsideOK
  <2>2. OutsideOK'
      BY NoThreadAssumption DEF OutsideOK
  <2> QED
      BY <2>1, <2>2
<1>7. QueuedOK'
    BY NoThreadAssumption DEF QueuedOK, OutsideOK
<1>8. SignalledOK'
    BY <1>3, NoThreadAssumption DEF SignalledOK
<1> QED
    BY <1>2, <1>4, <1>5, <1>6, <1>7, <1>8

LEMMA CSStepInv == CSInv /\ [CSNext]_csVars => CSInv'
<1> SUFFICES ASSUME CSInv, [CSNext]_csVars PROVE CSInv'
    OBVIOUS
<1> USE DEF CSInv, CSTypeOK
<1>1. ASSUME NEW t \in Thread, Enter(t) PROVE CSInv'
  <2>1. CASE Take(t) /\ CGoto(t, "out") /\ UNCHANGED queue
      BY <1>1, <2>1, TakeInv DEF Enter, CGoto
  <2>2. CASE /\ owner \notin {NoThread, t} /\ ~hasList /\ CGoto(t, "alloc")
             /\ UNCHANGED <<fields, queue, depth>>
    <3> USE <1>1, <2>2 DEF Enter, CGoto, fields
    <3>1. ListsExact'
        BY ListsSame DEF Installing
    <3>2. CSTypeOK' /\ OwnerExact' /\ LockCountExact'
        BY DEF OwnerExact, LockCountExact
    <3>3. OutsideOK'
        BY DEF OutsideOK, OwnerExact
    <3>4. QueuedOK' /\ SignalledOK'
        BY DEF QueuedOK, SignalledOK
    <3> QED
        BY <3>1, <3>2, <3>3, <3>4
  <2>3. CASE /\ owner \notin {NoThread, t} /\ hasList
             /\ lockCount' = lockCount + 1 /\ queue' = Append(queue, t)
             /\ CGoto(t, "blocked") /\ UNCHANGED <<owner, recursion, depth>>
    <3> USE <1>1, <2>3 DEF Enter, CGoto
    <3>1. ListsExact'
        BY ListsSame DEF Installing
    <3>2. /\ Len(queue') = Len(queue) + 1 /\ queue' \in Seq(Thread)
          /\ \A i \in DOMAIN queue' :
               IF i = Len(queue) + 1 THEN queue'[i] = t
               ELSE i \in DOMAIN queue /\ queue'[i] = queue[i]
        OBVIOUS
    <3>3. \A i \in DOMAIN queue : queue[i] # t
        BY DEF QueuedOK
    <3>4. \A i, j \in DOMAIN queue' : queue'[i] = queue'[j] => i = j
        BY <3>2, <3>3
    <3>5. CSTypeOK' /\ OwnerExact'
        BY <3>2, <3>4 DEF OwnerExact
    <3>6. LockCountExact'
        BY <3>2 DEF LockCountExact
    <3>7. OutsideOK'
        BY DEF OutsideOK, OwnerExact
    <3>8. SignalledOK'
        BY DEF SignalledOK
    <3>9. t \notin signalled /\ \A u \in Thread : cpc[u] = "signal" => wakes[u] # t
        BY DEF SignalledOK
    <3>10. QueuedOK'
        BY <3>2, <3>9 DEF QueuedOK
    <3> QED
        BY <3>1, <3>5, <3>6, <3>7, <3>8, <3>10
  <2> QED
      BY <1>1, <2>1, <2>2, <2>3 DEF Enter
<1>2. ASSUME NEW t \in Thread, TryEnter(t) PROVE CSInv'
    BY <1>2, TakeInv DEF TryEnter
<1>3. ASSUME NEW t \in Thread, AllocateList(t) PROVE CSInv'
  <2> USE <1>3 DEF AllocateList, CGoto, fields
  <2>1. ListsExact' /\ pool' \in Nat
    <3>1. CASE cpc'[t] = "install"
      <4>1. t \notin Installing /\ Installing' = Installing \cup {t}
          BY <3>1 DEF Installing
      <4>2. pool' = pool + 1 /\ hasList' = hasList
          BY <3>1
      <4> QED
          BY <4>1, <4>2, ListsBegin
    <3>2. CASE cpc'[t] # "install"
        BY <3>2, ListsSame DEF Installing
    <3> QED
        BY <3>1, <3>2
  <2>2. CSTypeOK' /\ OwnerExact' /\ LockCountExact'
      BY <2>1 DEF OwnerExact, LockCountExact
  <2>3. OutsideOK'
      BY DEF OutsideOK
  <2>4. QueuedOK' /\ SignalledOK'
    <3>1. QueuedOK'
        BY DEF QueuedOK
    <3>2. SignalledOK'
        BY DEF SignalledOK
    <3> QED
        BY <3>1, <3>2
  <2> QED
      BY <2>1, <2>2, <2>3, <2>4
<1>4. ASSUME NEW t \in Thread, InstallList(t) PROVE CSInv'
  <2> USE <1>4 DEF InstallList, CGoto, fields
  <2>1. t \in Installing /\ Installing' = Installing \ {t}
      BY DEF Installing
  <2>2. hasList' = TRUE /\ pool' = IF hasList THEN pool - 1 ELSE pool
      OBVIOUS
  <2>3. ListsExact' /\ pool' \in Nat
      BY <2>1, <2>2, ListsEnd
  <2>4. CSTypeOK' /\ OwnerExact' /\ LockCountExact'
      BY <2>2, <2>3 DEF OwnerExact, LockCountExact
  <2>5. OutsideOK'
      BY DEF OutsideOK
  <2>6. QueuedOK' /\ SignalledOK'
    <3>1. QueuedOK'
        BY DEF QueuedOK
    <3>2. SignalledOK'
        BY DEF SignalledOK
    <3> QED
        BY <3>1, <3>2
  <2> QED
      BY <2>3, <2>4, <2>5, <2>6
<1>5. ASSUME NEW t \in Thread, WaitSatisfied(t) PROVE CSInv'
  <2> USE <1>5 DEF WaitSatisfied, Deeper, CGoto, fields
  <2>1. owner = t /\ recursion = 1 /\ depth[t] = 0
      BY DEF SignalledOK, OutsideOK
  <2>2. ListsExact'
      BY ListsSame DEF Installing
  <2>3. CSTypeOK' /\ OwnerExact' /\ LockCountExact'
      BY <2>1 DEF OwnerExact, LockCountExact
  <2>4. OutsideOK'
      BY <2>1, NoThreadAssumption DEF OutsideOK
  <2>5. QueuedOK'
      BY DEF QueuedOK
  <2>6. SignalledOK'
      BY <2>1 DEF SignalledOK
  <2> QED
      BY <2>2, <2>3, <2>4, <2>5, <2>6
<1>6. ASSUME NEW t \in Thread, Leave(t) PROVE CSInv'
  <2>1. owner = t /\ recursion = depth[t] /\ recursion > 0 /\ cpc[t] = "out"
      BY <1>6 DEF Leave, OwnerExact
  <2>2. signalled = {} /\ \A u \in Thread : cpc[u] # "signal"
      BY <2>1 DEF SignalledOK
  <2>3. \A u \in Thread : u # t => depth[u] = 0
      BY <2>1 DEF OwnerExact
  <2>4. CASE recursion > 1
    <3> USE <1>6, <2>1, <2>4 DEF Leave
    <3>1. /\ recursion' = recursion - 1 /\ depth' = [depth EXCEPT ![t] = @ - 1]
          /\ UNCHANGED <<owner, lockCount, queue, cpc, wakes, hasList, signalled, pool>>
        OBVIOUS
    <3>2. ListsExact'
        BY <3>1, ListsSame DEF Installing
    <3>3. CSTypeOK' /\ OwnerExact' /\ LockCountExact'
        BY <3>1 DEF OwnerExact, LockCountExact
    <3>4. OutsideOK'
        BY <3>1 DEF OutsideOK
    <3>5. QueuedOK' /\ SignalledOK'
        BY <2>2, <3>1 DEF QueuedOK, SignalledOK
    <3> QED
        BY <3>2, <3>3, <3>4, <3>5
  <2>5. CASE recursion = 1 /\ queue = <<>>
    <3> USE <1>6, <2>1, <2>5 DEF Leave, Free
    <3>1. /\ recursion' = 0 /\ owner' = NoThread /\ lockCount' = -1
          /\ depth' = [depth EXCEPT ![t] = @ - 1]
          /\ UNCHANGED <<queue, cpc, wakes, hasList, signalled, pool>>
        OBVIOUS
    <3>2. ListsExact'
        BY <3>1, ListsSame DEF Installing
    <3>3. CSTypeOK' /\ LockCountExact'
        BY <3>1 DEF LockCountExact
    <3>4. OwnerExact' /\ OutsideOK'
        BY <2>3, <3>1 DEF OwnerExact, OutsideOK
    <3>5. QueuedOK' /\ SignalledOK'
        BY <2>2, <3>1, NoThreadAssumption DEF QueuedOK, SignalledOK
    <3> QED
        BY <3>2, <3>3, <3>4, <3>5
  <2>6. CASE recursion = 1 /\ queue # <<>>
    <3> DEFINE h == Head(queue)
    <3>1. /\ h \in Thread /\ h = queue[1] /\ 1 \in DOMAIN queue
          /\ Len(queue) \in Nat /\ Len(queue) > 0
        BY <2>6
    <3>2. /\ recursion' = 1 /\ owner' = h /\ lockCount' = lockCount - 1
          /\ queue' = Tail(queue) /\ wakes' = [wakes EXCEPT ![t] = h]
          /\ cpc' = [cpc EXCEPT ![t] = "signal"]
          /\ depth' = [depth EXCEPT ![t] = @ - 1]
          /\ UNCHANGED <<hasList, signalled, pool>>
        BY <1>6, <2>1, <2>6 DEF Leave, HandOver, CGoto
    <3>3. /\ queue' \in Seq(Thread) /\ Len(queue') = Len(queue) - 1
          /\ \A i \in DOMAIN queue' : i + 1 \in DOMAIN queue /\ queue'[i] = queue[i + 1]
                                      /\ i \in Nat /\ i > 0
        BY <2>6, <3>2
    <3>4. cpc[h] = "blocked" /\ h # t /\ h \notin signalled /\ depth[h] = 0
        BY <2>1, <2>3, <3>1 DEF QueuedOK
    <3> HIDE DEF h
    <3>5. ListsExact'
      <4>1. Installing' = Installing
          BY <2>1, <3>2 DEF Installing
      <4> QED
          BY <3>2, <4>1, ListsSame
    <3>6. CSTypeOK'
      <4>1. \A i, j \in DOMAIN queue' : queue'[i] = queue'[j] => i = j
          BY <3>3
      <4>2. depth[t] - 1 \in Nat
          BY <2>1
      <4>3. depth' \in [Thread -> Nat]
          BY <3>2, <4>2
      <4> QED
          BY <3>1, <3>2, <3>3, <4>1, <4>3
    <3>7. LockCountExact'
        BY <2>1, <3>1, <3>2, <3>3, NoThreadAssumption DEF LockCountExact
    <3>8. OwnerExact' /\ OutsideOK'
      <4>0. depth[t] = 1
          BY <2>1, <2>6
      <4>1. \A u \in Thread : depth'[u] = 0
          BY <2>3, <3>2, <4>0
      <4>2. OwnerExact'
          BY <3>2, <4>1 DEF OwnerExact
      <4>3. OutsideOK'
          BY <3>1, <3>2, <3>4, <4>1, NoThreadAssumption DEF OutsideOK
      <4> QED
          BY <4>2, <4>3
    <3>9. SignalledOK'
      <4>1. \A u \in Thread : cpc'[u] = "signal" => u = t
          BY <2>2, <3>2
      <4>2. wakes'[t] = h /\ cpc'[h] = "blocked" /\ h \notin signalled'
          BY <3>1, <3>2, <3>4
      <4>3. signalled' = {}
          BY <2>2, <3>2
      <4> QED
          BY <3>2, <4>1, <4>2, <4>3 DEF SignalledOK
    <3>10. ASSUME NEW i \in DOMAIN queue' PROVE queue'[i] # h
      <4>1. i + 1 \in DOMAIN queue /\ queue'[i] = queue[i + 1] /\ i + 1 # 1
          BY <3>3
      <4>2. queue[i + 1] = queue[1] => i + 1 = 1
          BY <3>1, <4>1
      <4> QED
          BY <3>1, <4>1, <4>2
    <3>11. QueuedOK'
        BY <2>1, <2>2, <3>1, <3>2, <3>3, <3>10 DEF QueuedOK
    <3> QED
        BY <3>5, <3>6, <3>7, <3>8, <3>9, <3>11
  <2> QED
      BY <2>1, <2>4, <2>5, <2>6
<1>7. ASSUME NEW t \in Thread, Signal(t) PROVE CSInv'
  <2> USE <1>7 DEF Signal, CGoto, fields
  <2>1. ListsExact'
      BY ListsSame DEF Installing
  <2>2. CSTypeOK' /\ OwnerExact' /\ LockCountExact'
      BY DEF OwnerExact, LockCountExact
  <2>3. OutsideOK'
      BY DEF OutsideOK
  <2>4. QueuedOK'
      BY DEF QueuedOK
  <2>5. \A u \in Thread : cpc'[u] # "signal"
      BY DEF SignalledOK
  <2>6. SignalledOK'
      BY <2>5 DEF SignalledOK
  <2> QED
      BY <2>1, <2>2, <2>3, <2>4, <2>6
<1>8. ASSUME Delete PROVE CSInv'
  <2> USE <1>8 DEF Delete, fields
  <2>1. Installing' = Installing
      BY DEF Installing
  <2>2. Cardinality(Installing) \in Nat
      BY InstallingFinite, FS_CardinalityType
  <2>3. pool = 1 + Cardinality(Installing)
      BY DEF ListsExact, Installing
  <2>4. ListsExact' /\ pool' \in Nat
      BY <2>1, <2>2, <2>3 DEF ListsExact, Installing
  <2>5. CSTypeOK' /\ OwnerExact' /\ LockCountExact'
      BY <2>4 DEF OwnerExact, LockCountExact
  <2>6. OutsideOK' /\ QueuedOK' /\ SignalledOK'
      BY DEF OutsideOK, QueuedOK, SignalledOK
  <2> QED
      BY <2>4, <2>5, <2>6
<1>9. CASE UNCHANGED csVars
  <2> USE <1>9 DEF csVars
  <2>1. ListsExact'
      BY ListsSame DEF Installing
  <2> QED
      BY <2>1 DEF OwnerExact, LockCountExact, OutsideOK, QueuedOK, SignalledOK
<1> QED
    BY <1>1, <1>2, <1>3, <1>4, <1>5, <1>6, <1>7, <1>8, <1>9 DEF CSNext, EnterStep

(* The inductive invariant of the critical section.                        *)
THEOREM CSInvariance == CSSpec => []CSInv
<1> QED
    BY CSInitInv, CSStepInv, PTL DEF CSSpec

(* Types, and no thread is queued twice.                                   *)
THEOREM CSTypeCorrect == CSSpec => []CSTypeOK
<1>1. CSInv => CSTypeOK
    BY DEF CSInv
<1> QED
    BY <1>1, CSInvariance, PTL

(* RtlEnterCriticalSection lets one thread in, RecursionCount is its       *)
(* nesting, and RtlLeaveCriticalSection never raises for it.               *)
THEOREM OneOwner == CSSpec => []OwnerExact
<1>1. CSInv => OwnerExact
    BY DEF CSInv
<1> QED
    BY <1>1, CSInvariance, PTL

(* LockCount is -1 for a free section and counts the waiters otherwise.    *)
THEOREM CountedWaiters == CSSpec => []LockCountExact
<1>1. CSInv => LockCountExact
    BY DEF CSInv
<1> QED
    BY <1>1, CSInvariance, PTL

(* LdkpEnsureCriticalSectionState neither leaks nor double-frees a list.   *)
THEOREM NoListLeak == CSSpec => []ListsExact
<1>1. CSInv => ListsExact
    BY DEF CSInv
<1> QED
    BY <1>1, CSInvariance, PTL

(* RtlLeaveCriticalSection passes the section to the first waiter.         *)
THEOREM Fifo == CSSpec => NoOvertaking
<1>1. CSInv /\ [CSNext]_csVars
        => [queue # <<>> /\ owner' # owner => owner' = Head(queue)]_csVars
  <2> SUFFICES ASSUME CSInv, CSNext, queue # <<>>, owner' # owner
               PROVE  owner' = Head(queue)
      BY DEF csVars
  <2>1. owner # NoThread
      BY DEF CSInv, OutsideOK
  <2>2. PICK t \in Thread : Leave(t)
      BY <2>1 DEF CSNext, EnterStep, Enter, TryEnter, Take, AllocateList,
                  InstallList, WaitSatisfied, Signal, Delete, fields
  <2> QED
      BY <2>2 DEF Leave, Free, HandOver, fields
<1> QED
    BY <1>1, CSInvariance, PTL DEF CSSpec, NoOvertaking

(* A blocked thread that is not queued any more was handed the section,    *)
(* and its signal is on the way or has been sent.                          *)
ChosenOK ==
  \A t \in Chosen :
    \/ t \in signalled
    \/ \E u \in Thread : cpc[u] = "signal" /\ wakes[u] = t

LEMMA ChosenStep == CSInv /\ ChosenOK /\ [CSNext]_csVars => ChosenOK'
<1> SUFFICES ASSUME CSInv, ChosenOK, [CSNext]_csVars PROVE ChosenOK'
    OBVIOUS
<1> USE DEF CSInv, CSTypeOK
<1>1. ASSUME Chosen' \subseteq Chosen, signalled' = signalled, wakes' = wakes,
             \A u \in Thread : cpc[u] = "signal" => cpc'[u] = "signal"
      PROVE  ChosenOK'
    BY <1>1 DEF ChosenOK
<1>2. ASSUME NEW t \in Thread, cpc[t] # "signal", signalled' = signalled,
             wakes' = wakes, queue' = queue,
             NEW label, label # "blocked", cpc' = [cpc EXCEPT ![t] = label]
      PROVE  ChosenOK'
  <2>1. Chosen' \subseteq Chosen
      BY <1>2 DEF Chosen, InQueue
  <2>2. \A u \in Thread : cpc[u] = "signal" => cpc'[u] = "signal"
      BY <1>2
  <2> QED
      BY <1>1, <1>2, <2>1, <2>2
<1>3. ASSUME NEW t \in Thread, Enter(t) PROVE ChosenOK'
  <2>1. CASE queue' = queue
      BY <1>2, <1>3, <2>1 DEF Enter, CGoto
  <2>2. CASE queue' # queue
    <3>1. /\ queue' = Append(queue, t) /\ cpc' = [cpc EXCEPT ![t] = "blocked"]
          /\ signalled' = signalled /\ wakes' = wakes
          /\ cpc[t] \in {"out", "again"}
        BY <1>3, <2>2 DEF Enter, CGoto
    <3>2. \A u \in Thread : InQueue(u) \/ u = t => InQueue(u)'
      <4>1. /\ DOMAIN queue \subseteq DOMAIN queue'
            /\ \A i \in DOMAIN queue : queue'[i] = queue[i]
            /\ Len(queue) + 1 \in DOMAIN queue' /\ queue'[Len(queue) + 1] = t
          BY <3>1
      <4> QED
          BY <4>1 DEF InQueue
    <3>3. Chosen' \subseteq Chosen
        BY <3>1, <3>2 DEF Chosen
    <3> QED
        BY <1>1, <3>1, <3>3
  <2> QED
      BY <2>1, <2>2
<1>4. ASSUME NEW t \in Thread, TryEnter(t) PROVE ChosenOK'
  <2>1. UNCHANGED <<cpc, queue, signalled, wakes>>
      BY <1>4 DEF TryEnter
  <2> QED
      BY <2>1 DEF ChosenOK, Chosen, InQueue
<1>5. ASSUME NEW t \in Thread, AllocateList(t) \/ InstallList(t) PROVE ChosenOK'
    BY <1>2, <1>5 DEF AllocateList, InstallList, CGoto
<1>6. ASSUME NEW t \in Thread, WaitSatisfied(t) PROVE ChosenOK'
  <2>1. Chosen' \subseteq Chosen \ {t} /\ signalled' = signalled \ {t}
      BY <1>6 DEF WaitSatisfied, CGoto, Chosen, InQueue
  <2>2. wakes' = wakes /\ \A u \in Thread : cpc[u] = "signal" => cpc'[u] = "signal"
      BY <1>6 DEF WaitSatisfied, CGoto
  <2> QED
      BY <2>1, <2>2 DEF ChosenOK
<1>7. ASSUME NEW t \in Thread, Leave(t) PROVE ChosenOK'
  <2>1. owner = t /\ cpc[t] = "out" /\ recursion > 0
      BY <1>7 DEF Leave, OwnerExact
  <2>2. \A u \in Thread : u \notin signalled /\ cpc[u] # "signal"
      BY <2>1 DEF SignalledOK
  <2>3. Chosen = {}
      BY <2>2 DEF ChosenOK, Chosen
  <2>4. CASE queue' = queue
    <3>1. cpc' = cpc
      <4>1. queue # <<>> => Tail(queue) # queue
          OBVIOUS
      <4> QED
          BY <1>7, <2>1, <2>4, <4>1 DEF Leave, HandOver, Free
    <3>2. Chosen' = {}
        BY <2>3, <2>4, <3>1 DEF Chosen, InQueue
    <3> QED
        BY <3>2 DEF ChosenOK
  <2>5. CASE queue' # queue
    <3>1. /\ queue # <<>> /\ queue' = Tail(queue)
          /\ wakes' = [wakes EXCEPT ![t] = Head(queue)]
          /\ cpc' = [cpc EXCEPT ![t] = "signal"]
        BY <1>7, <2>1, <2>5 DEF Leave, HandOver, Free, CGoto, fields
    <3>2. \A u \in Thread : InQueue(u) => u = Head(queue) \/ InQueue(u)'
      <4>1. ASSUME NEW i \in DOMAIN queue, i # 1
            PROVE  i - 1 \in DOMAIN queue' /\ queue'[i - 1] = queue[i]
          BY <3>1, <4>1
      <4>2. Head(queue) = queue[1]
          BY <3>1
      <4> QED
          BY <4>1, <4>2 DEF InQueue
    <3>3. Chosen' \subseteq {Head(queue)}
        BY <2>3, <3>1, <3>2 DEF Chosen
    <3>4. cpc'[t] = "signal" /\ wakes'[t] = Head(queue)
        BY <3>1
    <3> QED
        BY <3>3, <3>4 DEF ChosenOK
  <2> QED
      BY <2>4, <2>5
<1>8. ASSUME NEW t \in Thread, Signal(t) PROVE ChosenOK'
  <2>1. /\ signalled' = signalled \cup {wakes[t]} /\ cpc[t] = "signal"
        /\ Chosen' \subseteq Chosen
      BY <1>8 DEF Signal, CGoto, Chosen, InQueue
  <2>2. \A u \in Thread : cpc[u] = "signal" => u = t
      BY <2>1 DEF SignalledOK
  <2> QED
      BY <2>1, <2>2 DEF ChosenOK
<1>9. ASSUME Delete \/ UNCHANGED csVars PROVE ChosenOK'
  <2>1. UNCHANGED <<cpc, queue, signalled, wakes>>
      BY <1>9 DEF Delete, csVars
  <2> QED
      BY <2>1 DEF ChosenOK, Chosen, InQueue
<1> QED
    BY <1>3, <1>4, <1>5, <1>6, <1>7, <1>8, <1>9 DEF CSNext, EnterStep

(* The leave of RtlLeaveCriticalSection that finds waiters hands the       *)
(* section to exactly one of them, which is sent exactly one signal, and   *)
(* an owned section always has somebody inside or on the way in.           *)
THEOREM HandedOverOnce == CSSpec => []HandOverExact
<1>1. CSInit => ChosenOK
    BY DEF CSInit, ChosenOK, Chosen
<1>2. CSInv /\ ChosenOK => HandOverExact
  <2> SUFFICES ASSUME CSInv, ChosenOK PROVE HandOverExact
      OBVIOUS
  <2> USE DEF CSInv, CSTypeOK
  <2>1. ASSUME NEW t \in Chosen
        PROVE  /\ owner = t /\ recursion = 1 /\ depth[t] = 0
               /\ Cardinality({u \in Thread : cpc[u] = "signal" /\ wakes[u] = t})
                  + (IF t \in signalled THEN 1 ELSE 0) = 1
    <3> DEFINE Senders == {u \in Thread : cpc[u] = "signal" /\ wakes[u] = t}
    <3>1. t \in Thread /\ cpc[t] = "blocked"
        BY DEF Chosen
    <3>2. owner = t /\ recursion = 1
        BY <3>1 DEF ChosenOK, SignalledOK
    <3>3. depth[t] = 0
        BY <3>1 DEF OutsideOK
    <3>4. CASE t \in signalled
      <4>1. Senders = {}
          BY <3>4 DEF SignalledOK
      <4>2. Cardinality(Senders) = 0
          BY <4>1, FS_EmptySet
      <4> QED
          BY <3>2, <3>3, <3>4, <4>2
    <3>5. CASE t \notin signalled
      <4>1. PICK u \in Thread : cpc[u] = "signal" /\ wakes[u] = t
          BY <3>5 DEF ChosenOK
      <4>2. Senders = {u}
          BY <4>1 DEF SignalledOK
      <4>3. Cardinality(Senders) = 1
          BY <4>2, FS_Singleton
      <4> QED
          BY <3>2, <3>3, <3>5, <4>3
    <3> QED
        BY <3>4, <3>5
  <2>2. owner # NoThread => owner \in Inside \cup Chosen
    <3> SUFFICES ASSUME owner # NoThread, owner \notin Inside
                 PROVE  owner \in Chosen
        OBVIOUS
    <3>1. owner \in Thread /\ cpc[owner] = "blocked"
        BY DEF OutsideOK, Inside
    <3>2. ~InQueue(owner)
        BY DEF InQueue, QueuedOK
    <3> QED
        BY <3>1, <3>2 DEF Chosen
  <2> QED
      BY <2>1, <2>2 DEF HandOverExact
<1> QED
    BY <1>1, <1>2, ChosenStep, CSInvariance, PTL DEF CSSpec

(* resource.c implements an exclusive lock.                                *)
THEOREM CSRefinement == CSSpec => ImplementsLock
<1>1. CSInit => Lock!Init
    BY DEF CSInit, Lock!Init, Inside
<1>2. CSInv /\ [CSNext]_csVars => [Lock!Next]_<<{}, Inside>>
  <2> SUFFICES ASSUME CSInv, [CSNext]_csVars PROVE [Lock!Next]_<<{}, Inside>>
      OBVIOUS
  <2> USE DEF CSInv, CSTypeOK
  <2>1. ASSUME NEW t \in Thread, depth' = [depth EXCEPT ![t] = @ + 1],
               owner \in {NoThread, t}
        PROVE  [Lock!Next]_<<{}, Inside>>
    <3>1. \A u \in Inside : u = t
        BY <2>1, NoThreadAssumption DEF Inside, OwnerExact
    <3>2. Inside' = Inside \cup {t}
        BY <2>1 DEF Inside
    <3>3. CASE t \in Inside
        BY <3>2, <3>3
    <3>4. CASE t \notin Inside
        BY <3>1, <3>2, <3>4 DEF Lock!Next, Lock!Write
    <3> QED
        BY <3>3, <3>4
  <2>2. ASSUME NEW t \in Thread, Leave(t) PROVE [Lock!Next]_<<{}, Inside>>
    <3>1. depth[t] > 0 /\ depth' = [depth EXCEPT ![t] = @ - 1]
        BY <2>2 DEF Leave, OwnerExact
    <3>2. CASE depth[t] = 1
      <4>1. t \in Inside /\ Inside' = Inside \ {t}
          BY <3>1, <3>2 DEF Inside
      <4> QED
          BY <4>1 DEF Lock!Next, Lock!EndWrite
    <3>3. CASE depth[t] # 1
      <4>1. Inside' = Inside
          BY <3>1, <3>3 DEF Inside
      <4> QED
          BY <4>1
    <3> QED
        BY <3>2, <3>3
  <2>3. ASSUME depth' = depth PROVE [Lock!Next]_<<{}, Inside>>
      BY <2>3 DEF Inside
  <2>4. ASSUME NEW t \in Thread, Enter(t) \/ TryEnter(t)
        PROVE  [Lock!Next]_<<{}, Inside>>
      BY <2>1, <2>3, <2>4 DEF Enter, TryEnter, Take, Deeper
  <2>5. ASSUME NEW t \in Thread, WaitSatisfied(t) PROVE [Lock!Next]_<<{}, Inside>>
      BY <2>1, <2>5 DEF WaitSatisfied, Deeper, SignalledOK
  <2>6. ASSUME NEW t \in Thread, AllocateList(t) \/ InstallList(t) \/ Signal(t)
        PROVE  [Lock!Next]_<<{}, Inside>>
      BY <2>3, <2>6 DEF AllocateList, InstallList, Signal
  <2>7. ASSUME Delete \/ UNCHANGED csVars PROVE [Lock!Next]_<<{}, Inside>>
      BY <2>3, <2>7 DEF Delete, csVars
  <2> QED
      BY <2>2, <2>4, <2>5, <2>6, <2>7 DEF CSNext, EnterStep
<1> QED
    BY <1>1, <1>2, CSInvariance, PTL DEF CSSpec, ImplementsLock, Lock!Spec
=============================================================================
