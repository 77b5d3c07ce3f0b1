-------------------------- MODULE Subsequences_proofs --------------------------
(***************************************************************************)
(* What is left of a list when entries are taken from it, how many of the  *)
(* first entries a waker takes, and least members of sets of naturals.     *)
(***************************************************************************)
EXTENDS Subsequences, FiniteSetTheorems, WellFoundedInduction, TLAPS

LEMMA BeforeType ==
  ASSUME NEW P \in SUBSET Int, IsFiniteSet(P), NEW i \in P
  PROVE  Before(P, i) \in 0..(Cardinality(P) - 1) /\ Cardinality(P) \in Nat
<1> DEFINE L == {j \in P : j < i}
<1>1. L \in SUBSET P /\ i \notin L
    OBVIOUS
<1>2. IsFiniteSet(L) /\ Cardinality(L) <= Cardinality(P) /\ Cardinality(L) # Cardinality(P)
    BY <1>1, FS_Subset
<1>3. Cardinality(L) \in Nat /\ Cardinality(P) \in Nat
    BY <1>2, FS_CardinalityType
<1> HIDE DEF L
<1>4. Cardinality(L) \in 0..(Cardinality(P) - 1)
    BY <1>2, <1>3
<1> QED
    BY <1>3, <1>4 DEF Before, L

LEMMA BeforeGrows ==
  ASSUME NEW P \in SUBSET Int, IsFiniteSet(P), NEW i \in P, NEW j \in P, i < j
  PROVE  Before(P, i) < Before(P, j)
<1> DEFINE A == {k \in P : k < i}
           B == {k \in P : k < j}
<1>1. A \in SUBSET B /\ i \in B /\ i \notin A
  <2>1. \A k \in P : k \in Int
      OBVIOUS
  <2>2. i \in Int /\ j \in Int /\ ~(i < i)
      BY <2>1
  <2>3. \A k \in Int : k < i => k < j
      BY <2>2
  <2> QED
      BY <2>1, <2>2, <2>3
<1>2. B \in SUBSET P
    OBVIOUS
<1>3. IsFiniteSet(B)
    BY <1>2, FS_Subset
<1>4. Cardinality(A) <= Cardinality(B) /\ Cardinality(A) # Cardinality(B) /\ IsFiniteSet(A)
    BY <1>1, <1>3, FS_Subset
<1>5. Cardinality(A) \in Nat /\ Cardinality(B) \in Nat
    BY <1>3, <1>4, FS_CardinalityType
<1> HIDE DEF A, B
<1>6. Cardinality(A) < Cardinality(B)
    BY <1>4, <1>5
<1> QED
    BY <1>6 DEF Before, A, B

(* The positions are numbered without gaps.                                *)
LEMMA BeforeOnto ==
  ASSUME NEW P \in SUBSET Int, IsFiniteSet(P)
  PROVE  /\ \A i, j \in P : Before(P, i) = Before(P, j) => i = j
         /\ \A n \in 0..(Cardinality(P) - 1) : \E i \in P : Before(P, i) = n
<1> DEFINE f == [i \in P |-> Before(P, i)]
           T == 0..(Cardinality(P) - 1)
<1>1. Cardinality(P) \in Nat
    BY FS_CardinalityType
<1>2. \A i \in P : Before(P, i) \in T
    BY BeforeType
<1>3. \A i, j \in P : Before(P, i) = Before(P, j) => i = j
  <2> SUFFICES ASSUME NEW i \in P, NEW j \in P, i < j PROVE Before(P, i) # Before(P, j)
      OBVIOUS
  <2>1. Before(P, i) \in Int /\ Before(P, j) \in Int
      BY <1>1, <1>2
  <2> QED
      BY <2>1, BeforeGrows
<1>4. f \in Injection(P, T)
    BY <1>2, <1>3 DEF Injection, IsInjective
<1>5. IsFiniteSet(T) /\ Cardinality(T) = Cardinality(P)
    BY <1>1, FS_Interval
<1>6. f \in Surjection(P, T)
    BY <1>4, <1>5, FS_Injection
<1>7. \A n \in T : \E i \in P : f[i] = n
    BY <1>6 DEF Surjection
<1> QED
    BY <1>3, <1>7

(* Which entry each place of the new list holds.                           *)
LEMMA PositionsKept ==
  ASSUME NEW A, NEW s \in Seq(A), NEW P \in SUBSET (DOMAIN s)
  PROVE  /\ AtPositions(s, P) \in Seq(A)
         /\ DOMAIN AtPositions(s, P) = 1..Cardinality(P)
         /\ \A n \in 1..Cardinality(P) : \E i \in P :
              AtPositions(s, P)[n] = s[i] /\ Before(P, i) = n - 1
         /\ \A i \in P : \E n \in 1..Cardinality(P) :
              AtPositions(s, P)[n] = s[i] /\ Before(P, i) = n - 1
<1>1. IsFiniteSet(P) /\ P \in SUBSET Int
  <2>1. DOMAIN s = 1..Len(s) /\ Len(s) \in Nat
      OBVIOUS
  <2>2. IsFiniteSet(DOMAIN s)
      BY <2>1, FS_Interval
  <2> QED
      BY <2>1, <2>2, FS_Subset
<1>2. Cardinality(P) \in Nat
    BY <1>1, FS_CardinalityType
<1> DEFINE at(n) == CHOOSE i \in P : Before(P, i) = n - 1
<1>3. ASSUME NEW n \in 1..Cardinality(P) PROVE at(n) \in P /\ Before(P, at(n)) = n - 1
  <2>1. n - 1 \in 0..(Cardinality(P) - 1)
      BY <1>2
  <2>2. \E i \in P : Before(P, i) = n - 1
      BY <1>1, <2>1, BeforeOnto
  <2> QED
      BY <2>2
<1>4. AtPositions(s, P) = [n \in 1..Cardinality(P) |-> s[at(n)]]
    BY DEF AtPositions
<1> HIDE DEF at
<1>5. \A n \in 1..Cardinality(P) : AtPositions(s, P)[n] = s[at(n)] /\ s[at(n)] \in A
    BY <1>3, <1>4
<1>6. AtPositions(s, P) \in Seq(A) /\ DOMAIN AtPositions(s, P) = 1..Cardinality(P)
  <2>1. AtPositions(s, P) \in [1..Cardinality(P) -> A]
      BY <1>4, <1>5
  <2> QED
      BY <1>2, <2>1
<1>7. ASSUME NEW i \in P
      PROVE  \E n \in 1..Cardinality(P) : AtPositions(s, P)[n] = s[i] /\ Before(P, i) = n - 1
  <2>1. Before(P, i) \in 0..(Cardinality(P) - 1)
      BY <1>1, BeforeType
  <2>2. PICK n \in 1..Cardinality(P) : Before(P, i) = n - 1
    <3>1. PICK b \in Int : b = Before(P, i) /\ 0 <= b /\ b <= Cardinality(P) - 1
        BY <1>2, <2>1
    <3>2. b + 1 \in 1..Cardinality(P) /\ b = (b + 1) - 1
        BY <1>2, <3>1
    <3> QED
        BY <3>1, <3>2
  <2>3. Before(P, at(n)) = Before(P, i) /\ at(n) \in P
      BY <1>3, <2>2
  <2>4. at(n) = i
      BY <1>1, <2>3, BeforeOnto
  <2> QED
      BY <1>5, <2>2, <2>4
<1> QED
    BY <1>3, <1>5, <1>6, <1>7

Members(s) == {s[i] : i \in DOMAIN s}
Distinct(s) == \A i, j \in DOMAIN s : s[i] = s[j] => i = j

(* Unlinking the blocks of S leaves the others, each of them once.         *)
LEMMA RemainingMembers ==
  ASSUME NEW A, NEW s \in Seq(A), NEW S
  PROVE  /\ Remaining(s, S) \in Seq(A)
         /\ Members(Remaining(s, S)) = Members(s) \ S
         /\ Distinct(s) => Distinct(Remaining(s, S))
<1> DEFINE P == {i \in DOMAIN s : s[i] \notin S}
           r == AtPositions(s, P)
<1>1. P \in SUBSET (DOMAIN s) /\ Remaining(s, S) = r
    BY DEF Remaining
<1>0. \A i : i \in P <=> i \in DOMAIN s /\ s[i] \notin S
    OBVIOUS
<1> HIDE DEF P
<1>2. /\ r \in Seq(A) /\ DOMAIN r = 1..Cardinality(P)
      /\ \A n \in 1..Cardinality(P) : \E i \in P : r[n] = s[i] /\ Before(P, i) = n - 1
      /\ \A i \in P : \E n \in 1..Cardinality(P) : r[n] = s[i] /\ Before(P, i) = n - 1
    BY <1>1, PositionsKept
<1> HIDE DEF r
<1>3. Members(r) = Members(s) \ S
  <2>1. ASSUME NEW x \in Members(r) PROVE x \in Members(s) \ S
    <3>1. PICK n \in DOMAIN r : x = r[n]
        BY DEF Members
    <3>2. PICK i \in P : r[n] = s[i]
        BY <1>2, <3>1
    <3> QED
        BY <1>0, <3>1, <3>2 DEF Members
  <2>2. ASSUME NEW x \in Members(s) \ S PROVE x \in Members(r)
    <3>1. PICK i \in DOMAIN s : x = s[i]
        BY DEF Members
    <3>2. PICK n \in 1..Cardinality(P) : r[n] = s[i]
        BY <1>0, <1>2, <3>1
    <3> QED
        BY <1>2, <3>1, <3>2 DEF Members
  <2> QED
      BY <2>1, <2>2
<1>4. ASSUME Distinct(s) PROVE Distinct(r)
  <2> SUFFICES ASSUME NEW n \in DOMAIN r, NEW m \in DOMAIN r, r[n] = r[m] PROVE n = m
      BY DEF Distinct
  <2>1. PICK i \in P : r[n] = s[i] /\ Before(P, i) = n - 1
      BY <1>2
  <2>2. PICK j \in P : r[m] = s[j] /\ Before(P, j) = m - 1
      BY <1>2
  <2>3. i = j
      BY <1>1, <1>4, <2>1, <2>2 DEF Distinct
  <2>4. n - 1 = m - 1 /\ n \in Int /\ m \in Int
      BY <1>2, <2>1, <2>2, <2>3
  <2> QED
      BY <2>4
<1> QED
    BY <1>1, <1>2, <1>3, <1>4

LEMMA AppendMembers ==
  ASSUME NEW A, NEW s \in Seq(A), NEW x \in A
  PROVE  /\ Append(s, x) \in Seq(A)
         /\ Members(Append(s, x)) = Members(s) \cup {x}
         /\ Distinct(s) /\ x \notin Members(s) => Distinct(Append(s, x))
<1>1. /\ DOMAIN s = 1..Len(s) /\ Len(s) \in Nat
      /\ DOMAIN Append(s, x) = 1..(Len(s) + 1)
      /\ \A i \in DOMAIN s : Append(s, x)[i] = s[i]
      /\ Append(s, x)[Len(s) + 1] = x
    OBVIOUS
<1>2. \A i \in DOMAIN Append(s, x) : i \in DOMAIN s \/ i = Len(s) + 1
    BY <1>1
<1>3. Append(s, x) \in Seq(A)
    OBVIOUS
<1>4. Len(s) + 1 \in DOMAIN Append(s, x) /\ \A i \in DOMAIN s : i \in DOMAIN Append(s, x)
    BY <1>1
<1>5. Members(Append(s, x)) = Members(s) \cup {x}
    BY <1>1, <1>2, <1>4 DEF Members
<1> QED
    BY <1>1, <1>2, <1>3, <1>5 DEF Members, Distinct

(* A waker that takes the first n of the positions P takes all of them, or *)
(* n of them.                                                              *)
LEMMA FirstTaken ==
  ASSUME NEW P \in SUBSET Int, IsFiniteSet(P), NEW n \in Nat,
         NEW T, T = {i \in P : Before(P, i) < n}, T # P
  PROVE  Cardinality(T) = n
<1>1. PICK k \in P : ~(Before(P, k) < n)
    OBVIOUS
<1>2. n <= Cardinality(P) - 1 /\ Cardinality(P) \in Nat
    BY <1>1, BeforeType
<1> DEFINE f == [i \in T |-> Before(P, i)]
           N == 0..(n - 1)
<1>3. \A i \in T : Before(P, i) \in N
    BY BeforeType
<1>4. f \in Injection(T, N)
    BY <1>3, BeforeOnto DEF Injection, IsInjective
<1>5. ASSUME NEW m \in N PROVE \E i \in T : f[i] = m
  <2>1. m \in 0..(Cardinality(P) - 1) /\ m < n
      BY <1>2
  <2>2. PICK i \in P : Before(P, i) = m
      BY <2>1, BeforeOnto
  <2> QED
      BY <2>1, <2>2
<1>6. f \in Surjection(T, N)
    BY <1>4, <1>5 DEF Surjection, Injection
<1>7. IsFiniteSet(N) /\ Cardinality(N) = n
    BY FS_Interval
<1> QED
    BY <1>4, <1>6, <1>7, FS_Injection

(* A set of naturals has a least member: induction, for the proofs, is the *)
(* search for the least counterexample.                                    *)
LEMMA Least ==
  ASSUME NEW S \in SUBSET Nat, S # {}
  PROVE  \E n \in S : \A m \in S : n <= m
<1> DEFINE T == {1..n : n \in S}
<1>1. T \subseteq FiniteSubsetsOf(Nat) /\ T # {}
  <2>1. \A n \in S : 1..n \in SUBSET Nat /\ IsFiniteSet(1..n)
      BY FS_Interval
  <2> QED
      BY <2>1 DEF FiniteSubsetsOf
<1>2. PICK x \in T : \A y \in T : ~(<<y, x>> \in StrictSubsetOrdering(Nat))
  <2> HIDE DEF T
  <2> QED
      BY <1>1, WFMin, FS_StrictSubsetOrderingWellFounded
<1>3. PICK n \in S : x = 1..n
    OBVIOUS
<1>4. ASSUME NEW m \in S, m < n PROVE FALSE
  <2>1. 1..m \in SUBSET Nat /\ 1..n \in SUBSET Nat /\ 1..m \subseteq 1..n
      BY <1>4
  <2>2. 1..m # 1..n
    <3>1. n \in 1..n /\ n \notin 1..m
        BY <1>4
    <3> QED
        BY <3>1
  <2>3. <<1..m, 1..n>> \in StrictSubsetOrdering(Nat)
      BY <2>1, <2>2, Zenon DEF StrictSubsetOrdering
  <2> QED
      BY <1>2, <1>3, <2>3, Zenon
<1> QED
    BY <1>4

=============================================================================
