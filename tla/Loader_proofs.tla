----------------------------- MODULE Loader_proofs -----------------------------
(***************************************************************************)
(* Proofs about Loader for any finite set of threads, any DLLs and any     *)
(* import lists, for drivers that keep loads apart from unloads.           *)
(*                                                                         *)
(* The heart of the invariant is that whatever is referenced is listed,    *)
(* and that the load count is the size of three sets of references: a      *)
(* module that reaches zero is then in none of them.  An import that was   *)
(* only found, not yet referenced, is safe because no frame of any thread  *)
(* releases anything meanwhile.  LdkTerminate ignores the counts; there it *)
(* is the order of registration that saves the imports.                    *)
(***************************************************************************)
EXTENDS Loader, Subsequences_proofs

-----------------------------------------------------------------------------
(* The inductive invariant.                                                *)

Gone == {"leaving", "freed"}
HasInst == {"tls", "attach", "failing"}

(* What a frame works with: what it holds, and an import it has found.     *)
Uses(f) == Holds(f) \cup {i \in Inst : i = f.found /\ f.pc = "dep"}

(* The fields that a label needs are there.                                *)
Pointed(f) ==
  /\ f.pc = "dep" => f.found \in Inst
  /\ f.pc \in HasInst \cup UnloadAt => f.inst \in Inst

(* The fields that a label does not need are empty.                        *)
Empty(f) ==
  /\ f.pc \notin HasInst \cup UnloadAt => f.inst = None
  /\ f.pc \in HasInst \cup {"ref"} => f.deps = <<>>
  /\ f.pc \in LoadAt \cup UnloadAt \cup {"term"} => f.rest = {}
  /\ f.pc \notin LoadAt => f.deps = <<>>

(* A load has its own module, or dependencies on imports it has passed;    *)
(* an import that is loaded, and not only found, is not among them.        *)
Passed(f) == {Imports[f.dll][n].dll : n \in {k \in DOMAIN Imports[f.dll] : k < f.imp}}
LoadOK(m, f) ==
  /\ f.pc \in HasInst => m[f.inst].dll = f.dll
  /\ f.pc \in {"call", "dep"} => f.imp \in DOMAIN Imports[f.dll]
  /\ f.pc = "dep" => m[f.found].dll = NextImport(f).dll
  /\ Distinct(f.deps)
  /\ \A i \in ToSet(f.deps) : m[i].dll \in Passed(f)
  /\ f.pc = "call" \/ (f.pc = "dep" /\ ~f.inc) =>
       \A i \in ToSet(f.deps) : m[i].dll # NextImport(f).dll

Sound(m, f) ==
  /\ Pointed(f) /\ Empty(f)
  /\ f.pc \in LoadAt => LoadOK(m, f)
  /\ \A i \in Uses(f) : m[i].st = "registered"
  /\ f.pc \in {"detach", "deps"} => m[f.inst].st \in Gone

FramesSound == \A t \in LThread : \A n \in DOMAIN stack[t] : Sound(mod, stack[t][n])

(* A frame waits for the one above it, which is a load or an unload; a     *)
(* load waits for the load of its next import.                             *)
Waits(f, g) ==
  /\ f.pc \in {"call", "abort", "deps", "release", "term"}
  /\ g.pc \in LoadAt \cup UnloadAt
  /\ g.pc \in LoadAt => f.pc = "call" /\ g.dll = NextImport(f).dll

StacksOK ==
  /\ \A t \in LThread : \A n \in DOMAIN stack[t] :
       n + 1 \in DOMAIN stack[t] => Waits(stack[t][n], stack[t][n + 1])
  /\ \A t \in LThread : \A n \in DOMAIN stack[t] :
       stack[t][n].pc \in LoadAt => stack[t][1].pc \in LoadAt
  /\ \A t \in LThread : \A n \in DOMAIN stack[t] :
       stack[t][n].pc = "term" => n = 1 /\ ended

(* Loads run with loads only, and one that fails or unloads runs alone;    *)
(* LdkTerminate runs alone.                                                *)
Serial ==
  /\ \A t, u \in LThread : t # u /\ Loading(t) /\ ~Idle(u) => Loading(u) /\ ~Failing(t)
  /\ ended => \A t \in LThread : ~Idle(t) =>
       stack[t][1].pc = "term" /\ \A u \in LThread : u # t => Idle(u)

(* What a module imports is older and listed; a module that is not listed  *)
(* has imports only while some thread is unregistering it.                 *)
Unregistering(j) ==
  \E t \in LThread : \E n \in DOMAIN stack[t] :
    stack[t][n].pc \in {"detach", "deps"} /\ stack[t][n].inst = j
ModsOK ==
  /\ \A i \in Inst : i > made => mod[i].st = "none" /\ held[i] = 0 /\ mod[i].deps = <<>>
  /\ \A j \in Inst : Distinct(mod[j].deps)
  /\ \A j \in Inst : \A i \in ToSet(mod[j].deps) : i < j /\ Listed(i)
  /\ \A j \in Inst : mod[j].deps # <<>> => Listed(j) \/ Unregistering(j)

(* What callers own is listed, until LdkTerminate takes it from them.      *)
HeldOK == \A i \in Inst : held[i] > 0 /\ ~ended => Listed(i)

LoaderInv ==
  /\ LTypeOK /\ FramesSound /\ StacksOK /\ Serial
  /\ ModsOK /\ HeldOK /\ LoadCountExact

-----------------------------------------------------------------------------
(* Least and greatest instances, sequences without their last member.      *)

LEMMA MinIs ==
  ASSUME NEW S \in SUBSET Inst, S # {}
  PROVE  Min(S) \in S
<1>1. S \in SUBSET Nat
    BY LoaderAssumption DEF Inst
<1>2. \E n \in S : \A m \in S : n <= m
    BY <1>1, Least
<1> QED
    BY <1>2 DEF Min

LEMMA MaxIs ==
  ASSUME NEW S \in SUBSET Inst, S # {}
  PROVE  Max(S) \in S /\ \A i \in S : i <= Max(S)
<1> DEFINE T == {MaxInst - i : i \in S}
<1>1. \A i \in S : i \in Int /\ MaxInst - i \in Nat
    BY LoaderAssumption DEF Inst
<1>2. T \in SUBSET Nat /\ T # {}
    BY <1>1
<1>3. PICK n \in T : \A m \in T : n <= m
    BY <1>2, Least
<1>4. PICK i \in S : n = MaxInst - i
    OBVIOUS
<1>5. \A j \in S : MaxInst - i <= MaxInst - j
    BY <1>3, <1>4
<1>6. \A j \in S : j <= i
    BY <1>1, <1>5, LoaderAssumption
<1> QED
    BY <1>1, <1>6 DEF Max

LEMMA FrontMembers ==
  ASSUME NEW A, NEW s \in Seq(A), s # <<>>, Distinct(s)
  PROVE  /\ Front(s) \in Seq(A) /\ Distinct(Front(s)) /\ Last(s) \in A
         /\ ToSet(s) = ToSet(Front(s)) \cup {Last(s)}
         /\ Last(s) \notin ToSet(Front(s))
<1>1. /\ Len(s) \in Nat \ {0} /\ DOMAIN s = 1..Len(s)
      /\ Front(s) \in Seq(A) /\ Last(s) = s[Len(s)]
      /\ DOMAIN Front(s) = 1..(Len(s) - 1)
      /\ \A n \in 1..(Len(s) - 1) : Front(s)[n] = s[n]
    BY DEF Front, Last
<1>2. \A n \in DOMAIN s : n \in DOMAIN Front(s) \/ n = Len(s)
    BY <1>1
<1>3. \A n \in DOMAIN Front(s) : n \in DOMAIN s /\ n # Len(s)
    BY <1>1
<1>4. Len(s) \in DOMAIN s
    BY <1>1
<1>5. Distinct(Front(s)) /\ Last(s) \in A
    BY <1>1, <1>3, <1>4 DEF Distinct
<1>6. ToSet(s) = ToSet(Front(s)) \cup {Last(s)}
    BY <1>1, <1>2, <1>3, <1>4 DEF ToSet
<1>7. Last(s) \notin ToSet(Front(s))
    BY <1>1, <1>3, <1>4 DEF ToSet, Distinct
<1> QED
    BY <1>1, <1>5, <1>6, <1>7

LEMMA NoMembers ==
  ASSUME NEW A, NEW s \in Seq(A)
  PROVE  /\ ToSet(<<>>) = {} /\ Distinct(<<>>)
         /\ ToSet(s) \in SUBSET A
         /\ ToSet(s) = {} => s = <<>>
<1>1. ToSet(<<>>) = {} /\ Distinct(<<>>)
    BY DEF ToSet, Distinct
<1>2. \A n \in DOMAIN s : s[n] \in A
    OBVIOUS
<1>3. ToSet(s) \in SUBSET A
    BY <1>2 DEF ToSet
<1>4. ASSUME s # <<>> PROVE ToSet(s) # {}
  <2>1. 1 \in DOMAIN s
      BY <1>4
  <2> QED
      BY <2>1 DEF ToSet
<1> QED
    BY <1>1, <1>3, <1>4

LEMMA MoreMembers ==
  ASSUME NEW A, NEW s \in Seq(A), NEW x \in A
  PROVE  /\ Append(s, x) \in Seq(A) /\ ToSet(Append(s, x)) = ToSet(s) \cup {x}
         /\ Distinct(s) /\ x \notin ToSet(s) => Distinct(Append(s, x))
<1>1. \A r : ToSet(r) = Members(r)
    BY DEF ToSet, Members
<1> QED
    BY <1>1, AppendMembers

-----------------------------------------------------------------------------
(* Stacks.                                                                 *)

StackType == [LThread -> Seq(FrameType)]

(* Thread t keeps its first k frames and goes on with fs.                  *)
Went(t, k, fs) ==
  /\ stack' \in StackType
  /\ \A u \in LThread : u # t => stack'[u] = stack[u]
  /\ DOMAIN stack'[t] = 1..(k + Len(fs)) /\ Len(stack'[t]) = k + Len(fs)
  /\ \A n \in 1..k : stack'[t][n] = stack[t][n] /\ n \in DOMAIN stack[t]
  /\ \A n \in DOMAIN fs : stack'[t][k + n] = fs[n]

LEMMA ContinuesWent ==
  ASSUME stack \in StackType, NEW t \in LThread, NEW k \in 0..Len(stack[t]),
         NEW fs \in Seq(FrameType), Continues(t, k, fs)
  PROVE  Went(t, k, fs)
<1> DEFINE s == stack[t]
           r == SubSeq(s, 1, k) \o fs
<1>1. s \in Seq(FrameType) /\ Len(s) \in Nat /\ DOMAIN s = 1..Len(s) /\ k \in 0..Len(s)
    BY DEF StackType
<1>2. stack' = [stack EXCEPT ![t] = r]
    BY DEF Continues
<1> HIDE DEF s
<1>3. /\ r \in Seq(FrameType) /\ DOMAIN r = 1..(k + Len(fs)) /\ Len(r) = k + Len(fs)
      /\ \A n \in 1..k : r[n] = s[n] /\ n \in DOMAIN s
      /\ \A n \in DOMAIN fs : r[k + n] = fs[n]
    BY <1>1
<1> HIDE DEF r
<1>4. stack' \in StackType /\ stack'[t] = r /\ \A u \in LThread : u # t => stack'[u] = stack[u]
    BY <1>2, <1>3 DEF StackType
<1> QED
    BY <1>3, <1>4 DEF Went, s

LEMMA StackFacts ==
  ASSUME stack \in StackType, NEW t \in LThread
  PROVE  /\ stack[t] \in Seq(FrameType) /\ Len(stack[t]) \in Nat
         /\ DOMAIN stack[t] = 1..Len(stack[t])
         /\ Idle(t) <=> Len(stack[t]) = 0
         /\ ~Idle(t) => /\ Len(stack[t]) \in DOMAIN stack[t] /\ Len(stack[t]) >= 1
                        /\ 1 \in DOMAIN stack[t] /\ Top(t) \in FrameType
                        /\ Len(stack[t]) - 1 \in 0..Len(stack[t])
         /\ Len(stack[t]) > 1 => /\ Len(stack[t]) - 1 \in DOMAIN stack[t]
                                 /\ Len(stack[t]) - 2 \in 0..Len(stack[t])
                                 /\ Caller(t) \in FrameType
BY DEF StackType, Idle, Top, Caller

-----------------------------------------------------------------------------
(* The frames that hold a reference, counted.                              *)

LEMMA FramesOf ==
  ASSUME NEW s, NEW x
  PROVE  x \in Frames(s) <=> \E t \in LThread : \E n \in DOMAIN s[t] : x = <<t, n>>
<1>1. ASSUME x \in Frames(s) PROVE \E t \in LThread : \E n \in DOMAIN s[t] : x = <<t, n>>
  <2>1. PICK T \in {{<<t, n>> : n \in DOMAIN s[t]} : t \in LThread} : x \in T
      BY <1>1 DEF Frames
  <2>2. PICK t \in LThread : T = {<<t, n>> : n \in DOMAIN s[t]}
      BY <2>1
  <2> QED
      BY <2>1, <2>2
<1>2. ASSUME NEW t \in LThread, NEW n \in DOMAIN s[t], x = <<t, n>> PROVE x \in Frames(s)
  <2> DEFINE T == {<<t, k>> : k \in DOMAIN s[t]}
  <2>1. x \in T
      BY <1>2
  <2>2. T \in {{<<u, k>> : k \in DOMAIN s[u]} : u \in LThread}
      OBVIOUS
  <2> QED
      BY <2>1, <2>2 DEF Frames
<1> QED
    BY <1>1, <1>2

LEMMA FramesFinite ==
  ASSUME NEW s \in StackType
  PROVE  IsFiniteSet(Frames(s))
<1> DEFINE Of(t) == {<<t, n>> : n \in DOMAIN s[t]}
           S == {Of(t) : t \in LThread}
           f == [t \in LThread |-> Of(t)]
<1>1. ASSUME NEW t \in LThread PROVE IsFiniteSet(Of(t))
  <2> DEFINE g == [n \in 1..Len(s[t]) |-> <<t, n>>]
  <2>1. s[t] \in Seq(FrameType) /\ Len(s[t]) \in Nat /\ DOMAIN s[t] = 1..Len(s[t])
      BY DEF StackType
  <2>2. g \in Surjection(1..Len(s[t]), Of(t))
      BY <2>1 DEF Surjection
  <2>3. IsFiniteSet(1..Len(s[t]))
      BY <2>1, FS_Interval
  <2> QED
      BY <2>2, <2>3, FS_Surjection
<1>2. f \in Surjection(LThread, S)
    BY DEF Surjection
<1>3. IsFiniteSet(S)
    BY <1>2, FS_Surjection, LoaderAssumption
<1>4. \A T \in S : IsFiniteSet(T)
    BY <1>1
<1>5. Frames(s) = UNION S
    BY DEF Frames
<1> QED
    BY <1>3, <1>4, <1>5, FS_UNION

OwnAt(s, t, n, i) == IF n \in DOMAIN s[t] /\ i \in Holds(s[t][n]) THEN 1 ELSE 0
Below(s, t, k, i) == {x \in Holders(s, i) : x[1] # t \/ x[2] <= k}

LEMMA AddedOrNot ==
  ASSUME NEW S, NEW T, NEW x, IsFiniteSet(S), x \notin S, NEW b \in BOOLEAN,
         T = IF b THEN S \cup {x} ELSE S
  PROVE  IsFiniteSet(T) /\ Cardinality(T) = Cardinality(S) + IF b THEN 1 ELSE 0
<1>1. Cardinality(S) \in Nat
    BY FS_CardinalityType
<1>2. CASE b
    BY <1>1, <1>2, FS_AddElement
<1>3. CASE ~b
    BY <1>1, <1>3
<1> QED
    BY <1>2, <1>3

LEMMA HoldersFinite ==
  ASSUME NEW s \in StackType, NEW i
  PROVE  IsFiniteSet(Holders(s, i)) /\ Cardinality(Holders(s, i)) \in Nat
<1>1. Holders(s, i) \in SUBSET Frames(s)
    BY DEF Holders
<1> QED
    BY <1>1, FramesFinite, FS_Subset, FS_CardinalityType

LEMMA HoldersOf ==
  ASSUME NEW s, NEW i, NEW t \in LThread, NEW n
  PROVE  <<t, n>> \in Holders(s, i) <=> n \in DOMAIN s[t] /\ i \in Holds(s[t][n])
<1>1. <<t, n>> \in Frames(s) <=> n \in DOMAIN s[t]
    BY FramesOf
<1> QED
    BY <1>1 DEF Holders

LEMMA HoldersSplit ==
  ASSUME NEW s \in StackType, NEW t \in LThread, NEW k \in Nat, NEW i,
         Len(s[t]) <= k + 2
  PROVE  /\ Cardinality(Below(s, t, k, i)) \in Nat
         /\ Cardinality(Holders(s, i))
              = Cardinality(Below(s, t, k, i)) + OwnAt(s, t, k + 1, i) + OwnAt(s, t, k + 2, i)
<1> DEFINE H == Holders(s, i)
           B == Below(s, t, k, i)
           a == <<t, k + 1>> \in H
           b == <<t, k + 2>> \in H
           C == IF a THEN B \cup {<<t, k + 1>>} ELSE B
           D == IF b THEN C \cup {<<t, k + 2>>} ELSE C
<1>1. B \in SUBSET H /\ IsFiniteSet(B) /\ Cardinality(B) \in Nat
  <2>1. B \in SUBSET H
      BY DEF Below
  <2> QED
      BY <2>1, HoldersFinite, FS_Subset, FS_CardinalityType
<1>2. <<t, k + 1>> \notin B /\ <<t, k + 2>> \notin C
    BY DEF Below
<1>3. \A n \in DOMAIN s[t] : n \in Nat /\ (n <= k \/ n = k + 1 \/ n = k + 2)
    BY DEF StackType
<1>4. ASSUME NEW x \in H PROVE x \in B \/ x = <<t, k + 1>> \/ x = <<t, k + 2>>
  <2>0. PICK u \in LThread : \E n \in DOMAIN s[u] : x = <<u, n>>
      BY <1>4, FramesOf DEF Holders
  <2>1. PICK n \in DOMAIN s[u] : x = <<u, n>>
      BY <2>0
  <2>2. CASE u # t
      BY <1>4, <2>1, <2>2 DEF Below
  <2>3. CASE u = t
    <3>1. n <= k => x \in B
        BY <1>4, <2>1, <2>3 DEF Below
    <3> QED
        BY <1>3, <2>1, <2>3, <3>1
  <2> QED
      BY <2>2, <2>3
<1>5. H = D
  <2>1. H \subseteq D
      BY <1>4
  <2>2. D \subseteq H
      BY <1>1
  <2> QED
      BY <2>1, <2>2
<1>6. OwnAt(s, t, k + 1, i) = (IF a THEN 1 ELSE 0) /\ OwnAt(s, t, k + 2, i) = (IF b THEN 1 ELSE 0)
    BY HoldersOf DEF OwnAt
<1>7. a \in BOOLEAN /\ b \in BOOLEAN
    OBVIOUS
<1> HIDE DEF H, B, a, b
<1>8. IsFiniteSet(C) /\ Cardinality(C) = Cardinality(B) + IF a THEN 1 ELSE 0
    BY <1>1, <1>2, <1>7, AddedOrNot
<1>9. Cardinality(D) = Cardinality(C) + IF b THEN 1 ELSE 0
  <2> HIDE DEF C
  <2> QED
      BY <1>2, <1>7, <1>8, AddedOrNot
<1>10. Cardinality(H) = Cardinality(B) + OwnAt(s, t, k + 1, i) + OwnAt(s, t, k + 2, i)
    BY <1>1, <1>5, <1>6, <1>8, <1>9
<1> QED
    BY <1>1, <1>10 DEF H, B

LEMMA BelowSame ==
  ASSUME stack \in StackType, NEW t \in LThread, NEW k \in 0..Len(stack[t]),
         NEW fs \in Seq(FrameType), Went(t, k, fs), NEW i
  PROVE  Below(stack', t, k, i) = Below(stack, t, k, i)
<1>1. \A n \in 1..k : n \in DOMAIN stack[t] /\ n \in DOMAIN stack'[t] /\ stack'[t][n] = stack[t][n]
    BY DEF Went
<1>2. \A n : n \in DOMAIN stack[t] \/ n \in DOMAIN stack'[t] => n \in Nat /\ n >= 1
    BY DEF StackType, Went
<1>3. ASSUME NEW u \in LThread, NEW n
      PROVE  <<u, n>> \in Below(stack', t, k, i) <=> <<u, n>> \in Below(stack, t, k, i)
  <2>1. CASE u # t
    <3>1. stack'[u] = stack[u]
        BY <2>1 DEF Went
    <3> QED
        BY <3>1, HoldersOf DEF Below
  <2>2. CASE u = t
    <3>1. ASSUME n \in DOMAIN stack[t] \/ n \in DOMAIN stack'[t], n <= k PROVE n \in 1..k
        BY <1>2, <3>1
    <3> QED
        BY <1>1, <2>2, <3>1, HoldersOf DEF Below
  <2> QED
      BY <2>1, <2>2
<1>4. \A s, x : x \in Below(s, t, k, i) => \E u \in LThread : \E n \in DOMAIN s[u] : x = <<u, n>>
    BY FramesOf DEF Below, Holders
<1>5. ASSUME NEW x \in Below(stack', t, k, i) PROVE x \in Below(stack, t, k, i)
  <2>1. PICK u \in LThread : \E n \in DOMAIN stack'[u] : x = <<u, n>>
      BY <1>4
  <2> QED
      BY <1>3, <2>1
<1>6. ASSUME NEW x \in Below(stack, t, k, i) PROVE x \in Below(stack', t, k, i)
  <2>1. PICK u \in LThread : \E n \in DOMAIN stack[u] : x = <<u, n>>
      BY <1>4
  <2> QED
      BY <1>3, <2>1
<1> QED
    BY <1>5, <1>6

Own(f, i) == IF i \in Holds(f) THEN 1 ELSE 0

LEMMA HoldersStep ==
  ASSUME stack \in StackType, NEW t \in LThread, NEW k \in 0..Len(stack[t]),
         NEW fs \in Seq(FrameType), Went(t, k, fs), NEW i,
         Len(stack[t]) <= k + 2, Len(fs) <= 2
  PROVE  /\ Cardinality(Holders(stack, i)) \in Nat /\ Cardinality(Holders(stack', i)) \in Nat
         /\ Cardinality(Holders(stack', i)) + OwnAt(stack, t, k + 1, i) + OwnAt(stack, t, k + 2, i)
            = Cardinality(Holders(stack, i)) + OwnAt(stack', t, k + 1, i) + OwnAt(stack', t, k + 2, i)
<1> DEFINE C == Cardinality(Below(stack, t, k, i))
<1>1. k \in Nat /\ stack' \in StackType /\ Len(stack'[t]) <= k + 2
    BY StackFacts DEF Went
<1>2. /\ C \in Nat
      /\ Cardinality(Holders(stack, i)) = C + OwnAt(stack, t, k + 1, i) + OwnAt(stack, t, k + 2, i)
    BY <1>1, HoldersSplit
<1>3. Cardinality(Holders(stack', i)) = C + OwnAt(stack', t, k + 1, i) + OwnAt(stack', t, k + 2, i)
    BY <1>1, HoldersSplit, BelowSame
<1>4. /\ OwnAt(stack, t, k + 1, i) \in Nat /\ OwnAt(stack, t, k + 2, i) \in Nat
      /\ OwnAt(stack', t, k + 1, i) \in Nat /\ OwnAt(stack', t, k + 2, i) \in Nat
    BY DEF OwnAt
<1> HIDE DEF C
<1>5. Cardinality(Holders(stack, i)) \in Nat /\ Cardinality(Holders(stack', i)) \in Nat
    BY <1>1, HoldersFinite
<1> DEFINE h == Cardinality(Holders(stack, i))
           g == Cardinality(Holders(stack', i))
           a1 == OwnAt(stack, t, k + 1, i)
           a2 == OwnAt(stack, t, k + 2, i)
           b1 == OwnAt(stack', t, k + 1, i)
           b2 == OwnAt(stack', t, k + 2, i)
<1>6. /\ h \in Nat /\ g \in Nat /\ C \in Nat
      /\ a1 \in Nat /\ a2 \in Nat /\ b1 \in Nat /\ b2 \in Nat
      /\ h = C + a1 + a2 /\ g = C + b1 + b2
    BY <1>2, <1>3, <1>4, <1>5, Zenon
<1> HIDE DEF h, g, a1, a2, b1, b2
<1>7. g + a1 + a2 = h + b1 + b2
    BY <1>6
<1> QED
    BY <1>5, <1>7 DEF h, g, a1, a2, b1, b2

(* The five ways a thread goes on.                                         *)
LEMMA StartCount ==
  ASSUME stack \in StackType, NEW t \in LThread, Idle(t), NEW f \in FrameType, Starts(t, f)
  PROVE  /\ Went(t, 0, <<f>>)
         /\ \A i : /\ Cardinality(Holders(stack, i)) \in Nat
                   /\ Cardinality(Holders(stack', i)) = Cardinality(Holders(stack, i)) + Own(f, i)
<1> DEFINE k == 0
<1>1. /\ Len(stack[t]) = 0 /\ DOMAIN stack[t] = {} /\ k \in Nat
      /\ k \in 0..Len(stack[t]) /\ Len(stack[t]) <= k + 2
    BY StackFacts
<1>2. <<f>> \in Seq(FrameType) /\ Len(<<f>>) = 1 /\ Len(<<f>>) <= 2 /\ DOMAIN <<f>> = {1}
    OBVIOUS
<1>3. Went(t, k, <<f>>)
    BY <1>1, <1>2, ContinuesWent DEF Starts
<1> HIDE DEF k
<1>4. DOMAIN stack'[t] = 1..(k + 1) /\ stack'[t][k + 1] = f
    BY <1>2, <1>3 DEF Went
<1>5. ASSUME NEW i
      PROVE  /\ Cardinality(Holders(stack, i)) \in Nat
             /\ Cardinality(Holders(stack', i)) = Cardinality(Holders(stack, i)) + Own(f, i)
  <2>1. /\ Cardinality(Holders(stack, i)) \in Nat /\ Cardinality(Holders(stack', i)) \in Nat
        /\ Cardinality(Holders(stack', i)) + OwnAt(stack, t, k + 1, i) + OwnAt(stack, t, k + 2, i)
           = Cardinality(Holders(stack, i)) + OwnAt(stack', t, k + 1, i) + OwnAt(stack', t, k + 2, i)
      BY <1>1, <1>2, <1>3, HoldersStep
  <2>2. OwnAt(stack, t, k + 1, i) = 0 /\ OwnAt(stack, t, k + 2, i) = 0
      BY <1>1 DEF OwnAt
  <2>3. OwnAt(stack', t, k + 1, i) = Own(f, i) /\ OwnAt(stack', t, k + 2, i) = 0
      BY <1>1, <1>4 DEF OwnAt, Own
  <2>4. Own(f, i) \in Nat
      BY DEF Own
  <2> QED
      BY <2>1, <2>2, <2>3, <2>4
<1> QED
    BY <1>3, <1>5 DEF k

LEMMA JumpCount ==
  ASSUME stack \in StackType, NEW t \in LThread, ~Idle(t), NEW f \in FrameType, Jump(t, f)
  PROVE  /\ Went(t, Len(stack[t]) - 1, <<f>>)
         /\ \A i : /\ Cardinality(Holders(stack, i)) \in Nat /\ Cardinality(Holders(stack', i)) \in Nat
                   /\ Cardinality(Holders(stack', i)) + Own(Top(t), i)
                        = Cardinality(Holders(stack, i)) + Own(f, i)
<1> DEFINE k == Len(stack[t]) - 1
<1>1. /\ k \in Nat /\ k \in 0..Len(stack[t]) /\ Len(stack[t]) = k + 1 /\ Len(stack[t]) <= k + 2
      /\ DOMAIN stack[t] = 1..(k + 1) /\ stack[t][k + 1] = Top(t)
    BY StackFacts DEF Top
<1>2. <<f>> \in Seq(FrameType) /\ Len(<<f>>) = 1 /\ Len(<<f>>) <= 2 /\ DOMAIN <<f>> = {1} /\ <<f>>[1] = f
    OBVIOUS
<1>3. Went(t, k, <<f>>)
    BY <1>1, <1>2, ContinuesWent DEF Jump
<1> HIDE DEF k
<1>4. DOMAIN stack'[t] = 1..(k + 1) /\ stack'[t][k + 1] = f
    BY <1>2, <1>3 DEF Went
<1>5. ASSUME NEW i
      PROVE  /\ Cardinality(Holders(stack, i)) \in Nat /\ Cardinality(Holders(stack', i)) \in Nat
             /\ Cardinality(Holders(stack', i)) + Own(Top(t), i)
                  = Cardinality(Holders(stack, i)) + Own(f, i)
  <2>1. /\ Cardinality(Holders(stack, i)) \in Nat /\ Cardinality(Holders(stack', i)) \in Nat
        /\ Cardinality(Holders(stack', i)) + OwnAt(stack, t, k + 1, i) + OwnAt(stack, t, k + 2, i)
           = Cardinality(Holders(stack, i)) + OwnAt(stack', t, k + 1, i) + OwnAt(stack', t, k + 2, i)
      BY <1>1, <1>2, <1>3, HoldersStep
  <2>2. OwnAt(stack, t, k + 1, i) = Own(Top(t), i) /\ OwnAt(stack, t, k + 2, i) = 0
      BY <1>1 DEF OwnAt, Own
  <2>3. OwnAt(stack', t, k + 1, i) = Own(f, i) /\ OwnAt(stack', t, k + 2, i) = 0
      BY <1>1, <1>4 DEF OwnAt, Own
  <2>4. \A g : Own(g, i) \in Nat
      BY DEF Own
  <2> QED
      BY <2>1, <2>2, <2>3, <2>4
<1> QED
    BY <1>3, <1>5 DEF k

LEMMA CallCount ==
  ASSUME stack \in StackType, NEW t \in LThread, ~Idle(t),
         NEW f \in FrameType, NEW g \in FrameType, Call(t, f, g)
  PROVE  /\ Went(t, Len(stack[t]) - 1, <<f, g>>)
         /\ \A i : /\ Cardinality(Holders(stack, i)) \in Nat /\ Cardinality(Holders(stack', i)) \in Nat
                   /\ Cardinality(Holders(stack', i)) + Own(Top(t), i)
                        = Cardinality(Holders(stack, i)) + Own(f, i) + Own(g, i)
<1> DEFINE k == Len(stack[t]) - 1
<1>1. /\ k \in Nat /\ k \in 0..Len(stack[t]) /\ Len(stack[t]) = k + 1 /\ Len(stack[t]) <= k + 2
      /\ DOMAIN stack[t] = 1..(k + 1) /\ stack[t][k + 1] = Top(t)
    BY StackFacts DEF Top
<1>2. /\ <<f, g>> \in Seq(FrameType) /\ Len(<<f, g>>) = 2 /\ Len(<<f, g>>) <= 2 /\ DOMAIN <<f, g>> = {1, 2}
      /\ <<f, g>>[1] = f /\ <<f, g>>[2] = g
    OBVIOUS
<1>3. Went(t, k, <<f, g>>)
    BY <1>1, <1>2, ContinuesWent DEF Call
<1> HIDE DEF k
<1>4. DOMAIN stack'[t] = 1..(k + 2) /\ stack'[t][k + 1] = f /\ stack'[t][k + 2] = g
    BY <1>2, <1>3 DEF Went
<1>5. ASSUME NEW i
      PROVE  /\ Cardinality(Holders(stack, i)) \in Nat /\ Cardinality(Holders(stack', i)) \in Nat
             /\ Cardinality(Holders(stack', i)) + Own(Top(t), i)
                  = Cardinality(Holders(stack, i)) + Own(f, i) + Own(g, i)
  <2>1. /\ Cardinality(Holders(stack, i)) \in Nat /\ Cardinality(Holders(stack', i)) \in Nat
        /\ Cardinality(Holders(stack', i)) + OwnAt(stack, t, k + 1, i) + OwnAt(stack, t, k + 2, i)
           = Cardinality(Holders(stack, i)) + OwnAt(stack', t, k + 1, i) + OwnAt(stack', t, k + 2, i)
      BY <1>1, <1>2, <1>3, HoldersStep
  <2>2. OwnAt(stack, t, k + 1, i) = Own(Top(t), i) /\ OwnAt(stack, t, k + 2, i) = 0
      BY <1>1 DEF OwnAt, Own
  <2>3. OwnAt(stack', t, k + 1, i) = Own(f, i) /\ OwnAt(stack', t, k + 2, i) = Own(g, i)
      BY <1>1, <1>4 DEF OwnAt, Own
  <2>4. \A h : Own(h, i) \in Nat
      BY DEF Own
  <2> QED
      BY <2>1, <2>2, <2>3, <2>4
<1> QED
    BY <1>3, <1>5 DEF k

LEMMA PopCount ==
  ASSUME stack \in StackType, NEW t \in LThread, ~Idle(t), Pop(t)
  PROVE  /\ Went(t, Len(stack[t]) - 1, <<>>)
         /\ \A i : /\ Cardinality(Holders(stack, i)) \in Nat /\ Cardinality(Holders(stack', i)) \in Nat
                   /\ Cardinality(Holders(stack', i)) + Own(Top(t), i) = Cardinality(Holders(stack, i))
<1> DEFINE k == Len(stack[t]) - 1
<1>1. /\ k \in Nat /\ k \in 0..Len(stack[t]) /\ Len(stack[t]) = k + 1 /\ Len(stack[t]) <= k + 2
      /\ DOMAIN stack[t] = 1..(k + 1) /\ stack[t][k + 1] = Top(t)
    BY StackFacts DEF Top
<1>2. <<>> \in Seq(FrameType) /\ Len(<<>>) = 0 /\ Len(<<>>) <= 2
    OBVIOUS
<1>3. Went(t, k, <<>>)
    BY <1>1, <1>2, ContinuesWent DEF Pop
<1> HIDE DEF k
<1>4. DOMAIN stack'[t] = 1..k
    BY <1>1, <1>2, <1>3 DEF Went
<1>5. ASSUME NEW i
      PROVE  /\ Cardinality(Holders(stack, i)) \in Nat /\ Cardinality(Holders(stack', i)) \in Nat
             /\ Cardinality(Holders(stack', i)) + Own(Top(t), i) = Cardinality(Holders(stack, i))
  <2>1. /\ Cardinality(Holders(stack, i)) \in Nat /\ Cardinality(Holders(stack', i)) \in Nat
        /\ Cardinality(Holders(stack', i)) + OwnAt(stack, t, k + 1, i) + OwnAt(stack, t, k + 2, i)
           = Cardinality(Holders(stack, i)) + OwnAt(stack', t, k + 1, i) + OwnAt(stack', t, k + 2, i)
      BY <1>1, <1>2, <1>3, HoldersStep
  <2>2. OwnAt(stack, t, k + 1, i) = Own(Top(t), i) /\ OwnAt(stack, t, k + 2, i) = 0
      BY <1>1 DEF OwnAt, Own
  <2>3. OwnAt(stack', t, k + 1, i) = 0 /\ OwnAt(stack', t, k + 2, i) = 0
      BY <1>1, <1>4 DEF OwnAt
  <2>4. \A h : Own(h, i) \in Nat
      BY DEF Own
  <2> QED
      BY <2>1, <2>2, <2>3, <2>4
<1> QED
    BY <1>3, <1>5 DEF k

LEMMA ReturnCount ==
  ASSUME stack \in StackType, NEW t \in LThread, Len(stack[t]) > 1, NEW f \in FrameType,
         Continues(t, Len(stack[t]) - 2, <<f>>)
  PROVE  /\ Went(t, Len(stack[t]) - 2, <<f>>)
         /\ \A i : /\ Cardinality(Holders(stack, i)) \in Nat /\ Cardinality(Holders(stack', i)) \in Nat
                   /\ Cardinality(Holders(stack', i)) + Own(Top(t), i) + Own(Caller(t), i)
                        = Cardinality(Holders(stack, i)) + Own(f, i)
<1> DEFINE k == Len(stack[t]) - 2
<1>1. /\ k \in Nat /\ k \in 0..Len(stack[t]) /\ Len(stack[t]) = k + 2 /\ Len(stack[t]) <= k + 2
      /\ DOMAIN stack[t] = 1..(k + 2)
      /\ stack[t][k + 1] = Caller(t) /\ stack[t][k + 2] = Top(t)
    BY StackFacts DEF Top, Caller
<1>2. <<f>> \in Seq(FrameType) /\ Len(<<f>>) = 1 /\ Len(<<f>>) <= 2 /\ DOMAIN <<f>> = {1} /\ <<f>>[1] = f
    OBVIOUS
<1>3. Went(t, k, <<f>>)
    BY <1>1, <1>2, ContinuesWent
<1> HIDE DEF k
<1>4. DOMAIN stack'[t] = 1..(k + 1) /\ stack'[t][k + 1] = f
    BY <1>2, <1>3 DEF Went
<1>5. ASSUME NEW i
      PROVE  /\ Cardinality(Holders(stack, i)) \in Nat /\ Cardinality(Holders(stack', i)) \in Nat
             /\ Cardinality(Holders(stack', i)) + Own(Top(t), i) + Own(Caller(t), i)
                  = Cardinality(Holders(stack, i)) + Own(f, i)
  <2>1. /\ Cardinality(Holders(stack, i)) \in Nat /\ Cardinality(Holders(stack', i)) \in Nat
        /\ Cardinality(Holders(stack', i)) + OwnAt(stack, t, k + 1, i) + OwnAt(stack, t, k + 2, i)
           = Cardinality(Holders(stack, i)) + OwnAt(stack', t, k + 1, i) + OwnAt(stack', t, k + 2, i)
      BY <1>1, <1>2, <1>3, HoldersStep
  <2>2. OwnAt(stack, t, k + 1, i) = Own(Caller(t), i) /\ OwnAt(stack, t, k + 2, i) = Own(Top(t), i)
      BY <1>1 DEF OwnAt, Own
  <2>3. OwnAt(stack', t, k + 1, i) = Own(f, i) /\ OwnAt(stack', t, k + 2, i) = 0
      BY <1>1, <1>4 DEF OwnAt, Own
  <2>4. \A h : Own(h, i) \in Nat
      BY DEF Own
  <2> QED
      BY <2>1, <2>2, <2>3, <2>4
<1> QED
    BY <1>3, <1>5 DEF k

-----------------------------------------------------------------------------
(* The frames that the actions make.                                       *)

LEMMA SomeDllIs == SomeDll \in Dll
BY LoaderAssumption DEF SomeDll

LEMMA InstFacts == None \notin Inst /\ \A i \in Inst : i \in Nat /\ i # None
BY LoaderAssumption DEF Inst, None

LEMMA TermMade ==
  /\ TermFrame \in FrameType /\ TermFrame.pc = "term" /\ Holds(TermFrame) = {}
  /\ \A m : Sound(m, TermFrame)
<1>1. /\ TermFrame \in FrameType /\ TermFrame.pc = "term" /\ TermFrame.inst = None
      /\ TermFrame.deps = <<>> /\ TermFrame.rest = {}
  <2>1. /\ "term" \in Label /\ SomeDll \in Dll /\ {} \in SUBSET Inst
        /\ None \in Inst \cup {None} /\ 1 \in Nat \ {0} /\ <<>> \in Seq(Inst)
      BY SomeDllIs DEF Label, LoadAt, NotifyAt
  <2> QED
      BY <2>1 DEF TermFrame, NewFrame, FrameType
<1>2. Holds(TermFrame) = {}
    BY <1>1, InstFacts DEF Holds, ToSet
<1>3. Uses(TermFrame) = {}
    BY <1>1, <1>2 DEF Uses
<1> QED
    BY <1>1, <1>2, <1>3 DEF Sound, Pointed, Empty, HasInst, UnloadAt, LoadAt

LEMMA LoadMade ==
  ASSUME NEW d \in Dll, NEW e \in BOOLEAN
  PROVE  /\ LoadFrame(d, e) \in FrameType
         /\ LoadFrame(d, e).pc = "ref" /\ LoadFrame(d, e).dll = d
         /\ Holds(LoadFrame(d, e)) = {}
         /\ \A m : Sound(m, LoadFrame(d, e))
<1> DEFINE f == LoadFrame(d, e)
<1>1. /\ f \in FrameType /\ f.pc = "ref" /\ f.dll = d /\ f.imp = 1 /\ f.inst = None
      /\ f.deps = <<>> /\ f.rest = {} /\ f.found = None
  <2>1. /\ "ref" \in Label /\ {} \in SUBSET Inst
        /\ None \in Inst \cup {None} /\ 1 \in Nat \ {0} /\ <<>> \in Seq(Inst)
      BY SomeDllIs DEF Label, LoadAt, NotifyAt
  <2> QED
      BY <2>1 DEF LoadFrame, NewFrame, FrameType
<1> HIDE DEF f
<1>2. ToSet(f.deps) = {} /\ Distinct(f.deps)
    BY <1>1 DEF ToSet, Distinct
<1>3. Holds(f) = {}
    BY <1>1, <1>2, InstFacts DEF Holds
<1>4. Uses(f) = {}
    BY <1>1, <1>3 DEF Uses
<1>5. \A m : LoadOK(m, f)
    BY <1>1, <1>2 DEF LoadOK, HasInst
<1>6. \A m : Sound(m, f)
    BY <1>1, <1>4, <1>5 DEF Sound, Pointed, Empty, HasInst, UnloadAt, LoadAt
<1> QED
    BY <1>1, <1>3, <1>6 DEF f

LEMMA UnloadMade ==
  ASSUME NEW i \in Inst, NEW l \in UnloadAt
  PROVE  /\ UnloadFrame(i, l) \in FrameType
         /\ UnloadFrame(i, l).pc = l /\ UnloadFrame(i, l).inst = i
         /\ Holds(UnloadFrame(i, l)) = IF l = "dec" THEN {i} ELSE {}
         /\ \A m : (IF l = "dec" THEN m[i].st = "registered" ELSE m[i].st \in Gone)
                     => Sound(m, UnloadFrame(i, l))
<1> DEFINE f == UnloadFrame(i, l)
<1>1. /\ f \in FrameType /\ f.pc = l /\ f.inst = i
      /\ f.deps = <<>> /\ f.rest = {} /\ f.found = None
  <2>1. /\ l \in Label /\ SomeDll \in Dll /\ {} \in SUBSET Inst /\ i \in Inst \cup {None}
        /\ None \in Inst \cup {None} /\ 1 \in Nat \ {0} /\ <<>> \in Seq(Inst)
      BY SomeDllIs DEF Label, LoadAt, NotifyAt
  <2> QED
      BY <2>1 DEF UnloadFrame, NewFrame, FrameType
<1> HIDE DEF f
<1>2. ToSet(f.deps) = {}
    BY <1>1 DEF ToSet
<1>3. Holds(f) = IF l = "dec" THEN {i} ELSE {}
    BY <1>1, <1>2, InstFacts DEF Holds, UnloadAt
<1>4. Uses(f) = Holds(f)
    BY <1>1 DEF Uses, UnloadAt
<1>5. l \notin LoadAt /\ l # "dep" /\ l \notin HasInst
    BY DEF UnloadAt, LoadAt, HasInst
<1>6. Pointed(f) /\ Empty(f)
    BY <1>1, <1>5 DEF Pointed, Empty
<1>7. ASSUME NEW m, IF l = "dec" THEN m[i].st = "registered" ELSE m[i].st \in Gone
      PROVE  Sound(m, f)
    BY <1>1, <1>3, <1>4, <1>5, <1>6, <1>7 DEF Sound, UnloadAt
<1> QED
    BY <1>1, <1>3, <1>7 DEF f

LEMMA NotifySound ==
  ASSUME NEW f \in FrameType, f.pc \in NotifyAt, f.deps = <<>>, f.inst = None
  PROVE  /\ Holds(f) = f.rest
         /\ \A m : (\A i \in f.rest : m[i].st = "registered") => Sound(m, f)
<1>1. ToSet(f.deps) = {}
    BY DEF ToSet
<1>2. /\ f.pc \notin LoadAt /\ f.pc # "dep" /\ f.pc \notin HasInst /\ f.pc \notin UnloadAt
      /\ f.pc # "term" /\ f.pc \notin {"detach", "deps"}
    BY DEF NotifyAt, LoadAt, HasInst, UnloadAt
<1>3. Holds(f) = f.rest
    BY <1>1, <1>2, InstFacts DEF Holds
<1>4. Uses(f) = f.rest
    BY <1>2, <1>3 DEF Uses
<1>5. Pointed(f) /\ Empty(f)
    BY <1>2 DEF Pointed, Empty
<1> QED
    BY <1>2, <1>3, <1>4, <1>5 DEF Sound

LEMMA NotifyMade ==
  ASSUME NEW S \in SUBSET Inst
  PROVE  /\ NotifyFrame(S) \in FrameType /\ NotifyFrame(S).pc = "notify" /\ Holds(NotifyFrame(S)) = S
         /\ \A m : (\A i \in S : m[i].st = "registered") => Sound(m, NotifyFrame(S))
<1> DEFINE f == NotifyFrame(S)
<1>1. /\ f \in FrameType /\ f.pc = "notify" /\ f.rest = S /\ f.deps = <<>> /\ f.inst = None
  <2>1. /\ "notify" \in Label /\ SomeDll \in Dll
        /\ None \in Inst \cup {None} /\ 1 \in Nat \ {0} /\ <<>> \in Seq(Inst)
      BY SomeDllIs DEF Label, LoadAt, NotifyAt
  <2> QED
      BY <2>1 DEF NotifyFrame, NewFrame, FrameType
<1> HIDE DEF f
<1>2. f.pc \in NotifyAt
    BY <1>1 DEF NotifyAt
<1>3. Holds(f) = S /\ \A m : (\A i \in S : m[i].st = "registered") => Sound(m, f)
    BY <1>1, <1>2, NotifySound
<1> QED
    BY <1>1, <1>3 DEF f

-----------------------------------------------------------------------------
(* What a step has to show for each part of the invariant.                 *)

(* Listed modules stay listed, and keep their names; others never return.  *)
Keeps(m, m2) ==
  \A i \in Inst :
    /\ m[i].st = "registered" => m2[i].st = "registered" /\ m2[i].dll = m[i].dll
    /\ m[i].st \in Gone => m2[i].st \in Gone

LEMMA SoundKept ==
  ASSUME NEW m, NEW m2, NEW f \in FrameType, Sound(m, f),
         \A i \in Uses(f) : m2[i].st = "registered" /\ m2[i].dll = m[i].dll,
         f.pc \in {"detach", "deps"} => m2[f.inst].st \in Gone
  PROVE  Sound(m2, f)
<1>1. ToSet(f.deps) \subseteq Uses(f)
    BY DEF Uses, Holds
<1>2. f.pc \in HasInst => f.inst \in Uses(f)
    BY DEF Uses, Holds, HasInst, Sound, Pointed
<1>3. f.pc = "dep" => f.found \in Uses(f)
    BY DEF Uses, Sound, Pointed
<1>4. f.pc \in LoadAt => LoadOK(m2, f)
    BY <1>1, <1>2, <1>3 DEF Sound, LoadOK
<1> QED
    BY <1>4 DEF Sound

LEMMA UsesInst ==
  ASSUME NEW f \in FrameType
  PROVE  Holds(f) \in SUBSET Inst /\ Uses(f) \in SUBSET Inst /\ Holds(f) \subseteq Uses(f)
<1>1. f.deps \in Seq(Inst) /\ f.rest \in SUBSET Inst
    BY DEF FrameType
<1>2. ToSet(f.deps) \in SUBSET Inst
    BY <1>1, NoMembers
<1> QED
    BY <1>1, <1>2 DEF Holds, Uses

LEMMA FramesKept ==
  ASSUME stack \in StackType, FramesSound, Keeps(mod, mod'),
         NEW t \in LThread, NEW n \in DOMAIN stack[t]
  PROVE  Sound(mod', stack[t][n])
<1> DEFINE f == stack[t][n]
<1>1. f \in FrameType
    BY DEF StackType
<1>2. Sound(mod, f)
    BY DEF FramesSound
<1> HIDE DEF f
<1>3. \A i \in Uses(f) : mod'[i].st = "registered" /\ mod'[i].dll = mod[i].dll
    BY <1>1, <1>2, UsesInst DEF Sound, Keeps
<1>4. f.pc \in {"detach", "deps"} => f.inst \in Inst /\ mod'[f.inst].st \in Gone
    BY <1>2 DEF Sound, Pointed, UnloadAt, Keeps
<1>5. Sound(mod', f)
    BY <1>1, <1>2, <1>3, <1>4, SoundKept
<1> QED
    BY <1>5 DEF f

LEMMA FramesStep ==
  ASSUME stack \in StackType, NEW t \in LThread, NEW k \in 0..Len(stack[t]),
         NEW fs \in Seq(FrameType), Went(t, k, fs),
         \A u \in LThread : \A n \in DOMAIN stack[u] : u # t \/ n <= k => Sound(mod', stack[u][n]),
         \A n \in DOMAIN fs : Sound(mod', fs[n])
  PROVE  FramesSound'
<1> SUFFICES ASSUME NEW u \in LThread, NEW n \in DOMAIN stack'[u] PROVE Sound(mod', stack'[u][n])
    BY DEF FramesSound
<1>1. CASE u # t
    BY <1>1 DEF Went
<1>2. CASE u = t
  <2>1. n \in 1..(k + Len(fs)) /\ k \in Nat /\ Len(fs) \in Nat /\ DOMAIN fs = 1..Len(fs)
      BY <1>2, StackFacts DEF Went
  <2>2. CASE n \in 1..k
      BY <1>2, <2>1, <2>2 DEF Went
  <2>3. CASE n \notin 1..k
    <3>1. n - k \in DOMAIN fs /\ k + (n - k) = n
        BY <2>1, <2>3
    <3>2. stack'[t][k + (n - k)] = fs[n - k]
        BY <3>1 DEF Went
    <3> QED
        BY <1>2, <3>1, <3>2
  <2> QED
      BY <2>2, <2>3
<1> QED
    BY <1>1, <1>2

LEMMA StacksStep ==
  ASSUME stack \in StackType, StacksOK, NEW t \in LThread, NEW k \in 0..Len(stack[t]),
         NEW fs \in Seq(FrameType), Went(t, k, fs), Len(fs) <= 2, ended => ended',
         k >= 1 /\ Len(fs) >= 1 => Waits(stack[t][k], fs[1]),
         Len(fs) = 2 => Waits(fs[1], fs[2]),
         Len(fs) >= 1 /\ fs[1].pc = "term" => ended'
  PROVE  StacksOK'
<1>0. /\ k \in Nat /\ Len(fs) \in 0..2 /\ DOMAIN fs = 1..Len(fs)
      /\ DOMAIN stack'[t] = 1..(k + Len(fs))
  <2>1. Len(stack[t]) \in Nat
      BY StackFacts
  <2>2. Len(fs) \in Nat /\ DOMAIN fs = 1..Len(fs)
      OBVIOUS
  <2>3. k \in Nat /\ Len(fs) \in 0..2
      BY <2>1, <2>2
  <2> QED
      BY <2>2, <2>3 DEF Went
<1>1. \A n \in 1..k : stack'[t][n] = stack[t][n] /\ n \in DOMAIN stack[t]
    BY DEF Went
<1>2. /\ Len(fs) >= 1 => stack'[t][k + 1] = fs[1]
      /\ Len(fs) = 2 => stack'[t][k + 2] = fs[2]
    BY <1>0 DEF Went
<1>3. \A n \in DOMAIN stack'[t] :
        \/ n \in 1..k
        \/ n = k + 1 /\ Len(fs) >= 1
        \/ n = k + 2 /\ Len(fs) = 2
    BY <1>0
<1>4. \A u \in LThread : u # t => stack'[u] = stack[u]
    BY DEF Went
<1>5. ASSUME NEW u \in LThread, NEW n \in DOMAIN stack'[u], n + 1 \in DOMAIN stack'[u]
      PROVE  Waits(stack'[u][n], stack'[u][n + 1])
  <2>1. CASE u # t
      BY <1>4, <1>5, <2>1 DEF StacksOK
  <2>2. CASE u = t
    <3>1. CASE n \in 1..k /\ n + 1 \in 1..k
        BY <1>1, <1>5, <2>2, <3>1 DEF StacksOK
    <3>2. CASE n = k /\ k >= 1
      <4>1. Len(fs) >= 1 /\ k \in 1..k
          BY <1>0, <1>5, <2>2, <3>2
      <4>2. stack'[t][k] = stack[t][k] /\ stack'[t][k + 1] = fs[1]
          BY <1>1, <1>2, <4>1
      <4> QED
          BY <2>2, <3>2, <4>1, <4>2
    <3>3. CASE n = k + 1
      <4>1. Len(fs) = 2 /\ n + 1 = k + 2
          BY <1>0, <1>5, <2>2, <3>3
      <4>2. stack'[t][k + 1] = fs[1] /\ stack'[t][k + 2] = fs[2]
          BY <1>2, <4>1
      <4> QED
          BY <2>2, <3>3, <4>1, <4>2
    <3> QED
        BY <1>0, <1>3, <1>5, <2>2, <3>1, <3>2, <3>3
  <2> QED
      BY <2>1, <2>2
<1>6. "call" \in LoadAt /\ "term" \notin LoadAt \cup UnloadAt
    BY DEF LoadAt, UnloadAt
<1>7. Len(fs) = 2 => fs[2].pc # "term" /\ (fs[2].pc \in LoadAt => fs[1].pc \in LoadAt)
    BY <1>6 DEF Waits
<1>8. ASSUME k >= 1, Len(fs) >= 1
      PROVE  fs[1].pc # "term" /\ (fs[1].pc \in LoadAt => stack[t][k].pc \in LoadAt)
    BY <1>6, <1>8 DEF Waits
<1>9. ASSUME NEW u \in LThread, NEW n \in DOMAIN stack'[u], stack'[u][n].pc \in LoadAt
      PROVE  stack'[u][1].pc \in LoadAt
  <2>1. CASE u # t
      BY <1>4, <1>9, <2>1 DEF StacksOK
  <2>2. CASE u = t /\ k >= 1
    <3>1. 1 \in 1..k /\ k \in 1..k
        BY <1>0, <2>2
    <3>2. stack'[t][1] = stack[t][1] /\ k \in DOMAIN stack[t]
        BY <1>1, <3>1
    <3>3. stack[t][k].pc \in LoadAt => stack[t][1].pc \in LoadAt
        BY <3>2 DEF StacksOK
    <3>4. \A m \in 1..k : stack[t][m].pc \in LoadAt => stack[t][1].pc \in LoadAt
        BY <1>1 DEF StacksOK
    <3>5. CASE n \in 1..k
        BY <1>1, <1>9, <2>2, <3>2, <3>4, <3>5
    <3>6. CASE n = k + 1 /\ Len(fs) >= 1
        BY <1>2, <1>8, <1>9, <2>2, <3>2, <3>3, <3>6
    <3>7. CASE n = k + 2 /\ Len(fs) = 2
        BY <1>2, <1>7, <1>8, <1>9, <2>2, <3>2, <3>3, <3>7
    <3> QED
        BY <1>3, <2>2, <3>5, <3>6, <3>7
  <2>3. CASE u = t /\ k = 0
    <3>1. stack'[t][1] = fs[1] /\ Len(fs) >= 1
        BY <1>0, <1>2, <2>3
    <3>2. n = 1 \/ (n = 2 /\ Len(fs) = 2 /\ stack'[t][2] = fs[2])
        BY <1>0, <1>2, <2>3
    <3> QED
        BY <1>7, <1>9, <2>3, <3>1, <3>2
  <2> QED
      BY <1>0, <2>1, <2>2, <2>3
<1>10. ASSUME NEW u \in LThread, NEW n \in DOMAIN stack'[u], stack'[u][n].pc = "term"
       PROVE  n = 1 /\ ended'
  <2>1. CASE u # t
      BY <1>4, <1>10, <2>1 DEF StacksOK
  <2>2. CASE u = t
    <3>1. CASE n \in 1..k
        BY <1>1, <1>10, <2>2, <3>1 DEF StacksOK
    <3>2. CASE n = k + 1 /\ Len(fs) >= 1
      <4>1. k = 0
          BY <1>0, <1>2, <1>8, <1>10, <2>2, <3>2
      <4> QED
          BY <1>2, <1>10, <2>2, <3>2, <4>1
    <3>3. CASE n = k + 2 /\ Len(fs) = 2
        BY <1>2, <1>7, <1>10, <2>2, <3>3
    <3> QED
        BY <1>3, <2>2, <3>1, <3>2, <3>3
  <2> QED
      BY <2>1, <2>2
<1> QED
    BY <1>5, <1>9, <1>10 DEF StacksOK

Fails == UnloadAt \cup {"abort", "failing"}

LEMMA StillSafe ==
  ASSUME stack \in StackType, NEW t \in LThread, NEW k \in 0..Len(stack[t]),
         NEW fs \in Seq(FrameType), Went(t, k, fs),
         \A n \in DOMAIN fs : fs[n].pc \notin Fails
  PROVE  Failing(t)' => Failing(t)
<1> SUFFICES ASSUME Failing(t)' PROVE Failing(t)
    OBVIOUS
<1>1. PICK n \in DOMAIN stack'[t] : stack'[t][n].pc \in Fails
    BY DEF Failing, Fails
<1>2. n \in 1..(k + Len(fs)) /\ k \in Nat /\ Len(fs) \in Nat /\ DOMAIN fs = 1..Len(fs)
    BY StackFacts DEF Went
<1>3. CASE n \in 1..k
    BY <1>1, <1>3 DEF Went, Failing, Fails
<1>4. CASE n \notin 1..k
  <2>1. n - k \in DOMAIN fs /\ k + (n - k) = n
      BY <1>2, <1>4
  <2>2. stack'[t][k + (n - k)] = fs[n - k]
      BY <2>1 DEF Went
  <2> QED
      BY <1>1, <2>1, <2>2
<1> QED
    BY <1>3, <1>4

LEMMA SerialStep ==
  ASSUME SerialUnload, stack \in StackType, Serial, NEW t \in LThread, ~Idle(t),
         NEW k \in 0..Len(stack[t]), NEW fs \in Seq(FrameType), Went(t, k, fs), ended' = ended,
         k = 0 /\ Len(fs) >= 1 =>
           /\ fs[1].pc \in LoadAt <=> stack[t][1].pc \in LoadAt
           /\ stack[t][1].pc = "term" => fs[1].pc = "term",
         Failing(t)' => Failing(t) \/ FailsAlone(t)
  PROVE  Serial'
<1>0. k \in Nat /\ Len(fs) \in Nat /\ DOMAIN fs = 1..Len(fs)
    BY StackFacts
<1>1. ASSUME ~Idle(t)'
      PROVE  /\ stack'[t][1].pc \in LoadAt <=> stack[t][1].pc \in LoadAt
             /\ stack[t][1].pc = "term" => stack'[t][1].pc = "term"
  <2>1. k + Len(fs) >= 1
      BY <1>0, <1>1 DEF Went, Idle, StackType
  <2>2. CASE k >= 1
    <3>1. 1 \in 1..k
        BY <1>0, <2>2
    <3> QED
        BY <3>1 DEF Went
  <2>3. CASE k = 0
    <3>1. 1 \in DOMAIN fs /\ Len(fs) >= 1 /\ k + 1 = 1
        BY <1>0, <2>1, <2>3
    <3>2. stack'[t][1] = fs[1]
        BY <3>1 DEF Went
    <3> QED
        BY <2>3, <3>1, <3>2
  <2> QED
      BY <1>0, <2>2, <2>3
<1>2. \A u \in LThread : u # t => /\ Idle(u)' <=> Idle(u)
                                  /\ Loading(u)' <=> Loading(u)
                                  /\ Failing(u)' <=> Failing(u)
                                  /\ stack'[u] = stack[u]
    BY DEF Went, Idle, Loading, Failing
<1>3. Loading(t)' => Loading(t)
    BY <1>1 DEF Loading
<1>4. Loading(t) /\ ~Idle(t)' => Loading(t)'
    BY <1>1 DEF Loading
<1>5. ASSUME NEW u \in LThread, u # t, Loading(t)', ~Idle(u)'
      PROVE  Loading(u)' /\ ~Failing(t)'
  <2>1. Loading(t) /\ ~Idle(u) /\ Loading(u) /\ ~Failing(t)
      BY <1>2, <1>3, <1>5 DEF Serial
  <2>2. ~FailsAlone(t)
      BY <1>5, <2>1 DEF FailsAlone
  <2> QED
      BY <1>2, <1>5, <2>1, <2>2
<1>6. ASSUME NEW u \in LThread, u # t, Loading(u)', ~Idle(t)'
      PROVE  Loading(t)' /\ ~Failing(u)'
    BY <1>2, <1>4, <1>6 DEF Serial
<1>7. ASSUME NEW u \in LThread, NEW v \in LThread, u # v, Loading(u)', ~Idle(v)'
      PROVE  Loading(v)' /\ ~Failing(u)'
  <2>1. CASE u # t /\ v # t
      BY <1>2, <1>7, <2>1 DEF Serial
  <2> QED
      BY <1>5, <1>6, <1>7, <2>1
<1>8. ASSUME ended', NEW u \in LThread, ~Idle(u)'
      PROVE  stack'[u][1].pc = "term" /\ \A v \in LThread : v # u => Idle(v)'
  <2>1. ended /\ stack[t][1].pc = "term" /\ \A v \in LThread : v # t => Idle(v)
      BY <1>8 DEF Serial
  <2>2. u = t
      BY <1>2, <1>8, <2>1
  <2> QED
      BY <1>1, <1>2, <1>8, <2>1, <2>2
<1> QED
    BY <1>7, <1>8 DEF Serial

LEMMA SerialStarts ==
  ASSUME SerialUnload, stack \in StackType, Serial, NEW t \in LThread, NEW f \in FrameType,
         NEW load \in BOOLEAN, MayBegin(t, load), Went(t, 0, <<f>>), ended' = ended,
         f.pc \in LoadAt <=> load, load => f.pc \notin Fails
  PROVE  Serial'
<1>1. stack'[t][1] = f /\ DOMAIN stack'[t] = {1} /\ ~Idle(t)' /\ ~ended /\ Idle(t)
  <2>1. DOMAIN <<f>> = {1} /\ Len(<<f>>) = 1 /\ <<f>>[1] = f
      OBVIOUS
  <2>2. stack'[t][0 + 1] = f /\ Len(stack'[t]) = 1 /\ DOMAIN stack'[t] = 1..(0 + 1)
      BY <2>1 DEF Went
  <2>3. ~Idle(t)'
      BY <2>2 DEF Idle
  <2> QED
      BY <2>2, <2>3 DEF MayBegin
<1>2. \A u \in LThread : u # t => /\ Idle(u)' <=> Idle(u)
                                  /\ Loading(u)' <=> Loading(u)
                                  /\ Failing(u)' <=> Failing(u)
    BY DEF Went, Idle, Loading, Failing
<1>3. (Loading(t)' <=> load) /\ (load => ~Failing(t)')
    BY <1>1 DEF Loading, Failing, Fails
<1>4. \A u \in LThread : Idle(u) \/ ((Loading(u) <=> load) /\ (load => ~Failing(u)))
    BY DEF MayBegin
<1>5. ASSUME NEW u \in LThread, NEW v \in LThread, u # v, Loading(u)', ~Idle(v)'
      PROVE  Loading(v)' /\ ~Failing(u)'
  <2>1. CASE u # t /\ v # t
      BY <1>2, <1>5, <2>1 DEF Serial
  <2>2. CASE u = t
      BY <1>2, <1>3, <1>4, <1>5, <2>2
  <2>3. CASE v = t
    <3>1. ~Idle(u)
        BY <1>2, <1>5, <2>3 DEF Loading
    <3> QED
        BY <1>2, <1>3, <1>4, <1>5, <2>3, <3>1
  <2> QED
      BY <2>1, <2>2, <2>3
<1> QED
    BY <1>1, <1>5 DEF Serial

LEMMA UnregisteringKept ==
  ASSUME stack \in StackType, NEW t \in LThread, NEW k \in 0..Len(stack[t]),
         NEW fs \in Seq(FrameType), Went(t, k, fs), NEW j, Unregistering(j),
         \A n \in DOMAIN stack[t] :
           n > k /\ stack[t][n].pc \in {"detach", "deps"} /\ stack[t][n].inst = j =>
             \E m \in DOMAIN fs : fs[m].pc \in {"detach", "deps"} /\ fs[m].inst = j
  PROVE  Unregistering(j)'
<1>0. k \in Nat /\ Len(fs) \in Nat /\ DOMAIN fs = 1..Len(fs)
    BY StackFacts
<1>1. PICK u \in LThread : \E n \in DOMAIN stack[u] :
        stack[u][n].pc \in {"detach", "deps"} /\ stack[u][n].inst = j
    BY DEF Unregistering
<1>2. PICK n \in DOMAIN stack[u] : stack[u][n].pc \in {"detach", "deps"} /\ stack[u][n].inst = j
    BY <1>1
<1>3. CASE u # t
    BY <1>2, <1>3 DEF Went, Unregistering
<1>4. CASE u = t /\ n <= k
  <2>1. n \in 1..k /\ n \in DOMAIN stack'[t]
      BY <1>0, <1>2, <1>4, StackFacts DEF Went
  <2>2. stack'[t][n] = stack[t][n]
      BY <2>1 DEF Went
  <2> QED
      BY <1>2, <1>4, <2>1, <2>2 DEF Unregistering
<1>5. CASE u = t /\ n > k
  <2>1. PICK m \in DOMAIN fs : fs[m].pc \in {"detach", "deps"} /\ fs[m].inst = j
      BY <1>2, <1>5
  <2>2. k + m \in DOMAIN stack'[t] /\ stack'[t][k + m] = fs[m]
      BY <1>0 DEF Went
  <2> QED
      BY <2>1, <2>2 DEF Unregistering
<1>6. n \in Nat
    BY <1>2, StackFacts
<1> QED
    BY <1>0, <1>3, <1>4, <1>5, <1>6

(* The lists of imports are as they were.                                  *)
LEMMA ModsStep ==
  ASSUME LTypeOK, ModsOK, made' = made,
         \A i \in Inst : /\ mod'[i].deps = mod[i].deps
                         /\ Listed(i) => mod'[i].st = "registered"
                         /\ mod[i].st = "none" => mod'[i].st = "none"
                         /\ i > made => held'[i] = 0,
         \A j \in Inst : mod[j].deps # <<>> /\ Unregistering(j) => Unregistering(j)'
  PROVE  ModsOK'
<1>1. \A i \in Inst : i > made' => mod'[i].st = "none" /\ held'[i] = 0 /\ mod'[i].deps = <<>>
    BY DEF ModsOK
<1>2. \A j \in Inst : Distinct(mod'[j].deps)
    BY DEF ModsOK
<1>3. \A j \in Inst : ToSet(mod'[j].deps) \in SUBSET Inst
    BY NoMembers DEF LTypeOK, ModuleType
<1>4. \A j \in Inst : \A i \in ToSet(mod'[j].deps) : i < j /\ Listed(i)'
    BY <1>3 DEF ModsOK, Listed
<1>5. \A j \in Inst : mod'[j].deps # <<>> => Listed(j)' \/ Unregistering(j)'
    BY DEF ModsOK, Listed
<1> QED
    BY <1>1, <1>2, <1>4, <1>5 DEF ModsOK

-----------------------------------------------------------------------------
(* Frames with some fields changed.                                        *)

LEMMA Relabelled ==
  ASSUME NEW f \in FrameType, NEW l \in Label, NEW g,
         g = [f EXCEPT !.pc = l]
  PROVE  /\ g \in FrameType /\ g.pc = l /\ g.dll = f.dll /\ g.exact = f.exact
         /\ g.imp = f.imp /\ g.found = f.found /\ g.inc = f.inc
         /\ g.deps = f.deps /\ g.inst = f.inst /\ g.rest = f.rest
BY DEF FrameType

LEMMA WithRest ==
  ASSUME NEW f \in FrameType, NEW S \in SUBSET Inst, NEW g,
         g = [f EXCEPT !.rest = S]
  PROVE  /\ g \in FrameType /\ g.pc = f.pc /\ g.dll = f.dll /\ g.exact = f.exact
         /\ g.imp = f.imp /\ g.found = f.found /\ g.inc = f.inc
         /\ g.deps = f.deps /\ g.inst = f.inst /\ g.rest = S
BY DEF FrameType

LEMMA WithFound ==
  ASSUME NEW f \in FrameType, NEW l \in Label, NEW i \in Inst \cup {None}, NEW b \in BOOLEAN, NEW g,
         g = [f EXCEPT !.pc = l, !.found = i, !.inc = b]
  PROVE  /\ g \in FrameType /\ g.pc = l /\ g.dll = f.dll /\ g.exact = f.exact
         /\ g.imp = f.imp /\ g.found = i /\ g.inc = b
         /\ g.deps = f.deps /\ g.inst = f.inst /\ g.rest = f.rest
BY DEF FrameType

LEMMA WithImport ==
  ASSUME NEW f \in FrameType, NEW l \in Label, NEW n \in Nat \ {0}, NEW s \in Seq(Inst), NEW g,
         g = [f EXCEPT !.pc = l, !.imp = n, !.deps = s]
  PROVE  /\ g \in FrameType /\ g.pc = l /\ g.dll = f.dll /\ g.exact = f.exact
         /\ g.imp = n /\ g.found = f.found /\ g.inc = f.inc
         /\ g.deps = s /\ g.inst = f.inst /\ g.rest = f.rest
BY DEF FrameType

LEMMA WithDeps ==
  ASSUME NEW f \in FrameType, NEW s \in Seq(Inst), NEW g,
         g = [f EXCEPT !.deps = s]
  PROVE  /\ g \in FrameType /\ g.pc = f.pc /\ g.dll = f.dll /\ g.exact = f.exact
         /\ g.imp = f.imp /\ g.found = f.found /\ g.inc = f.inc
         /\ g.deps = s /\ g.inst = f.inst /\ g.rest = f.rest
BY DEF FrameType

LEMMA WithInst ==
  ASSUME NEW f \in FrameType, NEW l \in Label, NEW i \in Inst \cup {None}, NEW g,
         g = [f EXCEPT !.pc = l, !.inst = i]
  PROVE  /\ g \in FrameType /\ g.pc = l /\ g.dll = f.dll /\ g.exact = f.exact
         /\ g.imp = f.imp /\ g.found = f.found /\ g.inc = f.inc
         /\ g.deps = f.deps /\ g.inst = i /\ g.rest = f.rest
BY DEF FrameType

LEMMA WithModule ==
  ASSUME NEW f \in FrameType, NEW l \in Label, NEW i \in Inst \cup {None}, NEW s \in Seq(Inst), NEW g,
         g = [f EXCEPT !.pc = l, !.inst = i, !.deps = s]
  PROVE  /\ g \in FrameType /\ g.pc = l /\ g.dll = f.dll /\ g.exact = f.exact
         /\ g.imp = f.imp /\ g.found = f.found /\ g.inc = f.inc
         /\ g.deps = s /\ g.inst = i /\ g.rest = f.rest
BY DEF FrameType

-----------------------------------------------------------------------------
(* Module instances that change.                                           *)

ModuleFields(m, d, s, c, q, a, p) ==
  /\ m \in ModuleType /\ m.dll = d /\ m.st = s /\ m.count = c
  /\ m.deps = q /\ m.attached = a /\ m.pinned = p

Others(i) == \A j \in Inst : j # i => mod'[j] = mod[j]
ModsType == [Inst -> ModuleType]

LEMMA ReferenceMade ==
  ASSUME NEW m \in ModuleType, NEW pin \in BOOLEAN
  PROVE  ModuleFields(Reference(m, pin), m.dll, m.st, IF m.pinned \/ pin THEN m.count ELSE m.count + 1,
                      m.deps, m.attached, m.pinned \/ pin)
<1> DEFINE c == IF m.pinned \/ pin THEN m.count ELSE m.count + 1
           p == m.pinned \/ pin
<1>1. c \in Nat /\ p \in BOOLEAN
    BY DEF ModuleType
<1>2. Reference(m, pin) = [m EXCEPT !.pinned = p, !.count = c]
    BY DEF Reference, ModuleType
<1> HIDE DEF c, p
<1>3. ModuleFields([m EXCEPT !.pinned = p, !.count = c], m.dll, m.st, c, m.deps, m.attached, p)
    BY <1>1 DEF ModuleType, ModuleFields
<1> QED
    BY <1>2, <1>3 DEF c, p

LEMMA ReferencedOne ==
  ASSUME mod \in ModsType, NEW i \in Inst, NEW pin \in BOOLEAN,
         mod' = [mod EXCEPT ![i] = Reference(@, pin)]
  PROVE  /\ mod' \in ModsType /\ Others(i)
         /\ ModuleFields(mod'[i], mod[i].dll, mod[i].st,
                         IF mod[i].pinned \/ pin THEN mod[i].count ELSE mod[i].count + 1,
                         mod[i].deps, mod[i].attached, mod[i].pinned \/ pin)
<1> DEFINE r == Reference(mod[i], pin)
<1>1. mod[i] \in ModuleType
    BY DEF ModsType
<1>2. r \in ModuleType
    BY <1>1, ReferenceMade DEF ModuleFields
<1>3. mod' = [mod EXCEPT ![i] = r]
    OBVIOUS
<1>4. mod'[i] = r /\ mod' \in ModsType /\ Others(i)
  <2> HIDE DEF r
  <2> QED
      BY <1>2, <1>3 DEF ModsType, Others
<1> QED
    BY <1>1, <1>4, ReferenceMade

LEMMA RegisteredOne ==
  ASSUME mod \in ModsType, NEW i \in Inst, NEW d \in Dll, NEW s \in Seq(Inst),
         mod' = [mod EXCEPT ![i] = [@ EXCEPT !.dll = d, !.st = "registered", !.count = 1, !.deps = s]]
  PROVE  /\ mod' \in ModsType /\ Others(i)
         /\ ModuleFields(mod'[i], d, "registered", 1, s, mod[i].attached, mod[i].pinned)
<1> DEFINE r == [mod[i] EXCEPT !.dll = d, !.st = "registered", !.count = 1, !.deps = s]
<1>1. mod[i] \in ModuleType
    BY DEF ModsType
<1>2. ModuleFields(r, d, "registered", 1, s, mod[i].attached, mod[i].pinned)
    BY <1>1 DEF ModuleType, ModuleFields
<1>3. mod' = [mod EXCEPT ![i] = r]
    OBVIOUS
<1> HIDE DEF r
<1>4. mod'[i] = r /\ mod' \in ModsType /\ Others(i)
    BY <1>2, <1>3 DEF ModsType, Others, ModuleFields
<1> QED
    BY <1>2, <1>4

LEMMA ChangedOne ==
  ASSUME mod \in ModsType, NEW i \in Inst
  PROVE  /\ \A b \in BOOLEAN : mod' = [mod EXCEPT ![i].attached = b] =>
              /\ mod' \in ModsType /\ Others(i)
              /\ ModuleFields(mod'[i], mod[i].dll, mod[i].st, mod[i].count, mod[i].deps, b, mod[i].pinned)
         /\ \A q \in {"leaving", "freed"} : mod' = [mod EXCEPT ![i].st = q] =>
              /\ mod' \in ModsType /\ Others(i)
              /\ ModuleFields(mod'[i], mod[i].dll, q, mod[i].count, mod[i].deps,
                              mod[i].attached, mod[i].pinned)
         /\ \A s \in Seq(Inst) : mod' = [mod EXCEPT ![i].deps = s] =>
              /\ mod' \in ModsType /\ Others(i)
              /\ ModuleFields(mod'[i], mod[i].dll, mod[i].st, mod[i].count, s,
                              mod[i].attached, mod[i].pinned)
         /\ \A c \in Nat : mod' = [mod EXCEPT ![i].count = c] =>
              /\ mod' \in ModsType /\ Others(i)
              /\ ModuleFields(mod'[i], mod[i].dll, mod[i].st, c, mod[i].deps,
                              mod[i].attached, mod[i].pinned)
         /\ mod' = [mod EXCEPT ![i].count = 0, ![i].st = "leaving"] =>
              /\ mod' \in ModsType /\ Others(i)
              /\ ModuleFields(mod'[i], mod[i].dll, "leaving", 0, mod[i].deps,
                              mod[i].attached, mod[i].pinned)
<1>1. mod[i] \in ModuleType
    BY DEF ModsType
<1>2. ASSUME NEW b \in BOOLEAN, mod' = [mod EXCEPT ![i].attached = b]
      PROVE  /\ mod' \in ModsType /\ Others(i)
             /\ ModuleFields(mod'[i], mod[i].dll, mod[i].st, mod[i].count, mod[i].deps, b, mod[i].pinned)
    BY <1>1, <1>2 DEF ModsType, ModuleType, Others, ModuleFields
<1>3. ASSUME NEW q \in {"leaving", "freed"}, mod' = [mod EXCEPT ![i].st = q]
      PROVE  /\ mod' \in ModsType /\ Others(i)
             /\ ModuleFields(mod'[i], mod[i].dll, q, mod[i].count, mod[i].deps,
                             mod[i].attached, mod[i].pinned)
    BY <1>1, <1>3 DEF ModsType, ModuleType, Others, ModuleFields
<1>4. ASSUME NEW s \in Seq(Inst), mod' = [mod EXCEPT ![i].deps = s]
      PROVE  /\ mod' \in ModsType /\ Others(i)
             /\ ModuleFields(mod'[i], mod[i].dll, mod[i].st, mod[i].count, s,
                             mod[i].attached, mod[i].pinned)
    BY <1>1, <1>4 DEF ModsType, ModuleType, Others, ModuleFields
<1>5. ASSUME NEW c \in Nat, mod' = [mod EXCEPT ![i].count = c]
      PROVE  /\ mod' \in ModsType /\ Others(i)
             /\ ModuleFields(mod'[i], mod[i].dll, mod[i].st, c, mod[i].deps,
                             mod[i].attached, mod[i].pinned)
    BY <1>1, <1>5 DEF ModsType, ModuleType, Others, ModuleFields
<1>6. ASSUME mod' = [mod EXCEPT ![i].count = 0, ![i].st = "leaving"]
      PROVE  /\ mod' \in ModsType /\ Others(i)
             /\ ModuleFields(mod'[i], mod[i].dll, "leaving", 0, mod[i].deps,
                             mod[i].attached, mod[i].pinned)
    BY <1>1, <1>6 DEF ModsType, ModuleType, Others, ModuleFields
<1> QED
    BY <1>2, <1>3, <1>4, <1>5, <1>6

-----------------------------------------------------------------------------
(* Types, whatever the driver does.                                        *)

AllPointed == \A t \in LThread : \A n \in DOMAIN stack[t] : Pointed(stack[t][n])
TypeInv == LTypeOK /\ AllPointed

LEMMA TypeFacts ==
  ASSUME LTypeOK
  PROVE  /\ mod \in ModsType /\ stack \in StackType /\ held \in [Inst -> Nat]
         /\ made \in 0..MaxInst /\ ops \in 0..MaxOps /\ ended \in BOOLEAN
         /\ \A i \in Inst : mod[i] \in ModuleType /\ held[i] \in Nat
         /\ \A i \in Inst : mod[i].deps \in Seq(Inst) /\ mod[i].count \in Nat
BY DEF LTypeOK, ModsType, StackType, ModuleType

LEMMA PointedStep ==
  ASSUME stack \in StackType, AllPointed, NEW t \in LThread, NEW k \in 0..Len(stack[t]),
         NEW fs \in Seq(FrameType), Went(t, k, fs), \A n \in DOMAIN fs : Pointed(fs[n])
  PROVE  AllPointed'
<1> SUFFICES ASSUME NEW u \in LThread, NEW n \in DOMAIN stack'[u] PROVE Pointed(stack'[u][n])
    BY DEF AllPointed
<1>1. CASE u # t
    BY <1>1 DEF Went, AllPointed
<1>2. CASE u = t
  <2>1. n \in 1..(k + Len(fs)) /\ k \in Nat /\ Len(fs) \in Nat /\ DOMAIN fs = 1..Len(fs)
      BY <1>2, StackFacts DEF Went
  <2>2. CASE n \in 1..k
      BY <1>2, <2>1, <2>2 DEF Went, AllPointed
  <2>3. CASE n \notin 1..k
    <3>1. n - k \in DOMAIN fs /\ k + (n - k) = n
        BY <2>1, <2>3
    <3>2. stack'[t][k + (n - k)] = fs[n - k]
        BY <3>1 DEF Went
    <3> QED
        BY <1>2, <3>1, <3>2
  <2> QED
      BY <2>2, <2>3
<1> QED
    BY <1>1, <1>2

StackGood == stack' \in StackType /\ AllPointed'

LEMMA StartGood ==
  ASSUME TypeInv, NEW t \in LThread, Idle(t), NEW f \in FrameType, Pointed(f), Starts(t, f)
  PROVE  StackGood
<1>1. stack \in StackType /\ AllPointed
    BY TypeFacts DEF TypeInv
<1>2. Went(t, 0, <<f>>)
    BY <1>1, StartCount
<1>3. 0 \in 0..Len(stack[t]) /\ <<f>> \in Seq(FrameType) /\ \A n \in DOMAIN <<f>> : Pointed(<<f>>[n])
    BY <1>1, StackFacts
<1>4. stack' \in StackType
    BY <1>2 DEF Went
<1> QED
    BY <1>1, <1>2, <1>3, <1>4, PointedStep DEF StackGood

LEMMA JumpGood ==
  ASSUME TypeInv, NEW t \in LThread, ~Idle(t), NEW f \in FrameType, Pointed(f), Jump(t, f)
  PROVE  StackGood
<1>1. stack \in StackType /\ AllPointed
    BY TypeFacts DEF TypeInv
<1>2. Went(t, Len(stack[t]) - 1, <<f>>) /\ Len(stack[t]) - 1 \in 0..Len(stack[t])
    BY <1>1, JumpCount, StackFacts
<1>3. <<f>> \in Seq(FrameType) /\ \A n \in DOMAIN <<f>> : Pointed(<<f>>[n])
    OBVIOUS
<1>4. stack' \in StackType
    BY <1>2 DEF Went
<1> QED
    BY <1>1, <1>2, <1>3, <1>4, PointedStep DEF StackGood

LEMMA CallGood ==
  ASSUME TypeInv, NEW t \in LThread, ~Idle(t), NEW f \in FrameType, Pointed(f),
         NEW g \in FrameType, Pointed(g), Call(t, f, g)
  PROVE  StackGood
<1>1. stack \in StackType /\ AllPointed
    BY TypeFacts DEF TypeInv
<1>2. Went(t, Len(stack[t]) - 1, <<f, g>>) /\ Len(stack[t]) - 1 \in 0..Len(stack[t])
    BY <1>1, CallCount, StackFacts
<1>3. <<f, g>> \in Seq(FrameType) /\ \A n \in DOMAIN <<f, g>> : Pointed(<<f, g>>[n])
    OBVIOUS
<1>4. stack' \in StackType
    BY <1>2 DEF Went
<1> QED
    BY <1>1, <1>2, <1>3, <1>4, PointedStep DEF StackGood

LEMMA PopGood ==
  ASSUME TypeInv, NEW t \in LThread, ~Idle(t), Pop(t)
  PROVE  StackGood
<1>1. stack \in StackType /\ AllPointed
    BY TypeFacts DEF TypeInv
<1>2. Went(t, Len(stack[t]) - 1, <<>>) /\ Len(stack[t]) - 1 \in 0..Len(stack[t])
    BY <1>1, PopCount, StackFacts
<1>3. <<>> \in Seq(FrameType) /\ DOMAIN <<>> = {}
    OBVIOUS
<1>4. stack' \in StackType
    BY <1>2 DEF Went
<1> QED
    BY <1>1, <1>2, <1>3, <1>4, PointedStep DEF StackGood

(* What the return of a load leaves in the frame of its caller.            *)
IsAnswer(f, i, x) ==
  /\ x \in FrameType /\ x.pc = (IF i = None THEN "abort" ELSE "dep")
  /\ x.found = i /\ x.inc = FALSE /\ x.dll = f.dll /\ x.imp = f.imp
  /\ x.deps = f.deps /\ x.inst = f.inst /\ x.rest = f.rest

(* Answered gives exactly that frame, whatever the load returned.            *)
LEMMA AnsweredFacts ==
  ASSUME NEW f \in FrameType, NEW i \in Inst \cup {None}
  PROVE  IsAnswer(f, i, Answered(f, i))
<1> DEFINE l == IF i = None THEN "abort" ELSE "dep"
           g == Answered(f, i)
<1>1. l \in Label
    BY DEF Label, LoadAt
<1>2. g = [f EXCEPT !.pc = l, !.found = i, !.inc = FALSE]
    BY DEF Answered
<1> HIDE DEF l, g
<1>3. /\ g \in FrameType /\ g.pc = l
      /\ g.found = i /\ g.inc = FALSE /\ g.dll = f.dll /\ g.imp = f.imp
      /\ g.deps = f.deps /\ g.inst = f.inst /\ g.rest = f.rest
    BY <1>1, <1>2 DEF FrameType
<1>4. IsAnswer(f, i, g)
    BY <1>3 DEF IsAnswer, l
<1> QED
    BY <1>4 DEF g

LEMMA ReturnGood ==
  ASSUME TypeInv, NEW t \in LThread, ~Idle(t), NEW i \in Inst \cup {None}, Return(t, i)
  PROVE  StackGood /\ held' \in [Inst -> Nat]
<1>1. stack \in StackType /\ AllPointed /\ held \in [Inst -> Nat]
    BY TypeFacts DEF TypeInv
<1>2. CASE Len(stack[t]) = 1
  <2>1. Pop(t) /\ held' = IF i = None THEN held ELSE [held EXCEPT ![i] = @ + 1]
      BY <1>2 DEF Return
  <2> QED
      BY <1>1, <2>1, PopGood
<1>3. CASE Len(stack[t]) # 1
  <2> DEFINE g == Answered(Caller(t), i)
  <2>1. Continues(t, Len(stack[t]) - 2, <<g>>) /\ held' = held
      BY <1>3 DEF Return
  <2>0. Len(stack[t]) \in Nat /\ Len(stack[t]) >= 1
      BY <1>1, StackFacts
  <2>2. Len(stack[t]) > 1 /\ Caller(t) \in FrameType /\ Len(stack[t]) - 2 \in 0..Len(stack[t])
    <3>0. \A n \in Nat : n >= 1 /\ n # 1 => n > 1
        OBVIOUS
    <3>1. Len(stack[t]) > 1
        BY <1>3, <2>0, <3>0, Zenon
    <3> QED
        BY <1>1, <3>1, StackFacts
  <2>7. IsAnswer(Caller(t), i, g)
      BY <2>2, AnsweredFacts
  <2>3. g \in FrameType /\ Pointed(g)
    <3> HIDE DEF g
    <3>1. g \in FrameType /\ g.pc = (IF i = None THEN "abort" ELSE "dep") /\ g.found = i
        BY <2>7 DEF IsAnswer
    <3> QED
        BY <3>1 DEF Pointed, HasInst, UnloadAt
  <2> HIDE DEF g
  <2>4. Went(t, Len(stack[t]) - 2, <<g>>)
      BY <1>1, <2>1, <2>2, <2>3, ReturnCount
  <2>5. <<g>> \in Seq(FrameType) /\ \A n \in DOMAIN <<g>> : Pointed(<<g>>[n])
      BY <2>3
  <2>6. stack' \in StackType
      BY <2>4 DEF Went
  <2> QED
      BY <1>1, <2>1, <2>2, <2>4, <2>5, <2>6, PointedStep DEF StackGood
<1> QED
    BY <1>2, <1>3

LEMMA TypeGood ==
  ASSUME LTypeOK, StackGood, mod' \in ModsType, held' \in [Inst -> Nat],
         made' \in 0..MaxInst, ops' \in 0..MaxOps, ended' \in BOOLEAN
  PROVE  TypeInv'
BY DEF TypeInv, LTypeOK, StackGood, StackType, ModsType

LEMMA FirstNamedIs ==
  ASSUME NEW d, Named(d) # {}
  PROVE  FirstNamed(d) \in Inst /\ Listed(FirstNamed(d)) /\ mod[FirstNamed(d)].dll = d
<1>1. Named(d) \in SUBSET Inst
    BY DEF Named
<1>2. FirstNamed(d) \in Named(d)
    BY <1>1, MinIs DEF FirstNamed
<1> QED
    BY <1>2 DEF Named

LEMMA MadePointed ==
  /\ Pointed(TermFrame)
  /\ \A d \in Dll, e \in BOOLEAN : Pointed(LoadFrame(d, e))
  /\ \A i \in Inst, l \in UnloadAt : Pointed(UnloadFrame(i, l))
  /\ \A S \in SUBSET Inst : Pointed(NotifyFrame(S))
<1>1. \A i \in Inst, l \in UnloadAt : Pointed(UnloadFrame(i, l))
  <2> SUFFICES ASSUME NEW i \in Inst, NEW l \in UnloadAt PROVE Pointed(UnloadFrame(i, l))
      OBVIOUS
  <2>1. UnloadFrame(i, l).pc = l /\ UnloadFrame(i, l).inst = i /\ l # "dep"
      BY UnloadMade DEF UnloadAt
  <2> QED
      BY <2>1 DEF Pointed
<1>2. \A S \in SUBSET Inst : Pointed(NotifyFrame(S))
  <2> SUFFICES ASSUME NEW S \in SUBSET Inst PROVE Pointed(NotifyFrame(S))
      OBVIOUS
  <2>1. NotifyFrame(S).pc = "notify"
      BY NotifyMade
  <2> QED
      BY <2>1 DEF Pointed, HasInst, UnloadAt
<1>3. \A d \in Dll, e \in BOOLEAN : Pointed(LoadFrame(d, e))
  <2> SUFFICES ASSUME NEW d \in Dll, NEW e \in BOOLEAN PROVE Pointed(LoadFrame(d, e))
      OBVIOUS
  <2>1. LoadFrame(d, e).pc = "ref"
      BY LoadMade
  <2> QED
      BY <2>1 DEF Pointed, HasInst, UnloadAt
<1>4. Pointed(TermFrame)
    BY TermMade DEF Pointed, HasInst, UnloadAt
<1> QED
    BY <1>1, <1>2, <1>3, <1>4

LEMMA NextImportIs ==
  ASSUME NEW f \in FrameType, f.imp \in DOMAIN Imports[f.dll]
  PROVE  NextImport(f).dll \in Dll /\ NextImport(f).exact \in BOOLEAN
<1>1. Imports[f.dll] \in Seq([dll : Dll, exact : BOOLEAN])
    BY LoaderAssumption DEF FrameType
<1>2. \A S : \A s \in Seq(S) : \A n \in DOMAIN s : s[n] \in S
    OBVIOUS
<1>3. Imports[f.dll][f.imp] \in [dll : Dll, exact : BOOLEAN]
    BY <1>1, <1>2, Zenon
<1> QED
    BY <1>3 DEF NextImport

LEMMA LabelFacts == \A l \in LoadAt \cup UnloadAt \cup NotifyAt \cup {"term"} : l \in Label
BY DEF Label

LEMMA ImportAt ==
  ASSUME NEW f \in FrameType, f.imp <= Len(Imports[f.dll])
  PROVE  f.imp \in DOMAIN Imports[f.dll]
<1>1. f.dll \in Dll /\ f.imp \in Nat \ {0}
    BY DEF FrameType
<1>2. Imports[f.dll] \in Seq([dll : Dll, exact : BOOLEAN])
    BY <1>1, LoaderAssumption
<1>3. \A S : \A s \in Seq(S) : DOMAIN s = 1..Len(s) /\ Len(s) \in Nat
    OBVIOUS
<1>4. DOMAIN Imports[f.dll] = 1..Len(Imports[f.dll]) /\ Len(Imports[f.dll]) \in Nat
    BY <1>2, <1>3, Zenon
<1> QED
    BY <1>1, <1>4

LEMMA FrontType ==
  ASSUME NEW A, NEW s \in Seq(A), s # <<>>
  PROVE  Front(s) \in Seq(A) /\ Last(s) \in A
<1>1. Len(s) \in Nat \ {0} /\ \A n \in 1..Len(s) : s[n] \in A
    OBVIOUS
<1> QED
    BY <1>1 DEF Front, Last

LEMMA TopPointed ==
  ASSUME TypeInv, NEW t \in LThread, ~Idle(t)
  PROVE  Top(t) \in FrameType /\ Pointed(Top(t)) /\ stack \in StackType
<1>1. stack \in StackType /\ Len(stack[t]) \in DOMAIN stack[t]
    BY TypeFacts, StackFacts DEF TypeInv
<1> QED
    BY <1>1, StackFacts DEF TypeInv, AllPointed, Top

(* The frame of the step's own thread, with another label.                 *)
LEMMA RelabelGood ==
  ASSUME TypeInv, NEW t \in LThread, ~Idle(t), NEW l \in LoadAt \cup NotifyAt,
         l # "dep", l \in HasInst => Top(t).pc \in HasInst
  PROVE  /\ [Top(t) EXCEPT !.pc = l] \in FrameType
         /\ Pointed([Top(t) EXCEPT !.pc = l])
<1> DEFINE g == [Top(t) EXCEPT !.pc = l]
<1>1. l \in Label /\ Top(t) \in FrameType /\ Pointed(Top(t))
    BY LabelFacts, TopPointed
<1>2. g \in FrameType /\ g.pc = l /\ g.inst = Top(t).inst
    BY <1>1, Relabelled
<1> HIDE DEF g
<1>3. Pointed(g)
    BY <1>1, <1>2 DEF Pointed, LoadAt, NotifyAt, UnloadAt
<1> QED
    BY <1>2, <1>3 DEF g

LEMMA BeginTypes ==
  ASSUME TypeInv, NEW t \in LThread, Begin(t)
  PROVE  TypeInv'
<1>0. /\ LTypeOK /\ mod \in ModsType /\ stack \in StackType /\ held \in [Inst -> Nat]
      /\ made \in 0..MaxInst /\ ops \in 0..MaxOps /\ ended \in BOOLEAN
    BY TypeFacts DEF TypeInv
<1>1. ASSUME NEW d \in Dll, LoadLibrary(t, d) PROVE TypeInv'
  <2>1. LoadFrame(d, TRUE) \in FrameType /\ Pointed(LoadFrame(d, TRUE))
      BY LoadMade, MadePointed
  <2>2. StackGood
      BY <1>1, <2>1, StartGood DEF LoadLibrary, MayBegin
  <2>3. /\ mod' = mod /\ held' = held /\ made' = made /\ ended' = ended
        /\ ops' = ops + 1 /\ ops < MaxOps
      BY <1>1 DEF LoadLibrary, MayBegin
  <2>4. ops' \in 0..MaxOps
      BY <1>0, <2>3, LoaderAssumption
  <2> QED
      BY <1>0, <2>2, <2>3, <2>4, TypeGood
<1>2. ASSUME NEW i \in Inst, FreeLibrary(t, i) PROVE TypeInv'
  <2>1. UnloadFrame(i, "dec") \in FrameType /\ Pointed(UnloadFrame(i, "dec"))
      BY UnloadMade, MadePointed DEF UnloadAt
  <2>2. StackGood
      BY <1>2, <2>1, StartGood DEF FreeLibrary, MayBegin
  <2>3. /\ mod' = mod /\ made' = made /\ ended' = ended /\ held[i] > 0
        /\ held' = [held EXCEPT ![i] = @ - 1] /\ ops' = ops + 1 /\ ops < MaxOps
      BY <1>2 DEF FreeLibrary, MayBegin
  <2>4. ops' \in 0..MaxOps
      BY <1>0, <2>3, LoaderAssumption
  <2>5. held' \in [Inst -> Nat]
      BY <1>0, <2>3
  <2> QED
      BY <1>0, <2>2, <2>3, <2>4, <2>5, TypeGood
<1>3. ASSUME NEW i \in Inst, NEW pin \in BOOLEAN, AddRef(t, i, pin) PROVE TypeInv'
  <2>1. /\ mod' = [mod EXCEPT ![i] = Reference(@, pin)]
        /\ held' = IF mod[i].pinned \/ pin THEN held ELSE [held EXCEPT ![i] = @ + 1]
        /\ stack' = stack /\ made' = made /\ ended' = ended /\ ops' = ops + 1 /\ ops < MaxOps
      BY <1>3 DEF AddRef
  <2>2. mod' \in ModsType
      BY <1>0, <2>1, ReferencedOne
  <2>3. StackGood
      BY <1>0, <2>1 DEF StackGood, TypeInv, AllPointed
  <2>4. ops' \in 0..MaxOps
      BY <1>0, <2>1, LoaderAssumption
  <2>5. held' \in [Inst -> Nat]
      BY <1>0, <2>1
  <2> QED
      BY <1>0, <2>1, <2>2, <2>3, <2>4, <2>5, TypeGood
<1>4. ASSUME Snapshot(t) PROVE TypeInv'
  <2>1. Attached \in SUBSET Inst
      BY DEF Attached
  <2>2. NotifyFrame(Attached) \in FrameType /\ Pointed(NotifyFrame(Attached))
      BY <2>1, NotifyMade, MadePointed
  <2>3. StackGood
      BY <1>4, <2>2, StartGood DEF Snapshot, MayBegin
  <2>4. /\ held' = held /\ made' = made /\ ended' = ended /\ ops' = ops + 1 /\ ops < MaxOps
        /\ mod' = [i \in Inst |-> IF i \in Attached THEN Reference(mod[i], FALSE) ELSE mod[i]]
      BY <1>4 DEF Snapshot, MayBegin
  <2>5. mod' \in ModsType
    <3>1. \A i \in Inst : mod[i] \in ModuleType
        BY <1>0 DEF ModsType
    <3>2. \A i \in Inst : Reference(mod[i], FALSE) \in ModuleType
        BY <3>1, ReferenceMade DEF ModuleFields
    <3> QED
        BY <2>4, <3>1, <3>2 DEF ModsType
  <2>6. ops' \in 0..MaxOps
      BY <1>0, <2>4, LoaderAssumption
  <2> QED
      BY <1>0, <2>3, <2>4, <2>5, <2>6, TypeGood
<1>5. ASSUME TerminateBegins(t) PROVE TypeInv'
  <2>1. StackGood
      BY <1>5, TermMade, MadePointed, StartGood DEF TerminateBegins
  <2>2. mod' = mod /\ held' = held /\ made' = made /\ ops' = ops /\ ended' = TRUE
      BY <1>5 DEF TerminateBegins
  <2>3. ended' \in BOOLEAN
      BY <2>2
  <2> QED
      BY <1>0, <2>1, <2>2, <2>3, TypeGood
<1> QED
    BY <1>1, <1>2, <1>3, <1>4, <1>5 DEF Begin

LEMMA LoadTypes ==
  ASSUME TypeInv, NEW t \in LThread,
         \/ LoadByName(t) \/ FindImport(t) \/ AddDependency(t) \/ DependencyFails(t)
         \/ ImageFails(t) \/ Abort(t) \/ Register(t) \/ InitializeTls(t) \/ Attach(t)
         \/ UnloadFailed(t)
  PROVE  TypeInv'
<1>0. /\ LTypeOK /\ mod \in ModsType /\ stack \in StackType /\ held \in [Inst -> Nat]
      /\ made \in 0..MaxInst /\ ops \in 0..MaxOps /\ ended \in BOOLEAN
    BY TypeFacts DEF TypeInv
<1> DEFINE f == Top(t)
<1>a. "dec" \in UnloadAt /\ \A l \in {"import", "call", "abort"} : l \in LoadAt /\ l \notin HasInst /\ l # "dep"
    BY DEF UnloadAt, LoadAt, HasInst
<1>b. \A l \in {"attach", "failing"} : l \in LoadAt /\ l # "dep"
    BY DEF LoadAt
<1>1. CASE LoadByName(t)
  <2>1. ~Idle(t) /\ made' = made /\ ops' = ops /\ ended' = ended
      BY <1>1 DEF LoadByName, At
  <2>2. CASE Named(f.dll) # {}
    <3> DEFINE i == FirstNamed(f.dll)
    <3>1. mod' = [mod EXCEPT ![i] = Reference(@, FALSE)] /\ Return(t, i)
        BY <1>1, <2>2 DEF LoadByName
    <3>2. i \in Inst
        BY <2>2, FirstNamedIs
    <3> HIDE DEF i
    <3>3. mod' \in ModsType
        BY <1>0, <3>1, <3>2, ReferencedOne
    <3>4. StackGood /\ held' \in [Inst -> Nat]
        BY <2>1, <3>1, <3>2, ReturnGood
    <3> QED
        BY <1>0, <2>1, <3>3, <3>4, TypeGood
  <2>3. CASE ~(Named(f.dll) # {})
    <3>1. mod' = mod /\ held' = held /\ \E l \in {"import", "abort"} : Jump(t, [f EXCEPT !.pc = l])
        BY <1>1, <2>3 DEF LoadByName
    <3>2. PICK l \in {"import", "abort"} : Jump(t, [f EXCEPT !.pc = l])
        BY <3>1
    <3>3. StackGood
        BY <1>a, <2>1, <3>2, RelabelGood, JumpGood
    <3> QED
        BY <1>0, <2>1, <3>1, <3>3, TypeGood
  <2> QED
      BY <2>2, <2>3
<1>2. CASE FindImport(t)
  <2>1. /\ ~Idle(t) /\ mod' = mod /\ held' = held /\ made' = made /\ ops' = ops /\ ended' = ended
        /\ f.imp <= Len(Imports[f.dll])
      BY <1>2 DEF FindImport, At
  <2>2. f \in FrameType /\ Pointed(f)
      BY <2>1, TopPointed
  <2>3. CASE NextImport(f).exact /\ Named(NextImport(f).dll) # {}
    <3> DEFINE i == FirstNamed(NextImport(f).dll)
               g == [f EXCEPT !.pc = "dep", !.found = i, !.inc = TRUE]
    <3>1. Jump(t, g)
        BY <1>2, <2>3 DEF FindImport
    <3>2. i \in Inst
        BY <2>3, FirstNamedIs
    <3> HIDE DEF i, f
    <3>3. g \in FrameType /\ g.pc = "dep" /\ g.found = i
      <4>1. "dep" \in Label /\ TRUE \in BOOLEAN /\ i \in Inst \cup {None}
          BY <3>2 DEF Label, LoadAt
      <4> QED
          BY <2>2, <4>1 DEF FrameType
    <3>4. Pointed(g)
        BY <3>2, <3>3 DEF Pointed, HasInst, UnloadAt
    <3>5. StackGood
      <4> HIDE DEF g
      <4> QED
        BY <2>1, <3>1, <3>3, <3>4, JumpGood
    <3> QED
        BY <1>0, <2>1, <3>5, TypeGood
  <2>4. CASE ~(NextImport(f).exact /\ Named(NextImport(f).dll) # {})
    <3> DEFINE h == LoadFrame(NextImport(f).dll, NextImport(f).exact)
               g == [f EXCEPT !.pc = "call"]
    <3>1. Call(t, g, h)
        BY <1>2, <2>4 DEF FindImport
    <3>2. StackGood
      <4>1. g \in FrameType /\ Pointed(g)
          BY <1>a, <2>1, RelabelGood
      <4>2. f.imp \in DOMAIN Imports[f.dll]
          BY <2>1, <2>2, ImportAt
      <4>3. NextImport(f).dll \in Dll /\ NextImport(f).exact \in BOOLEAN
          BY <2>2, <4>2, NextImportIs
      <4>4. h \in FrameType /\ Pointed(h)
          BY <4>3, LoadMade, MadePointed
      <4> HIDE DEF g, h
      <4> QED
          BY <2>1, <3>1, <4>1, <4>4, CallGood
    <3> QED
        BY <1>0, <2>1, <3>2, TypeGood
  <2> QED
      BY <2>3, <2>4
<1>3. CASE AddDependency(t)
  <2> DEFINE q == IF f.found \in ToSet(f.deps) THEN f.deps ELSE Append(f.deps, f.found)
             g == [f EXCEPT !.pc = "import", !.imp = f.imp + 1, !.deps = q]
  <2>1. /\ ~Idle(t) /\ f.pc = "dep" /\ held' = held /\ made' = made /\ ops' = ops /\ ended' = ended
        /\ Jump(t, g)
        /\ \/ mod' = mod
           \/ mod' = [mod EXCEPT ![f.found] = Reference(@, FALSE)]
      BY <1>3 DEF AddDependency, At
  <2>2. f \in FrameType /\ Pointed(f)
      BY <2>1, TopPointed
  <2> HIDE DEF f
  <2>3. f.found \in Inst /\ f.imp + 1 \in Nat \ {0} /\ f.deps \in Seq(Inst)
      BY <2>1, <2>2 DEF Pointed, FrameType
  <2>4. q \in Seq(Inst)
      BY <2>3
  <2>5. "import" \in Label
      BY DEF Label, LoadAt
  <2> HIDE DEF q
  <2>6. g \in FrameType /\ g.pc = "import"
      BY <2>2, <2>3, <2>4, <2>5 DEF FrameType
  <2> HIDE DEF g
  <2>7. Pointed(g)
      BY <2>6 DEF Pointed, HasInst, UnloadAt
  <2>8. StackGood
      BY <2>1, <2>6, <2>7, JumpGood
  <2>9. mod' \in ModsType
      BY <1>0, <2>1, <2>3, ReferencedOne
  <2> QED
      BY <1>0, <2>1, <2>8, <2>9, TypeGood
<1>4. CASE DependencyFails(t)
  <2> DEFINE g == [f EXCEPT !.pc = "abort"]
             h == UnloadFrame(f.found, "dec")
  <2>1. /\ ~Idle(t) /\ f.pc = "dep" /\ mod' = mod /\ held' = held /\ made' = made
        /\ ops' = ops /\ ended' = ended
        /\ Jump(t, g) \/ Call(t, g, h)
      BY <1>4 DEF DependencyFails, At
  <2>2. g \in FrameType /\ Pointed(g)
      BY <1>a, <2>1, RelabelGood
  <2>3. f.found \in Inst
      BY <2>1, TopPointed DEF Pointed
  <2>4. h \in FrameType /\ Pointed(h)
      BY <1>a, <2>3, UnloadMade, MadePointed
  <2> HIDE DEF g, h
  <2>5. StackGood
      BY <2>1, <2>2, <2>4, JumpGood, CallGood
  <2> QED
      BY <1>0, <2>1, <2>5, TypeGood
<1>5. CASE ImageFails(t)
  <2>1. /\ ~Idle(t) /\ mod' = mod /\ held' = held /\ made' = made /\ ops' = ops /\ ended' = ended
        /\ Jump(t, [f EXCEPT !.pc = "abort"])
      BY <1>5 DEF ImageFails, At
  <2>2. StackGood
      BY <1>a, <2>1, RelabelGood, JumpGood
  <2> QED
      BY <1>0, <2>1, <2>2, TypeGood
<1>6. CASE Abort(t)
  <2>1. ~Idle(t) /\ f.pc = "abort" /\ mod' = mod /\ made' = made /\ ops' = ops /\ ended' = ended
      BY <1>6 DEF Abort, At
  <2>2. CASE f.deps = <<>>
    <3>1. Return(t, None)
        BY <1>6, <2>2 DEF Abort
    <3>2. StackGood /\ held' \in [Inst -> Nat]
        BY <2>1, <3>1, ReturnGood
    <3> QED
        BY <1>0, <2>1, <3>2, TypeGood
  <2>3. CASE f.deps # <<>>
    <3> DEFINE g == [f EXCEPT !.deps = Front(f.deps)]
               h == UnloadFrame(Last(f.deps), "dec")
    <3>1. Call(t, g, h) /\ held' = held
        BY <1>6, <2>3 DEF Abort
    <3>2. f \in FrameType /\ Pointed(f)
        BY <2>1, TopPointed
    <3>3. f.deps \in Seq(Inst)
        BY <3>2 DEF FrameType
    <3>4. Front(f.deps) \in Seq(Inst) /\ Last(f.deps) \in Inst
        BY <2>3, <3>3, FrontType
    <3>5. h \in FrameType /\ Pointed(h)
        BY <1>a, <3>4, UnloadMade, MadePointed
    <3>6. g \in FrameType /\ g.pc = "abort"
        BY <2>1, <3>2, <3>4, WithDeps
    <3> HIDE DEF g, h
    <3>7. Pointed(g)
        BY <3>6 DEF Pointed, HasInst, UnloadAt
    <3>8. StackGood
        BY <2>1, <3>1, <3>5, <3>6, <3>7, CallGood
    <3> QED
        BY <1>0, <2>1, <3>1, <3>8, TypeGood
  <2> QED
      BY <2>2, <2>3
<1>7. CASE Register(t)
  <2> DEFINE i == made + 1
             g == [f EXCEPT !.pc = "tls", !.inst = i, !.deps = <<>>]
  <2>1. /\ ~Idle(t) /\ made < MaxInst /\ made' = i /\ held' = held /\ ops' = ops /\ ended' = ended
        /\ mod' = [mod EXCEPT ![i] = [@ EXCEPT !.dll = f.dll, !.st = "registered",
                                               !.count = 1, !.deps = f.deps]]
        /\ Jump(t, g)
      BY <1>7 DEF Register, At
  <2>2. i \in Inst /\ i \in 0..MaxInst
      BY <1>0, <2>1, LoaderAssumption DEF Inst
  <2>3. f \in FrameType
      BY <2>1, TopPointed
  <2> HIDE DEF i, f
  <2>4. f.dll \in Dll /\ f.deps \in Seq(Inst) /\ <<>> \in Seq(Inst)
      BY <2>3 DEF FrameType
  <2>5. mod' \in ModsType
      BY <1>0, <2>1, <2>2, <2>4, RegisteredOne
  <2>6. "tls" \in Label
      BY DEF Label, LoadAt
  <2>7. g \in FrameType /\ g.pc = "tls" /\ g.inst = i
      BY <2>2, <2>3, <2>4, <2>6 DEF FrameType
  <2> HIDE DEF g
  <2>8. Pointed(g)
      BY <2>2, <2>7 DEF Pointed
  <2>9. StackGood
      BY <2>1, <2>7, <2>8, JumpGood
  <2> QED
      BY <1>0, <2>1, <2>2, <2>5, <2>9, TypeGood
<1>8. CASE InitializeTls(t)
  <2>1. /\ ~Idle(t) /\ f.pc = "tls" /\ held' = held /\ made' = made /\ ops' = ops /\ ended' = ended
        /\ \E l \in {"attach", "failing"} : Jump(t, [f EXCEPT !.pc = l])
        /\ \/ mod' = mod
           \/ mod' = [mod EXCEPT ![f.inst].attached = TRUE]
      BY <1>8 DEF InitializeTls, At
  <2>2. f.inst \in Inst /\ f.pc \in HasInst
      BY <2>1, TopPointed DEF Pointed, HasInst
  <2>3. mod' \in ModsType
      BY <1>0, <2>1, <2>2, ChangedOne
  <2>4. PICK l \in {"attach", "failing"} : Jump(t, [f EXCEPT !.pc = l])
      BY <2>1
  <2>5. StackGood
      BY <1>b, <2>1, <2>2, <2>4, RelabelGood, JumpGood
  <2> QED
      BY <1>0, <2>1, <2>3, <2>5, TypeGood
<1>9. CASE Attach(t)
  <2>1. ~Idle(t) /\ f.pc = "attach" /\ mod' = mod /\ made' = made /\ ops' = ops /\ ended' = ended
      BY <1>9 DEF Attach, At
  <2>2. f.inst \in Inst /\ f.pc \in HasInst
      BY <2>1, TopPointed DEF Pointed, HasInst
  <2>3. CASE Return(t, f.inst)
    <3>1. StackGood /\ held' \in [Inst -> Nat]
        BY <2>1, <2>2, <2>3, ReturnGood
    <3> QED
        BY <1>0, <2>1, <3>1, TypeGood
  <2>4. CASE Jump(t, [f EXCEPT !.pc = "failing"]) /\ held' = held
    <3>1. StackGood
        BY <1>b, <2>1, <2>2, <2>4, RelabelGood, JumpGood
    <3> QED
        BY <1>0, <2>1, <2>4, <3>1, TypeGood
  <2> QED
      BY <1>9, <2>3, <2>4 DEF Attach
<1>10. CASE UnloadFailed(t)
  <2> DEFINE g == [f EXCEPT !.pc = "abort", !.inst = None]
             h == UnloadFrame(f.inst, "dec")
  <2>1. /\ ~Idle(t) /\ f.pc = "failing" /\ mod' = mod /\ held' = held /\ made' = made
        /\ ops' = ops /\ ended' = ended /\ Call(t, g, h)
      BY <1>10 DEF UnloadFailed, At
  <2>2. f \in FrameType /\ f.inst \in Inst
      BY <2>1, TopPointed DEF Pointed, HasInst
  <2>3. h \in FrameType /\ Pointed(h)
      BY <1>a, <2>2, UnloadMade, MadePointed
  <2>4. "abort" \in Label
      BY DEF Label, LoadAt
  <2>5. g \in FrameType /\ g.pc = "abort"
      BY <2>2, <2>4 DEF FrameType
  <2> HIDE DEF g, h
  <2>6. Pointed(g)
      BY <2>5 DEF Pointed, HasInst, UnloadAt
  <2>7. StackGood
      BY <2>1, <2>3, <2>5, <2>6, CallGood
  <2> QED
      BY <1>0, <2>1, <2>7, TypeGood
<1> QED
    BY <1>1, <1>2, <1>3, <1>4, <1>5, <1>6, <1>7, <1>8, <1>9, <1>10

LEMMA UnloadTypes ==
  ASSUME TypeInv, NEW t \in LThread,
         \/ Decrement(t) \/ Detach(t) \/ ReleaseDependencies(t)
         \/ Notified(t) \/ ReleaseSnapshot(t) \/ TerminateNext(t)
  PROVE  TypeInv'
<1>0. /\ LTypeOK /\ mod \in ModsType /\ stack \in StackType /\ held \in [Inst -> Nat]
      /\ made \in 0..MaxInst /\ ops \in 0..MaxOps /\ ended \in BOOLEAN
      /\ \A i \in Inst : mod[i].deps \in Seq(Inst) /\ mod[i].count \in Nat
    BY TypeFacts DEF TypeInv
<1> DEFINE f == Top(t)
<1>a. \A l \in {"dec", "detach", "deps"} : l \in UnloadAt
    BY DEF UnloadAt
<1>b. /\ ~Idle(t) /\ held' = held /\ made' = made /\ ops' = ops /\ ended' = ended
      /\ f \in FrameType /\ Pointed(f)
    BY TopPointed DEF Decrement, Releases, Detach, ReleaseDependencies, Notified,
                      ReleaseSnapshot, TerminateNext, At
<1>c. ASSUME mod' \in ModsType, StackGood PROVE TypeInv'
    BY <1>0, <1>b, <1>c, TypeGood
<1>1. CASE Decrement(t)
  <2> DEFINE i == f.inst
  <2>1. i \in Inst
      BY <1>1, <1>a, <1>b DEF Decrement, Releases, At, Pointed
  <2>2. \/ mod' = mod /\ Pop(t)
        \/ mod[i].count > 1 /\ mod' = [mod EXCEPT ![i].count = mod[i].count - 1] /\ Pop(t)
        \/ mod' = [mod EXCEPT ![i].count = 0, ![i].st = "leaving"] /\ Jump(t, UnloadFrame(i, "detach"))
      BY <1>1 DEF Decrement, Releases
  <2> HIDE DEF i
  <2>3. UnloadFrame(i, "detach") \in FrameType /\ Pointed(UnloadFrame(i, "detach"))
      BY <1>a, <2>1, UnloadMade, MadePointed
  <2>4. StackGood
      BY <1>b, <2>2, <2>3, PopGood, JumpGood
  <2>5. mod[i].count > 1 => mod[i].count - 1 \in Nat
      BY <1>0, <2>1
  <2>6. mod' \in ModsType
      BY <1>0, <2>1, <2>2, <2>5, ChangedOne
  <2> QED
      BY <1>c, <2>4, <2>6
<1>2. CASE Detach(t)
  <2> DEFINE i == f.inst
  <2>1. i \in Inst
      BY <1>2, <1>a, <1>b DEF Detach, At, Pointed
  <2>2. mod' = [mod EXCEPT ![i].attached = FALSE] /\ Jump(t, UnloadFrame(i, "deps"))
      BY <1>2 DEF Detach
  <2> HIDE DEF i
  <2>3. UnloadFrame(i, "deps") \in FrameType /\ Pointed(UnloadFrame(i, "deps"))
      BY <1>a, <2>1, UnloadMade, MadePointed
  <2>4. StackGood
      BY <1>b, <2>2, <2>3, JumpGood
  <2>5. mod' \in ModsType
      BY <1>0, <2>1, <2>2, ChangedOne
  <2> QED
      BY <1>c, <2>4, <2>5
<1>3. CASE ReleaseDependencies(t)
  <2> DEFINE i == f.inst
             q == mod[i].deps
             h == UnloadFrame(Last(q), "dec")
  <2>1. i \in Inst /\ q \in Seq(Inst)
      BY <1>3, <1>0, <1>a, <1>b DEF ReleaseDependencies, At, Pointed
  <2>2. CASE q = <<>>
    <3>1. mod' = [mod EXCEPT ![i].st = "freed"] /\ Pop(t)
        BY <1>3, <2>2 DEF ReleaseDependencies
    <3>2. mod' \in ModsType
        BY <1>0, <2>1, <3>1, ChangedOne
    <3>3. StackGood
        BY <1>b, <3>1, PopGood
    <3> QED
        BY <1>c, <3>2, <3>3
  <2>3. CASE q # <<>>
    <3>1. mod' = [mod EXCEPT ![i].deps = Front(q)] /\ Call(t, f, h)
        BY <1>3, <2>3 DEF ReleaseDependencies
    <3>2. Front(q) \in Seq(Inst) /\ Last(q) \in Inst
        BY <2>1, <2>3, FrontType
    <3>3. h \in FrameType /\ Pointed(h)
        BY <1>a, <3>2, UnloadMade, MadePointed
    <3> HIDE DEF h
    <3>4. StackGood
        BY <1>b, <3>1, <3>3, CallGood
    <3>5. mod' \in ModsType
      <4> HIDE DEF q, i
      <4> QED
          BY <1>0, <2>1, <3>1, <3>2, ChangedOne
    <3> QED
        BY <1>c, <3>4, <3>5
  <2> QED
      BY <2>2, <2>3
<1>4. CASE Notified(t)
  <2>1. Jump(t, [f EXCEPT !.pc = "release"]) /\ mod' = mod
      BY <1>4 DEF Notified
  <2>2. "release" \in NotifyAt /\ "release" # "dep" /\ "release" \notin HasInst
      BY DEF NotifyAt, HasInst
  <2>3. StackGood
      BY <1>b, <2>1, <2>2, RelabelGood, JumpGood
  <2> QED
      BY <1>0, <1>c, <2>1, <2>3
<1>5. CASE ReleaseSnapshot(t)
  <2> DEFINE i == Min(f.rest)
             g == [f EXCEPT !.rest = f.rest \ {i}]
             h == UnloadFrame(i, "dec")
  <2>1. mod' = mod /\ f.pc = "release"
      BY <1>5 DEF ReleaseSnapshot, At
  <2>4. f.rest = {} => Pop(t)
      BY <1>5 DEF ReleaseSnapshot
  <2>5. f.rest # {} => Call(t, g, h)
      BY <1>5 DEF ReleaseSnapshot
  <2>2. CASE Pop(t)
    <3>1. StackGood
        BY <1>b, <2>2, PopGood
    <3> QED
        BY <1>0, <1>c, <2>1, <3>1
  <2>3. CASE f.rest # {} /\ Call(t, g, h)
    <3>1. f.rest \in SUBSET Inst
        BY <1>b DEF FrameType
    <3>2. i \in Inst /\ f.rest \ {i} \in SUBSET Inst
        BY <2>3, <3>1, MinIs
    <3>3. h \in FrameType /\ Pointed(h)
        BY <1>a, <3>2, UnloadMade, MadePointed
    <3>4. g \in FrameType /\ g.pc = "release"
        BY <1>b, <2>1, <3>2, WithRest
    <3> HIDE DEF g, h, i
    <3>5. Pointed(g)
        BY <3>4 DEF Pointed, HasInst, UnloadAt
    <3>6. StackGood
        BY <1>b, <2>3, <3>3, <3>4, <3>5, CallGood
    <3> QED
        BY <1>0, <1>c, <2>1, <3>6
  <2> QED
      BY <2>2, <2>3, <2>4, <2>5
<1>6. CASE TerminateNext(t)
  <2> DEFINE M == {i \in Inst : Listed(i)}
             i == Max(M)
             h == UnloadFrame(i, "detach")
  <2>1. \/ mod' = mod /\ Pop(t)
        \/ M # {} /\ mod' = [mod EXCEPT ![i].st = "leaving"] /\ Call(t, TermFrame, h)
      BY <1>6 DEF TerminateNext, Unregisters
  <2>2. CASE mod' = mod /\ Pop(t)
    <3>1. StackGood
        BY <1>b, <2>2, PopGood
    <3> QED
        BY <1>0, <1>c, <2>2, <3>1
  <2>3. CASE M # {} /\ mod' = [mod EXCEPT ![i].st = "leaving"] /\ Call(t, TermFrame, h)
    <3>1. i \in Inst
        BY <2>3, MaxIs
    <3> HIDE DEF i, M
    <3>2. h \in FrameType /\ Pointed(h)
        BY <1>a, <3>1, UnloadMade, MadePointed
    <3> HIDE DEF h
    <3>3. StackGood
        BY <1>b, <2>3, <3>2, TermMade, MadePointed, CallGood
    <3>4. mod' \in ModsType
        BY <1>0, <2>3, <3>1, ChangedOne
    <3> QED
        BY <1>c, <3>3, <3>4
  <2> QED
      BY <2>1, <2>2, <2>3
<1> QED
    BY <1>1, <1>2, <1>3, <1>4, <1>5, <1>6

LEMMA TypeStart == LInit => TypeInv
<1> SUFFICES ASSUME LInit PROVE TypeInv
    OBVIOUS
<1>1. mod \in [Inst -> ModuleType]
    BY SomeDllIs DEF LInit, ModuleType
<1>2. stack \in [LThread -> Seq(FrameType)]
    BY DEF LInit
<1>3. held \in [Inst -> Nat] /\ ended \in BOOLEAN
    BY DEF LInit
<1>5. made \in 0..MaxInst /\ ops \in 0..MaxOps
    BY LoaderAssumption DEF LInit
<1>4. AllPointed
    BY DEF LInit, AllPointed
<1> QED
    BY <1>1, <1>2, <1>3, <1>4, <1>5 DEF TypeInv, LTypeOK

LEMMA TypeStep == TypeInv /\ [LNext]_ldrVars => TypeInv'
<1>1. ASSUME TypeInv, UNCHANGED ldrVars PROVE TypeInv'
    BY <1>1 DEF TypeInv, LTypeOK, AllPointed, ldrVars
<1>2. ASSUME TypeInv, NEW t \in LThread, Continue(t) PROVE TypeInv'
    BY <1>2, LoadTypes, UnloadTypes DEF Continue
<1> QED
    BY <1>1, <1>2, BeginTypes DEF LNext

(* Whatever the driver does, every pointer of a load or an unload that     *)
(* LdkLoadDll and LdkUnloadDll follow is one of a module that was made,    *)
(* and no load count becomes negative.                                     *)
THEOREM LoaderTypes == LSpec => []LTypeOK
<1>1. TypeInv => LTypeOK
    BY DEF TypeInv
<1> QED
    BY <1>1, TypeStart, TypeStep, PTL DEF LSpec
-----------------------------------------------------------------------------
(* Steps after which every module is still where it was: listed, leaving   *)
(* or not yet made, with the same imports.                                 *)

Stable ==
  /\ Keeps(mod, mod') /\ made' = made /\ ended' = ended
  /\ \A i \in Inst : /\ mod'[i].deps = mod[i].deps
                     /\ mod[i].st = "none" => mod'[i].st = "none"
                     /\ mod[i].pinned => mod'[i].pinned
                     /\ held'[i] > 0 => held[i] > 0 \/ Listed(i)

(* What a step takes from the frames, a, and gives to them, b.             *)
Moves(i, a, b) ==
  mod'[i].pinned \/ mod'[i].count + held[i] + a = mod[i].count + held'[i] + b

LEMMA StableListed ==
  ASSUME LTypeOK, Stable, NEW i \in Inst
  PROVE  (mod'[i].st = "registered") <=> (mod[i].st = "registered")
<1>1. mod[i].st \in {"none", "registered", "leaving", "freed"}
    BY TypeFacts DEF ModuleType
<1> QED
    BY <1>1 DEF Stable, Keeps, Gone

LEMMA ImportersFinite ==
  ASSUME NEW i
  PROVE  /\ IsFiniteSet(Importers(i)) /\ Cardinality(Importers(i)) \in Nat
         /\ IsFiniteSet(Importers(i)') /\ Cardinality(Importers(i)') \in Nat
<1>1. IsFiniteSet(Inst)
    BY LoaderAssumption, FS_Interval DEF Inst
<1>2. Importers(i) \subseteq Inst /\ Importers(i)' \subseteq Inst
    BY DEF Importers
<1> QED
    BY <1>1, <1>2, FS_Subset, FS_CardinalityType

LEMMA CountStep ==
  ASSUME LTypeOK, LTypeOK', LoadCountExact, Stable,
         \A i \in Inst : Cardinality(Holders(stack, i)) \in Nat /\ Cardinality(Holders(stack', i)) \in Nat,
         \A i \in Inst : \E a, b \in Nat :
           /\ Cardinality(Holders(stack', i)) + a = Cardinality(Holders(stack, i)) + b
           /\ Moves(i, a, b)
  PROVE  LoadCountExact'
<1> SUFFICES ASSUME NEW i \in Inst, mod'[i].st = "registered", ~mod'[i].pinned
             PROVE  mod'[i].count = held'[i] + Cardinality(Importers(i)') + Cardinality(Holders(stack', i))
    BY DEF LoadCountExact, Listed, References
<1>1. Listed(i) /\ ~mod[i].pinned
    BY StableListed DEF Listed, Stable
<1>2. mod[i].count = held[i] + Cardinality(Importers(i)) + Cardinality(Holders(stack, i))
    BY <1>1 DEF LoadCountExact, References
<1>3. Importers(i)' = Importers(i)
    BY DEF Importers, Stable
<1>4. PICK a, b \in Nat :
        /\ Cardinality(Holders(stack', i)) + a = Cardinality(Holders(stack, i)) + b
        /\ Moves(i, a, b)
    OBVIOUS
<1>5. mod'[i].count + held[i] + a = mod[i].count + held'[i] + b
    BY <1>4 DEF Moves
<1>6. mod[i].count \in Nat /\ held[i] \in Nat /\ Cardinality(Importers(i)) \in Nat
    BY TypeFacts, ImportersFinite
<1>7. mod'[i].count \in Nat /\ held'[i] \in Nat
    BY DEF LTypeOK, ModuleType
<1> DEFINE c == mod[i].count
           h == held[i]
           c2 == mod'[i].count
           h2 == held'[i]
           I == Cardinality(Importers(i))
           H == Cardinality(Holders(stack, i))
           H2 == Cardinality(Holders(stack', i))
<1>8. c \in Nat /\ c2 \in Nat /\ h \in Nat /\ h2 \in Nat /\ I \in Nat /\ H \in Nat /\ H2 \in Nat
    BY <1>6, <1>7
<1>9. c = h + I + H /\ H2 + a = H + b /\ c2 + h + a = c + h2 + b
    BY <1>2, <1>4, <1>5
<1>10. c2 = h2 + I + H2
  <2> HIDE DEF c, h, c2, h2, I, H, H2
  <2> QED
      BY <1>8, <1>9
<1> QED
    BY <1>3, <1>10

LEMMA InvFacts ==
  ASSUME LoaderInv
  PROVE  /\ TypeInv /\ LTypeOK /\ stack \in StackType /\ mod \in ModsType
         /\ FramesSound /\ StacksOK /\ Serial /\ ModsOK /\ HeldOK /\ LoadCountExact
<1>1. LTypeOK /\ FramesSound /\ StacksOK /\ Serial /\ ModsOK /\ HeldOK /\ LoadCountExact
    BY DEF LoaderInv
<1>2. AllPointed
    BY <1>1 DEF FramesSound, AllPointed, Sound
<1> QED
    BY <1>1, <1>2, TypeFacts DEF TypeInv

(* Everything but the counts and the turns of the threads.                 *)
LEMMA StableParts ==
  ASSUME LoaderInv, TypeInv', Stable, NEW t \in LThread, NEW k \in 0..Len(stack[t]),
         NEW fs \in Seq(FrameType), Went(t, k, fs), Len(fs) <= 2,
         \A n \in DOMAIN fs : Sound(mod', fs[n]),
         k >= 1 /\ Len(fs) >= 1 => Waits(stack[t][k], fs[1]),
         Len(fs) = 2 => Waits(fs[1], fs[2]),
         Len(fs) >= 1 /\ fs[1].pc = "term" => ended,
         \A n \in DOMAIN stack[t] :
           n > k /\ stack[t][n].pc \in {"detach", "deps"} /\ mod[stack[t][n].inst].deps # <<>> =>
             \E m \in DOMAIN fs : fs[m].pc \in {"detach", "deps"} /\ fs[m].inst = stack[t][n].inst
  PROVE  FramesSound' /\ StacksOK' /\ ModsOK' /\ HeldOK'
<1>1. LTypeOK /\ stack \in StackType /\ FramesSound /\ StacksOK /\ ModsOK /\ HeldOK
    BY InvFacts
<1>2. FramesSound'
  <2>1. \A u \in LThread : \A n \in DOMAIN stack[u] : Sound(mod', stack[u][n])
      BY <1>1, FramesKept DEF Stable
  <2> QED
      BY <1>1, <2>1, FramesStep
<1>3. StacksOK'
    BY <1>1, StacksStep DEF Stable
<1>4. \A j \in Inst : mod[j].deps # <<>> /\ Unregistering(j) => Unregistering(j)'
    BY <1>1, UnregisteringKept
<1>5. \A i \in Inst : held'[i] \in Nat /\ held[i] \in Nat
    BY <1>1 DEF TypeInv, LTypeOK
<1>6. ASSUME NEW i \in Inst, i > made PROVE held'[i] = 0
  <2>1. mod[i].st = "none" /\ held[i] = 0
      BY <1>1, <1>6 DEF ModsOK
  <2>2. ~(held'[i] > 0)
      BY <2>1 DEF Stable, Listed
  <2> QED
      BY <1>5, <2>2
<1>7. \A i \in Inst : /\ mod'[i].deps = mod[i].deps
                      /\ Listed(i) => mod'[i].st = "registered"
                      /\ mod[i].st = "none" => mod'[i].st = "none"
    BY DEF Stable, Keeps, Listed
<1>8. made' = made /\ ended' = ended
    BY DEF Stable
<1>9. ModsOK'
    BY <1>1, <1>4, <1>6, <1>7, <1>8, ModsStep
<1>10. HeldOK'
    BY <1>1, <1>7, <1>8 DEF HeldOK, Stable, Listed
<1> QED
    BY <1>2, <1>3, <1>9, <1>10

(* The step of a thread that is at work.                                   *)
LEMMA StableStep ==
  ASSUME SerialUnload, LoaderInv, TypeInv', Stable,
         NEW t \in LThread, ~Idle(t), NEW k \in 0..Len(stack[t]),
         NEW fs \in Seq(FrameType), Went(t, k, fs), Len(fs) <= 2,
         \A n \in DOMAIN fs : Sound(mod', fs[n]),
         k >= 1 /\ Len(fs) >= 1 => Waits(stack[t][k], fs[1]),
         Len(fs) = 2 => Waits(fs[1], fs[2]),
         Len(fs) >= 1 /\ fs[1].pc = "term" => ended,
         \A n \in DOMAIN stack[t] :
           n > k /\ stack[t][n].pc \in {"detach", "deps"} /\ mod[stack[t][n].inst].deps # <<>> =>
             \E m \in DOMAIN fs : fs[m].pc \in {"detach", "deps"} /\ fs[m].inst = stack[t][n].inst,
         k = 0 /\ Len(fs) >= 1 =>
           /\ fs[1].pc \in LoadAt <=> stack[t][1].pc \in LoadAt
           /\ stack[t][1].pc = "term" => fs[1].pc = "term",
         Failing(t)' => Failing(t) \/ FailsAlone(t),
         \A i \in Inst : Cardinality(Holders(stack, i)) \in Nat /\ Cardinality(Holders(stack', i)) \in Nat,
         \A i \in Inst : \E a, b \in Nat :
           /\ Cardinality(Holders(stack', i)) + a = Cardinality(Holders(stack, i)) + b
           /\ Moves(i, a, b)
  PROVE  LoaderInv'
<1>1. LTypeOK /\ LTypeOK' /\ stack \in StackType /\ Serial /\ LoadCountExact
    BY InvFacts DEF TypeInv
<1>2. FramesSound' /\ StacksOK' /\ ModsOK' /\ HeldOK'
    BY StableParts
<1>3. Serial'
  <2>1. ended' = ended
      BY DEF Stable
  <2> QED
      BY <1>1, <2>1, SerialStep
<1>4. LoadCountExact'
    BY <1>1, CountStep
<1> QED
    BY <1>1, <1>2, <1>3, <1>4 DEF LoaderInv

(* The frame on top, and the one that waits for it.                        *)
LEMMA TopSound ==
  ASSUME LoaderInv, NEW t \in LThread, ~Idle(t)
  PROVE  /\ stack \in StackType
         /\ Top(t) \in FrameType /\ Sound(mod, Top(t))
         /\ Len(stack[t]) \in Nat /\ Len(stack[t]) >= 1 /\ DOMAIN stack[t] = 1..Len(stack[t])
         /\ Len(stack[t]) - 1 \in 0..Len(stack[t])
         /\ Len(stack[t]) \in DOMAIN stack[t] /\ Top(t) = stack[t][Len(stack[t])]
         /\ Top(t).pc = "term" => ended /\ Len(stack[t]) = 1
         /\ Top(t).pc \in LoadAt => Loading(t)
         /\ Top(t).pc \in Fails => Failing(t)
<1>1. stack \in StackType /\ FramesSound /\ StacksOK
    BY InvFacts
<1>2. /\ Top(t) \in FrameType /\ Len(stack[t]) \in Nat /\ Len(stack[t]) >= 1
      /\ Len(stack[t]) - 1 \in 0..Len(stack[t]) /\ Len(stack[t]) \in DOMAIN stack[t]
      /\ DOMAIN stack[t] = 1..Len(stack[t])
    BY <1>1, StackFacts
<1>3. Top(t) = stack[t][Len(stack[t])]
    BY DEF Top
<1> QED
    BY <1>1, <1>2, <1>3 DEF FramesSound, StacksOK, Loading, Failing, Fails

LEMMA CallerSound ==
  ASSUME LoaderInv, NEW t \in LThread, Len(stack[t]) > 1
  PROVE  /\ ~Idle(t) /\ Caller(t) \in FrameType /\ Sound(mod, Caller(t)) /\ Waits(Caller(t), Top(t))
         /\ Len(stack[t]) - 1 \in DOMAIN stack[t] /\ Caller(t) = stack[t][Len(stack[t]) - 1]
         /\ Len(stack[t]) - 2 \in 0..Len(stack[t])
         /\ Len(stack[t]) - 2 >= 1 => Waits(stack[t][Len(stack[t]) - 2], Caller(t))
         /\ Caller(t).pc = "term" => ended
         /\ Caller(t).pc \in Fails => Failing(t)
<1>1. stack \in StackType /\ FramesSound /\ StacksOK
    BY InvFacts
<1>2. /\ Caller(t) \in FrameType /\ Len(stack[t]) \in Nat /\ DOMAIN stack[t] = 1..Len(stack[t])
      /\ Len(stack[t]) - 1 \in DOMAIN stack[t] /\ Len(stack[t]) - 2 \in 0..Len(stack[t])
      /\ ~Idle(t)
    BY <1>1, StackFacts
<1>3. Caller(t) = stack[t][Len(stack[t]) - 1] /\ Top(t) = stack[t][Len(stack[t])]
    BY DEF Caller, Top
<1> DEFINE n == Len(stack[t]) - 1
           m == Len(stack[t]) - 2
<1>4. n \in DOMAIN stack[t] /\ n + 1 \in DOMAIN stack[t] /\ n + 1 = Len(stack[t])
    BY <1>2
<1>5. m >= 1 => m \in DOMAIN stack[t] /\ m + 1 \in DOMAIN stack[t] /\ m + 1 = n
    BY <1>2
<1>6. Waits(Caller(t), Top(t)) /\ (m >= 1 => Waits(stack[t][m], Caller(t)))
    BY <1>1, <1>3, <1>4, <1>5 DEF StacksOK
<1>7. Sound(mod, Caller(t)) /\ (Caller(t).pc = "term" => ended) /\ (Caller(t).pc \in Fails => Failing(t))
    BY <1>1, <1>2, <1>3 DEF FramesSound, StacksOK, Failing, Fails
<1> QED
    BY <1>2, <1>3, <1>6, <1>7

(* A frame goes on as one of the same function.                            *)
Follows(f, g) ==
  /\ g.pc \in LoadAt <=> f.pc \in LoadAt
  /\ g.pc \in UnloadAt <=> f.pc \in UnloadAt
  /\ g.pc = "term" <=> f.pc = "term"
  /\ f.pc \in LoadAt => g.dll = f.dll
  /\ f.pc \in {"detach", "deps"} => g.pc \in {"detach", "deps"} /\ g.inst = f.inst

LEMMA WaitsFollows ==
  ASSUME NEW e, NEW f, NEW g, Waits(e, f), Follows(f, g)
  PROVE  Waits(e, g)
BY DEF Waits, Follows

LEMMA JumpInv ==
  ASSUME SerialUnload, LoaderInv, TypeInv', Stable, NEW t \in LThread, ~Idle(t),
         NEW g \in FrameType, Jump(t, g), Follows(Top(t), g), Sound(mod', g),
         g.pc \in Fails => Top(t).pc \in Fails \/ FailsAlone(t),
         \A i \in Inst : Moves(i, Own(Top(t), i), Own(g, i))
  PROVE  LoaderInv'
<1> DEFINE f == Top(t)
           k == Len(stack[t]) - 1
           fs == <<g>>
<1>1. /\ stack \in StackType /\ k \in 0..Len(stack[t]) /\ f = stack[t][Len(stack[t])]
      /\ DOMAIN stack[t] = 1..Len(stack[t]) /\ Len(stack[t]) \in Nat
      /\ (f.pc = "term" => ended) /\ (f.pc \in Fails => Failing(t))
    BY TopSound
<1>2. /\ Went(t, k, fs)
      /\ \A i : /\ Cardinality(Holders(stack, i)) \in Nat /\ Cardinality(Holders(stack', i)) \in Nat
                /\ Cardinality(Holders(stack', i)) + Own(f, i) = Cardinality(Holders(stack, i)) + Own(g, i)
    BY <1>1, JumpCount
<1>3. fs \in Seq(FrameType) /\ Len(fs) = 1 /\ DOMAIN fs = {1} /\ fs[1] = g
    OBVIOUS
<1>4. k >= 1 => Waits(stack[t][k], g)
  <2>1. ASSUME k >= 1 PROVE Waits(stack[t][k], f)
    <3>1. Len(stack[t]) > 1 /\ Caller(t) = stack[t][k]
        BY <1>1, <2>1 DEF Caller
    <3> QED
        BY <3>1, CallerSound
  <2> QED
      BY <2>1, WaitsFollows
<1>5. \A n \in DOMAIN stack[t] :
        n > k /\ stack[t][n].pc \in {"detach", "deps"} =>
          \E m \in DOMAIN fs : fs[m].pc \in {"detach", "deps"} /\ fs[m].inst = stack[t][n].inst
  <2>1. ASSUME NEW n \in DOMAIN stack[t], n > k, stack[t][n].pc \in {"detach", "deps"}
        PROVE  g.pc \in {"detach", "deps"} /\ g.inst = stack[t][n].inst
    <3>1. stack[t][n] = f
        BY <1>1, <2>1
    <3> QED
        BY <2>1, <3>1 DEF Follows
  <2> QED
      BY <1>3, <2>1
<1>6. k = 0 => (g.pc \in LoadAt <=> stack[t][1].pc \in LoadAt) /\ (stack[t][1].pc = "term" => g.pc = "term")
  <2>1. k = 0 => stack[t][1] = f
      BY <1>1
  <2> QED
      BY <2>1 DEF Follows
<1>7. Failing(t)' => Failing(t) \/ FailsAlone(t)
  <2>1. g.pc \notin Fails => (Failing(t)' => Failing(t))
    <3> HIDE DEF k, fs
    <3> QED
      BY <1>1, <1>2, <1>3, StillSafe
  <2> QED
      BY <1>1, <2>1
<1>8. \A i \in Inst : \E a, b \in Nat :
        /\ Cardinality(Holders(stack', i)) + a = Cardinality(Holders(stack, i)) + b
        /\ Moves(i, a, b)
  <2>1. \A i : Own(f, i) \in Nat /\ Own(g, i) \in Nat
      BY DEF Own
  <2> QED
      BY <1>2, <2>1
<1>9. /\ Len(fs) <= 2 /\ Len(fs) # 2 /\ \A n \in DOMAIN fs : Sound(mod', fs[n])
      /\ fs[1].pc = "term" => ended
    BY <1>1, <1>3 DEF Follows
<1> HIDE DEF k, fs, f
<1> QED
    BY <1>1, <1>2, <1>3, <1>4, <1>5, <1>6, <1>7, <1>8, <1>9, StableStep

LEMMA CallInv ==
  ASSUME SerialUnload, LoaderInv, TypeInv', Stable, NEW t \in LThread, ~Idle(t),
         NEW g \in FrameType, NEW h \in FrameType, Call(t, g, h),
         Follows(Top(t), g), Waits(g, h), Sound(mod', g), Sound(mod', h),
         g.pc \in Fails \/ h.pc \in Fails => Top(t).pc \in Fails \/ FailsAlone(t),
         \A i \in Inst : Moves(i, Own(Top(t), i), Own(g, i) + Own(h, i))
  PROVE  LoaderInv'
<1> DEFINE f == Top(t)
           k == Len(stack[t]) - 1
           fs == <<g, h>>
<1>1. /\ stack \in StackType /\ k \in 0..Len(stack[t]) /\ f = stack[t][Len(stack[t])]
      /\ DOMAIN stack[t] = 1..Len(stack[t]) /\ Len(stack[t]) \in Nat
      /\ (f.pc = "term" => ended) /\ (f.pc \in Fails => Failing(t))
    BY TopSound
<1>2. /\ Went(t, k, fs)
      /\ \A i : /\ Cardinality(Holders(stack, i)) \in Nat /\ Cardinality(Holders(stack', i)) \in Nat
                /\ Cardinality(Holders(stack', i)) + Own(f, i)
                     = Cardinality(Holders(stack, i)) + Own(g, i) + Own(h, i)
    BY <1>1, CallCount
<1>3. fs \in Seq(FrameType) /\ Len(fs) = 2 /\ DOMAIN fs = {1, 2} /\ fs[1] = g /\ fs[2] = h
    OBVIOUS
<1>4. k >= 1 => Waits(stack[t][k], g)
  <2>1. ASSUME k >= 1 PROVE Waits(stack[t][k], f)
    <3>1. Len(stack[t]) > 1 /\ Caller(t) = stack[t][k]
        BY <1>1, <2>1 DEF Caller
    <3> QED
        BY <3>1, CallerSound
  <2> QED
      BY <2>1, WaitsFollows
<1>5. \A n \in DOMAIN stack[t] :
        n > k /\ stack[t][n].pc \in {"detach", "deps"} =>
          \E m \in DOMAIN fs : fs[m].pc \in {"detach", "deps"} /\ fs[m].inst = stack[t][n].inst
  <2>1. ASSUME NEW n \in DOMAIN stack[t], n > k, stack[t][n].pc \in {"detach", "deps"}
        PROVE  g.pc \in {"detach", "deps"} /\ g.inst = stack[t][n].inst
    <3>1. stack[t][n] = f
        BY <1>1, <2>1
    <3> QED
        BY <2>1, <3>1 DEF Follows
  <2> QED
      BY <1>3, <2>1
<1>6. k = 0 => (g.pc \in LoadAt <=> stack[t][1].pc \in LoadAt) /\ (stack[t][1].pc = "term" => g.pc = "term")
  <2>1. k = 0 => stack[t][1] = f
      BY <1>1
  <2> QED
      BY <2>1 DEF Follows
<1>7. Failing(t)' => Failing(t) \/ FailsAlone(t)
  <2>1. g.pc \notin Fails /\ h.pc \notin Fails => (Failing(t)' => Failing(t))
    <3> HIDE DEF k, fs
    <3> QED
      BY <1>1, <1>2, <1>3, StillSafe
  <2> QED
      BY <1>1, <2>1
<1>8. \A i \in Inst : \E a, b \in Nat :
        /\ Cardinality(Holders(stack', i)) + a = Cardinality(Holders(stack, i)) + b
        /\ Moves(i, a, b)
  <2> SUFFICES ASSUME NEW i \in Inst
               PROVE  \E a, b \in Nat :
                        /\ Cardinality(Holders(stack', i)) + a = Cardinality(Holders(stack, i)) + b
                        /\ Moves(i, a, b)
      OBVIOUS
  <2> DEFINE x == Own(f, i)
             y == Own(g, i) + Own(h, i)
  <2>1. x \in Nat /\ y \in Nat
      BY DEF Own
  <2>2. Cardinality(Holders(stack', i)) + x = Cardinality(Holders(stack, i)) + y
    <3>1. Own(g, i) \in Nat /\ Own(h, i) \in Nat
        BY DEF Own
    <3> QED
        BY <1>2, <3>1
  <2>3. Moves(i, x, y)
      OBVIOUS
  <2> HIDE DEF x, y
  <2> QED
      BY <2>1, <2>2, <2>3
<1>9. /\ Len(fs) <= 2 /\ \A n \in DOMAIN fs : Sound(mod', fs[n])
      /\ fs[1].pc = "term" => ended
    BY <1>1, <1>3 DEF Follows
<1> HIDE DEF k, fs, f
<1> QED
    BY <1>1, <1>2, <1>3, <1>4, <1>5, <1>6, <1>7, <1>8, <1>9, StableStep

LEMMA PopInv ==
  ASSUME SerialUnload, LoaderInv, TypeInv', Stable, NEW t \in LThread, ~Idle(t), Pop(t),
         Top(t).pc \in {"detach", "deps"} => mod[Top(t).inst].deps = <<>>,
         \A i \in Inst : Moves(i, Own(Top(t), i), 0)
  PROVE  LoaderInv'
<1> DEFINE f == Top(t)
           k == Len(stack[t]) - 1
           fs == <<>>
<1>1. /\ stack \in StackType /\ k \in 0..Len(stack[t]) /\ f = stack[t][Len(stack[t])]
      /\ DOMAIN stack[t] = 1..Len(stack[t]) /\ Len(stack[t]) \in Nat
    BY TopSound
<1>2. /\ Went(t, k, fs)
      /\ \A i : /\ Cardinality(Holders(stack, i)) \in Nat /\ Cardinality(Holders(stack', i)) \in Nat
                /\ Cardinality(Holders(stack', i)) + Own(f, i) = Cardinality(Holders(stack, i))
    BY <1>1, PopCount
<1>3. fs \in Seq(FrameType) /\ Len(fs) = 0 /\ DOMAIN fs = {}
    OBVIOUS
<1>4. ASSUME NEW n \in DOMAIN stack[t], n > k PROVE stack[t][n] = f
    BY <1>1, <1>4
<1>5. Failing(t)' => Failing(t)
  <2> HIDE DEF k, fs
  <2> QED
      BY <1>1, <1>2, <1>3, StillSafe
<1>6. \A i \in Inst : \E a, b \in Nat :
        /\ Cardinality(Holders(stack', i)) + a = Cardinality(Holders(stack, i)) + b
        /\ Moves(i, a, b)
  <2>1. \A i : Own(f, i) \in Nat /\ 0 \in Nat
      BY DEF Own
  <2>2. \A i : Cardinality(Holders(stack', i)) + Own(f, i) = Cardinality(Holders(stack, i)) + 0
      BY <1>2
  <2> QED
      BY <2>1, <2>2
<1>7. ~(Len(fs) >= 1) /\ Len(fs) # 2 /\ Len(fs) <= 2
    BY <1>3
<1> HIDE DEF k, fs, f
<1> QED
    BY <1>1, <1>2, <1>3, <1>4, <1>5, <1>6, <1>7, StableStep DEF f

LEMMA AnswerInv ==
  ASSUME SerialUnload, LoaderInv, TypeInv', Stable, NEW t \in LThread, Len(stack[t]) > 1,
         NEW g \in FrameType, Continues(t, Len(stack[t]) - 2, <<g>>),
         Follows(Caller(t), g), Top(t).pc \notin {"detach", "deps"}, Sound(mod', g),
         g.pc \in Fails => Caller(t).pc \in Fails \/ Top(t).pc \in Fails,
         \A i \in Inst : Moves(i, Own(Top(t), i) + Own(Caller(t), i), Own(g, i))
  PROVE  LoaderInv'
<1> DEFINE f == Caller(t)
           k == Len(stack[t]) - 2
           fs == <<g>>
<1>0. ~Idle(t) /\ Top(t) = stack[t][Len(stack[t])]
    BY CallerSound, TopSound
<1>1. /\ stack \in StackType /\ k \in 0..Len(stack[t]) /\ f = stack[t][Len(stack[t]) - 1]
      /\ DOMAIN stack[t] = 1..Len(stack[t]) /\ Len(stack[t]) \in Nat
      /\ (f.pc = "term" => ended) /\ (f.pc \in Fails => Failing(t)) /\ (Top(t).pc \in Fails => Failing(t))
      /\ k >= 1 => Waits(stack[t][k], f)
    BY <1>0, TopSound, CallerSound
<1>2. /\ Went(t, k, fs)
      /\ \A i : /\ Cardinality(Holders(stack, i)) \in Nat /\ Cardinality(Holders(stack', i)) \in Nat
                /\ Cardinality(Holders(stack', i)) + Own(Top(t), i) + Own(f, i)
                     = Cardinality(Holders(stack, i)) + Own(g, i)
    BY <1>1, ReturnCount
<1>3. fs \in Seq(FrameType) /\ Len(fs) = 1 /\ DOMAIN fs = {1} /\ fs[1] = g
    OBVIOUS
<1>4. k >= 1 => Waits(stack[t][k], g)
    BY <1>1, WaitsFollows
<1>5. \A n \in DOMAIN stack[t] :
        n > k /\ stack[t][n].pc \in {"detach", "deps"} =>
          \E m \in DOMAIN fs : fs[m].pc \in {"detach", "deps"} /\ fs[m].inst = stack[t][n].inst
  <2>1. ASSUME NEW n \in DOMAIN stack[t], n > k, stack[t][n].pc \in {"detach", "deps"}
        PROVE  g.pc \in {"detach", "deps"} /\ g.inst = stack[t][n].inst
    <3>1. n = Len(stack[t]) \/ n = Len(stack[t]) - 1
        BY <1>1, <2>1
    <3>2. stack[t][n] = f
        BY <1>0, <1>1, <2>1, <3>1
    <3> QED
        BY <2>1, <3>2 DEF Follows
  <2> QED
      BY <1>3, <2>1
<1>6. k = 0 => (g.pc \in LoadAt <=> stack[t][1].pc \in LoadAt) /\ (stack[t][1].pc = "term" => g.pc = "term")
  <2>1. k = 0 => Len(stack[t]) - 1 = 1
      BY <1>1
  <2>2. k = 0 => stack[t][1] = f
      BY <1>1, <2>1
  <2> QED
      BY <2>2 DEF Follows
<1>7. Failing(t)' => Failing(t) \/ FailsAlone(t)
  <2>1. g.pc \notin Fails => (Failing(t)' => Failing(t))
    <3> HIDE DEF k, fs
    <3> QED
      BY <1>1, <1>2, <1>3, StillSafe
  <2> QED
      BY <1>1, <2>1
<1>8. \A i \in Inst : \E a, b \in Nat :
        /\ Cardinality(Holders(stack', i)) + a = Cardinality(Holders(stack, i)) + b
        /\ Moves(i, a, b)
  <2> SUFFICES ASSUME NEW i \in Inst
               PROVE  \E a, b \in Nat :
                        /\ Cardinality(Holders(stack', i)) + a = Cardinality(Holders(stack, i)) + b
                        /\ Moves(i, a, b)
      OBVIOUS
  <2> DEFINE x == Own(Top(t), i) + Own(f, i)
             y == Own(g, i)
  <2>1. x \in Nat /\ y \in Nat
      BY DEF Own
  <2>2. Cardinality(Holders(stack', i)) + x = Cardinality(Holders(stack, i)) + y
    <3>1. Own(Top(t), i) \in Nat /\ Own(f, i) \in Nat
        BY DEF Own
    <3> QED
        BY <1>2, <3>1
  <2>3. Moves(i, x, y)
      OBVIOUS
  <2> HIDE DEF x, y
  <2> QED
      BY <2>1, <2>2, <2>3
<1>9. /\ Len(fs) <= 2 /\ Len(fs) # 2 /\ \A n \in DOMAIN fs : Sound(mod', fs[n])
      /\ fs[1].pc = "term" => ended
    BY <1>1, <1>3 DEF Follows
<1> HIDE DEF k, fs, f
<1> QED
    BY <1>0, <1>1, <1>2, <1>3, <1>4, <1>5, <1>6, <1>7, <1>8, <1>9, StableStep

-----------------------------------------------------------------------------
(* Frames of a load: one that goes through the imports, one that has       *)
(* registered its module.                                                  *)

Importing(m, f) ==
  /\ f.inst = None /\ f.rest = {}
  /\ f.pc \in {"call", "dep"} => f.imp \in DOMAIN Imports[f.dll]
  /\ f.pc = "dep" => /\ f.found \in Inst /\ m[f.found].st = "registered"
                     /\ m[f.found].dll = NextImport(f).dll
  /\ Distinct(f.deps)
  /\ \A i \in ToSet(f.deps) : m[i].st = "registered" /\ m[i].dll \in Passed(f)
  /\ f.pc = "call" \/ (f.pc = "dep" /\ ~f.inc) =>
       \A i \in ToSet(f.deps) : m[i].dll # NextImport(f).dll

Attaching(m, f) ==
  /\ f.inst \in Inst /\ f.deps = <<>> /\ f.rest = {}
  /\ m[f.inst].st = "registered" /\ m[f.inst].dll = f.dll

ImportAts == {"import", "call", "dep", "abort"}

LEMMA ImportingHolds ==
  ASSUME NEW f \in FrameType, f.pc \in ImportAts, f.inst = None, f.rest = {}
  PROVE  /\ Holds(f) = ToSet(f.deps) \cup {i \in Inst : i = f.found /\ f.pc = "dep" /\ ~f.inc}
         /\ Uses(f) = ToSet(f.deps) \cup {i \in Inst : i = f.found /\ f.pc = "dep"}
         /\ ToSet(f.deps) \subseteq Inst
<1>1. f.deps \in Seq(Inst)
    BY DEF FrameType
<1>2. ToSet(f.deps) \subseteq Inst
    BY <1>1, NoMembers
<1> QED
    BY <1>2, InstFacts DEF Holds, Uses

LEMMA ImportingSound ==
  ASSUME NEW m, NEW f \in FrameType, f.pc \in ImportAts
  PROVE  Sound(m, f) <=> Importing(m, f)
<1>1. /\ f.pc \in LoadAt /\ f.pc \notin HasInst \cup UnloadAt /\ f.pc \notin HasInst \cup {"ref"}
      /\ f.pc \notin {"detach", "deps"}
    BY DEF ImportAts, LoadAt, HasInst, UnloadAt
<1>2. ASSUME Sound(m, f) PROVE Importing(m, f)
  <2>1. Pointed(f) /\ Empty(f) /\ LoadOK(m, f) /\ \A i \in Uses(f) : m[i].st = "registered"
      BY <1>1, <1>2 DEF Sound
  <2>2. f.inst = None /\ f.rest = {}
      BY <1>1, <2>1 DEF Empty
  <2> QED
      BY <2>1, <2>2, ImportingHolds DEF Importing, Pointed, LoadOK
<1>3. ASSUME Importing(m, f) PROVE Sound(m, f)
  <2>1. f.inst = None /\ f.rest = {}
      BY <1>3 DEF Importing
  <2>2. \A i \in Uses(f) : m[i].st = "registered"
      BY <1>3, <2>1, ImportingHolds DEF Importing
  <2>3. Pointed(f) /\ Empty(f)
      BY <1>1, <1>3 DEF Pointed, Empty, Importing
  <2>4. LoadOK(m, f)
      BY <1>1, <1>3 DEF LoadOK, Importing
  <2> QED
      BY <1>1, <2>2, <2>3, <2>4 DEF Sound
<1> QED
    BY <1>2, <1>3

LEMMA AttachingSound ==
  ASSUME NEW m, NEW f \in FrameType, f.pc \in HasInst
  PROVE  /\ Sound(m, f) <=> Attaching(m, f)
         /\ Sound(m, f) => Holds(f) = {f.inst}
<1>1. /\ f.pc \in LoadAt /\ f.pc \notin {"detach", "deps", "dep", "call"}
    BY DEF LoadAt, HasInst
<1>2. ToSet(<<>>) = {} /\ Distinct(<<>>)
    BY DEF ToSet, Distinct
<1>3. f.deps = <<>> /\ f.rest = {} /\ f.inst \in Inst => Holds(f) = {f.inst} /\ Uses(f) = {f.inst}
    BY <1>1, <1>2 DEF Holds, Uses
<1>4. ASSUME Sound(m, f) PROVE Attaching(m, f)
  <2>1. Pointed(f) /\ Empty(f) /\ LoadOK(m, f) /\ \A i \in Uses(f) : m[i].st = "registered"
      BY <1>1, <1>4 DEF Sound
  <2>2. f.inst \in Inst /\ f.deps = <<>> /\ f.rest = {}
      BY <1>1, <2>1 DEF Empty, Pointed
  <2> QED
      BY <1>3, <2>1, <2>2 DEF Attaching, LoadOK
<1>5. ASSUME Attaching(m, f) PROVE Sound(m, f)
  <2>1. f.inst \in Inst /\ f.deps = <<>> /\ f.rest = {}
      BY <1>5 DEF Attaching
  <2>2. \A i \in Uses(f) : m[i].st = "registered"
      BY <1>3, <1>5, <2>1 DEF Attaching
  <2>3. Pointed(f) /\ Empty(f)
      BY <1>1, <2>1 DEF Pointed, Empty
  <2>4. LoadOK(m, f)
      BY <1>1, <1>2, <1>5, <2>1 DEF LoadOK, Attaching
  <2> QED
      BY <1>1, <2>2, <2>3, <2>4 DEF Sound
<1> QED
    BY <1>3, <1>4, <1>5 DEF Attaching

(* A load that waits for an import gets it, or fails with it.              *)
LEMMA AnsweredSound ==
  ASSUME NEW m, NEW f \in FrameType, f.pc = "call", Sound(m, f),
         NEW i \in Inst \cup {None}, NEW g, g = Answered(f, i),
         i # None => m[i].st = "registered" /\ m[i].dll = NextImport(f).dll
  PROVE  /\ g \in FrameType /\ Sound(m, g) /\ Follows(f, g)
         /\ g.pc = IF i = None THEN "abort" ELSE "dep"
         /\ \A j \in Inst : Own(g, j) = Own(f, j) + IF j = i THEN 1 ELSE 0
<1>0. IsAnswer(f, i, g)
    BY AnsweredFacts
<1>1. /\ g \in FrameType /\ g.pc = (IF i = None THEN "abort" ELSE "dep")
      /\ g.found = i /\ g.inc = FALSE /\ g.dll = f.dll /\ g.imp = f.imp
      /\ g.deps = f.deps /\ g.inst = f.inst /\ g.rest = f.rest
    BY <1>0 DEF IsAnswer
<1>2. f.pc \in ImportAts /\ g.pc \in ImportAts
    BY <1>1 DEF ImportAts
<1>3. Importing(m, f)
    BY <1>2, ImportingSound
<1>4. Passed(g) = Passed(f) /\ NextImport(g) = NextImport(f)
    BY <1>1 DEF Passed, NextImport
<1>5. Importing(m, g)
    BY <1>1, <1>3, <1>4 DEF Importing
<1>6. Sound(m, g)
    BY <1>1, <1>2, <1>5, ImportingSound
<1>7. Follows(f, g)
    BY <1>1 DEF Follows, LoadAt, UnloadAt
<1>8. ASSUME NEW j \in Inst PROVE Own(g, j) = Own(f, j) + IF j = i THEN 1 ELSE 0
  <2>1. Holds(f) = ToSet(f.deps)
      BY <1>2, <1>3, ImportingHolds DEF Importing
  <2>2. Holds(g) = ToSet(f.deps) \cup {x \in Inst : x = i /\ i # None}
      BY <1>1, <1>2, <1>5, ImportingHolds, InstFacts DEF Importing
  <2>3. j = i => i # None /\ j \notin ToSet(f.deps)
      BY <1>3, InstFacts DEF Importing
  <2> QED
      BY <2>1, <2>2, <2>3 DEF Own
<1> QED
    BY <1>1, <1>6, <1>7, <1>8

LEMMA ReturnHeld ==
  ASSUME NEW t, NEW i, Return(t, i)
  PROVE  held' = held \/ (i # None /\ held' = [held EXCEPT ![i] = held[i] + 1])
BY DEF Return

(* LdkLoadDll returns a module, or fails and returns none.                 *)
LEMMA ReturnInv ==
  ASSUME SerialUnload, LoaderInv, TypeInv', Stable, NEW t \in LThread, ~Idle(t),
         NEW i \in Inst \cup {None}, Return(t, i), Top(t).pc \in LoadAt,
         i # None => mod'[i].st = "registered" /\ mod'[i].dll = Top(t).dll,
         i = None => Top(t).pc = "abort",
         \A j \in Inst : mod'[j].pinned \/ mod'[j].count + Own(Top(t), j)
                                             = mod[j].count + IF j = i THEN 1 ELSE 0
  PROVE  LoaderInv'
<1>0. Len(stack[t]) \in Nat /\ Len(stack[t]) >= 1
    BY TopSound
<1>1. \A j \in Inst : /\ mod[j].count \in Nat /\ mod'[j].count \in Nat
                      /\ held[j] \in Nat /\ held'[j] \in Nat
    BY InvFacts DEF LTypeOK, TypeInv, ModuleType
<1>2. Top(t).pc \notin {"detach", "deps"}
    BY DEF LoadAt
<1>3. \A f, j : Own(f, j) \in Nat
    BY DEF Own
<1>4. CASE Len(stack[t]) = 1
  <2>1. Pop(t) /\ held' = IF i = None THEN held ELSE [held EXCEPT ![i] = held[i] + 1]
      BY <1>4 DEF Return
  <2>2. held \in [Inst -> Nat]
      BY InvFacts DEF LTypeOK
  <2>3. ASSUME NEW j \in Inst PROVE Moves(j, Own(Top(t), j), 0)
    <3>1. held'[j] = held[j] + IF j = i THEN 1 ELSE 0
        BY <1>1, <2>1, <2>2, InstFacts
    <3>2. mod'[j].pinned \/ mod'[j].count + Own(Top(t), j) = mod[j].count + IF j = i THEN 1 ELSE 0
        OBVIOUS
    <3> DEFINE a == Own(Top(t), j)
               c == mod[j].count
               c2 == mod'[j].count
               h == held[j]
               h2 == held'[j]
               p == mod'[j].pinned
    <3>3. a \in Nat /\ c \in Nat /\ c2 \in Nat /\ h \in Nat /\ h2 \in Nat
        BY <1>1, <1>3
    <3>4. h2 = h + (IF j = i THEN 1 ELSE 0)
        BY <3>1
    <3>5. ASSUME ~p PROVE c2 + h + a = c + h2 + 0
      <4>1. c2 + a = c + (IF j = i THEN 1 ELSE 0)
          BY <3>2, <3>5
      <4> HIDE DEF a, c, c2, h, h2, p
      <4> QED
          BY <3>3, <3>4, <4>1
    <3> QED
        BY <3>5 DEF Moves
  <2> QED
      BY <1>2, <2>1, <2>3, PopInv
<1>5. CASE Len(stack[t]) # 1
  <2> DEFINE f == Caller(t)
             g == Answered(f, i)
  <2>1. Len(stack[t]) > 1
    <3>1. \A n \in Nat : n >= 1 /\ n # 1 => n > 1
        OBVIOUS
    <3> QED
        BY <1>0, <1>5, <3>1, Zenon
  <2>2. Continues(t, Len(stack[t]) - 2, <<g>>) /\ held' = held
      BY <1>5 DEF Return
  <2>3. f \in FrameType /\ Sound(mod, f) /\ Waits(f, Top(t))
      BY <2>1, CallerSound
  <2>4. f.pc = "call" /\ Top(t).dll = NextImport(f).dll
      BY <2>3 DEF Waits
  <2>5. Sound(mod', f)
    <3>1. stack \in StackType /\ FramesSound
        BY InvFacts
    <3>2. Len(stack[t]) - 1 \in DOMAIN stack[t] /\ f = stack[t][Len(stack[t]) - 1]
        BY <2>1, CallerSound
    <3> QED
        BY <3>1, <3>2, FramesKept DEF Stable
  <2>6. /\ g \in FrameType /\ Sound(mod', g) /\ Follows(f, g)
        /\ g.pc = (IF i = None THEN "abort" ELSE "dep")
        /\ \A j \in Inst : Own(g, j) = Own(f, j) + IF j = i THEN 1 ELSE 0
      BY <2>3, <2>4, <2>5, AnsweredSound
  <2> HIDE DEF g, f
  <2>7. g.pc \in Fails => Top(t).pc \in Fails
      BY <2>6 DEF Fails, UnloadAt
  <2>8. ASSUME NEW j \in Inst PROVE Moves(j, Own(Top(t), j) + Own(f, j), Own(g, j))
    <3>1. held'[j] = held[j]
        BY <2>2
    <3>2. mod'[j].pinned \/ mod'[j].count + Own(Top(t), j) = mod[j].count + IF j = i THEN 1 ELSE 0
        OBVIOUS
    <3> DEFINE a == Own(Top(t), j)
               b == Own(f, j)
               d == Own(g, j)
               c == mod[j].count
               c2 == mod'[j].count
               h == held[j]
               p == mod'[j].pinned
    <3>3. a \in Nat /\ b \in Nat /\ d \in Nat /\ c \in Nat /\ c2 \in Nat /\ h \in Nat
        BY <1>1, <1>3
    <3>4. d = b + (IF j = i THEN 1 ELSE 0)
        BY <2>6
    <3>5. ASSUME ~p PROVE c2 + h + (a + b) = c + h + d
      <4>1. c2 + a = c + (IF j = i THEN 1 ELSE 0)
          BY <3>2, <3>5
      <4> HIDE DEF a, b, d, c, c2, h, p
      <4> QED
          BY <3>3, <3>4, <4>1
    <3> QED
        BY <3>1, <3>5 DEF Moves
  <2> QED
      BY <1>2, <2>1, <2>2, <2>6, <2>7, <2>8, AnswerInv DEF f
<1> QED
    BY <1>4, <1>5

(* Nothing happens to the modules.                                         *)
LEMMA QuietStable ==
  ASSUME mod' = mod, held' = held, made' = made, ended' = ended
  PROVE  Stable /\ \A i \in Inst : \A a : Moves(i, a, a)
BY DEF Stable, Keeps, Moves

(* A module is referenced once more, or pinned.                            *)
Referenced(i) ==
  \A j \in Inst :
    /\ mod'[j].dll = mod[j].dll /\ mod'[j].st = mod[j].st /\ mod'[j].deps = mod[j].deps
    /\ mod[j].pinned => mod'[j].pinned
    /\ mod'[j].pinned \/ mod'[j].count = mod[j].count + IF j = i THEN 1 ELSE 0

LEMMA ReferenceStable ==
  ASSUME LTypeOK, NEW i \in Inst, NEW pin \in BOOLEAN, mod' = [mod EXCEPT ![i] = Reference(@, pin)]
  PROVE  Referenced(i)
<1>1. mod \in ModsType /\ \A j \in Inst : mod[j].count \in Nat
    BY TypeFacts
<1>2. /\ Others(i)
      /\ ModuleFields(mod'[i], mod[i].dll, mod[i].st,
                      IF mod[i].pinned \/ pin THEN mod[i].count ELSE mod[i].count + 1,
                      mod[i].deps, mod[i].attached, mod[i].pinned \/ pin)
    BY <1>1, ReferencedOne
<1> SUFFICES ASSUME NEW j \in Inst
             PROVE  /\ mod'[j].dll = mod[j].dll /\ mod'[j].st = mod[j].st /\ mod'[j].deps = mod[j].deps
                    /\ mod[j].pinned => mod'[j].pinned
                    /\ mod'[j].pinned \/ mod'[j].count = mod[j].count + IF j = i THEN 1 ELSE 0
    BY DEF Referenced
<1>3. CASE j = i
  <2>1. /\ mod'[i].dll = mod[i].dll /\ mod'[i].st = mod[i].st /\ mod'[i].deps = mod[i].deps
        /\ mod'[i].pinned = (mod[i].pinned \/ pin)
        /\ mod'[i].count = IF mod[i].pinned \/ pin THEN mod[i].count ELSE mod[i].count + 1
      BY <1>2 DEF ModuleFields
  <2>2. ~mod'[i].pinned => mod'[i].count = mod[i].count + 1
      BY <2>1
  <2> QED
      BY <1>3, <2>1, <2>2
<1>4. CASE j # i
  <2>1. mod'[j] = mod[j]
      BY <1>2, <1>4 DEF Others
  <2> QED
      BY <1>1, <1>4, <2>1
<1> QED
    BY <1>3, <1>4

LEMMA ReferencedStable ==
  ASSUME NEW i \in Inst, Referenced(i), made' = made, ended' = ended,
         \A j \in Inst : held'[j] > 0 => held[j] > 0 \/ Listed(j)
  PROVE  Stable
BY DEF Referenced, Stable, Keeps

(* A call begins.                                                          *)
LEMMA StartInv ==
  ASSUME SerialUnload, LoaderInv, TypeInv', Stable, NEW t \in LThread,
         NEW load \in BOOLEAN, MayBegin(t, load), NEW f \in FrameType, Starts(t, f),
         Sound(mod', f), f.pc # "term", f.pc \in LoadAt <=> load, load => f.pc \notin Fails,
         \A i \in Inst : Moves(i, 0, Own(f, i))
  PROVE  LoaderInv'
<1> DEFINE fs == <<f>>
<1>1. LTypeOK /\ LTypeOK' /\ stack \in StackType /\ Serial /\ LoadCountExact /\ Idle(t)
    BY InvFacts DEF TypeInv, MayBegin
<1>2. /\ Went(t, 0, fs)
      /\ \A i : /\ Cardinality(Holders(stack, i)) \in Nat
                /\ Cardinality(Holders(stack', i)) = Cardinality(Holders(stack, i)) + Own(f, i)
    BY <1>1, StartCount
<1>3. fs \in Seq(FrameType) /\ Len(fs) = 1 /\ DOMAIN fs = {1} /\ fs[1] = f
    OBVIOUS
<1>4. 0 \in 0..Len(stack[t]) /\ DOMAIN stack[t] = {}
    BY <1>1, StackFacts
<1>5. /\ Len(fs) <= 2 /\ Len(fs) # 2 /\ fs[1].pc # "term" /\ ~(0 >= 1)
      /\ \A n \in DOMAIN fs : Sound(mod', fs[n])
    BY <1>3
<1>6. FramesSound' /\ StacksOK' /\ ModsOK' /\ HeldOK'
  <2> HIDE DEF fs
  <2> QED
      BY <1>2, <1>3, <1>4, <1>5, StableParts
<1>7. Serial'
  <2>1. ended' = ended
      BY DEF Stable
  <2> QED
      BY <1>1, <1>2, <2>1, SerialStarts
<1>8. \A i \in Inst : \E a, b \in Nat :
        /\ Cardinality(Holders(stack', i)) + a = Cardinality(Holders(stack, i)) + b
        /\ Moves(i, a, b)
  <2>1. \A i : Own(f, i) \in Nat /\ 0 \in Nat
      BY DEF Own
  <2>2. \A i : Cardinality(Holders(stack', i)) + 0 = Cardinality(Holders(stack, i)) + Own(f, i)
      BY <1>2, <2>1
  <2> QED
      BY <2>1, <2>2
<1>9. \A i \in Inst : Cardinality(Holders(stack, i)) \in Nat /\ Cardinality(Holders(stack', i)) \in Nat
  <2>1. \A i : Own(f, i) \in Nat
      BY DEF Own
  <2> QED
      BY <1>2, <2>1
<1>10. LoadCountExact'
    BY <1>1, <1>8, <1>9, CountStep
<1> QED
    BY <1>1, <1>6, <1>7, <1>10 DEF LoaderInv

(* The stacks are as they were.                                            *)
LEMMA StayInv ==
  ASSUME LoaderInv, TypeInv', Stable, stack' = stack, LThread # {},
         \A i \in Inst : Moves(i, 0, 0)
  PROVE  LoaderInv'
<1>1. LTypeOK /\ LTypeOK' /\ stack \in StackType /\ Serial /\ LoadCountExact
    BY InvFacts DEF TypeInv
<1>2. PICK t \in LThread : TRUE
    OBVIOUS
<1> DEFINE k == Len(stack[t])
           fs == <<>>
<1>3. /\ k \in Nat /\ DOMAIN stack[t] = 1..k
    BY <1>1, <1>2, StackFacts
<1>4. fs \in Seq(FrameType) /\ Len(fs) = 0 /\ DOMAIN fs = {} /\ k \in 0..k /\ k + 0 = k
    BY <1>3
<1> HIDE DEF fs
<1>5. Went(t, k, fs)
    BY <1>1, <1>2, <1>3, <1>4 DEF Went
<1>6. ~(Len(fs) >= 1) /\ Len(fs) # 2 /\ Len(fs) <= 2
    BY <1>4
<1>7. \A n \in DOMAIN stack[t] : ~(n > k)
    BY <1>3
<1>8. FramesSound' /\ StacksOK' /\ ModsOK' /\ HeldOK'
    BY <1>2, <1>4, <1>5, <1>6, <1>7, StableParts
<1>9. Serial'
    BY <1>1 DEF Serial, Stable, Loading, Idle, Failing
<1>10. \A i \in Inst : Cardinality(Holders(stack, i)) \in Nat
    BY <1>1, HoldersFinite
<1>11. \A i \in Inst : \E a, b \in Nat :
        /\ Cardinality(Holders(stack', i)) + a = Cardinality(Holders(stack, i)) + b
        /\ Moves(i, a, b)
    BY <1>10
<1>12. LoadCountExact'
    BY <1>1, <1>10, <1>11, CountStep
<1> QED
    BY <1>1, <1>8, <1>9, <1>12 DEF LoaderInv

LEMMA LoadLibraryInv ==
  ASSUME SerialUnload, LoaderInv, TypeInv', NEW t \in LThread, NEW d \in Dll, LoadLibrary(t, d)
  PROVE  LoaderInv'
<1> DEFINE f == LoadFrame(d, TRUE)
<1>1. Stable /\ \A i \in Inst : \A a : Moves(i, a, a)
    BY QuietStable DEF LoadLibrary
<1>2. f \in FrameType /\ f.pc = "ref" /\ Holds(f) = {} /\ Sound(mod', f)
    BY LoadMade
<1>3. \A i \in Inst : Moves(i, 0, Own(f, i))
    BY <1>1, <1>2 DEF Own
<1>4. f.pc # "term" /\ f.pc \in LoadAt /\ f.pc \notin Fails /\ TRUE \in BOOLEAN
    BY <1>2 DEF LoadAt, Fails, UnloadAt
<1>5. MayBegin(t, TRUE) /\ Starts(t, f)
    BY DEF LoadLibrary
<1> HIDE DEF f
<1>6. \A load \in BOOLEAN : MayBegin(t, load) /\ load => LoaderInv'
    BY <1>1, <1>2, <1>3, <1>4, <1>5, StartInv
<1> QED
    BY <1>5, <1>6

LEMMA FreeLibraryInv ==
  ASSUME SerialUnload, LoaderInv, TypeInv', NEW t \in LThread, NEW i \in Inst, FreeLibrary(t, i)
  PROVE  LoaderInv'
<1> DEFINE f == UnloadFrame(i, "dec")
<1>0. LTypeOK /\ LTypeOK' /\ HeldOK
    BY InvFacts DEF TypeInv
<1>1. /\ mod' = mod /\ made' = made /\ ended' = ended /\ ~ended /\ held[i] > 0
      /\ held' = [held EXCEPT ![i] = held[i] - 1] /\ held \in [Inst -> Nat]
      /\ MayBegin(t, FALSE) /\ Starts(t, f)
    BY <1>0 DEF FreeLibrary, MayBegin, LTypeOK
<1>2. Stable
    BY <1>1 DEF Stable, Keeps
<1>3. Listed(i)
    BY <1>0, <1>1 DEF HeldOK
<1>4. f \in FrameType /\ f.pc = "dec" /\ Holds(f) = {i} /\ Sound(mod', f)
    BY <1>1, <1>3, UnloadMade DEF UnloadAt, Listed
<1>5. f.pc # "term" /\ f.pc \notin LoadAt
    BY <1>4 DEF LoadAt
<1> HIDE DEF f
<1>6. ASSUME NEW j \in Inst PROVE Moves(j, 0, Own(f, j))
  <2>1. mod'[j] = mod[j] /\ mod[j].count \in Nat /\ held[j] \in Nat
      BY <1>0, <1>1, TypeFacts
  <2>2. CASE j = i
    <3>1. held'[j] = held[j] - 1 /\ Own(f, j) = 1
        BY <1>1, <1>4, <2>2 DEF Own
    <3> QED
        BY <2>1, <3>1 DEF Moves
  <2>3. CASE j # i
    <3>1. held'[j] = held[j] /\ Own(f, j) = 0
        BY <1>1, <1>4, <2>3 DEF Own
    <3> QED
        BY <2>1, <3>1 DEF Moves
  <2> QED
      BY <2>2, <2>3
<1>7. \A load \in BOOLEAN : MayBegin(t, load) /\ ~load => LoaderInv'
    BY <1>1, <1>2, <1>4, <1>5, <1>6, StartInv
<1> QED
    BY <1>1, <1>7

LEMMA AddRefInv ==
  ASSUME LoaderInv, TypeInv', NEW t \in LThread, NEW i \in Inst, NEW pin \in BOOLEAN,
         AddRef(t, i, pin)
  PROVE  LoaderInv'
<1>0. LTypeOK /\ LTypeOK' /\ held \in [Inst -> Nat] /\ mod \in ModsType
    BY InvFacts DEF TypeInv, LTypeOK
<1>1. /\ Listed(i) /\ made' = made /\ ended' = ended /\ stack' = stack
      /\ mod' = [mod EXCEPT ![i] = Reference(@, pin)]
      /\ held' = IF mod[i].pinned \/ pin THEN held ELSE [held EXCEPT ![i] = held[i] + 1]
    BY DEF AddRef
<1>2. Referenced(i)
    BY <1>0, <1>1, ReferenceStable
<1>3. \A j \in Inst : held'[j] > 0 => held[j] > 0 \/ Listed(j)
    BY <1>0, <1>1
<1>4. Stable
    BY <1>1, <1>2, <1>3, ReferencedStable
<1>5. mod'[i].pinned = (mod[i].pinned \/ pin)
    BY <1>0, <1>1, ReferencedOne DEF ModuleFields
<1>6. ASSUME NEW j \in Inst PROVE Moves(j, 0, 0)
  <2>1. /\ mod'[j].pinned \/ mod'[j].count = mod[j].count + IF j = i THEN 1 ELSE 0
      BY <1>2 DEF Referenced
  <2>2. mod[j].count \in Nat /\ held[j] \in Nat
      BY <1>0, TypeFacts
  <2>4. CASE j = i
    <3>1. ~mod'[i].pinned => held' = [held EXCEPT ![i] = held[i] + 1]
        BY <1>1, <1>5
    <3>2. ~mod'[i].pinned => held'[i] = held[i] + 1
        BY <1>0, <3>1
    <3> QED
        BY <2>1, <2>2, <2>4, <3>2 DEF Moves
  <2>5. CASE j # i
    <3>1. held'[j] = held[j]
        BY <1>0, <1>1, <2>5
    <3> QED
        BY <2>1, <2>2, <2>5, <3>1 DEF Moves
  <2> QED
      BY <2>4, <2>5
<1> QED
    BY <1>1, <1>4, <1>6, StayInv

LEMMA SnapshotInv ==
  ASSUME SerialUnload, LoaderInv, TypeInv', NEW t \in LThread, Snapshot(t)
  PROVE  LoaderInv'
<1> DEFINE A == Attached
           f == NotifyFrame(A)
<1>0. LTypeOK /\ LTypeOK' /\ mod \in ModsType
    BY InvFacts DEF TypeInv
<1>1. /\ MayBegin(t, FALSE) /\ Starts(t, f) /\ held' = held /\ made' = made /\ ended' = ended
      /\ mod' = [i \in Inst |-> IF i \in A THEN Reference(mod[i], FALSE) ELSE mod[i]]
    BY DEF Snapshot
<1>2. A \in SUBSET Inst /\ \A i \in A : Listed(i)
    BY DEF Attached
<1>3. ASSUME NEW j \in Inst
      PROVE  /\ mod'[j].dll = mod[j].dll /\ mod'[j].st = mod[j].st /\ mod'[j].deps = mod[j].deps
             /\ mod[j].pinned = mod'[j].pinned /\ mod[j].count \in Nat
             /\ mod'[j].pinned \/ mod'[j].count = mod[j].count + IF j \in A THEN 1 ELSE 0
  <2>1. mod[j] \in ModuleType /\ mod[j].count \in Nat
      BY <1>0, TypeFacts
  <2>2. ModuleFields(Reference(mod[j], FALSE), mod[j].dll, mod[j].st,
                     IF mod[j].pinned \/ FALSE THEN mod[j].count ELSE mod[j].count + 1,
                     mod[j].deps, mod[j].attached, mod[j].pinned \/ FALSE)
      BY <2>1, ReferenceMade
  <2>3. CASE j \in A
    <3>1. mod'[j] = Reference(mod[j], FALSE)
        BY <1>1, <2>3
    <3> QED
        BY <2>1, <2>2, <2>3, <3>1 DEF ModuleFields, ModuleType
  <2>4. CASE j \notin A
    <3>1. mod'[j] = mod[j]
        BY <1>1, <2>4
    <3> QED
        BY <2>1, <2>4, <3>1
  <2> QED
      BY <2>3, <2>4
<1>4. Stable
    BY <1>1, <1>3 DEF Stable, Keeps
<1>5. f \in FrameType /\ f.pc = "notify" /\ Holds(f) = A /\ Sound(mod', f)
    BY <1>2, <1>3, NotifyMade DEF Listed
<1>6. f.pc # "term" /\ f.pc \notin LoadAt
    BY <1>5 DEF LoadAt
<1> HIDE DEF f, A
<1>7. ASSUME NEW j \in Inst PROVE Moves(j, 0, Own(f, j))
  <2>1. mod[j].count \in Nat /\ held[j] \in Nat /\ held'[j] = held[j]
      BY <1>0, <1>1, TypeFacts
  <2>2. Own(f, j) = IF j \in A THEN 1 ELSE 0
      BY <1>5 DEF Own
  <2>3. ~mod'[j].pinned => mod'[j].count = mod[j].count + Own(f, j)
      BY <1>3, <2>2
  <2>4. Own(f, j) \in Nat
      BY <2>2
  <2> QED
      BY <2>1, <2>3, <2>4 DEF Moves
<1>8. \A load \in BOOLEAN : MayBegin(t, load) /\ ~load => LoaderInv'
    BY <1>1, <1>4, <1>5, <1>6, <1>7, StartInv
<1> QED
    BY <1>1, <1>8

(* LdkTerminate begins: no other thread is at work.                        *)
LEMMA TerminateBeginsInv ==
  ASSUME LoaderInv, TypeInv', NEW t \in LThread, TerminateBegins(t)
  PROVE  LoaderInv'
<1> DEFINE fs == <<TermFrame>>
<1>1. /\ LTypeOK /\ LTypeOK' /\ stack \in StackType /\ FramesSound /\ StacksOK /\ ModsOK
      /\ LoadCountExact
    BY InvFacts DEF TypeInv
<1>2. /\ mod' = mod /\ held' = held /\ made' = made /\ ended' = TRUE
      /\ \A u \in LThread : Idle(u) /\ stack[u] = <<>>
      /\ Starts(t, TermFrame)
    BY DEF TerminateBegins, Idle
<1>3. /\ Went(t, 0, fs)
      /\ \A i : /\ Cardinality(Holders(stack, i)) \in Nat
                /\ Cardinality(Holders(stack', i)) = Cardinality(Holders(stack, i)) + Own(TermFrame, i)
    BY <1>1, <1>2, StartCount, TermMade
<1>4. fs \in Seq(FrameType) /\ Len(fs) = 1 /\ DOMAIN fs = {1} /\ fs[1] = TermFrame /\ Len(fs) <= 2
    BY TermMade
<1>5. 0 \in 0..Len(stack[t]) /\ ~(0 >= 1)
    BY <1>1, StackFacts
<1>6. /\ \A n \in DOMAIN fs : Sound(mod', fs[n])
      /\ \A u \in LThread : \A n \in DOMAIN stack[u] : FALSE
    BY <1>2, <1>4, TermMade
<1>7. FramesSound'
  <2> HIDE DEF fs
  <2> QED
      BY <1>1, <1>3, <1>4, <1>5, <1>6, FramesStep
<1>8. StacksOK'
  <2>1. Len(fs) # 2
      BY <1>4
  <2> HIDE DEF fs
  <2> QED
      BY <1>1, <1>2, <1>3, <1>4, <1>5, <2>1, StacksStep
<1>9. Serial'
  <2>1. \A u \in LThread : u # t => stack'[u] = <<>>
      BY <1>2, <1>3 DEF Went
  <2>2. stack'[t][1] = TermFrame
    <3>1. \A n \in DOMAIN fs : stack'[t][0 + n] = fs[n]
        BY <1>3 DEF Went
    <3> QED
        BY <1>4, <3>1
  <2>3. stack'[t][1].pc = "term" /\ "term" \notin LoadAt
      BY <2>2, TermMade DEF LoadAt
  <2> QED
      BY <2>1, <2>3 DEF Serial, Loading, Idle
<1>10. ModsOK'
  <2>1. \A j \in Inst : ~Unregistering(j)
      BY <1>6 DEF Unregistering
  <2>2. \A i \in Inst : /\ mod'[i].deps = mod[i].deps
                        /\ Listed(i) => mod'[i].st = "registered"
                        /\ mod[i].st = "none" => mod'[i].st = "none"
                        /\ i > made => held'[i] = 0
      BY <1>1, <1>2 DEF Listed, ModsOK
  <2> QED
      BY <1>1, <1>2, <2>1, <2>2, ModsStep
<1>11. HeldOK'
    BY <1>2 DEF HeldOK
<1>12. LoadCountExact'
  <2>1. \A i : Cardinality(Holders(stack', i)) = Cardinality(Holders(stack, i))
      BY <1>3, TermMade DEF Own
  <2>2. \A i \in Inst : Importers(i)' = Importers(i)
      BY <1>2 DEF Importers
  <2> QED
      BY <1>1, <1>2, <2>1, <2>2 DEF LoadCountExact, References, Listed
<1> QED
    BY <1>1, <1>7, <1>8, <1>9, <1>10, <1>11, <1>12 DEF LoaderInv

LEMMA BeginInv ==
  ASSUME SerialUnload, LoaderInv, TypeInv', NEW t \in LThread, Begin(t)
  PROVE  LoaderInv'
BY LoadLibraryInv, FreeLibraryInv, AddRefInv, SnapshotInv, TerminateBeginsInv DEF Begin

-----------------------------------------------------------------------------
(* The steps of a load.                                                    *)

LEMMA LoadLabels ==
  /\ \A l \in ImportAts \cup HasInst \cup {"ref"} :
       l \in LoadAt /\ l \notin UnloadAt /\ l # "term" /\ l \notin {"detach", "deps"}
  /\ \A l \in {"ref", "import", "call", "dep", "tls", "attach"} : l \notin Fails
  /\ "abort" \in Fails /\ "failing" \in Fails /\ "dec" \in Fails
  /\ \A l \in {"import", "call", "dep", "abort"} : l \in ImportAts
  /\ \A l \in {"tls", "attach", "failing"} : l \in HasInst
  /\ "dec" \in UnloadAt /\ "dec" \notin LoadAt
BY DEF ImportAts, HasInst, LoadAt, UnloadAt, Fails

(* A new load has no references yet.                                       *)
LEMMA RefSound ==
  ASSUME NEW f \in FrameType, f.pc = "ref", Sound(mod, f)
  PROVE  Holds(f) = {} /\ f.deps = <<>> /\ f.rest = {} /\ f.inst = None
<1>1. Empty(f)
    BY DEF Sound
<1>2. f.deps = <<>> /\ f.rest = {} /\ f.inst = None
    BY <1>1 DEF Empty, LoadAt, HasInst, UnloadAt
<1>3. ToSet(<<>>) = {}
    BY DEF ToSet
<1> QED
    BY <1>2, <1>3, InstFacts DEF Holds

LEMMA LoadByNameInv ==
  ASSUME SerialUnload, LoaderInv, TypeInv', NEW t \in LThread, LoadByName(t)
  PROVE  LoaderInv'
<1> DEFINE f == Top(t)
<1>1. ~Idle(t) /\ f.pc = "ref" /\ made' = made /\ ended' = ended
    BY DEF LoadByName, At
<1>2. f \in FrameType /\ Sound(mod, f) /\ f.pc \in LoadAt /\ LTypeOK
    BY <1>1, TopSound, InvFacts, LoadLabels
<1>3. /\ Holds(f) = {} /\ f.deps = <<>> /\ f.rest = {} /\ f.inst = None
      /\ \A j : Own(f, j) = 0
    BY <1>1, <1>2, RefSound DEF Own
<1>4. CASE Named(f.dll) # {}
  <2> DEFINE i == FirstNamed(f.dll)
  <2>1. mod' = [mod EXCEPT ![i] = Reference(@, FALSE)] /\ Return(t, i)
      BY <1>4 DEF LoadByName
  <2>2. i \in Inst /\ Listed(i) /\ mod[i].dll = f.dll
      BY <1>4, FirstNamedIs
  <2> HIDE DEF i, f
  <2>3. Referenced(i)
      BY <1>2, <2>1, <2>2, ReferenceStable
  <2>4. \A j \in Inst : held'[j] > 0 => held[j] > 0 \/ Listed(j)
    <3>1. held' = held \/ held' = [held EXCEPT ![i] = held[i] + 1]
        BY <2>1, ReturnHeld
    <3>2. held \in [Inst -> Nat]
        BY <1>2 DEF LTypeOK
    <3> QED
        BY <2>2, <3>1, <3>2
  <2>5. Stable
      BY <1>1, <2>2, <2>3, <2>4, ReferencedStable
  <2>6. mod'[i].st = "registered" /\ mod'[i].dll = f.dll
      BY <2>2, <2>3 DEF Referenced, Listed
  <2>7. ASSUME NEW j \in Inst
        PROVE  mod'[j].pinned \/ mod'[j].count + Own(f, j) = mod[j].count + IF j = i THEN 1 ELSE 0
    <3>1. mod'[j].pinned \/ mod'[j].count = mod[j].count + IF j = i THEN 1 ELSE 0
        BY <2>3 DEF Referenced
    <3>2. mod[j].count \in Nat /\ Own(f, j) = 0
        BY <1>2, <1>3, TypeFacts
    <3> QED
        BY <3>1, <3>2
  <2>8. i \in Inst \cup {None} /\ i # None
      BY <2>2, InstFacts
  <2> QED
      BY <1>1, <1>2, <2>1, <2>5, <2>6, <2>7, <2>8, ReturnInv DEF f
<1>5. CASE ~(Named(f.dll) # {})
  <2>1. /\ mod' = mod /\ held' = held
        /\ \E l \in {"import", "abort"} : Jump(t, [f EXCEPT !.pc = l]) /\ (l = "abort" => FailsAlone(t))
      BY <1>5 DEF LoadByName
  <2>2. PICK l \in {"import", "abort"} : Jump(t, [f EXCEPT !.pc = l]) /\ (l = "abort" => FailsAlone(t))
      BY <2>1
  <2> DEFINE g == [f EXCEPT !.pc = l]
  <2>3. l \in ImportAts /\ l \in Label /\ l \notin {"call", "dep"} /\ (l \in Fails => l = "abort")
      BY LoadLabels DEF Label, LoadAt
  <2>4. /\ g \in FrameType /\ g.pc = l /\ g.dll = f.dll /\ g.deps = f.deps
        /\ g.inst = f.inst /\ g.rest = f.rest
      BY <1>2, <2>3, Relabelled
  <2> HIDE DEF g, f
  <2>5. Jump(t, g)
      BY <2>2 DEF g
  <2>6. ToSet(<<>>) = {} /\ Distinct(<<>>)
      BY DEF ToSet, Distinct
  <2>7. Importing(mod', g)
      BY <1>3, <2>3, <2>4, <2>6 DEF Importing
  <2>8. Sound(mod', g)
      BY <2>3, <2>4, <2>7, ImportingSound
  <2>9. Holds(g) = {}
      BY <1>3, <2>3, <2>4, <2>6, ImportingHolds
  <2>10. Follows(f, g)
      BY <1>1, <2>3, <2>4, LoadLabels DEF Follows
  <2>11. Stable /\ \A i \in Inst : \A a : Moves(i, a, a)
      BY <1>1, <2>1, QuietStable
  <2>12. \A i \in Inst : Moves(i, Own(f, i), Own(g, i))
      BY <1>3, <2>9, <2>11 DEF Own
  <2> QED
      BY <1>1, <2>2, <2>3, <2>4, <2>5, <2>8, <2>10, <2>11, <2>12, JumpInv DEF f
<1> QED
    BY <1>4, <1>5

LEMMA PassedMore ==
  ASSUME NEW f \in FrameType, NEW g, g.dll = f.dll, g.imp = f.imp + 1
  PROVE  /\ Passed(f) \subseteq Passed(g)
         /\ f.imp \in DOMAIN Imports[f.dll] => NextImport(f).dll \in Passed(g)
<1>1. f.imp \in Nat /\ f.dll \in Dll
    BY DEF FrameType
<1>2. \A S : \A s \in Seq(S) : DOMAIN s \subseteq Nat
    OBVIOUS
<1>3. DOMAIN Imports[f.dll] \subseteq Nat
    BY <1>1, <1>2, LoaderAssumption, Zenon
<1>4. \A n \in Nat : n < f.imp => n < f.imp + 1
    BY <1>1
<1>5. f.imp < f.imp + 1
    BY <1>1
<1> QED
    BY <1>3, <1>4, <1>5 DEF Passed, NextImport

(* No dependency of this load is the import that has to be loaded now: it  *)
(* would have been found, or it would have the extension.                  *)
LEMMA NewImport ==
  ASSUME NEW f \in FrameType, f.pc \in ImportAts, Importing(mod, f), f.imp \in DOMAIN Imports[f.dll],
         ~(NextImport(f).exact /\ Named(NextImport(f).dll) # {}), NEW i \in ToSet(f.deps)
  PROVE  mod[i].dll # NextImport(f).dll
<1> SUFFICES ASSUME mod[i].dll = NextImport(f).dll
             PROVE  FALSE
    OBVIOUS
<1>1. i \in Inst /\ Listed(i) /\ mod[i].dll \in Passed(f)
    BY ImportingHolds DEF Importing, Listed
<1>2. i \in Named(NextImport(f).dll)
    BY <1>1 DEF Named
<1>3. PICK n \in DOMAIN Imports[f.dll] : n < f.imp /\ Imports[f.dll][n].dll = mod[i].dll
    BY <1>1 DEF Passed
<1>4. f.dll \in Dll
    BY DEF FrameType
<1>5. Imports[f.dll][f.imp].exact
    BY <1>3, <1>4, LoaderAssumption DEF NextImport
<1> QED
    BY <1>2, <1>5 DEF NextImport

(* The frame of a load that goes through the imports.                      *)
LEMMA ImportTop ==
  ASSUME LoaderInv, NEW t \in LThread, ~Idle(t), Top(t).pc \in ImportAts
  PROVE  /\ Top(t) \in FrameType /\ Importing(mod, Top(t)) /\ LTypeOK
         /\ Holds(Top(t)) = ToSet(Top(t).deps)
              \cup {i \in Inst : i = Top(t).found /\ Top(t).pc = "dep" /\ ~Top(t).inc}
         /\ ToSet(Top(t).deps) \subseteq Inst /\ Top(t).deps \in Seq(Inst)
         /\ Top(t).dll \in Dll /\ Top(t).imp \in Nat \ {0}
<1>1. Top(t) \in FrameType /\ Importing(mod, Top(t)) /\ LTypeOK
    BY TopSound, ImportingSound, InvFacts
<1>2. Top(t).inst = None /\ Top(t).rest = {}
    BY <1>1 DEF Importing
<1>3. Top(t).deps \in Seq(Inst) /\ Top(t).dll \in Dll /\ Top(t).imp \in Nat \ {0}
    BY <1>1 DEF FrameType
<1> QED
    BY <1>1, <1>2, <1>3, ImportingHolds

LEMMA FindImportInv ==
  ASSUME SerialUnload, LoaderInv, TypeInv', NEW t \in LThread, FindImport(t)
  PROVE  LoaderInv'
<1> DEFINE f == Top(t)
<1>1. /\ ~Idle(t) /\ f.pc = "import" /\ f.imp <= Len(Imports[f.dll])
      /\ mod' = mod /\ held' = held /\ made' = made /\ ended' = ended
    BY DEF FindImport, At
<1>2. /\ f \in FrameType /\ Importing(mod, f) /\ f.pc \in ImportAts
      /\ Holds(f) = ToSet(f.deps) /\ ToSet(f.deps) \subseteq Inst
    BY <1>1, ImportTop, LoadLabels
<1>3. f.imp \in DOMAIN Imports[f.dll]
    BY <1>1, <1>2, ImportAt
<1>4. Stable /\ \A i \in Inst : \A a : Moves(i, a, a)
    BY <1>1, QuietStable
<1>5. CASE NextImport(f).exact /\ Named(NextImport(f).dll) # {}
  <2> DEFINE i == FirstNamed(NextImport(f).dll)
             g == [f EXCEPT !.pc = "dep", !.found = i, !.inc = TRUE]
  <2>1. Jump(t, g)
      BY <1>5 DEF FindImport
  <2>2. i \in Inst /\ Listed(i) /\ mod[i].dll = NextImport(f).dll
      BY <1>5, FirstNamedIs
  <2> HIDE DEF i, f
  <2>3. /\ g \in FrameType /\ g.pc = "dep" /\ g.found = i /\ g.inc = TRUE /\ g.dll = f.dll
        /\ g.imp = f.imp /\ g.deps = f.deps /\ g.inst = f.inst /\ g.rest = f.rest
    <3>1. "dep" \in Label /\ TRUE \in BOOLEAN /\ i \in Inst \cup {None}
        BY <2>2 DEF Label, LoadAt
    <3> QED
        BY <1>2, <3>1 DEF FrameType
  <2> HIDE DEF g
  <2>4. Passed(g) = Passed(f) /\ NextImport(g) = NextImport(f)
      BY <2>3 DEF Passed, NextImport
  <2>5. Importing(mod', g)
      BY <1>1, <1>2, <1>3, <2>2, <2>3, <2>4 DEF Importing, Listed
  <2>6. g.pc \in ImportAts
      BY <2>3, LoadLabels
  <2>7. Sound(mod', g)
      BY <2>3, <2>5, <2>6, ImportingSound
  <2>8. Holds(g) = Holds(f)
      BY <1>2, <2>3, <2>5, <2>6, ImportingHolds DEF Importing
  <2>9. Follows(f, g)
      BY <1>1, <2>3, LoadLabels DEF Follows
  <2>10. \A j \in Inst : Moves(j, Own(f, j), Own(g, j))
      BY <1>4, <2>8 DEF Own
  <2> QED
      BY <1>1, <1>4, <2>1, <2>3, <2>7, <2>9, <2>10, LoadLabels, JumpInv DEF f
<1>6. CASE ~(NextImport(f).exact /\ Named(NextImport(f).dll) # {})
  <2> DEFINE h == LoadFrame(NextImport(f).dll, NextImport(f).exact)
             g == [f EXCEPT !.pc = "call"]
  <2>1. Call(t, g, h)
      BY <1>6 DEF FindImport
  <2>2. NextImport(f).dll \in Dll /\ NextImport(f).exact \in BOOLEAN
      BY <1>2, <1>3, NextImportIs
  <2>3. h \in FrameType /\ h.pc = "ref" /\ h.dll = NextImport(f).dll /\ Holds(h) = {} /\ Sound(mod', h)
      BY <2>2, LoadMade
  <2> HIDE DEF h, f
  <2>4. "call" \in Label
      BY DEF Label, LoadAt
  <2>5. /\ g \in FrameType /\ g.pc = "call" /\ g.dll = f.dll /\ g.imp = f.imp
        /\ g.deps = f.deps /\ g.inst = f.inst /\ g.rest = f.rest
      BY <1>2, <2>4, Relabelled
  <2> HIDE DEF g
  <2>6. Passed(g) = Passed(f) /\ NextImport(g) = NextImport(f)
      BY <2>5 DEF Passed, NextImport
  <2>7. \A i \in ToSet(f.deps) : mod[i].dll # NextImport(f).dll
      BY <1>2, <1>3, <1>6, NewImport
  <2>8. Importing(mod', g)
      BY <1>1, <1>2, <1>3, <2>5, <2>6, <2>7 DEF Importing
  <2>9. g.pc \in ImportAts
      BY <2>5, LoadLabels
  <2>10. Sound(mod', g)
      BY <2>5, <2>8, <2>9, ImportingSound
  <2>11. Holds(g) = Holds(f)
      BY <1>2, <2>5, <2>8, <2>9, ImportingHolds DEF Importing
  <2>12. Follows(f, g)
      BY <1>1, <2>5, LoadLabels DEF Follows
  <2>13. \A j \in Inst : Moves(j, Own(f, j), Own(g, j) + Own(h, j))
    <3>1. \A j : Own(g, j) = Own(f, j) /\ Own(h, j) = 0 /\ Own(f, j) \in Nat
        BY <2>3, <2>11 DEF Own
    <3>2. \A j : Own(g, j) + Own(h, j) = Own(f, j)
        BY <3>1
    <3> QED
        BY <1>4, <3>2
  <2>14. Waits(g, h)
      BY <2>3, <2>5, <2>6, LoadLabels DEF Waits
  <2>15. g.pc \notin Fails /\ h.pc \notin Fails
      BY <2>3, <2>5, LoadLabels
  <2> QED
      BY <1>1, <1>4, <2>1, <2>3, <2>5, <2>10, <2>12, <2>13, <2>14, <2>15, CallInv DEF f
<1> QED
    BY <1>5, <1>6

LEMMA AddDependencyInv ==
  ASSUME SerialUnload, LoaderInv, TypeInv', NEW t \in LThread, AddDependency(t)
  PROVE  LoaderInv'
<1> DEFINE f == Top(t)
           i == f.found
           known == i \in ToSet(f.deps)
           q == IF known THEN f.deps ELSE Append(f.deps, i)
           g == [f EXCEPT !.pc = "import", !.imp = f.imp + 1, !.deps = q]
<1>1. /\ ~Idle(t) /\ f.pc = "dep" /\ held' = held /\ made' = made /\ ended' = ended
      /\ Jump(t, g)
      /\ f.inc /\ ~known => mod' = [mod EXCEPT ![i] = Reference(@, FALSE)]
      /\ ~(f.inc /\ ~known) => mod' = mod
    BY DEF AddDependency, At
<1>2. /\ f \in FrameType /\ Importing(mod, f) /\ LTypeOK
      /\ Holds(f) = ToSet(f.deps) \cup {j \in Inst : j = i /\ ~f.inc}
      /\ ToSet(f.deps) \subseteq Inst /\ f.deps \in Seq(Inst)
    BY <1>1, ImportTop, LoadLabels
<1>3. /\ i \in Inst /\ mod[i].st = "registered" /\ mod[i].dll = NextImport(f).dll
      /\ f.imp \in DOMAIN Imports[f.dll] /\ Distinct(f.deps)
      /\ known => f.inc
    BY <1>1, <1>2 DEF Importing
<1> HIDE DEF f
<1>4. q \in Seq(Inst) /\ ToSet(q) = ToSet(f.deps) \cup {i} /\ Distinct(q)
  <2>1. CASE known
      BY <1>2, <1>3, <2>1
  <2>2. CASE ~known
    <3>1. /\ Append(f.deps, i) \in Seq(Inst) /\ ToSet(Append(f.deps, i)) = ToSet(f.deps) \cup {i}
          /\ Distinct(f.deps) /\ i \notin ToSet(f.deps) => Distinct(Append(f.deps, i))
      <4> HIDE DEF i
      <4> QED
          BY <1>2, <1>3, MoreMembers
    <3> QED
        BY <1>3, <2>2, <3>1
  <2> QED
      BY <2>1, <2>2
<1>5. "import" \in Label /\ f.imp + 1 \in Nat \ {0}
    BY <1>2 DEF Label, LoadAt, FrameType
<1> HIDE DEF q, i
<1>6. /\ g \in FrameType /\ g.pc = "import" /\ g.dll = f.dll /\ g.imp = f.imp + 1
      /\ g.deps = q /\ g.inst = f.inst /\ g.rest = f.rest
    BY <1>2, <1>4, <1>5 DEF FrameType
<1> HIDE DEF g
<1>7. f.inc /\ ~known => Referenced(i)
    BY <1>1, <1>2, <1>3, ReferenceStable
<1>8. /\ Stable
      /\ \A j \in Inst : mod'[j].dll = mod[j].dll /\ mod'[j].st = mod[j].st
      /\ \A j \in Inst : mod'[j].pinned \/
           mod'[j].count = mod[j].count + IF j = i /\ f.inc /\ ~known THEN 1 ELSE 0
  <2>1. CASE f.inc /\ ~known
      BY <1>1, <1>3, <1>7, <2>1, ReferencedStable DEF Referenced
  <2>2. CASE ~(f.inc /\ ~known)
    <3>1. \A j \in Inst : mod[j].count \in Nat
        BY <1>2, TypeFacts
    <3> QED
        BY <1>1, <2>2, <3>1, QuietStable
  <2> QED
      BY <2>1, <2>2
<1>9. Importing(mod', g)
  <2>1. \A j \in ToSet(q) : mod'[j].st = "registered" /\ mod'[j].dll \in Passed(g)
    <3>1. Passed(f) \subseteq Passed(g) /\ NextImport(f).dll \in Passed(g)
        BY <1>2, <1>3, <1>6, PassedMore
    <3> QED
        BY <1>2, <1>3, <1>4, <1>8, <3>1 DEF Importing
  <2> QED
      BY <1>2, <1>4, <1>6, <2>1 DEF Importing
<1>10. g.pc \in ImportAts
    BY <1>6, LoadLabels
<1>11. Sound(mod', g)
    BY <1>6, <1>9, <1>10, ImportingSound
<1>12. Holds(g) = ToSet(f.deps) \cup {i}
    BY <1>4, <1>6, <1>9, <1>10, ImportingHolds DEF Importing
<1>13. Follows(f, g)
    BY <1>1, <1>6, LoadLabels DEF Follows
<1>14. ASSUME NEW j \in Inst PROVE Moves(j, Own(f, j), Own(g, j))
  <2>1. Own(g, j) = Own(f, j) + IF j = i /\ f.inc /\ ~known THEN 1 ELSE 0
      BY <1>2, <1>3, <1>12 DEF Own
  <2>2. mod[j].count \in Nat /\ held[j] \in Nat /\ held'[j] = held[j] /\ Own(f, j) \in Nat
      BY <1>1, <1>2, TypeFacts DEF Own
  <2>3. mod'[j].pinned \/ mod'[j].count = mod[j].count + IF j = i /\ f.inc /\ ~known THEN 1 ELSE 0
      BY <1>8
  <2> DEFINE b == j = i /\ f.inc /\ ~known
  <2>4. CASE b
      BY <2>1, <2>2, <2>3, <2>4 DEF Moves
  <2>5. CASE ~b
      BY <2>1, <2>2, <2>3, <2>5 DEF Moves
  <2> QED
      BY <2>4, <2>5
<1> QED
    BY <1>1, <1>6, <1>8, <1>11, <1>13, <1>14, LoadLabels, JumpInv DEF f

(* The load gives up: it goes on as one that releases its dependencies.    *)
LEMMA GivesUp ==
  ASSUME NEW m, NEW f \in FrameType, f.pc \in ImportAts, Importing(m, f),
         NEW g, g = [f EXCEPT !.pc = "abort"]
  PROVE  /\ g \in FrameType /\ g.pc = "abort" /\ g.dll = f.dll /\ g.deps = f.deps
         /\ Holds(g) = ToSet(f.deps) /\ Sound(m, g) /\ Follows(f, g)
<1>1. "abort" \in Label
    BY DEF Label, LoadAt
<1>2. /\ g \in FrameType /\ g.pc = "abort" /\ g.dll = f.dll /\ g.imp = f.imp
      /\ g.deps = f.deps /\ g.inst = f.inst /\ g.rest = f.rest
    BY <1>1, Relabelled
<1>3. Passed(g) = Passed(f) /\ g.pc \in ImportAts
    BY <1>2, LoadLabels DEF Passed
<1>4. Importing(m, g)
    BY <1>2, <1>3 DEF Importing
<1>5. Holds(g) = ToSet(f.deps)
    BY <1>2, <1>3, <1>4, ImportingHolds DEF Importing
<1>6. Follows(f, g)
    BY <1>2, <1>3, LoadLabels DEF Follows
<1> QED
    BY <1>2, <1>3, <1>4, <1>5, <1>6, ImportingSound

LEMMA ImageFailsInv ==
  ASSUME SerialUnload, LoaderInv, TypeInv', NEW t \in LThread, ImageFails(t)
  PROVE  LoaderInv'
<1> DEFINE f == Top(t)
           g == [f EXCEPT !.pc = "abort"]
<1>1. /\ ~Idle(t) /\ f.pc = "import" /\ FailsAlone(t) /\ Jump(t, g)
      /\ mod' = mod /\ held' = held /\ made' = made /\ ended' = ended
    BY DEF ImageFails, At, MayGoWrong
<1>2. f \in FrameType /\ Importing(mod, f) /\ f.pc \in ImportAts /\ Holds(f) = ToSet(f.deps)
    BY <1>1, ImportTop, LoadLabels
<1>3. Stable /\ \A i \in Inst : \A a : Moves(i, a, a)
    BY <1>1, QuietStable
<1> HIDE DEF f
<1>4. g \in FrameType /\ g.pc = "abort" /\ Holds(g) = ToSet(f.deps) /\ Sound(mod', g) /\ Follows(f, g)
    BY <1>1, <1>2, GivesUp
<1> HIDE DEF g
<1>5. \A i \in Inst : Moves(i, Own(f, i), Own(g, i))
    BY <1>2, <1>3, <1>4 DEF Own
<1> QED
    BY <1>1, <1>3, <1>4, <1>5, JumpInv DEF f

(* The frame of the unload that a load calls for a module it refers to.    *)
LEMMA ReleaseMade ==
  ASSUME NEW m, NEW i \in Inst, m[i].st = "registered", NEW h, h = UnloadFrame(i, "dec")
  PROVE  /\ h \in FrameType /\ h.pc = "dec" /\ Sound(m, h)
         /\ \A j : Own(h, j) = IF j = i THEN 1 ELSE 0
<1>1. "dec" \in UnloadAt
    BY LoadLabels
<1> QED
    BY <1>1, UnloadMade DEF Own

LEMMA DependencyFailsInv ==
  ASSUME SerialUnload, LoaderInv, TypeInv', NEW t \in LThread, DependencyFails(t)
  PROVE  LoaderInv'
<1> DEFINE f == Top(t)
           g == [f EXCEPT !.pc = "abort"]
           h == UnloadFrame(f.found, "dec")
<1>1. /\ ~Idle(t) /\ f.pc = "dep" /\ FailsAlone(t) /\ f.found \notin ToSet(f.deps)
      /\ mod' = mod /\ held' = held /\ made' = made /\ ended' = ended
      /\ f.inc => Jump(t, g)
      /\ ~f.inc => Call(t, g, h)
    BY DEF DependencyFails, At, MayGoWrong
<1>2. /\ f \in FrameType /\ Importing(mod, f) /\ f.pc \in ImportAts
      /\ Holds(f) = ToSet(f.deps) \cup {i \in Inst : i = f.found /\ ~f.inc}
    BY <1>1, ImportTop, LoadLabels
<1>3. Stable /\ \A i \in Inst : \A a : Moves(i, a, a)
    BY <1>1, QuietStable
<1> HIDE DEF f
<1>4. g \in FrameType /\ g.pc = "abort" /\ Holds(g) = ToSet(f.deps) /\ Sound(mod', g) /\ Follows(f, g)
    BY <1>1, <1>2, GivesUp
<1>5. f.found \in Inst /\ mod'[f.found].st = "registered"
    BY <1>1, <1>2 DEF Importing
<1>6. /\ h \in FrameType /\ h.pc = "dec" /\ Sound(mod', h)
      /\ \A j : Own(h, j) = IF j = f.found THEN 1 ELSE 0
    BY <1>5, ReleaseMade
<1> HIDE DEF g, h
<1>7. CASE f.inc
  <2>1. \A i \in Inst : Moves(i, Own(f, i), Own(g, i))
      BY <1>2, <1>3, <1>4, <1>7 DEF Own
  <2> QED
      BY <1>1, <1>3, <1>4, <1>7, <2>1, JumpInv DEF f
<1>8. CASE ~f.inc
  <2>1. \A i \in Inst : Moves(i, Own(f, i), Own(g, i) + Own(h, i))
    <3>1. ASSUME NEW i \in Inst PROVE Own(g, i) + Own(h, i) = Own(f, i)
        BY <1>1, <1>2, <1>4, <1>6, <1>8 DEF Own
    <3> QED
        BY <1>3, <3>1
  <2>2. Waits(g, h)
      BY <1>4, <1>6, LoadLabels DEF Waits
  <2> QED
      BY <1>1, <1>3, <1>4, <1>6, <1>8, <2>1, <2>2, CallInv DEF f
<1> QED
    BY <1>7, <1>8

LEMMA AbortInv ==
  ASSUME SerialUnload, LoaderInv, TypeInv', NEW t \in LThread, Abort(t)
  PROVE  LoaderInv'
<1> DEFINE f == Top(t)
<1>1. ~Idle(t) /\ f.pc = "abort" /\ mod' = mod /\ made' = made /\ ended' = ended
    BY DEF Abort, At
<1>2. /\ f \in FrameType /\ Importing(mod, f) /\ f.pc \in ImportAts /\ LTypeOK
      /\ Holds(f) = ToSet(f.deps) /\ f.deps \in Seq(Inst) /\ Distinct(f.deps)
    <2>1. f.pc \in ImportAts
        BY <1>1, LoadLabels
    <2> QED
        BY <1>1, <2>1, ImportTop DEF Importing
<1>3. CASE f.deps = <<>>
  <2>1. Return(t, None)
      BY <1>3 DEF Abort
  <2>2. held' = held
      BY <2>1, ReturnHeld
  <2>3. Stable
      BY <1>1, <2>2, QuietStable
  <2>4. \A j : Own(f, j) = 0
    <3>1. ToSet(<<>>) = {}
        BY DEF ToSet
    <3> QED
        BY <1>2, <1>3, <3>1 DEF Own
  <2>5. \A j \in Inst : mod'[j].count + Own(f, j) = mod[j].count + IF j = None THEN 1 ELSE 0
    <3>1. \A j \in Inst : mod[j].count \in Nat /\ j # None
        BY <1>2, TypeFacts, InstFacts
    <3> QED
        BY <1>1, <2>4, <3>1
  <2>6. None \in Inst \cup {None} /\ f.pc \in LoadAt
      BY <1>2, LoadLabels
  <2> HIDE DEF f
  <2> QED
      BY <1>1, <2>1, <2>3, <2>5, <2>6, ReturnInv DEF f
<1>4. CASE f.deps # <<>>
  <2> DEFINE i == Last(f.deps)
             q == Front(f.deps)
             g == [f EXCEPT !.deps = q]
             h == UnloadFrame(i, "dec")
  <2>1. Call(t, g, h) /\ held' = held
      BY <1>4 DEF Abort
  <2>2. Stable /\ \A j \in Inst : \A a : Moves(j, a, a)
      BY <1>1, <2>1, QuietStable
  <2> HIDE DEF f
  <2>3. /\ q \in Seq(Inst) /\ Distinct(q) /\ i \in Inst
        /\ ToSet(f.deps) = ToSet(q) \cup {i} /\ i \notin ToSet(q)
      BY <1>2, <1>4, FrontMembers
  <2>4. mod'[i].st = "registered"
      BY <1>1, <1>2, <2>3 DEF Importing
  <2> HIDE DEF i, q
  <2>5. /\ h \in FrameType /\ h.pc = "dec" /\ Sound(mod', h)
        /\ \A j : Own(h, j) = IF j = i THEN 1 ELSE 0
      BY <2>3, <2>4, ReleaseMade
  <2>6. /\ g \in FrameType /\ g.pc = "abort" /\ g.dll = f.dll /\ g.imp = f.imp
        /\ g.deps = q /\ g.inst = f.inst /\ g.rest = f.rest
      BY <1>1, <1>2, <2>3, WithDeps
  <2> HIDE DEF g, h
  <2>7. Passed(g) = Passed(f) /\ g.pc \in ImportAts
      BY <2>6, LoadLabels DEF Passed
  <2>8. Importing(mod', g)
      BY <1>1, <1>2, <2>3, <2>6, <2>7 DEF Importing
  <2>9. Sound(mod', g)
      BY <2>6, <2>7, <2>8, ImportingSound
  <2>10. Holds(g) = ToSet(q)
      BY <2>6, <2>7, <2>8, ImportingHolds DEF Importing
  <2>11. Follows(f, g)
      BY <1>1, <2>6, LoadLabels DEF Follows
  <2>12. Waits(g, h)
      BY <2>5, <2>6, LoadLabels DEF Waits
  <2>13. \A j \in Inst : Moves(j, Own(f, j), Own(g, j) + Own(h, j))
    <3>1. ASSUME NEW j \in Inst PROVE Own(g, j) + Own(h, j) = Own(f, j)
        BY <1>2, <2>3, <2>5, <2>10 DEF Own
    <3> QED
        BY <2>2, <3>1
  <2>14. f.pc \in Fails
      BY <1>1, LoadLabels
  <2> QED
      BY <1>1, <2>1, <2>2, <2>5, <2>6, <2>9, <2>11, <2>12, <2>13, <2>14, CallInv DEF f
<1> QED
    BY <1>3, <1>4

(* The frame of a load that has registered its module.                     *)
LEMMA AttachTop ==
  ASSUME LoaderInv, NEW t \in LThread, ~Idle(t), Top(t).pc \in HasInst
  PROVE  /\ Top(t) \in FrameType /\ Attaching(mod, Top(t)) /\ LTypeOK
         /\ \A j : Own(Top(t), j) = IF j = Top(t).inst THEN 1 ELSE 0
         /\ Top(t).pc \in LoadAt
<1>1. Top(t) \in FrameType /\ Attaching(mod, Top(t)) /\ LTypeOK /\ Holds(Top(t)) = {Top(t).inst}
    BY TopSound, AttachingSound, InvFacts
<1> QED
    BY <1>1, LoadLabels DEF Own

LEMMA AttachRelabelled ==
  ASSUME NEW m, NEW f \in FrameType, f.pc \in HasInst, Attaching(m, f), NEW l \in HasInst,
         NEW g, g = [f EXCEPT !.pc = l]
  PROVE  /\ g \in FrameType /\ g.pc = l /\ Sound(m, g) /\ Follows(f, g)
         /\ \A j : Own(g, j) = IF j = f.inst THEN 1 ELSE 0
<1>1. l \in Label
    BY DEF Label, LoadAt, HasInst
<1>2. /\ g \in FrameType /\ g.pc = l /\ g.dll = f.dll /\ g.deps = f.deps
      /\ g.inst = f.inst /\ g.rest = f.rest
    BY <1>1, Relabelled
<1>3. Attaching(m, g)
    BY <1>2 DEF Attaching
<1>4. Sound(m, g) /\ Holds(g) = {f.inst}
    BY <1>2, <1>3, AttachingSound
<1>5. Follows(f, g)
    BY <1>2, LoadLabels DEF Follows
<1> QED
    BY <1>2, <1>4, <1>5 DEF Own

LEMMA InitializeTlsInv ==
  ASSUME SerialUnload, LoaderInv, TypeInv', NEW t \in LThread, InitializeTls(t)
  PROVE  LoaderInv'
<1> DEFINE f == Top(t)
           i == f.inst
<1>1. /\ ~Idle(t) /\ f.pc = "tls" /\ held' = held /\ made' = made /\ ended' = ended
      /\ \E l \in {"attach", "failing"} :
           Jump(t, [f EXCEPT !.pc = l]) /\ (l = "failing" => FailsAlone(t))
      /\ \/ mod' = mod
         \/ mod' = [mod EXCEPT ![i].attached = TRUE]
    BY DEF InitializeTls, At, MayGoWrong
<1>2. /\ f \in FrameType /\ Attaching(mod, f) /\ LTypeOK /\ f.pc \in HasInst
      /\ \A j : Own(f, j) = IF j = i THEN 1 ELSE 0
    BY <1>1, AttachTop, LoadLabels
<1>3. i \in Inst /\ mod \in ModsType /\ \A j \in Inst : mod[j].count \in Nat
    BY <1>2, TypeFacts DEF Attaching
<1>4. \A j \in Inst : /\ mod'[j].dll = mod[j].dll /\ mod'[j].st = mod[j].st /\ mod'[j].deps = mod[j].deps
                      /\ mod'[j].pinned = mod[j].pinned /\ mod'[j].count = mod[j].count
  <2>1. CASE mod' = mod
      BY <2>1
  <2>2. CASE mod' = [mod EXCEPT ![i].attached = TRUE]
    <3> HIDE DEF i
    <3>1. /\ Others(i)
          /\ ModuleFields(mod'[i], mod[i].dll, mod[i].st, mod[i].count, mod[i].deps, TRUE, mod[i].pinned)
        BY <1>3, <2>2, ChangedOne
    <3> QED
        BY <3>1 DEF Others, ModuleFields
  <2> QED
      BY <1>1, <2>1, <2>2
<1>5. Stable
    BY <1>1, <1>4 DEF Stable, Keeps
<1>6. PICK l \in {"attach", "failing"} :
        Jump(t, [f EXCEPT !.pc = l]) /\ (l = "failing" => FailsAlone(t))
    BY <1>1
<1> DEFINE g == [f EXCEPT !.pc = l]
<1>7. l \in HasInst /\ (l \in Fails => l = "failing")
    BY LoadLabels
<1> HIDE DEF f, i
<1>8. /\ g \in FrameType /\ g.pc = l /\ Sound(mod', g) /\ Follows(f, g)
      /\ \A j : Own(g, j) = IF j = f.inst THEN 1 ELSE 0
  <2>1. Attaching(mod', f)
      BY <1>2, <1>4 DEF Attaching
  <2> QED
      BY <1>2, <1>7, <2>1, AttachRelabelled
<1>9. Jump(t, g)
    BY <1>6
<1> HIDE DEF g
<1>10. \A j \in Inst : Moves(j, Own(f, j), Own(g, j))
    BY <1>1, <1>2, <1>4, <1>8 DEF Moves, i
<1> QED
    BY <1>1, <1>5, <1>6, <1>7, <1>8, <1>9, <1>10, JumpInv DEF f

LEMMA AttachInv ==
  ASSUME SerialUnload, LoaderInv, TypeInv', NEW t \in LThread, Attach(t)
  PROVE  LoaderInv'
<1> DEFINE f == Top(t)
           i == f.inst
<1>1. ~Idle(t) /\ f.pc = "attach" /\ mod' = mod /\ made' = made /\ ended' = ended
    BY DEF Attach, At
<1>2. /\ f \in FrameType /\ Attaching(mod, f) /\ LTypeOK /\ f.pc \in HasInst /\ f.pc \in LoadAt
      /\ \A j : Own(f, j) = IF j = i THEN 1 ELSE 0
    BY <1>1, AttachTop, LoadLabels
<1>3. /\ i \in Inst /\ i # None /\ mod[i].st = "registered" /\ mod[i].dll = f.dll
      /\ held \in [Inst -> Nat] /\ \A j \in Inst : mod[j].count \in Nat
    BY <1>2, TypeFacts, InstFacts DEF Attaching
<1>4. CASE Return(t, i)
  <2>1. held' = held \/ held' = [held EXCEPT ![i] = held[i] + 1]
      BY <1>4, ReturnHeld
  <2>2. \A j \in Inst : held'[j] > 0 => held[j] > 0 \/ Listed(j)
    <3> HIDE DEF i
    <3> QED
        BY <1>3, <2>1 DEF Listed
  <2>3. Stable
      BY <1>1, <2>2 DEF Stable, Keeps
  <2>4. \A j \in Inst : mod'[j].count + Own(f, j) = mod[j].count + IF j = i THEN 1 ELSE 0
      BY <1>1, <1>2
  <2>5. i \in Inst \cup {None} /\ mod'[i].st = "registered" /\ mod'[i].dll = f.dll
      BY <1>1, <1>3
  <2> HIDE DEF f, i
  <2> QED
      BY <1>1, <1>2, <1>3, <1>4, <2>3, <2>4, <2>5, ReturnInv DEF f
<1>5. CASE FailsAlone(t) /\ Jump(t, [f EXCEPT !.pc = "failing"]) /\ held' = held
  <2> DEFINE g == [f EXCEPT !.pc = "failing"]
  <2>1. Stable /\ \A j \in Inst : \A a : Moves(j, a, a)
      BY <1>1, <1>5, QuietStable
  <2>2. "failing" \in HasInst
      BY LoadLabels
  <2>3. Jump(t, g)
      BY <1>5
  <2> HIDE DEF f, i
  <2>4. /\ g \in FrameType /\ g.pc = "failing" /\ Sound(mod', g) /\ Follows(f, g)
        /\ \A j : Own(g, j) = IF j = f.inst THEN 1 ELSE 0
      BY <1>1, <1>2, <2>2, AttachRelabelled
  <2> HIDE DEF g
  <2>5. \A j \in Inst : Moves(j, Own(f, j), Own(g, j))
      BY <1>2, <2>1, <2>4 DEF i
  <2> QED
      BY <1>1, <1>5, <2>1, <2>3, <2>4, <2>5, JumpInv DEF f
<1> QED
    BY <1>4, <1>5 DEF Attach, MayGoWrong

LEMMA UnloadFailedInv ==
  ASSUME SerialUnload, LoaderInv, TypeInv', NEW t \in LThread, UnloadFailed(t)
  PROVE  LoaderInv'
<1> DEFINE f == Top(t)
           i == f.inst
           g == [f EXCEPT !.pc = "abort", !.inst = None]
           h == UnloadFrame(i, "dec")
<1>1. /\ ~Idle(t) /\ f.pc = "failing" /\ mod' = mod /\ held' = held /\ made' = made /\ ended' = ended
      /\ Call(t, g, h)
    BY DEF UnloadFailed, At
<1>2. /\ f \in FrameType /\ Attaching(mod, f) /\ f.pc \in HasInst
      /\ \A j : Own(f, j) = IF j = i THEN 1 ELSE 0
    BY <1>1, AttachTop, LoadLabels
<1>3. Stable /\ \A j \in Inst : \A a : Moves(j, a, a)
    BY <1>1, QuietStable
<1>4. i \in Inst /\ mod'[i].st = "registered" /\ f.deps = <<>> /\ f.rest = {}
    BY <1>1, <1>2 DEF Attaching
<1>5. "abort" \in Label
    BY DEF Label, LoadAt
<1> HIDE DEF f, i
<1>6. /\ h \in FrameType /\ h.pc = "dec" /\ Sound(mod', h)
      /\ \A j : Own(h, j) = IF j = i THEN 1 ELSE 0
    BY <1>4, ReleaseMade
<1>7. /\ g \in FrameType /\ g.pc = "abort" /\ g.dll = f.dll
      /\ g.deps = f.deps /\ g.inst = None /\ g.rest = f.rest
    BY <1>2, <1>5 DEF FrameType
<1> HIDE DEF g, h
<1>8. g.pc \in ImportAts
    BY <1>7, LoadLabels
<1>9. ToSet(<<>>) = {} /\ Distinct(<<>>)
    BY DEF ToSet, Distinct
<1>10. Importing(mod', g)
    BY <1>4, <1>7, <1>9 DEF Importing
<1>11. Sound(mod', g)
    BY <1>7, <1>8, <1>10, ImportingSound
<1>12. \A j : Own(g, j) = 0
  <2>1. Holds(g) = {}
      BY <1>4, <1>7, <1>8, <1>9, ImportingHolds
  <2> QED
      BY <2>1 DEF Own
<1>13. Follows(f, g)
    BY <1>1, <1>7, LoadLabels DEF Follows
<1>14. Waits(g, h)
    BY <1>6, <1>7, LoadLabels DEF Waits
<1>15. \A j \in Inst : Moves(j, Own(f, j), Own(g, j) + Own(h, j))
  <2>1. \A j : Own(g, j) + Own(h, j) = Own(f, j)
      BY <1>2, <1>6, <1>12
  <2> QED
      BY <1>3, <2>1
<1>16. f.pc \in Fails
    BY <1>1, LoadLabels
<1> QED
    BY <1>1, <1>3, <1>6, <1>7, <1>11, <1>13, <1>14, <1>15, <1>16, CallInv DEF f

(* A module that is not listed is used by no frame and imported by none.   *)
LEMMA Unlisted ==
  ASSUME LoaderInv, NEW i \in Inst, ~Listed(i)
  PROVE  /\ Holders(stack, i) = {} /\ Importers(i) = {}
         /\ \A t \in LThread : \A n \in DOMAIN stack[t] : i \notin Uses(stack[t][n])
<1>1. FramesSound /\ ModsOK /\ stack \in StackType
    BY InvFacts
<1>2. \A t \in LThread : \A n \in DOMAIN stack[t] : i \notin Uses(stack[t][n])
    BY <1>1 DEF FramesSound, Sound, Listed
<1>3. \A t \in LThread : \A n \in DOMAIN stack[t] : i \notin Holds(stack[t][n])
    BY <1>2 DEF Uses
<1>4. Holders(stack, i) = {}
  <2> SUFFICES ASSUME NEW x \in Holders(stack, i) PROVE FALSE
      OBVIOUS
  <2>1. x \in Frames(stack) /\ i \in Holds(stack[x[1]][x[2]])
      BY DEF Holders
  <2>2. PICK t \in LThread : \E n \in DOMAIN stack[t] : x = <<t, n>>
      BY <2>1, FramesOf
  <2>3. PICK n \in DOMAIN stack[t] : x = <<t, n>>
      BY <2>2
  <2> QED
      BY <1>3, <2>1, <2>3
<1>5. Importers(i) = {}
    BY <1>1 DEF ModsOK, Importers
<1> QED
    BY <1>2, <1>4, <1>5

LEMMA RegisterInv ==
  ASSUME SerialUnload, LoaderInv, TypeInv', NEW t \in LThread, Register(t)
  PROVE  LoaderInv'
<1> DEFINE f == Top(t)
           i == made + 1
           g == [f EXCEPT !.pc = "tls", !.inst = i, !.deps = <<>>]
           k == Len(stack[t]) - 1
           fs == <<g>>
<1>1. /\ ~Idle(t) /\ f.pc = "import" /\ made < MaxInst /\ made' = i /\ held' = held /\ ended' = ended
      /\ mod' = [mod EXCEPT ![i] = [@ EXCEPT !.dll = f.dll, !.st = "registered",
                                             !.count = 1, !.deps = f.deps]]
      /\ Jump(t, g)
    BY DEF Register, At
<1>2. /\ f \in FrameType /\ Importing(mod, f) /\ f.pc \in ImportAts /\ LTypeOK
      /\ Holds(f) = ToSet(f.deps) /\ ToSet(f.deps) \subseteq Inst /\ f.deps \in Seq(Inst)
      /\ f.dll \in Dll
    BY <1>1, ImportTop, LoadLabels
<1>3. /\ LTypeOK' /\ mod \in ModsType /\ made \in 0..MaxInst /\ stack \in StackType
      /\ StacksOK /\ Serial /\ ModsOK /\ HeldOK /\ LoadCountExact /\ FramesSound
      /\ held \in [Inst -> Nat]
    BY InvFacts DEF TypeInv, LTypeOK
<1>4. i \in Inst /\ i > made
    BY <1>1, <1>3, LoaderAssumption DEF Inst
<1>5. mod[i].st = "none" /\ held[i] = 0 /\ mod[i].deps = <<>> /\ ~Listed(i)
    BY <1>3, <1>4 DEF ModsOK, Listed
<1>6. \A x \in Inst : Listed(x) => x # i /\ x < i
  <2>1. \A x \in Inst : x > made => ~Listed(x)
      BY <1>3 DEF ModsOK, Listed
  <2>2. \A x \in Inst : x \in Nat
      BY InstFacts
  <2> QED
      BY <1>3, <1>5, <2>1, <2>2
<1> HIDE DEF i, f
<1>7. Others(i) /\ ModuleFields(mod'[i], f.dll, "registered", 1, f.deps, mod[i].attached, mod[i].pinned)
    BY <1>1, <1>2, <1>3, <1>4, RegisteredOne
<1>8. /\ mod'[i].dll = f.dll /\ mod'[i].st = "registered" /\ mod'[i].count = 1 /\ mod'[i].deps = f.deps
      /\ \A j \in Inst : j # i => mod'[j] = mod[j]
    BY <1>7 DEF ModuleFields, Others
<1>9. Keeps(mod, mod')
  <2>1. \A j \in Inst : mod[j].st = "registered" \/ mod[j].st \in Gone => j # i
      BY <1>5 DEF Gone
  <2> QED
      BY <1>8, <2>1 DEF Keeps
<1>10. /\ g \in FrameType /\ g.pc = "tls" /\ g.dll = f.dll /\ g.inst = i /\ g.deps = <<>>
       /\ g.rest = f.rest
  <2>1. "tls" \in Label /\ <<>> \in Seq(Inst) /\ i \in Inst \cup {None}
      BY <1>4 DEF Label, LoadAt
  <2> QED
      BY <1>2, <2>1 DEF FrameType
<1> HIDE DEF g
<1>11. Attaching(mod', g)
    BY <1>2, <1>4, <1>8, <1>10 DEF Attaching, Importing
<1>12. Sound(mod', g) /\ Holds(g) = {i} /\ g.pc \in HasInst
    BY <1>10, <1>11, AttachingSound, LoadLabels
<1>13. Follows(f, g)
    BY <1>1, <1>10, <1>12, LoadLabels DEF Follows
<1>14. /\ Went(t, k, fs)
       /\ \A x : /\ Cardinality(Holders(stack, x)) \in Nat /\ Cardinality(Holders(stack', x)) \in Nat
                 /\ Cardinality(Holders(stack', x)) + Own(f, x) = Cardinality(Holders(stack, x)) + Own(g, x)
    BY <1>1, <1>3, <1>10, JumpCount DEF f
<1>15. /\ k \in 0..Len(stack[t]) /\ f = stack[t][Len(stack[t])] /\ Len(stack[t]) \in Nat
       /\ DOMAIN stack[t] = 1..Len(stack[t])
    BY <1>1, TopSound DEF f
<1>16. fs \in Seq(FrameType) /\ Len(fs) = 1 /\ DOMAIN fs = {1} /\ fs[1] = g /\ Len(fs) <= 2 /\ Len(fs) # 2
    BY <1>10
<1>17. \A n \in DOMAIN fs : Sound(mod', fs[n]) /\ fs[n].pc \notin Fails
    BY <1>10, <1>12, <1>16, LoadLabels
<1>18. k >= 1 => Waits(stack[t][k], g)
  <2>1. ASSUME k >= 1 PROVE Waits(stack[t][k], f)
    <3>1. Len(stack[t]) > 1 /\ Caller(t) = stack[t][k]
        BY <1>15, <2>1 DEF Caller
    <3> QED
        BY <3>1, CallerSound DEF f
  <2> QED
      BY <1>13, <2>1, WaitsFollows
<1>19. k = 0 => stack[t][1] = f
    BY <1>15
<1>20. g.pc # "term" /\ g.pc \in LoadAt /\ f.pc \in LoadAt /\ f.pc # "term"
    BY <1>2, <1>12, LoadLabels
<1>21. \A n \in DOMAIN stack[t] : ~(n > k /\ stack[t][n].pc \in {"detach", "deps"})
  <2>1. ASSUME NEW n \in DOMAIN stack[t], n > k PROVE stack[t][n] = f
      BY <1>15, <2>1
  <2> QED
      BY <1>1, <2>1
<1>22. FramesSound'
  <2>1. \A u \in LThread : \A n \in DOMAIN stack[u] : Sound(mod', stack[u][n])
      BY <1>3, <1>9, FramesKept
  <2> HIDE DEF k, fs
  <2> QED
      BY <1>3, <1>14, <1>15, <1>16, <1>17, <2>1, FramesStep
<1>23. StacksOK'
  <2> HIDE DEF k, fs
  <2> QED
      BY <1>1, <1>3, <1>14, <1>15, <1>16, <1>18, <1>20, StacksStep
<1>24. Serial'
  <2>1. Failing(t)' => Failing(t)
    <3> HIDE DEF k, fs
    <3> QED
        BY <1>3, <1>14, <1>15, <1>16, <1>17, StillSafe
  <2> HIDE DEF k, fs
  <2> QED
      BY <1>1, <1>3, <1>14, <1>15, <1>16, <1>19, <1>20, <2>1, SerialStep
<1>25. ModsOK'
  <2>1. \A j \in Inst : j > made' => j > made /\ j # i
      BY <1>1, <1>3, <1>4, InstFacts DEF i
  <2>2. \A j \in Inst : j > made' => mod'[j].st = "none" /\ held'[j] = 0 /\ mod'[j].deps = <<>>
      BY <1>1, <1>3, <1>8, <2>1 DEF ModsOK
  <2>3. \A j \in Inst : Distinct(mod'[j].deps)
      BY <1>2, <1>3, <1>8 DEF ModsOK, Importing
  <2>4. ASSUME NEW j \in Inst, NEW x \in ToSet(mod'[j].deps)
        PROVE  x < j /\ mod'[x].st = "registered"
    <3>1. CASE j = i
      <4>1. x \in Inst /\ Listed(x)
          BY <1>2, <1>8, <2>4, <3>1 DEF Importing, Listed
      <4> QED
          BY <1>6, <1>8, <3>1, <4>1 DEF Listed
    <3>2. CASE j # i
      <4>1. x \in ToSet(mod[j].deps)
          BY <1>8, <2>4, <3>2
      <4>2. mod[j].deps \in Seq(Inst)
          BY <1>2, TypeFacts
      <4>3. x \in Inst /\ x < j /\ Listed(x)
          BY <1>3, <4>1, <4>2, NoMembers DEF ModsOK
      <4> QED
          BY <1>6, <1>8, <4>3 DEF Listed
    <3> QED
        BY <3>1, <3>2
  <2>5. ASSUME NEW j \in Inst, mod'[j].deps # <<>>, mod'[j].st # "registered"
        PROVE  Unregistering(j)'
    <3>1. j # i /\ mod[j].deps # <<>> /\ ~Listed(j)
        BY <1>8, <2>5 DEF Listed
    <3>2. Unregistering(j)
        BY <1>3, <3>1 DEF ModsOK
    <3> HIDE DEF k, fs
    <3> QED
        BY <1>3, <1>14, <1>15, <1>16, <1>21, <3>2, UnregisteringKept
  <2> QED
      BY <2>2, <2>3, <2>4, <2>5 DEF ModsOK, Listed
<1>26. HeldOK'
    BY <1>1, <1>3, <1>9 DEF HeldOK, Keeps, Listed
<1>27. LoadCountExact'
  <2> SUFFICES ASSUME NEW j \in Inst, mod'[j].st = "registered", ~mod'[j].pinned
               PROVE  mod'[j].count = held'[j] + Cardinality(Importers(j)') + Cardinality(Holders(stack', j))
      BY DEF LoadCountExact, Listed, References
  <2>1. Importers(j)' = IF j \in ToSet(f.deps) THEN Importers(j) \cup {i} ELSE Importers(j)
    <3>1. ToSet(mod[i].deps) = {}
        BY <1>5 DEF ToSet
    <3>2. \A x \in Inst : j \in ToSet(mod'[x].deps) <=>
                            j \in ToSet(mod[x].deps) \/ (x = i /\ j \in ToSet(f.deps))
        BY <1>8, <3>1
    <3> QED
        BY <1>4, <3>2 DEF Importers
  <2>2. i \notin Importers(j)
    <3>1. ToSet(mod[i].deps) = {}
        BY <1>5 DEF ToSet
    <3> QED
        BY <3>1 DEF Importers
  <2>3. CASE j = i
    <3>1. Holders(stack, i) = {} /\ Importers(i) = {}
        BY <1>4, <1>5, Unlisted
    <3>2. i \notin ToSet(f.deps)
        BY <1>2, <1>5 DEF Importing
    <3>3. Cardinality({}) = 0
        BY FS_EmptySet
    <3>4. Own(f, i) = 0 /\ Own(g, i) = 1
        BY <1>2, <1>12, <3>2 DEF Own
    <3> DEFINE H2 == Cardinality(Holders(stack', i))
    <3>6. H2 \in Nat /\ H2 + 0 = 0 + 1
        BY <1>14, <3>1, <3>3, <3>4
    <3>5. H2 = 1
      <4> HIDE DEF H2
      <4> QED
          BY <3>6
    <3> QED
        BY <1>1, <1>5, <1>8, <2>1, <2>3, <3>1, <3>2, <3>3, <3>5
  <2>4. CASE j # i
    <3>1. mod'[j] = mod[j] /\ Listed(j) /\ ~mod[j].pinned
        BY <1>8, <2>4 DEF Listed
    <3>2. mod[j].count = held[j] + Cardinality(Importers(j)) + Cardinality(Holders(stack, j))
        BY <1>3, <3>1 DEF LoadCountExact, References
    <3>3. Own(f, j) = (IF j \in ToSet(f.deps) THEN 1 ELSE 0) /\ Own(g, j) = 0
        BY <1>2, <1>12, <2>4 DEF Own
    <3>4. Cardinality(Importers(j)') = Cardinality(Importers(j)) + (IF j \in ToSet(f.deps) THEN 1 ELSE 0)
      <4> DEFINE b == j \in ToSet(f.deps)
      <4>1. b \in BOOLEAN /\ IsFiniteSet(Importers(j)) /\ i \notin Importers(j)
            /\ Importers(j)' = IF b THEN Importers(j) \cup {i} ELSE Importers(j)
          BY <2>1, <2>2, ImportersFinite
      <4> HIDE DEF b
      <4>2. Cardinality(Importers(j)') = Cardinality(Importers(j)) + IF b THEN 1 ELSE 0
          BY <4>1, AddedOrNot
      <4> QED
          BY <4>2 DEF b
    <3> DEFINE c == mod[j].count
               h == held[j]
               I == Cardinality(Importers(j))
               I2 == Cardinality(Importers(j)')
               H == Cardinality(Holders(stack, j))
               H2 == Cardinality(Holders(stack', j))
               o == Own(f, j)
    <3>5. c \in Nat /\ h \in Nat /\ I \in Nat /\ H \in Nat /\ H2 \in Nat /\ o \in Nat
        BY <1>2, <1>14, <3>3, TypeFacts, ImportersFinite
    <3>6. c = h + I + H /\ I2 = I + o /\ H2 + o = H + 0
        BY <1>14, <3>2, <3>3, <3>4
    <3>7. c = h + I2 + H2
      <4> HIDE DEF c, h, I, I2, H, H2, o
      <4> QED
          BY <3>5, <3>6
    <3> QED
        BY <1>1, <3>1, <3>7
  <2> QED
      BY <2>3, <2>4
<1> QED
    BY <1>3, <1>22, <1>23, <1>24, <1>25, <1>26, <1>27 DEF LoaderInv

-----------------------------------------------------------------------------
(* The steps of an unload that leave every module where it is.             *)

LEMMA UnloadTop ==
  ASSUME LoaderInv, NEW t \in LThread, ~Idle(t), Top(t).pc \in UnloadAt
  PROVE  /\ Top(t) \in FrameType /\ Top(t).inst \in Inst /\ LTypeOK
         /\ Top(t).pc = "dec" => /\ Listed(Top(t).inst)
                                 /\ \A j : Own(Top(t), j) = IF j = Top(t).inst THEN 1 ELSE 0
         /\ Top(t).pc \in {"detach", "deps"} => /\ mod[Top(t).inst].st \in Gone
                                                /\ \A j : Own(Top(t), j) = 0
<1> DEFINE f == Top(t)
           i == f.inst
<1>1. f \in FrameType /\ Pointed(f) /\ Empty(f) /\ LTypeOK
      /\ (\A j \in Uses(f) : mod[j].st = "registered")
      /\ (f.pc \in {"detach", "deps"} => mod[f.inst].st \in Gone)
    BY TopSound, InvFacts DEF Sound
<1>2. i \in Inst /\ f.rest = {} /\ f.deps = <<>> /\ f.pc # "dep"
    BY <1>1 DEF Pointed, Empty, UnloadAt, LoadAt
<1>3. ToSet(<<>>) = {}
    BY DEF ToSet
<1>4. Holds(f) = IF f.pc \in {"detach", "deps"} THEN {} ELSE {i}
    BY <1>2, <1>3 DEF Holds
<1>5. f.pc = "dec" => i \in Uses(f)
    BY <1>4 DEF Uses
<1> QED
    BY <1>1, <1>2, <1>4, <1>5 DEF Own, Listed

LEMMA DetachInv ==
  ASSUME SerialUnload, LoaderInv, TypeInv', NEW t \in LThread, Detach(t)
  PROVE  LoaderInv'
<1> DEFINE f == Top(t)
           i == f.inst
           g == UnloadFrame(i, "deps")
<1>1. /\ ~Idle(t) /\ f.pc = "detach" /\ held' = held /\ made' = made /\ ended' = ended
      /\ mod' = [mod EXCEPT ![i].attached = FALSE] /\ Jump(t, g)
    BY DEF Detach, At
<1>2. /\ f \in FrameType /\ i \in Inst /\ LTypeOK /\ mod[i].st \in Gone /\ \A j : Own(f, j) = 0
    BY <1>1, UnloadTop DEF UnloadAt
<1>3. mod \in ModsType
    BY <1>2, TypeFacts
<1> HIDE DEF i, f
<1>4. \A j \in Inst : /\ mod'[j].dll = mod[j].dll /\ mod'[j].st = mod[j].st /\ mod'[j].deps = mod[j].deps
                      /\ mod'[j].pinned = mod[j].pinned /\ mod'[j].count = mod[j].count
  <2>1. /\ Others(i)
        /\ ModuleFields(mod'[i], mod[i].dll, mod[i].st, mod[i].count, mod[i].deps, FALSE, mod[i].pinned)
      BY <1>1, <1>2, <1>3, ChangedOne
  <2> QED
      BY <2>1 DEF Others, ModuleFields
<1>5. Stable
    BY <1>1, <1>4 DEF Stable, Keeps
<1>6. g \in FrameType /\ g.pc = "deps" /\ g.inst = i /\ Holds(g) = {} /\ Sound(mod', g)
    BY <1>2, <1>4, UnloadMade DEF UnloadAt
<1> HIDE DEF g
<1>7. Follows(f, g)
    BY <1>1, <1>6 DEF Follows, LoadAt, UnloadAt, i
<1>8. f.pc \in Fails
    BY <1>1 DEF Fails, UnloadAt
<1>9. \A j \in Inst : Moves(j, Own(f, j), Own(g, j))
    BY <1>1, <1>2, <1>4, <1>6 DEF Moves, Own
<1> QED
    BY <1>1, <1>5, <1>6, <1>7, <1>8, <1>9, JumpInv DEF f

(* Only loads that go with others can be disturbed by a failure.           *)
LEMMA OthersDoNotLoad ==
  ASSUME SerialUnload, LoaderInv, NEW t \in LThread, ~Idle(t), ~Loading(t)
  PROVE  FailsAlone(t)
<1>1. Serial
    BY InvFacts
<1> QED
    BY <1>1 DEF Serial, FailsAlone

LEMMA NotifyTop ==
  ASSUME SerialUnload, LoaderInv, NEW t \in LThread, ~Idle(t), Top(t).pc \in NotifyAt
  PROVE  /\ Top(t) \in FrameType /\ Top(t).deps = <<>> /\ Top(t).inst = None
         /\ Top(t).rest \in SUBSET Inst /\ \A i \in Top(t).rest : mod[i].st = "registered"
         /\ Holds(Top(t)) = Top(t).rest
         /\ Top(t).pc \notin LoadAt /\ Top(t).pc \notin UnloadAt /\ Top(t).pc # "term"
         /\ FailsAlone(t)
<1> DEFINE f == Top(t)
<1>1. /\ f \in FrameType /\ Sound(mod, f) /\ stack \in StackType
      /\ f = stack[t][Len(stack[t])] /\ Len(stack[t]) \in Nat /\ Len(stack[t]) >= 1
      /\ DOMAIN stack[t] = 1..Len(stack[t])
    BY TopSound
<1>2. f.pc \notin LoadAt /\ f.pc \notin UnloadAt /\ f.pc # "term" /\ f.pc \notin HasInst
    BY DEF NotifyAt, LoadAt, UnloadAt, HasInst
<1>3. f.deps = <<>> /\ f.inst = None
    BY <1>1, <1>2 DEF Sound, Empty
<1>4. Holds(f) = f.rest /\ f.rest \in SUBSET Inst
    BY <1>1, <1>3, NotifySound DEF FrameType
<1>5. \A i \in f.rest : mod[i].st = "registered"
    BY <1>1, <1>4 DEF Sound, Uses
<1>6. Len(stack[t]) = 1
  <2> SUFFICES ASSUME Len(stack[t]) > 1 PROVE FALSE
    <3>1. \A n \in Nat : n >= 1 /\ ~(n > 1) => n = 1
        OBVIOUS
    <3> QED
        BY <1>1, <3>1, Zenon
  <2>1. Waits(Caller(t), f)
      BY CallerSound
  <2> QED
      BY <1>2, <2>1 DEF Waits
<1>7. ~Loading(t)
    BY <1>1, <1>2, <1>6 DEF Loading
<1>8. FailsAlone(t)
    BY <1>7, OthersDoNotLoad
<1> QED
    BY <1>1, <1>2, <1>3, <1>4, <1>5, <1>8

LEMMA NotifyAts == "notify" \in NotifyAt /\ "release" \in NotifyAt
BY DEF NotifyAt

LEMMA NotifiedInv ==
  ASSUME SerialUnload, LoaderInv, TypeInv', NEW t \in LThread, Notified(t)
  PROVE  LoaderInv'
<1> DEFINE f == Top(t)
           g == [f EXCEPT !.pc = "release"]
<1>1. /\ ~Idle(t) /\ f.pc = "notify" /\ mod' = mod /\ held' = held /\ made' = made /\ ended' = ended
      /\ Jump(t, g)
    BY DEF Notified, At
<1>2. /\ f \in FrameType /\ f.deps = <<>> /\ f.inst = None
      /\ f.rest \in SUBSET Inst /\ (\A i \in f.rest : mod[i].st = "registered")
      /\ Holds(f) = f.rest
      /\ f.pc \notin LoadAt /\ f.pc \notin UnloadAt /\ f.pc # "term"
    BY <1>1, NotifyTop, NotifyAts
<1>3. Stable /\ \A i \in Inst : \A a : Moves(i, a, a)
    BY <1>1, QuietStable
<1>4. "release" \in Label
    BY DEF Label, NotifyAt
<1> HIDE DEF f
<1>5. g \in FrameType /\ g.pc = "release" /\ g.deps = <<>> /\ g.inst = None /\ g.rest = f.rest
    BY <1>2, <1>4, Relabelled
<1> HIDE DEF g
<1>6. Holds(g) = f.rest /\ Sound(mod', g)
    BY <1>1, <1>2, <1>5, NotifySound, NotifyAts
<1>7. Follows(f, g)
    BY <1>1, <1>5 DEF Follows, LoadAt, UnloadAt
<1>8. \A i \in Inst : Moves(i, Own(f, i), Own(g, i))
    BY <1>2, <1>3, <1>6 DEF Own
<1>9. g.pc \notin Fails
    BY <1>5 DEF Fails, UnloadAt
<1> QED
    BY <1>1, <1>3, <1>5, <1>6, <1>7, <1>8, <1>9, JumpInv DEF f

LEMMA ReleaseSnapshotInv ==
  ASSUME SerialUnload, LoaderInv, TypeInv', NEW t \in LThread, ReleaseSnapshot(t)
  PROVE  LoaderInv'
<1> DEFINE f == Top(t)
           i == Min(f.rest)
           g == [f EXCEPT !.rest = f.rest \ {i}]
           h == UnloadFrame(i, "dec")
<1>1. /\ ~Idle(t) /\ f.pc = "release" /\ mod' = mod /\ held' = held /\ made' = made /\ ended' = ended
    BY DEF ReleaseSnapshot, At
<1>2. f.rest = {} => Pop(t)
    BY DEF ReleaseSnapshot
<1>3. f.rest # {} => Call(t, g, h)
    BY DEF ReleaseSnapshot
<1>4. /\ f \in FrameType /\ f.deps = <<>> /\ f.inst = None
      /\ f.rest \in SUBSET Inst /\ (\A j \in f.rest : mod[j].st = "registered")
      /\ Holds(f) = f.rest /\ FailsAlone(t)
    BY <1>1, NotifyTop, NotifyAts
<1>5. Stable /\ \A j \in Inst : \A a : Moves(j, a, a)
    BY <1>1, QuietStable
<1>6. CASE f.rest = {}
  <2>1. \A j \in Inst : Moves(j, Own(f, j), 0)
      BY <1>4, <1>5, <1>6 DEF Own
  <2> QED
      BY <1>1, <1>2, <1>5, <1>6, <2>1, PopInv
<1>7. CASE f.rest # {}
  <2>1. i \in Inst /\ i \in f.rest /\ f.rest \ {i} \in SUBSET Inst
      BY <1>4, <1>7, MinIs
  <2> HIDE DEF i, f
  <2>2. /\ h \in FrameType /\ h.pc = "dec" /\ Sound(mod', h)
        /\ \A j : Own(h, j) = IF j = i THEN 1 ELSE 0
      BY <1>1, <1>4, <2>1, ReleaseMade
  <2>3. /\ g \in FrameType /\ g.pc = "release" /\ g.deps = <<>> /\ g.inst = None
        /\ g.rest = f.rest \ {i}
      BY <1>1, <1>4, <2>1 DEF FrameType
  <2> HIDE DEF g, h
  <2>4. Holds(g) = f.rest \ {i} /\ Sound(mod', g)
      BY <1>1, <1>4, <2>3, NotifySound, NotifyAts
  <2>5. Follows(f, g)
      BY <1>1, <2>3 DEF Follows, LoadAt, UnloadAt
  <2>6. Waits(g, h)
      BY <2>2, <2>3, LoadLabels DEF Waits
  <2>7. \A j \in Inst : Moves(j, Own(f, j), Own(g, j) + Own(h, j))
    <3>1. ASSUME NEW j \in Inst PROVE Own(g, j) + Own(h, j) = Own(f, j)
        BY <1>4, <2>1, <2>2, <2>4 DEF Own
    <3> QED
        BY <1>5, <3>1
  <2> QED
      BY <1>1, <1>3, <1>4, <1>5, <1>7, <2>2, <2>3, <2>4, <2>5, <2>6, <2>7, CallInv DEF f
<1> QED
    BY <1>6, <1>7

-----------------------------------------------------------------------------
(* A module leaves: nothing refers to it any more.                         *)

LEMMA LeaveInv ==
  ASSUME SerialUnload, LoaderInv, TypeInv', NEW t \in LThread, NEW i \in Inst, Listed(i),
         NEW k \in 0..Len(stack[t]), NEW fs \in Seq(FrameType), Went(t, k, fs),
         Others(i), mod'[i].st = "leaving", mod'[i].deps = mod[i].deps,
         made' = made, held' = held, ended' = ended, ended \/ held[i] = 0,
         Importers(i) = {},
         \A u \in LThread : \A n \in DOMAIN stack[u] : u # t \/ n <= k => i \notin Uses(stack[u][n]),
         \A n \in DOMAIN stack[t] : n > k => stack[t][n].pc \notin {"detach", "deps"},
         \A n \in DOMAIN fs : Sound(mod', fs[n]),
         \E n \in DOMAIN fs : fs[n].pc = "detach" /\ fs[n].inst = i,
         \A j \in Inst : j # i => Cardinality(Holders(stack', j)) = Cardinality(Holders(stack, j)),
         StacksOK', Serial'
  PROVE  LoaderInv'
<1>1. /\ LTypeOK /\ LTypeOK' /\ stack \in StackType /\ FramesSound /\ ModsOK /\ HeldOK
      /\ LoadCountExact
    BY InvFacts DEF TypeInv
<1>2. \A j \in Inst : j # i => mod'[j] = mod[j]
    BY DEF Others
<1>3. mod[i].st = "registered" /\ "leaving" \in Gone /\ "leaving" # "registered"
    BY DEF Listed, Gone
<1>4. FramesSound'
  <2>1. ASSUME NEW u \in LThread, NEW n \in DOMAIN stack[u], u # t \/ n <= k
        PROVE  Sound(mod', stack[u][n])
    <3> DEFINE e == stack[u][n]
    <3>1. e \in FrameType
        BY <1>1, StackFacts
    <3>2. Sound(mod, e) /\ i \notin Uses(e)
        BY <1>1, <2>1 DEF FramesSound
    <3>3. Uses(e) \subseteq Inst
        BY <3>1, UsesInst
    <3> HIDE DEF e
    <3>4. \A j \in Uses(e) : mod'[j] = mod[j] /\ mod[j].st = "registered"
        BY <1>2, <3>2, <3>3 DEF Sound
    <3>5. e.pc \in {"detach", "deps"} => mod'[e.inst].st \in Gone
      <4> SUFFICES ASSUME e.pc \in {"detach", "deps"} PROVE mod'[e.inst].st \in Gone
          OBVIOUS
      <4>1. e.inst \in Inst /\ mod[e.inst].st \in Gone
          BY <3>2 DEF Sound, Pointed, UnloadAt
      <4> QED
          BY <1>2, <1>3, <4>1
    <3> QED
        BY <3>1, <3>2, <3>4, <3>5, SoundKept DEF e
  <2> QED
      BY <1>1, <2>1, FramesStep
<1>5. ModsOK'
  <2>1. \A j \in Inst : mod'[j].deps = mod[j].deps
      BY <1>2
  <2>2. \A j \in Inst : j > made' => mod'[j].st = "none" /\ held'[j] = 0 /\ mod'[j].deps = <<>>
      BY <1>1, <1>2, <1>3 DEF ModsOK
  <2>3. \A j \in Inst : Distinct(mod'[j].deps)
      BY <1>1, <2>1 DEF ModsOK
  <2>4. ASSUME NEW j \in Inst, NEW x \in ToSet(mod'[j].deps)
        PROVE  x < j /\ mod'[x].st = "registered"
    <3>1. mod[j].deps \in Seq(Inst)
        BY <1>1, TypeFacts
    <3>2. x \in Inst /\ x < j /\ Listed(x)
        BY <1>1, <2>1, <2>4, <3>1, NoMembers DEF ModsOK
    <3>3. x # i
        BY <2>1, <2>4 DEF Importers
    <3> QED
        BY <1>2, <3>2, <3>3 DEF Listed
  <2>5. ASSUME NEW j \in Inst, mod'[j].deps # <<>>, mod'[j].st # "registered"
        PROVE  Unregistering(j)'
    <3>1. CASE j = i
      <4>1. PICK n \in DOMAIN fs : fs[n].pc = "detach" /\ fs[n].inst = i
          OBVIOUS
      <4>2. k + n \in DOMAIN stack'[t] /\ stack'[t][k + n] = fs[n]
        <5>1. \A S : \A s \in Seq(S) : DOMAIN s = 1..Len(s) /\ Len(s) \in Nat
            OBVIOUS
        <5>2. DOMAIN fs = 1..Len(fs) /\ Len(fs) \in Nat
            BY <5>1, Zenon
        <5>3. k \in Nat
            BY <1>1, StackFacts
        <5> QED
            BY <4>1, <5>2, <5>3 DEF Went
      <4> QED
          BY <3>1, <4>1, <4>2 DEF Unregistering
    <3>2. CASE j # i
      <4>1. mod[j].deps # <<>> /\ ~Listed(j)
          BY <1>2, <2>5, <3>2 DEF Listed
      <4>2. Unregistering(j)
          BY <1>1, <4>1 DEF ModsOK
      <4> QED
          BY <1>1, <4>2, UnregisteringKept
    <3> QED
        BY <3>1, <3>2
  <2> QED
      BY <2>2, <2>3, <2>4, <2>5 DEF ModsOK, Listed
<1>6. HeldOK'
    BY <1>1, <1>2 DEF HeldOK, Listed
<1>7. LoadCountExact'
  <2> SUFFICES ASSUME NEW j \in Inst, mod'[j].st = "registered", ~mod'[j].pinned
               PROVE  mod'[j].count = held'[j] + Cardinality(Importers(j)') + Cardinality(Holders(stack', j))
      BY DEF LoadCountExact, Listed, References
  <2>1. j # i /\ mod'[j] = mod[j]
      BY <1>2
  <2>2. Importers(j)' = Importers(j)
    <3>1. \A x \in Inst : mod'[x].deps = mod[x].deps
        BY <1>2
    <3> QED
        BY <3>1 DEF Importers
  <2>3. mod[j].count = held[j] + Cardinality(Importers(j)) + Cardinality(Holders(stack, j))
      BY <1>1, <2>1 DEF LoadCountExact, References, Listed
  <2> QED
      BY <2>1, <2>2, <2>3
<1> QED
    BY <1>1, <1>4, <1>5, <1>6, <1>7 DEF LoaderInv

(* The last reference of a module is the one that is being released.       *)
LEMMA LastReference ==
  ASSUME SerialUnload, LoaderInv, NEW t \in LThread, ~Idle(t), Top(t).pc = "dec",
         ~mod[Top(t).inst].pinned, ~(mod[Top(t).inst].count > 1)
  PROVE  /\ held[Top(t).inst] = 0 /\ Importers(Top(t).inst) = {}
         /\ \A u \in LThread : \A n \in DOMAIN stack[u] :
              u # t \/ n <= Len(stack[t]) - 1 => Top(t).inst \notin Uses(stack[u][n])
<1> DEFINE f == Top(t)
           i == f.inst
           k == Len(stack[t])
           I == Importers(i)
           H == Holders(stack, i)
<1>1. /\ LTypeOK /\ stack \in StackType /\ FramesSound /\ StacksOK /\ Serial /\ LoadCountExact
    BY InvFacts
<1>2. /\ i \in Inst /\ Listed(i) /\ Own(f, i) = 1
    BY UnloadTop DEF UnloadAt
<1>3. mod[i].count = held[i] + Cardinality(I) + Cardinality(H)
    BY <1>1, <1>2 DEF LoadCountExact, References
<1>4. mod[i].count \in Nat /\ held[i] \in Nat /\ IsFiniteSet(I) /\ Cardinality(I) \in Nat
      /\ IsFiniteSet(H) /\ Cardinality(H) \in Nat
    BY <1>1, <1>2, TypeFacts, ImportersFinite, HoldersFinite
<1>5. k \in DOMAIN stack[t] /\ f = stack[t][k] /\ k \in Nat
    BY TopSound
<1>6. <<t, k>> \in H
  <2>1. i \in Holds(f)
      BY <1>2 DEF Own
  <2>2. i \in Holds(stack[t][k])
      BY <1>5, <2>1
  <2> HIDE DEF i, f, k
  <2> QED
      BY <1>5, <2>2, HoldersOf
<1> HIDE DEF i, H, I, k, f
<1>7. IsFiniteSet(H \ {<<t, k>>}) /\ Cardinality(H \ {<<t, k>>}) = Cardinality(H) - 1
    BY <1>4, <1>6, FS_RemoveElement
<1>8. Cardinality(H \ {<<t, k>>}) \in Nat
    BY <1>7, FS_CardinalityType
<1>9. held[i] = 0 /\ Cardinality(I) = 0 /\ Cardinality(H \ {<<t, k>>}) = 0
  <2> DEFINE c == mod[i].count
             a == held[i]
             b == Cardinality(I)
             d == Cardinality(H)
             e == Cardinality(H \ {<<t, k>>})
  <2>1. c = a + b + d /\ c \in Nat /\ a \in Nat /\ b \in Nat /\ d \in Nat /\ e \in Nat /\ e = d - 1
        /\ ~(c > 1)
      BY <1>3, <1>4, <1>7, <1>8 DEF i, f
  <2>2. a = 0 /\ b = 0 /\ e = 0
    <3> HIDE DEF a, b, c, d, e
    <3> QED
        BY <2>1
  <2> QED
      BY <2>2
<1>10. I = {} /\ H \ {<<t, k>>} = {}
    BY <1>4, <1>7, <1>9, FS_EmptySet
<1>11. ASSUME NEW u \in LThread, NEW n \in DOMAIN stack[u], u # t \/ n <= k - 1
       PROVE  i \notin Uses(stack[u][n])
  <2> DEFINE e == stack[u][n]
  <2>1. n \in Nat /\ e \in FrameType
      BY <1>1, StackFacts
  <2>2. <<u, n>> # <<t, k>>
      BY <1>5, <1>11, <2>1
  <2>3. i \notin Holds(e)
    <3>1. <<u, n>> \notin H
        BY <1>10, <2>2
    <3> QED
        BY <3>1, HoldersOf DEF H
  <2>4. ASSUME e.pc = "dep" PROVE FALSE
    <3>1. e.pc \in LoadAt
        BY <2>4, LoadLabels DEF LoadAt
    <3>2. stack[u][1].pc \in LoadAt /\ ~Idle(u)
        BY <1>1, <3>1, StackFacts DEF StacksOK, Idle
    <3>3. Loading(u)
        BY <3>2 DEF Loading
    <3>4. Failing(t)
        BY <1>5, TopSound DEF Fails, UnloadAt, f
    <3>5. u = t
        BY <1>1, <3>2, <3>3, <3>4 DEF Serial
    <3>6. n + 1 \in DOMAIN stack[t]
        BY <1>1, <1>5, <1>11, <2>1, <3>5, StackFacts DEF k
    <3>7. Waits(stack[t][n], stack[t][n + 1])
        BY <1>1, <1>11, <3>5, <3>6 DEF StacksOK
    <3> QED
        BY <2>4, <3>5, <3>7 DEF Waits
  <2> QED
      BY <2>3, <2>4 DEF Uses
<1> QED
    BY <1>9, <1>10, <1>11 DEF I, i, k, f

LEMMA DecrementInv ==
  ASSUME SerialUnload, LoaderInv, TypeInv', NEW t \in LThread, Decrement(t)
  PROVE  LoaderInv'
<1> DEFINE f == Top(t)
           i == f.inst
           g == UnloadFrame(i, "detach")
           k == Len(stack[t]) - 1
           fs == <<g>>
<1>1. /\ ~Idle(t) /\ f.pc = "dec" /\ held' = held /\ made' = made /\ ended' = ended
    BY DEF Decrement, Releases, At
<1>2. /\ f \in FrameType /\ i \in Inst /\ LTypeOK /\ Listed(i)
      /\ \A j : Own(f, j) = IF j = i THEN 1 ELSE 0
    BY <1>1, UnloadTop DEF UnloadAt
<1>3. /\ mod \in ModsType /\ stack \in StackType
      /\ \A j \in Inst : mod[j].count \in Nat /\ held[j] \in Nat
    BY <1>2, TypeFacts
<1>4. CASE mod[i].pinned
  <2>1. Pop(t) /\ mod' = mod
      BY <1>2, <1>4 DEF Decrement, Releases
  <2>2. Stable /\ \A j \in Inst : \A a : Moves(j, a, a)
      BY <1>1, <2>1, QuietStable
  <2>3. ASSUME NEW j \in Inst PROVE Moves(j, Own(f, j), 0)
    <3>1. CASE j = i
        BY <1>4, <2>1, <3>1 DEF Moves
    <3>2. CASE j # i
        BY <1>2, <2>2, <3>2
    <3> QED
        BY <3>1, <3>2
  <2> QED
      BY <1>1, <2>1, <2>2, <2>3, PopInv
<1>5. CASE ~mod[i].pinned /\ mod[i].count > 1
  <2> DEFINE c == mod[i].count - 1
  <2>1. Pop(t) /\ mod' = [mod EXCEPT ![i].count = c]
      BY <1>2, <1>5 DEF Decrement, Releases
  <2>2. c \in Nat
      BY <1>2, <1>3, <1>5
  <2>3. Others(i) /\ ModuleFields(mod'[i], mod[i].dll, mod[i].st, c, mod[i].deps, mod[i].attached, mod[i].pinned)
    <3> HIDE DEF c, i
    <3> QED
        BY <1>2, <1>3, <2>1, <2>2, ChangedOne
  <2> HIDE DEF i
  <2>4. ASSUME NEW j \in Inst
        PROVE  /\ mod'[j].dll = mod[j].dll /\ mod'[j].st = mod[j].st /\ mod'[j].deps = mod[j].deps
               /\ mod'[j].pinned = mod[j].pinned
               /\ mod'[j].count = IF j = i THEN mod[j].count - 1 ELSE mod[j].count
      BY <2>3 DEF Others, ModuleFields
  <2>5. Stable
      BY <1>1, <2>4 DEF Stable, Keeps
  <2>6. ASSUME NEW j \in Inst PROVE Moves(j, Own(f, j), 0)
    <3>1. mod[j].count \in Nat /\ held[j] \in Nat /\ held'[j] = held[j]
        BY <1>1, <1>3
    <3>2. CASE j = i
      <4>1. mod'[j].count = mod[j].count - 1 /\ Own(f, j) = 1
          BY <1>2, <2>4, <3>2 DEF i
      <4> QED
          BY <3>1, <4>1 DEF Moves
    <3>3. CASE j # i
      <4>1. mod'[j].count = mod[j].count /\ Own(f, j) = 0
          BY <1>2, <2>4, <3>3 DEF i
      <4> QED
          BY <3>1, <4>1 DEF Moves
    <3> QED
        BY <3>2, <3>3
  <2> QED
      BY <1>1, <2>1, <2>5, <2>6, PopInv
<1>6. CASE ~mod[i].pinned /\ ~(mod[i].count > 1)
  <2>1. Jump(t, g) /\ mod' = [mod EXCEPT ![i].count = 0, ![i].st = "leaving"]
      BY <1>2, <1>6 DEF Decrement, Releases
  <2>2. /\ held[i] = 0 /\ Importers(i) = {}
        /\ \A u \in LThread : \A n \in DOMAIN stack[u] :
             u # t \/ n <= k => i \notin Uses(stack[u][n])
      BY <1>1, <1>6, LastReference
  <2>3. Serial /\ StacksOK
      BY InvFacts
  <2>4. /\ k \in 0..Len(stack[t]) /\ f = stack[t][Len(stack[t])] /\ Len(stack[t]) \in Nat
        /\ DOMAIN stack[t] = 1..Len(stack[t]) /\ (f.pc \in Fails => Failing(t))
      BY <1>1, TopSound
  <2> HIDE DEF i, f
  <2>5. /\ Others(i) /\ ModuleFields(mod'[i], mod[i].dll, "leaving", 0, mod[i].deps,
                                     mod[i].attached, mod[i].pinned)
      BY <1>2, <1>3, <2>1, ChangedOne
  <2>6. mod'[i].st = "leaving" /\ mod'[i].deps = mod[i].deps
      BY <2>5 DEF ModuleFields
  <2>7. g \in FrameType /\ g.pc = "detach" /\ g.inst = i /\ Holds(g) = {} /\ Sound(mod', g)
      BY <1>2, <2>6, UnloadMade DEF UnloadAt, Gone
  <2> HIDE DEF g
  <2>8. /\ Went(t, k, fs)
        /\ \A x : /\ Cardinality(Holders(stack, x)) \in Nat /\ Cardinality(Holders(stack', x)) \in Nat
                  /\ Cardinality(Holders(stack', x)) + Own(f, x) = Cardinality(Holders(stack, x)) + Own(g, x)
      BY <1>1, <1>3, <2>1, <2>7, JumpCount DEF f
  <2>9. fs \in Seq(FrameType) /\ Len(fs) = 1 /\ DOMAIN fs = {1} /\ fs[1] = g /\ Len(fs) <= 2 /\ Len(fs) # 2
      BY <2>7
  <2>10. Follows(f, g)
      BY <1>1, <2>7 DEF Follows, LoadAt, UnloadAt
  <2>11. k >= 1 => Waits(stack[t][k], g)
    <3>1. ASSUME k >= 1 PROVE Waits(stack[t][k], f)
      <4>1. Len(stack[t]) > 1 /\ Caller(t) = stack[t][k]
          BY <2>4, <3>1 DEF Caller
      <4> QED
          BY <4>1, CallerSound DEF f
    <3> QED
        BY <2>10, <3>1, WaitsFollows
  <2>12. k = 0 => stack[t][1] = f
      BY <2>4
  <2>13. g.pc # "term" /\ g.pc \notin LoadAt /\ f.pc \notin LoadAt /\ f.pc # "term" /\ f.pc \in Fails
      BY <1>1, <2>7 DEF LoadAt, Fails, UnloadAt
  <2>14. \A n \in DOMAIN stack[t] : n > k => stack[t][n].pc \notin {"detach", "deps"}
    <3>1. ASSUME NEW n \in DOMAIN stack[t], n > k PROVE stack[t][n] = f
        BY <2>4, <3>1
    <3> QED
        BY <1>1, <3>1
  <2>15. \A j \in Inst : j # i => Cardinality(Holders(stack', j)) = Cardinality(Holders(stack, j))
    <3>1. ASSUME NEW j \in Inst, j # i PROVE Own(f, j) = 0 /\ Own(g, j) = 0
        BY <1>2, <2>7, <3>1 DEF Own, i
    <3> QED
        BY <2>8, <3>1
  <2>16. /\ \A n \in DOMAIN fs : Sound(mod', fs[n])
         /\ \E n \in DOMAIN fs : fs[n].pc = "detach" /\ fs[n].inst = i
      BY <2>7, <2>9
  <2>17. StacksOK'
    <3> HIDE DEF k, fs
    <3> QED
        BY <1>1, <1>3, <2>3, <2>4, <2>8, <2>9, <2>11, <2>13, StacksStep
  <2>18. Serial'
    <3> HIDE DEF k, fs
    <3> QED
        BY <1>1, <1>3, <2>3, <2>4, <2>8, <2>9, <2>12, <2>13, SerialStep
  <2>19. i \in Inst
      BY <1>2 DEF i
  <2>20. /\ Listed(i) /\ held[i] = 0 /\ Importers(i) = {}
         /\ \A u \in LThread : \A n \in DOMAIN stack[u] :
              u # t \/ n <= k => i \notin Uses(stack[u][n])
      BY <1>2, <2>2 DEF i
  <2> HIDE DEF k, fs
  <2> QED
      BY <1>1, <2>4, <2>5, <2>6, <2>8, <2>9, <2>14, <2>15, <2>16, <2>17, <2>18, <2>19, <2>20, LeaveInv
<1> QED
    BY <1>4, <1>5, <1>6

(* LdkTerminate runs alone, and takes the newest module that is listed.    *)
LEMMA TermTop ==
  ASSUME LoaderInv, NEW t \in LThread, ~Idle(t), Top(t).pc = "term"
  PROVE  /\ ended /\ Len(stack[t]) = 1 /\ stack[t][1] = Top(t)
         /\ \A u \in LThread : u # t => Idle(u) /\ stack[u] = <<>>
         /\ \A j : Own(Top(t), j) = 0 /\ ~Unregistering(j)
<1> DEFINE f == Top(t)
<1>1. Serial /\ stack \in StackType
    BY InvFacts
<1>2. /\ f \in FrameType /\ Sound(mod, f) /\ ended /\ Len(stack[t]) = 1 /\ f = stack[t][1]
      /\ DOMAIN stack[t] = 1..1
    BY TopSound
<1>3. \A u \in LThread : u # t => Idle(u) /\ stack[u] = <<>>
    BY <1>1, <1>2 DEF Serial, Idle
<1>4. f.deps = <<>> /\ f.rest = {} /\ f.inst = None /\ f.pc # "dep"
    BY <1>2 DEF Sound, Empty, LoadAt, UnloadAt, HasInst
<1>5. Holds(f) = {}
  <2>1. ToSet(<<>>) = {}
      BY DEF ToSet
  <2> QED
      BY <1>4, <2>1, InstFacts DEF Holds
<1>6. ASSUME NEW j, Unregistering(j) PROVE FALSE
  <2>1. PICK u \in LThread : \E n \in DOMAIN stack[u] :
          stack[u][n].pc \in {"detach", "deps"} /\ stack[u][n].inst = j
      BY <1>6 DEF Unregistering
  <2>2. PICK n \in DOMAIN stack[u] : stack[u][n].pc \in {"detach", "deps"}
      BY <2>1
  <2>3. CASE u = t
    <3>1. n = 1
        BY <1>2, <2>3
    <3> QED
        BY <1>2, <2>2, <2>3, <3>1
  <2>4. CASE u # t
      BY <1>3, <2>4
  <2> QED
      BY <2>3, <2>4
<1> QED
    BY <1>2, <1>3, <1>5, <1>6 DEF Own

LEMMA TerminateNextInv ==
  ASSUME SerialUnload, LoaderInv, TypeInv', NEW t \in LThread, TerminateNext(t)
  PROVE  LoaderInv'
<1> DEFINE f == Top(t)
           M == {j \in Inst : Listed(j)}
           i == Max(M)
           h == UnloadFrame(i, "detach")
           fs == <<TermFrame, h>>
<1>1. ~Idle(t) /\ f.pc = "term" /\ held' = held /\ made' = made /\ ended' = ended
    BY DEF TerminateNext, At
<1>2. M = {} => Pop(t) /\ mod' = mod
    BY DEF TerminateNext
<1>3. M # {} => mod' = [mod EXCEPT ![i].st = "leaving"] /\ Call(t, TermFrame, h)
    BY DEF TerminateNext, Unregisters
<1>4. /\ ended /\ Len(stack[t]) = 1 /\ stack[t][1] = f
      /\ \A u \in LThread : u # t => Idle(u) /\ stack[u] = <<>>
      /\ \A j : Own(f, j) = 0 /\ ~Unregistering(j)
    BY <1>1, TermTop
<1>5. LTypeOK /\ mod \in ModsType /\ stack \in StackType /\ Serial /\ StacksOK /\ ModsOK
    BY InvFacts
<1>6. CASE M = {}
  <2>1. Stable /\ \A j \in Inst : \A a : Moves(j, a, a)
      BY <1>1, <1>2, <1>6, QuietStable
  <2>2. \A j \in Inst : Moves(j, Own(f, j), 0)
      BY <1>4, <2>1
  <2> QED
      BY <1>1, <1>2, <1>6, <2>1, <2>2, PopInv
<1>7. CASE M # {}
  <2>1. i \in Inst /\ Listed(i) /\ \A j \in Inst : Listed(j) => j <= i
    <3>1. M \in SUBSET Inst
        OBVIOUS
    <3>2. i \in M /\ \A j \in M : j <= i
        BY <1>7, <3>1, MaxIs
    <3> QED
        BY <3>2
  <2>2. mod' = [mod EXCEPT ![i].st = "leaving"] /\ Call(t, TermFrame, h)
      BY <1>3, <1>7
  <2> HIDE DEF M, i, f
  <2>3. "leaving" \in {"leaving", "freed"}
      OBVIOUS
  <2>4. /\ Others(i) /\ ModuleFields(mod'[i], mod[i].dll, "leaving", mod[i].count, mod[i].deps,
                                     mod[i].attached, mod[i].pinned)
      BY <1>5, <2>1, <2>2, <2>3, ChangedOne
  <2>5. mod'[i].st = "leaving" /\ mod'[i].deps = mod[i].deps
      BY <2>4 DEF ModuleFields
  <2>6. h \in FrameType /\ h.pc = "detach" /\ h.inst = i /\ Holds(h) = {} /\ Sound(mod', h)
      BY <2>1, <2>5, UnloadMade DEF UnloadAt, Gone
  <2> HIDE DEF h
  <2>7. Importers(i) = {}
    <3> SUFFICES ASSUME NEW j \in Importers(i) PROVE FALSE
        OBVIOUS
    <3>1. j \in Inst /\ i \in ToSet(mod[j].deps)
        BY DEF Importers
    <3>2. i < j /\ mod[j].deps # <<>>
      <4>1. ToSet(<<>>) = {}
          BY DEF ToSet
      <4> QED
          BY <1>5, <3>1, <4>1 DEF ModsOK
    <3>3. Listed(j)
        BY <1>4, <1>5, <3>1, <3>2 DEF ModsOK
    <3>4. j <= i /\ i \in Nat /\ j \in Nat
        BY <2>1, <3>1, <3>3, InstFacts
    <3> QED
        BY <3>2, <3>4
  <2>8. /\ Went(t, 0, fs)
        /\ \A x : /\ Cardinality(Holders(stack, x)) \in Nat /\ Cardinality(Holders(stack', x)) \in Nat
                  /\ Cardinality(Holders(stack', x)) + Own(f, x)
                       = Cardinality(Holders(stack, x)) + Own(TermFrame, x) + Own(h, x)
    <3>1. Len(stack[t]) - 1 = 0
        BY <1>4
    <3>2. /\ Went(t, Len(stack[t]) - 1, fs)
          /\ \A x : /\ Cardinality(Holders(stack, x)) \in Nat /\ Cardinality(Holders(stack', x)) \in Nat
                    /\ Cardinality(Holders(stack', x)) + Own(f, x)
                         = Cardinality(Holders(stack, x)) + Own(TermFrame, x) + Own(h, x)
        BY <1>1, <1>5, <2>2, <2>6, TermMade, CallCount DEF f
    <3> QED
        BY <3>1, <3>2
  <2>9. /\ fs \in Seq(FrameType) /\ Len(fs) = 2 /\ DOMAIN fs = {1, 2} /\ fs[1] = TermFrame /\ fs[2] = h
        /\ Len(fs) <= 2 /\ Len(fs) >= 1
      BY <2>6, TermMade
  <2>10. 0 \in 0..Len(stack[t]) /\ ~(0 >= 1) /\ DOMAIN stack[t] = 1..1
      BY <1>4, <1>5, StackFacts
  <2>11. TermFrame.pc = "term" /\ TermFrame.pc \notin LoadAt /\ f.pc \notin LoadAt
      BY <1>1, TermMade DEF LoadAt, f
  <2>12. Waits(TermFrame, h)
      BY <2>6, TermMade DEF Waits, UnloadAt, LoadAt
  <2>13. /\ \A n \in DOMAIN fs : Sound(mod', fs[n])
         /\ \E n \in DOMAIN fs : fs[n].pc = "detach" /\ fs[n].inst = i
      BY <2>6, <2>9, TermMade
  <2>14. \A u \in LThread : \A n \in DOMAIN stack[u] : ~(u # t \/ n <= 0)
    <3>1. ASSUME NEW u \in LThread, NEW n \in DOMAIN stack[u] PROVE ~(u # t \/ n <= 0)
      <4>1. u = t
          BY <1>4
      <4> QED
          BY <2>10, <4>1
    <3> QED
        BY <3>1
  <2>15. \A n \in DOMAIN stack[t] : n > 0 => stack[t][n].pc \notin {"detach", "deps"}
    <3>1. \A n \in DOMAIN stack[t] : n = 1
        BY <2>10
    <3> QED
        BY <1>1, <1>4, <3>1 DEF f
  <2>16. \A j \in Inst : j # i => Cardinality(Holders(stack', j)) = Cardinality(Holders(stack, j))
    <3>1. \A j : Own(f, j) = 0 /\ Own(TermFrame, j) = 0 /\ Own(h, j) = 0
        BY <1>4, <2>6, TermMade DEF Own, f
    <3> QED
        BY <2>8, <3>1
  <2>17. StacksOK'
    <3> HIDE DEF fs
    <3> QED
        BY <1>1, <1>4, <1>5, <2>8, <2>9, <2>10, <2>12, StacksStep
  <2>18. Serial'
    <3>1. FailsAlone(t)
      <4>1. ~Loading(t)
          BY <1>4, <2>11 DEF Loading, f
      <4> QED
          BY <1>1, <4>1, OthersDoNotLoad
    <3>2. stack[t][1].pc \notin LoadAt
        BY <1>4, <2>11
    <3> HIDE DEF fs
    <3> QED
        BY <1>1, <1>5, <2>8, <2>9, <2>10, <2>11, <3>1, <3>2, SerialStep
  <2> HIDE DEF fs
  <2> QED
      BY <1>1, <1>4, <2>1, <2>4, <2>5, <2>7, <2>8, <2>9, <2>10, <2>13, <2>14, <2>15, <2>16,
         <2>17, <2>18, LeaveInv
<1> QED
    BY <1>6, <1>7

(* A module that is gone gives up one of its imports, or is freed.         *)
LEMMA GiveUpImport ==
  ASSUME SerialUnload, LoaderInv, TypeInv', NEW t \in LThread, ReleaseDependencies(t),
         mod[Top(t).inst].deps # <<>>
  PROVE  LoaderInv'
<1> DEFINE f == Top(t)
           i == f.inst
           q == mod[i].deps
           p == Front(q)
           x == Last(q)
           h == UnloadFrame(x, "dec")
           k == Len(stack[t]) - 1
           fs == <<f, h>>
<1>1. /\ ~Idle(t) /\ f.pc = "deps" /\ held' = held /\ made' = made /\ ended' = ended
      /\ mod' = [mod EXCEPT ![i].deps = p] /\ Call(t, f, h)
    BY DEF ReleaseDependencies, At
<1>2. /\ f \in FrameType /\ i \in Inst /\ LTypeOK /\ mod[i].st \in Gone /\ \A j : Own(f, j) = 0
    BY <1>1, UnloadTop DEF UnloadAt
<1>3. /\ LTypeOK' /\ mod \in ModsType /\ stack \in StackType /\ FramesSound /\ StacksOK /\ Serial
      /\ ModsOK /\ HeldOK /\ LoadCountExact /\ q \in Seq(Inst) /\ Sound(mod, f)
    BY <1>1, <1>2, InvFacts, TypeFacts, TopSound DEF TypeInv
<1>4. /\ k \in 0..Len(stack[t]) /\ f = stack[t][Len(stack[t])] /\ Len(stack[t]) \in Nat
      /\ DOMAIN stack[t] = 1..Len(stack[t]) /\ (f.pc \in Fails => Failing(t))
    BY <1>1, TopSound
<1>5. q # <<>> /\ Distinct(q)
    BY <1>2, <1>3 DEF ModsOK
<1> HIDE DEF f
<1>6. /\ p \in Seq(Inst) /\ Distinct(p) /\ x \in Inst /\ ToSet(q) = ToSet(p) \cup {x} /\ x \notin ToSet(p)
  <2> HIDE DEF q
  <2> QED
      BY <1>3, <1>5, FrontMembers
<1>7. Listed(x) /\ x # i
  <2>1. Listed(x)
      BY <1>2, <1>3, <1>6 DEF ModsOK
  <2> QED
      BY <1>2, <2>1 DEF Listed, Gone
<1> HIDE DEF p, x
<1>8. Others(i) /\ ModuleFields(mod'[i], mod[i].dll, mod[i].st, mod[i].count, p,
                                mod[i].attached, mod[i].pinned)
  <2> HIDE DEF i, q
  <2> QED
      BY <1>1, <1>2, <1>3, <1>6, ChangedOne
<1>9. /\ mod'[i].deps = p
      /\ \A j \in Inst : j # i => mod'[j] = mod[j]
      /\ \A j \in Inst : /\ mod'[j].dll = mod[j].dll /\ mod'[j].st = mod[j].st
                         /\ mod'[j].pinned = mod[j].pinned /\ mod'[j].count = mod[j].count
    BY <1>8 DEF ModuleFields, Others
<1>10. Keeps(mod, mod')
    BY <1>9 DEF Keeps
<1>11. /\ h \in FrameType /\ h.pc = "dec" /\ Sound(mod', h)
       /\ \A j : Own(h, j) = IF j = x THEN 1 ELSE 0
    BY <1>6, <1>7, <1>9, ReleaseMade DEF Listed
<1> HIDE DEF h
<1>12. /\ Went(t, k, fs)
       /\ \A j : /\ Cardinality(Holders(stack, j)) \in Nat /\ Cardinality(Holders(stack', j)) \in Nat
                 /\ Cardinality(Holders(stack', j)) + Own(f, j)
                      = Cardinality(Holders(stack, j)) + Own(f, j) + Own(h, j)
    BY <1>1, <1>2, <1>3, <1>11, CallCount DEF f
<1>13. fs \in Seq(FrameType) /\ Len(fs) = 2 /\ DOMAIN fs = {1, 2} /\ fs[1] = f /\ fs[2] = h /\ Len(fs) <= 2
    BY <1>2, <1>11
<1>14. k >= 1 => Waits(stack[t][k], f)
  <2> SUFFICES ASSUME k >= 1 PROVE Waits(stack[t][k], f)
      OBVIOUS
  <2>1. Len(stack[t]) > 1 /\ Caller(t) = stack[t][k]
      BY <1>4 DEF Caller
  <2> QED
      BY <2>1, CallerSound DEF f
<1>15. Waits(f, h)
    BY <1>1, <1>11 DEF Waits, LoadAt, UnloadAt
<1>16. k = 0 => stack[t][1] = f
    BY <1>4
<1>17. f.pc # "term" /\ f.pc \notin LoadAt /\ f.pc \in Fails
    BY <1>1 DEF LoadAt, Fails, UnloadAt
<1>18. \A u \in LThread : \A n \in DOMAIN stack[u] : Sound(mod', stack[u][n])
    BY <1>3, <1>10, FramesKept
<1>19. FramesSound'
  <2>1. f = stack[t][Len(stack[t])] /\ Len(stack[t]) \in DOMAIN stack[t]
      BY <1>1, TopSound DEF f
  <2>2. \A n \in DOMAIN fs : Sound(mod', fs[n])
      BY <1>11, <1>13, <1>18, <2>1
  <2> HIDE DEF k, fs
  <2> QED
      BY <1>3, <1>4, <1>12, <1>13, <1>18, <2>2, FramesStep
<1>20. StacksOK'
  <2> HIDE DEF k, fs
  <2> QED
      BY <1>1, <1>3, <1>4, <1>12, <1>13, <1>14, <1>15, <1>17, StacksStep
<1>21. Serial'
  <2> HIDE DEF k, fs
  <2> QED
      BY <1>1, <1>3, <1>4, <1>12, <1>13, <1>16, <1>17, SerialStep
<1>22. ModsOK'
  <2>1. \A j \in Inst : ToSet(mod'[j].deps) \subseteq ToSet(mod[j].deps)
      BY <1>6, <1>9
  <2>2. \A j \in Inst : mod'[j].deps # <<>> => mod[j].deps # <<>>
      BY <1>5, <1>9
  <2>3. \A j \in Inst : j > made' => mod'[j].st = "none" /\ held'[j] = 0 /\ mod'[j].deps = <<>>
      BY <1>1, <1>3, <1>9, <2>2 DEF ModsOK
  <2>4. \A j \in Inst : Distinct(mod'[j].deps)
      BY <1>3, <1>6, <1>9 DEF ModsOK
  <2>5. ASSUME NEW j \in Inst, NEW y \in ToSet(mod'[j].deps)
        PROVE  y < j /\ mod'[y].st = "registered"
    <3>1. mod[j].deps \in Seq(Inst)
        BY <1>2, TypeFacts
    <3>2. y \in ToSet(mod[j].deps)
        BY <2>1
    <3>3. y \in Inst /\ y < j /\ Listed(y)
        BY <1>3, <3>1, <3>2, NoMembers DEF ModsOK
    <3> QED
        BY <1>9, <3>3 DEF Listed
  <2>6. ASSUME NEW j \in Inst, mod'[j].deps # <<>>, mod'[j].st # "registered"
        PROVE  Unregistering(j)'
    <3>1. mod[j].deps # <<>> /\ ~Listed(j)
        BY <1>9, <2>2, <2>6 DEF Listed
    <3>2. Unregistering(j)
        BY <1>3, <3>1 DEF ModsOK
    <3>3. \A n \in DOMAIN stack[t] :
            n > k /\ stack[t][n].pc \in {"detach", "deps"} /\ stack[t][n].inst = j =>
              \E m \in DOMAIN fs : fs[m].pc \in {"detach", "deps"} /\ fs[m].inst = j
      <4>1. \A n \in DOMAIN stack[t] : n > k => stack[t][n] = f
          BY <1>4
      <4>2. 1 \in DOMAIN fs /\ fs[1] = f /\ f.pc \in {"detach", "deps"}
          BY <1>1, <1>13
      <4> HIDE DEF k, fs
      <4> QED
          BY <4>1, <4>2
    <3> HIDE DEF k, fs
    <3> QED
        BY <1>3, <1>4, <1>12, <1>13, <3>2, <3>3, UnregisteringKept
  <2> QED
      BY <2>3, <2>4, <2>5, <2>6 DEF ModsOK, Listed
<1>23. HeldOK'
    BY <1>1, <1>3, <1>9 DEF HeldOK, Listed
<1>24. LoadCountExact'
  <2> SUFFICES ASSUME NEW j \in Inst, mod'[j].st = "registered", ~mod'[j].pinned
               PROVE  mod'[j].count = held'[j] + Cardinality(Importers(j)') + Cardinality(Holders(stack', j))
      BY DEF LoadCountExact, Listed, References
  <2>1. mod[j].count = held[j] + Cardinality(Importers(j)) + Cardinality(Holders(stack, j))
      BY <1>3, <1>9 DEF LoadCountExact, References, Listed
  <2>2. j = x => i \in Importers(j) /\ Importers(j)' = Importers(j) \ {i}
    <3> SUFFICES ASSUME j = x PROVE i \in Importers(j) /\ Importers(j)' = Importers(j) \ {i}
        OBVIOUS
    <3>1. i \in Importers(j)
        BY <1>2, <1>6 DEF Importers
    <3>2. \A y \in Inst : j \in ToSet(mod'[y].deps) <=> j \in ToSet(mod[y].deps) /\ y # i
        BY <1>6, <1>9
    <3> QED
        BY <3>1, <3>2 DEF Importers
  <2>3. j # x => Importers(j)' = Importers(j)
    <3>1. j # x => \A y \in Inst : j \in ToSet(mod'[y].deps) <=> j \in ToSet(mod[y].deps)
        BY <1>6, <1>9
    <3> QED
        BY <3>1 DEF Importers
  <2>4. Cardinality(Importers(j)') = Cardinality(Importers(j)) - Own(h, j)
    <3>1. CASE j = x
      <4>1. Own(h, j) = 1
          BY <1>11, <3>1
      <4> QED
          BY <2>2, <3>1, <4>1, ImportersFinite, FS_RemoveElement
    <3>2. CASE j # x
      <4>1. Own(h, j) = 0 /\ Cardinality(Importers(j)) \in Nat
          BY <1>11, <3>2, ImportersFinite
      <4> QED
          BY <2>3, <3>2, <4>1
    <3> QED
        BY <3>1, <3>2
  <2>5. mod'[j].count = mod[j].count /\ held'[j] = held[j] /\ Own(f, j) = 0
      BY <1>1, <1>2, <1>9
  <2> DEFINE c == mod[j].count
             a == held[j]
             I == Cardinality(Importers(j))
             I2 == Cardinality(Importers(j)')
             H == Cardinality(Holders(stack, j))
             H2 == Cardinality(Holders(stack', j))
             o == Own(h, j)
  <2>6. c \in Nat /\ a \in Nat /\ I \in Nat /\ H \in Nat /\ H2 \in Nat /\ o \in Nat
      BY <1>2, <1>12, TypeFacts, ImportersFinite DEF Own
  <2>7. c = a + I + H /\ I2 = I - o /\ H2 + 0 = H + 0 + o
      BY <1>12, <2>1, <2>4, <2>5
  <2>8. c = a + I2 + H2
    <3> HIDE DEF c, a, I, I2, H, H2, o
    <3> QED
        BY <2>6, <2>7
  <2> QED
      BY <2>5, <2>8
<1> QED
    BY <1>3, <1>19, <1>20, <1>21, <1>22, <1>23, <1>24 DEF LoaderInv

LEMMA ReleaseDependenciesInv ==
  ASSUME SerialUnload, LoaderInv, TypeInv', NEW t \in LThread, ReleaseDependencies(t)
  PROVE  LoaderInv'
<1> DEFINE f == Top(t)
           i == f.inst
<1>1. /\ ~Idle(t) /\ f.pc = "deps" /\ held' = held /\ made' = made /\ ended' = ended
    BY DEF ReleaseDependencies, At
<1>2. CASE mod[i].deps = <<>>
  <2>1. mod' = [mod EXCEPT ![i].st = "freed"] /\ Pop(t)
      BY <1>2 DEF ReleaseDependencies
  <2>2. /\ i \in Inst /\ LTypeOK /\ mod[i].st \in Gone /\ mod \in ModsType /\ \A j : Own(f, j) = 0
      BY <1>1, UnloadTop, TypeFacts DEF UnloadAt
  <2>3. "freed" \in {"leaving", "freed"}
      OBVIOUS
  <2> HIDE DEF i
  <2>4. Others(i) /\ ModuleFields(mod'[i], mod[i].dll, "freed", mod[i].count, mod[i].deps,
                                  mod[i].attached, mod[i].pinned)
      BY <2>1, <2>2, <2>3, ChangedOne
  <2>5. /\ mod[i].st \in Gone /\ mod'[i].st \in Gone
        /\ \A j \in Inst : /\ mod'[j].dll = mod[j].dll /\ mod'[j].deps = mod[j].deps
                           /\ mod'[j].pinned = mod[j].pinned /\ mod'[j].count = mod[j].count
                           /\ j # i => mod'[j].st = mod[j].st
      BY <2>2, <2>4 DEF Others, ModuleFields, Gone
  <2>6. Stable
      BY <1>1, <2>5 DEF Stable, Keeps, Gone
  <2>7. \A j \in Inst : Moves(j, Own(f, j), 0)
      BY <1>1, <2>2, <2>5 DEF Moves
  <2> QED
      BY <1>1, <1>2, <2>1, <2>6, <2>7, PopInv DEF i
<1>3. CASE mod[i].deps # <<>>
    BY <1>3, GiveUpImport
<1> QED
    BY <1>2, <1>3

-----------------------------------------------------------------------------
(* The invariant, and what it gives.                                       *)

LEMMA LoaderStart == LInit => LoaderInv
<1> SUFFICES ASSUME LInit PROVE LoaderInv
    OBVIOUS
<1>1. LTypeOK
    BY TypeStart DEF TypeInv
<1>2. \A t \in LThread : stack[t] = <<>> /\ DOMAIN stack[t] = {} /\ Idle(t)
    BY DEF LInit, Idle
<1>3. /\ ended = FALSE /\ made = 0
      /\ \A i \in Inst : mod[i].st = "none" /\ mod[i].deps = <<>> /\ held[i] = 0
    BY DEF LInit
<1>4. FramesSound /\ StacksOK /\ Serial
    BY <1>2, <1>3 DEF FramesSound, StacksOK, Serial, Loading
<1>5. ToSet(<<>>) = {} /\ Distinct(<<>>)
    BY DEF ToSet, Distinct
<1>6. ModsOK /\ HeldOK /\ LoadCountExact
    BY <1>3, <1>5 DEF ModsOK, HeldOK, LoadCountExact, Listed
<1> QED
    BY <1>1, <1>4, <1>6 DEF LoaderInv

LEMMA LoaderStep == SerialUnload /\ LoaderInv /\ [LNext]_ldrVars => LoaderInv'
<1>1. ASSUME LoaderInv, UNCHANGED ldrVars PROVE LoaderInv'
    BY <1>1 DEF LoaderInv, LTypeOK, FramesSound, StacksOK, Serial, Loading, Failing, Idle, ModsOK,
                Unregistering, HeldOK, LoadCountExact, References, Importers, Holders, Frames,
                Listed, ldrVars
<1>2. ASSUME SerialUnload, LoaderInv, NEW t \in LThread, Begin(t) PROVE LoaderInv'
  <2>1. TypeInv'
      BY <1>2, InvFacts, BeginTypes
  <2> QED
      BY <1>2, <2>1, BeginInv
<1>3. ASSUME SerialUnload, LoaderInv, NEW t \in LThread, Continue(t) PROVE LoaderInv'
  <2>1. TypeInv'
      BY <1>3, InvFacts, LoadTypes, UnloadTypes DEF Continue
  <2> QED
      BY <1>3, <2>1, LoadByNameInv, FindImportInv, AddDependencyInv, DependencyFailsInv, ImageFailsInv,
         AbortInv, RegisterInv, InitializeTlsInv, AttachInv, UnloadFailedInv, DecrementInv, DetachInv,
         ReleaseDependenciesInv, NotifiedInv, ReleaseSnapshotInv, TerminateNextInv DEF Continue
<1> QED
    BY <1>1, <1>2, <1>3 DEF LNext

LEMMA LoaderInvariant == ASSUME SerialUnload PROVE LSpec => []LoaderInv
<1>1. LoaderInv /\ [LNext]_ldrVars => LoaderInv'
    BY LoaderStep
<1> QED
    BY <1>1, LoaderStart, PTL DEF LSpec

LEMMA NothingDangles == LoaderInv => NoDanglingModule
<1> SUFFICES ASSUME LoaderInv, NEW x \in Frames(stack)
             PROVE  /\ Frame(x).pc = "dep" => mod[Frame(x).found].st # "freed"
                    /\ Frame(x).pc \in LoadAt /\ Frame(x).inst # None => Listed(Frame(x).inst)
                    /\ \A i \in Frame(x).rest : Listed(i)
    BY DEF NoDanglingModule
<1>1. PICK t \in LThread : \E n \in DOMAIN stack[t] : x = <<t, n>>
    BY FramesOf
<1>2. PICK n \in DOMAIN stack[t] : x = <<t, n>>
    BY <1>1
<1> DEFINE f == Frame(x)
<1>3. f = stack[t][n]
    BY <1>2 DEF Frame
<1>4. stack \in StackType /\ FramesSound
    BY InvFacts
<1>5. f \in FrameType /\ Sound(mod, f)
    BY <1>3, <1>4, StackFacts DEF FramesSound
<1> HIDE DEF f
<1>6. (\A i \in Uses(f) : Listed(i)) /\ Pointed(f) /\ f.inst \in Inst \cup {None} /\ f.rest \subseteq Inst
    BY <1>5 DEF Sound, FrameType, Listed
<1>7. f.pc = "dep" => f.found \in Uses(f)
    BY <1>6 DEF Uses, Pointed
<1>8. f.pc \in LoadAt /\ f.inst # None => f.inst \in Uses(f)
    BY <1>6 DEF Uses, Holds, LoadAt
<1>9. f.rest \subseteq Uses(f)
    BY DEF Uses, Holds
<1> QED
    BY <1>6, <1>7, <1>8, <1>9 DEF Listed, f

(* Whatever fails in a load, for any number of threads, DLLs and imports:  *)
(* when the driver keeps loads apart from unloads, the load count that     *)
(* LdkUnloadDll compares is the number of references, and no load or       *)
(* notification goes on with a module that LdkpUnregisterModule took off   *)
(* the list.                                                               *)
THEOREM LoaderCounts == ASSUME SerialUnload PROVE LSpec => []ModulesCounted
<1>1. LoaderInv => ModulesCounted
    BY NothingDangles DEF LoaderInv, ModulesCounted
<1> QED
    BY <1>1, LoaderInvariant, PTL

(* A module that LdkpAddModuleDependency recorded for a registered module  *)
(* is registered itself, also while LdkTerminate unregisters everything.   *)
THEOREM LoaderImports == ASSUME SerialUnload PROVE LSpec => []ImportsStayLoaded
<1>1. LoaderInv => ImportsStayLoaded
    BY DEF LoaderInv, ModsOK, ImportsStayLoaded
<1> QED
    BY <1>1, LoaderInvariant, PTL

(* LdkpUnregisterModule calls the entry point with DLL_PROCESS_DETACH      *)
(* before it gives up any import, and no other unload takes one before.    *)
THEOREM LoaderDetaches == ASSUME SerialUnload PROVE LSpec => []DetachInOrder
<1>1. ASSUME LoaderInv PROVE DetachInOrder
  <2> SUFFICES ASSUME NEW x \in Frames(stack), Frame(x).pc = "detach",
                      NEW j \in ToSet(mod[Frame(x).inst].deps)
               PROVE  Listed(j)
      BY DEF DetachInOrder
  <2>1. PICK t \in LThread : \E n \in DOMAIN stack[t] : x = <<t, n>>
      BY FramesOf
  <2>2. PICK n \in DOMAIN stack[t] : x = <<t, n>>
      BY <2>1
  <2>3. Sound(mod, Frame(x))
      BY <1>1, <2>2, InvFacts DEF FramesSound, Frame
  <2>4. Frame(x).inst \in Inst
      BY <2>3 DEF Sound, Pointed, UnloadAt
  <2> QED
      BY <1>1, <2>4, InvFacts DEF ModsOK
<1> QED
    BY <1>1, LoaderInvariant, PTL
=============================================================================
