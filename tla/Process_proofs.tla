---------------------------- MODULE Process_proofs ----------------------------
(***************************************************************************)
(* Proofs about what the threads of the driver share as a process: the     *)
(* cache of code page tables, the current directory, the handles with the  *)
(* wait objects behind them, and the environment.  The first three have an *)
(* inductive invariant each, which says who holds every block, handle and  *)
(* object; the counts the code keeps follow from it.  The environment      *)
(* needs lemmas on cutting a sequence and on the sum of its lengths.       *)
(***************************************************************************)
EXTENDS WaitObjects, CodePageCache, CurrentDirectory, Environment,
        Subsequences_proofs

-----------------------------------------------------------------------------
(* The cache of code pages.  A table that is used is that of a listed      *)
(* entry, and entries only leave the list when nobody uses a table; an     *)
(* entry that is not listed belongs to the thread that loaded it.          *)

Loading == {c \in Converter : stage[c] \in {"insert", "free"}}

OwnEntryOK ==
  /\ \A c \in Converter : c \notin Loading => loadedEntry[c] = NoEntry
  /\ \A c \in Loading :
       /\ loadedEntry[c] \in DOMAIN entries \ listed
       /\ entries[loadedEntry[c]] = wanted[c]
  /\ \A c, d \in Loading : loadedEntry[c] = loadedEntry[d] => c = d
  /\ \A e \in DOMAIN entries \ listed : \E c \in Loading : loadedEntry[c] = e

ListedOK ==
  /\ listed \subseteq DOMAIN entries
  /\ \A e, f \in listed : entries[e] = entries[f] => e = f
  /\ \A c \in Converter : stage[c] \in {"free", "use"} =>
       table[c] \in listed /\ entries[table[c]] = wanted[c]

DrivenOut ==
  listReady \/ (entries = <<>> /\ listed = {} /\ \A c \in Converter : stage[c] = "idle")

CPInv == CPTypeOK /\ OwnEntryOK /\ ListedOK /\ DrivenOut

LEMMA NoEntries ==
  ASSUME NEW f, f = [x \in DOMAIN f |-> f[x]], DOMAIN f = {} PROVE f = <<>>
<1>1. <<>> = [x \in {} |-> f[x]]
    OBVIOUS
<1> QED
    BY <1>1

LEMMA CPInitInv == CPInit => CPInv
<1> SUFFICES ASSUME CPInit PROVE CPInv
    OBVIOUS
<1>1. DOMAIN entries = {} /\ listed = {} /\ \A c \in Converter : stage[c] = "idle"
    BY DEF CPInit
<1>2. CPTypeOK
  <2>1. listReady \in BOOLEAN
      BY DEF CPInit
  <2>2. stage \in [Converter -> {"idle", "load", "insert", "free", "use"}]
      BY DEF CPInit
  <2>3. /\ wanted \in [Converter -> Page]
        /\ loadedEntry \in [Converter -> Entry \cup {NoEntry}]
        /\ table \in [Converter -> Entry \cup {NoEntry}]
      BY DEF CPInit
  <2> QED
      BY <1>1, <2>1, <2>2, <2>3 DEF CPTypeOK
<1>3. OwnEntryOK
    BY <1>1 DEF OwnEntryOK, Loading, CPInit
<1>4. ListedOK
    BY <1>1 DEF ListedOK
<1>5. DrivenOut
    BY DEF DrivenOut, CPInit
<1> QED
    BY <1>2, <1>3, <1>4, <1>5 DEF CPInv

LEMMA LookUpInv ==
  ASSUME CPInv, NEW c \in Converter, NEW page \in Page, LookUp(c, page) PROVE CPInv'
<1> USE DEF CPInv, CPTypeOK
<1>1. /\ wanted' = [wanted EXCEPT ![c] = page] /\ stage[c] = "idle" /\ listReady
      /\ UNCHANGED <<listReady, entries, listed, loadedEntry>>
    BY DEF LookUp
<1>2. CASE stage' = [stage EXCEPT ![c] = "load"] /\ table' = table
  <2>1. CPTypeOK'
      BY <1>1, <1>2
  <2>2. OwnEntryOK'
      BY <1>1, <1>2 DEF OwnEntryOK, Loading
  <2>3. ListedOK'
      BY <1>1, <1>2 DEF ListedOK
  <2>4. DrivenOut'
      BY <1>1 DEF DrivenOut
  <2> QED
      BY <2>1, <2>2, <2>3, <2>4
<1>3. CASE /\ stage' = [stage EXCEPT ![c] = "use"]
           /\ \E e \in LdkpFindCodePageEntryLocked(page) : table' = [table EXCEPT ![c] = e]
  <2>1. PICK e \in listed : entries[e] = page /\ table' = [table EXCEPT ![c] = e]
      BY <1>3 DEF LdkpFindCodePageEntryLocked
  <2>2. CPTypeOK'
      BY <1>1, <1>3, <2>1 DEF ListedOK
  <2>3. OwnEntryOK'
      BY <1>1, <1>3 DEF OwnEntryOK, Loading
  <2>4. ListedOK'
      BY <1>1, <1>3, <2>1 DEF ListedOK
  <2>5. DrivenOut'
      BY <1>1 DEF DrivenOut
  <2> QED
      BY <2>2, <2>3, <2>4, <2>5
<1> QED
    BY <1>2, <1>3 DEF LookUp

LEMMA LoadInv ==
  ASSUME CPInv, NEW c \in Converter, LdkpLoadCodePageEntry(c) PROVE CPInv'
<1> USE DEF CPInv, CPTypeOK
<1>1. PICK e \in Entry \ DOMAIN entries :
        /\ entries' = [x \in DOMAIN entries \cup {e} |->
                         IF x = e THEN wanted[c] ELSE entries[x]]
        /\ loadedEntry' = [loadedEntry EXCEPT ![c] = e]
    BY DEF LdkpLoadCodePageEntry
<1>2. /\ stage[c] = "load" /\ stage' = [stage EXCEPT ![c] = "insert"]
      /\ UNCHANGED <<listReady, listed, wanted, table>>
    BY DEF LdkpLoadCodePageEntry
<1>3. /\ DOMAIN entries' = DOMAIN entries \cup {e} /\ entries'[e] = wanted[c]
      /\ \A x \in DOMAIN entries : entries'[x] = entries[x]
    BY <1>1
<1>4. Loading' = Loading \cup {c} /\ c \notin Loading
    BY <1>2 DEF Loading
<1>5. CPTypeOK'
    BY <1>1, <1>2, <1>3
<1>6. OwnEntryOK'
  <2>1. \A d \in Loading : loadedEntry'[d] = loadedEntry[d] /\ loadedEntry[d] # e
      BY <1>1, <1>4 DEF OwnEntryOK, Loading
  <2>2. loadedEntry'[c] = e /\ e \notin listed
      BY <1>1 DEF ListedOK
  <2>3. \A d \in Converter : d \notin Loading' => loadedEntry'[d] = NoEntry
      BY <1>1, <1>4 DEF OwnEntryOK
  <2>4. \A d \in Loading' : /\ loadedEntry'[d] \in DOMAIN entries' \ listed'
                            /\ entries'[loadedEntry'[d]] = wanted'[d]
      BY <1>2, <1>3, <1>4, <2>1, <2>2 DEF OwnEntryOK
  <2>5. \A d, f \in Loading' : loadedEntry'[d] = loadedEntry'[f] => d = f
      BY <1>4, <2>1, <2>2 DEF OwnEntryOK
  <2>6. \A x \in DOMAIN entries' \ listed' : \E d \in Loading' : loadedEntry'[d] = x
      BY <1>2, <1>3, <1>4, <2>1, <2>2 DEF OwnEntryOK
  <2> QED
      BY <2>3, <2>4, <2>5, <2>6 DEF OwnEntryOK
<1>7. ListedOK'
    BY <1>2, <1>3 DEF ListedOK
<1>8. DrivenOut'
    BY <1>2 DEF DrivenOut
<1> QED
    BY <1>5, <1>6, <1>7, <1>8

LEMMA InsertInv ==
  ASSUME CPInv, NEW c \in Converter, Insert(c) PROVE CPInv'
<1> USE DEF CPInv, CPTypeOK
<1> DEFINE existing == LdkpFindCodePageEntryLocked(wanted[c])
<1>1. stage[c] = "insert" /\ UNCHANGED <<listReady, entries, wanted>>
    BY DEF Insert
<1>2. DrivenOut'
    BY <1>1 DEF DrivenOut
<1>3. CASE /\ existing # {}
           /\ \E e \in existing : table' = [table EXCEPT ![c] = e]
           /\ stage' = [stage EXCEPT ![c] = "free"]
           /\ UNCHANGED <<listed, loadedEntry>>
  <2>1. PICK e \in listed : entries[e] = wanted[c] /\ table' = [table EXCEPT ![c] = e]
      BY <1>3 DEF LdkpFindCodePageEntryLocked
  <2>2. Loading' = Loading
      BY <1>1, <1>3 DEF Loading
  <2>3. CPTypeOK'
      BY <1>1, <1>3, <2>1 DEF ListedOK
  <2>4. OwnEntryOK'
      BY <1>1, <1>3, <2>2 DEF OwnEntryOK
  <2>5. ListedOK'
      BY <1>1, <1>3, <2>1 DEF ListedOK
  <2> QED
      BY <1>2, <2>3, <2>4, <2>5
<1>4. CASE /\ existing = {}
           /\ listed' = listed \cup {loadedEntry[c]}
           /\ table' = [table EXCEPT ![c] = loadedEntry[c]]
           /\ loadedEntry' = [loadedEntry EXCEPT ![c] = NoEntry]
           /\ stage' = [stage EXCEPT ![c] = "use"]
  <2>1. Loading' = Loading \ {c} /\ c \in Loading
      BY <1>1, <1>4 DEF Loading
  <2>2. /\ loadedEntry[c] \in DOMAIN entries \ listed
        /\ entries[loadedEntry[c]] = wanted[c]
      BY <2>1 DEF OwnEntryOK
  <2>3. CPTypeOK'
      BY <1>1, <1>4, <2>2
  <2>4. OwnEntryOK'
      BY <1>1, <1>4, <2>1, <2>2 DEF OwnEntryOK, Loading
  <2>5. \A e \in listed : entries[e] # entries[loadedEntry[c]]
      BY <1>4, <2>2 DEF LdkpFindCodePageEntryLocked
  <2>6. ListedOK'
    <3>1. listed' \subseteq DOMAIN entries'
        BY <1>1, <1>4, <2>2 DEF ListedOK
    <3>2. \A e, f \in listed' : entries'[e] = entries'[f] => e = f
        BY <1>1, <1>4, <2>5 DEF ListedOK
    <3>3. \A d \in Converter : stage'[d] \in {"free", "use"} =>
            table'[d] \in listed' /\ entries'[table'[d]] = wanted'[d]
        BY <1>1, <1>4, <2>2 DEF ListedOK
    <3> QED
        BY <3>1, <3>2, <3>3 DEF ListedOK
  <2> QED
      BY <1>2, <2>3, <2>4, <2>6
<1> QED
    BY <1>3, <1>4 DEF Insert

LEMMA FreeOwnInv ==
  ASSUME CPInv, NEW c \in Converter, FreeOwn(c) PROVE CPInv'
<1> USE DEF CPInv, CPTypeOK
<1> DEFINE own == loadedEntry[c]
<1>1. /\ stage[c] = "free" /\ stage' = [stage EXCEPT ![c] = "use"]
      /\ loadedEntry' = [loadedEntry EXCEPT ![c] = NoEntry]
      /\ UNCHANGED <<listReady, listed, wanted, table>>
    BY DEF FreeOwn
<1>2. /\ DOMAIN entries' = DOMAIN entries \ {own}
      /\ \A x \in DOMAIN entries : x # own => entries'[x] = entries[x]
    BY DEF FreeOwn, LdkpFreeCodePageEntry
<1>3. Loading' = Loading \ {c} /\ c \in Loading
    BY <1>1 DEF Loading
<1>4. own \notin listed
    BY <1>3 DEF OwnEntryOK
<1>5. \A d \in Loading' : loadedEntry'[d] = loadedEntry[d] /\ loadedEntry[d] # own
    BY <1>1, <1>3 DEF OwnEntryOK, Loading
<1> HIDE DEF own
<1>6. CPTypeOK'
    BY <1>1, <1>2
<1>7. OwnEntryOK'
  <2>1. \A d \in Converter : d \notin Loading' => loadedEntry'[d] = NoEntry
      BY <1>1, <1>3 DEF OwnEntryOK
  <2>2. \A d \in Loading' : /\ loadedEntry'[d] \in DOMAIN entries' \ listed'
                            /\ entries'[loadedEntry'[d]] = wanted'[d]
      BY <1>1, <1>2, <1>3, <1>5 DEF OwnEntryOK
  <2>3. \A d, f \in Loading' : loadedEntry'[d] = loadedEntry'[f] => d = f
      BY <1>3, <1>5 DEF OwnEntryOK
  <2>4. \A x \in DOMAIN entries' \ listed' : \E d \in Loading' : loadedEntry'[d] = x
      BY <1>1, <1>2, <1>3, <1>5 DEF OwnEntryOK, own
  <2> QED
      BY <2>1, <2>2, <2>3, <2>4 DEF OwnEntryOK
<1>8. ListedOK'
    BY <1>1, <1>2, <1>4 DEF ListedOK
<1>9. DrivenOut'
    BY <1>1 DEF DrivenOut
<1> QED
    BY <1>6, <1>7, <1>8, <1>9

LEMMA CPStepInv == CPInv /\ [CPNext]_cpVars => CPInv'
<1> SUFFICES ASSUME CPInv, [CPNext]_cpVars PROVE CPInv'
    OBVIOUS
<1> USE DEF CPInv, CPTypeOK
<1>1. ASSUME NEW c \in Converter, LoadFails(c) \/ Converted(c) PROVE CPInv'
  <2>1. /\ stage[c] \in {"load", "use"} /\ stage' = [stage EXCEPT ![c] = "idle"]
        /\ table' \in {table, [table EXCEPT ![c] = NoEntry]}
        /\ UNCHANGED <<listReady, entries, listed, wanted, loadedEntry>>
      BY <1>1 DEF LoadFails, Converted
  <2>2. CPTypeOK'
      BY <2>1
  <2>3. OwnEntryOK'
      BY <2>1 DEF OwnEntryOK, Loading
  <2>4. ListedOK'
      BY <2>1 DEF ListedOK
  <2>5. DrivenOut'
      BY <2>1 DEF DrivenOut
  <2> QED
      BY <2>2, <2>3, <2>4, <2>5
<1>2. ASSUME LdkpTerminateNls PROVE CPInv'
  <2>1. /\ \A c \in Converter : stage[c] = "idle"
        /\ listed' = {} /\ UNCHANGED <<stage, wanted, loadedEntry, table>>
      BY <1>2 DEF LdkpTerminateNls
  <2>2. Loading = {} /\ Loading' = {}
      BY <2>1 DEF Loading
  <2>3. DOMAIN entries \ listed = {}
      BY <2>2 DEF OwnEntryOK
  <2>4. entries' = [e \in DOMAIN entries \ listed |-> entries[e]]
      BY <1>2 DEF LdkpTerminateNls
  <2>5. entries' = <<>> /\ DOMAIN entries' = {}
      BY <2>3, <2>4, NoEntries
  <2>6. CPTypeOK'
    <3>1. listReady' \in BOOLEAN
        BY <1>2 DEF LdkpTerminateNls
    <3> QED
        BY <2>1, <2>5, <3>1
  <2>7. OwnEntryOK'
      BY <2>1, <2>2, <2>5 DEF OwnEntryOK
  <2>8. ListedOK'
      BY <2>1 DEF ListedOK
  <2>9. DrivenOut'
      BY <2>1, <2>5 DEF DrivenOut
  <2> QED
      BY <2>6, <2>7, <2>8, <2>9
<1>3. CASE UNCHANGED cpVars
    BY <1>3 DEF cpVars, OwnEntryOK, Loading, ListedOK, DrivenOut
<1> QED
    BY <1>1, <1>2, <1>3, LookUpInv, LoadInv, InsertInv, FreeOwnInv DEF CPNext

(* Types of the cache of code pages.                                       *)
THEOREM CodePageTypes == CPSpec => []CPTypeOK
<1>1. CPInv => CPTypeOK
    BY DEF CPInv
<1> QED
    BY <1>1, CPInitInv, CPStepInv, PTL DEF CPSpec

(* The table that LdkpGetCodePageTable returns stays allocated, and is of  *)
(* the page that was asked for, as long as it is used, without a lock and  *)
(* without a reference, for any number of threads; no entry is lost.       *)
THEOREM TablesStay == CPSpec => []CodePageTableStays
<1>1. CPInv => CodePageTableStays
  <2> SUFFICES ASSUME CPInv PROVE CodePageTableStays
      OBVIOUS
  <2> USE DEF CPInv
  <2>1. ASSUME NEW e \in DOMAIN entries \ listed
        PROVE  Cardinality({c \in Converter : loadedEntry[c] = e}) = 1
    <3>1. PICK c \in Loading : loadedEntry[c] = e
        BY DEF OwnEntryOK
    <3>2. e # NoEntry
        BY CodePageAssumption DEF CPTypeOK
    <3>3. {d \in Converter : loadedEntry[d] = e} = {c}
        BY <3>1, <3>2 DEF OwnEntryOK, Loading
    <3> QED
        BY <3>3, FS_Singleton
  <2>2. \A c \in Converter : stage[c] = "use" =>
          table[c] \in DOMAIN entries /\ entries[table[c]] = wanted[c]
      BY DEF ListedOK
  <2>3. ~listReady => entries = <<>>
      BY DEF DrivenOut
  <2> QED
      BY <2>1, <2>2, <2>3 DEF CodePageTableStays, ListedOK
<1> QED
    BY <1>1, CPInitInv, CPStepInv, PTL DEF CPSpec
-----------------------------------------------------------------------------
(* The current directory.  Every block is held by the process, by captured *)
(* names and by calls about to let go of it, and its count is their        *)
(* number; every open handle is held by one block or one call.             *)

InsideLock == {"set", "find", "name", "reset", "refind", "rename", "open",
               "test", "replace", "swap", "capture", "peek"}
Reopening == {"reset", "refind", "rename"}
HasNew == {"test", "swap", "replace"}

NameHolders(b) == {t \in DirUser : relative[t].block = b}
Droppers(b) == {t \in DirUser : toDrop[t] = b}
Gone == \E t \in DirUser : dirAt[t] = "gone"

(* Types of the variables that CDTypeOK leaves out.                        *)
CallTypeOK ==
  /\ dirAt \in [DirUser -> InsideLock \cup {"idle", "exit", "use", "gone"}]
  /\ target \in [DirUser -> Directory]
  /\ relative \in [DirUser -> [block : DirBlock \cup {Null},
                               handle : DirHandle \cup {Null},
                               path : Directory \cup {Null}]]

(* Where a thread is, who is in the PEB lock, and which locals are set.    *)
CallOK ==
  \A t \in DirUser :
    /\ dirAt[t] \in InsideLock <=> pebLock = t
    /\ dirAt[t] \in HasNew => newHandle[t] # Null
    /\ newHandle[t] # Null => dirAt[t] \in HasNew \cup {"exit"}
    /\ toClose[t] # Null => dirAt[t] = "exit"
    /\ toDrop[t] # Null => dirAt[t] = "exit"
    /\ relative[t].block # Null => dirAt[t] = "use"
    /\ dirAt[t] \in Reopening => curDirRef = Null

(* A block whose handle is about to be replaced is only the process's.     *)
SwapOK ==
  \A t \in DirUser : dirAt[t] = "swap" =>
    /\ curDirRef # Null
    /\ NameHolders(curDirRef) = {} /\ Droppers(curDirRef) = {}

(* The driver is gone for all threads, and was there for one.              *)
GoneOK ==
  /\ Gone => \A t \in DirUser : dirAt[t] = "gone"
  /\ curDirRef # Null => DirUser # {}

(* Whoever holds a block finds it, and the blocks count their holders.     *)
HeldOK ==
  \A t \in DirUser :
    /\ relative[t].block # Null => relative[t].block \in DOMAIN counts
    /\ toDrop[t] # Null => toDrop[t] \in DOMAIN counts

CountOK ==
  \A b \in DOMAIN counts :
    counts[b].count = (IF b = curDirRef THEN 1 ELSE 0)
                        + Cardinality(NameHolders(b)) + Cardinality(Droppers(b))

(* The path, the handle and the block of the process agree.                *)
CurDirOK ==
  Gone \/ IF curDirRef = Null THEN curDir.handle = Null
          ELSE /\ curDirRef \in DOMAIN counts
               /\ counts[curDirRef].handle = curDir.handle
               /\ opens[curDir.handle] = curDir.path

(* The handle about to be installed is that of the directory to be set.    *)
TargetOK ==
  \A t \in DirUser : dirAt[t] \in HasNew => opens[newHandle[t]] = target[t]

(* What a block or a call holds is open, and held once.                    *)
OpenOK ==
  /\ \A b \in DOMAIN counts : counts[b].handle \in DOMAIN opens
  /\ \A t \in DirUser : /\ newHandle[t] # Null => newHandle[t] \in DOMAIN opens
                        /\ toClose[t] # Null => toClose[t] \in DOMAIN opens

HeldOnce ==
  /\ \A b, c \in DOMAIN counts : counts[b].handle = counts[c].handle => b = c
  /\ \A t, u \in DirUser :
       /\ newHandle[t] # Null /\ newHandle[t] = newHandle[u] => t = u
       /\ toClose[t] # Null /\ toClose[t] = toClose[u] => t = u
       /\ newHandle[t] # Null => newHandle[t] # toClose[u]
  /\ \A b \in DOMAIN counts, t \in DirUser : counts[b].handle \notin {newHandle[t], toClose[t]}

NoneLost ==
  \A h \in DOMAIN opens :
    \/ \E b \in DOMAIN counts : counts[b].handle = h
    \/ \E t \in DirUser : h \in {newHandle[t], toClose[t]}

HandlesOK == OpenOK /\ HeldOnce /\ NoneLost

CDInv ==
  /\ CDTypeOK /\ CallTypeOK /\ CallOK /\ SwapOK /\ GoneOK
  /\ HeldOK /\ CountOK /\ CurDirOK /\ TargetOK /\ HandlesOK
  /\ CapturedDirectoryStays

LEMMA HoldersFinite ==
  ASSUME NEW b
  PROVE  /\ IsFiniteSet(NameHolders(b)) /\ Cardinality(NameHolders(b)) \in Nat
         /\ IsFiniteSet(Droppers(b)) /\ Cardinality(Droppers(b)) \in Nat
<1>1. IsFiniteSet(NameHolders(b)) /\ IsFiniteSet(Droppers(b))
    BY DirectoryAssumption, FS_Subset DEF NameHolders, Droppers
<1> QED
    BY <1>1, FS_CardinalityType

(* A member is taken from a finite set, or put in it.                      *)
LEMMA OneLess ==
  ASSUME NEW S, NEW x \in S, IsFiniteSet(S)
  PROVE  /\ Cardinality(S) \in Nat /\ Cardinality(S \ {x}) = Cardinality(S) - 1
         /\ Cardinality(S) > 0 /\ (Cardinality(S) = 1 => S = {x})
<1>1. Cardinality(S \ {x}) = Cardinality(S) - 1 /\ IsFiniteSet(S \ {x})
    BY FS_RemoveElement
<1>2. Cardinality(S) \in Nat /\ Cardinality(S \ {x}) \in Nat
    BY <1>1, FS_CardinalityType
<1>3. Cardinality(S) = 1 => S \ {x} = {}
    BY <1>1, FS_EmptySet
<1> QED
    BY <1>1, <1>2, <1>3

LEMMA OneMore ==
  ASSUME NEW S, NEW x, x \notin S, IsFiniteSet(S)
  PROVE  Cardinality(S \cup {x}) = Cardinality(S) + 1
BY FS_AddElement

(* The counts of the blocks when their holders stay the same.              *)
LEMMA CountSame ==
  ASSUME CountOK, DOMAIN counts' = DOMAIN counts, curDirRef' = curDirRef,
         \A b \in DOMAIN counts : counts'[b].count = counts[b].count,
         \A t \in DirUser : relative'[t].block = relative[t].block,
         toDrop' = toDrop
  PROVE  CountOK'
<1>1. \A b : NameHolders(b)' = NameHolders(b) /\ Droppers(b)' = Droppers(b)
    BY DEF NameHolders, Droppers
<1> QED
    BY <1>1 DEF CountOK

LEMMA CDInitInv == CDInit => CDInv
<1> SUFFICES ASSUME CDInit PROVE CDInv
    OBVIOUS
<1>1. DOMAIN opens = {} /\ DOMAIN counts = {}
    BY DEF CDInit
<1>2. CDTypeOK
  <2>1. /\ DOMAIN opens \subseteq DirHandle /\ \A h \in DOMAIN opens : opens[h] \in Directory
        /\ DOMAIN counts \subseteq DirBlock
        /\ \A b \in DOMAIN counts : counts[b] \in [count : Nat \ {0}, handle : DirHandle]
      BY <1>1
  <2>2. /\ curDirRef \in DirBlock \cup {Null} /\ pebLock \in DirUser \cup {Null}
        /\ curDir \in [handle : DirHandle \cup {Null}, path : Directory]
      BY DirectoryAssumption DEF CDInit
  <2>3. /\ newHandle \in [DirUser -> DirHandle \cup {Null}]
        /\ toClose \in [DirUser -> DirHandle \cup {Null}]
        /\ toDrop \in [DirUser -> DirBlock \cup {Null}]
      BY DEF CDInit
  <2> QED
      BY <2>1, <2>2, <2>3 DEF CDTypeOK
<1>3. CallTypeOK
  <2>1. dirAt \in [DirUser -> InsideLock \cup {"idle", "exit", "use", "gone"}]
      BY DEF CDInit
  <2>2. target \in [DirUser -> Directory]
      BY DirectoryAssumption DEF CDInit
  <2>3. relative \in [DirUser -> [block : DirBlock \cup {Null},
                                  handle : DirHandle \cup {Null},
                                  path : Directory \cup {Null}]]
      BY DEF CDInit, NoName
  <2> QED
      BY <2>1, <2>2, <2>3 DEF CallTypeOK
<1>4. \A t \in DirUser : /\ dirAt[t] = "idle" /\ newHandle[t] = Null /\ toClose[t] = Null
                         /\ toDrop[t] = Null /\ relative[t].block = Null
    BY DEF CDInit, NoName
<1>5. curDirRef = Null /\ curDir.handle = Null /\ pebLock = Null
    BY DEF CDInit
<1>6. CallOK
    BY <1>4, <1>5, DirectoryAssumption DEF CallOK, InsideLock, HasNew, Reopening
<1>7. SwapOK /\ GoneOK
    BY <1>4, <1>5 DEF SwapOK, GoneOK, Gone
<1>8. HeldOK /\ CountOK /\ CurDirOK /\ TargetOK
    BY <1>1, <1>4, <1>5 DEF HeldOK, CountOK, CurDirOK, TargetOK, HasNew
<1>9. HandlesOK /\ CapturedDirectoryStays
    BY <1>1, <1>4 DEF HandlesOK, OpenOK, HeldOnce, NoneLost, CapturedDirectoryStays
<1> QED
    BY <1>2, <1>3, <1>6, <1>7, <1>8, <1>9 DEF CDInv

(* A step that only moves a thread, and may take or leave the PEB lock.    *)
LEMMA DirMoveInv ==
  ASSUME CDInv, NEW t \in DirUser,
         NEW label \in InsideLock \cup {"idle", "exit"},
         dirAt[t] \notin {"use", "exit", "gone"},
         dirAt' = [dirAt EXCEPT ![t] = label],
         dirAt[t] \in InsideLock \/ pebLock = Null,
         pebLock' = IF label \in InsideLock THEN t ELSE Null,
         target' \in [DirUser -> Directory],
         \A u \in DirUser : u # t => target'[u] = target[u],
         label \in HasNew => dirAt[t] \in HasNew /\ target'[t] = target[t],
         dirAt[t] \in HasNew => label \in HasNew \cup {"exit"},
         label \in Reopening => curDirRef = Null,
         label = "swap" => /\ curDirRef # Null /\ NameHolders(curDirRef) = {}
                           /\ Droppers(curDirRef) = {},
         UNCHANGED <<opens, counts, curDirRef, curDir, newHandle, toClose, toDrop, relative>>
  PROVE  CDInv'
<1> USE DEF CDInv
<1>1. CDTypeOK'
    BY DEF CDTypeOK
<1>2. CallTypeOK'
    BY DEF CallTypeOK
<1>3. CallOK'
  <2>1. \A u \in DirUser : dirAt'[u] \in InsideLock <=> pebLock' = u
      BY DirectoryAssumption DEF CallOK, CallTypeOK
  <2>2. newHandle[t] # Null => label \in HasNew \cup {"exit"}
      BY DEF CallOK
  <2>3. toClose[t] = Null /\ toDrop[t] = Null /\ relative[t].block = Null
      BY DEF CallOK
  <2> QED
      BY <2>1, <2>2, <2>3 DEF CallOK, CallTypeOK
<1>4. SwapOK'
    BY DEF SwapOK, NameHolders, Droppers, CallTypeOK
<1>5. GoneOK' /\ ~Gone
    BY DEF GoneOK, Gone, CallTypeOK, InsideLock
<1>6. HeldOK' /\ CountOK' /\ CapturedDirectoryStays'
  <2>1. CountOK'
      BY CountSame
  <2> QED
      BY <2>1 DEF HeldOK, CapturedDirectoryStays
<1>7. CurDirOK'
    BY <1>5 DEF CurDirOK, GoneOK
<1>8. HandlesOK'
    BY DEF HandlesOK, OpenOK, HeldOnce, NoneLost
<1>9. TargetOK'
    BY DEF TargetOK, CallTypeOK
<1> QED
    BY <1>1, <1>2, <1>3, <1>4, <1>5, <1>6, <1>7, <1>8, <1>9

(* The steps of RtlpValidateCurrentDirectory and RtlSetCurrentDirectory_U  *)
(* that change no block and no handle.                                     *)
LEMMA DirMovesInv ==
  ASSUME CDInv, NEW t \in DirUser,
         \/ \E d \in Directory : Enter(t, "set", d)
         \/ Enter(t, "find", Root) \/ Enter(t, "name", Root)
         \/ ReopenFails(t) \/ StillValid(t) \/ SetFails(t) \/ SetTest(t)
  PROVE  CDInv'
<1> USE DEF CDInv, InsideLock, HasNew, Reopening
<1>1. ASSUME NEW l \in {"set", "find", "name"}, NEW d \in Directory, Enter(t, l, d)
      PROVE  CDInv'
  <2>1. target' \in [DirUser -> Directory] /\ \A u \in DirUser : u # t => target'[u] = target[u]
      BY <1>1 DEF Enter, CallTypeOK
  <2> QED
      BY <1>1, <2>1, DirMoveInv DEF Enter, DirGoto
<1>2. dirAt[t] \in InsideLock => pebLock = t
    BY DEF CallOK
<1>3. target \in [DirUser -> Directory]
    BY DEF CallTypeOK
<1>4. ASSUME ReopenFails(t) PROVE CDInv'
  <2>1. dirAt[t] \in Reopening /\ pebLock = t
      BY <1>2, <1>4 DEF ReopenFails
  <2>2. Revalidated(dirAt[t]) \in {"open", "capture", "peek"}
      BY DEF Revalidated
  <2> QED
      BY <1>3, <1>4, <2>1, <2>2, DirMoveInv DEF ReopenFails, DirGoto, setVars
<1>5. ASSUME StillValid(t) PROVE CDInv'
  <2>1. dirAt[t] \in {"set", "find", "name"} /\ pebLock = t
      BY <1>2, <1>5 DEF StillValid
  <2>2. PICK l \in {"open", "capture", "peek"} : dirAt' = [dirAt EXCEPT ![t] = l]
      BY <1>5 DEF StillValid, DirGoto
  <2> QED
      BY <1>3, <1>5, <2>1, <2>2, DirMoveInv DEF StillValid, setVars
<1>6. ASSUME SetFails(t) PROVE CDInv'
  <2>1. dirAt[t] \in {"open", "test", "replace"} /\ pebLock = t
      BY <1>2, <1>6 DEF SetFails
  <2> QED
      BY <1>3, <1>6, <2>1, DirMoveInv DEF SetFails, DirGoto, setVars
<1>7. ASSUME SetTest(t) PROVE CDInv'
  <2>1. dirAt[t] = "test" /\ pebLock = t /\ newHandle[t] # Null
      BY <1>2, <1>7 DEF SetTest, CallOK
  <2>2. ASSUME curDirRef # Null, counts[curDirRef].count = 1
        PROVE  NameHolders(curDirRef) = {} /\ Droppers(curDirRef) = {}
    <3>1. curDirRef \in DOMAIN counts
        BY <2>1, <2>2 DEF CurDirOK, GoneOK, Gone
    <3>2. 1 = 1 + Cardinality(NameHolders(curDirRef)) + Cardinality(Droppers(curDirRef))
        BY <2>2, <3>1 DEF CountOK
    <3>3. /\ Cardinality(NameHolders(curDirRef)) \in Nat /\ IsFiniteSet(NameHolders(curDirRef))
          /\ Cardinality(Droppers(curDirRef)) \in Nat /\ IsFiniteSet(Droppers(curDirRef))
        BY HoldersFinite
    <3>4. Cardinality(NameHolders(curDirRef)) = 0 /\ Cardinality(Droppers(curDirRef)) = 0
        BY <3>2, <3>3
    <3> QED
        BY <3>3, <3>4, FS_EmptySet
  <2>3. PICK l \in {"swap", "replace"} :
          /\ dirAt' = [dirAt EXCEPT ![t] = l]
          /\ l = "swap" => curDirRef # Null /\ counts[curDirRef].count = 1
      BY <1>7 DEF SetTest, DirGoto
  <2> QED
      BY <1>3, <1>7, <2>1, <2>2, <2>3, DirMoveInv DEF SetTest, setVars
<1> QED
    BY <1>1, <1>4, <1>5, <1>6, <1>7, DirectoryAssumption

(* Who holds a block, as a number.                                         *)
Holding(b) ==
  (IF b = curDirRef THEN 1 ELSE 0)
    + Cardinality(NameHolders(b)) + Cardinality(Droppers(b))

TablesOK ==
  /\ DOMAIN opens \subseteq DirHandle /\ \A h \in DOMAIN opens : opens[h] \in Directory
  /\ DOMAIN counts \subseteq DirBlock
  /\ \A b \in DOMAIN counts : counts[b] \in [count : Nat \ {0}, handle : DirHandle]

LEMMA HoldersFiniteNext ==
  ASSUME NEW b
  PROVE  /\ IsFiniteSet(NameHolders(b)') /\ Cardinality(NameHolders(b)') \in Nat
         /\ IsFiniteSet(Droppers(b)') /\ Cardinality(Droppers(b)') \in Nat
<1>1. IsFiniteSet(NameHolders(b)') /\ IsFiniteSet(Droppers(b)')
    BY DirectoryAssumption, FS_Subset DEF NameHolders, Droppers
<1> QED
    BY <1>1, FS_CardinalityType

LEMMA NobodyHolds ==
  ASSUME NEW b, Holding(b)' = 0
  PROVE  b # curDirRef' /\ NameHolders(b)' = {} /\ Droppers(b)' = {}
<1>1. /\ IsFiniteSet(NameHolders(b)') /\ Cardinality(NameHolders(b)') \in Nat
      /\ IsFiniteSet(Droppers(b)') /\ Cardinality(Droppers(b)') \in Nat
    BY HoldersFiniteNext
<1>2. /\ b # curDirRef' /\ Cardinality(NameHolders(b)') = 0
      /\ Cardinality(Droppers(b)') = 0
    BY <1>1 DEF Holding
<1> QED
    BY <1>1, <1>2, FS_EmptySet

(* What RtlpDereferenceCurDirRef does to the blocks and the handles.       *)
LEMMA DerefFacts ==
  ASSUME CDInv, NEW b \in DOMAIN counts, RtlpDereferenceCurDirRef(b)
  PROVE  /\ TablesOK'
         /\ DOMAIN counts' = IF counts[b].count = 1 THEN DOMAIN counts \ {b}
                             ELSE DOMAIN counts
         /\ \A c \in DOMAIN counts' :
              /\ counts'[c].handle = counts[c].handle
              /\ counts'[c].count = IF c = b THEN counts[c].count - 1 ELSE counts[c].count
         /\ DOMAIN opens' = IF counts[b].count = 1 THEN DOMAIN opens \ {counts[b].handle}
                            ELSE DOMAIN opens
         /\ \A h \in DOMAIN opens' : opens'[h] = opens[h]
<1> USE DEF CDInv, CDTypeOK, TablesOK
<1>1. CASE counts[b].count = 1
  <2>1. counts' = Without(counts, b) /\ opens' = Without(opens, counts[b].handle)
      BY <1>1 DEF RtlpDereferenceCurDirRef
  <2>2. /\ DOMAIN counts' = DOMAIN counts \ {b}
        /\ \A c \in DOMAIN counts' : counts'[c] = counts[c]
      BY <2>1 DEF Without
  <2>3. /\ DOMAIN opens' = DOMAIN opens \ {counts[b].handle}
        /\ \A h \in DOMAIN opens' : opens'[h] = opens[h]
      BY <2>1 DEF Without
  <2> QED
      BY <1>1, <2>2, <2>3
<1>2. CASE counts[b].count # 1
  <2>1. counts' = [counts EXCEPT ![b].count = @ - 1] /\ opens' = opens
      BY <1>2 DEF RtlpDereferenceCurDirRef
  <2>2. DOMAIN counts' = DOMAIN counts
      BY <2>1
  <2>3. \A c \in DOMAIN counts : c # b => counts'[c] = counts[c]
      BY <2>1
  <2>4. counts[b] \in [count : Nat \ {0}, handle : DirHandle]
      OBVIOUS
  <2>5. counts'[b] = [counts[b] EXCEPT !.count = @ - 1]
      BY <2>1
  <2>6. /\ counts'[b] \in [count : Nat \ {0}, handle : DirHandle]
        /\ counts'[b].handle = counts[b].handle
        /\ counts'[b].count = counts[b].count - 1
      BY <1>2, <2>4, <2>5
  <2> QED
      BY <1>2, <2>1, <2>2, <2>3, <2>6
<1> QED
    BY <1>1, <1>2

(* Dropping the reference of one holder keeps everybody else's.            *)
LEMMA DerefKeeps ==
  ASSUME CDInv, NEW b \in DOMAIN counts, RtlpDereferenceCurDirRef(b),
         UNCHANGED <<newHandle, toClose>>,
         \A u \in DirUser : /\ relative'[u] = relative[u] \/ relative'[u].block = Null
                            /\ toDrop'[u] \in {toDrop[u], Null},
         Holding(b)' = Holding(b) - 1,
         \A c \in DOMAIN counts : c # b => Holding(c)' = Holding(c)
  PROVE  /\ HandlesOK' /\ HeldOK' /\ CountOK' /\ CapturedDirectoryStays'
         /\ \A u \in DirUser : newHandle[u] # Null => opens'[newHandle[u]] = opens[newHandle[u]]
<1> USE DEF CDInv
<1> DEFINE h == counts[b].handle
<1>1. counts[b].count = Holding(b) /\ \A c \in DOMAIN counts : counts[c].count = Holding(c)
    BY DEF CountOK, Holding
<1>2. /\ TablesOK'
      /\ DOMAIN counts' = IF counts[b].count = 1 THEN DOMAIN counts \ {b} ELSE DOMAIN counts
      /\ \A c \in DOMAIN counts' :
           /\ counts'[c].handle = counts[c].handle
           /\ counts'[c].count = IF c = b THEN counts[c].count - 1 ELSE counts[c].count
      /\ DOMAIN opens' = IF counts[b].count = 1 THEN DOMAIN opens \ {h} ELSE DOMAIN opens
      /\ \A g \in DOMAIN opens' : opens'[g] = opens[g]
    BY DerefFacts
<1>3. CountOK'
  <2>1. \A c \in DOMAIN counts' : counts'[c].count = Holding(c)'
      BY <1>1, <1>2
  <2> QED
      BY <2>1 DEF CountOK, Holding
<1>4. counts[b].count = 1 =>
        \A u \in DirUser : relative'[u].block # b /\ toDrop'[u] # b
  <2> SUFFICES ASSUME counts[b].count = 1
               PROVE  \A u \in DirUser : relative'[u].block # b /\ toDrop'[u] # b
      OBVIOUS
  <2>1. Holding(b)' = 0
      BY <1>1
  <2>2. NameHolders(b)' = {} /\ Droppers(b)' = {}
      BY <2>1, NobodyHolds
  <2> QED
      BY <2>2 DEF NameHolders, Droppers
<1>5. HeldOK'
    BY <1>2, <1>4 DEF HeldOK
<1>6. \A c \in DOMAIN counts : c # b => counts[c].handle # h
    BY DEF HandlesOK, HeldOnce
<1> HIDE DEF h
<1>7. \A t \in DirUser : newHandle[t] # h /\ toClose[t] # h
    BY DEF HandlesOK, HeldOnce, h
<1>8. HandlesOK'
  <2>1. OpenOK'
      BY <1>2, <1>6, <1>7 DEF HandlesOK, OpenOK
  <2>2. HeldOnce'
      BY <1>2 DEF HandlesOK, HeldOnce
  <2>3. NoneLost'
      BY <1>2 DEF HandlesOK, NoneLost, h
  <2> QED
      BY <2>1, <2>2, <2>3 DEF HandlesOK
<1>9. CapturedDirectoryStays'
  <2> SUFFICES ASSUME NEW t \in DirUser, relative'[t].block # Null
               PROVE  /\ relative'[t].block \in DOMAIN counts'
                      /\ counts'[relative'[t].block].handle = relative'[t].handle
                      /\ relative'[t].handle \in DOMAIN opens'
                      /\ opens'[relative'[t].handle] = relative'[t].path
      BY DEF CapturedDirectoryStays
  <2>1. relative'[t] = relative[t] /\ relative[t].block # Null
      OBVIOUS
  <2>2. /\ relative[t].block \in DOMAIN counts
        /\ counts[relative[t].block].handle = relative[t].handle
        /\ relative[t].handle \in DOMAIN opens
        /\ opens[relative[t].handle] = relative[t].path
      BY <2>1 DEF CapturedDirectoryStays
  <2>3. relative[t].block \in DOMAIN counts'
      BY <1>2, <1>4, <2>1, <2>2
  <2>4. relative[t].handle \in DOMAIN opens'
      BY <1>2, <1>4, <1>6, <2>1, <2>2
  <2> QED
      BY <1>2, <2>1, <2>2, <2>3, <2>4
<1>10. \A u \in DirUser : newHandle[u] # Null => opens'[newHandle[u]] = opens[newHandle[u]]
    BY <1>2, <1>7 DEF HandlesOK, OpenOK
<1> QED
    BY <1>3, <1>5, <1>8, <1>9, <1>10

(* The process lets go of its block.                                       *)
LEMMA ValidateInv ==
  ASSUME CDInv, NEW t \in DirUser, Validate(t) PROVE CDInv'
<1> USE DEF CDInv
<1>0. PICK b : b = curDirRef
    OBVIOUS
<1>1. /\ dirAt[t] \in {"set", "find", "name"} /\ curDir.handle # Null
      /\ curDirRef' = Null /\ curDir' = [curDir EXCEPT !.handle = Null]
      /\ UNCHANGED <<pebLock, target, newHandle, toClose, toDrop, relative>>
      /\ RtlpDereferenceCurDirRef(b)
    BY <1>0 DEF Validate, setVars
<1>2. PICK l \in Reopening : dirAt' = [dirAt EXCEPT ![t] = l]
    BY DEF Validate, DirGoto, Reopening
<1>3. ~Gone /\ b \in DOMAIN counts /\ b # Null
  <2>1. ~Gone
      BY <1>1 DEF GoneOK, Gone
  <2>2. b # Null /\ b \in DOMAIN counts
      BY <1>0, <1>1, <2>1 DEF CurDirOK
  <2> QED
      BY <2>1, <2>2
<1>4. pebLock = t
    BY <1>1 DEF CallOK, InsideLock
<1>5. \A c : NameHolders(c)' = NameHolders(c) /\ Droppers(c)' = Droppers(c)
    BY <1>1 DEF NameHolders, Droppers
<1>6. Holding(b)' = Holding(b) - 1
  <2>1. Cardinality(NameHolders(b)) \in Nat /\ Cardinality(Droppers(b)) \in Nat
      BY HoldersFinite
  <2> QED
      BY <1>0, <1>1, <1>3, <1>5, <2>1 DEF Holding
<1>7. \A c \in DOMAIN counts : c # b => Holding(c)' = Holding(c)
  <2>1. Null \notin DOMAIN counts
      BY DirectoryAssumption DEF CDTypeOK
  <2> QED
      BY <1>0, <1>1, <1>5, <2>1 DEF Holding
<1>8. /\ HandlesOK' /\ HeldOK' /\ CountOK' /\ CapturedDirectoryStays'
      /\ \A u \in DirUser : newHandle[u] # Null => opens'[newHandle[u]] = opens[newHandle[u]]
  <2>1. /\ UNCHANGED <<newHandle, toClose>>
        /\ \A u \in DirUser : /\ relative'[u] = relative[u] \/ relative'[u].block = Null
                              /\ toDrop'[u] \in {toDrop[u], Null}
      BY <1>1
  <2> QED
      BY <1>1, <1>3, <1>6, <1>7, <2>1, DerefKeeps
<1>9. CDTypeOK'
  <2>1. TablesOK'
      BY <1>1, <1>3, DerefFacts
  <2>2. curDir' \in [handle : DirHandle \cup {Null}, path : Directory]
      BY <1>1 DEF CDTypeOK
  <2> QED
      BY <1>1, <2>1, <2>2 DEF CDTypeOK, TablesOK
<1>10. CallTypeOK'
    BY <1>1, <1>2 DEF CallTypeOK, Reopening, InsideLock
<1>11. CallOK'
    BY <1>1, <1>2, <1>4 DEF CallOK, CallTypeOK, Reopening, InsideLock, HasNew
<1>12. SwapOK'
    BY <1>1, <1>2, <1>4 DEF SwapOK, CallOK, CallTypeOK, Reopening, InsideLock
<1>13. GoneOK' /\ CurDirOK'
  <2>1. GoneOK'
      BY <1>1, <1>2, <1>3 DEF GoneOK, Gone, CallTypeOK, Reopening
  <2>2. curDirRef' = Null /\ curDir'.handle = Null
      BY <1>1 DEF CDTypeOK
  <2> QED
      BY <2>1, <2>2 DEF CurDirOK
<1>14. TargetOK'
    BY <1>1, <1>2, <1>8 DEF TargetOK, CallOK, CallTypeOK, Reopening, HasNew
<1> QED
    BY <1>8, <1>9, <1>10, <1>11, <1>12, <1>13, <1>14

(* Nobody holds a block that is not allocated.                             *)
LEMMA FreshBlock ==
  ASSUME CDInv, NEW b \in DirBlock, b \notin DOMAIN counts
  PROVE  /\ NameHolders(b) = {} /\ Cardinality(NameHolders(b)) = 0
         /\ Droppers(b) = {} /\ Cardinality(Droppers(b)) = 0
<1>1. NameHolders(b) = {} /\ Droppers(b) = {}
    BY DirectoryAssumption DEF CDInv, HeldOK, NameHolders, Droppers
<1> QED
    BY <1>1, FS_EmptySet

(* The handle h, which was not open, is given to block b, which was not    *)
(* allocated, or to the calling thread.                                    *)
LEMMA ReopenInv ==
  ASSUME CDInv, NEW t \in DirUser, NEW d \in Directory, NEW h \in DirHandle,
         NEW b \in DirBlock, Reopen(t, d, h, b)
  PROVE  CDInv'
<1> USE DEF CDInv
<1>1. /\ dirAt[t] \in Reopening /\ h \notin DOMAIN opens /\ b \notin DOMAIN counts
      /\ curDirRef' = b /\ curDir' = [handle |-> h, path |-> d]
      /\ UNCHANGED <<pebLock, target, newHandle, toClose, toDrop, relative>>
    BY DEF Reopen, setVars, Reopening
<1>2. PICK l \in {"open", "capture", "peek"} : dirAt' = [dirAt EXCEPT ![t] = l]
    BY DEF Reopen, DirGoto, Revalidated
<1>3. /\ DOMAIN opens' = DOMAIN opens \cup {h} /\ opens'[h] = d
      /\ \A g \in DOMAIN opens : opens'[g] = opens[g]
    BY <1>1 DEF Reopen, With
<1>4. /\ DOMAIN counts' = DOMAIN counts \cup {b}
      /\ counts'[b] = [count |-> 1, handle |-> h]
      /\ \A c \in DOMAIN counts : counts'[c] = counts[c]
    BY <1>1 DEF Reopen, With
<1>5. pebLock = t /\ curDirRef = Null
    BY <1>1 DEF CallOK, InsideLock, Reopening
<1>6. CDTypeOK'
    BY <1>1, <1>3, <1>4 DEF CDTypeOK
<1>7. CallTypeOK'
    BY <1>1, <1>2 DEF CallTypeOK, InsideLock
<1>8. CallOK'
    BY <1>1, <1>2, <1>5 DEF CallOK, CallTypeOK, InsideLock, HasNew, Reopening
<1>9. SwapOK'
    BY <1>1, <1>2, <1>5 DEF SwapOK, CallOK, CallTypeOK, InsideLock
<1>10. GoneOK'
    BY <1>1, <1>2 DEF GoneOK, Gone, CallTypeOK, Reopening
<1>11. HeldOK' /\ CapturedDirectoryStays'
    BY <1>1, <1>3, <1>4 DEF HeldOK, CapturedDirectoryStays
<1>12. CountOK'
  <2>1. \A c : NameHolders(c)' = NameHolders(c) /\ Droppers(c)' = Droppers(c)
      BY <1>1 DEF NameHolders, Droppers
  <2>2. Null \notin DOMAIN counts
      BY DirectoryAssumption DEF CDTypeOK
  <2>3. \A c \in DOMAIN counts : c # curDirRef /\ c # curDirRef'
      BY <1>1, <1>5, <2>2
  <2>4. Cardinality(NameHolders(b)) = 0 /\ Cardinality(Droppers(b)) = 0
      BY <1>1, FreshBlock
  <2> QED
      BY <1>1, <1>4, <2>1, <2>3, <2>4 DEF CountOK
<1>13. CurDirOK'
    BY <1>1, <1>3, <1>4, DirectoryAssumption DEF CurDirOK
<1>14. HandlesOK'
  <2>1. OpenOK'
      BY <1>1, <1>3, <1>4 DEF HandlesOK, OpenOK
  <2>2. /\ \A c \in DOMAIN counts : counts[c].handle # h
        /\ \A u \in DirUser : newHandle[u] # h /\ toClose[u] # h
      BY <1>1, DirectoryAssumption DEF HandlesOK, OpenOK
  <2>3. HeldOnce'
      BY <1>1, <1>4, <2>2 DEF HandlesOK, HeldOnce
  <2>4. NoneLost'
      BY <1>1, <1>3, <1>4 DEF HandlesOK, NoneLost
  <2> QED
      BY <2>1, <2>3, <2>4 DEF HandlesOK
<1>15. TargetOK'
    BY <1>1, <1>2, <1>3 DEF TargetOK, CallOK, CallTypeOK, HasNew, HandlesOK, OpenOK
<1> QED
    BY <1>6, <1>7, <1>8, <1>9, <1>10, <1>11, <1>12, <1>13, <1>14, <1>15

LEMMA SetOpenInv ==
  ASSUME CDInv, NEW t \in DirUser, NEW h \in DirHandle, SetOpen(t, h) PROVE CDInv'
<1> USE DEF CDInv
<1>1. /\ dirAt[t] = "open" /\ dirAt' = [dirAt EXCEPT ![t] = "test"]
      /\ h \notin DOMAIN opens /\ newHandle' = [newHandle EXCEPT ![t] = h]
      /\ UNCHANGED <<counts, curDirRef, curDir, pebLock, target, toClose, toDrop, relative>>
    BY DEF SetOpen, DirGoto
<1>2. /\ DOMAIN opens' = DOMAIN opens \cup {h} /\ opens'[h] = target[t]
      /\ \A g \in DOMAIN opens : opens'[g] = opens[g]
    BY <1>1 DEF SetOpen, With
<1>3. pebLock = t /\ newHandle[t] = Null
    BY <1>1 DEF CallOK, InsideLock, HasNew
<1>4. CDTypeOK'
    BY <1>1, <1>2 DEF CDTypeOK, CallTypeOK
<1>5. CallTypeOK'
    BY <1>1 DEF CallTypeOK, InsideLock
<1>6. CallOK'
    BY <1>1, <1>3, DirectoryAssumption
       DEF CallOK, CallTypeOK, CDTypeOK, InsideLock, HasNew, Reopening
<1>7. SwapOK' /\ GoneOK'
    BY <1>1 DEF SwapOK, GoneOK, Gone, NameHolders, Droppers, CallTypeOK
<1>8. HeldOK' /\ CountOK'
    BY <1>1, CountSame DEF HeldOK
<1>9. CapturedDirectoryStays'
    BY <1>1, <1>2 DEF CapturedDirectoryStays
<1>10. CurDirOK'
  <2>1. ~Gone
      BY <1>1 DEF Gone, GoneOK
  <2>2. curDirRef # Null => curDir.handle \in DOMAIN opens
      BY <2>1 DEF CurDirOK, HandlesOK, OpenOK
  <2> QED
      BY <1>1, <1>2, <2>1, <2>2 DEF CurDirOK
<1>11. HandlesOK'
  <2>1. OpenOK'
      BY <1>1, <1>2 DEF HandlesOK, OpenOK, CDTypeOK
  <2>2. /\ \A c \in DOMAIN counts : counts[c].handle # h
        /\ \A u \in DirUser : newHandle[u] # h /\ toClose[u] # h
      BY <1>1, DirectoryAssumption DEF HandlesOK, OpenOK
  <2>3. HeldOnce'
      BY <1>1, <2>2 DEF HandlesOK, HeldOnce, CDTypeOK
  <2>4. NoneLost'
    <3>1. newHandle'[t] = h /\ \A u \in DirUser : u # t => newHandle'[u] = newHandle[u]
        BY <1>1 DEF CDTypeOK
    <3>2. Null \notin DOMAIN opens
        BY DirectoryAssumption DEF CDTypeOK
    <3> QED
        BY <1>1, <1>2, <1>3, <3>1, <3>2 DEF HandlesOK, NoneLost
  <2> QED
      BY <2>1, <2>3, <2>4 DEF HandlesOK
<1>12. TargetOK'
    BY <1>1, <1>2 DEF TargetOK, CallOK, CallTypeOK, CDTypeOK, HasNew, HandlesOK, OpenOK
<1> QED
    BY <1>4, <1>5, <1>6, <1>7, <1>8, <1>9, <1>10, <1>11, <1>12

(* The handle of the block changes; no captured name uses it.              *)
LEMMA SetSwapInv ==
  ASSUME CDInv, NEW t \in DirUser, SetSwap(t) PROVE CDInv'
<1> USE DEF CDInv
<1>0. PICK b, n, o : b = curDirRef /\ n = newHandle[t] /\ o = counts[curDirRef].handle
    OBVIOUS
<1>1. /\ dirAt[t] = "swap" /\ dirAt' = [dirAt EXCEPT ![t] = "exit"] /\ pebLock' = Null
      /\ toClose' = [toClose EXCEPT ![t] = o]
      /\ counts' = [counts EXCEPT ![b].handle = n]
      /\ curDir' = [handle |-> n, path |-> target[t]]
      /\ newHandle' = [newHandle EXCEPT ![t] = Null]
      /\ UNCHANGED <<opens, curDirRef, target, toDrop, relative>>
    BY <1>0 DEF SetSwap, DirGoto
<1>2. /\ pebLock = t /\ n # Null /\ n \in DirHandle /\ toClose[t] = Null
      /\ b # Null /\ NameHolders(b) = {} /\ Droppers(b) = {}
    BY <1>0, <1>1 DEF CallOK, SwapOK, InsideLock, HasNew, CDTypeOK
<1>3. ~Gone /\ b \in DOMAIN counts
    BY <1>0, <1>1, <1>2 DEF Gone, GoneOK, CurDirOK
<1>4. /\ DOMAIN counts' = DOMAIN counts
      /\ \A c \in DOMAIN counts : c # b => counts'[c] = counts[c]
      /\ counts'[b] = [counts[b] EXCEPT !.handle = n]
    BY <1>1, <1>3
<1>5. /\ counts'[b] \in [count : Nat \ {0}, handle : DirHandle]
      /\ counts'[b].handle = n /\ counts'[b].count = counts[b].count
    BY <1>2, <1>3, <1>4 DEF CDTypeOK
<1>6. o \in DirHandle /\ o \in DOMAIN opens /\ n \in DOMAIN opens /\ o # n
    BY <1>0, <1>2, <1>3 DEF HandlesOK, OpenOK, HeldOnce, CDTypeOK
<1>7. CDTypeOK'
  <2>1. \A c \in DOMAIN counts' : counts'[c] \in [count : Nat \ {0}, handle : DirHandle]
      BY <1>4, <1>5 DEF CDTypeOK
  <2>2. curDir' \in [handle : DirHandle \cup {Null}, path : Directory]
      BY <1>1, <1>2 DEF CallTypeOK
  <2> QED
      BY <1>1, <1>4, <1>6, <2>1, <2>2 DEF CDTypeOK
<1>8. CallTypeOK'
    BY <1>1 DEF CallTypeOK
<1>9. CallOK'
    BY <1>1, <1>2, DirectoryAssumption
       DEF CallOK, CallTypeOK, CDTypeOK, InsideLock, HasNew, Reopening
<1>10. SwapOK' /\ GoneOK'
  <2>1. SwapOK'
      BY <1>1, <1>2 DEF SwapOK, CallOK, CallTypeOK, InsideLock
  <2>2. GoneOK'
      BY <1>1, <1>3 DEF GoneOK, Gone, CallTypeOK
  <2> QED
      BY <2>1, <2>2
<1>11. HeldOK' /\ CountOK'
  <2>1. \A c \in DOMAIN counts : counts'[c].count = counts[c].count
      BY <1>4, <1>5
  <2> QED
      BY <1>1, <1>4, <2>1, CountSame DEF HeldOK
<1>12. CurDirOK'
  <2>1. opens[n] = target[t]
      BY <1>0, <1>1 DEF TargetOK, HasNew
  <2> QED
      BY <1>0, <1>1, <1>2, <1>3, <1>4, <1>5, <2>1 DEF CurDirOK
<1>13. TargetOK'
    BY <1>1, <1>2 DEF TargetOK, CallOK, CallTypeOK, CDTypeOK, HasNew, InsideLock
<1>14. CapturedDirectoryStays'
  <2>1. \A u \in DirUser : relative[u].block # b
      BY <1>2 DEF NameHolders
  <2> QED
      BY <1>1, <1>4, <2>1 DEF CapturedDirectoryStays
<1>15. \A u \in DirUser : /\ newHandle'[u] = IF u = t THEN Null ELSE newHandle[u]
                          /\ toClose'[u] = IF u = t THEN o ELSE toClose[u]
    BY <1>1 DEF CDTypeOK
<1>16. \A c \in DOMAIN counts : counts'[c].handle = IF c = b THEN n ELSE counts[c].handle
    BY <1>4, <1>5
<1>17. /\ \A c \in DOMAIN counts : /\ counts[c].handle # n
                                   /\ c # b => counts[c].handle # o
      /\ \A u \in DirUser : /\ newHandle[u] # o /\ toClose[u] # o /\ toClose[u] # n
                            /\ u # t => newHandle[u] # n
  <2>1. \A c \in DOMAIN counts : counts[c].handle # n /\ (c # b => counts[c].handle # o)
      BY <1>0, <1>3 DEF HandlesOK, HeldOnce
  <2>2. \A u \in DirUser : newHandle[u] # o /\ toClose[u] # o
      BY <1>0, <1>3 DEF HandlesOK, HeldOnce
  <2>3. \A u \in DirUser : toClose[u] # n /\ (u # t => newHandle[u] # n)
      BY <1>0, <1>2 DEF HandlesOK, HeldOnce
  <2> QED
      BY <2>1, <2>2, <2>3
<1>18. HandlesOK'
  <2>1. OpenOK'
      BY <1>1, <1>4, <1>6, <1>15, <1>16 DEF HandlesOK, OpenOK
  <2>2. HeldOnce'
    <3>1. \A c, e \in DOMAIN counts' : counts'[c].handle = counts'[e].handle => c = e
        BY <1>4, <1>16, <1>17 DEF HandlesOK, HeldOnce
    <3>2. \A u, v \in DirUser :
            /\ newHandle'[u] # Null /\ newHandle'[u] = newHandle'[v] => u = v
            /\ toClose'[u] # Null /\ toClose'[u] = toClose'[v] => u = v
            /\ newHandle'[u] # Null => newHandle'[u] # toClose'[v]
        BY <1>15, <1>17 DEF HandlesOK, HeldOnce
    <3>3. n # Null /\ \A c \in DOMAIN counts : counts[c].handle # Null
        BY <1>2, DirectoryAssumption DEF CDTypeOK
    <3>4. \A c \in DOMAIN counts', u \in DirUser :
            counts'[c].handle \notin {newHandle'[u], toClose'[u]}
        BY <1>4, <1>6, <1>15, <1>16, <1>17, <3>3 DEF HandlesOK, HeldOnce
    <3> QED
        BY <3>1, <3>2, <3>4 DEF HeldOnce
  <2>3. NoneLost'
    <3> SUFFICES ASSUME NEW h \in DOMAIN opens
                 PROVE  \/ \E c \in DOMAIN counts' : counts'[c].handle = h
                        \/ \E u \in DirUser : h \in {newHandle'[u], toClose'[u]}
        BY <1>1 DEF NoneLost
    <3>1. CASE h \in {n, o}
        BY <1>3, <1>4, <1>15, <1>16, <3>1
    <3>2. CASE h \notin {n, o}
      <4>1. Null \notin DOMAIN opens
          BY DirectoryAssumption DEF CDTypeOK
      <4>2. CASE \E c \in DOMAIN counts : counts[c].handle = h
          BY <1>0, <1>4, <1>16, <3>2, <4>2
      <4>3. CASE \E u \in DirUser : h \in {newHandle[u], toClose[u]}
        <5>1. PICK u \in DirUser : h \in {newHandle[u], toClose[u]}
            BY <4>3
        <5>2. u # t
            BY <1>0, <1>2, <3>2, <4>1, <5>1
        <5> QED
            BY <1>15, <5>1, <5>2
      <4> QED
          BY <4>2, <4>3 DEF HandlesOK, NoneLost
    <3> QED
        BY <3>1, <3>2
  <2> QED
      BY <2>1, <2>2, <2>3 DEF HandlesOK
<1> QED
    BY <1>7, <1>8, <1>9, <1>10, <1>11, <1>12, <1>13, <1>14, <1>18

(* The process lets go of its block and takes a new one; the call drops    *)
(* the reference of the process later.                                     *)
LEMMA SetReplaceInv ==
  ASSUME CDInv, NEW t \in DirUser, NEW b \in DirBlock, SetReplace(t, b) PROVE CDInv'
<1> USE DEF CDInv
<1>0. PICK n, old : n = newHandle[t] /\ old = curDirRef
    OBVIOUS
<1>1. /\ dirAt[t] = "replace" /\ dirAt' = [dirAt EXCEPT ![t] = "exit"] /\ pebLock' = Null
      /\ b \notin DOMAIN counts /\ curDirRef' = b
      /\ toDrop' = [toDrop EXCEPT ![t] = old]
      /\ curDir' = [handle |-> n, path |-> target[t]]
      /\ newHandle' = [newHandle EXCEPT ![t] = Null]
      /\ UNCHANGED <<opens, target, toClose, relative>>
    BY <1>0 DEF SetReplace, DirGoto
<1>2. /\ pebLock = t /\ n # Null /\ n \in DirHandle /\ toDrop[t] = Null
    BY <1>0, <1>1 DEF CallOK, InsideLock, HasNew, CDTypeOK
<1>3. ~Gone /\ (old # Null => old \in DOMAIN counts) /\ b # Null /\ b # old
    BY <1>0, <1>1, DirectoryAssumption DEF Gone, GoneOK, CurDirOK
<1>4. /\ DOMAIN counts' = DOMAIN counts \cup {b}
      /\ counts'[b] = [count |-> 1, handle |-> n]
      /\ \A c \in DOMAIN counts : counts'[c] = counts[c]
    BY <1>0, <1>1 DEF SetReplace, With
<1>5. n \in DOMAIN opens /\ opens[n] = target[t]
    BY <1>0, <1>1, <1>2 DEF HandlesOK, OpenOK, TargetOK, HasNew
<1>6. CDTypeOK'
  <2>1. /\ curDir' \in [handle : DirHandle \cup {Null}, path : Directory]
        /\ counts'[b] \in [count : Nat \ {0}, handle : DirHandle]
      BY <1>1, <1>2, <1>4 DEF CallTypeOK
  <2> QED
      BY <1>0, <1>1, <1>4, <2>1 DEF CDTypeOK
<1>7. CallTypeOK'
    BY <1>1 DEF CallTypeOK
<1>8. CallOK'
    BY <1>1, <1>2, DirectoryAssumption
       DEF CallOK, CallTypeOK, CDTypeOK, InsideLock, HasNew, Reopening
<1>9. SwapOK'
    BY <1>1, <1>2 DEF SwapOK, CallOK, CallTypeOK, InsideLock
<1>10. GoneOK'
    BY <1>1, <1>3 DEF GoneOK, Gone, CallTypeOK
<1>11. HeldOK'
    BY <1>1, <1>3, <1>4 DEF HeldOK, CDTypeOK
<1>12. CapturedDirectoryStays'
    BY <1>1, <1>4 DEF CapturedDirectoryStays
<1>13. CurDirOK'
    BY <1>1, <1>3, <1>4, <1>5 DEF CurDirOK
<1>14. TargetOK'
    BY <1>1 DEF TargetOK, CallTypeOK, CDTypeOK, HasNew
<1>15. CountOK'
  <2>1. /\ \A c : NameHolders(c)' = NameHolders(c)
        /\ \A c \in DOMAIN counts \cup {b} :
             Droppers(c)' = IF c = old THEN Droppers(c) \cup {t} ELSE Droppers(c)
    <3>1. \A u \in DirUser : toDrop'[u] = IF u = t THEN old ELSE toDrop[u]
        BY <1>1 DEF CDTypeOK
    <3>2. Null \notin DOMAIN counts \cup {b}
        BY DirectoryAssumption DEF CDTypeOK
    <3> QED
        BY <1>1, <1>2, <3>1, <3>2 DEF NameHolders, Droppers
  <2>2. ASSUME NEW c \in DOMAIN counts, c = old PROVE counts'[c].count = Holding(c)'
    <3>1. c # Null
        BY DirectoryAssumption DEF CDTypeOK
    <3>2. t \notin Droppers(c)
        BY <1>2, <3>1, Zenon DEF Droppers
    <3>3. IsFiniteSet(Droppers(c))
        BY HoldersFinite, Zenon
    <3>4. Cardinality(Droppers(c)') = Cardinality(Droppers(c)) + 1
        BY <2>1, <2>2, <3>2, <3>3, OneMore
    <3>5. Cardinality(Droppers(c)) \in Nat /\ Cardinality(NameHolders(c)) \in Nat
        BY HoldersFinite
    <3>6. counts[c].count = 1 + Cardinality(NameHolders(c)) + Cardinality(Droppers(c))
        BY <1>0, <2>2 DEF CountOK
    <3> QED
        BY <1>1, <1>3, <1>4, <2>1, <2>2, <3>4, <3>5, <3>6 DEF Holding
  <2>3. ASSUME NEW c \in DOMAIN counts, c # old PROVE counts'[c].count = Holding(c)'
      BY <1>0, <1>1, <1>4, <2>1, <2>3 DEF CountOK, Holding
  <2>4. counts'[b].count = Holding(b)'
    <3>1. Cardinality(NameHolders(b)) = 0 /\ Cardinality(Droppers(b)) = 0
        BY <1>1, FreshBlock
    <3> QED
        BY <1>1, <1>3, <1>4, <2>1, <3>1 DEF Holding
  <2> QED
      BY <1>4, <2>2, <2>3, <2>4 DEF CountOK, Holding
<1>16. \A u \in DirUser : newHandle'[u] = IF u = t THEN Null ELSE newHandle[u]
    BY <1>1 DEF CDTypeOK
<1>17. HandlesOK'
  <2>1. OpenOK'
      BY <1>1, <1>4, <1>5, <1>16 DEF HandlesOK, OpenOK
  <2>2. /\ \A c \in DOMAIN counts : counts[c].handle # n /\ counts[c].handle # Null
        /\ \A u \in DirUser : toClose[u] # n /\ (u # t => newHandle[u] # n)
    <3>1. \A c \in DOMAIN counts : counts[c].handle # n /\ counts[c].handle # Null
        BY <1>0, DirectoryAssumption DEF HandlesOK, HeldOnce, CDTypeOK
    <3>2. \A u \in DirUser : toClose[u] # n /\ (u # t => newHandle[u] # n)
        BY <1>0, <1>2 DEF HandlesOK, HeldOnce
    <3> QED
        BY <3>1, <3>2
  <2>3. HeldOnce'
    <3>1. \A c, e \in DOMAIN counts' : counts'[c].handle = counts'[e].handle => c = e
        BY <1>4, <2>2 DEF HandlesOK, HeldOnce
    <3>2. \A u, v \in DirUser :
            /\ newHandle'[u] # Null /\ newHandle'[u] = newHandle'[v] => u = v
            /\ toClose'[u] # Null /\ toClose'[u] = toClose'[v] => u = v
            /\ newHandle'[u] # Null => newHandle'[u] # toClose'[v]
        BY <1>1, <1>16 DEF HandlesOK, HeldOnce
    <3>3. \A c \in DOMAIN counts', u \in DirUser :
            counts'[c].handle \notin {newHandle'[u], toClose'[u]}
        BY <1>1, <1>2, <1>4, <1>16, <2>2 DEF HandlesOK, HeldOnce
    <3> QED
        BY <3>1, <3>2, <3>3 DEF HeldOnce
  <2>4. NoneLost'
    <3>1. ASSUME NEW h \in DOMAIN opens, h # n
          PROVE  \/ \E c \in DOMAIN counts' : counts'[c].handle = h
                 \/ \E u \in DirUser : h \in {newHandle'[u], toClose'[u]}
        BY <1>0, <1>1, <1>4, <1>16, <3>1 DEF HandlesOK, NoneLost
    <3>2. counts'[b].handle = n
        BY <1>4
    <3> QED
        BY <1>1, <1>4, <3>1, <3>2 DEF NoneLost
  <2> QED
      BY <2>1, <2>3, <2>4 DEF HandlesOK
<1> QED
    BY <1>6, <1>7, <1>8, <1>9, <1>10, <1>11, <1>12, <1>13, <1>14, <1>15, <1>17

LEMMA SetCloseInv ==
  ASSUME CDInv, NEW t \in DirUser, SetClose(t) PROVE CDInv'
<1> USE DEF CDInv
<1>0. PICK n, o : n = newHandle[t] /\ o = toClose[t]
    OBVIOUS
<1>1. /\ dirAt[t] = "exit" /\ newHandle' = [newHandle EXCEPT ![t] = Null]
      /\ toClose' = [toClose EXCEPT ![t] = Null]
      /\ UNCHANGED <<counts, curDirRef, curDir, pebLock, dirAt, target, toDrop, relative>>
    BY DEF SetClose
<1>2. /\ DOMAIN opens' = DOMAIN opens \ {n, o}
      /\ \A h \in DOMAIN opens' : opens'[h] = opens[h]
    BY <1>0 DEF SetClose
<1>3. \A u \in DirUser : /\ newHandle'[u] = IF u = t THEN Null ELSE newHandle[u]
                         /\ toClose'[u] = IF u = t THEN Null ELSE toClose[u]
    BY <1>1 DEF CDTypeOK
<1>4. \A c \in DOMAIN counts : counts[c].handle \in DOMAIN opens'
    BY <1>0, <1>2 DEF HandlesOK, OpenOK, HeldOnce
<1>5. ASSUME NEW u \in DirUser, u # t
      PROVE  /\ newHandle[u] # Null => newHandle[u] \in DOMAIN opens'
             /\ toClose[u] # Null => toClose[u] \in DOMAIN opens'
  <2>1. newHandle[u] # Null => newHandle[u] \notin {n, o}
      BY <1>0, <1>5 DEF HandlesOK, HeldOnce
  <2>2. toClose[u] # Null => toClose[u] \notin {n, o}
      BY <1>0, <1>5 DEF HandlesOK, HeldOnce
  <2> QED
      BY <1>2, <2>1, <2>2 DEF HandlesOK, OpenOK
<1>6. CDTypeOK' /\ CallTypeOK'
    BY <1>1, <1>2 DEF CDTypeOK, CallTypeOK
<1>7. CallOK'
    BY <1>1, <1>3 DEF CallOK, HasNew
<1>8. SwapOK' /\ GoneOK' /\ ~Gone
    BY <1>1 DEF SwapOK, GoneOK, Gone, NameHolders, Droppers
<1>9. HeldOK' /\ CountOK'
    BY <1>1, CountSame DEF HeldOK
<1>10. CurDirOK'
    BY <1>1, <1>2, <1>4, <1>8 DEF CurDirOK, GoneOK, Gone
<1>11. TargetOK'
    BY <1>1, <1>2, <1>3, <1>5 DEF TargetOK, HasNew, CallOK
<1>12. CapturedDirectoryStays'
    BY <1>1, <1>2, <1>4 DEF CapturedDirectoryStays
<1>13. HandlesOK'
  <2>1. OpenOK'
      BY <1>1, <1>3, <1>4, <1>5 DEF OpenOK
  <2>2. HeldOnce'
    <3>1. \A c \in DOMAIN counts : counts[c].handle # Null
        BY DirectoryAssumption DEF CDTypeOK
    <3>2. \A u, v \in DirUser :
            /\ newHandle'[u] # Null /\ newHandle'[u] = newHandle'[v] => u = v
            /\ toClose'[u] # Null /\ toClose'[u] = toClose'[v] => u = v
            /\ newHandle'[u] # Null => newHandle'[u] # toClose'[v]
        BY <1>3 DEF HandlesOK, HeldOnce
    <3>3. \A c \in DOMAIN counts', u \in DirUser :
            counts'[c].handle \notin {newHandle'[u], toClose'[u]}
        BY <1>1, <1>3, <3>1 DEF HandlesOK, HeldOnce
    <3> QED
        BY <1>1, <3>2, <3>3 DEF HandlesOK, HeldOnce
  <2>3. NoneLost'
    <3> SUFFICES ASSUME NEW h \in DOMAIN opens'
                 PROVE  \/ \E c \in DOMAIN counts : counts[c].handle = h
                        \/ \E u \in DirUser : h \in {newHandle'[u], toClose'[u]}
        BY <1>1 DEF NoneLost
    <3>1. CASE \E u \in DirUser : h \in {newHandle[u], toClose[u]}
      <4>1. PICK u \in DirUser : h \in {newHandle[u], toClose[u]}
          BY <3>1
      <4>2. u # t
          BY <1>0, <1>2, <4>1
      <4> QED
          BY <1>3, <4>1, <4>2
    <3> QED
        BY <1>2, <3>1 DEF HandlesOK, NoneLost
  <2> QED
      BY <2>1, <2>2, <2>3 DEF HandlesOK
<1> QED
    BY <1>6, <1>7, <1>8, <1>9, <1>10, <1>11, <1>12, <1>13

(* A call ends and drops the reference it holds, if any.                   *)
LEMMA CallEndsInv ==
  ASSUME CDInv, NEW t \in DirUser, NEW b \in DirBlock \cup {Null},
         dirAt[t] \in {"exit", "use"}, dirAt' = [dirAt EXCEPT ![t] = "idle"],
         newHandle[t] = Null, toClose[t] = Null,
         b \in {relative[t].block, toDrop[t]},
         \/ /\ b = toDrop[t] /\ dirAt[t] = "exit"
            /\ toDrop' = [toDrop EXCEPT ![t] = Null] /\ relative' = relative
         \/ /\ b = relative[t].block /\ dirAt[t] = "use"
            /\ relative' = [relative EXCEPT ![t] = NoName] /\ toDrop' = toDrop,
         IF b = Null THEN UNCHANGED <<counts, opens>> ELSE RtlpDereferenceCurDirRef(b),
         UNCHANGED <<curDirRef, curDir, pebLock, target, newHandle, toClose>>
  PROVE  CDInv'
<1> USE DEF CDInv
<1>1. /\ relative'[t].block = Null /\ toDrop'[t] = Null
      /\ \A u \in DirUser : u # t => relative'[u] = relative[u] /\ toDrop'[u] = toDrop[u]
    BY DEF CallOK, CallTypeOK, CDTypeOK, NoName
<1>2. \A u \in DirUser : /\ relative'[u] = relative[u] \/ relative'[u].block = Null
                         /\ toDrop'[u] \in {toDrop[u], Null}
    BY <1>1
<1>3. CallTypeOK'
  <2>1. NoName \in [block : DirBlock \cup {Null}, handle : DirHandle \cup {Null},
                    path : Directory \cup {Null}]
      BY DEF NoName
  <2> QED
      BY <2>1 DEF CallTypeOK
<1>4. CallOK'
    BY <1>1, DirectoryAssumption
       DEF CallOK, CallTypeOK, InsideLock, HasNew, Reopening
<1>5. SwapOK'
  <2>1. \A c : c # Null =>
          /\ NameHolders(c)' \subseteq NameHolders(c) /\ Droppers(c)' \subseteq Droppers(c)
      BY <1>2 DEF NameHolders, Droppers
  <2> QED
      BY <2>1 DEF SwapOK, CallTypeOK
<1>6. GoneOK' /\ ~Gone
    BY DEF GoneOK, Gone, CallTypeOK
<1>7. CASE b = Null
  <2>1. \A c \in DOMAIN counts : /\ NameHolders(c)' = NameHolders(c)
                                 /\ Droppers(c)' = Droppers(c)
    <3>1. relative[t].block = Null /\ toDrop[t] = Null
        BY <1>7 DEF CallOK
    <3> QED
        BY <1>1, <3>1 DEF NameHolders, Droppers
  <2>2. CountOK'
      BY <1>7, <2>1 DEF CountOK
  <2>3. CDTypeOK' /\ HeldOK' /\ CapturedDirectoryStays'
    <3>1. CDTypeOK'
        BY <1>7 DEF CDTypeOK
    <3>2. HeldOK' /\ CapturedDirectoryStays'
        BY <1>1, <1>7 DEF HeldOK, CapturedDirectoryStays
    <3> QED
        BY <3>1, <3>2
  <2>4. CurDirOK' /\ TargetOK'
      BY <1>6, <1>7 DEF CurDirOK, TargetOK, GoneOK, HasNew, CallTypeOK
  <2>5. HandlesOK'
      BY <1>7 DEF HandlesOK, OpenOK, HeldOnce, NoneLost
  <2> QED
      BY <1>3, <1>4, <1>5, <1>6, <2>2, <2>3, <2>4, <2>5
<1>8. CASE b # Null
  <2>1. b \in DOMAIN counts /\ RtlpDereferenceCurDirRef(b)
      BY <1>8 DEF HeldOK
  <2>2. \A c \in DOMAIN counts : c # b =>
          NameHolders(c)' = NameHolders(c) /\ Droppers(c)' = Droppers(c)
    <3>1. Null \notin DOMAIN counts
        BY DirectoryAssumption DEF CDTypeOK
    <3>2. relative[t].block \in {b, Null} /\ toDrop[t] \in {b, Null}
        BY DEF CallOK
    <3> QED
        BY <1>1, <3>1, <3>2 DEF NameHolders, Droppers
  <2>3. /\ Cardinality(NameHolders(b)) \in Nat /\ IsFiniteSet(NameHolders(b))
        /\ Cardinality(Droppers(b)) \in Nat /\ IsFiniteSet(Droppers(b))
      BY HoldersFinite
  <2>4. Holding(b)' = Holding(b) - 1
    <3>1. CASE dirAt[t] = "exit"
      <4>1. b = toDrop[t] /\ relative' = relative
          BY <3>1, <1>8
      <4>2. t \in Droppers(b) /\ Droppers(b)' = Droppers(b) \ {t}
          BY <1>1, <1>8, <4>1 DEF Droppers
      <4>3. NameHolders(b)' = NameHolders(b)
          BY <4>1 DEF NameHolders
      <4>4. Cardinality(Droppers(b)') = Cardinality(Droppers(b)) - 1
          BY <2>3, <4>2, OneLess
      <4> QED
          BY <2>3, <4>3, <4>4 DEF Holding
    <3>2. CASE dirAt[t] = "use"
      <4>1. b = relative[t].block /\ toDrop' = toDrop
          BY <3>2, <1>8
      <4>2. t \in NameHolders(b) /\ NameHolders(b)' = NameHolders(b) \ {t}
          BY <1>1, <1>8, <4>1 DEF NameHolders
      <4>3. Droppers(b)' = Droppers(b)
          BY <4>1 DEF Droppers
      <4>4. Cardinality(NameHolders(b)') = Cardinality(NameHolders(b)) - 1
          BY <2>3, <4>2, OneLess
      <4> QED
          BY <2>3, <4>3, <4>4 DEF Holding
    <3> QED
        BY <3>1, <3>2
  <2>5. \A c \in DOMAIN counts : c # b => Holding(c)' = Holding(c)
      BY <2>2 DEF Holding
  <2>6. /\ HandlesOK' /\ HeldOK' /\ CountOK' /\ CapturedDirectoryStays'
        /\ \A u \in DirUser : newHandle[u] # Null => opens'[newHandle[u]] = opens[newHandle[u]]
      BY <1>2, <2>1, <2>4, <2>5, DerefKeeps
  <2>7. /\ TablesOK'
        /\ DOMAIN counts' = IF counts[b].count = 1 THEN DOMAIN counts \ {b}
                            ELSE DOMAIN counts
        /\ \A c \in DOMAIN counts' : counts'[c].handle = counts[c].handle
        /\ \A h \in DOMAIN opens' : opens'[h] = opens[h]
      BY <2>1, DerefFacts
  <2>8. CDTypeOK'
    <3>1. toDrop' \in [DirUser -> DirBlock \cup {Null}]
        BY DEF CDTypeOK
    <3> QED
        BY <2>7, <3>1 DEF CDTypeOK, TablesOK
  <2>9. CurDirOK'
    <3> SUFFICES ASSUME curDirRef # Null
                 PROVE  /\ curDirRef \in DOMAIN counts'
                        /\ counts'[curDirRef].handle = curDir.handle
                        /\ opens'[curDir.handle] = curDir.path
        BY <1>6 DEF CurDirOK
    <3>1. /\ curDirRef \in DOMAIN counts /\ counts[curDirRef].handle = curDir.handle
          /\ opens[curDir.handle] = curDir.path
        BY <1>6 DEF CurDirOK
    <3>2. counts[b].count = 1 => curDirRef # b
      <4>1. counts[b].count = Holding(b)
          BY <2>1 DEF CountOK, Holding
      <4> QED
          BY <2>4, <4>1, NobodyHolds
    <3>3. curDirRef \in DOMAIN counts'
        BY <2>7, <3>1, <3>2
    <3>4. curDir.handle \in DOMAIN opens'
        BY <2>6, <2>7, <3>1, <3>3 DEF HandlesOK, OpenOK
    <3> QED
        BY <2>7, <3>1, <3>3, <3>4
  <2>10. TargetOK'
      BY <2>6 DEF TargetOK, HasNew, CallTypeOK, CallOK
  <2> QED
      BY <1>3, <1>4, <1>5, <1>6, <2>6, <2>8, <2>9, <2>10
<1> QED
    BY <1>7, <1>8

LEMMA SetExitInv ==
  ASSUME CDInv, NEW t \in DirUser, SetExit(t) \/ RtlReleaseRelativeName(t) PROVE CDInv'
<1> USE DEF CDInv
<1>1. CASE SetExit(t)
  <2>1. /\ dirAt[t] = "exit" /\ newHandle[t] = Null /\ toClose[t] = Null
        /\ toDrop[t] \in DirBlock \cup {Null}
      BY <1>1 DEF SetExit, CDTypeOK
  <2> QED
      BY <1>1, <2>1, CallEndsInv DEF SetExit, DirGoto
<1>2. CASE RtlReleaseRelativeName(t)
  <2>1. /\ dirAt[t] = "use" /\ newHandle[t] = Null /\ toClose[t] = Null
      BY <1>2 DEF RtlReleaseRelativeName, CallOK, HasNew
  <2>2. relative[t].block \in DirBlock \cup {Null}
      BY DEF CallTypeOK
  <2> QED
      BY <1>2, <2>1, <2>2, CallEndsInv DEF RtlReleaseRelativeName, DirGoto, setVars
<1> QED
    BY <1>1, <1>2

LEMMA CaptureInv ==
  ASSUME CDInv, NEW t \in DirUser, Capture(t) \/ Peek(t) PROVE CDInv'
<1> USE DEF CDInv
<1>1. /\ dirAt[t] \in {"capture", "peek"} /\ pebLock' = Null
      /\ UNCHANGED <<opens, curDirRef, curDir, target, newHandle, toClose, toDrop>>
    BY DEF Capture, Peek, setVars
<1>2. /\ pebLock = t /\ relative[t].block = Null /\ toDrop[t] = Null /\ newHandle[t] = Null
      /\ toClose[t] = Null /\ ~Gone
    BY <1>1 DEF CallOK, InsideLock, HasNew, Gone, GoneOK
<1>3. CASE Capture(t) /\ curDir.handle = Null
  <2>1. dirAt' = [dirAt EXCEPT ![t] = "idle"] /\ UNCHANGED <<counts, relative>>
      BY <1>3 DEF Capture, DirGoto
  <2> QED
      BY <1>1, <1>2, <2>1, DirMoveInv DEF CallTypeOK, InsideLock, HasNew, Reopening
<1>4. CASE ~(Capture(t) /\ curDir.handle = Null)
  <2>0. PICK b : b = IF Capture(t) THEN curDirRef ELSE Null
      OBVIOUS
  <2>1. /\ dirAt' = [dirAt EXCEPT ![t] = "use"]
        /\ relative' = [relative EXCEPT ![t] =
             [block |-> b, handle |-> curDir.handle, path |-> curDir.path]]
      BY <1>4, <2>0 DEF Capture, Peek, DirGoto
  <2>2. counts' = IF b = Null THEN counts ELSE [counts EXCEPT ![b].count = @ + 1]
    <3>1. Capture(t) => curDirRef # Null
        BY <1>2, <1>4 DEF CurDirOK
    <3> QED
        BY <1>4, <2>0, <3>1 DEF Capture, Peek
  <2>3. b # Null => /\ b = curDirRef /\ b \in DOMAIN counts
                    /\ counts[b].handle = curDir.handle
                    /\ curDir.handle \in DOMAIN opens
                    /\ opens[curDir.handle] = curDir.path
      BY <1>2, <2>0 DEF CurDirOK, HandlesOK, OpenOK
  <2>4. /\ DOMAIN counts' = DOMAIN counts
        /\ \A c \in DOMAIN counts :
             /\ counts'[c] \in [count : Nat \ {0}, handle : DirHandle]
             /\ counts'[c].handle = counts[c].handle
             /\ counts'[c].count = IF c = b THEN counts[c].count + 1 ELSE counts[c].count
    <3>1. CASE b = Null
      <4>1. Null \notin DOMAIN counts
          BY DirectoryAssumption DEF CDTypeOK
      <4> QED
          BY <2>2, <3>1, <4>1 DEF CDTypeOK
    <3>2. CASE b # Null
      <4>1. DOMAIN counts' = DOMAIN counts /\ \A c \in DOMAIN counts : c # b => counts'[c] = counts[c]
          BY <2>2, <3>2
      <4>2. counts'[b] = [counts[b] EXCEPT !.count = @ + 1]
          BY <2>2, <2>3, <3>2
      <4>3. counts[b] \in [count : Nat \ {0}, handle : DirHandle]
          BY <2>3, <3>2 DEF CDTypeOK
      <4>4. /\ counts'[b] \in [count : Nat \ {0}, handle : DirHandle]
            /\ counts'[b].handle = counts[b].handle
            /\ counts'[b].count = counts[b].count + 1
          BY <4>2, <4>3
      <4> QED
          BY <4>1, <4>4 DEF CDTypeOK
    <3> QED
        BY <3>1, <3>2
  <2>5. /\ relative'[t] = [block |-> b, handle |-> curDir.handle, path |-> curDir.path]
        /\ \A u \in DirUser : u # t => relative'[u] = relative[u]
      BY <2>1 DEF CallTypeOK
  <2>6. CDTypeOK'
      BY <1>1, <2>4 DEF CDTypeOK
  <2>7. CallTypeOK'
    <3>1. b \in DirBlock \cup {Null} /\ curDir.handle \in DirHandle \cup {Null}
          /\ curDir.path \in Directory
        BY <2>0 DEF CDTypeOK
    <3> QED
        BY <1>1, <2>1, <3>1 DEF CallTypeOK
  <2>8. CallOK'
      BY <1>1, <1>2, <2>1, <2>5, DirectoryAssumption
         DEF CallOK, CallTypeOK, InsideLock, HasNew, Reopening
  <2>9. SwapOK'
      BY <1>1, <1>2, <2>1 DEF SwapOK, CallOK, CallTypeOK, InsideLock
  <2>10. GoneOK'
      BY <1>1, <1>2, <2>1 DEF GoneOK, Gone, CallTypeOK
  <2>11. HeldOK' /\ CapturedDirectoryStays'
    <3>1. HeldOK'
        BY <1>1, <2>3, <2>4, <2>5 DEF HeldOK
    <3>2. CapturedDirectoryStays'
        BY <1>1, <2>3, <2>4, <2>5 DEF CapturedDirectoryStays
    <3> QED
        BY <3>1, <3>2
  <2>12. CountOK'
    <3>1. ASSUME NEW c \in DOMAIN counts, c # b PROVE counts'[c].count = Holding(c)'
      <4>1. NameHolders(c)' = NameHolders(c) /\ Droppers(c)' = Droppers(c)
        <5>1. c # Null
            BY DirectoryAssumption DEF CDTypeOK
        <5> QED
            BY <1>1, <1>2, <2>5, <3>1, <5>1 DEF NameHolders, Droppers
      <4> QED
          BY <1>1, <2>4, <3>1, <4>1 DEF CountOK, Holding
    <3>2. ASSUME NEW c \in DOMAIN counts, c = b PROVE counts'[c].count = Holding(c)'
      <4>1. c # Null
          BY DirectoryAssumption DEF CDTypeOK
      <4>2. /\ NameHolders(c)' = NameHolders(c) \cup {t} /\ t \notin NameHolders(c)
            /\ Droppers(c)' = Droppers(c)
          BY <1>1, <1>2, <2>5, <3>2, <4>1 DEF NameHolders, Droppers
      <4>3. /\ Cardinality(NameHolders(c)) \in Nat /\ Cardinality(Droppers(c)) \in Nat
            /\ IsFiniteSet(NameHolders(c))
          BY HoldersFinite
      <4>4. Cardinality(NameHolders(c)') = Cardinality(NameHolders(c)) + 1
          BY <4>2, <4>3, OneMore
      <4> QED
          BY <1>1, <2>4, <3>2, <4>2, <4>3, <4>4 DEF CountOK, Holding
    <3> QED
        BY <2>4, <3>1, <3>2 DEF CountOK, Holding
  <2>13. CurDirOK' /\ TargetOK'
    <3>1. CurDirOK'
        BY <1>1, <1>2, <2>4 DEF CurDirOK
    <3>2. TargetOK'
        BY <1>1, <2>1 DEF TargetOK, CallTypeOK, HasNew
    <3> QED
        BY <3>1, <3>2
  <2>14. HandlesOK'
      BY <1>1, <2>4 DEF HandlesOK, OpenOK, HeldOnce, NoneLost
  <2> QED
      BY <2>6, <2>7, <2>8, <2>9, <2>10, <2>11, <2>12, <2>13, <2>14
<1> QED
    BY <1>3, <1>4

LEMMA TerminateCurDirInv ==
  ASSUME CDInv, LdkpTerminateCurDir PROVE CDInv'
<1> USE DEF CDInv
<1>0. PICK b : b = curDirRef
    OBVIOUS
<1>1. /\ \A t \in DirUser : dirAt[t] = "idle"
      /\ b # Null /\ RtlpDereferenceCurDirRef(b) /\ dirAt' = [t \in DirUser |-> "gone"]
      /\ UNCHANGED <<curDirRef, curDir, pebLock, target, newHandle, toClose, toDrop, relative>>
    BY <1>0 DEF LdkpTerminateCurDir, setVars
<1>2. ~Gone /\ b \in DOMAIN counts /\ DirUser # {}
    BY <1>0, <1>1 DEF Gone, CurDirOK, GoneOK
<1>3. \A t \in DirUser : /\ relative[t].block = Null /\ toDrop[t] = Null
                         /\ newHandle[t] = Null /\ toClose[t] = Null
    BY <1>1 DEF CallOK, HasNew
<1>4. NameHolders(b) = {} /\ Droppers(b) = {}
    BY <1>1, <1>3 DEF NameHolders, Droppers
<1>5. counts[b].count = 1
  <2>1. Cardinality(NameHolders(b)) = 0 /\ Cardinality(Droppers(b)) = 0
      BY <1>4, FS_EmptySet
  <2> QED
      BY <1>0, <1>2, <2>1 DEF CountOK
<1>6. /\ TablesOK'
      /\ DOMAIN counts' = DOMAIN counts \ {b}
      /\ \A c \in DOMAIN counts' : /\ counts'[c].handle = counts[c].handle
                                   /\ counts'[c].count = counts[c].count
      /\ DOMAIN opens' = DOMAIN opens \ {counts[b].handle}
      /\ \A h \in DOMAIN opens' : opens'[h] = opens[h]
    BY <1>1, <1>2, <1>5, DerefFacts
<1>7. CDTypeOK' /\ CallTypeOK'
    BY <1>1, <1>6 DEF CDTypeOK, CallTypeOK, TablesOK
<1>8. Gone'
    BY <1>1, <1>2 DEF Gone
<1>9. CallOK' /\ SwapOK' /\ GoneOK' /\ CurDirOK' /\ TargetOK'
  <2>1. CallOK'
      BY <1>1, <1>3 DEF CallOK, InsideLock, HasNew, Reopening
  <2>2. SwapOK' /\ TargetOK'
      BY <1>1 DEF SwapOK, TargetOK, HasNew
  <2> QED
      BY <1>1, <1>2, <1>8, <2>1, <2>2 DEF GoneOK, CurDirOK
<1>10. HeldOK' /\ CapturedDirectoryStays'
    BY <1>1, <1>3 DEF HeldOK, CapturedDirectoryStays
<1>11. CountOK'
  <2>1. \A c : NameHolders(c)' = NameHolders(c) /\ Droppers(c)' = Droppers(c)
      BY <1>1 DEF NameHolders, Droppers
  <2> QED
      BY <1>1, <1>6, <2>1 DEF CountOK
<1>12. HandlesOK'
    BY <1>1, <1>2, <1>3, <1>6 DEF HandlesOK, OpenOK, HeldOnce, NoneLost
<1> QED
    BY <1>7, <1>9, <1>10, <1>11, <1>12

LEMMA CDStepInv == CDInv /\ [CDNext]_dirVars => CDInv'
<1> SUFFICES ASSUME CDInv, [CDNext]_dirVars PROVE CDInv'
    OBVIOUS
<1>1. CASE UNCHANGED dirVars
  <2> USE <1>1 DEF dirVars, CDInv
  <2>1. CDTypeOK' /\ CallTypeOK' /\ CallOK' /\ GoneOK' /\ HeldOK'
      BY DEF CDTypeOK, CallTypeOK, CallOK, GoneOK, Gone, HeldOK
  <2>2. SwapOK' /\ CurDirOK' /\ TargetOK' /\ CapturedDirectoryStays'
      BY DEF SwapOK, NameHolders, Droppers, CurDirOK, Gone, TargetOK, CapturedDirectoryStays
  <2>3. CountOK'
      BY CountSame
  <2>4. HandlesOK'
      BY DEF HandlesOK, OpenOK, HeldOnce, NoneLost
  <2> QED
      BY <2>1, <2>2, <2>3, <2>4
<1> QED
    BY <1>1, DirMovesInv, ValidateInv, ReopenInv, SetOpenInv, SetSwapInv, SetReplaceInv,
       SetCloseInv, SetExitInv, CaptureInv, TerminateCurDirInv DEF CDNext

(* The inductive invariant of the current directory.                       *)
THEOREM CDInvariance == CDSpec => []CDInv
BY CDInitInv, CDStepInv, PTL DEF CDSpec

(* Types of the current directory: no count of a block is ever zero.       *)
THEOREM CurrentDirectoryTypes == CDSpec => []CDTypeOK
<1>1. CDInv => CDTypeOK
    BY DEF CDInv
<1> QED
    BY <1>1, CDInvariance, PTL

(* A name that RtlDosPathNameToRelativeNtPathName_U made relative to the   *)
(* current directory stays relative to that directory, whatever            *)
(* RtlSetCurrentDirectory_U does in any number of other threads.           *)
THEOREM CapturedStays == CDSpec => []CapturedDirectoryStays
<1>1. CDInv => CapturedDirectoryStays
    BY DEF CDInv
<1> QED
    BY <1>1, CDInvariance, PTL

(* The counts of the RTLP_CURDIR_REFs are exact, every open directory      *)
(* handle has one holder, and block, handle and path agree.                *)
THEOREM DirectoriesCounted == CDSpec => []DirectoryHandlesExact
<1>1. CDInv => DirectoryHandlesExact
  <2> SUFFICES ASSUME CDInv PROVE DirectoryHandlesExact
      OBVIOUS
  <2> USE DEF CDInv
  <2>1. \A b \in DOMAIN counts : counts[b].count =
          (IF b = curDirRef THEN 1 ELSE 0)
            + Cardinality({t \in DirUser : relative[t].block = b})
            + Cardinality({t \in DirUser : toDrop[t] = b})
      BY DEF CountOK, NameHolders, Droppers
  <2>2. ASSUME NEW h \in DOMAIN opens
        PROVE  1 = Cardinality({b \in DOMAIN counts : counts[b].handle = h})
                     + Cardinality({t \in DirUser : newHandle[t] = h})
                     + Cardinality({t \in DirUser : toClose[t] = h})
    <3> DEFINE B == {b \in DOMAIN counts : counts[b].handle = h}
               N == {t \in DirUser : newHandle[t] = h}
               C == {t \in DirUser : toClose[t] = h}
    <3>0. h # Null
        BY DirectoryAssumption DEF CDTypeOK
    <3>1. CASE B # {}
      <4>1. PICK b \in B : TRUE
          BY <3>1
      <4>2. B = {b}
          BY <3>0, <4>1 DEF HandlesOK, HeldOnce
      <4>3. N = {} /\ C = {}
          BY <3>0, <3>1 DEF HandlesOK, HeldOnce
      <4>4. Cardinality(B) = 1
          BY <4>2, FS_Singleton
      <4>5. Cardinality(N) = 0 /\ Cardinality(C) = 0
          BY <4>3, FS_EmptySet
      <4> QED
          BY <4>4, <4>5
    <3>2. CASE N # {}
      <4>1. PICK t \in N : TRUE
          BY <3>2
      <4>2. N = {t}
          BY <3>0, <4>1 DEF HandlesOK, HeldOnce
      <4>3. B = {} /\ C = {}
          BY <3>0, <3>2 DEF HandlesOK, HeldOnce
      <4>4. Cardinality(N) = 1
          BY <4>2, FS_Singleton
      <4>5. Cardinality(B) = 0 /\ Cardinality(C) = 0
          BY <4>3, FS_EmptySet
      <4> QED
          BY <4>4, <4>5
    <3>3. CASE C # {}
      <4>1. PICK t \in C : TRUE
          BY <3>3
      <4>2. C = {t}
          BY <3>0, <4>1 DEF HandlesOK, HeldOnce
      <4>3. B = {} /\ N = {}
          BY <3>0, <3>3 DEF HandlesOK, HeldOnce
      <4>4. Cardinality(C) = 1
          BY <4>2, FS_Singleton
      <4>5. Cardinality(B) = 0 /\ Cardinality(N) = 0
          BY <4>3, FS_EmptySet
      <4> QED
          BY <4>4, <4>5
    <3> QED
        BY <3>1, <3>2, <3>3 DEF HandlesOK, NoneLost
  <2>3. curDirRef # Null /\ ~Gone =>
          /\ counts[curDirRef].handle = curDir.handle
          /\ opens[curDir.handle] = curDir.path
      BY DEF CurDirOK
  <2> QED
      BY <2>1, <2>2, <2>3 DEF DirectoryHandlesExact, Gone
<1> QED
    BY <1>1, CDInvariance, PTL

-----------------------------------------------------------------------------
(* Handles and wait objects.  ReferenceCount is exact, but HandleCount is  *)
(* only bounded by the releases to come, since DuplicateHandle does not    *)
(* raise it: that is enough for the last release to find the object        *)
(* outside the registry.                                                   *)

WOLabels == HoldsRef \cup {"idle", "c_alloc", "d_close"}

WOTypes ==
  /\ pc \in [Thread -> WOLabels]
  /\ cur \in [Thread -> Obj \cup {None}]
  /\ want \in [Thread -> Name \cup {None}]
  /\ source \in [Thread -> Handle \cup {None}]
  /\ hobj \in [Handle -> Obj \cup {None}]
  /\ alive \subseteq Obj
  /\ refs \in [Obj -> Int] /\ hcount \in [Obj -> Int]
  /\ name \in [Obj -> Name \cup {None}]
  /\ owner \in [Obj -> Thread \cup {None}]

(* Calls that will release the HandleCount of o, or give it to a handle.   *)
Releasing == {"handle", "r_dec", "c_insert"}
Closers(o) == {t \in Thread : pc[t] \in Releasing /\ cur[t] = o}

CurrentOK == \A t \in Thread : pc[t] \in HoldsRef => cur[t] \in Obj

(* ReferenceCount of o.                                                    *)
RefAt(o) ==
  /\ o \in alive => /\ refs[o] = Cardinality(Holders(o)) + Cardinality(Users(o))
                    /\ refs[o] > 0
  /\ o \notin alive => Holders(o) = {} /\ Users(o) = {}

(* HandleCount of o; when it is listed, a release to come takes it off.    *)
CountAt(o) ==
  /\ o \in alive => hcount[o] <= Cardinality(Holders(o)) + Cardinality(Closers(o))
  /\ o \in registry =>
       hcount[o] >= 1 \/ \E t \in Thread : pc[t] = "r_unname" /\ cur[t] = o

(* Nobody has seen the object of a create that is not in the registry yet. *)
UnseenAt(t) ==
  /\ want[t] \in Name /\ name[cur[t]] = want[t]
  /\ cur[t] \notin registry /\ hcount[cur[t]] = 1
  /\ Holders(cur[t]) = {} /\ Users(cur[t]) = {t}

RegistryOK ==
  /\ registry \subseteq alive
  /\ \A o \in registry : name[o] # None
  /\ \A o, p \in registry : name[o] = name[p] => o = p

WOInv ==
  /\ WOTypes /\ CurrentOK /\ RegistryOK
  /\ \A o \in Obj : RefAt(o) /\ CountAt(o)
  /\ \A t \in Thread : pc[t] = "c_insert" => UnseenAt(t)

LEMMA ObjectSetsFinite ==
  ASSUME NEW o
  PROVE  /\ IsFiniteSet(Holders(o)) /\ Cardinality(Holders(o)) \in Nat
         /\ IsFiniteSet(Users(o)) /\ Cardinality(Users(o)) \in Nat
         /\ IsFiniteSet(Closers(o)) /\ Cardinality(Closers(o)) \in Nat
<1>1. IsFiniteSet(Holders(o)) /\ IsFiniteSet(Users(o)) /\ IsFiniteSet(Closers(o))
    BY WOAssumption, FS_Subset DEF Holders, Users, Closers
<1> QED
    BY <1>1, FS_CardinalityType

(* Who uses an object after thread t has gone to label l with object c.    *)
LEMMA ThreadMoved ==
  ASSUME WOTypes, NEW t \in Thread, NEW l, NEW c,
         pc' = [pc EXCEPT ![t] = l], cur' = [cur EXCEPT ![t] = c]
  PROVE  \A o : /\ Users(o)' = IF l \in HoldsRef /\ c = o THEN Users(o) \cup {t}
                               ELSE Users(o) \ {t}
                /\ Closers(o)' = IF l \in Releasing /\ c = o THEN Closers(o) \cup {t}
                                 ELSE Closers(o) \ {t}
<1>1. \A u \in Thread : /\ pc'[u] = IF u = t THEN l ELSE pc[u]
                        /\ cur'[u] = IF u = t THEN c ELSE cur[u]
    BY DEF WOTypes
<1> QED
    BY <1>1 DEF Users, Closers

LEMMA HandleMoved ==
  ASSUME WOTypes, NEW h \in Handle, NEW c, hobj' = [hobj EXCEPT ![h] = c]
  PROVE  \A o : Holders(o)' = IF c = o THEN Holders(o) \cup {h} ELSE Holders(o) \ {h}
<1>1. \A g \in Handle : hobj'[g] = IF g = h THEN c ELSE hobj[g]
    BY DEF WOTypes
<1> QED
    BY <1>1 DEF Holders

(* Thread t changes nothing but itself and the objects of T.               *)
Touches(t, T) ==
  /\ \A u \in Thread : u # t => pc'[u] = pc[u] /\ cur'[u] = cur[u] /\ want'[u] = want[u]
  /\ \A p \in Obj \ T :
       /\ refs'[p] = refs[p] /\ hcount'[p] = hcount[p] /\ name'[p] = name[p]
       /\ p \in alive' <=> p \in alive
       /\ p \in registry' <=> p \in registry
       /\ Holders(p)' = Holders(p) /\ Users(p)' = Users(p) /\ Closers(p)' = Closers(p)

(* An object others may have seen: it is not that of another create.       *)
MayTouch(t, o) ==
  o \in registry \/ o \notin alive \/ Holders(o) # {} \/ t \in Users(o)

(* What a step does to the objects it touches is all there is to check.    *)
LEMMA TouchInv ==
  ASSUME WOInv, NEW t \in Thread, NEW T \in SUBSET Obj, Touches(t, T),
         WOTypes', CurrentOK', RegistryOK',
         \A o \in T : MayTouch(t, o) /\ RefAt(o)' /\ CountAt(o)',
         pc[t] = "r_unname" => cur[t] \in T,
         pc'[t] = "c_insert" => UnseenAt(t)'
  PROVE  WOInv'
<1> USE DEF WOInv
<1>1. ASSUME NEW p \in Obj, p \notin T PROVE RefAt(p)' /\ CountAt(p)'
  <2>1. RefAt(p)'
      BY <1>1 DEF Touches, RefAt
  <2>2. ASSUME p \in registry'
        PROVE  hcount'[p] >= 1 \/ \E u \in Thread : pc'[u] = "r_unname" /\ cur'[u] = p
    <3>1. CASE hcount[p] >= 1
        BY <1>1, <2>2, <3>1 DEF Touches
    <3>2. CASE \E u \in Thread : pc[u] = "r_unname" /\ cur[u] = p
      <4>1. PICK u \in Thread : pc[u] = "r_unname" /\ cur[u] = p
          BY <3>2
      <4>2. u # t
          BY <1>1, <4>1
      <4> QED
          BY <4>1, <4>2 DEF Touches
    <3> QED
        BY <1>1, <2>2, <3>1, <3>2 DEF CountAt, Touches
  <2>3. CountAt(p)'
      BY <1>1, <2>2 DEF Touches, CountAt
  <2> QED
      BY <2>1, <2>3
<1>2. ASSUME NEW u \in Thread, u # t, pc'[u] = "c_insert" PROVE UnseenAt(u)'
  <2>1. /\ pc[u] = "c_insert" /\ cur'[u] = cur[u] /\ want'[u] = want[u] /\ UnseenAt(u)
        /\ cur[u] \in Obj
      BY <1>2 DEF Touches, CurrentOK, HoldsRef
  <2>2. u \in Users(cur[u])
      BY <2>1 DEF Users, HoldsRef
  <2>3. cur[u] \in alive
      BY <2>1, <2>2 DEF RefAt
  <2>4. cur[u] \notin T
      BY <1>2, <2>1, <2>3 DEF MayTouch, UnseenAt
  <2>5. /\ name'[cur[u]] = name[cur[u]] /\ hcount'[cur[u]] = hcount[cur[u]]
        /\ cur[u] \in registry' <=> cur[u] \in registry
        /\ Holders(cur[u])' = Holders(cur'[u]) /\ Users(cur[u])' = Users(cur'[u])
      BY <2>1, <2>4 DEF Touches, Holders, Users
  <2> QED
      BY <2>1, <2>5 DEF UnseenAt
<1>3. \A u \in Thread : pc'[u] = "c_insert" => UnseenAt(u)'
    BY <1>2
<1> QED
    BY <1>1, <1>3

LEMMA WOInitInv == Init => WOInv
<1> SUFFICES ASSUME Init PROVE WOInv
    OBVIOUS
<1>1. WOTypes
  <2>1. pc \in [Thread -> WOLabels]
      BY DEF Init, WOLabels
  <2>2. /\ cur \in [Thread -> Obj \cup {None}] /\ want \in [Thread -> Name \cup {None}]
        /\ source \in [Thread -> Handle \cup {None}] /\ hobj \in [Handle -> Obj \cup {None}]
      BY DEF Init
  <2>3. /\ alive \subseteq Obj /\ refs \in [Obj -> Int] /\ hcount \in [Obj -> Int]
        /\ name \in [Obj -> Name \cup {None}] /\ owner \in [Obj -> Thread \cup {None}]
      BY DEF Init
  <2> QED
      BY <2>1, <2>2, <2>3 DEF WOTypes
<1>2. \A t \in Thread : pc[t] = "idle"
    BY DEF Init
<1>3. alive = {} /\ registry = {}
    BY DEF Init
<1>4. \A o \in Obj : Holders(o) = {} /\ Users(o) = {}
    BY <1>2, WOAssumption DEF Init, Holders, Users, HoldsRef
<1>5. \A o \in Obj : RefAt(o) /\ CountAt(o)
    BY <1>3, <1>4 DEF RefAt, CountAt
<1>6. CurrentOK /\ RegistryOK
    BY <1>2, <1>3 DEF CurrentOK, RegistryOK, HoldsRef
<1> QED
    BY <1>1, <1>2, <1>5, <1>6 DEF WOInv

(* A step in which thread t goes from label to label and keeps its object, *)
(* or has none before and after; no object changes.                        *)
LEMMA WOMoveInv ==
  ASSUME WOInv, NEW t \in Thread, NEW l \in WOLabels, NEW c \in {cur[t], None},
         pc' = [pc EXCEPT ![t] = l], cur' = [cur EXCEPT ![t] = c],
         pc[t] \in HoldsRef <=> l \in HoldsRef, l \in HoldsRef => c = cur[t],
         pc[t] \in Releasing <=> l \in Releasing,
         pc[t] # "r_unname", l # "c_insert",
         want' \in [Thread -> Name \cup {None}], \A u \in Thread : u # t => want'[u] = want[u],
         source' \in [Thread -> Handle \cup {None}],
         owner' \in [Obj -> Thread \cup {None}],
         UNCHANGED <<hobj, alive, refs, hcount, name, registry>>
  PROVE  WOInv'
<1> USE DEF WOInv
<1>1. \A o \in Obj : /\ Users(o)' = Users(o) /\ Closers(o)' = Closers(o)
                     /\ Holders(o)' = Holders(o)
  <2>1. \A u \in Thread : /\ pc'[u] = IF u = t THEN l ELSE pc[u]
                          /\ cur'[u] = IF u = t THEN c ELSE cur[u]
      BY DEF WOTypes
  <2>2. l \in Releasing => l \in HoldsRef
      BY DEF Releasing, HoldsRef
  <2> QED
      BY <2>1, <2>2 DEF Users, Closers, Holders
<1>2. Touches(t, {})
    BY <1>1 DEF Touches, WOTypes
<1>3. WOTypes' /\ CurrentOK' /\ RegistryOK'
  <2>1. WOTypes'
      BY DEF WOTypes
  <2>2. CurrentOK'
      BY DEF CurrentOK, WOTypes
  <2>3. RegistryOK'
      BY DEF RegistryOK
  <2> QED
      BY <2>1, <2>2, <2>3
<1>4. pc'[t] # "c_insert"
    BY DEF WOTypes
<1>5. {} \in SUBSET Obj /\ \A o \in {} : MayTouch(t, o) /\ RefAt(o)' /\ CountAt(o)'
    OBVIOUS
<1> QED
    BY <1>2, <1>3, <1>4, <1>5, TouchInv

LEMMA WOMovesInv ==
  ASSUME WOInv, NEW t \in Thread,
         \/ \E n \in Name \cup {None} : CreateNew(t, n)
         \/ CreateAllocFails(t) \/ HandleFails(t)
         \/ Acquire(t) \/ TimesOut(t) \/ ReleaseMutant(t)
  PROVE  WOInv'
<1> USE DEF WOInv, WOLabels, HoldsRef, Releasing
<1>0. /\ want \in [Thread -> Name \cup {None}] /\ source \in [Thread -> Handle \cup {None}]
      /\ owner \in [Obj -> Thread \cup {None}] /\ cur = [cur EXCEPT ![t] = cur[t]]
    BY DEF WOTypes
<1>1. ASSUME NEW n \in Name \cup {None}, CreateNew(t, n) PROVE WOInv'
  <2>1. want' \in [Thread -> Name \cup {None}] /\ \A u \in Thread : u # t => want'[u] = want[u]
      BY <1>1 DEF CreateNew, WOTypes
  <2> QED
      BY <1>0, <1>1, <2>1, WOMoveInv DEF CreateNew, Ready, Goto, objVars
<1>2. ASSUME CreateAllocFails(t) PROVE WOInv'
  <2>1. /\ want' \in [Thread -> Name \cup {None}]
        /\ \A u \in Thread : u # t => want'[u] = want[u]
        /\ source' \in [Thread -> Handle \cup {None}]
      BY <1>2 DEF CreateAllocFails, Return, WOTypes
  <2> QED
      BY <1>0, <1>2, <2>1, WOMoveInv DEF CreateAllocFails, Return, Goto, objVars
<1>3. ASSUME HandleFails(t) PROVE WOInv'
  <2>1. source' \in [Thread -> Handle \cup {None}]
      BY <1>3 DEF HandleFails, WOTypes
  <2> QED
      BY <1>0, <1>3, <2>1, WOMoveInv DEF HandleFails, Goto, objVars
<1>4. ASSUME Acquire(t) \/ TimesOut(t) \/ ReleaseMutant(t) PROVE WOInv'
  <2>1. owner' \in [Obj -> Thread \cup {None}]
      BY <1>4 DEF Acquire, TimesOut, ReleaseMutant, WOTypes, objVars
  <2>2. pc[t] \in {"u_wait", "u_release"} /\ pc' = [pc EXCEPT ![t] = "r_deref"]
      BY <1>4 DEF Acquire, TimesOut, ReleaseMutant, Goto
  <2>3. UNCHANGED <<callVars, hobj, alive, refs, hcount, name, registry>>
      BY <1>4 DEF Acquire, TimesOut, ReleaseMutant, objVars
  <2> QED
      BY <1>0, <2>1, <2>2, <2>3, WOMoveInv DEF callVars
<1> QED
    BY <1>1, <1>2, <1>3, <1>4

(* A call references an object that has a handle or a name.                *)
LEMMA GainInv ==
  ASSUME WOInv, NEW t \in Thread, NEW o \in Obj, o \in registry \/ Holders(o) # {},
         pc[t] = "idle", NEW l \in {"handle", "u_wait", "u_release"},
         pc' = [pc EXCEPT ![t] = l], cur' = [cur EXCEPT ![t] = o],
         refs' = [refs EXCEPT ![o] = @ + 1],
         \/ hcount' = hcount
         \/ l = "handle" /\ hcount' = [hcount EXCEPT ![o] = @ + 1],
         source' \in [Thread -> Handle \cup {None}],
         UNCHANGED <<want, hobj, alive, name, registry, owner>>
  PROVE  WOInv'
<1> USE DEF WOInv
<1>1. /\ \A p : Users(p)' = IF o = p THEN Users(p) \cup {t} ELSE Users(p) \ {t}
      /\ \A p : Closers(p)' = IF l = "handle" /\ o = p THEN Closers(p) \cup {t}
                              ELSE Closers(p) \ {t}
      /\ \A p : Holders(p)' = Holders(p)
  <2>1. \A p : /\ Users(p)' = IF l \in HoldsRef /\ o = p THEN Users(p) \cup {t}
                              ELSE Users(p) \ {t}
               /\ Closers(p)' = IF l \in Releasing /\ o = p THEN Closers(p) \cup {t}
                                ELSE Closers(p) \ {t}
      BY ThreadMoved
  <2>2. l \in HoldsRef /\ (l \in Releasing <=> l = "handle")
      BY DEF HoldsRef, Releasing
  <2> QED
      BY <2>1, <2>2 DEF Holders
<1>2. \A p : t \notin Users(p) /\ t \notin Closers(p)
    BY DEF Users, Closers, HoldsRef, Releasing
<1>3. o \in alive
    BY DEF RegistryOK, RefAt
<1>4. /\ IsFiniteSet(Users(o)) /\ IsFiniteSet(Closers(o)) /\ Cardinality(Users(o)) \in Nat
      /\ Cardinality(Holders(o)) \in Nat /\ Cardinality(Closers(o)) \in Nat
    BY ObjectSetsFinite
<1>5. refs'[o] = refs[o] + 1 /\ refs[o] \in Int /\ hcount[o] \in Int
      /\ hcount'[o] \in {hcount[o], hcount[o] + 1}
    BY DEF WOTypes
<1>6. RefAt(o)'
  <2>1. Cardinality(Users(o)') = Cardinality(Users(o)) + 1
      BY <1>1, <1>2, <1>4, OneMore
  <2>2. refs[o] = Cardinality(Holders(o)) + Cardinality(Users(o)) /\ refs[o] > 0
      BY <1>3 DEF RefAt
  <2> QED
      BY <1>1, <1>3, <1>4, <1>5, <2>1, <2>2 DEF RefAt
<1>7. CountAt(o)'
  <2>1. hcount[o] <= Cardinality(Holders(o)) + Cardinality(Closers(o))
      BY <1>3 DEF CountAt
  <2>2. l = "handle" => Cardinality(Closers(o)') = Cardinality(Closers(o)) + 1
      BY <1>1, <1>2, <1>4, OneMore
  <2>3. l # "handle" => Closers(o)' = Closers(o) /\ hcount'[o] = hcount[o]
      BY <1>1, <1>2
  <2>4. hcount'[o] <= Cardinality(Holders(o)') + Cardinality(Closers(o)')
      BY <1>1, <1>4, <1>5, <2>1, <2>2, <2>3
  <2>5. o \in registry' =>
          hcount'[o] >= 1 \/ \E u \in Thread : pc'[u] = "r_unname" /\ cur'[u] = o
    <3> SUFFICES ASSUME o \in registry, ~(hcount[o] >= 1)
                 PROVE  \E u \in Thread : pc'[u] = "r_unname" /\ cur'[u] = o
        BY <1>5
    <3>1. PICK u \in Thread : pc[u] = "r_unname" /\ cur[u] = o
        BY DEF CountAt
    <3> QED
        BY <3>1 DEF WOTypes
  <2> QED
      BY <2>4, <2>5 DEF CountAt
<1>8. Touches(t, {o})
  <2>1. \A u \in Thread : u # t => pc'[u] = pc[u] /\ cur'[u] = cur[u] /\ want'[u] = want[u]
      BY DEF WOTypes
  <2>2. \A p \in Obj \ {o} : refs'[p] = refs[p] /\ hcount'[p] = hcount[p]
      BY DEF WOTypes
  <2>3. \A p \in Obj \ {o} : /\ Holders(p)' = Holders(p) /\ Users(p)' = Users(p)
                              /\ Closers(p)' = Closers(p)
      BY <1>1, <1>2
  <2> QED
      BY <2>1, <2>2, <2>3 DEF Touches
<1>9. WOTypes'
  <2>1. pc' \in [Thread -> WOLabels] /\ cur' \in [Thread -> Obj \cup {None}]
      BY DEF WOTypes, WOLabels, HoldsRef
  <2>2. refs' \in [Obj -> Int]
      BY <1>5 DEF WOTypes
  <2>3. hcount' \in [Obj -> Int]
      BY <1>5 DEF WOTypes
  <2> QED
      BY <2>1, <2>2, <2>3 DEF WOTypes
<1>10. CurrentOK' /\ RegistryOK'
    BY DEF CurrentOK, RegistryOK, WOTypes
<1>11. MayTouch(t, o) /\ pc'[t] # "c_insert"
    BY DEF MayTouch, WOTypes
<1> QED
    BY <1>6, <1>7, <1>8, <1>9, <1>10, <1>11, TouchInv

(* A handle is given the object of the call.                               *)
LEMMA HandleMadeInv ==
  ASSUME WOInv, NEW t \in Thread, NEW h \in Handle, HandleMade(t, h) PROVE WOInv'
<1> USE DEF WOInv
<1>0. PICK o : o = cur[t]
    OBVIOUS
<1>1. /\ pc[t] = "handle" /\ h \notin Open /\ hobj' = [hobj EXCEPT ![h] = o]
      /\ UNCHANGED <<alive, refs, hcount, name, registry, owner>>
    BY <1>0 DEF HandleMade, objVars
<1>2. PICK l \in {"idle", "d_close"}, c \in {o, None} :
        pc' = [pc EXCEPT ![t] = l] /\ cur' = [cur EXCEPT ![t] = c]
  <2>1. cur = [cur EXCEPT ![t] = o]
      BY <1>0 DEF WOTypes
  <2>2. source[t] = None \/ source[t] # None
      OBVIOUS
  <2> QED
      BY <2>1, <2>2 DEF HandleMade, Return, Goto, callVars
<1>3. o \in Obj /\ t \in Users(o) /\ t \in Closers(o)
    BY <1>0, <1>1 DEF CurrentOK, HoldsRef, Users, Closers, Releasing
<1>4. \A p : Users(p)' = Users(p) \ {t} /\ Closers(p)' = Closers(p) \ {t}
  <2>1. l \notin HoldsRef /\ l \notin Releasing
      BY DEF HoldsRef, Releasing
  <2> QED
      BY <1>2, <2>1, ThreadMoved
<1>5. \A p \in Obj : Holders(p)' = IF o = p THEN Holders(p) \cup {h} ELSE Holders(p)
  <2>1. \A p \in Obj : h \notin Holders(p)
      BY <1>1, WOAssumption DEF Open, Holders
  <2>2. \A p : Holders(p)' = IF o = p THEN Holders(p) \cup {h} ELSE Holders(p) \ {h}
      BY <1>1, HandleMoved
  <2> QED
      BY <2>1, <2>2
<1>6. h \notin Holders(o)
    BY <1>1, <1>3, WOAssumption DEF Open, Holders
<1>7. /\ Cardinality(Holders(o)') = Cardinality(Holders(o)) + 1
      /\ Cardinality(Users(o)') = Cardinality(Users(o)) - 1
      /\ Cardinality(Closers(o)') = Cardinality(Closers(o)) - 1
  <2>1. IsFiniteSet(Holders(o)) /\ IsFiniteSet(Users(o)) /\ IsFiniteSet(Closers(o))
      BY ObjectSetsFinite
  <2>2. Cardinality(Holders(o)') = Cardinality(Holders(o)) + 1
      BY <1>3, <1>5, <1>6, <2>1, OneMore
  <2>3. Cardinality(Users(o) \ {t}) = Cardinality(Users(o)) - 1
      BY <1>3, <2>1, OneLess
  <2>4. Cardinality(Closers(o) \ {t}) = Cardinality(Closers(o)) - 1
      BY <1>3, <2>1, OneLess
  <2> QED
      BY <1>4, <2>2, <2>3, <2>4
<1>8. /\ Cardinality(Holders(o)) \in Nat /\ Cardinality(Users(o)) \in Nat
      /\ Cardinality(Closers(o)) \in Nat
    BY ObjectSetsFinite
<1>9. o \in alive
    BY <1>3 DEF RefAt
<1>10. RefAt(o)'
    BY <1>1, <1>3, <1>7, <1>8, <1>9 DEF RefAt
<1>11. CountAt(o)'
  <2>1. hcount'[o] <= Cardinality(Holders(o)') + Cardinality(Closers(o)')
      BY <1>1, <1>3, <1>7, <1>8, <1>9 DEF CountAt, WOTypes
  <2>2. o \in registry' =>
          hcount'[o] >= 1 \/ \E u \in Thread : pc'[u] = "r_unname" /\ cur'[u] = o
    <3> SUFFICES ASSUME o \in registry, ~(hcount[o] >= 1)
                 PROVE  \E u \in Thread : pc'[u] = "r_unname" /\ cur'[u] = o
        BY <1>1
    <3>1. PICK u \in Thread : pc[u] = "r_unname" /\ cur[u] = o
        BY <1>3 DEF CountAt
    <3> QED
        BY <1>1, <1>2, <3>1 DEF WOTypes
  <2> QED
      BY <2>1, <2>2 DEF CountAt
<1>12. WOTypes'
  <2>1. want' \in [Thread -> Name \cup {None}] /\ source' \in [Thread -> Handle \cup {None}]
      BY DEF HandleMade, Return, callVars, WOTypes
  <2> QED
      BY <1>1, <1>2, <1>3, <2>1 DEF WOTypes, WOLabels
<1>13. Touches(t, {o})
  <2>1. \A p \in Obj \ {o} : t \notin Users(p) /\ t \notin Closers(p)
      BY <1>0 DEF Users, Closers
  <2>2. \A u \in Thread : u # t => want'[u] = want[u]
      BY DEF HandleMade, Return, callVars, WOTypes
  <2> QED
      BY <1>1, <1>2, <1>4, <1>5, <2>1, <2>2 DEF Touches, WOTypes
<1>14. CurrentOK' /\ RegistryOK'
    BY <1>1, <1>2 DEF CurrentOK, RegistryOK, WOTypes, HoldsRef
<1>15. MayTouch(t, o) /\ pc'[t] # "c_insert" /\ pc[t] # "r_unname"
    BY <1>1, <1>2, <1>3 DEF MayTouch, WOTypes
<1>16. {o} \in SUBSET Obj
    BY <1>3
<1> QED
    BY <1>10, <1>11, <1>12, <1>13, <1>14, <1>15, <1>16, TouchInv

(* A handle is taken off the list, and the call has its reference.         *)
LEMMA TakeInv ==
  ASSUME WOInv, NEW t \in Thread, NEW h \in Open, Take(t, h),
         pc[t] \in {"idle", "d_close"},
         want' = want, source' \in [Thread -> Handle \cup {None}],
         UNCHANGED objVars
  PROVE  WOInv'
<1> USE DEF WOInv
<1>0. PICK o : o = hobj[h]
    OBVIOUS
<1>1. /\ hobj' = [hobj EXCEPT ![h] = None] /\ cur' = [cur EXCEPT ![t] = o]
      /\ pc' = [pc EXCEPT ![t] = "r_dec"]
      /\ UNCHANGED <<alive, refs, hcount, name, registry, owner>>
    BY <1>0 DEF Take, Goto, objVars
<1>2. h \in Handle /\ o \in Obj /\ h \in Holders(o)
    BY <1>0 DEF Open, Holders, WOTypes
<1>3. \A p : /\ Users(p)' = IF o = p THEN Users(p) \cup {t} ELSE Users(p) \ {t}
             /\ Closers(p)' = IF o = p THEN Closers(p) \cup {t} ELSE Closers(p) \ {t}
  <2>1. "r_dec" \in HoldsRef /\ "r_dec" \in Releasing
      BY DEF HoldsRef, Releasing
  <2> QED
      BY <1>1, <2>1, ThreadMoved
<1>4. \A p : t \notin Users(p) /\ t \notin Closers(p)
    BY DEF Users, Closers, HoldsRef, Releasing
<1>5. \A p \in Obj : Holders(p)' = IF o = p THEN Holders(p) \ {h} ELSE Holders(p)
  <2>1. \A p \in Obj : Holders(p)' = Holders(p) \ {h}
    <3>1. \A p : Holders(p)' = IF None = p THEN Holders(p) \cup {h} ELSE Holders(p) \ {h}
        BY <1>1, <1>2, HandleMoved
    <3> QED
        BY <3>1, WOAssumption
  <2>2. \A p \in Obj : p # o => h \notin Holders(p)
      BY <1>0 DEF Holders
  <2> QED
      BY <2>1, <2>2
<1>6. /\ Cardinality(Holders(o)') = Cardinality(Holders(o)) - 1
      /\ Cardinality(Users(o)') = Cardinality(Users(o)) + 1
      /\ Cardinality(Closers(o)') = Cardinality(Closers(o)) + 1
  <2>1. IsFiniteSet(Holders(o)) /\ IsFiniteSet(Users(o)) /\ IsFiniteSet(Closers(o))
      BY ObjectSetsFinite
  <2>2. Cardinality(Holders(o) \ {h}) = Cardinality(Holders(o)) - 1
      BY <1>2, <2>1, OneLess
  <2>3. Cardinality(Users(o)') = Cardinality(Users(o)) + 1
      BY <1>3, <1>4, <2>1, OneMore
  <2>4. Cardinality(Closers(o)') = Cardinality(Closers(o)) + 1
      BY <1>3, <1>4, <2>1, OneMore
  <2> QED
      BY <1>2, <1>5, <2>2, <2>3, <2>4
<1>7. /\ Cardinality(Holders(o)) \in Nat /\ Cardinality(Users(o)) \in Nat
      /\ Cardinality(Closers(o)) \in Nat
    BY ObjectSetsFinite
<1>8. o \in alive
    BY <1>2 DEF RefAt
<1>9. RefAt(o)'
    BY <1>1, <1>2, <1>6, <1>7, <1>8 DEF RefAt
<1>10. CountAt(o)'
  <2>1. hcount'[o] <= Cardinality(Holders(o)') + Cardinality(Closers(o)')
      BY <1>1, <1>2, <1>6, <1>7, <1>8 DEF CountAt, WOTypes
  <2>2. o \in registry' =>
          hcount'[o] >= 1 \/ \E u \in Thread : pc'[u] = "r_unname" /\ cur'[u] = o
    <3> SUFFICES ASSUME o \in registry, ~(hcount[o] >= 1)
                 PROVE  \E u \in Thread : pc'[u] = "r_unname" /\ cur'[u] = o
        BY <1>1
    <3>1. PICK u \in Thread : pc[u] = "r_unname" /\ cur[u] = o
        BY <1>2 DEF CountAt
    <3> QED
        BY <1>1, <3>1 DEF WOTypes
  <2> QED
      BY <2>1, <2>2 DEF CountAt
<1>11. WOTypes'
  <2>1. "r_dec" \in WOLabels
      BY DEF WOLabels, HoldsRef
  <2>2. pc' \in [Thread -> WOLabels] /\ cur' \in [Thread -> Obj \cup {None}]
      BY <1>1, <1>2, <2>1 DEF WOTypes
  <2>3. hobj' \in [Handle -> Obj \cup {None}]
      BY <1>1, <1>2 DEF WOTypes
  <2> QED
      BY <1>1, <2>2, <2>3 DEF WOTypes
<1>12. Touches(t, {o})
  <2>1. \A u \in Thread : u # t => pc'[u] = pc[u] /\ cur'[u] = cur[u] /\ want'[u] = want[u]
      BY <1>1 DEF WOTypes
  <2> QED
      BY <1>1, <1>3, <1>4, <1>5, <2>1 DEF Touches
<1>13. CurrentOK' /\ RegistryOK'
    BY <1>1, <1>2 DEF CurrentOK, RegistryOK, WOTypes
<1>14. MayTouch(t, o) /\ pc'[t] # "c_insert" /\ pc[t] # "r_unname" /\ {o} \in SUBSET Obj
    BY <1>1, <1>2 DEF MayTouch, WOTypes
<1> QED
    BY <1>9, <1>10, <1>11, <1>12, <1>13, <1>14, TouchInv

LEMMA CreateAllocInv ==
  ASSUME WOInv, NEW t \in Thread, NEW o \in Obj, NEW io \in BOOLEAN, CreateAlloc(t, o, io)
  PROVE  WOInv'
<1> USE DEF WOInv
<1>1. /\ pc[t] = "c_alloc" /\ o \notin alive /\ alive' = alive \cup {o}
      /\ refs' = [refs EXCEPT ![o] = 1] /\ hcount' = [hcount EXCEPT ![o] = 1]
      /\ name' = [name EXCEPT ![o] = want[t]] /\ cur' = [cur EXCEPT ![t] = o]
      /\ UNCHANGED <<want, source, hobj, registry>>
    BY DEF CreateAlloc
<1>2. PICK l \in {"handle", "c_insert"} :
        pc' = [pc EXCEPT ![t] = l] /\ (l = "c_insert" => want[t] # None)
    BY DEF CreateAlloc, Goto
<1>3. owner' \in [Obj -> Thread \cup {None}]
    BY DEF CreateAlloc, WOTypes
<1>4. /\ \A p : Users(p)' = IF o = p THEN Users(p) \cup {t} ELSE Users(p) \ {t}
      /\ \A p : Closers(p)' = IF o = p THEN Closers(p) \cup {t} ELSE Closers(p) \ {t}
      /\ \A p : Holders(p)' = Holders(p)
  <2>1. l \in HoldsRef /\ l \in Releasing
      BY DEF HoldsRef, Releasing
  <2>2. \A p : /\ Users(p)' = IF o = p THEN Users(p) \cup {t} ELSE Users(p) \ {t}
               /\ Closers(p)' = IF o = p THEN Closers(p) \cup {t} ELSE Closers(p) \ {t}
      BY <1>1, <1>2, <2>1, ThreadMoved
  <2> QED
      BY <1>1, <2>2 DEF Holders
<1>5. \A p : t \notin Users(p) /\ t \notin Closers(p)
    BY <1>1 DEF Users, Closers, HoldsRef, Releasing
<1>6. Holders(o) = {} /\ Users(o) = {} /\ Closers(o) = {}
  <2>1. Closers(o) \subseteq Users(o)
      BY DEF Closers, Users, Releasing, HoldsRef
  <2> QED
      BY <1>1, <2>1 DEF RefAt
<1>7. Holders(o)' = {} /\ Users(o)' = {t} /\ Closers(o)' = {t}
    BY <1>4, <1>6
<1>8. Cardinality(Holders(o)') = 0
    BY <1>7, FS_EmptySet
<1>9. Cardinality(Users(o)') = 1 /\ Cardinality(Closers(o)') = 1
    BY <1>7, FS_Singleton
<1>10. /\ refs'[o] = 1 /\ hcount'[o] = 1 /\ name'[o] = want[t] /\ cur'[t] = o
       /\ o \notin registry
    BY <1>1 DEF WOTypes, RegistryOK
<1>11. RefAt(o)' /\ CountAt(o)'
    BY <1>1, <1>8, <1>9, <1>10 DEF RefAt, CountAt
<1>12. UnseenAt(t)' \/ pc'[t] # "c_insert"
  <2>1. Holders(cur[t])' = {} /\ Users(cur[t])' = {t}
      BY <1>7, <1>10 DEF Holders, Users
  <2> QED
      BY <1>1, <1>2, <1>10, <2>1 DEF UnseenAt, WOTypes
<1>13. Touches(t, {o})
  <2>1. \A u \in Thread : u # t => pc'[u] = pc[u] /\ cur'[u] = cur[u] /\ want'[u] = want[u]
      BY <1>1, <1>2 DEF WOTypes
  <2>2. \A p \in Obj \ {o} : /\ refs'[p] = refs[p] /\ hcount'[p] = hcount[p]
                             /\ name'[p] = name[p] /\ (p \in alive' <=> p \in alive)
      BY <1>1 DEF WOTypes
  <2> QED
      BY <1>1, <1>4, <1>5, <2>1, <2>2 DEF Touches
<1>14. WOTypes'
  <2>1. pc' \in [Thread -> WOLabels] /\ cur' \in [Thread -> Obj \cup {None}]
      BY <1>1, <1>2 DEF WOTypes, WOLabels, HoldsRef
  <2>2. refs' \in [Obj -> Int] /\ hcount' \in [Obj -> Int]
      BY <1>1 DEF WOTypes
  <2>3. name' \in [Obj -> Name \cup {None}]
      BY <1>1 DEF WOTypes
  <2> QED
      BY <1>1, <1>3, <2>1, <2>2, <2>3 DEF WOTypes
<1>15. CurrentOK'
    BY <1>1, <1>2 DEF CurrentOK, WOTypes
<1>16. RegistryOK'
  <2>1. \A p \in registry : name'[p] = name[p]
      BY <1>1, <1>10 DEF WOTypes, RegistryOK
  <2> QED
      BY <1>1, <2>1 DEF RegistryOK
<1>17. MayTouch(t, o) /\ pc[t] # "r_unname"
    BY <1>1 DEF MayTouch
<1> QED
    BY <1>11, <1>12, <1>13, <1>14, <1>15, <1>16, <1>17, TouchInv

LEMMA CreateInsertInv ==
  ASSUME WOInv, NEW t \in Thread, CreateInsert(t) PROVE WOInv'
<1> USE DEF WOInv
<1>0. PICK o : o = cur[t]
    OBVIOUS
<1>1. /\ pc[t] = "c_insert" /\ Find(want[t]) = {} /\ registry' = registry \cup {o}
      /\ pc' = [pc EXCEPT ![t] = "handle"]
      /\ UNCHANGED <<cur, want, source, hobj, alive, refs, hcount, name, owner>>
    BY <1>0 DEF CreateInsert, Goto, callVars
<1>2. /\ o \in Obj /\ want[t] \in Name /\ name[o] = want[t] /\ o \notin registry
      /\ hcount[o] = 1 /\ Users(o) = {t}
    BY <1>0, <1>1 DEF UnseenAt, CurrentOK, HoldsRef
<1>3. o \in alive
    BY <1>2 DEF RefAt
<1>4. \A p : Users(p)' = Users(p) /\ Closers(p)' = Closers(p) /\ Holders(p)' = Holders(p)
  <2>1. \A u \in Thread : pc'[u] = IF u = t THEN "handle" ELSE pc[u]
      BY <1>1 DEF WOTypes
  <2> QED
      BY <1>1, <2>1 DEF Users, Closers, Holders, HoldsRef, Releasing
<1>5. RefAt(o)' /\ CountAt(o)'
  <2>1. RefAt(o)'
      BY <1>1, <1>2, <1>4 DEF RefAt
  <2>2. CountAt(o)'
      BY <1>1, <1>2, <1>4 DEF CountAt
  <2> QED
      BY <2>1, <2>2
<1>6. Touches(t, {o})
    BY <1>1, <1>4 DEF Touches, WOTypes
<1>7. WOTypes' /\ CurrentOK'
    BY <1>1 DEF WOTypes, WOLabels, CurrentOK, HoldsRef
<1>8. RegistryOK'
  <2>1. \A p \in registry : name[p] # name[o]
      BY <1>1, <1>2 DEF Find
  <2>2. name[o] # None
      BY <1>2, WOAssumption
  <2> QED
      BY <1>1, <1>3, <2>1, <2>2 DEF RegistryOK
<1>9. MayTouch(t, o) /\ pc'[t] # "c_insert" /\ pc[t] # "r_unname" /\ {o} \in SUBSET Obj
    BY <1>1, <1>2 DEF MayTouch, WOTypes
<1> QED
    BY <1>5, <1>6, <1>7, <1>8, <1>9, TouchInv

(* The own object is freed unseen, the one in the registry is referenced.  *)
LEMMA CreateLostInv ==
  ASSUME WOInv, NEW t \in Thread, CreateLost(t) PROVE WOInv'
<1> USE DEF WOInv
<1>0. PICK q : q = cur[t]
    OBVIOUS
<1>1. PICK o \in Find(want[t]) :
        /\ hcount' = [hcount EXCEPT ![o] = @ + 1, ![q] = 0]
        /\ refs' = [refs EXCEPT ![o] = @ + 1, ![q] = 0]
        /\ cur' = [cur EXCEPT ![t] = o]
    BY <1>0 DEF CreateLost
<1>2. /\ pc[t] = "c_insert" /\ pc' = [pc EXCEPT ![t] = "handle"] /\ alive' = alive \ {q}
      /\ name' = [name EXCEPT ![q] = None] /\ owner' = [owner EXCEPT ![q] = None]
      /\ UNCHANGED <<want, source, hobj, registry>>
    BY <1>0 DEF CreateLost, Goto, Free
<1>3. q \in Obj /\ q \notin registry /\ Holders(q) = {} /\ Users(q) = {t}
    BY <1>0, <1>2 DEF UnseenAt, CurrentOK, HoldsRef
<1>4. o \in registry /\ o \in alive /\ o \in Obj /\ o # q
    BY <1>3 DEF Find, RegistryOK, WOTypes
<1>5. /\ \A p : Users(p)' = IF o = p THEN Users(p) \cup {t} ELSE Users(p) \ {t}
      /\ \A p : Closers(p)' = IF o = p THEN Closers(p) \cup {t} ELSE Closers(p) \ {t}
      /\ \A p : Holders(p)' = Holders(p)
  <2>1. "handle" \in HoldsRef /\ "handle" \in Releasing
      BY DEF HoldsRef, Releasing
  <2>2. \A p : /\ Users(p)' = IF o = p THEN Users(p) \cup {t} ELSE Users(p) \ {t}
               /\ Closers(p)' = IF o = p THEN Closers(p) \cup {t} ELSE Closers(p) \ {t}
      BY <1>1, <1>2, <2>1, ThreadMoved
  <2> QED
      BY <1>2, <2>2 DEF Holders
<1>6. \A p : p # q => t \notin Users(p) /\ t \notin Closers(p)
    BY <1>0 DEF Users, Closers
<1>7. /\ refs'[o] = refs[o] + 1 /\ hcount'[o] = hcount[o] + 1
      /\ refs[o] \in Int /\ hcount[o] \in Int
    BY <1>1, <1>3, <1>4 DEF WOTypes
<1>8. /\ Cardinality(Users(o)') = Cardinality(Users(o)) + 1
      /\ Cardinality(Closers(o)') = Cardinality(Closers(o)) + 1
  <2>1. IsFiniteSet(Users(o)) /\ IsFiniteSet(Closers(o))
      BY ObjectSetsFinite
  <2>2. Cardinality(Users(o)') = Cardinality(Users(o)) + 1
      BY <1>4, <1>5, <1>6, <2>1, OneMore
  <2>3. Cardinality(Closers(o)') = Cardinality(Closers(o)) + 1
      BY <1>4, <1>5, <1>6, <2>1, OneMore
  <2> QED
      BY <2>2, <2>3
<1>9. /\ Cardinality(Holders(o)) \in Nat /\ Cardinality(Users(o)) \in Nat
      /\ Cardinality(Closers(o)) \in Nat
    BY ObjectSetsFinite
<1>10. RefAt(o)'
    BY <1>2, <1>4, <1>5, <1>7, <1>8, <1>9 DEF RefAt
<1>11. CountAt(o)'
  <2>1. hcount'[o] <= Cardinality(Holders(o)') + Cardinality(Closers(o)')
      BY <1>4, <1>5, <1>7, <1>8, <1>9 DEF CountAt
  <2>2. hcount'[o] >= 1 \/ \E u \in Thread : pc'[u] = "r_unname" /\ cur'[u] = o
    <3>1. CASE hcount[o] >= 1
        BY <1>7, <3>1
    <3>2. CASE \E u \in Thread : pc[u] = "r_unname" /\ cur[u] = o
      <4>1. PICK u \in Thread : pc[u] = "r_unname" /\ cur[u] = o
          BY <3>2
      <4> QED
          BY <1>1, <1>2, <4>1 DEF WOTypes
    <3> QED
        BY <1>4, <3>1, <3>2 DEF CountAt
  <2> QED
      BY <2>1, <2>2 DEF CountAt
<1>12. RefAt(q)' /\ CountAt(q)'
  <2>1. Holders(q)' = {} /\ Users(q)' = {} /\ q \notin alive' /\ q \notin registry'
      BY <1>2, <1>3, <1>4, <1>5
  <2> QED
      BY <2>1 DEF RefAt, CountAt
<1>13. Touches(t, {o, q})
  <2>1. \A u \in Thread : u # t => pc'[u] = pc[u] /\ cur'[u] = cur[u] /\ want'[u] = want[u]
      BY <1>1, <1>2 DEF WOTypes
  <2>2. \A p \in Obj \ {o, q} : /\ refs'[p] = refs[p] /\ hcount'[p] = hcount[p]
                                /\ name'[p] = name[p] /\ (p \in alive' <=> p \in alive)
      BY <1>1, <1>2 DEF WOTypes
  <2> QED
      BY <1>2, <1>5, <1>6, <2>1, <2>2 DEF Touches
<1>14. WOTypes'
  <2>1. pc' \in [Thread -> WOLabels] /\ cur' \in [Thread -> Obj \cup {None}]
      BY <1>1, <1>2, <1>4 DEF WOTypes, WOLabels, HoldsRef
  <2>2. refs' \in [Obj -> Int]
    <3>1. refs \in [Obj -> Int] /\ refs[o] + 1 \in Int /\ 0 \in Int
        BY <1>7 DEF WOTypes
    <3>2. [refs EXCEPT ![o] = @ + 1] \in [Obj -> Int]
        BY <3>1
    <3> QED
        BY <1>1, <3>1, <3>2
  <2>3. hcount' \in [Obj -> Int]
    <3>1. hcount \in [Obj -> Int] /\ hcount[o] + 1 \in Int /\ 0 \in Int
        BY <1>7 DEF WOTypes
    <3>2. [hcount EXCEPT ![o] = @ + 1] \in [Obj -> Int]
        BY <3>1
    <3> QED
        BY <1>1, <3>1, <3>2
  <2>4. name' \in [Obj -> Name \cup {None}] /\ owner' \in [Obj -> Thread \cup {None}]
      BY <1>2 DEF WOTypes
  <2> QED
      BY <1>2, <2>1, <2>2, <2>3, <2>4 DEF WOTypes
<1>15. CurrentOK'
    BY <1>1, <1>2, <1>4 DEF CurrentOK, WOTypes
<1>16. RegistryOK'
  <2>1. \A p \in registry : name'[p] = name[p] /\ p # q
      BY <1>2, <1>3 DEF WOTypes, RegistryOK
  <2> QED
      BY <1>2, <2>1 DEF RegistryOK
<1>17. /\ MayTouch(t, o) /\ MayTouch(t, q) /\ pc[t] # "r_unname" /\ pc'[t] # "c_insert"
       /\ {o, q} \in SUBSET Obj
    BY <1>2, <1>3, <1>4 DEF MayTouch, WOTypes
<1> QED
    BY <1>10, <1>11, <1>12, <1>13, <1>14, <1>15, <1>16, <1>17, TouchInv

LEMMA ReleaseCountInv ==
  ASSUME WOInv, NEW t \in Thread, ReleaseCount(t) PROVE WOInv'
<1> USE DEF WOInv
<1>0. PICK o : o = cur[t]
    OBVIOUS
<1>1. /\ pc[t] = "r_dec" /\ hcount' = [hcount EXCEPT ![o] = @ - 1]
      /\ UNCHANGED <<cur, want, source, hobj, alive, refs, name, registry, owner>>
    BY <1>0 DEF ReleaseCount, callVars
<1>2. PICK l \in {"r_unname", "r_deref"} :
        /\ pc' = [pc EXCEPT ![t] = l]
        /\ l = "r_unname" <=> hcount[o] = 1 /\ o \in registry
    BY <1>0 DEF ReleaseCount, Goto
<1>3. o \in Obj /\ t \in Users(o) /\ t \in Closers(o)
    BY <1>0, <1>1 DEF CurrentOK, HoldsRef, Users, Closers, Releasing
<1>4. \A u \in Thread : pc'[u] = IF u = t THEN l ELSE pc[u]
    BY <1>2 DEF WOTypes
<1>5. \A p : /\ Users(p)' = Users(p) /\ Holders(p)' = Holders(p)
             /\ Closers(p)' = Closers(p) \ {t}
    BY <1>1, <1>4 DEF Users, Closers, Holders, HoldsRef, Releasing
<1>6. o \in alive
    BY <1>3 DEF RefAt
<1>7. hcount'[o] = hcount[o] - 1 /\ hcount[o] \in Int
    BY <1>1, <1>3 DEF WOTypes
<1>8. RefAt(o)'
    BY <1>1, <1>3, <1>5 DEF RefAt
<1>9. CountAt(o)'
  <2>1. IsFiniteSet(Closers(o)) /\ Cardinality(Closers(o)) \in Nat
        /\ Cardinality(Holders(o)) \in Nat
      BY ObjectSetsFinite
  <2>2. Cardinality(Closers(o) \ {t}) = Cardinality(Closers(o)) - 1
      BY <1>3, <2>1, OneLess
  <2>3. hcount[o] <= Cardinality(Holders(o)) + Cardinality(Closers(o))
      BY <1>3, <1>6 DEF CountAt
  <2>4. Cardinality(Closers(o)') = Cardinality(Closers(o)) - 1
      BY <1>5, <2>2
  <2>5. hcount'[o] <= Cardinality(Holders(o)') + Cardinality(Closers(o)')
      BY <1>5, <1>7, <2>1, <2>3, <2>4
  <2>6. ASSUME o \in registry
        PROVE  hcount'[o] >= 1 \/ \E u \in Thread : pc'[u] = "r_unname" /\ cur'[u] = o
    <3>1. CASE hcount[o] = 1
        BY <1>0, <1>1, <1>2, <1>4, <2>6, <3>1
    <3>2. CASE hcount[o] > 1
        BY <1>7, <3>2
    <3>3. CASE \E u \in Thread : pc[u] = "r_unname" /\ cur[u] = o
        BY <1>1, <1>4, <3>3
    <3> QED
        BY <1>3, <1>7, <2>6, <3>1, <3>2, <3>3 DEF CountAt
  <2> QED
      BY <1>1, <2>5, <2>6 DEF CountAt
<1>10. Touches(t, {o})
  <2>1. \A p \in Obj \ {o} : hcount'[p] = hcount[p] /\ t \notin Closers(p)
      BY <1>0, <1>1 DEF WOTypes, Closers
  <2> QED
      BY <1>1, <1>4, <1>5, <2>1 DEF Touches
<1>11. WOTypes' /\ CurrentOK' /\ RegistryOK'
  <2>1. hcount' \in [Obj -> Int]
      BY <1>1, <1>7 DEF WOTypes
  <2>2. l \in WOLabels /\ l \in HoldsRef
      BY DEF WOLabels, HoldsRef
  <2>3. WOTypes'
      BY <1>1, <1>2, <2>1, <2>2 DEF WOTypes
  <2>4. CurrentOK'
      BY <1>0, <1>1, <1>3, <1>4 DEF CurrentOK
  <2> QED
      BY <1>1, <2>3, <2>4 DEF RegistryOK
<1>12. MayTouch(t, o) /\ pc'[t] # "c_insert" /\ pc[t] # "r_unname" /\ {o} \in SUBSET Obj
    BY <1>1, <1>3, <1>4 DEF MayTouch
<1> QED
    BY <1>8, <1>9, <1>10, <1>11, <1>12, TouchInv

LEMMA ReleaseNameInv ==
  ASSUME WOInv, NEW t \in Thread, ReleaseName(t) PROVE WOInv'
<1> USE DEF WOInv
<1>0. PICK o : o = cur[t]
    OBVIOUS
<1>1. /\ pc[t] = "r_unname" /\ registry' = registry \ {o}
      /\ pc' = [pc EXCEPT ![t] = "r_deref"]
      /\ UNCHANGED <<cur, want, source, hobj, alive, refs, hcount, name, owner>>
    BY <1>0 DEF ReleaseName, Goto, callVars
<1>2. o \in Obj /\ t \in Users(o)
    BY <1>0, <1>1 DEF CurrentOK, HoldsRef, Users
<1>3. \A u \in Thread : pc'[u] = IF u = t THEN "r_deref" ELSE pc[u]
    BY <1>1 DEF WOTypes
<1>4. \A p : Users(p)' = Users(p) /\ Holders(p)' = Holders(p) /\ Closers(p)' = Closers(p)
    BY <1>1, <1>3 DEF Users, Closers, Holders, HoldsRef, Releasing
<1>5. RefAt(o)' /\ CountAt(o)'
  <2>1. RefAt(o)'
      BY <1>1, <1>2, <1>4 DEF RefAt
  <2>2. CountAt(o)'
      BY <1>1, <1>2, <1>4 DEF CountAt
  <2> QED
      BY <2>1, <2>2
<1>6. Touches(t, {o})
    BY <1>1, <1>3, <1>4 DEF Touches
<1>7. WOTypes' /\ CurrentOK' /\ RegistryOK'
  <2>1. WOTypes'
      BY <1>1 DEF WOTypes, WOLabels, HoldsRef
  <2>2. CurrentOK'
      BY <1>0, <1>1, <1>2, <1>3 DEF CurrentOK
  <2>3. RegistryOK'
      BY <1>1 DEF RegistryOK
  <2> QED
      BY <2>1, <2>2, <2>3
<1>8. MayTouch(t, o) /\ pc'[t] # "c_insert" /\ {o} \in SUBSET Obj /\ cur[t] \in {o}
    BY <1>0, <1>1, <1>2, <1>3 DEF MayTouch
<1> QED
    BY <1>5, <1>6, <1>7, <1>8, TouchInv

(* The last reference to an object is dropped only when it is not listed.  *)
LEMMA LastReference ==
  ASSUME WOInv, NEW t \in Thread, NEW o \in Obj, pc[t] = "r_deref", cur[t] = o, refs[o] = 1
  PROVE  Holders(o) = {} /\ Users(o) = {t} /\ o \notin registry
<1> USE DEF WOInv
<1>1. t \in Users(o)
    BY DEF Users, HoldsRef
<1>2. o \in alive
    BY <1>1 DEF RefAt
<1>3. /\ IsFiniteSet(Users(o)) /\ Cardinality(Users(o)) \in Nat
      /\ IsFiniteSet(Holders(o)) /\ Cardinality(Holders(o)) \in Nat
    BY ObjectSetsFinite
<1>4. Cardinality(Users(o)) > 0 /\ (Cardinality(Users(o)) = 1 => Users(o) = {t})
    BY <1>1, <1>3, OneLess
<1>5. Cardinality(Holders(o)) = 0 /\ Cardinality(Users(o)) = 1
    BY <1>2, <1>3, <1>4 DEF RefAt
<1>6. Holders(o) = {} /\ Users(o) = {t}
    BY <1>3, <1>4, <1>5, FS_EmptySet
<1>7. Closers(o) = {}
  <2>1. Closers(o) \subseteq Users(o) \ {t}
      BY DEF Closers, Users, Releasing, HoldsRef
  <2> QED
      BY <1>6, <2>1
<1>8. Cardinality(Closers(o)) = 0
    BY <1>7, FS_EmptySet
<1>9. hcount[o] <= 0
    BY <1>2, <1>5, <1>8 DEF CountAt
<1>10. ASSUME o \in registry PROVE FALSE
  <2>1. PICK u \in Thread : pc[u] = "r_unname" /\ cur[u] = o
      BY <1>9, <1>10 DEF CountAt, WOTypes
  <2>2. u \in Users(o)
      BY <2>1 DEF Users, HoldsRef
  <2> QED
      BY <1>6, <2>1, <2>2
<1> QED
    BY <1>6, <1>10

LEMMA DereferenceInv ==
  ASSUME WOInv, NEW t \in Thread, Dereference(t) PROVE WOInv'
<1> USE DEF WOInv
<1>0. PICK o : o = cur[t]
    OBVIOUS
<1>1. /\ pc[t] = "r_deref" /\ pc' = [pc EXCEPT ![t] = "idle"]
      /\ refs' = [refs EXCEPT ![o] = @ - 1] /\ cur' = [cur EXCEPT ![t] = None]
      /\ UNCHANGED <<hobj, registry>>
    BY <1>0 DEF Dereference, Return, Goto
<1>2. /\ want' \in [Thread -> Name \cup {None}] /\ \A u \in Thread : u # t => want'[u] = want[u]
      /\ source' \in [Thread -> Handle \cup {None}]
    BY DEF Dereference, Return, WOTypes
<1>3. o \in Obj /\ t \in Users(o) /\ o \in alive
    BY <1>0, <1>1 DEF CurrentOK, HoldsRef, Users, RefAt
<1>4. \A u \in Thread : /\ pc'[u] = IF u = t THEN "idle" ELSE pc[u]
                        /\ cur'[u] = IF u = t THEN None ELSE cur[u]
    BY <1>1 DEF WOTypes
<1>5. \A p : /\ Users(p)' = Users(p) \ {t} /\ Holders(p)' = Holders(p)
             /\ Closers(p)' = Closers(p)
    BY <1>1, <1>4 DEF Users, Closers, Holders, HoldsRef, Releasing
<1>6. refs'[o] = refs[o] - 1 /\ refs[o] \in Int
    BY <1>1, <1>3 DEF WOTypes
<1>7. /\ refs[o] = 1 => alive' = alive \ {o} /\ hcount' = [hcount EXCEPT ![o] = 0]
                        /\ name' = [name EXCEPT ![o] = None]
                        /\ owner' = [owner EXCEPT ![o] = None]
      /\ refs[o] # 1 => UNCHANGED <<alive, name, owner, hcount>>
    BY <1>0 DEF Dereference, Free
<1>8. \A p \in Obj \ {o} : /\ hcount'[p] = hcount[p] /\ name'[p] = name[p]
                           /\ (p \in alive' <=> p \in alive) /\ t \notin Users(p)
                           /\ refs'[p] = refs[p]
    BY <1>0, <1>1, <1>7 DEF WOTypes, Users
<1>9. Touches(t, {o})
    BY <1>1, <1>2, <1>4, <1>5, <1>8 DEF Touches
<1>10. WOTypes' /\ CurrentOK'
  <2>1. refs' \in [Obj -> Int]
      BY <1>1, <1>6 DEF WOTypes
  <2>2. pc' \in [Thread -> WOLabels] /\ cur' \in [Thread -> Obj \cup {None}]
      BY <1>1 DEF WOTypes, WOLabels
  <2>3. /\ hcount' \in [Obj -> Int] /\ name' \in [Obj -> Name \cup {None}]
        /\ owner' \in [Obj -> Thread \cup {None}] /\ alive' \subseteq Obj
    <3>1. CASE refs[o] = 1
        BY <1>7, <3>1 DEF WOTypes
    <3>2. CASE refs[o] # 1
        BY <1>7, <3>2 DEF WOTypes
    <3> QED
        BY <3>1, <3>2
  <2>4. WOTypes'
      BY <1>1, <1>2, <2>1, <2>2, <2>3 DEF WOTypes
  <2>5. CurrentOK'
      BY <1>4 DEF CurrentOK, HoldsRef
  <2> QED
      BY <2>4, <2>5
<1>11. MayTouch(t, o) /\ pc'[t] # "c_insert" /\ pc[t] # "r_unname" /\ {o} \in SUBSET Obj
    BY <1>1, <1>3, <1>4 DEF MayTouch
<1>12. CASE refs[o] = 1
  <2>1. Holders(o) = {} /\ Users(o) = {t} /\ o \notin registry
      BY <1>0, <1>1, <1>3, <1>12, LastReference
  <2>2. RefAt(o)' /\ CountAt(o)'
    <3>1. o \notin alive' /\ o \notin registry' /\ Holders(o)' = {} /\ Users(o)' = {}
        BY <1>1, <1>5, <1>7, <1>12, <2>1
    <3> QED
        BY <3>1 DEF RefAt, CountAt
  <2>3. RegistryOK'
      BY <1>1, <1>3, <1>8, <2>1 DEF RegistryOK, WOTypes
  <2> QED
      BY <1>9, <1>10, <1>11, <2>2, <2>3, TouchInv
<1>13. CASE refs[o] # 1
  <2>1. /\ IsFiniteSet(Users(o)) /\ Cardinality(Users(o)) \in Nat
        /\ Cardinality(Holders(o)) \in Nat
      BY ObjectSetsFinite
  <2>2. Cardinality(Users(o) \ {t}) = Cardinality(Users(o)) - 1
      BY <1>3, <2>1, OneLess
  <2>3. Cardinality(Users(o)') = Cardinality(Users(o)) - 1
      BY <1>5, <2>2
  <2>4. RefAt(o)'
      BY <1>3, <1>5, <1>6, <1>7, <1>13, <2>1, <2>3 DEF RefAt
  <2>5. CountAt(o)'
      BY <1>1, <1>3, <1>4, <1>5, <1>7, <1>13 DEF CountAt
  <2>6. RegistryOK'
      BY <1>1, <1>7, <1>13 DEF RegistryOK
  <2> QED
      BY <1>9, <1>10, <1>11, <2>4, <2>5, <2>6, TouchInv
<1> QED
    BY <1>12, <1>13

LEMMA WOStepInv == WOInv /\ [Next]_vars => WOInv'
<1> SUFFICES ASSUME WOInv, [Next]_vars PROVE WOInv'
    OBVIOUS
<1> USE DEF WOInv
<1>1. ASSUME NEW t \in Thread, NEW n \in Name \cup {None}, FindExisting(t, n) PROVE WOInv'
  <2>1. PICK o \in Find(n) : RefHandle(o) /\ cur' = [cur EXCEPT ![t] = o]
      BY <1>1 DEF FindExisting
  <2>2. o \in Obj /\ o \in registry
      BY <2>1 DEF Find, RegistryOK, WOTypes
  <2>3. source' \in [Thread -> Handle \cup {None}]
      BY <1>1 DEF FindExisting, WOTypes
  <2> QED
      BY <1>1, <2>1, <2>2, <2>3, GainInv DEF FindExisting, RefHandle, Ready, Goto
<1>2. ASSUME NEW t \in Thread, NEW h \in Handle, NEW c \in BOOLEAN, Duplicate(t, h, c)
      PROVE  WOInv'
  <2>1. PICK o : o = hobj[h]
      OBVIOUS
  <2>2. o \in Obj /\ Holders(o) # {}
      BY <1>2, <2>1 DEF Duplicate, Open, WOTypes, Holders
  <2>3. source' \in [Thread -> Handle \cup {None}]
      BY <1>2 DEF Duplicate, WOTypes
  <2> QED
      BY <1>2, <2>1, <2>2, <2>3, GainInv DEF Duplicate, Ready, Goto
<1>3. ASSUME NEW t \in Thread, NEW h \in Handle, NEW l \in {"u_wait", "u_release"},
             UseHandle(t, h, l)
      PROVE  WOInv'
  <2>1. PICK o : o = hobj[h]
      OBVIOUS
  <2>2. o \in Obj /\ Holders(o) # {}
      BY <1>3, <2>1 DEF UseHandle, Open, WOTypes, Holders
  <2>3. source' \in [Thread -> Handle \cup {None}]
      BY <1>3 DEF UseHandle, WOTypes
  <2> QED
      BY <1>3, <2>1, <2>2, <2>3, GainInv DEF UseHandle, Ready, Goto
<1>4. ASSUME NEW t \in Thread, NEW h \in Handle, CloseHandle(t, h) PROVE WOInv'
  <2>1. /\ h \in Open /\ pc[t] = "idle" /\ Take(t, h) /\ want' = want
        /\ source' \in [Thread -> Handle \cup {None}] /\ UNCHANGED objVars
      BY <1>4 DEF CloseHandle, Ready, WOTypes
  <2> QED
      BY <2>1, TakeInv
<1>5. ASSUME NEW t \in Thread, DuplicateClose(t) PROVE WOInv'
  <2>1. pc[t] = "d_close" /\ UNCHANGED objVars
      BY <1>5 DEF DuplicateClose
  <2>2. CASE source[t] \in Open
    <3>1. /\ Take(t, source[t]) /\ want' = want
          /\ source' \in [Thread -> Handle \cup {None}]
        BY <1>5, <2>2 DEF DuplicateClose, WOTypes
    <3> QED
        BY <2>1, <2>2, <3>1, TakeInv
  <2>3. CASE source[t] \notin Open
    <3>1. /\ pc' = [pc EXCEPT ![t] = "idle"] /\ cur' = [cur EXCEPT ![t] = None]
          /\ want' = [want EXCEPT ![t] = None] /\ source' = [source EXCEPT ![t] = None]
          /\ hobj' = hobj
        BY <1>5, <2>3 DEF DuplicateClose, Return, Goto
    <3>2. /\ want' \in [Thread -> Name \cup {None}]
          /\ \A u \in Thread : u # t => want'[u] = want[u]
          /\ source' \in [Thread -> Handle \cup {None}]
          /\ owner' \in [Obj -> Thread \cup {None}]
        BY <2>1, <3>1 DEF WOTypes, objVars
    <3> QED
        BY <2>1, <3>1, <3>2, WOMoveInv DEF objVars, WOLabels, HoldsRef, Releasing
  <2> QED
      BY <2>2, <2>3
<1>6. CASE UNCHANGED <<pc, callVars, hobj, objVars>>
  <2> USE <1>6 DEF callVars, objVars
  <2>1. \A o : Users(o)' = Users(o) /\ Holders(o)' = Holders(o) /\ Closers(o)' = Closers(o)
      BY DEF Users, Holders, Closers
  <2>2. WOTypes' /\ CurrentOK' /\ RegistryOK'
      BY DEF WOTypes, CurrentOK, RegistryOK
  <2>3. \A o \in Obj : RefAt(o)' /\ CountAt(o)'
      BY <2>1 DEF RefAt, CountAt
  <2>4. \A t \in Thread : pc'[t] = "c_insert" => UnseenAt(t)'
      BY DEF UnseenAt, Holders, Users
  <2> QED
      BY <2>2, <2>3, <2>4
<1>7. ASSUME NEW t \in Thread, TerminateHandles(t) PROVE WOInv'
  <2>1. /\ pc[t] = "idle" /\ want' = want /\ source' = source /\ UNCHANGED objVars
        /\ source \in [Thread -> Handle \cup {None}]
      BY <1>7 DEF TerminateHandles, WOTypes
  <2>2. CASE Open = {}
      BY <1>6, <1>7, <2>1, <2>2 DEF TerminateHandles, callVars
  <2>3. CASE Open # {}
    <3>1. PICK h \in Open : Take(t, h)
        BY <1>7, <2>3 DEF TerminateHandles
    <3> QED
        BY <2>1, <3>1, TakeInv
  <2> QED
      BY <2>2, <2>3
<1>8. CASE UNCHANGED vars
    BY <1>6, <1>8 DEF vars
<1> HIDE DEF WOInv
<1> QED
    BY <1>1, <1>2, <1>3, <1>4, <1>5, <1>7, <1>8, WOMovesInv, HandleMadeInv, CreateAllocInv,
       CreateInsertInv, CreateLostInv, ReleaseCountInv, ReleaseNameInv, DereferenceInv
       DEF Next

(* The inductive invariant of handles and wait objects.                    *)
THEOREM WOInvariance == Spec => []WOInv
BY WOInitInv, WOStepInv, PTL DEF Spec

(* Whichever allocations fail and however handles are duplicated, opened   *)
(* by name and closed, LdkpDereferenceWaitObject frees a wait object with  *)
(* its last handle or call and never while it is listed by its name.       *)
THEOREM WaitObjectsKept == Spec => []WaitObjectsSafe
<1>1. WOInv => WaitObjectsSafe
  <2> SUFFICES ASSUME WOInv PROVE WaitObjectsSafe
      OBVIOUS
  <2> USE DEF WOInv
  <2>1. ReferencesExact
      BY DEF ReferencesExact, RefAt
  <2>2. ASSUME NEW n \in Name PROVE Cardinality(Find(n)) <= 1
    <3>1. CASE Find(n) = {}
      <4>1. Cardinality(Find(n)) = 0
          BY <3>1, FS_EmptySet
      <4> QED
          BY <4>1
    <3>2. CASE Find(n) # {}
      <4>1. PICK o \in Find(n) : TRUE
          BY <3>2
      <4>2. Find(n) = {o}
          BY <4>1 DEF Find, RegistryOK
      <4>3. Cardinality(Find(n)) = 1
          BY <4>2, FS_Singleton
      <4> QED
          BY <4>3
    <3> QED
        BY <3>1, <3>2
  <2> QED
      BY <2>1, <2>2 DEF WaitObjectsSafe, RegistrySafe, RegistryOK
<1> QED
    BY <1>1, WOInvariance, PTL

-----------------------------------------------------------------------------
(* The name of a mutex.  While no handle has been duplicated and the calls *)
(* that change the registry have come one after the other, HandleCount is  *)
(* exact, so that the release that takes it to zero is that of the last    *)
(* handle, and an object that has a name and a handle, or is about to get  *)
(* one, is in the registry.                                                *)

ChangingNames(t) == pc[t] \notin {"idle", "u_wait", "u_release", "r_deref"}

GetsHandle(o) == \E t \in Thread : pc[t] = "handle" /\ cur[t] = o

NamedAt(o) ==
  o \in alive =>
    /\ hcount[o] = Cardinality(Holders(o)) + Cardinality(Closers(o))
    /\ name[o] # None /\ (Holders(o) # {} \/ GetsHandle(o)) => o \in registry

OneAfterTheOther ==
  \A t, u \in Thread : ChangingNames(t) /\ ChangingNames(u) => t = u

NamesInOrder ==
  /\ OneAfterTheOther
  /\ \A t \in Thread : source[t] = None /\ pc[t] # "d_close"
  /\ \A o \in Obj : NamedAt(o)
  /\ \A t \in Thread : pc[t] = "r_unname" => Holders(cur[t]) = {}

NamedInv == strained \/ NamesInOrder

(* What thread t touches when it goes from its object to object c.         *)
LEMMA TouchesOwn ==
  ASSUME WOTypes, NEW t \in Thread, NEW l, NEW c, NEW T,
         pc' = [pc EXCEPT ![t] = l], cur' = [cur EXCEPT ![t] = c],
         \A u \in Thread : u # t => want'[u] = want[u],
         pc[t] \in HoldsRef => cur[t] \in T,
         l \in HoldsRef => c \in T,
         \A p \in Obj \ T :
            /\ refs'[p] = refs[p] /\ hcount'[p] = hcount[p] /\ name'[p] = name[p]
            /\ p \in alive' <=> p \in alive
            /\ p \in registry' <=> p \in registry
            /\ Holders(p)' = Holders(p)
  PROVE  Touches(t, T)
<1>1. \A u \in Thread : u # t => pc'[u] = pc[u] /\ cur'[u] = cur[u]
    BY DEF WOTypes
<1>2. \A p \in Obj \ T : t \notin Users(p) /\ t \notin Closers(p)
    BY DEF Users, Closers, Releasing, HoldsRef
<1>3. \A p \in Obj \ T : ~ (l \in HoldsRef /\ c = p) /\ ~ (l \in Releasing /\ c = p)
    BY DEF Releasing, HoldsRef
<1>4. ASSUME NEW p \in Obj \ T PROVE Users(p)' = Users(p) /\ Closers(p)' = Closers(p)
  <2>1. Users(p)' = Users(p) \ {t} /\ Closers(p)' = Closers(p) \ {t}
      BY <1>3, ThreadMoved
  <2> QED
      BY <1>2, <2>1
<1> QED
    BY <1>1, <1>4 DEF Touches

(* What a step does to the objects it touches is all there is to check.    *)
LEMMA NamedTouch ==
  ASSUME WOInv, NamesInOrder, NEW t \in Thread, NEW T \in SUBSET Obj, Touches(t, T),
         pc'[t] = "handle" => cur'[t] \in T,
         pc'[t] # "d_close",
         \A u \in Thread : source'[u] = None,
         ChangingNames(t)' =>
            ChangingNames(t) \/ \A u \in Thread \ {t} : ~ ChangingNames(u),
         \A o \in T : NamedAt(o)',
         pc'[t] = "r_unname" => Holders(cur[t])' = {},
         ChangingNames(t) \/ \A o \in T : Holders(o)' \subseteq Holders(o)
  PROVE  NamesInOrder'
<1> USE DEF NamesInOrder
<1>1. \A u \in Thread : u # t => pc'[u] = pc[u] /\ cur'[u] = cur[u]
    BY DEF Touches
<1>2. OneAfterTheOther'
    BY <1>1 DEF OneAfterTheOther, ChangingNames
<1>3. ASSUME NEW p \in Obj, p \notin T PROVE NamedAt(p)'
  <2>1. GetsHandle(p)' => GetsHandle(p)
      BY <1>1, <1>3 DEF GetsHandle
  <2> QED
      BY <1>3, <2>1 DEF NamedAt, Touches
<1>4. ASSUME NEW u \in Thread, u # t, pc'[u] = "r_unname" PROVE Holders(cur[u])' = {}
  <2>1. PICK o : o = cur[u]
      OBVIOUS
  <2>2. pc[u] = "r_unname" /\ cur'[u] = o /\ Holders(o) = {} /\ o \in Obj
      BY <1>1, <1>4, <2>1 DEF WOInv, CurrentOK, HoldsRef
  <2>3. ~ ChangingNames(t)
      BY <1>4, <2>2 DEF OneAfterTheOther, ChangingNames
  <2>4. Holders(o)' = {}
      BY <2>2, <2>3 DEF Touches
  <2> QED
      BY <2>2, <2>4 DEF Holders
<1> QED
    BY <1>1, <1>2, <1>3, <1>4

(* A step that leaves the counts, the names and the handles alone.         *)
LEMMA NamedMove ==
  ASSUME WOInv, NamesInOrder, NEW t \in Thread, NEW l \in WOLabels, NEW c,
         pc' = [pc EXCEPT ![t] = l], cur' = [cur EXCEPT ![t] = c],
         \A u \in Thread : u # t => want'[u] = want[u],
         \A u \in Thread : source'[u] = None,
         UNCHANGED <<hobj, alive, hcount, name, registry>>,
         \A p \in Obj : p # c => refs'[p] = refs[p],
         pc[t] \in HoldsRef => c = cur[t],
         l \in HoldsRef => c \in Obj,
         l \in Releasing <=> pc[t] \in Releasing,
         l \in Releasing => c = cur[t],
         l = "handle" => pc[t] = "handle",
         l # "d_close" /\ l # "r_unname",
         l \notin {"idle", "u_wait", "u_release", "r_deref"} =>
            ChangingNames(t) \/ \A u \in Thread \ {t} : ~ ChangingNames(u)
  PROVE  NamesInOrder'
<1> USE DEF WOInv
<1>1. PICK T : T = {c} \cap Obj
    OBVIOUS
<1>2. \A o : Holders(o)' = Holders(o)
    BY DEF Holders
<1>3. \A u \in Thread : /\ pc'[u] = IF u = t THEN l ELSE pc[u]
                        /\ cur'[u] = IF u = t THEN c ELSE cur[u]
    BY DEF WOTypes
<1>4. Touches(t, T)
  <2>1. pc[t] \in HoldsRef => cur[t] \in T
      BY <1>1 DEF CurrentOK
  <2>2. l \in HoldsRef => c \in T
      BY <1>1
  <2>3. \A p \in Obj \ T : p # c
      BY <1>1
  <2> QED
      BY <1>2, <2>1, <2>2, <2>3, TouchesOwn
<1>5. ASSUME NEW o \in Obj PROVE NamedAt(o)'
  <2>1. Closers(o)' = Closers(o)
      BY <1>3 DEF Closers
  <2>2. GetsHandle(o)' => GetsHandle(o)
      BY <1>3 DEF GetsHandle, Releasing
  <2> QED
      BY <1>2, <2>1, <2>2 DEF NamedAt, NamesInOrder
<1>6. pc'[t] = l /\ cur'[t] = c
    BY <1>3
<1>7. T \in SUBSET Obj /\ (l = "handle" => c \in T)
    BY <1>1 DEF HoldsRef
<1>8. ChangingNames(t)' => l \notin {"idle", "u_wait", "u_release", "r_deref"}
    BY <1>6 DEF ChangingNames
<1> QED
    BY <1>2, <1>4, <1>5, <1>6, <1>7, <1>8, NamedTouch

LEMMA NamedMoves ==
  ASSUME WOInv, NamesInOrder, NEW t \in Thread,
         \/ CreateAllocFails(t) \/ HandleFails(t) \/ Acquire(t) \/ TimesOut(t)
         \/ ReleaseMutant(t)
  PROVE  NamesInOrder'
<1> USE DEF WOInv
<1>0. /\ \A u \in Thread : source[u] = None
      /\ cur = [cur EXCEPT ![t] = cur[t]]
      /\ pc[t] \in HoldsRef => cur[t] \in Obj
    BY DEF NamesInOrder, WOTypes, CurrentOK
<1>1. CASE CreateAllocFails(t)
  <2>1. /\ pc[t] = "c_alloc" /\ pc' = [pc EXCEPT ![t] = "idle"]
        /\ cur' = [cur EXCEPT ![t] = None] /\ want' = [want EXCEPT ![t] = None]
        /\ source' = [source EXCEPT ![t] = None]
        /\ UNCHANGED <<hobj, alive, refs, hcount, name, registry>>
      BY <1>1 DEF CreateAllocFails, Return, Goto, objVars
  <2>2. \A u \in Thread : source'[u] = None /\ (u # t => want'[u] = want[u])
      BY <1>0, <2>1 DEF WOTypes
  <2> QED
      BY <1>0, <2>1, <2>2, NamedMove DEF WOLabels, HoldsRef, Releasing
<1>2. CASE HandleFails(t)
  <2>1. /\ pc[t] = "handle" /\ pc' = [pc EXCEPT ![t] = "r_dec"]
        /\ cur' = cur /\ want' = want /\ source' = [source EXCEPT ![t] = None]
        /\ UNCHANGED <<hobj, alive, refs, hcount, name, registry>>
      BY <1>2 DEF HandleFails, Goto, objVars
  <2>2. \A u \in Thread : source'[u] = None
      BY <1>0, <2>1 DEF WOTypes
  <2>3. ChangingNames(t)
      BY <2>1 DEF ChangingNames
  <2>4. cur' = [cur EXCEPT ![t] = cur[t]]
      BY <1>0, <2>1
  <2> QED
      BY <1>0, <2>1, <2>2, <2>3, <2>4, NamedMove DEF WOLabels, HoldsRef, Releasing
<1>3. CASE Acquire(t) \/ TimesOut(t) \/ ReleaseMutant(t)
  <2>1. /\ pc[t] \in {"u_wait", "u_release"} /\ pc' = [pc EXCEPT ![t] = "r_deref"]
        /\ UNCHANGED <<cur, want, source, hobj, alive, refs, hcount, name, registry>>
      BY <1>3 DEF Acquire, TimesOut, ReleaseMutant, Goto, objVars, callVars
  <2>2. \A u \in Thread : source'[u] = None
      BY <1>0, <2>1
  <2>4. cur' = [cur EXCEPT ![t] = cur[t]]
      BY <1>0, <2>1
  <2> QED
      BY <1>0, <2>1, <2>2, <2>4, NamedMove DEF WOLabels, HoldsRef, Releasing
<1> QED
    BY <1>1, <1>2, <1>3

LEMMA NamedCreateNew ==
  ASSUME WOInv, NamesInOrder, ~ strained', NEW t \in Thread, NEW n, CreateNew(t, n)
  PROVE  NamesInOrder'
<1> USE DEF WOInv
<1>1. /\ pc[t] = "idle" /\ pc' = [pc EXCEPT ![t] = "c_alloc"] /\ cur' = cur
      /\ source' = source /\ want' = [want EXCEPT ![t] = n]
      /\ UNCHANGED <<hobj, alive, refs, hcount, name, registry>>
    BY DEF CreateNew, Ready, Goto, objVars
<1>2. \A u \in Thread \ {t} : ~ ChangingNames(u)
    BY DEF CreateNew, ChangesNames, ChangingNames
<1>3. cur' = [cur EXCEPT ![t] = cur[t]]
    BY <1>1 DEF WOTypes
<1>4. \A u \in Thread : source'[u] = None /\ (u # t => want'[u] = want[u])
    BY <1>1 DEF WOTypes, NamesInOrder
<1> QED
    BY <1>1, <1>2, <1>3, <1>4, NamedMove DEF WOLabels, HoldsRef, Releasing

LEMMA NamedUse ==
  ASSUME WOInv, NamesInOrder, NEW t \in Thread, NEW h \in Handle,
         NEW l \in {"u_wait", "u_release"}, UseHandle(t, h, l)
  PROVE  NamesInOrder'
<1> USE DEF WOInv
<1>0. PICK o : o = hobj[h]
    OBVIOUS
<1>1. /\ pc[t] = "idle" /\ pc' = [pc EXCEPT ![t] = l] /\ cur' = [cur EXCEPT ![t] = o]
      /\ refs' = [refs EXCEPT ![o] = @ + 1]
      /\ UNCHANGED <<want, source, hobj, alive, hcount, name, registry>>
    BY <1>0 DEF UseHandle, Ready, Goto
<1>2. o \in Obj
    BY <1>0 DEF UseHandle, Open, WOTypes
<1>3. \A p \in Obj : p # o => refs'[p] = refs[p]
    BY <1>1 DEF WOTypes
<1>4. \A u \in Thread : source'[u] = None
    BY <1>1 DEF NamesInOrder
<1> QED
    BY <1>1, <1>2, <1>3, <1>4, NamedMove DEF WOLabels, HoldsRef, Releasing

LEMMA NamedFind ==
  ASSUME WOInv, NamesInOrder, ~ strained', NEW t \in Thread, NEW n, FindExisting(t, n)
  PROVE  NamesInOrder'
<1> USE DEF WOInv
<1>0. PICK o \in Find(n) : /\ hcount' = [hcount EXCEPT ![o] = @ + 1]
                           /\ refs' = [refs EXCEPT ![o] = @ + 1]
                           /\ cur' = [cur EXCEPT ![t] = o]
    BY DEF FindExisting, RefHandle
<1>1. /\ pc[t] = "idle" /\ pc' = [pc EXCEPT ![t] = "handle"]
      /\ UNCHANGED <<want, source, hobj, alive, name, registry>>
    BY DEF FindExisting, Ready, Goto
<1>2. \A u \in Thread \ {t} : ~ ChangingNames(u)
    BY DEF FindExisting, ChangesNames, ChangingNames
<1>3. o \in Obj /\ o \in registry
    BY DEF Find, RegistryOK, WOTypes
<1>4. \A p : Holders(p)' = Holders(p)
    BY <1>1 DEF Holders
<1>5. \A p \in Obj \ {o} : refs'[p] = refs[p] /\ hcount'[p] = hcount[p]
    BY <1>0 DEF WOTypes
<1>6. pc'[t] = "handle" /\ cur'[t] = o /\ hcount'[o] = hcount[o] + 1
    BY <1>0, <1>1, <1>3 DEF WOTypes
<1>7. Touches(t, {o})
    BY <1>0, <1>1, <1>4, <1>5, TouchesOwn DEF HoldsRef
<1>8. Closers(o)' = Closers(o) \cup {t} /\ t \notin Closers(o)
  <2>1. Closers(o)' = Closers(o) \cup {t}
      BY <1>0, <1>1, ThreadMoved DEF Releasing
  <2> QED
      BY <1>1, <2>1 DEF Closers, Releasing
<1>9. Cardinality(Closers(o)') = Cardinality(Closers(o)) + 1
    BY <1>8, ObjectSetsFinite, OneMore
<1>10. NamedAt(o)'
    BY <1>1, <1>3, <1>4, <1>6, <1>9, ObjectSetsFinite DEF NamedAt, NamesInOrder
<1>11. \A u \in Thread : source'[u] = None
    BY <1>1 DEF NamesInOrder
<1> QED
    BY <1>2, <1>3, <1>4, <1>6, <1>7, <1>10, <1>11, NamedTouch

LEMMA NamedAlloc ==
  ASSUME WOInv, NamesInOrder, NEW t \in Thread, NEW o \in Obj, NEW io \in BOOLEAN,
         CreateAlloc(t, o, io)
  PROVE  NamesInOrder'
<1> USE DEF WOInv
<1>0. PICK l \in {"handle", "c_insert"} :
        /\ pc' = [pc EXCEPT ![t] = l]
        /\ l = "handle" => want[t] = None
    BY DEF CreateAlloc, Goto
<1>1. /\ pc[t] = "c_alloc" /\ o \notin alive /\ cur' = [cur EXCEPT ![t] = o]
      /\ alive' = alive \cup {o} /\ refs' = [refs EXCEPT ![o] = 1]
      /\ hcount' = [hcount EXCEPT ![o] = 1] /\ name' = [name EXCEPT ![o] = want[t]]
      /\ UNCHANGED <<want, source, hobj, registry>>
    BY DEF CreateAlloc
<1>2. Holders(o) = {} /\ Users(o) = {} /\ \A p : Holders(p)' = Holders(p)
    BY <1>1 DEF RefAt, Holders
<1>3. \A p \in Obj \ {o} : refs'[p] = refs[p] /\ hcount'[p] = hcount[p] /\ name'[p] = name[p]
    BY <1>1 DEF WOTypes
<1>4. pc'[t] = l /\ cur'[t] = o /\ hcount'[o] = 1 /\ name'[o] = want[t]
    BY <1>0, <1>1 DEF WOTypes
<1>5. \A u \in Thread \ {t} : pc'[u] = pc[u] /\ cur'[u] = cur[u]
    BY <1>0, <1>1 DEF WOTypes
<1>6. Touches(t, {o})
    BY <1>0, <1>1, <1>2, <1>3, TouchesOwn DEF HoldsRef
<1>7. Closers(o)' = {t}
  <2>1. Closers(o)' = Closers(o) \cup {t}
      BY <1>4, <1>5 DEF Closers, Releasing
  <2> QED
      BY <1>2, <2>1 DEF Closers, Users, Releasing, HoldsRef
<1>8. NamedAt(o)'
  <2>1. Holders(o)' = {}
      BY <1>2
  <2>2. Cardinality(Holders(o)') = 0 /\ Cardinality(Closers(o)') = 1
      BY <1>7, <2>1, FS_EmptySet, FS_Singleton
  <2>3. GetsHandle(o)' => name'[o] = None
      BY <1>0, <1>2, <1>4, <1>5 DEF GetsHandle, Users, HoldsRef
  <2> QED
      BY <1>4, <2>1, <2>2, <2>3 DEF NamedAt
<1>9. ChangingNames(t) /\ \A u \in Thread : source'[u] = None
    BY <1>1 DEF NamesInOrder, ChangingNames
<1> QED
    BY <1>0, <1>4, <1>6, <1>8, <1>9, NamedTouch

LEMMA NamedInsert ==
  ASSUME WOInv, NamesInOrder, NEW t \in Thread, CreateInsert(t) PROVE NamesInOrder'
<1> USE DEF WOInv
<1>0. PICK o : o = cur[t]
    OBVIOUS
<1>1. /\ pc[t] = "c_insert" /\ pc' = [pc EXCEPT ![t] = "handle"]
      /\ registry' = registry \cup {o}
      /\ UNCHANGED <<cur, want, source, hobj, alive, refs, hcount, name>>
    BY <1>0 DEF CreateInsert, Goto, callVars
<1>2. o \in Obj /\ cur' = [cur EXCEPT ![t] = o]
    BY <1>0, <1>1 DEF CurrentOK, HoldsRef, WOTypes
<1>3. \A p : Holders(p)' = Holders(p)
    BY <1>1 DEF Holders
<1>4. pc'[t] = "handle" /\ cur'[t] = o
    BY <1>0, <1>1 DEF WOTypes
<1>5. Touches(t, {o})
    BY <1>0, <1>1, <1>2, <1>3, TouchesOwn
<1>6. Closers(o)' = Closers(o)
  <2>1. \A u \in Thread : pc'[u] = IF u = t THEN "handle" ELSE pc[u]
      BY <1>1 DEF WOTypes
  <2> QED
      BY <1>1, <2>1 DEF Closers, Releasing
<1>7. NamedAt(o)'
    BY <1>1, <1>2, <1>3, <1>6 DEF NamedAt, NamesInOrder
<1>8. ChangingNames(t) /\ \A u \in Thread : source'[u] = None
    BY <1>1 DEF NamesInOrder, ChangingNames
<1> QED
    BY <1>2, <1>4, <1>5, <1>7, <1>8, NamedTouch

LEMMA NamedLost ==
  ASSUME WOInv, NamesInOrder, NEW t \in Thread, CreateLost(t) PROVE NamesInOrder'
<1> USE DEF WOInv
<1>0. PICK c : c = cur[t]
    OBVIOUS
<1>1. PICK o \in Find(want[t]) :
        /\ hcount' = [hcount EXCEPT ![o] = @ + 1, ![c] = 0]
        /\ refs' = [refs EXCEPT ![o] = @ + 1, ![c] = 0]
        /\ cur' = [cur EXCEPT ![t] = o]
    BY <1>0 DEF CreateLost
<1>2. /\ pc[t] = "c_insert" /\ pc' = [pc EXCEPT ![t] = "handle"]
      /\ alive' = alive \ {c} /\ name' = [name EXCEPT ![c] = None]
      /\ UNCHANGED <<want, source, hobj, registry>>
    BY <1>0 DEF CreateLost, Goto, Free
<1>3. /\ o \in Obj /\ c \in Obj /\ o \in registry /\ o # c /\ o \in alive
    BY <1>0, <1>1, <1>2 DEF Find, RegistryOK, WOTypes, CurrentOK, HoldsRef, UnseenAt
<1>4. \A p : Holders(p)' = Holders(p)
    BY <1>2 DEF Holders
<1>5. \A p \in Obj \ {o, c} : /\ refs'[p] = refs[p] /\ hcount'[p] = hcount[p]
                              /\ name'[p] = name[p]
    BY <1>1, <1>2 DEF WOTypes
<1>6. pc'[t] = "handle" /\ cur'[t] = o
    BY <1>1, <1>2 DEF WOTypes
<1>7. Touches(t, {o, c})
  <2>1. pc[t] \in HoldsRef => cur[t] \in {o, c}
      BY <1>0
  <2>2. \A p \in Obj \ {o, c} : (p \in alive' <=> p \in alive)
      BY <1>2
  <2> QED
      BY <1>1, <1>2, <1>4, <1>5, <2>1, <2>2, TouchesOwn
<1>8. hcount'[o] = hcount[o] + 1
  <2>1. hcount \in [Obj -> Int]
      BY DEF WOTypes
  <2> QED
      BY <1>1, <1>3, <2>1
<1>9. Closers(o)' = Closers(o) \cup {t} /\ t \notin Closers(o)
  <2>1. Closers(o)' = Closers(o) \cup {t}
      BY <1>6, <1>7 DEF Closers, Releasing, Touches
  <2> QED
      BY <1>0, <1>3, <2>1 DEF Closers
<1>10. Cardinality(Closers(o)') = Cardinality(Closers(o)) + 1
    BY <1>9, ObjectSetsFinite, OneMore
<1>11. NamedAt(o)'
    BY <1>2, <1>3, <1>4, <1>8, <1>10, ObjectSetsFinite DEF NamedAt, NamesInOrder
<1>12. NamedAt(c)'
    BY <1>2 DEF NamedAt
<1>13. ChangingNames(t) /\ \A u \in Thread : source'[u] = None
    BY <1>2 DEF NamesInOrder, ChangingNames
<1>14. {o, c} \in SUBSET Obj
    BY <1>3
<1> QED
    BY <1>6, <1>7, <1>11, <1>12, <1>13, <1>14, NamedTouch

LEMMA NamedHandle ==
  ASSUME WOInv, NamesInOrder, NEW t \in Thread, NEW h \in Handle, HandleMade(t, h)
  PROVE  NamesInOrder'
<1> USE DEF WOInv
<1>0. PICK o : o = cur[t]
    OBVIOUS
<1>1. /\ pc[t] = "handle" /\ h \notin Open /\ hobj' = [hobj EXCEPT ![h] = o]
      /\ UNCHANGED <<alive, refs, hcount, name, registry>>
    BY <1>0 DEF HandleMade, objVars
<1>2. /\ pc' = [pc EXCEPT ![t] = "idle"] /\ cur' = [cur EXCEPT ![t] = None]
      /\ want' = [want EXCEPT ![t] = None] /\ source' = [source EXCEPT ![t] = None]
    BY DEF HandleMade, Return, Goto, NamesInOrder
<1>3. o \in Obj /\ t \in Closers(o)
    BY <1>0, <1>1 DEF CurrentOK, HoldsRef, Closers, Releasing
<1>4. /\ Holders(o)' = Holders(o) \cup {h} /\ h \notin Holders(o)
      /\ \A p \in Obj \ {o} : Holders(p)' = Holders(p)
  <2>1. \A g \in Handle : hobj'[g] = IF g = h THEN o ELSE hobj[g]
      BY <1>1 DEF WOTypes
  <2>2. hobj[h] = None
      BY <1>1 DEF Open
  <2> QED
      BY <1>3, <2>1, <2>2, WOAssumption DEF Holders
<1>5. \A u \in Thread : /\ pc'[u] = IF u = t THEN "idle" ELSE pc[u]
                        /\ source'[u] = None
                        /\ u # t => want'[u] = want[u]
    BY <1>2 DEF WOTypes, NamesInOrder
<1>6. Touches(t, {o})
    BY <1>0, <1>1, <1>2, <1>4, <1>5, TouchesOwn DEF HoldsRef
<1>7. Closers(o)' = Closers(o) \ {t}
    BY <1>5, <1>6 DEF Closers, Releasing, Touches
<1>8. NamedAt(o)'
  <2>1. /\ IsFiniteSet(Closers(o)) /\ Cardinality(Closers(o)) \in Nat
        /\ IsFiniteSet(Holders(o)) /\ Cardinality(Holders(o)) \in Nat
      BY ObjectSetsFinite
  <2>2. Cardinality(Closers(o)') = Cardinality(Closers(o)) - 1
      BY <1>3, <1>7, <2>1, OneLess
  <2>3. Cardinality(Holders(o)') = Cardinality(Holders(o)) + 1
      BY <1>4, <2>1, OneMore
  <2>4. o \in alive => hcount'[o] = Cardinality(Holders(o)') + Cardinality(Closers(o)')
      BY <1>1, <1>3, <2>1, <2>2, <2>3 DEF NamedAt, NamesInOrder
  <2>5. o \in alive /\ name[o] # None => o \in registry
      BY <1>0, <1>1, <1>3 DEF NamedAt, NamesInOrder, GetsHandle
  <2> QED
      BY <1>1, <2>4, <2>5 DEF NamedAt
<1>9. ChangingNames(t)
    BY <1>1 DEF ChangingNames
<1>10. {o} \in SUBSET Obj
    BY <1>3
<1> QED
    BY <1>5, <1>6, <1>8, <1>9, <1>10, NamedTouch

(* A handle leaves the list and its release begins.                        *)
LEMMA NamedTake ==
  ASSUME WOInv, NamesInOrder, NEW t \in Thread, NEW h \in Open, Take(t, h), pc[t] = "idle",
         \A u \in Thread \ {t} : ~ ChangingNames(u),
         UNCHANGED <<want, source, alive, refs, hcount, name, registry>>
  PROVE  NamesInOrder'
<1> USE DEF WOInv
<1>0. PICK o : o = hobj[h]
    OBVIOUS
<1>1. /\ hobj' = [hobj EXCEPT ![h] = None] /\ cur' = [cur EXCEPT ![t] = o]
      /\ pc' = [pc EXCEPT ![t] = "r_dec"]
    BY <1>0 DEF Take, Goto
<1>2. o \in Obj /\ h \in Handle /\ h \in Holders(o)
    BY <1>0 DEF Open, WOTypes, Holders
<1>3. /\ Holders(o)' = Holders(o) \ {h}
      /\ \A p \in Obj \ {o} : Holders(p)' = Holders(p)
  <2>1. \A g \in Handle : hobj'[g] = IF g = h THEN None ELSE hobj[g]
      BY <1>1 DEF WOTypes
  <2> QED
      BY <1>0, <1>2, <2>1, WOAssumption DEF Holders
<1>4. \A u \in Thread : /\ pc'[u] = IF u = t THEN "r_dec" ELSE pc[u]
                        /\ cur'[u] = IF u = t THEN o ELSE cur[u]
                        /\ source'[u] = None
    BY <1>1 DEF WOTypes, NamesInOrder
<1>5. Touches(t, {o})
    BY <1>1, <1>3, TouchesOwn DEF HoldsRef
<1>6. Closers(o)' = Closers(o) \cup {t} /\ t \notin Closers(o)
    BY <1>4 DEF Closers, Releasing
<1>7. NamedAt(o)'
  <2>1. /\ IsFiniteSet(Closers(o)) /\ Cardinality(Closers(o)) \in Nat
        /\ IsFiniteSet(Holders(o)) /\ Cardinality(Holders(o)) \in Nat
      BY ObjectSetsFinite
  <2>2. Cardinality(Closers(o)') = Cardinality(Closers(o)) + 1
      BY <1>6, <2>1, OneMore
  <2>3. Cardinality(Holders(o)') = Cardinality(Holders(o)) - 1
      BY <1>2, <1>3, <2>1, OneLess
  <2>4. o \in alive => hcount'[o] = Cardinality(Holders(o)') + Cardinality(Closers(o)')
      BY <1>2, <2>1, <2>2, <2>3 DEF NamedAt, NamesInOrder
  <2>5. o \in alive /\ name[o] # None => o \in registry
      BY <1>2 DEF NamedAt, NamesInOrder
  <2> QED
      BY <2>4, <2>5 DEF NamedAt
<1>8. {o} \in SUBSET Obj
    BY <1>2
<1> QED
    BY <1>3, <1>4, <1>5, <1>7, <1>8, NamedTouch

LEMMA NamedCount ==
  ASSUME WOInv, NamesInOrder, NEW t \in Thread, ReleaseCount(t) PROVE NamesInOrder'
<1> USE DEF WOInv
<1>0. PICK o : o = cur[t]
    OBVIOUS
<1>1. /\ pc[t] = "r_dec" /\ hcount' = [hcount EXCEPT ![o] = @ - 1]
      /\ UNCHANGED <<cur, want, source, hobj, alive, refs, name, registry>>
    BY <1>0 DEF ReleaseCount, callVars
<1>2. PICK l \in {"r_unname", "r_deref"} :
        pc' = [pc EXCEPT ![t] = l] /\ (l = "r_unname" => hcount[o] = 1)
    BY <1>0 DEF ReleaseCount, Goto
<1>3. o \in Obj /\ t \in Closers(o) /\ o \in alive
  <2>1. o \in Obj /\ t \in Closers(o) /\ t \in Users(o)
      BY <1>0, <1>1 DEF CurrentOK, HoldsRef, Closers, Users, Releasing
  <2> QED
      BY <2>1 DEF RefAt
<1>4. \A p : Holders(p)' = Holders(p)
    BY <1>1 DEF Holders
<1>5. \A u \in Thread : pc'[u] = IF u = t THEN l ELSE pc[u]
    BY <1>2 DEF WOTypes
<1>6. Touches(t, {o})
  <2>1. \A p \in Obj \ {o} : hcount'[p] = hcount[p]
      BY <1>1 DEF WOTypes
  <2>2. \A p \in Obj \ {o} : Users(p)' = Users(p) /\ Closers(p)' = Closers(p)
      BY <1>0, <1>1, <1>5 DEF Users, Closers
  <2> QED
      BY <1>1, <1>4, <1>5, <2>1, <2>2 DEF Touches
<1>7. Closers(o)' = Closers(o) \ {t}
    BY <1>1, <1>5 DEF Closers, Releasing
<1>8. /\ IsFiniteSet(Closers(o)) /\ Cardinality(Closers(o)) \in Nat
      /\ IsFiniteSet(Holders(o)) /\ Cardinality(Holders(o)) \in Nat
      /\ Cardinality(Closers(o)') \in Nat
  <2>1. IsFiniteSet(Closers(o)')
      BY <1>7, ObjectSetsFinite, FS_Subset
  <2> QED
      BY <2>1, ObjectSetsFinite, FS_CardinalityType
<1>9. Cardinality(Closers(o)') = Cardinality(Closers(o)) - 1
    BY <1>3, <1>7, <1>8, OneLess
<1>10. hcount'[o] = hcount[o] - 1 /\ hcount[o] \in Int
    BY <1>1, <1>3 DEF WOTypes
<1>11. hcount[o] = Cardinality(Holders(o)) + Cardinality(Closers(o))
    BY <1>3 DEF NamedAt, NamesInOrder
<1>12. NamedAt(o)'
  <2>1. hcount'[o] = Cardinality(Holders(o)') + Cardinality(Closers(o)')
      BY <1>4, <1>8, <1>9, <1>10, <1>11
  <2>2. GetsHandle(o)' => GetsHandle(o)
      BY <1>1, <1>5 DEF GetsHandle
  <2> QED
      BY <1>1, <1>3, <1>4, <2>1, <2>2 DEF NamedAt, NamesInOrder
<1>13. pc'[t] = "r_unname" => Holders(cur[t])' = {}
  <2>1. ASSUME l = "r_unname" PROVE Holders(o) = {}
    <3>1. Cardinality(Holders(o)) = 0
        BY <1>2, <1>8, <1>9, <1>11, <2>1
    <3> QED
        BY <1>8, <3>1, FS_EmptySet
  <2> QED
      BY <1>0, <1>1, <1>5, <2>1 DEF Holders
<1>14. ChangingNames(t) /\ {o} \in SUBSET Obj /\ \A u \in Thread : source'[u] = None
    BY <1>1, <1>3 DEF NamesInOrder, ChangingNames
<1>15. pc'[t] # "handle" /\ pc'[t] # "d_close"
    BY <1>5
<1> QED
    BY <1>6, <1>12, <1>13, <1>14, <1>15, NamedTouch

LEMMA NamedUnname ==
  ASSUME WOInv, NamesInOrder, NEW t \in Thread, ReleaseName(t) PROVE NamesInOrder'
<1> USE DEF WOInv
<1>0. PICK o : o = cur[t]
    OBVIOUS
<1>1. /\ pc[t] = "r_unname" /\ pc' = [pc EXCEPT ![t] = "r_deref"]
      /\ registry' = registry \ {o}
      /\ UNCHANGED <<cur, want, source, hobj, alive, refs, hcount, name>>
    BY <1>0 DEF ReleaseName, Goto, callVars
<1>2. o \in Obj /\ Holders(o) = {}
    BY <1>0, <1>1 DEF CurrentOK, HoldsRef, NamesInOrder
<1>3. \A p : Holders(p)' = Holders(p)
    BY <1>1 DEF Holders
<1>4. \A u \in Thread : pc'[u] = IF u = t THEN "r_deref" ELSE pc[u]
    BY <1>1 DEF WOTypes
<1>5. Touches(t, {o})
  <2>1. cur' = [cur EXCEPT ![t] = o]
      BY <1>0, <1>1 DEF WOTypes
  <2> QED
      BY <1>0, <1>1, <1>3, <2>1, TouchesOwn
<1>6. Closers(o)' = Closers(o)
    BY <1>1, <1>4 DEF Closers, Releasing
<1>7. ~ GetsHandle(o)'
  <2>1. \A u \in Thread : pc[u] = "handle" => u = t
      BY <1>1 DEF NamesInOrder, OneAfterTheOther, ChangingNames
  <2> QED
      BY <1>1, <1>4, <2>1 DEF GetsHandle
<1>8. NamedAt(o)'
    BY <1>1, <1>2, <1>3, <1>6, <1>7 DEF NamedAt, NamesInOrder
<1>9. ChangingNames(t) /\ {o} \in SUBSET Obj /\ \A u \in Thread : source'[u] = None
    BY <1>1, <1>2 DEF NamesInOrder, ChangingNames
<1>10. pc'[t] = "r_deref"
    BY <1>4
<1> QED
    BY <1>5, <1>8, <1>9, <1>10, NamedTouch

LEMMA NamedDereference ==
  ASSUME WOInv, NamesInOrder, NEW t \in Thread, Dereference(t) PROVE NamesInOrder'
<1> USE DEF WOInv
<1>0. PICK o : o = cur[t]
    OBVIOUS
<1>1. /\ pc[t] = "r_deref" /\ refs' = [refs EXCEPT ![o] = @ - 1]
      /\ pc' = [pc EXCEPT ![t] = "idle"] /\ cur' = [cur EXCEPT ![t] = None]
      /\ want' = [want EXCEPT ![t] = None] /\ source' = [source EXCEPT ![t] = None]
      /\ UNCHANGED <<hobj, registry>>
    BY <1>0 DEF Dereference, Return, Goto
<1>2. \/ /\ alive' = alive \ {o} /\ name' = [name EXCEPT ![o] = None]
         /\ hcount' = [hcount EXCEPT ![o] = 0]
      \/ UNCHANGED <<alive, name, hcount>>
    BY <1>0 DEF Dereference, Free
<1>3. o \in Obj
    BY <1>0, <1>1 DEF CurrentOK, HoldsRef
<1>4. \A p : Holders(p)' = Holders(p)
    BY <1>1 DEF Holders
<1>5. \A u \in Thread : /\ pc'[u] = IF u = t THEN "idle" ELSE pc[u]
                        /\ cur'[u] = IF u = t THEN None ELSE cur[u]
                        /\ source'[u] = None
                        /\ u # t => want'[u] = want[u]
    BY <1>1 DEF WOTypes, NamesInOrder
<1>6. Touches(t, {o})
  <2>1. \A p \in Obj \ {o} : /\ refs'[p] = refs[p] /\ hcount'[p] = hcount[p]
                             /\ name'[p] = name[p] /\ (p \in alive' <=> p \in alive)
      BY <1>1, <1>2 DEF WOTypes
  <2>2. \A p \in Obj \ {o} : Users(p)' = Users(p) /\ Closers(p)' = Closers(p)
      BY <1>0, <1>5 DEF Users, Closers, HoldsRef, Releasing
  <2> QED
      BY <1>1, <1>4, <1>5, <2>1, <2>2 DEF Touches
<1>7. Closers(o)' = Closers(o)
    BY <1>1, <1>5 DEF Closers, Releasing
<1>8. GetsHandle(o)' => GetsHandle(o)
    BY <1>5 DEF GetsHandle
<1>9. NamedAt(o)'
  <2>1. CASE alive' = alive \ {o}
      BY <2>1 DEF NamedAt
  <2>2. CASE UNCHANGED <<alive, name, hcount>>
      BY <1>1, <1>3, <1>4, <1>7, <1>8, <2>2 DEF NamedAt, NamesInOrder
  <2> QED
      BY <1>2, <2>1, <2>2
<1>10. {o} \in SUBSET Obj /\ pc'[t] = "idle" /\ ~ ChangingNames(t)'
    BY <1>3, <1>5 DEF ChangingNames
<1> QED
    BY <1>4, <1>5, <1>6, <1>9, <1>10, NamedTouch

LEMMA NamedStep == WOInv /\ NamedInv /\ [Next]_vars => NamedInv'
<1> SUFFICES ASSUME WOInv, NamedInv, [Next]_vars, ~ strained' PROVE NamesInOrder'
    BY DEF NamedInv
<1>0. NamesInOrder
  <2>1. strained => strained'
      BY DEF Next, vars, life, FindExisting, CreateNew, ChangesNames, CreateAlloc,
             CreateAllocFails, CreateInsert, CreateLost, HandleMade, HandleFails, CloseHandle,
             ReleaseCount, ReleaseName, Dereference, Duplicate, DuplicateClose, UseHandle,
             Acquire, TimesOut, ReleaseMutant, TerminateHandles
  <2> QED
      BY <2>1 DEF NamedInv
<1>1. ASSUME NEW t \in Thread, NEW h \in Handle, CloseHandle(t, h) PROVE NamesInOrder'
  <2>1. /\ h \in Open /\ Take(t, h) /\ pc[t] = "idle"
        /\ UNCHANGED <<want, source, alive, refs, hcount, name, registry>>
      BY <1>1 DEF CloseHandle, Ready, objVars
  <2>2. \A u \in Thread \ {t} : ~ ChangingNames(u)
      BY <1>1 DEF CloseHandle, ChangesNames, ChangingNames
  <2> QED
      BY <1>0, <2>1, <2>2, NamedTake
<1>2. CASE UNCHANGED <<pc, callVars, hobj, objVars>>
  <2>1. \A o : Holders(o)' = Holders(o) /\ Closers(o)' = Closers(o)
               /\ (GetsHandle(o)' <=> GetsHandle(o))
      BY <1>2 DEF callVars, Holders, Closers, GetsHandle
  <2>2. \A o \in Obj : NamedAt(o)'
      BY <1>0, <1>2, <2>1 DEF callVars, objVars, NamedAt, NamesInOrder
  <2>3. OneAfterTheOther'
      BY <1>0, <1>2 DEF OneAfterTheOther, ChangingNames, NamesInOrder
  <2>4. \A t \in Thread : pc'[t] = "r_unname" => Holders(cur[t])' = {}
      BY <1>0, <1>2 DEF NamesInOrder, Holders, callVars
  <2>5. \A t \in Thread : source'[t] = None /\ pc'[t] # "d_close"
      BY <1>0, <1>2 DEF NamesInOrder, callVars
  <2> QED
      BY <2>2, <2>3, <2>4, <2>5 DEF NamesInOrder
<1>3. ASSUME NEW t \in Thread, TerminateHandles(t) PROVE NamesInOrder'
  <2>1. CASE Open = {}
    <3>1. UNCHANGED <<pc, callVars, hobj, objVars>>
        BY <1>3, <2>1 DEF TerminateHandles, callVars
    <3> QED
        BY <1>2, <3>1
  <2>2. CASE Open # {}
    <3>1. PICK h \in Open : Take(t, h)
        BY <1>3, <2>2 DEF TerminateHandles
    <3>2. /\ \A u \in Thread : pc[u] = "idle"
          /\ UNCHANGED <<want, source, alive, refs, hcount, name, registry>>
        BY <1>3 DEF TerminateHandles, objVars
    <3>3. \A u \in Thread \ {t} : ~ ChangingNames(u)
        BY <3>2 DEF ChangingNames
    <3> QED
        BY <1>0, <3>1, <3>2, <3>3, NamedTake
  <2> QED
      BY <2>1, <2>2
<1>4. ASSUME NEW t \in Thread, NEW h \in Handle, NEW c \in BOOLEAN PROVE ~ Duplicate(t, h, c)
    BY DEF Duplicate
<1>5. ASSUME NEW t \in Thread PROVE ~ DuplicateClose(t)
    BY <1>0 DEF DuplicateClose, NamesInOrder
<1>6. CASE UNCHANGED vars
    BY <1>2, <1>6 DEF vars
<1> QED
    BY <1>0, <1>1, <1>3, <1>4, <1>5, <1>6, NamedFind, NamedCreateNew, NamedAlloc, NamedMoves,
       NamedInsert, NamedLost, NamedHandle, NamedCount, NamedUnname, NamedDereference, NamedUse
       DEF Next

(* As long as no handle is duplicated and the calls that change the       *)
(* registry come one after the other, LdkCreateMutantHandle and            *)
(* LdkOpenMutantHandle find the mutex of a name for as long as a handle to *)
(* it is open: LdkpReleaseWaitObjectHandleReference takes no name away     *)
(* early and leaves none behind for a second object.                       *)
THEOREM NamesKept == Spec => []NameKept
<1>1. Init => NamedInv
  <2> SUFFICES ASSUME Init PROVE NamesInOrder
      BY DEF NamedInv
  <2>1. \A t \in Thread : pc[t] = "idle" /\ source[t] = None
      BY DEF Init
  <2>2. alive = {}
      BY DEF Init
  <2> QED
      BY <2>1, <2>2 DEF NamesInOrder, OneAfterTheOther, ChangingNames, NamedAt
<1>2. WOInv /\ NamedInv => NameKept
  <2> SUFFICES ASSUME WOInv, NamesInOrder, NEW h \in Open, name[hobj[h]] # None
               PROVE  Find(name[hobj[h]]) = {hobj[h]}
      BY DEF NameKept, NamedInv
  <2>1. PICK o : o = hobj[h]
      OBVIOUS
  <2>2. o \in Obj /\ h \in Holders(o)
      BY <2>1 DEF WOInv, WOTypes, Open, Holders
  <2>3. o \in alive
      BY <2>2 DEF WOInv, RefAt
  <2>4. o \in registry
      BY <2>1, <2>2, <2>3 DEF NamesInOrder, NamedAt
  <2> QED
      BY <2>1, <2>4 DEF Find, WOInv, RegistryOK
<1> QED
    BY <1>1, <1>2, NamedStep, WOInvariance, PTL DEF Spec

-----------------------------------------------------------------------------
(* The environment.  The sums of the strings satisfy their recursion, which *)
(* is shown by the least length at which they would not; then equal strings *)
(* add equal amounts wherever they stand, and an edit only moves strings.   *)

SumsOf(f, b, n) ==
  /\ f \in [0..n -> Nat]
  /\ f[0] = 1
  /\ \A k \in 1..n : f[k] = f[k - 1] + Cells(b[k])

LEMMA CellsType == \A v \in Variable : Cells(v) \in Nat
<1>1. \A v \in Variable : v.value \in 0..MaxLength
    BY DEF Variable, Length
<1> QED
    BY <1>1, EnvironmentAssumption DEF Cells, NameCells

LEMMA SumsExist ==
  ASSUME NEW b \in Seq(Variable)
  PROVE  \E f : SumsOf(f, b, Len(b))
<1> DEFINE Bad == {n \in Nat : n <= Len(b) /\ ~\E f : SumsOf(f, b, n)}
<1>0. Len(b) \in Nat /\ \A k \in 1..Len(b) : b[k] \in Variable
    OBVIOUS
<1>1. SUFFICES ASSUME Bad # {} PROVE FALSE
    BY <1>0
<1>2. PICK n \in Bad : \A m \in Bad : n <= m
    BY <1>1, Least
<1>3. n \in Nat /\ n <= Len(b) /\ ~\E f : SumsOf(f, b, n)
    BY <1>2
<1>4. n # 0
  <2>1. SumsOf([k \in 0..0 |-> 1], b, 0)
      BY DEF SumsOf
  <2> QED
      BY <2>1, <1>3
<1>5. n - 1 \in Nat /\ n - 1 <= Len(b) /\ ~(n <= n - 1)
    BY <1>0, <1>3, <1>4
<1>6. PICK f : SumsOf(f, b, n - 1)
    BY <1>2, <1>5
<1> DEFINE g == [k \in 0..n |-> IF k = n THEN f[n - 1] + Cells(b[n]) ELSE f[k]]
<1>7. n \in 1..Len(b) /\ Cells(b[n]) \in Nat
    BY <1>0, <1>3, <1>4, CellsType
<1>8. f \in [0..(n - 1) -> Nat] /\ f[0] = 1
    BY <1>6 DEF SumsOf
<1>9. \A k \in 1..(n - 1) : f[k] = f[k - 1] + Cells(b[k])
    BY <1>6 DEF SumsOf
<1>10. g \in [0..n -> Nat]
  <2>1. \A k \in 0..n : k # n => k \in 0..(n - 1)
      BY <1>3
  <2>2. n - 1 \in 0..(n - 1)
      BY <1>5
  <2>3. f[n - 1] + Cells(b[n]) \in Nat
      BY <2>2, <1>7, <1>8
  <2> QED
      BY <2>1, <2>3, <1>8
<1>11. g[0] = 1
    BY <1>3, <1>4, <1>8
<1>12. ASSUME NEW k \in 1..n PROVE g[k] = g[k - 1] + Cells(b[k])
  <2>1. k \in 0..n /\ k - 1 \in 0..n /\ k - 1 # n
      BY <1>3
  <2>2. g[k - 1] = f[k - 1]
      BY <2>1
  <2>3. CASE k = n
      BY <2>1, <2>2, <2>3
  <2>4. CASE k # n
    <3>1. k \in 1..(n - 1)
        BY <2>4, <1>3
    <3> QED
        BY <3>1, <2>1, <2>2, <2>4, <1>9
  <2> QED
      BY <2>3, <2>4
<1> HIDE DEF g
<1>13. SumsOf(g, b, n)
    BY <1>10, <1>11, <1>12 DEF SumsOf
<1> QED
    BY <1>3, <1>13

LEMMA SumsHold == ASSUME NEW b \in Seq(Variable) PROVE SumsOf(BlockSums(b), b, Len(b))
<1> DEFINE F(f) == [n \in 0..Len(b) |-> IF n = 0 THEN 1 ELSE f[n - 1] + Cells(b[n])]
           S == BlockSums(b)
<1>0. Len(b) \in Nat
    OBVIOUS
<1>1. PICK f : SumsOf(f, b, Len(b))
    BY SumsExist
<1>2. f = F(f)
  <2>1. f \in [0..Len(b) -> Nat] /\ f[0] = 1
      BY <1>1 DEF SumsOf
  <2>2. \A k \in 1..Len(b) : f[k] = f[k - 1] + Cells(b[k])
      BY <1>1 DEF SumsOf
  <2>3. \A k \in 0..Len(b) : k # 0 => k \in 1..Len(b)
      BY <1>0
  <2>4. \A k \in 0..Len(b) : f[k] = F(f)[k]
      BY <2>1, <2>2, <2>3
  <2> QED
      BY <2>1, <2>4
<1>3. S = F(S)
    BY <1>2 DEF BlockSums
<1> HIDE DEF S
<1>4. S[0] = 1 /\ DOMAIN S = 0..Len(b) /\ S = [n \in 0..Len(b) |-> S[n]]
    BY <1>0, <1>3
<1>5. \A k \in 1..Len(b) : S[k] = S[k - 1] + Cells(b[k])
  <2>1. \A k \in 1..Len(b) : k \in 0..Len(b) /\ k # 0
      BY <1>0
  <2> QED
      BY <2>1, <1>3
<1>6. S \in [0..Len(b) -> Nat]
  <2> DEFINE Bad == {n \in Nat : n <= Len(b) /\ S[n] \notin Nat}
  <2>1. SUFFICES ASSUME Bad # {} PROVE FALSE
    <3>1. SUFFICES \A n \in 0..Len(b) : S[n] \in Nat
        BY <3>1, <1>4
    <3> QED
        BY <2>1, <1>0
  <2>2. PICK n \in Bad : \A m \in Bad : n <= m
      BY <2>1, Least
  <2>3. n # 0 /\ n \in Nat /\ n <= Len(b) /\ S[n] \notin Nat
      BY <2>2, <1>4
  <2>4. n \in 1..Len(b) /\ n - 1 \in Nat /\ n - 1 <= Len(b) /\ ~(n <= n - 1)
      BY <2>3, <1>0
  <2>5. S[n - 1] \in Nat
      BY <2>2, <2>4
  <2>6. b[n] \in Variable
      BY <2>4
  <2>7. S[n] = S[n - 1] + Cells(b[n]) /\ Cells(b[n]) \in Nat
      BY <2>4, <2>6, <1>5, CellsType
  <2> QED
      BY <2>3, <2>5, <2>7
<1> QED
    BY <1>4, <1>5, <1>6 DEF SumsOf, S

(* Equal stretches of strings have equal sums.                             *)
SameStretch(b, i, c, j, k) ==
  /\ i + k <= Len(b) /\ j + k <= Len(c)
  /\ \A n \in 1..k : b[i + n] = c[j + n]

LEMMA SumsShift ==
  ASSUME NEW b \in Seq(Variable), NEW c \in Seq(Variable),
         NEW i \in Nat, NEW j \in Nat, NEW k \in Nat,
         SameStretch(b, i, c, j, k)
  PROVE  BlockSums(b)[i + k] - BlockSums(b)[i] = BlockSums(c)[j + k] - BlockSums(c)[j]
<1> DEFINE S == BlockSums(b)
           T == BlockSums(c)
           Bad == {n \in Nat : n <= k /\ S[i + n] - S[i] # T[j + n] - T[j]}
<1>0. /\ Len(b) \in Nat /\ Len(c) \in Nat
      /\ i + k <= Len(b) /\ j + k <= Len(c)
      /\ \A n \in 1..k : b[i + n] = c[j + n]
    BY DEF SameStretch
<1>1. /\ S \in [0..Len(b) -> Nat] /\ \A n \in 1..Len(b) : S[n] = S[n - 1] + Cells(b[n])
      /\ T \in [0..Len(c) -> Nat] /\ \A n \in 1..Len(c) : T[n] = T[n - 1] + Cells(c[n])
    BY SumsHold DEF SumsOf
<1> HIDE DEF S, T
<1>2. SUFFICES ASSUME Bad # {} PROVE FALSE
  <2>1. Bad = {} => k \notin Bad
      OBVIOUS
  <2>2. k \notin Bad => S[i + k] - S[i] = T[j + k] - T[j]
      OBVIOUS
  <2> QED
      BY <2>1, <2>2 DEF S, T
<1>3. PICK n \in Bad : \A m \in Bad : n <= m
    BY <1>2, Least
<1>4. n \in Nat /\ n <= k /\ S[i + n] - S[i] # T[j + n] - T[j]
    BY <1>3
<1>5. S[i] \in Nat /\ T[j] \in Nat
  <2>1. i \in 0..Len(b) /\ j \in 0..Len(c)
      BY <1>0
  <2> QED
      BY <2>1, <1>1
<1>6. n # 0
  <2>1. S[i + 0] - S[i] = 0 /\ T[j + 0] - T[j] = 0
      BY <1>5
  <2> QED
      BY <2>1, <1>4
<1>7. n - 1 \in Nat /\ n - 1 <= k /\ ~(n <= n - 1) /\ n \in 1..k
    BY <1>4, <1>6
<1>8. S[i + (n - 1)] - S[i] = T[j + (n - 1)] - T[j]
    BY <1>3, <1>7
<1>9. /\ i + n \in 1..Len(b) /\ j + n \in 1..Len(c)
      /\ i + (n - 1) \in 0..Len(b) /\ j + (n - 1) \in 0..Len(c)
      /\ (i + n) - 1 = i + (n - 1) /\ (j + n) - 1 = j + (n - 1)
    BY <1>0, <1>7
<1>10. b[i + n] = c[j + n] /\ b[i + n] \in Variable
    BY <1>0, <1>7, <1>9
<1>11. /\ S[i + n] = S[i + (n - 1)] + Cells(b[i + n])
       /\ T[j + n] = T[j + (n - 1)] + Cells(b[i + n])
  <2>1. S[i + n] = S[(i + n) - 1] + Cells(b[i + n]) /\ T[j + n] = T[(j + n) - 1] + Cells(c[j + n])
      BY <1>1, <1>9
  <2> QED
      BY <2>1, <1>9, <1>10
<1>12. S[i + (n - 1)] \in Nat /\ T[j + (n - 1)] \in Nat /\ Cells(b[i + n]) \in Nat
    BY <1>1, <1>9, <1>10, CellsType
<1> DEFINE s == S[i + (n - 1)]
           u == T[j + (n - 1)]
           x == Cells(b[i + n])
           p == S[i]
           q == T[j]
<1>13. s \in Nat /\ u \in Nat /\ x \in Nat /\ p \in Nat /\ q \in Nat /\ s - p = u - q
    BY <1>5, <1>8, <1>12
<1>14. S[i + n] = s + x /\ T[j + n] = u + x /\ S[i + n] - p # T[j + n] - q
    BY <1>4, <1>11
<1> HIDE DEF s, u, x, p, q
<1>15. (s + x) - p # (u + x) - q
    BY <1>14
<1> QED
    BY <1>13, <1>15

-----------------------------------------------------------------------------
(* An edit: the strings before s, the new ones, and those from e on.       *)
Edited(b, new, s, e) == SubSeq(b, 1, s - 1) \o new \o SubSeq(b, e, Len(b))

CutAndJoined(b, new, s, e, c) ==
  /\ c \in Seq(Variable)
  /\ Len(c) = (s - 1) + Len(new) + ((Len(b) + 1) - e)
  /\ \A k \in 1..(s - 1) : c[k] = b[k]
  /\ \A k \in 1..Len(new) : c[(s - 1) + k] = new[k]
  /\ \A k \in 1..((Len(b) + 1) - e) : c[((s - 1) + Len(new)) + k] = b[(e - 1) + k]

LEMMA JoinedIs ==
  ASSUME NEW S, NEW a \in Seq(S), NEW b \in Seq(S)
  PROVE  /\ a \o b \in Seq(S) /\ Len(a \o b) = Len(a) + Len(b)
         /\ \A k \in 1..(Len(a) + Len(b)) :
              (a \o b)[k] = IF k <= Len(a) THEN a[k] ELSE b[k - Len(a)]
OBVIOUS

LEMMA EditPoints ==
  ASSUME NEW b \in Seq(Variable), NEW new \in Seq(Variable),
         NEW s \in 1..(Len(b) + 1), NEW e \in s..(Len(b) + 1), NEW c,
         c = Edited(b, new, s, e)
  PROVE  CutAndJoined(b, new, s, e, c)
<1> DEFINE head == SubSeq(b, 1, s - 1)
           tail == SubSeq(b, e, Len(b))
           m == Len(new)
           z == Len(b)
<1>1. z \in Nat /\ m \in Nat /\ s \in Nat /\ e \in Nat /\ 1 <= s /\ s <= e /\ e <= z + 1
    OBVIOUS
<1>2. /\ head \in Seq(Variable) /\ Len(head) = s - 1
      /\ \A k \in 1..(s - 1) : head[k] = b[k]
  <2>1. \A k \in 1..(s - 1) : k \in 1..Len(b)
      BY <1>1
  <2> QED
      BY <2>1, <1>1
<1>3. /\ tail \in Seq(Variable) /\ Len(tail) = (z + 1) - e
      /\ \A k \in 1..((z + 1) - e) : tail[k] = b[(e - 1) + k]
  <2>1. \A k \in e..Len(b) : k \in 1..Len(b)
      BY <1>1
  <2>2. tail = [k \in 1..((z + 1) - e) |-> b[(e + k) - 1]]
      BY <1>1
  <2>3. \A k \in 1..((z + 1) - e) : (e + k) - 1 = (e - 1) + k /\ (e - 1) + k \in 1..Len(b)
      BY <1>1
  <2>4. \A k \in 1..((z + 1) - e) : tail[k] = b[(e - 1) + k]
      BY <2>2, <2>3
  <2>5. tail \in [1..((z + 1) - e) -> Variable]
      BY <2>2, <2>3
  <2>6. (z + 1) - e \in Nat
      BY <1>1
  <2> QED
      BY <2>4, <2>5, <2>6
<1> HIDE DEF head, tail
<1>4. c = (head \o new) \o tail
    BY DEF head, tail, Edited
<1> DEFINE front == head \o new
<1>5. /\ front \in Seq(Variable) /\ Len(front) = (s - 1) + m
      /\ \A k \in 1..(s - 1) : front[k] = b[k]
      /\ \A k \in 1..m : front[(s - 1) + k] = new[k]
  <2>1. /\ front \in Seq(Variable) /\ Len(front) = Len(head) + Len(new)
        /\ \A k \in 1..(Len(head) + Len(new)) :
             front[k] = IF k <= Len(head) THEN head[k] ELSE new[k - Len(head)]
      BY <1>2, JoinedIs
  <2> HIDE DEF front
  <2>3. ASSUME NEW k \in 1..(s - 1) PROVE front[k] = b[k]
    <3>1. k \in 1..(Len(head) + Len(new)) /\ k <= Len(head)
        BY <1>1, <1>2
    <3> QED
        BY <3>1, <2>1, <1>2
  <2>4. ASSUME NEW k \in 1..m PROVE front[(s - 1) + k] = new[k]
    <3> DEFINE x == (s - 1) + k
    <3>1. x \in 1..(Len(head) + Len(new)) /\ ~(x <= Len(head)) /\ x - Len(head) = k
        BY <1>1, <1>2
    <3> HIDE DEF x
    <3>2. front[x] = new[x - Len(head)]
        BY <3>1, <2>1, Zenon
    <3>3. front[x] = new[k]
        BY <3>1, <3>2, Zenon
    <3> QED
        BY <3>3 DEF x
  <2> QED
      BY <2>1, <2>3, <2>4, <1>2
<1> HIDE DEF front
<1>6. c = front \o tail
    BY <1>4 DEF front
<1>7. /\ c \in Seq(Variable) /\ Len(c) = Len(front) + Len(tail)
      /\ \A k \in 1..(Len(front) + Len(tail)) :
           c[k] = IF k <= Len(front) THEN front[k] ELSE tail[k - Len(front)]
  <2>1. front \in Seq(Variable) /\ tail \in Seq(Variable)
      BY <1>3, <1>5
  <2> QED
      BY <2>1, <1>6, JoinedIs, Zenon
<1>9. ASSUME NEW k \in 1..((s - 1) + m) PROVE c[k] = front[k]
  <2>1. k \in 1..(Len(front) + Len(tail)) /\ k <= Len(front)
      BY <1>1, <1>3, <1>5
  <2> QED
      BY <2>1, <1>7
<1>10. ASSUME NEW k \in 1..((z + 1) - e) PROVE c[((s - 1) + m) + k] = tail[k]
  <2>1. /\ ((s - 1) + m) + k \in 1..(Len(front) + Len(tail))
        /\ ~(((s - 1) + m) + k <= Len(front)) /\ (((s - 1) + m) + k) - Len(front) = k
      BY <1>1, <1>3, <1>5
  <2> QED
      BY <2>1, <1>7
<1>11. \A k \in 1..(s - 1) : k \in 1..((s - 1) + m)
    BY <1>1
<1>12. \A k \in 1..m : (s - 1) + k \in 1..((s - 1) + m)
    BY <1>1
<1>13. \A k \in 1..(s - 1) : c[k] = b[k]
    BY <1>5, <1>9, <1>11
<1>14. \A k \in 1..m : c[(s - 1) + k] = new[k]
    BY <1>5, <1>9, <1>12
<1>15. \A k \in 1..((z + 1) - e) : c[((s - 1) + m) + k] = b[(e - 1) + k]
    BY <1>3, <1>10
<1>16. Len(c) = (s - 1) + m + ((z + 1) - e)
    BY <1>3, <1>5, <1>7
<1> QED
    BY <1>7, <1>13, <1>14, <1>15, <1>16 DEF CutAndJoined

(* An edit changes the size of the block by what it adds and removes.      *)
LEMMA EditCells ==
  ASSUME NEW b \in Seq(Variable), NEW new \in Seq(Variable),
         NEW s \in 1..(Len(b) + 1), NEW e \in s..(Len(b) + 1), NEW c,
         CutAndJoined(b, new, s, e, c)
  PROVE  BlockCells(c) = (BlockCells(b) - (BlockSums(b)[e - 1] - BlockSums(b)[s - 1]))
                         + (BlockCells(new) - 1)
<1> DEFINE S == BlockSums(b)
           T == BlockSums(c)
           N == BlockSums(new)
           z == Len(b)
           m == Len(new)
           r == (z + 1) - e
<1>1. /\ z \in Nat /\ m \in Nat /\ s \in Nat /\ e \in Nat /\ 1 <= s /\ s <= e /\ e <= z + 1
      /\ s - 1 \in Nat /\ e - 1 \in Nat /\ r \in Nat /\ (s - 1) + m \in Nat
    OBVIOUS
<1>2. /\ c \in Seq(Variable) /\ Len(c) = (s - 1) + m + r
      /\ \A k \in 1..(s - 1) : c[k] = b[k]
      /\ \A k \in 1..m : c[(s - 1) + k] = new[k]
      /\ \A k \in 1..r : c[((s - 1) + m) + k] = b[(e - 1) + k]
    BY Zenon DEF CutAndJoined
<1>3. /\ S \in [0..z -> Nat] /\ S[0] = 1 /\ N \in [0..m -> Nat] /\ N[0] = 1
      /\ T \in [0..Len(c) -> Nat] /\ T[0] = 1
    BY <1>2, SumsHold DEF SumsOf
<1>0. Len(c) = (s - 1) + m + r
    BY <1>2
<1> HIDE DEF S, T, N
<1>4. T[0 + (s - 1)] - T[0] = S[0 + (s - 1)] - S[0]
  <2>1. SameStretch(c, 0, b, 0, s - 1)
    <3>1. 0 + (s - 1) <= Len(c) /\ 0 + (s - 1) <= Len(b)
        BY <1>1, <1>0
    <3>2. \A k \in 1..(s - 1) : 0 + k = k
        BY <1>1
    <3>3. \A k \in 1..(s - 1) : c[0 + k] = b[0 + k]
        BY <3>2, <1>2, Zenon
    <3> QED
        BY <3>1, <3>3, Zenon DEF SameStretch
  <2>2. 0 \in Nat /\ s - 1 \in Nat /\ c \in Seq(Variable)
      BY <1>1, <1>2
  <2> QED
      BY <2>1, <2>2, SumsShift DEF S, T
<1>5. T[(s - 1) + m] - T[s - 1] = N[0 + m] - N[0]
  <2>1. SameStretch(c, s - 1, new, 0, m)
    <3>1. (s - 1) + m <= Len(c) /\ 0 + m <= Len(new)
        BY <1>1, <1>0
    <3>2. \A k \in 1..m : 0 + k = k
        BY <1>1
    <3>3. \A k \in 1..m : c[(s - 1) + k] = new[0 + k]
        BY <3>2, <1>2, Zenon
    <3> QED
        BY <3>1, <3>3, Zenon DEF SameStretch
  <2>2. 0 \in Nat /\ s - 1 \in Nat /\ m \in Nat /\ c \in Seq(Variable)
      BY <1>1, <1>2
  <2> QED
      BY <2>1, <2>2, SumsShift DEF N, T
<1>6. T[((s - 1) + m) + r] - T[(s - 1) + m] = S[(e - 1) + r] - S[e - 1]
  <2>1. SameStretch(c, (s - 1) + m, b, e - 1, r)
    <3>1. ((s - 1) + m) + r <= Len(c) /\ (e - 1) + r <= Len(b)
        BY <1>1, <1>0
    <3> QED
        BY <3>1, <1>2, Zenon DEF SameStretch
  <2>2. (s - 1) + m \in Nat /\ e - 1 \in Nat /\ r \in Nat /\ c \in Seq(Variable)
      BY <1>1, <1>2
  <2> QED
      BY <2>1, <2>2, SumsShift DEF S, T
<1>7. /\ 0 + (s - 1) = s - 1 /\ 0 + m = m /\ (e - 1) + r = z
      /\ ((s - 1) + m) + r = Len(c)
    BY <1>1, <1>0
<1>8. /\ T[s - 1] - 1 = S[s - 1] - 1 /\ T[(s - 1) + m] - T[s - 1] = N[m] - 1
      /\ T[Len(c)] - T[(s - 1) + m] = S[z] - S[e - 1]
    BY <1>3, <1>4, <1>5, <1>6, <1>7
<1>9. /\ T[s - 1] \in Nat /\ T[(s - 1) + m] \in Nat /\ T[Len(c)] \in Nat
      /\ S[s - 1] \in Nat /\ S[e - 1] \in Nat /\ S[z] \in Nat /\ N[m] \in Nat
  <2>1. /\ s - 1 \in 0..z /\ e - 1 \in 0..z /\ z \in 0..z /\ m \in 0..m
        /\ s - 1 \in 0..Len(c) /\ (s - 1) + m \in 0..Len(c) /\ Len(c) \in 0..Len(c)
      BY <1>1, <1>0
  <2> QED
      BY <2>1, <1>3
<1> DEFINE t1 == T[s - 1]
           t2 == T[(s - 1) + m]
           t3 == T[Len(c)]
           s1 == S[s - 1]
           s2 == S[e - 1]
           s3 == S[z]
           n3 == N[m]
<1>10. /\ t1 \in Nat /\ t2 \in Nat /\ t3 \in Nat /\ s1 \in Nat /\ s2 \in Nat /\ s3 \in Nat
       /\ n3 \in Nat /\ t1 - 1 = s1 - 1 /\ t2 - t1 = n3 - 1 /\ t3 - t2 = s3 - s2
    BY <1>8, <1>9
<1>11. BlockCells(c) = t3 /\ BlockCells(b) = s3 /\ BlockCells(new) = n3
    BY DEF BlockCells, S, T, N
<1>12. BlockSums(b)[e - 1] = s2 /\ BlockSums(b)[s - 1] = s1
    BY DEF S
<1> HIDE DEF t1, t2, t3, s1, s2, s3, n3
<1>13. t3 = (s3 - (s2 - s1)) + (n3 - 1)
    BY <1>10
<1> QED
    BY <1>11, <1>12, <1>13

LEMMA ShortBlocks ==
  /\ <<>> \in Seq(Variable) /\ BlockCells(<<>>) = 1
  /\ \A v \in Variable : <<v>> \in Seq(Variable) /\ BlockCells(<<v>>) = 1 + Cells(v)
<1>1. <<>> \in Seq(Variable) /\ Len(<<>>) = 0
    OBVIOUS
<1>2. BlockCells(<<>>) = 1
    BY <1>1, SumsHold DEF SumsOf, BlockCells
<1>3. ASSUME NEW v \in Variable PROVE <<v>> \in Seq(Variable) /\ BlockCells(<<v>>) = 1 + Cells(v)
  <2> DEFINE b == <<v>>
             S == BlockSums(b)
  <2>1. b \in Seq(Variable) /\ Len(b) = 1 /\ b[1] = v
      OBVIOUS
  <2> HIDE DEF b
  <2>2. S[0] = 1 /\ \A k \in 1..Len(b) : S[k] = S[k - 1] + Cells(b[k])
      BY <2>1, SumsHold DEF SumsOf
  <2> HIDE DEF S
  <2>3. S[1] = S[1 - 1] + Cells(b[1])
      BY <2>1, <2>2
  <2>4. BlockCells(b) = 1 + Cells(v)
      BY <2>1, <2>2, <2>3 DEF BlockCells, S
  <2> QED
      BY <2>1, <2>4 DEF b
<1> QED
    BY <1>1, <1>2, <1>3

-----------------------------------------------------------------------------
(* The strings after an edit, their order and their values.                *)
Ordered(b) == \A j, k \in DOMAIN b : j < k => b[j].name < b[k].name

(* What an edit of n does: c has the strings of b except that of n, and    *)
(* the new ones.                                                           *)
SameOthers(b, new, n, c) ==
  /\ \A k \in DOMAIN b : b[k].name # n => \E x \in DOMAIN c : c[x] = b[k]
  /\ \A x \in DOMAIN c : c[x].name # n => \E k \in DOMAIN b : c[x] = b[k]
  /\ \A x \in DOMAIN c : c[x].name = n => \E k \in DOMAIN new : c[x] = new[k]
  /\ \A k \in DOMAIN new : \E x \in DOMAIN c : c[x] = new[k]

(* The place of an edit: smaller names before it, greater ones after it.   *)
PlaceOf(b, n, s, e) ==
  /\ \A k \in DOMAIN b : k < s => b[k].name < n
  /\ \A k \in DOMAIN b : k >= e => n < b[k].name

LEMMA NamesAreNaturals ==
  ASSUME NEW b \in Seq(Variable), NEW k \in DOMAIN b
  PROVE  b[k] \in Variable /\ b[k].name \in EnvName /\ b[k].name \in Nat
         /\ b[k].value \in Length
<1>1. b[k] \in Variable
    OBVIOUS
<1> QED
    BY <1>1, EnvironmentAssumption DEF Variable

LEMMA EditOrdered ==
  ASSUME NEW b \in Seq(Variable), NEW new \in Seq(Variable), NEW n \in Nat,
         NEW s \in 1..(Len(b) + 1), NEW e \in {s, s + 1}, e <= Len(b) + 1, NEW c,
         CutAndJoined(b, new, s, e, c), Ordered(b), PlaceOf(b, n, s, e),
         e # s => b[s].name = n,
         Len(new) <= 1, \A k \in DOMAIN new : new[k].name = n
  PROVE  Ordered(c) /\ SameOthers(b, new, n, c)
<1> DEFINE z == Len(b)
           m == Len(new)
           r == (z + 1) - e
           Old(x) == (x - ((s - 1) + m)) + (e - 1)
<1>1. /\ z \in Nat /\ m \in Nat /\ s \in Nat /\ e \in Nat /\ 1 <= s /\ s <= e /\ e <= z + 1
      /\ m <= 1 /\ r \in Nat /\ DOMAIN b = 1..z /\ DOMAIN new = 1..m
  <2>1. Len(new) \in Nat /\ Len(b) \in Nat /\ DOMAIN b = 1..z /\ DOMAIN new = 1..m
      OBVIOUS
  <2> QED
      BY <2>1
<1>2. /\ c \in Seq(Variable) /\ Len(c) = (s - 1) + m + r
      /\ \A k \in 1..(s - 1) : c[k] = b[k]
      /\ \A k \in 1..m : c[(s - 1) + k] = new[k]
      /\ \A k \in 1..r : c[((s - 1) + m) + k] = b[(e - 1) + k]
    BY Zenon DEF CutAndJoined
<1>3. DOMAIN c = 1..((s - 1) + m + r)
    BY <1>2
<1>4. ASSUME NEW x \in DOMAIN c, x < s
      PROVE  x \in DOMAIN b /\ c[x] = b[x] /\ c[x].name < n
  <2>1. x \in 1..(s - 1) /\ x \in DOMAIN b
      BY <1>1, <1>3, <1>4
  <2>2. c[x] = b[x]
      BY <2>1, <1>2, Zenon
  <2> QED
      BY <2>1, <2>2, <1>4 DEF PlaceOf
<1>5. ASSUME NEW x \in DOMAIN c, s <= x, x < s + m
      PROVE  x = s /\ m = 1 /\ c[x] = new[1] /\ c[x].name = n
  <2>1. x = s /\ m = 1 /\ 1 \in 1..m /\ (s - 1) + 1 = s
      BY <1>1, <1>3, <1>5
  <2>2. c[(s - 1) + 1] = new[1] /\ new[1].name = n
      BY <2>1, <1>1, <1>2
  <2> QED
      BY <2>1, <2>2
<1>6. ASSUME NEW x \in DOMAIN c, s + m <= x
      PROVE  Old(x) \in DOMAIN b /\ e <= Old(x) /\ c[x] = b[Old(x)] /\ n < c[x].name
  <2> DEFINE k == x - ((s - 1) + m)
  <2>1. k \in 1..r /\ ((s - 1) + m) + k = x /\ (e - 1) + k = Old(x)
      BY <1>1, <1>3, <1>6
  <2>2. Old(x) \in DOMAIN b /\ e <= Old(x)
      BY <1>1, <1>3, <1>6
  <2> HIDE DEF k
  <2>3. c[((s - 1) + m) + k] = b[(e - 1) + k]
      BY <2>1, <1>2, Zenon
  <2>4. c[x] = b[Old(x)]
      BY <2>1, <2>3, Zenon
  <2> HIDE DEF Old
  <2>5. n < b[Old(x)].name
      BY <2>2, <1>1 DEF PlaceOf
  <2> QED
      BY <2>2, <2>4, <2>5
<1>7. \A x \in DOMAIN c : x \in Nat /\ (x < s \/ (s <= x /\ x < s + m) \/ s + m <= x)
    BY <1>1, <1>3
<1>8. \A x, y \in Nat : x < y => Old(x) < Old(y)
    BY <1>1
<1>9. \A x \in DOMAIN c : c[x].name \in Nat
    BY <1>2, NamesAreNaturals
<1>10. Ordered(c)
  <2>1. SUFFICES ASSUME NEW x \in DOMAIN c, NEW y \in DOMAIN c, x < y
                 PROVE  c[x].name < c[y].name
      BY DEF Ordered
  <2> HIDE DEF Old, m
  <2>2. /\ x \in Nat /\ y \in Nat /\ s \in Nat /\ m \in Nat
        /\ c[x].name \in Nat /\ c[y].name \in Nat
      BY <1>1, <1>7, <1>9
  <2>3. CASE x < s
    <3>1. CASE y < s
        BY <3>1, <2>1, <2>3, <1>4 DEF Ordered
    <3>2. CASE s <= y /\ y < s + m
        BY <3>2, <2>3, <1>4, <1>5
    <3>3. CASE s + m <= y
      <4>1. c[x].name < n /\ n < c[y].name
          BY <3>3, <2>3, <1>4, <1>6
      <4> QED
          BY <4>1, <2>2
    <3> QED
        BY <3>1, <3>2, <3>3, <1>7
  <2>4. CASE s <= x /\ x < s + m
    <3>1. x = s /\ m = 1 /\ c[x].name = n
        BY <2>4, <1>5
    <3>2. s + m <= y
        BY <3>1, <2>1, <2>2
    <3> QED
        BY <3>1, <3>2, <1>6
  <2>5. CASE s + m <= x
    <3>1. s + m <= y
        BY <2>1, <2>2, <2>5
    <3>2. /\ Old(x) \in DOMAIN b /\ c[x] = b[Old(x)]
          /\ Old(y) \in DOMAIN b /\ c[y] = b[Old(y)]
        BY <3>1, <2>5, <1>6
    <3>3. Old(x) < Old(y)
        BY <2>1, <2>2, <1>8
    <3> QED
        BY <3>2, <3>3 DEF Ordered
  <2> QED
      BY <2>3, <2>4, <2>5, <1>7
<1>11. \A x \in DOMAIN c : c[x].name # n => \E k \in DOMAIN b : c[x] = b[k]
  <2> HIDE DEF Old, m
  <2> QED
      BY <1>4, <1>5, <1>6, <1>7
<1>12. \A x \in DOMAIN c : c[x].name = n => \E k \in DOMAIN new : c[x] = new[k]
  <2>1. SUFFICES ASSUME NEW x \in DOMAIN c, c[x].name = n
                 PROVE  \E k \in DOMAIN new : c[x] = new[k]
      OBVIOUS
  <2>2. ~(n < n)
      OBVIOUS
  <2> HIDE DEF Old, m
  <2>3. s <= x /\ x < s + m
      BY <2>1, <2>2, <1>4, <1>6, <1>7
  <2>4. m = 1 /\ c[x] = new[1]
      BY <2>3, <1>5
  <2>5. 1 \in DOMAIN new
      BY <2>4, <1>1
  <2> QED
      BY <2>4, <2>5
<1>13. \A k \in DOMAIN new : \E x \in DOMAIN c : c[x] = new[k]
  <2>1. ASSUME NEW k \in 1..m PROVE (s - 1) + k \in DOMAIN c
      BY <1>1, <1>3
  <2> QED
      BY <2>1, <1>1, <1>2
<1>14. ASSUME NEW k \in DOMAIN b, b[k].name # n PROVE \E x \in DOMAIN c : c[x] = b[k]
  <2>1. k \in 1..z
      BY <1>1
  <2>2. CASE k < s
    <3>1. k \in 1..(s - 1) /\ k \in DOMAIN c
        BY <2>1, <2>2, <1>1, <1>3
    <3>2. c[k] = b[k]
        BY <3>1, <1>2, Zenon
    <3> QED
        BY <3>1, <3>2
  <2>3. CASE k >= e
    <3> DEFINE j == k - (e - 1)
               x == ((s - 1) + m) + j
    <3>1. j \in 1..r /\ (e - 1) + j = k /\ x \in DOMAIN c
        BY <2>1, <2>3, <1>1, <1>3
    <3> HIDE DEF j
    <3>2. c[x] = b[(e - 1) + j]
        BY <3>1, <1>2, Zenon
    <3> QED
        BY <3>1, <3>2
  <2>4. CASE ~(k < s) /\ ~(k >= e)
    <3>1. k = s /\ e # s
        BY <2>1, <2>4, <1>1
    <3> QED
        BY <3>1, <1>14
  <2> QED
      BY <2>2, <2>3, <2>4
<1> QED
    BY <1>10, <1>11, <1>12, <1>13, <1>14 DEF SameOthers

(* Where RtlSetEnvironmentVariable cuts the block.                         *)
LEMMA EditPlace ==
  ASSUME EnvTypeOK, Ordered(env), NEW n \in EnvName
  PROVE  /\ EditStart(n) \in 1..(Len(env) + 1) /\ EditEnd(n) \in {EditStart(n), EditStart(n) + 1}
         /\ EditEnd(n) <= Len(env) + 1
         /\ PlaceOf(env, n, EditStart(n), EditEnd(n))
         /\ Places(env, n) = {} <=> EditEnd(n) = EditStart(n)
         /\ Places(env, n) # {} => EditStart(n) \in DOMAIN env /\ env[EditStart(n)].name = n
<1> DEFINE s == EditStart(n)
           e == EditEnd(n)
           z == Len(env)
<1>1. /\ env \in Seq(Variable) /\ z \in Nat /\ DOMAIN env = 1..z /\ n \in Nat
      /\ \A k \in DOMAIN env : k \in Nat /\ env[k].name \in Nat
    BY EnvironmentAssumption, NamesAreNaturals DEF EnvTypeOK
<1>2. CASE Places(env, n) # {}
  <2>1. s \in Places(env, n) /\ e = s + 1
      BY <1>2 DEF EditStart, EditEnd
  <2>2. s \in DOMAIN env /\ env[s].name = n
      BY <2>1 DEF Places
  <2> HIDE DEF s, e
  <2>3. s \in 1..(z + 1) /\ e <= z + 1 /\ e # s
      BY <2>1, <2>2, <1>1
  <2>4. PlaceOf(env, n, s, e)
    <3>1. ASSUME NEW k \in DOMAIN env, k < s PROVE env[k].name < n
        BY <3>1, <2>2 DEF Ordered
    <3>2. ASSUME NEW k \in DOMAIN env, k >= e PROVE n < env[k].name
      <4>1. s < k
          BY <3>2, <2>1, <2>2, <1>1
      <4> QED
          BY <4>1, <2>2 DEF Ordered
    <3> QED
        BY <3>1, <3>2 DEF PlaceOf
  <2> QED
      BY <1>2, <2>1, <2>2, <2>3, <2>4 DEF s, e
<1>3. CASE Places(env, n) = {}
  <2> DEFINE after == {k \in DOMAIN env : n < env[k].name}
  <2>1. s = InsertBefore(n) /\ e = s
      BY <1>3 DEF EditStart, EditEnd
  <2>2. \A k \in DOMAIN env : env[k].name # n
      BY <1>3 DEF Places
  <2>3. \A k \in DOMAIN env : k \notin after => env[k].name < n
      BY <2>2, <1>1
  <2>4. CASE after = {}
    <3>1. s = z + 1
        BY <2>1, <2>4 DEF InsertBefore
    <3> HIDE DEF s, e
    <3>2. s \in 1..(z + 1) /\ e <= z + 1
        BY <3>1, <2>1, <1>1
    <3>3. \A k \in DOMAIN env : env[k].name < n /\ ~(k >= e)
        BY <3>1, <2>1, <2>3, <2>4, <1>1
    <3> QED
        BY <3>2, <3>3, <2>1, <1>3 DEF PlaceOf, s, e
  <2>5. CASE after # {}
    <3>1. \E k \in after : \A j \in after : k <= j
      <4>1. after \in SUBSET Nat
          BY <1>1
      <4> QED
          BY <4>1, <2>5, Least
    <3>2. s \in after /\ \A j \in after : s <= j
        BY <3>1, <2>1, <2>5 DEF InsertBefore
    <3> HIDE DEF s, e
    <3>3. s \in DOMAIN env /\ n < env[s].name /\ s \in 1..(z + 1) /\ e <= z + 1
        BY <3>2, <2>1, <1>1
    <3>4. ASSUME NEW k \in DOMAIN env, k < s PROVE env[k].name < n
        BY <3>2, <3>4, <2>3, <3>3, <1>1
    <3>5. ASSUME NEW k \in DOMAIN env, k >= e PROVE n < env[k].name
      <4>1. CASE k = s
          BY <4>1, <3>3
      <4>2. CASE s < k
        <5>1. env[s].name < env[k].name
            BY <4>2, <3>3 DEF Ordered
        <5> QED
            BY <5>1, <3>3, <1>1
      <4> QED
          BY <4>1, <4>2, <3>3, <3>5, <2>1, <1>1
    <3> QED
        BY <3>3, <3>4, <3>5, <2>1, <1>3 DEF PlaceOf, s, e
  <2> QED
      BY <2>4, <2>5
<1> QED
    BY <1>2, <1>3

LEMMA ValueIs ==
  ASSUME NEW b \in Seq(Variable), Ordered(b)
  PROVE  /\ \A k \in DOMAIN b : Value(b, b[k].name) = b[k].value
         /\ \A n : Value(b, n) \in Length \cup {Absent}
         /\ \A n : Value(b, n) # Absent => \E k \in DOMAIN b : b[k].name = n
<1>1. ASSUME NEW k \in DOMAIN b, NEW n, NEW j \in Places(b, n), b[k].name = n
      PROVE  j = k
  <2>1. j \in DOMAIN b /\ b[j].name = n /\ j \in Nat /\ k \in Nat
      BY DEF Places
  <2>2. b[k].name \in Nat /\ b[j].name \in Nat
      BY <2>1, NamesAreNaturals
  <2>3. ~(j < k) /\ ~(k < j)
      BY <2>1, <2>2, <1>1 DEF Ordered
  <2> QED
      BY <2>1, <2>3
<1>2. ASSUME NEW k \in DOMAIN b PROVE Value(b, b[k].name) = b[k].value
  <2> DEFINE n == b[k].name
  <2>1. k \in Places(b, n)
      BY DEF Places
  <2>2. (CHOOSE j \in Places(b, n) : TRUE) = k
      BY <2>1, <1>1
  <2> QED
      BY <2>1, <2>2 DEF Value
<1>3. ASSUME NEW n PROVE Value(b, n) \in Length \cup {Absent}
  <2>1. CASE Places(b, n) = {}
      BY <2>1 DEF Value
  <2>2. CASE Places(b, n) # {}
    <3> DEFINE j == CHOOSE k \in Places(b, n) : TRUE
    <3>1. j \in DOMAIN b
        BY <2>2 DEF Places
    <3>2. b[j].value \in Length
        BY <3>1, NamesAreNaturals
    <3> QED
        BY <2>2, <3>2 DEF Value
  <2> QED
      BY <2>1, <2>2
<1>4. ASSUME NEW n, Value(b, n) # Absent PROVE \E k \in DOMAIN b : b[k].name = n
    BY <1>4 DEF Value, Places
<1> QED
    BY <1>2, <1>3, <1>4

(* The value of a variable is that of the string with its name, or Absent. *)
LEMMA ValueOf ==
  ASSUME NEW b \in Seq(Variable), NEW n, \A k \in DOMAIN b : b[k].name # n
  PROVE  Value(b, n) = Absent
BY DEF Value, Places

LEMMA EditValues ==
  ASSUME NEW b \in Seq(Variable), NEW c \in Seq(Variable), NEW new \in Seq(Variable), NEW n,
         Ordered(b), Ordered(c), SameOthers(b, new, n, c)
  PROVE  /\ \A m : m # n => Value(c, m) = Value(b, m)
         /\ DOMAIN new = {} => Value(c, n) = Absent
         /\ \A k \in DOMAIN new : new[k].name = n => Value(c, n) = new[k].value
<1>1. ASSUME NEW m, m # n PROVE Value(c, m) = Value(b, m)
  <2>1. CASE \E k \in DOMAIN b : b[k].name = m
    <3>1. PICK k \in DOMAIN b : b[k].name = m
        BY <2>1
    <3>2. PICK x \in DOMAIN c : c[x] = b[k]
        BY <3>1, <1>1 DEF SameOthers
    <3>3. Value(b, m) = b[k].value
        BY <3>1, ValueIs
    <3>4. Value(c, m) = c[x].value
        BY <3>1, <3>2, ValueIs
    <3> QED
        BY <3>2, <3>3, <3>4
  <2>2. CASE \A k \in DOMAIN b : b[k].name # m
    <3>1. \A x \in DOMAIN c : c[x].name # m
        BY <2>2, <1>1 DEF SameOthers
    <3> QED
        BY <2>2, <3>1, ValueOf
  <2> QED
      BY <2>1, <2>2
<1>2. ASSUME DOMAIN new = {} PROVE Value(c, n) = Absent
  <2>1. \A x \in DOMAIN c : c[x].name # n
      BY <1>2 DEF SameOthers
  <2> QED
      BY <2>1, ValueOf
<1>3. ASSUME NEW k \in DOMAIN new, new[k].name = n PROVE Value(c, n) = new[k].value
  <2>1. PICK x \in DOMAIN c : c[x] = new[k]
      BY DEF SameOthers
  <2>2. Value(c, c[x].name) = c[x].value
      BY ValueIs
  <2> QED
      BY <2>1, <2>2, <1>3
<1> QED
    BY <1>1, <1>2, <1>3

-----------------------------------------------------------------------------
(* What a reader that asks again knows: the variable has had the value it  *)
(* has now, and the one whose size it asked for.                           *)
SizeAsked ==
  \A t \in EnvUser : envAt[t] = "size" =>
    /\ Value(env, asked[t]) \in during[t]
    /\ room[t] - 1 \in during[t] /\ room[t] - 1 \in Nat

EnvInv == EnvTypeOK /\ EnvironmentBlockExact /\ SizeAsked /\ EnvironmentReadHolds

LEMMA EnvBlock ==
  ASSUME EnvInv
  PROVE  /\ env \in Seq(Variable) /\ Ordered(env) /\ envCells = BlockCells(env)
         /\ \A n : Value(env, n) \in Length \cup {Absent}
<1>1. env \in Seq(Variable) /\ Ordered(env) /\ envCells = BlockCells(env)
    BY DEF EnvInv, EnvTypeOK, EnvironmentBlockExact, Ordered
<1> QED
    BY <1>1, ValueIs

(* The block after RtlSetEnvironmentVariable.                              *)
LEMMA EditBlock ==
  ASSUME EnvInv, NEW n \in EnvName, NEW v \in Length \cup {Absent},
         RtlSetEnvironmentVariable(n, v)
  PROVE  /\ env' \in Seq(Variable) /\ Ordered(env') /\ envCells' = BlockCells(env')
         /\ envCells' \in Nat
         /\ Value(env', n) = v /\ \A m : m # n => Value(env', m) = Value(env, m)
<1> DEFINE s == EditStart(n)
           e == EditEnd(n)
           z == Len(env)
           S == BlockSums(env)
           new == IF v = Absent THEN <<>> ELSE <<[name |-> n, value |-> v]>>
           removed == IF Places(env, n) = {} THEN 0 ELSE Cells(env[EditStart(n)])
           added == IF v = Absent THEN 0 ELSE Cells(new[1])
<1>1. /\ env \in Seq(Variable) /\ Ordered(env) /\ envCells = BlockCells(env)
      /\ z \in Nat /\ DOMAIN env = 1..z /\ n \in Nat /\ EnvTypeOK
    BY EnvBlock, EnvironmentAssumption DEF EnvInv
<1>2. /\ s \in 1..(z + 1) /\ e \in {s, s + 1} /\ e <= z + 1 /\ PlaceOf(env, n, s, e)
      /\ Places(env, n) = {} <=> e = s
      /\ Places(env, n) # {} => s \in DOMAIN env /\ env[s].name = n
    BY <1>1, EditPlace
<1>3. env' = Edited(env, new, s, e) /\ envCells' = (envCells - removed) + added
    BY DEF RtlSetEnvironmentVariable, Edited
<1>4. /\ new \in Seq(Variable) /\ Len(new) <= 1 /\ \A k \in DOMAIN new : new[k].name = n
      /\ BlockCells(new) - 1 = added /\ added \in Nat
      /\ v = Absent => DOMAIN new = {}
      /\ v # Absent => 1 \in DOMAIN new /\ new[1].name = n /\ new[1].value = v
  <2>1. CASE v = Absent
    <3>1. new = <<>> /\ added = 0
        BY <2>1
    <3> HIDE DEF new, added
    <3>2. Len(<<>>) = 0 /\ DOMAIN <<>> = {}
        OBVIOUS
    <3> QED
        BY <3>1, <3>2, <2>1, ShortBlocks
  <2>2. CASE v # Absent
    <3> DEFINE w == [name |-> n, value |-> v]
    <3>1. w \in Variable /\ w.name = n /\ w.value = v
        BY <2>2 DEF Variable
    <3>2. new = <<w>> /\ added = Cells(new[1])
        BY <2>2
    <3> HIDE DEF new, added, w
    <3>3. Len(<<w>>) = 1 /\ DOMAIN <<w>> = {1} /\ <<w>>[1] = w
        OBVIOUS
    <3>4. BlockCells(new) = 1 + Cells(w) /\ new \in Seq(Variable) /\ Cells(w) \in Nat
        BY <3>1, <3>2, ShortBlocks, CellsType
    <3>5. added = Cells(w)
        BY <3>2, <3>3
    <3>6. BlockCells(new) - 1 = added
        BY <3>4, <3>5
    <3> QED
        BY <3>1, <3>2, <3>3, <3>4, <3>5, <3>6, <2>2
  <2> QED
      BY <2>1, <2>2
<1> HIDE DEF s, e, new, added
<1>5. e \in s..(z + 1) /\ s \in Nat
    BY <1>1, <1>2
<1>6. CutAndJoined(env, new, s, e, env')
    BY <1>1, <1>2, <1>3, <1>4, <1>5, EditPoints
<1>7. Ordered(env') /\ SameOthers(env, new, n, env')
  <2>1. e # s => env[s].name = n
      BY <1>2
  <2> QED
      BY <2>1, <1>1, <1>2, <1>4, <1>6, EditOrdered
<1>8. env' \in Seq(Variable)
    BY <1>6 DEF CutAndJoined
<1>9. BlockCells(env') = (BlockCells(env) - (S[e - 1] - S[s - 1])) + (BlockCells(new) - 1)
    BY <1>1, <1>2, <1>4, <1>5, <1>6, EditCells
<1>10. /\ S \in [0..z -> Nat] /\ \A k \in 1..z : S[k] = S[k - 1] + Cells(env[k])
    BY <1>1, SumsHold DEF SumsOf
<1>11. S[e - 1] - S[s - 1] = removed
  <2>1. s - 1 \in 0..z
      BY <1>1, <1>2
  <2>2. S[s - 1] \in Nat
      BY <2>1, <1>10
  <2> HIDE DEF S
  <2>3. CASE Places(env, n) = {}
      BY <2>2, <2>3, <1>2
  <2>4. CASE Places(env, n) # {}
    <3>1. e = s + 1 /\ s \in 1..z /\ e - 1 = s
        BY <2>4, <1>1, <1>2, <1>5
    <3>2. env[s] \in Variable
        BY <3>1, <1>1
    <3>3. S[s] = S[s - 1] + Cells(env[s]) /\ Cells(env[s]) \in Nat
        BY <3>1, <3>2, <1>10, CellsType
    <3>4. removed = Cells(env[s])
        BY <2>4 DEF s
    <3> QED
        BY <3>1, <3>3, <3>4, <2>2
  <2> QED
      BY <2>3, <2>4
<1>12. envCells' = BlockCells(env')
    BY <1>1, <1>3, <1>4, <1>9, <1>11
<1>13. envCells' \in Nat
  <2>1. BlockSums(env') \in [0..Len(env') -> Nat] /\ Len(env') \in Nat
      BY <1>8, SumsHold DEF SumsOf
  <2>2. Len(env') \in 0..Len(env')
      BY <2>1
  <2> QED
      BY <2>1, <2>2, <1>12 DEF BlockCells
<1>14. Value(env', n) = v /\ \A m : m # n => Value(env', m) = Value(env, m)
  <2>1. /\ \A m : m # n => Value(env', m) = Value(env, m)
        /\ DOMAIN new = {} => Value(env', n) = Absent
        /\ \A k \in DOMAIN new : new[k].name = n => Value(env', n) = new[k].value
      BY <1>1, <1>4, <1>7, <1>8, EditValues
  <2> QED
      BY <2>1, <1>4
<1> QED
    BY <1>7, <1>8, <1>12, <1>13, <1>14

LEMMA EditStep ==
  ASSUME EnvInv, NEW n \in EnvName, NEW v \in Length \cup {Absent},
         RtlSetEnvironmentVariable(n, v)
  PROVE  EnvInv'
<1>1. /\ env' \in Seq(Variable) /\ Ordered(env') /\ envCells' = BlockCells(env')
      /\ envCells' \in Nat
      /\ Value(env', n) = v /\ \A m : m # n => Value(env', m) = Value(env, m)
    BY EditBlock
<1>2. /\ UNCHANGED <<envAt, asked, room, answer>>
      /\ during' = [t \in EnvUser |->
           IF envAt[t] = "size" /\ asked[t] = n THEN during[t] \cup {v} ELSE during[t]]
    BY DEF RtlSetEnvironmentVariable, Witnessed
<1>3. /\ envAt \in [EnvUser -> {"idle", "size"}]
      /\ asked \in [EnvUser -> EnvName] /\ room \in [EnvUser -> Nat]
      /\ answer \in [EnvUser -> [kind : {"value", "size", "failed", "zero"}, length : Nat]]
      /\ during \in [EnvUser -> SUBSET (Length \cup {Absent})]
    BY DEF EnvInv, EnvTypeOK
<1>4. /\ during' \in [EnvUser -> SUBSET (Length \cup {Absent})]
      /\ \A t \in EnvUser : during[t] \subseteq during'[t]
      /\ \A t \in EnvUser : envAt[t] = "size" /\ asked[t] = n => v \in during'[t]
      /\ \A t \in EnvUser : envAt[t] = "idle" => during'[t] = during[t]
    BY <1>2, <1>3
<1>5. EnvTypeOK'
    BY <1>1, <1>2, <1>3, <1>4 DEF EnvTypeOK
<1>6. EnvironmentBlockExact'
    BY <1>1 DEF EnvironmentBlockExact, Ordered
<1>7. SizeAsked'
  <2>1. ASSUME NEW t \in EnvUser, envAt'[t] = "size"
        PROVE  /\ Value(env', asked'[t]) \in during'[t]
               /\ room'[t] - 1 \in during'[t] /\ room'[t] - 1 \in Nat
    <3>1. envAt[t] = "size" /\ asked'[t] = asked[t] /\ room'[t] = room[t]
        BY <2>1, <1>2
    <3>2. Value(env, asked[t]) \in during[t] /\ room[t] - 1 \in during[t] /\ room[t] - 1 \in Nat
        BY <3>1 DEF EnvInv, SizeAsked
    <3>3. CASE asked[t] = n
        BY <3>1, <3>2, <3>3, <1>1, <1>4
    <3>4. CASE asked[t] # n
        BY <3>1, <3>2, <3>4, <1>1, <1>4
    <3> QED
        BY <3>3, <3>4
  <2> QED
      BY <2>1 DEF SizeAsked
<1>8. EnvironmentReadHolds'
  <2>1. \A t \in EnvUser : envAt'[t] = "idle" => during'[t] = during[t]
      BY <1>2, <1>4
  <2>2. EnvironmentReadHolds /\ envAt' = envAt /\ answer' = answer
      BY <1>2 DEF EnvInv
  <2> QED
      BY <2>1, <2>2 DEF EnvironmentReadHolds
<1> QED
    BY <1>5, <1>6, <1>7, <1>8 DEF EnvInv

LEMMA FirstQueryStep ==
  ASSUME EnvInv, NEW t \in EnvUser, NEW n \in EnvName, NEW size \in 0..(MaxLength + 1),
         FirstQuery(t, n, size)
  PROVE  EnvInv'
<1> DEFINE value == Value(env, n)
<1>1. /\ envAt \in [EnvUser -> {"idle", "size"}]
      /\ asked \in [EnvUser -> EnvName] /\ room \in [EnvUser -> Nat]
      /\ answer \in [EnvUser -> [kind : {"value", "size", "failed", "zero"}, length : Nat]]
      /\ during \in [EnvUser -> SUBSET (Length \cup {Absent})]
      /\ env \in Seq(Variable) /\ envCells \in Nat
    BY DEF EnvInv, EnvTypeOK
<1>2. UNCHANGED <<env, envCells>> /\ envAt[t] = "idle"
    BY DEF FirstQuery
<1>3. value \in Length \cup {Absent} /\ (value # Absent => value \in Nat)
    BY EnvBlock, EnvironmentAssumption DEF Length
<1> HIDE DEF value
<1>4. /\ asked' = [asked EXCEPT ![t] = n] /\ during' = [during EXCEPT ![t] = {value}]
      /\ \/ /\ value # Absent /\ UNCHANGED room
            /\ answer' = [answer EXCEPT ![t] = [kind |-> "value", length |-> value]]
            /\ envAt' = [envAt EXCEPT ![t] = "idle"]
         \/ /\ UNCHANGED room
            /\ answer' = [answer EXCEPT ![t] = [kind |-> "failed", length |-> 0]]
            /\ envAt' = [envAt EXCEPT ![t] = "idle"]
         \/ /\ value # Absent /\ room' = [room EXCEPT ![t] = value + 1]
            /\ envAt' = [envAt EXCEPT ![t] = "size"] /\ UNCHANGED answer
    BY DEF FirstQuery, Answers, Fits, value
<1>5. EnvTypeOK'
  <2>1. /\ asked' \in [EnvUser -> EnvName]
        /\ during' \in [EnvUser -> SUBSET (Length \cup {Absent})]
      BY <1>1, <1>3, <1>4
  <2>2. envAt' \in [EnvUser -> {"idle", "size"}]
      BY <1>1, <1>4
  <2>3. room' \in [EnvUser -> Nat]
      BY <1>1, <1>3, <1>4
  <2>4. answer' \in [EnvUser -> [kind : {"value", "size", "failed", "zero"}, length : Nat]]
      BY <1>1, <1>3, <1>4
  <2> QED
      BY <2>1, <2>2, <2>3, <2>4, <1>1, <1>2 DEF EnvTypeOK
<1>6. EnvironmentBlockExact'
    BY <1>2 DEF EnvInv, EnvironmentBlockExact
<1>7. \A u \in EnvUser \ {t} :
        /\ asked'[u] = asked[u] /\ during'[u] = during[u] /\ envAt'[u] = envAt[u]
        /\ room'[u] = room[u] /\ answer'[u] = answer[u]
    BY <1>1, <1>4
<1>8. /\ asked'[t] = n /\ during'[t] = {value}
      /\ \/ envAt'[t] = "idle" /\ answer'[t].kind = "value" /\ answer'[t].length = value
         \/ envAt'[t] = "idle" /\ answer'[t].kind = "failed"
         \/ envAt'[t] = "size" /\ room'[t] = value + 1 /\ value \in Nat
    BY <1>1, <1>3, <1>4
<1>9. SizeAsked'
  <2>1. ASSUME NEW u \in EnvUser, envAt'[u] = "size"
        PROVE  /\ Value(env', asked'[u]) \in during'[u]
               /\ room'[u] - 1 \in during'[u] /\ room'[u] - 1 \in Nat
    <3>1. CASE u = t
      <4>1. room'[t] = value + 1 /\ value \in Nat
          BY <3>1, <2>1, <1>8
      <4>2. room'[t] - 1 = value
          BY <4>1
      <4>3. Value(env', asked'[t]) = value
          BY <1>2, <1>8 DEF value
      <4> QED
          BY <4>1, <4>2, <4>3, <3>1, <1>8
    <3>2. CASE u # t
        BY <3>2, <2>1, <1>2, <1>7 DEF EnvInv, SizeAsked
    <3> QED
        BY <3>1, <3>2
  <2> QED
      BY <2>1 DEF SizeAsked
<1>10. EnvironmentReadHolds'
  <2>1. ASSUME NEW u \in EnvUser \ {t}, envAt'[u] = "idle"
        PROVE  envAt[u] = "idle" /\ answer'[u] = answer[u] /\ during'[u] = during[u]
      BY <2>1, <1>7
  <2>2. EnvironmentReadHolds
      BY DEF EnvInv
  <2> QED
      BY <2>1, <2>2, <1>8 DEF EnvironmentReadHolds
<1> QED
    BY <1>5, <1>6, <1>9, <1>10 DEF EnvInv

(* A thread answers and nothing else changes.                              *)
LEMMA AnswerStep ==
  ASSUME EnvInv, NEW t \in EnvUser, envAt[t] = "size",
         NEW kind \in {"size", "failed", "zero"}, NEW length \in Nat,
         Answers(t, kind, length), UNCHANGED <<env, envCells, asked, room, during>>,
         kind = "size" => length - 1 \in during[t],
         kind = "zero" => \E v, w \in during[t] : v # w
  PROVE  EnvInv'
<1>1. /\ envAt \in [EnvUser -> {"idle", "size"}]
      /\ answer \in [EnvUser -> [kind : {"value", "size", "failed", "zero"}, length : Nat]]
    BY DEF EnvInv, EnvTypeOK
<1>2. /\ answer' = [answer EXCEPT ![t] = [kind |-> kind, length |-> length]]
      /\ envAt' = [envAt EXCEPT ![t] = "idle"]
    BY DEF Answers
<1>3. EnvTypeOK'
  <2>1. answer' \in [EnvUser -> [kind : {"value", "size", "failed", "zero"}, length : Nat]]
      BY <1>1, <1>2
  <2>2. envAt' \in [EnvUser -> {"idle", "size"}]
      BY <1>1, <1>2
  <2> QED
      BY <2>1, <2>2 DEF EnvInv, EnvTypeOK
<1>4. EnvironmentBlockExact'
    BY DEF EnvInv, EnvironmentBlockExact
<1>5. /\ \A u \in EnvUser \ {t} : envAt'[u] = envAt[u] /\ answer'[u] = answer[u]
      /\ envAt'[t] = "idle" /\ answer'[t].kind = kind /\ answer'[t].length = length
    BY <1>1, <1>2
<1>6. SizeAsked'
  <2>1. ASSUME NEW u \in EnvUser, envAt'[u] = "size" PROVE envAt[u] = "size"
      BY <2>1, <1>5
  <2> QED
      BY <2>1 DEF EnvInv, SizeAsked
<1>7. EnvironmentReadHolds'
  <2>1. ASSUME NEW u \in EnvUser \ {t}, envAt'[u] = "idle"
        PROVE  envAt[u] = "idle" /\ answer'[u] = answer[u] /\ during'[u] = during[u]
      BY <2>1, <1>5
  <2>2. EnvironmentReadHolds /\ during' = during
      BY DEF EnvInv
  <2> QED
      BY <2>1, <2>2, <1>5 DEF EnvironmentReadHolds
<1> QED
    BY <1>3, <1>4, <1>6, <1>7 DEF EnvInv

LEMMA SecondQueryStep ==
  ASSUME EnvInv, NEW t \in EnvUser, SecondQuery(t) \/ ReAllocateFails(t)
  PROVE  EnvInv'
<1> DEFINE value == Value(env, asked[t])
<1>1. envAt[t] = "size" /\ UNCHANGED <<env, envCells, asked, room, during>>
    BY DEF SecondQuery, ReAllocateFails
<1>2. value \in during[t] /\ room[t] - 1 \in during[t] /\ room[t] - 1 \in Nat
    BY <1>1 DEF EnvInv, SizeAsked
<1>3. value = Absent \/ value \in Nat
    BY EnvBlock, EnvironmentAssumption DEF Length
<1>4. room[t] \in Nat
    BY DEF EnvInv, EnvTypeOK
<1> HIDE DEF value
<1>5. CASE Answers(t, "failed", 0)
    BY <1>1, <1>5, AnswerStep
<1>6. CASE Fits(value, room[t]) /\ Answers(t, "size", value + 1)
  <2>1. value \in Nat
      BY <1>3, <1>6 DEF Fits
  <2>2. (value + 1) - 1 \in during[t] /\ value + 1 \in Nat
      BY <2>1, <1>2
  <2> QED
      BY <2>2, <1>1, <1>6, AnswerStep
<1>7. CASE ~Fits(value, room[t]) /\ Answers(t, "zero", 0)
  <2>1. value # room[t] - 1
    <3>1. Absent \notin Nat
        BY DEF Absent
    <3> QED
        BY <3>1, <1>2, <1>3, <1>4, <1>7 DEF Fits
  <2>2. \E v, w \in during[t] : v # w
      BY <2>1, <1>2
  <2> QED
      BY <2>2, <1>1, <1>7, AnswerStep
<1> QED
    BY <1>5, <1>6, <1>7 DEF SecondQuery, ReAllocateFails, value

LEMMA EnvStart == EnvInit => EnvInv
<1> SUFFICES ASSUME EnvInit PROVE EnvInv
    OBVIOUS
<1> DEFINE first == CHOOSE n \in EnvName : TRUE
           w == [name |-> first, value |-> 0]
<1>1. first \in EnvName /\ 0 \in Length
    BY EnvironmentAssumption DEF Length
<1>2. w \in Variable
    BY <1>1 DEF Variable
<1>3. /\ env = <<w>> /\ envCells = BlockCells(env)
      /\ envAt = [t \in EnvUser |-> "idle"]
      /\ asked = [t \in EnvUser |-> first]
      /\ room = [t \in EnvUser |-> 0]
      /\ answer = [t \in EnvUser |-> [kind |-> "value", length |-> 0]]
      /\ during = [t \in EnvUser |-> {0}]
    BY DEF EnvInit
<1> HIDE DEF first, w
<1>4. env \in Seq(Variable) /\ envCells \in Nat
  <2>1. /\ <<w>> \in Seq(Variable) /\ BlockCells(<<w>>) = 1 + Cells(w) /\ Cells(w) \in Nat
      BY <1>2, ShortBlocks, CellsType
  <2> QED
      BY <2>1, <1>3
<1>5. EnvTypeOK
    BY <1>1, <1>3, <1>4 DEF EnvTypeOK
<1>6. EnvironmentBlockExact
  <2>1. DOMAIN env = {1}
      BY <1>3
  <2> QED
      BY <2>1, <1>3 DEF EnvironmentBlockExact
<1>7. SizeAsked
    BY <1>3 DEF SizeAsked
<1>8. EnvironmentReadHolds
  <2>1. \A t \in EnvUser : answer[t].kind = "value" /\ answer[t].length = 0 /\ 0 \in during[t]
      BY <1>3
  <2> QED
      BY <2>1 DEF EnvironmentReadHolds
<1> QED
    BY <1>5, <1>6, <1>7, <1>8 DEF EnvInv

LEMMA EnvStep == EnvInv /\ [EnvNext]_envVars => EnvInv'
<1> SUFFICES ASSUME EnvInv, [EnvNext]_envVars PROVE EnvInv'
    OBVIOUS
<1>1. ASSUME NEW n \in EnvName, NEW v \in Length \cup {Absent}, RtlSetEnvironmentVariable(n, v)
      PROVE  EnvInv'
    BY <1>1, EditStep
<1>2. ASSUME NEW t \in EnvUser, NEW n \in EnvName, NEW size \in 0..MaxLength + 1,
             FirstQuery(t, n, size)
      PROVE  EnvInv'
    BY <1>2, FirstQueryStep
<1>3. ASSUME NEW t \in EnvUser, SecondQuery(t) \/ ReAllocateFails(t)
      PROVE  EnvInv'
    BY <1>3, SecondQueryStep
<1>4. CASE UNCHANGED envVars
  <2>1. /\ UNCHANGED <<env, envCells, envAt, asked>>
        /\ UNCHANGED <<room, answer, during>>
      BY <1>4 DEF envVars
  <2>2. EnvTypeOK' /\ EnvironmentBlockExact'
      BY <2>1 DEF EnvInv, EnvTypeOK, EnvironmentBlockExact
  <2>3. SizeAsked' /\ EnvironmentReadHolds'
      BY <2>1 DEF EnvInv, SizeAsked, EnvironmentReadHolds
  <2> QED
      BY <2>2, <2>3 DEF EnvInv
<1> QED
    BY <1>1, <1>2, <1>3, <1>4 DEF EnvNext

(* The environment block stays well-formed and of exactly the size of its  *)
(* strings under every sequence of edits, and GetEnvironmentVariableA      *)
(* answers with a value, or the size of one, that the variable had during  *)
(* the call, or with 0 because the variable changed between the queries.   *)
THEOREM EnvironmentKept == EnvSpec => [](EnvTypeOK /\ EnvironmentExact)
<1>1. EnvInv => EnvTypeOK /\ EnvironmentExact
    BY DEF EnvInv, EnvironmentExact
<1> QED
    BY <1>1, EnvStart, EnvStep, PTL DEF EnvSpec
=============================================================================
