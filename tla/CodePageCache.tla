---------------------------- MODULE CodePageCache ----------------------------
(***************************************************************************)
(* The cache of code page tables, src/src/kernel32/winnls.c.  A conversion *)
(* looks its code page up in a list under the shared lock; on a miss it    *)
(* lets go of the lock, reads the table from its file, and looks again     *)
(* under the exclusive lock before it puts its own entry in the list.      *)
(* The table is used with neither a lock nor a reference: entries are only *)
(* freed by the thread that lost such a race, and when the driver goes.    *)
(*                                                                         *)
(* The two sections under the lock are one step each.  What a file says is *)
(* left out: reading it works or fails.                                    *)
(***************************************************************************)
EXTENDS Naturals, FiniteSets

CONSTANTS
  Converter,   \* threads that convert strings
  Page,        \* code pages
  Entry,       \* blocks of the heap, for LDK_CODE_PAGE_ENTRYs
  NoEntry

ASSUME CodePageAssumption == NoEntry \notin Entry

VARIABLES
  listReady,   \* LdkpCodePageListInitialized
  entries,     \* allocated entries, each with its CodePage
  listed,      \* the entries on LdkpCodePageListHead
  stage,       \* where each thread is in LdkpGetCodePageTable
  wanted,      \* its CodePage
  loadedEntry, \* the entry it has loaded
  table        \* the entry whose table it uses

cpVars == <<listReady, entries, listed, stage, wanted, loadedEntry, table>>

CPInit ==
  /\ listReady = TRUE /\ entries = <<>> /\ listed = {}
  /\ stage = [c \in Converter |-> "idle"]
  /\ wanted \in [Converter -> Page]
  /\ loadedEntry = [c \in Converter |-> NoEntry]
  /\ table = [c \in Converter |-> NoEntry]

LdkpFindCodePageEntryLocked(page) == {e \in listed : entries[e] = page}

LdkpFreeCodePageEntry(e) == entries' = [x \in DOMAIN entries \ {e} |-> entries[x]]

(* The shared section: a hit is used at once.                              *)
LookUp(c, page) ==
  /\ stage[c] = "idle" /\ listReady
  /\ wanted' = [wanted EXCEPT ![c] = page]
  /\ IF LdkpFindCodePageEntryLocked(page) = {}
     THEN stage' = [stage EXCEPT ![c] = "load"] /\ UNCHANGED table
     ELSE /\ \E e \in LdkpFindCodePageEntryLocked(page) : table' = [table EXCEPT ![c] = e]
          /\ stage' = [stage EXCEPT ![c] = "use"]
  /\ UNCHANGED <<listReady, entries, listed, loadedEntry>>

(* No lock is held while the file is read.                                 *)
LdkpLoadCodePageEntry(c) ==
  /\ stage[c] = "load"
  /\ \E e \in Entry \ DOMAIN entries :
       /\ entries' = [x \in DOMAIN entries \cup {e} |-> IF x = e THEN wanted[c] ELSE entries[x]]
       /\ loadedEntry' = [loadedEntry EXCEPT ![c] = e]
  /\ stage' = [stage EXCEPT ![c] = "insert"]
  /\ UNCHANGED <<listReady, listed, wanted, table>>

LoadFails(c) ==
  /\ stage[c] = "load"
  /\ stage' = [stage EXCEPT ![c] = "idle"]
  /\ UNCHANGED <<listReady, entries, listed, wanted, loadedEntry, table>>

(* Fault: the entry goes in without a second look at the list.             *)
InsertBlindly(c) ==
  /\ stage[c] = "insert"
  /\ listed' = listed \cup {loadedEntry[c]}
  /\ table' = [table EXCEPT ![c] = loadedEntry[c]]
  /\ loadedEntry' = [loadedEntry EXCEPT ![c] = NoEntry]
  /\ stage' = [stage EXCEPT ![c] = "use"]
  /\ UNCHANGED <<listReady, entries, wanted>>

(* The exclusive section: another thread may have been faster.             *)
Insert(c) ==
  LET existing == LdkpFindCodePageEntryLocked(wanted[c]) IN
  /\ stage[c] = "insert"
  /\ \/ /\ existing # {}
        /\ \E e \in existing : table' = [table EXCEPT ![c] = e]
        /\ stage' = [stage EXCEPT ![c] = "free"]
        /\ UNCHANGED <<listed, loadedEntry>>
     \/ /\ existing = {}
        /\ listed' = listed \cup {loadedEntry[c]}
        /\ table' = [table EXCEPT ![c] = loadedEntry[c]]
        /\ loadedEntry' = [loadedEntry EXCEPT ![c] = NoEntry]
        /\ stage' = [stage EXCEPT ![c] = "use"]
  /\ UNCHANGED <<listReady, entries, wanted>>

FreeOwn(c) ==
  /\ stage[c] = "free"
  /\ LdkpFreeCodePageEntry(loadedEntry[c])
  /\ loadedEntry' = [loadedEntry EXCEPT ![c] = NoEntry]
  /\ stage' = [stage EXCEPT ![c] = "use"]
  /\ UNCHANGED <<listReady, listed, wanted, table>>

(* The conversion is over.                                                 *)
Converted(c) ==
  /\ stage[c] = "use"
  /\ table' = [table EXCEPT ![c] = NoEntry]
  /\ stage' = [stage EXCEPT ![c] = "idle"]
  /\ UNCHANGED <<listReady, entries, listed, wanted, loadedEntry>>

(* The driver goes when none of its threads makes calls any more.          *)
LdkpTerminateNls ==
  /\ listReady /\ \A c \in Converter : stage[c] = "idle"
  /\ listReady' = FALSE /\ listed' = {}
  /\ entries' = [e \in DOMAIN entries \ listed |-> entries[e]]
  /\ UNCHANGED <<stage, wanted, loadedEntry, table>>

CPNext ==
  \/ \E c \in Converter :
       \/ \E page \in Page : LookUp(c, page)
       \/ LdkpLoadCodePageEntry(c) \/ LoadFails(c)
       \/ Insert(c) \/ FreeOwn(c) \/ Converted(c)
  \/ LdkpTerminateNls

CPSpec == CPInit /\ [][CPNext]_cpVars
-----------------------------------------------------------------------------
(* Properties.                                                             *)

CPTypeOK ==
  /\ listReady \in BOOLEAN
  /\ DOMAIN entries \subseteq Entry /\ \A e \in DOMAIN entries : entries[e] \in Page
  /\ listed \subseteq Entry
  /\ stage \in [Converter -> {"idle", "load", "insert", "free", "use"}]
  /\ wanted \in [Converter -> Page]
  /\ loadedEntry \in [Converter -> Entry \cup {NoEntry}]
  /\ table \in [Converter -> Entry \cup {NoEntry}]

(* A table in use, held without lock or reference, is that of an allocated *)
(* entry of the wanted code page, however many threads load the same page  *)
(* at once; every entry is on the list, once per page, or owned by the one *)
(* thread that has loaded it, and nothing is left when the driver is gone  *)
(* (LdkpGetCodePageTable, LdkpTerminateNls).                               *)
CodePageTableStays ==
  /\ \A c \in Converter : stage[c] = "use" =>
       table[c] \in DOMAIN entries /\ entries[table[c]] = wanted[c]
  /\ listed \subseteq DOMAIN entries
  /\ \A e, f \in listed : entries[e] = entries[f] => e = f
  /\ \A e \in DOMAIN entries \ listed :
       Cardinality({c \in Converter : loadedEntry[c] = e}) = 1
  /\ ~listReady => entries = <<>>
=============================================================================
