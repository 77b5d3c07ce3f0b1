-------------------------- MODULE CurrentDirectory --------------------------
(***************************************************************************)
(* The current directory of the process, src/src/ntdll/curdir.c.  The      *)
(* process parameters hold its path and an open handle; RtlpCurDirRef      *)
(* points to a block that counts who uses the handle.  A name that is      *)
(* relative to it is opened after the PEB lock has been left, with a       *)
(* reference to the block (RtlDosPathNameToRelativeNtPathName_U) or, where *)
(* the caller is one of the file functions, without                        *)
(* (RtlDosPathNameToNtPathName_U).                                         *)
(*                                                                         *)
(* The PEB lock is recursive: what a call does inside it is in steps only  *)
(* where a reference can be dropped, which needs no lock.  The volume may  *)
(* be dismounted whenever it is asked about.  Handles never carry the tags *)
(* of an inherited directory: the driver's first one is NULL.              *)
(***************************************************************************)
EXTENDS Naturals, FiniteSets

CONSTANTS
  DirUser,     \* threads
  Directory,   \* paths that can be opened
  Root,        \* the root of the drive
  DirHandle,   \* handles, given out again after a close
  DirBlock,    \* blocks of the heap, for RTLP_CURDIR_REFs
  Null

ASSUME DirectoryAssumption ==
  /\ Root \in Directory /\ IsFiniteSet(DirUser)
  /\ Null \notin Directory \cup DirHandle \cup DirBlock \cup DirUser

VARIABLES
  opens,       \* the open handles, each with its directory
  counts,      \* the allocated blocks: RefCount and DirectoryHandle
  curDirRef,   \* RtlpCurDirRef
  curDir,      \* CurrentDirectory: Handle and DosPath
  pebLock,     \* the thread inside the PEB lock
  dirAt,       \* where each thread is
  target,      \* the directory it sets
  newHandle,   \* NewDirectoryHandle
  toClose,     \* HandleToClose1
  toDrop,      \* CurDirRefToDereference
  relative     \* the relative name it has: CurDirRef, ContainingDirectory, its directory

dirVars == <<opens, counts, curDirRef, curDir, pebLock, dirAt, target,
             newHandle, toClose, toDrop, relative>>
setVars == <<target, newHandle, toClose, toDrop>>

NoName == [block |-> Null, handle |-> Null, path |-> Null]

CDInit ==
  /\ opens = <<>> /\ counts = <<>>
  /\ curDirRef = Null /\ curDir = [handle |-> Null, path |-> Root]
  /\ pebLock = Null
  /\ dirAt = [t \in DirUser |-> "idle"]
  /\ target = [t \in DirUser |-> Root]
  /\ newHandle = [t \in DirUser |-> Null]
  /\ toClose = [t \in DirUser |-> Null]
  /\ toDrop = [t \in DirUser |-> Null]
  /\ relative = [t \in DirUser |-> NoName]

DirGoto(t, l) == dirAt' = [dirAt EXCEPT ![t] = l]
With(f, x, v) == [y \in DOMAIN f \cup {x} |-> IF y = x THEN v ELSE f[y]]
Without(f, x) == [y \in DOMAIN f \ {x} |-> f[y]]

(* The last reference closes the handle and frees the block.               *)
RtlpDereferenceCurDirRef(b) ==
  IF counts[b].count = 1
  THEN counts' = Without(counts, b) /\ opens' = Without(opens, counts[b].handle)
  ELSE counts' = [counts EXCEPT ![b].count = @ - 1] /\ UNCHANGED opens

-----------------------------------------------------------------------------
(* A call enters the PEB lock: to set directory d, or to look a name up.   *)
Enter(t, l, d) ==
  /\ dirAt[t] = "idle" /\ pebLock = Null
  /\ pebLock' = t
  /\ target' = [target EXCEPT ![t] = d]
  /\ DirGoto(t, l)
  /\ UNCHANGED <<opens, counts, curDirRef, curDir, newHandle, toClose, toDrop, relative>>

(* RtlpValidateCurrentDirectory when the volume is gone: the block is let  *)
(* go, and the path opened again, or the root, or nothing.  (The nested    *)
(* RtlSetCurrentDirectory_U has no block to replace.)                      *)
Validate(t) ==
  /\ dirAt[t] \in {"set", "find", "name"} /\ curDir.handle # Null
  /\ RtlpDereferenceCurDirRef(curDirRef)
  /\ curDirRef' = Null /\ curDir' = [curDir EXCEPT !.handle = Null]
  /\ DirGoto(t, CASE dirAt[t] = "set" -> "reset" [] dirAt[t] = "find" -> "refind" [] OTHER -> "rename")
  /\ UNCHANGED <<pebLock, setVars, relative>>

Revalidated(l) == CASE l = "reset" -> "open" [] l = "refind" -> "capture" [] OTHER -> "peek"

Reopen(t, d, h, b) ==
  /\ dirAt[t] \in {"reset", "refind", "rename"} /\ d \in {curDir.path, Root}
  /\ h \notin DOMAIN opens /\ b \notin DOMAIN counts
  /\ opens' = With(opens, h, d)
  /\ counts' = With(counts, b, [count |-> 1, handle |-> h])
  /\ curDirRef' = b /\ curDir' = [handle |-> h, path |-> d]
  /\ DirGoto(t, Revalidated(dirAt[t]))
  /\ UNCHANGED <<pebLock, setVars, relative>>

ReopenFails(t) ==
  /\ dirAt[t] \in {"reset", "refind", "rename"}
  /\ DirGoto(t, Revalidated(dirAt[t]))
  /\ UNCHANGED <<opens, counts, curDirRef, curDir, pebLock, setVars, relative>>

(* The volume is mounted, or the path is not relative.                     *)
StillValid(t) ==
  /\ dirAt[t] \in {"set", "find", "name"}
  /\ DirGoto(t, CASE dirAt[t] = "set" -> "open" [] dirAt[t] = "find" -> "capture" [] OTHER -> "peek")
  /\ UNCHANGED <<opens, counts, curDirRef, curDir, pebLock, setVars, relative>>

-----------------------------------------------------------------------------
(* RtlSetCurrentDirectory_U.                                               *)

SetOpen(t, h) ==
  /\ dirAt[t] = "open" /\ h \notin DOMAIN opens
  /\ opens' = With(opens, h, target[t])
  /\ newHandle' = [newHandle EXCEPT ![t] = h]
  /\ DirGoto(t, "test")
  /\ UNCHANGED <<counts, curDirRef, curDir, pebLock, target, toClose, toDrop, relative>>

(* Any of the steps fails: the new handle, if there is one, is closed      *)
(* after the lock has been left.                                           *)
SetFails(t) ==
  /\ dirAt[t] \in {"open", "test", "replace"}
  /\ pebLock' = Null
  /\ DirGoto(t, "exit")
  /\ UNCHANGED <<opens, counts, curDirRef, curDir, setVars, relative>>

(* Fault: the handle of a block in use is replaced.                        *)
SetTestForgetsUsers(t) ==
  /\ dirAt[t] = "test"
  /\ DirGoto(t, IF curDirRef # Null THEN "swap" ELSE "replace")
  /\ UNCHANGED <<opens, counts, curDirRef, curDir, pebLock, setVars, relative>>

(* Nobody else uses the block: it may get the new handle.                  *)
SetTest(t) ==
  /\ dirAt[t] = "test"
  /\ DirGoto(t, IF curDirRef # Null /\ counts[curDirRef].count = 1 THEN "swap" ELSE "replace")
  /\ UNCHANGED <<opens, counts, curDirRef, curDir, pebLock, setVars, relative>>

SetSwap(t) ==
  /\ dirAt[t] = "swap"
  /\ toClose' = [toClose EXCEPT ![t] = counts[curDirRef].handle]
  /\ counts' = [counts EXCEPT ![curDirRef].handle = newHandle[t]]
  /\ curDir' = [handle |-> newHandle[t], path |-> target[t]]
  /\ newHandle' = [newHandle EXCEPT ![t] = Null]
  /\ pebLock' = Null
  /\ DirGoto(t, "exit")
  /\ UNCHANGED <<opens, curDirRef, target, toDrop, relative>>

SetReplace(t, b) ==
  /\ dirAt[t] = "replace" /\ b \notin DOMAIN counts
  /\ counts' = With(counts, b, [count |-> 1, handle |-> newHandle[t]])
  /\ toDrop' = [toDrop EXCEPT ![t] = curDirRef]
  /\ curDirRef' = b
  /\ curDir' = [handle |-> newHandle[t], path |-> target[t]]
  /\ newHandle' = [newHandle EXCEPT ![t] = Null]
  /\ pebLock' = Null
  /\ DirGoto(t, "exit")
  /\ UNCHANGED <<opens, target, toClose, relative>>

(* The finally clause, after the lock has been left.                       *)
SetClose(t) ==
  /\ dirAt[t] = "exit" /\ {newHandle[t], toClose[t]} # {Null}
  /\ opens' = [h \in DOMAIN opens \ {newHandle[t], toClose[t]} |-> opens[h]]
  /\ newHandle' = [newHandle EXCEPT ![t] = Null]
  /\ toClose' = [toClose EXCEPT ![t] = Null]
  /\ UNCHANGED <<counts, curDirRef, curDir, pebLock, dirAt, target, toDrop, relative>>

(* Fault: the block that was replaced keeps the reference of the process.  *)
SetExitKeepsBlock(t) ==
  /\ dirAt[t] = "exit" /\ {newHandle[t], toClose[t]} = {Null}
  /\ toDrop' = [toDrop EXCEPT ![t] = Null]
  /\ DirGoto(t, "idle")
  /\ UNCHANGED <<counts, opens, curDirRef, curDir, pebLock, target, newHandle, toClose, relative>>

SetExit(t) ==
  /\ dirAt[t] = "exit" /\ {newHandle[t], toClose[t]} = {Null}
  /\ IF toDrop[t] = Null THEN UNCHANGED <<counts, opens>> ELSE RtlpDereferenceCurDirRef(toDrop[t])
  /\ toDrop' = [toDrop EXCEPT ![t] = Null]
  /\ DirGoto(t, "idle")
  /\ UNCHANGED <<curDirRef, curDir, pebLock, target, newHandle, toClose, relative>>

-----------------------------------------------------------------------------
(* RtlpDosPathNameToRelativeNtPathName_Ustr.                               *)

(* With CaptureRelativeName: the directory is used through the block.      *)
Capture(t) ==
  /\ dirAt[t] = "capture"
  /\ IF curDir.handle = Null
     THEN DirGoto(t, "idle") /\ UNCHANGED <<counts, relative>>
     ELSE /\ counts' = [counts EXCEPT ![curDirRef].count = @ + 1]
          /\ relative' = [relative EXCEPT ![t] =
               [block |-> curDirRef, handle |-> curDir.handle, path |-> curDir.path]]
          /\ DirGoto(t, "use")
  /\ pebLock' = Null
  /\ UNCHANGED <<opens, curDirRef, curDir, setVars>>

(* Without: only the handle is remembered, or the name is not relative.    *)
Peek(t) ==
  /\ dirAt[t] = "peek"
  /\ relative' = [relative EXCEPT ![t] = [block |-> Null, handle |-> curDir.handle, path |-> curDir.path]]
  /\ DirGoto(t, "use")
  /\ pebLock' = Null
  /\ UNCHANGED <<opens, counts, curDirRef, curDir, setVars>>

(* The file has been opened: RtlReleaseRelativeName.                       *)
RtlReleaseRelativeName(t) ==
  /\ dirAt[t] = "use"
  /\ IF relative[t].block = Null
     THEN UNCHANGED <<counts, opens>>
     ELSE RtlpDereferenceCurDirRef(relative[t].block)
  /\ relative' = [relative EXCEPT ![t] = NoName]
  /\ DirGoto(t, "idle")
  /\ UNCHANGED <<curDirRef, curDir, pebLock, setVars>>

(* The driver is unloaded when no thread is in a call.  Nothing resets the *)
(* pointer; nothing reads it either before LdkInitialize runs again.       *)
LdkpTerminateCurDir ==
  /\ \A t \in DirUser : dirAt[t] = "idle"
  /\ curDirRef # Null /\ RtlpDereferenceCurDirRef(curDirRef)
  /\ dirAt' = [t \in DirUser |-> "gone"]
  /\ UNCHANGED <<curDirRef, curDir, pebLock, setVars, relative>>

-----------------------------------------------------------------------------
CDNext ==
  \/ \E t \in DirUser :
       \/ \E d \in Directory : Enter(t, "set", d)
       \/ Enter(t, "find", Root) \/ Enter(t, "name", Root)
       \/ Validate(t) \/ ReopenFails(t) \/ StillValid(t)
       \/ \E d \in Directory, h \in DirHandle, b \in DirBlock : Reopen(t, d, h, b)
       \/ \E h \in DirHandle : SetOpen(t, h)
       \/ SetFails(t) \/ SetTest(t) \/ SetSwap(t) \/ SetClose(t) \/ SetExit(t)
       \/ \E b \in DirBlock : SetReplace(t, b)
       \/ Capture(t) \/ Peek(t) \/ RtlReleaseRelativeName(t)
  \/ LdkpTerminateCurDir

CDSpec == CDInit /\ [][CDNext]_dirVars
-----------------------------------------------------------------------------
(* Properties.                                                             *)

CDTypeOK ==
  /\ DOMAIN opens \subseteq DirHandle /\ \A h \in DOMAIN opens : opens[h] \in Directory
  /\ DOMAIN counts \subseteq DirBlock
  /\ \A b \in DOMAIN counts : counts[b] \in [count : Nat \ {0}, handle : DirHandle]
  /\ curDirRef \in DirBlock \cup {Null} /\ pebLock \in DirUser \cup {Null}
  /\ curDir \in [handle : DirHandle \cup {Null}, path : Directory]
  /\ newHandle \in [DirUser -> DirHandle \cup {Null}]
  /\ toClose \in [DirUser -> DirHandle \cup {Null}]
  /\ toDrop \in [DirUser -> DirBlock \cup {Null}]

(* A thread that has captured the current directory opens its file in that *)
(* directory, whatever other threads set meanwhile: the block is still     *)
(* there, has the handle, and the handle is open on the same directory     *)
(* (RtlSetCurrentDirectory_U swaps the handle only of a block with one     *)
(* reference).                                                             *)
CapturedDirectoryStays ==
  \A t \in DirUser : relative[t].block # Null =>
    /\ relative[t].block \in DOMAIN counts
    /\ counts[relative[t].block].handle = relative[t].handle
    /\ relative[t].handle \in DOMAIN opens
    /\ opens[relative[t].handle] = relative[t].path

(* Every block counts the process, the captured names and the calls that   *)
(* are about to let go of it; no handle is in two places and none is lost; *)
(* and outside the PEB lock the block, the handle and the path agree, as   *)
(* an ASSERT of RtlpDosPathNameToRelativeNtPathName_Ustr says.             *)
DirectoryHandlesExact ==
  LET one(p) == IF p THEN 1 ELSE 0
      gone == \E t \in DirUser : dirAt[t] = "gone"
  IN
  /\ \A b \in DOMAIN counts : counts[b].count =
       one(b = curDirRef) + Cardinality({t \in DirUser : relative[t].block = b})
                          + Cardinality({t \in DirUser : toDrop[t] = b})
  /\ \A h \in DOMAIN opens :
       1 = Cardinality({b \in DOMAIN counts : counts[b].handle = h})
             + Cardinality({t \in DirUser : newHandle[t] = h})
             + Cardinality({t \in DirUser : toClose[t] = h})
  /\ pebLock = Null /\ curDirRef # Null /\ ~gone =>
       /\ counts[curDirRef].handle = curDir.handle
       /\ opens[curDir.handle] = curDir.path
=============================================================================
