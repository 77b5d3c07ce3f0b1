------------------------------- MODULE Loader -------------------------------
(***************************************************************************)
(* The DLL loader, src/src/ldk.c: the module list, reference counts,       *)
(* import dependencies, process attach and detach, thread notifications    *)
(* and the unloading of everything by LdkTerminate.                        *)
(*                                                                         *)
(* LdkLoadDll and LdkUnloadDll call each other and themselves, so each     *)
(* thread has a stack of frames.  A step is what is done under the module  *)
(* list lock, or one piece of work between two such pieces; entry points   *)
(* run without a lock.  Every load makes a fresh module instance, so that  *)
(* a pointer to one that was freed can be told from a valid one.           *)
(*                                                                         *)
(* Instances are numbered as they are registered, and a module is          *)
(* registered at the tail of ModuleListHead: the list is the registered    *)
(* instances in the order of their numbers.                                *)
(***************************************************************************)
EXTENDS Integers, Sequences, FiniteSets, SequencesExt

CONSTANTS
  LThread,
  Dll,
  Imports,       \* per DLL, a sequence of [dll : Dll, exact : BOOLEAN];
                 \* exact: the import has the file name extension
  MaxInst,       \* bound: module instances made
  MaxOps,        \* bound: calls of the threads
  MayFail,       \* do allocations, imports, TLS set-up and DllMain fail
  SerialUnload   \* does the driver keep loads apart from unloads

(* A DLL that an image imports a second time is named with its extension.  *)
ASSUME LoaderAssumption ==
  /\ IsFiniteSet(LThread) /\ Dll # {}
  /\ DOMAIN Imports = Dll
  /\ \A d \in Dll :
       /\ Imports[d] \in Seq([dll : Dll, exact : BOOLEAN])
       /\ \A m, n \in DOMAIN Imports[d] :
            m < n /\ Imports[d][m].dll = Imports[d][n].dll => Imports[d][n].exact
  /\ MaxInst \in Nat /\ MaxOps \in Nat
  /\ MayFail \in BOOLEAN /\ SerialUnload \in BOOLEAN

Inst == 1..MaxInst
None == 0
SomeDll == CHOOSE d \in Dll : TRUE

VARIABLES
  mod,       \* the LDK_MODULE instances
  stack,     \* what each thread is doing
  held,      \* references that the callers own, per instance
  made,      \* instances made so far
  ops,       \* calls so far
  ended      \* LdkTerminate has begun to unregister the modules

ldrVars == <<mod, stack, held, made, ops, ended>>

LInit ==
  /\ mod = [i \in Inst |-> [dll |-> SomeDll, st |-> "none", count |-> 0,
                            deps |-> <<>>, attached |-> FALSE, pinned |-> FALSE]]
  /\ stack = [t \in LThread |-> <<>>]
  /\ held = [i \in Inst |-> 0]
  /\ made = 0 /\ ops = 0
  /\ ended = FALSE

Listed(i) == mod[i].st = "registered"
-----------------------------------------------------------------------------
(* Frames.  The label tells which function a frame belongs to.             *)
LoadAt == {"ref", "import", "call", "dep", "tls", "attach", "failing", "abort"}
UnloadAt == {"dec", "detach", "deps"}
NotifyAt == {"notify", "release"}
Label == LoadAt \cup UnloadAt \cup NotifyAt \cup {"term"}

NewFrame(label, d, exact, i, set) ==
  [pc |-> label, dll |-> d, exact |-> exact, imp |-> 1, found |-> None,
   inc |-> FALSE, deps |-> <<>>, inst |-> i, rest |-> set]
LoadFrame(d, exact) == NewFrame("ref", d, exact, None, {})
UnloadFrame(i, label) == NewFrame(label, SomeDll, TRUE, i, {})
NotifyFrame(set) == NewFrame("notify", SomeDll, TRUE, None, set)
TermFrame == NewFrame("term", SomeDll, TRUE, None, {})

Idle(t) == stack[t] = <<>>
Top(t) == stack[t][Len(stack[t])]
At(t, label) == ~Idle(t) /\ Top(t).pc = label

(* The thread goes on with its first k frames and the given ones.          *)
Continues(t, k, frames) == stack' = [stack EXCEPT ![t] = SubSeq(@, 1, k) \o frames]
Starts(t, f) == Continues(t, 0, <<f>>)
Jump(t, f) == Continues(t, Len(stack[t]) - 1, <<f>>)
Call(t, f, callee) == Continues(t, Len(stack[t]) - 1, <<f, callee>>)
Pop(t) == Continues(t, Len(stack[t]) - 1, <<>>)

(* LdkLoadDll returns i, or fails: to its caller, which then owns the      *)
(* reference, or to LdkpResolveImportModule.                               *)
Caller(t) == stack[t][Len(stack[t]) - 1]
Answered(f, i) ==
  [f EXCEPT !.pc = IF i = None THEN "abort" ELSE "dep", !.found = i, !.inc = FALSE]
Return(t, i) ==
  IF Len(stack[t]) = 1
  THEN /\ Pop(t)
       /\ held' = IF i = None THEN held ELSE [held EXCEPT ![i] = @ + 1]
  ELSE /\ Continues(t, Len(stack[t]) - 2, <<Answered(Caller(t), i)>>)
       /\ UNCHANGED held

Named(d) == {i \in Inst : Listed(i) /\ mod[i].dll = d}
FirstNamed(d) == Min(Named(d))

(* LdkpReferenceModuleLocked, with IncrementLoadCount.                     *)
Reference(m, pin) ==
  [m EXCEPT !.pinned = @ \/ pin,
            !.count = IF m.pinned \/ pin THEN @ ELSE @ + 1]
-----------------------------------------------------------------------------
(* Calls.  A call needs an idle thread; with SerialUnload loads run with   *)
(* loads only, and a load that fails runs alone.                           *)
Loading(t) == ~Idle(t) /\ stack[t][1].pc \in LoadAt
Failing(t) == \E n \in DOMAIN stack[t] :
  stack[t][n].pc \in UnloadAt \cup {"abort", "failing"}
MayBegin(t, load) ==
  /\ Idle(t) /\ ~ended /\ ops < MaxOps
  /\ SerialUnload => \A u \in LThread :
       \/ Idle(u)
       \/ (Loading(u) <=> load) /\ (load => ~Failing(u))
FailsAlone(t) == SerialUnload => \A u \in LThread \ {t} : ~Loading(u)
MayGoWrong(t) == MayFail /\ FailsAlone(t)

LoadLibrary(t, d) ==
  /\ MayBegin(t, TRUE)
  /\ Starts(t, LoadFrame(d, TRUE))
  /\ ops' = ops + 1
  /\ UNCHANGED <<mod, held, made, ended>>

FreeLibrary(t, i) ==
  /\ MayBegin(t, FALSE)
  /\ held[i] > 0
  /\ held' = [held EXCEPT ![i] = @ - 1]
  /\ Starts(t, UnloadFrame(i, "dec"))
  /\ ops' = ops + 1
  /\ UNCHANGED <<mod, made, ended>>

(* LdkAddRefDll, LdkGetDllHandleEx: a reference or a pin.                  *)
AddRef(t, i, pin) ==
  /\ Idle(t) /\ ~ended /\ ops < MaxOps
  /\ Listed(i)
  /\ mod' = [mod EXCEPT ![i] = Reference(@, pin)]
  /\ held' = IF mod[i].pinned \/ pin THEN held ELSE [held EXCEPT ![i] = @ + 1]
  /\ ops' = ops + 1
  /\ UNCHANGED <<stack, made, ended>>

(* LdkpCallThreadNotifications: the snapshot of the attached modules.      *)
Attached == {i \in Inst : Listed(i) /\ mod[i].attached}

Snapshot(t) ==
  /\ MayBegin(t, FALSE)
  /\ Attached # {}
  /\ mod' = [i \in Inst |-> IF i \in Attached THEN Reference(mod[i], FALSE) ELSE mod[i]]
  /\ Starts(t, NotifyFrame(Attached))
  /\ ops' = ops + 1
  /\ UNCHANGED <<held, made, ended>>

(* The callbacks have run; LdkpReleaseProcessAttachedModuleSnapshot.       *)
Notified(t) ==
  /\ At(t, "notify")
  /\ Jump(t, [Top(t) EXCEPT !.pc = "release"])
  /\ UNCHANGED <<mod, held, made, ops, ended>>

ReleaseSnapshot(t) ==
  /\ At(t, "release")
  /\ IF Top(t).rest = {} THEN Pop(t)
     ELSE LET i == Min(Top(t).rest) IN
          Call(t, [Top(t) EXCEPT !.rest = @ \ {i}], UnloadFrame(i, "dec"))
  /\ UNCHANGED <<mod, held, made, ops, ended>>
-----------------------------------------------------------------------------
(* LdkLoadDll: the module is there already, with or without the extension, *)
(* or its image is mapped; the file is searched by the name as it is.      *)
LoadByName(t) ==
  /\ At(t, "ref")
  /\ IF Named(Top(t).dll) # {}
     THEN LET i == FirstNamed(Top(t).dll) IN
          /\ mod' = [mod EXCEPT ![i] = Reference(@, FALSE)]
          /\ Return(t, i)
     ELSE /\ \/ Top(t).exact /\ Jump(t, [Top(t) EXCEPT !.pc = "import"])
             \/ ~Top(t).exact /\ FailsAlone(t) /\ Jump(t, [Top(t) EXCEPT !.pc = "abort"])
          /\ UNCHANGED <<mod, held>>
  /\ UNCHANGED <<made, ops, ended>>

(* LdkpWalkImportDescriptors, LdkpResolveImportModule: the next import is  *)
(* found in the list, which is not locked afterwards, or has to be loaded. *)
NextImport(f) == Imports[f.dll][f.imp]

FindImport(t) ==
  LET f == Top(t) IN
  /\ At(t, "import")
  /\ f.imp <= Len(Imports[f.dll])
  /\ IF NextImport(f).exact /\ Named(NextImport(f).dll) # {}
     THEN Jump(t, [f EXCEPT !.pc = "dep", !.found = FirstNamed(NextImport(f).dll),
                            !.inc = TRUE])
     ELSE Call(t, [f EXCEPT !.pc = "call"],
                  LoadFrame(NextImport(f).dll, NextImport(f).exact))
  /\ UNCHANGED <<mod, held, made, ops, ended>>

(* LdkpAddModuleDependency, and the binding of the thunks.                 *)
AddDependency(t) ==
  LET f == Top(t)
      known == f.found \in ToSet(f.deps) IN
  /\ At(t, "dep")
  /\ Jump(t, [f EXCEPT !.pc = "import", !.imp = @ + 1,
                       !.deps = IF known THEN @ ELSE Append(@, f.found)])
  /\ mod' = IF f.inc /\ ~known
            THEN [mod EXCEPT ![f.found] = Reference(@, FALSE)] ELSE mod
  /\ UNCHANGED <<held, made, ops, ended>>

(* The dependency cannot be allocated.                                     *)
DependencyFails(t) ==
  LET f == Top(t) IN
  /\ MayGoWrong(t)
  /\ At(t, "dep") /\ f.found \notin ToSet(f.deps)
  /\ IF f.inc THEN Jump(t, [f EXCEPT !.pc = "abort"])
     ELSE Call(t, [f EXCEPT !.pc = "abort"], UnloadFrame(f.found, "dec"))
  /\ UNCHANGED <<mod, held, made, ops, ended>>

(* Opening, mapping, relocating, binding or registering fails.             *)
ImageFails(t) ==
  /\ MayGoWrong(t)
  /\ At(t, "import")
  /\ Jump(t, [Top(t) EXCEPT !.pc = "abort"])
  /\ UNCHANGED <<mod, held, made, ops, ended>>

(* Fault: the dependencies of a load that fails are kept.                  *)
AbortKeeps(t) ==
  /\ At(t, "abort")
  /\ Return(t, None)
  /\ UNCHANGED <<mod, made, ops, ended>>

(* LdkpReleaseModuleDependencies of the list that was being built.         *)
Abort(t) ==
  LET f == Top(t) IN
  /\ At(t, "abort")
  /\ IF f.deps = <<>> THEN Return(t, None)
     ELSE /\ Call(t, [f EXCEPT !.deps = Front(@)], UnloadFrame(Last(f.deps), "dec"))
          /\ UNCHANGED held
  /\ UNCHANGED <<mod, made, ops, ended>>

(* LdkRegisterModule and LdkpMoveModuleDependencies.                       *)
Register(t) ==
  LET i == made + 1
      f == Top(t) IN
  /\ At(t, "import")
  /\ f.imp > Len(Imports[f.dll])
  /\ made < MaxInst
  /\ made' = i
  /\ mod' = [mod EXCEPT ![i] = [@ EXCEPT !.dll = f.dll, !.st = "registered",
                                         !.count = 1, !.deps = f.deps]]
  /\ Jump(t, [f EXCEPT !.pc = "tls", !.inst = i, !.deps = <<>>])
  /\ UNCHANGED <<held, ops, ended>>

(* LdkpInitializeModuleTls; PROCESS_ATTACHED is set before DllMain runs.   *)
InitializeTls(t) ==
  /\ At(t, "tls")
  /\ \/ /\ mod' = [mod EXCEPT ![Top(t).inst].attached = TRUE]
        /\ Jump(t, [Top(t) EXCEPT !.pc = "attach"])
     \/ MayGoWrong(t) /\ Jump(t, [Top(t) EXCEPT !.pc = "failing"]) /\ UNCHANGED mod
  /\ UNCHANGED <<held, made, ops, ended>>

(* DllMain(DLL_PROCESS_ATTACH) returns.                                    *)
Attach(t) ==
  /\ At(t, "attach")
  /\ \/ Return(t, Top(t).inst)
     \/ MayGoWrong(t) /\ Jump(t, [Top(t) EXCEPT !.pc = "failing"]) /\ UNCHANGED held
  /\ UNCHANGED <<mod, made, ops, ended>>

(* The load unloads its own module, and fails.                             *)
UnloadFailed(t) ==
  /\ At(t, "failing")
  /\ Call(t, [Top(t) EXCEPT !.pc = "abort", !.inst = None],
             UnloadFrame(Top(t).inst, "dec"))
  /\ UNCHANGED <<mod, held, made, ops, ended>>
-----------------------------------------------------------------------------
(* LdkUnloadDll, under the module list lock: a module leaves the list when *)
(* no more than this many references are left.                             *)
Releases(t, last) ==
  LET i == Top(t).inst IN
  /\ At(t, "dec")
  /\ IF ~Listed(i) \/ mod[i].pinned
     THEN Pop(t) /\ UNCHANGED mod
     ELSE IF mod[i].count > last
     THEN Pop(t) /\ mod' = [mod EXCEPT ![i].count = @ - 1]
     ELSE /\ mod' = [mod EXCEPT ![i].count = 0, ![i].st = "leaving"]
          /\ Jump(t, UnloadFrame(i, "detach"))
  /\ UNCHANGED <<held, made, ops, ended>>

(* Fault: the module is unloaded while one more reference is left.         *)
DecrementEarly(t) == Releases(t, 2)

Decrement(t) == Releases(t, 1)

(* LdkpUnregisterModule: detach and free the image, then the dependencies, *)
(* then the module.                                                        *)
Detach(t) ==
  /\ At(t, "detach")
  /\ mod' = [mod EXCEPT ![Top(t).inst].attached = FALSE]
  /\ Jump(t, UnloadFrame(Top(t).inst, "deps"))
  /\ UNCHANGED <<held, made, ops, ended>>

ReleaseDependencies(t) ==
  LET i == Top(t).inst IN
  /\ At(t, "deps")
  /\ IF mod[i].deps = <<>>
     THEN /\ mod' = [mod EXCEPT ![i].st = "freed"]
          /\ Pop(t)
     ELSE /\ mod' = [mod EXCEPT ![i].deps = Front(@)]
          /\ Call(t, Top(t), UnloadFrame(Last(mod[i].deps), "dec"))
  /\ UNCHANGED <<held, made, ops, ended>>

(* LdkTerminate, when no call is in progress any more.                     *)
TerminateBegins(t) ==
  /\ ~ended /\ \A u \in LThread : Idle(u)
  /\ ended' = TRUE
  /\ Starts(t, TermFrame)
  /\ UNCHANGED <<mod, held, made, ops>>

(* One turn of the loop that unregisters the modules.                      *)
Unregisters(t, i) ==
  /\ mod' = [mod EXCEPT ![i].st = "leaving"]
  /\ Call(t, TermFrame, UnloadFrame(i, "detach"))

(* Fault: the oldest module goes first.                                    *)
TerminateHead(t) ==
  LET mods == {i \in Inst : Listed(i)} IN
  /\ At(t, "term")
  /\ IF mods = {} THEN Pop(t) /\ UNCHANGED mod ELSE Unregisters(t, Min(mods))
  /\ UNCHANGED <<held, made, ops, ended>>

TerminateNext(t) ==
  LET mods == {i \in Inst : Listed(i)} IN
  /\ At(t, "term")
  /\ IF mods = {} THEN Pop(t) /\ UNCHANGED mod ELSE Unregisters(t, Max(mods))
  /\ UNCHANGED <<held, made, ops, ended>>

Begin(t) ==
  \/ \E d \in Dll : LoadLibrary(t, d)
  \/ \E i \in Inst : FreeLibrary(t, i)
  \/ \E i \in Inst, pin \in BOOLEAN : AddRef(t, i, pin)
  \/ Snapshot(t)
  \/ TerminateBegins(t)

Continue(t) ==
  \/ LoadByName(t) \/ FindImport(t) \/ AddDependency(t) \/ DependencyFails(t)
  \/ ImageFails(t) \/ Abort(t) \/ Register(t) \/ InitializeTls(t) \/ Attach(t)
  \/ UnloadFailed(t) \/ Decrement(t) \/ Detach(t) \/ ReleaseDependencies(t)
  \/ Notified(t) \/ ReleaseSnapshot(t) \/ TerminateNext(t)

LNext == \E t \in LThread : Begin(t) \/ Continue(t)

LSpec == LInit /\ [][LNext]_ldrVars
-----------------------------------------------------------------------------
FrameType ==
  [pc : Label, dll : Dll, exact : BOOLEAN, imp : Nat \ {0}, found : Inst \cup {None},
   inc : BOOLEAN, deps : Seq(Inst), inst : Inst \cup {None}, rest : SUBSET Inst]
ModuleType ==
  [dll : Dll, st : {"none", "registered", "leaving", "freed"}, count : Nat,
   deps : Seq(Inst), attached : BOOLEAN, pinned : BOOLEAN]

LTypeOK ==
  /\ mod \in [Inst -> ModuleType]
  /\ stack \in [LThread -> Seq(FrameType)]
  /\ held \in [Inst -> Nat]
  /\ made \in 0..MaxInst /\ ops \in 0..MaxOps /\ ended \in BOOLEAN

Frames(s) == UNION {{<<t, n>> : n \in DOMAIN s[t]} : t \in LThread}
Frame(x) == stack[x[1]][x[2]]

(* What a frame holds a reference to: the dependencies of a load, its own  *)
(* module, an import it has loaded, the modules of a snapshot, and the one *)
(* reference that LdkUnloadDll is about to release.                        *)
Holds(f) ==
  ToSet(f.deps) \cup f.rest
  \cup {i \in Inst : i = f.inst /\ f.pc \notin {"detach", "deps"}}
  \cup {i \in Inst : i = f.found /\ f.pc = "dep" /\ ~f.inc}

(* The references to i, wherever they are: owned by a caller, recorded as  *)
(* a dependency, held by a frame.                                          *)
Importers(i) == {j \in Inst : i \in ToSet(mod[j].deps)}
Holders(s, i) == {x \in Frames(s) : i \in Holds(s[x[1]][x[2]])}
References(i) == held[i] + Cardinality(Importers(i)) + Cardinality(Holders(stack, i))

(* The load count of a module that is not pinned is the number of its      *)
(* references, so that it goes when the last one is released, and not      *)
(* before.                                                                 *)
LoadCountExact ==
  \A i \in Inst : Listed(i) /\ ~mod[i].pinned => mod[i].count = References(i)

(* A module that a registered module imports is registered.  This is the   *)
(* promise of docs/runtime/loader.md on dependencies.                      *)
ImportsStayLoaded ==
  \A i \in Inst : Listed(i) => \A j \in ToSet(mod[i].deps) : Listed(j)

(* Nobody works with a module that has been freed.                         *)
NoDanglingModule ==
  \A x \in Frames(stack) :
    LET f == Frame(x) IN
    /\ f.pc = "dep" => mod[f.found].st # "freed"
    /\ f.pc \in LoadAt /\ f.inst # None => Listed(f.inst)
    /\ \A i \in f.rest : Listed(i)

(* Whatever fails in a load and whoever unloads meanwhile, the counts of   *)
(* the modules are their references, and no load or notification goes on   *)
(* with a module that is gone.                                             *)
ModulesCounted == LoadCountExact /\ NoDanglingModule

(* While DllMain handles DLL_PROCESS_DETACH the modules it imports have    *)
(* not been detached, neither on unload nor during LdkTerminate.           *)
DetachInOrder ==
  \A x \in Frames(stack) :
    Frame(x).pc = "detach" => \A j \in ToSet(mod[Frame(x).inst].deps) : Listed(j)

=============================================================================
