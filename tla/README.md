# Verification of LDK

LDK is a static kernel library that gives a driver a small Win32 / NTDLL-like
runtime: a loader for DLLs, threads, TLS/FLS, locks and waits, a thread pool,
handles, paths, NLS.  It has no process of its own.  Every routine runs in the
thread of whoever calls it, in kernel mode, and all shared state is global
memory of the driver that must be gone when the driver is unloaded.  That is
where it is hard: most of the code that matters is a few lines between an
interlocked instruction, a spin lock and a wait, called by threads that LDK
does not know, raced by timeouts, and raced at the end by `LdkTerminate`.

This directory holds TLA+ modules for that part of LDK, TLC configurations that
check them on small instances, and TLAPS proofs for any number of threads.
`PROJECT.json` maps every definition to the lines it models and lists hazards,
runs, mutants and findings.  Source paths below are relative to the repository.

## 1. Inventory

For each part: its state; its operations; whom it calls or shares state with;
what is hard; what must hold.

### Synchronisation (src/ntdll)

| part | state | operations | interacts with | hard | correct means |
|---|---|---|---|---|---|
| alert by thread id (`alert.c`) | global list of stack-allocated wait entries, a pending bit per TEB, a count of active waits, a drained event | `NtWaitForAlertByThreadId`, `NtAlertThreadByThreadId`, terminate | under wait-on-address; TEBs of `teb.c` | timeout against alert; entries on stacks of returning threads; unload | no pointer to a dead frame, one signal per removed entry, an alert is delivered or reported |
| wait on address (`waitonaddress.c`) | global list of stack-allocated entries, count, drained event | `RtlWaitOnAddress`, `RtlWakeAddressSingle/All` | alert services; SRW lock above it | compare-then-wait; wake in batches; unload | a changed value wakes its waiters |
| SRW lock (`srwlock.c`) | one pointer-sized word | acquire, try, release in two modes | wait on address | compare-exchange loops, wake only on last release | reader/writer exclusion, no lost wake-up |
| critical section (`resource.c`) | lock and recursion count, owner, lazily made list of waiters | initialise, enter, try, leave, delete | one global fast mutex | hand-over of ownership, racing installation of the list, failed allocation | mutual exclusion, order, one signal per waiter |
| condition variable (`cond.c`) | global list of stack wait blocks | sleep, wake one, wake all | the lock it releases and takes again | wake against timeout | a wake is not lost; blocks do not dangle |
| keyed event (`keyedevent.c`) | global list of entries, backing event, semaphore in the TEB | wait, release, create, open | TEB | pulse of an event nobody waits for yet; timeout | one release ends one wait of its key |
| lazy initialisation (`cond.c`, `resource.c`) | a three-valued word | ensure | all of the above | several first users | initialised once, before use |

### Threads and per-thread state

| part | state | operations | interacts with | hard | correct means |
|---|---|---|---|---|---|
| thread contexts (`kernel32/processthreadsapi.c`, `ldk.c`) | list of contexts, creation count, shutdown flag, start gates | `CreateThread`, `SuspendThread`, `ResumeThread`, `ExitThread`, barrier of `LdkPrepareForTermination` | loader notifications, FLS callbacks | failures between creation and release, barrier against creation | contexts outlive readers; after the barrier every thread is dead |
| TEB map, FLS, TLS (`teb.c`, `kernel32/fibersapi.c`, `processthreadsapi.c`) | list of TEBs keyed by PETHREAD, bitmaps and callbacks in the PEB, slots | `LdkCurrentTeb`, `FlsAlloc/Free/Get/Set`, `TlsAlloc/Free/Get/Set`, teardown | every component | walk of the list while it changes, exit against `FlsFree` | data reach their callback once; slots are private |
| thread descriptions, queries (`processthreadsapi.c`) | list keyed by thread id | `SetThreadDescription`, ... | none | thread ids are reused | a thread reads its own description |

### Thread pool

| part | state | operations | interacts with | hard | correct means |
|---|---|---|---|---|---|
| work (`kernel32/threadpoolapiset.c`) | reference and outstanding counts, flags, idle event | create, submit, wait, cancel, close, callback | kernel work queue, loader references, cleanup groups | counters and event are updated in separate steps | object outlives users; waits see callbacks finished |
| timers, waits (same file) | watcher thread per object, flags, control event, idle event | create, set, is-set, wait, close | cleanup groups | re-arming against expiry, close from a callback | no callback after close; a set timer fires |
| legacy (`threadpoollegacyapiset.c`, `ntdll/threads.c`) | wrappers with a one-shot flag | timer queue, registered wait, work items | timers and waits | unregister against callback | freed once |

### Loader, handles, process state

| part | state | operations | interacts with | hard | correct means |
|---|---|---|---|---|---|
| loader (`ldk.c`) | module list, load counts, dependencies, pins | load, unload, add-ref, thread notifications, terminate | DllMain of loaded images | references found and taken in two steps, failing attach | imports stay loaded; counts exact; detach in order |
| export lookup, relocation, static TLS (`ldk.c`) | PE bytes, TLS index per module | `LdkpNameToOrdinal`, forwarders, `LdkpInitializeModuleTls` | TLS slots | index reuse | right address, one block per thread |
| search path (`libloaderapi.c`, `processenv.c`) | DLL directories in the PEB | `LoadLibraryEx` flags, `AddDllDirectory` | PEB lock | order | directories in the documented order |
| LDK handles, named mutexes (`processhandle.c`) | list of handles, objects with two counts, registry of names | create, open, duplicate, close, wait, release | wait functions | counts outside the locks | exact counts; an open name is found |
| wait functions (`synchapi.c`) | InitOnce word, arrays of referenced objects | single and multiple waits, `SignalObjectAndWait`, `InitOnceExecuteOnce` | handles | partial failure | references balanced |
| PEB (`peb.c`) | parameters, stdio, bitmaps, lists | initialise, terminate | all | partial failure of initialisation | undone in reverse |
| life cycle (`ldk.c`, `main.c`, `ntdll.c`, `kernel32.c`) | global flags | `LdkInitialize`, `LdkTerminate`, `LdkDriverEntry` | all | order of teardown | nothing is used after its teardown |
| heap (`heap.c`, `heapapi.c`) | list of heaps and blocks | create, destroy, alloc, realloc, free, walk | PEB | heaps left at unload | no leak at unload |
| current directory, paths (`curdir.c`, `buffer.c`) | counted reference to the directory, drive variables | set, get, full path, NT path | environment, PEB lock | handle closed while a relative open uses it | the handle outlives its users |
| environment (`environ.c`, `processenv.c`) | one block of `NAME=value` | query, set, enumerate | PEB lock | growth of the block, offsets | last value wins, order kept |

### Translations and tables

Files (`fileapi.c`), pipes, console, registry, messages and resources
(`winbase.c`), NLS (`winnls.c`, `stringapiset.c`), system information, time,
exceptions, COMBASE, ICU, ADVAPI32.  These translate arguments and error codes
for one kernel call, or read tables.  State that lasts over several calls is
rare there: the code page cache, `FindFirstFile` handles, the apartment state of
COMBASE, the temporary file counter.  What is hard is failure in the middle: a
call takes up to a dozen handles, strings, buffers and references, any step may
fail, and the cleanup must give back exactly what was taken and leave the right
last error.  Start-up and unloading (`main.c`, `ldk.c`, `peb.c`, `kernel32.c`,
`ntdll.c`) have the same shape on a larger scale.

## 2. Modules

Each component has a module.  TLC runs it directly where that is enough; an
`MC` module is there where a run needs symmetry sets, model values with structure
or several components at once.  A module that holds theorems is called
`..._proofs`.

`MCPrimitives` puts slim locks, critical sections, condition variables and keyed
events into one run.  They share no state in LDK, so interleaving them would
multiply states and show nothing: a variable chosen initially says which of the
four a behaviour exercises, the others stay in their initial state, and the
fairness of a component is asked only of behaviours that exercise it.  `Threads`
declares the set of threads they have in common.  `MCThreads` joins
`ThreadContexts` and `TebMap` in the same way, `MCThreadpool` the work object, the
timer or wait with its watcher, and the legacy layer over it, and `MCProcess` the
handles, the code page cache, the current directory and the environment.

Where several invariants of a module are parts of one promise, a run checks
their conjunction: `WaitersReached` is `WaitListSafe` and `WokenIsAlerted`,
`SleepersSafe` is `BlockSafe` and `NoLostWake`, `SlotDataExact` is `FlsOwnCallback`
and `ReusedTebIsClean`, `ModulesCounted` is `LoadCountExact` and
`NoDanglingModule`, `WorkObjectSafe` is `NoUseAfterFree` and `NoLostEvent`,
`WatcherSafe` is `WatcherRefsExact` and `NoCallbackAfterClose`, `WaitObjectsSafe` is
`ReferencesExact` and `RegistrySafe`, `EnvironmentExact` is
`EnvironmentBlockExact` and `EnvironmentReadHolds`, `ResourcesExact` is
`OnlyWhatIsHeld` and `NothingLeaks`.

**ThreadAlert, AlertByThreadId**. `src/ntdll/alert.c`. `ThreadAlert` is the promise: an alert sets a bit or ends a wait, at most one is pending. `AlertByThreadId` has one action per lock region and interlocked instruction of the wait, the alert, and the termination; its variables are the list, the flags in the stack frames, the pending bits, the count and the drained event. It implements `ThreadAlert`.

**WaitOnAddress**. `src/ntdll/waitonaddress.c`, composed with the alert services: `RtlWaitOnAddress` inserts, compares, waits for an alert and takes itself out; the wakers remove a batch under the list lock and alert outside it.

**ReadWriteLock, SRWLock**. `src/ntdll/srwlock.c`. `ReadWriteLock` is the abstract lock (sets of owners). `SRWLock` has a read of the word and a compare-exchange as separate actions, and the sleep on the word's address by what `WaitOnAddress` shows. It implements `ReadWriteLock`, and so does the critical section.

**CriticalSection**. `src/ntdll/resource.c`: enter, try, leave with hand-over, the wait list that is allocated outside the lock and dropped by whoever loses the race to install it, delete.

**ConditionVariable**. `src/ntdll/cond.c`: sleep in exclusive and shared mode around the abstract lock, wake one, wake all in batches, timeout.

**Subsequences**. What the wakers of `src/ntdll/cond.c` and `src/ntdll/waitonaddress.c` take from a linked list and leave in it, defined by positions and without recursion, because proofs follow the lists through it. Its proofs module also has the least member of a set of naturals, on which the sums of the environment rest.

**KeyedEvent**. `src/ntdll/keyedevent.c`: waiters with entries in the global list and a semaphore in their TEB, releasers that search the list or wait for the backing event to be pulsed, timeouts on both sides, teardown.

**ThreadContexts**. `src/kernel32/processthreadsapi.c` and the barrier in `src/ldk.c`: `CreateThread` with each failure path, the start gate, suspend and resume, thread exit, reaping of dead contexts, `LdkPrepareForTermination` called by two threads, deletion of the lookaside list.

**Loader**. `src/ldk.c`: `LdkLoadDll`, `LdkUnloadDll`, `LdkAddRefDll`, import resolution with its recorded dependencies, DllMain attach and detach, thread notifications over a referenced snapshot, pinning, and the unregistering loop of `LdkTerminate`. Each thread has a stack of frames, because loading, resolving imports and unloading call each other.

**ThreadpoolWork**. `src/kernel32/threadpoolapiset.c`: one work object, one action per interlocked or event operation of submit, completion, wait, cancel, close and cleanup group, and the DLL references around a callback.

**TebMap**. `src/teb.c`, `src/kernel32/fibersapi.c` and the TLS part of `processthreadsapi.c` and `ldk.c`: TEBs keyed by PETHREAD and taken over by a later thread at the same address, FLS indices with their callbacks, dynamic TLS, the static TLS of one DLL, the walk round the list that `FlsFree`, `TlsFree` and the unloading of a DLL share, thread exit, teardown, and the temporary list of a thread that first calls LDK during shutdown.

**ThreadpoolWatcher**. `src/kernel32/threadpoolapiset.c`: one timer or wait object with its watcher thread. `Flags` is updated by interlocked instructions and, under the spin lock, by plain ones; a plain update is two actions. Setting, expiry, callback, wait, cancel, close by handle, from the callback and through a cleanup group.

**WaitObjects**. `src/kernel32/processhandle.c`: mutex handles, objects with a reference count and a handle count, the registry of names, duplication, waits that outlive handles, teardown of the handle list.

**LegacyWait**. `src/kernel32/threadpoollegacyapiset.c`: timer-queue timers and registered waits, as a layer whose calls below are the steps of `ThreadpoolWatcher`. The variables are the block behind the handle, its flags, the next call of each thread and where the layer's callback is; deleting disarms, drains, closes and frees in four calls, and the callback of a registered wait arms the object again in between.

**CodePageCache**. `src/kernel32/winnls.c`: the list of code page entries, looked up under the shared lock, loaded with no lock, looked up again and inserted under the exclusive one; the loser of a race frees its entry; tables are used without a reference.

**CurrentDirectory**. `src/ntdll/curdir.c`: the handle and path of the current directory and the counted block they are used through. `RtlSetCurrentDirectory_U` swaps the handle of a block nobody else refers to or replaces the block, and closes outside the PEB lock; a dismounted volume makes any call drop the block and open it again, or the root, or fail; names are captured with a reference or only peeked at.

**Environment**. `src/ntdll/environ.c` and `GetEnvironmentVariableA` of `src/kernel32/processenv.c`: the strings of the block in order, the size it was allocated for, edits that cut it in three, and a reader that asks twice.

**CallSteps, FileCalls, FileQueries, LibraryCalls, SynchCalls, MessageCalls, NlsCalls, StartCalls, SystemCalls, ProcessCalls, ApiCalls**. The functions that have no protocol with other threads but many ways to fail. `CallSteps` is a small vocabulary: obtain, use, give back, leave to the caller, keep; a step that can fail carries the way out the code takes; branches, loops, the last error. Each function is the sequence of its steps in the order of the source, under its own name, and a helper that the source shares is an operator that several functions use. `ApiCalls` is the machine that executes any one of them, with every step failing or not; its state is what the function holds, what it has given to its caller, the last error and the outcome. Steps stand for calls, not for values: what a call computes is left out. Where the source reads an argument or an answer, both branches are taken.


## 3. Runs

| run | module, cfg | expected | properties | shows |
|---|---|---|---|---|
| alert | AlertByThreadId, AlertByThreadId.cfg | pass | StackSafe, ImplementsThreadAlert, AlertedWaitReturns, TerminateDrains | Two waiters, one of which also alerts, with timeouts, failing allocations and termination in every order: stack-allocated entries stay safe, alerts are neither lost nor swallowed by a timeout, the services implement ThreadAlert, alerted waits return and termination gets past its wait for the drain. |
| wait_on_address | MCWaitOnAddress, WaitOnAddress.cfg | pass | WaitersReached, NoMissedWake | Two waiters whose timeouts come or not, a writer that wakes one or, in batches of one, all, a driver that alerts a waiter itself, and the unloader, over the alert services with their allocations failing or not: no wake-up is lost between the comparison and the wait, and a thread whose entry was taken is sent its alert, unless an alert for it was given up because its pending entry could not be allocated or LdkTerminate has begun. |
| primitives | MCPrimitives, Primitives.cfg | pass | SleeperIsWoken, HandOverExact, SleepersSafe, ReachedOnce, ImplementsReadWriteLock, ImplementsLock, WaiterEnters, AllWoken, ReleasedReturns | Slim locks, critical sections, condition variables and keyed events, each with threads of its own: locks implement ReadWriteLock, no sleeper is forgotten, wait blocks on stacks stay safe when a timeout meets a waker, hand-over never loses the section, and woken threads come back. |
| threads | MCThreads, Threads.cfg | pass | ContextSafe, DrainedMeansGone, SlotDataExact, StaticTlsExact, BarrierReturns, FlsNotDropped | Thread contexts: two workers and two callers of the barrier; contexts outlive their readers, and the barrier returns when every thread is dead, although creations fail and threads are left suspended. Thread blocks: a worker whose PETHREAD is reused, a thread of the driver and the unloader allocate, set and free FLS and TLS slots and load a DLL with static TLS, while threads exit and the map is torn down; data reach the callback they were stored for, and blocks are neither leaked nor left to the next thread. |
| loader | MCLoader, Loader.cfg | pass | ModulesCounted, ImportsStayLoaded, DetachInOrder | Two threads load, reference, pin, notify and unload DLLs that share an import, every step of a load may fail, and LdkTerminate comes at any time, as long as no unload and no failing load runs together with a load: counts are exact, imports stay loaded, and modules are detached before their imports. |
| threadpool | MCThreadpool, Threadpool.cfg | pass | WorkObjectSafe, WaitDrains, DllExact, WatcherSafe, LegacyBlockStays, ClosedIsFreed, CloseReturns, FiresAgain | Work objects: one thread, two work items whose callbacks submit and close their own object, a cleanup group, cancellation and failing allocations; the object outlives its users and is freed, waits do not hang, and they drain, except those that end on an event which a completion set after a later submission had reset it. Timers and waits: an object that is set, disarmed, waited for, cancelled and closed by a thread, its own callback or a cleanup group while its watcher sleeps, expires or makes the callback; no callback after the close, the close returns, a periodic timer goes on firing. Timer queues and registered waits: the block behind the handle outlives every callback although unregistering races one that arms the object again. |
| process | MCProcess, Process.cfg | pass | WaitObjectsSafe, NameKept, CodePageTableStays, CapturedDirectoryStays, DirectoryHandlesExact, EnvironmentExact | State of the process that any thread may change: mutex handles of one name or none with every allocation failing or not; two threads that load the same code page table; threads that set the current directory, find its volume dismounted or open files relative to it; an environment block that is edited, grown and read with a query for the size first. Counts and the registry stay exact, a table is never freed under a reader, captured directories keep their handle and no handle leaks, and the block always holds exactly the variables that were set. |
| api_calls | ApiCalls, ApiCalls.cfg | pass | ResourcesExact, FailureIsReported | Every multi-step call of the kernel32, combase and start-up code, with each of its steps failing or not: whatever path it takes, the calls release what they acquired and no more, hand over exactly what they document, and a call that returns failure has set the last error. |
| alert_drain | AlertByThreadId, AlertDrain.cfg | violation | DrainedMeansNoWaiter | The drained event can be left signalled while a waiter is counted, and termination then passes it by. |
| keyed_event_pulse | KeyedEvent, KeyedEventPulse.cfg | violation | ReleaseReturns | A release that finds no waiter misses the pulse of one that arrives before its wait begins, and never returns. |
| loader_race | MCLoader, LoaderRace.cfg | violation | ImportsStayLoaded | An import that was found in the list is unloaded by another thread before the reference to it is taken. |
| teb_temporary | TebMap, TebTemporary.cfg | violation | WalkSafe | LdkTerminate in a thread that has no TEB yet unloads a DLL with static TLS, and the walk over the TEBs starts at a temporary TEB that is in no list. |

### Bounds

The instances have one to four threads, to which callbacks, work items and the
unloader come as actors of their own.  Every race named in the hazards needs at
most three actors (two operations and a timeout, or two operations and the
unloader).  Counters that only grow are bounded by constants of the module
(`MaxWaits`, `MaxReleases`, `MaxAllocs`, `MaxSets` and their like, each named where
it is declared), chosen so that an operation can happen, be undone, and happen
again.  Batches of wakers, which are 64 entries in the code, have one entry so
that the second batch happens.
The current directory has three users (one that sets it twice over, two with
captured names), two directories, and a handle and a block more than can be in
use.  The environment has three names, so that an edit falls before, between and
after others, values of up to two characters, and one reader; any thread may
edit.  Two converters and two code pages are enough for a race and a hit.
`ApiCalls` runs one call at a time from a clean state: its functions share no
state between calls, and a loop takes any number of turns, because a turn
leaves the machine where it was.
One thread and two work items reach every history of a work object that the
properties tell apart (two submissions before a wait, one after it, a callback that
submits during the close, an event set late); more threads are left to the
theorems, because liveness is checked in the same run.
In `WaitOnAddress.cfg` every wait has a timeout (`Timeouts`).  That leaves no history
out: nothing makes a timeout come, so a wait without one is a wait whose timeout
does not.
Memory that the code takes from a lookaside list is a small set of model values
that are reused, so that stale pointers meet new owners.  Threads, objects and
handles that are treated alike are declared symmetric, never in a run with a
liveness property.

Some variables are not in the code. `wakesOne` and `wakeSingle` are the driver's
choice, fixed at the start, between waking one and waking all; they keep the two
uses of an address or a condition variable apart, because a driver that mixes
them cannot expect every waiter to be woken. `expired` and `strained` are
history: they record that a keyed wait timed out, that two calls on one name
overlapped or a handle was duplicated. So are `bare` (an FLS index without a
callback was freed), `clobbered` (a plain update of a timer's flags undid an
interlocked one) and `rearmed` (an object was set again between its expiry and
the callback). The properties they appear in hold up to that moment; section 6
says what happens after it.

Two others except single waits instead of whole histories.  `unsent` has the
threads whose entry `waitonaddress.c` has taken and for which, since then,
`NtAlertThreadByThreadId` has given up an alert for want of a pending entry
(`alert.c:391-406`), a status that `LdkpAlertThreadIds` ignores
(`waitonaddress.c:128`); `WaitersReached` says nothing of their alert, and
states it of every other taken thread until `LdkTerminate` begins, from when on the
unloading thread wakes everybody.  `misled` has the waits for a work object that
ended on an event which was set late.  `late` and `stale` define this: a completion
(or the undoing of a failed submission) is late when a submission resets the event
after that completion took the count to zero and before its `KeSetEvent`
(`threadpoolapiset.c:709-714`, `1218-1219`), and the event is stale while it is
signalled by a late `KeSetEvent` alone.  The next reset, or the next set that is not
late, makes it good again.  Submitting several times before a wait, and after it,
is not excepted, nor is a callback that submits while its object is being closed.

### Fairness

Weak fairness is assumed of steps that a running thread takes by itself: the
kernel schedules every runnable thread and every queued work item.  Strong
fairness is assumed only where a thread contends for a spin lock or a fast mutex
that others take again and again, and of callbacks and lock owners, which
return or leave because the API asks them to.  Timeouts, calls of the driver,
failing allocations and spurious returns carry no fairness: they may happen or
not.

## 4. What is proved

TLAPS checks the theorems listed under `theorems` in `PROJECT.json` for any
number of threads and any value of the bounds.

* `AlertByThreadId_proofs`.  The inductive invariant adds to the type invariant
  where each wait entry is (listed, in a waker's batch, already signalled) and
  which program points own it.  Without that split, "the frame is still alive"
  is not inductive: a waker that has removed an entry must be known to be the
  only one that will signal it.  From it follow stack safety, one signal per
  entry, exact counts and references, and that the services implement
  `ThreadAlert`, step by step.
  The second half is about `WaitOnAddress`.  It first shows that each of its steps
  is a step of the alert services (`AlertsAsSpecified`), so that the invariant of
  `alert.c` may be used from then on.  Its own invariant says how far a thread is in
  both files at once (`NestOK`), that the list holds exactly the threads whose
  `InList` is set, that a woken thread has an alert under way (its bit, its
  signal, a call that names it or a batch that holds it), and that a waiter whose
  value has changed is in the hands of a waker that will come by.
* `Locks_proofs`.  Slim locks: the word equals minus one for a writer and the number of
  readers otherwise; the proof carries the set of owners and uses cardinality
  lemmas for one owner more or less.  A free word with a sleeper has a thread
  between its release and its wake.  Critical sections: owner, recursion count and the queue of waiters,
  with the hand-over (owner set by the leaver, not yet seen by the waiter) as a
  state of its own.  For `HandOverExact` it needs that a waiter taken from the queue
  has its signal, or a thread that is about to send it.
* `ThreadContexts_proofs`.  A context is referenced by at most its list entry,
  its creator and its thread, and each program point of creator and thread says
  which of them still holds.  The barrier theorem needs that a creation in
  flight is counted before the shutdown flag is read.
  The second half is about `TebMap`.  `FlsFree` and the unloading of a DLL walk
  round the list of TEBs from the caller's own, one TEB at a time and without a
  lock in between, while threads insert theirs at the head.  "No data of a freed
  index are left" is not inductive; what is (`WalksOK`) is that whatever a walk has
  to take away lies in a TEB that it has yet to visit, where "yet to visit" is an
  order of positions on the circle (`Left`) that insertion at the head shifts and
  does not disturb.  With it go the slots that an ending thread has emptied so far
  (`LeftClean`, `BlockLeft`), what it has read of the callback (`TakeOK`) and who owns
  the DLL (`DllOK`).  Walks are safe as long as `LdkTerminate` has not begun, which
  is where the run `teb_temporary` finds its counterexample.
* `Primitives_proofs`.  Condition variables: a wait block is listed, or in the hands
  of one waker, or neither (`BlocksOK`); for wake-ups, while anybody is listed there
  are at least as many threads that will look at the items, or are about to wake
  one, as there are items (`Enough`, a sum of two cardinalities), and a waker of all
  does not leave the list before it is empty (`AllOK`).  Keyed events: the ways
  through which a waiter is reached are counted (`WaysOK`), and until a wait times
  out each entry, and each releaser that holds one, has the key of the wait under
  way (`KeysOK`).
* `Subsequences_proofs`.  What is left of a list without some members has exactly
  the others, and none twice; and a waker that does not take all its candidates
  takes exactly as many as its batch holds.  Shared by the proofs about
  `WaitOnAddress` and `ConditionVariable`.  `Least`, the least member of a set of
  naturals, is what the other proofs use where one would want induction on a
  number: a least counterexample.
* `Loader_proofs`.  The inductive invariant (`LoaderInv`) says of every frame of every
  thread what it may refer to (`FramesSound`), which frame may call which
  (`StacksOK`), that loads and unloads do not run together and that a load that
  fails runs alone (`Serial`), that modules have their dependencies once and only on
  modules made before them (`ModsOK`), that callers hold references to modules that
  were made (`HeldOK`), and that the load count is the number of references
  (`LoadCountExact`).  References are the callers' own, the importers (a set of
  modules) and the frames that hold one (a set of positions in the stacks), so that
  each step adds or removes members of sets.  Two lemmas carry the argument.
  `LastReference`: when a count is one, only the frame that is releasing it refers
  to the module, so nothing is left dangling when the module leaves the list.
  `NewImport`: an import that is not in the list is none of the dependencies that a
  load has gathered, since those are referenced and thus in the list.  Steps are
  proved through one lemma for each thing a step can do to a stack (`JumpInv`,
  `CallInv`, `PopInv`, `ReturnInv`, `StartInv`).  `LoaderTypes` holds without
  `SerialUnload`; the other three assume it, and `loader_race` is the
  counterexample without it.
* `Threadpool_proofs`.  The reference count of a work object is the number of its
  holders and the outstanding count that of unfinished submissions, each a
  cardinality that a step changes by one; the object is closed by one thread
  (`CloseOK`), and the event is never forgotten.  For `WaitDrains` the
  invariant (`EventOK`) is that an event which is signalled and not stale, and a
  `KeSetEvent` to come that is not late, both mean that no work item is unfinished or
  about to be queued; the last count that is given up makes it true, and whoever
  queues has reset the event before.  A wait that ends on such an event has nothing
  left to wait for, and the close of a group keeps it so, because no thread submits
  any more (`WaitOK`).  Timers and waits: who
  closes, who is past the join of the watcher thread, and which plain updates of
  the flags cannot lose the request to delete (`DeleteOK`, which rests on the spin
  lock).  The legacy layer takes only steps of the layer below (`LegacyBelow`), so
  that it inherits this invariant.
* `Process_proofs`.  Code pages: a table in use is that of a listed entry, and an
  entry that is not listed belongs to the one thread that loaded it.  Current
  directory: each open handle is held once, by a block or a call, and the count of
  a block is one for the process plus the names and releases that hold it; the
  swap of a handle in place needs that nobody else refers to the block (`SwapOK`),
  which is a fact about the time between the test and the swap.  Handles: the
  reference count of an object is exact in every state, while its handle count is
  at most the number of its handles once some are duplicated (`CountAt`); `NamesInOrder` states what is
  true until that happens.  Environment: the size of a block is a recursive sum, and
  the first thing to prove is that the function which the recursion defines exists
  (`SumsExist`: the least length for which it would not).  Equal stretches of strings
  then add equal amounts wherever they stand (`SumsShift`), an edit moves two
  stretches and puts a third between them (`EditCells`), the names stay in order
  because the place of the edit separates the smaller from the greater ones
  (`EditOrdered`), and the value of every other variable stays (`EditValues`), which is
  what the reader who asks twice relies on (`SizeAsked`).

Assumptions on constants are finiteness of the thread sets (and of handles and
work items), distinctness of the model values and natural or positive bounds;
TLC evaluates them in the runs of these modules.

The type invariants of the modules with proofs are part of the inductive
invariants; they are proved and need no run.  The same holds for `OneSignalOwed`
(alerts), `NobodyStranded` (thread contexts), `NoOvertaking` (critical section) and
`RefExact` (alerts), which state parts of those invariants or follow from them.

Only model-checked:

* everything about liveness, which is out of the prover's reach;
* `ApiCalls` with the modules it executes: there are no constants to generalise.
  Each call is a fixed sequence of steps, and the run takes every call through
  every outcome of every step.

## 5. Assumptions about callers

* `ThreadContexts`: threads that LDK did not create are outside LDK when its
  lookaside lists are deleted.
* `Loader`: the driver keeps loads apart from unloads and notifications, and a load
  that fails, be it only because a name is not found, runs alone (`SerialUnload`);
  `loader_race` drops the assumption and shows why it is needed.  The passing run and
  the theorems about counts, imports and detaching have it.  A module that an image
  imports a second time is named with its extension the second time
  (`LoaderAssumption`; section 6 has the other case).  The runs use the acyclic
  import graphs that `docs/runtime/loader.md` asks for; the proofs do not need that.
* `ThreadpoolWork`: an object is closed once and not used by calls that start
  after that; callbacks return.  What waits promise is not stated for a wait
  that ended on an event set late (`misled`, section 3); section 6 is about it.
* `WaitOnAddress`: any allocation may fail (`AllocMayFail`).  That the alert of a
  taken waiter reaches it is not stated for a waiter for which an alert was given
  up (`unsent`, section 3); section 6 is about it.
* `WaitObjects`: the last handle of a mutex is not closed while the mutex is
  owned or waited for.  `NameKept` is stated for histories without a duplicated
  handle and without overlapping changes of the registry (`strained`); section
  6 is about the first.
* `TebMap`: the driver keeps its own threads out of LDK when `LdkTerminate` has
  begun; an index is used and freed only by whoever allocated it, and not used
  while it is freed.
* `ThreadpoolWatcher`: an object is closed once, when every call under way has
  taken its reference, and not used by calls that start later; due times come,
  while an awaited object need not ever be signalled.
* `LegacyWait`: a timer or registered wait is deleted once, after the call that
  made it has returned, and not from its own callback.
* `CodePageCache`, `CurrentDirectory`: no thread is in a call when the driver is
  unloaded.
* `ApiCalls`: arguments are valid pointers; the kernel may refuse anything it is
  asked, and closing or freeing does not fail.  The thread is not at dispatch
  level.
* A stack-allocated entry is reachable only through the list and the batches the
  model shows.

## 6. Findings

Each is a run that TLC ends with a counterexample; `PROJECT.json` quotes the
text it contradicts.

1. `alert_drain` (src/src/ntdll/alert.c:324). LdkpDereferenceAlertByThreadIdWait decrements the count and signals the drained event in two steps outside the list lock; a thread that begins a wait between them clears the event first, so the event ends up signalled while that thread is counted, and LdkpTerminateAlertByThreadIdList returns with it still inside NtWaitForAlertByThreadId. src/docs/runtime/wait-on-address.md:31-33 says "Active waiters are counted and drained during LDK termination so the driver is not unloaded while waiters are still blocked in LDK code."
2. `keyed_event_pulse` (src/src/ntdll/keyedevent.c:204). NtReleaseKeyedEvent drops the list lock before it waits for the backing event, so the ZwPulseEvent of a waiter that arrives between the two wakes nobody and the release waits for a pulse that may never come. src/test/ntdll/keyedevent.c:182-185 calls NtReleaseKeyedEvent with a NULL timeout right after CreateThread and expects it to return ("if (! NT_SUCCESS(Status)) { Result = FALSE; }", :186-188), without waiting for the new threads to be listed.
3. `loader_race` (src/src/ldk.c:656). LdkpResolveImportModule looks an import up with LdkGetModuleByName, which releases the list lock without taking a reference; LdkpAddModuleDependency takes it later (ldk.c:480). A FreeLibrary in between removes and frees the module, and the dependent module is registered with a dangling dependency. src/docs/runtime/loader.md:88-90 says "The dependent module keeps one ownership reference to each imported dynamic module, so the imported module stays loaded while the dependent module is loaded."
4. `teb_temporary` (src/src/teb.c:150). LdkCurrentTeb gives a thread without a TEB, once shutdown is in progress, one that is on the temporary list only (teb.c:213-222), and its ActiveLinks are zero; LdkpFreeStaticTlsForAllTebs, TlsFree and FlsFree start their walk at it, and LdkGetNextTebRundownProtection follows the null link. src/docs/overview/runtime-state.md:85-87 says "During shutdown, new TEB creation falls back to a temporary list so teardown paths that still touch TEB state can complete without re-entering the normal TEB map."

Further deviations came up with other constants or stronger properties and are
not kept as runs.

* A keyed-event wait that times out leaves its entry in the list
  (`src/ntdll/keyedevent.c:157`; `docs/runtime/keyed-event.md:18-21`), and a later
  release of the same key is spent on it.
* When an attach fails while another thread has referenced the module, the module
  stays registered (`src/ldk.c:2266`; `docs/runtime/loader.md:68-69`).
* An import listed twice under two spellings is referenced twice and released
  once (`src/ldk.c:460`; `docs/runtime/loader.md:88-89`).
* A name opened while the last handle of its mutex is being closed loses its entry
  in the registry (`src/kernel32/processhandle.c:220`).
* A duplicated mutex handle is not counted in `HandleCount`: closing the original
  removes the name while the duplicate is open
  (`src/kernel32/processhandle.c:588`; `docs/runtime/synchronization.md:19`).
* A waker that has taken a waiter from the list alerts it, and when no pending
  entry can be allocated while the waiter is not blocked in the alert layer, the
  alert is given up and the status ignored (`src/ntdll/waitonaddress.c:128`,
  `src/ntdll/alert.c:391-406`).  The waiter then blocks until another alert or the
  unloading of the driver: in its first wait, which without a timeout has no end,
  when it had registered and not blocked yet; or in the second wait, which never has
  a timeout (`src/ntdll/waitonaddress.c:292`), when the first had timed out.
* A submission whose `KeResetEvent` falls between the decrement of a completion and
  its `KeSetEvent` leaves the idle event set with a callback outstanding, so that a
  wait or a cleanup group returns early
  (`src/kernel32/threadpoolapiset.c:712`;
  `docs/runtime/threading-and-callbacks.md:165`).
* A plain update of a timer's flags can undo the interlocked `DELETE_REQUESTED`
  of a close, which then waits for a watcher that does not end
  (`src/kernel32/threadpoolapiset.c:1353`).
* A timer set between the expiry of its last setting and the watcher's lock is
  taken for the expired one: a periodic setting is marked expired and does not
  fire again, a wait loses its registration
  (`src/kernel32/threadpoolapiset.c:1343-1356`, `1685`).
* A one-shot timer keeps its set state over the callback and is marked expired
  instead (`src/kernel32/threadpoolapiset.c:1353`), where
  `docs/runtime/threading-and-callbacks.md:173` says that it is cleared before.
* `FlsFree` of an index without a callback leaves the data of other threads in
  their slots, and the next owner of the index receives them
  (`src/kernel32/fibersapi.c:119`).
* Dynamic TLS values stay in a TEB that a later thread at the same PETHREAD takes
  over (`src/teb.c:77`), and FLS data of a temporary TEB reach no callback.

Functions that fail without a last error, or report success after a failure.
`FailureIsReported` leaves out exactly these (`SilentFailures` in `ApiCalls`):
`SetFilePointerEx`, which answers TRUE when its query fails
(`src/kernel32/fileapi.c:1193`, `1208`); `GetFullPathNameA`;
`GetEnvironmentVariableA` when the variable changes between its queries
(`src/kernel32/processenv.c:922`); `SetStdHandle` and `SetStdHandleEx`;
`WriteConsoleA` and `WriteConsoleW`; `SleepConditionVariableCS` and
`SleepConditionVariableSRW`, which answer TRUE on a timeout; `SetLocalTime`,
`GetSystemInfo`, `GetVersionExA` and `GetVersionExW`.

Other observations from translating the calls and the process state:

* The file functions keep `ContainingDirectory` without a reference
  (`src/ntdll/curdir.c:1405`): another thread that sets the current directory
  closes the handle before they use it.  Names captured with a reference are
  safe (`CapturedDirectoryStays`).
* `GetEnvironmentStrings` and `GetEnvironmentStringsW` read past a block whose
  last variable has been removed: they skip one string before they look for the
  end (`src/kernel32/processenv.c:739`, `792`).
* `LdkpDuplicateEnvironmentPath` asks again for ever when PATH has the greatest
  length a string can have (`src/kernel32/libloaderapi.c:645-682`).
* `HeapDestroy` does nothing (`src/ntdll/heap.c:124`): the blocks of a heap stay
  until the driver is unloaded, where `docs/api/heap.md:11-12` says that heaps are
  "released with `HeapDestroy`".
* When a later step of `LdkpKernel32Initialize` fails, the message images stay
  listed with an `ImageBase` that is gone (`src/kernel32/kernel32.c:1637`,
  `src/kernel32/winbase.c:354`).
* `LdkpTerminateCurDir` leaves `RtlpCurDirRef` pointing to a freed block
  (`src/ntdll/curdir.c:356-366`), which matters only if LDK is initialised again
  in the same image.
* Queued work items of `RtlQueueWorkItem` and of the pool are not drained before
  their lookaside lists are deleted, and FLS callbacks run in
  `LdkpTerminateTebMap` when the modules they may live in are unloaded
  (`src/ldk.c:275-278`, `src/teb.c:329`).
* `RegisterWaitForSingleObject` ignores a failing `SetThreadpoolWait`; deleting a
  timer or a registered wait from its own callback waits for that callback.
* Thread descriptions are kept by thread id and never removed
  (`src/kernel32/processthreadsapi.c:1366`): a later thread with the id inherits
  one.
* `CoDecrementMTAUsage` in another thread than the increment leaves the first
  thread's count (`src/combase/combase.c:723`).

## 7. Not modelled, and why

* export-lookup-and-relocation: Name and ordinal lookup, forwarders, bound imports and base relocation work on the bytes of a PE image and keep no state; what they may do to a load (fail at any of its steps) is part of Loader.
* icu: A constant table of nine time zones and calendars owned by one caller; no shared state.

Partly modelled:

* loader: LdkLoadDll, LdkUnloadDll, LdkAddRefDll, thread notification snapshots, import dependencies and the unregistering loop of LdkTerminate are modelled over an acyclic import graph. Static TLS blocks are part of TebMap. Mapping, relocation, export lookup and resource-only modules are not modelled.
* threadpool-work: The work object: submission, worker routine, waiting, cancellation, closing by handle and through a cleanup group, the DLL references around a callback. The group has one member; CloseThreadpoolCleanupGroup and the failures of CreateThreadpoolWork are left out.
* threadpool-timers-and-waits: The watcher thread, setting, expiry, waiting, cancelling and closing (by handle, from the callback, through a cleanup group) of a timer or wait object. Due times are abstracted to expiry at any time; references to the awaited object and the DLL references around the callback (see threadpool-work) are left out.
* process-handles-and-named-mutexes: Mutant handles: create, open, duplicate, close, wait, release, the registry of names and the teardown of the handle list. Access rights, process handles (which refer to no object) and the exit status of the synthetic process are left out.
* life-cycle: LdkDriverEntry, LdkInitialize, LdkTerminate and the initialisation and termination of ntdll and kernel32 as sequences of steps, each of which fails or not, with the undoing of what was built. Threads that are inside LDK while it is torn down are in the modules of the components they use. The tables of exported functions in kernel32.c and ntdll.c are data.
* threadpool-pools-and-groups: Creating, changing and closing pools and cleanup groups and capturing the callback environment, with what they allocate and reference; closing the members of a group is in the modules of the objects. A pool has no threads of its own, and its limits are only recorded. A group with members of several kinds at once is left out.
* legacy-threadpool: Timer-queue timers and registered waits over the objects of ThreadpoolWatcher, deleted while their callback runs and arms them again; QueueUserWorkItem and RtlQueueWorkItem as sequences of steps. Deletion from the own callback, which waits for itself, is left out, and so is the draining of work items at unload, which the code does not do.
* wait-functions: Events, semaphores, mutexes, waits for one and several objects, SignalObjectAndWait and InitOnce as sequences of steps, with the references to LDK objects and the arrays they need. The single wait on an LDK handle is also part of WaitObjects. The kernel's wait itself, and InitOnce with several threads, are left out: the code forwards both to the kernel.
* thread-descriptions-and-queries: Thread descriptions, affinities, priorities, times and image names as sequences of steps with their locks, blocks and handles. The contents of the description table are left out.
* process-queries: OpenProcess, TerminateProcess, exit codes, times, affinity and image names, for handles of LDK and of the kernel, as sequences of steps.
* heap: Allocation, reallocation, walking, validation and the list of heaps as sequences of steps under the heap's lock. The links between blocks are left out.
* current-directory-and-dos-paths: The counted current directory: setting it, validating it after a dismount, names captured relative to it with and without a reference, termination. Growing string buffers is a sequence of steps. The classification and conversion of DOS paths is left out.
* environment: The block with its variables, sizes and order under edits, and the two queries of GetEnvironmentVariableA; the other functions over it, the standard handles and the DLL directories as sequences of steps. Copies of the whole block are left out, and of GetEnvironmentVariableA the failures before its first query (converting the name, allocating the buffer), which return with nothing changed, and the names __CD__ and __APPDIR__, which are not in the block.
* dll-search-path: LdkpComputeDllPath with its parts, the LoadLibrary family, module queries, and the DLL directories as sequences of steps. The order of the directories in the path is left out.
* files: Opening, reading, writing, copying, moving, deleting, linking, locking, searching, querying and setting files, volumes and temporary names as sequences of steps: names, handles, buffers and events with every step failing or not. File contents and attributes are left out.
* handles-and-pipes: CloseHandle, DuplicateHandle, CreatePipe and PeekNamedPipe as sequences of steps.
* console: The checks of the console functions; what is printed or read is I/O.
* nls-code-pages: The cache of code page tables with several threads; the conversions as sequences of steps. The mapping of characters is left out.
* nls-locales-and-formats: Locale queries, date and time formats, comparison and mapping as sequences of steps, with the buffers of the ANSI forms. About 2000 lines are tables of locale data, which hold no control.
* messages-and-resources: FormatMessage and FindResource as sequences of steps with their buffers, and the loading of the message images at start-up. The walk over PE resource directories is left out.
* exceptions-and-errors: The error mode and UnhandledExceptionFilter as sequences of steps. Unwinding of native stack frames is machine level, and the dispatcher of except.c is compiled only with _LDK_DEFINE_RTL_RAISE_EXCEPTION.
* system-information-and-time: Queries of the kernel with their buffers, as sequences of steps. The numbers they compute are left out.
* memory-and-utilities: VirtualQuery, VirtualProtect, VirtualFree and the duplication of strings as sequences of steps. Pointer encoding is arithmetic.
* combase: Counted strings, marshalling streams and the calls that only refuse, as sequences of steps. The apartment counters per thread are left out.

## 8. Plan

Done, in this order: alerts, wait on address, SRW lock, critical section,
condition variable, keyed events, thread contexts, loader, thread pool work,
handles, TEBs with FLS and TLS, thread pool timers and waits, the legacy layer
over them, the code page cache, the current directory, the environment, and the
calls of the API with their failures, start-up included.  Next, the most
important first:

1. Pure operators checked against reference definitions over bounded strings:
   DOS path classification and collapse, the order of the DLL search path,
   name-to-ordinal search, UTF-8/UTF-16 conversion, date pictures.
2. The apartment counters of `combase.c`, the table of thread descriptions, and
   a cleanup group with members of several kinds.
