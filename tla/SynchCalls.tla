------------------------------ MODULE SynchCalls ------------------------------
(***************************************************************************)
(* The synchronization and the system information functions of kernel32    *)
(* (synchapi.c, sysinfoapi.c) as sequences of steps.  What the primitives  *)
(* do is in the modules about them; here is how their results reach the    *)
(* caller, and what a wait holds meanwhile.                                *)
(***************************************************************************)
EXTENDS LibraryCalls

(* A new or an opened object; the last error of a success says which.      *)
Object == << Take("handle", {}, Fail(<<>>)), SetError, Give("handle") >>
AnsiName == Opt(<<LdkAnsiStringToStaticUnicodeString(Pass(<<>>))>>)

CreateEventW == Object
CreateEventExW == <<Check(Fail(<<>>))>> \o Object
CreateEventA == <<AnsiName>> \o CreateEventW
OpenEventW == << Take("handle", {}, Fail(<<>>)), Give("handle") >>
OpenEventA == <<LdkAnsiStringToStaticUnicodeString(Pass(<<>>))>> \o OpenEventW
SetEvent == <<Check(Fail(<<>>))>>
ResetEvent == <<Check(Fail(<<>>))>>
PulseEvent == <<Check(Fail(<<>>))>>

CreateMutexExW ==
  << Check(Fail(<<>>)), CallFor("handle", {}, Pass(<<>>)), SetError, Give("handle") >>
CreateMutexW == CreateMutexExW
CreateMutexA == <<AnsiName>> \o CreateMutexW
CreateMutexExA == <<AnsiName>> \o CreateMutexExW
OpenMutexW == << Check(Fail(<<>>)), CallFor("handle", {}, Pass(<<>>)), Give("handle") >>
OpenMutexA == <<AnsiName>> \o OpenMutexW
(* A handle of the driver reports its own error, one of the kernel is      *)
(* refused here.                                                           *)
ReleaseMutex == <<Either(<<Call({}, Pass(<<>>))>>, <<Check(Fail(<<>>))>>)>>
CreateSemaphoreExW == <<Check(Fail(<<>>))>> \o Object
ReleaseSemaphore == <<Check(Fail(<<>>))>>

(* These have no result: what went wrong is only in the last error.        *)
InitializeCriticalSection == <<Check(<<SetError, Return("status")>>)>>
EnterCriticalSection == <<Check(<<SetError, Return("status")>>)>>
LeaveCriticalSection == <<Check(<<SetError, Return("status")>>)>>
DeleteCriticalSection == <<Check(<<SetError, Return("status")>>)>>
InitializeCriticalSectionEx == <<Check(Fail(<<>>))>>
InitializeCriticalSectionAndSpinCount == <<Check(Fail(<<>>))>>
InitOnceExecuteOnce == <<Check(Fail(<<>>))>>
InitOnceBeginInitialize == <<Check(Fail(<<>>))>>
InitOnceComplete == <<Check(Fail(<<>>))>>

(* STATUS_TIMEOUT counts as success: a sleep that has timed out returns    *)
(* TRUE, as one that was woken.                                            *)
SleepConditionVariableCS == << Check(<<Return("ok")>>), Check(Fail(<<>>)) >>
SleepConditionVariableSRW == << Check(<<Return("ok")>>), Check(Fail(<<>>)) >>
WaitOnAddress == << Check(Fail(<<>>)), Check(Fail(<<>>)) >>

(* A handle of the driver is waited for through its object, which the      *)
(* waiter references for as long as the wait and its repetitions after an  *)
(* alert last; other handles are left to the kernel.                       *)
WaitForSingleObjectEx ==
  << Either(<< Take("object", {}, Fail(<<>>)), Loop(<<Use({"object"})>>),
               Ask({"object"}, Fail(<<Free("object")>>)), Free("object") >>,
            << Loop(<<Use({})>>), Check(Fail(<<>>)) >>),
     Return("status") >>
WaitForSingleObject == WaitForSingleObjectEx

(* Two handles stand for the list.  More than three need wait blocks, and  *)
(* more than eight arrays of their own; both arrays are asked for before   *)
(* either answer is looked at.                                             *)
WaitForOwnObjects ==
  LET Arrays == << Alloc("objects", <<Try("kinds"), Drop("kinds")>> \o Fail(<<>>)),
                   Alloc("kinds", Fail(<<Free("objects")>>)) >>
      Blocks == Alloc("blocks", Fail(Drops(<<"objects", "kinds">>)))
      Room   == Drops(<<"blocks", "objects", "kinds">>)
      Refs   == Drops(<<"first", "second">>)
  IN << Opt(<<Opt(Arrays), Blocks>>),
        Take("first", {}, Fail(Refs \o Room)), Take("second", {}, Fail(Refs \o Room)),
        Loop(<<Use({"first", "second"})>>),
        Ask({"first", "second"}, <<SetError>> \o Refs \o Room \o <<Return("error")>>) >>
     \o Refs \o Room
WaitForKernelHandles ==
  << Opt(<<Alloc("handles", Fail(<<>>))>>), Loop(<<Use({})>>),
     Check(<<SetError, Drop("handles"), Return("error")>>), Drop("handles") >>
WaitForMultipleObjectsEx ==
  << Check(Fail(<<>>)), Either(WaitForOwnObjects, WaitForKernelHandles), Return("status") >>
WaitForMultipleObjects == WaitForMultipleObjectsEx
(* A mutex of the driver, an event, or (if it is none) a semaphore.        *)
SignalObjectAndWait ==
  << Either(<<Call({}, Pass(<<>>))>>, <<Check(Fail(<<>>))>>) >> \o WaitForSingleObjectEx
SleepEx == << Loop(<<Use({})>>), Return("status") >>
-----------------------------------------------------------------------------
GlobalMemoryStatusEx ==
  << Check(Fail(<<>>)), Check(Fail(<<>>)), Check(Fail(<<>>)), Check(Fail(<<>>)), Check(Fail(<<>>)) >>
(* A time that does not exist is refused without a last error, and what is *)
(* returned otherwise is the status.                                       *)
SetLocalTime == << Check(<<Return("error")>>), Check(<<SetError, Return("status")>>), Return("status") >>
(* Without an answer the structure stays zeroed.                           *)
GetSystemInfo == << Check(<<Return("ok")>>), Check(<<Return("ok")>>) >>
GetLogicalProcessorInformation == << Check(Fail(<<>>)), Check(Fail(<<>>)) >>
GetLogicalProcessorInformationEx ==
  << Check(Fail(<<>>)), Check(Fail(<<>>)), Opt(<<Return("ok")>>), Check(Fail(<<>>)) >>
GetNumaHighestNodeNumber == <<Check(Fail(<<>>))>>
(* A group that is not there has no processors.                            *)
GetActiveProcessorCount == <<Opt(<<Return("status")>>)>>
GetMaximumProcessorCount == <<Opt(<<Return("status")>>)>>
GetVersion == <<Check(Status(<<>>))>>
VerifyVersionInfoW == << Check(Fail(<<>>)), Check(Fail(<<>>)) >>
VerifyVersionInfoA == <<Check(Fail(<<>>))>> \o VerifyVersionInfoW
(* What RtlGetVersion and the conversion refuse leaves no last error.      *)
GetVersionExW == << Check(Fail(<<>>)), Check(<<Return("error")>>) >>
GetVersionExA == <<Check(Fail(<<>>))>> \o GetVersionExW \o <<Opt(<<Check(<<Return("error")>>)>>)>>

SynchSilentFailures ==
  {"SleepConditionVariableCS", "SleepConditionVariableSRW", "SetLocalTime",
   "GetSystemInfo", "GetVersionExA", "GetVersionExW"}

SynchLibrary == [
  CreateEventA |-> CreateEventA, CreateEventW |-> CreateEventW, CreateEventExW |-> CreateEventExW,
  OpenEventA |-> OpenEventA, OpenEventW |-> OpenEventW, SetEvent |-> SetEvent,
  ResetEvent |-> ResetEvent, PulseEvent |-> PulseEvent, CreateMutexA |-> CreateMutexA,
  CreateMutexW |-> CreateMutexW, CreateMutexExA |-> CreateMutexExA, CreateMutexExW |-> CreateMutexExW,
  OpenMutexA |-> OpenMutexA, OpenMutexW |-> OpenMutexW, ReleaseMutex |-> ReleaseMutex,
  CreateSemaphoreExW |-> CreateSemaphoreExW, ReleaseSemaphore |-> ReleaseSemaphore,
  InitializeCriticalSection |-> InitializeCriticalSection,
  EnterCriticalSection |-> EnterCriticalSection, LeaveCriticalSection |-> LeaveCriticalSection,
  DeleteCriticalSection |-> DeleteCriticalSection,
  InitializeCriticalSectionEx |-> InitializeCriticalSectionEx,
  InitializeCriticalSectionAndSpinCount |-> InitializeCriticalSectionAndSpinCount,
  InitOnceExecuteOnce |-> InitOnceExecuteOnce, InitOnceBeginInitialize |-> InitOnceBeginInitialize,
  InitOnceComplete |-> InitOnceComplete, SleepConditionVariableCS |-> SleepConditionVariableCS,
  SleepConditionVariableSRW |-> SleepConditionVariableSRW, WaitOnAddress |-> WaitOnAddress,
  WaitForSingleObject |-> WaitForSingleObject, WaitForSingleObjectEx |-> WaitForSingleObjectEx,
  WaitForMultipleObjects |-> WaitForMultipleObjects,
  WaitForMultipleObjectsEx |-> WaitForMultipleObjectsEx,
  SignalObjectAndWait |-> SignalObjectAndWait, SleepEx |-> SleepEx,
  GlobalMemoryStatusEx |-> GlobalMemoryStatusEx, SetLocalTime |-> SetLocalTime,
  GetSystemInfo |-> GetSystemInfo, GetLogicalProcessorInformation |-> GetLogicalProcessorInformation,
  GetLogicalProcessorInformationEx |-> GetLogicalProcessorInformationEx,
  GetNumaHighestNodeNumber |-> GetNumaHighestNodeNumber,
  GetActiveProcessorCount |-> GetActiveProcessorCount,
  GetMaximumProcessorCount |-> GetMaximumProcessorCount, GetVersion |-> GetVersion,
  VerifyVersionInfoA |-> VerifyVersionInfoA, VerifyVersionInfoW |-> VerifyVersionInfoW,
  GetVersionExA |-> GetVersionExA, GetVersionExW |-> GetVersionExW ]
=============================================================================
