---------------------------- MODULE ProcessCalls ----------------------------
(***************************************************************************)
(* Thread, process and thread pool functions as sequences of steps         *)
(* (processthreadsapi.c, processhandle.c, threadpoolapiset.c,              *)
(* threadpoollegacyapiset.c).  How threads, thread pool objects and        *)
(* handles live and die while other threads use them is in ThreadContexts, *)
(* ThreadpoolWork, ThreadpoolWatcher and WaitObjects.                      *)
(***************************************************************************)
EXTENDS CallSteps

OpenThread == << Take("thread", {}, Fail(<<>>)), Give("thread") >>
GetThreadPriority == <<Check(Fail(<<>>))>>
SetThreadPriority == <<Check(Fail(<<>>))>>
GetThreadPriorityBoost == <<Check(Fail(<<>>))>>
SetThreadPriorityBoost == <<Check(Fail(<<>>))>>
GetExitCodeThread == <<Check(Fail(<<>>))>>
GetThreadTimes == <<Check(Fail(<<>>))>>
(* The slot's value may well be zero: a success clears the last error.     *)
TlsGetValue == << Check(Fail(<<>>)), SetError >>

(* Masks and groups fall back to what every machine has; nothing fails.    *)
LdkpQueryPrimaryProcessorAffinityMask == << Use({}), Opt(<<Use({})>>) >>
LdkpQueryCurrentThreadGroupAffinity == << Use({}), Opt(LdkpQueryPrimaryProcessorAffinityMask) >>
LdkpValidatePrimaryProcessorAffinityMask(exit) == LdkpQueryPrimaryProcessorAffinityMask \o <<Check(exit)>>
LdkpValidateThreadGroupAffinity(exit) ==
  << Check(exit), Check(exit), Opt(LdkpQueryPrimaryProcessorAffinityMask), Check(exit) >>
LdkpGetThreadIdFromHandle(exit) == <<Check(exit)>>
LdkpValidateThreadHandleForAffinity == LdkpGetThreadIdFromHandle(Fail(<<>>))
GetThreadId == LdkpGetThreadIdFromHandle(Fail(<<>>))
GetThreadGroupAffinity ==
  <<Check(Fail(<<>>))>> \o LdkpValidateThreadHandleForAffinity \o LdkpQueryCurrentThreadGroupAffinity
SetThreadGroupAffinity ==
  LdkpValidateThreadGroupAffinity(Fail(<<>>)) \o LdkpValidateThreadHandleForAffinity
  \o <<Opt(LdkpQueryCurrentThreadGroupAffinity)>>

(* The description and a new entry are made before the list is locked; the *)
(* entry of a thread that has one already takes the description and gives  *)
(* its old one up, once the lock is released.                              *)
LdkpFreeThreadDescriptionEntry == << Drop("description"), Free("entry") >>
SetThreadDescription ==
  << Check(Status(<<>>)) >> \o LdkpGetThreadIdFromHandle(Status(<<>>))
  \o << Alloc("description", Status(<<>>)), Alloc("entry", Status(<<Free("description")>>)),
        Hold("list"),
        Either(<< Keep("entry"), Keep("description"), Free("list") >>,
               << Hold("old"), Keep("description"), Free("list"), Free("old") >>
               \o LdkpFreeThreadDescriptionEntry) >>
(* A description that changed while the copy was allocated is read again.  *)
GetThreadDescription ==
  LET Look == << Hold("list"), Use({"list"}), Free("list"), Alloc("copy", Status(<<>>)),
                 Hold("list"), Use({"list", "copy"}), Free("list") >>
  IN << Check(Status(<<>>)) >> \o LdkpGetThreadIdFromHandle(Status(<<>>))
     \o << Loop(Look \o <<Free("copy")>>) >> \o Look \o << Give("copy") >>
-----------------------------------------------------------------------------
(* A tagged handle is looked up under the list lock and judged after it; a *)
(* pseudo handle is always good.                                           *)
Tagged == << Hold("list"), Use({"list"}), Free("list"), Check(Fail(<<>>)), Check(Fail(<<>>)) >>
LdkResolveProcessHandleForNativeDuplicate == <<Opt(Tagged)>>
LdkResolveProcessHandleForNativeQuery == <<Opt(Tagged)>>
LdkGetProcessIdHandle == <<Opt(Tagged)>>
LdkGetExitCodeProcessHandle == <<Opt(Tagged)>>
LdkValidateProcessHandleForSetInformation == <<Opt(Tagged)>>
LdkTerminateProcessHandle == <<Opt(Tagged)>>
LdkGetProcessImageNameHandle == << Opt(Tagged), Check(Fail(<<>>)) >>

(* One of the driver's own handles, which has reported its error itself,   *)
(* or one that the kernel knows.                                           *)
OwnOrNative(own, native) == <<Either(own, native)>>
GetProcessId == OwnOrNative(LdkGetProcessIdHandle, <<Check(Fail(<<>>))>>)
GetExitCodeProcess == OwnOrNative(LdkGetExitCodeProcessHandle, <<Check(Fail(<<>>))>>)
TerminateProcess ==
  OwnOrNative(LdkTerminateProcessHandle, << Check(Fail(<<>>)), Check(Fail(<<>>)) >>)
GetProcessTimes == LdkResolveProcessHandleForNativeQuery \o <<Check(Fail(<<>>))>>
GetProcessAffinityMask ==
  <<Check(Fail(<<>>))>> \o LdkResolveProcessHandleForNativeQuery \o LdkpQueryPrimaryProcessorAffinityMask
(* Only the driver's own process takes a mask.                             *)
SetProcessAffinityMask ==
  LdkpValidatePrimaryProcessorAffinityMask(Fail(<<>>))
  \o OwnOrNative(LdkValidateProcessHandleForSetInformation, Fail(<<>>))
OpenProcess ==
  << Check(Fail(<<>>)),
     Either(<<CallFor("process", {}, Pass(<<>>))>>, <<Take("process", {}, Fail(<<>>))>>), Give("process") >>

LdkpCopyProcessImageNameA(cleanup) ==
  << Check(Fail(cleanup)), Check(Fail(cleanup)), Check(Fail(cleanup)) >>
LdkpCopyProcessImageNameW(cleanup) ==
  << Check(Fail(cleanup)), Check(Fail(cleanup)), Check(Fail(cleanup)) >>
(* The buffer grows until the name fits; an answer that asks for no more   *)
(* than there was ends the attempts.                                       *)
LdkpQueryNativeProcessImageName ==
  << Loop(<< Alloc("native", Fail(<<>>)), Use({"native"}), Free("native") >>),
     Alloc("native", Fail(<<>>)), Ask({"native"}, <<Free("native")>> \o Fail(<<>>)) >>
QueryFullProcessImageNameA ==
  << Check(Fail(<<>>)), Check(Fail(<<>>)) >>
  \o OwnOrNative(
       LdkGetProcessImageNameHandle
       \o << Either(LdkpCopyProcessImageNameA(<<>>),
                    <<Alloc("name", Fail(<<>>))>> \o LdkpCopyProcessImageNameA(<<Free("name")>>)
                    \o <<Free("name")>>) >>,
       <<Check(Fail(<<>>))>> \o LdkResolveProcessHandleForNativeQuery \o LdkpQueryNativeProcessImageName
       \o << Take("name", {"native"}, Fail(<<Free("native")>>)) >>
       \o LdkpCopyProcessImageNameA(Frees(<<"name", "native">>)) \o Frees(<<"name", "native">>))
QueryFullProcessImageNameW ==
  << Check(Fail(<<>>)), Check(Fail(<<>>)) >>
  \o OwnOrNative(
       LdkGetProcessImageNameHandle
       \o << Either(<<Alloc("name", Fail(<<>>))>> \o LdkpCopyProcessImageNameW(<<Free("name")>>)
                    \o <<Free("name")>>,
                    LdkpCopyProcessImageNameW(<<>>)) >>,
       <<Check(Fail(<<>>))>> \o LdkResolveProcessHandleForNativeQuery \o LdkpQueryNativeProcessImageName
       \o LdkpCopyProcessImageNameW(<<Free("native")>>) \o <<Free("native")>>)
-----------------------------------------------------------------------------
CreateThreadpool == << Check(Fail(<<>>)), Alloc("pool", Fail(<<>>)), Give("pool") >>
PoolUpdate == << Hold("lock"), Use({"lock"}), Free("lock") >>
SetThreadpoolThreadMaximum == << Check(<<SetError, Return("status")>>) >> \o PoolUpdate
SetThreadpoolThreadMinimum == <<Check(Fail(<<>>))>> \o PoolUpdate
QueryThreadpoolStackInformation == <<Check(Fail(<<>>))>> \o PoolUpdate
SetThreadpoolStackInformation == << Check(Fail(<<>>)), Check(Fail(<<>>)) >> \o PoolUpdate
CloseThreadpool == <<Opt(<< Hold("pool"), Free("pool") >>)>>
CreateThreadpoolCleanupGroup == << Alloc("group", Fail(<<>>)), Give("group") >>
CloseThreadpoolCleanupGroup ==
  << Hold("group"), Hold("lock"), Loop(<<Use({"group", "lock"})>>), Free("lock"), Free("group") >>

(* Version, size, priority, group and activation context are looked at.    *)
LdkpCaptureThreadpoolCallbackEnvironment(exit) ==
  <<Opt(<< Check(exit), Opt(<< Check(exit), Check(exit) >>), Check(exit), Check(exit) >>)>>
(* A group that is closed takes no members; the lock is released first.    *)
LdkpRegisterThreadpoolCleanupGroupMember(exit) ==
  <<Opt(<< Hold("lock"), Ask({"lock"}, <<Free("lock")>> \o exit), Free("lock") >>)>>
CreateThreadpoolWork ==
  << Check(Fail(<<>>)), Alloc("work", Fail(<<>>)) >>
  \o LdkpCaptureThreadpoolCallbackEnvironment(<<Free("work")>> \o Fail(<<>>))
  \o LdkpRegisterThreadpoolCleanupGroupMember(<<Free("work")>> \o Fail(<<>>)) \o << Give("work") >>
(* The watcher runs from here on and holds a reference of its own; a timer *)
(* or wait that cannot join its group is closed as its owner would do it.  *)
Watched(exit) ==
  << Check(Fail(<<>>)), Alloc("object", Fail(<<>>)) >>
  \o LdkpCaptureThreadpoolCallbackEnvironment(<<Free("object")>> \o Fail(<<>>))
  \o << Take("watcher", {"object"}, <<Free("object")>> \o Fail(<<>>)) >>
  \o LdkpRegisterThreadpoolCleanupGroupMember(exit)
  \o << Keep("watcher"), Give("object") >>
LdkpCloseThreadpoolTimerInternal == << Use({"watcher"}), Free("watcher") >>
LdkpCloseThreadpoolWaitInternal ==
  << Use({"watcher"}), Free("watcher"), Hold("lock"), Try("target"), Free("lock"), Drop("target") >>
CreateThreadpoolTimer ==
  Watched(LdkpCloseThreadpoolTimerInternal \o <<Free("object")>> \o Fail(<<>>))
CreateThreadpoolWait ==
  Watched(LdkpCloseThreadpoolWaitInternal \o <<Free("object")>> \o Fail(<<>>))
(* No result: the handle that cannot be waited for is in the last error.   *)
SetThreadpoolWait ==
  LET No == <<SetError, Return("status")>>
      Swap(new) == << Hold("lock"), Try("old") >> \o new \o << Free("lock"), Drop("old") >>
  IN << Either(<< Check(No), Take("new", {}, No) >> \o Swap(<<Keep("new")>>), Swap(<<>>)) >>
(* A library to free cannot be noted without memory, nor once the callback *)
(* is over.                                                                *)
FreeLibraryWhenCallbackReturns ==
  << Alloc("module", Status(<<>>)), Hold("lock"),
     Either(<< Free("lock"), Free("module"), Return("status") >>, << Keep("module"), Free("lock") >>) >>

QueueUserWorkItem == <<Check(Fail(<<>>))>>
CreateTimerQueueTimer ==
  << Check(Fail(<<>>)), Check(Fail(<<>>)), Alloc("block", Fail(<<>>)),
     CallFor("timer", {"block"}, Pass(<<Free("block")>>)), Use({"timer"}),
     Keep("timer"), Give("block") >>
DeleteTimerQueueTimer ==
  << Check(Fail(<<>>)), Check(Fail(<<>>)), Hold("block"), Hold("timer"),
     Use({"timer"}), Noise({"timer"}), Free("timer"), Free("block"), Opt(<<Noise({})>>) >>
(* The handle is referenced only to see whether it can be waited for; what *)
(* SetThreadpoolWait makes of it later is not looked at.                   *)
RegisterWaitForSingleObject ==
  << Check(Fail(<<>>)), Check(Fail(<<>>)), Take("target", {}, Fail(<<>>)), Free("target"),
     Alloc("block", Fail(<<>>)), CallFor("wait", {"block"}, Pass(<<Free("block")>>)),
     Noise({"wait"}), Keep("wait"), Give("block") >>
UnregisterWaitEx ==
  << Check(Fail(<<>>)), Hold("block"), Hold("wait"), Use({"block"}), Noise({"wait"}),
     Free("wait"), Free("block"), Opt(<<Noise({})>>) >>
UnregisterWait == UnregisterWaitEx

ProcessLibrary == [
  OpenThread |-> OpenThread, GetThreadPriority |-> GetThreadPriority,
  SetThreadPriority |-> SetThreadPriority, GetThreadPriorityBoost |-> GetThreadPriorityBoost,
  SetThreadPriorityBoost |-> SetThreadPriorityBoost, GetExitCodeThread |-> GetExitCodeThread,
  GetThreadTimes |-> GetThreadTimes, TlsGetValue |-> TlsGetValue, GetThreadId |-> GetThreadId,
  GetThreadGroupAffinity |-> GetThreadGroupAffinity, SetThreadGroupAffinity |-> SetThreadGroupAffinity,
  SetThreadDescription |-> SetThreadDescription, GetThreadDescription |-> GetThreadDescription,
  LdkResolveProcessHandleForNativeDuplicate |-> LdkResolveProcessHandleForNativeDuplicate,
  GetProcessId |-> GetProcessId, GetExitCodeProcess |-> GetExitCodeProcess,
  TerminateProcess |-> TerminateProcess, GetProcessTimes |-> GetProcessTimes,
  GetProcessAffinityMask |-> GetProcessAffinityMask, SetProcessAffinityMask |-> SetProcessAffinityMask,
  OpenProcess |-> OpenProcess, QueryFullProcessImageNameA |-> QueryFullProcessImageNameA,
  QueryFullProcessImageNameW |-> QueryFullProcessImageNameW, CreateThreadpool |-> CreateThreadpool,
  SetThreadpoolThreadMaximum |-> SetThreadpoolThreadMaximum,
  SetThreadpoolThreadMinimum |-> SetThreadpoolThreadMinimum,
  QueryThreadpoolStackInformation |-> QueryThreadpoolStackInformation,
  SetThreadpoolStackInformation |-> SetThreadpoolStackInformation, CloseThreadpool |-> CloseThreadpool,
  CreateThreadpoolCleanupGroup |-> CreateThreadpoolCleanupGroup,
  CloseThreadpoolCleanupGroup |-> CloseThreadpoolCleanupGroup,
  CreateThreadpoolWork |-> CreateThreadpoolWork, CreateThreadpoolTimer |-> CreateThreadpoolTimer,
  CreateThreadpoolWait |-> CreateThreadpoolWait, SetThreadpoolWait |-> SetThreadpoolWait,
  FreeLibraryWhenCallbackReturns |-> FreeLibraryWhenCallbackReturns,
  QueueUserWorkItem |-> QueueUserWorkItem, CreateTimerQueueTimer |-> CreateTimerQueueTimer,
  DeleteTimerQueueTimer |-> DeleteTimerQueueTimer,
  RegisterWaitForSingleObject |-> RegisterWaitForSingleObject, UnregisterWaitEx |-> UnregisterWaitEx ]
=============================================================================
