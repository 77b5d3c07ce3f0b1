----------------------------- MODULE SystemCalls -----------------------------
(***************************************************************************)
(* Console, pipe, handle, memory, heap, error mode, time zone, registry,   *)
(* environment and combase functions as sequences of steps (consoleapi.c,  *)
(* namepipe.c, handleapi.c, memoryapi.c, heapapi.c, errhandlingapi.c,      *)
(* timezoneapi.c, winreg.c, advapi32.c, combase.c of the DLLs and heap.c,  *)
(* environ.c, buffer.c, pipe.c, threads.c of ntdll).                       *)
(***************************************************************************)
EXTENDS CallSteps

(* The handle must be a console handle, and one of the three standard ones.*)
GetConsoleMode == << Check(Fail(<<>>)), Check(Fail(<<>>)), Check(Fail(<<>>)) >>
SetConsoleMode == << Check(Fail(<<>>)), Check(Fail(<<>>)) >>
(* The end of the input is a success with no characters.                   *)
LdkpReadConsole == << Check(Fail(<<>>)), Opt(<<Use({})>>), Opt(<<Return("ok")>>), Check(Fail(<<>>)) >>
ReadConsoleA == LdkpReadConsole
ReadConsoleW == <<Check(Fail(<<>>))>> \o LdkpReadConsole
(* The number of characters is set before they are printed, and a failure  *)
(* to print them leaves no last error.                                     *)
WriteConsoleA == << Check(Fail(<<>>)), Check(Fail(<<>>)), Check(<<Return("error")>>) >>
WriteConsoleW == << Check(Fail(<<>>)), Check(Fail(<<>>)), Check(<<Return("error")>>) >>

NtCreateNamedPipeFile == << Take("pipe", {}, Status(<<>>)), Give("pipe") >>
(* The name is put together in the thread's static string; the write end   *)
(* is opened by that name.                                                 *)
CreatePipe ==
  << Check(Fail(<<>>)), Take("static", {}, Fail(<<>>)), Take("read", {"static"}, Fail(<<>>)),
     Take("write", {"static"}, Fail(<<Free("read")>>)), Give("read"), Give("write") >>
(* Without a buffer the control request itself is refused.                 *)
PeekNamedPipe ==
  << Either(<< Hold("peek"), Check(Fail(<<Free("peek")>>)), Opt(<<Use({})>>),
               Ask({"peek"}, Fail(<<Free("peek")>>)), Free("peek") >>,
            <<Check(Fail(<<>>))>>) >>

(* A handle of the driver reports its own error; INVALID_HANDLE_VALUE and  *)
(* the pseudo handles are refused before the kernel sees them.             *)
CloseHandle == << Either(<<Call({}, Pass(<<>>))>>, << Check(Fail(<<>>)), Check(Fail(<<>>)) >>) >>
DuplicateHandle ==
  << Call({}, Pass(<<>>)), Call({}, Pass(<<>>)),
     Either(<<CallFor("target", {}, Pass(<<>>))>>, <<Take("target", {}, Fail(<<>>))>>), Give("target") >>

VirtualQuery == << Check(Fail(<<>>)), Check(Fail(<<>>)) >>
VirtualProtect == << Check(Fail(<<>>)), Check(Fail(<<>>)) >>
VirtualFree == << Check(Fail(<<>>)), Check(Fail(<<>>)), Check(Fail(<<>>)) >>
-----------------------------------------------------------------------------
(* Blocks are linked into one list, behind one spin lock.                  *)
LdkAllocateHeap ==
  << Check(Status(<<>>)), Alloc("block", Status(<<>>)), Hold("list"), Use({"list", "block"}),
     Free("list"), Give("block") >>
LdkFreeHeap == <<Opt(<< Hold("block"), Hold("list"), Use({"list", "block"}), Free("list"), Free("block") >>)>>
(* The old block is given up only once the new one is there.               *)
LdkReAllocateHeap ==
  << Check(Status(<<>>)), Check(Status(<<>>)), Alloc("new", Status(<<>>)), Hold("old"),
     Use({"old", "new"}), Free("old"), Give("new") >>
LdkSizeHeap == << Check(Status(<<>>)), Check(Status(<<>>)) >>
LdkWalkHeap ==
  LET Out == Status(<<Free("list")>>) IN
  << Check(Status(<<>>)), Hold("list"), Opt(<< Ask({"list"}, Out), Ask({"list"}, Out) >>),
     Loop(<<Use({"list"})>>), Ask({"list"}, Out), Free("list") >>
LdkValidateHeap == << Check(Status(<<>>)), Check(Status(<<>>)) >>

HeapCreate == << Use({}), Take("heap", {}, Fail(<<>>)), Give("heap") >>
HeapDestroy == <<Check(Fail(<<>>))>>
HeapCompact == << Check(Fail(<<>>)), Return("ok") >>
HeapWalk == << Check(Fail(<<>>)), Check(Fail(<<>>)) >>
HeapQueryInformation == << Check(Fail(<<>>)), Check(Fail(<<>>)) >>
-----------------------------------------------------------------------------
GetErrorMode == <<Check(Fail(<<>>))>>
(* A mode that cannot be read counts as zero and is not a failure.         *)
SetErrorMode == << Noise({}), Check(Fail(<<>>)) >>
(* What a filter decides is a value of its own: a fault that is not one of *)
(* writing to a read-only resource is searched further.                    *)
CheckForReadOnlyResource ==
  << Check(Status(<<>>)), Check(Status(<<>>)), Check(Status(<<>>)), Check(Status(<<>>)),
     Check(Status(<<>>)), Opt(<<Check(Status(<<>>))>>), Return("status") >>
UnhandledExceptionFilter ==
  << Opt(<<Return("status")>>), Opt(<<Return("status")>>), Opt(<<Use({}), Opt(<<Return("status")>>)>>),
     Noise({}), Opt(<<Return("status")>>), Opt(<<Return("status")>>), Use({}), Return("status") >>

FileTimeToSystemTime == <<Check(Fail(<<>>))>>
SystemTimeToFileTime == <<Check(Fail(<<>>))>>
GetTimeZoneInformation == <<Check(Fail(<<>>))>>
SystemTimeToTzSpecificLocalTime ==
  << Opt(<<Call({}, Pass(<<>>))>>), Call({}, Pass(<<>>)),
     Opt(<< Check(Fail(<<>>)), Check(Fail(<<>>)) >>), Call({}, Pass(<<>>)) >>
-----------------------------------------------------------------------------
LdkpBuildAbsoluteRegistryPath == << Check(Status(<<>>)), Check(Status(<<>>)) >>
RegOpenKeyExW ==
  << Check(Status(<<>>)), Check(Status(<<>>)), Opt(LdkpBuildAbsoluteRegistryPath),
     Take("key", {}, Status(<<>>)), Give("key") >>
(* The value is asked for its length, read into a block of that length and *)
(* copied if the caller's buffer holds it; a value that has grown between  *)
(* the two questions is an error.                                          *)
RegQueryValueExW ==
  << Check(Status(<<>>)), Check(Status(<<>>)), Check(Status(<<>>)), Check(Status(<<>>)),
     Alloc("value", Status(<<>>)), Ask({"value"}, Status(<<Free("value")>>)),
     Opt(<<Ask({"value"}, Status(<<Free("value")>>))>>), Opt(<<Use({"value"})>>), Free("value") >>
RegCloseKey == << Opt(<<Return("ok")>>), Check(Status(<<>>)) >>

(* A given environment needs the lock only for the pseudo variables        *)
(* __CD__ and __APPDIR__; the process environment is read under it.        *)
RtlQueryEnvironmentVariable_U ==
  LET NotFound == Either(<<Check(Status(<<Drop("peb")>>))>>,
                         << Check(Status(<<Drop("peb")>>)), Opt(<<Check(Status(<<Drop("peb")>>))>>) >>)
  IN << Either(<< Opt(Status(<<>>)), Either(<<Check(Status(<<>>))>>, << Opt(<<Hold("peb")>>), NotFound >>) >>,
               << Hold("peb"), NotFound >>),
        Drop("peb") >>
(* The new block takes the place of the old one before that is freed.      *)
RtlSetEnvironmentVariable ==
  << Check(Status(<<>>)), Check(Status(<<>>)), Check(Status(<<>>)), Try("peb"),
     Opt(<< Drop("peb"), Return("ok") >>),
     Alloc("new", Status(<<Drop("peb")>>)), Use({"new"}), Keep("new"),
     Opt(<< Hold("old"), Free("old") >>), Drop("peb") >>

RtlpEnsureBufferSize ==
  << Check(Status(<<>>)), Check(Status(<<>>)), Opt(<<Return("ok")>>), Opt(<<Return("ok")>>),
     Alloc("buffer", Status(<<>>)), Opt(<<Use({"buffer"})>>), Opt(<< Hold("old"), Free("old") >>),
     Give("buffer") >>
RtlMultiAppendUnicodeStringBuffer == << Check(Status(<<>>)), Check(Status(<<>>)) >> \o RtlpEnsureBufferSize

(* The item is freed by the worker, after the function has run.            *)
RtlQueueWorkItem == << Alloc("item", Status(<<>>)), Keep("item") >>
LdkpWokerThreadRoutine == << Hold("item"), Use({"item"}), Free("item") >>
SystemFunction036 == << Opt(<<Return("ok")>>), Check(Status(<<>>)), Check(Status(<<>>)) >>
-----------------------------------------------------------------------------
CoTaskMemAlloc == << Alloc("block", Status(<<>>)), Give("block") >>
CoTaskMemFree == <<Opt(<< Hold("block"), Free("block") >>)>>
(* There are no classes, marshalers or streams: what is left after the     *)
(* arguments and the apartment have been checked is a refusal.             *)
CoCreateInstance == << Check(Status(<<>>)), Check(Status(<<>>)), Check(Status(<<>>)), Return("status") >>
CoCreateFreeThreadedMarshaler == << Check(Status(<<>>)), Check(Status(<<>>)), Return("status") >>
CoGetObjectContext == << Check(Status(<<>>)), Check(Status(<<>>)), Return("status") >>
CoMarshalInterThreadInterfaceInStream ==
  << Check(Status(<<>>)), Check(Status(<<>>)), Check(Status(<<>>)), Return("status") >>
CoGetInterfaceAndReleaseStream ==
  << Check(Status(<<>>)), Check(Status(<<>>)), Check(Status(<<>>)), Return("status") >>
RoRegisterForApartmentShutdown ==
  << Check(Status(<<>>)), Alloc("registration", Status(<<>>)), Use({"registration"}), Give("registration") >>
RoUnregisterForApartmentShutdown ==
  << Check(Status(<<>>)), Check(Status(<<>>)), Hold("registration"), Use({"registration"}), Free("registration") >>
LdkpCombaseReferenceHstring == <<Check(Status(<<>>))>>
WindowsCreateString ==
  << Check(Status(<<>>)), Opt(<<Return("ok")>>), Check(Status(<<>>)), Check(Status(<<>>)),
     Alloc("record", Status(<<>>)), Use({"record"}), Give("record") >>
WindowsCreateStringReference ==
  << Check(Status(<<>>)), Opt(<<Return("ok")>>), Check(Status(<<>>)), Check(Status(<<>>)) >>
(* A string by reference lives in the header of its creator.               *)
WindowsDeleteString ==
  << Opt(<<Return("ok")>>) >> \o LdkpCombaseReferenceHstring
  \o << Opt(<< Hold("record"), Use({"record"}), Free("record") >>) >>
WindowsStringHasEmbeddedNull ==
  << Check(Status(<<>>)), Opt(<<Return("ok")>>) >> \o LdkpCombaseReferenceHstring

SystemSilentFailures == {"WriteConsoleA", "WriteConsoleW"}

SystemLibrary == [
  GetConsoleMode |-> GetConsoleMode, SetConsoleMode |-> SetConsoleMode, ReadConsoleA |-> ReadConsoleA,
  ReadConsoleW |-> ReadConsoleW, WriteConsoleA |-> WriteConsoleA, WriteConsoleW |-> WriteConsoleW,
  NtCreateNamedPipeFile |-> NtCreateNamedPipeFile, CreatePipe |-> CreatePipe,
  PeekNamedPipe |-> PeekNamedPipe, CloseHandle |-> CloseHandle, DuplicateHandle |-> DuplicateHandle,
  VirtualQuery |-> VirtualQuery, VirtualProtect |-> VirtualProtect, VirtualFree |-> VirtualFree,
  LdkAllocateHeap |-> LdkAllocateHeap, LdkFreeHeap |-> LdkFreeHeap,
  LdkReAllocateHeap |-> LdkReAllocateHeap, LdkSizeHeap |-> LdkSizeHeap, LdkWalkHeap |-> LdkWalkHeap,
  LdkValidateHeap |-> LdkValidateHeap, HeapCreate |-> HeapCreate, HeapDestroy |-> HeapDestroy,
  HeapCompact |-> HeapCompact, HeapWalk |-> HeapWalk, HeapQueryInformation |-> HeapQueryInformation,
  GetErrorMode |-> GetErrorMode, SetErrorMode |-> SetErrorMode,
  CheckForReadOnlyResource |-> CheckForReadOnlyResource,
  UnhandledExceptionFilter |-> UnhandledExceptionFilter, FileTimeToSystemTime |-> FileTimeToSystemTime,
  SystemTimeToFileTime |-> SystemTimeToFileTime, GetTimeZoneInformation |-> GetTimeZoneInformation,
  SystemTimeToTzSpecificLocalTime |-> SystemTimeToTzSpecificLocalTime, RegOpenKeyExW |-> RegOpenKeyExW,
  RegQueryValueExW |-> RegQueryValueExW, RegCloseKey |-> RegCloseKey,
  RtlQueryEnvironmentVariable_U |-> RtlQueryEnvironmentVariable_U,
  RtlSetEnvironmentVariable |-> RtlSetEnvironmentVariable,
  RtlMultiAppendUnicodeStringBuffer |-> RtlMultiAppendUnicodeStringBuffer,
  RtlpEnsureBufferSize |-> RtlpEnsureBufferSize, RtlQueueWorkItem |-> RtlQueueWorkItem,
  LdkpWokerThreadRoutine |-> LdkpWokerThreadRoutine, SystemFunction036 |-> SystemFunction036,
  CoTaskMemAlloc |-> CoTaskMemAlloc, CoTaskMemFree |-> CoTaskMemFree, CoCreateInstance |-> CoCreateInstance,
  CoCreateFreeThreadedMarshaler |-> CoCreateFreeThreadedMarshaler,
  CoGetObjectContext |-> CoGetObjectContext,
  CoMarshalInterThreadInterfaceInStream |-> CoMarshalInterThreadInterfaceInStream,
  CoGetInterfaceAndReleaseStream |-> CoGetInterfaceAndReleaseStream,
  RoRegisterForApartmentShutdown |-> RoRegisterForApartmentShutdown,
  RoUnregisterForApartmentShutdown |-> RoUnregisterForApartmentShutdown,
  WindowsCreateString |-> WindowsCreateString,
  WindowsCreateStringReference |-> WindowsCreateStringReference,
  WindowsDeleteString |-> WindowsDeleteString,
  WindowsStringHasEmbeddedNull |-> WindowsStringHasEmbeddedNull ]
=============================================================================
