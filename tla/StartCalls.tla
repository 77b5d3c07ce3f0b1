------------------------------ MODULE StartCalls ------------------------------
(***************************************************************************)
(* The life of the driver (main.c, ldk.c, peb.c, subs.c and the            *)
(* initialization and termination routines of the parts) as one sequence   *)
(* of steps: every part is set up after the ones it needs, a failure takes *)
(* down what is up so far, and the unload takes down everything.           *)
(*                                                                         *)
(* A resource is a part that is up, named for what it manages, or a block, *)
(* handle or device that a part holds.  The caller of every part looks at  *)
(* its status, so each is allowed to fail, also those that today cannot.   *)
(***************************************************************************)
EXTENDS CallSteps

LdkDuplicateUnicodeString == << Alloc("buffer", Status(<<>>)), Give("buffer") >>
LdkDuplicateAnsiString == << Alloc("buffer", Status(<<>>)), Give("buffer") >>
LdkAnsiStringToUnicodeString ==
  <<Either(<<Alloc("buffer", Status(<<>>)), Ask({"buffer"}, Status(<<Free("buffer")>>)), Give("buffer")>>,
           <<Check(Status(<<>>))>>)>>
LdkUnicodeStringToAnsiString ==
  <<Either(<<Alloc("buffer", Status(<<>>)), Ask({"buffer"}, Status(<<Free("buffer")>>)), Give("buffer")>>,
           <<Check(Status(<<>>))>>)>>
(* A list of modules that does not fit is asked for again in a larger      *)
(* buffer; it has grown meanwhile as often as it likes.                    *)
LdkQueryModuleInformationFromAddress(exit) ==
  << Alloc("modules", exit), Loop(<<Free("modules"), Alloc("modules", exit)>>),
     Ask({"modules"}, <<Free("modules")>> \o exit),
     Ask({"modules"}, <<Free("modules")>> \o exit), Free("modules") >>
-----------------------------------------------------------------------------
(* Blocks of the process heap are in the heap list, whose end frees the    *)
(* ones that are left.                                                     *)
HeapBlock(r, exit) == Take(r, {"heapList"}, exit)
FreeBlock(r) == <<Use({"heapList"}), Drop(r)>>
LdkpInitializeHeapList(exit) == <<Take("heapList", {}, exit)>>
LdkpTerminateHeapList == << Drop("block"), Drop("messages"), Free("heapList") >>

LdkpUninitializeStdio ==
  Drops(<<"stdinHandle", "stdin", "stdoutHandle", "stdout", "stderrHandle", "stderr">>)
LdkpInitializeStdio(exit) ==
  LET Out == LdkpUninitializeStdio \o exit IN
  << Alloc("stdin", Out), Take("stdinHandle", {"stdin"}, Out),
     Alloc("stdout", Out), Take("stdoutHandle", {"stdout"}, Out),
     Alloc("stderr", Out), Take("stderrHandle", {"stderr"}, Out) >>

LdkpFreeDllDirectoryList == FreeBlock("dllDirectories")
(* A standard handle that the driver has replaced is closed here, its own  *)
(* with the devices.                                                       *)
LdkpUninitializeProcessParameters ==
  << Drop("redirected"), Free("dllPath"), Drop("dllDirectory") >> \o LdkpFreeDllDirectoryList
  \o Frees(<<"dosPath", "imagePath">>) \o FreeBlock("environment") \o LdkpUninitializeStdio
(* The environment gets four variables, each of which may move it.         *)
LdkpInitializeProcessParameters(exit) ==
  LET Early == FreeBlock("environment") \o LdkpUninitializeStdio \o exit
      Late  == LdkpUninitializeProcessParameters \o exit
  IN LdkpInitializeStdio(exit)
     \o << HeapBlock("environment", LdkpUninitializeStdio \o exit),
           Ask({"environment"}, Early), Ask({"environment"}, Early), Ask({"environment"}, Early),
           Alloc("imagePath", Early), Alloc("dosPath", <<Free("imagePath")>> \o Early),
           Alloc("dllPath", <<Free("dosPath"), Free("imagePath")>> \o Early),
           HeapBlock("path", Late), Ask({"environment", "path"}, FreeBlock("path") \o Late) >>
     \o FreeBlock("path")

LdkpInitializePebNames(exit) ==
  LdkQueryModuleInformationFromAddress(exit)
  \o << Alloc("registryPath", exit), Alloc("fullPathName", <<Free("registryPath")>> \o exit),
        Ask({"fullPathName"}, Frees(<<"fullPathName", "registryPath">>) \o exit) >>
LdkpInitializePeb(exit) ==
  LET Names == Frees(<<"fullPathName", "registryPath">>) \o exit IN
  LdkpInitializePebNames(exit)
  \o << Alloc("processHeap", Names) >>
  \o LdkpInitializeProcessParameters(<<Free("processHeap")>> \o Names)
  \o << Alloc("moduleList", LdkpUninitializeProcessParameters \o <<Free("processHeap")>> \o Names) >>
LdkpTerminatePeb ==
  <<Free("moduleList")>> \o LdkpUninitializeProcessParameters
  \o Frees(<<"processHeap", "fullPathName", "registryPath">>)

LdkpInitializeTebMap(exit) ==
  << Take("exceptions", {}, exit), Hold("tebs") >>
(* The TEBs go back with what the exception dispatcher left in them.       *)
LdkpTerminateTebMap ==
  << Use({"exceptions"}), Drop("teb"), Free("tebs"), Free("exceptions") >>

LdkpNtdllInitialize(exit) ==
  << Take("keyedEvents", {}, exit),
     Take("alerts", {}, <<Free("keyedEvents")>> \o exit),
     Take("addresses", {}, Frees(<<"alerts", "keyedEvents">>) \o exit),
     Take("workItems", {}, Frees(<<"addresses", "alerts", "keyedEvents">>) \o exit) >>
(* The reference of the process to its current directory, and what the     *)
(* critical sections left to be deleted later.                             *)
LdkpTerminateCurDir == FreeBlock("currentDirectory")
LdkpNtdllTerminate ==
  LdkpTerminateCurDir \o FreeBlock("deferred")
  \o Frees(<<"workItems", "addresses", "alerts", "keyedEvents">>)

(* The message images are read if they can be.                             *)
LdkpInitializeWinBaseMessageResources == << Use({"heapList"}), Try("messages") >>
LdkpTerminateWinBaseMessageResources == FreeBlock("messages")
LdkpTerminateNls == FreeBlock("codePageTables") \o <<Free("codePages")>>
LdkpInitializeNls(exit) ==
  << Take("codePages", {}, exit), Ask({"codePages"}, LdkpTerminateNls \o exit) >>
(* No thread is left when the contexts go.                                 *)
LdkpTerminateThreadContexts ==
  <<Use({"contexts", "alerts", "tebs"})>> \o FreeBlock("descriptions") \o <<Free("contexts")>>
(* A failure leaves the message images to the end of the heap list.        *)
LdkpKernel32Initialize(exit) ==
  LdkpInitializeWinBaseMessageResources
  \o << Take("processHandles", {}, exit),
        Take("threadpool", {}, <<Free("processHandles")>> \o exit),
        Take("contexts", {}, Frees(<<"threadpool", "processHandles">>) \o exit) >>
  \o LdkpInitializeNls(LdkpTerminateThreadContexts \o Frees(<<"threadpool", "processHandles">>) \o exit)
LdkpKernel32Terminate ==
  LdkpTerminateNls \o LdkpTerminateThreadContexts
  \o Frees(<<"threadpool", "processHandles">>) \o LdkpTerminateWinBaseMessageResources
-----------------------------------------------------------------------------
LdkInitialize(exit) ==
  LET Cleanup == <<Free("globalFlags")>> \o exit
      Heap    == LdkpTerminateHeapList \o Cleanup
      Peb     == LdkpTerminatePeb \o Heap
      Tebs    == LdkpTerminateTebMap \o Peb
  IN << Hold("globalFlags"), Opt(<<Free("globalFlags"), Return("status")>>) >>
     \o LdkpInitializeHeapList(Cleanup) \o LdkpInitializePeb(Heap)
     \o LdkpInitializeTebMap(Peb) \o LdkpNtdllInitialize(Tebs)
     \o LdkpKernel32Initialize(LdkpNtdllTerminate \o Tebs)
     \o << Free("globalFlags") >>

(* The threads are waited for without the lock, which they may need.  (A   *)
(* driver that is not initialised returns at both locks; here it is.)      *)
LdkPrepareForTermination ==
  << Hold("globalFlags"), Free("globalFlags"), Use({"contexts"}) >>
LdkTerminate ==
  LdkPrepareForTermination
  \o << Hold("globalFlags"), Use({"moduleList", "contexts", "tebs"}), Drop("dll") >>
  \o LdkpKernel32Terminate \o LdkpNtdllTerminate \o LdkpTerminateTebMap
  \o LdkpTerminatePeb \o LdkpTerminateHeapList \o << Free("globalFlags") >>

(* What the driver's own code may leave behind when it is unloaded: blocks *)
(* of the heap, modules, a current directory, a redirected standard handle *)
(* or search directories, cached code pages, names of threads, TEBs.       *)
Leftovers ==
  << Try("block"), Try("dll"), Hold("teb"),
     Opt(<<Hold("currentDirectory"), Hold("redirected"), Hold("dllDirectory")>>),
     Opt(<<Hold("dllDirectories"), Hold("codePageTables"), Hold("descriptions"), Hold("deferred")>>) >>
LdkDriverUnload == LdkTerminate
LdkDriverEntry ==
  LdkInitialize(Status(<<>>)) \o Leftovers
  \o << Check(LdkTerminate \o Status(<<>>)) >>
  \o LdkDriverUnload

StartLibrary == [
  LdkDuplicateUnicodeString |-> LdkDuplicateUnicodeString, LdkDuplicateAnsiString |-> LdkDuplicateAnsiString,
  LdkAnsiStringToUnicodeString |-> LdkAnsiStringToUnicodeString,
  LdkUnicodeStringToAnsiString |-> LdkUnicodeStringToAnsiString, LdkDriverEntry |-> LdkDriverEntry]
=============================================================================
