----------------------------- MODULE LibraryCalls -----------------------------
(***************************************************************************)
(* The module functions of kernel32 (libloaderapi.c) and the functions on  *)
(* the process environment (processenv.c) as sequences of steps.           *)
(*                                                                         *)
(* "peb" is the PEB lock, "dll" a counted reference to a module, the other *)
(* names are heap blocks.                                                  *)
(***************************************************************************)
EXTENDS FileCalls

(* The name of the module, or of the main image; a truncated copy is       *)
(* reported with the size of the buffer and an error.                      *)
GetModuleFileNameA == << Check(Fail(<<>>)), Check(Fail(<<>>)), Check(Fail(<<>>)) >>
GetModuleFileNameW == << Check(Fail(<<>>)), Check(Fail(<<>>)), Check(Fail(<<>>)) >>

(* A reference is counted unless the flags ask for none.  An address       *)
(* outside every module may still lie in the main image.                   *)
GetModuleHandleExA ==
  LET Referenced(exit) == Either(<<Take("dll", {}, exit), Give("dll")>>, <<Check(exit)>>) IN
  << Check(Fail(<<>>)), Check(Fail(<<>>)),
     Either(<<Opt(<<Return("ok")>>), Referenced(Fail(<<>>))>>,
            <<Check(Fail(<<>>))>>) >>
GetModuleHandleExW ==
  Either(<< Alloc("ansi", Fail(<<>>)),
            Either(<<CallFor("dll", {"ansi"}, Pass(<<Free("ansi")>>)), Give("dll")>>,
                   <<Call({"ansi"}, Pass(<<Free("ansi")>>))>>),
            Free("ansi") >>,
         GetModuleHandleExA)
GetModuleHandleA == <<Call({}, Pass(<<>>))>>
GetModuleHandleW == <<Call({}, Pass(<<>>))>>
GetProcAddress == << Check(Fail(<<>>)), Check(Fail(<<>>)), Check(Fail(<<>>)) >>

(* The parts of the search path: the directory of the library itself, of   *)
(* the main image, the PATH variable (read again into a larger block as    *)
(* long as it does not fit), the user's directories under the PEB lock.    *)
LdkpDuplicateDirectoryFromPath(exit) == Opt(<<Alloc("load", exit)>>)
LdkpDuplicateImageDirectory(exit) == Opt(<<Alloc("image", exit)>>)
LdkpDuplicateEnvironmentPath(exit) ==
  << Alloc("env", exit), Loop(<<Ask({"env"}, <<Free("env")>> \o exit)>>), Use({"env"}) >>
LdkpAppendDllPathElement(to, exit) == Opt(<<Opt(<<Ask({to}, exit)>>), Ask({to}, exit)>>)
LdkpDuplicateUserDllDirectories(exit) ==
  LET Unlock == <<Free("peb")>> IN
  << Hold("peb"),
     Either(Unlock,
            << Check(Unlock \o exit), Alloc("user", Unlock \o exit),
               Loop(<<LdkpAppendDllPathElement("user", Unlock \o <<Free("user")>> \o exit)>>),
               Free("peb") >>) >>
LdkpGetDefaultDllDirectories == << Hold("peb"), Free("peb") >>
LdkpComputeDllPath(exit) ==
  LET Cleanup == Drops(<<"load", "image", "env", "user">>)
      Out     == Cleanup \o exit
  IN << LdkpDuplicateDirectoryFromPath(Out), LdkpDuplicateImageDirectory(Out) >>
     \o LdkpDuplicateEnvironmentPath(Out) \o LdkpDuplicateUserDllDirectories(Out)
     \o << Alloc("search", Out), Opt(LdkpGetDefaultDllDirectories),
           Loop(<<LdkpAppendDllPathElement("search", <<Free("search")>> \o Out)>>) >>
     \o Cleanup
LoadLibraryExW ==
  << Check(Fail(<<>>)), Opt(<<Return("ok")>>) >> \o LdkpComputeDllPath(Fail(<<>>))
  \o << Take("dll", {"search"}, Fail(<<Free("search")>>)), Free("search"), Give("dll") >>
LoadLibraryW == LoadLibraryExW
LoadLibraryA == <<Ldk8BitStringToStaticUnicodeString>> \o LoadLibraryExW
LoadLibraryExA == <<Ldk8BitStringToStaticUnicodeString>> \o LoadLibraryExW
DisableThreadLibraryCalls == << Check(Fail(<<>>)), Check(Fail(<<>>)), Check(Fail(<<>>)) >>
FreeLibrary == << Check(Fail(<<>>)), Check(Fail(<<>>)), Check(Fail(<<>>)) >>
-----------------------------------------------------------------------------
(* An unknown standard handle is refused without a last error.             *)
SetStdHandleEx == <<Check(<<Return("error")>>)>>
SetStdHandle == SetStdHandleEx

LdkAnsiStringToStaticUnicodeString(exit) == CallFor("static", {}, exit)
LdkpCheckForSameCurdir ==
  Opt(<<Hold("peb"), Free("peb"), Opt(<<Return("ok")>>)>>)
GetCurrentDirectoryA ==
  << Check(Fail(<<>>)), Opt(<<Check(Fail(<<>>))>>) >>
(* The A form tries once more without a leading quotation mark.            *)
SetCurrentDirectoryA ==
  << Ldk8BitStringToStaticUnicodeString, LdkpCheckForSameCurdir,
     Either(<<Ask({"static"}, Fail(<<>>))>>,
            <<Call({}, Pass(<<>>)), Ask({"static"}, Fail(<<>>))>>) >>
SetCurrentDirectoryW == << LdkpCheckForSameCurdir, Check(Fail(<<>>)) >>

LdkpDuplicateDllDirectoryString(exit) == << Check(exit), Alloc("string", exit) >>
(* The new directory replaces the old one, which is freed.                 *)
LdkpSetDllDirectory ==
  LET Swap(new) == <<Hold("peb"), Hold("old")>> \o new \o <<Free("peb"), Free("old")>> IN
  <<Either(LdkpDuplicateDllDirectoryString(Fail(<<>>)) \o Swap(<<Keep("string")>>),
           Swap(<<>>))>>
SetDllDirectoryA ==
  << Opt(<<Ldk8BitStringToStaticUnicodeString>>) >> \o LdkpSetDllDirectory
SetDllDirectoryW == LdkpSetDllDirectory
(* A copy of the directory, taken under the lock, and the caller's buffer: *)
(* missing, too small (the size is returned) or filled.                    *)
GetDllDirectoryW ==
  LET Copied ==
        << Alloc("dir", Fail(<<Free("peb")>>)), Free("peb"),
           Opt(<<Free("dir"), Return("ok")>>), Check(Fail(<<Free("dir")>>)),
           Opt(<<Free("dir"), Return("ok")>>), Use({"dir"}), Free("dir"), Return("ok") >>
  IN << Hold("peb"), Opt(Copied), Free("peb"),
        Opt(<<Return("ok")>>), Check(Fail(<<>>)) >>
GetDllDirectoryA ==
  LET Copied ==
        << Alloc("dir", Fail(<<Free("peb")>>)), Free("peb"),
           Ask({"dir"}, Fail(<<Free("dir")>>)),
           Opt(<<Free("dir"), Return("ok")>>), Check(Fail(<<Free("dir")>>)),
           Opt(<<Free("dir"), Return("ok")>>),
           Ask({"dir"}, Fail(<<Free("dir")>>)), Free("dir"), Return("ok") >>
  IN << Hold("peb"), Opt(Copied), Free("peb"),
        Opt(<<Return("ok")>>), Check(Fail(<<>>)) >>
AddDllDirectory ==
  << Check(Fail(<<>>)), Alloc("entry", Fail(<<>>)) >>
  \o LdkpDuplicateDllDirectoryString(Fail(<<Free("entry")>>))
  \o << Hold("peb"), Keep("entry"), Keep("string"), Free("peb") >>
(* Only an entry that is in the list is taken out and freed.               *)
RemoveDllDirectory ==
  << Check(Fail(<<>>)), Hold("peb"),
     Either(<<Hold("entry"), Hold("string"), Free("peb")>>,
            <<Free("peb"), SetError, Return("error")>>),
     Free("string"), Free("entry") >>
SetDefaultDllDirectories == << Check(Fail(<<>>)), Hold("peb"), Free("peb") >>

GetEnvironmentStrings ==
  LET Out == <<SetError, Free("peb"), Return("error")>> IN
  << Hold("peb"), Check(Out), Alloc("block", Out),
     Ask({"block"}, <<Free("block")>> \o Out), Free("peb"), Give("block") >>
GetEnvironmentStringsW ==
  << Hold("peb"), Alloc("block", <<SetError, Free("peb"), Return("error")>>),
     Free("peb"), Give("block") >>
(* The variable is asked for again when it does not fit, and may be gone   *)
(* by then: 0 is returned and the last error is what it was.               *)
GetEnvironmentVariableA ==
  << LdkAnsiStringToStaticUnicodeString(Pass(<<>>)), Alloc("value", Fail(<<>>)),
     Either(<<Ask({"static", "value"}, Fail(<<Free("value")>>)), Free("value")>>,
            << Opt(<<Free("value"), SetError, Return("error")>>),
               Ask({"value"}, Fail(<<Free("value")>>)),
               Ask({"static", "value"}, <<Free("value"), Return("error")>>),
               Free("value") >>) >>
GetEnvironmentVariableW == << Opt(<<Return("ok")>>), Check(Fail(<<>>)) >>
SetEnvironmentVariableA ==
  << LdkAnsiStringToStaticUnicodeString(Fail(<<>>)),
     Opt(<<Alloc("value", Fail(<<>>))>>),
     Ask({"static"}, <<Drop("value")>> \o Fail(<<>>)), Drop("value") >>
SetEnvironmentVariableW == <<Check(Fail(<<>>))>>

LibrarySilentFailures == {"SetStdHandleEx", "SetStdHandle", "GetEnvironmentVariableA"}

LibraryLibrary == [
  GetModuleFileNameA |-> GetModuleFileNameA, GetModuleFileNameW |-> GetModuleFileNameW,
  GetModuleHandleA |-> GetModuleHandleA, GetModuleHandleW |-> GetModuleHandleW,
  GetModuleHandleExA |-> GetModuleHandleExA, GetModuleHandleExW |-> <<GetModuleHandleExW>>,
  GetProcAddress |-> GetProcAddress, LoadLibraryA |-> LoadLibraryA,
  LoadLibraryW |-> LoadLibraryW, LoadLibraryExA |-> LoadLibraryExA,
  LoadLibraryExW |-> LoadLibraryExW, FreeLibrary |-> FreeLibrary,
  DisableThreadLibraryCalls |-> DisableThreadLibraryCalls,
  SetStdHandle |-> SetStdHandle, SetStdHandleEx |-> SetStdHandleEx,
  GetCurrentDirectoryA |-> GetCurrentDirectoryA,
  SetCurrentDirectoryA |-> SetCurrentDirectoryA,
  SetCurrentDirectoryW |-> SetCurrentDirectoryW,
  SetDllDirectoryA |-> SetDllDirectoryA, SetDllDirectoryW |-> SetDllDirectoryW,
  GetDllDirectoryA |-> GetDllDirectoryA, GetDllDirectoryW |-> GetDllDirectoryW,
  AddDllDirectory |-> AddDllDirectory, RemoveDllDirectory |-> RemoveDllDirectory,
  SetDefaultDllDirectories |-> SetDefaultDllDirectories,
  GetEnvironmentStrings |-> GetEnvironmentStrings,
  GetEnvironmentStringsW |-> GetEnvironmentStringsW,
  GetEnvironmentVariableA |-> GetEnvironmentVariableA,
  GetEnvironmentVariableW |-> GetEnvironmentVariableW,
  SetEnvironmentVariableA |-> SetEnvironmentVariableA,
  SetEnvironmentVariableW |-> SetEnvironmentVariableW ]
=============================================================================
