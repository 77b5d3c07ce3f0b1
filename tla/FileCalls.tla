------------------------------ MODULE FileCalls ------------------------------
(***************************************************************************)
(* The file functions of kernel32 (fileapi.c) as sequences of steps:       *)
(* opening, reading, attributes, locks, deletion, copies and links.        *)
(*                                                                         *)
(* "path" is the NT name that RtlDosPathNameToNtPathName_U allocates,      *)
(* "handle" the file the function opened, "static" the conversion buffer   *)
(* of the TEB.  Handles that the caller passes in are the caller's.        *)
(***************************************************************************)
EXTENDS CallSteps

(* The conversion of a name: into the TEB's buffer, or a block of its own. *)
Ldk8BitStringToStaticUnicodeString == CallFor("static", {}, Pass(<<>>))
Ldk8BitStringToDynamicUnicodeString(r, exit) == CallFor(r, {}, exit)

LdkpCaptureAnsiFileNamePair ==
  << Ldk8BitStringToDynamicUnicodeString("first", Pass(<<>>)),
     Ldk8BitStringToDynamicUnicodeString("second", Pass(<<Free("first")>>)) >>
LdkpReleaseAnsiFileNamePair == Frees(<<"second", "first">>)

(* A function of two ANSI names calls the one of two wide names, releases  *)
(* both, and returns what that one returned.                               *)
WithNamePair ==
  <<Check(Fail(<<>>))>> \o LdkpCaptureAnsiFileNamePair
  \o <<Call({"first", "second"}, Pass(LdkpReleaseAnsiFileNamePair))>>
  \o LdkpReleaseAnsiFileNamePair

Name(exit) == Alloc("path", exit)

(* An input or output request on a file that completes at once or, when it *)
(* is synchronous, is waited for.                                          *)
Request == << Check(Fail(<<>>)), Opt(<<Check(Fail(<<>>))>>) >>

LdkpQueryFullFileAttributes ==
  << Check(Fail(<<>>)), Try("path"), Ask({}, Fail(<<Drop("path")>>)), Drop("path") >>

CreateDirectoryW ==
  << Check(Fail(<<>>)), Try("path"),
     Take("handle", {}, Fail(<<Drop("path")>>)), Drop("path"), Free("handle") >>
CreateDirectoryA == <<Ldk8BitStringToStaticUnicodeString>> \o CreateDirectoryW

(* The disposition, the name, and the flags that are computed from them.   *)
CreateFileWName == << Check(Fail(<<>>)), Name(Fail(<<>>)) >>
(* The extended attributes of a template file, in a buffer that is doubled *)
(* until they fit; without them when they cannot be read.                  *)
CreateFileWTemplate ==
  LET Buffer == Alloc("ea", Fail(<<Free("path")>>)) IN
  Opt(<< Loop(<<Buffer, Free("ea")>>), Buffer, Opt(<<Free("ea")>>) >>)
CreateFileWOpen ==
  << Take("handle", {"path"}, Fail(<<Free("path"), Drop("ea")>>)),
     Free("path"), Drop("ea"), Noise({}),
     Opt(<<Ask({"handle"}, <<SetError, Free("handle"), Return("error")>>)>>),
     Give("handle") >>
CreateFileW == CreateFileWName \o <<CreateFileWTemplate>> \o CreateFileWOpen
CreateFileA == <<Ldk8BitStringToStaticUnicodeString>> \o CreateFileW
CreateFile2 == <<Opt(<<Check(Fail(<<>>))>>)>> \o CreateFileW

(* The end of the file is success of a synchronous read, and failure of    *)
(* one with an OVERLAPPED; a console that cannot be read is tried as file. *)
ReadFile ==
  << Opt(<<Check(Fail(<<>>)), Return("ok")>>),
     Either(<<Check(Fail(<<>>))>>, <<Opt(<<Return("ok")>>)>> \o Request) >>
WriteFile ==
  << Opt(<<Call({}, Pass(<<>>)), Return("ok")>>), Either(<<Check(Fail(<<>>))>>, Request) >>
FlushFileBuffers == <<Check(Fail(<<>>))>>
SetEndOfFile ==
  << Check(Fail(<<>>)), Check(Fail(<<>>)), Check(Fail(<<>>)) >>
SetFilePointer ==
  << Opt(<<Check(Fail(<<>>))>>), Check(Fail(<<>>)), Check(Fail(<<>>)) >>
(* The queries' failures end in return (DWORD)-1, which is TRUE.           *)
SetFilePointerEx ==
  << Opt(<<Check(<<SetError, Return("ok")>>)>>), Check(Fail(<<>>)), Check(Fail(<<>>)) >>

GetFileAttributesW == LdkpQueryFullFileAttributes
GetFileAttributesA == <<Ldk8BitStringToStaticUnicodeString>> \o GetFileAttributesW
GetFileAttributesExW == <<Check(Fail(<<>>))>> \o LdkpQueryFullFileAttributes
GetFileAttributesExA == <<Ldk8BitStringToStaticUnicodeString>> \o GetFileAttributesExW
SetFileAttributesW ==
  << CallFor("handle", {}, Pass(<<>>)), Ask({"handle"}, Fail(<<Free("handle")>>)),
     Free("handle") >>
SetFileAttributesA == <<Ldk8BitStringToStaticUnicodeString>> \o SetFileAttributesW
GetFileSizeEx == <<Check(Fail(<<>>))>>
GetFileSize == GetFileSizeEx \o <<Noise({})>>
GetFileType == << Opt(<<Return("ok")>>), Check(Fail(<<>>)), Noise({}) >>
SetFileTime == <<Check(Fail(<<>>))>>
LockFile == <<Check(Fail(<<>>))>> \o Request
LockFileEx == << Check(Fail(<<>>)), Check(Fail(<<>>)), Check(Fail(<<>>)) >>
UnlockFile == LockFile
UnlockFileEx == LockFileEx

(* The file is opened once more with fewer rights when the first attempt   *)
(* is refused or not supported, and as the target of its reparse point     *)
(* unless that is a symbolic link.                                         *)
DeleteFileWOpen ==
  LET Failed == Fail(<<Free("path")>>) IN
  << Name(Fail(<<>>)),
     Either(
       << Either(<<Check(Failed)>>, <<>>), Take("handle", {"path"}, Failed) >>,
       << Hold("handle"),
          Opt(<<Check(Fail(<<Free("path"), Free("handle")>>))>>),
          Opt(<< Free("handle"),
                 Either(<<Hold("handle")>>, <<Take("handle", {"path"}, Failed)>>) >>) >>) >>
DeleteFileWDispose ==
  << Free("path"), Ask({"handle"}, Fail(<<Free("handle")>>)), Free("handle") >>
DeleteFileW == DeleteFileWOpen \o DeleteFileWDispose
DeleteFileA == <<Ldk8BitStringToStaticUnicodeString>> \o DeleteFileW
RemoveDirectoryW ==
  << Check(Fail(<<>>)), Name(Fail(<<>>)),
     Take("handle", {"path"}, Fail(<<Free("path")>>)) >> \o DeleteFileWDispose
RemoveDirectoryA == <<Ldk8BitStringToStaticUnicodeString>> \o RemoveDirectoryW

(* A copy reads and writes block by block until nothing is left to read.   *)
CopyFileW ==
  LET Exit == <<Drop("buffer"), Free("new"), Free("existing")>>
      Both == {"existing", "new", "buffer"}
  IN << Call({}, Pass(<<>>)), Check(Fail(<<>>)),
        CallFor("existing", {}, Pass(<<>>)),
        CallFor("new", {}, Pass(<<Free("existing")>>)),
        Alloc("buffer", <<SetError>> \o Pass(Exit)),
        Loop(<< Call(Both, Pass(Exit)), Call(Both, Pass(Exit)),
                Check(<<SetError>> \o Pass(Exit)) >>),
        Call(Both, Pass(Exit)) >> \o Exit
CopyFileA == WithNamePair

(* CopyFile2 also asks a flag and the progress routine before each step;   *)
(* the routine may ask for silence, a pause or the end.                    *)
LdkpCopyFile2CheckCancel(exit) == Check(exit)
LdkpCopyFile2InvokeProgress(exit) == Opt(<<Ask({"existing", "new"}, exit)>>)
(* Fault: the way out forgets the buffer.                                  *)
CopyFile2ExitLeaks == Drops(<<"new", "existing">>)
CopyFile2Exit == Drops(<<"buffer", "new", "existing">>)
CopyFile2Open ==
  << Check(Status(<<>>)), LdkpCopyFile2CheckCancel(Status(<<>>)),
     Call({}, Status(<<>>)), Check(Status(<<>>)),
     CallFor("existing", {}, Status(<<>>)),
     CallFor("new", {}, Status(CopyFile2Exit)), Noise({"existing"}),
     LdkpCopyFile2InvokeProgress(Status(CopyFile2Exit)),
     Alloc("buffer", Status(CopyFile2Exit)) >>
CopyFile2Copy ==
  LET Out == Status(CopyFile2Exit)
      Read == << LdkpCopyFile2CheckCancel(Out), LdkpCopyFile2InvokeProgress(Out),
                 Call({"existing", "buffer"}, Out) >>
  IN << Loop(Read \o << LdkpCopyFile2InvokeProgress(Out),
                        Call({"new", "buffer"}, Out), Check(Out),
                        LdkpCopyFile2InvokeProgress(Out) >>) >>
     \o Read \o <<LdkpCopyFile2InvokeProgress(Out)>>
CopyFile2 == CopyFile2Open \o CopyFile2Copy \o CopyFile2Exit

CreateDirectoryExW ==
  << Call({}, Pass(<<>>)), Opt(<<Noise({}), Opt(<<Noise({})>>)>>) >>

(* A new name for an open file: the name, the file, and the block of both. *)
SetName ==
  << Name(Fail(<<>>)), CallFor("handle", {}, Pass(<<Free("path")>>)),
     Alloc("info", Fail(Frees(<<"handle", "path">>))),
     Ask({"handle", "info"}, Fail(Frees(<<"info", "handle", "path">>))) >>
  \o Frees(<<"info", "handle", "path">>)
CreateHardLinkW ==
  << Check(Fail(<<>>)), Call({}, Pass(<<>>)), Check(Fail(<<>>)) >> \o SetName
CreateHardLinkA == WithNamePair
MoveFileExW == << Check(Fail(<<>>)), Check(Fail(<<>>)) >> \o SetName
MoveFileW == MoveFileExW
MoveFileExA == WithNamePair
MoveFileA == MoveFileExA

(* Fault: the last error is not kept over the deletion.                    *)
CreateSymbolicLinkWFailureUnsaved == << Opt(<<Noise({})>>), Drop("path"), Return("error") >>

(* A symbolic link is created as an empty file or directory, reopened and  *)
(* turned into a reparse point; when that fails it is deleted again, and   *)
(* the last error kept over the deletion.                                  *)
CreateSymbolicLinkWFailure ==
  << SaveError, Opt(<<Noise({})>>), Drop("path"), RestoreError, Return("error") >>
CreateSymbolicLinkWCreate ==
  << Check(Fail(<<>>)), Check(Fail(<<>>)),
     Opt(<<Name(Fail(<<>>))>>), Check(Fail(<<Drop("path")>>)),
     Either(<<Call({}, Pass(<<Drop("path")>>))>>,
            <<CallFor("handle", {}, Pass(<<Drop("path")>>)), Free("handle")>>) >>
CreateSymbolicLinkWReparse ==
  LET Failure(cleanup) == cleanup \o CreateSymbolicLinkWFailure IN
  << CallFor("handle", {}, Failure(<<>>)),
     Check(Failure(<<Free("handle"), SetError>>)),
     Alloc("reparse", Failure(<<Free("handle"), SetError>>)),
     Call({"handle", "reparse"}, Failure(Frees(<<"reparse", "handle">>))) >>
  \o Frees(<<"reparse", "handle">>) \o <<Drop("path")>>
CreateSymbolicLinkW == CreateSymbolicLinkWCreate \o CreateSymbolicLinkWReparse
CreateSymbolicLinkA == WithNamePair
-----------------------------------------------------------------------------
FileLibrary ==
  [ CreateDirectoryA |-> CreateDirectoryA, CreateDirectoryW |-> CreateDirectoryW,
    CreateFileA |-> CreateFileA, CreateFileW |-> CreateFileW, CreateFile2 |-> CreateFile2,
    ReadFile |-> ReadFile, WriteFile |-> WriteFile, FlushFileBuffers |-> FlushFileBuffers,
    SetEndOfFile |-> SetEndOfFile, SetFilePointer |-> SetFilePointer,
    SetFilePointerEx |-> SetFilePointerEx,
    GetFileAttributesA |-> GetFileAttributesA, GetFileAttributesW |-> GetFileAttributesW,
    GetFileAttributesExA |-> GetFileAttributesExA,
    GetFileAttributesExW |-> GetFileAttributesExW,
    SetFileAttributesA |-> SetFileAttributesA, SetFileAttributesW |-> SetFileAttributesW,
    GetFileSize |-> GetFileSize, GetFileSizeEx |-> GetFileSizeEx,
    GetFileType |-> GetFileType, SetFileTime |-> SetFileTime,
    LockFile |-> LockFile, LockFileEx |-> LockFileEx,
    UnlockFile |-> UnlockFile, UnlockFileEx |-> UnlockFileEx,
    DeleteFileA |-> DeleteFileA, DeleteFileW |-> DeleteFileW,
    RemoveDirectoryA |-> RemoveDirectoryA, RemoveDirectoryW |-> RemoveDirectoryW,
    CopyFileA |-> CopyFileA, CopyFileW |-> CopyFileW, CopyFile2 |-> CopyFile2,
    CreateDirectoryExW |-> CreateDirectoryExW,
    CreateHardLinkA |-> CreateHardLinkA, CreateHardLinkW |-> CreateHardLinkW,
    MoveFileA |-> MoveFileA, MoveFileW |-> MoveFileW,
    MoveFileExA |-> MoveFileExA, MoveFileExW |-> MoveFileExW,
    CreateSymbolicLinkA |-> CreateSymbolicLinkA,
    CreateSymbolicLinkW |-> CreateSymbolicLinkW ]
=============================================================================
