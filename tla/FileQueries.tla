----------------------------- MODULE FileQueries -----------------------------
(***************************************************************************)
(* The file functions of kernel32 (fileapi.c) that ask or set information  *)
(* about files, walk directories and make temporary names.                 *)
(***************************************************************************)
EXTENDS FileCalls

GetFileInformationByHandle ==
  << Check(Fail(<<>>)), Check(Fail(<<>>)), Check(Fail(<<>>)) >>

(* A class of information: the size of the buffer, then the file system.   *)
Class == << Check(Fail(<<>>)), Check(Fail(<<>>)), Return("ok") >>
(* A class that is not one of the function's is refused.                   *)
LdkpSetFileInformationClassError == <<SetError, Return("error")>>

GetFileNameInfo == Class
GetDirectoryInfo == <<Check(Fail(<<>>)), Return("ok")>>
GetStorageInfo == Class
(* The classes that GetFileInformationByHandle answers, one with a query   *)
(* more.                                                                   *)
GetHandleInfo ==
  << Call({}, Pass(<<>>)),
     Opt(<<Check(Fail(<<>>)), Opt(<<Check(Fail(<<>>))>>), Return("ok")>>) >>
GetFileInformationByHandleEx ==
  << Check(Fail(<<>>)), Opt(GetFileNameInfo), Opt(GetDirectoryInfo), Opt(GetStorageInfo) >>
  \o GetHandleInfo \o LdkpSetFileInformationClassError

(* What a name's information is put together from: the tag, the identity   *)
(* and the device may be missing.                                          *)
LdkpFillFileStatBasicInformation == Use({"handle"})
GetFileInformationByName ==
  LET Exit == <<Free("handle")>> IN
  << Check(Fail(<<>>)), CallFor("handle", {}, Pass(<<>>)),
     Call({"handle"}, Pass(Exit)), Noise({"handle"}), Noise({"handle"}),
     Check(<<SetError>> \o Pass(Exit)), Opt(<<LdkpFillFileStatBasicInformation>>) >>
  \o Exit

(* A rename in place: the name is copied, to end it, and translated unless *)
(* it is relative to a directory that the caller names.                    *)
SetRenameInfo ==
  << Check(Fail(<<>>)),
     Opt(<< Alloc("copy", Fail(<<>>)), Name(Fail(<<Free("copy")>>)), Free("copy") >>),
     Alloc("info", Fail(<<Drop("path")>>)),
     Ask({"info"}, Fail(<<Free("info"), Drop("path")>>)),
     Free("info"), Drop("path"), Return("ok") >>
SetBasicInfo == Class
SetEndInfo == << Check(Fail(<<>>)), Call({}, Pass(<<>>)) >> \o SetEndOfFile \o <<Return("ok")>>
SetAllocationInfo == Class
SetPriorityInfo == <<Check(Fail(<<>>))>> \o Class
SetCaseInfo == <<Check(Fail(<<>>))>> \o Class
SetDispositionInfo == Class
SetFileInformationByHandle ==
  << Check(Fail(<<>>)), Opt(SetRenameInfo), Opt(SetBasicInfo), Opt(SetEndInfo),
     Opt(SetAllocationInfo), Opt(SetPriorityInfo), Opt(SetCaseInfo), Opt(SetDispositionInfo) >>
  \o LdkpSetFileInformationClassError

(* The name of an open file: the DOS name that the I/O manager allocates,  *)
(* or the name within the volume.                                          *)
FinalDosName ==
  << Take("object", {}, Fail(<<>>)),
     Take("name", {"object"}, Fail(<<Free("object")>>)), Free("object"),
     Use({"name"}), Free("name"), Return("ok") >>
FinalVolumeName ==
  << Alloc("name", Fail(<<>>)), Ask({"name"}, Fail(<<Free("name")>>)),
     Use({"name"}), Free("name") >>
GetFinalPathNameByHandleW == <<Check(Fail(<<>>)), Opt(FinalDosName)>> \o FinalVolumeName

(* The search for the directory and the pattern of a search name.          *)
LdkpCopyWideString(exit) == Check(<<SetError>> \o exit)
LdkpSplitFindSpec(exit) ==
  << Check(<<SetError>> \o exit), LdkpCopyWideString(exit), LdkpCopyWideString(exit) >>
LdkpFindReadNext(uses, exit) == Ask(uses, <<SetError>> \o exit)
FindCloseBody == <<Free("directory"), Free("find")>>
FindFirstFileExW ==
  << Check(Fail(<<>>)), Check(Fail(<<>>)), Alloc("find", Fail(<<>>)) >>
  \o LdkpSplitFindSpec(Pass(<<Free("find")>>))
  \o << CallFor("directory", {}, Pass(<<Free("find")>>)),
        LdkpFindReadNext({"find", "directory"}, Pass(FindCloseBody)),
        Give("directory"), Give("find") >>
FindFirstFileW == FindFirstFileExW
FindNextFileW == << Check(Fail(<<>>)), Check(Fail(<<>>)), LdkpFindReadNext({}, Pass(<<>>)) >>
(* The caller hands in what FindFirstFileW left to it.                     *)
FindClose == << Check(Fail(<<>>)), Hold("find"), Hold("directory") >> \o FindCloseBody

(* A full name that does not fit the function's own buffer yields 0, and   *)
(* the last error is whatever it was.                                      *)
GetFullPathNameA ==
  LET Both == Frees(<<"name", "buffer">>) IN
  << Ldk8BitStringToDynamicUnicodeString("name", Pass(<<>>)),
     Alloc("buffer", <<Free("name")>> \o Fail(<<>>)),
     Check(Pass(Both)), Ask({"buffer"}, <<SetError>> \o Pass(Both)),
     Opt(<< Take("result", {"buffer"}, <<SetError>> \o Pass(Both)), Free("result") >>) >>
  \o Both

(* The drive is known to the process's device map, or its root is opened:  *)
(* as a file, then as a directory.  The answer is a kind, never an error.  *)
IsThisARootDirectory == << Opt(<<Hold("link"), Use({"link"}), Free("link")>>), Noise({}) >>
GetDriveTypeWMap == Opt(<<Return("ok")>>)
GetDriveTypeWOpen ==
  << Either(<<>>, <<Return("ok")>>), Hold("path"), Opt(<<Free("path"), Return("ok")>>),
     Either(<<Try("handle")>>,
            <<Try("handle")>> \o IsThisARootDirectory
              \o <<Opt(<<Drop("handle"), Try("handle")>>)>>),
     Free("path") >>
GetDriveTypeW ==
  <<GetDriveTypeWMap>> \o GetDriveTypeWOpen \o <<Drop("handle")>>
GetDriveTypeA == <<Opt(<<CallFor("static", {}, Pass(<<>>))>>)>> \o GetDriveTypeW
GetDiskFreeSpaceExW ==
  << CallFor("handle", {}, Pass(<<>>)), Ask({"handle"}, Fail(<<Free("handle")>>)),
     Free("handle") >>

(* The directory of temporary files: the first of the variables, then the  *)
(* Windows directory's, then the current directory, that exists.           *)
LdkpEnsureTrailingPathSeparator(exit) == Check(<<SetError>> \o exit)
LdkpCopyTempPathCandidate == Noise({})
LdkpGetTempPathCandidate ==
  << Loop(<<Noise({}), Opt(<<LdkpCopyTempPathCandidate>>)>>), Check(Fail(<<>>)) >>
GetTempPathW == LdkpGetTempPathCandidate \o <<Opt(<<Return("ok")>>), Check(Fail(<<>>))>>
GetTempPathA ==
  LdkpGetTempPathCandidate
  \o << Check(Fail(<<>>)), Opt(<<Return("ok")>>), Check(Fail(<<>>)),
        Opt(<<Return("ok")>>), Check(Fail(<<>>)) >>
GetTempPath2W == GetTempPathW

LdkpBuildTempFileNameW ==
  << Check(Fail(<<>>)), LdkpEnsureTrailingPathSeparator(Pass(<<>>)), Check(Fail(<<>>)) >>
(* A number of the caller's is not tried; otherwise names are tried until  *)
(* one can be created.                                                     *)
GetTempFileNameW ==
  << Check(Fail(<<>>)), Opt(LdkpBuildTempFileNameW \o <<Return("ok")>>),
     Loop(LdkpBuildTempFileNameW \o <<Noise({})>>), Opt(Fail(<<>>)) >>
  \o LdkpBuildTempFileNameW \o << CallFor("handle", {}, Pass(<<>>)), Free("handle") >>
GetTempFileNameA ==
  <<Check(Fail(<<>>))>> \o LdkpCaptureAnsiFileNamePair
  \o << Call({"first", "second"}, Pass(LdkpReleaseAnsiFileNamePair)) >>
  \o LdkpReleaseAnsiFileNamePair
  \o << Check(<<Opt(<<Noise({})>>)>> \o Fail(<<>>)) >>

DeviceIoControl == <<Either(<<Check(Fail(<<>>))>>, Request)>>
-----------------------------------------------------------------------------
FileQueryLibrary ==
  [ GetFileInformationByHandle |-> GetFileInformationByHandle,
    GetFileInformationByHandleEx |-> GetFileInformationByHandleEx,
    GetFileInformationByName |-> GetFileInformationByName,
    SetFileInformationByHandle |-> SetFileInformationByHandle,
    GetFinalPathNameByHandleW |-> GetFinalPathNameByHandleW,
    FindFirstFileW |-> FindFirstFileW, FindFirstFileExW |-> FindFirstFileExW,
    FindNextFileW |-> FindNextFileW, FindClose |-> FindClose,
    GetFullPathNameA |-> GetFullPathNameA,
    GetDriveTypeA |-> GetDriveTypeA, GetDriveTypeW |-> GetDriveTypeW,
    GetDiskFreeSpaceExW |-> GetDiskFreeSpaceExW,
    GetTempPathA |-> GetTempPathA, GetTempPathW |-> GetTempPathW,
    GetTempPath2W |-> GetTempPath2W,
    GetTempFileNameA |-> GetTempFileNameA, GetTempFileNameW |-> GetTempFileNameW,
    DeviceIoControl |-> DeviceIoControl ]

(* Functions that can fail without setting the last error, or report       *)
(* success after a failure.                                                *)
FileSilentFailures == {"SetFilePointerEx", "GetFullPathNameA"}
=============================================================================
