----------------------------- MODULE MessageCalls -----------------------------
(***************************************************************************)
(* Messages and resources of kernel32 (winbase.c) as sequences of steps.   *)
(* What the walk through a resource directory finds is left open.          *)
(***************************************************************************)
EXTENDS FileCalls

(* A file read whole into a block; the handle and, after a failure, the    *)
(* block are given back in the termination handler.                        *)
LdkpReadWholeFile ==
  LET Out == Status(<<Drop("data"), Free("handle")>>) IN
  << Take("handle", {}, Status(<<>>)), Ask({"handle"}, Out), Check(Out),
     Alloc("data", Out), Ask({"handle", "data"}, Out), Give("data"), Free("handle") >>

(* A message goes to a block that the caller gets, or to his own buffer.   *)
LdkpFormatMessageAFromAnsiCounted ==
  Either(<<Check(Fail(<<>>)), Alloc("message", Fail(<<>>)), Give("message")>>,
         <<Check(Fail(<<>>)), Check(Fail(<<>>))>>)
LdkpFormatMessageAFromWideCounted ==
  Either(<<Check(Fail(<<>>)), Alloc("message", Fail(<<>>)), Give("message")>>,
         <<Check(Fail(<<>>)), Check(Fail(<<>>))>>)
LdkpFormatMessageWFromAnsiCounted ==
  Either(<<Check(Fail(<<>>)), Alloc("message", Fail(<<>>)), Give("message")>>,
         <<Check(Fail(<<>>)), Check(Fail(<<>>))>>)
LdkpFormatMessageWFromWideCounted ==
  Either(<<Check(Fail(<<>>)), Alloc("message", Fail(<<>>)), Give("message")>>,
         <<Check(Fail(<<>>)), Check(Fail(<<>>))>>)
LdkpFormatMessageAFromAnsi == LdkpFormatMessageAFromAnsiCounted
LdkpFormatMessageWFromAnsi == LdkpFormatMessageWFromAnsiCounted
LdkpFormatMessageWFromWide == LdkpFormatMessageWFromWideCounted
LdkpFormatMessageAFromResourceEntry ==
  << Check(Fail(<<>>)),
     Either(<<LdkpFormatMessageAFromWideCounted>>, <<LdkpFormatMessageAFromAnsiCounted>>) >>
LdkpFormatMessageWFromResourceEntry ==
  << Check(Fail(<<>>)),
     Either(<<LdkpFormatMessageWFromWideCounted>>, <<LdkpFormatMessageWFromAnsiCounted>>) >>

(* Any failure of the images, a buffer that is too small included, falls   *)
(* back on the built-in texts, and their outcome is the one reported.      *)
LdkpFormatSystemMessageAFromImages ==
  Opt(<<Opt(<<Hold("message"), Give("message")>>), Return("ok")>>)
LdkpFormatSystemMessageWFromImages ==
  Opt(<<Opt(<<Hold("message"), Give("message")>>), Return("ok")>>)
FormatMessageA ==
  << Opt(<< Check(Fail(<<>>)),
            Opt(LdkpFormatMessageAFromResourceEntry \o <<Return("ok")>>),
            Check(Fail(<<>>)) >>),
     Opt(<< LdkpFormatSystemMessageAFromImages, Noise({}), Check(Fail(<<>>)),
            LdkpFormatMessageAFromAnsi, Return("ok") >>),
     Check(Fail(<<>>)), LdkpFormatMessageAFromAnsi >>
FormatMessageW ==
  << Opt(<< Check(Fail(<<>>)),
            Opt(LdkpFormatMessageWFromResourceEntry \o <<Return("ok")>>),
            Check(Fail(<<>>)) >>),
     Opt(<< LdkpFormatSystemMessageWFromImages, Noise({}), Check(Fail(<<>>)),
            LdkpFormatMessageWFromAnsi, Return("ok") >>),
     Check(Fail(<<>>)), LdkpFormatMessageWFromWide >>

(* A resource is found by the walk; its names are converted and freed when *)
(* they are strings.                                                       *)
LdkpAnsiResourceToUnicode(r, exit) ==
  << Check(<<SetError>> \o exit), Opt(<<Ldk8BitStringToDynamicUnicodeString(r, exit)>>) >>
FindResourceExW == << Check(Fail(<<>>)), Check(Fail(<<>>)) >>
FindResourceW == FindResourceExW
FindResourceExA ==
  LdkpAnsiResourceToUnicode("type", Pass(<<>>))
  \o LdkpAnsiResourceToUnicode("name", Pass(<<Drop("type")>>))
  \o << Call({}, Pass(Drops(<<"name", "type">>))) >> \o Drops(<<"name", "type">>)
FindResourceA == FindResourceExA
LoadResource == << Check(Fail(<<>>)), Check(Fail(<<>>)), Check(Fail(<<>>)) >>
SizeofResource == << Check(Fail(<<>>)), Check(Fail(<<>>)), Check(Fail(<<>>)) >>

MessageLibrary == [
  LdkpReadWholeFile |-> LdkpReadWholeFile,
  FormatMessageA |-> FormatMessageA, FormatMessageW |-> FormatMessageW,
  FindResourceExW |-> FindResourceExW, FindResourceW |-> FindResourceW,
  FindResourceExA |-> FindResourceExA, FindResourceA |-> FindResourceA,
  LoadResource |-> LoadResource, SizeofResource |-> SizeofResource ]
=============================================================================
