------------------------------- MODULE NlsCalls -------------------------------
(***************************************************************************)
(* The national language functions of kernel32 (winnls.c, stringapiset.c)  *)
(* as sequences of steps.  What they compare, map and format is left out;   *)
(* the list of code pages they share is the subject of CodePageCache.      *)
(***************************************************************************)
EXTENDS CallSteps

(* The file of a code page, and the entry that is made of it.              *)
LdkpReadCodePageFile(exit) ==
  LET Out == <<Drop("data"), Free("handle")>> \o exit IN
  << Check(exit), Take("handle", {}, exit), Ask({"handle"}, Out), Check(Out),
     Alloc("data", Out), Ask({"handle", "data"}, Out), Free("handle") >>
LdkpFreeCodePageEntry == Frees(<<"data", "entry">>)
LdkpLoadCodePageEntry(exit) ==
  LdkpReadCodePageFile(exit)
  \o << Alloc("entry", <<Free("data")>> \o exit), Check(LdkpFreeCodePageEntry \o exit) >>
(* The table of a code page: found, loaded and put into the list, or       *)
(* loaded while another thread has put its own into the list.              *)
LdkpGetCodePageTable(exit) ==
  << Check(exit), Hold("shared"),
     Either(<<Free("shared")>>,
            <<Free("shared")>> \o LdkpLoadCodePageEntry(exit)
            \o << Hold("exclusive"),
                  Either(<<Free("exclusive")>> \o LdkpFreeCodePageEntry,
                         <<Keep("data"), Keep("entry"), Free("exclusive")>>) >>) >>

(* Not finding the table of a code page is an answer here.                 *)
IsValidCodePage == <<Opt(LdkpGetCodePageTable(Status(<<>>)))>>
UTFCPInfo == Check(Fail(<<>>))
GetStringTableEntry == Check(Fail(<<>>))
GetCPInfo ==
  << Check(Fail(<<>>)), Either(<<UTFCPInfo>>, LdkpGetCodePageTable(Fail(<<>>))) >>
GetCPInfoExW ==
  << Check(Fail(<<>>)), Either(<<UTFCPInfo>>, LdkpGetCodePageTable(Fail(<<>>))),
     GetStringTableEntry >>
GetCPInfoExA == << Check(Fail(<<>>)), Call({}, Pass(<<>>)), Check(Fail(<<>>)) >>

LCIDToLocaleName == << Check(Fail(<<>>)), Opt(<<Return("ok")>>), Check(Fail(<<>>)) >>
(* A name that cannot be normalised is an unknown name.                    *)
LdkpNormalizeLocaleName == Noise({})
LocaleNameToLCID == << Opt(<<Return("ok")>>), LdkpNormalizeLocaleName, Check(Fail(<<>>)) >>
GetUserDefaultLCID == <<Check(Fail(<<>>))>>
GetUserDefaultLocaleName == << Call({}, Pass(<<>>)), Call({}, Pass(<<>>)) >>
LdkpCopyLocaleString == << Opt(<<Return("ok")>>), Check(Fail(<<>>)) >>
LdkpCopyLocaleNumber == << Opt(<<Return("ok")>>), Check(Fail(<<>>)) >>
LdkpResolveLocaleNameForNls == << Check(Fail(<<>>)), Noise({}), Check(Fail(<<>>)) >>

(* The conversions of the A functions: the size is asked for, a block of   *)
(* it is filled.                                                           *)
LdkpAnsiStringToWideForNls(r, exit) ==
  << Check(<<SetError>> \o exit),
     Either(<<Alloc(r, <<SetError>> \o exit)>>,
            << Call({}, exit), Alloc(r, <<SetError>> \o exit), Call({r}, <<Free(r)>> \o exit) >>) >>
LdkpWideStringToAnsiForNls(r, exit) ==
  << Check(<<SetError>> \o exit), Call({r}, exit), Opt(<<Call({r}, exit)>>) >>

(* A value as a number, as a string of the locale, or as a number in text. *)
GetLocaleInfoW ==
  << Check(Fail(<<>>)),
     Opt(<<Check(Fail(<<>>))>> \o LdkpCopyLocaleNumber \o <<Return("ok")>>),
     Opt(<<Check(Fail(<<>>)), Check(Fail(<<>>))>>) >> \o LdkpCopyLocaleString
GetLocaleInfoA ==
  LET Out == Pass(<<Free("wide")>>) IN
  << Check(Fail(<<>>)),
     Opt(<<Call({}, Pass(<<>>)), Opt(<<Check(Fail(<<>>))>>), Return("ok")>>),
     Call({}, Pass(<<>>)), Alloc("wide", Fail(<<>>)), Call({"wide"}, Out) >>
  \o LdkpWideStringToAnsiForNls("wide", Out) \o <<Free("wide")>>
GetLocaleInfoEx == << Noise({}), Check(Fail(<<>>)) >> \o GetLocaleInfoW
GetDateFormatW == << Check(Fail(<<>>)), Check(Fail(<<>>)) >> \o LdkpCopyLocaleString
GetTimeFormatW == << Check(Fail(<<>>)), Check(Fail(<<>>)) >> \o LdkpCopyLocaleString
GetDateFormatEx == <<Check(Fail(<<>>))>> \o LdkpResolveLocaleNameForNls \o GetDateFormatW
GetTimeFormatEx == LdkpResolveLocaleNameForNls \o GetTimeFormatW

LdkpValidateCompareFlags == Check(Fail(<<>>))
LdkpValidateMapFlags == Check(Fail(<<>>))
LdkpGetNlsCompareLength == Check(Fail(<<>>))
LdkpGetNlsMapLength == Check(Fail(<<>>))
CompareStringOrdinal == << LdkpGetNlsCompareLength, LdkpGetNlsCompareLength >>
CompareStringEx ==
  << Check(Fail(<<>>)), LdkpValidateCompareFlags >> \o LdkpResolveLocaleNameForNls
  \o << LdkpGetNlsCompareLength, LdkpGetNlsCompareLength >>
CompareStringW == <<Call({}, Pass(<<>>))>> \o CompareStringEx
CompareStringA ==
  LdkpAnsiStringToWideForNls("first", Pass(<<>>))
  \o LdkpAnsiStringToWideForNls("second", Pass(<<Free("first")>>))
  \o << Call({"first", "second"}, Pass(Frees(<<"second", "first">>))) >>
  \o Frees(<<"second", "first">>)
LCMapStringEx ==
  << Check(Fail(<<>>)), LdkpValidateMapFlags >> \o LdkpResolveLocaleNameForNls
  \o << LdkpGetNlsMapLength, Opt(<<Return("ok")>>), Check(Fail(<<>>)) >>
LCMapStringW == <<Call({}, Pass(<<>>))>> \o LCMapStringEx
LCMapStringA ==
  LET Out == Pass(Frees(<<"mapped", "wide">>)) IN
  << Check(Fail(<<>>)) >> \o LdkpAnsiStringToWideForNls("wide", Pass(<<>>))
  \o << Opt(<<Call({"wide"}, Pass(<<Free("wide")>>)), Free("wide"), Return("ok")>>),
        Call({"wide"}, Pass(<<Free("wide")>>)),
        Alloc("mapped", Fail(<<Free("wide")>>)), Call({"wide", "mapped"}, Out) >>
  \o LdkpWideStringToAnsiForNls("mapped", Out) \o Frees(<<"mapped", "wide">>)
GetStringTypeW == << Check(Fail(<<>>)), Check(Fail(<<>>)) >>
GetStringTypeExW == <<Check(Fail(<<>>))>> \o GetStringTypeW
GetStringTypeA ==
  LdkpAnsiStringToWideForNls("wide", Pass(<<>>))
  \o << Call({"wide"}, Pass(<<Free("wide")>>)), Free("wide") >>
GetStringTypeExA == GetStringTypeA
(* The callback may end the enumeration, which is no failure.              *)
EnumSystemLocalesW == << Check(Fail(<<>>)), Loop(<<Use({})>>) >>
EnumSystemLocalesEx == << Check(Fail(<<>>)), Loop(<<Use({})>>) >>

(* The sizes of conversions that cannot be asked for: converted to a block *)
(* that is large enough for every text of the length.                      *)
LdkpOemToUnicodeSize(exit) ==
  << Check(exit), Alloc("block", exit), Ask({"block"}, <<Free("block")>> \o exit), Free("block") >>
LdkpUnicodeToOemSize(exit) ==
  << Alloc("block", exit), Ask({"block"}, <<Free("block")>> \o exit), Free("block") >>
LdkpCustomCPToUnicodeSize(exit) ==
  << Check(exit), Alloc("block", exit), Ask({"block"}, <<Free("block")>> \o exit), Free("block") >>
LdkpUnicodeToCustomCPSize(exit) ==
  << Check(exit), Alloc("block", exit), Ask({"block"}, <<Free("block")>> \o exit), Free("block") >>
(* Any code page: the size, the question for it, the buffer, the text.     *)
MultiByteToWideChar ==
  LET Out == Fail(<<>>)
      Convert == << Opt(<<Return("ok")>>), Check(Out), Check(Out) >>
  IN << Check(Out),
        Either(<<Either(<<Check(Out)>>, <<Check(Out), Check(Out)>>)>>,
               <<Either(LdkpOemToUnicodeSize(Out),
                        LdkpGetCodePageTable(Out) \o LdkpCustomCPToUnicodeSize(Out))>>) >>
     \o Convert
WideCharToMultiByte ==
  LET Out == Fail(<<>>)
      Convert == << Opt(<<Return("ok")>>), Check(Out), Check(Out) >>
  IN << Check(Out),
        Either(<<Either(<<Check(Out)>>, <<Check(Out), Check(Out)>>)>>,
               <<Either(LdkpUnicodeToOemSize(Out),
                        LdkpGetCodePageTable(Out) \o LdkpUnicodeToCustomCPSize(Out))>>) >>
     \o Convert

NlsLibrary == [
  IsValidCodePage |-> IsValidCodePage,
  GetCPInfo |-> GetCPInfo, GetCPInfoExA |-> GetCPInfoExA, GetCPInfoExW |-> GetCPInfoExW,
  LCIDToLocaleName |-> LCIDToLocaleName, LocaleNameToLCID |-> LocaleNameToLCID,
  GetUserDefaultLCID |-> GetUserDefaultLCID,
  GetUserDefaultLocaleName |-> GetUserDefaultLocaleName,
  GetLocaleInfoA |-> GetLocaleInfoA, GetLocaleInfoW |-> GetLocaleInfoW,
  GetLocaleInfoEx |-> GetLocaleInfoEx, GetDateFormatEx |-> GetDateFormatEx,
  GetDateFormatW |-> GetDateFormatW, GetTimeFormatEx |-> GetTimeFormatEx,
  GetTimeFormatW |-> GetTimeFormatW, CompareStringOrdinal |-> CompareStringOrdinal,
  CompareStringEx |-> CompareStringEx, CompareStringW |-> CompareStringW,
  CompareStringA |-> CompareStringA, LCMapStringEx |-> LCMapStringEx,
  LCMapStringW |-> LCMapStringW, LCMapStringA |-> LCMapStringA,
  GetStringTypeW |-> GetStringTypeW, GetStringTypeExW |-> GetStringTypeExW,
  GetStringTypeA |-> GetStringTypeA, GetStringTypeExA |-> GetStringTypeExA,
  EnumSystemLocalesW |-> EnumSystemLocalesW, EnumSystemLocalesEx |-> EnumSystemLocalesEx,
  MultiByteToWideChar |-> MultiByteToWideChar, WideCharToMultiByte |-> WideCharToMultiByte ]
=============================================================================
