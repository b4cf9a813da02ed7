----------------------------- MODULE HostBindings -----------------------------
(***************************************************************************)
(* The generated bindings of the host interfaces                           *)
(* (internal/host/gen): one codec per WIT type, one descriptor              *)
(* per host function.                                                      *)
(*                                                                         *)
(* A codec is the WIT type that NewFactory declares, laid out twice: host,  *)
(* with the literals that the eight generated functions of the type use    *)
(* (toGo, fromGo, lift, lower; flat and in memory), and guest, as the       *)
(* canonical ABI says: where the payload or a field lies, the stride and    *)
(* alignment of a list's elements, how many stack slots the flat form       *)
(* takes.  HostABI compares them by running calls through both.             *)
(***************************************************************************)
EXTENDS Integers, Sequences, FiniteSetsExt, SequencesExt

(* The canonical ABI: what every guest toolchain assumes.                  *)

AlignUp(n, a) == ((n + a - 1) \div a) * a

\* Of codecs one after the other: where each lies, and its first stack slot.
Offsets(codecs) ==
  LET at[i \in DOMAIN codecs] ==
        IF i = 1 THEN 0 ELSE AlignUp(at[i - 1] + codecs[i - 1].size, codecs[i].align)
  IN at
FirstSlots(codecs) ==
  LET slot[i \in DOMAIN codecs] ==
        IF i = 1 THEN 0 ELSE slot[i - 1] + codecs[i - 1].guest.slots
  IN slot

Widest(codecs)  == Max({c.align : c \in ToSet(codecs)})
Largest(codecs) == Max({c.size : c \in ToSet(codecs)})
MostSlots(codecs) == Max({c.guest.slots : c \in ToSet(codecs)})

-----------------------------------------------------------------------------
(* Codecs.                                                                 *)

Plain(kind, size, align, slots) ==
  [k |-> kind, size |-> size, align |-> align,
   host |-> [slots |-> slots], guest |-> [slots |-> slots]]

\* A case without a payload; numbers, flags, enumerations and handles.
NoPayload == Plain("none", 0, 1, 0)
U8        == Plain("byte", 1, 1, 1)
U32       == Plain("word", 4, 4, 1)
Own       == Plain("own", 4, 4, 1)
Borrow    == Plain("borrow", 4, 4, 1)

\* The elements of a list: an address, and a length after it.  A string's are bytes.
ListOf(kind, elem, align, stride) ==
  [k |-> kind, elem |-> elem, size |-> 8, align |-> 4,
   host  |-> [align |-> align, stride |-> stride, lenAt |-> 4, slots |-> 2],
   guest |-> [align |-> elem.align, stride |-> elem.size, lenAt |-> 4, slots |-> 2]]
StringCodec == ListOf("string", U8, 1, 1)
ListCodec(elem, align, stride) == ListOf("list", elem, align, stride)

\* One discriminant byte, and the payload of the case at an offset.
CaseCodec(payloads, at, slots) ==
  LET align   == Widest(payloads)
      payload == AlignUp(1, align)
  IN  [k |-> "case", payloads |-> payloads,
       size |-> AlignUp(payload + Largest(payloads), align), align |-> align,
       host  |-> [at |-> at, slots |-> slots],
       guest |-> [at |-> payload, slots |-> 1 + MostSlots(payloads)]]

RecordCodec(fields, offsets, slots) ==
  LET n == Len(fields) IN
  [k |-> "record", fields |-> fields,
   size |-> AlignUp(Offsets(fields)[n] + fields[n].size, Widest(fields)),
   align |-> Widest(fields),
   host  |-> [offsets |-> offsets, slots |-> slots],
   guest |-> [offsets |-> Offsets(fields),
              slots |-> FirstSlots(fields)[n] + fields[n].guest.slots]]

\* A parameter is lifted from the stack slots [from, to); a result is written
\* to a block that the guest's realloc returns, unless there is none.
Param(codec, from, to) == [codec |-> codec, from |-> from, to |-> to]
Func(params, result, align, size) ==
  [params |-> params, result |-> result, align |-> align, size |-> size]

-----------------------------------------------------------------------------
(* particle:host/kv                                                        *)

KvString           == StringCodec
KvListString       == ListCodec(KvString, 4, 8)
KvOptionString     == CaseCodec(<<NoPayload, KvString>>, 4, 3)
KvError            == CaseCodec(<<KvString, NoPayload, NoPayload>>, 4, 3)
KvResult_Error     == CaseCodec(<<NoPayload, KvError>>, 4, 4)
KvResultOptionString == CaseCodec(<<KvOptionString, KvError>>, 4, 4)

\* Mutant: the arms of the result share no alignment padding.
KvResultListStringPacked == CaseCodec(<<KvListString, KvError>>, 1, 4)
\* Mutant: the ok arm is as wide as the list alone.
KvResultListStringNarrow == CaseCodec(<<KvListString, KvError>>, 4, 3)
KvResultListString == CaseCodec(<<KvListString, KvError>>, 4, 4)

KvDelete == Func(<<Param(KvString, 0, 2)>>, KvResult_Error, 4, 16)
KvGet    == Func(<<Param(KvString, 0, 2)>>, KvResultOptionString, 4, 16)
\* Mutant: the result's block is sized for the ok arm.
KvListShort == Func(<<Param(KvString, 0, 2)>>, KvResultListString, 4, 12)
KvList   == Func(<<Param(KvString, 0, 2)>>, KvResultListString, 4, 16)
\* Mutant: the second parameter starts where the first one's length is.
KvSetOverlap == Func(<<Param(KvString, 0, 2), Param(KvString, 1, 3)>>,
                     KvResult_Error, 4, 16)
KvSet    == Func(<<Param(KvString, 0, 2), Param(KvString, 2, 4)>>,
                 KvResult_Error, 4, 16)

-----------------------------------------------------------------------------
(* particle:host/credentials                                               *)

CredString         == StringCodec
CredOptionString   == CaseCodec(<<NoPayload, CredString>>, 4, 3)
ApplyKind          == U8
ApplySpec          == RecordCodec(<<ApplyKind, CredOptionString, CredOptionString>>,
                                  <<0, 4, 16>>, 7)
PlaceholderInfo    == RecordCodec(<<CredString, ApplySpec>>, <<0, 8>>, 9)
CredentialError    == CaseCodec(<<NoPayload, CredString, CredString>>, 4, 3)
CredResultOptionString == CaseCodec(<<CredOptionString, CredentialError>>, 4, 4)
CredResultPlaceholderInfo == CaseCodec(<<PlaceholderInfo, CredentialError>>, 4, 10)
CredResultString   == CaseCodec(<<CredString, CredentialError>>, 4, 4)

GetConfiguredMethod == Func(<<Param(CredString, 0, 2)>>, CredResultOptionString, 4, 16)
GetPlaceholder      == Func(<<Param(CredString, 0, 2)>>, CredResultPlaceholderInfo, 4, 40)
GetRaw              == Func(<<Param(CredString, 0, 2)>>, CredResultString, 4, 16)

-----------------------------------------------------------------------------
(* particle:host/oauth and particle:host/signing                           *)

OauthString        == StringCodec
OauthError         == CaseCodec(<<NoPayload, NoPayload, OauthString>>, 4, 3)
OauthResult_Error  == CaseCodec(<<NoPayload, OauthError>>, 4, 4)
Refresh            == Func(<<Param(OauthString, 0, 2)>>, OauthResult_Error, 4, 16)

SigningString      == StringCodec
SigningListU8      == ListCodec(U8, 1, 1)
SigningError       == CaseCodec(<<NoPayload, NoPayload, SigningString>>, 4, 3)
SigningResultBool  == CaseCodec(<<U8, SigningError>>, 4, 4)
SigningResultListU8 == CaseCodec(<<SigningListU8, SigningError>>, 4, 4)
Sign   == Func(<<Param(SigningString, 0, 2), Param(SigningListU8, 2, 4)>>,
               SigningResultListU8, 4, 16)
Verify == Func(<<Param(SigningString, 0, 2), Param(SigningListU8, 2, 4),
                 Param(SigningListU8, 4, 6)>>, SigningResultBool, 4, 16)

-----------------------------------------------------------------------------
(* particle:host/dyld and particle:host/libffi                             *)

DyldString           == StringCodec
PreloadedSymbol      == RecordCodec(<<DyldString, U32>>, <<0, 8>>, 3)
ListPreloadedSymbol  == ListCodec(PreloadedSymbol, 4, 12)
PreloadedLibrary     == RecordCodec(<<DyldString, ListPreloadedSymbol>>, <<0, 8>>, 4)
ListPreloadedLibrary == ListCodec(PreloadedLibrary, 4, 16)
DyldError            == CaseCodec(<<NoPayload, DyldString>>, 4, 3)
ResultLibraryDyldError == CaseCodec(<<Own, DyldError>>, 4, 4)
ResultU32String      == CaseCodec(<<U32, DyldString>>, 4, 3)
Result_String        == CaseCodec(<<NoPayload, DyldString>>, 4, 3)
Initialize    == Func(<<>>, NoPayload, 0, 0)
Load          == Func(<<Param(DyldString, 0, 2)>>, ResultLibraryDyldError, 4, 16)
SetLibraries  == Func(<<Param(ListPreloadedLibrary, 0, 2)>>, Result_String, 4, 12)
LibrarySymbol == Func(<<Param(Borrow, 0, 1), Param(DyldString, 1, 3)>>,
                      ResultU32String, 4, 12)

LibffiString         == StringCodec
LibffiListU8         == ListCodec(U8, 1, 1)
LibffiError          == CaseCodec(<<LibffiString, NoPayload>>, 4, 3)
ResultU32LibffiError == CaseCodec(<<U32, LibffiError>>, 4, 4)
Result_LibffiError   == CaseCodec(<<NoPayload, LibffiError>>, 4, 4)
PrepClosure    == Func(<<Param(U32, 0, 1), Param(U32, 1, 2), Param(LibffiListU8, 2, 4)>>,
                       Result_LibffiError, 4, 16)
PrepTrampoline == Func(<<Param(LibffiListU8, 0, 2)>>, ResultU32LibffiError, 4, 16)

-----------------------------------------------------------------------------
(* wasi:logging/logging                                                    *)

LogString == StringCodec
Log       == Func(<<Param(U8, 0, 1), Param(LogString, 1, 3), Param(LogString, 3, 5)>>,
                  NoPayload, 0, 0)

Codecs ==
  {NoPayload, U8, U32, Own, Borrow,
   KvString, KvListString, KvOptionString, KvError, KvResult_Error, KvResultOptionString,
   KvResultListString,
   CredString, CredOptionString, ApplyKind, ApplySpec, PlaceholderInfo, CredentialError,
   CredResultOptionString, CredResultPlaceholderInfo, CredResultString,
   OauthString, OauthError, OauthResult_Error,
   SigningString, SigningListU8, SigningError, SigningResultBool, SigningResultListU8,
   DyldString, PreloadedSymbol, ListPreloadedSymbol, PreloadedLibrary, ListPreloadedLibrary,
   DyldError, ResultLibraryDyldError, ResultU32String, Result_String,
   LibffiString, LibffiListU8, LibffiError, ResultU32LibffiError, Result_LibffiError,
   LogString}

HostFunctions ==
  [kv_delete |-> KvDelete, kv_get |-> KvGet, kv_list |-> KvList, kv_set |-> KvSet,
   get_configured_method |-> GetConfiguredMethod, get_placeholder |-> GetPlaceholder,
   get_raw |-> GetRaw, refresh |-> Refresh, sign |-> Sign, verify |-> Verify,
   initialize |-> Initialize, load |-> Load, set_libraries |-> SetLibraries,
   library_symbol |-> LibrarySymbol, prep_closure |-> PrepClosure,
   prep_trampoline |-> PrepTrampoline, log |-> Log]
=============================================================================
