----------------------------- MODULE MCHsaPrintf -----------------------------
(***************************************************************************)
(* HsaPrintf with two formats and a handful of calls for TLC.              *)
(***************************************************************************)
EXTENDS HsaPrintf

CONSTANTS
  fText, fPair, fWidth, \* "Hello\n", "%u %s\n" and "%10s\n"
  d                     \* the value of every argument

MCFormats == {fText, fPair, fWidth}
MCSpecifiers == [f \in MCFormats |-> CASE f = fText -> <<>>
                                       [] f = fPair -> <<"unsigned", "pointer">>
                                       [] f = fWidth -> <<"unclassified">>]
MCData == {d}

Unsigned == [type |-> "unsigned_int", data |-> d]
Pointer  == [type |-> "const_void_ptr", data |-> d]
Call0(f) == [format |-> f, args |-> <<>>]
Call1(f) == [format |-> f, args |-> <<Unsigned>>]
Call2(f) == [format |-> f, args |-> <<Unsigned, Pointer>>]

(* As many arguments as specifiers, too few and too many. *)
SerialMessages == {Call0(fText), Call1(fText), Call1(fPair), Call2(fPair)}

(* One with arguments, one without, and one whose specifier no type        *)
(* pattern accepts.                                                        *)
WriterMessages == {Call0(fText), Call1(fPair), Call1(fWidth)}

(* The smallest call whose format has specifiers. *)
ShortMessages == {Call0(fPair)}
==============================================================================
