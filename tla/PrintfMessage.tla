---------------------------- MODULE PrintfMessage ----------------------------
(***************************************************************************)
(* The data of printf/hsa_printf.h: packets, messages, the batch of        *)
(* packets that one hsa_printf call stores, and what one message prints.   *)
(* Text is abstracted to the conversion specifiers of a format, each given *)
(* by the class hsa_process_printf_queue sorts it into.                    *)
(***************************************************************************)
EXTENDS Integers, Sequences

CONSTANTS
  Formats,      \* the format strings (model values)
  Specifiers,   \* the classes of the conversion specifiers of each format
  Data,         \* payloads of arguments
  Messages      \* the calls hsa_printf(queue, format, args...) to consider

PointerTypes == {"void_ptr", "const_void_ptr"}
PacketTypes  == {"unsigned_int", "signed_int", "float"} \cup PointerTypes

(* The member of the union that printf reads, by class of the specifier;   *)
(* "unclassified" is a specifier that specifierPattern finds and that none *)
(* of the four type patterns accepts.                                      *)
SpecifierClasses == {"unsigned", "signed", "float", "pointer", "unclassified"}

Packets == [type : PacketTypes, data : Nat \cup Formats \cup Data]

ASSUME MessageAssumption ==
  /\ Specifiers \in [Formats -> Seq(SpecifierClasses)]
  /\ Messages \subseteq [format : Formats,
                         args   : Seq([type : PacketTypes, data : Data])]

(* countArg(count, format, all...): the format counts as an argument. *)
Count(m) == 1 + Len(m.args)

(* The packets of a batch: the count, the format and the arguments. *)
Size(m) == Count(m) + 1

(* Mutant of HeaderPacket: the format is not counted. *)
MutantCountArgsOnly(m) == [type |-> "unsigned_int", data |-> Len(m.args)]

HeaderPacket(m) == [type |-> "unsigned_int", data |-> Count(m)]
FormatPacket(m) == [type |-> "const_void_ptr", data |-> m.format]

(* The arguments of set_batch(queue, count, format, all...), in order. *)
Batch(m) == <<HeaderPacket(m), FormatPacket(m)>> \o m.args

(* One request as printed: arguments are paired with specifiers until one  *)
(* of the two lists ends; surplus arguments are skipped, and surplus       *)
(* specifiers stay in the text that follows.                               *)
Shown(m) == LET specifiers == Specifiers[m.format]
                n == IF Len(m.args) < Len(specifiers) THEN Len(m.args)
                                                      ELSE Len(specifiers)
            IN  [k \in 1 .. n |-> [specifier |-> specifiers[k], packet |-> m.args[k]]]

Render(m) == [format |-> m.format, shown |-> Shown(m)]
==============================================================================
