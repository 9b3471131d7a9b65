----------------------------- MODULE MpackPipe -----------------------------
(***************************************************************************)
(* The writer and the reader of MessagePack objects at the two ends of one *)
(* stream: the reader may stop wherever the writer did, in the middle of a *)
(* header or of the data, and goes on when there is more.                  *)
(***************************************************************************)
EXTENDS MpackWrite, MpackRead

pvars == <<vars, rvars>>

PipeInit == Init /\ InitRead

Writes == UNCHANGED rvars /\ Next
Reads  == UNCHANGED vars /\ NextRead

PipeNext == Writes \/ Reads

PipeSpec == PipeInit /\ [][PipeNext]_pvars

\* The reader's caller goes on while something has arrived, and the
\* procedure gives something then.
ReadsOn == Reads /\ (place' # place \/ mread' # mread)

PipeFairSpec ==
  PipeSpec /\ WF_pvars(UNCHANGED rvars /\ Progress) /\ WF_pvars(ReadsOn)

---------------------------------------------------------------------------
(* Properties.                                                             *)

PipeTypeOK ==
  /\ WriteTypeOK
  /\ mread.status \in {"receive_format", "process_format", "receive_number", "xchange_object"}
  /\ mread.object.memory \in [1 .. 8 -> 0 .. 255]
  /\ Len(mread.number) <= mread.number_need /\ mread.number_need <= 10
  /\ mread.binary_read <= mread.binary_need /\ mread.binary_need <= 16
  /\ place.entry \in 1 .. Len(stream) + 1

Reading == mread.status = "xchange_object"
Read    == stream[place.entry].of

TypeOf == [nil |-> "nil", true |-> "bool", false |-> "bool", float32 |-> "float",
           float64 |-> "double", str |-> "str", bin |-> "bin", ext |-> "ext",
           array |-> "array", map |-> "map"]

IsFixext(o) == o.kind = "ext" /\ o.size \in DOMAIN FixExt

SizeBytes(o) == Reverse(BytesOf(o.size, 4))

Expected(o) ==
  CASE o.kind = "nil"   -> << >>
    [] o.kind = "false" -> <<0>>
    [] o.kind = "true"  -> <<1>>
    [] o.kind \in {"float32", "float64"} -> Reverse(o.value)
    [] o.kind = "ext" -> SizeBytes(o) \o <<o.type>>
    [] OTHER -> SizeBytes(o)

(* Whatever was left in the context by the object before, and wherever the *)
(* stream was cut, the get procedure of an object's type gives what was    *)
(* written.  (Of a fixext the size is not there: the context only knows it *)
(* as the bytes it needs.)                                                 *)
GetsWritten ==
  Reading /\ Read.kind \in DOMAIN TypeOf =>
    LET got == Get(mread, TypeOf[Read.kind])
    IN  /\ got.code = "ok"
        /\ IF IsFixext(Read) THEN got.value[5] = Read.type /\ mread.binary_need = Read.size
                             ELSE got.value = Expected(Read)

\* A number of the type, as an extended one.
Extended9(bytes, signed) ==
  Number(IF signed THEN SignFill(bytes[1]) ELSE 0, bytes).value

(* An integer is got as a type exactly when the type can hold what was     *)
(* written, whether it was written as signed or not, and with that value.  *)
GetsRepresentable ==
  Reading /\ Read.kind \in {"int", "uint"} =>
    \A t \in IntTypes :
      LET number == Meaning(Read).value
          got    == GetInt(mread, t)
      IN  IF number = Extended9(LowBytes(number, t.width), t.signed)
          THEN got = [code |-> "ok", value |-> LowBytes(number, t.width)]
          ELSE got.code = "buffer_too_small"

(* The reader has an object when it has read the header and not a byte     *)
(* more: what follows is its data or the next object.                      *)
ReaderInStep ==
  [][Reading' /\ ~Reading => place'.byte = Len(Built[Read'])]_pvars

(* Again and again nothing is left half way: an object that was begun is   *)
(* written to its end although the procedure takes it in parts, and one    *)
(* that is written whole is read, if both sides repeat their calls.        *)
Delivered ==
  []<>(/\ mpack.status \in {"build_buffer", "fatal_error"}
       /\ place.entry <= Len(stream) => ~Whole(Entry))
===========================================================================
