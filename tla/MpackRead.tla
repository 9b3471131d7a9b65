----------------------------- MODULE MpackRead -----------------------------
(***************************************************************************)
(* The reader of objects (src/mpack/mpackread.cpp): the format, the bytes  *)
(* of a number or size, and the object the get procedures answer from.     *)
(* One call goes as far as the data that have arrived allow, and the       *)
(* caller repeats it.                                                      *)
(*                                                                         *)
(* The procedures that receive are static and nothing in the repository    *)
(* calls them; their caller here repeats receive_object until it has the   *)
(* object, takes its data and resets the context for the next one.         *)
(***************************************************************************)
EXTENDS MpackStream, SequencesExt

VARIABLES
  mread,    \* the context
  place,    \* the entry being read and the bytes of it that were read
  answer    \* what the last call returned

rvars == <<mread, place, answer>>

---------------------------------------------------------------------------
(* The object in the context.  Its values share the memory of a union,     *)
(* eight bytes, the lowest first.                                          *)

Object(type, memory) == [type |-> type, memory |-> memory]

\* A value put at the beginning of the union leaves the rest as it was.
PutAt(memory, offset, bytes) ==
  [i \in DOMAIN memory |->
     IF i \in offset + 1 .. offset + Len(bytes) THEN bytes[i - offset] ELSE memory[i]]

Put(memory, bytes) == PutAt(memory, 0, bytes)

\* Bytes, and fill behind them.
Filled(bytes, n, fill) == bytes \o [i \in 1 .. n - Len(bytes) |-> fill]

\* The bytes of the stream in the order of the memory.
Swap(bytes) == Reverse(bytes)

\* A context that waits for a format has the object of before in it.
Cleared(object) ==
  [status |-> "receive_format", object |-> object, format |-> 0, number |-> << >>,
   number_need |-> 0, binary_need |-> 0, binary_read |-> 0]

---------------------------------------------------------------------------
(* The table of formats, as process_format knows it.                       *)

\* Formats that are the whole object: its type and what is put in the union.
FixNumber(f) == [type |-> "int", put |-> Filled(<<f>>, 8, SignFill(f))]
FixSize(type, f, n) == [type |-> type, put |-> Filled(<<f % n>>, 4, 0)]

WholeFormats ==
  [f \in (0 .. 195 \cup 224 .. 255) \ {193} |->
     CASE f \in 0 .. 127 \cup 224 .. 255 -> FixNumber(f)
       [] f \in 128 .. 143 -> FixSize("map", f, 16)
       [] f \in 144 .. 159 -> FixSize("array", f, 16)
       [] f \in 160 .. 191 -> FixSize("str", f, 32)
       [] f = 192 -> [type |-> "nil", put |-> << >>]
       [] f = 194 -> [type |-> "bool", put |-> <<0>>]
       [] f = 195 -> [type |-> "bool", put |-> <<1>>]]

\* Formats that announce bytes of a number, a size or the type of an ext.
Announced(type, need, binary) == [type |-> type, need |-> need, binary |-> binary]

\* Variant: the type of an ext is not counted.
BinExtShort ==
  [f \in 196 .. 201 |-> IF f <= 198 THEN Announced("bin", 2 ^ (f - 196), 0)
                                    ELSE Announced("ext", 2 ^ (f - 199), 0)]

BinExtFormats ==
  [f \in 196 .. 201 |-> IF f <= 198 THEN Announced("bin", 2 ^ (f - 196), 0)
                                    ELSE Announced("ext", 2 ^ (f - 199) + 1, 0)]
FloatFormats   == [f \in 202 .. 203 |-> IF f = 202 THEN Announced("float", 4, 0)
                                                  ELSE Announced("double", 8, 0)]
IntFormats     == [f \in 208 .. 211 |-> Announced("int", 2 ^ (f - 208), 0)]
UintFormats    == [f \in 204 .. 207 |-> Announced("uint", 2 ^ (f - 204), 0)]

\* Variant: the size of the data is not noted.
FixextNoBinary == [f \in 212 .. 216 |-> Announced("ext", 1, 0)]
FixextFormats  == [f \in 212 .. 216 |-> Announced("ext", 1, 2 ^ (f - 212))]

StrFormats     == [f \in 217 .. 219 |-> Announced("str", 2 ^ (f - 217), 0)]
CountFormats ==
  [f \in 220 .. 223 |-> IF f <= 221 THEN Announced("array", 2 ^ (f - 219), 0)
                                    ELSE Announced("map", 2 ^ (f - 221), 0)]

NumberFormats ==
  [f \in 196 .. 223 |->
     CASE f \in 196 .. 201 -> BinExtFormats[f]
       [] f \in 202 .. 203 -> FloatFormats[f]
       [] f \in 204 .. 207 -> UintFormats[f]
       [] f \in 208 .. 211 -> IntFormats[f]
       [] f \in 212 .. 216 -> FixextFormats[f]
       [] f \in 217 .. 219 -> StrFormats[f]
       [] f \in 220 .. 223 -> CountFormats[f]]

---------------------------------------------------------------------------
(* The stages, as functions of the context.                                *)

\* process_format.  A format of no data leaves the needs of the last one.
FormatProcessed(m) ==
  CASE m.format \in DOMAIN WholeFormats ->
         LET w == WholeFormats[m.format]
         IN  [m EXCEPT !.status = "xchange_object",
                       !.object = Object(w.type, Put(m.object.memory, w.put))]
    [] m.format \in DOMAIN NumberFormats ->
         LET n == NumberFormats[m.format]
             k == [m EXCEPT !.status = "receive_number",
                            !.object = Object(n.type, m.object.memory),
                            !.number_need = n.need, !.number = << >>]
         IN  IF n.binary = 0 THEN k ELSE [k EXCEPT !.binary_need = n.binary, !.binary_read = 0]
    [] OTHER -> m

\* What a number of the format is in memory.
SizeInMemory(bytes)  == Filled(Swap(bytes), 4, 0)
ExtInMemory(bytes)   == SizeInMemory(Front(bytes)) \o <<Last(bytes)>>

IntInMemory(bytes)   == Filled(Swap(bytes), 8, SignFill(bytes[1]))
UintInMemory(bytes)  == Filled(Swap(bytes), 8, 0)

\* What the union has after the number: of a fixext, the type behind what it
\* has at the size.
NumberPut(f, number, u) ==
  CASE f \in DOMAIN IntFormats    -> Put(u, IntInMemory(number))
    [] f \in DOMAIN UintFormats   -> Put(u, UintInMemory(number))
    [] f \in DOMAIN FloatFormats  -> Put(u, Swap(number))
    [] f \in 199 .. 201           -> Put(u, ExtInMemory(number))
    [] f \in DOMAIN FixextFormats -> PutAt(u, 4, number)
    [] OTHER                      -> Put(u, SizeInMemory(number))

\* process_number.
NumberProcessed(m) ==
  [m EXCEPT !.status = "xchange_object",
            !.object = Object(m.object.type, NumberPut(m.format, m.number, m.object.memory))]

---------------------------------------------------------------------------
(* The stream.                                                             *)

Entry == stream[place.entry]

Arrived == IF place.entry > Len(stream) THEN 0
           ELSE Len(Entry.head) + DataLen(Entry) - place.byte

\* A byte of the data is none of the header's.
DataByte == 90

BytesAt(from, n) ==
  [i \in 1 .. n |-> IF from + i <= Len(Entry.head) THEN Entry.head[from + i] ELSE DataByte]

Smaller(a, b) == IF a < b THEN a ELSE b

\* What the procedure asked for n bytes gives: nothing, a half of what it
\* could, or all.
Given(n) == LET k == Smaller(n, Arrived) IN {0, k \div 2, k}

---------------------------------------------------------------------------
(* The calls.                                                              *)

Take(n) == place' = [place EXCEPT !.byte = @ + n]

\* From the bytes of a number on: n of them come.
NumberReceived(m, from, n) ==
  LET k == [m EXCEPT !.number = @ \o BytesAt(from, n)]
  IN  /\ mread' = IF Len(k.number) < k.number_need THEN k ELSE NumberProcessed(k)
      /\ answer' = IF Len(k.number) < k.number_need THEN "not_enough_data" ELSE "ok"
      /\ place' = [place EXCEPT !.byte = from + n]

\* The procedure claims to have given more than it was asked for.
TooMuch == answer' = "internal" /\ UNCHANGED <<mread, place>>

\* receive_object, in a context that waits for a format.
ReceiveFormat ==
  /\ mread.status = "receive_format"
  /\ \/ /\ answer' = "not_enough_data"
        /\ UNCHANGED <<mread, place>>
     \/ /\ Arrived > 0
        /\ LET m == FormatProcessed([mread EXCEPT !.format = BytesAt(place.byte, 1)[1]])
           IN  CASE m.status = "xchange_object" -> mread' = m /\ answer' = "ok" /\ Take(1)
                 [] m.status = "receive_number" ->
                      \E n \in {0, 1, m.number_need} :
                        /\ n < Arrived
                        /\ NumberReceived(m, place.byte + 1, n)
                 [] OTHER -> /\ mread' = [m EXCEPT !.status = "process_format"]
                             /\ answer' = "invalid_format"
                             /\ Take(1)

\* receive_object, in one that has a part of the number.
ReceiveNumber ==
  /\ mread.status = "receive_number"
  /\ \/ \E n \in Given(mread.number_need - Len(mread.number)) : NumberReceived(mread, place.byte, n)
     \/ TooMuch

\* receive_object_binary, with a buffer for size bytes.
ReceiveBinary(size) ==
  /\ mread.status = "xchange_object"
  /\ IF mread.binary_need > size
     THEN answer' = "buffer_too_small" /\ UNCHANGED <<mread, place>>
     ELSE \/ \E n \in Given(mread.binary_need - mread.binary_read) :
               /\ mread' = [mread EXCEPT !.binary_read = @ + n]
               /\ answer' = IF mread.binary_read + n < mread.binary_need
                            THEN "not_enough_data" ELSE "ok"
               /\ Take(n)
          \/ mread.binary_read < mread.binary_need /\ TooMuch

\* The caller passes over what the reader left of the data.
Skip ==
  /\ mread.status = "xchange_object"
  /\ mread.binary_read = mread.binary_need
  /\ Arrived > 0 /\ place.byte >= Len(Entry.head)
  /\ Take(Arrived)
  /\ UNCHANGED <<mread, answer>>

\* recv_reset, between two objects.
ResetRead ==
  /\ mread.status = "xchange_object"
  /\ Whole(Entry) /\ Arrived = 0
  /\ mread' = Cleared(mread.object)
  /\ place' = [entry |-> place.entry + 1, byte |-> 0]
  /\ answer' = "ok"

\* Buffers that are too small for anything, and large enough.
Buffers == {0, 16}

NextRead ==
  \/ ReceiveFormat \/ ReceiveNumber
  \/ \E size \in Buffers : ReceiveBinary(size)
  \/ Skip
  \/ ResetRead

InitRead ==
  /\ mread = Cleared(Object("no", [i \in 1 .. 8 |-> 0]))
  /\ place = [entry |-> 1, byte |-> 0]
  /\ answer = "ok"

---------------------------------------------------------------------------
(* The get procedures, as functions of the context.                        *)

IntTypes == [signed : BOOLEAN, width : Widths]

\* Whether the number is in the range of a signed type.
InSigned(object, width) ==
  LET v == Swap(object.memory)
  IN  IF object.type = "int" THEN Fits(v, width)
                             ELSE FitsUnsigned(v, width) /\ v[9 - width] < 128

\* Variant: the sign is not looked at.
InUnsignedAny(object, width) == FitsUnsigned(Swap(object.memory), width)

\* And in that of one without a sign.
InUnsigned(object, width) ==
  LET v == Swap(object.memory)
  IN  FitsUnsigned(v, width) /\ (object.type = "int" => v[1] < 128)

\* get_int_as_*: the low bytes of the number, if the type can hold it.
GetInt(m, t) ==
  CASE m.status # "xchange_object"           -> [code |-> "invalid_operation", value |-> << >>]
    [] m.status = "xchange_object" /\ m.object.type \notin {"int", "uint"} ->
         [code |-> "invalid_type", value |-> << >>]
    [] m.status = "xchange_object" /\ m.object.type \in {"int", "uint"} ->
         IF (IF t.signed THEN InSigned(m.object, t.width) ELSE InUnsigned(m.object, t.width))
         THEN [code |-> "ok", value |-> LowBytes(Swap(m.object.memory), t.width)]
         ELSE [code |-> "buffer_too_small", value |-> << >>]

\* The other get procedures: as many bytes of the union as the type has.
ValueSize == [nil |-> 0, bool |-> 1, float |-> 4, double |-> 8, str |-> 4, bin |-> 4, ext |-> 5,
              array |-> 4, map |-> 4]

Get(m, type) ==
  CASE m.status # "xchange_object" -> [code |-> "invalid_operation", value |-> << >>]
    [] m.status = "xchange_object" /\ m.object.type # type -> [code |-> "invalid_type", value |-> << >>]
    [] m.status = "xchange_object" /\ m.object.type = type ->
         [code |-> "ok", value |-> SubSeq(m.object.memory, 1, ValueSize[type])]
===========================================================================
