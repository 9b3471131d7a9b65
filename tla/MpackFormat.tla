---------------------------- MODULE MpackFormat ----------------------------
(***************************************************************************)
(* The first bytes of an object, as the build procedures of                *)
(* src/mpack/mpackwrite.cpp put them together, and what they mean by the   *)
(* table of formats in src/mpack/mpack.h.                                  *)
(***************************************************************************)
EXTENDS Integers, Sequences

\* An object: a number has its eight bytes in value, the highest first; a
\* float those of its own width; the others a size, which counts the bytes of
\* a str, bin or ext and the elements of an array or map.
Obj(kind, value, size, type) ==
  [kind |-> kind, value |-> value, size |-> size, type |-> type]

Kinds == {"int", "uint", "float32", "float64", "nil", "false", "true",
          "str", "bin", "ext", "array", "map"}

HasSize == {"str", "bin", "ext", "array", "map"}

ValueLength(kind) ==
  CASE kind \in {"int", "uint", "float64"} -> 8
    [] kind = "float32" -> 4
    [] OTHER -> 0

\* A size has 32 bits.
IsSize(n) == n \in Nat /\ n \div 65536 <= 65535

ObjectSet ==
  {o \in [kind : Kinds, value : Seq(0 .. 255), size : Nat, type : 0 .. 255] :
     /\ Len(o.value) = ValueLength(o.kind)
     /\ IsSize(o.size) /\ (o.kind \notin HasSize => o.size = 0)
     /\ o.kind # "ext" => o.type = 0}

Widths == {1, 2, 4, 8}
Rank   == [k \in Widths |-> CASE k = 1 -> 0 [] k = 2 -> 1 [] k = 4 -> 2 [] k = 8 -> 3]

LowBytes(v, k) == SubSeq(v, Len(v) - k + 1, Len(v))
BytesOf(n, k)  == [i \in 1 .. k |-> (n \div 256 ^ (k - i)) % 256]

SignFill(byte) == IF byte >= 128 THEN 255 ELSE 0

\* Whether the low k bytes stand for the number, signed or not.
Fits(v, k)         == \A i \in 1 .. 8 - k : v[i] = SignFill(v[9 - k])
FitsUnsigned(v, k) == \A i \in 1 .. 8 - k : v[i] = 0

Least(ks) == CHOOSE k \in ks : \A l \in ks : k <= l

---------------------------------------------------------------------------
(* What is built.                                                          *)

\* The ranges are tried from the narrowest, so a procedure for wide numbers
\* builds the same as one for narrow ones.
IntHeader(v) ==
  LET k == Least({w \in Widths : Fits(v, w)})
  IN  IF k = 1 /\ (v[8] <= 127 \/ v[8] >= 224) THEN <<v[8]>>
                                               ELSE <<208 + Rank[k]>> \o LowBytes(v, k)

UintHeader(v) ==
  LET k == Least({w \in Widths : FitsUnsigned(v, w)})
  IN  IF k = 1 /\ v[8] <= 127 THEN <<v[8]>> ELSE <<204 + Rank[k]>> \o LowBytes(v, k)

\* Variant: as many as fit the five bits, of which four are kept.
FixLimit5(kind) == IF kind = "str" THEN 31 ELSE 15

\* The greatest size that goes into the first byte.
FixLimit(kind) == IF kind \in {"str", "array", "map"} THEN 15 ELSE -1
Fix   == [str |-> 160, array |-> 144, map |-> 128]

\* A size of its own has 1, 2 or 4 bytes, 2 or 4 for an array or map.
First == [str |-> 217, bin |-> 196, ext |-> 199, array |-> 219, map |-> 221]

SizeWidth(kind, n) ==
  CASE n <= 255 /\ kind \notin {"array", "map"} -> 1
    [] n <= 65535 /\ (n > 255 \/ kind \in {"array", "map"}) -> 2
    [] OTHER -> 4

SizeHeader(kind, n) ==
  LET k == SizeWidth(kind, n)
  IN  IF n <= FixLimit(kind) THEN <<Fix[kind] + (n % 16)>>
                             ELSE <<First[kind] + Rank[k]>> \o BytesOf(n, k)

FixExt == [n \in {1, 2, 4, 8, 16} |-> IF n = 16 THEN 216 ELSE 212 + Rank[n]]

ExtHeader(n, type) ==
  IF n \in DOMAIN FixExt THEN <<FixExt[n], type>> ELSE SizeHeader("ext", n) \o <<type>>

Single == [nil |-> 192, false |-> 194, true |-> 195]

HasBinary(o) == o.kind \in {"str", "bin", "ext"}

Header(o) ==
  CASE o.kind = "int"            -> IntHeader(o.value)
    [] o.kind = "uint"           -> UintHeader(o.value)
    [] o.kind = "float32"        -> <<202>> \o o.value
    [] o.kind = "float64"        -> <<203>> \o o.value
    [] o.kind \in DOMAIN Single  -> <<Single[o.kind]>>
    [] o.kind = "ext"            -> ExtHeader(o.size, o.type)
    [] OTHER                     -> SizeHeader(o.kind, o.size)

---------------------------------------------------------------------------
(* What it means: the table of formats (mpack.h:35-97).  A number is an    *)
(* extended one: its sign in front of its eight bytes.                     *)

Number(fill, bytes) ==
  LET n == 9 - Len(bytes)
  IN  Obj("number", [i \in 1 .. 9 |-> IF i <= n THEN fill ELSE bytes[i - n]], 0, 0)

Sized(kind, n) == Obj(kind, << >>, n, 0)
Ext(n, type)   == Obj("ext", << >>, n, type)

NatOf(bytes) ==
  LET value[i \in 0 .. Len(bytes)] == IF i = 0 THEN 0 ELSE value[i - 1] * 256 + bytes[i]
  IN  value[Len(bytes)]

Meaning(o) ==
  CASE o.kind = "int"  -> Number(SignFill(o.value[1]), o.value)
    [] o.kind = "uint" -> Number(0, o.value)
    [] OTHER           -> o

\* How many bytes follow a first byte.
Following(b) ==
  CASE b <= 195 \/ b >= 224 -> 0
    [] b \in 196 .. 198 -> 2 ^ (b - 196)
    [] b \in 199 .. 201 -> 2 ^ (b - 199) + 1
    [] b = 202 -> 4
    [] b = 203 -> 8
    [] b \in 204 .. 207 -> 2 ^ (b - 204)
    [] b \in 208 .. 211 -> 2 ^ (b - 208)
    [] b \in 212 .. 216 -> 1
    [] b \in 217 .. 219 -> 2 ^ (b - 217)
    [] b \in 220 .. 221 -> 2 ^ (b - 219)
    [] b \in 222 .. 223 -> 2 ^ (b - 221)

\* The type is behind the size.
SizeAndType(rest) == Ext(NatOf(SubSeq(rest, 1, Len(rest) - 1)), rest[Len(rest)])

\* What a first byte and those that follow mean.
MeaningOf(b, rest) ==
  CASE b <= 127 -> Number(0, <<b>>)
    [] b \in 128 .. 143 -> Sized("map", b - 128)
    [] b \in 144 .. 159 -> Sized("array", b - 144)
    [] b \in 160 .. 191 -> Sized("str", b - 160)
    [] b = 192 -> Sized("nil", 0)
    [] b = 194 -> Sized("false", 0)
    [] b = 195 -> Sized("true", 0)
    [] b \in 196 .. 198 -> Sized("bin", NatOf(rest))
    [] b \in 199 .. 201 -> SizeAndType(rest)
    [] b = 202 -> Obj("float32", rest, 0, 0)
    [] b = 203 -> Obj("float64", rest, 0, 0)
    [] b \in 204 .. 207 -> Number(0, rest)
    [] b \in 208 .. 211 -> Number(SignFill(rest[1]), rest)
    [] b \in 212 .. 216 -> Ext(2 ^ (b - 212), rest[1])
    [] b \in 217 .. 219 -> Sized("str", NatOf(rest))
    [] b \in 220 .. 221 -> Sized("array", NatOf(rest))
    [] b \in 222 .. 223 -> Sized("map", NatOf(rest))
    [] b >= 224 -> Number(255, <<b>>)
    [] OTHER -> Sized("none", 0)

Decode(h) ==
  IF Len(Tail(h)) = Following(h[1]) THEN MeaningOf(h[1], Tail(h)) ELSE Sized("none", 0)
===========================================================================
