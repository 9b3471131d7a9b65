------------------------- MODULE MpackWriteProofs -------------------------
(***************************************************************************)
(* Theorems about MpackWrite, for any objects and any number of them.      *)
(***************************************************************************)
EXTENDS MpackWrite, SequenceTheorems, TLAPS

---------------------------------------------------------------------------
(* The headers.                                                            *)

\* The bytes of a header: at least one, and no more than ten.
Bytes      == Seq(0 .. 255)
IsBytes(h, n) == h \in Bytes /\ Len(h) \in 1 .. n

(* The weights of up to four bytes.                                        *)
LEMMA PowerIs == ASSUME NEW j \in 0 .. 3 PROVE 256 ^ j \in Nat \ {0}
<1>1. CASE j = 0
  <2>1. 256 ^ 0 = 1 OBVIOUS
  <2> QED BY <1>1, <2>1
<1>2. CASE j = 1
  <2>1. 256 ^ 1 = 256 OBVIOUS
  <2> QED BY <1>2, <2>1
<1>3. CASE j = 2
  <2>1. 256 ^ 2 = 65536 OBVIOUS
  <2> QED BY <1>3, <2>1
<1>4. CASE j = 3
  <2>1. 256 ^ 3 = 16777216 OBVIOUS
  <2> QED BY <1>4, <2>1
<1> QED BY <1>1, <1>2, <1>3, <1>4

(* What is left of a division by 256 is a byte.                            *)
LEMMA ByteIs == ASSUME NEW n \in Nat, NEW m \in Nat \ {0} PROVE (n \div m) % 256 \in 0 .. 255
OBVIOUS

(* A size in one, two or four bytes.                                       *)
LEMMA BytesOfIs ==
  ASSUME NEW n \in Nat, NEW k \in {1, 2, 4}
  PROVE  BytesOf(n, k) \in Bytes /\ Len(BytesOf(n, k)) = k
<1>1. \A i \in 1 .. k : (n \div 256 ^ (k - i)) % 256 \in 0 .. 255
  <2> SUFFICES ASSUME NEW i \in 1 .. k PROVE (n \div 256 ^ (k - i)) % 256 \in 0 .. 255
    OBVIOUS
  <2>1. PICK j \in 0 .. 3 : j = k - i
    OBVIOUS
  <2>2. (n \div 256 ^ j) % 256 \in 0 .. 255
    BY PowerIs, ByteIs
  <2> QED BY <2>1, <2>2
<1> QED BY <1>1 DEF BytesOf, Bytes

(* The widths, numbered.                                                   *)
LEMMA RankIs ==
  /\ Rank[1] = 0 /\ Rank[2] = 1 /\ Rank[4] = 2 /\ Rank[8] = 3
BY DEF Rank, Widths

(* The least width of several is one of them.                              *)
LEMMA LeastIs ==
  ASSUME NEW ks \in SUBSET Widths, 8 \in ks
  PROVE  Least(ks) \in ks
<1>1. \E k \in ks : \A l \in ks : k <= l
  <2>1. CASE 1 \in ks BY <2>1 DEF Widths
  <2>2. CASE 1 \notin ks /\ 2 \in ks BY <2>2 DEF Widths
  <2>3. CASE 1 \notin ks /\ 2 \notin ks /\ 4 \in ks BY <2>3 DEF Widths
  <2>4. CASE 1 \notin ks /\ 2 \notin ks /\ 4 \notin ks BY <2>4 DEF Widths
  <2> QED BY <2>1, <2>2, <2>3, <2>4
<1> QED BY <1>1 DEF Least

(* The low bytes of a number of eight.                                     *)
LEMMA LowBytesIs ==
  ASSUME NEW v \in Bytes, Len(v) = 8, NEW k \in Widths
  PROVE  LowBytes(v, k) \in Bytes /\ Len(LowBytes(v, k)) = k
<1>1. \A i \in 8 - k + 1 .. 8 : v[i] \in 0 .. 255
  <2> SUFFICES ASSUME NEW i \in 8 - k + 1 .. 8 PROVE v[i] \in 0 .. 255
    OBVIOUS
  <2>1. i \in 1 .. Len(v)
    BY DEF Widths
  <2> QED BY <2>1, ElementOfSeq DEF Bytes
<1>2. 8 - k + 1 \in Int /\ 8 - k + 1 <= 8 /\ 8 - (8 - k + 1) + 1 = k
  BY DEF Widths
<1> QED BY <1>1, <1>2, SubSeqProperties DEF LowBytes, Bytes

\* A byte in front of others.
LEMMA InFront ==
  ASSUME NEW b \in 0 .. 255, NEW h \in Bytes, NEW n \in Nat, Len(h) \in 0 .. n
  PROVE  IsBytes(<<b>> \o h, n + 1)
<1>1. <<b>> \in Bytes /\ Len(<<b>>) = 1
  BY DEF Bytes
<1> QED BY <1>1, ConcatProperties DEF Bytes, IsBytes

(* A byte behind others.                                                   *)
LEMMA AtLast ==
  ASSUME NEW b \in 0 .. 255, NEW h \in Bytes, NEW n \in Nat, Len(h) \in 0 .. n
  PROVE  IsBytes(h \o <<b>>, n + 1)
<1>1. <<b>> \in Bytes /\ Len(<<b>>) = 1
  BY DEF Bytes
<1> QED BY <1>1, ConcatProperties DEF Bytes, IsBytes

(* The header of an integer has nine bytes at most,                        *)
LEMMA NumberHeaderIs ==
  ASSUME NEW v \in Bytes, Len(v) = 8
  PROVE  IsBytes(IntHeader(v), 9) /\ IsBytes(UintHeader(v), 9)
<1>. v[8] \in 0 .. 255
  <2>1. 8 \in 1 .. Len(v) OBVIOUS
  <2> QED BY <2>1, ElementOfSeq DEF Bytes
<1>1. IsBytes(<<v[8]>>, 9)
  BY DEF IsBytes, Bytes
<1>2. IsBytes(IntHeader(v), 9)
  <2>1. PICK k : k = Least({w \in Widths : Fits(v, w)})
    OBVIOUS
  <2>2. k \in Widths
    <3>1. Fits(v, 8) BY DEF Fits
    <3>2. 8 \in {w \in Widths : Fits(v, w)} BY <3>1 DEF Widths
    <3> QED BY <2>1, <3>2, LeastIs
  <2>3. 208 + Rank[k] \in 0 .. 255
    BY <2>2, RankIs DEF Widths
  <2>4. IsBytes(<<208 + Rank[k]>> \o LowBytes(v, k), 8 + 1)
    <3>1. LowBytes(v, k) \in Bytes /\ Len(LowBytes(v, k)) = k
      BY <2>2, LowBytesIs
    <3>2. k \in 0 .. 8
      BY <2>2 DEF Widths
    <3> QED BY <2>3, <3>1, <3>2, InFront
  <2> QED BY <1>1, <2>1, <2>4 DEF IntHeader
<1>3. IsBytes(UintHeader(v), 9)
  <2>1. PICK k : k = Least({w \in Widths : FitsUnsigned(v, w)})
    OBVIOUS
  <2>2. k \in Widths
    <3>1. FitsUnsigned(v, 8) BY DEF FitsUnsigned
    <3>2. 8 \in {w \in Widths : FitsUnsigned(v, w)} BY <3>1 DEF Widths
    <3> QED BY <2>1, <3>2, LeastIs
  <2>3. 204 + Rank[k] \in 0 .. 255
    BY <2>2, RankIs DEF Widths
  <2>4. IsBytes(<<204 + Rank[k]>> \o LowBytes(v, k), 8 + 1)
    <3>1. LowBytes(v, k) \in Bytes /\ Len(LowBytes(v, k)) = k
      BY <2>2, LowBytesIs
    <3>2. k \in 0 .. 8
      BY <2>2 DEF Widths
    <3> QED BY <2>3, <3>1, <3>2, InFront
  <2> QED BY <1>1, <2>1, <2>4 DEF UintHeader
<1> QED BY <1>2, <1>3

(* that of a size five,                                                    *)
LEMMA SizeHeaderIs ==
  ASSUME NEW kind \in {"str", "bin", "ext", "array", "map"}, NEW n \in Nat
  PROVE  IsBytes(SizeHeader(kind, n), 5)
<1>1. PICK k : k = SizeWidth(kind, n)
  OBVIOUS
<1>2. k \in {1, 2, 4} /\ (kind \in {"array", "map"} => k \in {2, 4})
  <2>1. CASE n <= 255 /\ kind \notin {"array", "map"}
    BY <1>1, <2>1 DEF SizeWidth
  <2>2. CASE n <= 65535 /\ (n > 255 \/ kind \in {"array", "map"})
    BY <1>1, <2>2 DEF SizeWidth
  <2>3. CASE n > 65535
    BY <1>1, <2>3 DEF SizeWidth
  <2> QED BY <2>1, <2>2, <2>3
<1>3. CASE n <= FixLimit(kind)
  <2>1. kind \in {"str", "array", "map"}
    BY <1>3 DEF FixLimit
  <2>2. Fix[kind] + (n % 16) \in 0 .. 255
    <3>1. n % 16 \in 0 .. 15 OBVIOUS
    <3>2. Fix[kind] \in {160, 144, 128} BY <2>1 DEF Fix
    <3> QED BY <3>1, <3>2
  <2>3. SizeHeader(kind, n) = <<Fix[kind] + (n % 16)>>
    BY <1>3 DEF SizeHeader
  <2> QED BY <2>2, <2>3 DEF IsBytes, Bytes
<1>4. CASE ~ (n <= FixLimit(kind))
  <2>1. First[kind] + Rank[k] \in 0 .. 255
    BY <1>2, RankIs DEF First
  <2>2. SizeHeader(kind, n) = <<First[kind] + Rank[k]>> \o BytesOf(n, k)
    BY <1>1, <1>4 DEF SizeHeader
  <2>3. BytesOf(n, k) \in Bytes /\ Len(BytesOf(n, k)) = k
    BY <1>2, BytesOfIs
  <2>5. k \in 0 .. 4
    BY <1>2
  <2>4. IsBytes(<<First[kind] + Rank[k]>> \o BytesOf(n, k), 4 + 1)
    BY <2>1, <2>3, <2>5, InFront
  <2> QED BY <2>2, <2>4
<1> QED BY <1>3, <1>4

(* that of an ext six,                                                     *)
LEMMA ExtHeaderIs ==
  ASSUME NEW n \in Nat, NEW type \in 0 .. 255
  PROVE  IsBytes(ExtHeader(n, type), 6)
<1>1. CASE n \in {1, 2, 4, 8, 16}
  <2>1. FixExt[n] \in 0 .. 255
    BY <1>1, RankIs DEF FixExt
  <2>2. ExtHeader(n, type) = <<FixExt[n], type>>
    BY <1>1 DEF ExtHeader, FixExt
  <2> QED BY <2>1, <2>2 DEF IsBytes, Bytes
<1>2. CASE n \notin {1, 2, 4, 8, 16}
  <2>1. ExtHeader(n, type) = SizeHeader("ext", n) \o <<type>>
    BY <1>2 DEF ExtHeader, FixExt
  <2>2. PICK h : h = SizeHeader("ext", n)
    OBVIOUS
  <2>3. IsBytes(h, 5)
    BY <2>2, SizeHeaderIs
  <2>4. h \in Bytes /\ Len(h) \in 0 .. 5
    BY <2>3 DEF IsBytes
  <2>5. IsBytes(h \o <<type>>, 5 + 1)
    BY <2>4, AtLast
  <2> QED BY <2>1, <2>2, <2>5
<1> QED BY <1>1, <1>2

(* and any header ten.                                                     *)
LEMMA HeaderIs ==
  ASSUME NEW o \in ObjectSet
  PROVE  IsBytes(Header(o), 10)
<1>1. /\ o.kind \in Kinds /\ o.value \in Bytes /\ o.size \in Nat /\ o.type \in 0 .. 255
      /\ Len(o.value) = ValueLength(o.kind)
  BY DEF ObjectSet, Bytes
<1>2. CASE o.kind = "int"
  <2>1. Header(o) = IntHeader(o.value) BY <1>2 DEF Header, Single
  <2>2. IsBytes(Header(o), 9) BY <1>1, <1>2, <2>1, NumberHeaderIs DEF ValueLength
  <2> QED BY <2>2 DEF IsBytes
<1>3. CASE o.kind = "uint"
  <2>1. Header(o) = UintHeader(o.value) BY <1>3 DEF Header, Single
  <2>2. IsBytes(Header(o), 9) BY <1>1, <1>3, <2>1, NumberHeaderIs DEF ValueLength
  <2> QED BY <2>2 DEF IsBytes
<1>4. CASE o.kind = "float32"
  <2>1. Header(o) = <<202>> \o o.value BY <1>4 DEF Header, Single
  <2>2. Len(o.value) = 4 BY <1>1, <1>4 DEF ValueLength
  <2>4. Len(o.value) \in 0 .. 9 BY <2>2
  <2>3. 202 \in 0 .. 255 OBVIOUS
  <2>5. IsBytes(<<202>> \o o.value, 9 + 1) BY <1>1, <2>3, <2>4, InFront
  <2> QED BY <2>1, <2>5
<1>5. CASE o.kind = "float64"
  <2>1. Header(o) = <<203>> \o o.value BY <1>5 DEF Header, Single
  <2>2. Len(o.value) = 8 BY <1>1, <1>5 DEF ValueLength
  <2>4. Len(o.value) \in 0 .. 9 BY <2>2
  <2>3. 203 \in 0 .. 255 OBVIOUS
  <2>5. IsBytes(<<203>> \o o.value, 9 + 1) BY <1>1, <2>3, <2>4, InFront
  <2> QED BY <2>1, <2>5
<1>6. CASE o.kind \in {"nil", "false", "true"}
  <2>1. Header(o) = <<Single[o.kind]>> BY <1>6 DEF Header, Single
  <2>2. Single[o.kind] \in 0 .. 255 BY <1>6 DEF Single
  <2> QED BY <2>1, <2>2 DEF IsBytes, Bytes
<1>7. CASE o.kind = "ext"
  <2>1. Header(o) = ExtHeader(o.size, o.type) BY <1>7 DEF Header, Single
  <2>2. IsBytes(Header(o), 6) BY <1>1, <2>1, ExtHeaderIs
  <2> QED BY <2>2 DEF IsBytes
<1>8. CASE o.kind \in {"str", "bin", "array", "map"}
  <2>1. Header(o) = SizeHeader(o.kind, o.size) BY <1>8 DEF Header, Single
  <2>2. IsBytes(Header(o), 5) BY <1>1, <1>8, <2>1, SizeHeaderIs
  <2> QED BY <2>2 DEF IsBytes
<1> QED BY <1>1, <1>2, <1>3, <1>4, <1>5, <1>6, <1>7, <1>8 DEF Kinds

---------------------------------------------------------------------------
(* The invariant, over the context m, the bytes of its data g the caller   *)
(* has counted, the stream s and the object o that was built last.         *)

Statuses == {"build_buffer", "write_buffer", "write_binary", "fatal_error"}
Rets     == {"ok", "partial_complete", "invalid_operation", "internal"}

Contexts ==
  [status : Statuses, buffer_data : Bytes, buffer_offset : Nat,
   binary_offset : Nat, binary_amount : Nat]

Entries == [of : AllObjects, head : Bytes, data : Seq(Nat \X Nat)]

Within(m) ==
  /\ Len(m.buffer_data) \in m.buffer_offset .. 10
  /\ m.binary_offset <= m.binary_amount

InTurn(s)   == \A k \in 1 .. Len(s) : k \in 1 .. Len(Objects) /\ s[k].of \in Objects[k]

Ended(e)    == Whole(e) \/ Torn(e)
AllEnded(s) == \A k \in 1 .. Len(s) : Ended(s[k])
Older(s)    == \A k \in 1 .. Len(s) - 1 : Ended(s[k])

\* The last entry is of o, and has these bytes and data.
LastIs(s, o, head, data) ==
  /\ s # << >> /\ Older(s)
  /\ s[Len(s)] = [of |-> o, head |-> head, data |-> data]

\* The entries before the last one of t are those of s.
SameBefore(s, t) ==
  /\ Len(t) \in {Len(s), Len(s) + 1}
  /\ \A k \in 1 .. Len(t) - 1 : t[k] = s[k]

\* The intervals of data of which g bytes are there.
DataUpTo(g) == IF g = 0 THEN << >> ELSE <<<<1, g>>>>

\* o is one of the objects that may be written next.
IsNext(o, s) == Len(s) + 1 \in 1 .. Len(Objects) /\ o \in Objects[Len(s) + 1]

\* Nothing is left of the data of the object before.
ReadyInv(m, s) == m.binary_offset = m.binary_amount /\ AllEnded(s)

\* The buffer has the header of o, of which less than all is in the stream.
BufferInv(m, g, s, o) ==
  /\ o \in AllObjects /\ m.buffer_data = Built[o] /\ g = 0
  /\ m.buffer_offset < Len(Built[o])
  /\ HasBinary(o) => m.binary_offset = 0 /\ m.binary_amount = o.size
  /\ ~HasBinary(o) => m.binary_offset = m.binary_amount
  /\ m.buffer_offset = 0 => AllEnded(s) /\ IsNext(o, s)
  /\ m.buffer_offset > 0 => LastIs(s, o, SubSeq(Built[o], 1, m.buffer_offset), << >>)

\* The header is in the stream, and as much of the data as was counted.
BinaryInv(m, g, s, o) ==
  /\ o \in AllObjects /\ HasBinary(o)
  /\ m.binary_amount = o.size /\ m.binary_offset = g /\ g < o.size
  /\ LastIs(s, o, Built[o], DataUpTo(g))

TypeInv(m, g, r, s) ==
  /\ m \in Contexts /\ Within(m)
  /\ g \in Nat /\ r \in Rets
  /\ s \in Seq(Entries) /\ InTurn(s)

PlaceInv(m, g, s, o) ==
  /\ m.status = "build_buffer" => ReadyInv(m, s)
  /\ m.status = "write_buffer" => BufferInv(m, g, s, o)
  /\ m.status = "write_binary" => BinaryInv(m, g, s, o)
  /\ m.status = "fatal_error"  => Older(s)

\* Of a state of the stages of a call.
StateInv(x, o) ==
  /\ x = State(x.mpack, x.given, x.ret, x.stream)
  /\ TypeInv(x.mpack, x.given, x.ret, x.stream)
  /\ PlaceInv(x.mpack, x.given, x.stream, o)

WriteInv ==
  /\ TypeInv(mpack, given, ret, stream)
  /\ PlaceInv(mpack, given, stream, current)
  /\ current \in AllObjects \cup {None}

---------------------------------------------------------------------------
(* What the stages rest on.                                                *)

(* The objects that are written are of the set the table of formats is     *)
(* about.                                                                  *)
LEMMA ObjectIs ==
  ASSUME NEW o \in AllObjects
  PROVE  o \in ObjectSet /\ o.size \in Nat
<1>1. o \in ObjectSet
  <2>1. PICK k \in 1 .. Len(Objects) : o \in Objects[k]
    BY DEF AllObjects
  <2>2. Objects[k] \in SUBSET ObjectSet
    BY ObjectsAssumption, ElementOfSeq
  <2> QED BY <2>1, <2>2
<1> QED BY <1>1 DEF ObjectSet

(* What is built in the buffer has a byte at least and ten at most.        *)
LEMMA BuiltIs ==
  ASSUME NEW o \in AllObjects
  PROVE  Built[o] \in Bytes /\ Len(Built[o]) \in 1 .. 10
<1>1. IsBytes(Header(o), 10)
  BY ObjectIs, HeaderIs
<1> QED BY <1>1 DEF Built, IsBytes

(* The object that comes next in the stream.                               *)
LEMMA NextIs ==
  ASSUME NEW s, NEW o, Len(s) \in Nat, Len(s) < Len(Objects), o \in Objects[Len(s) + 1]
  PROVE  IsNext(o, s) /\ o \in AllObjects
<1>1. Len(Objects) \in Nat
  BY ObjectsAssumption, LenProperties
<1>2. Len(s) + 1 \in 1 .. Len(Objects)
  BY <1>1
<1> QED BY <1>2 DEF IsNext, AllObjects

(* The first bytes of a sequence.                                          *)
LEMMA FrontIs ==
  ASSUME NEW S, NEW h \in Seq(S), NEW b \in 0 .. Len(h)
  PROVE  /\ SubSeq(h, 1, b) \in Seq(S) /\ Len(SubSeq(h, 1, b)) = b
         /\ \A i \in 1 .. b : SubSeq(h, 1, b)[i] = h[i]
<1>1. Len(h) \in Nat
  BY LenProperties
<1>2. \A i \in 1 .. b : h[i] \in S
  BY <1>1, ElementOfSeq
<1> QED BY <1>1, <1>2, SubSeqProperties

(* A part of a sequence.                                                   *)
LEMMA PartIs ==
  ASSUME NEW S, NEW h \in Seq(S), NEW a \in 0 .. Len(h), NEW b \in a .. Len(h)
  PROVE  /\ SubSeq(h, a + 1, b) \in Seq(S) /\ Len(SubSeq(h, a + 1, b)) = b - a
         /\ \A i \in 1 .. b - a : SubSeq(h, a + 1, b)[i] = h[i + a]
<1>1. Len(h) \in Nat
  BY LenProperties
<1>2. \A i \in a + 1 .. b : h[i] \in S
  BY <1>1, ElementOfSeq
<1>3. PICK c \in Int : c = a + 1
  BY <1>1
<1>4. /\ SubSeq(h, c, b) \in Seq(S)
      /\ Len(SubSeq(h, c, b)) = IF c <= b THEN b - c + 1 ELSE 0
      /\ \A i \in 1 .. b - c + 1 : SubSeq(h, c, b)[i] = h[c + i - 1]
  BY <1>1, <1>2, <1>3, SubSeqProperties
<1>5. b - c + 1 = b - a /\ (IF c <= b THEN b - c + 1 ELSE 0) = b - a
  BY <1>1, <1>3
<1>6. \A i \in 1 .. b - a : c + i - 1 = i + a
  BY <1>1, <1>3
<1> QED BY <1>3, <1>4, <1>5, <1>6

\* The bytes before a place and those behind it up to another.
LEMMA JoinSub ==
  ASSUME NEW S, NEW h \in Seq(S), NEW a \in 0 .. Len(h), NEW b \in a .. Len(h)
  PROVE  SubSeq(h, 1, a) \o SubSeq(h, a + 1, b) = SubSeq(h, 1, b)
<1>1. Len(h) \in Nat
  BY LenProperties
<1>3. PICK x \in Seq(S) : x = SubSeq(h, 1, a) /\ Len(x) = a
                          /\ \A i \in 1 .. a : x[i] = h[i]
  BY FrontIs
<1>4. PICK y \in Seq(S) : y = SubSeq(h, a + 1, b) /\ Len(y) = b - a
                          /\ \A i \in 1 .. b - a : y[i] = h[i + a]
  <2>1. /\ SubSeq(h, a + 1, b) \in Seq(S) /\ Len(SubSeq(h, a + 1, b)) = b - a
        /\ \A i \in 1 .. b - a : SubSeq(h, a + 1, b)[i] = h[i + a]
    BY PartIs
  <2> QED BY <2>1
<1>5. PICK z \in Seq(S) : z = SubSeq(h, 1, b) /\ Len(z) = b
                          /\ \A i \in 1 .. b : z[i] = h[i]
  <2>1. b \in 0 .. Len(h) BY <1>1
  <2> QED BY <2>1, FrontIs
<1>6. /\ x \o y \in Seq(S) /\ Len(x \o y) = Len(x) + Len(y)
      /\ \A i \in 1 .. Len(x) + Len(y) :
           (x \o y)[i] = IF i <= Len(x) THEN x[i] ELSE y[i - Len(x)]
  BY ConcatProperties
<1>7. Len(x) = a /\ Len(y) = b - a /\ Len(x \o y) = b /\ Len(z) = b
  BY <1>1, <1>3, <1>4, <1>5, <1>6
<1>8. \A i \in 1 .. b : (x \o y)[i] = z[i]
  <2> SUFFICES ASSUME NEW i \in 1 .. b PROVE (x \o y)[i] = z[i]
    OBVIOUS
  <2>1. z[i] = h[i]
    BY <1>1, <1>5
  <2>2. CASE i <= a
    <3>1. x[i] = h[i]
      BY <1>1, <1>3, <2>2
    <3> QED BY <1>1, <1>6, <1>7, <2>1, <2>2, <3>1
  <2>3. CASE ~ (i <= a)
    <3>1. i - a \in 1 .. b - a /\ i - a + a = i
      BY <1>1, <2>3
    <3>2. y[i - a] = h[i]
      BY <1>4, <3>1
    <3> QED BY <1>1, <1>6, <1>7, <2>1, <2>3, <3>2
  <2> QED BY <2>2, <2>3
<1>9. x \o y = z
  BY <1>5, <1>6, <1>7, <1>8, SeqEqual
<1> QED BY <1>3, <1>4, <1>5, <1>9

---------------------------------------------------------------------------
(* The stream: what a stage does to its last entry.                        *)

(* An entry of the stream is an object with a header and data.             *)
LEMMA EntryIs ==
  ASSUME NEW o \in AllObjects, NEW head \in Bytes, NEW data \in Seq(Nat \X Nat)
  PROVE  [of |-> o, head |-> head, data |-> data] \in Entries
BY DEF Entries

(* An entry whose header grew,                                             *)
LEMMA HeadChanged ==
  ASSUME NEW e \in Entries, NEW head
  PROVE  [e EXCEPT !.head = head] = [of |-> e.of, head |-> head, data |-> e.data]
BY DEF Entries

(* and one whose data did.                                                 *)
LEMMA DataChanged ==
  ASSUME NEW e \in Entries, NEW data
  PROVE  [e EXCEPT !.data = data] = [of |-> e.of, head |-> e.head, data |-> data]
BY DEF Entries

\* A new last entry for one of the same object.
LEMMA LastChanged ==
  ASSUME NEW s \in Seq(Entries), s # << >>, InTurn(s), Older(s),
         NEW e \in Entries, e.of = s[Len(s)].of,
         NEW t, t = [s EXCEPT ![Len(s)] = e]
  PROVE  /\ t \in Seq(Entries) /\ t # << >> /\ Len(t) = Len(s)
         /\ InTurn(t) /\ Older(t) /\ t[Len(t)] = e /\ SameBefore(s, t)
<1>1. Len(s) \in Nat /\ Len(s) \in 1 .. Len(s)
  BY EmptySeq
<1>2. /\ t \in Seq(Entries) /\ Len(t) = Len(s)
      /\ \A j \in 1 .. Len(s) : t[j] = IF j = Len(s) THEN e ELSE s[j]
  BY <1>1, ExceptSeq
<1>3. t # << >>
  BY <1>1, <1>2
<1>4. InTurn(t)
  <2> SUFFICES ASSUME NEW k \in 1 .. Len(t)
               PROVE  k \in 1 .. Len(Objects) /\ t[k].of \in Objects[k]
    BY DEF InTurn
  <2>1. k \in 1 .. Len(Objects) /\ s[k].of \in Objects[k]
    BY <1>2 DEF InTurn
  <2>2. t[k].of = s[k].of
    BY <1>2
  <2> QED BY <2>1, <2>2
<1>5. Older(t)
  <2> SUFFICES ASSUME NEW k \in 1 .. Len(t) - 1 PROVE Ended(t[k])
    BY DEF Older
  <2>3. k \in 1 .. Len(s) - 1
    BY <1>2
  <2>1. k \in 1 .. Len(s) - 1 /\ k \in 1 .. Len(s) /\ k # Len(s)
    BY <1>1, <2>3
  <2>2. t[k] = s[k]
    BY <1>2, <2>1
  <2> QED BY <2>1, <2>2 DEF Older
<1>6. SameBefore(s, t)
  <2> SUFFICES ASSUME NEW k \in 1 .. Len(t) - 1 PROVE t[k] = s[k]
    BY <1>2 DEF SameBefore
  <2>1. k \in 1 .. Len(s) - 1
    BY <1>2
  <2>2. k \in 1 .. Len(s) /\ k # Len(s)
    BY <1>1, <2>1
  <2> QED BY <1>2, <2>2
<1> QED BY <1>1, <1>2, <1>3, <1>4, <1>5, <1>6

\* An entry for the next object.
LEMMA LastAdded ==
  ASSUME NEW s \in Seq(Entries), InTurn(s), AllEnded(s),
         NEW e \in Entries, IsNext(e.of, s),
         NEW t, t = Append(s, e)
  PROVE  /\ t \in Seq(Entries) /\ t # << >> /\ Len(t) = Len(s) + 1
         /\ InTurn(t) /\ Older(t) /\ t[Len(t)] = e /\ SameBefore(s, t)
<1>1. Len(s) \in Nat
  BY LenProperties
<1>2. /\ t \in Seq(Entries) /\ t # << >> /\ Len(t) = Len(s) + 1
      /\ \A i \in 1 .. Len(s) : t[i] = s[i]
      /\ t[Len(s) + 1] = e
  BY AppendProperties
<1>4. InTurn(t)
  <2> SUFFICES ASSUME NEW k \in 1 .. Len(t)
               PROVE  k \in 1 .. Len(Objects) /\ t[k].of \in Objects[k]
    BY DEF InTurn
  <2>1. CASE k \in 1 .. Len(s)
    BY <1>2, <2>1 DEF InTurn
  <2>2. CASE k = Len(s) + 1
    BY <1>2, <2>2 DEF IsNext
  <2> QED BY <1>1, <1>2, <2>1, <2>2
<1>5. Older(t)
  <2> SUFFICES ASSUME NEW k \in 1 .. Len(t) - 1 PROVE Ended(t[k])
    BY DEF Older
  <2>1. k \in 1 .. Len(s)
    BY <1>1, <1>2
  <2> QED BY <1>2, <2>1 DEF AllEnded
<1>6. SameBefore(s, t)
  <2> SUFFICES ASSUME NEW k \in 1 .. Len(t) - 1 PROVE t[k] = s[k]
    BY <1>2 DEF SameBefore
  <2>1. k \in 1 .. Len(s)
    BY <1>1, <1>2
  <2> QED BY <1>2, <2>1
<1> QED BY <1>2, <1>4, <1>5, <1>6

(* What PutHeader does to the stream: the entries before the last one      *)
(* stay.                                                                   *)
LEMMA PutHeaderIs ==
  ASSUME NEW s \in Seq(Entries), InTurn(s), NEW m \in Contexts, NEW g, NEW o, current' = o,
         BufferInv(m, g, s, o),
         NEW d \in Nat \ {0}, m.buffer_offset + d <= Len(Built[o]),
         NEW t, t = PutHeader(s, m, SubSeq(m.buffer_data, m.buffer_offset + 1, m.buffer_offset + d))
  PROVE  /\ t \in Seq(Entries) /\ InTurn(t) /\ SameBefore(s, t)
         /\ LastIs(t, o, SubSeq(Built[o], 1, m.buffer_offset + d), << >>)
         /\ m.buffer_offset = 0 => Len(t) = Len(s) + 1
<1>1. /\ o \in AllObjects /\ m.buffer_data = Built[o]
      /\ Built[o] \in Bytes /\ Len(Built[o]) \in Nat
  BY BuiltIs DEF BufferInv
<1>2. PICK a \in Nat : a = m.buffer_offset
  BY DEF Contexts
<1>3. PICK b \in Nat : b = m.buffer_offset + d /\ b = a + d
  BY <1>2
<1>4. a \in 0 .. Len(Built[o]) /\ b \in a .. Len(Built[o]) /\ b \in 0 .. Len(Built[o]) /\ b - a = d
  BY <1>1, <1>2, <1>3
<1>5. PICK part \in Bytes : part = SubSeq(Built[o], a + 1, b) /\ part # << >>
  <2>1. SubSeq(Built[o], a + 1, b) \in Bytes /\ Len(SubSeq(Built[o], a + 1, b)) = d
    <3>1. PICK h \in Seq(0 .. 255) : h = Built[o]
      BY <1>1 DEF Bytes
    <3>2. a \in 0 .. Len(h) /\ b \in a .. Len(h)
      BY <1>4, <3>1
    <3>3. SubSeq(h, a + 1, b) \in Seq(0 .. 255) /\ Len(SubSeq(h, a + 1, b)) = b - a
      BY <3>2, PartIs
    <3> QED BY <1>4, <3>1, <3>3 DEF Bytes
  <2>2. SubSeq(Built[o], a + 1, b) # << >>
    BY <2>1
  <2> QED BY <2>1, <2>2
<1>6. PICK head \in Bytes : head = SubSeq(Built[o], 1, b)
  BY <1>1, <1>4, FrontIs DEF Bytes
<1>7. PICK e \in Entries : e = [of |-> o, head |-> head, data |-> << >>]
  <2>1. << >> \in Seq(Nat \X Nat)
    BY EmptySeq
  <2> QED BY <1>1, <2>1, EntryIs
<1>8. t = PutHeader(s, m, part)
  BY <1>1, <1>2, <1>3, <1>5
<1>9. CASE a = 0
  <2>1. part = head
    BY <1>5, <1>6, <1>9
  <2>2. t = Append(s, e)
    BY <1>2, <1>5, <1>7, <1>8, <1>9, <2>1 DEF PutHeader
  <2>3. AllEnded(s) /\ IsNext(e.of, s)
    BY <1>2, <1>7, <1>9 DEF BufferInv
  <2>4. /\ t \in Seq(Entries) /\ t # << >> /\ InTurn(t) /\ Older(t) /\ t[Len(t)] = e
        /\ SameBefore(s, t) /\ Len(t) = Len(s) + 1
    BY <2>2, <2>3, LastAdded
  <2> QED BY <1>3, <1>6, <1>7, <2>4 DEF LastIs
<1>10. CASE a # 0
  <2>1. LastIs(s, o, SubSeq(Built[o], 1, a), << >>)
    BY <1>2, <1>10 DEF BufferInv
  <2>2. SubSeq(Built[o], 1, a) \o part = head
    BY <1>1, <1>4, <1>5, <1>6, JoinSub DEF Bytes
  <2>3. Len(s) \in 1 .. Len(s)
    BY <2>1, EmptySeq DEF LastIs
  <2>4. t = [s EXCEPT ![Len(s)] = e]
    <3>1. t = [s EXCEPT ![Len(s)].head = @ \o part]
      BY <1>2, <1>5, <1>8, <1>10 DEF PutHeader
    <3>2. [s[Len(s)] EXCEPT !.head = @ \o part] = e
      <4>1. s[Len(s)] = [of |-> o, head |-> SubSeq(Built[o], 1, a), data |-> << >>]
        BY <2>1 DEF LastIs
      <4>2. s[Len(s)].head \o part = head
        BY <2>2, <4>1
      <4>3. s[Len(s)] \in Entries
        BY <2>3, ElementOfSeq
      <4>4. [s[Len(s)] EXCEPT !.head = head] = [of |-> s[Len(s)].of, head |-> head, data |-> s[Len(s)].data]
        BY <4>3, HeadChanged
      <4>5. [s[Len(s)] EXCEPT !.head = s[Len(s)].head \o part] = [s[Len(s)] EXCEPT !.head = head]
        BY <4>2, Zenon
      <4>6. e = [of |-> s[Len(s)].of, head |-> head, data |-> s[Len(s)].data]
        BY <1>7, <4>1
      <4> QED BY <4>4, <4>5, <4>6
    <3> QED BY <2>3, <3>1, <3>2
  <2>5. s # << >> /\ Older(s) /\ e.of = s[Len(s)].of
    BY <1>7, <2>1 DEF LastIs
  <2>6. /\ t \in Seq(Entries) /\ t # << >> /\ InTurn(t) /\ Older(t) /\ t[Len(t)] = e
        /\ SameBefore(s, t)
    BY <2>4, <2>5, LastChanged
  <2> QED BY <1>2, <1>3, <1>6, <1>7, <1>10, <2>6 DEF LastIs
<1> QED BY <1>9, <1>10

(* The same for the data.                                                  *)
LEMMA PutDataIs ==
  ASSUME NEW s \in Seq(Entries), InTurn(s), NEW o \in AllObjects,
         NEW g \in Nat, LastIs(s, o, Built[o], DataUpTo(g)),
         NEW d \in Nat, NEW t, t = PutData(s, g + 1, g + d)
  PROVE  /\ t \in Seq(Entries) /\ InTurn(t) /\ SameBefore(s, t) /\ Len(t) = Len(s)
         /\ LastIs(t, o, Built[o], DataUpTo(g + d))
<1>1. CASE d = 0
  <2>1. g + d = g /\ g + d < g + 1
    BY <1>1
  <2>2. t = s
    BY <2>1 DEF PutData
  <2> QED BY <2>1, <2>2 DEF SameBefore
<1>2. CASE d # 0
  <2>1. PICK b \in Nat \ {0} : b = g + d /\ ~ (b < g + 1)
    BY <1>2
  <2>2. PICK data \in Seq(Nat \X Nat) : data = <<<<1, b>>>>
    <3>1. PICK p \in Nat \X Nat : p = <<1, b>>
      BY <2>1
    <3>2. <<p>> \in Seq(Nat \X Nat)
      OBVIOUS
    <3> QED BY <3>1, <3>2
  <2>3. Built[o] \in Bytes
    BY BuiltIs
  <2>4. PICK e \in Entries : e = [of |-> o, head |-> Built[o], data |-> data]
    BY <2>3, EntryIs
  <2>5. /\ s # << >> /\ Older(s)
        /\ s[Len(s)] = [of |-> o, head |-> Built[o], data |-> DataUpTo(g)]
    BY DEF LastIs
  <2>6. Len(s) \in 1 .. Len(s)
    BY <2>5, EmptySeq
  <2>7. s[Len(s)] \in Entries
    BY <2>6, ElementOfSeq
  <2>8. [s[Len(s)] EXCEPT !.data = data] = e
    <3>1. [s[Len(s)] EXCEPT !.data = data]
            = [of |-> s[Len(s)].of, head |-> s[Len(s)].head, data |-> data]
      BY <2>7, DataChanged
    <3>2. s[Len(s)].of = o /\ s[Len(s)].head = Built[o]
      BY <2>5
    <3> QED BY <2>4, <3>1, <3>2
  <2>9. t = [s EXCEPT ![Len(s)].data = data]
    <3>1. CASE g = 0
      <4>1. s[Len(s)].data = << >>
        BY <2>5, <3>1 DEF DataUpTo
      <4>2. t = [s EXCEPT ![Len(s)].data = Append(@, <<1, b>>)]
        BY <2>1, <3>1, <4>1 DEF PutData
      <4>3. Append(<< >>, <<1, b>>) = data
        BY <2>1, <2>2
      <4> QED BY <4>1, <4>2, <4>3, Zenon
    <3>2. CASE g # 0
      <4>1. s[Len(s)].data = <<<<1, g>>>>
        BY <2>5, <3>2 DEF DataUpTo
      <4>2. t = [s EXCEPT ![Len(s)].data[1][2] = b]
        BY <2>1, <3>2, <4>1 DEF PutData
      <4>3. [<<<<1, g>>>> EXCEPT ![1][2] = b] = data
        BY <2>1, <2>2
      <4> QED BY <4>1, <4>2, <4>3
    <3> QED BY <3>1, <3>2
  <2>10. t = [s EXCEPT ![Len(s)] = e]
    BY <2>8, <2>9
  <2>11. e.of = s[Len(s)].of
    BY <2>4, <2>5
  <2>12. /\ t \in Seq(Entries) /\ t # << >> /\ InTurn(t) /\ Older(t) /\ t[Len(t)] = e
         /\ SameBefore(s, t) /\ Len(t) = Len(s)
    BY <2>5, <2>10, <2>11, LastChanged
  <2> QED BY <2>1, <2>2, <2>4, <2>12 DEF LastIs, DataUpTo
<1> QED BY <1>1, <1>2

(* A stream whose last object is whole, or torn before its data, has only  *)
(* such.                                                                   *)
LEMMA LastEnds ==
  ASSUME NEW s \in Seq(Entries), NEW o, NEW data, LastIs(s, o, Built[o], data),
         \/ data = DataOf(o)
         \/ data = << >> /\ DataOf(o) # << >>
  PROVE  AllEnded(s)
<1>1. Len(s) \in Nat
  BY LenProperties
<1>2. Ended(s[Len(s)])
  BY DEF LastIs, Ended, Whole, Torn
<1> QED BY <1>1, <1>2 DEF LastIs, Older, AllEnded

---------------------------------------------------------------------------
(* The stages.                                                             *)

(* A context that has built an object has written nothing of it.           *)
LEMMA BegunIs ==
  ASSUME NEW x, NEW c, StateInv(x, c), x.mpack.status = "build_buffer",
         NEW o \in AllObjects, IsNext(o, x.stream)
  PROVE  StateInv(Begun(x, o), o) /\ Begun(x, o).mpack.status = "write_buffer"
<1>1. PICK m \in Contexts : m = x.mpack /\ Within(m)
  BY DEF StateInv, TypeInv
<1>2. /\ x.stream \in Seq(Entries) /\ InTurn(x.stream) /\ AllEnded(x.stream)
      /\ m.binary_offset = m.binary_amount
  BY <1>1 DEF StateInv, TypeInv, PlaceInv, ReadyInv
<1>3. Built[o] \in Bytes /\ Len(Built[o]) \in 1 .. 10 /\ o.size \in Nat
  BY BuiltIs, ObjectIs
<1>4. PICK n : n = [m EXCEPT !.status = "write_buffer", !.buffer_data = Built[o],
                            !.buffer_offset = 0]
  OBVIOUS
<1>5. PICK p : p = IF HasBinary(o) THEN [n EXCEPT !.binary_offset = 0, !.binary_amount = o.size]
                                   ELSE n
  OBVIOUS
<1>6. /\ p \in Contexts /\ p.status = "write_buffer" /\ p.buffer_data = Built[o]
      /\ p.buffer_offset = 0
      /\ HasBinary(o) => p.binary_offset = 0 /\ p.binary_amount = o.size
      /\ ~HasBinary(o) => p.binary_offset = p.binary_amount
  <2>1. /\ n \in Contexts /\ n.status = "write_buffer" /\ n.buffer_data = Built[o]
        /\ n.buffer_offset = 0 /\ n.binary_offset = n.binary_amount
    BY <1>2, <1>3, <1>4 DEF Contexts, Statuses
  <2>2. CASE HasBinary(o)
    BY <1>3, <1>5, <2>1, <2>2 DEF Contexts
  <2>3. CASE ~HasBinary(o)
    BY <1>5, <2>1, <2>3
  <2> QED BY <2>2, <2>3
<1>7. Begun(x, o) = State(p, 0, "ok", x.stream)
  BY <1>1, <1>4, <1>5 DEF Begun
<1>8. Within(p)
  <2>1. Len(p.buffer_data) \in p.buffer_offset .. 10
    BY <1>3, <1>6
  <2>2. p.binary_offset <= p.binary_amount
    <3>1. p.binary_offset \in Nat /\ p.binary_amount \in Nat
      BY <1>6 DEF Contexts
    <3>2. CASE HasBinary(o)
      BY <1>6, <3>1, <3>2
    <3>3. CASE ~HasBinary(o)
      BY <1>6, <3>1, <3>3
    <3> QED BY <3>2, <3>3
  <2> QED BY <2>1, <2>2 DEF Within
<1>9. BufferInv(p, 0, x.stream, o)
  <2>1. 0 < Len(Built[o]) /\ ~ (0 > 0)
    <3>1. PICK len \in 1 .. 10 : len = Len(Built[o])
      BY <1>3
    <3>2. 0 < len /\ ~ (0 > 0)
      OBVIOUS
    <3> QED BY <3>1, <3>2, Zenon
  <2> QED BY <1>2, <1>6, <2>1 DEF BufferInv
<1>10. TypeInv(p, 0, "ok", x.stream)
  BY <1>2, <1>6, <1>8 DEF TypeInv, Rets
<1>11. PlaceInv(p, 0, x.stream, o)
  BY <1>6, <1>9 DEF PlaceInv
<1> QED BY <1>6, <1>7, <1>10, <1>11 DEF StateInv, State

(* write_object_buffer keeps it, however much the procedure takes,         *)
LEMMA BufferWrittenIs ==
  ASSUME NEW x, NEW o, current' = o, StateInv(x, o), x.mpack.status = "write_buffer",
         NEW done \in Nat, NEW y, y = BufferWritten(x, done)
  PROVE  /\ StateInv(y, o) /\ y.given = x.given
         /\ y.ret = "ok" => y.mpack.status \in {"build_buffer", "write_binary"}
<1>1. PICK m \in Contexts : m = x.mpack /\ Within(m)
  BY DEF StateInv, TypeInv
<1>2. PICK s \in Seq(Entries) : s = x.stream /\ InTurn(s)
  BY DEF StateInv, TypeInv
<1>3. /\ BufferInv(m, x.given, s, o) /\ x.given = 0 /\ m.status = "write_buffer"
      /\ o \in AllObjects /\ m.buffer_data = Built[o] /\ m.buffer_offset < Len(Built[o])
      /\ x.ret \in Rets /\ x = State(m, 0, x.ret, s)
  BY <1>1, <1>2 DEF StateInv, TypeInv, PlaceInv, BufferInv
<1>4. Built[o] \in Bytes /\ Len(Built[o]) \in 1 .. 10 /\ o.size \in Nat
  BY <1>3, BuiltIs, ObjectIs
<1>5. m.buffer_offset \in Nat /\ m.binary_offset \in Nat /\ m.binary_amount \in Nat
  BY DEF Contexts
<1>6. PICK rest \in Nat \ {0} : rest = BufferRest(m) /\ rest = Len(Built[o]) - m.buffer_offset
  BY <1>3, <1>4, <1>5 DEF BufferRest
<1>7. CASE done > rest
  <2>1. PICK n : n = [m EXCEPT !.status = "fatal_error"]
    OBVIOUS
  <2>2. y = State(n, 0, "internal", s)
    <3>1. y = Broken(x)
      BY <1>1, <1>6, <1>7 DEF BufferWritten
    <3>2. x.given = 0 /\ x.stream = s
      BY <1>2, <1>3
    <3> QED BY <1>1, <2>1, <3>1, <3>2 DEF Broken
  <2>3. /\ n \in Contexts /\ n.status = "fatal_error" /\ Within(n)
    BY <1>1, <2>1 DEF Contexts, Within, Statuses
  <2>4. Older(s)
    <3>1. CASE m.buffer_offset = 0
      <4>1. AllEnded(s)
        BY <1>3, <3>1 DEF BufferInv
      <4>2. Len(s) \in Nat
        BY LenProperties
      <4> QED BY <4>1, <4>2 DEF AllEnded, Older
    <3>2. CASE m.buffer_offset > 0
      BY <1>3, <3>2 DEF BufferInv, LastIs
    <3> QED BY <1>5, <3>1, <3>2
  <2>5. TypeInv(n, 0, "internal", s) /\ PlaceInv(n, 0, s, o)
    BY <1>2, <2>3, <2>4 DEF TypeInv, PlaceInv, Rets
  <2> QED BY <1>3, <2>2, <2>5 DEF StateInv, State
<1>8. CASE ~ (done > rest)
  <2>1. PICK n : n = [m EXCEPT !.buffer_offset = @ + done]
    OBVIOUS
  <2>2. /\ n \in Contexts /\ n.status = "write_buffer" /\ n.buffer_data = Built[o]
        /\ n.buffer_offset = m.buffer_offset + done /\ n.buffer_offset <= Len(Built[o])
        /\ n.binary_offset = m.binary_offset /\ n.binary_amount = m.binary_amount
    BY <1>3, <1>4, <1>5, <1>6, <1>8, <2>1 DEF Contexts
  <2>3. Within(n)
    <3>1. Len(n.buffer_data) \in n.buffer_offset .. 10
      <4>1. PICK len \in 1 .. 10 : len = Len(Built[o])
        BY <1>4
      <4>2. n.buffer_offset \in Nat /\ n.buffer_offset <= len
        BY <2>2, <4>1 DEF Contexts
      <4>3. len \in n.buffer_offset .. 10
        BY <4>2
      <4> QED BY <2>2, <4>1, <4>3
    <3>2. n.binary_offset <= n.binary_amount
      BY <1>1, <1>5, <2>2 DEF Within
    <3> QED BY <3>1, <3>2 DEF Within
  <2>4. PICK t : t = PutHeader(s, m, SubSeq(m.buffer_data, m.buffer_offset + 1, n.buffer_offset))
    OBVIOUS
  <2>5. BufferRest(n) = rest - done /\ BufferRest(n) \in Nat
    BY <1>4, <1>5, <1>6, <1>8, <2>2 DEF BufferRest
  <2>6. y = IF rest - done = 0 THEN State(AfterBuffer(n), 0, "ok", t)
                               ELSE State(n, 0, "partial_complete", t)
    BY <1>1, <1>2, <1>3, <1>6, <1>8, <2>1, <2>4, <2>5 DEF BufferWritten
  <2>7. CASE done = 0
    <3>1. t = s
      <4>1. SubSeq(m.buffer_data, m.buffer_offset + 1, n.buffer_offset) = << >>
        BY <1>5, <2>2, <2>7, SubSeqEmpty
      <4> QED BY <2>4, <4>1 DEF PutHeader
    <3>2. y = State(n, 0, "partial_complete", s)
      BY <1>6, <2>6, <2>7, <3>1
    <3>3. n = m
      BY <1>5, <2>1, <2>2, <2>7 DEF Contexts
    <3>4. TypeInv(n, 0, "partial_complete", s) /\ PlaceInv(n, 0, s, o)
      BY <1>1, <1>2, <1>3, <3>3 DEF TypeInv, PlaceInv, Rets
    <3> QED BY <1>3, <3>2, <3>4 DEF StateInv, State
  <2>8. CASE done # 0
    <3>1. /\ t \in Seq(Entries) /\ InTurn(t)
          /\ LastIs(t, o, SubSeq(Built[o], 1, m.buffer_offset + done), << >>)
      <4>1. /\ done \in Nat \ {0} /\ m.buffer_offset + done <= Len(Built[o])
            /\ t = PutHeader(s, m, SubSeq(m.buffer_data, m.buffer_offset + 1, m.buffer_offset + done))
        BY <2>2, <2>4, <2>8
      <4> QED BY <1>2, <1>3, <4>1, PutHeaderIs
    <3>2. CASE rest - done = 0
      <4>1. m.buffer_offset + done = Len(Built[o])
        BY <1>4, <1>5, <1>6, <3>2
      <4>2. LastIs(t, o, Built[o], << >>)
        <5>1. SubSeq(Built[o], 1, Len(Built[o])) = Built[o]
          BY <1>4, SubSeqFull DEF Bytes
        <5> QED BY <3>1, <4>1, <5>1
      <4>3. PICK p : p = AfterBuffer(n)
        OBVIOUS
      <4>4. y = State(p, 0, "ok", t)
        BY <2>6, <3>2, <4>3
      <4>5. CASE n.binary_amount # n.binary_offset
        <5>1. BinaryRest(n) # 0
          BY <1>5, <2>2, <4>5 DEF BinaryRest
        <5>2. p = [n EXCEPT !.status = "write_binary"]
          BY <4>3, <5>1 DEF AfterBuffer
        <5>3. p \in Contexts /\ p.status = "write_binary" /\ Within(p)
          BY <2>2, <2>3, <5>2 DEF Contexts, Statuses, Within
        <5>4. HasBinary(o) /\ p.binary_offset = 0 /\ p.binary_amount = o.size /\ 0 < o.size
          BY <1>3, <1>4, <2>2, <4>5, <5>2 DEF BufferInv, Contexts
        <5>5. BinaryInv(p, 0, t, o)
          BY <1>3, <4>2, <5>4 DEF BinaryInv, DataUpTo
        <5>6. TypeInv(p, 0, "ok", t) /\ PlaceInv(p, 0, t, o)
          BY <3>1, <5>3, <5>5 DEF TypeInv, PlaceInv, Rets
        <5> QED BY <1>3, <4>4, <5>3, <5>6 DEF StateInv, State
      <4>6. CASE n.binary_amount = n.binary_offset
        <5>1. BinaryRest(n) = 0
          BY <1>5, <2>2, <4>6 DEF BinaryRest
        <5>2. p = [n EXCEPT !.status = "build_buffer"]
          BY <4>3, <5>1 DEF AfterBuffer
        <5>3. p \in Contexts /\ p.status = "build_buffer" /\ Within(p)
              /\ p.binary_offset = p.binary_amount
          BY <2>2, <2>3, <4>6, <5>2 DEF Contexts, Statuses, Within
        <5>4. DataOf(o) = << >>
          BY <1>3, <1>4, <2>2, <4>6 DEF BufferInv, DataOf
        <5>5. AllEnded(t)
          BY <3>1, <4>2, <5>4, LastEnds
        <5>6. TypeInv(p, 0, "ok", t) /\ PlaceInv(p, 0, t, o)
          BY <3>1, <5>3, <5>5 DEF TypeInv, PlaceInv, ReadyInv, Rets
        <5> QED BY <1>3, <4>4, <5>3, <5>6 DEF StateInv, State
      <4> QED BY <4>5, <4>6
    <3>3. CASE rest - done # 0
      <4>1. y = State(n, 0, "partial_complete", t)
        BY <2>6, <3>3
      <4>2. n.buffer_offset > 0 /\ n.buffer_offset # 0 /\ n.buffer_offset < Len(Built[o])
        BY <1>4, <1>5, <1>6, <1>8, <2>2, <2>8, <3>3
      <4>3. BufferInv(n, 0, t, o)
        BY <1>3, <2>2, <3>1, <4>2 DEF BufferInv
      <4>4. TypeInv(n, 0, "partial_complete", t) /\ PlaceInv(n, 0, t, o)
        BY <2>2, <2>3, <3>1, <4>3 DEF TypeInv, PlaceInv, Rets
      <4> QED BY <1>3, <4>1, <4>4 DEF StateInv, State
    <3> QED BY <3>2, <3>3
  <2> QED BY <2>7, <2>8
<1> QED BY <1>7, <1>8

(* and so does write_object_binary.                                        *)
LEMMA BinaryWrittenIs ==
  ASSUME NEW x, NEW o, StateInv(x, o), NEW size, NEW done \in Nat,
         NEW y, y = BinaryWritten(x, size, done)
  PROVE  StateInv(y, o)
<1>1. PICK m \in Contexts : m = x.mpack /\ Within(m)
  BY DEF StateInv, TypeInv
<1>2. PICK s \in Seq(Entries) : s = x.stream /\ InTurn(s)
  BY DEF StateInv, TypeInv
<1>3. PICK g \in Nat : g = x.given
  BY DEF StateInv, TypeInv
<1>4. PlaceInv(m, g, s, o)
  BY <1>1, <1>2, <1>3 DEF StateInv
<1>5. CASE m.status # "write_binary"
  <2>1. y = State(m, g, "invalid_operation", s)
    BY <1>1, <1>2, <1>3, <1>5 DEF BinaryWritten, Refused
  <2>2. TypeInv(m, g, "invalid_operation", s)
    BY <1>1, <1>2 DEF TypeInv, Rets
  <2> QED BY <1>4, <2>1, <2>2 DEF StateInv, State
<1>6. CASE m.status = "write_binary"
  <2>1. /\ o \in AllObjects /\ HasBinary(o)
        /\ m.binary_amount = o.size /\ m.binary_offset = g /\ g < o.size
        /\ LastIs(s, o, Built[o], DataUpTo(g))
    BY <1>4, <1>6 DEF PlaceInv, BinaryInv
  <2>2. o.size \in Nat
    BY <2>1, ObjectIs
  <2>3. PICK rest \in Nat \ {0} : rest = BinaryRest(m) /\ rest = o.size - g
    BY <2>1, <2>2 DEF BinaryRest
  <2>4. CASE done > rest
    <3>1. PICK n : n = [m EXCEPT !.status = "fatal_error"]
      OBVIOUS
    <3>2. y = State(n, g, "internal", s)
      BY <1>1, <1>2, <1>3, <1>6, <2>3, <2>4, <3>1 DEF BinaryWritten, Broken
    <3>3. n \in Contexts /\ n.status = "fatal_error" /\ Within(n)
      BY <1>1, <3>1 DEF Contexts, Within, Statuses
    <3>4. Older(s)
      BY <2>1 DEF LastIs
    <3>5. TypeInv(n, g, "internal", s) /\ PlaceInv(n, g, s, o)
      BY <1>2, <3>3, <3>4 DEF TypeInv, PlaceInv, Rets
    <3> QED BY <3>2, <3>5 DEF StateInv, State
  <2>5. CASE ~ (done > rest)
    <3>1. PICK n : n = [m EXCEPT !.binary_offset = @ + done]
      OBVIOUS
    <3>2. PICK h \in Nat : h = g + done /\ h <= o.size
      BY <2>2, <2>3, <2>5
    <3>3. /\ n \in Contexts /\ n.status = "write_binary" /\ n.buffer_data = m.buffer_data
          /\ n.buffer_offset = m.buffer_offset
          /\ n.binary_offset = h /\ n.binary_amount = o.size
      BY <1>6, <2>1, <3>1, <3>2 DEF Contexts
    <3>4. PICK t : t = PutData(s, g + 1, g + done)
      OBVIOUS
    <3>5. /\ t \in Seq(Entries) /\ InTurn(t)
          /\ LastIs(t, o, Built[o], DataUpTo(h))
      BY <1>2, <2>1, <3>2, <3>4, PutDataIs
    <3>6. Within(n)
      BY <1>1, <3>2, <3>3 DEF Within
    <3>7. CASE done = rest
      <4>1. PICK p : p = [n EXCEPT !.status = "build_buffer"]
        OBVIOUS
      <4>2. y = State(p, h, "ok", t)
        BY <1>1, <1>2, <1>3, <1>6, <2>3, <2>5, <3>1, <3>2, <3>4, <3>7, <4>1
        DEF BinaryWritten, Written
      <4>3. /\ p \in Contexts /\ p.status = "build_buffer" /\ Within(p)
            /\ p.binary_offset = h /\ p.binary_amount = o.size
        BY <3>3, <3>6, <4>1 DEF Contexts, Within, Statuses
      <4>4. h = o.size /\ h > 0 /\ h # 0
        BY <2>1, <2>2, <2>3, <3>2, <3>7
      <4>5. DataUpTo(h) = DataOf(o)
        BY <2>1, <4>4 DEF DataOf, DataUpTo
      <4>6. AllEnded(t)
        BY <3>5, <4>5, LastEnds
      <4>7. TypeInv(p, h, "ok", t) /\ PlaceInv(p, h, t, o)
        BY <3>5, <4>3, <4>4, <4>6 DEF TypeInv, PlaceInv, ReadyInv, Rets
      <4> QED BY <4>2, <4>7 DEF StateInv, State
    <3>8. CASE done # rest
      <4>1. y = State(n, h, "partial_complete", t)
        BY <1>1, <1>2, <1>3, <1>6, <2>3, <2>5, <3>1, <3>2, <3>4, <3>8
        DEF BinaryWritten, Written
      <4>2. h < o.size
        BY <2>2, <2>3, <2>5, <3>2, <3>8
      <4>3. BinaryInv(n, h, t, o)
        BY <2>1, <3>3, <3>5, <4>2 DEF BinaryInv
      <4>4. TypeInv(n, h, "partial_complete", t) /\ PlaceInv(n, h, t, o)
        BY <3>3, <3>5, <3>6, <4>3 DEF TypeInv, PlaceInv, Rets
      <4> QED BY <4>1, <4>4 DEF StateInv, State
    <3> QED BY <3>7, <3>8
  <2> QED BY <2>4, <2>5
<1> QED BY <1>5, <1>6

---------------------------------------------------------------------------
(* The calls.                                                              *)

\* What a procedure takes is a number, of whatever it is asked for.
LEMMA TakenIs ==
  ASSUME NEW n \in Nat, NEW rest \in Nat
  PROVE  Taken(n, rest) \subseteq Nat
BY DEF Taken

(* What is asked of the procedure is a number of bytes.                    *)
LEMMA AskedIs ==
  ASSUME NEW m \in Contexts, Within(m), NEW size \in Nat
  PROVE  Asked(m, size) \in Nat /\ BinaryRest(m) \in Nat
<1>1. BinaryRest(m) \in Nat
  BY DEF Within, Contexts, BinaryRest
<1> QED BY <1>1 DEF Asked

(* The invariant of the state a call leaves is that of the system.         *)
LEMMA BecomesIs ==
  ASSUME NEW x, NEW o, StateInv(x, o), Becomes(x), current' = o,
         o \in AllObjects \cup {None}
  PROVE  WriteInv'
BY DEF Becomes, StateInv, WriteInv

(* A call that goes on from the header to the data keeps it.               *)
LEMMA ThenBinaryIs ==
  ASSUME NEW x, NEW o, StateInv(x, o), NEW size \in Nat, ThenBinary(x, size),
         current' = o, o \in AllObjects \cup {None}
  PROVE  WriteInv'
<1>1. x.mpack \in Contexts /\ Within(x.mpack)
  BY DEF StateInv, TypeInv
<1>2. PICK done \in Taken(Asked(x.mpack, size), BinaryRest(x.mpack)) :
         Becomes(BinaryWritten(x, size, done))
  BY DEF ThenBinary
<1>3. done \in Nat
  BY <1>1, AskedIs, TakenIs
<1>4. PICK y : y = BinaryWritten(x, size, done)
  OBVIOUS
<1>5. StateInv(y, o)
  BY <1>3, <1>4, BinaryWrittenIs
<1> QED BY <1>2, <1>4, <1>5, BecomesIs

(* The state a call begins with has the invariant.                         *)
LEMMA NowIs ==
  ASSUME WriteInv
  PROVE  StateInv(Now, current)
BY DEF WriteInv, StateInv, Now, State

(* What is left of the buffer is a number of bytes.                        *)
LEMMA RestIs ==
  ASSUME NEW x, NEW o, StateInv(x, o)
  PROVE  BufferRest(x.mpack) \in Nat
<1>1. PICK m \in Contexts : m = x.mpack /\ Within(m)
  BY DEF StateInv, TypeInv
<1>2. PICK len \in m.buffer_offset .. 10 : len = Len(m.buffer_data)
  BY <1>1 DEF Within
<1>3. len - m.buffer_offset \in Nat
  BY DEF Contexts
<1> QED BY <1>1, <1>2, <1>3 DEF BufferRest

\* What every procedure that builds starts with.
LEMMA MayBeginIs ==
  ASSUME WriteInv, NEW o, MayBegin(o)
  PROVE  /\ o \in AllObjects
         /\ StateInv(Begun(Now, o), o) /\ Begun(Now, o).mpack.status = "write_buffer"
<1>1. o \in AllObjects /\ IsNext(o, stream)
  <2>1. Len(stream) \in Nat
    BY LenProperties DEF WriteInv, TypeInv
  <2> QED BY <2>1, NextIs DEF MayBegin
<1>2. StateInv(Now, current) /\ Now.mpack.status = "build_buffer" /\ Now.stream = stream
  BY NowIs DEF MayBegin, Now, State
<1> QED BY <1>1, <1>2, BegunIs

(* Each call keeps the invariant: build_*,                                 *)
LEMMA BuildStep ==
  ASSUME WriteInv, NEW o, Build(o)
  PROVE  WriteInv'
<1>1. MayBegin(o) /\ current' = o /\ Becomes(Begun(Now, o))
  BY DEF Build
<1> QED BY <1>1, MayBeginIs, BecomesIs

(* write_* of an object without data,                                      *)
LEMMA WriteWholeStep ==
  ASSUME WriteInv, NEW o, WriteWhole(o)
  PROVE  WriteInv'
<1>1. MayBegin(o) /\ current' = o
  BY DEF WriteWhole
<1>2. PICK x : x = Begun(Now, o)
  OBVIOUS
<1>3. o \in AllObjects /\ StateInv(x, o) /\ x.mpack.status = "write_buffer"
  BY <1>1, <1>2, MayBeginIs
<1>4. PICK done \in Taken(BufferRest(x.mpack), BufferRest(x.mpack)) :
         Becomes(BufferWritten(x, done))
  BY <1>2 DEF WriteWhole
<1>5. done \in Nat
  BY <1>3, RestIs, TakenIs
<1>6. PICK y : y = BufferWritten(x, done)
  OBVIOUS
<1>7. StateInv(y, o)
  BY <1>1, <1>3, <1>5, <1>6, BufferWrittenIs
<1> QED BY <1>1, <1>3, <1>4, <1>6, <1>7, BecomesIs

(* write_str, write_bin and write_ext,                                     *)
LEMMA WritePartsStep ==
  ASSUME WriteInv, NEW o, WriteParts(o)
  PROVE  WriteInv'
<1>1. MayBegin(o) /\ current' = o
  BY DEF WriteParts
<1>2. PICK x : x = Begun(Now, o)
  OBVIOUS
<1>3. /\ o \in AllObjects /\ o.size \in Nat
      /\ StateInv(x, o) /\ x.mpack.status = "write_buffer"
  BY <1>1, <1>2, MayBeginIs, ObjectIs
<1>4. PICK done \in Taken(BufferRest(x.mpack), BufferRest(x.mpack)) :
         IF BufferWritten(x, done).ret = "ok" THEN ThenBinary(BufferWritten(x, done), o.size)
                                              ELSE Becomes(BufferWritten(x, done))
  BY <1>2 DEF WriteParts
<1>5. done \in Nat
  BY <1>3, RestIs, TakenIs
<1>6. PICK y : y = BufferWritten(x, done)
  OBVIOUS
<1>7. StateInv(y, o)
  BY <1>1, <1>3, <1>5, <1>6, BufferWrittenIs
<1>8. ThenBinary(y, o.size) \/ Becomes(y)
  BY <1>4, <1>6
<1> QED BY <1>1, <1>3, <1>7, <1>8, ThenBinaryIs, BecomesIs

(* write_object,                                                           *)
LEMMA WriteObjectStep ==
  ASSUME WriteInv, NEW size \in Offers, WriteObject(size)
  PROVE  WriteInv'
<1>1. /\ current' = current /\ current \in AllObjects \cup {None}
      /\ StateInv(Now, current)
      /\ Now.mpack = mpack /\ Now.given = given /\ mpack.status \in Statuses
  BY NowIs DEF WriteObject, Now, State, WriteInv, TypeInv, Contexts
<1>2. CASE mpack.status = "write_buffer"
  <2>1. PICK done \in Taken(BufferRest(mpack), BufferRest(mpack)) :
           IF /\ BufferWritten(Now, done).ret = "ok"
              /\ BufferWritten(Now, done).mpack.status = "write_binary"
           THEN ThenBinary(BufferWritten(Now, done), size)
           ELSE Becomes(BufferWritten(Now, done))
    BY <1>2 DEF WriteObject
  <2>2. BufferInv(mpack, given, stream, current)
    BY <1>2 DEF WriteInv, PlaceInv
  <2>3. size \in Nat
    <3>1. current.size \in Nat /\ given = 0
      BY <2>2, ObjectIs DEF BufferInv
    <3> QED BY <3>1 DEF Offers
  <2>4. done \in Nat
    BY <1>1, RestIs, TakenIs
  <2>5. PICK y : y = BufferWritten(Now, done)
    OBVIOUS
  <2>6. StateInv(y, current)
    BY <1>1, <1>2, <2>4, <2>5, BufferWrittenIs
  <2>7. ThenBinary(y, size) \/ Becomes(y)
    BY <2>1, <2>5
  <2> QED BY <1>1, <2>3, <2>6, <2>7, ThenBinaryIs, BecomesIs
<1>3. CASE mpack.status = "write_binary"
  <2>1. ThenBinary(Now, size)
    BY <1>3 DEF WriteObject
  <2>2. current.size \in Nat /\ given \in Nat /\ given < current.size
    BY <1>3, ObjectIs DEF WriteInv, PlaceInv, TypeInv, BinaryInv
  <2>3. size \in Nat
    BY <2>2 DEF Offers
  <2> QED BY <1>1, <2>1, <2>3, ThenBinaryIs
<1>4. CASE mpack.status \notin {"write_buffer", "write_binary"}
  <2>1. ret' = "invalid_operation" /\ UNCHANGED <<mpack, given, stream>>
    BY <1>4 DEF WriteObject
  <2> QED BY <1>1, <2>1 DEF WriteInv, TypeInv, Rets
<1> QED BY <1>1, <1>2, <1>3, <1>4

(* and one that is refused.                                                *)
LEMMA RefuseStep ==
  ASSUME WriteInv, Refuse
  PROVE  WriteInv'
BY DEF Refuse, WriteInv, TypeInv, Rets

\* A reset is refused once a part of the header or of the data is written.
LEMMA ResetStep ==
  ASSUME WriteInv, Reset
  PROVE  WriteInv'
<1>1. /\ current' = current /\ given' = given /\ stream' = stream
      /\ mpack \in Contexts /\ stream \in Seq(Entries)
  BY DEF Reset, WriteInv, TypeInv
<1>2. CASE mpack.status # "fatal_error" /\ ResetAllowed(mpack)
  <2>1. mpack' = Context /\ ret' = "ok"
    BY <1>2 DEF Reset
  <2>2. AllEnded(stream)
    <3>1. CASE mpack.status = "build_buffer"
      BY <3>1 DEF WriteInv, PlaceInv, ReadyInv
    <3>2. CASE mpack.status = "write_buffer"
      <4>1. BufferInv(mpack, given, stream, current)
        BY <3>2 DEF WriteInv, PlaceInv
      <4>2. mpack.buffer_offset = 0
        <5>1. mpack.buffer_offset < Len(mpack.buffer_data) /\ mpack.buffer_offset \in Nat
          BY <1>1, <4>1 DEF BufferInv, Contexts
        <5>2. mpack.buffer_offset # Len(mpack.buffer_data)
          BY <5>1
        <5> QED BY <1>2, <5>2 DEF ResetAllowed
      <4> QED BY <4>1, <4>2 DEF BufferInv
    <3>3. CASE mpack.status = "write_binary"
      <4>1. BinaryInv(mpack, given, stream, current)
        BY <3>3 DEF WriteInv, PlaceInv
      <4>2. /\ current \in AllObjects /\ current.size \in Nat /\ HasBinary(current)
            /\ mpack.binary_amount = current.size /\ mpack.binary_offset = given
            /\ given < current.size /\ given \in Nat
        BY <4>1, ObjectIs DEF BinaryInv, WriteInv, TypeInv
      <4>3. given = 0 /\ current.size > 0
        BY <1>2, <4>2 DEF ResetAllowed
      <4>4. LastIs(stream, current, Built[current], << >>)
        BY <4>1, <4>3 DEF BinaryInv, DataUpTo
      <4>5. DataOf(current) # << >>
        BY <4>2, <4>3 DEF DataOf
      <4> QED BY <1>1, <4>4, <4>5, LastEnds
    <3> QED BY <1>1, <1>2, <3>1, <3>2, <3>3 DEF Contexts, Statuses
  <2>3. Context \in Contexts /\ Within(Context) /\ ReadyInv(Context, stream)
    <3>1. << >> \in Bytes /\ Len(<< >>) = 0
      BY EmptySeq DEF Bytes
    <3> QED BY <2>2, <3>1 DEF Context, Contexts, Statuses, Within, ReadyInv
  <2>4. Context.status = "build_buffer"
    BY DEF Context
  <2> QED BY <1>1, <2>1, <2>3, <2>4 DEF WriteInv, TypeInv, PlaceInv, Rets
<1>3. CASE ~ (mpack.status # "fatal_error" /\ ResetAllowed(mpack))
  <2>1. mpack' = mpack /\ ret' = "invalid_operation"
    BY <1>3 DEF Reset
  <2> QED BY <1>1, <2>1 DEF WriteInv, TypeInv, Rets
<1> QED BY <1>2, <1>3

(* The invariant holds at the beginning,                                   *)
LEMMA WriteInvInit ==
  ASSUME Init
  PROVE  WriteInv
<1>1. << >> \in Bytes /\ Len(<< >>) = 0 /\ << >> \in Seq(Entries)
  BY EmptySeq DEF Bytes
<1>2. Context \in Contexts /\ Within(Context) /\ Context.status = "build_buffer"
  BY <1>1 DEF Context, Contexts, Statuses, Within
<1>3. InTurn(<< >>) /\ ReadyInv(Context, << >>)
  BY <1>1 DEF InTurn, ReadyInv, AllEnded, Context
<1> QED BY <1>1, <1>2, <1>3 DEF Init, WriteInv, TypeInv, PlaceInv, Rets

(* is kept by every step,                                                  *)
LEMMA WriteInvNext ==
  ASSUME WriteInv, [Next]_vars
  PROVE  WriteInv'
<1>1. CASE UNCHANGED vars
  BY <1>1 DEF vars, WriteInv
<1>2. ASSUME NEW o \in AllObjects, Build(o) \/ WriteWhole(o) \/ WriteParts(o)
      PROVE  WriteInv'
  BY <1>2, BuildStep, WriteWholeStep, WritePartsStep
<1>3. ASSUME NEW size \in Offers, WriteObject(size)
      PROVE  WriteInv'
  BY <1>3, WriteObjectStep
<1> QED BY <1>1, <1>2, <1>3, RefuseStep, ResetStep DEF Next

(* and holds in every reachable state.                                     *)
LEMMA WriteInvAlways == Spec => []WriteInv
<1>1. Init => WriteInv
  BY WriteInvInit
<1>2. WriteInv /\ [Next]_vars => WriteInv'
  BY WriteInvNext
<1> QED BY <1>1, <1>2, PTL DEF Spec

---------------------------------------------------------------------------
(* The theorems.                                                           *)

(* It types the variables.                                                 *)
LEMMA WriteTyped ==
  ASSUME WriteInv
  PROVE  WriteTypeOK
<1>1. /\ mpack \in Contexts /\ Within(mpack) /\ given \in Nat /\ ret \in Rets
      /\ stream \in Seq(Entries) /\ InTurn(stream) /\ current \in AllObjects \cup {None}
  BY DEF WriteInv, TypeInv
<1>2. PICK len \in mpack.buffer_offset .. 10 : len = Len(mpack.buffer_data)
  BY <1>1 DEF Within
<1>3. mpack.buffer_offset \in 0 .. len /\ len <= 10
  BY <1>1 DEF Contexts
<1>4. mpack.binary_offset \in 0 .. mpack.binary_amount
  BY <1>1 DEF Contexts, Within
<1>5. mpack.status \in Statuses
  BY <1>1 DEF Contexts
<1>6. DOMAIN stream = 1 .. Len(stream)
  BY <1>1
<1>7. \A k \in DOMAIN stream : stream[k].of \in Objects[k]
  BY <1>1, <1>6 DEF InTurn
<1> QED BY <1>1, <1>2, <1>3, <1>4, <1>5, <1>7 DEF WriteTypeOK, Statuses, Rets

(* The writer's state is one of those its comments name, its offsets never *)
(* pass the ends of the buffer and of the data, and the k-th entry of the  *)
(* stream is of an object that was to be the k-th.                         *)
THEOREM TypeCorrect == Spec => []WriteTypeOK
<1>1. WriteInv => WriteTypeOK
  BY WriteTyped
<1> QED BY <1>1, WriteInvAlways, PTL

(* Whatever is written in parts, repeated or reset, the stream is one of   *)
(* whole objects: the invariant says where in an object the writer is, and *)
(* that exactly this much of it is in the last entry of the stream.        *)
THEOREM StreamIsWhole == Spec => []StreamWhole
<1>1. WriteInv => StreamWhole
  <2> SUFFICES ASSUME WriteInv PROVE StreamWhole
    OBVIOUS
  <2>1. mpack \in Contexts /\ stream \in Seq(Entries)
    BY DEF WriteInv, TypeInv
  <2>2. DOMAIN stream = 1 .. Len(stream) /\ Len(stream) \in Nat
    BY <2>1
  <2>3. mpack.status = "build_buffer" => AllEnded(stream)
    BY DEF WriteInv, PlaceInv, ReadyInv
  <2>4. AllEnded(stream) => Older(stream)
    BY <2>2 DEF AllEnded, Older
  <2>5. Older(stream)
    <3>1. CASE mpack.status = "build_buffer"
      BY <2>3, <2>4, <3>1
    <3>2. CASE mpack.status = "write_buffer"
      <4>1. BufferInv(mpack, given, stream, current) /\ mpack.buffer_offset \in Nat
        BY <2>1, <3>2 DEF WriteInv, PlaceInv, Contexts
      <4>2. mpack.buffer_offset = 0 \/ mpack.buffer_offset > 0
        BY <4>1
      <4> QED BY <2>4, <4>1, <4>2 DEF BufferInv, LastIs
    <3>3. CASE mpack.status = "write_binary"
      BY <3>3 DEF WriteInv, PlaceInv, BinaryInv, LastIs
    <3>4. CASE mpack.status = "fatal_error"
      BY <3>4 DEF WriteInv, PlaceInv
    <3> QED BY <2>1, <3>1, <3>2, <3>3, <3>4 DEF Contexts, Statuses
  <2> QED BY <2>2, <2>3, <2>5 DEF StreamWhole, AllEnded, Older, Ended
<1> QED BY <1>1, WriteInvAlways, PTL

(* A caller that adds up what the calls report knows how far the writer is *)
(* in the data, and goes on with the right byte.                           *)
THEOREM WrittenIsTold == Spec => []WrittenAgrees
<1>1. WriteInv => WrittenAgrees
  BY DEF WriteInv, PlaceInv, BinaryInv, WrittenAgrees
<1> QED BY <1>1, WriteInvAlways, PTL

---------------------------------------------------------------------------
(* What a header means: the numbers its bytes stand for, the row of the    *)
(* table its first byte is in, and then format by format.                  *)

\* A header is its first byte and the others.
LEMMA FirstRest ==
  ASSUME NEW b \in 0 .. 255, NEW r \in Bytes
  PROVE  /\ (<<b>> \o r)[1] = b /\ Tail(<<b>> \o r) = r
<1>1. <<b>> \in Bytes /\ Len(<<b>>) = 1
  BY DEF Bytes
<1>2. /\ <<b>> \o r \in Bytes /\ Len(<<b>> \o r) = 1 + Len(r)
      /\ \A i \in 1 .. 1 + Len(r) : (<<b>> \o r)[i] = IF i <= 1 THEN <<b>>[i] ELSE r[i - 1]
  BY <1>1, ConcatProperties DEF Bytes
<1>3. Len(r) \in Nat
  BY LenProperties DEF Bytes
<1>4. PICK h \in Bytes : h = <<b>> \o r
  BY <1>2
<1>5. /\ h # << >> /\ Tail(h) \in Bytes /\ Len(Tail(h)) = Len(r)
      /\ \A i \in 1 .. Len(r) : Tail(h)[i] = h[i + 1]
  <2>1. h # << >>
    BY <1>2, <1>3, <1>4
  <2> QED BY <1>2, <1>3, <1>4, <2>1, HeadTailProperties DEF Bytes
<1>6. \A i \in 1 .. Len(r) : Tail(h)[i] = r[i]
  BY <1>2, <1>3, <1>4, <1>5
<1>7. Tail(h) = r
  BY <1>5, <1>6, SeqEqual DEF Bytes
<1> QED BY <1>2, <1>3, <1>4, <1>7

\* The number some bytes stand for, the highest first.
LEMMA NatOfIs ==
  ASSUME NEW b \in Bytes, Len(b) \in 1 .. 4
  PROVE  \E f : /\ NatOf(b) = f[Len(b)]
                /\ f = [i \in 0 .. Len(b) |-> IF i = 0 THEN 0 ELSE f[i - 1] * 256 + b[i]]
<1>1. PICK n \in 1 .. 4 : n = Len(b)
  OBVIOUS
<1>2. PICK g : g = [i \in 0 .. n |-> CASE i = 0 -> 0
                                       [] i = 1 -> b[1]
                                       [] i = 2 -> b[1] * 256 + b[2]
                                       [] i = 3 -> (b[1] * 256 + b[2]) * 256 + b[3]
                                       [] i = 4 -> ((b[1] * 256 + b[2]) * 256 + b[3]) * 256 + b[4]]
  OBVIOUS
<1>3. \A i \in 1 .. n : b[i] \in Int
  <2>1. \A i \in 1 .. n : b[i] \in 0 .. 255
    BY <1>1, ElementOfSeq DEF Bytes
  <2> QED BY <2>1
<1>4. \A i \in 0 .. n : g[i] = IF i = 0 THEN 0 ELSE g[i - 1] * 256 + b[i]
  <2> SUFFICES ASSUME NEW i \in 0 .. n PROVE g[i] = IF i = 0 THEN 0 ELSE g[i - 1] * 256 + b[i]
    OBVIOUS
  <2>1. CASE i = 0 BY <1>2, <2>1
  <2>2. CASE i = 1
    <3>1. g[0] = 0 /\ g[1] = b[1] /\ b[1] \in Int BY <1>2, <1>3, <2>2
    <3> QED BY <2>2, <3>1
  <2>3. CASE i = 2
    <3>1. g[1] = b[1] /\ g[2] = b[1] * 256 + b[2] BY <1>2, <2>3
    <3> QED BY <2>3, <3>1
  <2>4. CASE i = 3
    <3>1. g[2] = b[1] * 256 + b[2] /\ g[3] = (b[1] * 256 + b[2]) * 256 + b[3] BY <1>2, <2>4
    <3> QED BY <2>4, <3>1
  <2>5. CASE i = 4
    <3>1. /\ g[3] = (b[1] * 256 + b[2]) * 256 + b[3]
          /\ g[4] = ((b[1] * 256 + b[2]) * 256 + b[3]) * 256 + b[4] BY <1>2, <2>5
    <3> QED BY <2>5, <3>1
  <2> QED BY <2>1, <2>2, <2>3, <2>4, <2>5
<1>5. g = [i \in 0 .. n |-> IF i = 0 THEN 0 ELSE g[i - 1] * 256 + b[i]]
  BY <1>2, <1>4
<1>. DEFINE Sums(h) == h = [i \in 0 .. Len(b) |-> IF i = 0 THEN 0 ELSE h[i - 1] * 256 + b[i]]
<1>6. Sums(g)
  BY <1>1, <1>5
<1>7. PICK f : f = CHOOSE h : Sums(h)
  OBVIOUS
<1>8. NatOf(b) = f[Len(b)]
  BY <1>7 DEF NatOf
<1>9. Sums(f)
  <2>. HIDE DEF Sums
  <2> QED BY <1>6, <1>7, Zenon
<1> QED BY <1>8, <1>9

(* The number that one byte is.                                            *)
LEMMA Sum1 ==
  ASSUME NEW b \in Bytes, Len(b) = 1
  PROVE  NatOf(b) = b[1]
<1>1. PICK f : /\ NatOf(b) = f[Len(b)]
               /\ f = [i \in 0 .. Len(b) |-> IF i = 0 THEN 0 ELSE f[i - 1] * 256 + b[i]]
  <2>1. Len(b) \in 1 .. 4
    OBVIOUS
  <2> QED BY <2>1, NatOfIs
<1>2. NatOf(b) = f[1] /\ f = [i \in 0 .. 1 |-> IF i = 0 THEN 0 ELSE f[i - 1] * 256 + b[i]]
  BY <1>1
<1>3. b[1] \in 0 .. 255
  <2>1. 1 \in 1 .. Len(b)
    OBVIOUS
  <2> QED BY <2>1, ElementOfSeq DEF Bytes
<1>4. f[0] = 0 /\ f[1] = f[0] * 256 + b[1]
  BY <1>2
<1>5. f[1] = b[1]
  BY <1>3, <1>4
<1> QED BY <1>2, <1>5

(* The number that two bytes are.                                          *)
LEMMA Sum2 ==
  ASSUME NEW b \in Bytes, Len(b) = 2
  PROVE  NatOf(b) = b[1] * 256 + b[2]
<1>1. PICK f : /\ NatOf(b) = f[Len(b)]
               /\ f = [i \in 0 .. Len(b) |-> IF i = 0 THEN 0 ELSE f[i - 1] * 256 + b[i]]
  <2>1. Len(b) \in 1 .. 4
    OBVIOUS
  <2> QED BY <2>1, NatOfIs
<1>2. NatOf(b) = f[2] /\ f = [i \in 0 .. 2 |-> IF i = 0 THEN 0 ELSE f[i - 1] * 256 + b[i]]
  BY <1>1
<1>3. b[1] \in 0 .. 255
  <2>1. 1 \in 1 .. Len(b)
    OBVIOUS
  <2> QED BY <2>1, ElementOfSeq DEF Bytes
<1>4. f[0] = 0 /\ f[1] = f[0] * 256 + b[1]
  BY <1>2
<1>5. f[1] = b[1]
  BY <1>3, <1>4
<1>6. f[2] = f[1] * 256 + b[2]
  BY <1>2
<1> QED BY <1>2, <1>5, <1>6

(* The number that four bytes are.                                         *)
LEMMA Sum4 ==
  ASSUME NEW b \in Bytes, Len(b) = 4
  PROVE  NatOf(b) = ((b[1] * 256 + b[2]) * 256 + b[3]) * 256 + b[4]
<1>1. PICK f : /\ NatOf(b) = f[Len(b)]
               /\ f = [i \in 0 .. Len(b) |-> IF i = 0 THEN 0 ELSE f[i - 1] * 256 + b[i]]
  <2>1. Len(b) \in 1 .. 4
    OBVIOUS
  <2> QED BY <2>1, NatOfIs
<1>2. NatOf(b) = f[4] /\ f = [i \in 0 .. 4 |-> IF i = 0 THEN 0 ELSE f[i - 1] * 256 + b[i]]
  BY <1>1
<1>3. b[1] \in 0 .. 255
  <2>1. 1 \in 1 .. Len(b)
    OBVIOUS
  <2> QED BY <2>1, ElementOfSeq DEF Bytes
<1>4. f[0] = 0 /\ f[1] = f[0] * 256 + b[1]
  BY <1>2
<1>5. f[1] = b[1]
  BY <1>3, <1>4
<1>6. f[2] = f[1] * 256 + b[2]
  BY <1>2
<1>7. f[3] = f[2] * 256 + b[3]
  BY <1>2
<1>8. f[4] = f[3] * 256 + b[4]
  BY <1>2
<1> QED BY <1>2, <1>5, <1>6, <1>7, <1>8

(* A number below 2^16 is its two bytes.                                   *)
LEMMA Two ==
  ASSUME NEW n \in Nat, n <= 65535
  PROVE  ((n \div 256) % 256) * 256 + (n % 256) = n
OBVIOUS

(* A number below 2^32 is its four bytes.                                  *)
LEMMA Four ==
  ASSUME NEW n \in Nat, n \div 65536 <= 65535
  PROVE  ((((n \div 16777216) % 256) * 256 + ((n \div 65536) % 256)) * 256
            + ((n \div 256) % 256)) * 256 + (n % 256) = n
<1>1. PICK a \in Nat : a = n \div 256
  OBVIOUS
<1>2. PICK b \in Nat : b = n \div 65536 /\ b = a \div 256
  BY <1>1
<1>3. PICK c \in Nat : c = n \div 16777216 /\ c = b \div 256
  BY <1>2
<1>4. c % 256 = c
  BY <1>2, <1>3
<1>5. c * 256 + (b % 256) = b
  BY <1>3
<1>6. b * 256 + (a % 256) = a
  BY <1>2
<1>7. a * 256 + (n % 256) = n
  BY <1>1
<1> QED BY <1>1, <1>2, <1>3, <1>4, <1>5, <1>6, <1>7

\* The widths of a size and what fits them.
SizeFits(n, k) ==
  \/ k = 1 /\ n <= 255
  \/ k = 2 /\ n <= 65535
  \/ k = 4 /\ n \div 65536 <= 65535

(* The bytes of a size are read as that size.                              *)
LEMMA NatOfBytes ==
  ASSUME NEW n \in Nat, NEW k, SizeFits(n, k)
  PROVE  NatOf(BytesOf(n, k)) = n
<1>1. k \in {1, 2, 4}
  BY DEF SizeFits
<1>2. PICK b \in Bytes : b = BytesOf(n, k) /\ Len(b) = k
  BY <1>1, BytesOfIs
<1>3. \A i \in 1 .. k : b[i] = (n \div 256 ^ (k - i)) % 256
  BY <1>2 DEF BytesOf
<1>4. 256 ^ 0 = 1 /\ 256 ^ 1 = 256 /\ 256 ^ 2 = 65536 /\ 256 ^ 3 = 16777216
  <2>1. 256 ^ 0 = 1 OBVIOUS
  <2>2. 256 ^ 1 = 256 OBVIOUS
  <2>3. 256 ^ 2 = 65536 OBVIOUS
  <2>4. 256 ^ 3 = 16777216 OBVIOUS
  <2> QED BY <2>1, <2>2, <2>3, <2>4
<1>5. CASE k = 1 /\ n <= 255
  <2>1. b[1] = (n \div 256 ^ 0) % 256
    BY <1>3, <1>5
  <2>2. b[1] = n
    BY <1>4, <1>5, <2>1
  <2>3. NatOf(b) = b[1]
    BY <1>2, <1>5, Sum1
  <2> QED BY <1>2, <2>2, <2>3
<1>6. CASE k = 2 /\ n <= 65535
  <2>1. PICK x, y : x = (n \div 256) % 256 /\ y = n % 256
    OBVIOUS
  <2>2. x \in 0 .. 255 /\ y \in 0 .. 255 /\ x * 256 + y = n
    BY <1>6, <2>1, Two
  <2>3. b[1] = (n \div 256 ^ 1) % 256 /\ b[2] = (n \div 256 ^ 0) % 256
    BY <1>3, <1>6
  <2>4. b[1] = x /\ b[2] = y
    BY <1>4, <2>1, <2>3
  <2>5. NatOf(b) = b[1] * 256 + b[2]
    BY <1>2, <1>6, Sum2
  <2> QED BY <1>2, <2>2, <2>4, <2>5
<1>7. CASE k = 4 /\ n \div 65536 <= 65535
  <2>1. PICK w, x, y, z : /\ w = (n \div 16777216) % 256 /\ x = (n \div 65536) % 256
                         /\ y = (n \div 256) % 256 /\ z = n % 256
    OBVIOUS
  <2>2. w \in 0 .. 255 /\ x \in 0 .. 255 /\ y \in 0 .. 255 /\ z \in 0 .. 255
    BY <2>1
  <2>3. ((w * 256 + x) * 256 + y) * 256 + z = n
    BY <1>7, <2>1, Four
  <2>4. /\ b[1] = (n \div 256 ^ 3) % 256 /\ b[2] = (n \div 256 ^ 2) % 256
        /\ b[3] = (n \div 256 ^ 1) % 256 /\ b[4] = (n \div 256 ^ 0) % 256
    BY <1>3, <1>7
  <2>5. b[1] = w /\ b[2] = x /\ b[3] = y /\ b[4] = z
    BY <1>4, <2>1, <2>4
  <2>6. NatOf(b) = ((b[1] * 256 + b[2]) * 256 + b[3]) * 256 + b[4]
    BY <1>2, <1>7, Sum4
  <2> QED BY <1>2, <2>2, <2>3, <2>5, <2>6
<1> QED BY <1>5, <1>6, <1>7 DEF SizeFits

(* The powers of two that the formats count with.                          *)
LEMMA PowersOf2 ==
  /\ 2 ^ 0 = 1 /\ 2 ^ 1 = 2 /\ 2 ^ 2 = 4 /\ 2 ^ 3 = 8 /\ 2 ^ 4 = 16
<1>1. 2 ^ 0 = 1 OBVIOUS
<1>2. 2 ^ 1 = 2 OBVIOUS
<1>3. 2 ^ 2 = 4 OBVIOUS
<1>4. 2 ^ 3 = 8 OBVIOUS
<1>5. 2 ^ 4 = 16 OBVIOUS
<1> QED BY <1>1, <1>2, <1>3, <1>4, <1>5

\* How many bytes follow a first byte that says so itself.
LEMMA FollowingIs ==
  ASSUME NEW b \in 0 .. 255
  PROVE  /\ b <= 195 \/ b >= 224 => Following(b) = 0
         /\ b = 202 => Following(b) = 4
         /\ b = 203 => Following(b) = 8
BY DEF Following

\* The table of formats, row by row.
LEMMA MeaningOfIs ==
  ASSUME NEW b \in 0 .. 255, NEW r
  PROVE  /\ b <= 127 => MeaningOf(b, r) = Number(0, <<b>>)
         /\ b \in 128 .. 143 => MeaningOf(b, r) = Sized("map", b - 128)
         /\ b \in 144 .. 159 => MeaningOf(b, r) = Sized("array", b - 144)
         /\ b \in 160 .. 191 => MeaningOf(b, r) = Sized("str", b - 160)
         /\ b = 192 => MeaningOf(b, r) = Sized("nil", 0)
         /\ b = 194 => MeaningOf(b, r) = Sized("false", 0)
         /\ b = 195 => MeaningOf(b, r) = Sized("true", 0)
         /\ b \in 196 .. 198 => MeaningOf(b, r) = Sized("bin", NatOf(r))
         /\ b \in 199 .. 201 => MeaningOf(b, r) = SizeAndType(r)
         /\ b = 202 => MeaningOf(b, r) = Obj("float32", r, 0, 0)
         /\ b = 203 => MeaningOf(b, r) = Obj("float64", r, 0, 0)
         /\ b \in 204 .. 207 => MeaningOf(b, r) = Number(0, r)
         /\ b \in 208 .. 211 => MeaningOf(b, r) = Number(SignFill(r[1]), r)
         /\ b \in 212 .. 216 => MeaningOf(b, r) = Ext(2 ^ (b - 212), r[1])
         /\ b \in 217 .. 219 => MeaningOf(b, r) = Sized("str", NatOf(r))
         /\ b \in 220 .. 221 => MeaningOf(b, r) = Sized("array", NatOf(r))
         /\ b \in 222 .. 223 => MeaningOf(b, r) = Sized("map", NatOf(r))
<1>1. b <= 127 => MeaningOf(b, r) = Number(0, <<b>>)
  BY DEF MeaningOf
<1>2. b \in 128 .. 143 => MeaningOf(b, r) = Sized("map", b - 128)
  BY DEF MeaningOf
<1>3. b \in 144 .. 159 => MeaningOf(b, r) = Sized("array", b - 144)
  BY DEF MeaningOf
<1>4. b \in 160 .. 191 => MeaningOf(b, r) = Sized("str", b - 160)
  BY DEF MeaningOf
<1>5. b = 192 => MeaningOf(b, r) = Sized("nil", 0)
  BY DEF MeaningOf
<1>6. b = 194 => MeaningOf(b, r) = Sized("false", 0)
  BY DEF MeaningOf
<1>7. b = 195 => MeaningOf(b, r) = Sized("true", 0)
  BY DEF MeaningOf
<1>8. b \in 196 .. 198 => MeaningOf(b, r) = Sized("bin", NatOf(r))
  BY DEF MeaningOf
<1>9. b \in 199 .. 201 => MeaningOf(b, r) = SizeAndType(r)
  BY DEF MeaningOf
<1>10. b = 202 => MeaningOf(b, r) = Obj("float32", r, 0, 0)
  BY DEF MeaningOf
<1>11. b = 203 => MeaningOf(b, r) = Obj("float64", r, 0, 0)
  BY DEF MeaningOf
<1>12. b \in 204 .. 207 => MeaningOf(b, r) = Number(0, r)
  BY DEF MeaningOf
<1>13. b \in 208 .. 211 => MeaningOf(b, r) = Number(SignFill(r[1]), r)
  BY DEF MeaningOf
<1>14. b \in 212 .. 216 => MeaningOf(b, r) = Ext(2 ^ (b - 212), r[1])
  BY DEF MeaningOf
<1>15. b \in 217 .. 219 => MeaningOf(b, r) = Sized("str", NatOf(r))
  BY DEF MeaningOf
<1>16. b \in 220 .. 221 => MeaningOf(b, r) = Sized("array", NatOf(r))
  BY DEF MeaningOf
<1>17. b \in 222 .. 223 => MeaningOf(b, r) = Sized("map", NatOf(r))
  BY DEF MeaningOf
<1> QED BY <1>1, <1>2, <1>3, <1>4, <1>5, <1>6, <1>7, <1>8, <1>9, <1>10, <1>11, <1>12, <1>13, <1>14, <1>15, <1>16, <1>17

(* A format and what follows it mean what the table says of the format.    *)
LEMMA DecodeIs ==
  ASSUME NEW b \in 0 .. 255, NEW r \in Bytes, Len(r) = Following(b)
  PROVE  Decode(<<b>> \o r) = MeaningOf(b, r)
<1>1. PICK h : h = <<b>> \o r
  OBVIOUS
<1>2. h[1] = b /\ Tail(h) = r
  BY <1>1, FirstRest
<1> QED BY <1>1, <1>2 DEF Decode

(* So does a format that nothing follows.                                  *)
LEMMA DecodeOne ==
  ASSUME NEW b \in 0 .. 255, Following(b) = 0
  PROVE  Decode(<<b>>) = MeaningOf(b, << >>)
<1>1. Tail(<<b>>) = << >> /\ <<b>>[1] = b /\ Len(<< >>) = 0
  OBVIOUS
<1> QED BY <1>1 DEF Decode

\* A number's bytes behind those of its sign.
Behind(n, fill, w) == [i \in 1 .. 9 |-> IF i <= n THEN fill ELSE w[i - n]]

(* A number extended to nine bytes has the fill in front.                  *)
LEMMA NumberIs ==
  ASSUME NEW fill, NEW w, NEW n \in 1 .. 8, Len(w) = 9 - n
  PROVE  Number(fill, w) = Obj("number", Behind(n, fill, w), 0, 0)
<1>1. 9 - Len(w) = n
  OBVIOUS
<1> QED BY <1>1 DEF Number, Behind

(* The low bytes of a number are its last ones in the stream's order.      *)
LEMMA LowBytesAre ==
  ASSUME NEW v \in Bytes, Len(v) = 8, NEW k \in Widths
  PROVE  \A i \in 1 .. k : LowBytes(v, k)[i] = v[i + (8 - k)]
<1>1. 8 - k \in 0 .. Len(v) /\ 8 \in 8 - k .. Len(v) /\ Len(v) - k + 1 = 8 - k + 1
  BY DEF Widths
<1>2. \A i \in 1 .. 8 - (8 - k) : SubSeq(v, 8 - k + 1, 8)[i] = v[i + (8 - k)]
  BY <1>1, PartIs DEF Bytes
<1>3. 8 - (8 - k) = k
  BY DEF Widths
<1> QED BY <1>1, <1>2, <1>3 DEF LowBytes

\* A number may leave out the bytes that only repeat its sign.
LEMMA NumberExtends ==
  ASSUME NEW v \in Bytes, Len(v) = 8, NEW k \in Widths, NEW fill,
         \A i \in 1 .. 8 - k : v[i] = fill
  PROVE  Number(fill, LowBytes(v, k)) = Number(fill, v)
<1>1. PICK w \in Bytes : w = LowBytes(v, k) /\ Len(w) = k
  BY LowBytesIs
<1>2. \A i \in 1 .. k : w[i] = v[i + (8 - k)]
  BY <1>1, LowBytesAre
<1>3. PICK n \in 1 .. 8 : n = 9 - k /\ k = 9 - n
  BY DEF Widths
<1>4. PICK x : x = Behind(n, fill, w)
  OBVIOUS
<1>5. PICK y : y = Behind(1, fill, v)
  OBVIOUS
<1>6. \A i \in 1 .. 9 : x[i] = y[i]
  <2> SUFFICES ASSUME NEW i \in 1 .. 9 PROVE x[i] = y[i]
    OBVIOUS
  <2>1. CASE i <= n
    <3>1. x[i] = fill
      BY <1>4, <2>1 DEF Behind
    <3>2. CASE i = 1
      BY <1>5, <3>1, <3>2 DEF Behind
    <3>3. CASE i # 1
      <4>1. i - 1 \in 1 .. 8 - k /\ ~ (i <= 1)
        BY <1>3, <2>1, <3>3
      <4> QED BY <1>5, <3>1, <4>1 DEF Behind
    <3> QED BY <3>2, <3>3
  <2>2. CASE ~ (i <= n)
    <3>1. i - n \in 1 .. k /\ i - n + (8 - k) = i - 1 /\ ~ (i <= 1)
      BY <1>3, <2>2
    <3> QED BY <1>2, <1>4, <1>5, <2>2, <3>1 DEF Behind
  <2> QED BY <2>1, <2>2
<1>7. x = y
  BY <1>4, <1>5, <1>6 DEF Behind
<1>8. Number(fill, w) = Obj("number", x, 0, 0)
  BY <1>1, <1>3, <1>4, NumberIs
<1>9. Number(fill, v) = Obj("number", y, 0, 0)
  <2>1. PICK j \in 1 .. 8 : j = 1
    OBVIOUS
  <2>2. Len(v) = 9 - j
    BY <2>1
  <2> QED BY <1>5, <2>1, <2>2, NumberIs
<1> QED BY <1>1, <1>7, <1>8, <1>9

\* How many bytes follow a first byte with the rank of a width in it.
LEMMA FollowingOf ==
  ASSUME NEW r \in 0 .. 3, NEW c \in 0 .. 255
  PROVE  /\ c = 196 + r /\ r <= 2 => Following(c) = 2 ^ r
         /\ c = 199 + r /\ r <= 2 => Following(c) = 2 ^ r + 1
         /\ c = 204 + r => Following(c) = 2 ^ r
         /\ c = 208 + r => Following(c) = 2 ^ r
         /\ c = 217 + r /\ r <= 2 => Following(c) = 2 ^ r
         /\ c = 219 + r /\ r \in 1 .. 2 => Following(c) = 2 ^ r
         /\ c = 221 + r /\ r \in 1 .. 2 => Following(c) = 2 ^ r
<1>1. c = 196 + r /\ r <= 2 => Following(c) = 2 ^ r
  <2>1. c = 196 + r => c - 196 = r OBVIOUS
  <2> QED BY <2>1 DEF Following
<1>2. c = 199 + r /\ r <= 2 => Following(c) = 2 ^ r + 1
  <2>1. c = 199 + r => c - 199 = r OBVIOUS
  <2> QED BY <2>1 DEF Following
<1>3. c = 204 + r => Following(c) = 2 ^ r
  <2>1. c = 204 + r => c - 204 = r OBVIOUS
  <2> QED BY <2>1 DEF Following
<1>4. c = 208 + r => Following(c) = 2 ^ r
  <2>1. c = 208 + r => c - 208 = r OBVIOUS
  <2> QED BY <2>1 DEF Following
<1>5. c = 217 + r /\ r <= 2 => Following(c) = 2 ^ r
  <2>1. c = 217 + r => c - 217 = r OBVIOUS
  <2> QED BY <2>1 DEF Following
<1>6. c = 219 + r /\ r \in 1 .. 2 => Following(c) = 2 ^ r
  <2>1. c = 219 + r => c - 219 = r OBVIOUS
  <2> QED BY <2>1 DEF Following
<1>7. c = 221 + r /\ r \in 1 .. 2 => Following(c) = 2 ^ r
  <2>1. c = 221 + r => c - 221 = r OBVIOUS
  <2> QED BY <2>1 DEF Following
<1> QED BY <1>1, <1>2, <1>3, <1>4, <1>5, <1>6, <1>7

(* The formats from 224 on are negative numbers.                           *)
LEMMA NegativeIs ==
  ASSUME NEW b \in 224 .. 255, NEW r
  PROVE  MeaningOf(b, r) = Number(255, <<b>>)
BY DEF MeaningOf

\* One byte of a number.
LEMMA LowByteIs ==
  ASSUME NEW v \in Bytes, Len(v) = 8
  PROVE  LowBytes(v, 1) = <<v[8]>>
<1>1. 1 \in Widths
  BY DEF Widths
<1>2. PICK w \in Bytes : w = LowBytes(v, 1) /\ Len(w) = 1
  BY <1>1, LowBytesIs
<1>3. \A i \in 1 .. 1 : w[i] = v[i + (8 - 1)]
  BY <1>1, <1>2, LowBytesAre
<1>4. w[1] = v[8]
  BY <1>3
<1>5. w = <<w[1]>>
  BY <1>2 DEF Bytes
<1> QED BY <1>2, <1>4, <1>5

(* A width is the power of two that its number says.                       *)
LEMMA RankPower ==
  ASSUME NEW k \in Widths
  PROVE  Rank[k] \in 0 .. 3 /\ 2 ^ Rank[k] = k
<1>1. CASE k = 1 BY <1>1, RankIs, PowersOf2
<1>2. CASE k = 2 BY <1>2, RankIs, PowersOf2
<1>3. CASE k = 4 BY <1>3, RankIs, PowersOf2
<1>4. CASE k = 8 BY <1>4, RankIs, PowersOf2
<1> QED BY <1>1, <1>2, <1>3, <1>4 DEF Widths

\* The bytes left out have the sign of those that are kept.
LEMMA SignKept ==
  ASSUME NEW v \in Bytes, Len(v) = 8, NEW k \in Widths, Fits(v, k)
  PROVE  SignFill(v[9 - k]) = SignFill(v[1])
<1>1. CASE k = 8
  <2>1. 9 - k = 1
    BY <1>1
  <2> QED BY <2>1
<1>2. CASE k # 8
  <2>1. 1 \in 1 .. 8 - k
    BY <1>2 DEF Widths
  <2>2. v[1] = SignFill(v[9 - k])
    BY <2>1 DEF Fits
  <2>3. SignFill(v[9 - k]) \in {0, 255}
    BY DEF SignFill
  <2>4. SignFill(0) = 0 /\ SignFill(255) = 255
    BY DEF SignFill
  <2> QED BY <2>2, <2>3, <2>4
<1> QED BY <1>1, <1>2

(* The header of a signed integer means it, at the least width that fits,  *)
LEMMA IntDecodes ==
  ASSUME NEW v \in Bytes, Len(v) = 8
  PROVE  Decode(IntHeader(v)) = Number(SignFill(v[1]), v)
<1>1. PICK k : k = Least({w \in Widths : Fits(v, w)})
  OBVIOUS
<1>2. k \in Widths /\ Fits(v, k)
  <2>1. Fits(v, 8) BY DEF Fits
  <2>2. 8 \in {w \in Widths : Fits(v, w)} BY <2>1 DEF Widths
  <2> QED BY <1>1, <2>2, LeastIs
<1>3. PICK fill : fill = SignFill(v[9 - k]) /\ fill = SignFill(v[1])
  BY <1>2, SignKept
<1>4. \A i \in 1 .. 8 - k : v[i] = fill
  BY <1>2, <1>3 DEF Fits
<1>5. Number(fill, LowBytes(v, k)) = Number(fill, v)
  BY <1>2, <1>4, NumberExtends
<1>6. PICK b \in 0 .. 255 : b = v[8]
  <2>1. 8 \in 1 .. Len(v)
    OBVIOUS
  <2> QED BY <2>1, ElementOfSeq DEF Bytes
<1>7. CASE k = 1 /\ (b <= 127 \/ b >= 224)
  <2>1. IntHeader(v) = <<b>>
    BY <1>1, <1>6, <1>7 DEF IntHeader
  <2>2. LowBytes(v, k) = <<b>>
    BY <1>6, <1>7, LowByteIs
  <2>3. fill = SignFill(b)
    <3>1. 9 - k = 8
      BY <1>7
    <3> QED BY <1>3, <1>6, <3>1
  <2>4. Decode(<<b>>) = MeaningOf(b, << >>)
    <3>1. Following(b) = 0
      BY <1>7, FollowingIs
    <3> QED BY <3>1, DecodeOne
  <2>5. MeaningOf(b, << >>) = Number(fill, <<b>>)
    <3>1. CASE b <= 127
      <4>1. fill = 0
        BY <2>3, <3>1 DEF SignFill
      <4>2. MeaningOf(b, << >>) = Number(0, <<b>>)
        BY <3>1, MeaningOfIs
      <4> QED BY <4>1, <4>2
    <3>2. CASE b >= 224
      <4>1. fill = 255
        BY <2>3, <3>2 DEF SignFill
      <4>2. MeaningOf(b, << >>) = Number(255, <<b>>)
        <5>1. b \in 224 .. 255
          BY <3>2
        <5> QED BY <5>1, NegativeIs
      <4> QED BY <3>2, <4>1, <4>2
    <3> QED BY <1>7, <3>1, <3>2
  <2> QED BY <1>3, <1>5, <2>1, <2>2, <2>4, <2>5
<1>8. CASE ~ (k = 1 /\ (b <= 127 \/ b >= 224))
  <2>1. PICK w \in Bytes : w = LowBytes(v, k) /\ Len(w) = k
    BY <1>2, LowBytesIs
  <2>2. PICK r \in 0 .. 3 : r = Rank[k] /\ 2 ^ r = k
    BY <1>2, RankPower
  <2>3. PICK c \in 208 .. 211 : c = 208 + r /\ c - 208 = r
    OBVIOUS
  <2>4. IntHeader(v) = <<c>> \o w
    BY <1>1, <1>6, <1>8, <2>1, <2>2, <2>3 DEF IntHeader
  <2>5. Decode(<<c>> \o w) = MeaningOf(c, w)
    <3>1. c \in 0 .. 255 /\ Following(c) = 2 ^ r
      <4>1. c \in 0 .. 255 OBVIOUS
      <4>2. c = 208 + r => Following(c) = 2 ^ r
        BY <4>1, FollowingOf
      <4> QED BY <2>3, <4>1, <4>2
    <3>2. Len(w) = Following(c)
      BY <2>1, <2>2, <3>1
    <3> QED BY <3>1, <3>2, DecodeIs
  <2>6. MeaningOf(c, w) = Number(SignFill(w[1]), w)
    BY MeaningOfIs
  <2>7. w[1] = v[9 - k]
    <3>1. 1 \in 1 .. k /\ 1 + (8 - k) = 9 - k
      BY <1>2 DEF Widths
    <3>2. w[1] = v[1 + (8 - k)]
      BY <1>2, <2>1, <3>1, LowBytesAre
    <3> QED BY <3>1, <3>2
  <2> QED BY <1>3, <1>5, <2>1, <2>4, <2>5, <2>6, <2>7
<1> QED BY <1>7, <1>8

(* and so does that of one without a sign.                                 *)
LEMMA UintDecodes ==
  ASSUME NEW v \in Bytes, Len(v) = 8
  PROVE  Decode(UintHeader(v)) = Number(0, v)
<1>1. PICK k : k = Least({w \in Widths : FitsUnsigned(v, w)})
  OBVIOUS
<1>2. k \in Widths /\ FitsUnsigned(v, k)
  <2>1. FitsUnsigned(v, 8) BY DEF FitsUnsigned
  <2>2. 8 \in {w \in Widths : FitsUnsigned(v, w)} BY <2>1 DEF Widths
  <2> QED BY <1>1, <2>2, LeastIs
<1>4. \A i \in 1 .. 8 - k : v[i] = 0
  BY <1>2 DEF FitsUnsigned
<1>5. Number(0, LowBytes(v, k)) = Number(0, v)
  BY <1>2, <1>4, NumberExtends
<1>6. PICK b \in 0 .. 255 : b = v[8]
  <2>1. 8 \in 1 .. Len(v)
    OBVIOUS
  <2> QED BY <2>1, ElementOfSeq DEF Bytes
<1>7. CASE k = 1 /\ b <= 127
  <2>1. UintHeader(v) = <<b>>
    BY <1>1, <1>6, <1>7 DEF UintHeader
  <2>2. LowBytes(v, k) = <<b>>
    BY <1>6, <1>7, LowByteIs
  <2>4. Decode(<<b>>) = MeaningOf(b, << >>)
    <3>1. Following(b) = 0
      BY <1>7, FollowingIs
    <3> QED BY <3>1, DecodeOne
  <2>5. MeaningOf(b, << >>) = Number(0, <<b>>)
    BY <1>7, MeaningOfIs
  <2> QED BY <1>5, <2>1, <2>2, <2>4, <2>5
<1>8. CASE ~ (k = 1 /\ b <= 127)
  <2>1. PICK w \in Bytes : w = LowBytes(v, k) /\ Len(w) = k
    BY <1>2, LowBytesIs
  <2>2. PICK r \in 0 .. 3 : r = Rank[k] /\ 2 ^ r = k
    BY <1>2, RankPower
  <2>3. PICK c \in 204 .. 207 : c = 204 + r /\ c - 204 = r
    OBVIOUS
  <2>4. UintHeader(v) = <<c>> \o w
    BY <1>1, <1>6, <1>8, <2>1, <2>2, <2>3 DEF UintHeader
  <2>5. Decode(<<c>> \o w) = MeaningOf(c, w)
    <3>1. c \in 0 .. 255 /\ Following(c) = 2 ^ r
      <4>1. c \in 0 .. 255 OBVIOUS
      <4> QED BY <2>3, <4>1, FollowingOf
    <3>2. Len(w) = Following(c)
      BY <2>1, <2>2, <3>1
    <3> QED BY <3>1, <3>2, DecodeIs
  <2>6. MeaningOf(c, w) = Number(0, w)
    BY MeaningOfIs
  <2> QED BY <1>5, <2>1, <2>4, <2>5, <2>6
<1> QED BY <1>7, <1>8

\* What the formats of sizes mean.
LEMMA FixMeans ==
  ASSUME NEW n \in 0 .. 15, NEW b \in 0 .. 255, NEW r
  PROVE  /\ b = 160 + n => MeaningOf(b, r) = Sized("str", n)
         /\ b = 144 + n => MeaningOf(b, r) = Sized("array", n)
         /\ b = 128 + n => MeaningOf(b, r) = Sized("map", n)
<1>1. ASSUME b = 160 + n PROVE MeaningOf(b, r) = Sized("str", n)
  <2>1. b \in 160 .. 191 /\ b - 160 = n BY <1>1
  <2>2. b \in 160 .. 191 => MeaningOf(b, r) = Sized("str", b - 160) BY MeaningOfIs
  <2> QED BY <2>1, <2>2
<1>2. ASSUME b = 144 + n PROVE MeaningOf(b, r) = Sized("array", n)
  <2>1. b \in 144 .. 159 /\ b - 144 = n BY <1>2
  <2>2. b \in 144 .. 159 => MeaningOf(b, r) = Sized("array", b - 144) BY MeaningOfIs
  <2> QED BY <2>1, <2>2
<1>3. ASSUME b = 128 + n PROVE MeaningOf(b, r) = Sized("map", n)
  <2>1. b \in 128 .. 143 /\ b - 128 = n BY <1>3
  <2>2. b \in 128 .. 143 => MeaningOf(b, r) = Sized("map", b - 128) BY MeaningOfIs
  <2> QED BY <2>1, <2>2
<1> QED BY <1>1, <1>2, <1>3

(* What the formats of sizes mean.                                         *)
LEMMA SizeMeans ==
  ASSUME NEW b \in 0 .. 255, NEW w
  PROVE  /\ b \in 217 .. 219 => MeaningOf(b, w) = Sized("str", NatOf(w))
         /\ b \in 196 .. 198 => MeaningOf(b, w) = Sized("bin", NatOf(w))
         /\ b \in 220 .. 221 => MeaningOf(b, w) = Sized("array", NatOf(w))
         /\ b \in 222 .. 223 => MeaningOf(b, w) = Sized("map", NatOf(w))
         /\ b \in 199 .. 201 => MeaningOf(b, w) = SizeAndType(w)
<1>1. b \in 217 .. 219 => MeaningOf(b, w) = Sized("str", NatOf(w))
  BY MeaningOfIs
<1>2. b \in 196 .. 198 => MeaningOf(b, w) = Sized("bin", NatOf(w))
  BY MeaningOfIs
<1>3. b \in 220 .. 221 => MeaningOf(b, w) = Sized("array", NatOf(w))
  BY MeaningOfIs
<1>4. b \in 222 .. 223 => MeaningOf(b, w) = Sized("map", NatOf(w))
  BY MeaningOfIs
<1>5. b \in 199 .. 201 => MeaningOf(b, w) = SizeAndType(w)
  BY MeaningOfIs
<1> QED BY <1>1, <1>2, <1>3, <1>4, <1>5

\* A size that goes into the first byte.
LEMMA FixDecodes ==
  ASSUME NEW kind, NEW n \in Nat, n <= FixLimit(kind)
  PROVE  Decode(SizeHeader(kind, n)) = Sized(kind, n)
<1>1. kind \in {"str", "array", "map"} /\ n \in 0 .. 15
  BY DEF FixLimit
<1>2. n % 16 = n
  BY <1>1
<1>3. PICK b \in 128 .. 191 : b = Fix[kind] + n
  BY <1>1 DEF Fix
<1>4. SizeHeader(kind, n) = <<b>>
  BY <1>2, <1>3 DEF SizeHeader
<1>5. Decode(<<b>>) = MeaningOf(b, << >>)
  <2>1. b \in 0 .. 255 /\ b <= 195
    OBVIOUS
  <2>2. Following(b) = 0
    BY <2>1, FollowingIs
  <2> QED BY <2>1, <2>2, DecodeOne
<1>6. MeaningOf(b, << >>) = Sized(kind, n)
  <2>1. b \in 0 .. 255
    OBVIOUS
  <2>2. CASE kind = "str"
    <3>1. b = 160 + n BY <1>3, <2>2 DEF Fix
    <3> QED BY <1>1, <2>1, <2>2, <3>1, FixMeans
  <2>3. CASE kind = "array"
    <3>1. b = 144 + n BY <1>3, <2>3 DEF Fix
    <3> QED BY <1>1, <2>1, <2>3, <3>1, FixMeans
  <2>4. CASE kind = "map"
    <3>1. b = 128 + n BY <1>3, <2>4 DEF Fix
    <3> QED BY <1>1, <2>1, <2>4, <3>1, FixMeans
  <2> QED BY <1>1, <2>2, <2>3, <2>4
<1> QED BY <1>4, <1>5, <1>6

\* The width of a size: what the bytes hold, and its place among the formats.
LEMMA WidthIs ==
  ASSUME NEW kind \in HasSize, NEW n, IsSize(n)
  PROVE  \E r \in 0 .. 2 :
           /\ SizeFits(n, SizeWidth(kind, n)) /\ r = Rank[SizeWidth(kind, n)]
           /\ 2 ^ r = SizeWidth(kind, n) /\ SizeWidth(kind, n) \in {1, 2, 4}
           /\ kind \in {"array", "map"} => r \in 1 .. 2
<1>1. PICK k : k = SizeWidth(kind, n)
  OBVIOUS
<1>. n \in Nat
  BY DEF IsSize
<1>2. CASE n <= 255 /\ kind \notin {"array", "map"}
  <2>1. k = 1
    BY <1>1, <1>2 DEF SizeWidth
  <2>2. SizeFits(n, k) /\ Rank[k] = 0 /\ 2 ^ 0 = k
    BY <1>2, <2>1, RankIs, PowersOf2 DEF SizeFits
  <2> QED BY <1>1, <1>2, <2>1, <2>2
<1>3. CASE n <= 65535 /\ (n > 255 \/ kind \in {"array", "map"})
  <2>1. k = 2
    BY <1>1, <1>3 DEF SizeWidth
  <2>2. SizeFits(n, k) /\ Rank[k] = 1 /\ 2 ^ 1 = k
    BY <1>3, <2>1, RankIs, PowersOf2 DEF SizeFits
  <2> QED BY <1>1, <2>1, <2>2
<1>4. CASE n > 65535
  <2>1. k = 4
    BY <1>1, <1>4 DEF SizeWidth
  <2>2. SizeFits(n, k) /\ Rank[k] = 2 /\ 2 ^ 2 = k
    BY <2>1, RankIs, PowersOf2 DEF SizeFits, IsSize
  <2> QED BY <1>1, <2>1, <2>2
<1> QED BY <1>2, <1>3, <1>4

(* The header of a size means it.                                          *)
LEMMA SizeDecodes ==
  ASSUME NEW kind \in {"str", "bin", "array", "map"}, NEW n, IsSize(n)
  PROVE  Decode(SizeHeader(kind, n)) = Sized(kind, n)
<1>. n \in Nat
  BY DEF IsSize
<1>1. CASE n <= FixLimit(kind)
  BY <1>1, FixDecodes
<1>2. CASE ~ (n <= FixLimit(kind))
  <2>1. PICK k : k = SizeWidth(kind, n)
    OBVIOUS
  <2>2. PICK r \in 0 .. 2 : /\ SizeFits(n, k) /\ r = Rank[k] /\ 2 ^ r = k /\ k \in {1, 2, 4}
                            /\ kind \in {"array", "map"} => r \in 1 .. 2
    <3>1. kind \in HasSize
      BY DEF HasSize
    <3> QED BY <2>1, <3>1, WidthIs
  <2>3. PICK w \in Bytes : w = BytesOf(n, k) /\ Len(w) = k /\ NatOf(w) = n
    <3>1. BytesOf(n, k) \in Bytes /\ Len(BytesOf(n, k)) = k
      BY <2>2, BytesOfIs
    <3>2. NatOf(BytesOf(n, k)) = n
      BY <2>2, NatOfBytes
    <3> QED BY <3>1, <3>2
  <2>4. PICK c \in 0 .. 255 : c = First[kind] + r
    BY DEF First
  <2>5. SizeHeader(kind, n) = <<c>> \o w
    BY <1>2, <2>1, <2>2, <2>3, <2>4 DEF SizeHeader
  <2>6. Following(c) = 2 ^ r /\ MeaningOf(c, w) = Sized(kind, NatOf(w))
    <3>0. r \in 0 .. 3 /\ c \in 0 .. 255
      OBVIOUS
    <3>1. CASE kind = "str"
      <4>1. c = 217 + r /\ r <= 2 /\ c \in 217 .. 219 BY <2>4, <3>1 DEF First
      <4>2. Following(c) = 2 ^ r BY <3>0, <4>1, FollowingOf
      <4> QED BY <3>1, <4>1, <4>2, SizeMeans
    <3>2. CASE kind = "bin"
      <4>1. c = 196 + r /\ r <= 2 /\ c \in 196 .. 198 BY <2>4, <3>2 DEF First
      <4>2. Following(c) = 2 ^ r BY <3>0, <4>1, FollowingOf
      <4> QED BY <3>2, <4>1, <4>2, SizeMeans
    <3>3. CASE kind = "array"
      <4>1. c = 219 + r /\ r \in 1 .. 2 /\ c \in 220 .. 221 BY <2>2, <2>4, <3>3 DEF First
      <4>2. Following(c) = 2 ^ r BY <3>0, <4>1, FollowingOf
      <4> QED BY <3>3, <4>1, <4>2, SizeMeans
    <3>4. CASE kind = "map"
      <4>1. c = 221 + r /\ r \in 1 .. 2 /\ c \in 222 .. 223 BY <2>2, <2>4, <3>4 DEF First
      <4>2. Following(c) = 2 ^ r BY <3>0, <4>1, FollowingOf
      <4> QED BY <3>4, <4>1, <4>2, SizeMeans
    <3> QED BY <3>1, <3>2, <3>3, <3>4
  <2>7. Len(w) = Following(c)
    BY <2>2, <2>3, <2>6
  <2>8. Decode(<<c>> \o w) = MeaningOf(c, w)
    BY <2>7, DecodeIs
  <2> QED BY <2>3, <2>5, <2>6, <2>8
<1> QED BY <1>1, <1>2

\* An ext of a fixed size has only its type behind the first byte.
LEMMA FixExtDecodes ==
  ASSUME NEW n \in {1, 2, 4, 8, 16}, NEW type \in 0 .. 255
  PROVE  Decode(ExtHeader(n, type)) = Ext(n, type)
<1>1. PICK b \in 212 .. 216 : b = FixExt[n] /\ 2 ^ (b - 212) = n
  <2>1. CASE n = 1
    <3>1. FixExt[n] = 212 /\ 212 - 212 = 0 BY <2>1, RankIs DEF FixExt
    <3> QED BY <2>1, <3>1, PowersOf2
  <2>2. CASE n = 2
    <3>1. FixExt[n] = 213 /\ 213 - 212 = 1 BY <2>2, RankIs DEF FixExt
    <3> QED BY <2>2, <3>1, PowersOf2
  <2>3. CASE n = 4
    <3>1. FixExt[n] = 214 /\ 214 - 212 = 2 BY <2>3, RankIs DEF FixExt
    <3> QED BY <2>3, <3>1, PowersOf2
  <2>4. CASE n = 8
    <3>1. FixExt[n] = 215 /\ 215 - 212 = 3 BY <2>4, RankIs DEF FixExt
    <3> QED BY <2>4, <3>1, PowersOf2
  <2>5. CASE n = 16
    <3>1. FixExt[n] = 216 /\ 216 - 212 = 4 BY <2>5 DEF FixExt
    <3> QED BY <2>5, <3>1, PowersOf2
  <2> QED BY <2>1, <2>2, <2>3, <2>4, <2>5
<1>2. ExtHeader(n, type) = <<b, type>>
  BY <1>1 DEF ExtHeader, FixExt
<1>3. PICK h : h = <<b, type>>
  OBVIOUS
<1>4. h[1] = b /\ Tail(h) = <<type>> /\ Len(<<type>>) = 1 /\ <<type>>[1] = type
  BY <1>3
<1>5. Following(b) = 1
  BY DEF Following
<1>6. MeaningOf(b, <<type>>) = Ext(2 ^ (b - 212), <<type>>[1])
  BY DEF MeaningOf
<1>7. Decode(h) = MeaningOf(b, <<type>>)
  BY <1>4, <1>5 DEF Decode
<1> QED BY <1>1, <1>2, <1>3, <1>4, <1>6, <1>7

\* The type behind the bytes of the size.
IsBehind(b, w, type, x) ==
  /\ (<<b>> \o w) \o <<type>> = <<b>> \o x /\ Len(x) = Len(w) + 1
  /\ SubSeq(x, 1, Len(x) - 1) = w /\ x[Len(x)] = type

(* The type of an ext is the byte behind its size.                         *)
LEMMA TypeBehind ==
  ASSUME NEW b \in 0 .. 255, NEW w \in Bytes, NEW type \in 0 .. 255, Len(w) \in Nat \ {0}
  PROVE  \E x \in Bytes : IsBehind(b, w, type, x)
<1>1. <<b>> \in Bytes /\ <<type>> \in Bytes /\ Len(<<type>>) = 1
  BY DEF Bytes
<1>2. PICK t \in Bytes : t = <<type>> /\ Len(t) = 1 /\ t[1] = type
  BY <1>1
<1>3. PICK x : x = w \o t
  OBVIOUS
<1>4. PICK n \in Nat \ {0} : n = Len(w)
  OBVIOUS
<1>5. /\ x \in Bytes /\ Len(x) = n + 1
      /\ \A i \in 1 .. n + 1 : x[i] = IF i <= n THEN w[i] ELSE t[i - n]
  BY <1>2, <1>3, <1>4, ConcatProperties DEF Bytes
<1>6. x[n + 1] = type
  <2>1. n + 1 \in 1 .. n + 1 /\ ~ (n + 1 <= n) /\ n + 1 - n = 1
    OBVIOUS
  <2> QED BY <1>2, <1>5, <2>1
<1>7. PICK y : y = SubSeq(x, 1, n)
  OBVIOUS
<1>8. y \in Bytes /\ Len(y) = n /\ \A i \in 1 .. n : y[i] = x[i]
  <2>1. \A i \in 1 .. n : x[i] \in 0 .. 255
    <3> SUFFICES ASSUME NEW i \in 1 .. n PROVE x[i] \in 0 .. 255
      OBVIOUS
    <3>1. i \in 1 .. Len(x)
      BY <1>5
    <3> QED BY <1>5, <3>1, ElementOfSeq DEF Bytes
  <2> QED BY <1>7, <2>1, SubSeqProperties DEF Bytes
<1>9. y = w
  <2>1. \A i \in 1 .. n : y[i] = w[i]
    BY <1>5, <1>8
  <2> QED BY <1>4, <1>8, <2>1, SeqEqual DEF Bytes
<1>10. Len(x) = n + 1 /\ Len(x) - 1 = n
  BY <1>5
<1>11. (<<b>> \o w) \o t = <<b>> \o x
  BY <1>1, <1>2, <1>3, ConcatAssociative DEF Bytes
<1>12. IsBehind(b, w, type, x)
  BY <1>2, <1>4, <1>6, <1>7, <1>9, <1>10, <1>11 DEF IsBehind
<1> QED BY <1>5, <1>12

(* The header of an ext means its size and type.                           *)
LEMMA ExtDecodes ==
  ASSUME NEW n, IsSize(n), NEW type \in 0 .. 255
  PROVE  Decode(ExtHeader(n, type)) = Ext(n, type)
<1>. n \in Nat
  BY DEF IsSize
<1>1. CASE n \in {1, 2, 4, 8, 16}
  BY <1>1, FixExtDecodes
<1>2. CASE n \notin {1, 2, 4, 8, 16}
  <2>1. PICK k : k = SizeWidth("ext", n)
    OBVIOUS
  <2>2. PICK r \in 0 .. 2 : SizeFits(n, k) /\ r = Rank[k] /\ 2 ^ r = k /\ k \in {1, 2, 4}
    <3>1. "ext" \in HasSize
      BY DEF HasSize
    <3> QED BY <2>1, <3>1, WidthIs
  <2>3. PICK w \in Bytes : w = BytesOf(n, k) /\ Len(w) = k /\ NatOf(w) = n
    <3>1. BytesOf(n, k) \in Bytes /\ Len(BytesOf(n, k)) = k
      BY <2>2, BytesOfIs
    <3>2. NatOf(BytesOf(n, k)) = n
      BY <2>2, NatOfBytes
    <3> QED BY <3>1, <3>2
  <2>4. PICK c \in 0 .. 255 : c \in 199 .. 201 /\ c = 199 + r
    <3>1. 199 + r \in 0 .. 255 /\ 199 + r \in 199 .. 201
      OBVIOUS
    <3> QED BY <3>1
  <2>5. SizeHeader("ext", n) = <<c>> \o w
    <3>1. ~ (n <= FixLimit("ext")) /\ First["ext"] = 199
      BY DEF FixLimit, First
    <3> QED BY <2>1, <2>2, <2>3, <2>4, <3>1 DEF SizeHeader
  <2>6. ExtHeader(n, type) = (<<c>> \o w) \o <<type>>
    BY <1>2, <2>5 DEF ExtHeader, FixExt
  <2>7. r \in 0 .. 3 /\ Len(w) \in Nat \ {0}
    BY <2>2, <2>3
  <2>8. PICK x \in Bytes : IsBehind(c, w, type, x)
    BY <2>7, TypeBehind
  <2>9. Following(c) = 2 ^ r + 1
    <3>1. c = 199 + r /\ r <= 2 => Following(c) = 2 ^ r + 1
      BY <2>7, FollowingOf
    <3> QED BY <2>4, <3>1
  <2>10. Len(x) = Following(c)
    BY <2>2, <2>3, <2>8, <2>9 DEF IsBehind
  <2>11. Decode(<<c>> \o x) = MeaningOf(c, x)
    BY <2>7, <2>10, DecodeIs
  <2>12. MeaningOf(c, x) = SizeAndType(x)
    BY <2>4, SizeMeans
  <2>13. SizeAndType(x) = Ext(n, type)
    BY <2>3, <2>8 DEF SizeAndType, IsBehind
  <2> QED BY <2>6, <2>8, <2>11, <2>12, <2>13 DEF IsBehind
<1> QED BY <1>1, <1>2

\* What is built for an object means the object.
LEMMA HeaderMeans ==
  ASSUME NEW o \in ObjectSet
  PROVE  Decode(Header(o)) = Meaning(o)
<1>1. /\ o.kind \in Kinds /\ o.value \in Bytes /\ IsSize(o.size) /\ o.type \in 0 .. 255
      /\ Len(o.value) = ValueLength(o.kind)
      /\ o.kind \notin HasSize => o.size = 0
      /\ o.kind # "ext" => o.type = 0
      /\ o = Obj(o.kind, o.value, o.size, o.type)
  BY DEF ObjectSet, Bytes, Obj
<1>2. CASE o.kind = "int"
  <2>1. Header(o) = IntHeader(o.value) BY <1>2 DEF Header, Single
  <2>2. Len(o.value) = 8 BY <1>1, <1>2 DEF ValueLength
  <2>3. Decode(IntHeader(o.value)) = Number(SignFill(o.value[1]), o.value)
    BY <1>1, <2>2, IntDecodes
  <2> QED BY <1>2, <2>1, <2>3 DEF Meaning
<1>3. CASE o.kind = "uint"
  <2>1. Header(o) = UintHeader(o.value) BY <1>3 DEF Header, Single
  <2>2. Len(o.value) = 8 BY <1>1, <1>3 DEF ValueLength
  <2>3. Decode(UintHeader(o.value)) = Number(0, o.value)
    BY <1>1, <2>2, UintDecodes
  <2> QED BY <1>3, <2>1, <2>3 DEF Meaning
<1>4. CASE o.kind = "float32"
  <2>1. Header(o) = <<202>> \o o.value BY <1>4 DEF Header, Single
  <2>2. Len(o.value) = 4 BY <1>1, <1>4 DEF ValueLength
  <2>3. PICK b \in 0 .. 255 : b = 202 OBVIOUS
  <2>4. Len(o.value) = Following(b) BY <2>2, <2>3, FollowingIs
  <2>5. Decode(<<b>> \o o.value) = MeaningOf(b, o.value) BY <1>1, <2>4, DecodeIs
  <2>6. MeaningOf(b, o.value) = Obj("float32", o.value, 0, 0) BY <2>3, MeaningOfIs
  <2>7. o.size = 0 /\ o.type = 0 BY <1>1, <1>4 DEF HasSize
  <2>8. Meaning(o) = o BY <1>4 DEF Meaning
  <2> QED BY <1>1, <1>4, <2>1, <2>3, <2>5, <2>6, <2>7, <2>8
<1>5. CASE o.kind = "float64"
  <2>1. Header(o) = <<203>> \o o.value BY <1>5 DEF Header, Single
  <2>2. Len(o.value) = 8 BY <1>1, <1>5 DEF ValueLength
  <2>3. PICK b \in 0 .. 255 : b = 203 OBVIOUS
  <2>4. Len(o.value) = Following(b) BY <2>2, <2>3, FollowingIs
  <2>5. Decode(<<b>> \o o.value) = MeaningOf(b, o.value) BY <1>1, <2>4, DecodeIs
  <2>6. MeaningOf(b, o.value) = Obj("float64", o.value, 0, 0) BY <2>3, MeaningOfIs
  <2>7. o.size = 0 /\ o.type = 0 BY <1>1, <1>5 DEF HasSize
  <2>8. Meaning(o) = o BY <1>5 DEF Meaning
  <2> QED BY <1>1, <1>5, <2>1, <2>3, <2>5, <2>6, <2>7, <2>8
<1>6. CASE o.kind \in {"nil", "false", "true"}
  <2>1. Header(o) = <<Single[o.kind]>> BY <1>6 DEF Header, Single
  <2>2. PICK b \in 0 .. 255 : b = Single[o.kind] /\ b \in {192, 194, 195} BY <1>6 DEF Single
  <2>3. Following(b) = 0 BY <2>2, FollowingIs
  <2>4. Decode(<<b>>) = MeaningOf(b, << >>) BY <2>3, DecodeOne
  <2>5. MeaningOf(b, << >>) = Sized(o.kind, 0)
    <3>1. CASE o.kind = "nil"
      <4>1. b = 192 BY <2>2, <3>1 DEF Single
      <4> QED BY <3>1, <4>1, MeaningOfIs
    <3>2. CASE o.kind = "false"
      <4>1. b = 194 BY <2>2, <3>2 DEF Single
      <4> QED BY <3>2, <4>1, MeaningOfIs
    <3>3. CASE o.kind = "true"
      <4>1. b = 195 BY <2>2, <3>3 DEF Single
      <4> QED BY <3>3, <4>1, MeaningOfIs
    <3> QED BY <1>6, <3>1, <3>2, <3>3
  <2>6. o.size = 0 /\ o.type = 0 BY <1>1, <1>6 DEF HasSize
  <2>7. o.value = << >>
    <3>1. Len(o.value) = 0 BY <1>1, <1>6 DEF ValueLength
    <3> QED BY <1>1, <3>1, EmptySeq DEF Bytes
  <2>8. Meaning(o) = o BY <1>6 DEF Meaning
  <2>9. Sized(o.kind, 0) = o BY <1>1, <2>6, <2>7 DEF Sized
  <2> QED BY <2>1, <2>2, <2>4, <2>5, <2>8, <2>9
<1>7. CASE o.kind \in {"str", "bin", "array", "map"}
  <2>1. Header(o) = SizeHeader(o.kind, o.size) BY <1>7 DEF Header, Single
  <2>2. Decode(SizeHeader(o.kind, o.size)) = Sized(o.kind, o.size)
    BY <1>1, <1>7, SizeDecodes
  <2>3. o.type = 0 BY <1>1, <1>7
  <2>4. o.value = << >>
    <3>1. Len(o.value) = 0 BY <1>1, <1>7 DEF ValueLength
    <3> QED BY <1>1, <3>1, EmptySeq DEF Bytes
  <2>5. Meaning(o) = o BY <1>7 DEF Meaning
  <2>6. Sized(o.kind, o.size) = o BY <1>1, <2>3, <2>4 DEF Sized
  <2> QED BY <2>1, <2>2, <2>5, <2>6
<1>8. CASE o.kind = "ext"
  <2>1. Header(o) = ExtHeader(o.size, o.type) BY <1>8 DEF Header, Single
  <2>2. Decode(ExtHeader(o.size, o.type)) = Ext(o.size, o.type)
    BY <1>1, ExtDecodes
  <2>4. o.value = << >>
    <3>1. Len(o.value) = 0 BY <1>1, <1>8 DEF ValueLength
    <3> QED BY <1>1, <3>1, EmptySeq DEF Bytes
  <2>5. Meaning(o) = o BY <1>8 DEF Meaning
  <2>6. Ext(o.size, o.type) = o BY <1>1, <1>8, <2>4 DEF Ext
  <2> QED BY <2>1, <2>2, <2>5, <2>6
<1> QED BY <1>1, <1>2, <1>3, <1>4, <1>5, <1>6, <1>7, <1>8 DEF Kinds

(* What the buffer holds while it is written is, by the table of formats,  *)
(* the object that was given: every number, in whichever of the nine       *)
(* forms is the least for it, and every size up to the last of 32 bits.    *)
THEOREM HeaderIsRead == Spec => []HeaderDecodes
<1>1. WriteInv => HeaderDecodes
  <2> SUFFICES ASSUME WriteInv, mpack.status = "write_buffer"
               PROVE  Decode(mpack.buffer_data) = Meaning(current)
    BY DEF HeaderDecodes
  <2>1. current \in AllObjects /\ mpack.buffer_data = Built[current]
    BY DEF WriteInv, PlaceInv, BufferInv
  <2>2. Built[current] = Header(current)
    BY <2>1 DEF Built
  <2>3. Decode(Header(current)) = Meaning(current)
    BY <2>1, ObjectIs, HeaderMeans
  <2> QED BY <2>1, <2>2, <2>3
<1> QED BY <1>1, WriteInvAlways, PTL
===========================================================================
