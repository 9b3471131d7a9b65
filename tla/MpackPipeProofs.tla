------------------------- MODULE MpackPipeProofs --------------------------
(***************************************************************************)
(* The reader gives what was written. The invariant says how much of the   *)
(* object at its place in the stream the context has: nothing of it, the   *)
(* first bytes of its number, or the whole number in the union. For that   *)
(* the stream must be one the writer can have made: headers, or beginnings *)
(* of them, that mean by the table of formats the objects they were built  *)
(* for.                                                                    *)
(***************************************************************************)
EXTENDS MpackPipe, MpackWriteProofs

---------------------------------------------------------------------------
(* The stream.                                                             *)

\* The first bytes of a header, and data, from the first byte on, only
\* behind a whole one.
Sound(e) ==
  /\ Len(e.head) \in 1 .. Len(Built[e.of])
  /\ e.head = SubSeq(Built[e.of], 1, Len(e.head))
  /\ \/ e.data = << >>
     \/ e.head = Built[e.of] /\ \E g \in Nat \ {0} : e.data = <<<<1, g>>>>

AllSound(s) == \A k \in 1 .. Len(s) : Sound(s[k])

GrowsTo(e, f) == f.of = e.of /\ Len(e.head) <= Len(f.head) /\ DataLen(e) <= DataLen(f)

Grows(s, t) == Len(s) <= Len(t) /\ \A k \in 1 .. Len(s) : GrowsTo(s[k], t[k])

(* The data of an entry are none or the first g bytes.                     *)
LEMMA DataLenIs ==
  ASSUME NEW e
  PROVE  /\ e.data = << >> => DataLen(e) = 0
         /\ \A g \in Nat : e.data = <<<<1, g>>>> => DataLen(e) = g
<1>1. ASSUME e.data = << >>
      PROVE  DataLen(e) = 0
  <2>. DEFINE Sums(h) ==
         h = [i \in 0 .. Len(e.data) |->
                IF i = 0 THEN 0 ELSE h[i - 1] + e.data[i][2] - e.data[i][1] + 1]
  <2>1. PICK f : f = CHOOSE h : Sums(h)
    OBVIOUS
  <2>2. DataLen(e) = f[Len(e.data)]
    BY <2>1 DEF DataLen
  <2>3. PICK g : g = [i \in 0 .. 0 |-> 0]
    OBVIOUS
  <2>4. Sums(g)
    <3>1. Len(e.data) = 0
      BY <1>1
    <3>2. \A i \in 0 .. 0 : (IF i = 0 THEN 0 ELSE g[i - 1] + e.data[i][2] - e.data[i][1] + 1) = 0
      OBVIOUS
    <3>3. g = [i \in 0 .. 0 |-> IF i = 0 THEN 0 ELSE g[i - 1] + e.data[i][2] - e.data[i][1] + 1]
      BY <2>3, <3>2
    <3> QED BY <3>1, <3>3
  <2>5. Sums(f)
    <3>. HIDE DEF Sums
    <3> QED BY <2>1, <2>4, Zenon
  <2>6. f[0] = 0
    BY <1>1, <2>5
  <2> QED BY <1>1, <2>2, <2>6
<1>2. ASSUME NEW n \in Nat, e.data = <<<<1, n>>>>
      PROVE  DataLen(e) = n
  <2>. DEFINE Sums(h) ==
         h = [i \in 0 .. Len(e.data) |->
                IF i = 0 THEN 0 ELSE h[i - 1] + e.data[i][2] - e.data[i][1] + 1]
  <2>1. PICK f : f = CHOOSE h : Sums(h)
    OBVIOUS
  <2>2. DataLen(e) = f[Len(e.data)]
    BY <2>1 DEF DataLen
  <2>3. PICK g : g = [i \in 0 .. 1 |-> IF i = 0 THEN 0 ELSE n]
    OBVIOUS
  <2>4. Len(e.data) = 1 /\ e.data[1][2] = n /\ e.data[1][1] = 1
    BY <1>2
  <2>5. Sums(g)
    <3>1. \A i \in 0 .. 1 : g[i] = IF i = 0 THEN 0 ELSE g[i - 1] + e.data[i][2] - e.data[i][1] + 1
      <4> SUFFICES ASSUME NEW i \in 0 .. 1
                   PROVE  g[i] = IF i = 0 THEN 0 ELSE g[i - 1] + e.data[i][2] - e.data[i][1] + 1
        OBVIOUS
      <4>1. CASE i = 0
        BY <2>3, <4>1
      <4>2. CASE i = 1
        BY <1>2, <2>3, <2>4, <4>2
      <4> QED BY <4>1, <4>2
    <3> QED BY <2>3, <2>4, <3>1
  <2>6. Sums(f)
    <3>. HIDE DEF Sums
    <3> QED BY <2>1, <2>5, Zenon
  <2>7. f[0] = 0
    BY <2>4, <2>6
  <2>8. f[1] = f[0] + e.data[1][2] - e.data[1][1] + 1
    BY <2>4, <2>6
  <2> QED BY <1>2, <2>2, <2>4, <2>7, <2>8
<1> QED BY <1>1, <1>2

(* A sound entry has at least a byte of its header, and data only behind   *)
(* the whole of it.                                                        *)
LEMMA SoundIs ==
  ASSUME NEW e \in Entries, Sound(e)
  PROVE  /\ Len(e.head) \in 1 .. 10 /\ Len(Built[e.of]) \in 1 .. 10
         /\ Len(e.head) <= Len(Built[e.of])
         /\ DataLen(e) \in Nat
         /\ e.head # Built[e.of] => DataLen(e) = 0 /\ Len(e.head) < Len(Built[e.of])
         /\ \A i \in 1 .. Len(e.head) : e.head[i] = Built[e.of][i]
<1>1. Built[e.of] \in Bytes /\ Len(Built[e.of]) \in 1 .. 10
  BY BuiltIs DEF Entries
<1>2. PICK h \in Seq(0 .. 255) : h = Built[e.of]
  BY <1>1 DEF Bytes
<1>3. PICK len \in 1 .. 10 : len = Len(h)
  BY <1>1, <1>2
<1>4. PICK n \in 1 .. len : n = Len(e.head)
  BY <1>2, <1>3 DEF Sound
<1>5. n \in 1 .. 10 /\ n <= len
  OBVIOUS
<1>6. \A i \in 1 .. n : e.head[i] = h[i]
  <2>1. n \in 0 .. Len(h)
    BY <1>3
  <2>2. e.head = SubSeq(h, 1, n)
    BY <1>2, <1>4 DEF Sound
  <2> QED BY <2>1, <2>2, FrontIs
<1>7. e.head # h => n < len
  <2> SUFFICES ASSUME n = len PROVE e.head = h
    OBVIOUS
  <2>1. SubSeq(h, 1, Len(h)) = h
    BY SubSeqFull
  <2> QED BY <1>2, <1>3, <1>4, <2>1 DEF Sound
<1>8. /\ DataLen(e) \in Nat
      /\ e.head # h => DataLen(e) = 0
  <2>1. CASE e.data = << >>
    BY <2>1, DataLenIs
  <2>2. CASE e.data # << >>
    <3>1. PICK g \in Nat \ {0} : e.data = <<<<1, g>>>> /\ e.head = h
      BY <1>2, <2>2 DEF Sound
    <3>2. DataLen(e) = g
      BY <3>1, DataLenIs
    <3> QED BY <3>1, <3>2
  <2> QED BY <2>1, <2>2
<1> QED BY <1>1, <1>2, <1>3, <1>4, <1>5, <1>6, <1>7, <1>8

(* A stream of which only the last entry changed has grown, if that one    *)
(* has.                                                                    *)
LEMMA LastGrows ==
  ASSUME NEW s \in Seq(Entries), NEW t \in Seq(Entries), AllSound(s), SameBefore(s, t), t # << >>,
         Sound(t[Len(t)]), Len(t) = Len(s) => GrowsTo(s[Len(s)], t[Len(t)])
  PROVE  AllSound(t) /\ Grows(s, t)
<1>1. PICK m \in Nat, n \in Nat \ {0} : m = Len(s) /\ n = Len(t) /\ n \in {m, m + 1}
  BY EmptySeq DEF SameBefore
<1>2. \A k \in 1 .. n - 1 : t[k] = s[k] /\ k \in 1 .. m
  BY <1>1 DEF SameBefore
<1>3. AllSound(t)
  <2> SUFFICES ASSUME NEW k \in 1 .. n PROVE Sound(t[k])
    BY <1>1 DEF AllSound
  <2>1. CASE k = n
    BY <1>1, <2>1
  <2>2. CASE k # n
    <3>1. k \in 1 .. n - 1
      BY <2>2
    <3>2. t[k] = s[k] /\ k \in 1 .. Len(s)
      BY <1>1, <1>2, <3>1
    <3> QED BY <3>2 DEF AllSound
  <2> QED BY <2>1, <2>2
<1>4. Grows(s, t)
  <2>1. m <= n
    BY <1>1
  <2> SUFFICES ASSUME NEW k \in 1 .. m PROVE GrowsTo(s[k], t[k])
    BY <1>1, <2>1 DEF Grows
  <2>2. CASE k = n
    <3>1. m = n
      BY <1>1, <2>2
    <3> QED BY <1>1, <2>2, <3>1
  <2>3. CASE k # n
    <3>1. k \in 1 .. n - 1
      BY <1>1, <2>3
    <3>2. t[k] = s[k]
      BY <1>2, <3>1
    <3>3. s[k] \in Entries /\ Sound(s[k])
      BY <1>1, ElementOfSeq DEF AllSound
    <3>4. DataLen(s[k]) \in Nat /\ Len(s[k].head) \in 1 .. 10
      BY <3>3, SoundIs
    <3> QED BY <3>2, <3>4 DEF GrowsTo
  <2> QED BY <2>2, <2>3
<1> QED BY <1>3, <1>4

(* More bytes of a header in the last entry, or the first in a new one.    *)
LEMMA HeaderGrows ==
  ASSUME NEW s \in Seq(Entries), NEW t \in Seq(Entries), AllSound(s), SameBefore(s, t),
         NEW o \in AllObjects, NEW a \in Nat, NEW b \in Nat, a < b, b <= Len(Built[o]),
         LastIs(t, o, SubSeq(Built[o], 1, b), << >>),
         a = 0 => Len(t) = Len(s) + 1,
         a > 0 => LastIs(s, o, SubSeq(Built[o], 1, a), << >>)
  PROVE  AllSound(t) /\ Grows(s, t)
<1>1. PICK h \in Seq(0 .. 255), len \in 1 .. 10 : h = Built[o] /\ len = Len(h)
  BY BuiltIs DEF Bytes
<1>2. PICK e : e = t[Len(t)]
  OBVIOUS
<1>3. t # << >> /\ e = [of |-> o, head |-> SubSeq(h, 1, b), data |-> << >>]
  BY <1>1, <1>2 DEF LastIs
<1>4. Len(SubSeq(h, 1, b)) = b
  <2>1. b \in 0 .. Len(h) BY <1>1
  <2> QED BY <2>1, FrontIs
<1>5. Sound(e)
  <2>1. b \in 1 .. len
    BY <1>1
  <2> QED BY <1>1, <1>3, <1>4, <2>1 DEF Sound
<1>6. ASSUME Len(t) = Len(s)
      PROVE  GrowsTo(s[Len(s)], t[Len(t)])
  <2>1. a > 0
    BY <1>6
  <2>2. s[Len(s)] = [of |-> o, head |-> SubSeq(h, 1, a), data |-> << >>]
    BY <1>1, <2>1 DEF LastIs
  <2>3. Len(SubSeq(h, 1, a)) = a
    <3>1. a \in 0 .. Len(h) BY <1>1
    <3> QED BY <3>1, FrontIs
  <2>4. DataLen(s[Len(s)]) = 0 /\ DataLen(e) = 0
    BY <1>3, <2>2, DataLenIs
  <2> QED BY <1>2, <1>3, <1>4, <2>2, <2>3, <2>4 DEF GrowsTo
<1> QED BY <1>2, <1>3, <1>5, <1>6, LastGrows

(* More bytes of the data in the last entry.                               *)
LEMMA DataGrows ==
  ASSUME NEW s \in Seq(Entries), NEW t \in Seq(Entries), AllSound(s), SameBefore(s, t),
         NEW o \in AllObjects, NEW g \in Nat, NEW d \in Nat,
         LastIs(s, o, Built[o], DataUpTo(g)), LastIs(t, o, Built[o], DataUpTo(g + d))
  PROVE  AllSound(t) /\ Grows(s, t)
<1>1. PICK h \in Seq(0 .. 255), len \in 1 .. 10 : h = Built[o] /\ len = Len(h)
  BY BuiltIs DEF Bytes
<1>2. PICK e, f : e = s[Len(s)] /\ f = t[Len(t)]
  OBVIOUS
<1>3. /\ t # << >>
      /\ e = [of |-> o, head |-> h, data |-> DataUpTo(g)]
      /\ f = [of |-> o, head |-> h, data |-> DataUpTo(g + d)]
  BY <1>1, <1>2 DEF LastIs
<1>4. ASSUME NEW n \in Nat, NEW x, x.data = DataUpTo(n)
      PROVE  DataLen(x) = n
  <2>1. CASE n = 0
    BY <1>4, <2>1, DataLenIs DEF DataUpTo
  <2>2. CASE n # 0
    BY <1>4, <2>2, DataLenIs DEF DataUpTo
  <2> QED BY <2>1, <2>2
<1>5. DataLen(e) = g /\ DataLen(f) = g + d
  BY <1>3, <1>4
<1>6. Sound(f)
  <2>1. SubSeq(h, 1, Len(h)) = h
    BY SubSeqFull
  <2>3. Len(h) \in 1 .. Len(h)
    <3>1. len \in 1 .. len
      OBVIOUS
    <3> QED BY <1>1, <3>1
  <2>2. DataUpTo(g + d) = << >> \/ \E n \in Nat \ {0} : DataUpTo(g + d) = <<<<1, n>>>>
    BY DEF DataUpTo
  <2> QED BY <1>1, <1>3, <2>1, <2>2, <2>3 DEF Sound
<1>7. GrowsTo(e, f)
  <2>1. Len(h) <= Len(h)
    BY <1>1
  <2> QED BY <1>3, <1>5, <2>1 DEF GrowsTo
<1> QED BY <1>2, <1>3, <1>6, <1>7, LastGrows

(* A stream that is left as it is has not lost anything.                   *)
LEMMA SameGrows ==
  ASSUME NEW s \in Seq(Entries), AllSound(s)
  PROVE  Grows(s, s)
<1>1. Len(s) \in Nat
  BY LenProperties
<1> SUFFICES ASSUME NEW k \in 1 .. Len(s) PROVE GrowsTo(s[k], s[k])
  BY <1>1 DEF Grows
<1>2. s[k] \in Entries /\ Sound(s[k])
  BY ElementOfSeq DEF AllSound
<1>3. DataLen(s[k]) \in Nat /\ Len(s[k].head) \in 1 .. 10
  BY <1>2, SoundIs
<1> QED BY <1>3 DEF GrowsTo

(* What has grown twice has grown.                                         *)
LEMMA GrowsOn ==
  ASSUME NEW s \in Seq(Entries), NEW t \in Seq(Entries), NEW u \in Seq(Entries),
         AllSound(s), AllSound(t), AllSound(u), Grows(s, t), Grows(t, u)
  PROVE  Grows(s, u)
<1>1. PICK l \in Nat, m \in Nat, n \in Nat :
        l = Len(s) /\ m = Len(t) /\ n = Len(u) /\ l <= m /\ m <= n
  BY DEF Grows
<1>2. l <= n
  BY <1>1
<1> SUFFICES ASSUME NEW k \in 1 .. l PROVE GrowsTo(s[k], u[k])
  BY <1>1, <1>2 DEF Grows
<1>3. k \in 1 .. l /\ k \in 1 .. m /\ k \in 1 .. n
  BY <1>1
<1>4. s[k] \in Entries /\ t[k] \in Entries /\ u[k] \in Entries
  BY <1>1, <1>3, ElementOfSeq
<1>5. Sound(s[k]) /\ Sound(t[k]) /\ Sound(u[k])
  BY <1>1, <1>3 DEF AllSound
<1>6. /\ DataLen(s[k]) \in Nat /\ DataLen(t[k]) \in Nat /\ DataLen(u[k]) \in Nat
      /\ Len(s[k].head) \in 1 .. 10 /\ Len(t[k].head) \in 1 .. 10 /\ Len(u[k].head) \in 1 .. 10
  BY <1>4, <1>5, SoundIs, SMTT(30)
<1>7. GrowsTo(s[k], t[k]) /\ GrowsTo(t[k], u[k])
  BY <1>1, <1>3 DEF Grows
<1>8. PICK a \in 1 .. 10, b \in 1 .. 10, c \in 1 .. 10 :
        a = Len(s[k].head) /\ b = Len(t[k].head) /\ c = Len(u[k].head)
  BY <1>6, ZenonT(60)
<1>9. Len(s[k].head) <= Len(u[k].head)
  <2>1. a <= b
    BY <1>7, <1>8, Zenon DEF GrowsTo
  <2>2. b <= c
    BY <1>7, <1>8, Zenon DEF GrowsTo
  <2>3. a <= c
    BY <2>1, <2>2
  <2> QED BY <1>8, <2>3, Zenon
<1>10. DataLen(s[k]) <= DataLen(u[k])
  BY <1>6, <1>7 DEF GrowsTo
<1> QED BY <1>7, <1>9, <1>10 DEF GrowsTo

---------------------------------------------------------------------------
(* What the writer's stages and calls do to it.                            *)

(* write_object_buffer only adds to the stream.                            *)
LEMMA BufferGrows ==
  ASSUME NEW x, NEW o, current' = o, StateInv(x, o), x.mpack.status = "write_buffer",
         AllSound(x.stream), NEW done \in Nat, NEW y, y = BufferWritten(x, done)
  PROVE  AllSound(y.stream) /\ Grows(x.stream, y.stream)
<1>1. PICK m \in Contexts : m = x.mpack
  BY DEF StateInv, TypeInv
<1>2. PICK s \in Seq(Entries) : s = x.stream /\ InTurn(s) /\ AllSound(s)
  BY DEF StateInv, TypeInv
<1>3. /\ BufferInv(m, x.given, s, o) /\ o \in AllObjects /\ m.buffer_data = Built[o]
      /\ m.buffer_offset < Len(Built[o])
  BY <1>1, <1>2 DEF StateInv, TypeInv, PlaceInv, BufferInv
<1>4. PICK a \in Nat, len \in 1 .. 10 : a = m.buffer_offset /\ len = Len(Built[o])
  BY <1>3, BuiltIs DEF Contexts
<1>5. BufferRest(m) = len - a
  BY <1>3, <1>4 DEF BufferRest
<1>6. y.stream = s \/
      /\ done <= len - a
      /\ y.stream = PutHeader(s, m, SubSeq(m.buffer_data, m.buffer_offset + 1, m.buffer_offset + done))
  <2>1. CASE done > BufferRest(m)
    BY <1>1, <1>2, <2>1 DEF BufferWritten, Broken, State
  <2>2. CASE ~ (done > BufferRest(m))
    <3>1. PICK n : n = [m EXCEPT !.buffer_offset = @ + done]
      OBVIOUS
    <3>2. n.buffer_offset = m.buffer_offset + done
      BY <3>1 DEF Contexts
    <3>3. y.stream = PutHeader(s, m, SubSeq(m.buffer_data, m.buffer_offset + 1, n.buffer_offset))
      BY <1>1, <1>2, <2>2, <3>1 DEF BufferWritten, State
    <3>4. done <= len - a
      BY <1>5, <2>2
    <3> QED BY <3>2, <3>3, <3>4
  <2> QED BY <2>1, <2>2
<1>7. CASE y.stream = s
  BY <1>2, <1>7, SameGrows
<1>8. CASE y.stream # s
  <2>1. PICK t : t = y.stream
    OBVIOUS
  <2>2. /\ done <= len - a
        /\ t = PutHeader(s, m, SubSeq(m.buffer_data, m.buffer_offset + 1, m.buffer_offset + done))
    BY <1>6, <1>8, <2>1
  <2>3. done # 0
    <3> SUFFICES ASSUME done = 0 PROVE t = s
      BY <1>8, <2>1
    <3>1. SubSeq(m.buffer_data, m.buffer_offset + 1, m.buffer_offset + done) = << >>
      BY <1>4, SubSeqEmpty
    <3> QED BY <2>2, <3>1 DEF PutHeader
  <2>4. m.buffer_offset + done <= Len(Built[o]) /\ done \in Nat \ {0}
    BY <1>4, <2>2, <2>3
  <2>5. /\ t \in Seq(Entries) /\ SameBefore(s, t)
        /\ LastIs(t, o, SubSeq(Built[o], 1, m.buffer_offset + done), << >>)
        /\ m.buffer_offset = 0 => Len(t) = Len(s) + 1
    BY <1>2, <1>3, <2>2, <2>4, PutHeaderIs
  <2>6. PICK b \in Nat : b = a + done /\ a < b /\ b <= Len(Built[o])
    BY <1>4, <2>2, <2>3
  <2>7. LastIs(t, o, SubSeq(Built[o], 1, b), << >>)
    BY <1>4, <2>5, <2>6
  <2>8. a > 0 => LastIs(s, o, SubSeq(Built[o], 1, a), << >>)
    BY <1>3, <1>4 DEF BufferInv
  <2>9. AllSound(t) /\ Grows(s, t)
    BY <1>2, <1>3, <1>4, <2>5, <2>6, <2>7, <2>8, HeaderGrows
  <2> QED BY <1>2, <2>1, <2>9
<1> QED BY <1>7, <1>8

(* So does write_object_binary.                                            *)
LEMMA BinaryGrows ==
  ASSUME NEW x, NEW o, StateInv(x, o), AllSound(x.stream),
         NEW size, NEW done \in Nat, NEW y, y = BinaryWritten(x, size, done)
  PROVE  AllSound(y.stream) /\ Grows(x.stream, y.stream)
<1>1. PICK m \in Contexts : m = x.mpack /\ Within(m)
  BY DEF StateInv, TypeInv
<1>2. PICK s \in Seq(Entries) : s = x.stream /\ InTurn(s) /\ AllSound(s)
  BY DEF StateInv, TypeInv
<1>3. PICK g \in Nat : g = x.given
  BY DEF StateInv, TypeInv
<1>4. CASE m.status # "write_binary"
  <2>1. y.stream = s
    BY <1>1, <1>2, <1>4 DEF BinaryWritten, Refused, State
  <2> QED BY <1>2, <2>1, SameGrows
<1>5. CASE m.status = "write_binary"
  <2>1. /\ o \in AllObjects /\ LastIs(s, o, Built[o], DataUpTo(g))
    BY <1>1, <1>2, <1>3, <1>5 DEF StateInv, PlaceInv, BinaryInv
  <2>2. PICK t : t = PutData(s, g + 1, g + done)
    OBVIOUS
  <2>3. y.stream = s \/ y.stream = t
    <3>1. BinaryRest(m) \in Nat
      BY <1>1 DEF BinaryRest, Contexts, Within
    <3>2. CASE done > BinaryRest(m)
      BY <1>1, <1>2, <1>5, <3>2 DEF BinaryWritten, Broken, State
    <3>3. CASE done = BinaryRest(m)
      BY <1>1, <1>2, <1>3, <1>5, <2>2, <3>1, <3>3 DEF BinaryWritten, State
    <3>4. CASE done < BinaryRest(m)
      BY <1>1, <1>2, <1>3, <1>5, <2>2, <3>1, <3>4 DEF BinaryWritten, State
    <3> QED BY <3>1, <3>2, <3>3, <3>4
  <2>4. /\ t \in Seq(Entries) /\ SameBefore(s, t)
        /\ LastIs(t, o, Built[o], DataUpTo(g + done))
    BY <1>2, <2>1, <2>2, PutDataIs
  <2>5. AllSound(t) /\ Grows(s, t)
    BY <1>2, <2>1, <2>4, DataGrows
  <2> QED BY <1>2, <2>3, <2>5, SameGrows
<1> QED BY <1>4, <1>5

\* Of a state of the stages: what it has of the stream goes on from s.
Onwards(s, t) == AllSound(t) /\ Grows(s, t)

(* The same for the state that a call leaves behind.                       *)
LEMMA BecomesOnwards ==
  ASSUME NEW x, Becomes(x), Onwards(stream, x.stream)
  PROVE  Onwards(stream, stream')
BY DEF Becomes

(* And for the data that are written in the call that wrote the header.    *)
LEMMA ThenBinaryGrows ==
  ASSUME NEW x, NEW o, StateInv(x, o), NEW size \in Nat, ThenBinary(x, size),
         stream \in Seq(Entries), AllSound(stream), Onwards(stream, x.stream)
  PROVE  Onwards(stream, stream')
<1>1. x.mpack \in Contexts /\ Within(x.mpack) /\ x.stream \in Seq(Entries)
  BY DEF StateInv, TypeInv
<1>2. PICK done \in Taken(Asked(x.mpack, size), BinaryRest(x.mpack)) :
         Becomes(BinaryWritten(x, size, done))
  BY DEF ThenBinary
<1>3. done \in Nat
  BY <1>1, AskedIs, TakenIs
<1>4. PICK y : y = BinaryWritten(x, size, done)
  OBVIOUS
<1>5. StateInv(y, o)
  BY <1>3, <1>4, BinaryWrittenIs
<1>6. AllSound(y.stream) /\ Grows(x.stream, y.stream) /\ y.stream \in Seq(Entries)
  BY <1>3, <1>4, <1>5, BinaryGrows DEF Onwards, StateInv, TypeInv
<1>7. Onwards(stream, y.stream)
  BY <1>1, <1>6, GrowsOn DEF Onwards
<1> QED BY <1>2, <1>4, <1>7, BecomesOnwards

(* An object that is begun has nothing in the stream yet.                  *)
LEMMA BeginsGrows ==
  ASSUME WriteInv, AllSound(stream), NEW o, MayBegin(o), NEW x, x = Begun(Now, o)
  PROVE  /\ o \in AllObjects /\ o.size \in Nat
         /\ StateInv(x, o) /\ x.mpack.status = "write_buffer"
         /\ stream \in Seq(Entries) /\ x.stream = stream /\ Onwards(stream, stream)
<1>1. /\ o \in AllObjects /\ StateInv(x, o) /\ x.mpack.status = "write_buffer"
  BY MayBeginIs
<1>2. stream \in Seq(Entries) /\ o.size \in Nat
  BY <1>1, ObjectIs DEF WriteInv, TypeInv
<1>3. x.stream = stream
  BY DEF Begun, Now, State
<1> QED BY <1>1, <1>2, <1>3, SameGrows DEF Onwards

(* Whatever the writer does, what is in the stream stays there.            *)
LEMMA WritesGrow ==
  ASSUME WriteInv, AllSound(stream), [Next]_vars
  PROVE  Onwards(stream, stream')
<1>1. stream \in Seq(Entries) /\ Onwards(stream, stream)
  BY SameGrows DEF WriteInv, TypeInv, Onwards
<1>2. ASSUME stream' = stream
      PROVE  Onwards(stream, stream')
  BY <1>1, <1>2
<1>3. ASSUME NEW o, Build(o)
      PROVE  Onwards(stream, stream')
  <2>1. PICK x : x = Begun(Now, o)
    OBVIOUS
  <2>2. MayBegin(o) /\ Becomes(x)
    BY <1>3, <2>1 DEF Build
  <2>3. x.stream = stream
    BY <2>1, <2>2, BeginsGrows
  <2> QED BY <1>1, <2>2, <2>3, BecomesOnwards
<1>4. ASSUME NEW o, WriteWhole(o)
      PROVE  Onwards(stream, stream')
  <2>1. PICK x : x = Begun(Now, o)
    OBVIOUS
  <2>2. MayBegin(o) /\ current' = o
    BY <1>4 DEF WriteWhole
  <2>3. /\ StateInv(x, o) /\ x.mpack.status = "write_buffer" /\ x.stream = stream
    BY <2>1, <2>2, BeginsGrows
  <2>4. PICK done \in Taken(BufferRest(x.mpack), BufferRest(x.mpack)) :
           Becomes(BufferWritten(x, done))
    BY <1>4, <2>1 DEF WriteWhole
  <2>5. done \in Nat
    BY <2>3, RestIs, TakenIs
  <2>6. PICK y : y = BufferWritten(x, done)
    OBVIOUS
  <2>7. Onwards(stream, y.stream)
    BY <2>2, <2>3, <2>5, <2>6, BufferGrows DEF Onwards
  <2> QED BY <2>4, <2>6, <2>7, BecomesOnwards
<1>5. ASSUME NEW o, WriteParts(o)
      PROVE  Onwards(stream, stream')
  <2>1. PICK x : x = Begun(Now, o)
    OBVIOUS
  <2>2. MayBegin(o) /\ current' = o
    BY <1>5 DEF WriteParts
  <2>3. /\ StateInv(x, o) /\ x.mpack.status = "write_buffer" /\ x.stream = stream
        /\ o.size \in Nat
    BY <2>1, <2>2, BeginsGrows
  <2>4. PICK done \in Taken(BufferRest(x.mpack), BufferRest(x.mpack)) :
           IF BufferWritten(x, done).ret = "ok" THEN ThenBinary(BufferWritten(x, done), o.size)
                                                ELSE Becomes(BufferWritten(x, done))
    BY <1>5, <2>1 DEF WriteParts
  <2>5. done \in Nat
    BY <2>3, RestIs, TakenIs
  <2>6. PICK y : y = BufferWritten(x, done)
    OBVIOUS
  <2>7. Onwards(stream, y.stream)
    BY <2>2, <2>3, <2>5, <2>6, BufferGrows DEF Onwards
  <2>8. StateInv(y, o)
    BY <2>2, <2>3, <2>5, <2>6, BufferWrittenIs
  <2>9. ThenBinary(y, o.size) \/ Becomes(y)
    BY <2>4, <2>6
  <2> QED BY <1>1, <2>3, <2>7, <2>8, <2>9, ThenBinaryGrows, BecomesOnwards
<1>6. ASSUME NEW size \in Offers, WriteObject(size)
      PROVE  Onwards(stream, stream')
  <2>1. /\ current' = current /\ StateInv(Now, current) /\ Now.stream = stream
        /\ Now.mpack = mpack /\ mpack.status \in Statuses /\ given \in Nat
    BY <1>6, NowIs DEF WriteObject, Now, State, WriteInv, TypeInv, Contexts
  <2>2. size \in Nat \/ mpack.status \notin {"write_buffer", "write_binary"}
    <3>1. CASE mpack.status = "write_buffer"
      <4>1. current.size \in Nat /\ given = 0
        BY <3>1, ObjectIs DEF WriteInv, PlaceInv, BufferInv
      <4> QED BY <4>1 DEF Offers
    <3>2. CASE mpack.status = "write_binary"
      <4>1. current.size \in Nat /\ given < current.size
        BY <3>2, ObjectIs DEF WriteInv, PlaceInv, BinaryInv
      <4> QED BY <2>1, <4>1 DEF Offers
    <3> QED BY <3>1, <3>2
  <2>3. CASE mpack.status = "write_buffer"
    <3>1. PICK done \in Taken(BufferRest(mpack), BufferRest(mpack)) :
             IF /\ BufferWritten(Now, done).ret = "ok"
                /\ BufferWritten(Now, done).mpack.status = "write_binary"
             THEN ThenBinary(BufferWritten(Now, done), size)
             ELSE Becomes(BufferWritten(Now, done))
      BY <1>6, <2>3 DEF WriteObject
    <3>2. done \in Nat
      BY <2>1, RestIs, TakenIs
    <3>3. PICK y : y = BufferWritten(Now, done)
      OBVIOUS
    <3>4. StateInv(y, current)
      BY <2>1, <2>3, <3>2, <3>3, BufferWrittenIs
    <3>5. Onwards(stream, y.stream)
      BY <2>1, <2>3, <3>2, <3>3, BufferGrows DEF Onwards
    <3>6. ThenBinary(y, size) \/ Becomes(y)
      BY <3>1, <3>3
    <3> QED BY <1>1, <2>2, <2>3, <3>4, <3>5, <3>6, ThenBinaryGrows, BecomesOnwards
  <2>4. CASE mpack.status = "write_binary"
    <3>1. ThenBinary(Now, size)
      BY <1>6, <2>4 DEF WriteObject
    <3> QED BY <1>1, <2>1, <2>2, <2>4, <3>1, ThenBinaryGrows
  <2>5. CASE mpack.status \notin {"write_buffer", "write_binary"}
    <3>1. stream' = stream
      BY <1>6, <2>5 DEF WriteObject
    <3> QED BY <1>2, <3>1
  <2> QED BY <2>3, <2>4, <2>5
<1>7. ASSUME Refuse \/ Reset \/ UNCHANGED vars
      PROVE  Onwards(stream, stream')
  <2>1. stream' = stream
    BY <1>7 DEF Refuse, Reset, vars
  <2> QED BY <1>2, <2>1
<1> QED BY <1>3, <1>4, <1>5, <1>6, <1>7 DEF Next

---------------------------------------------------------------------------
(* What is put in the union.                                               *)

Memory == [1 .. 8 -> 0 .. 255]

(* The union has eight bytes.                                              *)
LEMMA MemoryIs ==
  ASSUME NEW u \in Memory
  PROVE  u \in Bytes /\ Len(u) = 8
<1>1. PICK n \in Nat : n = 8
  OBVIOUS
<1>2. u \in [1 .. n -> 0 .. 255]
  BY <1>1 DEF Memory
<1>3. u \in Seq(0 .. 255) /\ Len(u) = n
  BY <1>2
<1> QED BY <1>1, <1>3 DEF Bytes

(* What is put at the beginning of the union is there afterwards.          *)
LEMMA PutIs ==
  ASSUME NEW u \in Memory, NEW b \in Bytes, NEW n \in 0 .. 8, Len(b) = n
  PROVE  Put(u, b) \in Memory /\ SubSeq(Put(u, b), 1, n) = b
<1>1. PICK w : w = Put(u, b)
  OBVIOUS
<1>2. DOMAIN u = 1 .. 8 /\ \A i \in 1 .. 8 : u[i] \in 0 .. 255
  BY DEF Memory
<1>3. \A i \in 1 .. n : b[i] \in 0 .. 255
  BY ElementOfSeq DEF Bytes
<1>4. /\ w = [i \in 1 .. 8 |-> IF i \in 1 .. n THEN b[i] ELSE u[i]]
  <2>1. w = [i \in 1 .. 8 |-> IF i \in 0 + 1 .. 0 + n THEN b[i - 0] ELSE u[i]]
    BY <1>1, <1>2 DEF Put, PutAt
  <2>2. \A i \in 1 .. 8 : i - 0 = i
    OBVIOUS
  <2>3. 0 + 1 = 1 /\ 0 + n = n
    OBVIOUS
  <2> QED BY <2>1, <2>2, <2>3
<1>5. w \in Memory
  BY <1>2, <1>3, <1>4 DEF Memory
<1>6. w \in Seq(0 .. 255) /\ Len(w) = 8
  BY <1>5, MemoryIs DEF Bytes
<1>7. PICK x \in Seq(0 .. 255) : x = SubSeq(w, 1, n) /\ Len(x) = n /\ \A i \in 1 .. n : x[i] = w[i]
  <2>1. n \in 0 .. Len(w)
    BY <1>6
  <2>2. /\ SubSeq(w, 1, n) \in Seq(0 .. 255) /\ Len(SubSeq(w, 1, n)) = n
        /\ \A i \in 1 .. n : SubSeq(w, 1, n)[i] = w[i]
    BY <1>6, <2>1, FrontIs
  <2> QED BY <2>2
<1>8. \A i \in 1 .. n : x[i] = b[i]
  BY <1>4, <1>7
<1>9. x = b
  BY <1>7, <1>8, SeqEqual DEF Bytes
<1> QED BY <1>1, <1>5, <1>7, <1>9

(* Bytes that are swapped are the same in reverse.                         *)
LEMMA SwapIs ==
  ASSUME NEW w \in Bytes
  PROVE  /\ Swap(w) \in Bytes /\ Len(Swap(w)) = Len(w)
         /\ \A i \in 1 .. Len(w) : Swap(w)[i] = w[Len(w) + 1 - i]
<1>1. PICK n \in Nat : n = Len(w)
  BY LenProperties DEF Bytes
<1>2. PICK x : x = Swap(w)
  OBVIOUS
<1>3. x = [i \in 1 .. n |-> w[n - i + 1]]
  BY <1>1, <1>2 DEF Swap, Reverse
<1>4. \A i \in 1 .. n : n - i + 1 \in 1 .. n /\ n - i + 1 = n + 1 - i
  OBVIOUS
<1>5. \A i \in 1 .. n : w[i] \in 0 .. 255
  BY <1>1, ElementOfSeq DEF Bytes
<1>6. x \in [1 .. n -> 0 .. 255]
  BY <1>3, <1>4, <1>5
<1>7. x \in Seq(0 .. 255) /\ Len(x) = n
  BY <1>6
<1>8. \A i \in 1 .. n : x[i] = w[n + 1 - i]
  BY <1>3, <1>4
<1> QED BY <1>1, <1>2, <1>7, <1>8 DEF Bytes

(* Bytes with fill behind them.                                            *)
LEMMA FilledIs ==
  ASSUME NEW b \in Bytes, NEW n \in Nat, NEW fill \in 0 .. 255, Len(b) <= n
  PROVE  /\ Filled(b, n, fill) \in Bytes /\ Len(Filled(b, n, fill)) = n
         /\ \A i \in 1 .. n : Filled(b, n, fill)[i] = IF i <= Len(b) THEN b[i] ELSE fill
<1>1. PICK k \in Nat, l \in Nat : k = Len(b) /\ l = n - k /\ k + l = n
  BY LenProperties DEF Bytes
<1>2. PICK y : y = [i \in 1 .. l |-> fill]
  OBVIOUS
<1>3. y \in Seq(0 .. 255) /\ Len(y) = l
  <2>1. y \in [1 .. l -> 0 .. 255]
    BY <1>2
  <2> QED BY <2>1
<1>4. PICK x : x = b \o y
  OBVIOUS
<1>5. /\ x \in Seq(0 .. 255) /\ Len(x) = n
      /\ \A i \in 1 .. n : x[i] = IF i <= k THEN b[i] ELSE y[i - k]
  <2>1. b \in Seq(0 .. 255)
    BY DEF Bytes
  <2>2. /\ b \o y \in Seq(0 .. 255) /\ Len(b \o y) = Len(b) + Len(y)
        /\ \A i \in 1 .. Len(b) + Len(y) :
             (b \o y)[i] = IF i <= Len(b) THEN b[i] ELSE y[i - Len(b)]
    BY <1>3, <2>1, ConcatProperties, ZenonT(60)
  <2>3. Len(b) = k /\ Len(b) + Len(y) = n
    BY <1>1, <1>3
  <2> QED BY <1>4, <2>2, <2>3
<1>6. \A i \in 1 .. n : x[i] = IF i <= k THEN b[i] ELSE fill
  <2> SUFFICES ASSUME NEW i \in 1 .. n PROVE x[i] = IF i <= k THEN b[i] ELSE fill
    OBVIOUS
  <2>1. CASE i <= k
    BY <1>5, <2>1
  <2>2. CASE ~(i <= k)
    <3>1. i - k \in 1 .. l
      BY <1>1, <2>2
    <3> QED BY <1>2, <1>5, <2>2, <3>1
  <2> QED BY <2>1, <2>2
<1>7. x = Filled(b, n, fill)
  BY <1>1, <1>2, <1>4 DEF Filled
<1> QED BY <1>1, <1>5, <1>6, <1>7 DEF Bytes

---------------------------------------------------------------------------
(* Sizes.                                                                  *)

\* The four bytes of a size, the lowest first.
InMemory(n) == Reverse(BytesOf(n, 4))

\* They are a, b, c and d, the highest first.
SizeIs(n, a, b, c, d) ==
  /\ a = (n \div 16777216) % 256 /\ b = (n \div 65536) % 256
  /\ c = (n \div 256) % 256 /\ d = n % 256

(* A size in memory has its lowest byte first.                             *)
LEMMA InMemoryIs ==
  ASSUME NEW n \in Nat, NEW y, y = InMemory(n), NEW a, NEW b, NEW c, NEW d,
         SizeIs(n, a, b, c, d)
  PROVE  /\ y \in Bytes /\ Len(y) = 4
         /\ y[1] = d /\ y[2] = c /\ y[3] = b /\ y[4] = a
<1>1. PICK z \in Bytes : z = BytesOf(n, 4) /\ Len(z) = 4
  BY BytesOfIs
<1>2. \A i \in 1 .. 4 : z[i] = (n \div 256 ^ (4 - i)) % 256
  BY <1>1 DEF BytesOf
<1>3. z[4] = (n \div 256 ^ 0) % 256 /\ z[3] = (n \div 256 ^ 1) % 256
  BY <1>2
<1>4. z[2] = (n \div 256 ^ 2) % 256 /\ z[1] = (n \div 256 ^ 3) % 256
  BY <1>2
<1>5. 256 ^ 0 = 1 /\ 256 ^ 1 = 256 /\ 256 ^ 2 = 65536 /\ 256 ^ 3 = 16777216
  <2>1. 256 ^ 0 = 1 OBVIOUS
  <2>2. 256 ^ 1 = 256 OBVIOUS
  <2>3. 256 ^ 2 = 65536 OBVIOUS
  <2>4. 256 ^ 3 = 16777216 OBVIOUS
  <2> QED BY <2>1, <2>2, <2>3, <2>4
<1>6. n \div 1 = n
  OBVIOUS
<1>7. y = Swap(z)
  BY <1>1 DEF InMemory, Swap
<1>8. y \in Bytes /\ Len(y) = 4 /\ \A i \in 1 .. 4 : y[i] = z[4 + 1 - i]
  BY <1>1, <1>7, SwapIs
<1>9. y[1] = z[4] /\ y[2] = z[3] /\ y[3] = z[2] /\ y[4] = z[1]
  BY <1>8
<1>10. y[1] = d
  BY <1>3, <1>5, <1>6, <1>9 DEF SizeIs
<1>11. y[2] = c
  BY <1>3, <1>5, <1>9 DEF SizeIs
<1>12. y[3] = b
  BY <1>4, <1>5, <1>9 DEF SizeIs
<1>13. y[4] = a
  BY <1>4, <1>5, <1>9 DEF SizeIs
<1> QED BY <1>8, <1>10, <1>11, <1>12, <1>13

(* Four bytes are equal one by one.                                        *)
LEMMA FourEqual ==
  ASSUME NEW x \in Bytes, NEW y \in Bytes, Len(x) = 4, Len(y) = 4,
         x[1] = y[1], x[2] = y[2], x[3] = y[3], x[4] = y[4]
  PROVE  x = y
<1>1. \A i \in 1 .. 4 : x[i] = y[i]
  <2> SUFFICES ASSUME NEW i \in 1 .. 4 PROVE x[i] = y[i]
    OBVIOUS
  <2>1. i = 1 \/ i = 2 \/ i = 3 \/ i = 4
    OBVIOUS
  <2> QED BY <2>1
<1> QED BY <1>1, SeqEqual DEF Bytes

(* A size that comes in fewer than four bytes has zeros above them.        *)
LEMMA SizeFilled ==
  ASSUME NEW b \in Bytes, Len(b) <= 4
  PROVE  /\ Filled(b, 4, 0) \in Bytes /\ Len(Filled(b, 4, 0)) = 4
         /\ \A i \in 1 .. 4 : Filled(b, 4, 0)[i] = IF i <= Len(b) THEN b[i] ELSE 0
<1>1. PICK n \in Nat, fill \in 0 .. 255 : n = 4 /\ fill = 0
  OBVIOUS
<1>2. /\ Filled(b, n, fill) \in Bytes /\ Len(Filled(b, n, fill)) = n
      /\ \A i \in 1 .. n : Filled(b, n, fill)[i] = IF i <= Len(b) THEN b[i] ELSE fill
  <2>1. Len(b) <= n
    BY <1>1
  <2> QED BY <2>1, FilledIs
<1> QED BY <1>1, <1>2

\* The size some bytes stand for, in the order of the memory.
LEMMA SizeInMemoryIs ==
  ASSUME NEW w \in Bytes, Len(w) \in {1, 2, 4}
  PROVE  SizeInMemory(w) = InMemory(NatOf(w)) /\ NatOf(w) \in Nat
<1>1. PICK x : x = SizeInMemory(w)
  OBVIOUS
<1>2. PICK n \in {1, 2, 4} : n = Len(w)
  OBVIOUS
<1>3. PICK r \in Bytes : r = Swap(w) /\ Len(r) = n /\ \A i \in 1 .. n : r[i] = w[n + 1 - i]
  BY <1>2, SwapIs
<1>9. \A i \in 1 .. n : w[i] \in 0 .. 255
  BY <1>2, ElementOfSeq DEF Bytes
<1>4. /\ x \in Bytes /\ Len(x) = 4
      /\ \A i \in 1 .. 4 : x[i] = IF i <= n THEN r[i] ELSE 0
  <2>1. x = Filled(r, 4, 0)
    BY <1>1, <1>3 DEF SizeInMemory
  <2>2. Len(r) <= 4
    <3>1. n <= 4
      OBVIOUS
    <3> QED BY <1>3, <3>1
  <2> QED BY <1>3, <2>1, <2>2, SizeFilled
<1>5. x[1] = w[n] /\ w[n] \in 0 .. 255
  <2>1. n \in 1 .. n /\ 1 \in 1 .. n /\ 1 \in 1 .. 4 /\ n + 1 - 1 = n /\ 1 <= n
    BY <1>2
  <2> QED BY <1>3, <1>4, <1>9, <2>1
<1>6. CASE n = 1
  <2>1. x[2] = 0 /\ x[3] = 0 /\ x[4] = 0
    BY <1>4, <1>6
  <2>2. PICK m \in 0 .. 255 : m = NatOf(w) /\ m = w[1]
    BY <1>2, <1>5, <1>6, Sum1
  <2>3. m % 256 = m /\ (m \div 256) % 256 = 0 /\ (m \div 65536) % 256 = 0
        /\ (m \div 16777216) % 256 = 0
    OBVIOUS
  <2>4. PICK y : y = InMemory(m)
    OBVIOUS
  <2>6. PICK o : o = 0
    OBVIOUS
  <2>7. SizeIs(m, o, o, o, m)
    BY <2>3, <2>6 DEF SizeIs
  <2>8. y \in Bytes /\ Len(y) = 4 /\ y[1] = m /\ y[2] = o /\ y[3] = o /\ y[4] = o
    BY <2>4, <2>7, InMemoryIs
  <2>5. x = y
    BY <1>4, <1>5, <1>6, <2>1, <2>2, <2>6, <2>8, FourEqual
  <2> QED BY <1>1, <2>2, <2>4, <2>5
<1>7. CASE n = 2
  <2>1. x[2] = w[1] /\ x[3] = 0 /\ x[4] = 0
    BY <1>3, <1>4, <1>7
  <2>2. PICK a \in 0 .. 255, b \in 0 .. 255 : a = w[1] /\ b = w[2]
    <3>1. w[1] \in 0 .. 255
      BY <1>7, <1>9
    <3>2. w[2] \in 0 .. 255
      BY <1>7, <1>9
    <3> QED BY <3>1, <3>2, Zenon
  <2>3. PICK m \in Nat : m = NatOf(w) /\ m = a * 256 + b
    <3>1. NatOf(w) = w[1] * 256 + w[2]
      BY <1>2, <1>7, Sum2
    <3>2. a * 256 + b \in Nat
      OBVIOUS
    <3> QED BY <2>2, <3>1, <3>2
  <2>4. m % 256 = b /\ (m \div 256) % 256 = a
    BY <2>3
  <2>5. (m \div 65536) % 256 = 0 /\ (m \div 16777216) % 256 = 0
    BY <2>3
  <2>6. PICK y : y = InMemory(m)
    OBVIOUS
  <2>8. PICK o : o = 0
    OBVIOUS
  <2>9. SizeIs(m, o, o, a, b)
    BY <2>4, <2>5, <2>8 DEF SizeIs
  <2>10. y \in Bytes /\ Len(y) = 4 /\ y[1] = b /\ y[2] = a /\ y[3] = o /\ y[4] = o
    BY <2>6, <2>9, InMemoryIs
  <2>7. x = y
    BY <1>4, <1>5, <1>7, <2>1, <2>2, <2>8, <2>10, FourEqual
  <2> QED BY <1>1, <2>3, <2>6, <2>7
<1>8. CASE n = 4
  <2>1. x[2] = w[3] /\ x[3] = w[2] /\ x[4] = w[1]
    BY <1>3, <1>4, <1>8
  <2>2. PICK a \in 0 .. 255, b \in 0 .. 255, c \in 0 .. 255, d \in 0 .. 255 :
          a = w[1] /\ b = w[2] /\ c = w[3] /\ d = w[4]
    <3>1. w[1] \in 0 .. 255 /\ w[2] \in 0 .. 255
      BY <1>8, <1>9
    <3>2. w[3] \in 0 .. 255 /\ w[4] \in 0 .. 255
      BY <1>8, <1>9
    <3> QED BY <3>1, <3>2, Zenon
  <2>3. PICK m \in Nat : m = NatOf(w) /\ m = ((a * 256 + b) * 256 + c) * 256 + d
    <3>1. NatOf(w) = ((w[1] * 256 + w[2]) * 256 + w[3]) * 256 + w[4]
      BY <1>2, <1>8, Sum4, ZenonT(60)
    <3>2. ((a * 256 + b) * 256 + c) * 256 + d \in Nat
      OBVIOUS
    <3> QED BY <2>2, <3>1, <3>2
  <2>4. m % 256 = d /\ (m \div 256) = (a * 256 + b) * 256 + c
    BY <2>3
  <2>5. (m \div 256) % 256 = c /\ (m \div 65536) = a * 256 + b
    BY <2>3, <2>4
  <2>6. (m \div 65536) % 256 = b /\ (m \div 16777216) % 256 = a
    BY <2>3, <2>5
  <2>7. PICK y : y = InMemory(m)
    OBVIOUS
  <2>10. SizeIs(m, a, b, c, d)
    BY <2>4, <2>5, <2>6 DEF SizeIs
  <2>9. y \in Bytes /\ Len(y) = 4 /\ y[1] = d /\ y[2] = c /\ y[3] = b /\ y[4] = a
    BY <2>7, <2>10, InMemoryIs
  <2>8. x = y
    BY <1>4, <1>5, <1>8, <2>1, <2>2, <2>9, FourEqual
  <2> QED BY <1>1, <2>3, <2>7, <2>8
<1> QED BY <1>6, <1>7, <1>8

(* One byte is a number, and its own reverse.                              *)
LEMMA OneByte ==
  ASSUME NEW n \in 0 .. 255
  PROVE  /\ <<n>> \in Bytes /\ Len(<<n>>) = 1 /\ <<n>>[1] = n
         /\ Swap(<<n>>) = <<n>>
<1>1. <<n>> \in Bytes /\ Len(<<n>>) = 1 /\ <<n>>[1] = n
  BY DEF Bytes
<1>2. PICK w \in Bytes : w = <<n>>
  BY <1>1
<1>3. PICK x \in Bytes : x = Swap(w) /\ Len(x) = 1 /\ \A i \in 1 .. 1 : x[i] = w[1 + 1 - i]
  BY <1>1, <1>2, SwapIs
<1>4. x[1] = w[1]
  BY <1>3
<1>5. \A i \in 1 .. 1 : x[i] = w[i]
  BY <1>4
<1>6. x = w
  BY <1>1, <1>2, <1>3, <1>5, SeqEqual DEF Bytes
<1> QED BY <1>1, <1>2, <1>3, <1>6

\* A size that is a part of the format.
LEMMA FixInMemory ==
  ASSUME NEW n \in 0 .. 255
  PROVE  Filled(<<n>>, 4, 0) = InMemory(n)
<1>1. PICK w \in Bytes : w = <<n>> /\ Len(w) = 1 /\ w[1] = n /\ Swap(w) = w
  BY OneByte
<1>2. NatOf(w) = n
  BY <1>1, Sum1
<1>3. SizeInMemory(w) = InMemory(n)
  BY <1>1, <1>2, SizeInMemoryIs
<1> QED BY <1>1, <1>3 DEF SizeInMemory

---------------------------------------------------------------------------
(* Numbers.                                                                *)

\* The number an object has in its union, as an extended one.
ValueOf(object) ==
  [i \in 1 .. 9 |-> IF i = 1 THEN IF object.type = "int" THEN SignFill(object.memory[8]) ELSE 0
                             ELSE object.memory[10 - i]]

SignOf(type, b) == IF type = "int" THEN SignFill(b) ELSE 0

(* What a sign is filled with is the sign of a byte, all zeros or all      *)
(* ones.                                                                   *)
LEMMA SignIs ==
  ASSUME NEW b \in 0 .. 255
  PROVE  /\ SignFill(b) \in 0 .. 255 /\ SignFill(SignFill(b)) = SignFill(b)
         /\ SignFill(b) \in {0, 255}
BY DEF SignFill

\* Bytes are put at the low end of the union and the sign in the rest.
LEMMA NumberHeldIs ==
  ASSUME NEW u \in Memory, NEW w \in Bytes, Len(w) \in 1 .. 8,
         NEW type \in {"int", "uint"}, NEW fill, fill = SignOf(type, w[1]),
         NEW v, v = Put(u, Filled(Swap(w), 8, fill))
  PROVE  v \in Memory /\ ValueOf(Object(type, v)) = Number(fill, w).value
<1>17. PICK k \in 1 .. 8 : k = Len(w)
  OBVIOUS
<1>1. \A i \in 1 .. k : w[i] \in 0 .. 255
  BY <1>17, ElementOfSeq DEF Bytes
<1>2. fill \in 0 .. 255 /\ SignOf(type, fill) = fill
  <2>1. w[1] \in 0 .. 255
    BY <1>1, SMTT(30)
  <2>2. CASE type = "int"
    BY <2>1, <2>2, SignIs, ZenonT(60) DEF SignOf
  <2>3. CASE type # "int"
    BY <2>3 DEF SignOf
  <2> QED BY <2>2, <2>3
<1>3. PICK r \in Bytes : r = Swap(w) /\ Len(r) = k /\ \A i \in 1 .. k : r[i] = w[k + 1 - i]
  <2>1. Swap(w) \in Bytes /\ Len(Swap(w)) = k /\ \A i \in 1 .. k : Swap(w)[i] = w[k + 1 - i]
    BY <1>17, SwapIs
  <2> QED BY <2>1
<1>4. PICK e \in Nat : e = 8
  OBVIOUS
<1>5. PICK b \in Bytes : /\ b = Filled(r, 8, fill) /\ Len(b) = 8
                         /\ \A i \in 1 .. 8 : b[i] = IF i <= k THEN r[i] ELSE fill
  <2>3. PICK f \in 0 .. 255 : f = fill
    BY <1>2
  <2>2. /\ Filled(r, e, f) \in Bytes /\ Len(Filled(r, e, f)) = e
        /\ \A i \in 1 .. e : Filled(r, e, f)[i] = IF i <= Len(r) THEN r[i] ELSE f
    <3>1. Len(r) <= e
      BY <1>3, <1>4
    <3> QED BY <3>1, FilledIs
  <2> QED BY <1>3, <1>4, <2>2, <2>3
<1>6. v = Put(u, b)
  BY <1>3, <1>5
<1>7. v \in Memory /\ v = b
  <2>1. e \in 0 .. 8 /\ Len(b) = e
    BY <1>4, <1>5
  <2>2. Put(u, b) \in Memory /\ SubSeq(Put(u, b), 1, e) = b
    BY <2>1, PutIs
  <2>3. v \in Seq(0 .. 255) /\ Len(v) = e
    BY <1>4, <1>6, <2>2, MemoryIs DEF Bytes
  <2>4. SubSeq(v, 1, Len(v)) = v
    BY <2>3, SubSeqFull
  <2> QED BY <1>6, <2>2, <2>3, <2>4
<1>8. \A i \in 1 .. k : v[i] = w[k + 1 - i]
  <2> SUFFICES ASSUME NEW i \in 1 .. k PROVE v[i] = w[k + 1 - i]
    OBVIOUS
  <2>1. i \in 1 .. 8 /\ i <= k
    OBVIOUS
  <2> QED BY <1>3, <1>5, <1>7, <2>1
<1>9. \A i \in k + 1 .. 8 : v[i] = fill
  BY <1>5, <1>7
<1>10. SignOf(type, v[8]) = fill
  <2>1. CASE k = 8
    <3>1. 8 \in 1 .. k /\ k + 1 - 8 = 1
      BY <2>1
    <3>2. v[8] = w[1]
      BY <1>8, <3>1
    <3> QED BY <3>2
  <2>2. CASE k # 8
    <3>1. 8 \in k + 1 .. 8
      BY <2>2
    <3> QED BY <1>2, <1>9, <3>1
  <2> QED BY <2>1, <2>2
<1>11. PICK n \in 1 .. 8 : n = 9 - k
  OBVIOUS
<1>12. Number(fill, w).value = Behind(n, fill, w)
  <2>1. Len(w) = 9 - n
    BY <1>11, <1>17
  <2>2. Number(fill, w) = Obj("number", Behind(n, fill, w), 0, 0)
    BY <2>1, NumberIs
  <2> QED BY <2>2 DEF Obj
<1>13. PICK x : x = ValueOf(Object(type, v))
  OBVIOUS
<1>14. x = [i \in 1 .. 9 |-> IF i = 1 THEN SignOf(type, v[8]) ELSE v[10 - i]]
  BY <1>13 DEF ValueOf, Object, SignOf
<1>15. \A i \in 1 .. 9 : x[i] = IF i <= n THEN fill ELSE w[i - n]
  <2> SUFFICES ASSUME NEW i \in 1 .. 9 PROVE x[i] = IF i <= n THEN fill ELSE w[i - n]
    OBVIOUS
  <2>1. CASE i = 1
    BY <1>10, <1>14, <2>1
  <2>2. CASE i # 1 /\ i <= n
    <3>1. 10 - i \in k + 1 .. 8
      BY <1>11, <2>2
    <3> QED BY <1>9, <1>14, <2>2, <3>1
  <2>3. CASE ~ (i <= n)
    <3>1. 10 - i \in 1 .. k /\ k + 1 - (10 - i) = i - n /\ i # 1
      BY <1>11, <2>3
    <3> QED BY <1>8, <1>14, <2>3, <3>1
  <2> QED BY <2>1, <2>2, <2>3
<1>16. x = Behind(n, fill, w)
  BY <1>14, <1>15 DEF Behind
<1> QED BY <1>7, <1>12, <1>13, <1>16

---------------------------------------------------------------------------
(* What the context holds of an object that was read.                      *)

Types == {"no", "nil", "bool", "int", "uint", "float", "double", "str", "bin", "ext", "array",
          "map"}

Held == [type : Types, memory : Memory]

Readers ==
  [status : {"receive_format", "receive_number", "xchange_object"},
   object : Held, format : 0 .. 255, number : Bytes,
   number_need : 0 .. 10, binary_need : 0 .. 16, binary_read : Nat]

(* An object in the context has a type and the union.                      *)
LEMMA HeldIs ==
  /\ \A type \in Types, v \in Memory : Object(type, v) \in Held
  /\ \A type, v : Object(type, v).type = type /\ Object(type, v).memory = v
  /\ \A x \in Held : x.type \in Types /\ x.memory \in Memory
BY DEF Object, Held

NumberHeld(x, o) == x.type \in {"int", "uint"} /\ Meaning(o).value = ValueOf(x)

\* need is how many bytes of data the context is to receive.
ValueHeld(x, need, o) ==
  /\ x.type = TypeOf[o.kind]
  /\ IF IsFixext(o) THEN x.memory[5] = o.type /\ need = o.size
                    ELSE SubSeq(x.memory, 1, ValueSize[TypeOf[o.kind]]) = Expected(o)

Holds(x, need, o) ==
  IF o.kind \in {"int", "uint"} THEN NumberHeld(x, o) ELSE ValueHeld(x, need, o)

(* What a header means is the object itself, or of an integer its number.  *)
LEMMA KindsAre ==
  ASSUME NEW o \in ObjectSet
  PROVE  /\ o.kind \in {"int", "uint"} => Meaning(o).kind = "number"
         /\ o.kind \notin {"int", "uint"} => Meaning(o) = o
         /\ o.kind \in Kinds /\ o.kind # "number" /\ o.kind # "none"
BY DEF Meaning, Number, Obj, Kinds, ObjectSet

---------------------------------------------------------------------------
(* Each way to put an object into the union holds it.                      *)

\* What is meant by something that is no number is the object itself.
LEMMA MeantIs ==
  ASSUME NEW o \in ObjectSet, NEW kind, NEW value, NEW n, NEW type,
         Meaning(o) = Obj(kind, value, n, type), kind # "number"
  PROVE  /\ o.kind \notin {"int", "uint"}
         /\ o.kind = kind /\ o.value = value /\ o.size = n /\ o.type = type
<1>1. Meaning(o).kind = kind
  BY DEF Obj
<1>2. o.kind \notin {"int", "uint"} /\ o = Meaning(o)
  BY <1>1, KindsAre
<1> QED BY <1>2 DEF Obj

(* A size in the union holds a str, a bin, an array or a map.              *)
LEMMA SizeHolds ==
  ASSUME NEW o \in ObjectSet, NEW kind \in {"str", "bin", "array", "map"}, NEW n,
         Meaning(o) = Sized(kind, n), NEW u \in Memory, NEW need
  PROVE  Put(u, InMemory(n)) \in Memory /\ Holds(Object(kind, Put(u, InMemory(n))), need, o)
<1>1. o.kind = kind /\ o.size = n /\ o.kind \notin {"int", "uint"}
  BY MeantIs DEF Sized
<1>2. n \in Nat
  BY <1>1 DEF ObjectSet
<1>3. PICK b \in Bytes : b = InMemory(n) /\ Len(b) = 4
  <2>1. PICK y, a1, a2, a3, a4 : /\ y = InMemory(n)
          /\ a1 = (n \div 16777216) % 256 /\ a2 = (n \div 65536) % 256
          /\ a3 = (n \div 256) % 256 /\ a4 = n % 256
    OBVIOUS
  <2>2. SizeIs(n, a1, a2, a3, a4)
    BY <2>1 DEF SizeIs
  <2>3. y \in Bytes /\ Len(y) = 4
    BY <1>2, <2>1, <2>2, InMemoryIs
  <2> QED BY <2>1, <2>3
<1>4. PICK v : v = Put(u, b)
  OBVIOUS
<1>5. v \in Memory /\ SubSeq(v, 1, 4) = b
  <2>1. PICK k \in 0 .. 8 : k = 4
    OBVIOUS
  <2>2. v \in Memory /\ SubSeq(v, 1, k) = b
    BY <1>3, <1>4, <2>1, PutIs
  <2> QED BY <2>1, <2>2
<1>6. /\ TypeOf[kind] = kind /\ ValueSize[kind] = 4 /\ ~IsFixext(o)
  BY <1>1 DEF TypeOf, ValueSize, IsFixext
<1>7. Expected(o) = b
  BY <1>1, <1>3 DEF Expected, SizeBytes, InMemory
<1>8. ValueHeld(Object(kind, v), need, o)
  BY <1>1, <1>5, <1>6, <1>7 DEF ValueHeld, Object
<1> QED BY <1>1, <1>3, <1>4, <1>5, <1>8 DEF Holds

(* The bytes of a float or a double, swapped, hold it.                     *)
LEMMA FloatHolds ==
  ASSUME NEW o \in ObjectSet, NEW kind, NEW w \in Bytes, NEW k, NEW u \in Memory, NEW need,
         Meaning(o) = Obj(kind, w, 0, 0), Len(w) = k,
         \/ kind = "float32" /\ k = 4
         \/ kind = "float64" /\ k = 8
  PROVE  /\ Put(u, Swap(w)) \in Memory
         /\ Holds(Object(IF kind = "float32" THEN "float" ELSE "double", Put(u, Swap(w))), need, o)
<1>1. o.kind = kind /\ o.value = w /\ o.kind \notin {"int", "uint"}
  BY MeantIs
<1>2. PICK b \in Bytes : b = Swap(w) /\ Len(b) = k
  BY SwapIs
<1>3. PICK v : v = Put(u, b)
  OBVIOUS
<1>4. v \in Memory /\ SubSeq(v, 1, k) = b
  <2>1. k \in 0 .. 8
    OBVIOUS
  <2> QED BY <1>2, <1>3, <2>1, PutIs
<1>5. PICK type : type = IF kind = "float32" THEN "float" ELSE "double"
  OBVIOUS
<1>6. TypeOf[kind] = type /\ ValueSize[type] = k /\ ~IsFixext(o)
  BY <1>1, <1>5 DEF TypeOf, ValueSize, IsFixext
<1>7. Expected(o) = b
  BY <1>1, <1>2 DEF Expected, Swap
<1>8. ValueHeld(Object(type, v), need, o)
  BY <1>1, <1>4, <1>6, <1>7 DEF ValueHeld, Object
<1> QED BY <1>1, <1>2, <1>3, <1>4, <1>5, <1>8 DEF Holds

(* Nil, false and true are held by their type and a byte at most.          *)
LEMMA SingleHolds ==
  ASSUME NEW o \in ObjectSet, NEW kind, Meaning(o) = Sized(kind, 0), NEW u \in Memory, NEW need,
         NEW type, NEW put,
         \/ kind = "nil" /\ type = "nil" /\ put = << >>
         \/ kind = "false" /\ type = "bool" /\ put = << 0 >>
         \/ kind = "true" /\ type = "bool" /\ put = << 1 >>
  PROVE  Put(u, put) \in Memory /\ Holds(Object(type, Put(u, put)), need, o)
<1>1. o.kind = kind /\ o.kind \notin {"int", "uint"}
  BY MeantIs DEF Sized
<1>2. PICK k \in 0 .. 8 : k = Len(put) /\ k = ValueSize[type]
  BY DEF ValueSize
<1>3. put \in Bytes
  <2>1. << >> \in Bytes
    BY EmptySeq DEF Bytes
  <2>2. <<0>> \in Bytes /\ <<1>> \in Bytes
    BY DEF Bytes
  <2> QED BY <2>1, <2>2, Zenon
<1>4. PICK v : v = Put(u, put)
  OBVIOUS
<1>5. v \in Memory /\ SubSeq(v, 1, k) = put
  BY <1>2, <1>3, <1>4, PutIs
<1>6. TypeOf[kind] = type /\ ~IsFixext(o)
  BY <1>1 DEF TypeOf, IsFixext
<1>7. Expected(o) = put
  BY <1>1 DEF Expected
<1>8. ValueHeld(Object(type, v), need, o)
  BY <1>1, <1>2, <1>5, <1>6, <1>7 DEF ValueHeld, Object
<1> QED BY <1>1, <1>4, <1>5, <1>8 DEF Holds

(* The bytes of an integer, swapped and filled with its sign, hold it.     *)
LEMMA NumberHolds ==
  ASSUME NEW o \in ObjectSet, NEW u \in Memory, NEW need, NEW w \in Bytes, Len(w) \in 1 .. 8,
         NEW type \in {"int", "uint"}, NEW fill, fill = SignOf(type, w[1]),
         Meaning(o) = Number(fill, w), NEW v, v = Put(u, Filled(Swap(w), 8, fill))
  PROVE  v \in Memory /\ Holds(Object(type, v), need, o)
<1>1. v \in Memory /\ ValueOf(Object(type, v)) = Number(fill, w).value
  BY NumberHeldIs
<1>2. Meaning(o).kind = "number"
  BY DEF Number, Obj
<1>3. o.kind \in {"int", "uint"}
  BY <1>2, KindsAre
<1> QED BY <1>1, <1>3 DEF Holds, NumberHeld, Object

\* The size and behind it the type.
LEMMA ExtHolds ==
  ASSUME NEW o \in ObjectSet, ~IsFixext(o), NEW w \in Bytes, NEW k \in {2, 3, 5}, Len(w) = k,
         Meaning(o) = SizeAndType(w), NEW u \in Memory, NEW need,
         NEW v, v = Put(u, ExtInMemory(w))
  PROVE  v \in Memory /\ Holds(Object("ext", v), need, o)
<1>1. PICK f \in Bytes : f = Front(w) /\ f = SubSeq(w, 1, Len(w) - 1) /\ Len(f) \in {1, 2, 4}
  <2>1. k - 1 \in 0 .. Len(w) /\ k - 1 \in {1, 2, 4}
    OBVIOUS
  <2>2. PICK h \in Seq(0 .. 255) : h = w
    BY DEF Bytes
  <2>3. SubSeq(h, 1, k - 1) \in Seq(0 .. 255) /\ Len(SubSeq(h, 1, k - 1)) = k - 1
    BY <2>1, <2>2, FrontIs
  <2> QED BY <2>1, <2>2, <2>3 DEF Front, Bytes
<1>2. PICK type \in 0 .. 255 : type = w[Len(w)] /\ type = Last(w)
  <2>1. k \in 1 .. Len(w)
    OBVIOUS
  <2>2. w[k] \in 0 .. 255
    BY <2>1, ElementOfSeq DEF Bytes
  <2> QED BY <2>2 DEF Last
<1>3. PICK n \in Nat : n = NatOf(f) /\ SizeInMemory(f) = InMemory(n)
  BY <1>1, SizeInMemoryIs
<1>4. Meaning(o) = Ext(n, type)
  BY <1>1, <1>2, <1>3 DEF SizeAndType
<1>5. o.kind = "ext" /\ o.size = n /\ o.type = type /\ o.kind \notin {"int", "uint"}
  BY <1>4, MeantIs DEF Ext
<1>6. PICK b \in Bytes : b = InMemory(n) /\ Len(b) = 4
  <2>1. PICK y, a1, a2, a3, a4 : /\ y = InMemory(n)
          /\ a1 = (n \div 16777216) % 256 /\ a2 = (n \div 65536) % 256
          /\ a3 = (n \div 256) % 256 /\ a4 = n % 256
    OBVIOUS
  <2>2. SizeIs(n, a1, a2, a3, a4)
    BY <2>1 DEF SizeIs
  <2>3. y \in Bytes /\ Len(y) = 4
    BY <2>1, <2>2, InMemoryIs
  <2> QED BY <2>1, <2>3
<1>7. PICK x \in Bytes : x = b \o <<type>> /\ Len(x) = 5
  <2>1. <<type>> \in Bytes /\ Len(<<type>>) = 1
    BY DEF Bytes
  <2>2. PICK p \in Seq(0 .. 255), q \in Seq(0 .. 255) : p = b /\ q = <<type>>
    BY <2>1 DEF Bytes
  <2>3. p \o q \in Seq(0 .. 255) /\ Len(p \o q) = Len(p) + Len(q)
    BY ConcatProperties
  <2>5. Len(p) = 4 /\ Len(q) = 1
    BY <1>6, <2>1, <2>2, Zenon
  <2>4. Len(p) + Len(q) = 5
    BY <2>5
  <2> QED BY <2>2, <2>3, <2>4 DEF Bytes
<1>8. v = Put(u, x)
  BY <1>1, <1>2, <1>3, <1>6, <1>7 DEF ExtInMemory
<1>9. v \in Memory /\ SubSeq(v, 1, 5) = x
  <2>1. PICK m \in 0 .. 8 : m = 5
    OBVIOUS
  <2>2. Len(x) = m
    BY <1>7, <2>1
  <2>3. Put(u, x) \in Memory /\ SubSeq(Put(u, x), 1, m) = x
    BY <2>2, PutIs
  <2> QED BY <1>8, <2>1, <2>3
<1>10. TypeOf["ext"] = "ext" /\ ValueSize["ext"] = 5
  BY DEF TypeOf, ValueSize
<1>11. Expected(o) = x
  BY <1>5, <1>6, <1>7 DEF Expected, SizeBytes, InMemory
<1>12. ValueHeld(Object("ext", v), need, o)
  BY <1>5, <1>9, <1>10, <1>11 DEF ValueHeld, Object
<1> QED BY <1>5, <1>9, <1>12 DEF Holds

\* The type where it always is, and the size as what is needed.
LEMMA FixextHolds ==
  ASSUME NEW o \in ObjectSet, IsFixext(o), NEW w \in Bytes, Len(w) = 1, NEW n,
         Meaning(o) = Ext(n, w[1]), NEW u \in Memory, NEW v, v = PutAt(u, 4, w)
  PROVE  v \in Memory /\ Holds(Object("ext", v), n, o)
<1>1. o.kind = "ext" /\ o.size = n /\ o.type = w[1] /\ o.kind \notin {"int", "uint"}
  BY MeantIs DEF Ext
<1>2. DOMAIN u = 1 .. 8 /\ \A i \in 1 .. 8 : u[i] \in 0 .. 255
  BY DEF Memory
<1>3. w[1] \in 0 .. 255
  <2>1. 1 \in 1 .. Len(w)
    OBVIOUS
  <2> QED BY <2>1, ElementOfSeq DEF Bytes
<1>4. v = [i \in 1 .. 8 |-> IF i = 5 THEN w[1] ELSE u[i]]
  <2>1. v = [i \in 1 .. 8 |-> IF i \in 4 + 1 .. 4 + 1 THEN w[i - 4] ELSE u[i]]
    BY <1>2 DEF PutAt
  <2>2. \A i \in 1 .. 8 : (i \in 4 + 1 .. 4 + 1) = (i = 5) /\ (i = 5 => i - 4 = 1)
    OBVIOUS
  <2> QED BY <2>1, <2>2
<1>5. v \in Memory /\ v[5] = w[1]
  BY <1>2, <1>3, <1>4 DEF Memory
<1>6. ValueHeld(Object("ext", v), n, o)
  BY <1>1, <1>5 DEF ValueHeld, Object, TypeOf
<1> QED BY <1>1, <1>5, <1>6 DEF Holds

---------------------------------------------------------------------------
(* The reader's table of formats, row by row.                              *)

(* The rows of the formats that are the whole object.                      *)
LEMMA WholeFormatsAre ==
  ASSUME NEW f \in (0 .. 195 \cup 224 .. 255) \ {193}
  PROVE  /\ f \in 0 .. 127 \cup 224 .. 255 => WholeFormats[f] = FixNumber(f)
         /\ f \in 128 .. 143 => WholeFormats[f] = FixSize("map", f, 16)
         /\ f \in 144 .. 159 => WholeFormats[f] = FixSize("array", f, 16)
         /\ f \in 160 .. 191 => WholeFormats[f] = FixSize("str", f, 32)
         /\ f = 192 => WholeFormats[f] = [type |-> "nil", put |-> << >>]
         /\ f = 194 => WholeFormats[f] = [type |-> "bool", put |-> <<0>>]
         /\ f = 195 => WholeFormats[f] = [type |-> "bool", put |-> <<1>>]
<1>1. f \in 0 .. 127 \cup 224 .. 255 => WholeFormats[f] = FixNumber(f)
  <2> SUFFICES ASSUME f \in 0 .. 127 \cup 224 .. 255 PROVE WholeFormats[f] = FixNumber(f)
    OBVIOUS
  <2>1. /\ f \notin 128 .. 143 /\ f \notin 144 .. 159 /\ f \notin 160 .. 191
        /\ f # 192 /\ f # 194 /\ f # 195
    OBVIOUS
  <2> QED BY <2>1 DEF WholeFormats
<1>2. f \in 128 .. 143 => WholeFormats[f] = FixSize("map", f, 16)
  <2> SUFFICES ASSUME f \in 128 .. 143 PROVE WholeFormats[f] = FixSize("map", f, 16)
    OBVIOUS
  <2>1. /\ f \notin 0 .. 127 \cup 224 .. 255 /\ f \notin 144 .. 159 /\ f \notin 160 .. 191
        /\ f # 192 /\ f # 194 /\ f # 195
    OBVIOUS
  <2> QED BY <2>1 DEF WholeFormats
<1>3. f \in 144 .. 159 => WholeFormats[f] = FixSize("array", f, 16)
  <2> SUFFICES ASSUME f \in 144 .. 159 PROVE WholeFormats[f] = FixSize("array", f, 16)
    OBVIOUS
  <2>1. /\ f \notin 0 .. 127 \cup 224 .. 255 /\ f \notin 128 .. 143 /\ f \notin 160 .. 191
        /\ f # 192 /\ f # 194 /\ f # 195
    OBVIOUS
  <2> QED BY <2>1 DEF WholeFormats
<1>4. f \in 160 .. 191 => WholeFormats[f] = FixSize("str", f, 32)
  <2> SUFFICES ASSUME f \in 160 .. 191 PROVE WholeFormats[f] = FixSize("str", f, 32)
    OBVIOUS
  <2>1. /\ f \notin 0 .. 127 \cup 224 .. 255 /\ f \notin 128 .. 143 /\ f \notin 144 .. 159
        /\ f # 192 /\ f # 194 /\ f # 195
    OBVIOUS
  <2> QED BY <2>1 DEF WholeFormats
<1>5. f = 192 => WholeFormats[f] = [type |-> "nil", put |-> << >>]
  BY DEF WholeFormats
<1>6. f = 194 => WholeFormats[f] = [type |-> "bool", put |-> <<0>>]
  BY DEF WholeFormats
<1>7. f = 195 => WholeFormats[f] = [type |-> "bool", put |-> <<1>>]
  BY DEF WholeFormats
<1> QED BY <1>1, <1>2, <1>3, <1>4, <1>5, <1>6, <1>7

(* Every format but 193 is in one of the two tables.                       *)
LEMMA FormatDomains ==
  /\ DOMAIN WholeFormats = (0 .. 195 \cup 224 .. 255) \ {193}
  /\ DOMAIN NumberFormats = 196 .. 223
BY DEF WholeFormats, NumberFormats

\* A row of it, and how many bytes the format says there are.
IsRow(f, type, need, binary) ==
  NumberFormats[f] = Announced(type, need, binary) /\ Following(f) = need

(* The powers of two that the formats count with.                          *)
LEMMA PowerOf2 ==
  ASSUME NEW r \in 0 .. 4
  PROVE  /\ 2 ^ r \in {1, 2, 4, 8, 16}
         /\ r <= 3 => 2 ^ r \in {1, 2, 4, 8}
         /\ r <= 2 => 2 ^ r \in {1, 2, 4}
<1>1. r = 0 \/ r = 1 \/ r = 2 \/ r = 3 \/ r = 4
  OBVIOUS
<1>2. CASE r = 0 BY <1>2, PowersOf2
<1>3. CASE r = 1 BY <1>3, PowersOf2
<1>4. CASE r = 2 BY <1>4, PowersOf2
<1>5. CASE r = 3 BY <1>5, PowersOf2
<1>6. CASE r = 4 BY <1>6, PowersOf2
<1> QED BY <1>1, <1>2, <1>3, <1>4, <1>5, <1>6

\* What the rows have in common.
Announces(f, n) ==
  /\ n.type \in Types /\ n.need = Following(f) /\ n.need \in 1 .. 8 /\ n.binary \in 0 .. 16
  /\ n = Announced(n.type, n.need, n.binary)

\* The row has one of these needs.
HasRow(f, type, needs) ==
  /\ NumberFormats[f] = Announced(type, Following(f), 0)
  /\ Following(f) \in needs /\ needs \in SUBSET (1 .. 8)

(* The other rows: the type, and how many bytes the table of formats says  *)
(* follow.                                                                 *)
LEMMA RowsAre ==
  ASSUME NEW f \in 196 .. 223
  PROVE  /\ f \in 196 .. 198 => HasRow(f, "bin", {1, 2, 4})
         /\ f \in 199 .. 201 => HasRow(f, "ext", {2, 3, 5})
         /\ f = 202 => HasRow(f, "float", {4})
         /\ f = 203 => HasRow(f, "double", {8})
         /\ f \in 204 .. 207 => HasRow(f, "uint", {1, 2, 4, 8})
         /\ f \in 208 .. 211 => HasRow(f, "int", {1, 2, 4, 8})
         /\ f \in 217 .. 219 => HasRow(f, "str", {1, 2, 4})
         /\ f \in 220 .. 221 => HasRow(f, "array", {1, 2, 4})
         /\ f \in 222 .. 223 => HasRow(f, "map", {1, 2, 4})
<1>1. f \in 196 .. 198 => HasRow(f, "bin", {1, 2, 4})
  <2> SUFFICES ASSUME f \in 196 .. 198 PROVE HasRow(f, "bin", {1, 2, 4})
    OBVIOUS
  <2>1. PICK r \in 0 .. 4 : r = f - 196 /\ r <= 2
    OBVIOUS
  <2>2. PICK n \in {1, 2, 4} : n = 2 ^ r
    BY <2>1, PowerOf2
  <2>3. IsRow(f, "bin", 2 ^ (f - 196), 0)
    BY DEF IsRow, NumberFormats, Following, BinExtFormats
  <2>4. 2 ^ (f - 196) = n
    BY <2>1, <2>2
  <2>5. IsRow(f, "bin", n, 0)
    BY <2>3, <2>4
  <2> QED BY <2>5 DEF IsRow, HasRow
<1>2. f \in 199 .. 201 => HasRow(f, "ext", {2, 3, 5})
  <2> SUFFICES ASSUME f \in 199 .. 201 PROVE HasRow(f, "ext", {2, 3, 5})
    OBVIOUS
  <2>1. PICK r \in 0 .. 4 : r = f - 199 /\ r <= 2
    OBVIOUS
  <2>2. PICK n \in {1, 2, 4} : n = 2 ^ r
    BY <2>1, PowerOf2
  <2>3. IsRow(f, "ext", 2 ^ (f - 199) + 1, 0)
    BY DEF IsRow, NumberFormats, Following, BinExtFormats
  <2>4. 2 ^ (f - 199) = n
    BY <2>1, <2>2
  <2>5. IsRow(f, "ext", n + 1, 0)
    BY <2>3, <2>4
  <2> QED BY <2>5 DEF IsRow, HasRow
<1>3. f = 202 => HasRow(f, "float", {4})
  <2> SUFFICES ASSUME f = 202 PROVE HasRow(f, "float", {4})
    OBVIOUS
  <2>1. IsRow(f, "float", 4, 0)
    BY DEF IsRow, NumberFormats, Following, FloatFormats
  <2> QED BY <2>1 DEF IsRow, HasRow
<1>4. f = 203 => HasRow(f, "double", {8})
  <2> SUFFICES ASSUME f = 203 PROVE HasRow(f, "double", {8})
    OBVIOUS
  <2>1. IsRow(f, "double", 8, 0)
    BY DEF IsRow, NumberFormats, Following, FloatFormats
  <2> QED BY <2>1 DEF IsRow, HasRow
<1>5. f \in 204 .. 207 => HasRow(f, "uint", {1, 2, 4, 8})
  <2> SUFFICES ASSUME f \in 204 .. 207 PROVE HasRow(f, "uint", {1, 2, 4, 8})
    OBVIOUS
  <2>1. PICK r \in 0 .. 4 : r = f - 204 /\ r <= 3
    OBVIOUS
  <2>2. PICK n \in {1, 2, 4, 8} : n = 2 ^ r
    BY <2>1, PowerOf2
  <2>3. IsRow(f, "uint", 2 ^ (f - 204), 0)
    BY DEF IsRow, NumberFormats, Following, UintFormats
  <2>4. 2 ^ (f - 204) = n
    BY <2>1, <2>2
  <2>5. IsRow(f, "uint", n, 0)
    BY <2>3, <2>4
  <2> QED BY <2>5 DEF IsRow, HasRow
<1>6. f \in 208 .. 211 => HasRow(f, "int", {1, 2, 4, 8})
  <2> SUFFICES ASSUME f \in 208 .. 211 PROVE HasRow(f, "int", {1, 2, 4, 8})
    OBVIOUS
  <2>1. PICK r \in 0 .. 4 : r = f - 208 /\ r <= 3
    OBVIOUS
  <2>2. PICK n \in {1, 2, 4, 8} : n = 2 ^ r
    BY <2>1, PowerOf2
  <2>3. IsRow(f, "int", 2 ^ (f - 208), 0)
    BY DEF IsRow, NumberFormats, Following, IntFormats
  <2>4. 2 ^ (f - 208) = n
    BY <2>1, <2>2
  <2>5. IsRow(f, "int", n, 0)
    BY <2>3, <2>4
  <2> QED BY <2>5 DEF IsRow, HasRow
<1>7. f \in 217 .. 219 => HasRow(f, "str", {1, 2, 4})
  <2> SUFFICES ASSUME f \in 217 .. 219 PROVE HasRow(f, "str", {1, 2, 4})
    OBVIOUS
  <2>1. PICK r \in 0 .. 4 : r = f - 217 /\ r <= 2
    OBVIOUS
  <2>2. PICK n \in {1, 2, 4} : n = 2 ^ r
    BY <2>1, PowerOf2
  <2>3. IsRow(f, "str", 2 ^ (f - 217), 0)
    BY DEF IsRow, NumberFormats, Following, StrFormats
  <2>4. 2 ^ (f - 217) = n
    BY <2>1, <2>2
  <2>5. IsRow(f, "str", n, 0)
    BY <2>3, <2>4
  <2> QED BY <2>5 DEF IsRow, HasRow
<1>8. f \in 220 .. 221 => HasRow(f, "array", {1, 2, 4})
  <2> SUFFICES ASSUME f \in 220 .. 221 PROVE HasRow(f, "array", {1, 2, 4})
    OBVIOUS
  <2>1. PICK r \in 0 .. 4 : r = f - 219 /\ r <= 2
    OBVIOUS
  <2>2. PICK n \in {1, 2, 4} : n = 2 ^ r
    BY <2>1, PowerOf2
  <2>3. IsRow(f, "array", 2 ^ (f - 219), 0)
    BY DEF IsRow, NumberFormats, Following, CountFormats
  <2>4. 2 ^ (f - 219) = n
    BY <2>1, <2>2
  <2>5. IsRow(f, "array", n, 0)
    BY <2>3, <2>4
  <2> QED BY <2>5 DEF IsRow, HasRow
<1>9. f \in 222 .. 223 => HasRow(f, "map", {1, 2, 4})
  <2> SUFFICES ASSUME f \in 222 .. 223 PROVE HasRow(f, "map", {1, 2, 4})
    OBVIOUS
  <2>1. PICK r \in 0 .. 4 : r = f - 221 /\ r <= 2
    OBVIOUS
  <2>2. PICK n \in {1, 2, 4} : n = 2 ^ r
    BY <2>1, PowerOf2
  <2>3. IsRow(f, "map", 2 ^ (f - 221), 0)
    BY DEF IsRow, NumberFormats, Following, CountFormats
  <2>4. 2 ^ (f - 221) = n
    BY <2>1, <2>2
  <2>5. IsRow(f, "map", n, 0)
    BY <2>3, <2>4
  <2> QED BY <2>5 DEF IsRow, HasRow
<1> QED BY <1>1, <1>2, <1>3, <1>4, <1>5, <1>6, <1>7, <1>8, <1>9

(* The rows of fixext, whose size is in the format.                        *)
LEMMA FixextRowIs ==
  ASSUME NEW f \in 212 .. 216
  PROVE  /\ NumberFormats[f] = Announced("ext", 1, 2 ^ (f - 212)) /\ Following(f) = 1
         /\ 2 ^ (f - 212) \in {1, 2, 4, 8, 16}
<1>1. IsRow(f, "ext", 1, 2 ^ (f - 212))
  BY DEF IsRow, NumberFormats, Following, FixextFormats
<1>2. PICK r \in 0 .. 4 : r = f - 212
  OBVIOUS
<1>3. 2 ^ r \in {1, 2, 4, 8, 16}
  BY PowerOf2
<1> QED BY <1>1, <1>2, <1>3 DEF IsRow

(* A row that has its bytes from the table announces as many.              *)
LEMMA RowAnnounces ==
  ASSUME NEW f, NEW type \in Types, NEW needs, HasRow(f, type, needs)
  PROVE  Announces(f, NumberFormats[f])
<1>1. PICK need \in 1 .. 8 : need = Following(f) /\ NumberFormats[f] = Announced(type, need, 0)
  BY DEF HasRow
<1> QED BY <1>1 DEF Announces, Announced

(* So does each of process_format.                                         *)
LEMMA RowsAnnounce ==
  ASSUME NEW f \in 196 .. 223
  PROVE  Announces(f, NumberFormats[f])
<1>1. CASE f \in 196 .. 198
  <2>1. HasRow(f, "bin", {1, 2, 4})
    BY <1>1, RowsAre
  <2> QED BY <2>1, RowAnnounces DEF Types
<1>2. CASE f \in 199 .. 201
  <2>1. HasRow(f, "ext", {2, 3, 5})
    BY <1>2, RowsAre
  <2> QED BY <2>1, RowAnnounces DEF Types
<1>3. CASE f = 202
  <2>1. HasRow(f, "float", {4})
    BY <1>3, RowsAre
  <2> QED BY <2>1, RowAnnounces DEF Types
<1>4. CASE f = 203
  <2>1. HasRow(f, "double", {8})
    BY <1>4, RowsAre
  <2> QED BY <2>1, RowAnnounces DEF Types
<1>5. CASE f \in 204 .. 207
  <2>1. HasRow(f, "uint", {1, 2, 4, 8})
    BY <1>5, RowsAre
  <2> QED BY <2>1, RowAnnounces DEF Types
<1>6. CASE f \in 208 .. 211
  <2>1. HasRow(f, "int", {1, 2, 4, 8})
    BY <1>6, RowsAre
  <2> QED BY <2>1, RowAnnounces DEF Types
<1>7. CASE f \in 217 .. 219
  <2>1. HasRow(f, "str", {1, 2, 4})
    BY <1>7, RowsAre
  <2> QED BY <2>1, RowAnnounces DEF Types
<1>8. CASE f \in 220 .. 221
  <2>1. HasRow(f, "array", {1, 2, 4})
    BY <1>8, RowsAre
  <2> QED BY <2>1, RowAnnounces DEF Types
<1>9. CASE f \in 222 .. 223
  <2>1. HasRow(f, "map", {1, 2, 4})
    BY <1>9, RowsAre
  <2> QED BY <2>1, RowAnnounces DEF Types
<1>10. CASE f \in 212 .. 216
  <2>1. PICK n \in {1, 2, 4, 8, 16} : NumberFormats[f] = Announced("ext", 1, n) /\ Following(f) = 1
    BY <1>10, FixextRowIs
  <2> QED BY <2>1 DEF Announces, Announced, Types
<1> QED BY <1>1, <1>2, <1>3, <1>4, <1>5, <1>6, <1>7, <1>8, <1>9, <1>10

(* What process_number puts into the union, for each range of formats.     *)
LEMMA NumberPutIs ==
  ASSUME NEW f \in 196 .. 223, NEW w, NEW u
  PROVE  /\ f \in 208 .. 211 => NumberPut(f, w, u) = Put(u, IntInMemory(w))
         /\ f \in 204 .. 207 => NumberPut(f, w, u) = Put(u, UintInMemory(w))
         /\ f \in 202 .. 203 => NumberPut(f, w, u) = Put(u, Swap(w))
         /\ f \in 199 .. 201 => NumberPut(f, w, u) = Put(u, ExtInMemory(w))
         /\ f \in 212 .. 216 => NumberPut(f, w, u) = PutAt(u, 4, w)
         /\ f \in 196 .. 198 \cup 217 .. 223 => NumberPut(f, w, u) = Put(u, SizeInMemory(w))
<1>1. /\ DOMAIN IntFormats = 208 .. 211 /\ DOMAIN UintFormats = 204 .. 207
      /\ DOMAIN FloatFormats = 202 .. 203 /\ DOMAIN FixextFormats = 212 .. 216
  BY DEF IntFormats, UintFormats, FloatFormats, FixextFormats
<1>2. f \in 208 .. 211 => NumberPut(f, w, u) = Put(u, IntInMemory(w))
  BY <1>1 DEF NumberPut
<1>3. f \in 204 .. 207 => NumberPut(f, w, u) = Put(u, UintInMemory(w))
  BY <1>1 DEF NumberPut
<1>4. f \in 202 .. 203 => NumberPut(f, w, u) = Put(u, Swap(w))
  BY <1>1 DEF NumberPut
<1>5. f \in 199 .. 201 => NumberPut(f, w, u) = Put(u, ExtInMemory(w))
  BY <1>1 DEF NumberPut
<1>6. f \in 212 .. 216 => NumberPut(f, w, u) = PutAt(u, 4, w)
  BY <1>1 DEF NumberPut
<1>7. f \in 196 .. 198 \cup 217 .. 223 => NumberPut(f, w, u) = Put(u, SizeInMemory(w))
  BY <1>1 DEF NumberPut
<1> QED BY <1>2, <1>3, <1>4, <1>5, <1>6, <1>7

---------------------------------------------------------------------------
(* What a row has put into the union holds the object.                     *)

\* What a format that is the whole object puts into the union holds it.
PutHolds(w, u, need, o) ==
  /\ w.type \in Types /\ Put(u, w.put) \in Memory
  /\ Holds(Object(w.type, Put(u, w.put)), need, o)

(* A size that is in the format holds the object.                          *)
LEMMA SmallSizeHolds ==
  ASSUME NEW o \in ObjectSet, NEW kind \in {"str", "array", "map"}, NEW k \in 0 .. 255,
         Meaning(o) = Sized(kind, k), NEW u \in Memory, NEW need,
         NEW w, w.type = kind, w.put = Filled(<<k>>, 4, 0)
  PROVE  PutHolds(w, u, need, o)
<1>1. w.put = InMemory(k)
  BY FixInMemory
<1>2. Put(u, InMemory(k)) \in Memory /\ Holds(Object(kind, Put(u, InMemory(k))), need, o)
  BY SizeHolds
<1> QED BY <1>1, <1>2 DEF PutHolds, Types

(* A number that is the format holds the object.                           *)
LEMMA SmallNumberHolds ==
  ASSUME NEW o \in ObjectSet, NEW f \in 0 .. 255, f <= 127 \/ f >= 224, NEW r,
         Meaning(o) = MeaningOf(f, r), NEW u \in Memory, NEW need
  PROVE  PutHolds(FixNumber(f), u, need, o)
<1>7. PICK w : w = FixNumber(f)
  OBVIOUS
<1>1. w.type = "int" /\ w.put = Filled(<<f>>, 8, SignFill(f))
  BY <1>7 DEF FixNumber
<1>2. PICK b \in Bytes : b = <<f>> /\ Len(b) = 1 /\ b[1] = f /\ Swap(b) = b
  BY OneByte
<1>3. PICK fill : fill = SignFill(f)
  OBVIOUS
<1>4. Meaning(o) = Number(fill, b)
  <2>1. CASE f <= 127
    <3>1. fill = 0
      BY <1>3, <2>1 DEF SignFill
    <3> QED BY <1>2, <2>1, <3>1, MeaningOfIs
  <2>2. CASE f >= 224
    <3>1. fill = 255 /\ f \in 224 .. 255
      BY <1>3, <2>2 DEF SignFill
    <3> QED BY <1>2, <3>1, NegativeIs
  <2> QED BY <2>1, <2>2
<1>5. fill = SignOf("int", b[1])
  BY <1>2, <1>3 DEF SignOf
<1>6. PICK v : v = Put(u, Filled(Swap(b), 8, fill))
  OBVIOUS
<1>8. v \in Memory /\ Holds(Object("int", v), need, o)
  <2>1. Len(b) \in 1 .. 8
    BY <1>2
  <2> QED BY <1>4, <1>5, <1>6, <2>1, NumberHolds
<1> QED BY <1>1, <1>2, <1>3, <1>6, <1>7, <1>8 DEF PutHolds, Types

(* A format that nothing follows announces nothing.                        *)
LEMMA FollowsNone ==
  ASSUME NEW f \in 0 .. 255, Following(f) = 0
  PROVE  f \notin 196 .. 223
<1> SUFFICES ASSUME f \in 196 .. 223 PROVE FALSE
  OBVIOUS
<1>1. Announces(f, NumberFormats[f])
  BY RowsAnnounce
<1> QED BY <1>1 DEF Announces

(* No object is built with the format that means nothing.                  *)
LEMMA NoneMeant ==
  ASSUME NEW o \in ObjectSet, NEW r
  PROVE  Meaning(o) # MeaningOf(193, r)
<1>1. MeaningOf(193, r) = Sized("none", 0)
  BY DEF MeaningOf
<1>2. Meaning(o).kind # "none"
  BY KindsAre
<1> QED BY <1>1, <1>2 DEF Sized, Obj

\* A format that is the whole object.
LEMMA FormatHolds ==
  ASSUME NEW o \in ObjectSet, NEW f \in 0 .. 255, Following(f) = 0, NEW r,
         Meaning(o) = MeaningOf(f, r), NEW u \in Memory, NEW need
  PROVE  f \in DOMAIN WholeFormats /\ PutHolds(WholeFormats[f], u, need, o)
<1>1. f \in (0 .. 195 \cup 224 .. 255) \ {193}
  <2>1. f \notin 196 .. 223
    BY FollowsNone
  <2>2. f # 193
    BY NoneMeant
  <2> QED BY <2>1, <2>2
<1>2. f \in DOMAIN WholeFormats
  BY <1>1, FormatDomains
<1>3. PICK w : w = WholeFormats[f]
  OBVIOUS
<1>4. CASE f <= 127 \/ f >= 224
  <2>1. f \in 0 .. 127 \cup 224 .. 255
    BY <1>4
  <2>2. w = FixNumber(f)
    BY <1>1, <1>3, <2>1, WholeFormatsAre
  <2>3. PutHolds(FixNumber(f), u, need, o)
    BY <1>4, SmallNumberHolds
  <2> QED BY <1>2, <1>3, <2>2, <2>3
<1>5. CASE f \in 128 .. 143
  <2>1. w = FixSize("map", f, 16)
    BY <1>1, <1>3, <1>5, WholeFormatsAre
  <2>2. PICK k \in 0 .. 255 : k = f - 128 /\ k = f % 16
    BY <1>5
  <2>3. w.type = "map" /\ w.put = Filled(<<k>>, 4, 0)
    BY <2>1, <2>2 DEF FixSize
  <2>4. MeaningOf(f, r) = Sized("map", f - 128)
    BY <1>5, MeaningOfIs, SMTT(30)
  <2>5. PICK kind \in {"str", "array", "map"} : kind = "map"
    OBVIOUS
  <2>6. Meaning(o) = Sized(kind, k)
    BY <2>2, <2>4, <2>5
  <2>7. w.type = kind /\ w.put = Filled(<<k>>, 4, 0)
    BY <2>3, <2>5
  <2>8. PutHolds(w, u, need, o)
    BY <2>6, <2>7, SmallSizeHolds, ZenonT(60)
  <2> QED BY <1>2, <1>3, <2>8
<1>6. CASE f \in 144 .. 159
  <2>1. w = FixSize("array", f, 16)
    BY <1>1, <1>3, <1>6, WholeFormatsAre
  <2>2. PICK k \in 0 .. 255 : k = f - 144 /\ k = f % 16
    BY <1>6
  <2>3. w.type = "array" /\ w.put = Filled(<<k>>, 4, 0)
    BY <2>1, <2>2 DEF FixSize
  <2>4. MeaningOf(f, r) = Sized("array", f - 144)
    BY <1>6, MeaningOfIs
  <2>5. PICK kind \in {"str", "array", "map"} : kind = "array"
    OBVIOUS
  <2>6. Meaning(o) = Sized(kind, k)
    BY <2>2, <2>4, <2>5
  <2>7. w.type = kind /\ w.put = Filled(<<k>>, 4, 0)
    BY <2>3, <2>5
  <2>8. PutHolds(w, u, need, o)
    BY <2>6, <2>7, SmallSizeHolds, ZenonT(60)
  <2> QED BY <1>2, <1>3, <2>8
<1>7. CASE f \in 160 .. 191
  <2>1. w = FixSize("str", f, 32)
    BY <1>1, <1>3, <1>7, WholeFormatsAre
  <2>2. PICK k \in 0 .. 255 : k = f - 160 /\ k = f % 32
    BY <1>7
  <2>3. w.type = "str" /\ w.put = Filled(<<k>>, 4, 0)
    BY <2>1, <2>2 DEF FixSize
  <2>4. MeaningOf(f, r) = Sized("str", f - 160)
    BY <1>7, MeaningOfIs
  <2>5. PICK kind \in {"str", "array", "map"} : kind = "str"
    OBVIOUS
  <2>6. Meaning(o) = Sized(kind, k)
    BY <2>2, <2>4, <2>5
  <2>7. w.type = kind /\ w.put = Filled(<<k>>, 4, 0)
    BY <2>3, <2>5
  <2>8. PutHolds(w, u, need, o)
    BY <2>6, <2>7, SmallSizeHolds, ZenonT(60)
  <2> QED BY <1>2, <1>3, <2>8
<1>8. CASE f = 192
  <2>1. w = [type |-> "nil", put |-> << >>]
    BY <1>1, <1>3, <1>8, WholeFormatsAre
  <2>2. Meaning(o) = Sized("nil", 0)
    BY <1>8, MeaningOfIs
  <2>3. w.type = "nil" /\ w.put = << >>
    BY <2>1
  <2>4. Put(u, w.put) \in Memory /\ Holds(Object(w.type, Put(u, w.put)), need, o)
    BY <2>2, <2>3, SingleHolds
  <2> QED BY <1>2, <1>3, <2>3, <2>4 DEF Types, PutHolds
<1>9. CASE f = 194
  <2>1. w = [type |-> "bool", put |-> <<0>>]
    BY <1>1, <1>3, <1>9, WholeFormatsAre
  <2>2. Meaning(o) = Sized("false", 0)
    BY <1>9, MeaningOfIs
  <2>3. w.type = "bool" /\ w.put = <<0>>
    BY <2>1
  <2>4. Put(u, w.put) \in Memory /\ Holds(Object(w.type, Put(u, w.put)), need, o)
    BY <2>2, <2>3, SingleHolds
  <2> QED BY <1>2, <1>3, <2>3, <2>4 DEF Types, PutHolds
<1>10. CASE f = 195
  <2>1. w = [type |-> "bool", put |-> <<1>>]
    BY <1>1, <1>3, <1>10, WholeFormatsAre
  <2>2. Meaning(o) = Sized("true", 0)
    BY <1>10, MeaningOfIs
  <2>3. w.type = "bool" /\ w.put = <<1>>
    BY <2>1
  <2>4. Put(u, w.put) \in Memory /\ Holds(Object(w.type, Put(u, w.put)), need, o)
    BY <2>2, <2>3, SingleHolds
  <2> QED BY <1>2, <1>3, <2>3, <2>4 DEF Types, PutHolds
<1>11. \/ f <= 127 \/ f >= 224 \/ f \in 128 .. 143 \/ f \in 144 .. 159 \/ f \in 160 .. 191
       \/ f = 192 \/ f = 194 \/ f = 195
  BY <1>1
<1> QED BY <1>4, <1>5, <1>6, <1>7, <1>8, <1>9, <1>10, <1>11

\* The type a row names, with what was put into the union.
RowHolds(f, v, need, o) ==
  v \in Memory /\ Holds(Object(NumberFormats[f].type, v), need, o)

(* What a row says.                                                        *)
LEMMA RowType ==
  ASSUME NEW f, NEW type, NEW needs, HasRow(f, type, needs)
  PROVE  NumberFormats[f].type = type /\ Following(f) \in needs
BY DEF HasRow, Announced

(* The rows of sizes: what process_number puts in the union holds the      *)
(* object.                                                                 *)
LEMMA SizeRowHolds ==
  ASSUME NEW o \in ObjectSet, NEW f \in 196 .. 223, NEW w \in Bytes, Len(w) = Following(f),
         NEW kind \in {"str", "bin", "array", "map"}, HasRow(f, kind, {1, 2, 4}),
         Meaning(o) = Sized(kind, NatOf(w)), NEW u \in Memory, NEW need,
         NEW v, v = Put(u, SizeInMemory(w))
  PROVE  RowHolds(f, v, need, o)
<1>1. NumberFormats[f].type = kind /\ Len(w) \in {1, 2, 4}
  BY RowType
<1>2. PICK n \in Nat : n = NatOf(w) /\ SizeInMemory(w) = InMemory(n)
  BY <1>1, SizeInMemoryIs
<1>3. Meaning(o) = Sized(kind, n) /\ v = Put(u, InMemory(n))
  BY <1>2
<1>4. v \in Memory /\ Holds(Object(kind, v), need, o)
  BY <1>3, SizeHolds
<1> QED BY <1>1, <1>4 DEF RowHolds

(* The rows of integers.                                                   *)
LEMMA NumberRowHolds ==
  ASSUME NEW o \in ObjectSet, NEW f \in 196 .. 223, NEW w \in Bytes, Len(w) = Following(f),
         NEW type \in {"int", "uint"}, HasRow(f, type, {1, 2, 4, 8}),
         NEW fill, fill = SignOf(type, w[1]), Meaning(o) = Number(fill, w),
         NEW u \in Memory, NEW need, NEW v, v = Put(u, Filled(Swap(w), 8, fill))
  PROVE  RowHolds(f, v, need, o)
<1>1. NumberFormats[f].type = type /\ Len(w) \in {1, 2, 4, 8}
  BY RowType
<1>2. Len(w) \in 1 .. 8
  BY <1>1
<1>3. v \in Memory /\ Holds(Object(type, v), need, o)
  BY <1>2, NumberHolds
<1> QED BY <1>1, <1>3 DEF RowHolds

(* An ext of one of the five sizes is a fixext.                            *)
LEMMA FixextIs ==
  ASSUME NEW o \in ObjectSet, NEW n \in {1, 2, 4, 8, 16}, NEW type, Meaning(o) = Ext(n, type)
  PROVE  IsFixext(o)
<1>1. o.kind = "ext" /\ o.size = n
  BY MeantIs DEF Ext
<1> QED BY <1>1 DEF IsFixext, FixExt

(* What the table of formats says of each range.                           *)
LEMMA RowMeant ==
  ASSUME NEW w
  PROVE  /\ \A f \in 196 .. 198 : MeaningOf(f, w) = Sized("bin", NatOf(w))
         /\ \A f \in 199 .. 201 : MeaningOf(f, w) = SizeAndType(w)
         /\ \A f \in 202 .. 202 : MeaningOf(f, w) = Obj("float32", w, 0, 0)
         /\ \A f \in 203 .. 203 : MeaningOf(f, w) = Obj("float64", w, 0, 0)
         /\ \A f \in 204 .. 207 : MeaningOf(f, w) = Number(0, w)
         /\ \A f \in 208 .. 211 : MeaningOf(f, w) = Number(SignFill(w[1]), w)
         /\ \A f \in 212 .. 216 : MeaningOf(f, w) = Ext(2 ^ (f - 212), w[1])
         /\ \A f \in 217 .. 219 : MeaningOf(f, w) = Sized("str", NatOf(w))
         /\ \A f \in 220 .. 221 : MeaningOf(f, w) = Sized("array", NatOf(w))
         /\ \A f \in 222 .. 223 : MeaningOf(f, w) = Sized("map", NatOf(w))
<1>1. ASSUME NEW f \in 196 .. 198 PROVE MeaningOf(f, w) = Sized("bin", NatOf(w))
  BY DEF MeaningOf
<1>2. ASSUME NEW f \in 199 .. 201 PROVE MeaningOf(f, w) = SizeAndType(w)
  BY DEF MeaningOf
<1>3. ASSUME NEW f \in 202 .. 202 PROVE MeaningOf(f, w) = Obj("float32", w, 0, 0)
  BY DEF MeaningOf
<1>4. ASSUME NEW f \in 203 .. 203 PROVE MeaningOf(f, w) = Obj("float64", w, 0, 0)
  BY DEF MeaningOf
<1>5. ASSUME NEW f \in 204 .. 207 PROVE MeaningOf(f, w) = Number(0, w)
  BY DEF MeaningOf
<1>6. ASSUME NEW f \in 208 .. 211 PROVE MeaningOf(f, w) = Number(SignFill(w[1]), w)
  BY DEF MeaningOf
<1>7. ASSUME NEW f \in 212 .. 216 PROVE MeaningOf(f, w) = Ext(2 ^ (f - 212), w[1])
  BY DEF MeaningOf
<1>8. ASSUME NEW f \in 217 .. 219 PROVE MeaningOf(f, w) = Sized("str", NatOf(w))
  BY DEF MeaningOf
<1>9. ASSUME NEW f \in 220 .. 221 PROVE MeaningOf(f, w) = Sized("array", NatOf(w))
  BY DEF MeaningOf
<1>10. ASSUME NEW f \in 222 .. 223 PROVE MeaningOf(f, w) = Sized("map", NatOf(w))
  BY DEF MeaningOf
<1> QED BY <1>1, <1>2, <1>3, <1>4, <1>5, <1>6, <1>7, <1>8, <1>9, <1>10

\* A format that announces bytes, and those bytes.
LEMMA NumberPutHolds ==
  ASSUME NEW o \in ObjectSet, NEW f \in 196 .. 223, NEW w \in Bytes, Len(w) = Following(f),
         Meaning(o) = MeaningOf(f, w), NEW u \in Memory, NEW need,
         f \in 199 .. 201 => ~IsFixext(o), f \in 212 .. 216 => need = 2 ^ (f - 212)
  PROVE  RowHolds(f, NumberPut(f, w, u), need, o)
<1>1. PICK v : v = NumberPut(f, w, u)
  OBVIOUS
<1>2. CASE f \in 196 .. 198
  <2>1. HasRow(f, "bin", {1, 2, 4}) /\ v = Put(u, SizeInMemory(w))
    BY <1>1, <1>2, RowsAre, NumberPutIs
  <2>2. Meaning(o) = Sized("bin", NatOf(w))
    BY <1>2, RowMeant
  <2> QED BY <1>1, <2>1, <2>2, SizeRowHolds
<1>3. CASE f \in 199 .. 201
  <2>1. HasRow(f, "ext", {2, 3, 5}) /\ v = Put(u, ExtInMemory(w))
    BY <1>1, <1>3, RowsAre, NumberPutIs
  <2>2. Meaning(o) = SizeAndType(w)
    BY <1>3, RowMeant
  <2>3. PICK k \in {2, 3, 5} : k = Len(w) /\ NumberFormats[f].type = "ext"
    BY <2>1, RowType
  <2>4. v \in Memory /\ Holds(Object("ext", v), need, o)
    BY <1>3, <2>1, <2>2, <2>3, ExtHolds
  <2> QED BY <1>1, <2>3, <2>4 DEF RowHolds
<1>4. CASE f = 202
  <2>1. HasRow(f, "float", {4}) /\ v = Put(u, Swap(w))
    BY <1>1, <1>4, RowsAre, NumberPutIs
  <2>2. Meaning(o) = Obj("float32", w, 0, 0)
    BY <1>4, f \in 202 .. 202, RowMeant
  <2>3. Len(w) = 4 /\ NumberFormats[f].type = "float"
    BY <2>1, RowType
  <2>4. v \in Memory /\ Holds(Object("float", v), need, o)
    BY <2>1, <2>2, <2>3, FloatHolds
  <2> QED BY <1>1, <2>3, <2>4 DEF RowHolds
<1>5. CASE f = 203
  <2>1. HasRow(f, "double", {8}) /\ v = Put(u, Swap(w))
    BY <1>1, <1>5, RowsAre, NumberPutIs
  <2>2. Meaning(o) = Obj("float64", w, 0, 0)
    BY <1>5, f \in 203 .. 203, RowMeant
  <2>3. Len(w) = 8 /\ NumberFormats[f].type = "double"
    BY <2>1, RowType
  <2>4. v \in Memory /\ Holds(Object("double", v), need, o)
    BY <2>1, <2>2, <2>3, FloatHolds
  <2> QED BY <1>1, <2>3, <2>4 DEF RowHolds
<1>6. CASE f \in 204 .. 207
  <2>1. HasRow(f, "uint", {1, 2, 4, 8}) /\ v = Put(u, UintInMemory(w))
    BY <1>1, <1>6, RowsAre, NumberPutIs
  <2>2. Meaning(o) = Number(0, w)
    BY <1>6, RowMeant
  <2>3. PICK fill : fill = 0 /\ fill = SignOf("uint", w[1])
    BY DEF SignOf
  <2>4. v = Put(u, Filled(Swap(w), 8, fill)) /\ Meaning(o) = Number(fill, w)
    BY <2>1, <2>2, <2>3 DEF UintInMemory
  <2> QED BY <1>1, <2>1, <2>3, <2>4, NumberRowHolds
<1>7. CASE f \in 208 .. 211
  <2>1. HasRow(f, "int", {1, 2, 4, 8}) /\ v = Put(u, IntInMemory(w))
    BY <1>1, <1>7, RowsAre, NumberPutIs
  <2>2. Meaning(o) = Number(SignFill(w[1]), w)
    BY <1>7, RowMeant
  <2>3. PICK fill : fill = SignFill(w[1]) /\ fill = SignOf("int", w[1])
    BY DEF SignOf
  <2>4. v = Put(u, Filled(Swap(w), 8, fill)) /\ Meaning(o) = Number(fill, w)
    BY <2>1, <2>2, <2>3 DEF IntInMemory
  <2> QED BY <1>1, <2>1, <2>3, <2>4, NumberRowHolds
<1>8. CASE f \in 212 .. 216
  <2>1. NumberFormats[f].type = "ext" /\ Len(w) = 1 /\ need \in {1, 2, 4, 8, 16}
    <3>1. NumberFormats[f] = Announced("ext", 1, 2 ^ (f - 212)) /\ Following(f) = 1
      BY <1>8, FixextRowIs
    <3>2. need \in {1, 2, 4, 8, 16}
      BY <1>8, FixextRowIs
    <3> QED BY <3>1, <3>2 DEF Announced
  <2>2. v = PutAt(u, 4, w)
    BY <1>1, <1>8, NumberPutIs
  <2>3. Meaning(o) = Ext(need, w[1])
    BY <1>8, RowMeant
  <2>4. IsFixext(o)
    BY <2>1, <2>3, FixextIs
  <2>5. v \in Memory /\ Holds(Object("ext", v), need, o)
    BY <2>1, <2>2, <2>3, <2>4, FixextHolds
  <2> QED BY <1>1, <2>1, <2>5 DEF RowHolds
<1>9. CASE f \in 217 .. 219
  <2>1. HasRow(f, "str", {1, 2, 4}) /\ v = Put(u, SizeInMemory(w))
    BY <1>1, <1>9, RowsAre, NumberPutIs
  <2>2. Meaning(o) = Sized("str", NatOf(w))
    BY <1>9, RowMeant
  <2> QED BY <1>1, <2>1, <2>2, SizeRowHolds
<1>10. CASE f \in 220 .. 221
  <2>1. HasRow(f, "array", {1, 2, 4}) /\ v = Put(u, SizeInMemory(w))
    BY <1>1, <1>10, RowsAre, NumberPutIs, SMTT(30)
  <2>2. Meaning(o) = Sized("array", NatOf(w))
    BY <1>10, RowMeant, ZenonT(60)
  <2> QED BY <1>1, <2>1, <2>2, SizeRowHolds
<1>11. CASE f \in 222 .. 223
  <2>1. HasRow(f, "map", {1, 2, 4}) /\ v = Put(u, SizeInMemory(w))
    BY <1>1, <1>11, RowsAre, NumberPutIs, SMTT(30)
  <2>2. Meaning(o) = Sized("map", NatOf(w))
    BY <1>11, RowMeant
  <2> QED BY <1>1, <2>1, <2>2, SizeRowHolds
<1> QED BY <1>2, <1>3, <1>4, <1>5, <1>6, <1>7, <1>8, <1>9, <1>10, <1>11

---------------------------------------------------------------------------
(* A header is a first byte and as many as it says follow.                 *)

\* They are f and w.
IsHeader(o, f, w) ==
  /\ f \in 0 .. 255 /\ w \in Bytes
  /\ f = Built[o][1] /\ w = Tail(Built[o])
  /\ Len(w) = Following(f) /\ Len(Built[o]) = 1 + Len(w)
  /\ Meaning(o) = MeaningOf(f, w)
  /\ f \in 199 .. 201 => ~IsFixext(o)

(* A fixext is built with a format of its own.                             *)
LEMMA FixextFirst ==
  ASSUME NEW o \in AllObjects, IsFixext(o)
  PROVE  Built[o][1] \in 212 .. 216
<1>1. o.kind = "ext" /\ o.size \in {1, 2, 4, 8, 16}
  BY DEF IsFixext, FixExt
<1>2. Built[o] = ExtHeader(o.size, o.type)
  BY <1>1 DEF Built, Header, Single
<1>3. Built[o] = <<FixExt[o.size], o.type>>
  BY <1>1, <1>2 DEF ExtHeader, FixExt
<1>4. FixExt[o.size] \in 212 .. 216
  BY <1>1, RankIs DEF FixExt
<1> QED BY <1>3, <1>4

(* Every header is a format and what follows it.                           *)
LEMMA HeaderShape ==
  ASSUME NEW o \in AllObjects
  PROVE  \E f, w : IsHeader(o, f, w)
<1>1. PICK h \in Bytes : h = Built[o] /\ h = Header(o) /\ Len(h) \in 1 .. 10
  BY BuiltIs DEF Built
<1>2. PICK f : f = h[1]
  OBVIOUS
<1>3. PICK w : w = Tail(h)
  OBVIOUS
<1>4. f \in 0 .. 255
  <2>1. PICK n \in 1 .. 10 : n = Len(h)
    BY <1>1
  <2>2. 1 \in 1 .. n
    OBVIOUS
  <2> QED BY <1>2, <2>1, <2>2, ElementOfSeq DEF Bytes
<1>5. w \in Bytes /\ Len(h) = 1 + Len(w)
  <2>1. PICK g \in Seq(0 .. 255) : g = h
    BY DEF Bytes
  <2>2. g # << >>
    BY <1>1, <2>1
  <2>3. Tail(g) \in Seq(0 .. 255) /\ Len(Tail(g)) = Len(g) - 1
    BY <2>2, HeadTailProperties
  <2>4. Len(g) \in 1 .. 10
    BY <1>1, <2>1
  <2> QED BY <1>3, <2>1, <2>3, <2>4 DEF Bytes
<1>6. Decode(h) = Meaning(o)
  BY <1>1, ObjectIs, HeaderMeans
<1>7. Meaning(o) # Sized("none", 0)
  <2>1. Meaning(o).kind # "none"
    BY ObjectIs, KindsAre
  <2> QED BY <2>1 DEF Sized, Obj
<1>8. Len(w) = Following(f) /\ Meaning(o) = MeaningOf(f, w)
  BY <1>2, <1>3, <1>6, <1>7 DEF Decode
<1>9. f \in 199 .. 201 => ~IsFixext(o)
  <2> SUFFICES ASSUME f \in 199 .. 201, IsFixext(o) PROVE FALSE
    OBVIOUS
  <2>1. f \in 212 .. 216
    <3>1. Built[o][1] \in 212 .. 216
      BY FixextFirst
    <3>2. f = Built[o][1]
      BY <1>1, <1>2
    <3> QED BY <3>1, <3>2
  <2> QED BY <2>1
<1>10. IsHeader(o, f, w)
  BY <1>1, <1>2, <1>3, <1>4, <1>5, <1>8, <1>9 DEF IsHeader
<1> QED BY <1>10

---------------------------------------------------------------------------
(* The reader's context m at byte b of an entry of the object o.           *)

\* Nothing of the object was read.
WaitInv(m) ==
  /\ m.status = "receive_format" /\ m.number = << >> /\ m.number_need = 0
  /\ m.binary_need = 0 /\ m.binary_read = 0

\* The format was, and as many of its bytes as are counted.
NumInv(m, o, b) ==
  /\ o \in AllObjects /\ m.status = "receive_number"
  /\ m.format \in 196 .. 223 /\ m.format = Built[o][1]
  /\ m.object.type = NumberFormats[m.format].type
  /\ m.number_need = Following(m.format)
  /\ b \in 1 .. Len(Built[o]) /\ m.number = SubSeq(Built[o], 2, b) /\ b = 1 + Len(m.number)
  /\ m.binary_read = 0
  /\ m.format \in 212 .. 216 => m.binary_need = 2 ^ (m.format - 212)

\* The context has it.
DoneInv(m, o) ==
  /\ m.status = "xchange_object" /\ o \in AllObjects
  /\ Len(m.number) <= m.number_need
  /\ m.binary_read <= m.binary_need
  /\ Holds(m.object, m.binary_need, o)

(* What follows is the header from its second byte on.                     *)
LEMMA HeaderParts ==
  ASSUME NEW o \in AllObjects, NEW f, NEW w, IsHeader(o, f, w)
  PROVE  w = SubSeq(Built[o], 2, Len(Built[o]))
<1>1. PICK h \in Bytes : h = Built[o] /\ Len(h) \in 1 .. 10
  BY BuiltIs
<1>2. w = Tail(h)
  BY <1>1 DEF IsHeader
<1>3. PICK n \in 1 .. 10 : n = Len(h)
  BY <1>1
<1>4. PICK g \in Seq(0 .. 255) : g = h /\ g # << >> /\ Len(g) = n
  <2>1. PICK g \in Seq(0 .. 255) : g = h /\ Len(g) = n
    BY <1>3 DEF Bytes
  <2>2. n # 0
    OBVIOUS
  <2>3. g # << >>
    BY <2>1, <2>2, EmptySeq
  <2> QED BY <2>1, <2>3
<1>5. /\ Tail(g) \in Seq(0 .. 255) /\ Len(Tail(g)) = n - 1
      /\ \A i \in 1 .. n - 1 : Tail(g)[i] = g[i + 1]
  BY <1>4, HeadTailProperties
<1>6. /\ SubSeq(g, 1 + 1, n) \in Seq(0 .. 255) /\ Len(SubSeq(g, 1 + 1, n)) = n - 1
      /\ \A i \in 1 .. n - 1 : SubSeq(g, 1 + 1, n)[i] = g[i + 1]
  <2>1. 1 \in 0 .. Len(g) /\ n \in 1 .. Len(g)
    BY <1>4
  <2> QED BY <2>1, PartIs
<1>7. Tail(g) = SubSeq(g, 1 + 1, n)
  BY <1>5, <1>6, SeqEqual
<1>8. 1 + 1 = 2
  OBVIOUS
<1> QED BY <1>1, <1>2, <1>3, <1>4, <1>7, <1>8

\* A context and its parts.
Fields(m, status, object, format, number, number_need, binary_need, binary_read) ==
  /\ m \in Readers /\ m.status = status /\ m.object = object /\ m.format = format
  /\ m.number = number /\ m.number_need = number_need
  /\ m.binary_need = binary_need /\ m.binary_read = binary_read

(* The context after a whole object was put into it,                       *)
LEMMA ObjectPut ==
  ASSUME NEW m \in Readers, NEW x \in Held,
         NEW y, y = [m EXCEPT !.status = "xchange_object", !.object = x]
  PROVE  Fields(y, "xchange_object", x, m.format, m.number, m.number_need,
                m.binary_need, m.binary_read)
<1>1. y \in Readers
  BY ZenonT(60) DEF Readers
<1>2. /\ y.status = "xchange_object" /\ y.object = x /\ y.format = m.format
      /\ y.number = m.number /\ y.number_need = m.number_need /\ y.binary_need = m.binary_need /\ y.binary_read = m.binary_read
  BY DEF Readers
<1> QED BY <1>1, <1>2 DEF Fields

(* after bytes of a number came,                                           *)
LEMMA NumberSet ==
  ASSUME NEW m \in Readers, NEW w \in Bytes, NEW y, y = [m EXCEPT !.number = w]
  PROVE  Fields(y, m.status, m.object, m.format, w, m.number_need, m.binary_need, m.binary_read)
<1>1. y \in Readers
  BY DEF Readers
<1>2. /\ y.status = m.status /\ y.object = m.object /\ y.format = m.format
      /\ y.number = w /\ y.number_need = m.number_need /\ y.binary_need = m.binary_need /\ y.binary_read = m.binary_read
  BY DEF Readers
<1> QED BY <1>1, <1>2 DEF Fields

(* after bytes of the data came,                                           *)
LEMMA BinaryCounted ==
  ASSUME NEW m \in Readers, NEW n \in Nat, NEW y, y = [m EXCEPT !.binary_read = n]
  PROVE  Fields(y, m.status, m.object, m.format, m.number, m.number_need, m.binary_need, n)
<1>1. y \in Readers
  BY DEF Readers
<1>2. /\ y.status = m.status /\ y.object = m.object /\ y.format = m.format
      /\ y.number = m.number /\ y.number_need = m.number_need /\ y.binary_need = m.binary_need /\ y.binary_read = n
  BY DEF Readers
<1> QED BY <1>1, <1>2 DEF Fields

(* after a format that bytes follow,                                       *)
LEMMA FormatAnnounced ==
  ASSUME NEW m \in Readers, NEW x \in Held, NEW n \in 0 .. 10, NEW w, w = << >>,
         NEW y, y = [m EXCEPT !.status = "receive_number", !.object = x,
                              !.number_need = n, !.number = w]
  PROVE  Fields(y, "receive_number", x, m.format, w, n, m.binary_need, m.binary_read)
<1>1. w \in Bytes
  BY EmptySeq DEF Bytes
<1>2. y \in Readers
  BY <1>1, ZenonT(60) DEF Readers
<1>3. /\ y.status = "receive_number" /\ y.object = x /\ y.format = m.format
      /\ y.number = w /\ y.number_need = n /\ y.binary_need = m.binary_need /\ y.binary_read = m.binary_read
  BY DEF Readers
<1> QED BY <1>2, <1>3 DEF Fields

(* and after one of fixext.                                                *)
LEMMA BinaryAnnounced ==
  ASSUME NEW m \in Readers, NEW n \in 0 .. 16,
         NEW y, y = [m EXCEPT !.binary_need = n, !.binary_read = 0]
  PROVE  Fields(y, m.status, m.object, m.format, m.number, m.number_need, n, 0)
<1>1. y \in Readers
  BY ZenonT(60) DEF Readers
<1>2. /\ y.status = m.status /\ y.object = m.object /\ y.format = m.format
      /\ y.number = m.number /\ y.number_need = m.number_need /\ y.binary_need = n /\ y.binary_read = 0
  BY DEF Readers
<1> QED BY <1>1, <1>2 DEF Fields

\* z, with the bytes of data of the row, if it has any.
WithBinary(x, z, n) ==
  x = IF n.binary = 0 THEN z ELSE [z EXCEPT !.binary_need = n.binary, !.binary_read = 0]

RowSet(z, k, n) ==
  z = [k EXCEPT !.status = "receive_number", !.object = Object(n.type, k.object.memory),
                !.number_need = n.need, !.number = << >>]

(* process_format of a format that announces: the row, then the data of a  *)
(* fixext.                                                                 *)
LEMMA RowProcessed ==
  ASSUME NEW k, k.format \in DOMAIN NumberFormats, k.format \notin DOMAIN WholeFormats,
         NEW n, n = NumberFormats[k.format], NEW z, RowSet(z, k, n)
  PROVE  WithBinary(FormatProcessed(k), z, n)
BY DEF FormatProcessed, RowSet, WithBinary

(* After its first byte the object is in the context, or the number is     *)
(* waited for.                                                             *)
LEMMA FormatRead ==
  ASSUME NEW m \in Readers, WaitInv(m), NEW o \in AllObjects,
         NEW k, k = [m EXCEPT !.format = Built[o][1]], NEW x, x = FormatProcessed(k)
  PROVE  /\ x \in Readers /\ x.status \in {"xchange_object", "receive_number"}
         /\ x.status = "xchange_object" => DoneInv(x, o) /\ Len(Built[o]) = 1
         /\ x.status = "receive_number" =>
              NumInv(x, o, 1) /\ x.number = << >> /\ Len(Built[o]) = 1 + x.number_need
<1>1. PICK f, w : IsHeader(o, f, w)
  BY HeaderShape
<1>2. /\ f \in 0 .. 255 /\ w \in Bytes /\ f = Built[o][1] /\ Len(w) = Following(f)
      /\ Len(Built[o]) = 1 + Len(w) /\ Meaning(o) = MeaningOf(f, w)
  BY <1>1 DEF IsHeader
<1>3. PICK u \in Memory : u = m.object.memory
  BY HeldIs DEF Readers
<1>4. /\ k \in Readers /\ k.format = f /\ k.object = m.object /\ k.number = m.number
      /\ k.number_need = m.number_need /\ k.binary_read = m.binary_read
      /\ k.binary_need = m.binary_need
  <2>1. f \in 0 .. 255 /\ k = [m EXCEPT !.format = f]
    BY <1>2
  <2> QED BY <2>1 DEF Readers
<1>5. o \in ObjectSet
  BY ObjectIs
<1>6. CASE Following(f) = 0
  <2>1. f \in DOMAIN WholeFormats /\ PutHolds(WholeFormats[f], u, m.binary_need, o)
    BY <1>2, <1>5, <1>6, FormatHolds
  <2>2. PICK r : r = WholeFormats[f]
    OBVIOUS
  <2>3. PICK v \in Memory : v = Put(u, r.put) /\ Holds(Object(r.type, v), m.binary_need, o)
    BY <2>1, <2>2 DEF PutHolds
  <2>4. r.type \in Types
    BY <2>1, <2>2 DEF PutHolds
  <2>5. f \notin DOMAIN NumberFormats
    BY <2>1, FormatDomains
  <2>6. x = [k EXCEPT !.status = "xchange_object", !.object = Object(r.type, v)]
    BY <1>3, <1>4, <2>1, <2>2, <2>3, <2>5 DEF FormatProcessed
  <2>7. Object(r.type, v) \in Held
    BY <2>4, HeldIs
  <2>12. PICK y \in Held : y = Object(r.type, v)
    BY <2>7
  <2>13. x = [k EXCEPT !.status = "xchange_object", !.object = y]
    BY <2>6, <2>12
  <2>14. k \in Readers
    BY <1>4
  <2>15. Fields(x, "xchange_object", y, k.format, k.number, k.number_need,
                k.binary_need, k.binary_read)
    BY <2>13, <2>14, ObjectPut
  <2>8. /\ x \in Readers /\ x.status = "xchange_object" /\ x.object = y
        /\ x.number = k.number /\ x.number_need = k.number_need
        /\ x.binary_read = k.binary_read /\ x.binary_need = k.binary_need
    BY <2>15 DEF Fields
  <2>9. /\ x.number = m.number /\ x.number_need = m.number_need
        /\ x.binary_read = m.binary_read /\ x.binary_need = m.binary_need
        /\ x.object = Object(r.type, v)
    BY <1>4, <2>8, <2>12
  <2>10. DoneInv(x, o)
    <3>1. Len(x.number) <= x.number_need /\ x.binary_read <= x.binary_need
      BY <2>9 DEF WaitInv
    <3>2. Holds(x.object, x.binary_need, o)
      BY <2>3, <2>8, <2>9
    <3> QED BY <2>8, <3>1, <3>2 DEF DoneInv
  <2>11. Len(Built[o]) = 1
    BY <1>2, <1>6
  <2> QED BY <2>8, <2>10, <2>11
<1>7. CASE Following(f) # 0
  <2>1. f \in 196 .. 223
    <3> SUFFICES ASSUME f \notin 196 .. 223 PROVE FALSE
      OBVIOUS
    <3>3. f \in 0 .. 255
      BY <1>2
    <3>1. f <= 195 \/ f >= 224
      BY <3>3
    <3>2. Following(f) = 0
      BY <3>1 DEF Following
    <3> QED BY <1>7, <3>2
  <2>2. f \in DOMAIN NumberFormats /\ f \notin DOMAIN WholeFormats
    BY <2>1, FormatDomains
  <2>3. PICK n : n = NumberFormats[f] /\ Announces(f, n)
    BY <2>1, RowsAnnounce
  <2>22. PICK y \in Held : y = Object(n.type, u) /\ y.type = n.type
    BY <2>3, HeldIs DEF Announces
  <2>4. PICK z : RowSet(z, k, n)
    BY DEF RowSet
  <2>5. WithBinary(x, z, n)
    <3>1. /\ k.format \in DOMAIN NumberFormats /\ k.format \notin DOMAIN WholeFormats
          /\ n = NumberFormats[k.format]
      BY <1>4, <2>2, <2>3
    <3> QED BY <2>4, <3>1, RowProcessed
  <2>23. z = [k EXCEPT !.status = "receive_number", !.object = y,
                       !.number_need = n.need, !.number = << >>]
    <3>1. Object(n.type, k.object.memory) = y
      BY <1>3, <1>4, <2>22
    <3> QED BY <2>4, <3>1 DEF RowSet
  <2>24. Fields(z, "receive_number", y, k.format, << >>, n.need, k.binary_need, k.binary_read)
    <3>1. k \in Readers
      BY <1>4
    <3>2. n.need \in 0 .. 10
      BY <2>3 DEF Announces
    <3> QED BY <2>23, <3>1, <3>2, FormatAnnounced
  <2>6. /\ n.type \in Types /\ n.need = Following(f) /\ n.need \in 1 .. 8 /\ n.binary \in 0 .. 16
    BY <2>3 DEF Announces
  <2>8. z \in Readers
    BY <2>24 DEF Fields
  <2>9. /\ z.status = "receive_number" /\ z.number = << >> /\ z.number_need = n.need
        /\ z.binary_read = 0 /\ z.binary_need = 0
        /\ z.object = y /\ z.format = f
    <3>1. k.binary_read = 0 /\ k.binary_need = 0 /\ k.format = f
      BY <1>4 DEF WaitInv
    <3> QED BY <2>24, <3>1 DEF Fields
  <2>25. Fields(x, "receive_number", y, f, << >>, n.need, n.binary, 0)
    <3>1. CASE n.binary = 0
      <4>1. x = z
        BY <2>5, <3>1 DEF WithBinary
      <4> QED BY <2>8, <2>9, <3>1, <4>1 DEF Fields
    <3>2. CASE n.binary # 0
      <4>1. x = [z EXCEPT !.binary_need = n.binary, !.binary_read = 0]
        BY <2>5, <3>2, SMTT(30) DEF WithBinary
      <4>2. Fields(x, z.status, z.object, z.format, z.number, z.number_need, n.binary, 0)
        BY <2>6, <2>8, <4>1, BinaryAnnounced, ZenonT(60)
      <4> QED BY <2>9, <4>2 DEF Fields
    <3> QED BY <3>1, <3>2
  <2>10. x \in Readers
    BY <2>25 DEF Fields
  <2>11. /\ x.status = "receive_number" /\ x.number = << >> /\ x.number_need = n.need
         /\ x.binary_read = 0 /\ x.binary_need = n.binary
         /\ x.object = y /\ x.format = f
    BY <2>25 DEF Fields
  <2>12. f \in 212 .. 216 => n.binary = 2 ^ (f - 212)
    <3> SUFFICES ASSUME f \in 212 .. 216 PROVE n.binary = 2 ^ (f - 212)
      OBVIOUS
    <3>1. NumberFormats[f] = Announced("ext", 1, 2 ^ (f - 212))
      BY FixextRowIs
    <3> QED BY <2>3, <3>1 DEF Announced
  <2>13. SubSeq(Built[o], 2, 1) = << >>
    OBVIOUS
  <2>14. 1 \in 1 .. Len(Built[o]) /\ Len(Built[o]) = 1 + n.need
    BY <1>2, <2>6
  <2>15. x.object.type = n.type
    BY <2>11, <2>22
  <2>17. Len(x.number) = 0
    BY <2>11
  <2>18. x.number_need = Following(x.format) /\ x.object.type = NumberFormats[x.format].type
    BY <2>3, <2>6, <2>11, <2>15
  <2>19. x.format \in 212 .. 216 => x.binary_need = 2 ^ (x.format - 212)
    BY <2>11, <2>12
  <2>20. x.format \in 196 .. 223 /\ x.format = Built[o][1]
    <3>1. f = Built[o][1] /\ x.format = f
      BY <1>2, <2>11
    <3> QED BY <2>1, <3>1
  <2>21. x.number = SubSeq(Built[o], 2, 1) /\ 1 = 1 + Len(x.number)
    <3>1. x.number = << >>
      BY <2>11
    <3>2. 1 = 1 + Len(x.number)
      BY <2>17
    <3> QED BY <2>13, <3>1, <3>2
  <2>16. NumInv(x, o, 1)
    BY <2>11, <2>14, <2>18, <2>19, <2>20, <2>21 DEF NumInv
  <2> QED BY <2>10, <2>11, <2>14, <2>16
<1> QED BY <1>6, <1>7

(* Two parts that follow each other are one.                               *)
LEMMA JoinPart ==
  ASSUME NEW S, NEW h \in Seq(S), NEW a \in 0 .. Len(h), NEW b \in a .. Len(h), NEW c \in b .. Len(h)
  PROVE  SubSeq(h, a + 1, b) \o SubSeq(h, b + 1, c) = SubSeq(h, a + 1, c)
<1>1. PICK l \in Nat : l = Len(h)
  BY LenProperties
<1>2. a \in Nat /\ b \in Nat /\ c \in Nat /\ a <= b /\ b <= c /\ c <= l
  BY <1>1
<1>3. PICK x \in Seq(S) : /\ x = SubSeq(h, a + 1, b) /\ Len(x) = b - a
                          /\ \A i \in 1 .. b - a : x[i] = h[i + a]
  <2>1. /\ SubSeq(h, a + 1, b) \in Seq(S) /\ Len(SubSeq(h, a + 1, b)) = b - a
        /\ \A i \in 1 .. b - a : SubSeq(h, a + 1, b)[i] = h[i + a]
    BY PartIs
  <2> QED BY <2>1
<1>4. PICK y \in Seq(S) : /\ y = SubSeq(h, b + 1, c) /\ Len(y) = c - b
                          /\ \A i \in 1 .. c - b : y[i] = h[i + b]
  <2>1. b \in 0 .. Len(h)
    BY <1>1, <1>2
  <2>2. /\ SubSeq(h, b + 1, c) \in Seq(S) /\ Len(SubSeq(h, b + 1, c)) = c - b
        /\ \A i \in 1 .. c - b : SubSeq(h, b + 1, c)[i] = h[i + b]
    BY <2>1, PartIs
  <2> QED BY <2>2
<1>5. PICK t \in Seq(S) : /\ t = SubSeq(h, a + 1, c) /\ Len(t) = c - a
                          /\ \A i \in 1 .. c - a : t[i] = h[i + a]
  <2>1. c \in a .. Len(h)
    BY <1>1, <1>2
  <2>2. /\ SubSeq(h, a + 1, c) \in Seq(S) /\ Len(SubSeq(h, a + 1, c)) = c - a
        /\ \A i \in 1 .. c - a : SubSeq(h, a + 1, c)[i] = h[i + a]
    BY <2>1, PartIs
  <2> QED BY <2>2
<1>6. PICK q \in Seq(S) : /\ q = x \o y /\ Len(q) = c - a
                          /\ \A i \in 1 .. c - a : q[i] = IF i <= b - a THEN x[i] ELSE y[i - (b - a)]
  <2>1. /\ x \o y \in Seq(S) /\ Len(x \o y) = Len(x) + Len(y)
        /\ \A i \in 1 .. Len(x) + Len(y) :
             (x \o y)[i] = IF i <= Len(x) THEN x[i] ELSE y[i - Len(x)]
    BY ConcatProperties
  <2>2. Len(x) + Len(y) = c - a
    BY <1>2, <1>3, <1>4
  <2>3. \A i \in 1 .. c - a : (x \o y)[i] = IF i <= b - a THEN x[i] ELSE y[i - (b - a)]
    <3>1. Len(x) = b - a
      BY <1>3
    <3> QED BY <2>1, <2>2, <3>1
  <2>4. x \o y \in Seq(S) /\ Len(x \o y) = c - a
    BY <2>1, <2>2
  <2> QED BY <2>3, <2>4
<1>7. \A i \in 1 .. c - a : q[i] = t[i]
  <2> SUFFICES ASSUME NEW i \in 1 .. c - a PROVE q[i] = t[i]
    OBVIOUS
  <2>1. CASE i <= b - a
    <3>1. i \in 1 .. b - a
      BY <1>2, <2>1
    <3> QED BY <1>3, <1>5, <1>6, <2>1, <3>1
  <2>2. CASE ~(i <= b - a)
    <3>1. i - (b - a) \in 1 .. c - b /\ i - (b - a) + b = i + a
      BY <1>2, <2>2
    <3> QED BY <1>4, <1>5, <1>6, <2>2, <3>1
  <2> QED BY <2>1, <2>2
<1>8. q = t
  BY <1>5, <1>6, <1>7, SeqEqual
<1> QED BY <1>3, <1>4, <1>5, <1>6, <1>8

(* More bytes of the number are still its first bytes.                     *)
LEMMA NumberGrows ==
  ASSUME NEW m \in Readers, NEW o, NEW b, NumInv(m, o, b), NEW n \in Nat, b + n <= Len(Built[o]),
         NEW k, k = [m EXCEPT !.number = @ \o SubSeq(Built[o], b + 1, b + n)]
  PROVE  k \in Readers /\ NumInv(k, o, b + n)
<1>1. PICK h \in Seq(0 .. 255), l \in 1 .. 10 : h = Built[o] /\ l = Len(h)
  BY BuiltIs DEF NumInv, Bytes
<1>2. b \in 1 .. l
  BY <1>1 DEF NumInv
<1>3. PICK c \in 1 .. l : c = b + n /\ c \in b .. l
  <2>1. b + n <= l
    BY <1>1
  <2> QED BY <1>2, <2>1
<1>4. PICK t \in Bytes : /\ t = SubSeq(h, 1 + 1, c) /\ c = 1 + Len(t)
                         /\ t = SubSeq(h, 1 + 1, b) \o SubSeq(h, b + 1, c)
  <2>1. 1 \in 0 .. Len(h) /\ c \in 1 .. Len(h) /\ b \in 1 .. Len(h) /\ c \in b .. Len(h)
    BY <1>1, <1>2, <1>3
  <2>2. SubSeq(h, 1 + 1, c) \in Seq(0 .. 255) /\ Len(SubSeq(h, 1 + 1, c)) = c - 1
    BY <2>1, PartIs, ZenonT(60)
  <2>3. SubSeq(h, 1 + 1, b) \o SubSeq(h, b + 1, c) = SubSeq(h, 1 + 1, c)
    BY <2>1, JoinPart
  <2>4. c = 1 + (c - 1)
    BY <1>3
  <2>5. SubSeq(h, 1 + 1, c) \in Bytes
    BY <2>2 DEF Bytes
  <2>6. c = 1 + Len(SubSeq(h, 1 + 1, c))
    BY <2>2, <2>4
  <2> QED BY <2>3, <2>5, <2>6
<1>5. 1 + 1 = 2
  OBVIOUS
<1>6. m.number = SubSeq(h, 1 + 1, b)
  BY <1>1, <1>5 DEF NumInv
<1>7. k = [m EXCEPT !.number = t]
  BY <1>1, <1>3, <1>4, <1>6
<1>8. /\ k \in Readers /\ k.number = t /\ k.status = m.status /\ k.format = m.format
      /\ k.object = m.object /\ k.number_need = m.number_need
      /\ k.binary_read = m.binary_read /\ k.binary_need = m.binary_need
  <2>1. Fields(k, m.status, m.object, m.format, t, m.number_need, m.binary_need, m.binary_read)
    BY <1>7, NumberSet
  <2> QED BY <2>1 DEF Fields
<1>9. k.number = SubSeq(Built[o], 2, c) /\ c = 1 + Len(k.number)
  BY <1>1, <1>4, <1>5, <1>8
<1>10. c \in 1 .. Len(Built[o])
  BY <1>1
<1>11. NumInv(k, o, c)
  <2>1. /\ o \in AllObjects /\ m.status = "receive_number" /\ m.format \in 196 .. 223
        /\ m.format = Built[o][1] /\ m.object.type = NumberFormats[m.format].type
        /\ m.number_need = Following(m.format) /\ m.binary_read = 0
        /\ m.format \in 212 .. 216 => m.binary_need = 2 ^ (m.format - 212)
    BY DEF NumInv
  <2> QED BY <1>8, <1>9, <1>10, <2>1 DEF NumInv
<1> QED BY <1>3, <1>8, <1>11

(* With the last byte of the number the object is in the context.          *)
LEMMA NumberEnds ==
  ASSUME NEW m \in Readers, NEW o, NEW b, NumInv(m, o, b), ~(Len(m.number) < m.number_need),
         NEW x, x = NumberProcessed(m)
  PROVE  x \in Readers /\ DoneInv(x, o) /\ b = Len(Built[o])
<1>1. PICK f, w : IsHeader(o, f, w)
  BY HeaderShape DEF NumInv
<1>2. /\ f \in 0 .. 255 /\ w \in Bytes /\ f = Built[o][1] /\ Len(w) = Following(f)
      /\ Len(Built[o]) = 1 + Len(w) /\ Meaning(o) = MeaningOf(f, w)
      /\ f \in 199 .. 201 => ~IsFixext(o)
  BY <1>1 DEF IsHeader
<1>3. /\ o \in AllObjects /\ o \in ObjectSet /\ f \in 196 .. 223 /\ m.format = f
      /\ m.object.type = NumberFormats[f].type /\ m.number_need = Following(f)
      /\ f \in 212 .. 216 => m.binary_need = 2 ^ (f - 212)
  BY <1>2, ObjectIs DEF NumInv
<1>4. PICK l \in 1 .. 10 : l = Len(Built[o])
  BY <1>3, BuiltIs
<1>5. b \in 1 .. l /\ b = 1 + Len(m.number) /\ m.number_need = l - 1
  BY <1>2, <1>3, <1>4, LenProperties DEF NumInv, Bytes
<1>6. b = l
  BY <1>5, LenProperties DEF Readers, Bytes
<1>7. m.number = w
  BY <1>1, <1>3, <1>4, <1>6, HeaderParts DEF NumInv
<1>8. PICK u \in Memory : u = m.object.memory
  BY HeldIs DEF Readers
<1>9. PICK v : v = NumberPut(f, w, u) /\ RowHolds(f, v, m.binary_need, o)
  BY <1>2, <1>3, NumberPutHolds
<1>10. v \in Memory /\ Holds(Object(m.object.type, v), m.binary_need, o)
  BY <1>3, <1>9 DEF RowHolds
<1>11. x = [m EXCEPT !.status = "xchange_object", !.object = Object(m.object.type, v)]
  BY <1>3, <1>7, <1>8, <1>9 DEF NumberProcessed
<1>16. PICK y \in Held : y = Object(m.object.type, v)
  BY <1>10, HeldIs DEF Readers
<1>17. x = [m EXCEPT !.status = "xchange_object", !.object = y]
  BY <1>11, <1>16
<1>12. /\ x \in Readers /\ x.status = "xchange_object" /\ x.number = m.number
       /\ x.number_need = m.number_need /\ x.object = y
       /\ x.binary_read = m.binary_read /\ x.binary_need = m.binary_need
  <2>1. Fields(x, "xchange_object", y, m.format, m.number, m.number_need,
               m.binary_need, m.binary_read)
    BY <1>17, ObjectPut
  <2> QED BY <2>1 DEF Fields
<1>13. x.number = w /\ x.object = Object(m.object.type, v)
  BY <1>7, <1>12, <1>16
<1>14. Len(w) <= m.number_need /\ m.binary_read <= m.binary_need
  <2>1. PICK r : r = m.number_need /\ r = Len(w) /\ r \in 0 .. 10
    BY <1>2, <1>3 DEF Readers
  <2>2. m.binary_read = 0 /\ m.binary_need \in 0 .. 16
    BY DEF Readers, NumInv
  <2> QED BY <2>1, <2>2
<1>15. DoneInv(x, o)
  <2>1. Len(x.number) <= x.number_need /\ x.binary_read <= x.binary_need
    BY <1>12, <1>13, <1>14
  <2>2. Holds(x.object, x.binary_need, o)
    BY <1>10, <1>12, <1>13
  <2> QED BY <1>3, <1>12, <2>1, <2>2 DEF DoneInv
<1> QED BY <1>4, <1>6, <1>12, <1>15

---------------------------------------------------------------------------
(* The invariant of the reader, over its context m, its place p and the    *)
(* stream s.                                                               *)

Places == [entry : Nat \ {0}, byte : Nat]

ReadInv(m, p, s) ==
  /\ m \in Readers /\ p \in Places /\ p.entry \in 1 .. Len(s) + 1
  /\ m.status = "receive_format" => WaitInv(m) /\ p.byte = 0
  /\ m.status # "receive_format" => p.entry \in 1 .. Len(s)
  /\ m.status = "receive_number" =>
       /\ NumInv(m, s[p.entry].of, p.byte) /\ Len(m.number) < m.number_need
       /\ p.byte <= Len(s[p.entry].head)
  /\ m.status = "xchange_object" =>
       /\ DoneInv(m, s[p.entry].of) /\ Len(Built[s[p.entry].of]) <= p.byte
       /\ p.byte <= Len(s[p.entry].head) + DataLen(s[p.entry])

\* The reader is at entry e, of o, which has so many bytes of header and data.
At(e, o, hl, dl, bl) ==
  /\ place \in Places /\ place.entry \in 1 .. Len(stream)
  /\ e = stream[place.entry] /\ e \in Entries /\ Sound(e) /\ o = e.of /\ o \in AllObjects
  /\ hl = Len(e.head) /\ hl \in 1 .. 10 /\ dl = DataLen(e) /\ dl \in Nat
  /\ bl = Len(Built[o]) /\ bl \in 1 .. 10 /\ hl <= bl
  /\ hl < bl => dl = 0
  /\ \A i \in 1 .. hl : e.head[i] = Built[o][i]

(* The entry at the reader's place.                                        *)
LEMMA AtIs ==
  ASSUME place \in Places, stream \in Seq(Entries), AllSound(stream),
         place.entry \in 1 .. Len(stream)
  PROVE  \E e, o, hl, dl, bl : At(e, o, hl, dl, bl)
<1>1. PICK e : e = stream[place.entry]
  OBVIOUS
<1>2. e \in Entries /\ Sound(e)
  <2>1. e \in Entries
    BY <1>1, ElementOfSeq
  <2>2. Sound(e)
    BY <1>1 DEF AllSound
  <2> QED BY <2>1, <2>2
<1>3. PICK o \in AllObjects : o = e.of
  BY <1>2 DEF Entries
<1>4. PICK hl \in 1 .. 10, bl \in 1 .. 10, dl \in Nat :
         /\ hl = Len(e.head) /\ bl = Len(Built[o]) /\ dl = DataLen(e)
         /\ hl <= bl
         /\ e.head # Built[o] => dl = 0 /\ hl < bl
         /\ \A i \in 1 .. hl : e.head[i] = Built[o][i]
  BY <1>2, <1>3, SoundIs
<1>5. hl < bl => dl = 0
  <2>1. hl < bl => e.head # Built[o]
    BY <1>4
  <2> QED BY <1>4, <2>1
<1>6. At(e, o, hl, dl, bl)
  BY <1>1, <1>2, <1>3, <1>4, <1>5 DEF At
<1> QED BY <1>6

(* What is read there before the data are the bytes of the header that was *)
(* built.                                                                  *)
LEMMA BytesAre ==
  ASSUME NEW e, NEW o, NEW hl, NEW dl, NEW bl, At(e, o, hl, dl, bl),
         NEW from \in Nat, NEW n \in Nat, from + n <= hl + dl, from + n <= bl
  PROVE  /\ from + n <= hl
         /\ BytesAt(from, n) = SubSeq(Built[o], from + 1, from + n)
<1>1. /\ hl = Len(e.head) /\ hl \in 1 .. 10 /\ dl \in Nat
      /\ bl = Len(Built[o]) /\ bl \in 1 .. 10 /\ hl <= bl /\ o \in AllObjects
      /\ e = Entry
  BY DEF At, Entry
<1>2. from + n <= hl
  <2>1. CASE hl < bl
    <3>1. dl = 0
      BY <2>1 DEF At
    <3> QED BY <1>1, <3>1
  <2>2. CASE ~(hl < bl)
    BY <1>1, <2>2
  <2> QED BY <2>1, <2>2
<1>3. PICK h \in Seq(0 .. 255) : h = Built[o] /\ Len(h) = bl
  BY <1>1, BuiltIs DEF Bytes
<1>4. PICK c \in Nat : c = from + n
  OBVIOUS
<1>5. PICK t \in Seq(0 .. 255) : /\ t = SubSeq(h, from + 1, c) /\ Len(t) = n
                                 /\ \A i \in 1 .. n : t[i] = h[i + from]
  <2>1. from \in 0 .. Len(h) /\ c \in from .. Len(h)
    BY <1>1, <1>3, <1>4
  <2>2. c - from = n
    BY <1>4
  <2>3. /\ SubSeq(h, from + 1, c) \in Seq(0 .. 255) /\ Len(SubSeq(h, from + 1, c)) = c - from
        /\ \A i \in 1 .. c - from : SubSeq(h, from + 1, c)[i] = h[i + from]
    BY <2>1, PartIs
  <2> QED BY <2>2, <2>3
<1>6. PICK x : x = BytesAt(from, n)
  OBVIOUS
<1>7. x = [i \in 1 .. n |-> IF from + i <= hl THEN e.head[from + i] ELSE DataByte]
  BY <1>1, <1>6 DEF BytesAt
<1>8. \A i \in 1 .. n : from + i \in 1 .. hl /\ from + i = i + from /\ from + i <= hl
  BY <1>1, <1>2
<1>9. \A i \in 1 .. n : x[i] = h[i + from]
  <2> SUFFICES ASSUME NEW i \in 1 .. n PROVE x[i] = h[i + from]
    OBVIOUS
  <2>1. from + i \in 1 .. hl /\ from + i = i + from /\ from + i <= hl
    BY <1>8
  <2>2. e.head[from + i] = Built[o][from + i]
    BY <2>1 DEF At
  <2> QED BY <1>3, <1>7, <2>1, <2>2
<1>10. x \in Seq(0 .. 255) /\ Len(x) = n
  <2>1. \A i \in 1 .. n : t[i] \in 0 .. 255
    BY <1>5, ElementOfSeq
  <2>3. \A i \in 1 .. n : x[i] \in 0 .. 255
    BY <1>5, <1>9, <2>1
  <2>2. x \in [1 .. n -> 0 .. 255]
    BY <1>7, <2>3
  <2> QED BY <2>2
<1>11. x = t
  BY <1>5, <1>9, <1>10, SeqEqual
<1> QED BY <1>2, <1>3, <1>4, <1>5, <1>6, <1>11

\* From the bytes of a number on.
LEMMA NumberReceivedIs ==
  ASSUME NEW e, NEW o, NEW hl, NEW dl, NEW bl, At(e, o, hl, dl, bl),
         NEW m \in Readers, NEW b \in Nat, NumInv(m, o, b),
         NEW n \in Nat, b + n <= hl + dl, b + n <= bl,
         NumberReceived(m, b, n)
  PROVE  /\ ReadInv(mread', place', stream)
         /\ mread'.status = "xchange_object" => place'.byte = Len(Built[stream[place'.entry].of])
<1>1. b + n <= hl /\ BytesAt(b, n) = SubSeq(Built[o], b + 1, b + n)
  BY BytesAre
<1>2. PICK k : k = [m EXCEPT !.number = @ \o SubSeq(Built[o], b + 1, b + n)]
  OBVIOUS
<1>3. /\ mread' = IF Len(k.number) < k.number_need THEN k ELSE NumberProcessed(k)
      /\ place' = [place EXCEPT !.byte = b + n]
  BY <1>1, <1>2 DEF NumberReceived
<1>4. /\ place \in Places /\ place.entry \in 1 .. Len(stream) /\ e = stream[place.entry]
      /\ o = e.of /\ hl = Len(e.head) /\ dl = DataLen(e) /\ bl = Len(Built[o])
      /\ hl \in 1 .. 10 /\ dl \in Nat /\ bl \in 1 .. 10
  BY DEF At
<1>5. place' \in Places /\ place'.entry = place.entry /\ place'.byte = b + n
  <2>1. b + n \in Nat
    OBVIOUS
  <2> QED BY <1>3, <1>4, <2>1 DEF Places
<1>6. k \in Readers /\ NumInv(k, o, b + n)
  <2>1. b + n <= Len(Built[o])
    BY <1>4
  <2> QED BY <1>2, <2>1, NumberGrows
<1>7. Len(stream) + 1 \in Int /\ place.entry \in 1 .. Len(stream) + 1
  BY <1>4 DEF Places
<1>8. CASE Len(k.number) < k.number_need
  <2>1. mread' = k /\ k.status = "receive_number"
    BY <1>3, <1>6, <1>8 DEF NumInv
  <2> QED BY <1>1, <1>4, <1>5, <1>6, <1>7, <1>8, <2>1 DEF ReadInv
<1>9. CASE ~(Len(k.number) < k.number_need)
  <2>1. PICK x : x = NumberProcessed(k)
    OBVIOUS
  <2>2. mread' = x
    BY <1>3, <1>9, <2>1
  <2>3. x \in Readers /\ DoneInv(x, o) /\ b + n = Len(Built[o])
    BY <1>6, <1>9, <2>1, NumberEnds
  <2>4. x.status = "xchange_object"
    BY <2>3 DEF DoneInv
  <2>5. Len(Built[o]) <= b + n
    BY <1>4, <2>3
  <2> QED BY <1>4, <1>5, <1>7, <2>2, <2>3, <2>4, <2>5 DEF ReadInv
<1> QED BY <1>8, <1>9

---------------------------------------------------------------------------
(* What the calls do to it.                                                *)

\* When the reader gets an object it is at the end of its header.
InStep ==
  mread'.status = "xchange_object" /\ mread.status # "xchange_object"
    => place'.byte = Len(Built[stream[place'.entry].of])

(* Take moves on within the entry.                                         *)
LEMMA Taking ==
  ASSUME place \in Places, NEW n \in Nat, Take(n)
  PROVE  place' \in Places /\ place'.entry = place.entry /\ place'.byte = place.byte + n
<1>1. place.byte + n \in Nat
  BY DEF Places
<1> QED BY <1>1 DEF Take, Places

(* What has arrived is the rest of the entry.                              *)
LEMMA ArrivedIs ==
  ASSUME NEW e, NEW o, NEW hl, NEW dl, NEW bl, At(e, o, hl, dl, bl)
  PROVE  Arrived = hl + dl - place.byte
<1>1. /\ place.entry \in 1 .. Len(stream) /\ e = Entry /\ hl = Len(e.head) /\ dl = DataLen(e)
  BY DEF At, Entry
<1>2. ~(place.entry > Len(stream))
  BY <1>1, LenProperties
<1> QED BY <1>1, <1>2 DEF Arrived

(* receive_object of a context that waits for a format keeps the           *)
(* invariant.                                                              *)
LEMMA ReceiveFormatIs ==
  ASSUME ReadInv(mread, place, stream), stream \in Seq(Entries), AllSound(stream), ReceiveFormat
  PROVE  ReadInv(mread', place', stream) /\ InStep
<1>1. /\ mread \in Readers /\ place \in Places /\ place.entry \in 1 .. Len(stream) + 1
      /\ mread.status = "receive_format" /\ WaitInv(mread) /\ place.byte = 0
  BY DEF ReadInv, ReceiveFormat
<1>2. CASE UNCHANGED <<mread, place>>
  BY <1>1, <1>2 DEF InStep
<1>3. ASSUME Arrived > 0,
             NEW m, m = FormatProcessed([mread EXCEPT !.format = BytesAt(place.byte, 1)[1]]),
             m.status = "xchange_object" => mread' = m /\ Take(1),
             m.status = "receive_number" =>
               \E n \in {0, 1, m.number_need} : n < Arrived /\ NumberReceived(m, place.byte + 1, n)
      PROVE  ReadInv(mread', place', stream) /\ InStep
  <2>1. PICK len \in Nat : len = Len(stream)
    BY LenProperties
  <2>2. place.entry \in 1 .. Len(stream)
    <3>1. ~(place.entry > len)
      BY <1>3, <2>1 DEF Arrived
    <3> QED BY <1>1, <2>1, <3>1
  <2>3. PICK e, o, hl, dl, bl : At(e, o, hl, dl, bl)
    BY <1>1, <2>2, AtIs
  <2>4. /\ hl \in 1 .. 10 /\ dl \in Nat /\ bl \in 1 .. 10 /\ bl = Len(Built[o]) /\ o \in AllObjects
        /\ e = stream[place.entry] /\ o = e.of /\ hl = Len(e.head) /\ dl = DataLen(e)
    BY <2>3 DEF At
  <2>40. hl \in 1 .. 10 /\ dl \in Nat /\ bl \in 1 .. 10
    BY <2>4
  <2>5. Arrived = hl + dl
    BY <1>1, <2>3, <2>4, ArrivedIs
  <2>6. BytesAt(0, 1)[1] = Built[o][1]
    <3>1. PICK h \in Seq(0 .. 255) : h = Built[o] /\ Len(h) = bl
      BY <2>4, BuiltIs DEF Bytes
    <3>2. PICK z \in Nat, a \in Nat : z = 0 /\ a = 1 /\ z + a = 1
      OBVIOUS
    <3>3. z + a <= hl + dl /\ z + a <= bl
      <4>1. 1 <= hl + dl /\ 1 <= bl
        BY <2>40
      <4> QED BY <3>2, <4>1
    <3>4. BytesAt(z, a) = SubSeq(Built[o], z + 1, z + a)
      BY <2>3, <3>3, BytesAre
    <3>5. a \in 0 .. Len(h) /\ a \in 1 .. a
      <4>1. 1 \in 0 .. bl /\ 1 \in 1 .. 1
        BY <2>40
      <4>2. a = 1 /\ Len(h) = bl
        BY <3>1, <3>2
      <4> QED BY <4>1, <4>2
    <3>6. SubSeq(h, 1, a)[a] = h[a]
      BY <3>5, FrontIs
    <3> QED BY <3>1, <3>2, <3>4, <3>6
  <2>7. PICK k : k = [mread EXCEPT !.format = Built[o][1]]
    OBVIOUS
  <2>8. m = FormatProcessed(k)
    BY <1>1, <1>3, <2>6, <2>7
  <2>9. /\ m \in Readers /\ m.status \in {"xchange_object", "receive_number"}
        /\ m.status = "xchange_object" => DoneInv(m, o) /\ Len(Built[o]) = 1
        /\ m.status = "receive_number" =>
             NumInv(m, o, 1) /\ m.number = << >> /\ Len(Built[o]) = 1 + m.number_need
    BY <1>1, <2>4, <2>7, <2>8, FormatRead
  <2>10. CASE m.status = "xchange_object"
    <3>1. mread' = m /\ Take(1) /\ DoneInv(m, o) /\ bl = 1
      BY <1>3, <2>4, <2>9, <2>10
    <3>2. place' \in Places /\ place'.entry = place.entry /\ place'.byte = 1
      BY <1>1, <3>1, Taking
    <3>3. Len(Built[o]) <= 1 /\ 1 <= Len(e.head) + DataLen(e)
      <4>1. bl <= 1 /\ 1 <= hl + dl
        <5>1. bl = 1
          BY <3>1
        <5> QED BY <2>40, <5>1
      <4> QED BY <2>4, <4>1
    <3> QED BY <1>1, <2>2, <2>4, <2>9, <2>10, <3>1, <3>2, <3>3 DEF ReadInv, InStep
  <2>11. CASE m.status = "receive_number"
    <3>1. NumInv(m, o, 1) /\ bl = 1 + m.number_need
      BY <2>4, <2>9, <2>11
    <3>2. PICK n \in {0, 1, m.number_need} : n < Arrived /\ NumberReceived(m, 1, n)
      BY <1>1, <1>3, <2>11
    <3>3. m.number_need \in 1 .. 10
      <4>1. m.number_need \in 0 .. 10 /\ m.number_need = Following(m.format)
            /\ m.format \in 196 .. 223
        BY <2>9, <3>1 DEF NumInv, Readers
      <4>2. m.number_need \in 1 .. 8
        BY <4>1, RowsAnnounce DEF Announces
      <4> QED BY <4>2
    <3>4. n \in Nat /\ 1 + n <= hl + dl /\ 1 + n <= bl
      <4>1. PICK q \in 1 .. 10 : q = m.number_need
        BY <3>3
      <4>2. n \in {0, 1, q} /\ n < hl + dl /\ bl = 1 + q
        BY <2>5, <3>1, <3>2, <4>1
      <4> QED BY <2>40, <4>2
    <3>5. PICK b \in Nat : b = 1
      OBVIOUS
    <3>6. /\ ReadInv(mread', place', stream)
          /\ mread'.status = "xchange_object" => place'.byte = Len(Built[stream[place'.entry].of])
      BY <2>3, <2>9, <3>1, <3>2, <3>4, <3>5, NumberReceivedIs
    <3> QED BY <3>6 DEF InStep
  <2> QED BY <2>9, <2>10, <2>11
<1>4. CASE Arrived > 0 /\ ~ UNCHANGED <<mread, place>>
  <2>1. PICK m : m = FormatProcessed([mread EXCEPT !.format = BytesAt(place.byte, 1)[1]])
    OBVIOUS
  <2>2. /\ m.status = "xchange_object" => mread' = m /\ Take(1)
        /\ m.status = "receive_number" =>
             \E n \in {0, 1, m.number_need} : n < Arrived /\ NumberReceived(m, place.byte + 1, n)
    BY <1>4, <2>1 DEF ReceiveFormat
  <2> QED BY <1>3, <1>4, <2>1, <2>2
<1> QED BY <1>2, <1>4 DEF ReceiveFormat

(* The procedure gives no more than it was asked for and has.              *)
LEMMA GivenIs ==
  ASSUME NEW n \in Nat, Arrived \in Nat, NEW x \in Given(n)
  PROVE  x \in Nat /\ x <= n /\ x <= Arrived
<1>1. PICK a \in Nat : a = Arrived
  OBVIOUS
<1>2. PICK k \in Nat : k = Smaller(n, a) /\ k <= n /\ k <= a
  BY <1>1 DEF Smaller
<1>3. x \in {0, k \div 2, k}
  BY <1>1, <1>2 DEF Given
<1>4. PICK h \in Nat : h = k \div 2 /\ h <= k
  OBVIOUS
<1> QED BY <1>1, <1>2, <1>3, <1>4

\* The reader is there, with b bytes of it read and a to come.
Amid(e, o, hl, dl, bl, b, a) ==
  /\ hl \in 1 .. 10 /\ bl \in 1 .. 10 /\ dl \in Nat /\ b \in Nat /\ a \in Nat
  /\ At(e, o, hl, dl, bl) /\ e = stream[place.entry] /\ o = e.of /\ o \in AllObjects
  /\ b = place.byte /\ b + a = hl + dl /\ a = Arrived
  /\ hl = Len(e.head) /\ dl = DataLen(e) /\ bl = Len(Built[o])

(* A reader that has begun an object is within its entry.                  *)
LEMMA InEntry ==
  ASSUME ReadInv(mread, place, stream), stream \in Seq(Entries), AllSound(stream),
         mread.status # "receive_format"
  PROVE  \E e, o, hl, dl, bl, b, a : Amid(e, o, hl, dl, bl, b, a)
<1>1. /\ mread \in Readers /\ place \in Places /\ place.entry \in 1 .. Len(stream)
      /\ mread.status \in {"receive_number", "xchange_object"}
  BY DEF ReadInv, Readers
<1>2. PICK e, o, hl, dl, bl : At(e, o, hl, dl, bl)
  BY <1>1, AtIs
<1>3. /\ hl \in 1 .. 10 /\ dl \in Nat /\ bl \in 1 .. 10 /\ bl = Len(Built[o]) /\ o \in AllObjects
      /\ e = stream[place.entry] /\ o = e.of /\ hl = Len(e.head) /\ dl = DataLen(e)
  BY <1>2 DEF At
<1>4. hl \in 1 .. 10 /\ dl \in Nat /\ bl \in 1 .. 10
  BY <1>3
<1>5. PICK b \in Nat : b = place.byte
  BY <1>1 DEF Places
<1>6. Arrived = hl + dl - b
  BY <1>2, <1>5, ArrivedIs
<1>7. mread.status = "receive_number" => b <= hl
  BY <1>3, <1>5 DEF ReadInv
<1>8. mread.status = "xchange_object" => b <= hl + dl
  BY <1>3, <1>5 DEF ReadInv
<1>9. b <= hl + dl
  <2>1. b <= hl \/ b <= hl + dl
    BY <1>1, <1>7, <1>8
  <2> QED BY <1>4, <1>5, <2>1
<1>10. PICK a \in Nat : a = hl + dl - b /\ b + a = hl + dl
  <2>1. PICK c \in Nat : c = hl + dl
    BY <1>4
  <2>2. b <= c
    BY <1>9, <2>1
  <2>3. PICK a \in Nat : a = c - b /\ b + a = c
    <3>1. \A i \in Nat, j \in Nat : i <= j => j - i \in Nat /\ i + (j - i) = j
      OBVIOUS
    <3> QED BY <1>5, <2>1, <2>2, <3>1
  <2>4. a = hl + dl - b /\ b + a = hl + dl
    BY <1>4, <1>5, <2>1, <2>3
  <2> QED BY <2>4
<1>11. Amid(e, o, hl, dl, bl, b, a)
  BY <1>2, <1>3, <1>4, <1>5, <1>6, <1>10 DEF Amid
<1> QED BY <1>11

(* receive_object of a context that has a part of the number keeps the     *)
(* invariant.                                                              *)
LEMMA ReceiveNumberIs ==
  ASSUME ReadInv(mread, place, stream), stream \in Seq(Entries), AllSound(stream), ReceiveNumber
  PROVE  ReadInv(mread', place', stream) /\ InStep
<1>1. mread.status = "receive_number" /\ mread.status # "receive_format" /\ mread \in Readers
  BY DEF ReceiveNumber, ReadInv
<1>20. PICK e, o, hl, dl, bl, b, a : Amid(e, o, hl, dl, bl, b, a)
  BY <1>1, InEntry
<1>2. /\ At(e, o, hl, dl, bl) /\ e = stream[place.entry] /\ o = e.of /\ o \in AllObjects
      /\ b = place.byte /\ a = Arrived /\ bl = Len(Built[o])
  BY <1>20 DEF Amid
<1>21. /\ hl \in 1 .. 10 /\ bl \in 1 .. 10 /\ dl \in Nat /\ b \in Nat /\ a \in Nat
       /\ b + a = hl + dl
  BY <1>20 DEF Amid
<1>3. NumInv(mread, o, b)
  BY <1>1, <1>2 DEF ReadInv
<1>5. PICK r \in Nat : r = mread.number_need - Len(mread.number) /\ r = bl - b
  <2>1. PICK f, w : IsHeader(o, f, w)
    BY <1>2, HeaderShape
  <2>2. /\ f = Built[o][1] /\ w \in Bytes /\ Len(w) = Following(f) /\ Len(Built[o]) = 1 + Len(w)
    BY <2>1 DEF IsHeader
  <2>3. PICK l \in Nat : l = Len(w)
    BY <2>2, LenProperties DEF Bytes
  <2>4. PICK g \in Nat : g = Len(mread.number)
    BY <1>1, LenProperties DEF Readers, Bytes
  <2>5. mread.number_need = l
    BY <1>3, <2>2, <2>3 DEF NumInv
  <2>6. bl = 1 + l
    BY <1>2, <2>2, <2>3
  <2>7. b = 1 + g /\ b \in 1 .. bl
    BY <1>2, <1>3, <2>4 DEF NumInv
  <2>8. l - g = bl - b /\ l - g \in Nat
    BY <1>21, <2>6, <2>7
  <2> QED BY <2>4, <2>5, <2>8
<1>6. CASE TooMuch
  BY <1>1, <1>6 DEF TooMuch, InStep
<1>7. ASSUME NEW n \in Given(r), NumberReceived(mread, b, n)
      PROVE  ReadInv(mread', place', stream) /\ InStep
  <2>1. n \in Nat /\ n <= r /\ n <= a
    BY <1>2, <1>7, <1>21, GivenIs
  <2>2. b + n <= hl + dl /\ b + n <= bl
    <3>1. r = bl - b
      BY <1>5
    <3> QED BY <1>21, <2>1, <3>1
  <2>3. /\ ReadInv(mread', place', stream)
        /\ mread'.status = "xchange_object" => place'.byte = Len(Built[stream[place'.entry].of])
    BY <1>1, <1>2, <1>3, <1>7, <1>21, <2>1, <2>2, NumberReceivedIs
  <2> QED BY <2>3 DEF InStep
<1>8. TooMuch \/ \E n \in Given(r) : NumberReceived(mread, b, n)
  BY <1>2, <1>5 DEF ReceiveNumber
<1> QED BY <1>6, <1>7, <1>8

(* So does receive_object_binary,                                          *)
LEMMA ReceiveBinaryIs ==
  ASSUME ReadInv(mread, place, stream), stream \in Seq(Entries), AllSound(stream),
         NEW size, ReceiveBinary(size)
  PROVE  ReadInv(mread', place', stream) /\ InStep
<1>1. /\ mread.status = "xchange_object" /\ mread.status # "receive_format" /\ mread \in Readers
      /\ place \in Places /\ place.entry \in 1 .. Len(stream) + 1
      /\ place.entry \in 1 .. Len(stream)
  BY DEF ReceiveBinary, ReadInv
<1>20. PICK e, o, hl, dl, bl, b, a : Amid(e, o, hl, dl, bl, b, a)
  BY <1>1, InEntry
<1>2. /\ e = stream[place.entry] /\ o = e.of /\ o \in AllObjects /\ b = place.byte
      /\ a = Arrived /\ hl = Len(e.head) /\ dl = DataLen(e) /\ bl = Len(Built[o])
  BY <1>20 DEF Amid
<1>21. /\ hl \in 1 .. 10 /\ bl \in 1 .. 10 /\ dl \in Nat /\ b \in Nat /\ a \in Nat
       /\ b + a = hl + dl
  BY <1>20 DEF Amid
<1>3. DoneInv(mread, o) /\ bl <= b
  BY <1>1, <1>2 DEF ReadInv
<1>4. CASE UNCHANGED <<mread, place>>
  BY <1>1, <1>4 DEF InStep
<1>5. PICK q \in Nat, k \in Nat, r \in Nat :
        q = mread.binary_need /\ k = mread.binary_read /\ r = q - k
  <2>1. mread.binary_need \in Nat /\ mread.binary_read \in Nat
    BY <1>1 DEF Readers
  <2>2. mread.binary_read <= mread.binary_need
    BY <1>3 DEF DoneInv
  <2> QED BY <2>1, <2>2
<1>6. ASSUME NEW n \in Given(r), mread' = [mread EXCEPT !.binary_read = @ + n], Take(n)
      PROVE  ReadInv(mread', place', stream) /\ InStep
  <2>2. n \in Nat /\ n <= r /\ n <= a
    BY <1>2, <1>6, <1>21, GivenIs
  <2>3. k + n \in Nat /\ k + n <= q
    BY <1>5, <2>2
  <2>4. Fields(mread', mread.status, mread.object, mread.format, mread.number, mread.number_need,
               mread.binary_need, k + n)
    <3>1. mread' = [mread EXCEPT !.binary_read = k + n]
      BY <1>5, <1>6
    <3> QED BY <1>1, <2>3, <3>1, BinaryCounted
  <2>5. DoneInv(mread', o) /\ mread' \in Readers
    BY <1>3, <1>5, <2>3, <2>4 DEF DoneInv, Fields
  <2>6. place' \in Places /\ place'.entry = place.entry /\ place'.byte = b + n
    BY <1>1, <1>2, <1>6, <1>21, <2>2, Taking
  <2>7. bl <= b + n /\ b + n <= hl + dl
    BY <1>3, <1>21, <2>2
  <2>8. mread'.status = "xchange_object"
    BY <2>5 DEF DoneInv
  <2> QED BY <1>1, <1>2, <2>5, <2>6, <2>7, <2>8 DEF ReadInv, InStep
<1>7. \/ UNCHANGED <<mread, place>>
      \/ \E n \in Given(r) : mread' = [mread EXCEPT !.binary_read = @ + n] /\ Take(n)
  BY <1>5 DEF ReceiveBinary, TooMuch
<1> QED BY <1>4, <1>6, <1>7

(* a caller that passes over the data,                                     *)
LEMMA SkipIs ==
  ASSUME ReadInv(mread, place, stream), stream \in Seq(Entries), AllSound(stream), Skip
  PROVE  ReadInv(mread', place', stream) /\ InStep
<1>1. /\ mread.status = "xchange_object" /\ mread.status # "receive_format" /\ mread \in Readers
      /\ place \in Places /\ place.entry \in 1 .. Len(stream) + 1
      /\ place.entry \in 1 .. Len(stream) /\ mread' = mread
  BY DEF Skip, ReadInv
<1>20. PICK e, o, hl, dl, bl, b, a : Amid(e, o, hl, dl, bl, b, a)
  BY <1>1, InEntry
<1>2. /\ e = stream[place.entry] /\ o = e.of /\ o \in AllObjects /\ b = place.byte
      /\ a = Arrived /\ hl = Len(e.head) /\ dl = DataLen(e) /\ bl = Len(Built[o])
  BY <1>20 DEF Amid
<1>21. /\ hl \in 1 .. 10 /\ bl \in 1 .. 10 /\ dl \in Nat /\ b \in Nat /\ a \in Nat
       /\ b + a = hl + dl
  BY <1>20 DEF Amid
<1>3. DoneInv(mread, o) /\ bl <= b
  BY <1>1, <1>2 DEF ReadInv
<1>4. Take(a)
  BY <1>2 DEF Skip
<1>5. place' \in Places /\ place'.entry = place.entry /\ place'.byte = b + a
  BY <1>1, <1>2, <1>4, <1>21, Taking
<1>6. bl <= b + a /\ b + a <= hl + dl
  BY <1>3, <1>21
<1> QED BY <1>1, <1>2, <1>3, <1>5, <1>6 DEF ReadInv, InStep

(* A context that was reset waits for a format.                            *)
LEMMA ClearedIs ==
  ASSUME NEW x \in Held, NEW y, y = Cleared(x)
  PROVE  y \in Readers /\ WaitInv(y)
<1>1. << >> \in Bytes
  BY EmptySeq DEF Bytes
<1>2. PICK w \in Bytes : w = << >>
  BY <1>1
<1>3. y = [status |-> "receive_format", object |-> x, format |-> 0, number |-> w,
           number_need |-> 0, binary_need |-> 0, binary_read |-> 0]
  BY <1>2 DEF Cleared
<1>4. y \in Readers
  BY <1>3 DEF Readers
<1>5. WaitInv(y)
  BY <1>2, <1>3 DEF WaitInv
<1> QED BY <1>4, <1>5

(* and recv_reset.                                                         *)
LEMMA ResetReadIs ==
  ASSUME ReadInv(mread, place, stream), stream \in Seq(Entries), ResetRead
  PROVE  ReadInv(mread', place', stream) /\ InStep
<1>1. /\ mread.status = "xchange_object" /\ mread \in Readers
      /\ place \in Places /\ place.entry \in 1 .. Len(stream)
  BY DEF ResetRead, ReadInv
<1>2. PICK n \in Nat, k \in Nat : n = Len(stream) /\ k = place.entry /\ k \in 1 .. n
  BY <1>1, LenProperties
<1>3. mread' \in Readers /\ WaitInv(mread')
  <2>1. mread' = Cleared(mread.object) /\ mread.object \in Held
    BY <1>1 DEF ResetRead, Readers
  <2> QED BY <2>1, ClearedIs
<1>4. place' = [entry |-> k + 1, byte |-> 0]
  BY <1>2 DEF ResetRead
<1>5. k + 1 \in Nat \ {0} /\ k + 1 \in 1 .. n + 1
  BY <1>2
<1>6. place' \in Places /\ place'.entry = k + 1 /\ place'.byte = 0
  BY <1>4, <1>5 DEF Places
<1>7. mread'.status = "receive_format"
  BY <1>3 DEF WaitInv
<1> QED BY <1>2, <1>3, <1>5, <1>6, <1>7 DEF ReadInv, InStep

(* Every call of the reader keeps the invariant.                           *)
LEMMA ReadStep ==
  ASSUME ReadInv(mread, place, stream), stream \in Seq(Entries), AllSound(stream), NextRead
  PROVE  ReadInv(mread', place', stream) /\ InStep
BY ReceiveFormatIs, ReceiveNumberIs, ReceiveBinaryIs, SkipIs, ResetReadIs DEF NextRead

\* What the writer adds leaves the reader where it is.
LEMMA ReadOn ==
  ASSUME NEW m, NEW p, NEW s \in Seq(Entries), NEW t \in Seq(Entries), ReadInv(m, p, s),
         AllSound(s), AllSound(t), Grows(s, t)
  PROVE  ReadInv(m, p, t)
<1>1. PICK k \in Nat, l \in Nat : k = Len(s) /\ l = Len(t) /\ k <= l
  BY LenProperties DEF Grows
<1>2. m \in Readers /\ p \in Places /\ p.entry \in 1 .. k + 1
  BY <1>1 DEF ReadInv
<1>3. PICK i \in Nat : i = p.entry /\ i \in 1 .. k + 1
  BY <1>1, <1>2
<1>4. i \in 1 .. l + 1
  BY <1>1, <1>3
<1>5. CASE m.status = "receive_format"
  BY <1>1, <1>2, <1>3, <1>4, <1>5 DEF ReadInv
<1>6. CASE m.status # "receive_format"
  <2>1. i \in 1 .. k
    BY <1>1, <1>3, <1>6 DEF ReadInv
  <2>2. i \in 1 .. l
    BY <1>1, <2>1
  <2>3. PICK e, f : e = s[i] /\ f = t[i]
    OBVIOUS
  <2>4. f.of = e.of /\ Len(e.head) <= Len(f.head) /\ DataLen(e) <= DataLen(f)
    BY <1>1, <2>1, <2>3 DEF Grows, GrowsTo
  <2>5. PICK a \in Nat, b \in Nat, c \in Nat, d \in Nat :
          a = Len(e.head) /\ b = DataLen(e) /\ c = Len(f.head) /\ d = DataLen(f)
    <3>1. e \in Entries /\ Sound(e) /\ f \in Entries /\ Sound(f)
      <4>1. e \in Entries /\ f \in Entries
        BY <1>1, <2>1, <2>2, <2>3, ElementOfSeq
      <4>2. Sound(e) /\ Sound(f)
        BY <1>1, <2>1, <2>2, <2>3 DEF AllSound
      <4> QED BY <4>1, <4>2
    <3>2. Len(e.head) \in Nat /\ DataLen(e) \in Nat
      BY <3>1, SoundIs
    <3>3. Len(f.head) \in Nat /\ DataLen(f) \in Nat
      BY <3>1, SoundIs
    <3> QED BY <3>2, <3>3
  <2>6. a <= c /\ b <= d
    BY <2>4, <2>5
  <2>7. PICK x \in Nat : x = p.byte
    BY <1>2 DEF Places
  <2>8. /\ x <= a => x <= c
        /\ x <= a + b => x <= c + d
    BY <2>6
  <2>9. ASSUME m.status = "receive_number"
        PROVE  NumInv(m, f.of, x) /\ Len(m.number) < m.number_need /\ x <= c
    <3>1. NumInv(m, e.of, x) /\ Len(m.number) < m.number_need /\ x <= a
      BY <1>3, <2>3, <2>5, <2>7, <2>9 DEF ReadInv
    <3> QED BY <2>4, <2>8, <3>1
  <2>10. ASSUME m.status = "xchange_object"
         PROVE  DoneInv(m, f.of) /\ Len(Built[f.of]) <= x /\ x <= c + d
    <3>1. DoneInv(m, e.of) /\ Len(Built[e.of]) <= x /\ x <= a + b
      BY <1>3, <2>3, <2>5, <2>7, <2>10 DEF ReadInv
    <3> QED BY <2>4, <2>8, <3>1
  <2> QED BY <1>1, <1>2, <1>3, <1>4, <1>6, <2>2, <2>3, <2>5, <2>7, <2>9, <2>10 DEF ReadInv
<1> QED BY <1>5, <1>6

---------------------------------------------------------------------------
(* The get procedures.                                                     *)

(* A get procedure of the object's type answers with bytes of the union.   *)
LEMMA GetIs ==
  ASSUME NEW m, m.status = "xchange_object"
  PROVE  \A type : m.object.type = type =>
           Get(m, type) = [code |-> "ok", value |-> SubSeq(m.object.memory, 1, ValueSize[type])]
BY DEF Get

(* What it answers is what was written, if the context holds it.           *)
LEMMA GetHeld ==
  ASSUME NEW m \in Readers, NEW o \in AllObjects, DoneInv(m, o), o.kind \in DOMAIN TypeOf
  PROVE  LET got == Get(m, TypeOf[o.kind])
         IN  /\ got.code = "ok"
             /\ IF IsFixext(o) THEN got.value[5] = o.type /\ m.binary_need = o.size
                               ELSE got.value = Expected(o)
<1>1. o.kind \notin {"int", "uint"}
  BY DEF TypeOf
<1>2. ValueHeld(m.object, m.binary_need, o) /\ m.status = "xchange_object"
  BY <1>1 DEF DoneInv, Holds
<1>3. PICK u \in Memory : u = m.object.memory
  BY HeldIs DEF Readers
<1>4. m.object.type = TypeOf[o.kind]
  BY <1>2 DEF ValueHeld
<1>5. PICK type : type = TypeOf[o.kind]
  OBVIOUS
<1>6. PICK value : value = SubSeq(u, 1, ValueSize[type])
  OBVIOUS
<1>7. PICK got : got = Get(m, type) /\ got.code = "ok" /\ got.value = value
  <2>1. Get(m, type) = [code |-> "ok", value |-> value]
    BY <1>2, <1>3, <1>4, <1>5, <1>6, GetIs
  <2> QED BY <2>1
<1>8. CASE IsFixext(o)
  <2>1. u[5] = o.type /\ m.binary_need = o.size
    BY <1>2, <1>3, <1>8 DEF ValueHeld
  <2>2. PICK n \in 1 .. 8 : n = 5
    OBVIOUS
  <2>3. value = SubSeq(u, 1, n)
    <3>1. type = "ext"
      BY <1>5, <1>8 DEF IsFixext, TypeOf
    <3> QED BY <1>6, <2>2, <3>1 DEF ValueSize
  <2>4. u \in Seq(0 .. 255) /\ n \in 0 .. Len(u) /\ n \in 1 .. n
    <3>1. u \in Seq(0 .. 255) /\ Len(u) = 8
      BY MemoryIs DEF Bytes
    <3> QED BY <3>1
  <2>5. SubSeq(u, 1, n)[n] = u[n]
    BY <2>4, FrontIs
  <2> QED BY <1>5, <1>7, <1>8, <2>1, <2>2, <2>3, <2>5
<1>9. CASE ~IsFixext(o)
  <2>1. SubSeq(u, 1, ValueSize[TypeOf[o.kind]]) = Expected(o)
    BY <1>2, <1>3, <1>9 DEF ValueHeld
  <2> QED BY <1>5, <1>6, <1>7, <1>9, <2>1
<1> QED BY <1>8, <1>9

(* Integers have eight bytes at most.                                      *)
LEMMA Widths8 ==
  ASSUME NEW k \in Widths
  PROVE  k \in 1 .. 8 /\ k \in Nat
BY DEF Widths

\* The bytes of a number from the highest on, with its sign in front.
LEMMA ValueIs ==
  ASSUME NEW x \in Held, x.type \in {"int", "uint"}
  PROVE  \E v \in Bytes, z \in Bytes :
           /\ v = Swap(x.memory) /\ z = ValueOf(x) /\ Len(v) = 8 /\ Len(z) = 9
           /\ z[1] = SignOf(x.type, v[1])
           /\ \A i \in 1 .. 8 : v[i] \in 0 .. 255 /\ z[i + 1] = v[i]
<1>1. PICK u \in Memory : u = x.memory
  BY HeldIs
<1>2. u \in Bytes /\ Len(u) = 8
  BY MemoryIs
<1>3. PICK v \in Bytes : v = Swap(u) /\ Len(v) = 8 /\ \A i \in 1 .. 8 : v[i] = u[9 - i]
  <2>1. /\ Swap(u) \in Bytes /\ Len(Swap(u)) = 8
        /\ \A i \in 1 .. 8 : Swap(u)[i] = u[8 + 1 - i]
    BY <1>2, SwapIs
  <2>2. \A i \in 1 .. 8 : 8 + 1 - i = 9 - i
    OBVIOUS
  <2> QED BY <2>1, <2>2
<1>4. \A i \in 1 .. 8 : v[i] \in 0 .. 255
  BY <1>3, ElementOfSeq DEF Bytes
<1>5. PICK z : z = ValueOf(x)
  OBVIOUS
<1>6. z = [i \in 1 .. 9 |-> IF i = 1 THEN SignOf(x.type, u[8]) ELSE u[10 - i]]
  BY <1>1, <1>5 DEF ValueOf, SignOf
<1>7. v[1] = u[8]
  BY <1>3
<1>8. z[1] = SignOf(x.type, v[1])
  BY <1>6, <1>7
<1>9. \A i \in 1 .. 8 : z[i + 1] = v[i]
  <2> SUFFICES ASSUME NEW i \in 1 .. 8 PROVE z[i + 1] = v[i]
    OBVIOUS
  <2>1. i + 1 \in 1 .. 9 /\ i + 1 # 1 /\ 10 - (i + 1) = 9 - i
    OBVIOUS
  <2> QED BY <1>3, <1>6, <2>1
<1>10. \A i \in 1 .. 9 : z[i] \in 0 .. 255
  <2> SUFFICES ASSUME NEW i \in 1 .. 9 PROVE z[i] \in 0 .. 255
    OBVIOUS
  <2>1. CASE i = 1
    <3>1. v[1] \in 0 .. 255
      BY <1>4
    <3>2. SignOf(x.type, v[1]) \in 0 .. 255
      <4>1. CASE x.type = "int"
        BY <3>1, <4>1, SignIs DEF SignOf
      <4>2. CASE x.type # "int"
        BY <4>2 DEF SignOf
      <4> QED BY <4>1, <4>2
    <3> QED BY <1>8, <2>1, <3>2
  <2>2. CASE i # 1
    <3>1. i - 1 \in 1 .. 8 /\ (i - 1) + 1 = i
      BY <2>2
    <3> QED BY <1>4, <1>9, <3>1
  <2> QED BY <2>1, <2>2
<1>11. PICK n \in Nat : n = 9
  OBVIOUS
<1>12. z \in [1 .. n -> 0 .. 255]
  BY <1>6, <1>10, <1>11
<1>13. z \in Seq(0 .. 255) /\ Len(z) = n
  BY <1>12
<1>14. z \in Bytes /\ Len(z) = 9
  BY <1>11, <1>13 DEF Bytes
<1> QED BY <1>1, <1>3, <1>4, <1>5, <1>8, <1>9, <1>14

(* The low bytes of a number are its last ones in the stream's order.      *)
LEMMA LowIs ==
  ASSUME NEW n \in Nat, NEW v \in Bytes, Len(v) = n, NEW k \in 1 .. n
  PROVE  /\ LowBytes(v, k) \in Bytes /\ Len(LowBytes(v, k)) = k
         /\ \A i \in 1 .. k : LowBytes(v, k)[i] = v[i + (n - k)]
<1>1. PICK f \in Nat : f = n - k
  OBVIOUS
<1>2. f \in 0 .. Len(v) /\ n \in f .. Len(v) /\ n - f = k /\ Len(v) - k + 1 = f + 1
  BY <1>1
<1>3. /\ SubSeq(v, f + 1, n) \in Seq(0 .. 255) /\ Len(SubSeq(v, f + 1, n)) = n - f
      /\ \A i \in 1 .. n - f : SubSeq(v, f + 1, n)[i] = v[i + f]
  BY <1>2, PartIs DEF Bytes
<1>4. LowBytes(v, k) = SubSeq(v, f + 1, n)
  BY <1>2 DEF LowBytes
<1> QED BY <1>1, <1>2, <1>3, <1>4 DEF Bytes

\* w is the last k of the nine.
LowOf(w, z, k) == w \in Bytes /\ Len(w) = k /\ \A i \in 1 .. k : w[i] = z[i + (9 - k)]

\* The number is the extended one of its low bytes exactly when all in front of
\* them is their sign.
LEMMA ExtendedIs ==
  ASSUME NEW z \in Bytes, Len(z) = 9, NEW k \in 1 .. 8, NEW fill, NEW w, LowOf(w, z, k)
  PROVE  z = Number(fill, w).value <=> \A i \in 1 .. 9 - k : z[i] = fill
<1>9. w \in Bytes /\ Len(w) = k /\ \A i \in 1 .. k : w[i] = z[i + (9 - k)]
  BY DEF LowOf
<1>1. PICK n \in 1 .. 8 : n = 9 - k
  OBVIOUS
<1>2. Number(fill, w).value = Behind(n, fill, w)
  <2>1. Len(w) = 9 - n
    BY <1>1, <1>9
  <2>2. Number(fill, w) = Obj("number", Behind(n, fill, w), 0, 0)
    BY <2>1, NumberIs
  <2> QED BY <2>2 DEF Obj
<1>3. PICK x : x = Behind(n, fill, w)
  OBVIOUS
<1>4. x = [i \in 1 .. 9 |-> IF i <= n THEN fill ELSE w[i - n]]
  BY <1>3 DEF Behind
<1>5. \A i \in 1 .. 9 : ~(i <= n) => x[i] = z[i]
  <2> SUFFICES ASSUME NEW i \in 1 .. 9, ~(i <= n) PROVE x[i] = z[i]
    OBVIOUS
  <2>1. i - n \in 1 .. k /\ (i - n) + (9 - k) = i
    BY <1>1
  <2> QED BY <1>4, <1>9, <2>1
<1>6. \A i \in 1 .. n : i \in 1 .. 9 /\ i <= n /\ x[i] = fill
  BY <1>4
<1>7. ASSUME z = x PROVE \A i \in 1 .. n : z[i] = fill
  BY <1>6, <1>7
<1>8. ASSUME \A i \in 1 .. n : z[i] = fill PROVE z = x
  <2>1. DOMAIN z = 1 .. 9 /\ z = [i \in 1 .. 9 |-> z[i]]
    <3>1. PICK l \in Nat : l = 9
      OBVIOUS
    <3>2. z \in Seq(0 .. 255) /\ Len(z) = l
      BY <3>1 DEF Bytes
    <3>3. DOMAIN z = 1 .. l /\ z = [i \in 1 .. l |-> z[i]]
      BY <3>2
    <3> QED BY <3>1, <3>3
  <2>2. \A i \in 1 .. 9 : z[i] = x[i]
    <3> SUFFICES ASSUME NEW i \in 1 .. 9 PROVE z[i] = x[i]
      OBVIOUS
    <3>1. CASE i <= n
      <4>1. i \in 1 .. n
        BY <3>1
      <4> QED BY <1>6, <1>8, <4>1
    <3>2. CASE ~(i <= n)
      BY <1>5, <3>2
    <3> QED BY <3>1, <3>2
  <2> QED BY <1>4, <2>1, <2>2
<1> QED BY <1>1, <1>2, <1>3, <1>7, <1>8

\* The bytes v of a number are all so in front of the last k.
Before(v, k, fill) == \A i \in 1 .. 8 - k : v[i] = fill

(* The test of each get procedure for integers is true exactly when the    *)
(* low bytes, extended with the sign of the type, are the number.          *)
LEMMA RepresentableIs ==
  ASSUME NEW x \in Held, x.type \in {"int", "uint"}, NEW z, z = ValueOf(x), NEW t \in IntTypes
  PROVE  /\ LowBytes(z, t.width) = LowBytes(Swap(x.memory), t.width)
         /\ z = Extended9(LowBytes(z, t.width), t.signed)
              <=> IF t.signed THEN InSigned(x, t.width) ELSE InUnsigned(x, t.width)
<1>1. PICK v \in Bytes : /\ v = Swap(x.memory) /\ z \in Bytes /\ Len(v) = 8 /\ Len(z) = 9
                         /\ z[1] = SignOf(x.type, v[1])
                         /\ \A i \in 1 .. 8 : v[i] \in 0 .. 255 /\ z[i + 1] = v[i]
  BY ValueIs
<1>2. PICK k \in 1 .. 8, signed \in BOOLEAN : k = t.width /\ signed = t.signed
  BY Widths8 DEF IntTypes
<1>3. PICK w \in Bytes : w = LowBytes(z, k) /\ Len(w) = k /\ \A i \in 1 .. k : w[i] = z[i + (9 - k)]
  <2>1. PICK n \in Nat : n = 9
    OBVIOUS
  <2>2. Len(z) = n /\ k \in 1 .. n
    BY <1>1, <2>1
  <2>3. /\ LowBytes(z, k) \in Bytes /\ Len(LowBytes(z, k)) = k
        /\ \A i \in 1 .. k : LowBytes(z, k)[i] = z[i + (n - k)]
    BY <1>1, <2>2, LowIs
  <2> QED BY <2>1, <2>3
<1>4. PICK y \in Bytes : y = LowBytes(v, k) /\ Len(y) = k /\ \A i \in 1 .. k : y[i] = v[i + (8 - k)]
  <2>1. PICK n \in Nat : n = 8
    OBVIOUS
  <2>2. Len(v) = n /\ k \in 1 .. n
    BY <1>1, <2>1
  <2>3. /\ LowBytes(v, k) \in Bytes /\ Len(LowBytes(v, k)) = k
        /\ \A i \in 1 .. k : LowBytes(v, k)[i] = v[i + (n - k)]
    BY <1>1, <2>2, LowIs
  <2> QED BY <2>1, <2>3
<1>5. w = y
  <2>1. \A i \in 1 .. k : w[i] = y[i]
    <3> SUFFICES ASSUME NEW i \in 1 .. k PROVE w[i] = y[i]
      OBVIOUS
    <3>1. i + (8 - k) \in 1 .. 8 /\ (i + (8 - k)) + 1 = i + (9 - k)
      OBVIOUS
    <3>2. PICK j \in 1 .. 8 : j = i + (8 - k) /\ j + 1 = i + (9 - k)
      BY <3>1
    <3>3. w[i] = z[j + 1] /\ y[i] = v[j]
      BY <1>3, <1>4, <3>2
    <3>4. z[j + 1] = v[j]
      BY <1>1
    <3> QED BY <3>3, <3>4
  <2> QED BY <1>3, <1>4, <2>1, SeqEqual DEF Bytes
<1>6. PICK b \in 0 .. 255 : b = v[9 - k] /\ b = w[1]
  <2>1. 1 + (8 - k) = 9 - k /\ 9 - k \in 1 .. 8 /\ 1 \in 1 .. k
    OBVIOUS
  <2>2. PICK j \in 1 .. 8 : j = 9 - k /\ j = 1 + (8 - k)
    BY <2>1
  <2>3. v[j] \in 0 .. 255
    BY <1>1
  <2>4. y[1] = v[j]
    BY <1>4, <2>1, <2>2
  <2> QED BY <1>5, <2>2, <2>3, <2>4
<1>7. PICK h \in 0 .. 255 : h = v[1]
  <2>1. 1 \in 1 .. 8
    OBVIOUS
  <2> QED BY <1>1, <2>1
<1>8. PICK fill \in 0 .. 255 : fill = IF signed THEN SignFill(b) ELSE 0
  <2>1. SignFill(b) \in 0 .. 255
    BY SignIs
  <2> QED BY <2>1
<1>9. z = Extended9(w, signed) <=> z[1] = fill /\ Before(v, k, fill)
  <2>1. Extended9(w, signed) = Number(fill, w).value
    BY <1>6, <1>8 DEF Extended9
  <2>2. z = Number(fill, w).value <=> \A i \in 1 .. 9 - k : z[i] = fill
    <3>1. z \in Bytes /\ Len(z) = 9
      BY <1>1
    <3>2. LowOf(w, z, k)
      BY <1>3 DEF LowOf
    <3> QED BY <3>1, <3>2, ExtendedIs
  <2>3. ASSUME \A i \in 1 .. 9 - k : z[i] = fill
        PROVE  z[1] = fill /\ Before(v, k, fill)
    <3>1. 1 \in 1 .. 9 - k
      OBVIOUS
    <3>2. ASSUME NEW i \in 1 .. 8 - k PROVE v[i] = fill
      <4>1. i \in 1 .. 8 /\ i + 1 \in 1 .. 9 - k
        OBVIOUS
      <4> QED BY <1>1, <2>3, <4>1
    <3> QED BY <2>3, <3>1, <3>2 DEF Before
  <2>4. ASSUME z[1] = fill, Before(v, k, fill)
        PROVE  \A i \in 1 .. 9 - k : z[i] = fill
    <3> SUFFICES ASSUME NEW i \in 1 .. 9 - k PROVE z[i] = fill
      OBVIOUS
    <3>1. CASE i = 1
      BY <2>4, <3>1
    <3>2. CASE i # 1
      <4>1. i - 1 \in 1 .. 8 - k /\ i - 1 \in 1 .. 8 /\ (i - 1) + 1 = i
        BY <3>2
      <4>2. v[i - 1] = fill
        BY <2>4, <4>1 DEF Before
      <4> QED BY <1>1, <4>1, <4>2
    <3> QED BY <3>1, <3>2
  <2> QED BY <2>1, <2>2, <2>3, <2>4
<1>10. FitsUnsigned(v, k) <=> Before(v, k, 0)
  BY DEF FitsUnsigned, Before
<1>11. Fits(v, k) <=> Before(v, k, SignFill(b))
  BY <1>6 DEF Fits, Before
<1>12. h < 128 <=> SignFill(h) = 0
  BY DEF SignFill
<1>13. b < 128 <=> SignFill(b) = 0
  BY DEF SignFill
<1>14. CASE ~signed
  <2>1. fill = 0
    BY <1>8, <1>14
  <2>2. InUnsigned(x, k) <=> Before(v, k, 0) /\ (x.type = "int" => h < 128)
    BY <1>1, <1>7, <1>10 DEF InUnsigned
  <2>3. z[1] = 0 <=> (x.type = "int" => h < 128)
    BY <1>1, <1>7, <1>12 DEF SignOf
  <2>4. z = Extended9(w, signed) <=> InUnsigned(x, k)
    BY <1>9, <2>1, <2>2, <2>3
  <2> QED BY <1>1, <1>2, <1>3, <1>4, <1>5, <1>14, <2>4
<1>15. CASE signed
  <2>1. fill = SignFill(b)
    BY <1>8, <1>15
  <2>2. CASE x.type = "int"
    <3>1. InSigned(x, k) <=> Before(v, k, fill)
      BY <1>1, <1>11, <2>1, <2>2 DEF InSigned
    <3>2. ASSUME Before(v, k, fill) PROVE z[1] = fill
      <4>1. z[1] = SignFill(h)
        BY <1>1, <1>7, <2>2 DEF SignOf
      <4>2. CASE k = 8
        <5>1. b = h
          <6>1. 9 - k = 1
            BY <4>2
          <6> QED BY <1>6, <1>7, <6>1
        <5> QED BY <2>1, <4>1, <5>1
      <4>3. CASE k # 8
        <5>1. 1 \in 1 .. 8 - k
          BY <4>3
        <5>2. h = fill
          BY <1>7, <3>2, <5>1 DEF Before
        <5>3. SignFill(fill) = fill
          BY <2>1, SignIs
        <5> QED BY <4>1, <5>2, <5>3
      <4> QED BY <4>2, <4>3
    <3>3. z = Extended9(w, signed) <=> InSigned(x, k)
      BY <1>9, <3>1, <3>2
    <3> QED BY <1>1, <1>2, <1>3, <1>4, <1>5, <1>15, <3>3
  <2>3. CASE x.type # "int"
    <3>1. InSigned(x, k) <=> Before(v, k, 0) /\ b < 128
      BY <1>1, <1>6, <1>10, <2>3 DEF InSigned
    <3>2. z[1] = 0
      BY <1>1, <2>3 DEF SignOf
    <3>3. z = Extended9(w, signed) <=> InSigned(x, k)
      BY <1>9, <1>13, <2>1, <3>1, <3>2
    <3> QED BY <1>1, <1>2, <1>3, <1>4, <1>5, <1>15, <3>3
  <2> QED BY <2>2, <2>3
<1> QED BY <1>14, <1>15

---------------------------------------------------------------------------
(* The writer and the reader together.                                     *)

PipeInv == WriteInv /\ AllSound(stream) /\ ReadInv(mread, place, stream)

(* The invariant holds at the beginning,                                   *)
LEMMA PipeInvInit ==
  ASSUME PipeInit
  PROVE  PipeInv
<1>1. WriteInv
  BY WriteInvInit DEF PipeInit
<1>2. stream = << >>
  BY DEF PipeInit, Init
<1>3. Len(stream) = 0 /\ AllSound(stream)
  <2>1. Len(stream) = 0
    BY <1>2
  <2> QED BY <2>1 DEF AllSound
<1>4. mread \in Readers /\ WaitInv(mread)
  <2>1. PICK u : u = [i \in 1 .. 8 |-> 0]
    OBVIOUS
  <2>2. u \in Memory
    BY <2>1 DEF Memory
  <2>3. PICK x \in Held : x = Object("no", u)
    BY <2>2, HeldIs DEF Types
  <2>4. mread = Cleared(x)
    BY <2>1, <2>3 DEF PipeInit, InitRead
  <2> QED BY <2>4, ClearedIs
<1>5. place \in Places /\ place.entry = 1 /\ place.byte = 0
  BY DEF PipeInit, InitRead, Places
<1>6. place.entry \in 1 .. Len(stream) + 1
  BY <1>3, <1>5
<1>7. mread.status = "receive_format"
  BY <1>4 DEF WaitInv
<1> QED BY <1>1, <1>3, <1>4, <1>5, <1>6, <1>7 DEF PipeInv, ReadInv

(* is kept by every step of both sides,                                    *)
LEMMA PipeStep ==
  ASSUME PipeInv, [PipeNext]_pvars
  PROVE  PipeInv' /\ (UNCHANGED <<mread, place>> \/ (InStep /\ UNCHANGED stream))
<1>1. WriteInv /\ AllSound(stream) /\ ReadInv(mread, place, stream) /\ stream \in Seq(Entries)
  BY DEF PipeInv, WriteInv, TypeInv
<1>2. CASE [Next]_vars /\ UNCHANGED <<mread, place>>
  <2>1. WriteInv'
    BY <1>1, <1>2, WriteInvNext
  <2>2. stream' \in Seq(Entries)
    BY <2>1 DEF WriteInv, TypeInv
  <2>3. AllSound(stream') /\ Grows(stream, stream')
    BY <1>1, <1>2, WritesGrow DEF Onwards
  <2>4. ReadInv(mread, place, stream')
    BY <1>1, <2>2, <2>3, ReadOn
  <2>5. ReadInv(mread', place', stream')
    BY <1>2, <2>4
  <2>6. AllSound(stream')
    BY <2>3
  <2>7. PipeInv'
    BY <2>1, <2>5, <2>6 DEF PipeInv
  <2> QED BY <1>2, <2>7
<1>3. CASE Reads
  <2>1. UNCHANGED vars /\ NextRead
    BY <1>3 DEF Reads
  <2>2. WriteInv' /\ stream' = stream
    <3>1. [Next]_vars
      BY <2>1
    <3> QED BY <1>1, <2>1, <3>1, WriteInvNext DEF vars
  <2>3. ReadInv(mread', place', stream) /\ InStep
    BY <1>1, <2>1, ReadStep
  <2> QED BY <1>1, <2>2, <2>3 DEF PipeInv
<1>4. CASE Writes
  BY <1>2, <1>4 DEF Writes, rvars
<1>5. CASE UNCHANGED pvars
  BY <1>2, <1>5 DEF pvars, rvars
<1> QED BY <1>3, <1>4, <1>5 DEF PipeNext

(* and holds in every reachable state of the pipe.                         *)
LEMMA PipeInvAlways == PipeSpec => []PipeInv
<1>1. PipeInit => PipeInv
  BY PipeInvInit
<1>2. PipeInv /\ [PipeNext]_pvars => PipeInv'
  BY PipeStep
<1> QED BY <1>1, <1>2, PTL DEF PipeSpec

---------------------------------------------------------------------------
(* What the reader promises.                                               *)

(* The reader never counts more bytes of a number or of the data than it   *)
(* needs, and is in the stream or right behind it, wherever the writer     *)
(* stopped.                                                                *)
THEOREM PipeTypeCorrect == PipeSpec => []PipeTypeOK
<1>1. PipeInv => PipeTypeOK
  <2> SUFFICES ASSUME PipeInv PROVE PipeTypeOK
    OBVIOUS
  <2>1. WriteTypeOK
    BY WriteTyped DEF PipeInv
  <2>2. mread \in Readers /\ ReadInv(mread, place, stream)
    BY DEF PipeInv, ReadInv
  <2>3. mread.status \in {"receive_format", "process_format", "receive_number", "xchange_object"}
    BY <2>2 DEF Readers
  <2>4. mread.object.memory \in [1 .. 8 -> 0 .. 255]
    BY <2>2 DEF Readers, Held, Memory
  <2>5. PICK n \in 0 .. 10, l \in Nat, q \in 0 .. 16, r \in Nat :
          /\ n = mread.number_need /\ l = Len(mread.number)
          /\ q = mread.binary_need /\ r = mread.binary_read
    BY <2>2, LenProperties, SMTT(30) DEF Readers, Bytes
  <2>6. CASE mread.status = "receive_format"
    <3>1. WaitInv(mread)
      BY <2>2, <2>6 DEF ReadInv
    <3>2. n = 0 /\ l = 0 /\ q = 0 /\ r = 0
      BY <2>5, <3>1 DEF WaitInv
    <3> QED BY <2>1, <2>2, <2>3, <2>4, <2>5, <3>2 DEF PipeTypeOK, ReadInv
  <2>7. CASE mread.status = "receive_number"
    <3>1. NumInv(mread, stream[place.entry].of, place.byte) /\ l < n
      BY <2>2, <2>5, <2>7, SMTT(30) DEF ReadInv
    <3>2. r = 0
      BY <2>5, <3>1 DEF NumInv
    <3>3. l <= n /\ n <= 10 /\ r <= q /\ q <= 16
      BY <3>1, <3>2, SMTT(30)
    <3> QED BY <2>1, <2>2, <2>3, <2>4, <2>5, <3>3 DEF PipeTypeOK, ReadInv
  <2>8. CASE mread.status = "xchange_object"
    <3>1. DoneInv(mread, stream[place.entry].of)
      BY <2>2, <2>8 DEF ReadInv
    <3>2. l <= n /\ r <= q
      BY <2>5, <3>1 DEF DoneInv
    <3>3. n <= 10 /\ q <= 16
      OBVIOUS
    <3> QED BY <2>1, <2>2, <2>3, <2>4, <2>5, <3>2, <3>3 DEF PipeTypeOK, ReadInv
  <2>9. mread.status \in {"receive_format", "receive_number", "xchange_object"}
    BY <2>2 DEF Readers
  <2> QED BY <2>6, <2>7, <2>8, <2>9
<1> QED BY <1>1, PipeInvAlways, PTL

(* Whatever was left in the context, and wherever the stream was cut, what *)
(* the get procedure of an object's type gives is what was written.        *)
THEOREM WrittenIsGot == PipeSpec => []GetsWritten
<1>1. PipeInv => GetsWritten
  <2> SUFFICES ASSUME PipeInv, Reading, Read.kind \in DOMAIN TypeOf
               PROVE  LET got == Get(mread, TypeOf[Read.kind])
                      IN  /\ got.code = "ok"
                          /\ IF IsFixext(Read)
                             THEN got.value[5] = Read.type /\ mread.binary_need = Read.size
                             ELSE got.value = Expected(Read)
    BY DEF GetsWritten
  <2>1. PICK o : o = Read
    OBVIOUS
  <2>2. mread \in Readers /\ DoneInv(mread, o) /\ o \in AllObjects
    BY <2>1 DEF PipeInv, ReadInv, Reading, Read, DoneInv
  <2> QED BY <2>1, <2>2, GetHeld
<1> QED BY <1>1, PipeInvAlways, PTL

(* A number is got as an integer type exactly when the type can hold it,   *)
(* and with its value.                                                     *)
THEOREM RepresentableIsGot == PipeSpec => []GetsRepresentable
<1>1. PipeInv => GetsRepresentable
  <2> SUFFICES ASSUME PipeInv, Reading, Read.kind \in {"int", "uint"}, NEW t \in IntTypes
               PROVE  LET number == Meaning(Read).value
                          got    == GetInt(mread, t)
                      IN  IF number = Extended9(LowBytes(number, t.width), t.signed)
                          THEN got = [code |-> "ok", value |-> LowBytes(number, t.width)]
                          ELSE got.code = "buffer_too_small"
    BY DEF GetsRepresentable
  <2>1. PICK o : o = Read
    OBVIOUS
  <2>2. mread \in Readers /\ DoneInv(mread, o) /\ mread.status = "xchange_object"
    BY <2>1 DEF PipeInv, ReadInv, Reading, Read
  <2>3. PICK x \in Held : x = mread.object /\ NumberHeld(x, o)
    BY <2>1, <2>2 DEF DoneInv, Holds, Readers
  <2>4. PICK z : z = ValueOf(x) /\ z = Meaning(o).value
    BY <2>3 DEF NumberHeld
  <2>5. x.type \in {"int", "uint"}
    BY <2>3 DEF NumberHeld
  <2>6. /\ LowBytes(z, t.width) = LowBytes(Swap(x.memory), t.width)
        /\ z = Extended9(LowBytes(z, t.width), t.signed)
             <=> IF t.signed THEN InSigned(x, t.width) ELSE InUnsigned(x, t.width)
    BY <2>4, <2>5, RepresentableIs
  <2>7. GetInt(mread, t) =
          IF (IF t.signed THEN InSigned(x, t.width) ELSE InUnsigned(x, t.width))
          THEN [code |-> "ok", value |-> LowBytes(Swap(x.memory), t.width)]
          ELSE [code |-> "buffer_too_small", value |-> << >>]
    BY <2>2, <2>3, <2>5 DEF GetInt
  <2> QED BY <2>1, <2>4, <2>6, <2>7
<1> QED BY <1>1, PipeInvAlways, PTL

(* The reader has an object when it has read the header and not a byte     *)
(* more.                                                                   *)
THEOREM ReaderKeepsStep == PipeSpec => ReaderInStep
<1>1. PipeInv /\ [PipeNext]_pvars
        => [Reading' /\ ~Reading => place'.byte = Len(Built[Read'])]_pvars
  <2> SUFFICES ASSUME PipeInv, [PipeNext]_pvars, Reading', ~Reading
               PROVE  place'.byte = Len(Built[Read'])
    OBVIOUS
  <2>1. UNCHANGED <<mread, place>> \/ (InStep /\ UNCHANGED stream)
    BY PipeStep
  <2>2. ~ UNCHANGED <<mread, place>>
    BY DEF Reading
  <2>3. InStep /\ stream' = stream
    BY <2>1, <2>2
  <2> QED BY <2>3 DEF InStep, Reading, Read
<1> QED BY <1>1, PipeInvAlways, PTL DEF PipeSpec, ReaderInStep
=============================================================================
