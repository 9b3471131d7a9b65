---------------------------- MODULE MpackWrite ----------------------------
(***************************************************************************)
(* The writer of objects (src/mpack/mpackwrite.cpp): an object is built in *)
(* a buffer, the buffer is written, and then the bytes of a str, bin or    *)
(* ext that the caller holds.  The procedure that writes may take a part,  *)
(* and the caller repeats the call.                                        *)
(***************************************************************************)
EXTENDS MpackStream

VARIABLES
  mpack,    \* the context: status, buffer, offsets and amounts
  current,  \* auxiliary: the object built last
  given,    \* the caller: bytes of its data that were written by now
  ret       \* what the last call returned

vars == <<mpack, current, given, ret, stream>>

None == Obj("none", << >>, 0, 0)

Context == [status |-> "build_buffer", buffer_data |-> << >>, buffer_offset |-> 0,
            binary_offset |-> 0, binary_amount |-> 0]

BufferRest(m) == Len(m.buffer_data) - m.buffer_offset
BinaryRest(m) == m.binary_amount - m.binary_offset

\* What a procedure asked to write n bytes takes: nothing, a half, all, or,
\* if it is broken, more than there is.  It is not asked to write none.
Taken(n, rest) == IF n = 0 THEN {0} ELSE {0, n \div 2, n, rest + 1}

---------------------------------------------------------------------------
(* The stages of a call, as functions of the state.                        *)

State(m, g, r, s) == [mpack |-> m, given |-> g, ret |-> r, stream |-> s]

\* Bytes of the header: the first ones open an entry of the stream.
PutHeader(s, m, bytes) ==
  IF bytes = << >> THEN s
  ELSE IF m.buffer_offset = 0
       THEN Append(s, [of |-> current', head |-> bytes, data |-> << >>])
       ELSE [s EXCEPT ![Len(s)].head = @ \o bytes]

\* Bytes a .. b of the data, joined to those before if they go on there.
PutData(s, a, b) ==
  LET k == Len(s)  d == s[k].data  n == Len(s[k].data)
  IN  IF b < a THEN s
      ELSE IF n > 0 /\ d[n][2] = a - 1 THEN [s EXCEPT ![k].data[n][2] = b]
           ELSE [s EXCEPT ![k].data = Append(@, <<a, b>>)]

\* The call is refused in this state.
Refused(x) == State(x.mpack, x.given, "invalid_operation", x.stream)

\* The procedure says it wrote more than it was given.
Broken(x) ==
  State([x.mpack EXCEPT !.status = "fatal_error"], x.given, "internal", x.stream)

Begun(x, o) ==
  LET m == [x.mpack EXCEPT !.status = "write_buffer", !.buffer_data = Built[o],
                           !.buffer_offset = 0]
  IN  State(IF HasBinary(o) THEN [m EXCEPT !.binary_offset = 0, !.binary_amount = o.size] ELSE m,
            0, "ok", x.stream)

\* What comes after a buffer that is written.
AfterBuffer(m) ==
  [m EXCEPT !.status = IF BinaryRest(m) # 0 THEN "write_binary" ELSE "build_buffer"]

\* write_object_buffer.
BufferWritten(x, done) ==
  LET m == x.mpack
      n == [m EXCEPT !.buffer_offset = @ + done]
      s == PutHeader(x.stream, m, SubSeq(m.buffer_data, m.buffer_offset + 1, n.buffer_offset))
  IN  IF done > BufferRest(m) THEN Broken(x)
      ELSE IF BufferRest(n) = 0 THEN State(AfterBuffer(n), x.given, "ok", s)
                                ELSE State(n, x.given, "partial_complete", s)

\* How much the writer asks for of what the caller offers.
Asked(m, size) == IF BinaryRest(m) < size THEN BinaryRest(m) ELSE size

\* Variant: the caller is told what was asked for.
WrittenAsked(asked, done) == asked

\* What the caller is told was written.
Written(asked, done) == done

\* Variant: what the procedure returns is not checked.
BinaryWrittenUnchecked(x, size, done) ==
  LET n == [x.mpack EXCEPT !.binary_offset = @ + done]
      s == PutData(x.stream, x.given + 1, x.given + done)
  IN  IF x.mpack.status # "write_binary" THEN Refused(x)
      ELSE IF n.binary_offset = n.binary_amount
           THEN State([n EXCEPT !.status = "build_buffer"], x.given + done, "ok", s)
           ELSE State(n, x.given + done, "partial_complete", s)

\* Variant: the writer is not made ready for the next object.
BinaryWrittenStays(x, size, done) ==
  LET n == [x.mpack EXCEPT !.binary_offset = @ + done]
      s == PutData(x.stream, x.given + 1, x.given + done)
  IN  CASE x.mpack.status # "write_binary" -> Refused(x)
        [] x.mpack.status = "write_binary" /\ done > BinaryRest(x.mpack) -> Broken(x)
        [] OTHER -> State(n, x.given + done,
                          IF BinaryRest(n) = 0 THEN "ok" ELSE "partial_complete", s)

\* write_object_binary.
BinaryWritten(x, size, done) ==
  LET m == x.mpack
      n == [m EXCEPT !.binary_offset = @ + done]
      g == x.given + Written(Asked(m, size), done)
      s == PutData(x.stream, x.given + 1, x.given + done)
  IN  CASE m.status # "write_binary" -> Refused(x)
        [] m.status = "write_binary" /\ done > BinaryRest(m) -> Broken(x)
        [] m.status = "write_binary" /\ done = BinaryRest(m) ->
             State([n EXCEPT !.status = "build_buffer"], g, "ok", s)
        [] OTHER -> State(n, g, "partial_complete", s)

---------------------------------------------------------------------------
(* The calls.                                                              *)

Now == State(mpack, given, ret, stream)

Becomes(x) ==
  mpack' = x.mpack /\ given' = x.given /\ ret' = x.ret /\ stream' = x.stream

MayBegin(o) ==
  /\ mpack.status = "build_buffer"
  /\ Len(stream) < Len(Objects) /\ o \in Objects[Len(stream) + 1]

\* Every build_* and write_* in another state.
Refuse ==
  /\ mpack.status # "build_buffer"
  /\ ret' = "invalid_operation"
  /\ UNCHANGED <<mpack, current, given, stream>>

\* build_*.
Build(o) ==
  /\ MayBegin(o)
  /\ current' = o
  /\ Becomes(Begun(Now, o))

\* The stage of the data, if the call has got there.
ThenBinary(x, size) ==
  \E done \in Taken(Asked(x.mpack, size), BinaryRest(x.mpack)) :
    Becomes(BinaryWritten(x, size, done))

\* write_* of an object without data: build, write the buffer.
WriteWhole(o) ==
  /\ MayBegin(o) /\ ~HasBinary(o)
  /\ current' = o
  /\ LET x == Begun(Now, o)
     IN  \E done \in Taken(BufferRest(x.mpack), BufferRest(x.mpack)) :
           Becomes(BufferWritten(x, done))

\* write_str, write_bin and write_ext: then write the data.
WriteParts(o) ==
  /\ MayBegin(o) /\ HasBinary(o)
  /\ current' = o
  /\ LET x == Begun(Now, o)
     IN  \E done \in Taken(BufferRest(x.mpack), BufferRest(x.mpack)) :
           LET y == BufferWritten(x, done)
           IN  IF y.ret = "ok" THEN ThenBinary(y, o.size) ELSE Becomes(y)

\* write_object, the caller offering bytes of its data from given + 1 on.
WriteObject(size) ==
  /\ UNCHANGED current
  /\ CASE mpack.status = "write_buffer" ->
            \E done \in Taken(BufferRest(mpack), BufferRest(mpack)) :
              LET y == BufferWritten(Now, done)
              IN  IF y.ret = "ok" /\ y.mpack.status = "write_binary" THEN ThenBinary(y, size)
                                                                    ELSE Becomes(y)
       [] mpack.status = "write_binary" -> ThenBinary(Now, size)
       [] OTHER -> ret' = "invalid_operation" /\ UNCHANGED <<mpack, given, stream>>

\* Variant: a part of the data may have been written.
ResetAllowedLate(m) == m.buffer_offset \in {0, Len(m.buffer_data)}

ResetAllowed(m) ==
  /\ m.buffer_offset \in {0, Len(m.buffer_data)}
  /\ m.binary_offset \in {0, m.binary_amount}

\* reset_write_context.
Reset ==
  /\ IF mpack.status # "fatal_error" /\ ResetAllowed(mpack)
     THEN mpack' = Context /\ ret' = "ok"
     ELSE mpack' = mpack /\ ret' = "invalid_operation"
  /\ UNCHANGED <<current, given, stream>>

---------------------------------------------------------------------------

Init ==
  /\ mpack = Context
  /\ current = None
  /\ given = 0
  /\ ret = "ok"
  /\ stream = << >>

\* What the caller has left, or nothing yet.
Offers == {0, current.size - given}

Next ==
  \/ \E o \in AllObjects : Build(o) \/ WriteWhole(o) \/ WriteParts(o)
  \/ Refuse
  \/ \E size \in Offers : WriteObject(size)
  \/ Reset

Spec == Init /\ [][Next]_vars

\* The caller repeats the call with all it has left, and the procedure takes
\* something then.
Progress ==
  /\ WriteObject(current.size - given)
  /\ ret' = "partial_complete" => \/ mpack'.buffer_offset > mpack.buffer_offset
                                  \/ mpack'.binary_offset > mpack.binary_offset

---------------------------------------------------------------------------
(* Properties.                                                             *)

WriteTypeOK ==
  /\ mpack.status \in {"build_buffer", "write_buffer", "write_binary", "fatal_error"}
  /\ mpack.buffer_offset \in 0 .. Len(mpack.buffer_data)
  /\ Len(mpack.buffer_data) <= 10
  /\ mpack.binary_offset \in 0 .. mpack.binary_amount
  /\ current \in AllObjects \cup {None}
  /\ given \in Nat
  /\ ret \in {"ok", "partial_complete", "invalid_operation", "internal"}
  /\ \A k \in DOMAIN stream : stream[k].of \in Objects[k]

(* The buffer means the object it was built for, by the table of formats:  *)
(* at every boundary between two widths and for every kind.                *)
HeaderDecodes == mpack.status = "write_buffer" => Decode(mpack.buffer_data) = Meaning(current)

(* Whatever is written in parts, repeated or reset, the stream is one of   *)
(* whole objects: an object before the last one, or the last one when the  *)
(* writer is ready for the next, has its header and all its data, in order *)
(* and once.  (The one exception a reset allows is a header that announces *)
(* data, and none of them.)                                                *)
StreamWhole ==
  /\ mpack.status = "build_buffer" => \A k \in DOMAIN stream : Whole(stream[k]) \/ Torn(stream[k])
  /\ \A k \in 1 .. Len(stream) - 1 : Whole(stream[k]) \/ Torn(stream[k])

(* A caller that adds up what the calls report knows how far the writer    *)
(* is, and goes on with the right byte.                                    *)
WrittenAgrees == mpack.status = "write_binary" => given = mpack.binary_offset
===========================================================================
