---------------------------- MODULE MpackStream ----------------------------
(***************************************************************************)
(* The stream between a writer and a reader of objects: for each object    *)
(* begun, the bytes of its header that were written and the intervals of   *)
(* its data.                                                               *)
(***************************************************************************)
EXTENDS MpackFormat

CONSTANT Objects   \* a sequence: what the caller may write as the k-th object;
                   \* its length bounds the stream

ASSUME ObjectsAssumption == Objects \in Seq(SUBSET ObjectSet)

VARIABLE stream

AllObjects == UNION {Objects[k] : k \in 1 .. Len(Objects)}

\* The headers the writer builds, once for each object.
Built == [o \in AllObjects |-> Header(o)]

DataOf(o) == IF HasBinary(o) /\ o.size > 0 THEN <<<<1, o.size>>>> ELSE << >>

Whole(e) == e.head = Built[e.of] /\ e.data = DataOf(e.of)

\* A header that announces data, and none of them.
Torn(e) == e.head = Built[e.of] /\ DataOf(e.of) # << >> /\ e.data = << >>

\* How many bytes the intervals of the data cover.
DataLen(e) ==
  LET upto[i \in 0 .. Len(e.data)] ==
        IF i = 0 THEN 0 ELSE upto[i - 1] + e.data[i][2] - e.data[i][1] + 1
  IN  upto[Len(e.data)]
===========================================================================
