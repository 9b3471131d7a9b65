---------------------------- MODULE MCMpackPipe ----------------------------
(* Objects for TLC: the values next to every boundary between formats.     *)
EXTENDS MpackPipe

Extended(fill, low) == [i \in 1 .. 8 - Len(low) |-> fill] \o low

Ints ==
  {Obj("int", Extended(255, low), 0, 0) :
     low \in {<<224>>, <<223>>, <<128>>, <<127>>, <<128, 0>>, <<127, 255>>, <<128, 0, 0, 0>>,
              <<127, 255, 255, 255>>, <<128, 0, 0, 0, 0, 0, 0, 0>>}}
  \cup
  {Obj("int", Extended(0, low), 0, 0) :
     low \in {<<127>>, <<128>>, <<127, 255>>, <<128, 0>>, <<127, 255, 255, 255>>,
              <<128, 0, 0, 0>>, <<127, 255, 255, 255, 255, 255, 255, 255>>}}

Uints ==
  {Obj("uint", Extended(0, low), 0, 0) :
     low \in {<<127>>, <<128>>, <<255>>, <<1, 0>>, <<255, 255>>, <<1, 0, 0>>,
              <<255, 255, 255, 255>>, <<1, 0, 0, 0, 0>>}}

Others ==
  {Obj("nil", << >>, 0, 0), Obj("true", << >>, 0, 0), Obj("false", << >>, 0, 0),
   Obj("float32", <<1, 2, 3, 4>>, 0, 0), Obj("float64", <<1, 2, 3, 4, 5, 6, 7, 8>>, 0, 0)}

Arrays  == {Obj(kind, << >>, n, 0) : kind \in {"array", "map"}, n \in {15, 16, 65535, 65536}}
Strings == {Obj("str", << >>, n, 0) : n \in {0, 15, 16, 255, 256, 65535, 65536}}
Bins    == {Obj("bin", << >>, n, 0) : n \in {0, 255, 256, 65535, 65536}}
Exts    == {Obj("ext", << >>, n, 7) : n \in {0, 1, 2, 3, 4, 8, 16, 17, 256, 65536}}

EveryObject == Ints \cup Uints \cup Others \cup Arrays \cup Strings \cup Bins \cup Exts

\* Objects that leave something behind: a full union, the data
\* and the needs of a fixext.
Before == {Obj("uint", Extended(255, << >>), 0, 0), Obj("ext", << >>, 2, 7)}

AnyAfterAny == <<Before, EveryObject>>
===========================================================================
