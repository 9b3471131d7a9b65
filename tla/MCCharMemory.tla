--------------------------- MODULE MCCharMemory ---------------------------
(* Memories for TLC: every content of a few cells.                         *)
EXTENDS CharMemory

Cells(n, chars) == [0 .. n - 1 -> chars]

\* A few bytes in front of garbage.
Front3(n, chars) == {[a \in 0 .. n - 1 |-> IF a < 3 THEN b[a] ELSE 255] : b \in Cells(3, chars)}

\* Two strings of two contents, and room for both behind them.
TwoStrings == {[a \in 0 .. 7 |-> CASE a \in {1, 3} -> 0 [] a \in {0, 5} -> 97 [] OTHER -> 98]}

SomeMemories ==
  [search |-> Cells(5, {0, 65, 97, 98}),
   copy   |-> Cells(5, {0, 97, 98}),
   alloc  |-> Cells(6, {0, 97}) \cup TwoStrings,
   trim   |-> Cells(6, {0, 32, 34, 97}),
   bytes  |-> Cells(5, {1, 2, 3}),
   number |-> {[a \in 0 .. 10 |-> IF a = 0 THEN n ELSE 255] : n \in 0 .. 255},
   hex    |-> Front3(13, {0, 31, 171}),
   wide   |-> Cells(5, {0, 65, 321}),
   narrow |-> Cells(5, {0, 65, 200})]

TwoToSixteen == {0, 2, 3, 8, 10, 16, 36}
===========================================================================
