-------------------------- MODULE MCSpliceRouter --------------------------
(* Values of the constants of SpliceRouter for TLC.                        *)
EXTENDS SpliceRouter, TLC

CONSTANTS j1, j2

\* Two procedures; what is near both is one granule, and what is near the
\* second ends with the address space.
Home2 == [to \in Jumpers |-> IF to = j1 THEN 188 ELSE 236]

\* The pages from the given sets; the procedures' are used.
Map(free, reserved) ==
  [p \in 40 .. 63 |-> CASE p \in {47, 59} -> "used"
                        [] p \in free     -> "free"
                        [] p \in reserved -> "reserved"
                        [] OTHER          -> "used"]

\* Nowhere for the first and in the middle of a granule too late or at its
\* beginning for the second; in reserved pages at both ends of what is near
\* the first, and further; in two granules, one of them near both.
Maps == {Map(41 .. 43 \cup 53 .. 57, {}),
         Map(60 .. 63, 40 .. 42 \cup 52 .. 55),
         Map(44 .. 46 \cup 52 .. 54, {})}
===========================================================================
