--------------------------- MODULE MCSpliceGroup ---------------------------
(* Values of the constants of SpliceGroup for TLC.                         *)
EXTENDS SpliceGroup

\* Items 1 and 3 hook the same procedure.
SharedTarget == <<"p", "q", "p">>
===========================================================================
