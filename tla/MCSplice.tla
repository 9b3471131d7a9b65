----------------------------- MODULE MCSplice -----------------------------
(* Values of the constants of Splice for TLC.                              *)
EXTENDS Splice
===========================================================================
