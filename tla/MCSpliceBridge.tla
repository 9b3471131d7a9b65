-------------------------- MODULE MCSpliceBridge --------------------------
(* Every procedure of some sizes of instructions, for TLC.                 *)
EXTENDS SpliceBridge
===========================================================================
