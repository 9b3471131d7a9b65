-------------------------- MODULE MCSplicePlaces --------------------------
(* SplicePlaces for TLC.                                                   *)
EXTENDS SplicePlaces
===========================================================================
