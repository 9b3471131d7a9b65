-------------------------- MODULE MCSpliceJumper --------------------------
(* Values of the constants of SpliceJumper for TLC.                        *)
EXTENDS SpliceJumperStacks, TLC

Symmetry == Permutations(Threads) \cup Permutations(Addresses)
===========================================================================
