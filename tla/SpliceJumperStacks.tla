------------------------ MODULE SpliceJumperStacks ------------------------
(***************************************************************************)
(* The array of return addresses implements a stack per thread: the stack  *)
(* of a thread is read off the slots it holds, lowest slot first.          *)
(***************************************************************************)
EXTENDS SpliceJumper

\* The k-th lowest of the slots t holds.
SlotOf(t, k) == CHOOSE i \in Own(t) : Cardinality({j \in Own(t) : j <= i}) = k

\* The addresses in the slots of t, by increasing slot.
StackOf(t) ==
  [k \in 1 .. Cardinality(Own(t)) |-> retaddr_array[SlotOf(t, k)].return_address]

Stacks == INSTANCE ReturnStacks
  WITH open    <- stage = "ready",
       stack   <- [t \in Threads |-> StackOf(t)],
       landing <- [t \in Threads |-> IF pc[t] = "landing" THEN rax[t] ELSE NULL]

(* Whatever the interleaving, the array behaves as one stack per thread:   *)
(* an operation of a thread changes no other thread's stack, extension     *)
(* changes none, and leaving returns the thread's last entered address.    *)
ImplementsStacks == Stacks!Spec
===========================================================================
