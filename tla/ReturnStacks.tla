--------------------------- MODULE ReturnStacks ---------------------------
(***************************************************************************)
(* What the jumper promises the threads that pass through it (First In     *)
(* Last Out, splicejumper64.cpp:157 and 240): each thread has a stack of   *)
(* return addresses of its own, and leaving takes the address on top.  The *)
(* jumper keeps the stacks of all threads in one array of slots.           *)
(***************************************************************************)
EXTENDS Integers, Sequences

CONSTANTS Threads, Addresses, NULL

VARIABLES
  open,     \* the stacks can be used
  stack,    \* the addresses each thread has stored, innermost last
  landing   \* the address a thread is returning to, or NULL

vars == <<open, stack, landing>>

Init ==
  /\ open    = FALSE
  /\ stack   = [t \in Threads |-> << >>]
  /\ landing = [t \in Threads |-> NULL]

Open ==
  /\ open' = TRUE
  /\ UNCHANGED <<stack, landing>>

Enter(t, a) ==
  /\ open
  /\ landing[t] = NULL
  /\ stack' = [stack EXCEPT ![t] = Append(@, a)]
  /\ UNCHANGED <<open, landing>>

Leave(t) ==
  /\ open
  /\ landing[t] = NULL
  /\ stack[t] # << >>
  /\ landing' = [landing EXCEPT ![t] = stack[t][Len(stack[t])]]
  /\ stack'   = [stack EXCEPT ![t] = SubSeq(@, 1, Len(@) - 1)]
  /\ UNCHANGED open

Land(t) ==
  /\ landing[t] # NULL
  /\ landing' = [landing EXCEPT ![t] = NULL]
  /\ UNCHANGED <<open, stack>>

\* The context is destroyed with whatever it holds.
Discard ==
  /\ open' = FALSE
  /\ stack' = [t \in Threads |-> << >>]
  /\ UNCHANGED landing

Next ==
  \/ \E t \in Threads, a \in Addresses : Enter(t, a)
  \/ \E t \in Threads : Leave(t) \/ Land(t)
  \/ Open
  \/ Discard

Spec == Init /\ [][Next]_vars
===========================================================================
