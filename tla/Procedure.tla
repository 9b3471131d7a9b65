----------------------------- MODULE Procedure -----------------------------
(***************************************************************************)
(* What a bridge promises (src/hook/splicebridge64.h): a thread in it does *)
(* what it would have done at the start of the procedure.  The procedure   *)
(* is its instructions by address, as far as they are known.               *)
(***************************************************************************)
EXTENDS Integers, Sequences

VARIABLES
  code,    \* the instructions: address to [kind, len, cond, to]
  at,      \* the address of the thread
  flag,    \* what the conditions of the processor depend on
  calls    \* the addresses the thread has called

pvars == <<code, at, flag, calls>>

\* A condition, or its opposite.
Holds(cond) == cond = flag

Behind == at + code[at].len

ProcedureInit == code = << >> /\ at = 0 /\ flag \in BOOLEAN /\ calls = << >>

\* The procedure becomes known before the thread is there.
Known ==
  /\ at = 0 /\ calls = << >>
  /\ \A a \in DOMAIN code : a \in DOMAIN code' /\ code'[a] = code[a]
  /\ UNCHANGED <<at, flag, calls>>

Plain ==
  /\ code[at].kind = "plain"
  /\ at' = Behind
  /\ flag' \in BOOLEAN
  /\ UNCHANGED <<code, calls>>

Call ==
  /\ code[at].kind = "call"
  /\ at' = Behind
  /\ calls' = Append(calls, code[at].to)
  /\ flag' \in BOOLEAN
  /\ UNCHANGED code

Jmp ==
  /\ code[at].kind = "jmp"
  /\ at' = code[at].to
  /\ UNCHANGED <<code, flag, calls>>

Jcc ==
  /\ code[at].kind = "jcc"
  /\ at' = IF Holds(code[at].cond) THEN code[at].to ELSE Behind
  /\ UNCHANGED <<code, flag, calls>>

ProcedureNext == Known \/ (at \in DOMAIN code /\ (Plain \/ Call \/ Jmp \/ Jcc))

ProcedureSpec == ProcedureInit /\ [][ProcedureNext]_pvars
===========================================================================
