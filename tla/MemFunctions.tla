--------------------------- MODULE MemFunctions ---------------------------
(***************************************************************************)
(* The functions on bytes (src/mem): copies, comparison, and the search,   *)
(* count and replacement of a value of one or several bytes.               *)
(***************************************************************************)
EXTENDS StringEdits, Sequences

\* memcpy, from the first byte on: where the copy has run into the source,
\* it reads what it has written.
Memcpy(m, d, s, size) ==
  LET byte[i \in Nat] == IF s + i \in d .. d + i - 1 THEN byte[s + i - d] ELSE m[s + i]
  IN  Stored(m, d, size, LAMBDA i : byte[i])

\* The _s forms do nothing when the source is larger than the destination.
Memcpy_s(m, d, dst_size, s, src_size) ==
  IF src_size > dst_size THEN m ELSE Memcpy(m, d, s, src_size)

\* memmove.  The branch for a destination behind the source asks the same
\* again, and is never taken.
Memmove(m, d, s, size) == IF s > d THEN Memcpy(m, d, s, size) ELSE m

Memmove_s(m, d, dst_size, s, src_size) ==
  IF src_size > dst_size THEN m ELSE Memmove(m, d, s, src_size)

\* memswap, of two places that have no byte in common, or are one.
Memswap(m, a, b, size) ==
  Stored(Stored(m, a, size, LAMBDA i : m[b + i]), b, size, LAMBDA i : m[a + i])

\* memset and memzero.
Memset(m, d, val, size) == Stored(m, d, size, LAMBDA i : val)

---------------------------------------------------------------------------

FirstOther(m, a, b, size) == Walk(LAMBDA i : i >= size \/ m[a + i] # m[b + i])

\* memcmp and memequ.
Memcmp(m, a, b, size) ==
  LET i == FirstOther(m, a, b, size)
  IN  IF a = b \/ i >= size THEN 0 ELSE Sign(m[a + i] - m[b + i])

Memequ(m, a, b, size) == a = b \/ FirstOther(m, a, b, size) >= size

\* memcmp_s: the size decides first.
Memcmp_s(m, a, size1, b, size2) ==
  IF size1 # size2 THEN 2 * Sign(size1 - size2) ELSE Memcmp(m, a, b, size1)

Memequ_s(m, a, size1, b, size2) == size1 = size2 /\ Memequ(m, a, b, size1)

\* memfind.
Memfind(m, p, mem_size, q, data_size) ==
  LET i == Walk(LAMBDA k : k > mem_size - data_size \/ Memequ(m, p + k, q, data_size))
  IN  IF 0 \notin {mem_size, data_size} /\ i <= mem_size - data_size THEN p + i ELSE NULL

---------------------------------------------------------------------------
(* A value is the sequence of its bytes.                                   *)

Holds(m, a, value) == \A i \in 1 .. Len(value) : m[a + i - 1] = value[i]

\* memsearch, byte by byte.
Memsearch(m, p, size, value) ==
  LET i == Walk(LAMBDA k : k > size - Len(value) \/ Holds(m, p + k, value))
  IN  IF i <= size - Len(value) THEN p + i ELSE NULL

\* memspn, value by value.
Memspn(m, p, size, value) ==
  Walk(LAMBDA k : (k + 1) * Len(value) > size \/ ~Holds(m, p + k * Len(value), value))

\* Variant: the byte after the first one of a value that was found is next.
ReplacedOverlapping(m, p, size, value) ==
  {a \in p .. p + size - Len(value) : Holds(m, a, value)}

\* Where memreplace finds the value: after one it goes on behind it.
Replaced(m, p, size, value) ==
  LET from[a \in Nat] ==
        IF a > p + size - Len(value) THEN {}
        ELSE IF Holds(m, a, value) THEN {a} \cup from[a + Len(value)] ELSE from[a + 1]
  IN  from[p]

\* memreplace.
Memreplace(m, p, size, old_value, new_value) ==
  LET at == Replaced(m, p, size, old_value)
      In1(a) == {b \in at : a \in b .. b + Len(old_value) - 1}
  IN  [a \in DOMAIN m |-> IF In1(a) = {} THEN m[a]
                          ELSE LET b == CHOOSE b \in In1(a) : TRUE IN new_value[a - b + 1]]
===========================================================================
