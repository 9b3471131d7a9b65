------------------------------ MODULE Strings ------------------------------
(***************************************************************************)
(* The functions that read strings (src/str: strlen, strchr, strspn,       *)
(* chrcmp, strcmp, strstr), on a memory m of characters in which a pointer *)
(* is an address.  A function and its n variant differ in their limit, the *)
(* exact and the e variant in the comparison of two characters: here each  *)
(* is one operator, and Unlimited and FALSE stand for the plain form.      *)
(***************************************************************************)
EXTENDS Integers

NUL  == 0
NULL == -1

\* More than any memory has: the limit of a function that has none.
Unlimited == 1000

\* A loop that counts up from 0: the count at which it stops.
Walk(Stop(_)) ==
  LET from[i \in Nat] == IF Stop(i) THEN i ELSE from[i + 1]
  IN  from[0]

\* Variant: every character a limit allows is counted.
StrlenFull(m, p, maxlen) == Walk(LAMBDA i : i >= maxlen \/ m[p + i] = NUL)

\* strlen: the last of the characters a limit allows is the terminator's.
Strlen(m, p, maxlen) ==
  IF maxlen = 0 THEN 0
  ELSE Walk(LAMBDA i : i >= maxlen - 1 \/ m[p + i] = NUL)

\* strchr.
Strchr(m, p, chr, maxlen) ==
  LET i == Walk(LAMBDA k : k >= maxlen \/ m[p + k] \in {chr, NUL})
  IN  IF i < maxlen /\ m[p + i] = chr THEN p + i ELSE NULL

\* strrchr: from the end found by strlen down, that end included.
Strrchr(m, p, chr, maxlen) ==
  LET length == Strlen(m, p, maxlen)
      back   == Walk(LAMBDA k : k > length \/ m[p + length - k] = chr)
  IN  IF maxlen # 0 /\ back <= length THEN p + length - back ELSE NULL

In(m, set, chr) == Strchr(m, set, chr, Unlimited) # NULL

\* strspn and strcspn.
Strspn(m, p, accept, maxcnt) ==
  Walk(LAMBDA i : i >= maxcnt \/ m[p + i] = NUL \/ ~In(m, accept, m[p + i]))

Strcspn(m, p, reject, maxcnt) ==
  Walk(LAMBDA i : i >= maxcnt \/ m[p + i] = NUL \/ In(m, reject, m[p + i]))

\* From the end of at most maxcnt characters down.
BackFrom(m, p, maxcnt, Stop(_)) ==
  LET length == Strlen(m, p, maxcnt + 1)
  IN  IF maxcnt = 0 THEN 0 ELSE Walk(LAMBDA k : k = length \/ Stop(m[p + length - k - 1]))

\* strrspn and strrcspn.
Strrspn(m, p, accept, maxcnt)  == BackFrom(m, p, maxcnt, LAMBDA c : ~In(m, accept, c))
Strrcspn(m, p, reject, maxcnt) == BackFrom(m, p, maxcnt, LAMBDA c : In(m, reject, c))

---------------------------------------------------------------------------
(* Comparison.                                                             *)

\* Letters without their case, in the e variants.
Fold(c, e) == IF e /\ c \in 97 .. 122 THEN c - 32 ELSE c

Sign(n) == IF n > 0 THEN 1 ELSE IF n < 0 THEN -1 ELSE 0

Chrcmp(c1, c2, e) == Sign(Fold(c1, e) - Fold(c2, e))
Chrequ(c1, c2, e) == Fold(c1, e) = Fold(c2, e)

\* Where two strings differ, end, or reach the limit.
Differ(m, p, q, maxcnt, e) ==
  Walk(LAMBDA i : \/ i >= maxcnt
                  \/ ~Chrequ(m[p + i], m[q + i], e)
                  \/ NUL \in {m[p + i], m[q + i]})

\* strcmp.
Strcmp(m, p, q, maxcnt, e) ==
  LET i == Differ(m, p, q, maxcnt, e)
  IN  IF p = q \/ i >= maxcnt THEN 0 ELSE Chrcmp(m[p + i], m[q + i], e)

\* strequ: nothing is equal to nothing only in one place.
Strequ(m, p, q, maxcnt, e) ==
  \/ p = q
  \/ /\ maxcnt # 0
     /\ LET i == Differ(m, p, q, maxcnt, e)
        IN  i >= maxcnt \/ Chrequ(m[p + i], m[q + i], e)

\* strstr, of length2 characters at q in length1 at p.
Strstr(m, p, q, length1, length2, e) ==
  LET i == Walk(LAMBDA k : k > length1 - length2 \/ Strequ(m, p + k, q, length2, e))
  IN  IF i <= length1 - length2 THEN p + i ELSE NULL

\* strrstr.
Strrstr(m, p, q, length1, length2, e) ==
  LET i == Walk(LAMBDA k : \/ k > length1 - length2
                           \/ Strequ(m, p + length1 - length2 - k, q, length2, e))
  IN  IF i <= length1 - length2 THEN p + length1 - length2 - i ELSE NULL
===========================================================================
