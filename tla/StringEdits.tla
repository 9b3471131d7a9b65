---------------------------- MODULE StringEdits ----------------------------
(***************************************************************************)
(* The functions that write strings (src/str: strcpy, strcat, strtrim): a  *)
(* memory and the arguments to a memory and the length that is returned.   *)
(***************************************************************************)
EXTENDS Strings

Done(m, length) == [cells |-> m, length |-> length]

\* The memory with characters d, d + 1, ... taken from a function of 0 .. n - 1.
Stored(m, d, n, chr(_)) ==
  [a \in DOMAIN m |-> IF a \in d .. d + n - 1 THEN chr(a - d) ELSE m[a]]

Smaller(a, b) == IF a < b THEN a ELSE b

\* Variant: the last place of the buffer is not kept for the terminator.
StrcpyUnended(m, d, s, maxlen, maxcnt) ==
  LET length == Walk(LAMBDA i : i >= maxcnt \/ m[s + i] = NUL)
  IN  Done(Stored(m, d, Smaller(length + 1, maxlen), LAMBDA i : IF i = length THEN NUL ELSE m[s + i]),
           length)

\* strcpy: counts to the end or maxcnt, writes no more than maxlen.
Strcpy(m, d, s, maxlen, maxcnt) ==
  LET length == Walk(LAMBDA i : i >= maxcnt \/ m[s + i] = NUL)
  IN  Done(Stored(m, d, Smaller(length + 1, maxlen),
                  LAMBDA i : IF i \in {length, maxlen - 1} THEN NUL ELSE m[s + i]),
           length)

\* strcat.
Strcat(m, d, s, maxlen, maxcnt) ==
  LET length == Strlen(m, d, maxlen)
      copied == Strcpy(m, d + length, s, maxlen - length, maxcnt)
  IN  Done(copied.cells, length + copied.length)

---------------------------------------------------------------------------
(* Strings in memory that the allocator gave, at d; whatever was there     *)
(* before is still there.                                                  *)

\* stralloc: length characters and the terminator, all 0.
Stralloc(m, d, length) == Stored(m, d, length + 1, LAMBDA i : NUL)

\* strdup, of what strlen finds; a length of 0 is written by hand.
Strdup(m, d, s, length) ==
  IF length # 0 THEN Strcpy(m, d, s, Unlimited, length).cells ELSE [m EXCEPT ![d] = NUL]

\* stradd: the new string, of dst and at most maxcnt characters of src, the
\* terminator counted.  An empty one of the two is not copied.
Stradd(m, d, dst, src, maxcnt) ==
  LET dst_length == Strlen(m, dst, Unlimited)
      src_length == Strlen(m, src, maxcnt)
      first      == IF dst_length = 0 THEN m ELSE Strcpy(m, d, dst, Unlimited, dst_length).cells
  IN  IF src_length = 0 THEN first
      ELSE Strcpy(first, d + dst_length, src, Unlimited, src_length).cells

---------------------------------------------------------------------------

Blanks == {13, 10, 32, 9}

\* strtrim.  (With a limit, the last of the characters is left out.)
Strtrim(m, p, maxcnt) ==
  LET length == Strlen(m, p, maxcnt)
      last   == length - Walk(LAMBDA k : k = length \/ m[p + length - k - 1] \notin Blanks)
      offset == Walk(LAMBDA k : k >= last \/ m[p + k] \notin Blanks)
      kept   == last - offset
  IN  IF length = 0 THEN Done(m, 0)
      ELSE Done(Stored(m, p, kept + 1, LAMBDA i : IF i = kept THEN NUL ELSE m[p + offset + i]), kept)

Slash   == 92
Slashed == {34, 39, 92}

\* The characters from offset to length, the terminator included, go up by
\* one, from the last on, to make room for a slash.
Shifted(m, p, offset, length) ==
  Stored(m, p + offset, length - offset + 2,
         LAMBDA i : IF i = 0 THEN Slash ELSE m[p + offset + i - 1])

\* One turn of the loop of addslashes, on [m, length, needed, offset].
SlashTurn(x, p, maxlen) ==
  LET slash == x.m[p + x.offset] \in Slashed
      room  == x.length < maxlen - 1
  IN  [m      |-> IF slash /\ room THEN Shifted(x.m, p, x.offset, x.length) ELSE x.m,
       length |-> IF slash /\ room THEN x.length + 1 ELSE x.length,
       needed |-> IF slash THEN x.needed + 1 ELSE x.needed,
       offset |-> IF slash /\ room THEN x.offset + 2 ELSE x.offset + 1]

\* addslashes.
Addslashes(m, p, maxlen) ==
  LET length == Strlen(m, p, maxlen)
      turn[k \in Nat] == IF k = 0
                         THEN [m |-> m, length |-> length, needed |-> length, offset |-> 0]
                         ELSE SlashTurn(turn[k - 1], p, maxlen)
      last == turn[Walk(LAMBDA k : turn[k].offset >= turn[k].length)]
  IN  IF maxlen = 0 THEN Done(m, 0) ELSE Done(last.m, last.needed)
===========================================================================
