---------------------------- MODULE Conversions ----------------------------
(***************************************************************************)
(* Conversions of text (src/str/strhex.hpp, strenc.hpp): bytes to a        *)
(* sequence of hexadecimal digits and back, and strings between the narrow *)
(* and the wide alphabet, by hand or by the operating system.              *)
(***************************************************************************)
EXTENDS Numbers

CONSTANT LineLength   \* bytes on a line of a hexadecimal sequence; 16 in the code

ASSUME LineLengthAssumption == LineLength \in Nat \ {0}

Space == {32, 9, 10, 11, 12, 13}
Xdigit(c) == Chrton(c, 16) # NoDigit

\* strtohex: pairs of digits, with space between them.  Bytes that were
\* written before a wrong character stay.
Strtohex(m, p, maxlen, buffer, buffer_size) ==
  LET end == p + Strlen(m, p, maxlen)
      read[a \in Nat, bytes \in Seq(0 .. 255)] ==
        CASE a = end                             -> [count |-> Len(bytes), bytes |-> bytes]
          [] a < end /\ m[a] \in Space           -> read[a + 1, bytes]
          [] a + 1 < end /\ Xdigit(m[a]) /\ Xdigit(m[a + 1]) ->
               read[a + 2, Append(bytes, 16 * Chrton(m[a], 16) + Chrton(m[a + 1], 16))]
          [] OTHER                               -> [count |-> 0, bytes |-> bytes]
      got == read[p, << >>]
  IN  Done(Stored(m, buffer, Smaller(Len(got.bytes), buffer_size), LAMBDA i : got.bytes[i + 1]),
           got.count)

\* How long the sequence of length bytes is.
HexAmount(length, separator, multiline) ==
  LET lines == length \div LineLength + (IF length % LineLength = 0 THEN 0 ELSE 1)
  IN  length * 2
      + (IF multiline THEN (lines - 1) * 2 ELSE 0)
      + (IF separator THEN length - (IF multiline THEN lines ELSE 1) ELSE 0)

\* What stands before byte i.
Gap(i, separator, multiline) ==
  CASE i # 0 /\ multiline /\ i % LineLength = 0                 -> <<13, 10>>
    [] i # 0 /\ ~(multiline /\ i % LineLength = 0) /\ separator -> <<32>>
    [] OTHER                                                    -> << >>

\* strgenhexseq.
Strgenhexseq(m, p, length, buffer, maxlen, separator, multiline) ==
  LET amount == HexAmount(length, separator, multiline)
      text[i \in Nat] ==
        IF i = 0 THEN << >>
        ELSE text[i - 1] \o Gap(i - 1, separator, multiline)
             \o <<Ntochr(m[p + i - 1] \div 16), Ntochr(m[p + i - 1] % 16)>>
      all == text[length] \o <<NUL>>
  IN  CASE length = 0                      -> Done(m, 0)
        [] length # 0 /\ amount >= maxlen  -> Done(m, amount)
        [] OTHER -> Done(Stored(m, buffer, Len(all), LAMBDA i : all[i + 1]), amount)

---------------------------------------------------------------------------
(* Encodings.                                                              *)

\* (size_t)-1: more than any buffer has.
Failed == Unlimited


\* The string ends behind what was converted, or is empty.
Ended(m, dst, maxlen, result) ==
  IF maxlen = 0 THEN m ELSE [m EXCEPT ![dst + (IF result < maxlen THEN result ELSE 0)] = NUL]

\* The value of a character: char has a sign, wchar_t has none.
Value(c, signed) == IF signed /\ c > 127 THEN c - 256 ELSE c

\* xcstoxcs_le and _lne, of length characters: a character whose value is
\* above 127 stops it, one below 0 does not.  The others are given the width
\* of the destination's type.
Xcstoxcs(m, dst, maxlen, src, length, signed, width) ==
  LET ascii  == Walk(LAMBDA i : i >= length \/ Value(m[src + i], signed) > 127)
      result == IF length < maxlen /\ ascii < length THEN Failed ELSE length
      copied == IF length < maxlen
                  THEN Stored(m, dst, ascii, LAMBDA i : Value(m[src + i], signed) % width) ELSE m
  IN  Done(Ended(copied, dst, maxlen, result), result)

\* acstowcs_le and _lne, wcstoacs_le and _lne.
Acstowcs(m, dst, maxlen, src, length) == Xcstoxcs(m, dst, maxlen, src, length, TRUE, 65536)
Wcstoacs(m, dst, maxlen, src, length) == Xcstoxcs(m, dst, maxlen, src, length, FALSE, 256)

\* What the system's conversion may do with a text that converts to wide:
\* fail, count, convert, or write as much as there is room for and give 0.
System(m, dst, maxlen, wide) ==
  LET written == Stored(m, dst, Smaller(Len(wide), maxlen), LAMBDA i : wide[i + 1])
  IN  {[cells |-> m, result |-> Failed],
       IF maxlen = 0 THEN [cells |-> m, result |-> Len(wide)]
       ELSE [cells |-> written, result |-> IF Len(wide) <= maxlen THEN Len(wide) ELSE 0]}

\* mbstowcs and wcstombs: the outcomes for a text that converts to wide.
\* The system is not asked to convert nothing.
Mbstowcs(m, dst, maxlen, wide) ==
  LET outcomes == IF wide = << >> THEN {[cells |-> m, result |-> 0]}
                                  ELSE System(m, dst, maxlen, wide)
  IN  {Done(Ended(x.cells, dst, maxlen, x.result), x.result) : x \in outcomes}

\* mbstowcs_dup: count, allocate, convert, at dst.
MbstowcsDup(m, dst, wide) ==
  UNION {IF counted.length = Failed THEN {}
         ELSE {x \in Mbstowcs(m, dst, counted.length + 1, wide) : x.length # Failed} :
         counted \in Mbstowcs(m, dst, 0, wide)}
===========================================================================
