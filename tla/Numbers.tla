------------------------------ MODULE Numbers ------------------------------
(***************************************************************************)
(* Numbers as text (src/str/strnum.hpp, chrnum.hpp), for the type of eight *)
(* bits: strtouch and strtoch, uchtostr and chtostr.  A number is its      *)
(* bits, signed or not.                                                    *)
(***************************************************************************)
EXTENDS StringEdits, Sequences

Modulus == 256
Negated(n) == (Modulus - n) % Modulus

\* chrton: the digit of a character, or none.
NoDigit == 99
Chrton(c, radix) ==
  LET t == CASE c \in 48 .. 57  -> c - 48
             [] c \in 65 .. 90  -> c - 55
             [] c \in 97 .. 122 -> c - 87
             [] OTHER           -> NoDigit
  IN  IF t < radix THEN t ELSE NoDigit

Ntochr(digit) == IF digit <= 9 THEN 48 + digit ELSE 55 + digit

---------------------------------------------------------------------------
(* Reading.                                                                *)

ReadNumber(value, end) == [value |-> value, end |-> end]

\* Variant: growing by the radix is not enough.
StopsSooner(value, temp, radix, limit) ==
  \/ limit # 0 /\ temp > limit
  \/ value # 0 /\ temp <= value + radix

\* What stops the digits: the limit, or a value that does not grow by radix.
Stops(value, temp, radix, limit) ==
  \/ limit # 0 /\ temp > limit
  \/ value # 0 /\ temp < value
  \/ value # 0 /\ temp < value + radix

\* The digits from b on.
Digits(m, b, end, radix, limit) ==
  LET read[a \in Nat, value \in 0 .. Modulus - 1] ==
        IF a >= end \/ Chrton(m[a], radix) = NoDigit THEN ReadNumber(value, a)
        ELSE LET temp == (value * radix + Chrton(m[a], radix)) % Modulus
             IN  IF Stops(value, temp, radix, limit) THEN ReadNumber(value, a)
                                                      ELSE read[a + 1, temp]
  IN  read[b, 0]

\* The radix a text announces at b and how many characters that takes.
Announces(m, b, end) ==
  CASE b + 1 < end /\ m[b] = 48 /\ m[b + 1] \in {88, 120}  -> [radix |-> 16, taken |-> 2]
    [] b + 1 < end /\ m[b] = 48 /\ m[b + 1] \in 48 .. 55   -> [radix |-> 8, taken |-> 1]
    [] OTHER                                               -> [radix |-> 0, taken |-> 0]

\* How far the digits of a signed number may go; 0 is no limit.
LimitOf(signed, minus) ==
  IF ~signed THEN 0 ELSE IF minus THEN Modulus \div 2 ELSE Modulus \div 2 - 1

\* strton: blanks, a sign, blanks, a prefix, the digits.
Strton(m, p, length, radix, signed) ==
  LET end      == p + length
      Behind(a) == a + Walk(LAMBDA k : a + k >= end \/ m[a + k] \notin {32, 9})
      s        == Behind(p)
      plus     == s < end /\ m[s] = 43
      minus    == s < end /\ m[s] = 45
      b        == IF plus \/ minus THEN Behind(s + 1) ELSE s
      known    == Announces(m, b, end)
      first    == b + known.taken
      base     == CASE known.radix # 0              -> known.radix
                    [] known.radix = 0 /\ radix = 0 -> 10
                    [] OTHER                        -> radix
      read     == Digits(m, first, end, base, LimitOf(signed, minus))
  IN  CASE length = 0                                   -> ReadNumber(0, p)
        [] length # 0 /\ minus /\ ~signed               -> ReadNumber(0, s)
        [] known.radix # 0 /\ radix \notin {0, known.radix} -> ReadNumber(0, b)
        [] OTHER -> ReadNumber(IF minus THEN Negated(read.value) ELSE read.value, read.end)

---------------------------------------------------------------------------
(* Writing.                                                                *)

\* The digits of a number, the last one found first.
DigitsOf(number, radix) ==
  LET text[n \in 0 .. Modulus - 1] ==
        IF n < radix THEN <<Ntochr(n)>> ELSE Append(text[n \div radix], Ntochr(n % radix))
  IN  text[number]

PrefixOf(radix, prefix) ==
  CASE prefix /\ radix = 8  -> <<48>>
    [] prefix /\ radix = 16 -> <<48, 120>>
    [] OTHER                -> << >>

\* ntostr: the sign and the prefix are written as far as there is room, the
\* digits and the terminator only if all of it has.
Ntostr(m, d, number, maxlen, radix, prefix, signed) ==
  LET minus  == signed /\ number >= Modulus \div 2
      head   == (IF minus THEN <<45>> ELSE << >>) \o PrefixOf(radix, prefix)
      digits == DigitsOf(IF minus THEN Negated(number) ELSE number, IF radix = 0 THEN 10 ELSE radix)
      length == Len(head) + Len(digits)
      text   == IF length < maxlen THEN head \o digits \o <<NUL>>
                ELSE SubSeq(head, 1, IF maxlen = 0 THEN 0 ELSE Smaller(Len(head), maxlen - 1))
  IN  Done(Stored(m, d, Len(text), LAMBDA i : text[i + 1]), length)
===========================================================================
