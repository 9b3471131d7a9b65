---------------------------- MODULE CharMemory ----------------------------
(***************************************************************************)
(* A memory of characters and the calls a program makes on it: every       *)
(* function of src/str and src/mem at every address and with every limit   *)
(* the documents allow.  An address outside of the memory is an error of   *)
(* the evaluation, so no function may read or write past what it is given. *)
(***************************************************************************)
EXTENDS MemFunctions, Conversions, FiniteSets, SequencesExt, FiniteSetsExt

CONSTANTS
  Memories,   \* for each group of functions, the memories they start from
  Radixes     \* the radixes of numbers

ASSUME RadixesAssumption == Radixes \subseteq {0} \cup 2 .. 36

VARIABLES
  cells,      \* the memory
  use         \* the group of functions that are called on it

cvars == <<cells, use>>

Size      == Cardinality(DOMAIN cells)
Addresses == 0 .. Size - 1

\* The lengths of places from p on.
Rooms(p) == 0 .. Size - p

---------------------------------------------------------------------------
(* What the functions are meant to give, without loops.                    *)

Least(S)    == CHOOSE x \in S : \A y \in S : x <= y
Greatest(S) == CHOOSE x \in S : \A y \in S : y <= x

\* The string at p, of at most n characters.
Text(m, p, n) ==
  LET k == Least({i \in 0 .. Size - p : i = Smaller(n, Size - p) \/ (p + i < Size /\ m[p + i] = NUL)})
  IN  [i \in 1 .. k |-> m[p + i - 1]]

\* A string that has an end.
IsString(m, p) == \E a \in p .. Size - 1 : m[a] = NUL

\* Places a function may be given: a string, or n characters.
Readable(m, p, n) == p + n <= Size \/ IsString(m, p)

Apart(a, n, b, k) == a + n <= b \/ b + k <= a

\* Only n cells from d on have changed.
OnlyThere(m, d, n) == \A a \in Addresses : a \notin d .. d + n - 1 => m[a] = cells[a]

PointerTo(S, p)     == IF S = {} THEN NULL ELSE p + Least(S) - 1
PointerToLast(S, p) == IF S = {} THEN NULL ELSE p + Greatest(S) - 1

---------------------------------------------------------------------------
(* The calls.                                                              *)

Flags == BOOLEAN

CopyCalls(d, s, maxlen, maxcnt) ==
  LET length == Len(Text(cells, s, maxcnt))
  IN  /\ Readable(cells, s, maxcnt)
      /\ d + Smaller(length + 1, maxlen) <= Size
      /\ Apart(d, Smaller(length + 1, maxlen), s, length + 1)

Limits == 0 .. Size \cup {Unlimited}

Copy ==
  /\ use = "copy"
  /\ \E d, s \in Addresses, maxlen, maxcnt \in Limits :
       CopyCalls(d, s, maxlen, maxcnt) /\ cells' = Strcpy(cells, d, s, maxlen, maxcnt).cells

\* The allocator gave n places at d, with garbage, apart from the string at s.
Allocated(d, n, s) ==
  /\ d + n <= Size
  /\ NUL \notin {cells[a] : a \in d .. d + n - 1}
  /\ Apart(d, n, s, Len(Text(cells, s, Unlimited)) + 1)

Added(dst, src) == Len(Text(cells, dst, Unlimited)) + Len(Text(cells, src, Unlimited)) + 1

Add ==
  /\ use = "alloc"
  /\ \E d, dst, src \in Addresses, maxcnt \in Limits :
       /\ IsString(cells, dst) /\ IsString(cells, src)
       /\ \A s \in {dst, src} : Allocated(d, Added(dst, src), s)
       /\ cells' = Stradd(cells, d, dst, src, maxcnt)

Trim ==
  /\ use = "trim"
  /\ \E p \in Addresses : IsString(cells, p) /\ cells' = Strtrim(cells, p, Unlimited).cells

Slashes ==
  /\ use = "trim"
  /\ \E p \in Addresses : \E maxlen \in Rooms(p) :
       IsString(cells, p) /\ cells' = Addslashes(cells, p, maxlen).cells

Move ==
  /\ use = "bytes"
  /\ \E d, s \in Addresses : \E n \in Rooms(d) \cap Rooms(s) : cells' = Memmove(cells, d, s, n)

Swap ==
  /\ use = "bytes"
  /\ \E a, b \in Addresses : \E n \in Rooms(a) \cap Rooms(b) :
       (a = b \/ Apart(a, n, b, n)) /\ cells' = Memswap(cells, a, b, n)

Set ==
  /\ use = "bytes"
  /\ \E d \in Addresses : \E n \in Rooms(d), val \in Range(cells) : cells' = Memset(cells, d, val, n)

\* The first cells hold bytes, or a number; the text goes behind them.
HexText == 3

CharInit == \E u \in DOMAIN Memories : use = u /\ cells \in Memories[u]

CharNext ==
  /\ Copy \/ Add \/ Trim \/ Slashes \/ Move \/ Swap \/ Set
  /\ UNCHANGED use

CharSpec == CharInit /\ [][CharNext]_cvars

---------------------------------------------------------------------------
(* Reading strings.                                                        *)

Folded(s, e) == [i \in DOMAIN s |-> Fold(s[i], e)]

\* Lengths and single characters.  t is what the function may look at.
CharsAgree(p, n) ==
  LET s == Text(cells, p, n)
      t == IF n > Len(s) THEN Append(s, NUL) ELSE s
  IN  /\ Strlen(cells, p, n) = IF n = 0 THEN 0 ELSE Len(Text(cells, p, n - 1))
      /\ \A c \in Range(cells) \cup {NUL} :
           LET at == {i \in DOMAIN t : t[i] = c}
           IN  /\ Strchr(cells, p, c, n) = PointerTo(at, p)
               /\ Strrchr(cells, p, c, n) = PointerToLast(at, p)

\* Characters of a set, from the front and from the end.
SpansAgree(p, q, n) ==
  LET s   == Text(cells, p, n)
      set == Range(Text(cells, q, Unlimited))
      Front0(S) == Greatest({k \in 0 .. Len(s) : \A i \in 1 .. k : s[i] \in S})
      Back(S)   == Greatest({k \in 0 .. Len(s) : \A i \in Len(s) - k + 1 .. Len(s) : s[i] \in S})
      others    == Range(s) \ set
  IN  /\ Strspn(cells, p, q, n) = Front0(set)
      /\ Strcspn(cells, p, q, n) = Front0(others)
      /\ Strrspn(cells, p, q, n) = Back(set)
      /\ Strrcspn(cells, p, q, n) = Back(others)

\* Order and equality.
ComparesAgree(p, q, n, e) ==
  LET s == Folded(Text(cells, p, n), e)
      u == Folded(Text(cells, q, n), e)
  IN  /\ (Strcmp(cells, p, q, n, e) = 0) = (s = u)
      /\ Strcmp(cells, p, q, n, e) = -Strcmp(cells, q, p, n, e)
      /\ s # u /\ IsStrictPrefix(s, u) => Strcmp(cells, p, q, n, e) = -1
      /\ n # 0 => Strequ(cells, p, q, n, e) = (s = u)

\* A string in another one, which is not empty.
FindsAgree(p, q, e) ==
  LET s  == Folded(Text(cells, p, Unlimited), e)
      u  == Folded(Text(cells, q, Unlimited), e)
      at == {i \in 1 .. Len(s) - Len(u) + 1 : SubSeq(s, i, i + Len(u) - 1) = u}
  IN  u # << >> =>
        /\ Strstr(cells, p, q, Len(s), Len(u), e) = PointerTo(at, p)
        /\ Strrstr(cells, p, q, Len(s), Len(u), e) = PointerToLast(at, p)

(* Every function that reads a string gives what a mathematical definition *)
(* on sequences gives, from each end and at every limit: the limits of     *)
(* strlen count the terminator and those of the others do not.             *)
SearchAgrees ==
  use = "search" =>
    \A p \in Addresses :
      /\ \A n \in {k \in Limits : Readable(cells, p, k)} :
           /\ CharsAgree(p, n)
           /\ \A q \in Addresses : IsString(cells, q) => SpansAgree(p, q, n)
           /\ \A q \in Addresses, e \in Flags :
                Readable(cells, q, n) => ComparesAgree(p, q, n, e)
      /\ \A q \in Addresses, e \in Flags :
           IsString(cells, p) /\ IsString(cells, q) => FindsAgree(p, q, e)

---------------------------------------------------------------------------
(* Writing strings.                                                        *)

\* What is left of a string of which maxlen places hold as much as they can.
Fitting(s, maxlen) == SubSeq(s, 1, Smaller(Len(s), maxlen - 1))

CopyKeeps(d, s, maxlen, maxcnt) ==
  LET wanted == Text(cells, s, maxcnt)
      x      == Strcpy(cells, d, s, maxlen, maxcnt)
  IN  CopyCalls(d, s, maxlen, maxcnt) =>
        /\ x.length = Len(wanted)
        /\ OnlyThere(x.cells, d, Smaller(Len(wanted) + 1, maxlen))
        /\ maxlen # 0 => Text(x.cells, d, Unlimited) = Fitting(wanted, maxlen)

\* The buffer of maxlen places at d holds a string, and what is appended is
\* cut at its end.
CatKeeps(d, s, maxlen, maxcnt) ==
  LET had    == Text(cells, d, Unlimited)
      wanted == had \o Text(cells, s, maxcnt)
      used   == Smaller(Len(wanted) + 1, maxlen)
      x      == Strcat(cells, d, s, maxlen, maxcnt)
  IN  /\ Readable(cells, s, maxcnt) /\ IsString(cells, d)
      /\ Len(had) < maxlen /\ d + used <= Size
      /\ Apart(d, used, s, Len(Text(cells, s, maxcnt)) + 1)
      => /\ x.length = Len(wanted)
         /\ OnlyThere(x.cells, d, used)
         /\ Text(x.cells, d, Unlimited) = Fitting(wanted, maxlen)

\* Copies in memory the allocator gave.  (Of two empty strings stradd writes
\* nothing, not even the end.)
AllocKeeps(d, dst, src, maxcnt) ==
  LET had    == Text(cells, dst, Unlimited)
      more   == IF maxcnt = 0 THEN << >> ELSE Text(cells, src, maxcnt - 1)
      n      == Len(had \o more) + 1
      x      == Stradd(cells, d, dst, src, maxcnt)
      copied == Text(cells, src, maxcnt)
      y      == Strdup(cells, d, src, Len(copied))
  IN  IsString(cells, dst) /\ IsString(cells, src) =>
        /\ Allocated(d, n, dst) /\ Allocated(d, n, src) =>
             /\ OnlyThere(x, d, n)
             /\ n # 1 => Text(x, d, Unlimited) = had \o more
        /\ Allocated(d, Len(copied) + 1, src) =>
             /\ OnlyThere(y, d, Len(copied) + 1) /\ Text(y, d, Unlimited) = copied
             /\ Text(Stralloc(cells, d, Len(copied)), d, Unlimited) = << >>

\* The string without blanks at its ends.
TrimKeeps(p) ==
  LET s      == Text(cells, p, Unlimited)
      solid  == {i \in DOMAIN s : s[i] \notin Blanks}
      middle == IF solid = {} THEN << >> ELSE SubSeq(s, Least(solid), Greatest(solid))
      x      == Strtrim(cells, p, Unlimited)
  IN  IsString(cells, p) =>
        /\ x.length = Len(middle)
        /\ Text(x.cells, p, Unlimited) = middle
        /\ OnlyThere(x.cells, p, Len(s) + 1)

\* A string without its slashes.
Unslashed(s) ==
  LET from[i \in Nat] ==
        CASE i > Len(s)                                     -> << >>
          [] i < Len(s) /\ s[i] = Slash                     -> <<s[i + 1]>> \o from[i + 2]
          [] i <= Len(s) /\ (i = Len(s) \/ s[i] # Slash)    -> <<s[i]>> \o from[i + 1]
  IN  from[1]

\* Taking the slashes away gives the string back when the answer says that
\* they had room; in any case the string stays in its buffer.
SlashesKeep(p, maxlen) ==
  LET s == Text(cells, p, Unlimited)
      x == Addslashes(cells, p, maxlen)
  IN  Len(s) < maxlen =>
        /\ OnlyThere(x.cells, p, maxlen)
        /\ IsString(x.cells, p) /\ Len(Text(x.cells, p, Unlimited)) < maxlen
        /\ x.length < maxlen => /\ Unslashed(Text(x.cells, p, Unlimited)) = s
                                /\ x.length = Len(Text(x.cells, p, Unlimited))

(* A function that writes a string changes nothing but the part of its     *)
(* buffer it needs, ends the string inside of it, keeps what fits, and     *)
(* answers the length it would have needed: an answer below the size of    *)
(* the buffer means that nothing was cut off.                              *)
EditKeeps ==
  /\ use = "copy" =>
       \A d, s \in Addresses, maxcnt \in Limits :
         \A maxlen \in Limits : CopyKeeps(d, s, maxlen, maxcnt) /\ CatKeeps(d, s, maxlen, maxcnt)
  /\ use = "alloc" =>
       \A d, dst, src \in Addresses, maxcnt \in Limits : AllocKeeps(d, dst, src, maxcnt)
  /\ use = "trim" =>
       \A p \in Addresses : /\ TrimKeeps(p)
                            /\ \A maxlen \in Rooms(p) : IsString(cells, p) => SlashesKeep(p, maxlen)

---------------------------------------------------------------------------
(* Bytes.                                                                  *)

Bytes(m, p, n) == [i \in 1 .. n |-> m[p + i - 1]]

\* A move down works whether the places overlap or not, and a swap of two
\* places exchanges them.
MovesKeep(a, b, n) ==
  LET moved == Memmove(cells, a, b, n)
      swapped == Memswap(cells, a, b, n)
  IN  /\ a <= b => Bytes(moved, a, n) = Bytes(cells, b, n) /\ OnlyThere(moved, a, n)
      /\ Apart(a, n, b, n) => /\ Bytes(Memcpy(cells, a, b, n), a, n) = Bytes(cells, b, n)
                              /\ Bytes(swapped, a, n) = Bytes(cells, b, n)
                              /\ Bytes(swapped, b, n) = Bytes(cells, a, n)

MemComparesAgree(a, b, n) ==
  /\ Memequ(cells, a, b, n) = (Bytes(cells, a, n) = Bytes(cells, b, n))
  /\ (Memcmp(cells, a, b, n) = 0) = Memequ(cells, a, b, n)
  /\ Memcmp(cells, a, b, n) = -Memcmp(cells, b, a, n)
  /\ \A k \in Rooms(b) :
       /\ (Memcmp_s(cells, a, n, b, k) = 0) = Memequ_s(cells, a, n, b, k)
       /\ OnlyThere(Memcpy_s(cells, a, n, b, k), a, n)
       /\ OnlyThere(Memmove_s(cells, a, n, b, k), a, n)

\* Searching, counting and replacing a value of k bytes agree with each
\* other: what was replaced is not found again (if the new value has no byte
\* of the old one), as many cells have changed as were counted, and what is
\* found first is where a replacement begins.
ValuesAgree(p, n, value, other) ==
  LET k  == Len(value)
      x  == Memreplace(cells, p, n, value, other)
      at == Replaced(cells, p, n, value)
      first == Memsearch(cells, p, n, value)
  IN  /\ OnlyThere(x, p, n)
      /\ Range(value) \cap Range(other) = {} =>
           /\ Memsearch(x, p, n, value) = NULL
           /\ Cardinality({a \in Addresses : x[a] # cells[a]}) = k * Cardinality(at)
      /\ first = IF at = {} THEN NULL ELSE Least(at)
      /\ Memspn(cells, p, n, value) <= Cardinality(at)
      /\ Memspn(cells, p, n, value) * k = n => x = Stored(cells, p, n, LAMBDA i : other[(i % k) + 1])

\* Bytes in bytes.
MemFindAgrees(p, n, q, k) ==
  LET at == {i \in 1 .. n - k + 1 : Bytes(cells, p + i - 1, k) = Bytes(cells, q, k)}
  IN  k # 0 => Memfind(cells, p, n, q, k) = PointerTo(at, p)

(* The functions on bytes keep to their places and agree with each other.  *)
(* (A move to a higher address is left out: it does nothing.)              *)
MemKeeps ==
  use = "bytes" =>
    \A p \in Addresses :
      /\ \A q \in Addresses : \A n \in Rooms(p) \cap Rooms(q) :
           MovesKeep(p, q, n) /\ MemComparesAgree(p, q, n)
      /\ \A n \in Rooms(p), q \in Addresses : \A k \in Rooms(q) : MemFindAgrees(p, n, q, k)
      /\ \A n \in Rooms(p), k \in {1, 2} :
           \A value, other \in [1 .. k -> Range(cells)] : ValuesAgree(p, n, value, other)

---------------------------------------------------------------------------
(* Numbers and hexadecimal digits.                                         *)

\* The digits of the number, and whether the first ones are 1 and 0: there
\* the reader stops, because the value does not grow by the radix.
DigitsAfter(radix, prefix, signed) ==
  LET n == cells[0]
  IN  DigitsOf(IF signed /\ n >= Modulus \div 2 THEN Negated(n) ELSE n, IF radix = 0 THEN 10 ELSE radix)

TenFirst(digits) == Len(digits) >= 2 /\ digits[1] = 49 /\ digits[2] = 48

\* Number n written and read.
WrittenNumber(radix, prefix, signed) ==
  Ntostr(cells, 1, cells[0], Unlimited, radix, prefix, signed)

BackNumber(radix, prefix, signed) ==
  LET x == WrittenNumber(radix, prefix, signed)
  IN  Strton(x.cells, 1, x.length, radix, signed) = ReadNumber(cells[0], 1 + x.length)

(* A number that was written reads back, in any radix, with or without its *)
(* prefix, signed or not, if its digits do not begin with 1 and 0; read    *)
(* with no radix it is recognised by its prefix; a buffer that is too      *)
(* small is said to be and never overrun.                                  *)
NumbersReadBack ==
  use = "number" =>
    \A radix \in Radixes, prefix, signed \in Flags :
      LET x      == WrittenNumber(radix, prefix, signed)
          digits == DigitsAfter(radix, prefix, signed)
      IN  /\ ~TenFirst(digits) =>
               /\ BackNumber(radix, prefix, signed)
               /\ prefix /\ radix \in {8, 16} =>
                    Strton(x.cells, 1, Unlimited, 0, signed) = ReadNumber(cells[0], 1 + x.length)
          /\ \A maxlen \in Rooms(1) :
               LET y == Ntostr(cells, 1, cells[0], maxlen, radix, prefix, signed)
               IN  /\ y.length = x.length
                   /\ OnlyThere(y.cells, 1, maxlen)
                   /\ y.length < maxlen => y.cells = x.cells

\* Bytes as hexadecimal digits, and back into the cleared places.
HexReadsBack(length, separator, multiline) ==
  LET bytes == Bytes(cells, 0, length)
      Sequence(maxlen) ==
        Strgenhexseq(cells, 0, length, HexText, maxlen, separator, multiline)
      x == Sequence(Unlimited)
      y == Strtohex(Memset(x.cells, 0, 0, HexText), HexText, Unlimited, 0, length)
  IN  length # 0 =>
        /\ x.length = Len(Text(x.cells, HexText, Unlimited))
        /\ y.length = length /\ Bytes(y.cells, 0, length) = bytes
        /\ \A maxlen \in Rooms(HexText) :
             /\ Sequence(maxlen).length = x.length
             /\ Sequence(maxlen).cells = IF x.length < maxlen THEN x.cells ELSE cells

\* The string of maxlen places at d after a conversion of source: whole, or
\* empty, and then the answer is no length that would do.
ConvertedOrEmpty(x, d, maxlen, source) ==
  /\ OnlyThere(x.cells, d, maxlen)
  /\ Text(x.cells, d, maxlen) \in {source, << >>}
  /\ \E a \in d .. d + maxlen - 1 : x.cells[a] = NUL
  /\ x.length < maxlen => Len(Text(x.cells, d, maxlen)) = x.length

\* A buffer of maxlen places for the string at s.
ConvertCalls(d, s, maxlen) ==
  /\ IsString(cells, s) /\ maxlen # 0
  /\ Apart(d, maxlen, s, Len(Text(cells, s, Unlimited)) + 1)

\* The string at s in the other alphabet: from narrow to wide, or back.
Converted(d, s, maxlen) ==
  LET length == Len(Text(cells, s, Unlimited))
  IN  IF use = "narrow" THEN Acstowcs(cells, d, maxlen, s, length)
                        ELSE Wcstoacs(cells, d, maxlen, s, length)

\* A string with a character that is no ASCII and room for all of them.
NotAscii(s, maxlen) ==
  LET source == Text(cells, s, Unlimited)
  IN  Len(source) < maxlen /\ \E c \in Range(source) : c > 127

\* What narrow text is as a wide one: its characters above 127 are negative
\* and come out as the last ones of the wide alphabet.
Wide(s) == [i \in DOMAIN s |-> IF s[i] > 127 THEN 65280 + s[i] ELSE s[i]]

NarrowKeeps(d, s, maxlen) ==
  LET source == Text(cells, s, Unlimited)
      x      == Converted(d, s, maxlen)
  IN  /\ ConvertedOrEmpty(x, d, maxlen, Wide(source))
      /\ x.length = Len(source)

WideKeeps(d, s, maxlen) ==
  LET source == Text(cells, s, Unlimited)
      x      == Converted(d, s, maxlen)
  IN  /\ ConvertedOrEmpty(x, d, maxlen, source)
      /\ x.length = IF NotAscii(s, maxlen) THEN Failed ELSE Len(source)

SystemKeeps(d, s, maxlen) ==
  LET source == Text(cells, s, Unlimited)
  IN  /\ \A y \in Mbstowcs(cells, d, maxlen, source) : ConvertedOrEmpty(y, d, maxlen, source)
      /\ Len(source) < maxlen =>
           \A y \in MbstowcsDup(cells, d, source) :
             y.length = Len(source) /\ Text(y.cells, d, maxlen) = source

===========================================================================
