------------------------ MODULE SpliceRouterProofs ------------------------
(***************************************************************************)
(* What the arithmetic of near addresses gives, for every size of the      *)
(* address space, of a page and of a node: how far near is, that a near    *)
(* jump to what is near can be built and leads there, and that the search  *)
(* for memory finds room for a node exactly when there is some.  Then the  *)
(* router, for every number of threads, of jumpers and of nodes: the       *)
(* properties that the runs check follow from one inductive invariant.     *)
(***************************************************************************)
EXTENDS SpliceRouter, SequenceTheorems, FiniteSetTheorems, WellFoundedInduction, TLAPS

---------------------------------------------------------------------------
(* Arithmetic.                                                             *)

(* Dividing by d leaves a quotient and a remainder below d.                *)
LEMMA Division ==
  ASSUME NEW n \in Int, NEW d \in Nat \ {0}
  PROVE  /\ n % d \in 0 .. d - 1
         /\ n \div d \in Int
         /\ n = d * (n \div d) + (n % d)
OBVIOUS

(* Quotient and remainder are the only ones.                               *)
LEMMA Unique ==
  ASSUME NEW d \in Nat \ {0}, NEW q \in Int, NEW r \in 0 .. d - 1
  PROVE  /\ (d * q + r) % d = r
         /\ (d * q + r) \div d = q
<1>. DEFINE n == d * q + r
<1>1. n \in Int /\ n \div d \in Int /\ n % d \in 0 .. d - 1 /\ n = d * (n \div d) + (n % d)
  BY Division
<1>2. d * (q - (n \div d)) = (n % d) - r
  BY <1>1
<1>. HIDE DEF n
<1>3. -d < (n % d) - r /\ (n % d) - r < d
  BY <1>1
<1>4. ASSUME NEW k \in Int, -d < d * k, d * k < d
      PROVE  k = 0
  BY <1>4
<1>5. q - (n \div d) = 0
  BY <1>1, <1>2, <1>3, <1>4
<1>6. n \div d = q
  BY <1>1, <1>5
<1>7. n % d = r
  BY <1>1, <1>2, <1>6
<1>. QED
  BY <1>6, <1>7 DEF n

(* The remainder of a number that is less than one divisor away.           *)
LEMMA Within ==
  ASSUME NEW n \in Int, NEW d \in Nat \ {0}, 0 <= n, n < d
  PROVE  n % d = n /\ n \div d = 0
OBVIOUS

LEMMA WrapsUp ==
  ASSUME NEW n \in Int, NEW d \in Nat \ {0}, -d <= n, n < 0
  PROVE  n % d = n + d
<1>1. (d * (-1) + (n + d)) % d = n + d
  BY Unique
<1>. QED
  BY <1>1

LEMMA WrapsDown ==
  ASSUME NEW n \in Int, NEW d \in Nat \ {0}, d <= n, n < 2 * d
  PROVE  n % d = n - d
<1>1. (d * 1 + (n - d)) % d = n - d
  BY Unique
<1>. QED
  BY <1>1

(* A set of natural numbers that is not empty has a least one.             *)
LEMMA Smallest ==
  ASSUME NEW S \in SUBSET Nat, S # {}
  PROVE  \E n \in S : \A m \in S : n <= m
<1>. DEFINE Less == {ss \in Nat \X Nat : ss[1] < ss[2]}
<1>1. IsWellFoundedOn(Less, Nat)
  BY NatLessThanWellFounded, Zenon DEF OpToRel
<1>. HIDE DEF Less
<1>2. PICK n \in S : \A m \in S : <<m, n>> \notin Less
  BY <1>1, WFMin
<1>3. \A m \in S : ~ (m < n)
  BY <1>2 DEF Less
<1>. QED
  BY <1>2, <1>3

---------------------------------------------------------------------------
(* What is near.                                                           *)

(* A node has a size.                                                      *)
LEMMA NodeSizeNat == NodeSize \in Nat \ {0}
<1>1. NodeItems * ItemSize \in Nat
  BY SizeAssumption
<1>. QED
  BY <1>1, SizeAssumption DEF NodeSize

(* So have the address space and what a jump is made of.                   *)
LEMMA Sizes ==
  /\ Space \in Nat \ {0} /\ Half \in Nat \ {0} /\ Reach \in Nat \ {0} /\ JumpSize \in Nat \ {0}
  /\ Reach + JumpSize <= Half /\ 4 * Half <= Space
BY ReachAssumption

(* From where on is near: nothing is before the first address.             *)
LEMMA LowestIs ==
  ASSUME NEW from \in 0 .. Space - 1
  PROVE  Lowest(from) = IF from < Reach THEN 0 ELSE from - Reach
<1>. DEFINE n == from - Reach
<1>1. n \in Int /\ -Space <= n /\ n < Space /\ n = from - Reach
  BY Sizes
<1>2. Lowest(from) = IF n % Space > from THEN 0 ELSE n % Space
  BY DEF Lowest
<1>. HIDE DEF n
<1>3. n < 0 => n % Space = n + Space
  BY <1>1, WrapsUp, Sizes
<1>4. 0 <= n => n % Space = n
  BY <1>1, Within, Sizes
<1>. QED
  BY <1>1, <1>2, <1>3, <1>4, Sizes

(* How far is near: nothing is after the last address.                     *)
LEMMA HighestIs ==
  ASSUME NEW from \in 0 .. Space - 1, NEW size \in 0 .. Reach
  PROVE  Highest(from, size) = IF from + Reach - size < Space THEN from + Reach - size
                                                              ELSE Space - 1
<1>. DEFINE n == from + Reach - size
<1>1. n \in Int /\ 0 <= n /\ n < 2 * Space /\ n = from + Reach - size
  BY Sizes
<1>2. Highest(from, size) = IF n % Space < from THEN Space - 1 ELSE n % Space
  BY DEF Highest
<1>. HIDE DEF n
<1>3. Space <= n => n % Space = n - Space
  BY <1>1, WrapsDown, Sizes
<1>4. n < Space => n % Space = n
  BY <1>1, Within, Sizes
<1>. QED
  BY <1>1, <1>2, <1>3, <1>4, Sizes

(* Near is within the reach, both ways, and an address.                    *)
LEMMA NearIs ==
  ASSUME NEW from \in 0 .. Space - 1, NEW size \in 0 .. Reach, NEW a \in Int,
         IsNear(a, from, size)
  PROVE  /\ a \in 0 .. Space - 1
         /\ from - Reach <= a
         /\ a + size <= from + Reach
BY LowestIs, HighestIs, Sizes DEF IsNear

---------------------------------------------------------------------------
(* The near jump.                                                          *)

(* A jump over less than Half bytes, either way, can be built, and leads   *)
(* where it was meant to.                                                  *)
LEMMA NearJump ==
  ASSUME NEW from \in Int, NEW to \in 0 .. Space - 1,
         -Half <= to - (from + JumpSize), to - (from + JumpSize) < Half
  PROVE  Builds(from, to) /\ Lands(from, to) = to
<1>. DEFINE d == to - (from + JumpSize)
            W == 2 * Half
            k == Space \div W
<1>1. /\ d \in Int /\ -Half <= d /\ d < Half
      /\ from + JumpSize + d = to
      /\ Offset(from, to) = d % Space
  BY Sizes DEF Offset
<1>2. W \in Nat \ {0} /\ W = 2 * Half /\ W <= Space /\ Space % W = 0
  BY ReachAssumption
<1>3. /\ Builds(from, to) <=> Offset(from, to) \div W \in {0, k - 1}
      /\ Lands(from, to) = (from + JumpSize + (IF Offset(from, to) % W < Half
                                               THEN Offset(from, to) % W
                                               ELSE (Offset(from, to) % W) - W)) % Space
  BY DEF Builds, Lands
<1>. HIDE DEF d, W
<1>4. Space = W * k /\ k \in Int
  <2>1. Space \in Int
    BY Sizes
  <2>2. Space = W * (Space \div W) + (Space % W) /\ Space \div W \in Int
    BY <1>2, <2>1, Division
  <2>. QED
    BY <1>2, <2>2
<1>. HIDE DEF k
<1>5. to % Space = to
  BY Sizes, Within
<1>6. CASE 0 <= d
  <2>1. Offset(from, to) = d
    BY <1>1, <1>6, Sizes, Within
  <2>2. d % W = d /\ d \div W = 0
    BY <1>1, <1>2, <1>6, Sizes, Within
  <2>. QED
    BY <1>1, <1>3, <1>5, <2>1, <2>2
<1>7. CASE d < 0
  <2>1. Offset(from, to) = d + Space
    <3>1. -Space <= d /\ d < 0 /\ d \in Int /\ Space \in Nat \ {0}
      BY <1>1, <1>7, Sizes
    <3>2. d % Space = d + Space
      BY <3>1, WrapsUp
    <3>. QED
      BY <1>1, <3>2
  <2>2. d + W \in 0 .. W - 1 /\ k - 1 \in Int /\ Half <= d + W
    BY <1>1, <1>2, <1>4, <1>7, Sizes
  <2>3. W * (k - 1) + (d + W) = W * k + d
    BY <1>1, <1>2, <1>4
  <2>4. (d + Space) % W = d + W /\ (d + Space) \div W = k - 1
    <3>1. d + Space = W * (k - 1) + (d + W)
      BY <1>1, <1>4, <2>3, Sizes
    <3>. QED
      BY <1>2, <2>2, <3>1, Unique
  <2>5. d + W - W = d /\ ~ (d + W < Half)
    BY <1>1, <1>2, <2>2, Sizes
  <2>6. Builds(from, to)
    BY <1>3, <2>1, <2>4
  <2>7. Lands(from, to) = (from + JumpSize + d) % Space
    <3>1. Offset(from, to) % W = d + W
      BY <2>1, <2>4
    <3>. DEFINE low == Offset(from, to) % W
    <3>. HIDE DEF low
    <3>2. ~ (low < Half) /\ low - W = d
      BY <1>1, <1>2, <2>2, <3>1, Sizes DEF low
    <3>. QED
      BY <1>3, <3>2 DEF low
  <2>. QED
    BY <1>1, <1>5, <2>6, <2>7
<1>. QED
  BY <1>1, <1>6, <1>7

---------------------------------------------------------------------------
(* The search for memory for a node.                                       *)

(* The pages a program has, and what each is used for.                     *)
MemoryOK(map) ==
  /\ DOMAIN map \subseteq 0 .. Space \div Page - 1
  /\ \A p \in DOMAIN map : map[p] \in {"free", "reserved", "used"}

(* A later address is not in an earlier page.                              *)
LEMMA PageOfMonotone ==
  ASSUME NEW a \in Int, NEW b \in Int, a <= b
  PROVE  /\ PageOf(a) \in Int /\ PageOf(b) \in Int /\ PageOf(a) <= PageOf(b)
         /\ a \in Nat => PageOf(a) \in Nat
<1>1. /\ a % Page \in 0 .. Page - 1 /\ a \div Page \in Int /\ a = Page * (a \div Page) + (a % Page)
      /\ b % Page \in 0 .. Page - 1 /\ b \div Page \in Int /\ b = Page * (b \div Page) + (b % Page)
      /\ Page \in Nat \ {0}
  BY SizeAssumption, Division
<1>2. ASSUME NEW q \in Int, NEW r \in Int, q > r
      PROVE  Page * q >= Page * r + Page
  <2>1. Page * (q - r - 1) >= 0
    BY <1>1, <1>2
  <2>. QED
    BY <1>1, <2>1
<1>3. a \div Page <= b \div Page
  <2>. SUFFICES ASSUME a \div Page > b \div Page
                PROVE  FALSE
    BY <1>1
  <2>1. Page * (a \div Page) >= Page * (b \div Page) + Page
    BY <1>1, <1>2
  <2>. QED
    BY <1>1, <2>1
<1>4. a \in Nat => a \div Page >= 0
  <2>. SUFFICES ASSUME a \in Nat, a \div Page < 0
                PROVE  FALSE
    BY <1>1
  <2>1. Page * 0 >= Page * (a \div Page) + Page
    BY <1>1, <1>2
  <2>. QED
    BY <1>1, <2>1
<1>. QED
  BY <1>1, <1>3, <1>4 DEF PageOf

(* Where a page begins is in the page.                                     *)
LEMMA PageBegins ==
  ASSUME NEW p \in Int
  PROVE  /\ p * Page \in Int /\ PageOf(p * Page) = p /\ (p * Page) % Page = 0
         /\ p \in Nat => p * Page \in Nat
<1>1. 0 \in 0 .. Page - 1 /\ Page \in Nat \ {0}
  BY SizeAssumption
<1>2. (Page * p + 0) % Page = 0 /\ (Page * p + 0) \div Page = p
  BY <1>1, Unique
<1>3. Page * p + 0 = p * Page /\ p * Page \in Int
  BY <1>1
<1>4. p \in Nat => p * Page \in Nat
  BY <1>1
<1>. QED
  BY <1>2, <1>3, <1>4 DEF PageOf

(* Less memory touches no other pages.                                     *)
LEMMA TouchedMonotone ==
  ASSUME NEW a \in Int, NEW b \in Int, NEW s \in Nat, NEW u \in Nat,
         b <= a, a + s <= b + u
  PROVE  Touched(a, s) \subseteq Touched(b, u)
BY PageOfMonotone, a + s - 1 <= b + u - 1 DEF Touched

(* Memory touches the page of its first and that of its last byte.         *)
LEMMA TouchedFirst ==
  ASSUME NEW a \in Int, NEW s \in Nat \ {0}
  PROVE  PageOf(a) \in Touched(a, s) /\ PageOf(a + s - 1) \in Touched(a, s)
BY PageOfMonotone, a <= a + s - 1 DEF Touched

(* A node is in memory that the address space has.                         *)
LEMMA MemoryEnds ==
  ASSUME NEW map, MemoryOK(map), NEW a \in Nat, NEW status,
         AllAre(map, a, NodeSize, status)
  PROVE  a + NodeSize <= Space
<1>1. Page \in Nat \ {0} /\ Space \in Nat \ {0} /\ NodeSize \in Nat \ {0}
  BY SizeAssumption, Sizes, NodeSizeNat
<1>. DEFINE last == a + NodeSize - 1
            q == last \div Page
            s == Space \div Page
<1>2. last \in Nat /\ a + NodeSize = last + 1
  BY <1>1
<1>3. PageOf(last) \in Touched(a, NodeSize)
  BY <1>1, TouchedFirst
<1>4. q <= s - 1
  BY <1>3 DEF AllAre, MemoryOK, PageOf
<1>. HIDE DEF last
<1>5. last = Page * q + (last % Page) /\ last % Page \in 0 .. Page - 1 /\ q \in Int
  <2>1. last \in Int /\ Page \in Nat \ {0}
    BY <1>1, <1>2
  <2>. QED
    BY <2>1, Division
<1>6. Space = Page * s + (Space % Page) /\ Space % Page \in 0 .. Page - 1 /\ s \in Int
  BY <1>1, Division
<1>. HIDE DEF q, s
<1>7. Page * (s - 1 - q) >= 0
  BY <1>1, <1>4, <1>5, <1>6
<1>8. Page * s >= Page * q + Page
  BY <1>1, <1>5, <1>6, <1>7
<1>. QED
  BY <1>1, <1>2, <1>5, <1>6, <1>8

(* The beginning of a granule.                                             *)
LEMMA GranuleBegins ==
  ASSUME NEW a \in Nat
  PROVE  /\ a - (a % Granule) \in Nat /\ a - (a % Granule) <= a
         /\ (a - (a % Granule)) % Granule = 0
         /\ a % Granule = 0 => a % Page = 0
<1>1. Granule \in Nat \ {0} /\ 0 \in 0 .. Granule - 1 /\ Page \in Nat \ {0} /\ 0 \in 0 .. Page - 1
  BY SizeAssumption
<1>2. a % Granule \in 0 .. Granule - 1 /\ a \div Granule \in Int
      /\ a = Granule * (a \div Granule) + (a % Granule)
  BY <1>1, Division
<1>3. (Granule * (a \div Granule) + 0) % Granule = 0
  BY <1>1, <1>2, Unique
<1>4. Granule * (a \div Granule) \in Int
  BY <1>1, <1>2
<1>5. a - (a % Granule) = Granule * (a \div Granule) + 0
  BY <1>2, <1>4
<1>6. a \div Granule >= 0
  BY <1>1
<1>7. Granule * (a \div Granule) >= 0
  BY <1>1, <1>2, <1>6
<1>8. ASSUME a % Granule = 0
      PROVE  a % Page = 0
  <2>1. Granule % Page = 0 /\ Granule \div Page \in Int
        /\ Granule = Page * (Granule \div Page) + (Granule % Page)
    BY <1>1, SizeAssumption, Division
  <2>2. a = (Page * (Granule \div Page)) * (a \div Granule)
    BY <1>1, <1>2, <1>8, <2>1
  <2>3. a = Page * ((Granule \div Page) * (a \div Granule)) + 0
        /\ (Granule \div Page) * (a \div Granule) \in Int
    BY <1>1, <1>2, <2>1, <2>2
  <2>. QED
    BY <1>1, <2>3, Unique
<1>. QED
  BY <1>2, <1>3, <1>4, <1>5, <1>7, <1>8

(* Memory that is reserved is not free.                                    *)
LEMMA KindsDiffer ==
  ASSUME NEW map, NEW x \in Nat, AllAre(map, x, NodeSize, "reserved")
  PROVE  ~ AllAre(map, x - (x % Granule), x + NodeSize - (x - (x % Granule)), "free")
<1>. DEFINE base == x - (x % Granule)
<1>1. base \in Nat /\ base <= x
  BY GranuleBegins
<1>2. NodeSize \in Nat \ {0}
  BY NodeSizeNat
<1>3. PageOf(x) \in Touched(x, NodeSize)
  BY <1>2, TouchedFirst
<1>. HIDE DEF base
<1>4. x + NodeSize - base \in Nat /\ x + NodeSize <= base + (x + NodeSize - base)
  BY <1>1, <1>2
<1>5. Touched(x, NodeSize) \subseteq Touched(base, x + NodeSize - base)
  BY <1>1, <1>2, <1>4, TouchedMonotone
<1>6. ~ AllAre(map, base, x + NodeSize - base, "free")
  BY <1>3, <1>5 DEF AllAre
<1>. QED
  BY <1>6 DEF base

(* What the system gives for a page that is not used: memory of one kind,  *)
(* not above what was asked for.                                           *)
LEMMA Memalloc ==
  ASSUME NEW map, MemoryOK(map), NEW x \in Nat,
         MemallocAddress(map, x) # NULL
  PROVE  LET a == MemallocAddress(map, x)
         IN  /\ a \in Nat \ {0} /\ a <= x
             /\ \/ a = x /\ AllAre(map, a, NodeSize, "reserved")
                \/ a % Granule = 0 /\ AllAre(map, a, NodeSize, "free")
<1>. DEFINE base == x - (x % Granule)
            a == MemallocAddress(map, x)
<1>1. base \in Nat /\ base <= x /\ base % Granule = 0
  BY GranuleBegins
<1>2. NodeSize \in Nat \ {0}
  BY NodeSizeNat
<1>3. CASE AllAre(map, x, NodeSize, "reserved")
  <2>1. a = x
    BY <1>3, KindsDiffer DEF MemallocAddress
  <2>. QED
    BY <1>3, <2>1 DEF NULL
<1>4. CASE /\ ~ AllAre(map, x, NodeSize, "reserved")
           /\ AllAre(map, base, x + NodeSize - base, "free")
  <2>1. a = base
    BY <1>4 DEF MemallocAddress
  <2>2. Touched(base, NodeSize) \subseteq Touched(base, x + NodeSize - base)
    <3>1. x + NodeSize - base \in Nat /\ base + NodeSize <= base + (x + NodeSize - base)
      BY <1>1, <1>2
    <3>. QED
      BY <1>1, <1>2, <3>1, TouchedMonotone
  <2>3. AllAre(map, base, NodeSize, "free")
    BY <1>4, <2>2 DEF AllAre
  <2>. QED
    BY <1>1, <2>1, <2>3 DEF NULL
<1>5. CASE /\ ~ AllAre(map, x, NodeSize, "reserved")
           /\ ~ AllAre(map, base, x + NodeSize - base, "free")
  <2>1. a = NULL
    BY <1>5 DEF MemallocAddress
  <2>. QED
    BY <2>1
<1>. QED
  BY <1>3, <1>4, <1>5

(* Memory that is reserved where a node is asked for, or free from a       *)
(* granule on, is given as it is.                                          *)
LEMMA MemallocGives ==
  ASSUME NEW map, NEW x \in Nat,
         \/ AllAre(map, x, NodeSize, "reserved")
         \/ x % Granule = 0 /\ AllAre(map, x, NodeSize, "free")
  PROVE  MemallocAddress(map, x) = x
<1>1. CASE AllAre(map, x, NodeSize, "reserved")
  BY <1>1, KindsDiffer DEF MemallocAddress
<1>2. CASE x % Granule = 0 /\ AllAre(map, x, NodeSize, "free")
  <2>1. x - (x % Granule) = x /\ x + NodeSize - x = NodeSize
    BY <1>2, NodeSizeNat
  <2>2. PageOf(x) \in Touched(x, NodeSize)
    BY NodeSizeNat, TouchedFirst
  <2>3. ~ AllAre(map, x, NodeSize, "reserved")
    BY <1>2, <2>2 DEF AllAre
  <2>. QED
    BY <1>2, <2>1, <2>3 DEF MemallocAddress
<1>. QED
  BY <1>1, <1>2

(* What the search gives a node: the place is near, an address, and all of *)
(* it was free or all of it reserved.                                      *)
LEMMA Given ==
  ASSUME NEW map, MemoryOK(map), NEW from \in 0 .. Space - 1,
         NodeAlloc(map, from) # NULL
  PROVE  LET a == NodeAlloc(map, from)
         IN  /\ a \in 1 .. Space - 1
             /\ IsNear(a, from, NodeSize)
             /\ \/ a % Page = 0 /\ AllAre(map, a, NodeSize, "reserved")
                \/ a % Granule = 0 /\ AllAre(map, a, NodeSize, "free")
<1>. DEFINE given == {NodeAllocAddress(map, from, p) : p \in UnusedPages(map, from)} \ {NULL}
<1>1. ASSUME NEW a \in given
      PROVE  /\ a \in 1 .. Space - 1
             /\ IsNear(a, from, NodeSize)
             /\ \/ a % Page = 0 /\ AllAre(map, a, NodeSize, "reserved")
                \/ a % Granule = 0 /\ AllAre(map, a, NodeSize, "free")
  <2>1. PICK p \in UnusedPages(map, from) : a = NodeAllocAddress(map, from, p)
    OBVIOUS
  <2>2. p \in Nat
    BY <2>1 DEF UnusedPages, MemoryOK
  <2>3. a # NULL
    OBVIOUS
  <2>4. a = MemallocAddress(map, p * Page) /\ IsNear(a, from, NodeSize)
    BY <2>1, <2>3 DEF NodeAllocAddress
  <2>5. p * Page \in Nat /\ (p * Page) % Page = 0
    BY <2>2, PageBegins
  <2>6. /\ a \in Nat \ {0}
        /\ \/ a = p * Page /\ AllAre(map, a, NodeSize, "reserved")
           \/ a % Granule = 0 /\ AllAre(map, a, NodeSize, "free")
    BY <2>3, <2>4, <2>5, Memalloc
  <2>7. NodeSize \in 0 .. Reach
    BY NodeSizeNat, SizeAssumption, Sizes
  <2>8. a \in 0 .. Space - 1
    BY <2>4, <2>6, <2>7, NearIs
  <2>. QED
    BY <2>4, <2>5, <2>6, <2>8
<1>2. NodeAlloc(map, from) = IF given = {} THEN NULL
                                              ELSE CHOOSE a \in given : \A b \in given : a <= b
  BY DEF NodeAlloc
<1>. HIDE DEF given
<1>3. given # {} /\ given \in SUBSET Nat
  BY <1>1, <1>2
<1>4. \E a \in given : \A b \in given : a <= b
  BY <1>3, Smallest
<1>5. NodeAlloc(map, from) \in given
  BY <1>2, <1>3, <1>4
<1>. QED
  BY <1>1, <1>5

(* The search is exact: it gives a place when and only when somewhere near *)
(* there is room for a node.                                               *)
LEMMA SearchIsExact ==
  ASSUME NEW map, MemoryOK(map), NEW from \in 0 .. Space - 1
  PROVE  HasRoom(map, from) <=> NodeAlloc(map, from) # NULL
<1>. DEFINE given == {NodeAllocAddress(map, from, p) : p \in UnusedPages(map, from)} \ {NULL}
<1>1. ASSUME NodeAlloc(map, from) # NULL
      PROVE  HasRoom(map, from)
  BY <1>1, Given DEF HasRoom
<1>2. ASSUME HasRoom(map, from)
      PROVE  NodeAlloc(map, from) # NULL
  <2>1. PICK a \in 1 .. Space - 1 :
          /\ IsNear(a, from, NodeSize)
          /\ \/ a % Granule = 0 /\ AllAre(map, a, NodeSize, "free")
             \/ a % Page = 0 /\ AllAre(map, a, NodeSize, "reserved")
    BY <1>2 DEF HasRoom
  <2>. DEFINE p == PageOf(a)
  <2>2. a \in Nat /\ a # NULL
    BY Sizes DEF NULL
  <2>3. a % Page = 0
    BY <2>1, <2>2, GranuleBegins
  <2>4. p \in Nat /\ p * Page = a /\ (p + 1) * Page = a + Page /\ Page \in Nat \ {0}
    <3>1. Page \in Nat \ {0}
      BY SizeAssumption
    <3>2. a = Page * (a \div Page) + (a % Page) /\ a \div Page \in Int
      BY <2>2, <3>1, Division
    <3>3. p \in Nat
      BY <2>2, PageOfMonotone, a <= a
    <3>. QED
      BY <2>2, <2>3, <3>1, <3>2, <3>3 DEF PageOf
  <2>5. p \in Touched(a, NodeSize)
    BY <2>2, NodeSizeNat, TouchedFirst
  <2>6. p \in DOMAIN map /\ map[p] # "used" /\ AllAre(map, a, NodeSize, map[p])
    BY <2>1, <2>5 DEF AllAre
  <2>7. Lowest(from) <= a /\ Lowest(from) \in Nat
    BY <2>1, LowestIs, Sizes DEF IsNear
  <2>8. p \in UnusedPages(map, from)
    BY <2>2, <2>4, <2>6, <2>7 DEF UnusedPages
  <2>9. MemallocAddress(map, p * Page) = a
    BY <2>1, <2>2, <2>4, MemallocGives
  <2>10. NodeAllocAddress(map, from, p) = a
    BY <2>1, <2>2, <2>4, <2>9 DEF NodeAllocAddress
  <2>11. a \in given
    BY <2>2, <2>8, <2>10
  <2>12. given \in SUBSET Nat
    <3>. SUFFICES ASSUME NEW q \in UnusedPages(map, from),
                         NodeAllocAddress(map, from, q) # NULL
                  PROVE  NodeAllocAddress(map, from, q) \in Nat
      OBVIOUS
    <3>1. q * Page \in Nat
      BY PageBegins DEF UnusedPages, MemoryOK
    <3>2. NodeAllocAddress(map, from, q) = MemallocAddress(map, q * Page)
      BY DEF NodeAllocAddress
    <3>. QED
      BY <3>1, <3>2, Memalloc
  <2>13. NodeAlloc(map, from) = IF given = {} THEN NULL
                                   ELSE CHOOSE b \in given : \A c \in given : b <= c
    BY DEF NodeAlloc
  <2>14. NULL \notin given
    OBVIOUS
  <2>. HIDE DEF given
  <2>15. \E b \in given : \A c \in given : b <= c
    BY <2>11, <2>12, Smallest
  <2>16. NodeAlloc(map, from) \in given
    BY <2>11, <2>13, <2>15
  <2>. QED
    BY <2>14, <2>16
<1>. QED
  BY <1>1, <1>2

---------------------------------------------------------------------------
(* The inductive invariant.                                                *)

\* Places under the critical section of the list.
Inside == {"pick", "code", "status", "leave"}

\* Places at which a call that gets a route has chosen its item.
Chosen == {"code", "status", "leave", "newcode", "newstatus", "return"}

\* Places at which a call has a node that it allocated for itself.
Creating == {"attach", "picknew", "newcode", "newstatus"}

\* The thread is freeing a route.
Freeing(t) == job[t].kind = "free"

\* The thread answers for the status of its item.
Claims(t) == pc[t] \in {"leave", "return"} \/ Freeing(t)

(* The variables are typed, and an item that is held exists.               *)
TypeInv ==
  /\ pid \in BOOLEAN
  /\ nodes \in Seq([at : 1 .. Space - 1, for : {Home[to] : to \in Jumpers}])
  /\ MemoryOK(memory)
  /\ list \in Seq(Nodes)
  /\ lock \in Threads \cup {NoThread}
  /\ items \in Seq([1 .. NodeItems -> [busy : BOOLEAN, to : Jumpers \cup {Default}]])
  /\ Len(items) = Len(nodes)
  /\ pc \in [Threads -> {"idle", "init", "create", "setpid", "find", "pick", "alloc", "code",
                         "status", "leave", "attach", "picknew", "newcode", "newstatus",
                         "return", "free"}]
  /\ job \in [Threads -> [kind : {"none", "get", "free"}, to : Jumpers \cup {Default},
                          item : ItemsOf(Nodes) \cup {None}]]
  /\ held \in [Jumpers -> ItemsOf(Nodes) \cup {None}]
  /\ shared \subseteq Nodes

(* Until the router is initialised there is nothing in it, and one thread  *)
(* at most is in a call; afterwards nobody creates the list again.         *)
InitInv ==
  /\ ~pid => /\ list = << >> /\ nodes = << >> /\ lock = NoThread
             /\ \A to \in Jumpers : held[to] = None
             /\ \A t \in Threads : pc[t] \in {"idle", "init", "create", "setpid"} /\ ~Freeing(t)
             /\ \A t, u \in Threads : pc[t] # "idle" /\ pc[u] # "idle" => t = u
  /\ pid => \A t \in Threads : pc[t] \notin {"create", "setpid"}

(* The critical section has the thread that is inside, and no other.       *)
LockInv == \A t \in Threads : lock = t <=> pc[t] \in Inside

(* A call to get a route is for a jumper that no route is held for, and    *)
(* the only one for it; it has an item from where it chose it on.          *)
JobInv ==
  \A t \in Threads :
    \/ pc[t] = "idle" /\ job[t] = Blank
    \/ /\ Freeing(t) /\ pc[t] \in {"init", "free"}
       /\ job[t].to = Default /\ job[t].item # None
    \/ /\ job[t].kind = "get" /\ pc[t] \notin {"idle", "free"}
       /\ job[t].to \in Jumpers /\ held[job[t].to] = None
       /\ \A u \in Threads : u # t => job[u].to # job[t].to
       /\ job[t].item # None <=> pc[t] \in Chosen \cup Creating

(* What is held, or is to be, is in the list; a node that is to be         *)
(* attached is not.                                                        *)
ListedInv ==
  /\ \A to \in Jumpers : held[to] # None => held[to].node \in Listed
  /\ \A t \in Threads :
       /\ pc[t] \in Chosen \cup {"picknew"} \/ Freeing(t) => job[t].item.node \in Listed
       /\ pc[t] = "attach" => job[t].item.node \notin Listed \cup shared

(* An item was near the procedure when it was chosen, and still is.        *)
NearInv ==
  /\ \A to \in Jumpers : held[to] # None => IsNear(ItemAddress(held[to]), Home[to], ItemSize)
  /\ \A t \in Threads :
       pc[t] \in Chosen => IsNear(ItemAddress(job[t].item), Home[job[t].to], ItemSize)

(* No two nodes share memory: that of each is used.                        *)
ApartInv ==
  /\ \A n \in Nodes : AllAre(memory, nodes[n].at, NodeSize, "used")
  /\ \A m, n \in Nodes :
       m # n => \/ nodes[m].at + NodeSize <= nodes[n].at
                \/ nodes[n].at + NodeSize <= nodes[m].at

(* Somebody answers for every item that is busy.                           *)
ClaimInv ==
  \A i \in ItemsOf(Nodes) :
    ItemAt(i).busy => \/ \E to \in Jumpers : held[to] = i
                      \/ \E t \in Threads : job[t].item = i /\ Claims(t)

(* In a node that is new, and whose items nobody else chose too early,     *)
(* there is nothing but the item of the call that created it.              *)
NewInv ==
  \A t \in Threads :
    pc[t] \in Creating /\ job[t].item.node \notin shared =>
      /\ \A to \in Jumpers : held[to].node # job[t].item.node
      /\ \A u \in Threads : u # t => job[u].item.node # job[t].item.node

\* What a thread relies on for the item of its call.
PersonalOf(t) ==
  /\ pc[t] \in {"code", "newcode"} => ~ItemAt(job[t].item).busy
  /\ pc[t] \in {"status", "newstatus"} => ~ItemAt(job[t].item).busy /\ ItemAt(job[t].item).to = job[t].to
  /\ pc[t] \in {"leave", "return"} => ItemAt(job[t].item).busy /\ ItemAt(job[t].item).to = job[t].to
  /\ Freeing(t) => /\ ItemAt(job[t].item).busy
                   /\ \A to \in Jumpers : held[to] # job[t].item
                   /\ \A u \in Threads : u # t /\ Claims(u) => job[u].item # job[t].item

(* Elsewhere an item is not busy before its status is written, has its     *)
(* jumper afterwards, and is answered for once.                            *)
PersonalInv ==
  /\ \A to \in Jumpers :
       held[to] # None /\ held[to].node \notin shared => ItemAt(held[to]).busy /\ ItemAt(held[to]).to = to
  /\ \A t \in Threads : job[t].item # None /\ job[t].item.node \notin shared => PersonalOf(t)

Inv == /\ TypeInv /\ InitInv /\ LockInv /\ JobInv /\ ListedInv
       /\ NearInv /\ ApartInv /\ ClaimInv /\ NewInv /\ PersonalInv

---------------------------------------------------------------------------
(* What the actions have in common.                                        *)

(* Items are told apart by their node and their index.                     *)
LEMMA ItemIs ==
  ASSUME NEW i \in ItemsOf(Nodes)
  PROVE  /\ i.node \in Nodes /\ i.index \in 1 .. NodeItems /\ i.node # 0 /\ i # None
         /\ \A j \in ItemsOf(Nodes) : j.node = i.node /\ j.index = i.index => j = i
BY DEF ItemsOf, Nodes, None

(* Every item has a status and a bincode.                                  *)
LEMMA ItemTyped ==
  ASSUME TypeInv, NEW i \in ItemsOf(Nodes)
  PROVE  /\ ItemAt(i) \in [busy : BOOLEAN, to : Jumpers \cup {Default}]
         /\ ItemAt(i).busy \in BOOLEAN
<1>1. i.node \in 1 .. Len(items) /\ i.index \in 1 .. NodeItems
  BY ItemIs DEF TypeInv, Nodes
<1>2. items[i.node] \in [1 .. NodeItems -> [busy : BOOLEAN, to : Jumpers \cup {Default}]]
  BY <1>1 DEF TypeInv
<1>3. ItemAt(i) \in [busy : BOOLEAN, to : Jumpers \cup {Default}]
  BY <1>1, <1>2 DEF ItemAt
<1>. QED
  BY <1>3

(* An item that is written is the only one that changes.                   *)
LEMMA SetItemIs ==
  ASSUME TypeInv, NEW i \in ItemsOf(Nodes),
         NEW v \in [busy : BOOLEAN, to : Jumpers \cup {Default}], SetItem(i, v)
  PROVE  /\ items' \in Seq([1 .. NodeItems -> [busy : BOOLEAN, to : Jumpers \cup {Default}]])
         /\ Len(items') = Len(items)
         /\ \A j \in ItemsOf(Nodes) : items'[j.node][j.index] = IF j = i THEN v ELSE ItemAt(j)
<1>1. i.node \in 1 .. Len(items) /\ i.index \in 1 .. NodeItems
  BY ItemIs DEF TypeInv, Nodes
<1>2. items' = [items EXCEPT ![i.node] = [items[i.node] EXCEPT ![i.index] = v]]
  BY DEF SetItem
<1>3. [items[i.node] EXCEPT ![i.index] = v]
        \in [1 .. NodeItems -> [busy : BOOLEAN, to : Jumpers \cup {Default}]]
  BY <1>1 DEF TypeInv
<1>4. /\ items' \in Seq([1 .. NodeItems -> [busy : BOOLEAN, to : Jumpers \cup {Default}]])
      /\ Len(items') = Len(items)
  BY <1>1, <1>2, <1>3 DEF TypeInv
<1>5. ASSUME NEW j \in ItemsOf(Nodes)
      PROVE  items'[j.node][j.index] = IF j = i THEN v ELSE ItemAt(j)
  <2>1. j.node \in 1 .. Len(items) /\ j.index \in 1 .. NodeItems
    BY ItemIs DEF TypeInv, Nodes
  <2>2. CASE j = i
    <3>1. items'[j.node] = [items[i.node] EXCEPT ![i.index] = v]
      BY <1>1, <1>2, <2>2 DEF TypeInv
    <3>. QED
      BY <1>1, <1>3, <2>2, <3>1
  <2>3. CASE j.node # i.node
    BY <1>1, <1>2, <2>1, <2>3 DEF ItemAt, TypeInv
  <2>4. CASE j.node = i.node /\ j.index # i.index
    BY <1>1, <1>2, <2>1, <2>4 DEF ItemAt, TypeInv
  <2>5. j.node = i.node /\ j.index = i.index => j = i
    BY ItemIs
  <2>. QED
    BY <2>2, <2>3, <2>4, <2>5
<1>. QED
  BY <1>4, <1>5

(* Where a node is in the list.                                            *)
LEMMA PositionIs ==
  ASSUME TypeInv, NEW n \in Listed
  PROVE  Position(n) \in Nat /\ list[Position(n)] = n /\ n \in Nodes
<1>1. PICK k \in 1 .. Len(list) : list[k] = n
  BY DEF Listed
<1>2. Position(n) \in 1 .. Len(list) /\ list[Position(n)] = n
  BY <1>1 DEF Position
<1>. QED
  BY <1>1, <1>2 DEF TypeInv

(* A node has an address.                                                  *)
LEMMA NodeTyped ==
  ASSUME TypeInv, NEW n \in Nodes
  PROVE  nodes[n].at \in 1 .. Space - 1 /\ nodes[n].at \in Nat
<1>1. nodes[n] \in [at : 1 .. Space - 1, for : {Home[to] : to \in Jumpers}]
  BY ElementOfSeq DEF TypeInv, Nodes
<1>. QED
  BY <1>1, Sizes

(* An item lies within its node.                                           *)
LEMMA ItemWithin ==
  ASSUME TypeInv, NEW i \in ItemsOf(Nodes)
  PROVE  /\ nodes[i.node].at \in Nat /\ ItemAddress(i) \in Nat
         /\ nodes[i.node].at <= ItemAddress(i)
         /\ ItemAddress(i) + ItemSize <= nodes[i.node].at + NodeSize
<1>1. i.node \in Nodes /\ i.index \in 1 .. NodeItems /\ nodes[i.node].at \in Nat
  BY ItemIs, NodeTyped
<1>2. ItemSize \in Nat /\ NodeItems \in Nat /\ Header \in Nat
  BY SizeAssumption
<1>3. /\ (i.index - 1) * ItemSize \in Nat
      /\ (NodeItems - i.index) * ItemSize \in Nat
  BY <1>1, <1>2
<1>4. NodeItems * ItemSize = (i.index - 1) * ItemSize + ItemSize + (NodeItems - i.index) * ItemSize
  BY <1>1, <1>2
<1>. QED
  BY <1>1, <1>2, <1>3, <1>4 DEF ItemAddress, NodeSize

(* Memory that shares no page does not overlap.                            *)
LEMMA TouchedApart ==
  ASSUME NEW a \in Int, NEW b \in Int, Touched(a, NodeSize) \cap Touched(b, NodeSize) = {}
  PROVE  a + NodeSize <= b \/ b + NodeSize <= a
<1>1. ASSUME NEW x \in Int, NEW y \in Int, x <= y, y < x + NodeSize
      PROVE  PageOf(y) \in Touched(x, NodeSize) \cap Touched(y, NodeSize)
  <2>1. PageOf(y) \in Touched(y, NodeSize)
    BY NodeSizeNat, TouchedFirst
  <2>2. y <= x + NodeSize - 1 /\ x + NodeSize - 1 \in Int
    BY <1>1, NodeSizeNat
  <2>3. PageOf(y) \in PageOf(x) .. PageOf(x + NodeSize - 1)
    BY <1>1, <2>2, PageOfMonotone
  <2>. QED
    BY <2>1, <2>3 DEF Touched
<1>. QED
  BY <1>1, NodeSizeNat

(* An item is found by the address of its code, and no other is.           *)
LEMMA OnlyItemThere ==
  ASSUME TypeInv, ApartInv, NEW i \in ItemsOf(Listed)
  PROVE  ItemsAt(CodeAddress(i)) = {i}
<1>1. ItemsOf(Listed) \subseteq ItemsOf(Nodes)
  BY PositionIs DEF ItemsOf
<1>2. ItemSize \in Nat /\ ItemSize > 1
  BY SizeAssumption
<1>3. i \in ItemsAt(CodeAddress(i))
  BY <1>1, <1>2, ItemWithin DEF ItemsAt, CodeAddress
<1>4. ASSUME NEW j \in ItemsOf(Listed), j # i,
             ItemAddress(j) <= ItemAddress(i) + 1,
             ItemAddress(i) + 1 <= ItemAddress(j) + ItemSize
      PROVE  FALSE
  <2>1. i \in ItemsOf(Nodes) /\ j \in ItemsOf(Nodes)
    BY <1>1
  <2>2. j.node = i.node
    <3>. SUFFICES ASSUME j.node # i.node
                  PROVE  FALSE
      OBVIOUS
    <3>1. \/ nodes[i.node].at + NodeSize <= nodes[j.node].at
          \/ nodes[j.node].at + NodeSize <= nodes[i.node].at
      BY <2>1, ItemIs DEF ApartInv
    <3>2. /\ nodes[i.node].at \in Nat /\ nodes[j.node].at \in Nat
          /\ ItemAddress(i) \in Nat /\ ItemAddress(j) \in Nat
          /\ nodes[i.node].at <= ItemAddress(i) /\ nodes[j.node].at <= ItemAddress(j)
          /\ ItemAddress(i) + ItemSize <= nodes[i.node].at + NodeSize
          /\ ItemAddress(j) + ItemSize <= nodes[j.node].at + NodeSize
      BY <2>1, ItemWithin
    <3>. QED
      BY <1>2, <1>4, <3>1, <3>2, NodeSizeNat
  <2>3. i.index \in Nat /\ j.index \in Nat /\ i.index # j.index /\ nodes[i.node].at \in Nat
    BY <1>4, <2>1, <2>2, ItemIs, ItemWithin
  <2>4. ASSUME NEW k \in Int, NEW l \in Int, k < l
        PROVE  k * ItemSize + ItemSize <= l * ItemSize
    <3>1. (l - k - 1) * ItemSize >= 0
      BY <1>2, <2>4
    <3>. QED
      BY <1>2, <3>1
  <2>5. ItemAddress(i) = nodes[i.node].at + Header + (i.index - 1) * ItemSize
        /\ ItemAddress(j) = nodes[i.node].at + Header + (j.index - 1) * ItemSize
    BY <2>2 DEF ItemAddress
  <2>6. Header \in Nat /\ (i.index - 1) * ItemSize \in Int /\ (j.index - 1) * ItemSize \in Int
    BY <1>2, <2>3, SizeAssumption
  <2>7. CASE i.index < j.index
    <3>1. (i.index - 1) * ItemSize + ItemSize <= (j.index - 1) * ItemSize
      BY <2>3, <2>4, <2>7
    <3>. QED
      BY <1>2, <1>4, <2>3, <2>5, <2>6, <3>1
  <2>8. CASE j.index < i.index
    <3>1. (j.index - 1) * ItemSize + ItemSize <= (i.index - 1) * ItemSize
      BY <2>3, <2>4, <2>8
    <3>. QED
      BY <1>2, <1>4, <2>3, <2>5, <2>6, <3>1
  <2>. QED
    BY <2>3, <2>7, <2>8
<1>. QED
  BY <1>3, <1>4 DEF ItemsAt, CodeAddress

(* Items stay answered for when none becomes busy and no thread gives up   *)
(* what it answers for.                                                    *)
LEMMA ClaimsKept ==
  ASSUME ClaimInv, nodes' = nodes, held' = held,
         \A i \in ItemsOf(Nodes) : items'[i.node][i.index].busy => ItemAt(i).busy,
         \A u \in Threads : Claims(u) => job'[u].item = job[u].item /\ Claims(u)'
  PROVE  ClaimInv'
<1>. SUFFICES ASSUME NEW i \in ItemsOf(Nodes), ItemAt(i).busy
              PROVE  \/ \E to \in Jumpers : held'[to] = i
                     \/ \E t \in Threads : job'[t].item = i /\ Claims(t)'
  BY DEF ClaimInv, ItemsOf, Nodes, ItemAt
<1>. QED
  BY DEF ClaimInv

\* What a step may do to a thread that others need not know of.
Settled(u) ==
  \/ /\ job'[u] = job[u]
     /\ \/ pc'[u] = pc[u]
        \/ pc'[u] \notin Chosen
        \/ pc[u] = "leave" /\ pc'[u] = "return"
  \/ ~Freeing(u)' /\ pc'[u] \notin Chosen
  \/ /\ ~Freeing(u)' /\ pc'[u] \in {"code", "newcode"}
     /\ job'[u].item \in ItemsOf(Nodes) /\ ~ItemAt(job'[u].item).busy

(* Routes stay personal while nothing is written.                          *)
LEMMA PersonalKept ==
  ASSUME TypeInv, PersonalInv, held' = held, shared \subseteq shared',
         \A i \in ItemsOf(Nodes) : items'[i.node][i.index] = ItemAt(i),
         \A u \in Threads : Settled(u)
  PROVE  PersonalInv'
<1>1. \A u \in Threads : Claims(u)' => Claims(u) /\ job'[u] = job[u]
  BY DEF Settled, Claims, Freeing, Chosen
<1>2. ASSUME NEW u \in Threads, job'[u].item # None, job'[u].item.node \notin shared'
      PROVE  PersonalOf(u)'
  <2>1. CASE /\ job'[u] = job[u]
             /\ \/ pc'[u] = pc[u]
                \/ pc'[u] \notin Chosen
                \/ pc[u] = "leave" /\ pc'[u] = "return"
    <3>1. PersonalOf(u)
      BY <1>2, <2>1 DEF PersonalInv
    <3>2. ItemAt(job[u].item)' = ItemAt(job[u].item)
      BY <1>2, <2>1 DEF TypeInv, ItemAt
    <3>. QED
      BY <1>1, <2>1, <3>1, <3>2 DEF PersonalOf, Chosen, Freeing
  <2>2. CASE ~Freeing(u)' /\ pc'[u] \notin Chosen
    BY <2>2 DEF PersonalOf, Chosen
  <2>3. CASE /\ ~Freeing(u)' /\ pc'[u] \in {"code", "newcode"}
             /\ job'[u].item \in ItemsOf(Nodes) /\ ~ItemAt(job'[u].item).busy
    BY <2>3 DEF PersonalOf, ItemAt
  <2>. QED
    BY <2>1, <2>2, <2>3 DEF Settled
<1>3. ASSUME NEW to \in Jumpers, held[to] # None, held[to].node \notin shared'
      PROVE  ItemAt(held[to])'.busy /\ ItemAt(held[to])'.to = to
  <2>1. ItemAt(held[to])' = ItemAt(held[to])
    BY <1>3 DEF TypeInv, ItemAt
  <2>. QED
    BY <1>3, <2>1 DEF PersonalInv
<1>. QED
  BY <1>2, <1>3 DEF PersonalInv

(* The first item that is found is one that is found.                      *)
LEMMA FirstIn ==
  ASSUME TypeInv, NEW found \in SUBSET ItemsOf(Listed), found # {}
  PROVE  First(found) \in found
<1>1. \A i \in found : i.node \in Listed /\ i.index \in Nat /\ Position(i.node) \in Nat
  BY PositionIs DEF ItemsOf
<1>. DEFINE P == {Position(i.node) : i \in found}
<1>2. P \in SUBSET Nat /\ P # {}
  BY <1>1
<1>3. PICK p \in P : \A q \in P : p <= q
  BY <1>2, Smallest
<1>. DEFINE K == {k \in Nat : \E i \in found : Position(i.node) = p /\ i.index = k}
<1>4. K \in SUBSET Nat /\ K # {}
  BY <1>1, <1>3
<1>5. PICK k \in K : \A l \in K : k <= l
  BY <1>4, Smallest
<1>6. PICK i \in found : Position(i.node) = p /\ i.index = k
  BY <1>5
<1>7. \A j \in found : Before(i, j)
  <2>1. ASSUME NEW j \in found
        PROVE  Before(i, j)
    <3>1. p <= Position(j.node) /\ Position(j.node) \in Nat /\ p \in Nat
      BY <1>1, <1>2, <1>3
    <3>2. CASE i.node = j.node
      <4>1. j.index \in K
        BY <1>1, <1>6, <3>2
      <4>. QED
        BY <1>5, <1>6, <3>2, <4>1 DEF Before
    <3>3. CASE i.node # j.node
      <4>1. Position(j.node) # p
        BY <1>1, <1>6, <3>3, PositionIs
      <4>. QED
        BY <1>6, <3>1, <3>3, <4>1 DEF Before
    <3>. QED
      BY <3>2, <3>3
  <2>. QED
    BY <2>1
<1>. HIDE DEF P, K
<1>. QED
  BY <1>7 DEF First

(* What a thread has chosen and not written yet is nobody else's, in a     *)
(* node that is not shared.                                                *)
LEMMA Alone ==
  ASSUME Inv, NEW t \in Threads, pc[t] \in {"code", "status", "newcode", "newstatus"},
         job[t].item.node \notin shared
  PROVE  /\ \A to \in Jumpers : held[to] # job[t].item
         /\ \A u \in Threads : u # t /\ (pc[u] \in Chosen \/ Freeing(u)) => job[u].item # job[t].item
<1>. USE DEF Inv
<1>1. job[t].item # None /\ ~ItemAt(job[t].item).busy
  <2>1. job[t].item # None /\ job[t].item \in ItemsOf(Nodes)
    BY DEF JobInv, Chosen, Freeing, TypeInv
  <2>2. PersonalOf(t)
    BY <2>1 DEF PersonalInv
  <2>. QED
    BY <2>1, <2>2 DEF PersonalOf
<1>2. ASSUME NEW to \in Jumpers, held[to] = job[t].item
      PROVE  FALSE
  <2>1. ItemAt(job[t].item).busy
    BY <1>1, <1>2 DEF PersonalInv
  <2>. QED
    BY <1>1, <2>1
<1>3. ASSUME NEW u \in Threads, u # t, pc[u] \in Chosen \/ Freeing(u), job[u].item = job[t].item
      PROVE  FALSE
  <2>1. pc[t] \notin Creating /\ pc[u] \notin Creating
    BY <1>3 DEF NewInv
  <2>2. pc[t] \in Inside
    BY <2>1 DEF Creating, Inside
  <2>3. pc[u] \notin Inside
    BY <1>3, <2>2 DEF LockInv
  <2>4. pc[u] = "return" \/ Freeing(u)
    BY <1>3, <2>1, <2>3 DEF Creating, Inside, Chosen
  <2>5. PersonalOf(u)
    BY <1>1, <1>3 DEF PersonalInv
  <2>6. CASE pc[u] = "return"
    <3>1. ItemAt(job[t].item).busy
      BY <1>3, <2>5, <2>6 DEF PersonalOf
    <3>. QED
      BY <1>1, <3>1
  <2>7. CASE Freeing(u)
    BY <1>1, <1>3, <2>5, <2>7 DEF PersonalOf
  <2>. QED
    BY <2>4, <2>6, <2>7
<1>. QED
  BY <1>2, <1>3

---------------------------------------------------------------------------
(* Every action preserves the invariant.                                   *)

LEMMA InitCheckStep ==
  ASSUME Inv, NEW t \in Threads, InitCheck(t)
  PROVE  Inv'
<1>. USE DEF Inv, InitCheck, Goto, Begun, globalVars
<1>1. TypeInv'
  BY DEF TypeInv, Nodes, ItemsOf, None, Blank, MemoryOK
<1>2. InitInv'
  BY DEF TypeInv, InitInv, JobInv, Freeing, Inside
<1>3. LockInv'
  BY ThreadsAssumption DEF TypeInv, LockInv, InitInv, Inside
<1>4. JobInv'
  BY JumpersAssumption DEF TypeInv, JobInv, InitInv, Freeing, Chosen, Creating, Blank, None
<1>5. ListedInv'
  BY DEF TypeInv, InitInv, JobInv, ListedInv, Chosen, Creating, Listed, Freeing, Blank, None,
      ItemsOf, Nodes
<1>6. NearInv'
  BY DEF TypeInv, JobInv, InitInv, NearInv, Chosen, Blank, ItemAddress, None, ItemsOf, Nodes
<1>7. ApartInv'
  BY DEF TypeInv, ApartInv, Nodes
<1>8. ClaimInv'
  <2>1. \A u \in Threads : job'[u].item = job[u].item /\ (Claims(u) => Claims(u)')
    BY DEF TypeInv, JobInv, InitInv, Claims, Freeing
  <2>. QED
    BY <2>1, ClaimsKept DEF ItemAt
<1>9. NewInv'
  BY DEF TypeInv, InitInv, JobInv, NewInv, Creating, Blank, Freeing, None
<1>10. PersonalInv'
  <2>1. \A u \in Threads : Settled(u)
    BY DEF Settled, TypeInv, JobInv, InitInv, Freeing, Chosen, Creating, Blank, None
  <2>. QED
    BY <2>1, PersonalKept DEF ItemAt
<1>. QED
  BY <1>1, <1>2, <1>3, <1>4, <1>5, <1>6, <1>7, <1>8, <1>9, <1>10

LEMMA InitCreateStep ==
  ASSUME Inv, NEW t \in Threads, InitCreate(t)
  PROVE  Inv'
<1>. USE DEF Inv, InitCreate, Goto
<1>1. TypeInv'
  BY DEF TypeInv, Nodes, ItemsOf, None, Blank, MemoryOK
<1>2. InitInv'
  BY DEF TypeInv, InitInv, JobInv, Freeing, Inside
<1>3. LockInv'
  BY ThreadsAssumption DEF TypeInv, LockInv, InitInv, Inside
<1>4. JobInv'
  BY JumpersAssumption DEF TypeInv, JobInv, InitInv, Freeing, Chosen, Creating, Blank, None
<1>5. ListedInv'
  BY DEF TypeInv, InitInv, JobInv, ListedInv, Chosen, Creating, Listed, Freeing, Blank, None,
      ItemsOf, Nodes
<1>6. NearInv'
  BY DEF TypeInv, JobInv, InitInv, NearInv, Chosen, Blank, ItemAddress, None, ItemsOf, Nodes
<1>7. ApartInv'
  BY DEF TypeInv, ApartInv, Nodes
<1>8. ClaimInv'
  <2>1. \A u \in Threads : job'[u].item = job[u].item /\ (Claims(u) => Claims(u)')
    BY DEF TypeInv, JobInv, InitInv, Claims, Freeing
  <2>. QED
    BY <2>1, ClaimsKept DEF ItemAt
<1>9. NewInv'
  BY DEF TypeInv, InitInv, JobInv, NewInv, Creating, Blank, Freeing, None
<1>10. PersonalInv'
  <2>1. \A u \in Threads : Settled(u)
    BY DEF Settled, TypeInv, JobInv, InitInv, Freeing, Chosen, Creating, Blank, None
  <2>. QED
    BY <2>1, PersonalKept DEF ItemAt
<1>. QED
  BY <1>1, <1>2, <1>3, <1>4, <1>5, <1>6, <1>7, <1>8, <1>9, <1>10

LEMMA InitDoneStep ==
  ASSUME Inv, NEW t \in Threads, InitDone(t)
  PROVE  Inv'
<1>. USE DEF Inv, InitDone, Goto, Begun
<1>1. TypeInv'
  BY DEF TypeInv, Nodes, ItemsOf, None, Blank, MemoryOK
<1>2. InitInv'
  BY DEF TypeInv, InitInv, JobInv, Freeing, Inside
<1>3. LockInv'
  BY ThreadsAssumption DEF TypeInv, LockInv, InitInv, Inside
<1>4. JobInv'
  BY JumpersAssumption DEF TypeInv, JobInv, InitInv, Freeing, Chosen, Creating, Blank, None
<1>5. ListedInv'
  BY DEF TypeInv, InitInv, JobInv, ListedInv, Chosen, Creating, Listed, Freeing, Blank, None,
      ItemsOf, Nodes
<1>6. NearInv'
  BY DEF TypeInv, JobInv, InitInv, NearInv, Chosen, Blank, ItemAddress, None, ItemsOf, Nodes
<1>7. ApartInv'
  BY DEF TypeInv, ApartInv, Nodes
<1>8. ClaimInv'
  <2>1. \A u \in Threads : job'[u].item = job[u].item /\ (Claims(u) => Claims(u)')
    BY DEF TypeInv, JobInv, InitInv, Claims, Freeing
  <2>. QED
    BY <2>1, ClaimsKept DEF ItemAt
<1>9. NewInv'
  BY DEF TypeInv, InitInv, JobInv, NewInv, Creating, Blank, Freeing, None
<1>10. PersonalInv'
  <2>1. \A u \in Threads : Settled(u)
    BY DEF Settled, TypeInv, JobInv, InitInv, Freeing, Chosen, Creating, Blank, None
  <2>. QED
    BY <2>1, PersonalKept DEF ItemAt
<1>. QED
  BY <1>1, <1>2, <1>3, <1>4, <1>5, <1>6, <1>7, <1>8, <1>9, <1>10

LEMMA EnterStep ==
  ASSUME Inv, NEW t \in Threads, Enter(t)
  PROVE  Inv'
<1>. USE DEF Inv, Enter, Goto
<1>1. TypeInv'
  BY DEF TypeInv, Nodes, ItemsOf, None, Blank, MemoryOK
<1>2. InitInv'
  BY DEF TypeInv, InitInv, JobInv, Freeing, Inside
<1>3. LockInv'
  BY ThreadsAssumption DEF TypeInv, LockInv, InitInv, Inside
<1>4. JobInv'
  BY JumpersAssumption DEF TypeInv, JobInv, InitInv, Freeing, Chosen, Creating, Blank, None
<1>5. ListedInv'
  BY DEF TypeInv, InitInv, JobInv, ListedInv, Chosen, Creating, Listed, Freeing, Blank, None,
      ItemsOf, Nodes
<1>6. NearInv'
  BY DEF TypeInv, JobInv, InitInv, NearInv, Chosen, Blank, ItemAddress, None, ItemsOf, Nodes
<1>7. ApartInv'
  BY DEF TypeInv, ApartInv, Nodes
<1>8. ClaimInv'
  <2>1. \A u \in Threads : job'[u].item = job[u].item /\ (Claims(u) => Claims(u)')
    BY DEF TypeInv, JobInv, InitInv, Claims, Freeing
  <2>. QED
    BY <2>1, ClaimsKept DEF ItemAt
<1>9. NewInv'
  BY DEF TypeInv, InitInv, JobInv, NewInv, Creating, Blank, Freeing, None
<1>10. PersonalInv'
  <2>1. \A u \in Threads : Settled(u)
    BY DEF Settled, TypeInv, JobInv, InitInv, Freeing, Chosen, Creating, Blank, None
  <2>. QED
    BY <2>1, PersonalKept DEF ItemAt
<1>. QED
  BY <1>1, <1>2, <1>3, <1>4, <1>5, <1>6, <1>7, <1>8, <1>9, <1>10

LEMMA PickNoneStep ==
  ASSUME Inv, NEW t \in Threads, PickNone(t)
  PROVE  Inv'
<1>. USE DEF Inv, PickNone, Goto
<1>1. TypeInv'
  BY DEF TypeInv, Nodes, ItemsOf, None, Blank, MemoryOK
<1>2. InitInv'
  BY DEF TypeInv, InitInv, JobInv, Freeing, Inside
<1>3. LockInv'
  BY ThreadsAssumption DEF TypeInv, LockInv, InitInv, Inside
<1>4. JobInv'
  BY JumpersAssumption DEF TypeInv, JobInv, InitInv, Freeing, Chosen, Creating, Blank, None
<1>5. ListedInv'
  BY DEF TypeInv, InitInv, JobInv, ListedInv, Chosen, Creating, Listed, Freeing, Blank, None,
      ItemsOf, Nodes
<1>6. NearInv'
  BY DEF TypeInv, JobInv, InitInv, NearInv, Chosen, Blank, ItemAddress, None, ItemsOf, Nodes
<1>7. ApartInv'
  BY DEF TypeInv, ApartInv, Nodes
<1>8. ClaimInv'
  <2>1. \A u \in Threads : job'[u].item = job[u].item /\ (Claims(u) => Claims(u)')
    BY DEF TypeInv, JobInv, InitInv, Claims, Freeing
  <2>. QED
    BY <2>1, ClaimsKept DEF ItemAt
<1>9. NewInv'
  BY DEF TypeInv, InitInv, JobInv, NewInv, Creating, Blank, Freeing, None
<1>10. PersonalInv'
  <2>1. \A u \in Threads : Settled(u)
    BY DEF Settled, TypeInv, JobInv, InitInv, Freeing, Chosen, Creating, Blank, None
  <2>. QED
    BY <2>1, PersonalKept DEF ItemAt
<1>. QED
  BY <1>1, <1>2, <1>3, <1>4, <1>5, <1>6, <1>7, <1>8, <1>9, <1>10

LEMMA LeaveStep ==
  ASSUME Inv, NEW t \in Threads, Leave(t)
  PROVE  Inv'
<1>. USE DEF Inv, Leave, Goto
<1>1. TypeInv'
  BY DEF TypeInv, Nodes, ItemsOf, None, Blank, MemoryOK
<1>2. InitInv'
  BY DEF TypeInv, InitInv, JobInv, Freeing, Inside
<1>3. LockInv'
  BY ThreadsAssumption DEF TypeInv, LockInv, InitInv, Inside
<1>4. JobInv'
  BY JumpersAssumption DEF TypeInv, JobInv, InitInv, Freeing, Chosen, Creating, Blank, None
<1>5. ListedInv'
  BY DEF TypeInv, InitInv, JobInv, ListedInv, Chosen, Creating, Listed, Freeing, Blank, None,
      ItemsOf, Nodes
<1>6. NearInv'
  BY DEF TypeInv, JobInv, InitInv, NearInv, Chosen, Blank, ItemAddress, None, ItemsOf, Nodes
<1>7. ApartInv'
  BY DEF TypeInv, ApartInv, Nodes
<1>8. ClaimInv'
  <2>1. \A u \in Threads : job'[u].item = job[u].item /\ (Claims(u) => Claims(u)')
    BY DEF TypeInv, JobInv, InitInv, Claims, Freeing
  <2>. QED
    BY <2>1, ClaimsKept DEF ItemAt
<1>9. NewInv'
  BY DEF TypeInv, InitInv, JobInv, NewInv, Creating, Blank, Freeing, None
<1>10. PersonalInv'
  <2>1. \A u \in Threads : Settled(u)
    BY DEF Settled, TypeInv, JobInv, InitInv, Freeing, Chosen, Creating, Blank, None
  <2>. QED
    BY <2>1, PersonalKept DEF ItemAt
<1>. QED
  BY <1>1, <1>2, <1>3, <1>4, <1>5, <1>6, <1>7, <1>8, <1>9, <1>10

LEMMA ReturnStep ==
  ASSUME Inv, NEW t \in Threads, Return(t)
  PROVE  Inv'
<1>. USE DEF Inv, Return, Goto, Finish, globalVars
<1>a. /\ job[t].kind = "get" /\ job[t].to \in Jumpers /\ job[t].to # Default
      /\ held[job[t].to] = None /\ job[t].item \in ItemsOf(Nodes)
  BY JumpersAssumption DEF TypeInv, JobInv, Freeing, Chosen
<1>b. \A u \in Threads \ {t} : job'[u] = job[u] /\ pc'[u] = pc[u] /\ job[u].to # job[t].to
  BY <1>a DEF JobInv, Freeing, TypeInv
<1>c. job'[t] = Blank /\ pc'[t] = "idle"
  BY DEF TypeInv
<1>d. /\ held'[job[t].to] = job[t].item
      /\ \A to \in Jumpers : to # job[t].to => held'[to] = held[to]
  BY <1>a DEF TypeInv
<1>1. TypeInv'
  BY DEF TypeInv, Nodes, ItemsOf, None, Blank, MemoryOK
<1>2. InitInv'
  BY DEF TypeInv, InitInv, JobInv, Freeing, Inside
<1>3. LockInv'
  BY ThreadsAssumption DEF TypeInv, LockInv, InitInv, Inside
<1>4. JobInv'
  BY <1>a, <1>b, <1>c, <1>d, JumpersAssumption DEF JobInv, Freeing, Blank
<1>5. ListedInv'
  BY DEF TypeInv, InitInv, JobInv, ListedInv, Chosen, Creating, Listed, Freeing, Blank, None,
      ItemsOf, Nodes
<1>6. NearInv'
  BY DEF TypeInv, JobInv, InitInv, NearInv, Chosen, Blank, ItemAddress, None, ItemsOf, Nodes
<1>7. ApartInv'
  BY DEF TypeInv, ApartInv, Nodes
<1>8. ClaimInv'
  <2>1. \A i \in ItemsOf(Nodes) : i # None
    BY DEF ItemsOf, Nodes, None
  <2>2. \A u \in Threads \ {t} : Claims(u) => Claims(u)'
    BY <1>b DEF Claims, Freeing
  <2>. SUFFICES ASSUME NEW i \in ItemsOf(Nodes), ItemAt(i).busy
                PROVE  \/ \E to \in Jumpers : held'[to] = i
                       \/ \E u \in Threads : job'[u].item = i /\ Claims(u)'
    BY DEF ClaimInv, ItemsOf, Nodes, ItemAt
  <2>3. CASE \E to \in Jumpers : held[to] = i
    BY <2>1, <2>3, <1>a, <1>d
  <2>4. CASE \E u \in Threads : job[u].item = i /\ Claims(u)
    BY <2>2, <2>4, <1>a, <1>b, <1>d
  <2>. QED
    BY <2>3, <2>4 DEF ClaimInv
<1>9. NewInv'
  <2>. SUFFICES ASSUME NEW u \in Threads, u # t, pc[u] \in Creating, job[u].item.node \notin shared
                PROVE  /\ \A to \in Jumpers : held'[to].node # job[u].item.node
                       /\ \A v \in Threads : v # u => job'[v].item.node # job[u].item.node
    BY <1>b, <1>c DEF NewInv, Creating
  <2>1. job[u].item.node # 0
    BY ItemIs DEF TypeInv, JobInv, Creating, Freeing
  <2>2. /\ \A to \in Jumpers : held[to].node # job[u].item.node
        /\ \A v \in Threads : v # u => job[v].item.node # job[u].item.node
    BY DEF NewInv
  <2>3. job'[t].item.node # job[u].item.node
    BY <1>c, <2>1 DEF Blank, None
  <2>. QED
    BY <1>a, <1>b, <1>d, <2>2, <2>3
<1>10. PersonalInv'
  <2>1. ASSUME NEW to \in Jumpers, held'[to] # None, held'[to].node \notin shared
        PROVE  ItemAt(held'[to]).busy /\ ItemAt(held'[to]).to = to
    <3>1. CASE to = job[t].to
      BY <1>a, <1>d, <2>1, <3>1 DEF PersonalInv, PersonalOf
    <3>2. CASE to # job[t].to
      BY <1>d, <2>1, <3>2 DEF PersonalInv, PersonalOf
    <3>. QED
      BY <3>1, <3>2
  <2>2. ASSUME NEW u \in Threads \ {t}, job[u].item # None, job[u].item.node \notin shared, Freeing(u)
        PROVE  /\ \A to \in Jumpers : held'[to] # job[u].item
               /\ \A v \in Threads : v # u /\ Claims(v)' => job'[v].item # job[u].item
    <3>1. /\ \A to \in Jumpers : held[to] # job[u].item
          /\ \A v \in Threads : v # u /\ Claims(v) => job[v].item # job[u].item
      BY <2>2 DEF PersonalInv, PersonalOf
    <3>2. job[t].item # job[u].item
      BY <2>2, <3>1 DEF Claims
    <3>3. ~Claims(t)' /\ \A v \in Threads \ {t} : Claims(v)' => Claims(v)
      BY <1>b, <1>c DEF Claims, Freeing, Blank
    <3>. QED
      BY <1>b, <1>d, <3>1, <3>2, <3>3
  <2>3. ~Freeing(t)' /\ \A u \in Threads \ {t} : Freeing(u)' => Freeing(u)
    BY <1>b, <1>c DEF Freeing, Blank
  <2>4. ASSUME NEW u \in Threads, job'[u].item # None, job'[u].item.node \notin shared
        PROVE  PersonalOf(u)'
    <3>1. u # t
      BY <1>c, <2>4 DEF Blank
    <3>2. PersonalOf(u)
      BY <1>b, <2>4, <3>1 DEF PersonalInv
    <3>3. job'[u] = job[u] /\ pc'[u] = pc[u] /\ (Freeing(u)' => Freeing(u))
      BY <1>b, <2>3, <3>1
    <3>4. ItemAt(job[u].item)' = ItemAt(job[u].item)
      BY <3>3 DEF ItemAt
    <3>5. /\ pc'[u] \in {"code", "newcode"} => ~ItemAt(job[u].item)'.busy
          /\ pc'[u] \in {"status", "newstatus"} =>
               ~ItemAt(job[u].item)'.busy /\ ItemAt(job[u].item)'.to = job'[u].to
          /\ pc'[u] \in {"leave", "return"} =>
               ItemAt(job[u].item)'.busy /\ ItemAt(job[u].item)'.to = job'[u].to
          /\ Freeing(u)' => ItemAt(job[u].item)'.busy
      BY <3>2, <3>3, <3>4 DEF PersonalOf
    <3>6. Freeing(u)' => /\ \A to \in Jumpers : held'[to] # job'[u].item
                         /\ \A v \in Threads : v # u /\ Claims(v)' => job'[v].item # job'[u].item
      BY <2>2, <2>4, <3>1, <3>3
    <3>. QED
      BY <3>5, <3>6 DEF PersonalOf
  <2>. QED
    BY <2>1, <2>4 DEF PersonalInv, ItemAt
<1>. QED
  BY <1>1, <1>2, <1>3, <1>4, <1>5, <1>6, <1>7, <1>8, <1>9, <1>10

LEMMA AllocFailsStep ==
  ASSUME Inv, NEW t \in Threads, AllocFails(t)
  PROVE  Inv'
<1>. USE DEF Inv, AllocFails, Goto, Finish, globalVars
<1>1. TypeInv'
  BY DEF TypeInv, Nodes, ItemsOf, None, Blank, MemoryOK
<1>2. InitInv'
  BY DEF TypeInv, InitInv, JobInv, Freeing, Inside
<1>3. LockInv'
  BY ThreadsAssumption DEF TypeInv, LockInv, InitInv, Inside
<1>4. JobInv'
  BY JumpersAssumption DEF TypeInv, JobInv, Freeing, Chosen, Creating, Blank, None
<1>5. ListedInv'
  BY DEF TypeInv, InitInv, JobInv, ListedInv, Chosen, Creating, Listed, Freeing, Blank, None,
      ItemsOf, Nodes
<1>6. NearInv'
  BY DEF TypeInv, JobInv, InitInv, NearInv, Chosen, Blank, ItemAddress, None, ItemsOf, Nodes
<1>7. ApartInv'
  BY DEF TypeInv, ApartInv, Nodes
<1>8. ClaimInv'
  <2>1. \A u \in Threads : Claims(u) => job'[u].item = job[u].item /\ Claims(u)'
    BY DEF TypeInv, JobInv, InitInv, Claims, Freeing
  <2>. QED
    BY <2>1, ClaimsKept DEF ItemAt
<1>9. NewInv'
  BY DEF TypeInv, InitInv, JobInv, NewInv, Creating, Blank, Freeing, None
<1>10. PersonalInv'
  <2>1. \A u \in Threads : Settled(u)
    BY DEF Settled, TypeInv, JobInv, InitInv, Freeing, Chosen, Creating, Blank, None
  <2>. QED
    BY <2>1, PersonalKept DEF ItemAt
<1>. QED
  BY <1>1, <1>2, <1>3, <1>4, <1>5, <1>6, <1>7, <1>8, <1>9, <1>10

LEMMA AttachStep ==
  ASSUME Inv, NEW t \in Threads, Attach(t)
  PROVE  Inv'
<1>. USE DEF Inv, Attach, Goto
<1>a. job[t].item \in ItemsOf(Nodes) /\ job[t].item.node \in Nodes
  BY DEF TypeInv, JobInv, Creating, Freeing, ItemsOf
<1>b. list' \in Seq(Nodes) /\ Listed' = Listed \cup {job[t].item.node}
  <2>1. list \in Seq(Nodes) /\ list' = Append(list, job[t].item.node)
    BY DEF TypeInv
  <2>. QED
    BY <1>a, <2>1 DEF Listed
<1>1. TypeInv'
  BY <1>b DEF TypeInv, Nodes, ItemsOf, None, Blank, MemoryOK
<1>2. InitInv'
  BY DEF TypeInv, InitInv, JobInv, Freeing, Inside
<1>3. LockInv'
  BY ThreadsAssumption DEF TypeInv, LockInv, InitInv, Inside
<1>4. JobInv'
  BY JumpersAssumption DEF TypeInv, JobInv, InitInv, Freeing, Chosen, Creating, Blank, None
<1>5. ListedInv'
  <2>1. \A u \in Threads \ {t} : pc'[u] = pc[u] /\ job'[u] = job[u]
    BY DEF TypeInv
  <2>2. pc'[t] = "picknew" /\ job'[t] = job[t]
    BY DEF TypeInv
  <2>3. ASSUME NEW u \in Threads \ {t}, pc[u] = "attach"
        PROVE  job[u].item.node # job[t].item.node
    BY <2>3 DEF ListedInv, NewInv, Creating
  <2>4. Freeing(t)' = Freeing(t) /\ \A u \in Threads : Freeing(u)' = Freeing(u)
    BY DEF Freeing
  <2>. QED
    BY <1>b, <2>1, <2>2, <2>3, <2>4 DEF ListedInv, Chosen
<1>6. NearInv'
  BY DEF TypeInv, JobInv, InitInv, NearInv, Chosen, Blank, ItemAddress, None, ItemsOf, Nodes
<1>7. ApartInv'
  BY DEF TypeInv, ApartInv, Nodes
<1>8. ClaimInv'
  <2>1. \A u \in Threads : job'[u].item = job[u].item /\ (Claims(u) => Claims(u)')
    BY DEF TypeInv, JobInv, InitInv, Claims, Freeing
  <2>. QED
    BY <2>1, ClaimsKept DEF ItemAt
<1>9. NewInv'
  BY DEF TypeInv, InitInv, JobInv, NewInv, Creating, Blank, Freeing, None
<1>10. PersonalInv'
  <2>1. \A u \in Threads : Settled(u)
    BY DEF Settled, TypeInv, JobInv, InitInv, Freeing, Chosen, Creating, Blank, None
  <2>. QED
    BY <2>1, PersonalKept DEF ItemAt
<1>. QED
  BY <1>1, <1>2, <1>3, <1>4, <1>5, <1>6, <1>7, <1>8, <1>9, <1>10

LEMMA WriteCodeStep ==
  ASSUME Inv, NEW t \in Threads, WriteCode(t)
  PROVE  Inv'
<1>. USE DEF Inv, WriteCode, Goto, globalVars
<1>a. /\ job[t].kind = "get" /\ job[t].to \in Jumpers
      /\ job[t].item \in ItemsOf(Nodes) /\ job[t].item # None /\ job[t].item.node \in Nodes
  BY ItemIs DEF TypeInv, JobInv, Freeing, Chosen
<1>. DEFINE i == job[t].item
            v == [ItemAt(i) EXCEPT !.to = job[t].to]
<1>b. v \in [busy : BOOLEAN, to : Jumpers \cup {Default}] /\ SetItem(i, v)
  <2>1. ItemAt(i) \in [busy : BOOLEAN, to : Jumpers \cup {Default}]
    BY <1>a, ItemTyped
  <2>. QED
    BY <1>a, <2>1 DEF ItemAt
<1>c. /\ items' \in Seq([1 .. NodeItems -> [busy : BOOLEAN, to : Jumpers \cup {Default}]])
      /\ Len(items') = Len(items)
      /\ \A j \in ItemsOf(Nodes) : items'[j.node][j.index] = IF j = i THEN v ELSE ItemAt(j)
  BY <1>a, <1>b, SetItemIs
<1>1. TypeInv'
  BY <1>c DEF TypeInv, Nodes, ItemsOf
<1>2. InitInv'
  BY DEF TypeInv, InitInv, JobInv, Freeing, Inside
<1>3. LockInv'
  BY ThreadsAssumption DEF TypeInv, LockInv, InitInv, Inside
<1>4. JobInv'
  BY JumpersAssumption DEF TypeInv, JobInv, InitInv, Freeing, Chosen, Creating, Blank, None
<1>5. ListedInv'
  BY DEF TypeInv, InitInv, JobInv, ListedInv, Chosen, Creating, Listed, Freeing, Blank, None,
      ItemsOf, Nodes
<1>6. NearInv'
  BY DEF TypeInv, JobInv, InitInv, NearInv, Chosen, Blank, ItemAddress, None, ItemsOf, Nodes
<1>7. ApartInv'
  BY DEF TypeInv, ApartInv, Nodes
<1>8. ClaimInv'
  <2>1. \A u \in Threads : Claims(u) => job'[u].item = job[u].item /\ Claims(u)'
    BY DEF TypeInv, Claims, Freeing
  <2>2. v.busy => ItemAt(i).busy
    BY <1>a, ItemTyped
  <2>3. \A j \in ItemsOf(Nodes) : items'[j.node][j.index].busy => ItemAt(j).busy
    BY <1>c, <2>2
  <2>. QED
    BY <2>1, <2>3, ClaimsKept
<1>9. NewInv'
  BY DEF TypeInv, InitInv, JobInv, NewInv, Creating, Blank, Freeing, None
<1>10. PersonalInv'
  <2>1. \A j \in ItemsOf(Nodes) : items'[j.node][j.index] = IF j = i THEN v ELSE ItemAt(j)
    BY <1>c
  <2>2. i.node \notin shared =>
          /\ \A to \in Jumpers : held[to] # i
          /\ \A u \in Threads : u # t /\ (pc[u] \in Chosen \/ Freeing(u)) => job[u].item # i
    BY Alone
  <2>3. pc'[t] = IF pc[t] = "code" THEN "status" ELSE "newstatus"
    BY DEF TypeInv
  <2>4. \A u \in Threads \ {t} : pc'[u] = pc[u]
    BY DEF TypeInv
  <2>5. ASSUME NEW to \in Jumpers, held[to] # None, held[to].node \notin shared
        PROVE  ItemAt(held[to])'.busy /\ ItemAt(held[to])'.to = to
    <3>1. held[to] \in ItemsOf(Nodes) /\ held[to] # i
      BY <2>2, <2>5 DEF TypeInv
    <3>2. ItemAt(held[to])' = ItemAt(held[to])
      BY <2>1, <3>1 DEF ItemAt
    <3>. QED
      BY <2>5, <3>2 DEF PersonalInv
  <2>6. ASSUME NEW u \in Threads \ {t}, job[u].item # None, job[u].item.node \notin shared,
               pc[u] \in Chosen \/ Freeing(u)
        PROVE  items'[job[u].item.node][job[u].item.index] = ItemAt(job[u].item)
    <3>1. job[u].item \in ItemsOf(Nodes) /\ job[u].item # i
      BY <2>2, <2>6 DEF TypeInv
    <3>. QED
      BY <2>1, <3>1
  <2>7. i.node \notin shared => items'[i.node][i.index] = v /\ PersonalOf(t)
    BY <2>1, <1>a DEF PersonalInv
  <2>8. ~Freeing(t) /\ \A u \in Threads : Freeing(u)' = Freeing(u)
    BY <1>a DEF Freeing
  <2>9. \A u \in Threads \ {t} : Claims(u)' = Claims(u)
    BY <2>4, <2>8 DEF Claims
  <2>10. ASSUME NEW u \in Threads \ {t}, job[u].item # None, job[u].item.node \notin shared, Freeing(u)
         PROVE  job[t].item # job[u].item
    BY <2>2, <2>10
  <2>11. ASSUME NEW u \in Threads, job[u].item # None, job[u].item.node \notin shared
         PROVE  (PersonalOf(u))'
    <3>1. CASE u = t
      <4>1. items'[i.node][i.index] = v /\ PersonalOf(t)
        BY <2>7, <2>11, <3>1
      <4>2. ItemAt(i) \in [busy : BOOLEAN, to : Jumpers \cup {Default}]
        BY <1>a, ItemTyped
      <4>3. ~Freeing(t)'
        BY <2>8
      <4>4. job'[t] = job[t]
        OBVIOUS
      <4>5. ~v.busy /\ v.to = job[t].to
        BY <4>1, <4>2 DEF PersonalOf
      <4>6. ItemAt(job[u].item)' = v
        BY <3>1, <4>1, <4>4 DEF ItemAt
      <4>. HIDE DEF v
      <4>. QED
        BY <2>3, <3>1, <4>1, <4>3, <4>4, <4>5, <4>6 DEF PersonalOf
    <3>2. CASE u # t
      <4>1. PersonalOf(u)
        BY <2>11 DEF PersonalInv
      <4>2. pc'[u] = pc[u] /\ job' = job /\ held' = held /\ Freeing(u)' = Freeing(u)
        BY <2>4, <2>8, <3>2
      <4>3. pc[u] \in Chosen \/ Freeing(u) => ItemAt(job[u].item)' = ItemAt(job[u].item)
        BY <2>6, <2>11, <3>2 DEF ItemAt
      <4>4. Freeing(u) => \A w \in Threads : w # u /\ Claims(w)' => job[w].item # job[u].item
        <5>1. ASSUME Freeing(u), NEW w \in Threads, w # u, Claims(w)'
              PROVE  job[w].item # job[u].item
          <6>1. CASE w = t
            BY <2>10, <2>11, <3>2, <5>1, <6>1
          <6>2. CASE w # t
            BY <2>9, <4>1, <5>1, <6>2 DEF PersonalOf
          <6>. QED
            BY <6>1, <6>2
        <5>. QED
          BY <5>1
      <4>. QED
        BY <4>1, <4>2, <4>3, <4>4 DEF PersonalOf, Chosen
    <3>. QED
      BY <3>1, <3>2
  <2>. QED
    BY <2>5, <2>11 DEF PersonalInv
<1>. QED
  BY <1>1, <1>2, <1>3, <1>4, <1>5, <1>6, <1>7, <1>8, <1>9, <1>10

LEMMA WriteStatusStep ==
  ASSUME Inv, NEW t \in Threads, WriteStatus(t)
  PROVE  Inv'
<1>. USE DEF Inv, WriteStatus, Goto, globalVars
<1>a. /\ job[t].kind = "get" /\ job[t].to \in Jumpers
      /\ job[t].item \in ItemsOf(Nodes) /\ job[t].item # None /\ job[t].item.node \in Nodes
  BY ItemIs DEF TypeInv, JobInv, Freeing, Chosen
<1>. DEFINE i == job[t].item
            v == [ItemAt(i) EXCEPT !.busy = TRUE]
<1>b. v \in [busy : BOOLEAN, to : Jumpers \cup {Default}] /\ SetItem(i, v)
  <2>1. ItemAt(i) \in [busy : BOOLEAN, to : Jumpers \cup {Default}]
    BY <1>a, ItemTyped
  <2>. QED
    BY <1>a, <2>1 DEF ItemAt
<1>c. /\ items' \in Seq([1 .. NodeItems -> [busy : BOOLEAN, to : Jumpers \cup {Default}]])
      /\ Len(items') = Len(items)
      /\ \A j \in ItemsOf(Nodes) : items'[j.node][j.index] = IF j = i THEN v ELSE ItemAt(j)
  BY <1>a, <1>b, SetItemIs
<1>1. TypeInv'
  BY <1>c DEF TypeInv, Nodes, ItemsOf
<1>2. InitInv'
  BY DEF TypeInv, InitInv, JobInv, Freeing, Inside
<1>3. LockInv'
  BY ThreadsAssumption DEF TypeInv, LockInv, InitInv, Inside
<1>4. JobInv'
  BY JumpersAssumption DEF TypeInv, JobInv, InitInv, Freeing, Chosen, Creating, Blank, None
<1>5. ListedInv'
  BY DEF TypeInv, InitInv, JobInv, ListedInv, Chosen, Creating, Listed, Freeing, Blank, None,
      ItemsOf, Nodes
<1>6. NearInv'
  BY DEF TypeInv, JobInv, InitInv, NearInv, Chosen, Blank, ItemAddress, None, ItemsOf, Nodes
<1>7. ApartInv'
  BY DEF TypeInv, ApartInv, Nodes
<1>8. ClaimInv'
  <2>1. \A u \in Threads : Claims(u) => job'[u].item = job[u].item /\ Claims(u)'
    BY DEF TypeInv, Claims, Freeing
  <2>2. Claims(t)' /\ job'[t].item = i
    BY DEF TypeInv, Claims
  <2>3. ASSUME NEW j \in ItemsOf(Nodes), items'[j.node][j.index].busy
        PROVE  \/ \E to \in Jumpers : held'[to] = j
               \/ \E u \in Threads : job'[u].item = j /\ Claims(u)'
    <3>1. CASE j = i
      BY <2>2, <3>1
    <3>2. CASE j # i
      <4>1. ItemAt(j).busy
        BY <1>c, <2>3, <3>2
      <4>. QED
        BY <2>1, <4>1 DEF ClaimInv
    <3>. QED
      BY <3>1, <3>2
  <2>. QED
    BY <2>3 DEF ClaimInv, ItemAt, ItemsOf, Nodes
<1>9. NewInv'
  BY DEF TypeInv, InitInv, JobInv, NewInv, Creating, Blank, Freeing, None
<1>10. PersonalInv'
  <2>1. \A j \in ItemsOf(Nodes) : items'[j.node][j.index] = IF j = i THEN v ELSE ItemAt(j)
    BY <1>c
  <2>2. i.node \notin shared =>
          /\ \A to \in Jumpers : held[to] # i
          /\ \A u \in Threads : u # t /\ (pc[u] \in Chosen \/ Freeing(u)) => job[u].item # i
    BY Alone
  <2>3. pc'[t] = IF pc[t] = "status" THEN "leave" ELSE "return"
    BY DEF TypeInv
  <2>4. \A u \in Threads \ {t} : pc'[u] = pc[u]
    BY DEF TypeInv
  <2>5. ASSUME NEW to \in Jumpers, held[to] # None, held[to].node \notin shared
        PROVE  ItemAt(held[to])'.busy /\ ItemAt(held[to])'.to = to
    <3>1. held[to] \in ItemsOf(Nodes) /\ held[to] # i
      BY <2>2, <2>5 DEF TypeInv
    <3>2. ItemAt(held[to])' = ItemAt(held[to])
      BY <2>1, <3>1 DEF ItemAt
    <3>. QED
      BY <2>5, <3>2 DEF PersonalInv
  <2>6. ASSUME NEW u \in Threads \ {t}, job[u].item # None, job[u].item.node \notin shared,
               pc[u] \in Chosen \/ Freeing(u)
        PROVE  items'[job[u].item.node][job[u].item.index] = ItemAt(job[u].item)
    <3>1. job[u].item \in ItemsOf(Nodes) /\ job[u].item # i
      BY <2>2, <2>6 DEF TypeInv
    <3>. QED
      BY <2>1, <3>1
  <2>7. i.node \notin shared => items'[i.node][i.index] = v /\ PersonalOf(t)
    BY <2>1, <1>a DEF PersonalInv
  <2>8. ~Freeing(t) /\ \A u \in Threads : Freeing(u)' = Freeing(u)
    BY <1>a DEF Freeing
  <2>9. \A u \in Threads \ {t} : Claims(u)' = Claims(u)
    BY <2>4, <2>8 DEF Claims
  <2>10. ASSUME NEW u \in Threads \ {t}, job[u].item # None, job[u].item.node \notin shared, Freeing(u)
         PROVE  job[t].item # job[u].item
    BY <2>2, <2>10
  <2>11. ASSUME NEW u \in Threads, job[u].item # None, job[u].item.node \notin shared
         PROVE  (PersonalOf(u))'
    <3>1. CASE u = t
      <4>1. items'[i.node][i.index] = v /\ PersonalOf(t)
        BY <2>7, <2>11, <3>1
      <4>2. ItemAt(i) \in [busy : BOOLEAN, to : Jumpers \cup {Default}]
        BY <1>a, ItemTyped
      <4>3. ~Freeing(t)'
        BY <2>8
      <4>4. job'[t] = job[t]
        OBVIOUS
      <4>5. v.busy /\ v.to = job[t].to
        BY <4>1, <4>2 DEF PersonalOf
      <4>6. ItemAt(job[u].item)' = v
        BY <3>1, <4>1, <4>4 DEF ItemAt
      <4>. HIDE DEF v
      <4>. QED
        BY <2>3, <3>1, <4>1, <4>3, <4>4, <4>5, <4>6 DEF PersonalOf
    <3>2. CASE u # t
      <4>1. PersonalOf(u)
        BY <2>11 DEF PersonalInv
      <4>2. pc'[u] = pc[u] /\ job' = job /\ held' = held /\ Freeing(u)' = Freeing(u)
        BY <2>4, <2>8, <3>2
      <4>3. pc[u] \in Chosen \/ Freeing(u) => ItemAt(job[u].item)' = ItemAt(job[u].item)
        BY <2>6, <2>11, <3>2 DEF ItemAt
      <4>4. Freeing(u) => \A w \in Threads : w # u /\ Claims(w)' => job[w].item # job[u].item
        <5>1. ASSUME Freeing(u), NEW w \in Threads, w # u, Claims(w)'
              PROVE  job[w].item # job[u].item
          <6>1. CASE w = t
            BY <2>10, <2>11, <3>2, <5>1, <6>1
          <6>2. CASE w # t
            BY <2>9, <4>1, <5>1, <6>2 DEF PersonalOf
          <6>. QED
            BY <6>1, <6>2
        <5>. QED
          BY <5>1
      <4>. QED
        BY <4>1, <4>2, <4>3, <4>4 DEF PersonalOf, Chosen
    <3>. QED
      BY <3>1, <3>2
  <2>. QED
    BY <2>5, <2>11 DEF PersonalInv
<1>. QED
  BY <1>1, <1>2, <1>3, <1>4, <1>5, <1>6, <1>7, <1>8, <1>9, <1>10

LEMMA PickExistingStep ==
  ASSUME Inv, NEW t \in Threads, PickExisting(t)
  PROVE  Inv'
<1>. USE DEF Inv, PickExisting, Choose, Goto, globalVars
<1>. DEFINE free == FreeItems(Listed, Home[job[t].to])
            i == First(free)
<1>a. /\ free # {} /\ free \in SUBSET ItemsOf(Listed)
      /\ job' = [job EXCEPT ![t].item = i] /\ pc' = [pc EXCEPT ![t] = "code"]
      /\ shared' = IF Unwritten(i.node) THEN shared \cup {i.node} ELSE shared
      /\ job[t].kind = "get" /\ job[t].to \in Jumpers /\ pc[t] = "pick"
  BY DEF FreeItems, JobInv, Freeing
<1>b. i \in free
  BY <1>a, FirstIn
<1>c. /\ i \in ItemsOf(Nodes) /\ i # None /\ i.node \in Listed /\ ~ItemAt(i).busy
      /\ IsNear(ItemAddress(i), Home[job[t].to], ItemSize)
  BY <1>b, ItemIs, PositionIs DEF FreeItems, ItemsOf, ItemAt
<1>. HIDE DEF free, i
<1>d. /\ job'[t] = [job[t] EXCEPT !.item = i] /\ job'[t].item = i /\ pc'[t] = "code"
      /\ \A u \in Threads \ {t} : job'[u] = job[u] /\ pc'[u] = pc[u]
  BY <1>a DEF TypeInv
<1>1. TypeInv'
  <2>1. Nodes' = Nodes /\ i.node \in Nodes
    BY <1>c, ItemIs DEF Nodes
  <2>2. job' \in [Threads -> [kind : {"none", "get", "free"}, to : Jumpers \cup {Default},
                              item : ItemsOf(Nodes) \cup {None}]]
    BY <1>a, <1>c DEF TypeInv
  <2>. QED
    BY <1>a, <2>1, <2>2 DEF TypeInv
<1>2. InitInv'
  BY <1>a, <1>d DEF InitInv, Freeing
<1>3. LockInv'
  BY <1>a, <1>d DEF LockInv, Inside
<1>4. JobInv'
  BY <1>a, <1>c, <1>d DEF JobInv, Freeing, Chosen, Creating
<1>5. ListedInv'
  <2>1. Listed' = Listed /\ \A u \in Threads : Freeing(u)' = Freeing(u)
    BY <1>a, <1>d DEF Listed, Freeing
  <2>2. ASSUME NEW u \in Threads, pc'[u] = "attach"
        PROVE  job'[u].item.node \notin Listed \cup shared'
    <3>1. pc[u] = "attach" /\ job'[u] = job[u]
      BY <1>d, <2>2
    <3>2. job[u].item.node \notin Listed \cup shared
      BY <3>1 DEF ListedInv
    <3>. QED
      BY <1>a, <1>c, <3>1, <3>2
  <2>3. \A u \in Threads : pc'[u] \in Chosen \cup {"picknew"} \/ Freeing(u)' =>
          job'[u].item.node \in Listed
    <3>1. \A u \in Threads \ {t} : pc[u] \in Chosen \cup {"picknew"} \/ Freeing(u) =>
            job[u].item.node \in Listed
      BY DEF ListedInv
    <3>. QED
      BY <1>c, <1>d, <2>1, <3>1
  <2>4. \A to \in Jumpers : held'[to] # None => held'[to].node \in Listed
    BY DEF ListedInv
  <2>. QED
    BY <2>1, <2>2, <2>3, <2>4 DEF ListedInv
<1>6. NearInv'
  BY <1>a, <1>c, <1>d DEF NearInv, ItemAddress, Chosen
<1>7. ApartInv'
  BY DEF TypeInv, ApartInv, Nodes
<1>8. ClaimInv'
  <2>1. \A u \in Threads : Claims(u) => job'[u].item = job[u].item /\ Claims(u)'
    BY <1>a, <1>d DEF Claims, Freeing
  <2>. QED
    BY <2>1, ClaimsKept DEF ItemAt
<1>9. NewInv'
  <2>. SUFFICES ASSUME NEW u \in Threads, u # t, pc[u] \in Creating, job[u].item.node \notin shared'
                PROVE  /\ \A to \in Jumpers : held[to].node # job[u].item.node
                       /\ \A v \in Threads : v # u => job'[v].item.node # job[u].item.node
    BY <1>d DEF NewInv, Creating
  <2>1. /\ \A to \in Jumpers : held[to].node # job[u].item.node
        /\ \A v \in Threads : v # u => job[v].item.node # job[u].item.node
    BY <1>a DEF NewInv
  <2>2. i.node # job[u].item.node
    <3>1. CASE pc[u] = "attach"
      BY <1>c, <3>1 DEF ListedInv
    <3>2. CASE pc[u] \in {"picknew", "newcode", "newstatus"}
      BY <1>a, <3>2 DEF Unwritten
    <3>. QED
      BY <3>1, <3>2 DEF Creating
  <2>. QED
    BY <1>d, <2>1, <2>2
<1>10. PersonalInv'
  <2>1. \A u \in Threads : Settled(u)
    BY <1>a, <1>c, <1>d DEF Settled, Freeing
  <2>. QED
    BY <1>a, <2>1, PersonalKept DEF ItemAt
<1>. QED
  BY <1>1, <1>2, <1>3, <1>4, <1>5, <1>6, <1>7, <1>8, <1>9, <1>10

LEMMA PickNewStep ==
  ASSUME Inv, NEW t \in Threads, PickNew(t)
  PROVE  Inv'
<1>. USE DEF Inv, PickNew, Choose, Goto, Finish, globalVars
<1>. DEFINE free == FreeItems({job[t].item.node}, Home[job[t].to])
            i == First(free)
<1>a. /\ free \in SUBSET ItemsOf(Listed) /\ job[t].item.node \in Listed
      /\ job[t].kind = "get" /\ job[t].to \in Jumpers /\ pc[t] = "picknew"
  BY DEF FreeItems, JobInv, Freeing, ListedInv, ItemsOf
<1>b. free # {} => i \in free
  BY <1>a, FirstIn
<1>c. free # {} => /\ i \in ItemsOf(Nodes) /\ i # None /\ i.node = job[t].item.node
                   /\ ~ItemAt(i).busy /\ IsNear(ItemAddress(i), Home[job[t].to], ItemSize)
  <2>1. free # {} => i \in ItemsOf(Nodes) /\ i.node = job[t].item.node
    BY <1>a, <1>b, PositionIs DEF FreeItems, ItemsOf
  <2>. QED
    BY <1>b, <2>1, ItemIs DEF FreeItems, ItemAt
<1>d. \/ free # {} /\ job' = [job EXCEPT ![t].item = i] /\ pc' = [pc EXCEPT ![t] = "newcode"]
      \/ job' = [job EXCEPT ![t] = Blank] /\ pc' = [pc EXCEPT ![t] = "idle"]
  OBVIOUS
<1>e. \A u \in Threads \ {t} : job'[u] = job[u] /\ pc'[u] = pc[u]
  BY <1>d DEF TypeInv
<1>f. \/ /\ free # {} /\ pc'[t] = "newcode" /\ job'[t] = [job[t] EXCEPT !.item = i]
         /\ job'[t].item = i /\ job'[t].to = job[t].to /\ job'[t].kind = "get"
      \/ pc'[t] = "idle" /\ job'[t] = Blank
  BY <1>a, <1>d DEF TypeInv
<1>. HIDE DEF free, i
<1>1. TypeInv'
  <2>1. Nodes' = Nodes
    BY DEF Nodes
  <2>2. job' \in [Threads -> [kind : {"none", "get", "free"}, to : Jumpers \cup {Default},
                              item : ItemsOf(Nodes) \cup {None}]]
    BY <1>c, <1>d DEF TypeInv, Blank
  <2>. QED
    BY <1>d, <2>1, <2>2 DEF TypeInv
<1>2. InitInv'
  BY <1>a, <1>d DEF TypeInv, InitInv, Freeing, Blank
<1>3. LockInv'
  BY <1>a, <1>d DEF TypeInv, LockInv, Inside
<1>4. JobInv'
  <2>1. job[t].to # Default /\ \A u \in Threads \ {t} : job[u].to # job[t].to
    BY <1>a, JumpersAssumption DEF JobInv, Freeing
  <2>2. CASE pc'[t] = "idle" /\ job'[t] = Blank
    BY <1>e, <2>1, <2>2, JumpersAssumption DEF JobInv, Freeing, Blank
  <2>3. CASE /\ pc'[t] = "newcode" /\ job'[t].item # None
             /\ job'[t].to = job[t].to /\ job'[t].kind = "get"
    BY <1>a, <1>e, <2>1, <2>3 DEF JobInv, Freeing, Chosen
  <2>. QED
    BY <1>c, <1>f, <2>2, <2>3
<1>5. ListedInv'
  <2>1. Listed' = Listed
    BY DEF Listed
  <2>2. \A u \in Threads : Freeing(u)' => Freeing(u) /\ u # t
    BY <1>a, <1>e, <1>f DEF Freeing, Blank
  <2>. QED
    BY <1>a, <1>c, <1>e, <1>f, <2>1, <2>2 DEF ListedInv, Chosen
<1>6. NearInv'
  BY <1>a, <1>c, <1>e, <1>f DEF NearInv, ItemAddress, Chosen
<1>7. ApartInv'
  BY DEF TypeInv, ApartInv, Nodes
<1>8. ClaimInv'
  <2>1. \A u \in Threads : Claims(u) => job'[u].item = job[u].item /\ Claims(u)'
    BY <1>a, <1>d DEF TypeInv, Claims, Freeing
  <2>. QED
    BY <2>1, ClaimsKept DEF ItemAt
<1>9. NewInv'
  <2>1. \A u \in Threads : job'[u].item.node = job[u].item.node \/ job'[u].item = None
    BY <1>a, <1>c, <1>d DEF TypeInv, Blank
  <2>2. \A u \in Threads : pc'[u] \in Creating =>
                             pc[u] \in Creating /\ job'[u].item.node = job[u].item.node
    BY <1>a, <1>c, <1>d DEF TypeInv, Creating
  <2>3. \A u \in Threads : pc[u] \in Creating => job[u].item.node # None.node
    BY ItemIs DEF TypeInv, JobInv, Creating, Freeing, None
  <2>. QED
    BY <2>1, <2>2, <2>3 DEF NewInv
<1>10. PersonalInv'
  <2>1. \A u \in Threads : Settled(u)
    BY <1>a, <1>c, <1>d DEF TypeInv, Settled, Freeing, Blank, Chosen
  <2>. QED
    BY <2>1, PersonalKept DEF ItemAt
<1>. QED
  BY <1>1, <1>2, <1>3, <1>4, <1>5, <1>6, <1>7, <1>8, <1>9, <1>10

LEMMA AllocStep ==
  ASSUME Inv, NEW t \in Threads, Alloc(t)
  PROVE  Inv'
<1>. USE DEF Inv, Alloc, Goto
<1>. DEFINE from == Home[job[t].to]
            a == NodeAlloc(memory, from)
            n == Len(nodes) + 1
            fresh == [node |-> n, index |-> 1]
            blank == [k \in 1 .. NodeItems |-> [busy |-> FALSE, to |-> Default]]
<1>a. /\ job[t].kind = "get" /\ job[t].to \in Jumpers /\ pc[t] = "alloc" /\ job[t].item = None
      /\ from \in {Home[to] : to \in Jumpers} /\ from \in 0 .. Space - 1
  <2>1. job[t].kind = "get" /\ job[t].to \in Jumpers /\ pc[t] = "alloc" /\ job[t].item = None
    BY DEF JobInv, Freeing, Chosen, Creating
  <2>2. Home[job[t].to] \in JumpSize .. Space - 1
    BY <2>1, JumpersAssumption
  <2>. QED
    BY <2>1, <2>2, Sizes
<1>b. /\ a # NULL
      /\ nodes' = Append(nodes, [at |-> a, for |-> from])
      /\ memory' = Taken(memory, a)
      /\ items' = Append(items, blank)
      /\ job' = [job EXCEPT ![t].item = fresh] /\ pc' = [pc EXCEPT ![t] = "attach"]
  OBVIOUS
<1>c. /\ a \in 1 .. Space - 1
      /\ \E status \in {"free", "reserved"} : AllAre(memory, a, NodeSize, status)
  BY <1>a, <1>b, Given DEF TypeInv
<1>. HIDE DEF a, from
<1>d. /\ n \notin Nodes /\ n # 0 /\ Nodes' = Nodes \cup {n}
      /\ nodes'[n] = [at |-> a, for |-> from]
      /\ \A m \in Nodes : nodes'[m] = nodes[m] /\ items'[m] = items[m]
      /\ items'[n] = blank
  BY <1>b DEF TypeInv, Nodes
<1>e. /\ job'[t] = [job[t] EXCEPT !.item = fresh] /\ job'[t].item = fresh /\ pc'[t] = "attach"
      /\ \A u \in Threads \ {t} : job'[u] = job[u] /\ pc'[u] = pc[u]
  BY <1>b DEF TypeInv
<1>f. /\ \A i \in ItemsOf(Nodes) : i \in ItemsOf(Nodes)' /\ i.node \in Nodes
      /\ fresh \in ItemsOf(Nodes)' /\ fresh # None /\ None.node = 0 /\ fresh.node = n
  BY <1>d, SizeAssumption DEF ItemsOf, None
<1>g. /\ \A to \in Jumpers : held[to].node # n
      /\ \A u \in Threads : job[u].item.node # n
  BY <1>d, <1>f DEF TypeInv
<1>1. TypeInv'
  <2>1. nodes' \in Seq([at : 1 .. Space - 1, for : {Home[to] : to \in Jumpers}])
    BY <1>a, <1>b, <1>c DEF TypeInv
  <2>2. blank \in [1 .. NodeItems -> [busy : BOOLEAN, to : Jumpers \cup {Default}]]
    OBVIOUS
  <2>3. /\ items' \in Seq([1 .. NodeItems -> [busy : BOOLEAN, to : Jumpers \cup {Default}]])
        /\ Len(items') = Len(nodes')
    BY <1>b, <2>1, <2>2 DEF TypeInv
  <2>4. MemoryOK(memory')
    BY <1>b DEF TypeInv, MemoryOK, Taken
  <2>5. list' \in Seq(Nodes')
    BY <1>d DEF TypeInv
  <2>6. job' \in [Threads -> [kind : {"none", "get", "free"}, to : Jumpers \cup {Default},
                              item : ItemsOf(Nodes)' \cup {None}]]
    <3>1. job[t] \in [kind : {"none", "get", "free"}, to : Jumpers \cup {Default},
                       item : ItemsOf(Nodes) \cup {None}]
      BY DEF TypeInv
    <3>2. job'[t] \in [kind : {"none", "get", "free"}, to : Jumpers \cup {Default},
                        item : ItemsOf(Nodes)' \cup {None}]
      <4>1. fresh \in ItemsOf(Nodes)'
        BY <1>f
      <4>. HIDE DEF fresh
      <4>. QED
        BY <1>e, <3>1, <4>1
    <3>3. \A u \in Threads \ {t} :
            job'[u] \in [kind : {"none", "get", "free"}, to : Jumpers \cup {Default},
                         item : ItemsOf(Nodes)' \cup {None}]
      BY <1>e, <1>f DEF TypeInv
    <3>. QED
      BY <1>b, <3>2, <3>3 DEF TypeInv
  <2>7. held' \in [Jumpers -> ItemsOf(Nodes)' \cup {None}]
    BY <1>f DEF TypeInv
  <2>. QED
    BY <1>b, <1>d, <2>1, <2>3, <2>4, <2>5, <2>6, <2>7 DEF TypeInv
<1>2. InitInv'
  BY DEF TypeInv, InitInv, JobInv, Freeing, Inside
<1>3. LockInv'
  BY ThreadsAssumption DEF TypeInv, LockInv, InitInv, Inside
<1>4. JobInv'
  BY JumpersAssumption DEF TypeInv, JobInv, InitInv, Freeing, Chosen, Creating, Blank, None
<1>5. ListedInv'
  BY DEF TypeInv, InitInv, JobInv, ListedInv, Chosen, Creating, Listed, Freeing, Blank, None,
      ItemsOf, Nodes
<1>6. NearInv'
  BY DEF TypeInv, JobInv, InitInv, NearInv, Chosen, Blank, ItemAddress, None, ItemsOf, Nodes
<1>7. ApartInv'
  <2>1. \A p \in Touched(a, NodeSize) : p \in DOMAIN memory /\ memory[p] # "used"
    BY <1>c DEF AllAre
  <2>2. ASSUME NEW m \in Nodes'
        PROVE  AllAre(memory', nodes'[m].at, NodeSize, "used")
    <3>1. CASE m = n
      BY <1>b, <1>d, <2>1, <3>1 DEF AllAre, Taken
    <3>2. CASE m \in Nodes
      BY <1>b, <1>d, <3>2 DEF ApartInv, AllAre, Taken
    <3>. QED
      BY <1>d, <3>1, <3>2
  <2>3. ASSUME NEW m \in Nodes
        PROVE  \/ nodes[m].at + NodeSize <= a
               \/ a + NodeSize <= nodes[m].at
    <3>1. nodes[m].at \in Int /\ a \in Int
      BY <1>c, NodeTyped, Sizes
    <3>2. \A p \in Touched(nodes[m].at, NodeSize) : memory[p] = "used"
      BY DEF ApartInv, AllAre
    <3>3. Touched(nodes[m].at, NodeSize) \cap Touched(a, NodeSize) = {}
      BY <2>1, <3>2
    <3>. QED
      BY <3>1, <3>3, TouchedApart
  <2>4. nodes'[n].at = a
    BY <1>d
  <2>5. ASSUME NEW l \in Nodes', NEW m \in Nodes', l # m
        PROVE  \/ nodes'[l].at + NodeSize <= nodes'[m].at
               \/ nodes'[m].at + NodeSize <= nodes'[l].at
    <3>1. CASE l \in Nodes /\ m \in Nodes
      BY <1>d, <2>5, <3>1 DEF ApartInv
    <3>2. CASE l \in Nodes /\ m = n
      BY <1>d, <2>3, <2>4, <3>2
    <3>3. CASE l = n /\ m \in Nodes
      BY <1>d, <2>3, <2>4, <3>3
    <3>. QED
      BY <1>d, <2>5, <3>1, <3>2, <3>3
  <2>. QED
    BY <2>2, <2>5 DEF ApartInv
<1>8. ClaimInv'
  <2>1. ASSUME NEW i \in ItemsOf(Nodes)', items'[i.node][i.index].busy
        PROVE  \/ \E to \in Jumpers : held[to] = i
               \/ \E u \in Threads : job'[u].item = i /\ Claims(u)'
    <3>1. i.node \in Nodes \cup {n} /\ i.index \in 1 .. NodeItems
      BY <1>d DEF ItemsOf
    <3>2. i.node \in Nodes
      <4>1. ~ blank[i.index].busy
        BY <3>1
      <4>. QED
        BY <1>d, <2>1, <3>1, <4>1
    <3>3. i \in ItemsOf(Nodes) /\ ItemAt(i).busy
      BY <1>d, <2>1, <3>1, <3>2 DEF ItemsOf, ItemAt
    <3>4. \A u \in Threads : Claims(u) => u # t /\ Claims(u)'
      BY <1>a, <1>e DEF Claims, Freeing
    <3>. QED
      BY <1>e, <3>3, <3>4 DEF ClaimInv
  <2>. QED
    BY <2>1 DEF ClaimInv, ItemAt
<1>9. NewInv'
  <2>1. ASSUME NEW u \in Threads, u # t, pc[u] \in Creating, job[u].item.node \notin shared
        PROVE  /\ \A to \in Jumpers : held[to].node # job[u].item.node
               /\ \A v \in Threads : v # u => job'[v].item.node # job[u].item.node
    BY <1>e, <1>f, <1>g, <2>1 DEF NewInv
  <2>. QED
    BY <1>e, <1>f, <1>g, <2>1 DEF NewInv
<1>10. PersonalInv'
  <2>1. \A u \in Threads : Settled(u)
    BY <1>a, <1>e DEF Settled, Freeing, Chosen
  <2>2. \A i \in ItemsOf(Nodes) : items'[i.node][i.index] = ItemAt(i)
    BY <1>d, <1>f DEF ItemAt
  <2>. QED
    BY <2>1, <2>2, PersonalKept
<1>. QED
  BY <1>1, <1>2, <1>3, <1>4, <1>5, <1>6, <1>7, <1>8, <1>9, <1>10

LEMMA DestroyStep ==
  ASSUME Inv, NEW t \in Threads, Destroy(t)
  PROVE  Inv'
<1>. USE DEF Inv, Destroy, Goto, Finish, globalVars
<1>. DEFINE i == job[t].item
<1>a. /\ Freeing(t) /\ Claims(t) /\ i \in ItemsOf(Nodes) /\ i # None
      /\ i.node \in Listed /\ i \in ItemsOf(Listed)
  <2>1. Freeing(t) /\ i \in ItemsOf(Nodes) /\ i # None /\ i.node \in Listed
    BY DEF JobInv, TypeInv, ListedInv, Freeing
  <2>. QED
    BY <2>1 DEF ItemsOf, Claims
<1>b. ItemsAt(CodeAddress(i)) = {i}
  BY <1>a, OnlyItemThere
<1>c. First({i}) = i
  <2>1. i.index \in Nat
    BY <1>a, ItemIs
  <2>. QED
    BY <2>1 DEF First, Before
<1>d. SetItem(i, Freed)
  BY <1>b, <1>c
<1>e. /\ items' \in Seq([1 .. NodeItems -> [busy : BOOLEAN, to : Jumpers \cup {Default}]])
      /\ Len(items') = Len(items)
      /\ \A j \in ItemsOf(Nodes) : items'[j.node][j.index] = IF j = i THEN Freed ELSE ItemAt(j)
  BY <1>a, <1>d, SetItemIs DEF Freed
<1>f. /\ job'[t] = Blank /\ pc'[t] = "idle" /\ ~Claims(t)' /\ ~Freeing(t)'
      /\ \A u \in Threads \ {t} : job'[u] = job[u] /\ pc'[u] = pc[u]
      /\ \A u \in Threads \ {t} : Freeing(u)' = Freeing(u) /\ Claims(u)' = Claims(u)
  BY DEF TypeInv, Freeing, Claims, Blank
<1>1. TypeInv'
  <2>1. Nodes' = Nodes
    BY DEF Nodes
  <2>2. job' \in [Threads -> [kind : {"none", "get", "free"}, to : Jumpers \cup {Default},
                              item : ItemsOf(Nodes) \cup {None}]]
    BY DEF TypeInv, Blank
  <2>. QED
    BY <1>e, <2>1, <2>2 DEF TypeInv
<1>2. InitInv'
  BY DEF TypeInv, InitInv, JobInv, Freeing, Inside
<1>3. LockInv'
  BY ThreadsAssumption DEF TypeInv, LockInv, InitInv, Inside
<1>4. JobInv'
  BY <1>a, <1>f, JumpersAssumption DEF JobInv, Freeing, Blank
<1>5. ListedInv'
  BY DEF TypeInv, InitInv, JobInv, ListedInv, Chosen, Creating, Listed, Freeing, Blank, None,
      ItemsOf, Nodes
<1>6. NearInv'
  BY DEF TypeInv, JobInv, InitInv, NearInv, Chosen, Blank, ItemAddress, None, ItemsOf, Nodes
<1>7. ApartInv'
  BY DEF TypeInv, ApartInv, Nodes
<1>8. ClaimInv'
  <2>1. ASSUME NEW j \in ItemsOf(Nodes), items'[j.node][j.index].busy
        PROVE  \/ \E to \in Jumpers : held'[to] = j
               \/ \E u \in Threads : job'[u].item = j /\ Claims(u)'
    <3>1. j # i /\ ItemAt(j).busy
      BY <1>e, <2>1 DEF Freed
    <3>. QED
      BY <1>f, <3>1 DEF ClaimInv
  <2>. QED
    BY <2>1 DEF ClaimInv, ItemAt, ItemsOf, Nodes
<1>9. NewInv'
  <2>1. \A u \in Threads : pc[u] \in Creating => job[u].item.node # None.node
    BY ItemIs DEF TypeInv, JobInv, Creating, Freeing, None
  <2>2. job'[t].item = None
    BY <1>f DEF Blank
  <2>3. pc'[t] \notin Creating
    BY <1>f DEF Creating
  <2>. QED
    BY <1>f, <2>1, <2>2, <2>3 DEF NewInv
<1>10. PersonalInv'
  <2>1. i.node \notin shared => PersonalOf(t)
    BY <1>a DEF PersonalInv
  <2>2. ASSUME NEW to \in Jumpers, held[to] # None, held[to].node \notin shared
        PROVE  ItemAt(held[to])'.busy /\ ItemAt(held[to])'.to = to
    <3>1. held[to] \in ItemsOf(Nodes) /\ held[to] # i
      BY <1>a, <2>1, <2>2 DEF TypeInv, PersonalOf
    <3>2. ItemAt(held[to])' = ItemAt(held[to])
      BY <1>e, <3>1 DEF ItemAt
    <3>. QED
      BY <2>2, <3>2 DEF PersonalInv
  <2>3. ASSUME NEW u \in Threads \ {t}, job[u].item # None, job[u].item.node \notin shared
        PROVE  PersonalOf(u)'
    <3>1. PersonalOf(u)
      BY <2>3 DEF PersonalInv
    <3>2. ASSUME pc[u] \in Chosen \/ Freeing(u)
          PROVE  job[u].item # i
      <4>1. CASE Claims(u)
        BY <1>a, <2>1, <2>3, <4>1 DEF PersonalOf
      <4>2. CASE ~Claims(u)
        <5>1. pc[u] \in {"code", "status", "newcode", "newstatus"}
          BY <3>2, <4>2 DEF Claims, Chosen
        <5>. QED
          BY <1>a, <2>3, <5>1, Alone
      <4>. QED
        BY <4>1, <4>2
    <3>3. pc[u] \in Chosen \/ Freeing(u) => ItemAt(job[u].item)' = ItemAt(job[u].item)
      BY <1>e, <1>f, <2>3, <3>2 DEF TypeInv, ItemAt
    <3>4. \A v \in Threads : v # u /\ Claims(v)' => Claims(v) /\ job'[v] = job[v]
      BY <1>f
    <3>. QED
      BY <1>f, <3>1, <3>3, <3>4 DEF PersonalOf, Chosen
  <2>. QED
    BY <1>f, <2>2, <2>3 DEF PersonalInv, Blank
<1>. QED
  BY <1>1, <1>2, <1>3, <1>4, <1>5, <1>6, <1>7, <1>8, <1>9, <1>10

LEMMA GetStep ==
  ASSUME Inv, NEW t \in Threads, NEW to \in Jumpers, Get(t, to)
  PROVE  Inv'
<1>. USE DEF Inv, Get, Goto, globalVars
<1>a. /\ job[t] = Blank /\ ~Freeing(t) /\ pc[t] = "idle"
      /\ job'[t] = [kind |-> "get", to |-> to, item |-> None] /\ pc'[t] = "init"
      /\ \A u \in Threads \ {t} : job'[u] = job[u] /\ pc'[u] = pc[u]
  BY DEF TypeInv, JobInv, Freeing, Blank
<1>1. TypeInv'
  BY DEF TypeInv, Nodes, ItemsOf, None, Blank, MemoryOK
<1>2. InitInv'
  <2>1. ASSUME ~pid
        PROVE  \A u \in Threads : pc[u] = "idle"
    BY <2>1 DEF MayCall
  <2>2. \A u \in Threads : Freeing(u)' => Freeing(u)
    BY <1>a DEF Freeing
  <2>. QED
    BY <1>a, <2>1, <2>2 DEF InitInv
<1>3. LockInv'
  BY ThreadsAssumption DEF TypeInv, LockInv, InitInv, Inside
<1>4. JobInv'
  BY JumpersAssumption DEF TypeInv, JobInv, InitInv, Freeing, Chosen, Creating, Blank, None
<1>5. ListedInv'
  BY DEF TypeInv, InitInv, JobInv, ListedInv, Chosen, Creating, Listed, Freeing, Blank, None,
      ItemsOf, Nodes
<1>6. NearInv'
  BY DEF TypeInv, JobInv, InitInv, NearInv, Chosen, Blank, ItemAddress, None, ItemsOf, Nodes
<1>7. ApartInv'
  BY DEF TypeInv, ApartInv, Nodes
<1>8. ClaimInv'
  <2>1. \A u \in Threads : Claims(u) => job'[u].item = job[u].item /\ Claims(u)'
    BY <1>a DEF Claims, Freeing
  <2>. QED
    BY <2>1, ClaimsKept DEF ItemAt
<1>9. NewInv'
  BY DEF TypeInv, InitInv, JobInv, NewInv, Creating, Blank, Freeing, None
<1>10. PersonalInv'
  <2>1. \A u \in Threads : Settled(u)
    BY <1>a DEF Settled, Freeing, Chosen
  <2>. QED
    BY <2>1, PersonalKept DEF ItemAt
<1>. QED
  BY <1>1, <1>2, <1>3, <1>4, <1>5, <1>6, <1>7, <1>8, <1>9, <1>10

LEMMA FreeStep ==
  ASSUME Inv, NEW t \in Threads, NEW to \in Jumpers, Free(t, to)
  PROVE  Inv'
<1>. USE DEF Inv, Free, Goto, globalVars
<1>a. /\ job[t] = Blank /\ ~Freeing(t) /\ pc[t] = "idle" /\ ~Claims(t)
      /\ job'[t].item = held[to] /\ Freeing(t)' /\ Claims(t)' /\ pc'[t] = "init"
      /\ \A u \in Threads \ {t} : job'[u] = job[u] /\ pc'[u] = pc[u]
  BY DEF TypeInv, JobInv, Freeing, Claims, Blank
<1>b. /\ held'[to] = None
      /\ \A other \in Jumpers \ {to} : held'[other] = held[other]
      /\ held[to] \in ItemsOf(Nodes)
  BY DEF TypeInv
<1>c. \A u \in Threads \ {t} : Freeing(u)' = Freeing(u) /\ Claims(u)' = Claims(u)
  BY <1>a DEF Freeing, Claims
<1>1. TypeInv'
  BY DEF TypeInv, Nodes, ItemsOf, None, Blank, MemoryOK
<1>2. InitInv'
  BY DEF TypeInv, InitInv, JobInv, Freeing, Inside
<1>3. LockInv'
  BY ThreadsAssumption DEF TypeInv, LockInv, InitInv, Inside
<1>4. JobInv'
  BY JumpersAssumption DEF TypeInv, JobInv, InitInv, Freeing, Chosen, Creating, Blank, None
<1>5. ListedInv'
  <2>1. held[to] # None /\ Listed' = Listed
    BY DEF Listed
  <2>2. \A other \in Jumpers : held'[other] # None => held'[other].node \in Listed
    BY <1>b DEF ListedInv
  <2>3. job'[t].item.node \in Listed /\ pc'[t] # "attach"
    BY <1>a, <2>1 DEF ListedInv
  <2>. QED
    BY <1>a, <1>c, <2>1, <2>2, <2>3 DEF ListedInv
<1>6. NearInv'
  BY DEF TypeInv, JobInv, InitInv, NearInv, Chosen, Blank, ItemAddress, None, ItemsOf, Nodes
<1>7. ApartInv'
  BY DEF TypeInv, ApartInv, Nodes
<1>8. ClaimInv'
  <2>. SUFFICES ASSUME NEW i \in ItemsOf(Nodes), ItemAt(i).busy
                PROVE  \/ \E other \in Jumpers : held'[other] = i
                       \/ \E u \in Threads : job'[u].item = i /\ Claims(u)'
    BY DEF ClaimInv, ItemsOf, Nodes, ItemAt
  <2>1. CASE \E other \in Jumpers : held[other] = i
    BY <1>a, <1>b, <2>1
  <2>2. CASE \E u \in Threads : job[u].item = i /\ Claims(u)
    BY <1>a, <1>c, <2>2
  <2>. QED
    BY <2>1, <2>2 DEF ClaimInv
<1>9. NewInv'
  BY DEF TypeInv, InitInv, JobInv, NewInv, Creating, Blank, Freeing, None
<1>10. PersonalInv'
  <2>1. ASSUME NEW other \in Jumpers, held'[other] # None, held'[other].node \notin shared
        PROVE  ItemAt(held[other]).busy /\ ItemAt(held[other]).to = other /\ held'[other] = held[other]
    BY <1>b, <2>1 DEF PersonalInv
  <2>2. ASSUME held[to].node \notin shared
        PROVE  PersonalOf(t)'
    <3>1. ItemAt(held[to]).busy /\ ItemAt(held[to]).to = to
      BY <2>2 DEF PersonalInv
    <3>2. ASSUME NEW other \in Jumpers, held'[other] = held[to]
          PROVE  FALSE
      <4>1. other # to /\ held[other] = held[to]
        BY <1>b, <3>2
      <4>. QED
        BY <2>2, <3>1, <4>1 DEF PersonalInv
    <3>3. ASSUME NEW u \in Threads \ {t}, Claims(u), job[u].item = held[to]
          PROVE  FALSE
      <4>1. PersonalOf(u)
        BY <2>2, <3>3 DEF PersonalInv
      <4>2. ~Freeing(u)
        BY <3>3, <4>1 DEF PersonalOf
      <4>3. pc[u] \in {"leave", "return"}
        BY <3>3, <4>2 DEF Claims
      <4>4. job[u].to = to
        BY <3>1, <3>3, <4>1, <4>3 DEF PersonalOf
      <4>. QED
        BY <4>2, <4>3, <4>4 DEF JobInv
    <3>. QED
      BY <1>a, <1>c, <3>1, <3>2, <3>3 DEF PersonalOf, ItemAt
  <2>3. ASSUME NEW u \in Threads \ {t}, job[u].item # None, job[u].item.node \notin shared
        PROVE  PersonalOf(u)'
    <3>1. PersonalOf(u)
      BY <2>3 DEF PersonalInv
    <3>2. Freeing(u) => \A other \in Jumpers : held'[other] # job[u].item
      BY <1>b, <2>3, <3>1 DEF PersonalOf
    <3>3. Freeing(u) => \A v \in Threads : v # u /\ Claims(v)' => job'[v].item # job[u].item
      BY <1>a, <1>c, <3>1 DEF PersonalOf
    <3>. QED
      BY <1>a, <1>c, <3>1, <3>2, <3>3 DEF PersonalOf, ItemAt
  <2>. QED
    BY <1>a, <2>1, <2>2, <2>3 DEF PersonalInv, ItemAt
<1>. QED
  BY <1>1, <1>2, <1>3, <1>4, <1>5, <1>6, <1>7, <1>8, <1>9, <1>10

---------------------------------------------------------------------------
(* The invariant holds.                                                    *)

LEMMA InitInvariant == Init => Inv
<1>. SUFFICES ASSUME Init
              PROVE  Inv
  OBVIOUS
<1>. USE DEF Init, Blank
<1>1. Nodes = {} /\ Listed = {} /\ ItemsOf(Nodes) = {}
  BY DEF Nodes, Listed, ItemsOf
<1>2. TypeInv
  <2>1. MemoryOK(memory)
    BY MemoriesAssumption DEF MemoryOK
  <2>2. nodes \in Seq([at : 1 .. Space - 1, for : {Home[to] : to \in Jumpers}])
    BY EmptySeq
  <2>3. /\ items \in Seq([1 .. NodeItems -> [busy : BOOLEAN, to : Jumpers \cup {Default}]])
        /\ list \in Seq(Nodes) /\ Len(items) = Len(nodes)
    OBVIOUS
  <2>. QED
    BY <2>1, <2>2, <2>3 DEF TypeInv
<1>3. InitInv
  BY DEF InitInv, Freeing
<1>4. LockInv
  BY ThreadsAssumption DEF LockInv, Inside
<1>5. JobInv
  BY DEF JobInv
<1>6. ListedInv /\ NearInv
  BY DEF ListedInv, NearInv, Freeing, Chosen
<1>7. ApartInv /\ ClaimInv
  BY <1>1 DEF ApartInv, ClaimInv
<1>8. NewInv /\ PersonalInv
  BY DEF NewInv, PersonalInv, Creating
<1>. QED
  BY <1>2, <1>3, <1>4, <1>5, <1>6, <1>7, <1>8 DEF Inv

LEMMA NextInvariant == Inv /\ [Next]_vars => Inv'
<1>. SUFFICES ASSUME Inv, [Next]_vars
              PROVE  Inv'
  OBVIOUS
<1>1. CASE UNCHANGED vars
  <2>. USE <1>1 DEF Inv, vars, globalVars
  <2>1. /\ Nodes' = Nodes /\ ItemsOf(Nodes)' = ItemsOf(Nodes) /\ Listed' = Listed
        /\ \A i : ItemAddress(i)' = ItemAddress(i) /\ ItemAt(i)' = ItemAt(i)
        /\ \A t : (Freeing(t) <=> Freeing(t)') /\ (Claims(t) <=> Claims(t)')
    BY DEF Nodes, ItemsOf, Listed, ItemAddress, ItemAt, Freeing, Claims
  <2>2. TypeInv' /\ InitInv'
    BY <2>1 DEF TypeInv, InitInv
  <2>3. LockInv' /\ JobInv'
    BY <2>1 DEF LockInv, JobInv
  <2>4. ListedInv' /\ NearInv'
    BY <2>1 DEF ListedInv, NearInv
  <2>5. ApartInv' /\ ClaimInv'
    BY <2>1 DEF ApartInv, ClaimInv
  <2>6. NewInv' /\ PersonalInv'
    BY <2>1 DEF NewInv, PersonalInv, PersonalOf
  <2>. QED
    BY <2>2, <2>3, <2>4, <2>5, <2>6
<1>2. ASSUME NEW t \in Threads, NEW to \in Jumpers, Get(t, to) \/ Free(t, to)
      PROVE  Inv'
  BY <1>2, GetStep, FreeStep
<1>3. ASSUME NEW t \in Threads, Step(t)
      PROVE  Inv'
  BY <1>3, InitCheckStep, InitCreateStep, InitDoneStep, EnterStep, PickExistingStep,
     PickNoneStep, WriteCodeStep, WriteStatusStep, LeaveStep, AllocStep, AllocFailsStep,
     AttachStep, PickNewStep, ReturnStep, DestroyStep
  DEF Step
<1>. QED
  BY <1>1, <1>2, <1>3 DEF Next

(* The inductive invariant holds in every reachable state of the router.   *)
THEOREM RouterInvariance == Spec => []Inv
<1>. QED
  BY InitInvariant, NextInvariant, PTL DEF Spec

(* The router's variables keep their types.                                *)
THEOREM RouterTypeCorrect == Spec => []RouterTypeOK
<1>1. Inv => RouterTypeOK
  <2>. SUFFICES ASSUME Inv
                PROVE  RouterTypeOK
    OBVIOUS
  <2>1. ItemsOf(Nodes) \cup {None} \subseteq Item
    BY DEF ItemsOf, Nodes, Item, None
  <2>2. items \in [Nodes -> [1 .. NodeItems -> [busy : BOOLEAN, to : Jumpers \cup {Default}]]]
    BY DEF Inv, TypeInv, Nodes
  <2>3. job \in [Threads -> [kind : {"none", "get", "free"}, to : Jumpers \cup {Default}, item : Item]]
    BY <2>1 DEF Inv, TypeInv
  <2>4. held \in [Jumpers -> Item]
    BY <2>1 DEF Inv, TypeInv
  <2>. QED
    BY <2>2, <2>3, <2>4 DEF Inv, TypeInv, RouterTypeOK, MemoryOK
<1>. QED
  BY RouterInvariance, <1>1, PTL

(* Every route that was got and not freed is found by free_personal, for   *)
(* its node is in the list whichever threads attached theirs meanwhile.    *)
THEOREM RoutesAreListed == Spec => []HeldIsListed
<1>1. Inv => HeldIsListed
  BY DEF Inv, ListedInv, HeldIsListed
<1>. QED
  BY RouterInvariance, <1>1, PTL

(* An item is only busy while somebody has it: what is freed can be got    *)
(* again.                                                                  *)
THEOREM NoItemLeaks == Spec => []NothingLeaks
<1>1. Inv => NothingLeaks
  <2>. SUFFICES ASSUME Inv, NEW n \in Nodes, NEW k \in 1 .. NodeItems, items[n][k].busy
                PROVE  LET i == [node |-> n, index |-> k]
                       IN  \/ \E to \in Jumpers : held[to] = i
                           \/ \E t \in Threads : job[t].item = i
    BY DEF NothingLeaks
  <2>. DEFINE i == [node |-> n, index |-> k]
  <2>1. i \in ItemsOf(Nodes) /\ ItemAt(i).busy
    BY DEF ItemsOf, ItemAt
  <2>. HIDE DEF i
  <2>2. \/ \E to \in Jumpers : held[to] = i
        \/ \E t \in Threads : job[t].item = i
    BY <2>1 DEF Inv, ClaimInv
  <2>. QED
    BY <2>2 DEF i
<1>. QED
  BY RouterInvariance, <1>1, PTL

(* A route leads to its own jumper until it is freed, in every node that   *)
(* no call chose an item of before the one that created it had.            *)
THEOREM RoutesArePersonal == Spec => []RoutePersonalElsewhere
<1>1. Inv => RoutePersonalElsewhere
  <2>. SUFFICES ASSUME Inv, NEW to \in Jumpers, held[to] # None, held[to].node \notin shared
                PROVE  ItemAt(held[to]) = [busy |-> TRUE, to |-> to]
    BY DEF RoutePersonalElsewhere
  <2>1. ItemAt(held[to]).busy /\ ItemAt(held[to]).to = to
    BY DEF Inv, PersonalInv
  <2>2. ItemAt(held[to]) \in [busy : BOOLEAN, to : Jumpers \cup {Default}]
    BY ItemTyped DEF Inv, TypeInv
  <2>. QED
    BY <2>1, <2>2
<1>. QED
  BY RouterInvariance, <1>1, PTL

(* From a procedure, and from the padding before it, a near jump to its    *)
(* route can be built and leads there, however the node of the route came  *)
(* about.                                                                  *)
THEOREM RoutesAreReached == Spec => []JumpsReachRoutes
<1>1. Inv => JumpsReachRoutes
  <2>. SUFFICES ASSUME Inv, NEW to \in Jumpers, held[to] # None,
                       NEW from \in {Home[to] - JumpSize, Home[to]}
                PROVE  /\ Builds(from, CodeAddress(held[to]))
                       /\ Lands(from, CodeAddress(held[to])) = CodeAddress(held[to])
    BY DEF JumpsReachRoutes
  <2>. DEFINE a == ItemAddress(held[to])
              h == Home[to]
  <2>1. held[to] \in ItemsOf(Nodes) /\ IsNear(a, h, ItemSize)
    BY DEF Inv, TypeInv, NearInv
  <2>2. a \in Nat
    BY <2>1, ItemWithin DEF Inv
  <2>3. h \in JumpSize .. Space - 1 /\ h \in 0 .. Space - 1 /\ h \in Int
    BY JumpersAssumption, Sizes
  <2>4. ItemSize \in 0 .. Reach /\ ItemSize > 1
    <3>1. ItemSize \in Nat /\ NodeItems \in Nat \ {0} /\ Header \in Nat /\ ItemSize > 1
          /\ NodeSize <= Reach
      BY SizeAssumption
    <3>2. (NodeItems - 1) * ItemSize \in Nat
      BY <3>1
    <3>3. NodeItems * ItemSize = (NodeItems - 1) * ItemSize + ItemSize
      BY <3>1
    <3>. QED
      BY <3>1, <3>2, <3>3, Sizes DEF NodeSize
  <2>5. a \in 0 .. Space - 1 /\ h - Reach <= a /\ a + ItemSize <= h + Reach
    BY <2>1, <2>2, <2>3, <2>4, NearIs
  <2>. DEFINE c == CodeAddress(held[to])
  <2>6. c = a + 1
    BY DEF CodeAddress
  <2>. HIDE DEF a, h, c
  <2>7. /\ c \in 0 .. Space - 1 /\ from \in Int
        /\ -Half <= c - (from + JumpSize) /\ c - (from + JumpSize) < Half
    <3>1. ItemSize \in Nat /\ a \in Nat /\ h \in Nat
      BY <2>2, <2>3, <2>4, Sizes
    <3>2. a + 1 <= Space - 1
      <4>1. held[to].node \in Nodes
        BY <2>1, ItemIs
      <4>2. nodes[held[to].node].at + NodeSize <= Space
        BY <4>1, NodeTyped, MemoryEnds DEF Inv, TypeInv, ApartInv
      <4>3. a + ItemSize <= nodes[held[to].node].at + NodeSize
        BY <2>1, ItemWithin DEF Inv, a
      <4>. QED
        BY <2>4, <3>1, <4>1, <4>2, <4>3, NodeTyped, NodeSizeNat, Sizes DEF Inv
    <3>3. from = h - JumpSize \/ from = h
      BY DEF h
    <3>. QED
      BY <2>4, <2>5, <2>6, <3>1, <3>2, <3>3, Sizes
  <2>. QED
    <3>1. Builds(from, c) /\ Lands(from, c) = c
      BY <2>7, NearJump
    <3>. QED
      BY <3>1 DEF c
<1>. QED
  BY RouterInvariance, <1>1, PTL

(* Whatever memory the program uses and frees, a route is refused only     *)
(* when there is no room near the procedure for a node.                    *)
THEOREM SearchIsRight == Spec => []SearchFinds
<1>1. Inv => SearchFinds
  <2>. SUFFICES ASSUME Inv, NEW to \in Jumpers
                PROVE  LET a == NodeAlloc(memory, Home[to])
                       IN  IF HasRoom(memory, Home[to])
                           THEN /\ a # NULL
                                /\ IsNear(a, Home[to], NodeSize)
                                /\ \E status \in {"free", "reserved"} :
                                     AllAre(memory, a, NodeSize, status)
                           ELSE a = NULL
    BY DEF SearchFinds
  <2>1. MemoryOK(memory) /\ Home[to] \in 0 .. Space - 1
    BY JumpersAssumption, Sizes DEF Inv, TypeInv
  <2>. QED
    BY <2>1, SearchIsExact, Given
<1>. QED
  BY RouterInvariance, <1>1, PTL

---------------------------------------------------------------------------
(* How many nodes there are.  A call is only allowed a node of its own     *)
(* when all items of the listed nodes near its procedure are busy.         *)

\* The nodes allocated for a procedure, and the calls that are to allocate
\* one for it.
NodesFor(home) == {n \in Nodes : nodes[n].for = home}
Granted(home)  == {u \in Threads : pc[u] = "alloc" /\ Home[job[u].to] = home}

(* A node is near the procedure it was allocated for, and in the list or   *)
(* about to be attached by the call that allocated it.                     *)
PlacedInv ==
  \A n \in Nodes :
    /\ IsNear(nodes[n].at, nodes[n].for, NodeSize)
    /\ \/ n \in Listed
       \/ \E u \in Threads : pc[u] = "attach" /\ job[u].item.node = n

(* The nodes that are to be allocated count as those that were.            *)
CountInv ==
  \A to \in Jumpers :
    NodeItems * (Cardinality(NodesFor(Home[to])) + Cardinality(Granted(Home[to])))
      < Cardinality(Jumpers) + NodeItems * Cardinality(Threads)

(* Every item of a node is near what the node is near.                     *)
LEMMA ItemNear ==
  ASSUME TypeInv, ApartInv, NEW i \in ItemsOf(Nodes), NEW from \in 0 .. Space - 1,
         IsNear(nodes[i.node].at, from, NodeSize)
  PROVE  IsNear(ItemAddress(i), from, ItemSize)
<1>1. PICK a \in Nat, b \in Nat : a = nodes[i.node].at /\ b = ItemAddress(i)
  BY ItemWithin
<1>2. PICK n \in Nat, k \in Nat : n = NodeSize /\ k = ItemSize /\ 0 < k /\ n <= Reach
  BY NodeSizeNat, SizeAssumption
<1>3. a <= b /\ b + k <= a + n
  BY <1>1, <1>2, ItemWithin
<1>4. a + n <= Space
  BY <1>1, <1>2, ItemIs, MemoryEnds DEF TypeInv, ApartInv
<1>5. n \in 0 .. Reach /\ k \in 0 .. Reach
  BY <1>2, <1>3, Sizes
<1>6. /\ Lowest(from) <= a
      /\ a <= IF from + Reach - n < Space THEN from + Reach - n ELSE Space - 1
  BY <1>1, <1>2, <1>5, HighestIs DEF IsNear
<1>7. Lowest(from) \in Nat
  BY LowestIs, Sizes
<1>8. Highest(from, k) = IF from + Reach - k < Space THEN from + Reach - k ELSE Space - 1
  BY <1>5, HighestIs
<1>9. Lowest(from) <= b
  BY <1>3, <1>6, <1>7
<1>10. b <= Highest(from, k)
  BY <1>2, <1>3, <1>4, <1>6, <1>8, Sizes
<1>. QED
  BY <1>1, <1>2, <1>9, <1>10 DEF IsNear

(* The arithmetic of the bound: l nodes are full of the items of fewer     *)
(* than j jumpers and of f threads, and further nodes are of other threads.*)
LEMMA Filled ==
  ASSUME NEW n \in Nat \ {0}, NEW l \in Nat, NEW j \in Nat, NEW f \in Nat, NEW t \in Nat,
         NEW all \in Nat, NEW c \in Nat, c <= t,
         n * l < j + f, all <= l + c, c + f <= t
  PROVE  n * all < j + n * t
<1>1. PICK d \in Nat : d = t - f
  OBVIOUS
<1>2. all <= l + d
  BY <1>1
<1>3. n * all <= n * (l + d)
  BY <1>2
<1>4. n * (l + d) = n * l + n * d
  OBVIOUS
<1>5. n * t = n * d + n * f
  BY <1>1
<1>6. f <= n * f
  OBVIOUS
<1>. QED
  BY <1>3, <1>4, <1>5, <1>6

\* The item is the route of a jumper that is held or being got.
IsFor(i, to) ==
  \/ held[to] = i
  \/ \E u \in Threads : job[u].kind = "get" /\ job[u].to = to /\ job[u].item = i

(* A jumper has one item, and none while the list is looked through for it.*)
LEMMA OneItem ==
  ASSUME TypeInv, JobInv, NEW to \in Jumpers, NEW i, IsFor(i, to), i # None
  PROVE  /\ \A j : IsFor(j, to) /\ j # None => j = i
         /\ \A u \in Threads : pc[u] = "pick" => job[u].to # to
<1>1. ASSUME NEW u \in Threads, job[u].kind = "get", job[u].to = to
      PROVE  /\ held[to] = None
             /\ \A v \in Threads : job[v].to = to => v = u
  BY <1>1 DEF JobInv, Freeing, Blank
<1>2. ASSUME NEW j, IsFor(j, to), j # None
      PROVE  j = i
  BY <1>1, <1>2 DEF IsFor
<1>3. ASSUME NEW u \in Threads, pc[u] = "pick", job[u].to = to
      PROVE  FALSE
  <2>1. job[u].kind = "get" /\ job[u].item = None
    BY <1>3 DEF JobInv, Freeing, Chosen, Creating
  <2>2. held[to] = None /\ \A v \in Threads : job[v].to = to => v = u
    BY <1>1, <1>3, <2>1
  <2>. QED
    BY <2>1, <2>2 DEF IsFor
<1>. QED
  BY <1>2, <1>3

(* So the items that are busy are fewer than the jumpers, but for those    *)
(* that threads are about to free.                                         *)
LEMMA BusyAreFew ==
  ASSUME Inv, IsFiniteSet(Threads), IsFiniteSet(Jumpers),
         NEW t \in Threads, pc[t] = "pick",
         NEW busy \in SUBSET ItemsOf(Nodes), \A i \in busy : ItemAt(i).busy,
         NEW freeing, freeing = {u \in Threads : Freeing(u)}
  PROVE  /\ IsFiniteSet(busy) /\ Cardinality(busy) \in Nat
         /\ Cardinality(busy) < Cardinality(Jumpers) + Cardinality(freeing)
<1>. USE DEF Inv
<1>1. PICK other : other = Jumpers \ {job[t].to}
  OBVIOUS
<1>2. job[t].to \in Jumpers
  BY DEF JobInv, Freeing
<1>3. /\ IsFiniteSet(other) /\ Cardinality(other) = Cardinality(Jumpers) - 1
      /\ Cardinality(other) \in Nat /\ Cardinality(Jumpers) \in Nat
  BY <1>1, <1>2, FS_RemoveElement, FS_CardinalityType
<1>4. IsFiniteSet(freeing) /\ Cardinality(freeing) \in Nat
  BY FS_Subset, FS_CardinalityType
<1>5. PICK own : own = {i \in busy : \E to \in Jumpers : IsFor(i, to)}
  OBVIOUS
<1>6. PICK left : left = busy \ own
  OBVIOUS
<1>7. IsFiniteSet(own) /\ Cardinality(own) <= Cardinality(other)
  <2>1. PICK f : f = [i \in own |-> CHOOSE to \in Jumpers : IsFor(i, to)]
    OBVIOUS
  <2>2. ASSUME NEW i \in own
        PROVE  f[i] \in Jumpers /\ IsFor(i, f[i]) /\ i # None
    BY <1>5, <2>1, ItemIs
  <2>3. ASSUME NEW i \in own
        PROVE  f[i] \in other
    BY <1>1, <2>2, OneItem
  <2>4. ASSUME NEW i \in own, NEW j \in own, f[i] = f[j]
        PROVE  i = j
    BY <2>2, <2>4, OneItem
  <2>5. f \in Injection(own, other)
    BY <2>1, <2>3, <2>4 DEF Injection, IsInjective
  <2>. QED
    BY <1>3, <2>5, FS_Injection
<1>8. IsFiniteSet(left) /\ Cardinality(left) <= Cardinality(freeing)
  <2>1. ASSUME NEW i \in left
        PROVE  \E u \in freeing : job[u].item = i
    <3>1. i \in ItemsOf(Nodes) /\ ItemAt(i).busy /\ \A to \in Jumpers : ~ IsFor(i, to)
      BY <1>5, <1>6
    <3>2. PICK u \in Threads : job[u].item = i /\ Claims(u)
      BY <3>1 DEF ClaimInv, IsFor
    <3>3. CASE pc[u] \in {"leave", "return"}
      <4>1. job[u].kind = "get" /\ job[u].to \in Jumpers
        BY <3>3 DEF JobInv, Freeing
      <4>. QED
        BY <3>1, <3>2, <4>1 DEF IsFor
    <3>. QED
      BY <3>2, <3>3 DEF Claims
  <2>2. PICK f : f = [i \in left |-> CHOOSE u \in freeing : job[u].item = i]
    OBVIOUS
  <2>3. \A i \in left : f[i] \in freeing /\ job[f[i]].item = i
    BY <2>1, <2>2
  <2>4. f \in Injection(left, freeing)
    BY <2>2, <2>3 DEF Injection, IsInjective
  <2>. QED
    BY <1>4, <2>4, FS_Injection
<1>9. busy = own \cup left /\ own \cap left = {}
  BY <1>5, <1>6
<1>10. /\ IsFiniteSet(busy)
       /\ Cardinality(busy) = Cardinality(own) + Cardinality(left)
  <2>1. Cardinality(own \cap left) = 0
    BY <1>9, FS_EmptySet
  <2>2. Cardinality(own) \in Nat /\ Cardinality(left) \in Nat
    BY <1>7, <1>8, FS_CardinalityType
  <2>3. /\ IsFiniteSet(own \cup left)
        /\ Cardinality(own \cup left)
             = Cardinality(own) + Cardinality(left) - Cardinality(own \cap left)
    BY <1>7, <1>8, FS_Union
  <2>. QED
    BY <1>9, <2>1, <2>2, <2>3
<1>11. Cardinality(own) \in Nat /\ Cardinality(left) \in Nat
  BY <1>7, <1>8, FS_CardinalityType
<1>. QED
  BY <1>3, <1>4, <1>7, <1>8, <1>10, <1>11

(* A call that finds all items of the listed nodes busy is allowed one.    *)
LEMMA OneMoreFits ==
  ASSUME Inv, PlacedInv, IsFiniteSet(Threads), IsFiniteSet(Jumpers),
         NEW t \in Threads, PickNone(t),
         NEW home, home = Home[job[t].to],
         NEW granted \in SUBSET Threads, granted \subseteq Granted(home) \cup {t}
  PROVE  NodeItems * (Cardinality(NodesFor(home)) + Cardinality(granted))
           < Cardinality(Jumpers) + NodeItems * Cardinality(Threads)
<1>. USE DEF Inv
<1>1. /\ pc[t] = "pick" /\ job[t].kind = "get" /\ job[t].to \in Jumpers
      /\ home \in 0 .. Space - 1 /\ home \in JumpSize .. Space - 1
  <2>1. pc[t] = "pick" /\ job[t].kind = "get" /\ job[t].to \in Jumpers
    BY DEF PickNone, JobInv, Freeing
  <2>2. Home[job[t].to] \in JumpSize .. Space - 1
    BY <2>1, JumpersAssumption
  <2>. QED
    BY <2>1, <2>2, Sizes
<1>2. PICK listed \in SUBSET Nodes : listed = NodesFor(home) \cap Listed
  BY DEF NodesFor
<1>3. PICK unlisted \in SUBSET Nodes : unlisted = NodesFor(home) \ listed
  BY DEF NodesFor
<1>4. PICK attaching \in SUBSET Threads : attaching = {u \in Threads : pc[u] = "attach"}
  OBVIOUS
<1>5. PICK freeing \in SUBSET Threads : freeing = {u \in Threads : Freeing(u)}
  OBVIOUS
<1>6. /\ IsFiniteSet(listed) /\ Cardinality(listed) \in Nat
      /\ IsFiniteSet(unlisted) /\ Cardinality(unlisted) \in Nat
      /\ IsFiniteSet(1 .. NodeItems) /\ Cardinality(1 .. NodeItems) = NodeItems
      /\ NodeItems \in Nat \ {0}
  <2>1. Len(nodes) \in Nat /\ NodeItems \in Nat \ {0}
    BY SizeAssumption DEF TypeInv
  <2>2. IsFiniteSet(Nodes)
    BY <2>1, FS_Interval DEF Nodes
  <2>3. IsFiniteSet(listed) /\ IsFiniteSet(unlisted)
    BY <2>2, FS_Subset
  <2>4. IsFiniteSet(1 .. NodeItems) /\ Cardinality(1 .. NodeItems) = NodeItems
    BY <2>1, FS_Interval
  <2>. QED
    BY <2>1, <2>3, <2>4, FS_CardinalityType
<1>7. NodeItems * Cardinality(listed) < Cardinality(Jumpers) + Cardinality(freeing)
  <2>1. PICK busy : busy = ItemsOf(listed)
    OBVIOUS
  <2>2. busy \in SUBSET ItemsOf(Nodes)
    BY <1>2, <2>1 DEF ItemsOf
  <2>3. ASSUME NEW i \in busy
        PROVE  ItemAt(i).busy
    <3>1. i \in ItemsOf(Nodes) /\ i.node \in listed
      BY <2>1, <2>2, <2>3 DEF ItemsOf
    <3>2. i \in ItemsOf(Listed) /\ nodes[i.node].for = home
      BY <1>2, <2>1, <2>3, <3>1 DEF ItemsOf, NodesFor
    <3>3. IsNear(nodes[i.node].at, home, NodeSize)
      BY <3>1, <3>2, ItemIs DEF PlacedInv
    <3>4. IsNear(ItemAddress(i), home, ItemSize)
      BY <1>1, <3>1, <3>3, ItemNear
    <3>. QED
      BY <3>2, <3>4 DEF PickNone, FreeItems, ItemAt
  <2>4. Cardinality(busy) = NodeItems * Cardinality(listed)
    <3>1. PICK pairs : pairs = listed \X (1 .. NodeItems)
      OBVIOUS
    <3>2. IsFiniteSet(pairs) /\ Cardinality(pairs) = Cardinality(listed) * NodeItems
      BY <1>6, <3>1, FS_Product
    <3>3. PICK f : f = [p \in pairs |-> [node |-> p[1], index |-> p[2]]]
      OBVIOUS
    <3>4. f \in Bijection(pairs, busy)
      <4>1. \A p \in pairs : f[p] \in busy /\ f[p].node = p[1] /\ f[p].index = p[2]
        BY <2>1, <3>1, <3>3 DEF ItemsOf
      <4>2. \A p, q \in pairs : p[1] = q[1] /\ p[2] = q[2] => p = q
        BY <3>1
      <4>3. \A i \in busy : \E p \in pairs : f[p] = i
        <5>1. ASSUME NEW i \in busy
              PROVE  \E p \in pairs : f[p] = i
          <6>1. i.node \in listed /\ i.index \in 1 .. NodeItems
                /\ i = [node |-> i.node, index |-> i.index]
            BY <2>1, <5>1 DEF ItemsOf
          <6>2. PICK p \in pairs : p = <<i.node, i.index>>
            BY <3>1, <6>1
          <6>3. f[p] = i
            BY <3>3, <6>1, <6>2
          <6>. QED
            BY <6>3
        <5>. QED
          BY <5>1
      <4>4. f \in [pairs -> busy]
        BY <3>3, <4>1
      <4>5. \A p, q \in pairs : f[p] = f[q] => p = q
        BY <4>1, <4>2
      <4>6. f \in Injection(pairs, busy)
        BY <4>4, <4>5 DEF Injection, IsInjective
      <4>7. f \in Surjection(pairs, busy)
        BY <4>3, <4>4 DEF Surjection
      <4>. QED
        BY <4>6, <4>7 DEF Bijection
    <3>5. ExistsBijection(pairs, busy)
      BY <3>4 DEF ExistsBijection
    <3>6. Cardinality(busy) = Cardinality(pairs)
      BY <3>2, <3>5, FS_Bijection
    <3>. QED
      BY <1>6, <3>2, <3>6
  <2>5. Cardinality(busy) < Cardinality(Jumpers) + Cardinality(freeing)
    BY <1>1, <1>5, <2>2, <2>3, BusyAreFew
  <2>. QED
    BY <2>4, <2>5
<1>8. Cardinality(unlisted) <= Cardinality(attaching)
  <2>1. \A n \in unlisted : \E u \in attaching : job[u].item.node = n
    BY <1>2, <1>3, <1>4 DEF PlacedInv
  <2>2. PICK f : f = [n \in unlisted |-> CHOOSE u \in attaching : job[u].item.node = n]
    OBVIOUS
  <2>3. \A n \in unlisted : f[n] \in attaching /\ job[f[n]].item.node = n
    BY <2>1, <2>2
  <2>4. f \in Injection(unlisted, attaching)
    BY <2>2, <2>3 DEF Injection, IsInjective
  <2>5. IsFiniteSet(attaching)
    BY FS_Subset
  <2>. QED
    BY <2>4, <2>5, FS_Injection
<1>9. Cardinality(NodesFor(home)) = Cardinality(listed) + Cardinality(unlisted)
  <2>1. NodesFor(home) = listed \cup unlisted /\ listed \cap unlisted = {}
    BY <1>2, <1>3
  <2>2. Cardinality(listed \cap unlisted) = 0
    BY <2>1, FS_EmptySet
  <2>3. Cardinality(listed \cup unlisted)
          = Cardinality(listed) + Cardinality(unlisted) - Cardinality(listed \cap unlisted)
    BY <1>6, FS_Union
  <2>. QED
    BY <1>6, <2>1, <2>2, <2>3
<1>10. /\ Cardinality(attaching) + Cardinality(granted) + Cardinality(freeing)
            <= Cardinality(Threads)
       /\ Cardinality(attaching) \in Nat /\ Cardinality(granted) \in Nat
       /\ Cardinality(freeing) \in Nat /\ Cardinality(Threads) \in Nat
       /\ Cardinality(Jumpers) \in Nat
  <2>1. PICK both : both = attaching \cup granted
    OBVIOUS
  <2>2. PICK three : three = both \cup freeing
    OBVIOUS
  <2>3. IsFiniteSet(attaching) /\ IsFiniteSet(granted) /\ IsFiniteSet(freeing)
    BY FS_Subset
  <2>4. both \in SUBSET Threads /\ three \in SUBSET Threads
    BY <2>1, <2>2
  <2>5. IsFiniteSet(both) /\ IsFiniteSet(three) /\ Cardinality(three) <= Cardinality(Threads)
    BY <2>4, FS_Subset
  <2>6. attaching \cap granted = {}
    BY <1>1, <1>4 DEF Granted
  <2>7. both \cap freeing = {}
    <3>1. \A u \in freeing : pc[u] \in {"init", "free"}
      BY <1>5 DEF JobInv, Freeing, Blank
    <3>. QED
      BY <1>1, <1>4, <2>1, <3>1 DEF Granted
  <2>8. Cardinality(attaching \cap granted) = 0 /\ Cardinality(both \cap freeing) = 0
    BY <2>6, <2>7, FS_EmptySet
  <2>9. Cardinality(both)
          = Cardinality(attaching) + Cardinality(granted) - Cardinality(attaching \cap granted)
    BY <2>1, <2>3, FS_Union
  <2>10. Cardinality(three)
           = Cardinality(both) + Cardinality(freeing) - Cardinality(both \cap freeing)
    BY <2>2, <2>3, <2>5, FS_Union
  <2>11. /\ Cardinality(attaching) \in Nat /\ Cardinality(granted) \in Nat
         /\ Cardinality(freeing) \in Nat /\ Cardinality(Threads) \in Nat
         /\ Cardinality(Jumpers) \in Nat
    BY <2>3, FS_CardinalityType
  <2>. QED
    BY <2>5, <2>8, <2>9, <2>10, <2>11
<1>11. PICK n \in Nat \ {0}, l \in Nat, j \in Nat, f \in Nat, m \in Nat, all \in Nat, c \in Nat :
         /\ n = NodeItems /\ l = Cardinality(listed) /\ j = Cardinality(Jumpers)
         /\ f = Cardinality(freeing) /\ m = Cardinality(Threads)
         /\ all = Cardinality(NodesFor(home)) + Cardinality(granted)
         /\ c = Cardinality(attaching) + Cardinality(granted)
  <2>1. Cardinality(NodesFor(home)) + Cardinality(granted) \in Nat
    BY <1>6, <1>9, <1>10
  <2>2. Cardinality(attaching) + Cardinality(granted) \in Nat
    BY <1>10
  <2>. QED
    BY <1>6, <1>10, <2>1, <2>2
<1>12. n * l < j + f /\ all <= l + c /\ c + f <= m /\ c <= m
  <2>1. n * l < j + f
    BY <1>7, <1>11
  <2>2. PICK a \in Nat, g \in Nat, x \in Nat :
          /\ a = Cardinality(attaching) /\ g = Cardinality(granted)
          /\ x = Cardinality(unlisted)
    BY <1>6, <1>10
  <2>3. c = a + g /\ a + g + f <= m
    BY <1>10, <1>11, <2>2
  <2>4. all = l + x + g /\ x <= a
    BY <1>8, <1>9, <1>11, <2>2
  <2>5. all <= l + c /\ c + f <= m /\ c <= m
    BY <2>3, <2>4
  <2>. QED
    BY <2>1, <2>5
<1>13. n * all < j + n * m
  BY <1>12, Filled
<1>. QED
  BY <1>11, <1>13

(* The nodes for a procedure are finitely many.                            *)
LEMMA NodesForFinite ==
  ASSUME TypeInv, NEW home
  PROVE  IsFiniteSet(NodesFor(home)) /\ Cardinality(NodesFor(home)) \in Nat
<1>1. Len(nodes) \in Nat
  BY DEF TypeInv
<1>2. IsFiniteSet(Nodes)
  BY <1>1, FS_Interval DEF Nodes
<1>3. NodesFor(home) \in SUBSET Nodes
  BY DEF NodesFor
<1>. QED
  BY <1>2, <1>3, FS_Subset, FS_CardinalityType

(* With fewer calls that are to allocate a node there are no more.          *)
LEMMA FewerGranted ==
  ASSUME TypeInv, IsFiniteSet(Threads), NEW home, NEW fewer \in SUBSET Granted(home), NEW bound \in Nat,
         NodeItems * (Cardinality(NodesFor(home)) + Cardinality(Granted(home))) < bound
  PROVE  NodeItems * (Cardinality(NodesFor(home)) + Cardinality(fewer)) < bound
<1>1. /\ IsFiniteSet(Granted(home)) /\ Cardinality(Granted(home)) \in Nat
      /\ IsFiniteSet(fewer) /\ Cardinality(fewer) \in Nat
      /\ Cardinality(fewer) <= Cardinality(Granted(home))
  <2>1. IsFiniteSet(Granted(home))
    BY FS_Subset DEF Granted
  <2>. QED
    BY <2>1, FS_Subset, FS_CardinalityType
<1>2. Cardinality(NodesFor(home)) \in Nat
  BY NodesForFinite
<1>3. PICK n \in Nat, a \in Nat, b \in Nat, c \in Nat :
        /\ n = NodeItems /\ a = Cardinality(NodesFor(home)) /\ b = Cardinality(Granted(home))
        /\ c = Cardinality(fewer) /\ c <= b
  BY <1>1, <1>2, SizeAssumption
<1>4. n * (a + c) <= n * (a + b)
  BY <1>3
<1>5. n * (a + b) < bound
  BY <1>3
<1>6. n * (a + c) < bound
  <2>1. n * (a + c) \in Nat /\ n * (a + b) \in Nat
    OBVIOUS
  <2>. QED
    BY <1>4, <1>5, <2>1
<1>. QED
  BY <1>3, <1>6

(* The bound is a number.                                                  *)
LEMMA BoundIs ==
  ASSUME IsFiniteSet(Threads), IsFiniteSet(Jumpers)
  PROVE  /\ Cardinality(Jumpers) + NodeItems * Cardinality(Threads) \in Nat
         /\ Cardinality(Jumpers) \in Nat /\ Cardinality(Threads) \in Nat
<1>1. Cardinality(Jumpers) \in Nat /\ Cardinality(Threads) \in Nat
  BY FS_CardinalityType
<1>. QED
  BY <1>1, SizeAssumption

(* What has the same nodes in the same list, and allows no call one more,  *)
(* keeps the bound.                                                        *)
LEMMA BoundKept ==
  ASSUME TypeInv, PlacedInv, CountInv, IsFiniteSet(Threads), IsFiniteSet(Jumpers),
         nodes' = nodes, list' = list,
         \A u \in Threads : /\ pc[u] = "attach" => pc'[u] = "attach" /\ job'[u] = job[u]
                            /\ pc'[u] = "alloc" => pc[u] = "alloc" /\ job'[u] = job[u]
  PROVE  PlacedInv' /\ CountInv'
<1>1. PlacedInv'
  <2>1. Nodes' = Nodes /\ Listed' = Listed
    BY DEF Nodes, Listed
  <2>. QED
    BY <2>1 DEF PlacedInv
<1>2. ASSUME NEW to \in Jumpers
      PROVE  NodeItems * (Cardinality(NodesFor(Home[to])') + Cardinality(Granted(Home[to])'))
               < Cardinality(Jumpers) + NodeItems * Cardinality(Threads)
  <2>1. NodesFor(Home[to])' = NodesFor(Home[to])
    BY DEF NodesFor, Nodes
  <2>2. Granted(Home[to])' \in SUBSET Granted(Home[to])
    BY DEF Granted
  <2>3. PICK bound \in Nat : bound = Cardinality(Jumpers) + NodeItems * Cardinality(Threads)
    BY BoundIs
  <2>4. NodeItems * (Cardinality(NodesFor(Home[to])) + Cardinality(Granted(Home[to]))) < bound
    BY <1>2, <2>3 DEF CountInv
  <2>. QED
    BY <2>1, <2>2, <2>3, <2>4, FewerGranted
<1>. QED
  BY <1>1, <1>2 DEF CountInv

(* What PickNone allows a call is covered by the items that are busy.      *)
LEMMA PickNoneKeepsBound ==
  ASSUME Inv, PlacedInv, CountInv, IsFiniteSet(Threads), IsFiniteSet(Jumpers),
         NEW t \in Threads, PickNone(t)
  PROVE  PlacedInv' /\ CountInv'
<1>. USE DEF Inv
<1>1. /\ Nodes' = Nodes /\ Listed' = Listed /\ nodes' = nodes /\ job' = job
      /\ \A u \in Threads : pc'[u] = IF u = t THEN "alloc" ELSE pc[u]
      /\ pc[t] = "pick"
  BY DEF PickNone, Goto, TypeInv, Nodes, Listed
<1>2. PlacedInv'
  BY <1>1 DEF PlacedInv
<1>3. ASSUME NEW to \in Jumpers
      PROVE  NodeItems * (Cardinality(NodesFor(Home[to])') + Cardinality(Granted(Home[to])'))
               < Cardinality(Jumpers) + NodeItems * Cardinality(Threads)
  <2>1. NodesFor(Home[to])' = NodesFor(Home[to])
    BY <1>1 DEF NodesFor
  <2>2. CASE Home[job[t].to] = Home[to]
    <3>1. /\ Granted(Home[to])' \in SUBSET Threads
          /\ Granted(Home[to])' \subseteq Granted(Home[to]) \cup {t}
      BY <1>1 DEF Granted
    <3>. QED
      BY <2>1, <2>2, <3>1, OneMoreFits
  <2>3. CASE Home[job[t].to] # Home[to]
    <3>1. Granted(Home[to])' \in SUBSET Granted(Home[to])
      BY <1>1, <2>3 DEF Granted
    <3>2. PICK bound \in Nat : bound = Cardinality(Jumpers) + NodeItems * Cardinality(Threads)
      BY BoundIs
    <3>3. NodeItems * (Cardinality(NodesFor(Home[to])) + Cardinality(Granted(Home[to]))) < bound
      BY <1>3, <3>2 DEF CountInv
    <3>. QED
      BY <2>1, <3>1, <3>2, <3>3, FewerGranted
  <2>. QED
    BY <2>2, <2>3
<1>. QED
  BY <1>2, <1>3 DEF CountInv

(* A node that is allocated was allowed.                                   *)
LEMMA AllocKeepsBound ==
  ASSUME Inv, PlacedInv, CountInv, IsFiniteSet(Threads), IsFiniteSet(Jumpers),
         NEW t \in Threads, Alloc(t)
  PROVE  PlacedInv' /\ CountInv'
<1>. USE DEF Inv
<1>1. job[t].kind = "get" /\ job[t].to \in Jumpers /\ pc[t] = "alloc"
  BY DEF Alloc, JobInv, Freeing
<1>2. PICK home : home = Home[job[t].to] /\ home \in 0 .. Space - 1
  <2>1. Home[job[t].to] \in JumpSize .. Space - 1
    BY <1>1, JumpersAssumption
  <2>. QED
    BY <2>1, Sizes
<1>3. PICK a : a = NodeAlloc(memory, home) /\ a # NULL
               /\ nodes' = Append(nodes, [at |-> a, for |-> home])
  BY <1>2 DEF Alloc
<1>4. IsNear(a, home, NodeSize)
  BY <1>2, <1>3, Given DEF TypeInv
<1>5. PICK l \in Nat : l = Len(nodes)
  BY DEF TypeInv
<1>6. /\ Nodes' = Nodes \cup {l + 1} /\ l + 1 \notin Nodes
      /\ \A n \in Nodes : nodes'[n] = nodes[n]
      /\ nodes'[l + 1] = [at |-> a, for |-> home]
  BY <1>3, <1>5 DEF Nodes, TypeInv
<1>7. /\ \A u \in Threads : pc'[u] = IF u = t THEN "attach" ELSE pc[u]
      /\ \A u \in Threads : u # t => job'[u] = job[u]
      /\ job'[t].item.node = l + 1
      /\ list' = list
  BY <1>5 DEF Alloc, Goto, TypeInv
<1>8. PlacedInv'
  <2>1. Listed' = Listed
    BY <1>7 DEF Listed
  <2>2. ASSUME NEW n \in Nodes
        PROVE  /\ IsNear(nodes'[n].at, nodes'[n].for, NodeSize)
               /\ \/ n \in Listed'
                  \/ \E u \in Threads : pc'[u] = "attach" /\ job'[u].item.node = n
    BY <1>1, <1>6, <1>7, <2>1, <2>2 DEF PlacedInv
  <2>3. /\ IsNear(nodes'[l + 1].at, nodes'[l + 1].for, NodeSize)
        /\ pc'[t] = "attach" /\ job'[t].item.node = l + 1
    BY <1>4, <1>6, <1>7
  <2>. QED
    BY <1>6, <2>2, <2>3 DEF PlacedInv
<1>9. ASSUME NEW to \in Jumpers
      PROVE  NodeItems * (Cardinality(NodesFor(Home[to])') + Cardinality(Granted(Home[to])'))
               < Cardinality(Jumpers) + NodeItems * Cardinality(Threads)
  <2>1. CASE Home[to] # home
    <3>1. NodesFor(Home[to])' = NodesFor(Home[to])
      BY <1>6, <2>1 DEF NodesFor
    <3>2. Granted(Home[to])' \in SUBSET Granted(Home[to])
      BY <1>7 DEF Granted
    <3>3. PICK bound \in Nat : bound = Cardinality(Jumpers) + NodeItems * Cardinality(Threads)
      BY BoundIs
    <3>4. NodeItems * (Cardinality(NodesFor(Home[to])) + Cardinality(Granted(Home[to]))) < bound
      BY <1>9, <3>3 DEF CountInv
    <3>. QED
      BY <3>1, <3>2, <3>3, <3>4, FewerGranted
  <2>2. CASE Home[to] = home
    <3>1. /\ NodesFor(home)' = NodesFor(home) \cup {l + 1} /\ l + 1 \notin NodesFor(home)
      BY <1>6 DEF NodesFor
    <3>2. Granted(home)' = Granted(home) \ {t} /\ t \in Granted(home)
      BY <1>1, <1>2, <1>7 DEF Granted
    <3>3. /\ IsFiniteSet(Granted(home)) /\ Cardinality(Granted(home)) \in Nat
      <4>1. Granted(home) \in SUBSET Threads
        BY DEF Granted
      <4>. QED
        BY <4>1, FS_Subset, FS_CardinalityType
    <3>4. IsFiniteSet(NodesFor(home)) /\ Cardinality(NodesFor(home)) \in Nat
      BY NodesForFinite
    <3>5. Cardinality(NodesFor(home)') = Cardinality(NodesFor(home)) + 1
      BY <3>1, <3>4, FS_AddElement
    <3>6. Cardinality(Granted(home)') = Cardinality(Granted(home)) - 1
      BY <3>2, <3>3, FS_RemoveElement
    <3>7. Cardinality(NodesFor(home)') + Cardinality(Granted(home)')
            = Cardinality(NodesFor(home)) + Cardinality(Granted(home))
      BY <3>3, <3>4, <3>5, <3>6
    <3>. QED
      BY <1>9, <2>2, <3>7 DEF CountInv
  <2>. QED
    BY <2>1, <2>2
<1>. QED
  BY <1>8, <1>9 DEF CountInv

(* A node that is attached is in the list, which loses none.               *)
LEMMA AttachKeepsBound ==
  ASSUME Inv, PlacedInv, CountInv, IsFiniteSet(Threads), IsFiniteSet(Jumpers),
         NEW t \in Threads, Attach(t)
  PROVE  PlacedInv' /\ CountInv'
<1>. USE DEF Inv
<1>1. /\ Nodes' = Nodes /\ nodes' = nodes /\ job' = job
      /\ \A u \in Threads : pc'[u] = IF u = t THEN "picknew" ELSE pc[u]
      /\ list' = Append(list, job[t].item.node)
  BY DEF Attach, Goto, TypeInv, Nodes
<1>2. Listed \cup {job[t].item.node} \subseteq Listed'
  <2>1. PICK l \in Nat : l = Len(list) /\ Len(list') = l + 1
    BY <1>1 DEF TypeInv
  <2>2. list'[l + 1] = job[t].item.node /\ \A k \in 1 .. l : list'[k] = list[k]
    BY <1>1, <2>1 DEF TypeInv
  <2>3. l + 1 \in 1 .. l + 1 /\ \A k \in 1 .. l : k \in 1 .. l + 1
    OBVIOUS
  <2>. QED
    BY <2>1, <2>2, <2>3 DEF Listed
<1>3. PlacedInv'
  BY <1>1, <1>2 DEF PlacedInv
<1>4. ASSUME NEW to \in Jumpers
      PROVE  NodeItems * (Cardinality(NodesFor(Home[to])') + Cardinality(Granted(Home[to])'))
               < Cardinality(Jumpers) + NodeItems * Cardinality(Threads)
  <2>1. NodesFor(Home[to])' = NodesFor(Home[to])
    BY <1>1 DEF NodesFor
  <2>2. Granted(Home[to])' \in SUBSET Granted(Home[to])
    BY <1>1 DEF Granted
  <2>3. PICK bound \in Nat : bound = Cardinality(Jumpers) + NodeItems * Cardinality(Threads)
    BY BoundIs
  <2>4. NodeItems * (Cardinality(NodesFor(Home[to])) + Cardinality(Granted(Home[to]))) < bound
    BY <1>4, <2>3 DEF CountInv
  <2>. QED
    BY <2>1, <2>2, <2>3, <2>4, FewerGranted
<1>. QED
  BY <1>3, <1>4 DEF CountInv

(* The steps that neither allow a node nor allocate or attach one.         *)
LEMMA OthersKeepBound ==
  ASSUME Inv, PlacedInv, CountInv, IsFiniteSet(Threads), IsFiniteSet(Jumpers),
         NEW t \in Threads,
         \/ \E to \in Jumpers : Get(t, to) \/ Free(t, to)
         \/ InitCheck(t) \/ InitCreate(t) \/ InitDone(t)
         \/ Enter(t) \/ PickExisting(t) \/ WriteCode(t) \/ WriteStatus(t) \/ Leave(t)
         \/ AllocFails(t) \/ PickNew(t) \/ Return(t) \/ Destroy(t)
  PROVE  PlacedInv' /\ CountInv'
<1>. USE DEF Inv
<1>1. /\ nodes' = nodes /\ pc[t] # "attach" /\ pc'[t] \notin {"alloc", "attach"}
      /\ \A u \in Threads : u # t => pc'[u] = pc[u] /\ job'[u] = job[u]
  <2>1. CASE \E to \in Jumpers : Get(t, to) \/ Free(t, to)
    BY <2>1 DEF Get, Free, Goto, TypeInv, globalVars
  <2>2. CASE InitCheck(t) \/ InitCreate(t) \/ InitDone(t)
    BY <2>2 DEF InitCheck, InitCreate, InitDone, Begun, Goto, TypeInv, globalVars
  <2>3. CASE Enter(t) \/ PickExisting(t) \/ Leave(t)
    BY <2>3 DEF Enter, PickExisting, Leave, Choose, Goto, TypeInv, globalVars
  <2>4. CASE WriteCode(t) \/ WriteStatus(t)
    BY <2>4 DEF WriteCode, WriteStatus, Goto, TypeInv, globalVars
  <2>5. CASE AllocFails(t) \/ Return(t) \/ Destroy(t)
    BY <2>5 DEF AllocFails, Return, Destroy, Finish, Goto, TypeInv, globalVars
  <2>6. CASE PickNew(t)
    BY <2>6 DEF PickNew, Choose, Finish, Goto, TypeInv, globalVars
  <2>. QED
    BY <2>1, <2>2, <2>3, <2>4, <2>5, <2>6
<1>2. CASE InitCreate(t)
  <2>1. nodes = << >> /\ Nodes = {}
    BY <1>2 DEF InitCreate, InitInv, Nodes
  <2>2. PlacedInv'
    BY <1>1, <2>1 DEF PlacedInv, Nodes
  <2>3. ASSUME NEW to \in Jumpers
        PROVE  NodeItems * (Cardinality(NodesFor(Home[to])') + Cardinality(Granted(Home[to])'))
                 < Cardinality(Jumpers) + NodeItems * Cardinality(Threads)
    <3>1. NodesFor(Home[to])' = NodesFor(Home[to])
      BY <1>1 DEF NodesFor, Nodes
    <3>2. Granted(Home[to])' \in SUBSET Granted(Home[to])
      BY <1>1 DEF Granted
    <3>3. PICK bound \in Nat : bound = Cardinality(Jumpers) + NodeItems * Cardinality(Threads)
      BY BoundIs
    <3>4. NodeItems * (Cardinality(NodesFor(Home[to])) + Cardinality(Granted(Home[to]))) < bound
      BY <2>3, <3>3 DEF CountInv
    <3>. QED
      BY <3>1, <3>2, <3>3, <3>4, FewerGranted
  <2>. QED
    BY <2>2, <2>3 DEF CountInv
<1>3. CASE ~ InitCreate(t)
  <2>1. list' = list
    BY <1>3 DEF Get, Free, InitCheck, InitDone, Enter, PickExisting, WriteCode, WriteStatus,
                Leave, AllocFails, PickNew, Return, Destroy, globalVars
  <2>. QED
    BY <1>1, <2>1, BoundKept
<1>. QED
  BY <1>2, <1>3

\* The invariant with the count of nodes.
BoundInv == Inv /\ PlacedInv /\ CountInv

(* It holds in every reachable state, if threads and jumpers are finitely  *)
(* many.                                                                   *)
LEMMA BoundInvariance ==
  ASSUME IsFiniteSet(Threads), IsFiniteSet(Jumpers)
  PROVE  Spec => []BoundInv
<1>1. Init => BoundInv
  <2>. SUFFICES ASSUME Init
                PROVE  BoundInv
    OBVIOUS
  <2>1. Nodes = {} /\ \A u \in Threads : pc[u] = "idle"
    BY DEF Init, Nodes
  <2>2. PlacedInv
    BY <2>1 DEF PlacedInv
  <2>3. ASSUME NEW to \in Jumpers
        PROVE  NodeItems * (Cardinality(NodesFor(Home[to])) + Cardinality(Granted(Home[to])))
                 < Cardinality(Jumpers) + NodeItems * Cardinality(Threads)
    <3>1. NodesFor(Home[to]) = {} /\ Granted(Home[to]) = {}
      BY <2>1 DEF NodesFor, Granted
    <3>2. Cardinality(NodesFor(Home[to])) = 0 /\ Cardinality(Granted(Home[to])) = 0
      BY <3>1, FS_EmptySet
    <3>3. PICK n \in Nat, j \in Nat, m \in Nat :
            n = NodeItems /\ j = Cardinality(Jumpers) /\ m = Cardinality(Threads)
      BY BoundIs, SizeAssumption
    <3>4. j # 0
      BY <2>3, <3>3, FS_EmptySet
    <3>5. n * (0 + 0) < j + n * m
      <4>1. n * m \in Nat
        OBVIOUS
      <4>. QED
        BY <3>4, <4>1
    <3>. QED
      BY <3>2, <3>3, <3>5
  <2>. QED
    BY <2>2, <2>3, InitInvariant DEF BoundInv, CountInv
<1>2. BoundInv /\ [Next]_vars => BoundInv'
  <2>. SUFFICES ASSUME BoundInv, [Next]_vars
                PROVE  BoundInv'
    OBVIOUS
  <2>. USE DEF BoundInv
  <2>1. Inv'
    BY NextInvariant
  <2>2. CASE UNCHANGED vars
    <3>1. /\ nodes' = nodes /\ list' = list /\ pc' = pc /\ job' = job
      BY <2>2 DEF vars, globalVars
    <3>. QED
      BY <2>1, <3>1, BoundKept DEF Inv
  <2>3. ASSUME NEW t \in Threads,
               \/ \E to \in Jumpers : Get(t, to) \/ Free(t, to)
               \/ Step(t)
        PROVE  PlacedInv' /\ CountInv'
    BY <2>3, OthersKeepBound, PickNoneKeepsBound, AllocKeepsBound, AttachKeepsBound DEF Step
  <2>. QED
    BY <2>1, <2>2, <2>3 DEF Next
<1>. QED
  BY <1>1, <1>2, PTL DEF Spec

(* Nodes are never given back, but do not pile up: for a procedure there   *)
(* are never more than the routes in use fill, and one for each thread.    *)
THEOREM NodesAreBounded ==
  ASSUME IsFiniteSet(Threads), IsFiniteSet(Jumpers)
  PROVE  Spec => []NodesBound
<1>1. BoundInv => NodesBound
  <2>. SUFFICES ASSUME BoundInv, NEW to \in Jumpers
                PROVE  NodeItems * Cardinality({n \in Nodes : nodes[n].for = Home[to]})
                         < Cardinality(Jumpers) + NodeItems * Cardinality(Threads)
    BY DEF NodesBound
  <2>1. IsFiniteSet({}) /\ {} \in SUBSET Granted(Home[to]) /\ Cardinality({}) = 0
    BY FS_EmptySet
  <2>2. PICK bound \in Nat : bound = Cardinality(Jumpers) + NodeItems * Cardinality(Threads)
    BY BoundIs
  <2>3. NodeItems * (Cardinality(NodesFor(Home[to])) + Cardinality(Granted(Home[to]))) < bound
    BY <2>2 DEF BoundInv, CountInv
  <2>4. NodeItems * (Cardinality(NodesFor(Home[to])) + Cardinality({})) < bound
    BY <2>1, <2>3, FewerGranted DEF BoundInv, Inv
  <2>5. Cardinality(NodesFor(Home[to])) \in Nat
    BY NodesForFinite DEF BoundInv, Inv
  <2>. QED
    BY <2>1, <2>2, <2>4, <2>5 DEF NodesFor
<1>. QED
  BY <1>1, BoundInvariance, PTL
===========================================================================
