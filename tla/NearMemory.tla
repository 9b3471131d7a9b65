---------------------------- MODULE NearMemory ----------------------------
(***************************************************************************)
(* Addresses near a procedure: how far a near jump goes                    *)
(* (src/hook/spliceplaces64.cpp), and where the router finds memory for a  *)
(* node (src/hook/splicerouter64.cpp).  Addresses are numbers below Space  *)
(* and wrap around as those of 64 bits do; memory is a function from the   *)
(* pages a program has to "free", "reserved" or "used".                    *)
(***************************************************************************)
EXTENDS Integers

CONSTANTS
  Space,      \* addresses: 2^64
  Half,       \* a near jump goes back by as much: 2^31
  Reach,      \* what the router takes for near: 0x7FFFFFF0
  JumpSize,   \* bytes of a near jump: 5
  Page,       \* 0x1000
  Granule,    \* what the system aligns reserved memory to: 0x10000
  Header,     \* of a node, before its items
  ItemSize,   \* of an item: its status, then its code
  NodeItems   \* items of a node: 256

NULL == 0

NodeSize == Header + NodeItems * ItemSize

ASSUME ReachAssumption == /\ {Space, Half, Reach, JumpSize} \subseteq Nat \ {0}
                          /\ Reach + JumpSize <= Half
                          /\ 4 * Half <= Space /\ Space % (2 * Half) = 0
ASSUME SizeAssumption  == /\ {Page, Granule, Header, ItemSize, NodeItems} \subseteq Nat \ {0}
                          /\ Granule % Page = 0 /\ Space % Granule = 0
                          /\ ItemSize > 1 /\ NodeSize <= Reach

---------------------------------------------------------------------------
(* What is near: size bytes from an address on.                            *)

Lowest(from) ==
  LET a == (from - Reach) % Space IN IF a > from THEN 0 ELSE a

\* Variant: as if the offset of a jump had no sign.
HighestUnsigned(from, size) ==
  LET z == (from + Half + Reach - size) % Space IN IF z < from THEN Space - 1 ELSE z

Highest(from, size) ==
  LET z == (from + Reach - size) % Space IN IF z < from THEN Space - 1 ELSE z

IsNear(a, from, size) == Lowest(from) <= a /\ a <= Highest(from, size)

---------------------------------------------------------------------------
(* The near jump.  The upper half of the offset must be all zeros or all   *)
(* ones; the sign of the lower half is not looked at.                      *)

Offset(from, to) == (to - (from + JumpSize)) % Space

Builds(from, to) ==
  LET upper == Offset(from, to) \div (2 * Half)
  IN  upper = 0 \/ upper = Space \div (2 * Half) - 1

\* Where a processor goes that extends the sign of the lower half.
Lands(from, to) ==
  LET lower == Offset(from, to) % (2 * Half)
  IN  (from + JumpSize + (IF lower < Half THEN lower ELSE lower - 2 * Half)) % Space

---------------------------------------------------------------------------
(* The search for memory for a node.                                       *)

PageOf(a) == a \div Page

Touched(a, size) == PageOf(a) .. PageOf(a + size - 1)

AllAre(memory, a, size, status) ==
  \A p \in Touched(a, size) : p \in DOMAIN memory /\ memory[p] = status

\* The system commits pages that are reserved where it is asked to, and
\* reserves free ones from the beginning of a granule on.
MemallocAddress(memory, a) ==
  LET base == a - (a % Granule)
  IN  CASE AllAre(memory, a, NodeSize, "reserved") -> a
        [] AllAre(memory, base, a + NodeSize - base, "free") -> base
        [] OTHER -> NULL

\* Variant: only the beginning of what is unused is tried.
UnusedStarts(memory, from) ==
  {p \in DOMAIN memory :
     /\ memory[p] # "used"
     /\ AllAre(memory, p * Page, NodeSize, memory[p])
     /\ p - 1 \in DOMAIN memory => memory[p - 1] # memory[p]}

\* The pages of what is unused that have room for a node.
UnusedPages(memory, from) ==
  {p \in DOMAIN memory :
     /\ memory[p] # "used"
     /\ AllAre(memory, p * Page, NodeSize, memory[p])
     /\ (p + 1) * Page > Lowest(from)}

\* The page is near, and so is what the system gives for it.
NodeAllocAddress(memory, from, p) ==
  LET a == MemallocAddress(memory, p * Page)
  IN  IF a # NULL /\ \A x \in {p * Page, a} : IsNear(x, from, NodeSize) THEN a ELSE NULL

\* Pages are tried upwards, and what is given for one is never below what
\* is given for an earlier one.
NodeAlloc(memory, from) ==
  LET given == {NodeAllocAddress(memory, from, p) : p \in UnusedPages(memory, from)} \ {NULL}
  IN  IF given = {} THEN NULL ELSE CHOOSE a \in given : \A b \in given : a <= b

Taken(memory, a) ==
  [p \in DOMAIN memory |-> IF p \in Touched(a, NodeSize) THEN "used" ELSE memory[p]]

\* The reference: somewhere a node has room, in whole granules or in
\* reserved pages, all of it near.
HasRoom(memory, from) ==
  \E a \in 1 .. Space - 1 :
    /\ IsNear(a, from, NodeSize)
    /\ \/ a % Granule = 0 /\ AllAre(memory, a, NodeSize, "free")
       \/ a % Page = 0 /\ AllAre(memory, a, NodeSize, "reserved")
===========================================================================
