------------------------ MODULE SplicePlacesProofs ------------------------
(***************************************************************************)
(* Theorems about SplicePlaces, for any number of splices over each other. *)
(*                                                                         *)
(* Each splice keeps the bytes it was put over, in the places it takes; so *)
(* what the procedure was beneath it can be read from the splices from it  *)
(* on and from memory.  No write and no creation changes that.             *)
(***************************************************************************)
EXTENDS SplicePlaces, WellFoundedInduction, TLAPS

---------------------------------------------------------------------------
(* What is beneath a splice.                                               *)

PlanNames == {"A", "B", "C", "D", "E", "F"}

\* The segments of the relay and of the entry of a plan.
Relay(plan) ==
  CASE plan \in {"A", "B"} -> {"far", "near"}
    [] plan \in {"C", "D"} -> {"near"}
    [] OTHER -> {}

Entry(plan) ==
  CASE plan = "E" -> {"e2", "e5"}
    [] plan = "F" -> {"e2", "e5", "e14"}
    [] OTHER -> {"e2"}

RelayOf(s) == Relay(places[s].plan)
EntryOf(s) == Entry(places[s].plan)
Taken(s)   == RelayOf(s) \cup EntryOf(s)

\* What is for the segment in the places of a splice.
InPlaces(patch, seg) == IF seg \in DOMAIN patch[1] THEN patch[1][seg] ELSE patch[2][seg]

Kept(s, seg) == InPlaces(places[s].original, seg)
New(s, seg)  == InPlaces(places[s].modified, seg)

\* The splices from number k on that take the segment.
Over(k, seg) == {t \in live : k <= t /\ seg \in Taken(t)}

Least(S) == CHOOSE n \in S : \A m \in S : n <= m

\* What the procedure would be without the splices from number k on.
Beneath(k) ==
  [seg \in Segments |-> IF Over(k, seg) = {} THEN memory[seg]
                        ELSE Kept(Least(Over(k, seg)), seg)]

\* As it was built.
Start == [seg \in Segments |-> IF seg \in {"e5", "e14"} THEN Built("code") ELSE built[seg]]

---------------------------------------------------------------------------
(* The invariant.                                                          *)

\* The places of a splice are those of its plan.
PlannedOK(s) ==
  /\ places[s].plan \in PlanNames
  /\ places[s].modified = Modified(places[s].plan, s)
  /\ DOMAIN places[s].original = DOMAIN places[s].modified
  /\ \A k \in DOMAIN places[s].modified :
       DOMAIN places[s].original[k] = DOMAIN places[s].modified[k]

PlacesTypeInv ==
  /\ \A seg \in {"far", "near", "e2"} : built[seg] \in {Built("int3"), Built("zero"),
        Built("nop5"), Built("hotpatch"), Built("code")}
  /\ built.e2 \in {Built("hotpatch"), Built("code")}
  /\ built.resume2 \in {"e5", "e14", "rest"} /\ built.resume5 \in {"e14", "rest"}
  /\ built.width \in {32, 64}
  /\ memory = [seg \in Segments |-> memory[seg]]
  /\ DOMAIN places = Splices
  /\ \A s \in Splices : places[s].plan # "none" => PlannedOK(s)
  /\ live \subseteq {s \in Splices : places[s].plan # "none"}

\* The calls that write, and how far a removal has come.
CallInv ==
  /\ op \in {"idle", "modify", "restore"} /\ cut \in {"no", "begun", "done"}
  /\ op # "idle" => live # {} /\ at \in DOMAIN places[Last].modified
  /\ op = "modify" => cut = "no"
  /\ op = "restore" => cut = "begun"
  /\ cut # "no" => live # {}

\* In m the segments are as before s, or as s makes them.
Left(m, s, segs)  == \A seg \in segs : m[seg] = Kept(s, seg)
Wrote(m, s, segs) == \A seg \in segs : m[seg] = New(s, seg)

\* The entry is as s makes it only where its relay is.
Stacked(m, s) ==
  \/ Left(m, s, Taken(s))
  \/ Wrote(m, s, RelayOf(s)) /\ Left(m, s, EntryOf(s))
  \/ Wrote(m, s, Taken(s))

\* Over every splice but one that is being removed.
StackedInv ==
  \A s \in live : s # Last \/ cut # "begun" => Stacked(Beneath(s + 1), s)

\* What a call in progress has written, and a removal that has ended.
ProgressInv ==
  /\ op = "modify" /\ at = 2 => Wrote(memory, Last, RelayOf(Last))
  /\ op = "restore" /\ at = 2 => Left(memory, Last, RelayOf(Last))
  /\ cut = "done" => Left(memory, Last, Taken(Last))

PlacesInv ==
  /\ PlacesTypeInv /\ CallInv /\ StackedInv /\ ProgressInv
  /\ Beneath(1) = Start

\* A thread that runs m from the first byte gets to the body, or to the
\* jumper of a splice that is beneath number k.
Sound(m, k) ==
  LET way == LeadsTo(m) IN way = Body \/ (way.to = "jumper" /\ way.of \in live /\ way.of < k)

\* What is beneath a splice suits its plan, and was sound.
SoundInv ==
  \A s \in live : /\ Fits(places[s].plan, Beneath(s))
                  /\ Movable(places[s].plan, Beneath(s))
                  /\ Sound(Beneath(s), s)

---------------------------------------------------------------------------
(* Numbers of splices.                                                     *)

LEMMA LeastIs ==
  ASSUME NEW S \in SUBSET Nat, S # {}
  PROVE  Least(S) \in S /\ \A m \in S : Least(S) <= m
<1>. DEFINE Less == {ss \in Nat \X Nat : ss[1] < ss[2]}
<1>1. IsWellFoundedOn(Less, Nat)
  BY NatLessThanWellFounded, Zenon DEF OpToRel
<1>. HIDE DEF Less
<1>2. PICK n \in S : \A m \in S : <<m, n>> \notin Less
  BY <1>1, WFMin
<1>3. \A m \in S : ~(m < n)
  BY <1>2 DEF Less
<1>4. \A m \in S : n <= m
  BY <1>3
<1>. QED
  BY <1>4 DEF Least

LEMMA LastIs ==
  ASSUME live \subseteq Splices, live # {}
  PROVE  Last \in live /\ Last \in 1 .. N /\ \A x \in live : x <= Last
<1>1. N \in Nat /\ live \subseteq 1 .. N
  BY SplicesAssumption DEF Splices
<1>. DEFINE S == {N - x : x \in live}
<1>2. S \subseteq Nat /\ S # {}
  <2>1. \A x \in live : N - x \in Nat
    BY <1>1
  <2>. QED
    BY <2>1
<1>3. PICK n \in S : \A m \in S : n <= m
  BY <1>2, LeastIs
<1>4. PICK y \in live : n = N - y
  BY <1>3
<1>5. ASSUME NEW x \in live
      PROVE  x <= y
  <2>1. N - y <= N - x
    BY <1>3, <1>4
  <2>. QED
    BY <1>1, <2>1
<1>. QED
  BY <1>1, <1>5 DEF Last

---------------------------------------------------------------------------
(* The places of the plans.                                                *)

\* Two places, or one.
LEMMA PlanShape ==
  ASSUME NEW plan \in PlanNames, NEW s
  PROVE  /\ plan \notin {"E", "F"} =>
              /\ DOMAIN Modified(plan, s) = {1, 2} /\ Len(Modified(plan, s)) = 2
              /\ DOMAIN Modified(plan, s)[1] = Relay(plan)
              /\ DOMAIN Modified(plan, s)[2] = Entry(plan)
         /\ plan \in {"E", "F"} =>
              /\ DOMAIN Modified(plan, s) = {1} /\ Len(Modified(plan, s)) = 1
              /\ Relay(plan) = {}
              /\ DOMAIN Modified(plan, s)[1] = Entry(plan)
         /\ Relay(plan) \subseteq {"far", "near"}
         /\ "e2" \in Entry(plan) /\ Entry(plan) \subseteq {"e2", "e5", "e14"}
<1>1. CASE plan \in {"A", "B"}
  BY <1>1 DEF Modified, Relay, Entry, LongRelay, ShortJump
<1>2. CASE plan \in {"C", "D"}
  BY <1>2 DEF Modified, Relay, Entry, NearRelay, ShortJump
<1>3. CASE plan = "E"
  BY <1>3 DEF Modified, Relay, Entry, NearTramp
<1>4. CASE plan = "F"
  BY <1>4 DEF Modified, Relay, Entry, LongTramp
<1>. QED
  BY <1>1, <1>2, <1>3, <1>4 DEF PlanNames

\* What a splice takes.
LEMMA TakenIs ==
  ASSUME PlacesTypeInv, NEW s \in live
  PROVE  /\ places[s].plan \in PlanNames /\ PlannedOK(s)
         /\ RelayOf(s) \subseteq {"far", "near"}
         /\ "e2" \in EntryOf(s) /\ EntryOf(s) \subseteq {"e2", "e5", "e14"}
         /\ Taken(s) \subseteq Segments
<1>1. PlannedOK(s) /\ places[s].plan \in PlanNames
  BY DEF PlacesTypeInv, PlannedOK
<1>. QED
  BY <1>1, PlanShape DEF RelayOf, EntryOf, Taken, Segments

---------------------------------------------------------------------------
(* What is beneath.                                                        *)

LEMMA BeneathIs ==
  ASSUME NEW k, NEW seg \in Segments
  PROVE  /\ Over(k, seg) = {} => Beneath(k)[seg] = memory[seg]
         /\ Over(k, seg) # {} => Beneath(k)[seg] = Kept(Least(Over(k, seg)), seg)
BY DEF Beneath

LEMMA OverIs ==
  ASSUME PlacesTypeInv, NEW k, NEW seg
  PROVE  Over(k, seg) \subseteq live /\ Over(k, seg) \subseteq Nat
BY SplicesAssumption DEF PlacesTypeInv, Over, Splices

\* A splice is over what it kept.
LEMMA BeneathOn ==
  ASSUME PlacesTypeInv, NEW s \in live, NEW seg \in Taken(s)
  PROVE  Beneath(s)[seg] = Kept(s, seg)
<1>1. s \in Nat
  BY SplicesAssumption DEF PlacesTypeInv, Splices
<1>2. s \in Over(s, seg) /\ \A t \in Over(s, seg) : s <= t
  BY <1>1 DEF Over
<1>3. Least(Over(s, seg)) = s
  <2>1. PICK n : n = Least(Over(s, seg))
    OBVIOUS
  <2>2. n \in Over(s, seg) /\ n <= s
    BY <1>2, <2>1, OverIs, LeastIs
  <2>3. s <= n /\ n \in Nat
    BY <1>2, <2>2, OverIs
  <2>. QED
    BY <1>1, <2>1, <2>2, <2>3
<1>. QED
  BY <1>2, <1>3, BeneathIs, TakenIs

\* It changes nothing but what it takes.
LEMMA BeneathOff ==
  ASSUME PlacesTypeInv, NEW s \in live, NEW seg \in Segments, seg \notin Taken(s)
  PROVE  Beneath(s)[seg] = Beneath(s + 1)[seg]
<1>1. s \in Nat /\ live \subseteq Nat
  BY SplicesAssumption DEF PlacesTypeInv, Splices
<1>2. ASSUME NEW t \in live, seg \in Taken(t)
      PROVE  s <= t <=> s + 1 <= t
  <2>1. t # s
    BY <1>2
  <2>. QED
    BY <1>1, <2>1
<1>3. Over(s, seg) = Over(s + 1, seg)
  BY <1>2 DEF Over
<1>. QED
  BY <1>3 DEF Beneath

\* Nothing is over the last.
LEMMA BeneathTop ==
  ASSUME PlacesTypeInv, NEW k, \A x \in live : ~(k <= x)
  PROVE  Beneath(k) = memory
<1>1. \A seg \in Segments : Over(k, seg) = {}
  BY DEF Over
<1>2. memory = [seg \in Segments |-> memory[seg]]
  BY DEF PlacesTypeInv
<1>3. Beneath(k) = [seg \in Segments |-> memory[seg]]
  BY <1>1 DEF Beneath
<1>. QED
  BY <1>2, <1>3

LEMMA BeneathLast ==
  ASSUME PlacesTypeInv, live # {}
  PROVE  /\ Last \in live /\ Last \in Nat
         /\ \A x \in live : x \in Nat /\ x <= Last
         /\ Beneath(Last + 1) = memory
<1>1. live \subseteq Splices /\ live \subseteq Nat
  BY SplicesAssumption DEF PlacesTypeInv, Splices
<1>2. Last \in live /\ \A x \in live : x <= Last
  BY <1>1, LastIs
<1>3. \A x \in live : ~(Last + 1 <= x)
  BY <1>1, <1>2
<1>. QED
  BY <1>1, <1>2, <1>3, BeneathTop

---------------------------------------------------------------------------
(* A write.                                                                *)

\* What a write of the places of the last splice does to its relay or entry.
Fills(patch, segs) ==
  /\ \A seg \in segs : memory'[seg] = InPlaces(patch, seg)
  /\ \A seg \in Segments \ segs : memory'[seg] = memory[seg]

\* It writes the relay and goes on, or it writes the entry, behind its relay.
LEMMA WriteIs ==
  ASSUME PlacesTypeInv, CallInv, op # "idle", NEW patch, Write(patch),
         patch \in {places[Last].modified, places[Last].original}
  PROVE  /\ memory' = [seg \in Segments |-> memory'[seg]]
         /\ \/ /\ at = 1 /\ at' = 2 /\ op' = op /\ RelayOf(Last) # {}
               /\ Fills(patch, RelayOf(Last))
            \/ /\ at = 2 \/ RelayOf(Last) = {}
               /\ op' = "idle"
               /\ Fills(patch, EntryOf(Last))
<1>. PICK s : s = Last
  OBVIOUS
<1>1. /\ s \in live /\ PlannedOK(s) /\ places[s].plan \in PlanNames
      /\ at \in DOMAIN places[s].modified
  BY BeneathLast, TakenIs DEF CallInv
<1>2. /\ DOMAIN patch = DOMAIN places[s].modified
      /\ \A k \in DOMAIN patch : DOMAIN patch[k] = DOMAIN places[s].modified[k]
  BY <1>1 DEF PlannedOK
<1>3. /\ memory' = [seg \in Segments |-> memory'[seg]]
      /\ \A seg \in Segments :
           memory'[seg] = IF seg \in DOMAIN patch[at] THEN patch[at][seg] ELSE memory[seg]
  BY DEF Write, Overlay
<1>4. /\ at < Len(patch) => at' = at + 1 /\ op' = op
      /\ ~(at < Len(patch)) => op' = "idle"
  BY DEF Write
<1>5. /\ RelayOf(s) \subseteq {"far", "near"} /\ EntryOf(s) \subseteq {"e2", "e5", "e14"}
      /\ RelayOf(s) \subseteq Segments /\ EntryOf(s) \subseteq Segments
  BY <1>1, TakenIs DEF Taken
<1>6. CASE places[s].plan \notin {"E", "F"}
  <2>1. /\ DOMAIN patch = {1, 2} /\ DOMAIN patch[1] = RelayOf(s) /\ DOMAIN patch[2] = EntryOf(s)
    BY <1>1, <1>2, <1>6, PlanShape DEF PlannedOK, RelayOf, EntryOf
  <2>2. Len(patch) = 2
    BY <2>1
  <2>3. CASE at = 1
    <3>1. at' = 2 /\ op' = op
      BY <1>4, <2>2, <2>3
    <3>2. Fills(patch, RelayOf(s))
      BY <1>3, <1>5, <2>1, <2>3 DEF Fills, InPlaces
    <3>3. "near" \in RelayOf(s)
      BY <1>1, <1>6 DEF RelayOf, Relay, PlanNames
    <3>. QED
      BY <1>3, <2>3, <3>1, <3>2, <3>3
  <2>4. CASE at = 2
    <3>1. op' = "idle"
      BY <1>4, <2>2, <2>4
    <3>2. Fills(patch, EntryOf(s))
      BY <1>3, <1>5, <2>1, <2>4 DEF Fills, InPlaces
    <3>. QED
      BY <1>3, <2>4, <3>1, <3>2
  <2>. QED
    BY <1>1, <1>2, <2>1, <2>3, <2>4
<1>7. CASE places[s].plan \in {"E", "F"}
  <2>1. /\ DOMAIN patch = {1} /\ DOMAIN patch[1] = EntryOf(s) /\ RelayOf(s) = {}
    BY <1>1, <1>2, <1>7, PlanShape DEF PlannedOK, RelayOf, EntryOf
  <2>2. Len(patch) = 1 /\ at = 1
    BY <1>1, <1>2, <2>1
  <2>3. op' = "idle"
    BY <1>4, <2>2
  <2>4. Fills(patch, EntryOf(s))
    BY <1>3, <1>5, <2>1, <2>2 DEF Fills, InPlaces
  <2>. QED
    BY <1>3, <2>1, <2>3, <2>4
<1>. QED
  BY <1>6, <1>7

\* Such a write changes nothing beneath the last splice.
LEMMA FillBeneath ==
  ASSUME PlacesTypeInv, live # {}, UNCHANGED <<places, live>>,
         \A seg \in Segments : seg \notin Taken(Last) => memory'[seg] = memory[seg],
         NEW k, k <= Last
  PROVE  Beneath(k)' = Beneath(k)
<1>1. ASSUME NEW seg \in Segments
      PROVE  Beneath(k)'[seg] = Beneath(k)[seg]
  <2>1. Over(k, seg)' = Over(k, seg)
    BY DEF Over, Taken, RelayOf, EntryOf
  <2>2. CASE Over(k, seg) = {}
    <3>1. seg \notin Taken(Last)
      BY <2>2, BeneathLast DEF Over
    <3>. QED
      BY <2>1, <2>2, <3>1 DEF Beneath
  <2>3. CASE Over(k, seg) # {}
    BY <2>1, <2>3 DEF Beneath, Kept
  <2>. QED
    BY <2>2, <2>3
<1>. QED
  BY <1>1 DEF Beneath

\* The invariant keeps, when the bytes of the last splice are put as some of
\* its places are to be.
LEMMA WriteKeeps ==
  ASSUME PlacesInv, live # {}, UNCHANGED <<built, places, live>>,
         memory' = [seg \in Segments |-> memory'[seg]],
         \A seg \in Segments : seg \notin Taken(Last) => memory'[seg] = memory[seg],
         cut' # "begun" => Stacked(memory, Last)'
  PROVE  PlacesTypeInv' /\ StackedInv' /\ Beneath(1)' = Start'
<1>. USE DEF PlacesInv
<1>1. PlacesTypeInv'
  BY DEF PlacesTypeInv, PlannedOK
<1>2. Last' = Last
  BY DEF Last
<1>3. ASSUME NEW k, k <= Last
      PROVE  Beneath(k)' = Beneath(k)
  BY <1>3, FillBeneath
<1>4. ASSUME NEW s \in live, s # Last \/ cut' # "begun"
      PROVE  Stacked(Beneath(s + 1), s)'
  <2>1. CASE s = Last
    <3>1. (Beneath(s + 1))' = memory'
      <4>1. \A seg \in Segments : (Over(s + 1, seg))' = {}
        BY <2>1, BeneathLast DEF Over
      <4>2. (Beneath(s + 1))' = [seg \in Segments |-> memory'[seg]]
        BY <4>1 DEF Beneath
      <4>. QED
        BY <4>2
    <3>. QED
      BY <1>2, <1>4, <2>1, <3>1
  <2>2. CASE s # Last
    <3>1. Stacked(Beneath(s + 1), s)
      BY <2>2 DEF StackedInv
    <3>2. (Beneath(s + 1))' = Beneath(s + 1)
      BY <1>3, <2>2, BeneathLast
    <3>. QED
      BY <3>1, <3>2 DEF Stacked, Left, Wrote, Taken, RelayOf, EntryOf, Kept, New
  <2>. QED
    BY <2>1, <2>2
<1>5. Beneath(1)' = Start'
  <2>1. 1 <= Last
    BY BeneathLast, SplicesAssumption DEF PlacesTypeInv, Splices
  <2>. QED
    BY <1>3, <2>1 DEF Start
<1>. QED
  BY <1>1, <1>2, <1>4, <1>5 DEF StackedInv

---------------------------------------------------------------------------
(* The steps keep the invariant.                                           *)

LEMMA ModifyStep ==
  ASSUME PlacesInv, WriteModified
  PROVE  PlacesInv'
<1>. USE DEF PlacesInv
<1>. PICK s : s = Last
  OBVIOUS
<1>1. /\ op = "modify" /\ cut = "no" /\ live # {}
      /\ Write(places[s].modified) /\ UNCHANGED <<cut, built, places, live>>
  BY DEF WriteModified, Write, CallInv
<1>2. s \in live /\ Last' = s /\ RelayOf(s)' = RelayOf(s) /\ EntryOf(s)' = EntryOf(s)
  BY <1>1, BeneathLast DEF Last, RelayOf, EntryOf
<1>3. Taken(s) \subseteq Segments /\ Taken(s) = RelayOf(s) \cup EntryOf(s)
  BY <1>2, TakenIs DEF Taken
<1>4. Stacked(memory, s)
  BY <1>1, <1>2, BeneathLast DEF StackedInv
<1>5. \A seg \in Taken(s) : New(s, seg)' = New(s, seg) /\ Kept(s, seg)' = Kept(s, seg)
  BY <1>1 DEF New, Kept
<1>6. /\ memory' = [seg \in Segments |-> memory'[seg]]
      /\ \/ /\ at = 1 /\ at' = 2 /\ op' = op /\ RelayOf(s) # {}
            /\ Fills(places[s].modified, RelayOf(s))
         \/ /\ at = 2 \/ RelayOf(s) = {}
            /\ op' = "idle"
            /\ Fills(places[s].modified, EntryOf(s))
  BY <1>1, WriteIs
<1>7. \A segs \in {RelayOf(s), EntryOf(s)} :
        Fills(places[s].modified, segs) =>
          /\ Wrote(memory, s, segs)'
          /\ \A seg \in Segments \ segs : memory'[seg] = memory[seg]
  BY <1>1 DEF Fills, Wrote, New
<1>8. at = 2 => Wrote(memory, s, RelayOf(s))
  BY <1>1 DEF ProgressInv
<1>9. Stacked(memory, s)' /\ ProgressInv' /\ CallInv'
  <2>1. CASE at = 1 /\ at' = 2 /\ op' = op /\ RelayOf(s) # {} /\ Fills(places[s].modified, RelayOf(s))
    <3>1. Wrote(memory, s, RelayOf(s))' /\ \A seg \in EntryOf(s) : memory'[seg] = memory[seg]
      BY <1>2, <1>3, <1>7, <2>1, TakenIs
    <3>2. Left(memory, s, EntryOf(s))' \/ Wrote(memory, s, EntryOf(s))'
      BY <1>2, <1>3, <1>4, <1>5, <3>1 DEF Stacked, Left, Wrote
    <3>3. Stacked(memory, s)'
      BY <1>2, <1>3, <3>1, <3>2 DEF Stacked, Left, Wrote, Taken
    <3>4. ProgressInv' /\ CallInv'
      <4>1. at' \in DOMAIN places[s].modified
        BY <1>2, <2>1, PlanShape, TakenIs DEF PlannedOK, RelayOf
      <4>. QED
        BY <1>1, <1>2, <2>1, <3>1, <4>1 DEF ProgressInv, CallInv
    <3>. QED
      BY <3>3, <3>4
  <2>2. CASE (at = 2 \/ RelayOf(s) = {}) /\ op' = "idle" /\ Fills(places[s].modified, EntryOf(s))
    <3>1. Wrote(memory, s, EntryOf(s))' /\ \A seg \in RelayOf(s) : memory'[seg] = memory[seg]
      BY <1>2, <1>3, <1>7, <2>2, TakenIs
    <3>2. Wrote(memory, s, RelayOf(s))'
      BY <1>2, <1>3, <1>5, <1>8, <2>2, <3>1 DEF Wrote
    <3>3. Stacked(memory, s)'
      BY <1>2, <3>1, <3>2 DEF Stacked, Wrote, Taken
    <3>4. ProgressInv' /\ CallInv'
      BY <1>1, <2>2 DEF ProgressInv, CallInv
    <3>. QED
      BY <3>3, <3>4
  <2>. QED
    BY <1>6, <2>1, <2>2
<1>10. \A seg \in Segments : seg \notin Taken(s) => memory'[seg] = memory[seg]
  BY <1>3, <1>6, <1>7
<1>11. PlacesTypeInv' /\ StackedInv' /\ Beneath(1)' = Start'
  BY <1>1, <1>2, <1>6, <1>9, <1>10, WriteKeeps
<1>. QED
  BY <1>9, <1>11

LEMMA RestoreStep ==
  ASSUME PlacesInv, WriteOriginal
  PROVE  PlacesInv'
<1>. USE DEF PlacesInv
<1>. PICK s : s = Last
  OBVIOUS
<1>1. /\ op = "restore" /\ cut = "begun" /\ live # {}
      /\ Write(places[s].original) /\ UNCHANGED <<built, places, live>>
      /\ cut' = IF op' = "idle" THEN "done" ELSE "begun"
  BY DEF WriteOriginal, Write, CallInv
<1>2. s \in live /\ Last' = s /\ RelayOf(s)' = RelayOf(s) /\ EntryOf(s)' = EntryOf(s)
  BY <1>1, BeneathLast DEF Last, RelayOf, EntryOf
<1>3. Taken(s) \subseteq Segments /\ Taken(s) = RelayOf(s) \cup EntryOf(s)
  BY <1>2, TakenIs DEF Taken
<1>4. \A seg \in Taken(s) : Kept(s, seg)' = Kept(s, seg)
  BY <1>1 DEF Kept
<1>5. /\ memory' = [seg \in Segments |-> memory'[seg]]
      /\ \/ /\ at = 1 /\ at' = 2 /\ op' = op /\ RelayOf(s) # {}
            /\ Fills(places[s].original, RelayOf(s))
         \/ /\ at = 2 \/ RelayOf(s) = {}
            /\ op' = "idle"
            /\ Fills(places[s].original, EntryOf(s))
  BY <1>1, WriteIs
<1>6. \A segs \in {RelayOf(s), EntryOf(s)} :
        Fills(places[s].original, segs) =>
          /\ Left(memory, s, segs)'
          /\ \A seg \in Segments \ segs : memory'[seg] = memory[seg]
  BY <1>1 DEF Fills, Left, Kept
<1>7. at = 2 => Left(memory, s, RelayOf(s))
  BY <1>1 DEF ProgressInv
<1>8. (cut' # "begun" => Stacked(memory, s)') /\ ProgressInv' /\ CallInv'
  <2>1. CASE at = 1 /\ at' = 2 /\ op' = op /\ RelayOf(s) # {} /\ Fills(places[s].original, RelayOf(s))
    <3>1. Left(memory, s, RelayOf(s))'
      BY <1>2, <1>6, <2>1
    <3>2. at' \in DOMAIN places[s].modified
      BY <1>2, <2>1, PlanShape, TakenIs DEF PlannedOK, RelayOf
    <3>. QED
      BY <1>1, <1>2, <2>1, <3>1, <3>2 DEF ProgressInv, CallInv
  <2>2. CASE (at = 2 \/ RelayOf(s) = {}) /\ op' = "idle" /\ Fills(places[s].original, EntryOf(s))
    <3>1. Left(memory, s, EntryOf(s))' /\ \A seg \in RelayOf(s) : memory'[seg] = memory[seg]
      BY <1>2, <1>3, <1>6, <2>2, TakenIs
    <3>2. Left(memory, s, RelayOf(s))'
      BY <1>2, <1>3, <1>4, <1>7, <2>2, <3>1 DEF Left
    <3>3. Left(memory, s, Taken(s))'
      BY <1>2, <3>1, <3>2 DEF Left, Taken
    <3>. QED
      BY <1>1, <1>2, <2>2, <3>3 DEF Stacked, ProgressInv, CallInv
  <2>. QED
    BY <1>5, <2>1, <2>2
<1>9. \A seg \in Segments : seg \notin Taken(s) => memory'[seg] = memory[seg]
  BY <1>3, <1>5, <1>6
<1>10. PlacesTypeInv' /\ StackedInv' /\ Beneath(1)' = Start'
  BY <1>1, <1>2, <1>5, <1>8, <1>9, WriteKeeps
<1>. QED
  BY <1>8, <1>10

\* A call begins, or fails: no byte is written.
LEMMA CallStep ==
  ASSUME PlacesInv, BeginModified \/ BeginOriginal \/ WriteFails
  PROVE  PlacesInv'
<1>. USE DEF PlacesInv
<1>1. live # {} /\ UNCHANGED <<built, memory, places, live>>
  BY DEF BeginModified, BeginOriginal, WriteFails, Begin, CallInv
<1>2. cut' # "begun" => cut # "begun"
  BY DEF BeginModified, BeginOriginal, WriteFails
<1>3. PlacesTypeInv' /\ StackedInv' /\ Beneath(1)' = Start'
  <2>1. Stacked(memory, Last)' <=> Stacked(memory, Last)
    BY <1>1 DEF Stacked, Left, Wrote, Taken, RelayOf, EntryOf, Kept, New, Last
  <2>2. cut # "begun" => Stacked(memory, Last)
    BY <1>1, BeneathLast DEF StackedInv
  <2>3. memory' = [seg \in Segments |-> memory'[seg]]
    BY <1>1 DEF PlacesTypeInv
  <2>. QED
    BY <1>1, <1>2, <2>1, <2>2, <2>3, WriteKeeps
<1>4. CallInv' /\ ProgressInv'
  <2>1. Last' = Last
    BY <1>1 DEF Last
  <2>2. 1 \in DOMAIN places[Last].modified
    BY <1>1, BeneathLast, TakenIs, PlanShape DEF PlannedOK
  <2>3. CASE BeginModified
    BY <1>1, <2>1, <2>2, <2>3 DEF BeginModified, Begin, CallInv, ProgressInv
  <2>4. CASE BeginOriginal
    BY <1>1, <2>1, <2>2, <2>4 DEF BeginOriginal, Begin, CallInv, ProgressInv
  <2>5. CASE WriteFails
    <3>1. Left(memory, Last, Taken(Last))' <=> Left(memory, Last, Taken(Last))
      BY <1>1 DEF Left, Taken, RelayOf, EntryOf, Kept, Last
    <3>. QED
      BY <1>1, <2>5, <3>1 DEF WriteFails, CallInv, ProgressInv
  <2>. QED
    BY <2>3, <2>4, <2>5
<1>. QED
  BY <1>3, <1>4

\* There is a plan for any bytes, and it suits them.
LEMMA PlanIs ==
  ASSUME built.width \in {32, 64}, NEW m, NEW granted \in Grants
  PROVE  PlanFor(m, granted) \in PlanNames /\ Fits(PlanFor(m, granted), m)
<1>. PICK good : good = {k \in DOMAIN Plans : Fits(Plans[k], m)
                                              /\ (Plans[k] \in Routed => Plans[k] \in granted)}
  OBVIOUS
<1>1. DOMAIN Plans \subseteq Nat /\ \A k \in DOMAIN Plans : Plans[k] \in PlanNames
  BY DEF Plans, Plans64, Plans32, PlanNames
<1>2. good # {}
  <2>1. CASE built.width = 64
    <3>1. 6 \in DOMAIN Plans /\ Plans[6] = "F"
      BY <2>1 DEF Plans, Plans64
    <3>2. Fits("F", m) /\ "F" \notin Routed
      BY DEF Fits, Routed
    <3>. QED
      BY <3>1, <3>2
  <2>2. CASE built.width # 64
    <3>1. 3 \in DOMAIN Plans /\ Plans[3] = "E"
      BY <2>2 DEF Plans, Plans32
    <3>2. Fits("E", m) /\ granted = Routed
      BY <2>2 DEF Fits, Grants
    <3>. QED
      BY <3>1, <3>2
  <2>. QED
    BY <2>1, <2>2
<1>3. Least(good) \in good
  BY <1>1, <1>2, LeastIs
<1>4. PlanFor(m, granted) = Plans[Least(good)]
  BY DEF PlanFor, Least
<1>. QED
  BY <1>1, <1>3, <1>4

LEMMA OriginalIs ==
  ASSUME NEW plan \in PlanNames, NEW s, NEW m, NEW seg \in Relay(plan) \cup Entry(plan)
  PROVE  InPlaces(Original(m, Modified(plan, s)), seg) = m[seg]
<1>. PICK patch, o : patch = Modified(plan, s) /\ o = Original(m, patch)
  OBVIOUS
<1>1. /\ DOMAIN o = DOMAIN patch
      /\ \A k \in DOMAIN patch : o[k] = [x \in DOMAIN patch[k] |-> m[x]]
  BY DEF Original
<1>2. CASE plan \notin {"E", "F"}
  <2>1. DOMAIN patch = {1, 2} /\ DOMAIN patch[1] = Relay(plan) /\ DOMAIN patch[2] = Entry(plan)
    BY <1>2, PlanShape
  <2>. QED
    BY <1>1, <2>1 DEF InPlaces
<1>3. CASE plan \in {"E", "F"}
  <2>1. DOMAIN patch = {1} /\ DOMAIN patch[1] = Entry(plan) /\ Relay(plan) = {}
    BY <1>3, PlanShape
  <2>. QED
    BY <1>1, <2>1 DEF InPlaces
<1>. QED
  BY <1>2, <1>3

\* A splice that is created keeps the bytes there are.
LEMMA CreateIs ==
  ASSUME PlacesInv, NEW s \in Splices, Create(s)
  PROVE  /\ op = "idle" /\ cut = "no" /\ UNCHANGED <<built, memory, op, at, cut>>
         /\ live' \in {live, live \cup {s}}
         /\ \A x \in live : x < s /\ places'[x] = places[x]
         /\ \A x \in Splices \ {s} : places'[x] = places[x]
         /\ DOMAIN places' = Splices
         /\ PlannedOK(s)'
         /\ \A seg \in Taken(s)' : Kept(s, seg)' = memory[seg]
         /\ Fits(places'[s].plan, memory)
         /\ s \in live' => Movable(places'[s].plan, memory)
<1>. USE DEF PlacesInv
<1>1. PICK granted \in Grants, moved \in BOOLEAN :
        LET plan == PlanFor(memory, granted)
        IN  /\ places' = [places EXCEPT ![s] =
                            [plan     |-> plan,
                             original |-> Original(memory, Modified(plan, s)),
                             modified |-> Modified(plan, s)]]
            /\ live' = IF moved /\ Movable(plan, memory) THEN live \cup {s} ELSE live
  BY DEF Create
<1>. PICK plan : plan = PlanFor(memory, granted)
  OBVIOUS
<1>2. plan \in PlanNames /\ Fits(plan, memory)
  BY PlanIs DEF PlacesTypeInv
<1>3. /\ DOMAIN places' = Splices
      /\ \A x \in Splices \ {s} : places'[x] = places[x]
      /\ places'[s].plan = plan
      /\ places'[s].original = Original(memory, Modified(plan, s))
      /\ places'[s].modified = Modified(plan, s)
  BY <1>1 DEF PlacesTypeInv
<1>4. /\ op = "idle" /\ cut = "no" /\ UNCHANGED <<built, memory, op, at, cut>>
      /\ places[s].plan = "none"
      /\ \A x \in Splices : x < s <=> places[x].plan # "none"
  BY DEF Create
<1>5. \A x \in live : x < s /\ x # s /\ x \in Splices
  BY <1>4 DEF PlacesTypeInv
<1>6. PlannedOK(s)'
  BY <1>2, <1>3 DEF PlannedOK, Original
<1>7. \A seg \in Taken(s)' : Kept(s, seg)' = memory[seg]
  BY <1>2, <1>3, OriginalIs DEF Taken, RelayOf, EntryOf, Kept
<1>8. live' \in {live, live \cup {s}} /\ (s \in live' => Movable(plan, memory))
  BY <1>1, <1>5
<1>. QED
  BY <1>2, <1>3, <1>4, <1>5, <1>6, <1>7, <1>8

\* Nothing changes beneath it.
LEMMA CreateBeneath ==
  ASSUME PlacesInv, NEW s \in Splices, Create(s), NEW k \in Nat, k <= s
  PROVE  Beneath(k)' = Beneath(k)
<1>1. /\ memory' = memory /\ live' \in {live, live \cup {s}}
      /\ \A x \in live : x < s /\ x # s /\ places'[x] = places[x] /\ x \in Nat
      /\ \A seg \in Taken(s)' : Kept(s, seg)' = memory[seg]
      /\ s \in Nat
  BY CreateIs, SplicesAssumption DEF PlacesInv, PlacesTypeInv, Splices
<1>2. \A x \in live : /\ Taken(x)' = Taken(x)
                      /\ \A seg : Kept(x, seg)' = Kept(x, seg)
  BY <1>1 DEF Taken, RelayOf, EntryOf, Kept
<1>3. ASSUME NEW seg \in Segments
      PROVE  Beneath(k)'[seg] = Beneath(k)[seg]
  <2>1. CASE s \notin live' \/ seg \notin Taken(s)'
    <3>1. Over(k, seg)' = Over(k, seg)
      BY <1>1, <1>2, <2>1 DEF Over
    <3>2. Over(k, seg) # {} => Least(Over(k, seg)) \in live
      BY OverIs, LeastIs DEF PlacesInv
    <3>. QED
      BY <1>1, <1>2, <3>1, <3>2 DEF Beneath
  <2>2. CASE s \in live' /\ seg \in Taken(s)'
    <3>1. Over(k, seg)' = Over(k, seg) \cup {s}
      BY <1>1, <1>2, <2>2 DEF Over
    <3>2. CASE Over(k, seg) = {}
      <4>1. Least({s}) = s
        BY DEF Least
      <4>2. Over(k, seg)' = {s} /\ Over(k, seg)' # {}
        BY <3>1, <3>2
      <4>3. Beneath(k)'[seg] = memory[seg]
        BY <1>1, <2>2, <4>1, <4>2 DEF Beneath
      <4>. QED
        BY <3>2, <4>3, BeneathIs
    <3>3. CASE Over(k, seg) # {}
      <4>. PICK n : n = Least(Over(k, seg))
        OBVIOUS
      <4>. PICK n2 : n2 = Least(Over(k, seg) \cup {s})
        OBVIOUS
      <4>1. n \in Over(k, seg) /\ n \in live /\ \A x \in Over(k, seg) : n <= x
        BY <3>3, OverIs, LeastIs DEF PlacesInv
      <4>2. n2 \in Over(k, seg) \cup {s} /\ \A x \in Over(k, seg) \cup {s} : n2 <= x
        <5>1. Over(k, seg) \cup {s} \in SUBSET Nat
          BY <1>1, OverIs DEF PlacesInv
        <5>. QED
          BY <5>1, LeastIs
      <4>3. n2 = n
        <5>1. n \in Nat /\ n < s /\ n2 \in Nat /\ n2 <= n
          BY <1>1, <4>1, <4>2, OverIs DEF PlacesInv
        <5>2. n2 \in Over(k, seg)
          BY <1>1, <4>2, <5>1
        <5>. QED
          BY <4>1, <5>1, <5>2
      <4>. QED
        BY <1>2, <3>1, <3>3, <4>1, <4>3 DEF Beneath
    <3>. QED
      BY <3>2, <3>3
  <2>. QED
    BY <2>1, <2>2
<1>. QED
  BY <1>3 DEF Beneath

LEMMA CreateStep ==
  ASSUME PlacesInv, NEW s \in Splices, Create(s)
  PROVE  PlacesInv'
<1>. USE DEF PlacesInv
<1>1. /\ op = "idle" /\ cut = "no" /\ UNCHANGED <<built, memory, op, at, cut>>
      /\ live' \in {live, live \cup {s}}
      /\ \A x \in live : x < s /\ x # s /\ places'[x] = places[x] /\ x \in Nat
      /\ \A x \in Splices \ {s} : places'[x] = places[x]
      /\ DOMAIN places' = Splices
      /\ PlannedOK(s)'
      /\ \A seg \in Taken(s)' : Kept(s, seg)' = memory[seg]
      /\ s \in Nat /\ 1 <= s
  BY CreateIs, SplicesAssumption DEF PlacesTypeInv, Splices
<1>2. PlacesTypeInv'
  <2>1. ASSUME NEW x \in Splices, places'[x].plan # "none"
        PROVE  PlannedOK(x)'
    <3>1. CASE x = s
      BY <1>1, <3>1
    <3>2. CASE x # s
      BY <1>1, <2>1, <3>2 DEF PlacesTypeInv, PlannedOK
    <3>. QED
      BY <3>1, <3>2
  <2>2. live' \subseteq {x \in Splices : places'[x].plan # "none"}
    <3>1. places'[s].plan # "none"
      BY <1>1 DEF PlannedOK, PlanNames
    <3>. QED
      BY <1>1, <3>1 DEF PlacesTypeInv
  <2>. QED
    BY <1>1, <2>1, <2>2 DEF PlacesTypeInv
<1>3. CallInv' /\ ProgressInv'
  BY <1>1 DEF CallInv, ProgressInv
<1>4. Beneath(1)' = Start'
  BY <1>1, CreateBeneath DEF Start
<1>5. ASSUME NEW x \in live
      PROVE  Stacked(Beneath(x + 1), x)'
  <2>1. Stacked(Beneath(x + 1), x)
    BY <1>1 DEF StackedInv
  <2>2. (Beneath(x + 1))' = Beneath(x + 1)
    BY <1>1, CreateBeneath
  <2>. QED
    BY <1>1, <2>1, <2>2 DEF Stacked, Left, Wrote, Taken, RelayOf, EntryOf, Kept, New
<1>6. Stacked(Beneath(s + 1), s)'
  <2>1. (Beneath(s + 1))' = memory
    <3>1. \A seg \in Segments : (Over(s + 1, seg))' = {}
      BY <1>1 DEF Over
    <3>2. memory' = [seg \in Segments |-> memory'[seg]]
      BY <1>2 DEF PlacesTypeInv
    <3>. QED
      BY <1>1, <3>1, <3>2 DEF Beneath
  <2>. QED
    BY <1>1, <2>1 DEF Stacked, Left
<1>7. StackedInv'
  BY <1>1, <1>5, <1>6 DEF StackedInv
<1>. QED
  BY <1>2, <1>3, <1>4, <1>7

\* The bytes that a splice kept are in memory again when it is destroyed.
LEMMA DestroyBeneath ==
  ASSUME PlacesInv, NEW s \in Splices, Destroy(s), NEW k \in Nat, k <= s
  PROVE  Beneath(k)' = Beneath(k)
<1>1. /\ live # {} /\ s = Last /\ live' = live \ {s} /\ UNCHANGED <<memory, places>>
      /\ \A seg \in Taken(s) : memory[seg] = Kept(s, seg)
  BY DEF Destroy, PlacesInv, ProgressInv, Left
<1>2. s \in live /\ s \in Nat /\ \A x \in live : x \in Nat /\ x <= s
  BY <1>1, BeneathLast DEF PlacesInv
<1>3. ASSUME NEW seg \in Segments
      PROVE  Beneath(k)'[seg] = Beneath(k)[seg]
  <2>1. Over(k, seg)' = Over(k, seg) \ {s}
    BY <1>1 DEF Over, Taken, RelayOf, EntryOf
  <2>2. /\ Over(k, seg)' = {} => Beneath(k)'[seg] = memory[seg]
        /\ Over(k, seg)' # {} => Beneath(k)'[seg] = Kept(Least(Over(k, seg)'), seg)
    BY <1>1 DEF Beneath, Kept
  <2>3. CASE s \notin Over(k, seg)
    <3>1. Over(k, seg)' = Over(k, seg)
      BY <2>1, <2>3
    <3>. QED
      BY <2>2, <3>1, BeneathIs
  <2>4. CASE Over(k, seg) = {s}
    <3>1. Beneath(k)'[seg] = memory[seg]
      BY <2>1, <2>2, <2>4
    <3>2. Least({s}) = s
      BY <1>2 DEF Least
    <3>3. seg \in Taken(s) /\ Beneath(k)[seg] = Kept(s, seg)
      BY <2>4, <3>2, BeneathIs DEF Over
    <3>. QED
      BY <1>1, <3>1, <3>3
  <2>5. CASE s \in Over(k, seg) /\ Over(k, seg) # {s}
    <3>. PICK n : n = Least(Over(k, seg))
      OBVIOUS
    <3>. PICK n2 : n2 = Least(Over(k, seg) \ {s})
      OBVIOUS
    <3>1. /\ n \in Over(k, seg) /\ \A x \in Over(k, seg) : n <= x
          /\ Over(k, seg) \subseteq live
      BY <2>5, OverIs, LeastIs DEF PlacesInv
    <3>2. n2 \in Over(k, seg) \ {s} /\ \A x \in Over(k, seg) \ {s} : n2 <= x
      <4>1. Over(k, seg) \ {s} \in SUBSET Nat /\ Over(k, seg) \ {s} # {}
        BY <2>5, OverIs DEF PlacesInv
      <4>. QED
        BY <4>1, LeastIs
    <3>3. n # s /\ n <= n2 /\ n \in Nat /\ n2 \in Nat
      <4>1. n2 \in live /\ n \in live /\ n2 # s /\ n <= n2
        BY <3>1, <3>2
      <4>2. n2 \in Nat /\ n \in Nat /\ s \in Nat /\ n2 <= s
        BY <1>2, <4>1
      <4>. QED
        BY <4>1, <4>2
    <3>4. n2 = n
      BY <3>1, <3>2, <3>3
    <3>. QED
      BY <2>1, <2>2, <2>5, <3>2, <3>4, BeneathIs
  <2>. QED
    BY <2>3, <2>4, <2>5
<1>. QED
  BY <1>3 DEF Beneath

LEMMA DestroyStep ==
  ASSUME PlacesInv, NEW s \in Splices, Destroy(s)
  PROVE  PlacesInv'
<1>. USE DEF PlacesInv
<1>1. /\ live # {} /\ s = Last /\ live' = live \ {s} /\ op = "idle" /\ cut' = "no"
      /\ UNCHANGED <<built, memory, places, op, at>>
  BY DEF Destroy
<1>2. s \in live /\ s \in Nat /\ 1 <= s /\ \A x \in live : x \in Nat /\ x <= s
  BY <1>1, BeneathLast, SplicesAssumption DEF PlacesTypeInv, Splices
<1>3. PlacesTypeInv'
  BY <1>1 DEF PlacesTypeInv, PlannedOK
<1>4. CallInv' /\ ProgressInv'
  BY <1>1 DEF CallInv, ProgressInv
<1>5. Beneath(1)' = Start'
  BY <1>1, <1>2, DestroyBeneath DEF Start
<1>6. ASSUME NEW x \in live'
      PROVE  Stacked(Beneath(x + 1), x)'
  <2>1. x \in live /\ x # s /\ x + 1 <= s /\ x + 1 \in Nat
    BY <1>1, <1>2
  <2>2. Stacked(Beneath(x + 1), x)
    BY <1>1, <2>1 DEF StackedInv
  <2>3. (Beneath(x + 1))' = Beneath(x + 1)
    BY <2>1, DestroyBeneath
  <2>. QED
    BY <1>1, <2>2, <2>3 DEF Stacked, Left, Wrote, Taken, RelayOf, EntryOf, Kept, New
<1>7. StackedInv'
  BY <1>6 DEF StackedInv
<1>. QED
  BY <1>3, <1>4, <1>5, <1>7

LEMMA InitPlaces ==
  ASSUME Init
  PROVE  PlacesInv
<1>1. live = {} /\ op = "idle" /\ cut = "no" /\ memory = Start
  BY DEF Init, Start
<1>2. PlacesTypeInv
  <2>1. memory = [seg \in Segments |-> memory[seg]]
    BY <1>1 DEF Start
  <2>2. DOMAIN places = Splices /\ \A s \in Splices : places[s].plan = "none"
    BY DEF Init, Blank
  <2>3. /\ \A seg \in {"far", "near", "e2"} : built[seg] \in {Built("int3"), Built("zero"),
             Built("nop5"), Built("hotpatch"), Built("code")}
        /\ built.e2 \in {Built("hotpatch"), Built("code")}
        /\ built.resume2 \in {"e5", "e14", "rest"} /\ built.resume5 \in {"e14", "rest"}
        /\ built.width \in {32, 64}
    BY DEF Init
  <2>. QED
    BY <1>1, <2>1, <2>2, <2>3 DEF PlacesTypeInv
<1>3. Beneath(1) = Start
  BY <1>1, <1>2, BeneathTop
<1>. QED
  BY <1>1, <1>2, <1>3 DEF PlacesInv, CallInv, StackedInv, ProgressInv

LEMMA NextPlaces ==
  PlacesInv /\ [Next]_vars => PlacesInv'
<1>. SUFFICES ASSUME PlacesInv, [Next]_vars
              PROVE  PlacesInv'
  OBVIOUS
<1>1. CASE \E s \in Splices : Create(s)
  BY <1>1, CreateStep
<1>2. CASE \E s \in Splices : Destroy(s)
  BY <1>2, DestroyStep
<1>3. CASE BeginModified \/ BeginOriginal \/ WriteFails
  BY <1>3, CallStep
<1>4. CASE WriteModified
  BY <1>4, ModifyStep
<1>5. CASE WriteOriginal
  BY <1>5, RestoreStep
<1>6. CASE UNCHANGED vars
  <2>1. UNCHANGED <<built, memory, places, live, op, at, cut>>
    BY <1>6 DEF vars
  <2>2. /\ Last' = Last
        /\ \A k : Beneath(k)' = Beneath(k)
    BY <2>1 DEF Last, Beneath, Over, Kept, Taken, RelayOf, EntryOf
  <2>3. \A m, s : Stacked(m, s)' <=> Stacked(m, s)
    BY <2>1 DEF Stacked, Left, Wrote, Taken, RelayOf, EntryOf, Kept, New
  <2>4. StackedInv'
    BY <2>1, <2>2, <2>3 DEF PlacesInv, StackedInv
  <2>5. ProgressInv'
    BY <2>1, <2>2 DEF PlacesInv, ProgressInv, Left, Wrote, Taken, RelayOf, EntryOf, Kept, New
  <2>6. PlacesTypeInv' /\ CallInv' /\ Start' = Start
    BY <2>1, <2>2 DEF PlacesInv, PlacesTypeInv, PlannedOK, CallInv, Start
  <2>. QED
    BY <2>2, <2>4, <2>5, <2>6 DEF PlacesInv
<1>. QED
  BY <1>1, <1>2, <1>3, <1>4, <1>5, <1>6 DEF Next

(* However splices are created over each other on a procedure, written,    *)
(* written again after a failure and removed, each has kept what is        *)
(* beneath it, and beneath the first is the procedure as it was built.     *)
THEOREM PlacesKept ==
  Spec => []PlacesInv
<1>1. Init => PlacesInv
  BY InitPlaces
<1>. QED
  BY <1>1, NextPlaces, PTL DEF Spec

(* When the last splice is removed the procedure is as it was built.       *)
THEOREM PlacesRestored ==
  Spec => []RemovalRestores
<1>1. PlacesInv => RemovalRestores
  <2>. SUFFICES ASSUME PlacesInv, live = {}, NEW seg \in Segments
                PROVE  memory[seg] = IF seg \in {"e5", "e14"} THEN Built("code") ELSE built[seg]
    BY DEF RemovalRestores
  <2>1. Beneath(1) = memory
    BY BeneathTop DEF PlacesInv
  <2>. QED
    BY <2>1 DEF PlacesInv, Start
<1>. QED
  BY <1>1, PlacesKept, PTL

---------------------------------------------------------------------------
(* Where a thread gets to.                                                 *)

\* What each plan writes.
LEMMA NewIs ==
  ASSUME PlacesTypeInv, NEW s \in live
  PROVE  /\ places[s].plan \in {"A", "B"} =>
              /\ RelayOf(s) = {"far", "near"} /\ EntryOf(s) = {"e2"}
              /\ New(s, "far") = Cell("longjump", s) /\ New(s, "near") = JumpTail(s)
              /\ New(s, "e2") = Cell("short_far", s)
         /\ places[s].plan \in {"C", "D"} =>
              /\ RelayOf(s) = {"near"} /\ EntryOf(s) = {"e2"}
              /\ New(s, "near") = Cell("nearjump", s)
              /\ New(s, "e2") = Cell("short_near", s)
         /\ places[s].plan = "E" =>
              /\ RelayOf(s) = {} /\ EntryOf(s) = {"e2", "e5"}
              /\ \A seg \in {"e2", "e5"} : New(s, seg) = Cell("tramp5", s)
         /\ places[s].plan = "F" =>
              /\ RelayOf(s) = {} /\ EntryOf(s) = {"e2", "e5", "e14"}
              /\ \A seg \in {"e2", "e5", "e14"} : New(s, seg) = Cell("tramp14", s)
<1>1. places[s].modified = Modified(places[s].plan, s)
  BY TakenIs DEF PlannedOK
<1>2. CASE places[s].plan \in {"A", "B"}
  BY <1>1, <1>2 DEF New, InPlaces, Modified, RelayOf, Relay, EntryOf, Entry, LongRelay, ShortJump
<1>3. CASE places[s].plan \in {"C", "D"}
  BY <1>1, <1>3 DEF New, InPlaces, Modified, RelayOf, Relay, EntryOf, Entry, NearRelay, ShortJump
<1>4. CASE places[s].plan = "E"
  BY <1>1, <1>4 DEF New, InPlaces, Modified, RelayOf, Relay, EntryOf, Entry, NearTramp
<1>5. CASE places[s].plan = "F"
  BY <1>1, <1>5 DEF New, InPlaces, Modified, RelayOf, Relay, EntryOf, Entry, LongTramp
<1>. QED
  BY <1>2, <1>3, <1>4, <1>5

\* The way depends on nothing but the segments.
LEMMA SameWay ==
  ASSUME NEW m, NEW u, \A seg \in Segments : m[seg] = u[seg]
  PROVE  LeadsTo(m) = LeadsTo(u)
<1>1. m.far = u.far /\ m.near = u.near /\ m.e2 = u.e2 /\ m.e5 = u.e5 /\ m.e14 = u.e14
  BY DEF Segments
<1>. QED
  BY <1>1 DEF LeadsTo, FirstLeads, FarLeads, NearLeads, BodyFrom, Whole

\* m is u with some of the places of s written.
Layer(m, u, s) ==
  /\ \A seg \in Segments \ Taken(s) : m[seg] = u[seg]
  /\ \A seg \in Taken(s) : u[seg] = Kept(s, seg)
  /\ Stacked(m, s)

\* What is beneath a splice that has a relay does not lead there.
LEMMA Unused ==
  ASSUME Low = {}, NEW u, NEW s, Sound(u, s), NearRelayFits(u) \/ LongRelayFits(u)
  PROVE  u.e2.what \notin {"short_far", "short_near"}
<1>1. u.near.what \in {"nop", "int3", "zero", "nop5"}
  BY DEF NearRelayFits, LongRelayFits, Fillers, Built, Cell
<1>2. NearLeads(u) = Broken
  BY <1>1 DEF NearLeads
<1>3. FarLeads(u) = Broken
  BY <1>1 DEF FarLeads, JumpTail, Cell
<1>4. Broken # Body /\ Broken.to # "jumper"
  BY DEF Broken, Body
<1>. QED
  BY <1>2, <1>3, <1>4 DEF Sound, LeadsTo, FirstLeads

\* Nothing of s is written, or its relay, or all.
LEMMA LayerStages ==
  ASSUME PlacesTypeInv, NEW s \in live, NEW m, NEW u, Layer(m, u, s)
  PROVE  \/ \A seg \in Segments : m[seg] = u[seg]
         \/ /\ \A seg \in RelayOf(s) : m[seg] = New(s, seg)
            /\ \A seg \in Segments \ RelayOf(s) : m[seg] = u[seg]
         \/ /\ \A seg \in Taken(s) : m[seg] = New(s, seg)
            /\ \A seg \in Segments \ Taken(s) : m[seg] = u[seg]
BY TakenIs DEF Layer, Stacked, Left, Wrote, Taken

(* The relay of a splice is written where no thread goes, and the entry    *)
(* when it is there: so a thread gets to the body, or to a jumper of s or  *)
(* beneath it.                                                             *)
LEMMA LayerSound ==
  ASSUME Low = {}, PlacesTypeInv, NEW s \in live, NEW m, NEW u, Layer(m, u, s),
         Fits(places[s].plan, u), Sound(u, s)
  PROVE  Sound(m, s + 1)
<1>1. s \in Nat /\ live \subseteq Nat /\ places[s].plan \in PlanNames
  BY TakenIs, SplicesAssumption DEF PlacesTypeInv, Splices
<1>2. ASSUME LeadsTo(m) = LeadsTo(u)
      PROVE  Sound(m, s + 1)
  <2>1. \A x \in live : x < s => x < s + 1
    BY <1>1
  <2>. QED
    BY <1>2, <2>1 DEF Sound
<1>3. ASSUME LeadsTo(m) = Jumper(s)
      PROVE  Sound(m, s + 1)
  BY <1>1, <1>3 DEF Sound, Jumper
<1>4. CASE \A seg \in Segments : m[seg] = u[seg]
  BY <1>2, <1>4, SameWay
<1>5. CASE places[s].plan \in {"A", "B", "C", "D"}
  <2>1. NearRelayFits(u) \/ LongRelayFits(u)
    BY <1>5 DEF Fits
  <2>2. u.e2.what \notin {"short_far", "short_near"}
    BY <2>1, Unused
  <2>3. CASE \A seg \in Segments \ RelayOf(s) : m[seg] = u[seg]
    <3>1. m.e2 = u.e2 /\ m.e5 = u.e5 /\ m.e14 = u.e14
      BY <1>5, <2>3, NewIs DEF Segments
    <3>2. LeadsTo(m) = LeadsTo(u)
      BY <2>2, <3>1 DEF LeadsTo, FirstLeads, BodyFrom, Whole
    <3>. QED
      BY <1>2, <3>2
  <2>4. CASE \A seg \in Taken(s) : m[seg] = New(s, seg)
    <3>1. CASE places[s].plan \in {"A", "B"}
      <4>1. m.far = Cell("longjump", s) /\ m.near = JumpTail(s) /\ m.e2 = Cell("short_far", s)
        BY <2>4, <3>1, NewIs DEF Taken
      <4>2. LeadsTo(m) = Jumper(s)
        BY <4>1 DEF LeadsTo, FirstLeads, FarLeads, Cell
      <4>. QED
        BY <1>3, <4>2
    <3>2. CASE places[s].plan \in {"C", "D"}
      <4>1. m.near = Cell("nearjump", s) /\ m.e2 = Cell("short_near", s)
        BY <2>4, <3>2, NewIs DEF Taken
      <4>2. LeadsTo(m) = Jumper(s)
        BY <4>1 DEF LeadsTo, FirstLeads, NearLeads, Cell
      <4>. QED
        BY <1>3, <4>2
    <3>. QED
      BY <1>5, <3>1, <3>2
  <2>. QED
    BY <1>4, <2>3, <2>4, LayerStages
<1>6. CASE places[s].plan \in {"E", "F"}
  <2>1. RelayOf(s) = {}
    BY <1>6, NewIs
  <2>2. CASE \A seg \in Taken(s) : m[seg] = New(s, seg)
    <3>1. CASE places[s].plan = "E"
      <4>1. m.e2 = Cell("tramp5", s) /\ m.e5 = Cell("tramp5", s)
        BY <2>2, <3>1, NewIs DEF Taken
      <4>2. LeadsTo(m) = Jumper(s)
        BY <4>1 DEF LeadsTo, Whole, Cell
      <4>. QED
        BY <1>3, <4>2
    <3>2. CASE places[s].plan = "F"
      <4>1. /\ m.e2 = Cell("tramp14", s) /\ m.e5 = Cell("tramp14", s)
            /\ m.e14 = Cell("tramp14", s)
        BY <2>2, <3>2, NewIs DEF Taken
      <4>2. LeadsTo(m) = Jumper(s)
        BY <4>1 DEF LeadsTo, Whole, Cell
      <4>. QED
        BY <1>3, <4>2
    <3>. QED
      BY <1>6, <3>1, <3>2
  <2>. QED
    BY <1>4, <2>1, <2>2, LayerStages
<1>. QED
  BY <1>1, <1>5, <1>6 DEF PlanNames

(* The bridge of a splice leads on as what is beneath the splice did.      *)
LEMMA BridgeSound ==
  ASSUME Low = {}, PlacesTypeInv, NEW s \in live, NEW m, NEW u, Layer(m, u, s),
         Fits(places[s].plan, u), Movable(places[s].plan, u), Sound(u, s)
  PROVE  Good(BridgeLeads(s, m))
<1>1. places[s].plan \in PlanNames /\ Saved(s) = u.e2
  <2>1. /\ places[s].plan \in PlanNames
        /\ places[s].modified = Modified(places[s].plan, s)
        /\ DOMAIN places[s].original = DOMAIN places[s].modified
        /\ \A k \in DOMAIN places[s].modified :
             DOMAIN places[s].original[k] = DOMAIN places[s].modified[k]
    BY TakenIs DEF PlannedOK
  <2>2. u.e2 = Kept(s, "e2")
    BY TakenIs DEF Layer, Taken
  <2>3. CASE places[s].plan \notin {"E", "F"}
    <3>1. /\ DOMAIN places[s].original = {1, 2} /\ "e2" \notin DOMAIN places[s].original[1]
      BY <2>1, <2>3, PlanShape
    <3>2. Len(places[s].original) = 2
      BY <3>1
    <3>. QED
      BY <2>1, <2>2, <3>1, <3>2 DEF Saved, Kept, InPlaces
  <2>4. CASE places[s].plan \in {"E", "F"}
    <3>1. /\ DOMAIN places[s].original = {1} /\ "e2" \in DOMAIN places[s].original[1]
      BY <2>1, <2>4, PlanShape
    <3>2. Len(places[s].original) = 1
      BY <3>1
    <3>. QED
      BY <2>1, <2>2, <3>1, <3>2 DEF Saved, Kept, InPlaces
  <2>. QED
    BY <2>3, <2>4
<1>2. built.resume2 \in {"e5", "e14", "rest"} /\ built.resume5 \in {"e14", "rest"}
  BY DEF PlacesTypeInv
\* Where the code is entered beneath s, it is whole.
<1>3. u.e2.what \notin {"short_far", "short_near", "tramp5", "tramp14"} =>
        u.e5 = Built("code") /\ u.e14 = Built("code")
  <2>1. Broken # Body /\ Broken.to # "jumper"
    BY DEF Broken, Body
  <2>. QED
    BY <2>1 DEF Sound, LeadsTo, FirstLeads, BodyFrom
<1>4. u.e2.what = "tramp5" => Good(Jumper(u.e2.of))
  <2>1. Broken # Body /\ Broken.to # "jumper"
    BY DEF Broken, Body
  <2>. QED
    BY <2>1 DEF Sound, LeadsTo, Good, Jumper, Body
<1>5. Good(Body)
  BY DEF Good
<1>6. CASE places[s].plan \in {"A", "C"}
  <2>1. u.e2.what = "hotpatch"
    BY <1>6 DEF Fits, HotpatchFits, Built, Cell
  <2>2. m.e5 = u.e5 /\ m.e14 = u.e14
    BY <1>6, LayerStages, NewIs DEF Taken, Segments
  <2>3. BridgeLeads(s, m) = Body
    BY <1>3, <1>6, <2>1, <2>2 DEF BridgeLeads, BodyFrom
  <2>. QED
    BY <1>5, <2>3
<1>7. CASE places[s].plan \in {"B", "D"}
  <2>1. u.e2.what \notin {"short_far", "short_near", "tramp14"}
    <3>1. NearRelayFits(u) \/ LongRelayFits(u)
      BY <1>7 DEF Fits
    <3>2. u.e2.what # "tramp14"
      BY <1>7 DEF Movable
    <3>. QED
      BY <3>1, <3>2, Unused
  <2>2. m.e5 = u.e5 /\ m.e14 = u.e14
    BY <1>7, LayerStages, NewIs DEF Taken, Segments
  <2>3. BridgeLeads(s, m) = FirstLeads(u.e2, built.resume2, m)
    BY <1>1, <1>7 DEF BridgeLeads
  <2>4. CASE u.e2.what = "tramp5"
    BY <1>4, <2>3, <2>4 DEF FirstLeads
  <2>5. CASE u.e2.what # "tramp5"
    <3>1. BodyFrom(built.resume2, m) = Body
      BY <1>2, <1>3, <2>1, <2>2, <2>5 DEF BodyFrom
    <3>. QED
      BY <1>5, <2>1, <2>3, <2>5, <3>1 DEF FirstLeads
  <2>. QED
    BY <2>4, <2>5
<1>8. CASE places[s].plan \in {"E", "F"}
  <2>. PICK resume : resume = IF places[s].plan = "E" THEN built.resume5 ELSE "rest"
    OBVIOUS
  <2>1. u.e2.what # "tramp14"
    BY <1>8 DEF Movable
  <2>2. /\ m.far = u.far /\ m.near = u.near
        /\ places[s].plan = "E" => m.e14 = u.e14
    BY <1>8, LayerStages, NewIs DEF Taken, Segments
  <2>3. BridgeLeads(s, m) = FirstLeads(u.e2, resume, m)
    BY <1>1, <1>8 DEF BridgeLeads
  <2>4. CASE u.e2.what = "tramp5"
    BY <1>4, <2>3, <2>4 DEF FirstLeads
  <2>5. CASE u.e2.what \in {"short_far", "short_near"}
    <3>1. FirstLeads(u.e2, resume, m) = LeadsTo(u)
      BY <2>2, <2>5 DEF FirstLeads, LeadsTo, FarLeads, NearLeads
    <3>. QED
      BY <2>3, <3>1 DEF Sound, Good
  <2>6. CASE u.e2.what \notin {"tramp5", "short_far", "short_near"}
    <3>1. BodyFrom(resume, m) = Body
      BY <1>2, <1>3, <1>8, <2>1, <2>2, <2>6 DEF BodyFrom
    <3>. QED
      BY <1>5, <2>1, <2>3, <2>6, <3>1 DEF FirstLeads
  <2>. QED
    BY <2>4, <2>5, <2>6
<1>. QED
  BY <1>1, <1>6, <1>7, <1>8 DEF PlanNames

\* A splice is a layer over what is beneath it.
LEMMA IsLayer ==
  ASSUME PlacesInv, NEW s \in live, s # Last \/ cut # "begun"
  PROVE  Layer(Beneath(s + 1), Beneath(s), s)
BY BeneathOn, BeneathOff DEF PlacesInv, StackedInv, Layer

\* So memory is sound when no removal has begun.
LEMMA MemorySound ==
  ASSUME Low = {}, PlacesInv, SoundInv, cut # "begun"
  PROVE  /\ live # {} => Sound(memory, Last + 1)
         /\ live = {} => LeadsTo(memory) = Body
<1>1. ASSUME live # {}
      PROVE  Sound(memory, Last + 1)
  <2>1. Last \in live /\ Beneath(Last + 1) = memory
    BY <1>1, BeneathLast DEF PlacesInv
  <2>2. Layer(memory, Beneath(Last), Last)
    BY <2>1, IsLayer
  <2>3. Fits(places[Last].plan, Beneath(Last)) /\ Sound(Beneath(Last), Last)
    BY <2>1 DEF SoundInv
  <2>. QED
    BY <2>1, <2>2, <2>3, LayerSound DEF PlacesInv
<1>2. ASSUME live = {}
      PROVE  LeadsTo(memory) = Body
  <2>1. memory = Start
    BY <1>2, BeneathTop DEF PlacesInv
  <2>2. /\ memory.e5 = Built("code") /\ memory.e14 = Built("code") /\ memory.e2 = built.e2
    BY <2>1 DEF Start, Segments
  <2>3. memory.e2.what \in {"hotpatch", "code"}
    BY <2>2 DEF PlacesInv, PlacesTypeInv, Built, Cell
  <2>. QED
    BY <2>2, <2>3 DEF LeadsTo, FirstLeads, BodyFrom
<1>. QED
  BY <1>1, <1>2

\* What is beneath the splices stays sound while they exist.
LEMMA SoundKept ==
  ASSUME SoundInv, NEW s \in live, places'[s] = places[s], Beneath(s)' = Beneath(s),
         \A x \in live : x < s => x \in live'
  PROVE  /\ Fits(places[s].plan, Beneath(s))'
         /\ Movable(places[s].plan, Beneath(s))'
         /\ Sound(Beneath(s), s)'
<1>1. /\ Fits(places[s].plan, Beneath(s)) /\ Movable(places[s].plan, Beneath(s))
      /\ Sound(Beneath(s), s)
  BY DEF SoundInv
<1>2. PICK m, plan : m = Beneath(s) /\ plan = places[s].plan
  OBVIOUS
<1>3. (Beneath(s))' = m /\ (places[s].plan)' = plan
  BY <1>2
<1>4. Fits(plan, m) /\ Movable(plan, m) /\ Sound(m, s)
  BY <1>1, <1>2
<1>5. LeadsTo(m)' = LeadsTo(m)
  OBVIOUS
<1>6. Sound(m, s)'
  BY <1>4, <1>5 DEF Sound
<1>. QED
  BY <1>3, <1>4, <1>6

LEMMA NextSound ==
  ASSUME Low = {}, PlacesInv, PlacesInv', SoundInv, [Next]_vars
  PROVE  SoundInv'
<1>1. CASE \E s \in Splices : Create(s)
  <2>. PICK s \in Splices : Create(s)
    BY <1>1
  <2>1. /\ cut = "no" /\ memory' = memory
        /\ live' \in {live, live \cup {s}}
        /\ \A x \in live : x < s /\ places'[x] = places[x] /\ x \in Nat
        /\ Fits(places'[s].plan, memory)
        /\ s \in live' => Movable(places'[s].plan, memory)
        /\ s \in Nat
    BY CreateIs, SplicesAssumption DEF PlacesInv, PlacesTypeInv, Splices
  <2>2. ASSUME NEW x \in live
        PROVE  /\ Fits(places[x].plan, Beneath(x))' /\ Movable(places[x].plan, Beneath(x))'
               /\ Sound(Beneath(x), x)'
    <3>1. Beneath(x)' = Beneath(x)
      BY <2>1, CreateBeneath
    <3>. QED
      BY <2>1, <3>1, SoundKept
  <2>3. Beneath(s)' = memory
    <3>1. Beneath(s)' = Beneath(s)
      BY <2>1, CreateBeneath
    <3>2. Beneath(s) = memory
      BY <2>1, BeneathTop DEF PlacesInv
    <3>. QED
      BY <3>1, <3>2
  <2>4. Sound(memory, s)
    <3>1. CASE live = {}
      BY <2>1, <3>1, MemorySound DEF Sound
    <3>2. CASE live # {}
      <4>1. Sound(memory, Last + 1)
        BY <2>1, <3>2, MemorySound
      <4>2. Last \in live /\ Last \in Nat /\ Last < s
        BY <2>1, <3>2, BeneathLast DEF PlacesInv
      <4>3. \A x \in live : x < Last + 1 => x < s
        BY <2>1
      <4>. QED
        BY <4>1, <4>3 DEF Sound
    <3>. QED
      BY <3>1, <3>2
  <2>5. Sound(Beneath(s), s)'
    <3>1. PICK m : m = memory
      OBVIOUS
    <3>2. Sound(m, s)
      BY <2>4, <3>1
    <3>3. Sound(m, s)'
      BY <2>1, <3>2 DEF Sound
    <3>. QED
      BY <2>3, <3>1, <3>3
  <2>6. s \in live' => /\ Fits(places[s].plan, Beneath(s))'
                       /\ Movable(places[s].plan, Beneath(s))'
    BY <2>1, <2>3
  <2>. QED
    BY <2>1, <2>2, <2>5, <2>6 DEF SoundInv
<1>2. CASE \E s \in Splices : Destroy(s)
  <2>. PICK s \in Splices : Destroy(s)
    BY <1>2
  <2>1. live # {} /\ s = Last /\ live' = live \ {s} /\ UNCHANGED places
    BY DEF Destroy
  <2>2. \A x \in live : x \in Nat /\ x <= s
    BY <2>1, BeneathLast DEF PlacesInv
  <2>3. ASSUME NEW x \in live'
        PROVE  /\ Fits(places[x].plan, Beneath(x))' /\ Movable(places[x].plan, Beneath(x))'
               /\ Sound(Beneath(x), x)'
    <3>1. x \in live /\ x \in Nat /\ x <= s
      BY <2>1, <2>2
    <3>2. Beneath(x)' = Beneath(x)
      BY <3>1, DestroyBeneath
    <3>3. \A y \in live : y < x => y \in live'
      BY <2>1, <2>2, <3>1, BeneathLast DEF PlacesInv
    <3>. QED
      BY <2>1, <3>1, <3>2, <3>3, SoundKept
  <2>. QED
    BY <2>3 DEF SoundInv
<1>3. CASE BeginModified \/ BeginOriginal \/ WriteModified \/ WriteOriginal \/ WriteFails
  <2>1. live # {} /\ UNCHANGED <<places, live>>
    BY <1>3 DEF BeginModified, BeginOriginal, WriteModified, WriteOriginal, WriteFails, Begin,
        Write, PlacesInv, CallInv
  <2>2. \A seg \in Segments : seg \notin Taken(Last) => memory'[seg] = memory[seg]
    <3>1. CASE WriteModified \/ WriteOriginal
      <4>1. PICK patch \in {places[Last].modified, places[Last].original} :
              op # "idle" /\ Write(patch)
        BY <3>1 DEF WriteModified, WriteOriginal
      <4>2. Fills(patch, RelayOf(Last)) \/ Fills(patch, EntryOf(Last))
        BY <4>1, WriteIs DEF PlacesInv
      <4>. QED
        BY <4>2 DEF Fills, Taken
    <3>2. CASE BeginModified \/ BeginOriginal \/ WriteFails
      BY <3>2 DEF BeginModified, BeginOriginal, WriteFails, Begin
    <3>. QED
      BY <1>3, <3>1, <3>2
  <2>3. ASSUME NEW x \in live
        PROVE  /\ Fits(places[x].plan, Beneath(x))' /\ Movable(places[x].plan, Beneath(x))'
               /\ Sound(Beneath(x), x)'
    <3>1. Beneath(x)' = Beneath(x)
      BY <2>1, <2>2, BeneathLast, FillBeneath DEF PlacesInv
    <3>. QED
      BY <2>1, <3>1, SoundKept
  <2>. QED
    BY <2>1, <2>3 DEF SoundInv
<1>4. CASE UNCHANGED vars
  <2>1. UNCHANGED <<memory, places, live>>
    BY <1>4 DEF vars
  <2>2. ASSUME NEW x \in live
        PROVE  /\ Fits(places[x].plan, Beneath(x))' /\ Movable(places[x].plan, Beneath(x))'
               /\ Sound(Beneath(x), x)'
    <3>1. Beneath(x)' = Beneath(x)
      BY <2>1 DEF Beneath, Over, Kept, Taken, RelayOf, EntryOf
    <3>. QED
      BY <2>1, <3>1, SoundKept
  <2>. QED
    BY <2>1, <2>2 DEF SoundInv
<1>. QED
  BY <1>1, <1>2, <1>3, <1>4 DEF Next

(* When the jumpers are not below 16 MB: what each splice was put over     *)
(* suits its plan, and a thread in it got to the body or to a jumper of a  *)
(* splice that still exists.                                               *)
THEOREM PlacesSound ==
  ASSUME Low = {}
  PROVE  Spec => [](PlacesInv /\ SoundInv)
<1>1. Init => PlacesInv /\ SoundInv
  BY InitPlaces DEF Init, SoundInv
<1>2. (PlacesInv /\ SoundInv) /\ [Next]_vars => (PlacesInv /\ SoundInv)'
  BY NextPlaces, NextSound
<1>. QED
  BY <1>1, <1>2, PTL DEF Spec

(* A thread that calls the procedure between any two writes of a hook,     *)
(* after one that failed or when no call is in progress, gets to the body  *)
(* or to a jumper that exists.                                             *)
THEOREM EntrySound ==
  ASSUME Low = {}
  PROVE  Spec => []EntryLeadsThrough
<1>1. PlacesInv /\ SoundInv => EntryLeadsThrough
  <2>. SUFFICES ASSUME PlacesInv, SoundInv, cut # "begun"
                PROVE  Good(LeadsTo(memory))
    BY DEF EntryLeadsThrough
  <2>. QED
    BY MemorySound DEF Sound, Good
<1>. QED
  BY <1>1, PlacesSound, PTL

(* The bridge of the youngest splice leads to the procedure, or to what    *)
(* had hooked it before.                                                   *)
THEOREM BridgeCalls ==
  ASSUME Low = {}
  PROVE  Spec => []YoungestBridgeCalls
<1>1. PlacesInv /\ SoundInv => YoungestBridgeCalls
  <2>. SUFFICES ASSUME PlacesInv, SoundInv, live # {}, cut # "begun"
                PROVE  Good(BridgeLeads(Last, memory))
    BY DEF YoungestBridgeCalls
  <2>1. Last \in live /\ Beneath(Last + 1) = memory
    BY BeneathLast DEF PlacesInv
  <2>2. Layer(memory, Beneath(Last), Last)
    BY <2>1, IsLayer
  <2>3. /\ Fits(places[Last].plan, Beneath(Last)) /\ Movable(places[Last].plan, Beneath(Last))
        /\ Sound(Beneath(Last), Last)
    BY <2>1 DEF SoundInv
  <2>. QED
    BY <2>1, <2>2, <2>3, BridgeSound DEF PlacesInv
<1>. QED
  BY <1>1, PlacesSound, PTL
===========================================================================
