--------------------------- MODULE SplicePlaces ---------------------------
(***************************************************************************)
(* The bytes a hook changes (src/hook/spliceplaces64.cpp and               *)
(* spliceplaces32.cpp), for splices created one over the other on one      *)
(* procedure.  The bytes are kept in the five segments the places begin    *)
(* and end at:                                                             *)
(*                                                                         *)
(*    far (-14..-6)  near (-5..-1)  e2 (0..1)  e5 (2..4)  e14 (5..13)      *)
(*                                                                         *)
(* 0 being the first byte of the procedure.  A write of a place is a step, *)
(* and may fail.                                                           *)
(***************************************************************************)
EXTENDS Integers, Sequences

CONSTANTS
  N,      \* splices, numbered by age
  Low     \* those whose jumper is below 16 MB: bytes 3..7 of its address are 0

Splices  == 1 .. N
NoSplice == 0

ASSUME SplicesAssumption == N \in Nat /\ Low \subseteq Splices

VARIABLES
  built,   \* the procedure: its bytes as built, where moved instructions end,
           \* and the width of its addresses
  memory,  \* segment -> its content
  places,  \* splice -> [plan, original, modified]
  live,    \* splices created and not destroyed
  op,      \* "idle", or the call in progress: "modify", "restore"
  at,      \* its next place
  cut      \* auxiliary: a restore began and has not ended yet

vars == <<built, memory, places, live, op, at, cut>>

Segments == {"far", "near", "e2", "e5", "e14"}

\* A content is what wrote it, or what was built there: a filler (0x90, 0xCC
\* or 0x00), the 5-byte nop, a hotpatch of two bytes, or code.
Cell(what, s) == [what |-> what, of |-> s]
Built(what)   == Cell(what, NoSplice)
Fillers       == {Built("nop"), Built("int3"), Built("zero")}

Overlay(m, w) == [seg \in Segments |-> IF seg \in DOMAIN w THEN w[seg] ELSE m[seg]]

---------------------------------------------------------------------------
(* The plans: the places each writes, relay first.                         *)

\* The last five bytes of a long jump are those of its address.
JumpTail(s) == IF s \in Low THEN Built("zero") ELSE Cell("tail", s)

LongRelay(s)  == [far |-> Cell("longjump", s), near |-> JumpTail(s)]
NearRelay(s)  == [near |-> Cell("nearjump", s)]
ShortJump(s, to) == [e2 |-> Cell(to, s)]
NearTramp(s)  == [e2 |-> Cell("tramp5", s), e5 |-> Cell("tramp5", s)]
LongTramp(s)  == [e2  |-> Cell("tramp14", s), e5 |-> Cell("tramp14", s),
                  e14 |-> Cell("tramp14", s)]

\* Variant: the entry before the relay.
EntryFirst(plan, s) ==
  CASE plan \in {"A", "B"} -> <<ShortJump(s, "short_far"), LongRelay(s)>>
    [] plan \in {"C", "D"} -> <<ShortJump(s, "short_near"), NearRelay(s)>>
    [] plan = "E" -> <<NearTramp(s)>>
    [] plan = "F" -> <<LongTramp(s)>>

Modified(plan, s) ==
  CASE plan \in {"A", "B"} -> <<LongRelay(s), ShortJump(s, "short_far")>>
    [] plan \in {"C", "D"} -> <<NearRelay(s), ShortJump(s, "short_near")>>
    [] plan = "E" -> <<NearTramp(s)>>
    [] plan = "F" -> <<LongTramp(s)>>

\* Variant: the original bytes of a trampoline are two.
OriginalShort(m, patch) ==
  [k \in DOMAIN patch |-> [seg \in (DOMAIN patch[k]) \ {"e5", "e14"} |-> m[seg]]]

\* What the places hold when they are taken.
Original(m, patch) == [k \in DOMAIN patch |-> [seg \in DOMAIN patch[k] |-> m[seg]]]

LongRelayFits(m) == m.far = m.near /\ m.far \in Fillers
NearRelayFits(m) == m.near \in Fillers \cup {Built("nop5")}
HotpatchFits(m)  == m.e2 = Built("hotpatch")

Routed == {"C", "D", "E"}

\* Whether the bytes suit the plan; C, D and E need a route as well.
Fits(plan, m) ==
  CASE plan = "A" -> LongRelayFits(m) /\ HotpatchFits(m)
    [] plan = "B" -> LongRelayFits(m)
    [] plan = "C" -> NearRelayFits(m) /\ HotpatchFits(m)
    [] plan = "D" -> NearRelayFits(m)
    [] OTHER -> TRUE

Plans64 == <<"A", "B", "C", "D", "E", "F">>

\* Where 32 bits are an address, a jump of five bytes goes everywhere: the
\* plans there, called A, B and C, are these without a route.
Plans32 == <<"C", "D", "E">>

Plans == IF built.width = 64 THEN Plans64 ELSE Plans32

\* The plans whose request of a route may be granted, or needs none.
Grants == IF built.width = 64 THEN SUBSET Routed ELSE {Routed}

\* The first plan that fits; granted are the plans whose request of a route
\* is granted.
PlanFor(m, granted) ==
  LET good == {k \in DOMAIN Plans :
                 Fits(Plans[k], m) /\ (Plans[k] \in Routed => Plans[k] \in granted)}
  IN  Plans[CHOOSE k \in good : \A l \in good : k <= l]

---------------------------------------------------------------------------
(* Creation and destruction.                                               *)

Last == CHOOSE s \in live : \A x \in live : x <= s

\* Variant: the bridge copies a jump through memory as it is.
MovableAny(plan, m) == TRUE

\* The bridge moves no jump through memory; other instructions it may refuse.
Movable(plan, m) == plan \in {"A", "C"} \/ m.e2.what # "tramp14"

Create(s) ==
  /\ op = "idle" /\ cut = "no"
  /\ places[s].plan = "none"
  /\ \A x \in Splices : x < s <=> places[x].plan # "none"
  /\ \E granted \in Grants, moved \in BOOLEAN :
       LET plan == PlanFor(memory, granted)
       IN  /\ places' = [places EXCEPT ![s] =
                           [plan     |-> plan,
                            original |-> Original(memory, Modified(plan, s)),
                            modified |-> Modified(plan, s)]]
           /\ live' = IF moved /\ Movable(plan, memory) THEN live \cup {s} ELSE live
  /\ UNCHANGED <<built, memory, op, at, cut>>

\* Hooks of one procedure are removed in reverse order; a splice is
\* destroyed after its original bytes were written.
Destroy(s) ==
  /\ op = "idle"
  /\ live # {} /\ s = Last
  /\ cut = "done"
  /\ live' = live \ {s}
  /\ cut' = "no"
  /\ UNCHANGED <<built, memory, places, op, at>>

---------------------------------------------------------------------------
(* write_modified_bytes and write_original_bytes.                          *)

Begin(kind) ==
  /\ op = "idle" /\ live # {}
  /\ op' = kind /\ at' = 1
  /\ UNCHANGED <<built, memory, places, live>>

BeginModified == cut = "no" /\ Begin("modify") /\ UNCHANGED cut
BeginOriginal == Begin("restore") /\ cut' = "begun"

\* One place, and the end of the call after the last one.
Write(patch) ==
  /\ memory' = Overlay(memory, patch[at])
  /\ IF at < Len(patch) THEN at' = at + 1 /\ op' = op
                        ELSE at' = at /\ op' = "idle"
  /\ UNCHANGED <<built, places, live>>

WriteModified ==
  /\ op = "modify"
  /\ Write(places[Last].modified)
  /\ UNCHANGED cut

WriteOriginal ==
  /\ op = "restore"
  /\ Write(places[Last].original)
  /\ cut' = IF op' = "idle" THEN "done" ELSE cut

\* Memory cannot be read or written: the call returns.
WriteFails ==
  /\ op # "idle"
  /\ op' = "idle"
  /\ UNCHANGED <<built, memory, places, live, at, cut>>

---------------------------------------------------------------------------

Blank == [plan |-> "none", original |-> << >>, modified |-> << >>]

Init ==
  /\ \E far \in {"int3", "zero", "code"}, near \in {"int3", "zero", "nop5", "code"},
        e2 \in {"hotpatch", "code"}, r2 \in {"e5", "e14", "rest"}, r5 \in {"e14", "rest"},
        width \in {32, 64} :
       /\ r2 = "rest" => r5 = "rest"
       /\ e2 = "hotpatch" => r2 = "e5"
       /\ built = [far |-> Built(far), near |-> Built(near), e2 |-> Built(e2),
                   resume2 |-> r2, resume5 |-> r5, width |-> width]
  /\ memory = [seg \in Segments |->
                 IF seg \in {"e5", "e14"} THEN Built("code") ELSE built[seg]]
  /\ places = [s \in Splices |-> Blank]
  /\ live = {}
  /\ op = "idle" /\ at = 1 /\ cut = "no"

Next ==
  \/ \E s \in Splices : Create(s) \/ Destroy(s)
  \/ BeginModified \/ BeginOriginal
  \/ WriteModified \/ WriteOriginal \/ WriteFails

Spec == Init /\ [][Next]_vars

---------------------------------------------------------------------------
(* What a thread meets that runs from the first byte of the procedure, or  *)
(* in the bridge of a splice: the jumper of a splice, the procedure's      *)
(* body, or bytes that are neither.                                        *)

Body   == [to |-> "body", of |-> NoSplice]
Broken == [to |-> "broken", of |-> NoSplice]
Jumper(s) == [to |-> "jumper", of |-> s]

FarLeads(m) ==
  IF m.far.what = "longjump" /\ m.near = JumpTail(m.far.of)
  THEN Jumper(m.far.of) ELSE Broken

NearLeads(m) == IF m.near.what = "nearjump" THEN Jumper(m.near.of) ELSE Broken

\* The body from the given segment on.
BodyFrom(seg, m) ==
  LET rest == CASE seg = "e5"   -> {"e5", "e14"}
                [] seg = "e14"  -> {"e14"}
                [] seg = "rest" -> {}
  IN  IF \A x \in rest : m[x] = Built("code") THEN Body ELSE Broken

Whole(what, segs, m) == \A x \in segs : m[x] = Cell(what, m.e2.of)

\* The first instructions, moved to a bridge or not; those that were built
\* go on at the segment resume.
FirstLeads(first, resume, m) ==
  CASE first.what = "short_far"  -> FarLeads(m)
    [] first.what = "short_near" -> NearLeads(m)
    [] first.what = "tramp5"     -> Jumper(first.of)
    [] first.what = "tramp14"    -> Broken
    [] OTHER -> BodyFrom(resume, m)

LeadsTo(m) ==
  CASE m.e2.what = "tramp5"  -> IF Whole("tramp5", {"e5"}, m) THEN Jumper(m.e2.of) ELSE Broken
    [] m.e2.what = "tramp14" -> IF Whole("tramp14", {"e5", "e14"}, m) THEN Jumper(m.e2.of) ELSE Broken
    [] OTHER -> FirstLeads(m.e2, "e5", m)

\* The first bytes that a splice saved; the bridge has them.
Saved(s) ==
  LET o == places[s].original IN o[Len(o)].e2

BridgeLeads(s, m) ==
  CASE places[s].plan \in {"A", "C"} -> BodyFrom("e5", m)
    [] places[s].plan \in {"B", "D"} -> FirstLeads(Saved(s), built.resume2, m)
    [] places[s].plan = "E" -> FirstLeads(Saved(s), built.resume5, m)
    [] places[s].plan = "F" -> FirstLeads(Saved(s), "rest", m)

Good(way) == way = Body \/ (way.to = "jumper" /\ way.of \in live)

---------------------------------------------------------------------------
(* Properties.                                                             *)

PlacesTypeOK ==
  /\ DOMAIN memory = Segments
  /\ \A seg \in Segments : memory[seg].of \in Splices \cup {NoSplice}
  /\ \A s \in Splices : /\ places[s].plan \in {"none", "A", "B", "C", "D", "E", "F"}
                        /\ \A k \in DOMAIN places[s].modified :
                             DOMAIN places[s].original[k] = DOMAIN places[s].modified[k]
  /\ live \subseteq Splices
  /\ op \in {"idle", "modify", "restore"}
  /\ op # "idle" => at \in DOMAIN places[Last].modified
  /\ cut \in {"no", "begun", "done"}

(* A thread that calls the procedure at any moment of hooking, between two *)
(* writes, after a write that failed or when no call is in progress, gets  *)
(* to its body or to a jumper that exists: the relay is written before the *)
(* entry leads to it.  (From the first write of a removal to its end the   *)
(* entry does lead to a relay that is gone.)                               *)
EntryLeadsThrough == cut # "begun" => Good(LeadsTo(memory))

(* Splices removed in reverse order leave the procedure's bytes as they    *)
(* were, although writes failed and calls were repeated.                   *)
RemovalRestores ==
  live = {} => \A seg \in Segments :
    memory[seg] = IF seg \in {"e5", "e14"} THEN Built("code") ELSE built[seg]

(* The bridge of the youngest splice calls the original procedure, or what *)
(* had hooked it before.                                                   *)
YoungestBridgeCalls ==
  live # {} /\ cut # "begun" => Good(BridgeLeads(Last, memory))

(* splice.h:49: the bridge is the address to call the original procedure   *)
(* by after hooking, also in a hook that the bridge of a younger leads to. *)
BridgeCallsOriginal ==
  op = "idle" /\ cut = "no" =>
    \A s, t \in live : BridgeLeads(t, memory) = Jumper(s) => Good(BridgeLeads(s, memory))

(* spliceplaces64.h:53: the relay of a near jump replaces unused data, so  *)
(* the long jump of a splice that exists stays whole.                      *)
LongJumpsWhole ==
  \A s \in live : memory.far = Cell("longjump", s) => memory.near = JumpTail(s)
===========================================================================
