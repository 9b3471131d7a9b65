--------------------------- MODULE SpliceProofs ---------------------------
(***************************************************************************)
(* Theorems about Splice for any number of threads, addresses and slots:   *)
(* what the hooking and unhooking of one procedure preserves while threads *)
(* run through its jumper and leave calls with no return.                  *)
(***************************************************************************)
EXTENDS Splice, SpliceJumperProofs, WellFoundedInduction

---------------------------------------------------------------------------
(* The inductive invariant.  SlotsMatchFrames does not hold here: a slot   *)
(* of a call that was left has no frame.                                   *)

(* Every call a thread is inside has a slot of the thread, and a call      *)
(* nested deeper has a higher one.                                         *)
FramesOwned ==
  stage = "ready" =>
    \A t \in Threads :
      /\ \A k \in 1 .. Len(frames[t]) : frames[t][k].slot \in Own(t)
      /\ \A k, l \in 1 .. Len(frames[t]) : k < l => frames[t][k].slot < frames[t][l].slot

(* Any other slot of a thread that left none of the calls around the ones  *)
(* it is inside is below the slots of those.                               *)
LeftBelow ==
  stage = "ready" =>
    \A t \in Threads : left[t] # "inner" =>
      \A i \in Own(t) : \/ \E k \in 1 .. Len(frames[t]) : frames[t][k].slot = i
                        \/ \A k \in 1 .. Len(frames[t]) : i < frames[t][k].slot

\* No thread is in the hooker or on its way to it.
HookerFree ==
  \A t \in Threads :
    /\ pc[t] # "check"
    /\ \A k \in 1 .. Len(frames[t]) : frames[t][k].code \notin Hookers

(* What the owner has established at each of its steps.                    *)
OwnerInv ==
  /\ stage = "absent" <=> owner = "unhooked"
  /\ stage = "destroyed" <=> owner = "destroyed"
  /\ owner \in {"disabled", "available", "busy", "destroyed"} => ~active
  /\ owner \in {"available", "destroyed"} => HookerFree

SpliceInv ==
  SpliceTypeOK /\ PlaceInv /\ SkippedOnce /\ FramesOwned /\ LeftBelow /\ OwnerInv

---------------------------------------------------------------------------
(* What the steps do to frames and slots.                                  *)

(* A set of numbers below a bound that is not empty has a greatest one.    *)
LEMMA Greatest ==
  ASSUME NEW n \in Nat, NEW S \in SUBSET (0 .. n - 1), S # {}
  PROVE  \E s \in S : \A i \in S : i <= s
<1>. DEFINE Less   == {ss \in Nat \X Nat : ss[1] < ss[2]}
            Bounds == {b \in Nat : \A i \in S : i <= b}
<1>1. IsWellFoundedOn(Less, Nat)
  BY NatLessThanWellFounded, Zenon DEF OpToRel
<1>2. n \in Bounds /\ Bounds \subseteq Nat
  OBVIOUS
<1>. HIDE DEF Less
<1>3. PICK s \in Bounds : \A b \in Bounds : <<b, s>> \notin Less
  BY <1>1, <1>2, WFMin
<1>4. s \in Nat /\ \A i \in S : i <= s
  OBVIOUS
<1>5. s \in S
  <2>. SUFFICES ASSUME s \notin S
                PROVE  FALSE
    OBVIOUS
  <2>1. \A i \in S : i <= s - 1 /\ i \in Nat
    BY <1>4
  <2>2. PICK i \in S : TRUE
    OBVIOUS
  <2>3. i \in Nat /\ i <= s /\ i # s
    BY <1>4, <2>2
  <2>4. s - 1 \in Nat
    BY <1>4, <2>3
  <2>5. s - 1 \in Bounds
    BY <2>1, <2>4
  <2>6. <<s - 1, s>> \in Less
    BY <1>4, <2>4 DEF Less
  <2>. QED
    BY <1>3, <2>5, <2>6
<1>. QED
  BY <1>4, <1>5

(* The variables of a thread, one by one.                                  *)
LEMMA Typed ==
  ASSUME TypeOK, NEW t \in Threads
  PROVE  /\ frames \in [Threads -> Seq(Frame)] /\ frames[t] \in Seq(Frame)
         /\ Len(frames[t]) \in Nat
         /\ pc \in [Threads -> Places] /\ rax \in [Threads -> Addresses \cup {NULL}]
         /\ old_count \in [Threads -> Nat]
         /\ retaddr_array \in [0 .. retaddr_count - 1 -> Retaddr] /\ retaddr_count \in Nat
         /\ Own(t) \subseteq 0 .. retaddr_count - 1
BY DEF TypeOK, Own

(* A thread inside a call holds a slot, and the slot of its innermost call *)
(* is the topmost one unless it left calls nested in it.                   *)
LEMMA InnermostOwned ==
  ASSUME TypeOK, FramesOwned, LeftBelow, stage = "ready",
         NEW t \in Threads, frames[t] # << >>
  PROVE  /\ Top(t).slot \in Own(t)
         /\ \A k \in 1 .. Len(frames[t]) - 1 : frames[t][k].slot < Top(t).slot
         /\ left[t] # "inner" => \A i \in Own(t) : i <= Top(t).slot
<1>1. Len(frames[t]) \in 1 .. Len(frames[t]) /\ Len(frames[t]) \in Nat
  BY Typed
<1>2. Top(t).slot \in Own(t) /\ Top(t).slot \in Nat
  BY <1>1, Typed DEF FramesOwned, Top
<1>3. \A k \in 1 .. Len(frames[t]) - 1 : frames[t][k].slot < Top(t).slot
  BY <1>1 DEF FramesOwned, Top
<1>4. ASSUME left[t] # "inner", NEW i \in Own(t)
      PROVE  i <= Top(t).slot
  <2>1. i \in Nat
    BY Typed
  <2>2. CASE \E k \in 1 .. Len(frames[t]) : frames[t][k].slot = i
    <3>1. PICK k \in 1 .. Len(frames[t]) : frames[t][k].slot = i
      BY <2>2
    <3>2. CASE k = Len(frames[t])
      BY <1>2, <3>1, <3>2 DEF Top
    <3>3. CASE k \in 1 .. Len(frames[t]) - 1
      BY <1>2, <1>3, <2>1, <3>1, <3>3
    <3>. QED
      BY <1>1, <3>2, <3>3
  <2>3. CASE \A k \in 1 .. Len(frames[t]) : i < frames[t][k].slot
    BY <1>1, <1>2, <2>1, <2>3 DEF Top
  <2>. QED
    BY <1>4, <2>2, <2>3 DEF LeftBelow
<1>. QED
  BY <1>2, <1>3, <1>4

(* Steps that touch neither the array nor the slots of the frames.         *)
LEMMA SlotsStay ==
  ASSUME TypeOK, FramesOwned, LeftBelow, UNCHANGED <<retaddrVars, left>>,
         stage' = "ready" => stage = "ready",
         \A t \in Threads :
           /\ Len(frames'[t]) = Len(frames[t])
           /\ \A k \in 1 .. Len(frames[t]) : frames'[t][k].slot = frames[t][k].slot
  PROVE  FramesOwned' /\ LeftBelow'
<1>1. left' = left /\ \A t : Own(t)' = Own(t)
  BY DEF retaddrVars, Own
<1>2. FramesOwned'
  BY <1>1 DEF FramesOwned
<1>3. LeftBelow'
  <2>. SUFFICES ASSUME stage' = "ready", NEW t \in Threads, left[t] # "inner",
                       NEW i \in Own(t)
                PROVE  \/ \E k \in 1 .. Len(frames'[t]) : frames'[t][k].slot = i
                       \/ \A k \in 1 .. Len(frames'[t]) : i < frames'[t][k].slot
    BY <1>1 DEF LeftBelow
  <2>1. \/ \E k \in 1 .. Len(frames[t]) : frames[t][k].slot = i
        \/ \A k \in 1 .. Len(frames[t]) : i < frames[t][k].slot
    BY DEF LeftBelow
  <2>. QED
    BY <2>1
<1>. QED
  BY <1>2, <1>3

(* Storing an address in a free slot above all of the thread's.            *)
LEMMA StoreKeepsOwned ==
  ASSUME TypeOK, PlaceInv, FramesOwned, LeftBelow, stage = "ready", UNCHANGED left,
         NEW t \in Threads, pc[t] = "enter",
         NEW n \in Nat, NEW array \in [0 .. n - 1 -> Retaddr], NEW i \in 0 .. n - 1,
         n >= retaddr_count, retaddr_count' = n,
         \A j \in 0 .. n - 1 : array[j] = IF j < retaddr_count THEN retaddr_array[j]
                                          ELSE FreeRetaddr,
         array[i].thread_id = NoThread,
         \A j \in Own(t) : j < i,
         Store(array, t, i),
         UNCHANGED <<objectVars, skippedVars>>
  PROVE  TypeOK' /\ PlaceInv' /\ FramesOwned' /\ LeftBelow'
<1>1. PICK d, new : d = Len(frames[t]) /\ new = [ret |-> rax[t], slot |-> i, code |-> NULL]
  OBVIOUS
<1>2. /\ new \in Frame /\ new.slot = i /\ rax[t] \in Addresses /\ d \in Nat
      /\ stage' = "ready"
  BY <1>1, Typed DEF Frame, PlaceInv, objectVars
<1>3. /\ frames' = [frames EXCEPT ![t] = Append(frames[t], new)]
      /\ retaddr_array' = [array EXCEPT ![i] = [thread_id |-> t, return_address |-> rax[t]]]
      /\ pc' = [pc EXCEPT ![t] = "select"]
      /\ rax' = [rax EXCEPT ![t] = NULL]
      /\ old_count' = [old_count EXCEPT ![t] = Cardinality(Own(t))]
  BY <1>1, Typed DEF Store, Goto
<1>4. /\ frames' \in [Threads -> Seq(Frame)]
      /\ \A u \in Threads : u # t => frames'[u] = frames[u]
      /\ Len(frames'[t]) = d + 1
      /\ \A k \in 1 .. d : frames'[t][k] = frames[t][k]
      /\ frames'[t][d + 1] = new
      /\ frames'[t] # << >>
  <2>1. frames[t] \in Seq(Frame) /\ frames \in [Threads -> Seq(Frame)]
    BY Typed
  <2>2. /\ Append(frames[t], new) \in Seq(Frame)
        /\ Append(frames[t], new) # << >>
        /\ Len(Append(frames[t], new)) = d + 1
        /\ \A k \in 1 .. d : Append(frames[t], new)[k] = frames[t][k]
        /\ Append(frames[t], new)[d + 1] = new
    BY <1>1, <1>2, <2>1, AppendProperties
  <2>3. frames'[t] = Append(frames[t], new)
    BY <1>3, <2>1
  <2>. QED
    BY <1>3, <2>1, <2>2, <2>3
<1>5. \A u \in Threads : Own(u)' = IF u = t THEN Own(u) \cup {i} ELSE Own(u)
  <2>1. /\ DOMAIN retaddr_array' = 0 .. n - 1 /\ retaddr_array'[i].thread_id = t
        /\ \A j \in 0 .. n - 1 : j # i => retaddr_array'[j] = array[j]
    BY <1>3
  <2>. QED
    BY ThreadsAssumption, Typed, <2>1 DEF Own, FreeRetaddr
<1>6. FramesOwned'
  <2>. SUFFICES ASSUME NEW u \in Threads
                PROVE  /\ \A k \in 1 .. Len(frames'[u]) : frames'[u][k].slot \in Own(u)'
                       /\ \A k, l \in 1 .. Len(frames'[u]) :
                            k < l => frames'[u][k].slot < frames'[u][l].slot
    BY DEF FramesOwned
  <2>1. CASE u # t
    BY <1>4, <1>5, <2>1 DEF FramesOwned
  <2>2. CASE u = t
    <3>1. \A k \in 1 .. d : frames[t][k].slot \in Own(t) /\ frames[t][k].slot < i
      BY <1>1 DEF FramesOwned
    <3>2. \A k \in 1 .. d + 1 : k # d + 1 => k \in 1 .. d
      BY <1>2
    <3>3. ASSUME NEW k \in 1 .. d + 1, NEW l \in 1 .. d + 1, k < l
          PROVE  frames'[t][k].slot < frames'[t][l].slot
      <4>1. k \in 1 .. d
        BY <1>2, <3>3
      <4>2. CASE l = d + 1
        BY <1>2, <1>4, <3>1, <4>1, <4>2
      <4>3. CASE l # d + 1
        BY <1>1, <1>4, <3>2, <3>3, <4>1, <4>3 DEF FramesOwned
      <4>. QED
        BY <4>2, <4>3
    <3>4. \A k \in 1 .. d + 1 : frames'[t][k].slot \in Own(t)'
      BY <1>2, <1>4, <1>5, <3>1, <3>2
    <3>. QED
      BY <1>4, <2>2, <3>3, <3>4
  <2>. QED
    BY <2>1, <2>2
<1>7. LeftBelow'
  <2>. SUFFICES ASSUME NEW u \in Threads, left[u] # "inner", NEW j \in Own(u)'
                PROVE  \/ \E k \in 1 .. Len(frames'[u]) : frames'[u][k].slot = j
                       \/ \A k \in 1 .. Len(frames'[u]) : j < frames'[u][k].slot
    BY DEF LeftBelow
  <2>1. CASE u # t
    BY <1>4, <1>5, <2>1 DEF LeftBelow
  <2>2. CASE u = t /\ j = i
    BY <1>2, <1>4, <2>2
  <2>3. CASE u = t /\ j # i
    <3>1. j \in Own(t) /\ j < i
      BY <1>5, <2>3
    <3>2. CASE \E k \in 1 .. d : frames[t][k].slot = j
      BY <1>2, <1>4, <2>3, <3>2
    <3>3. CASE \A k \in 1 .. d : j < frames[t][k].slot
      <4>1. \A k \in 1 .. d + 1 : k # d + 1 => k \in 1 .. d
        BY <1>2
      <4>. QED
        BY <1>2, <1>4, <2>3, <3>1, <3>3, <4>1
    <3>. QED
      BY <1>1, <2>3, <3>1, <3>2, <3>3 DEF LeftBelow
  <2>. QED
    BY <2>1, <2>2, <2>3
<1>8. TypeOK'
  <2>1. retaddr_array' \in [0 .. retaddr_count' - 1 -> Retaddr]
    BY <1>2, <1>3 DEF Retaddr
  <2>2. Cardinality(Own(t)) \in Nat
    BY OwnCount
  <2>. QED
    BY <1>2, <1>3, <1>4, <2>1, <2>2 DEF TypeOK, objectVars, skippedVars, Places, Inside
<1>9. PlaceInv'
  <2>1. Own(t) = {} => d = 0
    <3>1. d # 0 => d \in 1 .. d
      BY <1>2
    <3>. QED
      BY <1>1, <3>1 DEF FramesOwned
  <2>2. Cardinality(Own(t)) = 0 => Len(frames'[t]) = 1
    BY <1>2, <1>4, <2>1, OwnCount
  <2>. QED
    BY <1>2, <1>3, <1>4, <2>2, Typed DEF PlaceInv
<1>. QED
  BY <1>6, <1>7, <1>8, <1>9

---------------------------------------------------------------------------
(* The steps of threads in the jumper.                                     *)

\* The part of the invariant that is about the jumper.
Jumping == TypeOK /\ PlaceInv /\ FramesOwned /\ LeftBelow

LEMMA PushOwned ==
  ASSUME Jumping, NEW t \in Threads, Push(t), UNCHANGED left
  PROVE  Jumping'
<1>. USE DEF Jumping
<1>1. /\ stage = "ready" /\ pc[t] = "enter" /\ UNCHANGED <<objectVars, skippedVars>>
      /\ retaddr_array \in [0 .. retaddr_count - 1 -> Retaddr] /\ retaddr_count \in Nat
      /\ \A j \in Own(t) : j < retaddr_count
      /\ RetaddrExtend \in Nat \ {0}
  BY Typed, ExtendAssumption DEF Push
<1>2. CASE PushFree(t)
  <2>1. PICK i \in Candidates(t) : Store(retaddr_array, t, i) /\ retaddr_count' = retaddr_count
    BY <1>2 DEF PushFree
  <2>2. /\ i \in 0 .. retaddr_count - 1 /\ retaddr_array[i].thread_id = NoThread
        /\ \A j \in Own(t) : j < i
    BY <1>1 DEF Candidates
  <2>. QED
    BY <1>1, <2>1, <2>2, StoreKeepsOwned
<1>3. CASE PushExtend(t)
  <2>1. PICK n : n = retaddr_count + RetaddrExtend
    OBVIOUS
  <2>2. /\ n \in Nat /\ n >= retaddr_count /\ retaddr_count \in 0 .. n - 1
        /\ retaddr_count' = n /\ Store(Extended, t, retaddr_count)
        /\ 0 .. n - 1 = 0 .. retaddr_count + RetaddrExtend - 1
    BY <1>1, <1>3, <2>1 DEF PushExtend
  <2>3. Extended = [j \in 0 .. n - 1 |-> IF j < retaddr_count THEN retaddr_array[j]
                                         ELSE FreeRetaddr]
    BY <2>2 DEF Extended
  <2>4. FreeRetaddr \in Retaddr /\ FreeRetaddr.thread_id = NoThread
    BY DEF FreeRetaddr, Retaddr
  <2>5. \A j \in 0 .. n - 1 :
          (IF j < retaddr_count THEN retaddr_array[j] ELSE FreeRetaddr) \in Retaddr
    BY <1>1, <2>2, <2>4
  <2>6. /\ Extended \in [0 .. n - 1 -> Retaddr]
        /\ \A j \in 0 .. n - 1 : Extended[j] = IF j < retaddr_count THEN retaddr_array[j]
                                                ELSE FreeRetaddr
        /\ Extended[retaddr_count].thread_id = NoThread
    BY <1>1, <2>2, <2>3, <2>4, <2>5
  <2>. QED
    BY <1>1, <2>2, <2>6, StoreKeepsOwned
<1>4. CASE PushFails(t)
  <2>1. /\ pc' = [pc EXCEPT ![t] = "nullcall"] /\ rax' = [rax EXCEPT ![t] = NULL]
        /\ UNCHANGED <<retaddrVars, old_count, frames>>
    BY <1>4 DEF PushFails, Goto
  <2>2. FramesOwned' /\ LeftBelow'
    BY <1>1, <2>1, SlotsStay DEF objectVars
  <2>3. TypeOK' /\ PlaceInv'
    BY <1>1, <2>1, Typed
    DEF TypeOK, PlaceInv, objectVars, skippedVars, retaddrVars, Places, Inside
  <2>. QED
    BY <2>2, <2>3
<1>. QED
  BY <1>2, <1>3, <1>4 DEF Push

LEMMA TransferOwned ==
  ASSUME Jumping, NEW t \in Threads, pc[t] \in {"select", "check"},
         NEW code \in Bridges \cup Hookers \cup {NULL}, Transfer(t, code),
         UNCHANGED <<objectVars, retaddrVars, skippedVars, rax, left>>
  PROVE  /\ Jumping'
         /\ pc' = [pc EXCEPT ![t] = "user"]
         /\ \A u \in Threads :
              /\ Len(frames'[u]) = Len(frames[u])
              /\ \A k \in 1 .. Len(frames[u]) :
                   frames'[u][k].code = IF u = t /\ k = Len(frames[t]) THEN code
                                        ELSE frames[u][k].code
<1>. USE DEF Jumping
<1>1. PICK d, frame : d = Len(frames[t]) /\ frame = [frames[t][d] EXCEPT !.code = code]
  OBVIOUS
<1>2. /\ frames \in [Threads -> Seq(Frame)] /\ frames[t] \in Seq(Frame)
      /\ d \in 1 .. Len(frames[t]) /\ frames[t][d] \in Frame
  <2>1. frames[t] # << >> /\ frames[t] \in Seq(Frame) /\ frames \in [Threads -> Seq(Frame)]
    BY Typed DEF PlaceInv
  <2>. QED
    BY <1>1, <2>1, Shortened
<1>3. /\ frame \in Frame /\ frame.slot = frames[t][d].slot /\ frame.code = code
  BY <1>1, <1>2 DEF Frame
<1>4. /\ frames' = [frames EXCEPT ![t] = [frames[t] EXCEPT ![d] = frame]]
      /\ pc' = [pc EXCEPT ![t] = "user"]
      /\ old_count' = [old_count EXCEPT ![t] = 0]
  BY <1>1, <1>2 DEF Transfer, Goto
<1>5. /\ frames'[t] = [frames[t] EXCEPT ![d] = frame]
      /\ frames' \in [Threads -> Seq(Frame)]
      /\ \A u \in Threads : u # t => frames'[u] = frames[u]
  <2>1. [frames[t] EXCEPT ![d] = frame] \in Seq(Frame)
    BY <1>2, <1>3, ExceptSeq
  <2>. QED
    BY <1>2, <1>4, <2>1
<1>6. /\ Len(frames'[t]) = Len(frames[t])
      /\ \A k \in 1 .. Len(frames[t]) : frames'[t][k] = IF k = d THEN frame ELSE frames[t][k]
  BY <1>2, <1>3, <1>5, ExceptSeq
<1>7. \A u \in Threads :
        /\ Len(frames'[u]) = Len(frames[u])
        /\ \A k \in 1 .. Len(frames[u]) :
             /\ frames'[u][k].slot = frames[u][k].slot
             /\ frames'[u][k].code = IF u = t /\ k = Len(frames[t]) THEN code
                                     ELSE frames[u][k].code
  <2>1. ASSUME NEW u \in Threads, u # t
        PROVE  frames'[u] = frames[u]
    BY <1>5, <2>1
  <2>2. \A k \in 1 .. Len(frames[t]) :
          /\ frames'[t][k].slot = frames[t][k].slot
          /\ frames'[t][k].code = IF k = d THEN code ELSE frames[t][k].code
    BY <1>3, <1>6
  <2>. QED
    BY <1>1, <1>6, <2>1, <2>2
<1>8. FramesOwned' /\ LeftBelow'
  BY <1>7, SlotsStay DEF objectVars
<1>9. TypeOK'
  BY <1>4, <1>5, Typed DEF TypeOK, objectVars, retaddrVars, skippedVars, Places, Inside
<1>10. PlaceInv'
  <2>1. \A u \in Threads : frames[u] # << >> => frames'[u] # << >>
    BY <1>2, <1>5, <1>6
  <2>. QED
    BY <1>4, <1>7, <2>1, Typed DEF PlaceInv, objectVars, retaddrVars
<1>. QED
  BY <1>4, <1>7, <1>8, <1>9, <1>10

LEMMA PopOwned ==
  ASSUME Jumping, NEW t \in Threads, Pop(t), UNCHANGED left
  PROVE  /\ Jumping'
         /\ \E place \in {"landing", "nullcall"} : pc' = [pc EXCEPT ![t] = place]
         /\ \A u \in Threads : \A k \in 1 .. Len(frames'[u]) :
              /\ k \in 1 .. Len(frames[u])
              /\ frames'[u][k] = frames[u][k]
         /\ left[t] # "inner" => retaddr_array'[Top(t).slot] = FreeRetaddr
<1>. USE DEF Jumping
<1>1. /\ stage = "ready" /\ pc[t] = "leave" /\ frames[t] # << >>
      /\ UNCHANGED <<objectVars, skippedVars, retaddr_count, old_count>>
  BY DEF Pop, PlaceInv
<1>2. PICK d, s : d = Len(frames[t]) /\ s = CHOOSE i \in Own(t) : IsTop(t, i)
  OBVIOUS
<1>3. /\ Top(t).slot \in Own(t)
      /\ \A k \in 1 .. d - 1 : frames[t][k].slot < Top(t).slot
      /\ left[t] # "inner" => \A i \in Own(t) : i <= Top(t).slot
  BY <1>1, <1>2, InnermostOwned
<1>4. s \in Own(t) /\ \A i \in Own(t) : i <= s
  <2>1. \E i \in Own(t) : IsTop(t, i)
    BY <1>3, Typed, Greatest DEF IsTop
  <2>. QED
    BY <1>2, <2>1 DEF IsTop
<1>5. /\ s \in 0 .. retaddr_count - 1
      /\ retaddr_array' = [i \in DOMAIN retaddr_array |->
                             IF i = s THEN FreeRetaddr ELSE retaddr_array[i]]
      /\ \A i \in Own(t) : i \in Nat
  <2>1. \A i \in DOMAIN retaddr_array : IsTop(t, i) <=> i = s
    BY <1>4, Typed DEF IsTop
  <2>. QED
    BY <1>4, <2>1, Typed DEF Pop
<1>6. \A u \in Threads : Own(u)' = IF u = t THEN Own(t) \ {s} ELSE Own(u)
  BY <1>4, <1>5, ThreadsAssumption DEF Own, FreeRetaddr
<1>7. /\ d \in Nat \ {0}
      /\ Len(frames'[t]) = d - 1
      /\ \A k \in 1 .. d - 1 : frames'[t][k] = frames[t][k] /\ k \in 1 .. d
      /\ \A u \in Threads : u # t => frames'[u] = frames[u]
      /\ frames' \in [Threads -> Seq(Frame)]
  <2>1. frames[t] \in Seq(Frame) /\ frames \in [Threads -> Seq(Frame)]
    BY Typed
  <2>2. frames' = [frames EXCEPT ![t] = SubSeq(frames[t], 1, d - 1)]
    BY <1>2, <2>1 DEF Pop
  <2>. QED
    BY <1>1, <1>2, <2>1, <2>2, Shortened
<1>8. Top(t).slot <= s /\ (left[t] # "inner" => s = Top(t).slot)
  <2>1. Top(t).slot \in Nat /\ s \in Nat /\ Top(t).slot <= s
    BY <1>3, <1>4, <1>5
  <2>2. left[t] # "inner" => s <= Top(t).slot
    BY <1>3, <1>4
  <2>. QED
    BY <2>1, <2>2
<1>9. FramesOwned'
  <2>. SUFFICES ASSUME NEW u \in Threads
                PROVE  /\ \A k \in 1 .. Len(frames'[u]) : frames'[u][k].slot \in Own(u)'
                       /\ \A k, l \in 1 .. Len(frames'[u]) :
                            k < l => frames'[u][k].slot < frames'[u][l].slot
    BY DEF FramesOwned
  <2>1. CASE u # t
    BY <1>1, <1>6, <1>7, <2>1 DEF FramesOwned
  <2>2. CASE u = t
    <3>1. ASSUME NEW k \in 1 .. d - 1
          PROVE  frames[t][k].slot \in Own(t)'
      <4>1. frames[t][k].slot \in Own(t) /\ frames[t][k].slot < Top(t).slot
        BY <1>1, <1>2, <1>3, <1>7 DEF FramesOwned
      <4>2. frames[t][k].slot # s
        BY <1>3, <1>5, <1>8, <4>1
      <4>. QED
        BY <1>6, <4>1, <4>2
    <3>2. ASSUME NEW k \in 1 .. d - 1, NEW l \in 1 .. d - 1, k < l
          PROVE  frames'[t][k].slot < frames'[t][l].slot
      BY <1>1, <1>2, <1>7, <3>2 DEF FramesOwned
    <3>. QED
      BY <1>7, <2>2, <3>1, <3>2
  <2>. QED
    BY <2>1, <2>2
<1>10. LeftBelow'
  <2>. SUFFICES ASSUME NEW u \in Threads, left[u] # "inner", NEW i \in Own(u)'
                PROVE  \/ \E k \in 1 .. Len(frames'[u]) : frames'[u][k].slot = i
                       \/ \A k \in 1 .. Len(frames'[u]) : i < frames'[u][k].slot
    BY DEF LeftBelow
  <2>1. \/ \E k \in 1 .. Len(frames[u]) : frames[u][k].slot = i
        \/ \A k \in 1 .. Len(frames[u]) : i < frames[u][k].slot
    BY <1>1, <1>6 DEF LeftBelow
  <2>2. CASE u # t
    BY <1>7, <2>1, <2>2
  <2>3. CASE u = t /\ \E k \in 1 .. d : frames[t][k].slot = i
    <3>1. PICK k \in 1 .. d : frames[t][k].slot = i
      BY <2>3
    <3>2. k # d
      BY <1>2, <1>6, <1>8, <2>3, <3>1 DEF Top
    <3>. QED
      BY <1>7, <2>3, <3>1, <3>2
  <2>4. CASE u = t /\ \A k \in 1 .. d : i < frames[t][k].slot
    BY <1>7, <2>4
  <2>. QED
    BY <1>2, <2>1, <2>2, <2>3, <2>4
<1>11. /\ rax' = [rax EXCEPT ![t] = retaddr_array[s].return_address]
       /\ retaddr_array[s].return_address \in Addresses \cup {NULL}
  BY <1>2, <1>4, <1>5, Typed DEF Pop, Retaddr
<1>12. PICK place \in {"landing", "nullcall"} : pc' = [pc EXCEPT ![t] = place]
  BY DEF Pop, Goto
<1>13. \A u \in Threads : \A k \in 1 .. Len(frames'[u]) :
         k \in 1 .. Len(frames[u]) /\ frames'[u][k] = frames[u][k]
  BY <1>2, <1>7
<1>14. TypeOK'
  <2>1. retaddr_array' \in [0 .. retaddr_count - 1 -> Retaddr]
    BY <1>5, Typed DEF Retaddr, FreeRetaddr
  <2>. QED
    BY <1>1, <1>7, <1>11, <1>12, <2>1, Typed
    DEF TypeOK, objectVars, skippedVars, Places, Inside
<1>15. PlaceInv'
  BY <1>1, <1>7, <1>11, <1>12, Typed DEF PlaceInv, objectVars
<1>16. left[t] # "inner" => retaddr_array'[Top(t).slot] = FreeRetaddr
  BY <1>5, <1>8, Typed
<1>. QED
  BY <1>9, <1>10, <1>12, <1>13, <1>14, <1>15, <1>16

(* Leaving calls takes frames and leaves the slots.                        *)
LEMMA LeaveOwned ==
  ASSUME SpliceTypeOK, PlaceInv, FramesOwned, LeftBelow, NEW t \in Threads, Leave(t)
  PROVE  /\ Jumping' /\ left' \in [Threads -> {"none", "all", "inner"}]
         /\ \A u \in Threads : \A k \in 1 .. Len(frames'[u]) :
              k \in 1 .. Len(frames[u]) /\ frames'[u][k] = frames[u][k]
<1>. USE DEF Jumping, SpliceTypeOK
<1>1. PICK n \in 0 .. Len(frames[t]) - 1 :
        /\ frames' = [frames EXCEPT ![t] = SubSeq(@, 1, n)]
        /\ left'   = [left EXCEPT ![t] = IF n = 0 THEN "all" ELSE "inner"]
  BY DEF Leave
<1>2. /\ pc[t] = "user"
      /\ UNCHANGED <<objectVars, retaddrVars, skippedVars, pc, rax, old_count>>
      /\ \A u : Own(u)' = Own(u)
  BY DEF Leave, retaddrVars, Own
<1>3. /\ frames[t] \in Seq(Frame) /\ Len(frames[t]) \in Nat /\ n \in Nat
      /\ \A k \in 1 .. n : k \in 1 .. Len(frames[t]) /\ frames[t][k] \in Frame
  BY <1>1, Typed
<1>4. /\ SubSeq(frames[t], 1, n) \in Seq(Frame)
      /\ Len(SubSeq(frames[t], 1, n)) = n
      /\ \A k \in 1 .. n : SubSeq(frames[t], 1, n)[k] = frames[t][k]
  <2>1. /\ SubSeq(frames[t], 1, n) \in Seq(Frame)
        /\ Len(SubSeq(frames[t], 1, n)) = IF 1 <= n THEN n - 1 + 1 ELSE 0
        /\ \A k \in 1 .. n - 1 + 1 : SubSeq(frames[t], 1, n)[k] = frames[t][1 + k - 1]
    BY <1>3, SubSeqProperties
  <2>. QED
    BY <1>3, <2>1
<1>5. /\ frames' \in [Threads -> Seq(Frame)]
      /\ Len(frames'[t]) = n
      /\ \A k \in 1 .. n : frames'[t][k] = frames[t][k] /\ k \in 1 .. Len(frames[t])
      /\ \A u \in Threads : u # t => frames'[u] = frames[u] /\ left'[u] = left[u]
      /\ left'[t] = IF n = 0 THEN "all" ELSE "inner"
      /\ left' \in [Threads -> {"none", "all", "inner"}]
  BY <1>1, <1>3, <1>4, Typed
<1>6. FramesOwned'
  <2>. SUFFICES ASSUME stage = "ready", NEW u \in Threads
                PROVE  /\ \A k \in 1 .. Len(frames'[u]) : frames'[u][k].slot \in Own(u)
                       /\ \A k, l \in 1 .. Len(frames'[u]) :
                            k < l => frames'[u][k].slot < frames'[u][l].slot
    BY <1>2 DEF FramesOwned, objectVars
  <2>1. /\ \A k \in 1 .. Len(frames[u]) : frames[u][k].slot \in Own(u)
        /\ \A k, l \in 1 .. Len(frames[u]) : k < l => frames[u][k].slot < frames[u][l].slot
    BY DEF FramesOwned
  <2>2. CASE u # t
    BY <1>5, <2>1, <2>2
  <2>3. CASE u = t
    <3>1. \A k \in 1 .. n : frames'[t][k].slot = frames[t][k].slot
      BY <1>5
    <3>. QED
      BY <1>5, <2>1, <2>3, <3>1
  <2>. QED
    BY <2>2, <2>3
<1>7. LeftBelow'
  <2>. SUFFICES ASSUME stage = "ready", NEW u \in Threads, left'[u] # "inner", NEW i \in Own(u)
                PROVE  \/ \E k \in 1 .. Len(frames'[u]) : frames'[u][k].slot = i
                       \/ \A k \in 1 .. Len(frames'[u]) : i < frames'[u][k].slot
    BY <1>2 DEF LeftBelow, objectVars
  <2>1. CASE u = t
    BY <1>5, <2>1
  <2>2. CASE u # t
    BY <1>5, <2>2 DEF LeftBelow
  <2>. QED
    BY <2>1, <2>2
<1>8. TypeOK'
  BY <1>2, <1>5 DEF TypeOK, objectVars, retaddrVars, skippedVars
<1>9. PlaceInv'
  <2>1. frames[t] # << >>
    BY <1>1, <1>3
  <2>2. \A u \in Threads : u # t => frames'[u] = frames[u]
    BY <1>5
  <2>. QED
    BY <1>2, <2>1, <2>2 DEF PlaceInv, objectVars, retaddrVars
<1>. QED
  BY <1>5, <1>6, <1>7, <1>8, <1>9

(* Steps of the entry and exit code and of user code that change neither   *)
(* frames nor array.                                                       *)
LEMMA MoveOwned ==
  ASSUME Jumping, NEW t \in Threads, UNCHANGED left,
         \/ \E a \in Addresses : Call(t, a)
         \/ Return(t) \/ Land(t) \/ Fault(t)
         \/ ReadActive(t) /\ ForHooker(t) /\ Goto(t, "check") /\ UNCHANGED <<old_count, frames>>
  PROVE  Jumping'
<1>. USE DEF Jumping
<1>1. /\ UNCHANGED <<objectVars, retaddrVars, skippedVars, frames, old_count>>
      /\ \E place \in Places : pc' = [pc EXCEPT ![t] = place]
  BY DEF Call, Return, Land, Fault, ReadActive, Goto, Places, Inside
<1>2. FramesOwned' /\ LeftBelow'
  BY <1>1, SlotsStay DEF objectVars
<1>3. rax' \in [Threads -> Addresses \cup {NULL}]
  BY Typed DEF Call, Return, Land, Fault, ReadActive
<1>4. TypeOK'
  BY <1>1, <1>3, Typed DEF TypeOK, objectVars, retaddrVars, skippedVars
<1>5. PlaceInv'
  <2>1. \A u \in Threads : u # t => pc'[u] = pc[u] /\ rax'[u] = rax[u]
    BY <1>1, Typed DEF Call, Return, Land, Fault, ReadActive
  <2>2. stage = "absent" => pc'[t] = "user"
    BY Typed DEF Call, Return, Land, Fault, ReadActive, PlaceInv, Goto
  <2>3. /\ pc'[t] = "enter" => rax'[t] \in Addresses
        /\ pc'[t] # "select"
        /\ pc'[t] \in {"check", "leave"} => frames[t] # << >>
        /\ pc'[t] = "check" => pc[t] = "select" /\ old_count[t] = 0
    BY Typed DEF Call, Return, Land, Fault, ReadActive, PlaceInv, Goto, ForHooker
  <2>. QED
    BY <1>1, <2>1, <2>2, <2>3 DEF PlaceInv, objectVars, retaddrVars
<1>. QED
  BY <1>2, <1>4, <1>5

(* What a thread does in the jumper keeps what the owner has established:  *)
(* once the hook is off no thread starts for the hooker.                   *)
LEMMA ThreadOwned ==
  ASSUME SpliceInv, NEW t \in Threads, UNCHANGED <<owner, left>>,
         ThreadStep(t) \/ \E a \in Addresses : Call(t, a)
  PROVE  Jumping' /\ OwnerInv'
<1>. USE DEF SpliceInv, SpliceTypeOK, Jumping
<1>1. /\ UNCHANGED <<objectVars, skippedVars>> /\ UNCHANGED stage /\ UNCHANGED active
      /\ UNCHANGED owner /\ UNCHANGED left
  BY DEF ThreadStep, Push, ReadActive, CheckSkipped, Return, Pop, Land, Fault, Call, objectVars
<1>2. bridge \in Bridges \cup Hookers \cup {NULL} /\ bridge \notin Hookers
      /\ hooker \in Bridges \cup Hookers \cup {NULL}
  BY TargetAssumption, AddressAssumption DEF TypeOK
<1>3. SUFFICES Jumping' /\ (HookerFree /\ ~active => HookerFree')
  <2>1. OwnerInv <=> /\ stage = "absent" <=> owner = "unhooked"
                     /\ stage = "destroyed" <=> owner = "destroyed"
                     /\ owner \in {"disabled", "available", "busy", "destroyed"} => ~active
                     /\ owner \in {"available", "destroyed"} => HookerFree
    BY DEF OwnerInv
  <2>. QED
    BY <1>1, <1>3, <2>1 DEF OwnerInv
<1>4. CASE Push(t)
  <2>1. Jumping'
    BY <1>1, <1>4, PushOwned
  <2>2. ASSUME NEW array, NEW i, Store(array, t, i), HookerFree
        PROVE  HookerFree'
    <3>1. PICK d, new : d = Len(frames[t]) /\ new = [ret |-> rax[t], slot |-> i, code |-> NULL]
      OBVIOUS
    <3>2. /\ pc' = [pc EXCEPT ![t] = "select"] /\ new.code = NULL
          /\ frames'[t] = Append(frames[t], new)
          /\ \A u \in Threads : u # t => frames'[u] = frames[u]
      BY <2>2, <3>1, Typed DEF Store, Goto
    <3>3. \A k \in 1 .. Len(frames'[t]) :
            \/ frames'[t][k] = new
            \/ k \in 1 .. Len(frames[t]) /\ frames'[t][k] = frames[t][k]
      BY <3>2, Typed
    <3>. QED
      BY <2>2, <3>2, <3>3, Typed, AddressAssumption DEF HookerFree
  <2>3. ASSUME PushFails(t), HookerFree
        PROVE  HookerFree'
    BY <2>3, Typed DEF PushFails, Goto, HookerFree
  <2>. QED
    BY <1>4, <2>1, <2>2, <2>3 DEF Push, PushFree, PushExtend
<1>5. ASSUME NEW code \in Bridges \cup Hookers \cup {NULL}, Transfer(t, code),
             pc[t] \in {"select", "check"},
             UNCHANGED <<objectVars, retaddrVars, skippedVars, rax>>
      PROVE  Jumping' /\ (HookerFree /\ code \notin Hookers => HookerFree')
  <2>1. /\ Jumping' /\ pc' = [pc EXCEPT ![t] = "user"]
        /\ \A u \in Threads :
             /\ Len(frames'[u]) = Len(frames[u])
             /\ \A k \in 1 .. Len(frames[u]) :
                  frames'[u][k].code = IF u = t /\ k = Len(frames[t]) THEN code
                                       ELSE frames[u][k].code
    BY <1>1, <1>5, TransferOwned
  <2>. QED
    BY <2>1, Typed DEF HookerFree
<1>6. CASE ReadActive(t)
  <2>1. CASE ForHooker(t)
    <3>1. Goto(t, "check") /\ UNCHANGED <<old_count, frames>> /\ active
      BY <1>6, <2>1 DEF ReadActive, ForHooker
    <3>. QED
      BY <1>1, <1>6, <2>1, <3>1, MoveOwned
  <2>2. CASE ~ForHooker(t)
    BY <1>2, <1>5, <1>6, <2>2 DEF ReadActive
  <2>. QED
    BY <2>1, <2>2
<1>7. CASE CheckSkipped(t)
  <2>1. PICK code : code = IF Skipped(t) THEN bridge ELSE hooker
    OBVIOUS
  <2>2. code \in Bridges \cup Hookers \cup {NULL} /\ Transfer(t, code) /\ pc[t] = "check"
        /\ UNCHANGED <<objectVars, retaddrVars, skippedVars, rax>>
    BY <1>2, <1>7, <2>1 DEF CheckSkipped
  <2>3. ~HookerFree
    BY <2>2 DEF HookerFree
  <2>. QED
    BY <1>5, <2>2, <2>3
<1>8. CASE Pop(t)
  <2>1. /\ Jumping' /\ \E place \in {"landing", "nullcall"} : pc' = [pc EXCEPT ![t] = place]
        /\ \A u \in Threads : \A k \in 1 .. Len(frames'[u]) :
              k \in 1 .. Len(frames[u]) /\ frames'[u][k] = frames[u][k]
    BY <1>1, <1>8, PopOwned
  <2>2. HookerFree => HookerFree'
    BY <2>1, Typed DEF HookerFree
  <2>. QED
    BY <2>1, <2>2
<1>9. CASE Return(t) \/ Land(t) \/ Fault(t) \/ \E a \in Addresses : Call(t, a)
  <2>1. Jumping'
    BY <1>1, <1>9, MoveOwned
  <2>2. UNCHANGED frames /\ \A u \in Threads : pc'[u] = "check" => pc[u] = "check"
    BY <1>9, Typed DEF Return, Land, Fault, Call, Goto
  <2>. QED
    BY <2>1, <2>2 DEF HookerFree
<1>. QED
  BY <1>4, <1>6, <1>7, <1>8, <1>9 DEF ThreadStep

---------------------------------------------------------------------------
(* The invariant holds.                                                    *)

LEMMA SpliceInitInv == SpliceInit => SpliceInv
<1>. SUFFICES ASSUME SpliceInit
              PROVE  SpliceInv
  OBVIOUS
<1>1. TypeOK /\ PlaceInv /\ SkippedOnce
  BY InitInv DEF SpliceInit, JumperInv, Inv
<1>2. /\ stage = "absent" /\ patched = FALSE /\ owner = "unhooked"
      /\ left = [t \in Threads |-> "none"]
  BY DEF SpliceInit, Init
<1>. QED
  BY <1>1, <1>2 DEF SpliceInv, SpliceTypeOK, OwnerPlaces, FramesOwned, LeftBelow, OwnerInv

(* The steps of the owner.                                                 *)
LEMMA OwnerOwned ==
  ASSUME SpliceInv, Hook \/ Unhook \/ SwitchAll
  PROVE  SpliceInv'
<1>. USE DEF SpliceInv, SpliceTypeOK
<1>1. CASE HookCreate
  <2>1. PICK b \in Bridges, h \in Hookers : Create(b, h)
    BY <1>1 DEF HookCreate
  <2>2. /\ stage = "absent" /\ stage' = "ready" /\ active' = FALSE /\ bridge' = b /\ hooker' = h
        /\ UNCHANGED <<available, retaddrVars, skippedVars, threadVars>>
        /\ UNCHANGED <<patched, left>> /\ owner' = "created"
    BY <1>1, <2>1 DEF Create, HookCreate, OwnerGoes
  <2>3. \A t \in Threads : frames[t] = << >> /\ pc[t] = "user"
    BY <2>2 DEF PlaceInv
  <2>4. retaddr_count = 0 /\ \A t \in Threads : Own(t)' = {}
    BY <2>2, Typed DEF PlaceInv, Own, retaddrVars
  <2>5. TypeOK' /\ PlaceInv' /\ SkippedOnce'
    BY <2>2, <2>3, <2>4 DEF TypeOK, PlaceInv, SkippedOnce, retaddrVars, skippedVars, threadVars
  <2>6. FramesOwned' /\ LeftBelow'
    BY <2>2, <2>3, <2>4 DEF FramesOwned, LeftBelow, threadVars
  <2>7. OwnerInv'
    BY <2>2 DEF OwnerInv
  <2>. QED
    BY <2>2, <2>5, <2>6, <2>7 DEF OwnerPlaces
<1>2. ASSUME UNCHANGED <<stage, bridge, hooker, left>>, patched' \in BOOLEAN,
             UNCHANGED <<retaddrVars, skippedVars, threadVars>>,
             active' \in BOOLEAN, available' \in BOOLEAN, owner' \in OwnerPlaces,
             OwnerInv'
      PROVE  SpliceInv'
  <2>1. FramesOwned' /\ LeftBelow'
    BY <1>2, SlotsStay DEF threadVars
  <2>2. TypeOK' /\ PlaceInv' /\ SkippedOnce'
    BY <1>2 DEF TypeOK, PlaceInv, SkippedOnce, retaddrVars, skippedVars, threadVars
  <2>. QED
    BY <1>2, <2>1, <2>2
<1>3. UNCHANGED threadVars => (HookerFree' <=> HookerFree)
  BY DEF HookerFree, threadVars
<1>4. CASE HookEnable \/ HookWrite \/ HookWriteFails
  <2>1. /\ UNCHANGED <<stage, bridge, hooker, left, available>>
        /\ UNCHANGED <<retaddrVars, skippedVars, threadVars>>
        /\ active' \in BOOLEAN /\ patched' \in BOOLEAN
        /\ owner \in {"created", "enabled"} /\ owner' \in {"enabled", "held", "restored"}
    BY <1>4 DEF HookEnable, HookWrite, HookWriteFails, OwnerGoes, SetActive, TypeOK, vars,
                objectVars
  <2>2. OwnerInv'
    BY <2>1 DEF OwnerInv
  <2>. QED
    BY <1>2, <2>1, <2>2 DEF OwnerPlaces, TypeOK
<1>5. CASE UnhookWrite \/ SwitchAll
  <2>1. /\ UNCHANGED <<stage, bridge, hooker, left, available>>
        /\ UNCHANGED <<retaddrVars, skippedVars, threadVars>>
        /\ active' \in BOOLEAN /\ patched' \in BOOLEAN
        /\ owner \in {"held", "busy"} /\ owner' \in {"held", "restored"}
    BY <1>5 DEF UnhookWrite, SwitchAll, OwnerGoes, SetActive, TypeOK, vars, objectVars
  <2>2. OwnerInv'
    BY <2>1 DEF OwnerInv
  <2>. QED
    BY <1>2, <2>1, <2>2 DEF OwnerPlaces, TypeOK
<1>6. CASE UnhookDisable
  <2>1. /\ UNCHANGED <<stage, bridge, hooker, left, available, patched>>
        /\ UNCHANGED <<retaddrVars, skippedVars, threadVars>>
        /\ active' = FALSE /\ owner = "restored" /\ owner' = "disabled"
    BY <1>6 DEF UnhookDisable, OwnerGoes, SetActive
  <2>2. OwnerInv'
    BY <2>1 DEF OwnerInv
  <2>. QED
    BY <1>2, <2>1, <2>2 DEF OwnerPlaces, TypeOK
<1>7. CASE UnhookCheck
  <2>1. /\ UNCHANGED <<stage, bridge, hooker, left, active, patched>> /\ stage = "ready"
        /\ UNCHANGED <<retaddrVars, skippedVars, threadVars>>
        /\ available' \in BOOLEAN /\ owner = "disabled"
        /\ owner' = IF DestroyAvailable THEN "available" ELSE "busy"
    BY <1>7 DEF UnhookCheck, OwnerGoes, CheckDestroy, DestroyAvailable
  <2>2. ASSUME DestroyAvailable
        PROVE  HookerFree
    <3>1. \A t \in Threads : Own(t) = {}
      BY <2>2, ThreadsAssumption DEF DestroyAvailable, Own
    <3>2. ASSUME NEW t \in Threads
          PROVE  frames[t] = << >>
      <4>1. Len(frames[t]) # 0 => 1 \in 1 .. Len(frames[t])
        BY Typed
      <4>2. Len(frames[t]) = 0
        BY <2>1, <3>1, <4>1 DEF FramesOwned
      <4>. QED
        BY <4>2, Typed
    <3>. QED
      BY <3>2 DEF HookerFree, PlaceInv
  <2>3. OwnerInv'
    BY <1>3, <2>1, <2>2 DEF OwnerInv
  <2>. QED
    BY <1>2, <2>1, <2>3 DEF OwnerPlaces, TypeOK
<1>8. CASE UnhookDestroy
  <2>1. /\ stage' = "destroyed" /\ active' = FALSE /\ bridge' = NULL /\ hooker' = NULL
        /\ retaddr_array' = << >> /\ retaddr_count' = 0
        /\ skipped_array' = << >> /\ skipped_count' = 0
        /\ UNCHANGED <<available, threadVars>> /\ UNCHANGED <<patched, left>>
        /\ owner = "available" /\ owner' = "destroyed"
    BY <1>8 DEF UnhookDestroy, OwnerGoes, Destroy
  <2>2. TypeOK'
    BY <2>1, EmptyArray DEF TypeOK, threadVars
  <2>5. PlaceInv' /\ SkippedOnce'
    BY <2>1 DEF PlaceInv, SkippedOnce, threadVars
  <2>3. FramesOwned' /\ LeftBelow'
    BY <2>1 DEF FramesOwned, LeftBelow
  <2>4. OwnerInv'
    BY <1>3, <2>1 DEF OwnerInv
  <2>. QED
    BY <2>1, <2>2, <2>3, <2>4, <2>5 DEF OwnerPlaces
<1>. QED
  BY <1>1, <1>4, <1>5, <1>6, <1>7, <1>8 DEF Hook, Unhook

LEMMA SpliceNextInv == SpliceInv /\ [SpliceNext]_spliceVars => SpliceInv'
<1>. SUFFICES ASSUME SpliceInv, [SpliceNext]_spliceVars
              PROVE  SpliceInv'
  OBVIOUS
<1>. USE DEF SpliceInv, SpliceTypeOK
<1>1. CASE Hook \/ Unhook \/ SwitchAll
  BY <1>1, OwnerOwned
<1>2. ASSUME NEW t \in Threads, ThreadRuns(t) \/ CallPatched(t)
      PROVE  SpliceInv'
  <2>1. /\ ThreadStep(t) \/ \E a \in Addresses : Call(t, a)
        /\ UNCHANGED <<owner, left>> /\ UNCHANGED <<patched, owner, left>>
    BY <1>2 DEF ThreadRuns, CallPatched
  <2>2. Jumping' /\ OwnerInv'
    BY <2>1, ThreadOwned
  <2>3. UNCHANGED skipped_array
    BY <2>1 DEF ThreadStep, Push, ReadActive, CheckSkipped, Return, Pop, Land, Fault, Call,
                skippedVars
  <2>. QED
    BY <2>1, <2>2, <2>3 DEF Jumping, SkippedOnce
<1>3. ASSUME NEW t \in Threads, Leave(t)
      PROVE  SpliceInv'
  <2>1. /\ UNCHANGED <<objectVars, skippedVars, pc>> /\ UNCHANGED <<patched, owner>>
        /\ UNCHANGED stage /\ UNCHANGED active /\ UNCHANGED owner
    BY <1>3 DEF Leave, objectVars
  <2>2. /\ Jumping' /\ left' \in [Threads -> {"none", "all", "inner"}]
        /\ \A u \in Threads : \A k \in 1 .. Len(frames'[u]) :
              k \in 1 .. Len(frames[u]) /\ frames'[u][k] = frames[u][k]
    BY <1>3, LeaveOwned
  <2>3. HookerFree => HookerFree'
    BY <2>1, <2>2 DEF HookerFree
  <2>4. OwnerInv'
    BY <2>1, <2>3 DEF OwnerInv
  <2>. QED
    BY <2>1, <2>2, <2>4 DEF Jumping, SkippedOnce, skippedVars
<1>4. ASSUME UNCHANGED <<objectVars, retaddrVars, threadVars, patched, owner, left>>,
             skipped_count' \in Nat,
             skipped_array' \in [0 .. skipped_count' - 1 -> Threads \cup {NoThread}],
             SkippedOnce'
      PROVE  SpliceInv'
  <2>1. FramesOwned' /\ LeftBelow'
    BY <1>4, SlotsStay DEF objectVars, threadVars
  <2>2. TypeOK' /\ PlaceInv'
    BY <1>4 DEF TypeOK, PlaceInv, objectVars, retaddrVars, threadVars
  <2>3. OwnerInv'
    BY <1>4 DEF OwnerInv, HookerFree, objectVars, threadVars
  <2>. QED
    BY <1>4, <2>1, <2>2, <2>3
<1>5. ASSUME NEW t \in Threads, SwitchCurrent(t)
      PROVE  SpliceInv'
  <2>1. /\ UNCHANGED <<objectVars, retaddrVars, threadVars, patched, owner, left>>
        /\ SkippedAdd(t) \/ SkippedDel(t)
    BY <1>5 DEF SwitchCurrent, SetActiveForCurrentThread
  <2>. QED
    BY <1>4, <2>1, SkippedStep
<1>6. CASE UNCHANGED spliceVars
  BY <1>4, <1>6 DEF spliceVars, vars, skippedVars, TypeOK, SkippedOnce
<1>. QED
  BY <1>1, <1>2, <1>3, <1>5, <1>6 DEF SpliceNext

---------------------------------------------------------------------------
(* The theorems.                                                           *)

(* The inductive invariant holds in every reachable state of a hook.       *)
THEOREM SpliceInvariance == SpliceSpec => []SpliceInv
<1>. QED
  BY SpliceInitInv, SpliceNextInv, PTL DEF SpliceSpec

(* When the splice is destroyed no thread is in the hooker or on its way   *)
(* to it, whatever the threads did while it was unhooked.                  *)
THEOREM HookerIsNotOutlived == SpliceSpec => []HookerNeverOutlives
<1>1. SpliceInv => HookerNeverOutlives
  BY DEF SpliceInv, OwnerInv, HookerFree, HookerNeverOutlives
<1>. QED
  BY SpliceInvariance, <1>1, PTL

(* A return takes back the slot of its own call although calls of the      *)
(* thread were left, unless the call is one of those around them.          *)
THEOREM ReturnsTakeOwnSlots == SpliceSpec => LeftSlotsStay
<1>. DEFINE Stays == \A t \in Threads :
                       pc[t] = "leave" /\ pc'[t] = "landing" /\ left[t] # "inner" =>
                         retaddr_array'[Top(t).slot] = FreeRetaddr
<1>1. SpliceInv /\ [SpliceNext]_spliceVars => [Stays]_spliceVars
  <2>. SUFFICES ASSUME SpliceInv, SpliceNext, NEW t \in Threads,
                       pc[t] = "leave", pc'[t] = "landing", left[t] # "inner"
                PROVE  retaddr_array'[Top(t).slot] = FreeRetaddr
    OBVIOUS
  <2>. USE DEF SpliceInv, SpliceTypeOK
  <2>1. pc \in [Threads -> Places] /\ pc' # pc
    BY Typed
  <2>2. PICK u \in Threads : /\ ThreadStep(u) \/ \E a \in Addresses : Call(u, a)
                             /\ UNCHANGED left
    BY <2>1
    DEF SpliceNext, Hook, Unhook, HookCreate, HookEnable, HookWrite, HookWriteFails, UnhookWrite,
        UnhookDisable, UnhookCheck, UnhookDestroy, SwitchAll, SwitchCurrent, Leave, Create,
        SetActive, CheckDestroy, Destroy, SetActiveForCurrentThread, threadVars, vars,
        ThreadRuns, CallPatched
  <2>3. ASSUME \/ Push(u) \/ ReadActive(u) \/ CheckSkipped(u) \/ Return(u)
               \/ Land(u) \/ Fault(u) \/ \E a \in Addresses : Call(u, a)
        PROVE  FALSE
    BY <2>1, <2>3
    DEF Push, PushFree, PushExtend, PushFails, Store, ReadActive, CheckSkipped, Transfer,
        Return, Land, Fault, Call, Goto
  <2>4. Pop(u) /\ u = t
    <3>1. Pop(u)
      BY <2>2, <2>3 DEF ThreadStep
    <3>2. \E place : pc' = [pc EXCEPT ![u] = place]
      BY <3>1 DEF Pop, Goto
    <3>. QED
      BY <2>1, <3>1, <3>2
  <2>. QED
    BY <2>2, <2>4, PopOwned DEF Jumping
<1>2. [][Stays]_spliceVars => LeftSlotsStay
  BY PTL DEF LeftSlotsStay
<1>. QED
  BY SpliceInvariance, <1>1, <1>2, PTL DEF SpliceSpec

===========================================================================
