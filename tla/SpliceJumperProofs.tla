------------------------ MODULE SpliceJumperProofs ------------------------
(***************************************************************************)
(* Theorems about SpliceJumper for any number of threads, addresses and    *)
(* slots.                                                                  *)
(***************************************************************************)
EXTENDS SpliceJumperStacks, FiniteSetTheorems, SequenceTheorems, TLAPS

Inv == TypeOK /\ PlaceInv /\ SlotsMatchFrames /\ HookerOnlyOutermost

---------------------------------------------------------------------------
(* The slots a thread holds can be counted, and it holds none exactly when *)
(* the count is 0.                                                         *)
LEMMA OwnCount ==
  ASSUME TypeOK, NEW t \in Threads
  PROVE  /\ Cardinality(Own(t)) \in Nat
         /\ Cardinality(Own(t)) = 0 <=> Own(t) = {}
<1>1. IsFiniteSet(0 .. retaddr_count - 1)
  BY FS_Interval DEF TypeOK
<1>2. Own(t) \subseteq 0 .. retaddr_count - 1
  BY DEF Own, TypeOK
<1>3. IsFiniteSet(Own(t))
  BY <1>1, <1>2, FS_Subset
<1>. QED
  BY <1>3, FS_CardinalityType, FS_EmptySet

(* A sequence of frames without its last one.                              *)
LEMMA Shortened ==
  ASSUME NEW f \in Seq(Frame), f # << >>
  PROVE  /\ Len(f) \in Nat \ {0}
         /\ \A k \in 1 .. Len(f) : f[k] \in Frame
         /\ SubSeq(f, 1, Len(f) - 1) \in Seq(Frame)
         /\ Len(SubSeq(f, 1, Len(f) - 1)) = Len(f) - 1
         /\ \A k \in 1 .. Len(f) - 1 : SubSeq(f, 1, Len(f) - 1)[k] = f[k]
<1>1. Len(f) \in Nat \ {0}
  OBVIOUS
<1>2. \A k \in 1 .. Len(f) : f[k] \in Frame
  OBVIOUS
<1>. DEFINE n == Len(f) - 1
            g == SubSeq(f, 1, n)
<1>3. /\ n \in Nat
      /\ \A k \in 1 .. n : f[k] \in Frame
  BY <1>1, <1>2
<1>4. /\ g \in Seq(Frame)
      /\ Len(g) = IF 1 <= n THEN n - 1 + 1 ELSE 0
      /\ \A k \in 1 .. n - 1 + 1 : g[k] = f[1 + k - 1]
  <2>. HIDE DEF n
  <2>1. g \in Seq(Frame)
    BY <1>3, SubSeqProperties
  <2>2. Len(g) = IF 1 <= n THEN n - 1 + 1 ELSE 0
    BY <1>3, SubSeqProperties
  <2>3. \A k \in 1 .. n - 1 + 1 : g[k] = f[1 + k - 1]
    BY <1>3, SubSeqProperties
  <2>. QED
    BY <2>1, <2>2, <2>3
<1>5. g \in Seq(Frame) /\ Len(g) = n /\ \A k \in 1 .. n : g[k] = f[k]
  <2>. HIDE DEF n, g
  <2>. QED
    BY <1>3, <1>4
<1>. QED
  BY <1>1, <1>2, <1>5

(* Storing an address of t in a free slot above all slots t holds.         *)
LEMMA StoreKeepsSlots ==
  ASSUME TypeOK, PlaceInv, SlotsMatchFrames, stage = "ready", stage' = "ready",
         NEW t \in Threads, pc[t] = "enter",
         NEW n \in Nat, NEW array \in [0 .. n - 1 -> Retaddr],
         NEW i \in 0 .. n - 1,
         n >= retaddr_count,
         \A j \in 0 .. n - 1 : array[j] = IF j < retaddr_count THEN retaddr_array[j]
                                          ELSE FreeRetaddr,
         array[i].thread_id = NoThread,
         \A j \in Own(t) : j < i,
         Store(array, t, i)
  PROVE  SlotsMatchFrames'
<1>1. /\ retaddr_array \in [0 .. retaddr_count - 1 -> Retaddr]
      /\ retaddr_count \in Nat
      /\ frames \in [Threads -> Seq(Frame)]
      /\ rax[t] \in Addresses
  BY DEF TypeOK, PlaceInv
<1>2. /\ retaddr_array' = [array EXCEPT ![i] = [thread_id |-> t, return_address |-> rax[t]]]
      /\ DOMAIN retaddr_array' = 0 .. n - 1
      /\ retaddr_array'[i].thread_id = t
      /\ retaddr_array'[i].return_address = rax[t]
  BY DEF Store
<1>3. \A j \in 0 .. n - 1 : j # i => retaddr_array'[j] = array[j]
  BY <1>2
<1>4. \A u \in Threads : Own(u)' = IF u = t THEN Own(u) \cup {i} ELSE Own(u)
  BY ThreadsAssumption, <1>1, <1>2, <1>3 DEF Own, FreeRetaddr
<1>. DEFINE new == [ret |-> rax[t], slot |-> i, code |-> NULL]
<1>5. frames' = [frames EXCEPT ![t] = Append(frames[t], new)]
  BY <1>1 DEF Store
<1>6. SUFFICES ASSUME NEW u \in Threads
               PROVE  /\ \A k \in 1 .. Len(frames'[u]) :
                           /\ frames'[u][k].slot \in Own(u)'
                           /\ retaddr_array'[frames'[u][k].slot].return_address
                                = frames'[u][k].ret
                      /\ \A k, l \in 1 .. Len(frames'[u]) :
                           k < l => frames'[u][k].slot < frames'[u][l].slot
                      /\ \A j \in Own(u)' :
                           \E k \in 1 .. Len(frames'[u]) : frames'[u][k].slot = j
  BY DEF SlotsMatchFrames
<1>7. CASE u # t
  <2>1. frames'[u] = frames[u] /\ Own(u)' = Own(u)
    BY <1>1, <1>4, <1>5, <1>7
  <2>2. \A j \in Own(u) : j # i /\ retaddr_array'[j] = retaddr_array[j]
    BY ThreadsAssumption, <1>1, <1>2, <1>3, <1>7, <2>1 DEF Own
  <2>. QED
    BY <2>1, <2>2 DEF SlotsMatchFrames
<1>8. CASE u = t
  <2>1. /\ Len(frames'[t]) = Len(frames[t]) + 1
        /\ \A k \in 1 .. Len(frames[t]) : frames'[t][k] = frames[t][k]
        /\ frames'[t][Len(frames[t]) + 1] = new
        /\ Len(frames[t]) \in Nat
    BY <1>1, <1>5
  <2>2. \A j \in Own(t) : j < i /\ retaddr_array'[j] = retaddr_array[j]
    BY <1>1, <1>2, <1>3 DEF Own
  <2>3. Own(t)' = Own(t) \cup {i}
    BY <1>4
  <2>4. ASSUME NEW k \in 1 .. Len(frames[t])
        PROVE  /\ frames'[t][k].slot = frames[t][k].slot
               /\ frames'[t][k].ret = frames[t][k].ret
               /\ frames[t][k].slot \in Own(t)
               /\ retaddr_array[frames[t][k].slot].return_address = frames[t][k].ret
    BY <2>1 DEF SlotsMatchFrames
  <2>5. ASSUME NEW k \in 1 .. Len(frames'[t])
        PROVE  /\ frames'[t][k].slot \in Own(t)'
               /\ retaddr_array'[frames'[t][k].slot].return_address = frames'[t][k].ret
    <3>1. CASE k = Len(frames[t]) + 1
      BY <1>2, <2>1, <2>3, <3>1
    <3>2. CASE k \in 1 .. Len(frames[t])
      BY <2>2, <2>3, <2>4, <3>2
    <3>. QED
      BY <2>1, <3>1, <3>2
  <2>6. ASSUME NEW k \in 1 .. Len(frames'[t]), NEW l \in 1 .. Len(frames'[t]), k < l
        PROVE  frames'[t][k].slot < frames'[t][l].slot
    <3>1. k \in 1 .. Len(frames[t])
      BY <2>1, <2>6
    <3>2. CASE l = Len(frames[t]) + 1
      BY <2>1, <2>2, <2>4, <3>1, <3>2
    <3>3. CASE l \in 1 .. Len(frames[t])
      BY <2>4, <2>6, <3>1, <3>3 DEF SlotsMatchFrames
    <3>. QED
      BY <2>1, <3>2, <3>3
  <2>7. ASSUME NEW j \in Own(t)'
        PROVE  \E k \in 1 .. Len(frames'[t]) : frames'[t][k].slot = j
    <3>1. CASE j = i
      BY <2>1, <3>1
    <3>2. CASE j \in Own(t)
      <4>1. PICK k \in 1 .. Len(frames[t]) : frames[t][k].slot = j
        BY <3>2 DEF SlotsMatchFrames
      <4>. QED
        BY <2>1, <4>1
    <3>. QED
      BY <2>3, <3>1, <3>2
  <2>. QED
    BY <1>8, <2>5, <2>6, <2>7
<1>. QED
  BY <1>7, <1>8

(* The slot a pop clears is that of the innermost call of the thread, and  *)
(* the address it returns that of the call's caller.                       *)
LEMMA TopIsInnermost ==
  ASSUME TypeOK, SlotsMatchFrames, stage = "ready",
         NEW t \in Threads, frames[t] # << >>
  PROVE  /\ \A i \in DOMAIN retaddr_array : IsTop(t, i) <=> i = Top(t).slot
         /\ Top(t).slot \in Own(t)
         /\ retaddr_array[CHOOSE i \in Own(t) : IsTop(t, i)].return_address = Top(t).ret
         /\ Top(t).ret \in Addresses
<1>1. /\ Len(frames[t]) \in Nat \ {0}
      /\ frames[t] \in Seq(Frame)
  BY DEF TypeOK
<1>. DEFINE d == Len(frames[t])
<1>2. d \in 1 .. d
  BY <1>1
<1>3. /\ Top(t).slot \in Own(t)
      /\ retaddr_array[Top(t).slot].return_address = Top(t).ret
  BY <1>2 DEF SlotsMatchFrames, Top
<1>4. Top(t).ret \in Addresses
  BY <1>1, <1>2, Shortened DEF Top, Frame
<1>5. Own(t) \subseteq 0 .. retaddr_count - 1
  BY DEF Own, TypeOK
<1>6. ASSUME NEW j \in Own(t)
      PROVE  j <= Top(t).slot
  <2>1. PICK k \in 1 .. d : frames[t][k].slot = j
    BY DEF SlotsMatchFrames
  <2>2. CASE k = d
    BY <1>3, <1>5, <2>1, <2>2 DEF Top, TypeOK
  <2>3. CASE k < d
    <3>1. frames[t][k].slot < frames[t][d].slot
      BY <1>2, <2>3 DEF SlotsMatchFrames
    <3>. QED
      BY <1>3, <1>5, <2>1, <3>1 DEF Top, TypeOK
  <2>. QED
    BY <1>1, <2>1, <2>2, <2>3
<1>7. \A i \in DOMAIN retaddr_array : IsTop(t, i) <=> i = Top(t).slot
  <2>1. IsTop(t, Top(t).slot)
    BY <1>3, <1>6 DEF IsTop
  <2>2. ASSUME NEW i \in DOMAIN retaddr_array, IsTop(t, i)
        PROVE  i = Top(t).slot
    BY <1>3, <1>5, <1>6, <2>2 DEF IsTop, TypeOK
  <2>. QED
    BY <2>1, <2>2
<1>8. (CHOOSE i \in Own(t) : IsTop(t, i)) = Top(t).slot
  <2>1. \A i \in Own(t) : IsTop(t, i) <=> i = Top(t).slot
    BY <1>7 DEF Own
  <2>. QED
    BY <1>3, <2>1
<1>. QED
  BY <1>3, <1>4, <1>7, <1>8

(* Clearing the slot of the innermost call.                                *)
LEMMA PopKeepsSlots ==
  ASSUME TypeOK, PlaceInv, SlotsMatchFrames, NEW t \in Threads, Pop(t)
  PROVE  SlotsMatchFrames'
<1>1. /\ retaddr_array \in [0 .. retaddr_count - 1 -> Retaddr]
      /\ frames \in [Threads -> Seq(Frame)]
      /\ frames[t] # << >>
      /\ stage = "ready"
  BY DEF TypeOK, PlaceInv, Pop
<1>. DEFINE d == Len(frames[t])
            s == Top(t).slot
<1>2. /\ d \in Nat \ {0}
      /\ frames'[t] = SubSeq(frames[t], 1, d - 1)
      /\ \A u \in Threads : u # t => frames'[u] = frames[u]
  BY <1>1 DEF Pop
<1>3. /\ Len(frames'[t]) = d - 1
      /\ \A k \in 1 .. d - 1 : frames'[t][k] = frames[t][k]
  BY <1>1, <1>2, Shortened
<1>4. /\ s \in Own(t)
      /\ retaddr_array' = [i \in DOMAIN retaddr_array |->
                              IF i = s THEN FreeRetaddr ELSE retaddr_array[i]]
  BY <1>1, TopIsInnermost DEF Pop
<1>5. \A u \in Threads : Own(u)' = IF u = t THEN Own(u) \ {s} ELSE Own(u)
  BY <1>4, ThreadsAssumption DEF Own, FreeRetaddr
<1>6. ASSUME NEW u \in Threads, u # t
      PROVE  s \notin Own(u)
  BY <1>4, <1>6 DEF Own
<1>7. \A i \in DOMAIN retaddr_array : i # s => retaddr_array'[i] = retaddr_array[i]
  BY <1>4
<1>8. \A u \in Threads : Own(u) \subseteq DOMAIN retaddr_array
  BY DEF Own
<1>9. SUFFICES ASSUME NEW u \in Threads
               PROVE  /\ \A k \in 1 .. Len(frames'[u]) :
                           /\ frames'[u][k].slot \in Own(u)'
                           /\ retaddr_array'[frames'[u][k].slot].return_address
                                = frames'[u][k].ret
                      /\ \A k, l \in 1 .. Len(frames'[u]) :
                           k < l => frames'[u][k].slot < frames'[u][l].slot
                      /\ \A j \in Own(u)' :
                           \E k \in 1 .. Len(frames'[u]) : frames'[u][k].slot = j
  BY DEF SlotsMatchFrames
<1>10. CASE u # t
  <2>1. frames'[u] = frames[u] /\ Own(u)' = Own(u)
    BY <1>2, <1>5, <1>10
  <2>2. \A j \in Own(u) : retaddr_array'[j] = retaddr_array[j]
    BY <1>6, <1>7, <1>8, <1>10
  <2>3. /\ \A k \in 1 .. Len(frames[u]) :
             /\ frames[u][k].slot \in Own(u)
             /\ retaddr_array[frames[u][k].slot].return_address = frames[u][k].ret
        /\ \A k, l \in 1 .. Len(frames[u]) :
             k < l => frames[u][k].slot < frames[u][l].slot
        /\ \A j \in Own(u) : \E k \in 1 .. Len(frames[u]) : frames[u][k].slot = j
    BY <1>1 DEF SlotsMatchFrames
  <2>4. \A k \in 1 .. Len(frames'[u]) :
          /\ frames'[u][k].slot \in Own(u)'
          /\ retaddr_array'[frames'[u][k].slot].return_address = frames'[u][k].ret
    BY <2>1, <2>2, <2>3
  <2>5. /\ \A k, l \in 1 .. Len(frames'[u]) :
             k < l => frames'[u][k].slot < frames'[u][l].slot
        /\ \A j \in Own(u)' : \E k \in 1 .. Len(frames'[u]) : frames'[u][k].slot = j
    BY <2>1, <2>3
  <2>. QED
    BY <2>4, <2>5
<1>11. CASE u = t
  <2>1. ASSUME NEW k \in 1 .. d - 1
        PROVE  frames[t][k].slot \in Own(t) /\ frames[t][k].slot < s
    BY <1>1, <1>2, <2>1 DEF SlotsMatchFrames, Top
  <2>2. ASSUME NEW k \in 1 .. Len(frames'[t])
        PROVE  /\ frames'[t][k].slot \in Own(t)'
               /\ retaddr_array'[frames'[t][k].slot].return_address = frames'[t][k].ret
    <3>1. /\ k \in 1 .. d - 1
          /\ k \in 1 .. d
          /\ frames'[t][k] = frames[t][k]
      BY <1>2, <1>3
    <3>2. frames[t][k].slot \in Own(t) /\ frames[t][k].slot # s
      BY <1>4, <1>8, <2>1, <3>1 DEF TypeOK
    <3>. QED
      BY <1>1, <1>5, <1>7, <1>8, <3>1, <3>2 DEF SlotsMatchFrames
  <2>3. ASSUME NEW k \in 1 .. Len(frames'[t]), NEW l \in 1 .. Len(frames'[t]), k < l
        PROVE  frames'[t][k].slot < frames'[t][l].slot
    <3>1. /\ k \in 1 .. d - 1 /\ k \in 1 .. d
          /\ l \in 1 .. d - 1 /\ l \in 1 .. d
      BY <1>2, <1>3
    <3>. QED
      BY <1>1, <1>3, <2>3, <3>1 DEF SlotsMatchFrames
  <2>4. ASSUME NEW j \in Own(t)'
        PROVE  \E k \in 1 .. Len(frames'[t]) : frames'[t][k].slot = j
    <3>1. j \in Own(t) /\ j # s
      BY <1>5
    <3>2. PICK k \in 1 .. d : frames[t][k].slot = j
      BY <1>1, <3>1 DEF SlotsMatchFrames
    <3>3. k \in 1 .. d - 1
      BY <1>2, <3>1, <3>2 DEF Top
    <3>. QED
      BY <1>3, <3>2, <3>3
  <2>. QED
    BY <1>11, <2>2, <2>3, <2>4
<1>. QED
  BY <1>10, <1>11

---------------------------------------------------------------------------
(* The steps, one lemma for each kind.                                     *)

(* Steps that touch neither array nor frames.                              *)
LEMMA QuietStep ==
  ASSUME Inv, UNCHANGED <<stage, retaddrVars, frames>>
  PROVE  SlotsMatchFrames' /\ HookerOnlyOutermost'
<1>1. /\ stage' = stage /\ retaddr_array' = retaddr_array /\ frames' = frames
  BY DEF retaddrVars
<1>2. \A t : Own(t)' = Own(t)
  BY <1>1 DEF Own
<1>. QED
  BY <1>1, <1>2 DEF Inv, SlotsMatchFrames, HookerOnlyOutermost

LEMMA PushStep ==
  ASSUME Inv, NEW t \in Threads, Push(t)
  PROVE  Inv'
<1>. USE DEF Inv
<1>1. /\ stage = "ready" /\ stage' = "ready" /\ pc[t] = "enter"
      /\ rax[t] \in Addresses
      /\ UNCHANGED <<objectVars, skippedVars>>
  BY DEF Push, PlaceInv, objectVars
<1>2. ASSUME NEW n \in Nat, NEW array \in [0 .. n - 1 -> Retaddr], NEW i \in 0 .. n - 1,
             n >= retaddr_count, retaddr_count' = n,
             \A j \in 0 .. n - 1 : array[j] = IF j < retaddr_count THEN retaddr_array[j]
                                              ELSE FreeRetaddr,
             array[i].thread_id = NoThread,
             \A j \in Own(t) : j < i,
             Store(array, t, i)
      PROVE  Inv'
  <2>1. SlotsMatchFrames'
    BY <1>1, <1>2, StoreKeepsSlots
  <2>. DEFINE new == [ret |-> rax[t], slot |-> i, code |-> NULL]
  <2>2. /\ new \in Frame
        /\ new.code = NULL
    BY <1>1 DEF Frame
  <2>3. /\ frames' = [frames EXCEPT ![t] = Append(frames[t], new)]
        /\ frames \in [Threads -> Seq(Frame)]
        /\ \A u \in Threads : Len(frames[u]) \in Nat
    BY <1>2 DEF Store, TypeOK
  <2>. HIDE DEF new
  <2>4. /\ frames' \in [Threads -> Seq(Frame)]
        /\ \A u \in Threads : u # t => frames'[u] = frames[u]
        /\ Len(frames'[t]) = Len(frames[t]) + 1
        /\ \A k \in 1 .. Len(frames[t]) : frames'[t][k] = frames[t][k]
        /\ frames'[t][Len(frames[t]) + 1] = new
        /\ frames'[t] # << >>
    <3>1. /\ frames'[t] = Append(frames[t], new)
          /\ frames[t] \in Seq(Frame)
          /\ \A u \in Threads : u # t => frames'[u] = frames[u]
      BY <2>3
    <3>2. /\ Append(frames[t], new) \in Seq(Frame)
          /\ Append(frames[t], new) # << >>
          /\ Len(Append(frames[t], new)) = Len(frames[t]) + 1
          /\ \A k \in 1 .. Len(frames[t]) : Append(frames[t], new)[k] = frames[t][k]
          /\ Append(frames[t], new)[Len(frames[t]) + 1] = new
      BY <2>2, <3>1, AppendProperties
    <3>3. frames' \in [Threads -> Seq(Frame)]
      BY <2>3, <3>2
    <3>. QED
      BY <3>1, <3>2, <3>3
  <2>5. HookerOnlyOutermost'
    <3>. SUFFICES ASSUME NEW u \in Threads, NEW k \in 1 .. Len(frames'[u]),
                         frames'[u][k].code \in Hookers
                  PROVE  k = 1
      BY DEF HookerOnlyOutermost
    <3>1. CASE u = t /\ k = Len(frames[t]) + 1
      BY <2>2, <2>4, <3>1, AddressAssumption
    <3>2. CASE u = t /\ k \in 1 .. Len(frames[t])
      BY <2>4, <3>2 DEF HookerOnlyOutermost
    <3>3. CASE u # t
      BY <2>4, <3>3 DEF HookerOnlyOutermost
    <3>. QED
      BY <2>3, <2>4, <3>1, <3>2, <3>3
  <2>6. /\ pc' = [pc EXCEPT ![t] = "select"]
        /\ rax' = [rax EXCEPT ![t] = NULL]
        /\ old_count' = [old_count EXCEPT ![t] = Cardinality(Own(t))]
        /\ Cardinality(Own(t)) \in Nat
        /\ Cardinality(Own(t)) = 0 <=> Own(t) = {}
        /\ retaddr_array' = [array EXCEPT ![i] =
                               [thread_id |-> t, return_address |-> rax[t]]]
    BY <1>2, OwnCount DEF Store, Goto
  <2>7. Own(t) = {} => frames[t] = << >>
    <3>. SUFFICES ASSUME frames[t] # << >>
                  PROVE  Own(t) # {}
      OBVIOUS
    <3>. QED
      BY <1>1, TopIsInnermost
  <2>8. TypeOK'
    <3>1. retaddr_array' \in [0 .. retaddr_count' - 1 -> Retaddr]
      BY <1>1, <1>2, <2>6 DEF Retaddr
    <3>. QED
      BY <1>1, <1>2, <2>4, <2>6, <3>1
      DEF TypeOK, objectVars, skippedVars, Places, Inside
  <2>9. PlaceInv'
    BY <1>1, <2>3, <2>4, <2>6, <2>7 DEF PlaceInv, TypeOK
  <2>. QED
    BY <2>1, <2>5, <2>8, <2>9
<1>3. CASE PushFree(t)
  <2>1. PICK i \in Candidates(t) : Store(retaddr_array, t, i) /\ UNCHANGED retaddr_count
    BY <1>3 DEF PushFree
  <2>2. /\ retaddr_count \in Nat
        /\ retaddr_array \in [0 .. retaddr_count - 1 -> Retaddr]
        /\ i \in 0 .. retaddr_count - 1
        /\ retaddr_array[i].thread_id = NoThread
        /\ \A j \in Own(t) : j < i
    BY DEF Candidates, TypeOK
  <2>. QED
    BY <1>2, <2>1, <2>2
<1>4. CASE PushExtend(t)
  <2>. DEFINE n == retaddr_count + RetaddrExtend
  <2>1. /\ n \in Nat /\ n >= retaddr_count
        /\ retaddr_count \in 0 .. n - 1
        /\ retaddr_count' = n
        /\ Store(Extended, t, retaddr_count)
    BY <1>4, ExtendAssumption DEF PushExtend, TypeOK
  <2>2. /\ Extended \in [0 .. n - 1 -> Retaddr]
        /\ \A j \in 0 .. n - 1 : Extended[j] = IF j < retaddr_count THEN retaddr_array[j]
                                                ELSE FreeRetaddr
        /\ Extended[retaddr_count].thread_id = NoThread
    <3>1. /\ FreeRetaddr \in Retaddr
          /\ FreeRetaddr.thread_id = NoThread
      BY DEF FreeRetaddr, Retaddr
    <3>2. /\ retaddr_count \in Nat
          /\ retaddr_array \in [0 .. retaddr_count - 1 -> Retaddr]
      BY DEF TypeOK
    <3>3. Extended = [j \in 0 .. n - 1 |-> IF j < retaddr_count THEN retaddr_array[j]
                                           ELSE FreeRetaddr]
      BY <3>2, ExtendAssumption DEF Extended
    <3>. HIDE DEF n
    <3>4. \A j \in 0 .. n - 1 :
            (IF j < retaddr_count THEN retaddr_array[j] ELSE FreeRetaddr) \in Retaddr
      BY <2>1, <3>1, <3>2
    <3>5. Extended \in [0 .. n - 1 -> Retaddr]
      BY <3>3, <3>4
    <3>. QED
      BY <2>1, <3>1, <3>2, <3>3, <3>5
  <2>3. \A j \in Own(t) : j < retaddr_count
    BY DEF Own, TypeOK
  <2>. HIDE DEF n
  <2>. QED
    BY <1>2, <2>1, <2>2, <2>3
<1>5. CASE PushFails(t)
  <2>1. /\ pc' = [pc EXCEPT ![t] = "nullcall"]
        /\ rax' = [rax EXCEPT ![t] = NULL]
        /\ UNCHANGED <<retaddrVars, old_count, frames>>
    BY <1>5 DEF PushFails, Goto
  <2>2. SlotsMatchFrames' /\ HookerOnlyOutermost'
    BY <1>1, <2>1, QuietStep
  <2>3. TypeOK'
    BY <1>1, <2>1 DEF TypeOK, objectVars, skippedVars, retaddrVars, Places, Inside
  <2>4. PlaceInv'
    BY <1>1, <2>1 DEF PlaceInv, TypeOK, retaddrVars
  <2>. QED
    BY <2>2, <2>3, <2>4
<1>. QED
  BY <1>3, <1>4, <1>5 DEF Push

(* Control goes to some code from the entry code: only the innermost frame *)
(* changes, and only in where its code runs.                               *)
LEMMA TransferStep ==
  ASSUME Inv, NEW t \in Threads, stage = "ready", pc[t] \in {"select", "check"},
         NEW code \in Bridges \cup Hookers \cup {NULL},
         code \in Hookers => old_count[t] = 0,
         Transfer(t, code),
         UNCHANGED <<objectVars, retaddrVars, skippedVars, rax>>
  PROVE  Inv'
<1>. USE DEF Inv
<1>1. /\ UNCHANGED <<stage, active, bridge, hooker, available, rax>>
      /\ UNCHANGED <<retaddr_array, retaddr_count, skipped_array, skipped_count>>
  BY DEF objectVars, retaddrVars, skippedVars
<1>2. /\ frames \in [Threads -> Seq(Frame)]
      /\ frames[t] \in Seq(Frame)
      /\ frames[t] # << >>
      /\ old_count[t] = 0 => Len(frames[t]) = 1
  BY DEF TypeOK, PlaceInv
<1>. DEFINE d   == Len(frames[t])
            new == [frames[t][d] EXCEPT !.code = code]
<1>3. /\ d \in Nat \ {0}
      /\ \A k \in 1 .. d : frames[t][k] \in Frame
  BY <1>2, Shortened
<1>4. /\ new \in Frame
      /\ new.ret = frames[t][d].ret
      /\ new.slot = frames[t][d].slot
      /\ new.code = code
  <2>1. frames[t][d] \in Frame
    BY <1>3
  <2>. QED
    BY <2>1 DEF Frame
<1>5. frames' = [frames EXCEPT ![t] = [frames[t] EXCEPT ![d] = new]]
  BY <1>2 DEF Transfer
<1>. HIDE DEF new, d
<1>6. /\ frames'[t] = [frames[t] EXCEPT ![d] = new]
      /\ frames' \in [Threads -> Seq(Frame)]
      /\ \A u \in Threads : u # t => frames'[u] = frames[u]
  <2>1. d \in 1 .. Len(frames[t])
    BY <1>3 DEF d
  <2>2. [frames[t] EXCEPT ![d] = new] \in Seq(Frame)
    BY <1>2, <1>4, <2>1, ExceptSeq
  <2>. QED
    BY <1>2, <1>5, <2>2
<1>7. /\ Len(frames'[t]) = d
      /\ \A k \in 1 .. d : frames'[t][k] = IF k = d THEN new ELSE frames[t][k]
      /\ frames'[t] # << >>
  <2>1. Len(frames[t]) = d
    BY DEF d
  <2>2. /\ Len(frames'[t]) = d
        /\ \A k \in 1 .. d : frames'[t][k] = IF k = d THEN new ELSE frames[t][k]
    BY <1>2, <1>4, <1>6, <2>1, ExceptSeq
  <2>. QED
    BY <1>3, <2>2
<1>8. \A u \in Threads :
        /\ Len(frames'[u]) = Len(frames[u])
        /\ \A k \in 1 .. Len(frames[u]) : /\ frames'[u][k].slot = frames[u][k].slot
                                          /\ frames'[u][k].ret = frames[u][k].ret
  BY <1>4, <1>6, <1>7 DEF d
<1>9. SlotsMatchFrames'
  <2>1. \A u : Own(u)' = Own(u)
    BY <1>1 DEF Own
  <2>. SUFFICES ASSUME stage = "ready", NEW u \in Threads
                PROVE  /\ \A k \in 1 .. Len(frames'[u]) :
                            /\ frames'[u][k].slot \in Own(u)
                            /\ retaddr_array[frames'[u][k].slot].return_address
                                 = frames'[u][k].ret
                       /\ \A k, l \in 1 .. Len(frames'[u]) :
                            k < l => frames'[u][k].slot < frames'[u][l].slot
                       /\ \A i \in Own(u) :
                            \E k \in 1 .. Len(frames'[u]) : frames'[u][k].slot = i
    BY <1>1, <2>1 DEF SlotsMatchFrames
  <2>2. /\ \A k \in 1 .. Len(frames[u]) :
             /\ frames[u][k].slot \in Own(u)
             /\ retaddr_array[frames[u][k].slot].return_address = frames[u][k].ret
        /\ \A k, l \in 1 .. Len(frames[u]) :
             k < l => frames[u][k].slot < frames[u][l].slot
        /\ \A i \in Own(u) : \E k \in 1 .. Len(frames[u]) : frames[u][k].slot = i
    BY DEF SlotsMatchFrames
  <2>3. \A k \in 1 .. Len(frames'[u]) :
          /\ frames'[u][k].slot \in Own(u)
          /\ retaddr_array[frames'[u][k].slot].return_address = frames'[u][k].ret
    BY <1>8, <2>2
  <2>4. /\ \A k, l \in 1 .. Len(frames'[u]) :
             k < l => frames'[u][k].slot < frames'[u][l].slot
        /\ \A i \in Own(u) : \E k \in 1 .. Len(frames'[u]) : frames'[u][k].slot = i
    BY <1>8, <2>2
  <2>. QED
    BY <2>3, <2>4
<1>10. HookerOnlyOutermost'
  <2>. SUFFICES ASSUME NEW u \in Threads, NEW k \in 1 .. Len(frames'[u]),
                       frames'[u][k].code \in Hookers
                PROVE  k = 1
    BY DEF HookerOnlyOutermost
  <2>1. CASE u = t /\ k = d
    BY <1>2, <1>3, <1>4, <1>7, <2>1 DEF d
  <2>2. CASE u # t \/ k # d
    <3>1. k \in 1 .. Len(frames[u]) /\ frames'[u][k] = frames[u][k]
      BY <1>6, <1>7, <1>8, <2>2
    <3>. QED
      BY <3>1 DEF HookerOnlyOutermost
  <2>. QED
    BY <2>1, <2>2
<1>11. /\ pc' = [pc EXCEPT ![t] = "user"]
       /\ old_count' = [old_count EXCEPT ![t] = 0]
  BY DEF Transfer, Goto
<1>12. TypeOK'
  BY <1>1, <1>6, <1>11 DEF TypeOK, Places, Inside
<1>13. PlaceInv'
  BY <1>1, <1>6, <1>7, <1>8, <1>11 DEF PlaceInv, TypeOK
<1>. QED
  BY <1>9, <1>10, <1>12, <1>13

LEMMA SelectStep ==
  ASSUME Inv, NEW t \in Threads, ReadActive(t) \/ CheckSkipped(t)
  PROVE  Inv'
<1>1. bridge \in Bridges \cup {NULL} /\ hooker \in Hookers \cup {NULL}
  BY DEF Inv, TypeOK
<1>2. bridge \notin Hookers
  BY <1>1, TargetAssumption, AddressAssumption
<1>3. CASE ReadActive(t) /\ ForHooker(t)
  <2>1. /\ pc' = [pc EXCEPT ![t] = "check"]
        /\ pc[t] = "select" /\ old_count[t] = 0
        /\ UNCHANGED <<objectVars, retaddrVars, skippedVars, rax, old_count, frames>>
    BY <1>3 DEF ReadActive, ForHooker, Goto
  <2>2. SlotsMatchFrames' /\ HookerOnlyOutermost'
    BY <2>1, QuietStep DEF objectVars
  <2>3. TypeOK' /\ PlaceInv'
    BY <2>1 DEF Inv, TypeOK, PlaceInv, Places, Inside, objectVars, retaddrVars, skippedVars
  <2>. QED
    BY <2>2, <2>3 DEF Inv
<1>4. CASE ReadActive(t) /\ ~ForHooker(t)
  BY <1>1, <1>2, <1>4, TransferStep DEF ReadActive
<1>5. CASE CheckSkipped(t)
  <2>1. old_count[t] = 0
    BY <1>5 DEF CheckSkipped, Inv, PlaceInv
  <2>. DEFINE code == IF Skipped(t) THEN bridge ELSE hooker
  <2>2. code \in Bridges \cup Hookers \cup {NULL} /\ Transfer(t, code)
    BY <1>1, <1>5 DEF CheckSkipped
  <2>. HIDE DEF code
  <2>. QED
    BY <1>5, <2>1, <2>2, TransferStep DEF CheckSkipped
<1>. QED
  BY <1>3, <1>4, <1>5

LEMMA PopStep ==
  ASSUME Inv, NEW t \in Threads, Pop(t)
  PROVE  /\ Inv'
         /\ pc' = [pc EXCEPT ![t] = "landing"]
         /\ rax' = [rax EXCEPT ![t] = Top(t).ret]
<1>. USE DEF Inv
<1>1. /\ stage = "ready" /\ pc[t] = "leave" /\ frames[t] # << >>
      /\ UNCHANGED <<stage, active, bridge, hooker, available, retaddr_count>>
      /\ UNCHANGED <<skipped_array, skipped_count, old_count>>
      /\ frames \in [Threads -> Seq(Frame)] /\ frames[t] \in Seq(Frame)
  BY DEF Pop, PlaceInv, TypeOK, objectVars, skippedVars
<1>2. SlotsMatchFrames'
  BY PopKeepsSlots
<1>3. Own(t) # {} /\ Top(t).ret \in Addresses
  BY <1>1, TopIsInnermost
<1>4. rax' = [rax EXCEPT ![t] = Top(t).ret]
  BY <1>1, <1>3, TopIsInnermost DEF Pop
<1>5. pc' = [pc EXCEPT ![t] = "landing"]
  <2>1. rax'[t] # NULL
    BY <1>3, <1>4, AddressAssumption DEF TypeOK
  <2>. QED
    BY <2>1 DEF Pop, Goto
<1>. DEFINE d == Len(frames[t])
<1>6. /\ d \in Nat \ {0}
      /\ frames' \in [Threads -> Seq(Frame)]
      /\ Len(frames'[t]) = d - 1
      /\ \A k \in 1 .. d - 1 : frames'[t][k] = frames[t][k]
      /\ \A u \in Threads : u # t => frames'[u] = frames[u]
  <2>1. frames' = [frames EXCEPT ![t] = SubSeq(frames[t], 1, d - 1)]
    BY <1>1 DEF Pop
  <2>. QED
    BY <1>1, <2>1, Shortened
<1>7. HookerOnlyOutermost'
  <2>. SUFFICES ASSUME NEW u \in Threads, NEW k \in 1 .. Len(frames'[u]),
                       frames'[u][k].code \in Hookers
                PROVE  k = 1
    BY DEF HookerOnlyOutermost
  <2>1. k \in 1 .. Len(frames[u]) /\ frames'[u][k] = frames[u][k]
    BY <1>6
  <2>. QED
    BY <2>1 DEF HookerOnlyOutermost
<1>8. TypeOK'
  <2>1. retaddr_array' \in [0 .. retaddr_count' - 1 -> Retaddr]
    BY <1>1 DEF Pop, TypeOK, FreeRetaddr, Retaddr
  <2>. QED
    BY <1>1, <1>3, <1>4, <1>5, <1>6, <2>1 DEF TypeOK, Places, Inside
<1>9. PlaceInv'
  BY <1>1, <1>4, <1>5, <1>6 DEF PlaceInv, TypeOK
<1>. QED
  BY <1>2, <1>4, <1>5, <1>7, <1>8, <1>9

(* The steps of user code and those around the jumper's own code.          *)
LEMMA UserStep ==
  ASSUME Inv, NEW t \in Threads,
         \/ \E a \in Addresses : Call(t, a)
         \/ Return(t)
         \/ Land(t)
         \/ Fault(t)
  PROVE  Inv'
<1>1. UNCHANGED <<objectVars, retaddrVars, skippedVars, old_count, frames>>
  BY DEF Call, Return, Land, Fault
<1>2. SlotsMatchFrames' /\ HookerOnlyOutermost'
  BY <1>1, QuietStep DEF objectVars
<1>3. CASE \E a \in Addresses : Call(t, a)
  BY <1>1, <1>2, <1>3
  DEF Inv, TypeOK, PlaceInv, Call, Goto, Places, Inside, objectVars, retaddrVars, skippedVars
<1>4. CASE Return(t)
  BY <1>1, <1>2, <1>4
  DEF Inv, TypeOK, PlaceInv, Return, Goto, Places, Inside, objectVars, retaddrVars, skippedVars
<1>5. CASE Land(t)
  BY <1>1, <1>2, <1>5
  DEF Inv, TypeOK, PlaceInv, Land, Goto, Places, Inside, objectVars, retaddrVars, skippedVars
<1>6. CASE Fault(t)
  BY <1>1, <1>2, <1>6
  DEF Inv, TypeOK, PlaceInv, Fault, Goto, Places, Inside, objectVars, retaddrVars, skippedVars
<1>. QED
  BY <1>3, <1>4, <1>5, <1>6

(* Marking a thread as skipped keeps the array a list of threads, each in  *)
(* it at most once.                                                        *)
LEMMA SkippedStep ==
  ASSUME TypeOK, SkippedOnce, NEW t \in Threads, SkippedAdd(t) \/ SkippedDel(t)
  PROVE  /\ skipped_count' \in Nat
         /\ skipped_array' \in [0 .. skipped_count' - 1 -> Threads \cup {NoThread}]
         /\ SkippedOnce'
<1>1. /\ skipped_count \in Nat
      /\ skipped_array \in [0 .. skipped_count - 1 -> Threads \cup {NoThread}]
  BY DEF TypeOK
<1>2. CASE Skipped(t) /\ UNCHANGED skippedVars
  BY <1>1, <1>2 DEF skippedVars, SkippedOnce
<1>3. CASE /\ ~Skipped(t)
           /\ \E i \in FreeSkipped : skipped_array' = [skipped_array EXCEPT ![i] = t]
           /\ UNCHANGED skipped_count
  BY <1>1, <1>3 DEF FreeSkipped, Skipped, SkippedOnce
<1>4. CASE /\ ~Skipped(t)
           /\ skipped_count' = skipped_count + SkippedExtend
           /\ skipped_array' = [i \in 0 .. skipped_count + SkippedExtend - 1 |->
                                  IF i < skipped_count THEN skipped_array[i]
                                  ELSE IF i = skipped_count THEN t ELSE NoThread]
  <2>. DEFINE n == skipped_count + SkippedExtend
  <2>1. n \in Nat
    BY <1>1, ExtendAssumption
  <2>2. skipped_array' = [i \in 0 .. n - 1 |->
                            IF i < skipped_count THEN skipped_array[i]
                            ELSE IF i = skipped_count THEN t ELSE NoThread]
    BY <1>1, <1>4, ExtendAssumption
  <2>3. skipped_count' = n
    BY <1>4
  <2>. HIDE DEF n
  <2>4. skipped_array' \in [0 .. n - 1 -> Threads \cup {NoThread}]
    BY <1>1, <2>1, <2>2
  <2>5. SkippedOnce'
    BY <1>1, <1>4, <2>1, <2>2 DEF SkippedOnce, Skipped
  <2>. QED
    BY <2>1, <2>3, <2>4, <2>5
<1>5. CASE SkippedDel(t)
  BY <1>1, <1>5 DEF SkippedDel, SkippedOnce
<1>. QED
  BY <1>2, <1>3, <1>4, <1>5 DEF SkippedAdd

LEMMA SwitchStep ==
  ASSUME Inv, SkippedOnce, NEW t \in Threads, NEW on \in BOOLEAN,
         SetActiveForCurrentThread(t, on)
  PROVE  Inv' /\ SkippedOnce'
<1>1. /\ UNCHANGED <<objectVars, retaddrVars, threadVars>>
      /\ SkippedAdd(t) \/ SkippedDel(t)
  BY DEF SetActiveForCurrentThread
<1>2. SlotsMatchFrames' /\ HookerOnlyOutermost'
  BY <1>1, QuietStep DEF objectVars, threadVars
<1>3. /\ skipped_count' \in Nat
      /\ skipped_array' \in [0 .. skipped_count' - 1 -> Threads \cup {NoThread}]
      /\ SkippedOnce'
  BY <1>1, SkippedStep DEF Inv
<1>. QED
  BY <1>1, <1>2, <1>3 DEF Inv, TypeOK, PlaceInv, objectVars, retaddrVars, threadVars

(* The array a null pointer stands for.                                    *)
LEMMA EmptyArray ==
  ASSUME NEW S
  PROVE  << >> \in [0 .. 0 - 1 -> S]
<1>1. 0 .. 0 - 1 = {}
  OBVIOUS
<1>2. DOMAIN << >> = {} /\ << >> = [i \in {} |-> CHOOSE x \in S : TRUE]
  OBVIOUS
<1>. QED
  BY <1>1, <1>2

(* The steps of the owner.                                                 *)
LEMMA OwnerStep ==
  ASSUME Inv,
         \/ \E b \in Bridges, h \in Hookers : Create(b, h)
         \/ \E on \in BOOLEAN : SetActive(on)
         \/ \E b \in Bridges : SetBridge(b)
         \/ \E h \in Hookers : SetHooker(h)
         \/ CheckDestroy
         \/ Destroy
  PROVE  Inv'
<1>. USE DEF Inv
<1>1. CASE \E b \in Bridges, h \in Hookers : Create(b, h)
  <2>1. /\ UNCHANGED <<available, retaddrVars, skippedVars, threadVars>>
        /\ stage = "absent" /\ stage' = "ready"
        /\ active' \in BOOLEAN /\ bridge' \in Bridges /\ hooker' \in Hookers
    BY <1>1 DEF Create
  <2>2. retaddr_count = 0 /\ \A u \in Threads : frames[u] = << >> /\ pc[u] = "user"
    BY <2>1 DEF PlaceInv
  <2>3. \A u : Own(u)' = {}
    BY <2>1, <2>2 DEF Own, TypeOK, retaddrVars
  <2>4. SlotsMatchFrames' /\ HookerOnlyOutermost'
    BY <2>1, <2>2, <2>3 DEF SlotsMatchFrames, HookerOnlyOutermost, threadVars
  <2>5. TypeOK' /\ PlaceInv'
    BY <2>1, <2>2 DEF TypeOK, PlaceInv, retaddrVars, skippedVars, threadVars
  <2>. QED
    BY <2>4, <2>5
<1>2. CASE \/ \E on \in BOOLEAN : SetActive(on)
           \/ \E b \in Bridges : SetBridge(b)
           \/ \E h \in Hookers : SetHooker(h)
           \/ CheckDestroy
  <2>1. /\ UNCHANGED <<stage, retaddrVars, skippedVars, threadVars>>
        /\ active' \in BOOLEAN /\ available' \in BOOLEAN
        /\ bridge' \in Bridges \cup {NULL} /\ hooker' \in Hookers \cup {NULL}
    BY <1>2 DEF SetActive, SetBridge, SetHooker, CheckDestroy, DestroyAvailable, TypeOK
  <2>2. SlotsMatchFrames' /\ HookerOnlyOutermost'
    BY <2>1, QuietStep DEF threadVars
  <2>3. TypeOK' /\ PlaceInv'
    BY <2>1 DEF TypeOK, PlaceInv, retaddrVars, skippedVars, threadVars
  <2>. QED
    BY <2>2, <2>3
<1>3. CASE Destroy
  <2>1. /\ stage' = "destroyed" /\ active' = FALSE /\ bridge' = NULL /\ hooker' = NULL
        /\ retaddr_array' = << >> /\ retaddr_count' = 0
        /\ skipped_array' = << >> /\ skipped_count' = 0
        /\ UNCHANGED <<available, threadVars>>
    BY <1>3 DEF Destroy
  <2>2. SlotsMatchFrames' /\ HookerOnlyOutermost'
    BY <2>1 DEF SlotsMatchFrames, HookerOnlyOutermost, threadVars
  <2>3. TypeOK' /\ PlaceInv'
    BY <2>1, EmptyArray DEF TypeOK, PlaceInv, threadVars
  <2>. QED
    BY <2>2, <2>3
<1>. QED
  BY <1>1, <1>2, <1>3

---------------------------------------------------------------------------
(* The theorems.                                                           *)

JumperInv == Inv /\ SkippedOnce

LEMMA InitInv == Init => JumperInv
<1>. SUFFICES ASSUME Init
              PROVE  JumperInv
  OBVIOUS
<1>1. /\ stage = "absent" /\ active = FALSE /\ available = FALSE
      /\ bridge = NULL /\ hooker = NULL
      /\ retaddr_array = << >> /\ retaddr_count = 0
      /\ skipped_array = << >> /\ skipped_count = 0
  BY DEF Init
<1>2. /\ pc        = [t \in Threads |-> "user"]
      /\ rax       = [t \in Threads |-> NULL]
      /\ old_count = [t \in Threads |-> 0]
      /\ frames    = [t \in Threads |-> << >>]
  BY DEF Init
<1>3. TypeOK
  <2>1. frames \in [Threads -> Seq(Frame)]
    BY <1>2
  <2>. QED
    BY <1>1, <1>2, <2>1, EmptyArray DEF TypeOK, Places, Inside
<1>4. PlaceInv
  BY <1>1, <1>2 DEF PlaceInv
<1>5. SlotsMatchFrames /\ HookerOnlyOutermost
  BY <1>1, <1>2 DEF SlotsMatchFrames, HookerOnlyOutermost
<1>6. SkippedOnce
  BY <1>1 DEF SkippedOnce
<1>. QED
  BY <1>3, <1>4, <1>5, <1>6 DEF JumperInv, Inv

LEMMA NextInv == JumperInv /\ [Next]_vars => JumperInv'
<1>. SUFFICES ASSUME JumperInv, [Next]_vars
              PROVE  JumperInv'
  OBVIOUS
<1>. USE DEF JumperInv
<1>1. ASSUME NEW t \in Threads, ThreadStep(t)
      PROVE  Inv' /\ SkippedOnce'
  <2>1. Inv'
    BY <1>1, PushStep, SelectStep, PopStep, UserStep DEF ThreadStep
  <2>2. UNCHANGED skipped_array
    BY <1>1
    DEF ThreadStep, Push, ReadActive, CheckSkipped, Return, Pop, Land, Fault, skippedVars
  <2>. QED
    BY <2>1, <2>2 DEF SkippedOnce
<1>2. ASSUME NEW t \in Threads, NEW a \in Addresses, Call(t, a)
      PROVE  Inv' /\ SkippedOnce'
  BY <1>2, UserStep DEF Call, skippedVars, SkippedOnce
<1>3. ASSUME NEW t \in Threads, NEW on \in BOOLEAN, SetActiveForCurrentThread(t, on)
      PROVE  Inv' /\ SkippedOnce'
  BY <1>3, SwitchStep
<1>. DEFINE Owner == \/ \E b \in Bridges, h \in Hookers : Create(b, h)
                     \/ \E on \in BOOLEAN : SetActive(on)
                     \/ \E b \in Bridges : SetBridge(b)
                     \/ \E h \in Hookers : SetHooker(h)
                     \/ CheckDestroy
                     \/ Destroy
<1>4. CASE Owner
  <2>1. Inv'
    BY <1>4, OwnerStep
  <2>2. skipped_array' = skipped_array \/ skipped_array' = << >>
    BY <1>4 DEF Create, SetActive, SetBridge, SetHooker, CheckDestroy, Destroy, skippedVars
  <2>. QED
    BY <2>1, <2>2 DEF SkippedOnce
<1>5. CASE UNCHANGED vars
  <2>1. SlotsMatchFrames' /\ HookerOnlyOutermost'
    BY <1>5, QuietStep DEF vars, objectVars, threadVars
  <2>. QED
    BY <1>5, <2>1
    DEF Inv, TypeOK, PlaceInv, SkippedOnce, vars, objectVars, retaddrVars, skippedVars,
        threadVars
<1>. QED
  BY <1>1, <1>2, <1>3, <1>4, <1>5 DEF Next

(* Everything below rests on this: the inductive invariant holds in every  *)
(* reachable state of the jumper.                                          *)
THEOREM Invariance == Spec => []JumperInv
<1>. QED
  BY InitInv, NextInv, PTL DEF Spec

(* The jumper's variables keep their types.                                *)
THEOREM TypeCorrect == Spec => []TypeOK
<1>1. JumperInv => TypeOK
  BY DEF JumperInv, Inv
<1>. QED
  BY Invariance, <1>1, PTL

(* Where a thread is with what: a thread that found no slot of its own is  *)
(* inside one call only, also after the lock is released.                  *)
THEOREM PlacesHold == Spec => []PlaceInv
<1>1. JumperInv => PlaceInv
  BY DEF JumperInv, Inv
<1>. QED
  BY Invariance, <1>1, PTL

(* The array all threads share holds, for each thread, its own stack of    *)
(* return addresses.                                                       *)
THEOREM ArrayHoldsStacks == Spec => []SlotsMatchFrames
<1>1. JumperInv => SlotsMatchFrames
  BY DEF JumperInv, Inv
<1>. QED
  BY Invariance, <1>1, PTL

(* A hooker never enters itself, whatever is switched on or off and        *)
(* replaced while threads run.                                             *)
THEOREM NoHookerInHooker == Spec => []HookerOnlyOutermost
<1>1. JumperInv => HookerOnlyOutermost
  BY DEF JumperInv, Inv
<1>. QED
  BY Invariance, <1>1, PTL

(* No thread is ever marked as skipped twice.                              *)
THEOREM NoDoubleSkip == Spec => []SkippedOnce
<1>1. JumperInv => SkippedOnce
  BY DEF JumperInv
<1>. QED
  BY Invariance, <1>1, PTL

(* A positive answer of destroy_available is exact when it is given.       *)
THEOREM AnswerIsExact == Spec => []AvailableMeansUnused
<1>1. JumperInv => AvailableMeansUnused
  <2>. SUFFICES ASSUME JumperInv, stage = "ready"
                PROVE  DestroyAvailable <=> \A t \in Threads : frames[t] = << >>
    BY DEF AvailableMeansUnused
  <2>. USE DEF JumperInv, Inv
  <2>1. ASSUME NEW t \in Threads, frames[t] # << >>
        PROVE  ~DestroyAvailable
    <3>1. Top(t).slot \in Own(t)
      BY <2>1, TopIsInnermost
    <3>. QED
      BY <3>1, ThreadsAssumption DEF Own, DestroyAvailable
  <2>2. ASSUME ~DestroyAvailable
        PROVE  \E t \in Threads : frames[t] # << >>
    <3>1. PICK i \in DOMAIN retaddr_array : retaddr_array[i].thread_id # NoThread
      BY <2>2 DEF DestroyAvailable
    <3>2. PICK t \in Threads : i \in Own(t)
      BY <3>1 DEF Own, TypeOK, Retaddr
    <3>. QED
      BY <3>2 DEF SlotsMatchFrames
  <2>. QED
    BY <2>1, <2>2
<1>. QED
  BY Invariance, <1>1, PTL

(* Every call returns to its own caller: only a pop leaves the place       *)
(* before the exit code, and it takes the innermost call's address.        *)
THEOREM CallsReturn == Spec => ReturnsToCaller
<1>. DEFINE Right == \A t \in Threads :
                       pc[t] = "leave" /\ pc'[t] \notin {"leave", "fault"} =>
                         pc'[t] = "landing" /\ rax'[t] = Top(t).ret
<1>1. JumperInv /\ [Next]_vars => [Right]_vars
  <2>. SUFFICES ASSUME JumperInv, Next, NEW t \in Threads,
                       pc[t] = "leave", pc'[t] \notin {"leave", "fault"}
                PROVE  pc'[t] = "landing" /\ rax'[t] = Top(t).ret
    OBVIOUS
  <2>. USE DEF JumperInv, Inv
  <2>1. pc \in [Threads -> Places] /\ rax \in [Threads -> Addresses \cup {NULL}]
    BY DEF TypeOK
  <2>2. UNCHANGED pc => FALSE
    OBVIOUS
  <2>3. ASSUME NEW u \in Threads,
               \/ Push(u) \/ ReadActive(u) \/ CheckSkipped(u) \/ Return(u)
               \/ Land(u) \/ Fault(u) \/ \E a \in Addresses : Call(u, a)
        PROVE  FALSE
    BY <2>1, <2>3
    DEF Push, PushFree, PushExtend, PushFails, Store, ReadActive, CheckSkipped, Transfer,
        Return, Land, Fault, Call, Goto
  <2>4. ASSUME NEW u \in Threads, Pop(u)
        PROVE  pc'[t] = "landing" /\ rax'[t] = Top(t).ret
    <3>1. /\ pc' = [pc EXCEPT ![u] = "landing"]
          /\ rax' = [rax EXCEPT ![u] = Top(u).ret]
      BY <2>4, PopStep
    <3>. QED
      BY <2>1, <3>1
  <2>5. PICK u \in Threads : ThreadStep(u) \/ \E a \in Addresses : Call(u, a)
    BY <2>2
    DEF Next, SetActiveForCurrentThread, Create, SetActive, SetBridge, SetHooker,
        CheckDestroy, Destroy, threadVars
  <2>. QED
    BY <2>3, <2>4, <2>5 DEF ThreadStep
<1>2. [][Right]_vars => ReturnsToCaller
  BY PTL DEF ReturnsToCaller
<1>. QED
  BY Invariance, <1>1, <1>2, PTL DEF Spec

---------------------------------------------------------------------------
(* The bound on the array.  A label <<u, k>> stands for the k-th nested    *)
(* call of thread u.  The slots that were ever used can be given different *)
(* labels: a used slot that of its call, a free slot that of a call its    *)
(* thread is not inside but could be, and whose address the slot could     *)
(* take.  So there are no more of them than labels, and the array is       *)
(* extended only when a label is left.                                     *)

Labels == Threads \X (1 .. MaxDepth)

\* Slot i may have label l.
Fits(i, l) ==
  IF retaddr_array[i].thread_id = NoThread
  THEN l[2] > Len(frames[l[1]]) /\ \A j \in Own(l[1]) : j < i
  ELSE l[2] <= Len(frames[l[1]]) /\ frames[l[1]][l[2]].slot = i

\* The slots below h were used, and label has their labels.
Packed(h, label) ==
  /\ h \in 0 .. retaddr_count
  /\ label \in [0 .. h - 1 -> Labels]
  /\ \A i, j \in 0 .. h - 1 : label[i] = label[j] => i = j
  /\ \A i \in h .. retaddr_count - 1 : retaddr_array[i].thread_id = NoThread
  /\ \A i \in 0 .. h - 1 : Fits(i, label[i])

GrowthInv ==
  /\ \A t \in Threads : /\ Len(frames[t]) <= MaxDepth
                        /\ pc[t] = "enter" => Len(frames[t]) < MaxDepth
  /\ \E h, label : Packed(h, label)
  /\ GrowthBound

(* There are as many labels as threads times nested calls, and no more     *)
(* slots have different ones.                                              *)
LEMMA LabelsLast ==
  ASSUME NEW h \in Nat, NEW label \in [0 .. h - 1 -> Labels],
         \A i, j \in 0 .. h - 1 : label[i] = label[j] => i = j
  PROVE  h <= Cardinality(Threads) * MaxDepth
<1>1. IsFiniteSet(Threads) /\ MaxDepth \in Nat
  BY ThreadsAssumption, BoundAssumption
<1>2. IsFiniteSet(1 .. MaxDepth) /\ Cardinality(1 .. MaxDepth) = MaxDepth
  BY <1>1, FS_Interval
<1>3. IsFiniteSet(Labels) /\ Cardinality(Labels) = Cardinality(Threads) * MaxDepth
  BY <1>1, <1>2, FS_Product DEF Labels
<1>4. Cardinality(0 .. h - 1) = h
  BY FS_Interval
<1>5. label \in Injection(0 .. h - 1, Labels)
  BY DEF Injection, IsInjective
<1>. QED
  BY <1>3, <1>4, <1>5, FS_Injection

(* Storing an address of t in the lowest slot it may use: the label of     *)
(* t's next call goes to that slot.                                        *)
LEMMA StoreKeepsPacked ==
  ASSUME TypeOK, SlotsMatchFrames, stage = "ready", NEW t \in Threads,
         NEW n \in Nat, NEW array, NEW i \in 0 .. n - 1,
         n >= retaddr_count, retaddr_count' = n,
         array \in [0 .. n - 1 -> Retaddr],
         \A j \in 0 .. n - 1 : array[j] = IF j < retaddr_count THEN retaddr_array[j]
                                          ELSE FreeRetaddr,
         i <= retaddr_count,
         array[i].thread_id = NoThread,
         \A j \in Own(t) : j < i,
         \A j \in Candidates(t) : i <= j,
         Len(frames[t]) < MaxDepth,
         Store(array, t, i),
         NEW h, NEW label, Packed(h, label)
  PROVE  \E g, name : Packed(g, name)'
<1>a. PICK d, next, new : /\ d = Len(frames[t])
                          /\ next = <<t, d + 1>>
                          /\ new = [ret |-> rax[t], slot |-> i, code |-> NULL]
  OBVIOUS
<1>1. /\ retaddr_array \in [0 .. retaddr_count - 1 -> Retaddr]
      /\ retaddr_count \in Nat
      /\ frames \in [Threads -> Seq(Frame)]
      /\ h \in Nat /\ h <= retaddr_count
      /\ MaxDepth \in Nat
      /\ d \in Nat /\ next \in Labels
      /\ d = Len(frames[t]) /\ next[1] = t /\ next[2] = d + 1
  BY <1>a, BoundAssumption DEF TypeOK, Packed, Labels
<1>2. /\ DOMAIN retaddr_array' = 0 .. n - 1
      /\ retaddr_array'[i].thread_id = t
      /\ \A j \in 0 .. n - 1 : j # i => retaddr_array'[j] = array[j]
  BY DEF Store
<1>3. t # NoThread /\ \A u \in Threads : u # NoThread
  BY ThreadsAssumption
<1>4. \A u \in Threads : Own(u)' = IF u = t THEN Own(u) \cup {i} ELSE Own(u)
  BY <1>1, <1>2, <1>3 DEF Own, FreeRetaddr
<1>5. /\ \A u \in Threads : u # t => frames'[u] = frames[u]
      /\ Len(frames'[t]) = d + 1
      /\ \A k \in 1 .. d : frames'[t][k] = frames[t][k]
      /\ frames'[t][d + 1] = new
      /\ new.slot = i
  BY <1>1, <1>a DEF Store
<1>6. \A u \in Threads : Own(u) \subseteq 0 .. h - 1
  BY <1>1, <1>3 DEF Packed, Own
<1>7. i <= h
  <2>. SUFFICES ASSUME h < i
                PROVE  FALSE
    BY <1>1
  <2>1. h \in 0 .. retaddr_count - 1
    BY <1>1
  <2>2. retaddr_array[h].thread_id = NoThread
    BY <1>1, <2>1 DEF Packed
  <2>3. h \in Candidates(t)
    BY <1>1, <1>6, <2>1, <2>2 DEF Candidates
  <2>. QED
    BY <1>1, <2>3
<1>b. PICK g, name : /\ g = IF i = h THEN h + 1 ELSE h
                     /\ name = [j \in 0 .. g - 1 |->
                                 IF j = i THEN next
                                 ELSE IF label[j] = next THEN label[i] ELSE label[j]]
  OBVIOUS
<1>8. \A j \in 0 .. h - 1 : /\ label[j] \in Labels
                            /\ label[j][1] \in Threads /\ label[j][2] \in 1 .. MaxDepth
                            /\ label[j] = <<label[j][1], label[j][2]>>
  BY DEF Packed, Labels
<1>9. \A j \in 0 .. h - 1 : j < retaddr_count /\ array[j] = retaddr_array[j]
  BY <1>1
\* A free slot with a label of t may be used by t.
<1>10. ASSUME NEW j \in 0 .. h - 1, retaddr_array[j].thread_id = NoThread, label[j][1] = t
       PROVE  i <= j
  <2>1. Fits(j, label[j])
    BY DEF Packed
  <2>2. \A x \in Own(t) : x < j
    BY <1>10, <2>1 DEF Fits
  <2>3. j \in Candidates(t)
    BY <1>1, <1>9, <1>10, <2>2 DEF Candidates
  <2>. QED
    BY <2>3
<1>11. ASSUME NEW j \in 0 .. h - 1, label[j] = next
       PROVE  retaddr_array[j].thread_id = NoThread /\ i <= j /\ i < h
  <2>1. label[j][1] = t /\ label[j][2] = d + 1
    BY <1>1, <1>11
  <2>2. Fits(j, label[j])
    BY DEF Packed
  <2>3. retaddr_array[j].thread_id = NoThread
    BY <1>1, <2>1, <2>2 DEF Fits
  <2>4. i <= j
    BY <1>10, <2>1, <2>3
  <2>. QED
    BY <1>1, <2>3, <2>4
<1>12. /\ i \in Nat /\ h \in Nat /\ g \in 0 .. n /\ g \in Nat /\ h <= g /\ i \in 0 .. g - 1
       /\ \A j \in 0 .. g - 1 : j # i => j \in 0 .. h - 1
  BY <1>1, <1>7, <1>b
<1>13. name \in [0 .. g - 1 -> Labels]
  <2>. SUFFICES ASSUME NEW j \in 0 .. g - 1
                PROVE  name[j] \in Labels
    BY <1>b
  <2>1. name[j] = IF j = i THEN next
                  ELSE IF label[j] = next THEN label[i] ELSE label[j]
    BY <1>b
  <2>2. CASE j # i /\ label[j] = next
    <3>1. i < h
      BY <1>11, <1>12, <2>2
    <3>2. i \in 0 .. h - 1
      BY <1>12, <3>1
    <3>. QED
      BY <1>8, <2>1, <2>2, <3>2
  <2>. QED
    BY <1>1, <1>8, <1>12, <2>1, <2>2
<1>14. ASSUME NEW j \in 0 .. g - 1, NEW k \in 0 .. g - 1, name[j] = name[k]
       PROVE  j = k
  <2>1. \A x, y \in 0 .. h - 1 : label[x] = label[y] => x = y
    BY DEF Packed
  <2>2. \A x \in 0 .. g - 1 : x # i => name[x] # next
    <3>. SUFFICES ASSUME NEW x \in 0 .. g - 1, x # i, name[x] = next
                  PROVE  FALSE
      OBVIOUS
    <3>1. x \in 0 .. h - 1
      BY <1>12
    <3>2. label[x] = next /\ label[i] = next
      BY <1>b, <3>1
    <3>3. i \in 0 .. h - 1
      <4>1. i < h
        BY <1>11, <3>1, <3>2
      <4>. QED
        BY <1>12, <4>1
    <3>. QED
      BY <2>1, <3>1, <3>2, <3>3
  <2>3. name[i] = next
    BY <1>12, <1>b
  <2>4. CASE j = i \/ k = i
    BY <1>14, <2>2, <2>3, <2>4
  <2>5. CASE j # i /\ k # i
    <3>1. j \in 0 .. h - 1 /\ k \in 0 .. h - 1
      BY <1>12, <2>5
    <3>2. /\ name[j] = IF label[j] = next THEN label[i] ELSE label[j]
          /\ name[k] = IF label[k] = next THEN label[i] ELSE label[k]
      BY <1>b, <2>5
    <3>3. label[j] = next \/ label[k] = next => i \in 0 .. h - 1
      <4>1. label[j] = next \/ label[k] = next => i < h
        BY <1>11, <3>1
      <4>. QED
        BY <1>12, <4>1
    <3>. QED
      BY <1>14, <2>1, <2>5, <3>1, <3>2, <3>3
  <2>. QED
    BY <2>4, <2>5
<1>15. ASSUME NEW j \in g .. n - 1
       PROVE  retaddr_array'[j].thread_id = NoThread
  <2>1. j \in 0 .. n - 1 /\ j # i /\ j >= h
    BY <1>1, <1>7, <1>12
  <2>2. retaddr_array'[j] = IF j < retaddr_count THEN retaddr_array[j] ELSE FreeRetaddr
    BY <1>2, <2>1
  <2>3. CASE j < retaddr_count
    BY <1>1, <2>1, <2>2, <2>3 DEF Packed
  <2>4. CASE ~(j < retaddr_count)
    BY <2>2, <2>4 DEF FreeRetaddr
  <2>. QED
    BY <2>3, <2>4
<1>16. ASSUME NEW j \in 0 .. g - 1
       PROVE  Fits(j, name[j])'
  <2>1. CASE j = i
    <3>1. name[j] = next /\ next[1] = t /\ next[2] = d + 1
      BY <1>1, <1>b, <2>1
    <3>. QED
      BY <1>1, <1>2, <1>3, <1>5, <2>1, <3>1 DEF Fits
  <2>2. CASE j # i /\ label[j] = next
    <3>1. /\ j \in 0 .. h - 1 /\ i \in 0 .. h - 1
          /\ retaddr_array[j].thread_id = NoThread /\ i < j
      <4>1. j \in 0 .. h - 1
        BY <1>12, <2>2
      <4>2. retaddr_array[j].thread_id = NoThread /\ i <= j /\ i < h
        BY <1>11, <2>2, <4>1
      <4>. QED
        BY <1>12, <2>2, <4>1, <4>2
    <3>2. name[j] = label[i] /\ label[i] # next
      BY <1>b, <2>2, <3>1 DEF Packed
    <3>. DEFINE u == label[i][1]
                k == label[i][2]
    <3>3. u \in Threads /\ k \in Nat /\ label[i] = <<u, k>>
      BY <1>8, <3>1
    <3>4. k > Len(frames[u]) /\ \A x \in Own(u) : x < i
      BY <1>9, <3>1 DEF Packed, Fits
    <3>5. retaddr_array'[j].thread_id = NoThread
      BY <1>2, <1>9, <1>12, <2>2, <3>1
    <3>. HIDE DEF u, k
    <3>6. \A x \in Own(u)' : x < j
      <4>1. \A x \in Own(u) : x \in Nat
        BY <1>6, <1>12, <3>3
      <4>2. i < j /\ j \in Nat
        BY <1>12, <3>1
      <4>3. \A x \in Own(u) : x < j
        BY <1>12, <3>4, <4>1, <4>2
      <4>. QED
        BY <1>4, <3>3, <4>2, <4>3
    <3>7. k > Len(frames'[u])
      BY <1>a, <1>1, <1>5, <3>2, <3>3, <3>4
    <3>. QED
      BY <3>2, <3>3, <3>5, <3>6, <3>7 DEF Fits
  <2>3. CASE j # i /\ label[j] # next
    <3>1. j \in 0 .. h - 1 /\ name[j] = label[j]
      BY <1>b, <1>12, <2>3
    <3>. DEFINE u == label[j][1]
                k == label[j][2]
    <3>2. u \in Threads /\ k \in Nat \ {0} /\ label[j] = <<u, k>>
      BY <1>8, <3>1
    <3>3. retaddr_array'[j] = retaddr_array[j]
      BY <1>2, <1>9, <1>12, <2>3, <3>1
    <3>4. Fits(j, label[j])
      BY <3>1 DEF Packed
    <3>. HIDE DEF u, k
    <3>5. CASE retaddr_array[j].thread_id = NoThread
      <4>1. k > Len(frames[u]) /\ \A x \in Own(u) : x < j
        BY <3>2, <3>4, <3>5 DEF Fits
      <4>2. u = t => i < j
        <5>. SUFFICES ASSUME u = t
                      PROVE  i < j
          OBVIOUS
        <5>1. i <= j
          BY <1>10, <3>1, <3>2, <3>5
        <5>. QED
          BY <1>12, <2>3, <3>1, <5>1
      <4>3. \A x \in Own(u)' : x < j
        BY <1>4, <3>2, <4>1, <4>2
      <4>4. k > Len(frames'[u])
        BY <1>a, <1>1, <1>5, <2>3, <3>2, <4>1
      <4>. QED
        BY <3>1, <3>2, <3>3, <3>5, <4>3, <4>4 DEF Fits
    <3>6. CASE retaddr_array[j].thread_id # NoThread
      <4>1. k <= Len(frames[u]) /\ frames[u][k].slot = j
        BY <3>2, <3>4, <3>6 DEF Fits
      <4>2. k <= Len(frames'[u]) /\ frames'[u][k].slot = j
        <5>1. CASE u = t
          <6>1. k \in 1 .. d
            BY <1>1, <3>2, <4>1, <5>1
          <6>. QED
            BY <1>1, <1>5, <4>1, <5>1, <6>1
        <5>2. CASE u # t
          BY <1>5, <3>2, <4>1, <5>2
        <5>. QED
          BY <5>1, <5>2
      <4>. QED
        BY <3>1, <3>2, <3>3, <3>6, <4>2 DEF Fits
    <3>. QED
      BY <3>5, <3>6
  <2>. QED
    BY <2>1, <2>2, <2>3
<1>17. Packed(g, name)'
  BY <1>12, <1>13, <1>14, <1>15, <1>16 DEF Packed
<1>. QED
  BY <1>17

(* A push keeps the labels apart, and extends the array only when there is *)
(* one left.                                                               *)
LEMMA PushGrowth ==
  ASSUME JumperInv, GrowthInv, NEW t \in Threads, Push(t)
  PROVE  GrowthInv'
<1>1. /\ TypeOK /\ SlotsMatchFrames /\ stage = "ready" /\ pc[t] = "enter"
      /\ retaddr_count \in Nat
      /\ retaddr_array \in [0 .. retaddr_count - 1 -> Retaddr]
      /\ frames \in [Threads -> Seq(Frame)] /\ pc \in [Threads -> Places]
      /\ Len(frames[t]) < MaxDepth /\ \A u \in Threads : Len(frames[u]) \in Nat
      /\ MaxDepth \in Nat /\ RetaddrExtend \in Nat \ {0}
  BY ExtendAssumption, BoundAssumption DEF JumperInv, Inv, TypeOK, GrowthInv, Push
<1>2. Cardinality(Threads) * MaxDepth \in Nat
  <2>1. Cardinality(Threads) \in Nat
    BY ThreadsAssumption, FS_CardinalityType
  <2>. QED
    BY <1>1, <2>1
<1>3. PICK h, label : Packed(h, label)
  BY DEF GrowthInv
<1>4. ASSUME NEW array, NEW i, Store(array, t, i)
      PROVE  \A u \in Threads : /\ Len(frames'[u]) <= MaxDepth
                                /\ pc'[u] = "enter" => Len(frames'[u]) < MaxDepth
  <2>1. /\ Len(frames'[t]) = Len(frames[t]) + 1 /\ pc'[t] = "select"
        /\ \A u \in Threads : u # t => frames'[u] = frames[u] /\ pc'[u] = pc[u]
    BY <1>1, <1>4 DEF Store, Goto
  <2>. QED
    BY <1>1, <2>1 DEF GrowthInv
<1>5. CASE PushFree(t)
  <2>1. PICK i \in Candidates(t) : /\ \A j \in Candidates(t) : i <= j
                                   /\ Store(retaddr_array, t, i)
                                   /\ retaddr_count' = retaddr_count
    BY <1>5 DEF PushFree
  <2>2. /\ i \in 0 .. retaddr_count - 1 /\ i <= retaddr_count
        /\ retaddr_array[i].thread_id = NoThread
        /\ \A j \in Own(t) : j < i
    BY <1>1 DEF Candidates
  <2>3. \E g, name : Packed(g, name)'
    BY <1>1, <1>3, <2>1, <2>2, StoreKeepsPacked
  <2>. QED
    BY <1>4, <2>1, <2>3 DEF GrowthInv, GrowthBound
<1>6. CASE PushExtend(t)
  <2>1. PICK n : n = retaddr_count + RetaddrExtend
    OBVIOUS
  <2>2. /\ n \in Nat /\ n >= retaddr_count /\ retaddr_count' = n
        /\ retaddr_count \in 0 .. n - 1 /\ retaddr_count <= retaddr_count
        /\ Candidates(t) = {} /\ Store(Extended, t, retaddr_count)
    BY <1>1, <1>6, <2>1 DEF PushExtend
  <2>3. /\ Extended \in [0 .. n - 1 -> Retaddr]
        /\ \A j \in 0 .. n - 1 : Extended[j] = IF j < retaddr_count THEN retaddr_array[j]
                                                ELSE FreeRetaddr
    <3>1. FreeRetaddr \in Retaddr
      BY DEF FreeRetaddr, Retaddr
    <3>2. Extended = [j \in 0 .. n - 1 |-> IF j < retaddr_count THEN retaddr_array[j]
                                           ELSE FreeRetaddr]
      <4>1. 0 .. n - 1 = 0 .. retaddr_count + RetaddrExtend - 1
        BY <1>1, <2>1
      <4>. QED
        BY <4>1 DEF Extended
    <3>3. \A j \in 0 .. n - 1 :
            (IF j < retaddr_count THEN retaddr_array[j] ELSE FreeRetaddr) \in Retaddr
      BY <1>1, <2>2, <3>1
    <3>4. Extended \in [0 .. n - 1 -> Retaddr]
      BY <3>2, <3>3
    <3>. QED
      BY <3>2, <3>4
  <2>4. Extended[retaddr_count].thread_id = NoThread
    BY <1>1, <2>2, <2>3 DEF FreeRetaddr
  <2>5. \A j \in Own(t) : j < retaddr_count
    BY <1>1 DEF Own
  <2>6. \E g, name : Packed(g, name)'
    BY <1>1, <1>3, <2>2, <2>3, <2>4, <2>5, StoreKeepsPacked
  <2>7. retaddr_count < Cardinality(Threads) * MaxDepth
    <3>1. PICK g, name : Packed(g, name)'
      BY <2>6
    <3>2. /\ g \in 0 .. n /\ g \in Nat
          /\ name \in [0 .. g - 1 -> Labels]
          /\ \A i, j \in 0 .. g - 1 : name[i] = name[j] => i = j
          /\ \A j \in g .. n - 1 : retaddr_array'[j].thread_id = NoThread
      BY <2>2, <3>1 DEF Packed, Labels
    <3>3. retaddr_array'[retaddr_count].thread_id = t
      BY <2>2, <2>3 DEF Store
    <3>4. retaddr_count < g
      BY <2>2, <3>2, <3>3, ThreadsAssumption
    <3>5. g <= Cardinality(Threads) * MaxDepth
      BY <3>2, LabelsLast
    <3>. QED
      BY <1>1, <1>2, <3>2, <3>4, <3>5
  <2>8. n < Cardinality(Threads) * MaxDepth + RetaddrExtend
    BY <1>1, <1>2, <2>1, <2>7
  <2>. QED
    BY <1>4, <2>2, <2>6, <2>8 DEF GrowthInv, GrowthBound
<1>7. CASE PushFails(t)
  <2>1. /\ UNCHANGED <<retaddr_array, retaddr_count, frames>>
        /\ pc' = [pc EXCEPT ![t] = "nullcall"]
    BY <1>7 DEF PushFails, Goto, retaddrVars
  <2>2. Packed(h, label)'
    BY <1>3, <2>1 DEF Packed, Fits, Own
  <2>. QED
    BY <1>1, <2>1, <2>2 DEF GrowthInv, GrowthBound
<1>. QED
  BY <1>5, <1>6, <1>7 DEF Push

(* A pop leaves the label of its call on the slot it clears.               *)
LEMMA PopGrowth ==
  ASSUME JumperInv, GrowthInv, NEW t \in Threads, Pop(t)
  PROVE  GrowthInv'
<1>1. PICK d, s : d = Len(frames[t]) /\ s = Top(t).slot
  OBVIOUS
<1>2. /\ TypeOK /\ SlotsMatchFrames /\ stage = "ready" /\ frames[t] # << >>
      /\ retaddr_count \in Nat /\ retaddr_count' = retaddr_count
      /\ retaddr_array \in [0 .. retaddr_count - 1 -> Retaddr]
      /\ frames \in [Threads -> Seq(Frame)] /\ frames[t] \in Seq(Frame)
      /\ pc \in [Threads -> Places]
      /\ \A u \in Threads : Len(frames[u]) \in Nat
      /\ MaxDepth \in Nat
  BY BoundAssumption DEF JumperInv, Inv, TypeOK, PlaceInv, Pop
<1>3. /\ d \in Nat \ {0}
      /\ Len(frames'[t]) = d - 1
      /\ \A k \in 1 .. d - 1 : frames'[t][k] = frames[t][k]
      /\ \A u \in Threads : u # t => frames'[u] = frames[u]
  <2>1. frames' = [frames EXCEPT ![t] = SubSeq(frames[t], 1, d - 1)]
    BY <1>1, <1>2 DEF Pop
  <2>. QED
    BY <1>1, <1>2, <2>1, Shortened
<1>4. /\ s \in Own(t) /\ \A j \in Own(t) : j <= s
      /\ retaddr_array' = [i \in DOMAIN retaddr_array |->
                              IF i = s THEN FreeRetaddr ELSE retaddr_array[i]]
      /\ frames[t][d].slot = s
  <2>1. /\ s \in Own(t)
        /\ \A i \in DOMAIN retaddr_array : IsTop(t, i) <=> i = s
    BY <1>1, <1>2, TopIsInnermost
  <2>. QED
    BY <1>1, <2>1 DEF Pop, IsTop, Top, Own
<1>5. /\ s \in 0 .. retaddr_count - 1 /\ retaddr_array[s].thread_id = t
      /\ \A u \in Threads : Own(u) \subseteq 0 .. retaddr_count - 1
  BY <1>2, <1>4 DEF Own
<1>6. /\ retaddr_array'[s].thread_id = NoThread
      /\ \A i \in 0 .. retaddr_count - 1 : i # s => retaddr_array'[i] = retaddr_array[i]
      /\ \A u \in Threads : Own(u)' \subseteq Own(u)
      /\ s \notin Own(t)'
  BY <1>2, <1>4, <1>5, ThreadsAssumption DEF Own, FreeRetaddr
<1>7. PICK h, label : Packed(h, label)
  BY DEF GrowthInv
<1>8. /\ h \in Nat /\ h <= retaddr_count
      /\ \A i \in 0 .. h - 1 : /\ label[i][1] \in Threads
                               /\ label[i][2] \in Nat \ {0}
                               /\ Fits(i, label[i])
  BY <1>2, <1>7 DEF Packed, Labels
<1>9. ASSUME NEW i \in 0 .. h - 1
      PROVE  Fits(i, label[i])'
  <2>1. PICK u, k : u = label[i][1] /\ k = label[i][2]
    OBVIOUS
  <2>2. u \in Threads /\ k \in Nat \ {0} /\ Fits(i, label[i]) /\ i \in 0 .. retaddr_count - 1
    BY <1>2, <1>8, <2>1
  <2>3. CASE i = s
    <3>1. k <= Len(frames[u]) /\ frames[u][k].slot = s
      BY <1>5, <2>1, <2>2, <2>3, ThreadsAssumption DEF Fits
    <3>2. s \in Own(u)
      BY <1>2, <2>2, <3>1 DEF SlotsMatchFrames
    <3>3. u = t
      BY <1>5, <3>2 DEF Own
    <3>4. k = d
      <4>. SUFFICES ASSUME k < d
                    PROVE  FALSE
        BY <1>1, <1>3, <2>2, <3>1, <3>3
      <4>1. frames[t][k].slot < frames[t][d].slot
        <5>1. k \in 1 .. Len(frames[t]) /\ d \in 1 .. Len(frames[t])
          BY <1>1, <1>3, <2>2
        <5>. QED
          BY <1>2, <5>1 DEF SlotsMatchFrames
      <4>. QED
        BY <1>4, <1>5, <3>1, <3>3, <4>1
    <3>5. k > Len(frames'[u])
      BY <1>3, <3>3, <3>4
    <3>6. \A j \in Own(u)' : j < s
      BY <1>4, <1>5, <1>6, <2>2, <3>3
    <3>. QED
      BY <1>6, <2>1, <2>3, <3>5, <3>6 DEF Fits
  <2>4. CASE i # s /\ retaddr_array[i].thread_id = NoThread
    <3>1. k > Len(frames[u]) /\ \A j \in Own(u) : j < i
      BY <2>1, <2>2, <2>4 DEF Fits
    <3>2. k > Len(frames'[u])
      BY <1>1, <1>2, <1>3, <2>2, <3>1
    <3>. QED
      BY <1>6, <2>1, <2>2, <2>4, <3>1, <3>2 DEF Fits
  <2>5. CASE i # s /\ retaddr_array[i].thread_id # NoThread
    <3>1. k <= Len(frames[u]) /\ frames[u][k].slot = i
      BY <2>1, <2>2, <2>5 DEF Fits
    <3>2. u = t => k \in 1 .. d - 1
      BY <1>1, <1>3, <1>4, <2>2, <2>5, <3>1
    <3>3. k <= Len(frames'[u]) /\ frames'[u][k].slot = i
      BY <1>3, <2>2, <3>1, <3>2
    <3>. QED
      BY <1>6, <2>1, <2>2, <2>5, <3>3 DEF Fits
  <2>. QED
    BY <2>3, <2>4, <2>5
<1>10. Packed(h, label)'
  <2>1. \A i \in h .. retaddr_count - 1 : retaddr_array'[i].thread_id = NoThread
    BY <1>2, <1>6, <1>7, <1>8 DEF Packed
  <2>. QED
    BY <1>2, <1>7, <1>9, <2>1 DEF Packed, Labels
<1>11. \A u \in Threads : /\ Len(frames'[u]) <= MaxDepth
                          /\ pc'[u] = "enter" => Len(frames'[u]) < MaxDepth
  <2>1. pc' = [pc EXCEPT ![t] = "landing"]
    BY PopStep DEF JumperInv
  <2>. QED
    BY <1>1, <1>2, <1>3, <2>1 DEF GrowthInv
<1>. QED
  BY <1>2, <1>10, <1>11 DEF GrowthInv, GrowthBound

(* Steps that keep the array, and the number and slots of the frames.      *)
LEMMA QuietGrowth ==
  ASSUME JumperInv, GrowthInv, UNCHANGED retaddrVars,
         \A u \in Threads :
           /\ Len(frames'[u]) = Len(frames[u])
           /\ \A k \in 1 .. Len(frames[u]) : frames'[u][k].slot = frames[u][k].slot
           /\ pc'[u] = "enter" => pc[u] = "enter" \/ Len(frames[u]) < MaxDepth
  PROVE  GrowthInv'
<1>1. /\ retaddr_count' = retaddr_count /\ retaddr_array' = retaddr_array
      /\ \A u : Own(u)' = Own(u)
  BY DEF retaddrVars, Own
<1>2. PICK h, label : Packed(h, label)
  BY DEF GrowthInv
<1>3. ASSUME NEW i \in 0 .. h - 1
      PROVE  Fits(i, label[i])'
  <2>1. PICK u, k : u = label[i][1] /\ k = label[i][2]
    OBVIOUS
  <2>2. u \in Threads /\ k \in 1 .. MaxDepth /\ Fits(i, label[i])
    BY <1>2, <2>1 DEF Packed, Labels
  <2>3. Len(frames[u]) \in Nat /\ MaxDepth \in Nat
    BY <2>2, BoundAssumption DEF JumperInv, Inv, TypeOK
  <2>4. k <= Len(frames[u]) => frames'[u][k].slot = frames[u][k].slot
    BY <2>2, <2>3
  <2>. QED
    BY <1>1, <2>1, <2>2, <2>3, <2>4 DEF Fits
<1>4. Packed(h, label)'
  BY <1>1, <1>2, <1>3 DEF Packed, Labels
<1>. QED
  BY <1>1, <1>4 DEF GrowthInv, GrowthBound

LEMMA InitGrowth == Init => GrowthInv
<1>. SUFFICES ASSUME Init
              PROVE  GrowthInv
  OBVIOUS
<1>1. /\ retaddr_count = 0 /\ frames = [t \in Threads |-> << >>]
      /\ pc = [t \in Threads |-> "user"]
  BY DEF Init
<1>2. Packed(0, << >>)
  BY <1>1, EmptyArray DEF Packed
<1>3. GrowthBound
  <2>1. Cardinality(Threads) \in Nat /\ MaxDepth \in Nat /\ RetaddrExtend \in Nat \ {0}
    BY ThreadsAssumption, BoundAssumption, ExtendAssumption, FS_CardinalityType
  <2>2. Cardinality(Threads) * MaxDepth \in Nat
    BY <2>1
  <2>. QED
    BY <1>1, <2>1, <2>2 DEF GrowthBound
<1>4. \A t \in Threads : Len(frames[t]) <= MaxDepth /\ pc[t] # "enter"
  BY <1>1, BoundAssumption
<1>. QED
  BY <1>2, <1>3, <1>4 DEF GrowthInv

LEMMA NextGrowth == JumperInv /\ GrowthInv /\ [Next]_vars => GrowthInv'
<1>. SUFFICES ASSUME JumperInv, GrowthInv, [Next]_vars
              PROVE  GrowthInv'
  OBVIOUS
<1>1. /\ frames \in [Threads -> Seq(Frame)] /\ pc \in [Threads -> Places]
  BY DEF JumperInv, Inv, TypeOK
<1>2. ASSUME NEW t \in Threads, Push(t) \/ Pop(t)
      PROVE  GrowthInv'
  BY <1>2, PushGrowth, PopGrowth
<1>3. ASSUME NEW t \in Threads, NEW code, Transfer(t, code), frames[t] # << >>,
             UNCHANGED retaddrVars
      PROVE  GrowthInv'
  <2>1. PICK d, frame : d = Len(frames[t]) /\ frame = [frames[t][d] EXCEPT !.code = code]
    OBVIOUS
  <2>2. d \in 1 .. Len(frames[t]) /\ frames[t] \in Seq(Frame) /\ frames[t][d] \in Frame
    <3>1. frames[t] \in Seq(Frame)
      BY <1>1
    <3>. QED
      BY <1>3, <2>1, <3>1, Shortened
  <2>3. frame.slot = frames[t][d].slot
    BY <2>1, <2>2 DEF Frame
  <2>4. /\ frames'[t] = [frames[t] EXCEPT ![d] = frame] /\ pc'[t] = "user"
        /\ \A u \in Threads : u # t => frames'[u] = frames[u] /\ pc'[u] = pc[u]
    BY <1>1, <1>3, <2>1 DEF Transfer, Goto
  <2>5. /\ Len(frames'[t]) = Len(frames[t])
        /\ \A k \in 1 .. Len(frames[t]) : frames'[t][k] = IF k = d THEN frame ELSE frames[t][k]
    BY <2>2, <2>4
  <2>6. \A k \in 1 .. Len(frames[t]) : frames'[t][k].slot = frames[t][k].slot
    BY <2>3, <2>5
  <2>. QED
    BY <1>3, <2>4, <2>5, <2>6, QuietGrowth
<1>4. ASSUME NEW t \in Threads, ReadActive(t) \/ CheckSkipped(t)
      PROVE  GrowthInv'
  <2>1. frames[t] # << >> /\ UNCHANGED retaddrVars
    BY <1>4 DEF JumperInv, Inv, PlaceInv, ReadActive, CheckSkipped
  <2>2. CASE \E code : Transfer(t, code)
    BY <1>3, <2>1, <2>2
  <2>3. CASE Goto(t, "check") /\ UNCHANGED frames
    BY <1>1, <2>1, <2>3, QuietGrowth DEF Goto
  <2>. QED
    BY <1>4, <2>2, <2>3 DEF ReadActive, CheckSkipped
<1>5. ASSUME NEW t \in Threads, Return(t) \/ Land(t) \/ Fault(t)
      PROVE  GrowthInv'
  <2>1. UNCHANGED <<retaddrVars, frames>> /\ \A u \in Threads : pc'[u] = "enter" => pc[u] = "enter"
    BY <1>1, <1>5 DEF Return, Land, Fault, Goto
  <2>. QED
    BY <2>1, QuietGrowth
<1>6. ASSUME NEW t \in Threads, NEW a \in Addresses, Call(t, a)
      PROVE  GrowthInv'
  <2>1. /\ UNCHANGED <<retaddrVars, frames>> /\ Len(frames[t]) < MaxDepth
        /\ \A u \in Threads : pc'[u] = "enter" => pc[u] = "enter" \/ u = t
    BY <1>1, <1>6 DEF Call, Goto
  <2>. QED
    BY <2>1, QuietGrowth
<1>7. CASE UNCHANGED <<retaddrVars, threadVars>>
  BY <1>7, QuietGrowth DEF threadVars
<1>8. CASE Destroy
  <2>1. retaddr_count' = 0 /\ frames' = frames /\ pc' = pc
    BY <1>8 DEF Destroy, threadVars
  <2>2. Packed(0, << >>)'
    BY <2>1, EmptyArray DEF Packed
  <2>3. GrowthBound'
    <3>1. Cardinality(Threads) \in Nat /\ MaxDepth \in Nat /\ RetaddrExtend \in Nat \ {0}
      BY ThreadsAssumption, BoundAssumption, ExtendAssumption, FS_CardinalityType
    <3>2. Cardinality(Threads) * MaxDepth \in Nat
      BY <3>1
    <3>. QED
      BY <2>1, <3>1, <3>2 DEF GrowthBound
  <2>. QED
    BY <2>1, <2>2, <2>3 DEF GrowthInv
<1>. QED
  BY <1>2, <1>4, <1>5, <1>6, <1>7, <1>8
  DEF Next, ThreadStep, SetActiveForCurrentThread, Create, SetActive, SetBridge, SetHooker,
      CheckDestroy, vars

(* However the slots are fragmented, the array is extended only when the   *)
(* threads and their nested calls could fill it.                           *)
THEOREM GrowthIsBounded == Spec => []GrowthBound
<1>1. GrowthInv => GrowthBound
  BY DEF GrowthInv
<1>2. Init => GrowthInv
  BY InitGrowth
<1>3. JumperInv /\ GrowthInv /\ [Next]_vars => GrowthInv'
  BY NextGrowth
<1>. QED
  BY Invariance, <1>1, <1>2, <1>3, PTL DEF Spec

---------------------------------------------------------------------------
(* The array implements a stack of return addresses for each thread.       *)

(* Numbers that increase are counted by their index.                       *)
LEMMA Counted ==
  ASSUME NEW n \in Nat, NEW s \in [1 .. n -> Nat],
         \A k, l \in 1 .. n : k < l => s[k] < s[l]
  PROVE  Cardinality({s[k] : k \in 1 .. n}) = n
<1>. DEFINE S == {s[k] : k \in 1 .. n}
<1>1. s \in Bijection(1 .. n, S)
  <2>1. \A k, l \in 1 .. n : s[k] = s[l] => k = l
    OBVIOUS
  <2>. QED
    BY <2>1 DEF Bijection, Injection, Surjection, IsInjective
<1>2. IsFiniteSet(1 .. n) /\ Cardinality(1 .. n) = n
  BY FS_Interval
<1>. QED
  BY <1>1, <1>2, FS_Bijection DEF ExistsBijection

\* s has the n numbers of S in increasing order.
Sorts(s, n, S) ==
  /\ n \in Nat
  /\ s \in [1 .. n -> Nat]
  /\ \A k, l \in 1 .. n : k < l => s[k] < s[l]
  /\ S = {s[k] : k \in 1 .. n}

(* The one of them that has m of them up to itself is the m-th.            *)
LEMMA RankedByIndex ==
  ASSUME NEW n, NEW s, NEW S, Sorts(s, n, S),
         NEW m \in 1 .. n, NEW i \in S
  PROVE  Cardinality({j \in S : j <= i}) = m <=> i = s[m]
<1>. USE DEF Sorts
<1>1. ASSUME NEW k \in 1 .. n
      PROVE  Cardinality({j \in S : j <= s[k]}) = k
  <2>1. PICK r : r = [l \in 1 .. k |-> s[l]]
    OBVIOUS
  <2>2. /\ k \in Nat
        /\ r \in [1 .. k -> Nat]
        /\ \A l1, l2 \in 1 .. k : l1 < l2 => r[l1] < r[l2]
    BY <2>1
  <2>3. Cardinality({r[l] : l \in 1 .. k}) = k
    BY <2>2, Counted
  <2>4. {j \in S : j <= s[k]} = {r[l] : l \in 1 .. k}
    <3>1. ASSUME NEW j \in S, j <= s[k]
          PROVE  \E l \in 1 .. k : j = r[l]
      <4>1. PICK l \in 1 .. n : j = s[l]
        OBVIOUS
      <4>2. ~(k < l)
        BY <3>1, <4>1
      <4>. QED
        BY <2>1, <4>1, <4>2
    <3>2. ASSUME NEW l \in 1 .. k
          PROVE  r[l] \in S /\ r[l] <= s[k]
      <4>1. l \in 1 .. n /\ r[l] = s[l] /\ (l = k \/ l < k)
        BY <2>1
      <4>2. s[l] \in Nat /\ s[k] \in Nat /\ (l < k => s[l] < s[k])
        BY <4>1
      <4>. QED
        BY <4>1, <4>2
    <3>. QED
      BY <3>1, <3>2
  <2>. QED
    BY <2>3, <2>4
<1>2. PICK k \in 1 .. n : i = s[k]
  OBVIOUS
<1>3. Cardinality({j \in S : j <= i}) = k
  BY <1>1, <1>2
<1>4. i = s[m] <=> k = m
  BY <1>2
<1>. QED
  BY <1>3, <1>4

(* The stack read off the array is that of the calls a thread is inside.   *)
Returns(t) == [k \in 1 .. Len(frames[t]) |-> frames[t][k].ret]

StacksMatch ==
  \A t \in Threads : StackOf(t) = IF stage = "ready" THEN Returns(t) ELSE << >>

LEMMA StacksAreFrames == JumperInv => StacksMatch
<1>. SUFFICES ASSUME TypeOK, PlaceInv, SlotsMatchFrames, NEW t \in Threads
              PROVE  StackOf(t) = IF stage = "ready" THEN Returns(t) ELSE << >>
  BY DEF StacksMatch, JumperInv, Inv
<1>1. CASE stage # "ready"
  <2>1. Own(t) = {}
    BY <1>1 DEF PlaceInv, TypeOK, Own
  <2>2. Cardinality(Own(t)) = 0
    BY <2>1, FS_EmptySet
  <2>. QED
    BY <1>1, <2>2 DEF StackOf
<1>2. CASE stage = "ready"
  <2>1. PICK n : n = Len(frames[t])
    OBVIOUS
  <2>2. /\ n \in Nat
        /\ \A k \in 1 .. n : frames[t][k] \in Frame
    BY <2>1 DEF TypeOK
  <2>3. PICK s : s = [k \in 1 .. n |-> frames[t][k].slot]
    OBVIOUS
  <2>4. s \in [1 .. n -> Nat]
    BY <2>2, <2>3 DEF Frame
  <2>5. \A k, l \in 1 .. n : k < l => s[k] < s[l]
    BY <1>2, <2>1, <2>3 DEF SlotsMatchFrames
  <2>6. Own(t) = {s[k] : k \in 1 .. n}
    BY <1>2, <2>1, <2>3 DEF SlotsMatchFrames
  <2>7. Cardinality(Own(t)) = n
    BY <2>2, <2>4, <2>5, <2>6, Counted
  <2>8. \A k \in 1 .. n : SlotOf(t, k) = s[k]
    <3>1. ASSUME NEW k \in 1 .. n, NEW i \in Own(t)
          PROVE  Cardinality({j \in Own(t) : j <= i}) = k <=> i = s[k]
      <4>1. Sorts(s, n, Own(t))
        BY <2>2, <2>4, <2>5, <2>6 DEF Sorts
      <4>. QED
        BY <4>1, RankedByIndex
    <3>2. \A k \in 1 .. n : s[k] \in Own(t)
      BY <2>6
    <3>. QED
      BY <3>1, <3>2 DEF SlotOf
  <2>9. \A k \in 1 .. n : retaddr_array[SlotOf(t, k)].return_address = frames[t][k].ret
    <3>1. \A k \in 1 .. n : retaddr_array[frames[t][k].slot].return_address = frames[t][k].ret
      BY <1>2, <2>1 DEF SlotsMatchFrames
    <3>2. \A k \in 1 .. n : SlotOf(t, k) = frames[t][k].slot
      BY <2>3, <2>8
    <3>. QED
      BY <3>1, <3>2
  <2>. QED
    BY <1>2, <2>1, <2>7, <2>9 DEF StackOf, Returns
<1>. QED
  BY <1>1, <1>2

---------------------------------------------------------------------------
(* The variables of ReturnStacks.                                          *)
Stack   == [t \in Threads |-> StackOf(t)]
Landing == [t \in Threads |-> IF pc[t] = "landing" THEN rax[t] ELSE NULL]

(* Every step is one of ReturnStacks, or none, for it.                     *)
Simulated == Stacks!Next \/ UNCHANGED <<stage = "ready", Stack, Landing>>

(* A step that changes no stack, no place and no life is none.             *)
LEMMA Unseen ==
  ASSUME StacksMatch, StacksMatch', stage' = stage,
         \A t \in Threads : Returns(t)' = Returns(t),
         Landing' = Landing
  PROVE  Simulated
<1>1. \A t \in Threads : StackOf(t)' = StackOf(t)
  BY DEF StacksMatch
<1>2. Stack' = Stack
  BY <1>1 DEF Stack
<1>. QED
  BY <1>2 DEF Simulated

\* The call changes neither its stack nor whether it is landing.
LEMMA QuietStacks ==
  ASSUME StacksMatch, StacksMatch', pc \in [Threads -> Places], stage' = stage,
         NEW t \in Threads, NEW place \in Places \ {"landing"}, pc[t] # "landing",
         pc' = [pc EXCEPT ![t] = place],
         \A u \in Threads : u # t => rax'[u] = rax[u],
         \A u \in Threads : Returns(u)' = Returns(u)
  PROVE  Simulated
<1>1. Landing' = Landing
  BY DEF Landing
<1>. QED
  BY <1>1, Unseen

(* A push enters: the stack of the thread, and no other, gets its address. *)
LEMMA StoreEnters ==
  ASSUME StacksMatch, StacksMatch', TypeOK, stage = "ready", stage' = "ready",
         NEW t \in Threads, pc[t] = "enter", rax[t] \in Addresses,
         NEW array, NEW i, Store(array, t, i)
  PROVE  Simulated
<1>1. /\ frames \in [Threads -> Seq(Frame)]
      /\ pc \in [Threads -> Places]
      /\ rax \in [Threads -> Addresses \cup {NULL}]
  BY DEF TypeOK
<1>2. PICK new : new = [ret |-> rax[t], slot |-> i, code |-> NULL]
  OBVIOUS
<1>3. /\ frames' = [frames EXCEPT ![t] = Append(frames[t], new)]
      /\ pc' = [pc EXCEPT ![t] = "select"]
      /\ rax' = [rax EXCEPT ![t] = NULL]
  BY <1>2 DEF Store, Goto
<1>4. \A u \in Threads : u # t => Returns(u)' = Returns(u)
  BY <1>1, <1>3 DEF Returns
<1>5. Returns(t)' = Append(Returns(t), rax[t])
  <2>1. PICK n : n = Len(frames[t])
    OBVIOUS
  <2>2. /\ n \in Nat
        /\ Len(frames'[t]) = n + 1
        /\ \A k \in 1 .. n : frames'[t][k] = frames[t][k]
        /\ frames'[t][n + 1].ret = rax[t]
    BY <1>1, <1>2, <1>3, <2>1
  <2>3. Returns(t)' = [k \in 1 .. n + 1 |-> IF k = n + 1 THEN rax[t] ELSE frames[t][k].ret]
    BY <2>2 DEF Returns
  <2>4. Returns(t) = [k \in 1 .. n |-> frames[t][k].ret]
    BY <2>1 DEF Returns
  <2>5. Append(Returns(t), rax[t])
          = [k \in 1 .. n + 1 |-> IF k = n + 1 THEN rax[t] ELSE frames[t][k].ret]
    BY <2>2, <2>4
  <2>. QED
    BY <2>3, <2>5
<1>6. /\ StackOf(t)' = Append(StackOf(t), rax[t])
      /\ \A u \in Threads : u # t => StackOf(u)' = StackOf(u)
  BY <1>4, <1>5 DEF StacksMatch
<1>7. /\ Stack' = [Stack EXCEPT ![t] = Append(Stack[t], rax[t])]
      /\ Landing' = Landing /\ Landing[t] = NULL
  <2>1. Stack' = [Stack EXCEPT ![t] = Append(Stack[t], rax[t])]
    BY <1>6 DEF Stack
  <2>2. Landing' = Landing /\ Landing[t] = NULL
    BY <1>1, <1>3 DEF Landing
  <2>. QED
    BY <2>1, <2>2
<1>8. Stacks!Enter(t, rax[t])
  BY <1>7 DEF Stacks!Enter, Stack, Landing
<1>. QED
  BY <1>8 DEF Simulated, Stacks!Next

(* A pop leaves: the thread takes the address on top of its stack.         *)
LEMMA PopLeaves ==
  ASSUME StacksMatch, StacksMatch', JumperInv, NEW t \in Threads, Pop(t)
  PROVE  Simulated
<1>1. /\ TypeOK /\ SlotsMatchFrames /\ stage = "ready" /\ stage' = "ready"
      /\ pc[t] = "leave" /\ frames[t] # << >>
      /\ frames \in [Threads -> Seq(Frame)] /\ frames[t] \in Seq(Frame)
      /\ pc \in [Threads -> Places]
      /\ rax \in [Threads -> Addresses \cup {NULL}]
  BY DEF JumperInv, Inv, PlaceInv, TypeOK, Pop, objectVars
<1>2. /\ pc' = [pc EXCEPT ![t] = "landing"]
      /\ rax' = [rax EXCEPT ![t] = Top(t).ret]
  BY <1>1, PopStep DEF JumperInv
<1>3. PICK n : n = Len(frames[t])
  OBVIOUS
<1>4. /\ n \in Nat \ {0}
      /\ Len(frames'[t]) = n - 1
      /\ \A k \in 1 .. n - 1 : frames'[t][k] = frames[t][k]
      /\ \A u \in Threads : u # t => frames'[u] = frames[u]
  <2>1. frames' = [frames EXCEPT ![t] = SubSeq(frames[t], 1, n - 1)]
    BY <1>1, <1>3 DEF Pop
  <2>. QED
    BY <1>1, <1>3, <2>1, Shortened
<1>5. \A u \in Threads : u # t => Returns(u)' = Returns(u)
  BY <1>4 DEF Returns
<1>6. /\ Returns(t) \in Seq(Addresses) /\ Len(Returns(t)) = n
      /\ Returns(t)[n] = Top(t).ret
  <2>1. \A k \in 1 .. n : frames[t][k].ret \in Addresses
    BY <1>1, <1>3, <1>4, Shortened DEF Frame
  <2>2. Returns(t) = [k \in 1 .. n |-> frames[t][k].ret]
    BY <1>3 DEF Returns
  <2>. QED
    BY <1>3, <1>4, <2>1, <2>2 DEF Top
<1>7. Returns(t)' = SubSeq(Returns(t), 1, n - 1)
  <2>1. Returns(t)' = [k \in 1 .. n - 1 |-> frames[t][k].ret]
    BY <1>4 DEF Returns
  <2>2. SubSeq(Returns(t), 1, n - 1) = [k \in 1 .. n - 1 |-> Returns(t)[k]]
    BY <1>4, <1>6
  <2>3. \A k \in 1 .. n - 1 : Returns(t)[k] = frames[t][k].ret
    BY <1>3, <1>4 DEF Returns
  <2>. QED
    BY <2>1, <2>2, <2>3
<1>8. /\ StackOf(t)' = SubSeq(StackOf(t), 1, Len(StackOf(t)) - 1)
      /\ StackOf(t) # << >>
      /\ StackOf(t)[Len(StackOf(t))] = Top(t).ret
      /\ \A u \in Threads : u # t => StackOf(u)' = StackOf(u)
  <2>1. StackOf(t) = Returns(t) /\ StackOf(t)' = Returns(t)'
    BY <1>1 DEF StacksMatch
  <2>2. \A u \in Threads : u # t => StackOf(u)' = StackOf(u)
    BY <1>1, <1>5 DEF StacksMatch
  <2>. QED
    BY <1>4, <1>6, <1>7, <2>1, <2>2
<1>9. /\ Stack' = [Stack EXCEPT ![t] = SubSeq(Stack[t], 1, Len(Stack[t]) - 1)]
      /\ Stack[t] # << >>
      /\ Landing[t] = NULL
      /\ Landing' = [Landing EXCEPT ![t] = Stack[t][Len(Stack[t])]]
  <2>1. Stack' = [Stack EXCEPT ![t] = SubSeq(Stack[t], 1, Len(Stack[t]) - 1)] /\ Stack[t] # << >>
    BY <1>8 DEF Stack
  <2>2. Landing[t] = NULL /\ Landing' = [Landing EXCEPT ![t] = Top(t).ret]
    BY <1>1, <1>2 DEF Landing
  <2>. QED
    BY <1>8, <2>1, <2>2 DEF Stack
<1>10. Stacks!Leave(t)
  BY <1>1, <1>9 DEF Stacks!Leave, Stack, Landing
<1>. QED
  BY <1>10 DEF Simulated, Stacks!Next

(* The call of a thread that transfers control keeps its address.          *)
LEMMA TransferKeeps ==
  ASSUME StacksMatch, StacksMatch', TypeOK, NEW t \in Threads, NEW code,
         pc[t] # "landing", stage' = stage, rax' = rax, Transfer(t, code)
  PROVE  Simulated
<1>1. /\ frames \in [Threads -> Seq(Frame)]
      /\ pc \in [Threads -> Places]
      /\ frames' = [frames EXCEPT ![t][Len(frames[t])].code = code]
      /\ pc' = [pc EXCEPT ![t] = "user"]
  BY DEF TypeOK, Transfer, Goto
<1>2. \A u \in Threads : Returns(u)' = Returns(u)
  <2>1. \A u \in Threads : u # t => frames'[u] = frames[u]
    BY <1>1
  <2>2. /\ Len(frames'[t]) = Len(frames[t])
        /\ \A k \in 1 .. Len(frames[t]) : frames'[t][k].ret = frames[t][k].ret
    <3>1. PICK f : f = frames[t] /\ f \in Seq(Frame)
      BY <1>1
    <3>2. frames'[t] = [f EXCEPT ![Len(f)] = [f[Len(f)] EXCEPT !.code = code]]
      BY <1>1, <3>1
    <3>3. \A k \in 1 .. Len(f) : f[k] \in Frame
      BY <3>1
    <3>4. /\ Len(frames'[t]) = Len(f)
          /\ \A k \in 1 .. Len(f) : frames'[t][k].ret = f[k].ret
      BY <3>1, <3>2, <3>3 DEF Frame
    <3>. QED
      BY <3>1, <3>4
  <2>. QED
    BY <2>1, <2>2 DEF Returns
<1>. QED
  BY <1>1, <1>2, QuietStacks DEF Places, Inside

(* A thread that returns to its caller, or cannot any more, lands.         *)
LEMMA LandingEnds ==
  ASSUME StacksMatch, StacksMatch', pc \in [Threads -> Places], stage' = stage,
         frames' = frames,
         NEW t \in Threads, NEW place \in Places \ {"landing"}, pc[t] = "landing",
         pc' = [pc EXCEPT ![t] = place],
         \A u \in Threads : u # t => rax'[u] = rax[u]
  PROVE  Simulated
<1>1. \A u \in Threads : Returns(u)' = Returns(u)
  BY DEF Returns
<1>2. \A u \in Threads : StackOf(u)' = StackOf(u)
  BY <1>1 DEF StacksMatch
<1>3. Stack' = Stack /\ Landing' = [Landing EXCEPT ![t] = NULL]
  <2>1. Stack' = Stack
    BY <1>2 DEF Stack
  <2>2. Landing' = [Landing EXCEPT ![t] = NULL]
    BY DEF Landing
  <2>. QED
    BY <2>1, <2>2
<1>4. CASE rax[t] = NULL
  <2>1. Landing' = Landing
    BY <1>3, <1>4 DEF Landing
  <2>. QED
    BY <1>1, <2>1, Unseen
<1>5. CASE rax[t] # NULL
  <2>1. Landing[t] # NULL
    BY <1>5 DEF Landing
  <2>2. Stacks!Land(t)
    BY <1>3, <2>1 DEF Stacks!Land, Stack, Landing
  <2>. QED
    BY <2>2 DEF Simulated, Stacks!Next
<1>. QED
  BY <1>4, <1>5

LEMMA ThreadSimulated ==
  ASSUME JumperInv, StacksMatch, StacksMatch', NEW t \in Threads,
         ThreadStep(t) \/ \E a \in Addresses : Call(t, a)
  PROVE  Simulated
<1>1. /\ TypeOK /\ pc \in [Threads -> Places]
      /\ rax \in [Threads -> Addresses \cup {NULL}]
  BY DEF JumperInv, Inv, TypeOK
<1>2. CASE Push(t)
  <2>1. /\ stage = "ready" /\ stage' = "ready" /\ pc[t] = "enter" /\ rax[t] \in Addresses
    BY <1>2 DEF Push, JumperInv, Inv, PlaceInv, objectVars
  <2>2. ASSUME NEW array, NEW i, Store(array, t, i)
        PROVE  Simulated
    BY <1>1, <2>1, <2>2, StoreEnters
  <2>3. CASE PushFails(t)
    <3>1. /\ pc' = [pc EXCEPT ![t] = "nullcall"]
          /\ \A u \in Threads : u # t => rax'[u] = rax[u]
          /\ \A u \in Threads : Returns(u)' = Returns(u)
      BY <1>1, <2>3 DEF PushFails, Goto, Returns
    <3>. QED
      BY <1>1, <2>1, <3>1, QuietStacks DEF Places, Inside
  <2>. QED
    BY <1>2, <2>2, <2>3 DEF Push, PushFree, PushExtend
<1>3. CASE ReadActive(t)
  <2>1. stage' = stage /\ rax' = rax /\ pc[t] = "select"
    BY <1>3 DEF ReadActive, objectVars
  <2>2. CASE Goto(t, "check") /\ UNCHANGED frames
    <3>1. pc' = [pc EXCEPT ![t] = "check"] /\ \A u \in Threads : Returns(u)' = Returns(u)
      BY <2>2 DEF Goto, Returns
    <3>. QED
      BY <1>1, <2>1, <3>1, QuietStacks DEF Places, Inside
  <2>. QED
    BY <1>1, <1>3, <2>1, <2>2, TransferKeeps DEF ReadActive
<1>4. CASE CheckSkipped(t)
  <2>1. stage' = stage /\ rax' = rax /\ pc[t] = "check"
    BY <1>4 DEF CheckSkipped, objectVars
  <2>. QED
    BY <1>1, <1>4, <2>1, TransferKeeps DEF CheckSkipped
<1>5. CASE Return(t)
  <2>1. /\ stage' = stage /\ rax' = rax /\ pc[t] = "user"
        /\ pc' = [pc EXCEPT ![t] = "leave"]
        /\ \A u \in Threads : Returns(u)' = Returns(u)
    BY <1>5 DEF Return, objectVars, Goto, Returns
  <2>. QED
    BY <1>1, <2>1, QuietStacks DEF Places, Inside
<1>6. CASE Land(t)
  <2>1. /\ stage' = stage /\ frames' = frames /\ pc[t] = "landing"
        /\ pc' = [pc EXCEPT ![t] = "user"]
        /\ \A u \in Threads : u # t => rax'[u] = rax[u]
    BY <1>1, <1>6 DEF Land, objectVars, Goto
  <2>. QED
    BY <1>1, <2>1, LandingEnds DEF Places, Inside
<1>7. CASE Fault(t)
  <2>1. /\ stage' = stage /\ frames' = frames /\ rax' = rax
        /\ pc' = [pc EXCEPT ![t] = "fault"]
        /\ \A u \in Threads : Returns(u)' = Returns(u)
    BY <1>7 DEF Fault, objectVars, Goto, Returns
  <2>2. CASE pc[t] = "landing"
    BY <1>1, <2>1, <2>2, LandingEnds DEF Places
  <2>3. CASE pc[t] # "landing"
    BY <1>1, <2>1, <2>3, QuietStacks DEF Places
  <2>. QED
    BY <2>2, <2>3
<1>8. ASSUME NEW a \in Addresses, Call(t, a)
      PROVE  Simulated
  <2>1. /\ stage' = stage /\ pc[t] = "user"
        /\ pc' = [pc EXCEPT ![t] = "enter"]
        /\ \A u \in Threads : u # t => rax'[u] = rax[u]
        /\ \A u \in Threads : Returns(u)' = Returns(u)
    BY <1>1, <1>8 DEF Call, objectVars, Goto, Returns
  <2>. QED
    BY <1>1, <2>1, QuietStacks DEF Places, Inside
<1>. QED
  BY <1>2, <1>3, <1>4, <1>5, <1>6, <1>7, <1>8, PopLeaves DEF ThreadStep

\* The context is created when no thread has called, and destroyed with
\* what it holds.
LEMMA CreateOpens ==
  ASSUME JumperInv, StacksMatch, StacksMatch', NEW b, NEW h, Create(b, h)
  PROVE  Simulated
<1>1. /\ stage = "absent" /\ stage' = "ready"
      /\ frames' = frames /\ pc' = pc /\ rax' = rax
  BY DEF Create, threadVars
<1>2. \A t \in Threads : frames[t] = << >>
  BY <1>1 DEF JumperInv, Inv, PlaceInv
<1>3. \A t \in Threads : Returns(t)' = << >>
  BY <1>1, <1>2 DEF Returns
<1>4. \A t \in Threads : StackOf(t)' = StackOf(t)
  BY <1>1, <1>3 DEF StacksMatch
<1>5. Stack' = Stack /\ Landing' = Landing
  BY <1>1, <1>4 DEF Stack, Landing
<1>6. Stacks!Open
  BY <1>1, <1>5 DEF Stacks!Open, Stack, Landing
<1>. QED
  BY <1>6 DEF Simulated, Stacks!Next

LEMMA DestroyDiscards ==
  ASSUME StacksMatch', Destroy
  PROVE  Simulated
<1>1. stage' = "destroyed" /\ pc' = pc /\ rax' = rax
  BY DEF Destroy, threadVars
<1>2. \A t \in Threads : StackOf(t)' = << >>
  BY <1>1 DEF StacksMatch
<1>3. Stack' = [t \in Threads |-> << >>] /\ Landing' = Landing
  BY <1>1, <1>2 DEF Stack, Landing
<1>4. Stacks!Discard
  BY <1>1, <1>3 DEF Stacks!Discard, Stack, Landing
<1>. QED
  BY <1>4 DEF Simulated, Stacks!Next

LEMMA NextSimulated ==
  ASSUME JumperInv, StacksMatch, StacksMatch', [Next]_vars
  PROVE  Simulated
<1>1. CASE UNCHANGED <<stage, frames, pc, rax>>
  <2>1. Landing' = Landing /\ \A t \in Threads : Returns(t)' = Returns(t)
    BY <1>1 DEF Landing, Returns
  <2>. QED
    BY <1>1, <2>1, Unseen
<1>2. ASSUME \/ UNCHANGED vars
             \/ \E t \in Threads, on \in BOOLEAN : SetActiveForCurrentThread(t, on)
             \/ \E on \in BOOLEAN : SetActive(on)
             \/ \E b \in Bridges : SetBridge(b)
             \/ \E h \in Hookers : SetHooker(h)
             \/ CheckDestroy
      PROVE  UNCHANGED <<stage, frames, pc, rax>>
  BY <1>2
  DEF vars, SetActiveForCurrentThread, SetActive, SetBridge, SetHooker, CheckDestroy,
      objectVars, threadVars
<1>. QED
  BY <1>1, <1>2, ThreadSimulated, CreateOpens, DestroyDiscards DEF Next

---------------------------------------------------------------------------
(* The jumper implements a stack of return addresses for each thread: no   *)
(* interleaving of pushes, pops, extensions, switches and the owner's      *)
(* operations does anything else to any of them.                           *)
THEOREM StacksImplemented == Spec => ImplementsStacks
<1>1. Init => Stacks!Init
  <2>. SUFFICES ASSUME Init
                PROVE  Stacks!Init
    OBVIOUS
  <2>1. /\ stage = "absent"
        /\ pc = [t \in Threads |-> "user"]
    BY DEF Init
  <2>2. \A t \in Threads : StackOf(t) = << >>
    BY <2>1, InitInv, StacksAreFrames DEF StacksMatch
  <2>3. Stack = [t \in Threads |-> << >>] /\ Landing = [t \in Threads |-> NULL]
    BY <2>1, <2>2 DEF Stack, Landing
  <2>. QED
    BY <2>1, <2>3 DEF Stacks!Init, Stack, Landing
<1>2. JumperInv' => StacksMatch'
  BY StacksAreFrames, PTL
<1>3. JumperInv /\ JumperInv' /\ [Next]_vars => [Stacks!Next]_(Stacks!vars)
  BY <1>2, StacksAreFrames, NextSimulated DEF Simulated, Stacks!vars, Stack, Landing
<1>. QED
  BY Invariance, <1>1, <1>3, PTL DEF Spec, ImplementsStacks, Stacks!Spec
===========================================================================
