--------------------------- MODULE SpliceJumper ---------------------------
(***************************************************************************)
(* The jumper of a splice (src/hook/splicejumper64.cpp; the 32-bit file    *)
(* has the same logic): the code a patched procedure leads to.  A thread   *)
(* that calls the procedure has its return address taken off the stack and *)
(* stored in an array shared by all threads, runs either the hooker or the *)
(* bridge (the original procedure), then gets its address back from the    *)
(* array and returns to it.                                                *)
(*                                                                         *)
(* Accesses to an array are made under its critical section and are one    *)
(* step each; the steps between them (the entry code, the read of          *)
(* `active', the user code, the exit code) interleave.                     *)
(***************************************************************************)
EXTENDS Integers, Sequences, FiniteSets

CONSTANTS
  Threads,        \* thread identifiers
  NoThread,       \* THREAD_ID_INVALID, the mark of a free slot
  Addresses,      \* return addresses of the call sites
  Bridges,        \* addresses the original procedure can be called at
  Hookers,        \* addresses of hookers
  NULL,           \* the null address
  RetaddrExtend,  \* SPLICEJUMPER_EXTEND_RETADDR_COUNT
  SkippedExtend,  \* SPLICEJUMPER_EXTEND_SKIPPED_COUNT
  MaxRetaddr,     \* bound: slots the memory allocator can provide
  MaxDepth        \* bound: calls of the procedure nested in one thread

ASSUME ThreadsAssumption == NoThread \notin Threads /\ IsFiniteSet(Threads)
ASSUME AddressAssumption == NULL \notin Addresses \cup Bridges \cup Hookers
ASSUME TargetAssumption  == Bridges \cap Hookers = {}
ASSUME ExtendAssumption  == /\ RetaddrExtend \in Nat \ {0}
                            /\ SkippedExtend \in Nat \ {0}
ASSUME BoundAssumption   == MaxRetaddr \in Nat /\ MaxDepth \in Nat

VARIABLES
  stage,          \* "absent", "ready" or "destroyed": the life of the context
  active,         \* the hook is enabled for all threads
  bridge,         \* where the original procedure is called
  hooker,         \* where the hooker is called
  retaddr_array,  \* slot -> [thread_id, return_address]; empty when NULL
  retaddr_count,
  skipped_array,  \* slot -> thread the hook is switched off for
  skipped_count,
  available,      \* the owner's last answer of destroy_available
  pc,             \* where each thread is, see Places below
  rax,            \* the return address a thread carries in a register
  old_count,      \* local of enter_bincode: slots the thread had before
  frames          \* auxiliary: the calls of the procedure a thread is inside,
                  \* outermost first: [ret, slot, code]

objectVars  == <<stage, active, bridge, hooker, available>>
retaddrVars == <<retaddr_array, retaddr_count>>
skippedVars == <<skipped_array, skipped_count>>
threadVars  == <<pc, rax, old_count, frames>>
vars        == <<objectVars, retaddrVars, skippedVars, threadVars>>

\* user: outside the jumper's code (in a caller, the hooker or the original)
\* enter: in the entry code, return address in rax; select, check: inside
\* enter_bincode; leave: back from the called code; landing: out of
\* leave_bincode, about to execute retn; nullcall: control went to address
\* 0; fault: executed or read a destroyed context
Inside == {"enter", "select", "check", "leave", "landing"}
Places == Inside \cup {"user", "nullcall", "fault"}

FreeRetaddr == [thread_id |-> NoThread, return_address |-> NULL]
Retaddr     == [thread_id : Threads \cup {NoThread},
                return_address : Addresses \cup {NULL}]
Frame       == [ret : Addresses, slot : Nat, code : Bridges \cup Hookers \cup {NULL}]

Goto(t, place) == pc' = [pc EXCEPT ![t] = place]
Top(t)         == frames[t][Len(frames[t])]

---------------------------------------------------------------------------
(* The array of return addresses.                                          *)

\* The slots thread t holds.
Own(t) == {i \in DOMAIN retaddr_array : retaddr_array[i].thread_id = t}

\* Variants a mutant run puts in place of Candidates: the lowest free slot
\* whatever t holds; only slots above all used ones.
AnyFree(t)  == {i \in DOMAIN retaddr_array : retaddr_array[i].thread_id = NoThread}
AboveAll(t) == {i \in DOMAIN retaddr_array :
                  \A j \in i .. retaddr_count - 1 : retaddr_array[j].thread_id = NoThread}

\* The slots a push of thread t may use: free, and above all that t holds
\* (the scan forgets its candidate when it meets a slot of t).
Candidates(t) == {i \in DOMAIN retaddr_array :
                    /\ retaddr_array[i].thread_id = NoThread
                    /\ \A j \in Own(t) : j < i}

\* Variant: the loop over the new array goes one slot too far.
ExtendedTooFar == [i \in 0 .. retaddr_count + RetaddrExtend |->
                     IF i < retaddr_count THEN retaddr_array[i] ELSE FreeRetaddr]

\* The array grown by RetaddrExtend free slots.
Extended == [i \in 0 .. retaddr_count + RetaddrExtend - 1 |->
               IF i < retaddr_count THEN retaddr_array[i] ELSE FreeRetaddr]

Store(array, t, i) ==
  /\ retaddr_array' = [array EXCEPT ![i] = [thread_id      |-> t,
                                            return_address |-> rax[t]]]
  /\ frames'    = [frames EXCEPT ![t] =
                     Append(@, [ret |-> rax[t], slot |-> i, code |-> NULL])]
  /\ old_count' = [old_count EXCEPT ![t] = Cardinality(Own(t))]
  /\ rax'       = [rax EXCEPT ![t] = NULL]
  /\ Goto(t, "select")

PushFree(t) ==
  \E i \in Candidates(t) :
    /\ \A j \in Candidates(t) : i <= j
    /\ Store(retaddr_array, t, i)
    /\ UNCHANGED retaddr_count

PushExtend(t) ==
  /\ Candidates(t) = {}
  /\ retaddr_count + RetaddrExtend <= MaxRetaddr
  /\ Store(Extended, t, retaddr_count)
  /\ retaddr_count' = retaddr_count + RetaddrExtend

\* No slot and no memory: enter_bincode returns NULL and the entry code
\* calls it.
PushFails(t) ==
  /\ Candidates(t) = {}
  /\ Goto(t, "nullcall")
  /\ rax' = [rax EXCEPT ![t] = NULL]
  /\ UNCHANGED <<retaddrVars, old_count, frames>>

\* Variant: the scan runs from the bottom.
IsBottom(t, i) == i \in Own(t) /\ \A j \in Own(t) : i <= j

\* Slot i is the one a pop of t clears: the scan runs from the top.
IsTop(t, i) == i \in Own(t) /\ \A j \in Own(t) : j <= i

---------------------------------------------------------------------------
(* The array of threads the hook is switched off for.                      *)

\* Variant: the scan starts at slot 1.
SkippedFrom1(t) == \E i \in DOMAIN skipped_array : i > 0 /\ skipped_array[i] = t

Skipped(t) == \E i \in DOMAIN skipped_array : skipped_array[i] = t

FreeSkipped == {i \in DOMAIN skipped_array : skipped_array[i] = NoThread}

SkippedAdd(t) ==
  \/ /\ Skipped(t)
     /\ UNCHANGED skippedVars
  \/ /\ ~Skipped(t)
     /\ \E i \in FreeSkipped :
          /\ \A j \in FreeSkipped : i <= j
          /\ skipped_array' = [skipped_array EXCEPT ![i] = t]
     /\ UNCHANGED skipped_count
  \/ /\ ~Skipped(t)
     /\ FreeSkipped = {}
     /\ skipped_count' = skipped_count + SkippedExtend
     /\ skipped_array' = [i \in 0 .. skipped_count + SkippedExtend - 1 |->
                            IF i < skipped_count THEN skipped_array[i]
                            ELSE IF i = skipped_count THEN t ELSE NoThread]

SkippedDel(t) ==
  \E i \in DOMAIN skipped_array :
    /\ skipped_array[i] = t
    /\ \A j \in DOMAIN skipped_array : skipped_array[j] = t => i <= j
    /\ skipped_array' = [skipped_array EXCEPT ![i] = NoThread]
    /\ UNCHANGED skipped_count

---------------------------------------------------------------------------
(* The steps of a thread that calls the procedure.                         *)

\* The call leads to the bincode, whose first instructions pop the return
\* address.  A thread may call again from the hooker or the original.
Call(t, a) ==
  /\ stage = "ready"
  /\ pc[t] = "user"
  /\ Len(frames[t]) < MaxDepth
  /\ rax' = [rax EXCEPT ![t] = a]
  /\ Goto(t, "enter")
  /\ UNCHANGED <<objectVars, retaddrVars, skippedVars, old_count, frames>>

Push(t) ==
  /\ stage = "ready"
  /\ pc[t] = "enter"
  /\ PushFree(t) \/ PushExtend(t) \/ PushFails(t)
  /\ UNCHANGED <<objectVars, skippedVars>>

\* Control goes to the given code.
Transfer(t, code) ==
  /\ frames' = [frames EXCEPT ![t][Len(frames[t])].code = code]
  /\ old_count' = [old_count EXCEPT ![t] = 0]
  /\ Goto(t, "user")

\* Variant: a nested call is not told from a primary one.
ForHookerAlways(t) == active

\* `jumper->active == true && old_count == 0', read without a lock.
ForHooker(t) == active /\ old_count[t] = 0

ReadActive(t) ==
  /\ stage = "ready"
  /\ pc[t] = "select"
  /\ \/ /\ ForHooker(t)
        /\ Goto(t, "check")
        /\ UNCHANGED <<old_count, frames>>
     \/ /\ ~ForHooker(t)
        /\ Transfer(t, bridge)
  /\ UNCHANGED <<objectVars, retaddrVars, skippedVars, rax>>

\* skipped_check, then the choice of the address to call.
CheckSkipped(t) ==
  /\ stage = "ready"
  /\ pc[t] = "check"
  /\ Transfer(t, IF Skipped(t) THEN bridge ELSE hooker)
  /\ UNCHANGED <<objectVars, retaddrVars, skippedVars, rax>>

\* The called code returns into the bincode.
Return(t) ==
  /\ pc[t] = "user"
  /\ frames[t] # << >>
  /\ Goto(t, "leave")
  /\ UNCHANGED <<objectVars, retaddrVars, skippedVars, rax, old_count, frames>>

\* leave_bincode: the address of the topmost slot of t, NULL when t holds
\* none, in which case the bincode returns to address 0.
Pop(t) ==
  /\ stage = "ready"
  /\ pc[t] = "leave"
  /\ rax' = [rax EXCEPT ![t] =
               IF Own(t) = {} THEN NULL
               ELSE retaddr_array[CHOOSE i \in Own(t) : IsTop(t, i)].return_address]
  /\ retaddr_array' = [i \in DOMAIN retaddr_array |->
                         IF IsTop(t, i) THEN FreeRetaddr ELSE retaddr_array[i]]
  /\ frames' = [frames EXCEPT ![t] = SubSeq(@, 1, Len(@) - 1)]
  /\ Goto(t, IF rax'[t] = NULL THEN "nullcall" ELSE "landing")
  /\ UNCHANGED <<objectVars, skippedVars, retaddr_count, old_count>>

Land(t) ==
  /\ stage = "ready"
  /\ pc[t] = "landing"
  /\ rax' = [rax EXCEPT ![t] = NULL]
  /\ Goto(t, "user")
  /\ UNCHANGED <<objectVars, retaddrVars, skippedVars, old_count, frames>>

\* A thread inside the jumper's code executes zeroed bytes or enters a
\* deleted critical section.
Fault(t) ==
  /\ stage = "destroyed"
  /\ pc[t] \in Inside
  /\ Goto(t, "fault")
  /\ UNCHANGED <<objectVars, retaddrVars, skippedVars, rax, old_count, frames>>

---------------------------------------------------------------------------
(* The operations of the owner and of the user code.                       *)

Create(b, h) ==
  /\ stage = "absent"
  /\ stage'  = "ready"
  /\ active' = FALSE
  /\ bridge' = b
  /\ hooker' = h
  /\ UNCHANGED <<available, retaddrVars, skippedVars, threadVars>>

SetActive(on) ==
  /\ stage = "ready"
  /\ active' = on
  /\ UNCHANGED <<stage, bridge, hooker, available, retaddrVars, skippedVars, threadVars>>

SetBridge(b) ==
  /\ stage = "ready"
  /\ bridge' = b
  /\ UNCHANGED <<stage, active, hooker, available, retaddrVars, skippedVars, threadVars>>

SetHooker(h) ==
  /\ stage = "ready"
  /\ hooker' = h
  /\ UNCHANGED <<stage, active, bridge, available, retaddrVars, skippedVars, threadVars>>

\* The code adds the thread to the skipped ones when `on' and removes it
\* when not.
SetActiveForCurrentThread(t, on) ==
  /\ stage = "ready"
  /\ pc[t] = "user"
  /\ IF on THEN SkippedAdd(t) ELSE SkippedDel(t)
  /\ UNCHANGED <<objectVars, retaddrVars, threadVars>>

\* Variant: the count leaves out the last slot.
AllButLastFree == \A i \in DOMAIN retaddr_array :
                    i < retaddr_count - 1 => retaddr_array[i].thread_id = NoThread

DestroyAvailable == \A i \in DOMAIN retaddr_array : retaddr_array[i].thread_id = NoThread

CheckDestroy ==
  /\ stage = "ready"
  /\ available' = DestroyAvailable
  /\ UNCHANGED <<stage, active, bridge, hooker, retaddrVars, skippedVars, threadVars>>

\* The owner destroys after a positive answer; no lock spans the two.
Destroy ==
  /\ stage = "ready"
  /\ available
  /\ stage'  = "destroyed"
  /\ active' = FALSE
  /\ bridge' = NULL
  /\ hooker' = NULL
  /\ retaddr_array' = << >>
  /\ retaddr_count' = 0
  /\ skipped_array' = << >>
  /\ skipped_count' = 0
  /\ UNCHANGED <<available, threadVars>>

---------------------------------------------------------------------------

Init ==
  /\ stage = "absent"
  /\ active = FALSE
  /\ bridge = NULL
  /\ hooker = NULL
  /\ available = FALSE
  /\ retaddr_array = << >>
  /\ retaddr_count = 0
  /\ skipped_array = << >>
  /\ skipped_count = 0
  /\ pc        = [t \in Threads |-> "user"]
  /\ rax       = [t \in Threads |-> NULL]
  /\ old_count = [t \in Threads |-> 0]
  /\ frames    = [t \in Threads |-> << >>]

ThreadStep(t) ==
  \/ Push(t) \/ ReadActive(t) \/ CheckSkipped(t)
  \/ Return(t) \/ Pop(t) \/ Land(t) \/ Fault(t)

Next ==
  \/ \E t \in Threads :
       \/ ThreadStep(t)
       \/ \E a \in Addresses : Call(t, a)
       \/ \E on \in BOOLEAN : SetActiveForCurrentThread(t, on)
  \/ \E b \in Bridges, h \in Hookers : Create(b, h)
  \/ \E on \in BOOLEAN : SetActive(on)
  \/ \E b \in Bridges : SetBridge(b)
  \/ \E h \in Hookers : SetHooker(h)
  \/ CheckDestroy
  \/ Destroy

Spec == Init /\ [][Next]_vars

---------------------------------------------------------------------------
(* Properties.                                                             *)

TypeOK ==
  /\ stage \in {"absent", "ready", "destroyed"}
  /\ active \in BOOLEAN
  /\ available \in BOOLEAN
  /\ bridge \in Bridges \cup {NULL}
  /\ hooker \in Hookers \cup {NULL}
  /\ retaddr_count \in Nat
  /\ retaddr_array \in [0 .. retaddr_count - 1 -> Retaddr]
  /\ skipped_count \in Nat
  /\ skipped_array \in [0 .. skipped_count - 1 -> Threads \cup {NoThread}]
  /\ pc \in [Threads -> Places]
  /\ rax \in [Threads -> Addresses \cup {NULL}]
  /\ old_count \in [Threads -> Nat]
  /\ frames \in [Threads -> Seq(Frame)]

(* The slots a thread holds are exactly those of the calls it is inside,   *)
(* with the addresses of their callers, and a call nested deeper has a     *)
(* higher slot: what lets a pop find the address of the innermost call by  *)
(* scanning from the top of an array all threads share.                    *)
SlotsMatchFrames ==
  stage = "ready" =>
    \A t \in Threads :
      /\ \A k \in 1 .. Len(frames[t]) :
           /\ frames[t][k].slot \in Own(t)
           /\ retaddr_array[frames[t][k].slot].return_address = frames[t][k].ret
      /\ \A k, l \in 1 .. Len(frames[t]) :
           k < l => frames[t][k].slot < frames[t][l].slot
      /\ \A i \in Own(t) : \E k \in 1 .. Len(frames[t]) : frames[t][k].slot = i

(* Where a thread may be with what: the strengthening the other invariants *)
(* are proved with.  In particular a thread that found no slot of its own  *)
(* (old_count = 0) is inside one call only, also after the lock under      *)
(* which it counted is released.                                           *)
PlaceInv ==
  /\ stage # "ready" => retaddr_count = 0
  /\ stage = "absent" => \A t \in Threads : frames[t] = << >> /\ pc[t] = "user"
  /\ \A t \in Threads :
       /\ pc[t] = "enter" => rax[t] \in Addresses
       /\ pc[t] \in {"select", "check", "leave"} => frames[t] # << >>
       /\ pc[t] \in {"select", "check"} /\ old_count[t] = 0 => Len(frames[t]) = 1
       /\ pc[t] = "check" => old_count[t] = 0

(* Every call returns to its own caller: the address leave_bincode hands   *)
(* to retn is that of the innermost call the thread is inside, whatever    *)
(* the other threads pushed, popped or extended meanwhile.                 *)
ReturnsToCaller ==
  [][\A t \in Threads :
       pc[t] = "leave" /\ pc'[t] \notin {"leave", "fault"} =>
         pc'[t] = "landing" /\ rax'[t] = Top(t).ret]_vars

(* The hooker runs for the primary call only: of the nested calls of a     *)
(* thread at most the outermost is in the hooker, so a hooker that calls   *)
(* the procedure it hooks never enters itself (splicejumper64.h:8).        *)
HookerOnlyOutermost ==
  \A t \in Threads : \A k \in 1 .. Len(frames[t]) :
    frames[t][k].code \in Hookers => k = 1

(* A thread is marked as skipped at most once, so that one call of         *)
(* set_active_for_current_thread undoes the other.                         *)
SkippedOnce ==
  \A i, j \in DOMAIN skipped_array :
    skipped_array[i] = skipped_array[j] /\ skipped_array[i] # NoThread => i = j

(* destroy_available answers true exactly when no thread is inside the     *)
(* called code or on either side of it with its address stored.            *)
AvailableMeansUnused ==
  stage = "ready" => (DestroyAvailable <=> \A t \in Threads : frames[t] = << >>)

(* Although a push passes over free slots below those of its thread, the   *)
(* array is only extended when the addresses that can be held at once      *)
(* could fill it: fragmentation never makes it grow further.               *)
GrowthBound ==
  retaddr_count < Cardinality(Threads) * MaxDepth + RetaddrExtend

===========================================================================
