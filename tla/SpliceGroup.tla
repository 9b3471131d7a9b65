---------------------------- MODULE SpliceGroup ----------------------------
(***************************************************************************)
(* splice_group_hook and splice_group_unhook (src/hook/splice.cpp) over an *)
(* array of items, several of which may hook the same procedure, together  *)
(* or one after the other.  The first bytes of a procedure are one cell:   *)
(* as built, or leading to the splice of one item.  A splice saves the     *)
(* cell when it is created and puts that value back when it is removed.    *)
(*                                                                         *)
(* One caller runs the calls; every call they make into a splice is a      *)
(* step, and threads enter and leave the hooked procedures between them.   *)
(***************************************************************************)
EXTENDS Integers, Sequences

CONSTANTS
  N,              \* items in the caller's array
  Targets,        \* procedures
  TargetOf,       \* item -> its procedure
  CreateDisabled, \* items with splice_param_create_disabled
  Threads,
  MaxChain        \* bound: splices a thread is inside at once

Items == 1 .. N

\* The bytes of a procedure as built: no item has this number.
Original == 0

ASSUME ItemsAssumption == /\ N \in Nat \ {0}
                          /\ TargetOf \in [Items -> Targets]
                          /\ CreateDisabled \subseteq Items
                          /\ MaxChain \in Nat \ {0}

VARIABLES
  memory,   \* procedure -> Original or the item its bytes lead to
  held,     \* items whose splice is not NULL
  saved,    \* item -> the bytes its splice restores
  active,   \* items whose splice is enabled
  inside,   \* thread -> the splices it is inside, outermost first
  op,       \* "idle", "hook", "rollback" (group_hook after an error), "unhook"
  phase,    \* the loop the call is in
  first, last, at,  \* the call's part of the array and its loop counter
  closing,  \* the caller only unhooks from now on
  before,   \* auxiliary: memory when the call began
  fresh,    \* auxiliary: no item of the call had a splice when it began
  restored  \* auxiliary: no write of original bytes has failed in the call

spliceVars == <<memory, held, saved, active>>
callVars   == <<op, phase, first, last, at>>
auxVars    == <<before, fresh, restored>>
vars       == <<spliceVars, inside, callVars, closing, auxVars>>

Part == first .. last
Phases == {"check", "create", "enable", "write", "restore", "disable", "destroy", "return"}

---------------------------------------------------------------------------
(* Control of the loops.                                                   *)

At(ops, ph) == op \in ops /\ phase = ph

\* The next item, or the next loop.
Advance(next) ==
  /\ IF at < last THEN at' = at + 1 /\ phase' = phase
                  ELSE at' = first /\ phase' = next
  /\ UNCHANGED <<op, first, last>>

\* `error = true': group_hook goes on with group_unhook, which gives up.
Fail ==
  /\ IF op = "hook" THEN op' = "rollback" /\ phase' = "check"
                    ELSE op' = op /\ phase' = "return"
  /\ at' = first
  /\ UNCHANGED <<first, last>>

\* The caller's rule: bytes saved by another splice lead to no item of the
\* call, so that hooks of one procedure are removed in reverse order.
NobodyRestores(f, l) == \A j \in held : saved[j] \notin f .. l

Begin(kind, f, l) ==
  /\ op = "idle"
  /\ NobodyRestores(f, l)
  /\ op' = kind /\ phase' = "check"
  /\ first' = f /\ last' = l /\ at' = f
  /\ before' = memory
  /\ fresh' = (held \cap f .. l = {})
  /\ restored' = TRUE
  /\ UNCHANGED <<spliceVars, inside, closing>>

HookCall(f, l)   == ~closing /\ Begin("hook", f, l)
UnhookCall(f, l) == Begin("unhook", f, l)

Return ==
  /\ op # "idle" /\ phase = "return"
  /\ op' = "idle"
  /\ UNCHANGED <<spliceVars, inside, phase, first, last, at, closing, auxVars>>

---------------------------------------------------------------------------
(* group_hook                                                              *)

HookCheck ==
  /\ At({"hook"}, "check")
  /\ IF held \cap Part = {} THEN phase' = "create" /\ UNCHANGED <<op, first, last, at>>
                             ELSE Fail
  /\ UNCHANGED <<spliceVars, inside, closing, auxVars>>

Create ==
  /\ At({"hook"}, "create")
  /\ held'   = held \cup {at}
  /\ saved'  = [saved EXCEPT ![at] = memory[TargetOf[at]]]
  /\ active' = active \ {at}
  /\ Advance("enable")
  /\ UNCHANGED <<memory, inside, closing, auxVars>>

CreateFails ==
  /\ At({"hook"}, "create")
  /\ Fail
  /\ UNCHANGED <<spliceVars, inside, closing, auxVars>>

Enable ==
  /\ At({"hook"}, "enable")
  /\ active' = IF at \in CreateDisabled THEN active \ {at} ELSE active \cup {at}
  /\ Advance("write")
  /\ UNCHANGED <<memory, held, saved, inside, closing, auxVars>>

WriteModified ==
  /\ At({"hook"}, "write")
  /\ memory' = [memory EXCEPT ![TargetOf[at]] = at]
  /\ Advance("return")
  /\ UNCHANGED <<held, saved, active, inside, closing, auxVars>>

WriteModifiedFails ==
  /\ At({"hook"}, "write")
  /\ Fail
  /\ UNCHANGED <<spliceVars, inside, closing, auxVars>>

---------------------------------------------------------------------------
(* group_unhook, called by the caller or by group_hook                     *)

Undo == {"unhook", "rollback"}

UnhookCheck ==
  /\ At(Undo, "check")
  /\ IF Part \subseteq held THEN phase' = "restore" /\ UNCHANGED <<op, first, last, at>>
                             ELSE Fail
  /\ UNCHANGED <<spliceVars, inside, closing, auxVars>>

\* Variant: a failed write does not stop the loop.
WriteOriginalFailsAndGoesOn ==
  /\ At(Undo, "restore")
  /\ restored' = FALSE
  /\ Advance("disable")
  /\ UNCHANGED <<spliceVars, inside, closing, before, fresh>>

WriteOriginalFails ==
  /\ At(Undo, "restore")
  /\ restored' = FALSE
  /\ Fail
  /\ UNCHANGED <<spliceVars, inside, closing, before, fresh>>

\* Variant: only the cell of the first item is put back.
WriteOriginalOnce ==
  /\ At(Undo, "restore")
  /\ memory' = IF at = first THEN [memory EXCEPT ![TargetOf[at]] = saved[at]] ELSE memory
  /\ Advance("disable")
  /\ UNCHANGED <<held, saved, active, inside, closing, auxVars>>

\* Variant: the cells are never put back.
WriteOriginalNever ==
  /\ At(Undo, "restore")
  /\ Advance("disable")
  /\ UNCHANGED <<spliceVars, inside, closing, auxVars>>

WriteOriginal ==
  /\ At(Undo, "restore")
  /\ memory' = [memory EXCEPT ![TargetOf[at]] = saved[at]]
  /\ Advance("disable")
  /\ UNCHANGED <<held, saved, active, inside, closing, auxVars>>

Disable ==
  /\ At(Undo, "disable")
  /\ active' = active \ {at}
  /\ Advance("destroy")
  /\ UNCHANGED <<memory, held, saved, inside, closing, auxVars>>

Busy(i) == \E t \in Threads, k \in 1 .. MaxChain : k <= Len(inside[t]) /\ inside[t][k] = i

Destroy ==
  /\ At(Undo, "destroy")
  /\ ~Busy(at)
  /\ held' = held \ {at}
  /\ Advance("return")
  /\ UNCHANGED <<memory, saved, active, inside, closing, auxVars>>

DestroyBusy ==
  /\ At(Undo, "destroy")
  /\ Busy(at)
  /\ Fail
  /\ UNCHANGED <<spliceVars, inside, closing, auxVars>>

---------------------------------------------------------------------------
(* The threads and the caller.                                             *)

Goes(t, i) ==
  /\ inside' = [inside EXCEPT ![t] = Append(@, i)]
  /\ UNCHANGED <<spliceVars, callVars, closing, auxVars>>

Enter(t) ==
  \E p \in Targets :
    /\ inside[t] = << >>
    /\ memory[p] # Original
    /\ Goes(t, memory[p])

\* The bridge executes the saved bytes: those of an earlier hook lead on to
\* its splice.
Chain(t) ==
  /\ inside[t] # << >>
  /\ Len(inside[t]) < MaxChain
  /\ saved[inside[t][Len(inside[t])]] # Original
  /\ Goes(t, saved[inside[t][Len(inside[t])]])

Leave(t) ==
  /\ inside[t] # << >>
  /\ inside' = [inside EXCEPT ![t] = SubSeq(@, 1, Len(@) - 1)]
  /\ UNCHANGED <<spliceVars, callVars, closing, auxVars>>

\* From now on the caller only unhooks, one entry at a time.
Close ==
  /\ op = "idle" /\ ~closing
  /\ closing' = TRUE
  /\ UNCHANGED <<spliceVars, inside, callVars, auxVars>>

Init ==
  /\ memory  = [p \in Targets |-> Original]
  /\ held    = {}
  /\ saved   = [i \in Items |-> Original]
  /\ active  = {}
  /\ inside  = [t \in Threads |-> << >>]
  /\ op = "idle" /\ phase = "return" /\ first = 1 /\ last = 1 /\ at = 1
  /\ closing = FALSE
  /\ before  = memory
  /\ fresh = TRUE /\ restored = TRUE

HookStep   == HookCheck \/ Create \/ CreateFails \/ Enable \/ WriteModified \/ WriteModifiedFails
UnhookStep == UnhookCheck \/ WriteOriginal \/ WriteOriginalFails \/ Disable
                \/ Destroy \/ DestroyBusy
CallStep   == HookStep \/ UnhookStep \/ Return

Next ==
  \/ \E f, l \in Items : f <= l /\ (HookCall(f, l) \/ (~closing /\ UnhookCall(f, l)))
  \/ \E i \in held : closing /\ UnhookCall(i, i)
  \/ CallStep
  \/ \E t \in Threads : Enter(t) \/ Chain(t) \/ Leave(t)
  \/ Close

Spec == Init /\ [][Next]_vars

\* Calls run to their end, the hooked procedures return, memory can be
\* written when it is tried again and again, and the caller that closes
\* tries each entry again and again.
Fairness ==
  /\ WF_vars(CallStep)
  /\ SF_vars(WriteOriginal)
  /\ \A t \in Threads : WF_vars(Leave(t)) /\ SF_vars(Leave(t) /\ Len(inside[t]) = 1)
  /\ \A i \in Items : SF_vars(closing /\ i \in held /\ UnhookCall(i, i))

FairSpec == Spec /\ Fairness

---------------------------------------------------------------------------
(* Properties.                                                             *)

GroupTypeOK ==
  /\ memory \in [Targets -> Items \cup {Original}]
  /\ held \subseteq Items
  /\ saved \in [Items -> Items \cup {Original}]
  /\ active \subseteq Items
  /\ inside \in [Threads -> UNION {[1 .. n -> Items] : n \in 0 .. MaxChain}]
  /\ op \in {"idle", "hook", "rollback", "unhook"}
  /\ phase \in Phases
  /\ {first, last, at} \subseteq Items
  /\ at \in Part
  /\ closing \in BOOLEAN /\ fresh \in BOOLEAN /\ restored \in BOOLEAN

(* No procedure, no bridge and no thread leads into a splice that was      *)
(* freed: although group_hook and group_unhook may stop half way at any    *)
(* failed write or busy splice, in any order of calls that removes the     *)
(* hooks of a procedure in reverse.                                        *)
PatchLeadsToLiveSplice ==
  /\ \A p \in Targets : memory[p] # Original => memory[p] \in held
  /\ \A i \in held : saved[i] # Original => saved[i] \in held
  /\ \A t \in Threads : \A k \in 1 .. Len(inside[t]) : inside[t][k] \in held

(* A group_hook that fails leaves the bytes of every procedure as it found *)
(* them, provided its items were not hooked before and no write of the     *)
(* original bytes failed.                                                  *)
HookAllOrNothing ==
  [][op = "rollback" /\ op' = "idle" /\ fresh /\ restored => memory = before]_vars

(* A caller that unhooks every entry, one call each and again when it is   *)
(* refused, ends with no hook left, although threads keep calling the      *)
(* procedures and calls failed half way before.                            *)
CloseCompletes == closing ~> (held = {} /\ \A p \in Targets : memory[p] = Original)
===========================================================================
