------------------------- MODULE SpliceGroupProofs -------------------------
(***************************************************************************)
(* Theorems about SpliceGroup for any number of items, procedures and      *)
(* threads, and any order of the calls.                                    *)
(***************************************************************************)
EXTENDS SpliceGroup, SequenceTheorems, TLAPS

---------------------------------------------------------------------------
(* The inductive invariant.                                                *)

(* The variables are typed; a thread is inside MaxChain splices at most.   *)
TypeInv ==
  /\ memory \in [Targets -> Items \cup {Original}]
  /\ before \in [Targets -> Items \cup {Original}]
  /\ held \subseteq Items /\ active \subseteq Items
  /\ saved \in [Items -> Items \cup {Original}]
  /\ inside \in [Threads -> Seq(Items)]
  /\ \A t \in Threads : Len(inside[t]) <= MaxChain
  /\ op \in {"idle", "hook", "rollback", "unhook"}
  /\ phase \in Phases
  /\ first \in Items /\ last \in Items /\ at \in Part
  /\ closing \in BOOLEAN /\ fresh \in BOOLEAN /\ restored \in BOOLEAN

(* The bytes of a procedure, and those saved from it, lead to items that   *)
(* hook it.                                                                *)
TargetInv ==
  /\ \A p \in Targets : memory[p] # Original => TargetOf[memory[p]] = p
  /\ \A i \in Items : saved[i] # Original => TargetOf[saved[i]] = TargetOf[i]

(* No bytes that a splice would put back lead to an item of the call that  *)
(* runs: the caller's rule, which what the call itself creates keeps.      *)
RuleInv == op # "idle" => NobodyRestores(first, last)

(* How far the loops of the call are.                                      *)
LoopInv ==
  /\ op # "idle" /\ phase = "check" => at = first
  /\ op = "hook" /\ phase \in {"create", "enable"} => \A p \in Targets : memory[p] \notin Part
  /\ op = "hook" /\ phase = "create" => first .. at - 1 \subseteq held
  /\ op = "hook" /\ phase \in {"enable", "write"} => Part \subseteq held
  /\ op \in Undo /\ phase \in {"restore", "disable"} => Part \subseteq held
  /\ op \in Undo /\ phase = "restore" => \A i \in first .. at - 1 : memory[TargetOf[i]] \notin Part
  /\ op \in Undo /\ phase \in {"disable", "destroy"} => \A p \in Targets : memory[p] \notin Part

(* How far a call to hook is from the bytes it found: it only changes      *)
(* those of its own procedures, when all its items have splices that saved *)
(* them.                                                                   *)
FoundInv ==
  op \in {"hook", "rollback"} /\ fresh /\ restored =>
    /\ op = "hook" /\ phase = "check" => held \cap Part = {}
    /\ \A i \in held \cap Part : saved[i] = before[TargetOf[i]]
    /\ \A p \in Targets : memory[p] # before[p] => \E i \in Part : TargetOf[i] = p
    /\ op = "hook" /\ phase \in {"check", "create", "enable"} => memory = before
    /\ op = "rollback" /\ phase = "check" => memory = before \/ Part \subseteq held
    /\ op = "rollback" /\ phase = "restore" =>
         \A i \in first .. at - 1 : memory[TargetOf[i]] = before[TargetOf[i]]
    /\ op = "rollback" /\ phase \in {"disable", "destroy", "return"} => memory = before

GroupInv == TypeInv /\ TargetInv /\ PatchLeadsToLiveSplice /\ RuleInv /\ LoopInv /\ FoundInv

---------------------------------------------------------------------------
(* The part of the array and the loops.                                    *)

LEMMA Numbers ==
  ASSUME TypeInv
  PROVE  /\ N \in Nat /\ MaxChain \in Nat \ {0} /\ Original \notin Items /\ Items \subseteq Nat
         /\ first \in Nat /\ last \in Nat /\ at \in Nat /\ first <= at /\ at <= last
         /\ at \in Part /\ at \in Items /\ Part \subseteq Items
         /\ \A i \in Items : TargetOf[i] \in Targets
         /\ TargetOf[at] \in Targets
<1>1. N \in Nat /\ MaxChain \in Nat \ {0} /\ Original \notin Items /\ Items \subseteq Nat
  BY ItemsAssumption DEF Items, Original
<1>2. \A i \in Items : TargetOf[i] \in Targets
  BY ItemsAssumption
<1>3. first \in Nat /\ last \in Nat /\ at \in Nat /\ first <= at /\ at <= last /\ at \in Part
  BY <1>1 DEF TypeInv, Part
<1>4. Part \subseteq Items
  BY <1>1, <1>3 DEF TypeInv, Part, Items
<1>. QED
  BY <1>1, <1>2, <1>3, <1>4

(* A loop goes on to the next item or, after the last, to the next loop.   *)
LEMMA AdvanceIs ==
  ASSUME TypeInv, NEW next \in Phases, Advance(next)
  PROVE  /\ op' = op /\ first' = first /\ last' = last /\ Part' = Part
         /\ at' \in Part /\ phase' \in Phases
         /\ \/ phase' = phase /\ first .. at' - 1 = (first .. at - 1) \cup {at}
            \/ phase' = next /\ Part = (first .. at - 1) \cup {at} /\ first .. at' - 1 = {}
<1>1. op' = op /\ first' = first /\ last' = last /\ Part' = Part
  BY DEF Advance, Part
<1>2. CASE at < last
  <2>1. at' = at + 1 /\ phase' = phase
    BY <1>2 DEF Advance
  <2>2. at' \in Part /\ first .. at' - 1 = (first .. at - 1) \cup {at}
    BY <1>2, <2>1, Numbers DEF Part
  <2>. QED
    BY <1>1, <2>1, <2>2 DEF TypeInv
<1>3. CASE ~(at < last)
  <2>1. at' = first /\ phase' = next /\ at = last
    BY <1>3, Numbers DEF Advance
  <2>2. at' \in Part /\ Part = (first .. at - 1) \cup {at} /\ first .. at' - 1 = {}
    BY <2>1, Numbers DEF Part
  <2>. QED
    BY <1>1, <2>1, <2>2
<1>. QED
  BY <1>2, <1>3

(* Steps that leave the splices, the bytes and the call alone.             *)
LEMMA InsideStep ==
  ASSUME GroupInv, UNCHANGED <<spliceVars, callVars, auxVars>>, closing' \in BOOLEAN,
         inside' \in [Threads -> Seq(Items)],
         \A t \in Threads : /\ Len(inside'[t]) <= MaxChain
                            /\ \A k \in 1 .. Len(inside'[t]) : inside'[t][k] \in held
  PROVE  GroupInv'
<1>1. /\ UNCHANGED <<memory, held, saved, active, op, phase, first, last, at, before, fresh, restored>>
      /\ Part' = Part
  BY DEF spliceVars, callVars, auxVars, Part
<1>2. TypeInv'
  BY <1>1 DEF GroupInv, TypeInv
<1>3. TargetInv' /\ PatchLeadsToLiveSplice'
  BY <1>1 DEF GroupInv, TargetInv, PatchLeadsToLiveSplice
<1>4. RuleInv' /\ LoopInv'
  BY <1>1 DEF GroupInv, RuleInv, NobodyRestores, LoopInv
<1>5. FoundInv'
  BY <1>1 DEF GroupInv, FoundInv
<1>. QED
  BY <1>2, <1>3, <1>4, <1>5 DEF GroupInv

(* Threads enter splices that are there, by the bytes of a procedure or by *)
(* saved ones.                                                             *)
LEMMA ThreadStep ==
  ASSUME GroupInv, NEW t \in Threads, Enter(t) \/ Chain(t) \/ Leave(t)
  PROVE  GroupInv'
<1>. USE DEF GroupInv
<1>1. /\ inside \in [Threads -> Seq(Items)] /\ inside[t] \in Seq(Items)
      /\ \A u \in Threads : Len(inside[u]) <= MaxChain /\ Len(inside[u]) \in Nat
      /\ \A u \in Threads : \A k \in 1 .. Len(inside[u]) : inside[u][k] \in held
      /\ held \subseteq Items
  BY DEF TypeInv, PatchLeadsToLiveSplice
<1>2. ASSUME NEW i \in held, Len(inside[t]) < MaxChain, Goes(t, i)
      PROVE  GroupInv'
  <2>1. inside' = [inside EXCEPT ![t] = Append(inside[t], i)] /\ i \in Items
    BY <1>1, <1>2 DEF Goes
  <2>2. /\ inside' \in [Threads -> Seq(Items)]
        /\ Len(inside'[t]) = Len(inside[t]) + 1
        /\ \A k \in 1 .. Len(inside'[t]) : inside'[t][k] \in held
        /\ \A u \in Threads : u # t => inside'[u] = inside[u]
    BY <1>1, <2>1
  <2>3. Len(inside'[t]) <= MaxChain
    BY <1>1, <1>2, <2>2, Numbers
  <2>. QED
    BY <1>1, <1>2, <2>2, <2>3, InsideStep DEF Goes, TypeInv
<1>3. CASE Enter(t)
  <2>1. PICK p \in Targets : inside[t] = << >> /\ memory[p] # Original /\ Goes(t, memory[p])
    BY <1>3 DEF Enter
  <2>2. memory[p] \in held /\ Len(inside[t]) < MaxChain
    BY <2>1, Numbers DEF PatchLeadsToLiveSplice
  <2>. QED
    BY <1>2, <2>1, <2>2
<1>4. CASE Chain(t)
  <2>1. PICK i : i = inside[t][Len(inside[t])]
    OBVIOUS
  <2>2. Len(inside[t]) < MaxChain /\ saved[i] # Original /\ Goes(t, saved[i]) /\ inside[t] # << >>
    BY <1>4, <2>1 DEF Chain
  <2>3. Len(inside[t]) \in 1 .. Len(inside[t])
    BY <1>1, <2>2
  <2>4. saved[i] \in held
    BY <1>1, <2>1, <2>2, <2>3 DEF PatchLeadsToLiveSplice
  <2>. QED
    BY <1>2, <2>2, <2>4
<1>5. CASE Leave(t)
  <2>1. PICK n : n = Len(inside[t]) - 1
    OBVIOUS
  <2>2. /\ inside' = [inside EXCEPT ![t] = SubSeq(inside[t], 1, n)]
        /\ UNCHANGED <<spliceVars, callVars, closing, auxVars>> /\ n \in Nat
        /\ \A k \in 1 .. n : k \in 1 .. Len(inside[t]) /\ inside[t][k] \in Items
    BY <1>1, <1>5, <2>1 DEF Leave
  <2>3. /\ SubSeq(inside[t], 1, n) \in Seq(Items)
        /\ Len(SubSeq(inside[t], 1, n)) = IF 1 <= n THEN n - 1 + 1 ELSE 0
        /\ \A k \in 1 .. n - 1 + 1 : SubSeq(inside[t], 1, n)[k] = inside[t][1 + k - 1]
    BY <1>1, <2>2, SubSeqProperties
  <2>4. /\ inside' \in [Threads -> Seq(Items)]
        /\ Len(inside'[t]) = n
        /\ \A k \in 1 .. n : inside'[t][k] \in held
        /\ \A u \in Threads : u # t => inside'[u] = inside[u]
    BY <1>1, <2>2, <2>3
  <2>5. Len(inside'[t]) <= MaxChain
    BY <1>1, <2>1, <2>2, <2>4, Numbers
  <2>. QED
    BY <1>1, <2>2, <2>4, <2>5, InsideStep DEF TypeInv
<1>. QED
  BY <1>3, <1>4, <1>5

---------------------------------------------------------------------------
(* The beginning and the end of a call, and calls that give up.            *)

LEMMA BeginStep ==
  ASSUME GroupInv, NEW kind \in {"hook", "unhook"}, NEW f \in Items, NEW l \in Items, f <= l,
         Begin(kind, f, l)
  PROVE  GroupInv'
<1>. USE DEF GroupInv
<1>1. /\ UNCHANGED <<memory, held, saved, active, inside, closing>>
      /\ op' = kind /\ phase' = "check" /\ first' = f /\ last' = l /\ at' = f
      /\ before' = memory /\ fresh' = (held \cap f .. l = {}) /\ restored' = TRUE
      /\ NobodyRestores(f, l) /\ Part' = f .. l
  BY DEF Begin, spliceVars, Part
<1>2. TypeInv'
  BY <1>1, Numbers DEF TypeInv, Phases
<1>3. TargetInv' /\ PatchLeadsToLiveSplice'
  BY <1>1 DEF TargetInv, PatchLeadsToLiveSplice
<1>4. RuleInv' /\ LoopInv'
  BY <1>1 DEF RuleInv, NobodyRestores, LoopInv, Undo
<1>5. FoundInv'
  BY <1>1 DEF FoundInv
<1>. QED
  BY <1>2, <1>3, <1>4, <1>5

LEMMA ReturnStep ==
  ASSUME GroupInv, Return
  PROVE  GroupInv'
<1>1. /\ UNCHANGED <<memory, held, saved, active, inside, closing, phase, first, last, at>>
      /\ UNCHANGED <<before, fresh, restored>>
      /\ op' = "idle" /\ Part' = Part
  BY DEF Return, spliceVars, auxVars, Part
<1>2. TypeInv'
  BY <1>1 DEF GroupInv, TypeInv
<1>. QED
  BY <1>1, <1>2
  DEF GroupInv, TargetInv, PatchLeadsToLiveSplice, RuleInv, LoopInv, FoundInv, Undo

(* A call to hook that fails goes on to undo: it changed nothing yet, or   *)
(* all its items have splices.  A call that fails to undo ends: the bytes  *)
(* are back unless it failed to write them.                                *)
LEMMA FailStep ==
  ASSUME GroupInv, Fail, UNCHANGED <<spliceVars, inside, closing, before, fresh>>,
         restored' \in BOOLEAN,
         \/ op = "hook" /\ phase \in {"check", "create", "write"} /\ restored' = restored
         \/ op \in Undo /\ restored' = FALSE
         \/ op \in Undo /\ phase = "check" /\ ~(Part \subseteq held) /\ restored' = restored
         \/ op \in Undo /\ phase = "destroy" /\ restored' = restored
  PROVE  GroupInv'
<1>. USE DEF GroupInv
<1>1. /\ UNCHANGED <<memory, held, saved, active, inside, closing, first, last, before, fresh>>
      /\ at' = first /\ Part' = Part
      /\ \/ op = "hook" /\ op' = "rollback" /\ phase' = "check"
         \/ op \in Undo /\ op' = op /\ phase' = "return"
  BY DEF Fail, spliceVars, Part, Undo
<1>2. TypeInv'
  <2>1. first \in Part
    BY Numbers DEF Part
  <2>. QED
    BY <1>1, <2>1 DEF TypeInv, Phases, Undo
<1>3. TargetInv' /\ PatchLeadsToLiveSplice'
  BY <1>1 DEF TargetInv, PatchLeadsToLiveSplice
<1>4. RuleInv'
  BY <1>1 DEF RuleInv, NobodyRestores, Undo
<1>5. LoopInv'
  BY <1>1 DEF LoopInv, Undo
<1>6. CASE op = "hook"
  <2>1. /\ op' = "rollback" /\ phase' = "check" /\ restored' = restored
        /\ phase \in {"check", "create", "write"}
    BY <1>1, <1>6 DEF Undo
  <2>2. fresh /\ restored => memory = before \/ Part \subseteq held
    BY <1>6, <2>1 DEF FoundInv, LoopInv
  <2>3. FoundInv'
    BY <1>1, <1>6, <2>1, <2>2 DEF FoundInv
  <2>. QED
    BY <1>2, <1>3, <1>4, <1>5, <2>3
<1>7. CASE op \in Undo
  <2>1. op' = op /\ phase' = "return"
    BY <1>1, <1>7 DEF Undo
  <2>2. op = "rollback" /\ fresh /\ restored /\ restored' => memory = before
    BY <1>7 DEF FoundInv, Undo
  <2>3. restored' => restored
    BY <1>7 DEF Undo
  <2>4. FoundInv'
    BY <1>1, <1>7, <2>1, <2>2, <2>3 DEF FoundInv, Undo
  <2>. QED
    BY <1>2, <1>3, <1>4, <1>5, <2>4
<1>. QED
  BY <1>6, <1>7 DEF Undo

LEMMA FailSteps ==
  ASSUME GroupInv,
         \/ CreateFails \/ WriteModifiedFails \/ WriteOriginalFails \/ DestroyBusy
  PROVE  GroupInv'
<1>1. UNCHANGED <<spliceVars, inside, closing, before, fresh>> /\ restored \in BOOLEAN
  BY DEF CreateFails, WriteModifiedFails, WriteOriginalFails, DestroyBusy, auxVars, GroupInv, TypeInv
<1>2. CASE CreateFails
  BY <1>1, <1>2, FailStep DEF CreateFails, At, auxVars
<1>3. CASE WriteModifiedFails
  BY <1>1, <1>3, FailStep DEF WriteModifiedFails, At, auxVars
<1>4. CASE WriteOriginalFails
  BY <1>1, <1>4, FailStep DEF WriteOriginalFails, At
<1>5. CASE DestroyBusy
  BY <1>1, <1>5, FailStep DEF DestroyBusy, At, auxVars
<1>. QED
  BY <1>2, <1>3, <1>4, <1>5

LEMMA CheckSteps ==
  ASSUME GroupInv, HookCheck \/ UnhookCheck
  PROVE  GroupInv'
<1>. USE DEF GroupInv
<1>1. /\ UNCHANGED <<memory, held, saved, active, inside, closing, before, fresh, restored>>
      /\ phase = "check" /\ UNCHANGED <<spliceVars, inside, closing, before, fresh>>
  BY DEF HookCheck, UnhookCheck, At, spliceVars, auxVars
<1>2. CASE Fail
  <2>1. restored' = restored /\ restored \in BOOLEAN
    BY <1>1 DEF TypeInv
  <2>2. op = "hook" \/ (op \in Undo /\ ~(Part \subseteq held))
    BY <1>2, <1>1 DEF HookCheck, UnhookCheck, At, Fail, Undo
  <2>. QED
    BY <1>1, <1>2, <2>1, <2>2, FailStep
<1>3. CASE ~Fail
  <2>1. /\ UNCHANGED <<op, first, last, at>> /\ Part' = Part
        /\ \/ op = "hook" /\ held \cap Part = {} /\ phase' = "create"
           \/ op \in Undo /\ Part \subseteq held /\ phase' = "restore"
    BY <1>3 DEF HookCheck, UnhookCheck, At, Part
  <2>2. TypeInv'
    BY <1>1, <2>1 DEF TypeInv, Phases
  <2>3. TargetInv' /\ PatchLeadsToLiveSplice' /\ RuleInv'
    BY <1>1, <2>1 DEF TargetInv, PatchLeadsToLiveSplice, RuleInv, NobodyRestores
  <2>4. at' = at /\ at = first /\ first' = first /\ first .. at - 1 = {}
    BY <1>1, <2>1, Numbers DEF LoopInv, Undo
  <2>5. LoopInv'
    <3>1. op = "hook" => \A p \in Targets : memory[p] \notin Part
      BY <2>1, Numbers DEF PatchLeadsToLiveSplice, Undo
    <3>. QED
      BY <1>1, <2>1, <2>4, <3>1 DEF LoopInv, Undo
  <2>6. FoundInv'
    <3>1. op = "hook" /\ fresh /\ restored => held \cap Part = {} /\ memory = before
      BY <1>1 DEF FoundInv
    <3>2. op = "rollback" /\ fresh /\ restored =>
            /\ \A i \in held \cap Part : saved[i] = before[TargetOf[i]]
            /\ \A p \in Targets : memory[p] # before[p] => \E i \in Part : TargetOf[i] = p
      BY DEF FoundInv
    <3>. QED
      BY <1>1, <2>1, <2>4, <3>1, <3>2 DEF FoundInv, Undo
  <2>. QED
    BY <2>2, <2>3, <2>5, <2>6
<1>. QED
  BY <1>2, <1>3

---------------------------------------------------------------------------
(* The loops of group_hook.                                                *)

\* Splices get no thread and no bytes lead elsewhere.
LEMMA CreateStep ==
  ASSUME GroupInv, Create
  PROVE  GroupInv'
<1>. USE DEF GroupInv
<1>1. PICK p : p = TargetOf[at]
  OBVIOUS
<1>2. /\ op = "hook" /\ phase = "create"
      /\ held' = held \cup {at} /\ saved' = [saved EXCEPT ![at] = memory[p]]
      /\ active' = active \ {at}
      /\ UNCHANGED <<memory, inside, closing, before, fresh, restored>>
      /\ Advance("enable") /\ "enable" \in Phases
  BY <1>1 DEF Create, At, auxVars, Phases
<1>3. /\ op' = op /\ first' = first /\ last' = last /\ Part' = Part
      /\ at' \in Part /\ phase' \in Phases
      /\ \/ phase' = "create" /\ first .. at' - 1 = (first .. at - 1) \cup {at}
         \/ phase' = "enable" /\ Part = (first .. at - 1) \cup {at}
  BY <1>2, AdvanceIs
<1>4. /\ at \in Items /\ p \in Targets /\ at \in Part /\ Part \subseteq Items
      /\ memory[p] \in Items \cup {Original} /\ memory[p] \notin Part
      /\ saved \in [Items -> Items \cup {Original}]
  BY <1>1, <1>2, Numbers DEF TypeInv, LoopInv
<1>5. /\ saved'[at] = memory[p]
      /\ \A i \in Items : i # at => saved'[i] = saved[i]
      /\ saved' \in [Items -> Items \cup {Original}]
  BY <1>2, <1>4
<1>6. TypeInv'
  BY <1>2, <1>3, <1>4, <1>5 DEF TypeInv
<1>7. TargetInv'
  BY <1>1, <1>2, <1>4, <1>5 DEF TargetInv
<1>8. PatchLeadsToLiveSplice'
  <2>1. held \subseteq Items
    BY DEF TypeInv
  <2>. QED
    BY <1>2, <1>4, <1>5, <2>1 DEF PatchLeadsToLiveSplice
<1>9. RuleInv'
  <2>1. \A j \in held : j \in Items /\ saved[j] \notin Part
    BY <1>2 DEF RuleInv, NobodyRestores, TypeInv, Part
  <2>. QED
    BY <1>2, <1>3, <1>4, <1>5, <2>1 DEF RuleInv, NobodyRestores, Part
<1>10. LoopInv'
  <2>1. first .. at - 1 \subseteq held /\ \A q \in Targets : memory[q] \notin Part
    BY <1>2 DEF LoopInv
  <2>. QED
    BY <1>2, <1>3, <2>1 DEF LoopInv, Undo
<1>11. FoundInv'
  <2>. SUFFICES ASSUME fresh, restored
                PROVE  FoundInv'
    BY <1>2 DEF FoundInv
  <2>1. memory = before /\ \A i \in held \cap Part : saved[i] = before[TargetOf[i]]
    BY <1>2 DEF FoundInv
  <2>2. \A i \in held' \cap Part : saved'[i] = before[TargetOf[i]]
    BY <1>1, <1>2, <1>4, <1>5, <2>1
  <2>. QED
    BY <1>2, <1>3, <2>1, <2>2 DEF FoundInv
<1>. QED
  BY <1>6, <1>7, <1>8, <1>9, <1>10, <1>11

LEMMA EnableStep ==
  ASSUME GroupInv, Enable
  PROVE  GroupInv'
<1>. USE DEF GroupInv
<1>1. /\ op = "hook" /\ phase = "enable"
      /\ active' \subseteq active \cup {at}
      /\ UNCHANGED <<memory, held, saved, inside, closing, before, fresh, restored>>
      /\ Advance("write") /\ "write" \in Phases
  BY DEF Enable, At, auxVars, Phases
<1>2. /\ op' = op /\ first' = first /\ last' = last /\ Part' = Part
      /\ at' \in Part /\ phase' \in {"enable", "write"} /\ phase' \in Phases
  BY <1>1, AdvanceIs
<1>3. TypeInv'
  BY <1>1, <1>2, Numbers DEF TypeInv
<1>4. TargetInv' /\ PatchLeadsToLiveSplice' /\ RuleInv'
  BY <1>1, <1>2 DEF TargetInv, PatchLeadsToLiveSplice, RuleInv, NobodyRestores
<1>5. LoopInv'
  BY <1>1, <1>2 DEF LoopInv, Undo
<1>6. FoundInv'
  BY <1>1, <1>2 DEF FoundInv
<1>. QED
  BY <1>3, <1>4, <1>5, <1>6

LEMMA WriteModifiedStep ==
  ASSUME GroupInv, WriteModified
  PROVE  GroupInv'
<1>. USE DEF GroupInv
<1>1. PICK p : p = TargetOf[at]
  OBVIOUS
<1>2. /\ op = "hook" /\ phase = "write"
      /\ memory' = [memory EXCEPT ![p] = at]
      /\ UNCHANGED <<held, saved, active, inside, closing, before, fresh, restored>>
      /\ Advance("return") /\ "return" \in Phases
  BY <1>1 DEF WriteModified, At, auxVars, Phases
<1>3. /\ op' = op /\ first' = first /\ last' = last /\ Part' = Part
      /\ at' \in Part /\ phase' \in {"write", "return"} /\ phase' \in Phases
  BY <1>2, AdvanceIs
<1>4. at \in Items /\ at \in Part /\ p \in Targets /\ at \in held
  BY <1>1, <1>2, Numbers DEF LoopInv
<1>5. /\ memory' \in [Targets -> Items \cup {Original}]
      /\ memory'[p] = at
      /\ \A q \in Targets : q # p => memory'[q] = memory[q]
  BY <1>2, <1>4 DEF TypeInv
<1>6. TypeInv'
  BY <1>2, <1>3, <1>5, Numbers DEF TypeInv
<1>7. TargetInv' /\ PatchLeadsToLiveSplice'
  BY <1>1, <1>2, <1>4, <1>5 DEF TargetInv, PatchLeadsToLiveSplice
<1>8. RuleInv' /\ LoopInv'
  BY <1>2, <1>3 DEF RuleInv, NobodyRestores, LoopInv, Undo
<1>9. FoundInv'
  <2>. SUFFICES ASSUME fresh, restored
                PROVE  FoundInv'
    BY <1>2 DEF FoundInv
  <2>1. /\ \A i \in held \cap Part : saved[i] = before[TargetOf[i]]
        /\ \A q \in Targets : memory[q] # before[q] => \E i \in Part : TargetOf[i] = q
    BY <1>2 DEF FoundInv
  <2>2. \A q \in Targets : memory'[q] # before[q] => \E i \in Part : TargetOf[i] = q
    BY <1>1, <1>4, <1>5, <2>1
  <2>. QED
    BY <1>2, <1>3, <2>1, <2>2 DEF FoundInv
<1>. QED
  BY <1>6, <1>7, <1>8, <1>9

---------------------------------------------------------------------------
(* The loops of group_unhook.                                              *)

LEMMA WriteOriginalStep ==
  ASSUME GroupInv, WriteOriginal
  PROVE  GroupInv'
<1>. USE DEF GroupInv
<1>1. PICK p : p = TargetOf[at]
  OBVIOUS
<1>2. /\ op \in Undo /\ phase = "restore"
      /\ memory' = [memory EXCEPT ![p] = saved[at]]
      /\ UNCHANGED <<held, saved, active, inside, closing, before, fresh, restored>>
      /\ Advance("disable") /\ "disable" \in Phases
  BY <1>1 DEF WriteOriginal, At, auxVars, Phases
<1>3. /\ op' = op /\ first' = first /\ last' = last /\ Part' = Part
      /\ at' \in Part /\ phase' \in Phases
      /\ \/ phase' = "restore" /\ first .. at' - 1 = (first .. at - 1) \cup {at}
         \/ phase' = "disable" /\ Part = (first .. at - 1) \cup {at}
  BY <1>2, AdvanceIs
<1>4. /\ at \in Items /\ at \in Part /\ Part \subseteq Items /\ p \in Targets
      /\ Part \subseteq held /\ at \in held /\ Original \notin Items
      /\ saved[at] \in Items \cup {Original} /\ saved[at] \notin Part
  BY <1>1, <1>2, Numbers DEF LoopInv, RuleInv, NobodyRestores, TypeInv, Undo, Part
<1>5. /\ memory' \in [Targets -> Items \cup {Original}]
      /\ memory'[p] = saved[at]
      /\ \A q \in Targets : q # p => memory'[q] = memory[q]
  BY <1>2, <1>4 DEF TypeInv
<1>6. TypeInv'
  BY <1>2, <1>3, <1>4, <1>5 DEF TypeInv
<1>7. TargetInv' /\ PatchLeadsToLiveSplice'
  BY <1>1, <1>2, <1>4, <1>5 DEF TargetInv, PatchLeadsToLiveSplice
<1>8. RuleInv'
  BY <1>2, <1>3 DEF RuleInv, NobodyRestores
<1>9. \A i \in (first .. at - 1) \cup {at} : i \in Items /\ TargetOf[i] \in Targets
  BY <1>3, <1>4, Numbers DEF Part
<1>10. LoopInv'
  <2>1. \A i \in (first .. at - 1) \cup {at} : memory'[TargetOf[i]] \notin Part
    BY <1>1, <1>2, <1>4, <1>5, <1>9 DEF LoopInv
  <2>2. phase' = "disable" => \A q \in Targets : memory'[q] \notin Part
    <3>. SUFFICES ASSUME phase' = "disable", NEW q \in Targets, memory'[q] \in Part
                  PROVE  FALSE
      OBVIOUS
    <3>1. TargetOf[memory'[q]] = q
      BY <1>4, <1>7 DEF TargetInv
    <3>2. Part = (first .. at - 1) \cup {at}
      BY <1>3
    <3>. QED
      BY <2>1, <3>1, <3>2
  <2>. QED
    BY <1>2, <1>3, <1>4, <2>1, <2>2 DEF LoopInv, Undo
<1>11. FoundInv'
  <2>. SUFFICES ASSUME op = "rollback", fresh, restored
                PROVE  FoundInv'
    BY <1>2, <1>3 DEF FoundInv, Undo
  <2>1. /\ \A i \in held \cap Part : saved[i] = before[TargetOf[i]]
        /\ \A q \in Targets : memory[q] # before[q] => \E i \in Part : TargetOf[i] = q
        /\ \A i \in first .. at - 1 : memory[TargetOf[i]] = before[TargetOf[i]]
    BY <1>2 DEF FoundInv
  <2>2. memory'[p] = before[p]
    BY <1>1, <1>4, <1>5, <2>1
  <2>3. \A i \in (first .. at - 1) \cup {at} : memory'[TargetOf[i]] = before[TargetOf[i]]
    BY <1>1, <1>5, <1>9, <2>1, <2>2
  <2>4. \A q \in Targets : memory'[q] # before[q] => \E i \in Part : TargetOf[i] = q
    BY <1>5, <2>1, <2>2
  <2>5. phase' = "disable" => memory' = before
    <3>1. phase' = "disable" => \A q \in Targets : memory'[q] = before[q]
      BY <1>3, <2>3, <2>4
    <3>2. before \in [Targets -> Items \cup {Original}]
      BY DEF TypeInv
    <3>. QED
      BY <1>5, <3>1, <3>2
  <2>. QED
    BY <1>2, <1>3, <2>1, <2>3, <2>4, <2>5 DEF FoundInv
<1>. QED
  BY <1>6, <1>7, <1>8, <1>10, <1>11

LEMMA DisableStep ==
  ASSUME GroupInv, Disable
  PROVE  GroupInv'
<1>. USE DEF GroupInv
<1>1. /\ op \in Undo /\ phase = "disable"
      /\ active' \subseteq active
      /\ UNCHANGED <<memory, held, saved, inside, closing, before, fresh, restored>>
      /\ Advance("destroy") /\ "destroy" \in Phases
  BY DEF Disable, At, auxVars, Phases
<1>2. /\ op' = op /\ first' = first /\ last' = last /\ Part' = Part
      /\ at' \in Part /\ phase' \in {"disable", "destroy"} /\ phase' \in Phases
  BY <1>1, AdvanceIs
<1>3. TypeInv'
  BY <1>1, <1>2, Numbers DEF TypeInv
<1>4. TargetInv' /\ PatchLeadsToLiveSplice' /\ RuleInv'
  BY <1>1, <1>2 DEF TargetInv, PatchLeadsToLiveSplice, RuleInv, NobodyRestores
<1>5. LoopInv'
  BY <1>1, <1>2 DEF LoopInv, Undo
<1>6. FoundInv'
  BY <1>1, <1>2 DEF FoundInv, Undo
<1>. QED
  BY <1>3, <1>4, <1>5, <1>6

(* A splice is only freed when no thread is inside it; the bytes that led  *)
(* to it were put back, and no splice that is left would put them there.   *)
LEMMA DestroyStep ==
  ASSUME GroupInv, Destroy
  PROVE  GroupInv'
<1>. USE DEF GroupInv
<1>1. /\ op \in Undo /\ phase = "destroy" /\ ~Busy(at)
      /\ held' = held \ {at}
      /\ UNCHANGED <<memory, saved, active, inside, closing, before, fresh, restored>>
      /\ Advance("return") /\ "return" \in Phases
  BY DEF Destroy, At, auxVars, Phases
<1>2. /\ op' = op /\ first' = first /\ last' = last /\ Part' = Part
      /\ at' \in Part /\ phase' \in {"destroy", "return"} /\ phase' \in Phases
  BY <1>1, AdvanceIs
<1>3. TypeInv'
  BY <1>1, <1>2, Numbers DEF TypeInv
<1>4. TargetInv' /\ RuleInv'
  BY <1>1, <1>2 DEF TargetInv, RuleInv, NobodyRestores
<1>5. PatchLeadsToLiveSplice'
  <2>1. \A p \in Targets : memory[p] # at
    BY <1>1, Numbers DEF LoopInv
  <2>2. \A i \in held : saved[i] # at
    BY <1>1, Numbers DEF RuleInv, NobodyRestores, Undo, Part
  <2>3. ASSUME NEW t \in Threads, NEW k \in 1 .. Len(inside[t])
        PROVE  inside[t][k] # at
    <3>1. k \in 1 .. MaxChain /\ k <= Len(inside[t])
      BY Numbers DEF TypeInv
    <3>. QED
      BY <1>1, <3>1 DEF Busy
  <2>. QED
    BY <1>1, <2>1, <2>2, <2>3 DEF PatchLeadsToLiveSplice
<1>6. LoopInv'
  BY <1>1, <1>2 DEF LoopInv, Undo
<1>7. FoundInv'
  BY <1>1, <1>2 DEF FoundInv, Undo
<1>. QED
  BY <1>3, <1>4, <1>5, <1>6, <1>7

---------------------------------------------------------------------------
(* The invariant holds.                                                    *)

LEMMA GroupInitInv == Init => GroupInv
<1>. SUFFICES ASSUME Init
              PROVE  GroupInv
  OBVIOUS
<1>1. 1 \in Items /\ 1 .. 1 = {1}
  BY ItemsAssumption DEF Items
<1>2. TypeInv
  <2>1. inside \in [Threads -> Seq(Items)] /\ \A t \in Threads : Len(inside[t]) <= MaxChain
    BY EmptySeq, ItemsAssumption DEF Init
  <2>2. first = 1 /\ last = 1 /\ at \in Part
    BY <1>1 DEF Init, Part
  <2>. QED
    BY <1>1, <2>1, <2>2 DEF Init, TypeInv, Phases
<1>3. TargetInv /\ PatchLeadsToLiveSplice
  BY DEF Init, TargetInv, PatchLeadsToLiveSplice
<1>4. RuleInv /\ LoopInv /\ FoundInv
  BY DEF Init, RuleInv, LoopInv, FoundInv, Undo
<1>. QED
  BY <1>2, <1>3, <1>4 DEF GroupInv

LEMMA GroupNextInv == GroupInv /\ [Next]_vars => GroupInv'
<1>. SUFFICES ASSUME GroupInv, [Next]_vars
              PROVE  GroupInv'
  OBVIOUS
<1>1. ASSUME NEW f \in Items, NEW l \in Items, f <= l, HookCall(f, l) \/ UnhookCall(f, l)
      PROVE  GroupInv'
  BY <1>1, BeginStep DEF HookCall, UnhookCall
<1>2. ASSUME NEW i \in held, UnhookCall(i, i)
      PROVE  GroupInv'
  <2>1. i \in Items /\ i <= i
    BY Numbers DEF GroupInv, TypeInv
  <2>. QED
    BY <1>1, <1>2, <2>1
<1>3. CASE CallStep
  BY <1>3, ReturnStep, FailSteps, CheckSteps, CreateStep, EnableStep, WriteModifiedStep,
     WriteOriginalStep, DisableStep, DestroyStep
  DEF CallStep, HookStep, UnhookStep
<1>4. CASE \E t \in Threads : Enter(t) \/ Chain(t) \/ Leave(t)
  BY <1>4, ThreadStep
<1>5. CASE Close \/ UNCHANGED vars
  <2>1. UNCHANGED <<spliceVars, callVars, auxVars>> /\ inside' = inside /\ closing' \in BOOLEAN
    BY <1>5 DEF Close, vars, GroupInv, TypeInv
  <2>. QED
    BY <2>1, InsideStep DEF GroupInv, TypeInv, PatchLeadsToLiveSplice
<1>. QED
  BY <1>1, <1>2, <1>3, <1>4, <1>5 DEF Next

---------------------------------------------------------------------------
(* The theorems.                                                           *)

(* The inductive invariant holds in every reachable state.                 *)
THEOREM GroupInvariance == Spec => []GroupInv
<1>. QED
  BY GroupInitInv, GroupNextInv, PTL DEF Spec

(* The variables of the group keep their types.                            *)
THEOREM GroupTypeCorrect == Spec => []GroupTypeOK
<1>1. GroupInv => GroupTypeOK
  <2>. SUFFICES ASSUME GroupInv
                PROVE  GroupTypeOK
    OBVIOUS
  <2>1. inside \in [Threads -> UNION {[1 .. n -> Items] : n \in 0 .. MaxChain}]
    <3>. SUFFICES ASSUME NEW t \in Threads
                  PROVE  \E n \in 0 .. MaxChain : inside[t] \in [1 .. n -> Items]
      BY DEF GroupInv, TypeInv
    <3>1. inside[t] \in Seq(Items) /\ Len(inside[t]) <= MaxChain /\ Len(inside[t]) \in Nat
      BY DEF GroupInv, TypeInv
    <3>2. inside[t] \in [1 .. Len(inside[t]) -> Items]
      BY <3>1
    <3>. QED
      BY <3>1, <3>2, Numbers DEF GroupInv
  <2>. QED
    BY <2>1, Numbers DEF GroupInv, TypeInv, GroupTypeOK
<1>. QED
  BY GroupInvariance, <1>1, PTL

(* Nothing ever leads into a splice that was freed, wherever the calls     *)
(* stop and in whatever order they come.                                   *)
THEOREM NothingDangles == Spec => []PatchLeadsToLiveSplice
<1>1. GroupInv => PatchLeadsToLiveSplice
  BY DEF GroupInv
<1>. QED
  BY GroupInvariance, <1>1, PTL

(* A call to hook that fails puts every byte back that it changed.         *)
THEOREM FailedHookUndone == Spec => HookAllOrNothing
<1>. DEFINE Back == op = "rollback" /\ op' = "idle" /\ fresh /\ restored => memory = before
<1>1. GroupInv /\ [Next]_vars => [Back]_vars
  <2>. SUFFICES ASSUME GroupInv, Next, op = "rollback", op' = "idle", fresh, restored
                PROVE  memory = before
    OBVIOUS
  <2>1. op' = op => FALSE
    OBVIOUS
  <2>2. Return
    BY <2>1
    DEF Next, HookCall, UnhookCall, Begin, CallStep, HookStep, UnhookStep, HookCheck, Create,
        CreateFails, Enable, WriteModified, WriteModifiedFails, UnhookCheck, WriteOriginal,
        WriteOriginalFails, Disable, Destroy, DestroyBusy, Fail, Advance, At, Enter, Chain,
        Leave, Goes, Close, callVars
  <2>. QED
    BY <2>2 DEF GroupInv, FoundInv, Return
<1>2. [][Back]_vars => HookAllOrNothing
  BY PTL DEF HookAllOrNothing
<1>. QED
  BY GroupInvariance, <1>1, <1>2, PTL DEF Spec

===========================================================================
