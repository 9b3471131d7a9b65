------------------------------ MODULE Splice ------------------------------
(***************************************************************************)
(* One hook from installation to removal: the thread that owns it runs     *)
(* splice_entry_hook and splice_entry_unhook (src/hook/splice.cpp) while   *)
(* the threads of the process call the procedure through the jumper        *)
(* (module SpliceJumper).  The patch of the procedure is one bit here.     *)
(***************************************************************************)
EXTENDS SpliceJumper

VARIABLES
  patched,  \* the procedure's first bytes lead to the jumper
  owner,    \* where the owner is in hooking or unhooking
  left      \* thread -> whether it left calls with no return: "none", "all"
            \* the calls it was in, or the "inner" ones

spliceVars == <<vars, patched, owner, left>>

\* unhooked; created, enabled: inside group_hook; held: the entry has a
\* splice and no call is in progress; restored, disabled, available: inside
\* group_unhook; busy: unhook returned false because of a thread inside;
\* destroyed.
OwnerPlaces == {"unhooked", "created", "enabled", "held", "restored",
                "disabled", "available", "busy", "destroyed"}

OwnerGoes(from, to) == owner \in from /\ owner' = to

---------------------------------------------------------------------------
(* splice_group_hook                                                       *)

HookCreate ==
  /\ OwnerGoes({"unhooked"}, "created")
  /\ \E b \in Bridges, h \in Hookers : Create(b, h)
  /\ UNCHANGED <<patched, left>>

\* splice_param_create_disabled leaves the hook off.
HookEnable ==
  /\ OwnerGoes({"created"}, "enabled")
  /\ \E on \in BOOLEAN : SetActive(on)
  /\ UNCHANGED <<patched, left>>

HookWrite ==
  /\ OwnerGoes({"enabled"}, "held")
  /\ patched' = TRUE
  /\ UNCHANGED <<vars, left>>

\* The failed group_hook goes on into group_unhook, whose first writes
\* restore the bytes.
HookWriteFails ==
  /\ OwnerGoes({"enabled"}, "restored")
  /\ UNCHANGED <<vars, patched, left>>

---------------------------------------------------------------------------
(* splice_group_unhook; also what group_hook does with an entry that       *)
(* already has a splice.  A failed call may be repeated; one whose writes   *)
(* fail changes nothing here.                                              *)

\* Variant: the bytes of the procedure are left modified.
UnhookWriteForgets == OwnerGoes({"held", "busy"}, "restored") /\ UNCHANGED <<vars, patched, left>>

UnhookWrite ==
  /\ OwnerGoes({"held", "busy"}, "restored")
  /\ patched' = FALSE
  /\ UNCHANGED <<vars, left>>

\* Variant: the hook is left enabled.
UnhookDisableForgets == OwnerGoes({"restored"}, "disabled") /\ UNCHANGED <<vars, patched, left>>

UnhookDisable ==
  /\ OwnerGoes({"restored"}, "disabled")
  /\ SetActive(FALSE)
  /\ UNCHANGED <<patched, left>>

\* splice_destroy asks the jumper first and gives up when it is in use.
UnhookCheck ==
  /\ OwnerGoes({"disabled"}, IF DestroyAvailable THEN "available" ELSE "busy")
  /\ CheckDestroy
  /\ UNCHANGED <<patched, left>>

UnhookDestroy ==
  /\ OwnerGoes({"available"}, "destroyed")
  /\ Destroy
  /\ UNCHANGED <<patched, left>>

---------------------------------------------------------------------------
(* The other uses of a splice.                                             *)

\* splice_enable, splice_disable by the owner.
SwitchAll ==
  /\ owner = "held"
  /\ \E on \in BOOLEAN : SetActive(on)
  /\ UNCHANGED <<patched, owner, left>>

\* splice_enable_for_current_thread, splice_disable_for_current_thread.
SwitchCurrent(t) ==
  /\ \E on \in BOOLEAN : SetActiveForCurrentThread(t, on)
  /\ UNCHANGED <<patched, owner, left>>

CallPatched(t) ==
  /\ patched
  /\ \E a \in Addresses : Call(t, a)
  /\ UNCHANGED <<patched, owner, left>>

ThreadRuns(t) == ThreadStep(t) /\ UNCHANGED <<patched, owner, left>>

\* The hooker or the original is left by an exception, by longjmp or by the
\* end of the thread, whose number the next thread may get: the jumper's code
\* does not run, and the slots of the calls stay.  (Bound: once a thread.)
Leave(t) ==
  /\ pc[t] = "user" /\ left[t] = "none"
  /\ \E n \in 0 .. Len(frames[t]) - 1 :
       /\ frames' = [frames EXCEPT ![t] = SubSeq(@, 1, n)]
       /\ left'   = [left EXCEPT ![t] = IF n = 0 THEN "all" ELSE "inner"]
  /\ UNCHANGED <<objectVars, retaddrVars, skippedVars, pc, rax, old_count, patched, owner>>

SpliceInit ==
  /\ Init
  /\ patched = FALSE
  /\ owner = "unhooked"
  /\ left = [t \in Threads |-> "none"]

Hook   == HookCreate \/ HookEnable \/ HookWrite \/ HookWriteFails
Unhook == UnhookWrite \/ UnhookDisable \/ UnhookCheck \/ UnhookDestroy

SpliceNext ==
  \/ Hook
  \/ Unhook
  \/ SwitchAll
  \/ \E t \in Threads : SwitchCurrent(t) \/ CallPatched(t) \/ ThreadRuns(t) \/ Leave(t)

\* The scheduler runs every thread, the called procedures return, and the
\* owner goes on with an unhook it began, repeating it while it is refused.
SpliceFairness ==
  /\ \A t \in Threads : WF_spliceVars(ThreadRuns(t))
  /\ WF_spliceVars(Unhook /\ owner # "held")

SpliceSpec     == SpliceInit /\ [][SpliceNext]_spliceVars
FairSpliceSpec == SpliceSpec /\ SpliceFairness

---------------------------------------------------------------------------
(* Properties.                                                             *)

SpliceTypeOK ==
  /\ TypeOK
  /\ patched \in BOOLEAN
  /\ owner \in OwnerPlaces
  /\ left \in [Threads -> {"none", "all", "inner"}]

(* The hooker, which may be unloaded once unhook has succeeded, is never   *)
(* running or about to run in a thread when the splice is destroyed: the   *)
(* order "restore, disable, ask, destroy" of group_unhook leaves only      *)
(* threads that were sent, or will be sent, to the original.               *)
HookerNeverOutlives ==
  stage = "destroyed" =>
    \A t \in Threads :
      /\ pc[t] # "check"
      /\ \A k \in 1 .. Len(frames[t]) : frames[t][k].code \notin Hookers

(* The claim of splicejumper64.h:130-132: a destruction preceded by        *)
(* destroy_available breaks no thread that has visited the jumper and not  *)
(* left it yet.                                                            *)
DestroyBreaksNoThread == \A t \in Threads : pc[t] # "fault"

(* The calls of a thread that left earlier ones with no return still take  *)
(* back their own slots: what was left lies below.  (Not when it was left  *)
(* for a call that is still to return: that one gets its address.)         *)
LeftSlotsStay ==
  [][\A t \in Threads :
       pc[t] = "leave" /\ pc'[t] = "landing" /\ left[t] # "inner" =>
         retaddr_array'[Top(t).slot] = FreeRetaddr]_spliceVars

(* An unhook that was begun comes to an end although threads keep calling  *)
(* the procedure: restoring the bytes first drains the jumper.  A slot     *)
(* that was left keeps the splice for ever.                                *)
UnhookCompletes ==
  owner = "restored" ~>
    \/ owner = "destroyed"
    \/ \E t \in Threads : pc[t] = "nullcall" \/ left[t] # "none"
===========================================================================
