---------------------------- MODULE SpliceBridge ----------------------------
(***************************************************************************)
(* The bridge of a hook (src/hook/splicebridge64.cpp, splicebridge32.cpp): *)
(* the instructions at the start of a procedure are moved one by one until *)
(* as many bytes are free as the hook needs, those that depend on their    *)
(* place are written anew, and a jump to the rest of the procedure ends    *)
(* it.  Then a thread runs through the bridge.                             *)
(*                                                                         *)
(* The procedure begins at address 0; other code has negative addresses.   *)
(* An instruction is its kind, its length in bytes, its condition and      *)
(* where it leads, and the bridge has instructions at byte offsets.        *)
(***************************************************************************)
EXTENDS Integers, Sequences

CONSTANTS
  Widths,      \* the builds: 32 and 64 bits
  Needs,       \* how many bytes a hook may need
  PlainSizes   \* the sizes of instructions that are moved as they are

ASSUME WidthsAssumption == Widths \subseteq {32, 64}
ASSUME NeedsAssumption  == Needs \subseteq 0 .. 14
ASSUME SizesAssumption  == PlainSizes \subseteq Nat \ {0}

VARIABLES
  width,       \* the build
  needed,      \* how many bytes the hook needs
  procedure,   \* the instructions that were read, by address
  offset,      \* target_offset
  bridge,      \* [code, size, addresstable]; code by offset in the bridge
  stage,       \* "create", "built" or "refused"
  thread,      \* [place, at]: an offset in the bridge or an address in memory
  flag, calls  \* as in Procedure

bvars == <<width, needed, procedure, offset, bridge, stage, thread, flag, calls>>

InstructionsSize == 64

\* Variant: a table without an entry for the last jump.
AddresstableOf7 == 7

AddresstableSize == 8

\* Not the address of an instruction.
Nowhere == -1000

---------------------------------------------------------------------------
(* Instructions.                                                           *)

Instruction(kind, len, cond, to) == [kind |-> kind, len |-> len, cond |-> cond, to |-> to]

\* What may be at address a.  Each relative jump leads to code of its own,
\* and the two lengths of jcc have opposite conditions.
\* "loop" are E0 to E2, "rip" what is addressed relative to itself in the
\* 64-bit build, "refused" jecxz, ret and what cannot be read or decoded.
Instructions(a) ==
  {Instruction("plain", n, TRUE, 0) : n \in PlainSizes}
  \cup {Instruction("call", 5, TRUE, -1 - a)}
  \cup {Instruction("jmp", n, TRUE, -1 - a) : n \in {2, 5}}
  \cup {Instruction("jcc", n, n = 2, -1 - a) : n \in {2, 6}}
  \cup {Instruction("loop", 2, TRUE, -1 - a), Instruction("rip", 6, TRUE, 0),
        Instruction("refused", 2, TRUE, 0)}

\* An instruction in the bridge.  `from' is where in the procedure a thread
\* is that has come to it: the code does not keep it.
Moved(op, size, cond, to, from) ==
  [op |-> op, size |-> size, cond |-> cond, to |-> to, from |-> from]

\* Room for more bytes and addresses.
Room(b, bytes, addresses) ==
  /\ InstructionsSize - b.size >= bytes
  /\ AddresstableSize - Len(b.addresstable) >= addresses

\* f, and g where f has nothing.
Joined(f, g) == [x \in DOMAIN f \cup DOMAIN g |-> IF x \in DOMAIN f THEN f[x] ELSE g[x]]

\* The bridge with more bytes, if it has room: the instructions that are in
\* them, by their offset behind its end, and addresses.
Grown(b, moved, bytes, addresses) ==
  IF ~Room(b, bytes, Len(addresses)) THEN {}
  ELSE {[code |-> Joined(b.code, [o \in {b.size + r : r \in DOMAIN moved} |->
                                    moved[o - b.size]]),
         size |-> b.size + bytes,
         addresstable |-> b.addresstable \o addresses]}

One(moved) == [r \in {0} |-> moved]

\* The next free entry of the table.
Entry(b) == Len(b.addresstable) + 1

\* In the 64-bit build, absolute through the table.
AbsoluteCall(b, a, to) ==
  Grown(b, One(Moved("call_entry", 6, TRUE, Entry(b), a)), 6, <<to>>)
AbsoluteJmp(b, a, to) ==
  Grown(b, One(Moved("jmp_entry", 6, TRUE, Entry(b), a)), 6, <<to>>)

\* jcc to the jump through the table, which is jumped over otherwise: as
\* far as `over' says.
JccThrough(b, a, i, over) ==
  Grown(b, [r \in {0, 2, 4} |-> CASE r = 0 -> Moved("jcc_short", 2, i.cond, 2, a)
                                  [] r = 2 -> Moved("jmp_short", 2, TRUE, over, a + i.len)
                                  [] r = 4 -> Moved("jmp_entry", 6, TRUE, Entry(b), i.to)],
        10, <<i.to>>)

\* Variant: the jump over the jump through the table is too short.
AbsoluteJccShort(b, a, i) == JccThrough(b, a, i, 4)

AbsoluteJcc(b, a, i) == JccThrough(b, a, i, 6)

\* In the 32-bit build, relative.  For a jcc, 0F 8x, it writes FF 8x, which
\* is no jump.
RelativeCall(b, a, to) == Grown(b, One(Moved("call", 5, TRUE, to, a)), 5, << >>)
RelativeJmp(b, a, to)  == Grown(b, One(Moved("jmp", 5, TRUE, to, a)), 5, << >>)
RelativeJcc(b, a, i)   == Grown(b, One(Moved("arithmetic", 6, i.cond, i.to, a)), 6, << >>)

AppendCall(b, a, to) == IF width = 64 THEN AbsoluteCall(b, a, to) ELSE RelativeCall(b, a, to)
AppendJmp(b, a, to)  == IF width = 64 THEN AbsoluteJmp(b, a, to) ELSE RelativeJmp(b, a, to)
AppendJcc(b, a, i)   == IF width = 64 THEN AbsoluteJcc(b, a, i) ELSE RelativeJcc(b, a, i)

\* As it is.
AppendInstruction(b, a, i) == Grown(b, One(Moved(i.kind, i.len, i.cond, i.to, a)), i.len, << >>)

\* What instruction i at address a makes of the bridge: nothing, when it is
\* not moved or there is no room.
AppendMoved(b, a, i) ==
  CASE i.kind = "call"                    -> AppendCall(b, a, i.to)
    [] i.kind = "jmp"                     -> AppendJmp(b, a, i.to)
    [] i.kind = "jcc"                     -> AppendJcc(b, a, i)
    [] i.kind \in {"plain", "loop"}       -> AppendInstruction(b, a, i)
    [] i.kind = "rip" /\ width = 32       -> AppendInstruction(b, a, [i EXCEPT !.kind = "plain"])
    [] OTHER                              -> {}

---------------------------------------------------------------------------
(* splicebridge_create: one action is one turn of its loop.                *)

BridgeInit ==
  /\ width \in Widths
  /\ needed \in Needs
  /\ procedure = << >>
  /\ offset = 0
  /\ bridge = [code |-> << >>, size |-> 0, addresstable |-> << >>]
  /\ stage = "create"
  /\ thread = [place |-> "bridge", at |-> 0]
  /\ flag \in BOOLEAN
  /\ calls = << >>

Turn == stage = "create" /\ bridge.size < InstructionsSize

\* How a thread sees the instruction: what addresses itself is plain where
\* the build has no such addresses.
Seen(i) == IF i.kind = "rip" THEN [i EXCEPT !.kind = "plain"] ELSE i

Read(i) == procedure' = Joined(procedure, [a \in {offset} |-> Seen(i)])

Move ==
  /\ Turn /\ offset < needed
  /\ \E i \in Instructions(offset) :
       /\ bridge' \in AppendMoved(bridge, offset, i)
       /\ Read(i)
       /\ offset' = offset + i.len
  /\ UNCHANGED <<width, needed, stage, thread, flag, calls>>

\* The instruction is only looked at; it must be one.
LastJump ==
  /\ Turn /\ offset >= needed
  /\ bridge' \in AppendJmp(bridge, offset, offset)
  /\ stage' = "built"
  /\ UNCHANGED <<width, needed, procedure, offset, thread, flag, calls>>

Refuse ==
  /\ Turn
  /\ \/ offset >= needed
     \/ \E i \in Instructions(offset) : AppendMoved(bridge, offset, i) = {}
  /\ stage' = "refused"
  /\ UNCHANGED <<width, needed, procedure, offset, bridge, thread, flag, calls>>

\* The loop ends by its condition.
Full ==
  /\ stage = "create" /\ bridge.size >= InstructionsSize
  /\ stage' = "refused"
  /\ UNCHANGED <<width, needed, procedure, offset, bridge, thread, flag, calls>>

---------------------------------------------------------------------------
(* A thread in the bridge.                                                 *)

InBridge  == stage = "built" /\ thread.place = "bridge" /\ thread.at \in DOMAIN bridge.code
Current   == bridge.code[thread.at]
AtOp(ops) == InBridge /\ Current.op \in ops

Continue(n) == thread' = [thread EXCEPT !.at = @ + Current.size + n]
LeaveTo(a)  == thread' = [place |-> "memory", at |-> a]

RunPlain ==
  /\ AtOp({"plain"})
  /\ Continue(0)
  /\ flag' \in BOOLEAN
  /\ UNCHANGED calls

RunCall ==
  /\ AtOp({"call", "call_entry"})
  /\ calls' = Append(calls, IF Current.op = "call" THEN Current.to
                            ELSE bridge.addresstable[Current.to])
  /\ Continue(0)
  /\ flag' \in BOOLEAN

RunJmp ==
  /\ AtOp({"jmp", "jmp_entry"})
  /\ LeaveTo(IF Current.op = "jmp" THEN Current.to ELSE bridge.addresstable[Current.to])
  /\ UNCHANGED <<flag, calls>>

RunShort ==
  /\ AtOp({"jmp_short", "jcc_short"})
  /\ Continue(IF Current.op = "jmp_short" \/ Current.cond = flag THEN Current.to ELSE 0)
  /\ UNCHANGED <<flag, calls>>

\* A loop that was moved as it is leads to a place its distance from the
\* bridge; FF 8x changes memory, and may take a byte of what follows.  What
\* comes after it is not followed.
RunDamaged ==
  /\ AtOp({"loop", "arithmetic"})
  /\ LeaveTo(Nowhere)
  /\ UNCHANGED <<flag, calls>>

Run ==
  /\ RunPlain \/ RunCall \/ RunJmp \/ RunShort \/ RunDamaged
  /\ UNCHANGED <<width, needed, procedure, offset, bridge, stage>>

BridgeNext == Move \/ LastJump \/ Refuse \/ Full \/ Run

BridgeSpec == BridgeInit /\ [][BridgeNext]_bvars
---------------------------------------------------------------------------

\* Where the thread would be in the procedure.
AtAddress ==
  CASE thread.place = "memory" -> thread.at
    [] stage # "built"         -> 0
    [] InBridge                -> Current.from
    [] OTHER                   -> Nowhere

P == INSTANCE Procedure WITH code <- procedure, at <- AtAddress

\* The instructions that are moved wrongly: E0 to E2, and any conditional
\* jump in the 32-bit build.
Damages == AtOp({"loop", "arithmetic"})

(* A thread in the bridge runs the instructions that were moved, in their  *)
(* order, with their calls and jumps, and goes on in the procedure behind  *)
(* them, until it meets an instruction the code is known to move wrongly.  *)
ImplementsProcedure == P!ProcedureInit /\ [][Damages \/ P!ProcedureNext]_P!pvars

(* For any hook the table of addresses is large enough: what refuses a     *)
(* procedure is the room for instructions, or the procedure.               *)
AddressesSuffice ==
  stage = "create" => Len(bridge.addresstable) < AddresstableSize
===========================================================================
