------------------------ MODULE SpliceBridgeProofs ------------------------
(***************************************************************************)
(* Theorems about SpliceBridge, for any sizes of plain instructions and    *)
(* any number of bytes up to 14 that a hook needs.                         *)
(***************************************************************************)
EXTENDS SpliceBridge, SequenceTheorems, TLAPS

---------------------------------------------------------------------------
(* The invariant.                                                          *)

BridgeTypeInv ==
  /\ width \in {32, 64}
  /\ needed \in 0 .. 14
  /\ offset \in Nat
  /\ bridge.size \in Nat
  /\ bridge.addresstable \in Seq(Int)
  /\ \A o \in DOMAIN bridge.code : o \in Nat /\ o < bridge.size
  /\ stage \in {"create", "built", "refused"}
  /\ thread.place \in {"bridge", "memory"}
  /\ thread = [place |-> thread.place, at |-> thread.at]
  /\ \A a \in DOMAIN procedure : a \in Nat /\ a < offset
  /\ flag \in BOOLEAN

\* Every address in the table was there for an instruction of two bytes or
\* more.
TableInv ==
  /\ 2 * Len(bridge.addresstable) <= offset \/ stage = "built"
  /\ Len(bridge.addresstable) <= 7 \/ stage = "built"

\* The thread waits at the start of the bridge.
WaitInv ==
  stage # "built" => thread = [place |-> "bridge", at |-> 0] /\ calls = << >>

\* A thread at offset o in the bridge is at address a of the procedure, or
\* will be when the next instruction is moved.
ContinuesAt(o, a) ==
  \/ o \in DOMAIN bridge.code /\ bridge.code[o].from = a
  \/ stage # "built" /\ o = bridge.size /\ a = offset

\* Where the jump or call c leads.
Destination(c) ==
  IF c.op \in {"call", "jmp"} THEN c.to ELSE bridge.addresstable[c.to]

\* c stands for an instruction of that kind.
StandsFor(c, kind) == c.from \in DOMAIN procedure /\ procedure[c.from].kind = kind

\* What a thread does that runs the instruction at offset o is what the
\* instruction it stands for does, or nothing.
PlainInv(o, c) ==
  c.op = "plain" => /\ StandsFor(c, "plain")
                    /\ ContinuesAt(o + c.size, c.from + procedure[c.from].len)

CallInv(o, c) ==
  c.op \in {"call", "call_entry"} =>
    /\ StandsFor(c, "call")
    /\ c.op = "call_entry" => c.to \in 1 .. Len(bridge.addresstable)
    /\ Destination(c) = procedure[c.from].to
    /\ ContinuesAt(o + c.size, c.from + procedure[c.from].len)

JmpInv(c) ==
  c.op \in {"jmp", "jmp_entry"} =>
    /\ c.op = "jmp_entry" => c.to \in 1 .. Len(bridge.addresstable)
    /\ \/ Destination(c) = c.from
       \/ StandsFor(c, "jmp") /\ Destination(c) = procedure[c.from].to

JccInv(o, c) ==
  /\ c.op = "jcc_short" =>
       /\ StandsFor(c, "jcc") /\ procedure[c.from].cond = c.cond
       /\ ContinuesAt(o + c.size + c.to, procedure[c.from].to)
       /\ ContinuesAt(o + c.size, c.from + procedure[c.from].len)
  /\ c.op = "jmp_short" => ContinuesAt(o + c.size + c.to, c.from)

Faithful(o, c) == PlainInv(o, c) /\ CallInv(o, c) /\ JmpInv(c) /\ JccInv(o, c)

CodeInv ==
  /\ ContinuesAt(0, 0)
  /\ \A o, c : o \in DOMAIN bridge.code /\ c = bridge.code[o] => Faithful(o, c)

BridgeInv == BridgeTypeInv /\ TableInv /\ WaitInv /\ CodeInv

---------------------------------------------------------------------------
(* What is appended to a bridge.                                           *)

\* moved are instructions in some bytes, the first of which is a place at
\* which a thread is at address a.
Fits(moved, bytes, addresses, a) ==
  /\ bytes \in Nat \ {0}
  /\ \A r \in DOMAIN moved : r \in 0 .. bytes - 1
  /\ 0 \in DOMAIN moved /\ moved[0].from = a
  /\ addresses \in Seq(Int)

(* The bridge keeps what it has; behind it is what was appended.           *)
LEMMA GrownBridge ==
  ASSUME BridgeTypeInv, NEW moved, NEW bytes, NEW addresses, NEW a,
         Fits(moved, bytes, addresses, a),
         NEW b \in Grown(bridge, moved, bytes, addresses)
  PROVE  /\ b.size = bridge.size + bytes
         /\ b.addresstable \in Seq(Int)
         /\ Len(b.addresstable) = Len(bridge.addresstable) + Len(addresses)
         /\ \A k \in 1 .. Len(bridge.addresstable) :
              b.addresstable[k] = bridge.addresstable[k]
         /\ \A k \in 1 .. Len(addresses) :
              b.addresstable[Len(bridge.addresstable) + k] = addresses[k]
         /\ \A o \in DOMAIN b.code : o \in Nat /\ o < b.size
         /\ \A o \in DOMAIN bridge.code : o \in DOMAIN b.code /\ b.code[o] = bridge.code[o]
         /\ \A r \in DOMAIN moved : /\ bridge.size + r \in DOMAIN b.code
                                    /\ b.code[bridge.size + r] = moved[r]
         /\ \A o \in DOMAIN b.code :
              o \in DOMAIN bridge.code \/ \E r \in DOMAIN moved : o = bridge.size + r
<1>1. PICK g : g = [o \in {bridge.size + r : r \in DOMAIN moved} |-> moved[o - bridge.size]]
  OBVIOUS
<1>2. /\ b.code = Joined(bridge.code, g)
      /\ b.size = bridge.size + bytes
      /\ b.addresstable = bridge.addresstable \o addresses
  BY <1>1 DEF Grown
<1>3. /\ bridge.size \in Nat /\ bytes \in Nat
      /\ \A r \in DOMAIN moved : r \in Nat /\ r < bytes
      /\ \A o \in DOMAIN bridge.code : o \in Nat /\ o < bridge.size
  BY DEF BridgeTypeInv, Fits
<1>4. /\ DOMAIN g = {bridge.size + r : r \in DOMAIN moved}
      /\ \A r \in DOMAIN moved : /\ bridge.size + r \in DOMAIN g
                                 /\ bridge.size + r \notin DOMAIN bridge.code
                                 /\ g[bridge.size + r] = moved[r]
  <2>1. ASSUME NEW r \in DOMAIN moved
        PROVE  /\ bridge.size + r \notin DOMAIN bridge.code
               /\ (bridge.size + r) - bridge.size = r
    BY <1>3
  <2>. QED
    BY <1>1, <2>1
<1>5. /\ DOMAIN b.code = DOMAIN bridge.code \cup DOMAIN g
      /\ \A o \in DOMAIN bridge.code : b.code[o] = bridge.code[o]
      /\ \A o \in DOMAIN g : o \notin DOMAIN bridge.code => b.code[o] = g[o]
  BY <1>2 DEF Joined
<1>6. /\ b.addresstable \in Seq(Int)
      /\ Len(b.addresstable) = Len(bridge.addresstable) + Len(addresses)
      /\ \A k \in 1 .. Len(bridge.addresstable) : b.addresstable[k] = bridge.addresstable[k]
      /\ \A k \in 1 .. Len(addresses) :
           b.addresstable[Len(bridge.addresstable) + k] = addresses[k]
  <2>1. bridge.addresstable \in Seq(Int) /\ addresses \in Seq(Int)
    BY DEF BridgeTypeInv, Fits
  <2>. QED
    BY <1>2, <2>1
<1>7. \A o \in DOMAIN b.code : o \in Nat /\ o < b.size
  BY <1>2, <1>3, <1>4, <1>5
<1>8. \A r \in DOMAIN moved : /\ bridge.size + r \in DOMAIN b.code
                              /\ b.code[bridge.size + r] = moved[r]
  BY <1>4, <1>5
<1>9. \A o \in DOMAIN b.code :
        o \in DOMAIN bridge.code \/ \E r \in DOMAIN moved : o = bridge.size + r
  BY <1>4, <1>5
<1>. QED
  BY <1>2, <1>5, <1>6, <1>7, <1>8, <1>9

\* The procedure is known as far as it was.
StillKnown == \A a \in DOMAIN procedure : a \in DOMAIN procedure' /\ procedure'[a] = procedure[a]

(* What holds of the bridge before more is appended holds after it.        *)
LEMMA KeepsWay ==
  ASSUME BridgeTypeInv, NEW moved, NEW bytes, NEW addresses,
         Fits(moved, bytes, addresses, offset),
         bridge' \in Grown(bridge, moved, bytes, addresses),
         NEW o, NEW a, ContinuesAt(o, a)
  PROVE  ContinuesAt(o, a)'
<1>1. /\ \A x \in DOMAIN bridge.code : x \in DOMAIN bridge'.code /\ bridge'.code[x] = bridge.code[x]
      /\ \A r \in DOMAIN moved : /\ bridge.size + r \in DOMAIN bridge'.code
                                 /\ bridge'.code[bridge.size + r] = moved[r]
  BY GrownBridge
<1>2. 0 \in DOMAIN moved /\ moved[0].from = offset /\ bridge.size + 0 = bridge.size
  BY DEF Fits, BridgeTypeInv
<1>3. bridge.size \in DOMAIN bridge'.code /\ bridge'.code[bridge.size].from = offset
  BY <1>1, <1>2
<1>. QED
  BY <1>1, <1>3 DEF ContinuesAt

LEMMA KeepsFaith ==
  ASSUME BridgeTypeInv, NEW moved, NEW bytes, NEW addresses,
         Fits(moved, bytes, addresses, offset),
         bridge' \in Grown(bridge, moved, bytes, addresses),
         StillKnown,
         NEW o, NEW c, Faithful(o, c)
  PROVE  Faithful(o, c)'
<1>1. \A x, a : ContinuesAt(x, a) => ContinuesAt(x, a)'
  BY KeepsWay
<1>2. \A kind : StandsFor(c, kind) =>
        /\ StandsFor(c, kind)'
        /\ procedure'[c.from] = procedure[c.from]
  BY DEF StandsFor, StillKnown
<1>3. \A k \in 1 .. Len(bridge.addresstable) :
        /\ k \in 1 .. Len(bridge'.addresstable)
        /\ bridge'.addresstable[k] = bridge.addresstable[k]
  <2>1. /\ Len(bridge'.addresstable) = Len(bridge.addresstable) + Len(addresses)
        /\ \A k \in 1 .. Len(bridge.addresstable) :
             bridge'.addresstable[k] = bridge.addresstable[k]
    BY GrownBridge
  <2>2. Len(bridge.addresstable) \in Nat /\ Len(addresses) \in Nat
    BY DEF BridgeTypeInv, Fits
  <2>. QED
    BY <2>1, <2>2
<1>4. PlainInv(o, c)' /\ JccInv(o, c)'
  BY <1>1, <1>2 DEF Faithful, PlainInv, JccInv
<1>5. CallInv(o, c)'
  BY <1>1, <1>2, <1>3 DEF Faithful, CallInv, Destination
<1>6. JmpInv(c)'
  BY <1>2, <1>3 DEF Faithful, JmpInv, Destination
<1>. QED
  BY <1>4, <1>5, <1>6 DEF Faithful

(* So only the instructions that were appended have to be looked at.       *)
LEMMA AppendKeeps ==
  ASSUME BridgeTypeInv, CodeInv, NEW moved, NEW bytes, NEW addresses,
         Fits(moved, bytes, addresses, offset),
         bridge' \in Grown(bridge, moved, bytes, addresses),
         StillKnown,
         NEW n, n = bridge.size,
         \A r \in DOMAIN moved : Faithful(n + r, moved[r])'
  PROVE  CodeInv'
<1>1. ContinuesAt(0, 0)'
  BY KeepsWay DEF CodeInv
<1>2. ASSUME NEW o, NEW c, o \in DOMAIN bridge'.code, c = bridge'.code[o]
      PROVE  Faithful(o, c)'
  <2>1. /\ \A x \in DOMAIN bridge.code : bridge'.code[x] = bridge.code[x]
        /\ \A r \in DOMAIN moved : bridge'.code[bridge.size + r] = moved[r]
        /\ o \in DOMAIN bridge.code \/ \E r \in DOMAIN moved : o = bridge.size + r
    BY <1>2, GrownBridge
  <2>2. CASE o \in DOMAIN bridge.code
    <3>1. Faithful(o, c)
      BY <1>2, <2>1, <2>2 DEF CodeInv
    <3>. QED
      BY <3>1, KeepsFaith
  <2>3. ASSUME NEW r \in DOMAIN moved, o = bridge.size + r
        PROVE  Faithful(o, c)'
    <3>1. o = n + r /\ c = moved[r]
      BY <1>2, <2>1, <2>3
    <3>. QED
      BY <3>1
  <2>. QED
    BY <2>1, <2>2, <2>3
<1>. QED
  BY <1>1, <1>2 DEF CodeInv

---------------------------------------------------------------------------
(* One turn of the loop.                                                   *)

LEMMA InstructionTypes ==
  ASSUME NEW a \in Nat, NEW i \in Instructions(a)
  PROVE  /\ i.len \in Nat \ {0}
         /\ i.to \in Int
         /\ i.cond \in BOOLEAN
         /\ i.kind \in {"call", "jmp", "jcc"} => i.len >= 2
         /\ i = [kind |-> i.kind, len |-> i.len, cond |-> i.cond, to |-> i.to]
<1>1. CASE \E n \in PlainSizes : i = Instruction("plain", n, TRUE, 0)
  BY <1>1, SizesAssumption DEF Instruction
<1>2. CASE i = Instruction("call", 5, TRUE, -1 - a)
  BY <1>2 DEF Instruction
<1>3. CASE \E n \in {2, 5} : i = Instruction("jmp", n, TRUE, -1 - a)
  BY <1>3 DEF Instruction
<1>4. CASE \E n \in {2, 6} : i = Instruction("jcc", n, n = 2, -1 - a)
  BY <1>4 DEF Instruction
<1>5. CASE i = Instruction("loop", 2, TRUE, -1 - a)
  BY <1>5 DEF Instruction
<1>6. CASE i = Instruction("rip", 6, TRUE, 0)
  BY <1>6 DEF Instruction
<1>7. CASE i = Instruction("refused", 2, TRUE, 0)
  BY <1>7 DEF Instruction
<1>. QED
  BY <1>1, <1>2, <1>3, <1>4, <1>5, <1>6, <1>7 DEF Instructions

\* The instruction that is moved in this step is read.
Moving(i) ==
  /\ stage = "create" /\ stage' = "create"
  /\ Read(i)
  /\ offset' = offset + i.len

LEMMA ReadKnows ==
  ASSUME BridgeTypeInv, NEW i, i.len \in Nat \ {0}, Moving(i)
  PROVE  /\ StillKnown
         /\ offset \in DOMAIN procedure' /\ procedure'[offset] = Seen(i)
         /\ \A a \in DOMAIN procedure' : a \in Nat /\ a < offset'
<1>1. PICK g : g = [a \in {offset} |-> Seen(i)]
  OBVIOUS
<1>2. procedure' = Joined(procedure, g) /\ DOMAIN g = {offset} /\ g[offset] = Seen(i)
  BY <1>1 DEF Moving, Read
<1>3. offset \notin DOMAIN procedure /\ offset \in Nat /\ offset < offset'
  BY DEF BridgeTypeInv, Moving
<1>4. /\ DOMAIN procedure' = DOMAIN procedure \cup {offset}
      /\ \A a \in DOMAIN procedure : procedure'[a] = procedure[a]
      /\ procedure'[offset] = Seen(i)
  BY <1>2, <1>3 DEF Joined
<1>5. \A a \in DOMAIN procedure : a \in Nat /\ a < offset'
  <2>1. \A a \in DOMAIN procedure : a \in Nat /\ a < offset
    BY DEF BridgeTypeInv
  <2>2. offset' \in Nat
    BY <1>3 DEF Moving
  <2>. QED
    BY <1>3, <2>1, <2>2
<1>. QED
  BY <1>3, <1>4, <1>5 DEF StillKnown

(* The way goes on behind what was appended.                               *)
LEMMA WayBehind ==
  ASSUME BridgeTypeInv, NEW i, Moving(i),
         NEW moved, NEW bytes, NEW addresses, Fits(moved, bytes, addresses, offset),
         bridge' \in Grown(bridge, moved, bytes, addresses),
         NEW n, n = bridge.size, NEW d, d = offset + i.len
  PROVE  ContinuesAt(n + bytes, d)'
<1>1. bridge'.size = bridge.size + bytes
  BY GrownBridge
<1>. QED
  BY <1>1 DEF ContinuesAt, Moving

\* One instruction m that stands for the one that is read.
Renders(m, i, addresses) ==
  /\ addresses \in Seq(Int)
  /\ m.size \in Nat \ {0} /\ m.from = offset
  /\ m.op \in {"plain", "call", "call_entry", "jmp", "jmp_entry", "loop", "arithmetic"}
  /\ m.op = "plain" => Seen(i).kind = "plain" /\ Seen(i).len = i.len
  /\ m.op \in {"call", "call_entry"} => i.kind = "call"
  /\ m.op \in {"jmp", "jmp_entry"} => i.kind = "jmp"
  /\ m.op \in {"call", "jmp"} => m.to = i.to
  /\ m.op \in {"call_entry", "jmp_entry"} => m.to = Entry(bridge) /\ addresses = <<i.to>>

LEMMA MoveOne ==
  ASSUME BridgeTypeInv, CodeInv, NEW i, i.len \in Nat \ {0}, Moving(i),
         NEW m, NEW addresses, Renders(m, i, addresses),
         bridge' \in Grown(bridge, One(m), m.size, addresses)
  PROVE  CodeInv'
<1>. USE DEF Renders
<1>1. /\ DOMAIN One(m) = {0} /\ One(m)[0] = m
      /\ Fits(One(m), m.size, addresses, offset)
  BY DEF One, Fits
<1>2. /\ StillKnown
      /\ offset \in DOMAIN procedure' /\ procedure'[offset] = Seen(i)
  BY ReadKnows
<1>3. PICK n : n = bridge.size /\ n \in Nat
  BY DEF BridgeTypeInv
<1>4. PICK a, d : a = offset /\ d = offset + i.len
  OBVIOUS
<1>5. ContinuesAt(n + m.size, d)'
  BY <1>1, <1>3, <1>4, WayBehind
<1>6. m.op \in {"call_entry", "jmp_entry"} =>
        /\ m.to \in 1 .. Len(bridge'.addresstable)
        /\ bridge'.addresstable[m.to] = i.to
  <2>1. /\ Len(bridge'.addresstable) = Len(bridge.addresstable) + Len(addresses)
        /\ \A k \in 1 .. Len(addresses) :
             bridge'.addresstable[Len(bridge.addresstable) + k] = addresses[k]
    BY <1>1, GrownBridge
  <2>2. Len(bridge.addresstable) \in Nat
    BY DEF BridgeTypeInv
  <2>3. addresses = <<i.to>> => Len(addresses) = 1 /\ addresses[1] = i.to
    OBVIOUS
  <2>. QED
    BY <2>1, <2>2, <2>3 DEF Entry
<1>7. i.kind \in {"call", "jmp"} => Seen(i) = i
  BY DEF Seen
<1>8. PlainInv(n, m)'
  BY <1>2, <1>4, <1>5 DEF PlainInv, StandsFor
<1>9. CallInv(n, m)'
  BY <1>2, <1>4, <1>5, <1>6, <1>7 DEF CallInv, StandsFor, Destination
<1>10. JmpInv(m)'
  BY <1>2, <1>4, <1>6, <1>7 DEF JmpInv, StandsFor, Destination
<1>11. JccInv(n, m)'
  BY DEF JccInv
<1>12. \A r \in DOMAIN One(m) : Faithful(n + r, One(m)[r])'
  <2>1. Faithful(n, m)'
    BY <1>8, <1>9, <1>10, <1>11 DEF Faithful
  <2>. QED
    BY <1>1, <1>3, <2>1
<1>. QED
  BY <1>1, <1>2, <1>3, <1>12, AppendKeeps

(* The three instructions a conditional jump becomes: where it is taken    *)
(* the first leads to the third, where not to the second, and that one     *)
(* behind them.                                                            *)
LEMMA MoveJcc ==
  ASSUME BridgeTypeInv, CodeInv, NEW i, i.len \in Nat \ {0}, i.to \in Int, Moving(i),
         i.kind = "jcc",
         bridge' \in AbsoluteJcc(bridge, offset, i)
  PROVE  CodeInv'
<1>1. PICK n, a, d, e, addresses :
        /\ n = bridge.size /\ n \in Nat /\ a = offset /\ d = offset + i.len
        /\ e = Entry(bridge) /\ addresses = <<i.to>>
  BY DEF BridgeTypeInv
<1>2. PICK m0, m2, m4 : /\ m0 = Moved("jcc_short", 2, i.cond, 2, offset)
                        /\ m2 = Moved("jmp_short", 2, TRUE, 6, offset + i.len)
                        /\ m4 = Moved("jmp_entry", 6, TRUE, Entry(bridge), i.to)
  OBVIOUS
<1>3. PICK moved : moved = [r \in {0, 2, 4} |->
                              CASE r = 0 -> Moved("jcc_short", 2, i.cond, 2, offset)
                                [] r = 2 -> Moved("jmp_short", 2, TRUE, 6, offset + i.len)
                                [] r = 4 -> Moved("jmp_entry", 6, TRUE, Entry(bridge), i.to)]
  OBVIOUS
<1>4. DOMAIN moved = {0, 2, 4} /\ moved[0] = m0 /\ moved[2] = m2 /\ moved[4] = m4
  BY <1>2, <1>3
<1>5. bridge' \in Grown(bridge, moved, 10, addresses)
  BY <1>1, <1>3 DEF AbsoluteJcc, JccThrough
<1>6. Fits(moved, 10, addresses, offset)
  BY <1>1, <1>2, <1>4 DEF Fits, Moved
<1>7. /\ StillKnown
      /\ a \in DOMAIN procedure' /\ procedure'[a] = i
  BY <1>1, ReadKnows DEF Seen
<1>8. ContinuesAt(n + 10, d)'
  BY <1>1, <1>5, <1>6, WayBehind
<1>9. \A r \in {0, 2, 4} : n + r \in DOMAIN bridge'.code /\ bridge'.code[n + r] = moved[r]
  BY <1>1, <1>4, <1>5, <1>6, GrownBridge
<1>10. ContinuesAt(n + 2, d)' /\ ContinuesAt(n + 4, i.to)'
  <2>1. m2.from = d /\ m4.from = i.to
    BY <1>1, <1>2 DEF Moved
  <2>. QED
    BY <1>4, <1>9, <2>1 DEF ContinuesAt
<1>11. e \in 1 .. Len(bridge'.addresstable) /\ bridge'.addresstable[e] = i.to
  <2>1. /\ Len(bridge'.addresstable) = Len(bridge.addresstable) + Len(addresses)
        /\ \A k \in 1 .. Len(addresses) :
             bridge'.addresstable[Len(bridge.addresstable) + k] = addresses[k]
    <3>1. Len(bridge'.addresstable) = Len(bridge.addresstable) + Len(addresses)
      BY <1>5, <1>6, GrownBridge
    <3>2. \A k \in 1 .. Len(addresses) :
            bridge'.addresstable[Len(bridge.addresstable) + k] = addresses[k]
      BY <1>5, <1>6, GrownBridge
    <3>. QED
      BY <3>1, <3>2
  <2>2. Len(bridge.addresstable) \in Nat
    BY DEF BridgeTypeInv
  <2>. QED
    BY <1>1, <2>1, <2>2 DEF Entry
<1>12. Faithful(n, m0)'
  <2>1. /\ m0.op = "jcc_short" /\ m0.size = 2 /\ m0.to = 2 /\ m0.cond = i.cond /\ m0.from = a
        /\ n + m0.size + m0.to = n + 4 /\ n + m0.size = n + 2
    BY <1>1, <1>2 DEF Moved
  <2>2. a + procedure'[a].len = d /\ procedure'[a].to = i.to
    BY <1>1, <1>7
  <2>3. JccInv(n, m0)'
    BY <1>7, <1>10, <2>1, <2>2 DEF JccInv, StandsFor
  <2>. QED
    BY <2>1, <2>3 DEF Faithful, PlainInv, CallInv, JmpInv
<1>13. Faithful(n + 2, m2)'
  <2>1. /\ m2.op = "jmp_short" /\ m2.size = 2 /\ m2.to = 6 /\ m2.from = d
        /\ n + 2 + m2.size + m2.to = n + 10
    BY <1>1, <1>2 DEF Moved
  <2>2. JccInv(n + 2, m2)'
    BY <1>8, <2>1 DEF JccInv
  <2>. QED
    BY <2>1, <2>2 DEF Faithful, PlainInv, CallInv, JmpInv
<1>14. Faithful(n + 4, m4)'
  <2>1. m4.op = "jmp_entry" /\ m4.to = e /\ m4.from = i.to
    BY <1>1, <1>2 DEF Moved
  <2>2. JmpInv(m4)'
    BY <1>11, <2>1 DEF JmpInv, Destination
  <2>. QED
    BY <2>1, <2>2 DEF Faithful, PlainInv, CallInv, JccInv
<1>15. \A r \in DOMAIN moved : Faithful(n + r, moved[r])'
  <2>1. n + 0 = n
    BY <1>1
  <2>. QED
    BY <1>4, <1>12, <1>13, <1>14, <2>1
<1>. QED
  BY <1>1, <1>5, <1>6, <1>7, <1>15, AppendKeeps

(* What is appended for any instruction that is moved.                     *)
LEMMA MoveCode ==
  ASSUME BridgeTypeInv, CodeInv, NEW i \in Instructions(offset), Moving(i),
         bridge' \in AppendMoved(bridge, offset, i)
  PROVE  CodeInv'
<1>1. /\ i.len \in Nat \ {0} /\ i.to \in Int /\ <<i.to>> \in Seq(Int) /\ << >> \in Seq(Int)
  BY InstructionTypes DEF BridgeTypeInv
<1>2. CASE i.kind = "call"
  <2>1. CASE width = 64
    <3>1. PICK m : m = Moved("call_entry", 6, TRUE, Entry(bridge), offset)
      OBVIOUS
    <3>2. bridge' \in Grown(bridge, One(m), m.size, <<i.to>>)
      BY <1>2, <2>1, <3>1 DEF AppendMoved, AppendCall, AbsoluteCall, Moved
    <3>3. Renders(m, i, <<i.to>>)
      BY <1>1, <1>2, <3>1 DEF Renders, Moved
    <3>. QED
      BY <1>1, <3>2, <3>3, MoveOne
  <2>2. CASE width # 64
    <3>1. PICK m : m = Moved("call", 5, TRUE, i.to, offset)
      OBVIOUS
    <3>2. bridge' \in Grown(bridge, One(m), m.size, << >>)
      BY <1>2, <2>2, <3>1 DEF AppendMoved, AppendCall, RelativeCall, Moved
    <3>3. Renders(m, i, << >>)
      BY <1>1, <1>2, <3>1 DEF Renders, Moved
    <3>. QED
      BY <1>1, <3>2, <3>3, MoveOne
  <2>. QED
    BY <2>1, <2>2
<1>3. CASE i.kind = "jmp"
  <2>1. CASE width = 64
    <3>1. PICK m : m = Moved("jmp_entry", 6, TRUE, Entry(bridge), offset)
      OBVIOUS
    <3>2. bridge' \in Grown(bridge, One(m), m.size, <<i.to>>)
      BY <1>3, <2>1, <3>1 DEF AppendMoved, AppendJmp, AbsoluteJmp, Moved
    <3>3. Renders(m, i, <<i.to>>)
      BY <1>1, <1>3, <3>1 DEF Renders, Moved
    <3>. QED
      BY <1>1, <3>2, <3>3, MoveOne
  <2>2. CASE width # 64
    <3>1. PICK m : m = Moved("jmp", 5, TRUE, i.to, offset)
      OBVIOUS
    <3>2. bridge' \in Grown(bridge, One(m), m.size, << >>)
      BY <1>3, <2>2, <3>1 DEF AppendMoved, AppendJmp, RelativeJmp, Moved
    <3>3. Renders(m, i, << >>)
      BY <1>1, <1>3, <3>1 DEF Renders, Moved
    <3>. QED
      BY <1>1, <3>2, <3>3, MoveOne
  <2>. QED
    BY <2>1, <2>2
<1>4. CASE i.kind = "jcc"
  <2>1. CASE width = 64
    BY <1>1, <1>4, <2>1, MoveJcc DEF AppendMoved, AppendJcc
  <2>2. CASE width # 64
    <3>1. PICK m : m = Moved("arithmetic", 6, i.cond, i.to, offset)
      OBVIOUS
    <3>2. bridge' \in Grown(bridge, One(m), m.size, << >>)
      BY <1>4, <2>2, <3>1 DEF AppendMoved, AppendJcc, RelativeJcc, Moved
    <3>3. Renders(m, i, << >>)
      BY <1>1, <3>1 DEF Renders, Moved
    <3>. QED
      BY <1>1, <3>2, <3>3, MoveOne
  <2>. QED
    BY <2>1, <2>2
<1>5. CASE i.kind \in {"plain", "loop"}
  <2>1. PICK m : m = Moved(i.kind, i.len, i.cond, i.to, offset)
    OBVIOUS
  <2>2. bridge' \in Grown(bridge, One(m), m.size, << >>)
    BY <1>5, <2>1 DEF AppendMoved, AppendInstruction, Moved
  <2>3. Renders(m, i, << >>)
    BY <1>1, <1>5, <2>1 DEF Renders, Moved, Seen
  <2>. QED
    BY <1>1, <2>2, <2>3, MoveOne
<1>6. CASE i.kind = "rip" /\ width = 32
  <2>1. PICK m : m = Moved("plain", i.len, i.cond, i.to, offset)
    OBVIOUS
  <2>2. /\ Seen(i).kind = "plain" /\ Seen(i).len = i.len
        /\ [i EXCEPT !.kind = "plain"].kind = "plain" /\ [i EXCEPT !.kind = "plain"].len = i.len
        /\ [i EXCEPT !.kind = "plain"].cond = i.cond /\ [i EXCEPT !.kind = "plain"].to = i.to
    BY <1>6, InstructionTypes DEF Seen, BridgeTypeInv
  <2>3. bridge' \in Grown(bridge, One(m), m.size, << >>)
    BY <1>6, <2>1, <2>2 DEF AppendMoved, AppendInstruction, Moved
  <2>4. Renders(m, i, << >>)
    BY <1>1, <2>1, <2>2 DEF Renders, Moved
  <2>. QED
    BY <1>1, <2>3, <2>4, MoveOne
<1>7. CASE i.kind \notin {"call", "jmp", "jcc", "plain", "loop"} /\ ~(i.kind = "rip" /\ width = 32)
  BY <1>7 DEF AppendMoved
<1>. QED
  BY <1>2, <1>3, <1>4, <1>5, <1>6, <1>7

(* At most one address goes into the table for an instruction, and only    *)
(* for one of two bytes or more.                                           *)
LEMMA AppendedSizes ==
  ASSUME BridgeTypeInv, NEW i \in Instructions(offset),
         NEW b \in AppendMoved(bridge, offset, i)
  PROVE  \E moved, bytes, addresses :
           /\ Fits(moved, bytes, addresses, offset)
           /\ b \in Grown(bridge, moved, bytes, addresses)
           /\ Len(addresses) = 0 \/ (Len(addresses) = 1 /\ i.len >= 2)
<1>1. /\ i.len \in Nat \ {0} /\ i.to \in Int
      /\ i.kind \in {"call", "jmp", "jcc"} => i.len >= 2
  BY InstructionTypes DEF BridgeTypeInv
<1>2. PICK none, one : none = << >> /\ one = <<i.to>>
  OBVIOUS
<1>3. /\ none \in Seq(Int) /\ Len(none) = 0
      /\ one \in Seq(Int) /\ Len(one) = 1
  BY <1>1, <1>2
<1>4. ASSUME NEW m, NEW bytes \in Nat \ {0}, m.from = offset
      PROVE  Fits(One(m), bytes, none, offset) /\ Fits(One(m), bytes, one, offset)
  BY <1>3, <1>4 DEF Fits, One
<1>5. CASE i.kind = "call"
  <2>1. CASE width = 64
    <3>1. PICK m : m = Moved("call_entry", 6, TRUE, Entry(bridge), offset)
      OBVIOUS
    <3>2. b \in Grown(bridge, One(m), 6, one) /\ m.from = offset
      BY <1>2, <1>5, <2>1, <3>1 DEF AppendMoved, AppendCall, AbsoluteCall, Moved
    <3>. QED
      BY <1>1, <1>3, <1>4, <1>5, <3>2
  <2>2. CASE width # 64
    <3>1. PICK m : m = Moved("call", 5, TRUE, i.to, offset)
      OBVIOUS
    <3>2. b \in Grown(bridge, One(m), 5, none) /\ m.from = offset
      BY <1>2, <1>5, <2>2, <3>1 DEF AppendMoved, AppendCall, RelativeCall, Moved
    <3>3. Fits(One(m), 5, none, offset)
      BY <1>4, <3>2
    <3>4. Len(none) = 0 \/ (Len(none) = 1 /\ i.len >= 2)
      BY <1>3
    <3>. WITNESS One(m), 5, none
    <3>. QED
      BY <3>2, <3>3, <3>4
  <2>. QED
    BY <2>1, <2>2
<1>6. CASE i.kind = "jmp"
  <2>1. CASE width = 64
    <3>1. PICK m : m = Moved("jmp_entry", 6, TRUE, Entry(bridge), offset)
      OBVIOUS
    <3>2. b \in Grown(bridge, One(m), 6, one) /\ m.from = offset
      BY <1>2, <1>6, <2>1, <3>1 DEF AppendMoved, AppendJmp, AbsoluteJmp, Moved
    <3>. QED
      BY <1>1, <1>3, <1>4, <1>6, <3>2
  <2>2. CASE width # 64
    <3>1. PICK m : m = Moved("jmp", 5, TRUE, i.to, offset)
      OBVIOUS
    <3>2. b \in Grown(bridge, One(m), 5, none) /\ m.from = offset
      BY <1>2, <1>6, <2>2, <3>1 DEF AppendMoved, AppendJmp, RelativeJmp, Moved
    <3>3. Fits(One(m), 5, none, offset)
      BY <1>4, <3>2
    <3>4. Len(none) = 0 \/ (Len(none) = 1 /\ i.len >= 2)
      BY <1>3
    <3>. WITNESS One(m), 5, none
    <3>. QED
      BY <3>2, <3>3, <3>4
  <2>. QED
    BY <2>1, <2>2
<1>7. CASE i.kind = "jcc"
  <2>1. CASE width = 64
    <3>1. PICK moved : moved = [r \in {0, 2, 4} |->
                                  CASE r = 0 -> Moved("jcc_short", 2, i.cond, 2, offset)
                                    [] r = 2 -> Moved("jmp_short", 2, TRUE, 6, offset + i.len)
                                    [] r = 4 -> Moved("jmp_entry", 6, TRUE, Entry(bridge), i.to)]
      OBVIOUS
    <3>2. b \in Grown(bridge, moved, 10, one)
      BY <1>2, <1>7, <2>1, <3>1 DEF AppendMoved, AppendJcc, AbsoluteJcc, JccThrough
    <3>3. Fits(moved, 10, one, offset)
      BY <1>3, <3>1 DEF Fits, Moved
    <3>. QED
      BY <1>1, <1>3, <1>7, <3>2, <3>3
  <2>2. CASE width # 64
    <3>1. PICK m : m = Moved("arithmetic", 6, i.cond, i.to, offset)
      OBVIOUS
    <3>2. b \in Grown(bridge, One(m), 6, none) /\ m.from = offset
      BY <1>2, <1>7, <2>2, <3>1 DEF AppendMoved, AppendJcc, RelativeJcc, Moved
    <3>3. Fits(One(m), 6, none, offset)
      BY <1>4, <3>2
    <3>4. Len(none) = 0 \/ (Len(none) = 1 /\ i.len >= 2)
      BY <1>3
    <3>. WITNESS One(m), 6, none
    <3>. QED
      BY <3>2, <3>3, <3>4
  <2>. QED
    BY <2>1, <2>2
<1>8. ASSUME NEW k, k.len = i.len, b \in AppendInstruction(bridge, offset, k)
      PROVE  \E m : b \in Grown(bridge, One(m), i.len, none) /\ m.from = offset
  <2>1. PICK m : m = Moved(k.kind, k.len, k.cond, k.to, offset)
    OBVIOUS
  <2>2. b \in Grown(bridge, One(m), i.len, none) /\ m.from = offset
    BY <1>2, <1>8, <2>1 DEF AppendInstruction, Moved
  <2>. QED
    BY <2>2
<1>9. CASE i.kind \in {"plain", "loop"}
  <2>1. b \in AppendInstruction(bridge, offset, i)
    BY <1>9 DEF AppendMoved
  <2>2. PICK m : b \in Grown(bridge, One(m), i.len, none) /\ m.from = offset
    BY <1>8, <2>1
  <2>3. Fits(One(m), i.len, none, offset)
    BY <1>1, <1>4, <2>2
  <2>5. Len(none) = 0 \/ (Len(none) = 1 /\ i.len >= 2)
    BY <1>3
  <2>. WITNESS One(m), i.len, none
  <2>. QED
    BY <2>2, <2>3, <2>5
<1>10. CASE i.kind = "rip" /\ width = 32
  <2>1. b \in AppendInstruction(bridge, offset, [i EXCEPT !.kind = "plain"])
    BY <1>10 DEF AppendMoved
  <2>2. [i EXCEPT !.kind = "plain"].len = i.len
    BY InstructionTypes DEF BridgeTypeInv
  <2>3. PICK m : b \in Grown(bridge, One(m), i.len, none) /\ m.from = offset
    BY <1>8, <2>1, <2>2
  <2>4. Fits(One(m), i.len, none, offset)
    BY <1>1, <1>4, <2>3
  <2>5. Len(none) = 0 \/ (Len(none) = 1 /\ i.len >= 2)
    BY <1>3
  <2>. WITNESS One(m), i.len, none
  <2>. QED
    BY <2>3, <2>4, <2>5
<1>11. CASE i.kind \notin {"call", "jmp", "jcc", "plain", "loop"} /\ ~(i.kind = "rip" /\ width = 32)
  BY <1>11 DEF AppendMoved
<1>. QED
  BY <1>5, <1>6, <1>7, <1>9, <1>10, <1>11

---------------------------------------------------------------------------
(* The steps keep the invariant.                                           *)

LEMMA MoveStep ==
  ASSUME BridgeInv, Move
  PROVE  BridgeInv'
<1>. USE DEF BridgeInv
<1>1. PICK i \in Instructions(offset) : /\ bridge' \in AppendMoved(bridge, offset, i)
                                        /\ Read(i) /\ offset' = offset + i.len
  BY DEF Move
<1>2. /\ Moving(i) /\ offset < needed
      /\ UNCHANGED <<width, needed, stage, thread, flag, calls>>
  BY <1>1 DEF Moving, Move, Turn
<1>3. i.len \in Nat \ {0} /\ offset \in Nat /\ needed \in 0 .. 14
  BY InstructionTypes DEF BridgeTypeInv
<1>4. PICK moved, bytes, addresses :
        /\ Fits(moved, bytes, addresses, offset)
        /\ bridge' \in Grown(bridge, moved, bytes, addresses)
        /\ Len(addresses) = 0 \/ (Len(addresses) = 1 /\ i.len >= 2)
  BY <1>1, AppendedSizes
<1>5. /\ bridge'.size = bridge.size + bytes /\ bytes \in Nat
      /\ bridge'.addresstable \in Seq(Int)
      /\ Len(bridge'.addresstable) = Len(bridge.addresstable) + Len(addresses)
      /\ \A o \in DOMAIN bridge'.code : o \in Nat /\ o < bridge'.size
  <2>1. bytes \in Nat
    BY <1>4 DEF Fits
  <2>. QED
    BY <1>4, <2>1, GrownBridge
<1>6. BridgeTypeInv'
  <2>1. \A a \in DOMAIN procedure' : a \in Nat /\ a < offset'
    BY <1>2, <1>3, ReadKnows
  <2>2. offset' \in Nat /\ bridge'.size \in Nat
    BY <1>1, <1>3, <1>5 DEF BridgeTypeInv
  <2>. QED
    BY <1>2, <1>5, <2>1, <2>2 DEF BridgeTypeInv
<1>7. TableInv'
  <2>1. /\ Len(bridge.addresstable) \in Nat
        /\ 2 * Len(bridge.addresstable) <= offset
        /\ stage = "create" /\ stage' = "create"
    BY <1>2 DEF BridgeTypeInv, TableInv, Moving
  <2>2. offset <= 13 /\ offset' = offset + i.len
    BY <1>1, <1>2, <1>3
  <2>3. PICK k, l : k = Len(bridge.addresstable) /\ l = Len(bridge'.addresstable)
    OBVIOUS
  <2>4. k \in Nat /\ k <= 6 /\ 2 * k <= offset
    BY <1>3, <2>1, <2>2, <2>3
  <2>5. l = k \/ (l = k + 1 /\ i.len >= 2)
    <3>1. l = k + Len(addresses)
      BY <1>5, <2>3
    <3>2. CASE Len(addresses) = 0
      BY <2>4, <3>1, <3>2
    <3>3. CASE Len(addresses) = 1 /\ i.len >= 2
      BY <3>1, <3>3
    <3>. QED
      BY <1>4, <3>2, <3>3
  <2>6. 2 * l <= offset' /\ l <= 7
    BY <1>3, <2>2, <2>4, <2>5
  <2>. QED
    BY <2>3, <2>6 DEF TableInv
<1>8. WaitInv'
  BY <1>2 DEF WaitInv
<1>9. CodeInv'
  BY <1>1, <1>2, MoveCode
<1>. QED
  BY <1>6, <1>7, <1>8, <1>9

\* The jump that ends a bridge.
Ends(m, addresses) ==
  /\ addresses \in Seq(Int)
  /\ m.size \in Nat \ {0} /\ m.from = offset
  /\ \/ m.op = "jmp" /\ m.to = offset
     \/ m.op = "jmp_entry" /\ m.to = Entry(bridge) /\ addresses = <<offset>>

LEMMA LastJumpStep ==
  ASSUME BridgeInv, LastJump
  PROVE  BridgeInv'
<1>. USE DEF BridgeInv
<1>1. /\ bridge' \in AppendJmp(bridge, offset, offset)
      /\ stage = "create" /\ stage' = "built"
      /\ UNCHANGED <<width, needed, procedure, offset, thread, flag, calls>>
  BY DEF LastJump, Turn
<1>2. offset \in Nat
  BY DEF BridgeTypeInv
<1>3. PICK m, addresses : /\ bridge' \in Grown(bridge, One(m), m.size, addresses)
                          /\ Ends(m, addresses)
  <2>1. CASE width = 64
    <3>1. PICK m : m = Moved("jmp_entry", 6, TRUE, Entry(bridge), offset)
      OBVIOUS
    <3>2. bridge' \in Grown(bridge, One(m), m.size, <<offset>>) /\ Ends(m, <<offset>>)
      BY <1>1, <1>2, <2>1, <3>1 DEF AppendJmp, AbsoluteJmp, Moved, Ends
    <3>. QED
      BY <3>2
  <2>2. CASE width # 64
    <3>1. PICK m, none : m = Moved("jmp", 5, TRUE, offset, offset) /\ none = << >>
      OBVIOUS
    <3>2. bridge' \in Grown(bridge, One(m), m.size, none) /\ Ends(m, none)
      BY <1>1, <1>2, <2>2, <3>1 DEF AppendJmp, RelativeJmp, Moved, Ends
    <3>. QED
      BY <3>2
  <2>. QED
    BY <2>1, <2>2
<1>4. /\ DOMAIN One(m) = {0} /\ One(m)[0] = m
      /\ Fits(One(m), m.size, addresses, offset)
  BY <1>3 DEF One, Fits, Ends
<1>5. PICK n : n = bridge.size /\ n \in Nat
  BY DEF BridgeTypeInv
<1>6. StillKnown
  BY <1>1 DEF StillKnown
<1>7. m.op = "jmp_entry" => /\ m.to \in 1 .. Len(bridge'.addresstable)
                            /\ bridge'.addresstable[m.to] = offset
  <2>1. /\ Len(bridge'.addresstable) = Len(bridge.addresstable) + Len(addresses)
        /\ \A k \in 1 .. Len(addresses) :
             bridge'.addresstable[Len(bridge.addresstable) + k] = addresses[k]
    BY <1>3, <1>4, GrownBridge
  <2>2. Len(bridge.addresstable) \in Nat
    BY DEF BridgeTypeInv
  <2>3. addresses = <<offset>> => Len(addresses) = 1 /\ addresses[1] = offset
    OBVIOUS
  <2>. QED
    <3>. SUFFICES ASSUME m.op = "jmp_entry"
                  PROVE  /\ m.to \in 1 .. Len(bridge'.addresstable)
                         /\ bridge'.addresstable[m.to] = offset
      OBVIOUS
    <3>1. m.to = Len(bridge.addresstable) + 1 /\ addresses = <<offset>>
      BY <1>3 DEF Ends, Entry
    <3>. QED
      BY <2>1, <2>2, <2>3, <3>1
<1>8. Faithful(n, m)'
  <2>1. JmpInv(m)'
    BY <1>3, <1>7 DEF Ends, JmpInv, Destination
  <2>2. PlainInv(n, m)' /\ CallInv(n, m)' /\ JccInv(n, m)'
    BY <1>3 DEF Ends, PlainInv, CallInv, JccInv
  <2>. QED
    BY <2>1, <2>2 DEF Faithful
<1>9. CodeInv'
  <2>1. \A r \in DOMAIN One(m) : Faithful(n + r, One(m)[r])'
    BY <1>4, <1>5, <1>8
  <2>. QED
    BY <1>3, <1>4, <1>5, <1>6, <2>1, AppendKeeps
<1>10. BridgeTypeInv'
  <2>1. /\ bridge'.size = bridge.size + m.size /\ bridge'.addresstable \in Seq(Int)
        /\ \A o \in DOMAIN bridge'.code : o \in Nat /\ o < bridge'.size
    BY <1>3, <1>4, GrownBridge
  <2>2. bridge'.size \in Nat
    BY <1>3, <1>5, <2>1 DEF Ends
  <2>. QED
    BY <1>1, <2>1, <2>2 DEF BridgeTypeInv
<1>11. TableInv' /\ WaitInv'
  BY <1>1 DEF TableInv, WaitInv
<1>. QED
  BY <1>9, <1>10, <1>11

\* The bridge stays as it is and is given up, or is run.
LEMMA SameBridgeStep ==
  ASSUME BridgeInv, Refuse \/ Full \/ Run
  PROVE  BridgeInv'
<1>. USE DEF BridgeInv
<1>1. UNCHANGED <<width, needed, procedure, offset, bridge>>
  BY DEF Refuse, Full, Run
<1>2. CASE Refuse \/ Full
  <2>1. /\ stage = "create" /\ stage' = "refused"
        /\ UNCHANGED <<thread, flag, calls>>
    BY <1>2 DEF Refuse, Full, Turn
  <2>2. \A o, a : ContinuesAt(o, a)' <=> ContinuesAt(o, a)
    BY <1>1, <2>1 DEF ContinuesAt
  <2>3. ASSUME NEW o, NEW c, Faithful(o, c)
        PROVE  Faithful(o, c)'
    <3>1. /\ StandsFor(c, "plain")' <=> StandsFor(c, "plain")
          /\ StandsFor(c, "call")' <=> StandsFor(c, "call")
          /\ StandsFor(c, "jmp")' <=> StandsFor(c, "jmp")
          /\ StandsFor(c, "jcc")' <=> StandsFor(c, "jcc")
          /\ Destination(c)' = Destination(c)
      BY <1>1 DEF StandsFor, Destination
    <3>2. PlainInv(o, c)' /\ JccInv(o, c)'
      BY <1>1, <2>2, <2>3, <3>1 DEF Faithful, PlainInv, JccInv
    <3>3. CallInv(o, c)' /\ JmpInv(c)'
      BY <1>1, <2>2, <2>3, <3>1 DEF Faithful, CallInv, JmpInv
    <3>. QED
      BY <3>2, <3>3 DEF Faithful
  <2>4. CodeInv'
    BY <1>1, <2>2, <2>3 DEF CodeInv
  <2>. QED
    BY <1>1, <2>1, <2>4 DEF BridgeTypeInv, TableInv, WaitInv
<1>3. CASE Run
  <2>1. stage = "built" /\ stage' = "built"
    BY <1>3 DEF Run, RunPlain, RunCall, RunJmp, RunShort, RunDamaged, AtOp, InBridge
  <2>2. flag' \in BOOLEAN
    BY <1>3 DEF Run, RunPlain, RunCall, RunJmp, RunShort, RunDamaged, BridgeTypeInv
  <2>3. \/ \E n : thread' = [thread EXCEPT !.at = n]
        \/ \E a : thread' = [place |-> "memory", at |-> a]
    BY <1>3 DEF Run, RunPlain, RunCall, RunJmp, RunShort, RunDamaged, Continue, LeaveTo
  <2>4. /\ thread'.place \in {"bridge", "memory"}
        /\ thread' = [place |-> thread'.place, at |-> thread'.at]
    BY <2>3 DEF BridgeTypeInv
  <2>5. CodeInv'
    <3>1. CodeInv' <=> CodeInv
      BY <1>1, <2>1 DEF CodeInv, Faithful, PlainInv, CallInv, JmpInv, JccInv, StandsFor,
          Destination, ContinuesAt
    <3>. QED
      BY <3>1
  <2>6. BridgeTypeInv'
    BY <1>1, <2>1, <2>2, <2>4 DEF BridgeTypeInv
  <2>7. TableInv' /\ WaitInv'
    BY <2>1 DEF TableInv, WaitInv
  <2>. QED
    BY <2>5, <2>6, <2>7
<1>. QED
  BY <1>2, <1>3

LEMMA InitInv ==
  BridgeInit => BridgeInv
<1>. SUFFICES ASSUME BridgeInit
              PROVE  BridgeInv
  OBVIOUS
<1>1. BridgeTypeInv
  BY WidthsAssumption, NeedsAssumption DEF BridgeInit, BridgeTypeInv
<1>2. TableInv /\ WaitInv
  BY DEF BridgeInit, TableInv, WaitInv
<1>3. CodeInv
  BY DEF BridgeInit, CodeInv, ContinuesAt
<1>. QED
  BY <1>1, <1>2, <1>3 DEF BridgeInv

LEMMA NextInv ==
  BridgeInv /\ [BridgeNext]_bvars => BridgeInv'
<1>. SUFFICES ASSUME BridgeInv, [BridgeNext]_bvars
              PROVE  BridgeInv'
  OBVIOUS
<1>1. CASE Move
  BY <1>1, MoveStep
<1>2. CASE LastJump
  BY <1>2, LastJumpStep
<1>3. CASE Refuse \/ Full \/ Run
  BY <1>3, SameBridgeStep
<1>4. CASE UNCHANGED bvars
  <2>1. BridgeInv' <=> BridgeInv
    BY <1>4 DEF bvars, BridgeInv, BridgeTypeInv, TableInv, WaitInv, CodeInv, Faithful, PlainInv,
        CallInv, JmpInv, JccInv, StandsFor, Destination, ContinuesAt
  <2>. QED
    BY <2>1
<1>. QED
  BY <1>1, <1>2, <1>3, <1>4 DEF BridgeNext

---------------------------------------------------------------------------
(* What the bridge keeps to.                                               *)

(* However the instructions of a procedure are moved, the bridge has them  *)
(* all in their order: behind each is the next, and a call or a jump leads *)
(* where it led, or through an entry of the table that has that address.   *)
THEOREM BridgeKeepsWay ==
  BridgeSpec => []BridgeInv
<1>. QED
  BY InitInv, NextInv, PTL DEF BridgeSpec

(* No procedure is refused for want of an entry in the table of addresses  *)
(* (addressestable, ADDRESSTABLE_SIZE), whatever is moved for up to 14     *)
(* bytes: each entry is for an instruction of two bytes or more.           *)
THEOREM TableSuffices ==
  BridgeSpec => []AddressesSuffice
<1>1. BridgeInv => AddressesSuffice
  <2>. SUFFICES ASSUME BridgeInv, stage = "create"
                PROVE  Len(bridge.addresstable) < AddresstableSize
    BY DEF AddressesSuffice
  <2>1. Len(bridge.addresstable) <= 7 /\ Len(bridge.addresstable) \in Nat
    BY DEF BridgeInv, TableInv, BridgeTypeInv
  <2>. QED
    BY <2>1 DEF AddresstableSize
<1>. QED
  BY <1>1, BridgeKeepsWay, PTL

\* What the thread runs is one of the instructions in the bridge.
LEMMA AtCurrent ==
  ASSUME BridgeInv, InBridge
  PROVE  /\ stage = "built" /\ thread.place = "bridge"
         /\ Faithful(thread.at, Current)
         /\ AtAddress = Current.from
<1>1. Faithful(thread.at, Current)
  BY DEF BridgeInv, CodeInv, InBridge, Current
<1>2. stage = "built" /\ thread.place = "bridge"
  BY DEF InBridge
<1>. QED
  BY <1>1, <1>2 DEF AtAddress

\* From there it goes on in the bridge.
LEMMA GoesOn ==
  ASSUME BridgeInv, InBridge, UNCHANGED <<bridge, stage>>,
         NEW x, thread' = [thread EXCEPT !.at = x],
         NEW a, ContinuesAt(x, a)
  PROVE  AtAddress' = a
<1>1. thread = [place |-> "bridge", at |-> thread.at]
  BY AtCurrent DEF BridgeInv, BridgeTypeInv
<1>2. thread'.place = "bridge" /\ thread'.at = x
  BY <1>1
<1>3. /\ stage' = "built" /\ thread'.at \in DOMAIN bridge'.code
      /\ bridge'.code[thread'.at].from = a
  BY <1>2, AtCurrent DEF ContinuesAt
<1>4. InBridge' /\ Current'.from = a
  BY <1>2, <1>3 DEF InBridge, Current
<1>. QED
  BY <1>2, <1>3, <1>4 DEF AtAddress

\* Or elsewhere in memory.
LEMMA Leaves ==
  ASSUME NEW a, LeaveTo(a), stage' = "built"
  PROVE  AtAddress' = a
<1>1. thread'.place = "memory" /\ thread'.at = a /\ ~InBridge'
  BY DEF LeaveTo, InBridge
<1>. QED
  BY <1>1 DEF AtAddress

(* A step of the thread is a step of the procedure, or none of it, or what *)
(* the code is known to damage.                                            *)
LEMMA RunSimulated ==
  ASSUME BridgeInv, Run
  PROVE  [Damages \/ P!ProcedureNext]_(P!pvars)
<1>. PICK o, c : o = thread.at /\ c = Current
  OBVIOUS
<1>1. UNCHANGED <<bridge, stage, procedure>> /\ InBridge
  BY DEF Run, RunPlain, RunCall, RunJmp, RunShort, RunDamaged, AtOp
<1>2. Faithful(o, c) /\ AtAddress = c.from
  BY <1>1, AtCurrent
<1>3. ASSUME NEW a, Continue(c.to), ContinuesAt(o + c.size + c.to, a)
      PROVE  AtAddress' = a
  <2>1. thread' = [thread EXCEPT !.at = o + c.size + c.to]
    BY <1>3 DEF Continue
  <2>. QED
    BY <1>1, <1>3, <2>1, GoesOn
<1>4. ASSUME NEW a, Continue(0), ContinuesAt(o + c.size, a)
      PROVE  AtAddress' = a
  <2>1. thread' = [thread EXCEPT !.at = o + c.size + 0]
    BY <1>4 DEF Continue
  <2>2. o + c.size \in Nat
    BY <1>1, <1>4 DEF BridgeInv, BridgeTypeInv, ContinuesAt, InBridge
  <2>3. o + c.size + 0 = o + c.size
    BY <2>2
  <2>. QED
    BY <1>1, <1>4, <2>1, <2>3, GoesOn
<1>5. CASE RunPlain
  <2>1. c.op = "plain" /\ Continue(0) /\ flag' \in BOOLEAN /\ UNCHANGED calls
    BY <1>5 DEF RunPlain, AtOp
  <2>2. /\ StandsFor(c, "plain")
        /\ ContinuesAt(o + c.size, c.from + procedure[c.from].len)
    BY <1>2, <2>1 DEF Faithful, PlainInv
  <2>3. AtAddress' = c.from + procedure[c.from].len
    BY <1>4, <2>1, <2>2
  <2>. QED
    BY <1>1, <1>2, <2>1, <2>2, <2>3 DEF StandsFor, P!ProcedureNext, P!Plain, P!Behind
<1>6. CASE RunCall
  <2>1. /\ c.op \in {"call", "call_entry"}
        /\ calls' = Append(calls, Destination(c))
        /\ Continue(0) /\ flag' \in BOOLEAN
    BY <1>6 DEF RunCall, AtOp, Destination
  <2>2. /\ StandsFor(c, "call") /\ Destination(c) = procedure[c.from].to
        /\ ContinuesAt(o + c.size, c.from + procedure[c.from].len)
    BY <1>2, <2>1 DEF Faithful, CallInv
  <2>3. AtAddress' = c.from + procedure[c.from].len
    BY <1>4, <2>1, <2>2
  <2>. QED
    BY <1>1, <1>2, <2>1, <2>2, <2>3 DEF StandsFor, P!ProcedureNext, P!Call, P!Behind
<1>7. CASE RunJmp
  <2>1. /\ c.op \in {"jmp", "jmp_entry"}
        /\ LeaveTo(Destination(c)) /\ UNCHANGED <<flag, calls>>
    BY <1>7 DEF RunJmp, AtOp, Destination
  <2>2. AtAddress' = Destination(c)
    BY <1>1, <2>1, AtCurrent, Leaves
  <2>3. CASE Destination(c) = c.from
    BY <1>1, <1>2, <2>1, <2>2, <2>3 DEF P!pvars
  <2>4. CASE StandsFor(c, "jmp") /\ Destination(c) = procedure[c.from].to
    BY <1>1, <1>2, <2>1, <2>2, <2>4 DEF StandsFor, P!ProcedureNext, P!Jmp
  <2>. QED
    BY <1>2, <2>1, <2>3, <2>4 DEF Faithful, JmpInv
<1>8. CASE RunShort
  <2>1. UNCHANGED <<flag, calls>>
    BY <1>8 DEF RunShort
  <2>2. CASE c.op = "jmp_short"
    <3>1. Continue(c.to) /\ ContinuesAt(o + c.size + c.to, c.from)
      BY <1>2, <1>8, <2>2 DEF RunShort, Faithful, JccInv
    <3>2. AtAddress' = c.from
      BY <1>3, <3>1
    <3>. QED
      BY <1>1, <1>2, <2>1, <3>2 DEF P!pvars
  <2>3. CASE c.op = "jcc_short"
    <3>1. /\ StandsFor(c, "jcc") /\ procedure[c.from].cond = c.cond
          /\ ContinuesAt(o + c.size + c.to, procedure[c.from].to)
          /\ ContinuesAt(o + c.size, c.from + procedure[c.from].len)
      BY <1>2, <2>3 DEF Faithful, JccInv
    <3>2. CASE c.cond = flag
      <4>1. Continue(c.to)
        BY <1>8, <2>3, <3>2 DEF RunShort
      <4>2. AtAddress' = procedure[c.from].to
        BY <1>3, <3>1, <4>1
      <4>. QED
        BY <1>1, <1>2, <2>1, <3>1, <3>2, <4>2 DEF StandsFor, P!ProcedureNext, P!Jcc, P!Holds
    <3>3. CASE c.cond # flag
      <4>1. Continue(0)
        BY <1>8, <2>3, <3>3 DEF RunShort
      <4>2. AtAddress' = c.from + procedure[c.from].len
        BY <1>4, <3>1, <4>1
      <4>. QED
        BY <1>1, <1>2, <2>1, <3>1, <3>3, <4>2
           DEF StandsFor, P!ProcedureNext, P!Jcc, P!Holds, P!Behind
    <3>. QED
      BY <3>2, <3>3
  <2>. QED
    BY <1>8, <2>2, <2>3 DEF RunShort, AtOp
<1>9. CASE RunDamaged
  BY <1>9 DEF RunDamaged, Damages
<1>. QED
  BY <1>5, <1>6, <1>7, <1>8, <1>9 DEF Run

LEMMA NextSimulated ==
  ASSUME BridgeInv, BridgeInv', [BridgeNext]_bvars
  PROVE  [Damages \/ P!ProcedureNext]_(P!pvars)
<1>1. stage # "built" => AtAddress = 0 /\ calls = << >>
  BY DEF BridgeInv, WaitInv, AtAddress, InBridge
<1>2. stage' # "built" => AtAddress' = 0 /\ calls' = << >>
  BY DEF BridgeInv, WaitInv, AtAddress, InBridge
<1>3. CASE Move
  <2>1. PICK i \in Instructions(offset) : Moving(i) /\ UNCHANGED <<flag, calls>>
    BY <1>3 DEF Move, Turn, Moving
  <2>2. StillKnown
    BY <2>1, InstructionTypes, ReadKnows DEF BridgeInv, BridgeTypeInv
  <2>3. stage # "built" /\ stage' # "built"
    BY <2>1 DEF Moving
  <2>. QED
    BY <1>1, <1>2, <2>1, <2>2, <2>3 DEF P!ProcedureNext, P!Known, StillKnown
<1>4. CASE LastJump
  <2>1. stage = "create" /\ stage' = "built" /\ UNCHANGED <<procedure, thread, flag, calls>>
    BY <1>4 DEF LastJump, Turn
  <2>2. thread'.place = "bridge" /\ thread'.at = 0
    BY <2>1 DEF BridgeInv, WaitInv
  <2>3. 0 \in DOMAIN bridge'.code /\ bridge'.code[0].from = 0
    BY <2>1 DEF BridgeInv, CodeInv, ContinuesAt
  <2>4. AtAddress' = 0
    BY <2>1, <2>2, <2>3 DEF AtAddress, InBridge, Current
  <2>. QED
    BY <1>1, <2>1, <2>4 DEF P!pvars
<1>5. CASE Refuse \/ Full
  <2>1. /\ stage # "built" /\ stage' # "built"
        /\ UNCHANGED <<procedure, flag, calls>>
    BY <1>5 DEF Refuse, Full, Turn
  <2>. QED
    BY <1>1, <1>2, <2>1 DEF P!pvars
<1>6. CASE Run
  BY <1>6, RunSimulated
<1>7. CASE UNCHANGED bvars
  BY <1>7 DEF bvars, AtAddress, InBridge, Current, P!pvars
<1>. QED
  BY <1>3, <1>4, <1>5, <1>6, <1>7 DEF BridgeNext

(* For any procedure and any number of bytes a hook needs, a thread in the *)
(* bridge does what it would have done at the start of the procedure, its  *)
(* calls and conditional jumps among it, until it comes to an instruction  *)
(* that is damaged: a loop, or a conditional jump in the 32-bit build.     *)
THEOREM BridgeImplements ==
  BridgeSpec => ImplementsProcedure
<1>1. BridgeInit => P!ProcedureInit
  BY DEF BridgeInit, P!ProcedureInit, AtAddress, InBridge
<1>. QED
  BY <1>1, NextSimulated, BridgeKeepsWay, PTL DEF BridgeSpec, ImplementsProcedure
===========================================================================
