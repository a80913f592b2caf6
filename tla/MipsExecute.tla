---------------------------- MODULE MipsExecute -----------------------------
(***************************************************************************)
(* The stand-alone interpreter of bin/execute.c beside the simulator of    *)
(* machine/mipssim.cc (module Mips): both run the same program.  The       *)
(* interpreter has no exceptions, no address checks and no delayed loads.  *)
(***************************************************************************)
EXTENDS Mips

CONSTANTS
  Program,   \* the instructions that may come next
  Memory,    \* contents of the memory at the start
  Operands,  \* contents of registers 1 and 2 at the start
  MaxSteps   \* bound: instructions executed

VARIABLES
  exec,    \* the interpreter: Reg, HI, LO, pc, npc and mem
  sim,     \* the simulator
  loaded,  \* register whose load delay slot comes next, 0 if none
  steps

vars == <<exec, sim, loaded, steps>>

(* What the interpreter shares with the simulator *)
Common(m) == [r |-> m.r, hi |-> m.hi, lo |-> m.lo, pc |-> m.pc, npc |-> m.npc, mem |-> m.mem]

Init ==
  /\ \E a \in Operands, b \in Operands :
       sim = [r |-> [x \in 0..R31 |-> CASE x = 1 -> a [] x = 2 -> b [] OTHER -> 0],
              hi |-> 0, lo |-> 0, ppc |-> 0, pc |-> 0, npc |-> 4,
              lreg |-> 0, lval |-> 0, badVAddr |-> 0, mem |-> Memory]
  /\ exec = Common(sim)
  /\ loaded = 0 /\ steps = 0

-----------------------------------------------------------------------------
HalfWord == 2^(2 * ByteBits)

(* The shifts; the host takes the count modulo the width of a word. *)
Shifted(i, e) ==
  LET n == (IF i.op \in {"SLLV", "SRLV", "SRAV"} THEN e.r[i.rs] ELSE i.extra) % WordBits
      b == e.r[i.rt]
  IN CASE i.op \in {"SLL", "SLLV"} -> Shl(b, n)
       [] i.op \in {"SRL", "SRLV"} -> b \div 2^n
       [] i.op \in {"SRA", "SRAV"} -> Sra(b, n)

(* What the other cases that assign to Reg[rd] compute *)
RdValue(i, e) ==
  LET a == e.r[i.rs]
      b == e.r[i.rt]
  IN CASE i.op \in {"ADD", "ADDU"} -> Trunc(a + b)
       [] i.op \in {"SUB", "SUBU"} -> Trunc(a - b)
       [] i.op = "AND" -> a & b
       [] i.op = "OR" -> a | b
       [] i.op = "XOR" -> a ^^ b
       [] i.op = "NOR" -> Complement(a | b)
       [] i.op = "SLT" -> Bool(Signed(a) < Signed(b))
       [] i.op = "SLTU" -> Bool(a < b)

(* Mutant of RtValue: SLTIU compares with the immediate not extended. *)
RtValueNarrow(i, e) ==
  LET a == e.r[i.rs]
  IN CASE i.op \in {"ADDI", "ADDIU"} -> Trunc(a + i.extra)
       [] i.op = "SLTI" -> Bool(Signed(a) < Signed(i.extra))
       [] i.op = "SLTIU" -> Bool(a < i.extra % HalfWord)
       [] i.op = "ANDI" -> a & i.extra
       [] i.op = "ORI" -> a | i.extra
       [] i.op = "XORI" -> a ^^ i.extra
       [] i.op = "LUI" -> Shl(i.extra, 2 * ByteBits)
(* What the cases with an immediate assign to Reg[rt]; immed extends the sign
   for all of them.                                                        *)
RtValue(i, e) ==
  LET a == e.r[i.rs]
  IN CASE i.op \in {"ADDI", "ADDIU"} -> Trunc(a + i.extra)
       [] i.op = "SLTI" -> Bool(Signed(a) < Signed(i.extra))
       [] i.op = "SLTIU" -> Bool(a < i.extra)
       [] i.op = "ANDI" -> a & i.extra
       [] i.op = "ORI" -> a | i.extra
       [] i.op = "XORI" -> a ^^ i.extra
       [] i.op = "LUI" -> Shl(i.extra, 2 * ByteBits)

(* <<HI, LO>> of MULT and MULTU, from the products of half words *)
Product(op, a, b) ==
  LET Magnitude(x) == IF op = "MULT" /\ SIGN_BIT(x) THEN Trunc(-x) ELSE x
      t1 == Magnitude(a)
      t2 == Magnitude(b)
      h(x) == x \div HalfWord
      l(x) == x % HalfWord
      lo == Trunc(t1 * t2)
      hi == Trunc(h(t1) * h(t2) + Signed(h(t1) * l(t2)) \div HalfWord
                    + Signed(h(t2) * l(t1)) \div HalfWord)
      neg == op = "MULT" /\ SIGN_BIT(a) # SIGN_BIT(b)
  IN IF neg
     THEN <<Trunc(Complement(hi) + Bool(Trunc(Complement(lo) + 1) = 0)), Trunc(Complement(lo) + 1)>>
     ELSE <<hi, lo>>

(* <<HI, LO>> after the cases that assign to them *)
HILO(op, a, b, e) ==
  CASE op \in {"MULT", "MULTU"} -> Product(op, a, b)
    [] op = "DIV" ->
         LET q == Quotient(Signed(a), Signed(b))
         IN <<Trunc(Signed(a) - q * Signed(b)), Trunc(q)>>
    [] op = "DIVU" -> <<a % b, a \div b>>
    [] op = "MTHI" -> <<a, e.lo>>
    [] op = "MTLO" -> <<e.hi, a>>

(* What the cases that load assign to Reg[rt].  LWL masks with a constant that
   the arithmetic shift leaves at -1, so it keeps every bit of the register. *)
Fetched(i, e) ==
  LET addr == Trunc(e.r[i.rs] + i.extra)
      off == addr % 4
      v == ReadBytes(e.mem, IF i.op \in {"LWL", "LWR"} THEN addr - off ELSE addr, SizeOf(i.op))
      old == e.r[i.rt]
  IN CASE i.op = "LB" -> SignExtend(v, ByteBits)
       [] i.op = "LH" -> SignExtend(v, 2 * ByteBits)
       [] i.op = "LWL" -> old | Shl(v, ByteBits * off)
       [] i.op = "LWR" ->
            (IF off = 0 THEN 0 ELSE old - LowBits(old, ByteBits * off)) | Sra(v, ByteBits * ((4 - off) % 4))
       [] OTHER -> v

(* The cases that end in u() or exit(2) *)
Exits(i) == i.op \in {"SWL", "SWR", "UNIMP", "RES"}

(* Mutant of Target: a branch counts from the instruction. *)
TargetShort(i, e) ==
  CASE i.op \in {"JR", "JALR"} -> e.r[i.rs]
    [] i.op \in {"J", "JAL"} ->
         e.pc - LowBits(e.pc, IndexBits) + LowBits(IndexToAddr(i.extra), IndexBits)
    [] OTHER -> Trunc(e.pc + Shl(i.extra, 2))
(* npc after a jump, or a branch that is taken; e.pc is xpc *)
Target(i, e) ==
  CASE i.op \in {"JR", "JALR"} -> e.r[i.rs]
    [] i.op \in {"J", "JAL"} ->
         e.pc - LowBits(e.pc, IndexBits) + LowBits(IndexToAddr(i.extra), IndexBits)
    [] OTHER -> Trunc(e.pc + 4 + Shl(i.extra, 2))

(* The register that a jump or branch links, if any *)
Link(i) ==
  CASE i.op \in {"JAL", "BLTZAL", "BGEZAL"} -> {R31} [] i.op = "JALR" -> {i.rd} [] OTHER -> {}

(* A jump or a branch, which tests its registers after the link *)
Branched(i, e, go) ==
  LET linked == [go EXCEPT !.r = [x \in DOMAIN @ |-> IF x \in Link(i) THEN Trunc(e.pc + 8) ELSE @[x]]]
  IN IF i.op \in Jumps \/ Taken(i.op, linked.r[i.rs], linked.r[i.rt])
     THEN [linked EXCEPT !.npc = Target(i, e)] ELSE linked

(* cstore, sstore and store *)
Stored(i, e) ==
  WriteBytes(e.mem, Trunc(e.r[i.rs] + i.extra), SizeOf(i.op), e.r[i.rt])

(* One turn of the loop of runprogram: r0 is cleared before the instruction.
   The test for no-ops changes nothing: SLL of r0 into r0.                 *)
runprogram(i, old) ==
  LET e == [old EXCEPT !.r[0] = 0]
      go == [e EXCEPT !.pc = e.npc, !.npc = Trunc(e.npc + 4)]
  IN CASE i.op \in ThreeRegister -> [go EXCEPT !.r[i.rd] = RdValue(i, e)]
       [] i.op \in Shifts -> [go EXCEPT !.r[i.rd] = Shifted(i, e)]
       [] i.op = "MFHI" -> [go EXCEPT !.r[i.rd] = e.hi]
       [] i.op = "MFLO" -> [go EXCEPT !.r[i.rd] = e.lo]
       [] i.op \in HiLoOps ->
            LET p == HILO(i.op, e.r[i.rs], e.r[i.rt], e) IN [go EXCEPT !.hi = p[1], !.lo = p[2]]
       [] i.op \in Immediate \cup {"LUI"} -> [go EXCEPT !.r[i.rt] = RtValue(i, e)]
       [] i.op \in Jumps \cup Branches -> Branched(i, e, go)
       [] i.op \in Loads -> [go EXCEPT !.r[i.rt] = Fetched(i, e)]
       [] i.op \in Stores -> [go EXCEPT !.mem = Stored(i, e)]

-----------------------------------------------------------------------------
(* The registers that an instruction reads or writes at once *)
Uses(i) ==
  CASE i.op \in Loads -> {i.rs}
    [] i.op \in Jumps \cup Branches -> {i.rs, i.rt, i.rd, R31}
    [] OTHER -> {i.rs, i.rt, i.rd}

(* What the two programs are known not to share: exceptions, system calls, LWR
   and, unless the register is empty, LWL; division by zero, which is left to the host; OR and
   the logical right shifts, which the simulator computes differently; logical
   instructions with a negative immediate, which only the interpreter extends;
   products whose half-word products carry; a jump that links its own register,
   crosses the end of a region or stands in the delay slot of another one.  *)
Portable(i, m) ==
  LET a == m.r[i.rs]
      b == m.r[i.rt]
      Small(x) == (IF i.op = "MULT" /\ SIGN_BIT(x) THEN Trunc(-x) ELSE x) < HalfWord
  IN /\ ~Exits(i) /\ i.op \notin {"OR", "SRL", "SRLV", "LWR", "SYSCALL"}
     /\ i.op = "LWL" => b = 0
     /\ i.op \in {"ANDI", "ORI", "XORI"} => ~SIGN_BIT(i.extra)
     /\ i.op \in {"ADD", "ADDI", "SUB"} => ~Overflow(i.op, a, Operand(i, m))
     /\ i.op \in {"MULT", "MULTU"} => Small(a) /\ Small(b)
     /\ i.op \in {"DIV", "DIVU"} => b # 0 /\ ~HostTraps(i.op, a, b)
     /\ i.op \in Loads \cup Stores => ~AccessError(Trunc(a + i.extra), SizeOf(i.op))
     /\ i.op = "JALR" => i.rd # i.rs
     /\ i.op \in Jumps \cup Branches => m.npc = Trunc(m.pc + 4)
     /\ i.op \in {"J", "JAL"} => m.pc \div 2^IndexBits = Trunc(m.npc + 4) \div 2^IndexBits

Step(i) ==
  /\ steps < MaxSteps /\ steps' = steps + 1
  /\ Portable(i, sim)
  /\ loaded = 0 \/ loaded \notin Uses(i)
  /\ exec' = runprogram(i, exec)
  /\ sim' = OneInstruction(i, sim)
  /\ loaded' = IF i.op \in Loads THEN i.rt ELSE 0

Next == \E i \in Program : Step(i)

Spec == Init /\ [][Next]_vars

-----------------------------------------------------------------------------
(* The interpreter and the kernel's machine compute the same registers, HI, LO,
   program counters and memory from one program, at every sign, carry and byte
   boundary, through links, branches and their delay slots, although only the
   latter delays loads.                                                    *)
InterpretersAgree == [exec EXCEPT !.r[0] = 0] = Common(DelayedLoad(sim, 0, 0))
=============================================================================
