-------------------------------- MODULE Mips --------------------------------
(***************************************************************************)
(* The MIPS instructions as machine/mipssim.cc executes them, for words of *)
(* four bytes of ByteBits bits each.  A machine is a record: general       *)
(* registers r, hi, lo, the three program counters, the pending load       *)
(* (lreg, lval), the bad address and the memory.  Addresses are physical   *)
(* here: what ReadMem and WriteMem do before they get to the memory is in  *)
(* module UserPrograms.                                                     *)
(***************************************************************************)
EXTENDS Integers, Sequences, Bitwise

CONSTANTS
  ByteBits,    \* bits per byte
  NumGPRegs,   \* general registers; the last one is R31
  MemorySize   \* bytes of memory

ASSUME MipsAssumption ==
  /\ ByteBits \in Nat \ {0}
  /\ NumGPRegs \in Nat \ {0}
  /\ MemorySize % 4 = 0

WordBits == 4 * ByteBits
Word == 0..(2^WordBits - 1)
R31 == NumGPRegs - 1

Trunc(n) == n % 2^WordBits
SIGN_BIT(x) == x >= 2^(WordBits - 1)
Signed(x) == IF SIGN_BIT(x) THEN x - 2^WordBits ELSE x
Complement(x) == 2^WordBits - 1 - x
Bool(p) == IF p THEN 1 ELSE 0

(* The C operators << and >> on int *)
Shl(x, n) == Trunc(x * 2^n)
Sra(x, n) == Trunc(Signed(x) \div 2^n)

(* The low bits of x, with the sign extended over the rest of the word *)
LowBits(x, bits) == x % 2^bits
SignExtend(x, bits) ==
  LET v == LowBits(x, bits) IN IF v >= 2^(bits - 1) THEN Trunc(v - 2^bits) ELSE v

IndexToAddr(x) == Trunc(x * 4)

-----------------------------------------------------------------------------
(* The state of the machine after an instruction, or the exception it raises:
   reg and val are the load it leaves pending.                             *)
Done(m) ==
  [exc |-> "NoException", m |-> m, reg |-> 0, val |-> 0, pcAfter |-> Trunc(m.npc + 4), bad |-> 0]
Fault(m, which, addr) ==
  [exc |-> which, m |-> m, reg |-> 0, val |-> 0, pcAfter |-> 0, bad |-> addr]

SetReg(m, reg, v) == Done([m EXCEPT !.r[reg] = v])

(* Opcodes by kind: operands in rs and rt, result in rd, ... *)
ThreeRegister == {"ADD", "ADDU", "SUB", "SUBU", "AND", "NOR", "OR", "XOR", "SLT", "SLTU"}
(* ... operands in rs and the instruction, result in rt, ... *)
Immediate == {"ADDI", "ADDIU", "ANDI", "ORI", "XORI", "SLTI", "SLTIU"}
(* ... and rt shifted by rs or by the instruction, result in rd. *)
Shifts == {"SLL", "SRA", "SRL", "SLLV", "SRAV", "SRLV"}
HiLoOps == {"DIV", "DIVU", "MTHI", "MTLO", "MULT", "MULTU"}
Branches == {"BEQ", "BNE", "BGEZ", "BGEZAL", "BGTZ", "BLEZ", "BLTZ", "BLTZAL"}
Jumps == {"J", "JAL", "JALR", "JR"}
Loads == {"LB", "LBU", "LH", "LHU", "LW", "LWL", "LWR"}
Stores == {"SB", "SH", "SW", "SWL", "SWR"}
Opcodes ==
  ThreeRegister \cup Immediate \cup Shifts \cup HiLoOps \cup Branches \cup Jumps \cup Loads
    \cup Stores \cup {"LUI", "MFHI", "MFLO", "SYSCALL", "RES", "UNIMP"}

(* The second operand; logical instructions do not extend the immediate. *)
Operand(i, m) ==
  CASE i.op \in {"ANDI", "ORI", "XORI"} -> LowBits(i.extra, 2 * ByteBits)
    [] i.op \in Immediate \ {"ANDI", "ORI", "XORI"} -> i.extra
    [] OTHER -> m.r[i.rt]

AddSub(op, a, b) == IF op \in {"SUB", "SUBU"} THEN Trunc(a - b) ELSE Trunc(a + b)

(* Mutant of Overflow: only a positive result can overflow. *)
OverflowPositive(op, a, b) ==
  op \in {"ADD", "ADDI"} /\ ~SIGN_BIT(a) /\ ~SIGN_BIT(b) /\ SIGN_BIT(AddSub(op, a, b))
(* The test of ADD, ADDI and SUB for OverflowException *)
Overflow(op, a, b) ==
  LET result == AddSub(op, a, b) IN
    \/ op = "ADD" /\ SIGN_BIT(a) = SIGN_BIT(b) /\ SIGN_BIT(a) # SIGN_BIT(result)
    \/ op = "ADDI" /\ SIGN_BIT(a) = SIGN_BIT(b) /\ SIGN_BIT(b) # SIGN_BIT(result)
    \/ op = "SUB" /\ SIGN_BIT(a) # SIGN_BIT(b) /\ SIGN_BIT(a) # SIGN_BIT(result)

Logic(op, a, b) ==
  CASE op \in {"AND", "ANDI"} -> a & b
    [] op = "OR" -> a | a
    [] op = "ORI" -> a | b
    [] op \in {"XOR", "XORI"} -> a ^^ b
    [] op = "NOR" -> Complement(a | b)

(* Mutant of SetLess: the unsigned comparisons are signed. *)
SetLessSigned(op, a, b) == Bool(Signed(a) < Signed(b))
SetLess(op, a, b) ==
  IF op \in {"SLT", "SLTI"} THEN Bool(Signed(a) < Signed(b)) ELSE Bool(a < b)

ShiftLeft(b, n) == Shl(b, n)
ShiftRight(b, n) == Sra(b, n)
Shift(i, m) ==
  LET n == IF i.op \in {"SLLV", "SRAV", "SRLV"} THEN m.r[i.rs] % WordBits ELSE i.extra % WordBits
  IN IF i.op \in {"SLL", "SLLV"} THEN ShiftLeft(m.r[i.rt], n) ELSE ShiftRight(m.r[i.rt], n)

(* The arithmetic, logical and comparison instructions *)
Compute(i, m) ==
  LET a == m.r[i.rs]
      b == Operand(i, m)
      dest == IF i.op \in Immediate THEN i.rt ELSE i.rd
  IN CASE i.op \in {"ADD", "ADDU", "ADDI", "ADDIU", "SUB", "SUBU"} ->
            IF Overflow(i.op, a, b) THEN Fault(m, "OverflowException", 0)
            ELSE SetReg(m, dest, AddSub(i.op, a, b))
       [] i.op \in {"SLT", "SLTI", "SLTU", "SLTIU"} -> SetReg(m, dest, SetLess(i.op, a, b))
       [] OTHER -> SetReg(m, dest, Logic(i.op, a, b))

LoadUpper(i, m) == SetReg(m, i.rt, Shl(i.extra, 2 * ByteBits))

-----------------------------------------------------------------------------
(* The loop of Mult: a's bits from the lowest, b shifted left *)
RECURSIVE MultLoop(_, _, _, _, _, _)
MultLoop(n, a, bLo, bHi, lo, hi) ==
  IF n = 0 THEN <<hi, lo>>
  ELSE LET odd == a % 2 = 1
           lo1 == IF odd THEN Trunc(lo + bLo) ELSE lo
           hi1 == IF odd THEN Trunc(hi + bHi + Bool(lo1 < bLo)) ELSE hi
       IN IF odd /\ a \div 2 = 0 THEN <<hi1, lo1>>
          ELSE MultLoop(n - 1, Sra(a, 1), Shl(bLo, 1), Trunc(2 * bHi + Bool(SIGN_BIT(bLo))), lo1, hi1)

(* The two's complement of a double word *)
Negate(p) ==
  LET lo == Trunc(Complement(p[2]) + 1)
  IN <<Trunc(Complement(p[1]) + Bool(lo = 0)), lo>>

(* Mutant of Mult: no carry from the low word when the result is negated. *)
MultNoCarry(a, b, signedArith) ==
  LET Magnitude(x) == IF signedArith /\ SIGN_BIT(x) THEN Trunc(-x) ELSE x
      p == MultLoop(WordBits, Magnitude(a), Magnitude(b), 0, 0, 0)
  IN IF a = 0 \/ b = 0 THEN <<0, 0>>
     ELSE IF signedArith /\ SIGN_BIT(a) # SIGN_BIT(b)
          THEN <<Complement(p[1]), Trunc(Complement(p[2]) + 1)>> ELSE p
(* Mult: <<hi, lo>> *)
Mult(a, b, signedArith) ==
  LET Magnitude(x) == IF signedArith /\ SIGN_BIT(x) THEN Trunc(-x) ELSE x
      p == MultLoop(WordBits, Magnitude(a), Magnitude(b), 0, 0, 0)
  IN IF a = 0 \/ b = 0 THEN <<0, 0>>
     ELSE IF signedArith /\ SIGN_BIT(a) # SIGN_BIT(b) THEN Negate(p) ELSE p

(* C division truncates towards zero; the smallest integer divided by -1 is
   undefined in C and traps on the host.                                   *)
Quotient(x, y) ==
  LET Abs(n) == IF n < 0 THEN -n ELSE n
      q == Abs(x) \div Abs(y)
  IN IF (x < 0) # (y < 0) THEN -q ELSE q
HostTraps(op, a, b) == op = "DIV" /\ Signed(a) = -(2^(WordBits - 1)) /\ Signed(b) = -1

(* <<hi, lo>> after the instruction *)
HiLo(op, a, b, m) ==
  CASE op = "MTHI" -> <<a, m.lo>>
    [] op = "MTLO" -> <<m.hi, a>>
    [] op = "MULT" -> Mult(a, b, TRUE)
    [] op = "MULTU" -> Mult(a, b, FALSE)
    [] op \in {"DIV", "DIVU"} /\ b = 0 -> <<0, 0>>
    [] op = "DIVU" /\ b # 0 -> <<a % b, a \div b>>
    [] op = "DIV" /\ b # 0 ->
         LET q == Quotient(Signed(a), Signed(b))
         IN <<Trunc(Signed(a) - q * Signed(b)), Trunc(q)>>

-----------------------------------------------------------------------------
Taken(op, a, b) ==
  CASE op = "BEQ" -> a = b
    [] op = "BNE" -> a # b
    [] op \in {"BGEZ", "BGEZAL"} -> ~SIGN_BIT(a)
    [] op \in {"BLTZ", "BLTZAL"} -> SIGN_BIT(a)
    [] op = "BGTZ" -> Signed(a) > 0
    [] op = "BLEZ" -> Signed(a) <= 0

(* The branches test registers[rs] after R31 has been linked. *)
Branch(i, m) ==
  LET linked == IF i.op \in {"BGEZAL", "BLTZAL"} THEN [m EXCEPT !.r[R31] = Trunc(m.npc + 4)] ELSE m
  IN IF Taken(i.op, linked.r[i.rs], linked.r[i.rt])
     THEN [Done(linked) EXCEPT !.pcAfter = Trunc(m.npc + IndexToAddr(i.extra))]
     ELSE Done(linked)

(* J keeps the top bits, 4 of 32, of the address after the delay slot. *)
IndexBits == WordBits - WordBits \div 8
Jump(i, m) ==
  LET link == CASE i.op = "JAL" -> {R31} [] i.op = "JALR" -> {i.rd} [] OTHER -> {}
      linked == [m EXCEPT !.r = [x \in DOMAIN m.r |-> IF x \in link THEN Trunc(m.npc + 4) ELSE @[x]]]
      pcAfter == Trunc(m.npc + 4)
  IN [Done(linked) EXCEPT !.pcAfter =
        IF i.op \in {"J", "JAL"}
        THEN pcAfter - LowBits(pcAfter, IndexBits) + LowBits(IndexToAddr(i.extra), IndexBits)
        ELSE linked.r[i.rs]]

-----------------------------------------------------------------------------
(* Memory holds the bytes of a word from the lowest address up, lowest first.
   An access out of the memory or not aligned raises an exception.         *)
SizeOf(op) ==
  CASE op \in {"LB", "LBU", "SB"} -> 1 [] op \in {"LH", "LHU", "SH"} -> 2 [] OTHER -> 4
AccessError(addr, size) == addr % size # 0 \/ addr + size > MemorySize
ReadBytes(mem, addr, size) ==
  LET b(k) == IF k < size THEN mem[addr + k] * 2^(ByteBits * k) ELSE 0
  IN b(0) + b(1) + b(2) + b(3)
WriteBytes(mem, addr, size, v) ==
  [a \in DOMAIN mem |-> IF a \in addr..(addr + size - 1)
                        THEN LowBits(v \div 2^(ByteBits * (a - addr)), ByteBits)
                        ELSE mem[a]]

(* Mutant of LoadValue: LWR merges with the register, not the pending load. *)
LoadValueStale(i, m, v) ==
  LET old == m.r[i.rt]
  IN CASE i.op = "LB" -> SignExtend(v, ByteBits)
       [] i.op = "LH" -> SignExtend(v, 2 * ByteBits)
       [] i.op = "LWR" -> old - LowBits(old, ByteBits) + v \div 2^(3 * ByteBits)
       [] OTHER -> v
(* The value a load leaves pending; v is what was read.  LWL and LWR, which
   assert that the address is aligned, merge it with the register as it will
   be after the load that is pending.                                      *)
LoadValue(i, m, v) ==
  LET old == IF m.lreg = i.rt THEN m.lval ELSE m.r[i.rt]
  IN CASE i.op = "LB" -> SignExtend(v, ByteBits)
       [] i.op = "LH" -> SignExtend(v, 2 * ByteBits)
       [] i.op = "LWR" -> old - LowBits(old, ByteBits) + v \div 2^(3 * ByteBits)
       [] OTHER -> v
AssertFails(i, m) ==
  i.op \in {"LWL", "LWR", "SWL", "SWR"} /\ Trunc(m.r[i.rs] + i.extra) % 4 # 0

Load(i, m) ==
  LET addr == Trunc(m.r[i.rs] + i.extra)
  IN IF AccessError(addr, SizeOf(i.op)) THEN Fault(m, "AddressErrorException", addr)
     ELSE [Done(m) EXCEPT !.reg = i.rt, !.val = LoadValue(i, m, ReadBytes(m.mem, addr, SizeOf(i.op)))]

(* What is stored: SWR puts the low byte into the top of the word. *)
StoreValue(i, m, old) ==
  IF i.op = "SWR" THEN LowBits(old, 3 * ByteBits) + Shl(m.r[i.rt], 3 * ByteBits) ELSE m.r[i.rt]
Store(i, m) ==
  LET addr == Trunc(m.r[i.rs] + i.extra)
      size == SizeOf(i.op)
  IN IF AccessError(addr, size) THEN Fault(m, "AddressErrorException", addr)
     ELSE Done([m EXCEPT !.mem = WriteBytes(@, addr, size, StoreValue(i, m, ReadBytes(@, addr, size)))])

-----------------------------------------------------------------------------
(* The switch of OneInstruction *)
Execute(i, m) ==
  CASE i.op \in ThreeRegister \cup Immediate -> Compute(i, m)
    [] i.op \in Shifts -> SetReg(m, i.rd, Shift(i, m))
    [] i.op = "LUI" -> LoadUpper(i, m)
    [] i.op \in HiLoOps ->
         LET p == HiLo(i.op, m.r[i.rs], m.r[i.rt], m) IN Done([m EXCEPT !.hi = p[1], !.lo = p[2]])
    [] i.op = "MFHI" -> SetReg(m, i.rd, m.hi)
    [] i.op = "MFLO" -> SetReg(m, i.rd, m.lo)
    [] i.op \in Branches -> Branch(i, m)
    [] i.op \in Jumps -> Jump(i, m)
    [] i.op \in Loads -> Load(i, m)
    [] i.op \in Stores -> Store(i, m)
    [] i.op = "SYSCALL" -> Fault(m, "SyscallException", 0)
    [] i.op \in {"RES", "UNIMP"} -> Fault(m, "IllegalInstrException", 0)

(* Mutant of DelayedLoad: R0 is not reset. *)
DelayedLoadR0(m, reg, val) ==
  [m EXCEPT !.r[m.lreg] = m.lval, !.lreg = reg, !.lval = val]
(* Machine::DelayedLoad *)
DelayedLoad(m, reg, val) ==
  [m EXCEPT !.r = [@ EXCEPT ![m.lreg] = m.lval, ![0] = 0], !.lreg = reg, !.lval = val]

(* Mutant of RaiseException: the registers are left as they are. *)
RaiseExceptionBare(m, addr) == [m EXCEPT !.badVAddr = addr]
(* Machine::RaiseException, up to the call of ExceptionHandler *)
RaiseException(m, addr) == DelayedLoad([m EXCEPT !.badVAddr = addr], 0, 0)

(* Machine::OneInstruction, on an instruction that was fetched and decoded *)
OneInstruction(i, m) ==
  LET o == Execute(i, m)
      n == DelayedLoad(o.m, o.reg, o.val)
  IN IF o.exc # "NoException" THEN RaiseException(o.m, o.bad)
     ELSE [n EXCEPT !.ppc = m.pc, !.pc = m.npc, !.npc = o.pcAfter]
=============================================================================
