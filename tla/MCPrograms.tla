----------------------------- MODULE MCPrograms -----------------------------
(***************************************************************************)
(* Everything about user programs: how an object file becomes an           *)
(* executable, how its instructions are decoded, listed and executed, and  *)
(* how the kernel runs two programs at a time.  part says which of them    *)
(* runs, the others stay as they are.                                      *)
(*                                                                         *)
(* Two checks of the instructions of module Mips are made here.  Every     *)
(* instruction is executed once on every operand of a set and compared     *)
(* with what it means as arithmetic on integers and as operations on       *)
(* single bits.  And one program runs on two machines, one of which is     *)
(* interrupted wherever CheckIfDue may call DelayedLoad(0, 0)              *)
(* (machine/interrupt.cc) between two instructions.                        *)
(***************************************************************************)
EXTENDS Mips, UserPrograms

VARIABLES
  part,                                                        \* what runs
  instr, before, after,           \* an instruction, the machine before and after it
  quiet, trapped,                 \* the machines that are never and sometimes interrupted
  loaded, steps,                  \* register whose load delay slot comes next, 0 if none
  word, decoded, listed,                                       \* MipsDecode
  exec, sim, execLoaded, execSteps,                            \* MipsExecute
  sections, coff, magicOk, writable, nextSection, noffH,
  inNoffFile, noff, status                                     \* Coff2Noff

instructionVars == <<instr, before, after>>
delayVars == <<quiet, trapped, loaded, steps>>
decodeVars == <<word, decoded, listed>>
execVars == <<exec, sim, execLoaded, execSteps>>
coffVars == <<sections, coff, magicOk, writable, nextSection, noffH, inNoffFile, noff, status>>
allVars == <<part, instructionVars, delayVars, decodeVars, execVars, kernelVars, coffVars>>

-----------------------------------------------------------------------------
I(op, rs, rt, rd, extra) == [op |-> op, rs |-> rs, rt |-> rt, rd |-> rd, extra |-> extra]

(* Words of eight bits, with the operands at which signs, carries and bytes
   change; constants matter to some instructions only.                     *)
Operands == {0, 1, 2, 3, 5, 12, 90, 126, 127, 128, 129, 165, 254, 255}
Extras == {SignExtend(x, 2 * ByteBits) : x \in 0..15}
Instructions ==
  {I(op, 1, 2, 3, 0) : op \in Opcodes}
    \cup {I(op, 1, 2, 3, x) : op \in Immediate \cup Branches \cup Loads \cup Stores, x \in Extras}
    \cup {I(op, 1, 2, 3, x) : op \in Shifts, x \in 0..(WordBits - 1)}

(* Loads, merging loads, arithmetic, stores, a faulting load and system calls *)
Memory == [a \in 0..(MemorySize - 1) |-> (a * a + a \div 3 + 1) % 2^ByteBits]
Program ==
  {I("LW", 0, 1, 0, 0), I("LW", 0, 2, 0, 4), I("LWR", 0, 1, 0, 4), I("LWL", 0, 2, 0, 0),
   I("LBU", 1, 0, 0, 1), I("LB", 0, 2, 0, 7), I("LH", 0, 1, 0, 1),
   I("ADDU", 1, 2, 1, 0), I("ADDIU", 2, 0, 0, 1), I("NOR", 0, 2, 0, 0),
   I("SW", 0, 1, 0, 4), I("SB", 0, 2, 0, 0), I("SYSCALL", 0, 0, 0, 0)}

MaxSteps == 4  \* bound: instructions of a program

(* Every opcode with both kinds of displacement, every funct field *)
Fields(tops, functs) ==
  [top : tops, rs : {0, 31}, rt : {0, 1, 2, 16, 17, 31}, rd : {0, 15, 16}, shamt : {0, 31},
   funct : functs]
Listing == INSTANCE MipsDecode WITH
  Words <- Fields({0}, 0..63) \cup Fields(1..63, {0, 63}), pc <- 4096

(* Every instruction once in the interpreter of bin/ and in the simulator *)
Every == INSTANCE MipsExecute WITH
  Program <- {I(op, 1, 2, d, x) : op \in Opcodes \ Shifts, d \in {0, 3}, x \in {0, 1, 3, 5, 7, 248, 252, 255}}
               \cup {I(op, 1, 2, 3, x) : op \in Shifts, x \in 0..(WordBits - 1)},
  MaxSteps <- 1, loaded <- execLoaded, steps <- execSteps

(* Short programs of loads, stores, links, branches and jumps *)
Short == INSTANCE MipsExecute WITH
  Program <-
    {I("LW", 0, 1, 0, 0), I("LBU", 0, 2, 0, 4), I("LB", 0, 2, 0, 7), I("LH", 0, 0, 0, 2),
     I("ADDU", 1, 2, 1, 0), I("ADDIU", 2, 0, 0, 1), I("SW", 0, 1, 0, 4), I("SB", 0, 2, 0, 1),
     I("BLTZAL", 1, 0, 0, 2), I("BNE", 1, 2, 0, 1), I("JAL", 0, 0, 0, 3), I("JR", R31, 0, 0, 0),
     I("MULT", 1, 2, 0, 0), I("MFHI", 0, 0, 2, 0), I("MTLO", 2, 0, 0, 0)},
  Operands <- {1, 254}, MaxSteps <- 4,
  loaded <- execLoaded, steps <- execSteps

(* Sections that may be empty, with and without gaps *)
Linker == INSTANCE Coff2Noff WITH
  Sizes <- {0, 2}, Gaps <- {0, 1}, Orphans <- {".lit8"}, i <- nextSection

-----------------------------------------------------------------------------
(* rs, rt and rd are three registers; a load into register 4 is pending. *)
InstructionInit ==
  /\ instr \in Instructions
  /\ \E a \in Operands, b \in Operands :
       before = [r |-> [x \in 0..R31 |-> CASE x = 1 -> a [] x = 2 -> b [] OTHER -> 0],
                 hi |-> 1, lo |-> 2, ppc |-> 0, pc |-> 4, npc |-> 8, lreg |-> 4, lval |-> 5,
                 badVAddr |-> 0, mem |-> [x \in 0..(MemorySize - 1) |-> (x * x + 1) % 2^ByteBits]]
  /\ after = before

(* ASSERT and a trap of the host end Nachos. *)
Instruction ==
  /\ after = before
  /\ ~AssertFails(instr, before)
  /\ ~HostTraps(instr.op, before.r[1], before.r[2])
  /\ after' = OneInstruction(instr, before)
  /\ UNCHANGED <<instr, before>>

-----------------------------------------------------------------------------
Executed == after # before
Faulted == after.pc = before.pc
A == before.r[1]
B == before.r[2]
X == instr.extra

Bit(x, k) == (x \div 2^k) % 2
Representable(n) == -(2^(WordBits - 1)) <= n /\ n < 2^(WordBits - 1)

(* The sum or difference that ADD, ADDI and SUB are about *)
Exact ==
  CASE instr.op = "ADD" -> Signed(A) + Signed(B)
    [] instr.op = "ADDI" -> Signed(A) + Signed(X)
    [] instr.op = "SUB" -> Signed(A) - Signed(B)

(* ADD, ADDI and SUB raise OverflowException exactly when the exact result is
   not a word, and otherwise compute it: the tests on the sign bits of
   mipssim.cc 127, 136 and 459 are equivalent to that.                     *)
OverflowIsExact ==
  Executed /\ instr.op \in {"ADD", "ADDI", "SUB"} =>
    /\ Faulted <=> ~Representable(Exact)
    /\ ~Faulted => Signed(after.r[IF instr.op = "ADDI" THEN 2 ELSE 3]) = Exact

(* Multiplication by shifting and adding (mipssim.cc 635-692) gives the exact
   double-length product, signed and unsigned, also of the smallest integer,
   and division gives quotient and remainder of the same sign rules.       *)
ProductAndQuotientExact ==
  Executed =>
    /\ instr.op = "MULT" =>
         Signed(after.hi) * 2^WordBits + after.lo = Signed(A) * Signed(B)
    /\ instr.op = "MULTU" => after.hi * 2^WordBits + after.lo = A * B
    /\ instr.op = "DIV" /\ B # 0 =>
         LET q == Signed(after.lo)
             r == Signed(after.hi)
         IN /\ Signed(A) = q * Signed(B) + r
            /\ r * r < Signed(B) * Signed(B)
            /\ r = 0 \/ (r < 0) = (Signed(A) < 0)
    /\ instr.op = "DIVU" /\ B # 0 => A = after.lo * B + after.hi /\ after.hi < B

(* The logical instructions work bit by bit, the shifts and comparisons are
   those of integers.  OR and the logical right shifts are left out: they
   compute something else (mipssim.cc 375-379, 445-454).                      *)
LogicMatchesReference ==
  Executed =>
    LET d == after.r[3]
        t == after.r[2]
        n == X % WordBits
        low(k) == IF k < 2 * ByteBits THEN Bit(X, k) ELSE 0
    IN \A k \in 0..(WordBits - 1) :
         /\ instr.op = "AND" => Bit(d, k) = Bit(A, k) * Bit(B, k)
         /\ instr.op = "XOR" => Bit(d, k) = (Bit(A, k) + Bit(B, k)) % 2
         /\ instr.op = "NOR" => Bit(d, k) = (1 - Bit(A, k)) * (1 - Bit(B, k))
         /\ instr.op = "ANDI" => Bit(t, k) = Bit(A, k) * low(k)
         /\ instr.op = "XORI" => Bit(t, k) = (Bit(A, k) + low(k)) % 2
         /\ instr.op = "ORI" => Bit(t, k) = Bit(A, k) + low(k) - Bit(A, k) * low(k)
         /\ instr.op = "SLL" => Bit(d, k) = IF k < n THEN 0 ELSE Bit(B, k - n)
         /\ instr.op = "SRA" =>
              Bit(d, k) = Bit(B, IF k + n < WordBits THEN k + n ELSE WordBits - 1)
         /\ instr.op = "SLT" => (d = 1) = (Signed(A) < Signed(B))
         /\ instr.op = "SLTU" => (d = 1) = (A < B)

(* "This allows us to re-start the instruction execution from the beginning"
   (mipssim.cc 76): an instruction that raises an exception has changed
   nothing but applied the load that was pending.                          *)
FaultsAreRestartable ==
  Executed /\ Faulted =>
    after = [before EXCEPT !.r[4] = 5, !.lreg = 0, !.lval = 0, !.badVAddr = after.badVAddr]

-----------------------------------------------------------------------------
Reset ==
  [r |-> [x \in 0..R31 |-> 0], hi |-> 0, lo |-> 0, ppc |-> 0, pc |-> 0, npc |-> 4,
   lreg |-> 0, lval |-> 0, badVAddr |-> 0, mem |-> Memory]

DelayInit == quiet = Reset /\ trapped = Reset /\ loaded = 0 /\ steps = 0

(* The registers an instruction reads and writes before the end of
   OneInstruction; LWL and LWR take the pending value of rt into account.  *)
Uses(i) ==
  CASE i.op \in ThreeRegister \cup Shifts -> {i.rs, i.rt, i.rd}
    [] i.op \in Immediate \cup Branches \cup Stores -> {i.rs, i.rt}
    [] i.op \in Loads -> {i.rs}
    [] OTHER -> {}

(* Compilers keep the target of a load out of the next instruction, except
   that a further load, which takes effect later, may have the same target. *)
RespectsDelay(i) == loaded = 0 \/ loaded \notin Uses(i)

(* Machine::OneInstruction on both *)
RunBoth(i) ==
  /\ steps < MaxSteps /\ steps' = steps + 1
  /\ RespectsDelay(i)
  /\ ~AssertFails(i, quiet) /\ ~AssertFails(i, trapped)
  /\ quiet' = OneInstruction(i, quiet)
  /\ trapped' = OneInstruction(i, trapped)
  /\ loaded' = IF i.op \in Loads THEN i.rt ELSE 0

(* An interrupt, or the timer and a context switch. *)
Trap ==
  /\ trapped' = DelayedLoad(trapped, 0, 0)
  /\ UNCHANGED <<quiet, loaded, steps>>

DelayNext == (\E i \in Program : RunBoth(i)) \/ Trap

-----------------------------------------------------------------------------
(* "any delayed load must get applied before we trap to the kernel"
   (mipssim.cc 571): a program that leaves the target of a load alone for one
   instruction computes the same whether or not it is interrupted between a
   load and its use, also through LWL, LWR and faulting instructions.      *)
InterruptsAreInvisible == DelayedLoad(quiet, 0, 0) = DelayedLoad(trapped, 0, 0)

(* "always make sure R0 stays zero" (mipssim.cc 581), whatever is loaded into
   or computed for it.                                                     *)
R0StaysZero == quiet.r[0] = 0 /\ trapped.r[0] = 0

-----------------------------------------------------------------------------
Only(p) ==
  /\ part = p /\ UNCHANGED part
  /\ IF p = "instruction" THEN TRUE ELSE UNCHANGED instructionVars
  /\ IF p = "delay" THEN TRUE ELSE UNCHANGED delayVars
  /\ IF p = "listing" THEN TRUE ELSE UNCHANGED decodeVars
  /\ IF p \in {"every", "short"} THEN TRUE ELSE UNCHANGED execVars
  /\ IF p = "kernel" THEN TRUE ELSE UNCHANGED kernelVars
  /\ IF p = "linker" THEN TRUE ELSE UNCHANGED coffVars

MCInit ==
  /\ part \in {"instruction", "delay", "listing", "every", "short", "kernel", "linker"}
  /\ \/ part = "instruction" /\ InstructionInit
     \/ part # "instruction" /\ instr = <<>> /\ before = <<>> /\ after = <<>>
  /\ DelayInit
  /\ \/ part = "listing" /\ Listing!Init
     \/ part # "listing" /\ word = <<>> /\ decoded = <<>> /\ listed = <<>>
  /\ \/ part = "every" /\ Every!Init
     \/ part = "short" /\ Short!Init
     \/ /\ part \notin {"every", "short"}
        /\ exec = <<>> /\ sim = <<>> /\ execLoaded = 0 /\ execSteps = 0
  /\ KernelInit
  /\ \/ part = "linker" /\ Linker!Init
     \/ /\ part # "linker"
        /\ sections = <<>> /\ coff = <<>> /\ magicOk = TRUE /\ writable = TRUE
        /\ nextSection = 1 /\ noffH = <<>> /\ inNoffFile = 0 /\ noff = <<>> /\ status = "start"

MCNext ==
  \/ Only("instruction") /\ Instruction
  \/ Only("delay") /\ DelayNext
  \/ Only("listing") /\ Listing!Next
  \/ Only("every") /\ Every!Next
  \/ Only("short") /\ Short!Next
  \/ Only("kernel") /\ KernelNext
  \/ Only("linker") /\ Linker!Next

MCSpec == MCInit /\ [][MCNext]_allVars

-----------------------------------------------------------------------------
(* Overflow traps exactly when the exact sum is not a word, products and
   quotients are exact, signed and unsigned, and logic, shifts and comparisons
   are those of bits and integers (mipssim.cc 124-520, 635-692).           *)
InstructionsExact ==
  part = "instruction" => OverflowIsExact /\ ProductAndQuotientExact /\ LogicMatchesReference

(* Interrupts between a load and its use do not change what a program
   computes, nothing is ever left in R0, and an instruction that faults can be
   started again (mipssim.cc 76, 571-581).                                 *)
TrapsAreInvisible ==
  /\ part = "delay" => InterruptsAreInvisible /\ R0StaysZero
  /\ part = "instruction" => FaultsAreRestartable

(* The simulator, the object file tools and the disassembler give a word the
   same meaning: instruction, registers, signed constant and target
   (mipssim.cc 590-630, bin/d.c).                                          *)
ListingAgrees ==
  part = "listing" =>
    /\ Listing!DecodesAsEncoded /\ Listing!ImmediateIsSigned
    /\ Listing!ListingNamesInstruction /\ Listing!ListingNamesRegisters
    /\ Listing!ListingShowsTarget

(* Every instruction, and programs with links, branches and delayed loads, do
   the same in bin/execute.c and in machine/mipssim.cc.                    *)
InterpretersAgree ==
  /\ part = "every" => Every!InterpretersAgree
  /\ part = "short" => Short!InterpretersAgree

(* The memory of a program that AddrSpace loads is what the linker has placed
   there, and a conversion that fails leaves no file behind
   (bin/coff2noff.c 150-250).                                              *)
LoadsWhatWasLinked ==
  part = "linker" => Linker!LoadsWhatWasLinked /\ Linker!NoPartialResult
=============================================================================
