----------------------------- MODULE MipsDecode -----------------------------
(***************************************************************************)
(* Instruction::Decode of machine/mipssim.cc with the tables of            *)
(* machine/mipssim.h, on instruction words given by their bit fields, the  *)
(* encoding that bin/encode.h defines, and the disassembler (bin/d.c with  *)
(* the names of bin/opstrings.c).  Names are in capitals here, and the     *)
(* octal numbers that stand for opcodes without a name are "RES".          *)
(***************************************************************************)
EXTENDS Integers, Sequences

CONSTANTS
  Words,  \* the instruction words that are tried
  pc      \* address of the instruction

VARIABLES
  word,    \* the instruction word
  decoded, \* the Instruction, or None before Decode
  listed   \* what dump_ascii has printed: name, operands and target

None == [opCode |-> "", extra |-> 0]
NotListed == [name |-> "", args |-> <<>>, target |-> 0]

Times(n, x) == [k \in 1..n |-> x]

(* opTable, by bits 31:26 *)
opTable ==
  <<"SPECIAL", "BCOND", "J", "JAL", "BEQ", "BNE", "BLEZ", "BGTZ", "ADDI", "ADDIU", "SLTI", "SLTIU",
    "ANDI", "ORI", "XORI", "LUI">>
  \o Times(4, "UNIMP") \o Times(12, "RES")
  \o <<"LB", "LH", "LWL", "LW", "LBU", "LHU", "LWR", "RES", "SB", "SH", "SWL", "SW", "RES", "RES", "SWR", "RES">>
  \o Times(4, "UNIMP") \o Times(4, "RES") \o Times(4, "UNIMP") \o Times(4, "RES")

(* Mutant of specialTable: one reserved entry is missing. *)
specialTableShort ==
  <<"SLL", "RES", "SRL", "SRA", "SLLV", "SRLV", "SRAV", "JR", "JALR", "RES", "RES", "SYSCALL", "UNIMP">>
  \o Times(2, "RES") \o <<"MFHI", "MTHI", "MFLO", "MTLO">> \o Times(4, "RES")
  \o <<"MULT", "MULTU", "DIV", "DIVU">> \o Times(4, "RES")
  \o <<"ADD", "ADDU", "SUB", "SUBU", "AND", "OR", "XOR", "NOR", "RES", "RES", "SLT", "SLTU">>
  \o Times(21, "RES")

(* specialTable, by the funct field *)
specialTable ==
  <<"SLL", "RES", "SRL", "SRA", "SLLV", "RES", "SRLV", "SRAV", "JR", "JALR", "RES", "RES", "SYSCALL", "UNIMP">>
  \o Times(2, "RES") \o <<"MFHI", "MTHI", "MFLO", "MTLO">> \o Times(4, "RES")
  \o <<"MULT", "MULTU", "DIV", "DIVU">> \o Times(4, "RES")
  \o <<"ADD", "ADDU", "SUB", "SUBU", "AND", "OR", "XOR", "NOR", "RES", "RES", "SLT", "SLTU">>
  \o Times(20, "RES")

Immediate16(w) == w.rd * 2^11 + w.shamt * 2^6 + w.funct

(* Mutant of Decode: the immediate operand is not sign extended. *)
DecodeUnsigned(w) ==
  LET opCode == opTable[w.top + 1]
      imm == Immediate16(w)
  IN [opCode |->
        CASE opCode = "SPECIAL" -> specialTable[w.funct + 1]
          [] opCode = "BCOND" /\ w.rt = 0 -> "BLTZ"
          [] opCode = "BCOND" /\ w.rt = 1 -> "BGEZ"
          [] opCode = "BCOND" /\ w.rt = 16 -> "BLTZAL"
          [] opCode = "BCOND" /\ w.rt = 17 -> "BGEZAL"
          [] opCode = "BCOND" /\ w.rt \notin {0, 1, 16, 17} -> "UNIMP"
          [] OTHER -> opCode,
      extra |->
        CASE opCode = "SPECIAL" -> w.shamt
          [] opCode \in {"J", "JAL"} -> w.rs * 2^21 + w.rt * 2^16 + imm
          [] OTHER -> imm]

(* Instruction::Decode *)
Decode(w) ==
  LET opCode == opTable[w.top + 1]
      imm == Immediate16(w)
  IN [opCode |->
        CASE opCode = "SPECIAL" -> specialTable[w.funct + 1]
          [] opCode = "BCOND" /\ w.rt = 0 -> "BLTZ"
          [] opCode = "BCOND" /\ w.rt = 1 -> "BGEZ"
          [] opCode = "BCOND" /\ w.rt = 16 -> "BLTZAL"
          [] opCode = "BCOND" /\ w.rt = 17 -> "BGEZAL"
          [] opCode = "BCOND" /\ w.rt \notin {0, 1, 16, 17} -> "UNIMP"
          [] OTHER -> opCode,
      extra |->
        CASE opCode = "SPECIAL" -> w.shamt
          [] opCode \in {"J", "JAL"} -> w.rs * 2^21 + w.rt * 2^16 + imm
          [] OTHER -> IF imm >= 2^15 THEN imm - 2^16 ELSE imm]

-----------------------------------------------------------------------------
(* The opcodes of bin/encode.h: the numbers there are octal. *)
Normal ==
  [J |-> 2, JAL |-> 3, BEQ |-> 4, BNE |-> 5, BLEZ |-> 6, BGTZ |-> 7, ADDI |-> 8, ADDIU |-> 9,
   SLTI |-> 10, SLTIU |-> 11, ANDI |-> 12, ORI |-> 13, XORI |-> 14, LUI |-> 15, LB |-> 32, LH |-> 33,
   LWL |-> 34, LW |-> 35, LBU |-> 36, LHU |-> 37, LWR |-> 38, SB |-> 40, SH |-> 41, SWL |-> 42,
   SW |-> 43, SWR |-> 46]
Special ==
  [SLL |-> 0, SRL |-> 2, SRA |-> 3, SLLV |-> 4, SRLV |-> 6, SRAV |-> 7, JR |-> 8, JALR |-> 9,
   SYSCALL |-> 12, MFHI |-> 16, MTHI |-> 17, MFLO |-> 18, MTLO |-> 19, MULT |-> 24, MULTU |-> 25,
   DIV |-> 26, DIVU |-> 27, ADD |-> 32, ADDU |-> 33, SUB |-> 34, SUBU |-> 35, AND |-> 36, OR |-> 37,
   XOR |-> 38, NOR |-> 39, SLT |-> 42, SLTU |-> 43]
Bcond == [BLTZ |-> 0, BGEZ |-> 1, BLTZAL |-> 16, BGEZAL |-> 17]

(* The words that bin/encode.h encodes as the instruction op *)
Encodes(op, w) ==
  \/ op \in DOMAIN Normal /\ w.top = Normal[op]
  \/ op \in DOMAIN Special /\ w.top = 0 /\ w.funct = Special[op]
  \/ op \in DOMAIN Bcond /\ w.top = 1 /\ w.rt = Bcond[op]

-----------------------------------------------------------------------------
(* Mutant of normalops: the name of a reserved opcode is missing. *)
normalopsShort ==
  <<"SPECIAL", "BCOND", "J", "JAL", "BEQ", "BNE", "BLEZ", "BGTZ", "ADDI", "ADDIU", "SLTI", "SLTIU",
    "ANDI", "ORI", "XORI", "LUI", "COP0", "COP1", "COP2", "COP3">>
  \o Times(11, "RES")
  \o <<"LB", "LH", "LWL", "LW", "LBU", "LHU", "LWR", "RES", "SB", "SH", "SWL", "SW", "RES", "RES", "SWR", "RES",
       "LWC0", "LWC1", "LWC2", "LWC3">> \o Times(4, "RES")
  \o <<"SWC0", "SWC1", "SWC2", "SWC3">> \o Times(5, "RES")

(* normalops, by the opcode *)
normalops ==
  <<"SPECIAL", "BCOND", "J", "JAL", "BEQ", "BNE", "BLEZ", "BGTZ", "ADDI", "ADDIU", "SLTI", "SLTIU",
    "ANDI", "ORI", "XORI", "LUI", "COP0", "COP1", "COP2", "COP3">>
  \o Times(12, "RES")
  \o <<"LB", "LH", "LWL", "LW", "LBU", "LHU", "LWR", "RES", "SB", "SH", "SWL", "SW", "RES", "RES", "SWR", "RES",
       "LWC0", "LWC1", "LWC2", "LWC3">> \o Times(4, "RES")
  \o <<"SWC0", "SWC1", "SWC2", "SWC3">> \o Times(4, "RES")

(* specialops, by the funct field *)
specialops ==
  <<"SLL", "RES", "SRL", "SRA", "SLLV", "RES", "SRLV", "SRAV", "JR", "JALR", "RES", "RES", "SYSCALL", "BREAK">>
  \o Times(2, "RES") \o <<"MFHI", "MTHI", "MFLO", "MTLO">> \o Times(4, "RES")
  \o <<"MULT", "MULTU", "DIV", "DIVU">> \o Times(4, "RES")
  \o <<"ADD", "ADDU", "SUB", "SUBU", "AND", "OR", "XOR", "NOR", "RES", "RES", "SLT", "SLTU">>
  \o Times(20, "RES")

(* The opcodes of encode.h that have one of the names *)
Codes(table, names) == {table[n] : n \in names}

(* Mutant of SpecialArgs: the variable shifts are listed as constant ones. *)
SpecialArgsShift(funct) ==
  CASE funct \in Codes(Special, {"SLL", "SRL", "SRA", "SLLV", "SRLV", "SRAV"}) -> <<"RD", "RT", "SHAMT">>
    [] funct \in Codes(Special, {"JR", "JALR", "MFLO", "MTLO"}) -> <<"RS">>
    [] funct \in Codes(Special, {"MFHI", "MTHI"}) -> <<"RD">>
    [] funct \in Codes(Special, {"MULT", "MULTU", "DIV", "DIVU"}) -> <<"RS", "RT">>
    [] funct \in Codes(Special, {"ADD", "ADDU", "SUB", "SUBU", "AND", "OR", "XOR", "NOR", "SLT", "SLTU"}) ->
         <<"RD", "RS", "RT">>
    [] OTHER -> <<>>

(* The operands that the first switch of dump_ascii prints *)
SpecialArgs(funct) ==
  CASE funct \in Codes(Special, {"SLL", "SRL", "SRA"}) -> <<"RD", "RT", "SHAMT">>
    [] funct \in Codes(Special, {"SLLV", "SRLV", "SRAV"}) -> <<"RD", "RT", "RS">>
    [] funct \in Codes(Special, {"JR", "JALR", "MFLO", "MTLO"}) -> <<"RS">>
    [] funct \in Codes(Special, {"MFHI", "MTHI"}) -> <<"RD">>
    [] funct \in Codes(Special, {"MULT", "MULTU", "DIV", "DIVU"}) -> <<"RS", "RT">>
    [] funct \in Codes(Special, {"ADD", "ADDU", "SUB", "SUBU", "AND", "OR", "XOR", "NOR", "SLT", "SLTU"}) ->
         <<"RD", "RS", "RT">>
    [] OTHER -> <<>>

(* The operands that the last switch prints; LWC0 to LWC3 and SWC0 to SWC3 are
   the opcodes 48..51 and 56..59.                                          *)
NormalArgs(top) ==
  CASE top \in Codes(Normal, {"J", "JAL"}) -> <<"TARGET">>
    [] top \in Codes(Normal, {"BEQ", "BNE"}) -> <<"RT", "RS", "TARGET">>
    [] top \in Codes(Normal, {"ADDI", "ADDIU", "SLTI", "SLTIU", "ANDI", "ORI", "XORI"}) -> <<"RT", "RS", "IMM">>
    [] top = Normal["LUI"] -> <<"RT", "IMM">>
    [] top \in Codes(Normal, {"LB", "LH", "LWL", "LW", "LBU", "LHU", "LWR", "SB", "SH", "SWL", "SW", "SWR"})
                 \cup (48..51) \cup (56..59) -> <<"RT", "IMM", "RS">>
    [] OTHER -> <<>>

(* The name of a BCOND instruction *)
BcondName(rt) ==
  IF \E op \in DOMAIN Bcond : Bcond[op] = rt THEN CHOOSE op \in DOMAIN Bcond : Bcond[op] = rt ELSE "BCOND"

immed(w) == LET i == Immediate16(w) IN IF i >= 2^15 THEN i - 2^16 ELSE i

(* Mutant of Off: a branch counts from the instruction. *)
OffShort(w) ==
  IF w.top \in {2, 3} THEN (w.rs * 2^21 + w.rt * 2^16 + Immediate16(w)) * 4 ELSE immed(w) * 4 + pc

(* top4(pc) is 0: the program is in the lowest region. *)
Off(w) ==
  IF w.top \in {2, 3} THEN (w.rs * 2^21 + w.rt * 2^16 + Immediate16(w)) * 4 ELSE immed(w) * 4 + pc + 4

(* dump_ascii *)
dump_ascii(w) ==
  [name |-> CASE \A f \in DOMAIN w : w[f] = 0 -> "NOP"
              [] w.top = 0 /\ \E f \in DOMAIN w : w[f] # 0 -> specialops[w.funct + 1]
              [] w.top = 1 -> BcondName(w.rt)
              [] w.top > 1 -> normalops[w.top + 1],
   args |-> CASE \A f \in DOMAIN w : w[f] = 0 -> <<>>
              [] w.top = 0 /\ \E f \in DOMAIN w : w[f] # 0 -> SpecialArgs(w.funct)
              [] w.top = 1 -> <<"RS", "TARGET">>
              [] w.top > 1 -> NormalArgs(w.top),
   target |-> Off(w)]

(* opStrings: the operands that the trace of OneInstruction prints *)
opStrings(op) ==
  CASE op \in {"ADD", "ADDU", "AND", "NOR", "OR", "SLT", "SLTU", "SUB", "SUBU", "XOR"} -> <<"RD", "RS", "RT">>
    [] op \in {"ADDI", "ADDIU", "ANDI", "ORI", "SLTI", "SLTIU", "XORI"} -> <<"RT", "RS", "EXTRA">>
    [] op \in {"BEQ", "BNE"} -> <<"RS", "RT", "EXTRA">>
    [] op \in {"BGEZ", "BGEZAL", "BGTZ", "BLEZ", "BLTZ", "BLTZAL"} -> <<"RS", "EXTRA">>
    [] op \in {"DIV", "DIVU", "MULT", "MULTU"} -> <<"RS", "RT">>
    [] op \in {"J", "JAL"} -> <<"EXTRA">>
    [] op \in {"JALR", "JR"} -> <<"RD", "RS">>
    [] op \in {"LB", "LBU", "LH", "LHU", "LW", "LWL", "LWR", "SB", "SH", "SW", "SWL", "SWR"} ->
         <<"RT", "EXTRA", "RS">>
    [] op = "LUI" -> <<"RT", "EXTRA">>
    [] op \in {"MFHI", "MFLO"} -> <<"RD">>
    [] op \in {"MTHI", "MTLO"} -> <<"RS">>
    [] op \in {"SLL", "SRA", "SRL"} -> <<"RD", "RT", "EXTRA">>
    [] op \in {"SLLV", "SRAV", "SRLV"} -> <<"RD", "RT", "RS">>
    [] op \in {"SYSCALL", "UNIMP", "RES"} -> <<>>

(* Where a jump or branch outside a delay slot goes in the simulator *)
SimTarget(d) == IF d.opCode \in {"J", "JAL"} THEN d.extra * 4 ELSE pc + 4 + d.extra * 4

Init == word \in Words /\ decoded = None /\ listed = NotListed

Next ==
  \/ decoded = None /\ decoded' = Decode(word) /\ UNCHANGED <<word, listed>>
  \/ /\ decoded # None /\ listed = NotListed
     /\ listed' = dump_ascii(word)
     /\ UNCHANGED <<word, decoded>>

-----------------------------------------------------------------------------
(* The simulator's two tables decode every word to the instruction that the
   object file tools of bin/ take it for, and the words they do not know to an
   illegal instruction.                                                    *)
DecodesAsEncoded ==
  decoded # None =>
    IF \E op \in DOMAIN Normal \cup DOMAIN Special \cup DOMAIN Bcond : Encodes(op, word)
    THEN Encodes(decoded.opCode, word)
    ELSE decoded.opCode \in {"RES", "UNIMP"}

(* A displacement or constant means the same number to the simulator as to the
   assembler, at the sign change of 16 bits too.                           *)
ImmediateIsSigned ==
  decoded # None /\ word.top \notin {0, 2, 3} =>
    /\ decoded.extra \in -(2^15)..(2^15 - 1)
    /\ (decoded.extra - Immediate16(word)) % 2^16 = 0

Done == listed # NotListed
Illegal == decoded.opCode \in {"RES", "UNIMP"}
Registers(args) == {args[k] : k \in 1..Len(args)} \cap {"RD", "RS", "RT"}
Targets == {"J", "JAL", "BEQ", "BNE", "BGEZ", "BGEZAL", "BLTZ", "BLTZAL"}

(* A listing gives every word the name of the instruction that the simulator
   executes for it, and no such name to the words it does not execute: the two
   pairs of tables agree entry by entry.                                   *)
ListingNamesInstruction ==
  Done /\ listed.name # "NOP" =>
    IF Illegal
    THEN listed.name \notin DOMAIN Normal \cup DOMAIN Special \cup DOMAIN Bcond
    ELSE listed.name = decoded.opCode

(* The listing and the trace of the simulator name the same registers, except
   for MFLO, MTHI, BLEZ and BGTZ, which the listing gets wrong (d.c 74-87, 145),
   and JR and JALR, where rd is only in the trace.                         *)
ListingNamesRegisters ==
  Done /\ ~Illegal /\ listed.name # "NOP"
    /\ decoded.opCode \notin {"MFLO", "MTHI", "BLEZ", "BGTZ", "JR", "JALR"} =>
    Registers(listed.args) = Registers(opStrings(decoded.opCode))

(* The address in a listing is where the simulator goes, at the sign change of
   the displacement too.                                                   *)
ListingShowsTarget ==
  Done /\ decoded.opCode \in Targets =>
    /\ \E k \in 1..Len(listed.args) : listed.args[k] = "TARGET"
    /\ listed.target = SimTarget(decoded)
=============================================================================
