------------------------ MODULE ArithmeticLogicUnit -------------------------
(***************************************************************************)
(* ArithmeticLogicUnit.v: combinational.  The result and the next pc of    *)
(* the operation the reservation station issued in the last cycle.         *)
(***************************************************************************)
EXTENDS Words

\* An amount of XLEN or more shifts everything out: Verilog does not mask it.
ShiftLeft(a, n)  == IF n >= XLEN THEN 0 ELSE (a * 2^n) % 2^XLEN
ShiftRight(a, n) == IF n >= XLEN THEN 0 ELSE a \div 2^n

\* rs_shamt_in: the low bits of the immediate (5 of them in a 32-bit word).
Shamt(imm) == imm % XLEN

\* Mutant of BranchTaken: BLTU and BGEU compare signed.
BranchTakenSigned(op, a, b) ==
  CASE op = "BEQ"              -> a = b
    [] op = "BNE"              -> a # b
    [] op \in {"BLT", "BLTU"} -> Signed(a) < Signed(b)
    [] op \in {"BGE", "BGEU"} -> Signed(a) >= Signed(b)

BranchTaken(op, a, b) ==
  CASE op = "BEQ"  -> a = b
    [] op = "BNE"  -> a # b
    [] op = "BLT"  -> Signed(a) < Signed(b)
    [] op = "BGE"  -> Signed(a) >= Signed(b)
    [] op = "BLTU" -> a < b
    [] op = "BGEU" -> a >= b

\* result_out.  ">>>" of an unsigned operand is a logical shift.
AluResult(op, a, b, imm, pc) ==
  CASE op = "LUI"              -> imm
    [] op = "AUIPC"            -> Add(pc, imm)
    [] op \in {"JAL", "JALR"}  -> Add(pc, INST_BYTES)
    [] op \in BranchOps        -> Flag(BranchTaken(op, a, b))
    [] op = "ADDI"             -> Add(a, imm)
    [] op = "SLTI"             -> Flag(Signed(a) < Signed(imm))
    [] op = "SLTIU"            -> Flag(a < imm)
    [] op = "XORI"             -> FromBits(SymDiff(Bits(a), Bits(imm)))
    [] op = "ORI"              -> FromBits(Bits(a) \cup Bits(imm))
    [] op = "ANDI"             -> FromBits(Bits(a) \cap Bits(imm))
    [] op = "SLLI"             -> ShiftLeft(a, Shamt(imm))
    [] op \in {"SRLI", "SRAI"} -> ShiftRight(a, Shamt(imm))
    [] op = "ADD"              -> Add(a, b)
    [] op = "SUB"              -> Sub(a, b)
    [] op = "SLL"              -> ShiftLeft(a, b)
    [] op \in {"SRL", "SRA"}   -> ShiftRight(a, b)
    [] op = "SLT"              -> Flag(Signed(a) < Signed(b))
    [] op = "SLTU"             -> Flag(a < b)
    [] op = "XOR"              -> FromBits(SymDiff(Bits(a), Bits(b)))
    [] op = "OR"               -> FromBits(Bits(a) \cup Bits(b))
    [] op = "AND"              -> FromBits(Bits(a) \cap Bits(b))
    [] OTHER                   -> 0

\* rob_new_pc_out.  The JALR target keeps its low bit (it is masked with -1).
AluNewPc(op, a, b, imm, pc) ==
  CASE op = "AUIPC"     -> Add(pc, imm)
    [] op = "JALR"      -> Add(a, imm)
    [] op \in BranchOps -> IF BranchTaken(op, a, b) THEN Add(pc, imm)
                                                    ELSE Add(pc, INST_BYTES)
    [] OTHER            -> pc

(***************************************************************************)
(* The broadcast driven by calc, the operation register the reservation    *)
(* station feeds.                                                          *)
(***************************************************************************)
AluBroadcast(calc) ==
  [signal   |-> calc.calculate,
   dest_tag |-> calc.dest,
   result   |-> AluResult(calc.op, calc.rs1val, calc.rs2val, calc.imm, calc.pc),
   new_pc   |-> AluNewPc(calc.op, calc.rs1val, calc.rs2val, calc.imm, calc.pc)]
=============================================================================
