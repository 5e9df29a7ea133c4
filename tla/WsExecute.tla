------------------------------ MODULE WsExecute ------------------------------
(***************************************************************************)
(* tools/ws_cpu/CPU.cpp: which operation the issue stage chooses for an    *)
(* instruction, named as its comments do, and what Execute makes of it.    *)
(***************************************************************************)
EXTENDS Words

ArithmeticOp == [ADD |-> "+", ADDI |-> "+", SUB |-> "-"]
UpperOp      == [LUI |-> "+", AUIPC |-> "+"]
LogicOp      == [XOR |-> "^", XORI |-> "^", OR |-> "|", ORI |-> "|", AND |-> "&",
                 ANDI |-> "&"]
ShiftOp      == [SLL |-> "<<", SLLI |-> "<<", SRL |-> ">>", SRLI |-> ">>",
                 SRA |-> ">> tianchong", SRAI |-> ">> tianchong"]
CompareOp    == [SLT |-> "<", SLTI |-> "<", SLTU |-> "unsigned <", SLTIU |-> "unsigned <"]
BranchOp     == [BEQ |-> "== pc+", BNE |-> "!= pc+", BLT |-> "< pc+", BGE |-> ">= pc+",
                 BLTU |-> "unsigned < pc+", BGEU |-> "unsigned >= pc+"]

Amount(j) == j % XLEN

(***************************************************************************)
(* The loop that fills in the sign starts at bit 31 and counts up, so it   *)
(* ends only when the index overflows.  The shift counts past 31 are       *)
(* undefined in C++; the processors this is built for take them modulo 32, *)
(* and every bit is set in the end.                                        *)
(***************************************************************************)
ShiftFilling(i, j) ==
  IF Signed(i) < 0 /\ Amount(j) # 0 THEN 2^XLEN - 1 ELSE i \div 2^Amount(j)

EX_to_ROB_of(op, i, j) ==
  CASE op = "+"  -> Add(i, j)
    [] op = "-"  -> Sub(i, j)
    [] op = "^"  -> FromBits(SymDiff(Bits(i), Bits(j)))
    [] op = "|"  -> FromBits(Bits(i) \cup Bits(j))
    [] op = "&"  -> FromBits(Bits(i) \cap Bits(j))
    [] op = "<<" -> (i * 2^Amount(j)) % 2^XLEN
    [] op = ">>" -> i \div 2^Amount(j)
    [] op = ">> tianchong"                     -> ShiftFilling(i, j)
    [] op \in {"<", "< pc+"}                   -> Flag(Signed(i) < Signed(j))
    [] op \in {"unsigned <", "unsigned < pc+"} -> Flag(i < j)
    [] op = "== pc+"          -> Flag(i = j)
    [] op = "!= pc+"          -> Flag(i # j)
    [] op = ">= pc+"          -> Flag(Signed(i) >= Signed(j))
    [] op = "unsigned >= pc+" -> Flag(i >= j)
=============================================================================
