------------------------------ MODULE AluProofs -----------------------------
(***************************************************************************)
(* The ALU computes what the sequential simulator does, for words of every *)
(* size: TLC checks AluComputesIsa for words of four bits.                 *)
(***************************************************************************)
EXTENDS AluCheck, WordProofs

\* What the simulator has its own names for.
LEMMA IsaNames ==
  /\ \A a, b : Simulator!Add(a, b) = Add(a, b) /\ Simulator!Sub(a, b) = Sub(a, b)
  /\ \A a : Simulator!Signed(a) = Signed(a) /\ Simulator!Flag(a) = Flag(a) /\ Simulator!Bits(a) = Bits(a)
  /\ \A S : Simulator!FromBits(S) = FromBits(S)
  /\ \A S, T : Simulator!SymDiff(S, T) = SymDiff(S, T)
  /\ Simulator!BranchOps = BranchOps
<1>1. \A S : Simulator!FromBits(S) = FromBits(S)
  BY DEF Simulator!FromBits, FromBits, Simulator!Sums, Sums
<1>2. \A S, T : Simulator!SymDiff(S, T) = SymDiff(S, T)
  BY DEF Simulator!SymDiff, SymDiff
<1>3. \A a : Simulator!Bits(a) = Bits(a)
  BY DEF Simulator!Bits, Bits
<1> QED BY <1>1, <1>2, <1>3
        DEF Simulator!Add, Add, Simulator!Sub, Sub, Simulator!Flag, Flag, Simulator!Signed, Signed,
            Simulator!BranchOps, BranchOps

\* The simulator's branch target, which it counts from the next instruction, is
\* the one counted from the branch.
LEMMA Target ==
  ASSUME NEW pc \in Int, NEW imm \in Word
  PROVE  Sub(Add(Add(pc, INST_BYTES), imm), INST_BYTES) = Add(pc, imm)
<1> DEFINE m == 2^XLEN
<1>1. m \in Nat /\ m >= 1
  BY Powers
<1>2. INST_BYTES \in Int /\ imm \in Int
  BY WordAssumption, WordArithmetic DEF WordAssumption
<1> HIDE DEF m
<1>3. PICK x, y, z, c \in Int : /\ x = pc + INST_BYTES /\ y = pc + INST_BYTES + imm
                               /\ z = pc + imm /\ c = 0 - INST_BYTES
  BY <1>2
<1>4. ((x % m) + imm) % m = (x + imm) % m
  BY <1>1, <1>2, RemainderAdds
<1>5. x + imm = y
  BY <1>2, <1>3
<1>6. ((y % m) + c) % m = (y + c) % m
  BY <1>1, RemainderAdds
<1>7. y + c = z /\ (y % m) + c = (y % m) - INST_BYTES
  <2>1. y % m \in 0 .. m - 1
    BY <1>1, Remainder
  <2> QED BY <1>1, <1>2, <1>3, <2>1
<1> QED BY <1>3, <1>4, <1>5, <1>6, <1>7 DEF Add, Sub, m

\* An amount below the width of a word shifts alike in both.
LEMMA Amounts ==
  ASSUME NEW a, NEW n \in Nat
  PROVE  /\ n % XLEN \in 0 .. XLEN - 1
         /\ n < XLEN => n % XLEN = n
         /\ n < XLEN => ShiftLeft(a, n) = Simulator!ShiftLeft(a, n) /\ ShiftRight(a, n) = Simulator!ShiftRight(a, n)
<1>1. XLEN \in Nat /\ XLEN >= 1
  BY WordAssumption DEF WordAssumption
<1>2. n % XLEN \in 0 .. XLEN - 1
  BY <1>1, Remainder
<1>3. n < XLEN => n % XLEN = n
  BY <1>1, RemainderSmall
<1>4. n < XLEN => ~(n >= XLEN)
  BY <1>1
<1> QED BY <1>2, <1>3, <1>4, Zenon DEF ShiftLeft, ShiftRight, Simulator!ShiftLeft, Simulator!ShiftRight

\* The two take a branch in the same cases.
LEMMA Branches ==
  ASSUME NEW op \in BranchOps, NEW a \in Word, NEW b \in Word
  PROVE  BranchTaken(op, a, b) <=> Simulator!Taken(op, a, b)
<1>1. a \in Int /\ b \in Int /\ 2^XLEN \in Int
  BY WordArithmetic, Powers
<1>2. Signed(a) \in Int /\ Signed(b) \in Int
  BY <1>1 DEF Signed
<1>3. (Signed(a) >= Signed(b) <=> ~(Signed(a) < Signed(b))) /\ (a >= b <=> ~(a < b))
  BY <1>1, <1>2
<1> QED BY <1>3, IsaNames DEF BranchOps, BranchTaken, Simulator!Taken

\* The value an operation computes that is no shift, branch or load.
LEMMA ValuesAgree ==
  ASSUME NEW a, NEW b, NEW imm, NEW pc,
         NEW op \in {"JAL", "JALR", "LUI", "ADDI", "SLTI", "SLTIU", "XORI", "ORI", "ANDI",
                     "ADD", "SUB", "SLT", "SLTU", "XOR", "OR", "AND"}
  PROVE  AluResult(op, a, b, imm, pc) = Simulator!ExecuteVal(op, a, b, imm, Add(pc, INST_BYTES))
<1> USE IsaNames DEF AluResult, Simulator!ExecuteVal, BranchOps
<1>1. CASE op = "JAL"
  BY <1>1
<1>2. CASE op = "JALR"
  BY <1>2
<1>3. CASE op = "LUI"
  BY <1>3
<1>4. CASE op = "ADDI"
  BY <1>4
<1>5. CASE op = "SLTI"
  BY <1>5
<1>6. CASE op = "SLTIU"
  BY <1>6
<1>7. CASE op = "XORI"
  BY <1>7
<1>8. CASE op = "ORI"
  BY <1>8
<1>9. CASE op = "ANDI"
  BY <1>9
<1>10. CASE op = "ADD"
  BY <1>10
<1>11. CASE op = "SUB"
  BY <1>11
<1>12. CASE op = "SLT"
  BY <1>12
<1>13. CASE op = "SLTU"
  BY <1>13
<1>14. CASE op = "XOR"
  BY <1>14
<1>15. CASE op = "OR"
  BY <1>15
<1>16. CASE op = "AND"
  BY <1>16
<1> QED BY <1>1, <1>2, <1>3, <1>4, <1>5, <1>6, <1>7, <1>8,
          <1>9, <1>10, <1>11, <1>12, <1>13, <1>14, <1>15, <1>16

\* The value of a shift whose amount is one.
LEMMA ShiftsAgree ==
  ASSUME NEW a \in Word, NEW b \in Word, NEW imm \in Word, NEW pc,
         NEW op \in {"SLLI", "SRLI", "SLL", "SRL"},
         op \in {"SLL", "SRL"} => ~(b >= XLEN)
  PROVE  AluResult(op, a, b, imm, pc) = Simulator!ExecuteVal(op, a, b, imm, Add(pc, INST_BYTES))
<1>1. b \in Nat /\ imm \in Nat /\ XLEN \in Nat
  BY WordArithmetic, WordAssumption DEF WordAssumption
<1>2. PICK s \in Nat : s = imm % XLEN /\ s < XLEN
  BY <1>1, Amounts
<1>3. CASE op = "SLLI"
  <2>1. ShiftLeft(a, s) = Simulator!ShiftLeft(a, s)
    BY <1>2, Amounts
  <2> QED BY <1>2, <1>3, <2>1 DEF AluResult, Simulator!ExecuteVal, BranchOps, Shamt
<1>4. CASE op = "SRLI"
  <2>1. ShiftRight(a, s) = Simulator!ShiftRight(a, s)
    BY <1>2, Amounts
  <2> QED BY <1>2, <1>4, <2>1 DEF AluResult, Simulator!ExecuteVal, BranchOps, Shamt
<1>5. CASE op = "SLL"
  <2>1. ShiftLeft(a, b) = Simulator!ShiftLeft(a, b) /\ b % XLEN = b
    BY <1>1, <1>5, Amounts
  <2> QED BY <1>5, <2>1 DEF AluResult, Simulator!ExecuteVal, BranchOps
<1>6. CASE op = "SRL"
  <2>1. ShiftRight(a, b) = Simulator!ShiftRight(a, b) /\ b % XLEN = b
    BY <1>1, <1>6, Amounts
  <2> QED BY <1>6, <2>1 DEF AluResult, Simulator!ExecuteVal, BranchOps
<1> QED BY <1>3, <1>4, <1>5, <1>6

\* The operation register holds an operation with its operands.
Operated == /\ calc.op \in AluOps /\ calc.imm \in Word /\ calc.pc \in Int
            /\ calc.rs1val \in Word /\ calc.rs2val \in Word

\* Whatever operation it holds, the two compute the same.
LEMMA OperatedAgrees == Operated => AluComputesIsa
<1> SUFFICES ASSUME Operated, ~Differs PROVE AluComputesIsa
  BY DEF AluComputesIsa
<1> DEFINE op == calc.op
           a == calc.rs1val
           b == calc.rs2val
           imm == calc.imm
           pc == calc.pc
<1>1. /\ op \in AluOps /\ imm \in Word /\ pc \in Int /\ a \in Word /\ b \in Word
      /\ op \notin {"SRAI", "SRA", "AUIPC"}
      /\ op \in {"SLL", "SRL"} => ~(b >= XLEN)
  BY DEF Operated, Differs
<1>2. /\ Answer.result = AluResult(op, a, b, imm, pc) /\ Answer.new_pc = AluNewPc(op, a, b, imm, pc)
      /\ IsaVal = Simulator!ExecuteVal(op, a, b, imm, Add(pc, INST_BYTES))
      /\ IsaPc = Simulator!ExecutePc(op, a, b, imm, Add(pc, INST_BYTES))
  BY DEF Answer, AluBroadcast, IsaVal, IsaPc, next_pc
<1> HIDE DEF op, a, b, imm, pc
<1>3. ASSUME op \notin BranchOps PROVE Answer.result = IsaVal
  <2>1. op \in {"JAL", "JALR", "LUI", "ADDI", "SLTI", "SLTIU", "XORI", "ORI", "ANDI",
                "ADD", "SUB", "SLT", "SLTU", "XOR", "OR", "AND"} \cup {"SLLI", "SRLI", "SLL", "SRL"}
    BY <1>1, <1>3 DEF AluOps, InnerInst, BranchOps, LoadOps, StoreOps, ArithImmOps, ArithOps
  <2> QED BY <1>1, <1>2, <2>1, ValuesAgree, ShiftsAgree
<1>4. ASSUME op \in BranchOps PROVE Answer.new_pc = IsaPc
  <2>1. BranchTaken(op, a, b) <=> Simulator!Taken(op, a, b)
    BY <1>1, <1>4, Branches
  <2>2. Simulator!Sub(Simulator!Add(Add(pc, INST_BYTES), imm), INST_BYTES) = Add(pc, imm)
    BY <1>1, Target, IsaNames
  <2>3. op \notin {"AUIPC", "JAL", "JALR"}
    BY <1>4 DEF BranchOps
  <2>4. AluNewPc(op, a, b, imm, pc) = IF BranchTaken(op, a, b) THEN Add(pc, imm) ELSE Add(pc, INST_BYTES)
    BY <1>4, <2>3 DEF AluNewPc
  <2>5. Simulator!ExecutePc(op, a, b, imm, Add(pc, INST_BYTES))
          = IF Simulator!Taken(op, a, b) THEN Simulator!Sub(Simulator!Add(Add(pc, INST_BYTES), imm), INST_BYTES)
                                   ELSE Add(pc, INST_BYTES)
    BY <1>4, <2>3, IsaNames DEF Simulator!ExecutePc
  <2> QED BY <1>2, <2>1, <2>2, <2>4, <2>5
<1>5. ASSUME op = "JALR" PROVE Answer.new_pc = IsaPc
  <2>1. op \notin BranchOps /\ op \notin {"AUIPC", "JAL"}
    BY <1>5 DEF BranchOps
  <2> QED BY <1>2, <1>5, <2>1, IsaNames DEF AluNewPc, Simulator!ExecutePc
<1> QED BY <1>3, <1>4, <1>5 DEF AluComputesIsa, op

\* For words of every size and any operands, the ALU computes what the sequential
\* simulator does, except for the operations on which the two are known to differ.
THEOREM AluAlwaysComputesIsa == Spec => []AluComputesIsa
<1>1. Init => Operated
  <2>1. 2^XLEN - INST_BYTES \in Int
    BY Powers, WordAssumption DEF WordAssumption
  <2>2. "ADD" \in AluOps
    BY DEF AluOps, InnerInst, LoadOps, StoreOps, ArithOps
  <2> QED BY <2>1, <2>2 DEF Init, Operated
<1>2. Operated /\ [Next]_calc => Operated'
  <2> SUFFICES ASSUME Operated, [Next]_calc PROVE Operated'
    OBVIOUS
  <2>1. CASE UNCHANGED calc
    BY <2>1 DEF Operated
  <2>2. CASE Next
    <3>1. PICK o \in AluOps : calc' = [calc EXCEPT !.op = o]
      BY <2>2 DEF Next
    <3> QED BY <3>1 DEF Operated
  <2> QED BY <2>1, <2>2
<1> QED BY <1>1, <1>2, OperatedAgrees, PTL DEF Spec
=============================================================================
