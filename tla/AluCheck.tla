------------------------------ MODULE AluCheck ------------------------------
(***************************************************************************)
(* The ALU beside the repository's sequential simulator, operation by      *)
(* operation: the operation register of the reservation station takes any  *)
(* operands, and one operation after the other.                            *)
(***************************************************************************)
EXTENDS ArithmeticLogicUnit

VARIABLE calc

\* Only the operators of the simulator are used, none of its state.
Simulator == INSTANCE SequentExecute WITH
  IO_PERIOD <- 1, Programs <- {}, program <- 0, pc <- 0, reg <- 0, mem <- 0,
  io_reads <- 0, io_writes <- 0

AluOps == InnerInst \ (LoadOps \cup StoreOps \cup {"NOP"})

\* The pc is the last one, so that the sums with it wrap.
Init == calc \in [calculate : {TRUE}, op : {"ADD"}, imm : Word, pc : {2^XLEN - INST_BYTES},
                  rs1val : Word, rs2val : Word, dest : {1}]

Next == \E op \in AluOps : calc' = [calc EXCEPT !.op = op]

Spec == Init /\ [][Next]_calc

next_pc  == Add(calc.pc, INST_BYTES)
IsaVal   == Simulator!ExecuteVal(calc.op, calc.rs1val, calc.rs2val, calc.imm, next_pc)
IsaPc    == Simulator!ExecutePc(calc.op, calc.rs1val, calc.rs2val, calc.imm, next_pc)
Answer   == AluBroadcast(calc)

\* The operations on which the two are known to differ: the right shifts that
\* should keep the sign, the shifts by a register that holds an amount of XLEN
\* or more, and AUIPC, which the simulator takes for a jump.
Differs == \/ calc.op \in {"SRAI", "SRA", "AUIPC"}
           \/ calc.op \in {"SLL", "SRL"} /\ calc.rs2val >= XLEN

\* On every other operation the ALU computes what the simulator does, for every
\* pair of operands and every immediate, and the same target when the reorder
\* buffer compares one (ArithmeticLogicUnit.v:35-93).
AluComputesIsa ==
  ~Differs => /\ calc.op \notin BranchOps => Answer.result = IsaVal
              /\ calc.op \in BranchOps \cup {"JALR"} => Answer.new_pc = IsaPc
=============================================================================
