------------------------------ MODULE MCWsCpu -------------------------------
(***************************************************************************)
(* Small instances of WsCpu: words of four bits in four bytes of one bit,  *)
(* eight instructions at the even addresses.  The simulator is             *)
(* deterministic, so the instances are the programs.                       *)
(***************************************************************************)
EXTENDS WsCpu

I(op, rd, rs1, rs2, imm) == [op |-> op, rd |-> rd, rs1 |-> rs1, rs2 |-> rs2, imm |-> imm]

End == I("END", 0, 0, 0, 0)

\* The instructions of seq at the even addresses, and behind them the one that ends.
Program(seq) == [p \in Word |-> IF p \div 2 < Len(seq) THEN seq[p \div 2 + 1] ELSE End]

\* Each way to issue, dependent on each other through two registers; the stores and loads
\* overlap, the jumps lead forward, and one branch leads back.
Menu == {I("ADDI", 1, 1, 0, 3), I("ADD", 2, 1, 1, 0), I("LW", 1, 2, 0, 8), I("LB", 2, 0, 0, 9),
         I("SW", 0, 2, 1, 8), I("SB", 0, 0, 2, 10), I("BNE", 0, 1, 2, 4),
         I("JAL", 2, 0, 0, 4), I("JALR", 1, 0, 0, 6)}

MenuPrograms ==
  {Program(<<I("ADDI", 1, 0, 0, 2), a, b, c, d>>) :
     a \in Menu, b \in Menu, c \in Menu, d \in {I("ADD", 1, 2, 1, 0), I("BLT", 0, 2, 1, 12)}}

\* Every operation on a negative and on a positive value; a halfword; an endless loop of
\* stores and loads; a store to the port that ends the program, behind a wrong path.
OtherPrograms ==
  {Program(<<I("ADDI", 1, 0, 0, n), I("LUI", 2, 0, 0, 2), I(op, 2, 1, 2, 3)>>) :
     n \in {3, 13}, op \in (ArithOps \cup ArithImmOps) \ {"SRA", "SRAI"}}
  \cup
  {Program(<<I("ADDI", 1, 0, 0, 6), I("LUI", 2, 0, 0, 1), I(op, 2, 1, 2, 2)>>) :
     op \in {"SRA", "SRAI"}}
  \cup
  {Program(<<I("ADDI", 1, 0, 0, n), I(op, 0, 1, 2, 4), I("ADDI", 1, 0, 0, 1)>>) :
     n \in {0, 3, 13}, op \in BranchOps}
  \cup
  {Program(<<I("ADDI", 1, 1, 0, 5), I("SH", 0, 0, 1, 4), I("LHU", 2, 0, 0, 3),
             I("SW", 0, 2, 1, 4), I("LH", 1, 0, 0, 5), I("LBU", 2, 0, 0, 5),
             I("JAL", 0, 0, 0, 4)>>),
   Program(<<I("BEQ", 0, 0, 0, 4), I("SW", 0, 0, 0, 15), I("ADDI", 1, 0, 0, 13),
             I("SB", 0, 1, 1, 2), I("ADDI", 1, 1, 0, 1)>>)}

AllPrograms == MenuPrograms \cup OtherPrograms
=============================================================================
