------------------------------- MODULE MCCpu --------------------------------
(***************************************************************************)
(* Small instances of Cpu: words of two bits, so that a program has four   *)
(* instructions and runs round; address 3 is the I/O port.                 *)
(***************************************************************************)
EXTENDS Cpu

I(op, rd, rs1, rs2, imm) == [op |-> op, rd |-> rd, rs1 |-> rs1, rs2 |-> rs2, imm |-> imm]

\* Assembler mnemonics; fields a format lacks are 0.
Lui(rd, imm)       == I("LUI", rd, 0, 0, imm)
Addi(rd, rs1, imm) == I("ADDI", rd, rs1, 0, imm)
Radd(rd, rs1, rs2) == I("ADD", rd, rs1, rs2, 0)
Jal(rd, imm)       == I("JAL", rd, 0, 0, imm)
Jalr(rd, rs1, imm) == I("JALR", rd, rs1, 0, imm)
Beq(rs1, rs2, imm) == I("BEQ", 0, rs1, rs2, imm)
Bne(rs1, rs2, imm) == I("BNE", 0, rs1, rs2, imm)
Lw(rd, rs1, imm)   == I("LW", rd, rs1, 0, imm)
Sw(rs2, rs1, imm)  == I("SW", 0, rs1, rs2, imm)

Program(seq) == [p \in Word |-> seq[p + 1]]

\* One instruction of each kind, dependent on each other through two registers;
\* the second load reads the I/O port, the store may write it.
Menu == {Addi(1, 1, 1), Radd(2, 1, 1), Beq(1, 2, 2), Jalr(2, 1, 1),
         Lw(1, 2, 1), Lw(2, 0, 3), Sw(1, 1, 0)}

\* An instruction that changes a register, any two of the menu, and one that
\* depends on both registers or leads back past the first.
MenuPrograms == {Program(<<Addi(1, 1, 1), a, b, c>>) :
                   a, b \in Menu, c \in {Radd(2, 1, 1), Beq(1, 2, 2)}}

\* Programs that overfill each buffer, mispredict with stores and loads behind,
\* and mix accesses of both kinds.  In the last two the branch or jump waits for a
\* load, and a load from RAM or a read of the port is next to it on the wrong path.
SchedulingPrograms == {
  Program(<<Addi(1, 1, 1), Radd(2, 1, 1), Beq(1, 2, 2), Radd(1, 2, 1)>>),
  Program(<<Lw(1, 0, 3), Beq(1, 2, 2), Lw(2, 0, 3), Sw(1, 0, 1)>>),
  Program(<<Lw(1, 0, 1), Addi(1, 1, 1), Sw(1, 0, 1), Sw(1, 0, 3)>>),
  Program(<<Sw(2, 0, 2), Lw(1, 0, 2), Bne(1, 0, 2), Jalr(2, 1, 1)>>),
  Program(<<Lui(1, 2), Jal(2, 1), Lw(1, 1, 1), Lw(2, 0, 2)>>),
  Program(<<Lw(1, 0, 3), Beq(1, 0, 2), Addi(2, 2, 1), Lw(2, 0, 1)>>),
  Program(<<Lw(1, 0, 1), Jalr(2, 1, 3), Lw(2, 0, 3), Addi(1, 1, 1)>>) }

MCPrograms == MenuPrograms \cup SchedulingPrograms
=============================================================================
