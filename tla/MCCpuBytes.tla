----------------------------- MODULE MCCpuBytes -----------------------------
(***************************************************************************)
(* Small instances of CpuBytes: words of four one-bit bytes, so that a     *)
(* word access takes as many byte transfers as in the code; address 15 is  *)
(* the I/O port.  A program is a loop of at most 12 instructions: the four *)
(* bytes of a fetch never touch the port.                                  *)
(***************************************************************************)
EXTENDS CpuBytes, Sequences

I(op, rd, rs1, rs2, imm) == [op |-> op, rd |-> rd, rs1 |-> rs1, rs2 |-> rs2, imm |-> imm]

\* Assembler mnemonics; fields a format lacks are 0.
Addi(rd, rs1, imm) == I("ADDI", rd, rs1, 0, imm)
Jal(rd, imm)       == I("JAL", rd, 0, 0, imm)
Beq(rs1, rs2, imm) == I("BEQ", 0, rs1, rs2, imm)
Bne(rs1, rs2, imm) == I("BNE", 0, rs1, rs2, imm)
Lw(rd, rs1, imm)   == I("LW", rd, rs1, 0, imm)
Lh(rd, rs1, imm)   == I("LH", rd, rs1, 0, imm)
Lb(rd, rs1, imm)   == I("LB", rd, rs1, 0, imm)
Lbu(rd, rs1, imm)  == I("LBU", rd, rs1, 0, imm)
Sw(rs2, rs1, imm)  == I("SW", 0, rs1, rs2, imm)
Sh(rs2, rs1, imm)  == I("SH", 0, rs1, rs2, imm)
Sb(rs2, rs1, imm)  == I("SB", 0, rs1, rs2, imm)

\* The instructions of seq, over and over.
Loop(seq) == [p \in Word |-> IF p < Len(seq) THEN seq[p + 1] ELSE Jal(0, 16 - p)]

\* What a wait loop compiles to: the branch that ends it is mispredicted while
\* a store, a RAM load or the read of the port is under way behind it.
Polling == Loop(<<Lbu(1, 0, 15), Beq(1, 0, 15), Addi(2, 2, 1), Sb(2, 0, 15)>>)
Copying == Loop(<<Lbu(1, 0, 15), Sb(1, 2, 4), Sb(1, 0, 15), Lb(1, 2, 4), Addi(2, 2, 1)>>)
Storing == Loop(<<Addi(1, 1, 7), Sw(1, 0, 4), Lh(2, 0, 5), Sh(2, 0, 8), Lw(2, 0, 7),
                  Bne(1, 2, 12)>>)
Skipping == Loop(<<Addi(1, 1, 1), Sw(1, 0, 4), Lw(2, 0, 4), Bne(2, 1, 3), Lbu(2, 0, 15),
                   Beq(2, 0, 2), Sw(2, 0, 8), Lw(1, 0, 8)>>)

Mixed == {Polling, Copying, Storing, Skipping}

\* A branch that waits for a chain of results, predicted to fall through, and a
\* read of the port behind it: the one at 8 is on the wrong path.
WrongPathInput == {
  Loop(<<Sw(1, 0, 4), Lw(2, 0, 4), Addi(2, 2, 0), Addi(2, 2, 0), Addi(2, 2, 0), Beq(2, 0, 3),
         Lbu(1, 0, 15), Addi(0, 0, 0), Lbu(1, 0, 15)>>) }

\* Accesses of every kind, to be interrupted by a break or a reset at any cycle.
Interrupted == {
  Loop(<<Addi(1, 1, 4), Sw(1, 0, 4), Lbu(2, 0, 15), Sb(1, 0, 15), Bne(1, 2, 12)>>) }
=============================================================================
