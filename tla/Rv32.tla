-------------------------------- MODULE Rv32 --------------------------------
(***************************************************************************)
(* The RV32I machine that the processor and both simulators of the         *)
(* repository share: the arithmetic of a machine word and the names of the *)
(* instructions, as header.v gives them.                                   *)
(*                                                                         *)
(* INST_BYTES is the distance between two instructions (4 in the code); an *)
(* instance whose word is one byte sets it to 1.  IoAddresses are the      *)
(* addresses whose bits 17:16 are both set.                                *)
(***************************************************************************)
EXTENDS Integers, FiniteSets

CONSTANTS XLEN,            \* bits of a word (32 in the code)
          BYTE_BITS,       \* bits of a byte (8 in the code)
          INST_BYTES,      \* what pc advances by
          IoAddresses,     \* the addresses the host serves instead of the RAM
          RF_CAPACITY      \* registers (32 in the code)

ASSUME WordAssumption ==
  /\ XLEN \in Nat \ {0} /\ BYTE_BITS \in Nat \ {0}
  /\ XLEN % BYTE_BITS = 0
  /\ INST_BYTES \in Nat \ {0}
  /\ RF_CAPACITY \in Nat \ {0}

\* The law of powers up to that of a word: the provers know none of it.
ASSUME PowerAssumption ==
  \A m, n \in 0 .. XLEN : /\ 2^n \in Nat \ {0}
                          /\ m + n <= XLEN => 2^(m + n) = 2^m * 2^n

WORD_BYTES == XLEN \div BYTE_BITS

Byte     == 0 .. 2^BYTE_BITS - 1
Word     == 0 .. 2^XLEN - 1
RegIndex == 0 .. RF_CAPACITY - 1

(***************************************************************************)
(* Words wrap.                                                             *)
(***************************************************************************)
\* Mutant of Add: the carry is kept.
AddUnwrapped(a, b) == a + b

Add(a, b) == (a + b) % 2^XLEN
Sub(a, b) == (a - b) % 2^XLEN
Signed(a) == IF a < 2^(XLEN - 1) THEN a ELSE a - 2^XLEN
Flag(b)   == IF b THEN 1 ELSE 0

IsIo(address) == address \in IoAddresses

(***************************************************************************)
(* Inner instruction names, grouped by the opcode field they decode from.  *)
(* "NOP" is what a word that is no RV32I instruction decodes to.           *)
(***************************************************************************)
BranchOps   == {"BEQ", "BNE", "BLT", "BGE", "BLTU", "BGEU"}
LoadOps     == {"LB", "LH", "LW", "LBU", "LHU"}
StoreOps    == {"SB", "SH", "SW"}
ArithImmOps == {"ADDI", "SLTI", "SLTIU", "XORI", "ORI", "ANDI", "SLLI", "SRLI", "SRAI"}
ArithOps    == {"ADD", "SUB", "SLL", "SLT", "SLTU", "XOR", "SRL", "SRA", "OR", "AND"}
InnerInst   == {"NOP", "LUI", "AUIPC", "JAL", "JALR"} \cup BranchOps \cup LoadOps
                 \cup StoreOps \cup ArithImmOps \cup ArithOps

Opcode(op) == CASE op \in BranchOps   -> "BRANCH"
                [] op \in LoadOps     -> "LOAD"
                [] op \in StoreOps    -> "STORE"
                [] op \in ArithImmOps -> "ARITH_IMM"
                [] op \in ArithOps    -> "ARITH"
                [] OTHER              -> op

Opcodes == {"NOP", "LUI", "AUIPC", "JAL", "JALR", "BRANCH", "LOAD", "STORE",
            "ARITH_IMM", "ARITH"}

(***************************************************************************)
(* An instruction word: the inner instruction, its register fields and its *)
(* sign-extended immediate.  The fields exist in every format: in a format *)
(* without rs2 the bits at its place are part of the immediate, and the    *)
(* hardware still looks that register up.                                  *)
(***************************************************************************)
Instruction == [op : InnerInst, rd : RegIndex, rs1 : RegIndex, rs2 : RegIndex, imm : Word]

ZeroInstruction == [op |-> "NOP", rd |-> 0, rs1 |-> 0, rs2 |-> 0, imm |-> 0]
=============================================================================
