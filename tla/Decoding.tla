------------------------------- MODULE Decoding -------------------------------
(***************************************************************************)
(* An instruction word and what is read from it by the processor           *)
(* (Decoder.v), by the sequential simulator (sequent_execute.cpp) and by   *)
(* the pipelined one (ws_cpu/translate.hpp), beside the assembler that     *)
(* wrote it.  A word is the set of the places of its one bits, and so is   *)
(* an immediate.                                                           *)
(***************************************************************************)
EXTENDS Integers, Sequences, FiniteSets

Places == 0 .. 31
Words  == SUBSET Places

If(c, w) == IF c THEN w ELSE {}

\* No field of a word that is read as a number has more than seven bits.
Bits(n)   == {i \in 0 .. 6 : (n \div <<1, 2, 4, 8, 16, 32, 64>>[i + 1]) % 2 = 1}
Number(w) == LET Bit(i) == IF i \in w THEN 1 ELSE 0
             IN Bit(0) + 2 * Bit(1) + 4 * Bit(2) + 8 * Bit(3) + 16 * Bit(4) + 32 * Bit(5) + 64 * Bit(6)

Shr(w, n) == {i - n : i \in {j \in w : j >= n}}
Shl(w, n) == {i + n : i \in {j \in w : j + n \in Places}}

(***************************************************************************)
(* What the assembler writes.                                              *)
(***************************************************************************)
BranchOps   == {"BEQ", "BNE", "BLT", "BGE", "BLTU", "BGEU"}
LoadOps     == {"LB", "LH", "LW", "LBU", "LHU"}
StoreOps    == {"SB", "SH", "SW"}
ShiftImmOps == {"SLLI", "SRLI", "SRAI"}
ArithImmOps == {"ADDI", "SLTI", "SLTIU", "XORI", "ORI", "ANDI"} \cup ShiftImmOps
ArithOps    == {"ADD", "SUB", "SLL", "SLT", "SLTU", "XOR", "SRL", "SRA", "OR", "AND"}
Ops         == {"LUI", "AUIPC", "JAL", "JALR"} \cup BranchOps \cup LoadOps \cup StoreOps
                 \cup ArithImmOps \cup ArithOps

Format(op) == CASE op \in {"LUI", "AUIPC"} -> "U"
                [] op = "JAL"              -> "J"
                [] op \in BranchOps        -> "B"
                [] op \in StoreOps         -> "S"
                [] op \in ArithOps         -> "R"
                [] OTHER                   -> "I"

Opcode(op) == CASE op = "LUI"           -> 55
                [] op = "AUIPC"         -> 23
                [] op = "JAL"           -> 111
                [] op = "JALR"          -> 103
                [] op \in BranchOps     -> 99
                [] op \in LoadOps       -> 3
                [] op \in StoreOps      -> 35
                [] op \in ArithImmOps   -> 19
                [] OTHER                -> 51

Funct3(op) == CASE op \in {"BNE", "LH", "SH", "SLLI", "SLL"}                  -> 1
                [] op \in {"LW", "SW", "SLTI", "SLT"}                         -> 2
                [] op \in {"SLTIU", "SLTU"}                                   -> 3
                [] op \in {"BLT", "LBU", "XORI", "XOR"}                       -> 4
                [] op \in {"BGE", "LHU", "SRLI", "SRAI", "SRL", "SRA"}        -> 5
                [] op \in {"BLTU", "ORI", "OR"}                               -> 6
                [] op \in {"BGEU", "ANDI", "AND"}                             -> 7
                [] OTHER                                                      -> 0

\* The bits of an immediate that can be chosen; the highest is repeated above it.
FreeBits(op) == CASE op \in ShiftImmOps  -> 0 .. 4
                  [] Format(op) = "U"    -> 12 .. 31
                  [] Format(op) = "J"    -> 1 .. 20
                  [] Format(op) = "B"    -> 1 .. 12
                  [] Format(op) = "R"    -> {}
                  [] OTHER               -> 0 .. 11

Signed(w, place) == w \cup If(place \in w, place .. 31)

Extended(op, w) == CASE op = "SRAI"           -> w \cup {10}
                     [] op \in {"SLLI", "SRLI"} -> w
                     [] Format(op) = "J"      -> Signed(w, 20)
                     [] Format(op) = "B"      -> Signed(w, 12)
                     [] Format(op) = "U"      -> w
                     [] OTHER                 -> Signed(w, 11)

PutI(imm) == Shl(imm \cap (0 .. 11), 20)
PutS(imm) == Shl(imm \cap (5 .. 11), 20) \cup Shl(imm \cap (0 .. 4), 7)
PutB(imm) == Shl(imm \cap {12}, 19) \cup Shl(imm \cap (5 .. 10), 20)
               \cup Shl(imm \cap (1 .. 4), 7) \cup Shr(imm \cap {11}, 4)
PutU(imm) == imm \cap (12 .. 31)
PutJ(imm) == Shl(imm \cap {20}, 11) \cup Shl(imm \cap (1 .. 10), 20)
               \cup Shl(imm \cap {11}, 9) \cup (imm \cap (12 .. 19))

HasRd(op)  == Format(op) \in {"R", "I", "U", "J"}
HasRs1(op) == Format(op) \in {"R", "I", "S", "B"}
HasRs2(op) == Format(op) \in {"R", "S", "B"}

Assembled(line) ==
  LET op == line.op IN
  Bits(Opcode(op))
    \cup If(Format(op) \notin {"U", "J"}, Shl(Bits(Funct3(op)), 12))
    \cup If(op \in {"SUB", "SRA"}, {30})
    \cup If(HasRd(op), Shl(Bits(line.rd), 7))
    \cup If(HasRs1(op), Shl(Bits(line.rs1), 15))
    \cup If(HasRs2(op), Shl(Bits(line.rs2), 20))
    \cup CASE Format(op) = "I" -> PutI(line.imm)
           [] Format(op) = "S" -> PutS(line.imm)
           [] Format(op) = "B" -> PutB(line.imm)
           [] Format(op) = "U" -> PutU(line.imm)
           [] Format(op) = "J" -> PutJ(line.imm)
           [] OTHER            -> {}

(***************************************************************************)
(* Decoder.v: slices and copies of wires, put side by side.                *)
(***************************************************************************)
Slice(t, hi, lo) == Shr(t \cap (lo .. hi), lo)
Copies(t, n)     == If(31 \in t, 32 - n .. 31)

\* Mutant of immJ: bits 20 and 30..21 taken for one field, as they lie in the word.
immJ_straight(t) == Copies(t, 12) \cup Shl(Slice(t, 19, 12), 12) \cup Shl(Slice(t, 30, 20), 1)

immI(t) == Copies(t, 20) \cup Slice(t, 31, 20)
immS(t) == Copies(t, 20) \cup Shl(Slice(t, 31, 25), 5) \cup Slice(t, 11, 7)
immB(t) == Copies(t, 20) \cup Shl(Slice(t, 7, 7), 11) \cup Shl(Slice(t, 30, 25), 5)
             \cup Shl(Slice(t, 11, 8), 1)
immU(t) == Shl(Slice(t, 31, 12), 12)
immJ(t) == Copies(t, 12) \cup Shl(Slice(t, 19, 12), 12) \cup Shl(Slice(t, 20, 20), 11)
             \cup Shl(Slice(t, 30, 21), 1)

\* Operations in the order of funct3; "NOP" where there is none.
BranchRow   == <<"BEQ", "BNE", "NOP", "NOP", "BLT", "BGE", "BLTU", "BGEU">>
LoadRow     == <<"LB", "LH", "LW", "NOP", "LBU", "LHU", "NOP", "NOP">>
StoreRow    == <<"SB", "SH", "SW", "NOP", "NOP", "NOP", "NOP", "NOP">>
ArithImmRow(zero) == <<"ADDI", "SLLI", "SLTI", "SLTIU", "XORI",
                       IF zero THEN "SRLI" ELSE "SRAI", "ORI", "ANDI">>
ArithRow(zero)    == <<IF zero THEN "ADD" ELSE "SUB", "SLL", "SLT", "SLTU", "XOR",
                       IF zero THEN "SRL" ELSE "SRA", "OR", "AND">>

op_out(t) ==
  LET opcode == Number(Slice(t, 6, 0))
      funct3 == Number(Slice(t, 14, 12)) + 1
      zero   == Slice(t, 31, 25) = {}
  IN CASE opcode = 55  -> "LUI"
       [] opcode = 23  -> "AUIPC"
       [] opcode = 111 -> "JAL"
       [] opcode = 103 -> "JALR"
       [] opcode = 99  -> BranchRow[funct3]
       [] opcode = 3   -> LoadRow[funct3]
       [] opcode = 35  -> StoreRow[funct3]
       [] opcode = 19  -> ArithImmRow(zero)[funct3]
       [] opcode = 51  -> ArithRow(zero)[funct3]
       [] OTHER        -> "NOP"

imm_out(t) ==
  LET opcode == Number(Slice(t, 6, 0))
  IN CASE opcode \in {55, 23}      -> immU(t)
       [] opcode = 111             -> immJ(t)
       [] opcode \in {103, 3, 19}  -> immI(t)
       [] opcode = 99              -> immB(t)
       [] opcode = 35              -> immS(t)
       [] OTHER                    -> {}

Decoder(t) == [op |-> op_out(t), imm |-> imm_out(t),
               rd |-> Number(Slice(t, 11, 7)), rs1 |-> Number(Slice(t, 19, 15)),
               rs2 |-> Number(Slice(t, 24, 20))]

(***************************************************************************)
(* sequent_execute.cpp: masks and shifts.                                  *)
(***************************************************************************)
get_immediate(cmd, type) ==
  CASE type = "I" -> Shr(cmd \cap (20 .. 31), 20) \cup If(31 \in cmd, 12 .. 31)
    [] type = "S" -> Shr(cmd \cap (25 .. 31), 20) \cup Shr(cmd \cap (7 .. 11), 7)
                       \cup If(31 \in cmd, 12 .. 31)
    [] type = "B" -> Shr(cmd \cap (25 .. 30), 20) \cup Shr(cmd \cap (8 .. 11), 7)
                       \cup Shl(cmd \cap {7}, 4) \cup If(31 \in cmd, 12 .. 31)
    [] type = "U" -> cmd \cap (12 .. 31)
    [] type = "J" -> Shr(cmd \cap (21 .. 30), 20) \cup (cmd \cap (12 .. 19))
                       \cup Shr(cmd \cap {20}, 9) \cup If(31 \in cmd, 20 .. 31)
    [] OTHER      -> {}

\* The type is the number whose low bits are the opcode and funct3 above it; where two types share
\* these, the second is meant by any funct7 but zero.
SecondTypes == {"SRAI", "SUB", "SRA"}
PairedTypes == SecondTypes \cup {"SRLI", "ADD", "SRL"}

Types(cmd) ==
  {op \in Ops : /\ Opcode(op) = Number(cmd \cap (0 .. 6))
                /\ \/ Opcode(op) \in {55, 23, 111, 103}
                   \/ Funct3(op) = Number(Shr(cmd \cap (12 .. 14), 12))
                /\ op \in PairedTypes => (op \in SecondTypes <=> cmd \cap (25 .. 31) # {})}

InstructionDecode(cmd) ==
  LET type == IF Types(cmd) = {} THEN "NOP" ELSE CHOOSE op \in Types(cmd) : TRUE
  IN [op |-> type, imm |-> get_immediate(cmd, Format(type)),
      rd |-> Number(Shr(cmd \cap (7 .. 11), 7)), rs1 |-> Number(Shr(cmd \cap (15 .. 19), 15)),
      rs2 |-> Number(Shr(cmd \cap (20 .. 24), 20))]

(***************************************************************************)
(* ws_cpu/translate.hpp: powers of two are added up one by one.  A sum in  *)
(* which one occurs twice would carry; no word has the place 32.           *)
(***************************************************************************)
Plus(a, b) == IF a \cap b = {} THEN a \cup b ELSE {32}

Gather(t, first, last) == Shr(t \cap (first .. last), first)

\* Mutant of Imm_S: the upper part is not moved up.
Imm_S_low(t) == LET imm == Plus(Gather(t, 7, 11), Gather(t, 25, 31))
                IN Plus(imm, If(11 \in imm, 12 .. 31))

Imm_I(t) == LET imm == Gather(t, 20, 31)
            IN Plus(imm, If(11 \in imm, 12 .. 31))
Imm_S(t) == LET imm == Plus(Gather(t, 7, 11), Shl(Gather(t, 25, 31), 5))
            IN Plus(imm, If(11 \in imm, 12 .. 31))
Imm_B(t) == Plus(Plus(Plus(If(7 \in t, {11}), Shr(t \cap (8 .. 11), 7)),
                      Shl(Gather(t, 25, 30), 5)),
                 If(31 \in t, 12 .. 31))
Imm_U(t) == t \cap (12 .. 31)
Imm_J(t) == Plus(Plus(Plus(t \cap (12 .. 19), If(20 \in t, {11})), Shr(t \cap (21 .. 30), 20)),
                 If(31 \in t, 20 .. 31))

\* 0x0ff00513 ends the simulation; its fields are not read.
EndCode == {4, 1, 0, 8, 10, 20, 21, 22, 23, 24, 25, 26, 27}

\* An R-type operation has a type for the funct7 it is listed with; tp is 0, "LB", for any other.
RType(funct3, funct7) ==
  CASE funct7 = 0  -> <<"ADD", "SLL", "SLT", "SLTU", "XOR", "SRL", "OR", "AND">>[funct3 + 1]
    [] funct7 = 32 /\ funct3 = 0 -> "SUB"
    [] funct7 = 32 /\ funct3 = 5 -> "SRA"
    [] OTHER       -> "LB"

\* srli or srai: by the size of the immediate.
IType(funct3, imm) ==
  <<"ADDI", "SLLI", "SLTI", "SLTIU", "XORI", IF imm \cap (6 .. 31) = {} THEN "SRLI" ELSE "SRAI",
    "ORI", "ANDI">>[funct3 + 1]

LoadType   == <<"LB", "LH", "LW", "LB", "LBU", "LHU", "LB", "LB">>
StoreType  == <<"SB", "SH", "SW", "LB", "LB", "LB", "LB", "LB">>
BranchType == <<"BEQ", "BNE", "LB", "LB", "BLT", "BGE", "BLTU", "BGEU">>

translate(t) ==
  LET opc    == Number(t \cap (0 .. 6))
      funct3 == Number(Gather(t, 12, 14))
      Fields(tp, imm, rd, rs1, rs2) ==
        [op |-> tp, imm |-> imm,
         rd |-> IF rd THEN Number(Gather(t, 7, 11)) ELSE 0,
         rs1 |-> IF rs1 THEN Number(Gather(t, 15, 19)) ELSE 0,
         rs2 |-> IF rs2 THEN Number(Gather(t, 20, 24)) ELSE 0]
  IN CASE t = EndCode -> Fields("END", {}, FALSE, FALSE, FALSE)
       [] opc = 3   -> Fields(LoadType[funct3 + 1], Imm_I(t), TRUE, TRUE, FALSE)
       [] opc = 19 /\ t # EndCode -> Fields(IType(funct3, Imm_I(t)), Imm_I(t), TRUE, TRUE, FALSE)
       [] opc = 103 -> Fields(IF funct3 = 0 THEN "JALR" ELSE "LB", Imm_I(t), TRUE, TRUE, FALSE)
       [] opc = 35  -> Fields(StoreType[funct3 + 1], Imm_S(t), FALSE, TRUE, TRUE)
       [] opc = 51  -> Fields(RType(funct3, Number(Gather(t, 25, 31))), {}, TRUE, TRUE, TRUE)
       [] opc = 55  -> Fields("LUI", Imm_U(t), TRUE, FALSE, FALSE)
       [] opc = 23  -> Fields("AUIPC", Imm_U(t), TRUE, FALSE, FALSE)
       [] opc = 99  -> Fields(BranchType[funct3 + 1], Imm_B(t), FALSE, TRUE, TRUE)
       [] opc = 111 -> Fields("JAL", Imm_J(t), TRUE, FALSE, FALSE)
       [] OTHER     -> Fields("LB", {}, FALSE, FALSE, FALSE)
=============================================================================
