--------------------------- MODULE SequentExecute ---------------------------
(***************************************************************************)
(* tools/sequent_execute.cpp: the machine a programmer sees, that executes *)
(* one whole instruction after the other.  It is the specification the     *)
(* pipeline is to implement.                                               *)
(*                                                                         *)
(* The tool has no I/O; an access to an I/O address is what sys/io.h uses  *)
(* it for: a load takes the next word of the input, a store emits a word.  *)
(* As in MemoryPort the input is its own position modulo IO_PERIOD.        *)
(***************************************************************************)
EXTENDS Words

CONSTANTS IO_PERIOD,
          Programs        \* the instruction memories considered

VARIABLES program, pc, reg, mem, io_reads, io_writes

isaVars == <<program, pc, reg, mem, io_reads, io_writes>>

ShiftLeft(a, n)  == (a * 2^n) % 2^XLEN
ShiftRight(a, n) == a \div 2^n

\* A right shift that fills with the sign bit.
ShiftRightSigned(a, n) == (Signed(a) \div 2^n) % 2^XLEN

(***************************************************************************)
(* Execute: branch condition and value.  next is the pc already advanced.  *)
(***************************************************************************)
Taken(op, a, b) ==
  CASE op = "BEQ"  -> a = b
    [] op = "BNE"  -> a # b
    [] op = "BLT"  -> Signed(a) < Signed(b)
    [] op = "BGE"  -> ~(Signed(a) < Signed(b))
    [] op = "BLTU" -> a < b
    [] op = "BGEU" -> ~(a < b)

ExecuteVal(op, a, b, imm, next) ==
  CASE op \in {"LUI", "AUIPC"} -> imm
    [] op \in {"JAL", "JALR"}  -> next
    [] op = "ADDI"  -> Add(a, imm)
    [] op = "SLTI"  -> Flag(Signed(a) < Signed(imm))
    [] op = "SLTIU" -> Flag(a < imm)
    [] op = "XORI"  -> FromBits(SymDiff(Bits(a), Bits(imm)))
    [] op = "ORI"   -> FromBits(Bits(a) \cup Bits(imm))
    [] op = "ANDI"  -> FromBits(Bits(a) \cap Bits(imm))
    [] op = "SLLI"  -> ShiftLeft(a, imm % XLEN)
    [] op = "SRLI"  -> ShiftRight(a, imm % XLEN)
    [] op = "SRAI"  -> ShiftRightSigned(a, imm % XLEN)
    [] op = "ADD"   -> Add(a, b)
    [] op = "SUB"   -> Sub(a, b)
    [] op = "SLL"   -> ShiftLeft(a, b % XLEN)
    [] op = "SRL"   -> ShiftRight(a, b % XLEN)
    [] op = "SRA"   -> ShiftRightSigned(a, b % XLEN)
    [] op = "SLT"   -> Flag(Signed(a) < Signed(b))
    [] op = "SLTU"  -> Flag(a < b)
    [] op = "XOR"   -> FromBits(SymDiff(Bits(a), Bits(b)))
    [] op = "OR"    -> FromBits(Bits(a) \cup Bits(b))
    [] op = "AND"   -> FromBits(Bits(a) \cap Bits(b))

ExecutePc(op, a, b, imm, next) ==
  CASE op \in {"JAL", "AUIPC"} -> Sub(Add(next, imm), INST_BYTES)
    [] op = "JALR"             -> Add(a, imm)
    [] op \in BranchOps        -> IF Taken(op, a, b) THEN Sub(Add(next, imm), INST_BYTES)
                                                     ELSE next
    [] OTHER                   -> next

(***************************************************************************)
(* WriteBack.                                                              *)
(***************************************************************************)
Written(rd, val) == IF rd = 0 THEN reg ELSE [reg EXCEPT ![rd] = val]

inst    == program[pc]
rs1val  == reg[inst.rs1]
rs2val  == reg[inst.rs2]
next_pc == Add(pc, INST_BYTES)
address == Add(rs1val, inst.imm)

Register ==
  /\ inst.op \notin BranchOps \cup LoadOps \cup StoreOps \cup {"NOP"}
  /\ reg' = Written(inst.rd, ExecuteVal(inst.op, rs1val, rs2val, inst.imm, next_pc))
  /\ UNCHANGED <<mem, io_reads, io_writes>>

Branch == /\ inst.op \in BranchOps
          /\ UNCHANGED <<reg, mem, io_reads, io_writes>>

Load == /\ inst.op \in LoadOps
        /\ reg' = Written(inst.rd, LoadResult(inst.op, IF IsIo(address) THEN io_reads
                                                       ELSE ReadBytes(mem, address, Goal(inst.op))))
        /\ io_reads' = (io_reads + Flag(IsIo(address))) % IO_PERIOD
        /\ UNCHANGED <<mem, io_writes>>

Store == /\ inst.op \in StoreOps
         /\ mem' = WriteBytes(mem, address, Goal(inst.op), rs2val)
         /\ io_writes' = (io_writes + Flag(IsIo(address))) % IO_PERIOD
         /\ UNCHANGED <<reg, io_reads>>

\* runSequenceExecute: one pass of its loop, that stops at the word 0x0ff00513.
Step == /\ inst.op # "END"
        /\ pc' = ExecutePc(inst.op, rs1val, rs2val, inst.imm, next_pc)
        /\ Register \/ Branch \/ Load \/ Store
        /\ UNCHANGED program

Start == /\ program \in Programs
         /\ pc = 0
         /\ reg = [r \in RegIndex |-> 0]
         /\ io_reads = 0
         /\ io_writes = 0

Init == Start /\ mem = [x \in Word |-> 0]

Steps == [][Step]_isaVars

Spec == Init /\ Steps
=============================================================================
