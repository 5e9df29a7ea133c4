------------------------------- MODULE Assembly -------------------------------
(***************************************************************************)
(* Lines of assembly, one after the other, and the three decoders that     *)
(* read the words they are assembled to.  From line to line one thing      *)
(* changes: the operation, a register or a bit of the immediate.           *)
(***************************************************************************)
EXTENDS Decoding

CONSTANTS Registers,   \* the registers that lines name
          MAX_BITS     \* bound: one bits chosen in an immediate

ASSUME AssemblyAssumption == Registers \subseteq 0 .. 31 /\ MAX_BITS \in Nat

VARIABLES op, rd, rs1, rs2, bits

vars == <<op, rd, rs1, rs2, bits>>

line == [op |-> op, rd |-> rd, rs1 |-> rs1, rs2 |-> rs2, imm |-> Extended(op, bits)]
word == Assembled(line)

Init == /\ op = "ADDI"
        /\ rd \in Registers /\ rs1 \in Registers /\ rs2 \in Registers
        /\ bits = {}

ChangeOp == /\ op' \in Ops \ {op}
            /\ bits' = bits \cap FreeBits(op')
            /\ UNCHANGED <<rd, rs1, rs2>>

ChangeRegister == \/ rd' \in Registers /\ UNCHANGED <<op, rs1, rs2, bits>>
                  \/ rs1' \in Registers /\ UNCHANGED <<op, rd, rs2, bits>>
                  \/ rs2' \in Registers /\ UNCHANGED <<op, rd, rs1, bits>>

FlipBit == \E i \in FreeBits(op) :
             /\ bits' = IF i \in bits THEN bits \ {i} ELSE bits \cup {i}
             /\ Cardinality(bits') <= MAX_BITS
             /\ UNCHANGED <<op, rd, rs1, rs2>>

Next == ChangeOp \/ ChangeRegister \/ FlipBit

Spec == Init /\ [][Next]_vars

\* What a decoder says of the word agrees with the line, in the fields that the operation has.
Reads(fields) ==
  /\ fields.op = op
  /\ Format(op) # "R" => fields.imm = line.imm
  /\ HasRd(op) => fields.rd = rd
  /\ HasRs1(op) => fields.rs1 = rs1
  /\ HasRs2(op) => fields.rs2 = rs2

\* The processor executes the line that was written (Decoder.v:64-193).
ProcessorReadsLine == Reads(Decoder(word))

\* The simulators execute the line that was written, but for the one word that ends a simulation
\* (sequent_execute.cpp:123-195, translate.hpp:18-258).
SimulatorsReadLine == /\ Reads(InstructionDecode(word))
                      /\ word # EndCode => Reads(translate(word))

\* Whatever word is fetched, and whatever format it is taken for, the three agree on its immediate,
\* and the sums of translate.hpp do not carry.
ImmediatesAgree ==
  /\ immI(word) = get_immediate(word, "I") /\ immI(word) = Imm_I(word)
  /\ immS(word) = get_immediate(word, "S") /\ immS(word) = Imm_S(word)
  /\ immB(word) = get_immediate(word, "B") /\ immB(word) = Imm_B(word)
  /\ immU(word) = get_immediate(word, "U") /\ immU(word) = Imm_U(word)
  /\ immJ(word) = get_immediate(word, "J") /\ immJ(word) = Imm_J(word)
=============================================================================
