------------------------------ MODULE Decoder -------------------------------
(***************************************************************************)
(* Decoder.v and Dispatcher.v: combinational.  What the instruction the    *)
(* fetcher issued needs, where it goes, and its operands as the register   *)
(* file and the reorder buffer know them in this cycle.                    *)
(***************************************************************************)
EXTENDS Header

\* Dispatcher: loads and stores go to one buffer, the rest to the other.
ToLsb(inst) == Opcode(inst.op) \in {"LOAD", "STORE"}

OccupiesRd(inst) == Opcode(inst.op) \notin {"BRANCH", "STORE"}

\* rs_have_source_register, by operand.
HaveRs1(inst) == inst.op \notin {"LUI", "AUIPC", "JAL"}
HaveRs2(inst) == Opcode(inst.op) \notin {"LUI", "AUIPC", "JAL", "JALR", "LOAD", "ARITH_IMM"}

\* The immediate handed on: none for an R-type instruction or an unknown word.
Immediate(inst) == IF Opcode(inst.op) \in {"ARITH", "NOP"} THEN 0 ELSE inst.imm

(***************************************************************************)
(* An operand: rf is the register file's tag and value, rob says whether   *)
(* the producer's result already waits in the reorder buffer.              *)
(***************************************************************************)
OperandTag(rf, rob)   == IF rf.tag = NULL_TAG \/ rob.ready THEN NULL_TAG ELSE rf.tag
OperandValue(rf, rob) == IF rf.tag = NULL_TAG THEN rf.value
                         ELSE IF rob.ready THEN rob.value ELSE 0

Decode(fet, rf1, rf2, rob1, rob2, rob_next_tag) ==
  LET inst == fet.inst
  IN [issue      |-> fet.issue,
      op         |-> inst.op,
      opcode     |-> Opcode(inst.op),
      rd         |-> inst.rd,
      imm        |-> Immediate(inst),
      pc         |-> fet.pc,
      predict_pc |-> fet.predict_pc,
      next_tag   |-> rob_next_tag,
      occupy_rd  |-> fet.issue /\ OccupiesRd(inst),
      have_rs1   |-> HaveRs1(inst),
      have_rs2   |-> HaveRs2(inst),
      Qj         |-> OperandTag(rf1, rob1),
      Vj         |-> OperandValue(rf1, rob1),
      Qk         |-> OperandTag(rf2, rob2),
      Vk         |-> OperandValue(rf2, rob2),
      to_lsb     |-> fet.issue /\ ToLsb(inst),
      to_rs      |-> fet.issue /\ ~ToLsb(inst),
      store      |-> Opcode(inst.op) = "STORE"]
=============================================================================
