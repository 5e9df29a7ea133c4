------------------------------ MODULE Fetcher -------------------------------
(***************************************************************************)
(* Fetcher.v: holds the pc, fetches through a direct-mapped instruction    *)
(* cache, predicts branches with 2-bit counters and hands the decoder one  *)
(* instruction at a time, when no buffer behind it is full.                *)
(*                                                                         *)
(* Abstractions.  The payload of a pulse that is low is 0, and the fetched *)
(* instruction is the zero word while none is held.  immJ and immB are the *)
(* immediate of the held instruction.                                      *)
(***************************************************************************)
EXTENDS Header

VARIABLES
  status, pc,
  inst_to_be_issued,
  branch_history_table,
  icache,                \* the arrays valid, tags and cached_insts per line
  out

fetVars == <<status, pc, inst_to_be_issued, branch_history_table, icache, out>>

Quiet == [issue |-> FALSE, inst |-> ZeroInstruction, pc |-> 0, predict_pc |-> 0,
          mc_request |-> FALSE, mc_address |-> 0]

InvalidLine == [valid |-> FALSE, tag |-> 0, inst |-> ZeroInstruction]

(***************************************************************************)
(* Which counter and which line an address selects.                        *)
(***************************************************************************)
BpHash(a)     == (a \div INST_BYTES) % BP_CAPACITY
CacheIndex(a) == (a \div INST_BYTES) % ICACHE_CAPACITY
CacheTag(a)   == (a \div INST_BYTES) \div ICACHE_CAPACITY

\* Loads, and instructions whose funct3 is 4, always miss.  (So does an LUI, AUIPC
\* or JAL with the value 4 in these bits, which belong to its immediate; such an
\* immediate is left out.)
Funct3Is4 == {"LBU", "XORI", "XOR", "BLT"}

cache_inst == icache[CacheIndex(pc)].inst
cache_hit  == /\ icache[CacheIndex(pc)].valid
              /\ icache[CacheIndex(pc)].tag = CacheTag(pc)
              /\ Opcode(cache_inst.op) # "LOAD"
              /\ cache_inst.op \notin Funct3Is4

(***************************************************************************)
(* Branch prediction.                                                      *)
(***************************************************************************)
Saturating(counter, taken) ==
  IF taken THEN IF counter = 3 THEN 3 ELSE counter + 1
           ELSE IF counter = 0 THEN 0 ELSE counter - 1

Train(rob) ==
  branch_history_table' =
    IF rob.commit_fet
      THEN [branch_history_table EXCEPT ![BpHash(rob.pc)] = Saturating(@, rob.fet_branch_taken)]
      ELSE branch_history_table

PredictedPc(inst) ==
  IF \/ inst.op = "JAL"
     \/ inst.op \in BranchOps /\ branch_history_table[BpHash(pc)] >= 2
    THEN Add(pc, inst.imm)
    ELSE Add(pc, INST_BYTES)      \* so a JALR is always predicted not to jump

(***************************************************************************)
(* The cycle.                                                              *)
(***************************************************************************)
Hit == /\ status = "IDLE" /\ cache_hit
       /\ status' = "ISSUING"
       /\ inst_to_be_issued' = cache_inst
       /\ out' = Quiet
       /\ UNCHANGED <<pc, icache>>

Miss == /\ status = "IDLE" /\ ~cache_hit
        /\ status' = "WAITING"
        /\ out' = [Quiet EXCEPT !.mc_request = TRUE, !.mc_address = pc]
        /\ UNCHANGED <<pc, inst_to_be_issued, icache>>

Fill(mc) == /\ status = "WAITING" /\ mc.fet_ready
            /\ status' = "ISSUING"
            /\ inst_to_be_issued' = mc.fet_instruction
            /\ icache' = [icache EXCEPT ![CacheIndex(pc)] =
                            [valid |-> TRUE, tag |-> CacheTag(pc),
                             inst |-> mc.fet_instruction]]
            /\ out' = Quiet
            /\ UNCHANGED pc

\* Mutant of Issue: the full signals are ignored.
IssueAnyway(full) ==
  /\ status = "ISSUING"
  /\ status' = "IDLE"
  /\ pc' = PredictedPc(inst_to_be_issued)
  /\ out' = [Quiet EXCEPT !.issue = TRUE, !.inst = inst_to_be_issued, !.pc = pc,
                          !.predict_pc = PredictedPc(inst_to_be_issued)]
  /\ inst_to_be_issued' = ZeroInstruction
  /\ UNCHANGED icache

Issue(full) ==
  /\ status = "ISSUING" /\ ~full
  /\ status' = "IDLE"
  /\ pc' = PredictedPc(inst_to_be_issued)
  /\ out' = [Quiet EXCEPT !.issue = TRUE, !.inst = inst_to_be_issued, !.pc = pc,
                          !.predict_pc = PredictedPc(inst_to_be_issued)]
  /\ inst_to_be_issued' = ZeroInstruction
  /\ UNCHANGED icache

Wait(full, mc) ==
  /\ \/ status = "WAITING" /\ ~mc.fet_ready
     \/ status = "ISSUING" /\ full
  /\ out' = Quiet
  /\ UNCHANGED <<status, pc, inst_to_be_issued, icache>>

Operate(full, rob, mc) ==
  /\ Train(rob)
  /\ Hit \/ Miss \/ Fill(mc) \/ Issue(full) \/ Wait(full, mc)

Rollback(rob) ==
  /\ status' = "IDLE"
  /\ pc' = rob.fet_rollback_pc
  /\ inst_to_be_issued' = ZeroInstruction
  /\ out' = Quiet
  /\ UNCHANGED <<branch_history_table, icache>>

Reset == /\ status' = "IDLE"
         /\ pc' = 0
         /\ inst_to_be_issued' = ZeroInstruction
         /\ branch_history_table' = [i \in 0 .. BP_CAPACITY - 1 |-> 2]
         /\ icache' = [i \in 0 .. ICACHE_CAPACITY - 1 |-> InvalidLine]
         /\ out' = Quiet

\* full: the reservation station, the load store buffer or the reorder buffer is.
Clock(rst, full, rob, mc) ==
  \/ rst /\ Reset
  \/ ~rst /\ rob.rollback /\ Rollback(rob)
  \/ ~rst /\ ~rob.rollback /\ Operate(full, rob, mc)

Init == /\ status = "IDLE"
        /\ pc = 0
        /\ inst_to_be_issued = ZeroInstruction
        /\ branch_history_table = [i \in 0 .. BP_CAPACITY - 1 |-> 2]
        /\ icache = [i \in 0 .. ICACHE_CAPACITY - 1 |-> InvalidLine]
        /\ out = Quiet

TypeOK ==
  /\ status \in {"IDLE", "WAITING", "ISSUING"}
  /\ pc \in Word
  /\ inst_to_be_issued \in Instruction
  /\ branch_history_table \in [0 .. BP_CAPACITY - 1 -> 0 .. 3]
  /\ icache \in [0 .. ICACHE_CAPACITY - 1 ->
                   [valid : BOOLEAN, tag : Word, inst : Instruction]]
  /\ out \in [issue : BOOLEAN, inst : Instruction, pc : Word, predict_pc : Word,
              mc_request : BOOLEAN, mc_address : Word]
=============================================================================
