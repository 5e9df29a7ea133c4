--------------------------- MODULE ReorderBuffer ----------------------------
(***************************************************************************)
(* ReorderBuffer.v: a circular queue of the instructions in flight, that   *)
(* commits them in program order and starts the rollback after a           *)
(* mispredicted branch or jump.  The slot at head holds nothing, the slot  *)
(* at tail holds the youngest instruction; slots are numbered from 1 so    *)
(* that tag 0 can mean "no producer".                                      *)
(*                                                                         *)
(* Abstractions.  The result broadcast carries the tag and data of the     *)
(* commit of the same cycle, so out has one copy of them.  The payload of  *)
(* a pulse that is low is 0 instead of its last value, and a freed slot is *)
(* emptied except for is_io_load: insertion rewrites the other fields,     *)
(* but not that one.  was_io_load drives only an output nobody reads and   *)
(* is left out.                                                            *)
(***************************************************************************)
EXTENDS Header

VARIABLES
  head, tail,
  entry,             \* the arrays ready, opcode, data, ... as one record per slot
  need_to_rollback,  \* a misprediction was committed in the last cycle
  inner_rollback,    \* the other modules see rollback in this cycle
  rollback_pc,
  out                \* the registered outputs

robVars == <<head, tail, entry, need_to_rollback, inner_rollback, rollback_pc, out>>

EmptyEntry == [ready |-> FALSE, opcode |-> "NOP", data |-> 0, dest |-> 0, pc |-> 0,
               imm |-> 0, predict_pc |-> 0, new_pc |-> 0, is_io_load |-> FALSE]

Quiet == [rollback |-> FALSE, fet_rollback_pc |-> 0,
          commit_fet |-> FALSE, fet_branch_taken |-> FALSE,
          commit |-> FALSE, commit_rf |-> FALSE, commit_lsb |-> FALSE,
          pc |-> 0, tag |-> NULL_TAG, data |-> 0, target |-> 0]

(***************************************************************************)
(* Wires.                                                                  *)
(***************************************************************************)
NextSlot(i) == IF i = ROB_CAPACITY - 1 THEN 1 ELSE i + 1
head_next   == NextSlot(head)
tail_next   == NextSlot(tail)
full_out    == head = tail_next
next_tag    == IF head # tail_next THEN tail_next ELSE NULL_TAG

in_queue(i) == /\ i # NULL_TAG
               /\ \/ head < tail /\ head < i /\ i <= tail
                  \/ head > tail /\ (head < i \/ i <= tail)

\* What the decoder reads for an operand whose producer is tag.
operand_ready(tag) == in_queue(tag) /\ entry[tag].ready
operand_value(tag) == entry[tag].data

\* Mutant of Mispredicts: jumps are taken to be always right.
MispredictsBranchOnly(e) == e.opcode = "BRANCH" /\ e.new_pc # e.predict_pc

Mispredicts(e) == e.opcode \in {"JALR", "BRANCH"} /\ e.new_pc # e.predict_pc

(***************************************************************************)
(* The cycle.  dec is what the decoder presents, alu the ALU's broadcast,  *)
(* lsb the outputs of the load store buffer.                               *)
(***************************************************************************)
Reset == /\ head' = 1
         /\ tail' = 1
         /\ entry' = [i \in RobTag |-> EmptyEntry]
         /\ need_to_rollback' = FALSE
         /\ inner_rollback' = FALSE
         /\ rollback_pc' = 0
         /\ out' = Quiet

Rollback == /\ inner_rollback' = TRUE
            /\ out' = [Quiet EXCEPT !.rollback = TRUE, !.fet_rollback_pc = rollback_pc]
            /\ need_to_rollback' = FALSE
            /\ rollback_pc' = 0
            /\ UNCHANGED <<head, tail, entry>>

Inserted(dec, old) ==
  [EmptyEntry EXCEPT !.opcode = dec.opcode, !.dest = dec.rd, !.pc = dec.pc,
                     !.imm = dec.imm, !.predict_pc = dec.predict_pc,
                     !.is_io_load = old.is_io_load]

\* The buffer after this cycle's insertion, results and I/O load marks.
Updated(dec, alu, lsb) ==
  LET AluHits(i) == alu.signal /\ alu.dest_tag = i /\ in_queue(i)
      LsbHits(i) == lsb.broadcast /\ lsb.dest_tag = i /\ in_queue(i)
      Marked(i)  == lsb.mark_as_io_load /\ lsb.io_load_tag = i /\ in_queue(i)
  IN [i \in RobTag |->
        IF dec.issue /\ i = tail_next
          THEN Inserted(dec, entry[i])
          ELSE [entry[i] EXCEPT
                  !.ready      = @ \/ AluHits(i) \/ LsbHits(i),
                  !.data       = IF LsbHits(i) THEN lsb.result
                                 ELSE IF AluHits(i) THEN alu.result ELSE @,
                  !.new_pc     = IF AluHits(i) THEN alu.new_pc ELSE @,
                  !.is_io_load = @ \/ Marked(i)]]

Insert(dec) == tail' = IF dec.issue THEN tail_next ELSE tail

\* A store commits as soon as it is the oldest; anything else once it is ready.
CanCommit == head # tail /\ (entry[head_next].ready \/ entry[head_next].opcode = "STORE")

CommitPulse(tag, e) ==
  [Quiet EXCEPT !.commit           = TRUE,
                !.commit_rf        = e.opcode \notin {"BRANCH", "STORE"},
                !.commit_lsb       = e.opcode = "STORE",
                !.commit_fet       = e.opcode = "BRANCH",
                !.fet_branch_taken = e.opcode = "BRANCH" /\ e.new_pc = Add(e.pc, e.imm),
                !.pc = e.pc, !.tag = tag, !.data = e.data, !.target = e.dest]

Freed(e) == [EmptyEntry EXCEPT !.is_io_load = e.is_io_load]

Commit(dec, alu, lsb) ==
  LET e == entry[head_next]
  IN /\ CanCommit
     /\ head' = head_next
     /\ entry' = [Updated(dec, alu, lsb) EXCEPT ![head_next] = Freed(@)]
     /\ out' = CommitPulse(head_next, e)
     /\ need_to_rollback' = Mispredicts(e)
     /\ rollback_pc' = IF Mispredicts(e) THEN e.new_pc ELSE 0

\* Mutant of ReleaseIoLoad: the mark stays.
ReleaseAgain(dec, alu, lsb) ==
  /\ head # tail /\ ~CanCommit /\ entry[head_next].is_io_load
  /\ entry' = Updated(dec, alu, lsb)
  /\ out' = [Quiet EXCEPT !.commit_lsb = TRUE]
  /\ need_to_rollback' = FALSE
  /\ rollback_pc' = 0
  /\ UNCHANGED head

\* The oldest instruction is a load from an I/O address: let the buffer run it.
ReleaseIoLoad(dec, alu, lsb) ==
  /\ head # tail /\ ~CanCommit /\ entry[head_next].is_io_load
  /\ entry' = [Updated(dec, alu, lsb) EXCEPT ![head_next].is_io_load = FALSE]
  /\ out' = [Quiet EXCEPT !.commit_lsb = TRUE]
  /\ need_to_rollback' = FALSE
  /\ rollback_pc' = 0
  /\ UNCHANGED head

Hold(dec, alu, lsb) ==
  /\ ~CanCommit /\ (head # tail => ~entry[head_next].is_io_load)
  /\ entry' = Updated(dec, alu, lsb)
  /\ out' = Quiet
  /\ need_to_rollback' = FALSE
  /\ rollback_pc' = 0
  /\ UNCHANGED head

Operate(dec, alu, lsb) ==
  /\ Insert(dec)
  /\ inner_rollback' = FALSE
  /\ \/ Commit(dec, alu, lsb)
     \/ ReleaseIoLoad(dec, alu, lsb)
     \/ Hold(dec, alu, lsb)

Clock(rst, dec, alu, lsb) ==
  \/ (rst \/ inner_rollback) /\ Reset
  \/ ~rst /\ ~inner_rollback /\ need_to_rollback /\ Rollback
  \/ ~rst /\ ~inner_rollback /\ ~need_to_rollback /\ Operate(dec, alu, lsb)

Init == /\ head = 1
        /\ tail = 1
        /\ entry = [i \in RobTag |-> EmptyEntry]
        /\ need_to_rollback = FALSE
        /\ inner_rollback = FALSE
        /\ rollback_pc = 0
        /\ out = Quiet

(***************************************************************************)
(* The fields every register holds.                                        *)
(***************************************************************************)
Entry == [ready : BOOLEAN, opcode : Opcodes, data : Word, dest : RegIndex, pc : Word,
          imm : Word, predict_pc : Word, new_pc : Word, is_io_load : BOOLEAN]
Output == [rollback : BOOLEAN, fet_rollback_pc : Word,
           commit_fet : BOOLEAN, fet_branch_taken : BOOLEAN,
           commit : BOOLEAN, commit_rf : BOOLEAN, commit_lsb : BOOLEAN,
           pc : Word, tag : RobTag \cup {NULL_TAG}, data : Word, target : RegIndex]

TypeOK == /\ head \in RobTag
          /\ tail \in RobTag
          /\ entry \in [RobTag -> Entry]
          /\ need_to_rollback \in BOOLEAN
          /\ inner_rollback \in BOOLEAN
          /\ rollback_pc \in Word
          /\ out \in Output
=============================================================================
