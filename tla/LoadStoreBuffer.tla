-------------------------- MODULE LoadStoreBuffer ---------------------------
(***************************************************************************)
(* LoadStoreBuffer.v: a circular queue that performs the memory accesses   *)
(* one at a time in program order.  A load from RAM runs as soon as its    *)
(* address is known; a store, and a load from an I/O address, only after   *)
(* the reorder buffer committed or released it.  A rollback discards the   *)
(* accesses that were not committed.                                       *)
(*                                                                         *)
(* Abstractions.  A slot outside the queue holds the empty entry: insertion *)
(* rewrites every field before one is read.  The payload of a pulse that   *)
(* is low is 0, and the registers of the current access are those of the   *)
(* reset while status is IDLE.                                             *)
(***************************************************************************)
EXTENDS Header, Words

VARIABLES
  head, tail,
  entry,                           \* the arrays load_store_flag, Vj, ... per slot
  unexecute_committed_cnt,
  status, current_tag, current_op, current_address,
  current_io_load_has_notice_rob,
  out

lsbVars == <<head, tail, entry, unexecute_committed_cnt, status,
             current_tag, current_op, current_address, current_io_load_has_notice_rob, out>>

EmptyEntry == [store |-> FALSE, commit_flag |-> FALSE, op |-> "NOP",
               rob_tag |-> NULL_TAG, imm |-> 0,
               Vj |-> 0, Vk |-> 0, Qj |-> NULL_TAG, Qk |-> NULL_TAG]

Quiet == [broadcast |-> FALSE, result |-> 0, dest_tag |-> NULL_TAG,
          mark_as_io_load |-> FALSE, io_load_tag |-> NULL_TAG,
          mc_request |-> FALSE, mc_store |-> FALSE, mc_goal |-> 0, mc_address |-> 0,
          mc_data |-> 0]

(***************************************************************************)
(* Wires.                                                                  *)
(***************************************************************************)
Slot(i)   == i % LSB_CAPACITY
head_next == Slot(head + 1)
tail_next == Slot(tail + 1)
full_out  == head = tail_next

in_queue(i) == \/ head < tail /\ head < i /\ i <= tail
               \/ head > tail /\ (head < i \/ i <= tail)

Address(e)  == Add(e.Vj, e.imm)
IoLoad(e)   == ~e.store /\ IsIo(Address(e))

\* Mutant of Ready: input is read as soon as the address is known.
ReadySpeculative(e) == /\ e.Qj = NULL_TAG
                       /\ e.store => e.commit_flag /\ e.Qk = NULL_TAG

Ready(e) == /\ e.Qj = NULL_TAG
            /\ e.store => e.commit_flag /\ e.Qk = NULL_TAG
            /\ IoLoad(e) => e.commit_flag

\* What a rollback must not cancel.
NeedsCommit(e) == e.store \/ IsIo(Address(e))

CanIssue == head # tail /\ status = "IDLE" /\ Ready(entry[head_next])

\* The oldest access is a load from an I/O address the buffer has not reported.
CanNotice == /\ head # tail /\ status = "IDLE" /\ ~Ready(entry[head_next])
             /\ IoLoad(entry[head_next]) /\ entry[head_next].Qj = NULL_TAG
             /\ ~current_io_load_has_notice_rob

(***************************************************************************)
(* Operands.                                                               *)
(***************************************************************************)
Hear(e, signal, tag, data) ==
  [e EXCEPT !.Qj = IF signal /\ tag = e.Qj THEN NULL_TAG ELSE @,
            !.Vj = IF signal /\ tag = e.Qj THEN data ELSE @,
            !.Qk = IF signal /\ tag = e.Qk THEN NULL_TAG ELSE @,
            !.Vk = IF signal /\ tag = e.Qk THEN data ELSE @]

\* An arriving access listens to the reorder buffer and the ALU.
Arriving(dec, alu, rob) ==
  Hear(Hear([store |-> dec.store, commit_flag |-> FALSE, op |-> dec.op,
             rob_tag |-> dec.next_tag, imm |-> dec.imm, Vj |-> dec.Vj, Vk |-> dec.Vk, Qj |-> dec.Qj, Qk |-> dec.Qk],
            rob.commit, rob.tag, rob.data),
       alu.signal, alu.dest_tag, alu.result)

\* A queued access also hears the load this buffer finishes in this cycle.
Snooping(e, alu, rob, finished, data) ==
  Hear(Hear(Hear(e, alu.signal, alu.dest_tag, alu.result),
            rob.commit, rob.tag, rob.data),
       finished, current_tag, data)

(***************************************************************************)
(* The slot a commit or release is meant for.                              *)
(***************************************************************************)
\* Mutant of CommitSlot: committed accesses that still wait are not counted.
CommitSlotOldest == head_next

CommitSlot == Slot(head_next + unexecute_committed_cnt)

(***************************************************************************)
(* The part of a cycle that does not depend on what happens at the head:   *)
(* queue contents, with the slots outside (from, to] emptied.              *)
(***************************************************************************)
Within(i, from, to) == Slot(i - from) # 0 /\ Slot(i - from) <= Slot(to - from)

Contents(from, to, inserts, dec, alu, rob, finished, data) ==
  [i \in LsbIndex |->
     IF ~Within(i, from, to) THEN EmptyEntry
     ELSE IF inserts /\ i = tail_next
       THEN [Arriving(dec, alu, rob) EXCEPT !.commit_flag = rob.commit_lsb /\ i = CommitSlot]
       ELSE [Snooping(entry[i], alu, rob, finished, data) EXCEPT
               !.commit_flag = @ \/ (rob.commit_lsb /\ i = CommitSlot)]]

\* Mutant of Count: an access that is issued is still counted.
CountOnlyUp(rob) ==
  unexecute_committed_cnt' = Slot(unexecute_committed_cnt + Flag(rob.commit_lsb))

Count(rob) ==
  unexecute_committed_cnt' =
    Slot(unexecute_committed_cnt + Flag(rob.commit_lsb)
           - Flag(CanIssue /\ NeedsCommit(entry[head_next])))

Issue ==
  LET e == entry[head_next]
  IN /\ head' = head_next
     /\ status' = IF e.store THEN "STORE" ELSE "LOAD"
     /\ current_tag' = e.rob_tag
     /\ current_op' = e.op
     /\ current_address' = Address(e)
     /\ current_io_load_has_notice_rob' = FALSE
     /\ out' = [Quiet EXCEPT !.mc_request = TRUE, !.mc_store = e.store, !.mc_goal = Goal(e.op),
                             !.mc_address = Address(e), !.mc_data = e.Vk]

Notice == /\ current_io_load_has_notice_rob' = TRUE
          /\ out' = [Quiet EXCEPT !.mark_as_io_load = TRUE,
                                  !.io_load_tag = entry[head_next].rob_tag]
          /\ UNCHANGED <<head, status, current_tag, current_op, current_address>>

Idle == /\ status' = "IDLE"
        /\ current_tag' = NULL_TAG
        /\ current_op' = "NOP"
        /\ current_address' = 0

\* The access under way ends: a load broadcasts its result.
Finish(mc) ==
  /\ Idle
  /\ out' = IF status = "LOAD"
              THEN [Quiet EXCEPT !.broadcast = TRUE, !.result = LoadResult(current_op, mc.lsb_data),
                                 !.dest_tag = current_tag]
              ELSE Quiet
  /\ UNCHANGED <<head, current_io_load_has_notice_rob>>

Stay == /\ out' = Quiet
        /\ UNCHANGED <<head, status, current_tag, current_op, current_address,
                       current_io_load_has_notice_rob>>

Finishes(mc) == status # "IDLE" /\ mc.lsb_ready

(***************************************************************************)
(* A cycle without rollback.                                               *)
(***************************************************************************)
Operate(dec, alu, rob, mc) ==
  /\ tail' = IF dec.to_lsb THEN tail_next ELSE tail
  /\ \/ CanIssue /\ Issue
     \/ CanNotice /\ Notice
     \/ Finishes(mc) /\ Finish(mc)
     \/ ~CanIssue /\ ~CanNotice /\ ~Finishes(mc) /\ Stay
  /\ entry' = Contents(head', tail', dec.to_lsb, dec, alu, rob,
                       Finishes(mc) /\ status = "LOAD", LoadResult(current_op, mc.lsb_data))
  /\ Count(rob)

(***************************************************************************)
(* The cycle of a rollback: only what was committed stays in the queue.  A *)
(* load from RAM that is under way is dropped; a store, or a load from an  *)
(* I/O address, runs on.                                                   *)
(***************************************************************************)
\* Mutant of Abandons: a load under way is finished across the rollback.
AbandonsNone == FALSE

Abandons == status = "LOAD" /\ ~IsIo(current_address)

Rollback(dec, alu, rob, mc) ==
  /\ tail' = Slot(head + unexecute_committed_cnt)
  /\ \/ CanIssue /\ NeedsCommit(entry[head_next]) /\ Issue
     \/ CanNotice /\ Notice
     \/ /\ Abandons
        /\ Idle /\ out' = Quiet
        /\ UNCHANGED <<head, current_io_load_has_notice_rob>>
     \/ Finishes(mc) /\ ~Abandons /\ Finish(mc)
     \/ /\ ~(CanIssue /\ NeedsCommit(entry[head_next])) /\ ~CanNotice
        /\ ~Abandons /\ ~Finishes(mc)
        /\ Stay
  /\ entry' = Contents(head', tail', FALSE, dec, alu, rob,
                       Finishes(mc) /\ status = "LOAD" /\ ~Abandons,
                       LoadResult(current_op, mc.lsb_data))
  /\ Count(rob)

Reset == /\ head' = 0
         /\ tail' = 0
         /\ entry' = [i \in LsbIndex |-> EmptyEntry]
         /\ unexecute_committed_cnt' = 0
         /\ Idle
         /\ current_io_load_has_notice_rob' = FALSE
         /\ out' = Quiet

Clock(rst, dec, alu, rob, mc) ==
  \/ rst /\ Reset
  \/ ~rst /\ rob.rollback /\ Rollback(dec, alu, rob, mc)
  \/ ~rst /\ ~rob.rollback /\ Operate(dec, alu, rob, mc)

Init == /\ head = 0
        /\ tail = 0
        /\ entry = [i \in LsbIndex |-> EmptyEntry]
        /\ unexecute_committed_cnt = 0
        /\ status = "IDLE"
        /\ current_tag = NULL_TAG
        /\ current_op = "NOP"
        /\ current_address = 0
        /\ current_io_load_has_notice_rob = FALSE
        /\ out = Quiet

Tag == RobTag \cup {NULL_TAG}

TypeOK ==
  /\ head \in LsbIndex
  /\ tail \in LsbIndex
  /\ entry \in [LsbIndex -> [store : BOOLEAN, commit_flag : BOOLEAN, op : InnerInst, rob_tag : Tag,
                             imm : Word, Vj : Word, Vk : Word, Qj : Tag, Qk : Tag]]
  /\ unexecute_committed_cnt \in LsbIndex
  /\ status \in {"IDLE", "LOAD", "STORE"}
  /\ current_tag \in Tag
  /\ current_op \in InnerInst
  /\ current_address \in Word
  /\ current_io_load_has_notice_rob \in BOOLEAN
  /\ out \in [broadcast : BOOLEAN, result : Word, dest_tag : Tag,
              mark_as_io_load : BOOLEAN, io_load_tag : Tag, mc_request : BOOLEAN,
              mc_store : BOOLEAN, mc_goal : 0 .. WORD_BYTES, mc_address : Word, mc_data : Word]
=============================================================================
