---------------------------- MODULE RegisterFile ----------------------------
(***************************************************************************)
(* RegisterFile.v: the architectural registers, each with the tag of the   *)
(* youngest instruction in flight that will write it.                      *)
(***************************************************************************)
EXTENDS Header

VARIABLES value, busy, rob_tag

rfVars == <<value, busy, rob_tag>>

\* What the decoder reads for a source register.
source_tag(r)   == IF busy[r] THEN rob_tag[r] ELSE NULL_TAG
source_value(r) == IF busy[r] THEN 0 ELSE value[r]

Reset == /\ value' = [r \in RegIndex |-> 0]
         /\ busy' = [r \in RegIndex |-> FALSE]
         /\ rob_tag' = [r \in RegIndex |-> NULL_TAG]

\* Nothing in flight will write a register any more; the values stay.
Rollback == /\ busy' = [r \in RegIndex |-> FALSE]
            /\ rob_tag' = [r \in RegIndex |-> NULL_TAG]
            /\ UNCHANGED value

\* Mutant of Operate: a commit frees its register, whoever holds it now.
OperateFreesAny(rob, dec) ==
  LET Writes(r) == rob.commit /\ rob.commit_rf /\ rob.target = r /\ busy[r]
      Takes(r)  == dec.occupy_rd /\ dec.rd = r /\ r # 0
  IN /\ value' = [r \in RegIndex |-> IF Writes(r) THEN rob.data ELSE value[r]]
     /\ busy' = [r \in RegIndex |-> Takes(r) \/ (busy[r] /\ ~Writes(r))]
     /\ rob_tag' = [r \in RegIndex |-> IF Takes(r) THEN dec.next_tag
                                       ELSE IF Writes(r) THEN NULL_TAG ELSE rob_tag[r]]

(***************************************************************************)
(* A commit writes the register back and frees it if no younger            *)
(* instruction has taken it; an issued instruction takes its rd, whatever  *)
(* the commit of the same cycle does.  Register 0 is never taken, so it is *)
(* never busy and never written.                                           *)
(***************************************************************************)
Operate(rob, dec) ==
  LET Writes(r) == rob.commit /\ rob.commit_rf /\ rob.target = r /\ busy[r]
      Frees(r)  == Writes(r) /\ rob_tag[r] = rob.tag
      Takes(r)  == dec.occupy_rd /\ dec.rd = r /\ r # 0
  IN /\ value' = [r \in RegIndex |-> IF Writes(r) THEN rob.data ELSE value[r]]
     /\ busy' = [r \in RegIndex |-> Takes(r) \/ (busy[r] /\ ~Frees(r))]
     /\ rob_tag' = [r \in RegIndex |-> IF Takes(r) THEN dec.next_tag
                                       ELSE IF Frees(r) THEN NULL_TAG ELSE rob_tag[r]]

Clock(rst, rob, dec) ==
  \/ rst /\ Reset
  \/ ~rst /\ rob.rollback /\ Rollback
  \/ ~rst /\ ~rob.rollback /\ Operate(rob, dec)

Init == /\ value = [r \in RegIndex |-> 0]
        /\ busy = [r \in RegIndex |-> FALSE]
        /\ rob_tag = [r \in RegIndex |-> NULL_TAG]

TypeOK == /\ value \in [RegIndex -> Word]
          /\ busy \in [RegIndex -> BOOLEAN]
          /\ rob_tag \in [RegIndex -> RobTag \cup {NULL_TAG}]
=============================================================================
