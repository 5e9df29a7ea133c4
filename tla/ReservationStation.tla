------------------------- MODULE ReservationStation -------------------------
(***************************************************************************)
(* ReservationStation.v: the instructions that wait for their operands;    *)
(* one ready instruction a cycle goes to the ALU.                          *)
(*                                                                         *)
(* Abstractions.  A slot that is not busy holds the empty entry: insertion *)
(* rewrites every field before one is read.  The operation register given  *)
(* to the ALU is the empty operation in a cycle without one.               *)
(***************************************************************************)
EXTENDS Header, FiniteSetsExt

VARIABLES
  entry,   \* the arrays busy, op, Vj, Qj, ... as one record per slot
  calc     \* the operation the ALU computes in this cycle

rsVars == <<entry, calc>>

EmptyEntry == [busy |-> FALSE, have_rs1 |-> FALSE, have_rs2 |-> FALSE, op |-> "NOP",
               imm |-> 0, pc |-> 0, Vj |-> 0, Vk |-> 0, Qj |-> NULL_TAG,
               Qk |-> NULL_TAG, dest |-> NULL_TAG]

NoOperation == [calculate |-> FALSE, op |-> "NOP", imm |-> 0, pc |-> 0,
                rs1val |-> 0, rs2val |-> 0, dest |-> NULL_TAG]

(***************************************************************************)
(* Wires.  The lowest-numbered slot of each kind is chosen.                *)
(***************************************************************************)
Free     == {i \in RsIndex : ~entry[i].busy}
Ready    == {i \in RsIndex : /\ entry[i].busy
                             /\ entry[i].have_rs1 => entry[i].Qj = NULL_TAG
                             /\ entry[i].have_rs2 => entry[i].Qk = NULL_TAG}
full_out == Free = {}

(***************************************************************************)
(* A broadcast of tag gives its value to an operand that waits for it.     *)
(***************************************************************************)
Hear(e, signal, tag, data) ==
  [e EXCEPT !.Qj = IF signal /\ tag = e.Qj THEN NULL_TAG ELSE @,
            !.Vj = IF signal /\ tag = e.Qj THEN data ELSE @,
            !.Qk = IF signal /\ tag = e.Qk THEN NULL_TAG ELSE @,
            !.Vk = IF signal /\ tag = e.Qk THEN data ELSE @]

\* Mutant of Arriving: a commit in the cycle of the insertion is missed.
ArrivingDeaf(dec, rob) ==
  [busy |-> TRUE, have_rs1 |-> dec.have_rs1, have_rs2 |-> dec.have_rs2,
   op |-> dec.op, imm |-> dec.imm, pc |-> dec.pc, Vj |-> dec.Vj, Vk |-> dec.Vk,
   Qj |-> dec.Qj, Qk |-> dec.Qk, dest |-> dec.next_tag]

\* An arriving instruction listens to the reorder buffer only.
Arriving(dec, rob) ==
  Hear([busy |-> TRUE, have_rs1 |-> dec.have_rs1, have_rs2 |-> dec.have_rs2,
        op |-> dec.op, imm |-> dec.imm, pc |-> dec.pc, Vj |-> dec.Vj, Vk |-> dec.Vk,
        Qj |-> dec.Qj, Qk |-> dec.Qk, dest |-> dec.next_tag],
       rob.commit, rob.tag, rob.data)

\* A waiting instruction listens to all three.
Snooping(e, alu, lsb, rob) ==
  Hear(Hear(Hear(e, alu.signal, alu.dest_tag, alu.result),
            lsb.broadcast, lsb.dest_tag, lsb.result),
       rob.commit, rob.tag, rob.data)

Operation(e) == [calculate |-> TRUE, op |-> e.op, imm |-> e.imm, pc |-> e.pc,
                 rs1val |-> e.Vj, rs2val |-> e.Vk, dest |-> e.dest]

Clear == /\ entry' = [i \in RsIndex |-> EmptyEntry]
         /\ calc' = NoOperation

\* With every slot taken the chosen index lies outside the arrays and an
\* arriving instruction is lost.
Operate(dec, alu, lsb, rob) ==
  LET arrives(i) == dec.to_rs /\ Free # {} /\ i = Min(Free)
      leaves(i)  == Ready # {} /\ i = Min(Ready)
  IN /\ entry' = [i \in RsIndex |->
                    IF arrives(i) THEN Arriving(dec, rob)
                    ELSE IF leaves(i) \/ ~entry[i].busy THEN EmptyEntry
                    ELSE Snooping(entry[i], alu, lsb, rob)]
     /\ calc' = IF Ready = {} THEN NoOperation ELSE Operation(entry[Min(Ready)])

Clock(rst, dec, alu, lsb, rob) ==
  \/ (rst \/ rob.rollback) /\ Clear
  \/ ~rst /\ ~rob.rollback /\ Operate(dec, alu, lsb, rob)

Init == /\ entry = [i \in RsIndex |-> EmptyEntry]
        /\ calc = NoOperation

Tag == RobTag \cup {NULL_TAG}

TypeOK ==
  /\ entry \in [RsIndex -> [busy : BOOLEAN, have_rs1 : BOOLEAN, have_rs2 : BOOLEAN,
                            op : InnerInst, imm : Word, pc : Word, Vj : Word, Vk : Word,
                            Qj : Tag, Qk : Tag, dest : Tag]]
  /\ calc \in [calculate : BOOLEAN, op : InnerInst, imm : Word, pc : Word,
               rs1val : Word, rs2val : Word, dest : Tag]
=============================================================================
