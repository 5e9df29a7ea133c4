-------------------------------- MODULE WsCpu --------------------------------
(***************************************************************************)
(* tools/ws_cpu/CPU.cpp: a simulator of an out-of-order processor.  run    *)
(* calls ten functions in a fixed order, over and over: one call of each   *)
(* is one clock cycle.  They read the buffers as Update last copied them   *)
(* (the names that end in _pre) and write the buffers themselves, and what *)
(* one prepares for another waits in a vector (the names up_...) until     *)
(* that one's turn.  An action is one call, and stage is the next.         *)
(*                                                                         *)
(* A word that is no instruction is translated to a load (WsTranslate),    *)
(* and programs here have none; addresses outside mem are not used.  What  *)
(* mem holds where no program was loaded is not initialised.               *)
(***************************************************************************)
EXTENDS WsQueue, WsExecute, SequencesExt

CONSTANTS Programs,        \* the instruction memories considered
          EXIT_PORT,       \* the address whose store ends the program (4112 in the code)
          A0               \* the register printed at the end (10 in the code)

\* An instruction as translate.hpp leaves it; "END" is the one that stops the simulator.
Instructions == [op : InnerInst \cup {"END"}, rd : RegIndex, rs1 : RegIndex, rs2 : RegIndex,
                 imm : Word]

ASSUME ProgramAssumption == A0 \in RegIndex /\ Programs \subseteq [Word -> Instructions]

VARIABLES
  stage, program, pc, mem, reg, reg_pre,
  RS, RS_pre, ROB, ROB_pre, IQ, IQ_pre, LSB, LSB_pre,
  EX_Run_, up_ROB, up_RS, up_LSB, up_reg_q_ex, up_reg_v_ex,
  commit_, Number_ROB, Number_Result, EX_to_ROB, LSB_to_ROB, LSB_to_ROB_pre,
  commited_, exited, printed,
  committed_pc             \* history: where the committed instructions lead

regs     == <<reg, reg_pre>>
buffers  == <<RS, RS_pre, ROB, ROB_pre, IQ, IQ_pre, LSB, LSB_pre>>
vectors  == <<up_ROB, up_RS, up_LSB, up_reg_q_ex, up_reg_v_ex, EX_Run_, commit_>>
results  == <<Number_ROB, Number_Result, EX_to_ROB, LSB_to_ROB, LSB_to_ROB_pre>>
ended    == <<exited, printed>>
vars     == <<stage, program, pc, mem, regs, buffers, vectors, results, commited_, ended,
              committed_pc>>

NO_ENTRY == MAXN + 1       \* no entry of the reorder buffer
NO_TAG   == -1             \* an operand that is known
NoResult == [first |-> NO_ENTRY, second |-> 0]

EmptyRob == [ready |-> FALSE, tp |-> "value", result |-> 0, addr |-> 0, offset |-> 0,
             pc |-> 0, end |-> FALSE]
EmptyRs  == [status |-> FALSE, op |-> "+", vi |-> 0, vj |-> 0, qi |-> NO_TAG, qj |-> NO_TAG,
             idx |-> 0]
EmptyLsb == [op |-> "LB", idx |-> 0, imm |-> 0, q |-> NO_TAG, q2 |-> NO_TAG, v |-> 0,
             v2 |-> 0, commited |-> FALSE, round |-> 3]
EmptyIq  == [inst |-> ZeroInstruction, pc |-> 0]

EmptyQueue(e) == [queue |-> [s \in Slot |-> e], head |-> 0, tail |-> 0]
NoStations    == [s \in Slot |-> EmptyRs]

(***************************************************************************)
(* RS.hpp and LSB.hpp.  A search returns MAXN where the code returns -1.   *)
(***************************************************************************)
Empty(rs)     == {s \in Slot : ~rs[s].status}
Available(rs) == {s \in Slot : rs[s].status /\ rs[s].qi = NO_TAG /\ rs[s].qj = NO_TAG}

find_empty(rs)     == Min(Empty(rs) \cup {MAXN})
find_available(rs) == Min(Available(rs) \cup {MAXN})

\* Mutant of rs_update: a station that waits twice for one result gets it once.
rs_update_once(rs, idx, res) ==
  [s \in Slot |->
     CASE ~rs[s].status   -> rs[s]
       [] rs[s].qi = idx  -> [rs[s] EXCEPT !.vi = res, !.qi = NO_TAG]
       [] rs[s].qj = idx  -> [rs[s] EXCEPT !.vj = res, !.qj = NO_TAG]
       [] OTHER           -> rs[s]]

rs_update(rs, idx, res) ==
  [s \in Slot |->
     IF ~rs[s].status THEN rs[s]
     ELSE [rs[s] EXCEPT !.vi = IF rs[s].qi = idx THEN res ELSE @,
                        !.qi = IF @ = idx THEN NO_TAG ELSE @,
                        !.vj = IF rs[s].qj = idx THEN res ELSE @,
                        !.qj = IF @ = idx THEN NO_TAG ELSE @]]

\* Mutant of lsb_Update: a store is told of its address but not of its value.
lsb_Update_once(b, idx, res) ==
  [b EXCEPT !.queue = [s \in Slot |->
     LET e == b.queue[s] IN
     IF s \notin Held(b) THEN e
     ELSE [e EXCEPT !.commited = @ \/ (e.idx = idx /\ e.op \in StoreOps),
                    !.v = IF e.q = idx THEN res ELSE @,
                    !.q = IF @ = idx THEN NO_TAG ELSE @]]]

lsb_Update(b, idx, res) ==
  [b EXCEPT !.queue = [s \in Slot |->
     LET e == b.queue[s] IN
     IF s \notin Held(b) THEN e
     ELSE [e EXCEPT !.commited = @ \/ (e.idx = idx /\ e.op \in StoreOps),
                    !.v  = IF e.q = idx THEN res ELSE @,
                    !.q  = IF @ = idx THEN NO_TAG ELSE @,
                    !.v2 = IF e.q2 = idx THEN res ELSE @,
                    !.q2 = IF @ = idx THEN NO_TAG ELSE @]]]

\* Mutant of lsb_clear: the stores that are committed but not yet done go too.
lsb_clear_all(b) == [b EXCEPT !.tail = b.head]

\* Mutant of lsb_clear: the accesses behind the branch stay.
lsb_clear_none(b) == b

\* Only the committed stores stay: they are in front.
lsb_clear(b) ==
  LET uncommitted == {k \in DOMAIN Visited(b) : ~b.queue[Visited(b)[k]].commited}
  IN IF uncommitted = {} THEN b ELSE [b EXCEPT !.tail = Visited(b)[Min(uncommitted)]]

\* push_back, for each element of a vector.
Pushed(b, es) == FoldLeft(push_back, b, es)

(***************************************************************************)
(* run: the order of the calls.                                            *)
(***************************************************************************)
Turn(this, next) == /\ exited = "no"
                    /\ stage = this
                    /\ stage' = next

Init ==
  /\ stage = "ROB_Run"
  /\ program \in Programs
  /\ pc = 0
  /\ \E leftover \in Byte : mem = [x \in Word |-> leftover]
  /\ reg = [r \in RegIndex |-> [v |-> 0, q |-> 0, status |-> FALSE]]
  /\ reg_pre = reg
  /\ RS = NoStations /\ RS_pre = NoStations
  /\ ROB = EmptyQueue(EmptyRob) /\ ROB_pre = ROB
  /\ IQ = EmptyQueue(EmptyIq) /\ IQ_pre = IQ
  /\ LSB = EmptyQueue(EmptyLsb) /\ LSB_pre = LSB
  /\ EX_Run_ = <<>> /\ up_ROB = <<>> /\ up_RS = <<>> /\ up_LSB = <<>>
  /\ up_reg_q_ex = <<>> /\ up_reg_v_ex = <<>> /\ commit_ = <<>>
  /\ Number_ROB = NO_ENTRY /\ Number_Result = 0
  /\ EX_to_ROB = NoResult /\ LSB_to_ROB = NoResult /\ LSB_to_ROB_pre = NoResult
  /\ commited_ = FALSE
  /\ exited = "no" /\ printed = 0
  /\ committed_pc = 0

(***************************************************************************)
(* The stages.                                                             *)
(***************************************************************************)
Marked(b, r) == IF r.first \in Slot
                  THEN [b EXCEPT !.queue[r.first].ready = TRUE,
                                 !.queue[r.first].result = r.second]
                  ELSE b

\* The reorder buffer takes the new entry and the two results of the last cycle.
NewROB == Marked(Marked(IF isfull(ROB_pre) THEN ROB ELSE Pushed(ROB, up_ROB),
                        LSB_to_ROB_pre), EX_to_ROB)

ROB_Run ==
  LET front  == get_front(ROB_pre)
      leaves == ~isempty(ROB_pre) /\ ~front.end /\ (front.ready \/ front.tp = "store")
  IN /\ Turn("ROB_Run", "IF_Run")
     /\ isempty(ROB_pre) \/ ~front.end
     /\ up_ROB' = <<>>
     /\ ROB' = IF leaves THEN pop_front(NewROB) ELSE NewROB
     /\ commit_' = IF leaves THEN <<[rob |-> front, idx |-> ROB.head]>> ELSE commit_
     /\ UNCHANGED <<program, pc, mem, regs, RS, RS_pre, ROB_pre, IQ, IQ_pre, LSB, LSB_pre,
                    up_RS, up_LSB, up_reg_q_ex, up_reg_v_ex, EX_Run_, results, commited_,
                    ended, committed_pc>>

\* ROB_Run on the instruction that ends the program: it prints a0 and exits.
ROB_Run_end ==
  /\ Turn("ROB_Run", "IF_Run")
  /\ ~isempty(ROB_pre) /\ get_front(ROB_pre).end
  /\ exited' = "end"
  /\ printed' = reg_pre[A0].v % 2^BYTE_BITS
  /\ UNCHANGED <<program, pc, mem, regs, buffers, vectors, results, commited_, committed_pc>>

IF_Run ==
  /\ Turn("IF_Run", "RS_Run")
  /\ IF isfull(IQ) THEN UNCHANGED <<pc, IQ>>
     ELSE /\ pc' = Add(pc, INST_BYTES)
          /\ IQ' = push_back(IQ, [inst |-> program[pc], pc |-> pc])
  /\ UNCHANGED <<program, mem, regs, RS, RS_pre, ROB, ROB_pre, IQ_pre, LSB, LSB_pre, vectors,
                 results, commited_, ended, committed_pc>>

Delivered(rs) == IF Number_ROB \in Slot THEN rs_update(rs, Number_ROB, Number_Result) ELSE rs

RS_Run ==
  LET placed == IF up_RS = <<>> THEN RS
                ELSE [RS EXCEPT ![find_empty(RS_pre)] = Head(up_RS)]
      pos    == find_available(RS_pre)
  IN /\ Turn("RS_Run", "LSB_Run")
     /\ up_RS' = <<>>
     /\ IF pos = MAXN
          THEN RS' = Delivered(placed) /\ UNCHANGED EX_Run_
          ELSE /\ EX_Run_' = Append(EX_Run_, RS_pre[pos])
               /\ RS' = Delivered([placed EXCEPT ![pos].status = FALSE])
     /\ UNCHANGED <<program, pc, mem, regs, RS_pre, ROB, ROB_pre, IQ, IQ_pre, LSB, LSB_pre,
                    up_ROB, up_LSB, up_reg_q_ex, up_reg_v_ex, commit_, results, commited_,
                    ended, committed_pc>>

\* LSB_Run before it looks at the front: new accesses enter, the commit is told.
NewLSB == LET pushed == Pushed(LSB, up_LSB)
          IN IF Number_ROB \in Slot THEN lsb_Update(pushed, Number_ROB, Number_Result)
                                    ELSE pushed

\* It counts the front down, once nothing is missing.
Counting == LET front == get_front(LSB_pre)
            IN /\ ~isempty(LSB_pre)
               /\ front.commited \/ front.op \in LoadOps
               /\ front.q = NO_TAG /\ front.q2 = NO_TAG

Counted == [NewLSB EXCEPT !.queue[NewLSB.head].round = @ - 1]
Due     == Counting /\ get_front(Counted).round = 0
Target  == Add(get_front(LSB_pre).v, get_front(LSB_pre).imm)

LSB_wait ==
  /\ ~Due
  /\ LSB' = IF Counting THEN Counted ELSE NewLSB
  /\ LSB_to_ROB' = [LSB_to_ROB EXCEPT !.first = NO_ENTRY]
  /\ UNCHANGED <<mem, exited>>

LSB_load ==
  LET e == get_front(LSB_pre) IN
  /\ Due /\ e.op \in LoadOps
  /\ LSB' = pop_front(Counted)
  /\ LSB_to_ROB' = [first  |-> e.idx,
                    second |-> LoadResult(e.op, ReadBytes(mem, Target, Goal(e.op)))]
  /\ UNCHANGED <<mem, exited>>

LSB_store ==
  LET e == get_front(LSB_pre) IN
  /\ Due /\ e.op \in StoreOps /\ Target # EXIT_PORT
  /\ LSB' = pop_front(Counted)
  /\ mem' = WriteBytes(mem, Target, Goal(e.op), e.v2)
  /\ LSB_to_ROB' = [LSB_to_ROB EXCEPT !.first = NO_ENTRY]
  /\ UNCHANGED exited

\* The process exits: nothing of its state is seen again.
LSB_exit ==
  /\ Due /\ get_front(LSB_pre).op \in StoreOps /\ Target = EXIT_PORT
  /\ exited' = "port"
  /\ UNCHANGED <<LSB, mem, LSB_to_ROB>>

LSB_Run ==
  /\ Turn("LSB_Run", "REG_Run")
  /\ LSB_wait \/ LSB_load \/ LSB_store \/ LSB_exit
  /\ up_LSB' = <<>>
  /\ UNCHANGED <<program, pc, regs, RS, RS_pre, ROB, ROB_pre, IQ, IQ_pre, LSB_pre, up_ROB,
                 up_RS, up_reg_q_ex, up_reg_v_ex, EX_Run_, commit_, Number_ROB, Number_Result,
                 EX_to_ROB, LSB_to_ROB_pre, commited_, printed, committed_pc>>

\* Mutant of Assigned: the register is free whoever it waits for.
AssignedFree(rf, w) ==
  IF w.rd = 0 THEN rf ELSE [rf EXCEPT ![w.rd].v = w.value, ![w.rd].status = FALSE]

Assigned(rf, w) ==
  IF w.rd = 0 THEN rf
  ELSE [rf EXCEPT ![w.rd].v = w.value,
                  ![w.rd].status = @ /\ rf[w.rd].q # w.tag]

Renamed(rf, n) ==
  IF n.rd = 0 THEN rf ELSE [rf EXCEPT ![n.rd].status = TRUE, ![n.rd].q = n.tag]

\* If an instruction was committed it also prints the registers.
REG_Run ==
  /\ Turn("REG_Run", "Update")
  /\ reg' = FoldLeft(Renamed, FoldLeft(Assigned, reg, up_reg_v_ex), up_reg_q_ex)
  /\ up_reg_q_ex' = <<>> /\ up_reg_v_ex' = <<>>
  /\ UNCHANGED <<program, pc, mem, reg_pre, buffers, up_ROB, up_RS, up_LSB, EX_Run_, commit_,
                 results, commited_, ended, committed_pc>>

Update ==
  /\ Turn("Update", "Execute")
  /\ RS_pre' = RS /\ ROB_pre' = ROB /\ IQ_pre' = IQ /\ LSB_pre' = LSB /\ reg_pre' = reg
  /\ LSB_to_ROB_pre' = LSB_to_ROB
  /\ UNCHANGED <<program, pc, mem, reg, RS, ROB, IQ, LSB, vectors, Number_ROB, Number_Result,
                 EX_to_ROB, LSB_to_ROB, commited_, ended, committed_pc>>

Execute ==
  /\ Turn("Execute", "ISSUE_Run")
  /\ EX_to_ROB' = IF EX_Run_ = <<>> THEN [EX_to_ROB EXCEPT !.first = NO_ENTRY]
                  ELSE LET e == Head(EX_Run_)
                       IN [first |-> e.idx, second |-> EX_to_ROB_of(e.op, e.vi, e.vj)]
  /\ EX_Run_' = <<>>
  /\ UNCHANGED <<program, pc, mem, regs, buffers, up_ROB, up_RS, up_LSB, up_reg_q_ex,
                 up_reg_v_ex, commit_, Number_ROB, Number_Result, LSB_to_ROB, LSB_to_ROB_pre,
                 commited_, ended, committed_pc>>

(***************************************************************************)
(* ISSUE_Run: the instruction in front of the queue gets the entry at the  *)
(* tail of the reorder buffer, and what it needs of its operands.  A       *)
(* branch, a store and jalr give no register a new name.                   *)
(***************************************************************************)
Issuing == IQ_pre.queue[IQ_pre.head].inst

\* Mutants of HasRoom: one of the buffers is not asked.
HasRoomButLSB == ~isempty(IQ_pre) /\ ~isfull(ROB) /\ find_empty(RS_pre) # MAXN
HasRoomButROB == ~isempty(IQ_pre) /\ ~isfull(LSB) /\ find_empty(RS_pre) # MAXN

HasRoom == /\ ~isempty(IQ_pre)
           /\ ~isfull(ROB) /\ ~isfull(LSB)
           /\ find_empty(RS_pre) # MAXN

Known(value) == [q |-> NO_TAG, v |-> value]
Operand(r)   == IF reg_pre[r].status THEN [q |-> reg_pre[r].q, v |-> 0]
                                     ELSE Known(reg_pre[r].v)

Rs1 == Operand(Issuing.rs1)
Rs2 == Operand(Issuing.rs2)
Imm == Known(Issuing.imm)
Second(withImmediate) == IF Issuing.op \in withImmediate THEN Imm ELSE Rs2

Entry(tp, offset) == [EmptyRob EXCEPT !.tp = tp, !.addr = Issuing.rd, !.offset = offset,
                                      !.pc = get_front(IQ_pre).pc]

Station(op, i, j) == <<[status |-> TRUE, op |-> op, vi |-> i.v, qi |-> i.q, vj |-> j.v,
                        qj |-> j.q, idx |-> ROB.tail]>>

Access(i, j) == <<[EmptyLsb EXCEPT !.op = Issuing.op, !.idx = ROB.tail, !.imm = Issuing.imm,
                                   !.q = i.q, !.v = i.v, !.q2 = j.q, !.v2 = j.v]>>

NewName == <<[rd |-> Issuing.rd, tag |-> ROB.tail]>>

Issue(rob, stations, accesses, names) ==
  /\ IQ' = pop_front(IQ)
  /\ up_ROB' = Append(up_ROB, rob)
  /\ up_RS' = up_RS \o stations
  /\ up_LSB' = up_LSB \o accesses
  /\ up_reg_q_ex' = up_reg_q_ex \o names

IssueEnd == /\ Issuing.op = "END"
            /\ up_ROB' = Append(up_ROB, [EmptyRob EXCEPT !.end = TRUE])
            /\ UNCHANGED <<IQ, up_RS, up_LSB, up_reg_q_ex>>

IssueMemory ==
  \/ /\ Issuing.op \in LoadOps
     /\ Issue(Entry("value", 0), <<>>, Access(Rs1, Known(0)), NewName)
  \/ /\ Issuing.op \in StoreOps
     /\ Issue([Entry("store", 0) EXCEPT !.addr = 0], <<>>, Access(Rs1, Rs2), <<>>)

IssueArithmetic ==
  /\ Issuing.op \in DOMAIN ArithmeticOp
  /\ Issue(Entry("value", 0), Station(ArithmeticOp[Issuing.op], Rs1, Second({"ADDI"})), <<>>,
           NewName)

\* auipc adds the pc of the fetch, which may have moved on.
IssueUpper ==
  /\ Issuing.op \in DOMAIN UpperOp
  /\ Issue(Entry("value", 0),
           Station(UpperOp[Issuing.op],
                   IF Issuing.op = "LUI" THEN Imm
                   ELSE Known(Sub(Add(Issuing.imm, pc), INST_BYTES)),
                   Known(0)),
           <<>>, NewName)

IssueLogic ==
  /\ Issuing.op \in DOMAIN LogicOp
  /\ Issue(Entry("value", 0),
           Station(LogicOp[Issuing.op], Rs1, Second({"XORI", "ORI", "ANDI"})), <<>>, NewName)

IssueShift ==
  /\ Issuing.op \in DOMAIN ShiftOp
  /\ Issue(Entry("value", 0),
           Station(ShiftOp[Issuing.op], Rs1, Second({"SLLI", "SRLI", "SRAI"})), <<>>, NewName)

IssueCompare ==
  /\ Issuing.op \in DOMAIN CompareOp
  /\ Issue(Entry("value", 0),
           Station(CompareOp[Issuing.op], Rs1, Second({"SLTI", "SLTIU"})), <<>>, NewName)

IssueBranch ==
  /\ Issuing.op \in DOMAIN BranchOp
  /\ Issue(Entry("branch", Issuing.imm), Station(BranchOp[Issuing.op], Rs1, Rs2), <<>>, <<>>)

IssueJal ==
  /\ Issuing.op = "JAL"
  /\ Issue(Entry("jal", Issuing.imm), Station("+", Known(get_front(IQ_pre).pc), Known(0)),
           <<>>, NewName)

IssueJalr ==
  /\ Issuing.op = "JALR"
  /\ Issue(Entry("jalr", get_front(IQ_pre).pc), Station("+", Rs1, Imm), <<>>, <<>>)

ISSUE_Run ==
  /\ Turn("ISSUE_Run", "Commit")
  /\ \/ ~HasRoom /\ UNCHANGED <<IQ, up_ROB, up_RS, up_LSB, up_reg_q_ex>>
     \/ /\ HasRoom
        /\ \/ IssueEnd \/ IssueMemory \/ IssueArithmetic \/ IssueUpper \/ IssueLogic
           \/ IssueShift \/ IssueCompare \/ IssueBranch \/ IssueJal \/ IssueJalr
  /\ UNCHANGED <<program, pc, mem, regs, RS, RS_pre, ROB, ROB_pre, IQ_pre, LSB, LSB_pre,
                 up_reg_v_ex, EX_Run_, commit_, results, commited_, ended, committed_pc>>

(***************************************************************************)
(* Commit: the entry that left the reorder buffer takes effect.            *)
(***************************************************************************)
CommitNothing ==
  /\ commit_ = <<>>
  /\ Number_ROB' = NO_ENTRY
  /\ UNCHANGED <<pc, regs, buffers, vectors, Number_Result, EX_to_ROB, LSB_to_ROB,
                 LSB_to_ROB_pre, committed_pc>>

Committed == Head(commit_).rob

\* A value, a store, or a branch that is not taken.
CommitInOrder ==
  /\ commit_ # <<>>
  /\ Committed.tp \in {"value", "store"} \/ (Committed.tp = "branch" /\ Committed.result # 1)
  /\ commit_' = <<>>
  /\ Number_ROB' = Head(commit_).idx
  /\ IF Committed.tp = "value"
       THEN /\ Number_Result' = Committed.result
            /\ up_reg_v_ex' = Append(up_reg_v_ex, [rd |-> Committed.addr, tag |-> Number_ROB',
                                                   value |-> Committed.result])
       ELSE UNCHANGED <<Number_Result, up_reg_v_ex>>
  /\ committed_pc' = Add(Committed.pc, INST_BYTES)
  /\ UNCHANGED <<pc, regs, buffers, up_ROB, up_RS, up_LSB, up_reg_q_ex, EX_Run_, EX_to_ROB,
                 LSB_to_ROB, LSB_to_ROB_pre>>

\* Clear: everything younger is dropped, and no register waits any more.
Clear ==
  /\ RS' = NoStations /\ RS_pre' = NoStations
  /\ LSB' = lsb_clear(LSB) /\ LSB_pre' = lsb_clear(LSB_pre)
  /\ ROB' = Emptied(ROB) /\ ROB_pre' = Emptied(ROB_pre)
  /\ IQ' = Emptied(IQ) /\ IQ_pre' = Emptied(IQ_pre)
  /\ up_ROB' = <<>> /\ up_RS' = <<>> /\ up_LSB' = <<>> /\ up_reg_q_ex' = <<>>
  /\ EX_Run_' = <<>> /\ commit_' = <<>>
  /\ Number_ROB' = NO_ENTRY
  /\ EX_to_ROB' = NoResult /\ LSB_to_ROB' = NoResult /\ LSB_to_ROB_pre' = NoResult
  /\ reg' = [r \in RegIndex |-> [reg[r] EXCEPT !.q = 0, !.status = FALSE]]
  /\ reg_pre' = [r \in RegIndex |-> [reg_pre[r] EXCEPT !.q = 0, !.status = FALSE]]

\* A taken branch, jal or jalr.  The two jumps also write the address behind them.
CommitJump ==
  /\ commit_ # <<>>
  /\ Committed.tp \in {"jal", "jalr"} \/ (Committed.tp = "branch" /\ Committed.result = 1)
  /\ Clear
  /\ pc' = IF Committed.tp = "jalr" THEN Committed.result - (Committed.result % 2)
                                    ELSE Add(Committed.offset, Committed.pc)
  /\ IF Committed.tp = "branch"
       THEN Number_Result' = Number_Result /\ up_reg_v_ex' = <<>>
       ELSE /\ Number_Result' = Add(Committed.pc, INST_BYTES)
            /\ up_reg_v_ex' = <<[rd |-> Committed.addr, tag |-> NO_ENTRY,
                                 value |-> Number_Result']>>
  /\ committed_pc' = pc'

Commit ==
  /\ Turn("Commit", "ROB_Run")
  /\ commited_' = (commit_ # <<>>)
  /\ CommitNothing \/ CommitInOrder \/ CommitJump
  /\ UNCHANGED <<program, mem, ended>>

Next == \/ ROB_Run \/ ROB_Run_end \/ IF_Run \/ RS_Run \/ LSB_Run \/ REG_Run
        \/ Update \/ Execute \/ ISSUE_Run \/ Commit

\* The loop never waits for anything.
Spec == Init /\ [][Next]_vars /\ WF_vars(Next)

(***************************************************************************)
(* Properties.  The state is looked at where the loop starts over, except  *)
(* where said.                                                             *)
(***************************************************************************)
AtTop == stage = "ROB_Run" /\ exited = "no"

\* A vector never holds two elements: RS_Run and Execute would look at one of them.
TypeOK ==
  /\ pc \in Word /\ committed_pc \in Word /\ printed \in Byte
  /\ mem \in [Word -> Byte]
  /\ \A rf \in {reg, reg_pre} :
       rf \in [RegIndex -> [v : Word, q : Slot, status : BOOLEAN]]
  /\ \A b \in {ROB, ROB_pre} :
       b \in QueueOf([ready : BOOLEAN, tp : {"value", "branch", "jal", "jalr", "store"},
                      result : Word, addr : RegIndex, offset : Word, pc : Word,
                      end : BOOLEAN])
  /\ \A b \in {LSB, LSB_pre} :
       b \in QueueOf([op : LoadOps \cup StoreOps, idx : Slot, imm : Word,
                      q : Slot \cup {NO_TAG}, q2 : Slot \cup {NO_TAG}, v : Word, v2 : Word,
                      commited : BOOLEAN, round : 0 .. 3])
  /\ \A b \in {IQ, IQ_pre} :
       b \in QueueOf([inst : Instructions, pc : Word])
  /\ \A v \in {up_ROB, up_RS, up_LSB, up_reg_q_ex, up_reg_v_ex, EX_Run_, commit_} : Len(v) <= 1
  /\ \A r \in {EX_to_ROB, LSB_to_ROB, LSB_to_ROB_pre} :
       r \in [first : Slot \cup {NO_ENTRY}, second : Word]

\* The room that ISSUE_Run found is still there when the buffer takes the instruction: none of
\* the three tests and drops, or overwrites, what was prepared for it.
NothingLost ==
  exited = "no" =>
    /\ stage = "ROB_Run" /\ up_ROB # <<>> => ~isfull(ROB) /\ ~isfull(ROB_pre)
    /\ stage = "RS_Run" /\ up_RS # <<>>   => find_empty(RS_pre) # MAXN
    /\ stage = "LSB_Run" /\ up_LSB # <<>> => ~isfull(LSB)

\* The reorder buffer and the instruction about to enter it.
Entering    == IF up_ROB = <<>> THEN {} ELSE {ROB.tail}
InFlight    == Held(ROB) \cup Entering
Entered(s)  == IF s \in Entering THEN Head(up_ROB) ELSE ROB.queue[s]
Renames(s)  == ~Entered(s).end /\ Entered(s).tp \in {"value", "jal"}
Older(s, t) == s \in InFlight /\ Age(ROB, s) < Age(ROB, t)

Stations == {RS[s] : s \in {s \in Slot : RS[s].status}} \cup ToSet(up_RS)
Accesses == {LSB.queue[s] : s \in Held(LSB)} \cup ToSet(up_LSB)

\* An instruction whose result is not there is in exactly one place: a station, the load store
\* buffer, or on its way from one of the two.  One whose result is there is in none, and a
\* store is in the load store buffer until it is committed.
OneWorkerEach ==
  AtTop => \A s \in InFlight :
    LET places == Cardinality({e \in Stations : e.idx = s})
                    + Cardinality({e \in Accesses : e.idx = s /\ ~e.commited})
                    + Flag(EX_to_ROB.first = s) + Flag(LSB_to_ROB_pre.first = s)
    IN IF Entered(s).end THEN TRUE
       ELSE places = IF Entered(s).ready THEN 0 ELSE 1

\* An operand that is waited for is still to come: its tag is that of an older instruction
\* in flight that gives a value, or of the one just committed.  A committed store waits for
\* nothing: Clear would leave it waiting forever.
OperandsStillToCome ==
  AtTop =>
    /\ \A e \in Stations : \A t \in {e.qi, e.qj} \ {NO_TAG} :
         t = Number_ROB \/ (Older(t, e.idx) /\ Renames(t))
    /\ \A e \in Accesses : \A t \in {e.q, e.q2} \ {NO_TAG} :
         /\ ~e.commited /\ (e.op \in LoadOps \/ e.idx # Number_ROB)
         /\ t = Number_ROB \/ (Older(t, e.idx) /\ Renames(t))

\* A register is marked exactly if an instruction in flight writes it, and it names the
\* youngest of them: neither a reused entry nor a squash leaves another name behind.
RegistersNameYoungest ==
  AtTop =>
    LET rf == FoldLeft(Renamed, FoldLeft(Assigned, reg, up_reg_v_ex), up_reg_q_ex)
    IN \A r \in RegIndex \ {0} :
         LET writers == {s \in InFlight : Renames(s) /\ Entered(s).addr = r}
         IN IF writers = {} THEN ~rf[r].status
            ELSE rf[r].status /\ rf[r].q \in writers
                   /\ \A s \in writers : s = rf[r].q \/ Older(s, rf[r].q)

\* The load store buffer holds committed stores, oldest first, and behind them the accesses
\* in flight in program order: what lsb_clear keeps is a prefix, and a load is never before a
\* store it follows in the program.
AccessesInProgramOrder ==
  AtTop =>
    LET order == Visited(LSB)
        done(k) == LSB.queue[order[k]].commited
                     \/ (LSB.queue[order[k]].op \in StoreOps
                           /\ LSB.queue[order[k]].idx = Number_ROB)
    IN \A j, k \in DOMAIN order : j < k =>
         \/ done(j)
         \/ /\ ~done(k)
            /\ Older(LSB.queue[order[j]].idx, LSB.queue[order[k]].idx)

(***************************************************************************)
(* The refinement: what is committed is what the program has done, also    *)
(* where REG_Run and LSB_Run have not caught up.                           *)
(***************************************************************************)
Caught == FoldLeft(Assigned, reg, up_reg_v_ex)

Done(m, s) ==
  LET e == LSB.queue[s]
  IN IF e.commited \/ (e.op \in StoreOps /\ e.idx = Number_ROB)
       THEN WriteBytes(m, Add(e.v, e.imm), Goal(e.op), e.v2) ELSE m

Sequent == INSTANCE SequentExecute WITH
         pc <- committed_pc,
         reg <- [r \in RegIndex |-> Caught[r].v],
         mem <- FoldLeft(Done, mem, Visited(LSB)),
         IO_PERIOD <- 1, io_reads <- 0, io_writes <- 0

\* The commits are the steps of sequent_execute.cpp on the same program, if that were started
\* on the same memory: it clears its own.
Sequential == Sequent!Start /\ Sequent!Steps

\* Something is committed again and again until the program ends: no cycle of buffers waits
\* for itself, and no wait is for a result that was dropped.
Progress == []<>(commit_ # <<>> \/ exited # "no")
=============================================================================
