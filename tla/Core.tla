-------------------------------- MODULE Core --------------------------------
(***************************************************************************)
(* cpu.v without the memory controller: the modules of the core on one     *)
(* clock.  Every register of every module changes at the same edge, from   *)
(* the values the registers had before it: a step is one clock cycle, in   *)
(* which each component takes its step reading the others' unprimed        *)
(* outputs.  The memory is whatever answers with the outputs mc.           *)
(***************************************************************************)
EXTENDS Header, Words

CONSTANTS IO_PERIOD, Programs

\* The input is counted modulo IO_PERIOD, and one of them is a byte.
ASSUME ProgramsAssumption == /\ IO_PERIOD \in 1 .. 2^BYTE_BITS
                             /\ Programs \subseteq [Word -> Instruction]

VARIABLES
  program,
  fet_status, fet_pc, fet_inst, fet_bht, fet_icache, fet_out,
  rob_head, rob_tail, rob_entry, rob_need_to_rollback, rob_inner_rollback,
  rob_rollback_pc, rob_out,
  rf_value, rf_busy, rf_rob_tag,
  rs_entry, rs_calc,
  lsb_head, lsb_tail, lsb_entry, lsb_cnt, lsb_status, lsb_current_tag, lsb_current_op,
  lsb_current_address, lsb_noticed, lsb_out,
  committed_pc       \* history: where the committed instructions lead

Fetcher == INSTANCE Fetcher WITH
  status <- fet_status, pc <- fet_pc, inst_to_be_issued <- fet_inst,
  branch_history_table <- fet_bht, icache <- fet_icache, out <- fet_out

ReorderBuffer == INSTANCE ReorderBuffer WITH
  head <- rob_head, tail <- rob_tail, entry <- rob_entry,
  need_to_rollback <- rob_need_to_rollback, inner_rollback <- rob_inner_rollback,
  rollback_pc <- rob_rollback_pc, out <- rob_out

RegisterFile == INSTANCE RegisterFile WITH
  value <- rf_value, busy <- rf_busy, rob_tag <- rf_rob_tag

ReservationStation == INSTANCE ReservationStation WITH
  entry <- rs_entry, calc <- rs_calc

LoadStoreBuffer == INSTANCE LoadStoreBuffer WITH
  head <- lsb_head, tail <- lsb_tail, entry <- lsb_entry,
  unexecute_committed_cnt <- lsb_cnt, status <- lsb_status,
  current_tag <- lsb_current_tag, current_op <- lsb_current_op,
  current_address <- lsb_current_address,
  current_io_load_has_notice_rob <- lsb_noticed, out <- lsb_out

Decoder == INSTANCE Decoder
Alu     == INSTANCE ArithmeticLogicUnit

fetVars  == <<fet_status, fet_pc, fet_inst, fet_bht, fet_icache, fet_out>>
robVars  == <<rob_head, rob_tail, rob_entry, rob_need_to_rollback, rob_inner_rollback,
              rob_rollback_pc, rob_out>>
rfVars   == <<rf_value, rf_busy, rf_rob_tag>>
rsVars   == <<rs_entry, rs_calc>>
lsbVars  == <<lsb_head, lsb_tail, lsb_entry, lsb_cnt, lsb_status, lsb_current_tag, lsb_current_op,
              lsb_current_address, lsb_noticed, lsb_out>>
coreVars == <<program, fetVars, robVars, rfVars, rsVars, lsbVars, committed_pc>>

(***************************************************************************)
(* Wires between the components.                                           *)
(***************************************************************************)
SourceOf(r) == [tag |-> RegisterFile!source_tag(r), value |-> RegisterFile!source_value(r)]
ResultOf(tag) ==
  IF ReorderBuffer!operand_ready(tag)
    THEN [ready |-> TRUE, value |-> ReorderBuffer!operand_value(tag)]
    ELSE [ready |-> FALSE, value |-> 0]

Decoded == LET rf1 == SourceOf(fet_out.inst.rs1)
               rf2 == SourceOf(fet_out.inst.rs2)
           IN Decoder!Decode(fet_out, rf1, rf2, ResultOf(rf1.tag), ResultOf(rf2.tag),
                             ReorderBuffer!next_tag)

Broadcast == Alu!AluBroadcast(rs_calc)

AnyFull == \/ ReservationStation!full_out
           \/ LoadStoreBuffer!full_out
           \/ ReorderBuffer!full_out

(***************************************************************************)
(* One clock cycle; rst is inner_rst.                                      *)
(***************************************************************************)
Oldest == rob_entry[ReorderBuffer!head_next]

CommittedPc(rst) ==
  committed_pc' = IF rst THEN 0
                  ELSE IF ~rob_out'.commit THEN committed_pc
                  ELSE IF Oldest.opcode \in {"JALR", "BRANCH"} THEN Oldest.new_pc
                  ELSE Oldest.predict_pc

CoreCycle(rst, mc) ==
  LET dec == Decoded
      alu == Broadcast
  IN /\ Fetcher!Clock(rst, AnyFull, rob_out, mc)
     /\ ReorderBuffer!Clock(rst, dec, alu, lsb_out)
     /\ RegisterFile!Clock(rst, rob_out, dec)
     /\ ReservationStation!Clock(rst, dec, alu, lsb_out, rob_out)
     /\ LoadStoreBuffer!Clock(rst, dec, alu, rob_out, mc)
     /\ CommittedPc(rst)
     /\ UNCHANGED program

CoreInit == /\ program \in Programs
            /\ Fetcher!Init
            /\ ReorderBuffer!Init
            /\ RegisterFile!Init
            /\ ReservationStation!Init
            /\ LoadStoreBuffer!Init
            /\ committed_pc = 0

CoreTypeOK == /\ Fetcher!TypeOK
              /\ ReorderBuffer!TypeOK
              /\ RegisterFile!TypeOK
              /\ ReservationStation!TypeOK
              /\ LoadStoreBuffer!TypeOK
              /\ committed_pc \in Word

(***************************************************************************)
(* The programmer's view of the core: the registers with the commit that   *)
(* is on its way to the register file, and the stores the core committed   *)
(* but has not handed to the memory.                                       *)
(***************************************************************************)
ArchReg == [r \in RegIndex |->
              IF rob_out.commit /\ rob_out.commit_rf /\ rob_out.target = r /\ rf_busy[r]
                THEN rob_out.data ELSE rf_value[r]]

QueuedAccesses == {i \in LsbIndex : LoadStoreBuffer!in_queue(i)}

\* The stores the core committed, up to the one whose commit is on its way here.
CommittedStores ==
  {i \in QueuedAccesses :
     /\ lsb_entry[i].store
     /\ lsb_entry[i].commit_flag \/ (rob_out.commit_lsb /\ i = LoadStoreBuffer!CommitSlot)}

\* Where the store queued at i puts a byte, and what the byte is.
Stores(i, x)     == Sub(x, LoadStoreBuffer!Address(lsb_entry[i])) < Goal(lsb_entry[i].op)
StoredByte(i, x) == ByteOf(lsb_entry[i].Vk, Sub(x, LoadStoreBuffer!Address(lsb_entry[i])))

\* The youngest of them that writes x decides on the byte there.
YoungestStore(i, x) ==
  /\ i \in CommittedStores /\ Stores(i, x)
  /\ \A j \in CommittedStores :
       Stores(j, x) => LoadStoreBuffer!Slot(j - lsb_head) <= LoadStoreBuffer!Slot(i - lsb_head)

\* memory once they are done.
AfterStores(memory) ==
  [x \in DOMAIN memory |->
     IF \E i \in CommittedStores : Stores(i, x)
       THEN StoredByte(CHOOSE i \in CommittedStores : YoungestStore(i, x), x)
       ELSE memory[x]]

\* How many of them are output.
QueuedOutputs ==
  Cardinality({i \in CommittedStores : IsIo(LoadStoreBuffer!Address(lsb_entry[i]))})

(***************************************************************************)
(* Safety of the scheduling.  A tag's age is its distance from the head of *)
(* the reorder buffer: 0 for the instruction that committed last.          *)
(***************************************************************************)
Age(tag) == (tag - rob_head) % (ROB_CAPACITY - 1)
InFlight == {t \in RobTag : ReorderBuffer!in_queue(t)}

\* The result of tag is still to be announced, at the latest by its commit.
WillAnnounce(tag) == tag \in InFlight \/ (rob_out.commit /\ rob_out.tag = tag)

\* An instruction waits only for instructions before it, and only for results
\* that it is still going to hear: the snooping of three broadcasts, and of
\* fewer at the moment of insertion, misses none (ReservationStation.v:90-164,
\* LoadStoreBuffer.v:227-294).
OperandsStillToCome ==
  ~rob_inner_rollback =>
    /\ \A i \in RsIndex :
         LET e == rs_entry[i]
         IN \A q \in (IF e.have_rs1 THEN {e.Qj} ELSE {}) \cup (IF e.have_rs2 THEN {e.Qk} ELSE {}) :
              q # NULL_TAG => WillAnnounce(q) /\ Age(q) < Age(e.dest)
    /\ \A i \in QueuedAccesses :
         LET e == lsb_entry[i]
         IN \A q \in {e.Qj} \cup (IF e.store THEN {e.Qk} ELSE {}) :
              q # NULL_TAG => WillAnnounce(q) /\ Age(q) < Age(e.rob_tag)

\* A register is busy exactly while an instruction that writes it is in flight
\* or just committed, and carries the tag of the youngest of them, although
\* RegisterFile.v:66-90 frees and takes it in the same cycle.
RegistersNameYoungest ==
  ~rob_inner_rollback =>
    \A r \in RegIndex \ {0} :
      LET writers == {t \in InFlight : /\ rob_entry[t].dest = r
                                       /\ rob_entry[t].opcode \notin {"BRANCH", "STORE"}}
      IN IF writers # {}
           THEN /\ rf_busy[r]
                /\ rf_rob_tag[r] \in writers
                /\ \A t \in writers : Age(t) <= Age(rf_rob_tag[r])
           ELSE rf_busy[r] <=> /\ rob_out.commit_rf /\ rob_out.target = r
                               /\ rf_rob_tag[r] = rob_out.tag

\* Who works on the instruction of a tag: a place of the pipeline each.
Workers(t) ==
  LET Queued(i) == /\ lsb_entry[i].rob_tag = t
                   /\ lsb_entry[i].store => ~lsb_entry[i].commit_flag
      If(b, place) == IF b THEN {place} ELSE {}
  IN (({"RS"} \X {i \in RsIndex : rs_entry[i].busy /\ rs_entry[i].dest = t})
      \cup ({"LSB"} \X {i \in QueuedAccesses : Queued(i)}))
     \cup If(rs_calc.calculate /\ rs_calc.dest = t, <<"ALU", 0>>)
     \cup If(lsb_status = "LOAD" /\ lsb_current_tag = t, <<"LOAD", 0>>)
     \cup If(lsb_out.broadcast /\ lsb_out.dest_tag = t, <<"RESULT", 0>>)

\* Every unfinished instruction in the reorder buffer is worked on at exactly
\* one place and a finished one nowhere, so that a tag given out again after a
\* commit or a rollback never receives the result of its former owner.
OneWorkerEach ==
  ~rob_inner_rollback =>
    \A t \in InFlight : Cardinality(Workers(t)) = IF rob_entry[t].ready THEN 0 ELSE 1

\* An instruction the fetcher issues finds room where it goes, although the
\* fetcher looked at the full signals a cycle earlier (Fetcher.v:124).
IssueFits ==
  fet_out.issue =>
    /\ ~ReorderBuffer!full_out
    /\ IF Decoder!ToLsb(fet_out.inst) THEN ~LoadStoreBuffer!full_out
                                      ELSE ~ReservationStation!full_out

\* The accesses committed or released are the oldest ones in the load store
\* buffer, as many as unexecute_committed_cnt says, and have their operands; a
\* commit finds the access it is meant for (LoadStoreBuffer.v:113-116, 262).
\* What a rollback keeps (LoadStoreBuffer.v:173) is exactly what must still run.
CommittedAccessesFirst ==
  LET length == Cardinality(QueuedAccesses)
      Nth(k) == lsb_entry[LoadStoreBuffer!Slot(lsb_head + k)]
      CanRun(e) == /\ LoadStoreBuffer!NeedsCommit(e)
                   /\ e.Qj = NULL_TAG /\ (e.store => e.Qk = NULL_TAG)
  IN /\ lsb_cnt + Flag(rob_out.commit_lsb) <= length
     /\ \A k \in 1 .. length : Nth(k).commit_flag <=> k <= lsb_cnt
     /\ \A k \in 1 .. lsb_cnt + Flag(rob_out.commit_lsb) : CanRun(Nth(k))

\* A load from an I/O address, which takes its input away, is performed only
\* when no instruction before it can still be rolled back: no rollback finds
\* one under way or released.
NoInputTakenBack ==
  rob_need_to_rollback \/ rob_inner_rollback =>
    /\ ~(lsb_status = "LOAD" /\ IsIo(lsb_current_address))
    /\ \A i \in QueuedAccesses : lsb_entry[i].commit_flag => lsb_entry[i].store

\* A slot of the reorder buffer is handed to the next instruction without the
\* I/O mark of its last owner, although insertion does not clear the mark
\* (ReorderBuffer.v:148-158): a marked load commits only after its release.
NoInheritedMark ==
  \A t \in RobTag \ InFlight : ~rob_entry[t].is_io_load

(***************************************************************************)
(* Progress.                                                               *)
(***************************************************************************)
\* current_io_load_has_notice_rob is set, but not for the load at the head.
StaleNotice ==
  /\ lsb_noticed
  /\ LET e == lsb_entry[LoadStoreBuffer!head_next]
     IN ~ /\ lsb_head # lsb_tail
          /\ \/ e.commit_flag
             \/ rob_out.commit_lsb
             \/ lsb_out.mark_as_io_load /\ lsb_out.io_load_tag = e.rob_tag
             \/ e.rob_tag \in InFlight /\ rob_entry[e.rob_tag].is_io_load

\* "this module commit all instruction in order" (ReorderBuffer.v:7-9): a
\* program that never ends commits for ever.
Progress == []<>(rob_out.commit)

\* The only thing that ends the commits is a notice that outlived its load
\* in a rollback (LoadStoreBuffer.v:143-225 leaves the flag alone).
ProgressUnlessStale == Progress \/ <>[]StaleNotice
=============================================================================
