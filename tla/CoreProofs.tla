----------------------------- MODULE CoreProofs -----------------------------
EXTENDS Core, WordProofs, FunctionTheorems, FiniteSetTheorems

(***************************************************************************)
(* The core keeps its invariant in every cycle, whatever the memory        *)
(* answers, for every capacity and every program: CoreStart and CoreStep.  *)
(* The invariant, CoreInv, has four parts: the types (CoreType); an issued *)
(* instruction finds room (IssueInv); where each instruction under way is, *)
(* what waits for whom and in which order (SchedInv); and of which kind    *)
(* the queued accesses are (KindsKnown).  A cycle is first told in terms   *)
(* of positions in the two circular queues - what stays, what enters, what *)
(* leaves, who announces what - one section per component; the invariant   *)
(* is then shown part by part from that account alone.                     *)
(***************************************************************************)

(***************************************************************************)
(* The components' names for what header.v defines.                        *)
(***************************************************************************)
LEMMA FetcherNames ==
  /\ Fetcher!Word = Word /\ Fetcher!Instruction = Instruction
  /\ Fetcher!ZeroInstruction = ZeroInstruction
  /\ \A a, b : Fetcher!Add(a, b) = Add(a, b)
  BY DEF Fetcher!Word, Word, Fetcher!Instruction, Instruction, Fetcher!InnerInst, InnerInst,
         Fetcher!RegIndex, RegIndex, Fetcher!ZeroInstruction, ZeroInstruction, Fetcher!Add, Add,
         Fetcher!BranchOps, BranchOps, Fetcher!LoadOps, LoadOps, Fetcher!StoreOps, StoreOps,
         Fetcher!ArithImmOps, ArithImmOps, Fetcher!ArithOps, ArithOps

\* The load store buffer's sets and operators are those of the header.
LEMMA LsbNames ==
  /\ LoadStoreBuffer!Word = Word /\ LoadStoreBuffer!InnerInst = InnerInst
  /\ LoadStoreBuffer!RobTag = RobTag /\ LoadStoreBuffer!LsbIndex = LsbIndex
  /\ LoadStoreBuffer!NULL_TAG = NULL_TAG
  /\ LoadStoreBuffer!WORD_BYTES = WORD_BYTES
  /\ \A a, b : LoadStoreBuffer!Add(a, b) = Add(a, b)
  /\ \A op : LoadStoreBuffer!Goal(op) = Goal(op)
  /\ \A a : LoadStoreBuffer!IsIo(a) = IsIo(a)
  /\ \A op, w : LoadStoreBuffer!LoadResult(op, w) = LoadResult(op, w)
<1>1. \A op : LoadStoreBuffer!Goal(op) = Goal(op)
  BY DEF LoadStoreBuffer!Goal, Goal, LoadStoreBuffer!WORD_BYTES, WORD_BYTES
<1>2. \A op, w : LoadStoreBuffer!LoadResult(op, w) = LoadResult(op, w)
  BY <1>1 DEF LoadStoreBuffer!LoadResult, LoadResult, LoadStoreBuffer!SignExtend, SignExtend,
     LoadStoreBuffer!Sub, Sub
<1>3. \A a : LoadStoreBuffer!IsIo(a) = IsIo(a)
  BY DEF LoadStoreBuffer!IsIo, IsIo
<1> QED BY <1>1, <1>2, <1>3 DEF LoadStoreBuffer!Word, Word, LoadStoreBuffer!InnerInst, InnerInst,
   LoadStoreBuffer!RobTag, RobTag, LoadStoreBuffer!LsbIndex, LsbIndex, LoadStoreBuffer!NULL_TAG, NULL_TAG,
   LoadStoreBuffer!WORD_BYTES, WORD_BYTES, LoadStoreBuffer!Add, Add,
         LoadStoreBuffer!BranchOps, BranchOps, LoadStoreBuffer!LoadOps, LoadOps, LoadStoreBuffer!StoreOps,
         StoreOps,
         LoadStoreBuffer!ArithImmOps, ArithImmOps, LoadStoreBuffer!ArithOps, ArithOps

\* So are the reorder buffer's.
LEMMA RobNames ==
  /\ ReorderBuffer!Word = Word /\ ReorderBuffer!RegIndex = RegIndex
  /\ ReorderBuffer!RobTag = RobTag /\ ReorderBuffer!NULL_TAG = NULL_TAG
  /\ ReorderBuffer!Opcodes = Opcodes
  /\ \A a, b : ReorderBuffer!Add(a, b) = Add(a, b)
  BY DEF ReorderBuffer!Word, Word, ReorderBuffer!RegIndex, RegIndex, ReorderBuffer!RobTag, RobTag,
         ReorderBuffer!NULL_TAG, NULL_TAG, ReorderBuffer!Opcodes, Opcodes, ReorderBuffer!Add, Add

\* What the memory tells the core.
MemoryOutput == [fet_ready : BOOLEAN, fet_instruction : Instruction,
                 lsb_ready : BOOLEAN, lsb_data : Word]

Tag == RobTag \cup {NULL_TAG}

RobEntry == [ready : BOOLEAN, opcode : Opcodes, data : Word, dest : RegIndex, pc : Word,
             imm : Word, predict_pc : Word, new_pc : Word, is_io_load : BOOLEAN]
RobOutput == [rollback : BOOLEAN, fet_rollback_pc : Word,
              commit_fet : BOOLEAN, fet_branch_taken : BOOLEAN,
              commit : BOOLEAN, commit_rf : BOOLEAN, commit_lsb : BOOLEAN,
              pc : Word, tag : Tag, data : Word, target : RegIndex]
RobType == /\ rob_head \in RobTag
           /\ rob_tail \in RobTag
           /\ rob_entry \in [RobTag -> RobEntry]
           /\ rob_need_to_rollback \in BOOLEAN
           /\ rob_inner_rollback \in BOOLEAN
           /\ rob_rollback_pc \in Word
           /\ rob_out \in RobOutput

RfType == /\ rf_value \in [RegIndex -> Word]
          /\ rf_busy \in [RegIndex -> BOOLEAN]
          /\ rf_rob_tag \in [RegIndex -> Tag]

RsEntry == [busy : BOOLEAN, have_rs1 : BOOLEAN, have_rs2 : BOOLEAN,
            op : InnerInst, imm : Word, pc : Word, Vj : Word, Vk : Word,
            Qj : Tag, Qk : Tag, dest : Tag]
Operation == [calculate : BOOLEAN, op : InnerInst, imm : Word, pc : Word,
              rs1val : Word, rs2val : Word, dest : Tag]
RsType == rs_entry \in [RsIndex -> RsEntry] /\ rs_calc \in Operation

LsbEntry == [store : BOOLEAN, commit_flag : BOOLEAN, op : InnerInst, rob_tag : Tag,
             imm : Word, Vj : Word, Vk : Word, Qj : Tag, Qk : Tag]
LsbOutput == [broadcast : BOOLEAN, result : Word, dest_tag : Tag,
              mark_as_io_load : BOOLEAN, io_load_tag : Tag, mc_request : BOOLEAN,
              mc_store : BOOLEAN, mc_goal : 0 .. WORD_BYTES, mc_address : Word, mc_data : Word]
LsbType ==
  /\ lsb_head \in LsbIndex
  /\ lsb_tail \in LsbIndex
  /\ lsb_entry \in [LsbIndex -> LsbEntry]
  /\ lsb_cnt \in LsbIndex
  /\ lsb_status \in {"IDLE", "LOAD", "STORE"}
  /\ lsb_current_tag \in Tag
  /\ lsb_current_op \in InnerInst
  /\ lsb_current_address \in Word
  /\ lsb_noticed \in BOOLEAN
  /\ lsb_out \in LsbOutput

\* x0 is a register, and registers have numbers.
LEMMA RegZero == 0 \in RegIndex /\ RegIndex \subseteq Nat
  BY WordAssumption DEF WordAssumption, RegIndex

\* The instruction that a reset leaves in the fetcher's output is well formed.
LEMMA ZeroType == ZeroInstruction \in Instruction
  BY WordArithmetic, RegZero DEF ZeroInstruction, Instruction, InnerInst

FetcherOutput == [issue : BOOLEAN, inst : Instruction, pc : Word, predict_pc : Word,
                  mc_request : BOOLEAN, mc_address : Word]
CacheLine == [valid : BOOLEAN, tag : Word, inst : Instruction]

FetcherType ==
  /\ fet_status \in {"IDLE", "WAITING", "ISSUING"}
  /\ fet_pc \in Word
  /\ fet_inst \in Instruction
  /\ fet_bht \in [0 .. BP_CAPACITY - 1 -> 0 .. 3]
  /\ fet_icache \in [0 .. ICACHE_CAPACITY - 1 -> CacheLine]
  /\ fet_out \in FetcherOutput

\* The reservation station's sets are those of the header.
LEMMA RsNames ==
  /\ ReservationStation!RsIndex = RsIndex /\ ReservationStation!NULL_TAG = NULL_TAG
  /\ ReservationStation!Tag = Tag /\ ReservationStation!Word = Word
  /\ ReservationStation!InnerInst = InnerInst
  BY DEF ReservationStation!RsIndex, RsIndex, ReservationStation!NULL_TAG, NULL_TAG,
         ReservationStation!Tag, Tag, ReservationStation!RobTag, RobTag, ReservationStation!Word,
         Word, ReservationStation!InnerInst, InnerInst, ReservationStation!BranchOps, BranchOps,
         ReservationStation!LoadOps, LoadOps, ReservationStation!StoreOps, StoreOps,
         ReservationStation!ArithImmOps, ArithImmOps, ReservationStation!ArithOps, ArithOps

\* So are the register file's.
LEMMA RfNames ==
  /\ RegisterFile!RegIndex = RegIndex /\ RegisterFile!NULL_TAG = NULL_TAG
  /\ RegisterFile!Word = Word /\ RegisterFile!RobTag = RobTag
  BY DEF RegisterFile!RegIndex, RegIndex, RegisterFile!NULL_TAG, NULL_TAG,
         RegisterFile!Word, Word, RegisterFile!RobTag, RobTag

\* The registers at rest, as a reset leaves them.
LEMMA RestingTypes ==
  /\ Fetcher!Quiet \in FetcherOutput /\ Fetcher!ZeroInstruction \in Instruction
  /\ Fetcher!InvalidLine \in CacheLine
  /\ ReorderBuffer!EmptyEntry \in RobEntry /\ ReorderBuffer!Quiet \in RobOutput
  /\ ReservationStation!EmptyEntry \in RsEntry /\ ReservationStation!NoOperation \in Operation
  /\ LoadStoreBuffer!EmptyEntry \in LsbEntry /\ LoadStoreBuffer!Quiet \in LsbOutput
  /\ 1 \in RobTag /\ NULL_TAG \in Tag /\ 0 \in LsbIndex /\ 0 \in Word /\ "NOP" \in InnerInst
<1>1. 0 \in Word /\ 0 \in RegIndex /\ NULL_TAG \in Tag /\ "NOP" \in InnerInst
  BY WordArithmetic, RegZero DEF Tag, InnerInst
<1>2. Fetcher!Quiet \in FetcherOutput
  BY <1>1, FetcherNames, ZeroType DEF Fetcher!Quiet, FetcherOutput
<1>3. Fetcher!ZeroInstruction \in Instruction
  BY FetcherNames, ZeroType
<1>4. Fetcher!InvalidLine \in CacheLine
  BY <1>1, FetcherNames, ZeroType DEF Fetcher!InvalidLine, CacheLine
<1>5. ReorderBuffer!EmptyEntry \in RobEntry
  BY <1>1 DEF ReorderBuffer!EmptyEntry, RobEntry, Opcodes
<1>6. ReorderBuffer!Quiet \in RobOutput
  BY <1>1, RobNames DEF ReorderBuffer!Quiet, RobOutput
<1>7. ReservationStation!EmptyEntry \in RsEntry /\ ReservationStation!NoOperation \in Operation
  BY <1>1, RsNames DEF ReservationStation!EmptyEntry, RsEntry, ReservationStation!NoOperation, Operation
<1>8. LoadStoreBuffer!EmptyEntry \in LsbEntry
  BY <1>1, LsbNames DEF LoadStoreBuffer!EmptyEntry, LsbEntry
<1>9. LoadStoreBuffer!Quiet \in LsbOutput
  BY <1>1, BytePowers, LsbNames DEF LoadStoreBuffer!Quiet, LsbOutput
<1>10. 1 \in RobTag /\ 0 \in LsbIndex
  BY CapacityAssumption DEF CapacityAssumption, RobTag, LsbIndex
<1> QED BY <1>1, <1>2, <1>3, <1>4, <1>5, <1>6, <1>7, <1>8, <1>9, <1>10

\* A cycle of the fetcher keeps the types of its registers (Fetcher.v:86-189).
LEMMA FetcherTypes ==
  ASSUME FetcherType, NEW rst \in BOOLEAN, NEW mc \in MemoryOutput, rob_out \in RobOutput,
         NEW full,
         Fetcher!Clock(rst, full, rob_out, mc)
  PROVE  FetcherType'
<1> USE DEF FetcherType
<1>0. /\ rob_out.fet_rollback_pc \in Word /\ rob_out.pc \in Word
  BY DEF RobOutput
<1>q. Fetcher!Quiet \in FetcherOutput
  BY RestingTypes
<1>z. Fetcher!ZeroInstruction \in Instruction
  BY RestingTypes
<1>l. Fetcher!InvalidLine \in CacheLine
  BY RestingTypes
<1>1. CASE Fetcher!Reset
  BY <1>1, <1>q, <1>z, <1>l, WordArithmetic DEF Fetcher!Reset
<1>2. CASE Fetcher!Rollback(rob_out)
  BY <1>2, <1>0, <1>q, <1>z DEF Fetcher!Rollback
<1>3. CASE Fetcher!Operate(full, rob_out, mc)
  <2>i. \A a \in Word : /\ Fetcher!BpHash(a) \in 0 .. BP_CAPACITY - 1
                        /\ Fetcher!CacheIndex(a) \in 0 .. ICACHE_CAPACITY - 1
                        /\ Fetcher!CacheTag(a) \in Word
    <3> SUFFICES ASSUME NEW a \in Word 
          PROVE /\ Fetcher!BpHash(a) \in 0 .. BP_CAPACITY - 1
                        /\ Fetcher!CacheIndex(a) \in 0 .. ICACHE_CAPACITY - 1
                        /\ Fetcher!CacheTag(a) \in Word
      OBVIOUS
    <3>1. a \in Nat /\ INST_BYTES \in Nat /\ INST_BYTES >= 1
          /\ BP_CAPACITY \in Nat /\ BP_CAPACITY >= 1
          /\ ICACHE_CAPACITY \in Nat /\ ICACHE_CAPACITY >= 1
      BY WordArithmetic, WordAssumption, CapacityAssumption DEF WordAssumption, CapacityAssumption
    <3>2. a \div INST_BYTES \in 0 .. a
      BY <3>1, Quotient
    <3>3. a \div INST_BYTES \in Nat
      BY <3>1, <3>2
    <3>4. (a \div INST_BYTES) \div ICACHE_CAPACITY \in 0 .. a \div INST_BYTES
      BY <3>1, <3>3, Quotient
    <3>5. (a \div INST_BYTES) \div ICACHE_CAPACITY \in 0 .. a
      BY <3>1, <3>2, <3>3, <3>4
    <3>6. Fetcher!CacheTag(a) \in Word
      <4> DEFINE q == (a \div INST_BYTES) \div ICACHE_CAPACITY
      <4>1. q \in 0 .. a
        BY <3>5
      <4> HIDE DEF q
      <4>2. q \in Word
        BY <4>1, Powers DEF Word
      <4> QED BY <4>2 DEF Fetcher!CacheTag, q
    <3>7. (a \div INST_BYTES) % BP_CAPACITY \in 0 .. BP_CAPACITY - 1
      BY <3>1, <3>3, Remainder
    <3>8. (a \div INST_BYTES) % ICACHE_CAPACITY \in 0 .. ICACHE_CAPACITY - 1
      BY <3>1, <3>3, Remainder
    <3>9. Fetcher!BpHash(a) \in 0 .. BP_CAPACITY - 1
      BY <3>7, Zenon DEF Fetcher!BpHash
    <3>10. Fetcher!CacheIndex(a) \in 0 .. ICACHE_CAPACITY - 1
      BY <3>8, Zenon DEF Fetcher!CacheIndex
    <3> QED BY <3>6, <3>9, <3>10
  <2>p. \A inst \in Instruction : Fetcher!PredictedPc(inst) \in Word
    <3> SUFFICES ASSUME NEW inst \in Instruction PROVE Fetcher!PredictedPc(inst) \in Word
      OBVIOUS
    <3>1. inst.imm \in Word /\ fet_pc \in Word
      BY DEF Instruction
    <3>2. Add(fet_pc, inst.imm) \in Word /\ Add(fet_pc, INST_BYTES) \in Word
      BY <3>1, AddWord
    <3> QED BY <3>2, FetcherNames DEF Fetcher!PredictedPc
  <2>b. fet_bht' \in [0 .. BP_CAPACITY - 1 -> 0 .. 3]
    <3>1. \A c \in 0 .. 3 : \A taken : Fetcher!Saturating(c, taken) \in 0 .. 3
      BY DEF Fetcher!Saturating
    <3>2. Fetcher!BpHash(rob_out.pc) \in 0 .. BP_CAPACITY - 1
      BY <1>0, <2>i
    <3> QED BY <1>3, <3>1, <3>2 DEF Fetcher!Operate, Fetcher!Train
  <2>1. CASE Fetcher!Hit
    <3>1. Fetcher!cache_inst \in Instruction
      BY <2>i DEF Fetcher!cache_inst, CacheLine
    <3> QED BY <2>1, <2>b, <1>q, <3>1 DEF Fetcher!Hit
  <2>2. CASE Fetcher!Miss
    <3>1. [Fetcher!Quiet EXCEPT !.mc_request = TRUE, !.mc_address = fet_pc] \in FetcherOutput
      BY <1>q DEF FetcherOutput
    <3> QED BY <2>2, <2>b, <3>1 DEF Fetcher!Miss
  <2>3. CASE Fetcher!Fill(mc)
    <3>1. mc.fet_instruction \in Instruction
      BY DEF MemoryOutput
    <3>2. Fetcher!CacheTag(fet_pc) \in Word
      BY <2>i
    <3>3. [valid |-> TRUE, tag |-> Fetcher!CacheTag(fet_pc), inst |-> mc.fet_instruction] \in CacheLine
      BY <3>1, <3>2 DEF CacheLine
    <3> QED BY <2>3, <2>b, <1>q, <3>1, <3>3 DEF Fetcher!Fill
  <2>4. CASE Fetcher!Issue(full)
    <3> DEFINE p == Fetcher!PredictedPc(fet_inst)
    <3>1. p \in Word
      BY <2>p
    <3> HIDE DEF p
    <3>2. [Fetcher!Quiet EXCEPT !.issue = TRUE, !.inst = fet_inst, !.pc = fet_pc,
                          !.predict_pc = p] \in FetcherOutput
      BY <1>q, <3>1 DEF FetcherOutput
    <3> QED BY <2>4, <2>b, <1>z, <3>1, <3>2 DEF Fetcher!Issue, p
  <2>5. CASE Fetcher!Wait(full, mc)
    BY <2>5, <2>b, <1>q DEF Fetcher!Wait
  <2> QED BY <1>3, <2>1, <2>2, <2>3, <2>4, <2>5 DEF Fetcher!Operate
<1> QED BY <1>1, <1>2, <1>3 DEF Fetcher!Clock

\* The ALU's sets and operators are those of the header.
LEMMA AluNames ==
  /\ \A a, b : Alu!Add(a, b) = Add(a, b) /\ Alu!Sub(a, b) = Sub(a, b)
  /\ \A a : Alu!Flag(a) = Flag(a)
  /\ \A S : Alu!FromBits(S) = FromBits(S)
  /\ Alu!BranchOps = BranchOps
<1>1. \A S : Alu!FromBits(S) = FromBits(S)
  BY DEF Alu!FromBits, FromBits, Alu!Sums, Sums
<1> QED BY <1>1 DEF Alu!Add, Add, Alu!Sub, Sub, Alu!Flag, Flag, Alu!BranchOps, BranchOps

\* A shifted word is a word.
LEMMA ShiftsWord ==
  ASSUME NEW a \in Word, NEW n \in Word
  PROVE  /\ Alu!ShiftLeft(a, n) \in Word
         /\ Alu!ShiftRight(a, n) \in Word
<1> DEFINE p == 2^n
           m == 2^XLEN
<1>1. a \in Nat /\ n \in Nat /\ 0 \in Word
  BY WordArithmetic, Zenon
<1>2. XLEN \in Nat /\ m \in Nat /\ m >= 1
  BY Powers, WordAssumption DEF WordAssumption
<1>3. CASE n >= XLEN
  BY <1>1, <1>3 DEF Alu!ShiftLeft, Alu!ShiftRight
<1>4. CASE ~(n >= XLEN)
  <2>1. n \in 0 .. XLEN
    BY <1>1, <1>2, <1>4
  <2>2. p \in Nat /\ p >= 1
    BY <2>1, Powers
  <2> HIDE DEF p
  <2>3. a * p \in Nat
    BY <2>2, <1>1
  <2> HIDE DEF m
  <2>4. (a * p) % m \in 0 .. m - 1
    BY <2>3, <1>2, Remainder
  <2>5. a \div p \in 0 .. a
    BY <2>2, <1>1, Quotient
  <2>6. a \div p \in Word
    <3> DEFINE q == a \div p
    <3>1. q \in 0 .. a
      BY <2>5
    <3> HIDE DEF q
    <3>2. q \in Word
      BY <3>1, Powers DEF Word
    <3> QED BY <3>2 DEF q
  <2>7. (a * p) % m \in Word
    BY <2>4, Zenon DEF Word, m
  <2>8. Alu!ShiftLeft(a, n) = (a * p) % m /\ Alu!ShiftRight(a, n) = a \div p
    BY <1>4, Zenon DEF Alu!ShiftLeft, Alu!ShiftRight, p, m
  <2> QED BY <2>6, <2>7, <2>8
<1> QED BY <1>3, <1>4

\* Whatever the operation, the ALU gives words (ArithmeticLogicUnit.v:52-157).
LEMMA AluWords ==
  ASSUME NEW a \in Word, NEW b \in Word, NEW imm \in Word, NEW pc \in Word, NEW op
  PROVE  /\ Alu!AluResult(op, a, b, imm, pc) \in Word
         /\ Alu!AluNewPc(op, a, b, imm, pc) \in Word
<1>1. /\ Alu!Add(pc, imm) \in Word /\ Alu!Add(pc, INST_BYTES) \in Word
      /\ Alu!Add(a, imm) \in Word /\ Alu!Add(a, b) \in Word /\ Alu!Sub(a, b) \in Word
      /\ 0 \in Word
  BY AluNames, AddWord, WordArithmetic
<1>2. \A c : Alu!Flag(c) \in Word
  BY AluNames, WordArithmetic
<1>3. \A S : Alu!FromBits(S) \in Word
  BY AluNames, FromBitsWord
<1>4. Alu!Shamt(imm) \in Word
  <2> DEFINE s == imm % XLEN
  <2>0. XLEN \in Nat /\ XLEN >= 1 /\ imm \in Nat
    BY WordAssumption, WordArithmetic DEF WordAssumption
  <2>1. s \in 0 .. XLEN - 1
    BY <2>0, Remainder
  <2>2. s <= imm
    BY <2>0
  <2> HIDE DEF s
  <2>3. s \in Word
    BY <2>1, <2>2, <2>0, Powers DEF Word
  <2> QED BY <2>3 DEF s, Alu!Shamt
<1>5. /\ Alu!ShiftLeft(a, Alu!Shamt(imm)) \in Word /\ Alu!ShiftRight(a, Alu!Shamt(imm)) \in Word
      /\ Alu!ShiftLeft(a, b) \in Word /\ Alu!ShiftRight(a, b) \in Word
  BY <1>4, ShiftsWord
<1>6. Alu!AluResult(op, a, b, imm, pc) \in Word
  BY <1>1, <1>2, <1>3, <1>5, Zenon DEF Alu!AluResult
<1>7. Alu!AluNewPc(op, a, b, imm, pc) \in Word
  BY <1>1, Zenon DEF Alu!AluNewPc
<1> QED BY <1>6, <1>7

SourceTag(r) == IF rf_busy[r] THEN rf_rob_tag[r] ELSE NULL_TAG
Awaited(r)   == IF SourceTag(r) = NULL_TAG \/ ReorderBuffer!operand_ready(SourceTag(r))
                  THEN NULL_TAG ELSE SourceTag(r)
Known(r)     == IF SourceTag(r) = NULL_TAG THEN IF rf_busy[r] THEN 0 ELSE rf_value[r]
                ELSE IF ReorderBuffer!operand_ready(SourceTag(r)) THEN rob_entry[SourceTag(r)].data ELSE 0

\* The decoder's kinds and tags are those of the header.
LEMMA DecoderNames ==
  /\ Decoder!NULL_TAG = NULL_TAG
  /\ \A op : Decoder!Opcode(op) = Opcode(op)
  /\ \A inst : Decoder!ToLsb(inst) <=> Opcode(inst.op) \in {"LOAD", "STORE"}
  BY DEF Decoder!NULL_TAG, NULL_TAG, Decoder!Opcode, Opcode, Decoder!BranchOps, BranchOps, Decoder!LoadOps,
     LoadOps,
         Decoder!StoreOps, StoreOps, Decoder!ArithImmOps, ArithImmOps, Decoder!ArithOps, ArithOps, Decoder!ToLsb

\* The decoder's operands, in terms of what is known of the two source registers.
LEMMA DecodedOperands ==
  /\ Decoded.Qj = Awaited(fet_out.inst.rs1) /\ Decoded.Vj = Known(fet_out.inst.rs1)
  /\ Decoded.Qk = Awaited(fet_out.inst.rs2) /\ Decoded.Vk = Known(fet_out.inst.rs2)
<1> DEFINE Q(r) == Decoder!OperandTag(SourceOf(r), ResultOf(SourceOf(r).tag))
           V(r) == Decoder!OperandValue(SourceOf(r), ResultOf(SourceOf(r).tag))
<1>1. ASSUME NEW r
      PROVE  Q(r) = Awaited(r) /\ V(r) = Known(r)
  <2>1. SourceOf(r).tag = SourceTag(r) /\ SourceOf(r).value = IF rf_busy[r] THEN 0 ELSE rf_value[r]
    BY DEF SourceOf, SourceTag, RegisterFile!source_tag, RegisterFile!source_value, RegisterFile!NULL_TAG,
       NULL_TAG
  <2>2. ASSUME NEW t
        PROVE  /\ ResultOf(t).ready <=> ReorderBuffer!operand_ready(t)
               /\ ReorderBuffer!operand_ready(t) => ResultOf(t).value = rob_entry[t].data
    <3>1. CASE ReorderBuffer!operand_ready(t)
      BY <3>1, Zenon DEF ResultOf, ReorderBuffer!operand_value
    <3>2. CASE ~ReorderBuffer!operand_ready(t)
      BY <3>2, Zenon DEF ResultOf
    <3> QED BY <3>1, <3>2
  <2> QED BY <2>1, <2>2, DecoderNames DEF Decoder!OperandTag, Decoder!OperandValue, Awaited, Known
<1>2. /\ Decoded.Qj = Q(fet_out.inst.rs1) /\ Decoded.Vj = V(fet_out.inst.rs1)
      /\ Decoded.Qk = Q(fet_out.inst.rs2) /\ Decoded.Vk = V(fet_out.inst.rs2)
  BY DEF Decoded, Decoder!Decode
<1> HIDE DEF Q, V
<1> QED BY <1>1, <1>2

\* The decoder's other wires, in terms of the instruction in hand.
LEMMA DecodedFields ==
  /\ Decoded.issue = fet_out.issue
  /\ Decoded.op = fet_out.inst.op
  /\ Decoded.opcode = Opcode(fet_out.inst.op)
  /\ Decoded.rd = fet_out.inst.rd
  /\ Decoded.imm \in {0, fet_out.inst.imm}
  /\ Decoded.pc = fet_out.pc /\ Decoded.predict_pc = fet_out.predict_pc
  /\ Decoded.next_tag = ReorderBuffer!next_tag
  /\ Decoded.occupy_rd <=> fet_out.issue /\ Opcode(fet_out.inst.op) \notin {"BRANCH", "STORE"}
  /\ Decoded.to_lsb <=> fet_out.issue /\ Opcode(fet_out.inst.op) \in {"LOAD", "STORE"}
  /\ Decoded.to_rs <=> fet_out.issue /\ Opcode(fet_out.inst.op) \notin {"LOAD", "STORE"}
  /\ Decoded.store <=> Opcode(fet_out.inst.op) = "STORE"
  /\ Decoded.store \in BOOLEAN /\ Decoded.have_rs1 \in BOOLEAN /\ Decoded.have_rs2 \in BOOLEAN
<1>1. /\ Decoded.issue = fet_out.issue
      /\ Decoded.op = fet_out.inst.op
      /\ Decoded.opcode = Decoder!Opcode(fet_out.inst.op)
      /\ Decoded.rd = fet_out.inst.rd
      /\ Decoded.imm = Decoder!Immediate(fet_out.inst)
      /\ Decoded.pc = fet_out.pc /\ Decoded.predict_pc = fet_out.predict_pc
      /\ Decoded.next_tag = ReorderBuffer!next_tag
      /\ Decoded.occupy_rd = (fet_out.issue /\ Decoder!OccupiesRd(fet_out.inst))
      /\ Decoded.to_lsb = (fet_out.issue /\ Decoder!ToLsb(fet_out.inst))
      /\ Decoded.to_rs = (fet_out.issue /\ ~Decoder!ToLsb(fet_out.inst))
      /\ Decoded.store = (Decoder!Opcode(fet_out.inst.op) = "STORE")
      /\ Decoded.have_rs1 = Decoder!HaveRs1(fet_out.inst)
      /\ Decoded.have_rs2 = Decoder!HaveRs2(fet_out.inst)
  BY DEF Decoded, Decoder!Decode
<1>2. /\ Decoder!OccupiesRd(fet_out.inst) <=> Opcode(fet_out.inst.op) \notin {"BRANCH", "STORE"}
      /\ Decoder!Immediate(fet_out.inst) \in {0, fet_out.inst.imm}
      /\ Decoder!HaveRs1(fet_out.inst) \in BOOLEAN /\ Decoder!HaveRs2(fet_out.inst) \in BOOLEAN
  BY DecoderNames DEF Decoder!OccupiesRd, Decoder!Immediate, Decoder!HaveRs1, Decoder!HaveRs2
<1> QED BY <1>1, <1>2, DecoderNames, Zenon

DecodedType ==
  /\ Decoded.op \in InnerInst /\ Decoded.opcode \in Opcodes /\ Decoded.rd \in RegIndex
  /\ Decoded.imm \in Word /\ Decoded.pc \in Word /\ Decoded.predict_pc \in Word
  /\ Decoded.next_tag \in Tag
  /\ Decoded.Qj \in Tag /\ Decoded.Qk \in Tag
  /\ Decoded.Vj \in Word /\ Decoded.Vk \in Word
  /\ Decoded.store \in BOOLEAN /\ Decoded.have_rs1 \in BOOLEAN /\ Decoded.have_rs2 \in BOOLEAN

\* The slot after a reorder buffer slot is one too.
LEMMA NextSlotTag == \A t \in RobTag : ReorderBuffer!NextSlot(t) \in RobTag
  BY CapacityAssumption DEF CapacityAssumption, RobTag, ReorderBuffer!NextSlot

\* The decoder's wires carry values of their kinds.
LEMMA DecodedTypes ==
  ASSUME FetcherType, RobType, RfType
  PROVE  DecodedType
<1>1. fet_out.inst \in Instruction /\ fet_out.pc \in Word /\ fet_out.predict_pc \in Word
  BY DEF FetcherType, FetcherOutput
<1> DEFINE inst == fet_out.inst
<1> HIDE DEF inst
<1>2. /\ inst.op \in InnerInst /\ inst.rd \in RegIndex /\ inst.rs1 \in RegIndex
      /\ inst.rs2 \in RegIndex /\ inst.imm \in Word
  BY <1>1 DEF Instruction, inst
<1>3. Opcode(inst.op) \in Opcodes
  BY <1>2 DEF Opcode, Opcodes, InnerInst, BranchOps, LoadOps, StoreOps, ArithImmOps, ArithOps
<1>4. ASSUME NEW r \in RegIndex
      PROVE  Awaited(r) \in Tag /\ Known(r) \in Word
  <2>1. SourceTag(r) \in Tag
    BY DEF SourceTag, RfType, Tag
  <2>2. rf_value[r] \in Word /\ 0 \in Word
    BY WordArithmetic DEF RfType
  <2>3. SourceTag(r) # NULL_TAG => rob_entry[SourceTag(r)].data \in Word
    BY <2>1 DEF Tag, RobType, RobEntry
  <2>4. Awaited(r) \in Tag
    BY <2>1 DEF Awaited, Tag
  <2>5. Known(r) \in Word
    BY <2>2, <2>3, Zenon DEF Known
  <2> QED BY <2>4, <2>5
<1>5. ReorderBuffer!next_tag \in Tag
  BY NextSlotTag DEF ReorderBuffer!next_tag, ReorderBuffer!tail_next, RobType, Tag, ReorderBuffer!NULL_TAG,
     NULL_TAG
<1> QED BY <1>1, <1>2, <1>3, <1>4, <1>5, DecodedFields, DecodedOperands, WordArithmetic,
    Zenon DEF DecodedType, inst

\* The ALU's broadcast of the operation in hand.
LEMMA BroadcastFields ==
  ASSUME RsType
  PROVE  /\ Broadcast.signal = rs_calc.calculate /\ Broadcast.dest_tag = rs_calc.dest
         /\ Broadcast.signal \in BOOLEAN /\ Broadcast.dest_tag \in Tag
         /\ Broadcast.result \in Word /\ Broadcast.new_pc \in Word
<1>1. /\ rs_calc.rs1val \in Word /\ rs_calc.rs2val \in Word /\ rs_calc.imm \in Word
      /\ rs_calc.pc \in Word /\ rs_calc.calculate \in BOOLEAN /\ rs_calc.dest \in Tag
  BY DEF RsType, Operation
<1>2. /\ Broadcast.signal = rs_calc.calculate /\ Broadcast.dest_tag = rs_calc.dest
      /\ Broadcast.result = Alu!AluResult(rs_calc.op, rs_calc.rs1val, rs_calc.rs2val, rs_calc.imm, rs_calc.pc)
      /\ Broadcast.new_pc = Alu!AluNewPc(rs_calc.op, rs_calc.rs1val, rs_calc.rs2val, rs_calc.imm, rs_calc.pc)
  BY DEF Broadcast, Alu!AluBroadcast
<1> QED BY <1>1, <1>2, AluWords

\* The buffer with the insertion, the results and the marks of a cycle is one of
\* well-formed entries, whatever arrives (ReorderBuffer.v:148-176).
LEMMA UpdatedType ==
  ASSUME RobType, LsbType, RsType, DecodedType
  PROVE  ReorderBuffer!Updated(Decoded, Broadcast, lsb_out) \in [RobTag -> RobEntry]
<1> USE DEF RobType
<1>e. ReorderBuffer!EmptyEntry \in RobEntry
  BY RestingTypes
<1> DEFINE up == ReorderBuffer!Updated(Decoded, Broadcast, lsb_out)
<1>1. ASSUME NEW e \in RobEntry
      PROVE  ReorderBuffer!Inserted(Decoded, e) \in RobEntry
  <2>1. e.is_io_load \in BOOLEAN
    BY DEF RobEntry
  <2>2. [ReorderBuffer!EmptyEntry EXCEPT !.opcode = Decoded.opcode, !.dest = Decoded.rd, !.pc = Decoded.pc,
                 !.imm = Decoded.imm, !.predict_pc = Decoded.predict_pc,
                 !.is_io_load = e.is_io_load] \in RobEntry
    BY <1>e, <2>1, Zenon DEF RobEntry, DecodedType
  <2> QED BY <2>2 DEF ReorderBuffer!Inserted
<1>3. lsb_out.result \in Word /\ Broadcast.result \in Word
  BY BroadcastFields DEF LsbType, LsbOutput
<1>4. ASSUME NEW i \in RobTag
      PROVE  up[i] \in RobEntry
  <2>1. rob_entry[i] \in RobEntry
    OBVIOUS
  <2>2. CASE Decoded.issue /\ i = ReorderBuffer!tail_next
    BY <2>2, <2>1, <1>1, RobNames DEF ReorderBuffer!Updated
  <2>3. CASE ~(Decoded.issue /\ i = ReorderBuffer!tail_next)
    <3> DEFINE a == Broadcast.signal /\ Broadcast.dest_tag = i /\ ReorderBuffer!in_queue(i)
               b == lsb_out.broadcast /\ lsb_out.dest_tag = i /\ ReorderBuffer!in_queue(i)
               c == lsb_out.mark_as_io_load /\ lsb_out.io_load_tag = i /\ ReorderBuffer!in_queue(i)
    <3>1. up[i] = [rob_entry[i] EXCEPT !.ready = @ \/ a \/ b,
                       !.data = IF b THEN lsb_out.result ELSE IF a THEN Broadcast.result ELSE @,
                       !.new_pc = IF a THEN Broadcast.new_pc ELSE @,
                       !.is_io_load = @ \/ c]
      BY <2>3, RobNames, Zenon DEF ReorderBuffer!Updated
    <3> HIDE DEF a, b, c, up
    <3> DEFINE e == rob_entry[i]
    <3>2. (IF b THEN lsb_out.result ELSE IF a THEN Broadcast.result ELSE e.data) \in Word
      BY <1>3, <2>1 DEF RobEntry
    <3>3. (IF a THEN Broadcast.new_pc ELSE e.new_pc) \in Word
      BY <2>1, BroadcastFields DEF RobEntry
    <3> HIDE DEF e
    <3>4. up[i] = [e EXCEPT !.ready = @ \/ a \/ b,
                       !.data = IF b THEN lsb_out.result ELSE IF a THEN Broadcast.result ELSE @,
                       !.new_pc = IF a THEN Broadcast.new_pc ELSE @,
                       !.is_io_load = @ \/ c]
      BY <3>1 DEF e
    <3>5. e \in RobEntry
      BY <2>1 DEF e
    <3> QED BY <3>2, <3>3, <3>4, <3>5, Zenon DEF RobEntry
  <2> QED BY <2>2, <2>3
<1>5. up = [i \in RobTag |-> up[i]]
  BY RobNames DEF ReorderBuffer!Updated
<1> HIDE DEF up
<1>6. up \in [RobTag -> RobEntry]
  BY <1>4, <1>5
<1> QED BY <1>6 DEF up

\* A cycle of the reorder buffer keeps the types of its registers.
LEMMA RobTypes ==
  ASSUME RobType, LsbType, RsType, DecodedType, NEW rst \in BOOLEAN,
         ReorderBuffer!Clock(rst, Decoded, Broadcast, lsb_out)
  PROVE  RobType'
<1> USE DEF RobType
<1>e. ReorderBuffer!EmptyEntry \in RobEntry
  BY RestingTypes
<1>q. ReorderBuffer!Quiet \in RobOutput
  BY RestingTypes
<1>t. 1 \in RobTag
  BY RestingTypes
<1>w. 0 \in Word
  BY RestingTypes
<1>1. CASE ReorderBuffer!Reset
  BY <1>1, <1>e, <1>q, <1>t, <1>w, RobNames DEF ReorderBuffer!Reset
<1>2. CASE ReorderBuffer!Rollback
  <2>1. [ReorderBuffer!Quiet EXCEPT !.rollback = TRUE, !.fet_rollback_pc = rob_rollback_pc] \in RobOutput
    BY <1>q DEF RobOutput
  <2> QED BY <1>2, <2>1, <1>w DEF ReorderBuffer!Rollback
<1>3. CASE ReorderBuffer!Operate(Decoded, Broadcast, lsb_out)
  <2> DEFINE up == ReorderBuffer!Updated(Decoded, Broadcast, lsb_out)
  <2>1. up \in [RobTag -> RobEntry]
    BY UpdatedType
  <2>2. rob_tail' \in RobTag
    BY <1>3, NextSlotTag DEF ReorderBuffer!Operate, ReorderBuffer!Insert, ReorderBuffer!tail_next
  <2>h. ReorderBuffer!head_next \in RobTag
    BY NextSlotTag DEF ReorderBuffer!head_next
  <2> DEFINE h == ReorderBuffer!head_next
             e == rob_entry[h]
  <2>e. e \in RobEntry
    BY <2>h
  <2>3. CASE ReorderBuffer!Commit(Decoded, Broadcast, lsb_out)
    <3>1. e.new_pc \in Word /\ e.data \in Word /\ e.pc \in Word /\ e.dest \in RegIndex
      BY <2>e DEF RobEntry
    <3>2. rob_rollback_pc' \in Word /\ rob_need_to_rollback' \in BOOLEAN
      BY <2>3, <3>1, <1>w DEF ReorderBuffer!Commit, ReorderBuffer!Mispredicts
    <3>3. \A f \in RobEntry : ReorderBuffer!Freed(f) \in RobEntry
      BY <1>e, Zenon DEF RobEntry, ReorderBuffer!Freed
    <3>4. rob_entry' \in [RobTag -> RobEntry]
      <4>1. rob_entry' = [up EXCEPT ![h] = ReorderBuffer!Freed(up[h])]
        BY <2>3, Zenon DEF ReorderBuffer!Commit
      <4> HIDE DEF up, h
      <4> QED BY <4>1, <3>3, <2>1
    <3>5. h \in Tag
      BY <2>h DEF Tag
    <3>6. ReorderBuffer!CommitPulse(h, e) \in RobOutput
      <4> DEFINE writes == e.opcode \notin {"BRANCH", "STORE"}
                 store == e.opcode = "STORE"
                 branch == e.opcode = "BRANCH"
                 taken == e.opcode = "BRANCH" /\ e.new_pc = ReorderBuffer!Add(e.pc, e.imm)
      <4>1. writes \in BOOLEAN /\ store \in BOOLEAN /\ branch \in BOOLEAN /\ taken \in BOOLEAN
        OBVIOUS
      <4>2. ReorderBuffer!CommitPulse(h, e) =
              [ReorderBuffer!Quiet EXCEPT !.commit = TRUE, !.commit_rf = writes, !.commit_lsb = store,
                 !.commit_fet = branch, !.fet_branch_taken = taken,
                 !.pc = e.pc, !.tag = h, !.data = e.data, !.target = e.dest]
        BY Zenon DEF ReorderBuffer!CommitPulse
      <4> HIDE DEF h, e, writes, store, branch, taken, RobType
      <4> QED BY <4>1, <4>2, <3>1, <3>5, <1>q, Zenon DEF RobOutput
    <3>7. rob_out' = ReorderBuffer!CommitPulse(h, e) /\ rob_head' = h
      BY <2>3 DEF ReorderBuffer!Commit
    <3> HIDE DEF h, e, up
    <3> QED BY <1>3, <2>2, <2>h, <3>2, <3>4, <3>6, <3>7 DEF ReorderBuffer!Operate, h
  <2>c. [ReorderBuffer!Quiet EXCEPT !.commit_lsb = TRUE] \in RobOutput
    BY <1>q DEF RobOutput
  <2>4. CASE ReorderBuffer!ReleaseIoLoad(Decoded, Broadcast, lsb_out)
    <3>1. \A f \in RobEntry : [f EXCEPT !.is_io_load = FALSE] \in RobEntry
      BY DEF RobEntry
    <3>2. rob_entry' = [up EXCEPT ![h] = [up[h] EXCEPT !.is_io_load = FALSE]]
      BY <2>4, Zenon DEF ReorderBuffer!ReleaseIoLoad
    <3>3. rob_entry' \in [RobTag -> RobEntry]
      <4> HIDE DEF up, h
      <4> QED BY <3>1, <3>2, <2>1
    <3> QED BY <1>3, <2>4, <2>2, <2>c, <3>3, <1>w DEF ReorderBuffer!Operate, ReorderBuffer!ReleaseIoLoad
  <2>5. CASE ReorderBuffer!Hold(Decoded, Broadcast, lsb_out)
    BY <1>3, <2>5, <2>1, <2>2, <1>w, <1>q DEF ReorderBuffer!Operate, ReorderBuffer!Hold
  <2> QED BY <1>3, <2>3, <2>4, <2>5 DEF ReorderBuffer!Operate
<1> QED BY <1>1, <1>2, <1>3 DEF ReorderBuffer!Clock

\* A cycle of the register file keeps the types of its registers.
LEMMA RfTypes ==
  ASSUME RfType, RobType, DecodedType, NEW rst \in BOOLEAN,
         RegisterFile!Clock(rst, rob_out, Decoded)
  PROVE  RfType'
<1> USE DEF RfType
<1>n. RegisterFile!RegIndex = RegIndex /\ RegisterFile!NULL_TAG = NULL_TAG
  BY RfNames
<1>w. 0 \in Word /\ NULL_TAG \in Tag
  BY WordArithmetic DEF Tag
<1>1. CASE RegisterFile!Reset
  BY <1>1, <1>n, <1>w DEF RegisterFile!Reset
<1>2. CASE RegisterFile!Rollback
  BY <1>2, <1>n, <1>w DEF RegisterFile!Rollback
<1>3. CASE RegisterFile!Operate(rob_out, Decoded)
  <2>1. rob_out.data \in Word /\ Decoded.next_tag \in Tag
    BY DEF RobType, RobOutput, DecodedType
  <2>2. rf_value' \in [RegIndex -> Word]
    BY <1>3, <1>n, <2>1 DEF RegisterFile!Operate
  <2>3. rf_rob_tag' \in [RegIndex -> Tag]
    BY <1>3, <1>n, <1>w, <2>1 DEF RegisterFile!Operate
  <2>4. rf_busy' \in [RegIndex -> BOOLEAN]
    BY <1>3, <1>n, Zenon DEF RegisterFile!Operate
  <2> QED BY <2>2, <2>3, <2>4
<1> QED BY <1>1, <1>2, <1>3 DEF RegisterFile!Clock

\* The least of some slots is one of them.
LEMMA MinIndex ==
  ASSUME NEW S \in SUBSET RsIndex, S # {}
  PROVE  ReservationStation!Min(S) \in S
<1>1. S \in SUBSET Nat
  BY CapacityAssumption DEF CapacityAssumption, RsIndex
<1>2. \E m \in S : \A n \in S : m <= n
  BY <1>1, LeastElement
<1> QED BY <1>2 DEF ReservationStation!Min

\* Hearing a broadcast.
LEMMA RsHearType ==
  ASSUME NEW e \in RsEntry, NEW s, NEW t, NEW d \in Word
  PROVE  ReservationStation!Hear(e, s, t, d) \in RsEntry
<1>1. NULL_TAG \in Tag
  BY DEF Tag
<1>2. (IF s /\ t = e.Qj THEN NULL_TAG ELSE e.Qj) \in Tag /\ (IF s /\ t = e.Qk THEN NULL_TAG ELSE e.Qk) \in Tag
  BY <1>1 DEF RsEntry
<1>3. (IF s /\ t = e.Qj THEN d ELSE e.Vj) \in Word /\ (IF s /\ t = e.Qk THEN d ELSE e.Vk) \in Word
  BY DEF RsEntry
<1> QED BY <1>2, <1>3, RsNames, Zenon DEF ReservationStation!Hear, RsEntry

\* An entry of the load store buffer that hears a broadcast stays well formed.
LEMMA LsbHearType ==
  ASSUME NEW e \in LsbEntry, NEW s, NEW t, NEW d \in Word
  PROVE  LoadStoreBuffer!Hear(e, s, t, d) \in LsbEntry
<1>1. NULL_TAG \in Tag
  BY DEF Tag
<1>2. (IF s /\ t = e.Qj THEN NULL_TAG ELSE e.Qj) \in Tag /\ (IF s /\ t = e.Qk THEN NULL_TAG ELSE e.Qk) \in Tag
  BY <1>1 DEF LsbEntry
<1>3. (IF s /\ t = e.Qj THEN d ELSE e.Vj) \in Word /\ (IF s /\ t = e.Qk THEN d ELSE e.Vk) \in Word
  BY DEF LsbEntry
<1> QED BY <1>2, <1>3, LsbNames, Zenon DEF LoadStoreBuffer!Hear, LsbEntry

\* A cycle of the reservation station keeps the types of its registers.
LEMMA RsTypes ==
  ASSUME RsType, RobType, LsbType, DecodedType, NEW rst \in BOOLEAN,
         ReservationStation!Clock(rst, Decoded, Broadcast, lsb_out, rob_out)
  PROVE  RsType'
<1> USE DEF RsType
<1>e. ReservationStation!EmptyEntry \in RsEntry
  BY RestingTypes
<1>o. ReservationStation!NoOperation \in Operation
  BY RestingTypes
<1>1. CASE ReservationStation!Clear
  BY <1>1, <1>e, <1>o, RsNames DEF ReservationStation!Clear
<1>2. CASE ReservationStation!Operate(Decoded, Broadcast, lsb_out, rob_out)
  <2>1. rob_out.data \in Word /\ Broadcast.result \in Word /\ lsb_out.result \in Word
    BY BroadcastFields DEF RobType, RobOutput, LsbType, LsbOutput
  <2>2. ReservationStation!Arriving(Decoded, rob_out) \in RsEntry
    <3> DEFINE e == [busy |-> TRUE, have_rs1 |-> Decoded.have_rs1, have_rs2 |-> Decoded.have_rs2,
        op |-> Decoded.op, imm |-> Decoded.imm, pc |-> Decoded.pc, Vj |-> Decoded.Vj, Vk |-> Decoded.Vk,
        Qj |-> Decoded.Qj, Qk |-> Decoded.Qk, dest |-> Decoded.next_tag]
    <3>1. e \in RsEntry
      BY Zenon DEF RsEntry, DecodedType
    <3>2. ReservationStation!Arriving(Decoded, rob_out) = ReservationStation!Hear(e, rob_out.commit, rob_out.tag, rob_out.data)
      BY Zenon DEF ReservationStation!Arriving
    <3> HIDE DEF e
    <3> QED BY <2>1, <3>1, <3>2, RsHearType
  <2>3. ASSUME NEW e \in RsEntry
        PROVE  ReservationStation!Snooping(e, Broadcast, lsb_out, rob_out) \in RsEntry
    <3>1. ReservationStation!Hear(e, Broadcast.signal, Broadcast.dest_tag, Broadcast.result) \in RsEntry
      BY <2>1, RsHearType
    <3>2. ReservationStation!Hear(ReservationStation!Hear(e, Broadcast.signal, Broadcast.dest_tag, Broadcast.result),
             lsb_out.broadcast, lsb_out.dest_tag, lsb_out.result) \in RsEntry
      BY <2>1, <3>1, RsHearType
    <3> QED BY <2>1, <3>2, RsHearType DEF ReservationStation!Snooping
  <2>4. rs_entry' \in [RsIndex -> RsEntry]
    BY <1>2, <1>e, <2>2, <2>3, RsNames, Zenon DEF ReservationStation!Operate
  <2>5. rs_calc' \in Operation
    <3>1. CASE ReservationStation!Ready = {}
      BY <1>2, <3>1, <1>o DEF ReservationStation!Operate
    <3>2. CASE ReservationStation!Ready # {}
      <4> DEFINE m == ReservationStation!Min(ReservationStation!Ready)
      <4>1. m \in RsIndex
        BY <3>2, MinIndex, RsNames DEF ReservationStation!Ready
      <4>2. rs_entry[m] \in RsEntry
        BY <4>1
      <4>3. rs_calc' = ReservationStation!Operation(rs_entry[m])
        BY <1>2, <3>2 DEF ReservationStation!Operate
      <4> HIDE DEF m
      <4> QED BY <4>2, <4>3 DEF ReservationStation!Operation, Operation, RsEntry
    <3> QED BY <3>1, <3>2
  <2> QED BY <2>4, <2>5
<1> QED BY <1>1, <1>2 DEF ReservationStation!Clock

\* Any number modulo the capacity is a slot of the load store buffer.
LEMMA SlotIndex == \A n \in Int : LoadStoreBuffer!Slot(n) \in LsbIndex
<1>1. LSB_CAPACITY \in Nat /\ LSB_CAPACITY >= 1
  BY CapacityAssumption DEF CapacityAssumption
<1> QED BY <1>1, Remainder DEF LsbIndex, LoadStoreBuffer!Slot

\* The slots after the head and after the tail are slots.
LEMMA LsbHeadNext == LsbType => LoadStoreBuffer!head_next \in LsbIndex /\ LoadStoreBuffer!tail_next \in LsbIndex
<1>1. ASSUME NEW n \in LsbIndex PROVE n + 1 \in Int
  BY CapacityAssumption DEF CapacityAssumption, LsbIndex
<1> QED BY <1>1, SlotIndex DEF LsbType, LoadStoreBuffer!head_next, LoadStoreBuffer!tail_next

\* The queue's contents after a cycle, whichever slots are in it.
LEMMA ContentsType ==
  ASSUME LsbType, RobType, RsType, DecodedType, NEW from, NEW to, NEW inserts, NEW finished,
         NEW data \in Word
  PROVE  LoadStoreBuffer!Contents(from, to, inserts, Decoded, Broadcast, rob_out, finished, data)
           \in [LsbIndex -> LsbEntry]
<1> USE DEF LsbType
<1>e. LoadStoreBuffer!EmptyEntry \in LsbEntry
  BY RestingTypes
<1>1. rob_out.data \in Word /\ Broadcast.result \in Word /\ rob_out.commit_lsb \in BOOLEAN
  BY BroadcastFields DEF RobType, RobOutput
<1>2. LoadStoreBuffer!Arriving(Decoded, Broadcast, rob_out) \in LsbEntry
  <2> DEFINE e == [store |-> Decoded.store, commit_flag |-> FALSE, op |-> Decoded.op,
             rob_tag |-> Decoded.next_tag, imm |-> Decoded.imm, Vj |-> Decoded.Vj, Vk |-> Decoded.Vk,
             Qj |-> Decoded.Qj, Qk |-> Decoded.Qk]
  <2>1. e \in LsbEntry
    BY Zenon DEF LsbEntry, DecodedType
  <2>2. LoadStoreBuffer!Arriving(Decoded, Broadcast, rob_out) =
           LoadStoreBuffer!Hear(LoadStoreBuffer!Hear(e, rob_out.commit, rob_out.tag, rob_out.data),
                Broadcast.signal, Broadcast.dest_tag, Broadcast.result)
    BY Zenon DEF LoadStoreBuffer!Arriving
  <2> HIDE DEF e
  <2>3. LoadStoreBuffer!Hear(e, rob_out.commit, rob_out.tag, rob_out.data) \in LsbEntry
    BY <1>1, <2>1, LsbHearType
  <2> QED BY <1>1, <2>2, <2>3, LsbHearType
<1>3. ASSUME NEW e \in LsbEntry
      PROVE  LoadStoreBuffer!Snooping(e, Broadcast, rob_out, finished, data) \in LsbEntry
  <2>1. LoadStoreBuffer!Hear(e, Broadcast.signal, Broadcast.dest_tag, Broadcast.result) \in LsbEntry
    BY <1>1, LsbHearType
  <2>2. LoadStoreBuffer!Hear(LoadStoreBuffer!Hear(e, Broadcast.signal, Broadcast.dest_tag, Broadcast.result),
             rob_out.commit, rob_out.tag, rob_out.data) \in LsbEntry
    BY <1>1, <2>1, LsbHearType
  <2> QED BY <1>1, <2>2, LsbHearType DEF LoadStoreBuffer!Snooping
<1>4. \A e \in LsbEntry, b \in BOOLEAN : [e EXCEPT !.commit_flag = b] \in LsbEntry
  BY Zenon DEF LsbEntry
<1>5. \A e \in LsbEntry, b \in BOOLEAN : [e EXCEPT !.commit_flag = @ \/ b] \in LsbEntry
  BY Zenon DEF LsbEntry
<1> DEFINE c == LoadStoreBuffer!Contents(from, to, inserts, Decoded, Broadcast, rob_out, finished, data)
<1>6. ASSUME NEW i \in LsbIndex
      PROVE  c[i] \in LsbEntry
  <2> DEFINE b == rob_out.commit_lsb /\ i = LoadStoreBuffer!CommitSlot
  <2>1. b \in BOOLEAN
    OBVIOUS
  <2>2. \/ c[i] = LoadStoreBuffer!EmptyEntry
        \/ c[i] = [LoadStoreBuffer!Arriving(Decoded, Broadcast, rob_out) EXCEPT !.commit_flag = b]
        \/ c[i] = [LoadStoreBuffer!Snooping(lsb_entry[i], Broadcast, rob_out, finished, data) EXCEPT
                     !.commit_flag = @ \/ b]
    BY LsbNames, Zenon DEF LoadStoreBuffer!Contents
  <2> HIDE DEF b, c
  <2>3. LoadStoreBuffer!Snooping(lsb_entry[i], Broadcast, rob_out, finished, data) \in LsbEntry
    BY <1>3
  <2> QED BY <2>1, <2>2, <2>3, <1>e, <1>2, <1>4, <1>5, Zenon
<1>7. c = [i \in LsbIndex |-> c[i]]
  BY LsbNames DEF LoadStoreBuffer!Contents
<1> HIDE DEF c
<1> QED BY <1>6, <1>7 DEF c

\* A cycle of the load store buffer keeps the types of its registers.
LEMMA LsbTypes ==
  ASSUME LsbType, RobType, RsType, DecodedType, NEW rst \in BOOLEAN, NEW mc \in MemoryOutput,
         LoadStoreBuffer!Clock(rst, Decoded, Broadcast, rob_out, mc)
  PROVE  LsbType'
<1> USE DEF LsbType
<1>q. LoadStoreBuffer!Quiet \in LsbOutput
  BY RestingTypes
<1>z. 0 \in LsbIndex /\ 0 \in Word /\ NULL_TAG \in Tag /\ "NOP" \in InnerInst
  BY RestingTypes
<1>d. mc.lsb_data \in Word
  BY DEF MemoryOutput
<1>r. LoadStoreBuffer!LoadResult(lsb_current_op, mc.lsb_data) \in Word
  BY <1>d, LsbNames, LoadResultWord
<1>h. LoadStoreBuffer!head_next \in LsbIndex /\ LoadStoreBuffer!tail_next \in LsbIndex
  BY LsbHeadNext
<1> DEFINE Port == /\ lsb_head' \in LsbIndex
                   /\ lsb_status' \in {"IDLE", "LOAD", "STORE"}
                   /\ lsb_current_tag' \in Tag
                   /\ lsb_current_op' \in InnerInst
                   /\ lsb_current_address' \in Word
                   /\ lsb_noticed' \in BOOLEAN
                   /\ lsb_out' \in LsbOutput
<1>i. ASSUME LoadStoreBuffer!Idle
      PROVE  /\ lsb_status' \in {"IDLE", "LOAD", "STORE"} /\ lsb_current_tag' \in Tag
             /\ lsb_current_op' \in InnerInst /\ lsb_current_address' \in Word
  BY <1>i, <1>z, LsbNames DEF LoadStoreBuffer!Idle
<1>1. CASE LoadStoreBuffer!Reset
  <2>1. LoadStoreBuffer!EmptyEntry \in LsbEntry
    BY RestingTypes
  <2> QED BY <1>1, <2>1, <1>q, <1>z, <1>i, LsbNames DEF LoadStoreBuffer!Reset
<1>2. ASSUME LoadStoreBuffer!Issue PROVE Port
  <2> DEFINE e == lsb_entry[LoadStoreBuffer!head_next]
  <2>1. e \in LsbEntry
    BY <1>h
  <2>2. LoadStoreBuffer!Address(e) \in Word
    <3>1. e.Vj \in Word /\ e.imm \in Word
      BY <2>1 DEF LsbEntry
    <3> QED BY <3>1, AddWord, LsbNames DEF LoadStoreBuffer!Address
  <2>3. LoadStoreBuffer!Goal(e.op) \in 0 .. WORD_BYTES
    BY LsbNames, GoalBytes
  <2>4. [LoadStoreBuffer!Quiet EXCEPT !.mc_request = TRUE, !.mc_store = e.store,
            !.mc_goal = LoadStoreBuffer!Goal(e.op), !.mc_address = LoadStoreBuffer!Address(e),
            !.mc_data = e.Vk] \in LsbOutput
    <3>1. e.store \in BOOLEAN /\ e.Vk \in Word
      BY <2>1 DEF LsbEntry
    <3> HIDE DEF e
    <3> QED BY <3>1, <2>2, <2>3, <1>q, Zenon DEF LsbOutput
  <2>5. e.rob_tag \in Tag /\ e.op \in InnerInst
    BY <2>1 DEF LsbEntry
  <2>6. Port
    BY <1>2, <2>2, <2>4, <2>5, <1>h, Zenon DEF LoadStoreBuffer!Issue
  <2> HIDE DEF e
  <2> QED BY <2>6
<1>3. ASSUME LoadStoreBuffer!Notice PROVE Port
  <2> DEFINE t == lsb_entry[LoadStoreBuffer!head_next].rob_tag
  <2>1. t \in Tag
    BY <1>h DEF LsbEntry
  <2>2. [LoadStoreBuffer!Quiet EXCEPT !.mark_as_io_load = TRUE, !.io_load_tag = t] \in LsbOutput
    <3> HIDE DEF t
    <3> QED BY <2>1, <1>q DEF LsbOutput
  <2> QED BY <1>3, <2>2 DEF LoadStoreBuffer!Notice
<1>4. ASSUME LoadStoreBuffer!Finish(mc) PROVE Port
  <2>1. [LoadStoreBuffer!Quiet EXCEPT !.broadcast = TRUE,
            !.result = LoadStoreBuffer!LoadResult(lsb_current_op, mc.lsb_data),
            !.dest_tag = lsb_current_tag] \in LsbOutput
    BY <1>r, <1>q DEF LsbOutput
  <2>2. lsb_out' \in LsbOutput
    BY <1>4, <2>1, <1>q, Zenon DEF LoadStoreBuffer!Finish
  <2> QED BY <1>4, <2>2, <1>i DEF LoadStoreBuffer!Finish
<1>5. ASSUME LoadStoreBuffer!Stay PROVE Port
  BY <1>5, <1>q DEF LoadStoreBuffer!Stay
<1>6. ASSUME LoadStoreBuffer!Idle, lsb_out' = LoadStoreBuffer!Quiet, UNCHANGED <<lsb_head, lsb_noticed>>
      PROVE  Port
  BY <1>6, <1>q, <1>i
<1>7. ASSUME LoadStoreBuffer!Count(rob_out)
      PROVE  lsb_cnt' \in LsbIndex
  <2> DEFINE a == LoadStoreBuffer!Flag(rob_out.commit_lsb)
             b == LoadStoreBuffer!Flag(LoadStoreBuffer!CanIssue
                         /\ LoadStoreBuffer!NeedsCommit(lsb_entry[LoadStoreBuffer!head_next]))
  <2>1. a \in Int /\ b \in Int
    BY DEF LoadStoreBuffer!Flag
  <2>2. lsb_cnt' = LoadStoreBuffer!Slot(lsb_cnt + a - b)
    BY <1>7 DEF LoadStoreBuffer!Count
  <2> HIDE DEF a, b
  <2>3. lsb_cnt \in Int
    BY CapacityAssumption DEF CapacityAssumption, LsbIndex
  <2>4. lsb_cnt + a - b \in Int
    BY <2>1, <2>3
  <2> QED BY <2>2, <2>4, SlotIndex
<1>8. CASE LoadStoreBuffer!Rollback(Decoded, Broadcast, rob_out, mc)
  <2>1. Port
    BY <1>8, <1>2, <1>3, <1>4, <1>5, <1>6 DEF LoadStoreBuffer!Rollback
  <2>2. lsb_tail' \in LsbIndex
    <3>1. lsb_head + lsb_cnt \in Int
      BY CapacityAssumption DEF CapacityAssumption, LsbIndex
    <3> QED BY <1>8, <3>1, SlotIndex DEF LoadStoreBuffer!Rollback
  <2>3. lsb_entry' \in [LsbIndex -> LsbEntry]
    BY <1>8, <1>r, ContentsType DEF LoadStoreBuffer!Rollback
  <2> QED BY <1>8, <2>1, <2>2, <2>3, <1>7 DEF LoadStoreBuffer!Rollback
<1>9. CASE LoadStoreBuffer!Operate(Decoded, Broadcast, rob_out, mc)
  <2>1. Port
    BY <1>9, <1>2, <1>3, <1>4, <1>5 DEF LoadStoreBuffer!Operate
  <2>2. lsb_tail' \in LsbIndex
    BY <1>9, <1>h DEF LoadStoreBuffer!Operate
  <2>3. lsb_entry' \in [LsbIndex -> LsbEntry]
    BY <1>9, <1>r, ContentsType DEF LoadStoreBuffer!Operate
  <2> QED BY <1>9, <2>1, <2>2, <2>3, <1>7 DEF LoadStoreBuffer!Operate
<1> QED BY <1>1, <1>8, <1>9 DEF LoadStoreBuffer!Clock

\* The registers of the core, with the types above.
CoreType == /\ FetcherType /\ RobType /\ RfType /\ RsType /\ LsbType
            /\ committed_pc \in Word

\* They are those of CoreTypeOK.
LEMMA CoreTypeIs == CoreType <=> CoreTypeOK
<1>1. FetcherType <=> Fetcher!TypeOK
  BY FetcherNames DEF FetcherType, Fetcher!TypeOK, FetcherOutput, CacheLine
<1>2. RobType <=> ReorderBuffer!TypeOK
  BY RobNames DEF RobType, ReorderBuffer!TypeOK, RobEntry, RobOutput, ReorderBuffer!Entry,
     ReorderBuffer!Output, Tag
<1>3. RfType <=> RegisterFile!TypeOK
  BY RfNames DEF RfType, RegisterFile!TypeOK, Tag
<1>4. RsType <=> ReservationStation!TypeOK
  BY RsNames DEF RsType, ReservationStation!TypeOK, RsEntry, Operation
<1>5. LsbType <=> LoadStoreBuffer!TypeOK
  BY LsbNames DEF LsbType, LoadStoreBuffer!TypeOK, LsbEntry, LsbOutput, LoadStoreBuffer!Tag, Tag
<1> QED BY <1>1, <1>2, <1>3, <1>4, <1>5 DEF CoreType, CoreTypeOK

\* A cycle keeps them, whatever the memory answers.
LEMMA CoreTypes ==
  ASSUME CoreType, NEW rst \in BOOLEAN, NEW mc \in MemoryOutput, CoreCycle(rst, mc)
  PROVE  CoreType'
<1> USE DEF CoreType
<1>1. /\ Fetcher!Clock(rst, AnyFull, rob_out, mc)
      /\ ReorderBuffer!Clock(rst, Decoded, Broadcast, lsb_out)
      /\ RegisterFile!Clock(rst, rob_out, Decoded)
      /\ ReservationStation!Clock(rst, Decoded, Broadcast, lsb_out, rob_out)
      /\ LoadStoreBuffer!Clock(rst, Decoded, Broadcast, rob_out, mc)
      /\ CommittedPc(rst)
  BY DEF CoreCycle
<1>2. DecodedType
  BY DecodedTypes
<1>3. rob_out \in RobOutput
  BY DEF RobType
<1>4. committed_pc' \in Word
  <2>1. Oldest \in RobEntry
    BY NextSlotTag DEF Oldest, ReorderBuffer!head_next, RobType
  <2>2. Oldest.new_pc \in Word /\ Oldest.predict_pc \in Word
    BY <2>1 DEF RobEntry
  <2> QED BY <1>1, <2>2, WordArithmetic DEF CommittedPc
<1> QED BY <1>1, <1>2, <1>3, <1>4, FetcherTypes, RobTypes, RfTypes, RsTypes, LsbTypes

\* The registers start with values of their types.
LEMMA CoreInitType == CoreInit => CoreType
<1> SUFFICES ASSUME CoreInit PROVE CoreType
  OBVIOUS
<1>1. FetcherType
  BY RestingTypes DEF CoreInit, Fetcher!Init, FetcherType
<1>2. RobType
  BY RestingTypes, RobNames DEF CoreInit, ReorderBuffer!Init, RobType
<1>3. RfType
  BY RestingTypes, RfNames DEF CoreInit, RegisterFile!Init, RfType
<1>4. RsType
  BY RestingTypes, RsNames DEF CoreInit, ReservationStation!Init, RsType
<1>5. LsbType
  BY RestingTypes, LsbNames DEF CoreInit, LoadStoreBuffer!Init, LsbType
<1> QED BY <1>1, <1>2, <1>3, <1>4, <1>5, RestingTypes DEF CoreInit, CoreType

(***************************************************************************)
(* Distances in a circular queue.                                          *)
(***************************************************************************)
\* How many steps lead from a to b in a circle of n slots.
Dist(a, b, n) == IF a <= b THEN b - a ELSE b - a + n

\* The slots of the reorder buffer: that of index 0 is not one.
RobSlots == ROB_CAPACITY - 1

RobAge(t) == Dist(rob_head, t, RobSlots)
Flying(t) == t \in RobTag /\ 1 <= RobAge(t) /\ RobAge(t) <= RobAge(rob_tail)
Place(i)  == Dist(lsb_head, i, LSB_CAPACITY)
Length    == Place(lsb_tail)
Queued(i) == i \in LsbIndex /\ 1 <= Place(i) /\ Place(i) <= Length

\* The reorder buffer's slots in the circle that starts at h: where the next slot
\* of a slot lies, and what a step of h changes.
LEMMA RobCircle ==
  ASSUME NEW h \in RobTag
  PROVE  /\ RobSlots \in Nat /\ RobSlots >= 2
         /\ \A t \in RobTag :
              /\ Dist(h, t, RobSlots) \in 0 .. RobSlots - 1
              /\ Dist(h, t, RobSlots) = 0 <=> t = h
              /\ ReorderBuffer!NextSlot(t) \in RobTag
              /\ Dist(h, ReorderBuffer!NextSlot(t), RobSlots) =
                   IF ReorderBuffer!NextSlot(t) = h THEN 0 ELSE Dist(h, t, RobSlots) + 1
              /\ Dist(ReorderBuffer!NextSlot(h), t, RobSlots) =
                   IF t = h THEN RobSlots - 1 ELSE Dist(h, t, RobSlots) - 1
         /\ Dist(h, ReorderBuffer!NextSlot(h), RobSlots) = 1
         /\ \A s, t \in RobTag : Dist(h, s, RobSlots) = Dist(h, t, RobSlots) => s = t
  BY CapacityAssumption DEF CapacityAssumption, RobTag, RobSlots, ReorderBuffer!NextSlot, Dist

\* The same for the load store buffer, whose slots have numbers from 0.
LEMMA LsbCircle ==
  ASSUME NEW h \in LsbIndex
  PROVE  /\ LSB_CAPACITY \in Nat /\ LSB_CAPACITY >= 2
         /\ \A i \in LsbIndex :
              /\ Dist(h, i, LSB_CAPACITY) \in 0 .. LSB_CAPACITY - 1
              /\ Dist(h, i, LSB_CAPACITY) = 0 <=> i = h
              /\ LoadStoreBuffer!Slot(i + 1) \in LsbIndex
              /\ Dist(h, LoadStoreBuffer!Slot(i + 1), LSB_CAPACITY) =
                   IF LoadStoreBuffer!Slot(i + 1) = h THEN 0 ELSE Dist(h, i, LSB_CAPACITY) + 1
              /\ Dist(LoadStoreBuffer!Slot(h + 1), i, LSB_CAPACITY) =
                   IF i = h THEN LSB_CAPACITY - 1 ELSE Dist(h, i, LSB_CAPACITY) - 1
              /\ LoadStoreBuffer!Slot(i - h) = Dist(h, i, LSB_CAPACITY)
         /\ Dist(h, LoadStoreBuffer!Slot(h + 1), LSB_CAPACITY) = 1
         /\ \A i, j \in LsbIndex : Dist(h, i, LSB_CAPACITY) = Dist(h, j, LSB_CAPACITY) => i = j
         /\ \A k \in LsbIndex : /\ LoadStoreBuffer!Slot(k) = k
                                /\ LoadStoreBuffer!Slot(h + k) \in LsbIndex
                                /\ Dist(h, LoadStoreBuffer!Slot(h + k), LSB_CAPACITY) = k
<1>0. LSB_CAPACITY \in Nat /\ LSB_CAPACITY >= 2 /\ h \in 0 .. LSB_CAPACITY - 1
  BY CapacityAssumption DEF CapacityAssumption, LsbIndex
<1>1. \A i \in LsbIndex : LoadStoreBuffer!Slot(i + 1) = IF i = LSB_CAPACITY - 1 THEN 0 ELSE i + 1
  BY <1>0 DEF LsbIndex, LoadStoreBuffer!Slot
<1>2. \A i \in LsbIndex : LoadStoreBuffer!Slot(i - h) = Dist(h, i, LSB_CAPACITY)
  BY <1>0 DEF LsbIndex, LoadStoreBuffer!Slot, Dist
<1>3. \A k \in LsbIndex : LoadStoreBuffer!Slot(h + k) = IF h + k < LSB_CAPACITY THEN h + k ELSE h + k - LSB_CAPACITY
  BY <1>0 DEF LsbIndex, LoadStoreBuffer!Slot
<1>4. \A k \in LsbIndex : LoadStoreBuffer!Slot(k) = k
  BY <1>0 DEF LsbIndex, LoadStoreBuffer!Slot
<1>5. LoadStoreBuffer!Slot(h + 1) = IF h = LSB_CAPACITY - 1 THEN 0 ELSE h + 1
  BY <1>1
<1> HIDE DEF LoadStoreBuffer!Slot
<1> QED BY <1>0, <1>1, <1>2, <1>3, <1>4, <1>5 DEF LsbIndex, Dist

\* The wires of the reorder buffer in these terms.
LEMMA RobWires ==
  ASSUME RobType
  PROVE  /\ ReorderBuffer!head_next \in RobTag /\ RobAge(ReorderBuffer!head_next) = 1
         /\ ReorderBuffer!tail_next \in RobTag
         /\ rob_head # rob_tail => Flying(ReorderBuffer!head_next)
         /\ ~Flying(rob_head) /\ RobAge(rob_head) = 0
         /\ \A t \in RobTag : ReorderBuffer!in_queue(t) <=> Flying(t)
         /\ \A t : ReorderBuffer!in_queue(t) /\ t \in Tag => Flying(t)
         /\ ~ReorderBuffer!full_out =>
              /\ ReorderBuffer!next_tag = ReorderBuffer!tail_next
              /\ ~Flying(ReorderBuffer!tail_next)
              /\ RobAge(ReorderBuffer!tail_next) = RobAge(rob_tail) + 1
<1> DEFINE h == rob_head
           e == rob_tail
<1>1. h \in RobTag /\ e \in RobTag
  BY DEF RobType
<1>2. \A t \in RobTag : ReorderBuffer!in_queue(t) <=> Flying(t)
  BY <1>1, CapacityAssumption DEF CapacityAssumption, RobTag, ReorderBuffer!in_queue,
     ReorderBuffer!NULL_TAG, Flying, RobAge, RobSlots, Dist
<1>3. \A t : ReorderBuffer!in_queue(t) /\ t \in Tag => Flying(t)
  BY <1>2 DEF Tag, NULL_TAG, ReorderBuffer!in_queue, ReorderBuffer!NULL_TAG
<1>4. /\ ReorderBuffer!head_next \in RobTag /\ RobAge(ReorderBuffer!head_next) = 1
      /\ ReorderBuffer!tail_next \in RobTag
  BY <1>1, RobCircle DEF ReorderBuffer!head_next, ReorderBuffer!tail_next, RobAge
<1>5. rob_head # rob_tail => Flying(ReorderBuffer!head_next)
  BY <1>1, <1>4, RobCircle DEF Flying, RobAge
<1>6. ~Flying(rob_head) /\ RobAge(rob_head) = 0
  BY <1>1, RobCircle DEF Flying, RobAge
<1>7. ASSUME ~ReorderBuffer!full_out
      PROVE  /\ ReorderBuffer!next_tag = ReorderBuffer!tail_next
             /\ ~Flying(ReorderBuffer!tail_next)
             /\ RobAge(ReorderBuffer!tail_next) = RobAge(rob_tail) + 1
  <2>1. rob_head # ReorderBuffer!tail_next
    BY <1>7 DEF ReorderBuffer!full_out
  <2>2. RobAge(ReorderBuffer!tail_next) = RobAge(rob_tail) + 1
    BY <1>1, <2>1, RobCircle DEF RobAge, ReorderBuffer!tail_next
  <2>3. RobAge(rob_tail) \in Int
    BY <1>1, RobCircle DEF RobAge
  <2> QED BY <2>1, <2>2, <2>3 DEF ReorderBuffer!next_tag, Flying
<1> QED BY <1>2, <1>3, <1>4, <1>5, <1>6, <1>7

(***************************************************************************)
(* What the reorder buffer does in a cycle without reset or rollback.      *)
(***************************************************************************)
HeadNext   == ReorderBuffer!head_next
TailNext   == ReorderBuffer!tail_next
Committing == ReorderBuffer!CanCommit
Releasing  == rob_head # rob_tail /\ ~Committing /\ rob_entry[HeadNext].is_io_load

InAlu(t)  == rs_calc.calculate /\ rs_calc.dest = t
Loaded(t) == lsb_out.broadcast /\ lsb_out.dest_tag = t
Marked(t) == lsb_out.mark_as_io_load /\ lsb_out.io_load_tag = t

\* A commit takes the oldest instruction out, an issue puts the youngest in, and
\* the others keep their order (ReorderBuffer.v:103-146).
LEMMA RobPointers ==
  ASSUME RobType, Decoded.issue => ~ReorderBuffer!full_out,
         ReorderBuffer!Operate(Decoded, Broadcast, lsb_out)
  PROVE  /\ Committing \/ Releasing => Flying(HeadNext)
         /\ rob_head' = IF Committing THEN HeadNext ELSE rob_head
         /\ rob_tail' = IF Decoded.issue THEN TailNext ELSE rob_tail
         /\ \A t \in RobTag :
              /\ RobAge(t) \in Nat /\ RobAge(t)' \in Nat
              /\ ~Committing => RobAge(t)' = RobAge(t)
              /\ Committing /\ t # rob_head => RobAge(t)' = RobAge(t) - 1
              /\ Flying(t)' <=> \/ Flying(t) /\ ~(Committing /\ t = HeadNext)
                                \/ Decoded.issue /\ t = TailNext
              /\ Flying(t) => RobAge(t) >= 1 /\ t # rob_head
         /\ Decoded.issue => /\ ~Flying(TailNext)
                             /\ \A t \in RobTag : Flying(t) => RobAge(t) < RobAge(TailNext)
                             /\ \A t \in RobTag : Flying(t)' => RobAge(t)' <= RobAge(rob_tail)'
                             /\ Committing => TailNext # rob_head
         /\ \A s, t \in RobTag : RobAge(s) = RobAge(t) => s = t
<1> DEFINE a(t) == Dist(rob_head, t, RobSlots)
           b(t) == Dist(rob_head', t, RobSlots)
<1>1. rob_head \in RobTag /\ rob_tail \in RobTag /\ RobSlots \in Nat /\ RobSlots >= 2
  BY RobCircle DEF RobType
<1>2. rob_head' = IF Committing THEN HeadNext ELSE rob_head
  BY DEF ReorderBuffer!Operate, ReorderBuffer!Commit, ReorderBuffer!ReleaseIoLoad, ReorderBuffer!Hold,
     Committing, HeadNext
<1>3. rob_tail' = IF Decoded.issue THEN TailNext ELSE rob_tail
  BY DEF ReorderBuffer!Operate, ReorderBuffer!Insert, TailNext
<1>4. Committing \/ Releasing => rob_head # rob_tail
  BY DEF Committing, Releasing, ReorderBuffer!CanCommit
<1>5. /\ HeadNext = ReorderBuffer!NextSlot(rob_head) /\ HeadNext \in RobTag
      /\ TailNext = ReorderBuffer!NextSlot(rob_tail) /\ TailNext \in RobTag
  BY <1>1, RobCircle DEF HeadNext, TailNext, ReorderBuffer!head_next, ReorderBuffer!tail_next
<1>6. Decoded.issue => rob_head # TailNext
  BY DEF ReorderBuffer!full_out, TailNext
<1>7. rob_head' \in RobTag /\ rob_tail' \in RobTag
  BY <1>1, <1>2, <1>3, <1>5
<1>8. ASSUME NEW t \in RobTag
      PROVE  /\ a(t) \in 0 .. RobSlots - 1 /\ b(t) \in 0 .. RobSlots - 1
             /\ a(t) = 0 <=> t = rob_head
             /\ b(t) = IF Committing THEN IF t = rob_head THEN RobSlots - 1 ELSE a(t) - 1 ELSE a(t)
             /\ \A s \in RobTag : a(s) = a(t) => s = t
  BY <1>1, <1>2, <1>5, <1>7, RobCircle
<1>9. /\ a(HeadNext) = 1
      /\ Decoded.issue => a(TailNext) = a(rob_tail) + 1
  BY <1>1, <1>5, <1>6, RobCircle
<1> HIDE DEF a, b
<1>10. \A t \in RobTag : /\ Flying(t) <=> 1 <= a(t) /\ a(t) <= a(rob_tail)
                         /\ Flying(t)' <=> 1 <= b(t) /\ b(t) <= b(rob_tail')
                         /\ RobAge(t) = a(t) /\ RobAge(t)' = b(t)
  BY DEF Flying, RobAge, a, b
<1>11. ASSUME NEW t \in RobTag
       PROVE  Flying(t)' <=> \/ Flying(t) /\ ~(Committing /\ t = HeadNext)
                             \/ Decoded.issue /\ t = TailNext
  <2>1. /\ a(t) = 1 => t = HeadNext
        /\ Decoded.issue /\ a(t) = a(TailNext) => t = TailNext
    BY <1>5, <1>8, <1>9
  <2>2. /\ a(t) \in 0 .. RobSlots - 1 /\ b(t) \in 0 .. RobSlots - 1
        /\ a(t) = 0 <=> t = rob_head
        /\ b(t) = IF Committing THEN IF t = rob_head THEN RobSlots - 1 ELSE a(t) - 1 ELSE a(t)
    BY <1>8
  <2>3. /\ a(rob_tail) \in 0 .. RobSlots - 1
        /\ a(rob_tail) = 0 <=> rob_tail = rob_head
        /\ b(rob_tail) = IF Committing THEN IF rob_tail = rob_head THEN RobSlots - 1 ELSE a(rob_tail) - 1 ELSE a(rob_tail)
    BY <1>8, <1>1
  <2>4. /\ a(TailNext) \in 0 .. RobSlots - 1
        /\ a(TailNext) = 0 <=> TailNext = rob_head
        /\ b(TailNext) = IF Committing THEN IF TailNext = rob_head THEN RobSlots - 1 ELSE a(TailNext) - 1 ELSE a(TailNext)
    BY <1>8, <1>5
  <2>5. CASE Decoded.issue
    BY <2>1, <2>2, <2>3, <2>4, <2>5, <1>1, <1>3, <1>4, <1>6, <1>9, <1>10
  <2>6. CASE ~Decoded.issue
    BY <2>1, <2>2, <2>3, <2>6, <1>1, <1>3, <1>4, <1>9, <1>10
  <2> QED BY <2>5, <2>6
<1>12. \A s, t \in RobTag : RobAge(s) = RobAge(t) => s = t
  BY <1>8, <1>10
<1>13. ASSUME Decoded.issue
       PROVE  /\ ~Flying(TailNext)
              /\ \A t \in RobTag : Flying(t) => RobAge(t) < RobAge(TailNext)
              /\ \A t \in RobTag : Flying(t)' => RobAge(t)' <= RobAge(rob_tail)'
              /\ Committing => TailNext # rob_head
  BY <1>1, <1>3, <1>5, <1>6, <1>8, <1>9, <1>10, <1>13
<1>14. Committing \/ Releasing => Flying(HeadNext)
  BY <1>1, <1>4, <1>5, <1>8, <1>9, <1>10
<1>15. ASSUME NEW t \in RobTag
       PROVE  /\ RobAge(t) \in Nat /\ RobAge(t)' \in Nat
              /\ ~Committing => RobAge(t)' = RobAge(t)
              /\ Committing /\ t # rob_head => RobAge(t)' = RobAge(t) - 1
              /\ Flying(t) => RobAge(t) >= 1 /\ t # rob_head
  BY <1>1, <1>8, <1>10
<1> QED BY <1>2, <1>3, <1>11, <1>12, <1>13, <1>14, <1>15

Op(t) == rob_entry[t].opcode

\* Which instructions are in the reorder buffer after the cycle: those that stay and the new one.
Stays(t) == Flying(t) /\ ~(Committing /\ t = HeadNext)
Enters(t) == Decoded.issue /\ t = TailNext

\* The slot of a tag after a cycle.
SlotAfter(t) ==
  /\ Stays(t) => /\ rob_entry'[t].ready <=> rob_entry[t].ready \/ InAlu(t) \/ Loaded(t)
                 /\ Op(t)' = Op(t)
                 /\ rob_entry'[t].dest = rob_entry[t].dest
                 /\ rob_entry'[t].is_io_load <=> /\ rob_entry[t].is_io_load \/ Marked(t)
                                                 /\ ~(Releasing /\ t = HeadNext)
  /\ Enters(t) => /\ ~rob_entry'[t].ready
                  /\ Op(t)' = Decoded.opcode
                  /\ rob_entry'[t].dest = Decoded.rd
                  /\ rob_entry'[t].is_io_load = rob_entry[t].is_io_load
  /\ ~Flying(t)' => (rob_entry'[t].is_io_load
                       <=> (rob_entry[t].is_io_load \/ (Flying(t) /\ Marked(t))))

\* What it tells the others.
RobTells ==
  /\ ~rob_out'.rollback
  /\ rob_out'.commit <=> Committing
  /\ rob_out'.commit_rf <=> Committing /\ Op(HeadNext) \notin {"BRANCH", "STORE"}
  /\ rob_out'.commit_lsb <=> (Committing /\ Op(HeadNext) = "STORE") \/ Releasing
  /\ Committing => /\ rob_out'.tag = HeadNext
                   /\ rob_out'.target = rob_entry[HeadNext].dest
  /\ ~rob_inner_rollback'
  /\ rob_need_to_rollback' => Committing /\ Op(HeadNext) \in {"JALR", "BRANCH"}
  /\ Committing => rob_entry[HeadNext].ready \/ Op(HeadNext) = "STORE"

\* What the slots hold after the cycle, and what the reorder buffer tells the others.
LEMMA RobContents ==
  ASSUME RobType, RsType, LsbType, DecodedType, Decoded.issue => ~ReorderBuffer!full_out,
         ReorderBuffer!Operate(Decoded, Broadcast, lsb_out)
  PROVE  (\A t \in RobTag : SlotAfter(t)) /\ RobTells
<1> DEFINE u == ReorderBuffer!Updated(Decoded, Broadcast, lsb_out)
<1>1. /\ Broadcast.signal = rs_calc.calculate /\ Broadcast.dest_tag = rs_calc.dest
  BY BroadcastFields
<1>2. HeadNext \in RobTag /\ TailNext \in RobTag
  BY RobWires DEF HeadNext, TailNext
<1>3. ReorderBuffer!RobTag = RobTag
  BY RobNames
<1>4. \A t \in RobTag : ReorderBuffer!in_queue(t) <=> Flying(t)
  BY RobWires
<1>5. ASSUME NEW t \in RobTag
      PROVE  /\ Enters(t) => u[t] = ReorderBuffer!Inserted(Decoded, rob_entry[t])
             /\ ~Enters(t) => /\ u[t].ready <=> rob_entry[t].ready \/ (Flying(t) /\ (InAlu(t) \/ Loaded(t)))
                              /\ u[t].opcode = rob_entry[t].opcode
                              /\ u[t].dest = rob_entry[t].dest
                              /\ u[t].is_io_load <=> rob_entry[t].is_io_load \/ (Flying(t) /\ Marked(t))
  <2>1. rob_entry[t] \in RobEntry
    BY DEF RobType
  <2>2. /\ Enters(t) => u[t] = ReorderBuffer!Inserted(Decoded, rob_entry[t])
    BY <1>3 DEF ReorderBuffer!Updated, Enters, TailNext
  <2>3. ASSUME ~Enters(t)
        PROVE  /\ u[t].ready <=> rob_entry[t].ready \/ (Flying(t) /\ (InAlu(t) \/ Loaded(t)))
               /\ u[t].opcode = rob_entry[t].opcode
               /\ u[t].dest = rob_entry[t].dest
               /\ u[t].is_io_load <=> rob_entry[t].is_io_load \/ (Flying(t) /\ Marked(t))
    BY <1>1, <1>3, <1>4, <2>1, <2>3, Zenon DEF ReorderBuffer!Updated, Enters, TailNext, InAlu, Loaded,
       Marked, RobEntry
  <2> QED BY <2>2, <2>3
<1>6. ASSUME NEW t \in RobTag, Enters(t)
      PROVE  /\ ~u[t].ready /\ u[t].opcode = Decoded.opcode /\ u[t].dest = Decoded.rd
             /\ u[t].is_io_load = rob_entry[t].is_io_load
  <2>1. u[t] = ReorderBuffer!Inserted(Decoded, rob_entry[t])
    BY <1>5, <1>6
  <2>2. ASSUME NEW d, NEW o
        PROVE  LET e == ReorderBuffer!Inserted(d, o)
               IN /\ ~e.ready /\ e.opcode = d.opcode /\ e.dest = d.rd
                  /\ e.is_io_load = o.is_io_load
    BY Zenon DEF ReorderBuffer!Inserted, ReorderBuffer!EmptyEntry
  <2> QED BY <2>1, <2>2
<1>7. ReorderBuffer!Commit(Decoded, Broadcast, lsb_out) \/ ReorderBuffer!ReleaseIoLoad(Decoded, Broadcast, lsb_out)
      \/ ReorderBuffer!Hold(Decoded, Broadcast, lsb_out)
  BY DEF ReorderBuffer!Operate
<1>8. \A t \in RobTag : u[t] \in RobEntry
  BY UpdatedType
<1>9. ASSUME NEW t \in RobTag
      PROVE  IF Committing /\ t = HeadNext
               THEN rob_entry'[t].is_io_load = u[t].is_io_load
             ELSE IF Releasing /\ t = HeadNext
               THEN rob_entry'[t] = [u[t] EXCEPT !.is_io_load = FALSE]
             ELSE rob_entry'[t] = u[t]
  <2>1. u = [i \in RobTag |-> u[i]]
    BY <1>3, Zenon DEF ReorderBuffer!Updated
  <2>2. CASE ReorderBuffer!Commit(Decoded, Broadcast, lsb_out)
    <3>1. Committing /\ rob_entry' = [u EXCEPT ![HeadNext] = ReorderBuffer!Freed(@)]
      BY <2>2 DEF ReorderBuffer!Commit, Committing, HeadNext
    <3>2. \A e : ReorderBuffer!Freed(e).is_io_load = e.is_io_load
      BY Zenon DEF ReorderBuffer!Freed, ReorderBuffer!EmptyEntry
    <3> HIDE DEF u
    <3> QED BY <3>1, <3>2, <2>1, <1>2 DEF Releasing
  <2>3. CASE ReorderBuffer!ReleaseIoLoad(Decoded, Broadcast, lsb_out)
    <3>1. Releasing /\ ~Committing /\ rob_entry' = [u EXCEPT ![HeadNext].is_io_load = FALSE]
      BY <2>3 DEF ReorderBuffer!ReleaseIoLoad, Committing, Releasing, HeadNext
    <3> HIDE DEF u
    <3> QED BY <3>1, <2>1, <1>2
  <2>4. CASE ReorderBuffer!Hold(Decoded, Broadcast, lsb_out)
    <3>1. ~Releasing /\ ~Committing /\ rob_entry' = u
      BY <2>4 DEF ReorderBuffer!Hold, Committing, Releasing, HeadNext
    <3> QED BY <3>1
  <2> QED BY <1>7, <2>2, <2>3, <2>4
<1>10. \A t \in RobTag : /\ Flying(t)' <=> Stays(t) \/ Enters(t)
                         /\ Enters(t) => ~Flying(t)
  BY RobPointers DEF Stays, Enters
<1>11. Committing \/ Releasing => Flying(HeadNext)
  BY RobPointers
<1> HIDE DEF u
<1>12. \A t \in RobTag : SlotAfter(t)
  <2> SUFFICES ASSUME NEW t \in RobTag PROVE SlotAfter(t)
    OBVIOUS
  <2> DEFINE r == [u[t] EXCEPT !.is_io_load = FALSE]
  <2>1. /\ u[t].ready <=> r.ready
        /\ u[t].opcode = r.opcode /\ u[t].dest = r.dest /\ ~r.is_io_load
    <3>1. u[t] \in RobEntry
      BY <1>8
    <3> QED BY <3>1, Zenon DEF RobEntry
  <2> HIDE DEF r
  <2>2. IF Committing /\ t = HeadNext
               THEN rob_entry'[t].is_io_load = u[t].is_io_load
             ELSE IF Releasing /\ t = HeadNext
               THEN rob_entry'[t] = r
             ELSE rob_entry'[t] = u[t]
    BY <1>9 DEF r
  <2>3. CASE Stays(t)
    BY <2>1, <2>2, <2>3, <1>5, <1>10 DEF Stays, Op, SlotAfter
  <2>4. CASE Enters(t)
    BY <2>1, <2>2, <2>4, <1>6, <1>10, <1>11 DEF Stays, Op, SlotAfter
  <2>5. CASE ~Flying(t)'
    BY <2>1, <2>2, <2>5, <1>5, <1>6, <1>10, <1>11 DEF Stays, Op, SlotAfter
  <2> QED BY <2>3, <2>4, <2>5, <1>10 DEF SlotAfter
<1>13. RobTells
  <2>0. ~rob_inner_rollback'
    BY DEF ReorderBuffer!Operate
  <2>1. CASE ReorderBuffer!Commit(Decoded, Broadcast, lsb_out)
    <3> DEFINE e == rob_entry[HeadNext]
    <3>1. /\ Committing /\ (e.ready \/ e.opcode = "STORE")
          /\ rob_out' = ReorderBuffer!CommitPulse(HeadNext, e)
          /\ rob_need_to_rollback' = ReorderBuffer!Mispredicts(e)
      BY <2>1 DEF ReorderBuffer!Commit, Committing, HeadNext, ReorderBuffer!CanCommit
    <3> HIDE DEF e
    <3>2. ASSUME NEW t, NEW f
          PROVE  LET p == ReorderBuffer!CommitPulse(t, f)
                 IN /\ ~p.rollback /\ p.commit
                    /\ p.commit_rf <=> f.opcode \notin {"BRANCH", "STORE"}
                    /\ p.commit_lsb <=> f.opcode = "STORE"
                    /\ p.tag = t /\ p.target = f.dest
      BY Zenon DEF ReorderBuffer!CommitPulse, ReorderBuffer!Quiet
    <3>3. /\ ~rob_out'.rollback /\ rob_out'.commit
          /\ rob_out'.commit_rf <=> e.opcode \notin {"BRANCH", "STORE"}
          /\ rob_out'.commit_lsb <=> e.opcode = "STORE"
          /\ rob_out'.tag = HeadNext /\ rob_out'.target = e.dest
      BY <3>1, <3>2
    <3>4. rob_need_to_rollback' => e.opcode \in {"JALR", "BRANCH"}
      BY <3>1 DEF ReorderBuffer!Mispredicts
    <3> QED BY <2>0, <3>1, <3>3, <3>4 DEF RobTells, Releasing, Op, e
  <2>2. CASE ReorderBuffer!ReleaseIoLoad(Decoded, Broadcast, lsb_out)
    <3>1. /\ ~Committing /\ Releasing /\ ~rob_need_to_rollback'
          /\ rob_out' = [ReorderBuffer!Quiet EXCEPT !.commit_lsb = TRUE]
      BY <2>2 DEF ReorderBuffer!ReleaseIoLoad, Committing, Releasing, HeadNext
    <3> QED BY <2>0, <3>1 DEF RobTells, ReorderBuffer!Quiet
  <2>3. CASE ReorderBuffer!Hold(Decoded, Broadcast, lsb_out)
    <3>1. /\ ~Committing /\ ~Releasing /\ ~rob_need_to_rollback'
          /\ rob_out' = ReorderBuffer!Quiet
      BY <2>3 DEF ReorderBuffer!Hold, Committing, Releasing, HeadNext
    <3> QED BY <2>0, <3>1 DEF RobTells, ReorderBuffer!Quiet
  <2> QED BY <1>7, <2>1, <2>2, <2>3
<1> QED BY <1>12, <1>13

(***************************************************************************)
(* What the reservation station does in a cycle without reset or rollback. *)
(***************************************************************************)
Committed(t) == rob_out.commit /\ rob_out.tag = t
Arrives(i) == Decoded.to_rs /\ i = ReservationStation!Min(ReservationStation!Free)
Leaves(i)  == ReservationStation!Ready # {} /\ i = ReservationStation!Min(ReservationStation!Ready)

StillAwaited(q) == IF InAlu(q) \/ Loaded(q) \/ Committed(q) THEN NULL_TAG ELSE q

RsSlotAfter(i) ==
  /\ Arrives(i) => /\ ~rs_entry[i].busy /\ rs_entry'[i].busy
                   /\ rs_entry'[i].dest = Decoded.next_tag
                   /\ rs_entry'[i].Qj = IF Committed(Decoded.Qj) THEN NULL_TAG ELSE Decoded.Qj
                   /\ rs_entry'[i].Qk = IF Committed(Decoded.Qk) THEN NULL_TAG ELSE Decoded.Qk
  /\ Leaves(i) => rs_entry[i].busy /\ ~rs_entry'[i].busy
  /\ ~Arrives(i) => (rs_entry'[i].busy <=> rs_entry[i].busy /\ ~Leaves(i))
  /\ ~Arrives(i) /\ rs_entry'[i].busy =>
       /\ rs_entry'[i].dest = rs_entry[i].dest
       /\ rs_entry'[i].have_rs1 = rs_entry[i].have_rs1
       /\ rs_entry'[i].have_rs2 = rs_entry[i].have_rs2
       /\ rs_entry'[i].Qj = StillAwaited(rs_entry[i].Qj)
       /\ rs_entry'[i].Qk = StillAwaited(rs_entry[i].Qk)
  /\ ~rs_entry'[i].busy => ~rs_entry'[i].have_rs1 /\ ~rs_entry'[i].have_rs2

\* A station entry that hears a broadcast changes only the operands it announces.
LEMMA RsHears ==
  ASSUME NEW e \in RsEntry, NEW s, NEW t, NEW d
  PROVE  LET f == ReservationStation!Hear(e, s, t, d)
         IN /\ f.busy = e.busy /\ f.dest = e.dest
            /\ f.have_rs1 = e.have_rs1 /\ f.have_rs2 = e.have_rs2
            /\ f.Qj = IF s /\ t = e.Qj THEN NULL_TAG ELSE e.Qj
            /\ f.Qk = IF s /\ t = e.Qk THEN NULL_TAG ELSE e.Qk
<1>1. ReservationStation!NULL_TAG = NULL_TAG
  BY RsNames
<1> QED BY <1>1, Zenon DEF ReservationStation!Hear, RsEntry

\* What the station holds after the cycle, and which entry goes to the ALU.
LEMMA RsContents ==
  ASSUME RsType, RobType, LsbType, DecodedType, Decoded.to_rs => ~ReservationStation!full_out,
         ReservationStation!Operate(Decoded, Broadcast, lsb_out, rob_out)
  PROVE  /\ \A i \in RsIndex : RsSlotAfter(i)
         /\ Decoded.to_rs => \E i \in RsIndex : Arrives(i)
         /\ rs_calc'.calculate => \E i \in RsIndex : Leaves(i)
         /\ \A i \in RsIndex : Leaves(i) => rs_calc'.calculate /\ rs_calc'.dest = rs_entry[i].dest
<1> DEFINE Free == ReservationStation!Free
           Ready == ReservationStation!Ready
<1>1. ReservationStation!RsIndex = RsIndex /\ ReservationStation!NULL_TAG = NULL_TAG
  BY RsNames
<1>2. Free \in SUBSET RsIndex /\ Ready \in SUBSET RsIndex
  BY <1>1 DEF ReservationStation!Free, ReservationStation!Ready
<1>3. Decoded.to_rs => Free # {}
  BY DEF ReservationStation!full_out
<1>4. /\ Free # {} => ReservationStation!Min(Free) \in Free
      /\ Ready # {} => ReservationStation!Min(Ready) \in Ready
  BY <1>2, MinIndex
<1>5. \A i \in RsIndex : /\ Arrives(i) => ~rs_entry[i].busy
                         /\ Leaves(i) => rs_entry[i].busy
  BY <1>1, <1>3, <1>4 DEF ReservationStation!Free, ReservationStation!Ready, Arrives, Leaves
<1>6. Decoded.to_rs => \E i \in RsIndex : Arrives(i)
  BY <1>2, <1>3, <1>4 DEF Arrives
<1>7. \A i \in RsIndex :
        rs_entry'[i] = IF Arrives(i) THEN ReservationStation!Arriving(Decoded, rob_out)
                       ELSE IF Leaves(i) \/ ~rs_entry[i].busy THEN ReservationStation!EmptyEntry
                       ELSE ReservationStation!Snooping(rs_entry[i], Broadcast, lsb_out, rob_out)
  BY <1>1, <1>3, Zenon DEF ReservationStation!Operate, Arrives, Leaves
<1>8. /\ rs_calc'.calculate => \E i \in RsIndex : Leaves(i)
      /\ \A i \in RsIndex : Leaves(i) => rs_calc'.calculate /\ rs_calc'.dest = rs_entry[i].dest
  <2>1. rs_calc' = IF Ready = {} THEN ReservationStation!NoOperation
                   ELSE ReservationStation!Operation(rs_entry[ReservationStation!Min(Ready)])
    BY DEF ReservationStation!Operate
  <2>2. ~ReservationStation!NoOperation.calculate
    BY DEF ReservationStation!NoOperation
  <2>3. \A e : ReservationStation!Operation(e).calculate /\ ReservationStation!Operation(e).dest = e.dest
    BY Zenon DEF ReservationStation!Operation
  <2> HIDE DEF Ready
  <2> QED BY <2>1, <2>2, <2>3, <1>2, <1>4 DEF Leaves, Ready
<1>9. ASSUME NEW i \in RsIndex
      PROVE  RsSlotAfter(i)
  <2> DEFINE e == rs_entry[i]
  <2>1. e \in RsEntry
    BY DEF RsType
  <2>2. CASE Arrives(i)
    <3> DEFINE a == [busy |-> TRUE, have_rs1 |-> Decoded.have_rs1, have_rs2 |-> Decoded.have_rs2,
                     op |-> Decoded.op, imm |-> Decoded.imm, pc |-> Decoded.pc, Vj |-> Decoded.Vj, Vk |-> Decoded.Vk,
                     Qj |-> Decoded.Qj, Qk |-> Decoded.Qk, dest |-> Decoded.next_tag]
    <3>1. a \in RsEntry
      BY Zenon DEF DecodedType, RsEntry
    <3>2. a.busy /\ a.dest = Decoded.next_tag /\ a.Qj = Decoded.Qj /\ a.Qk = Decoded.Qk
      BY Zenon
    <3>3. rs_entry'[i] = ReservationStation!Hear(a, rob_out.commit, rob_out.tag, rob_out.data)
      BY <2>2, <1>7 DEF ReservationStation!Arriving
    <3> HIDE DEF a
    <3>4. /\ rs_entry'[i].busy /\ rs_entry'[i].dest = Decoded.next_tag
          /\ rs_entry'[i].Qj = IF Committed(Decoded.Qj) THEN NULL_TAG ELSE Decoded.Qj
          /\ rs_entry'[i].Qk = IF Committed(Decoded.Qk) THEN NULL_TAG ELSE Decoded.Qk
      BY <3>1, <3>2, <3>3, RsHears DEF Committed
    <3> QED BY <2>2, <3>4, <1>5 DEF RsSlotAfter
  <2>3. CASE ~Arrives(i) /\ (Leaves(i) \/ ~e.busy)
    <3>1. rs_entry'[i] = ReservationStation!EmptyEntry
      BY <2>3, <1>7
    <3>2. ~rs_entry'[i].busy /\ ~rs_entry'[i].have_rs1 /\ ~rs_entry'[i].have_rs2
      BY <3>1 DEF ReservationStation!EmptyEntry
    <3> QED BY <2>3, <3>2, <1>5 DEF RsSlotAfter
  <2>4. CASE ~Arrives(i) /\ ~Leaves(i) /\ e.busy
    <3> DEFINE f == ReservationStation!Hear(e, Broadcast.signal, Broadcast.dest_tag, Broadcast.result)
               g == ReservationStation!Hear(f, lsb_out.broadcast, lsb_out.dest_tag, lsb_out.result)
               h == ReservationStation!Hear(g, rob_out.commit, rob_out.tag, rob_out.data)
    <3>1. rs_entry'[i] = h
      BY <2>4, <1>7 DEF ReservationStation!Snooping
    <3>2. /\ Broadcast.signal = rs_calc.calculate /\ Broadcast.dest_tag = rs_calc.dest
          /\ Broadcast.result \in Word /\ lsb_out.result \in Word
      BY BroadcastFields DEF LsbType, LsbOutput
    <3>3. f \in RsEntry /\ g \in RsEntry
      <4>1. f \in RsEntry
        BY <2>1, <3>2, RsHearType
      <4> HIDE DEF f
      <4> QED BY <4>1, <3>2, RsHearType
    <3> HIDE DEF e
    <3>4. /\ f.busy = e.busy /\ f.dest = e.dest
          /\ f.have_rs1 = e.have_rs1 /\ f.have_rs2 = e.have_rs2
          /\ f.Qj = IF InAlu(e.Qj) THEN NULL_TAG ELSE e.Qj
          /\ f.Qk = IF InAlu(e.Qk) THEN NULL_TAG ELSE e.Qk
      BY <2>1, <3>2, RsHears DEF InAlu
    <3> HIDE DEF f
    <3>5. /\ g.busy = f.busy /\ g.dest = f.dest
          /\ g.have_rs1 = f.have_rs1 /\ g.have_rs2 = f.have_rs2
          /\ g.Qj = IF Loaded(f.Qj) THEN NULL_TAG ELSE f.Qj
          /\ g.Qk = IF Loaded(f.Qk) THEN NULL_TAG ELSE f.Qk
      BY <3>3, RsHears DEF Loaded
    <3> HIDE DEF g
    <3>6. /\ h.busy = g.busy /\ h.dest = g.dest
          /\ h.have_rs1 = g.have_rs1 /\ h.have_rs2 = g.have_rs2
          /\ h.Qj = IF Committed(g.Qj) THEN NULL_TAG ELSE g.Qj
          /\ h.Qk = IF Committed(g.Qk) THEN NULL_TAG ELSE g.Qk
      BY <3>3, RsHears DEF Committed
    <3> HIDE DEF h
    <3>7. h.Qj = StillAwaited(e.Qj) /\ h.Qk = StillAwaited(e.Qk)
      BY <3>4, <3>5, <3>6 DEF StillAwaited
    <3>8. e.busy
      BY <2>4
    <3> QED BY <2>4, <3>1, <3>4, <3>5, <3>6, <3>7, <3>8 DEF RsSlotAfter, e
  <2> QED BY <2>2, <2>3, <2>4
<1> QED BY <1>6, <1>8, <1>9

(***************************************************************************)
(* What the load store buffer does in a cycle without reset or rollback.   *)
(***************************************************************************)
LsbHead  == LoadStoreBuffer!head_next
LsbTail  == LoadStoreBuffer!tail_next
First    == lsb_entry[LsbHead]
Issuing  == LoadStoreBuffer!CanIssue
Noticing == LoadStoreBuffer!CanNotice
Finishing(mc) == LoadStoreBuffer!Finishes(mc)

\* The access that leaves the queue is one that a commit or a release was for.
Running == Issuing /\ LoadStoreBuffer!NeedsCommit(First)

\* How many accesses are committed or released, with the pulse of this cycle.
Due == lsb_cnt + Flag(rob_out.commit_lsb)

\* The queue's wires in terms of places: its head is at place 1, and the next
\* access to be committed right behind those counted.
LEMMA LsbWires ==
  ASSUME LsbType
  PROVE  /\ LsbHead \in LsbIndex /\ LsbTail \in LsbIndex /\ Place(LsbHead) = 1
         /\ LSB_CAPACITY \in Nat /\ LSB_CAPACITY >= 2 /\ lsb_cnt \in Nat
         /\ Length \in Nat /\ Length <= LSB_CAPACITY - 1
         /\ lsb_head # lsb_tail => Queued(LsbHead) /\ Length >= 1
         /\ \A i \in LsbIndex : /\ LoadStoreBuffer!in_queue(i) <=> Queued(i)
                                /\ Place(i) \in Nat /\ Place(i) <= LSB_CAPACITY - 1
                                /\ Place(i) = 1 => i = LsbHead
                                /\ Queued(i) => Place(i) >= 1 /\ Place(i) <= Length /\ lsb_head # lsb_tail
         /\ \A i, j \in LsbIndex : Place(i) = Place(j) => i = j
         /\ \A k \in 1 .. Length : \E i \in LsbIndex : Queued(i) /\ Place(i) = k
         /\ lsb_cnt < Length => \A i \in LsbIndex : i = LoadStoreBuffer!CommitSlot <=> Place(i) = lsb_cnt + 1
         /\ ~LoadStoreBuffer!full_out => /\ Place(LsbTail) = Length + 1 /\ ~Queued(LsbTail)
                                         /\ LsbTail # lsb_head
<1> USE DEF LsbType
<1>1. /\ LsbHead = LoadStoreBuffer!Slot(lsb_head + 1) /\ LsbTail = LoadStoreBuffer!Slot(lsb_tail + 1)
  BY DEF LsbHead, LsbTail, LoadStoreBuffer!head_next, LoadStoreBuffer!tail_next
<1>2. LSB_CAPACITY \in Nat /\ LSB_CAPACITY >= 2 /\ lsb_cnt \in Nat /\ LsbIndex = 0 .. LSB_CAPACITY - 1
  BY CapacityAssumption DEF CapacityAssumption, LsbIndex
<1>3. LsbHead \in LsbIndex /\ LsbTail \in LsbIndex /\ Place(LsbHead) = 1
  BY <1>1, LsbCircle DEF Place
<1>4. ASSUME NEW i \in LsbIndex
      PROVE  /\ Place(i) \in Nat /\ Place(i) <= LSB_CAPACITY - 1
             /\ Place(i) = 0 <=> i = lsb_head
  <2>1. Dist(lsb_head, i, LSB_CAPACITY) \in 0 .. LSB_CAPACITY - 1 /\ (Dist(lsb_head, i, LSB_CAPACITY) = 0 <=> i = lsb_head)
    BY LsbCircle
  <2> QED BY <2>1, <1>2 DEF Place
<1>5. \A i, j \in LsbIndex : Place(i) = Place(j) => i = j
  BY LsbCircle DEF Place
<1>6. Length \in Nat /\ Length <= LSB_CAPACITY - 1 /\ (Length = 0 <=> lsb_tail = lsb_head)
  BY <1>4 DEF Length
<1>7. lsb_head # lsb_tail => Queued(LsbHead) /\ Length >= 1
  BY <1>3, <1>6 DEF Queued
<1>8. \A i \in LsbIndex : Queued(i) => Place(i) >= 1 /\ Place(i) <= Length /\ lsb_head # lsb_tail
  BY <1>4, <1>6 DEF Queued
<1>9. \A i \in LsbIndex : Place(i) = 1 => i = LsbHead
  BY <1>3, <1>5
<1>10. \A i \in LsbIndex : LoadStoreBuffer!in_queue(i) <=> Queued(i)
  BY <1>2 DEF LoadStoreBuffer!in_queue, Queued, Place, Length, Dist
<1>11. ASSUME NEW k \in 1 .. Length
       PROVE  \E i \in LsbIndex : Queued(i) /\ Place(i) = k
  <2>1. k \in LsbIndex
    BY <1>2, <1>6
  <2>2. LoadStoreBuffer!Slot(lsb_head + k) \in LsbIndex /\ Place(LoadStoreBuffer!Slot(lsb_head + k)) = k
    BY <2>1, LsbCircle DEF Place
  <2> QED BY <2>2 DEF Queued
<1>12. ASSUME lsb_cnt < Length, NEW i \in LsbIndex
       PROVE  i = LoadStoreBuffer!CommitSlot <=> Place(i) = lsb_cnt + 1
  <2> DEFINE k == lsb_cnt + 1
  <2>1. k \in LsbIndex
    BY <1>2, <1>6, <1>12
  <2>2. LoadStoreBuffer!Slot(lsb_head + k) \in LsbIndex /\ Place(LoadStoreBuffer!Slot(lsb_head + k)) = k
    BY <2>1, LsbCircle DEF Place
  <2>3. LoadStoreBuffer!CommitSlot = LoadStoreBuffer!Slot(lsb_head + k)
    <3>1. LoadStoreBuffer!CommitSlot = LoadStoreBuffer!Slot(LoadStoreBuffer!Slot(lsb_head + 1) + lsb_cnt)
      BY DEF LoadStoreBuffer!CommitSlot, LoadStoreBuffer!head_next
    <3> QED BY <3>1, <1>2 DEF LoadStoreBuffer!Slot
  <2> QED BY <2>2, <2>3, <1>5
<1>13. ASSUME ~LoadStoreBuffer!full_out
       PROVE  Place(LsbTail) = Length + 1 /\ ~Queued(LsbTail) /\ LsbTail # lsb_head
  <2>1. lsb_head # LsbTail
    BY <1>13 DEF LoadStoreBuffer!full_out, LsbTail
  <2>2. Place(LsbTail) = Length + 1
    BY <1>1, <2>1, LsbCircle DEF Place, Length
  <2> QED BY <2>1, <2>2, <1>6 DEF Queued
<1> QED BY <1>2, <1>3, <1>4, <1>5, <1>6, <1>7, <1>8, <1>9, <1>10, <1>11, <1>12, <1>13

\* Which accesses are in the queue after the cycle: those that stay and the new one.
QueueStays(i) == Queued(i) /\ ~(Issuing /\ i = LsbHead)
QueueEnters(i) == Decoded.to_lsb /\ i = LsbTail

LsbPlaceAfter(i) ==
  /\ Place(i)' \in Nat
  /\ Queued(i)' <=> QueueStays(i) \/ QueueEnters(i)
  /\ QueueStays(i) => /\ Place(i)' = IF Issuing THEN Place(i) - 1 ELSE Place(i)
                      /\ ~QueueEnters(i)
  /\ QueueEnters(i) => Place(i)' = Length'
  /\ Queued(i)' => Place(i)' >= 1 /\ Place(i)' <= Length'

\* The oldest access may leave, a new one enters at the tail, the others move up.
LEMMA LsbPointers ==
  ASSUME LsbType, Decoded.to_lsb => ~LoadStoreBuffer!full_out, NEW mc,
         LoadStoreBuffer!Operate(Decoded, Broadcast, rob_out, mc)
  PROVE  /\ lsb_head' \in LsbIndex /\ lsb_tail' \in LsbIndex
         /\ Issuing \/ Noticing => Queued(LsbHead)
         /\ \A i \in LsbIndex : LsbPlaceAfter(i)
         /\ \A i, j \in LsbIndex : Place(i)' = Place(j)' => i = j
         /\ Length' = Length + (IF Decoded.to_lsb THEN 1 ELSE 0) - (IF Issuing THEN 1 ELSE 0)
<1> USE DEF LsbType
<1>1. lsb_head' = IF Issuing THEN LsbHead ELSE lsb_head
  BY DEF LoadStoreBuffer!Operate, LoadStoreBuffer!Issue, LoadStoreBuffer!Notice, LoadStoreBuffer!Finish,
         LoadStoreBuffer!Stay, LoadStoreBuffer!CanIssue, LoadStoreBuffer!CanNotice, LoadStoreBuffer!Finishes,
         LsbHead, Issuing
<1>2. lsb_tail' = IF Decoded.to_lsb THEN LsbTail ELSE lsb_tail
  BY DEF LoadStoreBuffer!Operate, LsbTail
<1>3. Issuing \/ Noticing => lsb_head # lsb_tail
  BY DEF Issuing, Noticing, LoadStoreBuffer!CanIssue, LoadStoreBuffer!CanNotice
<1>4. lsb_head' \in LsbIndex /\ lsb_tail' \in LsbIndex
  BY <1>1, <1>2, LsbWires
<1> DEFINE a(i) == Dist(lsb_head, i, LSB_CAPACITY)
           b(i) == Dist(lsb_head', i, LSB_CAPACITY)
<1>5. \A i \in LsbIndex :
             /\ a(i) \in 0 .. LSB_CAPACITY - 1 /\ b(i) \in 0 .. LSB_CAPACITY - 1
             /\ a(i) = 0 <=> i = lsb_head
             /\ b(i) = IF Issuing THEN IF i = lsb_head THEN LSB_CAPACITY - 1 ELSE a(i) - 1 ELSE a(i)
  <2>1. LsbHead = LoadStoreBuffer!Slot(lsb_head + 1)
    BY DEF LsbHead, LoadStoreBuffer!head_next
  <2> QED BY <1>1, <1>4, <2>1, LsbCircle
<1>6. \A i, j \in LsbIndex : b(i) = b(j) => i = j
  BY <1>4, LsbCircle
<1> HIDE DEF a, b
<1>7. /\ \A i : Place(i) = a(i) /\ Place(i)' = b(i)
      /\ Length = a(lsb_tail) /\ Length' = b(lsb_tail')
      /\ \A i \in LsbIndex : /\ Queued(i) <=> 1 <= a(i) /\ a(i) <= a(lsb_tail)
                             /\ Queued(i)' <=> 1 <= b(i) /\ b(i) <= b(lsb_tail')
  BY DEF Place, Length, Queued, a, b
<1>8. /\ LsbHead \in LsbIndex /\ LsbTail \in LsbIndex /\ a(LsbHead) = 1
      /\ LSB_CAPACITY \in Nat /\ LSB_CAPACITY >= 2
      /\ \A i \in LsbIndex : a(i) = 1 => i = LsbHead
      /\ \A i, j \in LsbIndex : a(i) = a(j) => i = j
      /\ Decoded.to_lsb => a(LsbTail) = a(lsb_tail) + 1 /\ LsbTail # lsb_head
  <2>1. /\ LsbHead \in LsbIndex /\ LsbTail \in LsbIndex /\ Place(LsbHead) = 1
        /\ LSB_CAPACITY \in Nat /\ LSB_CAPACITY >= 2
        /\ \A i \in LsbIndex : Place(i) = 1 => i = LsbHead
        /\ \A i, j \in LsbIndex : Place(i) = Place(j) => i = j
        /\ Decoded.to_lsb => Place(LsbTail) = Length + 1 /\ LsbTail # lsb_head
    BY LsbWires
  <2> QED BY <2>1 DEF Place, Length, a
<1>9. Length' = Length + (IF Decoded.to_lsb THEN 1 ELSE 0) - (IF Issuing THEN 1 ELSE 0)
  <2>1. b(lsb_tail') = a(lsb_tail) + (IF Decoded.to_lsb THEN 1 ELSE 0) - (IF Issuing THEN 1 ELSE 0)
    BY <1>2, <1>3, <1>5, <1>8
  <2> QED BY <2>1, <1>7
<1>10. ASSUME NEW i \in LsbIndex
       PROVE  LsbPlaceAfter(i)
  <2>1. b(i) = IF Issuing THEN IF i = lsb_head THEN LSB_CAPACITY - 1 ELSE a(i) - 1 ELSE a(i)
    BY <1>5
  <2>2. a(i) \in Nat /\ b(i) \in Nat /\ a(lsb_tail) \in Nat /\ a(lsb_tail) <= LSB_CAPACITY - 1 /\ (a(i) = 0 <=> i = lsb_head)
    BY <1>5, <1>8
  <2>3. b(lsb_tail') = a(lsb_tail) + (IF Decoded.to_lsb THEN 1 ELSE 0) - (IF Issuing THEN 1 ELSE 0)
    BY <1>7, <1>9
  <2>4. /\ i = LsbHead <=> a(i) = 1
        /\ Decoded.to_lsb => (i = LsbTail <=> a(i) = a(lsb_tail) + 1) /\ a(lsb_tail) + 1 <= LSB_CAPACITY - 1
    <3>1. a(LsbTail) \in 0 .. LSB_CAPACITY - 1
      BY <1>5, <1>8
    <3> QED BY <1>8, <3>1
  <2>5. Issuing => a(lsb_tail) >= 1
    BY <1>3, <1>5
  <2>6. Queued(i)' <=> (Queued(i) /\ ~(Issuing /\ i = LsbHead)) \/ (Decoded.to_lsb /\ i = LsbTail)
    BY <1>7, <1>8, <2>1, <2>2, <2>3, <2>4, <2>5
  <2>7. Queued(i) /\ ~(Issuing /\ i = LsbHead) =>
          /\ b(i) = IF Issuing THEN a(i) - 1 ELSE a(i)
          /\ ~(Decoded.to_lsb /\ i = LsbTail)
    BY <1>7, <1>8, <2>1, <2>2, <2>4
  <2>8. Decoded.to_lsb /\ i = LsbTail => b(i) = b(lsb_tail')
    BY <1>2
  <2>9. Queued(i)' => b(i) >= 1 /\ b(i) <= b(lsb_tail')
    BY <1>7
  <2>10. Place(i) = a(i) /\ Place(i)' = b(i) /\ Length' = b(lsb_tail')
    BY <1>7
  <2> QED BY <2>2, <2>6, <2>7, <2>8, <2>9, <2>10 DEF LsbPlaceAfter, QueueStays, QueueEnters
<1>11. \A i, j \in LsbIndex : Place(i)' = Place(j)' => i = j
  BY <1>6, <1>7
<1>12. Issuing \/ Noticing => Queued(LsbHead)
  BY <1>3, LsbWires
<1> QED BY <1>4, <1>9, <1>10, <1>11, <1>12

\* An operand in the load store buffer after this cycle's broadcasts; of the
\* buffer's own loads it hears the one that is finished.
StillMissing(q, finished) ==
  IF InAlu(q) \/ Committed(q) \/ (finished /\ lsb_current_tag = q) THEN NULL_TAG ELSE q

LsbEntryKept(i, finished) ==
  LET e == lsb_entry[i]
      f == lsb_entry'[i]
  IN /\ f.store = e.store /\ f.op = e.op /\ f.rob_tag = e.rob_tag /\ f.imm = e.imm
     /\ f.Qj = StillMissing(e.Qj, finished) /\ f.Qk = StillMissing(e.Qk, finished)
     /\ e.Qj = NULL_TAG => f.Vj = e.Vj
     /\ f.commit_flag <=> e.commit_flag \/ (rob_out.commit_lsb /\ i = LoadStoreBuffer!CommitSlot)

LsbEntryNew(i) ==
  LET f == lsb_entry'[i]
  IN /\ f.store = Decoded.store /\ f.op = Decoded.op /\ f.rob_tag = Decoded.next_tag
     /\ f.Qj = IF InAlu(Decoded.Qj) \/ Committed(Decoded.Qj) THEN NULL_TAG ELSE Decoded.Qj
     /\ f.Qk = IF InAlu(Decoded.Qk) \/ Committed(Decoded.Qk) THEN NULL_TAG ELSE Decoded.Qk
     /\ f.commit_flag <=> rob_out.commit_lsb /\ i = LoadStoreBuffer!CommitSlot

\* A queued access that hears a broadcast changes only the operand it announces.
LEMMA LsbHears ==
  ASSUME NEW e \in LsbEntry, NEW s, NEW t, NEW d
  PROVE  LET f == LoadStoreBuffer!Hear(e, s, t, d)
         IN /\ f.store = e.store /\ f.op = e.op /\ f.rob_tag = e.rob_tag /\ f.imm = e.imm
            /\ f.commit_flag = e.commit_flag
            /\ f.Qj = IF s /\ t = e.Qj THEN NULL_TAG ELSE e.Qj
            /\ f.Qk = IF s /\ t = e.Qk THEN NULL_TAG ELSE e.Qk
            /\ ~(s /\ t = e.Qj) => f.Vj = e.Vj
<1>1. LoadStoreBuffer!NULL_TAG = NULL_TAG
  BY LsbNames
<1> QED BY <1>1, Zenon DEF LoadStoreBuffer!Hear, LsbEntry

\* What the queue's slots hold after the cycle.
LEMMA LsbContents ==
  ASSUME LsbType, RobType, RsType, DecodedType,
         NEW from \in LsbIndex, NEW to \in LsbIndex, NEW inserts, NEW finished, NEW data \in Word,
         ~InAlu(NULL_TAG), ~Committed(NULL_TAG), finished => lsb_current_tag # NULL_TAG,
         lsb_entry' = LoadStoreBuffer!Contents(from, to, inserts, Decoded, Broadcast, rob_out, finished, data)
  PROVE  \A i \in LsbIndex : 1 <= Dist(from, i, LSB_CAPACITY) /\ Dist(from, i, LSB_CAPACITY) <= Dist(from, to, LSB_CAPACITY) =>
           IF inserts /\ i = LsbTail THEN LsbEntryNew(i) ELSE LsbEntryKept(i, finished)
<1> SUFFICES ASSUME NEW i \in LsbIndex, 1 <= Dist(from, i, LSB_CAPACITY),
                    Dist(from, i, LSB_CAPACITY) <= Dist(from, to, LSB_CAPACITY)
             PROVE  IF inserts /\ i = LsbTail THEN LsbEntryNew(i) ELSE LsbEntryKept(i, finished)
  OBVIOUS
<1> DEFINE c == rob_out.commit_lsb /\ i = LoadStoreBuffer!CommitSlot
<1>1. LoadStoreBuffer!LsbIndex = LsbIndex
  BY LsbNames
<1>2. LoadStoreBuffer!Within(i, from, to)
  <2>1. /\ LoadStoreBuffer!Slot(i - from) = Dist(from, i, LSB_CAPACITY)
        /\ LoadStoreBuffer!Slot(to - from) = Dist(from, to, LSB_CAPACITY)
    BY LsbCircle
  <2> HIDE DEF Dist
  <2>2. Dist(from, i, LSB_CAPACITY) # 0
    OBVIOUS
  <2> QED BY <2>1, <2>2 DEF LoadStoreBuffer!Within
<1>3. lsb_entry'[i] = IF inserts /\ i = LsbTail
         THEN [LoadStoreBuffer!Arriving(Decoded, Broadcast, rob_out) EXCEPT !.commit_flag = c]
         ELSE [LoadStoreBuffer!Snooping(lsb_entry[i], Broadcast, rob_out, finished, data) EXCEPT
                 !.commit_flag = @ \/ c]
  BY <1>1, <1>2, Zenon DEF LoadStoreBuffer!Contents, LsbTail
<1>4. /\ Broadcast.signal = rs_calc.calculate /\ Broadcast.dest_tag = rs_calc.dest
      /\ Broadcast.result \in Word /\ rob_out.data \in Word
  BY BroadcastFields DEF RobType, RobOutput
<1>5. ASSUME NEW e \in LsbEntry, NEW b
      PROVE  LET f == [e EXCEPT !.commit_flag = b]
             IN /\ f.store = e.store /\ f.op = e.op /\ f.rob_tag = e.rob_tag /\ f.imm = e.imm
                /\ f.Qj = e.Qj /\ f.Qk = e.Qk /\ f.Vj = e.Vj /\ f.commit_flag = b
  BY Zenon DEF LsbEntry
<1> HIDE DEF c
<1>6. CASE inserts /\ i = LsbTail
  <2> DEFINE e == [store |-> Decoded.store, commit_flag |-> FALSE, op |-> Decoded.op,
             rob_tag |-> Decoded.next_tag, imm |-> Decoded.imm, Vj |-> Decoded.Vj, Vk |-> Decoded.Vk,
             Qj |-> Decoded.Qj, Qk |-> Decoded.Qk]
             f == LoadStoreBuffer!Hear(e, rob_out.commit, rob_out.tag, rob_out.data)
             g == LoadStoreBuffer!Hear(f, Broadcast.signal, Broadcast.dest_tag, Broadcast.result)
  <2>1. e \in LsbEntry
    BY Zenon DEF DecodedType, LsbEntry
  <2>2. /\ e.store = Decoded.store /\ e.op = Decoded.op /\ e.rob_tag = Decoded.next_tag
        /\ e.Qj = Decoded.Qj /\ e.Qk = Decoded.Qk
    BY Zenon
  <2>3. lsb_entry'[i] = [g EXCEPT !.commit_flag = c]
    BY <1>3, <1>6, Zenon DEF LoadStoreBuffer!Arriving
  <2> HIDE DEF e
  <2>4. f \in LsbEntry
    BY <2>1, <1>4, LsbHearType
  <2>5. /\ f.store = e.store /\ f.op = e.op /\ f.rob_tag = e.rob_tag
        /\ f.Qj = IF Committed(e.Qj) THEN NULL_TAG ELSE e.Qj
        /\ f.Qk = IF Committed(e.Qk) THEN NULL_TAG ELSE e.Qk
    BY <2>1, LsbHears DEF Committed
  <2> HIDE DEF f
  <2>6. g \in LsbEntry
    BY <2>4, <1>4, LsbHearType
  <2>7. /\ g.store = f.store /\ g.op = f.op /\ g.rob_tag = f.rob_tag
        /\ g.Qj = IF InAlu(f.Qj) THEN NULL_TAG ELSE f.Qj
        /\ g.Qk = IF InAlu(f.Qk) THEN NULL_TAG ELSE f.Qk
    BY <2>4, <1>4, LsbHears DEF InAlu
  <2> HIDE DEF g
  <2>8. /\ lsb_entry'[i].store = g.store /\ lsb_entry'[i].op = g.op /\ lsb_entry'[i].rob_tag = g.rob_tag
        /\ lsb_entry'[i].Qj = g.Qj /\ lsb_entry'[i].Qk = g.Qk /\ lsb_entry'[i].commit_flag = c
    BY <2>3, <2>6, <1>5
  <2>9. LsbEntryNew(i)
    BY <2>2, <2>5, <2>7, <2>8 DEF LsbEntryNew, c
  <2> QED BY <1>6, <2>9
<1>7. CASE ~(inserts /\ i = LsbTail)
  <2> DEFINE e == lsb_entry[i]
             f == LoadStoreBuffer!Hear(e, Broadcast.signal, Broadcast.dest_tag, Broadcast.result)
             g == LoadStoreBuffer!Hear(f, rob_out.commit, rob_out.tag, rob_out.data)
             h == LoadStoreBuffer!Hear(g, finished, lsb_current_tag, data)
  <2>1. e \in LsbEntry
    BY DEF LsbType
  <2>3. lsb_entry'[i] = [h EXCEPT !.commit_flag = @ \/ c]
    BY <1>3, <1>7, Zenon DEF LoadStoreBuffer!Snooping
  <2> HIDE DEF e
  <2>4. f \in LsbEntry
    BY <2>1, <1>4, LsbHearType
  <2>5. /\ f.store = e.store /\ f.op = e.op /\ f.rob_tag = e.rob_tag /\ f.imm = e.imm
        /\ f.commit_flag = e.commit_flag
        /\ f.Qj = IF InAlu(e.Qj) THEN NULL_TAG ELSE e.Qj
        /\ f.Qk = IF InAlu(e.Qk) THEN NULL_TAG ELSE e.Qk
        /\ ~InAlu(e.Qj) => f.Vj = e.Vj
    BY <2>1, <1>4, LsbHears DEF InAlu
  <2> HIDE DEF f
  <2>6. g \in LsbEntry
    BY <2>4, <1>4, LsbHearType
  <2>7. /\ g.store = f.store /\ g.op = f.op /\ g.rob_tag = f.rob_tag /\ g.imm = f.imm
        /\ g.commit_flag = f.commit_flag
        /\ g.Qj = IF Committed(f.Qj) THEN NULL_TAG ELSE f.Qj
        /\ g.Qk = IF Committed(f.Qk) THEN NULL_TAG ELSE f.Qk
        /\ ~Committed(f.Qj) => g.Vj = f.Vj
    BY <2>4, LsbHears DEF Committed
  <2> HIDE DEF g
  <2>8. h \in LsbEntry
    BY <2>6, LsbHearType
  <2>9. /\ h.store = g.store /\ h.op = g.op /\ h.rob_tag = g.rob_tag /\ h.imm = g.imm
        /\ h.commit_flag = g.commit_flag
        /\ h.Qj = IF finished /\ lsb_current_tag = g.Qj THEN NULL_TAG ELSE g.Qj
        /\ h.Qk = IF finished /\ lsb_current_tag = g.Qk THEN NULL_TAG ELSE g.Qk
        /\ ~(finished /\ lsb_current_tag = g.Qj) => h.Vj = g.Vj
    BY <2>6, LsbHears
  <2> HIDE DEF h
  <2>10. h.Qj = StillMissing(e.Qj, finished) /\ h.Qk = StillMissing(e.Qk, finished)
    BY <2>5, <2>7, <2>9 DEF StillMissing
  <2>11. e.Qj = NULL_TAG => h.Vj = e.Vj
    BY <2>5, <2>7, <2>9
  <2> DEFINE b == h.commit_flag \/ c
  <2>12. lsb_entry'[i] = [h EXCEPT !.commit_flag = b]
    BY <2>3
  <2> HIDE DEF b
  <2>13. /\ lsb_entry'[i].store = h.store /\ lsb_entry'[i].op = h.op /\ lsb_entry'[i].imm = h.imm
         /\ lsb_entry'[i].rob_tag = h.rob_tag
         /\ lsb_entry'[i].Qj = h.Qj /\ lsb_entry'[i].Qk = h.Qk /\ lsb_entry'[i].Vj = h.Vj
         /\ lsb_entry'[i].commit_flag = b
    BY <2>12, <2>8, <1>5
  <2>14. b <=> e.commit_flag \/ c
    BY <2>5, <2>7, <2>9 DEF b
  <2>15. LsbEntryKept(i, finished)
    BY <2>5, <2>7, <2>9, <2>10, <2>11, <2>13, <2>14 DEF LsbEntryKept, c, e
  <2> QED BY <1>7, <2>15
<1> QED BY <1>6, <1>7

\* What the load store buffer asks for and tells, by what happens at its head.
Asks ==
  /\ lsb_status' = IF First.store THEN "STORE" ELSE "LOAD"
  /\ lsb_current_tag' = First.rob_tag
  /\ lsb_current_address' = LoadStoreBuffer!Address(First)
  /\ ~lsb_out'.broadcast /\ ~lsb_out'.mark_as_io_load
  /\ lsb_out'.mc_request /\ lsb_out'.mc_store = First.store
  /\ lsb_out'.mc_address = LoadStoreBuffer!Address(First)
  /\ lsb_out'.mc_goal = Goal(First.op)

Reports ==
  /\ lsb_status' = lsb_status
  /\ lsb_noticed' /\ ~lsb_out'.broadcast /\ ~lsb_out'.mc_request
  /\ lsb_out'.mark_as_io_load /\ lsb_out'.io_load_tag = First.rob_tag

Ends ==
  /\ lsb_status' = "IDLE"
  /\ lsb_out'.broadcast <=> lsb_status = "LOAD"
  /\ lsb_status = "LOAD" => lsb_out'.dest_tag = lsb_current_tag
  /\ ~lsb_out'.mark_as_io_load /\ ~lsb_out'.mc_request
  /\ lsb_noticed' = lsb_noticed

Remains ==
  /\ lsb_status' = lsb_status /\ lsb_current_tag' = lsb_current_tag
  /\ lsb_current_address' = lsb_current_address
  /\ ~lsb_out'.broadcast /\ ~lsb_out'.mark_as_io_load /\ ~lsb_out'.mc_request
  /\ lsb_noticed' = lsb_noticed

\* The buffer's four actions in these terms.
LEMMA LsbActs ==
  ASSUME NEW mc
  PROVE  /\ LoadStoreBuffer!Issue => Asks
         /\ LoadStoreBuffer!Notice => Reports
         /\ LoadStoreBuffer!Finish(mc) => Ends
         /\ LoadStoreBuffer!Stay => Remains
<1> DEFINE q == LoadStoreBuffer!Quiet
<1>q. ~q.broadcast /\ ~q.mark_as_io_load /\ ~q.mc_request
  BY DEF LoadStoreBuffer!Quiet
<1>1. ASSUME LoadStoreBuffer!Issue PROVE Asks
  <2> DEFINE A == LoadStoreBuffer!Address(First)
             g == Goal(First.op)
             o == [q EXCEPT !.mc_request = TRUE, !.mc_store = First.store, !.mc_goal = g,
                            !.mc_address = A, !.mc_data = First.Vk]
  <2>0. LoadStoreBuffer!Goal(First.op) = g
    BY LsbNames
  <2>1. /\ lsb_status' = IF First.store THEN "STORE" ELSE "LOAD"
        /\ lsb_current_tag' = First.rob_tag /\ lsb_current_address' = A /\ lsb_out' = o
    BY <1>1, <2>0, Zenon DEF LoadStoreBuffer!Issue, First, LsbHead
  <2>2. /\ ~o.broadcast /\ ~o.mark_as_io_load /\ o.mc_request /\ o.mc_store = First.store
        /\ o.mc_address = A /\ o.mc_goal = g
    <3> HIDE DEF A, g
    <3> QED BY Zenon DEF LoadStoreBuffer!Quiet
  <2> HIDE DEF o
  <2> QED BY <2>1, <2>2 DEF Asks
<1>2. ASSUME LoadStoreBuffer!Notice PROVE Reports
  <2> DEFINE o == [q EXCEPT !.mark_as_io_load = TRUE, !.io_load_tag = First.rob_tag]
  <2>1. lsb_out' = o /\ lsb_status' = lsb_status /\ lsb_noticed'
    BY <1>2, Zenon DEF LoadStoreBuffer!Notice, First, LsbHead
  <2>2. ~o.broadcast /\ ~o.mc_request /\ o.mark_as_io_load /\ o.io_load_tag = First.rob_tag
    BY Zenon DEF LoadStoreBuffer!Quiet
  <2> HIDE DEF o
  <2> QED BY <2>1, <2>2 DEF Reports
<1>3. ASSUME LoadStoreBuffer!Finish(mc) PROVE Ends
  <2> DEFINE o == [q EXCEPT !.broadcast = TRUE, !.result = LoadStoreBuffer!LoadResult(lsb_current_op, mc.lsb_data),
                            !.dest_tag = lsb_current_tag]
  <2>1. /\ lsb_out' = IF lsb_status = "LOAD" THEN o ELSE q
        /\ lsb_status' = "IDLE" /\ lsb_noticed' = lsb_noticed
    BY <1>3 DEF LoadStoreBuffer!Finish, LoadStoreBuffer!Idle
  <2>2. o.broadcast /\ ~o.mc_request /\ ~o.mark_as_io_load /\ o.dest_tag = lsb_current_tag
    BY Zenon DEF LoadStoreBuffer!Quiet
  <2> HIDE DEF o, q
  <2> QED BY <2>1, <2>2, <1>q DEF Ends
<1>4. ASSUME LoadStoreBuffer!Stay PROVE Remains
  BY <1>4, <1>q DEF LoadStoreBuffer!Stay, Remains
<1> QED BY <1>1, <1>2, <1>3, <1>4

\* When it does which.
LsbTells(mc) ==
  /\ Issuing => Asks /\ lsb_status = "IDLE"
  /\ Noticing => Reports /\ ~Issuing /\ lsb_status = "IDLE"
  /\ Finishing(mc) => Ends /\ ~Issuing /\ ~Noticing /\ lsb_status # "IDLE"
  /\ ~Issuing /\ ~Noticing /\ ~Finishing(mc) => Remains

\* Why the oldest access may leave, or be reported.
LsbWhy ==
  /\ Issuing => /\ First.Qj = NULL_TAG
                /\ First.store => First.commit_flag /\ First.Qk = NULL_TAG
                /\ LoadStoreBuffer!IoLoad(First) => First.commit_flag
  /\ Noticing => /\ First.Qj = NULL_TAG /\ LoadStoreBuffer!IoLoad(First) /\ ~First.commit_flag
                 /\ ~lsb_noticed

\* The conditions of the buffer's actions, in these terms.
LEMMA LsbReasons == LsbWhy
  BY LsbNames DEF LsbWhy, Issuing, Noticing, First, LsbHead, LoadStoreBuffer!CanIssue,
     LoadStoreBuffer!CanNotice,
     LoadStoreBuffer!Ready, LoadStoreBuffer!IoLoad

\* What the load store buffer tells and asks for in a cycle of work.
LEMMA LsbOutputs ==
  ASSUME NEW mc, LoadStoreBuffer!Operate(Decoded, Broadcast, rob_out, mc)
  PROVE  LsbTells(mc)
<1>1. /\ Issuing => ~Noticing /\ lsb_status = "IDLE"
      /\ Noticing => lsb_status = "IDLE"
      /\ Finishing(mc) => lsb_status # "IDLE"
  BY DEF Issuing, Noticing, Finishing, LoadStoreBuffer!CanIssue, LoadStoreBuffer!CanNotice,
         LoadStoreBuffer!Finishes
<1>2. \/ Issuing /\ LoadStoreBuffer!Issue
      \/ Noticing /\ LoadStoreBuffer!Notice
      \/ Finishing(mc) /\ LoadStoreBuffer!Finish(mc)
      \/ ~Issuing /\ ~Noticing /\ ~Finishing(mc) /\ LoadStoreBuffer!Stay
  BY DEF LoadStoreBuffer!Operate, Issuing, Noticing, Finishing
<1> QED BY <1>1, <1>2, LsbActs DEF LsbTells

\* In the cycle of a rollback.
Abandoning == lsb_status = "LOAD" /\ ~IsIo(lsb_current_address)

LsbDrops(mc) ==
  /\ Running => Asks /\ lsb_status = "IDLE"
  /\ Noticing => Reports /\ ~Running /\ lsb_status = "IDLE"
  /\ Abandoning => /\ ~Running /\ ~Noticing /\ lsb_status' = "IDLE"
                   /\ ~lsb_out'.broadcast /\ ~lsb_out'.mark_as_io_load /\ ~lsb_out'.mc_request
  /\ ~Abandoning /\ Finishing(mc) => Ends /\ ~Running /\ ~Noticing /\ lsb_status # "IDLE"
  /\ ~Running /\ ~Noticing /\ ~Abandoning /\ ~Finishing(mc) => Remains

\* What it tells in the cycle of a rollback, and where its head goes.
LEMMA LsbRollbackOutputs ==
  ASSUME NEW mc, LoadStoreBuffer!Rollback(Decoded, Broadcast, rob_out, mc)
  PROVE  /\ LsbDrops(mc)
         /\ lsb_head' = IF Running THEN LsbHead ELSE lsb_head
<1>0. Abandoning <=> LoadStoreBuffer!Abandons
  BY LsbNames DEF Abandoning, LoadStoreBuffer!Abandons
<1>1. /\ Running => ~Noticing /\ lsb_status = "IDLE"
      /\ Noticing => lsb_status = "IDLE" /\ ~Running
      /\ Finishing(mc) => lsb_status # "IDLE"
      /\ Abandoning => lsb_status = "LOAD"
  BY DEF Running, Issuing, Noticing, Finishing, Abandoning, LoadStoreBuffer!CanIssue, LoadStoreBuffer!CanNotice,
         LoadStoreBuffer!Finishes
<1>2. \/ Running /\ LoadStoreBuffer!Issue
      \/ Noticing /\ LoadStoreBuffer!Notice
      \/ Abandoning /\ lsb_status' = "IDLE" /\ lsb_out' = LoadStoreBuffer!Quiet /\ lsb_head' = lsb_head
      \/ Finishing(mc) /\ ~Abandoning /\ LoadStoreBuffer!Finish(mc)
      \/ ~Running /\ ~Noticing /\ ~Abandoning /\ ~Finishing(mc) /\ LoadStoreBuffer!Stay
  BY <1>0 DEF LoadStoreBuffer!Rollback, Running, Issuing, Noticing, Finishing, First, LsbHead,
     LoadStoreBuffer!Idle
<1>3. LET q == LoadStoreBuffer!Quiet IN ~q.broadcast /\ ~q.mark_as_io_load /\ ~q.mc_request
  BY DEF LoadStoreBuffer!Quiet
<1>4. LsbDrops(mc)
  <2> DEFINE q == LoadStoreBuffer!Quiet
  <2>1. ~q.broadcast /\ ~q.mark_as_io_load /\ ~q.mc_request
    BY <1>3
  <2>2. Abandoning /\ lsb_status' = "IDLE" /\ lsb_out' = q => ~lsb_out'.broadcast /\ ~lsb_out'.mark_as_io_load /\ ~lsb_out'.mc_request
    BY <2>1
  <2> QED BY <1>1, <1>2, <2>2, LsbActs DEF LsbDrops
<1>5. lsb_head' = IF Running THEN LsbHead ELSE lsb_head
  BY <1>1, <1>2 DEF LoadStoreBuffer!Issue, LoadStoreBuffer!Notice, LoadStoreBuffer!Finish,
     LoadStoreBuffer!Stay, LsbHead
<1> QED BY <1>4, <1>5

(***************************************************************************)
(* The inductive invariant.                                                *)
(***************************************************************************)
Signals ==
  /\ rob_out.rollback <=> rob_inner_rollback
  /\ rob_inner_rollback => ~rob_need_to_rollback
  /\ rob_need_to_rollback \/ rob_inner_rollback => ~rob_out.commit_lsb
  /\ rob_out.commit => rob_out.tag = rob_head
  /\ rob_out.commit_rf => rob_out.commit

Tags ==
  /\ \A i \in RsIndex : rs_entry[i].busy => rs_entry[i].dest \in RobTag
  /\ rs_calc.calculate => rs_calc.dest \in RobTag
  /\ \A i \in LsbIndex : Queued(i) => lsb_entry[i].rob_tag \in RobTag
  /\ lsb_status = "LOAD" => lsb_current_tag \in RobTag
  /\ lsb_out.broadcast => lsb_out.dest_tag \in RobTag

CanRun(e) == /\ LoadStoreBuffer!NeedsCommit(e)
             /\ e.Qj = NULL_TAG /\ (e.store => e.Qk = NULL_TAG)

CommittedFirst ==
  /\ lsb_cnt <= Length
  /\ rob_out.commit_lsb => lsb_cnt < Length
  /\ \A i \in LsbIndex : Queued(i) =>
       /\ lsb_entry[i].commit_flag <=> Place(i) <= lsb_cnt
       /\ Place(i) <= lsb_cnt => CanRun(lsb_entry[i])
       /\ rob_out.commit_lsb /\ Place(i) = lsb_cnt + 1 => CanRun(lsb_entry[i])

Unfinished(t) == Flying(t) /\ ~rob_entry[t].ready
OfRs(t)    == Unfinished(t) /\ Op(t) \notin {"LOAD", "STORE"}
OfLoad(t)  == Unfinished(t) /\ Op(t) = "LOAD"
OfStore(t) == Unfinished(t) /\ Op(t) = "STORE"

InRs(t, i)  == rs_entry[i].busy /\ rs_entry[i].dest = t
Live(i)     == Queued(i) /\ (lsb_entry[i].store => ~lsb_entry[i].commit_flag)
InLsb(t, i) == Live(i) /\ lsb_entry[i].rob_tag = t
Loading(t)  == lsb_status = "LOAD" /\ lsb_current_tag = t
PendingStore(i) == /\ rob_out.commit_lsb /\ rob_out.commit /\ Place(i) = lsb_cnt + 1
                   /\ lsb_entry[i].store /\ lsb_entry[i].rob_tag = rob_head

OwnedInRs     == \A t \in RobTag, i \in RsIndex : InRs(t, i) => OfRs(t)
OwnedInAlu    == \A t \in RobTag : InAlu(t) => OfRs(t)
OwnedInLsb    == \A t \in RobTag, i \in LsbIndex : InLsb(t, i) =>
                   IF lsb_entry[i].store THEN OfStore(t) \/ PendingStore(i) ELSE OfLoad(t)
OwnedByLoad   == \A t \in RobTag : Loading(t) => OfLoad(t)
OwnedByResult == \A t \in RobTag : Loaded(t) => OfLoad(t)
Owned == OwnedInRs /\ OwnedInAlu /\ OwnedInLsb /\ OwnedByLoad /\ OwnedByResult

AloneInRs  == \A t \in RobTag, i, j \in RsIndex : InRs(t, i) /\ InRs(t, j) => i = j
AloneInAlu == \A t \in RobTag, i \in RsIndex : InRs(t, i) => ~InAlu(t)
InOrder    == \A s, t \in RobTag, i, j \in LsbIndex :
                InLsb(s, i) /\ InLsb(t, j) /\ Place(i) < Place(j) => RobAge(s) < RobAge(t)
AloneInLsb == \A t \in RobTag, i \in LsbIndex : InLsb(t, i) => ~Loading(t) /\ ~Loaded(t)
OneLoad    == lsb_out.broadcast => lsb_status = "IDLE"
Alone == AloneInRs /\ AloneInAlu /\ InOrder /\ AloneInLsb /\ OneLoad

Worked ==
  \A t \in RobTag : Unfinished(t) =>
    \/ \E i \in RsIndex : InRs(t, i)
    \/ \E i \in LsbIndex : InLsb(t, i)
    \/ InAlu(t) \/ Loading(t) \/ Loaded(t)

StoresNotReady == \A t \in RobTag : Flying(t) /\ Op(t) = "STORE" => ~rob_entry[t].ready

CommitPending ==
  rob_out.commit_lsb => \A i \in LsbIndex : Queued(i) /\ Place(i) = lsb_cnt + 1 =>
    IF rob_out.commit
      THEN PendingStore(i)
      ELSE /\ ~lsb_entry[i].store /\ lsb_cnt = 0 /\ lsb_noticed
           /\ \A t \in RobTag : lsb_entry[i].rob_tag = t => RobAge(t) = 1

Released ==
  /\ \A t \in RobTag, i \in LsbIndex :
       Queued(i) /\ lsb_entry[i].commit_flag /\ ~lsb_entry[i].store /\ lsb_entry[i].rob_tag = t => RobAge(t) = 1
  /\ \A t \in RobTag : Loading(t) /\ IsIo(lsb_current_address) => RobAge(t) = 1

Announced(t) ==
  /\ lsb_noticed /\ ~rob_out.commit_lsb
  /\ \E i \in LsbIndex :
       /\ Queued(i) /\ Place(i) = 1
       /\ lsb_entry[i].rob_tag = t /\ ~lsb_entry[i].commit_flag
       /\ LoadStoreBuffer!IoLoad(lsb_entry[i]) /\ lsb_entry[i].Qj = NULL_TAG

Marks == \A t \in RobTag : Flying(t) /\ (rob_entry[t].is_io_load \/ Marked(t)) => Announced(t)

Waits(q, t) == (Flying(q) \/ Committed(q)) /\ RobAge(q) < RobAge(t)

RsNeeds(q, i)  == \/ rs_entry[i].have_rs1 /\ rs_entry[i].Qj = q
                  \/ rs_entry[i].have_rs2 /\ rs_entry[i].Qk = q
LsbNeeds(q, i) == lsb_entry[i].Qj = q \/ (lsb_entry[i].store /\ lsb_entry[i].Qk = q)
OperandsInRs  == \A q, t \in RobTag, i \in RsIndex : InRs(t, i) /\ RsNeeds(q, i) => Waits(q, t)
OperandsInLsb == \A q, t \in RobTag, i \in LsbIndex :
                   Queued(i) /\ lsb_entry[i].rob_tag = t /\ LsbNeeds(q, i) => Waits(q, t)

Writes(t, r) == Flying(t) /\ rob_entry[t].dest = r /\ Op(t) \notin {"BRANCH", "STORE"}

NamesYoungest(r) == \E q \in RobTag : /\ rf_busy[r] /\ rf_rob_tag[r] = q /\ Writes(q, r)
                                      /\ \A t \in RobTag : Writes(t, r) => RobAge(t) <= RobAge(q)
NamesNone(r) == /\ \A t \in RobTag : ~Writes(t, r)
                /\ rf_busy[r] <=> /\ rob_out.commit_rf /\ rob_out.target = r
                                  /\ rf_rob_tag[r] = rob_out.tag
Names == ~rf_busy[0] /\ \A r \in RegIndex \ {0} : NamesYoungest(r) \/ NamesNone(r)

Unmarked == \A t \in RobTag : ~Flying(t) => ~rob_entry[t].is_io_load

Scheduled == /\ Owned /\ Alone /\ Worked /\ StoresNotReady /\ CommitPending /\ Released /\ Marks
             /\ OperandsInRs /\ OperandsInLsb /\ Names

(***************************************************************************)
(* The count of the committed accesses.                                    *)
(***************************************************************************)
LEMMA DueFirst ==
  ASSUME LsbType, CommittedFirst, rob_out.commit_lsb \in BOOLEAN
  PROVE  /\ Due \in Nat /\ Due = IF rob_out.commit_lsb THEN lsb_cnt + 1 ELSE lsb_cnt
         /\ Due <= Length
         /\ Running => lsb_cnt >= 1
         /\ Issuing /\ ~Running => Due = 0
<1>1. lsb_cnt \in Nat /\ Length \in Nat
  BY LsbWires
<1>2. Due = IF rob_out.commit_lsb THEN lsb_cnt + 1 ELSE lsb_cnt
  BY <1>1 DEF Due, Flag
<1>3. Due \in Nat /\ Due <= Length
  BY <1>1, <1>2 DEF CommittedFirst
<1>4. Issuing => lsb_head # lsb_tail
  BY DEF Issuing, LoadStoreBuffer!CanIssue
<1>5. Issuing => LsbHead \in LsbIndex /\ Queued(LsbHead) /\ Place(LsbHead) = 1
  BY <1>4, LsbWires
<1>6. ASSUME Running PROVE lsb_cnt >= 1
  <2>1. First.commit_flag
    BY <1>6, LsbReasons, LsbNames DEF LsbWhy, Running, LoadStoreBuffer!NeedsCommit, LoadStoreBuffer!IoLoad
  <2> QED BY <1>5, <1>6, <2>1 DEF CommittedFirst, Running, First
<1>7. ASSUME Issuing, ~Running PROVE Due = 0
  <2>1. ~LoadStoreBuffer!NeedsCommit(First)
    BY <1>7 DEF Running
  <2>2. ~CanRun(First)
    BY <2>1 DEF CanRun
  <2>3. lsb_cnt = 0
    BY <1>1, <1>5, <1>7, <2>2 DEF CommittedFirst, First
  <2> QED BY <1>2, <1>5, <1>7, <2>2, <2>3 DEF CommittedFirst, First
<1> QED BY <1>2, <1>3, <1>6, <1>7

\* The count of committed accesses after a cycle (LoadStoreBuffer.v:134-167).
LEMMA LsbCounts ==
  ASSUME LsbType, CommittedFirst, rob_out.commit_lsb \in BOOLEAN, LoadStoreBuffer!Count(rob_out)
  PROVE  lsb_cnt' = IF Running THEN Due - 1 ELSE Due
<1>1. /\ Due \in Nat /\ Due = IF rob_out.commit_lsb THEN lsb_cnt + 1 ELSE lsb_cnt
      /\ Due <= Length /\ Length <= LSB_CAPACITY - 1 /\ (Running => lsb_cnt >= 1)
      /\ lsb_cnt \in Nat /\ Length \in Nat /\ LSB_CAPACITY \in Nat
  BY DueFirst, LsbWires
<1> DEFINE n == IF Running THEN Due - 1 ELSE Due
<1>2. n \in LsbIndex
  BY <1>1 DEF LsbIndex
<1>3. lsb_cnt' = LoadStoreBuffer!Slot(n)
  <2>1. lsb_cnt' = LoadStoreBuffer!Slot(lsb_cnt + (IF rob_out.commit_lsb THEN 1 ELSE 0) - (IF Running THEN 1 ELSE 0))
    BY DEF LoadStoreBuffer!Count, LoadStoreBuffer!Flag, Running, Issuing, First, LsbHead
  <2>2. n = lsb_cnt + (IF rob_out.commit_lsb THEN 1 ELSE 0) - (IF Running THEN 1 ELSE 0)
    BY <1>1
  <2> QED BY <2>1, <2>2
<1> HIDE DEF n
<1>4. LoadStoreBuffer!Slot(n) = n
  BY <1>2, LsbCircle DEF LsbType
<1> QED BY <1>3, <1>4 DEF n

(***************************************************************************)
(* A cycle in which every component works, in these terms.                 *)
(***************************************************************************)

\* The reorder buffer's pointers.
RobMoves ==
  /\ HeadNext \in RobTag /\ RobAge(HeadNext) = 1
  /\ Committing \/ Releasing => Flying(HeadNext)
  /\ Releasing => ~Committing
  /\ rob_head \in RobTag /\ rob_head' = IF Committing THEN HeadNext ELSE rob_head
  /\ \A t \in RobTag :
       /\ RobAge(t) \in Nat /\ RobAge(t)' \in Nat
       /\ RobAge(t) = 0 => t = rob_head
       /\ RobAge(t) = 1 => t = HeadNext
       /\ Flying(t) => RobAge(t) >= 1 /\ t # rob_head
       /\ Flying(t)' <=> Stays(t) \/ Enters(t)
       /\ Enters(t) => ~Flying(t)
       /\ Flying(t) \/ Enters(t) => RobAge(t)' = IF Committing THEN RobAge(t) - 1 ELSE RobAge(t)
  /\ \A s, t \in RobTag : Flying(s) /\ Enters(t) => RobAge(s) < RobAge(t)

\* The access at i is the one that a commit or a release of this cycle is for.
Hit(i) == rob_out.commit_lsb /\ Place(i) = lsb_cnt + 1

\* The load store buffer's pointers and counts.
QueueMoves ==
  /\ lsb_cnt \in Nat /\ Length \in Nat /\ Due \in Nat /\ Due <= Length
  /\ Due = IF rob_out.commit_lsb THEN lsb_cnt + 1 ELSE lsb_cnt
  /\ lsb_cnt' = IF Running THEN Due - 1 ELSE Due
  /\ Length' = Length + (IF Decoded.to_lsb THEN 1 ELSE 0) - (IF Issuing THEN 1 ELSE 0)
  /\ Running => Issuing /\ Due >= 1
  /\ Issuing /\ ~Running => Due = 0
  /\ Issuing \/ Noticing => Queued(LsbHead)
  /\ LsbHead \in LsbIndex /\ Place(LsbHead) = 1 /\ LsbTail \in LsbIndex
  /\ \A i \in LsbIndex :
       /\ Place(i) \in Nat /\ Place(i)' \in Nat
       /\ Place(i) = 1 => i = LsbHead
       /\ Queued(i) => Place(i) >= 1 /\ Place(i) <= Length
       /\ Queued(i)' <=> QueueStays(i) \/ QueueEnters(i)
       /\ QueueStays(i) => Place(i)' = IF Issuing THEN Place(i) - 1 ELSE Place(i)
       /\ QueueEnters(i) => Place(i)' = Length'
       /\ Queued(i)' => Place(i)' >= 1 /\ Place(i)' <= Length'
  /\ \A i, j \in LsbIndex : Place(i) = Place(j) => i = j
  /\ \A i, j \in LsbIndex : Place(i)' = Place(j)' => i = j
  /\ \A k \in Nat : 1 <= k /\ k <= Length => \E i \in LsbIndex : Queued(i) /\ Place(i) = k

\* The accesses in it; finished: it finishes a load in this cycle.
QueueSlotAfter(i, finished) ==
  /\ QueueStays(i) =>
       /\ Queued(i) /\ ~QueueEnters(i)
       /\ lsb_entry'[i].store = lsb_entry[i].store
       /\ lsb_entry'[i].op = lsb_entry[i].op
       /\ lsb_entry'[i].imm = lsb_entry[i].imm
       /\ lsb_entry'[i].rob_tag = lsb_entry[i].rob_tag
       /\ lsb_entry'[i].Qj = StillMissing(lsb_entry[i].Qj, finished)
       /\ lsb_entry'[i].Qk = StillMissing(lsb_entry[i].Qk, finished)
       /\ lsb_entry[i].Qj = NULL_TAG => lsb_entry'[i].Vj = lsb_entry[i].Vj
       /\ lsb_entry'[i].commit_flag <=> lsb_entry[i].commit_flag \/ Hit(i)
  /\ QueueEnters(i) =>
       /\ ~QueueStays(i)
       /\ lsb_entry'[i].store = Decoded.store
       /\ lsb_entry'[i].op = Decoded.op
       /\ lsb_entry'[i].rob_tag = TailNext
       /\ lsb_entry'[i].Qj = (IF InAlu(Decoded.Qj) \/ Committed(Decoded.Qj) THEN NULL_TAG ELSE Decoded.Qj)
       /\ lsb_entry'[i].Qk = (IF InAlu(Decoded.Qk) \/ Committed(Decoded.Qk) THEN NULL_TAG ELSE Decoded.Qk)
       /\ ~lsb_entry'[i].commit_flag

\* The register file.
Takes(r) == Decoded.occupy_rd /\ Decoded.rd = r /\ r # 0
Frees(r) == rob_out.commit /\ rob_out.commit_rf /\ rob_out.target = r /\ rf_busy[r] /\ rf_rob_tag[r] = rob_out.tag
RegisterAfter(r) ==
  /\ rf_busy'[r] <=> Takes(r) \/ (rf_busy[r] /\ ~Frees(r))
  /\ Takes(r) => rf_rob_tag'[r] = TailNext
  /\ ~Takes(r) /\ ~Frees(r) => rf_rob_tag'[r] = rf_rob_tag[r]

\* What the decoder presents.
Presents ==
  /\ Decoded.issue <=> Decoded.to_lsb \/ Decoded.to_rs
  /\ Decoded.to_lsb => Decoded.opcode \in {"LOAD", "STORE"}
  /\ Decoded.to_rs => Decoded.opcode \notin {"LOAD", "STORE"}
  /\ Decoded.store <=> Decoded.opcode = "STORE"
  /\ Decoded.occupy_rd <=> Decoded.issue /\ Decoded.opcode \notin {"BRANCH", "STORE"}
  /\ Decoded.issue => Decoded.next_tag = TailNext
  /\ TailNext \in RobTag
  /\ \A q \in RobTag : q = Decoded.Qj \/ q = Decoded.Qk => \E r \in RegIndex : rf_busy[r] /\ rf_rob_tag[r] = q

\* An unexpanded tag is one of the reorder buffer's, or none.
Silent == ~(NULL_TAG \in RobTag) /\ ~InAlu(NULL_TAG) /\ ~Committed(NULL_TAG) /\ ~Loaded(NULL_TAG)

\* The reservation station.
StationMoves ==
  /\ \A i \in RsIndex : RsSlotAfter(i)
  /\ Decoded.to_rs => \E i \in RsIndex : Arrives(i)
  /\ \A i \in RsIndex : Arrives(i) => Decoded.to_rs
  /\ \A i, j \in RsIndex : Arrives(i) /\ Arrives(j) => i = j
  /\ rs_calc'.calculate => \E i \in RsIndex : Leaves(i)
  /\ \A i \in RsIndex : Leaves(i) => rs_calc'.calculate /\ rs_calc'.dest = rs_entry[i].dest

\* The decoder presents what the fetcher issues.
LEMMA PresentsHolds ==
  ASSUME FetcherType, RobType, RfType, Decoded.issue => ~ReorderBuffer!full_out
  PROVE  Presents
<1>1. /\ Decoded.issue <=> Decoded.to_lsb \/ Decoded.to_rs
      /\ Decoded.to_lsb => Decoded.opcode \in {"LOAD", "STORE"}
      /\ Decoded.to_rs => Decoded.opcode \notin {"LOAD", "STORE"}
      /\ Decoded.store <=> Decoded.opcode = "STORE"
      /\ Decoded.occupy_rd <=> Decoded.issue /\ Decoded.opcode \notin {"BRANCH", "STORE"}
  BY DecodedFields
<1>2. Decoded.issue => Decoded.next_tag = TailNext
  BY RobWires, DecodedFields DEF TailNext
<1>3. TailNext \in RobTag
  BY RobWires DEF TailNext
<1>4. ASSUME NEW q \in RobTag, q = Decoded.Qj \/ q = Decoded.Qk
      PROVE  \E r \in RegIndex : rf_busy[r] /\ rf_rob_tag[r] = q
  <2>1. PICK r \in RegIndex : q = Awaited(r)
    <3>1. fet_out.inst.rs1 \in RegIndex /\ fet_out.inst.rs2 \in RegIndex
      BY DEF FetcherType, FetcherOutput, Instruction
    <3> QED BY <1>4, <3>1, DecodedOperands
  <2>2. q # NULL_TAG
    BY DEF RobTag, NULL_TAG
  <2> QED BY <2>1, <2>2 DEF Awaited, SourceTag
<1> QED BY <1>1, <1>2, <1>3, <1>4 DEF Presents

\* A cycle of the register file does that.
LEMMA RegistersWork ==
  ASSUME RfType, RegisterFile!Operate(rob_out, Decoded), Presents
  PROVE  \A r \in RegIndex : RegisterAfter(r)
<1>1. RegisterFile!RegIndex = RegIndex /\ RegisterFile!NULL_TAG = NULL_TAG
  BY RfNames
<1>2. ASSUME NEW r \in RegIndex
      PROVE  /\ rf_busy'[r] <=> Takes(r) \/ (rf_busy[r] /\ ~Frees(r))
             /\ rf_rob_tag'[r] = IF Takes(r) THEN Decoded.next_tag ELSE IF Frees(r) THEN NULL_TAG ELSE rf_rob_tag[r]
  <2>1. rf_busy'[r] <=> Takes(r) \/ (rf_busy[r] /\ ~Frees(r))
    BY <1>1, Zenon DEF RegisterFile!Operate, Takes, Frees
  <2>2. rf_rob_tag'[r] = IF Takes(r) THEN Decoded.next_tag ELSE IF Frees(r) THEN NULL_TAG ELSE rf_rob_tag[r]
    BY <1>1 DEF RegisterFile!Operate, Takes, Frees
  <2> QED BY <2>1, <2>2
<1> QED BY <1>2 DEF RegisterAfter, Presents, Takes

\* A cycle of the reorder buffer does that.
LEMMA RobMovesHolds ==
  ASSUME RobType, Decoded.issue => ~ReorderBuffer!full_out,
         ReorderBuffer!Operate(Decoded, Broadcast, lsb_out)
  PROVE  RobMoves
<1>1. /\ HeadNext \in RobTag /\ RobAge(HeadNext) = 1
      /\ RobAge(rob_head) = 0
  BY RobWires DEF HeadNext
<1>2. rob_head \in RobTag /\ (Releasing => ~Committing)
  BY DEF RobType, Releasing
<1>3. /\ \A s, t \in RobTag : RobAge(s) = RobAge(t) => s = t
      /\ Committing \/ Releasing => Flying(HeadNext)
      /\ rob_head' = IF Committing THEN HeadNext ELSE rob_head
  BY RobPointers
<1>4. \A t \in RobTag : (RobAge(t) = 0 => t = rob_head) /\ (RobAge(t) = 1 => t = HeadNext)
  BY <1>1, <1>2, <1>3
<1>5. ASSUME NEW t \in RobTag
      PROVE  /\ RobAge(t) \in Nat /\ RobAge(t)' \in Nat
             /\ Flying(t) => RobAge(t) >= 1 /\ t # rob_head
             /\ Flying(t)' <=> Stays(t) \/ Enters(t)
             /\ Enters(t) => ~Flying(t)
             /\ Flying(t) \/ Enters(t) => RobAge(t)' = IF Committing THEN RobAge(t) - 1 ELSE RobAge(t)
  BY RobPointers DEF Stays, Enters
<1>6. \A s, t \in RobTag : Flying(s) /\ Enters(t) => RobAge(s) < RobAge(t)
  BY RobPointers DEF Enters
<1> QED BY <1>1, <1>2, <1>3, <1>4, <1>5, <1>6 DEF RobMoves

\* Nobody announces the tag 0.
LEMMA SilentHolds ==
  ASSUME RobType, Signals, Tags
  PROVE  Silent
<1>1. NULL_TAG \notin RobTag /\ rob_head \in RobTag
  BY DEF RobTag, NULL_TAG, RobType
<1> QED BY <1>1 DEF Signals, Tags, Silent, InAlu, Committed, Loaded

\* A cycle of the reservation station does that.
LEMMA StationMovesHolds ==
  ASSUME RsType, RobType, LsbType, DecodedType, Decoded.to_rs => ~ReservationStation!full_out,
         ReservationStation!Operate(Decoded, Broadcast, lsb_out, rob_out)
  PROVE  StationMoves
<1>1. \A i \in RsIndex : Arrives(i) => Decoded.to_rs
  BY DEF Arrives
<1>2. \A i, j \in RsIndex : Arrives(i) /\ Arrives(j) => i = j
  BY DEF Arrives
<1> QED BY <1>1, <1>2, RsContents DEF StationMoves

\* A cycle of the load store buffer does that to its pointers.
LEMMA QueueMovesHolds ==
  ASSUME LsbType, CommittedFirst, rob_out.commit_lsb \in BOOLEAN, NEW mc,
         Decoded.to_lsb => ~LoadStoreBuffer!full_out,
         LoadStoreBuffer!Operate(Decoded, Broadcast, rob_out, mc)
  PROVE  QueueMoves
<1>1. /\ lsb_cnt \in Nat /\ Length \in Nat
      /\ LsbHead \in LsbIndex /\ Place(LsbHead) = 1 /\ LsbTail \in LsbIndex
      /\ \A i \in LsbIndex : /\ Place(i) \in Nat
                             /\ Place(i) = 1 => i = LsbHead
                             /\ Queued(i) => Place(i) >= 1 /\ Place(i) <= Length
      /\ \A i, j \in LsbIndex : Place(i) = Place(j) => i = j
  BY LsbWires
<1>2. \A k \in Nat : 1 <= k /\ k <= Length => \E i \in LsbIndex : Queued(i) /\ Place(i) = k
  <2>1. \A k \in 1 .. Length : \E i \in LsbIndex : Queued(i) /\ Place(i) = k
    BY LsbWires
  <2> QED BY <2>1, <1>1
<1>3. LoadStoreBuffer!Count(rob_out)
  BY DEF LoadStoreBuffer!Operate
<1>4. /\ Due \in Nat /\ Due <= Length /\ Due = IF rob_out.commit_lsb THEN lsb_cnt + 1 ELSE lsb_cnt
      /\ Running => Issuing /\ Due >= 1
      /\ Issuing /\ ~Running => Due = 0
  <2>1. /\ Due \in Nat /\ Due <= Length /\ Due = IF rob_out.commit_lsb THEN lsb_cnt + 1 ELSE lsb_cnt
        /\ Issuing /\ ~Running => Due = 0
        /\ Running => lsb_cnt >= 1
    BY DueFirst
  <2> QED BY <2>1, <1>1 DEF Running
<1>5. lsb_cnt' = IF Running THEN Due - 1 ELSE Due
  BY <1>3, LsbCounts
<1>6. /\ Issuing \/ Noticing => Queued(LsbHead)
      /\ \A i, j \in LsbIndex : Place(i)' = Place(j)' => i = j
      /\ Length' = Length + (IF Decoded.to_lsb THEN 1 ELSE 0) - (IF Issuing THEN 1 ELSE 0)
      /\ \A i \in LsbIndex : LsbPlaceAfter(i)
  BY LsbPointers
<1>7. ASSUME NEW i \in LsbIndex
      PROVE  /\ Place(i)' \in Nat
             /\ Queued(i)' <=> QueueStays(i) \/ QueueEnters(i)
             /\ QueueStays(i) => Place(i)' = IF Issuing THEN Place(i) - 1 ELSE Place(i)
             /\ QueueEnters(i) => Place(i)' = Length'
             /\ Queued(i)' => Place(i)' >= 1 /\ Place(i)' <= Length'
  BY <1>6 DEF LsbPlaceAfter
<1> QED BY <1>1, <1>2, <1>4, <1>5, <1>6, <1>7 DEF QueueMoves

\* And that to its entries.
LEMMA QueueSlotsHold ==
  ASSUME LsbType, RobType, RsType, DecodedType, CommittedFirst, Silent, Tags, Presents,
         NEW mc \in MemoryOutput,
         Decoded.to_lsb => ~LoadStoreBuffer!full_out,
         LoadStoreBuffer!Operate(Decoded, Broadcast, rob_out, mc)
  PROVE  \A i \in LsbIndex : QueueSlotAfter(i, Finishing(mc) /\ lsb_status = "LOAD")
<1> DEFINE fin == Finishing(mc) /\ lsb_status = "LOAD"
           data == LoadStoreBuffer!LoadResult(lsb_current_op, mc.lsb_data)
<1>1. rob_out.commit_lsb \in BOOLEAN
  BY DEF RobType, RobOutput
<1>2. data \in Word
  <2>1. mc.lsb_data \in Word
    BY DEF MemoryOutput
  <2> QED BY <2>1, LoadResultWord, LsbNames
<1>3. lsb_entry' = LoadStoreBuffer!Contents(lsb_head', lsb_tail', Decoded.to_lsb, Decoded, Broadcast, rob_out, fin, data)
  BY DEF LoadStoreBuffer!Operate, Finishing
<1>4. lsb_head' \in LsbIndex /\ lsb_tail' \in LsbIndex /\ \A i \in LsbIndex : LsbPlaceAfter(i)
  BY LsbPointers
<1>5. fin => lsb_current_tag # NULL_TAG
  BY DEF Tags, Silent
<1>6. QueueMoves
  BY <1>1, QueueMovesHolds
<1>7. ~InAlu(NULL_TAG) /\ ~Committed(NULL_TAG)
  BY DEF Silent
<1>8. ASSUME NEW i \in LsbIndex, 1 <= Dist(lsb_head', i, LSB_CAPACITY),
                    Dist(lsb_head', i, LSB_CAPACITY) <= Dist(lsb_head', lsb_tail', LSB_CAPACITY)
      PROVE  IF Decoded.to_lsb /\ i = LsbTail THEN LsbEntryNew(i) ELSE LsbEntryKept(i, fin)
  <2> HIDE DEF fin, data
  <2> QED BY <1>2, <1>3, <1>4, <1>5, <1>7, <1>8, LsbContents
<1> HIDE DEF data
<1>9. ASSUME NEW i \in LsbIndex, Queued(i)'
      PROVE  IF QueueEnters(i) THEN LsbEntryNew(i) ELSE LsbEntryKept(i, fin)
  <2>1. 1 <= Dist(lsb_head', i, LSB_CAPACITY) /\ Dist(lsb_head', i, LSB_CAPACITY) <= Dist(lsb_head', lsb_tail', LSB_CAPACITY)
    BY <1>9 DEF Queued, Place, Length
  <2> HIDE DEF fin
  <2> QED BY <2>1, <1>8 DEF QueueEnters
<1> SUFFICES ASSUME NEW i \in LsbIndex PROVE QueueSlotAfter(i, fin)
  OBVIOUS
<1> HIDE DEF fin
<1>10. Queued(i)' <=> QueueStays(i) \/ QueueEnters(i)
  BY <1>6 DEF QueueMoves
<1>11. QueueStays(i) => Queued(i) /\ ~QueueEnters(i)
  BY <1>4 DEF LsbPlaceAfter, QueueStays
<1>12. rob_out.commit_lsb => (i = LoadStoreBuffer!CommitSlot <=> Place(i) = lsb_cnt + 1)
  <2>1. rob_out.commit_lsb => lsb_cnt < Length
    BY DEF CommittedFirst
  <2> QED BY <2>1, LsbWires
<1>13. ASSUME QueueStays(i) PROVE QueueSlotAfter(i, fin)
  <2>1. LsbEntryKept(i, fin)
    BY <1>9, <1>10, <1>11, <1>13
  <2> QED BY <2>1, <1>11, <1>12, <1>13 DEF LsbEntryKept, QueueSlotAfter, Hit
<1>14. ASSUME QueueEnters(i) PROVE QueueSlotAfter(i, fin)
  <2>1. LsbEntryNew(i)
    BY <1>9, <1>10, <1>14
  <2>2. Decoded.next_tag = TailNext
    BY <1>14 DEF Presents, QueueEnters
  <2>3. Place(i) = Length + 1
    BY <1>14, LsbWires DEF QueueEnters
  <2>4. ~Hit(i)
    BY <2>3, LsbWires DEF CommittedFirst, Hit
  <2> QED BY <2>1, <2>2, <2>4, <1>11, <1>12, <1>14 DEF LsbEntryNew, QueueSlotAfter, Hit
<1> QED BY <1>13, <1>14 DEF QueueSlotAfter

QueueWorks(mc) == /\ QueueMoves
                  /\ \A i \in LsbIndex : QueueSlotAfter(i, Finishing(mc) /\ lsb_status = "LOAD")
                  /\ LsbTells(mc) /\ LsbWhy
RobWorks == RobMoves /\ RobTells /\ \A t \in RobTag : SlotAfter(t)
Works(mc) == /\ Silent /\ Presents /\ RobWorks /\ StationMoves /\ QueueWorks(mc)
             /\ \A r \in RegIndex : RegisterAfter(r)
             /\ Signals /\ Tags /\ CommittedFirst /\ Scheduled /\ Unmarked

(***************************************************************************)
(* An instruction under way stays unfinished until its result arrives.     *)
(***************************************************************************)
LEMMA StaysUnfinished ==
  ASSUME RobWorks, Owned, NEW t \in RobTag
  PROVE  /\ OfRs(t) /\ ~InAlu(t) => OfRs(t)'
         /\ OfLoad(t) /\ ~Loaded(t) => OfLoad(t)'
         /\ OfStore(t) => OfStore(t)' \/ (Committing /\ t = HeadNext)
         /\ OfLoad(t) /\ RobAge(t) = 1 => ~Committing
<1>1. /\ Stays(t) => /\ rob_entry'[t].ready <=> rob_entry[t].ready \/ InAlu(t) \/ Loaded(t)
                     /\ Op(t)' = Op(t)
                     /\ Flying(t)'
      /\ Committing => rob_entry[HeadNext].ready \/ Op(HeadNext) = "STORE"
      /\ RobAge(t) = 1 => t = HeadNext
  BY DEF RobWorks, RobMoves, RobTells, SlotAfter
<1>2. /\ InAlu(t) => OfRs(t)
      /\ Loaded(t) => OfLoad(t)
  BY DEF Owned, OwnedInAlu, OwnedByResult
<1>3. Unfinished(t)' <=> Flying(t)' /\ ~rob_entry'[t].ready
  BY DEF Unfinished
<1>4. ASSUME Unfinished(t), ~(Committing /\ t = HeadNext) PROVE Stays(t)
  BY <1>4 DEF Unfinished, Stays
<1>5. OfRs(t) \/ OfLoad(t) => ~(Committing /\ t = HeadNext)
  BY <1>1 DEF OfRs, OfLoad, Unfinished, Op
<1>6. OfRs(t)' <=> Unfinished(t)' /\ Op(t)' \notin {"LOAD", "STORE"}
  BY DEF OfRs
<1>7. OfLoad(t)' <=> Unfinished(t)' /\ Op(t)' = "LOAD"
  BY DEF OfLoad
<1>8. OfStore(t)' <=> Unfinished(t)' /\ Op(t)' = "STORE"
  BY DEF OfStore
<1>9. Unfinished(t) => ~rob_entry[t].ready
  BY DEF Unfinished
<1>10. ASSUME OfRs(t), ~InAlu(t) PROVE OfRs(t)'
  BY <1>1, <1>2, <1>3, <1>4, <1>5, <1>6, <1>9, <1>10 DEF OfRs, OfLoad
<1>11. ASSUME OfLoad(t), ~Loaded(t) PROVE OfLoad(t)'
  BY <1>1, <1>2, <1>3, <1>4, <1>5, <1>7, <1>9, <1>11 DEF OfRs, OfLoad
<1>12. ASSUME OfStore(t), ~(Committing /\ t = HeadNext) PROVE OfStore(t)'
  BY <1>1, <1>2, <1>3, <1>4, <1>8, <1>9, <1>12 DEF OfRs, OfLoad, OfStore
<1>13. OfLoad(t) /\ RobAge(t) = 1 => ~Committing
  BY <1>1, <1>5
<1> QED BY <1>10, <1>11, <1>12, <1>13

\* What a queued access is after the cycle was queued before it, or is new.
LEMMA LiveBefore ==
  ASSUME NEW mc, QueueWorks(mc), NEW i \in LsbIndex, NEW t \in RobTag, InLsb(t, i)'
  PROVE  \/ /\ QueueStays(i) /\ InLsb(t, i) /\ (lsb_entry[i].store => ~Hit(i))
            /\ lsb_entry'[i].store = lsb_entry[i].store
         \/ QueueEnters(i) /\ t = TailNext /\ lsb_entry'[i].store = Decoded.store
<1>1. /\ Queued(i)' /\ (lsb_entry'[i].store => ~lsb_entry'[i].commit_flag) /\ lsb_entry'[i].rob_tag = t
  BY DEF InLsb, Live
<1>2. QueueStays(i) \/ QueueEnters(i)
  BY <1>1 DEF QueueWorks, QueueMoves
<1>3. CASE QueueStays(i)
  <2>1. /\ Queued(i)
        /\ lsb_entry'[i].store = lsb_entry[i].store
        /\ lsb_entry'[i].rob_tag = lsb_entry[i].rob_tag
        /\ lsb_entry'[i].commit_flag <=> lsb_entry[i].commit_flag \/ Hit(i)
    BY <1>3 DEF QueueWorks, QueueSlotAfter
  <2> QED BY <1>1, <1>3, <2>1 DEF InLsb, Live
<1>4. CASE QueueEnters(i)
  <2>1. lsb_entry'[i].store = Decoded.store /\ lsb_entry'[i].rob_tag = TailNext
    BY <1>4 DEF QueueWorks, QueueSlotAfter
  <2> QED BY <1>1, <1>4, <2>1
<1> QED BY <1>2, <1>3, <1>4

\* A live access is that of an instruction in the reorder buffer, unless this
\* cycle hands its commit to it.
LEMMA LiveFlies ==
  ASSUME Owned, NEW i \in LsbIndex, NEW t \in RobTag, InLsb(t, i), lsb_entry[i].store => ~Hit(i)
  PROVE  Flying(t) /\ IF lsb_entry[i].store THEN OfStore(t) ELSE OfLoad(t)
<1>1. IF lsb_entry[i].store THEN OfStore(t) \/ PendingStore(i) ELSE OfLoad(t)
  BY DEF Owned, OwnedInLsb
<1>2. PendingStore(i) => lsb_entry[i].store /\ Hit(i)
  BY DEF PendingStore, Hit
<1> QED BY <1>1, <1>2 DEF OfStore, OfLoad, Unfinished

\* The load that is under way after the cycle.
LEMMA LoadingBefore ==
  ASSUME NEW mc, QueueWorks(mc), Owned, Alone, NEW t \in RobTag
  PROVE  /\ Loading(t)' => \/ Loading(t) /\ lsb_current_address' = lsb_current_address
                           \/ /\ Issuing /\ InLsb(t, LsbHead) /\ ~First.store
                              /\ lsb_current_address' = LoadStoreBuffer!Address(First)
         /\ Loading(t)' => OfLoad(t) /\ ~Loaded(t)
         /\ Loaded(t)' => Loading(t) /\ lsb_status' = "IDLE"
         /\ Loading(t) => OfLoad(t) /\ ~Loaded(t)
<1>1. LsbTells(mc) /\ LsbHead \in LsbIndex /\ (Issuing => Queued(LsbHead))
  BY DEF QueueWorks, QueueMoves
<1>2. Loading(t) => OfLoad(t) /\ ~Loaded(t)
  BY DEF Owned, OwnedByLoad, Alone, OneLoad, Loading, Loaded
<1>3. ASSUME Loading(t)'
      PROVE  \/ Loading(t) /\ lsb_current_address' = lsb_current_address
             \/ /\ Issuing /\ InLsb(t, LsbHead) /\ ~First.store
                /\ lsb_current_address' = LoadStoreBuffer!Address(First)
  <2>1. lsb_status' = "LOAD" /\ lsb_current_tag' = t
    BY <1>3 DEF Loading
  <2>2. CASE Issuing
    <3>1. Asks
      BY <1>1, <2>2 DEF LsbTells
    <3> QED BY <1>1, <2>1, <2>2, <3>1 DEF Asks, InLsb, Live, First
  <2>3. CASE ~Issuing
    <3>1. Remains
      BY <1>1, <2>1, <2>3 DEF LsbTells, Reports, Ends
    <3> QED BY <2>1, <3>1 DEF Remains, Loading
  <2> QED BY <2>2, <2>3
<1>4. ASSUME Loading(t)' PROVE OfLoad(t) /\ ~Loaded(t)
  <2>1. CASE Loading(t)
    BY <2>1, <1>2
  <2>2. CASE InLsb(t, LsbHead) /\ ~First.store
    <3>1. OfLoad(t)
      BY <2>2, <1>1, LiveFlies DEF First
    <3> QED BY <2>2, <3>1, <1>1 DEF Alone, AloneInLsb
  <2> QED BY <1>3, <1>4, <2>1, <2>2
<1>5. ASSUME Loaded(t)' PROVE Loading(t) /\ lsb_status' = "IDLE"
  <2>1. lsb_out'.broadcast /\ lsb_out'.dest_tag = t
    BY <1>5 DEF Loaded
  <2>2. Ends
    BY <1>1, <2>1 DEF LsbTells, Asks, Reports, Remains
  <2> QED BY <2>1, <2>2 DEF Ends, Loading
<1> QED BY <1>2, <1>3, <1>4, <1>5

\* An entry of the reservation station after the cycle, and the ALU.
LEMMA StationAfter ==
  ASSUME StationMoves, Presents, NEW i \in RsIndex, NEW t \in RobTag
  PROVE  /\ InRs(t, i)' => \/ InRs(t, i) /\ ~Arrives(i) /\ ~Leaves(i)
                           \/ Arrives(i) /\ Enters(t) /\ Decoded.to_rs
         /\ InRs(t, i) => InRs(t, i)' \/ (Leaves(i) /\ InAlu(t)')
         /\ Arrives(i) /\ t = TailNext => InRs(t, i)'
         /\ InAlu(t)' => \E j \in RsIndex : Leaves(j) /\ InRs(t, j)
<1>1. RsSlotAfter(i) /\ (Arrives(i) => Decoded.to_rs)
  BY DEF StationMoves
<1>2. Decoded.to_rs => Decoded.issue /\ Decoded.next_tag = TailNext
  BY DEF Presents
<1>3. /\ Arrives(i) => ~rs_entry[i].busy /\ rs_entry'[i].busy /\ rs_entry'[i].dest = TailNext
      /\ Leaves(i) => rs_entry[i].busy /\ ~rs_entry'[i].busy
      /\ ~Arrives(i) => (rs_entry'[i].busy <=> rs_entry[i].busy /\ ~Leaves(i))
      /\ ~Arrives(i) /\ rs_entry'[i].busy => rs_entry'[i].dest = rs_entry[i].dest
  BY <1>1, <1>2 DEF RsSlotAfter
<1>4. \A j \in RsIndex : Leaves(j) => /\ rs_calc'.calculate /\ rs_calc'.dest = rs_entry[j].dest
                                      /\ rs_entry[j].busy
  BY DEF StationMoves, RsSlotAfter
<1>5. InRs(t, i)' <=> rs_entry'[i].busy /\ rs_entry'[i].dest = t
  BY DEF InRs
<1>6. InAlu(t)' <=> rs_calc'.calculate /\ rs_calc'.dest = t
  BY DEF InAlu
<1>7. InAlu(t)' => \E j \in RsIndex : Leaves(j) /\ InRs(t, j)
  BY <1>4, <1>6 DEF StationMoves, InRs
<1>8. InRs(t, i) => InRs(t, i)' \/ (Leaves(i) /\ InAlu(t)')
  BY <1>3, <1>4, <1>5, <1>6 DEF InRs
<1>9. InRs(t, i)' => \/ InRs(t, i) /\ ~Arrives(i) /\ ~Leaves(i)
                     \/ Arrives(i) /\ Enters(t) /\ Decoded.to_rs
  BY <1>1, <1>2, <1>3, <1>5 DEF InRs, Enters
<1>10. Arrives(i) /\ t = TailNext => InRs(t, i)'
  BY <1>3, <1>5
<1> QED BY <1>7, <1>8, <1>9, <1>10

\* The store the reorder buffer commits waits in the queue, right behind the
\* accesses committed before it.
LEMMA StoreFound ==
  ASSUME NEW mc, Works(mc), Committing, Op(HeadNext) = "STORE"
  PROVE  /\ Issuing => Running
         /\ \E i \in LsbIndex : /\ InLsb(HeadNext, i) /\ lsb_entry[i].store /\ ~Hit(i)
                                /\ Place(i) = Due + 1 /\ QueueStays(i)
<1> DEFINE t == HeadNext
<1>1. /\ RobMoves /\ QueueMoves /\ Owned /\ Alone /\ Worked /\ StoresNotReady /\ CommitPending /\ CommittedFirst
  BY DEF Works, RobWorks, QueueWorks, Scheduled
<1>2. t \in RobTag /\ Flying(t) /\ RobAge(t) = 1 /\ t # rob_head
  BY <1>1 DEF RobMoves
<1>3. Unfinished(t) /\ OfStore(t)
  BY <1>1, <1>2 DEF StoresNotReady, Unfinished, OfStore
<1>4. ~OfRs(t) /\ ~OfLoad(t)
  BY DEF OfRs, OfLoad
<1>5. PICK i \in LsbIndex : InLsb(t, i)
  <2>1. \A j \in RsIndex : ~InRs(t, j)
    BY <1>1, <1>2, <1>4 DEF Owned, OwnedInRs
  <2>2. ~InAlu(t) /\ ~Loading(t) /\ ~Loaded(t)
    BY <1>1, <1>2, <1>4 DEF Owned, OwnedInAlu, OwnedByLoad, OwnedByResult
  <2> HIDE DEF t
  <2> QED BY <1>1, <1>2, <1>3, <2>1, <2>2 DEF Worked
<1> HIDE DEF t
<1>6. lsb_entry[i].store
  BY <1>1, <1>2, <1>4, <1>5 DEF Owned, OwnedInLsb
<1>7. Queued(i) /\ lsb_entry[i].rob_tag = t /\ ~lsb_entry[i].commit_flag
  BY <1>5, <1>6 DEF InLsb, Live
<1>8. ~Hit(i)
  BY <1>1, <1>2, <1>6, <1>7 DEF CommitPending, Hit, PendingStore
<1>9. Place(i) \in Nat /\ lsb_cnt \in Nat /\ Due \in Nat /\ Place(i) > Due /\ Place(i) <= Length
  <2>1. /\ Place(i) \in Nat /\ lsb_cnt \in Nat /\ Due \in Nat /\ Place(i) <= Length
        /\ Due = IF rob_out.commit_lsb THEN lsb_cnt + 1 ELSE lsb_cnt
    BY <1>1, <1>7 DEF QueueMoves
  <2>2. ~(Place(i) <= lsb_cnt)
    BY <1>1, <1>7 DEF CommittedFirst
  <2> QED BY <2>1, <2>2, <1>8 DEF Hit
<1>10. ASSUME NEW j \in LsbIndex, Queued(j), Place(j) = Due + 1 PROVE j = i
  <2>0. Place(j) \in Nat /\ Length \in Nat
    BY <1>1, <1>10 DEF QueueMoves
  <2>1. ~lsb_entry[j].commit_flag /\ ~Hit(j)
    <3>1. Due = IF rob_out.commit_lsb THEN lsb_cnt + 1 ELSE lsb_cnt
      BY <1>1 DEF QueueMoves
    <3>2. ~(Place(j) <= lsb_cnt) /\ ~Hit(j)
      BY <3>1, <1>9, <1>10 DEF Hit
    <3> QED BY <3>2, <1>1, <1>10 DEF CommittedFirst
  <2> DEFINE s == lsb_entry[j].rob_tag
  <2>2. s \in RobTag
    BY <1>10, <1>1 DEF Works, Tags
  <2>3. InLsb(s, j)
    BY <2>1, <1>10 DEF InLsb, Live
  <2> HIDE DEF s
  <2>4. Flying(s)
    BY <2>1, <2>2, <2>3, <1>1, LiveFlies
  <2>5. ~(Place(j) < Place(i))
    <3>1. ASSUME Place(j) < Place(i) PROVE FALSE
      <4>1. RobAge(s) < RobAge(t)
        BY <3>1, <1>1, <1>2, <1>5, <2>2, <2>3 DEF Alone, InOrder
      <4>2. RobAge(s) \in Nat /\ RobAge(s) >= 1
        BY <1>1, <2>2, <2>4 DEF RobMoves
      <4> QED BY <4>1, <4>2, <1>2
    <3> QED BY <3>1
  <2>6. Place(j) = Place(i)
    BY <2>0, <2>5, <1>9, <1>10
  <2> QED BY <2>6, <1>1 DEF QueueMoves
<1>11. Place(i) = Due + 1
  <2>1. Due + 1 \in Nat /\ 1 <= Due + 1 /\ Due + 1 <= Length
    BY <1>1, <1>9 DEF QueueMoves
  <2>2. PICK j \in LsbIndex : Queued(j) /\ Place(j) = Due + 1
    BY <2>1, <1>1 DEF QueueMoves
  <2> QED BY <2>2, <1>10
<1>12. Issuing => Running
  <2>1. ASSUME Issuing, ~Running PROVE FALSE
    <3>1. Due = 0 /\ Queued(LsbHead) /\ LsbHead \in LsbIndex /\ Place(LsbHead) = 1
      BY <2>1, <1>1 DEF QueueMoves
    <3>2. LsbHead = i
      BY <3>1, <1>10
    <3>3. LoadStoreBuffer!NeedsCommit(First)
      BY <3>2, <1>6 DEF LoadStoreBuffer!NeedsCommit, First
    <3> QED BY <3>3, <2>1 DEF Running
  <2> QED BY <2>1
<1>13. QueueStays(i)
  <2>1. ASSUME Issuing, i = LsbHead PROVE FALSE
    <3>1. Due >= 1 /\ Place(LsbHead) = 1
      BY <2>1, <1>12, <1>1 DEF QueueMoves
    <3> QED BY <3>1, <2>1, <1>9, <1>11
  <2> QED BY <2>1, <1>7 DEF QueueStays
<1> QED BY <1>5, <1>6, <1>8, <1>11, <1>12, <1>13 DEF t

\* An access that stays in the queue stays live, unless it is the store whose
\* commit arrives now.
LEMMA LiveStays ==
  ASSUME NEW mc, Works(mc), NEW i \in LsbIndex, NEW t \in RobTag, InLsb(t, i), Flying(t)
  PROVE  \/ InLsb(t, i)' /\ QueueStays(i)
         \/ Issuing /\ i = LsbHead /\ ~First.store /\ Loading(t)'
<1>1. /\ QueueMoves /\ LsbTells(mc) /\ LsbWhy /\ CommitPending
      /\ QueueSlotAfter(i, Finishing(mc) /\ lsb_status = "LOAD")
      /\ RobMoves
  BY DEF Works, QueueWorks, Scheduled, RobWorks
<1>2. Queued(i) /\ (lsb_entry[i].store => ~lsb_entry[i].commit_flag) /\ lsb_entry[i].rob_tag = t
  BY DEF InLsb, Live
<1>3. t # rob_head
  BY <1>1 DEF RobMoves
<1>4. lsb_entry[i].store => ~Hit(i)
  BY <1>1, <1>2, <1>3 DEF CommitPending, Hit, PendingStore
<1>5. CASE QueueStays(i)
  <2>1. Queued(i)'
    BY <1>1, <1>5 DEF QueueMoves
  <2>2. /\ lsb_entry'[i].store = lsb_entry[i].store
        /\ lsb_entry'[i].rob_tag = lsb_entry[i].rob_tag
        /\ lsb_entry'[i].commit_flag <=> lsb_entry[i].commit_flag \/ Hit(i)
    BY <1>1, <1>5 DEF QueueSlotAfter
  <2>3. InLsb(t, i)'
    BY <1>2, <1>4, <2>1, <2>2 DEF InLsb, Live
  <2> QED BY <1>5, <2>3
<1>6. CASE ~QueueStays(i)
  <2>1. Issuing /\ i = LsbHead
    BY <1>2, <1>6 DEF QueueStays
  <2>2. Asks /\ (First.store => First.commit_flag)
    BY <1>1, <2>1 DEF LsbTells, LsbWhy
  <2>3. ~First.store
    BY <1>2, <2>1, <2>2 DEF First
  <2>4. Loading(t)'
    BY <1>2, <2>1, <2>2, <2>3 DEF Asks, Loading, First
  <2> QED BY <2>1, <2>3, <2>4
<1> QED BY <1>5, <1>6

\* Every unfinished instruction stays at work, or moves on to the next place.
LEMMA WorkedStep ==
  ASSUME NEW mc, Works(mc)
  PROVE  Worked'
<1>1. /\ RobMoves /\ QueueMoves /\ Owned /\ Alone /\ Worked /\ LsbTells(mc) /\ StationMoves /\ Presents /\ QueueWorks(mc)
      /\ \A t \in RobTag : SlotAfter(t)
  BY DEF Works, RobWorks, QueueWorks, Scheduled
<1>2. ASSUME NEW t \in RobTag, Unfinished(t)'
      PROVE  \/ \E i \in RsIndex : InRs(t, i)'
             \/ \E i \in LsbIndex : InLsb(t, i)'
             \/ InAlu(t)' \/ Loading(t)' \/ Loaded(t)'
  <2>1. Flying(t)' /\ ~rob_entry'[t].ready
    BY <1>2 DEF Unfinished
  <2>2. Stays(t) \/ Enters(t)
    BY <1>1, <2>1 DEF RobMoves
  <2>3. CASE Stays(t)
    <3>1. Flying(t) /\ ~rob_entry[t].ready /\ ~InAlu(t) /\ ~Loaded(t)
      <4>1. rob_entry'[t].ready <=> rob_entry[t].ready \/ InAlu(t) \/ Loaded(t)
        BY <1>1, <2>3 DEF SlotAfter
      <4> QED BY <2>1, <2>3, <4>1 DEF Stays
    <3>2. \/ \E i \in RsIndex : InRs(t, i)
          \/ \E i \in LsbIndex : InLsb(t, i)
          \/ Loading(t)
      BY <1>1, <3>1 DEF Worked, Unfinished
    <3>3. CASE \E i \in RsIndex : InRs(t, i)
      BY <3>3, <1>1, StationAfter
    <3>4. CASE \E i \in LsbIndex : InLsb(t, i)
      BY <3>1, <3>4, LiveStays
    <3>5. CASE Loading(t)
      <4>1. ~Issuing /\ ~Noticing
        BY <1>1, <3>5 DEF LsbTells, Loading
      <4>2. CASE Finishing(mc)
        BY <1>1, <3>5, <4>2 DEF LsbTells, Ends, Loading, Loaded
      <4>3. CASE ~Finishing(mc)
        BY <1>1, <3>5, <4>1, <4>3 DEF LsbTells, Remains, Loading
      <4> QED BY <4>2, <4>3
    <3> QED BY <3>2, <3>3, <3>4, <3>5
  <2>4. CASE Enters(t)
    <3>1. t = TailNext /\ Decoded.issue
      BY <2>4 DEF Enters
    <3>2. CASE Decoded.to_rs
      <4>1. PICK i \in RsIndex : Arrives(i)
        BY <1>1, <3>2 DEF StationMoves
      <4> QED BY <1>1, <3>1, <4>1, StationAfter
    <3>3. CASE Decoded.to_lsb
      <4>1. PICK j \in LsbIndex : QueueEnters(j)
        <5>1. LsbTail \in LsbIndex
          BY <1>1 DEF QueueMoves
        <5> QED BY <3>3, <5>1 DEF QueueEnters
      <4>2. Queued(j)' /\ lsb_entry'[j].rob_tag = t /\ ~lsb_entry'[j].commit_flag
        BY <1>1, <3>1, <4>1 DEF QueueMoves, QueueWorks, QueueSlotAfter
      <4>3. InLsb(t, j)'
        BY <4>2 DEF InLsb, Live
      <4> QED BY <4>3
    <3> QED BY <1>1, <3>1, <3>2, <3>3 DEF Presents
  <2> QED BY <2>2, <2>3, <2>4
<1> QED BY <1>2 DEF Worked

\* An instruction just issued belongs where the dispatcher sent it.
LEMMA EntersOwned ==
  ASSUME NEW mc, Works(mc), NEW t \in RobTag, Enters(t)
  PROVE  /\ Decoded.to_rs => OfRs(t)'
         /\ Decoded.to_lsb /\ Decoded.store => OfStore(t)'
         /\ Decoded.to_lsb /\ ~Decoded.store => OfLoad(t)'
<1>1. Flying(t)' /\ ~rob_entry'[t].ready /\ Op(t)' = Decoded.opcode
  BY DEF Works, RobWorks, RobMoves, SlotAfter
<1>2. Unfinished(t)'
  BY <1>1 DEF Unfinished
<1>3. /\ Decoded.to_lsb => Decoded.opcode \in {"LOAD", "STORE"}
      /\ Decoded.to_rs => Decoded.opcode \notin {"LOAD", "STORE"}
      /\ Decoded.store <=> Decoded.opcode = "STORE"
  BY DEF Works, Presents
<1>4. OfRs(t)' <=> Unfinished(t)' /\ Op(t)' \notin {"LOAD", "STORE"}
  BY DEF OfRs
<1>5. OfLoad(t)' <=> Unfinished(t)' /\ Op(t)' = "LOAD"
  BY DEF OfLoad
<1>6. OfStore(t)' <=> Unfinished(t)' /\ Op(t)' = "STORE"
  BY DEF OfStore
<1> QED BY <1>1, <1>2, <1>3, <1>4, <1>5, <1>6

\* Every place of the pipeline works on an instruction of its kind.
LEMMA OwnedStep ==
  ASSUME NEW mc, Works(mc)
  PROVE  Owned'
<1>1. /\ RobMoves /\ QueueMoves /\ Owned /\ Alone /\ StationMoves /\ Presents /\ QueueWorks(mc) /\ RobWorks
  BY DEF Works, RobWorks, QueueWorks, Scheduled
<1>2. ASSUME NEW t \in RobTag, NEW i \in RsIndex, InRs(t, i)' PROVE OfRs(t)'
  <2>1. CASE InRs(t, i)
    <3>1. OfRs(t) /\ ~InAlu(t)
      BY <1>1, <2>1 DEF Owned, OwnedInRs, Alone, AloneInAlu
    <3> QED BY <1>1, <3>1, StaysUnfinished
  <2>2. CASE Enters(t) /\ Decoded.to_rs
    BY <2>2, EntersOwned
  <2> QED BY <1>1, <1>2, <2>1, <2>2, StationAfter
<1>3. ASSUME NEW t \in RobTag, InAlu(t)' PROVE OfRs(t)'
  <2>0. PICK i0 \in RsIndex : TRUE
    <3>1. 0 \in RsIndex
      BY CapacityAssumption DEF CapacityAssumption, RsIndex
    <3> QED BY <3>1
  <2>1. PICK i \in RsIndex : InRs(t, i)
    BY <1>1, <1>3, <2>0, StationAfter
  <2>2. OfRs(t) /\ ~InAlu(t)
    BY <1>1, <2>1 DEF Owned, OwnedInRs, Alone, AloneInAlu
  <2> QED BY <1>1, <2>2, StaysUnfinished
<1>4. ASSUME NEW t \in RobTag, Loading(t)' \/ Loaded(t)' PROVE OfLoad(t)'
  <2>1. OfLoad(t) /\ ~Loaded(t)
    BY <1>1, <1>4, LoadingBefore
  <2> QED BY <1>1, <2>1, StaysUnfinished
<1>5. ASSUME NEW t \in RobTag, NEW i \in LsbIndex, InLsb(t, i)'
      PROVE  IF lsb_entry'[i].store THEN OfStore(t)' \/ PendingStore(i)' ELSE OfLoad(t)'
  <2>1. CASE QueueEnters(i) /\ t = TailNext /\ lsb_entry'[i].store = Decoded.store
    <3>1. Enters(t) /\ Decoded.to_lsb
      BY <1>1, <2>1 DEF QueueEnters, Presents, Enters
    <3> QED BY <2>1, <3>1, EntersOwned
  <2>2. CASE QueueStays(i) /\ InLsb(t, i) /\ (lsb_entry[i].store => ~Hit(i)) /\ lsb_entry'[i].store = lsb_entry[i].store
    <3>1. Flying(t) /\ IF lsb_entry[i].store THEN OfStore(t) ELSE OfLoad(t)
      BY <1>1, <2>2, LiveFlies
    <3>2. CASE ~lsb_entry[i].store
      <4>1. OfLoad(t) /\ ~Loaded(t)
        BY <1>1, <2>2, <3>1, <3>2 DEF Alone, AloneInLsb
      <4>2. OfLoad(t)'
        BY <1>1, <4>1, StaysUnfinished
      <4> QED BY <2>2, <3>2, <4>2
    <3>3. CASE lsb_entry[i].store
      <4>1. OfStore(t)' \/ (Committing /\ t = HeadNext)
        BY <1>1, <3>1, <3>3, StaysUnfinished
      <4>2. ASSUME Committing, t = HeadNext PROVE PendingStore(i)'
        <5>1. Op(HeadNext) = "STORE"
          BY <3>1, <3>3, <4>2 DEF OfStore
        <5>2. (Issuing => Running) /\ \E j \in LsbIndex : /\ InLsb(HeadNext, j) /\ Place(j) = Due + 1
          BY <4>2, <5>1, StoreFound
        <5>3. PICK j \in LsbIndex : InLsb(HeadNext, j) /\ Place(j) = Due + 1
          BY <5>2
        <5>4. j = i
          <6>1. /\ ~(Place(j) < Place(i)) /\ ~(Place(i) < Place(j))
            <7>1. InLsb(t, i) /\ InLsb(t, j) /\ RobAge(t) \in Nat
              BY <2>2, <4>2, <5>3, <1>1 DEF RobMoves
            <7>2. Place(i) < Place(j) => RobAge(t) < RobAge(t)
              BY <1>1, <7>1 DEF Alone, InOrder
            <7>3. Place(j) < Place(i) => RobAge(t) < RobAge(t)
              BY <1>1, <7>1 DEF Alone, InOrder
            <7> QED BY <7>1, <7>2, <7>3
          <6>2. Place(i) \in Nat /\ Place(j) \in Nat
            BY <1>1 DEF QueueMoves
          <6>3. Place(i) = Place(j)
            BY <6>1, <6>2
          <6> QED BY <6>3, <1>1 DEF QueueMoves
        <5>5. Place(i)' = lsb_cnt' + 1
          <6>1. /\ Place(i)' = IF Issuing THEN Place(i) - 1 ELSE Place(i)
                /\ lsb_cnt' = IF Running THEN Due - 1 ELSE Due
                /\ Due \in Nat
                /\ Running => Issuing
            BY <1>1, <2>2 DEF QueueMoves
          <6> QED BY <6>1, <5>2, <5>3, <5>4
        <5>6. rob_out'.commit_lsb /\ rob_out'.commit /\ rob_head' = t
          BY <1>1, <4>2, <5>1 DEF RobWorks, RobTells, RobMoves
        <5>7. lsb_entry'[i].store /\ lsb_entry'[i].rob_tag = t
          BY <1>5, <2>2, <3>3 DEF InLsb
        <5> QED BY <5>5, <5>6, <5>7 DEF PendingStore
      <4> QED BY <2>2, <3>3, <4>1, <4>2
    <3> QED BY <3>2, <3>3
  <2> QED BY <1>1, <1>5, <2>1, <2>2, LiveBefore
<1>6. OwnedInRs'
  BY <1>2 DEF OwnedInRs
<1>7. OwnedInAlu'
  BY <1>3 DEF OwnedInAlu
<1>8. OwnedByLoad' /\ OwnedByResult'
  BY <1>4 DEF OwnedByLoad, OwnedByResult
<1>9. OwnedInLsb'
  BY <1>5 DEF OwnedInLsb
<1> QED BY <1>6, <1>7, <1>8, <1>9 DEF Owned

\* Every tag a component keeps is one of the reorder buffer's.
LEMMA TagsStep ==
  ASSUME NEW mc, Tags, Presents, StationMoves, QueueWorks(mc)
  PROVE  Tags'
<1>1. ASSUME NEW i \in RsIndex, rs_entry'[i].busy PROVE rs_entry'[i].dest \in RobTag
  <2>1. RsSlotAfter(i) /\ (Arrives(i) => Decoded.next_tag = TailNext /\ TailNext \in RobTag)
    BY DEF StationMoves, Presents
  <2> QED BY <1>1, <2>1 DEF RsSlotAfter, Tags
<1>2. rs_calc'.calculate => rs_calc'.dest \in RobTag
  BY DEF StationMoves, RsSlotAfter, Tags
<1>3. ASSUME NEW i \in LsbIndex, Queued(i)' PROVE lsb_entry'[i].rob_tag \in RobTag
  <2>1. QueueStays(i) \/ QueueEnters(i)
    BY <1>3 DEF QueueWorks, QueueMoves
  <2>2. /\ QueueStays(i) => Queued(i) /\ lsb_entry'[i].rob_tag = lsb_entry[i].rob_tag
        /\ QueueEnters(i) => lsb_entry'[i].rob_tag = TailNext
    BY DEF QueueWorks, QueueSlotAfter
  <2> QED BY <2>1, <2>2 DEF Tags, Presents
<1>4. /\ lsb_status' = "LOAD" => lsb_current_tag' \in RobTag
      /\ lsb_out'.broadcast => lsb_out'.dest_tag \in RobTag
  <2>0. /\ LsbTells(mc) /\ (Issuing => Queued(LsbHead)) /\ LsbHead \in LsbIndex
    BY DEF QueueWorks, QueueMoves
  <2>1. CASE Issuing
    <3>1. Asks /\ First.rob_tag \in RobTag
      BY <2>0, <2>1 DEF LsbTells, Tags, First
    <3> QED BY <3>1 DEF Asks
  <2>2. CASE Noticing
    BY <2>0, <2>2 DEF LsbTells, Reports
  <2>3. CASE Finishing(mc)
    BY <2>0, <2>3 DEF LsbTells, Ends, Tags
  <2>4. CASE ~Issuing /\ ~Noticing /\ ~Finishing(mc)
    BY <2>0, <2>4 DEF LsbTells, Remains, Tags
  <2> QED BY <2>1, <2>2, <2>3, <2>4
<1> QED BY <1>1, <1>2, <1>3, <1>4 DEF Tags

\* The reorder buffer's pulses after a cycle of work.
LEMMA SignalsStep ==
  ASSUME RobWorks
  PROVE  Signals'
<1>1. RobMoves /\ RobTells
  BY DEF RobWorks
<1> QED BY <1>1 DEF Signals, RobTells, RobMoves, Releasing

\* Nothing finishes a store.
LEMMA StoresNotReadyStep ==
  ASSUME NEW mc, Works(mc)
  PROVE  StoresNotReady'
<1>1. RobMoves /\ Owned /\ StoresNotReady /\ \A t \in RobTag : SlotAfter(t)
  BY DEF Works, RobWorks, Scheduled
<1>2. ASSUME NEW t \in RobTag, Flying(t)', Op(t)' = "STORE" PROVE ~rob_entry'[t].ready
  <2>1. CASE Enters(t)
    BY <1>1, <2>1 DEF SlotAfter
  <2>2. CASE Stays(t)
    <3>1. Flying(t) /\ Op(t) = "STORE" /\ (rob_entry'[t].ready <=> rob_entry[t].ready \/ InAlu(t) \/ Loaded(t))
      BY <1>1, <1>2, <2>2 DEF SlotAfter, Stays
    <3>2. ~InAlu(t) /\ ~Loaded(t)
      BY <1>1, <3>1 DEF Owned, OwnedInAlu, OwnedByResult, OfRs, OfLoad
    <3> QED BY <1>1, <3>1, <3>2 DEF StoresNotReady
  <2> QED BY <1>1, <1>2, <2>1, <2>2 DEF RobMoves
<1> QED BY <1>2 DEF StoresNotReady

\* No two places work on the same instruction, and the queue is in program order.
LEMMA AloneStep ==
  ASSUME NEW mc, Works(mc)
  PROVE  Alone'
<1>1. /\ RobMoves /\ QueueMoves /\ Owned /\ Alone /\ StationMoves /\ Presents /\ QueueWorks(mc) /\ LsbTells(mc)
  BY DEF Works, RobWorks, QueueWorks, Scheduled
<1>2. ASSUME NEW t \in RobTag, Enters(t)
      PROVE  /\ ~Flying(t)
             /\ \A i \in RsIndex : ~InRs(t, i)
  BY <1>1, <1>2 DEF RobMoves, Owned, OwnedInRs, OfRs, Unfinished
<1>3. ASSUME NEW t \in RobTag, NEW i \in RsIndex, NEW j \in RsIndex, InRs(t, i)', InRs(t, j)' PROVE i = j
  <2>1. /\ (InRs(t, i) /\ ~Arrives(i) /\ ~Leaves(i)) \/ (Arrives(i) /\ Enters(t))
        /\ (InRs(t, j) /\ ~Arrives(j) /\ ~Leaves(j)) \/ (Arrives(j) /\ Enters(t))
    BY <1>1, <1>3, StationAfter
  <2>2. Arrives(i) /\ Arrives(j) => i = j
    BY <1>1 DEF StationMoves
  <2>3. InRs(t, i) /\ InRs(t, j) => i = j
    BY <1>1 DEF Alone, AloneInRs
  <2> QED BY <2>1, <2>2, <2>3, <1>2
<1>4. ASSUME NEW t \in RobTag, NEW i \in RsIndex, InRs(t, i)', InAlu(t)' PROVE FALSE
  <2>1. PICK j \in RsIndex : Leaves(j) /\ InRs(t, j)
    BY <1>1, <1>4, StationAfter
  <2>2. (InRs(t, i) /\ ~Arrives(i) /\ ~Leaves(i)) \/ (Arrives(i) /\ Enters(t))
    BY <1>1, <1>4, StationAfter
  <2>3. InRs(t, i) => i = j
    BY <1>1, <2>1 DEF Alone, AloneInRs
  <2> QED BY <2>1, <2>2, <2>3, <1>2
<1>5. ASSUME NEW s \in RobTag, NEW t \in RobTag, NEW i \in LsbIndex, NEW j \in LsbIndex,
             InLsb(s, i)', InLsb(t, j)', Place(i)' < Place(j)'
      PROVE  RobAge(s)' < RobAge(t)'
  <2>0. /\ Place(i) \in Nat /\ Place(j) \in Nat /\ Length' \in Nat
        /\ Place(i)' \in Nat /\ Place(j)' \in Nat
        /\ RobAge(s) \in Nat /\ RobAge(t) \in Nat /\ RobAge(s)' \in Nat /\ RobAge(t)' \in Nat
        /\ QueueStays(i) => Place(i)' = IF Issuing THEN Place(i) - 1 ELSE Place(i)
        /\ QueueStays(j) => Place(j)' = IF Issuing THEN Place(j) - 1 ELSE Place(j)
        /\ QueueEnters(i) => Place(i)' = Length'
        /\ Queued(j)' => Place(j)' <= Length'
        /\ Flying(s) \/ Enters(s) => RobAge(s)' = IF Committing THEN RobAge(s) - 1 ELSE RobAge(s)
        /\ Flying(t) \/ Enters(t) => RobAge(t)' = IF Committing THEN RobAge(t) - 1 ELSE RobAge(t)
    <3>1. Length' \in Nat
      BY <1>1 DEF QueueMoves
    <3> QED BY <3>1, <1>1 DEF QueueMoves, RobMoves
  <2>1. /\ \/ QueueStays(i) /\ InLsb(s, i) /\ (lsb_entry[i].store => ~Hit(i))
           \/ QueueEnters(i) /\ s = TailNext
        /\ \/ QueueStays(j) /\ InLsb(t, j) /\ (lsb_entry[j].store => ~Hit(j))
           \/ QueueEnters(j) /\ t = TailNext
    BY <1>1, <1>5, LiveBefore
  <2>2. Queued(j)'
    BY <1>5 DEF InLsb, Live
  <2>3. ~QueueEnters(i)
    <3>1. ASSUME QueueEnters(i) PROVE FALSE
      BY <3>1, <2>0, <2>2, <1>5
    <3> QED BY <3>1
  <2>4. Flying(s) /\ InLsb(s, i) /\ QueueStays(i)
    BY <2>1, <2>3, <1>1, LiveFlies
  <2>5. CASE QueueEnters(j) /\ t = TailNext
    <3>1. Enters(t)
      BY <1>1, <2>5 DEF QueueEnters, Enters, Presents
    <3>2. RobAge(s) < RobAge(t)
      BY <1>1, <2>4, <3>1 DEF RobMoves
    <3> QED BY <2>0, <2>4, <3>1, <3>2
  <2>6. CASE QueueStays(j) /\ InLsb(t, j) /\ (lsb_entry[j].store => ~Hit(j))
    <3>1. Flying(t)
      BY <2>6, <1>1, LiveFlies
    <3>2. Place(i) < Place(j)
      BY <2>0, <2>4, <2>6, <1>5
    <3>3. RobAge(s) < RobAge(t)
      BY <3>2, <2>4, <2>6, <1>1 DEF Alone, InOrder
    <3> QED BY <2>0, <2>4, <3>1, <3>3
  <2> QED BY <2>1, <2>5, <2>6
<1>6. ASSUME NEW t \in RobTag, NEW i \in LsbIndex, InLsb(t, i)', Loading(t)' \/ Loaded(t)' PROVE FALSE
  <2>1. \/ Loading(t)
        \/ Issuing /\ InLsb(t, LsbHead) /\ ~First.store
    BY <1>1, <1>6, LoadingBefore
  <2>2. Flying(t)
    <3>1. OfLoad(t)
      BY <1>1, <1>6, LoadingBefore
    <3> QED BY <3>1 DEF OfLoad, Unfinished
  <2>3. QueueStays(i) /\ InLsb(t, i)
    <3>1. QueueEnters(i) /\ t = TailNext => Enters(t)
      BY <1>1 DEF QueueEnters, Enters, Presents
    <3> QED BY <3>1, <2>2, <1>1, <1>6, <1>2, LiveBefore
  <2>4. Issuing /\ InLsb(t, LsbHead)
    BY <2>1, <2>3, <1>1 DEF Alone, AloneInLsb
  <2>5. Place(LsbHead) = 1 /\ LsbHead \in LsbIndex /\ Place(i) \in Nat /\ Place(i) >= 1 /\ (Place(i) = 1 => i = LsbHead) /\ RobAge(t) \in Nat
    <3>1. Queued(i)
      BY <2>3 DEF QueueStays
    <3> QED BY <3>1, <1>1 DEF QueueMoves, RobMoves
  <2>6. Place(LsbHead) < Place(i)
    BY <2>3, <2>4, <2>5 DEF QueueStays
  <2>7. RobAge(t) < RobAge(t)
    BY <2>3, <2>4, <2>5, <2>6, <1>1 DEF Alone, InOrder
  <2> QED BY <2>5, <2>7
<1>7. lsb_out'.broadcast => lsb_status' = "IDLE"
  BY <1>1 DEF LsbTells, Asks, Reports, Ends, Remains
<1>8. AloneInRs' /\ AloneInAlu' /\ OneLoad'
  BY <1>3, <1>4, <1>7 DEF AloneInRs, AloneInAlu, OneLoad
<1>9. InOrder' /\ AloneInLsb'
  BY <1>5, <1>6 DEF InOrder, AloneInLsb
<1> QED BY <1>8, <1>9 DEF Alone

\* An access keeps the operands it has.
LEMMA KeepsOperands ==
  ASSUME NEW mc, QueueWorks(mc), NEW i \in LsbIndex, QueueStays(i)
  PROVE  /\ CanRun(lsb_entry[i]) => CanRun(lsb_entry'[i])
         /\ LoadStoreBuffer!IoLoad(lsb_entry[i]) /\ lsb_entry[i].Qj = NULL_TAG
              => LoadStoreBuffer!IoLoad(lsb_entry'[i]) /\ lsb_entry'[i].Qj = NULL_TAG
<1> DEFINE fin == Finishing(mc) /\ lsb_status = "LOAD"
<1>1. /\ lsb_entry'[i].store = lsb_entry[i].store
      /\ lsb_entry'[i].imm = lsb_entry[i].imm
      /\ lsb_entry'[i].Qj = StillMissing(lsb_entry[i].Qj, fin)
      /\ lsb_entry'[i].Qk = StillMissing(lsb_entry[i].Qk, fin)
      /\ lsb_entry[i].Qj = NULL_TAG => lsb_entry'[i].Vj = lsb_entry[i].Vj
  BY DEF QueueWorks, QueueSlotAfter
<1> HIDE DEF fin
<1>2. StillMissing(NULL_TAG, fin) = NULL_TAG
  BY DEF StillMissing
<1>3. lsb_entry[i].Qj = NULL_TAG => LoadStoreBuffer!Address(lsb_entry'[i]) = LoadStoreBuffer!Address(lsb_entry[i])
  BY <1>1 DEF LoadStoreBuffer!Address
<1> QED BY <1>1, <1>2, <1>3 DEF CanRun, LoadStoreBuffer!NeedsCommit, LoadStoreBuffer!IoLoad

\* The load that the reorder buffer releases, or is about to hear of, is at the
\* head of the queue and waits there.
LEMMA AnnouncedFirst ==
  ASSUME NEW mc, Works(mc), NEW t \in RobTag, Announced(t)
  PROVE  /\ QueueStays(LsbHead) /\ ~Issuing /\ ~Noticing /\ Due = 0
         /\ lsb_entry[LsbHead].rob_tag = t /\ ~lsb_entry[LsbHead].store
         /\ ~lsb_entry'[LsbHead].commit_flag
         /\ CanRun(lsb_entry[LsbHead])
         /\ LoadStoreBuffer!IoLoad(lsb_entry[LsbHead]) /\ lsb_entry[LsbHead].Qj = NULL_TAG
         /\ lsb_noticed'
<1>1. QueueMoves /\ CommittedFirst /\ LsbWhy /\ LsbTells(mc) /\ QueueWorks(mc)
  BY DEF Works, QueueWorks
<1>2. PICK i \in LsbIndex :
       /\ Queued(i) /\ Place(i) = 1
       /\ lsb_entry[i].rob_tag = t /\ ~lsb_entry[i].commit_flag
       /\ LoadStoreBuffer!IoLoad(lsb_entry[i]) /\ lsb_entry[i].Qj = NULL_TAG
  BY DEF Announced
<1>3. lsb_noticed /\ ~rob_out.commit_lsb
  BY DEF Announced
<1>4. i = LsbHead
  BY <1>1, <1>2 DEF QueueMoves
<1>5. Due = 0
  <2>1. ~(Place(i) <= lsb_cnt)
    BY <1>1, <1>2 DEF CommittedFirst
  <2>2. lsb_cnt \in Nat /\ Due = lsb_cnt
    BY <1>1, <1>3 DEF QueueMoves
  <2> QED BY <2>1, <2>2, <1>2
<1>6. ~Issuing
  BY <1>1, <1>2, <1>4 DEF LsbWhy, First
<1>7. ~Noticing
  BY <1>1, <1>3 DEF LsbWhy
<1>8. lsb_noticed'
  BY <1>1, <1>3, <1>6, <1>7 DEF LsbTells, Ends, Remains
<1>9. QueueStays(i)
  BY <1>2, <1>6 DEF QueueStays
<1>10. ~lsb_entry'[i].commit_flag
  BY <1>1, <1>2, <1>3, <1>9 DEF QueueWorks, QueueSlotAfter, Hit
<1>11. ~lsb_entry[i].store /\ CanRun(lsb_entry[i])
  BY <1>2 DEF LoadStoreBuffer!IoLoad, CanRun, LoadStoreBuffer!NeedsCommit
<1> QED BY <1>2, <1>4, <1>5, <1>6, <1>7, <1>8, <1>9, <1>10, <1>11

\* The access that the pulse of the next cycle is for.
PulseFor(i) ==
  /\ QueueStays(i) /\ Place(i) = Due + 1 /\ (Issuing => Running)
  /\ CanRun(lsb_entry'[i])
  /\ IF Committing
       THEN PendingStore(i)'
       ELSE /\ ~lsb_entry'[i].store /\ Due = 0 /\ ~Issuing /\ lsb_noticed'
            /\ lsb_entry'[i].rob_tag = HeadNext

\* When the reorder buffer pulses the load store buffer, the access of the pulse is
\* queued, right behind those already committed.
LEMMA NextPulse ==
  ASSUME NEW mc, Works(mc), LsbType, rob_out'.commit_lsb
  PROVE  \E i \in LsbIndex : PulseFor(i)
<1>1. /\ QueueMoves /\ QueueWorks(mc) /\ RobMoves /\ RobTells /\ OperandsInLsb /\ Marks /\ Silent
  BY DEF Works, QueueWorks, RobWorks, Scheduled
<1>2. (Committing /\ Op(HeadNext) = "STORE") \/ Releasing
  BY <1>1 DEF RobTells
<1>3. CASE Committing /\ Op(HeadNext) = "STORE"
  <2>1. Issuing => Running
    BY <1>3, StoreFound
  <2>2. PICK i \in LsbIndex : /\ InLsb(HeadNext, i) /\ lsb_entry[i].store /\ ~Hit(i)
                              /\ Place(i) = Due + 1 /\ QueueStays(i)
    BY <1>3, StoreFound
  <2>3. Queued(i) /\ lsb_entry[i].rob_tag = HeadNext /\ HeadNext \in RobTag
    BY <2>2, <1>1 DEF InLsb, Live, RobMoves
  <2> DEFINE fin == Finishing(mc) /\ lsb_status = "LOAD"
  <2>4. ASSUME NEW q \in RobTag, LsbNeeds(q, i) PROVE Committed(q)
    <3>1. Waits(q, HeadNext)
      BY <2>3, <2>4, <1>1 DEF OperandsInLsb
    <3>2. RobAge(q) \in Nat /\ RobAge(q) < RobAge(HeadNext) /\ RobAge(HeadNext) = 1
      BY <3>1, <1>1 DEF Waits, RobMoves
    <3>3. RobAge(q) = 0
      BY <3>2
    <3>4. q = rob_head /\ ~Flying(q)
      BY <3>3, <1>1 DEF RobMoves
    <3> QED BY <3>1, <3>4 DEF Waits
  <2>5. lsb_entry[i].Qj \in Tag /\ lsb_entry[i].Qk \in Tag
    BY DEF LsbType, LsbEntry
  <2>6. /\ lsb_entry'[i].store /\ lsb_entry'[i].rob_tag = HeadNext
        /\ lsb_entry'[i].Qj = StillMissing(lsb_entry[i].Qj, fin)
        /\ lsb_entry'[i].Qk = StillMissing(lsb_entry[i].Qk, fin)
    BY <2>2, <2>3, <1>1 DEF QueueWorks, QueueSlotAfter
  <2> HIDE DEF fin
  <2>7. lsb_entry'[i].Qj = NULL_TAG /\ lsb_entry'[i].Qk = NULL_TAG
    <3>1. \A q \in Tag : q = NULL_TAG \/ q \in RobTag
      BY DEF Tag
    <3>2. lsb_entry[i].Qj = NULL_TAG \/ Committed(lsb_entry[i].Qj)
      BY <2>4, <2>5, <3>1 DEF LsbNeeds
    <3>3. lsb_entry[i].Qk = NULL_TAG \/ Committed(lsb_entry[i].Qk)
      BY <2>2, <2>4, <2>5, <3>1 DEF LsbNeeds
    <3> QED BY <2>6, <3>2, <3>3 DEF StillMissing
  <2>8. CanRun(lsb_entry'[i])
    BY <2>6, <2>7 DEF CanRun, LoadStoreBuffer!NeedsCommit
  <2>9. PendingStore(i)'
    <3>1. Place(i)' = lsb_cnt' + 1
      <4>1. /\ Place(i)' = IF Issuing THEN Place(i) - 1 ELSE Place(i)
            /\ lsb_cnt' = IF Running THEN Due - 1 ELSE Due
            /\ Due \in Nat /\ (Running => Issuing)
        BY <1>1, <2>2 DEF QueueMoves
      <4> QED BY <4>1, <2>1, <2>2
    <3>2. rob_out'.commit_lsb /\ rob_out'.commit /\ rob_head' = HeadNext
      BY <1>1, <1>3 DEF RobTells, RobMoves
    <3> QED BY <2>6, <3>1, <3>2 DEF PendingStore
  <2> QED BY <2>1, <2>2, <2>8, <2>9, <1>3 DEF PulseFor
<1>4. CASE Releasing
  <2>1. Flying(HeadNext) /\ HeadNext \in RobTag /\ ~Committing /\ rob_entry[HeadNext].is_io_load
    BY <1>1, <1>4 DEF RobMoves, Releasing
  <2>2. Announced(HeadNext)
    BY <1>1, <2>1 DEF Marks
  <2>3. /\ QueueStays(LsbHead) /\ ~Issuing /\ Due = 0
        /\ lsb_entry[LsbHead].rob_tag = HeadNext /\ ~lsb_entry[LsbHead].store
        /\ CanRun(lsb_entry[LsbHead]) /\ lsb_noticed'
    BY <2>1, <2>2, AnnouncedFirst
  <2>4. LsbHead \in LsbIndex /\ Place(LsbHead) = 1
    BY <1>1 DEF QueueMoves
  <2>5. CanRun(lsb_entry'[LsbHead])
    BY <1>1, <2>3, <2>4, KeepsOperands
  <2>6. ~lsb_entry'[LsbHead].store /\ lsb_entry'[LsbHead].rob_tag = HeadNext
    BY <1>1, <2>3, <2>4 DEF QueueWorks, QueueSlotAfter
  <2>7. PulseFor(LsbHead)
    BY <2>1, <2>3, <2>4, <2>5, <2>6 DEF PulseFor
  <2> QED BY <2>4, <2>7
<1> QED BY <1>2, <1>3, <1>4

\* The committed and released accesses stay the oldest, with their operands.
LEMMA CommittedFirstStep ==
  ASSUME NEW mc, CommittedFirst, QueueWorks(mc), Presents, rob_out.commit_lsb \in BOOLEAN,
         rob_out'.commit_lsb => \E i \in LsbIndex : QueueStays(i) /\ Place(i) = Due + 1 /\ (Issuing => Running)
                                                    /\ CanRun(lsb_entry'[i])
  PROVE  CommittedFirst'
<1>1. QueueMoves
  BY DEF QueueWorks
<1>2. /\ lsb_cnt \in Nat /\ Length \in Nat /\ Due \in Nat /\ Due <= Length
      /\ Due = IF rob_out.commit_lsb THEN lsb_cnt + 1 ELSE lsb_cnt
      /\ lsb_cnt' = IF Running THEN Due - 1 ELSE Due
      /\ Length' = Length + (IF Decoded.to_lsb THEN 1 ELSE 0) - (IF Issuing THEN 1 ELSE 0)
      /\ Running => Issuing /\ Due >= 1
      /\ Issuing /\ ~Running => Due = 0
      /\ Issuing => Length >= 1
  BY <1>1 DEF QueueMoves
<1>3. lsb_cnt' <= Length'
  BY <1>2
<1>4. rob_out'.commit_lsb => lsb_cnt' < Length' /\ Due + 1 <= Length /\ (Issuing => Running)
  <2>1. ASSUME rob_out'.commit_lsb PROVE Due + 1 <= Length /\ (Issuing => Running)
    BY <2>1, <1>1 DEF QueueMoves, QueueStays
  <2> QED BY <2>1, <1>2
<1>5. ASSUME NEW i \in LsbIndex, Queued(i)'
      PROVE  /\ lsb_entry'[i].commit_flag <=> Place(i)' <= lsb_cnt'
             /\ Place(i)' <= lsb_cnt' => CanRun(lsb_entry'[i])
             /\ rob_out'.commit_lsb /\ Place(i)' = lsb_cnt' + 1 => CanRun(lsb_entry'[i])
  <2>0. QueueStays(i) \/ QueueEnters(i)
    BY <1>1, <1>5 DEF QueueMoves
  <2>1. CASE QueueStays(i)
    <3>1. /\ Queued(i) /\ Place(i) \in Nat /\ Place(i) >= 1
          /\ Place(i)' = (IF Issuing THEN Place(i) - 1 ELSE Place(i))
          /\ lsb_entry'[i].commit_flag <=> lsb_entry[i].commit_flag \/ Hit(i)
          /\ Issuing => Place(i) # 1
      BY <1>1, <2>1 DEF QueueMoves, QueueWorks, QueueSlotAfter, QueueStays
    <3>2. /\ lsb_entry[i].commit_flag <=> Place(i) <= lsb_cnt
          /\ Place(i) <= lsb_cnt => CanRun(lsb_entry[i])
          /\ rob_out.commit_lsb /\ Place(i) = lsb_cnt + 1 => CanRun(lsb_entry[i])
      BY <3>1 DEF CommittedFirst
    <3>3. Place(i) <= Due <=> Place(i) <= lsb_cnt \/ Hit(i)
      BY <1>2, <3>1 DEF Hit
    <3>4. Place(i)' <= lsb_cnt' <=> Place(i) <= Due
      BY <1>2, <3>1
    <3>5. lsb_entry'[i].commit_flag <=> Place(i)' <= lsb_cnt'
      BY <3>1, <3>2, <3>3, <3>4
    <3>6. CanRun(lsb_entry[i]) => CanRun(lsb_entry'[i])
      BY <2>1, KeepsOperands
    <3>7. Place(i)' <= lsb_cnt' => CanRun(lsb_entry'[i])
      BY <3>2, <3>3, <3>4, <3>6 DEF Hit
    <3>8. ASSUME rob_out'.commit_lsb, Place(i)' = lsb_cnt' + 1 PROVE CanRun(lsb_entry'[i])
      <4>1. PICK j \in LsbIndex : QueueStays(j) /\ Place(j) = Due + 1 /\ (Issuing => Running) /\ CanRun(lsb_entry'[j])
        BY <3>8
      <4>2. Place(i) = Due + 1
        BY <3>1, <3>8, <4>1, <1>2
      <4>3. i = j
        BY <4>1, <4>2, <1>1 DEF QueueMoves
      <4> QED BY <4>1, <4>3
    <3> QED BY <3>5, <3>7, <3>8
  <2>2. CASE QueueEnters(i)
    <3>1. Place(i)' = Length' /\ Decoded.to_lsb /\ ~lsb_entry'[i].commit_flag
      BY <1>1, <2>2 DEF QueueMoves, QueueWorks, QueueSlotAfter, QueueEnters
    <3>2. ~(Place(i)' <= lsb_cnt')
      BY <1>2, <3>1
    <3>3. rob_out'.commit_lsb => Place(i)' # lsb_cnt' + 1
      BY <1>2, <1>4, <3>1
    <3> QED BY <3>1, <3>2, <3>3
  <2> QED BY <2>0, <2>1, <2>2
<1> QED BY <1>3, <1>4, <1>5 DEF CommittedFirst

\* A commit or release pulse finds the access it is meant for.
LEMMA CommitPendingStep ==
  ASSUME NEW mc, Works(mc), LsbType
  PROVE  CommitPending'
<1>1. /\ QueueMoves /\ RobMoves /\ RobTells
  BY DEF Works, QueueWorks, RobWorks
<1>2. ASSUME rob_out'.commit_lsb, NEW i \in LsbIndex, Queued(i)', Place(i)' = lsb_cnt' + 1
      PROVE  IF rob_out'.commit
               THEN PendingStore(i)'
               ELSE /\ ~lsb_entry'[i].store /\ lsb_cnt' = 0 /\ lsb_noticed'
                    /\ \A t \in RobTag : lsb_entry'[i].rob_tag = t => RobAge(t)' = 1
  <2>1. PICK j \in LsbIndex : PulseFor(j)
    BY <1>2, NextPulse
  <2>2. Place(j)' = lsb_cnt' + 1
    <3>1. /\ Place(j)' = IF Issuing THEN Place(j) - 1 ELSE Place(j)
          /\ lsb_cnt' = IF Running THEN Due - 1 ELSE Due
          /\ Due \in Nat /\ (Running => Issuing)
      BY <1>1, <2>1 DEF QueueMoves, PulseFor
    <3> QED BY <3>1, <2>1 DEF PulseFor
  <2>3. i = j
    BY <1>1, <1>2, <2>2 DEF QueueMoves
  <2>4. rob_out'.commit <=> Committing
    BY <1>1 DEF RobTells
  <2>5. CASE Committing
    BY <2>1, <2>3, <2>4, <2>5 DEF PulseFor
  <2>6. CASE ~Committing
    <3>1. ~lsb_entry'[i].store /\ Due = 0 /\ ~Issuing /\ lsb_noticed' /\ lsb_entry'[i].rob_tag = HeadNext
      BY <2>1, <2>3, <2>6 DEF PulseFor
    <3>2. lsb_cnt' = 0
      BY <1>1, <3>1 DEF QueueMoves, Running
    <3>3. Flying(HeadNext) /\ HeadNext \in RobTag /\ RobAge(HeadNext) = 1
      BY <1>1, <1>2, <2>6 DEF RobTells, RobMoves
    <3>4. \A t \in RobTag : t = HeadNext => RobAge(t)' = 1
      BY <1>1, <2>6, <3>3 DEF RobMoves
    <3>5. \A t \in RobTag : lsb_entry'[i].rob_tag = t => RobAge(t)' = 1
      BY <3>1, <3>4
    <3> QED BY <2>4, <2>6, <3>1, <3>2, <3>5
  <2> QED BY <2>5, <2>6
<1> QED BY <1>2 DEF CommitPending

\* What is released after the cycle was released in it or before, and nothing commits meanwhile.
Inputs ==
  /\ \A i \in LsbIndex : Queued(i) /\ lsb_entry[i].commit_flag => lsb_entry[i].store
  /\ ~(lsb_status = "LOAD" /\ IsIo(lsb_current_address))

\* What is released is an input at the head of the queue, also after the cycle.
LEMMA ReleasedStep ==
  ASSUME NEW mc, Works(mc), Tags', OneLoad'
  PROVE  /\ Released'
         /\ Committing => Inputs'
<1>1. /\ QueueMoves /\ RobMoves /\ Owned /\ Released /\ CommitPending /\ LsbWhy /\ QueueWorks(mc) /\ RobWorks /\ Alone
  BY DEF Works, QueueWorks, RobWorks, Scheduled
<1>2. ASSUME NEW t \in RobTag, NEW i \in LsbIndex, Queued(i), lsb_entry[i].rob_tag = t, ~lsb_entry[i].store,
             lsb_entry[i].commit_flag \/ Hit(i)
      PROVE  RobAge(t) = 1 /\ OfLoad(t) /\ ~Committing
  <2>1. RobAge(t) = 1
    BY <1>1, <1>2 DEF Released, CommitPending, PendingStore, Hit
  <2>2. OfLoad(t)
    BY <1>1, <1>2, LiveFlies DEF InLsb, Live
  <2> QED BY <1>1, <2>1, <2>2, StaysUnfinished
<1>3. ASSUME NEW t \in RobTag, RobAge(t) = 1, OfLoad(t), ~Committing PROVE RobAge(t)' = 1
  BY <1>1, <1>3 DEF RobMoves, OfLoad, Unfinished
<1>4. ASSUME NEW i \in LsbIndex, Queued(i)', lsb_entry'[i].commit_flag, ~lsb_entry'[i].store
      PROVE  ~Committing /\ \A t \in RobTag : lsb_entry'[i].rob_tag = t => RobAge(t)' = 1
  <2>1. QueueStays(i) \/ QueueEnters(i)
    BY <1>1, <1>4 DEF QueueMoves
  <2>2. ~QueueEnters(i)
    BY <1>1, <1>4 DEF QueueWorks, QueueSlotAfter
  <2>3. /\ Queued(i) /\ ~lsb_entry[i].store
        /\ lsb_entry'[i].rob_tag = lsb_entry[i].rob_tag
        /\ lsb_entry[i].commit_flag \/ Hit(i)
    BY <1>1, <1>4, <2>1, <2>2 DEF QueueWorks, QueueSlotAfter
  <2>4. lsb_entry[i].rob_tag \in RobTag
    BY <2>3 DEF Works, Tags
  <2> QED BY <1>2, <1>3, <2>3, <2>4
<1>5. LoadStoreBuffer!IsIo(lsb_current_address') <=> IsIo(lsb_current_address')
  BY LsbNames
<1>6. ASSUME NEW t \in RobTag, Loading(t)', IsIo(lsb_current_address') PROVE ~Committing /\ RobAge(t)' = 1
  <2>1. CASE Loading(t) /\ lsb_current_address' = lsb_current_address
    <3>1. RobAge(t) = 1
      BY <1>1, <1>6, <2>1 DEF Released
    <3>2. OfLoad(t)
      BY <1>1, <2>1 DEF Owned, OwnedByLoad
    <3>3. ~Committing
      BY <1>1, <3>1, <3>2, StaysUnfinished
    <3> QED BY <3>1, <3>2, <3>3, <1>3
  <2>2. CASE Issuing /\ InLsb(t, LsbHead) /\ ~First.store /\ lsb_current_address' = LoadStoreBuffer!Address(First)
    <3>1. LoadStoreBuffer!IoLoad(First)
      BY <1>5, <1>6, <2>2 DEF LoadStoreBuffer!IoLoad
    <3>2. First.commit_flag
      BY <1>1, <2>2, <3>1 DEF LsbWhy
    <3>3. LsbHead \in LsbIndex /\ Queued(LsbHead) /\ lsb_entry[LsbHead].rob_tag = t
          /\ lsb_entry[LsbHead].commit_flag /\ ~lsb_entry[LsbHead].store
      BY <1>1, <2>2, <3>2 DEF QueueMoves, InLsb, Live, First
    <3> QED BY <3>3, <1>2, <1>3
  <2> QED BY <1>1, <1>6, <2>1, <2>2, LoadingBefore
<1>7. Released'
  BY <1>4, <1>6 DEF Released
<1>8. Committing => Inputs'
  <2>2. ASSUME Committing, lsb_status' = "LOAD", IsIo(lsb_current_address') PROVE FALSE
    <3>1. PICK t \in RobTag : lsb_current_tag' = t
      BY <2>2 DEF Tags
    <3>2. Loading(t)'
      BY <2>2, <3>1 DEF Loading
    <3> QED BY <2>2, <3>2, <1>6
  <2> QED BY <1>4, <2>2 DEF Inputs
<1> QED BY <1>7, <1>8

\* A load the reorder buffer knows to read input waits at the head of the queue.
LEMMA MarksStep ==
  ASSUME NEW mc, Works(mc), LsbType
  PROVE  Marks'
<1>1. /\ QueueMoves /\ RobMoves /\ RobTells /\ LsbWhy /\ QueueWorks(mc) /\ RobWorks /\ Marks /\ CommitPending /\ LsbTells(mc)
      /\ CommittedFirst /\ Unmarked
  BY DEF Works, QueueWorks, RobWorks, Scheduled
<1>2. LsbHead \in LsbIndex /\ Place(LsbHead) = 1
  BY <1>1 DEF QueueMoves
<1>3. ASSUME NEW t \in RobTag, QueueStays(LsbHead), ~Issuing, Due = 0,
             lsb_entry[LsbHead].rob_tag = t,
             ~lsb_entry'[LsbHead].commit_flag,
             LoadStoreBuffer!IoLoad(lsb_entry[LsbHead]), lsb_entry[LsbHead].Qj = NULL_TAG,
             lsb_noticed', Releasing => HeadNext # t /\ Announced(HeadNext)
      PROVE  Announced(t)'
  <2>1. ~rob_out'.commit_lsb
    <3>1. CASE Releasing
      <4>1. lsb_entry[LsbHead].rob_tag = HeadNext
        BY <1>1, <1>3, <3>1, AnnouncedFirst DEF RobMoves
      <4> QED BY <1>3, <3>1, <4>1
    <3>2. CASE Committing /\ Op(HeadNext) = "STORE"
      <4>1. PICK i \in LsbIndex : lsb_entry[i].store /\ Place(i) = Due + 1
        BY <3>2, StoreFound
      <4>2. Place(i) = 1
        BY <4>1, <1>3
      <4>3. i = LsbHead
        BY <4>2, <1>1 DEF QueueMoves
      <4> QED BY <4>1, <4>3, <1>3 DEF LoadStoreBuffer!IoLoad
    <3> QED BY <3>1, <3>2, <1>1 DEF RobTells
  <2>2. PICK h \in LsbIndex : h = LsbHead
    BY <1>2
  <2>3. Queued(h)' /\ Place(h)' = 1
    BY <1>1, <1>2, <1>3, <2>2 DEF QueueMoves
  <2>4. LoadStoreBuffer!IoLoad(lsb_entry'[h]) /\ lsb_entry'[h].Qj = NULL_TAG
    BY <1>1, <1>2, <1>3, <2>2, KeepsOperands
  <2>5. lsb_entry'[h].rob_tag = t /\ ~lsb_entry'[h].commit_flag
    BY <1>1, <1>2, <1>3, <2>2 DEF QueueWorks, QueueSlotAfter
  <2> QED BY <2>1, <2>3, <2>4, <2>5, <1>3 DEF Announced
<1>4. Releasing => Announced(HeadNext)
  BY <1>1 DEF RobMoves, Marks, Releasing
<1>5. ASSUME NEW t \in RobTag, Announced(t), ~(Releasing /\ t = HeadNext) PROVE Announced(t)'
  BY <1>3, <1>4, <1>5, AnnouncedFirst
<1>6. ASSUME NEW t \in RobTag, Marked(t)' PROVE Announced(t)'
  <2>1. lsb_out'.mark_as_io_load /\ lsb_out'.io_load_tag = t
    BY <1>6 DEF Marked
  <2>2. Noticing /\ ~Issuing /\ First.rob_tag = t /\ lsb_noticed'
    BY <1>1, <2>1 DEF LsbTells, Asks, Reports, Ends, Remains
  <2>3. First.Qj = NULL_TAG /\ LoadStoreBuffer!IoLoad(First) /\ ~First.commit_flag /\ ~lsb_noticed
    BY <1>1, <2>2 DEF LsbWhy
  <2>4. Queued(LsbHead) /\ QueueStays(LsbHead)
    BY <1>1, <2>2 DEF QueueMoves, QueueStays
  <2>5. ~First.store
    BY <2>3 DEF LoadStoreBuffer!IoLoad
  <2>6. ~Hit(LsbHead)
    BY <1>1, <1>2, <2>3, <2>4, <2>5 DEF Hit, CommitPending, PendingStore, First
  <2>7. Due = 0
    <3>1. ~(1 <= lsb_cnt)
      BY <1>1, <1>2, <2>3, <2>4 DEF CommittedFirst, First
    <3>2. lsb_cnt \in Nat /\ Due = IF rob_out.commit_lsb THEN lsb_cnt + 1 ELSE lsb_cnt
      BY <1>1 DEF QueueMoves
    <3>3. lsb_cnt = 0
      BY <3>1, <3>2
    <3> QED BY <3>2, <3>3, <2>6, <1>2 DEF Hit
  <2>8. ~lsb_entry'[LsbHead].commit_flag
    BY <1>1, <1>2, <2>3, <2>4, <2>6 DEF QueueWorks, QueueSlotAfter, First
  <2>9. ~Releasing
    BY <1>4, <2>3 DEF Announced
  <2> QED BY <1>3, <2>2, <2>3, <2>4, <2>7, <2>8, <2>9 DEF First
<1>7. ASSUME NEW t \in RobTag, Flying(t)', rob_entry'[t].is_io_load PROVE Announced(t)'
  <2>1. CASE Stays(t)
    <3>1. Flying(t) /\ (rob_entry[t].is_io_load \/ Marked(t)) /\ ~(Releasing /\ t = HeadNext)
      BY <1>1, <1>7, <2>1 DEF RobWorks, SlotAfter, Stays
    <3> QED BY <1>1, <1>5, <3>1 DEF Marks
  <2>2. CASE Enters(t)
    <3>1. rob_entry[t].is_io_load /\ ~Flying(t)
      BY <1>1, <1>7, <2>2 DEF RobWorks, SlotAfter, RobMoves
    <3> QED BY <1>1, <3>1 DEF Unmarked
  <2> QED BY <1>1, <1>7, <2>1, <2>2 DEF RobMoves
<1> QED BY <1>6, <1>7 DEF Marks

\* A slot is given up without a mark.
LEMMA UnmarkedStep ==
  ASSUME NEW mc, Works(mc)
  PROVE  Unmarked'
<1>1. RobMoves /\ RobWorks /\ Marks /\ Unmarked /\ Owned /\ QueueMoves
  BY DEF Works, RobWorks, QueueWorks, Scheduled
<1>2. ASSUME NEW t \in RobTag, ~Flying(t)' PROVE ~rob_entry'[t].is_io_load
  <2>1. rob_entry'[t].is_io_load <=> (rob_entry[t].is_io_load \/ (Flying(t) /\ Marked(t)))
    BY <1>1, <1>2 DEF RobWorks, SlotAfter
  <2>2. CASE ~Flying(t)
    BY <1>1, <2>1, <2>2 DEF Unmarked
  <2>3. CASE Flying(t)
    <3>1. Committing /\ t = HeadNext
      BY <1>1, <1>2, <2>3 DEF RobMoves, Stays
    <3>2. ~Announced(t)
      <4>1. ASSUME Announced(t) PROVE FALSE
        <5>1. PICK i \in LsbIndex : Queued(i) /\ lsb_entry[i].rob_tag = t /\ LoadStoreBuffer!IoLoad(lsb_entry[i])
          BY <4>1 DEF Announced
        <5>2. ~lsb_entry[i].store
          BY <5>1 DEF LoadStoreBuffer!IoLoad
        <5>3. InLsb(t, i)
          BY <5>1, <5>2 DEF InLsb, Live
        <5>4. OfLoad(t)
          BY <1>1, <5>2, <5>3, LiveFlies
        <5> QED BY <1>1, <3>1, <5>4, StaysUnfinished DEF RobMoves
      <4> QED BY <4>1
    <3> QED BY <1>1, <2>1, <2>3, <3>2 DEF Marks
  <2> QED BY <2>2, <2>3
<1> QED BY <1>2 DEF Unmarked

\* Who waits for a result that has not come goes on waiting, until its commit at the latest.
LEMMA WaitsOn ==
  ASSUME RobWorks, NEW q \in RobTag, NEW t \in RobTag, Flying(q),
         \/ Flying(t) /\ RobAge(q) < RobAge(t)
         \/ Enters(t)
  PROVE  Waits(q, t)'
<1>1. RobMoves /\ RobTells
  BY DEF RobWorks
<1>2. /\ RobAge(q) \in Nat /\ RobAge(t) \in Nat /\ RobAge(q) < RobAge(t)
      /\ RobAge(q)' = IF Committing THEN RobAge(q) - 1 ELSE RobAge(q)
      /\ RobAge(t)' = IF Committing THEN RobAge(t) - 1 ELSE RobAge(t)
  BY <1>1 DEF RobMoves
<1>3. RobAge(q)' < RobAge(t)'
  BY <1>2
<1>4. Flying(q)' \/ Committed(q)'
  BY <1>1 DEF RobMoves, RobTells, Stays, Committed
<1> QED BY <1>3, <1>4 DEF Waits

\* The producer of an operand that the decoder hands on without a value is in
\* the reorder buffer, unless it commits in this cycle.
LEMMA ProducerFlies ==
  ASSUME NEW mc, Works(mc), NEW q \in RobTag, q = Decoded.Qj \/ q = Decoded.Qk, ~Committed(q)
  PROVE  Flying(q)
<1>1. PICK r \in RegIndex : rf_busy[r] /\ rf_rob_tag[r] = q
  BY DEF Works, Presents
<1>2. Names /\ Signals
  BY DEF Works, Scheduled
<1>3. r # 0
  BY <1>1, <1>2 DEF Names
<1>4. NamesYoungest(r) \/ NamesNone(r)
  BY <1>2, <1>3 DEF Names
<1>5. CASE NamesYoungest(r)
  BY <1>1, <1>5 DEF NamesYoungest, Writes
<1>6. CASE NamesNone(r)
  BY <1>1, <1>2, <1>6 DEF NamesNone, Signals, Committed
<1> QED BY <1>4, <1>5, <1>6

\* An operand the station waits for is still to come, also after the cycle.
LEMMA OperandsInRsStep ==
  ASSUME NEW mc, Works(mc)
  PROVE  OperandsInRs'
<1>1. /\ StationMoves /\ Presents /\ RobWorks /\ OperandsInRs /\ Owned /\ Silent
  BY DEF Works, Scheduled
<1>2. ASSUME NEW q \in RobTag, NEW t \in RobTag, NEW i \in RsIndex, InRs(t, i)', RsNeeds(q, i)'
      PROVE  Waits(q, t)'
  <2>0. q # NULL_TAG
    BY <1>1 DEF Silent
  <2>1. RsSlotAfter(i)
    BY <1>1 DEF StationMoves
  <2>2. rs_entry'[i].busy /\ ( (rs_entry'[i].have_rs1 /\ rs_entry'[i].Qj = q)
                               \/ (rs_entry'[i].have_rs2 /\ rs_entry'[i].Qk = q) )
    BY <1>2 DEF InRs, RsNeeds
  <2>3. CASE InRs(t, i) /\ ~Arrives(i)
    <3>1. /\ rs_entry'[i].have_rs1 = rs_entry[i].have_rs1
          /\ rs_entry'[i].have_rs2 = rs_entry[i].have_rs2
          /\ rs_entry'[i].Qj = StillAwaited(rs_entry[i].Qj)
          /\ rs_entry'[i].Qk = StillAwaited(rs_entry[i].Qk)
      BY <2>1, <2>2, <2>3 DEF RsSlotAfter
    <3>2. RsNeeds(q, i) /\ ~Committed(q)
      BY <2>0, <2>2, <3>1 DEF StillAwaited, RsNeeds
    <3>3. Waits(q, t)
      BY <1>1, <2>3, <3>2 DEF OperandsInRs
    <3>4. Flying(t)
      BY <1>1, <2>3 DEF Owned, OwnedInRs, OfRs, Unfinished
    <3> QED BY <1>1, <3>2, <3>3, <3>4, WaitsOn DEF Waits
  <2>4. CASE Arrives(i) /\ Enters(t)
    <3>1. q = Decoded.Qj \/ q = Decoded.Qk
      BY <2>0, <2>1, <2>2, <2>4 DEF RsSlotAfter
    <3>2. ~Committed(q)
      BY <2>0, <2>1, <2>2, <2>4 DEF RsSlotAfter
    <3>3. Flying(q)
      BY <3>1, <3>2, ProducerFlies
    <3> QED BY <1>1, <2>4, <3>3, WaitsOn
  <2> QED BY <1>1, <1>2, <2>3, <2>4, StationAfter
<1> QED BY <1>2 DEF OperandsInRs

\* So is one the load store buffer waits for.
LEMMA OperandsInLsbStep ==
  ASSUME NEW mc, Works(mc)
  PROVE  OperandsInLsb'
<1>1. /\ QueueMoves /\ QueueWorks(mc) /\ Presents /\ RobWorks /\ OperandsInLsb /\ Owned /\ Silent /\ CommittedFirst
  BY DEF Works, QueueWorks, Scheduled
<1> DEFINE fin == Finishing(mc) /\ lsb_status = "LOAD"
<1>2. ASSUME NEW q \in RobTag, NEW t \in RobTag, NEW i \in LsbIndex,
             Queued(i)', lsb_entry'[i].rob_tag = t, LsbNeeds(q, i)'
      PROVE  Waits(q, t)'
  <2>0. q # NULL_TAG
    BY <1>1 DEF Silent
  <2>1. QueueSlotAfter(i, fin)
    BY <1>1 DEF QueueWorks
  <2>2. QueueStays(i) \/ QueueEnters(i)
    BY <1>1, <1>2 DEF QueueMoves
  <2> HIDE DEF fin
  <2>3. lsb_entry'[i].Qj = q \/ (lsb_entry'[i].store /\ lsb_entry'[i].Qk = q)
    BY <1>2 DEF LsbNeeds
  <2>4. CASE QueueStays(i)
    <3>1. /\ Queued(i)
          /\ lsb_entry'[i].store = lsb_entry[i].store
          /\ lsb_entry[i].rob_tag = t
          /\ lsb_entry'[i].Qj = StillMissing(lsb_entry[i].Qj, fin)
          /\ lsb_entry'[i].Qk = StillMissing(lsb_entry[i].Qk, fin)
      BY <1>2, <2>1, <2>4 DEF QueueSlotAfter
    <3>2. LsbNeeds(q, i) /\ ~Committed(q)
      BY <2>0, <2>3, <3>1 DEF StillMissing, LsbNeeds
    <3>3. ~CanRun(lsb_entry[i])
      BY <2>0, <3>2 DEF CanRun, LsbNeeds
    <3>4. ~lsb_entry[i].commit_flag /\ ~Hit(i)
      BY <1>1, <3>1, <3>3 DEF CommittedFirst, Hit
    <3>5. Flying(t)
      BY <1>1, <3>1, <3>4, LiveFlies DEF InLsb, Live
    <3>6. Waits(q, t)
      BY <1>1, <3>1, <3>2 DEF OperandsInLsb
    <3> QED BY <1>1, <3>2, <3>5, <3>6, WaitsOn DEF Waits
  <2>5. CASE QueueEnters(i)
    <3>1. /\ t = TailNext
          /\ lsb_entry'[i].Qj = (IF InAlu(Decoded.Qj) \/ Committed(Decoded.Qj) THEN NULL_TAG ELSE Decoded.Qj)
          /\ lsb_entry'[i].Qk = (IF InAlu(Decoded.Qk) \/ Committed(Decoded.Qk) THEN NULL_TAG ELSE Decoded.Qk)
      BY <1>2, <2>1, <2>5 DEF QueueSlotAfter
    <3>2. (q = Decoded.Qj \/ q = Decoded.Qk) /\ ~Committed(q)
      BY <2>0, <2>3, <3>1
    <3>3. Flying(q)
      BY <3>2, ProducerFlies
    <3>4. Enters(t)
      BY <1>1, <2>5, <3>1 DEF QueueEnters, Enters, Presents
    <3> QED BY <1>1, <3>3, <3>4, WaitsOn
  <2> QED BY <2>2, <2>4, <2>5
<1> QED BY <1>2 DEF OperandsInLsb

\* A busy register names its youngest writer, also after the cycle.
LEMMA NamesStep ==
  ASSUME NEW mc, Works(mc)
  PROVE  Names'
<1>1. /\ RobMoves /\ RobTells /\ Names /\ Signals /\ Presents
      /\ \A t \in RobTag : SlotAfter(t)
      /\ \A r \in RegIndex : RegisterAfter(r)
  BY DEF Works, RobWorks, Scheduled
<1>2. ~rf_busy'[0]
  <2>1. RegisterAfter(0)
    BY <1>1, RegZero
  <2> QED BY <1>1, <2>1 DEF RegisterAfter, Takes, Names
<1>3. ASSUME NEW r \in RegIndex \ {0}
      PROVE  NamesYoungest(r)' \/ NamesNone(r)'
  <2>0. RegisterAfter(r)
    BY <1>1
  <2>1. \A t \in RobTag : Writes(t, r)' <=> Flying(t)' /\ rob_entry'[t].dest = r /\ Op(t)' \notin {"BRANCH", "STORE"}
    BY DEF Writes
  <2>2. \A t \in RobTag : Stays(t) => (Writes(t, r)' <=> Writes(t, r))
    BY <1>1, <2>1 DEF SlotAfter, RobMoves, Writes, Stays
  <2>3. \A t \in RobTag : Enters(t) => (Writes(t, r)' <=> Takes(r))
    BY <1>1, <2>1 DEF SlotAfter, RobMoves, Takes, Presents, Enters
  <2>4. \A t \in RobTag : Writes(t, r)' => Stays(t) \/ Enters(t)
    BY <1>1, <2>1 DEF RobMoves
  <2>5. CASE Takes(r)
    <3>1. PICK q \in RobTag : q = TailNext
      BY <1>1 DEF Presents
    <3>2. Enters(q)
      BY <1>1, <2>5, <3>1 DEF Takes, Presents, Enters
    <3>3. rf_busy'[r] /\ rf_rob_tag'[r] = q
      BY <2>0, <2>5, <3>1 DEF RegisterAfter
    <3>4. ASSUME NEW t \in RobTag, Writes(t, r)' PROVE RobAge(t)' <= RobAge(q)'
      <4>1. CASE Enters(t)
        <5>1. RobAge(q)' \in Nat
          BY <1>1 DEF RobMoves
        <5> QED BY <4>1, <3>1, <5>1 DEF Enters
      <4>2. CASE Stays(t)
        <5>1. /\ RobAge(t) \in Nat /\ RobAge(q) \in Nat /\ RobAge(t) < RobAge(q)
              /\ RobAge(q)' = IF Committing THEN RobAge(q) - 1 ELSE RobAge(q)
              /\ RobAge(t)' = IF Committing THEN RobAge(t) - 1 ELSE RobAge(t)
          BY <1>1, <3>2, <4>2 DEF RobMoves, Stays
        <5> QED BY <5>1
      <4> QED BY <2>4, <3>4, <4>1, <4>2
    <3>5. Writes(q, r)'
      BY <2>3, <2>5, <3>2
    <3> QED BY <3>3, <3>4, <3>5 DEF NamesYoungest
  <2>6. CASE ~Takes(r) /\ NamesYoungest(r)
    <3>1. PICK q \in RobTag : /\ rf_busy[r] /\ rf_rob_tag[r] = q /\ Writes(q, r)
                              /\ \A t \in RobTag : Writes(t, r) => RobAge(t) <= RobAge(q)
      BY <2>6 DEF NamesYoungest
    <3>2. Flying(q) /\ q # rob_head
      BY <1>1, <3>1 DEF Writes, RobMoves
    <3>3. ~Frees(r)
      BY <1>1, <3>1, <3>2 DEF Frees, Signals
    <3>4. rf_busy'[r] /\ rf_rob_tag'[r] = q
      BY <2>0, <2>6, <3>1, <3>3 DEF RegisterAfter
    <3>5. \A t \in RobTag : Writes(t, r)' => Stays(t) /\ Writes(t, r)
      BY <2>2, <2>3, <2>4, <2>6
    <3>6. CASE Stays(q)
      <4>1. Writes(q, r)'
        BY <2>2, <3>1, <3>6
      <4>2. ASSUME NEW t \in RobTag, Writes(t, r)' PROVE RobAge(t)' <= RobAge(q)'
        <5>1. Stays(t) /\ RobAge(t) <= RobAge(q)
          BY <3>1, <3>5, <4>2
        <5>2. /\ RobAge(t) \in Nat /\ RobAge(q) \in Nat
              /\ RobAge(q)' = IF Committing THEN RobAge(q) - 1 ELSE RobAge(q)
              /\ RobAge(t)' = IF Committing THEN RobAge(t) - 1 ELSE RobAge(t)
          BY <1>1, <3>6, <5>1 DEF RobMoves, Stays
        <5> QED BY <5>1, <5>2
      <4> QED BY <3>4, <4>1, <4>2 DEF NamesYoungest
    <3>7. CASE ~Stays(q)
      <4>1. Committing /\ q = HeadNext
        BY <3>2, <3>7 DEF Stays
      <4>2. ASSUME NEW t \in RobTag, Writes(t, r)' PROVE FALSE
        <5>1. Stays(t) /\ RobAge(t) <= RobAge(q)
          BY <3>1, <3>5, <4>2
        <5>2. RobAge(t) \in Nat /\ RobAge(t) >= 1 /\ RobAge(q) = 1
          BY <1>1, <4>1, <5>1 DEF RobMoves, Stays
        <5>3. RobAge(t) = 1
          BY <5>1, <5>2
        <5> QED BY <1>1, <4>1, <5>1, <5>3 DEF RobMoves, Stays
      <4>3. rob_out'.commit_rf /\ rob_out'.target = r /\ rf_rob_tag'[r] = rob_out'.tag
        BY <1>1, <3>1, <3>4, <4>1 DEF RobTells, Writes
      <4> QED BY <3>4, <4>2, <4>3 DEF NamesNone
    <3> QED BY <3>6, <3>7
  <2>7. CASE ~Takes(r) /\ NamesNone(r)
    <3>1. \A t \in RobTag : ~Writes(t, r)'
      BY <2>2, <2>3, <2>4, <2>7 DEF NamesNone
    <3>2. ~rf_busy'[r]
      BY <1>1, <2>0, <2>7 DEF NamesNone, RegisterAfter, Frees, Signals
    <3>3. ~(rob_out'.commit_rf /\ rob_out'.target = r)
      <4>1. ASSUME rob_out'.commit_rf, rob_out'.target = r PROVE FALSE
        <5>1. /\ HeadNext \in RobTag /\ Flying(HeadNext)
              /\ Op(HeadNext) \notin {"BRANCH", "STORE"} /\ rob_entry[HeadNext].dest = r
          BY <1>1, <4>1 DEF RobTells, RobMoves
        <5> QED BY <2>7, <5>1 DEF NamesNone, Writes
      <4> QED BY <4>1
    <3> QED BY <3>1, <3>2, <3>3 DEF NamesNone
  <2>8. NamesYoungest(r) \/ NamesNone(r)
    BY <1>1 DEF Names
  <2> QED BY <2>5, <2>6, <2>7, <2>8
<1> QED BY <1>2, <1>3 DEF Names

(***************************************************************************)
(* The cycle of a rollback.                                                *)
(***************************************************************************)
\* What is left in the load store buffer after a rollback are the committed
\* accesses, less the one that is sent to the memory in this cycle.
QueueShrinks ==
  /\ lsb_cnt \in Nat /\ lsb_cnt' \in Nat
  /\ Running => Queued(LsbHead) /\ Place(LsbHead) <= lsb_cnt
  /\ Length' = lsb_cnt'
  /\ lsb_head' \in LsbIndex /\ lsb_tail' \in LsbIndex
  /\ \A i \in LsbIndex : Queued(i)' =>
       /\ Queued(i) /\ Place(i) <= lsb_cnt
       /\ Place(i)' \in Nat /\ 1 <= Place(i)' /\ Place(i)' <= lsb_cnt'

\* A rollback does that to the queue.
LEMMA QueueShrinksHolds ==
  ASSUME LsbType, CommittedFirst, rob_out.commit_lsb = FALSE, NEW mc,
         LoadStoreBuffer!Rollback(Decoded, Broadcast, rob_out, mc)
  PROVE  QueueShrinks
<1>1. /\ LSB_CAPACITY \in Nat /\ LSB_CAPACITY >= 2 /\ lsb_cnt \in Nat
      /\ lsb_head \in LsbIndex /\ lsb_tail \in LsbIndex /\ lsb_cnt \in LsbIndex
      /\ LsbHead \in LsbIndex /\ Place(LsbHead) = 1
      /\ Length \in Nat /\ Length <= LSB_CAPACITY - 1
      /\ \A i \in LsbIndex : Place(i) \in Nat
      /\ lsb_head # lsb_tail => Queued(LsbHead)
  BY LsbWires DEF LsbType
<1>2. /\ lsb_tail' = LoadStoreBuffer!Slot(lsb_head + lsb_cnt)
      /\ LoadStoreBuffer!Count(rob_out)
  BY DEF LoadStoreBuffer!Rollback
<1>3. lsb_head' = IF Running THEN LsbHead ELSE lsb_head
  BY LsbRollbackOutputs
<1>4. lsb_cnt <= Length /\ (Running => lsb_cnt >= 1)
  BY DueFirst DEF CommittedFirst
<1>5. lsb_cnt' = IF Running THEN lsb_cnt - 1 ELSE lsb_cnt
  BY <1>1, <1>2, LsbCounts, DueFirst
<1>6. Running => Queued(LsbHead)
  BY <1>1 DEF Running, Issuing, LoadStoreBuffer!CanIssue
<1>7. /\ lsb_tail' \in LsbIndex
      /\ Dist(lsb_head, lsb_tail', LSB_CAPACITY) = lsb_cnt
  BY <1>1, <1>2, LsbCircle
<1>8. /\ LsbHead = LoadStoreBuffer!Slot(lsb_head + 1)
      /\ \A i \in LsbIndex : /\ Dist(lsb_head, i, LSB_CAPACITY) = 0 <=> i = lsb_head
                             /\ Dist(LoadStoreBuffer!Slot(lsb_head + 1), i, LSB_CAPACITY) =
                                  IF i = lsb_head THEN LSB_CAPACITY - 1 ELSE Dist(lsb_head, i, LSB_CAPACITY) - 1
  BY <1>1, LsbCircle DEF LsbHead, LoadStoreBuffer!head_next
<1>9. \A i \in LsbIndex : /\ Place(i) = Dist(lsb_head, i, LSB_CAPACITY)
                          /\ Place(i)' = Dist(lsb_head', i, LSB_CAPACITY)
  BY DEF Place
<1>10. Length' = Dist(lsb_head', lsb_tail', LSB_CAPACITY)
  BY DEF Length, Place
<1>11. Length' = lsb_cnt'
  BY <1>1, <1>3, <1>4, <1>5, <1>7, <1>8, <1>10
<1>12. ASSUME NEW i \in LsbIndex, Queued(i)'
       PROVE  /\ Queued(i) /\ Place(i) <= lsb_cnt
              /\ Place(i)' \in Nat /\ 1 <= Place(i)' /\ Place(i)' <= lsb_cnt'
  <2>1. 1 <= Place(i)' /\ Place(i)' <= lsb_cnt'
    BY <1>11, <1>12 DEF Queued
  <2>2. Place(i) \in Nat /\ (Place(i) = 0 <=> i = lsb_head)
    BY <1>1, <1>8, <1>9
  <2>3. Place(i)' = IF ~Running THEN Place(i)
                    ELSE IF i = lsb_head THEN LSB_CAPACITY - 1 ELSE Place(i) - 1
    BY <1>3, <1>8, <1>9
  <2>4. 1 <= Place(i) /\ Place(i) <= lsb_cnt /\ Place(i)' \in Nat
    BY <1>1, <1>4, <1>5, <2>1, <2>2, <2>3
  <2> QED BY <1>1, <1>4, <2>1, <2>4 DEF Queued
<1>13. lsb_cnt' \in Nat /\ lsb_head' \in LsbIndex
  BY <1>1, <1>3, <1>4, <1>5
<1> QED BY <1>1, <1>4, <1>6, <1>7, <1>11, <1>12, <1>13 DEF QueueShrinks

\* The accesses it keeps are what they were.
LEMMA KeptAccesses ==
  ASSUME LsbType, RobType, RsType, DecodedType, QueueShrinks, Silent, Tags, NEW mc \in MemoryOutput,
         LoadStoreBuffer!Rollback(Decoded, Broadcast, rob_out, mc), rob_out.commit_lsb = FALSE,
         NEW i \in LsbIndex, Queued(i)'
  PROVE  \E finished : /\ LsbEntryKept(i, finished) /\ StillMissing(NULL_TAG, finished) = NULL_TAG
                       /\ lsb_entry'[i].commit_flag <=> lsb_entry[i].commit_flag
<1> DEFINE finished == Finishing(mc) /\ lsb_status = "LOAD" /\ ~LoadStoreBuffer!Abandons
           data == LoadStoreBuffer!LoadResult(lsb_current_op, mc.lsb_data)
<1>1. data \in Word
  BY LoadResultWord, LsbNames DEF MemoryOutput, LsbType
<1>2. /\ lsb_entry' = LoadStoreBuffer!Contents(lsb_head', lsb_tail', FALSE, Decoded, Broadcast, rob_out, finished, data)
  BY DEF LoadStoreBuffer!Rollback, Finishing
<1>3. finished => lsb_current_tag \in RobTag
  BY DEF Tags
<1>4. /\ 1 <= Dist(lsb_head', i, LSB_CAPACITY)
      /\ Dist(lsb_head', i, LSB_CAPACITY) <= Dist(lsb_head', lsb_tail', LSB_CAPACITY)
  BY DEF Queued, Place, Length
<1> HIDE DEF finished, data
<1>5. finished => lsb_current_tag # NULL_TAG
  BY <1>3 DEF Silent
<1>6. LsbEntryKept(i, finished)
  <2>1. ~InAlu(NULL_TAG) /\ ~Committed(NULL_TAG) /\ lsb_head' \in LsbIndex /\ lsb_tail' \in LsbIndex
    BY DEF Silent, QueueShrinks
  <2>2. PICK h \in LsbIndex, t \in LsbIndex : h = lsb_head' /\ t = lsb_tail'
    BY <2>1
  <2> QED BY <1>1, <1>2, <1>4, <1>5, <2>1, <2>2, LsbContents
<1>7. StillMissing(NULL_TAG, finished) = NULL_TAG
  BY <1>5 DEF StillMissing
<1>8. lsb_entry'[i].commit_flag <=> lsb_entry[i].commit_flag
  BY <1>6 DEF LsbEntryKept
<1> QED BY <1>6, <1>7, <1>8

\* After a rollback or a reset everything that was not committed is gone.
AtRest ==
  /\ lsb_cnt \in Nat
  /\ ~rob_inner_rollback /\ ~rob_need_to_rollback /\ ~rob_out.rollback
  /\ ~rob_out.commit /\ ~rob_out.commit_lsb /\ ~rob_out.commit_rf
  /\ \A t \in RobTag : ~Flying(t) /\ ~rob_entry[t].is_io_load
  /\ \A i \in RsIndex : ~rs_entry[i].busy /\ ~rs_entry[i].have_rs1 /\ ~rs_entry[i].have_rs2
  /\ ~rs_calc.calculate
  /\ lsb_status # "LOAD" /\ ~lsb_out.broadcast
  /\ \A i \in LsbIndex : Queued(i) =>
       /\ lsb_entry[i].commit_flag /\ lsb_entry[i].store
       /\ lsb_entry[i].rob_tag \in RobTag
       /\ CanRun(lsb_entry[i])
       /\ Place(i) <= lsb_cnt
  /\ Length = lsb_cnt
  /\ \A r \in RegIndex : ~rf_busy[r]

\* After a rollback the reorder buffer is empty and silent.
LEMMA RobRolledBack ==
  ASSUME ReorderBuffer!Reset
  PROVE  /\ ~rob_inner_rollback' /\ ~rob_need_to_rollback' /\ ~rob_out'.rollback
         /\ ~rob_out'.commit /\ ~rob_out'.commit_lsb /\ ~rob_out'.commit_rf
         /\ \A t \in RobTag : ~Flying(t)' /\ ~rob_entry'[t].is_io_load
<1>1. ReorderBuffer!RobTag = RobTag
  BY RobNames
<1>2. \A t \in RobTag : ~rob_entry'[t].is_io_load
  BY <1>1, Zenon DEF ReorderBuffer!Reset, ReorderBuffer!EmptyEntry
<1>3. rob_out' = ReorderBuffer!Quiet /\ ~rob_inner_rollback' /\ ~rob_need_to_rollback'
      /\ rob_head' = 1 /\ rob_tail' = 1
  BY DEF ReorderBuffer!Reset
<1>4. \A t : ~Flying(t)'
  <2> SUFFICES ASSUME NEW t, Flying(t)' PROVE FALSE
    OBVIOUS
  <2>1. t \in RobTag /\ 1 <= Dist(1, t, RobSlots) /\ Dist(1, t, RobSlots) <= Dist(1, 1, RobSlots)
    BY <1>3 DEF Flying, RobAge
  <2>2. Dist(1, 1, RobSlots) = 0
    BY DEF Dist
  <2>3. Dist(1, t, RobSlots) \in Nat
    BY <2>1, RobCircle, CapacityAssumption DEF RobTag, CapacityAssumption
  <2> QED BY <2>1, <2>2, <2>3
<1>5. /\ ~rob_out'.rollback
      /\ ~rob_out'.commit /\ ~rob_out'.commit_lsb /\ ~rob_out'.commit_rf
  BY <1>3, Zenon DEF ReorderBuffer!Quiet
<1> QED BY <1>2, <1>3, <1>4, <1>5

\* A rollback leaves the core at rest but for the committed accesses.
LEMMA RolledBackHolds ==
  ASSUME RobType, RsType, LsbType, DecodedType, Signals, Tags, CommittedFirst, Inputs,
         rob_inner_rollback, NEW mc \in MemoryOutput,
         ReorderBuffer!Reset, ReservationStation!Clear, RegisterFile!Rollback,
         LoadStoreBuffer!Rollback(Decoded, Broadcast, rob_out, mc)
  PROVE  AtRest'
<1>1. rob_out.commit_lsb = FALSE
  BY Zenon DEF Signals, RobType, RobOutput
<1>2. QueueShrinks
  BY <1>1, QueueShrinksHolds
<1>3. Silent
  BY SilentHolds
<1>4. /\ \A i \in RsIndex : ~rs_entry'[i].busy /\ ~rs_entry'[i].have_rs1 /\ ~rs_entry'[i].have_rs2
      /\ ~rs_calc'.calculate
  <2>1. ReservationStation!RsIndex = RsIndex
    BY RsNames
  <2> QED BY <2>1, Zenon DEF ReservationStation!Clear, ReservationStation!EmptyEntry, ReservationStation!NoOperation
<1>5. \A r \in RegIndex : ~rf_busy'[r]
  <2>1. RegisterFile!RegIndex = RegIndex
    BY RfNames
  <2> QED BY <2>1, Zenon DEF RegisterFile!Rollback
<1>6. LsbDrops(mc)
  BY LsbRollbackOutputs
<1>7. ASSUME Running PROVE First.store
  <2>1. Queued(LsbHead) /\ LsbHead \in LsbIndex
    BY <1>7, <1>2, LsbWires DEF QueueShrinks
  <2>2. ~First.store => First.commit_flag
    BY <1>7, LsbReasons, LsbNames DEF LsbWhy, Running, LoadStoreBuffer!NeedsCommit, LoadStoreBuffer!IoLoad
  <2> QED BY <2>1, <2>2 DEF Inputs, First
<1>8. lsb_status' # "LOAD" /\ ~lsb_out'.broadcast
  <2>1. lsb_status = "LOAD" => Abandoning
    BY DEF Inputs, Abandoning
  <2>2. CASE Running
    BY <1>6, <1>7, <2>2 DEF LsbDrops, Asks
  <2>3. CASE Noticing
    BY <1>6, <2>3 DEF LsbDrops, Reports
  <2>4. CASE Abandoning
    BY <1>6, <2>4 DEF LsbDrops
  <2>5. CASE ~Abandoning /\ Finishing(mc)
    BY <1>6, <2>1, <2>5 DEF LsbDrops, Ends
  <2>6. CASE ~Running /\ ~Noticing /\ ~Abandoning /\ ~Finishing(mc)
    BY <1>6, <2>1, <2>6 DEF LsbDrops, Remains
  <2> QED BY <2>2, <2>3, <2>4, <2>5, <2>6
<1>9. ASSUME NEW i \in LsbIndex, Queued(i)'
      PROVE  /\ lsb_entry'[i].commit_flag /\ lsb_entry'[i].store
             /\ lsb_entry'[i].rob_tag \in RobTag
             /\ CanRun(lsb_entry'[i])
             /\ Place(i)' <= lsb_cnt'
  <2>1. Queued(i) /\ Place(i) <= lsb_cnt /\ Place(i)' <= lsb_cnt'
    BY <1>2, <1>9 DEF QueueShrinks
  <2>2. lsb_entry[i].commit_flag /\ CanRun(lsb_entry[i])
    BY <2>1 DEF CommittedFirst
  <2>3. lsb_entry[i].store /\ lsb_entry[i].rob_tag \in RobTag
    BY <2>1, <2>2 DEF Inputs, Tags
  <2>4. PICK finished : /\ LsbEntryKept(i, finished) /\ StillMissing(NULL_TAG, finished) = NULL_TAG
                        /\ lsb_entry'[i].commit_flag <=> lsb_entry[i].commit_flag
    BY <1>1, <1>2, <1>3, <1>9, KeptAccesses
  <2>5. /\ lsb_entry'[i].store = lsb_entry[i].store /\ lsb_entry'[i].rob_tag = lsb_entry[i].rob_tag
        /\ lsb_entry'[i].Qj = StillMissing(lsb_entry[i].Qj, finished)
        /\ lsb_entry'[i].Qk = StillMissing(lsb_entry[i].Qk, finished)
    BY <2>4 DEF LsbEntryKept
  <2>6. lsb_entry'[i].Qj = NULL_TAG /\ lsb_entry'[i].Qk = NULL_TAG /\ lsb_entry'[i].store
    BY <2>2, <2>3, <2>4, <2>5 DEF CanRun
  <2>7. CanRun(lsb_entry'[i])
    BY <2>6 DEF CanRun, LoadStoreBuffer!NeedsCommit
  <2> QED BY <2>1, <2>2, <2>3, <2>4, <2>5, <2>6, <2>7
<1>10. Length' = lsb_cnt' /\ lsb_cnt' \in Nat
  BY <1>2 DEF QueueShrinks
<1> QED BY RobRolledBack, <1>4, <1>5, <1>8, <1>9, <1>10 DEF AtRest

\* While a rollback is due or under way no input is, and none is released.
NoInput == rob_need_to_rollback \/ rob_inner_rollback => Inputs

\* An empty slot of the reservation station waits for nothing.
Cleared == \A i \in RsIndex : ~rs_entry[i].busy => ~rs_entry[i].have_rs1 /\ ~rs_entry[i].have_rs2

\* A slot the station empties waits for nothing.
LEMMA ClearedStep ==
  ASSUME StationMoves
  PROVE  Cleared'
  BY DEF StationMoves, RsSlotAfter, Cleared

\* What is in the load store buffer is a load or a store, and what it asks for is
\* what one of them moves.
KindsKnown ==
  /\ \A i \in LsbIndex : Queued(i) => lsb_entry[i].op \in LoadOps \cup StoreOps
  /\ lsb_out.mc_request => \E op \in LoadOps \cup StoreOps : lsb_out.mc_goal = Goal(op)

SchedInv == /\ Signals /\ Tags /\ CommittedFirst /\ Unmarked /\ NoInput /\ Cleared
            /\ ~rob_inner_rollback => Scheduled

\* The invariant holds after a rollback.
LEMMA AtRestInv == AtRest => SchedInv
<1> SUFFICES ASSUME AtRest PROVE SchedInv
  OBVIOUS
<1>1. Signals
  BY DEF AtRest, Signals
<1>2. Tags
  BY DEF AtRest, Tags
<1>3. CommittedFirst
  <2>1. lsb_cnt <= Length /\ ~rob_out.commit_lsb
    BY DEF AtRest
  <2>2. ASSUME NEW i \in LsbIndex, Queued(i)
        PROVE  /\ lsb_entry[i].commit_flag /\ Place(i) <= lsb_cnt /\ CanRun(lsb_entry[i])
    BY <2>2 DEF AtRest
  <2> QED BY <2>1, <2>2 DEF CommittedFirst
<1>4. Unmarked
  BY DEF AtRest, Unmarked
<1>5. NoInput
  BY DEF AtRest, NoInput
<1>6. Owned
  <2>1. /\ OwnedInRs /\ OwnedInAlu /\ OwnedByLoad /\ OwnedByResult
    BY DEF AtRest, OwnedInRs, OwnedInAlu, OwnedByLoad, OwnedByResult, InRs, InAlu, Loading, Loaded
  <2>2. OwnedInLsb
    BY DEF AtRest, OwnedInLsb, InLsb, Live
  <2> QED BY <2>1, <2>2 DEF Owned
<1>7. Alone
  BY DEF AtRest, Alone, AloneInRs, AloneInAlu, InOrder, AloneInLsb, OneLoad, InRs, InLsb, Live
<1>8. Worked /\ StoresNotReady
  BY DEF AtRest, Worked, Unfinished, StoresNotReady
<1>9. CommitPending /\ Marks
  BY DEF AtRest, CommitPending, Marks
<1>10. Released
  BY DEF AtRest, Released, Loading
<1>11. OperandsInRs
  BY DEF AtRest, OperandsInRs, InRs
<1>12. OperandsInLsb
  <2> SUFFICES ASSUME NEW q \in RobTag, NEW t \in RobTag, NEW i \in LsbIndex, Queued(i), LsbNeeds(q, i)
               PROVE  FALSE
    BY DEF OperandsInLsb
  <2>1. CanRun(lsb_entry[i]) /\ lsb_entry[i].store
    BY DEF AtRest
  <2>2. q = NULL_TAG
    BY <2>1 DEF CanRun, LsbNeeds
  <2> QED BY <2>2, CapacityAssumption DEF RobTag, NULL_TAG, CapacityAssumption
<1>13. Names
  <2>1. /\ \A t \in RobTag : ~Flying(t)
        /\ ~rob_out.commit_rf
        /\ \A r \in RegIndex : ~rf_busy[r]
    BY DEF AtRest
  <2>2. \A r \in RegIndex : NamesNone(r)
    BY <2>1 DEF NamesNone, Writes
  <2>3. 0 \in RegIndex
    BY RegZero
  <2> QED BY <2>1, <2>2, <2>3 DEF Names
<1>14. Scheduled
  BY <1>6, <1>7, <1>8, <1>9, <1>10, <1>11, <1>12, <1>13 DEF Scheduled
<1>15. Cleared
  BY DEF AtRest, Cleared
<1> QED BY <1>1, <1>2, <1>3, <1>4, <1>5, <1>14, <1>15 DEF SchedInv

\* A core at rest satisfies the invariant.
LEMMA RestStep == AtRest' => SchedInv'
  BY AtRestInv, PTL

\* No input is released, and none is asked for, in the cycle before a rollback.
LEMMA InputsStep ==
  ASSUME NEW mc, Inputs, QueueWorks(mc), ~rob_out.commit_lsb
  PROVE  Inputs'
<1>1. ASSUME NEW i \in LsbIndex, Queued(i)', lsb_entry'[i].commit_flag
      PROVE  lsb_entry'[i].store
  <2>1. QueueStays(i) \/ QueueEnters(i)
    BY <1>1 DEF QueueWorks, QueueMoves
  <2> QED BY <1>1, <2>1 DEF QueueWorks, QueueSlotAfter, Hit, Inputs
<1>2. ~(lsb_status' = "LOAD" /\ IsIo(lsb_current_address'))
  <2>1. CASE Issuing
    <3>1. Queued(LsbHead) /\ LsbHead \in LsbIndex
      BY <2>1 DEF QueueWorks, QueueMoves
    <3>2. ~First.store /\ IsIo(LoadStoreBuffer!Address(First)) => First.commit_flag
      BY <2>1, LsbNames DEF QueueWorks, LsbWhy, LoadStoreBuffer!IoLoad
    <3> QED BY <2>1, <3>1, <3>2 DEF QueueWorks, LsbTells, Asks, Inputs, First
  <2>2. CASE Noticing
    BY <2>2 DEF QueueWorks, LsbTells, Reports
  <2>3. CASE Finishing(mc)
    BY <2>3 DEF QueueWorks, LsbTells, Ends
  <2>4. CASE ~Issuing /\ ~Noticing /\ ~Finishing(mc)
    BY <2>4 DEF QueueWorks, LsbTells, Remains, Inputs
  <2> QED BY <2>1, <2>2, <2>3, <2>4
<1> QED BY <1>1, <1>2 DEF Inputs

\* The cycle between a wrong guess and its rollback.
LEMMA AbortStep ==
  ASSUME RobType, NEW mc, Signals, Tags, CommittedFirst, Unmarked, Inputs, Presents, StationMoves, QueueWorks(mc),
         rob_out.commit_lsb = FALSE, ReorderBuffer!Rollback
  PROVE  SchedInv'
<1>1. /\ rob_out' = [ReorderBuffer!Quiet EXCEPT !.rollback = TRUE, !.fet_rollback_pc = rob_rollback_pc]
      /\ rob_inner_rollback' /\ ~rob_need_to_rollback'
      /\ rob_head' = rob_head /\ rob_tail' = rob_tail /\ rob_entry' = rob_entry
  BY DEF ReorderBuffer!Rollback
<1>2. /\ rob_out'.rollback /\ ~rob_out'.commit_lsb /\ ~rob_out'.commit /\ ~rob_out'.commit_rf
  BY <1>1, Zenon DEF ReorderBuffer!Quiet
<1>3. Signals'
  BY <1>1, <1>2 DEF Signals
<1>4. Tags'
  BY TagsStep
<1>5. CommittedFirst'
  BY <1>2, CommittedFirstStep
<1>6. Unmarked'
  BY <1>1 DEF Unmarked, Flying, RobAge
<1>7. NoInput'
  BY InputsStep DEF NoInput
<1> QED BY <1>1, <1>3, <1>4, <1>5, <1>6, <1>7, ClearedStep DEF SchedInv

\* A cycle of work.
LEMMA WorkStep ==
  ASSUME NEW mc, Works(mc), LsbType, rob_out.commit_lsb \in BOOLEAN
  PROVE  SchedInv'
<1>0. RobWorks /\ Tags /\ Presents /\ StationMoves /\ QueueWorks(mc) /\ CommittedFirst /\ RobTells
  BY DEF Works, RobWorks
<1>1. Signals'
  BY <1>0, SignalsStep
<1>2. Tags'
  BY <1>0, TagsStep
<1>3. CommittedFirst'
  BY <1>0, NextPulse, CommittedFirstStep DEF PulseFor
<1>4. Unmarked'
  BY UnmarkedStep
<1>5. Alone' /\ OneLoad'
  BY AloneStep DEF Alone
<1>6. Released' /\ (Committing => Inputs')
  BY <1>2, <1>5, ReleasedStep
<1>7. NoInput'
  BY <1>0, <1>6 DEF NoInput, RobTells
<1>8. Scheduled'
  BY <1>5, <1>6, OwnedStep, WorkedStep, StoresNotReadyStep, CommitPendingStep, MarksStep,
     OperandsInRsStep, OperandsInLsbStep, NamesStep DEF Scheduled
<1> QED BY <1>0, <1>1, <1>2, <1>3, <1>4, <1>7, <1>8, ClearedStep DEF SchedInv

(***************************************************************************)
(* The circular queues: one step of the head or of the tail.               *)
(***************************************************************************)

\* The head of the reorder buffer that leaves a slot makes room: a queue that
\* is neither empty nor full is not full after a commit (ReorderBuffer.v:103-111).
LEMMA RobStep ==
  ASSUME NEW h \in RobTag, NEW t \in RobTag
  PROVE  /\ ReorderBuffer!NextSlot(h) \in RobTag
         /\ ReorderBuffer!NextSlot(h) = ReorderBuffer!NextSlot(t) => h = t
         /\ ReorderBuffer!NextSlot(h) # h
  BY CapacityAssumption DEF CapacityAssumption, RobTag, ReorderBuffer!NextSlot

\* The same for the load store buffer, whose slots are numbered modulo its
\* capacity (LoadStoreBuffer.v:64-69).
LEMMA LsbStep ==
  ASSUME NEW h \in LsbIndex, NEW t \in LsbIndex
  PROVE  /\ LoadStoreBuffer!Slot(h + 1) \in LsbIndex
         /\ LoadStoreBuffer!Slot(h + 1) = IF h = LSB_CAPACITY - 1 THEN 0 ELSE h + 1
         /\ LoadStoreBuffer!Slot(h + 1) = LoadStoreBuffer!Slot(t + 1) => h = t
  BY CapacityAssumption DEF CapacityAssumption, LsbIndex, LoadStoreBuffer!Slot

(***************************************************************************)
(* An issued instruction finds room.                                       *)
(***************************************************************************)
Pointers == /\ rob_head \in RobTag /\ rob_tail \in RobTag
            /\ lsb_head \in LsbIndex /\ lsb_tail \in LsbIndex /\ lsb_cnt \in LsbIndex

\* After an issue the fetcher spends a cycle in IDLE, so it never issues twice
\* in a row and no insertion is under way when it looks at the full signals.
IssuesAlone == fet_out.issue => fet_status = "IDLE"

IssueInv == Pointers /\ IssuesAlone /\ IssueFits

\* What the decoder presents to the buffers of an issued instruction.
LEMMA DecodedIssue ==
  /\ Decoded.issue = fet_out.issue
  /\ Decoded.to_lsb = (fet_out.issue /\ Decoder!ToLsb(fet_out.inst))
  /\ Decoded.to_rs = (fet_out.issue /\ ~Decoder!ToLsb(fet_out.inst))
  BY DEF Decoded, Decoder!Decode

\* Whatever the reorder buffer does in a cycle, its pointers stay in range, and
\* without an insertion it does not fill up.
LEMMA RobCycle ==
  ASSUME Pointers, NEW rst \in BOOLEAN,
         ReorderBuffer!Clock(rst, Decoded, Broadcast, lsb_out)
  PROVE  /\ rob_head' \in RobTag /\ rob_tail' \in RobTag
         /\ ~fet_out.issue /\ ~ReorderBuffer!full_out => ~ReorderBuffer!full_out'
<1> USE DEF Pointers
<1>1. CASE ReorderBuffer!Reset
  <2>1. 1 \in RobTag
    BY CapacityAssumption DEF CapacityAssumption, RobTag
  <2>2. ReorderBuffer!NextSlot(1) # 1
    BY <2>1, RobStep
  <2> QED BY <1>1, <2>1, <2>2 DEF ReorderBuffer!Reset, ReorderBuffer!full_out,
            ReorderBuffer!tail_next, ReorderBuffer!NextSlot
<1>2. CASE ReorderBuffer!Rollback
  BY <1>2 DEF ReorderBuffer!Rollback, ReorderBuffer!full_out, ReorderBuffer!tail_next,
              ReorderBuffer!NextSlot
<1>3. CASE ReorderBuffer!Operate(Decoded, Broadcast, lsb_out)
  <2>1. rob_tail' = IF fet_out.issue THEN ReorderBuffer!NextSlot(rob_tail) ELSE rob_tail
    BY <1>3, DecodedIssue DEF ReorderBuffer!Operate, ReorderBuffer!Insert, ReorderBuffer!tail_next
  <2>2. \/ rob_head' = rob_head
        \/ rob_head' = ReorderBuffer!NextSlot(rob_head) /\ rob_head # rob_tail
    BY <1>3 DEF ReorderBuffer!Operate, ReorderBuffer!Commit, ReorderBuffer!CanCommit,
                ReorderBuffer!ReleaseIoLoad, ReorderBuffer!Hold, ReorderBuffer!head_next
  <2>3. rob_head' \in RobTag /\ rob_tail' \in RobTag
    BY <2>1, <2>2, RobStep
  <2>4. ASSUME ~fet_out.issue, ~ReorderBuffer!full_out
        PROVE  ~ReorderBuffer!full_out'
    BY <2>1, <2>2, <2>4, RobStep DEF ReorderBuffer!full_out, ReorderBuffer!tail_next,
         ReorderBuffer!NextSlot
  <2> QED BY <2>3, <2>4
<1> QED BY <1>1, <1>2, <1>3 DEF ReorderBuffer!Clock

\* The same for the load store buffer.
LEMMA LsbCycle ==
  ASSUME Pointers, NEW rst \in BOOLEAN, NEW mc,
         LoadStoreBuffer!Clock(rst, Decoded, Broadcast, rob_out, mc)
  PROVE  /\ lsb_head' \in LsbIndex /\ lsb_tail' \in LsbIndex /\ lsb_cnt' \in LsbIndex
         /\ ~fet_out.issue /\ ~rob_out.rollback /\ ~LoadStoreBuffer!full_out
              => ~LoadStoreBuffer!full_out'
<1> USE DEF Pointers
<1> DEFINE Moves == \/ lsb_head' = lsb_head
                    \/ lsb_head' = LoadStoreBuffer!Slot(lsb_head + 1) /\ lsb_head # lsb_tail
<1>1. CASE LoadStoreBuffer!Reset
  BY <1>1, CapacityAssumption
     DEF CapacityAssumption, LsbIndex, LoadStoreBuffer!Reset, LoadStoreBuffer!full_out,
         LoadStoreBuffer!tail_next, LoadStoreBuffer!Slot
<1>2. ASSUME NEW n \in Int
      PROVE  LoadStoreBuffer!Slot(n) \in LsbIndex
  BY CapacityAssumption DEF CapacityAssumption, LsbIndex, LoadStoreBuffer!Slot
<1>3. lsb_cnt \in Int /\ lsb_head \in Int
  BY CapacityAssumption DEF CapacityAssumption, LsbIndex
<1>4. ASSUME LoadStoreBuffer!Count(rob_out)
      PROVE  lsb_cnt' \in LsbIndex
  <2> DEFINE a == LoadStoreBuffer!Flag(rob_out.commit_lsb)
             b == LoadStoreBuffer!Flag(LoadStoreBuffer!CanIssue
                         /\ LoadStoreBuffer!NeedsCommit(lsb_entry[LoadStoreBuffer!head_next]))
  <2>1. a \in Int /\ b \in Int
    BY DEF LoadStoreBuffer!Flag
  <2>2. lsb_cnt' = LoadStoreBuffer!Slot(lsb_cnt + a - b)
    BY <1>4 DEF LoadStoreBuffer!Count
  <2> HIDE DEF a, b
  <2>3. lsb_cnt + a - b \in Int
    BY <2>1, <1>3
  <2> QED BY <2>2, <2>3, CapacityAssumption
             DEF CapacityAssumption, LsbIndex, LoadStoreBuffer!Slot
<1>5. CASE LoadStoreBuffer!Rollback(Decoded, Broadcast, rob_out, mc) /\ rob_out.rollback
  <2>1. Moves
    BY <1>5 DEF LoadStoreBuffer!Rollback, LoadStoreBuffer!Issue, LoadStoreBuffer!Notice,
         LoadStoreBuffer!Finish, LoadStoreBuffer!Stay, LoadStoreBuffer!CanIssue,
         LoadStoreBuffer!head_next
  <2>2. lsb_tail' \in LsbIndex
    BY <1>5, <1>2, <1>3 DEF LoadStoreBuffer!Rollback
  <2>3. lsb_cnt' \in LsbIndex
    BY <1>5, <1>4 DEF LoadStoreBuffer!Rollback
  <2> QED BY <1>5, <2>1, <2>2, <2>3, LsbStep
<1>6. CASE LoadStoreBuffer!Operate(Decoded, Broadcast, rob_out, mc)
  <2>1. Moves
    BY <1>6 DEF LoadStoreBuffer!Operate, LoadStoreBuffer!Issue, LoadStoreBuffer!Notice,
         LoadStoreBuffer!Finish, LoadStoreBuffer!Stay, LoadStoreBuffer!CanIssue,
         LoadStoreBuffer!head_next
  <2>2. lsb_tail' = IF fet_out.issue /\ Decoder!ToLsb(fet_out.inst)
                      THEN LoadStoreBuffer!Slot(lsb_tail + 1) ELSE lsb_tail
    BY <1>6, DecodedIssue DEF LoadStoreBuffer!Operate, LoadStoreBuffer!tail_next
  <2>3. lsb_cnt' \in LsbIndex
    BY <1>6, <1>4 DEF LoadStoreBuffer!Operate
  <2>4. ASSUME ~fet_out.issue, ~LoadStoreBuffer!full_out
        PROVE  ~LoadStoreBuffer!full_out'
    BY <2>1, <2>2, <2>4, LsbStep DEF LoadStoreBuffer!full_out, LoadStoreBuffer!tail_next,
         LoadStoreBuffer!Slot
  <2> QED BY <2>1, <2>2, <2>3, <2>4, LsbStep
<1> QED BY <1>1, <1>5, <1>6 DEF LoadStoreBuffer!Clock

\* The reservation station only empties slots while nothing arrives.
LEMMA RsCycle ==
  ASSUME NEW rst \in BOOLEAN, ~fet_out.issue, ~ReservationStation!full_out,
         ReservationStation!Clock(rst, Decoded, Broadcast, lsb_out, rob_out)
  PROVE  ~ReservationStation!full_out'
<1>1. PICK i \in ReservationStation!RsIndex : ~rs_entry[i].busy
  BY DEF ReservationStation!full_out, ReservationStation!Free
<1>2. ~rs_entry'[i].busy
  <2>1. CASE ReservationStation!Clear
    BY <2>1, <1>1 DEF ReservationStation!Clear, ReservationStation!EmptyEntry
  <2>2. CASE ReservationStation!Operate(Decoded, Broadcast, lsb_out, rob_out)
    BY <2>2, <1>1, DecodedIssue DEF ReservationStation!Operate, ReservationStation!EmptyEntry
  <2> QED BY <2>1, <2>2 DEF ReservationStation!Clock
<1> QED BY <1>1, <1>2 DEF ReservationStation!full_out, ReservationStation!Free

\* The fetcher issues from ISSUING, into IDLE, and only when no buffer is full.
LEMMA FetcherCycle ==
  ASSUME IssuesAlone, NEW rst \in BOOLEAN, NEW mc,
         Fetcher!Clock(rst, AnyFull, rob_out, mc)
  PROVE  /\ IssuesAlone'
         /\ fet_out'.issue => ~rst /\ ~rob_out.rollback /\ ~fet_out.issue /\ ~AnyFull
<1> USE DEF Fetcher!Quiet
<1>1. CASE Fetcher!Reset
  BY <1>1 DEF IssuesAlone, Fetcher!Reset
<1>2. CASE Fetcher!Rollback(rob_out)
  BY <1>2 DEF IssuesAlone, Fetcher!Rollback
<1>3. CASE ~rst /\ ~rob_out.rollback /\ Fetcher!Operate(AnyFull, rob_out, mc)
  <2>1. CASE Fetcher!Hit
    BY <2>1 DEF IssuesAlone, Fetcher!Hit
  <2>2. CASE Fetcher!Miss
    BY <2>2 DEF IssuesAlone, Fetcher!Miss
  <2>3. CASE Fetcher!Fill(mc)
    BY <2>3 DEF IssuesAlone, Fetcher!Fill
  <2>4. CASE Fetcher!Issue(AnyFull)
    BY <1>3, <2>4 DEF IssuesAlone, Fetcher!Issue
  <2>5. CASE Fetcher!Wait(AnyFull, mc)
    BY <2>5 DEF IssuesAlone, Fetcher!Wait
  <2> QED BY <1>3, <2>1, <2>2, <2>3, <2>4, <2>5 DEF Fetcher!Operate
<1> QED BY <1>1, <1>2, <1>3 DEF Fetcher!Clock

\* One cycle keeps the invariant, whether rst is high or not.
LEMMA IssueCycle ==
  ASSUME IssueInv, NEW rst \in BOOLEAN, NEW mc, CoreCycle(rst, mc)
  PROVE  IssueInv'
<1>1. /\ Fetcher!Clock(rst, AnyFull, rob_out, mc)
      /\ ReorderBuffer!Clock(rst, Decoded, Broadcast, lsb_out)
      /\ ReservationStation!Clock(rst, Decoded, Broadcast, lsb_out, rob_out)
      /\ LoadStoreBuffer!Clock(rst, Decoded, Broadcast, rob_out, mc)
  BY DEF CoreCycle
<1>2. Pointers'
  BY <1>1, RobCycle, LsbCycle DEF IssueInv, Pointers
<1>3. IssuesAlone'
  BY <1>1, FetcherCycle DEF IssueInv
<1>4. IssueFits'
  <2>1. SUFFICES ASSUME fet_out'.issue
                 PROVE  /\ ~ReorderBuffer!full_out'
                        /\ ~LoadStoreBuffer!full_out'
                        /\ ~ReservationStation!full_out'
    BY DEF IssueFits
  <2>2. ~rob_out.rollback /\ ~fet_out.issue /\ ~AnyFull
    BY <1>1, <2>1, FetcherCycle DEF IssueInv
  <2> QED BY <1>1, <2>2, RobCycle, LsbCycle, RsCycle DEF IssueInv, AnyFull
<1> QED BY <1>2, <1>3, <1>4 DEF IssueInv

\* Nothing is issued at the start.
LEMMA IssueStart == CoreInit => IssueInv
<1> SUFFICES ASSUME CoreInit PROVE IssueInv
  OBVIOUS
<1>1. Fetcher!Init /\ ReorderBuffer!Init /\ LoadStoreBuffer!Init
  BY DEF CoreInit
<1>2. Pointers
  BY <1>1, CapacityAssumption
     DEF CapacityAssumption, Pointers, RobTag, LsbIndex, ReorderBuffer!Init, LoadStoreBuffer!Init
<1>3. ~fet_out.issue
  BY <1>1 DEF Fetcher!Init, Fetcher!Quiet
<1> QED BY <1>2, <1>3 DEF IssueInv, IssuesAlone, IssueFits

(***************************************************************************)
(* The invariant of the core.                                              *)
(***************************************************************************)
CoreInv == CoreType /\ IssueInv /\ SchedInv /\ KindsKnown

\* A reset leaves the core at rest.
LEMMA ResetStep ==
  ASSUME ReorderBuffer!Reset, ReservationStation!Clear, RegisterFile!Reset, LoadStoreBuffer!Reset
  PROVE  AtRest'
<1>1. /\ \A i \in RsIndex : ~rs_entry'[i].busy /\ ~rs_entry'[i].have_rs1 /\ ~rs_entry'[i].have_rs2
      /\ ~rs_calc'.calculate
  <2>1. ReservationStation!RsIndex = RsIndex
    BY RsNames
  <2> QED BY <2>1, Zenon DEF ReservationStation!Clear, ReservationStation!EmptyEntry, ReservationStation!NoOperation
<1>2. \A r \in RegIndex : ~rf_busy'[r]
  <2>1. RegisterFile!RegIndex = RegIndex
    BY RfNames
  <2> QED BY <2>1, Zenon DEF RegisterFile!Reset
<1>3. /\ lsb_head' = 0 /\ lsb_tail' = 0 /\ lsb_cnt' = 0 /\ lsb_status' = "IDLE"
      /\ lsb_out' = LoadStoreBuffer!Quiet
  BY DEF LoadStoreBuffer!Reset, LoadStoreBuffer!Idle
<1>4. ~lsb_out'.broadcast
  BY <1>3, Zenon DEF LoadStoreBuffer!Quiet
<1>5. Length' = 0
  BY <1>3 DEF Length, Place, Dist
<1>6. \A i \in LsbIndex : ~Queued(i)'
  <2> SUFFICES ASSUME NEW i \in LsbIndex, Queued(i)' PROVE FALSE
    OBVIOUS
  <2>1. 1 <= Place(i)' /\ Place(i)' <= 0
    BY <1>5 DEF Queued
  <2>2. Place(i)' \in Nat
    <3>1. Place(i)' = Dist(0, i, LSB_CAPACITY)
      BY <1>3 DEF Place
    <3> QED BY <3>1, RestingTypes, LsbCircle
  <2> QED BY <2>1, <2>2
<1> QED BY RobRolledBack, <1>1, <1>2, <1>3, <1>4, <1>5, <1>6 DEF AtRest

\* At the start it is at rest.
LEMMA StartsAtRest == CoreInit => AtRest
<1> SUFFICES ASSUME CoreInit PROVE AtRest
  OBVIOUS
<1>1. /\ ReorderBuffer!Init /\ RegisterFile!Init /\ ReservationStation!Init /\ LoadStoreBuffer!Init
  BY DEF CoreInit
<1>2. /\ \A t \in RobTag : ~rob_entry[t].is_io_load
      /\ ~rob_inner_rollback /\ ~rob_need_to_rollback
      /\ ~rob_out.rollback /\ ~rob_out.commit /\ ~rob_out.commit_lsb /\ ~rob_out.commit_rf
  <2>1. ReorderBuffer!RobTag = RobTag
    BY RobNames
  <2> QED BY <1>1, <2>1, Zenon DEF ReorderBuffer!Init, ReorderBuffer!EmptyEntry, ReorderBuffer!Quiet
<1>3. \A t \in RobTag : ~Flying(t)
  <2> SUFFICES ASSUME NEW t \in RobTag, Flying(t) PROVE FALSE
    OBVIOUS
  <2>1. rob_head = 1 /\ rob_tail = 1
    BY <1>1 DEF ReorderBuffer!Init
  <2>2. 1 <= Dist(1, t, RobSlots) /\ Dist(1, t, RobSlots) <= 0
    BY <2>1 DEF Flying, RobAge, Dist
  <2>3. Dist(1, t, RobSlots) \in Nat
    BY RobCircle, RestingTypes
  <2> QED BY <2>2, <2>3
<1>4. /\ \A i \in RsIndex : ~rs_entry[i].busy /\ ~rs_entry[i].have_rs1 /\ ~rs_entry[i].have_rs2
      /\ ~rs_calc.calculate
  <2>1. ReservationStation!RsIndex = RsIndex
    BY RsNames
  <2> QED BY <1>1, <2>1, Zenon DEF ReservationStation!Init, ReservationStation!EmptyEntry, ReservationStation!NoOperation
<1>5. \A r \in RegIndex : ~rf_busy[r]
  <2>1. RegisterFile!RegIndex = RegIndex
    BY RfNames
  <2> QED BY <1>1, <2>1, Zenon DEF RegisterFile!Init
<1>6. /\ lsb_head = 0 /\ lsb_tail = 0 /\ lsb_cnt = 0 /\ lsb_status = "IDLE"
      /\ lsb_out = LoadStoreBuffer!Quiet
  BY <1>1 DEF LoadStoreBuffer!Init
<1>7. ~lsb_out.broadcast
  BY <1>6, Zenon DEF LoadStoreBuffer!Quiet
<1>8. Length = 0
  BY <1>6 DEF Length, Place, Dist
<1>9. \A i \in LsbIndex : ~Queued(i)
  <2> SUFFICES ASSUME NEW i \in LsbIndex, Queued(i) PROVE FALSE
    OBVIOUS
  <2>1. 1 <= Place(i) /\ Place(i) <= 0
    BY <1>8 DEF Queued
  <2>2. Place(i) \in Nat
    BY <1>6, RestingTypes, LsbCircle DEF Place
  <2> QED BY <2>1, <2>2
<1> QED BY <1>2, <1>3, <1>4, <1>5, <1>6, <1>7, <1>8, <1>9 DEF AtRest

\* The core starts in the invariant.
LEMMA CoreStart == CoreInit => CoreInv
<1> SUFFICES ASSUME CoreInit PROVE CoreInv
  OBVIOUS
<1>1. AtRest
  BY StartsAtRest
<1>2. KindsKnown
  <2>1. lsb_status = "IDLE" /\ lsb_cnt = 0 /\ lsb_out = LoadStoreBuffer!Quiet
    BY DEF CoreInit, LoadStoreBuffer!Init
  <2>2. ~lsb_out.mc_request
    BY <2>1, Zenon DEF LoadStoreBuffer!Quiet
  <2>3. \A i \in LsbIndex : ~Queued(i)
    <3> SUFFICES ASSUME NEW i \in LsbIndex, Queued(i) PROVE FALSE
      OBVIOUS
    <3>1. 1 <= Place(i) /\ Place(i) <= 0
      BY <1>1, <2>1 DEF AtRest, Queued
    <3>2. Place(i) \in Nat
      BY RestingTypes, LsbCircle DEF Place, CoreInit, LoadStoreBuffer!Init
    <3> QED BY <3>1, <3>2
  <2> QED BY <2>2, <2>3 DEF KindsKnown
<1> QED BY <1>1, <1>2, AtRestInv, CoreInitType, IssueStart DEF CoreInv

\* What the dispatcher sends to the load store buffer is a load or a store.
LEMMA DecodedKind == DecodedType /\ Decoded.to_lsb => Decoded.op \in LoadOps \cup StoreOps
<1> SUFFICES ASSUME DecodedType, Decoded.to_lsb PROVE Decoded.op \in LoadOps \cup StoreOps
  OBVIOUS
<1> DEFINE op == fet_out.inst.op
<1>1. Decoder!ToLsb(fet_out.inst) /\ Decoded.op = op
  BY DEF Decoded, Decoder!Decode
<1>2. Opcode(op) \in {"LOAD", "STORE"} /\ op \in InnerInst
  BY <1>1, DecoderNames DEF DecodedType
<1> HIDE DEF op
<1>3. op \in LoadOps \cup StoreOps
  BY <1>2 DEF Opcode, InnerInst, BranchOps, LoadOps, StoreOps, ArithImmOps, ArithOps
<1> QED BY <1>1, <1>3

\* A cycle without reset or rollback keeps the kinds.
LEMMA KindsWork ==
  ASSUME NEW mc, KindsKnown, QueueWorks(mc), DecodedType
  PROVE  KindsKnown'
<1>1. ASSUME NEW i \in LsbIndex, Queued(i)'
      PROVE  lsb_entry'[i].op \in LoadOps \cup StoreOps
  <2>1. QueueStays(i) \/ QueueEnters(i)
    BY <1>1 DEF QueueWorks, QueueMoves
  <2>2. QueueEnters(i) => Decoded.op \in LoadOps \cup StoreOps
    BY DecodedKind DEF QueueEnters
  <2> QED BY <2>1, <2>2 DEF QueueWorks, QueueSlotAfter, KindsKnown
<1>2. lsb_out'.mc_request => Asks /\ Queued(LsbHead) /\ LsbHead \in LsbIndex
  BY DEF QueueWorks, QueueMoves, LsbTells, Reports, Ends, Remains
<1>3. lsb_out'.mc_request => \E op \in LoadOps \cup StoreOps : lsb_out'.mc_goal = Goal(op)
  BY <1>2 DEF KindsKnown, Asks, First
<1> QED BY <1>1, <1>3 DEF KindsKnown

\* So does a rollback.
LEMMA KindsRolledBack ==
  ASSUME KindsKnown, LsbType, RobType, RsType, DecodedType, CommittedFirst, Tags, Silent,
         rob_out.commit_lsb = FALSE, NEW mc \in MemoryOutput,
         LoadStoreBuffer!Rollback(Decoded, Broadcast, rob_out, mc)
  PROVE  KindsKnown'
<1>1. QueueShrinks /\ LsbDrops(mc)
  BY QueueShrinksHolds, LsbRollbackOutputs
<1>2. ASSUME NEW i \in LsbIndex, Queued(i)'
      PROVE  lsb_entry'[i].op \in LoadOps \cup StoreOps
  <2>1. Queued(i)
    BY <1>1, <1>2 DEF QueueShrinks
  <2>2. PICK finished : LsbEntryKept(i, finished)
    BY <1>1, <1>2, KeptAccesses
  <2> QED BY <2>1, <2>2 DEF LsbEntryKept, KindsKnown
<1>3. lsb_out'.mc_request => Asks /\ Queued(LsbHead) /\ LsbHead \in LsbIndex
  <2>1. lsb_out'.mc_request => Running
    BY <1>1 DEF LsbDrops, Reports, Ends, Remains
  <2> QED BY <1>1, <2>1, LsbWires DEF LsbDrops, QueueShrinks
<1>4. lsb_out'.mc_request => \E op \in LoadOps \cup StoreOps : lsb_out'.mc_goal = Goal(op)
  BY <1>3 DEF KindsKnown, Asks, First
<1> QED BY <1>2, <1>4 DEF KindsKnown

\* A reset leaves no access.
LEMMA KindsReset ==
  ASSUME LoadStoreBuffer!Reset
  PROVE  KindsKnown'
<1>1. lsb_head' = 0 /\ lsb_tail' = 0 /\ lsb_out' = LoadStoreBuffer!Quiet
  BY DEF LoadStoreBuffer!Reset
<1>2. \A i \in LsbIndex : ~Queued(i)'
  <2> SUFFICES ASSUME NEW i \in LsbIndex, Queued(i)' PROVE FALSE
    OBVIOUS
  <2>1. 1 <= Dist(0, i, LSB_CAPACITY) /\ Dist(0, i, LSB_CAPACITY) <= 0
    BY <1>1 DEF Queued, Place, Length, Dist
  <2>2. Dist(0, i, LSB_CAPACITY) \in Nat
    BY RestingTypes, LsbCircle
  <2> QED BY <2>1, <2>2
<1>3. ~lsb_out'.mc_request
  BY <1>1, Zenon DEF LoadStoreBuffer!Quiet
<1> QED BY <1>2, <1>3 DEF KindsKnown

\* What the dispatcher sends a component in this cycle finds room there.
LEMMA Room ==
  ASSUME IssueFits
  PROVE  /\ Decoded.issue => ~ReorderBuffer!full_out
         /\ Decoded.to_lsb => ~LoadStoreBuffer!full_out
         /\ Decoded.to_rs => ~ReservationStation!full_out
  BY DecodedIssue DEF IssueFits

\* A cycle keeps the invariant, whatever the memory answers and whether rst is high.
LEMMA CoreStep ==
  ASSUME CoreInv, NEW rst \in BOOLEAN, NEW mc \in MemoryOutput, CoreCycle(rst, mc)
  PROVE  CoreInv'
<1>1. /\ FetcherType /\ RobType /\ RfType /\ RsType /\ LsbType
      /\ Signals /\ Tags /\ CommittedFirst /\ Unmarked
      /\ rob_out.commit_lsb \in BOOLEAN /\ rob_out.rollback \in BOOLEAN
      /\ rob_inner_rollback \in BOOLEAN /\ rob_need_to_rollback \in BOOLEAN
  BY Zenon DEF CoreInv, CoreType, SchedInv, RobType, RobOutput
<1>2. DecodedType
  BY <1>1, DecodedTypes
<1>3. /\ Decoded.issue => ~ReorderBuffer!full_out
      /\ Decoded.to_lsb => ~LoadStoreBuffer!full_out
      /\ Decoded.to_rs => ~ReservationStation!full_out
  BY Room DEF CoreInv, IssueInv
<1>4. /\ ReorderBuffer!Clock(rst, Decoded, Broadcast, lsb_out)
      /\ RegisterFile!Clock(rst, rob_out, Decoded)
      /\ ReservationStation!Clock(rst, Decoded, Broadcast, lsb_out, rob_out)
      /\ LoadStoreBuffer!Clock(rst, Decoded, Broadcast, rob_out, mc)
  BY DEF CoreCycle
<1>5. rob_out.rollback <=> rob_inner_rollback
  BY <1>1 DEF Signals
<1>6. Presents /\ Silent
  BY <1>1, <1>3, PresentsHolds, SilentHolds
<1>7. SchedInv' /\ KindsKnown'
  <2>1. CASE rst
    <3>1. ReorderBuffer!Reset /\ ReservationStation!Clear /\ RegisterFile!Reset /\ LoadStoreBuffer!Reset
      BY <1>4, <2>1 DEF ReorderBuffer!Clock, ReservationStation!Clock, RegisterFile!Clock, LoadStoreBuffer!Clock
    <3> QED BY <3>1, ResetStep, RestStep, KindsReset
  <2>2. CASE ~rst /\ rob_inner_rollback
    <3>1. /\ ReorderBuffer!Reset /\ ReservationStation!Clear /\ RegisterFile!Rollback
          /\ LoadStoreBuffer!Rollback(Decoded, Broadcast, rob_out, mc)
      BY <1>4, <1>5, <2>2 DEF ReorderBuffer!Clock, ReservationStation!Clock, RegisterFile!Clock,
         LoadStoreBuffer!Clock
    <3>2. Inputs
      BY <2>2 DEF CoreInv, SchedInv, NoInput
    <3>3. SchedInv'
      BY <1>1, <1>2, <2>2, <3>1, <3>2, RolledBackHolds, RestStep
    <3>4. rob_out.commit_lsb = FALSE
      BY <1>1, <2>2 DEF Signals
    <3>5. KindsKnown
      BY DEF CoreInv
    <3>6. KindsKnown'
      BY <1>1, <1>2, <1>6, <3>1, <3>4, <3>5, KindsRolledBack
    <3> QED BY <3>3, <3>6
  <2>3. CASE ~rst /\ ~rob_inner_rollback
    <3>1. /\ ReservationStation!Operate(Decoded, Broadcast, lsb_out, rob_out)
          /\ RegisterFile!Operate(rob_out, Decoded)
          /\ LoadStoreBuffer!Operate(Decoded, Broadcast, rob_out, mc)
      BY <1>4, <1>5, <2>3 DEF ReservationStation!Clock, RegisterFile!Clock, LoadStoreBuffer!Clock
    <3>2. QueueMoves
      BY <1>1, <1>3, <3>1, QueueMovesHolds
    <3>3. \A i \in LsbIndex : QueueSlotAfter(i, Finishing(mc) /\ lsb_status = "LOAD")
      BY <1>1, <1>2, <1>3, <1>6, <3>1, QueueSlotsHold
    <3>4. QueueWorks(mc)
      BY <3>1, <3>2, <3>3, LsbOutputs, LsbReasons DEF QueueWorks
    <3>5. StationMoves
      BY <1>1, <1>2, <1>3, <3>1, StationMovesHolds
    <3>6. ASSUME rob_need_to_rollback PROVE SchedInv'
      <4>1. ReorderBuffer!Rollback
        BY <1>4, <2>3, <3>6 DEF ReorderBuffer!Clock
      <4>2. Inputs
        BY <3>6 DEF CoreInv, SchedInv, NoInput
      <4>3. rob_out.commit_lsb = FALSE
        BY <1>1, <3>6 DEF Signals
      <4> QED BY <1>1, <1>6, <3>4, <3>5, <4>1, <4>2, <4>3, AbortStep
    <3>7. ASSUME ~rob_need_to_rollback PROVE SchedInv'
      <4>1. ReorderBuffer!Operate(Decoded, Broadcast, lsb_out)
        BY <1>4, <2>3, <3>7 DEF ReorderBuffer!Clock
      <4>2. RobWorks
        BY <1>1, <1>2, <1>3, <4>1, RobMovesHolds, RobContents DEF RobWorks
      <4>3. \A r \in RegIndex : RegisterAfter(r)
        BY <1>1, <1>6, <3>1, RegistersWork
      <4>4. Scheduled
        BY <2>3 DEF CoreInv, SchedInv
      <4>5. Works(mc)
        BY <1>1, <1>6, <3>4, <3>5, <4>2, <4>3, <4>4 DEF Works
      <4> QED BY <1>1, <4>5, WorkStep
    <3>8. KindsKnown'
      BY <1>2, <3>4, KindsWork DEF CoreInv
    <3> QED BY <1>1, <3>6, <3>7, <3>8
  <2> QED BY <2>1, <2>2, <2>3
<1>8. CoreType' /\ IssueInv'
  BY CoreTypes, IssueCycle DEF CoreInv
<1> QED BY <1>7, <1>8 DEF CoreInv

(***************************************************************************)
(* What the invariant says in the terms of Core.                           *)
(***************************************************************************)
LEMMA Terms ==
  ASSUME RobType, LsbType
  PROVE  /\ \A t : t \in InFlight <=> Flying(t)
         /\ \A t \in RobTag : Age(t) = RobAge(t)
         /\ \A i : i \in QueuedAccesses <=> Queued(i)
<1>1. \A t : t \in InFlight <=> Flying(t)
  BY RobWires DEF InFlight, Flying
<1>2. \A i : i \in QueuedAccesses <=> Queued(i)
  BY LsbWires DEF QueuedAccesses, Queued
<1>3. ASSUME NEW t \in RobTag
      PROVE  Age(t) = RobAge(t)
  <2>1. rob_head \in 1 .. ROB_CAPACITY - 1 /\ t \in 1 .. ROB_CAPACITY - 1 /\ ROB_CAPACITY \in Nat
    BY CapacityAssumption DEF RobTag, RobType, CapacityAssumption
  <2>2. (t - rob_head) % (ROB_CAPACITY - 1) =
           IF rob_head <= t THEN t - rob_head ELSE t - rob_head + (ROB_CAPACITY - 1)
    BY <2>1
  <2> QED BY <2>2 DEF Age, RobAge, Dist, RobSlots
<1> QED BY <1>1, <1>2, <1>3

\* A buffer waits only for what is still going to be announced.
LEMMA OperandsTerm == CoreInv => OperandsStillToCome
<1> SUFFICES ASSUME CoreInv, ~rob_inner_rollback
             PROVE  OperandsStillToCome
  BY DEF OperandsStillToCome
<1>1. /\ RobType /\ LsbType /\ RsType /\ Tags /\ Cleared /\ OperandsInRs /\ OperandsInLsb
  BY DEF CoreInv, CoreType, SchedInv, Scheduled
<1>2. \A q, t \in RobTag : Waits(q, t) => WillAnnounce(q) /\ Age(q) < Age(t)
  BY <1>1, Terms DEF Waits, WillAnnounce, Committed
<1>3. \A q \in Tag : q # NULL_TAG => q \in RobTag
  BY DEF Tag
<1>4. ASSUME NEW i \in RsIndex, NEW q, q # NULL_TAG, RsNeeds(q, i)
      PROVE  WillAnnounce(q) /\ Age(q) < Age(rs_entry[i].dest)
  <2>1. rs_entry[i].busy /\ rs_entry[i].dest \in RobTag
    BY <1>1, <1>4 DEF RsNeeds, Cleared, Tags
  <2>2. q \in RobTag
    <3>1. rs_entry[i].Qj \in Tag /\ rs_entry[i].Qk \in Tag
      BY <1>1, Zenon DEF RsType, RsEntry
    <3> QED BY <1>3, <1>4, <3>1 DEF RsNeeds
  <2> QED BY <1>1, <1>2, <1>4, <2>1, <2>2 DEF OperandsInRs, InRs
<1>5. ASSUME NEW i \in QueuedAccesses, NEW q, q # NULL_TAG, LsbNeeds(q, i)
      PROVE  WillAnnounce(q) /\ Age(q) < Age(lsb_entry[i].rob_tag)
  <2>1. i \in LsbIndex /\ Queued(i)
    BY <1>1, Terms DEF QueuedAccesses
  <2>2. lsb_entry[i].rob_tag \in RobTag
    BY <1>1, <2>1 DEF Tags
  <2>3. q \in RobTag
    <3>1. lsb_entry[i].Qj \in Tag /\ lsb_entry[i].Qk \in Tag
      BY <1>1, <2>1, Zenon DEF LsbType, LsbEntry
    <3> QED BY <1>3, <1>5, <3>1 DEF LsbNeeds
  <2> QED BY <1>1, <1>2, <1>5, <2>1, <2>2, <2>3 DEF OperandsInLsb
<1> QED BY <1>4, <1>5 DEF OperandsStillToCome, RsNeeds, LsbNeeds

\* A busy register names the youngest instruction that writes it.
LEMMA RegistersTerm == CoreInv => RegistersNameYoungest
<1> SUFFICES ASSUME CoreInv, ~rob_inner_rollback, NEW r \in RegIndex \ {0}
             PROVE  LET writers == {t \in InFlight : /\ rob_entry[t].dest = r
                                       /\ rob_entry[t].opcode \notin {"BRANCH", "STORE"}}
                    IN IF writers # {}
                         THEN /\ rf_busy[r]
                              /\ rf_rob_tag[r] \in writers
                              /\ \A t \in writers : Age(t) <= Age(rf_rob_tag[r])
                         ELSE rf_busy[r] <=> /\ rob_out.commit_rf /\ rob_out.target = r
                                             /\ rf_rob_tag[r] = rob_out.tag
  BY DEF RegistersNameYoungest
<1> DEFINE writers == {t \in InFlight : /\ rob_entry[t].dest = r
                                        /\ rob_entry[t].opcode \notin {"BRANCH", "STORE"}}
<1>1. /\ RobType /\ LsbType /\ Names
  BY DEF CoreInv, CoreType, SchedInv, Scheduled
<1>2. \A t : t \in writers <=> t \in RobTag /\ Writes(t, r)
  BY <1>1, Terms DEF Writes, Op, Flying
<1>3. \A t \in RobTag : Age(t) = RobAge(t)
  BY <1>1, Terms
<1> HIDE DEF writers
<1>4. CASE NamesYoungest(r)
  BY <1>2, <1>3, <1>4 DEF NamesYoungest, writers
<1>5. CASE NamesNone(r)
  <2>1. writers = {}
    BY <1>2, <1>5 DEF NamesNone
  <2> QED BY <2>1, <1>5 DEF NamesNone, writers
<1> QED BY <1>1, <1>4, <1>5 DEF Names

\* The input a rollback finds, and the mark of a free slot.
LEMMA InputTerm == CoreInv => NoInputTakenBack /\ NoInheritedMark
<1> SUFFICES ASSUME CoreInv PROVE NoInputTakenBack /\ NoInheritedMark
  OBVIOUS
<1>1. RobType /\ LsbType /\ NoInput /\ Unmarked
  BY DEF CoreInv, CoreType, SchedInv
<1>2. \A i \in QueuedAccesses : i \in LsbIndex /\ Queued(i)
  BY <1>1, Terms DEF QueuedAccesses
<1> QED BY <1>1, <1>2, Terms DEF NoInput, Inputs, Unmarked, NoInputTakenBack, NoInheritedMark

\* The places that work on a tag, in the terms of the invariant.
LEMMA WorkerPlaces ==
  ASSUME RobType, LsbType, NEW t \in RobTag, NEW w
  PROVE  w \in Workers(t) <=>
           \/ \E i \in RsIndex : InRs(t, i) /\ w = <<"RS", i>>
           \/ \E i \in LsbIndex : InLsb(t, i) /\ w = <<"LSB", i>>
           \/ InAlu(t) /\ w = <<"ALU", 0>>
           \/ Loading(t) /\ w = <<"LOAD", 0>>
           \/ Loaded(t) /\ w = <<"RESULT", 0>>
<1>1. \A i : i \in QueuedAccesses <=> Queued(i)
  BY Terms
<1>2. \A i \in LsbIndex : InLsb(t, i) <=> /\ i \in QueuedAccesses /\ lsb_entry[i].rob_tag = t
                                          /\ lsb_entry[i].store => ~lsb_entry[i].commit_flag
  BY <1>1 DEF InLsb, Live
<1>3. \A i \in QueuedAccesses : i \in LsbIndex
  BY DEF QueuedAccesses
<1> DEFINE A == {i \in RsIndex : rs_entry[i].busy /\ rs_entry[i].dest = t}
           B == {i \in QueuedAccesses : /\ lsb_entry[i].rob_tag = t
                                        /\ lsb_entry[i].store => ~lsb_entry[i].commit_flag}
           If(b, place) == IF b THEN {place} ELSE {}
<1>4. Workers(t) = (({"RS"} \X A) \cup ({"LSB"} \X B))
                     \cup If(InAlu(t), <<"ALU", 0>>)
                     \cup If(Loading(t), <<"LOAD", 0>>)
                     \cup If(Loaded(t), <<"RESULT", 0>>)
  BY DEF Workers, InAlu, Loading, Loaded
<1>5. \A S, x : w \in {x} \X S <=> \E i \in S : w = <<x, i>>
  OBVIOUS
<1>6. \A b, place : w \in If(b, place) <=> b /\ w = place
  BY Zenon
<1>7. \A i : i \in A <=> i \in RsIndex /\ InRs(t, i)
  BY DEF InRs
<1>8. \A i : i \in B <=> i \in LsbIndex /\ InLsb(t, i)
  BY <1>2, <1>3
<1> HIDE DEF A, B, If
<1>9. w \in Workers(t) <=> \/ w \in {"RS"} \X A
                           \/ w \in {"LSB"} \X B
                           \/ w \in If(InAlu(t), <<"ALU", 0>>)
                           \/ w \in If(Loading(t), <<"LOAD", 0>>)
                           \/ w \in If(Loaded(t), <<"RESULT", 0>>)
  BY <1>4, Zenon
<1>10. w \in {"RS"} \X A <=> \E i \in RsIndex : InRs(t, i) /\ w = <<"RS", i>>
  BY <1>5, <1>7
<1>11. w \in {"LSB"} \X B <=> \E i \in LsbIndex : InLsb(t, i) /\ w = <<"LSB", i>>
  BY <1>5, <1>8
<1>12. /\ w \in If(InAlu(t), <<"ALU", 0>>) <=> InAlu(t) /\ w = <<"ALU", 0>>
       /\ w \in If(Loading(t), <<"LOAD", 0>>) <=> Loading(t) /\ w = <<"LOAD", 0>>
       /\ w \in If(Loaded(t), <<"RESULT", 0>>) <=> Loaded(t) /\ w = <<"RESULT", 0>>
  BY <1>6
<1> QED BY <1>9, <1>10, <1>11, <1>12

\* An unfinished instruction is worked on at one place, a finished one nowhere.
LEMMA WorkersTerm == CoreInv => OneWorkerEach
<1> SUFFICES ASSUME CoreInv, ~rob_inner_rollback, NEW t \in InFlight
             PROVE  Cardinality(Workers(t)) = IF rob_entry[t].ready THEN 0 ELSE 1
  BY DEF OneWorkerEach
<1>1. /\ RobType /\ LsbType /\ Owned /\ Alone /\ Worked /\ rob_head \in RobTag
  BY DEF CoreInv, CoreType, SchedInv, Scheduled, RobType
<1>2. t \in RobTag /\ Flying(t) /\ t # rob_head
  <2>1. Flying(t) /\ ~Flying(rob_head)
    BY <1>1, Terms, RobWires
  <2> QED BY <2>1 DEF Flying
<1>3. \A w : w \in Workers(t) <=>
           \/ \E i \in RsIndex : InRs(t, i) /\ w = <<"RS", i>>
           \/ \E i \in LsbIndex : InLsb(t, i) /\ w = <<"LSB", i>>
           \/ InAlu(t) /\ w = <<"ALU", 0>>
           \/ Loading(t) /\ w = <<"LOAD", 0>>
           \/ Loaded(t) /\ w = <<"RESULT", 0>>
  BY <1>1, <1>2, WorkerPlaces
<1>4. /\ \A i \in RsIndex : InRs(t, i) => OfRs(t)
      /\ InAlu(t) => OfRs(t)
      /\ Loading(t) \/ Loaded(t) => OfLoad(t)
  BY <1>1, <1>2 DEF Owned, OwnedInRs, OwnedInAlu, OwnedByLoad, OwnedByResult
<1>5. \A i \in LsbIndex : InLsb(t, i) => OfStore(t) \/ OfLoad(t)
  <2> SUFFICES ASSUME NEW i \in LsbIndex, InLsb(t, i) PROVE OfStore(t) \/ OfLoad(t)
    OBVIOUS
  <2>1. ~PendingStore(i)
    BY <1>2 DEF PendingStore, InLsb
  <2> QED BY <1>1, <1>2, <2>1 DEF Owned, OwnedInLsb
<1>6. CASE rob_entry[t].ready
  <2>1. ~OfRs(t) /\ ~OfLoad(t) /\ ~OfStore(t)
    BY <1>6 DEF OfRs, OfLoad, OfStore, Unfinished
  <2>2. \A w : w \notin Workers(t)
    BY <1>3, <1>4, <1>5, <2>1
  <2>3. Workers(t) = {}
    BY <2>2
  <2> QED BY <1>6, <2>3, FS_EmptySet
<1>7. CASE ~rob_entry[t].ready
  <2>1. Unfinished(t)
    BY <1>2, <1>7 DEF Unfinished
  <2>2. PICK w : w \in Workers(t)
    BY <1>1, <1>2, <1>3, <2>1 DEF Worked
  <2>3. \A i, j \in RsIndex : InRs(t, i) /\ InRs(t, j) => i = j
    BY <1>1, <1>2 DEF Alone, AloneInRs
  <2>4. \A i \in RsIndex : InRs(t, i) => ~InAlu(t)
    BY <1>1, <1>2 DEF Alone, AloneInAlu
  <2>5. \A i \in LsbIndex : InLsb(t, i) => ~Loading(t) /\ ~Loaded(t)
    BY <1>1, <1>2 DEF Alone, AloneInLsb
  <2>6. ~(Loading(t) /\ Loaded(t))
    BY <1>1 DEF Alone, OneLoad, Loading, Loaded
  <2>7. \A i, j \in LsbIndex : InLsb(t, i) /\ InLsb(t, j) => i = j
    <3> SUFFICES ASSUME NEW i \in LsbIndex, NEW j \in LsbIndex, InLsb(t, i), InLsb(t, j) PROVE i = j
      OBVIOUS
    <3>1. Place(i) \in Nat /\ Place(j) \in Nat /\ (Place(i) = Place(j) => i = j)
      BY <1>1, LsbWires
    <3>2. RobAge(t) \in Int
      BY <1>1, <1>2, RobCircle DEF RobAge
    <3>3. ~(Place(i) < Place(j)) /\ ~(Place(j) < Place(i))
      BY <1>1, <1>2, <3>2 DEF Alone, InOrder
    <3> QED BY <3>1, <3>3
  <2>8. ~(OfRs(t) /\ (OfLoad(t) \/ OfStore(t)))
    BY DEF OfRs, OfLoad, OfStore
  <2>9. ASSUME NEW u \in Workers(t), NEW v \in Workers(t) PROVE u = v
    <3>1. CASE OfRs(t)
      BY <1>3, <1>4, <1>5, <2>3, <2>4, <2>8, <3>1
    <3>2. CASE ~OfRs(t)
      BY <1>3, <1>4, <1>5, <2>5, <2>6, <2>7, <3>2
    <3> QED BY <3>1, <3>2
  <2>10. Workers(t) = {w}
    BY <2>2, <2>9
  <2> QED BY <1>7, <2>10, FS_Singleton
<1> QED BY <1>6, <1>7

\* There are as many accesses in the load store buffer as from its head to its tail.
LEMMA QueueSize == LsbType => Cardinality(QueuedAccesses) = Length
<1> SUFFICES ASSUME LsbType PROVE Cardinality(QueuedAccesses) = Length
  OBVIOUS
<1> DEFINE f == [i \in QueuedAccesses |-> Place(i)]
<1>1. /\ Length \in Nat
      /\ \A i \in LsbIndex : Place(i) \in Nat
      /\ \A i, j \in LsbIndex : Place(i) = Place(j) => i = j
      /\ \A k \in 1 .. Length : \E i \in LsbIndex : Queued(i) /\ Place(i) = k
      /\ \A i : i \in QueuedAccesses => i \in LsbIndex /\ 1 <= Place(i) /\ Place(i) <= Length
      /\ \A i \in LsbIndex : Queued(i) => i \in QueuedAccesses
  <2>1. \A i : i \in QueuedAccesses <=> i \in LsbIndex /\ LoadStoreBuffer!in_queue(i)
    BY DEF QueuedAccesses
  <2> QED BY <2>1, LsbWires
<1>2. f \in [QueuedAccesses -> 1 .. Length]
  BY <1>1
<1>3. \A i, j \in QueuedAccesses : f[i] = f[j] => i = j
  BY <1>1
<1>4. \A k \in 1 .. Length : \E i \in QueuedAccesses : f[i] = k
  BY <1>1
<1> HIDE DEF f
<1>5. f \in Bijection(QueuedAccesses, 1 .. Length)
  BY <1>2, <1>3, <1>4, Fun_IsBij
<1>6. ExistsBijection(QueuedAccesses, 1 .. Length)
  BY <1>5 DEF ExistsBijection
<1>7. ExistsBijection(1 .. Length, QueuedAccesses)
  BY <1>6, Fun_ExistsBijSymmetric
<1>8. IsFiniteSet(1 .. Length) /\ Cardinality(1 .. Length) = Length
  BY <1>1, FS_Interval
<1> QED BY <1>7, <1>8, FS_Bijection

\* The oldest accesses are those committed or released, and no others.
LEMMA CommittedTerm == CoreInv => CommittedAccessesFirst
<1> SUFFICES ASSUME CoreInv PROVE CommittedAccessesFirst
  OBVIOUS
<1>1. /\ LsbType /\ CommittedFirst /\ rob_out.commit_lsb \in BOOLEAN
  BY Zenon DEF CoreInv, CoreType, SchedInv, RobType, RobOutput
<1>2. Cardinality(QueuedAccesses) = Length
  BY <1>1, QueueSize
<1>3. /\ lsb_cnt \in Nat /\ Length \in Nat /\ Length <= LSB_CAPACITY - 1 /\ LSB_CAPACITY \in Nat
      /\ Due \in Nat /\ Due <= Length
      /\ Due = IF rob_out.commit_lsb THEN lsb_cnt + 1 ELSE lsb_cnt
  BY <1>1, LsbWires, DueFirst
<1>4. ASSUME NEW k \in 1 .. Length
      PROVE  LET i == LoadStoreBuffer!Slot(lsb_head + k)
             IN i \in LsbIndex /\ Queued(i) /\ Place(i) = k
  <2>1. k \in LsbIndex
    BY <1>3, <1>4 DEF LsbIndex
  <2>2. lsb_head \in LsbIndex
    BY <1>1 DEF LsbType
  <2>3. /\ LoadStoreBuffer!Slot(lsb_head + k) \in LsbIndex
        /\ Dist(lsb_head, LoadStoreBuffer!Slot(lsb_head + k), LSB_CAPACITY) = k
    BY <2>1, <2>2, LsbCircle
  <2> QED BY <1>3, <2>3 DEF Queued, Place
<1>5. \A k \in 1 .. Length : lsb_entry[LoadStoreBuffer!Slot(lsb_head + k)].commit_flag <=> k <= lsb_cnt
  BY <1>1, <1>4 DEF CommittedFirst
<1>6. \A k \in 1 .. Due : CanRun(lsb_entry[LoadStoreBuffer!Slot(lsb_head + k)])
  <2> SUFFICES ASSUME NEW k \in 1 .. Due
               PROVE  CanRun(lsb_entry[LoadStoreBuffer!Slot(lsb_head + k)])
    OBVIOUS
  <2>1. k \in 1 .. Length /\ (k <= lsb_cnt \/ (rob_out.commit_lsb /\ k = lsb_cnt + 1))
    BY <1>3
  <2> QED BY <1>1, <1>4, <2>1 DEF CommittedFirst
<1> QED BY <1>2, <1>3, <1>5, <1>6 DEF CommittedAccessesFirst, CanRun, Due

\* The core's invariant is about the core's registers only.
LEMMA CoreStutter == CoreInv /\ UNCHANGED coreVars => CoreInv'
<1> SUFFICES ASSUME CoreInv, UNCHANGED coreVars PROVE CoreInv'
  OBVIOUS
<1> USE DEF coreVars, fetVars, robVars, rfVars, rsVars, lsbVars
<1>1. CoreType => CoreType'
  BY DEF CoreType, FetcherType, RobType, RfType, RsType, LsbType
<1>2. IssueInv => IssueInv'
  BY DEF IssueInv, IssueFits, IssuesAlone, Pointers, LoadStoreBuffer!full_out, LoadStoreBuffer!tail_next,
     ReorderBuffer!full_out, ReorderBuffer!tail_next, ReservationStation!full_out, ReservationStation!Free
<1>3. Signals /\ Tags /\ CommittedFirst => (Signals /\ Tags /\ CommittedFirst)'
  BY DEF Signals, Tags, CommittedFirst, Queued, Place, Length
<1>4. Unmarked /\ NoInput /\ Cleared /\ KindsKnown => (Unmarked /\ NoInput /\ Cleared /\ KindsKnown)'
  BY DEF KindsKnown, Unmarked, Flying, RobAge, NoInput, Inputs, Queued, Place, Length, Cleared
<1>5. Owned /\ Alone => (Owned /\ Alone)'
  BY DEF Owned, Alone, AloneInAlu, AloneInLsb, AloneInRs, Flying, InAlu, InLsb, InOrder, InRs, Length, Live,
     Loaded, Loading, OfLoad, OfRs, OfStore, OneLoad, Op, OwnedByLoad, OwnedByResult, OwnedInAlu, OwnedInLsb,
     OwnedInRs, PendingStore, Place, Queued, RobAge, Unfinished
<1>6. Worked /\ StoresNotReady => (Worked /\ StoresNotReady)'
  BY DEF Worked, StoresNotReady, Flying, InAlu, InLsb, InRs, Length, Live, Loaded, Loading, Place, Queued,
     RobAge, Unfinished, Op
<1>7. CommitPending /\ Released /\ Marks => (CommitPending /\ Released /\ Marks)'
  BY DEF CommitPending, Released, Marks, Announced, Flying, Length, Loading, Marked, PendingStore, Place,
     Queued, RobAge
<1>8. OperandsInRs /\ OperandsInLsb /\ Names => (OperandsInRs /\ OperandsInLsb /\ Names)'
  BY DEF OperandsInRs, OperandsInLsb, Names, NamesNone, NamesYoungest, Committed, Flying, Length, Live,
     LsbNeeds,
     Op, Place, Queued, RobAge, RsNeeds, Waits, Writes, InRs, InLsb
<1>9. rob_inner_rollback' = rob_inner_rollback
  OBVIOUS
<1> QED BY <1>1, <1>2, <1>3, <1>4, <1>5, <1>6, <1>7, <1>8, <1>9 DEF CoreInv, SchedInv, Scheduled

(***************************************************************************)
(* Requests and answers, as the core sees them: whatever serves its        *)
(* requests agrees with it on which are under way.                         *)
(***************************************************************************)
Nowhere(a, b, c) == ~a /\ ~b /\ ~c
Single(a, b, c)  == (a \/ b \/ c) /\ ~(a /\ b) /\ ~(a /\ c) /\ ~(b /\ c)

\* A fetch is on its way to the memory, pending there, or answered, exactly
\* while the fetcher waits.
FetchAgreed(pending, ready) ==
  /\ fet_status = "WAITING" => Single(fet_out.mc_request, pending, ready)
  /\ fet_status # "WAITING" => Nowhere(fet_out.mc_request, pending, ready)

\* What the memory does with fetches in a cycle: of the fetch pending before
\* it, the one pending after it, and the answer it gives.
FetchServed(rst, pending, pending1, ready1) ==
  IF rst \/ rob_out.rollback
    THEN ~pending1 /\ ~ready1
    ELSE /\ fet_out.mc_request => pending1
         /\ ready1 => pending /\ (~fet_out.mc_request => ~pending1)
         /\ ~ready1 /\ ~fet_out.mc_request => (pending1 <=> pending)

\* The same for the data access, with its kind and its address.
AccessAgreed(pending, store, ready) ==
  /\ lsb_status # "IDLE" => Single(lsb_out.mc_request, pending, ready)
  /\ lsb_status = "IDLE" => Nowhere(lsb_out.mc_request, pending, ready)
  /\ lsb_out.mc_request => (lsb_out.mc_store <=> lsb_status = "STORE")
  /\ pending => (store <=> lsb_status = "STORE")
  /\ lsb_out.mc_request => lsb_out.mc_address = lsb_current_address

\* A rollback drops what the buffer gives up: everything but a store, and a load
\* from an I/O address that arrives in this cycle.
AccessServed(rst, pending, store, pending1, store1, ready1) ==
  IF rst THEN ~pending1 /\ ~ready1
  ELSE IF rob_out.rollback
    THEN /\ ~ready1
         /\ IF lsb_out.mc_request /\ (lsb_out.mc_store \/ IsIo(lsb_out.mc_address))
              THEN pending1 /\ (store1 <=> lsb_out.mc_store)
              ELSE /\ pending1 <=> pending /\ store
                   /\ pending1 => store1
    ELSE /\ ready1 => pending
         /\ lsb_out.mc_request => pending1 /\ (store1 <=> lsb_out.mc_store)
         /\ ~lsb_out.mc_request => /\ pending1 <=> pending /\ ~ready1
                                   /\ pending1 => (store1 <=> store)

\* What the fetcher does about its fetches.
LEMMA FetcherWaits ==
  ASSUME NEW rst \in BOOLEAN, NEW mc, Fetcher!Clock(rst, AnyFull, rob_out, mc)
  PROVE  IF rst \/ rob_out.rollback
           THEN fet_status' # "WAITING" /\ ~fet_out'.mc_request
           ELSE /\ fet_status = "WAITING"
                     => (fet_status' = "WAITING" <=> ~mc.fet_ready) /\ ~fet_out'.mc_request
                /\ fet_status # "WAITING" => (fet_status' = "WAITING" <=> fet_out'.mc_request)
<1> USE DEF Fetcher!Quiet
<1>1. CASE rst /\ Fetcher!Reset
  BY <1>1 DEF Fetcher!Reset
<1>2. CASE ~rst /\ rob_out.rollback /\ Fetcher!Rollback(rob_out)
  BY <1>2 DEF Fetcher!Rollback
<1>3. CASE ~rst /\ ~rob_out.rollback /\ Fetcher!Operate(AnyFull, rob_out, mc)
  <2>1. CASE Fetcher!Hit
    BY <1>3, <2>1 DEF Fetcher!Hit
  <2>2. CASE Fetcher!Miss
    BY <1>3, <2>2 DEF Fetcher!Miss
  <2>3. CASE Fetcher!Fill(mc)
    BY <1>3, <2>3 DEF Fetcher!Fill
  <2>4. CASE Fetcher!Issue(AnyFull)
    BY <1>3, <2>4 DEF Fetcher!Issue
  <2>5. CASE Fetcher!Wait(AnyFull, mc)
    BY <1>3, <2>5 DEF Fetcher!Wait
  <2> QED BY <1>3, <2>1, <2>2, <2>3, <2>4, <2>5 DEF Fetcher!Operate
<1> QED BY <1>1, <1>2, <1>3 DEF Fetcher!Clock

\* So the fetcher and the memory go on agreeing.
LEMMA FetchAgreedStep ==
  ASSUME NEW rst \in BOOLEAN, NEW mc, NEW pending, NEW pending1, NEW ready1,
         FetchAgreed(pending, mc.fet_ready), FetchServed(rst, pending, pending1, ready1),
         Fetcher!Clock(rst, AnyFull, rob_out, mc)
  PROVE  FetchAgreed(pending1, ready1)'
BY FetcherWaits DEF FetchAgreed, FetchServed, Single, Nowhere

\* A cycle of the load store buffer, and what the memory does in it, keep them in
\* agreement.
LEMMA AccessAgreedStep ==
  ASSUME LsbType, NoInput, Signals, NEW rst \in BOOLEAN, NEW mc,
         NEW pending, NEW store, NEW pending1, NEW store1, NEW ready1,
         AccessAgreed(pending, store, mc.lsb_ready),
         AccessServed(rst, pending, store, pending1, store1, ready1),
         LoadStoreBuffer!Clock(rst, Decoded, Broadcast, rob_out, mc)
  PROVE  AccessAgreed(pending1, store1, ready1)'
<1>1. /\ lsb_status \in {"IDLE", "LOAD", "STORE"}
      /\ lsb_status # "IDLE" => Single(lsb_out.mc_request, pending, mc.lsb_ready)
      /\ lsb_status = "IDLE" => Nowhere(lsb_out.mc_request, pending, mc.lsb_ready)
      /\ lsb_out.mc_request => (lsb_out.mc_store <=> lsb_status = "STORE")
      /\ pending => (store <=> lsb_status = "STORE")
      /\ lsb_out.mc_request => lsb_out.mc_address = lsb_current_address
  BY DEF LsbType, AccessAgreed
<1>2. First.store \in BOOLEAN
  <2>1. lsb_entry \in [LsbIndex -> LsbEntry] /\ LsbHead \in LsbIndex
    BY LsbWires DEF LsbType
  <2> QED BY <2>1, Zenon DEF First, LsbEntry
<1>3. SUFFICES /\ lsb_status' # "IDLE" => Single(lsb_out'.mc_request, pending1, ready1)
               /\ lsb_status' = "IDLE" => Nowhere(lsb_out'.mc_request, pending1, ready1)
               /\ lsb_out'.mc_request => (lsb_out'.mc_store <=> lsb_status' = "STORE")
               /\ pending1 => (store1 <=> lsb_status' = "STORE")
               /\ lsb_out'.mc_request => lsb_out'.mc_address = lsb_current_address'
  BY DEF AccessAgreed
<1>4. CASE rst
  <2>1. lsb_status' = "IDLE" /\ ~lsb_out'.mc_request
    BY <1>4 DEF LoadStoreBuffer!Clock, LoadStoreBuffer!Reset, LoadStoreBuffer!Idle, LoadStoreBuffer!Quiet
  <2> QED BY <1>4, <2>1 DEF AccessServed, Nowhere
<1>5. CASE ~rst /\ ~rob_out.rollback
  <2>1. LsbTells(mc)
    BY <1>5, LsbOutputs DEF LoadStoreBuffer!Clock
  <2>2. CASE Issuing
    BY <1>1, <1>2, <1>5, <2>1, <2>2 DEF AccessServed, LsbTells, Asks, Single, Nowhere
  <2>3. CASE Noticing
    BY <1>1, <1>5, <2>1, <2>3 DEF AccessServed, LsbTells, Reports, Single, Nowhere
  <2>4. CASE Finishing(mc)
    <3>1. mc.lsb_ready
      BY <2>4 DEF Finishing, LoadStoreBuffer!Finishes
    <3> QED BY <1>1, <1>5, <2>1, <2>4, <3>1 DEF AccessServed, LsbTells, Ends, Single, Nowhere
  <2>5. CASE ~Issuing /\ ~Noticing /\ ~Finishing(mc)
    <3>1. lsb_status # "IDLE" => ~mc.lsb_ready
      BY <2>5 DEF Finishing, LoadStoreBuffer!Finishes
    <3> QED BY <1>1, <1>5, <2>1, <2>5, <3>1 DEF AccessServed, LsbTells, Remains, Single, Nowhere
  <2> QED BY <2>2, <2>3, <2>4, <2>5
<1>6. CASE ~rst /\ rob_out.rollback
  <2>1. LsbDrops(mc)
    BY <1>6, LsbRollbackOutputs DEF LoadStoreBuffer!Clock
  <2>2. ~(lsb_status = "LOAD" /\ IsIo(lsb_current_address))
    BY <1>6 DEF Signals, NoInput, Inputs
  <2>3. Abandoning <=> lsb_status = "LOAD"
    BY <2>2 DEF Abandoning
  <2>4. CASE Running
    BY <1>1, <1>2, <1>6, <2>1, <2>4 DEF AccessServed, LsbDrops, Asks, Single, Nowhere
  <2>5. CASE Noticing
    BY <1>1, <1>6, <2>1, <2>5 DEF AccessServed, LsbDrops, Reports, Single, Nowhere
  <2>6. CASE Abandoning
    BY <1>1, <1>6, <2>1, <2>2, <2>3, <2>6 DEF AccessServed, LsbDrops, Single, Nowhere
  <2>7. CASE ~Abandoning /\ Finishing(mc)
    <3>1. mc.lsb_ready
      BY <2>7 DEF Finishing, LoadStoreBuffer!Finishes
    <3> QED BY <1>1, <1>6, <2>1, <2>7, <3>1 DEF AccessServed, LsbDrops, Ends, Single, Nowhere
  <2>8. CASE ~Running /\ ~Noticing /\ ~Abandoning /\ ~Finishing(mc)
    <3>1. lsb_status # "IDLE" => ~mc.lsb_ready
      BY <2>8 DEF Finishing, LoadStoreBuffer!Finishes
    <3> QED BY <1>1, <1>6, <2>1, <2>3, <2>8, <3>1 DEF AccessServed, LsbDrops, Remains, Single, Nowhere
  <2> QED BY <2>4, <2>5, <2>6, <2>7, <2>8
<1> QED BY <1>4, <1>5, <1>6
=============================================================================
