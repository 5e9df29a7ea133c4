----------------------------- MODULE CpuProofs ------------------------------
(***************************************************************************)
(* What holds of Cpu for every word size, every capacity, every program    *)
(* and every timing of the memory, with pauses at any cycle.  The core's   *)
(* part is the invariant of CoreProofs, which every cycle keeps whatever   *)
(* the memory answers; here is what the memory answers.                    *)
(*                                                                         *)
(* And, without pauses, that the pipeline executes the program as the      *)
(* sequential machine does.  To the scheduling (CpuInv) that needs a       *)
(* second invariant (Inv), on the values: every operand that has come is   *)
(* the result of the youngest writer before the instruction, every load    *)
(* got what the programmer sees, every instruction is the program's, and   *)
(* they follow each other where they were guessed to lead.  A commit is    *)
(* then a step of the sequential machine (CommitStep) and every other      *)
(* cycle leaves the programmer's view alone (QuietWork, AbortQuiet,        *)
(* RollbackQuiet).                                                         *)
(***************************************************************************)
EXTENDS Cpu, CoreProofs

(***************************************************************************)
(* The memory's registers.                                                 *)
(***************************************************************************)
MemType == /\ program \in [Word -> Instruction]
           /\ mem_ram \in [Word -> Byte]
           /\ mem_fet_request \in [pending : BOOLEAN, address : Word]
           /\ mem_lsb_request \in [pending : BOOLEAN, store : BOOLEAN, address : Word,
                                   goal : 0 .. WORD_BYTES, data : Word]
           /\ mem_io_reads \in 0 .. IO_PERIOD - 1
           /\ mem_io_writes \in 0 .. IO_PERIOD - 1
           /\ mem_out \in MemoryOutput

\* What the memory has its own names for.
LEMMA MemoryNames ==
  /\ Memory!Word = Word /\ Memory!Byte = Byte /\ Memory!WORD_BYTES = WORD_BYTES
  /\ Memory!Instruction = Instruction /\ Memory!ZeroInstruction = ZeroInstruction
  /\ \A a : Memory!IsIo(a) = IsIo(a)
  /\ \A m, a, n : Memory!ReadBytes(m, a, n) = ReadBytes(m, a, n)
  /\ \A m, a, n, w : Memory!WriteBytes(m, a, n, w) = WriteBytes(m, a, n, w)
<1>1. Memory!WORD_BYTES = WORD_BYTES /\ Memory!Word = Word /\ Memory!Byte = Byte
  BY DEF Memory!WORD_BYTES, WORD_BYTES, Memory!Word, Word, Memory!Byte, Byte
<1>2. Memory!Instruction = Instruction /\ Memory!ZeroInstruction = ZeroInstruction
  BY <1>1 DEF Memory!Instruction, Instruction, Memory!InnerInst, InnerInst, Memory!RegIndex, RegIndex,
     Memory!ZeroInstruction, ZeroInstruction, Memory!BranchOps, BranchOps, Memory!LoadOps, LoadOps,
     Memory!StoreOps, StoreOps, Memory!ArithImmOps, ArithImmOps, Memory!ArithOps, ArithOps
<1>3. \A a : Memory!IsIo(a) = IsIo(a)
  BY DEF Memory!IsIo, IsIo
<1>4. \A m, a, n : Memory!ReadBytes(m, a, n) = ReadBytes(m, a, n)
  BY DEF Memory!ReadBytes, ReadBytes, Memory!Sums, Sums, Memory!Add, Add
<1>5. \A m, a, n, w : Memory!WriteBytes(m, a, n, w) = WriteBytes(m, a, n, w)
  BY DEF Memory!WriteBytes, WriteBytes, Memory!ByteOf, ByteOf, Memory!Sub, Sub
<1> QED BY <1>1, <1>2, <1>3, <1>4, <1>5

\* An input is a word.
LEMMA InputWord ==
  /\ IO_PERIOD \in Nat /\ IO_PERIOD >= 1
  /\ \A n \in 0 .. IO_PERIOD - 1 : n \in Word
  /\ \A n \in Int : n % IO_PERIOD \in 0 .. IO_PERIOD - 1
<1>1. IO_PERIOD \in Nat /\ IO_PERIOD >= 1 /\ IO_PERIOD <= 2^BYTE_BITS
  BY BytePowers, ProgramsAssumption DEF ProgramsAssumption
<1>2. \A n \in 0 .. IO_PERIOD - 1 : n \in Word
  BY <1>1, BytePowers, Powers DEF Word
<1>3. \A n \in Int : n % IO_PERIOD \in 0 .. IO_PERIOD - 1
  BY <1>1, Remainder
<1> QED BY <1>1, <1>2, <1>3

\* The memory at rest.
LEMMA MemoryRest ==
  /\ Memory!Quiet \in MemoryOutput
  /\ Memory!NoFetch \in [pending : BOOLEAN, address : Word]
  /\ Memory!NoAccess \in [pending : BOOLEAN, store : BOOLEAN, address : Word,
                          goal : 0 .. WORD_BYTES, data : Word]
<1>1. 0 \in Word /\ 0 \in 0 .. WORD_BYTES
  BY WordArithmetic, BytePowers
<1>2. Memory!ZeroInstruction \in Instruction
  BY MemoryNames, ZeroType
<1> QED BY <1>1, <1>2, Zenon DEF Memory!Quiet, Memory!NoFetch, Memory!NoAccess, MemoryOutput

\* A cycle keeps the types of the memory's registers.
LEMMA MemoryTypes ==
  ASSUME MemType, FetcherType, LsbType, NEW rst \in BOOLEAN, NEW serves,
         program' = program,
         Memory!Clock(rst, rob_out, fet_out, lsb_out, serves, program)
  PROVE  MemType'
<1> DEFINE Fetches == [pending : BOOLEAN, address : Word]
           Accesses == [pending : BOOLEAN, store : BOOLEAN, address : Word,
                        goal : 0 .. WORD_BYTES, data : Word]
           Periods == 0 .. IO_PERIOD - 1
<1>1. /\ program \in [Word -> Instruction] /\ mem_ram \in [Word -> Byte]
      /\ mem_fet_request \in Fetches /\ mem_lsb_request \in Accesses
      /\ mem_io_reads \in Periods /\ mem_io_writes \in Periods
      /\ mem_out \in MemoryOutput
  BY DEF MemType
<1>2. Memory!NoFetch \in Fetches /\ Memory!NoAccess \in Accesses /\ Memory!Quiet \in MemoryOutput
  BY MemoryRest
<1>3. Memory!FetchOf(fet_out) \in Fetches
  BY Zenon DEF Memory!FetchOf, FetcherType, FetcherOutput
<1>4. Memory!AccessOf(lsb_out) \in Accesses
  <2>1. /\ lsb_out.mc_store \in BOOLEAN /\ lsb_out.mc_address \in Word
        /\ lsb_out.mc_goal \in 0 .. WORD_BYTES /\ lsb_out.mc_data \in Word
    BY Zenon DEF LsbType, LsbOutput
  <2>2. (IF lsb_out.mc_store THEN lsb_out.mc_data ELSE 0) \in Word
    BY <2>1, WordArithmetic
  <2> QED BY <2>1, <2>2, Zenon DEF Memory!AccessOf
<1>5. \A n \in Periods : \A b : (n + Memory!Flag(b)) % IO_PERIOD \in Periods
  BY InputWord DEF Memory!Flag
<1>6. ASSUME NEW fetch \in Fetches, NEW access \in Accesses, Memory!Accept(fet_out, lsb_out, fetch, access)
      PROVE  mem_fet_request' \in Fetches /\ mem_lsb_request' \in Accesses
  BY <1>3, <1>4, <1>6 DEF Memory!Accept
<1>7. /\ mem_fet_request.address \in Word
      /\ mem_lsb_request.address \in Word /\ mem_lsb_request.goal \in 0 .. WORD_BYTES
      /\ mem_lsb_request.data \in Word
  BY <1>1, Zenon
<1> HIDE DEF Fetches, Accesses, Periods
<1>8. /\ mem_ram' \in [Word -> Byte] /\ mem_fet_request' \in Fetches /\ mem_lsb_request' \in Accesses
      /\ mem_io_reads' \in Periods /\ mem_io_writes' \in Periods /\ mem_out' \in MemoryOutput
  <2>1. CASE Memory!Reset
    BY <1>1, <1>2, <2>1 DEF Memory!Reset
  <2>2. CASE Memory!Rollback(lsb_out)
    BY <1>1, <1>2, <1>4, <2>2 DEF Memory!Rollback
  <2>3. CASE Memory!Work(fet_out, lsb_out)
    BY <1>1, <1>2, <1>6, <2>3 DEF Memory!Work
  <2>4. CASE Memory!FinishFetch(fet_out, lsb_out, program)
    <3> DEFINE i == program[mem_fet_request.address]
    <3>1. i \in Instruction
      BY <1>1, <1>7
    <3> HIDE DEF i
    <3>2. mem_out' = [Memory!Quiet EXCEPT !.fet_ready = TRUE, !.fet_instruction = i]
      BY <2>4 DEF Memory!FinishFetch, i
    <3>3. mem_out' \in MemoryOutput
      BY <1>2, <3>1, <3>2, Zenon DEF MemoryOutput
    <3> QED BY <1>1, <1>2, <1>6, <2>4, <3>3 DEF Memory!FinishFetch
  <2>5. CASE Memory!FinishStore(fet_out, lsb_out)
    <3>1. mem_ram' = WriteBytes(mem_ram, mem_lsb_request.address, mem_lsb_request.goal, mem_lsb_request.data)
      BY <2>5, MemoryNames DEF Memory!FinishStore
    <3>2. mem_ram' \in [Word -> Byte]
      BY <1>1, <1>7, <3>1, WriteBytesMemory
    <3>3. mem_out' \in MemoryOutput
      <4>1. mem_out' = [Memory!Quiet EXCEPT !.lsb_ready = TRUE]
        BY <2>5 DEF Memory!FinishStore
      <4> QED BY <1>2, <4>1, Zenon DEF MemoryOutput
    <3>4. mem_io_writes' \in Periods
      BY <1>1, <1>5, <2>5 DEF Memory!FinishStore
    <3> QED BY <1>1, <1>2, <1>6, <2>5, <3>2, <3>3, <3>4 DEF Memory!FinishStore
  <2>6. CASE Memory!FinishLoad(fet_out, lsb_out)
    <3> DEFINE d == IF Memory!IsIo(mem_lsb_request.address) THEN mem_io_reads
                    ELSE Memory!ReadBytes(mem_ram, mem_lsb_request.address, mem_lsb_request.goal)
    <3>1. d \in Word
      <4>1. mem_io_reads \in Word
        BY <1>1, InputWord DEF Periods
      <4>2. ReadBytes(mem_ram, mem_lsb_request.address, mem_lsb_request.goal) \in Word
        BY <1>1, <1>7, ReadBytesWord
      <4> QED BY <4>1, <4>2, MemoryNames
    <3> HIDE DEF d
    <3>2. mem_out' = [Memory!Quiet EXCEPT !.lsb_ready = TRUE, !.lsb_data = d]
      BY <2>6 DEF Memory!FinishLoad, d
    <3>3. mem_out' \in MemoryOutput
      BY <1>2, <3>1, <3>2, Zenon DEF MemoryOutput
    <3>4. mem_io_reads' \in Periods
      BY <1>1, <1>5, <2>6 DEF Memory!FinishLoad
    <3> QED BY <1>1, <1>2, <1>6, <2>6, <3>3, <3>4 DEF Memory!FinishLoad
  <2> QED BY <2>1, <2>2, <2>3, <2>4, <2>5, <2>6 DEF Memory!Clock
<1> QED BY <1>1, <1>8 DEF MemType, Fetches, Accesses, Periods

(***************************************************************************)
(* Requests and answers.                                                   *)
(***************************************************************************)

\* What the memory controller does with fetches in a cycle.
LEMMA MemoryFetches ==
  ASSUME NEW rst \in BOOLEAN, NEW serves,
         Memory!Clock(rst, rob_out, fet_out, lsb_out, serves, program)
  PROVE  FetchServed(rst, mem_fet_request.pending, mem_fet_request'.pending, mem_out'.fet_ready)
<1> USE DEF FetchServed, Memory!Quiet, Memory!NoFetch, Memory!FetchOf, Memory!Accept
<1>1. CASE rst /\ Memory!Reset
  BY <1>1 DEF Memory!Reset
<1>2. CASE ~rst /\ rob_out.rollback /\ Memory!Rollback(lsb_out)
  BY <1>2 DEF Memory!Rollback
<1>3. CASE /\ ~rst /\ ~rob_out.rollback
           /\ \/ Memory!Work(fet_out, lsb_out)
              \/ Memory!FinishFetch(fet_out, lsb_out, program)
              \/ Memory!FinishStore(fet_out, lsb_out)
              \/ Memory!FinishLoad(fet_out, lsb_out)
  <2>1. CASE Memory!Work(fet_out, lsb_out)
    BY <1>3, <2>1 DEF Memory!Work
  <2>2. CASE Memory!FinishFetch(fet_out, lsb_out, program)
    BY <1>3, <2>2 DEF Memory!FinishFetch
  <2>3. CASE Memory!FinishStore(fet_out, lsb_out)
    BY <1>3, <2>3 DEF Memory!FinishStore
  <2>4. CASE Memory!FinishLoad(fet_out, lsb_out)
    BY <1>3, <2>4 DEF Memory!FinishLoad
  <2> QED BY <1>3, <2>1, <2>2, <2>3, <2>4
<1> QED BY <1>1, <1>2, <1>3 DEF Memory!Clock

\* What the memory does with accesses in a cycle.
LEMMA MemoryAccesses ==
  ASSUME NEW rst \in BOOLEAN, NEW serves,
         Memory!Clock(rst, rob_out, fet_out, lsb_out, serves, program)
  PROVE  AccessServed(rst, mem_lsb_request.pending, mem_lsb_request.store, mem_lsb_request'.pending,
                      mem_lsb_request'.store, mem_out'.lsb_ready)
<1> USE DEF AccessServed, Memory!Quiet, Memory!NoAccess, Memory!AccessOf, Memory!Accept
<1>1. CASE rst /\ Memory!Reset
  BY <1>1 DEF Memory!Reset
<1>2. CASE ~rst /\ rob_out.rollback /\ Memory!Rollback(lsb_out)
  <2>1. IsIo(lsb_out.mc_address) = Memory!IsIo(lsb_out.mc_address)
    BY MemoryNames
  <2> QED BY <1>2, <2>1 DEF Memory!Rollback
<1>3. CASE /\ ~rst /\ ~rob_out.rollback
           /\ \/ Memory!Work(fet_out, lsb_out)
              \/ Memory!FinishFetch(fet_out, lsb_out, program)
              \/ Memory!FinishStore(fet_out, lsb_out)
              \/ Memory!FinishLoad(fet_out, lsb_out)
  <2>1. CASE Memory!Work(fet_out, lsb_out)
    BY <1>3, <2>1 DEF Memory!Work
  <2>2. CASE Memory!FinishFetch(fet_out, lsb_out, program)
    BY <1>3, <2>2 DEF Memory!FinishFetch
  <2>3. CASE Memory!FinishStore(fet_out, lsb_out)
    BY <1>3, <2>3 DEF Memory!FinishStore
  <2>4. CASE Memory!FinishLoad(fet_out, lsb_out)
    BY <1>3, <2>4 DEF Memory!FinishLoad
  <2> QED BY <1>3, <2>1, <2>2, <2>3, <2>4
<1> QED BY <1>1, <1>2, <1>3 DEF Memory!Clock

(***************************************************************************)
(* The inductive invariant, and what follows from it.                      *)
(***************************************************************************)
CpuInv == /\ CoreInv /\ MemType
          /\ FetchAgreed(mem_fet_request.pending, mem_out.fet_ready)
          /\ AccessAgreed(mem_lsb_request.pending, mem_lsb_request.store, mem_out.lsb_ready)
          /\ input_taken \in BOOLEAN

\* The machine starts in the invariant.
LEMMA CpuStart == Init => CpuInv
<1> SUFFICES ASSUME Init PROVE CpuInv
  OBVIOUS
<1>1. CoreInv
  BY CoreStart DEF Init
<1>2. MemType
  <2>1. program \in [Word -> Instruction]
    BY ProgramsAssumption DEF Init, CoreInit, ProgramsAssumption
  <2>2. mem_ram \in [Word -> Byte]
    <3>1. 0 \in Byte
      BY BytePowers DEF Byte
    <3>2. mem_ram = [a \in Memory!Word |-> 0]
      BY DEF Init, Memory!Init
    <3> QED BY <3>1, <3>2, MemoryNames
  <2>3. 0 \in 0 .. IO_PERIOD - 1
    BY InputWord
  <2> QED BY <2>1, <2>2, <2>3, MemoryRest DEF Init, Memory!Init, MemType
<1>3. /\ FetchAgreed(mem_fet_request.pending, mem_out.fet_ready)
      /\ AccessAgreed(mem_lsb_request.pending, mem_lsb_request.store, mem_out.lsb_ready)
  <2>1. /\ lsb_status = "IDLE" /\ ~lsb_out.mc_request
        /\ fet_status # "WAITING" /\ ~fet_out.mc_request
    BY DEF Init, CoreInit, LoadStoreBuffer!Init, LoadStoreBuffer!Quiet, Fetcher!Init, Fetcher!Quiet
  <2>2. ~mem_fet_request.pending /\ ~mem_lsb_request.pending /\ ~mem_out.fet_ready /\ ~mem_out.lsb_ready
    BY DEF Init, Memory!Init, Memory!NoFetch, Memory!NoAccess, Memory!Quiet
  <2> QED BY <2>1, <2>2 DEF AccessAgreed, FetchAgreed, Nowhere
<1> QED BY <1>1, <1>2, <1>3 DEF CpuInv, Init

\* Every cycle, a pause too, keeps it.
LEMMA CpuCycle ==
  ASSUME CpuInv, NEW rst \in BOOLEAN, NEW serves, Cycle(rst, serves)
  PROVE  CpuInv'
<1>1. /\ CoreInv /\ MemType /\ FetcherType /\ LsbType /\ NoInput /\ Signals
      /\ FetchAgreed(mem_fet_request.pending, mem_out.fet_ready)
      /\ AccessAgreed(mem_lsb_request.pending, mem_lsb_request.store, mem_out.lsb_ready)
  BY DEF CpuInv, CoreInv, CoreType, SchedInv
<1>2. /\ Memory!Clock(rst, rob_out, fet_out, lsb_out, serves, program)
      /\ CoreCycle(rst, mem_out)
      /\ program' = program
      /\ Fetcher!Clock(rst, AnyFull, rob_out, mem_out)
      /\ LoadStoreBuffer!Clock(rst, Decoded, Broadcast, rob_out, mem_out)
  BY DEF Cycle, CoreCycle
<1>3. mem_out \in MemoryOutput
  BY <1>1 DEF MemType
<1>4. CoreInv'
  BY <1>1, <1>2, <1>3, CoreStep
<1>5. MemType'
  BY <1>1, <1>2, MemoryTypes
<1>6. FetchAgreed(mem_fet_request.pending, mem_out.fet_ready)'
  <2>1. PICK p, r : p = mem_fet_request'.pending /\ r = mem_out'.fet_ready
    OBVIOUS
  <2>2. FetchServed(rst, mem_fet_request.pending, p, r)
    BY <1>2, <2>1, MemoryFetches
  <2>3. FetchAgreed(p, r)'
    BY <1>1, <1>2, <2>2, FetchAgreedStep
  <2> QED BY <2>1, <2>3 DEF FetchAgreed
<1>7. AccessAgreed(mem_lsb_request.pending, mem_lsb_request.store, mem_out.lsb_ready)'
  <2>1. PICK p, s, r : p = mem_lsb_request'.pending /\ s = mem_lsb_request'.store /\ r = mem_out'.lsb_ready
    OBVIOUS
  <2>2. AccessServed(rst, mem_lsb_request.pending, mem_lsb_request.store, p, s, r)
    BY <1>2, <2>1, MemoryAccesses
  <2>3. AccessAgreed(p, s, r)'
    BY <1>1, <1>2, <2>2, AccessAgreedStep
  <2> QED BY <2>1, <2>3 DEF AccessAgreed
<1>8. input_taken' \in BOOLEAN
  BY DEF Cycle
<1> QED BY <1>4, <1>5, <1>6, <1>7, <1>8 DEF CpuInv

\* CpuInv holds in every state.
LEMMA CpuAlways == PauseSpec => []CpuInv
<1>1. CpuInv /\ PauseNext => CpuInv'
  <2> SUFFICES ASSUME CpuInv, PauseNext PROVE CpuInv'
    OBVIOUS
  <2>1. \E rst \in BOOLEAN, serves \in {"none", "fetch", "data"} : Cycle(rst, serves)
    BY DEF PauseNext, Next, Work, ServeFetch, ServeAccess, Pause
  <2> QED BY <2>1, CpuCycle
<1>2. CpuInv /\ UNCHANGED vars => CpuInv'
  BY CoreStutter DEF CpuInv, MemType, FetchAgreed, AccessAgreed, Single, Nowhere, vars, memVars, coreVars,
                     fetVars, lsbVars
<1> QED BY <1>1, <1>2, CpuStart, PTL DEF PauseSpec

(***************************************************************************)
(* The invariant of the values: everything the machine holds agrees with   *)
(* the program and with what the programmer sees (ArchReg, ArchMem,        *)
(* ArchReads).  It is about the program as fetched, in the order the       *)
(* fetcher guesses; that the guess was right shows only at the commit.     *)
(***************************************************************************)
\* The behaviours on which the pipeline and the sequential machine are to agree.
\* They differ on NOP, AUIPC, SRA and SRAI, and on a shift by a register whose value
\* is not below the width of a word; and the cache does not look at the bits of an
\* address within an instruction, so that a pc that is not aligned hits a wrong line
\* (Fetcher.v:62).
Plain == /\ fet_pc % INST_BYTES = 0
         /\ LET i == program[committed_pc]
            IN /\ i.op \notin {"NOP", "AUIPC", "SRA", "SRAI"}
               /\ i.op \in {"SLL", "SRL"} => ArchReg[i.rs2] < XLEN

\* No rollback is due or under way.
Calm == ~rob_need_to_rollback /\ ~rob_inner_rollback

\* The guess for the instruction i at pc: only a branch or a JALR may be guessed wrong.
Guessed(i, pc, predict) ==
  /\ i.op = "JAL" => predict = Add(pc, i.imm)
  /\ i.op \notin BranchOps \cup {"JAL"} => predict = Add(pc, INST_BYTES)

\* The cache holds the program's instructions.
CacheRight ==
  \A k \in 0 .. ICACHE_CAPACITY - 1, a \in Word :
    /\ fet_icache[k].valid /\ a % INST_BYTES = 0
    /\ Fetcher!CacheIndex(a) = k /\ Fetcher!CacheTag(a) = fet_icache[k].tag
    => fet_icache[k].inst = program[a]

\* So do the fetcher and the answer to its request, which is for its pc.
FetchRight ==
  /\ fet_status = "ISSUING" => fet_inst = program[fet_pc]
  /\ fet_out.mc_request => fet_out.mc_address = fet_pc
  /\ mem_fet_request.pending => mem_fet_request.address = fet_pc
  /\ mem_out.fet_ready => mem_out.fet_instruction = program[fet_pc]

\* What is issued is the instruction at its pc, and the fetcher goes on where it guesses.
IssueRight ==
  fet_out.issue => /\ fet_out.inst = program[fet_out.pc]
                   /\ Guessed(fet_out.inst, fet_out.pc, fet_out.predict_pc)
                   /\ fet_pc = fet_out.predict_pc

\* A rollback restarts where the committed instructions lead.
RestartRight == /\ rob_need_to_rollback => rob_rollback_pc = committed_pc
                /\ rob_inner_rollback => rob_out.fet_rollback_pc = committed_pc /\ ~rob_out.commit

\* The instruction of a tag, and its immediate as the decoder gives it.
InstOf(t) == program[rob_entry[t].pc]
Imm(t)    == Decoder!Immediate(InstOf(t))

\* The pc of the instruction that enters the reorder buffer next.
NextPc == IF fet_out.issue THEN fet_out.pc ELSE fet_pc

\* The instructions under way follow each other, each where the one before it was
\* guessed to lead, from where the committed ones lead to where the fetcher is.
Chained ==
  /\ \A t \in RobTag : Flying(t) /\ RobAge(t) = 1 => rob_entry[t].pc = committed_pc
  /\ \A s, t \in RobTag : Flying(s) /\ Flying(t) /\ RobAge(t) = RobAge(s) + 1
       => rob_entry[t].pc = rob_entry[s].predict_pc
  /\ NextPc = IF rob_head = rob_tail THEN committed_pc ELSE rob_entry[rob_tail].predict_pc

\* The reorder buffer knows of each what it is and where it was guessed to lead.
Held == \A t \in RobTag : Flying(t) =>
  /\ Op(t) = Opcode(InstOf(t).op)
  /\ rob_entry[t].dest = InstOf(t).rd
  /\ Guessed(InstOf(t), rob_entry[t].pc, rob_entry[t].predict_pc)

\* The instruction q has the result v.
Gives(q, v) == \/ rob_entry[q].ready /\ v = rob_entry[q].data
               \/ Loaded(q) /\ v = lsb_out.result

\* Of the instructions before t that write the register r, q is the youngest.
LastWriter(q, t, r) == /\ r # 0 /\ Writes(q, r) /\ RobAge(q) < RobAge(t)
                       /\ \A s \in RobTag : Writes(s, r) /\ RobAge(s) < RobAge(t) => RobAge(s) <= RobAge(q)

\* There is none.
NoWriter(t, r) == r # 0 => \A s \in RobTag : Writes(s, r) => RobAge(t) <= RobAge(s)

\* The value t is to read in the register r is there, and is v.
Has(t, r, v) == \/ NoWriter(t, r) /\ v = ArchReg[r]
                \/ \E q \in RobTag : LastWriter(q, t, r) /\ Gives(q, v)

\* An operand of t, the register r, has the right value or waits for the right instruction.
OperandOk(t, r, q, v) ==
  IF q = NULL_TAG THEN Has(t, r, v)
  ELSE \/ LastWriter(q, t, r)
       \/ Committed(q) /\ NoWriter(t, r) /\ ArchReg[r] = rob_out.data

\* So it is in the reservation station, in the ALU,
RsRight == \A t \in RobTag, i \in RsIndex : InRs(t, i) =>
  LET e == rs_entry[i] IN
  /\ e.op = InstOf(t).op /\ e.imm = Imm(t) /\ e.pc = rob_entry[t].pc
  /\ e.have_rs1 <=> Decoder!HaveRs1(InstOf(t))
  /\ e.have_rs2 <=> Decoder!HaveRs2(InstOf(t))
  /\ e.have_rs1 => OperandOk(t, InstOf(t).rs1, e.Qj, e.Vj)
  /\ e.have_rs2 => OperandOk(t, InstOf(t).rs2, e.Qk, e.Vk)
AluRight == \A t \in RobTag : InAlu(t) =>
  /\ rs_calc.op = InstOf(t).op /\ rs_calc.imm = Imm(t) /\ rs_calc.pc = rob_entry[t].pc
  /\ Decoder!HaveRs1(InstOf(t)) => Has(t, InstOf(t).rs1, rs_calc.rs1val)
  /\ Decoder!HaveRs2(InstOf(t)) => Has(t, InstOf(t).rs2, rs_calc.rs2val)

\* in the load store buffer,
LsbRight == \A t \in RobTag, i \in LsbIndex : InLsb(t, i) /\ Flying(t) =>
  LET e == lsb_entry[i] IN
  /\ e.op = InstOf(t).op /\ e.imm = InstOf(t).imm
  /\ OperandOk(t, InstOf(t).rs1, e.Qj, e.Vj)
  /\ e.store => OperandOk(t, InstOf(t).rs2, e.Qk, e.Vk)

\* and what the reorder buffer holds is what the ALU computes of the right values.
DoneRight == \A t \in RobTag : Flying(t) /\ rob_entry[t].ready /\ Op(t) # "LOAD" =>
  \E a, b \in Word :
    /\ Decoder!HaveRs1(InstOf(t)) => Has(t, InstOf(t).rs1, a)
    /\ Decoder!HaveRs2(InstOf(t)) => Has(t, InstOf(t).rs2, b)
    /\ rob_entry[t].data = Alu!AluResult(InstOf(t).op, a, b, Imm(t), rob_entry[t].pc)
    /\ rob_entry[t].new_pc = Alu!AluNewPc(InstOf(t).op, a, b, Imm(t), rob_entry[t].pc)

\* No store before t is still to commit.
NoStoreBefore(t) == \A s \in RobTag : Flying(s) /\ Op(s) = "STORE" => RobAge(t) < RobAge(s)

\* What the programmer sees at an address, or would read there next.
LoadWord(op, a) == IF IsIo(a) THEN ArchReads ELSE ReadBytes(ArchMem, a, Goal(op))

\* The load that was asked for is the one the load store buffer waits for,
AskedRight ==
  /\ lsb_out.mc_request /\ ~lsb_out.mc_store =>
       lsb_out.mc_address = lsb_current_address /\ lsb_out.mc_goal = Goal(lsb_current_op)
  /\ mem_lsb_request.pending /\ ~mem_lsb_request.store =>
       mem_lsb_request.address = lsb_current_address /\ mem_lsb_request.goal = Goal(lsb_current_op)

\* and the note that the reorder buffer was told of a load at the head ends with that load's request.
NoticedIdle == lsb_noticed => lsb_status = "IDLE"

\* While a load is under way no committed store is queued; one released is alone.
LoadAlone == /\ lsb_status = "LOAD" => Due = 0
             /\ \A i \in LsbIndex : Queued(i) /\ lsb_entry[i].commit_flag /\ ~lsb_entry[i].store => Due = 1

\* It has the right address, and comes after every store before it.
LoadingRight == \A t \in RobTag : Loading(t) =>
  /\ lsb_current_op = InstOf(t).op
  /\ NoStoreBefore(t)
  /\ \E a \in Word : Has(t, InstOf(t).rs1, a) /\ lsb_current_address = Add(a, InstOf(t).imm)

\* An input that was read is taken back from what the programmer sees until its load
\* commits.  (With a period of 1 every input is the same.)
InputKept == input_taken \/ IO_PERIOD = 1

\* The answer is what the programmer sees there.
AnswerRight == lsb_status = "LOAD" /\ mem_out.lsb_ready =>
  /\ mem_out.lsb_data = LoadWord(lsb_current_op, lsb_current_address)
  /\ IsIo(lsb_current_address) => InputKept

\* A load t that got v would get it still: no store that precedes it is to come.
Loads(t, v) == /\ NoStoreBefore(t)
               /\ \E a \in Word :
                    /\ Has(t, InstOf(t).rs1, a)
                    /\ v = LoadResult(InstOf(t).op, LoadWord(InstOf(t).op, Add(a, InstOf(t).imm)))
                    /\ IsIo(Add(a, InstOf(t).imm)) => RobAge(t) = 1 /\ InputKept
LoadedRight == /\ \A t \in RobTag : Loaded(t) => Loads(t, lsb_out.result)
               /\ \A t \in RobTag : Flying(t) /\ rob_entry[t].ready /\ Op(t) = "LOAD" => Loads(t, rob_entry[t].data)

\* An input that is taken is on its way to the commit of the oldest instruction.
Input(t) == /\ Flying(t) /\ RobAge(t) = 1 /\ Op(t) = "LOAD"
            /\ \/ Loading(t) /\ mem_out.lsb_ready /\ IsIo(lsb_current_address)
               \/ (Loaded(t) \/ rob_entry[t].ready)
                  /\ \E a \in Word : Has(t, InstOf(t).rs1, a) /\ IsIo(Add(a, InstOf(t).imm))
TakenRight == input_taken => Calm /\ \E t \in RobTag : Input(t)

\* From the wrong guess to the end of the rollback the instructions under way count for
\* nothing: only what outlives them is right.
ValuesInv == /\ Chained /\ Held /\ RsRight /\ AluRight /\ DoneRight /\ LsbRight
             /\ LoadAlone /\ LoadingRight /\ AnswerRight /\ LoadedRight
Inv == /\ CacheRight /\ FetchRight /\ IssueRight /\ RestartRight /\ NoticedIdle /\ TakenRight
       /\ ~rob_inner_rollback => AskedRight
       /\ Calm => ValuesInv

(***************************************************************************)
(* What a cycle of work does to the values.                                *)
(***************************************************************************)
\* The slot of a tag in the reorder buffer, and what a commit tells.
RobHolds(t) ==
  /\ Stays(t) => /\ rob_entry'[t].pc = rob_entry[t].pc
                 /\ rob_entry'[t].predict_pc = rob_entry[t].predict_pc
                 /\ rob_entry'[t].data = IF Loaded(t) THEN lsb_out.result
                                         ELSE IF InAlu(t) THEN Broadcast.result ELSE rob_entry[t].data
                 /\ rob_entry'[t].new_pc = IF InAlu(t) THEN Broadcast.new_pc ELSE rob_entry[t].new_pc
  /\ Enters(t) => /\ rob_entry'[t].pc = fet_out.pc
                  /\ rob_entry'[t].predict_pc = fet_out.predict_pc

RobPulses ==
  /\ Committing => rob_out'.data = rob_entry[HeadNext].data
  /\ rob_need_to_rollback' <=> Committing /\ ReorderBuffer!Mispredicts(rob_entry[HeadNext])
  /\ rob_need_to_rollback' => rob_rollback_pc' = rob_entry[HeadNext].new_pc

\* The value of q is announced in this cycle, and is v.
Tells(q, v, mc) ==
  \/ InAlu(q) /\ v = Broadcast.result
  \/ Loaded(q) /\ v = lsb_out.result
  \/ Committed(q) /\ v = rob_out.data
  \/ Finishing(mc) /\ Loading(q) /\ v = LoadResult(lsb_current_op, mc.lsb_data)

\* An operand that awaits q, or has the value v, awaits q1 or has v1 after the cycle.
Moves(q, v, q1, v1, mc) ==
  \/ q1 = q /\ v1 = v /\ ~Committed(q)
  \/ q # NULL_TAG /\ q1 = NULL_TAG /\ Tells(q, v1, mc)

RsHolds(i, mc) ==
  /\ Arrives(i) =>
       /\ rs_entry'[i].op = Decoded.op /\ rs_entry'[i].imm = Decoded.imm /\ rs_entry'[i].pc = Decoded.pc
       /\ rs_entry'[i].have_rs1 = Decoded.have_rs1 /\ rs_entry'[i].have_rs2 = Decoded.have_rs2
       /\ Moves(Decoded.Qj, Decoded.Vj, rs_entry'[i].Qj, rs_entry'[i].Vj, mc)
       /\ Moves(Decoded.Qk, Decoded.Vk, rs_entry'[i].Qk, rs_entry'[i].Vk, mc)
  /\ ~Arrives(i) /\ rs_entry'[i].busy =>
       /\ rs_entry'[i].op = rs_entry[i].op /\ rs_entry'[i].imm = rs_entry[i].imm
       /\ rs_entry'[i].pc = rs_entry[i].pc
       /\ Moves(rs_entry[i].Qj, rs_entry[i].Vj, rs_entry'[i].Qj, rs_entry'[i].Vj, mc)
       /\ Moves(rs_entry[i].Qk, rs_entry[i].Vk, rs_entry'[i].Qk, rs_entry'[i].Vk, mc)
  /\ Leaves(i) =>
       /\ rs_entry[i].have_rs1 => rs_entry[i].Qj = NULL_TAG
       /\ rs_entry[i].have_rs2 => rs_entry[i].Qk = NULL_TAG
       /\ rs_calc'.op = rs_entry[i].op /\ rs_calc'.imm = rs_entry[i].imm /\ rs_calc'.pc = rs_entry[i].pc
       /\ rs_calc'.rs1val = rs_entry[i].Vj /\ rs_calc'.rs2val = rs_entry[i].Vk

LsbHolds(i, mc) ==
  /\ QueueEnters(i) =>
       /\ lsb_entry'[i].imm = Decoded.imm
       /\ Moves(Decoded.Qj, Decoded.Vj, lsb_entry'[i].Qj, lsb_entry'[i].Vj, mc)
       /\ Moves(Decoded.Qk, Decoded.Vk, lsb_entry'[i].Qk, lsb_entry'[i].Vk, mc)
  /\ QueueStays(i) =>
       /\ Moves(lsb_entry[i].Qj, lsb_entry[i].Vj, lsb_entry'[i].Qj, lsb_entry'[i].Vj, mc)
       /\ Moves(lsb_entry[i].Qk, lsb_entry[i].Vk, lsb_entry'[i].Qk, lsb_entry'[i].Vk, mc)

\* The words in the slots of the reorder buffer after a cycle.
LEMMA RobWords ==
  ASSUME RobType, RsType, LsbType, DecodedType, Decoded.issue => ~ReorderBuffer!full_out,
         ReorderBuffer!Operate(Decoded, Broadcast, lsb_out)
  PROVE  (\A t \in RobTag : RobHolds(t)) /\ RobPulses
<1> DEFINE u == ReorderBuffer!Updated(Decoded, Broadcast, lsb_out)
<1>1. /\ Broadcast.signal = rs_calc.calculate /\ Broadcast.dest_tag = rs_calc.dest
  BY BroadcastFields
<1>2. HeadNext \in RobTag /\ TailNext \in RobTag
  BY RobWires DEF HeadNext, TailNext
<1>3. ReorderBuffer!RobTag = RobTag
  BY RobNames
<1>4. \A t \in RobTag : ReorderBuffer!in_queue(t) <=> Flying(t)
  BY RobWires
<1>5. ASSUME NEW t \in RobTag, ~Enters(t)
      PROVE  /\ u[t].pc = rob_entry[t].pc
             /\ u[t].predict_pc = rob_entry[t].predict_pc
             /\ Flying(t) => /\ u[t].data = IF Loaded(t) THEN lsb_out.result
                                            ELSE IF InAlu(t) THEN Broadcast.result ELSE rob_entry[t].data
                             /\ u[t].new_pc = IF InAlu(t) THEN Broadcast.new_pc ELSE rob_entry[t].new_pc
  <2>1. rob_entry[t] \in RobEntry
    BY DEF RobType
  <2> QED BY <1>1, <1>3, <1>4, <1>5, <2>1, Zenon
          DEF ReorderBuffer!Updated, Enters, TailNext, InAlu, Loaded, RobEntry
<1>6. ASSUME NEW t \in RobTag, Enters(t)
      PROVE  u[t].pc = fet_out.pc /\ u[t].predict_pc = fet_out.predict_pc
  <2>1. u[t] = ReorderBuffer!Inserted(Decoded, rob_entry[t])
    BY <1>3, <1>6 DEF ReorderBuffer!Updated, Enters, TailNext
  <2>2. ASSUME NEW d, NEW o
        PROVE  LET e == ReorderBuffer!Inserted(d, o)
               IN e.pc = d.pc /\ e.predict_pc = d.predict_pc
    BY Zenon DEF ReorderBuffer!Inserted, ReorderBuffer!EmptyEntry
  <2> QED BY <2>1, <2>2, DecodedFields
<1>7. ReorderBuffer!Commit(Decoded, Broadcast, lsb_out) \/ ReorderBuffer!ReleaseIoLoad(Decoded, Broadcast, lsb_out)
      \/ ReorderBuffer!Hold(Decoded, Broadcast, lsb_out)
  BY DEF ReorderBuffer!Operate
<1>8. \A t \in RobTag : u[t] \in RobEntry
  BY UpdatedType
<1>9. ASSUME NEW t \in RobTag, ~(Committing /\ t = HeadNext)
      PROVE  IF Releasing /\ t = HeadNext
               THEN rob_entry'[t] = [u[t] EXCEPT !.is_io_load = FALSE]
             ELSE rob_entry'[t] = u[t]
  <2>1. u = [i \in RobTag |-> u[i]]
    BY <1>3, Zenon DEF ReorderBuffer!Updated
  <2>2. CASE ReorderBuffer!Commit(Decoded, Broadcast, lsb_out)
    <3>1. Committing /\ rob_entry' = [u EXCEPT ![HeadNext] = ReorderBuffer!Freed(@)]
      BY <2>2 DEF ReorderBuffer!Commit, Committing, HeadNext
    <3> HIDE DEF u
    <3> QED BY <3>1, <2>1, <1>2, <1>9 DEF Releasing
  <2>3. CASE ReorderBuffer!ReleaseIoLoad(Decoded, Broadcast, lsb_out)
    <3>1. Releasing /\ ~Committing /\ rob_entry' = [u EXCEPT ![HeadNext].is_io_load = FALSE]
      BY <2>3 DEF ReorderBuffer!ReleaseIoLoad, Committing, Releasing, HeadNext
    <3> HIDE DEF u
    <3> QED BY <3>1, <2>1, <1>2
  <2>4. CASE ReorderBuffer!Hold(Decoded, Broadcast, lsb_out)
    <3>1. ~Releasing /\ ~Committing /\ rob_entry' = u
      BY <2>4 DEF ReorderBuffer!Hold, Committing, Releasing, HeadNext
    <3> QED BY <3>1
  <2> QED BY <1>7, <2>2, <2>3, <2>4
<1>10. /\ \A t \in RobTag : Enters(t) => ~Flying(t)
       /\ Committing \/ Releasing => Flying(HeadNext)
  BY RobPointers DEF Enters
<1> HIDE DEF u
<1>11. \A t \in RobTag : RobHolds(t)
  <2> SUFFICES ASSUME NEW t \in RobTag PROVE RobHolds(t)
    OBVIOUS
  <2> DEFINE r == [u[t] EXCEPT !.is_io_load = FALSE]
  <2>1. r.pc = u[t].pc /\ r.predict_pc = u[t].predict_pc /\ r.data = u[t].data /\ r.new_pc = u[t].new_pc
    <3>1. u[t] \in RobEntry
      BY <1>8
    <3> QED BY <3>1, Zenon DEF RobEntry
  <2> HIDE DEF r
  <2>2. ~(Committing /\ t = HeadNext) => rob_entry'[t] = r \/ rob_entry'[t] = u[t]
    BY <1>9 DEF r
  <2>3. CASE Stays(t)
    BY <2>1, <2>2, <2>3, <1>5, <1>10 DEF Stays, RobHolds
  <2>4. CASE Enters(t)
    BY <2>1, <2>2, <2>4, <1>6, <1>10 DEF Stays, RobHolds
  <2> QED BY <2>3, <2>4 DEF RobHolds
<1>12. RobPulses
  <2>1. CASE ReorderBuffer!Commit(Decoded, Broadcast, lsb_out)
    <3> DEFINE e == rob_entry[HeadNext]
    <3>1. /\ Committing
          /\ rob_out' = ReorderBuffer!CommitPulse(HeadNext, e)
          /\ rob_need_to_rollback' = ReorderBuffer!Mispredicts(e)
          /\ rob_need_to_rollback' => rob_rollback_pc' = e.new_pc
      BY <2>1 DEF ReorderBuffer!Commit, Committing, HeadNext
    <3> HIDE DEF e
    <3>2. ASSUME NEW t, NEW f
          PROVE  ReorderBuffer!CommitPulse(t, f).data = f.data
      BY Zenon DEF ReorderBuffer!CommitPulse, ReorderBuffer!Quiet
    <3> QED BY <3>1, <3>2 DEF RobPulses, e
  <2>2. CASE ReorderBuffer!ReleaseIoLoad(Decoded, Broadcast, lsb_out)
    BY <2>2 DEF ReorderBuffer!ReleaseIoLoad, Committing, RobPulses
  <2>3. CASE ReorderBuffer!Hold(Decoded, Broadcast, lsb_out)
    BY <2>3 DEF ReorderBuffer!Hold, Committing, RobPulses
  <2> QED BY <1>7, <2>1, <2>2, <2>3
<1> QED BY <1>11, <1>12

\* What an operand that hears a broadcast has and awaits.
Hearing(s, t, d, q, v, q1, v1) ==
  /\ q1 = IF s /\ t = q THEN NULL_TAG ELSE q
  /\ v1 = IF s /\ t = q THEN d ELSE v

\* The operands of a station entry that hears a broadcast.
LEMMA RsHearsValues ==
  ASSUME NEW e \in RsEntry, NEW s, NEW t, NEW d
  PROVE  LET f == ReservationStation!Hear(e, s, t, d)
         IN /\ f.op = e.op /\ f.imm = e.imm /\ f.pc = e.pc
            /\ f.have_rs1 = e.have_rs1 /\ f.have_rs2 = e.have_rs2
            /\ Hearing(s, t, d, e.Qj, e.Vj, f.Qj, f.Vj)
            /\ Hearing(s, t, d, e.Qk, e.Vk, f.Qk, f.Vk)
<1>1. ReservationStation!NULL_TAG = NULL_TAG
  BY RsNames
<1> QED BY <1>1, Zenon DEF ReservationStation!Hear, RsEntry, Hearing

\* An operand that hears a broadcast takes the value, or waits on.
LEMMA HearsOne ==
  ASSUME NEW s, NEW t, NEW d, NEW q, NEW v, NEW q1, NEW v1,
         ~(s /\ t = NULL_TAG), Hearing(s, t, d, q, v, q1, v1)
  PROVE  \/ q1 = q /\ v1 = v /\ ~(s /\ t = q)
         \/ q # NULL_TAG /\ q1 = NULL_TAG /\ v1 = d /\ s /\ t = q
BY DEF Hearing

\* An operand in the station hears the ALU, the load store buffer, and the commit.
LEMMA RsHearing ==
  ASSUME Silent, NEW mc, NEW q, NEW q1, NEW q2, NEW q3, NEW v, NEW v1, NEW v2, NEW v3,
         Hearing(rs_calc.calculate, rs_calc.dest, Broadcast.result, q, v, q1, v1),
         Hearing(lsb_out.broadcast, lsb_out.dest_tag, lsb_out.result, q1, v1, q2, v2),
         Hearing(rob_out.commit, rob_out.tag, rob_out.data, q2, v2, q3, v3)
  PROVE  Moves(q, v, q3, v3, mc)
<1>1. \/ q1 = q /\ v1 = v
      \/ q # NULL_TAG /\ q1 = NULL_TAG /\ Tells(q, v1, mc)
  BY HearsOne DEF Silent, InAlu, Tells
<1>2. \/ q2 = q1 /\ v2 = v1
      \/ q1 # NULL_TAG /\ q2 = NULL_TAG /\ Tells(q1, v2, mc)
  BY HearsOne DEF Silent, Loaded, Tells
<1>3. \/ q3 = q2 /\ v3 = v2 /\ ~Committed(q2)
      \/ q2 # NULL_TAG /\ q3 = NULL_TAG /\ Tells(q2, v3, mc)
  BY HearsOne DEF Silent, Committed, Tells
<1>4. ~Committed(NULL_TAG)
  BY DEF Silent
<1> QED BY <1>1, <1>2, <1>3, <1>4, Zenon DEF Moves

\* One in the load store buffer hears the ALU, the commit, and the load that is finished.
LEMMA QueueHearing ==
  ASSUME Silent, NEW mc, NEW q, NEW q1, NEW q2, NEW q3, NEW v, NEW v1, NEW v2, NEW v3,
         lsb_status = "LOAD" => lsb_current_tag # NULL_TAG,
         Hearing(rs_calc.calculate, rs_calc.dest, Broadcast.result, q, v, q1, v1),
         Hearing(rob_out.commit, rob_out.tag, rob_out.data, q1, v1, q2, v2),
         Hearing(Finishing(mc) /\ lsb_status = "LOAD", lsb_current_tag,
                 LoadResult(lsb_current_op, mc.lsb_data), q2, v2, q3, v3)
  PROVE  Moves(q, v, q3, v3, mc)
<1>1. \/ q1 = q /\ v1 = v
      \/ q # NULL_TAG /\ q1 = NULL_TAG /\ Tells(q, v1, mc)
  BY HearsOne DEF Silent, InAlu, Tells
<1>2. \/ q2 = q1 /\ v2 = v1 /\ ~Committed(q1)
      \/ q1 # NULL_TAG /\ q2 = NULL_TAG /\ Tells(q1, v2, mc)
  BY HearsOne DEF Silent, Committed, Tells
<1>3. \/ q3 = q2 /\ v3 = v2
      \/ q2 # NULL_TAG /\ q3 = NULL_TAG /\ Tells(q2, v3, mc)
  BY DEF Hearing, Loading, Tells
<1>4. ~Committed(NULL_TAG)
  BY DEF Silent
<1>5. \/ q2 = q /\ v2 = v /\ ~Committed(q)
      \/ q # NULL_TAG /\ q2 = NULL_TAG /\ Tells(q, v2, mc)
  BY <1>1, <1>2, <1>4
<1> QED BY <1>3, <1>5 DEF Moves

\* The operand that arrives hears the commit, in the load store buffer the ALU too.
LEMMA ArrivalHearing ==
  ASSUME Silent, NEW mc, NEW q, NEW q1, NEW q2, NEW v, NEW v1, NEW v2,
         Hearing(rob_out.commit, rob_out.tag, rob_out.data, q, v, q1, v1)
  PROVE  /\ Moves(q, v, q1, v1, mc)
         /\ Hearing(rs_calc.calculate, rs_calc.dest, Broadcast.result, q1, v1, q2, v2)
              => Moves(q, v, q2, v2, mc)
<1>1. \/ q1 = q /\ v1 = v /\ ~Committed(q)
      \/ q # NULL_TAG /\ q1 = NULL_TAG /\ Tells(q, v1, mc)
  BY HearsOne DEF Silent, Committed, Tells
<1>2. ASSUME Hearing(rs_calc.calculate, rs_calc.dest, Broadcast.result, q1, v1, q2, v2)
      PROVE  \/ q2 = q1 /\ v2 = v1
             \/ q1 # NULL_TAG /\ q2 = NULL_TAG /\ Tells(q1, v2, mc)
  BY <1>2, HearsOne DEF Silent, InAlu, Tells
<1> QED BY <1>1, <1>2, Zenon DEF Moves

\* The operands in the station after a cycle, and those that go to the ALU.
LEMMA StationWords ==
  ASSUME RsType, RobType, LsbType, DecodedType, Silent, Decoded.to_rs => ~ReservationStation!full_out,
         NEW mc,
         ReservationStation!Operate(Decoded, Broadcast, lsb_out, rob_out)
  PROVE  \A i \in RsIndex : RsHolds(i, mc)
<1> DEFINE Free == ReservationStation!Free
           Ready == ReservationStation!Ready
<1>1. ReservationStation!RsIndex = RsIndex /\ ReservationStation!NULL_TAG = NULL_TAG
  BY RsNames
<1>2. Free \in SUBSET RsIndex /\ Ready \in SUBSET RsIndex
  BY <1>1 DEF ReservationStation!Free, ReservationStation!Ready
<1>3. Decoded.to_rs => Free # {}
  BY DEF ReservationStation!full_out
<1>4. Ready # {} => ReservationStation!Min(Ready) \in Ready
  BY <1>2, MinIndex
<1>5. \A i \in RsIndex :
        rs_entry'[i] = IF Arrives(i) THEN ReservationStation!Arriving(Decoded, rob_out)
                       ELSE IF Leaves(i) \/ ~rs_entry[i].busy THEN ReservationStation!EmptyEntry
                       ELSE ReservationStation!Snooping(rs_entry[i], Broadcast, lsb_out, rob_out)
  BY <1>1, <1>3, Zenon DEF ReservationStation!Operate, Arrives, Leaves
<1>6. ASSUME NEW i \in RsIndex, Leaves(i)
      PROVE  /\ rs_entry[i].have_rs1 => rs_entry[i].Qj = NULL_TAG
             /\ rs_entry[i].have_rs2 => rs_entry[i].Qk = NULL_TAG
             /\ rs_calc'.op = rs_entry[i].op /\ rs_calc'.imm = rs_entry[i].imm /\ rs_calc'.pc = rs_entry[i].pc
             /\ rs_calc'.rs1val = rs_entry[i].Vj /\ rs_calc'.rs2val = rs_entry[i].Vk
  <2>1. i \in Ready /\ Ready # {} /\ i = ReservationStation!Min(Ready)
    BY <1>4, <1>6 DEF Leaves
  <2>2. rs_calc' = ReservationStation!Operation(rs_entry[i])
    BY <2>1 DEF ReservationStation!Operate
  <2>3. \A e : LET o == ReservationStation!Operation(e)
               IN o.op = e.op /\ o.imm = e.imm /\ o.pc = e.pc /\ o.rs1val = e.Vj /\ o.rs2val = e.Vk
    BY Zenon DEF ReservationStation!Operation
  <2>4. /\ rs_entry[i].have_rs1 => rs_entry[i].Qj = NULL_TAG
        /\ rs_entry[i].have_rs2 => rs_entry[i].Qk = NULL_TAG
    BY <2>1, <1>1 DEF ReservationStation!Ready
  <2> QED BY <2>2, <2>3, <2>4
<1>7. ASSUME NEW i \in RsIndex, Arrives(i)
      PROVE  /\ rs_entry'[i].op = Decoded.op /\ rs_entry'[i].imm = Decoded.imm /\ rs_entry'[i].pc = Decoded.pc
             /\ rs_entry'[i].have_rs1 = Decoded.have_rs1 /\ rs_entry'[i].have_rs2 = Decoded.have_rs2
             /\ Moves(Decoded.Qj, Decoded.Vj, rs_entry'[i].Qj, rs_entry'[i].Vj, mc)
             /\ Moves(Decoded.Qk, Decoded.Vk, rs_entry'[i].Qk, rs_entry'[i].Vk, mc)
  <2> DEFINE a == [busy |-> TRUE, have_rs1 |-> Decoded.have_rs1, have_rs2 |-> Decoded.have_rs2,
                   op |-> Decoded.op, imm |-> Decoded.imm, pc |-> Decoded.pc, Vj |-> Decoded.Vj, Vk |-> Decoded.Vk,
                   Qj |-> Decoded.Qj, Qk |-> Decoded.Qk, dest |-> Decoded.next_tag]
             f == rs_entry'[i]
  <2>1. a \in RsEntry
    BY Zenon DEF DecodedType, RsEntry
  <2>2. /\ a.op = Decoded.op /\ a.imm = Decoded.imm /\ a.pc = Decoded.pc
        /\ a.have_rs1 = Decoded.have_rs1 /\ a.have_rs2 = Decoded.have_rs2
        /\ a.Qj = Decoded.Qj /\ a.Vj = Decoded.Vj /\ a.Qk = Decoded.Qk /\ a.Vk = Decoded.Vk
    BY Zenon
  <2>3. f = ReservationStation!Hear(a, rob_out.commit, rob_out.tag, rob_out.data)
    BY <1>5, <1>7 DEF ReservationStation!Arriving
  <2> HIDE DEF a, f
  <2>4. /\ f.op = a.op /\ f.imm = a.imm /\ f.pc = a.pc /\ f.have_rs1 = a.have_rs1 /\ f.have_rs2 = a.have_rs2
        /\ Hearing(rob_out.commit, rob_out.tag, rob_out.data, a.Qj, a.Vj, f.Qj, f.Vj)
        /\ Hearing(rob_out.commit, rob_out.tag, rob_out.data, a.Qk, a.Vk, f.Qk, f.Vk)
    BY <2>1, <2>3, RsHearsValues
  <2>5. Moves(a.Qj, a.Vj, f.Qj, f.Vj, mc) /\ Moves(a.Qk, a.Vk, f.Qk, f.Vk, mc)
    BY <2>4, ArrivalHearing
  <2> QED BY <2>2, <2>4, <2>5 DEF f
<1>8. ASSUME NEW i \in RsIndex, ~Arrives(i), rs_entry'[i].busy
      PROVE  /\ rs_entry'[i].op = rs_entry[i].op /\ rs_entry'[i].imm = rs_entry[i].imm
             /\ rs_entry'[i].pc = rs_entry[i].pc
             /\ Moves(rs_entry[i].Qj, rs_entry[i].Vj, rs_entry'[i].Qj, rs_entry'[i].Vj, mc)
             /\ Moves(rs_entry[i].Qk, rs_entry[i].Vk, rs_entry'[i].Qk, rs_entry'[i].Vk, mc)
  <2> DEFINE e == rs_entry[i]
             f == ReservationStation!Hear(e, Broadcast.signal, Broadcast.dest_tag, Broadcast.result)
             g == ReservationStation!Hear(f, lsb_out.broadcast, lsb_out.dest_tag, lsb_out.result)
             h == ReservationStation!Hear(g, rob_out.commit, rob_out.tag, rob_out.data)
  <2>1. e \in RsEntry
    BY DEF RsType
  <2>2. ~ReservationStation!EmptyEntry.busy
    BY DEF ReservationStation!EmptyEntry
  <2>3. rs_entry'[i] = h
    BY <1>5, <1>8, <2>2 DEF ReservationStation!Snooping
  <2>4. /\ Broadcast.signal = rs_calc.calculate /\ Broadcast.dest_tag = rs_calc.dest
        /\ Broadcast.result \in Word /\ lsb_out.result \in Word
    BY BroadcastFields DEF LsbType, LsbOutput
  <2>5. f \in RsEntry
    BY <2>1, <2>4, RsHearType
  <2> HIDE DEF e
  <2>6. /\ f.op = e.op /\ f.imm = e.imm /\ f.pc = e.pc
        /\ Hearing(rs_calc.calculate, rs_calc.dest, Broadcast.result, e.Qj, e.Vj, f.Qj, f.Vj)
        /\ Hearing(rs_calc.calculate, rs_calc.dest, Broadcast.result, e.Qk, e.Vk, f.Qk, f.Vk)
    BY <2>1, <2>4, RsHearsValues
  <2> HIDE DEF f
  <2>7. g \in RsEntry
    BY <2>4, <2>5, RsHearType
  <2>8. /\ g.op = f.op /\ g.imm = f.imm /\ g.pc = f.pc
        /\ Hearing(lsb_out.broadcast, lsb_out.dest_tag, lsb_out.result, f.Qj, f.Vj, g.Qj, g.Vj)
        /\ Hearing(lsb_out.broadcast, lsb_out.dest_tag, lsb_out.result, f.Qk, f.Vk, g.Qk, g.Vk)
    BY <2>5, RsHearsValues
  <2> HIDE DEF g
  <2>9. /\ h.op = g.op /\ h.imm = g.imm /\ h.pc = g.pc
        /\ Hearing(rob_out.commit, rob_out.tag, rob_out.data, g.Qj, g.Vj, h.Qj, h.Vj)
        /\ Hearing(rob_out.commit, rob_out.tag, rob_out.data, g.Qk, g.Vk, h.Qk, h.Vk)
    BY <2>7, RsHearsValues
  <2> HIDE DEF h
  <2>10. Moves(e.Qj, e.Vj, h.Qj, h.Vj, mc)
    BY <2>6, <2>8, <2>9, RsHearing
  <2>11. Moves(e.Qk, e.Vk, h.Qk, h.Vk, mc)
    BY <2>6, <2>8, <2>9, RsHearing
  <2> QED BY <2>3, <2>6, <2>8, <2>9, <2>10, <2>11 DEF e
<1> QED BY <1>6, <1>7, <1>8 DEF RsHolds

\* The operands of a queued access that hears a broadcast.
LEMMA LsbHearsValues ==
  ASSUME NEW e \in LsbEntry, NEW s, NEW t, NEW d
  PROVE  LET f == LoadStoreBuffer!Hear(e, s, t, d)
         IN /\ f.imm = e.imm
            /\ Hearing(s, t, d, e.Qj, e.Vj, f.Qj, f.Vj)
            /\ Hearing(s, t, d, e.Qk, e.Vk, f.Qk, f.Vk)
<1>1. LoadStoreBuffer!NULL_TAG = NULL_TAG
  BY LsbNames
<1> QED BY <1>1, Zenon DEF LoadStoreBuffer!Hear, LsbEntry, Hearing

\* The operands in the load store buffer after a cycle.
LEMMA QueueWords ==
  ASSUME LsbType, RobType, RsType, DecodedType, Silent, Tags, NEW mc \in MemoryOutput,
         Decoded.to_lsb => ~LoadStoreBuffer!full_out,
         LoadStoreBuffer!Operate(Decoded, Broadcast, rob_out, mc)
  PROVE  \A i \in LsbIndex : LsbHolds(i, mc)
<1> SUFFICES ASSUME NEW i \in LsbIndex PROVE LsbHolds(i, mc)
  OBVIOUS
<1> DEFINE fin == Finishing(mc) /\ lsb_status = "LOAD"
           data == LoadStoreBuffer!LoadResult(lsb_current_op, mc.lsb_data)
           c == rob_out.commit_lsb /\ i = LoadStoreBuffer!CommitSlot
<1>1. data \in Word /\ data = LoadResult(lsb_current_op, mc.lsb_data)
  <2>1. mc.lsb_data \in Word
    BY DEF MemoryOutput
  <2> QED BY <2>1, LoadResultWord, LsbNames
<1>2. lsb_entry' = LoadStoreBuffer!Contents(lsb_head', lsb_tail', Decoded.to_lsb, Decoded, Broadcast, rob_out, fin, data)
  BY DEF LoadStoreBuffer!Operate, Finishing
<1>3. lsb_head' \in LsbIndex /\ lsb_tail' \in LsbIndex /\ LsbPlaceAfter(i)
  BY LsbPointers
<1>4. LoadStoreBuffer!LsbIndex = LsbIndex
  BY LsbNames
<1>5. /\ Broadcast.signal = rs_calc.calculate /\ Broadcast.dest_tag = rs_calc.dest
      /\ Broadcast.result \in Word /\ rob_out.data \in Word
  BY BroadcastFields DEF RobType, RobOutput
<1>6. ASSUME NEW e \in LsbEntry, NEW b
      PROVE  LET f == [e EXCEPT !.commit_flag = b]
             IN f.imm = e.imm /\ f.Qj = e.Qj /\ f.Qk = e.Qk /\ f.Vj = e.Vj /\ f.Vk = e.Vk
  BY Zenon DEF LsbEntry
<1>7. lsb_status = "LOAD" => lsb_current_tag # NULL_TAG
  BY DEF Tags, Silent
<1> HIDE DEF fin, data, c
<1>8. QueueStays(i) \/ QueueEnters(i) => LoadStoreBuffer!Within(i, lsb_head', lsb_tail')
  <2>1. /\ LoadStoreBuffer!Slot(i - lsb_head') = Dist(lsb_head', i, LSB_CAPACITY)
        /\ LoadStoreBuffer!Slot(lsb_tail' - lsb_head') = Dist(lsb_head', lsb_tail', LSB_CAPACITY)
    BY <1>3, LsbCircle
  <2>2. QueueStays(i) \/ QueueEnters(i) =>
          1 <= Dist(lsb_head', i, LSB_CAPACITY) /\ Dist(lsb_head', i, LSB_CAPACITY) <= Dist(lsb_head', lsb_tail', LSB_CAPACITY)
    BY <1>3 DEF LsbPlaceAfter, Queued, Place, Length
  <2> HIDE DEF Dist
  <2> QED BY <2>1, <2>2 DEF LoadStoreBuffer!Within
<1>9. QueueStays(i) \/ QueueEnters(i) =>
        lsb_entry'[i] = IF Decoded.to_lsb /\ i = LsbTail
         THEN [LoadStoreBuffer!Arriving(Decoded, Broadcast, rob_out) EXCEPT !.commit_flag = c]
         ELSE [LoadStoreBuffer!Snooping(lsb_entry[i], Broadcast, rob_out, fin, data) EXCEPT
                 !.commit_flag = @ \/ c]
  BY <1>2, <1>4, <1>8, Zenon DEF LoadStoreBuffer!Contents, LsbTail, c
<1>10. ASSUME QueueEnters(i)
       PROVE  /\ lsb_entry'[i].imm = Decoded.imm
              /\ Moves(Decoded.Qj, Decoded.Vj, lsb_entry'[i].Qj, lsb_entry'[i].Vj, mc)
              /\ Moves(Decoded.Qk, Decoded.Vk, lsb_entry'[i].Qk, lsb_entry'[i].Vk, mc)
  <2> DEFINE e == [store |-> Decoded.store, commit_flag |-> FALSE, op |-> Decoded.op,
             rob_tag |-> Decoded.next_tag, imm |-> Decoded.imm, Vj |-> Decoded.Vj, Vk |-> Decoded.Vk,
             Qj |-> Decoded.Qj, Qk |-> Decoded.Qk]
             f == LoadStoreBuffer!Hear(e, rob_out.commit, rob_out.tag, rob_out.data)
             g == LoadStoreBuffer!Hear(f, Broadcast.signal, Broadcast.dest_tag, Broadcast.result)
  <2>1. e \in LsbEntry
    BY Zenon DEF DecodedType, LsbEntry
  <2>2. /\ e.imm = Decoded.imm /\ e.Qj = Decoded.Qj /\ e.Qk = Decoded.Qk
        /\ e.Vj = Decoded.Vj /\ e.Vk = Decoded.Vk
    BY Zenon
  <2>3. lsb_entry'[i] = [g EXCEPT !.commit_flag = c]
    BY <1>9, <1>10, Zenon DEF LoadStoreBuffer!Arriving, QueueEnters
  <2> HIDE DEF e
  <2>4. f \in LsbEntry
    BY <2>1, <1>5, LsbHearType
  <2>5. /\ f.imm = e.imm
        /\ Hearing(rob_out.commit, rob_out.tag, rob_out.data, e.Qj, e.Vj, f.Qj, f.Vj)
        /\ Hearing(rob_out.commit, rob_out.tag, rob_out.data, e.Qk, e.Vk, f.Qk, f.Vk)
    BY <2>1, LsbHearsValues
  <2> HIDE DEF f
  <2>6. g \in LsbEntry
    BY <2>4, <1>5, LsbHearType
  <2>7. /\ g.imm = f.imm
        /\ Hearing(rs_calc.calculate, rs_calc.dest, Broadcast.result, f.Qj, f.Vj, g.Qj, g.Vj)
        /\ Hearing(rs_calc.calculate, rs_calc.dest, Broadcast.result, f.Qk, f.Vk, g.Qk, g.Vk)
    BY <2>4, <1>5, LsbHearsValues
  <2> HIDE DEF g
  <2>8. Moves(e.Qj, e.Vj, g.Qj, g.Vj, mc)
    BY <2>5, <2>7, ArrivalHearing
  <2>9. Moves(e.Qk, e.Vk, g.Qk, g.Vk, mc)
    BY <2>5, <2>7, ArrivalHearing
  <2>10. /\ lsb_entry'[i].imm = g.imm /\ lsb_entry'[i].Qj = g.Qj /\ lsb_entry'[i].Qk = g.Qk
         /\ lsb_entry'[i].Vj = g.Vj /\ lsb_entry'[i].Vk = g.Vk
    BY <2>3, <2>6, <1>6
  <2> QED BY <2>2, <2>5, <2>7, <2>8, <2>9, <2>10
<1>11. ASSUME QueueStays(i)
       PROVE  /\ Moves(lsb_entry[i].Qj, lsb_entry[i].Vj, lsb_entry'[i].Qj, lsb_entry'[i].Vj, mc)
              /\ Moves(lsb_entry[i].Qk, lsb_entry[i].Vk, lsb_entry'[i].Qk, lsb_entry'[i].Vk, mc)
  <2> DEFINE e == lsb_entry[i]
             f == LoadStoreBuffer!Hear(e, Broadcast.signal, Broadcast.dest_tag, Broadcast.result)
             g == LoadStoreBuffer!Hear(f, rob_out.commit, rob_out.tag, rob_out.data)
             h == LoadStoreBuffer!Hear(g, fin, lsb_current_tag, data)
  <2>1. e \in LsbEntry
    BY DEF LsbType
  <2>2. ~QueueEnters(i)
    BY <1>3, <1>11 DEF LsbPlaceAfter
  <2>3. lsb_entry'[i] = [h EXCEPT !.commit_flag = @ \/ c]
    BY <1>9, <1>11, <2>2, Zenon DEF LoadStoreBuffer!Snooping, QueueEnters
  <2> HIDE DEF e
  <2>4. f \in LsbEntry
    BY <2>1, <1>5, LsbHearType
  <2>5. /\ Hearing(rs_calc.calculate, rs_calc.dest, Broadcast.result, e.Qj, e.Vj, f.Qj, f.Vj)
        /\ Hearing(rs_calc.calculate, rs_calc.dest, Broadcast.result, e.Qk, e.Vk, f.Qk, f.Vk)
    BY <2>1, <1>5, LsbHearsValues
  <2> HIDE DEF f
  <2>6. g \in LsbEntry
    BY <2>4, <1>5, LsbHearType
  <2>7. /\ Hearing(rob_out.commit, rob_out.tag, rob_out.data, f.Qj, f.Vj, g.Qj, g.Vj)
        /\ Hearing(rob_out.commit, rob_out.tag, rob_out.data, f.Qk, f.Vk, g.Qk, g.Vk)
    BY <2>4, LsbHearsValues
  <2> HIDE DEF g
  <2>8. h \in LsbEntry
    BY <2>6, <1>1, LsbHearType
  <2>9. /\ Hearing(fin, lsb_current_tag, data, g.Qj, g.Vj, h.Qj, h.Vj)
        /\ Hearing(fin, lsb_current_tag, data, g.Qk, g.Vk, h.Qk, h.Vk)
    BY <2>6, LsbHearsValues
  <2> HIDE DEF h
  <2>10. Moves(e.Qj, e.Vj, h.Qj, h.Vj, mc)
    BY <2>5, <2>7, <2>9, <1>1, <1>7, QueueHearing DEF fin
  <2>11. Moves(e.Qk, e.Vk, h.Qk, h.Vk, mc)
    BY <2>5, <2>7, <2>9, <1>1, <1>7, QueueHearing DEF fin
  <2> DEFINE b == h.commit_flag \/ c
  <2>12. lsb_entry'[i] = [h EXCEPT !.commit_flag = b]
    BY <2>3
  <2> HIDE DEF b
  <2>13. /\ lsb_entry'[i].Qj = h.Qj /\ lsb_entry'[i].Qk = h.Qk
         /\ lsb_entry'[i].Vj = h.Vj /\ lsb_entry'[i].Vk = h.Vk
    BY <2>12, <2>8, <1>6
  <2> QED BY <2>10, <2>11, <2>13 DEF e
<1> QED BY <1>10, <1>11 DEF LsbHolds

\* What the load store buffer keeps of the access at its head, and what a load gives.
LsbSays(mc) ==
  /\ Issuing => lsb_current_op' = First.op /\ lsb_out'.mc_data = First.Vk /\ ~lsb_noticed'
  /\ Noticing => lsb_current_op' = lsb_current_op /\ lsb_current_address' = lsb_current_address
  /\ Finishing(mc) /\ lsb_status = "LOAD" => lsb_out'.result = LoadResult(lsb_current_op, mc.lsb_data)
  /\ ~Issuing /\ ~Noticing /\ ~Finishing(mc) => lsb_current_op' = lsb_current_op

\* The buffer's actions in these terms.
LEMMA LsbSaid ==
  ASSUME NEW mc
  PROVE  /\ LoadStoreBuffer!Issue => lsb_current_op' = First.op /\ lsb_out'.mc_data = First.Vk /\ ~lsb_noticed'
         /\ LoadStoreBuffer!Notice => lsb_current_op' = lsb_current_op /\ lsb_current_address' = lsb_current_address
         /\ LoadStoreBuffer!Finish(mc) /\ lsb_status = "LOAD"
              => lsb_out'.result = LoadResult(lsb_current_op, mc.lsb_data)
         /\ LoadStoreBuffer!Stay => lsb_current_op' = lsb_current_op
<1> DEFINE q == LoadStoreBuffer!Quiet
<1>1. ASSUME LoadStoreBuffer!Issue
      PROVE  lsb_current_op' = First.op /\ lsb_out'.mc_data = First.Vk /\ ~lsb_noticed'
  <2> DEFINE A == LoadStoreBuffer!Address(First)
             g == LoadStoreBuffer!Goal(First.op)
             o == [q EXCEPT !.mc_request = TRUE, !.mc_store = First.store, !.mc_goal = g,
                            !.mc_address = A, !.mc_data = First.Vk]
  <2>1. lsb_current_op' = First.op /\ lsb_out' = o /\ lsb_noticed' = FALSE
    BY <1>1, Zenon DEF LoadStoreBuffer!Issue, First, LsbHead
  <2>2. o.mc_data = First.Vk
    <3> HIDE DEF A, g
    <3> QED BY Zenon DEF LoadStoreBuffer!Quiet
  <2> HIDE DEF o
  <2> QED BY <2>1, <2>2
<1>2. LoadStoreBuffer!Notice => lsb_current_op' = lsb_current_op /\ lsb_current_address' = lsb_current_address
  BY DEF LoadStoreBuffer!Notice
<1>3. ASSUME LoadStoreBuffer!Finish(mc), lsb_status = "LOAD"
      PROVE  lsb_out'.result = LoadResult(lsb_current_op, mc.lsb_data)
  <2> DEFINE d == LoadStoreBuffer!LoadResult(lsb_current_op, mc.lsb_data)
             o == [q EXCEPT !.broadcast = TRUE, !.result = d, !.dest_tag = lsb_current_tag]
  <2>0. d = LoadResult(lsb_current_op, mc.lsb_data)
    BY LsbNames
  <2>1. lsb_out' = o
    BY <1>3 DEF LoadStoreBuffer!Finish
  <2>2. o.result = d
    <3> HIDE DEF d
    <3> QED BY Zenon DEF LoadStoreBuffer!Quiet
  <2> HIDE DEF o, d
  <2> QED BY <2>0, <2>1, <2>2
<1>4. LoadStoreBuffer!Stay => lsb_current_op' = lsb_current_op
  BY DEF LoadStoreBuffer!Stay
<1> QED BY <1>1, <1>2, <1>3, <1>4

\* One of them happens in a cycle of work.
LEMMA LsbSaysHolds ==
  ASSUME NEW mc, LoadStoreBuffer!Operate(Decoded, Broadcast, rob_out, mc)
  PROVE  LsbSays(mc)
<1>1. \/ Issuing /\ LoadStoreBuffer!Issue
      \/ Noticing /\ LoadStoreBuffer!Notice
      \/ Finishing(mc) /\ LoadStoreBuffer!Finish(mc)
      \/ ~Issuing /\ ~Noticing /\ ~Finishing(mc) /\ LoadStoreBuffer!Stay
  BY DEF LoadStoreBuffer!Operate, Issuing, Noticing, Finishing
<1>2. /\ Issuing => lsb_status = "IDLE" /\ ~Noticing
      /\ Noticing => lsb_status = "IDLE"
      /\ Finishing(mc) => lsb_status # "IDLE"
  BY DEF Issuing, Noticing, Finishing, LoadStoreBuffer!CanIssue, LoadStoreBuffer!CanNotice, LoadStoreBuffer!Finishes
<1> QED BY <1>1, <1>2, LsbSaid DEF LsbSays

\* The register file writes what the programmer already sees.
LEMMA RegisterValues ==
  ASSUME RfType, RegisterFile!Operate(rob_out, Decoded)
  PROVE  \A r \in RegIndex : rf_value'[r] = ArchReg[r]
<1> QED BY RfNames, Zenon DEF RegisterFile!Operate, ArchReg

\* A cycle of work, with the values.
ValueWorks(mc) ==
  /\ Works(mc)
  /\ \A t \in RobTag : RobHolds(t)
  /\ RobPulses
  /\ \A i \in RsIndex : RsHolds(i, mc)
  /\ \A i \in LsbIndex : LsbHolds(i, mc)
  /\ LsbSays(mc)
  /\ \A r \in RegIndex : rf_value'[r] = ArchReg[r]

\* Every cycle but that of a rollback and that before it is such a cycle.
LEMMA ValueWorksHolds ==
  ASSUME CoreInv, Calm, NEW mc \in MemoryOutput, CoreCycle(FALSE, mc)
  PROVE  ValueWorks(mc)
<1>1. /\ FetcherType /\ RobType /\ RfType /\ RsType /\ LsbType
      /\ Signals /\ Tags /\ CommittedFirst /\ Unmarked
      /\ rob_out.commit_lsb \in BOOLEAN /\ rob_out.rollback \in BOOLEAN
      /\ rob_inner_rollback \in BOOLEAN /\ rob_need_to_rollback \in BOOLEAN
  BY Zenon DEF CoreInv, CoreType, SchedInv, RobType, RobOutput
<1>2. DecodedType
  BY <1>1, DecodedTypes
<1>3. /\ Decoded.issue => ~ReorderBuffer!full_out
      /\ Decoded.to_lsb => ~LoadStoreBuffer!full_out
      /\ Decoded.to_rs => ~ReservationStation!full_out
  BY Room DEF CoreInv, IssueInv
<1>4. /\ ReorderBuffer!Clock(FALSE, Decoded, Broadcast, lsb_out)
      /\ RegisterFile!Clock(FALSE, rob_out, Decoded)
      /\ ReservationStation!Clock(FALSE, Decoded, Broadcast, lsb_out, rob_out)
      /\ LoadStoreBuffer!Clock(FALSE, Decoded, Broadcast, rob_out, mc)
  BY DEF CoreCycle
<1>5. ~rob_out.rollback
  BY <1>1 DEF Signals, Calm
<1>6. Presents /\ Silent
  BY <1>1, <1>3, PresentsHolds, SilentHolds
<1>7. /\ ReservationStation!Operate(Decoded, Broadcast, lsb_out, rob_out)
      /\ RegisterFile!Operate(rob_out, Decoded)
      /\ LoadStoreBuffer!Operate(Decoded, Broadcast, rob_out, mc)
  BY <1>4, <1>5 DEF ReservationStation!Clock, RegisterFile!Clock, LoadStoreBuffer!Clock
<1>8. ReorderBuffer!Operate(Decoded, Broadcast, lsb_out)
  BY <1>4 DEF ReorderBuffer!Clock, Calm
<1>9. Works(mc)
  <2>2. QueueMoves
    BY <1>1, <1>3, <1>7, QueueMovesHolds
  <2>3. \A i \in LsbIndex : QueueSlotAfter(i, Finishing(mc) /\ lsb_status = "LOAD")
    BY <1>1, <1>2, <1>3, <1>6, <1>7, QueueSlotsHold
  <2>4. QueueWorks(mc)
    BY <1>7, <2>2, <2>3, LsbOutputs, LsbReasons DEF QueueWorks
  <2>5. StationMoves
    BY <1>1, <1>2, <1>3, <1>7, StationMovesHolds
  <2>6. RobWorks
    BY <1>1, <1>2, <1>3, <1>8, RobMovesHolds, RobContents DEF RobWorks
  <2>7. \A r \in RegIndex : RegisterAfter(r)
    BY <1>1, <1>6, <1>7, RegistersWork
  <2>8. Scheduled
    BY DEF CoreInv, SchedInv, Calm
  <2> QED BY <1>1, <1>6, <2>4, <2>5, <2>6, <2>7, <2>8 DEF Works
<1>10. (\A t \in RobTag : RobHolds(t)) /\ RobPulses
  BY <1>1, <1>2, <1>3, <1>8, RobWords
<1>11. \A i \in RsIndex : RsHolds(i, mc)
  BY <1>1, <1>2, <1>3, <1>6, <1>7, StationWords
<1>12. \A i \in LsbIndex : LsbHolds(i, mc)
  BY <1>1, <1>2, <1>3, <1>6, <1>7, QueueWords
<1>13. LsbSays(mc) /\ \A r \in RegIndex : rf_value'[r] = ArchReg[r]
  BY <1>1, <1>7, LsbSaysHolds, RegisterValues
<1> QED BY <1>9, <1>10, <1>11, <1>12, <1>13 DEF ValueWorks

(***************************************************************************)
(* What each instruction holds after a cycle of work.  An operand it has   *)
(* is right for ever; one it awaits is announced to it.                    *)
(***************************************************************************)
\* An instruction that is in the reorder buffer after the cycle.
Remaining(t) == Stays(t) \/ Enters(t)

\* What the proofs below need of a cycle of work.
LEMMA WorksParts ==
  ASSUME NEW mc, ValueWorks(mc)
  PROVE  /\ Works(mc) /\ RobWorks /\ RobMoves /\ RobTells /\ StationMoves /\ QueueWorks(mc) /\ QueueMoves
         /\ Presents /\ Silent /\ Signals /\ Tags /\ CommittedFirst /\ Scheduled
         /\ Owned /\ Alone /\ Worked /\ Names
         /\ \A t \in RobTag : SlotAfter(t) /\ RobHolds(t)
         /\ LsbTells(mc) /\ LsbWhy /\ LsbSays(mc)
BY Zenon DEF ValueWorks, Works, RobWorks, QueueWorks, Scheduled

\* The oldest instruction is older than every other.
LEMMA HeadFirst ==
  ASSUME NEW mc, ValueWorks(mc), NEW t \in RobTag
  PROVE  /\ Flying(t) /\ t # HeadNext => RobAge(HeadNext) < RobAge(t)
         /\ Enters(t) /\ Flying(HeadNext) => RobAge(HeadNext) < RobAge(t)
         /\ HeadNext \in RobTag /\ RobAge(HeadNext) = 1
         /\ Committing /\ Remaining(t) => RobAge(HeadNext) < RobAge(t)
<1>1. RobMoves
  BY WorksParts
<1>2. HeadNext \in RobTag /\ RobAge(HeadNext) = 1 /\ (Committing => Flying(HeadNext))
  BY <1>1 DEF RobMoves
<1>3. Flying(t) /\ t # HeadNext => RobAge(HeadNext) < RobAge(t)
  <2>1. RobAge(t) \in Nat /\ (RobAge(t) = 1 => t = HeadNext) /\ (Flying(t) => RobAge(t) >= 1)
    BY <1>1 DEF RobMoves
  <2> QED BY <1>2, <2>1
<1>4. Enters(t) /\ Flying(HeadNext) => RobAge(HeadNext) < RobAge(t)
  BY <1>1, <1>2 DEF RobMoves
<1> QED BY <1>2, <1>3, <1>4 DEF Remaining, Stays

\* The writers before an instruction after the cycle are those before it, less the
\* one that commits.
LEMMA WritersAfter ==
  ASSUME NEW mc, ValueWorks(mc), NEW q \in RobTag, NEW t \in RobTag, Remaining(t), NEW r
  PROVE  Writes(q, r)' /\ RobAge(q)' < RobAge(t)' <=> Stays(q) /\ Writes(q, r) /\ RobAge(q) < RobAge(t)
<1>1. RobMoves /\ SlotAfter(q)
  BY WorksParts
<1>2. /\ RobAge(q) \in Nat /\ RobAge(t) \in Nat
      /\ RobAge(t)' = IF Committing THEN RobAge(t) - 1 ELSE RobAge(t)
      /\ Stays(q) \/ Enters(q) => RobAge(q)' = IF Committing THEN RobAge(q) - 1 ELSE RobAge(q)
      /\ Flying(q)' <=> Stays(q) \/ Enters(q)
  BY <1>1 DEF RobMoves, Remaining, Stays
<1>3. CASE Enters(q)
  <2>1. ~Stays(q)
    BY <1>1, <1>3 DEF RobMoves, Stays
  <2>2. ~(RobAge(q)' < RobAge(t)')
    <3>1. CASE Stays(t)
      <4>1. RobAge(t) < RobAge(q)
        BY <1>1, <1>3, <3>1 DEF RobMoves, Stays
      <4> QED BY <4>1, <1>2, <1>3
    <3>2. CASE Enters(t)
      <4>1. q = t
        BY <1>3, <3>2 DEF Enters
      <4> QED BY <4>1, <1>2
    <3> QED BY <3>1, <3>2 DEF Remaining
  <2> QED BY <2>1, <2>2
<1>4. CASE ~Enters(q) /\ ~Stays(q)
  BY <1>2, <1>4 DEF Writes
<1>5. CASE Stays(q)
  <2>1. RobAge(q)' < RobAge(t)' <=> RobAge(q) < RobAge(t)
    BY <1>2, <1>5
  <2>2. Writes(q, r)' <=> Writes(q, r)
    <3>1. Flying(q) /\ Flying(q)' /\ Op(q)' = Op(q) /\ rob_entry'[q].dest = rob_entry[q].dest
      BY <1>1, <1>2, <1>5 DEF SlotAfter, Stays
    <3> QED BY <3>1 DEF Writes
  <2> QED BY <2>1, <2>2, <1>5
<1> QED BY <1>3, <1>4, <1>5

\* The oldest instruction writes r when it commits.
WritesNow(r) == Committing /\ Op(HeadNext) \notin {"BRANCH", "STORE"} /\ rob_entry[HeadNext].dest = r /\ r # 0

\* What the programmer sees in a register changes with the commits.
LEMMA ArchRegAfter ==
  ASSUME NEW mc, ValueWorks(mc), NEW r \in RegIndex
  PROVE  ArchReg'[r] = IF WritesNow(r) THEN rob_entry[HeadNext].data ELSE ArchReg[r]
<1>1. /\ RobTells /\ RobMoves /\ Signals /\ Names /\ RobPulses
      /\ RegisterAfter(r) /\ rf_value'[r] = ArchReg[r] /\ Names'
  <2>1. Names'
    BY WorksParts, NamesStep
  <2> QED BY WorksParts, <2>1, Zenon DEF ValueWorks, Works
<1>2. ArchReg'[r] = IF rob_out'.commit /\ rob_out'.commit_rf /\ rob_out'.target = r /\ rf_busy'[r]
                      THEN rob_out'.data ELSE rf_value'[r]
  BY Zenon DEF ArchReg
<1>3. /\ rob_out'.commit <=> Committing
      /\ rob_out'.commit_rf <=> Committing /\ Op(HeadNext) \notin {"BRANCH", "STORE"}
      /\ Committing => rob_out'.target = rob_entry[HeadNext].dest /\ rob_out'.data = rob_entry[HeadNext].data
  BY <1>1 DEF RobTells, RobPulses
<1>4. WritesNow(r) => rf_busy'[r]
  <2> SUFFICES ASSUME WritesNow(r) PROVE rf_busy'[r]
    OBVIOUS
  <2>1. HeadNext \in RobTag /\ Writes(HeadNext, r)
    BY <1>1 DEF WritesNow, Writes, RobMoves
  <2>2. NamesYoungest(r)
    BY <1>1, <2>1 DEF Names, NamesNone, WritesNow
  <2>3. PICK q \in RobTag : rf_busy[r] /\ rf_rob_tag[r] = q /\ Writes(q, r)
    BY <2>2 DEF NamesYoungest
  <2>4. q # rob_head
    BY <1>1, <2>3 DEF RobMoves, Writes
  <2>5. ~Frees(r)
    BY <1>1, <2>3, <2>4 DEF Frees, Signals
  <2> QED BY <1>1, <2>3, <2>5 DEF RegisterAfter
<1>5. r = 0 => ~rf_busy'[r]
  BY <1>1 DEF Names
<1> QED BY <1>1, <1>2, <1>3, <1>4, <1>5 DEF WritesNow

\* The youngest writer before an instruction stays so until it commits.
LEMMA LastWriterStays ==
  ASSUME NEW mc, ValueWorks(mc), NEW q \in RobTag, NEW t \in RobTag, Remaining(t), NEW r,
         LastWriter(q, t, r), Stays(q)
  PROVE  LastWriter(q, t, r)'
<1>1. r # 0 /\ Writes(q, r)' /\ RobAge(q)' < RobAge(t)'
  BY WritersAfter DEF LastWriter
<1>2. ASSUME NEW s \in RobTag, Writes(s, r)', RobAge(s)' < RobAge(t)'
      PROVE  RobAge(s)' <= RobAge(q)'
  <2>1. Stays(s) /\ Writes(s, r) /\ RobAge(s) < RobAge(t)
    BY <1>2, WritersAfter
  <2>2. RobAge(s) <= RobAge(q)
    BY <2>1 DEF LastWriter
  <2>3. RobMoves
    BY WorksParts
  <2>4. /\ RobAge(q) \in Nat /\ RobAge(s) \in Nat
        /\ RobAge(q)' = IF Committing THEN RobAge(q) - 1 ELSE RobAge(q)
        /\ RobAge(s)' = IF Committing THEN RobAge(s) - 1 ELSE RobAge(s)
    BY <2>1, <2>3 DEF RobMoves, Stays
  <2> QED BY <2>2, <2>4
<1> QED BY <1>1, <1>2 DEF LastWriter

\* Then nobody before the instruction writes the register, and it has the writer's result.
LEMMA LastWriterCommits ==
  ASSUME NEW mc, ValueWorks(mc), NEW q \in RobTag, NEW t \in RobTag, Remaining(t), NEW r \in RegIndex,
         LastWriter(q, t, r), ~Stays(q)
  PROVE  /\ Committing /\ q = HeadNext /\ NoWriter(t, r)'
         /\ ArchReg'[r] = rob_entry[q].data
<1>1. Committing /\ q = HeadNext
  BY DEF LastWriter, Writes, Stays
<1>2. RobMoves
  BY WorksParts
<1>3. NoWriter(t, r)'
  <2> SUFFICES ASSUME NEW s \in RobTag, Writes(s, r)' PROVE RobAge(t)' <= RobAge(s)'
    BY DEF NoWriter
  <2>0. RobAge(t)' \in Nat /\ RobAge(s)' \in Nat
    BY <1>2 DEF RobMoves
  <2>1. SUFFICES ASSUME RobAge(s)' < RobAge(t)' PROVE FALSE
    BY <2>0
  <2>2. Stays(s) /\ Writes(s, r) /\ RobAge(s) < RobAge(t)
    BY <2>1, WritersAfter
  <2>3. RobAge(s) <= RobAge(q)
    BY <2>2 DEF LastWriter
  <2>4. RobAge(q) < RobAge(s)
    BY <1>1, <2>2, HeadFirst DEF Stays
  <2>5. RobAge(q) \in Nat /\ RobAge(s) \in Nat
    BY <1>2 DEF RobMoves
  <2> QED BY <2>3, <2>4, <2>5
<1>4. WritesNow(r)
  BY <1>1 DEF LastWriter, Writes, WritesNow
<1>5. ArchReg'[r] = rob_entry[q].data
  BY <1>1, <1>4, ArchRegAfter
<1> QED BY <1>1, <1>3, <1>5

\* When nobody before it writes the register, nobody will.
LEMMA NoWriterStays ==
  ASSUME NEW mc, ValueWorks(mc), NEW t \in RobTag, Remaining(t), NEW r \in RegIndex, NoWriter(t, r)
  PROVE  NoWriter(t, r)' /\ ArchReg'[r] = ArchReg[r]
<1>1. RobMoves
  BY WorksParts
<1>2. NoWriter(t, r)'
  <2> SUFFICES ASSUME r # 0, NEW s \in RobTag, Writes(s, r)' PROVE RobAge(t)' <= RobAge(s)'
    BY DEF NoWriter
  <2>0. RobAge(t)' \in Nat /\ RobAge(s)' \in Nat /\ RobAge(t) \in Nat /\ RobAge(s) \in Nat
    BY <1>1 DEF RobMoves
  <2>1. SUFFICES ASSUME RobAge(s)' < RobAge(t)' PROVE FALSE
    BY <2>0
  <2>2. Stays(s) /\ Writes(s, r) /\ RobAge(s) < RobAge(t)
    BY <2>1, WritersAfter
  <2> QED BY <2>0, <2>2 DEF NoWriter
<1>3. ~WritesNow(r)
  <2> SUFFICES ASSUME WritesNow(r) PROVE FALSE
    OBVIOUS
  <2>1. HeadNext \in RobTag /\ Writes(HeadNext, r)
    BY <1>1 DEF WritesNow, Writes, RobMoves
  <2>2. RobAge(t) <= RobAge(HeadNext)
    BY <2>1 DEF NoWriter, WritesNow
  <2>3. RobAge(HeadNext) < RobAge(t)
    BY HeadFirst DEF WritesNow
  <2>4. RobAge(t) \in Nat /\ RobAge(HeadNext) \in Nat
    BY <1>1 DEF RobMoves
  <2> QED BY <2>2, <2>3, <2>4
<1> QED BY <1>2, <1>3, ArchRegAfter

\* A result that has come stays.
LEMMA GivesStays ==
  ASSUME NEW mc, ValueWorks(mc), NEW q \in RobTag, NEW v, Gives(q, v)
  PROVE  /\ Stays(q) => Gives(q, v)'
         /\ Committing /\ q = HeadNext /\ Op(q) # "STORE" => v = rob_entry[q].data
<1>1. /\ SlotAfter(q) /\ RobHolds(q) /\ RobTells
      /\ Loaded(q) => OfLoad(q)
      /\ InAlu(q) => OfRs(q)
  BY WorksParts DEF Owned, OwnedByResult, OwnedInAlu
<1>2. Stays(q) => Gives(q, v)'
  BY <1>1 DEF SlotAfter, RobHolds, Gives, OfLoad, OfRs, Unfinished
<1>3. Committing /\ q = HeadNext /\ Op(q) # "STORE" => v = rob_entry[q].data
  BY <1>1 DEF RobTells, Gives, OfLoad, Unfinished
<1> QED BY <1>2, <1>3

\* An operand that has come is right for ever.
LEMMA HasAfter ==
  ASSUME NEW mc, ValueWorks(mc), NEW t \in RobTag, Remaining(t), NEW r \in RegIndex, NEW v, Has(t, r, v)
  PROVE  Has(t, r, v)'
<1>1. CASE NoWriter(t, r) /\ v = ArchReg[r]
  BY <1>1, NoWriterStays DEF Has
<1>2. ASSUME NEW q \in RobTag, LastWriter(q, t, r), Gives(q, v)
      PROVE  Has(t, r, v)'
  <2>1. CASE Stays(q)
    BY <1>2, <2>1, LastWriterStays, GivesStays DEF Has
  <2>2. CASE ~Stays(q)
    <3>1. /\ Committing /\ q = HeadNext /\ NoWriter(t, r)'
          /\ ArchReg'[r] = rob_entry[q].data
      BY <1>2, <2>2, LastWriterCommits
    <3>2. Op(q) # "STORE"
      BY <1>2 DEF LastWriter, Writes
    <3>3. v = rob_entry[q].data
      BY <1>2, <3>1, <3>2, GivesStays
    <3> QED BY <3>1, <3>3 DEF Has
  <2> QED BY <2>1, <2>2
<1> QED BY <1>1, <1>2 DEF Has

\* What is announced of the youngest writer is the operand.
LEMMA TellsHas ==
  ASSUME NEW mc, ValueWorks(mc), NEW q \in RobTag, NEW t \in RobTag, Remaining(t), NEW r \in RegIndex, NEW v,
         LastWriter(q, t, r), Tells(q, v, mc)
  PROVE  Has(t, r, v)'
<1>1. /\ SlotAfter(q) /\ RobHolds(q) /\ RobTells /\ RobMoves /\ Signals
      /\ Loaded(q) => OfLoad(q)
      /\ Loading(q) => OfLoad(q)
      /\ InAlu(q) => OfRs(q)
      /\ LsbTells(mc) /\ LsbSays(mc)
  BY WorksParts DEF Owned, OwnedByResult, OwnedInAlu, OwnedByLoad
<1>2. Flying(q) /\ Op(q) # "STORE"
  BY DEF LastWriter, Writes
<1>3. Unfinished(q) => Stays(q)
  BY <1>1, <1>2 DEF Unfinished, Stays, RobTells
<1>4. CASE InAlu(q) /\ v = Broadcast.result
  <2>1. Stays(q) /\ ~Loaded(q)
    BY <1>1, <1>3, <1>4 DEF OfRs, OfLoad
  <2>2. Gives(q, v)'
    BY <1>1, <1>4, <2>1 DEF SlotAfter, RobHolds, Gives
  <2> QED BY <2>1, <2>2, LastWriterStays DEF Has
<1>5. CASE Loaded(q) /\ v = lsb_out.result
  BY <1>5, HasAfter DEF Has, Gives
<1>6. CASE Committed(q) /\ v = rob_out.data
  BY <1>1, <1>2, <1>6 DEF Committed, Signals, RobMoves
<1>7. CASE Finishing(mc) /\ Loading(q) /\ v = LoadResult(lsb_current_op, mc.lsb_data)
  <2>1. Stays(q)
    BY <1>1, <1>3, <1>7 DEF OfLoad
  <2>2. lsb_out'.broadcast /\ lsb_out'.dest_tag = q /\ lsb_out'.result = v
    BY <1>1, <1>7 DEF LsbTells, LsbSays, Loading, Ends
  <2>3. Gives(q, v)'
    BY <2>2 DEF Gives, Loaded
  <2> QED BY <2>1, <2>3, LastWriterStays DEF Has
<1> QED BY <1>4, <1>5, <1>6, <1>7 DEF Tells

\* An operand that is awaited from the right instruction, or is right, is so after the cycle.
LEMMA OperandAfter ==
  ASSUME NEW mc, ValueWorks(mc), NEW t \in RobTag, Remaining(t), NEW r \in RegIndex,
         NEW q, NEW v, NEW q1, NEW v1, OperandOk(t, r, q, v), Moves(q, v, q1, v1, mc)
  PROVE  OperandOk(t, r, q1, v1)'
<1>1. /\ RobTells /\ RobMoves /\ Signals /\ Silent /\ RobPulses
      /\ \A s \in RobTag : /\ Loaded(s) => Flying(s)
                           /\ Loading(s) => Flying(s)
                           /\ InAlu(s) => Flying(s)
  BY WorksParts DEF Owned, OwnedByResult, OwnedInAlu, OwnedByLoad, OfRs, OfLoad, Unfinished, ValueWorks
<1>2. NULL_TAG' = NULL_TAG
  OBVIOUS
<1>3. ASSUME q1 = q, v1 = v, ~Committed(q)
      PROVE  OperandOk(t, r, q1, v1)'
  <2>1. CASE q = NULL_TAG
    <3>1. Has(t, r, v)
      BY <2>1 DEF OperandOk
    <3>2. Has(t, r, v)'
      BY <3>1, HasAfter
    <3> QED BY <1>3, <2>1, <3>2 DEF OperandOk
  <2>2. CASE q # NULL_TAG
    <3>1. LastWriter(q, t, r) /\ q \in RobTag
      BY <1>3, <2>2 DEF OperandOk, LastWriter, Writes, Flying
    <3>2. CASE Stays(q)
      BY <1>3, <2>2, <3>1, <3>2, LastWriterStays DEF OperandOk
    <3>3. CASE ~Stays(q)
      <4>1. /\ Committing /\ q = HeadNext /\ NoWriter(t, r)'
            /\ ArchReg'[r] = rob_entry[q].data
        BY <3>1, <3>3, LastWriterCommits
      <4>2. Committed(q)' /\ ArchReg'[r] = rob_out'.data
        BY <1>1, <4>1 DEF Committed, RobTells, RobPulses
      <4> QED BY <1>3, <2>2, <4>1, <4>2 DEF OperandOk
    <3> QED BY <3>2, <3>3
  <2> QED BY <2>1, <2>2
<1>4. ASSUME q # NULL_TAG, q1 = NULL_TAG, Tells(q, v1, mc)
      PROVE  OperandOk(t, r, q1, v1)'
  <2>1. Has(t, r, v1)'
    <3>1. CASE LastWriter(q, t, r)
      BY <1>4, <3>1, TellsHas DEF LastWriter, Writes, Flying
    <3>2. CASE Committed(q) /\ NoWriter(t, r) /\ ArchReg[r] = rob_out.data
      <4>1. q = rob_head /\ q \in RobTag /\ ~Flying(q)
        BY <1>1, <3>2 DEF Committed, Signals, RobMoves
      <4>2. v1 = rob_out.data
        BY <1>1, <1>4, <4>1 DEF Tells
      <4> QED BY <3>2, <4>2, NoWriterStays DEF Has
    <3> QED BY <1>4, <3>1, <3>2 DEF OperandOk
  <2> QED BY <1>4, <2>1 DEF OperandOk
<1> QED BY <1>3, <1>4 DEF Moves

\* The decoder gives an instruction the right operands.
LEMMA DecodedOk ==
  ASSUME NEW mc, ValueWorks(mc), RobType, NEW r \in RegIndex, Enters(TailNext)
  PROVE  OperandOk(TailNext, r, Awaited(r), Known(r))
<1>1. RobMoves /\ Names /\ Signals /\ Silent /\ TailNext \in RobTag
  BY WorksParts DEF Presents
<1>2. \A s \in RobTag : Flying(s) => RobAge(s) < RobAge(TailNext)
  BY <1>1 DEF RobMoves
<1>3. ASSUME ~rf_busy[r], NoWriter(TailNext, r)
      PROVE  OperandOk(TailNext, r, Awaited(r), Known(r))
  <2>1. SourceTag(r) = NULL_TAG /\ Awaited(r) = NULL_TAG /\ Known(r) = rf_value[r]
    BY <1>3 DEF SourceTag, Awaited, Known
  <2>2. ArchReg[r] = rf_value[r]
    BY <1>3 DEF ArchReg
  <2> QED BY <1>3, <2>1, <2>2 DEF OperandOk, Has
<1>4. CASE r = 0
  BY <1>1, <1>3, <1>4 DEF NoWriter, Names
<1>5. ASSUME r # 0, NamesYoungest(r)
      PROVE  OperandOk(TailNext, r, Awaited(r), Known(r))
  <2>1. PICK q \in RobTag : /\ rf_busy[r] /\ rf_rob_tag[r] = q /\ Writes(q, r)
                            /\ \A t \in RobTag : Writes(t, r) => RobAge(t) <= RobAge(q)
    BY <1>5 DEF NamesYoungest
  <2>2. SourceTag(r) = q /\ q # NULL_TAG
    BY <1>1, <2>1 DEF SourceTag, Silent
  <2>3. LastWriter(q, TailNext, r)
    BY <1>2, <1>5, <2>1 DEF LastWriter, Writes
  <2>4. CASE ReorderBuffer!operand_ready(q)
    <3>1. Awaited(r) = NULL_TAG /\ Known(r) = rob_entry[q].data /\ rob_entry[q].ready
      BY <2>2, <2>4 DEF Awaited, Known, ReorderBuffer!operand_ready
    <3> QED BY <2>1, <2>3, <3>1 DEF OperandOk, Has, Gives
  <2>5. CASE ~ReorderBuffer!operand_ready(q)
    <3>1. Awaited(r) = q
      BY <2>2, <2>5 DEF Awaited
    <3> QED BY <2>2, <2>3, <3>1 DEF OperandOk
  <2> QED BY <2>4, <2>5
<1>6. ASSUME r # 0, NamesNone(r)
      PROVE  OperandOk(TailNext, r, Awaited(r), Known(r))
  <2>1. NoWriter(TailNext, r)
    BY <1>6 DEF NamesNone, NoWriter
  <2>2. CASE rf_busy[r]
    <3>1. /\ rob_out.commit /\ rob_out.commit_rf /\ rob_out.target = r
          /\ rf_rob_tag[r] = rob_out.tag /\ rob_out.tag = rob_head
      BY <1>1, <1>6, <2>2 DEF NamesNone, Signals
    <3>2. SourceTag(r) = rob_head /\ rob_head # NULL_TAG /\ ~Flying(rob_head) /\ rob_head \in RobTag
      BY <1>1, <2>2, <3>1 DEF SourceTag, Silent, RobMoves
    <3>3. ~ReorderBuffer!operand_ready(rob_head)
      BY <3>2, RobWires DEF ReorderBuffer!operand_ready
    <3>4. Awaited(r) = rob_head /\ ArchReg[r] = rob_out.data /\ Committed(rob_head)
      BY <2>2, <3>1, <3>2, <3>3 DEF Awaited, ArchReg, Committed
    <3> QED BY <2>1, <3>2, <3>4 DEF OperandOk
  <2>3. CASE ~rf_busy[r]
    BY <1>3, <2>1, <2>3
  <2> QED BY <2>2, <2>3
<1> QED BY <1>1, <1>4, <1>5, <1>6 DEF Names

\* The decoder's wires that DecodedFields leaves open.
LEMMA DecodedMore ==
  /\ Decoded.imm = Decoder!Immediate(fet_out.inst)
  /\ Decoded.have_rs1 = Decoder!HaveRs1(fet_out.inst)
  /\ Decoded.have_rs2 = Decoder!HaveRs2(fet_out.inst)
  /\ Opcode(fet_out.inst.op) \in {"LOAD", "STORE"} => Decoded.imm = fet_out.inst.imm
<1>1. /\ Decoded.imm = Decoder!Immediate(fet_out.inst)
      /\ Decoded.have_rs1 = Decoder!HaveRs1(fet_out.inst)
      /\ Decoded.have_rs2 = Decoder!HaveRs2(fet_out.inst)
  BY DEF Decoded, Decoder!Decode
<1>2. Opcode(fet_out.inst.op) \in {"LOAD", "STORE"} => Decoder!Immediate(fet_out.inst) = fet_out.inst.imm
  BY DecoderNames DEF Decoder!Immediate
<1> QED BY <1>1, <1>2

\* What the ALU gives.
LEMMA BroadcastWords ==
  /\ Broadcast.result = Alu!AluResult(rs_calc.op, rs_calc.rs1val, rs_calc.rs2val, rs_calc.imm, rs_calc.pc)
  /\ Broadcast.new_pc = Alu!AluNewPc(rs_calc.op, rs_calc.rs1val, rs_calc.rs2val, rs_calc.imm, rs_calc.pc)
BY DEF Broadcast, Alu!AluBroadcast

\* The instruction of a tag keeps its registers' numbers in range.
LEMMA InstTypes ==
  ASSUME RobType, program \in [Word -> Instruction], NEW t \in RobTag
  PROVE  /\ InstOf(t) \in Instruction
         /\ InstOf(t).rs1 \in RegIndex /\ InstOf(t).rs2 \in RegIndex /\ InstOf(t).rd \in RegIndex
         /\ InstOf(t).imm \in Word /\ rob_entry[t].pc \in Word
<1>1. rob_entry[t].pc \in Word
  BY DEF RobType, RobEntry
<1>2. InstOf(t) \in Instruction
  BY <1>1 DEF InstOf
<1> QED BY <1>1, <1>2 DEF Instruction

\* An instruction stays what it is; the new one is what the fetcher issues.
LEMMA InstAfter ==
  ASSUME NEW mc, ValueWorks(mc), IssueRight, UNCHANGED program, NEW t \in RobTag
  PROVE  /\ Stays(t) => /\ InstOf(t)' = InstOf(t) /\ Imm(t)' = Imm(t) /\ rob_entry'[t].pc = rob_entry[t].pc
         /\ Enters(t) => /\ InstOf(t)' = fet_out.inst /\ Imm(t)' = Decoder!Immediate(fet_out.inst)
                         /\ rob_entry'[t].pc = fet_out.pc
         /\ Flying(t)' => Remaining(t)
<1>1. RobHolds(t) /\ RobMoves
  BY WorksParts
<1>2. InstOf(t)' = program[rob_entry'[t].pc]
  BY DEF InstOf
<1>3. Imm(t)' = Decoder!Immediate(program[rob_entry'[t].pc])
  BY DEF InstOf, Imm
<1>4. Stays(t) => InstOf(t)' = InstOf(t) /\ Imm(t)' = Imm(t) /\ rob_entry'[t].pc = rob_entry[t].pc
  <2> SUFFICES ASSUME Stays(t) PROVE InstOf(t)' = InstOf(t) /\ Imm(t)' = Imm(t) /\ rob_entry'[t].pc = rob_entry[t].pc
    OBVIOUS
  <2>1. rob_entry'[t].pc = rob_entry[t].pc
    BY <1>1 DEF RobHolds
  <2>2. Imm(t) = Decoder!Immediate(program[rob_entry[t].pc]) /\ InstOf(t) = program[rob_entry[t].pc]
    BY DEF Imm, InstOf
  <2> QED BY <1>2, <1>3, <2>1, <2>2, Zenon
<1>5. Enters(t) => /\ InstOf(t)' = fet_out.inst /\ Imm(t)' = Decoder!Immediate(fet_out.inst)
                   /\ rob_entry'[t].pc = fet_out.pc
  <2>1. Enters(t) => rob_entry'[t].pc = fet_out.pc
    BY <1>1 DEF RobHolds
  <2>2. Enters(t) => fet_out.inst = program[fet_out.pc]
    BY DecodedFields DEF Enters, IssueRight
  <2> QED BY <1>2, <1>3, <2>1, <2>2, Zenon
<1>6. Flying(t)' => Remaining(t)
  BY <1>1 DEF RobMoves, Remaining
<1> QED BY <1>4, <1>5, <1>6

\* The reorder buffer says of an instruction what it is, and where it goes unless it branches.
LEMMA HeldStep ==
  ASSUME NEW mc, ValueWorks(mc), IssueRight, UNCHANGED program, Held
  PROVE  Held'
<1> SUFFICES ASSUME NEW t \in RobTag, Flying(t)'
             PROVE  (/\ Op(t) = Opcode(InstOf(t).op)
                     /\ rob_entry[t].dest = InstOf(t).rd
                     /\ Guessed(InstOf(t), rob_entry[t].pc, rob_entry[t].predict_pc))'
  BY DEF Held
<1>1. SlotAfter(t) /\ RobHolds(t)
  BY WorksParts
<1>2. CASE Stays(t)
  <2>1. InstOf(t)' = InstOf(t) /\ rob_entry'[t].pc = rob_entry[t].pc
    BY <1>2, InstAfter
  <2>2. rob_entry'[t].predict_pc = rob_entry[t].predict_pc /\ rob_entry'[t].dest = rob_entry[t].dest
        /\ Op(t)' = Op(t)
    BY <1>1, <1>2 DEF SlotAfter, RobHolds
  <2>3. /\ Op(t) = Opcode(InstOf(t).op)
        /\ rob_entry[t].dest = InstOf(t).rd
        /\ Guessed(InstOf(t), rob_entry[t].pc, rob_entry[t].predict_pc)
    BY <1>2 DEF Held, Stays
  <2> QED BY <2>1, <2>2, <2>3, Zenon
<1>3. CASE Enters(t)
  <2>1. InstOf(t)' = fet_out.inst /\ rob_entry'[t].pc = fet_out.pc
    BY <1>3, InstAfter
  <2>2. /\ rob_entry'[t].predict_pc = fet_out.predict_pc /\ rob_entry'[t].dest = fet_out.inst.rd
        /\ Op(t)' = Opcode(fet_out.inst.op)
    BY <1>1, <1>3, DecodedFields DEF SlotAfter, RobHolds
  <2>3. Guessed(fet_out.inst, fet_out.pc, fet_out.predict_pc)
    BY <1>3, DecodedFields DEF Enters, IssueRight
  <2> QED BY <2>1, <2>2, <2>3, Zenon
<1> QED BY <1>2, <1>3, InstAfter DEF Remaining

\* What the station holds is right after the cycle.
LEMMA RsRightStep ==
  ASSUME NEW mc, ValueWorks(mc), IssueRight, UNCHANGED program, RsRight,
         RobType, FetcherType, program \in [Word -> Instruction]
  PROVE  RsRight'
<1>t. RobMoves /\ StationMoves /\ Presents /\ Owned
  BY WorksParts
<1> SUFFICES ASSUME NEW t \in RobTag, NEW i \in RsIndex, InRs(t, i)'
             PROVE  (LET e == rs_entry[i] IN
                     /\ e.op = InstOf(t).op /\ e.imm = Imm(t) /\ e.pc = rob_entry[t].pc
                     /\ e.have_rs1 <=> Decoder!HaveRs1(InstOf(t))
                     /\ e.have_rs2 <=> Decoder!HaveRs2(InstOf(t))
                     /\ e.have_rs1 => OperandOk(t, InstOf(t).rs1, e.Qj, e.Vj)
                     /\ e.have_rs2 => OperandOk(t, InstOf(t).rs2, e.Qk, e.Vk))'
  BY DEF RsRight
<1>0. RsHolds(i, mc) /\ RsSlotAfter(i) /\ rs_entry'[i].busy
  BY <1>t DEF ValueWorks, StationMoves, InRs
<1> DEFINE e == rs_entry[i]
           f == rs_entry'[i]
<1>a. PICK q1, v1 : q1 = f.Qj /\ v1 = f.Vj
  OBVIOUS
<1>b. PICK q2, v2 : q2 = f.Qk /\ v2 = f.Vk
  OBVIOUS
<1>1. CASE InRs(t, i) /\ ~Arrives(i)
  <2>1. Stays(t) /\ Remaining(t)
    <3>1. OfRs(t)
      BY <1>1, <1>t DEF Owned, OwnedInRs
    <3>2. RobTells
      BY WorksParts
    <3> QED BY <3>1, <3>2 DEF OfRs, Unfinished, Stays, RobTells, Remaining
  <2>2. /\ e.op = InstOf(t).op /\ e.imm = Imm(t) /\ e.pc = rob_entry[t].pc
        /\ e.have_rs1 <=> Decoder!HaveRs1(InstOf(t))
        /\ e.have_rs2 <=> Decoder!HaveRs2(InstOf(t))
        /\ e.have_rs1 => OperandOk(t, InstOf(t).rs1, e.Qj, e.Vj)
        /\ e.have_rs2 => OperandOk(t, InstOf(t).rs2, e.Qk, e.Vk)
    BY <1>1 DEF RsRight
  <2>3. /\ f.op = e.op /\ f.imm = e.imm /\ f.pc = e.pc
        /\ f.have_rs1 = e.have_rs1 /\ f.have_rs2 = e.have_rs2
        /\ Moves(e.Qj, e.Vj, q1, v1, mc) /\ Moves(e.Qk, e.Vk, q2, v2, mc)
    BY <1>0, <1>1, <1>a, <1>b, Zenon DEF RsHolds, RsSlotAfter
  <2>4. InstOf(t)' = InstOf(t) /\ Imm(t)' = Imm(t) /\ rob_entry'[t].pc = rob_entry[t].pc
    BY <2>1, InstAfter
  <2>5. PICK r1, r2 \in RegIndex : r1 = InstOf(t).rs1 /\ r2 = InstOf(t).rs2
    BY InstTypes
  <2>6. e.have_rs1 => OperandOk(t, r1, q1, v1)'
    BY <2>1, <2>2, <2>3, <2>5, OperandAfter
  <2>7. e.have_rs2 => OperandOk(t, r2, q2, v2)'
    BY <2>1, <2>2, <2>3, <2>5, OperandAfter
  <2>8. (InstOf(t).rs1)' = r1 /\ (InstOf(t).rs2)' = r2
    BY <2>4, <2>5
  <2>9. e.have_rs1 => OperandOk(t, InstOf(t).rs1, rs_entry[i].Qj, rs_entry[i].Vj)'
    BY <1>a, <2>6, <2>8, Zenon
  <2>10. e.have_rs2 => OperandOk(t, InstOf(t).rs2, rs_entry[i].Qk, rs_entry[i].Vk)'
    BY <1>b, <2>7, <2>8, Zenon
  <2> QED BY <2>2, <2>3, <2>4, <2>9, <2>10, Zenon
<1>2. CASE Arrives(i) /\ Enters(t)
  <2>1. t = TailNext /\ Remaining(t)
    BY <1>2 DEF Enters, Remaining
  <2>3. /\ f.op = fet_out.inst.op /\ f.imm = Decoder!Immediate(fet_out.inst) /\ f.pc = fet_out.pc
        /\ f.have_rs1 = Decoder!HaveRs1(fet_out.inst) /\ f.have_rs2 = Decoder!HaveRs2(fet_out.inst)
        /\ Moves(Decoded.Qj, Decoded.Vj, q1, v1, mc) /\ Moves(Decoded.Qk, Decoded.Vk, q2, v2, mc)
    BY <1>0, <1>2, <1>a, <1>b, DecodedFields, DecodedMore, Zenon DEF RsHolds
  <2>4. InstOf(t)' = fet_out.inst /\ Imm(t)' = Decoder!Immediate(fet_out.inst)
        /\ rob_entry'[t].pc = fet_out.pc
    BY <1>2, InstAfter
  <2>5. PICK r1, r2 \in RegIndex : r1 = fet_out.inst.rs1 /\ r2 = fet_out.inst.rs2
    BY DEF FetcherType, FetcherOutput, Instruction
  <2>6. /\ OperandOk(t, r1, Decoded.Qj, Decoded.Vj)
        /\ OperandOk(t, r2, Decoded.Qk, Decoded.Vk)
    BY <1>2, <2>1, <2>5, DecodedOperands, DecodedOk
  <2>7. OperandOk(t, r1, q1, v1)' /\ OperandOk(t, r2, q2, v2)'
    BY <2>1, <2>3, <2>6, OperandAfter
  <2>8. (InstOf(t).rs1)' = r1 /\ (InstOf(t).rs2)' = r2
    BY <2>4, <2>5
  <2>9. OperandOk(t, InstOf(t).rs1, rs_entry[i].Qj, rs_entry[i].Vj)'
    BY <1>a, <2>7, <2>8, Zenon
  <2>10. OperandOk(t, InstOf(t).rs2, rs_entry[i].Qk, rs_entry[i].Vk)'
    BY <1>b, <2>7, <2>8, Zenon
  <2> QED BY <2>3, <2>4, <2>9, <2>10, Zenon
<1> QED BY <1>t, <1>1, <1>2, StationAfter

\* What the ALU computes with is right after the cycle.
LEMMA AluRightStep ==
  ASSUME NEW mc, ValueWorks(mc), IssueRight, UNCHANGED program, RsRight,
         RobType, program \in [Word -> Instruction]
  PROVE  AluRight'
<1>t. StationMoves /\ Presents /\ Owned /\ RobTells
  BY WorksParts
<1> SUFFICES ASSUME NEW t \in RobTag, InAlu(t)'
             PROVE  (/\ rs_calc.op = InstOf(t).op /\ rs_calc.imm = Imm(t) /\ rs_calc.pc = rob_entry[t].pc
                     /\ Decoder!HaveRs1(InstOf(t)) => Has(t, InstOf(t).rs1, rs_calc.rs1val)
                     /\ Decoder!HaveRs2(InstOf(t)) => Has(t, InstOf(t).rs2, rs_calc.rs2val))'
  BY DEF AluRight
<1>1. PICK i \in RsIndex : Leaves(i) /\ InRs(t, i)
  <2>1. \E i \in RsIndex : TRUE
    BY <1>t DEF StationMoves, InAlu
  <2> QED BY <1>t, <2>1, StationAfter
<1> DEFINE e == rs_entry[i]
<1>2. Stays(t) /\ Remaining(t)
  <2>1. OfRs(t)
    BY <1>1, <1>t DEF Owned, OwnedInRs
  <2> QED BY <2>1, <1>t DEF OfRs, Unfinished, Stays, RobTells, Remaining
<1>3. /\ e.op = InstOf(t).op /\ e.imm = Imm(t) /\ e.pc = rob_entry[t].pc
      /\ e.have_rs1 <=> Decoder!HaveRs1(InstOf(t))
      /\ e.have_rs2 <=> Decoder!HaveRs2(InstOf(t))
      /\ e.have_rs1 => OperandOk(t, InstOf(t).rs1, e.Qj, e.Vj)
      /\ e.have_rs2 => OperandOk(t, InstOf(t).rs2, e.Qk, e.Vk)
  BY <1>1 DEF RsRight
<1>4. /\ e.have_rs1 => e.Qj = NULL_TAG
      /\ e.have_rs2 => e.Qk = NULL_TAG
      /\ rs_calc'.op = e.op /\ rs_calc'.imm = e.imm /\ rs_calc'.pc = e.pc
      /\ rs_calc'.rs1val = e.Vj /\ rs_calc'.rs2val = e.Vk
  <2>1. RsHolds(i, mc)
    BY DEF ValueWorks
  <2> QED BY <1>1, <2>1 DEF RsHolds
<1>5. InstOf(t)' = InstOf(t) /\ Imm(t)' = Imm(t) /\ rob_entry'[t].pc = rob_entry[t].pc
  BY <1>2, InstAfter
<1>6. PICK r1, r2 \in RegIndex : r1 = InstOf(t).rs1 /\ r2 = InstOf(t).rs2
  BY InstTypes
<1>7. PICK v1, v2 : v1 = e.Vj /\ v2 = e.Vk
  OBVIOUS
<1>8. e.have_rs1 => Has(t, r1, v1)'
  <2>1. e.have_rs1 => Has(t, r1, v1)
    BY <1>3, <1>4, <1>6, <1>7 DEF OperandOk
  <2> QED BY <1>2, <2>1, HasAfter
<1>9. e.have_rs2 => Has(t, r2, v2)'
  <2>1. e.have_rs2 => Has(t, r2, v2)
    BY <1>3, <1>4, <1>6, <1>7 DEF OperandOk
  <2> QED BY <1>2, <2>1, HasAfter
<1>10. /\ (InstOf(t).rs1)' = r1 /\ (InstOf(t).rs2)' = r2
       /\ rs_calc'.rs1val = v1 /\ rs_calc'.rs2val = v2
  BY <1>4, <1>5, <1>6, <1>7
<1>11. e.have_rs1 => Has(t, InstOf(t).rs1, rs_calc.rs1val)'
  BY <1>8, <1>10, Zenon
<1>12. e.have_rs2 => Has(t, InstOf(t).rs2, rs_calc.rs2val)'
  BY <1>9, <1>10, Zenon
<1> QED BY <1>3, <1>4, <1>5, <1>11, <1>12, Zenon

\* What the ALU computed is right after the cycle.
LEMMA DoneRightStep ==
  ASSUME NEW mc, ValueWorks(mc), IssueRight, UNCHANGED program, AluRight, DoneRight,
         RobType, RsType, program \in [Word -> Instruction]
  PROVE  DoneRight'
<1>t. Owned /\ RobMoves
  BY WorksParts
<1> SUFFICES ASSUME NEW t \in RobTag, Flying(t)', rob_entry'[t].ready, Op(t)' # "LOAD"
             PROVE  (\E a, b \in Word :
                      /\ Decoder!HaveRs1(InstOf(t)) => Has(t, InstOf(t).rs1, a)
                      /\ Decoder!HaveRs2(InstOf(t)) => Has(t, InstOf(t).rs2, b)
                      /\ rob_entry[t].data = Alu!AluResult(InstOf(t).op, a, b, Imm(t), rob_entry[t].pc)
                      /\ rob_entry[t].new_pc = Alu!AluNewPc(InstOf(t).op, a, b, Imm(t), rob_entry[t].pc))'
  BY DEF DoneRight
<1>1. /\ SlotAfter(t) /\ RobHolds(t)
      /\ Loaded(t) => OfLoad(t)
      /\ InAlu(t) => OfRs(t)
  BY WorksParts DEF Owned, OwnedByResult, OwnedInAlu
<1>2. Stays(t)
  BY <1>1, <1>t DEF SlotAfter, RobMoves
<1>3. Remaining(t) /\ Op(t) # "LOAD" /\ ~Loaded(t)
  BY <1>1, <1>2 DEF Remaining, SlotAfter, OfLoad
<1>5. InstOf(t)' = InstOf(t) /\ Imm(t)' = Imm(t) /\ rob_entry'[t].pc = rob_entry[t].pc
  BY <1>2, InstAfter
<1>6. PICK r1, r2 \in RegIndex : r1 = InstOf(t).rs1 /\ r2 = InstOf(t).rs2
  BY InstTypes
<1>7. \E a, b \in Word :
        /\ Decoder!HaveRs1(InstOf(t)) => Has(t, r1, a)
        /\ Decoder!HaveRs2(InstOf(t)) => Has(t, r2, b)
        /\ rob_entry'[t].data = Alu!AluResult(InstOf(t).op, a, b, Imm(t), rob_entry[t].pc)
        /\ rob_entry'[t].new_pc = Alu!AluNewPc(InstOf(t).op, a, b, Imm(t), rob_entry[t].pc)
  <2>1. CASE InAlu(t)
    <3>1. rob_entry'[t].data = Broadcast.result /\ rob_entry'[t].new_pc = Broadcast.new_pc
      BY <1>1, <1>2, <1>3, <2>1 DEF RobHolds
    <3>2. /\ rs_calc.op = InstOf(t).op /\ rs_calc.imm = Imm(t) /\ rs_calc.pc = rob_entry[t].pc
          /\ Decoder!HaveRs1(InstOf(t)) => Has(t, r1, rs_calc.rs1val)
          /\ Decoder!HaveRs2(InstOf(t)) => Has(t, r2, rs_calc.rs2val)
      BY <1>6, <2>1 DEF AluRight
    <3>3. rs_calc.rs1val \in Word /\ rs_calc.rs2val \in Word
      BY DEF RsType, Operation
    <3>4. /\ Broadcast.result = Alu!AluResult(InstOf(t).op, rs_calc.rs1val, rs_calc.rs2val, Imm(t), rob_entry[t].pc)
          /\ Broadcast.new_pc = Alu!AluNewPc(InstOf(t).op, rs_calc.rs1val, rs_calc.rs2val, Imm(t), rob_entry[t].pc)
      BY <3>2, BroadcastWords, Zenon
    <3> QED BY <3>1, <3>2, <3>3, <3>4, Zenon
  <2>2. CASE ~InAlu(t)
    <3>1. rob_entry[t].ready /\ Flying(t)
          /\ rob_entry'[t].data = rob_entry[t].data /\ rob_entry'[t].new_pc = rob_entry[t].new_pc
      BY <1>1, <1>2, <1>3, <2>2 DEF RobHolds, SlotAfter, Stays
    <3> QED BY <1>3, <1>6, <3>1, Zenon DEF DoneRight
  <2> QED BY <2>1, <2>2
<1>8. PICK a, b \in Word :
        /\ Decoder!HaveRs1(InstOf(t)) => Has(t, r1, a)
        /\ Decoder!HaveRs2(InstOf(t)) => Has(t, r2, b)
        /\ rob_entry'[t].data = Alu!AluResult(InstOf(t).op, a, b, Imm(t), rob_entry[t].pc)
        /\ rob_entry'[t].new_pc = Alu!AluNewPc(InstOf(t).op, a, b, Imm(t), rob_entry[t].pc)
  BY <1>7, Zenon
<1>9. /\ Decoder!HaveRs1(InstOf(t)) => Has(t, r1, a)'
      /\ Decoder!HaveRs2(InstOf(t)) => Has(t, r2, b)'
  BY <1>3, <1>8, HasAfter
<1>10. (InstOf(t).rs1)' = r1 /\ (InstOf(t).rs2)' = r2
  BY <1>5, <1>6
<1>11. /\ Decoder!HaveRs1(InstOf(t)) => Has(t, InstOf(t).rs1, a)'
       /\ Decoder!HaveRs2(InstOf(t)) => Has(t, InstOf(t).rs2, b)'
  BY <1>9, <1>10, Zenon
<1>12. a \in Word' /\ b \in Word'
  OBVIOUS
<1> QED BY <1>5, <1>8, <1>11, <1>12, Zenon

\* What the load store buffer holds is right after the cycle.
LEMMA LsbRightStep ==
  ASSUME NEW mc, ValueWorks(mc), IssueRight, UNCHANGED program, LsbRight,
         RobType, FetcherType, program \in [Word -> Instruction]
  PROVE  LsbRight'
<1>t. RobMoves /\ QueueWorks(mc) /\ Presents /\ Owned
  BY WorksParts
<1> SUFFICES ASSUME NEW t \in RobTag, NEW i \in LsbIndex, InLsb(t, i)', Flying(t)'
             PROVE  (LET e == lsb_entry[i] IN
                     /\ e.op = InstOf(t).op /\ e.imm = InstOf(t).imm
                     /\ OperandOk(t, InstOf(t).rs1, e.Qj, e.Vj)
                     /\ e.store => OperandOk(t, InstOf(t).rs2, e.Qk, e.Vk))'
  BY DEF LsbRight
<1>0. LsbHolds(i, mc) /\ QueueSlotAfter(i, Finishing(mc) /\ lsb_status = "LOAD")
  BY <1>t DEF ValueWorks, QueueWorks
<1> DEFINE e == lsb_entry[i]
           f == lsb_entry'[i]
<1>a. PICK q1, v1 : q1 = f.Qj /\ v1 = f.Vj
  OBVIOUS
<1>b. PICK q2, v2 : q2 = f.Qk /\ v2 = f.Vk
  OBVIOUS
<1>1. CASE QueueStays(i) /\ InLsb(t, i) /\ (lsb_entry[i].store => ~Hit(i))
  <2>1. Stays(t) /\ Remaining(t) /\ Flying(t)
    <3>1. Flying(t)
      BY <1>1, <1>t, LiveFlies
    <3> QED BY <3>1, <1>t DEF RobMoves, Remaining
  <2>2. /\ e.op = InstOf(t).op /\ e.imm = InstOf(t).imm
        /\ OperandOk(t, InstOf(t).rs1, e.Qj, e.Vj)
        /\ e.store => OperandOk(t, InstOf(t).rs2, e.Qk, e.Vk)
    BY <1>1, <2>1 DEF LsbRight
  <2>3. /\ f.op = e.op /\ f.imm = e.imm /\ f.store = e.store
        /\ Moves(e.Qj, e.Vj, q1, v1, mc) /\ Moves(e.Qk, e.Vk, q2, v2, mc)
    BY <1>0, <1>1, <1>a, <1>b, Zenon DEF LsbHolds, QueueSlotAfter
  <2>4. InstOf(t)' = InstOf(t)
    BY <2>1, InstAfter
  <2>5. PICK r1, r2 \in RegIndex : r1 = InstOf(t).rs1 /\ r2 = InstOf(t).rs2
    BY InstTypes
  <2>6. OperandOk(t, r1, q1, v1)'
    BY <2>1, <2>2, <2>3, <2>5, OperandAfter
  <2>7. e.store => OperandOk(t, r2, q2, v2)'
    BY <2>1, <2>2, <2>3, <2>5, OperandAfter
  <2>8. (InstOf(t).rs1)' = r1 /\ (InstOf(t).rs2)' = r2
    BY <2>4, <2>5
  <2>9. OperandOk(t, InstOf(t).rs1, lsb_entry[i].Qj, lsb_entry[i].Vj)'
    BY <1>a, <2>6, <2>8, Zenon
  <2>10. e.store => OperandOk(t, InstOf(t).rs2, lsb_entry[i].Qk, lsb_entry[i].Vk)'
    BY <1>b, <2>7, <2>8, Zenon
  <2> QED BY <2>2, <2>3, <2>4, <2>9, <2>10, Zenon
<1>2. CASE QueueEnters(i) /\ t = TailNext
  <2>1. Enters(t) /\ Remaining(t) /\ Decoded.to_lsb
    BY <1>2, <1>t DEF Enters, Remaining, QueueEnters, Presents
  <2>3. /\ f.op = fet_out.inst.op /\ f.imm = fet_out.inst.imm
        /\ Moves(Decoded.Qj, Decoded.Vj, q1, v1, mc) /\ Moves(Decoded.Qk, Decoded.Vk, q2, v2, mc)
    <3>1. f.op = Decoded.op /\ f.imm = Decoded.imm
          /\ Moves(Decoded.Qj, Decoded.Vj, q1, v1, mc) /\ Moves(Decoded.Qk, Decoded.Vk, q2, v2, mc)
      BY <1>0, <1>2, <1>a, <1>b, Zenon DEF LsbHolds, QueueSlotAfter
    <3> QED BY <3>1, <2>1, DecodedFields, DecodedMore, Zenon
  <2>4. InstOf(t)' = fet_out.inst
    BY <2>1, InstAfter
  <2>5. PICK r1, r2 \in RegIndex : r1 = fet_out.inst.rs1 /\ r2 = fet_out.inst.rs2
    BY DEF FetcherType, FetcherOutput, Instruction
  <2>6. /\ OperandOk(t, r1, Decoded.Qj, Decoded.Vj)
        /\ OperandOk(t, r2, Decoded.Qk, Decoded.Vk)
    BY <1>2, <2>1, <2>5, DecodedOperands, DecodedOk
  <2>7. OperandOk(t, r1, q1, v1)' /\ OperandOk(t, r2, q2, v2)'
    BY <2>1, <2>3, <2>6, OperandAfter
  <2>8. (InstOf(t).rs1)' = r1 /\ (InstOf(t).rs2)' = r2
    BY <2>4, <2>5
  <2>9. OperandOk(t, InstOf(t).rs1, lsb_entry[i].Qj, lsb_entry[i].Vj)'
    BY <1>a, <2>7, <2>8, Zenon
  <2>10. OperandOk(t, InstOf(t).rs2, lsb_entry[i].Qk, lsb_entry[i].Vk)'
    BY <1>b, <2>7, <2>8, Zenon
  <2> QED BY <2>3, <2>4, <2>9, <2>10, Zenon
<1> QED BY <1>t, <1>1, <1>2, LiveBefore

(***************************************************************************)
(* The instructions follow each other, and are the program's.              *)
(***************************************************************************)
\* The tail of the reorder buffer in a cycle of work.
TailMoves ==
  /\ rob_tail \in RobTag /\ RobAge(rob_tail) \in Nat
  /\ rob_tail' = IF Decoded.issue THEN TailNext ELSE rob_tail
  /\ Decoded.issue => RobAge(TailNext) = RobAge(rob_tail) + 1 /\ rob_head # TailNext
  /\ \A t \in RobTag : Flying(t) <=> 1 <= RobAge(t) /\ RobAge(t) <= RobAge(rob_tail)
  /\ \A s, t \in RobTag : RobAge(s) = RobAge(t) => s = t
  /\ RobAge(rob_head) = 0
  /\ Committing => rob_head # rob_tail

\* It moves with the issues.
LEMMA TailMovesHolds ==
  ASSUME RobType, Decoded.issue => ~ReorderBuffer!full_out,
         ReorderBuffer!Operate(Decoded, Broadcast, lsb_out)
  PROVE  TailMoves
<1>1. /\ rob_tail' = IF Decoded.issue THEN TailNext ELSE rob_tail
      /\ \A t \in RobTag : RobAge(t) \in Nat
      /\ \A s, t \in RobTag : RobAge(s) = RobAge(t) => s = t
  BY RobPointers
<1>2. /\ ~ReorderBuffer!full_out => RobAge(TailNext) = RobAge(rob_tail) + 1
      /\ RobAge(rob_head) = 0
  BY RobWires DEF TailNext
<1>3. rob_tail \in RobTag
  BY DEF RobType
<1>4. Decoded.issue => rob_head # TailNext
  BY DEF ReorderBuffer!full_out, TailNext
<1>5. Committing => rob_head # rob_tail
  BY DEF Committing, ReorderBuffer!CanCommit
<1> QED BY <1>1, <1>2, <1>3, <1>4, <1>5 DEF TailMoves, Flying

\* Where the fetcher is after a cycle without a rollback.
LEMMA NextPcIs ==
  ASSUME NEW mc, Fetcher!Operate(AnyFull, rob_out, mc)
  PROVE  /\ NextPc' = fet_pc
         /\ fet_out'.issue => fet_out'.pc = fet_pc
<1> DEFINE q == Fetcher!Quiet
<1>q. ~q.issue
  BY DEF Fetcher!Quiet
<1>1. CASE Fetcher!Hit
  BY <1>1, <1>q DEF Fetcher!Hit, NextPc
<1>2. CASE Fetcher!Miss
  <2> DEFINE o == [q EXCEPT !.mc_request = TRUE, !.mc_address = fet_pc]
  <2>1. ~o.issue
    BY Zenon DEF Fetcher!Quiet
  <2>2. fet_out' = o /\ fet_pc' = fet_pc
    BY <1>2 DEF Fetcher!Miss
  <2> HIDE DEF o
  <2> QED BY <2>1, <2>2 DEF NextPc
<1>3. CASE Fetcher!Fill(mc)
  BY <1>3, <1>q DEF Fetcher!Fill, NextPc
<1>4. CASE Fetcher!Issue(AnyFull)
  <2> DEFINE p == Fetcher!PredictedPc(fet_inst)
             o == [q EXCEPT !.issue = TRUE, !.inst = fet_inst, !.pc = fet_pc, !.predict_pc = p]
  <2>1. o.issue /\ o.pc = fet_pc
    <3> HIDE DEF p
    <3> QED BY Zenon DEF Fetcher!Quiet
  <2>2. fet_out' = o
    BY <1>4 DEF Fetcher!Issue
  <2> HIDE DEF o
  <2> QED BY <2>1, <2>2 DEF NextPc
<1>5. CASE Fetcher!Wait(AnyFull, mc)
  BY <1>5, <1>q DEF Fetcher!Wait, NextPc
<1> QED BY <1>1, <1>2, <1>3, <1>4, <1>5 DEF Fetcher!Operate

\* Without a wrong guess the commit goes where the guess went.
LEMMA CommittedPcIs ==
  ASSUME NEW mc, ValueWorks(mc), CommittedPc(FALSE), ~rob_need_to_rollback'
  PROVE  committed_pc' = IF Committing THEN rob_entry[HeadNext].predict_pc ELSE committed_pc
<1>1. RobTells /\ RobPulses
  BY WorksParts DEF ValueWorks
<1>2. rob_out'.commit <=> Committing
  BY <1>1 DEF RobTells
<1>3. Oldest = rob_entry[HeadNext]
  BY DEF Oldest, HeadNext
<1>4. Committing /\ Oldest.opcode \in {"JALR", "BRANCH"} => Oldest.new_pc = Oldest.predict_pc
  BY <1>1, <1>3 DEF RobPulses, ReorderBuffer!Mispredicts
<1> QED BY <1>2, <1>3, <1>4 DEF CommittedPc

\* The instructions follow each other after the cycle.
LEMMA ChainedStep ==
  ASSUME NEW mc, ValueWorks(mc), TailMoves, IssueRight, Chained,
         CommittedPc(FALSE), ~rob_need_to_rollback',
         Fetcher!Operate(AnyFull, rob_out, mc)
  PROVE  Chained'
<1>1. /\ RobMoves
      /\ \A t \in RobTag : RobHolds(t)
  BY WorksParts
<1>2. committed_pc' = IF Committing THEN rob_entry[HeadNext].predict_pc ELSE committed_pc
  BY CommittedPcIs
<1>3. Decoded.issue = fet_out.issue
  BY DecodedFields
<1>4. \A t \in RobTag : Flying(t)' => /\ Remaining(t) /\ RobAge(t) \in Nat
                                      /\ RobAge(t)' = IF Committing THEN RobAge(t) - 1 ELSE RobAge(t)
  BY <1>1 DEF RobMoves, Remaining, Stays
<1>5. \A t \in RobTag : Stays(t) => /\ Flying(t) /\ rob_entry'[t].pc = rob_entry[t].pc
                                    /\ rob_entry'[t].predict_pc = rob_entry[t].predict_pc
  BY <1>1 DEF RobHolds, Stays
<1>6. \A t \in RobTag : Enters(t) => /\ t = TailNext /\ fet_out.issue /\ RobAge(t) = RobAge(rob_tail) + 1
                                     /\ rob_entry'[t].pc = fet_out.pc
                                     /\ rob_entry'[t].predict_pc = fet_out.predict_pc
                                     /\ fet_out.pc = IF rob_head = rob_tail THEN committed_pc
                                                     ELSE rob_entry[rob_tail].predict_pc
  BY <1>1, <1>3 DEF RobHolds, Enters, TailMoves, Chained, NextPc
<1>7. HeadNext \in RobTag /\ RobAge(HeadNext) = 1 /\ (Committing => Flying(HeadNext))
      /\ rob_head' = IF Committing THEN HeadNext ELSE rob_head
  BY <1>1 DEF RobMoves
<1>8. ASSUME NEW t \in RobTag, Flying(t)', RobAge(t)' = 1
      PROVE  rob_entry'[t].pc = committed_pc'
  <2>1. CASE ~Committing
    <3>1. RobAge(t) = 1 /\ committed_pc' = committed_pc
      BY <1>2, <1>4, <1>8, <2>1
    <3>2. CASE Stays(t)
      BY <1>5, <3>1, <3>2 DEF Chained
    <3>3. CASE Enters(t)
      <4>1. RobAge(rob_tail) = 0
        BY <1>6, <3>1, <3>3 DEF TailMoves
      <4>2. rob_tail = rob_head
        BY <1>1, <4>1 DEF TailMoves, RobMoves
      <4> QED BY <1>6, <3>1, <3>3, <4>2
    <3> QED BY <1>4, <1>8, <3>2, <3>3 DEF Remaining
  <2>2. CASE Committing
    <3>1. RobAge(t) = RobAge(HeadNext) + 1 /\ committed_pc' = rob_entry[HeadNext].predict_pc
      BY <1>2, <1>4, <1>7, <1>8, <2>2
    <3>2. CASE Stays(t)
      BY <1>5, <1>7, <2>2, <3>1, <3>2 DEF Chained
    <3>3. CASE Enters(t)
      <4>1. RobAge(rob_tail) = 1
        BY <1>6, <1>7, <3>1, <3>3 DEF TailMoves
      <4>2. rob_tail = HeadNext /\ rob_tail # rob_head
        BY <1>1, <1>7, <2>2, <4>1 DEF TailMoves
      <4> QED BY <1>6, <3>1, <3>3, <4>2
    <3> QED BY <1>4, <1>8, <3>2, <3>3 DEF Remaining
  <2> QED BY <2>1, <2>2
<1>9. ASSUME NEW s \in RobTag, NEW t \in RobTag, Flying(s)', Flying(t)', RobAge(t)' = RobAge(s)' + 1
      PROVE  rob_entry'[t].pc = rob_entry'[s].predict_pc
  <2>1. RobAge(t) = RobAge(s) + 1 /\ Remaining(s) /\ Remaining(t)
    BY <1>4, <1>9
  <2>2. CASE Stays(s) /\ Stays(t)
    BY <1>5, <2>1, <2>2 DEF Chained
  <2>3. CASE Stays(s) /\ Enters(t)
    <3>1. RobAge(s) = RobAge(rob_tail) /\ RobAge(s) >= 1
      BY <1>4, <1>5, <1>6, <1>9, <2>1, <2>3 DEF TailMoves
    <3>2. s = rob_tail /\ s # rob_head
      BY <3>1 DEF TailMoves
    <3> QED BY <1>5, <1>6, <2>3, <3>2
  <2>4. CASE Enters(s)
    <3>1. Stays(t) => RobAge(t) < RobAge(s)
      BY <1>1, <2>4 DEF RobMoves, Stays
    <3>2. Enters(t) => RobAge(t) = RobAge(s)
      BY <2>4 DEF Enters
    <3> QED BY <1>4, <1>9, <2>1, <3>1, <3>2 DEF Remaining
  <2> QED BY <2>1, <2>2, <2>3, <2>4 DEF Remaining
<1>10. fet_pc = IF rob_head' = rob_tail' THEN committed_pc' ELSE rob_entry'[rob_tail'].predict_pc
  <2>1. CASE Decoded.issue
    <3>1. rob_tail' = TailNext /\ Enters(TailNext) /\ TailNext \in RobTag
      BY <2>1, WorksParts DEF TailMoves, Enters, Presents
    <3>2. rob_head' # rob_tail'
      BY <1>1, <1>7, <2>1, <3>1 DEF TailMoves, RobMoves
    <3>3. fet_pc = fet_out.predict_pc
      BY <1>3, <2>1 DEF IssueRight
    <3> QED BY <1>6, <3>1, <3>2, <3>3
  <2>2. CASE ~Decoded.issue
    <3>1. rob_tail' = rob_tail /\ fet_pc = IF rob_head = rob_tail THEN committed_pc
                                           ELSE rob_entry[rob_tail].predict_pc
      BY <1>3, <2>2 DEF TailMoves, Chained, NextPc
    <3>2. CASE rob_head = rob_tail
      BY <1>2, <1>7, <3>1, <3>2 DEF TailMoves
    <3>3. CASE rob_head # rob_tail /\ Committing /\ HeadNext = rob_tail
      BY <1>2, <1>7, <3>1, <3>3
    <3>4. CASE rob_head # rob_tail /\ ~(Committing /\ HeadNext = rob_tail)
      <4>1. rob_head' # rob_tail'
        BY <1>7, <3>1, <3>4
      <4>2. RobAge(rob_tail) # 0 /\ rob_tail \in RobTag
        BY <1>1, <3>4 DEF RobMoves, TailMoves
      <4>3. Stays(rob_tail)
        BY <3>4, <4>2 DEF Stays, TailMoves
      <4> QED BY <1>5, <3>1, <3>4, <4>1, <4>2, <4>3
    <3> QED BY <3>2, <3>3, <3>4
  <2> QED BY <2>1, <2>2
<1>11. NextPc' = fet_pc
  BY NextPcIs
<1> QED BY <1>8, <1>9, <1>10, <1>11 DEF Chained

\* What is divided is the quotient times the divisor and the remainder.
LEMMA DivMod ==
  ASSUME NEW a \in Nat, NEW m \in Nat, m >= 1
  PROVE  a = m * (a \div m) + (a % m) /\ (a \div m) \in Nat
BY Quotient

\* Instructions at different places differ in the line or the tag of the cache.
LEMMA SameLine ==
  ASSUME NEW a \in Nat, NEW b \in Nat, a % INST_BYTES = 0, b % INST_BYTES = 0,
         Fetcher!CacheIndex(a) = Fetcher!CacheIndex(b), Fetcher!CacheTag(a) = Fetcher!CacheTag(b)
  PROVE  a = b
<1>0. INST_BYTES \in Nat /\ INST_BYTES >= 1 /\ ICACHE_CAPACITY \in Nat /\ ICACHE_CAPACITY >= 1
  BY WordAssumption, CapacityAssumption
<1> DEFINE x == a \div INST_BYTES
           y == b \div INST_BYTES
<1>1. x \in Nat /\ y \in Nat /\ a = INST_BYTES * x + 0 /\ b = INST_BYTES * y + 0
  BY <1>0, DivMod
<1>2. x % ICACHE_CAPACITY = y % ICACHE_CAPACITY /\ x \div ICACHE_CAPACITY = y \div ICACHE_CAPACITY
  BY DEF Fetcher!CacheIndex, Fetcher!CacheTag
<1> HIDE DEF x, y
<1>3. x = y
  <2>1. x = ICACHE_CAPACITY * (x \div ICACHE_CAPACITY) + (x % ICACHE_CAPACITY)
    BY <1>0, <1>1, DivMod
  <2>2. y = ICACHE_CAPACITY * (y \div ICACHE_CAPACITY) + (y % ICACHE_CAPACITY)
    BY <1>0, <1>1, DivMod
  <2> QED BY <1>2, <2>1, <2>2
<1> QED BY <1>1, <1>3

\* What the memory keeps of a fetch, and how it answers.
FetchWords ==
  /\ mem_fet_request'.pending =>
       mem_fet_request'.address = IF fet_out.mc_request THEN fet_out.mc_address ELSE mem_fet_request.address
  /\ mem_out'.fet_ready => /\ mem_fet_request.pending
                           /\ mem_out'.fet_instruction = program[mem_fet_request.address]

\* In every cycle of the memory.
LEMMA FetchWordsHold ==
  ASSUME NEW serves, Memory!Clock(FALSE, rob_out, fet_out, lsb_out, serves, program)
  PROVE  FetchWords
<1> DEFINE q == Memory!Quiet
<1>q. ~q.fet_ready /\ ~Memory!NoFetch.pending
  BY DEF Memory!Quiet, Memory!NoFetch
<1>f. Memory!FetchOf(fet_out).address = fet_out.mc_address
  BY DEF Memory!FetchOf
<1>1. CASE Memory!Rollback(lsb_out)
  BY <1>1, <1>q DEF Memory!Rollback, FetchWords
<1>2. CASE Memory!Work(fet_out, lsb_out)
  BY <1>2, <1>q, <1>f DEF Memory!Work, Memory!Accept, FetchWords
<1>3. CASE Memory!FinishFetch(fet_out, lsb_out, program)
  <2> DEFINE a == program[mem_fet_request.address]
             o == [q EXCEPT !.fet_ready = TRUE, !.fet_instruction = a]
  <2>1. o.fet_instruction = a
    <3> HIDE DEF a
    <3> QED BY Zenon DEF Memory!Quiet
  <2>2. mem_out' = o /\ mem_fet_request.pending /\ Memory!Accept(fet_out, lsb_out, Memory!NoFetch, mem_lsb_request)
    BY <1>3 DEF Memory!FinishFetch
  <2> HIDE DEF o
  <2> QED BY <2>1, <2>2, <1>q, <1>f DEF Memory!Accept, FetchWords
<1>4. CASE Memory!FinishStore(fet_out, lsb_out)
  <2> DEFINE o == [q EXCEPT !.lsb_ready = TRUE]
  <2>1. ~o.fet_ready
    BY Zenon DEF Memory!Quiet
  <2>2. mem_out' = o /\ Memory!Accept(fet_out, lsb_out, mem_fet_request, Memory!NoAccess)
    BY <1>4 DEF Memory!FinishStore
  <2> HIDE DEF o
  <2> QED BY <2>1, <2>2, <1>f DEF Memory!Accept, FetchWords
<1>5. CASE Memory!FinishLoad(fet_out, lsb_out)
  <2> DEFINE d == IF Memory!IsIo(mem_lsb_request.address) THEN mem_io_reads
                  ELSE Memory!ReadBytes(mem_ram, mem_lsb_request.address, mem_lsb_request.goal)
             o == [q EXCEPT !.lsb_ready = TRUE, !.lsb_data = d]
  <2>1. ~o.fet_ready
    <3> HIDE DEF d
    <3> QED BY Zenon DEF Memory!Quiet
  <2>2. mem_out' = o /\ Memory!Accept(fet_out, lsb_out, mem_fet_request, Memory!NoAccess)
    BY <1>5 DEF Memory!FinishLoad
  <2> HIDE DEF o
  <2> QED BY <2>1, <2>2, <1>f DEF Memory!Accept, FetchWords
<1> QED BY <1>1, <1>2, <1>3, <1>4, <1>5 DEF Memory!Clock

\* What is fetched, cached and issued is the program's instruction after the cycle too.
LEMMA FetchRightStep ==
  ASSUME NEW serves, CpuInv, CacheRight, FetchRight, IssueRight, fet_pc % INST_BYTES = 0,
         UNCHANGED program,
         Memory!Clock(FALSE, rob_out, fet_out, lsb_out, serves, program),
         Fetcher!Clock(FALSE, AnyFull, rob_out, mem_out)
  PROVE  CacheRight' /\ FetchRight' /\ IssueRight'
<1>0. FetcherType /\ FetchAgreed(mem_fet_request.pending, mem_out.fet_ready) /\ fet_pc \in Word
  BY DEF CpuInv, CoreInv, CoreType, FetcherType
<1>1. FetchWords
  BY FetchWordsHold
<1>2. IF rob_out.rollback
        THEN ~mem_fet_request'.pending /\ ~mem_out'.fet_ready
        ELSE /\ fet_out.mc_request => mem_fet_request'.pending
             /\ mem_out'.fet_ready => mem_fet_request.pending /\ (~fet_out.mc_request => ~mem_fet_request'.pending)
             /\ ~mem_out'.fet_ready /\ ~fet_out.mc_request => (mem_fet_request'.pending <=> mem_fet_request.pending)
  BY MemoryFetches, Zenon DEF FetchServed
<1>3. /\ fet_status = "WAITING" => Single(fet_out.mc_request, mem_fet_request.pending, mem_out.fet_ready)
      /\ fet_status # "WAITING" => Nowhere(fet_out.mc_request, mem_fet_request.pending, mem_out.fet_ready)
  BY <1>0 DEF FetchAgreed
<1>q. ~Fetcher!Quiet.issue /\ ~Fetcher!Quiet.mc_request
  BY DEF Fetcher!Quiet
<1> DEFINE c == Fetcher!CacheIndex(fet_pc)
<1>c. c \in 0 .. ICACHE_CAPACITY - 1
  <2>1. (fet_pc \div INST_BYTES) \in Nat /\ ICACHE_CAPACITY \in Nat /\ ICACHE_CAPACITY >= 1
    BY <1>0, WordArithmetic, WordAssumption, CapacityAssumption, Quotient
  <2> QED BY <2>1 DEF Fetcher!CacheIndex
<1>4. UNCHANGED fet_icache => CacheRight'
  BY DEF CacheRight, Fetcher!CacheIndex, Fetcher!CacheTag
<1>5. CASE rob_out.rollback
  <2>1. /\ fet_status' = "IDLE" /\ ~fet_out'.issue /\ ~fet_out'.mc_request /\ UNCHANGED fet_icache
    BY <1>5, <1>q DEF Fetcher!Clock, Fetcher!Rollback
  <2> QED BY <1>2, <1>4, <1>5, <2>1 DEF FetchRight, IssueRight
<1>6. CASE ~rob_out.rollback
  <2>0. Fetcher!Operate(AnyFull, rob_out, mem_out)
    BY <1>6 DEF Fetcher!Clock
  <2>1. CASE Fetcher!Hit
    <3>1. /\ fet_status = "IDLE" /\ fet_status' = "ISSUING" /\ fet_inst' = fet_icache[c].inst
          /\ fet_icache[c].valid /\ fet_icache[c].tag = Fetcher!CacheTag(fet_pc)
          /\ ~fet_out'.issue /\ ~fet_out'.mc_request /\ fet_pc' = fet_pc /\ UNCHANGED fet_icache
      BY <2>1, <1>q DEF Fetcher!Hit, Fetcher!cache_hit, Fetcher!cache_inst
    <3>2. fet_icache[c].inst = program[fet_pc]
      BY <3>1, <1>0, <1>c DEF CacheRight
    <3>3. ~mem_fet_request'.pending /\ ~mem_out'.fet_ready
      BY <1>2, <1>3, <1>6, <3>1 DEF Nowhere
    <3> QED BY <1>4, <3>1, <3>2, <3>3 DEF FetchRight, IssueRight
  <2>2. CASE Fetcher!Miss
    <3> DEFINE o == [Fetcher!Quiet EXCEPT !.mc_request = TRUE, !.mc_address = fet_pc]
    <3>1. ~o.issue /\ o.mc_address = fet_pc
      BY Zenon DEF Fetcher!Quiet
    <3>2. /\ fet_status = "IDLE" /\ fet_status' = "WAITING" /\ fet_out' = o /\ fet_pc' = fet_pc /\ UNCHANGED fet_icache
      BY <2>2 DEF Fetcher!Miss
    <3> HIDE DEF o
    <3>3. ~mem_fet_request'.pending /\ ~mem_out'.fet_ready
      BY <1>2, <1>3, <1>6, <3>2 DEF Nowhere
    <3> QED BY <1>4, <3>1, <3>2, <3>3 DEF FetchRight, IssueRight
  <2>3. CASE Fetcher!Fill(mem_out)
    <3> DEFINE l == [valid |-> TRUE, tag |-> Fetcher!CacheTag(fet_pc), inst |-> mem_out.fet_instruction]
    <3>1. /\ fet_status = "WAITING" /\ mem_out.fet_ready /\ fet_status' = "ISSUING"
          /\ fet_inst' = mem_out.fet_instruction /\ fet_icache' = [fet_icache EXCEPT ![c] = l]
          /\ ~fet_out'.issue /\ ~fet_out'.mc_request /\ fet_pc' = fet_pc
      BY <2>3, <1>q DEF Fetcher!Fill
    <3>2. mem_out.fet_instruction = program[fet_pc]
      BY <3>1 DEF FetchRight
    <3>3. ~mem_fet_request'.pending /\ ~mem_out'.fet_ready
      BY <1>2, <1>3, <1>6, <3>1 DEF Single
    <3>4. CacheRight'
      <4> SUFFICES ASSUME NEW k \in 0 .. ICACHE_CAPACITY - 1, NEW a \in Word,
                          fet_icache'[k].valid, a % INST_BYTES = 0,
                          Fetcher!CacheIndex(a) = k, Fetcher!CacheTag(a) = fet_icache'[k].tag
                   PROVE  fet_icache'[k].inst = program[a]
        BY DEF CacheRight, Fetcher!CacheIndex, Fetcher!CacheTag
      <4>1. fet_icache \in [0 .. ICACHE_CAPACITY - 1 -> CacheLine]
        BY <1>0 DEF FetcherType
      <4>2. CASE k = c
        <5>1. fet_icache'[k] = l
          BY <3>1, <4>1, <4>2, <1>c
        <5>2. Fetcher!CacheTag(a) = Fetcher!CacheTag(fet_pc) /\ fet_icache'[k].inst = program[fet_pc]
          BY <3>2, <5>1
        <5>3. a \in Nat /\ fet_pc \in Nat
          BY <1>0, WordArithmetic
        <5>4. a = fet_pc
          BY <4>2, <5>2, <5>3, SameLine
        <5> QED BY <5>2, <5>4
      <4>3. CASE k # c
        <5>1. fet_icache'[k] = fet_icache[k]
          BY <3>1, <4>1, <4>3
        <5> QED BY <5>1 DEF CacheRight
      <4> QED BY <4>2, <4>3
    <3> QED BY <3>1, <3>2, <3>3, <3>4 DEF FetchRight, IssueRight
  <2>4. CASE Fetcher!Issue(AnyFull)
    <3> DEFINE p == Fetcher!PredictedPc(fet_inst)
               o == [Fetcher!Quiet EXCEPT !.issue = TRUE, !.inst = fet_inst, !.pc = fet_pc, !.predict_pc = p]
    <3>1. o.inst = fet_inst /\ o.pc = fet_pc /\ o.predict_pc = p /\ ~o.mc_request
      <4> HIDE DEF p
      <4> QED BY Zenon DEF Fetcher!Quiet
    <3>2. /\ fet_status = "ISSUING" /\ fet_status' = "IDLE" /\ fet_pc' = p
          /\ fet_out' = o /\ UNCHANGED fet_icache
      BY <2>4 DEF Fetcher!Issue
    <3>3. ~mem_fet_request'.pending /\ ~mem_out'.fet_ready
      BY <1>2, <1>3, <1>6, <3>2 DEF Nowhere
    <3>4. fet_inst = program[fet_pc]
      BY <3>2 DEF FetchRight
    <3>5. Guessed(fet_inst, fet_pc, p)
      <4>1. \A a, b : Fetcher!Add(a, b) = Add(a, b)
        BY FetcherNames
      <4>2. Fetcher!BranchOps = BranchOps
        BY DEF Fetcher!BranchOps, BranchOps
      <4> QED BY <4>1, <4>2 DEF Guessed, Fetcher!PredictedPc, BranchOps
    <3> HIDE DEF o, p
    <3> QED BY <1>4, <3>1, <3>2, <3>3, <3>4, <3>5 DEF FetchRight, IssueRight
  <2>5. CASE Fetcher!Wait(AnyFull, mem_out)
    <3>1. /\ (fet_status = "WAITING" /\ ~mem_out.fet_ready) \/ fet_status = "ISSUING"
          /\ ~fet_out'.issue /\ ~fet_out'.mc_request /\ fet_pc' = fet_pc /\ fet_inst' = fet_inst
          /\ fet_status' = fet_status /\ UNCHANGED fet_icache
      BY <2>5, <1>q DEF Fetcher!Wait
    <3>2. mem_fet_request'.pending => mem_fet_request'.address = fet_pc
      BY <1>1, <1>2, <1>3, <1>6, <3>1 DEF FetchWords, Single, Nowhere, FetchRight
    <3>3. mem_out'.fet_ready => mem_out'.fet_instruction = program[fet_pc]
      BY <1>1, <1>2, <1>3, <1>6, <3>1 DEF FetchWords, Single, Nowhere, FetchRight
    <3>4. FetchRight'
      BY <3>1, <3>2, <3>3 DEF FetchRight
    <3> QED BY <1>4, <3>1, <3>4 DEF IssueRight
  <2> QED BY <2>0, <2>1, <2>2, <2>3, <2>4, <2>5 DEF Fetcher!Operate
<1> QED BY <1>5, <1>6

(***************************************************************************)
(* The memory the programmer sees: what has reached the RAM, what is       *)
(* pending there, what is on its way, and the committed stores queued.     *)
(***************************************************************************)
\* The committed stores are the oldest in the queue.
LEMMA CommittedSlots ==
  LsbType /\ CommittedFirst /\ rob_out.commit_lsb \in BOOLEAN =>
    \A i : i \in CommittedStores <=> Queued(i) /\ lsb_entry[i].store /\ Place(i) <= Due
<1> SUFFICES ASSUME LsbType, CommittedFirst, rob_out.commit_lsb \in BOOLEAN, NEW i
             PROVE  i \in CommittedStores <=> Queued(i) /\ lsb_entry[i].store /\ Place(i) <= Due
  OBVIOUS
<1>1. i \in QueuedAccesses <=> Queued(i)
  BY LsbWires DEF QueuedAccesses, Queued
<1>2. ASSUME Queued(i)
      PROVE  lsb_entry[i].commit_flag \/ (rob_out.commit_lsb /\ i = LoadStoreBuffer!CommitSlot) <=> Place(i) <= Due
  <2>1. i \in LsbIndex /\ Place(i) \in Nat /\ lsb_cnt \in Nat
    BY <1>2, LsbWires DEF Queued
  <2>2. lsb_entry[i].commit_flag <=> Place(i) <= lsb_cnt
    BY <1>2, <2>1 DEF CommittedFirst
  <2>3. rob_out.commit_lsb => (i = LoadStoreBuffer!CommitSlot <=> Place(i) = lsb_cnt + 1)
    BY <2>1, LsbWires DEF CommittedFirst
  <2>4. Due = IF rob_out.commit_lsb THEN lsb_cnt + 1 ELSE lsb_cnt
    BY <2>1 DEF Due, Flag
  <2> QED BY <2>1, <2>2, <2>3, <2>4
<1> QED BY <1>1, <1>2 DEF CommittedStores

\* A byte of the memory, as the programmer sees it.
MemBytes ==
  /\ DOMAIN ArchMem = DOMAIN HandedOver
  /\ \A x \in DOMAIN HandedOver :
       /\ (\A i \in CommittedStores : ~Stores(i, x)) => ArchMem[x] = HandedOver[x]
       /\ \A i \in CommittedStores :
            Stores(i, x) /\ (\A j \in CommittedStores : Stores(j, x) => Place(j) <= Place(i))
              => ArchMem[x] = StoredByte(i, x)
       /\ (\E i \in CommittedStores : Stores(i, x))
            => \E i \in CommittedStores :
                 Stores(i, x) /\ \A j \in CommittedStores : Stores(j, x) => Place(j) <= Place(i)

\* It is what the youngest committed store puts there.
LEMMA ByteIs == LsbType => MemBytes
<1> SUFFICES ASSUME LsbType PROVE MemBytes
  OBVIOUS
<1>0. ArchMem = [x \in DOMAIN HandedOver |->
                   IF \E i \in CommittedStores : Stores(i, x)
                     THEN StoredByte(CHOOSE i \in CommittedStores : YoungestStore(i, x), x)
                     ELSE HandedOver[x]]
  BY DEF ArchMem, AfterStores
<1>1. CommittedStores \subseteq LsbIndex
  BY DEF CommittedStores, QueuedAccesses
<1>2. \A i \in CommittedStores : Place(i) \in Nat /\ Place(i) <= LSB_CAPACITY - 1
                                 /\ LoadStoreBuffer!Slot(i - lsb_head) = Place(i)
  BY <1>1, LsbWires, LsbCircle DEF Place, LsbType
<1>3. \A i, j \in CommittedStores : Place(i) = Place(j) => i = j
  BY <1>1, LsbWires
<1>4. ASSUME NEW x, NEW i \in CommittedStores, Stores(i, x),
             \A j \in CommittedStores : Stores(j, x) => Place(j) <= Place(i)
      PROVE  (CHOOSE k \in CommittedStores : YoungestStore(k, x)) = i
  <2>1. YoungestStore(i, x)
    BY <1>2, <1>4 DEF YoungestStore
  <2>2. ASSUME NEW k \in CommittedStores, YoungestStore(k, x) PROVE k = i
    <3>1. Place(i) <= Place(k) /\ Place(k) <= Place(i)
      BY <1>2, <1>4, <2>2 DEF YoungestStore
    <3> QED BY <1>2, <1>3, <3>1
  <2> QED BY <2>1, <2>2
<1>5. ASSUME NEW x, NEW k \in CommittedStores, Stores(k, x)
      PROVE  \E i \in CommittedStores :
               Stores(i, x) /\ \A j \in CommittedStores : Stores(j, x) => Place(j) <= Place(i)
  <2> DEFINE S == {LSB_CAPACITY - Place(i) : i \in {j \in CommittedStores : Stores(j, x)}}
  <2>0. LSB_CAPACITY \in Nat
    BY CapacityAssumption
  <2>1. S \in SUBSET Nat /\ S # {}
    BY <1>2, <1>5, <2>0
  <2>2. PICK m \in S : \A n \in S : m <= n
    <3> HIDE DEF S
    <3> QED BY <2>1, LeastElement
  <2>3. PICK i \in CommittedStores : Stores(i, x) /\ m = LSB_CAPACITY - Place(i)
    OBVIOUS
  <2>4. ASSUME NEW j \in CommittedStores, Stores(j, x) PROVE Place(j) <= Place(i)
    <3>1. LSB_CAPACITY - Place(j) \in S
      BY <2>4
    <3>2. LSB_CAPACITY - Place(i) <= LSB_CAPACITY - Place(j)
      BY <2>2, <2>3, <3>1
    <3> HIDE DEF S
    <3> QED BY <1>2, <2>0, <3>2
  <2> QED BY <2>3, <2>4
<1>6. DOMAIN ArchMem = DOMAIN HandedOver
  BY <1>0
<1>7. ASSUME NEW x \in DOMAIN HandedOver
      PROVE  /\ (\A i \in CommittedStores : ~Stores(i, x)) => ArchMem[x] = HandedOver[x]
             /\ \A i \in CommittedStores :
                  Stores(i, x) /\ (\A j \in CommittedStores : Stores(j, x) => Place(j) <= Place(i))
                    => ArchMem[x] = StoredByte(i, x)
  <2>1. ArchMem[x] = IF \E i \in CommittedStores : Stores(i, x)
                       THEN StoredByte(CHOOSE i \in CommittedStores : YoungestStore(i, x), x)
                       ELSE HandedOver[x]
    BY <1>0
  <2> QED BY <1>4, <2>1, Zenon
<1> QED BY <1>5, <1>6, <1>7 DEF MemBytes

\* What happens to the committed stores in a cycle: some are still in the queue, the
\* oldest may have left it, and a commit may have added one.
StoresFollow(N) ==
  /\ \A i : i \in CommittedStores' <=> (i \in CommittedStores /\ ~(Running /\ i = LsbHead)) \/ i \in N
  /\ \A i \in N : i \notin CommittedStores
  /\ N \subseteq LsbIndex
  /\ \A i, j \in N : i = j
  /\ \A i \in CommittedStores : ~(Running /\ i = LsbHead) =>
       LoadStoreBuffer!Address(lsb_entry[i])' = LoadStoreBuffer!Address(lsb_entry[i])
       /\ lsb_entry'[i].op = lsb_entry[i].op /\ lsb_entry'[i].Vk = lsb_entry[i].Vk
  /\ \A i, j \in CommittedStores' : Place(i)' <= Place(j)' <=> Place(i) <= Place(j)
  /\ \A i \in N, j \in CommittedStores' : Place(j) <= Place(i)
  /\ Running => /\ \A j \in CommittedStores : Place(LsbHead) <= Place(j)
                /\ First.store => LsbHead \in CommittedStores
                /\ LsbHead \in CommittedStores => First.store
  /\ HandedOver' = IF Running /\ First.store
                     THEN WriteBytes(HandedOver, LoadStoreBuffer!Address(First), Goal(First.op), First.Vk)
                     ELSE HandedOver

\* The memory the programmer sees changes with the commits of stores only.
LEMMA MemAfter ==
  ASSUME LsbType, LsbType', NEW N, StoresFollow(N)
  PROVE  /\ DOMAIN ArchMem' = DOMAIN ArchMem
         /\ \A x \in DOMAIN ArchMem :
              /\ \A n \in N : Stores(n, x)' => ArchMem'[x] = StoredByte(n, x)'
              /\ (\A n \in N : ~Stores(n, x)') => ArchMem'[x] = ArchMem[x]
<1>1. MemBytes
  BY ByteIs
<1>2. MemBytes'
  BY ByteIs, PTL
<1> DEFINE D == DOMAIN HandedOver
<1>3. DOMAIN HandedOver' = D
  BY DEF StoresFollow, WriteBytes
<1>4. DOMAIN ArchMem = D /\ DOMAIN ArchMem' = D
  BY <1>1, <1>2, <1>3 DEF MemBytes
<1>5. \A x : \A i \in CommittedStores : ~(Running /\ i = LsbHead) =>
        /\ Stores(i, x)' <=> Stores(i, x)
        /\ StoredByte(i, x)' = StoredByte(i, x)
  BY Zenon DEF StoresFollow, Stores, StoredByte
<1>6. \A i, j \in LsbIndex : Place(i) \in Nat
  BY LsbWires
<1>7. CommittedStores \subseteq LsbIndex
  BY DEF CommittedStores, QueuedAccesses
<1> SUFFICES ASSUME NEW x \in D
             PROVE  /\ \A n \in N : Stores(n, x)' => ArchMem'[x] = StoredByte(n, x)'
                    /\ (\A n \in N : ~Stores(n, x)') => ArchMem'[x] = ArchMem[x]
  BY <1>4
<1>8. /\ (\A i \in CommittedStores' : ~Stores(i, x)') => ArchMem'[x] = HandedOver'[x]
      /\ \A i \in CommittedStores' :
           Stores(i, x)' /\ (\A j \in CommittedStores' : Stores(j, x)' => Place(j)' <= Place(i)')
             => ArchMem'[x] = StoredByte(i, x)'
  BY <1>2, <1>3, Zenon DEF MemBytes
<1>9. /\ (\A i \in CommittedStores : ~Stores(i, x)) => ArchMem[x] = HandedOver[x]
      /\ \A i \in CommittedStores :
           Stores(i, x) /\ (\A j \in CommittedStores : Stores(j, x) => Place(j) <= Place(i))
             => ArchMem[x] = StoredByte(i, x)
      /\ (\E i \in CommittedStores : Stores(i, x))
           => \E i \in CommittedStores :
                Stores(i, x) /\ \A j \in CommittedStores : Stores(j, x) => Place(j) <= Place(i)
  BY <1>1, Zenon DEF MemBytes
<1>10. ASSUME NEW n \in N, Stores(n, x)'
       PROVE  ArchMem'[x] = StoredByte(n, x)'
  <2>1. n \in CommittedStores' /\ \A j \in CommittedStores' : Place(j)' <= Place(n)'
    BY <1>10 DEF StoresFollow
  <2> QED BY <1>8, <1>10, <2>1, Zenon
<1>11. ASSUME \A n \in N : ~Stores(n, x)'
       PROVE  ArchMem'[x] = ArchMem[x]
  <2>0. \A j \in CommittedStores' : Stores(j, x)' => /\ j \in CommittedStores /\ ~(Running /\ j = LsbHead)
                                                      /\ Stores(j, x)
    BY <1>5, <1>11 DEF StoresFollow
  <2>1. CASE \E i \in CommittedStores : Stores(i, x)
    <3>1. PICK i \in CommittedStores :
            Stores(i, x) /\ \A j \in CommittedStores : Stores(j, x) => Place(j) <= Place(i)
      BY <1>9, <2>1
    <3>2. ArchMem[x] = StoredByte(i, x)
      BY <1>9, <3>1, Zenon
    <3>3. CASE ~(Running /\ i = LsbHead)
      <4>1. i \in CommittedStores' /\ Stores(i, x)' /\ StoredByte(i, x)' = StoredByte(i, x)
        BY <1>5, <3>1, <3>3 DEF StoresFollow
      <4>2. \A j \in CommittedStores' : Stores(j, x)' => Place(j)' <= Place(i)'
        BY <2>0, <3>1, <4>1 DEF StoresFollow
      <4> QED BY <1>8, <3>2, <4>1, <4>2, Zenon
    <3>4. CASE Running /\ i = LsbHead
      <4>1. \A j \in CommittedStores' : ~Stores(j, x)'
        <5> SUFFICES ASSUME NEW j \in CommittedStores', Stores(j, x)' PROVE FALSE
          OBVIOUS
        <5>1. j \in CommittedStores /\ j # i /\ Stores(j, x)
          BY <2>0, <3>4
        <5>2. Place(j) <= Place(i) /\ Place(i) <= Place(j)
          BY <3>1, <3>4, <5>1 DEF StoresFollow
        <5> QED BY <1>6, <1>7, <5>1, <5>2, LsbWires
      <4>2. HandedOver'[x] = StoredByte(i, x)
        <5>1. First.store
          BY <3>4 DEF StoresFollow
        <5>2. HandedOver' = WriteBytes(HandedOver, LoadStoreBuffer!Address(First), Goal(First.op), First.Vk)
          BY <3>4, <5>1 DEF StoresFollow
        <5>3. Stores(i, x) <=> Sub(x, LoadStoreBuffer!Address(First)) < Goal(First.op)
          BY <3>4 DEF Stores, First
        <5>4. StoredByte(i, x) = ByteOf(First.Vk, Sub(x, LoadStoreBuffer!Address(First)))
          BY <3>4 DEF StoredByte, First
        <5> QED BY <3>1, <5>2, <5>3, <5>4, Zenon DEF WriteBytes
      <4> QED BY <1>8, <3>2, <4>1, <4>2, Zenon
    <3> QED BY <3>3, <3>4
  <2>2. CASE ~ \E i \in CommittedStores : Stores(i, x)
    <3>1. \A j \in CommittedStores' : ~Stores(j, x)'
      BY <2>0, <2>2
    <3>2. HandedOver'[x] = HandedOver[x]
      <4>1. CASE Running /\ First.store
        <5>1. LsbHead \in CommittedStores
          BY <4>1 DEF StoresFollow
        <5>2. ~Stores(LsbHead, x)
          BY <2>2, <5>1
        <5>3. HandedOver' = WriteBytes(HandedOver, LoadStoreBuffer!Address(First), Goal(First.op), First.Vk)
          BY <4>1 DEF StoresFollow
        <5>4. ~(Sub(x, LoadStoreBuffer!Address(First)) < Goal(First.op))
          BY <5>2 DEF Stores, First
        <5> QED BY <5>3, <5>4, Zenon DEF WriteBytes
      <4>2. CASE ~(Running /\ First.store)
        BY <4>2 DEF StoresFollow
      <4> QED BY <4>1, <4>2
    <3> QED BY <1>8, <1>9, <2>2, <3>1, <3>2, Zenon
  <2> QED BY <2>1, <2>2
<1> QED BY <1>10, <1>11

\* The memory with the store pending there.
WithTaken == IF Taken THEN WriteBytes(mem_ram, mem_lsb_request.address, mem_lsb_request.goal,
                                      mem_lsb_request.data)
             ELSE mem_ram

\* The memory finishes a load from an I/O address in this cycle.
Reading == /\ mem_lsb_request.pending /\ ~mem_lsb_request.store
           /\ IsIo(mem_lsb_request.address) /\ mem_out'.lsb_ready

\* What the memory does with the accesses it has, whichever it serves.
MemoryWords ==
  /\ WithTaken' = HandedOver
  /\ (mem_io_writes' + Flag(Taken /\ IsIo(mem_lsb_request.address))') % IO_PERIOD
       = (mem_io_writes + Flag(Taken /\ IsIo(mem_lsb_request.address))
            + Flag(Leaving /\ IsIo(lsb_out.mc_address))) % IO_PERIOD
  /\ mem_io_reads' = IF Reading THEN (mem_io_reads + 1) % IO_PERIOD ELSE mem_io_reads
  /\ mem_out'.lsb_ready => mem_lsb_request.pending /\ ~rob_out.rollback
  /\ mem_out'.lsb_ready /\ ~mem_lsb_request.store =>
       /\ mem_ram' = mem_ram
       /\ mem_out'.lsb_data = IF IsIo(mem_lsb_request.address) THEN mem_io_reads
                              ELSE ReadBytes(mem_ram, mem_lsb_request.address, mem_lsb_request.goal)
  /\ mem_lsb_request'.pending =>
       /\ lsb_out.mc_request => /\ mem_lsb_request'.address = lsb_out.mc_address
                                /\ mem_lsb_request'.goal = lsb_out.mc_goal
       /\ ~lsb_out.mc_request => /\ mem_lsb_request'.address = mem_lsb_request.address
                                 /\ mem_lsb_request'.goal = mem_lsb_request.goal

\* HandedOver, in terms of the memory with the store pending there.
LEMMA HandedOverIs ==
  HandedOver = IF Leaving THEN WriteBytes(WithTaken, lsb_out.mc_address, lsb_out.mc_goal, lsb_out.mc_data)
               ELSE WithTaken
<1> QED BY DEF HandedOver, WithTaken

\* The number of a count that is not reduced.
LEMMA Reduced == \A n \in 0 .. IO_PERIOD - 1 : n % IO_PERIOD = n
<1> QED BY InputWord

\* So it does in every cycle.
LEMMA MemoryWordsHold ==
  ASSUME CpuInv, NEW serves, Memory!Clock(FALSE, rob_out, fet_out, lsb_out, serves, program)
  PROVE  MemoryWords
<1> DEFINE P == IO_PERIOD
           q == mem_lsb_request
           a == Memory!AccessOf(lsb_out)
           writes == mem_io_writes
           taken == Taken /\ IsIo(q.address)
           leaving == Leaving /\ IsIo(lsb_out.mc_address)
<1>1. /\ MemType /\ LsbType
      /\ AccessAgreed(mem_lsb_request.pending, mem_lsb_request.store, mem_out.lsb_ready)
  BY DEF CpuInv, CoreInv, CoreType
<1>2. /\ q.pending \in BOOLEAN /\ q.store \in BOOLEAN
      /\ lsb_out.mc_request \in BOOLEAN /\ lsb_out.mc_store \in BOOLEAN
      /\ mem_io_reads \in 0 .. P - 1 /\ writes \in 0 .. P - 1
  BY <1>1, Zenon DEF MemType, LsbType, LsbOutput
<1>3. ~(lsb_out.mc_request /\ q.pending)
  BY <1>1 DEF AccessAgreed, Single, Nowhere
<1>4. a.pending /\ a.store = lsb_out.mc_store /\ a.address = lsb_out.mc_address
      /\ a.goal = lsb_out.mc_goal /\ (lsb_out.mc_store => a.data = lsb_out.mc_data)
  BY DEF Memory!AccessOf
<1>5. ~Memory!NoAccess.pending /\ ~Memory!NoAccess.store
  BY DEF Memory!NoAccess
<1>6. ~Memory!Quiet.lsb_ready
  BY DEF Memory!Quiet
<1>7. mem_io_reads % P = mem_io_reads /\ writes % P = writes
  BY <1>2, Reduced
<1> DEFINE keeps == mem_ram' = mem_ram /\ mem_io_reads' = mem_io_reads /\ mem_io_writes' = writes
                    /\ ~mem_out'.lsb_ready
<1> HIDE DEF a
\* The request stays, or one arrives.
<1>8. ASSUME keeps, mem_lsb_request' = IF lsb_out.mc_request THEN a ELSE q
      PROVE  MemoryWords
  <2>1. ~Reading
    BY <1>8 DEF Reading
  <2>2. CASE lsb_out.mc_request
    <3>1. mem_lsb_request' = a /\ ~Taken
      BY <1>3, <1>8, <2>2 DEF Taken
    <3>2. Taken' <=> Leaving
      BY <1>4, <2>2, <3>1 DEF Taken, Leaving
    <3>3. WithTaken' = HandedOver
      <4>1. CASE Leaving
        <5>1. lsb_out.mc_store
          BY <4>1 DEF Leaving
        <5>2. WithTaken' = WriteBytes(mem_ram, lsb_out.mc_address, lsb_out.mc_goal, lsb_out.mc_data)
          BY <1>4, <1>8, <3>1, <3>2, <4>1, <5>1 DEF WithTaken
        <5> QED BY <3>1, <4>1, <5>2 DEF HandedOver
      <4>2. CASE ~Leaving
        BY <1>8, <3>1, <3>2, <4>2 DEF WithTaken, HandedOver
      <4> QED BY <4>1, <4>2
    <3>4. Flag(taken)' = Flag(leaving) /\ Flag(taken) = 0
      BY <1>4, <3>1, <3>2 DEF Flag
    <3>5. Flag(leaving) \in {0, 1}
      BY DEF Flag
    <3>6. (mem_io_writes' + Flag(taken)') % P = (writes + Flag(taken) + Flag(leaving)) % P
      <4> HIDE DEF taken, leaving
      <4> QED BY <1>2, <1>8, <3>4, <3>5
    <3> QED BY <1>4, <1>8, <2>1, <2>2, <3>1, <3>3, <3>6 DEF MemoryWords
  <2>3. CASE ~lsb_out.mc_request
    <3>1. mem_lsb_request' = q /\ ~Leaving
      BY <1>8, <2>3 DEF Leaving
    <3>2. Taken' <=> Taken
      BY <3>1 DEF Taken
    <3>3. WithTaken' = HandedOver
      BY <1>8, <3>1, <3>2 DEF WithTaken, HandedOver
    <3>4. Flag(taken)' = Flag(taken) /\ Flag(leaving) = 0
      BY <3>1, <3>2 DEF Flag
    <3>5. Flag(taken) \in {0, 1}
      BY DEF Flag
    <3>6. (mem_io_writes' + Flag(taken)') % P = (writes + Flag(taken) + Flag(leaving)) % P
      <4> HIDE DEF taken, leaving
      <4> QED BY <1>2, <1>8, <3>4, <3>5
    <3> QED BY <1>8, <2>1, <2>3, <3>1, <3>3, <3>6 DEF MemoryWords
  <2> QED BY <1>2, <2>2, <2>3
<1>9. CASE Memory!Work(fet_out, lsb_out)
  <2>1. mem_lsb_request' = IF lsb_out.mc_request THEN a ELSE q
    BY <1>9 DEF Memory!Work, Memory!Accept, a
  <2>2. keeps
    BY <1>6, <1>9 DEF Memory!Work
  <2> QED BY <1>8, <2>1, <2>2
<1>10. CASE Memory!FinishFetch(fet_out, lsb_out, program)
  <2>1. mem_lsb_request' = IF lsb_out.mc_request THEN a ELSE q
    BY <1>10 DEF Memory!FinishFetch, Memory!Accept, a
  <2>2. ~mem_out'.lsb_ready
    BY <1>10 DEF Memory!FinishFetch, Memory!Quiet
  <2>3. keeps
    BY <1>10, <2>2 DEF Memory!FinishFetch
  <2> QED BY <1>8, <2>1, <2>3
\* The request is finished.
<1>11. ASSUME q.pending, mem_lsb_request' = IF lsb_out.mc_request THEN a ELSE Memory!NoAccess
       PROVE  ~Taken' /\ ~Leaving /\ ~mem_lsb_request'.pending
  <2>1. ~lsb_out.mc_request
    BY <1>3, <1>11
  <2> QED BY <1>5, <1>11, <2>1 DEF Taken, Leaving
<1>12. ASSUME q.pending, ~Taken', ~Leaving PROVE Flag(taken)' = 0 /\ Flag(leaving) = 0
  BY <1>12 DEF Flag
<1>13. CASE Memory!FinishStore(fet_out, lsb_out) /\ ~rob_out.rollback
  <2>1. q.pending /\ q.store /\ mem_lsb_request' = IF lsb_out.mc_request THEN a ELSE Memory!NoAccess
    BY <1>13 DEF Memory!FinishStore, Memory!Accept, a
  <2>2. mem_ram' = WriteBytes(mem_ram, q.address, q.goal, q.data)
    BY <1>13, MemoryNames DEF Memory!FinishStore
  <2>3. mem_io_writes' = (writes + Flag(IsIo(q.address))) % P /\ mem_io_reads' = mem_io_reads
    BY <1>13, MemoryNames DEF Memory!FinishStore, Flag, Memory!Flag
  <2>4. Taken /\ ~Reading
    BY <2>1 DEF Taken, Reading
  <2>5. ~Taken' /\ ~Leaving /\ ~mem_lsb_request'.pending
    BY <1>11, <2>1
  <2>6. WithTaken' = HandedOver
    BY <2>2, <2>4, <2>5 DEF WithTaken, HandedOver
  <2>7. Flag(taken)' = 0 /\ Flag(leaving) = 0 /\ Flag(taken) = Flag(IsIo(q.address))
    BY <1>12, <2>1, <2>4, <2>5 DEF Flag
  <2>8. Flag(taken) \in {0, 1}
    BY DEF Flag
  <2>9. (mem_io_writes' + Flag(taken)') % P = (writes + Flag(taken) + Flag(leaving)) % P
    <3>1. PICK n : n = Flag(taken) /\ n \in {0, 1}
      BY <2>8
    <3>2. (writes + n) % P \in 0 .. P - 1
      BY <1>2, <3>1, InputWord
    <3>3. ((writes + n) % P) % P = (writes + n) % P
      BY <3>2, Reduced
    <3> HIDE DEF taken, leaving
    <3>4. mem_io_writes' = (writes + n) % P
      BY <2>3, <2>7, <3>1
    <3> QED BY <1>2, <2>7, <3>1, <3>2, <3>3, <3>4
  <2> QED BY <1>13, <2>1, <2>3, <2>4, <2>5, <2>6, <2>9 DEF MemoryWords
<1>14. CASE Memory!FinishLoad(fet_out, lsb_out) /\ ~rob_out.rollback
  <2>1. q.pending /\ ~q.store /\ mem_lsb_request' = IF lsb_out.mc_request THEN a ELSE Memory!NoAccess
    BY <1>14 DEF Memory!FinishLoad, Memory!Accept, a
  <2>2. mem_ram' = mem_ram /\ mem_io_writes' = writes
    BY <1>14 DEF Memory!FinishLoad
  <2>3. mem_io_reads' = (mem_io_reads + Flag(IsIo(q.address))) % P
    BY <1>14, MemoryNames DEF Memory!FinishLoad, Flag, Memory!Flag
  <2> DEFINE d == IF IsIo(q.address) THEN mem_io_reads ELSE ReadBytes(mem_ram, q.address, q.goal)
  <2>4. mem_out' = [Memory!Quiet EXCEPT !.lsb_ready = TRUE, !.lsb_data = d]
    BY <1>14, MemoryNames DEF Memory!FinishLoad
  <2>5. mem_out'.lsb_ready /\ mem_out'.lsb_data = d
    <3> HIDE DEF d
    <3> QED BY <2>4, Zenon DEF Memory!Quiet
  <2>6. Reading <=> IsIo(q.address)
    BY <2>1, <2>5 DEF Reading
  <2>7. mem_io_reads' = IF Reading THEN (mem_io_reads + 1) % P ELSE mem_io_reads
    BY <1>2, <1>7, <2>3, <2>6 DEF Flag
  <2>8. ~Taken' /\ ~Leaving /\ ~mem_lsb_request'.pending /\ ~Taken
    BY <1>11, <2>1 DEF Taken
  <2>9. WithTaken' = HandedOver
    BY <2>2, <2>8 DEF WithTaken, HandedOver
  <2>10. Flag(taken)' = 0 /\ Flag(leaving) = 0 /\ Flag(taken) = 0
    BY <1>12, <2>1, <2>8 DEF Flag
  <2>11. (mem_io_writes' + Flag(taken)') % P = (writes + Flag(taken) + Flag(leaving)) % P
    <3> HIDE DEF taken, leaving
    <3> QED BY <1>2, <2>2, <2>10
  <2> QED BY <1>14, <2>1, <2>2, <2>5, <2>7, <2>8, <2>9, <2>11 DEF MemoryWords
\* In a rollback it keeps stores, and an input that arrives.
<1>15. CASE Memory!Rollback(lsb_out)
  <2>1. mem_lsb_request' = IF lsb_out.mc_request /\ (lsb_out.mc_store \/ IsIo(lsb_out.mc_address))
                             THEN a ELSE IF q.store THEN q ELSE Memory!NoAccess
    BY <1>15, MemoryNames DEF Memory!Rollback, a
  <2>2. keeps /\ ~Reading
    BY <1>6, <1>15 DEF Memory!Rollback, Reading
  <2>3. CASE lsb_out.mc_request /\ (lsb_out.mc_store \/ IsIo(lsb_out.mc_address))
    BY <1>8, <2>1, <2>2, <2>3
  <2>4. CASE ~(lsb_out.mc_request /\ (lsb_out.mc_store \/ IsIo(lsb_out.mc_address)))
    <3>1. ~Leaving
      BY <2>4 DEF Leaving
    <3>2. Taken' <=> Taken
      BY <1>2, <1>5, <2>1, <2>4 DEF Taken
    <3>3. Taken => mem_lsb_request' = q
      BY <2>1, <2>4 DEF Taken
    <3>4. WithTaken' = HandedOver
      BY <2>2, <3>1, <3>2, <3>3 DEF WithTaken, HandedOver
    <3>5. Flag(taken)' = Flag(taken) /\ Flag(leaving) = 0
      BY <3>1, <3>2, <3>3 DEF Flag
    <3>6. Flag(taken) \in {0, 1}
      BY DEF Flag
    <3>7. (mem_io_writes' + Flag(taken)') % P = (writes + Flag(taken) + Flag(leaving)) % P
      <4> HIDE DEF taken, leaving
      <4> QED BY <1>2, <2>2, <3>5, <3>6
    <3>8. mem_lsb_request'.pending => ~lsb_out.mc_request /\ mem_lsb_request' = q
      BY <1>2, <1>3, <1>5, <2>1, <2>4
    <3> QED BY <2>2, <3>4, <3>7, <3>8 DEF MemoryWords
  <2> QED BY <2>3, <2>4
<1> QED BY <1>9, <1>10, <1>13, <1>14, <1>15 DEF Memory!Clock

(***************************************************************************)
(* The outputs the programmer sees.                                        *)
(***************************************************************************)
\* Counts that are equal but for the period stay so when the same is added to them.
LEMMA PeriodAdds ==
  ASSUME NEW a \in Int, NEW b \in Int, NEW c \in Int, a % IO_PERIOD = b % IO_PERIOD
  PROVE  (a + c) % IO_PERIOD = (b + c) % IO_PERIOD
<1>1. ((a % IO_PERIOD) + c) % IO_PERIOD = (a + c) % IO_PERIOD
  BY InputWord, RemainderAdds
<1>2. ((b % IO_PERIOD) + c) % IO_PERIOD = (b + c) % IO_PERIOD
  BY InputWord, RemainderAdds
<1> QED BY <1>1, <1>2

\* A count may be reduced before something is added.
LEMMA PeriodTwice ==
  ASSUME NEW a \in Int, NEW c \in Int
  PROVE  ((a % IO_PERIOD) + c) % IO_PERIOD = (a + c) % IO_PERIOD
<1> QED BY InputWord, RemainderAdds

\* A store that was committed goes to the memory.
Handing == Running /\ First.store
Hands == /\ Leaving' <=> Handing
         /\ Handing => /\ lsb_out'.mc_address = LoadStoreBuffer!Address(First)
                       /\ lsb_out'.mc_goal = Goal(First.op) /\ lsb_out'.mc_data = First.Vk

\* That is what the load store buffer asks for in a cycle of work.
LEMMA HandsWork ==
  ASSUME NEW mc, LsbTells(mc), LsbSays(mc)
  PROVE  Hands
<1>1. CASE Issuing
  <2>1. Asks /\ lsb_out'.mc_data = First.Vk
    BY <1>1 DEF LsbTells, LsbSays
  <2>2. Leaving' <=> First.store
    BY <2>1 DEF Asks, Leaving
  <2>3. Handing <=> First.store
    BY <1>1 DEF Handing, Running, LoadStoreBuffer!NeedsCommit
  <2> QED BY <2>1, <2>2, <2>3 DEF Hands, Asks
<1>2. CASE ~Issuing
  <2>1. ~lsb_out'.mc_request
    BY <1>2 DEF LsbTells, Reports, Ends, Remains
  <2> QED BY <1>2, <2>1 DEF Hands, Handing, Running, Leaving
<1> QED BY <1>1, <1>2

\* And in that of a rollback.
LEMMA HandsRollback ==
  ASSUME NEW mc, LoadStoreBuffer!Rollback(Decoded, Broadcast, rob_out, mc)
  PROVE  Hands
<1>1. LsbDrops(mc)
  BY LsbRollbackOutputs
<1>2. CASE Running
  <2>1. Asks /\ ~Noticing /\ ~Abandoning
    BY <1>1, <1>2 DEF LsbDrops
  <2>2. ~Finishing(mc)
    BY <1>2 DEF Running, Issuing, Finishing, LoadStoreBuffer!CanIssue, LoadStoreBuffer!Finishes
  <2>3. ~LoadStoreBuffer!Abandons
    BY <1>2 DEF Running, Issuing, LoadStoreBuffer!CanIssue, LoadStoreBuffer!Abandons
  <2>4. LoadStoreBuffer!Issue
    BY <1>2, <2>1, <2>2, <2>3 DEF LoadStoreBuffer!Rollback, Running, Issuing, Noticing, Finishing, First, LsbHead
  <2>5. lsb_out'.mc_data = First.Vk
    BY <2>4, LsbSaid
  <2>6. Leaving' <=> First.store
    BY <2>1 DEF Asks, Leaving
  <2> QED BY <1>2, <2>1, <2>5, <2>6 DEF Hands, Asks, Handing
<1>3. CASE ~Running
  <2>1. ~lsb_out'.mc_request
    BY <1>1, <1>3 DEF LsbDrops, Reports, Ends, Remains
  <2> QED BY <1>3, <2>1 DEF Hands, Handing, Leaving
<1> QED BY <1>2, <1>3

\* The stores handed to the memory after a cycle.
LEMMA HandedAfter ==
  ASSUME MemoryWords, Hands
  PROVE  HandedOver' = IF Running /\ First.store
                         THEN WriteBytes(HandedOver, LoadStoreBuffer!Address(First), Goal(First.op), First.Vk)
                         ELSE HandedOver
<1>1. HandedOver' = IF Leaving' THEN WriteBytes(WithTaken', lsb_out'.mc_address, lsb_out'.mc_goal, lsb_out'.mc_data)
                    ELSE WithTaken'
  BY DEF HandedOver, WithTaken, Leaving
<1>2. WithTaken' = HandedOver
  BY DEF MemoryWords
<1>3. CASE Handing
  BY <1>1, <1>2, <1>3 DEF Hands, Handing
<1>4. CASE ~Handing
  BY <1>1, <1>2, <1>4 DEF Hands, Handing
<1> QED BY <1>3, <1>4

\* The stores to I/O addresses among the committed ones.
OutputStores == {i \in CommittedStores : IsIo(LoadStoreBuffer!Address(lsb_entry[i]))}

\* They are finitely many.
LEMMA OutputsFinite == IsFiniteSet(OutputStores) /\ Cardinality(OutputStores) \in Nat
<1>1. OutputStores \subseteq 0 .. LSB_CAPACITY - 1
  BY DEF OutputStores, CommittedStores, QueuedAccesses, LsbIndex
<1>2. IsFiniteSet(0 .. LSB_CAPACITY - 1)
  BY CapacityAssumption, FS_Interval
<1>3. IsFiniteSet(OutputStores)
  BY <1>1, <1>2, FS_Subset
<1> QED BY <1>3, FS_CardinalityType

\* The number of outputs of the program: what has come, and what is on its way.
OutputsOut == mem_io_writes + Flag(Taken /\ IsIo(mem_lsb_request.address))
                + Flag(Leaving /\ IsIo(lsb_out.mc_address))

\* The outputs the programmer sees change with the commits of stores only.
LEMMA WritesAfter ==
  ASSUME MemType, MemType', MemoryWords, Hands, NEW N, StoresFollow(N)
  PROVE  /\ (\A n \in N : ~IsIo(LoadStoreBuffer!Address(lsb_entry[n])')) => ArchWrites' = ArchWrites
         /\ \A n \in N : IsIo(LoadStoreBuffer!Address(lsb_entry[n])') => ArchWrites' = (ArchWrites + 1) % IO_PERIOD
<1> DEFINE P == IO_PERIOD
           address(i) == LoadStoreBuffer!Address(lsb_entry[i])
           out == Handing /\ IsIo(LoadStoreBuffer!Address(First))
           kept == {i \in OutputStores : ~(Running /\ i = LsbHead)}
           new == {n \in N : IsIo(address(n)')}
<1>1. P \in Nat /\ P >= 1
  BY InputWord
<1>2. mem_io_writes \in Nat /\ mem_io_writes' \in Nat
  BY DEF MemType
<1>3. Flag(Leaving /\ IsIo(lsb_out.mc_address))' = Flag(out)
  <2>1. (Leaving /\ IsIo(lsb_out.mc_address))' <=> out
    BY DEF Hands
  <2> QED BY <2>1 DEF Flag
<1>4. PICK o \in Nat, o1 \in Nat, f \in Nat, w \in Nat :
        /\ o = OutputsOut /\ o1 = OutputsOut' /\ f = Flag(out)
        /\ o1 = w + f /\ w % P = o % P
  <2>1. PICK f1 \in Nat, f2 \in Nat, d1 \in Nat, d2 \in Nat, f \in Nat :
          /\ f1 = Flag(Taken /\ IsIo(mem_lsb_request.address))
          /\ f2 = Flag(Leaving /\ IsIo(lsb_out.mc_address))
          /\ d1 = Flag(Taken /\ IsIo(mem_lsb_request.address))'
          /\ d2 = Flag(Leaving /\ IsIo(lsb_out.mc_address))'
          /\ f = Flag(out)
    BY SMT DEF Flag
  <2>2. OutputsOut = mem_io_writes + f1 + f2 /\ OutputsOut' = mem_io_writes' + d1 + d2
    BY <2>1 DEF OutputsOut
  <2>3. (mem_io_writes' + d1) % P = OutputsOut % P
    BY <2>1 DEF MemoryWords, OutputsOut
  <2>4. d2 = f
    BY <1>3, <2>1
  <2>5. PICK n \in Nat, n1 \in Nat : n = mem_io_writes /\ n1 = mem_io_writes'
    BY <1>2
  <2>6. n + f1 + f2 \in Nat /\ n1 + d1 + d2 \in Nat /\ n1 + d1 \in Nat
    BY <2>1, <2>5
  <2>7. /\ OutputsOut = n + f1 + f2 /\ OutputsOut' = n1 + d1 + d2
        /\ n1 + d1 + d2 = (n1 + d1) + f /\ (n1 + d1) % P = (n + f1 + f2) % P
    BY <2>1, <2>2, <2>3, <2>4, <2>5
  <2> QED BY <2>1, <2>6, <2>7
<1>5. o1 % P = (o + f) % P
  <2>1. w % IO_PERIOD = o % IO_PERIOD /\ w \in Int /\ o \in Int /\ f \in Int
    BY <1>4
  <2>2. (w + f) % IO_PERIOD = (o + f) % IO_PERIOD
    BY <2>1, PeriodAdds, Zenon
  <2> QED BY <1>4, <2>2
<1>6. OutputStores' = kept \cup new
  <2>1. ASSUME NEW i PROVE i \in OutputStores' <=> i \in kept \/ i \in new
    <3>1. i \in OutputStores' <=> i \in CommittedStores' /\ IsIo(address(i)')
      BY DEF OutputStores
    <3>2. i \in CommittedStores /\ ~(Running /\ i = LsbHead) => address(i)' = address(i)
      BY DEF StoresFollow
    <3>3. i \in CommittedStores' <=> (i \in CommittedStores /\ ~(Running /\ i = LsbHead)) \/ i \in N
      BY DEF StoresFollow
    <3>4. i \in kept <=> i \in CommittedStores /\ IsIo(address(i)) /\ ~(Running /\ i = LsbHead)
      BY DEF OutputStores
    <3> QED BY <3>1, <3>2, <3>3, <3>4
  <2> QED BY <2>1
<1>7. IsFiniteSet(kept) /\ Cardinality(kept) \in Nat
      /\ Cardinality(kept) + f = Cardinality(OutputStores)
  <2>1. CASE out
    <3>1. LsbHead \in OutputStores
      BY <2>1 DEF Handing, StoresFollow, OutputStores, First
    <3>2. kept = OutputStores \ {LsbHead}
      BY <2>1 DEF Handing
    <3>3. IsFiniteSet(kept) /\ Cardinality(kept) = Cardinality(OutputStores) - 1
      BY <3>1, <3>2, OutputsFinite, FS_RemoveElement
    <3>4. f = 1
      BY <1>4, <2>1 DEF Flag
    <3>5. Cardinality(kept) \in Nat
      BY <3>3, FS_CardinalityType
    <3> HIDE DEF kept
    <3> QED BY <3>3, <3>4, <3>5, OutputsFinite
  <2>2. CASE ~out
    <3>1. Running => LsbHead \notin OutputStores
      BY <2>2 DEF Handing, StoresFollow, OutputStores, First
    <3>2. kept = OutputStores
      BY <3>1
    <3>3. f = 0
      BY <1>4, <2>2 DEF Flag
    <3> HIDE DEF kept
    <3> QED BY <3>2, <3>3, OutputsFinite
  <2> QED BY <2>1, <2>2
<1>8. ArchWrites = (OutputsOut + Cardinality(OutputStores)) % P
  BY DEF ArchWrites, OutputsOut, QueuedOutputs, OutputStores
<1>9. ArchWrites' = (OutputsOut' + Cardinality(OutputStores)') % P
  BY DEF ArchWrites, OutputsOut, QueuedOutputs, OutputStores
<1>10. ASSUME NEW c \in Nat, NEW k \in Nat, Cardinality(OutputStores)' = k + c, k = Cardinality(kept)
       PROVE  ArchWrites' = (ArchWrites + c) % P
  <2>1. Cardinality(OutputStores) = k + f
    BY <1>4, <1>7, <1>10
  <2>2. PICK n \in Nat, x \in Nat, m \in Nat : n = k + c /\ x = o + (k + f) /\ m = o + f
    <3>1. o \in Nat /\ f \in Nat /\ k \in Nat /\ c \in Nat
      BY <1>4, <1>10
    <3>2. k + c \in Nat /\ o + (k + f) \in Nat /\ o + f \in Nat
      BY <3>1
    <3> QED BY <3>2, Zenon
  <2>3. ArchWrites' = (o1 + n) % P /\ ArchWrites = x % P
    BY <1>4, <1>8, <1>9, <1>10, <2>1, <2>2
  <2>4. (o1 + n) % IO_PERIOD = (m + n) % IO_PERIOD
    <3>1. o1 % IO_PERIOD = m % IO_PERIOD
      BY <1>5, <2>2
    <3>2. o1 \in Int /\ m \in Int /\ n \in Int
      BY <1>4, <2>2
    <3> QED BY <3>1, <3>2, PeriodAdds, Zenon
  <2>5. m + n = x + c
    BY <1>4, <1>10, <2>2
  <2>6. ((x % IO_PERIOD) + c) % IO_PERIOD = (x + c) % IO_PERIOD
    <3>1. x \in Int /\ c \in Int
      BY <1>10, <2>2
    <3> QED BY <3>1, PeriodTwice, Zenon
  <2> QED BY <2>3, <2>4, <2>5, <2>6
<1>11. ASSUME \A n \in N : ~IsIo(address(n)')
       PROVE  ArchWrites' = ArchWrites
  <2>1. new = {}
    BY <1>11
  <2>2. OutputStores' = kept
    <3> HIDE DEF kept, new
    <3> QED BY <1>6, <2>1
  <2>3. Cardinality(OutputStores)' = Cardinality(kept) + 0
    BY <1>7, <2>2
  <2>4. ArchWrites' = (ArchWrites + 0) % P
    <3> HIDE DEF kept
    <3> QED BY <1>7, <1>10, <2>3
  <2>5. ArchWrites \in 0 .. P - 1
    BY <1>4, <1>7, <1>8, InputWord, OutputsFinite
  <2>6. ArchWrites + 0 = ArchWrites
    BY <2>5
  <2> QED BY <2>4, <2>5, <2>6, Reduced
<1>12. ASSUME NEW n \in N, IsIo(address(n)')
       PROVE  ArchWrites' = (ArchWrites + 1) % P
  <2>1. new = {n} /\ n \notin kept
    BY <1>12 DEF StoresFollow, OutputStores
  <2>2. OutputStores' = kept \cup {n}
    <3> HIDE DEF kept, new
    <3> QED BY <1>6, <2>1
  <2>3. Cardinality(OutputStores)' = Cardinality(kept) + 1
    <3>1. Cardinality(kept \cup {n}) = Cardinality(kept) + 1
      BY <1>7, <2>1, FS_AddElement
    <3> QED BY <2>2, <3>1
  <2> HIDE DEF kept
  <2> QED BY <1>7, <1>10, <2>3
<1> QED BY <1>11, <1>12

\* The committed stores are the oldest in the queue, at all times.
StoresFirst ==
  \A i : i \in CommittedStores <=> Queued(i) /\ lsb_entry[i].store /\ Place(i) <= Due
\* So their positions say.
LEMMA StoresFirstHolds ==
  LsbType /\ CommittedFirst /\ rob_out.commit_lsb \in BOOLEAN => StoresFirst
BY CommittedSlots DEF StoresFirst

\* The store whose commit the reorder buffer announces in this cycle.
NewStores == {i \in LsbIndex : rob_out'.commit_lsb /\ Committing /\ QueueStays(i) /\ Place(i) = Due + 1}

\* The committed stores in a cycle without a rollback.
LEMMA StoresFollowWork ==
  ASSUME NEW mc, LsbType, LsbType', CommittedFirst, CommittedFirst',
         rob_out.commit_lsb \in BOOLEAN, rob_out'.commit_lsb \in BOOLEAN,
         QueueWorks(mc), \A i \in LsbIndex : LsbHolds(i, mc), LsbSays(mc), MemoryWords,
         rob_out'.commit_lsb => \E i \in LsbIndex : PulseFor(i)
  PROVE  StoresFollow(NewStores)
<1>1. QueueMoves /\ LsbTells(mc) /\ \A i \in LsbIndex : QueueSlotAfter(i, Finishing(mc) /\ lsb_status = "LOAD")
  BY DEF QueueWorks
<1>2. \A i : i \in CommittedStores <=> Queued(i) /\ lsb_entry[i].store /\ Place(i) <= Due
  BY CommittedSlots
<1>3. \A i : i \in CommittedStores' <=> Queued(i)' /\ lsb_entry'[i].store /\ Place(i)' <= Due'
  <2>1. (rob_out.commit_lsb \in BOOLEAN)'
    OBVIOUS
  <2>2. StoresFirst'
    BY <2>1, StoresFirstHolds, PTL
  <2> QED BY <2>2 DEF StoresFirst
<1>4. /\ Due \in Nat /\ Due <= Length /\ Length \in Nat
      /\ Due' = lsb_cnt' + (IF rob_out'.commit_lsb THEN 1 ELSE 0)
      /\ lsb_cnt' = IF Running THEN Due - 1 ELSE Due
      /\ Running => Issuing /\ Due >= 1
      /\ Issuing /\ ~Running => Due = 0
      /\ Length' = Length + (IF Decoded.to_lsb THEN 1 ELSE 0) - (IF Issuing THEN 1 ELSE 0)
  BY <1>1 DEF QueueMoves, Due, Flag
<1>5. \A i \in LsbIndex :
       /\ Place(i) \in Nat /\ Place(i)' \in Nat
       /\ Queued(i) => Place(i) >= 1 /\ Place(i) <= Length
       /\ Queued(i)' <=> QueueStays(i) \/ QueueEnters(i)
       /\ QueueStays(i) => Place(i)' = (IF Issuing THEN Place(i) - 1 ELSE Place(i)) /\ ~QueueEnters(i) /\ Queued(i)
       /\ QueueEnters(i) => Place(i)' = Length' /\ Decoded.to_lsb
       /\ Queued(i)' => Place(i)' >= 1 /\ Place(i)' <= Length'
       /\ QueueStays(i) => lsb_entry'[i].store = lsb_entry[i].store
  BY <1>1 DEF QueueMoves, QueueSlotAfter, QueueEnters
<1>6. /\ \A i, j \in LsbIndex : Place(i) = Place(j) => i = j
      /\ \A i, j \in LsbIndex : Place(i)' = Place(j)' => i = j
      /\ LsbHead \in LsbIndex /\ Place(LsbHead) = 1 /\ (Issuing => Queued(LsbHead))
  BY <1>1 DEF QueueMoves
<1>7. ASSUME rob_out'.commit_lsb
      PROVE  \E j \in LsbIndex : /\ QueueStays(j) /\ Place(j) = Due + 1 /\ (Issuing => Running)
                                 /\ lsb_entry'[j].store <=> Committing
  BY <1>7 DEF PulseFor, PendingStore
<1>8. \A i : Queued(i) => i \in LsbIndex
  BY DEF Queued
<1>9. \A i : Queued(i)' => i \in LsbIndex
  BY DEF Queued
<1>10. ASSUME NEW i \in LsbIndex
       PROVE  i \in CommittedStores' <=> (i \in CommittedStores /\ ~(Running /\ i = LsbHead)) \/ i \in NewStores
  <2>1. ASSUME i \in CommittedStores'
        PROVE  (i \in CommittedStores /\ ~(Running /\ i = LsbHead)) \/ i \in NewStores
    <3>1. Queued(i)' /\ lsb_entry'[i].store /\ Place(i)' <= Due'
      BY <1>3, <2>1
    <3>2. CASE rob_out'.commit_lsb
      <4>1. PICK j \in LsbIndex : /\ QueueStays(j) /\ Place(j) = Due + 1 /\ (Issuing => Running)
                                  /\ lsb_entry'[j].store <=> Committing
        BY <1>7, <3>2
      <4>2. Place(j)' = Due' /\ Queued(j)'
        BY <1>4, <1>5, <3>2, <4>1
      <4>3. CASE QueueEnters(i)
        <5>1. Place(j)' <= Place(i)' /\ Place(i)' <= Place(j)'
          BY <1>5, <3>1, <4>2, <4>3
        <5>2. i = j
          BY <1>5, <1>6, <5>1
        <5> QED BY <1>5, <4>1, <4>3, <5>2
      <4>4. CASE QueueStays(i)
        <5>1. Place(i) <= Due + 1
          BY <1>4, <1>5, <3>1, <3>2, <4>1, <4>4
        <5>2. CASE Place(i) = Due + 1
          <6>1. i = j
            BY <1>6, <4>1, <5>2
          <6> QED BY <3>1, <3>2, <4>1, <5>2, <6>1 DEF NewStores
        <5>3. CASE Place(i) <= Due
          BY <1>2, <1>5, <3>1, <4>4, <5>3 DEF QueueStays, Running
        <5> QED BY <1>4, <1>5, <5>1, <5>2, <5>3
      <4> QED BY <1>5, <3>1, <4>3, <4>4
    <3>3. CASE ~rob_out'.commit_lsb
      <4>1. Due' = IF Running THEN Due - 1 ELSE Due
        BY <1>4, <3>3
      <4>2. ~QueueEnters(i)
        BY <1>4, <1>5, <3>1, <4>1
      <4>3. QueueStays(i)
        BY <1>5, <3>1, <4>2
      <4>4. Place(i) <= Due
        BY <1>4, <1>5, <3>1, <4>1, <4>3
      <4> QED BY <1>2, <1>5, <3>1, <4>3, <4>4 DEF QueueStays, Running
    <3> QED BY <3>2, <3>3
  <2>2. ASSUME i \in CommittedStores, ~(Running /\ i = LsbHead)
        PROVE  i \in CommittedStores'
    <3>1. Queued(i) /\ lsb_entry[i].store /\ Place(i) <= Due
      BY <1>2, <2>2
    <3>2. QueueStays(i)
      BY <1>4, <1>5, <2>2, <3>1 DEF QueueStays
    <3>3. Place(i)' <= Due'
      BY <1>4, <1>5, <3>1, <3>2
    <3> QED BY <1>3, <1>5, <3>1, <3>2, <3>3
  <2>3. ASSUME i \in NewStores
        PROVE  i \in CommittedStores'
    <3>1. rob_out'.commit_lsb /\ Committing /\ QueueStays(i) /\ Place(i) = Due + 1
      BY <2>3 DEF NewStores
    <3>2. PICK j \in LsbIndex : /\ QueueStays(j) /\ Place(j) = Due + 1 /\ (Issuing => Running)
                                /\ lsb_entry'[j].store <=> Committing
      BY <1>7, <3>1
    <3>3. i = j
      BY <1>6, <3>1, <3>2
    <3>4. Place(i)' <= Due'
      BY <1>4, <1>5, <3>1, <3>2
    <3> QED BY <1>3, <1>5, <3>1, <3>2, <3>3, <3>4
  <2> QED BY <2>1, <2>2, <2>3
<1>11. \A i : i \in CommittedStores' <=> (i \in CommittedStores /\ ~(Running /\ i = LsbHead)) \/ i \in NewStores
  BY <1>2, <1>3, <1>8, <1>9, <1>10 DEF NewStores
<1>12. \A i \in NewStores : i \in LsbIndex /\ QueueStays(i) /\ Place(i) = Due + 1
  BY DEF NewStores
<1>13. \A i \in NewStores : i \notin CommittedStores
  BY <1>2, <1>4, <1>12
<1>14. NewStores \subseteq LsbIndex /\ \A i, j \in NewStores : i = j
  BY <1>6, <1>12
<1>15. ASSUME NEW i \in CommittedStores, ~(Running /\ i = LsbHead)
       PROVE  /\ QueueStays(i)
              /\ LoadStoreBuffer!Address(lsb_entry[i])' = LoadStoreBuffer!Address(lsb_entry[i])
              /\ lsb_entry'[i].op = lsb_entry[i].op /\ lsb_entry'[i].Vk = lsb_entry[i].Vk
  <2>1. i \in LsbIndex /\ Queued(i) /\ lsb_entry[i].store /\ Place(i) <= Due
    BY <1>2, <1>8, <1>15
  <2>2. QueueStays(i)
    BY <1>4, <1>5, <1>15, <2>1 DEF QueueStays
  <2>3. CanRun(lsb_entry[i])
    <3>1. lsb_cnt \in Nat /\ Place(i) \in Nat
      BY <1>5, <2>1 DEF LsbType, LsbIndex
    <3>2. Place(i) <= lsb_cnt \/ (rob_out.commit_lsb /\ Place(i) = lsb_cnt + 1)
      BY <2>1, <3>1 DEF Due, Flag
    <3> QED BY <2>1, <3>2 DEF CommittedFirst
  <2>4. lsb_entry[i].Qj = NULL_TAG /\ lsb_entry[i].Qk = NULL_TAG
    BY <2>1, <2>3 DEF CanRun
  <2>5. lsb_entry'[i].op = lsb_entry[i].op /\ lsb_entry'[i].imm = lsb_entry[i].imm
    BY <1>1, <2>1, <2>2 DEF QueueSlotAfter
  <2>6. lsb_entry'[i].Vj = lsb_entry[i].Vj /\ lsb_entry'[i].Vk = lsb_entry[i].Vk
    BY <2>1, <2>2, <2>4 DEF LsbHolds, Moves
  <2> QED BY <2>2, <2>5, <2>6 DEF LoadStoreBuffer!Address
<1>16. \A i \in CommittedStores' : i \in LsbIndex /\ QueueStays(i)
  BY <1>11, <1>12, <1>15, <1>2, <1>8
<1>17. \A i, j \in CommittedStores' : Place(i)' <= Place(j)' <=> Place(i) <= Place(j)
  BY <1>5, <1>16
<1>18. \A i \in NewStores, j \in CommittedStores' : Place(j) <= Place(i)
  <2> SUFFICES ASSUME NEW i \in NewStores, NEW j \in CommittedStores' PROVE Place(j) <= Place(i)
    OBVIOUS
  <2>1. j \in CommittedStores \/ j \in NewStores
    BY <1>11
  <2>2. Place(j) <= Due \/ Place(j) = Due + 1
    BY <1>2, <1>12, <2>1
  <2>3. Place(i) = Due + 1 /\ Due \in Nat
    BY <1>4, <1>12
  <2>4. Place(j) \in Nat
    BY <1>5, <1>16
  <2> QED BY <2>2, <2>3, <2>4
<1>19. Running => /\ \A j \in CommittedStores : Place(LsbHead) <= Place(j)
                  /\ First.store => LsbHead \in CommittedStores
                  /\ LsbHead \in CommittedStores => First.store
  <2>1. \A j \in CommittedStores : Place(LsbHead) <= Place(j)
    BY <1>2, <1>5, <1>6, <1>8
  <2>2. Running /\ First.store => LsbHead \in CommittedStores
    BY <1>2, <1>4, <1>6 DEF First
  <2>3. LsbHead \in CommittedStores => First.store
    BY <1>2 DEF First
  <2> QED BY <2>1, <2>2, <2>3
<1>20. HandedOver' = IF Running /\ First.store
                       THEN WriteBytes(HandedOver, LoadStoreBuffer!Address(First), Goal(First.op), First.Vk)
                       ELSE HandedOver
  BY <1>1, HandsWork, HandedAfter
<1> QED BY <1>11, <1>13, <1>14, <1>15, <1>17, <1>18, <1>19, <1>20 DEF StoresFollow

\* A rollback keeps the data of the accesses that it keeps.
LEMMA KeptData ==
  ASSUME LsbType, RobType, RsType, Silent, Tags, NEW mc \in MemoryOutput,
         LoadStoreBuffer!Rollback(Decoded, Broadcast, rob_out, mc),
         NEW i \in LsbIndex, lsb_head' \in LsbIndex, lsb_tail' \in LsbIndex, Queued(i)',
         lsb_entry[i].Qj = NULL_TAG, lsb_entry[i].Qk = NULL_TAG
  PROVE  lsb_entry'[i].Vj = lsb_entry[i].Vj /\ lsb_entry'[i].Vk = lsb_entry[i].Vk
<1> DEFINE fin == Finishing(mc) /\ lsb_status = "LOAD" /\ ~LoadStoreBuffer!Abandons
           data == LoadStoreBuffer!LoadResult(lsb_current_op, mc.lsb_data)
           c == rob_out.commit_lsb /\ i = LoadStoreBuffer!CommitSlot
           e == lsb_entry[i]
           f == LoadStoreBuffer!Hear(e, Broadcast.signal, Broadcast.dest_tag, Broadcast.result)
           g == LoadStoreBuffer!Hear(f, rob_out.commit, rob_out.tag, rob_out.data)
           h == LoadStoreBuffer!Hear(g, fin, lsb_current_tag, data)
           b == h.commit_flag \/ c
<1>1. data \in Word
  BY LoadResultWord, LsbNames DEF MemoryOutput, LsbType
<1>2. lsb_entry' = LoadStoreBuffer!Contents(lsb_head', lsb_tail', FALSE, Decoded, Broadcast, rob_out, fin, data)
  BY DEF LoadStoreBuffer!Rollback, Finishing
<1>3. LoadStoreBuffer!LsbIndex = LsbIndex
  BY LsbNames
<1>4. /\ Broadcast.signal = rs_calc.calculate /\ Broadcast.dest_tag = rs_calc.dest
      /\ Broadcast.result \in Word /\ rob_out.data \in Word
  BY BroadcastFields DEF RobType, RobOutput
<1>5. fin => lsb_current_tag # NULL_TAG
  BY DEF Tags, Silent
<1> HIDE DEF fin, data, c
<1>6. LoadStoreBuffer!Within(i, lsb_head', lsb_tail')
  <2>1. /\ LoadStoreBuffer!Slot(i - lsb_head') = Dist(lsb_head', i, LSB_CAPACITY)
        /\ LoadStoreBuffer!Slot(lsb_tail' - lsb_head') = Dist(lsb_head', lsb_tail', LSB_CAPACITY)
    BY LsbCircle
  <2>2. 1 <= Dist(lsb_head', i, LSB_CAPACITY) /\ Dist(lsb_head', i, LSB_CAPACITY) <= Dist(lsb_head', lsb_tail', LSB_CAPACITY)
    BY DEF Queued, Place, Length
  <2> HIDE DEF Dist
  <2> QED BY <2>1, <2>2 DEF LoadStoreBuffer!Within
<1>7. lsb_entry'[i] = [h EXCEPT !.commit_flag = @ \/ c]
  BY <1>2, <1>3, <1>6, Zenon DEF LoadStoreBuffer!Contents, LoadStoreBuffer!Snooping, c
<1>8. lsb_entry'[i] = [h EXCEPT !.commit_flag = b]
  BY <1>7
<1>9. e \in LsbEntry
  BY DEF LsbType
<1> HIDE DEF b, e
<1>10. f \in LsbEntry
  BY <1>4, <1>9, LsbHearType
<1>11. /\ Hearing(rs_calc.calculate, rs_calc.dest, Broadcast.result, e.Qj, e.Vj, f.Qj, f.Vj)
       /\ Hearing(rs_calc.calculate, rs_calc.dest, Broadcast.result, e.Qk, e.Vk, f.Qk, f.Vk)
  BY <1>4, <1>9, LsbHearsValues
<1> HIDE DEF f
<1>12. g \in LsbEntry
  BY <1>4, <1>10, LsbHearType
<1>13. /\ Hearing(rob_out.commit, rob_out.tag, rob_out.data, f.Qj, f.Vj, g.Qj, g.Vj)
       /\ Hearing(rob_out.commit, rob_out.tag, rob_out.data, f.Qk, f.Vk, g.Qk, g.Vk)
  BY <1>10, LsbHearsValues
<1> HIDE DEF g
<1>14. h \in LsbEntry
  BY <1>1, <1>12, LsbHearType
<1>15. /\ Hearing(fin, lsb_current_tag, data, g.Qj, g.Vj, h.Qj, h.Vj)
       /\ Hearing(fin, lsb_current_tag, data, g.Qk, g.Vk, h.Qk, h.Vk)
  BY <1>12, LsbHearsValues
<1> HIDE DEF h
<1>16. e.Qj = NULL_TAG /\ e.Qk = NULL_TAG
  BY DEF e
<1>17. h.Vj = e.Vj /\ h.Vk = e.Vk
  BY <1>5, <1>11, <1>13, <1>15, <1>16 DEF Hearing, Silent, InAlu, Committed
<1>18. lsb_entry'[i].Vj = h.Vj /\ lsb_entry'[i].Vk = h.Vk
  BY <1>8, <1>14, Zenon DEF LsbEntry
<1> QED BY <1>17, <1>18 DEF e

\* The committed stores in the cycle of a rollback.
LEMMA StoresFollowRollback ==
  ASSUME LsbType, LsbType', RobType, RsType, DecodedType, Silent, Tags, Signals, CommittedFirst, CommittedFirst', Inputs,
         rob_inner_rollback, rob_out'.commit_lsb = FALSE, NEW mc \in MemoryOutput, AtRest',
         LoadStoreBuffer!Rollback(Decoded, Broadcast, rob_out, mc), MemoryWords
  PROVE  StoresFollow({})
<1>0. rob_out.commit_lsb = FALSE
  BY Zenon DEF Signals, RobType, RobOutput
<1>1. QueueShrinks
  BY <1>0, QueueShrinksHolds
<1>2. \A i : i \in CommittedStores <=> Queued(i) /\ lsb_entry[i].store /\ Place(i) <= Due
  BY <1>0, CommittedSlots
<1>3. \A i : i \in CommittedStores' <=> Queued(i)' /\ lsb_entry'[i].store /\ Place(i)' <= Due'
  <2>1. (rob_out.commit_lsb \in BOOLEAN)'
    OBVIOUS
  <2>2. StoresFirst'
    BY <2>1, StoresFirstHolds, PTL
  <2> QED BY <2>2 DEF StoresFirst
<1>4. Due = lsb_cnt /\ Due' = lsb_cnt' /\ lsb_cnt \in Nat /\ lsb_cnt' \in Nat
  <2>1. Flag(rob_out.commit_lsb) = 0 /\ Flag(rob_out'.commit_lsb) = 0
    BY <1>0 DEF Flag
  <2>2. Due = lsb_cnt + 0 /\ Due' = lsb_cnt' + 0
    BY <2>1, Zenon DEF Due
  <2>3. lsb_cnt \in Nat /\ lsb_cnt' \in Nat
    BY <1>1 DEF QueueShrinks
  <2>4. \A n \in Nat : n + 0 = n
    OBVIOUS
  <2> QED BY <2>2, <2>3, <2>4, Zenon
<1>5. lsb_head' = IF Running THEN LsbHead ELSE lsb_head
  BY LsbRollbackOutputs
<1>6. lsb_cnt' = IF Running THEN lsb_cnt - 1 ELSE lsb_cnt
  <2>1. LoadStoreBuffer!Count(rob_out)
    BY DEF LoadStoreBuffer!Rollback
  <2> QED BY <1>0, <1>4, <2>1, LsbCounts
<1>7. /\ LSB_CAPACITY \in Nat /\ LSB_CAPACITY >= 2
      /\ LsbHead \in LsbIndex /\ Place(LsbHead) = 1 /\ lsb_head \in LsbIndex
      /\ \A i \in LsbIndex : Place(i) \in Nat /\ (Queued(i) => Place(i) >= 1) /\ (Place(i) = 1 => i = LsbHead)
  BY LsbWires DEF LsbType
<1>8. \A i \in LsbIndex :
        Place(i)' = IF ~Running THEN Place(i)
                    ELSE IF i = lsb_head THEN LSB_CAPACITY - 1 ELSE Place(i) - 1
  <2>1. /\ LsbHead = LoadStoreBuffer!Slot(lsb_head + 1)
        /\ \A i \in LsbIndex : Dist(LoadStoreBuffer!Slot(lsb_head + 1), i, LSB_CAPACITY) =
                                  IF i = lsb_head THEN LSB_CAPACITY - 1 ELSE Dist(lsb_head, i, LSB_CAPACITY) - 1
    BY <1>7, LsbCircle DEF LsbHead, LoadStoreBuffer!head_next
  <2>2. \A i \in LsbIndex : Place(i) = Dist(lsb_head, i, LSB_CAPACITY) /\ Place(i)' = Dist(lsb_head', i, LSB_CAPACITY)
    BY DEF Place
  <2> HIDE DEF Dist
  <2> QED BY <1>5, <2>1, <2>2
<1>9. Place(lsb_head) = 0
  BY <1>7, LsbCircle DEF Place
<1>10. \A i : Queued(i) => i \in LsbIndex
  BY DEF Queued
<1>11. \A i : Queued(i)' => i \in LsbIndex /\ Queued(i) /\ Place(i) <= lsb_cnt /\ Place(i)' \in Nat /\ 1 <= Place(i)' /\ Place(i)' <= lsb_cnt'
  BY <1>1 DEF QueueShrinks, Queued
<1>12. ASSUME NEW i \in LsbIndex, Queued(i), Place(i) <= lsb_cnt, ~(Running /\ i = LsbHead)
       PROVE  Queued(i)' /\ Place(i)' <= lsb_cnt'
  <2>1. Place(i) >= 1 /\ i # lsb_head /\ Place(i) \in Nat
    BY <1>7, <1>9, <1>12
  <2>2. Place(i)' = IF Running THEN Place(i) - 1 ELSE Place(i)
    BY <1>8, <2>1
  <2>3. Running => Place(i) # 1
    BY <1>7, <1>12
  <2>4. 1 <= Place(i)' /\ Place(i)' <= lsb_cnt'
    BY <1>4, <1>6, <1>12, <2>1, <2>2, <2>3
  <2>5. Length' = lsb_cnt'
    BY <1>1 DEF QueueShrinks
  <2> QED BY <2>4, <2>5 DEF Queued
<1>13. ASSUME NEW i \in LsbIndex, Queued(i)'
       PROVE  /\ lsb_entry[i].store /\ lsb_entry'[i].store
              /\ LoadStoreBuffer!Address(lsb_entry[i])' = LoadStoreBuffer!Address(lsb_entry[i])
              /\ lsb_entry'[i].op = lsb_entry[i].op /\ lsb_entry'[i].Vk = lsb_entry[i].Vk
  <2>1. Queued(i) /\ Place(i) <= lsb_cnt
    BY <1>11, <1>13
  <2>2. lsb_entry[i].commit_flag /\ CanRun(lsb_entry[i])
    BY <2>1 DEF CommittedFirst
  <2>3. lsb_entry[i].store
    BY <2>1, <2>2 DEF Inputs
  <2>4. lsb_entry[i].Qj = NULL_TAG /\ lsb_entry[i].Qk = NULL_TAG
    BY <2>2, <2>3 DEF CanRun
  <2>5. PICK finished : LsbEntryKept(i, finished)
    BY <1>0, <1>1, <1>13, KeptAccesses
  <2>6. /\ lsb_entry'[i].store = lsb_entry[i].store /\ lsb_entry'[i].op = lsb_entry[i].op
        /\ lsb_entry'[i].imm = lsb_entry[i].imm
    BY <2>5 DEF LsbEntryKept
  <2>7. lsb_head' \in LsbIndex /\ lsb_tail' \in LsbIndex
    BY <1>1 DEF QueueShrinks
  <2>8. lsb_entry'[i].Vj = lsb_entry[i].Vj /\ lsb_entry'[i].Vk = lsb_entry[i].Vk
    BY <1>13, <2>4, <2>7, KeptData
  <2> QED BY <2>3, <2>6, <2>8 DEF LoadStoreBuffer!Address
<1>14. \A i : i \in CommittedStores' <=> (i \in CommittedStores /\ ~(Running /\ i = LsbHead))
  <2> SUFFICES ASSUME NEW i
               PROVE  i \in CommittedStores' <=> (i \in CommittedStores /\ ~(Running /\ i = LsbHead))
    OBVIOUS
  <2>1. ASSUME i \in CommittedStores' PROVE i \in CommittedStores /\ ~(Running /\ i = LsbHead)
    <3>1. Queued(i)' /\ i \in LsbIndex
      BY <1>3, <1>11, <2>1
    <3>2. i \in CommittedStores
      BY <1>2, <1>4, <1>11, <1>13, <3>1
    <3>3. Running => i # LsbHead
      <4>1. SUFFICES ASSUME Running, i = LsbHead PROVE FALSE
        OBVIOUS
      <4>2. Place(i)' = 0
        BY <1>7, <1>8, <1>9, <4>1
      <4> QED BY <1>11, <3>1, <4>1, <4>2
    <3> QED BY <3>2, <3>3
  <2>2. ASSUME i \in CommittedStores, ~(Running /\ i = LsbHead) PROVE i \in CommittedStores'
    <3>1. Queued(i) /\ i \in LsbIndex /\ Place(i) <= lsb_cnt
      BY <1>2, <1>4, <1>10, <2>2
    <3>2. Queued(i)' /\ Place(i)' <= lsb_cnt'
      BY <1>12, <2>2, <3>1
    <3> QED BY <1>3, <1>4, <1>13, <3>1, <3>2
  <2> QED BY <2>1, <2>2
<1>15. \A i \in CommittedStores' : i \in LsbIndex /\ Queued(i)' /\ Queued(i) /\ Place(i) >= 1
  BY <1>3, <1>7, <1>11
<1>16. \A i, j \in CommittedStores' : Place(i)' <= Place(j)' <=> Place(i) <= Place(j)
  <2>1. \A i \in CommittedStores' : Place(i) \in Nat /\ i \in LsbIndex /\ i # lsb_head
    BY <1>7, <1>9, <1>15
  <2> QED BY <1>8, <2>1
<1>17. Running => /\ \A j \in CommittedStores : Place(LsbHead) <= Place(j)
                  /\ First.store => LsbHead \in CommittedStores
                  /\ LsbHead \in CommittedStores => First.store
  <2>1. \A j \in CommittedStores : Place(LsbHead) <= Place(j)
    BY <1>2, <1>7, <1>10
  <2>2. Running /\ First.store => LsbHead \in CommittedStores
    BY <1>1, <1>2, <1>4 DEF First, QueueShrinks
  <2>3. LsbHead \in CommittedStores => First.store
    BY <1>2 DEF First
  <2> QED BY <2>1, <2>2, <2>3
<1>18. HandedOver' = IF Running /\ First.store
                       THEN WriteBytes(HandedOver, LoadStoreBuffer!Address(First), Goal(First.op), First.Vk)
                       ELSE HandedOver
  BY HandsRollback, HandedAfter
<1>19. \A i \in CommittedStores : ~(Running /\ i = LsbHead) =>
         LoadStoreBuffer!Address(lsb_entry[i])' = LoadStoreBuffer!Address(lsb_entry[i])
         /\ lsb_entry'[i].op = lsb_entry[i].op /\ lsb_entry'[i].Vk = lsb_entry[i].Vk
  BY <1>13, <1>14, <1>15
<1> QED BY <1>14, <1>16, <1>17, <1>18, <1>19 DEF StoresFollow

(***************************************************************************)
(* What a commit finds, and what it adds to the committed stores.          *)
(***************************************************************************)
\* The operands of the oldest instruction are what the programmer sees.
LEMMA HeadHas ==
  ASSUME NEW mc, ValueWorks(mc), NEW t \in RobTag, RobAge(t) = 1, NEW r
  PROVE  /\ \A q : ~LastWriter(q, t, r)
         /\ \A v : Has(t, r, v) => v = ArchReg[r]
<1>1. RobMoves
  BY WorksParts
<1>2. ASSUME NEW q, LastWriter(q, t, r) PROVE FALSE
  <2>1. q \in RobTag /\ Flying(q) /\ RobAge(q) < RobAge(t)
    BY <1>2 DEF LastWriter, Writes, Flying
  <2>2. RobAge(q) \in Nat /\ RobAge(q) >= 1
    BY <1>1, <2>1 DEF RobMoves
  <2> QED BY <2>1, <2>2
<1> QED BY <1>2 DEF Has

\* So is the operand of a store when it can run.
LEMMA HeadMoves ==
  ASSUME NEW mc, ValueWorks(mc), NEW t \in RobTag, RobAge(t) = 1, NEW r \in RegIndex,
         NEW q, NEW v, NEW v1, OperandOk(t, r, q, v), Moves(q, v, NULL_TAG, v1, mc)
  PROVE  v1 = ArchReg[r]
<1>1. /\ RobTells /\ RobMoves /\ Signals /\ Silent /\ RobPulses
      /\ \A s \in RobTag : /\ Loaded(s) => Flying(s)
                           /\ Loading(s) => Flying(s)
                           /\ InAlu(s) => Flying(s)
  BY WorksParts DEF Owned, OwnedByResult, OwnedInAlu, OwnedByLoad, OfRs, OfLoad, Unfinished, ValueWorks
<1>2. CASE q = NULL_TAG
  BY <1>2, HeadHas DEF OperandOk, Moves
<1>3. CASE q # NULL_TAG
  <2>1. Committed(q) /\ ArchReg[r] = rob_out.data
    BY <1>3, HeadHas DEF OperandOk
  <2>2. Tells(q, v1, mc)
    BY <1>3 DEF Moves
  <2>3. q = rob_head /\ q \in RobTag /\ ~Flying(q)
    BY <1>1, <2>1 DEF Committed, Signals, RobMoves
  <2> QED BY <1>1, <2>1, <2>2, <2>3 DEF Tells
<1> QED BY <1>2, <1>3

\* The commit of a store adds that store.
LEMMA CommitStores ==
  ASSUME NEW mc, ValueWorks(mc), LsbType, LsbRight, RobType, program \in [Word -> Instruction],
         Committing, Op(HeadNext) = "STORE", NEW inst, inst = InstOf(HeadNext)
  PROVE  \E n \in LsbIndex : /\ NewStores = {n}
                             /\ lsb_entry'[n].op = inst.op
                             /\ LoadStoreBuffer!Address(lsb_entry[n])' = Add(ArchReg[inst.rs1], inst.imm)
                             /\ lsb_entry'[n].Vk = ArchReg[inst.rs2]
<1>1. /\ Works(mc) /\ RobMoves /\ RobTells /\ QueueWorks(mc) /\ QueueMoves
      /\ \A i \in LsbIndex : LsbHolds(i, mc) /\ QueueSlotAfter(i, Finishing(mc) /\ lsb_status = "LOAD")
  BY WorksParts DEF ValueWorks, QueueWorks
<1>2. HeadNext \in RobTag /\ RobAge(HeadNext) = 1 /\ Flying(HeadNext) /\ rob_out'.commit_lsb
  BY <1>1 DEF RobMoves, RobTells
<1>3. PICK n \in LsbIndex : /\ InLsb(HeadNext, n) /\ lsb_entry[n].store /\ ~Hit(n)
                            /\ Place(n) = Due + 1 /\ QueueStays(n)
  BY <1>1, StoreFound
<1>4. PICK j \in LsbIndex : PulseFor(j)
  BY <1>1, <1>2, NextPulse
<1>5. j = n
  BY <1>1, <1>3, <1>4 DEF PulseFor, QueueMoves
<1>6. NewStores = {n}
  BY <1>1, <1>2, <1>3 DEF NewStores, QueueMoves
<1>7. lsb_entry'[n].Qj = NULL_TAG /\ lsb_entry'[n].store /\ lsb_entry'[n].Qk = NULL_TAG
  BY <1>1, <1>3, <1>4, <1>5 DEF PulseFor, CanRun, QueueSlotAfter
<1>8. /\ lsb_entry[n].op = inst.op /\ lsb_entry[n].imm = inst.imm
      /\ OperandOk(HeadNext, inst.rs1, lsb_entry[n].Qj, lsb_entry[n].Vj)
      /\ OperandOk(HeadNext, inst.rs2, lsb_entry[n].Qk, lsb_entry[n].Vk)
  BY <1>2, <1>3 DEF LsbRight
<1>9. /\ Moves(lsb_entry[n].Qj, lsb_entry[n].Vj, lsb_entry'[n].Qj, lsb_entry'[n].Vj, mc)
      /\ Moves(lsb_entry[n].Qk, lsb_entry[n].Vk, lsb_entry'[n].Qk, lsb_entry'[n].Vk, mc)
      /\ lsb_entry'[n].op = lsb_entry[n].op /\ lsb_entry'[n].imm = lsb_entry[n].imm
  BY <1>1, <1>3 DEF LsbHolds, QueueSlotAfter
<1>10. inst.rs1 \in RegIndex /\ inst.rs2 \in RegIndex
  BY <1>2, InstTypes
<1>11. lsb_entry'[n].Vj = ArchReg[inst.rs1]
  BY <1>2, <1>7, <1>8, <1>9, <1>10, HeadMoves
<1>12. lsb_entry'[n].Vk = ArchReg[inst.rs2]
  BY <1>2, <1>7, <1>8, <1>9, <1>10, HeadMoves
<1>13. LoadStoreBuffer!Address(lsb_entry[n])' = Add(lsb_entry'[n].Vj, lsb_entry'[n].imm)
  BY LsbNames DEF LoadStoreBuffer!Address
<1> QED BY <1>6, <1>8, <1>9, <1>11, <1>12, <1>13

\* No other commit adds one.
LEMMA NoNewStore ==
  ASSUME NEW mc, ValueWorks(mc), ~(Committing /\ Op(HeadNext) = "STORE")
  PROVE  NewStores = {}
<1>1. RobTells /\ RobMoves
  BY WorksParts
<1> QED BY <1>1 DEF NewStores, RobTells, RobMoves

\* The committed stores after a cycle of work.
LEMMA WorkFollows ==
  ASSUME CoreInv, CoreInv', Calm, NEW mc \in MemoryOutput, CoreCycle(FALSE, mc), MemoryWords
  PROVE  StoresFollow(NewStores)
<1>1. ValueWorks(mc)
  BY ValueWorksHolds
<1>2. Works(mc) /\ QueueWorks(mc) /\ LsbSays(mc) /\ \A i \in LsbIndex : LsbHolds(i, mc)
  BY <1>1, WorksParts DEF ValueWorks
<1>3. LsbType /\ CommittedFirst /\ rob_out.commit_lsb \in BOOLEAN
  BY Zenon DEF CoreInv, CoreType, SchedInv, RobType, RobOutput
<1>4. LsbType' /\ CommittedFirst' /\ (rob_out.commit_lsb \in BOOLEAN)'
  BY Zenon DEF CoreInv, CoreType, SchedInv, RobType, RobOutput
<1>5. rob_out'.commit_lsb => \E i \in LsbIndex : PulseFor(i)
  BY <1>2, <1>3, NextPulse
<1> QED BY <1>2, <1>3, <1>4, <1>5, StoresFollowWork

(***************************************************************************)
(* The same for the cycle of a rollback and the one before it.             *)
(***************************************************************************)
\* What the buffers do in the cycle before a rollback.
LEMMA AbortWorks ==
  ASSUME CoreInv, rob_need_to_rollback, NEW mc \in MemoryOutput, CoreCycle(FALSE, mc)
  PROVE  /\ QueueWorks(mc) /\ LsbSays(mc) /\ \A i \in LsbIndex : LsbHolds(i, mc)
         /\ ReorderBuffer!Rollback
         /\ \A r \in RegIndex : rf_value'[r] = ArchReg[r]
<1>1. /\ FetcherType /\ RobType /\ RfType /\ RsType /\ LsbType
      /\ Signals /\ Tags /\ CommittedFirst /\ Unmarked
      /\ rob_out.commit_lsb \in BOOLEAN /\ rob_out.rollback \in BOOLEAN
      /\ rob_inner_rollback \in BOOLEAN /\ rob_need_to_rollback \in BOOLEAN
  BY Zenon DEF CoreInv, CoreType, SchedInv, RobType, RobOutput
<1>2. DecodedType
  BY <1>1, DecodedTypes
<1>3. /\ Decoded.issue => ~ReorderBuffer!full_out
      /\ Decoded.to_lsb => ~LoadStoreBuffer!full_out
      /\ Decoded.to_rs => ~ReservationStation!full_out
  BY Room DEF CoreInv, IssueInv
<1>4. /\ ReorderBuffer!Clock(FALSE, Decoded, Broadcast, lsb_out)
      /\ RegisterFile!Clock(FALSE, rob_out, Decoded)
      /\ LoadStoreBuffer!Clock(FALSE, Decoded, Broadcast, rob_out, mc)
  BY DEF CoreCycle
<1>5. ~rob_out.rollback /\ ~rob_inner_rollback
  BY <1>1 DEF Signals
<1>6. Presents /\ Silent
  BY <1>1, <1>3, PresentsHolds, SilentHolds
<1>7. /\ RegisterFile!Operate(rob_out, Decoded)
      /\ LoadStoreBuffer!Operate(Decoded, Broadcast, rob_out, mc)
  BY <1>4, <1>5 DEF RegisterFile!Clock, LoadStoreBuffer!Clock
<1>8. ReorderBuffer!Rollback
  BY <1>4, <1>5 DEF ReorderBuffer!Clock
<1>9. QueueMoves
  BY <1>1, <1>3, <1>7, QueueMovesHolds
<1>10. \A i \in LsbIndex : QueueSlotAfter(i, Finishing(mc) /\ lsb_status = "LOAD")
  BY <1>1, <1>2, <1>3, <1>6, <1>7, QueueSlotsHold
<1>11. QueueWorks(mc)
  BY <1>7, <1>9, <1>10, LsbOutputs, LsbReasons DEF QueueWorks
<1>12. \A i \in LsbIndex : LsbHolds(i, mc)
  BY <1>1, <1>2, <1>3, <1>6, <1>7, QueueWords
<1> QED BY <1>1, <1>7, <1>8, <1>11, <1>12, LsbSaysHolds, RegisterValues

\* It commits nothing.
LEMMA AbortPulses ==
  ASSUME ReorderBuffer!Rollback
  PROVE  /\ ~rob_out'.commit /\ rob_out'.commit_lsb = FALSE /\ ~rob_out'.commit_rf
         /\ rob_out'.fet_rollback_pc = rob_rollback_pc
         /\ rob_inner_rollback' /\ ~rob_need_to_rollback'
BY DEF ReorderBuffer!Rollback, ReorderBuffer!Quiet

\* The committed stores after it.
LEMMA AbortFollows ==
  ASSUME CoreInv, CoreInv', rob_need_to_rollback, NEW mc \in MemoryOutput, CoreCycle(FALSE, mc), MemoryWords
  PROVE  StoresFollow({})
<1>1. /\ QueueWorks(mc) /\ LsbSays(mc) /\ \A i \in LsbIndex : LsbHolds(i, mc)
      /\ rob_out'.commit_lsb = FALSE
  BY AbortWorks, AbortPulses
<1>2. LsbType /\ CommittedFirst /\ rob_out.commit_lsb \in BOOLEAN
  BY Zenon DEF CoreInv, CoreType, SchedInv, RobType, RobOutput
<1>3. LsbType' /\ CommittedFirst' /\ (rob_out.commit_lsb \in BOOLEAN)'
  BY Zenon DEF CoreInv, CoreType, SchedInv, RobType, RobOutput
<1>4. StoresFollow(NewStores)
  BY <1>1, <1>2, <1>3, StoresFollowWork
<1>5. NewStores = {}
  BY <1>1 DEF NewStores
<1> QED BY <1>4, <1>5

\* The cycle of a rollback.
LEMMA RollbackWorks ==
  ASSUME CoreInv, rob_inner_rollback, NEW mc \in MemoryOutput, CoreCycle(FALSE, mc)
  PROVE  /\ ReorderBuffer!Reset /\ RegisterFile!Rollback
         /\ LoadStoreBuffer!Rollback(Decoded, Broadcast, rob_out, mc)
         /\ AtRest' /\ Inputs
<1>1. /\ FetcherType /\ RobType /\ RfType /\ RsType /\ LsbType
      /\ Signals /\ Tags /\ CommittedFirst /\ Unmarked
      /\ rob_out.rollback \in BOOLEAN /\ rob_inner_rollback \in BOOLEAN
  BY Zenon DEF CoreInv, CoreType, SchedInv, RobType, RobOutput
<1>2. DecodedType
  BY <1>1, DecodedTypes
<1>3. rob_out.rollback
  BY <1>1 DEF Signals
<1>4. /\ ReorderBuffer!Reset /\ ReservationStation!Clear /\ RegisterFile!Rollback
      /\ LoadStoreBuffer!Rollback(Decoded, Broadcast, rob_out, mc)
  BY <1>3 DEF CoreCycle, ReorderBuffer!Clock, ReservationStation!Clock, RegisterFile!Clock, LoadStoreBuffer!Clock
<1>5. Inputs
  BY DEF CoreInv, SchedInv, NoInput
<1> QED BY <1>1, <1>2, <1>4, <1>5, RolledBackHolds

\* And the stores after that.
LEMMA RollbackFollows ==
  ASSUME CoreInv, CoreInv', rob_inner_rollback, NEW mc \in MemoryOutput, CoreCycle(FALSE, mc), MemoryWords
  PROVE  StoresFollow({})
<1>1. /\ FetcherType /\ RobType /\ RfType /\ RsType /\ LsbType
      /\ Signals /\ Tags /\ CommittedFirst
  BY Zenon DEF CoreInv, CoreType, SchedInv, RobType, RobOutput
<1>2. LsbType' /\ CommittedFirst' /\ (rob_out.commit_lsb \in BOOLEAN)'
  BY Zenon DEF CoreInv, CoreType, SchedInv, RobType, RobOutput
<1>3. DecodedType
  BY <1>1, DecodedTypes
<1>4. Decoded.issue => ~ReorderBuffer!full_out
  BY Room DEF CoreInv, IssueInv
<1>5. Silent
  BY <1>1, <1>4, SilentHolds
<1>6. /\ LoadStoreBuffer!Rollback(Decoded, Broadcast, rob_out, mc) /\ AtRest' /\ Inputs
  BY RollbackWorks
<1>7. rob_out'.commit_lsb = FALSE
  BY <1>2, <1>6 DEF AtRest
<1> QED BY <1>1, <1>2, <1>3, <1>5, <1>6, <1>7, StoresFollowRollback

(***************************************************************************)
(* What an instruction computes: the ALU and the sequential machine.       *)
(***************************************************************************)
\* The sequential machine's names for what the header and the words define.
LEMMA SequentialNames ==
  /\ \A a, b : Sequential!Add(a, b) = Add(a, b) /\ Sequential!Sub(a, b) = Sub(a, b)
  /\ \A a : Sequential!Signed(a) = Signed(a) /\ Sequential!Flag(a) = Flag(a) /\ Sequential!Bits(a) = Bits(a)
  /\ \A S : Sequential!FromBits(S) = FromBits(S)
  /\ \A S, T : Sequential!SymDiff(S, T) = SymDiff(S, T)
  /\ Sequential!BranchOps = BranchOps /\ Sequential!LoadOps = LoadOps /\ Sequential!StoreOps = StoreOps
  /\ Sequential!RegIndex = RegIndex
<1>1. \A S : Sequential!FromBits(S) = FromBits(S)
  BY DEF Sequential!FromBits, FromBits, Sequential!Sums, Sums
<1>2. \A S, T : Sequential!SymDiff(S, T) = SymDiff(S, T)
  BY DEF Sequential!SymDiff, SymDiff
<1>3. \A a : Sequential!Bits(a) = Bits(a)
  BY DEF Sequential!Bits, Bits
<1> QED BY <1>1, <1>2, <1>3
        DEF Sequential!Add, Add, Sequential!Sub, Sub, Sequential!Flag, Flag, Sequential!Signed, Signed,
            Sequential!BranchOps, BranchOps, Sequential!LoadOps, LoadOps, Sequential!StoreOps, StoreOps,
            Sequential!RegIndex, RegIndex

\* And for its accesses.
LEMMA SequentialMemory ==
  /\ \A a : Sequential!IsIo(a) = IsIo(a)
  /\ \A op : Sequential!Goal(op) = Goal(op)
  /\ \A op, w : Sequential!LoadResult(op, w) = LoadResult(op, w)
  /\ \A m, a, n : Sequential!ReadBytes(m, a, n) = ReadBytes(m, a, n)
  /\ \A m, a, n, w : Sequential!WriteBytes(m, a, n, w) = WriteBytes(m, a, n, w)
<1>1. \A a : Sequential!IsIo(a) = IsIo(a)
  BY DEF Sequential!IsIo, IsIo
<1>2. \A op : Sequential!Goal(op) = Goal(op)
  BY DEF Sequential!Goal, Goal, Sequential!WORD_BYTES, WORD_BYTES
<1>3. \A w, n : Sequential!SignExtend(w, n) = SignExtend(w, n)
  BY SequentialNames DEF Sequential!SignExtend, SignExtend
<1>4. \A op, w : Sequential!LoadResult(op, w) = LoadResult(op, w)
  BY <1>2, <1>3 DEF Sequential!LoadResult, LoadResult
<1>5. \A m, a, n : Sequential!ReadBytes(m, a, n) = ReadBytes(m, a, n)
  BY Zenon DEF Sequential!ReadBytes, ReadBytes, Sequential!Sums, Sums, Sequential!Add, Add
<1>6. \A m, a, n, w : Sequential!WriteBytes(m, a, n, w) = WriteBytes(m, a, n, w)
  <2>1. \A w, k : Sequential!ByteOf(w, k) = ByteOf(w, k)
    BY DEF Sequential!ByteOf, ByteOf
  <2> QED BY <2>1, SequentialNames, Zenon DEF Sequential!WriteBytes, WriteBytes
<1> QED BY <1>1, <1>2, <1>4, <1>5, <1>6

\* The ALU's other names.
LEMMA AluMoreNames ==
  /\ \A a : Alu!Signed(a) = Signed(a) /\ Alu!Bits(a) = Bits(a)
  /\ \A S, T : Alu!SymDiff(S, T) = SymDiff(S, T)
<1>1. \A S, T : Alu!SymDiff(S, T) = SymDiff(S, T)
  BY DEF Alu!SymDiff, SymDiff
<1>2. \A a : Alu!Bits(a) = Bits(a)
  BY DEF Alu!Bits, Bits
<1> QED BY <1>1, <1>2 DEF Alu!Signed, Signed

\* The sequential machine counts a target from the next instruction.
LEMMA TargetOf ==
  ASSUME NEW pc \in Int, NEW imm \in Word
  PROVE  Sub(Add(Add(pc, INST_BYTES), imm), INST_BYTES) = Add(pc, imm)
<1> DEFINE m == 2^XLEN
<1>1. m \in Nat /\ m >= 1
  BY Powers
<1>2. INST_BYTES \in Int /\ imm \in Int
  BY WordAssumption, WordArithmetic DEF WordAssumption
<1> HIDE DEF m
<1>3. PICK x, y, z, c \in Int : /\ x = pc + INST_BYTES /\ y = pc + INST_BYTES + imm
                               /\ z = pc + imm /\ c = 0 - INST_BYTES
  BY <1>2
<1>4. ((x % m) + imm) % m = (x + imm) % m
  BY <1>1, <1>2, RemainderAdds
<1>5. x + imm = y
  BY <1>2, <1>3
<1>6. ((y % m) + c) % m = (y + c) % m
  BY <1>1, RemainderAdds
<1>7. y + c = z /\ (y % m) + c = (y % m) - INST_BYTES
  <2>1. y % m \in 0 .. m - 1
    BY <1>1, Remainder
  <2> QED BY <1>1, <1>2, <1>3, <2>1
<1> QED BY <1>3, <1>4, <1>5, <1>6, <1>7 DEF Add, Sub, m

\* Both take a branch in the same cases.
LEMMA SameBranches ==
  ASSUME NEW op \in BranchOps, NEW a \in Word, NEW b \in Word
  PROVE  Alu!BranchTaken(op, a, b) <=> Sequential!Taken(op, a, b)
<1>1. a \in Int /\ b \in Int /\ 2^XLEN \in Int
  BY WordArithmetic, Powers
<1>2. Signed(a) \in Int /\ Signed(b) \in Int
  BY <1>1 DEF Signed
<1>3. (Signed(a) >= Signed(b) <=> ~(Signed(a) < Signed(b))) /\ (a >= b <=> ~(a < b))
  BY <1>1, <1>2
<1> QED BY <1>3, SequentialNames, AluMoreNames DEF BranchOps, Alu!BranchTaken, Sequential!Taken

\* The operands of an instruction, and those the ALU gets: it gets those it needs.
Presented(inst, a, b, imm, x, y) ==
  /\ Decoder!HaveRs1(inst) => a = x
  /\ Decoder!HaveRs2(inst) => b = y
  /\ imm = Decoder!Immediate(inst)

\* Which those are.
LEMMA OperandsOf ==
  ASSUME NEW inst, NEW a, NEW b, NEW imm, NEW x, NEW y, Presented(inst, a, b, imm, x, y),
         inst.op \in InnerInst
  PROVE  /\ inst.op \in ArithOps \cup BranchOps => a = x /\ b = y
         /\ inst.op \in ArithImmOps \cup {"JALR"} => a = x
         /\ inst.op \notin ArithOps \cup {"NOP"} => imm = inst.imm
<1>1. /\ Decoder!HaveRs1(inst) <=> inst.op \notin {"LUI", "AUIPC", "JAL"}
      /\ Decoder!HaveRs2(inst) <=> Opcode(inst.op) \notin {"LUI", "AUIPC", "JAL", "JALR", "LOAD", "ARITH_IMM"}
      /\ imm = IF Opcode(inst.op) \in {"ARITH", "NOP"} THEN 0 ELSE inst.imm
  BY DecoderNames DEF Presented, Decoder!HaveRs1, Decoder!HaveRs2, Decoder!Immediate
<1>2. inst.op \in ArithOps \cup BranchOps => a = x /\ b = y
  BY <1>1 DEF Presented, Opcode, ArithOps, BranchOps, LoadOps, StoreOps, ArithImmOps
<1>3. inst.op \in ArithImmOps \cup {"JALR"} => a = x
  BY <1>1 DEF Presented, ArithImmOps
<1>4. inst.op \notin ArithOps \cup {"NOP"} => imm = inst.imm
  BY <1>1 DEF Opcode, InnerInst, ArithOps, BranchOps, LoadOps, StoreOps, ArithImmOps
<1> QED BY <1>2, <1>3, <1>4

\* Both compute the same value with no shift.
LEMMA SameValues ==
  ASSUME NEW a, NEW b, NEW x, NEW y, NEW imm, NEW imm2, NEW pc,
         NEW op \in {"JAL", "JALR", "LUI", "ADDI", "SLTI", "SLTIU", "XORI", "ORI", "ANDI",
                     "ADD", "SUB", "SLT", "SLTU", "XOR", "OR", "AND"},
         op \notin {"JAL", "LUI"} => a = x,
         op \in {"ADD", "SUB", "SLT", "SLTU", "XOR", "OR", "AND"} => b = y,
         op \notin {"ADD", "SUB", "SLT", "SLTU", "XOR", "OR", "AND"} => imm2 = imm
  PROVE  Alu!AluResult(op, a, b, imm2, pc) = Sequential!ExecuteVal(op, x, y, imm, Add(pc, INST_BYTES))
<1> USE SequentialNames, AluNames, AluMoreNames DEF Alu!AluResult, Sequential!ExecuteVal, BranchOps
<1>1. CASE op = "JAL"
  BY <1>1
<1>2. CASE op = "JALR"
  BY <1>2
<1>3. CASE op = "LUI"
  BY <1>3
<1>4. CASE op = "ADDI"
  BY <1>4
<1>5. CASE op = "SLTI"
  BY <1>5
<1>6. CASE op = "SLTIU"
  BY <1>6
<1>7. CASE op = "XORI"
  BY <1>7
<1>8. CASE op = "ORI"
  BY <1>8
<1>9. CASE op = "ANDI"
  BY <1>9
<1>10. CASE op = "ADD"
  BY <1>10
<1>11. CASE op = "SUB"
  BY <1>11
<1>12. CASE op = "SLT"
  BY <1>12
<1>13. CASE op = "SLTU"
  BY <1>13
<1>14. CASE op = "XOR"
  BY <1>14
<1>15. CASE op = "OR"
  BY <1>15
<1>16. CASE op = "AND"
  BY <1>16
<1> QED BY <1>1, <1>2, <1>3, <1>4, <1>5, <1>6, <1>7, <1>8,
          <1>9, <1>10, <1>11, <1>12, <1>13, <1>14, <1>15, <1>16

\* And with one, by an amount below the width of a word.
LEMMA SameShifts ==
  ASSUME NEW x, NEW n \in Nat, n < XLEN
  PROVE  /\ Alu!ShiftLeft(x, n) = Sequential!ShiftLeft(x, n)
         /\ Alu!ShiftRight(x, n) = Sequential!ShiftRight(x, n)
<1>1. ~(n >= XLEN)
  BY WordAssumption DEF WordAssumption
<1> QED BY <1>1, Zenon DEF Alu!ShiftLeft, Alu!ShiftRight, Sequential!ShiftLeft, Sequential!ShiftRight

\* The amount is in the instruction.
LEMMA SameImmediateShifts ==
  ASSUME NEW x, NEW y, NEW b, NEW imm \in Word, NEW pc, NEW op \in {"SLLI", "SRLI"}
  PROVE  Alu!AluResult(op, x, b, imm, pc) = Sequential!ExecuteVal(op, x, y, imm, Add(pc, INST_BYTES))
<1>1. imm \in Nat /\ XLEN \in Nat /\ XLEN >= 1
  BY WordArithmetic, WordAssumption DEF WordAssumption
<1>2. imm % XLEN \in 0 .. XLEN - 1
  BY <1>1, Remainder
<1>3. PICK s \in Nat : s = imm % XLEN /\ s < XLEN
  BY <1>1, <1>2
<1>4. /\ Alu!ShiftLeft(x, s) = Sequential!ShiftLeft(x, s)
      /\ Alu!ShiftRight(x, s) = Sequential!ShiftRight(x, s)
  BY <1>3, SameShifts
<1>5. CASE op = "SLLI"
  BY <1>3, <1>4, <1>5, AluNames DEF Alu!AluResult, Sequential!ExecuteVal, BranchOps, Alu!Shamt
<1>6. CASE op = "SRLI"
  BY <1>3, <1>4, <1>6, AluNames DEF Alu!AluResult, Sequential!ExecuteVal, BranchOps, Alu!Shamt
<1> QED BY <1>5, <1>6

\* The amount is in a register.
LEMMA SameRegisterShifts ==
  ASSUME NEW x, NEW y \in Word, y < XLEN, NEW imm, NEW imm2, NEW pc, NEW op \in {"SLL", "SRL"}
  PROVE  Alu!AluResult(op, x, y, imm2, pc) = Sequential!ExecuteVal(op, x, y, imm, Add(pc, INST_BYTES))
<1>1. y \in Nat /\ XLEN \in Nat /\ XLEN >= 1
  BY WordArithmetic, WordAssumption DEF WordAssumption
<1>2. y % XLEN = y
  BY <1>1, RemainderSmall
<1>3. /\ Alu!ShiftLeft(x, y) = Sequential!ShiftLeft(x, y)
      /\ Alu!ShiftRight(x, y) = Sequential!ShiftRight(x, y)
  BY <1>1, SameShifts
<1>4. CASE op = "SLL"
  BY <1>2, <1>3, <1>4, AluNames DEF Alu!AluResult, Sequential!ExecuteVal, BranchOps
<1>5. CASE op = "SRL"
  BY <1>2, <1>3, <1>5, AluNames DEF Alu!AluResult, Sequential!ExecuteVal, BranchOps
<1> QED BY <1>4, <1>5

\* The operations on which the ALU and the sequential machine agree.
Agreeing(inst, y) == /\ inst.op \notin {"NOP", "AUIPC", "SRA", "SRAI"}
                     /\ inst.op \in {"SLL", "SRL"} => y < XLEN

\* What the ALU computes of them is what the sequential machine does.
LEMMA ComputesValue ==
  ASSUME NEW inst \in Instruction, NEW a, NEW b, NEW imm, NEW x \in Word, NEW y \in Word,
         Presented(inst, a, b, imm, x, y), Agreeing(inst, y), NEW pc,
         inst.op \notin BranchOps \cup LoadOps \cup StoreOps
  PROVE  Alu!AluResult(inst.op, a, b, imm, pc)
           = Sequential!ExecuteVal(inst.op, x, y, inst.imm, Add(pc, INST_BYTES))
<1>1. PICK op, i : op = inst.op /\ i = inst.imm
  OBVIOUS
<1>2. op \in InnerInst /\ i \in Word
  BY <1>1 DEF Instruction
<1>3. /\ op \in ArithOps \cup BranchOps => a = x /\ b = y
      /\ op \in ArithImmOps \cup {"JALR"} => a = x
      /\ op \notin ArithOps \cup {"NOP"} => imm = i
  BY <1>1, <1>2, OperandsOf
<1>4. /\ op \notin {"NOP", "AUIPC", "SRA", "SRAI"}
      /\ op \in {"SLL", "SRL"} => y < XLEN
      /\ op \notin BranchOps \cup LoadOps \cup StoreOps
  BY <1>1 DEF Agreeing
<1>5. CASE op \in {"SLLI", "SRLI"}
  <2>1. a = x /\ imm = i
    BY <1>3, <1>5 DEF ArithOps, ArithImmOps
  <2> QED BY <1>1, <1>2, <1>5, <2>1, SameImmediateShifts
<1>7. CASE op \in {"SLL", "SRL"}
  <2>1. a = x /\ b = y
    BY <1>3, <1>7 DEF ArithOps
  <2>2. y < XLEN
    BY <1>4, <1>7
  <2> QED BY <1>1, <1>7, <2>1, <2>2, SameRegisterShifts
<1>6. CASE op \notin {"SLLI", "SRLI", "SLL", "SRL"}
  <2>1. op \in {"JAL", "JALR", "LUI", "ADDI", "SLTI", "SLTIU", "XORI", "ORI", "ANDI",
                "ADD", "SUB", "SLT", "SLTU", "XOR", "OR", "AND"}
    BY <1>2, <1>4, <1>6 DEF InnerInst, ArithImmOps, ArithOps
  <2>2. /\ op \notin {"JAL", "LUI"} => a = x
        /\ op \in {"ADD", "SUB", "SLT", "SLTU", "XOR", "OR", "AND"} => b = y
        /\ op \notin {"ADD", "SUB", "SLT", "SLTU", "XOR", "OR", "AND"} => imm = i
    BY <1>3, <2>1 DEF ArithOps, ArithImmOps
  <2> QED BY <1>1, <2>1, <2>2, SameValues
<1> QED BY <1>5, <1>6, <1>7

\* It goes where that goes.
LEMMA ComputesPc ==
  ASSUME NEW inst \in Instruction, NEW a, NEW b, NEW imm, NEW x \in Word, NEW y \in Word,
         Presented(inst, a, b, imm, x, y), Agreeing(inst, y), NEW pc \in Int
  PROVE  /\ inst.op \in BranchOps \cup {"JALR"}
              => Alu!AluNewPc(inst.op, a, b, imm, pc)
                   = Sequential!ExecutePc(inst.op, x, y, inst.imm, Add(pc, INST_BYTES))
         /\ inst.op \notin BranchOps \cup {"JALR"}
              => Sequential!ExecutePc(inst.op, x, y, inst.imm, Add(pc, INST_BYTES))
                   = IF inst.op = "JAL" THEN Add(pc, inst.imm) ELSE Add(pc, INST_BYTES)
<1>1. PICK op, i : op = inst.op /\ i = inst.imm
  OBVIOUS
<1>2. op \in InnerInst /\ i \in Word
  BY <1>1 DEF Instruction
<1>3. /\ op \in ArithOps \cup BranchOps => a = x /\ b = y
      /\ op \in ArithImmOps \cup {"JALR"} => a = x
      /\ op \notin ArithOps \cup {"NOP"} => imm = i
  BY <1>1, <1>2, OperandsOf
<1>4. Sequential!Sub(Sequential!Add(Add(pc, INST_BYTES), i), INST_BYTES) = Add(pc, i)
  BY <1>2, TargetOf, SequentialNames
<1>5. op # "AUIPC"
  BY <1>1 DEF Agreeing
<1>6. ASSUME op \in BranchOps
      PROVE  Alu!AluNewPc(op, a, b, imm, pc) = Sequential!ExecutePc(op, x, y, i, Add(pc, INST_BYTES))
  <2>1. a = x /\ b = y /\ imm = i
    BY <1>3, <1>6 DEF BranchOps, ArithOps
  <2>2. op \notin {"AUIPC", "JAL", "JALR"}
    BY <1>6 DEF BranchOps
  <2>3. Alu!BranchTaken(op, x, y) <=> Sequential!Taken(op, x, y)
    BY <1>6, SameBranches
  <2>4. Alu!AluNewPc(op, x, y, i, pc) = IF Alu!BranchTaken(op, x, y) THEN Add(pc, i) ELSE Add(pc, INST_BYTES)
    BY <1>6, <2>2, AluNames DEF Alu!AluNewPc
  <2>5. Sequential!ExecutePc(op, x, y, i, Add(pc, INST_BYTES))
          = IF Sequential!Taken(op, x, y) THEN Sequential!Sub(Sequential!Add(Add(pc, INST_BYTES), i), INST_BYTES)
                                          ELSE Add(pc, INST_BYTES)
    BY <1>6, <2>2, SequentialNames DEF Sequential!ExecutePc
  <2> QED BY <1>4, <2>1, <2>3, <2>4, <2>5
<1>7. ASSUME op = "JALR"
      PROVE  Alu!AluNewPc(op, a, b, imm, pc) = Sequential!ExecutePc(op, x, y, i, Add(pc, INST_BYTES))
  <2>1. a = x /\ imm = i /\ op \notin BranchOps
    BY <1>3, <1>7 DEF ArithOps, BranchOps
  <2> QED BY <1>7, <2>1, AluNames, SequentialNames DEF Alu!AluNewPc, Sequential!ExecutePc
<1>8. ASSUME op \notin BranchOps \cup {"JALR"}
      PROVE  Sequential!ExecutePc(op, x, y, i, Add(pc, INST_BYTES))
               = IF op = "JAL" THEN Add(pc, i) ELSE Add(pc, INST_BYTES)
  BY <1>4, <1>5, <1>8, SequentialNames DEF Sequential!ExecutePc
<1> QED BY <1>1, <1>6, <1>7, <1>8

(***************************************************************************)
(* A cycle of work of the whole machine.  First the inputs, which an I/O   *)
(* load takes away before it commits.                                      *)
(***************************************************************************)
\* A cycle of work of the whole machine: no rollback is due or under way.
WorkCycle(serves) == CpuInv /\ CpuInv' /\ Plain /\ Inv /\ Calm /\ Cycle(FALSE, serves)

\* The data access, as the buffer and the memory see it.
Agreed == AccessAgreed(mem_lsb_request.pending, mem_lsb_request.store, mem_out.lsb_ready)

\* The types, as the lemmas on the parts want them.
LEMMA InvTypes ==
  CpuInv => /\ CoreInv /\ MemType /\ Agreed
            /\ FetcherType /\ RobType /\ RfType /\ RsType /\ LsbType /\ committed_pc \in Word
            /\ mem_out \in MemoryOutput /\ program \in [Word -> Instruction]
            /\ input_taken \in BOOLEAN
BY Zenon DEF CpuInv, CoreInv, CoreType, MemType, Agreed

\* What the parts of a cycle do.
LEMMA CycleParts ==
  ASSUME NEW serves, Cycle(FALSE, serves)
  PROVE  /\ Memory!Clock(FALSE, rob_out, fet_out, lsb_out, serves, program)
         /\ CoreCycle(FALSE, mem_out)
         /\ CommittedPc(FALSE) /\ UNCHANGED program
         /\ Fetcher!Clock(FALSE, AnyFull, rob_out, mem_out)
         /\ ReorderBuffer!Clock(FALSE, Decoded, Broadcast, lsb_out)
         /\ RegisterFile!Clock(FALSE, rob_out, Decoded)
         /\ LoadStoreBuffer!Clock(FALSE, Decoded, Broadcast, rob_out, mem_out)
         /\ input_taken' = (mem_io_reads' # mem_io_reads \/ (input_taken /\ ~rob_out'.commit))
BY Zenon DEF Cycle, CoreCycle

\* What a cycle of work does.
LEMMA WorkFacts ==
  ASSUME NEW serves, WorkCycle(serves)
  PROVE  /\ ValueWorks(mem_out) /\ MemoryWords /\ StoresFollow(NewStores) /\ Hands
         /\ CacheRight /\ FetchRight /\ IssueRight /\ NoticedIdle /\ TakenRight /\ AskedRight
         /\ ValuesInv
         /\ Agreed /\ Agreed'
<1>1. CpuInv /\ CpuInv' /\ Inv /\ Calm /\ Cycle(FALSE, serves)
  BY DEF WorkCycle
<1>2. /\ Memory!Clock(FALSE, rob_out, fet_out, lsb_out, serves, program)
      /\ CoreCycle(FALSE, mem_out)
  BY <1>1, CycleParts
<1>3. CoreInv /\ Agreed /\ mem_out \in MemoryOutput
  BY <1>1, InvTypes
<1>4. CoreInv' /\ Agreed'
  BY <1>1, Zenon DEF CpuInv, Agreed
<1>5. ValueWorks(mem_out)
  BY <1>1, <1>2, <1>3, ValueWorksHolds
<1>6. MemoryWords
  BY <1>1, <1>2, MemoryWordsHold
<1>7. StoresFollow(NewStores)
  BY <1>1, <1>2, <1>3, <1>4, <1>6, WorkFollows
<1>8. Hands
  BY <1>5, WorksParts, HandsWork
<1>9. /\ CacheRight /\ FetchRight /\ IssueRight /\ NoticedIdle /\ TakenRight /\ AskedRight
      /\ ValuesInv
  BY <1>1, Zenon DEF Inv, Calm
<1> QED BY <1>3, <1>4, <1>5, <1>6, <1>7, <1>8, <1>9

\* The input's counter: what is added can be taken away, and the other way round.
LEMMA PeriodBack ==
  ASSUME NEW n \in 0 .. IO_PERIOD - 1
  PROVE  /\ (((n + 1) % IO_PERIOD) - 1) % IO_PERIOD = n
         /\ (((n - 1) % IO_PERIOD) + 1) % IO_PERIOD = n
         /\ n % IO_PERIOD = n
         /\ (n + 1) % IO_PERIOD = n => IO_PERIOD = 1
         /\ (n + 1) % IO_PERIOD \in 0 .. IO_PERIOD - 1
<1>1. IO_PERIOD \in Nat /\ IO_PERIOD >= 1
  BY InputWord
<1>2. n \in Int /\ n % IO_PERIOD = n /\ (n + 1) % IO_PERIOD \in 0 .. IO_PERIOD - 1
  BY <1>1, InputWord, Reduced, SMT
<1>3. (((n + 1) % IO_PERIOD) + (-1)) % IO_PERIOD = ((n + 1) + (-1)) % IO_PERIOD
  BY <1>2, PeriodTwice, SMT
<1>4. (((n + (-1)) % IO_PERIOD) + 1) % IO_PERIOD = ((n + (-1)) + 1) % IO_PERIOD
  BY <1>2, PeriodTwice, SMT
<1>5. (n + 1) % IO_PERIOD = IF n = IO_PERIOD - 1 THEN 0 ELSE n + 1
  <2>1. CASE n = IO_PERIOD - 1
    <3>1. IO_PERIOD % IO_PERIOD = 0
      BY <1>1, Z3
    <3> QED BY <2>1, <3>1, <1>1, <1>2, SMT
  <2>2. CASE n # IO_PERIOD - 1
    <3>1. n + 1 \in 0 .. IO_PERIOD - 1
      BY <2>2, <1>1, <1>2, SMT
    <3>2. (n + 1) % IO_PERIOD = n + 1
      BY <3>1, Reduced
    <3> QED BY <2>2, <3>2
  <2> QED BY <2>1, <2>2
<1>6. n + 1 \in Int /\ n - 1 \in Int /\ (n + 1) + (-1) = n /\ (n + (-1)) + 1 = n /\ n + (-1) = n - 1
      /\ ((n + 1) % IO_PERIOD) + (-1) = ((n + 1) % IO_PERIOD) - 1
  BY <1>2, SMT
<1>7. (n + 1) % IO_PERIOD = n => IO_PERIOD = 1
  BY <1>1, <1>2, <1>5, SMT
<1> QED BY <1>2, <1>3, <1>4, <1>6, <1>7, Zenon

\* An input that is finished is that of the oldest instruction, and the only one.
LEMMA ReadingLoad ==
  ASSUME NEW serves, WorkCycle(serves), Reading
  PROVE  /\ Loading(HeadNext) /\ OfLoad(HeadNext) /\ IsIo(lsb_current_address)
         /\ ~Committing /\ ~input_taken /\ ~mem_out.lsb_ready
         /\ lsb_status = "LOAD" /\ ~lsb_out.mc_request
<1>1. ValueWorks(mem_out) /\ AskedRight /\ TakenRight /\ Agreed
  BY WorkFacts
<1>2. mem_lsb_request.pending /\ ~mem_lsb_request.store /\ IsIo(mem_lsb_request.address)
  BY DEF Reading
<1>3. lsb_status # "IDLE" /\ ~lsb_out.mc_request /\ ~mem_out.lsb_ready /\ lsb_status # "STORE"
  BY <1>1, <1>2, Zenon DEF Agreed, AccessAgreed, Single, Nowhere
<1>4. CpuInv
  BY DEF WorkCycle
<1>5. lsb_status = "LOAD"
  BY <1>3, <1>4, InvTypes DEF LsbType
<1>6. IsIo(lsb_current_address)
  BY <1>1, <1>2 DEF AskedRight
<1>7. Works(mem_out) /\ RobWorks /\ RobMoves /\ Tags /\ Owned /\ Alone /\ Scheduled
  BY <1>1, WorksParts
<1>8. lsb_current_tag \in RobTag
  BY <1>5, <1>7 DEF Tags
<1>9. PICK t \in RobTag : t = lsb_current_tag
  BY <1>8
<1>10. Loading(t)
  BY <1>5, <1>9 DEF Loading
<1>11. OfLoad(t) /\ RobAge(t) = 1
  BY <1>6, <1>7, <1>10, Zenon DEF Owned, OwnedByLoad, Scheduled, Released
<1>12. t = HeadNext
  BY <1>7, <1>11 DEF RobMoves
<1>13. ~Committing
  BY <1>7, <1>11, StaysUnfinished
<1>14. ~input_taken
  <2>1. SUFFICES ASSUME input_taken PROVE FALSE
    OBVIOUS
  <2>2. PICK u \in RobTag : Input(u)
    BY <2>1, <1>1 DEF TakenRight
  <2>3. u = HeadNext
    BY <2>2, <1>7 DEF Input, RobMoves
  <2>4. ~lsb_out.broadcast
    BY <1>5, <1>7 DEF Alone, OneLoad
  <2>5. ~rob_entry[u].ready
    BY <1>11, <1>12, <2>3 DEF OfLoad, Unfinished
  <2> QED BY <2>2, <2>4, <2>5, <1>3 DEF Input, Loaded
<1> QED BY <1>3, <1>5, <1>6, <1>10, <1>11, <1>12, <1>13, <1>14

\* An instruction under way that is not the one that commits is an unfinished load.
LEMMA LoadingStays ==
  ASSUME NEW mc, ValueWorks(mc), NEW t \in RobTag, Loading(t) \/ Loaded(t)
  PROVE  /\ OfLoad(t) /\ Stays(t) /\ RobAge(t) \in Nat
         /\ RobAge(t) = 1 => ~Committing
<1>1. RobWorks /\ RobMoves /\ Owned
  BY WorksParts
<1>2. OfLoad(t)
  BY <1>1, Zenon DEF Owned, OwnedByLoad, OwnedByResult
<1>3. RobAge(t) = 1 => ~Committing
  BY <1>1, <1>2, StaysUnfinished
<1>4. t = HeadNext => RobAge(t) = 1
  BY <1>1 DEF RobMoves
<1> QED BY <1>1, <1>2, <1>3, <1>4 DEF Stays, OfLoad, Unfinished, RobMoves

\* The oldest instruction commits, and is a load of input.
InputCommits == /\ Committing /\ Op(HeadNext) = "LOAD"
                /\ IsIo(Add(ArchReg[InstOf(HeadNext).rs1], InstOf(HeadNext).imm))

\* A commit with an input taken is that of the load that took it, and such a load
\* has taken it.
LEMMA TakenCommits ==
  ASSUME NEW serves, WorkCycle(serves), Committing
  PROVE  /\ input_taken => InputCommits
         /\ InputCommits => InputKept
<1>1. ValueWorks(mem_out) /\ TakenRight /\ ValuesInv
  BY WorkFacts
<1>2. HeadNext \in RobTag /\ RobAge(HeadNext) = 1 /\ Flying(HeadNext) /\ RobTells /\ RobMoves
  BY <1>1, WorksParts DEF RobMoves
<1>3. PICK h \in RobTag : h = HeadNext
  BY <1>2
<1>4. ~Loading(h) /\ ~Loaded(h)
  BY <1>1, <1>2, <1>3, LoadingStays
<1>5. input_taken => InputCommits
  <2>1. SUFFICES ASSUME input_taken PROVE InputCommits
    OBVIOUS
  <2>2. PICK u \in RobTag : Input(u)
    BY <2>1, <1>1 DEF TakenRight
  <2>3. u = h
    BY <2>2, <1>2, <1>3 DEF Input, RobMoves
  <2>4. PICK a \in Word : Has(h, InstOf(h).rs1, a) /\ IsIo(Add(a, InstOf(h).imm))
    BY <2>2, <2>3, <1>4 DEF Input
  <2>5. a = ArchReg[InstOf(h).rs1]
    BY <2>4, <1>1, <1>2, <1>3, HeadHas
  <2>6. Op(h) = "LOAD"
    BY <2>2, <2>3 DEF Input
  <2> QED BY <2>4, <2>5, <2>6, <1>3 DEF InputCommits
<1>6. InputCommits => InputKept
  <2>1. SUFFICES ASSUME InputCommits PROVE InputKept
    OBVIOUS
  <2>2. rob_entry[h].ready /\ Op(h) = "LOAD" /\ Flying(h)
    BY <2>1, <1>2, <1>3 DEF InputCommits, RobTells
  <2>3. Loads(h, rob_entry[h].data)
    BY <2>2, <1>1, Zenon DEF ValuesInv, LoadedRight
  <2>4. PICK a \in Word : Has(h, InstOf(h).rs1, a) /\ (IsIo(Add(a, InstOf(h).imm)) => InputKept)
    BY <2>3, Zenon DEF Loads
  <2>5. a = ArchReg[InstOf(h).rs1]
    BY <2>4, <1>1, <1>2, <1>3, HeadHas
  <2> QED BY <2>1, <2>4, <2>5, <1>3 DEF InputCommits
<1> QED BY <1>5, <1>6

\* The input the programmer sees advances with the commits of loads of input only.
LEMMA ReadsAfter ==
  ASSUME NEW serves, WorkCycle(serves)
  PROVE  ArchReads' = IF InputCommits THEN (ArchReads + 1) % IO_PERIOD ELSE ArchReads
<1>1. ValueWorks(mem_out) /\ MemoryWords /\ CpuInv /\ Cycle(FALSE, serves)
  BY WorkFacts DEF WorkCycle
<1>2. input_taken' = (mem_io_reads' # mem_io_reads \/ (input_taken /\ ~rob_out'.commit))
  BY <1>1, CycleParts
<1>3. rob_out'.commit <=> Committing
  BY <1>1, WorksParts DEF RobTells
<1>4. mem_io_reads' = IF Reading THEN (mem_io_reads + 1) % IO_PERIOD ELSE mem_io_reads
  BY <1>1 DEF MemoryWords
<1>5. PICK n \in 0 .. IO_PERIOD - 1 : n = mem_io_reads
  BY <1>1, InvTypes DEF MemType
<1>6. n \in Int /\ n - 0 = n /\ n % IO_PERIOD = n
  BY <1>5, PeriodBack, InputWord, SMT
<1>7. /\ input_taken => ArchReads = (n - 1) % IO_PERIOD
      /\ ~input_taken => ArchReads = n
  BY <1>5, <1>6, <1>1, InvTypes DEF ArchReads, Flag
<1>8. CASE Reading
  <2>1. ~Committing /\ ~input_taken
    BY <1>8, ReadingLoad
  <2>2. mem_io_reads' = (n + 1) % IO_PERIOD
    BY <1>4, <1>5, <1>8
  <2>3. PICK m \in 0 .. IO_PERIOD - 1 : m = (n + 1) % IO_PERIOD
    BY <1>5, PeriodBack
  <2>4. m - 0 = m /\ m % IO_PERIOD = m /\ (m - 1) % IO_PERIOD = n
    <3>1. m \in Int /\ m - 0 = m
      BY <2>3, InputWord, SMT
    <3> QED BY <3>1, <2>3, <1>5, PeriodBack
  <2>5. ArchReads' = (m - (IF m # n THEN 1 ELSE 0)) % IO_PERIOD
    <3>1. input_taken' = (m # n)
      BY <1>2, <2>1, <2>2, <2>3, <1>5
    <3> QED BY <3>1, <2>2, <2>3, Zenon DEF ArchReads, Flag
  <2>6. ArchReads' = n
    BY <2>4, <2>5
  <2> QED BY <2>1, <2>6, <1>7 DEF InputCommits
<1>9. CASE ~Reading /\ ~Committing
  <2>1. mem_io_reads' = mem_io_reads /\ input_taken' = input_taken
    BY <1>1, <1>2, <1>3, <1>4, <1>9, InvTypes
  <2>2. ArchReads' = ArchReads
    BY <2>1, Zenon DEF ArchReads
  <2> QED BY <2>2, <1>9 DEF InputCommits
<1>10. CASE ~Reading /\ Committing
  <2>1. mem_io_reads' = n /\ ~input_taken'
    BY <1>2, <1>3, <1>4, <1>5, <1>10
  <2>2. ArchReads' = n
    BY <2>1, <1>6 DEF ArchReads, Flag
  <2>3. /\ input_taken => InputCommits
        /\ InputCommits => input_taken \/ IO_PERIOD = 1
    BY <1>10, TakenCommits DEF InputKept
  <2>4. input_taken => (ArchReads + 1) % IO_PERIOD = n
    BY <1>5, <1>7, PeriodBack
  <2>5. ~input_taken /\ IO_PERIOD = 1 => (ArchReads + 1) % IO_PERIOD = n
    <3>1. SUFFICES ASSUME ~input_taken, IO_PERIOD = 1 PROVE (ArchReads + 1) % IO_PERIOD = n
      OBVIOUS
    <3>2. n = 0 /\ (n + 1) \in Int
      BY <1>5, <3>1, SMT
    <3>3. (n + 1) % IO_PERIOD \in 0 .. IO_PERIOD - 1
      BY <1>5, PeriodBack
    <3>4. (n + 1) % IO_PERIOD = 0
      BY <3>1, <3>3, SMT
    <3> QED BY <3>1, <3>2, <3>4, <1>7
  <2> QED BY <2>2, <2>3, <2>4, <2>5, <1>7
<1> QED BY <1>8, <1>9, <1>10

\* The buffer forgets its notice with the load it was for, in every cycle.
LEMMA NoticedIdleStep ==
  ASSUME NEW mc, LoadStoreBuffer!Clock(FALSE, Decoded, Broadcast, rob_out, mc), NoticedIdle
  PROVE  NoticedIdle'
BY Zenon DEF LoadStoreBuffer!Clock, LoadStoreBuffer!Operate, LoadStoreBuffer!Rollback,
       LoadStoreBuffer!Issue, LoadStoreBuffer!Notice, LoadStoreBuffer!Finish, LoadStoreBuffer!Stay,
       LoadStoreBuffer!Idle, LoadStoreBuffer!CanNotice, NoticedIdle

\* A wrong guess leads back to where the committed instructions lead.
LEMMA RestartWorks ==
  ASSUME NEW serves, WorkCycle(serves)
  PROVE  RestartRight'
<1>1. ValueWorks(mem_out) /\ CommittedPc(FALSE)
  BY WorkFacts, CycleParts DEF WorkCycle
<1>2. RobPulses /\ RobTells
  BY <1>1, WorksParts DEF ValueWorks
<1>3. rob_need_to_rollback' => rob_rollback_pc' = committed_pc'
  <2>1. SUFFICES ASSUME rob_need_to_rollback' PROVE rob_rollback_pc' = committed_pc'
    OBVIOUS
  <2>2. Committing /\ Op(HeadNext) \in {"JALR", "BRANCH"} /\ rob_rollback_pc' = rob_entry[HeadNext].new_pc
    BY <1>2, <2>1 DEF RobPulses, RobTells
  <2>3. committed_pc' = rob_entry[HeadNext].new_pc
    BY <1>1, <1>2, <2>2 DEF CommittedPc, RobTells, Oldest, Op, HeadNext
  <2> QED BY <2>2, <2>3
<1> QED BY <1>2, <1>3 DEF RestartRight, RobTells

\* While a request is on its way or pending the buffer waits.
LEMMA Waiting ==
  ASSUME NEW mc, ValueWorks(mc), lsb_status # "IDLE", ~mc.lsb_ready
  PROVE  Remains /\ lsb_current_op' = lsb_current_op /\ ~Issuing /\ ~Noticing
<1>1. LsbTells(mc) /\ LsbSays(mc)
  BY WorksParts
<1>2. ~Issuing /\ ~Noticing /\ ~Finishing(mc)
  BY <1>1, Zenon DEF LsbTells, Finishing, LoadStoreBuffer!Finishes
<1> QED BY <1>1, <1>2, Zenon DEF LsbTells, LsbSays

\* What is asked of the memory is what the buffer keeps of the load.
LEMMA AskedWorks ==
  ASSUME NEW serves, WorkCycle(serves)
  PROVE  AskedRight'
<1>1. /\ ValueWorks(mem_out) /\ MemoryWords /\ AskedRight /\ Agreed /\ Agreed'
      /\ CpuInv /\ CpuInv'
  BY WorkFacts DEF WorkCycle
<1>2. LsbTells(mem_out) /\ LsbSays(mem_out)
  BY <1>1, WorksParts
<1>3. lsb_out'.mc_request /\ ~lsb_out'.mc_store =>
        lsb_out'.mc_address = lsb_current_address' /\ lsb_out'.mc_goal = Goal(lsb_current_op')
  <2>1. SUFFICES ASSUME lsb_out'.mc_request
                 PROVE  lsb_out'.mc_address = lsb_current_address' /\ lsb_out'.mc_goal = Goal(lsb_current_op')
    OBVIOUS
  <2>2. Issuing
    BY <2>1, <1>2, Zenon DEF LsbTells, Reports, Ends, Remains
  <2>3. Asks /\ lsb_current_op' = First.op
    BY <2>2, <1>2, Zenon DEF LsbTells, LsbSays
  <2> QED BY <2>3, Zenon DEF Asks
<1>4. mem_lsb_request'.pending /\ ~mem_lsb_request'.store =>
        mem_lsb_request'.address = lsb_current_address' /\ mem_lsb_request'.goal = Goal(lsb_current_op')
  <2>1. SUFFICES ASSUME mem_lsb_request'.pending, ~mem_lsb_request'.store
                 PROVE  mem_lsb_request'.address = lsb_current_address'
                        /\ mem_lsb_request'.goal = Goal(lsb_current_op')
    OBVIOUS
  <2>2. /\ Memory!Clock(FALSE, rob_out, fet_out, lsb_out, serves, program)
        /\ FALSE \in BOOLEAN
    BY CycleParts DEF WorkCycle
  <2>3. AccessServed(FALSE, mem_lsb_request.pending, mem_lsb_request.store, mem_lsb_request'.pending,
                      mem_lsb_request'.store, mem_out'.lsb_ready)
    BY <2>2, MemoryAccesses
  <2>4. ~rob_out.rollback
    BY <1>1, WorksParts DEF Signals, WorkCycle, Calm
  <2>5. lsb_out.mc_request \/ mem_lsb_request.pending
    BY <2>1, <2>3, <2>4, Zenon DEF AccessServed
  <2>6. lsb_status # "IDLE" /\ ~mem_out.lsb_ready
    BY <2>5, <1>1, Zenon DEF Agreed, AccessAgreed, Single, Nowhere
  <2>7. Remains /\ lsb_current_op' = lsb_current_op
    BY <2>6, <1>1, Waiting
  <2>8. CASE lsb_out.mc_request
    <3>1. ~lsb_out.mc_store
      BY <2>1, <2>3, <2>4, <2>8, Zenon DEF AccessServed
    <3> QED BY <3>1, <2>1, <2>7, <2>8, <1>1, Zenon DEF AskedRight, Remains, MemoryWords
  <2>9. CASE ~lsb_out.mc_request
    <3>1. mem_lsb_request.pending /\ ~mem_lsb_request.store
      BY <2>1, <2>3, <2>4, <2>9, Zenon DEF AccessServed
    <3> QED BY <3>1, <2>1, <2>7, <2>9, <1>1, Zenon DEF AskedRight, Remains, MemoryWords
  <2> QED BY <2>8, <2>9
<1> QED BY <1>3, <1>4 DEF AskedRight

\* An input that was taken is on its way to the commit of its load.
LEMMA TakenWorks ==
  ASSUME NEW serves, WorkCycle(serves)
  PROVE  TakenRight'
<1>1. ValueWorks(mem_out) /\ MemoryWords /\ TakenRight /\ ValuesInv /\ IssueRight /\ UNCHANGED program
      /\ CpuInv /\ Cycle(FALSE, serves)
  BY WorkFacts, CycleParts DEF WorkCycle
<1>2. input_taken' = (mem_io_reads' # mem_io_reads \/ (input_taken /\ ~rob_out'.commit))
  BY <1>1, CycleParts
<1>3. RobTells /\ RobMoves /\ LsbTells(mem_out) /\ LsbSays(mem_out) /\ \A t \in RobTag : SlotAfter(t)
  BY <1>1, WorksParts
<1>4. SUFFICES ASSUME input_taken' PROVE Calm' /\ \E t \in RobTag : Input(t)'
  BY DEF TakenRight
<1>5. ~Committing /\ (Reading \/ input_taken)
  BY <1>1, <1>2, <1>3, <1>4, ReadingLoad DEF RobTells, MemoryWords
<1>6. Calm'
  BY <1>3, <1>5 DEF Calm, RobTells
<1>7. \A t \in RobTag : Flying(t) /\ RobAge(t) = 1 /\ Op(t) = "LOAD"
        => Stays(t) /\ Flying(t)' /\ RobAge(t)' = 1 /\ Op(t)' = "LOAD"
  BY <1>3, <1>5 DEF RobMoves, SlotAfter, Stays
<1>8. CASE Reading
  <2>1. Loading(HeadNext) /\ OfLoad(HeadNext) /\ IsIo(lsb_current_address) /\ ~mem_out.lsb_ready
        /\ lsb_status = "LOAD"
    BY <1>8, ReadingLoad
  <2>2. Remains
    BY <1>1, <2>1, Waiting
  <2>3. PICK h \in RobTag : h = HeadNext /\ RobAge(h) = 1
    BY <1>3 DEF RobMoves
  <2>4. Flying(h)' /\ RobAge(h)' = 1 /\ Op(h)' = "LOAD"
    BY <2>1, <2>3, <1>7 DEF OfLoad, Unfinished
  <2>5. Loading(h)' /\ IsIo(lsb_current_address)'
    BY <2>1, <2>2, <2>3 DEF Loading, Remains
  <2>6. mem_out'.lsb_ready
    BY <1>8 DEF Reading
  <2> QED BY <2>4, <2>5, <2>6, <1>6 DEF Input
<1>9. CASE ~Reading
  <2>1. input_taken
    BY <1>5, <1>9
  <2>2. PICK t \in RobTag : Input(t)
    BY <2>1, <1>1 DEF TakenRight
  <2>3. Stays(t) /\ Flying(t)' /\ RobAge(t)' = 1 /\ Op(t)' = "LOAD"
    BY <2>2, <1>7 DEF Input
  <2>4. Remaining(t) /\ InstOf(t)' = InstOf(t)
    BY <2>3, <1>1, InstAfter DEF Remaining
  <2>5. PICK i \in Instruction : i = InstOf(t) /\ i.rs1 \in RegIndex
    BY <1>1, InvTypes, InstTypes
  <2>6. \A a \in Word : Has(t, i.rs1, a) => Has(t, i.rs1, a)'
    BY <1>1, <2>4, <2>5, HasAfter
  <2>7. CASE Loading(t) /\ mem_out.lsb_ready /\ IsIo(lsb_current_address)
    <3>1. Finishing(mem_out) /\ lsb_status = "LOAD" /\ lsb_current_tag = t
      BY <2>7 DEF Finishing, LoadStoreBuffer!Finishes, Loading
    <3>2. Loaded(t)'
      BY <3>1, <1>3 DEF LsbTells, Ends, Loaded
    <3>3. PICK a \in Word : Has(t, i.rs1, a) /\ lsb_current_address = Add(a, i.imm)
      BY <2>5, <2>7, <1>1, Zenon DEF ValuesInv, LoadingRight
    <3>4. Has(t, i.rs1, a)' /\ IsIo(Add(a, i.imm))
      BY <3>3, <2>6, <2>7
    <3>5. \E b \in Word : Has(t, InstOf(t).rs1, b)' /\ IsIo(Add(b, InstOf(t).imm)')
      BY <3>4, <2>4, <2>5
    <3> QED BY <3>2, <3>5, <2>3, <1>6 DEF Input
  <2>8. CASE /\ Loaded(t) \/ rob_entry[t].ready
             /\ \E a \in Word : Has(t, InstOf(t).rs1, a) /\ IsIo(Add(a, InstOf(t).imm))
    <3>1. rob_entry'[t].ready
      BY <2>3, <2>8, <1>3 DEF SlotAfter
    <3>2. PICK a \in Word : Has(t, i.rs1, a) /\ IsIo(Add(a, i.imm))
      BY <2>5, <2>8
    <3>3. \E b \in Word : Has(t, InstOf(t).rs1, b)' /\ IsIo(Add(b, InstOf(t).imm)')
      BY <3>2, <2>4, <2>5, <2>6
    <3> QED BY <3>1, <3>3, <2>3, <1>6 DEF Input
  <2> QED BY <2>2, <2>7, <2>8 DEF Input
<1> QED BY <1>8, <1>9

(***************************************************************************)
(* The loads.  One is performed only when no store before it is still to   *)
(* reach the memory, so that what it gets is what the programmer sees.     *)
(***************************************************************************)
\* No store that may still change its value is before a load under way, or becomes so.
LEMMA NoStoreStays ==
  ASSUME NEW mc, ValueWorks(mc), NEW t \in RobTag, Stays(t), NoStoreBefore(t)
  PROVE  /\ NoStoreBefore(t)'
         /\ ~(Committing /\ Op(HeadNext) = "STORE")
<1>1. RobMoves /\ \A s \in RobTag : SlotAfter(s)
  BY WorksParts
<1>2. Flying(t) /\ RobAge(t) \in Nat /\ RobAge(t) >= 1
  BY <1>1 DEF Stays, RobMoves
<1>3. ~(Committing /\ Op(HeadNext) = "STORE")
  BY <1>1, <1>2 DEF NoStoreBefore, RobMoves
<1>4. ASSUME NEW s \in RobTag, Flying(s)', Op(s)' = "STORE"
      PROVE  RobAge(t)' < RobAge(s)'
  <2>1. Stays(s) \/ Enters(s)
    BY <1>1, <1>4 DEF RobMoves
  <2>2. RobAge(t) < RobAge(s)
    <3>1. CASE Stays(s)
      <4>1. Flying(s) /\ Op(s) = "STORE"
        BY <3>1, <1>1, <1>4 DEF SlotAfter, Stays
      <4> QED BY <4>1 DEF NoStoreBefore
    <3>2. CASE Enters(s)
      BY <3>2, <1>1, <1>2 DEF RobMoves
    <3> QED BY <2>1, <3>1, <3>2
  <2>3. /\ RobAge(t)' = IF Committing THEN RobAge(t) - 1 ELSE RobAge(t)
        /\ RobAge(s)' = IF Committing THEN RobAge(s) - 1 ELSE RobAge(s)
        /\ RobAge(s) \in Nat
    BY <2>1, <1>1, <1>2 DEF RobMoves, Stays
  <2> QED BY <2>2, <2>3, <1>2, SMT
<1> QED BY <1>3, <1>4 DEF NoStoreBefore

\* A load that leaves the queue leaves no store behind that is older.
LEMMA NoStoreAtHead ==
  ASSUME NEW mc, ValueWorks(mc), NEW t \in RobTag, Issuing, InLsb(t, LsbHead), ~First.store
  PROVE  NoStoreBefore(t)
<1>1. Worked /\ Owned /\ Alone /\ QueueMoves /\ StoresNotReady
  BY WorksParts DEF Scheduled
<1>2. ASSUME NEW s \in RobTag, Flying(s), Op(s) = "STORE"
      PROVE  RobAge(t) < RobAge(s)
  <2>1. Unfinished(s)
    BY <1>1, <1>2 DEF StoresNotReady, Unfinished
  <2>2. PICK i \in LsbIndex : InLsb(s, i)
    BY <2>1, <1>1, <1>2 DEF Worked, Owned, OwnedInRs, OwnedInAlu, OwnedByLoad, OwnedByResult,
                            OfRs, OfLoad
  <2>3. OfLoad(t)
    BY <1>1 DEF Owned, OwnedInLsb, First, QueueMoves
  <2>4. s # t
    BY <2>3, <1>2 DEF OfLoad
  <2>5. i # LsbHead
    BY <2>2, <2>4 DEF InLsb
  <2>6. Place(LsbHead) = 1 /\ LsbHead \in LsbIndex /\ Place(i) \in Nat /\ Place(i) >= 1 /\ Place(i) # 1
    BY <2>2, <2>5, <1>1, Zenon DEF QueueMoves, InLsb, Live
  <2>7. Place(LsbHead) < Place(i)
    BY <2>6
  <2> QED BY <2>2, <2>6, <2>7, <1>1 DEF Alone, InOrder
<1> QED BY <1>2 DEF NoStoreBefore

\* The load under way is the one the buffer keeps, with its address.
LEMMA LoadingWorks ==
  ASSUME NEW serves, WorkCycle(serves)
  PROVE  LoadingRight'
<1>1. ValueWorks(mem_out) /\ ValuesInv /\ IssueRight /\ UNCHANGED program
      /\ CpuInv /\ Cycle(FALSE, serves)
  BY WorkFacts, CycleParts DEF WorkCycle
<1>2. LsbTells(mem_out) /\ LsbSays(mem_out) /\ LsbWhy /\ QueueMoves /\ QueueWorks(mem_out) /\ Owned /\ Alone
      /\ RobWorks /\ RobMoves
  BY <1>1, WorksParts
<1>3. ASSUME NEW t \in RobTag, Loading(t)'
      PROVE  /\ lsb_current_op' = InstOf(t)'.op
             /\ NoStoreBefore(t)'
             /\ \E a \in Word : Has(t, InstOf(t).rs1, a)' /\ lsb_current_address' = Add(a, InstOf(t).imm)'
  <2>1. /\ \/ Loading(t) /\ lsb_current_address' = lsb_current_address
           \/ /\ Issuing /\ InLsb(t, LsbHead) /\ ~First.store
              /\ lsb_current_address' = LoadStoreBuffer!Address(First)
        /\ OfLoad(t)
    BY <1>2, <1>3, LoadingBefore
  <2>2. Stays(t)
    <3>1. RobAge(t) = 1 => ~Committing
      BY <2>1, <1>2, StaysUnfinished
    <3> QED BY <3>1, <2>1, <1>2 DEF Stays, OfLoad, Unfinished, RobMoves
  <2>3. Remaining(t) /\ InstOf(t)' = InstOf(t) /\ Flying(t)
    BY <2>2, <1>1, InstAfter DEF Remaining, Stays
  <2>4. PICK i \in Instruction : i = InstOf(t) /\ i.rs1 \in RegIndex /\ i.imm \in Word
    BY <1>1, InvTypes, InstTypes
  <2>5. SUFFICES /\ lsb_current_op' = i.op /\ NoStoreBefore(t)
                 /\ \E a \in Word : Has(t, i.rs1, a) /\ lsb_current_address' = Add(a, i.imm)
    <3>1. SUFFICES ASSUME lsb_current_op' = i.op, NoStoreBefore(t),
                          NEW a \in Word, Has(t, i.rs1, a), lsb_current_address' = Add(a, i.imm)
                   PROVE  /\ lsb_current_op' = InstOf(t)'.op
                          /\ NoStoreBefore(t)'
                          /\ Has(t, InstOf(t).rs1, a)' /\ lsb_current_address' = Add(a, InstOf(t).imm)'
      BY Zenon
    <3>2. NoStoreBefore(t)'
      BY <3>1, <2>2, <1>1, NoStoreStays
    <3>3. Has(t, i.rs1, a)'
      BY <3>1, <2>3, <2>4, <1>1, HasAfter
    <3> QED BY <3>1, <3>2, <3>3, <2>3, <2>4
  <2>6. CASE Loading(t) /\ lsb_current_address' = lsb_current_address
    <3>1. lsb_current_op = i.op /\ NoStoreBefore(t)
          /\ \E a \in Word : Has(t, i.rs1, a) /\ lsb_current_address = Add(a, i.imm)
      BY <2>4, <2>6, <1>1, Zenon DEF ValuesInv, LoadingRight
    <3>2. lsb_current_op' = lsb_current_op
      <4>1. lsb_status = "LOAD" /\ lsb_status' = "LOAD"
        BY <2>6, <1>3 DEF Loading
      <4>2. ~Finishing(mem_out) /\ ~Issuing /\ ~Noticing
        BY <4>1, <1>2, Zenon DEF LsbTells, Ends
      <4> QED BY <4>2, <1>2, Zenon DEF LsbSays
    <3> QED BY <3>1, <3>2, <2>6
  <2>7. CASE /\ Issuing /\ InLsb(t, LsbHead) /\ ~First.store
             /\ lsb_current_address' = LoadStoreBuffer!Address(First)
    <3>1. NoStoreBefore(t)
      BY <2>7, <1>1, NoStoreAtHead
    <3>2. LsbHead \in LsbIndex
      BY <1>2 DEF QueueMoves
    <3>3. First.op = i.op /\ First.imm = i.imm /\ OperandOk(t, i.rs1, First.Qj, First.Vj)
      BY <2>3, <2>4, <2>7, <3>2, <1>1, Zenon DEF ValuesInv, LsbRight, First
    <3>4. First.Qj = NULL_TAG
      BY <2>7, <1>2, Zenon DEF LsbWhy
    <3>5. Has(t, i.rs1, First.Vj)
      BY <3>3, <3>4 DEF OperandOk
    <3>6. First.Vj \in Word
      BY <3>2, <1>1, InvTypes DEF First, LsbType, LsbEntry
    <3>7. lsb_current_address' = Add(First.Vj, i.imm)
      BY <2>7, <3>3, LsbNames DEF LoadStoreBuffer!Address
    <3>8. lsb_current_op' = i.op
      BY <2>7, <3>3, <1>2, Zenon DEF LsbSays
    <3> QED BY <3>1, <3>5, <3>6, <3>7, <3>8
  <2> QED BY <2>1, <2>6, <2>7
<1> QED BY <1>3 DEF LoadingRight

\* The load that goes to the memory, or was released, goes there alone.
LEMMA AloneWorks ==
  ASSUME NEW serves, WorkCycle(serves)
  PROVE  LoadAlone'
<1>1. ValueWorks(mem_out) /\ ValuesInv /\ NoticedIdle /\ CpuInv /\ Cycle(FALSE, serves)
      /\ LoadAlone /\ LoadingRight
  BY WorkFacts DEF WorkCycle, ValuesInv
<1>2. LsbTells(mem_out) /\ LsbWhy /\ QueueMoves /\ QueueWorks(mem_out) /\ Owned /\ Alone /\ Tags
      /\ RobWorks /\ RobMoves /\ Works(mem_out) /\ RobTells /\ CommittedFirst /\ Released /\ CommitPending
  BY <1>1, WorksParts DEF Scheduled
<1>3. LsbType /\ \A i \in LsbIndex : QueueSlotAfter(i, Finishing(mem_out) /\ lsb_status = "LOAD")
  BY <1>1, <1>2, InvTypes DEF QueueWorks
<1>4. lsb_cnt' \in Nat /\ Due' = IF rob_out'.commit_lsb THEN lsb_cnt' + 1 ELSE lsb_cnt'
  <2>1. lsb_cnt' \in Nat
    BY <1>2 DEF QueueMoves
  <2>2. PICK n \in Nat : n = lsb_cnt'
    BY <2>1
  <2>3. Due' = n + (IF rob_out'.commit_lsb THEN 1 ELSE 0)
    BY <2>2, Zenon DEF Due, Flag
  <2>4. n + 0 = n
    OBVIOUS
  <2> QED BY <2>2, <2>3, <2>4
<1>5. rob_out'.commit_lsb => \E i \in LsbIndex : PulseFor(i)
  BY <1>2, <1>3, NextPulse
<1>6. ASSUME NEW t \in RobTag, OfLoad(t), RobAge(t) = 1 PROVE ~Committing
  BY <1>2, <1>6, StaysUnfinished
<1>7. ASSUME lsb_status' = "LOAD" PROVE Due' = 0
  <2>1. CASE Issuing
    <3>1. ~First.store
      BY <2>1, <1>2, <1>7 DEF LsbTells, Asks
    <3>2. Queued(LsbHead) /\ LsbHead \in LsbIndex
      BY <2>1, <1>2 DEF QueueMoves
    <3>3. CASE LoadStoreBuffer!IoLoad(First)
      <4>1. First.commit_flag
        BY <2>1, <3>3, <1>2, Zenon DEF LsbWhy
      <4>2. Due = 1
        BY <3>1, <3>2, <4>1, <1>1 DEF LoadAlone, First
      <4>3. Running
        BY <2>1, <3>3, Zenon DEF Running, LoadStoreBuffer!NeedsCommit, LoadStoreBuffer!IoLoad
      <4>4. lsb_cnt' = 0
        BY <4>2, <4>3, <1>2 DEF QueueMoves
      <4>5. PICK t \in RobTag : t = First.rob_tag
        BY <3>2, <1>2 DEF Tags, First
      <4>6. RobAge(t) = 1 /\ OfLoad(t)
        BY <3>1, <3>2, <4>1, <4>5, <1>2 DEF Released, First, Owned, OwnedInLsb, InLsb, Live
      <4>7. ~Committing
        BY <4>6, <1>6
      <4>8. ~rob_out'.commit_lsb
        BY <4>7, <2>1, <1>5 DEF PulseFor
      <4> QED BY <4>4, <4>8, <1>4
    <3>4. CASE ~LoadStoreBuffer!IoLoad(First)
      <4>1. ~Running
        BY <3>1, <3>4, Zenon DEF Running, LoadStoreBuffer!NeedsCommit, LoadStoreBuffer!IoLoad
      <4>2. lsb_cnt' = 0
        BY <2>1, <4>1, <1>2 DEF QueueMoves
      <4>3. ~rob_out'.commit_lsb
        BY <2>1, <4>1, <1>5 DEF PulseFor
      <4> QED BY <4>2, <4>3, <1>4
    <3> QED BY <3>3, <3>4
  <2>2. CASE ~Issuing
    <3>1. lsb_status = "LOAD" /\ ~Noticing /\ ~Finishing(mem_out) /\ Remains
      BY <2>2, <1>1, <1>2, <1>7 DEF LsbTells, Ends, Remains, Reports
    <3>2. Due = 0 /\ ~Running
      BY <3>1, <2>2, <1>1, <1>2 DEF LoadAlone, QueueMoves
    <3>3. lsb_cnt' = 0
      BY <3>2, <1>2 DEF QueueMoves
    <3>4. ~rob_out'.commit_lsb
      <4>1. CASE Committing
        <5>1. PICK t \in RobTag : t = lsb_current_tag
          BY <3>1, <1>2 DEF Tags
        <5>2. Loading(t)
          BY <3>1, <5>1 DEF Loading
        <5>3. Stays(t) /\ NoStoreBefore(t)
          BY <5>2, <1>1, LoadingStays DEF LoadingRight
        <5>4. ~(Committing /\ Op(HeadNext) = "STORE")
          BY <5>3, <1>1, NoStoreStays
        <5> QED BY <4>1, <5>4, <1>2 DEF RobTells, RobMoves
      <4>2. CASE ~Committing
        <5>1. ~lsb_noticed'
          BY <3>1, <1>1 DEF NoticedIdle, Remains
        <5> QED BY <5>1, <4>2, <1>5 DEF PulseFor
      <4> QED BY <4>1, <4>2
    <3> QED BY <3>3, <3>4, <1>4
  <2> QED BY <2>1, <2>2
<1>8. ASSUME NEW i \in LsbIndex, Queued(i)', lsb_entry'[i].commit_flag, ~lsb_entry'[i].store PROVE Due' = 1
  <2>1. QueueStays(i) /\ Queued(i) /\ ~lsb_entry[i].store /\ (lsb_entry[i].commit_flag \/ Hit(i))
    BY <1>2, <1>3, <1>8 DEF QueueMoves, QueueSlotAfter
  <2>2. PICK t \in RobTag : t = lsb_entry[i].rob_tag
    BY <2>1, <1>2 DEF Tags
  <2>3. OfLoad(t)
    BY <2>1, <2>2, <1>2 DEF Owned, OwnedInLsb, InLsb, Live
  <2>4. Due = 1 /\ Place(i) = 1 /\ RobAge(t) = 1
    <3>1. CASE lsb_entry[i].commit_flag
      <4>1. Due = 1 /\ RobAge(t) = 1
        BY <2>1, <2>2, <3>1, <1>1, <1>2 DEF LoadAlone, Released
      <4>2. Place(i) <= lsb_cnt /\ Place(i) >= 1 /\ Place(i) \in Nat
        BY <2>1, <3>1, <1>2 DEF CommittedFirst, QueueMoves
      <4>3. lsb_cnt <= Due /\ lsb_cnt \in Nat
        BY <1>2 DEF QueueMoves
      <4> QED BY <4>1, <4>2, <4>3
    <3>2. CASE Hit(i)
      <4>1. rob_out.commit_lsb /\ Place(i) = lsb_cnt + 1
        BY <3>2 DEF Hit
      <4>2. lsb_cnt = 0 /\ RobAge(t) = 1
        BY <4>1, <2>1, <2>2, <1>2, Zenon DEF CommitPending, PendingStore
      <4> QED BY <4>1, <4>2, <1>2 DEF QueueMoves
    <3> QED BY <2>1, <3>1, <3>2
  <2>5. ~Committing
    BY <2>3, <2>4, <1>6
  <2>6. ~Issuing /\ ~Running
    BY <2>1, <2>4, <1>2 DEF QueueStays, QueueMoves
  <2>7. lsb_cnt' = 1
    BY <2>4, <2>6, <1>2 DEF QueueMoves
  <2>8. ~rob_out'.commit_lsb
    BY <2>4, <2>5, <1>5 DEF PulseFor
  <2> QED BY <2>7, <2>8, <1>4
<1>9. Due' = 0 \/ ~(lsb_status' = "LOAD")
  BY <1>7
<1>10. \A i \in LsbIndex : Queued(i)' /\ lsb_entry'[i].commit_flag /\ ~lsb_entry'[i].store => Due' = 1
  BY <1>8
<1> QED BY <1>9, <1>10, Zenon DEF LoadAlone

\* The memory the programmer sees is a function, at all times.
MemFunction == ArchMem = [x \in DOMAIN ArchMem |-> ArchMem[x]]

\* It is built as one.
LEMMA MemFunctionHolds == MemFunction
<1>1. PICK m : m = HandedOver
  OBVIOUS
<1>2. ArchMem = AfterStores(m)
  BY <1>1, Zenon DEF ArchMem
<1>3. PICK f : f = AfterStores(m)
  OBVIOUS
<1> DEFINE Seen(x) == IF \E i \in CommittedStores : Stores(i, x)
                        THEN StoredByte(CHOOSE i \in CommittedStores : YoungestStore(i, x), x)
                        ELSE m[x]
<1>4. f = [x \in DOMAIN m |-> Seen(x)]
  BY <1>3, Zenon DEF AfterStores
<1> HIDE DEF Seen
<1>5. f = [x \in DOMAIN f |-> f[x]]
  BY <1>4
<1> QED BY <1>2, <1>3, <1>5, Zenon DEF MemFunction

\* A cycle that commits no store leaves the memory the programmer sees as it is.
LEMMA MemKept ==
  ASSUME LsbType, LsbType', StoresFollow({})
  PROVE  ArchMem' = ArchMem
<1>1. /\ DOMAIN ArchMem' = DOMAIN ArchMem
      /\ \A x \in DOMAIN ArchMem : ArchMem'[x] = ArchMem[x]
  <2>1. /\ DOMAIN ArchMem' = DOMAIN ArchMem
        /\ \A x \in DOMAIN ArchMem : (\A n \in {} : ~Stores(n, x)') => ArchMem'[x] = ArchMem[x]
    BY MemAfter
  <2> QED BY <2>1
<1>2. MemFunction /\ MemFunction'
  BY MemFunctionHolds, PTL
<1>3. PICK f, g : f = ArchMem /\ g = ArchMem'
  OBVIOUS
<1>4. f = [x \in DOMAIN f |-> f[x]] /\ g = [x \in DOMAIN g |-> g[x]]
  BY <1>2, <1>3, Zenon DEF MemFunction
<1>5. DOMAIN f = DOMAIN g /\ \A x \in DOMAIN f : g[x] = f[x]
  BY <1>1, <1>3, Zenon
<1>6. f = g
  BY <1>4, <1>5
<1> QED BY <1>3, <1>6

\* So in a cycle of work.
LEMMA MemKeptWork ==
  ASSUME NEW serves, WorkCycle(serves), ~(Committing /\ Op(HeadNext) = "STORE")
  PROVE  ArchMem' = ArchMem
<1>1. ValueWorks(mem_out) /\ StoresFollow(NewStores)
  BY WorkFacts
<1>2. NewStores = {}
  BY <1>1, NoNewStore
<1>3. LsbType /\ LsbType'
  BY InvTypes, Zenon DEF WorkCycle, CpuInv, CoreInv, CoreType
<1> QED BY <1>1, <1>2, <1>3, MemKept

\* What a load got stays what it would get, until it commits.
LEMMA LoadsStay ==
  ASSUME NEW serves, WorkCycle(serves), NEW t \in RobTag, Stays(t), NEW v, Loads(t, v)
  PROVE  Loads(t, v)'
<1>1. ValueWorks(mem_out) /\ IssueRight /\ UNCHANGED program
      /\ CpuInv /\ Cycle(FALSE, serves)
  BY WorkFacts, CycleParts DEF WorkCycle
<1>2. RobMoves /\ RobTells
  BY <1>1, WorksParts
<1>3. Remaining(t) /\ InstOf(t)' = InstOf(t) /\ Flying(t)
  BY <1>1, InstAfter DEF Remaining, Stays
<1>4. PICK i \in Instruction : i = InstOf(t) /\ i.rs1 \in RegIndex
  BY <1>1, InvTypes, InstTypes
<1>5. NoStoreBefore(t)
  BY DEF Loads
<1>6. PICK a \in Word : /\ Has(t, i.rs1, a)
                        /\ v = LoadResult(i.op, LoadWord(i.op, Add(a, i.imm)))
                        /\ IsIo(Add(a, i.imm)) => RobAge(t) = 1 /\ InputKept
  BY <1>4 DEF Loads
<1>7. NoStoreBefore(t)' /\ ~(Committing /\ Op(HeadNext) = "STORE")
  BY <1>1, <1>5, NoStoreStays
<1>8. Has(t, i.rs1, a)'
  BY <1>1, <1>3, <1>4, <1>6, HasAfter
<1>9. ArchMem' = ArchMem
  BY <1>7, MemKeptWork
<1>10. IsIo(Add(a, i.imm)) => ~Committing /\ RobAge(t)' = 1
  BY <1>2, <1>3, <1>6 DEF RobMoves, Stays
<1>11. IsIo(Add(a, i.imm)) => ArchReads' = ArchReads /\ InputKept'
  <2>1. input_taken' = (mem_io_reads' # mem_io_reads \/ (input_taken /\ ~rob_out'.commit))
    BY <1>1, CycleParts
  <2>2. ~Committing => ArchReads' = ArchReads
    BY ReadsAfter DEF InputCommits
  <2> QED BY <2>1, <2>2, <1>2, <1>6, <1>10, Zenon DEF InputKept, RobTells
<1>12. LoadWord(i.op, Add(a, i.imm))' = LoadWord(i.op, Add(a, i.imm))
  BY <1>9, <1>11, Zenon DEF LoadWord
<1>13. v = LoadResult(i.op, LoadWord(i.op, Add(a, i.imm))')
  BY <1>6, <1>12
<1>14. /\ Has(t, InstOf(t).rs1, a)'
       /\ v = LoadResult(InstOf(t)'.op, LoadWord(InstOf(t).op, Add(a, InstOf(t).imm))')
       /\ IsIo(Add(a, InstOf(t).imm)') => RobAge(t)' = 1 /\ InputKept'
  BY <1>3, <1>4, <1>8, <1>10, <1>11, <1>13
<1> QED BY <1>7, <1>14 DEF Loads

\* What the memory answers is what the programmer sees there.
LEMMA AnswerWorks ==
  ASSUME NEW serves, WorkCycle(serves)
  PROVE  AnswerRight'
<1>1. ValueWorks(mem_out) /\ MemoryWords /\ AskedRight /\ Agreed
      /\ CpuInv /\ Cycle(FALSE, serves) /\ LoadAlone /\ LoadingRight
  BY WorkFacts DEF WorkCycle, ValuesInv
<1>2. SUFFICES ASSUME lsb_status' = "LOAD", mem_out'.lsb_ready
               PROVE  /\ mem_out'.lsb_data = LoadWord(lsb_current_op, lsb_current_address)'
                      /\ IsIo(lsb_current_address') => InputKept'
  BY DEF AnswerRight
<1>3. mem_lsb_request.pending
  BY <1>1, <1>2 DEF MemoryWords
<1>4. lsb_status # "IDLE" /\ ~mem_out.lsb_ready /\ ~lsb_out.mc_request
      /\ (mem_lsb_request.store <=> lsb_status = "STORE")
  BY <1>1, <1>3, Zenon DEF Agreed, AccessAgreed, Single, Nowhere
<1>5. Remains /\ lsb_current_op' = lsb_current_op
  BY <1>1, <1>4, Waiting
<1>6. lsb_status = "LOAD" /\ lsb_current_address' = lsb_current_address /\ ~mem_lsb_request.store
  BY <1>2, <1>4, <1>5 DEF Remains
<1>7. mem_lsb_request.address = lsb_current_address /\ mem_lsb_request.goal = Goal(lsb_current_op)
  BY <1>1, <1>3, <1>6 DEF AskedRight
<1>8. /\ mem_ram' = mem_ram
      /\ mem_out'.lsb_data = IF IsIo(lsb_current_address) THEN mem_io_reads
                             ELSE ReadBytes(mem_ram, lsb_current_address, Goal(lsb_current_op))
  BY <1>1, <1>2, <1>6, <1>7, Zenon DEF MemoryWords
<1>9. PICK t \in RobTag : Loading(t)
  BY <1>1, <1>6, WorksParts DEF Tags, Loading
<1>10. Stays(t) /\ NoStoreBefore(t)
  BY <1>1, <1>9, LoadingStays DEF LoadingRight
<1>11. ArchMem' = ArchMem
  BY <1>1, <1>10, NoStoreStays, MemKeptWork
<1>12. CASE IsIo(lsb_current_address)
  <2>1. Reading
    BY <1>2, <1>3, <1>6, <1>7, <1>12 DEF Reading
  <2>2. ~input_taken /\ ~Committing
    BY <2>1, ReadingLoad
  <2>3. ArchReads' = ArchReads
    BY <2>2, ReadsAfter DEF InputCommits
  <2>4. PICK n \in 0 .. IO_PERIOD - 1 : n = mem_io_reads
    BY <1>1, InvTypes DEF MemType
  <2>5. ArchReads = n
    <3>1. n - 0 = n /\ n % IO_PERIOD = n
      BY <2>4, PeriodBack, InputWord, SMT
    <3> QED BY <2>2, <2>4, <3>1 DEF ArchReads, Flag
  <2>6. mem_out'.lsb_data = LoadWord(lsb_current_op, lsb_current_address)'
    BY <2>3, <2>4, <2>5, <1>5, <1>6, <1>8, <1>12, Zenon DEF LoadWord
  <2>7. InputKept'
    <3>1. input_taken' = (mem_io_reads' # mem_io_reads \/ (input_taken /\ ~rob_out'.commit))
      BY <1>1, CycleParts
    <3>2. mem_io_reads' = (n + 1) % IO_PERIOD
      BY <2>1, <2>4, <1>1 DEF MemoryWords
    <3>3. (n + 1) % IO_PERIOD = n => IO_PERIOD = 1
      BY <2>4, PeriodBack
    <3> QED BY <3>1, <3>2, <3>3, <2>4 DEF InputKept
  <2> QED BY <2>6, <2>7
<1>13. CASE ~IsIo(lsb_current_address)
  <2>1. CommittedStores = {}
    <3>1. Due = 0
      BY <1>1, <1>6 DEF LoadAlone
    <3>2. LsbType /\ CommittedFirst /\ rob_out.commit_lsb \in BOOLEAN
      BY <1>1, InvTypes, WorksParts DEF RobType, RobOutput
    <3>3. \A i : i \in CommittedStores => Queued(i) /\ Place(i) <= 0
      BY <3>1, <3>2, CommittedSlots
    <3>4. \A i : Queued(i) => 1 <= Place(i) /\ Place(i) \in Nat
      BY <3>2, LsbWires DEF Queued
    <3>5. \A i : i \notin CommittedStores
      BY <3>3, <3>4
    <3> QED BY <3>5
  <2>2. HandedOver = mem_ram
    BY <1>4, <1>6, Zenon DEF HandedOver, Leaving, Taken
  <2>3. ArchMem = mem_ram
    <3>1. ArchMem = [x \in DOMAIN mem_ram |-> mem_ram[x]]
      BY <2>1, <2>2, Zenon DEF ArchMem, AfterStores
    <3>2. mem_ram = [x \in Word |-> mem_ram[x]]
      BY <1>1, InvTypes, Zenon DEF MemType
    <3>3. DOMAIN mem_ram = Word
      BY <1>1, InvTypes, Zenon DEF MemType
    <3> QED BY <3>1, <3>2, <3>3
  <2> QED BY <2>3, <1>5, <1>6, <1>8, <1>11, <1>13, Zenon DEF LoadWord
<1> QED BY <1>12, <1>13

\* What a load broadcast, or the reorder buffer keeps of it, is right after the cycle.
LEMMA LoadedWorks ==
  ASSUME NEW serves, WorkCycle(serves)
  PROVE  LoadedRight'
<1>1. ValueWorks(mem_out) /\ UNCHANGED program /\ CpuInv /\ Cycle(FALSE, serves)
      /\ LoadingRight /\ AnswerRight /\ LoadedRight
  BY WorkFacts, CycleParts DEF WorkCycle, ValuesInv
<1>2. LsbTells(mem_out) /\ LsbSays(mem_out) /\ QueueWorks(mem_out) /\ Owned /\ Alone
      /\ RobWorks /\ RobMoves /\ \A t \in RobTag : SlotAfter(t) /\ RobHolds(t)
  BY <1>1, WorksParts
<1>3. ASSUME NEW t \in RobTag, Loaded(t)' PROVE Loads(t, lsb_out.result)'
  <2>1. Loading(t) /\ lsb_status' = "IDLE"
    BY <1>2, <1>3, LoadingBefore
  <2>2. lsb_status = "LOAD"
    BY <2>1 DEF Loading
  <2>3. Finishing(mem_out)
    BY <2>1, <2>2, <1>2 DEF LsbTells, Remains
  <2>4. lsb_out'.result = LoadResult(lsb_current_op, mem_out.lsb_data)
    BY <2>2, <2>3, <1>2 DEF LsbSays
  <2>5. mem_out.lsb_ready
    BY <2>3 DEF Finishing, LoadStoreBuffer!Finishes
  <2>6. /\ mem_out.lsb_data = LoadWord(lsb_current_op, lsb_current_address)
        /\ IsIo(lsb_current_address) => InputKept
    BY <2>2, <2>5, <1>1 DEF AnswerRight
  <2>7. Stays(t) /\ OfLoad(t)
    BY <2>1, <1>1, LoadingStays
  <2>8. PICK i \in Instruction : i = InstOf(t)
    BY <1>1, InvTypes, InstTypes
  <2>9. PICK a \in Word : Has(t, i.rs1, a) /\ lsb_current_address = Add(a, i.imm)
                          /\ lsb_current_op = i.op /\ NoStoreBefore(t)
    BY <2>1, <2>8, <1>1, Zenon DEF LoadingRight
  <2>10. IsIo(lsb_current_address) => RobAge(t) = 1
    BY <2>1, <1>1, WorksParts, Zenon DEF Scheduled, Released
  <2>11. PICK v : v = LoadResult(lsb_current_op, mem_out.lsb_data)
    OBVIOUS
  <2>12. Loads(t, v)
    BY <2>6, <2>8, <2>9, <2>10, <2>11, Zenon DEF Loads
  <2>13. Loads(t, v)'
    BY <2>7, <2>12, LoadsStay
  <2> QED BY <2>4, <2>11, <2>13 DEF Loads
<1>4. ASSUME NEW t \in RobTag, Flying(t)', rob_entry'[t].ready, Op(t)' = "LOAD" PROVE Loads(t, rob_entry[t].data)'
  <2>1. Stays(t) /\ (rob_entry[t].ready \/ InAlu(t) \/ Loaded(t)) /\ Op(t) = "LOAD" /\ Flying(t)
    BY <1>2, <1>4 DEF RobMoves, SlotAfter, Stays
  <2>2. ~InAlu(t)
    BY <2>1, <1>2 DEF Owned, OwnedInAlu, OfRs
  <2>3. PICK v : v = rob_entry'[t].data
    OBVIOUS
  <2>4. Loads(t, v)
    <3>1. CASE Loaded(t)
      BY <3>1, <2>1, <2>3, <1>1, <1>2 DEF RobHolds, LoadedRight
    <3>2. CASE ~Loaded(t)
      BY <3>2, <2>1, <2>2, <2>3, <1>1, <1>2 DEF RobHolds, LoadedRight
    <3> QED BY <3>1, <3>2
  <2>5. Loads(t, v)'
    BY <2>1, <2>4, LoadsStay
  <2> QED BY <2>3, <2>5 DEF Loads
<1> QED BY <1>3, <1>4 DEF LoadedRight

\* The values are right after a cycle of work.
LEMMA ValuesWork ==
  ASSUME NEW serves, WorkCycle(serves), Calm'
  PROVE  ValuesInv'
<1>1. ValueWorks(mem_out) /\ IssueRight /\ UNCHANGED program /\ CommittedPc(FALSE)
      /\ CpuInv /\ Cycle(FALSE, serves)
      /\ Chained /\ Held /\ RsRight /\ AluRight /\ DoneRight /\ LsbRight
  BY WorkFacts, CycleParts DEF WorkCycle, ValuesInv
<1>2. RobType /\ FetcherType /\ RsType /\ program \in [Word -> Instruction] /\ CoreInv
  BY <1>1, InvTypes
<1>3. Held' /\ RsRight' /\ AluRight' /\ DoneRight' /\ LsbRight'
  BY <1>1, <1>2, HeldStep, RsRightStep, AluRightStep, DoneRightStep, LsbRightStep
<1>4. ~rob_out.rollback
  BY <1>1, WorksParts DEF Signals, WorkCycle, Calm
<1>5. ReorderBuffer!Operate(Decoded, Broadcast, lsb_out)
  <2>1. ReorderBuffer!Clock(FALSE, Decoded, Broadcast, lsb_out) /\ Calm
    BY <1>1, CycleParts DEF WorkCycle
  <2> QED BY <2>1 DEF ReorderBuffer!Clock, Calm
<1>6. Fetcher!Operate(AnyFull, rob_out, mem_out)
  <2>1. Fetcher!Clock(FALSE, AnyFull, rob_out, mem_out)
    BY <1>1, CycleParts
  <2> QED BY <2>1, <1>4 DEF Fetcher!Clock
<1>7. TailMoves
  <2>1. Decoded.issue => ~ReorderBuffer!full_out
    BY <1>2, Room DEF CoreInv, IssueInv
  <2> QED BY <2>1, <1>2, <1>5, TailMovesHolds
<1>8. Chained'
  <2>1. ~rob_need_to_rollback'
    BY DEF Calm
  <2> QED BY <2>1, <1>1, <1>6, <1>7, ChainedStep
<1>9. LoadAlone' /\ LoadingRight' /\ AnswerRight' /\ LoadedRight'
  BY AloneWorks, LoadingWorks, AnswerWorks, LoadedWorks
<1> QED BY <1>3, <1>8, <1>9 DEF ValuesInv

\* So is what is fetched, in any cycle.
LEMMA FetchWorks ==
  ASSUME NEW serves, CpuInv, Plain, Inv, Cycle(FALSE, serves)
  PROVE  CacheRight' /\ FetchRight' /\ IssueRight'
<1>1. /\ Memory!Clock(FALSE, rob_out, fet_out, lsb_out, serves, program)
      /\ Fetcher!Clock(FALSE, AnyFull, rob_out, mem_out) /\ UNCHANGED program
  BY CycleParts
<1>2. CacheRight /\ FetchRight /\ IssueRight
  BY DEF Inv
<1>3. fet_pc % INST_BYTES = 0
  BY DEF Plain
<1> QED BY <1>1, <1>2, <1>3, FetchRightStep

\* A cycle of work keeps the invariant.
LEMMA InvWork ==
  ASSUME NEW serves, WorkCycle(serves)
  PROVE  Inv'
<1>1. CpuInv /\ Plain /\ Inv /\ Cycle(FALSE, serves)
  BY DEF WorkCycle
<1>2. CacheRight' /\ FetchRight' /\ IssueRight'
  BY <1>1, FetchWorks
<1>3. NoticedIdle'
  BY <1>1, CycleParts, NoticedIdleStep DEF Inv
<1>4. RestartRight' /\ TakenRight' /\ AskedRight'
  BY RestartWorks, TakenWorks, AskedWorks
<1>5. Calm' => ValuesInv'
  BY ValuesWork
<1> QED BY <1>2, <1>3, <1>4, <1>5 DEF Inv

(***************************************************************************)
(* Every commit is a step of the sequential machine, and no other cycle of *)
(* work shows.                                                             *)
(***************************************************************************)
\* The registers the programmer sees are a function, at all times.
RegFunction == ArchReg = [r \in RegIndex |-> ArchReg[r]]

\* They are built as one.
LEMMA RegFunctionHolds == RegFunction
<1>1. PICK f : f = ArchReg
  OBVIOUS
<1> DEFINE Seen(r) == IF rob_out.commit /\ rob_out.commit_rf /\ rob_out.target = r /\ rf_busy[r]
                      THEN rob_out.data ELSE rf_value[r]
<1>2. f = [r \in RegIndex |-> Seen(r)]
  BY <1>1, Zenon DEF ArchReg
<1> HIDE DEF Seen
<1>3. f = [r \in RegIndex |-> f[r]]
  BY <1>2
<1> QED BY <1>1, <1>3, Zenon DEF RegFunction

\* They are equal when they hold the same.
LEMMA RegsEqual ==
  ASSUME NEW g, g = [r \in RegIndex |-> g[r]], \A r \in RegIndex : ArchReg'[r] = g[r]
  PROVE  ArchReg' = g
<1>1. RegFunction'
  BY RegFunctionHolds, PTL
<1>2. PICK f : f = ArchReg'
  OBVIOUS
<1>3. f = [r \in RegIndex |-> f[r]]
  BY <1>1, <1>2, Zenon DEF RegFunction
<1>4. \A r \in RegIndex : f[r] = g[r]
  BY <1>2
<1>5. f = g
  BY <1>3, <1>4
<1> QED BY <1>2, <1>5

\* A memory that is a function of the same addresses is equal when it holds the same.
LEMMA MemsEqual ==
  ASSUME NEW g, g = [x \in DOMAIN g |-> g[x]], DOMAIN ArchMem' = DOMAIN g,
         \A x \in DOMAIN g : ArchMem'[x] = g[x]
  PROVE  ArchMem' = g
<1>1. MemFunction'
  BY MemFunctionHolds, PTL
<1>2. PICK f : f = ArchMem'
  OBVIOUS
<1>3. f = [x \in DOMAIN f |-> f[x]]
  BY <1>1, <1>2, Zenon DEF MemFunction
<1>4. DOMAIN f = DOMAIN g /\ \A x \in DOMAIN g : f[x] = g[x]
  BY <1>2, Zenon
<1>5. f = g
  BY <1>3, <1>4
<1> QED BY <1>2, <1>5

\* The programmer's view of the machine.
View == <<program, committed_pc, ArchReg, ArchMem, ArchReads, ArchWrites>>

\* A cycle of work without a commit does not show.
LEMMA QuietWork ==
  ASSUME NEW serves, WorkCycle(serves), ~Committing
  PROVE  UNCHANGED View
<1>1. ValueWorks(mem_out) /\ UNCHANGED program /\ CommittedPc(FALSE) /\ CpuInv
      /\ MemoryWords /\ Hands /\ StoresFollow(NewStores) /\ Cycle(FALSE, serves)
  BY WorkFacts, CycleParts DEF WorkCycle
<1>2. ~rob_out'.commit
  BY <1>1, WorksParts DEF RobTells
<1>3. committed_pc' = committed_pc
  BY <1>1, <1>2 DEF CommittedPc
<1>4. ArchReg' = ArchReg
  <2>1. \A r \in RegIndex : ArchReg'[r] = ArchReg[r]
    BY <1>1, ArchRegAfter DEF WritesNow
  <2>2. RegFunction
    BY RegFunctionHolds
  <2>3. PICK g : g = ArchReg
    OBVIOUS
  <2>4. g = [r \in RegIndex |-> g[r]] /\ \A r \in RegIndex : ArchReg'[r] = g[r]
    BY <2>1, <2>2, <2>3, Zenon DEF RegFunction
  <2> QED BY <2>3, <2>4, RegsEqual
<1>5. ArchMem' = ArchMem
  BY MemKeptWork
<1>6. ArchReads' = ArchReads
  BY ReadsAfter DEF InputCommits
<1>7. ArchWrites' = ArchWrites
  <2>1. NewStores = {}
    BY <1>1, NoNewStore
  <2>2. MemType /\ MemType'
    BY <1>1, InvTypes, Zenon DEF WorkCycle, CpuInv
  <2>3. StoresFollow({})
    BY <1>1, <2>1
  <2>4. (\A n \in {} : ~IsIo(LoadStoreBuffer!Address(lsb_entry[n])')) => ArchWrites' = ArchWrites
    BY <1>1, <2>2, <2>3, WritesAfter
  <2> QED BY <2>4
<1> QED BY <1>1, <1>3, <1>4, <1>5, <1>6, <1>7 DEF View

\* The instruction that commits, i, is the one where the committed instructions lead.
Commits(i, x, y) ==
  /\ i \in Instruction /\ x \in Word /\ y \in Word
  /\ i = InstOf(HeadNext) /\ i = program[committed_pc]
  /\ x = ArchReg[i.rs1] /\ y = ArchReg[i.rs2]
  /\ Op(HeadNext) = Opcode(i.op) /\ rob_entry[HeadNext].dest = i.rd /\ rob_entry[HeadNext].pc = committed_pc
  /\ Guessed(i, committed_pc, rob_entry[HeadNext].predict_pc)
  /\ Agreeing(i, y)

\* Every commit is that of such an instruction.
LEMMA CommitsOne ==
  ASSUME NEW serves, WorkCycle(serves), Committing
  PROVE  \E i, x, y : Commits(i, x, y)
<1>1. ValueWorks(mem_out) /\ CpuInv /\ Chained /\ Held /\ Plain
  BY WorkFacts DEF WorkCycle, ValuesInv
<1>2. RobMoves
  BY <1>1, WorksParts
<1>3. PICK h \in RobTag : h = HeadNext
  BY <1>2 DEF RobMoves
<1>4. Flying(h) /\ RobAge(h) = 1
  BY <1>2, <1>3 DEF RobMoves
<1>5. rob_entry[h].pc = committed_pc
  BY <1>1, <1>4 DEF Chained
<1>6. PICK i \in Instruction : i = InstOf(h) /\ i.rs1 \in RegIndex /\ i.rs2 \in RegIndex
  BY <1>1, <1>3, InvTypes, InstTypes
<1>7. Op(h) = Opcode(i.op) /\ rob_entry[h].dest = i.rd /\ Guessed(i, committed_pc, rob_entry[h].predict_pc)
  BY <1>1, <1>4, <1>5, <1>6, Zenon DEF Held
<1>8. i = program[committed_pc]
  BY <1>5, <1>6, Zenon DEF InstOf
<1>9. PICK x, y : x = ArchReg[i.rs1] /\ y = ArchReg[i.rs2]
  OBVIOUS
<1>10. x \in Word /\ y \in Word
  BY <1>1, <1>6, <1>9, InvTypes, Zenon DEF ArchReg, RfType, RobType, RobOutput
<1>11. Agreeing(i, y)
  BY <1>1, <1>8, <1>9, Zenon DEF Plain, Agreeing
<1> QED BY <1>3, <1>5, <1>6, <1>7, <1>8, <1>9, <1>10, <1>11, Zenon DEF Commits

\* What the opcode of the reorder buffer tells of the instruction.
LEMMA Kinds ==
  \A op \in InnerInst :
    /\ Opcode(op) = "BRANCH" <=> op \in BranchOps
    /\ Opcode(op) = "LOAD" <=> op \in LoadOps
    /\ Opcode(op) = "STORE" <=> op \in StoreOps
    /\ Opcode(op) = "JALR" <=> op = "JALR"
    /\ op # "END"
BY DEF InnerInst, Opcode, BranchOps, LoadOps, StoreOps, ArithImmOps, ArithOps

\* What an instruction that is not an access computed is what the sequential machine does.
LEMMA DoneComputes ==
  ASSUME NEW serves, WorkCycle(serves), Committing, NEW i, NEW x, NEW y, Commits(i, x, y),
         i.op \notin LoadOps \cup StoreOps
  PROVE  /\ i.op \notin BranchOps =>
              rob_entry[HeadNext].data
                = Sequential!ExecuteVal(i.op, x, y, i.imm, Add(committed_pc, INST_BYTES))
         /\ committed_pc' = Sequential!ExecutePc(i.op, x, y, i.imm, Add(committed_pc, INST_BYTES))
<1>1. ValueWorks(mem_out) /\ CpuInv /\ DoneRight /\ CommittedPc(FALSE) /\ Cycle(FALSE, serves)
  BY WorkFacts, CycleParts DEF WorkCycle, ValuesInv
<1>2. RobMoves /\ RobTells
  BY <1>1, WorksParts
<1>3. PICK h \in RobTag : h = HeadNext
  BY <1>2 DEF RobMoves
<1>4. Flying(h) /\ RobAge(h) = 1
  BY <1>2, <1>3 DEF RobMoves
<1>5. i.op \in InnerInst
  BY DEF Commits, Instruction
<1>6. Op(h) \notin {"LOAD", "STORE"} /\ (Op(h) \in {"JALR", "BRANCH"} <=> i.op \in BranchOps \cup {"JALR"})
  BY <1>3, <1>5, Kinds DEF Commits
<1>7. rob_entry[h].ready
  BY <1>2, <1>3, <1>6 DEF RobTells
<1>8. PICK a, b \in Word :
        /\ Decoder!HaveRs1(i) => Has(h, i.rs1, a)
        /\ Decoder!HaveRs2(i) => Has(h, i.rs2, b)
        /\ rob_entry[h].data = Alu!AluResult(i.op, a, b, Decoder!Immediate(i), committed_pc)
        /\ rob_entry[h].new_pc = Alu!AluNewPc(i.op, a, b, Decoder!Immediate(i), committed_pc)
  <2>1. i = InstOf(h) /\ Imm(h) = Decoder!Immediate(i) /\ rob_entry[h].pc = committed_pc
    BY <1>3 DEF Commits, Imm
  <2> QED BY <2>1, <1>1, <1>4, <1>6, <1>7, Zenon DEF DoneRight
<1>9. \A r, v : Has(h, r, v) => v = ArchReg[r]
  BY <1>1, <1>4, HeadHas
<1>10. PICK m : m = Decoder!Immediate(i)
  OBVIOUS
<1>11. Presented(i, a, b, m, x, y)
  BY <1>8, <1>9, <1>10 DEF Presented, Commits
<1>12. i \in Instruction /\ x \in Word /\ y \in Word /\ Agreeing(i, y)
  BY DEF Commits
<1>13. PICK p \in Int : p = committed_pc
  BY <1>1, InvTypes, WordAssumption DEF Word
<1>14. i.op \notin BranchOps =>
         rob_entry[h].data = Sequential!ExecuteVal(i.op, x, y, i.imm, Add(p, INST_BYTES))
  <2>1. SUFFICES ASSUME i.op \notin BranchOps \cup LoadOps \cup StoreOps
                 PROVE  Alu!AluResult(i.op, a, b, m, p)
                          = Sequential!ExecuteVal(i.op, x, y, i.imm, Add(p, INST_BYTES))
    BY <1>8, <1>10, <1>13
  <2> QED BY <2>1, <1>11, <1>12, ComputesValue
<1>15. /\ i.op \in BranchOps \cup {"JALR"}
            => rob_entry[h].new_pc = Sequential!ExecutePc(i.op, x, y, i.imm, Add(p, INST_BYTES))
       /\ i.op \notin BranchOps \cup {"JALR"}
            => Sequential!ExecutePc(i.op, x, y, i.imm, Add(p, INST_BYTES))
                 = IF i.op = "JAL" THEN Add(p, i.imm) ELSE Add(p, INST_BYTES)
  <2>1. rob_entry[h].new_pc = Alu!AluNewPc(i.op, a, b, m, p)
    BY <1>8, <1>10, <1>13
  <2> QED BY <2>1, <1>11, <1>12, ComputesPc
<1>16. committed_pc' = IF i.op \in BranchOps \cup {"JALR"} THEN rob_entry[h].new_pc
                       ELSE rob_entry[h].predict_pc
  BY <1>1, <1>2, <1>3, <1>6 DEF CommittedPc, RobTells, Oldest, Op, HeadNext
<1>17. i.op \notin BranchOps \cup {"JALR"} =>
         rob_entry[h].predict_pc = IF i.op = "JAL" THEN Add(p, i.imm) ELSE Add(p, INST_BYTES)
  BY <1>3, <1>13, Zenon DEF Commits, Guessed
<1> QED BY <1>3, <1>13, <1>14, <1>15, <1>16, <1>17

\* A commit that writes a register writes what was computed.
LEMMA CommitWrites ==
  ASSUME NEW serves, WorkCycle(serves), Committing, NEW i, NEW x, NEW y, Commits(i, x, y)
  PROVE  /\ i.op \notin BranchOps \cup StoreOps => ArchReg' = Sequential!Written(i.rd, rob_entry[HeadNext].data)
         /\ i.op \in BranchOps \cup StoreOps => ArchReg' = ArchReg
<1>1. ValueWorks(mem_out)
  BY WorkFacts
<1>2. PICK g, d : g = ArchReg /\ d = rob_entry[HeadNext].data
  OBVIOUS
<1>3. g = [r \in RegIndex |-> g[r]]
  BY <1>2, RegFunctionHolds, Zenon DEF RegFunction
<1>4. i.op \in InnerInst /\ i.rd \in RegIndex
  BY DEF Commits, Instruction
<1>5. Op(HeadNext) \in {"BRANCH", "STORE"} <=> i.op \in BranchOps \cup StoreOps
  BY <1>4, Kinds DEF Commits
<1>6. \A r \in RegIndex : ArchReg'[r] = IF i.op \notin BranchOps \cup StoreOps /\ i.rd = r /\ r # 0
                                        THEN d ELSE g[r]
  BY <1>1, <1>2, <1>5, ArchRegAfter, Zenon DEF WritesNow, Commits
<1>7. CASE i.op \notin BranchOps \cup StoreOps /\ i.rd # 0
  <2>1. PICK f : f = [g EXCEPT ![i.rd] = d]
    OBVIOUS
  <2>2. f = [r \in RegIndex |-> f[r]] /\ \A r \in RegIndex : f[r] = IF r = i.rd THEN d ELSE g[r]
    BY <2>1, <1>3, <1>4
  <2>3. \A r \in RegIndex : ArchReg'[r] = f[r]
    BY <1>6, <1>7, <2>2
  <2>4. ArchReg' = f
    BY <2>2, <2>3, RegsEqual
  <2> QED BY <2>1, <2>4, <1>2, <1>7, Zenon DEF Sequential!Written
<1>8. CASE i.op \in BranchOps \cup StoreOps \/ i.rd = 0
  <2>1. \A r \in RegIndex : ArchReg'[r] = g[r]
    BY <1>6, <1>8
  <2>2. ArchReg' = g
    BY <2>1, <1>3, RegsEqual
  <2> QED BY <2>2, <1>2, <1>8, Zenon DEF Sequential!Written
<1> QED BY <1>7, <1>8

\* After an access the next instruction follows.
LEMMA AccessGoesOn ==
  ASSUME NEW serves, WorkCycle(serves), Committing, NEW i, NEW x, NEW y, Commits(i, x, y),
         i.op \in LoadOps \cup StoreOps
  PROVE  committed_pc' = Sequential!ExecutePc(i.op, x, y, i.imm, Add(committed_pc, INST_BYTES))
<1>1. ValueWorks(mem_out) /\ CpuInv /\ CommittedPc(FALSE) /\ Cycle(FALSE, serves)
  BY WorkFacts, CycleParts DEF WorkCycle
<1>2. RobTells
  BY <1>1, WorksParts
<1>3. i \in Instruction /\ i.op \in InnerInst /\ x \in Word /\ y \in Word /\ Agreeing(i, y)
  BY DEF Commits, Instruction
<1>4. i.op \notin BranchOps \cup {"JALR", "JAL"}
  BY DEF LoadOps, StoreOps, BranchOps
<1>5. committed_pc' = rob_entry[HeadNext].predict_pc
  <2>1. Op(HeadNext) \notin {"JALR", "BRANCH"}
    BY <1>3, <1>4, Kinds DEF Commits
  <2> QED BY <2>1, <1>1, <1>2 DEF CommittedPc, RobTells, Oldest, Op, HeadNext
<1>6. rob_entry[HeadNext].predict_pc = Add(committed_pc, INST_BYTES)
  BY <1>4 DEF Commits, Guessed
<1>7. PICK p \in Int : p = committed_pc
  BY <1>1, InvTypes, WordAssumption DEF Word
<1>8. PICK m : m = Decoder!Immediate(i)
  OBVIOUS
<1>9. Presented(i, x, y, m, x, y)
  BY <1>8 DEF Presented
<1>10. Sequential!ExecutePc(i.op, x, y, i.imm, Add(p, INST_BYTES)) = Add(p, INST_BYTES)
  BY <1>3, <1>4, <1>9, ComputesPc
<1> QED BY <1>5, <1>6, <1>7, <1>10

\* What a commit that is not of a store leaves alone.
LEMMA CommitKeeps ==
  ASSUME NEW serves, WorkCycle(serves), Op(HeadNext) # "STORE"
  PROVE  ArchMem' = ArchMem /\ ArchWrites' = ArchWrites
<1>1. ValueWorks(mem_out) /\ CpuInv /\ MemoryWords /\ Hands /\ StoresFollow(NewStores)
  BY WorkFacts DEF WorkCycle
<1>2. NewStores = {}
  BY <1>1, NoNewStore
<1>3. MemType /\ MemType'
  BY <1>1, InvTypes, Zenon DEF WorkCycle, CpuInv
<1>4. StoresFollow({})
  BY <1>1, <1>2
<1>5. (\A n \in {} : ~IsIo(LoadStoreBuffer!Address(lsb_entry[n])')) => ArchWrites' = ArchWrites
  BY <1>1, <1>3, <1>4, WritesAfter
<1>6. ArchMem' = ArchMem
  BY MemKeptWork
<1> QED BY <1>5, <1>6

\* The operands and the address, as the sequential machine names them.
LEMMA SequentialOperands ==
  ASSUME NEW i, NEW x, NEW y, Commits(i, x, y)
  PROVE  /\ Sequential!inst = i /\ Sequential!rs1val = x /\ Sequential!rs2val = y
         /\ Sequential!next_pc = Add(committed_pc, INST_BYTES)
         /\ Sequential!address = Add(x, i.imm)
<1>1. Sequential!inst = i
  BY Zenon DEF Commits, Sequential!inst
<1>2. Sequential!rs1val = x /\ Sequential!rs2val = y
  BY <1>1, Zenon DEF Commits, Sequential!rs1val, Sequential!rs2val
<1>3. Sequential!next_pc = Add(committed_pc, INST_BYTES)
  BY SequentialNames, Zenon DEF Sequential!next_pc
<1>4. Sequential!address = Add(x, i.imm)
  BY <1>1, <1>2, SequentialNames, Zenon DEF Sequential!address
<1> QED BY <1>1, <1>2, <1>3, <1>4

\* The commit of an instruction that computes, or branches.
LEMMA ComputeStep ==
  ASSUME NEW serves, WorkCycle(serves), Committing, NEW i, NEW x, NEW y, Commits(i, x, y),
         i.op \notin LoadOps \cup StoreOps
  PROVE  Sequential!Register \/ Sequential!Branch
<1>1. i.op \in InnerInst /\ i.op # "NOP"
  BY DEF Commits, Instruction, Agreeing
<1>2. Op(HeadNext) # "STORE" /\ Op(HeadNext) # "LOAD"
  BY <1>1, Kinds DEF Commits
<1>3. ArchMem' = ArchMem /\ ArchWrites' = ArchWrites
  BY <1>2, CommitKeeps
<1>4. ArchReads' = ArchReads
  BY <1>2, ReadsAfter DEF InputCommits
<1>5. /\ Sequential!inst = i /\ Sequential!rs1val = x /\ Sequential!rs2val = y
      /\ Sequential!next_pc = Add(committed_pc, INST_BYTES)
  BY SequentialOperands
<1>6. CASE i.op \in BranchOps
  <2>1. ArchReg' = ArchReg
    BY <1>6, CommitWrites
  <2>2. Sequential!inst.op \in Sequential!BranchOps
    BY <1>5, <1>6, SequentialNames, Zenon
  <2>3. UNCHANGED <<ArchReg, ArchMem, ArchReads, ArchWrites>>
    BY <1>3, <1>4, <2>1
  <2> QED BY <2>2, <2>3, Zenon DEF Sequential!Branch
<1>7. CASE i.op \notin BranchOps
  <2>1. ArchReg' = Sequential!Written(i.rd, rob_entry[HeadNext].data)
    BY <1>7, CommitWrites
  <2>2. rob_entry[HeadNext].data = Sequential!ExecuteVal(i.op, x, y, i.imm, Add(committed_pc, INST_BYTES))
    BY <1>7, DoneComputes
  <2>3. i.op \notin BranchOps \cup LoadOps \cup StoreOps \cup {"NOP"}
    BY <1>1, <1>7
  <2>4. Sequential!inst.op \notin Sequential!BranchOps \cup Sequential!LoadOps \cup Sequential!StoreOps \cup {"NOP"}
    BY <2>3, <1>5, SequentialNames, Zenon
  <2>5. ArchReg' = Sequential!Written(Sequential!inst.rd,
                     Sequential!ExecuteVal(Sequential!inst.op, Sequential!rs1val, Sequential!rs2val,
                                           Sequential!inst.imm, Sequential!next_pc))
    BY <2>1, <2>2, <1>5, Zenon
  <2>6. UNCHANGED <<ArchMem, ArchReads, ArchWrites>>
    BY <1>3, <1>4
  <2> QED BY <2>4, <2>5, <2>6, Zenon DEF Sequential!Register
<1> QED BY <1>6, <1>7

\* The commit of a load.
LEMMA LoadStep ==
  ASSUME NEW serves, WorkCycle(serves), Committing, NEW i, NEW x, NEW y, Commits(i, x, y),
         i.op \in LoadOps
  PROVE  Sequential!Load
<1>1. ValueWorks(mem_out) /\ LoadedRight /\ CpuInv
  BY WorkFacts DEF ValuesInv, WorkCycle
<1>2. RobMoves /\ RobTells
  BY <1>1, WorksParts
<1>3. PICK h \in RobTag : h = HeadNext
  BY <1>2 DEF RobMoves
<1>4. i.op \in InnerInst /\ i.op \notin BranchOps \cup StoreOps
  BY DEF Commits, Instruction, LoadOps, BranchOps, StoreOps
<1>5. Op(h) = "LOAD" /\ Flying(h) /\ RobAge(h) = 1
  BY <1>2, <1>3, <1>4, Kinds DEF Commits, RobMoves
<1>6. rob_entry[h].ready
  BY <1>2, <1>3, <1>5 DEF RobTells
<1>7. Loads(h, rob_entry[h].data)
  BY <1>1, <1>5, <1>6, Zenon DEF LoadedRight
<1>8. i = InstOf(h)
  BY <1>3 DEF Commits
<1>9. PICK a \in Word : /\ Has(h, i.rs1, a)
                        /\ rob_entry[h].data = LoadResult(i.op, LoadWord(i.op, Add(a, i.imm)))
  BY <1>7, <1>8, Zenon DEF Loads
<1>10. a = x
  BY <1>1, <1>5, <1>9, HeadHas DEF Commits
<1>11. rob_entry[h].data = LoadResult(i.op, IF IsIo(Add(x, i.imm)) THEN ArchReads
                                            ELSE ReadBytes(ArchMem, Add(x, i.imm), Goal(i.op)))
  BY <1>9, <1>10, Zenon DEF LoadWord
<1>12. ArchReg' = Sequential!Written(i.rd, rob_entry[h].data)
  BY <1>3, <1>4, CommitWrites
<1>13. ArchMem' = ArchMem /\ ArchWrites' = ArchWrites
  BY <1>3, <1>5, CommitKeeps
<1>14. InputCommits <=> IsIo(Add(x, i.imm))
  BY <1>3, <1>5 DEF InputCommits, Commits
<1>15. PICK r : r = ArchReads
  OBVIOUS
<1>16. r \in Nat /\ (r + 0) % IO_PERIOD = r
  <2>1. PICK n \in 0 .. IO_PERIOD - 1 : n = mem_io_reads
    BY <1>1, InvTypes DEF MemType
  <2>2. n - 0 \in Int /\ n - 1 \in Int
    BY <2>1, InputWord, SMT
  <2>3. r \in 0 .. IO_PERIOD - 1
    <3>1. r = (n - 0) % IO_PERIOD \/ r = (n - 1) % IO_PERIOD
      BY <1>15, <2>1, Zenon DEF ArchReads, Flag
    <3> QED BY <3>1, <2>2, InputWord
  <2>4. r + 0 = r /\ r \in Nat
    BY <2>3, InputWord, SMT
  <2> QED BY <2>3, <2>4, PeriodBack
<1>17. ArchReads' = (ArchReads + Flag(IsIo(Add(x, i.imm)))) % IO_PERIOD
  BY <1>14, <1>15, <1>16, ReadsAfter DEF Flag
<1>18. Sequential!inst = i /\ Sequential!address = Add(x, i.imm)
  BY SequentialOperands
<1>19. ArchReg' = Sequential!Written(Sequential!inst.rd,
         Sequential!LoadResult(Sequential!inst.op,
           IF Sequential!IsIo(Sequential!address) THEN ArchReads
           ELSE Sequential!ReadBytes(ArchMem, Sequential!address, Sequential!Goal(Sequential!inst.op))))
  BY <1>11, <1>12, <1>18, SequentialMemory, Zenon
<1>20. ArchReads' = (ArchReads + Sequential!Flag(Sequential!IsIo(Sequential!address))) % IO_PERIOD
  BY <1>17, <1>18, SequentialMemory, SequentialNames, Zenon
<1>21. Sequential!inst.op \in Sequential!LoadOps
  BY <1>18, SequentialNames, Zenon
<1>22. UNCHANGED <<ArchMem, ArchWrites>>
  BY <1>13
<1> QED BY <1>19, <1>20, <1>21, <1>22, Zenon DEF Sequential!Load

\* The commit of a store.
LEMMA StoreStep ==
  ASSUME NEW serves, WorkCycle(serves), Committing, NEW i, NEW x, NEW y, Commits(i, x, y),
         i.op \in StoreOps
  PROVE  Sequential!Store
<1>1. ValueWorks(mem_out) /\ CpuInv /\ MemoryWords /\ Hands /\ StoresFollow(NewStores) /\ LsbRight
  BY WorkFacts DEF WorkCycle, ValuesInv
<1>2. i.op \in InnerInst
  BY DEF Commits, Instruction
<1>3. Op(HeadNext) = "STORE" /\ i = InstOf(HeadNext) /\ x = ArchReg[i.rs1] /\ y = ArchReg[i.rs2]
  BY <1>2, Kinds DEF Commits
<1>4. LsbType /\ LsbType' /\ RobType /\ program \in [Word -> Instruction] /\ MemType /\ MemType'
  BY <1>1, InvTypes, Zenon DEF WorkCycle, CpuInv, CoreInv, CoreType
<1>5. PICK n \in LsbIndex : /\ NewStores = {n}
                            /\ lsb_entry'[n].op = i.op
                            /\ LoadStoreBuffer!Address(lsb_entry[n])' = Add(x, i.imm)
                            /\ lsb_entry'[n].Vk = y
  BY <1>1, <1>3, <1>4, CommitStores
<1>6. StoresFollow({n})
  BY <1>1, <1>5
<1>7. PICK A, N : A = Add(x, i.imm) /\ N = Goal(i.op)
  OBVIOUS
<1>8. ArchMem' = WriteBytes(ArchMem, A, N, y)
  <2>1. /\ DOMAIN ArchMem' = DOMAIN ArchMem
        /\ \A z \in DOMAIN ArchMem :
              /\ \A k \in {n} : Stores(k, z)' => ArchMem'[z] = StoredByte(k, z)'
              /\ (\A k \in {n} : ~Stores(k, z)') => ArchMem'[z] = ArchMem[z]
    BY <1>4, <1>6, MemAfter
  <2>2. \A z : Stores(n, z)' <=> Sub(z, A) < N
    BY <1>5, <1>7, Zenon DEF Stores
  <2>3. \A z : StoredByte(n, z)' = ByteOf(y, Sub(z, A))
    BY <1>5, <1>7, Zenon DEF StoredByte
  <2>4. PICK m : m = ArchMem
    OBVIOUS
  <2>5. PICK g : g = WriteBytes(m, A, N, y)
    OBVIOUS
  <2> DEFINE Byte1(z) == ByteOf(y, Sub(z, A))
             Hits(z)  == Sub(z, A) < N
             New(z)   == IF Hits(z) THEN Byte1(z) ELSE m[z]
  <2>6. g = [z \in DOMAIN m |-> New(z)]
    BY <2>5, Zenon DEF WriteBytes
  <2>7. \A z \in DOMAIN m : ArchMem'[z] = New(z)
    BY <2>1, <2>2, <2>3, <2>4, Zenon
  <2> HIDE DEF New
  <2>8. g = [z \in DOMAIN g |-> g[z]] /\ DOMAIN g = DOMAIN m /\ \A z \in DOMAIN g : g[z] = New(z)
    BY <2>6
  <2>9. DOMAIN ArchMem' = DOMAIN g /\ \A z \in DOMAIN g : ArchMem'[z] = g[z]
    BY <2>1, <2>4, <2>7, <2>8, Zenon
  <2>10. ArchMem' = g
    BY <2>8, <2>9, MemsEqual
  <2> QED BY <2>4, <2>5, <2>10
<1>9. ArchWrites' = (ArchWrites + Flag(IsIo(A))) % IO_PERIOD
  <2>1. /\ (\A k \in {n} : ~IsIo(LoadStoreBuffer!Address(lsb_entry[k])')) => ArchWrites' = ArchWrites
        /\ \A k \in {n} : IsIo(LoadStoreBuffer!Address(lsb_entry[k])') => ArchWrites' = (ArchWrites + 1) % IO_PERIOD
    BY <1>1, <1>4, <1>6, WritesAfter
  <2>2. PICK w : w = ArchWrites
    OBVIOUS
  <2>3. (w + 0) % IO_PERIOD = w
    <3>1. OutputsOut \in Int /\ QueuedOutputs \in Int
      <4>1. mem_io_writes \in Int
        BY <1>4, InputWord DEF MemType
      <4>2. QueuedOutputs = Cardinality(OutputStores)
        BY Zenon DEF QueuedOutputs, OutputStores
      <4> QED BY <4>1, <4>2, OutputsFinite DEF OutputsOut, Flag
    <3>2. w = (OutputsOut + QueuedOutputs) % IO_PERIOD
      BY <2>2 DEF ArchWrites, OutputsOut
    <3>3. w \in 0 .. IO_PERIOD - 1
      BY <3>1, <3>2, InputWord
    <3>4. w + 0 = w
      BY <3>3, InputWord, SMT
    <3> QED BY <3>3, <3>4, PeriodBack
  <2> QED BY <2>1, <2>2, <2>3, <1>5, <1>7 DEF Flag
<1>10. ArchReg' = ArchReg
  BY CommitWrites
<1>11. ArchReads' = ArchReads
  BY <1>3, ReadsAfter DEF InputCommits
<1>12. Sequential!inst = i /\ Sequential!rs2val = y /\ Sequential!address = A
  BY <1>7, SequentialOperands
<1>13. ArchMem' = Sequential!WriteBytes(ArchMem, Sequential!address, Sequential!Goal(Sequential!inst.op),
                                        Sequential!rs2val)
  BY <1>7, <1>8, <1>12, SequentialMemory, Zenon
<1>14. ArchWrites' = (ArchWrites + Sequential!Flag(Sequential!IsIo(Sequential!address))) % IO_PERIOD
  BY <1>9, <1>12, SequentialMemory, SequentialNames, Zenon
<1>15. Sequential!inst.op \in Sequential!StoreOps
  BY <1>12, SequentialNames, Zenon
<1>16. UNCHANGED <<ArchReg, ArchReads>>
  BY <1>10, <1>11
<1> QED BY <1>13, <1>14, <1>15, <1>16, Zenon DEF Sequential!Store

\* Every commit is a step of the sequential machine.
LEMMA CommitStep ==
  ASSUME NEW serves, WorkCycle(serves), Committing
  PROVE  Sequential!Step
<1>1. PICK i, x, y : Commits(i, x, y)
  BY CommitsOne
<1>2. UNCHANGED program
  BY CycleParts DEF WorkCycle
<1>3. i.op \in InnerInst
  BY <1>1 DEF Commits, Instruction
<1>4. i.op # "END"
  BY <1>3, Kinds
<1>5. Sequential!Register \/ Sequential!Branch \/ Sequential!Load \/ Sequential!Store
  BY <1>1, ComputeStep, LoadStep, StoreStep
<1>6. committed_pc' = Sequential!ExecutePc(i.op, x, y, i.imm, Add(committed_pc, INST_BYTES))
  BY <1>1, DoneComputes, AccessGoesOn
<1>7. /\ Sequential!inst = i /\ Sequential!rs1val = x /\ Sequential!rs2val = y
      /\ Sequential!next_pc = Add(committed_pc, INST_BYTES)
  BY <1>1, SequentialOperands
<1>8. Sequential!inst.op # "END"
      /\ committed_pc' = Sequential!ExecutePc(Sequential!inst.op, Sequential!rs1val, Sequential!rs2val,
                                              Sequential!inst.imm, Sequential!next_pc)
  BY <1>4, <1>6, <1>7, Zenon
<1> QED BY <1>2, <1>5, <1>8, Zenon DEF Sequential!Step

(***************************************************************************)
(* The cycle of a rollback, and the one before it.                         *)
(***************************************************************************)
\* Neither does anything the programmer sees.
LEMMA AbortQuiet ==
  ASSUME NEW serves, CpuInv, CpuInv', Inv, rob_need_to_rollback, Cycle(FALSE, serves)
  PROVE  UNCHANGED View /\ ~input_taken' /\ ~rob_out'.commit
<1>1. /\ Memory!Clock(FALSE, rob_out, fet_out, lsb_out, serves, program)
      /\ CoreCycle(FALSE, mem_out) /\ CommittedPc(FALSE) /\ UNCHANGED program
      /\ input_taken' = (mem_io_reads' # mem_io_reads \/ (input_taken /\ ~rob_out'.commit))
  BY CycleParts
<1>2. CoreInv /\ MemType /\ mem_out \in MemoryOutput /\ LsbType /\ Agreed
  BY InvTypes
<1>3. CoreInv' /\ MemType' /\ LsbType'
  BY Zenon DEF CpuInv, CoreInv, CoreType
<1>4. MemoryWords
  BY <1>1, MemoryWordsHold
<1>5. /\ QueueWorks(mem_out) /\ LsbSays(mem_out) /\ ReorderBuffer!Rollback
      /\ \A r \in RegIndex : rf_value'[r] = ArchReg[r]
  BY <1>1, <1>2, AbortWorks
<1>6. ~rob_out'.commit
  BY <1>5, AbortPulses
<1>7. committed_pc' = committed_pc
  BY <1>1, <1>6 DEF CommittedPc
<1>8. ArchReg' = ArchReg
  <2>1. \A r \in RegIndex : ArchReg'[r] = ArchReg[r]
    BY <1>5, <1>6 DEF ArchReg
  <2>2. RegFunction
    BY RegFunctionHolds
  <2>3. PICK g : g = ArchReg
    OBVIOUS
  <2>4. g = [r \in RegIndex |-> g[r]] /\ \A r \in RegIndex : ArchReg'[r] = g[r]
    BY <2>1, <2>2, <2>3, Zenon DEF RegFunction
  <2> QED BY <2>3, <2>4, RegsEqual
<1>9. StoresFollow({})
  BY <1>1, <1>2, <1>3, <1>4, AbortFollows
<1>10. ArchMem' = ArchMem
  BY <1>2, <1>3, <1>9, MemKept
<1>11. Hands
  BY <1>5, HandsWork DEF QueueWorks
<1>12. ArchWrites' = ArchWrites
  <2>1. (\A n \in {} : ~IsIo(LoadStoreBuffer!Address(lsb_entry[n])')) => ArchWrites' = ArchWrites
    BY <1>2, <1>3, <1>4, <1>9, <1>11, WritesAfter
  <2> QED BY <2>1
<1>13. ~Reading
  <2>1. ~rob_inner_rollback /\ Inputs
    BY <1>2, Zenon DEF CoreInv, SchedInv, Signals, NoInput
  <2>2. AskedRight
    BY <2>1, Zenon DEF Inv
  <2>3. SUFFICES ASSUME Reading PROVE FALSE
    OBVIOUS
  <2>4. mem_lsb_request.pending /\ ~mem_lsb_request.store /\ IsIo(mem_lsb_request.address)
    BY <2>3 DEF Reading
  <2>5. lsb_status # "IDLE" /\ lsb_status # "STORE"
    BY <1>2, <2>4, Zenon DEF Agreed, AccessAgreed, Single, Nowhere
  <2>6. lsb_status = "LOAD" /\ IsIo(lsb_current_address)
    BY <2>2, <2>4, <2>5, <1>2 DEF AskedRight, LsbType
  <2> QED BY <2>1, <2>6 DEF Inputs
<1>14. ~input_taken
  BY DEF Inv, TakenRight, Calm
<1>15. mem_io_reads' = mem_io_reads
  BY <1>4, <1>13 DEF MemoryWords
<1>16. ~input_taken'
  BY <1>1, <1>14, <1>15
<1>17. ArchReads' = ArchReads
  BY <1>14, <1>15, <1>16, Zenon DEF ArchReads, Flag
<1> QED BY <1>1, <1>6, <1>7, <1>8, <1>10, <1>12, <1>16, <1>17 DEF View

\* The cycle before a rollback keeps the invariant.
LEMMA InvAbort ==
  ASSUME NEW serves, CpuInv, CpuInv', Plain, Inv, rob_need_to_rollback, Cycle(FALSE, serves)
  PROVE  Inv'
<1>1. /\ CoreCycle(FALSE, mem_out) /\ CommittedPc(FALSE)
      /\ LoadStoreBuffer!Clock(FALSE, Decoded, Broadcast, rob_out, mem_out)
  BY CycleParts
<1>2. CoreInv /\ mem_out \in MemoryOutput
  BY InvTypes
<1>3. ReorderBuffer!Rollback
  BY <1>1, <1>2, AbortWorks
<1>4. /\ ~rob_out'.commit /\ rob_out'.fet_rollback_pc = rob_rollback_pc
      /\ rob_inner_rollback' /\ ~rob_need_to_rollback'
  BY <1>3, AbortPulses
<1>5. CacheRight' /\ FetchRight' /\ IssueRight'
  BY FetchWorks
<1>6. NoticedIdle'
  BY <1>1, NoticedIdleStep DEF Inv
<1>7. RestartRight'
  <2>1. rob_rollback_pc = committed_pc
    BY DEF Inv, RestartRight
  <2>2. committed_pc' = committed_pc
    BY <1>1, <1>4 DEF CommittedPc
  <2> QED BY <2>1, <2>2, <1>4 DEF RestartRight
<1>8. ~input_taken'
  BY AbortQuiet
<1>9. TakenRight'
  BY <1>8 DEF TakenRight
<1>10. ~Calm'
  BY <1>4 DEF Calm
<1> QED BY <1>4, <1>5, <1>6, <1>7, <1>9, <1>10 DEF Inv

\* The cycle of the rollback does not show.
LEMMA RollbackQuiet ==
  ASSUME NEW serves, CpuInv, CpuInv', Inv, rob_inner_rollback, Cycle(FALSE, serves)
  PROVE  UNCHANGED View /\ ~input_taken'
<1>1. /\ Memory!Clock(FALSE, rob_out, fet_out, lsb_out, serves, program)
      /\ CoreCycle(FALSE, mem_out) /\ CommittedPc(FALSE) /\ UNCHANGED program
      /\ input_taken' = (mem_io_reads' # mem_io_reads \/ (input_taken /\ ~rob_out'.commit))
  BY CycleParts
<1>2. CoreInv /\ MemType /\ mem_out \in MemoryOutput /\ LsbType
  BY InvTypes
<1>3. CoreInv' /\ MemType' /\ LsbType'
  BY Zenon DEF CpuInv, CoreInv, CoreType
<1>4. MemoryWords
  BY <1>1, MemoryWordsHold
<1>5. /\ RegisterFile!Rollback
      /\ LoadStoreBuffer!Rollback(Decoded, Broadcast, rob_out, mem_out)
      /\ AtRest'
  BY <1>1, <1>2, RollbackWorks
<1>6. ~rob_out'.commit
  BY <1>5 DEF AtRest
<1>7. committed_pc' = committed_pc
  BY <1>1, <1>6 DEF CommittedPc
<1>8. ~rob_out.commit
  BY DEF Inv, RestartRight
<1>9. ArchReg' = ArchReg
  <2>1. rf_value' = rf_value
    BY <1>5 DEF RegisterFile!Rollback
  <2>2. \A r \in RegIndex : ArchReg'[r] = ArchReg[r]
    BY <2>1, <1>6, <1>8 DEF ArchReg
  <2>3. RegFunction
    BY RegFunctionHolds
  <2>4. PICK g : g = ArchReg
    OBVIOUS
  <2>5. g = [r \in RegIndex |-> g[r]] /\ \A r \in RegIndex : ArchReg'[r] = g[r]
    BY <2>2, <2>3, <2>4, Zenon DEF RegFunction
  <2> QED BY <2>4, <2>5, RegsEqual
<1>10. StoresFollow({})
  BY <1>1, <1>2, <1>3, <1>4, RollbackFollows
<1>11. ArchMem' = ArchMem
  BY <1>2, <1>3, <1>10, MemKept
<1>12. Hands
  BY <1>5, HandsRollback
<1>13. ArchWrites' = ArchWrites
  <2>1. (\A n \in {} : ~IsIo(LoadStoreBuffer!Address(lsb_entry[n])')) => ArchWrites' = ArchWrites
    BY <1>2, <1>3, <1>4, <1>10, <1>12, WritesAfter
  <2> QED BY <2>1
<1>14. ~Reading
  <2>1. rob_out.rollback
    BY <1>2, Zenon DEF CoreInv, SchedInv, Signals
  <2> QED BY <2>1, <1>4 DEF Reading, MemoryWords
<1>15. ~input_taken
  BY DEF Inv, TakenRight, Calm
<1>16. mem_io_reads' = mem_io_reads
  BY <1>4, <1>14 DEF MemoryWords
<1>17. ~input_taken'
  BY <1>1, <1>15, <1>16
<1>18. ArchReads' = ArchReads
  BY <1>15, <1>16, <1>17, Zenon DEF ArchReads, Flag
<1> QED BY <1>1, <1>7, <1>9, <1>11, <1>13, <1>17, <1>18 DEF View

\* What is at rest holds no wrong value.
LEMMA RestValues ==
  AtRest /\ Chained => ValuesInv
<1>1. SUFFICES ASSUME AtRest, Chained PROVE ValuesInv
  OBVIOUS
<1>2. \A t \in RobTag : ~Flying(t)
  BY <1>1 DEF AtRest
<1>3. Held /\ DoneRight /\ LsbRight
  BY <1>2 DEF Held, DoneRight, LsbRight
<1>4. RsRight
  BY <1>1 DEF AtRest, RsRight, InRs
<1>5. AluRight
  BY <1>1 DEF AtRest, AluRight, InAlu
<1>6. LoadAlone /\ LoadingRight /\ AnswerRight
  BY <1>1 DEF AtRest, LoadAlone, LoadingRight, AnswerRight, Loading
<1>7. LoadedRight
  BY <1>1, <1>2 DEF AtRest, LoadedRight, Loaded
<1> QED BY <1>1, <1>3, <1>4, <1>5, <1>6, <1>7 DEF ValuesInv

\* Without an instruction under way, the fetcher is where the committed instructions lead.
LEMMA RestChained ==
  ASSUME NEW serves, CpuInv, Inv, rob_inner_rollback, Cycle(FALSE, serves)
  PROVE  Chained'
<1>1. /\ CoreCycle(FALSE, mem_out) /\ CommittedPc(FALSE)
      /\ Fetcher!Clock(FALSE, AnyFull, rob_out, mem_out)
  BY CycleParts
<1>2. CoreInv /\ mem_out \in MemoryOutput
  BY InvTypes
<1>3. ReorderBuffer!Reset /\ AtRest'
  BY <1>1, <1>2, RollbackWorks
<1>4. rob_out.rollback
  BY <1>2, Zenon DEF CoreInv, SchedInv, Signals
<1>5. rob_head' = rob_tail'
  BY <1>3 DEF ReorderBuffer!Reset
<1>6. \A t \in RobTag : ~Flying(t)'
  BY <1>3 DEF AtRest
<1>7. committed_pc' = committed_pc /\ rob_out.fet_rollback_pc = committed_pc
  BY <1>1, <1>3 DEF CommittedPc, AtRest, Inv, RestartRight
<1>8. fet_pc' = rob_out.fet_rollback_pc /\ ~fet_out'.issue
  BY <1>1, <1>4 DEF Fetcher!Clock, Fetcher!Rollback, Fetcher!Quiet
<1>9. NextPc' = committed_pc'
  BY <1>7, <1>8 DEF NextPc
<1> QED BY <1>5, <1>6, <1>9 DEF Chained

\* The rollback keeps the invariant.
LEMMA InvRollback ==
  ASSUME NEW serves, CpuInv, CpuInv', Plain, Inv, rob_inner_rollback, Cycle(FALSE, serves)
  PROVE  Inv'
<1>1. /\ CoreCycle(FALSE, mem_out)
      /\ LoadStoreBuffer!Clock(FALSE, Decoded, Broadcast, rob_out, mem_out)
  BY CycleParts
<1>2. CoreInv /\ mem_out \in MemoryOutput
  BY InvTypes
<1>3. AtRest'
  BY <1>1, <1>2, RollbackWorks
<1>4. CacheRight' /\ FetchRight' /\ IssueRight'
  BY FetchWorks
<1>5. NoticedIdle'
  BY <1>1, NoticedIdleStep DEF Inv
<1>6. RestartRight'
  BY <1>3 DEF RestartRight, AtRest
<1>7. ~input_taken'
  BY RollbackQuiet
<1>8. TakenRight'
  BY <1>7 DEF TakenRight
<1>9. AskedRight'
  <2>1. Agreed' /\ lsb_status' # "LOAD" /\ LsbType'
    BY <1>3, Zenon DEF AtRest, CpuInv, Agreed, CoreInv, CoreType
  <2>2. (lsb_out'.mc_request => lsb_out'.mc_store) /\ (mem_lsb_request'.pending => mem_lsb_request'.store)
    BY <2>1, Zenon DEF Agreed, AccessAgreed, Single, Nowhere, LsbType
  <2> QED BY <2>2 DEF AskedRight
<1>10. ValuesInv'
  BY <1>3, RestChained, RestValues, PTL
<1> QED BY <1>4, <1>5, <1>6, <1>8, <1>9, <1>10 DEF Inv

(***************************************************************************)
(* The start, and the steps of the specification.                          *)
(***************************************************************************)
\* Nothing is under way at the start.
LEMMA StartFacts ==
  ASSUME Init
  PROVE  /\ AtRest /\ LsbType
         /\ program \in Programs /\ committed_pc = 0
         /\ fet_status = "IDLE" /\ fet_pc = 0
         /\ ~fet_out.issue /\ ~fet_out.mc_request
         /\ \A k \in 0 .. ICACHE_CAPACITY - 1 : ~fet_icache[k].valid
         /\ rob_head = rob_tail /\ ~lsb_noticed /\ ~lsb_out.mc_request
         /\ \A r \in RegIndex : rf_value[r] = 0
         /\ mem_ram = [x \in Word |-> 0] /\ mem_io_reads = 0 /\ mem_io_writes = 0
         /\ ~mem_fet_request.pending /\ ~mem_lsb_request.pending
         /\ ~mem_out.fet_ready /\ ~mem_out.lsb_ready
         /\ input_taken = FALSE
         /\ \A i \in LsbIndex : ~Queued(i)
<1>1. CoreInit /\ Memory!Init /\ input_taken = FALSE
  BY DEF Init
<1>2. /\ Fetcher!Init /\ ReorderBuffer!Init /\ RegisterFile!Init /\ LoadStoreBuffer!Init
      /\ program \in Programs /\ committed_pc = 0
  BY <1>1 DEF CoreInit
<1>3. AtRest /\ LsbType
  BY <1>1, StartsAtRest, CoreInitType DEF CoreType
<1>4. ~fet_out.issue /\ ~fet_out.mc_request /\ fet_status = "IDLE" /\ fet_pc = 0
  BY <1>2, Zenon DEF Fetcher!Init, Fetcher!Quiet
<1>5. \A k \in 0 .. ICACHE_CAPACITY - 1 : ~fet_icache[k].valid
  BY <1>2, Zenon DEF Fetcher!Init, Fetcher!InvalidLine
<1>6. rob_head = rob_tail
  BY <1>2 DEF ReorderBuffer!Init
<1>7. ~lsb_noticed /\ ~lsb_out.mc_request /\ lsb_cnt = 0
  BY <1>2, Zenon DEF LoadStoreBuffer!Init, LoadStoreBuffer!Quiet
<1>8. \A r \in RegIndex : rf_value[r] = 0
  BY <1>2, RfNames DEF RegisterFile!Init
<1>9. mem_ram = [x \in Word |-> 0] /\ mem_io_reads = 0 /\ mem_io_writes = 0
  BY <1>1, MemoryNames DEF Memory!Init
<1>10. ~mem_fet_request.pending /\ ~mem_lsb_request.pending /\ ~mem_out.fet_ready /\ ~mem_out.lsb_ready
  BY <1>1, Zenon DEF Memory!Init, Memory!NoFetch, Memory!NoAccess, Memory!Quiet
<1>11. \A i \in LsbIndex : ~Queued(i)
  <2> SUFFICES ASSUME NEW i \in LsbIndex, Queued(i) PROVE FALSE
    OBVIOUS
  <2>1. Length = 0 /\ 1 <= Place(i) /\ Place(i) <= Length
    BY <1>3, <1>7 DEF AtRest, Queued
  <2>2. Place(i) \in Nat
    BY <1>3, LsbWires
  <2> QED BY <2>1, <2>2
<1> QED BY <1>1, <1>2, <1>3, <1>4, <1>5, <1>6, <1>7, <1>8, <1>9, <1>10, <1>11, Zenon

\* The machine starts in the invariant.
LEMMA InvStart ==
  ASSUME Init
  PROVE  Inv
<1>1. CacheRight /\ FetchRight /\ IssueRight
  BY StartFacts, Zenon DEF CacheRight, FetchRight, IssueRight
<1>2. RestartRight /\ NoticedIdle
  BY StartFacts DEF RestartRight, NoticedIdle, AtRest
<1>3. TakenRight /\ AskedRight
  BY StartFacts DEF TakenRight, AskedRight
<1>4. Chained
  <2>1. NextPc = committed_pc /\ rob_head = rob_tail
    BY StartFacts DEF NextPc
  <2>2. \A t \in RobTag : ~Flying(t)
    BY StartFacts DEF AtRest
  <2> QED BY <2>1, <2>2 DEF Chained
<1>5. ValuesInv
  BY <1>4, StartFacts, RestValues
<1> QED BY <1>1, <1>2, <1>3, <1>5 DEF Inv

\* And what the programmer sees of it is a start of the sequential machine.
LEMMA ViewStart ==
  ASSUME Init
  PROVE  Sequential!Init
<1>1. ArchReg = [r \in RegIndex |-> 0]
  <2>1. ~rob_out.commit /\ \A r \in RegIndex : rf_value[r] = 0
    BY StartFacts DEF AtRest
  <2> QED BY <2>1 DEF ArchReg
<1>2. CommittedStores = {}
  <2>1. \A i \in LsbIndex : ~LoadStoreBuffer!in_queue(i)
    BY StartFacts, LsbWires
  <2> QED BY <2>1 DEF CommittedStores, QueuedAccesses
<1>3. ~Taken /\ ~Leaving
  BY StartFacts DEF Taken, Leaving
<1>4. ArchMem = [x \in Word |-> 0]
  <2>1. HandedOver = [x \in Word |-> 0]
    BY <1>3, StartFacts DEF HandedOver
  <2>2. PICK m : m = HandedOver
    OBVIOUS
  <2>3. ArchMem = AfterStores(m)
    BY <2>2, Zenon DEF ArchMem
  <2>4. DOMAIN m = Word /\ \A x \in Word : m[x] = 0
    BY <2>1, <2>2
  <2>5. AfterStores(m) = [x \in DOMAIN m |-> m[x]]
    BY <1>2 DEF AfterStores
  <2> QED BY <2>3, <2>4, <2>5
<1>5. 0 % IO_PERIOD = 0
  BY InputWord, Reduced
<1>6. ArchReads = 0
  BY <1>5, StartFacts DEF ArchReads, Flag
<1>7. ArchWrites = 0
  <2>1. QueuedOutputs = 0
    <3>1. {i \in CommittedStores : IsIo(LoadStoreBuffer!Address(lsb_entry[i]))} = {}
      BY <1>2
    <3> QED BY <3>1, FS_EmptySet DEF QueuedOutputs
  <2> QED BY <1>3, <1>5, <2>1, StartFacts DEF ArchWrites, Flag
<1>8. Sequential!RegIndex = RegIndex /\ Sequential!Word = Word
  BY SequentialNames DEF Sequential!Word, Word
<1>9. program \in Programs /\ committed_pc = 0
  BY StartFacts
<1> QED BY <1>1, <1>4, <1>6, <1>7, <1>8, <1>9, Zenon DEF Sequential!Init, Sequential!Start

\* A cycle keeps the invariant, and is a step of the sequential machine or does not show.
LEMMA SequentialCycle ==
  ASSUME CpuInv, Plain, Inv, NEW serves, Cycle(FALSE, serves)
  PROVE  Inv' /\ (Sequential!Step \/ UNCHANGED View)
<1>1. CpuInv'
  BY CpuCycle
<1>2. CASE Calm
  <2>1. WorkCycle(serves)
    BY <1>1, <1>2 DEF WorkCycle
  <2> QED BY <2>1, InvWork, CommitStep, QuietWork
<1>3. CASE rob_need_to_rollback
  BY <1>1, <1>3, InvAbort, AbortQuiet
<1>4. CASE rob_inner_rollback
  BY <1>1, <1>4, InvRollback, RollbackQuiet
<1> QED BY <1>2, <1>3, <1>4 DEF Calm

\* So every step of the specification.
LEMMA SequentialNext ==
  ASSUME CpuInv, Plain, Inv, Next
  PROVE  Inv' /\ (Sequential!Step \/ UNCHANGED View)
<1>1. \E serves \in {"none", "fetch", "data"} : Cycle(FALSE, serves)
  BY DEF Next, Work, ServeFetch, ServeAccess
<1> QED BY <1>1, SequentialCycle

\* Where nothing changes, what the programmer sees does not either.
LEMMA ViewStutter ==
  ASSUME LsbType, UNCHANGED vars
  PROVE  UNCHANGED View
<1> USE DEF vars, memVars, coreVars, fetVars, robVars, rfVars, rsVars, lsbVars
<1>1. UNCHANGED <<program, committed_pc>>
  OBVIOUS
<1>2. ArchReg' = ArchReg
  <2>1. \A r \in RegIndex : ArchReg'[r] = ArchReg[r]
    BY DEF ArchReg
  <2>2. RegFunction
    BY RegFunctionHolds
  <2>3. PICK g : g = ArchReg
    OBVIOUS
  <2>4. g = [r \in RegIndex |-> g[r]] /\ \A r \in RegIndex : ArchReg'[r] = g[r]
    BY <2>1, <2>2, <2>3, Zenon DEF RegFunction
  <2> QED BY <2>3, <2>4, RegsEqual
<1>3. HandedOver' = HandedOver
  BY DEF HandedOver, Taken, Leaving
<1>4. /\ \A i : i \in CommittedStores' <=> i \in CommittedStores
      /\ \A i : LoadStoreBuffer!Address(lsb_entry[i])' = LoadStoreBuffer!Address(lsb_entry[i])
      /\ lsb_entry' = lsb_entry
      /\ \A i : Place(i)' = Place(i)
  <2>1. (\A i : i \in QueuedAccesses' <=> i \in QueuedAccesses) /\ \A i : Place(i)' = Place(i)
    BY DEF QueuedAccesses, LoadStoreBuffer!in_queue, Place
  <2>2. LoadStoreBuffer!CommitSlot' = LoadStoreBuffer!CommitSlot
    BY DEF LoadStoreBuffer!CommitSlot, LoadStoreBuffer!head_next, LoadStoreBuffer!Slot
  <2>3. \A i : LoadStoreBuffer!Address(lsb_entry[i])' = LoadStoreBuffer!Address(lsb_entry[i])
    BY DEF LoadStoreBuffer!Address
  <2> QED BY <2>1, <2>2, <2>3 DEF CommittedStores
<1>5. /\ \A i, x : Stores(i, x)' <=> Stores(i, x)
      /\ \A i, x : StoredByte(i, x)' = StoredByte(i, x)
  BY <1>4 DEF Stores, StoredByte
<1>6. MemBytes /\ MemBytes'
  <2>1. LsbType'
    BY DEF LsbType
  <2> QED BY <2>1, ByteIs, PTL
<1>7. ArchMem' = ArchMem
  <2>1. PICK m, n : m = ArchMem /\ n = ArchMem'
    OBVIOUS
  <2>2. m = [x \in DOMAIN m |-> m[x]]
    BY <2>1, MemFunctionHolds, Zenon DEF MemFunction
  <2>3. n = [x \in DOMAIN n |-> n[x]]
    <3>1. MemFunction'
      BY MemFunctionHolds, PTL
    <3> QED BY <2>1, <3>1, Zenon DEF MemFunction
  <2>4. DOMAIN m = DOMAIN n
    BY <1>3, <1>6, <2>1, Zenon DEF MemBytes
  <2>5. ASSUME NEW x \in DOMAIN m PROVE m[x] = n[x]
    <3>1. x \in DOMAIN HandedOver /\ x \in DOMAIN HandedOver'
      BY <1>3, <1>6, <2>1, <2>5, Zenon DEF MemBytes
    <3>2. CASE \A i \in CommittedStores : ~Stores(i, x)
      <4>1. m[x] = HandedOver[x]
        BY <1>6, <2>1, <3>1, <3>2, Zenon DEF MemBytes
      <4>2. \A i \in CommittedStores' : ~Stores(i, x)'
        BY <1>4, <1>5, <3>2
      <4>3. n[x] = HandedOver'[x]
        BY <1>6, <2>1, <3>1, <4>2, Zenon DEF MemBytes
      <4> QED BY <1>3, <4>1, <4>3
    <3>3. CASE \E i \in CommittedStores : Stores(i, x)
      <4>1. PICK i \in CommittedStores : Stores(i, x) /\ \A j \in CommittedStores : Stores(j, x) => Place(j) <= Place(i)
        BY <1>6, <3>1, <3>3, Zenon DEF MemBytes
      <4>2. i \in CommittedStores' /\ Stores(i, x)'
            /\ \A j \in CommittedStores' : Stores(j, x)' => Place(j)' <= Place(i)'
        BY <1>4, <1>5, <4>1
      <4>3. m[x] = StoredByte(i, x)
        BY <1>6, <2>1, <3>1, <4>1, Zenon DEF MemBytes
      <4>4. n[x] = StoredByte(i, x)'
        BY <1>6, <2>1, <3>1, <4>2, Zenon DEF MemBytes
      <4> QED BY <1>5, <4>3, <4>4
    <3> QED BY <3>2, <3>3
  <2> QED BY <2>1, <2>2, <2>3, <2>4, <2>5
<1>8. ArchReads' = ArchReads
  BY DEF ArchReads
<1>9. ArchWrites' = ArchWrites
  <2>1. OutputStores' = OutputStores
    BY <1>4 DEF OutputStores
  <2>2. QueuedOutputs' = QueuedOutputs
    BY <2>1, Zenon DEF QueuedOutputs, OutputStores
  <2> QED BY <2>2 DEF ArchWrites, Taken, Leaving
<1> QED BY <1>1, <1>2, <1>7, <1>8, <1>9 DEF View

\* Nor does the invariant.
LEMMA InvStutter ==
  ASSUME LsbType, Inv, UNCHANGED vars
  PROVE  Inv'
<1>1. UNCHANGED View
  BY ViewStutter
<1>2. PICK R : R = ArchReg /\ R = ArchReg'
  BY <1>1 DEF View
<1>3. PICK M : M = ArchMem /\ M = ArchMem'
  BY <1>1 DEF View
<1> USE DEF vars, memVars, coreVars, fetVars, robVars, rfVars, rsVars, lsbVars
<1>4. (CacheRight => CacheRight') /\ (FetchRight => FetchRight') /\ (IssueRight => IssueRight')
  BY DEF CacheRight, FetchRight, IssueRight
<1>5. (RestartRight => RestartRight') /\ (NoticedIdle => NoticedIdle') /\ (AskedRight => AskedRight')
      /\ (Calm' <=> Calm)
  BY DEF RestartRight, NoticedIdle, AskedRight, Calm
<1>6. /\ \A t : (Flying(t)' <=> Flying(t)) /\ RobAge(t)' = RobAge(t)
      /\ \A t : Op(t)' = Op(t)
      /\ \A t : (Loaded(t)' <=> Loaded(t)) /\ (Loading(t)' <=> Loading(t)) /\ (InAlu(t)' <=> InAlu(t))
      /\ \A t : Committed(t)' <=> Committed(t)
  <2>1. \A t : (Flying(t)' <=> Flying(t)) /\ RobAge(t)' = RobAge(t)
    BY DEF Flying, RobAge
  <2>2. \A t : Op(t)' = Op(t)
    BY DEF Op
  <2>3. \A t : (Loaded(t)' <=> Loaded(t)) /\ (Loading(t)' <=> Loading(t)) /\ (InAlu(t)' <=> InAlu(t))
    BY DEF Loaded, Loading, InAlu
  <2>4. \A t : Committed(t)' <=> Committed(t)
    BY DEF Committed
  <2> QED BY <2>1, <2>2, <2>3, <2>4
<1>7. \A i : Queued(i)' <=> Queued(i)
  BY DEF Queued, Place, Length
<1>8. \A t, i : (InRs(t, i)' <=> InRs(t, i)) /\ (InLsb(t, i)' <=> InLsb(t, i))
  BY <1>7 DEF InRs, InLsb, Live
<1>9. \A t, r : Writes(t, r)' <=> Writes(t, r)
  BY <1>6 DEF Writes
<1>10. \A t, r, v : Has(t, r, v)' <=> Has(t, r, v)
  BY <1>2, <1>6, <1>9 DEF Has, NoWriter, LastWriter, Gives
<1>11. \A t, r, q, v : OperandOk(t, r, q, v)' <=> OperandOk(t, r, q, v)
  BY <1>2, <1>6, <1>9, <1>10 DEF OperandOk, NoWriter, LastWriter
<1>12. Chained => Chained'
  BY <1>6 DEF Chained, NextPc
<1>13. (Held => Held') /\ (DoneRight => DoneRight')
  BY <1>6, <1>10 DEF Held, DoneRight, InstOf, Imm
<1>14. (RsRight => RsRight') /\ (AluRight => AluRight')
  BY <1>6, <1>8, <1>10, <1>11 DEF RsRight, AluRight, InstOf, Imm
<1>15. LsbRight => LsbRight'
  BY <1>6, <1>8, <1>11 DEF LsbRight, InstOf
<1>16. LoadAlone => LoadAlone'
  BY <1>7 DEF LoadAlone, Due
<1>17. \A t : NoStoreBefore(t)' <=> NoStoreBefore(t)
  BY <1>6 DEF NoStoreBefore
<1>18. LoadingRight => LoadingRight'
  BY <1>6, <1>10, <1>17 DEF LoadingRight, InstOf
<1>19. \A op, a : LoadWord(op, a)' = LoadWord(op, a)
  BY <1>1, <1>3 DEF LoadWord, View
<1>20. AnswerRight => AnswerRight'
  BY <1>19 DEF AnswerRight, InputKept
<1>21. \A t, v : Loads(t, v)' <=> Loads(t, v)
  BY <1>6, <1>10, <1>17, <1>19 DEF Loads, InputKept, InstOf
<1>22. LoadedRight => LoadedRight'
  BY <1>6, <1>21 DEF LoadedRight
<1>23. TakenRight => TakenRight'
  BY <1>5, <1>6, <1>10 DEF TakenRight, Input, InstOf
<1>24. ValuesInv => ValuesInv'
  BY <1>12, <1>13, <1>14, <1>15, <1>16, <1>18, <1>20, <1>22, Zenon DEF ValuesInv
<1> QED BY <1>4, <1>5, <1>23, <1>24, Zenon DEF Inv

(***************************************************************************)
(* The theorems.                                                           *)
(***************************************************************************)

\* Every register of the machine keeps its type: a cycle of any component, in any
\* order of issues, commits, rollbacks, answers and pauses, leaves words in the
\* fields that hold words, tags that exist, and pointers inside their buffers.
THEOREM TypesKept == PauseSpec => []TypeOK
<1>1. CpuInv => TypeOK
  <2>1. MemType => Memory!TypeOK
    BY MemoryNames DEF MemType, Memory!TypeOK, MemoryOutput
  <2> QED BY <2>1, CoreTypeIs DEF CpuInv, CoreInv, TypeOK
<1> QED BY <1>1, CpuAlways, PTL

\* An instruction the fetcher issues finds a free slot in the reorder buffer and
\* in the buffer it is dispatched to, although the fetcher decides a cycle before
\* the slot is taken.
THEOREM IssueAlwaysFits == PauseSpec => []IssueFits
<1>1. CpuInv => IssueFits
  BY DEF CpuInv, CoreInv, IssueInv
<1> QED BY <1>1, CpuAlways, PTL

\* The fetcher and the memory controller always agree on whether a fetch is on
\* its way, whatever the timing of the answer against rollbacks and pauses.
THEOREM FetchesAlwaysAgree == PauseSpec => []FetchesAgree
<1>1. CpuInv => FetchesAgree
  BY DEF CpuInv, FetchAgreed, FetchesAgree, Single, Nowhere, OneOf, None
<1> QED BY <1>1, CpuAlways, PTL

\* So do the load store buffer and the memory controller on the data access, and
\* on whether it is a store: a rollback makes both give up the same ones.
THEOREM AccessesAlwaysAgree == PauseSpec => []AccessesAgree
<1>1. CpuInv => AccessesAgree
  BY DEF CpuInv, AccessAgreed, AccessesAgree, Single, Nowhere, OneOf, None
<1> QED BY <1>1, CpuAlways, PTL

\* No instruction waits for a result that it will not hear.
THEOREM OperandsAlwaysToCome == PauseSpec => []OperandsStillToCome
<1>1. CpuInv => OperandsStillToCome
  BY OperandsTerm DEF CpuInv
<1> QED BY <1>1, CpuAlways, PTL

\* A register that is busy names the youngest instruction that writes it.
THEOREM RegistersAlwaysNameYoungest == PauseSpec => []RegistersNameYoungest
<1>1. CpuInv => RegistersNameYoungest
  BY RegistersTerm DEF CpuInv
<1> QED BY <1>1, CpuAlways, PTL

\* An unfinished instruction is worked on at one place, a finished one nowhere.
THEOREM AlwaysOneWorkerEach == PauseSpec => []OneWorkerEach
<1>1. CpuInv => OneWorkerEach
  BY WorkersTerm DEF CpuInv
<1> QED BY <1>1, CpuAlways, PTL

\* The commits and releases of memory accesses reach the accesses they are for,
\* in program order, and a rollback keeps these and no others.
THEOREM CommittedAccessesAlwaysFirst == PauseSpec => []CommittedAccessesFirst
<1>1. CpuInv => CommittedAccessesFirst
  BY CommittedTerm DEF CpuInv
<1> QED BY <1>1, CpuAlways, PTL

\* No rollback finds a load from an I/O address released or under way.
THEOREM NoInputEverTakenBack == PauseSpec => []NoInputTakenBack
<1>1. CpuInv => NoInputTakenBack
  BY InputTerm DEF CpuInv
<1> QED BY <1>1, CpuAlways, PTL

\* A slot of the reorder buffer never keeps the I/O mark of its last owner.
THEOREM NoMarkEverInherited == PauseSpec => []NoInheritedMark
<1>1. CpuInv => NoInheritedMark
  BY InputTerm DEF CpuInv
<1> QED BY <1>1, CpuAlways, PTL

\* The core executes the program as the sequential machine does, one instruction
\* after the other, however long the memory takes: each commit is one step of
\* SequentExecute from the state the programmer sees, and no other cycle shows -
\* not a fetch, a prediction that fails, an answer out of order or a rollback.
\* For every size of the buffers, caches and words and every program, of the
\* behaviours where the two agree on what the instructions mean (Plain).
THEOREM AlwaysExecutesSequentially == Spec /\ []Plain => ExecutesSequentially
<1>1. Init => CpuInv /\ Inv /\ Sequential!Init
  BY CpuStart, InvStart, ViewStart
<1>2. CpuInv /\ Inv /\ Plain /\ [Next]_vars => CpuInv' /\ Inv' /\ [Sequential!Step]_View
  <2> SUFFICES ASSUME CpuInv, Inv, Plain, [Next]_vars
               PROVE  CpuInv' /\ Inv' /\ [Sequential!Step]_View
    OBVIOUS
  <2>1. CASE Next
    <3>1. \E serves \in {"none", "fetch", "data"} : Cycle(FALSE, serves)
      BY <2>1 DEF Next, Work, ServeFetch, ServeAccess
    <3>2. CpuInv'
      BY <3>1, CpuCycle
    <3> QED BY <2>1, <3>2, SequentialNext
  <2>2. CASE UNCHANGED vars
    <3>1. LsbType
      BY InvTypes
    <3>2. CpuInv'
      BY <2>2, CoreStutter DEF CpuInv, MemType, FetchAgreed, AccessAgreed, Single, Nowhere, vars, memVars,
                               coreVars, fetVars, lsbVars
    <3> QED BY <2>2, <3>1, <3>2, InvStutter, ViewStutter
  <2> QED BY <2>1, <2>2
<1>3. View = Sequential!isaVars /\ View' = Sequential!isaVars'
  BY DEF View, Sequential!isaVars
<1>4. CpuInv /\ Inv /\ Plain /\ [Next]_vars => CpuInv' /\ Inv' /\ [Sequential!Step]_(Sequential!isaVars)
  BY <1>2, <1>3
<1> QED BY <1>1, <1>4, PTL DEF Spec, ExecutesSequentially, Sequential!Spec, Sequential!Steps
=============================================================================
