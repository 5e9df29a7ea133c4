--------------------------- MODULE RiscvTopProofs ---------------------------
(***************************************************************************)
(* What holds of RiscvTop, the processor with its byte-wise memory         *)
(* controller on the board, for every word size, every capacity and every  *)
(* program: whatever the host does on the bus, and in whichever cycle a    *)
(* break or a reset takes the processor off it.                            *)
(***************************************************************************)
EXTENDS RiscvTop, CoreProofs

\* What the controller has its own names for.
LEMMA ControllerNames ==
  /\ Controller!Word = Word /\ Controller!Byte = Byte /\ Controller!WORD_BYTES = WORD_BYTES
  /\ Controller!Instruction = Instruction /\ Controller!ZeroInstruction = ZeroInstruction
  /\ \A a : Controller!IsIo(a) = IsIo(a)
  /\ \A a, b : Controller!Add(a, b) = Add(a, b)
  /\ \A w, k : Controller!ByteOf(w, k) = ByteOf(w, k)
  /\ \A b : Controller!Flag(b) = Flag(b)
<1>1. Controller!WORD_BYTES = WORD_BYTES /\ Controller!Word = Word /\ Controller!Byte = Byte
  BY DEF Controller!WORD_BYTES, WORD_BYTES, Controller!Word, Word, Controller!Byte, Byte
<1>2. Controller!Instruction = Instruction /\ Controller!ZeroInstruction = ZeroInstruction
  BY <1>1 DEF Controller!Instruction, Instruction, Controller!InnerInst, InnerInst, Controller!RegIndex,
     RegIndex,
     Controller!ZeroInstruction, ZeroInstruction, Controller!BranchOps, BranchOps, Controller!LoadOps, LoadOps,
     Controller!StoreOps, StoreOps, Controller!ArithImmOps, ArithImmOps, Controller!ArithOps, ArithOps
<1>3. \A a : Controller!IsIo(a) = IsIo(a)
  BY DEF Controller!IsIo, IsIo
<1>4. \A a, b : Controller!Add(a, b) = Add(a, b)
  BY DEF Controller!Add, Add
<1>5. \A w, k : Controller!ByteOf(w, k) = ByteOf(w, k)
  BY DEF Controller!ByteOf, ByteOf
<1>6. \A b : Controller!Flag(b) = Flag(b)
  BY DEF Controller!Flag, Flag
<1> QED BY <1>1, <1>2, <1>3, <1>4, <1>5, <1>6

\* Every access moves a byte at least.
LEMMA GoalPositive ==
  /\ INST_GOAL \in Nat /\ INST_GOAL >= 1 /\ WORD_BYTES \in Nat /\ WORD_BYTES >= 2
  /\ \A op \in LoadOps \cup StoreOps : Goal(op) \in 1 .. WORD_BYTES
<1>1. INST_GOAL \in Nat /\ INST_GOAL >= 1 /\ WORD_BYTES \in Nat /\ WORD_BYTES >= 2
  BY GoalAssumption, BytePowers DEF GoalAssumption
<1>2. WORD_BYTES \div 2 \in 1 .. WORD_BYTES
  BY <1>1
<1> QED BY <1>1, <1>2 DEF Goal, LoadOps, StoreOps

(***************************************************************************)
(* The controller's registers.                                             *)
(***************************************************************************)
Requests == [pending : BOOLEAN, address : Word, goal : 0 .. WORD_BYTES, data : Word]

\* The requests that wait.
Waiting == /\ mc_inst_request \in Requests /\ mc_load_request \in Requests /\ mc_store_request \in Requests
           /\ mc_load_request.pending => mc_load_request.goal >= 1
           /\ mc_store_request.pending => mc_store_request.goal >= 1

\* A request is in one place, waiting or under way.
OnePlace == /\ ~(mc_store_request.pending /\ mc_load_request.pending)
            /\ mc_working_on \in {"LOAD", "STORE"} => ~mc_store_request.pending /\ ~mc_load_request.pending
            /\ mc_working_on = "INSTRUCTION" => ~mc_inst_request.pending

\* The access under way: current counts its bytes, and buffer has those that were read.
Transfer ==
  /\ mc_status \in {"IDLE", "BUSY", "FINISH"}
  /\ mc_working_on \in {"NONE", "INSTRUCTION", "LOAD", "STORE"}
  /\ mc_status = "IDLE" <=> mc_working_on = "NONE"
  /\ mc_waiting \in BOOLEAN
  /\ mc_current_address \in Word /\ mc_current_data \in Word
  /\ mc_status = "IDLE" => mc_goal = 0
  /\ mc_working_on = "INSTRUCTION" => mc_goal = INST_GOAL
  /\ mc_working_on \in {"LOAD", "STORE"} => mc_goal \in 1 .. WORD_BYTES
  /\ mc_status # "BUSY" => mc_current = 0
  /\ mc_status = "BUSY" => mc_current \in IF mc_working_on = "STORE" THEN 1 .. mc_goal ELSE 0 .. mc_goal - 1
  /\ mc_buffer \in Word
  /\ mc_working_on # "LOAD" => mc_buffer = 0
  /\ mc_status = "BUSY" /\ mc_working_on = "LOAD" => mc_buffer < 2^(BYTE_BITS * mc_current)

\* The pins, and what is behind them.
Board == /\ mc_rw \in {"READ", "WRITE"} /\ mc_address \in Word /\ mc_data \in Byte
         /\ ram \in [Word -> Byte] /\ ram_read_address \in Word
         /\ q_io_en \in BOOLEAN /\ q_io_dout \in 0 .. IO_PERIOD - 1
         /\ io_reads \in 0 .. IO_PERIOD - 1 /\ io_writes \in 0 .. IO_PERIOD - 1

(***************************************************************************)
(* One cycle of the host and the RAM.                                      *)
(***************************************************************************)
Hosts == [active : BOOLEAN, wr : BOOLEAN, a : Word, din : Byte]

\* An input is a byte.
LEMMA InputByte ==
  /\ IO_PERIOD \in Nat /\ IO_PERIOD >= 1
  /\ 0 \in Byte /\ \A n \in 0 .. IO_PERIOD - 1 : n \in Byte
  /\ \A n \in Int : n % IO_PERIOD \in 0 .. IO_PERIOD - 1
<1>1. IO_PERIOD \in Nat /\ IO_PERIOD >= 1 /\ IO_PERIOD <= 2^BYTE_BITS
  BY BytePowers, ProgramsAssumption DEF ProgramsAssumption
<1>2. \A n \in 0 .. IO_PERIOD - 1 : n \in Byte
  BY <1>1, BytePowers DEF Byte
<1>3. \A n \in Int : n % IO_PERIOD \in 0 .. IO_PERIOD - 1
  BY <1>1, Remainder
<1>4. 0 \in Byte
  BY <1>1, <1>2
<1> QED BY <1>1, <1>2, <1>3, <1>4

\* A word is at its first byte, and nothing counted is nothing more.
LEMMA FirstByte ==
  /\ \A a \in Word : Add(a, 0) = a
  /\ \A n \in 0 .. IO_PERIOD - 1 : (n + Flag(FALSE)) % IO_PERIOD = n
<1> DEFINE m == 2^XLEN
<1>1. m \in Nat /\ m >= 1 /\ IO_PERIOD \in Nat /\ IO_PERIOD >= 1
  BY Powers, InputByte
<1>2. ASSUME NEW a \in Word PROVE Add(a, 0) = a
  <2>1. a \in 0 .. m - 1
    BY DEF Word
  <2> HIDE DEF m
  <2>2. a % m = a /\ a + 0 = a
    BY <1>1, <2>1, RemainderSmall
  <2> QED BY <2>2 DEF Add, m
<1>3. ASSUME NEW n \in 0 .. IO_PERIOD - 1 PROVE (n + 0) % IO_PERIOD = n
  <2>1. n % IO_PERIOD = n /\ n + 0 = n
    BY <1>1, RemainderSmall
  <2> QED BY <2>1
<1> QED BY <1>2, <1>3 DEF Flag

\* What a cycle of them keeps; what the RAM answers is a byte.
LEMMA PinsTypes ==
  ASSUME Board, NEW host \in Hosts, Controller!Pins(host)
  PROVE  /\ ram' \in [Word -> Byte] /\ ram_read_address' \in Word
         /\ q_io_en' \in BOOLEAN /\ q_io_dout' \in 0 .. IO_PERIOD - 1
         /\ io_reads' \in 0 .. IO_PERIOD - 1 /\ io_writes' \in 0 .. IO_PERIOD - 1
         /\ Controller!ram_data_in \in Byte
<1>1. host.active \in BOOLEAN /\ host.wr \in BOOLEAN /\ host.a \in Word /\ host.din \in Byte
  BY Zenon DEF Hosts
<1>2. Controller!cpumc_a(host) \in Word /\ Controller!cpumc_din(host) \in Byte
  BY <1>1 DEF Board, Controller!cpumc_a, Controller!cpumc_din
<1>3. ram' \in [Word -> Byte]
  <2>1. ram' = ram \/ ram' = [ram EXCEPT ![Controller!cpumc_a(host)] = Controller!cpumc_din(host)]
    BY Zenon DEF Controller!Pins
  <2> QED BY <1>2, <2>1 DEF Board
<1>4. \A b, n : n \in 0 .. IO_PERIOD - 1 => (n + Controller!Flag(b)) % IO_PERIOD \in 0 .. IO_PERIOD - 1
  BY InputByte DEF Controller!Flag
<1>5. io_reads' \in 0 .. IO_PERIOD - 1 /\ io_writes' \in 0 .. IO_PERIOD - 1
  BY <1>4, Zenon DEF Board, Controller!Pins
<1>6. q_io_en' \in BOOLEAN
  BY Zenon DEF Controller!Pins, Controller!io_en
<1>7. q_io_dout' \in 0 .. IO_PERIOD - 1
  <2>1. q_io_dout' = io_reads \/ q_io_dout' = 0
    BY Zenon DEF Controller!Pins
  <2> QED BY <2>1, InputByte DEF Board
<1>8. Controller!ram_data_in \in Byte
  BY InputByte DEF Board, Controller!ram_data_in
<1> QED BY <1>2, <1>3, <1>5, <1>6, <1>7, <1>8 DEF Controller!Pins

(***************************************************************************)
(* One cycle of the controller.                                            *)
(***************************************************************************)

\* A fetch, and an access of the data, that the controller has not answered yet.
FetchPending  == mc_working_on = "INSTRUCTION" \/ mc_inst_request.pending
AccessPending == mc_working_on \in {"LOAD", "STORE"} \/ mc_store_request.pending \/ mc_load_request.pending
StorePending  == mc_working_on = "STORE" \/ (mc_working_on # "LOAD" /\ mc_store_request.pending)

\* What the controller may count on: who asks has no answer outstanding.
Asked == /\ Waiting /\ OnePlace /\ Transfer /\ Board
         /\ FetcherType /\ LsbType /\ KindsKnown
         /\ program \in [Word -> Instruction]
         /\ fet_out.mc_request => ~FetchPending
         /\ lsb_out.mc_request => ~AccessPending

PinsOut == mc_rw \in {"READ", "WRITE"} /\ mc_address \in Word /\ mc_data \in Byte

\* What a cycle of it ends with.
Done(rst) ==
  /\ Waiting' /\ OnePlace' /\ Transfer' /\ PinsOut' /\ mc_out' \in MemoryOutput
  /\ FetchServed(rst, FetchPending, FetchPending', mc_out'.fet_ready)
  /\ AccessServed(rst, AccessPending, StorePending, AccessPending', StorePending', mc_out'.lsb_ready)

\* The fields of the requests, and the registers at rest.
LEMMA RequestFields ==
  ASSUME Waiting
  PROVE  /\ mc_inst_request.pending \in BOOLEAN /\ mc_inst_request.address \in Word /\ mc_inst_request.data \in Word
         /\ mc_load_request.pending \in BOOLEAN /\ mc_load_request.address \in Word /\ mc_load_request.data \in Word
         /\ mc_store_request.pending \in BOOLEAN /\ mc_store_request.address \in Word
         /\ mc_store_request.data \in Word
         /\ mc_load_request.goal \in 0 .. WORD_BYTES /\ mc_store_request.goal \in 0 .. WORD_BYTES
BY Zenon DEF Waiting, Requests

\* Nothing waits, and nothing is said.
LEMMA ControllerRest ==
  /\ Controller!NoRequest \in Requests /\ ~Controller!NoRequest.pending
  /\ Controller!Quiet \in MemoryOutput /\ ~Controller!Quiet.fet_ready /\ ~Controller!Quiet.lsb_ready
<1>1. 0 \in Word /\ 0 \in 0 .. WORD_BYTES
  BY WordArithmetic, BytePowers
<1>2. Controller!ZeroInstruction \in Instruction
  BY ControllerNames, ZeroType
<1> QED BY <1>1, <1>2, Zenon DEF Controller!NoRequest, Controller!Quiet, Requests, MemoryOutput

\* The requests that arrive.
LEMMA Arrivals ==
  ASSUME FetcherType, LsbType, KindsKnown
  PROVE  /\ Controller!Instruction1(fet_out) \in Requests /\ Controller!Instruction1(fet_out).pending
         /\ Controller!Load1(lsb_out) \in Requests /\ Controller!Load1(lsb_out).pending
         /\ Controller!Store1(lsb_out) \in Requests /\ Controller!Store1(lsb_out).pending
         /\ lsb_out.mc_request => Controller!Load1(lsb_out).goal >= 1 /\ Controller!Store1(lsb_out).goal >= 1
         /\ fet_out.mc_request \in BOOLEAN /\ lsb_out.mc_request \in BOOLEAN /\ lsb_out.mc_store \in BOOLEAN
<1>1. 0 \in Word /\ 0 \in 0 .. WORD_BYTES
  BY WordArithmetic, BytePowers
<1>2. fet_out.mc_request \in BOOLEAN /\ fet_out.mc_address \in Word
  BY Zenon DEF FetcherType, FetcherOutput
<1>3. /\ lsb_out.mc_request \in BOOLEAN /\ lsb_out.mc_store \in BOOLEAN /\ lsb_out.mc_address \in Word
      /\ lsb_out.mc_goal \in 0 .. WORD_BYTES /\ lsb_out.mc_data \in Word
  BY Zenon DEF LsbType, LsbOutput
<1>4. lsb_out.mc_request => lsb_out.mc_goal >= 1
  <2> SUFFICES ASSUME lsb_out.mc_request PROVE lsb_out.mc_goal >= 1
    OBVIOUS
  <2>1. PICK op \in LoadOps \cup StoreOps : lsb_out.mc_goal = Goal(op)
    BY DEF KindsKnown
  <2>2. Goal(op) \in 1 .. WORD_BYTES
    BY GoalPositive
  <2> QED BY <2>1, <2>2
<1>5. Controller!Load1(lsb_out).goal = lsb_out.mc_goal /\ Controller!Store1(lsb_out).goal = lsb_out.mc_goal
  BY DEF Controller!Load1, Controller!Store1
<1>6. /\ Controller!Instruction1(fet_out) \in Requests /\ Controller!Instruction1(fet_out).pending
      /\ Controller!Load1(lsb_out) \in Requests /\ Controller!Load1(lsb_out).pending
      /\ Controller!Store1(lsb_out) \in Requests /\ Controller!Store1(lsb_out).pending
  BY <1>1, <1>2, <1>3, Zenon DEF Controller!Instruction1, Controller!Load1, Controller!Store1, Requests
<1> QED BY <1>2, <1>3, <1>4, <1>5, <1>6

\* What waits after a cycle in which the request taken starts.
LEMMA Remembered ==
  ASSUME Waiting, FetcherType, LsbType, KindsKnown, NEW taken, Controller!Remember(fet_out, lsb_out, taken)
  PROVE  /\ Waiting'
         /\ mc_inst_request'.pending <=>
              taken # "INSTRUCTION" /\ (fet_out.mc_request \/ mc_inst_request.pending)
         /\ mc_load_request'.pending <=>
              taken # "LOAD" /\ ((lsb_out.mc_request /\ ~lsb_out.mc_store) \/ mc_load_request.pending)
         /\ mc_store_request'.pending <=>
              taken # "STORE" /\ ((lsb_out.mc_request /\ lsb_out.mc_store) \/ mc_store_request.pending)
<1>1. /\ mc_inst_request' = IF taken = "INSTRUCTION" THEN Controller!NoRequest
                            ELSE IF fet_out.mc_request THEN Controller!Instruction1(fet_out) ELSE mc_inst_request
      /\ mc_load_request' = IF taken = "LOAD" THEN Controller!NoRequest
                            ELSE IF lsb_out.mc_request /\ ~lsb_out.mc_store THEN Controller!Load1(lsb_out)
                            ELSE mc_load_request
      /\ mc_store_request' = IF taken = "STORE" THEN Controller!NoRequest
                             ELSE IF lsb_out.mc_request /\ lsb_out.mc_store THEN Controller!Store1(lsb_out)
                             ELSE mc_store_request
  BY DEF Controller!Remember
<1>2. /\ mc_inst_request \in Requests /\ mc_load_request \in Requests /\ mc_store_request \in Requests
      /\ mc_load_request.pending => mc_load_request.goal >= 1
      /\ mc_store_request.pending => mc_store_request.goal >= 1
  BY DEF Waiting
<1> HIDE DEF Requests
<1>3. mc_inst_request' \in Requests /\ mc_load_request' \in Requests /\ mc_store_request' \in Requests
  BY <1>1, <1>2, ControllerRest, Arrivals
<1>4. /\ mc_load_request'.pending => mc_load_request'.goal >= 1
      /\ mc_store_request'.pending => mc_store_request'.goal >= 1
  BY <1>1, <1>2, ControllerRest, Arrivals
<1>5. Waiting'
  BY <1>3, <1>4 DEF Waiting
<1> QED BY <1>1, <1>5, ControllerRest, Arrivals, RequestFields

\* A reset forgets every request.
LEMMA ResetDone ==
  ASSUME Asked, NEW rst \in BOOLEAN, rst, Controller!Reset
  PROVE  Done(rst)
<1>1. /\ mc_inst_request' = Controller!NoRequest /\ mc_load_request' = Controller!NoRequest
      /\ mc_store_request' = Controller!NoRequest /\ mc_out' = Controller!Quiet
      /\ mc_status' = "IDLE" /\ mc_working_on' = "NONE" /\ mc_waiting' = FALSE
      /\ mc_goal' = 0 /\ mc_current' = 0 /\ mc_current_address' = 0 /\ mc_current_data' = 0 /\ mc_buffer' = 0
      /\ mc_rw' = mc_rw /\ mc_address' = mc_address /\ mc_data' = mc_data
  BY DEF Controller!Reset, Controller!KeepPins
<1>2. 0 \in Word
  BY WordArithmetic
<1>3. Waiting' /\ OnePlace' /\ ~FetchPending' /\ ~AccessPending' /\ mc_out' \in MemoryOutput
  BY <1>1, ControllerRest DEF Waiting, OnePlace, FetchPending, AccessPending
<1>4. Transfer'
  BY <1>1, <1>2 DEF Transfer
<1>5. PinsOut'
  BY <1>1 DEF Asked, Board, PinsOut
<1> QED BY <1>1, <1>3, <1>4, <1>5, ControllerRest DEF Done, FetchServed, AccessServed

\* A rollback drops what the processor gives up.
LEMMA RollbackDone ==
  ASSUME Asked, NEW rst \in BOOLEAN, ~rst, rob_out.rollback, Controller!Rollback(lsb_out)
  PROVE  Done(rst)
<1> DEFINE input == lsb_out.mc_request /\ ~lsb_out.mc_store /\ IsIo(lsb_out.mc_address)
           store == lsb_out.mc_request /\ lsb_out.mc_store
<1>1. /\ mc_inst_request' = Controller!NoRequest
      /\ mc_load_request' = IF input THEN Controller!Load1(lsb_out) ELSE Controller!NoRequest
      /\ mc_store_request' = IF store THEN Controller!Store1(lsb_out) ELSE mc_store_request
      /\ mc_out' = Controller!Quiet
      /\ mc_rw' = mc_rw /\ mc_address' = mc_address /\ mc_data' = mc_data
  BY ControllerNames DEF Controller!Rollback, Controller!KeepPins
<1>2. /\ Waiting /\ OnePlace /\ Transfer /\ FetcherType /\ LsbType /\ KindsKnown
      /\ lsb_out.mc_request => ~AccessPending
  BY DEF Asked
<1>3. Waiting'
  BY <1>1, <1>2, ControllerRest, Arrivals DEF Waiting
<1>4. /\ ~mc_inst_request'.pending
      /\ mc_load_request'.pending <=> input
      /\ mc_store_request'.pending <=> store \/ mc_store_request.pending
  BY <1>1, <1>2, ControllerRest, Arrivals, RequestFields
<1> HIDE DEF input, store
<1>5. \/ /\ mc_working_on \in {"INSTRUCTION", "LOAD"}
         /\ mc_status' = "IDLE" /\ mc_working_on' = "NONE" /\ mc_buffer' = 0 /\ mc_current' = 0
         /\ mc_goal' = 0 /\ mc_current_address' = 0 /\ mc_current_data' = 0 /\ mc_waiting' = mc_waiting
      \/ /\ mc_working_on \in {"NONE", "STORE"}
         /\ mc_status' = mc_status /\ mc_working_on' = mc_working_on /\ mc_buffer' = mc_buffer
         /\ mc_current' = mc_current /\ mc_goal' = mc_goal /\ mc_current_address' = mc_current_address
         /\ mc_current_data' = mc_current_data /\ mc_waiting' = mc_waiting
  BY <1>2 DEF Controller!Rollback, Transfer
<1>6. Transfer'
  <2>1. 0 \in Word
    BY WordArithmetic
  <2> QED BY <1>2, <1>5, <2>1 DEF Transfer
<1>7. OnePlace'
  BY <1>2, <1>4, <1>5 DEF OnePlace, AccessPending, input, store
<1>8. ~FetchPending'
  BY <1>4, <1>5 DEF FetchPending
<1>9. /\ AccessPending' <=> input \/ store \/ StorePending
      /\ StorePending' <=> store \/ StorePending
  BY <1>2, <1>4, <1>5 DEF AccessPending, StorePending, OnePlace, input, store
<1>10. PinsOut'
  BY <1>1 DEF Asked, Board, PinsOut
<1>11. AccessServed(rst, AccessPending, StorePending, AccessPending', StorePending', mc_out'.lsb_ready)
  BY <1>1, <1>2, <1>9, ControllerRest, Arrivals DEF AccessServed, AccessPending, StorePending, input, store
<1> QED BY <1>1, <1>3, <1>6, <1>7, <1>8, <1>10, <1>11, ControllerRest DEF Done, FetchServed

\* What it takes in an ordinary cycle: of what is under way and waits, what goes on.
LEMMA ServedQuietly ==
  ASSUME Asked, NEW rst \in BOOLEAN, ~rst, ~rob_out.rollback, NEW taken \in {"NONE", "INSTRUCTION", "LOAD", "STORE"},
         Controller!Remember(fet_out, lsb_out, taken), mc_out' = Controller!Quiet,
         taken = "NONE" => mc_working_on' = mc_working_on,
         taken # "NONE" => mc_working_on = "NONE" /\ mc_working_on' = taken,
         taken = "INSTRUCTION" => mc_inst_request.pending,
         taken = "LOAD" => mc_load_request.pending,
         taken = "STORE" => mc_store_request.pending,
         Transfer', PinsOut'
  PROVE  Done(rst)
<1>1. /\ Waiting /\ OnePlace /\ Transfer /\ FetcherType /\ LsbType /\ KindsKnown
      /\ lsb_out.mc_request => ~AccessPending
      /\ fet_out.mc_request => ~FetchPending
  BY DEF Asked
<1>2. /\ Waiting'
      /\ mc_inst_request'.pending <=>
           taken # "INSTRUCTION" /\ (fet_out.mc_request \/ mc_inst_request.pending)
      /\ mc_load_request'.pending <=>
           taken # "LOAD" /\ ((lsb_out.mc_request /\ ~lsb_out.mc_store) \/ mc_load_request.pending)
      /\ mc_store_request'.pending <=>
           taken # "STORE" /\ ((lsb_out.mc_request /\ lsb_out.mc_store) \/ mc_store_request.pending)
  BY <1>1, Remembered
<1>3. mc_out' \in MemoryOutput /\ ~mc_out'.fet_ready /\ ~mc_out'.lsb_ready
  BY ControllerRest
<1>4. OnePlace'
  BY <1>1, <1>2 DEF OnePlace, AccessPending, FetchPending
<1>5. FetchServed(rst, FetchPending, FetchPending', mc_out'.fet_ready)
  BY <1>1, <1>2, <1>3 DEF FetchServed, FetchPending, OnePlace
<1>6. AccessServed(rst, AccessPending, StorePending, AccessPending', StorePending', mc_out'.lsb_ready)
  BY <1>1, <1>2, <1>3 DEF AccessServed, AccessPending, StorePending, OnePlace
<1> QED BY <1>2, <1>3, <1>4, <1>5, <1>6 DEF Done

\* Bytes shown are bytes, and addresses words.
LEMMA StartsDone ==
  ASSUME Asked, NEW rst \in BOOLEAN, ~rst, ~rob_out.rollback, NEW full,
         \/ Controller!StartStore(fet_out, lsb_out, full)
         \/ Controller!StartLoad(fet_out, lsb_out, full)
         \/ Controller!StartFetch(fet_out, lsb_out, full)
         \/ Controller!Rest(fet_out, lsb_out, full)
  PROVE  Done(rst)
<1>1. /\ Waiting /\ Transfer /\ PinsOut
  BY DEF Asked, Board, PinsOut
<1>2. /\ mc_current = 0 /\ mc_buffer = 0 /\ mc_working_on = "NONE" /\ mc_status = "IDLE"
  BY <1>1 DEF Transfer, Controller!StartStore, Controller!StartLoad, Controller!StartFetch, Controller!Rest
<1>3. 2^(BYTE_BITS * 0) = 1 /\ 2^(BYTE_BITS * 1) \in Nat /\ 2^(BYTE_BITS * 1) >= 1 /\ WORD_BYTES >= 2
      /\ WORD_BYTES \in Nat /\ INST_GOAL \in Nat /\ INST_GOAL >= 1 /\ 0 \in Word /\ 0 \in 0 .. WORD_BYTES
  <2>1. BYTE_BITS * 0 = 0 /\ 2^0 = 1
    BY WordAssumption DEF WordAssumption
  <2>2. 1 \in 0 .. WORD_BYTES /\ 0 \in 0 .. WORD_BYTES
    BY GoalPositive
  <2> QED BY <2>1, <2>2, BytePowers, GoalPositive, WordArithmetic
<1>4. CASE Controller!StartStore(fet_out, lsb_out, full)
  <2>1. /\ mc_store_request.pending /\ mc_status' = "BUSY" /\ mc_working_on' = "STORE" /\ mc_waiting' = TRUE
        /\ mc_goal' = mc_store_request.goal /\ mc_current_address' = mc_store_request.address
        /\ mc_current_data' = mc_store_request.data /\ mc_buffer' = mc_buffer /\ mc_current' = mc_current + 1
        /\ mc_rw' = "WRITE" /\ mc_address' = mc_store_request.address
        /\ mc_data' = ByteOf(mc_store_request.data, mc_current)
        /\ mc_out' = Controller!Quiet
        /\ Controller!Remember(fet_out, lsb_out, "STORE")
    BY <1>4, ControllerNames
       DEF Controller!StartStore, Controller!CouldStore, Controller!StartWork, Controller!Show
  <2>2. /\ mc_store_request.goal \in 0 .. WORD_BYTES /\ mc_store_request.goal >= 1
        /\ mc_store_request.address \in Word /\ mc_store_request.data \in Word
    BY <1>1, <2>1, RequestFields DEF Waiting
  <2>3. mc_data' \in Byte
    BY <1>2, <1>3, <2>1, <2>2, ByteOfByte
  <2>4. Transfer'
    BY <1>2, <1>3, <2>1, <2>2 DEF Transfer
  <2>5. PinsOut'
    BY <2>1, <2>2, <2>3 DEF PinsOut
  <2> QED BY <1>2, <2>1, <2>4, <2>5, ServedQuietly
<1>5. CASE Controller!StartLoad(fet_out, lsb_out, full)
  <2>1. /\ mc_load_request.pending /\ mc_status' = "BUSY" /\ mc_working_on' = "LOAD" /\ mc_waiting' = TRUE
        /\ mc_goal' = mc_load_request.goal /\ mc_current_address' = mc_load_request.address
        /\ mc_current_data' = mc_load_request.data /\ mc_buffer' = mc_buffer /\ mc_current' = mc_current
        /\ mc_rw' = "READ" /\ mc_address' = mc_load_request.address /\ mc_data' = mc_data
        /\ mc_out' = Controller!Quiet
        /\ Controller!Remember(fet_out, lsb_out, "LOAD")
    BY <1>5 DEF Controller!StartLoad, Controller!StartWork, Controller!Show
  <2>2. /\ mc_load_request.goal \in 0 .. WORD_BYTES /\ mc_load_request.goal >= 1
        /\ mc_load_request.address \in Word /\ mc_load_request.data \in Word
    BY <1>1, <2>1, RequestFields DEF Waiting
  <2>3. Transfer'
    BY <1>2, <1>3, <2>1, <2>2 DEF Transfer
  <2>4. PinsOut'
    BY <1>1, <2>1, <2>2 DEF PinsOut
  <2> QED BY <1>2, <2>1, <2>3, <2>4, ServedQuietly
<1>6. CASE Controller!StartFetch(fet_out, lsb_out, full)
  <2>1. /\ mc_inst_request.pending /\ mc_status' = "BUSY" /\ mc_working_on' = "INSTRUCTION" /\ mc_waiting' = TRUE
        /\ mc_goal' = INST_GOAL /\ mc_current_address' = mc_inst_request.address
        /\ mc_current_data' = mc_inst_request.data /\ mc_buffer' = mc_buffer /\ mc_current' = mc_current
        /\ mc_rw' = "READ" /\ mc_address' = mc_inst_request.address /\ mc_data' = mc_data
        /\ mc_out' = Controller!Quiet
        /\ Controller!Remember(fet_out, lsb_out, "INSTRUCTION")
    BY <1>6 DEF Controller!StartFetch, Controller!StartWork, Controller!Show
  <2>2. mc_inst_request.address \in Word /\ mc_inst_request.data \in Word
    BY <1>1, RequestFields
  <2>3. Transfer'
    BY <1>2, <1>3, <2>1, <2>2 DEF Transfer
  <2>4. PinsOut'
    BY <1>1, <2>1, <2>2 DEF PinsOut
  <2> QED BY <1>2, <2>1, <2>3, <2>4, ServedQuietly
<1>7. CASE Controller!Rest(fet_out, lsb_out, full)
  <2>1. /\ mc_status' = mc_status /\ mc_working_on' = mc_working_on /\ mc_waiting' = mc_waiting
        /\ mc_goal' = mc_goal /\ mc_current_address' = mc_current_address
        /\ mc_current_data' = mc_current_data /\ mc_buffer' = mc_buffer /\ mc_current' = mc_current
        /\ mc_rw' = mc_rw /\ mc_address' = mc_address /\ mc_data' = mc_data
        /\ mc_out' = Controller!Quiet
        /\ Controller!Remember(fet_out, lsb_out, "NONE")
    BY <1>7 DEF Controller!Rest, Controller!KeepPins
  <2>2. Transfer' /\ PinsOut'
    BY <1>1, <2>1 DEF PinsOut, Transfer
  <2> QED BY <2>1, <2>2, ServedQuietly
<1> QED BY <1>4, <1>5, <1>6, <1>7

\* A byte read goes in above those before it.
LEMMA BufferGrows ==
  ASSUME NEW k \in 0 .. WORD_BYTES - 1, NEW buffer \in Nat, buffer < 2^(BYTE_BITS * k), NEW d \in Byte
  PROVE  /\ buffer + d * 2^(BYTE_BITS * k) \in Nat
         /\ buffer + d * 2^(BYTE_BITS * k) < 2^(BYTE_BITS * (k + 1))
         /\ buffer + d * 2^(BYTE_BITS * k) \in Word
<1> DEFINE p == 2^(BYTE_BITS * k)
           q == 2^(BYTE_BITS * (k + 1))
           b == 2^BYTE_BITS
<1>1. k \in 0 .. WORD_BYTES /\ k + 1 \in 0 .. WORD_BYTES
  BY BytePowers
<1>2. p \in Nat /\ b \in Nat /\ b >= 1 /\ q = b * p /\ q <= 2^XLEN /\ q \in Nat
  BY <1>1, BytePowers
<1>3. d \in 0 .. b - 1 /\ buffer < p
  BY DEF Byte
<1>4. 2^XLEN \in Nat
  BY Powers
<1> HIDE DEF p, q, b
<1>5. d + 1 \in Nat /\ d \in Nat /\ d + 1 <= b
  BY <1>2, <1>3
<1>6. (d + 1) * p <= b * p
  BY <1>2, <1>5
<1>7. (d + 1) * p = d * p + p /\ d * p \in Nat
  BY <1>2, <1>5
<1>8. buffer + d * p \in Nat /\ buffer + d * p < q
  BY <1>2, <1>3, <1>6, <1>7
<1>9. buffer + d * p \in Word
  BY <1>2, <1>4, <1>8 DEF Word
<1> QED BY <1>8, <1>9 DEF p, q

\* Every cycle in which a byte is on its way.
LEMMA BytesDone ==
  ASSUME Asked, NEW rst \in BOOLEAN, ~rst, ~rob_out.rollback, Controller!ram_data_in \in Byte,
         \/ Controller!EndWait(fet_out, lsb_out)
         \/ Controller!NextStoreByte(fet_out, lsb_out)
         \/ Controller!NextReadByte(fet_out, lsb_out)
  PROVE  Done(rst)
<1>1. /\ Transfer /\ PinsOut
  BY DEF Asked, Board, PinsOut
<1>2. /\ mc_status = "BUSY" /\ mc_working_on' = mc_working_on /\ mc_goal' = mc_goal
      /\ mc_current_address' = mc_current_address /\ mc_current_data' = mc_current_data
      /\ mc_out' = Controller!Quiet
      /\ Controller!Remember(fet_out, lsb_out, "NONE")
  BY DEF Controller!EndWait, Controller!NextStoreByte, Controller!NextReadByte, Controller!Busy
<1>3. mc_goal \in Nat /\ mc_current \in Nat /\ WORD_BYTES \in Nat
  BY <1>1, <1>2, GoalPositive DEF Transfer
<1>4. \A n \in Nat : Add(mc_current_address, n) \in Word
  BY <1>1, WordArithmetic DEF Transfer
<1>5. SUFFICES Transfer' /\ PinsOut'
  BY <1>2, ServedQuietly
<1>6. CASE Controller!EndWait(fet_out, lsb_out)
  <2>1. /\ mc_waiting' = FALSE /\ mc_rw' = "READ" /\ mc_address' = 0 /\ mc_data' = mc_data
        /\ mc_status' = mc_status /\ mc_current' = mc_current /\ mc_buffer' = mc_buffer
    BY <1>6 DEF Controller!EndWait, Controller!Release, Controller!Show
  <2>2. 0 \in Word
    BY WordArithmetic
  <2> QED BY <1>1, <1>2, <2>1, <2>2 DEF Transfer, PinsOut
<1>7. CASE Controller!NextStoreByte(fet_out, lsb_out)
  <2>1. /\ mc_working_on = "STORE" /\ mc_buffer' = mc_buffer
        /\ mc_current \in 1 .. mc_goal /\ mc_goal \in 1 .. WORD_BYTES
    BY <1>1, <1>2, <1>7 DEF Controller!NextStoreByte, Transfer
  <2>2. CASE mc_current = mc_goal
    <3>1. /\ mc_status' = "FINISH" /\ mc_current' = 0 /\ mc_waiting' = mc_waiting
          /\ mc_rw' = mc_rw /\ mc_address' = mc_address /\ mc_data' = mc_data
      BY <1>7, <2>2 DEF Controller!NextStoreByte, Controller!KeepPins
    <3> QED BY <1>1, <1>2, <2>1, <3>1 DEF Transfer, PinsOut
  <2>3. CASE mc_current # mc_goal
    <3>1. /\ mc_status' = mc_status /\ mc_current' = mc_current + 1 /\ mc_waiting' = TRUE
          /\ mc_rw' = "WRITE" /\ mc_address' = Add(mc_current_address, mc_current)
          /\ mc_data' = ByteOf(mc_current_data, mc_current)
      BY <1>7, <2>3, ControllerNames DEF Controller!NextStoreByte, Controller!Show
    <3>2. mc_current \in 0 .. WORD_BYTES /\ mc_current + 1 \in 1 .. mc_goal
      BY <1>3, <2>1, <2>3
    <3>3. mc_data' \in Byte
      BY <1>1, <3>1, <3>2, ByteOfByte DEF Transfer
    <3>4. PinsOut'
      BY <1>3, <1>4, <3>1, <3>3 DEF PinsOut
    <3> QED BY <1>1, <1>2, <2>1, <3>1, <3>2, <3>4 DEF Transfer
  <2> QED BY <2>2, <2>3
<1>8. CASE Controller!NextReadByte(fet_out, lsb_out)
  <2>1. /\ mc_working_on \in {"INSTRUCTION", "LOAD"}
        /\ mc_current \in 0 .. mc_goal - 1 /\ mc_goal >= 1
    BY <1>1, <1>2, <1>3, <1>8, GoalPositive DEF Controller!NextReadByte, Transfer
  <2>2. /\ mc_buffer' \in Word
        /\ mc_working_on # "LOAD" => mc_buffer' = 0
        /\ mc_working_on = "LOAD" => mc_buffer' < 2^(BYTE_BITS * (mc_current + 1))
    <3>1. CASE mc_working_on = "LOAD"
      <4>1. mc_buffer' = mc_buffer + Controller!ram_data_in * 2^(BYTE_BITS * mc_current)
        BY <1>8, <3>1 DEF Controller!NextReadByte
      <4>2. mc_goal \in 1 .. WORD_BYTES /\ mc_buffer \in Nat /\ mc_buffer < 2^(BYTE_BITS * mc_current)
        BY <1>1, <1>2, <3>1, WordArithmetic DEF Transfer
      <4>3. mc_current \in 0 .. WORD_BYTES - 1
        BY <1>3, <2>1, <4>2
      <4> QED BY <3>1, <4>1, <4>2, <4>3, BufferGrows
    <3>2. CASE mc_working_on # "LOAD"
      <4>1. mc_buffer' = mc_buffer
        BY <1>8, <3>2 DEF Controller!NextReadByte
      <4> QED BY <1>1, <3>2, <4>1 DEF Transfer
    <3> QED BY <3>1, <3>2
  <2>3. CASE mc_current = mc_goal - 1
    <3>1. /\ mc_status' = "FINISH" /\ mc_current' = 0 /\ mc_waiting' = mc_waiting
          /\ mc_rw' = mc_rw /\ mc_address' = mc_address /\ mc_data' = mc_data
      BY <1>8, <2>3 DEF Controller!NextReadByte, Controller!KeepPins
    <3> QED BY <1>1, <1>2, <2>1, <2>2, <3>1 DEF Transfer, PinsOut
  <2>4. CASE mc_current # mc_goal - 1
    <3>1. /\ mc_status' = mc_status /\ mc_current' = mc_current + 1 /\ mc_waiting' = TRUE
          /\ mc_rw' = "READ" /\ mc_address' = Add(mc_current_address, mc_current + 1) /\ mc_data' = mc_data
      BY <1>8, <2>4, ControllerNames DEF Controller!NextReadByte, Controller!Show
    <3>2. mc_current + 1 \in 0 .. mc_goal - 1 /\ mc_current + 1 \in Nat
      BY <1>3, <2>1, <2>4
    <3>3. PinsOut'
      BY <1>1, <1>4, <3>1, <3>2 DEF PinsOut
    <3> HIDE DEF Requests
    <3>4. Transfer'
      BY <1>1, <1>2, <2>1, <2>2, <3>1, <3>2 DEF Transfer
    <3> QED BY <3>3, <3>4
  <2> QED BY <2>3, <2>4
<1> QED BY <1>6, <1>7, <1>8

\* And the cycle in which the controller answers.
LEMMA FinishDone ==
  ASSUME Asked, NEW rst \in BOOLEAN, ~rst, ~rob_out.rollback, Controller!Finish(fet_out, lsb_out, program)
  PROVE  Done(rst)
<1>1. /\ Waiting /\ OnePlace /\ Transfer /\ PinsOut /\ FetcherType /\ LsbType /\ KindsKnown
      /\ program \in [Word -> Instruction]
      /\ lsb_out.mc_request => ~AccessPending
      /\ fet_out.mc_request => ~FetchPending
  BY DEF Asked, Board, PinsOut
<1>2. /\ mc_status = "FINISH" /\ mc_status' = "IDLE" /\ mc_working_on' = "NONE" /\ mc_buffer' = 0
      /\ mc_goal' = 0 /\ mc_current_address' = 0 /\ mc_current_data' = 0
      /\ mc_waiting' = mc_waiting /\ mc_current' = mc_current
      /\ mc_rw' = "READ" /\ mc_address' = 0 /\ mc_data' = mc_data
      /\ Controller!Remember(fet_out, lsb_out, "NONE")
  BY DEF Controller!Finish, Controller!Release, Controller!Show
<1>3. /\ Waiting'
      /\ mc_inst_request'.pending <=> fet_out.mc_request \/ mc_inst_request.pending
      /\ mc_load_request'.pending <=> (lsb_out.mc_request /\ ~lsb_out.mc_store) \/ mc_load_request.pending
      /\ mc_store_request'.pending <=> (lsb_out.mc_request /\ lsb_out.mc_store) \/ mc_store_request.pending
  BY <1>1, <1>2, Remembered
<1>4. 0 \in Word
  BY WordArithmetic
<1>5. Transfer' /\ PinsOut'
  BY <1>1, <1>2, <1>4 DEF Transfer, PinsOut
<1>6. OnePlace'
  BY <1>1, <1>2, <1>3 DEF OnePlace, AccessPending, FetchPending
<1>7. mc_working_on \in {"INSTRUCTION", "LOAD", "STORE"}
  BY <1>1, <1>2 DEF Transfer
<1>8. /\ mc_out' \in MemoryOutput
      /\ mc_out'.fet_ready <=> mc_working_on = "INSTRUCTION"
      /\ mc_out'.lsb_ready <=> mc_working_on \in {"LOAD", "STORE"}
  <2> DEFINE i == program[mc_current_address]
  <2>1. i \in Instruction /\ mc_buffer \in Word
    BY <1>1 DEF Transfer
  <2> HIDE DEF i
  <2>2. Controller!Quiet \in MemoryOutput /\ ~Controller!Quiet.fet_ready /\ ~Controller!Quiet.lsb_ready
    BY ControllerRest
  <2>3. CASE mc_working_on = "STORE"
    <3>1. mc_out' = [Controller!Quiet EXCEPT !.lsb_ready = TRUE]
      BY <2>3 DEF Controller!Finish
    <3>2. mc_out' \in MemoryOutput /\ mc_out'.lsb_ready /\ mc_out'.fet_ready = Controller!Quiet.fet_ready
      BY <2>2, <3>1, Zenon DEF MemoryOutput
    <3> QED BY <2>2, <2>3, <3>2
  <2>4. CASE mc_working_on = "LOAD"
    <3>1. mc_out' = [Controller!Quiet EXCEPT !.lsb_ready = TRUE, !.lsb_data = mc_buffer]
      BY <2>4 DEF Controller!Finish
    <3>2. mc_out' \in MemoryOutput /\ mc_out'.lsb_ready /\ mc_out'.fet_ready = Controller!Quiet.fet_ready
      BY <2>1, <2>2, <3>1, Zenon DEF MemoryOutput
    <3> QED BY <2>2, <2>4, <3>2
  <2>5. CASE mc_working_on = "INSTRUCTION"
    <3>1. mc_out' = [Controller!Quiet EXCEPT !.fet_ready = TRUE, !.fet_instruction = i]
      BY <2>5 DEF Controller!Finish, i
    <3>2. mc_out' \in MemoryOutput /\ mc_out'.fet_ready /\ mc_out'.lsb_ready = Controller!Quiet.lsb_ready
      BY <2>1, <2>2, <3>1, Zenon DEF MemoryOutput
    <3> QED BY <2>2, <2>5, <3>2
  <2> QED BY <1>7, <2>3, <2>4, <2>5
<1>9. FetchServed(rst, FetchPending, FetchPending', mc_out'.fet_ready)
  BY <1>1, <1>2, <1>3, <1>8 DEF FetchServed, FetchPending, OnePlace
<1>10. AccessServed(rst, AccessPending, StorePending, AccessPending', StorePending', mc_out'.lsb_ready)
  BY <1>1, <1>2, <1>3, <1>7, <1>8 DEF AccessServed, AccessPending, StorePending, OnePlace
<1> QED BY <1>3, <1>5, <1>6, <1>8, <1>9, <1>10 DEF Done

\* So in every cycle.
LEMMA ControllerDone ==
  ASSUME Asked, NEW rst \in BOOLEAN, NEW full, NEW host \in Hosts,
         Controller!Clock(rst, rob_out, fet_out, lsb_out, full, program, host)
  PROVE  Done(rst) /\ Board'
<1>1. Controller!Pins(host) /\ Board
  BY DEF Asked, Controller!Clock
<1>2. Controller!ram_data_in \in Byte
  BY <1>1, PinsTypes
<1>3. Done(rst)
  <2>1. CASE rst /\ Controller!Reset
    BY <2>1, ResetDone
  <2>2. CASE ~rst /\ rob_out.rollback /\ Controller!Rollback(lsb_out)
    BY <2>2, RollbackDone
  <2>3. CASE ~rst /\ ~rob_out.rollback /\ Controller!Operate(fet_out, lsb_out, full, program)
    BY <1>2, <2>3, StartsDone, BytesDone, FinishDone DEF Controller!Operate
  <2> QED BY <2>1, <2>2, <2>3 DEF Controller!Clock
<1>4. Board'
  BY <1>1, <1>3, PinsTypes DEF Done, PinsOut, Board
<1> QED BY <1>3, <1>4

(***************************************************************************)
(* The inductive invariant of the machine.                                 *)
(***************************************************************************)
Settled == /\ settled_ram \in [Word -> Byte]
           /\ settled_reads \in 0 .. IO_PERIOD - 1 /\ settled_writes \in 0 .. IO_PERIOD - 1
           /\ input_taken \in BOOLEAN

BytesInv == /\ CoreInv
            /\ Waiting /\ OnePlace /\ Transfer /\ Board
            /\ program \in [Word -> Instruction] /\ mc_out \in MemoryOutput
            /\ FetchAgreed(FetchPending, mc_out.fet_ready)
            /\ AccessAgreed(AccessPending, StorePending, mc_out.lsb_ready)
            /\ Settled

\* The machine starts in it.
LEMMA BytesStart == Init => BytesInv
<1> SUFFICES ASSUME Init PROVE BytesInv
  OBVIOUS
<1>1. CoreInv
  BY CoreStart DEF Init
<1>2. program \in [Word -> Instruction]
  BY ProgramsAssumption DEF Init, CoreInit, ProgramsAssumption
<1>3. /\ mc_status = "IDLE" /\ mc_working_on = "NONE" /\ mc_waiting = FALSE
      /\ mc_goal = 0 /\ mc_current = 0 /\ mc_current_address = 0 /\ mc_current_data = 0 /\ mc_buffer = 0
      /\ mc_inst_request = Controller!NoRequest /\ mc_load_request = Controller!NoRequest
      /\ mc_store_request = Controller!NoRequest
      /\ mc_rw = "READ" /\ mc_address = 0 /\ mc_data = 0
      /\ ram = [a \in Word |-> 0] /\ ram_read_address = 0
      /\ q_io_en = FALSE /\ q_io_dout = 0 /\ io_reads = 0 /\ io_writes = 0
      /\ mc_out = Controller!Quiet
  BY ControllerNames DEF Init, Controller!Init
<1>4. 0 \in Word /\ 0 \in Byte /\ 0 \in 0 .. IO_PERIOD - 1
  BY WordArithmetic, InputByte
<1>5. Waiting /\ OnePlace /\ ~FetchPending /\ ~AccessPending /\ mc_out \in MemoryOutput
      /\ ~mc_out.fet_ready /\ ~mc_out.lsb_ready
  BY <1>3, ControllerRest DEF Waiting, OnePlace, FetchPending, AccessPending
<1>6. Transfer /\ Board
  BY <1>3, <1>4 DEF Transfer, Board
<1>7. Settled
  BY <1>3, <1>4 DEF Init, Settled
<1>8. /\ FetchAgreed(FetchPending, mc_out.fet_ready)
      /\ AccessAgreed(AccessPending, StorePending, mc_out.lsb_ready)
  <2>1. /\ lsb_status = "IDLE" /\ ~lsb_out.mc_request
        /\ fet_status # "WAITING" /\ ~fet_out.mc_request
    BY DEF Init, CoreInit, LoadStoreBuffer!Init, LoadStoreBuffer!Quiet, Fetcher!Init, Fetcher!Quiet
  <2> QED BY <1>5, <2>1 DEF AccessAgreed, FetchAgreed, Nowhere
<1> QED BY <1>1, <1>2, <1>5, <1>6, <1>7, <1>8 DEF BytesInv

\* In it, nobody asks for a second thing.
LEMMA BytesAsked == BytesInv => Asked
BY DEF BytesInv, CoreInv, CoreType, Asked, FetchAgreed, AccessAgreed, Single, Nowhere

\* Every cycle keeps it, with whoever on the bus.
LEMMA BytesCycle ==
  ASSUME BytesInv, NEW rst \in BOOLEAN, NEW full, NEW host \in Hosts, Cycle(rst, full, host)
  PROVE  BytesInv'
<1>1. /\ CoreInv /\ FetcherType /\ LsbType /\ NoInput /\ Signals
      /\ FetchAgreed(FetchPending, mc_out.fet_ready)
      /\ AccessAgreed(AccessPending, StorePending, mc_out.lsb_ready)
      /\ mc_out \in MemoryOutput /\ Settled /\ Board /\ program \in [Word -> Instruction]
  BY DEF BytesInv, CoreInv, CoreType, SchedInv
<1>2. /\ Controller!Clock(rst, rob_out, fet_out, lsb_out, full, program, host)
      /\ CoreCycle(rst, mc_out)
      /\ program' = program
      /\ Fetcher!Clock(rst, AnyFull, rob_out, mc_out)
      /\ LoadStoreBuffer!Clock(rst, Decoded, Broadcast, rob_out, mc_out)
      /\ Settle(rst)
  BY DEF Cycle, CoreCycle
<1>3. Done(rst) /\ Board'
  BY <1>2, BytesAsked, ControllerDone
<1>4. CoreInv'
  BY <1>1, <1>2, CoreStep
<1>5. FetchAgreed(FetchPending, mc_out.fet_ready)'
  <2>1. PICK p, r : p = FetchPending' /\ r = mc_out'.fet_ready
    OBVIOUS
  <2>2. FetchServed(rst, FetchPending, p, r)
    BY <1>3, <2>1 DEF Done
  <2>3. FetchAgreed(p, r)'
    BY <1>1, <1>2, <2>2, FetchAgreedStep
  <2> QED BY <2>1, <2>3 DEF FetchAgreed
<1>6. AccessAgreed(AccessPending, StorePending, mc_out.lsb_ready)'
  <2>1. PICK p, s, r : p = AccessPending' /\ s = StorePending' /\ r = mc_out'.lsb_ready
    OBVIOUS
  <2>2. AccessServed(rst, AccessPending, StorePending, p, s, r)
    BY <1>3, <2>1 DEF Done
  <2>3. AccessAgreed(p, s, r)'
    BY <1>1, <1>2, <2>2, AccessAgreedStep
  <2> QED BY <2>1, <2>3 DEF AccessAgreed
<1>7. Settled'
  BY <1>1, <1>2, <1>3 DEF Settle, Settled, Board
<1> QED BY <1>1, <1>2, <1>3, <1>4, <1>5, <1>6, <1>7 DEF BytesInv, Done

\* It is about the registers only.
LEMMA BytesStutter == BytesInv /\ UNCHANGED vars => BytesInv'
<1> SUFFICES ASSUME BytesInv, UNCHANGED vars PROVE BytesInv'
  OBVIOUS
<1>1. UNCHANGED coreVars /\ UNCHANGED mcVars
      /\ UNCHANGED <<settled_ram, settled_reads, settled_writes, input_taken>>
  BY DEF vars
<1>2. CoreInv'
  BY <1>1, CoreStutter DEF BytesInv
<1>3. /\ program' = program /\ fet_status' = fet_status /\ fet_out' = fet_out
      /\ lsb_status' = lsb_status /\ lsb_out' = lsb_out /\ lsb_current_address' = lsb_current_address
  BY <1>1 DEF coreVars, fetVars, lsbVars
<1>4. (Waiting /\ OnePlace /\ Transfer /\ Board)'
  BY <1>1 DEF mcVars, BytesInv, Waiting, OnePlace, Transfer, Board
<1>5. /\ FetchPending' = FetchPending /\ AccessPending' = AccessPending /\ StorePending' = StorePending
      /\ mc_out' = mc_out
  BY <1>1 DEF mcVars, FetchPending, AccessPending, StorePending
<1>6. /\ FetchAgreed(FetchPending, mc_out.fet_ready)'
      /\ AccessAgreed(AccessPending, StorePending, mc_out.lsb_ready)'
  BY <1>3, <1>5 DEF BytesInv, FetchAgreed, AccessAgreed, Single, Nowhere
<1> QED BY <1>1, <1>2, <1>3, <1>4, <1>5, <1>6 DEF BytesInv, Settled

\* The processor has the bus.
LEMMA ProcessorHost == Controller!CpuHasBus \in Hosts
BY WordArithmetic, InputByte, Zenon DEF Controller!CpuHasBus, Hosts

\* While nothing but the processor is on the bus.
LEMMA BytesAlways == Spec => []BytesInv
<1>1. BytesInv /\ Next => BytesInv'
  BY BytesCycle, ProcessorHost DEF Next, Run, RunFull
<1> QED BY <1>1, BytesStart, BytesStutter, PTL DEF Spec

\* With the host.
LEMMA TopAlways == TopSpec => [](BytesInv /\ active \in BOOLEAN /\ left_over \in BOOLEAN)
<1> DEFINE Inv == BytesInv /\ active \in BOOLEAN /\ left_over \in BOOLEAN
<1>1. TopInit => Inv
  BY BytesStart DEF TopInit
<1>2. Inv /\ TopNext => Inv'
  <2> SUFFICES ASSUME Inv, TopNext PROVE Inv'
    OBVIOUS
  <2>1. /\ mc_rw \in {"READ", "WRITE"} /\ mc_address \in Word /\ mc_data \in Byte
    BY DEF BytesInv, Board
  <2>2. 0 \in Word /\ 0 \in Byte
    BY WordArithmetic, InputByte
  <2>3. \A wr \in BOOLEAN, a \in Word, din \in Byte : HostBus(wr, a, din) \in Hosts
    BY Zenon DEF HostBus, Hosts
  <2>4. CASE RunProgram
    <3>1. \E full \in BOOLEAN : Cycle(FALSE, full, Controller!CpuHasBus)
      BY <2>4 DEF RunProgram
    <3> QED BY <2>4, <3>1, BytesCycle, ProcessorHost DEF RunProgram, KeepsPins
  <2>5. CASE Break
    BY <2>5, BytesCycle, ProcessorHost DEF Break
  <2>6. CASE PressReset
    <3> DEFINE wr == mc_rw = "WRITE" /\ ~IsIo(mc_address)
    <3>1. wr \in BOOLEAN
      OBVIOUS
    <3> HIDE DEF wr
    <3>2. [active |-> TRUE, a |-> mc_address, din |-> mc_data, wr |-> wr] \in Hosts
      BY <2>1, <3>1, Zenon DEF Hosts
    <3>3. Cycle(TRUE, FALSE, [active |-> TRUE, a |-> mc_address, din |-> mc_data, wr |-> wr])
      BY <2>6 DEF PressReset, wr
    <3> QED BY <2>6, <3>2, <3>3, BytesCycle DEF PressReset
  <2>7. CASE HostWrites
    <3>1. PICK u \in Uploads : Cycle(TRUE, FALSE, HostBus(TRUE, u.a, u.din))
      BY <2>7 DEF HostWrites
    <3>2. u.a \in Word /\ u.din \in Byte
      BY UploadsAssumption DEF UploadsAssumption
    <3> QED BY <2>3, <2>7, <3>1, <3>2, BytesCycle DEF HostWrites
  <2>8. CASE HostWaits
    BY <2>2, <2>3, <2>8, BytesCycle DEF HostWaits
  <2>9. CASE LetRun
    BY <2>2, <2>3, <2>9, BytesCycle DEF LetRun
  <2> QED BY <2>4, <2>5, <2>6, <2>7, <2>8, <2>9 DEF TopNext
<1>3. Inv /\ UNCHANGED topVars => Inv'
  BY BytesStutter DEF topVars
<1> QED BY <1>1, <1>2, <1>3, PTL DEF TopSpec

\* In the invariant, the fetch and the access that Cpu would see are the ones under way.
LEMMA BytesAgree == BytesInv => RequestsAgree
<1> SUFFICES ASSUME BytesInv PROVE RequestsAgree
  OBVIOUS
<1>1. /\ Waiting /\ Transfer
      /\ FetchAgreed(FetchPending, mc_out.fet_ready)
      /\ AccessAgreed(AccessPending, StorePending, mc_out.lsb_ready)
  BY DEF BytesInv
<1>2. Fetch.pending <=> FetchPending
  BY <1>1, RequestFields DEF Fetch, FetchPending
<1>3. AccessRequest.pending <=> AccessPending
  BY <1>1, RequestFields DEF AccessRequest, AccessPending, AccessWaiting, Pending
<1>4. AccessRequest.pending => (AccessRequest.store <=> StorePending)
  BY <1>1, RequestFields DEF AccessRequest, StorePending, AccessWaiting, Pending
<1> QED BY <1>1, <1>2, <1>3, <1>4
        DEF RequestsAgree, FetchAgreed, AccessAgreed, Single, Nowhere, AnyTiming!FetchesAgree,
            AnyTiming!AccessesAgree, AnyTiming!OneOf, AnyTiming!None

\* In the invariant, every register has its type.
LEMMA BytesTypes == BytesInv => TypeOK
<1> SUFFICES ASSUME BytesInv PROVE TypeOK
  OBVIOUS
<1>1. CoreTypeOK
  BY CoreTypeIs DEF BytesInv, CoreInv
<1>2. Waiting /\ Transfer /\ Board /\ mc_out \in MemoryOutput /\ Settled
  BY DEF BytesInv
<1>3. INST_GOAL \in Nat /\ INST_GOAL >= 1 /\ WORD_BYTES \in Nat /\ WORD_BYTES >= 2
  BY GoalPositive
<1>4. mc_goal \in 0 .. WORD_BYTES \cup {INST_GOAL}
  BY <1>2, <1>3 DEF Transfer
<1>5. mc_current \in 0 .. WORD_BYTES \cup 0 .. INST_GOAL
  <2>1. CASE mc_status # "BUSY"
    BY <1>2, <1>3, <2>1 DEF Transfer
  <2>2. CASE mc_status = "BUSY"
    <3>1. mc_goal \in 0 .. WORD_BYTES \/ mc_goal = INST_GOAL
      BY <1>4
    <3>2. mc_current \in 0 .. mc_goal
      BY <1>2, <1>3, <2>2, <3>1 DEF Transfer
    <3> QED BY <1>3, <3>1, <3>2
  <2> QED BY <2>1, <2>2
<1>6. Controller!Request = Requests
  BY ControllerNames DEF Controller!Request, Requests
<1>7. {mc_inst_request, mc_load_request, mc_store_request} \subseteq Requests
  BY <1>2 DEF Waiting
<1>8. Controller!TypeOK
  BY <1>2, <1>4, <1>5, <1>6, <1>7, ControllerNames DEF Controller!TypeOK, Transfer, Board, MemoryOutput
<1> QED BY <1>1, <1>2, <1>8 DEF TypeOK, Settled

(***************************************************************************)
(* The pins have an owner.                                                 *)
(***************************************************************************)

\* What is on the pins as a write is a byte of the store under way, unless it was
\* left there; it is nothing at all while the host has the bus.
WritesOwned ==
  mc_rw = "WRITE" /\ ~left_over =>
    ~active /\ mc_working_on = "STORE" /\ Sub(mc_address, mc_current_address) < mc_goal

\* An I/O address on the pins that the host has not seen yet is there for an access to the port.
PortOwned ==
  /\ IsIo(mc_address) /\ ~left_over /\ ~active /\ ~q_io_en =>
       mc_working_on = (IF mc_rw = "WRITE" THEN "STORE" ELSE "LOAD") /\ IsIo(mc_current_address)
  /\ active /\ ~left_over => ~IsIo(mc_address)

\* Only accesses that start at the port touch it: no access that starts at another
\* address runs into it, and nothing is fetched from there, not by a wrong prediction
\* either.  It is the program that sees to this, not the processor.
PortAlone ==
  mc_status = "BUSY" =>
    \A k \in 0 .. mc_goal - 1 : IsIo(Add(mc_current_address, k)) =>
      mc_working_on \in {"LOAD", "STORE"} /\ IsIo(mc_current_address)

OwnersInv == BytesInv /\ active \in BOOLEAN /\ left_over \in BOOLEAN /\ WritesOwned /\ PortOwned

\* How a cycle moves the pins: it leaves them, to the same store if there was one;
\* or releases them; or shows a byte of what is under way.
Moves ==
  \/ /\ pins' = pins
     /\ mc_working_on = "STORE" =>
          /\ mc_working_on' = "STORE" /\ mc_current_address' = mc_current_address /\ mc_goal' = mc_goal
  \/ mc_rw' = "READ" /\ mc_address' = 0
  \/ /\ mc_status' = "BUSY" /\ mc_working_on' \in {"INSTRUCTION", "LOAD", "STORE"}
     /\ mc_rw' = IF mc_working_on' = "STORE" THEN "WRITE" ELSE "READ"
     /\ \E k \in 0 .. mc_goal' - 1 : mc_address' = Add(mc_current_address', k)

\* Every cycle of the program does.
LEMMA PinsMove ==
  ASSUME BytesInv, NEW full,
         Controller!Clock(FALSE, rob_out, fet_out, lsb_out, full, program, Controller!CpuHasBus)
  PROVE  Moves
<1>1. Waiting /\ Transfer
  BY DEF BytesInv
<1>2. INST_GOAL \in Nat /\ INST_GOAL >= 1 /\ WORD_BYTES \in Nat
  BY GoalPositive
<1>3. \A a \in Word : Add(a, 0) = a
  BY FirstByte
<1>4. CASE rob_out.rollback /\ Controller!Rollback(lsb_out)
  BY <1>4 DEF Controller!Rollback, Controller!KeepPins, Moves, pins
<1>5. CASE ~rob_out.rollback /\ Controller!Operate(fet_out, lsb_out, full, program)
  <2>1. CASE Controller!StartStore(fet_out, lsb_out, full)
    <3>1. /\ mc_store_request.pending /\ mc_status' = "BUSY" /\ mc_working_on' = "STORE"
          /\ mc_goal' = mc_store_request.goal /\ mc_current_address' = mc_store_request.address
          /\ mc_rw' = "WRITE" /\ mc_address' = mc_store_request.address
      BY <2>1 DEF Controller!StartStore, Controller!CouldStore, Controller!StartWork, Controller!Show
    <3>2. mc_store_request.goal \in Nat /\ mc_store_request.goal >= 1 /\ mc_store_request.address \in Word
      BY <1>1, <1>2, <3>1, RequestFields DEF Waiting
    <3>3. 0 \in 0 .. mc_goal' - 1 /\ mc_address' = Add(mc_current_address', 0)
      BY <1>3, <3>1, <3>2
    <3> QED BY <3>1, <3>3 DEF Moves
  <2>2. CASE Controller!StartLoad(fet_out, lsb_out, full)
    <3>1. /\ mc_load_request.pending /\ mc_status' = "BUSY" /\ mc_working_on' = "LOAD"
          /\ mc_goal' = mc_load_request.goal /\ mc_current_address' = mc_load_request.address
          /\ mc_rw' = "READ" /\ mc_address' = mc_load_request.address
      BY <2>2 DEF Controller!StartLoad, Controller!StartWork, Controller!Show
    <3>2. mc_load_request.goal \in Nat /\ mc_load_request.goal >= 1 /\ mc_load_request.address \in Word
      BY <1>1, <1>2, <3>1, RequestFields DEF Waiting
    <3>3. 0 \in 0 .. mc_goal' - 1 /\ mc_address' = Add(mc_current_address', 0)
      BY <1>3, <3>1, <3>2
    <3> QED BY <3>1, <3>3 DEF Moves
  <2>3. CASE Controller!StartFetch(fet_out, lsb_out, full)
    <3>1. /\ mc_status' = "BUSY" /\ mc_working_on' = "INSTRUCTION"
          /\ mc_goal' = INST_GOAL /\ mc_current_address' = mc_inst_request.address
          /\ mc_rw' = "READ" /\ mc_address' = mc_inst_request.address
      BY <2>3 DEF Controller!StartFetch, Controller!StartWork, Controller!Show
    <3>2. mc_inst_request.address \in Word
      BY <1>1, RequestFields
    <3>3. 0 \in 0 .. mc_goal' - 1 /\ mc_address' = Add(mc_current_address', 0)
      BY <1>2, <1>3, <3>1, <3>2
    <3> QED BY <3>1, <3>3 DEF Moves
  <2>4. CASE Controller!Rest(fet_out, lsb_out, full)
    BY <2>4 DEF Controller!Rest, Controller!KeepPins, Moves, pins
  <2>5. CASE Controller!EndWait(fet_out, lsb_out)
    BY <2>5 DEF Controller!EndWait, Controller!Release, Controller!Show, Moves
  <2>6. CASE Controller!NextStoreByte(fet_out, lsb_out)
    <3>1. /\ mc_status = "BUSY" /\ mc_working_on = "STORE" /\ mc_working_on' = mc_working_on
          /\ mc_goal' = mc_goal /\ mc_current_address' = mc_current_address
      BY <2>6 DEF Controller!NextStoreByte, Controller!Busy
    <3>2. CASE mc_current = mc_goal
      BY <2>6, <3>1, <3>2 DEF Controller!NextStoreByte, Controller!KeepPins, Moves, pins
    <3>3. CASE mc_current # mc_goal
      <4>1. /\ mc_status' = "BUSY" /\ mc_rw' = "WRITE"
            /\ mc_address' = Add(mc_current_address, mc_current)
        BY <2>6, <3>1, <3>3, ControllerNames DEF Controller!NextStoreByte, Controller!Show
      <4>2. mc_current \in 0 .. mc_goal - 1
        BY <1>1, <1>2, <3>1, <3>3 DEF Transfer
      <4> QED BY <3>1, <4>1, <4>2 DEF Moves
    <3> QED BY <3>2, <3>3
  <2>7. CASE Controller!NextReadByte(fet_out, lsb_out)
    <3>1. /\ mc_status = "BUSY" /\ mc_working_on # "STORE" /\ mc_working_on' = mc_working_on
          /\ mc_goal' = mc_goal /\ mc_current_address' = mc_current_address
      BY <2>7 DEF Controller!NextReadByte, Controller!Busy
    <3>2. CASE mc_current = mc_goal - 1
      BY <2>7, <3>1, <3>2 DEF Controller!NextReadByte, Controller!KeepPins, Moves, pins
    <3>3. CASE mc_current # mc_goal - 1
      <4>1. /\ mc_status' = "BUSY" /\ mc_rw' = "READ"
            /\ mc_address' = Add(mc_current_address, mc_current + 1)
        BY <2>7, <3>1, <3>3, ControllerNames DEF Controller!NextReadByte, Controller!Show
      <4>2. mc_current + 1 \in 0 .. mc_goal - 1 /\ mc_working_on \in {"INSTRUCTION", "LOAD"}
        BY <1>1, <1>2, <3>1, <3>3 DEF Transfer
      <4> QED BY <3>1, <4>1, <4>2 DEF Moves
    <3> QED BY <3>2, <3>3
  <2>8. CASE Controller!Finish(fet_out, lsb_out, program)
    BY <2>8 DEF Controller!Finish, Controller!Release, Controller!Show, Moves
  <2> QED BY <1>5, <2>1, <2>2, <2>3, <2>4, <2>5, <2>6, <2>7, <2>8 DEF Controller!Operate
<1> QED BY <1>4, <1>5 DEF Controller!Clock

\* A reset leaves the pins, and what the processor does not own stays so.
LEMMA OwnersWait ==
  ASSUME OwnersInv, NEW full, NEW host, Cycle(TRUE, full, host), left_over' = left_over, active
  PROVE  WritesOwned' /\ PortOwned'
<1>1. mc_rw' = mc_rw /\ mc_address' = mc_address
  BY DEF Cycle, Controller!Clock, Controller!Reset, Controller!KeepPins
<1>2. WritesOwned /\ PortOwned
  BY DEF OwnersInv
<1> QED BY <1>1, <1>2 DEF WritesOwned, PortOwned

\* While the program runs, what comes onto the pins has an owner.
LEMMA OwnersRun ==
  ASSUME OwnersInv, RunProgram, PortAlone', BytesInv'
  PROVE  WritesOwned' /\ PortOwned'
<1>1. PICK full \in BOOLEAN : Cycle(FALSE, full, Controller!CpuHasBus)
  BY DEF RunProgram
<1>2. /\ ~active /\ ~active' /\ left_over' = (left_over /\ pins' = pins)
      /\ WritesOwned /\ PortOwned /\ BytesInv
  BY DEF RunProgram, KeepsPins, OwnersInv
<1>3. /\ Controller!Clock(FALSE, rob_out, fet_out, lsb_out, full, program, Controller!CpuHasBus)
      /\ q_io_en' <=> IsIo(mc_address)
  <2>1. Controller!Clock(FALSE, rob_out, fet_out, lsb_out, full, program, Controller!CpuHasBus)
    BY <1>1 DEF Cycle
  <2>2. q_io_en' = Controller!io_en(Controller!CpuHasBus)
    BY <2>1 DEF Controller!Clock, Controller!Pins
  <2>3. Controller!io_en(Controller!CpuHasBus) <=> IsIo(mc_address)
    BY ControllerNames DEF Controller!io_en, Controller!CpuHasBus
  <2> QED BY <2>1, <2>2, <2>3
<1>4. Moves
  BY <1>2, <1>3, PinsMove
<1>5. CASE /\ pins' = pins
           /\ mc_working_on = "STORE" =>
                /\ mc_working_on' = "STORE" /\ mc_current_address' = mc_current_address /\ mc_goal' = mc_goal
  <2>1. mc_rw' = mc_rw /\ mc_address' = mc_address /\ (left_over' <=> left_over)
    BY <1>2, <1>5 DEF pins
  <2> QED BY <1>2, <1>3, <1>5, <2>1 DEF WritesOwned, PortOwned
<1>6. CASE mc_rw' = "READ" /\ mc_address' = 0
  BY <1>2, <1>6, RestAssumption DEF WritesOwned, PortOwned, RestAssumption
<1>7. CASE /\ mc_status' = "BUSY" /\ mc_working_on' \in {"INSTRUCTION", "LOAD", "STORE"}
           /\ mc_rw' = IF mc_working_on' = "STORE" THEN "WRITE" ELSE "READ"
           /\ \E k \in 0 .. mc_goal' - 1 : mc_address' = Add(mc_current_address', k)
  <2>1. PICK k \in 0 .. mc_goal' - 1 : mc_address' = Add(mc_current_address', k)
    BY <1>7
  <2>2. Transfer'
    BY DEF BytesInv
  <2>3. WritesOwned'
    <3> SUFFICES ASSUME mc_working_on' = "STORE"
                 PROVE  Sub(mc_address', mc_current_address') < mc_goal'
      BY <1>2, <1>7 DEF WritesOwned
    <3> DEFINE a == mc_current_address'
    <3>1. a \in Word /\ mc_goal' \in 1 .. WORD_BYTES
      BY <2>2 DEF Transfer
    <3>2. k \in 0 .. WORD_BYTES - 1 /\ k < mc_goal'
      <4>1. PICK g \in 1 .. WORD_BYTES : g = mc_goal'
        BY <3>1
      <4>2. k \in 0 .. g - 1
        BY <4>1
      <4>3. \A n \in Nat : \A h \in 1 .. n : \A j \in 0 .. h - 1 : j \in 0 .. n - 1 /\ j < h
        OBVIOUS
      <4>4. k \in 0 .. WORD_BYTES - 1 /\ k < g
        BY <4>1, <4>2, <4>3, GoalPositive
      <4> QED BY <4>1, <4>4
    <3>3. mc_address' = Add(a, k)
      BY <2>1
    <3> HIDE DEF a
    <3>4. Sub(Add(a, k), a) = k
      BY <3>1, <3>2, ByteAfter
    <3> QED BY <3>2, <3>3, <3>4 DEF a
  <2>4. PortOwned'
    BY <1>2, <1>7, <2>1 DEF PortOwned, PortAlone
  <2> QED BY <2>3, <2>4
<1> QED BY <1>4, <1>5, <1>6, <1>7 DEF Moves

\* The pins have their owners in every state.
LEMMA OwnersAlways == TopSpec /\ []PortAlone => []OwnersInv
<1>1. TopInit => WritesOwned /\ PortOwned
  BY RestAssumption
     DEF RestAssumption, TopInit, Init, Controller!Init, WritesOwned, PortOwned
<1>2. OwnersInv /\ BytesInv' /\ PortAlone' /\ TopNext => (WritesOwned /\ PortOwned)'
  <2> SUFFICES ASSUME OwnersInv, BytesInv', PortAlone', TopNext PROVE (WritesOwned /\ PortOwned)'
    OBVIOUS
  <2>1. CASE RunProgram
    BY <2>1, OwnersRun
  <2>2. CASE Break \/ PressReset
    BY <2>2 DEF Break, PressReset, WritesOwned, PortOwned
  <2>3. CASE HostWrites \/ HostWaits \/ LetRun
    <3>1. active /\ left_over' = left_over /\ \E host : Cycle(TRUE, FALSE, host)
      BY <2>3 DEF HostWrites, HostWaits, LetRun
    <3> QED BY <3>1, OwnersWait
  <2> QED BY <2>1, <2>2, <2>3 DEF TopNext
<1>3. OwnersInv /\ UNCHANGED topVars => (WritesOwned /\ PortOwned)'
  BY DEF OwnersInv, WritesOwned, PortOwned, topVars, vars, mcVars
<1>4. OwnersInv <=> BytesInv /\ active \in BOOLEAN /\ left_over \in BOOLEAN /\ WritesOwned /\ PortOwned
  BY DEF OwnersInv
<1> QED BY <1>1, <1>2, <1>3, <1>4, TopAlways, PTL DEF TopSpec

\* A cycle of the bus changes the RAM at one address, and counts an input or an
\* output when the host sees a new I/O address of the processor's.
LEMMA BusChanges ==
  ASSUME OwnersInv, ~active, TopNext
  PROVE  /\ \A a \in Word : ram'[a] # ram[a] => a = mc_address /\ mc_rw = "WRITE" /\ ram'[a] = mc_data
         /\ io_reads' # io_reads => IsIo(mc_address) /\ ~q_io_en /\ mc_rw # "WRITE"
         /\ io_writes' # io_writes => IsIo(mc_address) /\ ~q_io_en /\ mc_rw = "WRITE"
<1>1. /\ ram \in [Word -> Byte] /\ mc_address \in Word
      /\ io_reads \in 0 .. IO_PERIOD - 1 /\ io_writes \in 0 .. IO_PERIOD - 1
  BY DEF OwnersInv, BytesInv, Board
<1>2. PICK host, rst, full :
           /\ Cycle(rst, full, host)
           /\ \/ host = Controller!CpuHasBus
              \/ host = [active |-> TRUE, a |-> mc_address, din |-> mc_data,
                         wr |-> mc_rw = "WRITE" /\ ~IsIo(mc_address)]
  BY DEF TopNext, RunProgram, Break, PressReset, HostWrites, HostWaits, LetRun
<1>3. Controller!Pins(host)
  BY <1>2 DEF Cycle, Controller!Clock
<1>4. /\ Controller!cpumc_a(host) = mc_address /\ Controller!cpumc_din(host) = mc_data
      /\ Controller!writing(host) => mc_rw = "WRITE"
      /\ Controller!HostActs(host) => IsIo(mc_address) /\ ~q_io_en /\ (Controller!writing(host) <=> mc_rw = "WRITE")
  <2>1. CASE host = Controller!CpuHasBus
    <3>1. ~host.active
      BY <2>1 DEF Controller!CpuHasBus
    <3> QED BY <3>1, ControllerNames
            DEF Controller!cpumc_a, Controller!cpumc_din, Controller!writing, Controller!HostActs,
               Controller!io_en
  <2>2. CASE host = [active |-> TRUE, a |-> mc_address, din |-> mc_data,
                     wr |-> mc_rw = "WRITE" /\ ~IsIo(mc_address)]
    <3>1. /\ host.active /\ host.a = mc_address /\ host.din = mc_data
          /\ host.wr <=> mc_rw = "WRITE" /\ ~IsIo(mc_address)
      BY <2>2
    <3> QED BY <3>1
            DEF Controller!cpumc_a, Controller!cpumc_din, Controller!writing, Controller!HostActs,
               Controller!io_en
  <2> QED BY <1>2, <2>1, <2>2
<1>5. ram' = ram \/ (mc_rw = "WRITE" /\ ram' = [ram EXCEPT ![mc_address] = mc_data])
  BY <1>3, <1>4 DEF Controller!Pins
<1>6. \A n \in 0 .. IO_PERIOD - 1 : (n + Controller!Flag(FALSE)) % IO_PERIOD = n
  BY FirstByte, ControllerNames
<1>7. \A n \in 0 .. IO_PERIOD - 1 : \A b : ~b => (n + Controller!Flag(b)) % IO_PERIOD = n
  BY <1>6 DEF Controller!Flag
<1>8. /\ io_reads' # io_reads => Controller!HostActs(host) /\ ~Controller!writing(host)
      /\ io_writes' # io_writes => Controller!HostActs(host) /\ Controller!writing(host)
  BY <1>1, <1>3, <1>7 DEF Controller!Pins
<1> QED BY <1>1, <1>4, <1>5, <1>8

(***************************************************************************)
(* The processor as Cpu has it: the same core, by names of its own.        *)
(***************************************************************************)

\* A cycle of the fetcher is the same in both.
LEMMA SameFetcher ==
  \A rst, full, rob, mc : AnyTiming!Fetcher!Clock(rst, full, rob, mc) <=> Fetcher!Clock(rst, full, rob, mc)
BY DEF AnyTiming!Fetcher!Clock, Fetcher!Clock, AnyTiming!Fetcher!Reset, Fetcher!Reset,
       AnyTiming!Fetcher!Rollback, Fetcher!Rollback, AnyTiming!Fetcher!Operate, Fetcher!Operate,
       AnyTiming!Fetcher!ZeroInstruction, Fetcher!ZeroInstruction, AnyTiming!Fetcher!InvalidLine,
       Fetcher!InvalidLine, AnyTiming!Fetcher!Quiet, Fetcher!Quiet, AnyTiming!Fetcher!Train, Fetcher!Train,
       AnyTiming!Fetcher!Hit, Fetcher!Hit, AnyTiming!Fetcher!Miss, Fetcher!Miss, AnyTiming!Fetcher!Fill,
       Fetcher!Fill, AnyTiming!Fetcher!Issue, Fetcher!Issue, AnyTiming!Fetcher!Wait, Fetcher!Wait,
       AnyTiming!Fetcher!BpHash, Fetcher!BpHash, AnyTiming!Fetcher!Saturating, Fetcher!Saturating,
       AnyTiming!Fetcher!cache_hit, Fetcher!cache_hit, AnyTiming!Fetcher!cache_inst, Fetcher!cache_inst,
       AnyTiming!Fetcher!CacheIndex, Fetcher!CacheIndex, AnyTiming!Fetcher!CacheTag, Fetcher!CacheTag,
       AnyTiming!Fetcher!PredictedPc, Fetcher!PredictedPc, AnyTiming!Fetcher!Opcode, Fetcher!Opcode,
       AnyTiming!Fetcher!Funct3Is4, Fetcher!Funct3Is4, AnyTiming!Fetcher!BranchOps, Fetcher!BranchOps,
       AnyTiming!Fetcher!Add, Fetcher!Add, AnyTiming!Fetcher!LoadOps, Fetcher!LoadOps,
       AnyTiming!Fetcher!StoreOps, Fetcher!StoreOps, AnyTiming!Fetcher!ArithImmOps, Fetcher!ArithImmOps,
       AnyTiming!Fetcher!ArithOps, Fetcher!ArithOps

\* A cycle of the reorder buffer is.
LEMMA SameReorderBuffer ==
  \A rst, dec, alu, lsb :
    AnyTiming!ReorderBuffer!Clock(rst, dec, alu, lsb) <=> ReorderBuffer!Clock(rst, dec, alu, lsb)
BY DEF AnyTiming!ReorderBuffer!Clock, ReorderBuffer!Clock, AnyTiming!ReorderBuffer!Reset, ReorderBuffer!Reset,
       AnyTiming!ReorderBuffer!Rollback, ReorderBuffer!Rollback, AnyTiming!ReorderBuffer!Operate,
       ReorderBuffer!Operate, AnyTiming!ReorderBuffer!RobTag, ReorderBuffer!RobTag,
       AnyTiming!ReorderBuffer!EmptyEntry, ReorderBuffer!EmptyEntry, AnyTiming!ReorderBuffer!Quiet,
       ReorderBuffer!Quiet, AnyTiming!ReorderBuffer!Insert, ReorderBuffer!Insert,
       AnyTiming!ReorderBuffer!Commit, ReorderBuffer!Commit, AnyTiming!ReorderBuffer!ReleaseIoLoad,
       ReorderBuffer!ReleaseIoLoad, AnyTiming!ReorderBuffer!Hold, ReorderBuffer!Hold,
       AnyTiming!ReorderBuffer!NULL_TAG, ReorderBuffer!NULL_TAG, AnyTiming!ReorderBuffer!tail_next,
       ReorderBuffer!tail_next, AnyTiming!ReorderBuffer!head_next, ReorderBuffer!head_next,
       AnyTiming!ReorderBuffer!CanCommit, ReorderBuffer!CanCommit, AnyTiming!ReorderBuffer!Updated,
       ReorderBuffer!Updated, AnyTiming!ReorderBuffer!Freed, ReorderBuffer!Freed,
       AnyTiming!ReorderBuffer!CommitPulse, ReorderBuffer!CommitPulse, AnyTiming!ReorderBuffer!Mispredicts,
       ReorderBuffer!Mispredicts, AnyTiming!ReorderBuffer!NextSlot, ReorderBuffer!NextSlot,
       AnyTiming!ReorderBuffer!in_queue, ReorderBuffer!in_queue, AnyTiming!ReorderBuffer!Inserted,
       ReorderBuffer!Inserted, AnyTiming!ReorderBuffer!Add, ReorderBuffer!Add

\* A cycle of the register file is.
LEMMA SameRegisterFile ==
  \A rst, rob, dec : AnyTiming!RegisterFile!Clock(rst, rob, dec) <=> RegisterFile!Clock(rst, rob, dec)
BY DEF AnyTiming!RegisterFile!Clock, RegisterFile!Clock, AnyTiming!RegisterFile!Reset, RegisterFile!Reset,
       AnyTiming!RegisterFile!Rollback, RegisterFile!Rollback, AnyTiming!RegisterFile!Operate,
       RegisterFile!Operate, AnyTiming!RegisterFile!RegIndex, RegisterFile!RegIndex,
       AnyTiming!RegisterFile!NULL_TAG, RegisterFile!NULL_TAG

\* A cycle of the reservation station is.
LEMMA SameReservationStation ==
  \A rst, dec, alu, lsb, rob :
    AnyTiming!ReservationStation!Clock(rst, dec, alu, lsb, rob) <=> ReservationStation!Clock(rst, dec, alu, lsb, rob)
BY DEF AnyTiming!ReservationStation!Clock, ReservationStation!Clock, AnyTiming!ReservationStation!Clear,
       ReservationStation!Clear, AnyTiming!ReservationStation!Operate, ReservationStation!Operate,
       AnyTiming!ReservationStation!RsIndex, ReservationStation!RsIndex,
       AnyTiming!ReservationStation!EmptyEntry, ReservationStation!EmptyEntry,
       AnyTiming!ReservationStation!NoOperation, ReservationStation!NoOperation,
       AnyTiming!ReservationStation!Free, ReservationStation!Free, AnyTiming!ReservationStation!Min,
       ReservationStation!Min, AnyTiming!ReservationStation!Ready, ReservationStation!Ready,
       AnyTiming!ReservationStation!Arriving, ReservationStation!Arriving,
       AnyTiming!ReservationStation!Snooping, ReservationStation!Snooping,
       AnyTiming!ReservationStation!Operation, ReservationStation!Operation,
       AnyTiming!ReservationStation!NULL_TAG, ReservationStation!NULL_TAG, AnyTiming!ReservationStation!Hear,
       ReservationStation!Hear

\* They start alike.
LEMMA SameInits ==
  /\ AnyTiming!Fetcher!Init <=> Fetcher!Init
  /\ AnyTiming!ReorderBuffer!Init <=> ReorderBuffer!Init
  /\ AnyTiming!RegisterFile!Init <=> RegisterFile!Init
  /\ AnyTiming!ReservationStation!Init <=> ReservationStation!Init
  /\ AnyTiming!LoadStoreBuffer!Init <=> LoadStoreBuffer!Init
<1>1. AnyTiming!Fetcher!Init <=> Fetcher!Init
  BY DEF AnyTiming!Fetcher!Init, Fetcher!Init, AnyTiming!Fetcher!ZeroInstruction, Fetcher!ZeroInstruction,
         AnyTiming!Fetcher!InvalidLine, Fetcher!InvalidLine, AnyTiming!Fetcher!Quiet, Fetcher!Quiet
<1>2. AnyTiming!ReorderBuffer!Init <=> ReorderBuffer!Init
  BY DEF AnyTiming!ReorderBuffer!Init, ReorderBuffer!Init, AnyTiming!ReorderBuffer!RobTag,
         ReorderBuffer!RobTag, AnyTiming!ReorderBuffer!EmptyEntry, ReorderBuffer!EmptyEntry,
         AnyTiming!ReorderBuffer!Quiet, ReorderBuffer!Quiet, AnyTiming!ReorderBuffer!NULL_TAG,
         ReorderBuffer!NULL_TAG
<1>3. AnyTiming!RegisterFile!Init <=> RegisterFile!Init
  BY DEF AnyTiming!RegisterFile!Init, RegisterFile!Init, AnyTiming!RegisterFile!RegIndex,
         RegisterFile!RegIndex, AnyTiming!RegisterFile!NULL_TAG, RegisterFile!NULL_TAG
<1>4. AnyTiming!ReservationStation!Init <=> ReservationStation!Init
  BY DEF AnyTiming!ReservationStation!Init, ReservationStation!Init, AnyTiming!ReservationStation!RsIndex,
         ReservationStation!RsIndex, AnyTiming!ReservationStation!EmptyEntry, ReservationStation!EmptyEntry,
         AnyTiming!ReservationStation!NoOperation, ReservationStation!NoOperation,
         AnyTiming!ReservationStation!NULL_TAG, ReservationStation!NULL_TAG
<1>5. AnyTiming!LoadStoreBuffer!Init <=> LoadStoreBuffer!Init
  BY DEF AnyTiming!LoadStoreBuffer!Init, LoadStoreBuffer!Init, AnyTiming!LoadStoreBuffer!LsbIndex,
         LoadStoreBuffer!LsbIndex, AnyTiming!LoadStoreBuffer!EmptyEntry, LoadStoreBuffer!EmptyEntry,
         AnyTiming!LoadStoreBuffer!NULL_TAG, LoadStoreBuffer!NULL_TAG, AnyTiming!LoadStoreBuffer!Quiet,
         LoadStoreBuffer!Quiet
<1> QED BY <1>1, <1>2, <1>3, <1>4, <1>5

\* What the ALU broadcasts, whether something is full, and what is decoded are the same.
LEMMA SameWires ==
  /\ AnyTiming!Broadcast = Broadcast
  /\ AnyTiming!AnyFull <=> AnyFull
  /\ AnyTiming!Decoded = Decoded
<1>1. AnyTiming!Broadcast = Broadcast
  BY DEF AnyTiming!Broadcast, Broadcast, AnyTiming!Alu!AluBroadcast, Alu!AluBroadcast,
         AnyTiming!Alu!AluResult, Alu!AluResult, AnyTiming!Alu!AluNewPc, Alu!AluNewPc, AnyTiming!Alu!Add,
         Alu!Add, AnyTiming!Alu!BranchOps, Alu!BranchOps, AnyTiming!Alu!Flag, Alu!Flag,
         AnyTiming!Alu!BranchTaken, Alu!BranchTaken, AnyTiming!Alu!Signed, Alu!Signed, AnyTiming!Alu!FromBits,
         Alu!FromBits, AnyTiming!Alu!Bits, Alu!Bits, AnyTiming!Alu!ShiftLeft, Alu!ShiftLeft,
         AnyTiming!Alu!Shamt, Alu!Shamt, AnyTiming!Alu!ShiftRight, Alu!ShiftRight, AnyTiming!Alu!Sub, Alu!Sub,
         AnyTiming!Alu!Sums, Alu!Sums
<1>2. AnyTiming!AnyFull <=> AnyFull
  BY DEF AnyTiming!AnyFull, AnyFull, AnyTiming!ReservationStation!full_out, ReservationStation!full_out,
         AnyTiming!ReservationStation!Free, ReservationStation!Free, AnyTiming!ReservationStation!RsIndex,
         ReservationStation!RsIndex, AnyTiming!LoadStoreBuffer!full_out, LoadStoreBuffer!full_out,
         AnyTiming!LoadStoreBuffer!tail_next, LoadStoreBuffer!tail_next, AnyTiming!LoadStoreBuffer!Slot,
         LoadStoreBuffer!Slot, AnyTiming!ReorderBuffer!full_out, ReorderBuffer!full_out,
         AnyTiming!ReorderBuffer!tail_next, ReorderBuffer!tail_next, AnyTiming!ReorderBuffer!NextSlot,
         ReorderBuffer!NextSlot
<1>3. \A r : AnyTiming!SourceOf(r) = SourceOf(r)
  BY DEF AnyTiming!SourceOf, SourceOf, AnyTiming!RegisterFile!source_tag, RegisterFile!source_tag,
         AnyTiming!RegisterFile!source_value, RegisterFile!source_value, AnyTiming!RegisterFile!NULL_TAG,
         RegisterFile!NULL_TAG
<1>4. \A t : AnyTiming!ResultOf(t) = ResultOf(t)
  BY DEF AnyTiming!ResultOf, ResultOf, AnyTiming!ReorderBuffer!operand_ready, ReorderBuffer!operand_ready,
         AnyTiming!ReorderBuffer!operand_value, ReorderBuffer!operand_value, AnyTiming!ReorderBuffer!in_queue,
         ReorderBuffer!in_queue, AnyTiming!ReorderBuffer!NULL_TAG, ReorderBuffer!NULL_TAG
<1>5. AnyTiming!ReorderBuffer!next_tag = ReorderBuffer!next_tag
  BY DEF AnyTiming!ReorderBuffer!next_tag, ReorderBuffer!next_tag, AnyTiming!ReorderBuffer!tail_next,
         ReorderBuffer!tail_next, AnyTiming!ReorderBuffer!NULL_TAG, ReorderBuffer!NULL_TAG,
         AnyTiming!ReorderBuffer!NextSlot, ReorderBuffer!NextSlot
<1>6. \A a, b, c, d, e, f : AnyTiming!Decoder!Decode(a, b, c, d, e, f) = Decoder!Decode(a, b, c, d, e, f)
  BY DEF AnyTiming!Decoder!Decode, Decoder!Decode, AnyTiming!Decoder!Opcode, Decoder!Opcode,
         AnyTiming!Decoder!Immediate, Decoder!Immediate, AnyTiming!Decoder!OccupiesRd, Decoder!OccupiesRd,
         AnyTiming!Decoder!HaveRs1, Decoder!HaveRs1, AnyTiming!Decoder!HaveRs2, Decoder!HaveRs2,
         AnyTiming!Decoder!OperandTag, Decoder!OperandTag, AnyTiming!Decoder!OperandValue,
         Decoder!OperandValue, AnyTiming!Decoder!ToLsb, Decoder!ToLsb, AnyTiming!Decoder!BranchOps,
         Decoder!BranchOps, AnyTiming!Decoder!LoadOps, Decoder!LoadOps, AnyTiming!Decoder!StoreOps,
         Decoder!StoreOps, AnyTiming!Decoder!ArithImmOps, Decoder!ArithImmOps, AnyTiming!Decoder!ArithOps,
         Decoder!ArithOps, AnyTiming!Decoder!NULL_TAG, Decoder!NULL_TAG
<1>7. AnyTiming!Decoded = Decoded
  BY <1>3, <1>4, <1>5, <1>6 DEF AnyTiming!Decoded, Decoded
<1> QED BY <1>1, <1>2, <1>7

\* A cycle of the load store buffer is the same in both.
LEMMA SameLoadStoreBuffer ==
  \A rst, dec, alu, rob, mc :
    AnyTiming!LoadStoreBuffer!Clock(rst, dec, alu, rob, mc) <=> LoadStoreBuffer!Clock(rst, dec, alu, rob, mc)
<1>1. /\ AnyTiming!LoadStoreBuffer!EmptyEntry = LoadStoreBuffer!EmptyEntry
      /\ AnyTiming!LoadStoreBuffer!Quiet = LoadStoreBuffer!Quiet
      /\ AnyTiming!LoadStoreBuffer!LsbIndex = LoadStoreBuffer!LsbIndex
      /\ AnyTiming!LoadStoreBuffer!NULL_TAG = LoadStoreBuffer!NULL_TAG
      /\ \A i : AnyTiming!LoadStoreBuffer!Slot(i) = LoadStoreBuffer!Slot(i)
      /\ AnyTiming!LoadStoreBuffer!head_next = LoadStoreBuffer!head_next
      /\ AnyTiming!LoadStoreBuffer!tail_next = LoadStoreBuffer!tail_next
  BY DEF AnyTiming!LoadStoreBuffer!EmptyEntry, LoadStoreBuffer!EmptyEntry, AnyTiming!LoadStoreBuffer!Quiet,
         LoadStoreBuffer!Quiet, AnyTiming!LoadStoreBuffer!LsbIndex, LoadStoreBuffer!LsbIndex,
         AnyTiming!LoadStoreBuffer!NULL_TAG, LoadStoreBuffer!NULL_TAG, AnyTiming!LoadStoreBuffer!Slot,
         LoadStoreBuffer!Slot, AnyTiming!LoadStoreBuffer!head_next, LoadStoreBuffer!head_next,
         AnyTiming!LoadStoreBuffer!tail_next, LoadStoreBuffer!tail_next
<1>2. /\ \A op, w : AnyTiming!LoadStoreBuffer!LoadResult(op, w) = LoadStoreBuffer!LoadResult(op, w)
      /\ \A op : AnyTiming!LoadStoreBuffer!Goal(op) = LoadStoreBuffer!Goal(op)
      /\ \A a : AnyTiming!LoadStoreBuffer!IsIo(a) = LoadStoreBuffer!IsIo(a)
      /\ \A a, b : AnyTiming!LoadStoreBuffer!Add(a, b) = LoadStoreBuffer!Add(a, b)
      /\ \A b : AnyTiming!LoadStoreBuffer!Flag(b) = LoadStoreBuffer!Flag(b)
  BY DEF AnyTiming!LoadStoreBuffer!LoadResult, LoadStoreBuffer!LoadResult, AnyTiming!LoadStoreBuffer!Goal,
         LoadStoreBuffer!Goal, AnyTiming!LoadStoreBuffer!IsIo, LoadStoreBuffer!IsIo,
         AnyTiming!LoadStoreBuffer!Add, LoadStoreBuffer!Add, AnyTiming!LoadStoreBuffer!Flag,
         LoadStoreBuffer!Flag, AnyTiming!LoadStoreBuffer!SignExtend, LoadStoreBuffer!SignExtend,
         AnyTiming!LoadStoreBuffer!WORD_BYTES, LoadStoreBuffer!WORD_BYTES, AnyTiming!LoadStoreBuffer!Sub,
         LoadStoreBuffer!Sub
<1>3. /\ \A e : AnyTiming!LoadStoreBuffer!Address(e) = LoadStoreBuffer!Address(e)
      /\ \A e : AnyTiming!LoadStoreBuffer!NeedsCommit(e) = LoadStoreBuffer!NeedsCommit(e)
      /\ \A e : AnyTiming!LoadStoreBuffer!Ready(e) = LoadStoreBuffer!Ready(e)
      /\ AnyTiming!LoadStoreBuffer!CanIssue <=> LoadStoreBuffer!CanIssue
      /\ AnyTiming!LoadStoreBuffer!CanNotice <=> LoadStoreBuffer!CanNotice
  BY <1>1, <1>2 DEF AnyTiming!LoadStoreBuffer!Address, LoadStoreBuffer!Address,
                    AnyTiming!LoadStoreBuffer!NeedsCommit, LoadStoreBuffer!NeedsCommit,
                    AnyTiming!LoadStoreBuffer!Ready, LoadStoreBuffer!Ready,
                    AnyTiming!LoadStoreBuffer!CanIssue, LoadStoreBuffer!CanIssue,
                    AnyTiming!LoadStoreBuffer!CanNotice, LoadStoreBuffer!CanNotice,
                    AnyTiming!LoadStoreBuffer!IoLoad, LoadStoreBuffer!IoLoad
<1>4. /\ \A dec, alu, rob : AnyTiming!LoadStoreBuffer!Arriving(dec, alu, rob) = LoadStoreBuffer!Arriving(dec, alu, rob)
      /\ \A e, alu, rob, finished, data :
           AnyTiming!LoadStoreBuffer!Snooping(e, alu, rob, finished, data)
             = LoadStoreBuffer!Snooping(e, alu, rob, finished, data)
      /\ AnyTiming!LoadStoreBuffer!CommitSlot = LoadStoreBuffer!CommitSlot
      /\ \A i, from, to : AnyTiming!LoadStoreBuffer!Within(i, from, to) = LoadStoreBuffer!Within(i, from, to)
  BY <1>1 DEF AnyTiming!LoadStoreBuffer!Arriving, LoadStoreBuffer!Arriving,
              AnyTiming!LoadStoreBuffer!Snooping, LoadStoreBuffer!Snooping,
              AnyTiming!LoadStoreBuffer!CommitSlot, LoadStoreBuffer!CommitSlot,
              AnyTiming!LoadStoreBuffer!Within, LoadStoreBuffer!Within, AnyTiming!LoadStoreBuffer!Hear,
              LoadStoreBuffer!Hear
<1>5. \A from, to, inserts, dec, alu, rob, finished, data :
        AnyTiming!LoadStoreBuffer!Contents(from, to, inserts, dec, alu, rob, finished, data)
          = LoadStoreBuffer!Contents(from, to, inserts, dec, alu, rob, finished, data)
  BY <1>1, <1>4 DEF AnyTiming!LoadStoreBuffer!Contents, LoadStoreBuffer!Contents
<1>6. /\ \A rob : AnyTiming!LoadStoreBuffer!Count(rob) <=> LoadStoreBuffer!Count(rob)
      /\ AnyTiming!LoadStoreBuffer!Issue <=> LoadStoreBuffer!Issue
      /\ AnyTiming!LoadStoreBuffer!Notice <=> LoadStoreBuffer!Notice
      /\ AnyTiming!LoadStoreBuffer!Idle <=> LoadStoreBuffer!Idle
      /\ \A mc : AnyTiming!LoadStoreBuffer!Finish(mc) <=> LoadStoreBuffer!Finish(mc)
      /\ AnyTiming!LoadStoreBuffer!Stay <=> LoadStoreBuffer!Stay
      /\ \A mc : AnyTiming!LoadStoreBuffer!Finishes(mc) <=> LoadStoreBuffer!Finishes(mc)
      /\ AnyTiming!LoadStoreBuffer!Abandons <=> LoadStoreBuffer!Abandons
  BY <1>1, <1>2, <1>3 DEF AnyTiming!LoadStoreBuffer!Count, LoadStoreBuffer!Count,
                          AnyTiming!LoadStoreBuffer!Issue, LoadStoreBuffer!Issue,
                          AnyTiming!LoadStoreBuffer!Notice, LoadStoreBuffer!Notice,
                          AnyTiming!LoadStoreBuffer!Idle, LoadStoreBuffer!Idle,
                          AnyTiming!LoadStoreBuffer!Finish, LoadStoreBuffer!Finish,
                          AnyTiming!LoadStoreBuffer!Stay, LoadStoreBuffer!Stay,
                          AnyTiming!LoadStoreBuffer!Finishes, LoadStoreBuffer!Finishes,
                          AnyTiming!LoadStoreBuffer!Abandons, LoadStoreBuffer!Abandons
<1>7. ASSUME NEW dec, NEW alu, NEW rob, NEW mc
      PROVE  AnyTiming!LoadStoreBuffer!Operate(dec, alu, rob, mc) <=> LoadStoreBuffer!Operate(dec, alu, rob, mc)
  BY <1>1, <1>2, <1>3, <1>5, <1>6 DEF AnyTiming!LoadStoreBuffer!Operate, LoadStoreBuffer!Operate
<1>8. ASSUME NEW dec, NEW alu, NEW rob, NEW mc
      PROVE  AnyTiming!LoadStoreBuffer!Rollback(dec, alu, rob, mc) <=> LoadStoreBuffer!Rollback(dec, alu, rob, mc)
  BY <1>1, <1>2, <1>3, <1>5, <1>6 DEF AnyTiming!LoadStoreBuffer!Rollback, LoadStoreBuffer!Rollback
<1>9. AnyTiming!LoadStoreBuffer!Reset <=> LoadStoreBuffer!Reset
  BY <1>1, <1>6 DEF AnyTiming!LoadStoreBuffer!Reset, LoadStoreBuffer!Reset
<1> QED BY <1>7, <1>8, <1>9 DEF AnyTiming!LoadStoreBuffer!Clock, LoadStoreBuffer!Clock

\* So a cycle of the core is one in Cpu.
LEMMA SameCycle ==
  \A rst, mc : AnyTiming!CoreCycle(rst, mc) <=> CoreCycle(rst, mc)
<1>1. \A rst : AnyTiming!CommittedPc(rst) <=> CommittedPc(rst)
  BY DEF AnyTiming!CommittedPc, CommittedPc, AnyTiming!Oldest, Oldest, AnyTiming!ReorderBuffer!head_next,
         ReorderBuffer!head_next, AnyTiming!ReorderBuffer!NextSlot, ReorderBuffer!NextSlot
<1> QED
  BY <1>1, SameFetcher, SameReorderBuffer, SameRegisterFile, SameReservationStation, SameLoadStoreBuffer,
     SameWires
     DEF AnyTiming!CoreCycle, CoreCycle

\* The core starts as in Cpu.
LEMMA SameStart == AnyTiming!CoreInit <=> CoreInit
BY SameInits DEF AnyTiming!CoreInit, CoreInit

\* The bytes of a word and the quiet answer are the same for the memory of Cpu.
LEMMA SameMemory ==
  /\ \A a : AnyTiming!Memory!IsIo(a) = IsIo(a)
  /\ \A b : AnyTiming!Memory!Flag(b) = Flag(b)
  /\ AnyTiming!Memory!ZeroInstruction = ZeroInstruction
  /\ AnyTiming!Memory!Word = Word
  /\ \A m, a, n : AnyTiming!Memory!ReadBytes(m, a, n) = ReadBytes(m, a, n)
  /\ \A m, a, n, w : AnyTiming!Memory!WriteBytes(m, a, n, w) = WriteBytes(m, a, n, w)
  /\ AnyTiming!Memory!Quiet = Controller!Quiet
<1>1. /\ \A a : AnyTiming!Memory!IsIo(a) = IsIo(a)
      /\ \A b : AnyTiming!Memory!Flag(b) = Flag(b)
      /\ AnyTiming!Memory!ZeroInstruction = ZeroInstruction
      /\ AnyTiming!Memory!Word = Word
  BY DEF AnyTiming!Memory!IsIo, IsIo, AnyTiming!Memory!Flag, Flag, AnyTiming!Memory!ZeroInstruction,
         ZeroInstruction, AnyTiming!Memory!Word, Word
<1>2. \A a, b : AnyTiming!Memory!Add(a, b) = Add(a, b) /\ AnyTiming!Memory!Sub(a, b) = Sub(a, b)
  BY DEF AnyTiming!Memory!Add, Add, AnyTiming!Memory!Sub, Sub
<1>3. \A g : AnyTiming!Memory!Sums(g) = Sums(g)
  BY DEF AnyTiming!Memory!Sums, Sums
<1>4. \A m, a, n : AnyTiming!Memory!ReadBytes(m, a, n) = ReadBytes(m, a, n)
  BY <1>2, <1>3 DEF AnyTiming!Memory!ReadBytes, ReadBytes
<1>5. \A w, k : AnyTiming!Memory!ByteOf(w, k) = ByteOf(w, k)
  BY DEF AnyTiming!Memory!ByteOf, ByteOf
<1>6. \A m, a, n, w : AnyTiming!Memory!WriteBytes(m, a, n, w) = WriteBytes(m, a, n, w)
  BY <1>2, <1>5 DEF AnyTiming!Memory!WriteBytes, WriteBytes
<1>7. AnyTiming!Memory!Quiet = Controller!Quiet
  BY DEF AnyTiming!Memory!Quiet, Controller!Quiet, AnyTiming!Memory!ZeroInstruction,
         Controller!ZeroInstruction
<1> QED BY <1>1, <1>4, <1>6, <1>7

(***************************************************************************)
(* The bytes moved.  Until the answer, the RAM and the host are those of   *)
(* the last answer, but for the bytes of the access under way.             *)
(***************************************************************************)

\* The port moves a byte at a time: an access that reaches it starts there and moves one
\* byte, and nothing is fetched from there.  It is the program that sees to this, not the
\* processor: for Cpu an access to the port is one transaction, while the controller would
\* take two inputs for a half word of it.
PortBytes ==
  \A k \in 0 .. mc_goal - 1 : IsIo(Add(mc_current_address, k)) =>
    mc_goal = 1 /\ mc_working_on \in {"LOAD", "STORE"}

AtPort == mc_working_on \in {"LOAD", "STORE"} /\ IsIo(mc_current_address)

\* What no longer waits is forgotten.
NoneLeft ==
  /\ mc_inst_request.pending \/ mc_inst_request = Controller!NoRequest
  /\ mc_load_request.pending \/ mc_load_request = Controller!NoRequest
  /\ mc_store_request.pending \/ mc_store_request = Controller!NoRequest
  /\ mc_inst_request.data = 0 /\ mc_load_request.data = 0
  /\ mc_working_on = "LOAD" => mc_current_data = 0

\* n bytes of the store under way are in the RAM, or one with the host.
Written(n) == /\ ram = WriteBytes(settled_ram, mc_current_address, n, mc_current_data)
              /\ io_writes = (settled_writes + Flag(AtPort /\ n > 0)) % IO_PERIOD

StoreMoved ==
  mc_working_on = "STORE" =>
    /\ io_reads = settled_reads
    /\ mc_status = "FINISH" => Written(mc_goal)
    /\ mc_status = "BUSY" /\ ~mc_waiting => Written(mc_current)
    /\ mc_status = "BUSY" /\ mc_waiting =>
         /\ mc_rw = "WRITE" /\ mc_address = Add(mc_current_address, mc_current - 1)
         /\ mc_data = ByteOf(mc_current_data, mc_current - 1)
         /\ \/ Written(mc_current - 1) /\ ~q_io_en
            \/ Written(mc_current) /\ (q_io_en <=> AtPort)

\* The input of the load under way is taken.
Taken == io_reads = (settled_reads + Flag(AtPort)) % IO_PERIOD

LoadMoved ==
  mc_working_on = "LOAD" =>
    /\ ram = settled_ram /\ io_writes = settled_writes
    /\ mc_status = "FINISH" =>
         /\ Taken
         /\ mc_buffer = IF AtPort THEN settled_reads
                        ELSE ReadBytes(settled_ram, mc_current_address, mc_goal)
    /\ mc_status = "BUSY" =>
         mc_buffer = IF AtPort THEN 0 ELSE ReadBytes(settled_ram, mc_current_address, mc_current)
    /\ mc_status = "BUSY" /\ mc_waiting =>
         /\ mc_rw = "READ" /\ mc_address = Add(mc_current_address, mc_current)
         /\ io_reads = settled_reads /\ ~q_io_en
    /\ mc_status = "BUSY" /\ ~mc_waiting =>
         /\ Taken /\ (q_io_en <=> AtPort)
         /\ IF AtPort THEN q_io_dout = settled_reads
            ELSE ram_read_address = Add(mc_current_address, mc_current)

NothingMoved ==
  mc_working_on \in {"NONE", "INSTRUCTION"} =>
    /\ ram = settled_ram /\ io_reads = settled_reads /\ io_writes = settled_writes
    /\ ~q_io_en /\ mc_rw = "READ"
    /\ mc_status = "BUSY" /\ mc_waiting => mc_address = Add(mc_current_address, mc_current)

\* While no byte is on its way nothing is on the pins.
PinsAway ==
  /\ ~(mc_status = "BUSY" /\ mc_waiting) => mc_rw = "READ" /\ ~IsIo(mc_address)
  /\ mc_status # "BUSY" => ~q_io_en

Moved == StoreMoved /\ LoadMoved /\ NothingMoved /\ PinsAway

\* The load store buffer remembers the address it waits for.
AddressKept == AccessPending => AccessRequest.address = lsb_current_address

\* One cycle of the RAM and the host while the processor has the bus.
LEMMA BusMoves ==
  ASSUME Controller!Pins(Controller!CpuHasBus), mc_rw \in {"READ", "WRITE"}
  PROVE  /\ ram' = IF mc_rw = "WRITE" /\ ~(IsIo(mc_address) /\ q_io_en)
                     THEN [ram EXCEPT ![mc_address] = mc_data] ELSE ram
         /\ ram_read_address' = mc_address
         /\ q_io_en' <=> IsIo(mc_address)
         /\ IsIo(mc_address) /\ mc_rw = "READ" => q_io_dout' = io_reads
         /\ io_reads' = (io_reads + Flag(IsIo(mc_address) /\ ~q_io_en /\ mc_rw = "READ")) % IO_PERIOD
         /\ io_writes' = (io_writes + Flag(IsIo(mc_address) /\ ~q_io_en /\ mc_rw = "WRITE")) % IO_PERIOD
<1> DEFINE host == Controller!CpuHasBus
<1>1. ~host.active
  BY DEF Controller!CpuHasBus
<1> HIDE DEF host
<1>2. /\ Controller!cpumc_a(host) = mc_address /\ Controller!cpumc_din(host) = mc_data
      /\ Controller!writing(host) <=> mc_rw = "WRITE"
      /\ ~Controller!writing(host) <=> mc_rw = "READ"
      /\ Controller!io_en(host) <=> IsIo(mc_address)
      /\ Controller!HostActs(host) <=> IsIo(mc_address) /\ ~q_io_en
  BY <1>1, ControllerNames
     DEF Controller!cpumc_a, Controller!cpumc_din, Controller!writing, Controller!io_en, Controller!HostActs
<1>3. Controller!Pins(host)
  BY DEF host
<1>4. /\ ram' = IF Controller!writing(host) /\ (Controller!io_en(host) => Controller!HostActs(host))
                  THEN [ram EXCEPT ![Controller!cpumc_a(host)] = Controller!cpumc_din(host)] ELSE ram
      /\ ram_read_address' = Controller!cpumc_a(host)
      /\ q_io_en' = Controller!io_en(host)
      /\ q_io_dout' = IF Controller!io_en(host) /\ ~Controller!writing(host) THEN io_reads ELSE 0
      /\ io_reads' = (io_reads + Flag(Controller!HostActs(host) /\ ~Controller!writing(host))) % IO_PERIOD
      /\ io_writes' = (io_writes + Flag(Controller!HostActs(host) /\ Controller!writing(host))) % IO_PERIOD
  BY <1>3, ControllerNames, Zenon DEF Controller!Pins
<1>5. /\ ram' = IF mc_rw = "WRITE" /\ ~(IsIo(mc_address) /\ q_io_en)
                  THEN [ram EXCEPT ![mc_address] = mc_data] ELSE ram
      /\ ram_read_address' = mc_address
      /\ q_io_en' <=> IsIo(mc_address)
      /\ IsIo(mc_address) /\ mc_rw = "READ" => q_io_dout' = io_reads
  BY <1>2, <1>4
<1>6. Flag(Controller!HostActs(host) /\ ~Controller!writing(host))
        = Flag(IsIo(mc_address) /\ ~q_io_en /\ mc_rw = "READ")
  BY <1>2 DEF Flag
<1>7. Flag(Controller!HostActs(host) /\ Controller!writing(host))
        = Flag(IsIo(mc_address) /\ ~q_io_en /\ mc_rw = "WRITE")
  BY <1>2 DEF Flag
<1> QED BY <1>4, <1>5, <1>6, <1>7, Zenon

\* With nothing on the pins nothing changes behind them.
LEMMA BusRests ==
  ASSUME Board, Controller!Pins(Controller!CpuHasBus), mc_rw = "READ", ~IsIo(mc_address)
  PROVE  ram' = ram /\ io_reads' = io_reads /\ io_writes' = io_writes /\ ~q_io_en'
<1>1. /\ ram' = ram /\ ~q_io_en'
      /\ io_reads' = (io_reads + Flag(IsIo(mc_address) /\ ~q_io_en /\ mc_rw = "READ")) % IO_PERIOD
      /\ io_writes' = (io_writes + Flag(IsIo(mc_address) /\ ~q_io_en /\ mc_rw = "WRITE")) % IO_PERIOD
  BY BusMoves
<1>2. /\ Flag(IsIo(mc_address) /\ ~q_io_en /\ mc_rw = "READ") = Flag(FALSE)
      /\ Flag(IsIo(mc_address) /\ ~q_io_en /\ mc_rw = "WRITE") = Flag(FALSE)
  BY DEF Flag
<1>3. io_reads \in 0 .. IO_PERIOD - 1 /\ io_writes \in 0 .. IO_PERIOD - 1
  BY DEF Board
<1>4. (io_reads + Flag(FALSE)) % IO_PERIOD = io_reads /\ (io_writes + Flag(FALSE)) % IO_PERIOD = io_writes
  BY <1>3, FirstByte
<1> QED BY <1>1, <1>2, <1>4, Zenon

\* Which bytes of an access are at the port.
LEMMA PortByte ==
  ASSUME Transfer, PortBytes, NEW k \in 0 .. mc_goal - 1
  PROVE  /\ IsIo(Add(mc_current_address, k)) <=> AtPort
         /\ AtPort => mc_goal = 1 /\ k = 0
<1>1. mc_goal \in Nat /\ mc_goal >= 1 /\ mc_current_address \in Word
  BY GoalPositive DEF Transfer
<1>2. 0 \in 0 .. mc_goal - 1 /\ Add(mc_current_address, 0) = mc_current_address
  BY <1>1, FirstByte
<1>3. AtPort => mc_goal = 1
  BY <1>2 DEF PortBytes, AtPort
<1>4. AtPort => k = 0
  BY <1>1, <1>3
<1>5. IsIo(Add(mc_current_address, k)) => mc_goal = 1 /\ mc_working_on \in {"LOAD", "STORE"}
  BY DEF PortBytes
<1>6. IsIo(Add(mc_current_address, k)) => k = 0
  BY <1>1, <1>5
<1> QED BY <1>2, <1>3, <1>4, <1>5, <1>6 DEF AtPort

\* A cycle of the program, in a state in which the transfer is where it should be.
Going(full) == /\ BytesInv /\ NoneLeft /\ Moved /\ AddressKept /\ PortBytes
               /\ BytesInv' /\ PortBytes'
               /\ Cycle(FALSE, full, Controller!CpuHasBus)

\* What such a cycle finds.
LEMMA GoingFinds ==
  ASSUME NEW full, Going(full)
  PROVE  /\ Waiting /\ OnePlace /\ Transfer /\ Board /\ Settled /\ Transfer' /\ Board' /\ PortBytes /\ PortBytes'
         /\ Controller!Pins(Controller!CpuHasBus)
         /\ StoreMoved /\ LoadMoved /\ NothingMoved /\ PinsAway /\ NoneLeft
         /\ INST_GOAL \in Nat /\ INST_GOAL >= 1 /\ WORD_BYTES \in Nat
BY GoalPositive DEF Going, BytesInv, Cycle, Controller!Clock, Moved

\* Without an answer to the load store buffer nothing is settled.
LEMMA NothingSettled ==
  ASSUME NEW full, Going(full), ~mc_out'.lsb_ready
  PROVE  settled_ram' = settled_ram /\ settled_reads' = settled_reads /\ settled_writes' = settled_writes
BY DEF Going, Cycle, Settle

\* A transfer starts with nothing moved.
LEMMA StartsMoved ==
  ASSUME NEW full, Going(full),
         \/ Controller!StartStore(fet_out, lsb_out, full)
         \/ Controller!StartLoad(fet_out, lsb_out, full)
         \/ Controller!StartFetch(fet_out, lsb_out, full)
         \/ Controller!Rest(fet_out, lsb_out, full)
  PROVE  Moved'
<1>1. /\ Waiting /\ Transfer /\ Board /\ Settled /\ Transfer' /\ PortBytes'
      /\ StoreMoved /\ LoadMoved /\ NothingMoved /\ PinsAway
      /\ Controller!Pins(Controller!CpuHasBus)
  BY GoingFinds
<1>2. mc_status = "IDLE" /\ mc_working_on = "NONE" /\ mc_current = 0 /\ mc_buffer = 0
  BY <1>1 DEF Transfer, Controller!StartStore, Controller!StartLoad, Controller!StartFetch, Controller!Rest
<1>3. /\ ram = settled_ram /\ io_reads = settled_reads /\ io_writes = settled_writes
      /\ ~q_io_en /\ mc_rw = "READ" /\ ~IsIo(mc_address)
  BY <1>1, <1>2 DEF NothingMoved, PinsAway
<1>4. ram' = ram /\ io_reads' = io_reads /\ io_writes' = io_writes /\ ~q_io_en'
  BY <1>1, <1>3, BusRests
<1>5. mc_out' = Controller!Quiet
  BY DEF Controller!StartStore, Controller!StartLoad, Controller!StartFetch, Controller!Rest
<1>6. settled_ram' = settled_ram /\ settled_reads' = settled_reads /\ settled_writes' = settled_writes
  BY <1>5, ControllerRest, NothingSettled
<1>7. settled_ram' \in [Word -> Byte] /\ settled_writes' \in 0 .. IO_PERIOD - 1
  BY <1>1, <1>6 DEF Settled
<1>8. CASE Controller!StartStore(fet_out, lsb_out, full)
  <2>1. /\ mc_status' = "BUSY" /\ mc_working_on' = "STORE" /\ mc_waiting' = TRUE /\ mc_current' = 1
        /\ mc_current_address' = mc_store_request.address /\ mc_current_data' = mc_store_request.data
        /\ mc_rw' = "WRITE" /\ mc_address' = mc_store_request.address
        /\ mc_data' = ByteOf(mc_store_request.data, 0)
    BY <1>2, <1>8, ControllerNames DEF Controller!StartStore, Controller!StartWork, Controller!Show
  <2>2. mc_store_request.address \in Word /\ mc_store_request.data \in Word
    BY <1>1, RequestFields
  <2>3. /\ Add(mc_store_request.address, 0) = mc_store_request.address
        /\ WriteBytes(settled_ram', mc_store_request.address, 0, mc_store_request.data) = settled_ram'
        /\ (settled_writes' + Flag(FALSE)) % IO_PERIOD = settled_writes'
    BY <1>7, <2>2, FirstByte, WriteNext
  <2>4. Flag(AtPort' /\ 0 > 0) = Flag(FALSE)
    BY DEF Flag
  <2>5. /\ ram' = WriteBytes(settled_ram', mc_current_address', 0, mc_current_data')
        /\ io_writes' = (settled_writes' + Flag(AtPort' /\ 0 > 0)) % IO_PERIOD
    BY <1>3, <1>4, <1>6, <2>1, <2>3, <2>4
  <2>6. mc_current' - 1 = 0
    BY <2>1
  <2>7. /\ ram' = WriteBytes(settled_ram', mc_current_address', mc_current' - 1, mc_current_data')
        /\ io_writes' = (settled_writes' + Flag(AtPort' /\ mc_current' - 1 > 0)) % IO_PERIOD
        /\ mc_address' = Add(mc_current_address', mc_current' - 1)
        /\ mc_data' = ByteOf(mc_current_data', mc_current' - 1)
    BY <2>1, <2>3, <2>5, <2>6
  <2>8. StoreMoved'
    BY <1>3, <1>4, <1>6, <2>1, <2>7 DEF StoreMoved, Written
  <2> QED BY <2>1, <2>8 DEF Moved, LoadMoved, NothingMoved, PinsAway
<1>9. CASE Controller!StartLoad(fet_out, lsb_out, full)
  <2>1. /\ mc_status' = "BUSY" /\ mc_working_on' = "LOAD" /\ mc_waiting' = TRUE /\ mc_current' = 0
        /\ mc_current_address' = mc_load_request.address /\ mc_buffer' = 0
        /\ mc_rw' = "READ" /\ mc_address' = mc_load_request.address
    BY <1>2, <1>9 DEF Controller!StartLoad, Controller!StartWork, Controller!Show
  <2>2. mc_load_request.address \in Word
    BY <1>1, RequestFields
  <2>3. Add(mc_current_address', mc_current') = mc_address' /\ ReadBytes(settled_ram', mc_current_address', mc_current') = 0
    BY <1>7, <2>1, <2>2, FirstByte, ReadNext
  <2> QED BY <1>3, <1>4, <1>6, <2>1, <2>3 DEF Moved, StoreMoved, LoadMoved, NothingMoved, PinsAway
<1>10. CASE Controller!StartFetch(fet_out, lsb_out, full)
  <2>1. /\ mc_status' = "BUSY" /\ mc_working_on' = "INSTRUCTION" /\ mc_waiting' = TRUE /\ mc_current' = 0
        /\ mc_current_address' = mc_inst_request.address
        /\ mc_rw' = "READ" /\ mc_address' = mc_inst_request.address
    BY <1>2, <1>10 DEF Controller!StartFetch, Controller!StartWork, Controller!Show
  <2>2. mc_inst_request.address \in Word
    BY <1>1, RequestFields
  <2>3. Add(mc_current_address', mc_current') = mc_address'
    BY <2>1, <2>2, FirstByte
  <2> QED BY <1>3, <1>4, <1>6, <2>1, <2>3 DEF Moved, StoreMoved, LoadMoved, NothingMoved, PinsAway
<1>11. CASE Controller!Rest(fet_out, lsb_out, full)
  <2>1. /\ mc_status' = "IDLE" /\ mc_working_on' = "NONE" /\ mc_rw' = mc_rw /\ mc_address' = mc_address
    BY <1>2, <1>11 DEF Controller!Rest, Controller!KeepPins
  <2> QED BY <1>3, <1>4, <1>6, <2>1 DEF Moved, StoreMoved, LoadMoved, NothingMoved, PinsAway
<1> QED BY <1>8, <1>9, <1>10, <1>11

\* A cycle with a byte of a store on the pins, whichever it is, has the byte written.
LEMMA ByteWritten ==
  ASSUME NEW full, Going(full), mc_working_on = "STORE", mc_status = "BUSY", mc_waiting
  PROVE  /\ ram' = WriteBytes(settled_ram, mc_current_address, mc_current, mc_current_data)
         /\ io_writes' = (settled_writes + Flag(AtPort /\ mc_current > 0)) % IO_PERIOD
         /\ io_reads' = settled_reads
         /\ q_io_en' <=> AtPort
<1>1. /\ Transfer /\ Board /\ Settled /\ PortBytes /\ StoreMoved /\ Controller!Pins(Controller!CpuHasBus)
  BY GoingFinds
<1> DEFINE a == mc_current_address
           d == mc_current_data
           k == mc_current - 1
<1>2. /\ mc_rw = "WRITE" /\ mc_address = Add(a, k) /\ mc_data = ByteOf(d, k) /\ io_reads = settled_reads
      /\ \/ Written(k) /\ ~q_io_en
         \/ Written(mc_current) /\ (q_io_en <=> AtPort)
  BY <1>1 DEF StoreMoved
<1>3. a \in Word /\ d \in Word /\ mc_goal \in 1 .. WORD_BYTES /\ mc_current \in 1 .. mc_goal /\ WORD_BYTES \in Nat
  BY <1>1, GoalPositive DEF Transfer
<1>4. k \in 0 .. mc_goal - 1 /\ k \in 0 .. WORD_BYTES - 1 /\ k + 1 = mc_current /\ mc_current > 0
  BY <1>3
<1>5. (IsIo(mc_address) <=> AtPort) /\ (AtPort => k = 0)
  BY <1>1, <1>2, <1>4, PortByte
<1> HIDE DEF a, d, k
<1>6. /\ ram' = IF mc_rw = "WRITE" /\ ~(IsIo(mc_address) /\ q_io_en)
                  THEN [ram EXCEPT ![mc_address] = mc_data] ELSE ram
      /\ q_io_en' <=> IsIo(mc_address)
      /\ io_reads' = (io_reads + Flag(IsIo(mc_address) /\ ~q_io_en /\ mc_rw = "READ")) % IO_PERIOD
      /\ io_writes' = (io_writes + Flag(IsIo(mc_address) /\ ~q_io_en /\ mc_rw = "WRITE")) % IO_PERIOD
  BY <1>1, BusMoves DEF Board
<1>7. /\ settled_ram \in [Word -> Byte] /\ settled_reads \in 0 .. IO_PERIOD - 1
      /\ settled_writes \in 0 .. IO_PERIOD - 1 /\ io_writes \in 0 .. IO_PERIOD - 1
  BY <1>1 DEF Settled, Board
<1>8. io_reads' = settled_reads
  <2>1. Flag(IsIo(mc_address) /\ ~q_io_en /\ mc_rw = "READ") = Flag(FALSE)
    BY <1>2 DEF Flag
  <2> QED BY <1>2, <1>6, <1>7, <2>1, FirstByte
<1>9. WriteBytes(settled_ram, a, mc_current, d) = [WriteBytes(settled_ram, a, k, d) EXCEPT ![Add(a, k)] = ByteOf(d, k)]
  <2>1. WriteBytes(settled_ram, a, k + 1, d) = [WriteBytes(settled_ram, a, k, d) EXCEPT ![Add(a, k)] = ByteOf(d, k)]
    BY <1>3, <1>4, <1>7, WriteNext
  <2> QED BY <1>4, <2>1, Zenon
<1>10. Flag(AtPort /\ mc_current > 0) = Flag(AtPort)
  BY <1>4 DEF Flag
<1>11. CASE Written(k) /\ ~q_io_en
  <2>1. ram = WriteBytes(settled_ram, a, k, d) /\ io_writes = (settled_writes + Flag(AtPort /\ k > 0)) % IO_PERIOD
    BY <1>11 DEF Written, a, d
  <2>2. ram' = WriteBytes(settled_ram, a, mc_current, d)
    BY <1>2, <1>6, <1>9, <1>11, <2>1
  <2>3. io_writes = settled_writes
    <3>1. Flag(AtPort /\ k > 0) = Flag(FALSE)
      BY <1>5 DEF Flag
    <3> QED BY <1>7, <2>1, <3>1, FirstByte
  <2>4. Flag(IsIo(mc_address) /\ ~q_io_en /\ mc_rw = "WRITE") = Flag(AtPort)
    BY <1>2, <1>5, <1>11 DEF Flag
  <2> QED BY <1>5, <1>6, <1>8, <1>10, <2>2, <2>3, <2>4 DEF a, d
<1>12. CASE Written(mc_current) /\ (q_io_en <=> AtPort)
  <2>1. /\ ram = WriteBytes(settled_ram, a, mc_current, d)
        /\ io_writes = (settled_writes + Flag(AtPort /\ mc_current > 0)) % IO_PERIOD
    BY <1>12 DEF Written, a, d
  <2>2. ram' = ram
    <3>1. \A f, x, v : [[f EXCEPT ![x] = v] EXCEPT ![x] = v] = [f EXCEPT ![x] = v]
      OBVIOUS
    <3> QED BY <1>2, <1>6, <1>9, <2>1, <3>1
  <2>3. io_writes' = io_writes
    <3>1. Flag(IsIo(mc_address) /\ ~q_io_en /\ mc_rw = "WRITE") = Flag(FALSE)
      BY <1>5, <1>12 DEF Flag
    <3> QED BY <1>6, <1>7, <3>1, FirstByte
  <2> QED BY <1>5, <1>6, <1>8, <2>1, <2>2, <2>3 DEF a, d
<1> QED BY <1>2, <1>11, <1>12

\* A cycle with the address of a byte to read on the pins.
LEMMA ByteAsked ==
  ASSUME NEW full, Going(full), mc_working_on = "LOAD", mc_status = "BUSY", mc_waiting
  PROVE  /\ ram' = settled_ram /\ io_writes' = settled_writes
         /\ io_reads' = (settled_reads + Flag(AtPort)) % IO_PERIOD
         /\ q_io_en' <=> AtPort
         /\ AtPort => q_io_dout' = settled_reads
         /\ ram_read_address' = Add(mc_current_address, mc_current)
<1>1. /\ Transfer /\ Board /\ Settled /\ PortBytes /\ LoadMoved /\ Controller!Pins(Controller!CpuHasBus)
  BY GoingFinds
<1>2. /\ mc_rw = "READ" /\ mc_address = Add(mc_current_address, mc_current) /\ io_reads = settled_reads
      /\ ~q_io_en /\ ram = settled_ram /\ io_writes = settled_writes
  BY <1>1 DEF LoadMoved
<1>3. mc_current \in 0 .. mc_goal - 1
  BY <1>1 DEF Transfer
<1>4. IsIo(mc_address) <=> AtPort
  BY <1>1, <1>2, <1>3, PortByte
<1>5. /\ ram' = ram /\ ram_read_address' = mc_address /\ (q_io_en' <=> IsIo(mc_address))
      /\ IsIo(mc_address) => q_io_dout' = io_reads
      /\ io_reads' = (io_reads + Flag(IsIo(mc_address) /\ ~q_io_en /\ mc_rw = "READ")) % IO_PERIOD
      /\ io_writes' = (io_writes + Flag(IsIo(mc_address) /\ ~q_io_en /\ mc_rw = "WRITE")) % IO_PERIOD
  BY <1>1, <1>2, BusMoves
<1>6. /\ Flag(IsIo(mc_address) /\ ~q_io_en /\ mc_rw = "READ") = Flag(AtPort)
      /\ Flag(IsIo(mc_address) /\ ~q_io_en /\ mc_rw = "WRITE") = Flag(FALSE)
  BY <1>2, <1>4 DEF Flag
<1>7. (io_writes + Flag(FALSE)) % IO_PERIOD = io_writes
  BY <1>1, FirstByte DEF Board
<1> QED BY <1>2, <1>4, <1>5, <1>6, <1>7

\* While an instruction is fetched nothing happens behind the pins.
LEMMA FetchUnseen ==
  ASSUME NEW full, Going(full), mc_working_on \in {"NONE", "INSTRUCTION"}
  PROVE  /\ ram' = settled_ram /\ io_reads' = settled_reads /\ io_writes' = settled_writes /\ ~q_io_en'
         /\ mc_rw = "READ" /\ ~IsIo(mc_address)
<1>1. /\ Transfer /\ Board /\ PortBytes /\ NothingMoved /\ PinsAway /\ Controller!Pins(Controller!CpuHasBus)
  BY GoingFinds
<1>2. /\ ram = settled_ram /\ io_reads = settled_reads /\ io_writes = settled_writes /\ mc_rw = "READ"
      /\ mc_status = "BUSY" /\ mc_waiting => mc_address = Add(mc_current_address, mc_current)
  BY <1>1 DEF NothingMoved
<1>3. ~IsIo(mc_address)
  <2>1. CASE mc_status = "BUSY" /\ mc_waiting
    <3>1. mc_current \in 0 .. mc_goal - 1
      BY <1>1, <2>1 DEF Transfer
    <3> QED BY <1>1, <1>2, <2>1, <3>1, PortByte DEF AtPort
  <2>2. CASE ~(mc_status = "BUSY" /\ mc_waiting)
    BY <1>1, <2>2 DEF PinsAway
  <2> QED BY <2>1, <2>2
<1> QED BY <1>1, <1>2, <1>3, BusRests

\* The cycle after the one that shows a byte releases the pins.
LEMMA EndWaitMoved ==
  ASSUME NEW full, Going(full), Controller!EndWait(fet_out, lsb_out)
  PROVE  Moved'
<1>1. /\ Transfer /\ PortBytes /\ LoadMoved
  BY GoingFinds
<1>2. /\ mc_status = "BUSY" /\ mc_waiting /\ mc_status' = "BUSY" /\ mc_waiting' = FALSE
      /\ mc_working_on' = mc_working_on /\ mc_current' = mc_current /\ mc_buffer' = mc_buffer
      /\ mc_current_address' = mc_current_address /\ mc_current_data' = mc_current_data
      /\ mc_rw' = "READ" /\ mc_address' = 0 /\ mc_out' = Controller!Quiet
  BY DEF Controller!EndWait, Controller!Busy, Controller!Release, Controller!Show
<1>3. settled_ram' = settled_ram /\ settled_reads' = settled_reads /\ settled_writes' = settled_writes
  BY <1>2, ControllerRest, NothingSettled
<1>4. PinsAway'
  BY <1>2, RestAssumption DEF PinsAway, RestAssumption
<1>5. (AtPort' <=> AtPort) /\ mc_working_on \in {"INSTRUCTION", "LOAD", "STORE"}
  BY <1>1, <1>2 DEF AtPort, Transfer
<1>6. CASE mc_working_on = "STORE"
  <2>1. /\ ram' = WriteBytes(settled_ram, mc_current_address, mc_current, mc_current_data)
        /\ io_writes' = (settled_writes + Flag(AtPort /\ mc_current > 0)) % IO_PERIOD
        /\ io_reads' = settled_reads
    BY <1>2, <1>6, ByteWritten
  <2>2. /\ ram' = WriteBytes(settled_ram', mc_current_address', mc_current', mc_current_data')
        /\ io_writes' = (settled_writes' + Flag(AtPort' /\ mc_current' > 0)) % IO_PERIOD
    BY <1>2, <1>3, <1>5, <2>1
  <2>3. StoreMoved'
    BY <1>2, <1>3, <2>1, <2>2 DEF StoreMoved, Written
  <2> QED BY <1>2, <1>4, <1>6, <2>3 DEF Moved, LoadMoved, NothingMoved
<1>7. CASE mc_working_on = "LOAD"
  <2>1. mc_buffer = IF AtPort THEN 0 ELSE ReadBytes(settled_ram, mc_current_address, mc_current)
    BY <1>1, <1>2, <1>7 DEF LoadMoved
  <2>2. /\ ram' = settled_ram /\ io_writes' = settled_writes
        /\ io_reads' = (settled_reads + Flag(AtPort)) % IO_PERIOD
        /\ q_io_en' <=> AtPort
        /\ AtPort => q_io_dout' = settled_reads
        /\ ram_read_address' = Add(mc_current_address, mc_current)
    BY <1>2, <1>7, ByteAsked
  <2>3. /\ mc_buffer' = IF AtPort' THEN 0 ELSE ReadBytes(settled_ram', mc_current_address', mc_current')
        /\ io_reads' = (settled_reads' + Flag(AtPort')) % IO_PERIOD
        /\ q_io_en' <=> AtPort'
        /\ IF AtPort' THEN q_io_dout' = settled_reads'
           ELSE ram_read_address' = Add(mc_current_address', mc_current')
    <3>1. Flag(AtPort') = Flag(AtPort)
      BY <1>5 DEF Flag
    <3> QED BY <1>2, <1>3, <1>5, <2>1, <2>2, <3>1
  <2>4. LoadMoved'
    BY <1>2, <1>3, <2>2, <2>3 DEF LoadMoved, Taken
  <2> QED BY <1>2, <1>4, <1>7, <2>4 DEF Moved, StoreMoved, NothingMoved
<1>8. CASE mc_working_on = "INSTRUCTION"
  BY <1>2, <1>3, <1>4, <1>8, FetchUnseen DEF Moved, StoreMoved, LoadMoved, NothingMoved
<1> QED BY <1>5, <1>6, <1>7, <1>8

\* The next byte of a store.
LEMMA StoreByteMoved ==
  ASSUME NEW full, Going(full), Controller!NextStoreByte(fet_out, lsb_out)
  PROVE  Moved'
<1>1. /\ Transfer /\ Board /\ StoreMoved /\ PinsAway /\ Controller!Pins(Controller!CpuHasBus)
  BY GoingFinds
<1>2. /\ mc_status = "BUSY" /\ ~mc_waiting /\ mc_working_on = "STORE" /\ mc_working_on' = "STORE"
      /\ mc_current_address' = mc_current_address /\ mc_current_data' = mc_current_data
      /\ mc_goal' = mc_goal /\ mc_out' = Controller!Quiet
  BY DEF Controller!NextStoreByte, Controller!Busy
<1>3. settled_ram' = settled_ram /\ settled_reads' = settled_reads /\ settled_writes' = settled_writes
  BY <1>2, ControllerRest, NothingSettled
<1>4. /\ mc_rw = "READ" /\ ~IsIo(mc_address) /\ io_reads = settled_reads
      /\ ram = WriteBytes(settled_ram, mc_current_address, mc_current, mc_current_data)
      /\ io_writes = (settled_writes + Flag(AtPort /\ mc_current > 0)) % IO_PERIOD
  BY <1>1, <1>2 DEF PinsAway, StoreMoved, Written
<1>5. ram' = ram /\ io_reads' = io_reads /\ io_writes' = io_writes /\ ~q_io_en'
  BY <1>1, <1>4, BusRests
<1>6. AtPort' <=> AtPort
  BY <1>2 DEF AtPort
<1>7. CASE mc_current = mc_goal
  <2>1. mc_status' = "FINISH" /\ mc_rw' = mc_rw /\ mc_address' = mc_address
    BY <1>2, <1>7 DEF Controller!NextStoreByte, Controller!KeepPins
  <2>2. /\ ram' = WriteBytes(settled_ram', mc_current_address', mc_goal', mc_current_data')
        /\ io_writes' = (settled_writes' + Flag(AtPort' /\ mc_goal' > 0)) % IO_PERIOD
    BY <1>2, <1>3, <1>4, <1>5, <1>6, <1>7
  <2>3. StoreMoved'
    BY <1>3, <1>4, <1>5, <2>1, <2>2 DEF StoreMoved, Written
  <2> QED BY <1>2, <1>4, <1>5, <2>1, <2>3 DEF Moved, LoadMoved, NothingMoved, PinsAway
<1>8. CASE mc_current # mc_goal
  <2>1. /\ mc_status' = "BUSY" /\ mc_waiting' = TRUE /\ mc_current' = mc_current + 1 /\ mc_rw' = "WRITE"
        /\ mc_address' = Add(mc_current_address, mc_current) /\ mc_data' = ByteOf(mc_current_data, mc_current)
    BY <1>2, <1>8, ControllerNames DEF Controller!NextStoreByte, Controller!Show
  <2>2. mc_current \in Int
    BY <1>1, <1>2 DEF Transfer
  <2>3. mc_current' - 1 = mc_current
    BY <2>1, <2>2
  <2>4. /\ ram' = WriteBytes(settled_ram', mc_current_address', mc_current' - 1, mc_current_data')
        /\ io_writes' = (settled_writes' + Flag(AtPort' /\ mc_current' - 1 > 0)) % IO_PERIOD
        /\ mc_address' = Add(mc_current_address', mc_current' - 1)
        /\ mc_data' = ByteOf(mc_current_data', mc_current' - 1)
    BY <1>2, <1>3, <1>4, <1>5, <1>6, <2>1, <2>3
  <2>5. StoreMoved'
    BY <1>3, <1>4, <1>5, <2>1, <2>4 DEF StoreMoved, Written
  <2> QED BY <1>2, <2>1, <2>5 DEF Moved, LoadMoved, NothingMoved, PinsAway
<1> QED BY <1>7, <1>8

\* The next byte of a load or a fetch.
LEMMA ReadByteMoved ==
  ASSUME NEW full, Going(full), Controller!NextReadByte(fet_out, lsb_out)
  PROVE  Moved'
<1>1. /\ Transfer /\ Board /\ Settled /\ PortBytes /\ LoadMoved /\ NothingMoved /\ PinsAway
      /\ Controller!Pins(Controller!CpuHasBus)
  BY GoingFinds
<1>2. /\ mc_status = "BUSY" /\ ~mc_waiting /\ mc_working_on # "STORE" /\ mc_working_on' = mc_working_on
      /\ mc_current_address' = mc_current_address /\ mc_goal' = mc_goal /\ mc_out' = Controller!Quiet
  BY DEF Controller!NextReadByte, Controller!Busy
<1>3. settled_ram' = settled_ram /\ settled_reads' = settled_reads /\ settled_writes' = settled_writes
  BY <1>2, ControllerRest, NothingSettled
<1>4. /\ mc_rw = "READ" /\ ~IsIo(mc_address)
  BY <1>1, <1>2 DEF PinsAway
<1>5. ram' = ram /\ io_reads' = io_reads /\ io_writes' = io_writes /\ ~q_io_en'
  BY <1>1, <1>4, BusRests
<1>6. (AtPort' <=> AtPort) /\ mc_working_on \in {"INSTRUCTION", "LOAD"} /\ mc_current \in 0 .. mc_goal - 1
  BY <1>1, <1>2 DEF AtPort, Transfer
<1>7. \/ mc_current = mc_goal - 1 /\ mc_status' = "FINISH" /\ mc_rw' = mc_rw /\ mc_address' = mc_address
      \/ /\ mc_current # mc_goal - 1 /\ mc_status' = "BUSY" /\ mc_waiting' = TRUE /\ mc_current' = mc_current + 1
         /\ mc_rw' = "READ" /\ mc_address' = Add(mc_current_address, mc_current + 1)
  BY <1>2, ControllerNames DEF Controller!NextReadByte, Controller!KeepPins, Controller!Show
<1>8. CASE mc_working_on = "INSTRUCTION"
  <2>1. /\ ram = settled_ram /\ io_reads = settled_reads /\ io_writes = settled_writes
    BY <1>1, <1>8 DEF NothingMoved
  <2>2. mc_working_on' = "INSTRUCTION" /\ mc_rw' = "READ"
    BY <1>2, <1>4, <1>7, <1>8
  <2>3. NothingMoved'
    BY <1>2, <1>3, <1>5, <1>7, <2>1, <2>2 DEF NothingMoved
  <2>4. PinsAway'
    BY <1>4, <1>5, <1>7 DEF PinsAway
  <2> QED BY <2>2, <2>3, <2>4 DEF Moved, StoreMoved, LoadMoved
<1>9. CASE mc_working_on = "LOAD"
  <2>1. /\ ram = settled_ram /\ io_writes = settled_writes
        /\ mc_buffer = IF AtPort THEN 0 ELSE ReadBytes(settled_ram, mc_current_address, mc_current)
        /\ io_reads = (settled_reads + Flag(AtPort)) % IO_PERIOD /\ (q_io_en <=> AtPort)
        /\ AtPort => q_io_dout = settled_reads
        /\ ~AtPort => ram_read_address = Add(mc_current_address, mc_current)
    BY <1>1, <1>2, <1>9 DEF LoadMoved, Taken
  <2>2. /\ mc_current_address \in Word /\ mc_goal \in Nat /\ mc_current \in Nat
        /\ settled_ram \in [Word -> Byte] /\ settled_reads \in 0 .. IO_PERIOD - 1
    BY <1>1, <1>6, <1>9 DEF Transfer, Settled
  <2>3. AtPort => mc_goal = 1 /\ mc_current = 0
    BY <1>1, <1>6, PortByte
  <2>4. mc_buffer' = mc_buffer + Controller!ram_data_in * 2^(BYTE_BITS * mc_current)
    BY <1>9 DEF Controller!NextReadByte
  <2>5. Controller!ram_data_in = IF q_io_en THEN q_io_dout ELSE ram[ram_read_address]
    BY DEF Controller!ram_data_in
  <2>6. mc_buffer' = IF AtPort THEN settled_reads
                     ELSE ReadBytes(settled_ram, mc_current_address, mc_current + 1)
    <3>1. CASE AtPort
      <4>1. 2^(BYTE_BITS * 0) = 1
        <5>1. BYTE_BITS * 0 = 0
          BY WordAssumption DEF WordAssumption
        <5> QED BY <5>1, 2^0 = 1
      <4>2. mc_current = 0 /\ mc_buffer = 0 /\ Controller!ram_data_in = settled_reads
        BY <2>1, <2>3, <2>5, <3>1
      <4>3. mc_buffer' = 0 + settled_reads * 2^(BYTE_BITS * 0)
        BY <2>4, <4>2, Zenon
      <4>4. settled_reads \in Int
        BY <2>2, InputByte
      <4>5. mc_buffer' = 0 + settled_reads * 1
        BY <4>1, <4>3, Zenon
      <4> QED BY <3>1, <4>4, <4>5
    <3>2. CASE ~AtPort
      <4>1. /\ mc_buffer = ReadBytes(settled_ram, mc_current_address, mc_current)
            /\ Controller!ram_data_in = settled_ram[Add(mc_current_address, mc_current)]
        BY <2>1, <2>5, <3>2
      <4>2. ReadBytes(settled_ram, mc_current_address, mc_current + 1)
              = ReadBytes(settled_ram, mc_current_address, mc_current)
                  + settled_ram[Add(mc_current_address, mc_current)] * 2^(BYTE_BITS * mc_current)
        BY <2>2, ReadNext
      <4> QED BY <2>4, <3>2, <4>1, <4>2
    <3> QED BY <3>1, <3>2
  <2>7. mc_working_on' = "LOAD" /\ mc_rw' = "READ"
    BY <1>2, <1>4, <1>7, <1>9
  <2>8. io_reads' = (settled_reads' + Flag(AtPort')) % IO_PERIOD
    <3>1. Flag(AtPort') = Flag(AtPort)
      BY <1>6 DEF Flag
    <3> QED BY <1>3, <1>5, <2>1, <3>1
  <2>9. LoadMoved'
    <3>1. CASE mc_current = mc_goal - 1
      <4>1. mc_current + 1 = mc_goal
        BY <2>2, <3>1
      <4>2. mc_status' = "FINISH"
        BY <1>7, <3>1
      <4>3. mc_buffer' = IF AtPort' THEN settled_reads' ELSE ReadBytes(settled_ram', mc_current_address', mc_goal')
        BY <1>2, <1>3, <1>6, <2>6, <4>1
      <4> QED BY <1>2, <1>3, <1>5, <2>1, <2>7, <2>8, <4>2, <4>3 DEF LoadMoved, Taken
    <3>2. CASE mc_current # mc_goal - 1
      <4>1. /\ mc_status' = "BUSY" /\ mc_waiting' = TRUE /\ mc_current' = mc_current + 1
            /\ mc_address' = Add(mc_current_address, mc_current + 1)
        BY <1>7, <3>2
      <4>2. ~AtPort
        BY <2>2, <2>3, <3>2
      <4>3. io_reads' = settled_reads'
        <5>1. Flag(AtPort) = Flag(FALSE)
          BY <4>2 DEF Flag
        <5> QED BY <1>3, <1>5, <2>1, <2>2, <5>1, FirstByte
      <4>4. mc_buffer' = IF AtPort' THEN 0 ELSE ReadBytes(settled_ram', mc_current_address', mc_current')
        BY <1>2, <1>3, <1>6, <2>6, <4>1, <4>2
      <4> QED BY <1>2, <1>3, <1>5, <2>1, <2>7, <4>1, <4>3, <4>4 DEF LoadMoved
    <3> QED BY <3>1, <3>2
  <2>10. PinsAway'
    BY <1>4, <1>5, <1>7 DEF PinsAway
  <2> QED BY <2>7, <2>9, <2>10 DEF Moved, StoreMoved, NothingMoved
<1> QED BY <1>6, <1>8, <1>9

\* The cycle that answers settles what was moved.
LEMMA FinishMoved ==
  ASSUME NEW full, Going(full), Controller!Finish(fet_out, lsb_out, program)
  PROVE  Moved'
<1>1. /\ Transfer /\ Board /\ NothingMoved /\ PinsAway /\ Controller!Pins(Controller!CpuHasBus)
      /\ Settle(FALSE) /\ BytesInv
  BY GoingFinds DEF Going, Cycle
<1>2. /\ mc_status = "FINISH" /\ mc_status' = "IDLE" /\ mc_working_on' = "NONE"
      /\ mc_rw' = "READ" /\ mc_address' = 0
  BY DEF Controller!Finish, Controller!Release, Controller!Show
<1>3. ram' = ram /\ io_reads' = io_reads /\ io_writes' = io_writes /\ ~q_io_en'
  BY <1>1, <1>2, BusRests DEF PinsAway
<1>4. ram' = settled_ram' /\ io_reads' = settled_reads' /\ io_writes' = settled_writes'
  <2>1. CASE mc_out'.lsb_ready
    BY <1>1, <2>1 DEF Settle
  <2>2. CASE ~mc_out'.lsb_ready
    <3>1. mc_working_on \notin {"LOAD", "STORE"}
      BY <2>2 DEF Controller!Finish, Controller!Quiet
    <3>2. mc_working_on \in {"NONE", "INSTRUCTION"}
      BY <1>1, <3>1 DEF Transfer
    <3> QED BY <1>1, <1>3, <2>2, <3>2 DEF NothingMoved, Settle
  <2> QED BY <2>1, <2>2
<1>5. NothingMoved' /\ PinsAway'
  BY <1>2, <1>3, <1>4, RestAssumption DEF NothingMoved, PinsAway, RestAssumption
<1> QED BY <1>2, <1>5 DEF Moved, StoreMoved, LoadMoved

\* A rollback finds no load from the port under way.
LEMMA NoInputDropped ==
  ASSUME NEW full, Going(full), rob_out.rollback
  PROVE  mc_working_on = "LOAD" => ~AtPort
<1> SUFFICES ASSUME mc_working_on = "LOAD" PROVE ~IsIo(mc_current_address)
  BY DEF AtPort
<1>1. /\ Signals /\ NoInput /\ LsbType /\ AddressKept
      /\ AccessAgreed(AccessPending, StorePending, mc_out.lsb_ready)
  BY DEF Going, BytesInv, CoreInv, CoreType, SchedInv
<1>2. ~(lsb_status = "LOAD" /\ IsIo(lsb_current_address))
  BY <1>1 DEF Signals, NoInput, Inputs
<1>3. AccessPending /\ ~StorePending
  BY DEF AccessPending, StorePending
<1>4. lsb_status = "LOAD"
  BY <1>1, <1>3 DEF AccessAgreed, LsbType, Nowhere
<1>5. AccessRequest.address = mc_current_address
  BY DEF AccessRequest
<1> QED BY <1>1, <1>2, <1>3, <1>4, <1>5 DEF AddressKept

\* A rollback drops a load or a fetch, of which nothing shows, and lets a store stand still.
LEMMA RollbackMoved ==
  ASSUME NEW full, Going(full), rob_out.rollback, Controller!Rollback(lsb_out)
  PROVE  Moved'
<1>1. /\ Transfer /\ Board /\ Settled /\ PortBytes /\ StoreMoved /\ LoadMoved /\ PinsAway
      /\ Controller!Pins(Controller!CpuHasBus)
  BY GoingFinds
<1>2. mc_out' = Controller!Quiet /\ mc_rw' = mc_rw /\ mc_address' = mc_address /\ mc_data' = mc_data
      /\ mc_waiting' = mc_waiting
  BY DEF Controller!Rollback, Controller!KeepPins
<1>3. settled_ram' = settled_ram /\ settled_reads' = settled_reads /\ settled_writes' = settled_writes
  BY <1>2, ControllerRest, NothingSettled
<1>4. mc_working_on \in {"NONE", "INSTRUCTION", "LOAD", "STORE"} /\ (mc_status = "IDLE" <=> mc_working_on = "NONE")
  BY <1>1 DEF Transfer
<1>5. CASE mc_working_on # "STORE"
  <2>1. mc_status' = "IDLE" /\ mc_working_on' = "NONE"
    BY <1>4, <1>5 DEF Controller!Rollback
  <2>2. /\ ram' = settled_ram /\ io_reads' = settled_reads /\ io_writes' = settled_writes /\ ~q_io_en'
        /\ mc_rw = "READ" /\ ~IsIo(mc_address)
    <3>1. CASE mc_working_on \in {"NONE", "INSTRUCTION"}
      BY <3>1, FetchUnseen
    <3>2. CASE mc_working_on = "LOAD"
      <4>1. ~AtPort
        BY <3>2, NoInputDropped
      <4>2. mc_rw = "READ" /\ ~IsIo(mc_address)
        <5>1. CASE mc_status = "BUSY" /\ mc_waiting
          <6>1. mc_rw = "READ" /\ mc_address = Add(mc_current_address, mc_current)
            BY <1>1, <3>2, <5>1 DEF LoadMoved
          <6>2. mc_current \in 0 .. mc_goal - 1
            BY <1>1, <3>2, <5>1 DEF Transfer
          <6> QED BY <1>1, <4>1, <6>1, <6>2, PortByte
        <5>2. CASE ~(mc_status = "BUSY" /\ mc_waiting)
          BY <1>1, <5>2 DEF PinsAway
        <5> QED BY <5>1, <5>2
      <4>3. io_reads = settled_reads
        <5>1. (settled_reads + Flag(FALSE)) % IO_PERIOD = settled_reads
          BY <1>1, FirstByte DEF Settled
        <5>2. Flag(AtPort) = Flag(FALSE)
          BY <4>1 DEF Flag
        <5>3. mc_status \in {"BUSY", "FINISH"} /\ mc_waiting \in BOOLEAN
          BY <1>1, <3>2 DEF Transfer
        <5>4. io_reads = settled_reads \/ io_reads = (settled_reads + Flag(AtPort)) % IO_PERIOD
          BY <1>1, <3>2, <5>3 DEF LoadMoved, Taken
        <5> QED BY <5>1, <5>2, <5>4
      <4>4. ram = settled_ram /\ io_writes = settled_writes
        BY <1>1, <3>2 DEF LoadMoved
      <4> QED BY <1>1, <4>2, <4>3, <4>4, BusRests
    <3> QED BY <1>4, <1>5, <3>1, <3>2
  <2>3. NothingMoved' /\ PinsAway'
    BY <1>2, <1>3, <2>1, <2>2 DEF NothingMoved, PinsAway
  <2> QED BY <2>1, <2>3 DEF Moved, StoreMoved, LoadMoved
<1>6. CASE mc_working_on = "STORE"
  <2>1. /\ mc_status' = mc_status /\ mc_working_on' = "STORE" /\ mc_current' = mc_current /\ mc_goal' = mc_goal
        /\ mc_current_address' = mc_current_address /\ mc_current_data' = mc_current_data
    BY <1>6 DEF Controller!Rollback
  <2>2. AtPort' <=> AtPort
    BY <1>6, <2>1 DEF AtPort
  <2>3. CASE mc_status = "BUSY" /\ mc_waiting
    <3>1. /\ ram' = WriteBytes(settled_ram, mc_current_address, mc_current, mc_current_data)
          /\ io_writes' = (settled_writes + Flag(AtPort /\ mc_current > 0)) % IO_PERIOD
          /\ io_reads' = settled_reads /\ (q_io_en' <=> AtPort)
      BY <1>6, <2>3, ByteWritten
    <3>2. /\ mc_rw = "WRITE" /\ mc_address = Add(mc_current_address, mc_current - 1)
          /\ mc_data = ByteOf(mc_current_data, mc_current - 1)
      BY <1>1, <1>6, <2>3 DEF StoreMoved
    <3>3. /\ ram' = WriteBytes(settled_ram', mc_current_address', mc_current', mc_current_data')
          /\ io_writes' = (settled_writes' + Flag(AtPort' /\ mc_current' > 0)) % IO_PERIOD
      BY <1>3, <2>1, <2>2, <3>1
    <3>4. StoreMoved'
      BY <1>2, <1>3, <2>1, <2>2, <2>3, <3>1, <3>2, <3>3 DEF StoreMoved, Written
    <3>5. PinsAway'
      BY <1>2, <2>1, <2>3 DEF PinsAway
    <3> QED BY <2>1, <3>4, <3>5 DEF Moved, LoadMoved, NothingMoved
  <2>4. CASE ~(mc_status = "BUSY" /\ mc_waiting)
    <3>1. mc_rw = "READ" /\ ~IsIo(mc_address)
      BY <1>1, <2>4 DEF PinsAway
    <3>2. ram' = ram /\ io_reads' = io_reads /\ io_writes' = io_writes /\ ~q_io_en'
      BY <1>1, <3>1, BusRests
    <3>3. /\ mc_status = "FINISH" => Written(mc_goal)'
          /\ mc_status = "BUSY" => Written(mc_current)'
      BY <1>1, <1>3, <1>6, <2>1, <2>2, <2>4, <3>2 DEF StoreMoved, Written
    <3>4. io_reads = settled_reads /\ mc_status \in {"IDLE", "BUSY", "FINISH"}
      BY <1>1, <1>6 DEF StoreMoved, Transfer
    <3>5. StoreMoved'
      BY <1>2, <1>3, <2>1, <2>4, <3>2, <3>3, <3>4 DEF StoreMoved, Written
    <3>6. PinsAway'
      BY <1>2, <3>1, <3>2 DEF PinsAway
    <3> QED BY <2>1, <3>5, <3>6 DEF Moved, LoadMoved, NothingMoved
  <2> QED BY <2>3, <2>4
<1> QED BY <1>5, <1>6

\* Whatever the cycle does, the transfer is where it should be after it.
LEMMA AllMoved ==
  ASSUME NEW full, Going(full)
  PROVE  Moved'
<1>1. Controller!Clock(FALSE, rob_out, fet_out, lsb_out, full, program, Controller!CpuHasBus)
  BY DEF Going, Cycle
<1>2. CASE rob_out.rollback /\ Controller!Rollback(lsb_out)
  BY <1>2, RollbackMoved
<1>3. CASE Controller!Operate(fet_out, lsb_out, full, program)
  BY <1>3, StartsMoved, EndWaitMoved, StoreByteMoved, ReadByteMoved, FinishMoved DEF Controller!Operate
<1> QED BY <1>1, <1>2, <1>3 DEF Controller!Clock

\* What the controller remembers of a request that starts, or of none.
LEMMA NoneLeftRemember ==
  ASSUME NoneLeft, Waiting, FetcherType, LsbType, KindsKnown, NEW taken, Controller!Remember(fet_out, lsb_out, taken)
  PROVE  /\ mc_inst_request'.pending \/ mc_inst_request' = Controller!NoRequest
         /\ mc_load_request'.pending \/ mc_load_request' = Controller!NoRequest
         /\ mc_store_request'.pending \/ mc_store_request' = Controller!NoRequest
         /\ mc_inst_request'.data = 0 /\ mc_load_request'.data = 0
<1>1. /\ mc_inst_request' = IF taken = "INSTRUCTION" THEN Controller!NoRequest
                            ELSE IF fet_out.mc_request THEN Controller!Instruction1(fet_out) ELSE mc_inst_request
      /\ mc_load_request' = IF taken = "LOAD" THEN Controller!NoRequest
                            ELSE IF lsb_out.mc_request /\ ~lsb_out.mc_store THEN Controller!Load1(lsb_out)
                            ELSE mc_load_request
      /\ mc_store_request' = IF taken = "STORE" THEN Controller!NoRequest
                             ELSE IF lsb_out.mc_request /\ lsb_out.mc_store THEN Controller!Store1(lsb_out)
                             ELSE mc_store_request
  BY DEF Controller!Remember
<1>2. Controller!NoRequest.data = 0 /\ Controller!Instruction1(fet_out).data = 0 /\ Controller!Load1(lsb_out).data = 0
  BY DEF Controller!NoRequest, Controller!Instruction1, Controller!Load1
<1> QED BY <1>1, <1>2, Arrivals DEF NoneLeft

\* Nothing is left over after a cycle.
LEMMA NoneLeftStep ==
  ASSUME NEW full, Going(full)
  PROVE  NoneLeft'
<1>1. /\ Waiting /\ Transfer /\ NoneLeft
      /\ Controller!Clock(FALSE, rob_out, fet_out, lsb_out, full, program, Controller!CpuHasBus)
  BY GoingFinds DEF Going, Cycle
<1>2. FetcherType /\ LsbType /\ KindsKnown
  BY DEF Going, BytesInv, CoreInv, CoreType
<1>3. CASE Controller!Rollback(lsb_out)
  <2>1. /\ mc_inst_request' = Controller!NoRequest
        /\ mc_load_request' = Controller!NoRequest \/ mc_load_request' = Controller!Load1(lsb_out)
        /\ mc_store_request' = mc_store_request \/ mc_store_request' = Controller!Store1(lsb_out)
        /\ mc_working_on' = "LOAD" => mc_working_on = "LOAD" /\ mc_current_data' = mc_current_data
    BY <1>3 DEF Controller!Rollback
  <2>2. Controller!NoRequest.data = 0 /\ Controller!Load1(lsb_out).data = 0
    BY DEF Controller!NoRequest, Controller!Load1
  <2> QED BY <1>1, <1>2, <2>1, <2>2, Arrivals DEF NoneLeft
<1>4. CASE Controller!Operate(fet_out, lsb_out, full, program)
  <2>1. PICK taken : Controller!Remember(fet_out, lsb_out, taken)
    BY <1>4 DEF Controller!Operate, Controller!StartStore, Controller!StartLoad, Controller!StartFetch,
                Controller!Rest, Controller!EndWait, Controller!NextStoreByte, Controller!NextReadByte,
                Controller!Busy, Controller!Finish
  <2>2. mc_working_on' = "LOAD" => mc_current_data' = 0
    <3>1. \/ mc_working_on' = mc_working_on /\ mc_current_data' = mc_current_data
          \/ mc_working_on' # "LOAD"
          \/ mc_current_data' = mc_load_request.data
      BY <1>4 DEF Controller!Operate, Controller!StartStore, Controller!StartLoad, Controller!StartFetch,
                  Controller!StartWork, Controller!Rest, Controller!EndWait, Controller!NextStoreByte,
                  Controller!NextReadByte, Controller!Busy, Controller!Finish
    <3> QED BY <1>1, <3>1 DEF NoneLeft
  <2> QED BY <1>1, <1>2, <2>1, <2>2, NoneLeftRemember DEF NoneLeft
<1> QED BY <1>1, <1>3, <1>4 DEF Controller!Clock

\* The load store buffer keeps the address of an access it still waits for.
LEMMA AddressStays ==
  ASSUME NEW full, Going(full), AccessPending'
  PROVE  /\ lsb_current_address' = lsb_current_address
         /\ lsb_out.mc_request \/ AccessPending
<1>1. /\ AccessAgreed(AccessPending, StorePending, mc_out.lsb_ready)
      /\ LsbType /\ BytesInv
  BY DEF Going, BytesInv, CoreInv, CoreType
<1>2. /\ Controller!Clock(FALSE, rob_out, fet_out, lsb_out, full, program, Controller!CpuHasBus)
      /\ LoadStoreBuffer!Clock(FALSE, Decoded, Broadcast, rob_out, mc_out)
  BY DEF Going, Cycle, CoreCycle
<1>3. Done(FALSE)
  BY <1>1, <1>2, BytesAsked, ControllerDone, ProcessorHost
<1>4. AccessServed(FALSE, AccessPending, StorePending, AccessPending', StorePending', mc_out'.lsb_ready)
  BY <1>3 DEF Done
<1>5. /\ lsb_out.mc_request \/ AccessPending
      /\ rob_out.rollback => \/ lsb_out.mc_request /\ (lsb_out.mc_store \/ IsIo(lsb_out.mc_address))
                             \/ AccessPending /\ StorePending
  BY <1>4 DEF AccessServed
<1>6. lsb_status # "IDLE" /\ ~mc_out.lsb_ready
  BY <1>1, <1>5 DEF AccessAgreed, Single, Nowhere
<1>7. rob_out.rollback => ~LoadStoreBuffer!Abandons
  BY <1>1, <1>5, LsbNames DEF AccessAgreed, LoadStoreBuffer!Abandons
<1>8. ~LoadStoreBuffer!CanIssue /\ ~LoadStoreBuffer!CanNotice /\ ~LoadStoreBuffer!Finishes(mc_out)
  BY <1>6 DEF LoadStoreBuffer!CanIssue, LoadStoreBuffer!CanNotice, LoadStoreBuffer!Finishes
<1>9. lsb_current_address' = lsb_current_address
  BY <1>2, <1>7, <1>8
     DEF LoadStoreBuffer!Clock, LoadStoreBuffer!Operate, LoadStoreBuffer!Rollback, LoadStoreBuffer!Stay
<1> QED BY <1>5, <1>9

(***************************************************************************)
(* The cycles of the memory of Cpu.                                        *)
(***************************************************************************)

\* What arrives joins what the controller has.
FetchJoined(f) == IF fet_out.mc_request THEN AnyTiming!Memory!FetchOf(fet_out) ELSE f
AccessJoined(a) == IF lsb_out.mc_request THEN AnyTiming!Memory!AccessOf(lsb_out) ELSE a

FetchWaiting == [pending |-> mc_inst_request.pending, address |-> mc_inst_request.address]

\* Nothing under way or waiting is no request of MemoryPort.
LEMMA NothingWaits ==
  ASSUME NoneLeft
  PROVE  /\ ~FetchPending => Fetch = AnyTiming!Memory!NoFetch
         /\ ~AccessPending => AccessRequest = AnyTiming!Memory!NoAccess
<1>1. /\ Controller!NoRequest.pending = FALSE /\ Controller!NoRequest.address = 0
      /\ Controller!NoRequest.goal = 0 /\ Controller!NoRequest.data = 0
  BY DEF Controller!NoRequest
<1>2. ASSUME ~FetchPending PROVE Fetch = AnyTiming!Memory!NoFetch
  <2>1. mc_inst_request = Controller!NoRequest /\ mc_working_on # "INSTRUCTION"
    BY <1>2 DEF NoneLeft, FetchPending
  <2> QED BY <1>1, <2>1 DEF Fetch, AnyTiming!Memory!NoFetch
<1>3. ASSUME ~AccessPending PROVE AccessRequest = AnyTiming!Memory!NoAccess
  <2>1. /\ mc_load_request = Controller!NoRequest /\ mc_working_on \notin {"LOAD", "STORE"}
        /\ ~mc_store_request.pending
    BY <1>3 DEF NoneLeft, AccessPending
  <2> QED BY <1>1, <2>1 DEF AccessRequest, AccessWaiting, Pending, AnyTiming!Memory!NoAccess
<1> QED BY <1>2, <1>3

\* What waits after a cycle, of what is not taken in it.
LEMMA WaitingAfter ==
  ASSUME Asked, NoneLeft, NEW taken, Controller!Remember(fet_out, lsb_out, taken)
  PROVE  /\ taken # "INSTRUCTION" => FetchWaiting' = FetchJoined(FetchWaiting)
         /\ taken \notin {"LOAD", "STORE"} => AccessWaiting' = AccessJoined(AccessWaiting)
<1>1. /\ mc_inst_request' = IF taken = "INSTRUCTION" THEN Controller!NoRequest
                            ELSE IF fet_out.mc_request THEN Controller!Instruction1(fet_out) ELSE mc_inst_request
      /\ mc_load_request' = IF taken = "LOAD" THEN Controller!NoRequest
                            ELSE IF lsb_out.mc_request /\ ~lsb_out.mc_store THEN Controller!Load1(lsb_out)
                            ELSE mc_load_request
      /\ mc_store_request' = IF taken = "STORE" THEN Controller!NoRequest
                             ELSE IF lsb_out.mc_request /\ lsb_out.mc_store THEN Controller!Store1(lsb_out)
                             ELSE mc_store_request
  BY DEF Controller!Remember
<1>2. lsb_out.mc_request => ~mc_store_request.pending /\ ~mc_load_request.pending
  BY DEF Asked, AccessPending
<1>3. ASSUME taken # "INSTRUCTION" PROVE FetchWaiting' = FetchJoined(FetchWaiting)
  <2>1. CASE fet_out.mc_request
    <3>1. mc_inst_request' = Controller!Instruction1(fet_out)
      BY <1>1, <1>3, <2>1
    <3>2. mc_inst_request'.pending = TRUE /\ mc_inst_request'.address = fet_out.mc_address
      BY <3>1 DEF Controller!Instruction1
    <3> QED BY <2>1, <3>2 DEF FetchWaiting, FetchJoined, AnyTiming!Memory!FetchOf
  <2>2. CASE ~fet_out.mc_request
    BY <1>1, <1>3, <2>2 DEF FetchWaiting, FetchJoined
  <2> QED BY <2>1, <2>2
<1>4. ASSUME taken \notin {"LOAD", "STORE"} PROVE AccessWaiting' = AccessJoined(AccessWaiting)
  <2>1. CASE lsb_out.mc_request /\ lsb_out.mc_store
    <3>1. mc_store_request' = Controller!Store1(lsb_out)
      BY <1>1, <1>4, <2>1
    <3>2. /\ mc_store_request'.pending = TRUE /\ mc_store_request'.address = lsb_out.mc_address
          /\ mc_store_request'.goal = lsb_out.mc_goal /\ mc_store_request'.data = lsb_out.mc_data
      BY <3>1 DEF Controller!Store1
    <3>3. AccessWaiting' = [pending |-> TRUE, store |-> TRUE, address |-> lsb_out.mc_address,
                            goal |-> lsb_out.mc_goal, data |-> lsb_out.mc_data]
      BY <3>2 DEF AccessWaiting, Pending
    <3>4. AnyTiming!Memory!AccessOf(lsb_out)
            = [pending |-> TRUE, store |-> TRUE, address |-> lsb_out.mc_address,
               goal |-> lsb_out.mc_goal, data |-> lsb_out.mc_data]
      <4>1. lsb_out.mc_store = TRUE
        BY <2>1, Zenon DEF Asked, LsbType, LsbOutput
      <4> QED BY <4>1 DEF AnyTiming!Memory!AccessOf
    <3> QED BY <2>1, <3>3, <3>4 DEF AccessJoined
  <2>2. CASE lsb_out.mc_request /\ ~lsb_out.mc_store
    <3>1. mc_load_request' = Controller!Load1(lsb_out) /\ mc_store_request' = mc_store_request
      BY <1>1, <1>4, <2>2
    <3>2. /\ mc_load_request'.pending = TRUE /\ mc_load_request'.address = lsb_out.mc_address
          /\ mc_load_request'.goal = lsb_out.mc_goal /\ mc_load_request'.data = 0
          /\ ~mc_store_request'.pending
      BY <1>2, <2>2, <3>1 DEF Controller!Load1
    <3>3. AccessWaiting' = [pending |-> TRUE, store |-> FALSE, address |-> lsb_out.mc_address,
                            goal |-> lsb_out.mc_goal, data |-> 0]
      BY <3>2 DEF AccessWaiting, Pending
    <3>4. AnyTiming!Memory!AccessOf(lsb_out)
            = [pending |-> TRUE, store |-> FALSE, address |-> lsb_out.mc_address,
               goal |-> lsb_out.mc_goal, data |-> 0]
      <4>1. lsb_out.mc_store = FALSE
        <5>1. lsb_out.mc_store \in BOOLEAN
          BY Zenon DEF Asked, LsbType, LsbOutput
        <5> QED BY <2>2, <5>1
      <4> QED BY <4>1 DEF AnyTiming!Memory!AccessOf
    <3> QED BY <2>2, <3>3, <3>4 DEF AccessJoined
  <2>3. CASE ~lsb_out.mc_request
    BY <1>1, <1>4, <2>3 DEF AccessWaiting, AccessJoined, Pending
  <2> QED BY <2>1, <2>2, <2>3
<1> QED BY <1>3, <1>4

\* The request taken is the one under way from now on; without one what was under way goes on.
TakesUp(taken) ==
  /\ Controller!Remember(fet_out, lsb_out, taken)
  /\ taken = "NONE" => /\ mc_working_on' = mc_working_on /\ mc_goal' = mc_goal
                       /\ mc_current_address' = mc_current_address /\ mc_current_data' = mc_current_data
  /\ taken # "NONE" => mc_working_on = "NONE" /\ mc_working_on' = taken
  /\ taken = "INSTRUCTION" => mc_inst_request.pending /\ mc_current_address' = mc_inst_request.address
  /\ taken = "LOAD" => /\ mc_load_request.pending /\ mc_current_address' = mc_load_request.address
                       /\ mc_goal' = mc_load_request.goal /\ mc_current_data' = mc_load_request.data
  /\ taken = "STORE" => /\ mc_store_request.pending /\ mc_current_address' = mc_store_request.address
                        /\ mc_goal' = mc_store_request.goal /\ mc_current_data' = mc_store_request.data

\* A request that starts stays the same request.
LEMMA GoesOn ==
  ASSUME NEW full, Going(full), NEW taken \in {"NONE", "INSTRUCTION", "LOAD", "STORE"}, TakesUp(taken)
  PROVE  Fetch' = FetchJoined(Fetch) /\ AccessRequest' = AccessJoined(AccessRequest)
<1> USE DEF TakesUp
<1>1. /\ Asked /\ NoneLeft /\ OnePlace
      /\ fet_out.mc_request => ~FetchPending
      /\ lsb_out.mc_request => ~AccessPending
  BY BytesAsked DEF Going, Asked
<1>2. /\ taken # "INSTRUCTION" => FetchWaiting' = FetchJoined(FetchWaiting)
      /\ taken \notin {"LOAD", "STORE"} => AccessWaiting' = AccessJoined(AccessWaiting)
  BY <1>1, WaitingAfter
<1>3. Fetch' = FetchJoined(Fetch)
  <2>1. CASE taken = "INSTRUCTION"
    <3>1. mc_inst_request.pending = TRUE /\ ~fet_out.mc_request /\ mc_working_on # "INSTRUCTION"
      <4>1. mc_inst_request.pending \in BOOLEAN
        BY <1>1, RequestFields DEF Asked
      <4> QED BY <1>1, <2>1, <4>1 DEF FetchPending
    <3>2. Fetch = [pending |-> TRUE, address |-> mc_inst_request.address]
      BY <3>1 DEF Fetch
    <3>3. Fetch' = [pending |-> TRUE, address |-> mc_inst_request.address]
      BY <2>1 DEF Fetch
    <3> QED BY <3>1, <3>2, <3>3 DEF FetchJoined
  <2>2. CASE taken # "INSTRUCTION" /\ mc_working_on = "INSTRUCTION"
    <3>1. taken = "NONE" /\ ~fet_out.mc_request
      BY <1>1, <2>2 DEF FetchPending
    <3> QED BY <2>2, <3>1 DEF Fetch, FetchJoined
  <2>3. CASE taken # "INSTRUCTION" /\ mc_working_on # "INSTRUCTION"
    <3>1. mc_working_on' # "INSTRUCTION"
      BY <2>3
    <3>2. Fetch' = FetchWaiting' /\ Fetch = FetchWaiting
      BY <2>3, <3>1 DEF Fetch, FetchWaiting
    <3> QED BY <1>2, <2>3, <3>2
  <2> QED BY <2>1, <2>2, <2>3
<1>4. AccessRequest' = AccessJoined(AccessRequest)
  <2>1. CASE taken = "STORE"
    <3>1. mc_store_request.pending = TRUE /\ ~lsb_out.mc_request /\ mc_working_on \notin {"LOAD", "STORE"}
      <4>1. mc_store_request.pending \in BOOLEAN
        BY <1>1, RequestFields DEF Asked
      <4> QED BY <1>1, <2>1, <4>1 DEF AccessPending
    <3> DEFINE r == [pending |-> TRUE, store |-> TRUE, address |-> mc_store_request.address,
                     goal |-> mc_store_request.goal, data |-> mc_store_request.data]
    <3>2. AccessRequest = r
      BY <3>1 DEF AccessRequest, AccessWaiting, Pending
    <3>3. AccessRequest' = r
      BY <2>1 DEF AccessRequest
    <3> QED BY <3>1, <3>2, <3>3 DEF AccessJoined
  <2>2. CASE taken = "LOAD"
    <3>1. /\ mc_load_request.pending = TRUE /\ ~mc_store_request.pending /\ ~lsb_out.mc_request
          /\ mc_working_on \notin {"LOAD", "STORE"}
      <4>1. mc_load_request.pending \in BOOLEAN
        BY <1>1, RequestFields DEF Asked
      <4> QED BY <1>1, <2>2, <4>1 DEF AccessPending, OnePlace
    <3> DEFINE r == [pending |-> TRUE, store |-> FALSE, address |-> mc_load_request.address,
                     goal |-> mc_load_request.goal, data |-> mc_load_request.data]
    <3>2. AccessRequest = r
      BY <3>1 DEF AccessRequest, AccessWaiting, Pending
    <3>3. AccessRequest' = r
      BY <2>2 DEF AccessRequest
    <3> QED BY <3>1, <3>2, <3>3 DEF AccessJoined
  <2>3. CASE taken \in {"NONE", "INSTRUCTION"} /\ mc_working_on \in {"LOAD", "STORE"}
    <3>1. taken = "NONE" /\ ~lsb_out.mc_request
      BY <1>1, <2>3 DEF AccessPending
    <3> QED BY <2>3, <3>1 DEF AccessRequest, AccessJoined
  <2>4. CASE taken \in {"NONE", "INSTRUCTION"} /\ mc_working_on \notin {"LOAD", "STORE"}
    <3>1. mc_working_on' \notin {"LOAD", "STORE"}
      BY <2>4
    <3>2. AccessRequest' = AccessWaiting' /\ AccessRequest = AccessWaiting
      BY <2>4, <3>1 DEF AccessRequest
    <3> QED BY <1>2, <2>4, <3>2
  <2> QED BY <2>1, <2>2, <2>3, <2>4
<1> QED BY <1>3, <1>4

\* One cycle of the memory of Cpu.
PortCycle(serves) == AnyTiming!Memory!Clock(FALSE, rob_out, fet_out, lsb_out, serves, program)

\* Until it answers, the controller looks like a memory that takes its time.
LEMMA OperateWorks ==
  ASSUME NEW full, Going(full), ~rob_out.rollback, Controller!Operate(fet_out, lsb_out, full, program),
         ~Controller!Finish(fet_out, lsb_out, program)
  PROVE  PortCycle("none")
<1>1. mc_status = "IDLE" => mc_working_on = "NONE"
  BY GoingFinds DEF Transfer
<1>2. mc_out' = Controller!Quiet /\ Fetch' = FetchJoined(Fetch) /\ AccessRequest' = AccessJoined(AccessRequest)
  <2>1. CASE Controller!StartStore(fet_out, lsb_out, full)
    <3>1. /\ mc_working_on = "NONE" /\ mc_working_on' = "STORE" /\ mc_out' = Controller!Quiet
          /\ mc_store_request.pending /\ mc_current_address' = mc_store_request.address
          /\ mc_goal' = mc_store_request.goal /\ mc_current_data' = mc_store_request.data
          /\ Controller!Remember(fet_out, lsb_out, "STORE")
      BY <1>1, <2>1 DEF Controller!StartStore, Controller!CouldStore, Controller!StartWork
    <3>2. TakesUp("STORE")
      BY <3>1 DEF TakesUp
    <3> QED BY <3>1, <3>2, GoesOn
  <2>2. CASE Controller!StartLoad(fet_out, lsb_out, full)
    <3>1. /\ mc_working_on = "NONE" /\ mc_working_on' = "LOAD" /\ mc_out' = Controller!Quiet
          /\ mc_load_request.pending /\ mc_current_address' = mc_load_request.address
          /\ mc_goal' = mc_load_request.goal /\ mc_current_data' = mc_load_request.data
          /\ Controller!Remember(fet_out, lsb_out, "LOAD")
      BY <1>1, <2>2 DEF Controller!StartLoad, Controller!StartWork
    <3>2. TakesUp("LOAD")
      BY <3>1 DEF TakesUp
    <3> QED BY <3>1, <3>2, GoesOn
  <2>3. CASE Controller!StartFetch(fet_out, lsb_out, full)
    <3>1. /\ mc_working_on = "NONE" /\ mc_working_on' = "INSTRUCTION" /\ mc_out' = Controller!Quiet
          /\ mc_inst_request.pending /\ mc_current_address' = mc_inst_request.address
          /\ Controller!Remember(fet_out, lsb_out, "INSTRUCTION")
      BY <1>1, <2>3 DEF Controller!StartFetch, Controller!StartWork
    <3>2. TakesUp("INSTRUCTION")
      BY <3>1 DEF TakesUp
    <3> QED BY <3>1, <3>2, GoesOn
  <2>4. CASE \/ Controller!Rest(fet_out, lsb_out, full) \/ Controller!EndWait(fet_out, lsb_out)
             \/ Controller!NextStoreByte(fet_out, lsb_out) \/ Controller!NextReadByte(fet_out, lsb_out)
    <3>1. /\ mc_working_on' = mc_working_on /\ mc_goal' = mc_goal /\ mc_out' = Controller!Quiet
          /\ mc_current_address' = mc_current_address /\ mc_current_data' = mc_current_data
          /\ Controller!Remember(fet_out, lsb_out, "NONE")
      BY <2>4 DEF Controller!Rest, Controller!EndWait, Controller!NextStoreByte, Controller!NextReadByte,
                  Controller!Busy
    <3>2. TakesUp("NONE")
      BY <3>1 DEF TakesUp
    <3> QED BY <3>1, <3>2, GoesOn
  <2> QED BY <2>1, <2>2, <2>3, <2>4 DEF Controller!Operate
<1>3. settled_ram' = settled_ram /\ settled_reads' = settled_reads /\ settled_writes' = settled_writes
  BY <1>2, ControllerRest, NothingSettled
<1> QED BY <1>2, <1>3, SameMemory
        DEF PortCycle, AnyTiming!Memory!Clock, AnyTiming!Memory!Work, AnyTiming!Memory!Accept, FetchJoined,
            AccessJoined

\* The cycle that answers is the one in which the memory of Cpu finishes the same request.
LEMMA FinishServes ==
  ASSUME NEW full, Going(full), ~rob_out.rollback, Controller!Finish(fet_out, lsb_out, program)
  PROVE  PortCycle("fetch") \/ PortCycle("data")
<1>1. /\ Asked /\ NoneLeft /\ OnePlace /\ Transfer /\ Board /\ StoreMoved /\ LoadMoved /\ PinsAway
      /\ Controller!Pins(Controller!CpuHasBus) /\ Settle(FALSE)
      /\ fet_out.mc_request => ~FetchPending
      /\ lsb_out.mc_request => ~AccessPending
  BY BytesAsked, GoingFinds DEF Going, Asked, Cycle
<1>2. /\ mc_status = "FINISH" /\ mc_working_on' = "NONE"
      /\ mc_working_on \in {"INSTRUCTION", "LOAD", "STORE"}
      /\ Controller!Remember(fet_out, lsb_out, "NONE")
  BY <1>1 DEF Controller!Finish, Transfer
<1>3. FetchWaiting' = FetchJoined(FetchWaiting) /\ AccessWaiting' = AccessJoined(AccessWaiting)
  BY <1>1, <1>2, WaitingAfter
<1>4. Fetch' = FetchWaiting' /\ AccessRequest' = AccessWaiting'
  BY <1>2 DEF Fetch, FetchWaiting, AccessRequest
<1>5. ram' = ram /\ io_reads' = io_reads /\ io_writes' = io_writes
  BY <1>1, <1>2, BusRests DEF PinsAway
<1>6. CASE mc_working_on = "INSTRUCTION"
  <2>1. mc_out' = [Controller!Quiet EXCEPT !.fet_ready = TRUE, !.fet_instruction = program[mc_current_address]]
    BY <1>6 DEF Controller!Finish
  <2>2. ~mc_out'.lsb_ready
    BY <2>1 DEF Controller!Quiet
  <2>3. settled_ram' = settled_ram /\ settled_reads' = settled_reads /\ settled_writes' = settled_writes
    BY <2>2, NothingSettled
  <2>4. Fetch.pending /\ Fetch.address = mc_current_address
    BY <1>6 DEF Fetch
  <2>5. FetchWaiting = AnyTiming!Memory!NoFetch
    <3>1. mc_inst_request = Controller!NoRequest
      BY <1>1, <1>6 DEF OnePlace, NoneLeft
    <3>2. Controller!NoRequest.pending = FALSE /\ Controller!NoRequest.address = 0
      BY DEF Controller!NoRequest
    <3> QED BY <3>1, <3>2 DEF FetchWaiting, AnyTiming!Memory!NoFetch
  <2>6. AccessWaiting = AccessRequest
    BY <1>6 DEF AccessRequest
  <2>7. AnyTiming!Memory!FinishFetch(fet_out, lsb_out, program)
    BY <1>3, <1>4, <2>1, <2>3, <2>4, <2>5, <2>6, SameMemory
       DEF AnyTiming!Memory!FinishFetch, AnyTiming!Memory!Accept, FetchJoined, AccessJoined
  <2> QED BY <2>7 DEF PortCycle, AnyTiming!Memory!Clock
<1>7. ASSUME mc_working_on \in {"LOAD", "STORE"}
      PROVE  /\ AnyTiming!Memory!Accept(fet_out, lsb_out, Fetch, AnyTiming!Memory!NoAccess)
             /\ AccessRequest = [pending |-> TRUE, store |-> mc_working_on = "STORE", address |-> mc_current_address,
                                 goal |-> mc_goal, data |-> mc_current_data]
             /\ settled_ram' = ram /\ settled_reads' = io_reads /\ settled_writes' = io_writes
  <2>1. mc_load_request = Controller!NoRequest /\ ~mc_store_request.pending
    BY <1>1, <1>7 DEF OnePlace, NoneLeft
  <2>2. AccessWaiting = AnyTiming!Memory!NoAccess
    <3>1. /\ Controller!NoRequest.pending = FALSE /\ Controller!NoRequest.address = 0
          /\ Controller!NoRequest.goal = 0 /\ Controller!NoRequest.data = 0
      BY DEF Controller!NoRequest
    <3> QED BY <2>1, <3>1 DEF AccessWaiting, Pending, AnyTiming!Memory!NoAccess
  <2>3. FetchWaiting = Fetch
    BY <1>7 DEF Fetch, FetchWaiting
  <2>4. mc_out'.lsb_ready
    BY <1>7 DEF Controller!Finish, Controller!Quiet
  <2>5. settled_ram' = ram /\ settled_reads' = io_reads /\ settled_writes' = io_writes
    BY <1>1, <1>5, <2>4 DEF Settle
  <2>6. AnyTiming!Memory!Accept(fet_out, lsb_out, Fetch, AnyTiming!Memory!NoAccess)
    BY <1>3, <1>4, <2>2, <2>3 DEF AnyTiming!Memory!Accept, FetchJoined, AccessJoined
  <2> QED BY <1>7, <2>5, <2>6 DEF AccessRequest
<1>8. CASE mc_working_on = "STORE"
  <2>1. /\ mc_out' = [Controller!Quiet EXCEPT !.lsb_ready = TRUE]
        /\ Written(mc_goal) /\ io_reads = settled_reads
    BY <1>1, <1>2, <1>8 DEF Controller!Finish, StoreMoved
  <2>2. /\ AccessRequest.pending /\ AccessRequest.store /\ AccessRequest.address = mc_current_address
        /\ AccessRequest.goal = mc_goal /\ AccessRequest.data = mc_current_data
    BY <1>8 DEF AccessRequest
  <2>3. Flag(AtPort /\ mc_goal > 0) = Flag(IsIo(mc_current_address))
    <3>1. mc_goal > 0
      BY <1>1, <1>8, GoalPositive DEF Transfer
    <3> QED BY <1>8, <3>1 DEF AtPort, Flag
  <2>4. /\ settled_ram' = WriteBytes(settled_ram, mc_current_address, mc_goal, mc_current_data)
        /\ settled_writes' = (settled_writes + Flag(IsIo(mc_current_address))) % IO_PERIOD
        /\ settled_reads' = settled_reads
    BY <1>7, <1>8, <2>1, <2>3 DEF Written
  <2>5. AnyTiming!Memory!FinishStore(fet_out, lsb_out)
    BY <1>7, <1>8, <2>1, <2>2, <2>4, SameMemory DEF AnyTiming!Memory!FinishStore
  <2> QED BY <2>5 DEF PortCycle, AnyTiming!Memory!Clock
<1>9. CASE mc_working_on = "LOAD"
  <2>1. /\ mc_out' = [Controller!Quiet EXCEPT !.lsb_ready = TRUE, !.lsb_data = mc_buffer]
        /\ ram = settled_ram /\ io_writes = settled_writes /\ Taken
        /\ mc_buffer = IF AtPort THEN settled_reads
                       ELSE ReadBytes(settled_ram, mc_current_address, mc_goal)
    BY <1>1, <1>2, <1>9 DEF Controller!Finish, LoadMoved
  <2>2. /\ AccessRequest.pending /\ ~AccessRequest.store /\ AccessRequest.address = mc_current_address
        /\ AccessRequest.goal = mc_goal
    BY <1>9 DEF AccessRequest
  <2>3. AtPort <=> IsIo(mc_current_address)
    BY <1>9 DEF AtPort
  <2>4. Flag(AtPort) = Flag(IsIo(mc_current_address))
    BY <2>3 DEF Flag
  <2>5. /\ settled_ram' = settled_ram
        /\ settled_writes' = settled_writes
        /\ settled_reads' = (settled_reads + Flag(IsIo(mc_current_address))) % IO_PERIOD
    BY <1>7, <1>9, <2>1, <2>4 DEF Taken
  <2>6. mc_out' = [Controller!Quiet EXCEPT
                     !.lsb_ready = TRUE,
                     !.lsb_data = IF IsIo(AccessRequest.address) THEN settled_reads
                                  ELSE ReadBytes(settled_ram, AccessRequest.address, AccessRequest.goal)]
    BY <2>1, <2>2, <2>3
  <2>7. AnyTiming!Memory!FinishLoad(fet_out, lsb_out)
    BY <1>7, <1>9, <2>2, <2>5, <2>6, SameMemory DEF AnyTiming!Memory!FinishLoad
  <2> QED BY <2>7 DEF PortCycle, AnyTiming!Memory!Clock
<1> QED BY <1>2, <1>6, <1>8, <1>9

\* A rollback makes both memories forget the same.
LEMMA RollbackServes ==
  ASSUME NEW full, Going(full), rob_out.rollback, Controller!Rollback(lsb_out)
  PROVE  PortCycle("none")
<1>1. /\ Asked /\ NoneLeft /\ OnePlace /\ Transfer /\ LsbType /\ FetcherType /\ KindsKnown
      /\ lsb_out.mc_request => ~AccessPending
  BY BytesAsked, GoingFinds DEF Going, Asked
<1>2. mc_out' = Controller!Quiet /\ mc_inst_request' = Controller!NoRequest /\ mc_working_on' # "INSTRUCTION"
  BY <1>1 DEF Controller!Rollback, Transfer
<1>3. settled_ram' = settled_ram /\ settled_reads' = settled_reads /\ settled_writes' = settled_writes
  BY <1>2, ControllerRest, NothingSettled
<1>4. /\ Controller!NoRequest.pending = FALSE /\ Controller!NoRequest.address = 0
      /\ Controller!NoRequest.goal = 0 /\ Controller!NoRequest.data = 0
  BY DEF Controller!NoRequest
<1>5. Fetch' = AnyTiming!Memory!NoFetch
  BY <1>2, <1>4 DEF Fetch, AnyTiming!Memory!NoFetch
<1>6. lsb_out.mc_request \in BOOLEAN /\ lsb_out.mc_store \in BOOLEAN
  BY <1>1, Arrivals
<1> DEFINE input == lsb_out.mc_request /\ ~lsb_out.mc_store /\ IsIo(lsb_out.mc_address)
           store == lsb_out.mc_request /\ lsb_out.mc_store
<1>7. /\ mc_load_request' = IF input THEN Controller!Load1(lsb_out) ELSE Controller!NoRequest
      /\ mc_store_request' = IF store THEN Controller!Store1(lsb_out) ELSE mc_store_request
      /\ mc_working_on # "STORE" => mc_working_on' = "NONE"
      /\ mc_working_on = "STORE" => /\ mc_working_on' = "STORE" /\ mc_goal' = mc_goal
                                    /\ mc_current_address' = mc_current_address
                                    /\ mc_current_data' = mc_current_data
  BY <1>1, ControllerNames DEF Controller!Rollback, Transfer
<1>8. AccessRequest' = IF lsb_out.mc_request /\ (lsb_out.mc_store \/ IsIo(lsb_out.mc_address))
                         THEN AnyTiming!Memory!AccessOf(lsb_out)
                         ELSE IF AccessRequest.store THEN AccessRequest ELSE AnyTiming!Memory!NoAccess
  <2>1. CASE store
    <3>1. /\ mc_store_request'.pending = TRUE /\ mc_store_request'.address = lsb_out.mc_address
          /\ mc_store_request'.goal = lsb_out.mc_goal /\ mc_store_request'.data = lsb_out.mc_data
          /\ mc_working_on' = "NONE" /\ lsb_out.mc_store = TRUE
      BY <1>1, <1>6, <1>7, <2>1 DEF Controller!Store1, AccessPending
    <3>2. AccessRequest' = [pending |-> TRUE, store |-> TRUE, address |-> lsb_out.mc_address,
                            goal |-> lsb_out.mc_goal, data |-> lsb_out.mc_data]
      BY <3>1 DEF AccessRequest, AccessWaiting, Pending
    <3> QED BY <2>1, <3>1, <3>2 DEF AnyTiming!Memory!AccessOf
  <2>2. CASE input
    <3>1. /\ mc_load_request'.pending = TRUE /\ mc_load_request'.address = lsb_out.mc_address
          /\ mc_load_request'.goal = lsb_out.mc_goal /\ mc_load_request'.data = 0
          /\ mc_working_on' = "NONE" /\ lsb_out.mc_store = FALSE /\ ~mc_store_request'.pending
      BY <1>1, <1>6, <1>7, <2>2 DEF Controller!Load1, AccessPending
    <3>2. AccessRequest' = [pending |-> TRUE, store |-> FALSE, address |-> lsb_out.mc_address,
                            goal |-> lsb_out.mc_goal, data |-> 0]
      BY <3>1 DEF AccessRequest, AccessWaiting, Pending
    <3> QED BY <2>2, <3>1, <3>2 DEF AnyTiming!Memory!AccessOf
  <2>3. CASE ~store /\ ~input
    <3>1. mc_load_request' = Controller!NoRequest /\ mc_store_request' = mc_store_request
      BY <1>7, <2>3
    <3>2. CASE mc_working_on = "STORE"
      <4>1. AccessRequest' = AccessRequest /\ AccessRequest.store
        BY <1>7, <3>2 DEF AccessRequest
      <4> QED BY <1>6, <2>3, <4>1
    <3>3. CASE mc_working_on # "STORE" /\ mc_store_request.pending
      <4>1. mc_working_on \notin {"LOAD", "STORE"} /\ mc_working_on' = "NONE"
        BY <1>1, <1>7, <3>3 DEF OnePlace
      <4>2. AccessRequest' = Pending(TRUE, mc_store_request) /\ AccessRequest = Pending(TRUE, mc_store_request)
        BY <3>1, <3>3, <4>1 DEF AccessRequest, AccessWaiting, Pending
      <4>3. AccessRequest.store
        BY <4>2 DEF Pending
      <4> QED BY <1>6, <2>3, <4>2, <4>3
    <3>4. CASE mc_working_on # "STORE" /\ ~mc_store_request.pending
      <4>1. AccessRequest' = AnyTiming!Memory!NoAccess
        BY <1>4, <1>7, <3>1, <3>4 DEF AccessRequest, AccessWaiting, Pending, AnyTiming!Memory!NoAccess
      <4>2. ~AccessRequest.store
        BY <3>4 DEF AccessRequest, AccessWaiting, Pending
      <4> QED BY <1>6, <2>3, <4>1, <4>2
    <3> QED BY <3>2, <3>3, <3>4
  <2> QED BY <2>1, <2>2, <2>3
<1> HIDE DEF input, store
<1>9. AnyTiming!Memory!Rollback(lsb_out)
  BY <1>2, <1>3, <1>5, <1>8, SameMemory DEF AnyTiming!Memory!Rollback
<1> QED BY <1>9 DEF PortCycle, AnyTiming!Memory!Clock

\* What the bytes moved so far amount to.
MovedInv == NoneLeft /\ Moved /\ AddressKept

\* A cycle of the program is one of Cpu, and keeps it.
LEMMA GoingIsCpu ==
  ASSUME NEW full, Going(full)
  PROVE  AnyTiming!Next /\ MovedInv'
<1>1. /\ Controller!Clock(FALSE, rob_out, fet_out, lsb_out, full, program, Controller!CpuHasBus)
      /\ CoreCycle(FALSE, mc_out) /\ Settle(FALSE)
  BY DEF Going, Cycle
<1>2. PICK serves \in {"none", "fetch", "data"} : PortCycle(serves)
  <2>1. CASE rob_out.rollback /\ Controller!Rollback(lsb_out)
    BY <2>1, RollbackServes
  <2>2. CASE ~rob_out.rollback /\ Controller!Operate(fet_out, lsb_out, full, program)
    BY <2>2, OperateWorks, FinishServes
  <2> QED BY <1>1, <2>1, <2>2 DEF Controller!Clock
<1>3. AnyTiming!Cycle(FALSE, serves)
  BY <1>1, <1>2, SameCycle DEF AnyTiming!Cycle, PortCycle, Settle
<1>4. AnyTiming!Next
  BY <1>3 DEF AnyTiming!Next, AnyTiming!Work, AnyTiming!ServeFetch, AnyTiming!ServeAccess
<1>5. AddressKept'
  <2> SUFFICES ASSUME AccessPending' PROVE AccessRequest'.address = lsb_current_address'
    BY DEF AddressKept
  <2>1. lsb_current_address' = lsb_current_address /\ (lsb_out.mc_request \/ AccessPending)
    BY AddressStays
  <2>2. AccessRequest'.pending
    BY DEF AccessRequest, AccessWaiting, Pending, AccessPending
  <2>3. ~AnyTiming!Memory!NoAccess.pending
    BY DEF AnyTiming!Memory!NoAccess
  <2>4. \/ lsb_out.mc_request /\ AccessRequest' = AnyTiming!Memory!AccessOf(lsb_out)
        \/ AccessRequest' = AccessRequest
        \/ AccessRequest' = AnyTiming!Memory!NoAccess
    BY <1>2 DEF PortCycle, AnyTiming!Memory!Clock, AnyTiming!Memory!Work, AnyTiming!Memory!FinishFetch,
                AnyTiming!Memory!FinishStore, AnyTiming!Memory!FinishLoad, AnyTiming!Memory!Rollback,
                AnyTiming!Memory!Accept
  <2>5. CASE lsb_out.mc_request /\ AccessRequest' = AnyTiming!Memory!AccessOf(lsb_out)
    <3>1. lsb_out.mc_address = lsb_current_address
      BY <2>5 DEF Going, BytesInv, AccessAgreed
    <3> QED BY <2>1, <2>5, <3>1 DEF AnyTiming!Memory!AccessOf
  <2>6. CASE AccessRequest' = AccessRequest
    <3>1. AccessRequest.pending
      BY <2>2, <2>6
    <3>2. AccessPending
      BY <3>1 DEF AccessRequest, AccessWaiting, Pending, AccessPending
    <3>3. AccessRequest.address = lsb_current_address
      BY <3>2 DEF Going, AddressKept
    <3> QED BY <2>1, <2>6, <3>3
  <2> QED BY <2>2, <2>3, <2>4, <2>5, <2>6
<1> QED BY <1>4, <1>5, AllMoved, NoneLeftStep DEF MovedInv

\* It starts as Cpu does.
LEMMA MovedStart == Init => MovedInv /\ AnyTiming!Init
<1> SUFFICES ASSUME Init PROVE MovedInv /\ AnyTiming!Init
  OBVIOUS
<1>1. /\ CoreInit
      /\ mc_status = "IDLE" /\ mc_working_on = "NONE" /\ mc_waiting = FALSE
      /\ mc_inst_request = Controller!NoRequest /\ mc_load_request = Controller!NoRequest
      /\ mc_store_request = Controller!NoRequest
      /\ mc_rw = "READ" /\ mc_address = 0
      /\ ram = [a \in Word |-> 0]
      /\ q_io_en = FALSE /\ io_reads = 0 /\ io_writes = 0
      /\ mc_out = Controller!Quiet
      /\ settled_ram = ram /\ settled_reads = 0 /\ settled_writes = 0 /\ input_taken = FALSE
  BY ControllerNames DEF Init, Controller!Init
<1>2. Controller!NoRequest.data = 0 /\ ~Controller!NoRequest.pending
  BY DEF Controller!NoRequest
<1>3. NoneLeft
  BY <1>1, <1>2 DEF NoneLeft
<1>4. ~FetchPending /\ ~AccessPending
  BY <1>1, <1>2 DEF FetchPending, AccessPending
<1>5. Moved
  BY <1>1, RestAssumption DEF RestAssumption, Moved, StoreMoved, LoadMoved, NothingMoved, PinsAway
<1>6. AnyTiming!Memory!Init
  BY <1>1, <1>3, <1>4, NothingWaits, SameMemory DEF AnyTiming!Memory!Init
<1>7. AnyTiming!Init
  BY <1>1, <1>6, SameStart DEF AnyTiming!Init
<1> QED BY <1>3, <1>4, <1>5, <1>7 DEF MovedInv, AddressKept

\* While nothing changes, nothing of Cpu does.
LEMMA MovedStutter ==
  ASSUME MovedInv, UNCHANGED vars
  PROVE  MovedInv' /\ UNCHANGED AnyTiming!vars
<1>1. UNCHANGED coreVars /\ UNCHANGED mcVars
      /\ UNCHANGED <<settled_ram, settled_reads, settled_writes, input_taken>>
  BY DEF vars
<1>2. lsb_current_address' = lsb_current_address
  BY <1>1 DEF coreVars, lsbVars
<1>3. NoneLeft'
  BY <1>1 DEF mcVars, MovedInv, NoneLeft
<1>4. /\ AtPort' = AtPort /\ Taken' = Taken
      /\ \A n : Written(n)' <=> Written(n)
  BY <1>1 DEF mcVars, AtPort, Taken, Written
<1>5. StoreMoved'
  BY <1>1 DEF mcVars, MovedInv, Moved, StoreMoved, Written, AtPort
<1>6. LoadMoved'
  BY <1>1 DEF mcVars, MovedInv, Moved, LoadMoved, Taken, AtPort
<1>7. NothingMoved' /\ PinsAway'
  BY <1>1 DEF mcVars, MovedInv, Moved, NothingMoved, PinsAway
<1>8. AccessPending' = AccessPending /\ AccessRequest' = AccessRequest /\ Fetch' = Fetch
  BY <1>1 DEF mcVars, AccessPending, AccessRequest, AccessWaiting, Pending, Fetch
<1>9. AddressKept'
  BY <1>2, <1>8 DEF MovedInv, AddressKept
<1>10. UNCHANGED AnyTiming!vars
  <2>1. UNCHANGED AnyTiming!coreVars
    BY <1>1 DEF coreVars, fetVars, robVars, rfVars, rsVars, lsbVars, AnyTiming!coreVars, AnyTiming!fetVars,
                AnyTiming!robVars, AnyTiming!rfVars, AnyTiming!rsVars, AnyTiming!lsbVars
  <2> QED BY <1>1, <1>8, <2>1 DEF mcVars, AnyTiming!vars, AnyTiming!memVars
<1> QED BY <1>3, <1>5, <1>6, <1>7, <1>9, <1>10 DEF MovedInv, Moved

(***************************************************************************)
(* The theorems.                                                           *)
(***************************************************************************)

\* Every register of the processor, its memory controller and the board keeps its
\* type in each cycle of each access: a word put together from bytes never exceeds
\* a word, and no byte is counted beyond those the access moves.
THEOREM TypesHold == Spec => []TypeOK
BY BytesAlways, BytesTypes, PTL

\* The same with a host that breaks in, writes the RAM and resets whenever it likes.
THEOREM TypesHoldWithHost == TopSpec => []TypeOK
BY TopAlways, BytesTypes, PTL

\* A request is in at most one place, and whoever made it waits for it, whichever
\* cycle of a transfer a reset, a break or a rollback hits.
THEOREM RequestsAlwaysAgree == TopSpec => []RequestsAgree
BY TopAlways, BytesAgree, PTL

\* What CpuProofs shows of the scheduling for every timing of the memory holds on
\* the board, with the host taking the bus in any cycle.
THEOREM SchedulingSurvivesHost ==
  TopSpec => [](/\ IssueFits /\ OperandsStillToCome /\ RegistersNameYoungest /\ OneWorkerEach
                /\ CommittedAccessesFirst /\ NoInputTakenBack /\ NoInheritedMark)
<1>1. BytesInv => /\ IssueFits /\ OperandsStillToCome /\ RegistersNameYoungest /\ OneWorkerEach
                  /\ CommittedAccessesFirst /\ NoInputTakenBack /\ NoInheritedMark
  <2> SUFFICES ASSUME CoreInv
               PROVE  /\ IssueFits /\ OperandsStillToCome /\ RegistersNameYoungest /\ OneWorkerEach
                      /\ CommittedAccessesFirst /\ NoInputTakenBack /\ NoInheritedMark
    BY DEF BytesInv
  <2>1. IssueFits
    BY DEF CoreInv, IssueInv
  <2> QED BY <2>1, OperandsTerm, RegistersTerm, WorkersTerm, CommittedTerm, InputTerm
<1> QED BY <1>1, TopAlways, PTL

\* While a program runs whose accesses keep to the port or off it, the RAM changes
\* only by a byte of the store under way, and an input or output is only taken by an
\* access to the port; what was left on the pins as the host took the bus is the one
\* exception.
THEOREM AccessesAlwaysOwned == TopSpec /\ []PortAlone => AccessesHaveOwners
<1> DEFINE Step == ~active =>
       /\ \A a \in Word : ram'[a] # ram[a] =>
            \/ mc_working_on = "STORE" /\ Sub(a, mc_current_address) < mc_goal
            \/ left_over /\ a = mc_address /\ ram'[a] = mc_data
       /\ io_reads' # io_reads \/ io_writes' # io_writes =>
            \/ mc_working_on = (IF mc_rw = "WRITE" THEN "STORE" ELSE "LOAD") /\ IsIo(mc_current_address)
            \/ left_over /\ IsIo(mc_address)
<1>1. OwnersInv /\ [TopNext]_topVars => [Step]_topVars
  <2>1. ASSUME OwnersInv, TopNext, ~active PROVE Step
    <3>1. WritesOwned /\ PortOwned /\ left_over \in BOOLEAN
      BY <2>1 DEF OwnersInv
    <3> QED BY <2>1, <3>1, BusChanges DEF WritesOwned, PortOwned
  <2> QED BY <2>1
<1>2. [][Step]_topVars => AccessesHaveOwners
  BY DEF AccessesHaveOwners
<1> HIDE DEF Step
<1> QED BY <1>1, <1>2, OwnersAlways, PTL DEF TopSpec

\* The processor with its byte-wise memory controller, the RAM and the host is one of the
\* processors Cpu describes: however the bytes of its accesses are timed, cut by a rollback
\* or held up by a host without room, every access takes effect once, in the cycle in which
\* it is answered, and a load is answered what was stored.  What CpuProofs shows of Cpu is
\* so a fact about the bytes.  The programs are those that move the port a byte at a time.
THEOREM BytesImplementCpu == Spec /\ []PortBytes => ImplementsCpu
<1>1. BytesInv /\ BytesInv' /\ PortBytes /\ PortBytes' /\ MovedInv /\ Next => AnyTiming!Next /\ MovedInv'
  <2> SUFFICES ASSUME BytesInv, BytesInv', PortBytes, PortBytes', MovedInv, Next
               PROVE  AnyTiming!Next /\ MovedInv'
    OBVIOUS
  <2>1. PICK full : Cycle(FALSE, full, Controller!CpuHasBus)
    BY DEF Next, Run, RunFull
  <2>2. Going(full)
    BY <2>1 DEF Going, MovedInv
  <2> QED BY <2>2, GoingIsCpu
<1>2. MovedInv /\ UNCHANGED vars => MovedInv' /\ UNCHANGED AnyTiming!vars
  BY MovedStutter
<1>3. ImplementsCpu <=> AnyTiming!Init /\ [][AnyTiming!Next]_(AnyTiming!vars)
  BY DEF ImplementsCpu, AnyTiming!Spec
<1> QED BY <1>1, <1>2, <1>3, MovedStart, BytesAlways, PTL DEF Spec

(***************************************************************************)
(* What CpuProofs shows of Cpu, for the bytes.  Its theorem is about Cpu   *)
(* under the names it has there, once more the same processor.             *)
(***************************************************************************)
AnyMemory == INSTANCE CpuProofs WITH
  mem_ram <- settled_ram, mem_fet_request <- Fetch, mem_lsb_request <- AccessRequest,
  mem_io_reads <- settled_reads, mem_io_writes <- settled_writes, mem_out <- mc_out

\* A cycle of the fetcher is the same in both.
LEMMA ProvedFetcher ==
  \A rst, full, rob, mc : AnyMemory!Fetcher!Clock(rst, full, rob, mc) <=> Fetcher!Clock(rst, full, rob, mc)
BY DEF AnyMemory!Fetcher!Clock, Fetcher!Clock, AnyMemory!Fetcher!Reset, Fetcher!Reset,
       AnyMemory!Fetcher!Rollback, Fetcher!Rollback, AnyMemory!Fetcher!Operate, Fetcher!Operate,
       AnyMemory!Fetcher!ZeroInstruction, Fetcher!ZeroInstruction, AnyMemory!Fetcher!InvalidLine,
       Fetcher!InvalidLine, AnyMemory!Fetcher!Quiet, Fetcher!Quiet, AnyMemory!Fetcher!Train, Fetcher!Train,
       AnyMemory!Fetcher!Hit, Fetcher!Hit, AnyMemory!Fetcher!Miss, Fetcher!Miss, AnyMemory!Fetcher!Fill,
       Fetcher!Fill, AnyMemory!Fetcher!Issue, Fetcher!Issue, AnyMemory!Fetcher!Wait, Fetcher!Wait,
       AnyMemory!Fetcher!BpHash, Fetcher!BpHash, AnyMemory!Fetcher!Saturating, Fetcher!Saturating,
       AnyMemory!Fetcher!cache_hit, Fetcher!cache_hit, AnyMemory!Fetcher!cache_inst, Fetcher!cache_inst,
       AnyMemory!Fetcher!CacheIndex, Fetcher!CacheIndex, AnyMemory!Fetcher!CacheTag, Fetcher!CacheTag,
       AnyMemory!Fetcher!PredictedPc, Fetcher!PredictedPc, AnyMemory!Fetcher!Opcode, Fetcher!Opcode,
       AnyMemory!Fetcher!Funct3Is4, Fetcher!Funct3Is4, AnyMemory!Fetcher!BranchOps, Fetcher!BranchOps,
       AnyMemory!Fetcher!Add, Fetcher!Add, AnyMemory!Fetcher!LoadOps, Fetcher!LoadOps,
       AnyMemory!Fetcher!StoreOps, Fetcher!StoreOps, AnyMemory!Fetcher!ArithImmOps, Fetcher!ArithImmOps,
       AnyMemory!Fetcher!ArithOps, Fetcher!ArithOps

\* A cycle of the reorder buffer is.
LEMMA ProvedReorderBuffer ==
  \A rst, dec, alu, lsb :
    AnyMemory!ReorderBuffer!Clock(rst, dec, alu, lsb) <=> ReorderBuffer!Clock(rst, dec, alu, lsb)
BY DEF AnyMemory!ReorderBuffer!Clock, ReorderBuffer!Clock, AnyMemory!ReorderBuffer!Reset, ReorderBuffer!Reset,
       AnyMemory!ReorderBuffer!Rollback, ReorderBuffer!Rollback, AnyMemory!ReorderBuffer!Operate,
       ReorderBuffer!Operate, AnyMemory!ReorderBuffer!RobTag, ReorderBuffer!RobTag,
       AnyMemory!ReorderBuffer!EmptyEntry, ReorderBuffer!EmptyEntry, AnyMemory!ReorderBuffer!Quiet,
       ReorderBuffer!Quiet, AnyMemory!ReorderBuffer!Insert, ReorderBuffer!Insert,
       AnyMemory!ReorderBuffer!Commit, ReorderBuffer!Commit, AnyMemory!ReorderBuffer!ReleaseIoLoad,
       ReorderBuffer!ReleaseIoLoad, AnyMemory!ReorderBuffer!Hold, ReorderBuffer!Hold,
       AnyMemory!ReorderBuffer!NULL_TAG, ReorderBuffer!NULL_TAG, AnyMemory!ReorderBuffer!tail_next,
       ReorderBuffer!tail_next, AnyMemory!ReorderBuffer!head_next, ReorderBuffer!head_next,
       AnyMemory!ReorderBuffer!CanCommit, ReorderBuffer!CanCommit, AnyMemory!ReorderBuffer!Updated,
       ReorderBuffer!Updated, AnyMemory!ReorderBuffer!Freed, ReorderBuffer!Freed,
       AnyMemory!ReorderBuffer!CommitPulse, ReorderBuffer!CommitPulse, AnyMemory!ReorderBuffer!Mispredicts,
       ReorderBuffer!Mispredicts, AnyMemory!ReorderBuffer!NextSlot, ReorderBuffer!NextSlot,
       AnyMemory!ReorderBuffer!in_queue, ReorderBuffer!in_queue, AnyMemory!ReorderBuffer!Inserted,
       ReorderBuffer!Inserted, AnyMemory!ReorderBuffer!Add, ReorderBuffer!Add

\* A cycle of the register file is.
LEMMA ProvedRegisterFile ==
  \A rst, rob, dec : AnyMemory!RegisterFile!Clock(rst, rob, dec) <=> RegisterFile!Clock(rst, rob, dec)
BY DEF AnyMemory!RegisterFile!Clock, RegisterFile!Clock, AnyMemory!RegisterFile!Reset, RegisterFile!Reset,
       AnyMemory!RegisterFile!Rollback, RegisterFile!Rollback, AnyMemory!RegisterFile!Operate,
       RegisterFile!Operate, AnyMemory!RegisterFile!RegIndex, RegisterFile!RegIndex,
       AnyMemory!RegisterFile!NULL_TAG, RegisterFile!NULL_TAG

\* A cycle of the reservation station is.
LEMMA ProvedReservationStation ==
  \A rst, dec, alu, lsb, rob :
    AnyMemory!ReservationStation!Clock(rst, dec, alu, lsb, rob) <=> ReservationStation!Clock(rst, dec, alu, lsb, rob)
BY DEF AnyMemory!ReservationStation!Clock, ReservationStation!Clock, AnyMemory!ReservationStation!Clear,
       ReservationStation!Clear, AnyMemory!ReservationStation!Operate, ReservationStation!Operate,
       AnyMemory!ReservationStation!RsIndex, ReservationStation!RsIndex,
       AnyMemory!ReservationStation!EmptyEntry, ReservationStation!EmptyEntry,
       AnyMemory!ReservationStation!NoOperation, ReservationStation!NoOperation,
       AnyMemory!ReservationStation!Free, ReservationStation!Free, AnyMemory!ReservationStation!Min,
       ReservationStation!Min, AnyMemory!ReservationStation!Ready, ReservationStation!Ready,
       AnyMemory!ReservationStation!Arriving, ReservationStation!Arriving,
       AnyMemory!ReservationStation!Snooping, ReservationStation!Snooping,
       AnyMemory!ReservationStation!Operation, ReservationStation!Operation,
       AnyMemory!ReservationStation!NULL_TAG, ReservationStation!NULL_TAG, AnyMemory!ReservationStation!Hear,
       ReservationStation!Hear

\* They start alike.
LEMMA ProvedInits ==
  /\ AnyMemory!Fetcher!Init <=> Fetcher!Init
  /\ AnyMemory!ReorderBuffer!Init <=> ReorderBuffer!Init
  /\ AnyMemory!RegisterFile!Init <=> RegisterFile!Init
  /\ AnyMemory!ReservationStation!Init <=> ReservationStation!Init
  /\ AnyMemory!LoadStoreBuffer!Init <=> LoadStoreBuffer!Init
<1>1. AnyMemory!Fetcher!Init <=> Fetcher!Init
  BY DEF AnyMemory!Fetcher!Init, Fetcher!Init, AnyMemory!Fetcher!ZeroInstruction, Fetcher!ZeroInstruction,
         AnyMemory!Fetcher!InvalidLine, Fetcher!InvalidLine, AnyMemory!Fetcher!Quiet, Fetcher!Quiet
<1>2. AnyMemory!ReorderBuffer!Init <=> ReorderBuffer!Init
  BY DEF AnyMemory!ReorderBuffer!Init, ReorderBuffer!Init, AnyMemory!ReorderBuffer!RobTag,
         ReorderBuffer!RobTag, AnyMemory!ReorderBuffer!EmptyEntry, ReorderBuffer!EmptyEntry,
         AnyMemory!ReorderBuffer!Quiet, ReorderBuffer!Quiet, AnyMemory!ReorderBuffer!NULL_TAG,
         ReorderBuffer!NULL_TAG
<1>3. AnyMemory!RegisterFile!Init <=> RegisterFile!Init
  BY DEF AnyMemory!RegisterFile!Init, RegisterFile!Init, AnyMemory!RegisterFile!RegIndex,
         RegisterFile!RegIndex, AnyMemory!RegisterFile!NULL_TAG, RegisterFile!NULL_TAG
<1>4. AnyMemory!ReservationStation!Init <=> ReservationStation!Init
  BY DEF AnyMemory!ReservationStation!Init, ReservationStation!Init, AnyMemory!ReservationStation!RsIndex,
         ReservationStation!RsIndex, AnyMemory!ReservationStation!EmptyEntry, ReservationStation!EmptyEntry,
         AnyMemory!ReservationStation!NoOperation, ReservationStation!NoOperation,
         AnyMemory!ReservationStation!NULL_TAG, ReservationStation!NULL_TAG
<1>5. AnyMemory!LoadStoreBuffer!Init <=> LoadStoreBuffer!Init
  BY DEF AnyMemory!LoadStoreBuffer!Init, LoadStoreBuffer!Init, AnyMemory!LoadStoreBuffer!LsbIndex,
         LoadStoreBuffer!LsbIndex, AnyMemory!LoadStoreBuffer!EmptyEntry, LoadStoreBuffer!EmptyEntry,
         AnyMemory!LoadStoreBuffer!NULL_TAG, LoadStoreBuffer!NULL_TAG, AnyMemory!LoadStoreBuffer!Quiet,
         LoadStoreBuffer!Quiet
<1> QED BY <1>1, <1>2, <1>3, <1>4, <1>5

\* What the ALU broadcasts, whether something is full, and what is decoded are the same.
LEMMA ProvedWires ==
  /\ AnyMemory!Broadcast = Broadcast
  /\ AnyMemory!AnyFull <=> AnyFull
  /\ AnyMemory!Decoded = Decoded
<1>1. AnyMemory!Broadcast = Broadcast
  BY DEF AnyMemory!Broadcast, Broadcast, AnyMemory!Alu!AluBroadcast, Alu!AluBroadcast,
         AnyMemory!Alu!AluResult, Alu!AluResult, AnyMemory!Alu!AluNewPc, Alu!AluNewPc, AnyMemory!Alu!Add,
         Alu!Add, AnyMemory!Alu!BranchOps, Alu!BranchOps, AnyMemory!Alu!Flag, Alu!Flag,
         AnyMemory!Alu!BranchTaken, Alu!BranchTaken, AnyMemory!Alu!Signed, Alu!Signed, AnyMemory!Alu!FromBits,
         Alu!FromBits, AnyMemory!Alu!Bits, Alu!Bits, AnyMemory!Alu!ShiftLeft, Alu!ShiftLeft,
         AnyMemory!Alu!Shamt, Alu!Shamt, AnyMemory!Alu!ShiftRight, Alu!ShiftRight, AnyMemory!Alu!Sub, Alu!Sub,
         AnyMemory!Alu!Sums, Alu!Sums
<1>2. AnyMemory!AnyFull <=> AnyFull
  BY DEF AnyMemory!AnyFull, AnyFull, AnyMemory!ReservationStation!full_out, ReservationStation!full_out,
         AnyMemory!ReservationStation!Free, ReservationStation!Free, AnyMemory!ReservationStation!RsIndex,
         ReservationStation!RsIndex, AnyMemory!LoadStoreBuffer!full_out, LoadStoreBuffer!full_out,
         AnyMemory!LoadStoreBuffer!tail_next, LoadStoreBuffer!tail_next, AnyMemory!LoadStoreBuffer!Slot,
         LoadStoreBuffer!Slot, AnyMemory!ReorderBuffer!full_out, ReorderBuffer!full_out,
         AnyMemory!ReorderBuffer!tail_next, ReorderBuffer!tail_next, AnyMemory!ReorderBuffer!NextSlot,
         ReorderBuffer!NextSlot
<1>3. \A r : AnyMemory!SourceOf(r) = SourceOf(r)
  BY DEF AnyMemory!SourceOf, SourceOf, AnyMemory!RegisterFile!source_tag, RegisterFile!source_tag,
         AnyMemory!RegisterFile!source_value, RegisterFile!source_value, AnyMemory!RegisterFile!NULL_TAG,
         RegisterFile!NULL_TAG
<1>4. \A t : AnyMemory!ResultOf(t) = ResultOf(t)
  BY DEF AnyMemory!ResultOf, ResultOf, AnyMemory!ReorderBuffer!operand_ready, ReorderBuffer!operand_ready,
         AnyMemory!ReorderBuffer!operand_value, ReorderBuffer!operand_value, AnyMemory!ReorderBuffer!in_queue,
         ReorderBuffer!in_queue, AnyMemory!ReorderBuffer!NULL_TAG, ReorderBuffer!NULL_TAG
<1>5. AnyMemory!ReorderBuffer!next_tag = ReorderBuffer!next_tag
  BY DEF AnyMemory!ReorderBuffer!next_tag, ReorderBuffer!next_tag, AnyMemory!ReorderBuffer!tail_next,
         ReorderBuffer!tail_next, AnyMemory!ReorderBuffer!NULL_TAG, ReorderBuffer!NULL_TAG,
         AnyMemory!ReorderBuffer!NextSlot, ReorderBuffer!NextSlot
<1>6. \A a, b, c, d, e, f : AnyMemory!Decoder!Decode(a, b, c, d, e, f) = Decoder!Decode(a, b, c, d, e, f)
  BY DEF AnyMemory!Decoder!Decode, Decoder!Decode, AnyMemory!Decoder!Opcode, Decoder!Opcode,
         AnyMemory!Decoder!Immediate, Decoder!Immediate, AnyMemory!Decoder!OccupiesRd, Decoder!OccupiesRd,
         AnyMemory!Decoder!HaveRs1, Decoder!HaveRs1, AnyMemory!Decoder!HaveRs2, Decoder!HaveRs2,
         AnyMemory!Decoder!OperandTag, Decoder!OperandTag, AnyMemory!Decoder!OperandValue,
         Decoder!OperandValue, AnyMemory!Decoder!ToLsb, Decoder!ToLsb, AnyMemory!Decoder!BranchOps,
         Decoder!BranchOps, AnyMemory!Decoder!LoadOps, Decoder!LoadOps, AnyMemory!Decoder!StoreOps,
         Decoder!StoreOps, AnyMemory!Decoder!ArithImmOps, Decoder!ArithImmOps, AnyMemory!Decoder!ArithOps,
         Decoder!ArithOps, AnyMemory!Decoder!NULL_TAG, Decoder!NULL_TAG
<1>7. AnyMemory!Decoded = Decoded
  BY <1>3, <1>4, <1>5, <1>6 DEF AnyMemory!Decoded, Decoded
<1> QED BY <1>1, <1>2, <1>7

\* A cycle of the load store buffer is the same in both.
LEMMA ProvedLoadStoreBuffer ==
  \A rst, dec, alu, rob, mc :
    AnyMemory!LoadStoreBuffer!Clock(rst, dec, alu, rob, mc) <=> LoadStoreBuffer!Clock(rst, dec, alu, rob, mc)
<1>1. /\ AnyMemory!LoadStoreBuffer!EmptyEntry = LoadStoreBuffer!EmptyEntry
      /\ AnyMemory!LoadStoreBuffer!Quiet = LoadStoreBuffer!Quiet
      /\ AnyMemory!LoadStoreBuffer!LsbIndex = LoadStoreBuffer!LsbIndex
      /\ AnyMemory!LoadStoreBuffer!NULL_TAG = LoadStoreBuffer!NULL_TAG
      /\ \A i : AnyMemory!LoadStoreBuffer!Slot(i) = LoadStoreBuffer!Slot(i)
      /\ AnyMemory!LoadStoreBuffer!head_next = LoadStoreBuffer!head_next
      /\ AnyMemory!LoadStoreBuffer!tail_next = LoadStoreBuffer!tail_next
  BY DEF AnyMemory!LoadStoreBuffer!EmptyEntry, LoadStoreBuffer!EmptyEntry, AnyMemory!LoadStoreBuffer!Quiet,
         LoadStoreBuffer!Quiet, AnyMemory!LoadStoreBuffer!LsbIndex, LoadStoreBuffer!LsbIndex,
         AnyMemory!LoadStoreBuffer!NULL_TAG, LoadStoreBuffer!NULL_TAG, AnyMemory!LoadStoreBuffer!Slot,
         LoadStoreBuffer!Slot, AnyMemory!LoadStoreBuffer!head_next, LoadStoreBuffer!head_next,
         AnyMemory!LoadStoreBuffer!tail_next, LoadStoreBuffer!tail_next
<1>2. /\ \A op, w : AnyMemory!LoadStoreBuffer!LoadResult(op, w) = LoadStoreBuffer!LoadResult(op, w)
      /\ \A op : AnyMemory!LoadStoreBuffer!Goal(op) = LoadStoreBuffer!Goal(op)
      /\ \A a : AnyMemory!LoadStoreBuffer!IsIo(a) = LoadStoreBuffer!IsIo(a)
      /\ \A a, b : AnyMemory!LoadStoreBuffer!Add(a, b) = LoadStoreBuffer!Add(a, b)
      /\ \A b : AnyMemory!LoadStoreBuffer!Flag(b) = LoadStoreBuffer!Flag(b)
  BY DEF AnyMemory!LoadStoreBuffer!LoadResult, LoadStoreBuffer!LoadResult, AnyMemory!LoadStoreBuffer!Goal,
         LoadStoreBuffer!Goal, AnyMemory!LoadStoreBuffer!IsIo, LoadStoreBuffer!IsIo,
         AnyMemory!LoadStoreBuffer!Add, LoadStoreBuffer!Add, AnyMemory!LoadStoreBuffer!Flag,
         LoadStoreBuffer!Flag, AnyMemory!LoadStoreBuffer!SignExtend, LoadStoreBuffer!SignExtend,
         AnyMemory!LoadStoreBuffer!WORD_BYTES, LoadStoreBuffer!WORD_BYTES, AnyMemory!LoadStoreBuffer!Sub,
         LoadStoreBuffer!Sub
<1>3. /\ \A e : AnyMemory!LoadStoreBuffer!Address(e) = LoadStoreBuffer!Address(e)
      /\ \A e : AnyMemory!LoadStoreBuffer!NeedsCommit(e) = LoadStoreBuffer!NeedsCommit(e)
      /\ \A e : AnyMemory!LoadStoreBuffer!Ready(e) = LoadStoreBuffer!Ready(e)
      /\ AnyMemory!LoadStoreBuffer!CanIssue <=> LoadStoreBuffer!CanIssue
      /\ AnyMemory!LoadStoreBuffer!CanNotice <=> LoadStoreBuffer!CanNotice
  BY <1>1, <1>2 DEF AnyMemory!LoadStoreBuffer!Address, LoadStoreBuffer!Address,
                    AnyMemory!LoadStoreBuffer!NeedsCommit, LoadStoreBuffer!NeedsCommit,
                    AnyMemory!LoadStoreBuffer!Ready, LoadStoreBuffer!Ready,
                    AnyMemory!LoadStoreBuffer!CanIssue, LoadStoreBuffer!CanIssue,
                    AnyMemory!LoadStoreBuffer!CanNotice, LoadStoreBuffer!CanNotice,
                    AnyMemory!LoadStoreBuffer!IoLoad, LoadStoreBuffer!IoLoad
<1>4. /\ \A dec, alu, rob : AnyMemory!LoadStoreBuffer!Arriving(dec, alu, rob) = LoadStoreBuffer!Arriving(dec, alu, rob)
      /\ \A e, alu, rob, finished, data :
           AnyMemory!LoadStoreBuffer!Snooping(e, alu, rob, finished, data)
             = LoadStoreBuffer!Snooping(e, alu, rob, finished, data)
      /\ AnyMemory!LoadStoreBuffer!CommitSlot = LoadStoreBuffer!CommitSlot
      /\ \A i, from, to : AnyMemory!LoadStoreBuffer!Within(i, from, to) = LoadStoreBuffer!Within(i, from, to)
  BY <1>1 DEF AnyMemory!LoadStoreBuffer!Arriving, LoadStoreBuffer!Arriving,
              AnyMemory!LoadStoreBuffer!Snooping, LoadStoreBuffer!Snooping,
              AnyMemory!LoadStoreBuffer!CommitSlot, LoadStoreBuffer!CommitSlot,
              AnyMemory!LoadStoreBuffer!Within, LoadStoreBuffer!Within, AnyMemory!LoadStoreBuffer!Hear,
              LoadStoreBuffer!Hear
<1>5. \A from, to, inserts, dec, alu, rob, finished, data :
        AnyMemory!LoadStoreBuffer!Contents(from, to, inserts, dec, alu, rob, finished, data)
          = LoadStoreBuffer!Contents(from, to, inserts, dec, alu, rob, finished, data)
  BY <1>1, <1>4 DEF AnyMemory!LoadStoreBuffer!Contents, LoadStoreBuffer!Contents
<1>6. /\ \A rob : AnyMemory!LoadStoreBuffer!Count(rob) <=> LoadStoreBuffer!Count(rob)
      /\ AnyMemory!LoadStoreBuffer!Issue <=> LoadStoreBuffer!Issue
      /\ AnyMemory!LoadStoreBuffer!Notice <=> LoadStoreBuffer!Notice
      /\ AnyMemory!LoadStoreBuffer!Idle <=> LoadStoreBuffer!Idle
      /\ \A mc : AnyMemory!LoadStoreBuffer!Finish(mc) <=> LoadStoreBuffer!Finish(mc)
      /\ AnyMemory!LoadStoreBuffer!Stay <=> LoadStoreBuffer!Stay
      /\ \A mc : AnyMemory!LoadStoreBuffer!Finishes(mc) <=> LoadStoreBuffer!Finishes(mc)
      /\ AnyMemory!LoadStoreBuffer!Abandons <=> LoadStoreBuffer!Abandons
  BY <1>1, <1>2, <1>3 DEF AnyMemory!LoadStoreBuffer!Count, LoadStoreBuffer!Count,
                          AnyMemory!LoadStoreBuffer!Issue, LoadStoreBuffer!Issue,
                          AnyMemory!LoadStoreBuffer!Notice, LoadStoreBuffer!Notice,
                          AnyMemory!LoadStoreBuffer!Idle, LoadStoreBuffer!Idle,
                          AnyMemory!LoadStoreBuffer!Finish, LoadStoreBuffer!Finish,
                          AnyMemory!LoadStoreBuffer!Stay, LoadStoreBuffer!Stay,
                          AnyMemory!LoadStoreBuffer!Finishes, LoadStoreBuffer!Finishes,
                          AnyMemory!LoadStoreBuffer!Abandons, LoadStoreBuffer!Abandons
<1>7. ASSUME NEW dec, NEW alu, NEW rob, NEW mc
      PROVE  AnyMemory!LoadStoreBuffer!Operate(dec, alu, rob, mc) <=> LoadStoreBuffer!Operate(dec, alu, rob, mc)
  BY <1>1, <1>2, <1>3, <1>5, <1>6 DEF AnyMemory!LoadStoreBuffer!Operate, LoadStoreBuffer!Operate
<1>8. ASSUME NEW dec, NEW alu, NEW rob, NEW mc
      PROVE  AnyMemory!LoadStoreBuffer!Rollback(dec, alu, rob, mc) <=> LoadStoreBuffer!Rollback(dec, alu, rob, mc)
  BY <1>1, <1>2, <1>3, <1>5, <1>6 DEF AnyMemory!LoadStoreBuffer!Rollback, LoadStoreBuffer!Rollback
<1>9. AnyMemory!LoadStoreBuffer!Reset <=> LoadStoreBuffer!Reset
  BY <1>1, <1>6 DEF AnyMemory!LoadStoreBuffer!Reset, LoadStoreBuffer!Reset
<1> QED BY <1>7, <1>8, <1>9 DEF AnyMemory!LoadStoreBuffer!Clock, LoadStoreBuffer!Clock

\* So a cycle of the core is one in Cpu.
LEMMA ProvedCycle ==
  \A rst, mc : AnyMemory!CoreCycle(rst, mc) <=> CoreCycle(rst, mc)
<1>1. \A rst : AnyMemory!CommittedPc(rst) <=> CommittedPc(rst)
  BY DEF AnyMemory!CommittedPc, CommittedPc, AnyMemory!Oldest, Oldest, AnyMemory!ReorderBuffer!head_next,
         ReorderBuffer!head_next, AnyMemory!ReorderBuffer!NextSlot, ReorderBuffer!NextSlot
<1> QED
  BY <1>1, ProvedFetcher, ProvedReorderBuffer, ProvedRegisterFile, ProvedReservationStation, ProvedLoadStoreBuffer,
     ProvedWires
     DEF AnyMemory!CoreCycle, CoreCycle

\* The core starts as in Cpu.
LEMMA ProvedStart == AnyMemory!CoreInit <=> CoreInit
BY ProvedInits DEF AnyMemory!CoreInit, CoreInit

\* So is a cycle of the memory, and its start.
LEMMA ProvedMemory ==
  /\ \A rst, rob, fet, lsb, serves, prog :
       AnyMemory!Memory!Clock(rst, rob, fet, lsb, serves, prog)
         <=> AnyTiming!Memory!Clock(rst, rob, fet, lsb, serves, prog)
  /\ AnyMemory!Memory!Init <=> AnyTiming!Memory!Init
BY DEF AnyMemory!Memory!Clock, AnyTiming!Memory!Clock, AnyMemory!Memory!Reset,
       AnyTiming!Memory!Reset, AnyMemory!Memory!Rollback, AnyTiming!Memory!Rollback,
       AnyMemory!Memory!Work, AnyTiming!Memory!Work, AnyMemory!Memory!FinishFetch,
       AnyTiming!Memory!FinishFetch, AnyMemory!Memory!FinishStore, AnyTiming!Memory!FinishStore,
       AnyMemory!Memory!FinishLoad, AnyTiming!Memory!FinishLoad, AnyMemory!Memory!Accept,
       AnyTiming!Memory!Accept, AnyMemory!Memory!FetchOf, AnyTiming!Memory!FetchOf,
       AnyMemory!Memory!AccessOf, AnyTiming!Memory!AccessOf, AnyMemory!Memory!NoFetch,
       AnyTiming!Memory!NoFetch, AnyMemory!Memory!NoAccess, AnyTiming!Memory!NoAccess,
       AnyMemory!Memory!Quiet, AnyTiming!Memory!Quiet, AnyMemory!Memory!ZeroInstruction,
       AnyTiming!Memory!ZeroInstruction, AnyMemory!Memory!IsIo, AnyTiming!Memory!IsIo,
       AnyMemory!Memory!Flag, AnyTiming!Memory!Flag, AnyMemory!Memory!ReadBytes,
       AnyTiming!Memory!ReadBytes, AnyMemory!Memory!WriteBytes, AnyTiming!Memory!WriteBytes,
       AnyMemory!Memory!Sums, AnyTiming!Memory!Sums, AnyMemory!Memory!Add, AnyTiming!Memory!Add,
       AnyMemory!Memory!Sub, AnyTiming!Memory!Sub, AnyMemory!Memory!ByteOf, AnyTiming!Memory!ByteOf,
       AnyMemory!Memory!Word, AnyTiming!Memory!Word, AnyMemory!Memory!WORD_BYTES,
       AnyTiming!Memory!WORD_BYTES, AnyMemory!Memory!Init, AnyTiming!Memory!Init

\* Whatever Cpu does is what CpuProofs is about.
LEMMA ProvedSpec == ImplementsCpu => AnyMemory!Spec
<1>1. AnyTiming!Init <=> AnyMemory!Init
  BY SameStart, ProvedStart, ProvedMemory DEF AnyTiming!Init, AnyMemory!Init
<1>2. \A rst, serves : AnyTiming!Cycle(rst, serves) <=> AnyMemory!Cycle(rst, serves)
  BY SameCycle, ProvedCycle, ProvedMemory DEF AnyTiming!Cycle, AnyMemory!Cycle
<1>3. AnyTiming!Next <=> AnyMemory!Next
  BY <1>2 DEF AnyTiming!Next, AnyMemory!Next, AnyTiming!Work, AnyMemory!Work, AnyTiming!ServeFetch,
              AnyMemory!ServeFetch, AnyTiming!ServeAccess, AnyMemory!ServeAccess
<1>4. UNCHANGED AnyTiming!vars <=> UNCHANGED AnyMemory!vars
  BY DEF AnyTiming!vars, AnyMemory!vars, AnyTiming!memVars, AnyMemory!memVars,
         AnyTiming!coreVars, AnyMemory!coreVars, AnyTiming!fetVars, AnyMemory!fetVars,
         AnyTiming!robVars, AnyMemory!robVars, AnyTiming!rfVars, AnyMemory!rfVars,
         AnyTiming!rsVars, AnyMemory!rsVars, AnyTiming!lsbVars, AnyMemory!lsbVars
<1>5. [AnyTiming!Next]_(AnyTiming!vars) => [AnyMemory!Next]_(AnyMemory!vars)
  BY <1>3, <1>4
<1> QED BY <1>1, <1>5, PTL DEF ImplementsCpu, AnyTiming!Spec, AnyMemory!Spec

\* The words and the instructions of the assumptions are the same.
LEMMA ProvedAssumptions == AnyMemory!Word = Word /\ AnyMemory!Instruction = Instruction
<1>1. AnyMemory!WORD_BYTES = WORD_BYTES /\ AnyMemory!Word = Word
  BY DEF AnyMemory!WORD_BYTES, WORD_BYTES, AnyMemory!Word, Word
<1> QED
  BY <1>1 DEF AnyMemory!Instruction, Instruction, AnyMemory!InnerInst, InnerInst, AnyMemory!RegIndex,
     RegIndex, AnyMemory!ZeroInstruction, ZeroInstruction, AnyMemory!BranchOps, BranchOps,
     AnyMemory!LoadOps, LoadOps, AnyMemory!StoreOps, StoreOps, AnyMemory!ArithImmOps, ArithImmOps,
     AnyMemory!ArithOps, ArithOps

\* The processor with its byte-wise memory controller, the RAM and the host executes the
\* program as the sequential machine does, one instruction after the other: each commit
\* is one step of SequentExecute from the state the programmer sees, and no byte on the
\* pins, cut transfer, failed prediction or full host shows.  For every size and every
\* program, of the behaviours where the two agree on what the instructions mean (Plain)
\* and where the port is moved a byte at a time (PortBytes).
THEOREM BytesExecuteSequentially ==
  Spec /\ []PortBytes /\ []AnyMemory!Plain => AnyMemory!ExecutesSequentially
<1>1. AnyMemory!Spec /\ []AnyMemory!Plain => AnyMemory!ExecutesSequentially
  BY AnyMemory!AlwaysExecutesSequentially, ProvedAssumptions, ProgramsAssumption, CapacityAssumption,
     PowerAssumption, WordAssumption DEF ProgramsAssumption, CapacityAssumption, PowerAssumption, WordAssumption
<1> QED BY <1>1, BytesImplementCpu, ProvedSpec, PTL
=============================================================================
