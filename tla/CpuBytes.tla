------------------------------ MODULE CpuBytes ------------------------------
(***************************************************************************)
(* cpu.v with the memory controller, the RAM and the host at the other end *)
(* of its pins: the core cycle by cycle, byte by byte.  The only choice of *)
(* a cycle is whether the host's output buffer is full.                    *)
(***************************************************************************)
EXTENDS Core

CONSTANT INST_GOAL

\* An access moves one byte at least, half a word too.
ASSUME GoalAssumption == INST_GOAL \in Nat \ {0} /\ WORD_BYTES >= 2

\* Address 0, which is on the pins while nothing moves, is not the host's.
ASSUME RestAssumption == ~IsIo(0)

VARIABLES
  mc_status, mc_working_on, mc_waiting, mc_goal, mc_current, mc_current_address,
  mc_current_data, mc_buffer, mc_inst_request, mc_load_request, mc_store_request,
  mc_rw, mc_address, mc_data, ram, ram_read_address,
  q_io_en, q_io_dout, io_reads, io_writes, mc_out,
  settled_ram, settled_reads, settled_writes,   \* history: as of the last finished access
  input_taken                                   \* history, as in Cpu

Controller == INSTANCE MemoryController WITH
  status <- mc_status, working_on <- mc_working_on, waiting <- mc_waiting,
  goal <- mc_goal, current <- mc_current, current_address <- mc_current_address,
  current_data <- mc_current_data, buffer <- mc_buffer,
  inst_request <- mc_inst_request, load_request <- mc_load_request,
  store_request <- mc_store_request, ram_rw_signal_out <- mc_rw,
  ram_address_out <- mc_address, ram_data_out <- mc_data, out <- mc_out

mcVars == <<mc_status, mc_working_on, mc_waiting, mc_goal, mc_current, mc_current_address,
            mc_current_data, mc_buffer, mc_inst_request, mc_load_request, mc_store_request,
            mc_rw, mc_address, mc_data, ram, ram_read_address, q_io_en, q_io_dout,
            io_reads, io_writes, mc_out>>
vars == <<coreVars, mcVars, settled_ram, settled_reads, settled_writes, input_taken>>

\* An access is settled when the load store buffer is told that it is done.
Settle(rst) ==
  /\ settled_ram'    = IF mc_out'.lsb_ready THEN ram' ELSE settled_ram
  /\ settled_reads'  = IF mc_out'.lsb_ready THEN io_reads' ELSE settled_reads
  /\ settled_writes' = IF mc_out'.lsb_ready THEN io_writes' ELSE settled_writes
  /\ input_taken'    = /\ ~rst
                       /\ \/ settled_reads' # settled_reads
                          \/ input_taken /\ ~rob_out'.commit

Cycle(rst, io_buffer_full, host) ==
  /\ Controller!Clock(rst, rob_out, fet_out, lsb_out, io_buffer_full, program, host)
  /\ CoreCycle(rst, mc_out)
  /\ Settle(rst)

Run     == Cycle(FALSE, FALSE, Controller!CpuHasBus)
RunFull == Cycle(FALSE, TRUE, Controller!CpuHasBus)

Next == Run \/ RunFull

Init == /\ CoreInit
        /\ Controller!Init
        /\ settled_ram = ram
        /\ settled_reads = 0
        /\ settled_writes = 0
        /\ input_taken = FALSE

Spec == Init /\ [][Next]_vars

\* The clock runs, and the host keeps making room for output.
FairSpec == Spec /\ WF_vars(Next) /\ SF_vars(Run)

TypeOK == /\ CoreTypeOK
          /\ Controller!TypeOK
          /\ settled_ram \in [Word -> Byte]
          /\ settled_reads \in 0 .. IO_PERIOD - 1
          /\ settled_writes \in 0 .. IO_PERIOD - 1
          /\ input_taken \in BOOLEAN

(***************************************************************************)
(* The controller keeps the promise of MemoryPort, so this machine is one  *)
(* of the behaviours of Cpu.                                               *)
(***************************************************************************)
Fetch == IF mc_working_on = "INSTRUCTION"
           THEN [pending |-> TRUE, address |-> mc_current_address]
           ELSE [pending |-> mc_inst_request.pending, address |-> mc_inst_request.address]

Pending(store, r) == [pending |-> r.pending, store |-> store, address |-> r.address,
                      goal |-> r.goal, data |-> r.data]

AccessWaiting == IF mc_store_request.pending THEN Pending(TRUE, mc_store_request)
                 ELSE Pending(FALSE, mc_load_request)

AccessRequest ==
  IF mc_working_on \in {"LOAD", "STORE"}
    THEN [pending |-> TRUE, store |-> mc_working_on = "STORE", address |-> mc_current_address,
          goal |-> mc_goal, data |-> mc_current_data]
    ELSE AccessWaiting

AnyTiming == INSTANCE Cpu WITH
  mem_ram <- settled_ram, mem_fet_request <- Fetch, mem_lsb_request <- AccessRequest,
  mem_io_reads <- settled_reads, mem_io_writes <- settled_writes, mem_out <- mc_out

ImplementsCpu == AnyTiming!Spec

\* The two invariants of Cpu, for the byte-wise controller and with resets: a
\* request is in at most one place, and whoever made it waits for it, whichever
\* cycle of a transfer a reset or a rollback hits.
RequestsAgree == AnyTiming!FetchesAgree /\ AnyTiming!AccessesAgree
=============================================================================
