-------------------------------- MODULE Cpu ---------------------------------
(***************************************************************************)
(* cpu.v: the core with a memory that may take any time to answer.  The    *)
(* only choice of a cycle is whether it finishes a request, and which.     *)
(***************************************************************************)
EXTENDS Core

VARIABLES
  mem_ram, mem_fet_request, mem_lsb_request, mem_io_reads, mem_io_writes, mem_out,
  input_taken    \* history: the input read last belongs to a load not yet committed

Memory == INSTANCE MemoryPort WITH
  ram <- mem_ram, fet_request <- mem_fet_request, lsb_request <- mem_lsb_request,
  io_reads <- mem_io_reads, io_writes <- mem_io_writes, out <- mem_out

memVars == <<mem_ram, mem_fet_request, mem_lsb_request, mem_io_reads, mem_io_writes,
             mem_out>>
vars    == <<coreVars, memVars, input_taken>>

Cycle(rst, serves) ==
  /\ Memory!Clock(rst, rob_out, fet_out, lsb_out, serves, program)
  /\ CoreCycle(rst, mem_out)
  /\ input_taken' = /\ ~rst
                    /\ mem_io_reads' # mem_io_reads \/ (input_taken /\ ~rob_out'.commit)

Work        == Cycle(FALSE, "none")
ServeFetch  == Cycle(FALSE, "fetch")
ServeAccess == Cycle(FALSE, "data")

\* A cycle with rst_in high or rdy_in low: inner_rst does not tell them apart, so that a pause does
\* not freeze the pc and the registers (cpu.v:24) but clears them.
Pause       == Cycle(TRUE, "none")

Next      == Work \/ ServeFetch \/ ServeAccess
PauseNext == Next \/ Pause

Init == /\ CoreInit
        /\ Memory!Init
        /\ input_taken = FALSE

Spec      == Init /\ [][Next]_vars
PauseSpec == Init /\ [][PauseNext]_vars

TypeOK == CoreTypeOK /\ Memory!TypeOK /\ input_taken \in BOOLEAN

(***************************************************************************)
(* The pipeline executes the program as a machine does that finishes each  *)
(* instruction before the next: every commit is one step of it, and no     *)
(* other cycle shows.  Stores count from their commit on, although they    *)
(* reach the RAM later.                                                    *)
(***************************************************************************)
\* A store on its way to the memory, or pending there.
Leaving == lsb_out.mc_request /\ lsb_out.mc_store
Taken   == mem_lsb_request.pending /\ mem_lsb_request.store

HandedOver ==
  LET taken == IF Taken THEN WriteBytes(mem_ram, mem_lsb_request.address, mem_lsb_request.goal,
                                        mem_lsb_request.data)
                        ELSE mem_ram
  IN IF Leaving THEN WriteBytes(taken, lsb_out.mc_address, lsb_out.mc_goal, lsb_out.mc_data)
                ELSE taken

ArchMem    == AfterStores(HandedOver)
ArchReads  == (mem_io_reads - Flag(input_taken)) % IO_PERIOD
ArchWrites == (mem_io_writes + Flag(Taken /\ IsIo(mem_lsb_request.address))
                 + Flag(Leaving /\ IsIo(lsb_out.mc_address)) + QueuedOutputs) % IO_PERIOD

Sequential == INSTANCE SequentExecute WITH
  pc <- committed_pc, reg <- ArchReg, mem <- ArchMem,
  io_reads <- ArchReads, io_writes <- ArchWrites

ExecutesSequentially == Sequential!Spec

(***************************************************************************)
(* Requests and answers.                                                   *)
(***************************************************************************)
None(a, b, c)  == ~a /\ ~b /\ ~c
OneOf(a, b, c) == (a \/ b \/ c) /\ ~(a /\ b) /\ ~(a /\ c) /\ ~(b /\ c)

\* The fetcher waits exactly while the one request it made is on its way, in
\* the memory controller or answered: when a rollback makes it give up, the
\* controller forgets the request (Fetcher.v:85-88, MemoryController.v:88), so
\* no answer is taken for that of a later request.
FetchesAgree ==
  IF fet_status = "WAITING"
    THEN OneOf(fet_out.mc_request, mem_fet_request.pending, mem_out.fet_ready)
    ELSE None(fet_out.mc_request, mem_fet_request.pending, mem_out.fet_ready)

\* The same for the load store buffer, which a rollback makes give up a load
\* from RAM only, and of the kind it waits for (LoadStoreBuffer.v:200-225,
\* MemoryController.v:89-107).
AccessesAgree ==
  /\ IF lsb_status # "IDLE"
       THEN OneOf(lsb_out.mc_request, mem_lsb_request.pending, mem_out.lsb_ready)
       ELSE None(lsb_out.mc_request, mem_lsb_request.pending, mem_out.lsb_ready)
  /\ lsb_out.mc_request => (lsb_out.mc_store <=> lsb_status = "STORE")
  /\ mem_lsb_request.pending => (mem_lsb_request.store <=> lsb_status = "STORE")
=============================================================================
