-------------------------- MODULE MemoryController --------------------------
(***************************************************************************)
(* MemoryController.v with what is on the other side of its pins: the      *)
(* synchronous RAM (ram.v), which has one port and moves one byte a cycle, *)
(* and the host (hci.v), which serves the I/O addresses and acts when one  *)
(* appears on the address pins.                                            *)
(*                                                                         *)
(* Abstractions.  An instruction is fetched with the timing of its four    *)
(* bytes, and is taken from a program that no store changes.  The payload  *)
(* of a ready pulse that is low is 0, and so are the request and access    *)
(* registers while they are not in use.  The n-th input of the host is the *)
(* number n modulo IO_PERIOD; outputs are counted likewise, and ram keeps  *)
(* the last byte sent to an I/O address.  There is always input, and every *)
(* I/O address is the data port: the cycle counter is left out.            *)
(***************************************************************************)
EXTENDS Words

CONSTANTS IO_PERIOD,
          INST_GOAL          \* bytes of an instruction (4 in the code)

VARIABLES
  status, working_on, waiting, goal, current, current_address, current_data, buffer,
  inst_request, load_request, store_request,
  ram_rw_signal_out, ram_address_out, ram_data_out,
  ram, ram_read_address,     \* the RAM's contents and its address register
  q_io_en, q_io_dout, io_reads, io_writes,                      \* the host
  out

mcVars == <<status, working_on, waiting, goal, current, current_address, current_data,
            buffer, inst_request, load_request, store_request, ram_rw_signal_out,
            ram_address_out, ram_data_out, ram, ram_read_address, q_io_en, q_io_dout,
            io_reads, io_writes, out>>

NoRequest == [pending |-> FALSE, address |-> 0, goal |-> 0, data |-> 0]
Quiet     == [fet_ready |-> FALSE, fet_instruction |-> ZeroInstruction,
              lsb_ready |-> FALSE, lsb_data |-> 0]

(***************************************************************************)
(* The other side of the pins: each cycle, from the pins as they are.      *)
(***************************************************************************)
\* riscv_top.v gives the bus to the host while hci.v is active; the host has no I/O addresses.
CpuHasBus == [active |-> FALSE, wr |-> FALSE, a |-> 0, din |-> 0]

cpumc_a(host)   == IF host.active THEN host.a ELSE ram_address_out
cpumc_din(host) == IF host.active THEN host.din ELSE ram_data_out
writing(host)   == IF host.active THEN host.wr ELSE ram_rw_signal_out = "WRITE"
io_en(host)     == ~host.active /\ IsIo(ram_address_out)

\* The host reacts to the first cycle in which an I/O address is on the pins.
HostActs(host) == io_en(host) /\ ~q_io_en

Pins(host) ==
  /\ ram' = IF writing(host) /\ (io_en(host) => HostActs(host))
              THEN [ram EXCEPT ![cpumc_a(host)] = cpumc_din(host)] ELSE ram
  /\ ram_read_address' = cpumc_a(host)
  /\ q_io_en' = io_en(host)
  /\ q_io_dout' = IF io_en(host) /\ ~writing(host) THEN io_reads ELSE 0
  /\ io_reads' = (io_reads + Flag(HostActs(host) /\ ~writing(host))) % IO_PERIOD
  /\ io_writes' = (io_writes + Flag(HostActs(host) /\ writing(host))) % IO_PERIOD

\* Mutant of ram_data_in: the host's answer is not selected.
RamDataOnly == ram[ram_read_address]

\* mem_din: what the pins show of the address of the cycle before.
ram_data_in == IF q_io_en THEN q_io_dout ELSE ram[ram_read_address]

Show(rw, address, data) == /\ ram_rw_signal_out' = rw
                           /\ ram_address_out' = address
                           /\ ram_data_out' = data

\* Mutant of Release: the pins go on writing.
ReleaseAddressOnly == Show(ram_rw_signal_out, 0, ram_data_out)

Release == Show("READ", 0, ram_data_out)
KeepPins == UNCHANGED <<ram_rw_signal_out, ram_address_out, ram_data_out>>

(***************************************************************************)
(* Requests.  One of each kind is remembered; what arrives in this cycle   *)
(* replaces it, unless taken starts in this cycle.                         *)
(***************************************************************************)
Instruction1(fet) == [pending |-> TRUE, address |-> fet.mc_address, goal |-> 0, data |-> 0]
Load1(lsb)  == [pending |-> TRUE, address |-> lsb.mc_address, goal |-> lsb.mc_goal, data |-> 0]
Store1(lsb) == [pending |-> TRUE, address |-> lsb.mc_address, goal |-> lsb.mc_goal,
                data |-> lsb.mc_data]

\* Clearing the flag of the request taken comes last in the cycle.
Remember(fet, lsb, taken) ==
  /\ inst_request' = IF taken = "INSTRUCTION" THEN NoRequest
                     ELSE IF fet.mc_request THEN Instruction1(fet) ELSE inst_request
  /\ load_request' = IF taken = "LOAD" THEN NoRequest
                     ELSE IF lsb.mc_request /\ ~lsb.mc_store THEN Load1(lsb) ELSE load_request
  /\ store_request' = IF taken = "STORE" THEN NoRequest
                      ELSE IF lsb.mc_request /\ lsb.mc_store THEN Store1(lsb)
                      ELSE store_request

(***************************************************************************)
(* IDLE: start what waits: a store the host has room for, a load, a fetch. *)
(***************************************************************************)
CouldStore(io_buffer_full) ==
  store_request.pending /\ (IsIo(store_request.address) => ~io_buffer_full)

StartWork(kind, request, n) ==
  /\ status' = "BUSY"
  /\ working_on' = kind
  /\ waiting' = TRUE
  /\ goal' = n
  /\ current_address' = request.address
  /\ current_data' = request.data
  /\ UNCHANGED buffer

StartStore(fet, lsb, io_buffer_full) ==
  /\ status = "IDLE" /\ CouldStore(io_buffer_full)
  /\ StartWork("STORE", store_request, store_request.goal)
  /\ current' = current + 1
  /\ Show("WRITE", store_request.address, ByteOf(store_request.data, current))
  /\ Remember(fet, lsb, "STORE")
  /\ out' = Quiet

StartLoad(fet, lsb, io_buffer_full) ==
  /\ status = "IDLE" /\ ~CouldStore(io_buffer_full) /\ load_request.pending
  /\ StartWork("LOAD", load_request, load_request.goal)
  /\ Show("READ", load_request.address, ram_data_out)
  /\ Remember(fet, lsb, "LOAD")
  /\ out' = Quiet
  /\ UNCHANGED current

StartFetch(fet, lsb, io_buffer_full) ==
  /\ status = "IDLE" /\ ~CouldStore(io_buffer_full) /\ ~load_request.pending
  /\ inst_request.pending
  /\ StartWork("INSTRUCTION", inst_request, INST_GOAL)
  /\ Show("READ", inst_request.address, ram_data_out)
  /\ Remember(fet, lsb, "INSTRUCTION")
  /\ out' = Quiet
  /\ UNCHANGED current

Rest(fet, lsb, io_buffer_full) ==
  /\ status = "IDLE" /\ ~CouldStore(io_buffer_full)
  /\ ~load_request.pending /\ ~inst_request.pending
  /\ Remember(fet, lsb, "NONE")
  /\ out' = Quiet
  /\ KeepPins
  /\ UNCHANGED <<status, working_on, waiting, goal, current, current_address,
                 current_data, buffer>>

(***************************************************************************)
(* BUSY: every byte takes a cycle with its address on the pins and one     *)
(* after it.                                                               *)
(***************************************************************************)
Busy(fet, lsb) == /\ status = "BUSY"
                  /\ Remember(fet, lsb, "NONE")
                  /\ out' = Quiet
                  /\ UNCHANGED <<working_on, goal, current_address, current_data>>

EndWait(fet, lsb) == /\ Busy(fet, lsb)
                     /\ waiting
                     /\ waiting' = FALSE
                     /\ Release
                     /\ UNCHANGED <<status, current, buffer>>

NextStoreByte(fet, lsb) ==
  /\ Busy(fet, lsb)
  /\ ~waiting /\ working_on = "STORE"
  /\ IF current = goal
       THEN /\ status' = "FINISH"
            /\ current' = 0
            /\ KeepPins
            /\ UNCHANGED waiting
       ELSE /\ waiting' = TRUE
            /\ Show("WRITE", Add(current_address, current), ByteOf(current_data, current))
            /\ current' = current + 1
            /\ UNCHANGED status
  /\ UNCHANGED buffer

\* Mutant of NextReadByte: one byte too many.
NextReadByteOneMore(fet, lsb) ==
  /\ Busy(fet, lsb)
  /\ ~waiting /\ working_on # "STORE"
  /\ buffer' = IF working_on = "LOAD"
                 THEN buffer + ram_data_in * 2^(BYTE_BITS * current) ELSE buffer
  /\ IF current = goal
       THEN /\ status' = "FINISH"
            /\ current' = 0
            /\ KeepPins
            /\ UNCHANGED waiting
       ELSE /\ waiting' = TRUE
            /\ Show("READ", Add(current_address, current + 1), ram_data_out)
            /\ current' = current + 1
            /\ UNCHANGED status

NextReadByte(fet, lsb) ==
  /\ Busy(fet, lsb)
  /\ ~waiting /\ working_on # "STORE"
  /\ buffer' = IF working_on = "LOAD"
                 THEN buffer + ram_data_in * 2^(BYTE_BITS * current) ELSE buffer
  /\ IF current = goal - 1
       THEN /\ status' = "FINISH"
            /\ current' = 0
            /\ KeepPins
            /\ UNCHANGED waiting
       ELSE /\ waiting' = TRUE
            /\ Show("READ", Add(current_address, current + 1), ram_data_out)
            /\ current' = current + 1
            /\ UNCHANGED status

(***************************************************************************)
(* FINISH: tell who asked.                                                 *)
(***************************************************************************)
Finish(fet, lsb, program) ==
  /\ status = "FINISH"
  /\ Remember(fet, lsb, "NONE")
  /\ Release
  /\ out' = CASE working_on = "STORE" -> [Quiet EXCEPT !.lsb_ready = TRUE]
              [] working_on = "LOAD"  -> [Quiet EXCEPT !.lsb_ready = TRUE, !.lsb_data = buffer]
              [] OTHER -> [Quiet EXCEPT !.fet_ready = TRUE,
                                        !.fet_instruction = program[current_address]]
  /\ status' = "IDLE"
  /\ working_on' = "NONE"
  /\ buffer' = 0
  /\ goal' = 0 /\ current_address' = 0 /\ current_data' = 0
  /\ UNCHANGED <<waiting, current>>

Operate(fet, lsb, io_buffer_full, program) ==
  \/ StartStore(fet, lsb, io_buffer_full)
  \/ StartLoad(fet, lsb, io_buffer_full)
  \/ StartFetch(fet, lsb, io_buffer_full)
  \/ Rest(fet, lsb, io_buffer_full)
  \/ EndWait(fet, lsb)
  \/ NextStoreByte(fet, lsb)
  \/ NextReadByte(fet, lsb)
  \/ Finish(fet, lsb, program)

(***************************************************************************)
(* A rollback drops every fetch and load; a store under way stands still   *)
(* for a cycle, with its byte on the pins.                                 *)
(***************************************************************************)
Rollback(lsb) ==
  /\ inst_request' = NoRequest
  /\ load_request' = IF lsb.mc_request /\ ~lsb.mc_store /\ IsIo(lsb.mc_address)
                       THEN Load1(lsb) ELSE NoRequest
  /\ store_request' = IF lsb.mc_request /\ lsb.mc_store THEN Store1(lsb) ELSE store_request
  /\ IF status # "IDLE" /\ working_on # "STORE"
       THEN /\ status' = "IDLE" /\ working_on' = "NONE" /\ buffer' = 0 /\ current' = 0
            /\ goal' = 0 /\ current_address' = 0 /\ current_data' = 0
       ELSE UNCHANGED <<status, working_on, buffer, current, goal, current_address,
                        current_data>>
  /\ out' = Quiet
  /\ KeepPins
  /\ UNCHANGED waiting

\* Mutant of Reset: the requests survive.
ResetKeepsRequests ==
  /\ status' = "IDLE" /\ working_on' = "NONE" /\ waiting' = FALSE
  /\ goal' = 0 /\ current' = 0 /\ current_address' = 0 /\ current_data' = 0
  /\ buffer' = 0
  /\ out' = Quiet
  /\ KeepPins
  /\ UNCHANGED <<inst_request, load_request, store_request>>

\* The pins keep what they show.
Reset == /\ status' = "IDLE" /\ working_on' = "NONE" /\ waiting' = FALSE
         /\ goal' = 0 /\ current' = 0 /\ current_address' = 0 /\ current_data' = 0
         /\ buffer' = 0
         /\ inst_request' = NoRequest
         /\ load_request' = NoRequest
         /\ store_request' = NoRequest
         /\ out' = Quiet
         /\ KeepPins

Clock(rst, rob, fet, lsb, io_buffer_full, program, host) ==
  /\ Pins(host)
  /\ \/ rst /\ Reset
     \/ ~rst /\ rob.rollback /\ Rollback(lsb)
     \/ ~rst /\ ~rob.rollback /\ Operate(fet, lsb, io_buffer_full, program)

Init == /\ status = "IDLE" /\ working_on = "NONE" /\ waiting = FALSE
        /\ goal = 0 /\ current = 0 /\ current_address = 0 /\ current_data = 0
        /\ buffer = 0
        /\ inst_request = NoRequest /\ load_request = NoRequest /\ store_request = NoRequest
        /\ ram_rw_signal_out = "READ" /\ ram_address_out = 0 /\ ram_data_out = 0
        /\ ram = [a \in Word |-> 0] /\ ram_read_address = 0
        /\ q_io_en = FALSE /\ q_io_dout = 0
        /\ io_reads = 0 /\ io_writes = 0
        /\ out = Quiet

Request == [pending : BOOLEAN, address : Word, goal : 0 .. WORD_BYTES, data : Word]

TypeOK ==
  /\ status \in {"IDLE", "BUSY", "FINISH"}
  /\ working_on \in {"NONE", "INSTRUCTION", "LOAD", "STORE"}
  /\ waiting \in BOOLEAN
  /\ goal \in 0 .. WORD_BYTES \cup {INST_GOAL}
  /\ current \in 0 .. WORD_BYTES \cup 0 .. INST_GOAL
  /\ current_address \in Word
  /\ current_data \in Word
  /\ buffer \in Word
  /\ {inst_request, load_request, store_request} \subseteq Request
  /\ ram_rw_signal_out \in {"READ", "WRITE"}
  /\ ram_address_out \in Word
  /\ ram_data_out \in Byte
  /\ ram \in [Word -> Byte]
  /\ ram_read_address \in Word
  /\ q_io_en \in BOOLEAN
  /\ q_io_dout \in 0 .. IO_PERIOD - 1
  /\ io_reads \in 0 .. IO_PERIOD - 1
  /\ io_writes \in 0 .. IO_PERIOD - 1
  /\ out \in [fet_ready : BOOLEAN, fet_instruction : Instruction,
              lsb_ready : BOOLEAN, lsb_data : Word]
=============================================================================
