--------------------------------- MODULE Hci ---------------------------------
(***************************************************************************)
(* hci.v with the RAM it writes: the commands of the host, a byte at a     *)
(* time, and the program's accesses to its I/O addresses, which come first *)
(* in the cycle they begin.  Everything is a register: one action of this  *)
(* module is one clock cycle.                                              *)
(*                                                                         *)
(* line says what the serial line does in the cycle: the byte that arrives *)
(* and whether the byte at the front of tx has been sent.  pin is what the *)
(* program has on the CPU's pins, if it is an I/O address.                 *)
(*                                                                         *)
(* Abstractions.  A byte has BASE values.  A write enable and its data are *)
(* one sequence of at most one byte.  The cycle counter and parity errors  *)
(* are left out, so the error code is that of an unknown opcode.           *)
(***************************************************************************)
EXTENDS Integers, Sequences, TLC

CONSTANTS BASE,                             \* the values of a byte
          RX_DEPTH, TX_DEPTH, IO_IN_DEPTH,  \* room in the FIFOs
          DBGREG                            \* what cpu_dbgreg_din carries, least byte first

ASSUME HciAssumption == BASE \in Nat /\ BASE > 11 /\ {RX_DEPTH, TX_DEPTH, IO_IN_DEPTH} \subseteq Nat \ (0 .. 2)

VARIABLES
  q_state, q_decode_cnt, q_execute_cnt, q_addr, q_err_code,
  q_tx,                       \* q_wr_en, q_tx_data
  q_io_in,                    \* q_io_in_wr_en, q_io_in_wr_data
  q_io_en, q_io_dout,
  rx, tx, io_in,              \* the FIFOs
  ram, ram_read_address       \* the cells written so far, and the address register

command  == <<q_state, q_decode_cnt, q_execute_cnt, q_addr, q_err_code>>
hciVars  == <<command, q_tx, q_io_in, q_io_en, q_io_dout, rx, tx, io_in, ram, ram_read_address>>

Byte    == 0 .. BASE - 1
Address == 0 .. 2 * BASE * BASE - 1         \* two banks of two bytes: RAM_ADDR_WIDTH is 17

OP_ECHO           == 0
OP_CPU_REG_RD     == 1
OP_DBG_BRK        == 3
OP_DBG_RUN        == 4
OP_IO_IN          == 5
OP_QUERY_DBG_BRK  == 7
OP_QUERY_ERR_CODE == 8
OP_MEM_RD         == 9
OP_MEM_WR         == 10
OP_DISABLE        == 11

NoPin == [en |-> FALSE, wr |-> FALSE, sel |-> 0, din |-> 0]

Fifo == INSTANCE ByteQueue WITH DEPTH <- TX_DEPTH, Data <- Byte, queue <- tx

active  == q_state # "S_DISABLED"
io_full == tx.full

rd_data   == Head(rx.items)
Cell(a)   == IF a \in DOMAIN ram THEN ram[a] ELSE 0
ram_din   == Cell(ram_read_address)

\* The host has the bus while it is active, and its addresses are RAM addresses.
Io(pin) == pin.en /\ ~active

(***************************************************************************)
(* What the FIFOs and the registers in front of them do in a cycle.        *)
(***************************************************************************)
Pass(line, rd_en, sends, keeps, io_in_rd_en) ==
  /\ rx'    = Fifo!Through(rx, RX_DEPTH, rd_en, line.arrives)
  /\ tx'    = Fifo!Through(tx, TX_DEPTH, line.sent, q_tx)
  /\ io_in' = Fifo!Through(io_in, IO_IN_DEPTH, io_in_rd_en, q_io_in)
  /\ q_tx'    = sends
  /\ q_io_in' = keeps

Rest(line)         == Pass(line, FALSE, <<>>, <<>>, FALSE)
\* Mutant of Take: the byte is looked at and left where it is.
TakeNothing(line) == Rest(line)

Take(line)         == Pass(line, TRUE, <<>>, <<>>, FALSE)
Send(line, byte)   == Pass(line, FALSE, <<byte>>, <<>>, FALSE)
TakeAndSend(line, byte) == Pass(line, TRUE, <<byte>>, <<>>, FALSE)

(***************************************************************************)
(* The program's accesses.                                                 *)
(***************************************************************************)
OutputByte(line, pin) ==                      \* 0x30000 write
  /\ pin.wr /\ pin.sel = 0
  /\ IF ~tx.full /\ pin.din # 0 THEN Send(line, pin.din) ELSE Rest(line)
  /\ UNCHANGED command

StopProgram(line, pin) ==                     \* 0x30004 write
  /\ pin.wr /\ pin.sel = 4
  /\ IF tx.full THEN Rest(line) ELSE Send(line, 0)
  /\ q_state' = "S_DECODE"
  /\ UNCHANGED <<q_decode_cnt, q_execute_cnt, q_addr, q_err_code>>

ReadInput(line, pin) ==                       \* 0x30000 read
  /\ ~pin.wr /\ pin.sel = 0
  /\ LET moves == ~rx.empty /\ ~io_in.full    \* the host's next byte is taken for input
     IN Pass(line, moves, <<>>, IF moves THEN <<rd_data>> ELSE <<>>, ~io_in.empty)
  /\ UNCHANGED command

(***************************************************************************)
(* The commands.                                                           *)
(***************************************************************************)
NeedsByte == q_state \in {"S_DISABLED", "S_DECODE", "S_ECHO_STG_0", "S_ECHO_STG_1",
                          "S_IO_IN_STG_0", "S_IO_IN_STG_1", "S_MEM_RD_STG_0",
                          "S_MEM_WR_STG_0", "S_MEM_WR_STG_1"}
NeedsRoom == \/ q_state \in {"S_QUERY_ERR_CODE", "S_CPU_REG_RD_STG0", "S_CPU_REG_RD_STG1"}
             \/ q_state = "S_MEM_RD_STG_1" /\ q_execute_cnt % 2 = 1

\* S_DISABLE has no case of its own: the machine never leaves it.
Waits == \/ NeedsByte /\ rx.empty
         \/ NeedsRoom /\ tx.full
         \/ q_state = "S_DISABLE"

Wait(line) == Waits /\ Rest(line) /\ UNCHANGED command

Disabled(line) ==
  /\ q_state = "S_DISABLED"
  /\ q_state' = IF rd_data = OP_DBG_BRK THEN "S_DECODE" ELSE "S_DISABLED"
  /\ IF rd_data = OP_QUERY_DBG_BRK THEN TakeAndSend(line, 0) ELSE Take(line)
  /\ UNCHANGED <<q_decode_cnt, q_execute_cnt, q_addr, q_err_code>>

Stage(opcode) ==
  CASE opcode = OP_ECHO           -> "S_ECHO_STG_0"
    [] opcode = OP_IO_IN          -> "S_IO_IN_STG_0"
    [] opcode = OP_QUERY_ERR_CODE -> "S_QUERY_ERR_CODE"
    [] opcode = OP_MEM_RD         -> "S_MEM_RD_STG_0"
    [] opcode = OP_MEM_WR         -> "S_MEM_WR_STG_0"
    [] opcode = OP_CPU_REG_RD     -> "S_CPU_REG_RD_STG0"
    [] opcode = OP_DISABLE        -> "S_DISABLE"
    [] opcode = OP_DBG_RUN        -> "S_DISABLED"
    [] OTHER                      -> "S_DECODE"

Known == {OP_ECHO, OP_IO_IN, OP_DBG_BRK, OP_QUERY_ERR_CODE, OP_MEM_RD, OP_MEM_WR, OP_CPU_REG_RD,
          OP_DISABLE, OP_DBG_RUN, OP_QUERY_DBG_BRK}

Decode(line) ==
  /\ q_state = "S_DECODE"
  /\ q_state' = Stage(rd_data)
  /\ q_decode_cnt' = 0
  /\ q_err_code' = IF rd_data \in Known THEN q_err_code ELSE 2   \* bit DBG_UNKNOWN_OPCODE
  /\ IF rd_data = OP_QUERY_DBG_BRK THEN TakeAndSend(line, 1) ELSE Take(line)
  /\ UNCHANGED <<q_execute_cnt, q_addr>>

\* CNT_LO, then CNT_HI.  A count of zero ends the command.
CountByte(high, next, unit) ==
  IF high THEN /\ q_execute_cnt' = (rd_data * BASE + (q_execute_cnt % BASE)) * unit
               /\ q_state' = IF q_execute_cnt' = 0 THEN "S_DECODE" ELSE next
          ELSE /\ q_execute_cnt' = rd_data
               /\ UNCHANGED q_state

ReadCount(line, stage, next) ==
  /\ q_state = stage
  /\ Take(line)
  /\ q_decode_cnt' = (q_decode_cnt + 1) % 8
  /\ CountByte(q_decode_cnt # 0, next, 1)
  /\ UNCHANGED <<q_addr, q_err_code>>

\* ADDR_LO, ADDR_HI, BANK_SEL, then the count.
ReadAddress(line, stage, next, unit) ==
  /\ q_state = stage
  /\ Take(line)
  /\ q_decode_cnt' = (q_decode_cnt + 1) % 8
  /\ q_addr' = CASE q_decode_cnt = 0 -> rd_data
                 [] q_decode_cnt = 1 -> rd_data * BASE + (q_addr % BASE)
                 [] q_decode_cnt = 2 -> ((rd_data % 2) * BASE * BASE) + (q_addr % (BASE * BASE))
                 [] OTHER            -> q_addr
  /\ IF q_decode_cnt < 3 THEN UNCHANGED <<q_state, q_execute_cnt>>
                         ELSE CountByte(q_decode_cnt # 3, next, unit)
  /\ UNCHANGED q_err_code

\* One unit of the count is done; the last one ends the command.
CountDown == /\ q_execute_cnt' = q_execute_cnt - 1
             /\ q_state' = IF q_execute_cnt' = 0 THEN "S_DECODE" ELSE q_state

Echo(line) ==
  /\ q_state = "S_ECHO_STG_1"
  /\ TakeAndSend(line, rd_data)
  /\ CountDown
  /\ UNCHANGED <<q_decode_cnt, q_addr, q_err_code>>

KeepInput(line) ==
  /\ q_state = "S_IO_IN_STG_1"
  /\ Pass(line, TRUE, <<>>, IF io_in.full THEN <<>> ELSE <<rd_data>>, FALSE)
  /\ CountDown
  /\ UNCHANGED <<q_decode_cnt, q_addr, q_err_code>>

QueryErrCode(line) ==
  /\ q_state = "S_QUERY_ERR_CODE"
  /\ Send(line, q_err_code)
  /\ q_state' = "S_DECODE"
  /\ UNCHANGED <<q_decode_cnt, q_execute_cnt, q_addr, q_err_code>>

StartRegister(line) ==
  /\ q_state = "S_CPU_REG_RD_STG0"
  /\ Rest(line)
  /\ q_execute_cnt' = 4 /\ q_addr' = 0
  /\ q_state' = "S_CPU_REG_RD_STG1"
  /\ UNCHANGED <<q_decode_cnt, q_err_code>>

SendRegister(line) ==
  /\ q_state = "S_CPU_REG_RD_STG1"
  /\ Send(line, DBGREG[q_addr + 1])
  /\ q_addr' = q_addr + 1
  /\ CountDown
  /\ UNCHANGED <<q_decode_cnt, q_err_code>>

\* Mutants of NextAddress: the bank is kept; the register has a bit too many.
NextAddressInBank == (q_addr \div (BASE * BASE)) * BASE * BASE + ((q_addr + 1) % (BASE * BASE))
NextAddressWide   == q_addr + 1

NextAddress == (q_addr + 1) % (2 * BASE * BASE)

\* Mutant of AwaitMemory: the address moves on a cycle early.
AwaitMemoryEarly(line) ==
  /\ q_state = "S_MEM_RD_STG_1" /\ q_execute_cnt % 2 = 0
  /\ Rest(line)
  /\ q_execute_cnt' = q_execute_cnt - 1
  /\ q_addr' = NextAddress
  /\ UNCHANGED <<q_state, q_decode_cnt, q_err_code>>

\* A cycle for the RAM to answer, and one to send what it said.
AwaitMemory(line) ==
  /\ q_state = "S_MEM_RD_STG_1" /\ q_execute_cnt % 2 = 0
  /\ Rest(line)
  /\ q_execute_cnt' = q_execute_cnt - 1
  /\ UNCHANGED <<q_state, q_decode_cnt, q_addr, q_err_code>>

SendMemory(line) ==
  /\ q_state = "S_MEM_RD_STG_1" /\ q_execute_cnt % 2 = 1
  /\ Send(line, ram_din)
  /\ q_addr' = NextAddress
  /\ CountDown
  /\ UNCHANGED <<q_decode_cnt, q_err_code>>

WriteMemory(line) ==
  /\ q_state = "S_MEM_WR_STG_1"
  /\ Take(line)
  /\ q_addr' = NextAddress
  /\ CountDown
  /\ UNCHANGED <<q_decode_cnt, q_err_code>>

Command(line) ==
  \/ Wait(line)
  \/ /\ ~Waits
     /\ \/ Disabled(line)
        \/ Decode(line)
        \/ ReadCount(line, "S_ECHO_STG_0", "S_ECHO_STG_1")
        \/ ReadCount(line, "S_IO_IN_STG_0", "S_IO_IN_STG_1")
        \/ ReadAddress(line, "S_MEM_RD_STG_0", "S_MEM_RD_STG_1", 2)
        \/ ReadAddress(line, "S_MEM_WR_STG_0", "S_MEM_WR_STG_1", 1)
        \/ Echo(line)
        \/ KeepInput(line)
        \/ QueryErrCode(line)
        \/ StartRegister(line)
        \/ SendRegister(line)
        \/ AwaitMemory(line)
        \/ SendMemory(line)
        \/ WriteMemory(line)

\* What a read of the input port returns: the front of the queue, or what is left in its memory.
InputPort(byte) == IF io_in.items # <<>> THEN byte = Head(io_in.items) ELSE byte \in Byte

Clock(line, pin) ==
  /\ IF Io(pin) /\ ~q_io_en
       THEN \/ OutputByte(line, pin)
            \/ StopProgram(line, pin)
            \/ ReadInput(line, pin)
       ELSE Command(line)
  /\ q_io_en' = Io(pin)
  /\ IF Io(pin) /\ ~pin.wr /\ pin.sel = 0 THEN \E byte \in Byte : InputPort(byte) /\ q_io_dout' = byte
                                          ELSE q_io_dout' = 0
  /\ ram' = IF q_state = "S_MEM_WR_STG_1" /\ ~rx.empty THEN (q_addr :> rd_data) @@ ram ELSE ram
  /\ ram_read_address' = IF active THEN q_addr ELSE ram_read_address

HciInit ==
  /\ q_state = "S_DECODE"
  /\ q_decode_cnt = 0 /\ q_execute_cnt = 0 /\ q_addr = 0 /\ q_err_code = 0
  /\ q_tx = <<>> /\ q_io_in = <<>>
  /\ q_io_en = FALSE /\ q_io_dout = 0
  /\ rx = Fifo!NoElement /\ tx = Fifo!NoElement /\ io_in = Fifo!NoElement
  /\ ram = <<>> /\ ram_read_address = 0
=============================================================================
