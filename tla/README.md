# WinterOrb in TLA+

WinterOrb is an RV32I processor in Verilog: a Tomasulo core with a reorder buffer,
branch prediction, an instruction cache and a byte-wide memory port, for an FPGA board
with a serial line to a host computer. The modules here model the processor clock cycle
by clock cycle, the board around it from the memory bus to the bits of the serial line,
the program on the host that uploads and runs programs, and the two simulators kept in
the same repository. The sequential one (`tools/sequent_execute.cpp`) is the
specification: the processor and the out-of-order simulator (`tools/ws_cpu`) are both
shown to implement it.

Paths below are relative to the repository root, which these files see as `src/`: the
Verilog is in `src/` of the repository, so `ReorderBuffer.v` is `src/src/ReorderBuffer.v`
in `PROJECT.json`.

## The system

All modules of the core are clocked by one edge and reset by one signal, and speak
through wires; there is no handshake but the "full" signals and the request/ready pulses
of the memory controller.

| Component | State | Operations | Talks to |
|---|---|---|---|
| `Fetcher.v` | pc, FSM (IDLE, WAITING, ISSUING), held instruction, 2-bit counters, direct-mapped cache | hit, miss, fill, issue, train, rollback | MemoryController (request/ready), Decoder (issue), full signals |
| `Decoder.v`, `Dispatcher.v` | none | decode, find operands, choose the buffer | RegisterFile, ReorderBuffer (operands), both buffers |
| `RegisterFile.v` | value, busy, rob_tag per register | write back, free, take, rollback | Decoder, ReorderBuffer |
| `ReservationStation.v` | up to 15 waiting operations | insert, hear results, issue one to the ALU, clear | ALU, three broadcasts |
| `ArithmeticLogicUnit.v` | none | 31 operations | broadcast to ReservationStation, LoadStoreBuffer, ReorderBuffer |
| `LoadStoreBuffer.v` | circular queue, FSM (IDLE, LOAD, STORE), count of committed accesses, notice flag | insert, hear, commit, notice, issue, finish, rollback | MemoryController, ReorderBuffer, broadcast |
| `ReorderBuffer.v` | circular queue (slots 1 to 15, one kept free: 14 usable), rollback FSM | insert, hear results, commit, release an I/O load, roll back | everyone |
| `MemoryController.v` | one remembered request of each kind, FSM (IDLE, BUSY, FINISH), byte counter, pins | start, move a byte, finish, rollback | RAM and host through the pins |
| `cpu.v` | none | wiring, `inner_rst = rst_in \| ~rdy_in` | |
| `riscv_top.v` | none | give the memory bus to the processor or to the host | CPU pins, `hci.v`, RAM |
| `hci.v` | command FSM, counters, address, error code, input FIFO | ten commands a byte at a time; I/O reads and writes of the program; stop | RAM, UART, CPU pins |
| `common/fifo`, `common/uart` | array with two pointers and flags; sender, receiver and baud clock FSMs | read, write; send and receive a byte | the serial line |
| `ctrl/controller.cpp`, `listener.h` | image, input, answers | greet, upload, run, peek, print | the serial port |
| `tools/sequent_execute.cpp` | pc, registers, memory | one instruction after the other | |
| `tools/ws_cpu` | ten buffers, each with a copy of the cycle before | ten stages in a fixed order | |
| `sys/`, `sim/`, `testcase/`, scripts | runtime, test benches, programs | | |

What is hard in it:

* **Results meet insertions.** A result is announced for one cycle, on up to three
  broadcasts; the instruction that needs it may be on its way into a buffer just then.
* **Tags are reused** as soon as an instruction commits or is rolled back, while the ALU,
  the memory and the broadcasts may still hold something for the old owner.
* **Rollback** takes three cycles (commit, decision, rollback) in which everything else
  goes on, and each module undoes a different part: the load store buffer keeps what was
  committed, the controller keeps stores, the register file its values.
* **Input is consumed by reading**: a load from the I/O port must not be speculative, and
  the notice, mark, release and commit signals that ensure this are a cycle apart each.
* **Full signals and operand values are a cycle old** when they are used, in the core, in
  the FIFOs, in `hci.v` and in `ws_cpu`.
* **The pins** show a byte only for a cycle or two, and the host acts on edges of them;
  a break or a reset leaves them as they are while the host has the bus.
* **Two streams of bytes share one line in each direction**: commands and input, answers
  and output, told apart only by when they come.
* **The ends of the line have clocks of their own.**

What makes each component correct is stated in the properties below; the hazards that
lead to them are listed one by one in `PROJECT.json`.

## Modules

A step of every model of hardware is one clock cycle. Verilog's nonblocking assignments
are primed variables: each component's `Clock` operator reads the unprimed outputs of the
others, and the composition is the conjunction of all `Clock`s. Within a component the
cases of the `always` block are disjuncts with its conditions as guards.

| Module | Models |
|---|---|
| `Rv32`, `Header`, `Words` | names of instructions and word arithmetic; capacities of `header.v`; bytes and sign extension |
| `ArithmeticLogicUnit` | the combinational `case` of the ALU |
| `Decoder` | decoder and dispatcher |
| `ReorderBuffer`, `RegisterFile`, `ReservationStation`, `LoadStoreBuffer`, `Fetcher` | one module each, with the same names for state and wires |
| `MemoryPort` | the promise of the memory controller: one fetch and one access remembered, each finished after any time, forgotten on rollback unless it is a store |
| `MemoryController` | the controller byte by byte, its pins, the RAM's address register, the host's edge detection |
| `Core` | `cpu.v` without the controller; the invariants of the scheduling |
| `Cpu` | `Core` with `MemoryPort`: any memory timing |
| `CpuBytes` | `Core` with `MemoryController`: the actual timing |
| `RiscvTop` | `CpuBytes` and a host that take turns on the bus: break, reset, upload, run |
| `SequentExecute` | the machine of `tools/sequent_execute.cpp`, one instruction a step |
| `AluCheck` | the ALU beside the simulator's `Execute` |
| `Decoding`, `Assembly` | the bits of instruction words as `Decoder.v`, `sequent_execute.cpp` and `translate.hpp` read them; lines of assembly and the words they become |
| `ByteQueue`, `Fifo` | a FIFO as its user sees it; the array, pointers and flags of `fifo.v` |
| `Uart` | sender and receiver bit by bit, each on a clock of its own |
| `Hci` | `hci.v` with its FIFOs and the RAM it writes |
| `SerialLink` | the UART byte by byte, between `Hci` and the host machine |
| `HciCommands` | `hci.v` against the meaning of whole packets |
| `HostProgram`, `RemoteRun` | `controller.cpp` with `listener.h`; host, line, `hci.v` and a program together |
| `Session` | what they promise together |
| `WsQueue`, `WsExecute`, `WsCpu` | queue, operations and the ten stages of `tools/ws_cpu` |
| `MC*` | programs, packets and inputs of the instances |
| `WordProofs` | lemmas on remainders, sums over bits and bytes, words and memory |
| `CoreProofs` | the invariant of the core, kept by a cycle with any memory |
| `CpuProofs`, `RiscvTopProofs`, `WsCpuProofs`, `AluProofs`, `FifoProofs`, `DecodingProofs` | theorems about the module they are named after (`AluProofs`: about `AluCheck`) |

The refinements:

    CpuBytes  --ImplementsCpu-->  Cpu  --ExecutesSequentially-->  SequentExecute
    WsCpu     --Sequential----->  SequentExecute
    RemoteRun --ImplementsSession-->  Session
    Fifo      --ImplementsQueue-->  ByteQueue, which Hci uses for its three FIFOs

`ImplementsCpu` maps the controller's registers to "a request is pending" and takes the
RAM as of the last finished access. `ExecutesSequentially` maps the pipeline to the
programmer's view: the pc after the last commit (`committed_pc`, a history variable), the
registers with the commit that is on its way to them, the RAM with every committed store
applied, and the number of inputs taken, less the one whose load has not committed
(`input_taken`). A step of the sequential machine happens in the cycle of a commit; every
other cycle is a stutter. `Sequential` does the same for the buffers of `ws_cpu`: the
value a commit has put in `up_reg_v_ex` counts as written, and so does every committed
store that still waits in the load store buffer. `ImplementsSession` hides the serial
line: the image appears at once when the program starts, a byte read is the next of the
input, a byte written will be printed in its turn, and the host returns only when all of
them are.

Abstractions, stated in the modules as well:

* In the pipelines an instruction is a record of its fields; the bits are in `Decoding`.
  Every format has all register fields, as in the hardware, which looks up the register
  named by the bits even where they are part of an immediate. In `Decoding` a word is the
  set of the places of its one bits, so that 32 bits cost nothing.
* The payload of a pulse that is low, and the contents of a slot that is not in use, are
  a fixed value: nothing reads them, except `is_io_load` of the reorder buffer, which is
  kept for that reason.
* Programs are apart from the data memory, so a store never changes an instruction.
* In the processor's instances input is the position in the input modulo `IO_PERIOD`,
  outputs are counted modulo `IO_PERIOD`, and there is always input: a lost, repeated or
  reordered access shows. All I/O addresses are the data port. The simulator of the
  repository has no I/O; `SequentExecute` gives these addresses the use `sys/io.h` makes
  of them.
* In `Hci` a byte has `BASE` values, an address two banks of `BASE * BASE`, and memory is
  the cells written so far. An empty input FIFO shows any byte.
* In `RemoteRun` the processor is its accesses to the port, at the distance in time that
  `MemoryController.v` keeps between them. A read of the host for the greeting may time
  out; the two of a peek do not.

## Runs

| Run | Question | Result |
|---|---|---|
| `cpu_sequential` | Does the pipeline execute programs as the sequential machine, and is its bookkeeping right on the way? | holds, 110,901 states |
| `cpu_bytes` | Does the byte-wise controller keep its promise, and do commits go on? | holds, unless a notice is stale; 15,512 states |
| `riscv_top` | Breaks, resets and uploads in any cycle of a transfer | hold, 52,628 states |
| `alu_computes` | ALU against simulator, all operands | holds, 118,784 states |
| `assembly` | Three decoders against the assembler | holds, 18,800 states |
| `ws_pipeline` | Does `ws_cpu` execute programs as the sequential machine, lose nothing and go on? | holds, 620,608 states |
| `fifo` | Is the array a queue? | holds, 2,268 states |
| `uart` | Is a byte sent a byte received, with two clocks and a noisy line? | holds, 1.35 million states |
| `hci_commands` | Do packets mean what their formats say? | holds, 370,596 states |
| `remote_run` | Is a run from the host a session, and does it end? | holds, unless a byte is not announced; 370,802 states |
| `cpu_bytes_hang` | Do commits go on for ever, without exception? | **no** |
| `remote_hang` | Does the host come back from every run? | **no** |

The properties, each aimed at a hazard:

* `ExecutesSequentially`, `ImplementsCpu`, `Sequential`, `ImplementsQueue`,
  `ImplementsSession`: the refinements.
* `OperandsStillToCome`: a waiting instruction waits for an older one that has not
  announced its result for the last time. Together with `OneWorkerEach` this is why no
  instruction waits for ever or takes another's result. Both have a form for the core and
  one for `ws_cpu`, where a result is broadcast once, after its commit.
* `RegistersNameYoungest`: the renaming table agrees with the reorder buffer.
* `OneWorkerEach`: exactly one place of the pipeline works on each unfinished tag, none on
  a finished one; this makes the reuse of tags safe.
* `IssueFits`, `NothingLost`: the full signals, although a cycle old, are enough.
* `CommittedAccessesFirst`: the counter of committed accesses names a prefix of the queue,
  and the slot computed for a commit is the right one, also in the cycle of a rollback.
  `AccessesInProgramOrder` is its counterpart in `ws_cpu`.
* `NoInputTakenBack`: no rollback finds an I/O load under way or released.
* `FetchesAgree`, `AccessesAgree`, `RequestsAgree`: requester and controller never
  disagree on whether a request is under way, so no answer is taken for another's;
  `RequestsAgree` with breaks and resets in every cycle of a byte-wise transfer.
* `NoInheritedMark`: a slot is reused without the I/O mark of its last owner.
* `AccessesHaveOwners`: while the program runs, RAM and port change only by the access
  under way. The one exception is what was on the pins as the host took the bus: it stays
  there, and is done once more as the host gives the bus back.
* `ProgressUnlessStale`, `Progress`: the pipelines make progress; that of the core, unless
  the notice flag is stale.
* `AluComputesIsa`, `ProcessorReadsLine`, `SimulatorsReadLine`, `ImmediatesAgree`: the
  pure algorithms against each other and against a reference.
* `FlagsSafe`: the flags of a FIFO err by at most one element, and on the safe side.
* `ReceivesWhatIsSent`, `NoneLost`, `NoFalseAlarm`: bytes survive clocks that stand in any
  phase and drift; a wrong bit is noticed, and nothing else is called an error.
* `AnswersInOrder`, `PacketsDone`, `NoOverrun`: packets have their effect and answer, at
  the borders of counts, banks and memory; the receiving FIFO, whose full flag is not
  connected, never has to refuse a byte.
* `PeekShowsMemory`: what the host shows is the memory at the program counter.
* `ReturnsUnlessUnannounced`: nothing but the FIFO's flag keeps the host from returning.

### Findings

* **A wrong-path read of the port can hang the CPU** (`cpu_bytes_hang`).
  `current_io_load_has_notice_rob` records that the I/O load at the head of the load store
  buffer has been reported. A rollback that discards the load keeps the flag, and if the
  next access is an I/O load, it is never reported, so never released. No shorter commit
  chain can clear the flag, because nothing behind that load can be issued. The program
  needs a branch that waits for a chain of results long enough for the load behind it to
  reach the head of the queue. `ProgressUnlessStale` states the complement: nothing else
  stops it.
* **The last byte of a run can stay in the transmit FIFO** (`remote_hang`). When an
  element leaves and another enters in one cycle and the first was alone, `fifo.v:95-96`
  says the FIFO is empty. `uart.v:111` starts a transmission by that flag alone, so the
  byte waits for a further one to enter. A program's stop is its last byte: if the byte
  before it ends its transmission in just that cycle, the host waits for ever.
  `ReturnsUnlessUnannounced` states the complement.

Other disagreements met while modelling. Each was seen in the code; the model takes the
code's side, or leaves the case out, as said:

* A pause is a reset: `cpu.v:179` clears the pc and the registers while `rdy_in` is low,
  which the comment in line 24 says freezes them. The models have the code's reset.
* SRA and SRAI shift zeros in (`ArithmeticLogicUnit.v:80,85`: `>>>` of an unsigned wire);
  SLL and SRL do not mask the amount (83-84). `AluCheck` lists them in `Differs`.
* The README's "16-entry Reorder Buffer" has 14 usable entries, since slot 0 is never used
  and one slot stays free.
* In the sequential simulator AUIPC jumps (`sequent_execute.cpp:403-406`) and puts the
  bare immediate in the register, while the ALU adds the pc: here the hardware follows
  RV32I. AUIPC is left out of the programs of the refinements and listed in `Differs`.
* In `ws_cpu`, AUIPC adds the pc of the fetch, which may have moved on (`CPU.cpp:228`);
  the loop that fills in the sign of SRA and SRAI counts the wrong way (872) and sets
  every bit, so the refinement runs them on positive numbers; and the registers are not
  shown after the last commit before the end (1027, against `cpu_run.py:95`).
* `0x0ff00513`, which ends a simulation, is also `addi a0, x0, 255` (`translate.hpp:27`):
  `SimulatorsReadLine` leaves that word out for `ws_cpu`.
* `S_CPU_REG_RD_STG1` sends in every cycle and looks at a full flag that is a cycle old
  (`hci.v:440`): a host that does not await its answers can lose a byte. `HciCommands` has
  a host that does, as `controller.cpp` is.
* Two blanks are sent before the input (`listener.h:80`) and the input FIFO drops what
  does not fit (`hci.v:406`): the end of an input of 1023 bytes or more is lost.
  The instances give one that fits.
* A read of a peek that times out (`controller.cpp:23`) leaves its answer on the line,
  where it is taken for output, and a zero in it for the end of the program.
* With even parity the sender sends the lowest bit of `~tx_data` (`uart_tx.v:115`), not the
  parity. `hci.v:190` chooses odd parity, and so does the instance.
* In `sys/io.h`, `inl` adds the minus sign to the number as a digit (30), and reads on over
  the end of an input without a newline (29-33) into what an empty FIFO shows
  (`fifo.v:105`); `clock` reads a running counter byte by byte (90), so that a carry in
  between makes `sleep` end early.

### Bounds

| Bound | Value | Why it is enough |
|---|---|---|
| `XLEN` in `MCCpu` | 2 bits, one byte | four instructions, four addresses of which one is the port; a program wraps round, so that every program is a loop |
| `XLEN` in `MCCpuBytes`, `MCRiscvTop` | 4 bits, four bytes of one bit | a word access has as many bytes as in the code; accesses overlap by every offset; the port is at 15, with loops of at most 12 instructions |
| `XLEN` in `AluCheck` | 4 bits | every pair of operands and immediates, both sides of the sign boundary, amounts at and over the width |
| `XLEN` in `MCWsCpu` | 4 bits, four bytes of one bit | as for the processor; eight instructions |
| registers | 2 besides x0 | a dependence and an unrelated register |
| `ROB_CAPACITY` | 5 to 8 (3 to 6 usable slots) | fills up, wraps round, and holds a mispredicted branch with dependants behind it; the hang needs 8 |
| `LSB_CAPACITY` | 4 (3 usable) | fills up, with committed and waiting accesses at once |
| `RS_CAPACITY` | 2 (4 for the hang) | fills up |
| `BP_CAPACITY`, `ICACHE_CAPACITY` | 1 to 8 | one shared counter and a cache with conflicts in `MCCpu`; loops that fit the cache in `MCCpuBytes` |
| `IO_PERIOD` | 2 | a repeated or lost input changes the value read |
| `MAXN` | 4 (3 usable) | every queue of `ws_cpu` fills up and wraps |
| programs | `MCPrograms` | after an instruction that changes a register, every pair of seven kinds of instruction, then one that uses both registers or branches back; seven more that overfill each buffer and race results |
| programs of `ws_cpu` | some 1500 | every triple of nine instructions, one for each way to issue and more; every operation on values of both signs |
| `Uploads` | both values of one cell | a cell of the word that the program stores |
| `MAX_BITS`, `Registers` in `Assembly` | 2, {10, 21} | every bit of an immediate alone and with every other; two registers whose bits are complements. The theorems cover every line |
| `DEPTH` in `Fifo` | 4 | fills up and wraps; the theorems cover every depth |
| `DATA_BITS`, `OVERSAMPLE`, `CLKS` | 3, 8, 2 | first, middle and last bit; a bit has a middle that two clocks can miss; 16 cycles a bit |
| `MAX_SLIP` | 2 cycles | each way within a byte |
| `BASE` | 12 | the ten opcodes and more; two bytes to a count, two and a bank to an address |
| FIFO depths, `MAX_PACKETS` | 4 to 8, 3 | FIFOs fill up; a packet may find what two others left |
| `BYTE_TIME`, `SEND_TIME` | 4 and 2, 14 and 12 | arrival is as quick as `hci.v` bears, or sending so slow that the program fills the FIFO |
| `MAX_IO`, `Outputs` | 5, {0, 3, 8} | the transmit FIFO fills up; the order of two bytes shows; a zero is dropped |
| peeks | 1 | a peek leaves nothing behind |

Counters of the design wrap by themselves; no state constraint is used. The processor
never stops, and deadlock is checked in its instances, in `Fifo`, `Uart` and `Assembly`. `CHECK_DEADLOCK
FALSE` stands where the system may stop: `ws_cpu` exits at the end of a program; a session
ends; and after `OP_DISABLE`, and after the last packet, `hci.v` and its host wait.

No program of the instances puts an instruction where the four bytes of a fetch, also of a
speculative one, would touch the I/O port: such a fetch would consume input.

### Fairness

`FairSpec` of `CpuBytes` assumes that the clock runs (`WF_vars(Next)`), and that the host
keeps draining its output buffer (`SF_vars(Run)`, where `Run` is a cycle in which the
buffer is not full): the transmit FIFO empties at the baud rate whatever the CPU does
(`common/uart/uart.v:131-143`). Within the CPU nothing is assumed: every cycle is a
function of the state. A memory of any timing (`Cpu`) is used for safety only.

`Spec` of `WsCpu` has `WF_vars(Next)`: the loop of `run` never waits.

`FairSpec` of `RemoteRun` assumes that the host program goes on when it can
(`WF_vars(HostStep)`: its reads block or poll, `controller.cpp:146`), that the clock of the
board runs, that a byte on the line arrives, and that a program that may stop again and
again does so at last (strong fairness, for `io_full` may put it off). That the sender ends
a byte is not assumed: it has at most `SEND_TIME` cycles.

## Proofs

The theorems hold for every value of the constants that satisfies the named assumptions:

| Assumption | Says |
|---|---|
| `WordAssumption` (`Rv32`) | bits and registers are positive in number, and a byte divides a word |
| `PowerAssumption` (`Rv32`) | powers of two up to the width of a word are positive and multiply; true of any width, but the provers know no law of powers |
| `CapacityAssumption` (`Header`) | three slots in the reorder buffer, two in the load store buffer, one elsewhere |
| `ProgramsAssumption` (`Core`), `UploadsAssumption` (`RiscvTop`), `ProgramAssumption` (`WsCpu`) | programs are made of instructions, uploads of bytes |
| `GoalAssumption`, `RestAssumption` (`CpuBytes`) | a fetch has at least a byte and a word two; address 0, which the pins show at rest, is not the port |
| `QueueAssumption` (`WsQueue`), `DepthAssumption` (`Fifo`) | two slots; more than two |
| `AssemblyAssumption` (`Assembly`) | registers are numbers of five bits, the number of bits set at once a number |

### The core, with any memory

The properties of the scheduling are not inductive; each is a consequence of how the
buffers, the signals between them and the ones a cycle old fit together. `CoreProofs`
states this as

    CoreInv == CoreType /\ IssueInv /\ SchedInv /\ KindsKnown

* `CoreType`: the types.
* `IssueInv`: queue pointers stay in their ranges, and the fetcher is IDLE in the cycle in
  which its instruction reaches the buffers. So one instruction at most is on the way, the
  full signals were read in a cycle in which nothing was inserted, and since then the
  queues can only have become shorter.
* `SchedInv`: what pulses mean (`Signals`), which tags are in use (`Tags`), that the
  committed accesses are a prefix of the queue (`CommittedFirst`), what a notice, a mark
  and a release say of the load at the head (`Unmarked`, `NoInput`), what a rollback
  leaves (`Cleared`), and, outside the cycle of a rollback, who works on each instruction,
  what each operand waits for and what each register names (`Scheduled`).
* `KindsKnown`: what waits in the load store buffer is a load or a store.

`CoreStart` and `CoreStep` prove it for cycles in which the memory may answer anything at
all, even what was not asked. `CoreStep` splits into reset, rollback and work; for the work
there is a lemma for each part of the invariant (`OwnedStep`, `AloneStep`, `WorkedStep`,
`OperandsInRsStep`, `NamesStep`, ...), which rest on lemmas that say once what a cycle
does to each buffer (`RobMoves`, `StationMoves`, `QueueMoves`). The lemmas named `...Term`
give the properties. Two modules put a memory beside it:

* `CpuProofs` adds to `CoreInv` that requester and memory agree on the one fetch and the
  one access under way (`FetchAgreed`, `AccessAgreed`), and proves for any timing and
  pauses in any cycle: `TypeOK`, `IssueFits`, `FetchesAgree`, `AccessesAgree`,
  `OperandsStillToCome`, `RegistersNameYoungest`, `OneWorkerEach`,
  `CommittedAccessesFirst`, `NoInputTakenBack`, `NoInheritedMark`.
  For cycles without a pause it proves `ExecutesSequentially` as well: see the next section.
* `RiscvTopProofs` has the byte-wise controller instead. `BytesInv` adds that a request
  is in one place, remembered or being served (`OnePlace`), and how far its transfer is
  (`Transfer`). With a host that breaks in, resets and uploads in any cycle it proves
  `TypeOK`, `RequestsAgree`, the scheduling properties, and `AccessesHaveOwners`.

`AccessesAlwaysOwned` has the hypothesis `[]PortAlone`: no fetch, and no load or store
that starts elsewhere, has a byte at the port. This is the program's duty, since the
controller reads byte after byte without a look at the address (`MemoryController.v:190`);
no program of the run `riscv_top` violates it. The theorem says that nothing else is
needed.

`BytesImplementCpu` proves the refinement `ImplementsCpu`. `CpuBytes` is `Cpu` with a
memory that needs many cycles, so the proof has two halves. The core's part of a step is
the same under other names (the lemmas `Same...`). For the memory's part, `MovedInv` says
what the bytes moved so far make of the RAM and the host since the last finished access:
`Written(n)` for the first n bytes of a store, `Taken` for the input of a load and
`mc_buffer` for its bytes, nothing for a fetch, and nothing on the pins at other times
(`PinsAway`). With it, each cycle is one of the cycles of `Cpu`: `OperateWorks`,
`FinishServes` and `RollbackServes` say which one, for each state of the controller. The
hypothesis is `[]PortBytes`: an access that reaches the port starts there and moves one
byte, and nothing is fetched there. For `Cpu` an access to the port is one transaction,
while the controller takes two inputs for a half word of it, so without the hypothesis the
refinement is false; with it, what `CpuProofs` shows of `Cpu` is a fact about the bytes.
TLC finds `PortBytes` and `MovedInv` in every state of the run `cpu_bytes`.

### The pipeline executes the program

`AlwaysExecutesSequentially` in `CpuProofs` proves the refinement `ExecutesSequentially`:
`Cpu` implements `SequentExecute`, for every program, every size of words, buffers and
caches, and every timing of the memory. The scheduling invariant says who works on an
instruction and whom it waits for, not that what it gets is right. The second invariant,
`Inv`, does:

* *The instructions are the program's.* The cache (`CacheRight`), the fetcher and the
  answer to it (`FetchRight`), what is issued (`IssueRight`) and the reorder buffer
  (`Held`) hold the instruction of their pc. They follow each other where they were guessed
  to lead, from the pc of the last commit to that of the fetcher (`Chained`), and a rollback
  restarts at the former (`RestartRight`).
* *The operands are right.* `Has(t, r, v)`: v is the result of the youngest instruction
  before t that writes r, or, without one, what the programmer sees in r. An operand that
  has come is so, and one that has not waits for just that instruction (`OperandOk`), in
  the station, the ALU and the load store buffer (`RsRight`, `AluRight`, `LsbRight`). What
  the reorder buffer holds is what the ALU computes of such operands (`DoneRight`).
* *The loads are right.* What a load got (`AnswerRight`, `LoadedRight`) is what the
  programmer sees at its address: no store that precedes it is to commit
  (`NoStoreBefore`), and none that did is still queued (`LoadAlone`). An input that was
  read is on its way to the commit of the oldest instruction (`TakenRight`), whatever
  happens.

The values count only while no rollback is due (`Calm`): after a wrong guess everything
behind it is wrong and is thrown away, and what must outlive it, the committed stores and
the load of an input, is what `CpuInv` has kept apart. The proof has four steps.
`RobWords`, `StationWords`, `QueueWords` and `LsbSaid` say what a cycle does to the values;
`OperandAfter` and the lemmas `...Works` keep the parts of the invariant; `MemAfter`,
`WritesAfter`, `ReadsAfter` and `CommitWrites` say that what the programmer sees changes
with commits only, although a store then still goes through the queue, the request and the
memory (`StoresFollow`); and `ComputeStep`, `LoadStep` and `StoreStep` show the commit to be
the step of the sequential machine (`CommitStep`), with `DoneComputes` for the ALU against
`Execute`. Every other cycle leaves the programmer's view alone: `QuietWork`, `AbortQuiet`
for the cycle before a rollback, `RollbackQuiet` for that of it.

The hypothesis is `[]Plain`. No instruction commits on which the two machines are known to
differ: NOP (any undefined word), AUIPC, SRA, SRAI, and a shift by a register whose value
is not below the width of a word (see Findings). And the fetcher's pc is aligned, for the
cache does not look at the two lowest bits of an address. Instructions that are fetched
and thrown away may be anything. TLC finds `Plain` and `Inv` in all 110,901 states of the
run `cpu_sequential`, whose programs therefore are not a special case. The theorem is about
`Spec`, without pauses: a pause is a reset, after which the registers are those of the
start and the memory is not.

`BytesExecuteSequentially` puts this together with `BytesImplementCpu`: the processor with
its byte-wise controller, the RAM and the host executes the program as the sequential
machine does, where accesses to the port are of single bytes (`PortBytes`). Its statement
reads `settled_ram` and its companions, the RAM and the counts of the host as of the last
answer, for the memory, and `AccessRequest` for the access under way. Most of its proof
says that `CpuProofs`, instantiated for the bytes (`AnyMemory`), is about the processor
that `CpuBytes` instantiates (`AnyTiming`), component by component. On the instance of
`cpu_bytes` TLC finds both hypotheses in all 15,512 states, and the conclusion true.

### The simulator ws_cpu

The properties speak of the top of the loop only, while the loop makes nine calls, most
of which move what an earlier one prepared. `WsInv` is stated for every point between two
calls, over the *view*: the buffers together with what is prepared for them (`RobSeen`,
`LsbSeen`, `RsSeen`, `RegSeen`). A call that only puts things where they belong changes
nothing in it. The invariant says what is prepared at which point and that the copies of
the last cycle agree with the buffers as far as they are read (`Prepared`, `Copies`), what
was committed and told last (`LastOut`), who works on what (`Owned`, `Alone`, `Worked`),
what an operand waits for (`OperandsInRs`, `OperandsInLsb`), what registers name (`Names`),
and how accesses are ordered (`InOrder`). There is one lemma for each call (`RobTurn` to
`CommitTurn`), which uses those of its parts (`RobStep`, `IssueStep`, `CommitJumpStep`,
...). At the top of the loop the view is the buffers themselves (`TopView`), and `Top...`
give `OneWorkerEach`, `OperandsStillToCome`, `RegistersNameYoungest` and
`AccessesInProgramOrder`; `NothingLost` follows from `Prepared`, `TypeOK` from `WsTypes`.

### Pure parts

* `AluAlwaysComputesIsa`: for words of any size. `ValuesAgree` and `Branches` go through
  the operations; the shifts and the sum of a target are the cases that need arithmetic.
* `DecodersAgree`: the lemmas `AgreeI` to `AgreeJ` show for every word, not only for
  assembled ones, that the three decoders take the same immediate from it, as an equality
  of sets of places; the sums of `translate.hpp` become unions because the summands have
  no place in common.
* `ProcessorAlwaysReadsLine`, `SimulatorsAlwaysReadLine`: the invariant `LineInv`, kept by
  `LinesStay`, says that the word is the assembled line. `WordPlaces`, `FieldPlaces` and
  `PutPlaces` say bit by bit where the opcode, the registers and the immediate lie in the
  word; `FieldsRead` and `ImmediateRead`, that a decoder finds them there; `OpRead`,
  `TypeRead` and `TypesDiffer`, that no other operation has the same code. The simulators
  take one word, `EndCode`, for the end of the program: `PipelinedReadsLine` is about every
  other.
* `FlagsAreSafe`: the invariant is `TypeOK /\ FlagsSafe`, and `CountClock` says how many
  elements there are after a cycle.
* `ArrayIsQueue`: `ItemsSeq` shows that what lies between the pointers is a sequence,
  `AfterRead` and `ClockImplements` that a cycle of the array is a cycle of the queue.
* Words are sums over sets of bits and bytes. `WordProofs` proves that such a sum is
  defined by its least element (`SumsDefined`), by induction over a set of indices
  (`InductiveSet`: a set with 0 that is closed under successor), and bounds it.

### Only model-checked

The refinements `Sequential` and `ImplementsSession`. The first needs for `ws_cpu` what
`Inv` is for the processor, at nine points of the loop; the second is about the bytes on
the serial line.
`HciCommands`, `Uart` and `RemoteRun`: their invariants are about positions in
packets and phases of clocks, and no proof is begun. Liveness (`Progress`,
`ProgressUnlessStale`, `ReturnsUnlessUnannounced`) is out of the prover's
reach. The assumptions on `Hci`, `SerialLink`, `Uart` and `HostProgram` are used by
TLC only.

## Not modelled

* Stores into code: the instruction cache is not invalidated, and programs are apart from
  data; a fetch whose bytes touch the I/O port.
* `sys/` (the runtime of the programs that run on the CPU), `rom.s`, `memory.ld`.
* `sim/`, the build and test scripts: they start other programs.
* The cycle counter of `hci.v` and the parity bit of its error code; a reset within a byte
  on the line; two stop bits, which the four-bit tick counter of the sender cannot count.
* `verify_ram`, which nothing calls, opening files and ports.
* Loading of a program by the simulators, printing, and undefined words.
* Clock generation, pin wiring and FPGA primitives.

Worth doing next: `Sequential` from `WsInv`, with the values as in `CpuProofs`; the packets
of `HciCommands`.

## Running

    tlc -config CpuSequential.cfg MCCpu.tla
    tlapm CpuProofs.tla

All proofs take about an hour from nothing, of which `RiscvTopProofs` and `CpuProofs` take
20 to 25 minutes each and `CoreProofs` 10.

Each configuration is named after its run, and its module stands in `PROJECT.json`. A
definition whose comment starts with "Mutant of" is a plausible error in the definition
after it; with it in place the property that `PROJECT.json` names fails.
