------------------------------- MODULE RiscvTop --------------------------------
(***************************************************************************)
(* riscv_top.v: the processor and the host take turns on the memory bus.   *)
(* The host has it while hci.v is active, and the processor is in reset    *)
(* then; its pins are not (MemoryController.v:75-86).                      *)
(*                                                                         *)
(* The commands of hci.v are taken as they come in Hci, seen from the bus: *)
(* it becomes active by a break or a reset of the board, and idle by a     *)
(* run.                                                                    *)
(***************************************************************************)
EXTENDS CpuBytes

CONSTANT Uploads       \* what the host may write

ASSUME UploadsAssumption == Uploads \subseteq [a : Word, din : Byte]

VARIABLES
  active,              \* hci_active
  left_over            \* history: the pins are as the processor left them when the host came

topVars == <<vars, active, left_over>>

pins == <<mc_rw, mc_address, mc_data>>

KeepsPins == left_over' = (left_over /\ pins' = pins)

RunProgram ==
  /\ ~active
  /\ \E io_buffer_full \in BOOLEAN : Cycle(FALSE, io_buffer_full, Controller!CpuHasBus)
  /\ UNCHANGED active /\ KeepsPins

\* OP_DBG_BRK: the command is taken in this cycle, unless an access of the program comes first.
Break ==
  /\ ~active /\ active' = TRUE
  /\ ~Controller!HostActs(Controller!CpuHasBus)
  /\ Cycle(FALSE, FALSE, Controller!CpuHasBus)
  /\ left_over' = TRUE

\* The button: in its first cycle the bus is still the processor's, and hci.v does not see it.
PressReset ==
  /\ ~active /\ active' = TRUE
  /\ Cycle(TRUE, FALSE, [active |-> TRUE, a |-> mc_address, din |-> mc_data,
                         wr |-> mc_rw = "WRITE" /\ ~IsIo(mc_address)])
  /\ left_over' = TRUE

HostBus(wr, a, din) == [active |-> TRUE, wr |-> wr, a |-> a, din |-> din]

HostWrites ==
  /\ active /\ UNCHANGED <<active, left_over>>
  /\ \E u \in Uploads : Cycle(TRUE, FALSE, HostBus(TRUE, u.a, u.din))

HostWaits ==
  /\ active /\ UNCHANGED <<active, left_over>>
  /\ Cycle(TRUE, FALSE, HostBus(FALSE, 0, 0))

\* OP_DBG_RUN.
LetRun ==
  /\ active /\ active' = FALSE /\ UNCHANGED left_over
  /\ Cycle(TRUE, FALSE, HostBus(FALSE, 0, 0))

TopInit == Init /\ active = TRUE /\ left_over = FALSE
TopNext == RunProgram \/ Break \/ PressReset \/ HostWrites \/ HostWaits \/ LetRun
TopSpec == TopInit /\ [][TopNext]_topVars

\* While the program runs, the RAM changes only by a byte of the store under way, and an input is
\* taken only by the load that reads the port, in whichever cycle a break or a reset came before,
\* with one exception: what the processor had on its pins as the host took the bus stays there
\* (MemoryController.v:75-86) and is done again as the host gives the bus back.
AccessesHaveOwners ==
  [][~active =>
       /\ \A a \in Word : ram'[a] # ram[a] =>
            \/ mc_working_on = "STORE" /\ Sub(a, mc_current_address) < mc_goal
            \/ left_over /\ a = mc_address /\ ram'[a] = mc_data
       /\ io_reads' # io_reads \/ io_writes' # io_writes =>
            \/ mc_working_on = (IF mc_rw = "WRITE" THEN "STORE" ELSE "LOAD") /\ IsIo(mc_current_address)
            \/ left_over /\ IsIo(mc_address)]_topVars
=============================================================================
