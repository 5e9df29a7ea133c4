------------------------------ MODULE RemoteRun -------------------------------
(***************************************************************************)
(* A program run from the host: controller.cpp, the serial line, hci.v     *)
(* and, behind riscv_top.v's multiplexer, a program that reads and writes  *)
(* the I/O addresses as MemoryController.v does for it: it looks at        *)
(* io_buffer_full, has the access on the pins for one cycle after that,    *)
(* and looks again no sooner than IO_GAP cycles later.                     *)
(***************************************************************************)
EXTENDS HostProgram

CONSTANTS Outputs,    \* bytes the program may write
          MAX_IO      \* bound: reads and writes of the program

IO_GAP == 3

VARIABLES pin,        \* the CPU's pins, if they are at an I/O address
          pin_time,   \* cycles until the next access may begin
          reading,    \* the byte read arrives in this cycle
          done,       \* accesses so far
          heard,      \* what the program has read
          wrote,      \* history: what it has written, but for zeros
          stopped

programVars == <<pin, pin_time, reading, done, heard, wrote, stopped>>
vars        == <<hciVars, linkVars, hostVars, programVars>>

Access(wr, sel, din) == /\ pin' = [en |-> TRUE, wr |-> wr, sel |-> sel, din |-> din]
                        /\ pin_time' = IO_GAP

NoAccess == /\ pin' = NoPin
            /\ pin_time' = IF pin_time > 0 THEN pin_time - 1 ELSE 0
            /\ UNCHANGED <<done, stopped>>

MayAccess == ~active /\ ~stopped /\ pin_time = 0

ProgramReads  == MayAccess /\ done < MAX_IO
                 /\ Access(FALSE, 0, 0)
                 /\ done' = done + 1 /\ UNCHANGED stopped
\* Mutant of ProgramWrites: the access is begun without a look at io_buffer_full.
ProgramWritesBlind == MayAccess /\ done < MAX_IO
                      /\ \E byte \in Outputs : Access(TRUE, 0, byte)
                      /\ done' = done + 1 /\ UNCHANGED stopped

ProgramWrites == MayAccess /\ done < MAX_IO /\ ~io_full
                 /\ \E byte \in Outputs : Access(TRUE, 0, byte)
                 /\ done' = done + 1 /\ UNCHANGED stopped
\* Mutant of ProgramStops: the same.
ProgramStopsBlind == MayAccess
                     /\ Access(TRUE, 4, 0)
                     /\ stopped' = TRUE /\ UNCHANGED done

ProgramStops  == MayAccess /\ ~io_full
                 /\ Access(TRUE, 4, 0)
                 /\ stopped' = TRUE /\ UNCHANGED done

Hears == /\ reading' = (pin.en /\ ~pin.wr)
         /\ heard' = IF reading THEN Append(heard, q_io_dout) ELSE heard
         /\ wrote' = IF pin.en /\ pin.wr /\ pin.sel = 0 /\ pin.din # 0 THEN Append(wrote, pin.din)
                                                                     ELSE wrote

Program == /\ Hears
           /\ ProgramReads \/ ProgramWrites \/ ProgramStops \/ NoAccess

Board(bytes) == /\ Cycle(bytes, pin)
                /\ Program
                /\ UNCHANGED hostVars

HostStep == Host /\ UNCHANGED <<hciVars, rx_time, tx_time, tx_done_tick, programVars>>

Init == /\ LinkInit
        /\ HostInit
        /\ pin = NoPin /\ pin_time = 0 /\ reading = FALSE
        /\ done = 0 /\ heard = <<>> /\ wrote = <<>> /\ stopped = FALSE

Next == \/ HostStep
        \/ \E bytes \in Incoming : Board(bytes)

Spec == Init /\ [][Next]_vars

(***************************************************************************)
(* Fairness.  The clock and the host go on; a byte on the line arrives; a  *)
(* program that may stop does not run for ever.                            *)
(***************************************************************************)
FairSpec == /\ Spec
            /\ WF_vars(HostStep)
            /\ WF_vars(Board(<<>>))
            /\ WF_vars(\E bytes \in Incoming \ {<<>>} : Board(bytes))
            /\ SF_vars(Board(<<>>) /\ stopped' # stopped)

(***************************************************************************)
(* The session that a run amounts to.                                      *)
(***************************************************************************)
Phase == IF at = "returned" THEN "returned"
         ELSE IF stopped /\ ~(pin.en /\ pin.sel = 4) THEN "stopped"
         ELSE IF active THEN "uploading" ELSE "running"

\* The uploaded image fills whole blocks.
Image == [a \in 0 .. Blocks(RAM_BLK, Len(image)) * RAM_BLK - 1 |->
            IF a < Len(image) THEN image[a + 1] ELSE 0]

Input == IF input = <<>> THEN <<>> ELSE Blanks \o input

TheSession == INSTANCE Session WITH
  at    <- Phase,
  ram   <- IF Phase = "uploading" THEN <<>> ELSE ram,
  heard <- IF reading THEN Append(heard, q_io_dout) ELSE heard

\* However the bytes of the two directions, the commands and the program's accesses overlap, a run
\* is a session: the image is in place and the input waiting when the program starts, and no byte
\* of either direction is lost, repeated, reordered or taken for one of the other kind.
ImplementsSession == TheSession!Spec

\* The memory shown for command p is the memory at the program counter.
PeekShowsMemory ==
  at = "command" /\ recv # <<>> =>
    LET pc == DBGREG[1] + BASE * DBGREG[2] + BASE * BASE * DBGREG[3]
    IN \A i \in 1 .. PEEK : recv[i] = Cell((pc + i - 1) % (2 * BASE * BASE))

\* The host comes back from every run, or it waits for a byte that is in the transmit FIFO and that
\* the FIFO's flag does not announce.
ReturnsUnlessUnannounced ==
  <>(at \in {"returned", "quit", "failed"}) \/ <>[](tx.empty /\ tx.items # <<>>)

\* "CPU returned with running time" (controller.cpp:151): the host comes back from every run.
Returns == <>(at \in {"returned", "quit", "failed"})
=============================================================================
