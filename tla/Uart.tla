--------------------------------- MODULE Uart ---------------------------------
(***************************************************************************)
(* The bits of the serial line: uart_tx.v at one end, uart_rx.v at the     *)
(* other, each with a uart_baud_clk.v of its own.  A step is a clock cycle *)
(* of both ends; when one clock is faster, of that end alone (Step).       *)
(*                                                                         *)
(* A byte is a sequence of DATA_BITS bits, the lowest first.  The four-bit *)
(* tick counters count modulo OVERSAMPLE.  There is one stop bit.          *)
(***************************************************************************)
EXTENDS Integers, Sequences, FiniteSets

CONSTANTS DATA_BITS, PARITY_MODE,   \* 0 = none, 1 = odd, 2 = even
          OVERSAMPLE,               \* BAUD_CLK_OVERSAMPLE_RATE
          CLKS,                     \* CLKS_PER_OVERSAMPLE_TICK
          MAX_SLIP,                 \* cycles by which one end may get ahead within a byte
          NOISE                     \* whether the line may turn one bit of a byte over

ASSUME UartAssumption ==
  /\ {DATA_BITS, OVERSAMPLE, CLKS} \subseteq Nat \ {0} /\ MAX_SLIP \in Nat
  /\ PARITY_MODE \in 0 .. 2 /\ NOISE \in BOOLEAN

VARIABLES
  tx_state, tx_cnt, tx_data, tx_idx, tx_parity, tx_done, tx_clk,           \* uart_tx.v
  tx,                                                                      \* as it arrives
  rx_state, rx_cnt, rx_data, rx_idx, rx_done, rx_parity_err, rx_clk, q_rx, \* uart_rx.v
  parity_err,                                                              \* of uart.v
  sent,        \* history: bytes whose sending began and that have not been received
  slip,        \* history: cycles the sender is ahead in this byte
  turned       \* history: the bit of this byte that the line turns over, 0 for none

txVars  == <<tx_state, tx_cnt, tx_data, tx_idx, tx_parity, tx_done, tx_clk, tx, turned>>
rxVars  == <<rx_state, rx_cnt, rx_data, rx_idx, rx_done, rx_parity_err, rx_clk, q_rx, parity_err>>
vars    == <<txVars, rxVars, sent, slip>>

Bit  == {0, 1}
Byte == [1 .. DATA_BITS -> Bit]

Ones(byte) == Cardinality({i \in 1 .. DATA_BITS : byte[i] = 1})

Odd(byte)  == 1 - (Ones(byte) % 2)       \* ~^data
Even(byte) == Ones(byte) % 2             \* ^data

\* uart_baud_clk.v
BaudTick(cnt) == cnt = CLKS - 1
BaudNext(cnt) == IF BaudTick(cnt) THEN 0 ELSE cnt + 1

(***************************************************************************)
(* uart_tx.v                                                               *)
(***************************************************************************)
TxTicked == IF BaudTick(tx_clk) THEN (tx_cnt + 1) % OVERSAMPLE ELSE tx_cnt
TxBitEnds == BaudTick(tx_clk) /\ tx_cnt = OVERSAMPLE - 1

\* The line shows bit number n of the byte, 0 if it is not a bit of it.
Shows(bit, n) == tx' = IF n # 0 /\ n = turned THEN 1 - bit ELSE bit

\* Mutant of ParityBit: the parity that the receiver calls even.
ParityBit_even(byte) == Even(byte)

\* The even one is the lowest bit of ~tx_data.
ParityBit(byte) == CASE PARITY_MODE = 1 -> Odd(byte)
                     [] PARITY_MODE = 2 -> 1 - byte[1]
                     [] OTHER           -> 0

TxIdle ==
  /\ tx_state = "S_IDLE" /\ Shows(1, 0)
  /\ tx_cnt' = TxTicked /\ tx_done' = FALSE
  /\ UNCHANGED <<tx_state, tx_data, tx_idx, tx_parity, turned>>

\* tx_start, which waits for the done signal to pass.
TxLatch(byte) ==
  /\ tx_state = "S_IDLE" /\ ~tx_done /\ Shows(1, 0)
  /\ tx_state' = "S_START" /\ tx_cnt' = 0
  /\ tx_data' = byte /\ tx_parity' = ParityBit(byte)
  /\ turned' \in IF NOISE THEN 0 .. DATA_BITS + 1 ELSE {0}
  /\ tx_done' = FALSE
  /\ UNCHANGED tx_idx

TxStart ==
  /\ tx_state = "S_START" /\ Shows(0, 0)
  /\ IF TxBitEnds THEN tx_state' = "S_DATA" /\ tx_cnt' = 0 /\ tx_idx' = 0
                  ELSE tx_cnt' = TxTicked /\ UNCHANGED <<tx_state, tx_idx>>
  /\ tx_done' = FALSE
  /\ UNCHANGED <<tx_data, tx_parity, turned>>

TxData ==
  /\ tx_state = "S_DATA" /\ Shows(tx_data[1], tx_idx + 1)
  /\ IF TxBitEnds
       THEN /\ tx_data' = Append(Tail(tx_data), 0)
            /\ tx_idx' = (tx_idx + 1) % DATA_BITS /\ tx_cnt' = 0
            /\ tx_state' = IF tx_idx # DATA_BITS - 1 THEN "S_DATA"
                           ELSE IF PARITY_MODE = 0 THEN "S_STOP" ELSE "S_PARITY"
       ELSE tx_cnt' = TxTicked /\ UNCHANGED <<tx_state, tx_data, tx_idx>>
  /\ tx_done' = FALSE
  /\ UNCHANGED <<tx_parity, turned>>

TxParity ==
  /\ tx_state = "S_PARITY" /\ Shows(tx_parity, DATA_BITS + 1)
  /\ IF TxBitEnds THEN tx_state' = "S_STOP" /\ tx_cnt' = 0
                  ELSE tx_cnt' = TxTicked /\ UNCHANGED tx_state
  /\ tx_done' = FALSE
  /\ UNCHANGED <<tx_data, tx_idx, tx_parity, turned>>

TxStop ==
  /\ tx_state = "S_STOP" /\ Shows(1, 0)
  /\ tx_cnt' = TxTicked
  /\ tx_state' = IF TxBitEnds THEN "S_IDLE" ELSE "S_STOP"
  /\ tx_done' = TxBitEnds
  /\ UNCHANGED <<tx_data, tx_idx, tx_parity, turned>>

TxCycle == /\ TxIdle \/ TxStart \/ TxData \/ TxParity \/ TxStop
           /\ tx_clk' = BaudNext(tx_clk)

(***************************************************************************)
(* uart_rx.v                                                               *)
(***************************************************************************)
RxTicked  == IF BaudTick(rx_clk) THEN (rx_cnt + 1) % OVERSAMPLE ELSE rx_cnt
RxBitEnds == BaudTick(rx_clk) /\ rx_cnt = OVERSAMPLE - 1

\* Mutant of Centered: a whole bit is waited for.
Centered_not == RxBitEnds

Centered == BaudTick(rx_clk) /\ rx_cnt = (OVERSAMPLE - 1) \div 2

RxIdle ==
  /\ rx_state = "S_IDLE"
  /\ IF q_rx = 0 THEN rx_state' = "S_START" /\ rx_cnt' = 0
                 ELSE rx_cnt' = RxTicked /\ UNCHANGED rx_state
  /\ rx_done' = FALSE /\ rx_parity_err' = FALSE
  /\ UNCHANGED <<rx_data, rx_idx>>

RxStart ==
  /\ rx_state = "S_START"
  /\ IF Centered THEN rx_state' = "S_DATA" /\ rx_cnt' = 0 /\ rx_idx' = 0
                 ELSE rx_cnt' = RxTicked /\ UNCHANGED <<rx_state, rx_idx>>
  /\ rx_done' = FALSE /\ rx_parity_err' = FALSE
  /\ UNCHANGED rx_data

RxData ==
  /\ rx_state = "S_DATA"
  /\ IF RxBitEnds
       THEN /\ rx_data' = Append(Tail(rx_data), q_rx)
            /\ rx_cnt' = 0
            /\ IF rx_idx = DATA_BITS - 1
                 THEN /\ rx_state' = IF PARITY_MODE = 0 THEN "S_STOP" ELSE "S_PARITY"
                      /\ UNCHANGED rx_idx
                 ELSE rx_idx' = rx_idx + 1 /\ UNCHANGED rx_state
       ELSE rx_cnt' = RxTicked /\ UNCHANGED <<rx_state, rx_data, rx_idx>>
  /\ rx_done' = FALSE /\ rx_parity_err' = FALSE

\* Mutant of WrongParity: errors are not looked for.
WrongParity_never == FALSE

WrongParity == q_rx # IF PARITY_MODE = 1 THEN Odd(rx_data) ELSE Even(rx_data)

RxParity ==
  /\ rx_state = "S_PARITY"
  /\ IF RxBitEnds THEN rx_state' = "S_STOP" /\ rx_cnt' = 0 /\ rx_parity_err' = WrongParity
                  ELSE rx_cnt' = RxTicked /\ rx_parity_err' = FALSE /\ UNCHANGED rx_state
  /\ rx_done' = FALSE
  /\ UNCHANGED <<rx_data, rx_idx>>

\* The middle of the stop bit, if the data were read in the middle.
RxStop ==
  /\ rx_state = "S_STOP"
  /\ rx_cnt' = RxTicked
  /\ rx_state' = IF RxBitEnds THEN "S_IDLE" ELSE "S_STOP"
  /\ rx_done' = RxBitEnds
  /\ rx_parity_err' = FALSE
  /\ UNCHANGED <<rx_data, rx_idx>>

RxCycle == /\ RxIdle \/ RxStart \/ RxData \/ RxParity \/ RxStop
           /\ rx_clk' = BaudNext(rx_clk)
           /\ q_rx' = tx
           /\ parity_err' = (parity_err \/ rx_parity_err)

(***************************************************************************)
(* Both ends.                                                              *)
(***************************************************************************)
Received == IF rx_done' /\ sent # <<>> THEN Tail(sent) ELSE sent

\* While nothing is sent the ends stand in any phase to each other anyway.
Step(sender, receiver) ==
  /\ sender \/ receiver
  /\ IF sender THEN TxCycle ELSE UNCHANGED txVars
  /\ IF receiver THEN RxCycle ELSE UNCHANGED rxVars
  /\ slip' = slip + (IF sender THEN 1 ELSE 0) - (IF receiver THEN 1 ELSE 0)
  /\ slip' \in -MAX_SLIP .. MAX_SLIP
  /\ sent' = IF receiver THEN Received ELSE sent

StartByte(byte) ==
  /\ TxLatch(byte) /\ tx_clk' = BaudNext(tx_clk)
  /\ RxCycle
  /\ slip' = 0
  /\ sent' = Append(Received, byte)

Init ==
  /\ tx_state = "S_IDLE" /\ rx_state = "S_IDLE"
  /\ tx_cnt = 0 /\ rx_cnt = 0 /\ tx_idx = 0 /\ rx_idx = 0
  /\ tx_data = [i \in 1 .. DATA_BITS |-> 0] /\ rx_data = [i \in 1 .. DATA_BITS |-> 0]
  /\ tx_parity = 0 /\ tx_done = FALSE /\ rx_done = FALSE
  /\ rx_parity_err = FALSE /\ parity_err = FALSE
  /\ tx = 1 /\ q_rx = 1
  /\ tx_clk \in 0 .. CLKS - 1 /\ rx_clk \in 0 .. CLKS - 1
  /\ sent = <<>> /\ slip = 0 /\ turned = 0

Next == \/ \E byte \in Byte : StartByte(byte)
        \/ \E sender, receiver \in BOOLEAN : Step(sender, receiver)

Spec == Init /\ [][Next]_vars

\* A byte that is received is the one being sent, or the parity tells (PARITY_MODE is not 0):
\* whatever the phase of the two clocks, and while they get apart by MAX_SLIP within a byte.
ReceivesWhatIsSent ==
  [][rx_done' /\ ~rx_done => /\ sent # <<>>
                             /\ rx_data' = Head(sent) \/ parity_err']_vars

\* By the time the sender takes its byte out of the queue, the receiver has it: none is missed, and
\* none is read into the next.
NoneLost == tx_done => sent = <<>>

\* "1 = ODD, 2 = EVEN" (uart_tx.v:32, uart_rx.v:32): the ends agree on the parity of every byte, so
\* that an error is reported only of a byte of which the line turned a bit over.
NoFalseAlarm == [][rx_parity_err' /\ ~rx_parity_err => turned # 0]_vars
=============================================================================
