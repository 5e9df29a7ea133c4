------------------------------ MODULE SerialLink ------------------------------
(***************************************************************************)
(* The serial line between the host machine and hci.v, a byte at a time:   *)
(* uart_rx and uart_tx at the end of the FPGA, two streams of bytes at the *)
(* end of the host.  Between two arrivals there are at least BYTE_TIME     *)
(* cycles, and a byte is sent in at most SEND_TIME, which is less: both    *)
(* ends use one rate, and what is sent is sent without a pause.            *)
(***************************************************************************)
EXTENDS Hci

CONSTANTS BYTE_TIME, SEND_TIME

ASSUME LinkAssumption == /\ BYTE_TIME \in Nat /\ SEND_TIME \in Nat
                         /\ SEND_TIME + 2 <= BYTE_TIME

VARIABLES to_hci, from_hci,   \* on their way: written by the host, not yet read by it
          rx_time,            \* cycles since a byte arrived
          tx_time,            \* cycles that uart_tx has been at work on the front of tx, or 0
          tx_done_tick

linkVars == <<to_hci, from_hci, rx_time, tx_time, tx_done_tick>>

Arrives(bytes) ==
  \/ /\ bytes = <<>>
     /\ rx_time' = IF rx_time < BYTE_TIME THEN rx_time + 1 ELSE BYTE_TIME
     /\ UNCHANGED to_hci
  \/ /\ to_hci # <<>> /\ rx_time = BYTE_TIME
     /\ bytes = <<Head(to_hci)>>
     /\ to_hci' = Tail(to_hci)
     /\ rx_time' = 0

\* uart_tx latches the front of the FIFO, and has it removed in the cycle after it has been sent:
\* that may be the cycle in which another byte enters.
StartSending == /\ tx_time = 0 /\ ~tx_done_tick /\ ~tx.empty
                /\ tx_time' = 1 /\ tx_done_tick' = FALSE
                /\ UNCHANGED from_hci
KeepSending  == /\ tx_time \in 1 .. SEND_TIME - 1
                /\ tx_time' = tx_time + 1 /\ tx_done_tick' = FALSE
                /\ UNCHANGED from_hci
EndSending   == /\ tx_time > 0
                /\ tx_time' = 0 /\ tx_done_tick' = TRUE
                /\ from_hci' = Append(from_hci, Head(tx.items))
NoSending    == /\ tx_time = 0
                /\ tx_done_tick \/ tx.empty
                /\ tx_done_tick' = FALSE
                /\ UNCHANGED <<tx_time, from_hci>>

\* What may arrive in a cycle.
Incoming == {<<>>} \cup (IF to_hci = <<>> THEN {} ELSE {<<Head(to_hci)>>})

Cycle(bytes, pin) == /\ Arrives(bytes)
                     /\ Clock([arrives |-> bytes, sent |-> tx_done_tick], pin)
                     /\ StartSending \/ KeepSending \/ EndSending \/ NoSending

LinkInit == /\ HciInit
            /\ to_hci = <<>> /\ from_hci = <<>>
            /\ rx_time = BYTE_TIME
            /\ tx_time = 0 /\ tx_done_tick = FALSE

\* Bytes that hci.v has sent and the host has not received.
Unsent == (IF tx_done_tick THEN Tail(tx.items) ELSE tx.items) \o q_tx

\* Nothing is on the line, and hci.v waits for a command.
Quiet == /\ to_hci = <<>> /\ rx.items = <<>> /\ Unsent = <<>>
         /\ q_state \in {"S_DECODE", "S_DISABLED", "S_DISABLE"}
=============================================================================
