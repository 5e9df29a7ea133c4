---------------------------- MODULE MCHciCommands -----------------------------
(***************************************************************************)
(* Packets for TLC: empty and short ones, one that is longer than a count's *)
(* low byte says and than the transmit FIFO, and addresses at the borders  *)
(* of a byte, of a bank and of the memory.                                 *)
(***************************************************************************)
EXTENDS HciCommands

Op(op)         == [op |-> op]
With(op, data) == [op |-> op, data |-> data]
Long           == [i \in 1 .. BASE + 1 |-> (5 * i) % BASE]

MCDbgreg == <<1, 2, 3, 4>>

MCPackets ==
  {Op(op) : op \in {2, OP_CPU_REG_RD, OP_DBG_BRK, OP_DBG_RUN, OP_QUERY_DBG_BRK,
                    OP_QUERY_ERR_CODE, OP_DISABLE}}
  \cup {With(op, data) : op \in {OP_ECHO, OP_IO_IN}, data \in {<<>>, <<4, 9>>, Long}}
  \cup {[op |-> OP_MEM_WR, addr |-> a, data |-> d] :
           a \in {BASE - 1, 2 * BASE * BASE - 1}, d \in {<<>>, <<10, 5, 3>>}}
  \cup {[op |-> OP_MEM_RD, addr |-> a, count |-> n] :
           a \in {BASE, 2 * BASE * BASE - 1}, n \in {0, 2, BASE + 1}}
=============================================================================
