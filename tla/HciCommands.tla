----------------------------- MODULE HciCommands ------------------------------
(***************************************************************************)
(* hci.v as a command interpreter: a host that sends any packets, with no  *)
(* program running, and what the packets mean, all at once, for a memory,  *)
(* an input queue, an error code and a mode.                               *)
(***************************************************************************)
EXTENDS SerialLink, SequencesExt

CONSTANTS Packets,       \* what the host may send
          MAX_PACKETS    \* bound: packets sent

VARIABLES sent,          \* packets sent
          meant,         \* the interpreter's state after them
          answers        \* what the host has still to receive

vars == <<hciVars, linkVars, sent, meant, answers>>

Low(n)  == n % BASE
High(n) == (n \div BASE) % BASE
Bank(n) == n \div (BASE * BASE)

\* The packets, as the comments of hci.v and the host's payloads lay them out.
Count(n)   == <<Low(n), High(n)>>
Place(a)   == <<Low(a), High(a), Bank(a)>>

Bytes(p) ==
  <<p.op>> \o CASE p.op \in {OP_ECHO, OP_IO_IN} -> Count(Len(p.data)) \o p.data
                [] p.op = OP_MEM_WR -> Place(p.addr) \o Count(Len(p.data)) \o p.data
                [] p.op = OP_MEM_RD -> Place(p.addr) \o Count(p.count)
                [] OTHER            -> <<>>

Wrapped(a) == a % (2 * BASE * BASE)
At(m, a)   == IF Wrapped(a) \in DOMAIN m THEN m[Wrapped(a)] ELSE 0

\* The byte that a write of data at addr leaves at a.
Written(m, addr, data) ==
  [a \in DOMAIN m \cup {Wrapped(addr + i - 1) : i \in DOMAIN data} |->
     IF \E i \in DOMAIN data : Wrapped(addr + i - 1) = a
       THEN data[CHOOSE i \in DOMAIN data : Wrapped(addr + i - 1) = a]
       ELSE m[a]]

\* A queue that is full keeps what it has.
Kept(input, data) == SubSeq(input \o data, 1, IF Len(input \o data) > IO_IN_DEPTH THEN IO_IN_DEPTH
                                                                         ELSE Len(input \o data))

\* What hci.v still listens to: everything at a break, the two single bytes while the program may
\* run, nothing once it is disabled.
Heeded(s, p) == \/ s.mode = "break"
                \/ s.mode = "run" /\ p.op \in {OP_DBG_BRK, OP_QUERY_DBG_BRK}

After(s, p) ==
  IF ~Heeded(s, p) THEN s
  ELSE CASE p.op = OP_DBG_BRK -> [s EXCEPT !.mode = "break"]
         [] p.op = OP_DBG_RUN -> [s EXCEPT !.mode = "run"]
         [] p.op = OP_DISABLE -> [s EXCEPT !.mode = "dead"]
         [] p.op = OP_IO_IN   -> [s EXCEPT !.input = Kept(@, p.data)]
         [] p.op = OP_MEM_WR  -> [s EXCEPT !.memory = Written(@, p.addr, p.data)]
         [] p.op \notin Known -> [s EXCEPT !.err = 2]
         [] OTHER             -> s

Answer(s, p) ==
  IF ~Heeded(s, p) THEN <<>>
  ELSE CASE p.op = OP_QUERY_DBG_BRK  -> <<IF s.mode = "break" THEN 1 ELSE 0>>
         [] p.op = OP_ECHO           -> p.data
         [] p.op = OP_QUERY_ERR_CODE -> <<s.err>>
         [] p.op = OP_CPU_REG_RD     -> DBGREG
         [] p.op = OP_MEM_RD         -> [i \in 1 .. p.count |-> At(s.memory, p.addr + i - 1)]
         [] OTHER                    -> <<>>

\* The host awaits the answer before it sends the next packet, as controller.cpp does.  While the
\* program may run it sends only the two single bytes that hci.v knows then.
SendPacket(p) ==
  /\ sent < MAX_PACKETS
  /\ answers = <<>>
  /\ meant.mode = "run" => p.op \in {OP_DBG_BRK, OP_QUERY_DBG_BRK}
  /\ to_hci' = to_hci \o Bytes(p)
  /\ sent' = sent + 1
  /\ meant' = After(meant, p)
  /\ answers' = answers \o Answer(meant, p)
  /\ UNCHANGED <<hciVars, from_hci, rx_time, tx_time, tx_done_tick>>

ReceiveAnswer ==
  /\ from_hci # <<>> /\ answers # <<>>
  /\ from_hci' = Tail(from_hci)
  /\ answers' = Tail(answers)
  /\ UNCHANGED <<hciVars, to_hci, rx_time, tx_time, tx_done_tick, sent, meant>>

Step(bytes) == /\ Cycle(bytes, NoPin)
               /\ UNCHANGED <<sent, meant, answers>>

Init == /\ LinkInit
        /\ sent = 0
        /\ meant = [memory |-> <<>>, input |-> <<>>, err |-> 0, mode |-> "break"]
        /\ answers = <<>>

Next == \/ \E p \in Packets : SendPacket(p)
        \/ ReceiveAnswer
        \/ \E bytes \in Incoming : Step(bytes)

Spec == Init /\ [][Next]_vars

TypeOK ==
  /\ q_decode_cnt \in 0 .. 7 /\ q_execute_cnt \in 0 .. 2 * BASE * BASE - 1 /\ q_addr \in Address
  /\ q_err_code \in 0 .. 3
  /\ {rx.items, tx.items, io_in.items, to_hci, from_hci, q_tx, q_io_in, answers} \subseteq Seq(Byte)
  /\ DOMAIN ram \subseteq Address
  /\ rx_time \in 0 .. BYTE_TIME /\ tx_time \in 0 .. SEND_TIME

\* hci.v takes each byte out of the receiving FIFO before there are too many: while the machine
\* sends what was asked for, the bytes of the next packet have room (hci.v:124, uart.v:129 leaves
\* the flag that says otherwise unconnected).
NoOverrun == q_state # "S_DISABLE" => ~(rx.full /\ to_hci # <<>> /\ rx_time = BYTE_TIME)

\* What the host receives, in its order, is what the packets ask for, however the bytes of
\* command, answer and memory overlap in time.
AnswersInOrder == IsPrefix(from_hci \o Unsent, answers)

\* When the line is quiet every answer has been given in full, and memory, input, error code and
\* mode are what the packets make them.
PacketsDone ==
  Quiet => /\ from_hci = answers
           /\ q_io_in = <<>> => io_in.items = meant.input
           /\ ram = meant.memory
           /\ q_err_code = meant.err
           /\ q_state = CASE meant.mode = "break" -> "S_DECODE"
                          [] meant.mode = "run"   -> "S_DISABLED"
                          [] OTHER                -> "S_DISABLE"
=============================================================================
