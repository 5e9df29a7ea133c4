----------------------------- MODULE HostProgram ------------------------------
(***************************************************************************)
(* ctrl/controller.cpp with listener.h, the program on the host machine:   *)
(* it greets the board, uploads the memory image and the input, and then   *)
(* runs the program and prints what it sends until a zero byte.  Each      *)
(* action is what happens up to the next read from the port; a write is    *)
(* handed to the line at once.                                             *)
(*                                                                         *)
(* Abstractions.  The greeting, the image and the input are given; the     *)
(* buffers end with zeros.  The read of the greeting may time out; the two *)
(* of a peek are taken not to, for what they leave would be printed as     *)
(* output later.  run_auto is run with the command r alone; the zero byte  *)
(* that on_recv shows, and run_auto does not, is left out.                 *)
(***************************************************************************)
EXTENDS SerialLink, SequencesExt

CONSTANTS
  GREETING,              \* "UART"
  image, input,          \* ram_data and in_data, as far as the files go
  RAM_BLK, IN_BLK,       \* the two blk_size
  PEEK                   \* get_size

ASSUME HostAssumption ==
  /\ {RAM_BLK, IN_BLK, PEEK} \subseteq Nat \ {0} /\ PEEK >= 4
  /\ {GREETING, image, input} \subseteq Seq(Byte)
  /\ GREETING # <<>> /\ image # <<>>

VARIABLES at,       \* where the program is
          blk,      \* blocks uploaded
          recv,     \* the answer to a peek
          printed

hostVars == <<at, blk, recv, printed>>

\* Little-endian fields of a payload.
Half(n)  == <<n % BASE, (n \div BASE) % BASE>>
Third(n) == Half(n) \o <<n \div (BASE * BASE)>>

\* The blk-th block of a buffer, counted from 0.
Block(buffer, size, n) ==
  [i \in 1 .. size |-> IF n * size + i <= Len(buffer) THEN buffer[n * size + i] ELSE 0]

Blocks(size, length) == (length + size - 1) \div size

Smaller(a, b) == IF a < b THEN a ELSE b

Writes(bytes) == to_hci' = to_hci \o bytes

\* serPort.read(recv, n): the bytes that came, n or, after a timeout, less.
Answered(n)  == Len(from_hci) >= n
TakeUp(n)    == SubSeq(from_hci, 1, Smaller(n, Len(from_hci)))
Leaves(n)    == from_hci' = SubSeq(from_hci, Smaller(n, Len(from_hci)) + 1, Len(from_hci))

\* on_init: the junk read times out or fills its buffer, and the greeting is sent.
Greet ==
  /\ at = "init"
  /\ Leaves(8)
  /\ Writes(<<OP_ECHO>> \o Half(Len(GREETING)) \o GREETING)
  /\ at' = "greeting"
  /\ UNCHANGED <<blk, recv, printed>>

\* A read that times out has too few bytes to be the greeting.
Greeted ==
  /\ at = "greeting"
  /\ at' = IF TakeUp(Len(GREETING)) = GREETING THEN "ram" ELSE "failed"
  /\ Leaves(Len(GREETING))
  /\ UNCHANGED <<blk, recv, printed, to_hci>>

\* upload_ram: whole blocks, zeros behind the image.
UploadRam ==
  /\ at = "ram" /\ blk < Blocks(RAM_BLK, Len(image))
  /\ Writes(<<OP_MEM_WR>> \o Third(blk * RAM_BLK) \o Half(RAM_BLK) \o Block(image, RAM_BLK, blk))
  /\ blk' = blk + 1
  /\ UNCHANGED <<at, recv, printed, from_hci>>

\* upload_input: two blanks first; no packet at all for no input.
Blank  == 2
Blanks == <<Blank, Blank>>

UploadBlanks ==
  /\ at = "ram" /\ blk = Blocks(RAM_BLK, Len(image))
  /\ IF input = <<>> THEN UNCHANGED to_hci ELSE Writes(<<OP_IO_IN>> \o Half(2) \o Blanks)
  /\ at' = "input" /\ blk' = 0
  /\ UNCHANGED <<recv, printed, from_hci>>

UploadInput ==
  /\ at = "input" /\ blk < Blocks(IN_BLK, Len(input))
  /\ LET size == Smaller(IN_BLK, Len(input) - blk * IN_BLK)
     IN Writes(<<OP_IO_IN>> \o Half(size) \o SubSeq(input, blk * IN_BLK + 1, blk * IN_BLK + size))
  /\ blk' = blk + 1
  /\ UNCHANGED <<at, recv, printed, from_hci>>

Uploaded ==
  /\ at = "input" /\ blk = Blocks(IN_BLK, Len(input))
  /\ at' = "command"
  /\ UNCHANGED <<blk, recv, printed, to_hci, from_hci>>

\* run, command p: the four bytes of the program counter, then memory from there.  Both answers go
\* to one buffer; of the program counter three bytes are sent, the count takes the place of the
\* fourth.
Into(bytes) == [i \in 1 .. PEEK |-> IF i <= Len(bytes) THEN bytes[i] ELSE recv[i]]

AskPc ==
  /\ at = "command" /\ recv = <<>>      \* bound: one peek
  /\ Writes(<<OP_CPU_REG_RD>>)
  /\ recv' = [i \in 1 .. PEEK |-> 0]
  /\ at' = "pc"
  /\ UNCHANGED <<blk, printed, from_hci>>

AskMemory ==
  /\ at = "pc" /\ Answered(4)
  /\ recv' = Into(TakeUp(4))
  /\ Writes(<<OP_MEM_RD>> \o SubSeq(recv', 1, 3) \o Half(PEEK))
  /\ Leaves(4)
  /\ at' = "peek"
  /\ UNCHANGED <<blk, printed>>

Peeked ==
  /\ at = "peek" /\ Answered(PEEK)
  /\ recv' = Into(TakeUp(PEEK))
  /\ Leaves(PEEK)
  /\ at' = "command"
  /\ UNCHANGED <<blk, printed, to_hci>>

\* run, command q.
Quit ==
  /\ at = "command"
  /\ at' = "quit"
  /\ UNCHANGED <<blk, recv, printed, to_hci, from_hci>>

\* run, command r, and run_auto.
StartProgram ==
  /\ at = "command"
  /\ Writes(<<OP_DBG_RUN>>)
  /\ at' = "running"
  /\ UNCHANGED <<blk, recv, printed, from_hci>>

PrintByte ==
  /\ at = "running" /\ from_hci # <<>>
  /\ from_hci' = Tail(from_hci)
  /\ IF Head(from_hci) = 0 THEN at' = "returned" /\ UNCHANGED printed
                           ELSE printed' = Append(printed, Head(from_hci)) /\ UNCHANGED at
  /\ UNCHANGED <<blk, recv, to_hci>>

Host == \/ Greet
        \/ Greeted
        \/ UploadRam
        \/ UploadBlanks
        \/ UploadInput
        \/ Uploaded
        \/ AskPc
        \/ AskMemory
        \/ Peeked
        \/ Quit
        \/ StartProgram
        \/ PrintByte

HostInit == at = "init" /\ blk = 0 /\ recv = <<>> /\ printed = <<>>
=============================================================================
