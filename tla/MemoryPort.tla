----------------------------- MODULE MemoryPort -----------------------------
(***************************************************************************)
(* What MemoryController.v, with the RAM and the host behind it, promises  *)
(* the fetcher and the load store buffer: it remembers one fetch and one   *)
(* data access, finishes each after some time and in either order, and on  *)
(* a rollback forgets everything but a store.  How long an access takes is *)
(* left open, so that every timing of the byte-wise controller is covered. *)
(*                                                                         *)
(* Abstractions.  Instructions are read from a program that no store       *)
(* changes.  An access to an I/O address is one transaction.  The n-th     *)
(* input is the number n, counted modulo IO_PERIOD, so that a lost,        *)
(* repeated or reordered read shows; writes to I/O addresses are counted   *)
(* likewise, and ram keeps what was last written there.                    *)
(***************************************************************************)
EXTENDS Words

CONSTANT IO_PERIOD

VARIABLES
  ram,
  fet_request,          \* the fetch remembered
  lsb_request,          \* the data access remembered
  io_reads, io_writes,
  out

memVars == <<ram, fet_request, lsb_request, io_reads, io_writes, out>>

NoFetch  == [pending |-> FALSE, address |-> 0]
NoAccess == [pending |-> FALSE, store |-> FALSE, address |-> 0, goal |-> 0, data |-> 0]
Quiet    == [fet_ready |-> FALSE, fet_instruction |-> ZeroInstruction,
             lsb_ready |-> FALSE, lsb_data |-> 0]

FetchOf(fet)  == [pending |-> TRUE, address |-> fet.mc_address]
AccessOf(lsb) == [pending |-> TRUE, store |-> lsb.mc_store, address |-> lsb.mc_address,
                  goal |-> lsb.mc_goal, data |-> IF lsb.mc_store THEN lsb.mc_data ELSE 0]

\* The requests that arrive in this cycle join those that remain.
Accept(fet, lsb, fetch, access) ==
  /\ fet_request' = IF fet.mc_request THEN FetchOf(fet) ELSE fetch
  /\ lsb_request' = IF lsb.mc_request THEN AccessOf(lsb) ELSE access

Work(fet, lsb) == /\ Accept(fet, lsb, fet_request, lsb_request)
                  /\ out' = Quiet
                  /\ UNCHANGED <<ram, io_reads, io_writes>>

FinishFetch(fet, lsb, program) ==
  /\ fet_request.pending
  /\ Accept(fet, lsb, NoFetch, lsb_request)
  /\ out' = [Quiet EXCEPT !.fet_ready = TRUE,
                          !.fet_instruction = program[fet_request.address]]
  /\ UNCHANGED <<ram, io_reads, io_writes>>

FinishStore(fet, lsb) ==
  /\ lsb_request.pending /\ lsb_request.store
  /\ Accept(fet, lsb, fet_request, NoAccess)
  /\ ram' = WriteBytes(ram, lsb_request.address, lsb_request.goal, lsb_request.data)
  /\ io_writes' = (io_writes + Flag(IsIo(lsb_request.address))) % IO_PERIOD
  /\ out' = [Quiet EXCEPT !.lsb_ready = TRUE]
  /\ UNCHANGED io_reads

FinishLoad(fet, lsb) ==
  /\ lsb_request.pending /\ ~lsb_request.store
  /\ Accept(fet, lsb, fet_request, NoAccess)
  /\ io_reads' = (io_reads + Flag(IsIo(lsb_request.address))) % IO_PERIOD
  /\ out' = [Quiet EXCEPT !.lsb_ready = TRUE,
                          !.lsb_data = IF IsIo(lsb_request.address)
                                         THEN io_reads
                                         ELSE ReadBytes(ram, lsb_request.address,
                                                        lsb_request.goal)]
  /\ UNCHANGED <<ram, io_writes>>

\* Mutants of Rollback: the fetch, or the load, is not forgotten.
RollbackKeepsFetch(lsb) ==
  /\ lsb_request' = IF lsb.mc_request /\ (lsb.mc_store \/ IsIo(lsb.mc_address))
                      THEN AccessOf(lsb)
                      ELSE IF lsb_request.store THEN lsb_request ELSE NoAccess
  /\ out' = Quiet
  /\ UNCHANGED <<ram, fet_request, io_reads, io_writes>>

RollbackKeepsLoad(lsb) ==
  /\ fet_request' = NoFetch
  /\ lsb_request' = IF lsb.mc_request /\ (lsb.mc_store \/ IsIo(lsb.mc_address))
                      THEN AccessOf(lsb) ELSE lsb_request
  /\ out' = Quiet
  /\ UNCHANGED <<ram, io_reads, io_writes>>

\* Fetches and loads are forgotten.  Of the access that arrives in this cycle a
\* store, or a load from an I/O address, is kept.
Rollback(lsb) ==
  /\ fet_request' = NoFetch
  /\ lsb_request' = IF lsb.mc_request /\ (lsb.mc_store \/ IsIo(lsb.mc_address))
                      THEN AccessOf(lsb)
                      ELSE IF lsb_request.store THEN lsb_request ELSE NoAccess
  /\ out' = Quiet
  /\ UNCHANGED <<ram, io_reads, io_writes>>

Reset == /\ fet_request' = NoFetch
         /\ lsb_request' = NoAccess
         /\ out' = Quiet
         /\ UNCHANGED <<ram, io_reads, io_writes>>

\* serves names the request that is finished in this cycle, if any.
Clock(rst, rob, fet, lsb, serves, program) ==
  \/ rst /\ serves = "none" /\ Reset
  \/ ~rst /\ rob.rollback /\ serves = "none" /\ Rollback(lsb)
  \/ /\ ~rst /\ ~rob.rollback
     /\ \/ serves = "none"  /\ Work(fet, lsb)
        \/ serves = "fetch" /\ FinishFetch(fet, lsb, program)
        \/ serves = "data"  /\ (FinishStore(fet, lsb) \/ FinishLoad(fet, lsb))

Init == /\ ram = [a \in Word |-> 0]
        /\ fet_request = NoFetch
        /\ lsb_request = NoAccess
        /\ io_reads = 0
        /\ io_writes = 0
        /\ out = Quiet

TypeOK ==
  /\ ram \in [Word -> Byte]
  /\ fet_request \in [pending : BOOLEAN, address : Word]
  /\ lsb_request \in [pending : BOOLEAN, store : BOOLEAN, address : Word,
                      goal : 0 .. WORD_BYTES, data : Word]
  /\ io_reads \in 0 .. IO_PERIOD - 1
  /\ io_writes \in 0 .. IO_PERIOD - 1
  /\ out \in [fet_ready : BOOLEAN, fet_instruction : Instruction,
              lsb_ready : BOOLEAN, lsb_data : Word]
=============================================================================
