-------------------------------- MODULE Fifo ---------------------------------
(***************************************************************************)
(* common/fifo/fifo.v: the queue between the serial line, the host         *)
(* interface and the program.  DEPTH is 2**ADDR_BITS.  Everything changes  *)
(* at the clock edge, from the values the registers had before it.         *)
(***************************************************************************)
EXTENDS Integers, Sequences

CONSTANTS DEPTH, Data

ASSUME DepthAssumption == DEPTH \in Nat /\ DEPTH > 2

VARIABLES q_rd_ptr, q_wr_ptr, q_empty, q_full, q_data_array

vars == <<q_rd_ptr, q_wr_ptr, q_empty, q_full, q_data_array>>

Pointer == 0 .. DEPTH - 1

\* The pointers have ADDR_BITS bits.
Succ(p)        == IF p = DEPTH - 1 THEN 0 ELSE p + 1
Distance(p, q) == IF p >= q THEN p - q ELSE p - q + DEPTH

full    == q_full
empty   == q_empty
rd_data == q_data_array[q_rd_ptr]

\* Mutants of d_full and d_empty: full one element too late; empty not even when the last one is read.
d_full_late(rd, wr) == (q_full /\ ~rd) \/ (Distance(q_rd_ptr, q_wr_ptr) = 0 /\ ~q_empty /\ wr)
d_empty_late(rd, wr) == q_empty /\ ~wr

d_empty(rd, wr) == (q_empty /\ ~wr) \/ (Distance(q_wr_ptr, q_rd_ptr) = 1 /\ rd)
d_full(rd, wr)  == (q_full /\ ~rd) \/ (Distance(q_rd_ptr, q_wr_ptr) = 1 /\ wr)

Clock(rd_en, wr_en, wr_data) ==
  LET rd == rd_en /\ ~q_empty       \* rd_en_prot
      wr == wr_en /\ ~q_full        \* wr_en_prot
  IN /\ q_rd_ptr' = IF rd THEN Succ(q_rd_ptr) ELSE q_rd_ptr
     /\ q_wr_ptr' = IF wr THEN Succ(q_wr_ptr) ELSE q_wr_ptr
     /\ q_empty' = d_empty(rd, wr)
     /\ q_full' = d_full(rd, wr)
     /\ q_data_array' = IF wr THEN [q_data_array EXCEPT ![q_wr_ptr] = wr_data]
                              ELSE q_data_array

Reset == /\ q_rd_ptr' = 0 /\ q_wr_ptr' = 0
         /\ q_empty' = TRUE /\ q_full' = FALSE
         /\ UNCHANGED q_data_array

\* The array is not reset: it starts with anything.
Init == /\ q_rd_ptr = 0 /\ q_wr_ptr = 0
        /\ q_empty = TRUE /\ q_full = FALSE
        /\ q_data_array \in [Pointer -> Data]

Next == \/ Reset
        \/ \E rd_en, wr_en \in BOOLEAN, wr_data \in Data : Clock(rd_en, wr_en, wr_data)

Spec == Init /\ [][Next]_vars

TypeOK == /\ q_rd_ptr \in Pointer /\ q_wr_ptr \in Pointer
          /\ q_empty \in BOOLEAN /\ q_full \in BOOLEAN
          /\ q_data_array \in [Pointer -> Data]

(***************************************************************************)
(* The queue in the array: from the front on, as many elements as the      *)
(* pointers are apart, or all when they meet and the queue is full.        *)
(***************************************************************************)
Count == IF q_wr_ptr = q_rd_ptr /\ q_full THEN DEPTH ELSE Distance(q_wr_ptr, q_rd_ptr)

Slot(k) == IF q_rd_ptr + k > DEPTH THEN q_rd_ptr + k - 1 - DEPTH ELSE q_rd_ptr + k - 1

Items == [k \in 1 .. Count |-> q_data_array[Slot(k)]]

\* An empty queue is never read and a full one never written, although each flag is computed
\* from the pointers of the cycle before: the flags err by at most one element, and on the safe
\* side.
FlagsSafe == /\ Count = 0 => q_empty
             /\ Count = DEPTH => q_full
             /\ q_empty => Count <= 1
             /\ q_full => Count >= DEPTH - 1

Queue == INSTANCE ByteQueue WITH
           queue <- [items |-> Items, empty |-> q_empty, full |-> q_full]

\* What goes in comes out, once and in order, until a reset: the circular array is a queue.
ImplementsQueue == Queue!Spec
=============================================================================
