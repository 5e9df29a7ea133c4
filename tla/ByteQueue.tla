------------------------------ MODULE ByteQueue ------------------------------
(***************************************************************************)
(* A FIFO as its user sees it: the elements in their order, and the two    *)
(* flags that say whether it may be read or written.  In one clock cycle   *)
(* the front may leave and an element may enter; both are decided by the   *)
(* flags as the cycle begins.  The flags follow fifo.v: they are computed  *)
(* from the number of elements before the cycle and look at the read or at *)
(* the write, never at both.                                               *)
(***************************************************************************)
EXTENDS Integers, Sequences

CONSTANTS DEPTH, Data

VARIABLE queue

NoElement == [items |-> <<>>, empty |-> TRUE, full |-> FALSE]

\* The queue q after a cycle; new is <<>> or holds the element that is offered.
Through(q, depth, rd_en, new) ==
  LET rd   == rd_en /\ ~q.empty
      wr   == new # <<>> /\ ~q.full
      rest == IF rd THEN Tail(q.items) ELSE q.items
  IN [items |-> IF wr THEN Append(rest, new[1]) ELSE rest,
      empty |-> (q.empty /\ ~wr) \/ (Len(q.items) = 1 /\ rd),
      full  |-> (q.full /\ ~rd) \/ (Len(q.items) = depth - 1 /\ wr)]

Init == queue = NoElement

Cycle(rd_en, new) == queue' = Through(queue, DEPTH, rd_en, new)
Reset             == queue' = NoElement

Next == \/ Reset
        \/ \E rd_en \in BOOLEAN, new \in {<<>>} \cup {<<d>> : d \in Data} : Cycle(rd_en, new)

Spec == Init /\ [][Next]_queue
=============================================================================
