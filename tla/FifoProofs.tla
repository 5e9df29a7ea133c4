----------------------------- MODULE FifoProofs ------------------------------
(***************************************************************************)
(* The circular array of fifo.v is a queue, for every depth and every kind *)
(* of data.                                                                *)
(***************************************************************************)
EXTENDS Fifo, SequenceTheorems, TLAPS

Inv == TypeOK /\ FlagsSafe

\* An empty queue satisfies the invariant.
LEMMA InitInv == Init => Inv
<1> SUFFICES ASSUME Init PROVE Inv
  OBVIOUS
<1>1. TypeOK
  <2>1. q_empty \in BOOLEAN /\ q_full \in BOOLEAN
    BY Zenon DEF Init
  <2> QED
    BY <2>1, DepthAssumption DEF Init, TypeOK, Pointer
<1>2. FlagsSafe
  BY DepthAssumption DEF Init, FlagsSafe, Count, Distance
<1> QED
  BY <1>1, <1>2 DEF Inv

\* What a cycle does to the number of elements.
LEMMA CountClock ==
  ASSUME Inv, NEW rd_en \in BOOLEAN, NEW wr_en \in BOOLEAN, NEW wr_data \in Data,
         Clock(rd_en, wr_en, wr_data)
  PROVE  /\ Count \in 0 .. DEPTH
         /\ Count' = Count - (IF rd_en /\ ~q_empty THEN 1 ELSE 0)
                           + (IF wr_en /\ ~q_full THEN 1 ELSE 0)
         /\ q_empty' = ((q_empty /\ ~(wr_en /\ ~q_full)) \/ (Count = 1 /\ rd_en /\ ~q_empty))
         /\ q_full' = ((q_full /\ ~(rd_en /\ ~q_empty)) \/ (Count = DEPTH - 1 /\ wr_en /\ ~q_full))
         /\ q_rd_ptr' \in Pointer /\ q_wr_ptr' \in Pointer
<1> USE DepthAssumption
<1> DEFINE rd == rd_en /\ ~q_empty
           wr == wr_en /\ ~q_full
<1>1. q_rd_ptr \in Pointer /\ q_wr_ptr \in Pointer /\ q_empty \in BOOLEAN /\ q_full \in BOOLEAN
  BY DEF Inv, TypeOK
<1> QED
  BY <1>1, SMTT(60) DEF Inv, FlagsSafe, Clock, Count, Distance, Succ, Pointer, d_empty, d_full

\* A cycle without reset keeps it.
LEMMA ClockInv ==
  ASSUME Inv, NEW rd_en \in BOOLEAN, NEW wr_en \in BOOLEAN, NEW wr_data \in Data,
         Clock(rd_en, wr_en, wr_data)
  PROVE  Inv'
<1>1. TypeOK'
  <2>1. q_data_array' \in [Pointer -> Data]
    BY DEF Inv, TypeOK, Clock
  <2>2. q_empty' \in BOOLEAN /\ q_full' \in BOOLEAN
    BY DEF Clock, d_empty, d_full
  <2> QED
    BY <2>1, <2>2, CountClock DEF TypeOK
<1>2. FlagsSafe'
  BY CountClock, DepthAssumption DEF Inv, FlagsSafe, TypeOK
<1> QED
  BY <1>1, <1>2 DEF Inv

\* A reset restores it.
LEMMA ResetInv == Inv /\ Reset => Inv'
<1> SUFFICES ASSUME Inv, Reset PROVE Inv'
  OBVIOUS
<1>1. TypeOK'
  <2>1. q_empty' \in BOOLEAN /\ q_full' \in BOOLEAN
    BY Zenon DEF Reset
  <2> QED
    BY <2>1, DepthAssumption DEF Inv, Reset, TypeOK, Pointer
<1>2. FlagsSafe'
  BY DepthAssumption DEF Reset, FlagsSafe, Count, Distance
<1> QED
  BY <1>1, <1>2 DEF Inv

\* The elements lie in their slots, the next one goes behind them, and slots do not move.
LEMMA Slots ==
  ASSUME Inv
  PROVE  /\ Count \in 0 .. DEPTH
         /\ \A k \in 1 .. Count : Slot(k) \in Pointer
         /\ \A k \in 1 .. Count : Count < DEPTH => Slot(k) # q_wr_ptr
         /\ Count < DEPTH => Slot(Count + 1) = q_wr_ptr
BY DepthAssumption, SMTT(30) DEF Inv, TypeOK, FlagsSafe, Count, Slot, Distance, Pointer

\* The elements between the pointers are a sequence of Count elements.
LEMMA ItemsSeq == Inv => Items \in Seq(Data) /\ Len(Items) = Count
<1> SUFFICES ASSUME Inv PROVE Items \in Seq(Data) /\ Len(Items) = Count
  OBVIOUS
<1>1. Count \in Nat
  BY Slots, DepthAssumption
<1>2. Items \in [1 .. Count -> Data]
  BY Slots DEF Items, Inv, TypeOK
<1> QED
  BY <1>1, <1>2

\* What is left after the read: the elements that the slots hold after the cycle.
LEMMA AfterRead ==
  ASSUME Inv, NEW rd_en \in BOOLEAN, NEW wr_en \in BOOLEAN, NEW wr_data \in Data,
         Clock(rd_en, wr_en, wr_data)
  PROVE  LET rest == IF rd_en /\ ~q_empty THEN Tail(Items) ELSE Items
         IN /\ rest \in Seq(Data)
            /\ Len(rest) = Count - (IF rd_en /\ ~q_empty THEN 1 ELSE 0)
            /\ \A k \in 1 .. Len(rest) : Slot(k)' \in Pointer
            /\ \A k \in 1 .. Len(rest) : rest[k] = q_data_array[Slot(k)']
            /\ \A k \in 1 .. Len(rest) : Count < DEPTH => Slot(k)' # q_wr_ptr
            /\ \A k \in Int : Count < DEPTH /\ k = Len(rest) + 1 => Slot(k)' = q_wr_ptr
<1>1. CASE rd_en /\ ~q_empty
  <2>1. Count > 0 /\ Items # <<>>
    <3>1. Count # 0
      BY <1>1 DEF Inv, FlagsSafe
    <3> QED
      BY <3>1, Slots, ItemsSeq, DepthAssumption
  <2>2. /\ Tail(Items) \in Seq(Data)
        /\ Len(Tail(Items)) = Count - 1
        /\ \A k \in 1 .. Count - 1 : Tail(Items)[k] = Items[k + 1]
    BY <2>1, ItemsSeq, HeadTailProperties
  <2>3. \A k \in 1 .. Count : Slot(k)' = Slot(k + 1)
    BY <1>1, Slots, DepthAssumption DEF Clock, Slot, Succ, Inv, TypeOK, Pointer
  <2>4. \A k \in 1 .. Count - 1 : k + 1 \in 1 .. Count /\ Items[k + 1] = q_data_array[Slot(k + 1)]
    BY Slots, DepthAssumption DEF Items
  <2>5. \A k \in 1 .. Count - 1 : /\ Slot(k)' \in Pointer
                                  /\ Tail(Items)[k] = q_data_array[Slot(k)']
                                  /\ Count < DEPTH => Slot(k)' # q_wr_ptr
    BY <2>2, <2>3, <2>4, Slots
  <2>6. \A k \in Int : Count < DEPTH /\ k = Count => Slot(k)' = q_wr_ptr
    BY <2>1, <2>3, Slots, DepthAssumption
  <2> QED
    BY <1>1, <2>2, <2>5, <2>6, Slots, DepthAssumption
<1>2. CASE ~(rd_en /\ ~q_empty)
  <2>1. \A k \in Int : Slot(k)' = Slot(k)
    BY <1>2 DEF Clock, Slot
  <2>2. \A k \in 1 .. Count : Items[k] = q_data_array[Slot(k)]
    BY DEF Items
  <2>3. /\ \A k \in 1 .. Count : Slot(k)' = Slot(k)
        /\ \A k \in Int : k = Count + 1 => Slot(k)' = Slot(Count + 1)
    BY <2>1, Slots, DepthAssumption
  <2>4. Items \in Seq(Data) /\ Len(Items) = Count
    BY ItemsSeq
  <2> QED
    BY <1>2, <2>2, <2>3, <2>4, Slots
<1> QED
  BY <1>1, <1>2

\* A cycle of the array is a cycle of the queue.
LEMMA ClockImplements ==
  ASSUME Inv, NEW rd_en \in BOOLEAN, NEW wr_en \in BOOLEAN, NEW wr_data \in Data,
         Clock(rd_en, wr_en, wr_data)
  PROVE  Queue!Cycle(rd_en, IF wr_en THEN <<wr_data>> ELSE <<>>)
<1> DEFINE rd == rd_en /\ ~q_empty
           wr == wr_en /\ ~q_full
           rest == IF rd THEN Tail(Items) ELSE Items
           new == IF wr_en THEN <<wr_data>> ELSE <<>>
<1>1. Inv'
  BY ClockInv
<1>2. /\ rest \in Seq(Data)
      /\ Len(rest) = Count - (IF rd THEN 1 ELSE 0)
      /\ \A k \in 1 .. Len(rest) : Slot(k)' \in Pointer
      /\ \A k \in 1 .. Len(rest) : rest[k] = q_data_array[Slot(k)']
      /\ \A k \in 1 .. Len(rest) : Count < DEPTH => Slot(k)' # q_wr_ptr
      /\ \A k \in Int : Count < DEPTH /\ k = Len(rest) + 1 => Slot(k)' = q_wr_ptr
  BY AfterRead
<1>3. Count' = Len(rest) + (IF wr THEN 1 ELSE 0)
  <2> HIDE DEF rest
  <2> QED
    BY <1>2, CountClock
<1>4. Items' \in Seq(Data) /\ Len(Items') = Count'
  <2>1. (Inv => Items \in Seq(Data) /\ Len(Items) = Count)'
    BY ItemsSeq, PTL
  <2> QED
    BY <1>1, <2>1
<1>5. \A k \in 1 .. Count' : Items'[k] = q_data_array'[Slot(k)']
  BY DEF Items
<1>6. Items' = IF wr THEN Append(rest, wr_data) ELSE rest
  <2> HIDE DEF rest
  <2>1. CASE wr
    <3>1. Count < DEPTH
      BY <2>1, Slots, DepthAssumption DEF Inv, FlagsSafe
    <3>2. q_data_array' = [q_data_array EXCEPT ![q_wr_ptr] = wr_data]
      BY <2>1 DEF Clock
    <3>3. \A k \in 1 .. Len(rest) : Items'[k] = rest[k]
      BY <1>2, <1>3, <1>5, <2>1, <3>1, <3>2 DEF Inv, TypeOK
    <3>4. Items'[Len(rest) + 1] = wr_data
      <4>1. \A k \in Int : k = Len(rest) + 1 => Items'[k] = wr_data
        BY <1>2, <1>3, <1>5, <2>1, <3>1, <3>2 DEF Inv, TypeOK
      <4> QED
        BY <1>2, <4>1
    <3>5. /\ Append(rest, wr_data) \in Seq(Data)
          /\ Len(Append(rest, wr_data)) = Len(rest) + 1
          /\ \A k \in 1 .. Len(rest) : Append(rest, wr_data)[k] = rest[k]
          /\ Append(rest, wr_data)[Len(rest) + 1] = wr_data
      BY <1>2, AppendProperties
    <3>6. \A k \in 1 .. Len(rest) + 1 : Items'[k] = Append(rest, wr_data)[k]
      BY <1>2, <3>3, <3>4, <3>5
    <3>7. Len(Items') = Len(rest) + 1
      BY <1>3, <1>4, <2>1
    <3>8. Items' = Append(rest, wr_data)
      BY <1>4, <3>5, <3>6, <3>7, SeqEqual
    <3> QED
      BY <2>1, <3>8
  <2>2. CASE ~wr
    <3>1. q_data_array' = q_data_array
      BY <2>2 DEF Clock
    <3>2. \A k \in 1 .. Len(rest) : Items'[k] = rest[k]
      BY <1>2, <1>3, <1>5, <2>2, <3>1
    <3>3. Len(Items') = Len(rest)
      BY <1>2, <1>3, <1>4, <2>2
    <3>4. Items' = rest
      BY <1>2, <1>4, <3>2, <3>3, SeqEqual
    <3> QED
      BY <2>2, <3>4
  <2> QED
    BY <2>1, <2>2
<1>7. /\ q_empty' = ((q_empty /\ ~wr) \/ (Len(Items) = 1 /\ rd))
      /\ q_full' = ((q_full /\ ~rd) \/ (Len(Items) = DEPTH - 1 /\ wr))
  BY CountClock, ItemsSeq
<1>8. (new # <<>> /\ ~q_full) = wr /\ (wr => new[1] = wr_data)
  OBVIOUS
<1> QED
  BY <1>6, <1>7, <1>8 DEF Queue!Cycle, Queue!Through

\* A reset empties the abstract queue.
LEMMA ResetImplements == Reset => Queue!Reset
<1> SUFFICES ASSUME Reset PROVE Queue!Reset
  OBVIOUS
<1>1. Count' = 0
  BY DepthAssumption DEF Reset, Count, Distance
<1>2. Items' = <<>>
  BY <1>1 DEF Items
<1> QED
  BY <1>2 DEF Reset, Queue!Reset, Queue!NoElement

\* The array starts as the empty queue.
LEMMA InitImplements == Init => Queue!Init
<1> SUFFICES ASSUME Init PROVE Queue!Init
  OBVIOUS
<1>1. Count = 0
  BY DepthAssumption DEF Init, Count, Distance
<1>2. Items = <<>>
  BY <1>1 DEF Items
<1> QED
  BY <1>2 DEF Init, Queue!Init, Queue!NoElement

\* Every step keeps the invariant.
LEMMA StepInv == Inv /\ [Next]_vars => Inv'
<1> SUFFICES ASSUME Inv, [Next]_vars PROVE Inv'
  OBVIOUS
<1>1. CASE Reset
  BY <1>1, ResetInv
<1>2. ASSUME NEW rd_en \in BOOLEAN, NEW wr_en \in BOOLEAN, NEW wr_data \in Data,
             Clock(rd_en, wr_en, wr_data)
      PROVE  Inv'
  BY <1>2, ClockInv
<1>3. CASE UNCHANGED vars
  BY <1>3 DEF vars, Inv, TypeOK, FlagsSafe, Count, Distance
<1> QED
  BY <1>1, <1>2, <1>3 DEF Next

\* The flags of fifo.v are never wrong on the dangerous side, and by one element at most: no read
\* of an empty queue and no write to a full one gets through.
THEOREM FlagsAreSafe == Spec => []FlagsSafe
<1>1. Inv => FlagsSafe
  BY DEF Inv
<1> QED
  BY InitInv, StepInv, <1>1, PTL DEF Spec

\* fifo.v keeps what ByteQueue promises: no element is lost, repeated or out of order.
THEOREM ArrayIsQueue == Spec => ImplementsQueue
<1> DEFINE queue == [items |-> Items, empty |-> q_empty, full |-> q_full]
<1>1. Inv /\ [Next]_vars => [Queue!Next]_queue
  <2> SUFFICES ASSUME Inv, [Next]_vars PROVE Queue!Next \/ queue' = queue
    OBVIOUS
  <2>1. CASE Reset
    BY <2>1, ResetImplements DEF Queue!Next
  <2>2. ASSUME NEW rd_en \in BOOLEAN, NEW wr_en \in BOOLEAN, NEW wr_data \in Data,
               Clock(rd_en, wr_en, wr_data)
        PROVE  Queue!Next
    <3>1. (IF wr_en THEN <<wr_data>> ELSE <<>>) \in {<<>>} \cup {<<d>> : d \in Data}
      OBVIOUS
    <3> QED
      BY <2>2, <3>1, ClockImplements DEF Queue!Next
  <2>3. CASE UNCHANGED vars
    BY <2>3 DEF vars, Items, Count, Distance, Slot
  <2> QED
    BY <2>1, <2>2, <2>3 DEF Next
<1> QED
  BY InitInv, StepInv, InitImplements, <1>1, PTL DEF Spec, ImplementsQueue, Queue!Spec
=============================================================================
