---------------------------- MODULE WsCpuProofs -----------------------------
(***************************************************************************)
(* What holds of the ws_cpu simulator whatever the width of a word, the    *)
(* number of slots and the program: what its buffers hold is typed, room   *)
(* that was found is still there when it is used, and who works on an      *)
(* instruction, what an operand waits for, what a register names and the   *)
(* order of the accesses are as the properties of WsCpu say.               *)
(*                                                                         *)
(* The properties speak of the top of the loop.  The invariant WsInv says  *)
(* the same of every point between two calls, and says it of the buffers   *)
(* together with what is prepared for them (the view): that a stage puts   *)
(* what was prepared where it belongs changes nothing there.               *)
(***************************************************************************)
EXTENDS WsCpu, WordProofs, FiniteSetTheorems

(***************************************************************************)
(* The types of the buffers, and of what is on its way between them.       *)
(***************************************************************************)
Operations == {"+", "-", "^", "|", "&", "<<", ">>", ">> tianchong", "<", "unsigned <",
               "== pc+", "!= pc+", "< pc+", ">= pc+", "unsigned < pc+", "unsigned >= pc+"}
Tag        == Slot \cup {NO_TAG}
RegEntry   == [v : Word, q : Slot, status : BOOLEAN]
RobEntry   == [ready : BOOLEAN, tp : {"value", "branch", "jal", "jalr", "store"},
               result : Word, addr : RegIndex, offset : Word, pc : Word, end : BOOLEAN]
RsEntry    == [status : BOOLEAN, op : Operations, vi : Word, vj : Word, qi : Tag, qj : Tag,
               idx : Slot]
LsbEntry   == [op : LoadOps \cup StoreOps, idx : Slot, imm : Word, q : Tag, q2 : Tag,
               v : Word, v2 : Word, commited : BOOLEAN, round : 0 .. 3]
IqEntry    == [inst : Instructions, pc : Word]
Naming     == [rd : RegIndex, tag : Slot]
Writing    == [rd : RegIndex, tag : Slot \cup {NO_ENTRY}, value : Word]
Leaving    == [rob : RobEntry, idx : Slot]
Result     == [first : Slot \cup {NO_ENTRY}, second : Word]
Vector(S)  == {<<>>} \cup {<<e>> : e \in S}

BufferTypes == /\ ROB \in QueueOf(RobEntry) /\ ROB_pre \in QueueOf(RobEntry)
               /\ LSB \in QueueOf(LsbEntry) /\ LSB_pre \in QueueOf(LsbEntry)
               /\ IQ \in QueueOf(IqEntry) /\ IQ_pre \in QueueOf(IqEntry)
               /\ RS \in [Slot -> RsEntry] /\ RS_pre \in [Slot -> RsEntry]
RegTypes    == reg \in [RegIndex -> RegEntry] /\ reg_pre \in [RegIndex -> RegEntry]
VectorTypes == /\ up_ROB \in Vector(RobEntry) /\ up_RS \in Vector(RsEntry)
               /\ up_LSB \in Vector(LsbEntry) /\ up_reg_q_ex \in Vector(Naming)
               /\ up_reg_v_ex \in Vector(Writing) /\ EX_Run_ \in Vector(RsEntry)
               /\ commit_ \in Vector(Leaving)
ResultTypes == /\ Number_ROB \in Slot \cup {NO_ENTRY} /\ Number_Result \in Word
               /\ EX_to_ROB \in Result /\ LSB_to_ROB \in Result /\ LSB_to_ROB_pre \in Result
OtherTypes  == /\ stage \in {"ROB_Run", "IF_Run", "RS_Run", "LSB_Run", "REG_Run", "Update",
                             "Execute", "ISSUE_Run", "Commit"}
               /\ program \in [Word -> Instructions]
               /\ pc \in Word /\ committed_pc \in Word /\ printed \in Byte
               /\ mem \in [Word -> Byte]
WsTypes == BufferTypes /\ RegTypes /\ VectorTypes /\ ResultTypes /\ OtherTypes

\* The greatest element of a set of one.
LEMMA OneElement == Max({1}) = 1
  BY DEF Max

\* A vector holds at most one element, so the loops over it take one step, or none: pushing,
LEMMA PushedOne ==
  ASSUME NEW b, NEW S, NEW v \in Vector(S)
  PROVE  Pushed(b, v) = IF v = <<>> THEN b ELSE push_back(b, Head(v))
<1> DEFINE D == DOMAIN v
           Step(g) == [s \in SUBSET D |-> IF s = {} THEN b ELSE push_back(g[s \ {Max(s)}], v[Max(s)])]
           iter == CHOOSE g : g = Step(g)
<1>1. D = (IF v = <<>> THEN {} ELSE {1}) /\ \A s \in SUBSET D : s = {} \/ (s = {1} /\ v # <<>>)
  BY DEF Vector
<1>2. Max({1}) = 1
  BY OneElement
<1>3. \E g : g = Step(g)
  <2> DEFINE g == [s \in SUBSET D |-> IF s = {} THEN b ELSE push_back(b, v[1])]
  <2>1. ASSUME NEW s \in SUBSET D
        PROVE  g[s] = IF s = {} THEN b ELSE push_back(g[s \ {Max(s)}], v[Max(s)])
    <3>1. CASE s = {}
      BY <3>1
    <3>2. CASE s = {1} /\ v # <<>>
      <4>1. s \ {Max(s)} = {} /\ Max(s) = 1 /\ s # {}
        BY <3>2, <1>2
      <4>2. g[{}] = b
        BY <1>1
      <4> QED BY <4>1, <4>2
    <3> QED BY <1>1, <3>1, <3>2
  <2>2. g = Step(g)
    BY <2>1, Zenon
  <2> QED BY <2>2
<1>4. iter = Step(iter)
  <2> HIDE DEF Step
  <2> QED BY <1>3
<1>5. Pushed(b, v) = iter[D]
  BY Zenon DEF Pushed, FoldLeft, MapThenFoldSet
<1>6. iter[{}] = b
  <2> HIDE DEF iter, D
  <2> QED BY <1>4
<1>7. CASE v = <<>>
  BY <1>1, <1>5, <1>6, <1>7
<1>8. CASE v # <<>>
  <2>1. D = {1} /\ {1} \in SUBSET D /\ {1} # {} /\ {1} \ {Max({1})} = {}
    BY <1>1, <1>2, <1>8
  <2>2. iter[{1}] = push_back(iter[{1} \ {Max({1})}], v[Max({1})])
    <3> HIDE DEF iter, D
    <3> QED BY <1>4, <2>1
  <2>3. iter[{1}] = push_back(b, v[1])
    <3> HIDE DEF iter, D
    <3> QED BY <1>2, <1>6, <2>1, <2>2
  <2>4. Head(v) = v[1]
    BY <1>8 DEF Vector
  <2> QED BY <1>5, <1>8, <2>1, <2>3, <2>4
<1> QED BY <1>7, <1>8

\* writing a value,
LEMMA AssignedOne ==
  ASSUME NEW b, NEW S, NEW v \in Vector(S)
  PROVE  FoldLeft(Assigned, b, v) = IF v = <<>> THEN b ELSE Assigned(b, Head(v))
<1> DEFINE D == DOMAIN v
           Step(g) == [s \in SUBSET D |-> IF s = {} THEN b ELSE Assigned(g[s \ {Max(s)}], v[Max(s)])]
           iter == CHOOSE g : g = Step(g)
<1>1. D = (IF v = <<>> THEN {} ELSE {1}) /\ \A s \in SUBSET D : s = {} \/ (s = {1} /\ v # <<>>)
  BY DEF Vector
<1>2. Max({1}) = 1
  BY OneElement
<1>3. \E g : g = Step(g)
  <2> DEFINE g == [s \in SUBSET D |-> IF s = {} THEN b ELSE Assigned(b, v[1])]
  <2>1. ASSUME NEW s \in SUBSET D
        PROVE  g[s] = IF s = {} THEN b ELSE Assigned(g[s \ {Max(s)}], v[Max(s)])
    <3>1. CASE s = {}
      BY <3>1
    <3>2. CASE s = {1} /\ v # <<>>
      <4>1. s \ {Max(s)} = {} /\ Max(s) = 1 /\ s # {}
        BY <3>2, <1>2
      <4>2. g[{}] = b
        BY <1>1
      <4> QED BY <4>1, <4>2
    <3> QED BY <1>1, <3>1, <3>2
  <2>2. g = Step(g)
    BY <2>1, Zenon
  <2> QED BY <2>2
<1>4. iter = Step(iter)
  <2> HIDE DEF Step
  <2> QED BY <1>3
<1>5. FoldLeft(Assigned, b, v) = iter[D]
  BY Zenon DEF FoldLeft, MapThenFoldSet
<1>6. iter[{}] = b
  <2> HIDE DEF iter, D
  <2> QED BY <1>4
<1>7. CASE v = <<>>
  BY <1>1, <1>5, <1>6, <1>7
<1>8. CASE v # <<>>
  <2>1. D = {1} /\ {1} \in SUBSET D /\ {1} # {} /\ {1} \ {Max({1})} = {}
    BY <1>1, <1>2, <1>8
  <2>2. iter[{1}] = Assigned(iter[{1} \ {Max({1})}], v[Max({1})])
    <3> HIDE DEF iter, D
    <3> QED BY <1>4, <2>1
  <2>3. iter[{1}] = Assigned(b, v[1])
    <3> HIDE DEF iter, D
    <3> QED BY <1>2, <1>6, <2>1, <2>2
  <2>4. Head(v) = v[1]
    BY <1>8 DEF Vector
  <2> QED BY <1>5, <1>8, <2>1, <2>3, <2>4
<1> QED BY <1>7, <1>8

\* and giving a new name.
LEMMA RenamedOne ==
  ASSUME NEW b, NEW S, NEW v \in Vector(S)
  PROVE  FoldLeft(Renamed, b, v) = IF v = <<>> THEN b ELSE Renamed(b, Head(v))
<1> DEFINE D == DOMAIN v
           Step(g) == [s \in SUBSET D |-> IF s = {} THEN b ELSE Renamed(g[s \ {Max(s)}], v[Max(s)])]
           iter == CHOOSE g : g = Step(g)
<1>1. D = (IF v = <<>> THEN {} ELSE {1}) /\ \A s \in SUBSET D : s = {} \/ (s = {1} /\ v # <<>>)
  BY DEF Vector
<1>2. Max({1}) = 1
  BY OneElement
<1>3. \E g : g = Step(g)
  <2> DEFINE g == [s \in SUBSET D |-> IF s = {} THEN b ELSE Renamed(b, v[1])]
  <2>1. ASSUME NEW s \in SUBSET D
        PROVE  g[s] = IF s = {} THEN b ELSE Renamed(g[s \ {Max(s)}], v[Max(s)])
    <3>1. CASE s = {}
      BY <3>1
    <3>2. CASE s = {1} /\ v # <<>>
      <4>1. s \ {Max(s)} = {} /\ Max(s) = 1 /\ s # {}
        BY <3>2, <1>2
      <4>2. g[{}] = b
        BY <1>1
      <4> QED BY <4>1, <4>2
    <3> QED BY <1>1, <3>1, <3>2
  <2>2. g = Step(g)
    BY <2>1, Zenon
  <2> QED BY <2>2
<1>4. iter = Step(iter)
  <2> HIDE DEF Step
  <2> QED BY <1>3
<1>5. FoldLeft(Renamed, b, v) = iter[D]
  BY Zenon DEF FoldLeft, MapThenFoldSet
<1>6. iter[{}] = b
  <2> HIDE DEF iter, D
  <2> QED BY <1>4
<1>7. CASE v = <<>>
  BY <1>1, <1>5, <1>6, <1>7
<1>8. CASE v # <<>>
  <2>1. D = {1} /\ {1} \in SUBSET D /\ {1} # {} /\ {1} \ {Max({1})} = {}
    BY <1>1, <1>2, <1>8
  <2>2. iter[{1}] = Renamed(iter[{1} \ {Max({1})}], v[Max({1})])
    <3> HIDE DEF iter, D
    <3> QED BY <1>4, <2>1
  <2>3. iter[{1}] = Renamed(b, v[1])
    <3> HIDE DEF iter, D
    <3> QED BY <1>2, <1>6, <2>1, <2>2
  <2>4. Head(v) = v[1]
    BY <1>8 DEF Vector
  <2> QED BY <1>5, <1>8, <2>1, <2>3, <2>4
<1> QED BY <1>7, <1>8

(***************************************************************************)
(* The circular queue.                                                     *)
(***************************************************************************)
\* The slots in the circle that starts at h: no remainders, but two cases.
LEMMA Circle ==
  ASSUME NEW h \in Slot
  PROVE  /\ MAXN \in Nat /\ MAXN >= 2
         /\ \A s \in Slot : /\ (s - h) % MAXN = (IF h <= s THEN s - h ELSE s - h + MAXN)
                            /\ get_nxt(s) = (IF s = MAXN - 1 THEN 0 ELSE s + 1)
                            /\ get_nxt(s) \in Slot
<1>1. MAXN \in Nat /\ MAXN >= 2
  BY QueueAssumption DEF QueueAssumption
<1>2. ASSUME NEW s \in Slot
      PROVE  (s - h) % MAXN = IF h <= s THEN s - h ELSE s - h + MAXN
  <2>1. CASE h <= s
    <3>1. s - h \in 0 .. MAXN - 1
      BY <1>1, <2>1 DEF Slot
    <3> QED BY <1>1, <2>1, <3>1, RemainderSmall
  <2>2. CASE ~(h <= s)
    <3>1. s - h + MAXN \in 0 .. MAXN - 1 /\ s - h \in Int
      BY <1>1, <2>2 DEF Slot
    <3>2. PICK r \in 0 .. MAXN - 1 : r = s - h + MAXN
      BY <3>1
    <3>3. MAXN * (-1) + r = s - h
      BY <1>1, <3>1, <3>2
    <3>4. (MAXN * (-1) + r) % MAXN = r
      BY <1>1, RemainderIs
    <3> QED BY <2>2, <3>2, <3>3, <3>4
  <2> QED BY <2>1, <2>2
<1>3. ASSUME NEW s \in Slot
      PROVE  get_nxt(s) = IF s = MAXN - 1 THEN 0 ELSE s + 1
  <2>1. CASE s = MAXN - 1
    <3>1. MAXN * 1 + 0 = s + 1 /\ 0 \in 0 .. MAXN - 1
      BY <1>1, <2>1
    <3>2. (MAXN * 1 + 0) % MAXN = 0
      BY <1>1, <3>1, RemainderIs
    <3> QED BY <2>1, <3>1, <3>2 DEF get_nxt
  <2>2. CASE s # MAXN - 1
    <3>1. s + 1 \in 0 .. MAXN - 1
      BY <1>1, <2>2 DEF Slot
    <3> QED BY <1>1, <2>2, <3>1, RemainderSmall DEF get_nxt
  <2> QED BY <2>1, <2>2
<1>4. \A s \in Slot : get_nxt(s) \in Slot
  BY <1>1, <1>3 DEF Slot
<1> QED BY <1>1, <1>2, <1>3, <1>4

\* Ages and what is held, in a queue with its head and its tail.
LEMMA QueueAges ==
  ASSUME NEW S, NEW b \in QueueOf(S)
  PROVE  /\ b.head \in Slot /\ b.tail \in Slot /\ b.queue \in [Slot -> S]
         /\ \A s \in Slot : /\ Age(b, s) \in 0 .. MAXN - 1
                            /\ Age(b, s) = 0 <=> s = b.head
         /\ \A s \in Held(b) : s \in Slot /\ s # b.tail /\ Age(b, s) < Age(b, b.tail)
         /\ \A s, t \in Slot : Age(b, s) = Age(b, t) => s = t
         /\ isempty(b) <=> Held(b) = {}
         /\ ~isempty(b) <=> b.head \in Held(b)
         /\ isfull(b) <=> Age(b, b.tail) = MAXN - 1
<1>1. b.head \in Slot /\ b.tail \in Slot /\ b.queue \in [Slot -> S]
  BY DEF QueueOf
<1>2. PICK h \in Slot : h = b.head
  BY <1>1
<1>3. PICK t \in Slot : t = b.tail
  BY <1>1
<1>4. MAXN \in Nat /\ MAXN >= 2
  BY QueueAssumption DEF QueueAssumption
<1>5. \A s \in Slot : Age(b, s) = IF h <= s THEN s - h ELSE s - h + MAXN
  BY <1>2, Circle DEF Age
<1>6. \A s \in Slot : Age(b, s) \in 0 .. MAXN - 1 /\ (Age(b, s) = 0 <=> s = h)
  BY <1>4, <1>5 DEF Slot
<1>7. \A s, u \in Slot : Age(b, s) = Age(b, u) => s = u
  BY <1>4, <1>5 DEF Slot
<1>8. isempty(b) <=> Age(b, t) = 0
  BY <1>2, <1>3, <1>6 DEF isempty
<1>9. isfull(b) <=> Age(b, t) = MAXN - 1
  <2>1. get_nxt(t) = IF t = MAXN - 1 THEN 0 ELSE t + 1
    BY Circle
  <2>2. Age(b, t) = IF h <= t THEN t - h ELSE t - h + MAXN
    BY <1>5
  <2> QED BY <1>2, <1>3, <1>4, <2>1, <2>2 DEF isfull, Slot
<1>10. Age(b, t) \in 0 .. MAXN - 1
  BY <1>6
<1>11. Age(b, h) = 0
  BY <1>6
<1>12. \A s \in Slot : Age(b, s) \in 0 .. MAXN - 1
  BY <1>6
<1>13. \A s : s \in Held(b) <=> s \in Slot /\ Age(b, s) < Age(b, t)
  BY <1>3 DEF Held
<1>14. Age(b, t) # 0 => h \in Held(b)
  BY <1>4, <1>10, <1>11, <1>13
<1>15. Age(b, t) = 0 => Held(b) = {}
  BY <1>4, <1>12, <1>13
<1> HIDE DEF Age, Held
<1> QED BY <1>1, <1>2, <1>3, <1>4, <1>6, <1>7, <1>8, <1>9, <1>10, <1>13, <1>14, <1>15

\* An element enters behind the others, at a slot that held none.
LEMMA QueuePush ==
  ASSUME NEW S, NEW b \in QueueOf(S), NEW e \in S, ~isfull(b)
  PROVE  /\ push_back(b, e) \in QueueOf(S)
         /\ push_back(b, e).head = b.head /\ push_back(b, e).tail = get_nxt(b.tail)
         /\ \A s \in Slot : push_back(b, e).queue[s] = IF s = b.tail THEN e ELSE b.queue[s]
         /\ \A s : Age(push_back(b, e), s) = Age(b, s)
         /\ Held(push_back(b, e)) = Held(b) \cup {b.tail}
         /\ Age(b, b.tail) < MAXN - 1
<1>1. b.head \in Slot /\ b.tail \in Slot /\ b.queue \in [Slot -> S]
  BY DEF QueueOf
<1>2. PICK h \in Slot : h = b.head
  BY <1>1
<1>3. PICK t \in Slot : t = b.tail
  BY <1>1
<1>4. get_nxt(t) \in Slot
  BY Circle
<1>5. /\ push_back(b, e).queue = [b.queue EXCEPT ![t] = e]
      /\ push_back(b, e).head = h /\ push_back(b, e).tail = get_nxt(t)
  BY <1>2, <1>3, <1>4 DEF push_back, QueueOf
<1>6. push_back(b, e) \in QueueOf(S)
  <2> DEFINE Q == [Slot -> S]
             p == [b.queue EXCEPT ![t] = e]
             c == [b EXCEPT !.queue = p]
  <2>1. b \in [queue : Q, head : Slot, tail : Slot] /\ p \in Q
    BY <1>1 DEF QueueOf
  <2>2. push_back(b, e) = [b EXCEPT !.queue = p, !.tail = get_nxt(t)]
    <3> HIDE DEF Q
    <3> QED BY <2>1, <1>3, <1>4, SMT DEF push_back
  <2> HIDE DEF Q, p
  <2>3. c \in [queue : Q, head : Slot, tail : Slot]
    BY <2>1, SMT
  <2>4. [b EXCEPT !.queue = p, !.tail = get_nxt(t)] = [c EXCEPT !.tail = get_nxt(t)]
    BY Zenon
  <2> HIDE DEF c
  <2>5. [c EXCEPT !.tail = get_nxt(t)] \in [queue : Q, head : Slot, tail : Slot]
    BY <2>3, <1>4, SMT
  <2> QED BY <2>2, <2>4, <2>5 DEF QueueOf, Q
<1>7. \A s : Age(push_back(b, e), s) = Age(b, s)
  BY <1>2, <1>5 DEF Age
<1>8. \A s \in Slot : push_back(b, e).queue[s] = IF s = t THEN e ELSE b.queue[s]
  BY <1>1, <1>5
<1>9. MAXN \in Nat /\ MAXN >= 2
  BY QueueAssumption DEF QueueAssumption
<1>10. Age(b, t) \in 0 .. MAXN - 1 /\ Age(b, t) # MAXN - 1
  BY <1>3, QueueAges
<1>11. Age(b, get_nxt(t)) = Age(b, t) + 1
  <2>1. get_nxt(t) = IF t = MAXN - 1 THEN 0 ELSE t + 1
    BY Circle
  <2>2. \A s \in Slot : Age(b, s) = IF h <= s THEN s - h ELSE s - h + MAXN
    BY <1>2, Circle DEF Age
  <2> QED BY <1>4, <1>9, <1>10, <2>1, <2>2 DEF Slot
<1>12. \A s \in Slot : Age(b, s) \in 0 .. MAXN - 1 /\ (Age(b, s) = Age(b, t) => s = t)
  BY QueueAges
<1>13. \A s : s \in Held(push_back(b, e)) <=> s \in Slot /\ Age(b, s) < Age(b, t) + 1
  BY <1>5, <1>7, <1>11 DEF Held
<1>14. \A s : s \in Held(b) <=> s \in Slot /\ Age(b, s) < Age(b, t)
  BY <1>3 DEF Held
<1>15. \A s \in Slot : Age(b, s) < Age(b, t) + 1 <=> Age(b, s) < Age(b, t) \/ s = t
  BY <1>9, <1>10, <1>12
<1>16. Held(push_back(b, e)) = Held(b) \cup {t}
  <2> HIDE DEF Held, Age, push_back
  <2> QED BY <1>13, <1>14, <1>15
<1>17. Age(b, t) < MAXN - 1
  BY <1>9, <1>10
<1> QED BY <1>2, <1>3, <1>5, <1>6, <1>7, <1>8, <1>16, <1>17

\* The oldest element leaves, and the others move up.
LEMMA QueuePop ==
  ASSUME NEW S, NEW b \in QueueOf(S), ~isempty(b)
  PROVE  /\ pop_front(b) \in QueueOf(S) /\ pop_front(b).queue = b.queue
         /\ pop_front(b).tail = b.tail /\ pop_front(b).head = get_nxt(b.head)
         /\ b.head \in Held(b) /\ Held(pop_front(b)) = Held(b) \ {b.head}
         /\ \A s \in Slot : s # b.head => Age(pop_front(b), s) = Age(b, s) - 1
<1>1. b.head \in Slot /\ b.tail \in Slot /\ b.queue \in [Slot -> S]
  BY DEF QueueOf
<1>2. PICK h \in Slot : h = b.head
  BY <1>1
<1>3. PICK t \in Slot : t = b.tail
  BY <1>1
<1>4. PICK n \in Slot : n = get_nxt(h)
  BY Circle
<1>5. pop_front(b).queue = b.queue /\ pop_front(b).head = n /\ pop_front(b).tail = t
  BY <1>2, <1>3, <1>4 DEF pop_front, QueueOf
<1>6. pop_front(b) \in QueueOf(S)
  BY <1>2, <1>4 DEF pop_front, QueueOf
<1>7. MAXN \in Nat /\ MAXN >= 2
  BY QueueAssumption DEF QueueAssumption
<1>8. \A s \in Slot : Age(b, s) = IF h <= s THEN s - h ELSE s - h + MAXN
  BY <1>2, Circle DEF Age
<1>9. \A s \in Slot : Age(pop_front(b), s) = IF n <= s THEN s - n ELSE s - n + MAXN
  BY <1>5, Circle DEF Age
<1>10. n = IF h = MAXN - 1 THEN 0 ELSE h + 1
  BY <1>4, Circle
<1>11. \A s \in Slot : Age(pop_front(b), s) = IF s = h THEN MAXN - 1 ELSE Age(b, s) - 1
  BY <1>7, <1>8, <1>9, <1>10 DEF Slot
<1>12. h \in Held(b) /\ t # h
  BY <1>2, <1>3, QueueAges DEF isempty
<1>13. \A s \in Slot : Age(b, s) \in 0 .. MAXN - 1
  BY QueueAges
<1>14. \A s : s \in Held(pop_front(b)) <=> s \in Slot /\ Age(pop_front(b), s) < Age(b, t) - 1
  BY <1>5, <1>11, <1>12 DEF Held
<1>15. \A s : s \in Held(b) <=> s \in Slot /\ Age(b, s) < Age(b, t)
  BY <1>3 DEF Held
<1>16. \A s \in Slot : Age(pop_front(b), s) < Age(b, t) - 1 <=> Age(b, s) < Age(b, t) /\ s # h
  BY <1>7, <1>11, <1>13
<1>17. Held(pop_front(b)) = Held(b) \ {h}
  <2> HIDE DEF Held, Age, pop_front
  <2> QED BY <1>14, <1>15, <1>16
<1> QED BY <1>2, <1>3, <1>4, <1>5, <1>6, <1>11, <1>12, <1>17

\* What is held depends on the head and the tail alone.
LEMMA QueueSame ==
  ASSUME NEW b, NEW c, b.head = c.head, b.tail = c.tail
  PROVE  Held(b) = Held(c) /\ \A s : Age(b, s) = Age(c, s)
  BY DEF Held, Age

(***************************************************************************)
(* What the operators of the buffers do.                                   *)
(***************************************************************************)
\* A slot found is one of the station's, empty or available.
LEMMA Found ==
  ASSUME NEW rs \in [Slot -> RsEntry]
  PROVE  /\ find_empty(rs) \in Slot \cup {MAXN} /\ find_available(rs) \in Slot \cup {MAXN}
         /\ find_empty(rs) # MAXN => ~rs[find_empty(rs)].status
         /\ find_available(rs) # MAXN => /\ rs[find_available(rs)].status
                                         /\ rs[find_available(rs)].qi = NO_TAG
                                         /\ rs[find_available(rs)].qj = NO_TAG
<1>1. MAXN \in Nat /\ Slot \subseteq Nat
  BY QueueAssumption DEF QueueAssumption, Slot
<1>2. ASSUME NEW F \in SUBSET Slot
      PROVE  Min(F \cup {MAXN}) \in F \cup {MAXN}
  <2>1. F \cup {MAXN} \in SUBSET Nat /\ F \cup {MAXN} # {}
    BY <1>1
  <2>2. PICK m \in F \cup {MAXN} : \A n \in F \cup {MAXN} : m <= n
    BY <2>1, LeastElement
  <2> QED BY <2>2 DEF Min
<1>3. Empty(rs) \in SUBSET Slot /\ Available(rs) \in SUBSET Slot
  BY DEF Empty, Available
<1>4. find_empty(rs) \in Empty(rs) \cup {MAXN} /\ find_available(rs) \in Available(rs) \cup {MAXN}
  BY <1>2, <1>3 DEF find_empty, find_available
<1> QED BY <1>3, <1>4 DEF Empty, Available

\* The constants that stand for nothing are no slots.
LEMMA Nothing == NO_TAG \notin Slot /\ NO_ENTRY \notin Slot /\ MAXN \notin Slot
  BY QueueAssumption DEF QueueAssumption, Slot, NO_TAG, NO_ENTRY

\* The stations hear that an instruction is committed.
LEMMA RsHear ==
  ASSUME NEW rs \in [Slot -> RsEntry], NEW idx \in Slot, NEW res \in Word
  PROVE  /\ rs_update(rs, idx, res) \in [Slot -> RsEntry]
         /\ \A s \in Slot : LET e == rs_update(rs, idx, res)[s]
                            IN /\ e.status = rs[s].status /\ e.idx = rs[s].idx
                               /\ e.status => /\ e.qi = (IF rs[s].qi = idx THEN NO_TAG ELSE rs[s].qi)
                                              /\ e.qj = (IF rs[s].qj = idx THEN NO_TAG ELSE rs[s].qj)
<1> DEFINE Told(e) == [e EXCEPT !.vi = IF e.qi = idx THEN res ELSE @,
                                !.qi = IF @ = idx THEN NO_TAG ELSE @,
                                !.vj = IF e.qj = idx THEN res ELSE @,
                                !.qj = IF @ = idx THEN NO_TAG ELSE @]
<1>1. ASSUME NEW e \in RsEntry
      PROVE  /\ Told(e) \in RsEntry
             /\ Told(e).status = e.status /\ Told(e).idx = e.idx
             /\ Told(e).qi = (IF e.qi = idx THEN NO_TAG ELSE e.qi)
             /\ Told(e).qj = (IF e.qj = idx THEN NO_TAG ELSE e.qj)
  <2>1. NO_TAG \in Tag
    BY DEF Tag
  <2>2. (IF e.qi = idx THEN res ELSE e.vi) \in Word /\ (IF e.qj = idx THEN res ELSE e.vj) \in Word
    BY DEF RsEntry
  <2>3. (IF e.qi = idx THEN NO_TAG ELSE e.qi) \in Tag /\ (IF e.qj = idx THEN NO_TAG ELSE e.qj) \in Tag
    BY <2>1 DEF RsEntry
  <2>4. Told(e) \in RsEntry
    BY <2>2, <2>3, Zenon DEF RsEntry
  <2>5. /\ Told(e).status = e.status /\ Told(e).idx = e.idx
        /\ Told(e).qi = (IF e.qi = idx THEN NO_TAG ELSE e.qi)
        /\ Told(e).qj = (IF e.qj = idx THEN NO_TAG ELSE e.qj)
    BY DEF RsEntry
  <2> QED BY <2>4, <2>5
<1>2. rs_update(rs, idx, res) = [s \in Slot |-> IF ~rs[s].status THEN rs[s] ELSE Told(rs[s])]
  BY Zenon DEF rs_update
<1> HIDE DEF Told
<1> QED BY <1>1, <1>2

\* The load store buffer hears it.
LEMMA LsbHear ==
  ASSUME NEW b \in QueueOf(LsbEntry), NEW idx \in Slot, NEW res \in Word
  PROVE  /\ lsb_Update(b, idx, res) \in QueueOf(LsbEntry)
         /\ lsb_Update(b, idx, res).head = b.head /\ lsb_Update(b, idx, res).tail = b.tail
         /\ \A s \in Slot : LET e == lsb_Update(b, idx, res).queue[s]
                                o == b.queue[s]
                            IN /\ e.op = o.op /\ e.idx = o.idx /\ e.round = o.round
                               /\ s \in Held(b) =>
                                    /\ e.commited <=> o.commited \/ (o.idx = idx /\ o.op \in StoreOps)
                                    /\ e.q = (IF o.q = idx THEN NO_TAG ELSE o.q)
                                    /\ e.q2 = (IF o.q2 = idx THEN NO_TAG ELSE o.q2)
<1> DEFINE Told(e) == [e EXCEPT !.commited = @ \/ (e.idx = idx /\ e.op \in StoreOps),
                                !.v  = IF e.q = idx THEN res ELSE @,
                                !.q  = IF @ = idx THEN NO_TAG ELSE @,
                                !.v2 = IF e.q2 = idx THEN res ELSE @,
                                !.q2 = IF @ = idx THEN NO_TAG ELSE @]
           q == [s \in Slot |-> IF s \notin Held(b) THEN b.queue[s] ELSE Told(b.queue[s])]
<1>1. ASSUME NEW e \in LsbEntry
      PROVE  /\ Told(e) \in LsbEntry
             /\ Told(e).op = e.op /\ Told(e).idx = e.idx /\ Told(e).round = e.round
             /\ Told(e).commited <=> e.commited \/ (e.idx = idx /\ e.op \in StoreOps)
             /\ Told(e).q = (IF e.q = idx THEN NO_TAG ELSE e.q)
             /\ Told(e).q2 = (IF e.q2 = idx THEN NO_TAG ELSE e.q2)
  <2>1. NO_TAG \in Tag
    BY DEF Tag
  <2>2. (IF e.q = idx THEN res ELSE e.v) \in Word /\ (IF e.q2 = idx THEN res ELSE e.v2) \in Word
    BY DEF LsbEntry
  <2>3. (IF e.q = idx THEN NO_TAG ELSE e.q) \in Tag /\ (IF e.q2 = idx THEN NO_TAG ELSE e.q2) \in Tag
    BY <2>1 DEF LsbEntry
  <2> DEFINE paid == e.commited \/ (e.idx = idx /\ e.op \in StoreOps)
  <2>4. paid \in BOOLEAN
    BY DEF LsbEntry
  <2>5. Told(e) = [e EXCEPT !.commited = paid,
                            !.v  = IF e.q = idx THEN res ELSE @,
                            !.q  = IF @ = idx THEN NO_TAG ELSE @,
                            !.v2 = IF e.q2 = idx THEN res ELSE @,
                            !.q2 = IF @ = idx THEN NO_TAG ELSE @]
    BY Zenon
  <2> HIDE DEF paid
  <2>6. Told(e) \in LsbEntry
    <3> HIDE DEF Told
    <3> QED BY <2>2, <2>3, <2>4, <2>5, Zenon DEF LsbEntry
  <2>7. /\ Told(e).op = e.op /\ Told(e).idx = e.idx /\ Told(e).round = e.round
        /\ Told(e).commited = paid
        /\ Told(e).q = (IF e.q = idx THEN NO_TAG ELSE e.q)
        /\ Told(e).q2 = (IF e.q2 = idx THEN NO_TAG ELSE e.q2)
    <3> HIDE DEF Told
    <3> QED BY <2>5 DEF LsbEntry
  <2> HIDE DEF Told
  <2> QED BY <2>6, <2>7 DEF paid
<1>2. lsb_Update(b, idx, res) = [b EXCEPT !.queue = q]
  BY Zenon DEF lsb_Update
<1>3. b.queue \in [Slot -> LsbEntry]
  BY DEF QueueOf
<1> HIDE DEF Told
<1>4. q \in [Slot -> LsbEntry]
  BY <1>1, <1>3
<1>5. \A s \in Slot : q[s] = IF s \notin Held(b) THEN b.queue[s] ELSE Told(b.queue[s])
  OBVIOUS
<1> HIDE DEF q
<1>6. /\ lsb_Update(b, idx, res) \in QueueOf(LsbEntry)
      /\ lsb_Update(b, idx, res).head = b.head /\ lsb_Update(b, idx, res).tail = b.tail
      /\ lsb_Update(b, idx, res).queue = q
  BY <1>2, <1>4 DEF QueueOf
<1> QED BY <1>1, <1>3, <1>5, <1>6

\* A result marks the entry it is for.
LEMMA RobMarked ==
  ASSUME NEW b \in QueueOf(RobEntry), NEW r \in Result
  PROVE  /\ Marked(b, r) \in QueueOf(RobEntry)
         /\ Marked(b, r).head = b.head /\ Marked(b, r).tail = b.tail
         /\ \A s \in Slot : LET e == Marked(b, r).queue[s]
                            IN /\ e.tp = b.queue[s].tp /\ e.addr = b.queue[s].addr
                               /\ e.end = b.queue[s].end
                               /\ e.ready <=> b.queue[s].ready \/ s = r.first
<1> DEFINE i == r.first
           q == [s \in Slot |-> IF s = i THEN [b.queue[i] EXCEPT !.ready = TRUE, !.result = r.second]
                                ELSE b.queue[s]]
<1>1. b.queue \in [Slot -> RobEntry] /\ r.second \in Word
  BY DEF QueueOf, Result
<1>2. CASE i \in Slot
  <2>1. b.queue[i] \in RobEntry
    BY <1>1, <1>2
  <2> DEFINE e == [b.queue[i] EXCEPT !.ready = TRUE, !.result = r.second]
  <2>2. e \in RobEntry
    BY <2>1, <1>1, Zenon DEF RobEntry
  <2>3. /\ e.tp = b.queue[i].tp /\ e.addr = b.queue[i].addr
        /\ e.end = b.queue[i].end /\ e.ready = TRUE
    BY <2>1 DEF RobEntry
  <2>4. Marked(b, r) = [b EXCEPT !.queue[i].ready = TRUE, !.queue[i].result = r.second]
    BY <1>2 DEF Marked
  <2>5. Marked(b, r) = [b EXCEPT !.queue = [b.queue EXCEPT ![i] = e]]
    BY <1>1, <1>2, <2>4 DEF QueueOf
  <2> HIDE DEF e
  <2>6. [b.queue EXCEPT ![i] = e] \in [Slot -> RobEntry]
    BY <1>1, <2>2
  <2>7. /\ Marked(b, r) \in QueueOf(RobEntry)
        /\ Marked(b, r).head = b.head /\ Marked(b, r).tail = b.tail
        /\ Marked(b, r).queue = [b.queue EXCEPT ![i] = e]
    BY <2>5, <2>6 DEF QueueOf
  <2> QED BY <1>1, <1>2, <2>3, <2>7
<1>3. CASE i \notin Slot
  BY <1>3 DEF Marked
<1> QED BY <1>2, <1>3

\* What Execute computes is a word.
LEMMA ExecuteWord ==
  ASSUME NEW op \in Operations, NEW i \in Word, NEW j \in Word
  PROVE  EX_to_ROB_of(op, i, j) \in Word
<1>1. i \in Nat /\ i \in Int /\ j \in Int /\ 2^XLEN \in Nat /\ 2^XLEN >= 1
  BY WordArithmetic, Powers
<1>2. Add(i, j) \in Word /\ Sub(i, j) \in Word /\ \A b : Flag(b) \in Word
  BY <1>1, WordArithmetic, Zenon
<1>3. \A S : FromBits(S) \in Word
  BY FromBitsWord
<1>4. PICK n \in 0 .. XLEN : n = Amount(j)
  <2>1. XLEN \in Nat /\ XLEN >= 1
    BY WordAssumption DEF WordAssumption
  <2>2. j % XLEN \in 0 .. XLEN - 1
    BY <1>1, <2>1, Remainder
  <2> QED BY <2>1, <2>2 DEF Amount
<1>5. PICK p \in Nat : p = 2^n /\ p >= 1
  BY Powers
<1>6. (i * p) % 2^XLEN \in Word
  <2>1. PICK m \in Nat : m = 2^XLEN /\ m >= 1
    BY <1>1
  <2>2. PICK x \in Int : x = i * p
    BY <1>1, <1>5
  <2>3. x % m \in 0 .. m - 1
    BY <2>1, <2>2, Remainder
  <2> QED BY <2>1, <2>2, <2>3 DEF Word
<1>7. i \div p \in Word
  <2>1. i \div p \in 0 .. i
    BY <1>1, <1>5, Quotient
  <2> QED BY <1>1, <2>1 DEF Word
<1>8. 2^XLEN - 1 \in Word
  BY <1>1 DEF Word
<1>9. ShiftFilling(i, j) \in Word
  BY <1>4, <1>5, <1>7, <1>8 DEF ShiftFilling
<1>10. (i * 2^Amount(j)) % 2^XLEN \in Word /\ i \div 2^Amount(j) \in Word
  BY <1>4, <1>5, <1>6, <1>7
<1> HIDE DEF Word
<1>11. ASSUME op = "+" \/ op = "-" PROVE EX_to_ROB_of(op, i, j) \in Word
  BY <1>2, <1>11 DEF EX_to_ROB_of
<1>12. ASSUME op = "^" \/ op = "|" \/ op = "&" PROVE EX_to_ROB_of(op, i, j) \in Word
  BY <1>3, <1>12 DEF EX_to_ROB_of
<1>13. ASSUME op = "<<" \/ op = ">>" \/ op = ">> tianchong" PROVE EX_to_ROB_of(op, i, j) \in Word
  BY <1>9, <1>10, <1>13 DEF EX_to_ROB_of
<1>14. ASSUME op \in {"<", "unsigned <", "== pc+", "!= pc+", "< pc+", ">= pc+", "unsigned < pc+",
                      "unsigned >= pc+"}
       PROVE  EX_to_ROB_of(op, i, j) \in Word
  BY <1>2, <1>14 DEF EX_to_ROB_of
<1> QED BY <1>11, <1>12, <1>13, <1>14 DEF Operations

(***************************************************************************)
(* When a copy is the original, and when a vector may hold something.      *)
(***************************************************************************)
Copies == /\ stage \notin {"IF_Run", "RS_Run", "LSB_Run", "REG_Run", "Update"} => ROB_pre = ROB
          /\ stage \notin {"LSB_Run", "REG_Run", "Update"} => RS_pre = RS
          /\ stage \notin {"REG_Run", "Update"} => LSB_pre = LSB /\ LSB_to_ROB_pre = LSB_to_ROB
          /\ stage # "Update" => reg_pre = reg

Prepared == /\ up_ROB # <<>> => stage \in {"Commit", "ROB_Run"} /\ ~isfull(ROB)
            /\ up_RS # <<>> => /\ stage \in {"Commit", "ROB_Run", "IF_Run", "RS_Run"}
                               /\ find_empty(RS) # MAXN /\ Head(up_RS).status
            /\ up_LSB # <<>> => /\ stage \in {"Commit", "ROB_Run", "IF_Run", "RS_Run", "LSB_Run"}
                                /\ ~isfull(LSB)
            /\ up_reg_q_ex # <<>> => stage \in {"Commit", "ROB_Run", "IF_Run", "RS_Run",
                                                "LSB_Run", "REG_Run"}
            /\ up_reg_v_ex # <<>> => stage \in {"ROB_Run", "IF_Run", "RS_Run", "LSB_Run",
                                                "REG_Run"}
            /\ EX_Run_ # <<>> => stage \in {"LSB_Run", "REG_Run", "Update", "Execute"}
            /\ commit_ # <<>> => stage \notin {"ROB_Run"}

(***************************************************************************)
(* The buffers with what was prepared for them: that a stage puts it where *)
(* it belongs changes nothing in this view.                                *)
(***************************************************************************)
RobSeen == IF up_ROB = <<>> THEN ROB ELSE push_back(ROB, Head(up_ROB))
LsbSeen == IF up_LSB = <<>> THEN LSB ELSE push_back(LSB, Head(up_LSB))
RsSeen  == IF up_RS = <<>> THEN RS ELSE [RS EXCEPT ![find_empty(RS)] = Head(up_RS)]
RegWritten == IF up_reg_v_ex = <<>> THEN reg ELSE Assigned(reg, Head(up_reg_v_ex))
RegSeen    == IF up_reg_q_ex = <<>> THEN RegWritten ELSE Renamed(RegWritten, Head(up_reg_q_ex))

Flying(s)     == s \in Held(RobSeen)
Of(s)         == RobSeen.queue[s]
RobAge(s)     == Age(RobSeen, s)
Unfinished(s) == Flying(s) /\ ~Of(s).end /\ ~Of(s).ready
AccessAt(k)     == LsbSeen.queue[k]
Open(k)       == k \in Held(LsbSeen) /\ ~AccessAt(k).commited

(***************************************************************************)
(* Where an instruction may be worked on.                                  *)
(***************************************************************************)
InRs(s, i)  == i \in Slot /\ RsSeen[i].status /\ RsSeen[i].idx = s
InEx(s)     == EX_Run_ # <<>> /\ Head(EX_Run_).idx = s
Computed(s) == stage \in {"ISSUE_Run", "Commit", "ROB_Run"} /\ EX_to_ROB.first = s
InLsb(s, k) == Open(k) /\ AccessAt(k).idx = s
Loaded(s)   == stage \notin {"IF_Run", "RS_Run", "LSB_Run"} /\ LSB_to_ROB.first = s

\* The instruction that has left the reorder buffer in this cycle, and the one in the last.
Left(s)      == commit_ # <<>> /\ Head(commit_).idx = s
Announced(s) == s \in Slot /\ Number_ROB = s
ToStations(s) == Left(s) \/ (Announced(s) /\ stage \in {"ROB_Run", "IF_Run", "RS_Run"})
Telling(s)   == Announced(s) /\ stage \in {"ROB_Run", "IF_Run", "RS_Run", "LSB_Run"}
ToAccesses(s) == Left(s) \/ Telling(s)

LastOut == /\ \A s \in Slot : Left(s) => get_nxt(s) = RobSeen.head
           /\ \A s \in Slot : Telling(s) => ~Flying(s) /\ ~Left(s)
           /\ stage = "Commit" /\ up_reg_q_ex # <<>> => Flying(Head(up_reg_q_ex).tag)

Owned ==
  /\ \A s, i \in Slot : InRs(s, i) => Unfinished(s) /\ Of(s).tp # "store"
  /\ \A s \in Slot : InEx(s) \/ Computed(s) \/ Loaded(s) => Unfinished(s) /\ Of(s).tp # "store"
  /\ \A s, k \in Slot : InLsb(s, k) =>
       IF AccessAt(k).op \in LoadOps THEN Unfinished(s) /\ Of(s).tp # "store"
       ELSE \/ Unfinished(s) /\ Of(s).tp = "store"
            \/ Left(s) /\ Head(commit_).rob.tp = "store"
            \/ Telling(s)

Alone ==
  /\ \A s, i, j \in Slot : InRs(s, i) /\ InRs(s, j) => i = j
  /\ \A s, i \in Slot : InRs(s, i) => ~InEx(s) /\ ~Computed(s) /\ ~Loaded(s)
  /\ \A s, i, k \in Slot : InRs(s, i) => ~InLsb(s, k)
  /\ \A s, k, l \in Slot : InLsb(s, k) /\ InLsb(s, l) => k = l
  /\ \A s, k \in Slot : InLsb(s, k) => ~InEx(s) /\ ~Computed(s) /\ ~Loaded(s)
  /\ \A s \in Slot : /\ InEx(s) => ~Computed(s) /\ ~Loaded(s)
                     /\ Computed(s) => ~Loaded(s)

Worked ==
  \A s \in Slot : Unfinished(s) =>
    \/ InEx(s) \/ Computed(s) \/ Loaded(s)
    \/ \E i \in Slot : InRs(s, i)
    \/ \E k \in Slot : InLsb(s, k)

StoresNotReady == \A s \in Slot : Flying(s) /\ Of(s).tp = "store" => ~Of(s).ready /\ ~Of(s).end

\* An operand that is missing is that of an older instruction, or is announced in time.
Gives(t, s) == Flying(t) /\ RobAge(t) < RobAge(s) /\ ~Of(t).end /\ Of(t).tp \in {"value", "jal"}

OperandsInRs ==
  \A i, t \in Slot : RsSeen[i].status /\ (RsSeen[i].qi = t \/ RsSeen[i].qj = t) =>
    Gives(t, RsSeen[i].idx) \/ ToStations(t)

OperandsInLsb ==
  \A k, t \in Slot : k \in Held(LsbSeen) /\ (AccessAt(k).q = t \/ AccessAt(k).q2 = t) =>
    /\ Open(k)
    /\ \/ Flying(AccessAt(k).idx) /\ (Gives(t, AccessAt(k).idx) \/ ToAccesses(t))
       \/ Left(AccessAt(k).idx) /\ Telling(t)

Rounds == \A k \in Slot : k \in Held(LsbSeen) =>
               /\ AccessAt(k).round >= 1
               /\ AccessAt(k).commited => AccessAt(k).op \in StoreOps

\* A register names the youngest instruction that writes it.
Writes(s, r) == Flying(s) /\ ~Of(s).end /\ Of(s).tp \in {"value", "jal"} /\ Of(s).addr = r

NamesYoungest(r) == /\ RegSeen[r].status /\ Writes(RegSeen[r].q, r)
                    /\ \A s \in Slot : Writes(s, r) /\ s # RegSeen[r].q =>
                         RobAge(s) < RobAge(RegSeen[r].q)
NamesNone(r) == /\ \A s \in Slot : ~Writes(s, r)
                /\ RegSeen[r].status => /\ Left(RegSeen[r].q)
                                        /\ Head(commit_).rob.tp \in {"value", "jal"}
                                        /\ Head(commit_).rob.addr = r
Names == /\ ~reg[0].status
         /\ \A r \in RegIndex \ {0} : NamesYoungest(r) \/ NamesNone(r)

\* The committed stores come first, and behind them what is in flight, in its order.
Paid(k) == AccessAt(k).commited \/ (AccessAt(k).op \in StoreOps /\ ToAccesses(AccessAt(k).idx))
InOrder == \A j, k \in Slot :
             /\ j \in Held(LsbSeen) /\ k \in Held(LsbSeen)
             /\ Age(LsbSeen, j) < Age(LsbSeen, k)
           =>
             \/ AccessAt(j).commited
             \/ ~AccessAt(k).commited /\
                   \/ Paid(j) /\ Flying(AccessAt(k).idx)
                   \/ Telling(AccessAt(j).idx) /\ Left(AccessAt(k).idx)
                   \/ /\ Flying(AccessAt(j).idx) /\ Flying(AccessAt(k).idx)
                      /\ RobAge(AccessAt(j).idx) < RobAge(AccessAt(k).idx)

Sched == /\ Copies /\ Prepared /\ LastOut /\ Owned /\ Alone /\ Worked /\ StoresNotReady
         /\ OperandsInRs /\ OperandsInLsb /\ Rounds /\ Names /\ InOrder

WsInv == WsTypes /\ (exited = "no" => Sched)

(***************************************************************************)
(* What the stages do, in this view.                                       *)
(***************************************************************************)
\* The view has the types of the buffers.
LEMMA ViewTypes ==
  ASSUME WsTypes, Prepared
  PROVE  /\ RobSeen \in QueueOf(RobEntry) /\ LsbSeen \in QueueOf(LsbEntry)
         /\ RsSeen \in [Slot -> RsEntry]
         /\ RobSeen.head = ROB.head /\ LsbSeen.head = LSB.head
<1> USE DEF WsTypes, BufferTypes, VectorTypes, Vector, Prepared
<1>1. RobSeen \in QueueOf(RobEntry) /\ RobSeen.head = ROB.head
  BY QueuePush DEF RobSeen
<1>2. LsbSeen \in QueueOf(LsbEntry) /\ LsbSeen.head = LSB.head
  BY QueuePush DEF LsbSeen
<1>3. RsSeen \in [Slot -> RsEntry]
  <2>1. CASE up_RS = <<>>
    BY <2>1 DEF RsSeen
  <2>2. CASE up_RS # <<>>
    <3>1. PICK e \in RsEntry : e = Head(up_RS)
      BY <2>2
    <3>2. RsSeen = [RS EXCEPT ![find_empty(RS)] = e]
      BY <2>2, <3>1 DEF RsSeen
    <3> QED BY <3>1, <3>2
  <2> QED BY <2>1, <2>2
<1> QED BY <1>1, <1>2, <1>3

\* The reorder buffer: results mark their entries, and the oldest may leave.
RobMarks == \A s \in Slot : /\ Of(s)'.tp = Of(s).tp /\ Of(s)'.addr = Of(s).addr
                            /\ Of(s)'.end = Of(s).end
                            /\ Of(s)'.ready <=> Of(s).ready \/ Computed(s) \/ Loaded(s)
RobKeeps == /\ commit_' = <<>>
            /\ RobSeen'.head = RobSeen.head
            /\ \A s \in Slot : (Flying(s)' <=> Flying(s)) /\ RobAge(s)' = RobAge(s)
RobPops == \E front \in RobEntry :
             /\ front = Of(RobSeen.head)
             /\ commit_' = <<[rob |-> front, idx |-> RobSeen.head]>>
             /\ RobSeen.head \in Slot /\ Flying(RobSeen.head) /\ ~front.end
             /\ front.ready \/ front.tp = "store"
             /\ RobSeen'.head = get_nxt(RobSeen.head)
             /\ \A s \in Slot : /\ Flying(s)' <=> Flying(s) /\ s # RobSeen.head
                                /\ s # RobSeen.head => RobAge(s)' = RobAge(s) - 1

\* ROB_Run, in the view.
LEMMA RobRuns ==
  ASSUME WsTypes, Copies, Prepared, ROB_Run
  PROVE  /\ ROB' \in QueueOf(RobEntry) /\ commit_' \in Vector(Leaving)
         /\ up_ROB' = <<>> /\ RobSeen' = ROB'
         /\ RobMarks /\ (RobKeeps \/ RobPops)
<1> DEFINE m == Marked(Marked(RobSeen, LSB_to_ROB_pre), EX_to_ROB)
<1>0. stage = "ROB_Run" /\ stage' = "IF_Run" /\ exited = "no"
  BY DEF ROB_Run, Turn
<1>1. ROB_pre = ROB /\ LSB_to_ROB_pre = LSB_to_ROB
  BY <1>0 DEF Copies
<1>2. RobSeen \in QueueOf(RobEntry) /\ RobSeen.head = ROB.head
  BY ViewTypes
<1>3. EX_to_ROB \in Result /\ LSB_to_ROB \in Result
  BY DEF WsTypes, ResultTypes
<1>4. up_ROB \in Vector(RobEntry) /\ (up_ROB # <<>> => ~isfull(ROB)) /\ commit_ = <<>>
  BY <1>0 DEF Prepared, WsTypes, VectorTypes
<1>5. (IF isfull(ROB_pre) THEN ROB ELSE Pushed(ROB, up_ROB)) = RobSeen
  <2>1. Pushed(ROB, up_ROB) = IF up_ROB = <<>> THEN ROB ELSE push_back(ROB, Head(up_ROB))
    BY <1>4, PushedOne
  <2> QED BY <1>1, <1>4, <2>1 DEF RobSeen
<1>6. NewROB = m
  BY <1>5, <1>1 DEF NewROB
<1>7. PICK a \in QueueOf(RobEntry) : a = Marked(RobSeen, LSB_to_ROB)
  BY <1>2, <1>3, RobMarked
<1>8. m = Marked(a, EX_to_ROB)
  BY <1>7, <1>1
<1>9. /\ m \in QueueOf(RobEntry) /\ m.head = RobSeen.head /\ m.tail = RobSeen.tail
      /\ \A s \in Slot : /\ m.queue[s].tp = Of(s).tp /\ m.queue[s].addr = Of(s).addr
                         /\ m.queue[s].end = Of(s).end
                         /\ m.queue[s].ready <=> Of(s).ready \/ Computed(s) \/ Loaded(s)
  <2> HIDE DEF m
  <2>1. /\ a.head = RobSeen.head /\ a.tail = RobSeen.tail
        /\ \A s \in Slot : /\ a.queue[s].tp = Of(s).tp /\ a.queue[s].addr = Of(s).addr
                           /\ a.queue[s].end = Of(s).end
                           /\ a.queue[s].ready <=> Of(s).ready \/ s = LSB_to_ROB.first
    BY <1>2, <1>3, <1>7, RobMarked, Zenon DEF Of
  <2>2. /\ m \in QueueOf(RobEntry) /\ m.head = a.head /\ m.tail = a.tail
        /\ \A s \in Slot : /\ m.queue[s].tp = a.queue[s].tp /\ m.queue[s].addr = a.queue[s].addr
                           /\ m.queue[s].end = a.queue[s].end
                           /\ m.queue[s].ready <=> a.queue[s].ready \/ s = EX_to_ROB.first
    BY <1>3, <1>8, RobMarked, Zenon
  <2>3. \A s \in Slot : (Computed(s) <=> s = EX_to_ROB.first) /\ (Loaded(s) <=> s = LSB_to_ROB.first)
    BY <1>0 DEF Computed, Loaded
  <2> QED BY <2>1, <2>2, <2>3
<1>10. up_ROB' = <<>> /\ RobSeen' = ROB'
  BY DEF ROB_Run, RobSeen
<1> DEFINE front  == get_front(ROB)
           leaves == ~isempty(ROB) /\ ~front.end /\ (front.ready \/ front.tp = "store")
<1>11. /\ ROB' = IF leaves THEN pop_front(m) ELSE m
       /\ commit_' = IF leaves THEN <<[rob |-> front, idx |-> ROB.head]>> ELSE commit_
  BY <1>1, <1>6 DEF ROB_Run
<1> HIDE DEF m
<1>12. CASE ~leaves
  <2>1. ROB' = m /\ commit_' = <<>>
    BY <1>4, <1>11, <1>12
  <2>2. ROB' \in QueueOf(RobEntry) /\ commit_' \in Vector(Leaving)
    BY <1>9, <2>1 DEF Vector
  <2>3. RobMarks
    BY <1>9, <1>10, <2>1 DEF RobMarks, Of
  <2>4. RobKeeps
    <3>1. Held(m) = Held(RobSeen) /\ \A s : Age(m, s) = Age(RobSeen, s)
      BY <1>9, QueueSame
    <3> QED BY <1>9, <1>10, <2>1, <3>1 DEF RobKeeps, Flying, RobAge
  <2> QED BY <1>10, <2>2, <2>3, <2>4
<1>13. CASE leaves
  <2>1. ROB' = pop_front(m) /\ commit_' = <<[rob |-> front, idx |-> ROB.head]>>
    BY <1>11, <1>13
  <2>2. ROB \in QueueOf(RobEntry)
    BY DEF WsTypes, BufferTypes
  <2>3. PICK h \in Slot : h = ROB.head
    BY <2>2 DEF QueueOf
  <2>4. h \in Held(RobSeen) /\ RobSeen.queue[h] = ROB.queue[h]
    <3>1. h \in Held(ROB) /\ h # ROB.tail
      BY <1>13, <2>2, <2>3, QueueAges DEF isempty
    <3>2. CASE up_ROB = <<>>
      BY <3>1, <3>2 DEF RobSeen
    <3>3. CASE up_ROB # <<>>
      <4>1. PICK e \in RobEntry : e = Head(up_ROB)
        BY <1>4, <3>3 DEF Vector
      <4>2. RobSeen = push_back(ROB, e)
        BY <3>3, <4>1 DEF RobSeen
      <4>3. ~isfull(ROB)
        BY <1>4, <3>3
      <4> QED BY <2>2, <3>1, <4>2, <4>3, QueuePush
    <3> QED BY <3>2, <3>3
  <2>5. front = Of(h) /\ front \in RobEntry
    <3>1. front = ROB.queue[h]
      BY <2>3 DEF get_front
    <3> QED BY <2>2, <2>4, <3>1 DEF Of, QueueOf
  <2>6. ~isempty(m)
    <3>1. h \in Held(m)
      BY <1>9, <2>4, QueueSame
    <3> QED BY <1>9, <3>1, QueueAges
  <2>7. ROB' \in QueueOf(RobEntry) /\ ROB'.queue = m.queue /\ ROB'.head = get_nxt(h)
    BY <1>2, <1>9, <2>1, <2>3, <2>6, QueuePop
  <2>8. RobMarks
    BY <1>9, <1>10, <2>7 DEF RobMarks, Of
  <2>9. \A s \in Slot : /\ s \in Held(ROB') <=> s \in Held(RobSeen) /\ s # h
                        /\ s # h => Age(ROB', s) = Age(RobSeen, s) - 1
    <3>1. Held(m) = Held(RobSeen) /\ \A s : Age(m, s) = Age(RobSeen, s)
      BY <1>9, QueueSame
    <3>2. Held(ROB') = Held(m) \ {h} /\ \A s \in Slot : s # h => Age(ROB', s) = Age(m, s) - 1
      BY <1>2, <1>9, <2>1, <2>3, <2>6, QueuePop
    <3> QED BY <3>1, <3>2
  <2>10. RobPops
    <3> HIDE DEF front
    <3>1. commit_' = <<[rob |-> front, idx |-> h]>> /\ h = RobSeen.head
      BY <1>2, <2>1, <2>3
    <3>2. \A s \in Slot : /\ Flying(s)' <=> Flying(s) /\ s # h
                          /\ s # h => RobAge(s)' = RobAge(s) - 1
      BY <1>10, <2>9 DEF Flying, RobAge
    <3>3. Flying(h) /\ RobSeen'.head = get_nxt(h)
      BY <1>10, <2>4, <2>7 DEF Flying
    <3> QED BY <1>13, <2>5, <3>1, <3>2, <3>3 DEF RobPops
  <2>11. commit_' \in Vector(Leaving)
    <3> HIDE DEF front
    <3>1. [rob |-> front, idx |-> h] \in Leaving
      BY <2>5 DEF Leaving
    <3> QED BY <2>1, <2>3, <3>1 DEF Vector
  <2> QED BY <1>10, <2>7, <2>8, <2>10, <2>11
<1> QED BY <1>12, <1>13

\* The stations: one with its operands leaves, and the others hear of a commit.
RsWorks == \E pos \in Slot \cup {MAXN} :
             /\ \A s \in Slot : InEx(s)' <=> pos # MAXN /\ InRs(s, pos)
             /\ \A i \in Slot :
                  /\ RsSeen'[i].status <=> RsSeen[i].status /\ i # pos
                  /\ RsSeen'[i].status =>
                       /\ RsSeen'[i].idx = RsSeen[i].idx
                       /\ \A t \in Slot : /\ RsSeen'[i].qi = t => RsSeen[i].qi = t /\ ~Announced(t)
                                          /\ RsSeen'[i].qj = t => RsSeen[i].qj = t /\ ~Announced(t)

\* RS_Run: a station with its operands leaves, the others hear of a commit.
LEMMA StationsRun ==
  ASSUME WsTypes, Copies, Prepared, RS_Run
  PROVE  /\ RS' \in [Slot -> RsEntry] /\ EX_Run_' \in Vector(RsEntry)
         /\ up_RS' = <<>> /\ RsSeen' = RS' /\ RsWorks
<1> DEFINE pos == find_available(RS)
           gone == IF pos = MAXN THEN RsSeen ELSE [RsSeen EXCEPT ![pos].status = FALSE]
<1>0. stage = "RS_Run" /\ stage' = "LSB_Run" /\ exited = "no"
  BY DEF RS_Run, Turn
<1>1. RS_pre = RS
  BY <1>0 DEF Copies
<1>2. RS \in [Slot -> RsEntry] /\ RsSeen \in [Slot -> RsEntry]
  BY ViewTypes DEF WsTypes, BufferTypes
<1>3. EX_Run_ = <<>> /\ (up_RS # <<>> => find_empty(RS) # MAXN)
  BY <1>0 DEF Prepared
<1>4. up_RS' = <<>> /\ RsSeen' = RS'
  BY DEF RS_Run, RsSeen
<1>5. (IF up_RS = <<>> THEN RS ELSE [RS EXCEPT ![find_empty(RS_pre)] = Head(up_RS)]) = RsSeen
  BY <1>1 DEF RsSeen
<1>6. RS' = Delivered(gone)
  <2>1. CASE pos = MAXN
    BY <1>1, <1>5, <2>1 DEF RS_Run
  <2>2. CASE pos # MAXN
    BY <1>1, <1>5, <2>2 DEF RS_Run
  <2> QED BY <2>1, <2>2
<1>7. EX_Run_' = IF pos = MAXN THEN <<>> ELSE <<RS[pos]>>
  <2>1. CASE pos = MAXN
    BY <1>1, <1>3, <2>1 DEF RS_Run
  <2>2. CASE pos # MAXN
    <3>1. PICK e \in RsEntry : e = RS[pos]
      BY <1>2, <2>2, Found
    <3>2. EX_Run_' = Append(<<>>, e)
      BY <1>1, <1>3, <2>2, <3>1 DEF RS_Run
    <3> QED BY <2>2, <3>1, <3>2
  <2> QED BY <2>1, <2>2
<1>8. /\ pos \in Slot \cup {MAXN}
      /\ pos # MAXN => RS[pos].status
      /\ find_empty(RS) \in Slot \cup {MAXN}
      /\ find_empty(RS) # MAXN => ~RS[find_empty(RS)].status
  BY <1>2, Found
<1> HIDE DEF pos
<1>9. pos # MAXN => RsSeen[pos] = RS[pos]
  <2>1. CASE up_RS = <<>>
    BY <2>1 DEF RsSeen
  <2>2. CASE up_RS # <<>>
    <3>1. PICK f \in Slot : f = find_empty(RS)
      BY <1>3, <1>8, <2>2
    <3>2. pos # MAXN => pos # f
      BY <1>3, <1>8, <2>2, <3>1
    <3>3. RsSeen = [RS EXCEPT ![f] = Head(up_RS)]
      BY <2>2, <3>1 DEF RsSeen
    <3> QED BY <1>2, <1>8, <3>2, <3>3
  <2> QED BY <2>1, <2>2
<1>10. /\ gone \in [Slot -> RsEntry]
       /\ \A i \in Slot : /\ gone[i].status <=> RsSeen[i].status /\ i # pos
                          /\ gone[i].idx = RsSeen[i].idx
                          /\ gone[i].qi = RsSeen[i].qi /\ gone[i].qj = RsSeen[i].qj
  <2>1. CASE pos = MAXN
    BY <1>2, <2>1, Nothing
  <2>2. CASE pos # MAXN
    <3> DEFINE e == [RsSeen[pos] EXCEPT !.status = FALSE]
    <3>1. RsSeen[pos] \in RsEntry /\ pos \in Slot
      BY <1>2, <1>8, <2>2
    <3>2. /\ e \in RsEntry /\ ~e.status /\ e.idx = RsSeen[pos].idx /\ e.qi = RsSeen[pos].qi
          /\ e.qj = RsSeen[pos].qj
      BY <3>1 DEF RsEntry
    <3>3. gone = [RsSeen EXCEPT ![pos] = e]
      BY <1>2, <2>2, <3>1
    <3> HIDE DEF e, gone
    <3>4. gone \in [Slot -> RsEntry] /\ \A i \in Slot : gone[i] = IF i = pos THEN e ELSE RsSeen[i]
      BY <1>2, <3>1, <3>2, <3>3
    <3> QED BY <3>1, <3>2, <3>4
  <2> QED BY <2>1, <2>2
<1> HIDE DEF gone
<1>11. /\ RS' \in [Slot -> RsEntry]
       /\ \A i \in Slot :
            /\ RS'[i].status <=> gone[i].status
            /\ RS'[i].idx = gone[i].idx
            /\ RS'[i].status =>
                 \A t \in Slot : /\ RS'[i].qi = t => gone[i].qi = t /\ ~Announced(t)
                                 /\ RS'[i].qj = t => gone[i].qj = t /\ ~Announced(t)
  <2>1. CASE Number_ROB \in Slot
    <3>1. PICK n \in Slot : n = Number_ROB
      BY <2>1
    <3>2. Number_Result \in Word
      BY DEF WsTypes, ResultTypes
    <3>3. RS' = rs_update(gone, n, Number_Result)
      BY <1>6, <3>1 DEF Delivered
    <3>4. /\ RS' \in [Slot -> RsEntry]
          /\ \A s \in Slot : /\ RS'[s].status = gone[s].status /\ RS'[s].idx = gone[s].idx
                             /\ RS'[s].status => /\ RS'[s].qi = (IF gone[s].qi = n THEN NO_TAG ELSE gone[s].qi)
                                                 /\ RS'[s].qj = (IF gone[s].qj = n THEN NO_TAG ELSE gone[s].qj)
      <4> DEFINE u == rs_update(gone, n, Number_Result)
      <4>1. /\ u \in [Slot -> RsEntry]
            /\ \A s \in Slot : /\ u[s].status = gone[s].status /\ u[s].idx = gone[s].idx
                               /\ u[s].status => /\ u[s].qi = (IF gone[s].qi = n THEN NO_TAG ELSE gone[s].qi)
                                                 /\ u[s].qj = (IF gone[s].qj = n THEN NO_TAG ELSE gone[s].qj)
        BY <1>10, <3>2, RsHear
      <4> HIDE DEF u
      <4>2. RS' = u
        BY <3>3 DEF u
      <4> QED BY <4>1, <4>2
    <3> QED BY <3>1, <3>4, Nothing DEF Announced
  <2>2. CASE Number_ROB \notin Slot
    <3>1. RS' = gone
      BY <1>6, <2>2 DEF Delivered
    <3> QED BY <1>10, <2>2, <3>1 DEF Announced
  <2> QED BY <2>1, <2>2
<1>12. EX_Run_' \in Vector(RsEntry)
  BY <1>2, <1>7, <1>8 DEF Vector
<1>13. \A s \in Slot : InEx(s)' <=> pos # MAXN /\ InRs(s, pos)
  <2>1. CASE pos = MAXN
    BY <1>7, <2>1 DEF InEx
  <2>2. CASE pos # MAXN
    <3>1. EX_Run_' = <<RS[pos]>>
      BY <1>7, <2>2
    <3>2. RsSeen[pos].status /\ RsSeen[pos] = RS[pos] /\ pos \in Slot
      BY <1>8, <1>9, <2>2
    <3> QED BY <2>2, <3>1, <3>2 DEF InEx, InRs
  <2> QED BY <2>1, <2>2
<1>14. RsWorks
  BY <1>4, <1>8, <1>10, <1>11, <1>13 DEF RsWorks
<1> QED BY <1>4, <1>11, <1>12, <1>14

\* The load store buffer: what was prepared enters, and all hear of a commit.
LsbHeard(n) == /\ n \in QueueOf(LsbEntry) /\ n.head = LsbSeen.head /\ n.tail = LsbSeen.tail
               /\ \A k \in Slot : k \in Held(LsbSeen) =>
                    /\ n.queue[k].op = AccessAt(k).op /\ n.queue[k].idx = AccessAt(k).idx
                    /\ n.queue[k].commited <=> \/ AccessAt(k).commited
                                               \/ AccessAt(k).op \in StoreOps /\ Announced(AccessAt(k).idx)
                    /\ \A t \in Slot :
                         /\ n.queue[k].q = t => AccessAt(k).q = t /\ ~Announced(t)
                         /\ n.queue[k].q2 = t => AccessAt(k).q2 = t /\ ~Announced(t)

\* LSB_Run, before it looks at the front.
LEMMA NewHeard ==
  ASSUME WsTypes, Copies, Prepared, Rounds, stage = "LSB_Run"
  PROVE  /\ LsbHeard(NewLSB)
         /\ \A k \in Slot : k \in Held(LsbSeen) => NewLSB.queue[k].round \in 1 .. 3
<1>1. LsbSeen \in QueueOf(LsbEntry)
  BY ViewTypes
<1>2. Pushed(LSB, up_LSB) = LsbSeen
  <2>1. up_LSB \in Vector(LsbEntry)
    BY DEF WsTypes, VectorTypes
  <2> QED BY <2>1, PushedOne DEF LsbSeen
<1>3. \A k \in Slot : LsbSeen.queue[k] \in LsbEntry /\ AccessAt(k) = LsbSeen.queue[k]
  BY <1>1 DEF QueueOf, AccessAt
<1>4. \A k \in Slot : k \in Held(LsbSeen) => LsbSeen.queue[k].round \in 1 .. 3
  BY <1>3 DEF Rounds, LsbEntry
<1>5. CASE Number_ROB \in Slot
  <2>1. PICK i \in Slot : i = Number_ROB
    BY <1>5
  <2>2. Number_Result \in Word
    BY DEF WsTypes, ResultTypes
  <2>3. NewLSB = lsb_Update(LsbSeen, i, Number_Result)
    BY <1>2, <2>1 DEF NewLSB
  <2> DEFINE n == lsb_Update(LsbSeen, i, Number_Result)
  <2>4. /\ n \in QueueOf(LsbEntry) /\ n.head = LsbSeen.head /\ n.tail = LsbSeen.tail
        /\ \A s \in Slot : s \in Held(LsbSeen) =>
             /\ n.queue[s].op = LsbSeen.queue[s].op /\ n.queue[s].idx = LsbSeen.queue[s].idx
             /\ n.queue[s].round = LsbSeen.queue[s].round
             /\ n.queue[s].commited <=> \/ LsbSeen.queue[s].commited
                                        \/ LsbSeen.queue[s].idx = i /\ LsbSeen.queue[s].op \in StoreOps
             /\ n.queue[s].q = (IF LsbSeen.queue[s].q = i THEN NO_TAG ELSE LsbSeen.queue[s].q)
             /\ n.queue[s].q2 = (IF LsbSeen.queue[s].q2 = i THEN NO_TAG ELSE LsbSeen.queue[s].q2)
    BY <1>1, <2>2, LsbHear
  <2> HIDE DEF n
  <2>5. \A t \in Slot : Announced(t) <=> t = i
    BY <2>1 DEF Announced
  <2>6. \A k \in Slot : k \in Held(LsbSeen) => AccessAt(k).idx \in Slot
    BY <1>3 DEF LsbEntry
  <2>7. LsbHeard(n)
    BY <1>3, <2>4, <2>5, <2>6, Nothing DEF LsbHeard
  <2> QED BY <1>4, <2>3, <2>4, <2>7 DEF n
<1>6. CASE Number_ROB \notin Slot
  <2>1. NewLSB = LsbSeen
    BY <1>2, <1>6 DEF NewLSB
  <2>2. \A t : ~Announced(t)
    BY <1>6 DEF Announced
  <2> QED BY <1>1, <1>3, <1>4, <2>1, <2>2 DEF LsbHeard
<1> QED BY <1>5, <1>6

\* The front counts down, and leaves when it is done.
LsbKeeps == /\ \A k \in Slot : k \in Held(LsbSeen') <=> k \in Held(LsbSeen)
            /\ \A s \in Slot : ~Loaded(s)'
LsbPops == \E h \in Slot :
             /\ h \in Held(LsbSeen)
             /\ \A k \in Slot : k \in Held(LsbSeen') <=> k \in Held(LsbSeen) /\ k # h
             /\ \/ /\ AccessAt(h).op \in LoadOps
                   /\ \A s \in Slot : Loaded(s)' <=> s = AccessAt(h).idx
                \/ /\ AccessAt(h).op \in StoreOps /\ AccessAt(h).commited
                   /\ \A s \in Slot : ~Loaded(s)'
LsbWorks == /\ LsbKeeps \/ LsbPops
            /\ \A j, k \in Slot : j \in Held(LsbSeen') /\ k \in Held(LsbSeen') =>
                 (Age(LsbSeen', j) < Age(LsbSeen', k) => Age(LsbSeen, j) < Age(LsbSeen, k))
            /\ \A k \in Slot : k \in Held(LsbSeen') =>
                 /\ AccessAt(k)'.op = AccessAt(k).op /\ AccessAt(k)'.idx = AccessAt(k).idx
                 /\ AccessAt(k)'.round >= 1
                 /\ AccessAt(k)'.commited <=> \/ AccessAt(k).commited
                                              \/ AccessAt(k).op \in StoreOps /\ Announced(AccessAt(k).idx)
                 /\ \A t \in Slot : /\ AccessAt(k)'.q = t => AccessAt(k).q = t /\ ~Announced(t)
                                    /\ AccessAt(k)'.q2 = t => AccessAt(k).q2 = t /\ ~Announced(t)

\* The front is one that has already been seen.
LEMMA FrontSeen ==
  ASSUME WsTypes, Copies, Prepared, Rounds, stage = "LSB_Run", Counting
  PROVE  \E h \in Slot :
           /\ h = NewLSB.head /\ h \in Held(LsbSeen)
           /\ get_front(LSB_pre) = AccessAt(h) /\ get_front(LSB_pre) \in LsbEntry
           /\ AccessAt(h).commited \/ AccessAt(h).op \in LoadOps
           /\ Counted \in QueueOf(LsbEntry)
           /\ Counted.head = NewLSB.head /\ Counted.tail = NewLSB.tail
           /\ get_front(Counted).round = NewLSB.queue[h].round - 1
           /\ \A k \in Slot : /\ k # h => Counted.queue[k] = NewLSB.queue[k]
                              /\ Counted.queue[k].op = NewLSB.queue[k].op
                              /\ Counted.queue[k].idx = NewLSB.queue[k].idx
                              /\ Counted.queue[k].q = NewLSB.queue[k].q
                              /\ Counted.queue[k].q2 = NewLSB.queue[k].q2
                              /\ Counted.queue[k].commited = NewLSB.queue[k].commited
<1>1. LSB_pre = LSB /\ LSB \in QueueOf(LsbEntry)
  BY DEF Copies, WsTypes, BufferTypes
<1>2. PICK h \in Slot : h = LSB.head
  BY <1>1 DEF QueueOf
<1>3. h \in Held(LSB) /\ h # LSB.tail
  BY <1>1, <1>2, QueueAges DEF Counting, isempty
<1>4. h \in Held(LsbSeen) /\ LsbSeen.queue[h] = LSB.queue[h] /\ LsbSeen.head = h
  <2>1. CASE up_LSB = <<>>
    BY <1>2, <1>3, <2>1 DEF LsbSeen
  <2>2. CASE up_LSB # <<>>
    <3>1. PICK e \in LsbEntry : e = Head(up_LSB)
      BY <2>2 DEF WsTypes, VectorTypes, Vector
    <3>2. LsbSeen = push_back(LSB, e) /\ ~isfull(LSB)
      BY <2>2, <3>1 DEF LsbSeen, Prepared
    <3> QED BY <1>1, <1>2, <1>3, <3>2, QueuePush
  <2> QED BY <2>1, <2>2
<1>5. LsbHeard(NewLSB) /\ NewLSB.queue[h].round \in 1 .. 3
  BY <1>4, NewHeard
<1>6. PICK n \in QueueOf(LsbEntry) : n = NewLSB /\ n.head = h /\ n.queue[h].round \in 1 .. 3
  BY <1>4, <1>5 DEF LsbHeard
<1>7. n.queue[h] \in LsbEntry /\ n.queue \in [Slot -> LsbEntry]
  BY <1>6 DEF QueueOf
<1> DEFINE e == [n.queue[h] EXCEPT !.round = @ - 1]
           q == [n.queue EXCEPT ![h] = e]
<1>8. /\ e \in LsbEntry /\ e.op = n.queue[h].op /\ e.idx = n.queue[h].idx
      /\ e.q = n.queue[h].q /\ e.q2 = n.queue[h].q2 /\ e.commited = n.queue[h].commited
      /\ e.round = n.queue[h].round - 1
  BY <1>6, <1>7 DEF LsbEntry
<1>9. Counted = [n EXCEPT !.queue = q]
  BY <1>6, <1>7 DEF Counted, QueueOf
<1> HIDE DEF e
<1>10. q \in [Slot -> LsbEntry] /\ q[h] = e /\ \A k \in Slot : k # h => q[k] = n.queue[k]
  BY <1>7, <1>8
<1> HIDE DEF q
<1>11. /\ Counted \in QueueOf(LsbEntry) /\ Counted.head = n.head /\ Counted.tail = n.tail
       /\ Counted.queue = q
  BY <1>6, <1>9, <1>10 DEF QueueOf
<1>12. get_front(Counted).round = n.queue[h].round - 1
  BY <1>6, <1>8, <1>10, <1>11 DEF get_front
<1>13. \A k \in Slot : /\ k # h => Counted.queue[k] = n.queue[k]
                       /\ Counted.queue[k].op = n.queue[k].op
                       /\ Counted.queue[k].idx = n.queue[k].idx
                       /\ Counted.queue[k].q = n.queue[k].q
                       /\ Counted.queue[k].q2 = n.queue[k].q2
                       /\ Counted.queue[k].commited = n.queue[k].commited
  BY <1>8, <1>10, <1>11
<1>14. get_front(LSB_pre) = AccessAt(h) /\ AccessAt(h) \in LsbEntry
  BY <1>1, <1>2, <1>4 DEF get_front, AccessAt, QueueOf
<1>15. AccessAt(h).commited \/ AccessAt(h).op \in LoadOps
  BY <1>14 DEF Counting
<1> QED BY <1>4, <1>6, <1>11, <1>12, <1>13, <1>14, <1>15

\* LSB_Run: the front counts down, or leaves with its result.
LEMMA AccessesRun ==
  ASSUME WsTypes, Copies, Prepared, Rounds, LSB_Run, exited' = "no"
  PROVE  /\ LSB' \in QueueOf(LsbEntry) /\ LSB_to_ROB' \in Result /\ mem' \in [Word -> Byte]
         /\ up_LSB' = <<>> /\ LsbSeen' = LSB' /\ LsbWorks
<1>0. stage = "LSB_Run" /\ stage' = "REG_Run" /\ exited = "no"
  BY DEF LSB_Run, Turn
<1>1. up_LSB' = <<>> /\ LsbSeen' = LSB'
  BY DEF LSB_Run, LsbSeen
<1>2. LsbSeen \in QueueOf(LsbEntry)
  BY ViewTypes
<1>3. LsbHeard(NewLSB) /\ \A k \in Slot : k \in Held(LsbSeen) => NewLSB.queue[k].round \in 1 .. 3
  BY <1>0, NewHeard
<1>4. LSB_to_ROB \in Result /\ mem \in [Word -> Byte]
  BY DEF WsTypes, ResultTypes, OtherTypes
<1>5. \A r : /\ [LSB_to_ROB EXCEPT !.first = NO_ENTRY] \in Result
             /\ [LSB_to_ROB EXCEPT !.first = NO_ENTRY].first = NO_ENTRY
  BY <1>4 DEF Result
<1>6. \A s : Loaded(s)' <=> LSB_to_ROB'.first = s
  BY <1>0 DEF Loaded
<1>7. ~LSB_exit
  BY <1>0 DEF LSB_exit
<1>8. \A k \in Slot : LsbSeen'.queue[k] = AccessAt(k)'
  BY DEF AccessAt
<1>9. PICK n \in QueueOf(LsbEntry) : n = NewLSB
  BY <1>3 DEF LsbHeard
<1>10. /\ n.head = LsbSeen.head /\ n.tail = LsbSeen.tail
       /\ Held(n) = Held(LsbSeen) /\ \A k : Age(n, k) = Age(LsbSeen, k)
  BY <1>3, <1>9, QueueSame DEF LsbHeard
\* What holds of the entries of n holds of those of a queue that agrees with it.
<1> DEFINE Agrees(c) == \A k \in Slot : k \in Held(n) =>
                          /\ c.queue[k].op = n.queue[k].op /\ c.queue[k].idx = n.queue[k].idx
                          /\ c.queue[k].q = n.queue[k].q /\ c.queue[k].q2 = n.queue[k].q2
                          /\ c.queue[k].commited = n.queue[k].commited
           Heard(c, K) == \A k \in K :
                 /\ c.queue[k].op = AccessAt(k).op /\ c.queue[k].idx = AccessAt(k).idx
                 /\ c.queue[k].commited <=> \/ AccessAt(k).commited
                                            \/ AccessAt(k).op \in StoreOps /\ Announced(AccessAt(k).idx)
                 /\ \A t \in Slot : /\ c.queue[k].q = t => AccessAt(k).q = t /\ ~Announced(t)
                                    /\ c.queue[k].q2 = t => AccessAt(k).q2 = t /\ ~Announced(t)
<1>11. ASSUME NEW c, Agrees(c) PROVE Heard(c, Held(LsbSeen))
  BY <1>3, <1>9, <1>10, <1>11 DEF LsbHeard, Held
<1> HIDE DEF Agrees, Heard
<1>12. CASE LSB_wait
  <2>1. LSB_to_ROB' \in Result /\ LSB_to_ROB'.first = NO_ENTRY /\ mem' = mem
    BY <1>5, <1>12 DEF LSB_wait
  <2>2. /\ LSB' \in QueueOf(LsbEntry) /\ LSB'.head = n.head /\ LSB'.tail = n.tail
        /\ Agrees(LSB') /\ \A k \in Slot : k \in Held(n) => LSB'.queue[k].round >= 1
    <3>1. CASE Counting
      <4>1. PICK h \in Slot :
              /\ h = n.head /\ h \in Held(LsbSeen)
              /\ Counted \in QueueOf(LsbEntry) /\ Counted.head = n.head /\ Counted.tail = n.tail
              /\ get_front(Counted).round = n.queue[h].round - 1
              /\ \A k \in Slot : /\ k # h => Counted.queue[k] = n.queue[k]
                                 /\ Counted.queue[k].op = n.queue[k].op
                                 /\ Counted.queue[k].idx = n.queue[k].idx
                                 /\ Counted.queue[k].q = n.queue[k].q
                                 /\ Counted.queue[k].q2 = n.queue[k].q2
                                 /\ Counted.queue[k].commited = n.queue[k].commited
        BY <1>0, <1>9, <3>1, FrontSeen
      <4>2. LSB' = Counted /\ get_front(Counted).round # 0
        BY <1>12, <3>1 DEF LSB_wait, Due
      <4>3. n.queue[h].round \in 1 .. 3 /\ get_front(Counted) = LSB'.queue[h]
        BY <1>3, <1>9, <4>1, <4>2 DEF get_front
      <4>4. \A k \in Slot : k \in Held(n) => LSB'.queue[k].round >= 1
        BY <1>3, <1>9, <1>10, <4>1, <4>2, <4>3
      <4>5. Agrees(LSB')
        BY <4>1, <4>2 DEF Agrees
      <4> QED BY <4>1, <4>2, <4>4, <4>5
    <3>2. CASE ~Counting
      <4>1. LSB' = n
        BY <1>9, <1>12, <3>2 DEF LSB_wait
      <4>2. Agrees(n)
        BY DEF Agrees
      <4> QED BY <1>3, <1>9, <1>10, <4>1, <4>2
    <3> QED BY <3>1, <3>2
  <2>3. Held(LSB') = Held(LsbSeen) /\ \A k : Age(LSB', k) = Age(LsbSeen, k)
    BY <1>10, <2>2, QueueSame
  <2>4. LsbKeeps
    BY <1>1, <1>6, <2>1, <2>3, Nothing DEF LsbKeeps
  <2>5. LsbWorks
    <3>1. Heard(LSB', Held(LsbSeen))
      BY <1>11, <2>2
    <3> QED BY <1>1, <1>8, <1>10, <2>2, <2>3, <2>4, <3>1 DEF LsbWorks, Heard
  <2> QED BY <1>1, <1>4, <2>1, <2>2, <2>5
<1>13. CASE LSB_load \/ LSB_store
  <2>1. Counting /\ get_front(Counted).round = 0 /\ LSB' = pop_front(Counted)
    BY <1>13 DEF LSB_load, LSB_store, Due
  <2>2. PICK h \in Slot :
              /\ h = n.head /\ h \in Held(LsbSeen)
              /\ get_front(LSB_pre) = AccessAt(h) /\ get_front(LSB_pre) \in LsbEntry
              /\ AccessAt(h).commited \/ AccessAt(h).op \in LoadOps
              /\ Counted \in QueueOf(LsbEntry) /\ Counted.head = n.head /\ Counted.tail = n.tail
              /\ \A k \in Slot : /\ k # h => Counted.queue[k] = n.queue[k]
                                 /\ Counted.queue[k].op = n.queue[k].op
                                 /\ Counted.queue[k].idx = n.queue[k].idx
                                 /\ Counted.queue[k].q = n.queue[k].q
                                 /\ Counted.queue[k].q2 = n.queue[k].q2
                                 /\ Counted.queue[k].commited = n.queue[k].commited
    BY <1>0, <1>9, <2>1, FrontSeen
  <2>3. Held(Counted) = Held(LsbSeen) /\ \A k : Age(Counted, k) = Age(LsbSeen, k)
    BY <1>10, <2>2, QueueSame
  <2>4. ~isempty(Counted)
    BY <2>2, <2>3, QueueAges
  <2>5. /\ LSB' \in QueueOf(LsbEntry) /\ LSB'.queue = Counted.queue
        /\ Held(LSB') = Held(LsbSeen) \ {h}
        /\ \A k \in Slot : k # h => Age(LSB', k) = Age(LsbSeen, k) - 1
    BY <2>1, <2>2, <2>3, <2>4, QueuePop
  <2>6. \A k \in Slot : Age(LsbSeen, k) \in Int
    BY <1>2, QueueAges
  <2>7. Heard(LSB', Held(LsbSeen))
    <3>1. Agrees(LSB')
      BY <2>2, <2>5 DEF Agrees
    <3> QED BY <1>11, <3>1
  <2>8. \A k \in Slot : k \in Held(LSB') => LSB'.queue[k].round >= 1
    BY <1>3, <1>9, <2>2, <2>5
  <2>9. /\ LSB_to_ROB' \in Result /\ mem' \in [Word -> Byte]
        /\ \/ /\ AccessAt(h).op \in LoadOps
              /\ \A s \in Slot : Loaded(s)' <=> s = AccessAt(h).idx
           \/ /\ AccessAt(h).op \in StoreOps /\ AccessAt(h).commited
              /\ \A s \in Slot : ~Loaded(s)'
    <3>1. PICK e \in LsbEntry : e = get_front(LSB_pre)
      BY <2>2
    <3>2. e.v \in Word /\ e.imm \in Word /\ e.v2 \in Word /\ e.idx \in Slot
      BY DEF LsbEntry
    <3>3. Target \in Word
      BY <3>1, <3>2, AddWord DEF Target
    <3>4. Goal(e.op) \in 0 .. WORD_BYTES
      BY GoalBytes
    <3>5. CASE LSB_load
      <4>1. PICK w \in Word : w = LoadResult(e.op, ReadBytes(mem, Target, Goal(e.op)))
        BY <1>4, <3>3, <3>4, ReadBytesWord, LoadResultWord
      <4>2. e.op \in LoadOps /\ LSB_to_ROB' = [first |-> e.idx, second |-> w] /\ mem' = mem
        BY <3>1, <3>5, <4>1 DEF LSB_load
      <4> QED BY <1>4, <1>6, <2>2, <3>1, <3>2, <4>2 DEF Result
    <3>6. CASE LSB_store
      <4>1. /\ e.op \in StoreOps /\ mem' = WriteBytes(mem, Target, Goal(e.op), e.v2)
            /\ LSB_to_ROB' = [LSB_to_ROB EXCEPT !.first = NO_ENTRY]
        BY <3>1, <3>6 DEF LSB_store
      <4>2. mem' \in [Word -> Byte]
        BY <1>4, <3>2, <3>3, <3>4, <4>1, WriteBytesMemory
      <4>3. e.op \notin LoadOps
        BY <4>1 DEF StoreOps, LoadOps
      <4> QED BY <1>5, <1>6, <2>2, <3>1, <4>1, <4>2, <4>3, Nothing
    <3> QED BY <1>13, <3>5, <3>6
  <2>10. LsbPops
    BY <1>1, <2>2, <2>5, <2>9 DEF LsbPops
  <2>11. \A k \in Slot : k \in Held(LSB') => k \in Held(LsbSeen) /\ k # h
    BY <2>5
  <2>12. \A j, k \in Slot : j \in Held(LsbSeen') /\ k \in Held(LsbSeen') =>
           (Age(LsbSeen', j) < Age(LsbSeen', k) => Age(LsbSeen, j) < Age(LsbSeen, k))
    BY <1>1, <2>5, <2>6, <2>11
  <2>13. LsbWorks
    BY <1>1, <1>8, <2>7, <2>8, <2>10, <2>11, <2>12 DEF LsbWorks, Heard
  <2> QED BY <1>1, <2>5, <2>9, <2>13
<1> QED BY <1>7, <1>12, <1>13 DEF LSB_Run

(***************************************************************************)
(* What ISSUE_Run prepares.                                                *)
(***************************************************************************)
OperandTags == {NO_TAG} \cup {reg_pre[r].q : r \in {r \in RegIndex : reg_pre[r].status}}
Operands    == [q : OperandTags, v : Word]

\* One entry of the reorder buffer, and a station or an access that names it.
IssuesStation(e) == \E st \in RsEntry : /\ up_RS' = <<st>> /\ up_LSB' = <<>>
                                        /\ e.tp # "store"
                                        /\ st.status /\ st.idx = ROB.tail
                                        /\ st.qi \in OperandTags /\ st.qj \in OperandTags
IssuesAccess(e) == \E a \in LsbEntry : /\ up_LSB' = <<a>> /\ up_RS' = <<>>
                                       /\ e.tp = "store" <=> a.op \in StoreOps
                                       /\ a.idx = ROB.tail /\ ~a.commited /\ a.round = 3
                                       /\ a.q \in OperandTags /\ a.q2 \in OperandTags
IssuesOne(e) == /\ ~e.end /\ IQ' = pop_front(IQ)
                /\ IssuesStation(e) \/ IssuesAccess(e)
                /\ up_reg_q_ex' = IF e.tp \in {"value", "jal"} THEN <<[rd |-> e.addr, tag |-> ROB.tail]>>
                                                               ELSE <<>>
IssuesEnd(e) == /\ e.end /\ e.tp # "store" /\ IQ' = IQ
                /\ up_RS' = <<>> /\ up_LSB' = <<>> /\ up_reg_q_ex' = <<>>
Issues == \E e \in RobEntry : up_ROB' = <<e>> /\ ~e.ready /\ (IssuesOne(e) \/ IssuesEnd(e))

NothingPrepared == up_ROB = <<>> /\ up_RS = <<>> /\ up_LSB = <<>> /\ up_reg_q_ex = <<>>

\* An instruction with its entry, its worker and its name.
LEMMA IssueWith ==
  ASSUME NEW rob, NEW stations, NEW accesses, NEW names,
         NothingPrepared, Issue(rob, stations, accesses, names),
         stations = <<>> \/ \E s : stations = <<s>>, accesses = <<>> \/ \E a : accesses = <<a>>,
         names = <<>> \/ \E n : names = <<n>>
  PROVE  /\ IQ' = pop_front(IQ) /\ up_ROB' = <<rob>> /\ up_RS' = stations
         /\ up_LSB' = accesses /\ up_reg_q_ex' = names
<1>1. /\ IQ' = pop_front(IQ) /\ up_ROB' = Append(<<>>, rob) /\ up_RS' = <<>> \o stations
      /\ up_LSB' = <<>> \o accesses /\ up_reg_q_ex' = <<>> \o names
  BY DEF Issue, NothingPrepared
<1>2. Append(<<>>, rob) = <<rob>> /\ <<>> \o <<>> = <<>> /\ \A s : <<>> \o <<s>> = <<s>>
  OBVIOUS
<1> QED BY <1>1, <1>2

\* Its parts have their types.
LEMMA OperandsTyped ==
  ASSUME WsTypes
  PROVE  /\ \A r \in RegIndex : Operand(r) \in Operands
         /\ \A w \in Word : Known(w) \in Operands
         /\ OperandTags \subseteq Tag
         /\ Issuing \in Instructions /\ get_front(IQ_pre).pc \in Word
<1>1. reg_pre \in [RegIndex -> RegEntry] /\ IQ_pre \in QueueOf(IqEntry)
  BY DEF WsTypes, RegTypes, BufferTypes
<1>2. 0 \in Word
  BY WordArithmetic
<1>3. ASSUME NEW r \in RegIndex PROVE Operand(r) \in Operands
  <2>1. reg_pre[r] \in RegEntry
    BY <1>1
  <2>2. reg_pre[r].v \in Word /\ (reg_pre[r].status => reg_pre[r].q \in OperandTags)
    BY <2>1 DEF RegEntry, OperandTags
  <2> QED BY <1>2, <2>2 DEF Operand, Operands, Known, OperandTags
<1>4. \A w \in Word : Known(w) \in Operands
  BY DEF Known, Operands, OperandTags
<1>5. OperandTags \subseteq Tag
  BY <1>1 DEF OperandTags, Tag, RegEntry
<1>6. IQ_pre.queue[IQ_pre.head] \in IqEntry
  BY <1>1 DEF QueueOf
<1> QED BY <1>3, <1>4, <1>5, <1>6 DEF Issuing, get_front, IqEntry

\* What ISSUE_Run builds for the reorder buffer.
LEMMA EntryTyped ==
  ASSUME WsTypes, NEW tp \in {"value", "branch", "jal", "jalr", "store"}, NEW offset \in Word
  PROVE  /\ Entry(tp, offset) \in RobEntry /\ Entry(tp, offset).tp = tp
         /\ Entry(tp, offset).addr = Issuing.rd
         /\ ~Entry(tp, offset).end /\ ~Entry(tp, offset).ready
         /\ EmptyRob \in RobEntry
<1>1. Issuing.rd \in RegIndex /\ get_front(IQ_pre).pc \in Word
  BY OperandsTyped DEF Instructions
<1>2. 0 \in Word /\ 0 \in RegIndex
  BY WordArithmetic, WordAssumption DEF WordAssumption, RegIndex
<1>3. PICK d \in RegIndex : d = Issuing.rd
  BY <1>1
<1>4. PICK p \in Word : p = get_front(IQ_pre).pc
  BY <1>1
<1>5. EmptyRob \in RobEntry
  BY <1>2 DEF EmptyRob, RobEntry
<1> DEFINE e == [EmptyRob EXCEPT !.tp = tp, !.addr = d, !.offset = offset, !.pc = p]
<1>6. Entry(tp, offset) = e
  BY <1>3, <1>4 DEF Entry
<1>7. e \in RobEntry
  BY <1>5, Zenon DEF RobEntry
<1>8. e.tp = tp /\ e.addr = d /\ e.end = EmptyRob.end /\ e.ready = EmptyRob.ready
  BY <1>5 DEF RobEntry
<1>9. ~EmptyRob.end /\ ~EmptyRob.ready
  BY DEF EmptyRob
<1> HIDE DEF e
<1> QED BY <1>3, <1>5, <1>6, <1>7, <1>8, <1>9

\* What it builds for a station.
LEMMA StationTyped ==
  ASSUME WsTypes, NEW op \in Operations, NEW i \in Operands, NEW j \in Operands
  PROVE  \E st \in RsEntry : /\ Station(op, i, j) = <<st>> /\ st.status /\ st.idx = ROB.tail
                             /\ st.qi \in OperandTags /\ st.qj \in OperandTags
<1>1. PICK t \in Slot : t = ROB.tail
  BY DEF WsTypes, BufferTypes, QueueOf
<1> DEFINE st == [status |-> TRUE, op |-> op, vi |-> i.v, qi |-> i.q, vj |-> j.v, qj |-> j.q,
                  idx |-> t]
<1>2. /\ OperandTags \subseteq Tag /\ i.q \in OperandTags /\ j.q \in OperandTags /\ i.v \in Word
      /\ j.v \in Word
  BY OperandsTyped DEF Operands
<1>3. st \in RsEntry
  BY <1>2 DEF RsEntry
<1>4. Station(op, i, j) = <<st>>
  BY <1>1 DEF Station
<1> QED BY <1>1, <1>2, <1>3, <1>4

\* What it builds for the load store buffer.
LEMMA AccessTyped ==
  ASSUME WsTypes, NEW i \in Operands, NEW j \in Operands, Issuing.op \in LoadOps \cup StoreOps
  PROVE  \E a \in LsbEntry : /\ Access(i, j) = <<a>> /\ a.op = Issuing.op /\ a.idx = ROB.tail
                             /\ ~a.commited /\ a.round = 3
                             /\ a.q \in OperandTags /\ a.q2 \in OperandTags
<1>1. PICK t \in Slot : t = ROB.tail
  BY DEF WsTypes, BufferTypes, QueueOf
<1>2. PICK op \in LoadOps \cup StoreOps : op = Issuing.op
  OBVIOUS
<1>3. PICK m \in Word : m = Issuing.imm
  BY OperandsTyped DEF Instructions
<1>4. /\ OperandTags \subseteq Tag /\ i.q \in OperandTags /\ j.q \in OperandTags /\ i.v \in Word
      /\ j.v \in Word
  BY OperandsTyped DEF Operands
<1>5. EmptyLsb \in LsbEntry
  <2>1. 0 \in Word /\ 0 \in Slot /\ NO_TAG \in Tag
    BY WordArithmetic, QueueAssumption DEF QueueAssumption, Slot, Tag
  <2> QED BY <2>1 DEF EmptyLsb, LsbEntry, LoadOps
<1> DEFINE a == [EmptyLsb EXCEPT !.op = op, !.idx = t, !.imm = m,
                                 !.q = i.q, !.v = i.v, !.q2 = j.q, !.v2 = j.v]
<1>6. Access(i, j) = <<a>>
  BY <1>1, <1>2, <1>3 DEF Access
<1>7. i.q \in Tag /\ j.q \in Tag
  BY <1>4
<1>8. a \in LsbEntry
  BY <1>4, <1>5, <1>7, Zenon DEF LsbEntry
<1>9. /\ a.op = op /\ a.idx = t /\ a.q = i.q /\ a.q2 = j.q
      /\ a.commited = EmptyLsb.commited /\ a.round = EmptyLsb.round
  BY <1>5 DEF LsbEntry
<1>10. ~EmptyLsb.commited /\ EmptyLsb.round = 3
  BY DEF EmptyLsb
<1> HIDE DEF a
<1> QED BY <1>1, <1>2, <1>4, <1>6, <1>8, <1>9, <1>10

\* The operations that the tables choose are among those that Execute knows.
LEMMA OpsChosen ==
  /\ \A x \in DOMAIN ArithmeticOp : ArithmeticOp[x] \in Operations
  /\ \A x \in DOMAIN UpperOp : UpperOp[x] \in Operations
  /\ \A x \in DOMAIN LogicOp : LogicOp[x] \in Operations
  /\ \A x \in DOMAIN ShiftOp : ShiftOp[x] \in Operations
  /\ \A x \in DOMAIN CompareOp : CompareOp[x] \in Operations
  /\ \A x \in DOMAIN BranchOp : BranchOp[x] \in Operations
<1>1. \A x \in DOMAIN ArithmeticOp : ArithmeticOp[x] \in Operations
  <2>1. DOMAIN ArithmeticOp = {"ADD", "ADDI", "SUB"}
    BY DEF ArithmeticOp
  <2>2. /\ ArithmeticOp["ADD"] = "+" /\ ArithmeticOp["ADDI"] = "+"
        /\ ArithmeticOp["SUB"] = "-"
    BY DEF ArithmeticOp
  <2> QED BY <2>1, <2>2 DEF Operations
<1>2. \A x \in DOMAIN UpperOp : UpperOp[x] \in Operations
  <2>1. DOMAIN UpperOp = {"LUI", "AUIPC"}
    BY DEF UpperOp
  <2>2. /\ UpperOp["LUI"] = "+" /\ UpperOp["AUIPC"] = "+"
    BY DEF UpperOp
  <2> QED BY <2>1, <2>2 DEF Operations
<1>3. \A x \in DOMAIN LogicOp : LogicOp[x] \in Operations
  <2>1. DOMAIN LogicOp = {"XOR", "XORI", "OR", "ORI", "AND", "ANDI"}
    BY DEF LogicOp
  <2>2. /\ LogicOp["XOR"] = "^" /\ LogicOp["XORI"] = "^"
        /\ LogicOp["OR"] = "|" /\ LogicOp["ORI"] = "|"
        /\ LogicOp["AND"] = "&" /\ LogicOp["ANDI"] = "&"
    BY DEF LogicOp
  <2> QED BY <2>1, <2>2 DEF Operations
<1>4. \A x \in DOMAIN ShiftOp : ShiftOp[x] \in Operations
  <2>1. DOMAIN ShiftOp = {"SLL", "SLLI", "SRL", "SRLI", "SRA", "SRAI"}
    BY DEF ShiftOp
  <2>2. /\ ShiftOp["SLL"] = "<<" /\ ShiftOp["SLLI"] = "<<"
        /\ ShiftOp["SRL"] = ">>" /\ ShiftOp["SRLI"] = ">>"
        /\ ShiftOp["SRA"] = ">> tianchong" /\ ShiftOp["SRAI"] = ">> tianchong"
    BY DEF ShiftOp
  <2> QED BY <2>1, <2>2 DEF Operations
<1>5. \A x \in DOMAIN CompareOp : CompareOp[x] \in Operations
  <2>1. DOMAIN CompareOp = {"SLT", "SLTI", "SLTU", "SLTIU"}
    BY DEF CompareOp
  <2>2. /\ CompareOp["SLT"] = "<" /\ CompareOp["SLTI"] = "<"
        /\ CompareOp["SLTU"] = "unsigned <" /\ CompareOp["SLTIU"] = "unsigned <"
    BY DEF CompareOp
  <2> QED BY <2>1, <2>2 DEF Operations
<1>6. \A x \in DOMAIN BranchOp : BranchOp[x] \in Operations
  <2>1. DOMAIN BranchOp = {"BEQ", "BNE", "BLT", "BGE", "BLTU", "BGEU"}
    BY DEF BranchOp
  <2>2. /\ BranchOp["BEQ"] = "== pc+" /\ BranchOp["BNE"] = "!= pc+"
        /\ BranchOp["BLT"] = "< pc+" /\ BranchOp["BGE"] = ">= pc+"
        /\ BranchOp["BLTU"] = "unsigned < pc+" /\ BranchOp["BGEU"] = "unsigned >= pc+"
    BY DEF BranchOp
  <2> QED BY <2>1, <2>2 DEF Operations
<1> QED BY <1>1, <1>2, <1>3, <1>4, <1>5, <1>6

\* A station for an entry that is not of a store.
LEMMA IssueStation ==
  ASSUME WsTypes, NothingPrepared, NEW tp \in {"value", "branch", "jal", "jalr"},
         NEW offset \in Word,
         NEW op \in Operations, NEW i \in Operands, NEW j \in Operands,
         Issue(Entry(tp, offset), Station(op, i, j), <<>>,
               IF tp \in {"value", "jal"} THEN NewName ELSE <<>>)
  PROVE  Issues
<1>1. PICK e \in RobEntry : /\ e = Entry(tp, offset) /\ e.tp = tp /\ e.addr = Issuing.rd
                            /\ ~e.end /\ ~e.ready
  BY EntryTyped
<1>2. PICK st \in RsEntry : /\ Station(op, i, j) = <<st>> /\ st.status /\ st.idx = ROB.tail
                            /\ st.qi \in OperandTags /\ st.qj \in OperandTags
  BY StationTyped
<1>3. PICK names : /\ names = IF tp \in {"value", "jal"} THEN NewName ELSE <<>>
                   /\ names = <<>> \/ \E n : names = <<n>>
  BY DEF NewName
<1>4. Issue(e, <<st>>, <<>>, names)
  BY <1>1, <1>2, <1>3
<1>5. /\ IQ' = pop_front(IQ) /\ up_ROB' = <<e>> /\ up_RS' = <<st>>
      /\ up_LSB' = <<>> /\ up_reg_q_ex' = names
  BY <1>4, <1>3, IssueWith
<1>6. names = IF e.tp \in {"value", "jal"} THEN <<[rd |-> e.addr, tag |-> ROB.tail]>> ELSE <<>>
  BY <1>1, <1>3 DEF NewName
<1>7. IssuesStation(e)
  BY <1>1, <1>2, <1>5 DEF IssuesStation
<1> QED BY <1>1, <1>5, <1>6, <1>7 DEF Issues, IssuesOne

\* An access for an entry that is of a store if the access is one.
LEMMA IssueAccess ==
  ASSUME WsTypes, NothingPrepared, IssueMemory
  PROVE  Issues
<1>1. 0 \in Word /\ 0 \in RegIndex /\ Issuing \in Instructions
  BY OperandsTyped, WordArithmetic, WordAssumption DEF WordAssumption, RegIndex
<1>2. Rs1 \in Operands /\ Rs2 \in Operands /\ Known(0) \in Operands
  BY <1>1, OperandsTyped DEF Instructions, Rs1, Rs2
<1>3. CASE Issuing.op \in LoadOps /\ Issue(Entry("value", 0), <<>>, Access(Rs1, Known(0)), NewName)
  <2>1. PICK e \in RobEntry : /\ e = Entry("value", 0) /\ e.tp = "value" /\ e.addr = Issuing.rd
                              /\ ~e.end /\ ~e.ready
    BY <1>1, EntryTyped
  <2>2. PICK a \in LsbEntry : /\ Access(Rs1, Known(0)) = <<a>> /\ a.op = Issuing.op /\ a.idx = ROB.tail
                              /\ ~a.commited /\ a.round = 3
                              /\ a.q \in OperandTags /\ a.q2 \in OperandTags
    BY <1>2, <1>3, AccessTyped
  <2>3. PICK n : NewName = <<n>> /\ n = [rd |-> e.addr, tag |-> ROB.tail]
    BY <2>1 DEF NewName
  <2>4. /\ IQ' = pop_front(IQ) /\ up_ROB' = <<e>> /\ up_RS' = <<>>
        /\ up_LSB' = <<a>> /\ up_reg_q_ex' = <<n>>
    <3>1. Issue(e, <<>>, <<a>>, <<n>>)
      BY <1>3, <2>1, <2>2, <2>3
    <3> QED BY <3>1, IssueWith
  <2>5. a.op \notin StoreOps
    BY <1>3, <2>2 DEF LoadOps, StoreOps
  <2>6. IssuesAccess(e)
    BY <2>1, <2>2, <2>4, <2>5 DEF IssuesAccess
  <2> QED BY <2>1, <2>3, <2>4, <2>6 DEF Issues, IssuesOne
<1>4. CASE /\ Issuing.op \in StoreOps
           /\ Issue([Entry("store", 0) EXCEPT !.addr = 0], <<>>, Access(Rs1, Rs2), <<>>)
  <2>1. PICK f \in RobEntry : f = Entry("store", 0) /\ f.tp = "store" /\ ~f.end /\ ~f.ready
    BY <1>1, EntryTyped
  <2> DEFINE g == [f EXCEPT !.addr = 0]
  <2>a. g \in RobEntry /\ g.tp = f.tp /\ g.end = f.end /\ g.ready = f.ready
    BY <1>1 DEF RobEntry
  <2> HIDE DEF g
  <2>2. PICK e \in RobEntry : e = g /\ e.tp = "store" /\ ~e.end /\ ~e.ready
    BY <2>1, <2>a
  <2>3. PICK a \in LsbEntry : /\ Access(Rs1, Rs2) = <<a>> /\ a.op = Issuing.op /\ a.idx = ROB.tail
                              /\ ~a.commited /\ a.round = 3
                              /\ a.q \in OperandTags /\ a.q2 \in OperandTags
    BY <1>2, <1>4, AccessTyped
  <2>4. /\ IQ' = pop_front(IQ) /\ up_ROB' = <<e>> /\ up_RS' = <<>>
        /\ up_LSB' = <<a>> /\ up_reg_q_ex' = <<>>
    <3>1. Issue(e, <<>>, <<a>>, <<>>)
      BY <1>4, <2>1, <2>2, <2>3 DEF g
    <3> QED BY <3>1, IssueWith
  <2>5. IssuesAccess(e)
    BY <1>4, <2>2, <2>3, <2>4 DEF IssuesAccess
  <2> QED BY <2>2, <2>4, <2>5 DEF Issues, IssuesOne
<1> QED BY <1>3, <1>4 DEF IssueMemory

\* With room, what is prepared is an entry and who works on it.
LEMMA IssueRuns ==
  ASSUME WsTypes, NothingPrepared, HasRoom, ISSUE_Run
  PROVE  Issues
<1>1. 0 \in Word /\ Issuing \in Instructions /\ get_front(IQ_pre).pc \in Word /\ pc \in Word
  BY OperandsTyped, WordArithmetic DEF WsTypes, OtherTypes
<1>2. /\ Rs1 \in Operands /\ Rs2 \in Operands /\ Imm \in Operands /\ Known(0) \in Operands
      /\ Known(get_front(IQ_pre).pc) \in Operands
  BY <1>1, OperandsTyped DEF Instructions, Rs1, Rs2, Imm
<1>3. \A S : Second(S) \in Operands
  BY <1>2 DEF Second
<1>4. CASE IssueEnd
  <2> DEFINE e == [EmptyRob EXCEPT !.end = TRUE]
  <2>1. EmptyRob \in RobEntry
    BY <1>1, EntryTyped
  <2>2. e \in RobEntry /\ e.end /\ ~e.ready /\ e.tp # "store"
    BY <2>1 DEF RobEntry, EmptyRob
  <2>3. /\ up_ROB' = Append(<<>>, e) /\ IQ' = IQ /\ up_RS' = <<>> /\ up_LSB' = <<>>
        /\ up_reg_q_ex' = <<>>
    BY <1>4 DEF IssueEnd, NothingPrepared
  <2> HIDE DEF e
  <2>4. up_ROB' = <<e>>
    BY <2>3
  <2> QED BY <2>2, <2>3, <2>4 DEF Issues, IssuesEnd
<1>5. CASE IssueMemory
  BY <1>5, IssueAccess
<1>6. CASE IssueArithmetic
  <2>1. PICK op \in Operations : op = ArithmeticOp[Issuing.op]
    BY <1>6, OpsChosen DEF IssueArithmetic
  <2>2. PICK j \in Operands : j = Second({"ADDI"})
    BY <1>3
  <2>3. Issue(Entry("value", 0), Station(op, Rs1, j), <<>>, NewName)
    BY <1>6, <2>1, <2>2 DEF IssueArithmetic
  <2> QED BY <1>1, <1>2, <2>3, IssueStation
<1>7. CASE IssueUpper
  <2>1. PICK op \in Operations : op = UpperOp[Issuing.op]
    BY <1>7, OpsChosen DEF IssueUpper
  <2>2. Known(Sub(Add(Issuing.imm, pc), INST_BYTES)) \in Operands
    <3>1. Issuing.imm \in Word
      BY <1>1 DEF Instructions
    <3>2. PICK w \in Word : w = Add(Issuing.imm, pc)
      BY <1>1, <3>1, AddWord
    <3>3. w \in Int /\ INST_BYTES \in Int
      BY WordArithmetic, WordAssumption DEF WordAssumption
    <3>4. Sub(w, INST_BYTES) \in Word
      BY <3>3, WordArithmetic
    <3> QED BY <3>2, <3>4, OperandsTyped
  <2>3. PICK i \in Operands : i = IF Issuing.op = "LUI" THEN Imm
                                  ELSE Known(Sub(Add(Issuing.imm, pc), INST_BYTES))
    BY <1>2, <2>2
  <2>4. Issue(Entry("value", 0), Station(op, i, Known(0)), <<>>, NewName)
    BY <1>7, <2>1, <2>3 DEF IssueUpper
  <2> QED BY <1>1, <1>2, <2>4, IssueStation
<1>8. CASE IssueLogic
  <2>1. PICK op \in Operations : op = LogicOp[Issuing.op]
    BY <1>8, OpsChosen DEF IssueLogic
  <2>2. PICK j \in Operands : j = Second({"XORI", "ORI", "ANDI"})
    BY <1>3
  <2>3. Issue(Entry("value", 0), Station(op, Rs1, j), <<>>, NewName)
    BY <1>8, <2>1, <2>2 DEF IssueLogic
  <2> QED BY <1>1, <1>2, <2>3, IssueStation
<1>9. CASE IssueShift
  <2>1. PICK op \in Operations : op = ShiftOp[Issuing.op]
    BY <1>9, OpsChosen DEF IssueShift
  <2>2. PICK j \in Operands : j = Second({"SLLI", "SRLI", "SRAI"})
    BY <1>3
  <2>3. Issue(Entry("value", 0), Station(op, Rs1, j), <<>>, NewName)
    BY <1>9, <2>1, <2>2 DEF IssueShift
  <2> QED BY <1>1, <1>2, <2>3, IssueStation
<1>10. CASE IssueCompare
  <2>1. PICK op \in Operations : op = CompareOp[Issuing.op]
    BY <1>10, OpsChosen DEF IssueCompare
  <2>2. PICK j \in Operands : j = Second({"SLTI", "SLTIU"})
    BY <1>3
  <2>3. Issue(Entry("value", 0), Station(op, Rs1, j), <<>>, NewName)
    BY <1>10, <2>1, <2>2 DEF IssueCompare
  <2> QED BY <1>1, <1>2, <2>3, IssueStation
<1>11. CASE IssueBranch
  <2>1. PICK op \in Operations : op = BranchOp[Issuing.op]
    BY <1>11, OpsChosen DEF IssueBranch
  <2>2. PICK offset \in Word : offset = Issuing.imm
    BY <1>1 DEF Instructions
  <2>3. Issue(Entry("branch", offset), Station(op, Rs1, Rs2), <<>>, <<>>)
    BY <1>11, <2>1, <2>2 DEF IssueBranch
  <2> QED BY <1>2, <2>3, IssueStation
<1>12. CASE IssueJal
  <2>1. PICK offset \in Word : offset = Issuing.imm
    BY <1>1 DEF Instructions
  <2>2. "+" \in Operations
    BY DEF Operations
  <2>3. Issue(Entry("jal", offset), Station("+", Known(get_front(IQ_pre).pc), Known(0)), <<>>, NewName)
    BY <1>12, <2>1 DEF IssueJal
  <2> QED BY <1>2, <2>2, <2>3, IssueStation
<1>13. CASE IssueJalr
  <2>1. "+" \in Operations
    BY DEF Operations
  <2>2. Issue(Entry("jalr", get_front(IQ_pre).pc), Station("+", Rs1, Imm), <<>>, <<>>)
    BY <1>13 DEF IssueJalr
  <2> QED BY <1>1, <1>2, <2>1, <2>2, IssueStation
<1> QED BY <1>4, <1>5, <1>6, <1>7, <1>8, <1>9, <1>10, <1>11, <1>12, <1>13 DEF ISSUE_Run

\* In the view, the entry is in flight at once, and so is who works on it.
EnterRob(e, t) ==
  /\ ~e.ready /\ ~Flying(t) /\ ~Left(t)
  /\ RobSeen'.head = RobSeen.head
  /\ Of(t)' = e
  /\ \A s \in Slot : /\ Flying(s)' <=> Flying(s) \/ s = t
                     /\ RobAge(s)' = RobAge(s)
                     /\ Flying(s) => RobAge(s) < RobAge(t)
                     /\ s # t => Of(s)' = Of(s)
EnterRs(e, t) ==
  /\ LsbSeen' = LsbSeen /\ e.tp # "store"
  /\ \E i \in Slot : /\ ~RsSeen[i].status
                     /\ RsSeen'[i].status /\ RsSeen'[i].idx = t
                     /\ RsSeen'[i].qi \in OperandTags /\ RsSeen'[i].qj \in OperandTags
                     /\ \A j \in Slot : j # i => RsSeen'[j] = RsSeen[j]
EnterLsb(e, t) ==
  /\ RsSeen' = RsSeen
  /\ \E k \in Slot : /\ k \notin Held(LsbSeen)
                     /\ \A j \in Slot : /\ j \in Held(LsbSeen') <=> j \in Held(LsbSeen) \/ j = k
                                        /\ Age(LsbSeen', j) = Age(LsbSeen, j)
                                        /\ j \in Held(LsbSeen) => Age(LsbSeen, j) < Age(LsbSeen, k)
                                        /\ j # k => AccessAt(j)' = AccessAt(j)
                     /\ AccessAt(k)' \in LsbEntry
                     /\ AccessAt(k)'.idx = t /\ ~AccessAt(k)'.commited /\ AccessAt(k)'.round = 3
                     /\ e.tp = "store" <=> AccessAt(k)'.op \in StoreOps
                     /\ AccessAt(k)'.q \in OperandTags /\ AccessAt(k)'.q2 \in OperandTags
EnterEnd == RsSeen' = RsSeen /\ LsbSeen' = LsbSeen /\ RegSeen' = RegSeen /\ up_reg_q_ex' = <<>>
EnterName(e, t) ==
  IF e.tp \in {"value", "jal"} THEN /\ RegSeen' = Renamed(RegSeen, [rd |-> e.addr, tag |-> t])
                                    /\ up_reg_q_ex' = <<[rd |-> e.addr, tag |-> t]>>
                               ELSE RegSeen' = RegSeen /\ up_reg_q_ex' = <<>>
Enters == \E e \in RobEntry, t \in Slot :
            /\ EnterRob(e, t)
            /\ \/ e.end /\ e.tp # "store" /\ EnterEnd
               \/ ~e.end /\ EnterName(e, t) /\ (EnterRs(e, t) \/ EnterLsb(e, t))

\* When ISSUE_Run is called, the vectors that it fills are empty.
LEMMA NothingPreparedYet ==
  ASSUME WsTypes, Copies, Prepared, stage = "ISSUE_Run"
  PROVE  /\ NothingPrepared /\ up_reg_v_ex = <<>>
         /\ RobSeen = ROB /\ LsbSeen = LSB /\ RsSeen = RS /\ RegSeen = reg /\ reg_pre = reg
         /\ RS_pre = RS
<1>1. NothingPrepared /\ up_reg_v_ex = <<>>
  BY DEF Prepared, NothingPrepared
<1> QED BY <1>1 DEF NothingPrepared, RobSeen, LsbSeen, RsSeen, RegSeen, RegWritten, Copies

\* ISSUE_Run with room: the instruction is in the view, with all that belongs to it.
LEMMA Entering1 ==
  ASSUME WsTypes, Copies, Prepared, LastOut, HasRoom, ISSUE_Run
  PROVE  /\ Enters
         /\ up_ROB' \in Vector(RobEntry) /\ up_RS' \in Vector(RsEntry)
         /\ up_LSB' \in Vector(LsbEntry)
         /\ up_reg_q_ex' \in Vector(Naming) /\ IQ' \in QueueOf(IqEntry)
         /\ up_RS' # <<>> => Head(up_RS').status
<1>0. stage = "ISSUE_Run" /\ stage' = "Commit" /\ exited = "no"
  BY DEF ISSUE_Run, Turn
<1>1. /\ NothingPrepared /\ up_reg_v_ex = <<>> /\ RobSeen = ROB /\ LsbSeen = LSB /\ RsSeen = RS
      /\ RegSeen = reg /\ RS_pre = RS
  BY <1>0, NothingPreparedYet
<1>2. /\ ROB' = ROB /\ LSB' = LSB /\ RS' = RS /\ reg' = reg /\ up_reg_v_ex' = <<>>
      /\ commit_' = commit_
  BY <1>1 DEF ISSUE_Run, regs
<1>3. /\ ROB \in QueueOf(RobEntry) /\ LSB \in QueueOf(LsbEntry) /\ RS \in [Slot -> RsEntry]
      /\ IQ \in QueueOf(IqEntry)
  BY DEF WsTypes, BufferTypes
<1>4. ~isfull(ROB) /\ ~isfull(LSB) /\ find_empty(RS) # MAXN
  BY <1>1 DEF HasRoom
<1>5. PICK e \in RobEntry : up_ROB' = <<e>> /\ ~e.ready /\ (IssuesOne(e) \/ IssuesEnd(e))
  BY <1>1, IssueRuns DEF Issues
<1>6. PICK t \in Slot : t = ROB.tail
  BY <1>3, QueueAges
<1>7. RobSeen' = push_back(ROB, e)
  BY <1>2, <1>5 DEF RobSeen
<1>8. EnterRob(e, t)
  <2> DEFINE b == push_back(ROB, e)
  <2>1. /\ b.head = ROB.head
        /\ \A s \in Slot : b.queue[s] = IF s = t THEN e ELSE ROB.queue[s]
        /\ \A s : Age(b, s) = Age(ROB, s)
        /\ Held(b) = Held(ROB) \cup {t}
    BY <1>3, <1>4, <1>6, QueuePush
  <2> HIDE DEF b
  <2>2. RobSeen' = b
    BY <1>7 DEF b
  <2>3. \A s \in Held(ROB) : s # t /\ Age(ROB, s) < Age(ROB, t)
    BY <1>3, <1>6, QueueAges
  <2>4. ~Left(t)
    <3>1. Left(t) => get_nxt(t) = ROB.head
      BY <1>1 DEF LastOut
    <3> QED BY <1>4, <1>6, <3>1 DEF isfull
  <2>5. \A s \in Slot : /\ Flying(s) <=> s \in Held(ROB)
                        /\ Flying(s)' <=> s \in Held(b)
                        /\ RobAge(s) = Age(ROB, s) /\ RobAge(s)' = Age(b, s)
                        /\ Of(s) = ROB.queue[s] /\ Of(s)' = b.queue[s]
    BY <1>1, <2>2 DEF Flying, RobAge, Of
  <2>6. RobSeen'.head = RobSeen.head
    BY <1>1, <2>1, <2>2
  <2> QED BY <1>5, <2>1, <2>3, <2>4, <2>5, <2>6 DEF EnterRob
<1>9. up_ROB' \in Vector(RobEntry)
  BY <1>5 DEF Vector
<1>10. RegSeen' = IF up_reg_q_ex' = <<>> THEN reg ELSE Renamed(reg, Head(up_reg_q_ex'))
  BY <1>2 DEF RegSeen, RegWritten
<1>11. CASE IssuesEnd(e)
  <2>1. /\ e.end /\ e.tp # "store" /\ IQ' = IQ /\ up_RS' = <<>> /\ up_LSB' = <<>>
        /\ up_reg_q_ex' = <<>>
    BY <1>11 DEF IssuesEnd
  <2>2. EnterEnd
    BY <1>1, <1>2, <1>10, <2>1 DEF EnterEnd, RsSeen, LsbSeen
  <2> QED BY <1>3, <1>8, <1>9, <2>1, <2>2 DEF Enters, Vector
<1>12. CASE IssuesOne(e)
  <2>1. /\ ~e.end /\ IQ' = pop_front(IQ)
        /\ IssuesStation(e) \/ IssuesAccess(e)
        /\ up_reg_q_ex' = IF e.tp \in {"value", "jal"} THEN <<[rd |-> e.addr, tag |-> t]>> ELSE <<>>
    BY <1>6, <1>12 DEF IssuesOne
  <2>2. IQ' \in QueueOf(IqEntry)
    <3>2. IQ.head \in Slot
      BY <1>3, QueueAges
    <3>3. get_nxt(IQ.head) \in Slot
      BY <3>2, Circle
    <3> QED BY <1>3, <2>1, <3>3 DEF pop_front, QueueOf
  <2>3. EnterName(e, t) /\ up_reg_q_ex' \in Vector(Naming)
    <3>1. CASE e.tp \in {"value", "jal"}
      <4>1. PICK n \in Naming : n = [rd |-> e.addr, tag |-> t]
        BY DEF Naming, RobEntry
      <4>2. up_reg_q_ex' = <<n>>
        BY <2>1, <3>1, <4>1
      <4>3. RegSeen' = Renamed(RegSeen, n)
        BY <1>1, <1>10, <4>2
      <4> QED BY <3>1, <4>1, <4>2, <4>3 DEF EnterName, Vector
    <3>2. CASE e.tp \notin {"value", "jal"}
      <4>1. up_reg_q_ex' = <<>>
        BY <2>1, <3>2
      <4> QED BY <1>1, <1>10, <3>2, <4>1 DEF EnterName, Vector
    <3> QED BY <3>1, <3>2
  <2>4. CASE IssuesStation(e)
    <3>1. PICK st \in RsEntry : /\ up_RS' = <<st>> /\ up_LSB' = <<>>
                                /\ e.tp # "store" /\ st.status /\ st.idx = t
                                /\ st.qi \in OperandTags /\ st.qj \in OperandTags
      BY <1>6, <2>4 DEF IssuesStation
    <3>2. PICK i \in Slot : i = find_empty(RS) /\ ~RS[i].status
      BY <1>3, <1>4, Found
    <3>3. RsSeen' = [RS EXCEPT ![i] = st]
      BY <1>2, <3>1, <3>2 DEF RsSeen
    <3>4. RsSeen'[i] = st /\ \A j \in Slot : j # i => RsSeen'[j] = RS[j]
      BY <1>3, <3>3
    <3>5. LsbSeen' = LsbSeen
      BY <1>1, <1>2, <3>1 DEF LsbSeen
    <3>6. EnterRs(e, t)
      BY <1>1, <3>1, <3>2, <3>4, <3>5 DEF EnterRs
    <3> QED BY <1>8, <1>9, <2>1, <2>2, <2>3, <3>1, <3>6 DEF Enters, Vector
  <2>5. CASE IssuesAccess(e)
    <3>1. PICK a \in LsbEntry : /\ up_LSB' = <<a>> /\ up_RS' = <<>>
                                /\ e.tp = "store" <=> a.op \in StoreOps
                                /\ a.idx = t /\ ~a.commited /\ a.round = 3
                                /\ a.q \in OperandTags /\ a.q2 \in OperandTags
      BY <1>6, <2>5 DEF IssuesAccess
    <3>2. PICK k \in Slot : k = LSB.tail
      BY <1>3, QueueAges
    <3> DEFINE b == push_back(LSB, a)
    <3>3. /\ \A s \in Slot : b.queue[s] = IF s = k THEN a ELSE LSB.queue[s]
          /\ \A s : Age(b, s) = Age(LSB, s)
          /\ Held(b) = Held(LSB) \cup {k}
      BY <1>3, <1>4, <3>2, QueuePush
    <3> HIDE DEF b
    <3>4. LsbSeen' = b
      BY <1>2, <3>1 DEF LsbSeen, b
    <3>5. \A s \in Held(LSB) : s # k /\ Age(LSB, s) < Age(LSB, k)
      BY <1>3, <3>2, QueueAges
    <3>6. RsSeen' = RsSeen
      BY <1>1, <1>2, <3>1 DEF RsSeen
    <3>7. \A s \in Slot : AccessAt(s)' = b.queue[s] /\ AccessAt(s) = LSB.queue[s]
      BY <1>1, <3>4 DEF AccessAt
    <3>8. EnterLsb(e, t)
      BY <1>1, <3>1, <3>3, <3>4, <3>5, <3>6, <3>7 DEF EnterLsb
    <3> QED BY <1>8, <1>9, <2>1, <2>2, <2>3, <3>1, <3>8 DEF Enters, Vector
  <2> QED BY <2>1, <2>4, <2>5
<1> QED BY <1>5, <1>11, <1>12

\* A value is written, and a name is given.
LEMMA RegAssigned ==
  ASSUME NEW rf \in [RegIndex -> RegEntry], NEW w \in Writing
  PROVE  /\ Assigned(rf, w) \in [RegIndex -> RegEntry]
         /\ \A r \in RegIndex :
              /\ Assigned(rf, w)[r].q = rf[r].q
              /\ Assigned(rf, w)[r].status <=> rf[r].status /\ ~(r # 0 /\ r = w.rd /\ rf[r].q = w.tag)
<1>1. w.rd \in RegIndex /\ w.value \in Word
  BY DEF Writing
<1>2. CASE w.rd = 0
  BY <1>2 DEF Assigned
<1>3. CASE w.rd # 0
  <2> DEFINE d == w.rd
             free == rf[d].status /\ rf[d].q # w.tag
             e == [rf[d] EXCEPT !.v = w.value, !.status = free]
  <2>1. rf[d] \in RegEntry /\ free \in BOOLEAN
    BY <1>1 DEF RegEntry
  <2>2. Assigned(rf, w) = [rf EXCEPT ![d] = e]
    <3> HIDE DEF d
    <3>1. Assigned(rf, w) = [rf EXCEPT ![d].v = w.value, ![d].status = @ /\ rf[d].q # w.tag]
      BY <1>3, Zenon DEF Assigned, d
    <3>2. d \in RegIndex
      BY <1>1 DEF d
    <3> QED BY <3>1, <3>2
  <2> HIDE DEF free
  <2>3. e \in RegEntry
    BY <1>1, <2>1, Zenon DEF RegEntry
  <2>4. e.q = rf[d].q /\ e.status = free
    BY <2>1 DEF RegEntry
  <2> HIDE DEF e, d
  <2>5. d \in RegIndex /\ d # 0 /\ d = w.rd
    BY <1>1, <1>3 DEF d
  <2>6. /\ Assigned(rf, w) \in [RegIndex -> RegEntry]
        /\ \A r \in RegIndex : Assigned(rf, w)[r] = IF r = d THEN e ELSE rf[r]
    BY <2>2, <2>3, <2>5
  <2> QED BY <2>4, <2>5, <2>6 DEF free
<1> QED BY <1>2, <1>3

\* A name is given.
LEMMA RegRenamed ==
  ASSUME NEW rf \in [RegIndex -> RegEntry], NEW n \in Naming
  PROVE  /\ Renamed(rf, n) \in [RegIndex -> RegEntry]
         /\ \A r \in RegIndex : IF r # 0 /\ r = n.rd
                                  THEN Renamed(rf, n)[r].status /\ Renamed(rf, n)[r].q = n.tag
                                  ELSE Renamed(rf, n)[r] = rf[r]
<1>1. n.rd \in RegIndex /\ n.tag \in Slot
  BY DEF Naming
<1>2. CASE n.rd = 0
  BY <1>2 DEF Renamed
<1>3. CASE n.rd # 0
  <2> DEFINE d == n.rd
             e == [rf[d] EXCEPT !.status = TRUE, !.q = n.tag]
  <2>1. rf[d] \in RegEntry
    BY <1>1
  <2>2. Renamed(rf, n) = [rf EXCEPT ![d] = e]
    <3> HIDE DEF d
    <3>1. Renamed(rf, n) = [rf EXCEPT ![d].status = TRUE, ![d].q = n.tag]
      BY <1>3, Zenon DEF Renamed, d
    <3>2. d \in RegIndex
      BY <1>1 DEF d
    <3> QED BY <3>1, <3>2
  <2>3. e \in RegEntry /\ e.q = n.tag /\ e.status
    BY <1>1, <2>1 DEF RegEntry
  <2> HIDE DEF e, d
  <2>4. d \in RegIndex /\ d # 0 /\ d = n.rd
    BY <1>1, <1>3 DEF d
  <2>5. /\ Renamed(rf, n) \in [RegIndex -> RegEntry]
        /\ \A r \in RegIndex : Renamed(rf, n)[r] = IF r = d THEN e ELSE rf[r]
    BY <2>2, <2>3, <2>4
  <2> QED BY <2>3, <2>4, <2>5
<1> QED BY <1>2, <1>3

\* Where the view looks, there are slots, and ages are numbers.
Indices == /\ \A i \in Slot : /\ RsSeen[i].idx \in Slot /\ AccessAt(i).idx \in Slot
                              /\ AccessAt(i).op \in LoadOps \cup StoreOps
           /\ \A r \in RegIndex : RegSeen[r].q \in Slot
           /\ \A s \in Slot : RobAge(s) \in 0 .. MAXN - 1 /\ Age(LsbSeen, s) \in 0 .. MAXN - 1
           /\ \A s, t \in Slot : RobAge(s) = RobAge(t) => s = t
           /\ \A s \in Slot : RobAge(s) = 0 <=> s = RobSeen.head

\* The registers in the view have the type of registers.
LEMMA RegSeenType ==
  ASSUME WsTypes
  PROVE  RegWritten \in [RegIndex -> RegEntry] /\ RegSeen \in [RegIndex -> RegEntry]
<1>1. /\ reg \in [RegIndex -> RegEntry] /\ up_reg_v_ex \in Vector(Writing)
      /\ up_reg_q_ex \in Vector(Naming)
  BY DEF WsTypes, RegTypes, VectorTypes
<1>2. RegWritten \in [RegIndex -> RegEntry]
  <2>1. CASE up_reg_v_ex = <<>>
    BY <1>1, <2>1 DEF RegWritten
  <2>2. CASE up_reg_v_ex # <<>>
    <3>1. PICK w \in Writing : w = Head(up_reg_v_ex)
      BY <1>1, <2>2 DEF Vector
    <3> QED BY <1>1, <2>2, <3>1, RegAssigned DEF RegWritten
  <2> QED BY <2>1, <2>2
<1>3. RegSeen \in [RegIndex -> RegEntry]
  <2>1. CASE up_reg_q_ex = <<>>
    BY <1>2, <2>1 DEF RegSeen
  <2>2. CASE up_reg_q_ex # <<>>
    <3>1. PICK w \in Naming : w = Head(up_reg_q_ex)
      BY <1>1, <2>2 DEF Vector
    <3> QED BY <1>2, <2>2, <3>1, RegRenamed DEF RegSeen
  <2> QED BY <2>1, <2>2
<1> QED BY <1>2, <1>3

\* The entries, ages and registers that the view speaks of exist.
LEMMA IndicesHold ==
  ASSUME WsTypes, Prepared
  PROVE  Indices
<1>1. /\ RobSeen \in QueueOf(RobEntry) /\ LsbSeen \in QueueOf(LsbEntry)
      /\ RsSeen \in [Slot -> RsEntry] /\ RegSeen \in [RegIndex -> RegEntry]
  BY ViewTypes, RegSeenType
<1>2. \A i \in Slot : /\ RsSeen[i].idx \in Slot /\ AccessAt(i).idx \in Slot
                      /\ AccessAt(i).op \in LoadOps \cup StoreOps
  BY <1>1 DEF AccessAt, QueueOf, RsEntry, LsbEntry
<1>3. \A r \in RegIndex : RegSeen[r].q \in Slot
  BY <1>1 DEF RegEntry
<1>4. \A s \in Slot : RobAge(s) \in 0 .. MAXN - 1 /\ Age(LsbSeen, s) \in 0 .. MAXN - 1
  BY <1>1, QueueAges DEF RobAge
<1>5. \A s, t \in Slot : RobAge(s) = RobAge(t) => s = t
  BY <1>1, QueueAges DEF RobAge
<1>6. \A s \in Slot : RobAge(s) = 0 <=> s = RobSeen.head
  BY <1>1, QueueAges DEF RobAge
<1> QED BY <1>2, <1>3, <1>4, <1>5, <1>6 DEF Indices

(***************************************************************************)
(* The stages that change nothing in the view.                             *)
(***************************************************************************)
SameRob == \A s \in Slot : (Flying(s)' <=> Flying(s)) /\ Of(s)' = Of(s) /\ RobAge(s)' = RobAge(s)
SameLsb == LsbSeen' = LsbSeen /\ \A k \in Slot : AccessAt(k)' = AccessAt(k)
SameOut == \A s \in Slot : /\ Left(s)' <=> Left(s)
                           /\ ToStations(s)' <=> ToStations(s)
                           /\ Telling(s)' <=> Telling(s)
SameWork == \A s \in Slot : /\ InEx(s)' <=> InEx(s)
                            /\ Computed(s)' <=> Computed(s)
                            /\ Loaded(s)' <=> Loaded(s)

\* The same buffers look the same.
LEMMA SameViews ==
  /\ RobSeen' = RobSeen => SameRob /\ RobSeen'.head = RobSeen.head
  /\ LsbSeen' = LsbSeen => SameLsb
  BY DEF SameRob, SameLsb, Flying, Of, RobAge, AccessAt

\* Behind the copies and the vectors, the view alone.
Scheduled == /\ LastOut /\ Owned /\ Alone /\ Worked /\ StoresNotReady
             /\ OperandsInRs /\ OperandsInLsb /\ Rounds /\ Names /\ InOrder

\* A stage that changes nothing in the view keeps what it says.
LEMMA ViewStill ==
  ASSUME Scheduled, Indices, RobSeen' = RobSeen, LsbSeen' = LsbSeen, RsSeen' = RsSeen,
         RegSeen' = RegSeen,
         commit_' = commit_, SameOut, SameWork, ~reg'[0].status,
         stage' = "Commit" => up_reg_q_ex' = <<>> \/ (stage = "Commit" /\ up_reg_q_ex' = up_reg_q_ex)
  PROVE  Scheduled'
<1>1. SameRob /\ SameLsb /\ RobSeen'.head = RobSeen.head
  BY SameViews
<1> USE <1>1 DEF SameRob, SameLsb, SameOut, SameWork
<1>2. LastOut'
  <2>1. \A s \in Slot : Left(s)' => get_nxt(s) = RobSeen'.head
    BY DEF Scheduled, LastOut
  <2>2. \A s \in Slot : Telling(s)' => ~Flying(s)' /\ ~Left(s)'
    BY DEF Scheduled, LastOut
  <2>3. stage' = "Commit" /\ up_reg_q_ex' # <<>> => Flying(Head(up_reg_q_ex).tag)'
    <3>1. SUFFICES ASSUME stage' = "Commit", up_reg_q_ex' # <<>>
                   PROVE  Flying(Head(up_reg_q_ex).tag)'
      OBVIOUS
    <3>2. Flying(Head(up_reg_q_ex).tag) /\ up_reg_q_ex' = up_reg_q_ex
      BY <3>1 DEF Scheduled, LastOut
    <3> QED BY <3>2 DEF Flying
  <2> QED BY <2>1, <2>2, <2>3 DEF LastOut
<1>3. \A s, i \in Slot : InRs(s, i)' <=> InRs(s, i)
  BY DEF InRs
<1>4. \A s, k \in Slot : InLsb(s, k)' <=> InLsb(s, k)
  BY DEF InLsb, Open
<1>5. \A s \in Slot : Unfinished(s)' <=> Unfinished(s)
  BY DEF Unfinished
<1>6. Owned'
  BY <1>3, <1>4, <1>5 DEF Scheduled, Owned
<1>7. Alone'
  BY <1>3, <1>4 DEF Scheduled, Alone
<1>8. Worked'
  BY <1>3, <1>4, <1>5 DEF Scheduled, Worked
<1>9. StoresNotReady'
  BY DEF Scheduled, StoresNotReady
<1>10. OperandsInRs'
  BY DEF Scheduled, OperandsInRs, Gives, Indices
<1>11. OperandsInLsb'
  BY DEF Scheduled, OperandsInLsb, Gives, Indices, Open, ToAccesses
<1>12. Rounds'
  BY DEF Scheduled, Rounds
<1>13. Names'
  BY DEF Scheduled, Names, NamesYoungest, NamesNone, Writes, Indices
<1>14. InOrder'
  BY DEF Scheduled, InOrder, Paid, ToAccesses, Indices
<1> QED BY <1>2, <1>6, <1>7, <1>8, <1>9, <1>10, <1>11, <1>12, <1>13, <1>14 DEF Scheduled

(***************************************************************************)
(* The stages that change something in it, one after the other.            *)
(***************************************************************************)

\* ROB_Run: what is computed is ready, and the oldest may leave.
LEMMA RobStep ==
  ASSUME Scheduled, Indices, RobMarks, RobKeeps \/ RobPops,
         LsbSeen' = LsbSeen, RsSeen' = RsSeen, RegSeen' = RegSeen, reg' = reg,
         EX_Run_ = <<>>, EX_Run_' = <<>>, commit_ = <<>>, Number_ROB' = Number_ROB,
         stage = "ROB_Run", stage' = "IF_Run"
  PROVE  Scheduled'
<1> DEFINE Gone(s) == RobPops /\ s = RobSeen.head
<1>1. SameLsb
  BY SameViews
<1>2. \A s \in Slot : /\ ~InEx(s) /\ ~InEx(s)' /\ ~Computed(s)' /\ ~Loaded(s)' /\ ~Left(s)
                      /\ Announced(s)' <=> Announced(s)
                      /\ Telling(s)' <=> Telling(s)
                      /\ ToStations(s)' <=> Telling(s) \/ Left(s)'
                      /\ ToStations(s) <=> Telling(s)
                      /\ ToAccesses(s)' <=> Telling(s) \/ Left(s)'
                      /\ ToAccesses(s) <=> Telling(s)
  BY DEF InEx, Computed, Loaded, Left, Announced, Telling, ToStations, ToAccesses
<1>3. /\ \A s \in Slot : Left(s)' <=> Gone(s)
      /\ \A s \in Slot : /\ Flying(s)' <=> Flying(s) /\ ~Gone(s)
                         /\ Gone(s) => /\ Flying(s) /\ ~Of(s).end /\ (Of(s).ready \/ Of(s).tp = "store")
                                       /\ RobAge(s) = 0
                                       /\ Head(commit_').rob.tp = Of(s).tp
                                       /\ Head(commit_').rob.addr = Of(s).addr
                                       /\ RobSeen'.head = get_nxt(s)
      /\ \/ \A s \in Slot : ~Gone(s) /\ RobAge(s)' = RobAge(s)
         \/ \A s \in Slot : ~Gone(s) => RobAge(s)' = RobAge(s) - 1
  <2>1. CASE RobPops
    <3>1. PICK front \in RobEntry :
             /\ front = Of(RobSeen.head)
             /\ commit_' = <<[rob |-> front, idx |-> RobSeen.head]>>
             /\ RobSeen.head \in Slot /\ Flying(RobSeen.head) /\ ~front.end
             /\ front.ready \/ front.tp = "store"
             /\ RobSeen'.head = get_nxt(RobSeen.head)
             /\ \A s \in Slot : /\ Flying(s)' <=> Flying(s) /\ s # RobSeen.head
                                /\ s # RobSeen.head => RobAge(s)' = RobAge(s) - 1
      BY <2>1 DEF RobPops
    <3>2. commit_' # <<>> /\ Head(commit_').idx = RobSeen.head /\ Head(commit_').rob = front
      BY <3>1
    <3>3. \A s \in Slot : Left(s)' <=> s = RobSeen.head
      BY <3>2 DEF Left
    <3> QED BY <2>1, <3>1, <3>2, <3>3 DEF Indices
  <2>2. CASE ~RobPops
    <3>1. RobKeeps
      BY <2>2
    <3>2. \A s \in Slot : ~Left(s)'
      BY <3>1 DEF RobKeeps, Left
    <3> QED BY <2>2, <3>1, <3>2 DEF RobKeeps
  <2> QED BY <2>1, <2>2
<1> HIDE DEF Gone
<1>4. \A s, t \in Slot : ~Gone(s) /\ ~Gone(t) => (RobAge(t) < RobAge(s) <=> RobAge(t)' < RobAge(s)')
  BY <1>3 DEF Indices
<1>5. \A s, t \in Slot : /\ Gone(s) => ~(RobAge(t) < RobAge(s))
                         /\ Gone(s) /\ Gone(t) => s = t
  BY <1>3 DEF Indices
<1>6. \A s \in Slot : Unfinished(s)' <=> Unfinished(s) /\ ~Gone(s) /\ ~Computed(s) /\ ~Loaded(s)
  BY <1>3 DEF Unfinished, RobMarks
<1>7. \A s \in Slot : /\ Of(s)'.tp = Of(s).tp /\ Of(s)'.addr = Of(s).addr /\ Of(s)'.end = Of(s).end
                      /\ Of(s)'.ready <=> Of(s).ready \/ Computed(s) \/ Loaded(s)
  BY DEF RobMarks
<1>8. \A s, i \in Slot : /\ InRs(s, i)' <=> InRs(s, i)
                         /\ InLsb(s, i)' <=> InLsb(s, i)
  BY <1>1 DEF InRs, InLsb, Open, SameLsb
\* Who is worked on elsewhere has no result, so it stays.
<1>9. \A s, i \in Slot : InRs(s, i) => ~Gone(s) /\ ~Computed(s) /\ ~Loaded(s)
  BY <1>3 DEF Scheduled, Owned, Alone, Unfinished
<1>10. \A s, k \in Slot : InLsb(s, k) => /\ ~Computed(s) /\ ~Loaded(s)
                                         /\ Gone(s) => Of(s).tp = "store"
  <2>1. \A s \in Slot : Gone(s) => ~Telling(s)
    BY <1>3 DEF Scheduled, LastOut
  <2> QED BY <1>2, <1>3, <2>1 DEF Scheduled, Owned, Alone, Unfinished
<1>11. \A s \in Slot : Gone(s) => ~Telling(s)
  BY <1>3 DEF Scheduled, LastOut
<1>12. LastOut'
  BY <1>2, <1>3, <1>11 DEF Scheduled, LastOut
<1>13. Owned'
  <2>1. ASSUME NEW s \in Slot, NEW i \in Slot, InRs(s, i)'
        PROVE  Unfinished(s)' /\ Of(s)'.tp # "store"
    BY <2>1, <1>6, <1>7, <1>8, <1>9 DEF Scheduled, Owned
  <2>2. ASSUME NEW s \in Slot, NEW k \in Slot, InLsb(s, k)'
        PROVE  IF AccessAt(k).op \in LoadOps THEN Unfinished(s)' /\ Of(s)'.tp # "store"
               ELSE \/ Unfinished(s)' /\ Of(s)'.tp = "store"
                    \/ Left(s)' /\ Head(commit_').rob.tp = "store"
                    \/ Telling(s)'
    <3>1. InLsb(s, k) /\ ~Left(s)
      BY <1>2, <1>8, <2>2
    <3>2. CASE AccessAt(k).op \in LoadOps
      BY <1>6, <1>7, <1>10, <3>1, <3>2 DEF Scheduled, Owned
    <3>3. CASE AccessAt(k).op \notin LoadOps
      <4>1. Telling(s) \/ (Unfinished(s) /\ Of(s).tp = "store")
        BY <3>1, <3>3 DEF Scheduled, Owned
      <4> QED BY <1>2, <1>3, <1>6, <1>7, <1>10, <3>1, <3>3, <4>1
    <3> QED BY <3>2, <3>3
  <2> QED BY <1>1, <1>2, <2>1, <2>2 DEF Owned, SameLsb
<1>14. Alone'
  BY <1>2, <1>8 DEF Scheduled, Alone
<1>15. Worked'
  <2>1. ASSUME NEW s \in Slot, Unfinished(s)'
        PROVE  (\E i \in Slot : InRs(s, i)) \/ \E k \in Slot : InLsb(s, k)
    BY <2>1, <1>2, <1>6 DEF Scheduled, Worked
  <2> QED BY <1>8, <2>1 DEF Worked
<1>16. StoresNotReady'
  BY <1>3, <1>7 DEF Scheduled, StoresNotReady, Owned
<1>17. \A s, t \in Slot : Gives(t, s) => Left(t)' \/ (~Gone(s) => Gives(t, s)')
  BY <1>3, <1>4, <1>7 DEF Gives
<1>18. OperandsInRs'
  <2>1. ASSUME NEW i \in Slot, NEW t \in Slot, RsSeen[i].status,
               RsSeen[i].qi = t \/ RsSeen[i].qj = t
        PROVE  Gives(t, RsSeen[i].idx)' \/ ToStations(t)'
    <3>1. PICK s \in Slot : s = RsSeen[i].idx
      BY DEF Indices
    <3>2. InRs(s, i) /\ ~Gone(s)
      BY <1>9, <2>1, <3>1 DEF InRs
    <3>3. Gives(t, s) \/ ToStations(t)
      BY <2>1, <3>1 DEF Scheduled, OperandsInRs
    <3>4. Gives(t, s)' \/ ToStations(t)'
      BY <1>2, <1>17, <3>2, <3>3
    <3> QED BY <3>1, <3>4 DEF Gives
  <2> QED BY <2>1 DEF OperandsInRs, Gives
<1>19. OperandsInLsb'
  <2>1. ASSUME NEW k \in Slot, NEW t \in Slot, k \in Held(LsbSeen),
               AccessAt(k).q = t \/ AccessAt(k).q2 = t
        PROVE  /\ Open(k)
               /\ \/ Flying(AccessAt(k).idx)' /\ (Gives(t, AccessAt(k).idx)' \/ ToAccesses(t)')
                  \/ Left(AccessAt(k).idx)' /\ Telling(t)'
    <3>1. PICK s \in Slot : s = AccessAt(k).idx
      BY DEF Indices
    <3>2. /\ Open(k)
          /\ \/ Flying(s) /\ (Gives(t, s) \/ ToAccesses(t))
             \/ Left(s) /\ Telling(t)
      BY <2>1, <3>1 DEF Scheduled, OperandsInLsb
    <3>3. Gives(t, s) => RobAge(t) < RobAge(s)
      BY DEF Gives
    <3>4. \/ Flying(s)' /\ (Gives(t, s)' \/ ToAccesses(t)')
          \/ Left(s)' /\ Telling(t)'
      BY <1>2, <1>3, <1>5, <1>17, <3>2, <3>3
    <3>5. \/ Flying(AccessAt(k).idx)' /\ (Gives(t, AccessAt(k).idx)' \/ ToAccesses(t)')
          \/ Left(AccessAt(k).idx)' /\ Telling(t)'
      <4>1. AccessAt(k)' = AccessAt(k)
        BY <1>1 DEF SameLsb
      <4> QED BY <3>1, <3>4, <4>1 DEF Gives, Flying, Left
    <3> QED BY <3>2, <3>5
  <2>2. \A k \in Slot : (Open(k)' <=> Open(k)) /\ AccessAt(k)' = AccessAt(k)
    BY <1>1 DEF Open, SameLsb
  <2> QED BY <1>1, <2>1, <2>2 DEF OperandsInLsb, Gives, SameLsb
<1>20. Rounds'
  BY <1>1 DEF Scheduled, Rounds, SameLsb
<1>21. \A s \in Slot : \A r : Writes(s, r)' <=> Writes(s, r) /\ ~Gone(s)
  BY <1>3, <1>7 DEF Writes
<1>22. Names'
  <2>1. ASSUME NEW r \in RegIndex \ {0} PROVE NamesYoungest(r)' \/ NamesNone(r)'
    <3>1. PICK q \in Slot : q = RegSeen[r].q
      BY DEF Indices
    <3>2. CASE NamesYoungest(r)
      <4>1. /\ RegSeen[r].status /\ Writes(q, r)
            /\ \A s \in Slot : Writes(s, r) /\ s # q => RobAge(s) < RobAge(q)
        BY <3>1, <3>2 DEF NamesYoungest
      <4>2. CASE Gone(q)
        <5>1. \A s \in Slot : ~Writes(s, r)'
          BY <1>5, <1>21, <4>1, <4>2
        <5>2. Left(q)' /\ Head(commit_').rob.tp \in {"value", "jal"} /\ Head(commit_').rob.addr = r
          BY <1>3, <4>1, <4>2 DEF Writes
        <5> QED BY <3>1, <5>1, <5>2 DEF NamesNone
      <4>3. CASE ~Gone(q)
        <5>1. Writes(q, r)' /\ \A s \in Slot : Writes(s, r)' /\ s # q => RobAge(s)' < RobAge(q)'
          BY <1>4, <1>21, <4>1, <4>3
        <5> QED BY <3>1, <4>1, <5>1 DEF NamesYoungest
      <4> QED BY <4>2, <4>3
    <3>3. CASE NamesNone(r)
      <4>1. \A s \in Slot : ~Writes(s, r)'
        BY <1>21, <3>3 DEF NamesNone
      <4>2. ~RegSeen[r].status
        BY <1>2, <3>1, <3>3 DEF NamesNone
      <4> QED BY <4>1, <4>2 DEF NamesNone
    <3> QED BY <3>2, <3>3 DEF Scheduled, Names
  <2> QED BY <2>1 DEF Names, Scheduled
<1>23. InOrder'
  <2>1. ASSUME NEW j \in Slot, NEW k \in Slot, j \in Held(LsbSeen), k \in Held(LsbSeen),
               Age(LsbSeen, j) < Age(LsbSeen, k), ~AccessAt(j).commited
        PROVE  /\ ~AccessAt(k).commited
               /\ \/ Paid(j)' /\ Flying(AccessAt(k).idx)'
                  \/ Telling(AccessAt(j).idx)' /\ Left(AccessAt(k).idx)'
                  \/ /\ Flying(AccessAt(j).idx)' /\ Flying(AccessAt(k).idx)'
                     /\ RobAge(AccessAt(j).idx)' < RobAge(AccessAt(k).idx)'
    <3>1. PICK a \in Slot : a = AccessAt(j).idx
      BY DEF Indices
    <3>2. PICK b \in Slot : b = AccessAt(k).idx
      BY DEF Indices
    <3>3. /\ ~AccessAt(k).commited
          /\ \/ Paid(j) /\ Flying(b)
             \/ Telling(a) /\ Left(b)
             \/ Flying(a) /\ Flying(b) /\ RobAge(a) < RobAge(b)
      BY <2>1, <3>1, <3>2 DEF Scheduled, InOrder
    <3>4. AccessAt(j)' = AccessAt(j) /\ AccessAt(k)' = AccessAt(k)
      BY <1>1 DEF SameLsb
    <3>5. InLsb(a, j)
      BY <2>1, <3>1 DEF InLsb, Open
    <3>6. /\ Paid(j) <=> AccessAt(j).op \in StoreOps /\ Telling(a)
          /\ Paid(j)' <=> AccessAt(j).op \in StoreOps /\ (Telling(a)' \/ Left(a)')
      <4>1. ToAccesses(a)' <=> ToAccesses(AccessAt(j).idx)'
        BY <3>1, <3>4 DEF ToAccesses, Left, Telling, Announced
      <4> QED BY <1>2, <2>1, <3>1, <3>4, <4>1 DEF Paid
    <3>7. \/ Paid(j)' /\ Flying(b)'
          \/ Telling(a)' /\ Left(b)'
          \/ Flying(a)' /\ Flying(b)' /\ RobAge(a)' < RobAge(b)'
      <4>1. CASE Paid(j) /\ Flying(b)
        BY <1>2, <1>3, <3>6, <4>1
      <4>2. CASE Flying(a) /\ Flying(b) /\ RobAge(a) < RobAge(b)
        <5>1. ~Gone(b)
          BY <1>5, <4>2
        <5>2. CASE ~Gone(a)
          BY <1>3, <1>4, <4>2, <5>1, <5>2
        <5>3. CASE Gone(a)
          <6>1. Of(a).tp = "store" /\ ~Telling(a)
            BY <1>10, <1>11, <3>5, <5>3
          <6>2. AccessAt(j).op \notin LoadOps
            BY <3>5, <6>1 DEF Scheduled, Owned
          <6>3. AccessAt(j).op \in StoreOps
            BY <6>2, <2>1 DEF Scheduled, Indices
          <6> QED BY <1>3, <3>6, <4>2, <5>1, <5>3, <6>3
        <5> QED BY <5>2, <5>3
      <4> QED BY <1>2, <3>3, <4>1, <4>2
    <3>8. /\ Flying(a)' <=> Flying(AccessAt(j).idx)'
          /\ Flying(b)' <=> Flying(AccessAt(k).idx)'
          /\ Telling(a)' <=> Telling(AccessAt(j).idx)'
          /\ Left(b)' <=> Left(AccessAt(k).idx)'
          /\ RobAge(a)' = RobAge(AccessAt(j).idx)' /\ RobAge(b)' = RobAge(AccessAt(k).idx)'
      BY <3>1, <3>2, <3>4 DEF Flying, Telling, Announced, Left, RobAge
    <3> QED BY <3>3, <3>7, <3>8
  <2> QED BY <1>1, <2>1 DEF InOrder, SameLsb
<1> QED BY <1>12, <1>13, <1>14, <1>15, <1>16, <1>18, <1>19, <1>20, <1>22, <1>23 DEF Scheduled

\* It keeps what the view says.
LEMMA RsStep ==
  ASSUME Scheduled, Indices, RsWorks,
         RobSeen' = RobSeen, LsbSeen' = LsbSeen, RegSeen' = RegSeen, reg' = reg,
         EX_Run_ = <<>>, commit_' = commit_, Number_ROB' = Number_ROB,
         stage = "RS_Run", stage' = "LSB_Run"
  PROVE  Scheduled'
<1>1. SameRob /\ SameLsb /\ RobSeen'.head = RobSeen.head
  BY SameViews
<1>2. \A s \in Slot : /\ ~InEx(s) /\ ~Computed(s) /\ ~Computed(s)' /\ ~Loaded(s) /\ ~Loaded(s)'
                      /\ Left(s)' <=> Left(s)
                      /\ Announced(s)' <=> Announced(s)
                      /\ Telling(s)' <=> Telling(s)
                      /\ ToStations(s)' <=> Left(s)
                      /\ ToStations(s) <=> Left(s) \/ Announced(s)
                      /\ ToAccesses(s)' <=> ToAccesses(s)
  BY DEF InEx, Computed, Loaded, Left, Announced, Telling, ToStations, ToAccesses
<1>3. PICK pos \in Slot \cup {MAXN} :
        /\ \A s \in Slot : InEx(s)' <=> pos # MAXN /\ InRs(s, pos)
        /\ \A i \in Slot :
             /\ RsSeen'[i].status <=> RsSeen[i].status /\ i # pos
             /\ RsSeen'[i].status =>
                  /\ RsSeen'[i].idx = RsSeen[i].idx
                  /\ \A t \in Slot : /\ RsSeen'[i].qi = t => RsSeen[i].qi = t /\ ~Announced(t)
                                     /\ RsSeen'[i].qj = t => RsSeen[i].qj = t /\ ~Announced(t)
  BY DEF RsWorks
<1>4. \A s, i \in Slot : /\ InRs(s, i)' <=> InRs(s, i) /\ i # pos
                         /\ InLsb(s, i)' <=> InLsb(s, i)
  BY <1>1, <1>3 DEF InRs, InLsb, Open, SameLsb
<1>5. \A s \in Slot : Unfinished(s)' <=> Unfinished(s)
  BY <1>1 DEF SameRob, Unfinished
<1>6. pos # MAXN => pos \in Slot
  OBVIOUS
<1>7. LastOut'
  BY <1>1, <1>2 DEF Scheduled, LastOut, SameRob
<1>8. Owned'
  BY <1>1, <1>2, <1>3, <1>4, <1>5, <1>6 DEF Scheduled, Owned, SameRob, SameLsb
<1>9. Alone'
  BY <1>2, <1>3, <1>4, <1>6 DEF Scheduled, Alone
<1>10. Worked'
  <2>1. ASSUME NEW s \in Slot, Unfinished(s)
        PROVE  \/ InEx(s)'
               \/ \E i \in Slot : InRs(s, i)'
               \/ \E k \in Slot : InLsb(s, k)'
    <3>1. (\E i \in Slot : InRs(s, i)) \/ \E k \in Slot : InLsb(s, k)
      BY <1>2, <2>1 DEF Scheduled, Worked
    <3> QED BY <1>3, <1>4, <3>1, Nothing
  <2> QED BY <1>5, <2>1 DEF Worked
<1>11. StoresNotReady'
  BY <1>1 DEF Scheduled, StoresNotReady, SameRob
<1>12. OperandsInRs'
  <2>1. ASSUME NEW i \in Slot, NEW t \in Slot, RsSeen'[i].status,
               RsSeen'[i].qi = t \/ RsSeen'[i].qj = t
        PROVE  Gives(t, RsSeen[i].idx)' \/ ToStations(t)'
    <3>1. PICK s \in Slot : s = RsSeen[i].idx /\ s = RsSeen'[i].idx
      BY <1>3, <2>1 DEF Indices
    <3>2. RsSeen[i].status /\ (RsSeen[i].qi = t \/ RsSeen[i].qj = t) /\ ~Announced(t)
      BY <1>3, <2>1
    <3>3. Gives(t, s) \/ Left(t)
      BY <1>2, <3>1, <3>2 DEF Scheduled, OperandsInRs
    <3>4. Gives(t, s)' \/ ToStations(t)'
      BY <1>1, <1>2, <3>3 DEF Gives, SameRob
    <3> QED BY <3>1, <3>4 DEF Gives
  <2> QED BY <2>1 DEF OperandsInRs, Gives
<1>13. OperandsInLsb'
  BY <1>1, <1>2 DEF Scheduled, OperandsInLsb, Gives, Indices, Open, SameRob, SameLsb
<1>14. Rounds'
  BY <1>1 DEF Scheduled, Rounds, SameLsb
<1>15. Names'
  BY <1>1 DEF Scheduled, Names, NamesYoungest, NamesNone, Writes, Indices, SameRob, Left
<1>16. InOrder'
  BY <1>1, <1>2 DEF Scheduled, InOrder, Paid, Indices, SameRob, SameLsb
<1> QED BY <1>7, <1>8, <1>9, <1>10, <1>11, <1>12, <1>13, <1>14, <1>15, <1>16 DEF Scheduled

\* Execute: who was in the unit is computed.
LEMMA ExStep ==
  ASSUME Scheduled, Indices, RobSeen' = RobSeen, LsbSeen' = LsbSeen, RsSeen' = RsSeen,
         RegSeen' = RegSeen, reg' = reg, EX_Run_' = <<>>, commit_' = commit_,
         LSB_to_ROB' = LSB_to_ROB, Number_ROB' = Number_ROB,
         \A s \in Slot : EX_to_ROB'.first = s <=> InEx(s),
         stage = "Execute", stage' = "ISSUE_Run"
  PROVE  Scheduled'
<1>1. SameRob /\ SameLsb /\ RobSeen'.head = RobSeen.head
  BY SameViews
<1>2. \A s \in Slot : /\ ~InEx(s)' /\ ~Computed(s) /\ (Computed(s)' <=> InEx(s))
                      /\ Loaded(s)' <=> Loaded(s)
                      /\ Left(s)' <=> Left(s)
                      /\ Telling(s)' <=> Telling(s)
                      /\ ToStations(s)' <=> ToStations(s)
                      /\ ToAccesses(s)' <=> ToAccesses(s)
  BY DEF InEx, Computed, Loaded, Left, Announced, Telling, ToStations, ToAccesses
<1>3. \A s, i \in Slot : /\ InRs(s, i)' <=> InRs(s, i)
                         /\ InLsb(s, i)' <=> InLsb(s, i)
  BY <1>1 DEF InRs, InLsb, Open, SameLsb
<1>4. \A s \in Slot : Unfinished(s)' <=> Unfinished(s)
  BY <1>1 DEF SameRob, Unfinished
<1>5. LastOut'
  BY <1>1, <1>2 DEF Scheduled, LastOut, SameRob
<1>6. Owned'
  BY <1>1, <1>2, <1>3, <1>4 DEF Scheduled, Owned, SameRob, SameLsb
<1>7. Alone'
  BY <1>2, <1>3 DEF Scheduled, Alone
<1>8. Worked'
  BY <1>2, <1>3, <1>4 DEF Scheduled, Worked
<1>9. StoresNotReady'
  BY <1>1 DEF Scheduled, StoresNotReady, SameRob
<1>10. OperandsInRs'
  BY <1>1, <1>2 DEF Scheduled, OperandsInRs, Gives, Indices, SameRob
<1>11. OperandsInLsb'
  BY <1>1, <1>2 DEF Scheduled, OperandsInLsb, Gives, Indices, Open, SameRob, SameLsb
<1>12. Rounds'
  BY <1>1 DEF Scheduled, Rounds, SameLsb
<1>13. Names'
  BY <1>1 DEF Scheduled, Names, NamesYoungest, NamesNone, Writes, Indices, SameRob, Left
<1>14. InOrder'
  BY <1>1, <1>2 DEF Scheduled, InOrder, Paid, Indices, SameRob, SameLsb
<1> QED BY <1>5, <1>6, <1>7, <1>8, <1>9, <1>10, <1>11, <1>12, <1>13, <1>14 DEF Scheduled

\* LSB_Run keeps what the view says.
LEMMA LsbStep ==
  ASSUME Scheduled, Indices, LsbWorks,
         RobSeen' = RobSeen, RsSeen' = RsSeen, RegSeen' = RegSeen, reg' = reg,
         EX_Run_' = EX_Run_, commit_' = commit_, Number_ROB' = Number_ROB,
         stage = "LSB_Run", stage' = "REG_Run"
  PROVE  Scheduled'
<1>1. SameRob /\ RobSeen'.head = RobSeen.head
  BY SameViews
<1>2. \A s \in Slot : /\ InEx(s)' <=> InEx(s)
                      /\ ~Computed(s) /\ ~Computed(s)' /\ ~Loaded(s)
                      /\ Left(s)' <=> Left(s)
                      /\ Telling(s) <=> Announced(s)
                      /\ ~Telling(s)'
                      /\ ToStations(s)' <=> Left(s)
                      /\ ToStations(s) <=> Left(s)
                      /\ ToAccesses(s)' <=> Left(s)
                      /\ ToAccesses(s) <=> Left(s) \/ Announced(s)
  BY DEF InEx, Computed, Loaded, Left, Announced, Telling, ToStations, ToAccesses
<1>3. \A k \in Slot : k \in Held(LsbSeen') =>
        /\ k \in Held(LsbSeen)
        /\ AccessAt(k)'.op = AccessAt(k).op /\ AccessAt(k)'.idx = AccessAt(k).idx
        /\ AccessAt(k)'.round >= 1
        /\ AccessAt(k)'.commited <=> \/ AccessAt(k).commited
                                     \/ AccessAt(k).op \in StoreOps /\ Announced(AccessAt(k).idx)
        /\ \A t \in Slot : /\ AccessAt(k)'.q = t => AccessAt(k).q = t /\ ~Announced(t)
                           /\ AccessAt(k)'.q2 = t => AccessAt(k).q2 = t /\ ~Announced(t)
  BY DEF LsbWorks, LsbKeeps, LsbPops
<1>4. \A s \in Slot : Unfinished(s)' <=> Unfinished(s)
  BY <1>1 DEF SameRob, Unfinished
<1>5. \A s, i \in Slot : InRs(s, i)' <=> InRs(s, i)
  BY DEF InRs
<1>6. \A s \in Slot : Announced(s) => ~Flying(s) /\ ~Left(s) /\ ~Unfinished(s)
  BY <1>2 DEF Scheduled, LastOut, Unfinished
\* An access of the instruction that is announced is a store, and stays as a committed one.
<1>7. \A s, k \in Slot : InLsb(s, k)' => InLsb(s, k) /\ ~(AccessAt(k).op \in StoreOps /\ Announced(s))
  BY <1>3 DEF InLsb, Open
<1>8. \A s, k \in Slot : InLsb(s, k) /\ Announced(s) => AccessAt(k).op \in StoreOps
  BY <1>6 DEF Scheduled, Owned, Indices
<1>9. \A s \in Slot : Loaded(s)' => \E k \in Slot : InLsb(s, k) /\ ~InLsb(s, k)' /\ AccessAt(k).op \in LoadOps
  <2>1. ASSUME NEW s \in Slot, Loaded(s)'
        PROVE  \E k \in Slot : InLsb(s, k) /\ ~InLsb(s, k)' /\ AccessAt(k).op \in LoadOps
    <3>1. PICK h \in Slot : /\ h \in Held(LsbSeen) /\ h \notin Held(LsbSeen')
                            /\ AccessAt(h).op \in LoadOps /\ s = AccessAt(h).idx
      BY <2>1 DEF LsbWorks, LsbKeeps, LsbPops
    <3>2. ~AccessAt(h).commited
      <4>1. AccessAt(h).op \notin StoreOps
        BY <3>1 DEF LoadOps, StoreOps
      <4> QED BY <3>1, <4>1 DEF Scheduled, Rounds
    <3> QED BY <3>1, <3>2 DEF InLsb, Open
  <2> QED BY <2>1
<1>10. \A s, k \in Slot : InLsb(s, k) => \/ InLsb(s, k)' \/ Loaded(s)'
                                         \/ AccessAt(k).op \in StoreOps /\ Announced(s)
  <2>1. ASSUME NEW s \in Slot, NEW k \in Slot, InLsb(s, k)
        PROVE  InLsb(s, k)' \/ Loaded(s)' \/ (AccessAt(k).op \in StoreOps /\ Announced(s))
    <3>1. k \in Held(LsbSeen) /\ ~AccessAt(k).commited /\ s = AccessAt(k).idx
      BY <2>1 DEF InLsb, Open
    <3>2. CASE k \in Held(LsbSeen')
      BY <1>3, <3>1, <3>2 DEF InLsb, Open
    <3>3. CASE k \notin Held(LsbSeen')
      BY <3>1, <3>3 DEF LsbWorks, LsbKeeps, LsbPops
    <3> QED BY <3>2, <3>3
  <2> QED BY <2>1
<1>11. LastOut'
  BY <1>1, <1>2 DEF Scheduled, LastOut, SameRob
<1>12. Owned'
  <2>1. ASSUME NEW s \in Slot, NEW k \in Slot, InLsb(s, k)'
        PROVE  IF AccessAt(k)'.op \in LoadOps THEN Unfinished(s)' /\ Of(s)'.tp # "store"
               ELSE \/ Unfinished(s)' /\ Of(s)'.tp = "store"
                    \/ Left(s)' /\ Head(commit_').rob.tp = "store"
                    \/ Telling(s)'
    <3>1. InLsb(s, k) /\ ~(AccessAt(k).op \in StoreOps /\ Announced(s))
      BY <1>7, <2>1
    <3>2. ~Telling(s)
      BY <1>2, <1>8, <3>1
    <3>3. AccessAt(k)'.op = AccessAt(k).op
      BY <1>3, <2>1 DEF InLsb, Open
    <3> QED BY <1>1, <1>2, <1>4, <3>1, <3>2, <3>3 DEF Scheduled, Owned, SameRob
  <2>2. \A s \in Slot : Loaded(s)' => Unfinished(s) /\ Of(s).tp # "store"
    BY <1>9 DEF Scheduled, Owned
  <2> QED BY <1>1, <1>2, <1>4, <1>5, <2>1, <2>2 DEF Scheduled, Owned, SameRob
<1>13. Alone'
  <2>1. \A s, k, l \in Slot : InLsb(s, k) /\ InLsb(s, l) => k = l
    BY DEF Scheduled, Alone
  <2>2. \A s, k \in Slot : InLsb(s, k)' => InLsb(s, k) /\ ~Loaded(s)'
    BY <1>7, <1>9, <2>1
  <2> QED BY <1>2, <1>5, <1>9, <2>2 DEF Scheduled, Alone
<1>14. Worked'
  <2>1. ASSUME NEW s \in Slot, Unfinished(s)
        PROVE  \/ InEx(s)' \/ Loaded(s)'
               \/ \E i \in Slot : InRs(s, i)'
               \/ \E k \in Slot : InLsb(s, k)'
    <3>1. ~Announced(s)
      BY <1>6, <2>1
    <3> QED BY <1>2, <1>5, <1>10, <2>1, <3>1 DEF Scheduled, Worked
  <2> QED BY <1>4, <2>1 DEF Worked
<1>15. StoresNotReady'
  BY <1>1 DEF Scheduled, StoresNotReady, SameRob
<1>16. OperandsInRs'
  BY <1>1, <1>2 DEF Scheduled, OperandsInRs, Gives, Indices, SameRob
<1>17. OperandsInLsb'
  <2>1. ASSUME NEW k \in Slot, NEW t \in Slot, k \in Held(LsbSeen'),
               AccessAt(k)'.q = t \/ AccessAt(k)'.q2 = t
        PROVE  /\ Open(k)'
               /\ Flying(AccessAt(k).idx)' /\ (Gives(t, AccessAt(k).idx)' \/ ToAccesses(t)')
    <3>1. PICK s \in Slot : s = AccessAt(k).idx /\ s = AccessAt(k)'.idx
      BY <1>3, <2>1 DEF Indices
    <3>2. k \in Held(LsbSeen) /\ (AccessAt(k).q = t \/ AccessAt(k).q2 = t) /\ ~Announced(t)
      BY <1>3, <2>1
    <3>3. Open(k) /\ Flying(s) /\ (Gives(t, s) \/ Left(t))
      BY <1>2, <3>1, <3>2 DEF Scheduled, OperandsInLsb
    <3>4. ~AccessAt(k)'.commited
      BY <1>3, <1>6, <2>1, <3>1, <3>3 DEF Open
    <3>5. Flying(s)' /\ (Gives(t, s)' \/ ToAccesses(t)')
      BY <1>1, <1>2, <3>3 DEF Gives, SameRob
    <3>6. Open(k)'
      BY <2>1, <3>4 DEF Open
    <3> QED BY <3>1, <3>5, <3>6 DEF Gives, Flying
  <2> QED BY <2>1 DEF OperandsInLsb, Gives, Flying
<1>18. Rounds'
  BY <1>3 DEF Scheduled, Rounds
<1>19. Names'
  BY <1>1 DEF Scheduled, Names, NamesYoungest, NamesNone, Writes, Indices, SameRob, Left
<1>20. InOrder'
  <2>1. ASSUME NEW j \in Slot, NEW k \in Slot, j \in Held(LsbSeen'), k \in Held(LsbSeen'),
               Age(LsbSeen', j) < Age(LsbSeen', k), ~AccessAt(j)'.commited
        PROVE  /\ ~AccessAt(k)'.commited
               /\ \/ Paid(j)' /\ Flying(AccessAt(k).idx)'
                  \/ /\ Flying(AccessAt(j).idx)' /\ Flying(AccessAt(k).idx)'
                     /\ RobAge(AccessAt(j).idx)' < RobAge(AccessAt(k).idx)'
    <3>1. PICK a \in Slot : a = AccessAt(j).idx /\ a = AccessAt(j)'.idx
      BY <1>3, <2>1 DEF Indices
    <3>2. PICK b \in Slot : b = AccessAt(k).idx /\ b = AccessAt(k)'.idx
      BY <1>3, <2>1 DEF Indices
    <3>3. Age(LsbSeen, j) < Age(LsbSeen, k)
      BY <2>1 DEF LsbWorks
    <3>4. /\ ~AccessAt(j).commited /\ ~(AccessAt(j).op \in StoreOps /\ Announced(a))
          /\ j \in Held(LsbSeen) /\ k \in Held(LsbSeen) /\ AccessAt(j)'.op = AccessAt(j).op
      BY <1>3, <2>1, <3>1
    <3>5. /\ ~AccessAt(k).commited
          /\ \/ Paid(j) /\ Flying(b)
             \/ Telling(a) /\ Left(b)
             \/ Flying(a) /\ Flying(b) /\ RobAge(a) < RobAge(b)
      BY <3>1, <3>2, <3>3, <3>4 DEF Scheduled, InOrder
    <3>6. ~Telling(a)
      <4>1. InLsb(a, j)
        BY <3>1, <3>4 DEF InLsb, Open
      <4> QED BY <1>2, <1>8, <3>4, <4>1
    <3>7. ~AccessAt(k)'.commited
      BY <1>3, <1>6, <2>1, <3>2, <3>5, <3>6
    <3>8. Paid(j) => Paid(j)'
      <4>1. ToAccesses(a)' => ToAccesses(AccessAt(j).idx)'
        BY <3>1 DEF ToAccesses, Left, Telling, Announced
      <4>2. Paid(j) => AccessAt(j).op \in StoreOps /\ (Left(a) \/ Announced(a))
        BY <1>2, <3>1, <3>4 DEF Paid
      <4> QED BY <1>2, <3>4, <4>1, <4>2 DEF Paid
    <3>9. \/ Paid(j)' /\ Flying(b)'
          \/ Flying(a)' /\ Flying(b)' /\ RobAge(a)' < RobAge(b)'
      BY <1>1, <3>5, <3>6, <3>8 DEF SameRob
    <3> QED BY <3>1, <3>2, <3>7, <3>9 DEF Flying, RobAge
  <2> QED BY <2>1 DEF InOrder, Flying, RobAge
<1> QED BY <1>11, <1>12, <1>13, <1>14, <1>15, <1>16, <1>17, <1>18, <1>19, <1>20 DEF Scheduled

\* An operand that is looked up is that of an instruction in flight, or of the one that leaves.
LEMMA OperandComes ==
  ASSUME Scheduled, Indices, RegSeen = reg_pre, reg_pre = reg, NEW t \in Slot, t \in OperandTags
  PROVE  \/ Flying(t) /\ ~Of(t).end /\ Of(t).tp \in {"value", "jal"}
         \/ Left(t)
<1>1. PICK r \in RegIndex : reg_pre[r].status /\ t = reg_pre[r].q
  BY Nothing DEF OperandTags
<1>2. r # 0
  BY <1>1 DEF Scheduled, Names
<1>3. NamesYoungest(r) \/ NamesNone(r)
  BY <1>1, <1>2 DEF Scheduled, Names
<1> QED BY <1>1, <1>3 DEF NamesYoungest, NamesNone, Writes

\* It keeps what the view says.
LEMMA IssueStep ==
  ASSUME Scheduled, Indices, Enters, RegSeen = reg_pre, reg_pre = reg,
         RegSeen \in [RegIndex -> RegEntry], reg' = reg,
         EX_Run_' = EX_Run_, commit_' = commit_, EX_to_ROB' = EX_to_ROB, LSB_to_ROB' = LSB_to_ROB,
         Number_ROB' = Number_ROB, stage = "ISSUE_Run", stage' = "Commit"
  PROVE  Scheduled'
<1>1. PICK e \in RobEntry, t \in Slot :
        /\ EnterRob(e, t)
        /\ \/ e.end /\ e.tp # "store" /\ EnterEnd
           \/ ~e.end /\ EnterName(e, t) /\ (EnterRs(e, t) \/ EnterLsb(e, t))
  BY DEF Enters
<1>2. /\ ~e.ready /\ ~Flying(t) /\ ~Left(t)
      /\ RobSeen'.head = RobSeen.head
      /\ Of(t)' = e
      /\ \A s \in Slot : /\ Flying(s)' <=> Flying(s) \/ s = t
                         /\ RobAge(s)' = RobAge(s)
                         /\ Flying(s) => RobAge(s) < RobAge(t)
                         /\ s # t => Of(s)' = Of(s)
  BY <1>1 DEF EnterRob
<1>3. \A s \in Slot : /\ InEx(s)' <=> InEx(s)
                      /\ Computed(s)' <=> Computed(s)
                      /\ Loaded(s)' <=> Loaded(s)
                      /\ Left(s)' <=> Left(s)
                      /\ ~Telling(s) /\ ~Telling(s)'
                      /\ ToStations(s)' <=> Left(s)
                      /\ ToStations(s) <=> Left(s)
                      /\ ToAccesses(s)' <=> Left(s)
                      /\ ToAccesses(s) <=> Left(s)
  BY DEF InEx, Computed, Loaded, Left, Announced, Telling, ToStations, ToAccesses
<1>4. \A s \in Slot : Unfinished(s)' <=> Unfinished(s) \/ (s = t /\ ~e.end)
  BY <1>2 DEF Unfinished
<1>5. \A s, u \in Slot : /\ Gives(u, s) => Gives(u, s)'
                         /\ Flying(u) /\ ~Of(u).end /\ Of(u).tp \in {"value", "jal"} => Gives(u, t)'
  BY <1>2 DEF Gives
<1>6. \A u \in Slot : u \in OperandTags => Gives(u, t)' \/ Left(u)
  BY <1>5, OperandComes
\* Nothing works on the new entry but what enters with it.
<1>7. /\ \A s \in Slot : s = t => ~InEx(s) /\ ~Computed(s) /\ ~Loaded(s)
      /\ \A s, i \in Slot : s = t => ~InRs(s, i) /\ ~InLsb(s, i)
  <2>1. ~Unfinished(t)
    BY <1>2 DEF Unfinished
  <2> QED BY <1>2, <1>3, <2>1 DEF Scheduled, Owned
\* What was there stays as it is.
<1>8. \A i \in Slot : RsSeen[i].status => RsSeen'[i] = RsSeen[i]
  BY <1>1 DEF EnterEnd, EnterRs, EnterLsb
<1>9. \A i \in Slot : /\ i \in Held(LsbSeen) => i \in Held(LsbSeen') /\ AccessAt(i)' = AccessAt(i)
                      /\ Age(LsbSeen', i) = Age(LsbSeen, i)
  <2>1. CASE LsbSeen' = LsbSeen
    BY <2>1 DEF AccessAt
  <2>2. CASE LsbSeen' # LsbSeen
    <3>1. EnterLsb(e, t)
      BY <1>1, <2>2 DEF EnterEnd, EnterRs
    <3> QED BY <3>1 DEF EnterLsb
  <2> QED BY <2>1, <2>2
<1>10. \A i \in Slot : RsSeen'[i].status =>
         \/ RsSeen[i].status /\ RsSeen'[i] = RsSeen[i]
         \/ /\ ~e.end /\ e.tp # "store" /\ RsSeen'[i].idx = t
            /\ RsSeen'[i].qi \in OperandTags /\ RsSeen'[i].qj \in OperandTags
            /\ LsbSeen' = LsbSeen
            /\ \A j \in Slot : j # i => RsSeen'[j] = RsSeen[j]
  <2>1. CASE RsSeen' = RsSeen
    BY <2>1
  <2>2. CASE RsSeen' # RsSeen
    <3>1. ~e.end /\ EnterRs(e, t)
      BY <1>1, <2>2 DEF EnterEnd, EnterLsb
    <3> QED BY <3>1 DEF EnterRs
  <2> QED BY <2>1, <2>2
<1>11. \A k \in Slot : k \in Held(LsbSeen') =>
         \/ k \in Held(LsbSeen) /\ AccessAt(k)' = AccessAt(k)
         \/ /\ ~e.end /\ k \notin Held(LsbSeen) /\ RsSeen' = RsSeen
            /\ \A j \in Slot : /\ j \in Held(LsbSeen') => j \in Held(LsbSeen) \/ j = k
                               /\ j \in Held(LsbSeen) => Age(LsbSeen, j) < Age(LsbSeen, k)
            /\ AccessAt(k)'.op \in LoadOps \cup StoreOps
            /\ AccessAt(k)'.idx = t /\ ~AccessAt(k)'.commited /\ AccessAt(k)'.round = 3
            /\ e.tp = "store" <=> AccessAt(k)'.op \in StoreOps
            /\ AccessAt(k)'.q \in OperandTags /\ AccessAt(k)'.q2 \in OperandTags
  <2>1. CASE LsbSeen' = LsbSeen
    BY <2>1 DEF AccessAt
  <2>2. CASE LsbSeen' # LsbSeen
    <3>1. ~e.end /\ EnterLsb(e, t)
      BY <1>1, <2>2 DEF EnterEnd, EnterRs
    <3> QED BY <3>1 DEF EnterLsb, LsbEntry
  <2> QED BY <2>1, <2>2
<1>12. \A s, i \in Slot : InRs(s, i) => InRs(s, i)'
  BY <1>8 DEF InRs
<1>13. \A s, i \in Slot : InRs(s, i)' => \/ InRs(s, i)
                                         \/ /\ s = t /\ ~e.end /\ e.tp # "store" /\ LsbSeen' = LsbSeen
                                            /\ \A j \in Slot : j # i => RsSeen'[j] = RsSeen[j]
  BY <1>10 DEF InRs
<1>14. \A s, k \in Slot : InLsb(s, k) => InLsb(s, k)'
  BY <1>9 DEF InLsb, Open
<1>15. \A s, k \in Slot : InLsb(s, k)' =>
         \/ InLsb(s, k) /\ AccessAt(k)' = AccessAt(k)
         \/ /\ s = t /\ ~e.end /\ RsSeen' = RsSeen
            /\ \A j \in Slot : j \in Held(LsbSeen') => j \in Held(LsbSeen) \/ j = k
            /\ e.tp = "store" <=> AccessAt(k)'.op \in StoreOps
            /\ AccessAt(k)'.op \in LoadOps \cup StoreOps
  BY <1>11 DEF InLsb, Open
<1>16. LastOut'
  <2>1. up_reg_q_ex' # <<>> => Head(up_reg_q_ex').tag = t
    BY <1>1 DEF EnterEnd, EnterName
  <2>2. up_reg_q_ex' # <<>> => Flying(Head(up_reg_q_ex).tag)'
    BY <1>2, <2>1 DEF Flying
  <2> QED BY <1>2, <1>3, <2>2 DEF Scheduled, LastOut
<1>17. Owned'
  <2>1. ASSUME NEW s \in Slot, Unfinished(s), Of(s).tp # "store"
        PROVE  Unfinished(s)' /\ Of(s)'.tp # "store"
    BY <2>1, <1>2, <1>4 DEF Unfinished
  <2>2. ASSUME NEW s \in Slot, NEW i \in Slot, InRs(s, i)'
        PROVE  Unfinished(s)' /\ Of(s)'.tp # "store"
    BY <1>2, <1>4, <1>13, <2>1, <2>2 DEF Scheduled, Owned
  <2>3. ASSUME NEW s \in Slot, NEW k \in Slot, InLsb(s, k)'
        PROVE  IF AccessAt(k)'.op \in LoadOps THEN Unfinished(s)' /\ Of(s)'.tp # "store"
               ELSE \/ Unfinished(s)' /\ Of(s)'.tp = "store"
                    \/ Left(s)' /\ Head(commit_').rob.tp = "store"
                    \/ Telling(s)'
    <3>1. CASE InLsb(s, k) /\ AccessAt(k)' = AccessAt(k)
      <4>1. s # t
        BY <1>7, <3>1
      <4>2. (Unfinished(s)' <=> Unfinished(s)) /\ Of(s)' = Of(s) /\ (Left(s)' <=> Left(s)) /\ ~Telling(s)
        BY <1>2, <1>3, <1>4, <4>1
      <4> QED BY <3>1, <4>2 DEF Scheduled, Owned
    <3>2. CASE /\ s = t /\ ~e.end
               /\ e.tp = "store" <=> AccessAt(k)'.op \in StoreOps
               /\ AccessAt(k)'.op \in LoadOps \cup StoreOps
      <4>1. AccessAt(k)'.op \in LoadOps => AccessAt(k)'.op \notin StoreOps
        BY DEF LoadOps, StoreOps
      <4> QED BY <1>2, <1>4, <3>2, <4>1
    <3> QED BY <1>15, <2>3, <3>1, <3>2
  <2> QED BY <1>3, <2>1, <2>2, <2>3 DEF Scheduled, Owned
<1>18. Alone'
  <2>1. ASSUME NEW s \in Slot, NEW i \in Slot, NEW j \in Slot, InRs(s, i)', InRs(s, j)'
        PROVE  i = j
    <3>1. CASE s = t
      <4>1. ~InRs(s, i) /\ ~InRs(s, j)
        BY <1>7, <3>1
      <4>2. i # j => RsSeen'[j] = RsSeen[j]
        BY <1>13, <2>1, <4>1
      <4> QED BY <2>1, <4>1, <4>2 DEF InRs
    <3>2. CASE s # t
      BY <1>13, <2>1, <3>2 DEF Scheduled, Alone
    <3> QED BY <3>1, <3>2
  <2>2. ASSUME NEW s \in Slot, NEW i \in Slot, InRs(s, i)'
        PROVE  ~InEx(s)' /\ ~Computed(s)' /\ ~Loaded(s)'
    BY <1>3, <1>7, <1>13, <2>2 DEF Scheduled, Alone
  <2>3. ASSUME NEW s \in Slot, NEW i \in Slot, NEW k \in Slot, InRs(s, i)', InLsb(s, k)'
        PROVE  FALSE
    <3>1. CASE s = t
      <4>1. ~InRs(s, i) /\ ~InLsb(s, k)
        BY <1>7, <3>1
      <4>2. LsbSeen' = LsbSeen
        BY <1>13, <2>3, <4>1
      <4> QED BY <2>3, <4>1, <4>2 DEF InLsb, Open, AccessAt
    <3>2. CASE s # t
      BY <1>13, <1>15, <2>3, <3>2 DEF Scheduled, Alone
    <3> QED BY <3>1, <3>2
  <2>4. ASSUME NEW s \in Slot, NEW k \in Slot, NEW l \in Slot, InLsb(s, k)', InLsb(s, l)'
        PROVE  k = l
    <3>1. CASE s = t
      <4>1. ~InLsb(s, k) /\ ~InLsb(s, l)
        BY <1>7, <3>1
      <4>2. l \in Held(LsbSeen) \/ l = k
        BY <1>15, <2>4, <4>1 DEF InLsb, Open
      <4>3. l \notin Held(LsbSeen)
        BY <1>9, <2>4, <4>1 DEF InLsb, Open
      <4> QED BY <4>2, <4>3
    <3>2. CASE s # t
      BY <1>15, <2>4, <3>2 DEF Scheduled, Alone
    <3> QED BY <3>1, <3>2
  <2>5. ASSUME NEW s \in Slot, NEW k \in Slot, InLsb(s, k)'
        PROVE  ~InEx(s)' /\ ~Computed(s)' /\ ~Loaded(s)'
    BY <1>3, <1>7, <1>15, <2>5 DEF Scheduled, Alone
  <2>6. \A s \in Slot : /\ InEx(s)' => ~Computed(s)' /\ ~Loaded(s)'
                        /\ Computed(s)' => ~Loaded(s)'
    BY <1>3 DEF Scheduled, Alone
  <2> QED BY <2>1, <2>2, <2>3, <2>4, <2>5, <2>6 DEF Alone
<1>19. Worked'
  <2>1. ASSUME NEW s \in Slot, Unfinished(s)
        PROVE  \/ InEx(s)' \/ Computed(s)' \/ Loaded(s)'
               \/ \E i \in Slot : InRs(s, i)'
               \/ \E k \in Slot : InLsb(s, k)'
    BY <1>3, <1>12, <1>14, <2>1 DEF Scheduled, Worked
  <2>2. ASSUME ~e.end
        PROVE  (\E i \in Slot : InRs(t, i)') \/ \E k \in Slot : InLsb(t, k)'
    <3>1. CASE EnterRs(e, t)
      BY <3>1 DEF EnterRs, InRs
    <3>2. CASE EnterLsb(e, t)
      BY <3>2 DEF EnterLsb, InLsb, Open
    <3> QED BY <1>1, <2>2, <3>1, <3>2
  <2> QED BY <1>4, <2>1, <2>2 DEF Worked
<1>20. StoresNotReady'
  BY <1>1, <1>2 DEF Scheduled, StoresNotReady
<1>21. OperandsInRs'
  <2>1. ASSUME NEW i \in Slot, NEW u \in Slot, RsSeen'[i].status,
               RsSeen'[i].qi = u \/ RsSeen'[i].qj = u
        PROVE  Gives(u, RsSeen[i].idx)' \/ ToStations(u)'
    <3>1. CASE RsSeen[i].status /\ RsSeen'[i] = RsSeen[i]
      <4>1. PICK s \in Slot : s = RsSeen[i].idx
        BY DEF Indices
      <4>2. Gives(u, s) \/ ToStations(u)
        BY <2>1, <3>1, <4>1 DEF Scheduled, OperandsInRs
      <4>3. Gives(u, s)' \/ ToStations(u)'
        BY <1>3, <1>5, <4>2
      <4> QED BY <3>1, <4>1, <4>3 DEF Gives
    <3>2. CASE RsSeen'[i].idx = t /\ RsSeen'[i].qi \in OperandTags /\ RsSeen'[i].qj \in OperandTags
      <4>1. Gives(u, t)' \/ ToStations(u)'
        BY <1>3, <1>6, <2>1, <3>2
      <4> QED BY <3>2, <4>1 DEF Gives
    <3> QED BY <1>10, <2>1, <3>1, <3>2
  <2> QED BY <2>1 DEF OperandsInRs, Gives
<1>22. OperandsInLsb'
  <2>1. ASSUME NEW k \in Slot, NEW u \in Slot, k \in Held(LsbSeen'),
               AccessAt(k)'.q = u \/ AccessAt(k)'.q2 = u
        PROVE  /\ Open(k)'
               /\ Flying(AccessAt(k).idx)' /\ (Gives(u, AccessAt(k).idx)' \/ ToAccesses(u)')
    <3>1. CASE k \in Held(LsbSeen) /\ AccessAt(k)' = AccessAt(k)
      <4>1. PICK s \in Slot : s = AccessAt(k).idx
        BY DEF Indices
      <4>2. Open(k) /\ Flying(s) /\ (Gives(u, s) \/ ToAccesses(u))
        BY <1>3, <2>1, <3>1, <4>1 DEF Scheduled, OperandsInLsb
      <4>3. Open(k)' /\ Flying(s)' /\ (Gives(u, s)' \/ ToAccesses(u)')
        BY <1>2, <1>3, <1>5, <2>1, <3>1, <4>2 DEF Open
      <4> QED BY <3>1, <4>1, <4>3 DEF Gives, Flying
    <3>2. CASE /\ AccessAt(k)'.idx = t /\ ~AccessAt(k)'.commited
               /\ AccessAt(k)'.q \in OperandTags /\ AccessAt(k)'.q2 \in OperandTags
      <4>1. Open(k)' /\ Flying(t)' /\ (Gives(u, t)' \/ ToAccesses(u)')
        BY <1>2, <1>3, <1>6, <2>1, <3>2 DEF Open
      <4> QED BY <3>2, <4>1 DEF Gives, Flying
    <3> QED BY <1>11, <2>1, <3>1, <3>2
  <2> QED BY <2>1 DEF OperandsInLsb, Gives, Flying
<1>23. Rounds'
  <2>1. ASSUME NEW k \in Slot, k \in Held(LsbSeen')
        PROVE  /\ AccessAt(k)'.round >= 1
               /\ AccessAt(k)'.commited => AccessAt(k)'.op \in StoreOps
    BY <1>11, <2>1 DEF Scheduled, Rounds
  <2> QED BY <2>1 DEF Rounds
<1>24. Names'
  <2>1. ASSUME NEW r \in RegIndex \ {0} PROVE NamesYoungest(r)' \/ NamesNone(r)'
    <3>1. PICK q \in Slot : q = RegSeen[r].q
      BY DEF Indices
    <3>2. \A s \in Slot : /\ s # t => (Writes(s, r)' <=> Writes(s, r))
                          /\ Writes(s, r) => s # t /\ RobAge(s) < RobAge(t)
      BY <1>2 DEF Writes
    <3>3. Writes(t, r)' <=> ~e.end /\ e.tp \in {"value", "jal"} /\ e.addr = r
      BY <1>2 DEF Writes
    <3>4. CASE Writes(t, r)'
      <4>1. RegSeen'[r].status /\ RegSeen'[r].q = t
        <5>1. RegSeen' = Renamed(RegSeen, [rd |-> e.addr, tag |-> t])
          BY <1>1, <3>3, <3>4 DEF EnterName
        <5>2. PICK n \in Naming : n = [rd |-> e.addr, tag |-> t]
          BY DEF Naming, RobEntry
        <5>3. Renamed(RegSeen, n)[r].status /\ Renamed(RegSeen, n)[r].q = n.tag
          BY <3>3, <3>4, <5>2, RegRenamed
        <5> QED BY <5>1, <5>2, <5>3
      <4>2. \A s \in Slot : Writes(s, r)' /\ s # t => RobAge(s)' < RobAge(t)'
        BY <1>2, <3>2
      <4> QED BY <3>4, <4>1, <4>2 DEF NamesYoungest, Writes, RobAge, Flying, Of
    <3>5. CASE ~Writes(t, r)'
      <4>1. RegSeen'[r] = RegSeen[r]
        <5>1. CASE RegSeen' = RegSeen
          BY <5>1
        <5>2. CASE RegSeen' # RegSeen
          <6>1. /\ ~e.end /\ e.tp \in {"value", "jal"}
                /\ RegSeen' = Renamed(RegSeen, [rd |-> e.addr, tag |-> t])
            BY <1>1, <5>2 DEF EnterEnd, EnterName
          <6>2. PICK n \in Naming : n = [rd |-> e.addr, tag |-> t]
            BY DEF Naming, RobEntry
          <6>3. r # n.rd
            BY <3>3, <3>5, <6>1, <6>2
          <6> QED BY <6>1, <6>2, <6>3, RegRenamed
        <5> QED BY <5>1, <5>2
      <4>2. CASE NamesYoungest(r)
        <5>1. /\ RegSeen[r].status /\ Writes(q, r)
              /\ \A s \in Slot : Writes(s, r) /\ s # q => RobAge(s) < RobAge(q)
          BY <3>1, <4>2 DEF NamesYoungest
        <5>2. Writes(q, r)' /\ \A s \in Slot : Writes(s, r)' /\ s # q => RobAge(s)' < RobAge(q)'
          BY <1>2, <3>2, <3>5, <5>1
        <5> QED BY <3>1, <4>1, <5>1, <5>2 DEF NamesYoungest, Writes, RobAge, Flying, Of
      <4>3. CASE NamesNone(r)
        <5>1. \A s \in Slot : ~Writes(s, r)'
          BY <3>2, <3>5, <4>3 DEF NamesNone
        <5> QED BY <3>1, <4>1, <4>3, <5>1 DEF NamesNone, Left
      <4> QED BY <4>2, <4>3 DEF Scheduled, Names
    <3> QED BY <3>4, <3>5
  <2> QED BY <2>1 DEF Names, Scheduled
<1>25. InOrder'
  <2>1. ASSUME NEW j \in Slot, NEW k \in Slot, j \in Held(LsbSeen'), k \in Held(LsbSeen'),
               Age(LsbSeen', j) < Age(LsbSeen', k), ~AccessAt(j)'.commited
        PROVE  /\ ~AccessAt(k)'.commited
               /\ \/ Paid(j)' /\ Flying(AccessAt(k).idx)'
                  \/ /\ Flying(AccessAt(j).idx)' /\ Flying(AccessAt(k).idx)'
                     /\ RobAge(AccessAt(j).idx)' < RobAge(AccessAt(k).idx)'
    <3>0. Age(LsbSeen, j) < Age(LsbSeen, k)
      BY <1>9, <2>1
    <3>1. j \in Held(LsbSeen) /\ AccessAt(j)' = AccessAt(j)
      <4>1. CASE j \notin Held(LsbSeen)
        <5>1. k \in Held(LsbSeen) /\ Age(LsbSeen, k) < Age(LsbSeen, j)
          BY <1>11, <2>1, <3>0, <4>1 DEF Indices
        <5> QED BY <3>0, <5>1 DEF Indices
      <4>2. CASE j \in Held(LsbSeen)
        BY <1>9, <4>2
      <4> QED BY <4>1, <4>2
    <3>2. PICK a \in Slot : a = AccessAt(j).idx
      BY DEF Indices
    <3>3. Paid(j) => Paid(j)'
      <4>1. ToAccesses(a) => ToAccesses(AccessAt(j).idx)'
        BY <1>3, <3>1, <3>2 DEF ToAccesses, Left, Telling, Announced
      <4> QED BY <3>1, <3>2, <4>1 DEF Paid
    <3>4. CASE k \in Held(LsbSeen)
      <4>1. PICK b \in Slot : b = AccessAt(k).idx /\ AccessAt(k)' = AccessAt(k)
        BY <1>9, <3>4 DEF Indices
      <4>2. /\ ~AccessAt(k).commited
            /\ \/ Paid(j) /\ Flying(b)
               \/ Telling(a) /\ Left(b)
               \/ Flying(a) /\ Flying(b) /\ RobAge(a) < RobAge(b)
        BY <2>1, <3>0, <3>1, <3>2, <3>4, <4>1 DEF Scheduled, InOrder
      <4>3. \/ Paid(j)' /\ Flying(b)'
            \/ Flying(a)' /\ Flying(b)' /\ RobAge(a)' < RobAge(b)'
        BY <1>2, <1>3, <3>3, <4>2
      <4> QED BY <3>1, <3>2, <4>1, <4>2, <4>3 DEF Flying, RobAge
    <3>5. CASE k \notin Held(LsbSeen)
      <4>1. AccessAt(k)'.idx = t /\ ~AccessAt(k)'.commited
        BY <1>11, <2>1, <3>5
      <4>2. InLsb(a, j)
        BY <2>1, <3>1, <3>2 DEF InLsb, Open
      <4>3. Flying(a) \/ (Left(a) /\ AccessAt(j).op \in StoreOps)
        BY <1>3, <4>2 DEF Scheduled, Owned, Unfinished, Indices
      <4>4. Left(a) /\ AccessAt(j).op \in StoreOps => Paid(j)'
        <5>1. Left(a) /\ AccessAt(j).op \in StoreOps => Paid(j)
          BY <3>2 DEF Paid, ToAccesses
        <5> QED BY <3>3, <5>1
      <4>5. Flying(t)' /\ (Flying(a) => Flying(a)' /\ RobAge(a)' < RobAge(t)')
        BY <1>2
      <4>6. (Paid(j)' /\ Flying(t)') \/ (Flying(a)' /\ Flying(t)' /\ RobAge(a)' < RobAge(t)')
        BY <4>3, <4>4, <4>5
      <4> QED BY <3>1, <3>2, <4>1, <4>6 DEF Flying, RobAge
    <3> QED BY <3>4, <3>5
  <2> QED BY <2>1 DEF InOrder, Flying, RobAge
<1> QED BY <1>16, <1>17, <1>18, <1>19, <1>20, <1>21, <1>22, <1>23, <1>24, <1>25 DEF Scheduled

\* The loops visit what is held, the oldest first.
LEMMA VisitedAges ==
  ASSUME NEW S, NEW b \in QueueOf(S)
  PROVE  /\ DOMAIN Visited(b) = 1 .. Age(b, b.tail)
         /\ \A k \in DOMAIN Visited(b) : /\ Visited(b)[k] \in Held(b)
                                         /\ Age(b, Visited(b)[k]) = k - 1
         /\ \A s \in Held(b) : /\ Age(b, s) + 1 \in DOMAIN Visited(b)
                               /\ Visited(b)[Age(b, s) + 1] = s
<1>1. PICK h \in Slot, n \in 0 .. MAXN - 1 : h = b.head /\ n = Age(b, b.tail)
  BY QueueAges
<1>2. MAXN \in Nat /\ MAXN >= 2
  BY QueueAssumption DEF QueueAssumption
<1>3. DOMAIN Visited(b) = 1 .. n /\ \A k \in 1 .. n : Visited(b)[k] = (h + k - 1) % MAXN
  BY <1>1 DEF Visited
<1>4. \A k \in 1 .. MAXN : (h + k - 1) % MAXN = (IF h + k - 1 < MAXN THEN h + k - 1 ELSE h + k - 1 - MAXN)
  <2>1. ASSUME NEW k \in 1 .. MAXN
        PROVE  (h + k - 1) % MAXN = IF h + k - 1 < MAXN THEN h + k - 1 ELSE h + k - 1 - MAXN
    <3>1. CASE h + k - 1 < MAXN
      <4>1. PICK r \in 0 .. MAXN - 1 : r = h + k - 1
        BY <1>2, <3>1 DEF Slot
      <4> QED BY <1>2, <3>1, <4>1, RemainderSmall
    <3>2. CASE ~(h + k - 1 < MAXN)
      <4>1. PICK r \in 0 .. MAXN - 1 : r = h + k - 1 - MAXN
        BY <1>2, <3>2 DEF Slot
      <4>2. (MAXN * 1 + r) % MAXN = r
        BY <1>2, RemainderIs
      <4>3. MAXN * 1 + r = h + k - 1
        BY <1>2, <4>1 DEF Slot
      <4> QED BY <3>2, <4>1, <4>2, <4>3
    <3> QED BY <3>1, <3>2
  <2> QED BY <2>1
<1>5. \A s \in Slot : Age(b, s) = (IF h <= s THEN s - h ELSE s - h + MAXN)
  BY <1>1, Circle DEF Age
<1>6. \A s \in Slot : s \in Held(b) <=> Age(b, s) < n
  BY <1>1 DEF Held
<1>7. ASSUME NEW k \in 1 .. n
      PROVE  Visited(b)[k] \in Held(b) /\ Age(b, Visited(b)[k]) = k - 1
  <2>1. PICK s \in Slot : s = IF h + k - 1 < MAXN THEN h + k - 1 ELSE h + k - 1 - MAXN
    <3>1. (IF h + k - 1 < MAXN THEN h + k - 1 ELSE h + k - 1 - MAXN) \in Slot
      BY <1>2 DEF Slot
    <3> QED BY <3>1
  <2>2. Visited(b)[k] = s
    BY <1>2, <1>3, <1>4, <2>1
  <2>3. Age(b, s) = k - 1
    BY <1>2, <1>5, <2>1 DEF Slot
  <2> QED BY <1>6, <2>2, <2>3
<1>8. ASSUME NEW s \in Held(b)
      PROVE  Age(b, s) + 1 \in 1 .. n /\ Visited(b)[Age(b, s) + 1] = s
  <2>1. s \in Slot /\ Age(b, s) < n /\ Age(b, s) \in 0 .. MAXN - 1
    BY <1>6, QueueAges DEF Held
  <2>2. PICK k \in 1 .. n : k = Age(b, s) + 1
    BY <1>2, <2>1
  <2>3. Visited(b)[k] = IF h + k - 1 < MAXN THEN h + k - 1 ELSE h + k - 1 - MAXN
    BY <1>2, <1>3, <1>4
  <2>4. Visited(b)[k] = s
    BY <1>2, <1>5, <2>1, <2>2, <2>3 DEF Slot
  <2> QED BY <2>2, <2>4
<1> QED BY <1>1, <1>3, <1>7, <1>8

\* A squash leaves the stores in front that are committed.
LEMMA Cleared ==
  ASSUME NEW b \in QueueOf(LsbEntry)
  PROVE  /\ lsb_clear(b) \in QueueOf(LsbEntry) /\ lsb_clear(b).queue = b.queue
         /\ \A s \in Held(lsb_clear(b)) : s \in Held(b) /\ b.queue[s].commited
<1> DEFINE uncommitted == {k \in DOMAIN Visited(b) : ~b.queue[Visited(b)[k]].commited}
<1>0. \A s \in Held(b) : s \in Slot
  BY DEF Held
<1>1. CASE uncommitted = {}
  <2>1. lsb_clear(b) = b
    BY <1>1 DEF lsb_clear
  <2>2. ASSUME NEW s \in Held(b) PROVE b.queue[s].commited
    <3>1. Age(b, s) + 1 \in DOMAIN Visited(b) /\ Visited(b)[Age(b, s) + 1] = s
      BY VisitedAges
    <3> QED BY <1>1, <3>1
  <2> QED BY <2>1, <2>2
<1>2. CASE uncommitted # {}
  <2>1. uncommitted \in SUBSET Nat
    BY VisitedAges, QueueAges
  <2>2. PICK m \in uncommitted : \A n \in uncommitted : m <= n
    BY <1>2, <2>1, LeastElement
  <2>3. Min(uncommitted) \in uncommitted /\ \A n \in uncommitted : Min(uncommitted) <= n
    BY <2>2 DEF Min
  <2>4. PICK l \in uncommitted : l = Min(uncommitted) /\ \A n \in uncommitted : l <= n
    BY <2>3
  <2>5. l \in Nat /\ l \in DOMAIN Visited(b)
    BY <2>1, <2>4
  <2> HIDE DEF uncommitted
  <2>6. PICK t \in Slot : t = Visited(b)[l] /\ t \in Held(b) /\ Age(b, t) = l - 1
    BY <2>5, <1>0, VisitedAges
  <2>7. lsb_clear(b) = [b EXCEPT !.tail = t]
    BY <1>2, <2>4, <2>6 DEF lsb_clear, uncommitted
  <2> DEFINE c == [b EXCEPT !.tail = t]
  <2>8. c \in QueueOf(LsbEntry) /\ c.queue = b.queue /\ c.head = b.head /\ c.tail = t
    BY DEF QueueOf
  <2> HIDE DEF c
  <2>9. ASSUME NEW s \in Held(c) PROVE s \in Held(b) /\ b.queue[s].commited
    <3>1. s \in Slot /\ Age(b, s) < Age(b, t)
      BY <2>8 DEF Held, Age
    <3>2. Age(b, t) < Age(b, b.tail) /\ \A x \in Slot : Age(b, x) \in 0 .. MAXN - 1
      BY <2>6, QueueAges
    <3>3. MAXN \in Nat /\ b.tail \in Slot
      BY QueueAssumption, QueueAges DEF QueueAssumption
    <3>4. s \in Held(b)
      BY <3>1, <3>2, <3>3 DEF Held
    <3>5. Age(b, s) + 1 \in DOMAIN Visited(b) /\ Visited(b)[Age(b, s) + 1] = s
      BY <3>4, VisitedAges
    <3>6. ~(l <= Age(b, s) + 1)
      BY <2>5, <2>6, <3>1, <3>2, <3>3
    <3>7. Age(b, s) + 1 \notin uncommitted
      BY <2>4, <3>6
    <3> QED BY <3>4, <3>5, <3>7 DEF uncommitted
  <2> QED BY <2>7, <2>8, <2>9 DEF c
<1> QED BY <1>1, <1>2

(***************************************************************************)
(* Commit.                                                                 *)
(***************************************************************************)

\* The slot behind the head is not in use.
LEMMA BehindHead ==
  ASSUME NEW S, NEW b \in QueueOf(S), NEW i \in Slot, get_nxt(i) = b.head
  PROVE  i \notin Held(b)
<1>1. PICK h \in Slot : h = b.head
  BY QueueAges
<1>2. (i - h) % MAXN = (IF h <= i THEN i - h ELSE i - h + MAXN) /\ MAXN \in Nat /\ MAXN >= 2
      /\ get_nxt(i) = (IF i = MAXN - 1 THEN 0 ELSE i + 1)
  BY Circle
<1>3. Age(b, i) = MAXN - 1
  BY <1>1, <1>2 DEF Age, Slot
<1>4. b.tail \in Slot /\ Age(b, b.tail) \in 0 .. MAXN - 1
  BY QueueAges
<1> QED BY <1>2, <1>3, <1>4 DEF Held

\* No instruction left: nothing is announced.
LEMMA CommitNothingStep ==
  ASSUME Scheduled, Indices, CommitNothing, stage = "Commit", stage' = "ROB_Run"
  PROVE  Scheduled'
<1>1. /\ RobSeen' = RobSeen /\ LsbSeen' = LsbSeen /\ RsSeen' = RsSeen /\ RegSeen' = RegSeen
      /\ commit_' = commit_ /\ reg' = reg
  BY DEF CommitNothing, regs, buffers, vectors, RobSeen, LsbSeen, RsSeen, RegSeen, RegWritten
<1>2. SameOut
  <2>1. commit_ = <<>> /\ Number_ROB' = NO_ENTRY
    BY DEF CommitNothing
  <2> QED BY <1>1, <2>1, Nothing DEF SameOut, Left, ToStations, Telling, Announced
<1>3. SameWork
  <2>1. EX_Run_' = EX_Run_ /\ EX_to_ROB' = EX_to_ROB /\ LSB_to_ROB' = LSB_to_ROB
    BY DEF CommitNothing, vectors
  <2> QED BY <2>1 DEF SameWork, InEx, Computed, Loaded
<1>4. ~reg'[0].status
  BY <1>1 DEF Scheduled, Names
<1> QED BY <1>1, <1>2, <1>3, <1>4, ViewStill

\* The register that is written is free if it waited for this instruction.
LEMMA CommitRegisters ==
  ASSUME WsTypes, Prepared, CommitInOrder, stage = "Commit", NEW i \in Slot, i = Head(commit_).idx,
         NEW r \in RegIndex
  PROVE  /\ RegSeen'[r].q = RegSeen[r].q
         /\ IF up_reg_q_ex # <<>> /\ Head(up_reg_q_ex).rd = r /\ r # 0
              THEN RegSeen'[r].status /\ RegSeen[r].status /\ RegSeen[r].q = Head(up_reg_q_ex).tag
              ELSE RegSeen'[r].status <=>
                     /\ RegSeen[r].status
                     /\ ~(/\ Head(commit_).rob.tp = "value" /\ r # 0 /\ r = Head(commit_).rob.addr
                          /\ RegSeen[r].q = i)
<1>1. /\ up_reg_v_ex = <<>> /\ reg' = reg /\ up_reg_q_ex' = up_reg_q_ex
      /\ commit_ # <<>> /\ Number_ROB' = i
  BY DEF Prepared, CommitInOrder, regs
<1>2. /\ reg \in [RegIndex -> RegEntry] /\ up_reg_q_ex \in Vector(Naming)
      /\ commit_ \in Vector(Leaving)
  BY DEF WsTypes, RegTypes, VectorTypes
<1>3. PICK c \in Leaving : c = Head(commit_)
  BY <1>1, <1>2 DEF Vector
<1>4. c.rob.addr \in RegIndex /\ c.rob.result \in Word /\ c.idx = i
  BY <1>3 DEF Leaving, RobEntry
<1>5. RegWritten = reg
  BY <1>1 DEF RegWritten
<1>6. PICK rf \in [RegIndex -> RegEntry] :
        /\ rf = RegWritten'
        /\ rf[r].q = reg[r].q
        /\ rf[r].status <=> reg[r].status /\ ~(/\ c.rob.tp = "value" /\ r # 0 /\ r = c.rob.addr
                                               /\ reg[r].q = i)
  <2>1. CASE c.rob.tp = "value"
    <3>1. PICK w \in Writing : w = [rd |-> c.rob.addr, tag |-> i, value |-> c.rob.result]
      BY <1>4 DEF Writing
    <3>2. up_reg_v_ex' = <<w>>
      BY <1>1, <1>3, <2>1, <3>1 DEF CommitInOrder, Committed
    <3>3. RegWritten' = Assigned(reg, w)
      BY <1>1, <3>2 DEF RegWritten
    <3>4. w.rd = c.rob.addr /\ w.tag = i
      BY <3>1
    <3> QED BY <1>2, <2>1, <3>3, <3>4, RegAssigned
  <2>2. CASE c.rob.tp # "value"
    <3>1. up_reg_v_ex' = <<>>
      BY <1>1, <1>3, <2>2 DEF CommitInOrder, Committed
    <3>2. RegWritten' = reg
      BY <1>1, <3>1 DEF RegWritten
    <3> QED BY <1>2, <2>2, <3>2
  <2> QED BY <2>1, <2>2
<1>7. CASE up_reg_q_ex = <<>>
  <2>1. RegSeen' = rf /\ RegSeen = reg
    BY <1>1, <1>5, <1>6, <1>7 DEF RegSeen
  <2> QED BY <1>3, <1>6, <1>7, <2>1
<1>8. CASE up_reg_q_ex # <<>>
  <2>1. PICK n \in Naming : n = Head(up_reg_q_ex)
    BY <1>2, <1>8 DEF Vector
  <2>2. RegSeen' = Renamed(rf, n) /\ RegSeen = Renamed(reg, n)
    BY <1>1, <1>5, <1>6, <1>8, <2>1 DEF RegSeen
  <2>3. IF r # 0 /\ r = n.rd
          THEN /\ Renamed(rf, n)[r].status /\ Renamed(rf, n)[r].q = n.tag
               /\ Renamed(reg, n)[r].status /\ Renamed(reg, n)[r].q = n.tag
          ELSE Renamed(rf, n)[r] = rf[r] /\ Renamed(reg, n)[r] = reg[r]
    BY <1>2, <1>6, RegRenamed
  <2> QED BY <1>3, <1>6, <1>8, <2>1, <2>2, <2>3
<1> QED BY <1>7, <1>8

\* The instruction that left is announced, and its register is written.
LEMMA CommitInOrderStep ==
  ASSUME WsTypes, Prepared, Scheduled, Indices, CommitInOrder, stage = "Commit", stage' = "ROB_Run"
  PROVE  Scheduled'
<1>1. /\ RobSeen' = RobSeen /\ LsbSeen' = LsbSeen /\ RsSeen' = RsSeen
      /\ commit_' = <<>> /\ reg' = reg /\ commit_ # <<>> /\ Number_ROB' = Head(commit_).idx
      /\ EX_Run_' = EX_Run_ /\ EX_to_ROB' = EX_to_ROB /\ LSB_to_ROB' = LSB_to_ROB
  BY DEF CommitInOrder, regs, buffers, RobSeen, LsbSeen, RsSeen
<1>2. PICK i \in Slot : i = Head(commit_).idx /\ Head(commit_).rob.tp \in {"value", "store", "branch"}
  <2>1. commit_ \in Vector(Leaving)
    BY DEF WsTypes, VectorTypes
  <2>2. PICK c \in Leaving : c = Head(commit_)
    BY <1>1, <2>1 DEF Vector
  <2> QED BY <1>1, <2>2 DEF Leaving, CommitInOrder, Committed
<1>3. \A s \in Slot : /\ Left(s) <=> s = i
                      /\ ~Left(s)'
                      /\ ~Telling(s) /\ (Telling(s)' <=> s = i)
                      /\ (ToStations(s) <=> s = i) /\ (ToStations(s)' <=> s = i)
                      /\ (ToAccesses(s) <=> s = i) /\ (ToAccesses(s)' <=> s = i)
  BY <1>1, <1>2 DEF Left, Telling, Announced, ToStations, ToAccesses
<1>4. ~Flying(i)
  <2>1. RobSeen \in QueueOf(RobEntry)
    BY ViewTypes
  <2>2. get_nxt(i) = RobSeen.head
    BY <1>3 DEF Scheduled, LastOut
  <2> QED BY <2>1, <2>2, BehindHead DEF Flying
<1>5. SameRob /\ SameLsb /\ RobSeen'.head = RobSeen.head
  BY <1>1, SameViews
<1> USE <1>5 DEF SameRob, SameLsb
<1>6. LastOut'
  BY <1>3, <1>4 DEF LastOut
<1>7. \A s, k \in Slot : /\ InRs(s, k)' <=> InRs(s, k)
                         /\ InLsb(s, k)' <=> InLsb(s, k)
  BY <1>1 DEF InRs, InLsb, Open
<1>8. \A s \in Slot : /\ Unfinished(s)' <=> Unfinished(s)
                      /\ InEx(s)' <=> InEx(s)
                      /\ Computed(s)' <=> Computed(s)
                      /\ Loaded(s)' <=> Loaded(s)
  BY <1>1 DEF Unfinished, InEx, Computed, Loaded
<1>9. Owned'
  BY <1>3, <1>7, <1>8 DEF Scheduled, Owned
<1>10. Alone'
  BY <1>7, <1>8 DEF Scheduled, Alone
<1>11. Worked'
  BY <1>7, <1>8 DEF Scheduled, Worked
<1>12. StoresNotReady'
  BY DEF Scheduled, StoresNotReady
<1>13. OperandsInRs'
  BY <1>1, <1>3 DEF Scheduled, OperandsInRs, Gives, Indices
<1>14. OperandsInLsb'
  <2>1. ASSUME NEW k \in Slot, NEW t \in Slot, k \in Held(LsbSeen),
               AccessAt(k).q = t \/ AccessAt(k).q2 = t
        PROVE  Open(k) /\ Flying(AccessAt(k).idx) /\ (Gives(t, AccessAt(k).idx) \/ ToAccesses(t))
    BY <1>3, <2>1 DEF Scheduled, OperandsInLsb
  <2>2. \A s, t \in Slot : Gives(t, s)' <=> Gives(t, s)
    BY DEF Gives
  <2> QED BY <1>1, <1>3, <2>1, <2>2 DEF OperandsInLsb, Open, Indices, Gives
<1>15. Rounds'
  BY <1>1 DEF Scheduled, Rounds
<1>16. InOrder'
  BY <1>1, <1>3 DEF Scheduled, InOrder, Paid, Indices
<1>17. Names'
  <2>1. ASSUME NEW r \in RegIndex \ {0} PROVE NamesYoungest(r)' \/ NamesNone(r)'
    <3>1. PICK q \in Slot : q = RegSeen[r].q
      BY DEF Indices
    <3>2. RegSeen'[r].q = q
      BY <1>2, <3>1, CommitRegisters
    <3>3. \A s \in Slot : Writes(s, r)' <=> Writes(s, r)
      BY DEF Writes
    <3>4. CASE NamesYoungest(r)
      <4>1. /\ RegSeen[r].status /\ Writes(q, r)
            /\ \A s \in Slot : Writes(s, r) /\ s # q => RobAge(s) < RobAge(q)
        BY <3>1, <3>4 DEF NamesYoungest
      <4>2. q # i
        BY <1>4, <4>1 DEF Writes
      <4>3. RegSeen'[r].status
        BY <1>2, <3>1, <4>1, <4>2, CommitRegisters
      <4>4. Writes(q, r)' /\ \A s \in Slot : Writes(s, r)' /\ s # q => RobAge(s)' < RobAge(q)'
        BY <3>3, <4>1
      <4> QED BY <3>2, <4>3, <4>4 DEF NamesYoungest, Writes, Flying, Of, RobAge
    <3>5. CASE NamesNone(r)
      <4>1. RegSeen[r].status => /\ q = i /\ Head(commit_).rob.tp = "value"
                                 /\ Head(commit_).rob.addr = r
        BY <1>2, <1>3, <3>1, <3>5 DEF NamesNone
      <4>2. ~RegSeen'[r].status
        <5>1. CASE up_reg_q_ex # <<>> /\ Head(up_reg_q_ex).rd = r
          <6>1. RegSeen[r].status /\ q = Head(up_reg_q_ex).tag
            BY <1>2, <3>1, <5>1, CommitRegisters
          <6>2. Flying(Head(up_reg_q_ex).tag)
            BY <5>1 DEF Scheduled, LastOut
          <6>3. Flying(q)
            BY <6>1, <6>2
          <6> QED BY <1>4, <4>1, <6>1, <6>3
        <5>2. CASE ~(up_reg_q_ex # <<>> /\ Head(up_reg_q_ex).rd = r)
          BY <1>2, <3>1, <4>1, <5>2, CommitRegisters
        <5> QED BY <5>1, <5>2
      <4>3. \A s \in Slot : ~Writes(s, r)'
        BY <3>3, <3>5 DEF NamesNone
      <4> QED BY <4>2, <4>3 DEF NamesNone
    <3> QED BY <3>4, <3>5 DEF Scheduled, Names
  <2>2. ~reg'[0].status
    BY <1>1 DEF Scheduled, Names
  <2> QED BY <2>1, <2>2 DEF Names
<1> QED BY <1>6, <1>9, <1>10, <1>11, <1>12, <1>13, <1>14, <1>15, <1>16, <1>17 DEF Scheduled

\* A squash leaves committed stores, and registers that wait for nothing.
LEMMA CommitJumpStep ==
  ASSUME WsTypes, Scheduled, Indices, CommitJump, LSB \in QueueOf(LsbEntry),
         ~isfull(LSB) \/ up_LSB = <<>>, stage' = "ROB_Run"
  PROVE  Scheduled'
<1>1. /\ ROB' = Emptied(ROB) /\ up_ROB' = <<>> /\ RS' = NoStations /\ up_RS' = <<>>
      /\ LSB' = lsb_clear(LSB) /\ up_LSB' = <<>> /\ up_reg_q_ex' = <<>>
      /\ EX_Run_' = <<>> /\ commit_' = <<>> /\ Number_ROB' = NO_ENTRY
      /\ EX_to_ROB' = NoResult /\ LSB_to_ROB' = NoResult
      /\ reg' = [r \in RegIndex |-> [reg[r] EXCEPT !.q = 0, !.status = FALSE]]
  BY DEF CommitJump, Clear
<1>2. RobSeen' = Emptied(ROB) /\ RsSeen' = NoStations /\ LsbSeen' = lsb_clear(LSB)
  BY <1>1 DEF RobSeen, RsSeen, LsbSeen
<1>3. \A s \in Slot : ~Flying(s)'
  <2>1. \A s \in Slot : Age(Emptied(ROB), s) \in 0 .. MAXN - 1 /\ Age(Emptied(ROB), Emptied(ROB).tail) = 0
    <3>1. Emptied(ROB) \in QueueOf(RobEntry) /\ Emptied(ROB).head = Emptied(ROB).tail
      BY QueueAssumption DEF WsTypes, BufferTypes, QueueOf, Emptied, Slot, QueueAssumption
    <3> QED BY <3>1, QueueAges
  <2>2. Held(Emptied(ROB)) = {}
    BY <2>1, QueueAssumption DEF Held, QueueAssumption
  <2> QED BY <1>2, <2>2 DEF Flying
<1>4. \A i \in Slot : ~RsSeen'[i].status
  BY <1>2 DEF NoStations, EmptyRs
<1>5. \A s \in Slot : /\ ~InEx(s)' /\ ~Computed(s)' /\ ~Loaded(s)'
                      /\ ~Left(s)' /\ ~Telling(s)' /\ ~ToStations(s)' /\ ~ToAccesses(s)'
                      /\ ~Unfinished(s)'
  BY <1>1, <1>3, Nothing
     DEF NoResult, InEx, Computed, Loaded, Left, Telling, Announced, ToStations,
     ToAccesses, Unfinished
<1>6. \A k \in Slot : k \in Held(LsbSeen') =>
        k \in Held(LsbSeen) /\ AccessAt(k)' = AccessAt(k) /\ AccessAt(k).commited
  <2>1. ASSUME NEW k \in Slot, k \in Held(LsbSeen')
        PROVE  /\ LsbSeen'.queue[k] = LSB.queue[k] /\ k \in Held(LSB) /\ LSB.queue[k].commited
    BY <1>2, <2>1, Cleared
  <2>2. ASSUME NEW k \in Held(LSB)
        PROVE  k \in Held(LsbSeen) /\ LsbSeen.queue[k] = LSB.queue[k]
    <3>1. CASE up_LSB = <<>>
      BY <3>1 DEF LsbSeen
    <3>2. CASE up_LSB # <<>>
      <4>1. PICK a \in LsbEntry : a = Head(up_LSB)
        BY <3>2 DEF WsTypes, VectorTypes, Vector
      <4>2. LsbSeen = push_back(LSB, a)
        BY <3>2, <4>1 DEF LsbSeen
      <4>3. k \in Slot /\ k # LSB.tail
        BY QueueAges
      <4> QED BY <3>2, <4>2, <4>3, QueuePush
    <3> QED BY <3>1, <3>2
  <2> QED BY <2>1, <2>2 DEF AccessAt
<1>7. \A k \in Slot : ~Open(k)'
  BY <1>6 DEF Open
<1>8. LastOut'
  BY <1>1, <1>5 DEF LastOut
<1>9. Owned' /\ Alone' /\ Worked'
  <2>1. \A s, k \in Slot : ~InRs(s, k)' /\ ~InLsb(s, k)'
    BY <1>4, <1>7 DEF InRs, InLsb
  <2> QED BY <1>5, <2>1 DEF Owned, Alone, Worked
<1>10. StoresNotReady'
  BY <1>3 DEF StoresNotReady
<1>11. OperandsInRs'
  BY <1>4 DEF OperandsInRs
<1>12. OperandsInLsb'
  <2>1. ASSUME NEW k \in Slot, NEW t \in Slot, k \in Held(LsbSeen'),
               AccessAt(k)'.q = t \/ AccessAt(k)'.q2 = t
        PROVE  FALSE
    <3>1. k \in Held(LsbSeen) /\ (AccessAt(k).q = t \/ AccessAt(k).q2 = t) /\ AccessAt(k).commited
      BY <1>6, <2>1
    <3> QED BY <3>1 DEF Scheduled, OperandsInLsb, Open
  <2> QED BY <2>1 DEF OperandsInLsb
<1>13. Rounds'
  BY <1>6 DEF Scheduled, Rounds
<1>14. InOrder'
  BY <1>6 DEF InOrder
<1>15. /\ reg' \in [RegIndex -> RegEntry] /\ \A r \in RegIndex : ~reg'[r].status
  <2>1. reg \in [RegIndex -> RegEntry] /\ 0 \in Slot
    BY QueueAssumption DEF WsTypes, RegTypes, Slot, QueueAssumption
  <2>2. ASSUME NEW r \in RegIndex
        PROVE  /\ [reg[r] EXCEPT !.q = 0, !.status = FALSE] \in RegEntry
               /\ ~[reg[r] EXCEPT !.q = 0, !.status = FALSE].status
    <3>1. reg[r] \in RegEntry
      BY <2>1
    <3> QED BY <2>1, <3>1 DEF RegEntry
  <2> QED BY <1>1, <2>2
<1>16. \A r \in RegIndex : ~RegSeen'[r].status
  <2>1. CASE up_reg_v_ex' = <<>>
    BY <1>1, <1>15, <2>1 DEF RegSeen, RegWritten
  <2>2. CASE up_reg_v_ex' # <<>>
    <3>1. PICK w \in Writing : w = Head(up_reg_v_ex')
      <4>1. commit_ \in Vector(Leaving) /\ commit_ # <<>>
        BY DEF WsTypes, VectorTypes, CommitJump
      <4>2. PICK c \in Leaving : c = Head(commit_)
        BY <4>1 DEF Vector
      <4>3. c.rob.addr \in RegIndex /\ Add(c.rob.pc, INST_BYTES) \in Word
        BY AddWord DEF Leaving, RobEntry
      <4>4. up_reg_v_ex' = <<[rd |-> c.rob.addr, tag |-> NO_ENTRY, value |-> Add(c.rob.pc, INST_BYTES)]>>
        BY <2>2, <4>2 DEF CommitJump, Committed
      <4>5. [rd |-> c.rob.addr, tag |-> NO_ENTRY, value |-> Add(c.rob.pc, INST_BYTES)] \in Writing
        BY <4>3 DEF Writing
      <4> QED BY <4>4, <4>5
    <3>2. RegSeen' = Assigned(reg', w)
      BY <1>1, <2>2, <3>1 DEF RegSeen, RegWritten
    <3> QED BY <1>15, <3>2, RegAssigned
  <2> QED BY <2>1, <2>2
<1>17. Names'
  <2>1. \A r \in RegIndex, s \in Slot : ~Writes(s, r)'
    BY <1>3 DEF Writes
  <2>2. \A r \in RegIndex : NamesNone(r)'
    BY <1>16, <2>1 DEF NamesNone
  <2>3. 0 \in RegIndex
    BY WordAssumption DEF WordAssumption, RegIndex
  <2> QED BY <1>15, <2>2, <2>3 DEF Names
<1> QED BY <1>8, <1>9, <1>10, <1>11, <1>12, <1>13, <1>14, <1>17 DEF Scheduled

(***************************************************************************)
(* One call after the other keeps the invariant.                           *)
(***************************************************************************)
Live == WsTypes /\ Copies /\ Prepared /\ Scheduled

\* The invariant of a program that still runs.
LEMMA WsInvLive ==
  /\ exited = "no" => (WsInv <=> Live)
  /\ WsInv => WsTypes
  /\ exited # "no" => (WsInv <=> WsTypes)
  BY DEF WsInv, Sched, Live, Scheduled

\* ROB_Run.
LEMMA RobTurn ==
  ASSUME Live, ROB_Run
  PROVE  Live'
<1>1. /\ ROB' \in QueueOf(RobEntry) /\ commit_' \in Vector(Leaving) /\ up_ROB' = <<>>
      /\ RobMarks /\ (RobKeeps \/ RobPops)
  BY RobRuns DEF Live
<1>2. /\ stage = "ROB_Run" /\ stage' = "IF_Run"
      /\ UNCHANGED <<program, pc, mem, reg, reg_pre, RS, RS_pre, ROB_pre, IQ, IQ_pre, LSB, LSB_pre,
                     up_RS, up_LSB, up_reg_q_ex, up_reg_v_ex, EX_Run_, printed, committed_pc>>
      /\ UNCHANGED <<Number_ROB, Number_Result, EX_to_ROB, LSB_to_ROB, LSB_to_ROB_pre>>
  BY DEF ROB_Run, Turn, regs, results, ended
<1>3. WsTypes'
  BY <1>1, <1>2
     DEF Live, WsTypes, BufferTypes, RegTypes, VectorTypes, ResultTypes, OtherTypes, Vector
<1>4. Copies'
  BY <1>2 DEF Live, Copies
<1>5. Prepared'
  BY <1>1, <1>2 DEF Live, Prepared
<1>6. Scheduled'
  <2>1. /\ LsbSeen' = LsbSeen /\ RsSeen' = RsSeen /\ RegSeen' = RegSeen
    BY <1>2 DEF LsbSeen, RsSeen, RegSeen, RegWritten
  <2>2. Indices /\ EX_Run_ = <<>> /\ commit_ = <<>>
    BY <1>2, IndicesHold DEF Live, Prepared
  <2> QED BY <1>1, <1>2, <2>1, <2>2, RobStep DEF Live
<1> QED BY <1>3, <1>4, <1>5, <1>6 DEF Live

\* IF_Run.
LEMMA FetchTurn ==
  ASSUME Live, IF_Run
  PROVE  Live'
<1>1. /\ stage = "IF_Run" /\ stage' = "RS_Run"
      /\ UNCHANGED <<program, mem, reg, reg_pre, RS, RS_pre, ROB, ROB_pre, IQ_pre, LSB, LSB_pre,
                     printed, committed_pc>>
      /\ UNCHANGED <<up_ROB, up_RS, up_LSB, up_reg_q_ex, up_reg_v_ex, EX_Run_, commit_>>
      /\ UNCHANGED <<Number_ROB, Number_Result, EX_to_ROB, LSB_to_ROB, LSB_to_ROB_pre>>
  BY DEF IF_Run, Turn, regs, results, ended, vectors
<1>2. IQ' \in QueueOf(IqEntry) /\ pc' \in Word
  <2>1. IQ \in QueueOf(IqEntry) /\ pc \in Word /\ program \in [Word -> Instructions]
    BY DEF Live, WsTypes, BufferTypes, OtherTypes
  <2>2. CASE isfull(IQ)
    BY <2>1, <2>2 DEF IF_Run
  <2>3. CASE ~isfull(IQ)
    <3>1. PICK e \in IqEntry : e = [inst |-> program[pc], pc |-> pc]
      BY <2>1 DEF IqEntry
    <3>2. IQ' = push_back(IQ, e) /\ pc' = Add(pc, INST_BYTES)
      BY <2>3, <3>1 DEF IF_Run
    <3>3. Add(pc, INST_BYTES) \in Word
      BY <2>1, AddWord
    <3> QED BY <2>1, <2>3, <3>2, <3>3, QueuePush
  <2> QED BY <2>2, <2>3
<1>3. WsTypes'
  BY <1>1, <1>2 DEF Live, WsTypes, BufferTypes, RegTypes, VectorTypes, ResultTypes, OtherTypes
<1>4. Copies'
  BY <1>1 DEF Live, Copies
<1>5. Prepared'
  BY <1>1 DEF Live, Prepared
<1>6. Scheduled'
  <2>1. /\ RobSeen' = RobSeen /\ LsbSeen' = LsbSeen /\ RsSeen' = RsSeen /\ RegSeen' = RegSeen
    BY <1>1 DEF RobSeen, LsbSeen, RsSeen, RegSeen, RegWritten
  <2>2. Indices
    BY IndicesHold DEF Live
  <2>3. SameOut /\ SameWork
    BY <1>1 DEF SameOut, SameWork, Left, ToStations, Telling, Announced, InEx, Computed, Loaded
  <2>4. ~reg'[0].status
    BY <1>1 DEF Live, Scheduled, Names
  <2> QED BY <1>1, <2>1, <2>2, <2>3, <2>4, ViewStill DEF Live
<1> QED BY <1>3, <1>4, <1>5, <1>6 DEF Live

\* RS_Run.
LEMMA StationsTurn ==
  ASSUME Live, RS_Run
  PROVE  Live'
<1>1. RS' \in [Slot -> RsEntry] /\ EX_Run_' \in Vector(RsEntry) /\ up_RS' = <<>> /\ RsWorks
  BY StationsRun DEF Live
<1>2. /\ stage = "RS_Run" /\ stage' = "LSB_Run"
      /\ UNCHANGED <<program, pc, mem, reg, reg_pre, RS_pre, ROB, ROB_pre, IQ, IQ_pre, LSB, LSB_pre,
                     up_ROB, up_LSB, up_reg_q_ex, up_reg_v_ex, commit_, printed, committed_pc>>
      /\ UNCHANGED <<Number_ROB, Number_Result, EX_to_ROB, LSB_to_ROB, LSB_to_ROB_pre>>
  BY DEF RS_Run, Turn, regs, results, ended
<1>3. WsTypes'
  BY <1>1, <1>2
     DEF Live, WsTypes, BufferTypes, RegTypes, VectorTypes, ResultTypes, OtherTypes, Vector
<1>4. Copies'
  BY <1>2 DEF Live, Copies
<1>5. Prepared'
  BY <1>1, <1>2 DEF Live, Prepared
<1>6. Scheduled'
  <2>1. /\ RobSeen' = RobSeen /\ LsbSeen' = LsbSeen /\ RegSeen' = RegSeen
    BY <1>2 DEF RobSeen, LsbSeen, RegSeen, RegWritten
  <2>2. Indices /\ EX_Run_ = <<>>
    BY <1>2, IndicesHold DEF Live, Prepared
  <2> QED BY <1>1, <1>2, <2>1, <2>2, RsStep DEF Live
<1> QED BY <1>3, <1>4, <1>5, <1>6 DEF Live

\* LSB_Run; a store to the exit port ends the process.
LEMMA AccessesTurn ==
  ASSUME Live, LSB_Run
  PROVE  WsInv'
<1>1. /\ stage = "LSB_Run" /\ stage' = "REG_Run" /\ exited = "no" /\ up_LSB' = <<>>
      /\ UNCHANGED <<program, pc, reg, reg_pre, RS, RS_pre, ROB, ROB_pre, IQ, IQ_pre, LSB_pre, up_ROB,
                     up_RS, up_reg_q_ex, up_reg_v_ex, EX_Run_, commit_, Number_ROB, Number_Result,
                     EX_to_ROB, LSB_to_ROB_pre, printed, committed_pc>>
  BY DEF LSB_Run, Turn, regs
<1>2. CASE exited' = "no"
  <2>1. /\ LSB' \in QueueOf(LsbEntry) /\ LSB_to_ROB' \in Result /\ mem' \in [Word -> Byte]
        /\ LsbWorks
    BY <1>2, AccessesRun DEF Live, Scheduled
  <2>2. WsTypes'
    BY <1>1, <2>1
       DEF Live, WsTypes, BufferTypes, RegTypes, VectorTypes, ResultTypes, OtherTypes, Vector
  <2>3. Copies'
    BY <1>1 DEF Live, Copies
  <2>4. Prepared'
    BY <1>1 DEF Live, Prepared
  <2>5. Scheduled'
    <3>1. /\ RobSeen' = RobSeen /\ RsSeen' = RsSeen /\ RegSeen' = RegSeen
      BY <1>1 DEF RobSeen, RsSeen, RegSeen, RegWritten
    <3>2. Indices
      BY IndicesHold DEF Live
    <3> QED BY <1>1, <2>1, <3>1, <3>2, LsbStep DEF Live
  <2>6. Live'
    BY <2>2, <2>3, <2>4, <2>5 DEF Live
  <2> QED BY <2>6 DEF Live, Scheduled, Sched, WsInv
<1>3. CASE exited' # "no"
  <2>1. UNCHANGED <<LSB, mem, LSB_to_ROB>>
    BY <1>1, <1>3 DEF LSB_Run, LSB_wait, LSB_load, LSB_store, LSB_exit
  <2>2. WsTypes'
    BY <1>1, <2>1
       DEF Live, WsTypes, BufferTypes, RegTypes, VectorTypes, ResultTypes, OtherTypes, Vector
  <2> QED BY <1>3, <2>2 DEF WsInv
<1> QED BY <1>2, <1>3

\* REG_Run: the registers become what the view says.
LEMMA RegistersTurn ==
  ASSUME Live, REG_Run
  PROVE  Live'
<1>1. /\ stage = "REG_Run" /\ stage' = "Update"
      /\ up_reg_q_ex' = <<>> /\ up_reg_v_ex' = <<>>
      /\ UNCHANGED <<program, pc, mem, reg_pre, RS, RS_pre, ROB, ROB_pre, IQ, IQ_pre, LSB, LSB_pre,
                     up_ROB, up_RS, up_LSB, EX_Run_, commit_, printed, committed_pc>>
      /\ UNCHANGED <<Number_ROB, Number_Result, EX_to_ROB, LSB_to_ROB, LSB_to_ROB_pre>>
  BY DEF REG_Run, Turn, buffers, results, ended
<1>2. /\ reg \in [RegIndex -> RegEntry] /\ up_reg_v_ex \in Vector(Writing)
      /\ up_reg_q_ex \in Vector(Naming)
  BY DEF Live, WsTypes, RegTypes, VectorTypes
<1>3. reg' = RegSeen
  <2>1. FoldLeft(Assigned, reg, up_reg_v_ex) = RegWritten
    BY <1>2, AssignedOne DEF RegWritten
  <2>2. FoldLeft(Renamed, RegWritten, up_reg_q_ex) = RegSeen
    BY <1>2, RenamedOne DEF RegSeen
  <2> QED BY <2>1, <2>2 DEF REG_Run
<1>4. reg' \in [RegIndex -> RegEntry]
  BY <1>3, RegSeenType DEF Live
<1>5. ~reg'[0].status
  <2>1. 0 \in RegIndex /\ ~reg[0].status
    BY WordAssumption DEF WordAssumption, RegIndex, Live, Scheduled, Names
  <2>2. RegWritten \in [RegIndex -> RegEntry] /\ ~RegWritten[0].status
    <3>1. CASE up_reg_v_ex = <<>>
      BY <1>2, <2>1, <3>1 DEF RegWritten
    <3>2. CASE up_reg_v_ex # <<>>
      <4>1. PICK w \in Writing : w = Head(up_reg_v_ex)
        BY <1>2, <3>2 DEF Vector
      <4>2. RegWritten = Assigned(reg, w)
        BY <3>2, <4>1 DEF RegWritten
      <4> QED BY <1>2, <2>1, <4>2, RegAssigned
    <3> QED BY <3>1, <3>2
  <2>3. CASE up_reg_q_ex = <<>>
    BY <1>3, <2>2, <2>3 DEF RegSeen
  <2>4. CASE up_reg_q_ex # <<>>
    <3>1. PICK n \in Naming : n = Head(up_reg_q_ex)
      BY <1>2, <2>4 DEF Vector
    <3>2. RegSeen = Renamed(RegWritten, n)
      BY <2>4, <3>1 DEF RegSeen
    <3>3. Renamed(RegWritten, n)[0] = RegWritten[0]
      BY <2>1, <2>2, RegRenamed
    <3> QED BY <1>3, <2>2, <3>2, <3>3
  <2> QED BY <2>3, <2>4
<1>6. WsTypes'
  BY <1>1, <1>4
     DEF Live, WsTypes, BufferTypes, RegTypes, VectorTypes, ResultTypes, OtherTypes, Vector
<1>7. Copies'
  BY <1>1 DEF Copies
<1>8. Prepared'
  BY <1>1 DEF Live, Prepared
<1>9. Scheduled'
  <2>1. /\ RobSeen' = RobSeen /\ LsbSeen' = LsbSeen /\ RsSeen' = RsSeen
    BY <1>1 DEF RobSeen, LsbSeen, RsSeen
  <2>2. RegSeen' = RegSeen
    BY <1>1, <1>3 DEF RegSeen, RegWritten
  <2>3. Indices
    BY IndicesHold DEF Live
  <2>4. SameOut /\ SameWork
    BY <1>1 DEF SameOut, SameWork, Left, ToStations, Telling, Announced, InEx, Computed, Loaded
  <2> QED BY <1>1, <1>5, <2>1, <2>2, <2>3, <2>4, ViewStill DEF Live
<1> QED BY <1>6, <1>7, <1>8, <1>9 DEF Live

\* Update: every copy is the original again.
LEMMA UpdateTurn ==
  ASSUME Live, Update
  PROVE  Live'
<1>1. /\ stage = "Update" /\ stage' = "Execute"
      /\ RS_pre' = RS /\ ROB_pre' = ROB /\ IQ_pre' = IQ /\ LSB_pre' = LSB /\ reg_pre' = reg
      /\ LSB_to_ROB_pre' = LSB_to_ROB
      /\ UNCHANGED <<program, pc, mem, reg, RS, ROB, IQ, LSB, Number_ROB, Number_Result,
                     EX_to_ROB, LSB_to_ROB, printed, committed_pc>>
      /\ UNCHANGED <<up_ROB, up_RS, up_LSB, up_reg_q_ex, up_reg_v_ex, EX_Run_, commit_>>
  BY DEF Update, Turn, vectors, ended
<1>2. WsTypes'
  BY <1>1 DEF Live, WsTypes, BufferTypes, RegTypes, VectorTypes, ResultTypes, OtherTypes
<1>3. Copies'
  BY <1>1 DEF Copies
<1>4. Prepared'
  BY <1>1 DEF Live, Prepared
<1>5. Scheduled'
  <2>1. /\ RobSeen' = RobSeen /\ LsbSeen' = LsbSeen /\ RsSeen' = RsSeen /\ RegSeen' = RegSeen
    BY <1>1 DEF RobSeen, LsbSeen, RsSeen, RegSeen, RegWritten
  <2>2. Indices
    BY IndicesHold DEF Live
  <2>3. SameOut /\ SameWork
    BY <1>1 DEF SameOut, SameWork, Left, ToStations, Telling, Announced, InEx, Computed, Loaded
  <2>4. ~reg'[0].status
    BY <1>1 DEF Live, Scheduled, Names
  <2> QED BY <1>1, <2>1, <2>2, <2>3, <2>4, ViewStill DEF Live
<1> QED BY <1>2, <1>3, <1>4, <1>5 DEF Live

\* Execute.
LEMMA ExecuteTurn ==
  ASSUME Live, Execute
  PROVE  Live'
<1>1. /\ stage = "Execute" /\ stage' = "ISSUE_Run" /\ EX_Run_' = <<>>
      /\ UNCHANGED <<program, pc, mem, reg, reg_pre, RS, RS_pre, ROB, ROB_pre, IQ, IQ_pre, LSB,
                     LSB_pre, up_ROB, up_RS, up_LSB, up_reg_q_ex, up_reg_v_ex, commit_, Number_ROB,
                     Number_Result, LSB_to_ROB, LSB_to_ROB_pre, printed, committed_pc>>
  BY DEF Execute, Turn, regs, buffers, ended
<1>2. EX_to_ROB \in Result /\ EX_Run_ \in Vector(RsEntry)
  BY DEF Live, WsTypes, ResultTypes, VectorTypes
<1>3. EX_to_ROB' \in Result /\ \A s \in Slot : EX_to_ROB'.first = s <=> InEx(s)
  <2>1. CASE EX_Run_ = <<>>
    <3>1. EX_to_ROB' = [EX_to_ROB EXCEPT !.first = NO_ENTRY]
      BY <2>1 DEF Execute
    <3>2. EX_to_ROB' \in Result /\ EX_to_ROB'.first = NO_ENTRY
      BY <1>2, <3>1 DEF Result
    <3> QED BY <2>1, <3>2, Nothing DEF InEx
  <2>2. CASE EX_Run_ # <<>>
    <3>1. PICK e \in RsEntry : e = Head(EX_Run_)
      BY <1>2, <2>2 DEF Vector
    <3>2. EX_to_ROB' = [first |-> e.idx, second |-> EX_to_ROB_of(e.op, e.vi, e.vj)]
      BY <2>2, <3>1 DEF Execute
    <3>3. e.idx \in Slot /\ EX_to_ROB_of(e.op, e.vi, e.vj) \in Word
      BY ExecuteWord DEF RsEntry
    <3>4. EX_to_ROB' \in Result /\ EX_to_ROB'.first = e.idx
      BY <3>2, <3>3 DEF Result
    <3> QED BY <2>2, <3>1, <3>4 DEF InEx
  <2> QED BY <2>1, <2>2
<1>4. WsTypes'
  BY <1>1, <1>3
     DEF Live, WsTypes, BufferTypes, RegTypes, VectorTypes, ResultTypes, OtherTypes, Vector
<1>5. Copies'
  BY <1>1 DEF Live, Copies
<1>6. Prepared'
  BY <1>1 DEF Live, Prepared
<1>7. Scheduled'
  <2>1. /\ RobSeen' = RobSeen /\ LsbSeen' = LsbSeen /\ RsSeen' = RsSeen /\ RegSeen' = RegSeen
    BY <1>1 DEF RobSeen, LsbSeen, RsSeen, RegSeen, RegWritten
  <2>2. Indices
    BY IndicesHold DEF Live
  <2> QED BY <1>1, <1>3, <2>1, <2>2, ExStep DEF Live
<1> QED BY <1>4, <1>5, <1>6, <1>7 DEF Live

\* ISSUE_Run.
LEMMA IssueTurn ==
  ASSUME Live, ISSUE_Run
  PROVE  Live'
<1>1. /\ stage = "ISSUE_Run" /\ stage' = "Commit"
      /\ UNCHANGED <<program, pc, mem, reg, reg_pre, RS, RS_pre, ROB, ROB_pre, IQ_pre, LSB, LSB_pre,
                     up_reg_v_ex, EX_Run_, commit_, printed, committed_pc>>
      /\ UNCHANGED <<Number_ROB, Number_Result, EX_to_ROB, LSB_to_ROB, LSB_to_ROB_pre>>
  BY DEF ISSUE_Run, Turn, regs, results, ended
<1>2. /\ NothingPrepared /\ up_reg_v_ex = <<>> /\ RegSeen = reg /\ reg_pre = reg /\ RS_pre = RS
      /\ EX_Run_ = <<>>
  BY <1>1, NothingPreparedYet DEF Live, Prepared
<1>3. Indices /\ RegSeen \in [RegIndex -> RegEntry]
  BY IndicesHold, RegSeenType DEF Live
<1>4. Copies'
  BY <1>1 DEF Live, Copies
<1>5. CASE HasRoom
  <2>1. /\ Enters
        /\ up_ROB' \in Vector(RobEntry) /\ up_RS' \in Vector(RsEntry)
        /\ up_LSB' \in Vector(LsbEntry)
        /\ up_reg_q_ex' \in Vector(Naming) /\ IQ' \in QueueOf(IqEntry)
        /\ up_RS' # <<>> => Head(up_RS').status
    BY <1>5, Entering1 DEF Live, Scheduled
  <2>2. WsTypes'
    BY <1>1, <2>1 DEF Live, WsTypes, BufferTypes, RegTypes, VectorTypes, ResultTypes, OtherTypes
  <2>3. ~isfull(ROB) /\ ~isfull(LSB) /\ find_empty(RS) # MAXN
    BY <1>2, <1>5 DEF HasRoom
  <2>4. Prepared'
    BY <1>1, <1>2, <2>1, <2>3 DEF Prepared
  <2>5. Scheduled'
    BY <1>1, <1>2, <1>3, <2>1, IssueStep DEF Live
  <2> QED BY <1>4, <2>2, <2>4, <2>5 DEF Live
<1>6. CASE ~HasRoom
  <2>1. UNCHANGED <<IQ, up_ROB, up_RS, up_LSB, up_reg_q_ex>>
    BY <1>6 DEF ISSUE_Run
  <2>2. WsTypes'
    BY <1>1, <2>1 DEF Live, WsTypes, BufferTypes, RegTypes, VectorTypes, ResultTypes, OtherTypes
  <2>3. Prepared'
    BY <1>1, <1>2, <2>1 DEF Prepared, NothingPrepared
  <2>4. Scheduled'
    <3>1. /\ RobSeen' = RobSeen /\ LsbSeen' = LsbSeen /\ RsSeen' = RsSeen /\ RegSeen' = RegSeen
      BY <1>1, <2>1 DEF RobSeen, LsbSeen, RsSeen, RegSeen, RegWritten
    <3>2. SameOut /\ SameWork
      BY <1>1 DEF SameOut, SameWork, Left, ToStations, Telling, Announced, InEx, Computed, Loaded
    <3>3. ~reg'[0].status /\ up_reg_q_ex' = <<>>
      BY <1>1, <1>2, <2>1 DEF Live, Scheduled, Names, NothingPrepared
    <3> QED BY <1>1, <1>3, <3>1, <3>2, <3>3, ViewStill DEF Live
  <2> QED BY <1>4, <2>2, <2>3, <2>4 DEF Live
<1> QED BY <1>5, <1>6

\* Commit, in its three ways.
LEMMA CommitTurn ==
  ASSUME Live, Commit
  PROVE  Live'
<1>1. /\ stage = "Commit" /\ stage' = "ROB_Run"
      /\ UNCHANGED <<program, mem, printed>>
  BY DEF Commit, Turn, ended
<1>2. Indices
  BY IndicesHold DEF Live
<1>3. /\ up_reg_v_ex = <<>> /\ EX_Run_ = <<>> /\ ROB_pre = ROB /\ RS_pre = RS /\ LSB_pre = LSB
      /\ LSB_to_ROB_pre = LSB_to_ROB /\ reg_pre = reg
  BY <1>1 DEF Live, Prepared, Copies
<1>4. CASE CommitNothing
  <2>1. /\ UNCHANGED <<pc, reg, reg_pre, RS, RS_pre, ROB, ROB_pre, IQ, IQ_pre, LSB, LSB_pre,
                       Number_Result, EX_to_ROB, LSB_to_ROB, LSB_to_ROB_pre, committed_pc>>
        /\ UNCHANGED <<up_ROB, up_RS, up_LSB, up_reg_q_ex, up_reg_v_ex, EX_Run_, commit_>>
        /\ Number_ROB' = NO_ENTRY /\ commit_ = <<>>
    BY <1>4 DEF CommitNothing, regs, buffers, vectors
  <2>2. WsTypes'
    BY <1>1, <2>1 DEF Live, WsTypes, BufferTypes, RegTypes, VectorTypes, ResultTypes, OtherTypes
  <2>3. Copies' /\ Prepared'
    BY <1>1, <1>3, <2>1 DEF Live, Copies, Prepared
  <2>4. Scheduled'
    BY <1>1, <1>2, <1>4, CommitNothingStep DEF Live
  <2> QED BY <2>2, <2>3, <2>4 DEF Live
<1>5. ASSUME commit_ # <<>>
      PROVE  /\ Committed \in RobEntry /\ Head(commit_).idx \in Slot
             /\ Committed.pc \in Word /\ Committed.result \in Word /\ Committed.offset \in Word
             /\ Committed.addr \in RegIndex
             /\ Add(Committed.pc, INST_BYTES) \in Word
             /\ Add(Committed.offset, Committed.pc) \in Word
             /\ Committed.result - (Committed.result % 2) \in Word
  <2>1. PICK c \in Leaving : c = Head(commit_)
    BY <1>5 DEF Live, WsTypes, VectorTypes, Vector
  <2>2. c.rob \in RobEntry /\ c.idx \in Slot /\ Committed = c.rob
    BY <2>1 DEF Leaving, Committed
  <2>3. /\ c.rob.pc \in Word /\ c.rob.result \in Word /\ c.rob.offset \in Word
        /\ c.rob.addr \in RegIndex
    BY <2>2 DEF RobEntry
  <2>4. PICK w \in Word : w = c.rob.result
    BY <2>3
  <2>5. w - (w % 2) \in Word
    <3>1. w \in Nat /\ w \in 0 .. 2^XLEN - 1 /\ 2^XLEN \in Nat
      BY Powers, WordArithmetic DEF Word
    <3>2. w % 2 \in 0 .. 1 /\ w % 2 <= w
      BY <3>1
    <3> QED BY <3>1, <3>2 DEF Word
  <2> QED BY <2>1, <2>2, <2>3, <2>4, <2>5, AddWord
<1>6. CASE CommitInOrder
  <2>1. /\ UNCHANGED <<pc, reg, reg_pre, RS, RS_pre, ROB, ROB_pre, IQ, IQ_pre, LSB, LSB_pre,
                       up_ROB, up_RS, up_LSB, up_reg_q_ex, EX_Run_, EX_to_ROB, LSB_to_ROB,
                       LSB_to_ROB_pre>>
        /\ commit_ # <<>> /\ commit_' = <<>> /\ Number_ROB' = Head(commit_).idx
        /\ committed_pc' = Add(Committed.pc, INST_BYTES)
    BY <1>6 DEF CommitInOrder, regs, buffers
  <2>2. Number_Result' \in Word /\ up_reg_v_ex' \in Vector(Writing)
    <3>1. CASE Committed.tp = "value"
      <4>1. PICK w \in Writing : w = [rd |-> Committed.addr, tag |-> Number_ROB', value |-> Committed.result]
        BY <1>5, <2>1 DEF Writing
      <4>2. up_reg_v_ex' = <<w>> /\ Number_Result' = Committed.result
        BY <1>3, <1>6, <3>1, <4>1 DEF CommitInOrder
      <4> QED BY <1>5, <2>1, <4>2 DEF Vector
    <3>2. CASE Committed.tp # "value"
      <4>1. UNCHANGED <<Number_Result, up_reg_v_ex>>
        BY <1>6, <3>2 DEF CommitInOrder
      <4> QED BY <4>1 DEF Live, WsTypes, VectorTypes, ResultTypes
    <3> QED BY <3>1, <3>2
  <2>3. WsTypes'
    <3>1. BufferTypes' /\ RegTypes'
      BY <2>1 DEF Live, WsTypes, BufferTypes, RegTypes
    <3>2. VectorTypes'
      BY <2>1, <2>2 DEF Live, WsTypes, VectorTypes, Vector
    <3>3. ResultTypes'
      BY <1>5, <2>1, <2>2 DEF Live, WsTypes, ResultTypes
    <3>4. OtherTypes'
      BY <1>1, <1>5, <2>1 DEF Live, WsTypes, OtherTypes
    <3> QED BY <3>1, <3>2, <3>3, <3>4 DEF WsTypes
  <2>4. Copies' /\ Prepared'
    BY <1>1, <1>3, <2>1 DEF Live, Copies, Prepared
  <2>5. Scheduled'
    BY <1>1, <1>2, <1>6, CommitInOrderStep DEF Live
  <2> QED BY <2>3, <2>4, <2>5 DEF Live
<1>7. CASE CommitJump
  <2>1. /\ RS' = NoStations /\ RS_pre' = NoStations
        /\ LSB' = lsb_clear(LSB) /\ LSB_pre' = lsb_clear(LSB)
        /\ ROB' = Emptied(ROB) /\ ROB_pre' = Emptied(ROB)
        /\ IQ' = Emptied(IQ) /\ IQ_pre' = Emptied(IQ_pre)
        /\ up_ROB' = <<>> /\ up_RS' = <<>> /\ up_LSB' = <<>> /\ up_reg_q_ex' = <<>>
        /\ EX_Run_' = <<>> /\ commit_' = <<>>
        /\ Number_ROB' = NO_ENTRY
        /\ EX_to_ROB' = NoResult /\ LSB_to_ROB' = NoResult /\ LSB_to_ROB_pre' = NoResult
        /\ reg' = [r \in RegIndex |-> [reg[r] EXCEPT !.q = 0, !.status = FALSE]]
        /\ reg_pre' = [r \in RegIndex |-> [reg[r] EXCEPT !.q = 0, !.status = FALSE]]
        /\ commit_ # <<>>
    BY <1>3, <1>7 DEF CommitJump, Clear
  <2>2. BufferTypes'
    <3>1. /\ ROB \in QueueOf(RobEntry) /\ LSB \in QueueOf(LsbEntry)
          /\ IQ \in QueueOf(IqEntry) /\ IQ_pre \in QueueOf(IqEntry)
      BY DEF Live, WsTypes, BufferTypes
    <3>2. 0 \in Slot
      BY QueueAssumption DEF Slot, QueueAssumption
    <3>3. \A S : \A b \in QueueOf(S) : Emptied(b) \in QueueOf(S)
      BY <3>2 DEF QueueOf, Emptied
    <3>4. /\ Emptied(ROB) \in QueueOf(RobEntry) /\ Emptied(IQ) \in QueueOf(IqEntry)
          /\ Emptied(IQ_pre) \in QueueOf(IqEntry)
      BY <3>1, <3>3
    <3>5. NoStations \in [Slot -> RsEntry]
      BY <3>2, WordArithmetic DEF NoStations, EmptyRs, RsEntry, Operations, Tag
    <3>6. lsb_clear(LSB) \in QueueOf(LsbEntry)
      BY <3>1, Cleared
    <3> QED BY <2>1, <3>4, <3>5, <3>6 DEF BufferTypes
  <2>3. RegTypes'
    <3>1. reg \in [RegIndex -> RegEntry] /\ 0 \in Slot
      BY QueueAssumption DEF Live, WsTypes, RegTypes, Slot, QueueAssumption
    <3>2. ASSUME NEW r \in RegIndex
          PROVE  [reg[r] EXCEPT !.q = 0, !.status = FALSE] \in RegEntry
      <4>1. reg[r] \in RegEntry
        BY <3>1
      <4> QED BY <3>1, <4>1 DEF RegEntry
    <3> QED BY <2>1, <3>2 DEF RegTypes
  <2>4. Number_Result' \in Word /\ up_reg_v_ex' \in Vector(Writing)
    <3>1. CASE Committed.tp = "branch"
      <4>1. Number_Result' = Number_Result /\ up_reg_v_ex' = <<>>
        BY <1>7, <3>1 DEF CommitJump
      <4> QED BY <4>1 DEF Live, WsTypes, ResultTypes, Vector
    <3>2. CASE Committed.tp # "branch"
      <4>1. Number_Result' = Add(Committed.pc, INST_BYTES)
        BY <1>7, <3>2 DEF CommitJump
      <4>2. PICK w \in Writing : w = [rd |-> Committed.addr, tag |-> NO_ENTRY, value |-> Number_Result']
        BY <1>5, <2>1, <4>1 DEF Writing
      <4>3. up_reg_v_ex' = <<w>>
        BY <1>7, <3>2, <4>2 DEF CommitJump
      <4> QED BY <1>5, <2>1, <4>1, <4>3 DEF Vector
    <3> QED BY <3>1, <3>2
  <2>5. VectorTypes'
    BY <2>1, <2>4 DEF VectorTypes, Vector
  <2>6. ResultTypes'
    <3>1. NoResult \in Result
      BY WordArithmetic DEF NoResult, Result
    <3> QED BY <2>1, <2>4, <3>1 DEF ResultTypes
  <2>7. OtherTypes'
    <3>1. pc' \in Word /\ committed_pc' = pc'
      BY <1>5, <1>7, <2>1 DEF CommitJump
    <3> QED BY <1>1, <3>1 DEF Live, WsTypes, OtherTypes
  <2>8. WsTypes'
    BY <2>2, <2>3, <2>5, <2>6, <2>7 DEF WsTypes
  <2>9. Copies' /\ Prepared'
    BY <1>1, <2>1 DEF Copies, Prepared
  <2>10. Scheduled'
    <3>1. LSB \in QueueOf(LsbEntry) /\ (~isfull(LSB) \/ up_LSB = <<>>)
      BY DEF Live, WsTypes, BufferTypes, Prepared
    <3> QED BY <1>1, <1>2, <1>7, <3>1, CommitJumpStep DEF Live
  <2> QED BY <2>8, <2>9, <2>10 DEF Live
<1> QED BY <1>4, <1>6, <1>7 DEF Commit

\* At the start nothing is in flight.
LEMMA LiveStart ==
  ASSUME Init
  PROVE  Live
<1>1. /\ 0 \in Slot /\ 0 \in Word /\ 0 \in RegIndex /\ 0 \in Byte
  <2>1. 2^BYTE_BITS \in Nat /\ 2^BYTE_BITS >= 1
    BY BytePowers
  <2> QED BY <2>1, QueueAssumption, WordArithmetic, WordAssumption
          DEF Slot, QueueAssumption, RegIndex, WordAssumption, Byte
<1>2. /\ stage = "ROB_Run" /\ program \in Programs /\ pc = 0 /\ committed_pc = 0 /\ printed = 0
      /\ reg = [r \in RegIndex |-> [v |-> 0, q |-> 0, status |-> FALSE]] /\ reg_pre = reg
      /\ RS = NoStations /\ RS_pre = NoStations
      /\ ROB = EmptyQueue(EmptyRob) /\ ROB_pre = ROB
      /\ IQ = EmptyQueue(EmptyIq) /\ IQ_pre = IQ
      /\ LSB = EmptyQueue(EmptyLsb) /\ LSB_pre = LSB
      /\ EX_Run_ = <<>> /\ up_ROB = <<>> /\ up_RS = <<>> /\ up_LSB = <<>>
      /\ up_reg_q_ex = <<>> /\ up_reg_v_ex = <<>> /\ commit_ = <<>>
      /\ Number_ROB = NO_ENTRY /\ Number_Result = 0
      /\ EX_to_ROB = NoResult /\ LSB_to_ROB = NoResult /\ LSB_to_ROB_pre = NoResult
  BY DEF Init
<1>3. \A S : \A e \in S : /\ EmptyQueue(e) \in QueueOf(S)
                          /\ Held(EmptyQueue(e)) = {}
  <2>1. ASSUME NEW S, NEW e \in S PROVE EmptyQueue(e) \in QueueOf(S) /\ Held(EmptyQueue(e)) = {}
    <3>1. EmptyQueue(e) \in QueueOf(S) /\ isempty(EmptyQueue(e))
      BY <1>1 DEF EmptyQueue, QueueOf, isempty
    <3> QED BY <3>1, QueueAges
  <2> QED BY <2>1
<1>4. EmptyRob \in RobEntry
  BY <1>1 DEF EmptyRob, RobEntry
<1>5. EmptyLsb \in LsbEntry
  BY <1>1 DEF EmptyLsb, LsbEntry, Tag, LoadOps
<1>6. EmptyIq \in IqEntry
  BY <1>1 DEF EmptyIq, IqEntry, ZeroInstruction, Instructions, InnerInst
<1>7. NoStations \in [Slot -> RsEntry] /\ \A i \in Slot : ~NoStations[i].status
  BY <1>1 DEF NoStations, EmptyRs, RsEntry, Operations, Tag
<1>8. WsTypes
  <2>1. BufferTypes
    BY <1>2, <1>3, <1>4, <1>5, <1>6, <1>7 DEF BufferTypes
  <2>2. RegTypes
    BY <1>1, <1>2 DEF RegTypes, RegEntry
  <2>3. VectorTypes
    BY <1>2 DEF VectorTypes, Vector
  <2>4. ResultTypes
    BY <1>1, <1>2 DEF ResultTypes, Result, NoResult
  <2>5. OtherTypes
    <3>1. mem \in [Word -> Byte]
      BY DEF Init
    <3>2. program \in [Word -> Instructions]
      BY <1>2, ProgramAssumption DEF ProgramAssumption
    <3> QED BY <1>1, <1>2, <3>1, <3>2 DEF OtherTypes
  <2> QED BY <2>1, <2>2, <2>3, <2>4, <2>5 DEF WsTypes
<1>9. Copies /\ Prepared
  BY <1>2 DEF Copies, Prepared
<1>10. Scheduled
  <2>1. /\ RobSeen = ROB /\ LsbSeen = LSB /\ RsSeen = NoStations /\ RegSeen = reg
        /\ Held(ROB) = {} /\ Held(LSB) = {}
    BY <1>2, <1>3, <1>4, <1>5 DEF RobSeen, LsbSeen, RsSeen, RegSeen, RegWritten
  <2>2. \A s \in Slot : ~Flying(s) /\ ~Open(s)
    BY <2>1 DEF Flying, Open
  <2>3. \A s \in Slot : ~Left(s) /\ ~Telling(s) /\ ~InEx(s) /\ ~Computed(s) /\ ~Loaded(s)
    BY <1>2, Nothing DEF Left, Telling, Announced, InEx, Computed, Loaded, NoResult
  <2>4. \A s, i \in Slot : ~InRs(s, i) /\ ~InLsb(s, i)
    BY <1>7, <2>1, <2>2 DEF InRs, InLsb
  <2>5. LastOut
    BY <1>2, <2>3 DEF LastOut
  <2>6. Owned /\ Alone
    BY <2>3, <2>4 DEF Owned, Alone
  <2>7. Worked /\ StoresNotReady
    BY <2>2 DEF Worked, StoresNotReady, Unfinished
  <2>8. OperandsInRs
    BY <1>7, <2>1 DEF OperandsInRs
  <2>9. OperandsInLsb /\ Rounds /\ InOrder
    BY <2>1 DEF OperandsInLsb, Rounds, InOrder
  <2>10. Names
    <3>1. \A r \in RegIndex : ~RegSeen[r].status /\ ~reg[r].status
      BY <1>2, <2>1
    <3>2. \A s \in Slot, r \in RegIndex : ~Writes(s, r)
      BY <2>2 DEF Writes
    <3> QED BY <1>1, <3>1, <3>2 DEF Names, NamesNone
  <2> QED BY <2>5, <2>6, <2>7, <2>8, <2>9, <2>10 DEF Scheduled
<1> QED BY <1>8, <1>9, <1>10 DEF Live

\* The invariant holds at the start.
LEMMA WsInvStart == Init => WsInv
  BY LiveStart DEF Live, Scheduled, WsInv, Sched

\* Every call keeps it.
LEMMA WsInvStep == WsInv /\ [Next]_vars => WsInv'
<1> SUFFICES ASSUME WsInv, [Next]_vars PROVE WsInv'
  OBVIOUS
<1>1. CASE UNCHANGED vars
  <2>1. /\ UNCHANGED <<stage, program, pc, mem, reg, reg_pre, RS, RS_pre, ROB, ROB_pre, IQ, IQ_pre,
                       LSB, LSB_pre>>
        /\ UNCHANGED <<EX_Run_, up_ROB, up_RS, up_LSB, up_reg_q_ex, up_reg_v_ex, commit_>>
        /\ UNCHANGED <<Number_ROB, Number_Result, EX_to_ROB, LSB_to_ROB, LSB_to_ROB_pre, exited,
                       printed, committed_pc>>
    BY <1>1 DEF vars, regs, buffers, vectors, results, ended
  <2>2. WsTypes'
    BY <2>1 DEF WsInv, WsTypes, BufferTypes, RegTypes, VectorTypes, ResultTypes, OtherTypes
  <2>3. CASE exited = "no"
    <3>1. Live
      BY <2>3, WsInvLive
    <3>2. Copies' /\ Prepared'
      BY <2>1, <3>1 DEF Live, Copies, Prepared
    <3>3. /\ RobSeen' = RobSeen /\ LsbSeen' = LsbSeen /\ RsSeen' = RsSeen /\ RegSeen' = RegSeen
      BY <2>1 DEF RobSeen, LsbSeen, RsSeen, RegSeen, RegWritten
    <3>4. Scheduled'
      <4>1. Indices
        BY <3>1, IndicesHold DEF Live
      <4>2. SameOut /\ SameWork
        BY <2>1
           DEF SameOut, SameWork, Left, ToStations, Telling, Announced, InEx, Computed, Loaded
      <4>3. ~reg'[0].status
        BY <2>1, <3>1 DEF Live, Scheduled, Names
      <4> QED BY <2>1, <3>1, <3>3, <4>1, <4>2, <4>3, ViewStill DEF Live
    <3> QED BY <2>2, <3>2, <3>4 DEF WsInv, Sched, Scheduled
  <2> QED BY <2>1, <2>2, <2>3 DEF WsInv
<1>2. CASE ROB_Run_end
  <2>1. /\ UNCHANGED <<program, pc, mem, reg, reg_pre, RS, RS_pre, ROB, ROB_pre, IQ, IQ_pre, LSB, LSB_pre>>
        /\ UNCHANGED <<EX_Run_, up_ROB, up_RS, up_LSB, up_reg_q_ex, up_reg_v_ex, commit_>>
        /\ UNCHANGED <<Number_ROB, Number_Result, EX_to_ROB, LSB_to_ROB, LSB_to_ROB_pre, committed_pc>>
        /\ stage' = "IF_Run" /\ exited' = "end" /\ printed' = reg_pre[A0].v % 2^BYTE_BITS
    BY <1>2 DEF ROB_Run_end, Turn, regs, buffers, vectors, results
  <2>2. printed' \in Byte
    <3>1. PICK w \in Word : w = reg_pre[A0].v
      BY ProgramAssumption DEF ProgramAssumption, WsInv, WsTypes, RegTypes, RegEntry
    <3>2. 2^BYTE_BITS \in Nat /\ 2^BYTE_BITS >= 1 /\ w \in Int
      BY BytePowers, WordArithmetic
    <3>3. w % 2^BYTE_BITS \in 0 .. 2^BYTE_BITS - 1
      BY <3>2, Remainder
    <3> QED BY <2>1, <3>1, <3>3 DEF Byte
  <2>3. WsTypes'
    BY <2>1, <2>2 DEF WsInv, WsTypes, BufferTypes, RegTypes, VectorTypes, ResultTypes, OtherTypes
  <2> QED BY <2>1, <2>3 DEF WsInv
<1>3. ASSUME Next, ~ROB_Run_end
      PROVE  Live
  <2>1. exited = "no"
    BY <1>3
       DEF Next, Turn, ROB_Run, IF_Run, RS_Run, LSB_Run, REG_Run, Update, Execute, ISSUE_Run, Commit
  <2> QED BY <2>1, WsInvLive
<1>4. ASSUME Live' PROVE WsInv'
  BY <1>4 DEF Live, Scheduled, WsInv, Sched
<1>5. CASE ROB_Run
  BY <1>2, <1>3, <1>4, <1>5, RobTurn DEF Next
<1>6. CASE IF_Run
  BY <1>2, <1>3, <1>4, <1>6, FetchTurn DEF Next
<1>7. CASE RS_Run
  BY <1>2, <1>3, <1>4, <1>7, StationsTurn DEF Next
<1>8. CASE LSB_Run
  BY <1>2, <1>3, <1>8, AccessesTurn DEF Next
<1>9. CASE REG_Run
  BY <1>2, <1>3, <1>4, <1>9, RegistersTurn DEF Next
<1>10. CASE Update
  BY <1>2, <1>3, <1>4, <1>10, UpdateTurn DEF Next
<1>11. CASE Execute
  BY <1>2, <1>3, <1>4, <1>11, ExecuteTurn DEF Next
<1>12. CASE ISSUE_Run
  BY <1>2, <1>3, <1>4, <1>12, IssueTurn DEF Next
<1>13. CASE Commit
  BY <1>2, <1>3, <1>4, <1>13, CommitTurn DEF Next
<1> QED BY <1>1, <1>2, <1>5, <1>6, <1>7, <1>8, <1>9, <1>10, <1>11, <1>12, <1>13 DEF Next

\* The invariant holds in every state of every run, for every MAXN and every program.
THEOREM WsInvHolds == Spec => []WsInv
  BY WsInvStart, WsInvStep, PTL DEF Spec

(***************************************************************************)
(* What the runs check, where the loop starts over.                        *)
(***************************************************************************)
\* The vectors hold one element at most, and all that is kept is typed.
LEMMA WsTypeOK == WsTypes => TypeOK
<1> SUFFICES ASSUME WsTypes PROVE TypeOK
  OBVIOUS
<1>1. \A v \in {up_ROB, up_RS, up_LSB, up_reg_q_ex, up_reg_v_ex, EX_Run_, commit_} : Len(v) <= 1
  <2>1. ASSUME NEW S, NEW v \in Vector(S) PROVE Len(v) <= 1
    <3>1. CASE v = <<>>
      BY <3>1
    <3>2. CASE v # <<>>
      <4>1. PICK e \in S : v = <<e>>
        BY <3>2 DEF Vector
      <4> QED BY <4>1
    <3> QED BY <3>1, <3>2
  <2> QED BY <2>1 DEF WsTypes, VectorTypes
<1>2. /\ ROB \in QueueOf(RobEntry) /\ ROB_pre \in QueueOf(RobEntry)
      /\ LSB \in QueueOf(LsbEntry) /\ LSB_pre \in QueueOf(LsbEntry)
      /\ IQ \in QueueOf(IqEntry) /\ IQ_pre \in QueueOf(IqEntry)
      /\ reg \in [RegIndex -> RegEntry] /\ reg_pre \in [RegIndex -> RegEntry]
  BY DEF WsTypes, BufferTypes, RegTypes
<1>3. \A r \in {EX_to_ROB, LSB_to_ROB, LSB_to_ROB_pre} : r \in Result
  BY DEF WsTypes, ResultTypes
<1>4. pc \in Word /\ committed_pc \in Word /\ printed \in Byte /\ mem \in [Word -> Byte]
  BY DEF WsTypes, OtherTypes
<1> QED BY <1>1, <1>2, <1>3, <1>4, Zenon
           DEF TypeOK, RobEntry, LsbEntry, IqEntry, RegEntry, Result, Tag

\* Room that was found is there when it is used.
LEMMA WsNothingLost == WsInv => NothingLost
  BY DEF WsInv, Sched, Copies, Prepared, NothingLost

\* The view is what the properties speak of.
Top == WsTypes /\ Copies /\ Prepared /\ Scheduled /\ stage = "ROB_Run"

\* At the top of the loop the view is the buffers with what is about to enter them.
LEMMA TopView ==
  ASSUME Top
  PROVE  /\ \A s : s \in InFlight <=> s \in Slot /\ Flying(s)
         /\ \A s \in Slot : Flying(s) => Entered(s) = Of(s)
         /\ \A s \in Slot : Age(ROB, s) = RobAge(s)
         /\ \A e : e \in Stations <=> \E i \in Slot : RsSeen[i].status /\ e = RsSeen[i]
         /\ \A e : e \in Accesses <=> \E k \in Slot : k \in Held(LsbSeen) /\ e = AccessAt(k)
         /\ \A s \in Slot : /\ ~Left(s) /\ ~InEx(s)
                            /\ Announced(s) <=> Number_ROB = s
                            /\ Telling(s) <=> Number_ROB = s
                            /\ ToStations(s) <=> Number_ROB = s
                            /\ ToAccesses(s) <=> Number_ROB = s
                            /\ Computed(s) <=> EX_to_ROB.first = s
                            /\ Loaded(s) <=> LSB_to_ROB_pre.first = s
         /\ Number_ROB \in Slot \cup {NO_ENTRY}
         /\ Indices
<1>1. /\ stage = "ROB_Run" /\ commit_ = <<>> /\ EX_Run_ = <<>> /\ LSB_to_ROB_pre = LSB_to_ROB
      /\ up_ROB # <<>> => ~isfull(ROB)
      /\ up_RS # <<>> => find_empty(RS) # MAXN /\ Head(up_RS).status
      /\ up_LSB # <<>> => ~isfull(LSB)
  BY DEF Top, Copies, Prepared
<1>2. /\ ROB \in QueueOf(RobEntry) /\ LSB \in QueueOf(LsbEntry) /\ RS \in [Slot -> RsEntry]
      /\ up_ROB \in Vector(RobEntry) /\ up_RS \in Vector(RsEntry) /\ up_LSB \in Vector(LsbEntry)
      /\ Number_ROB \in Slot \cup {NO_ENTRY}
  BY DEF Top, WsTypes, BufferTypes, VectorTypes, ResultTypes
<1>3. /\ \A s : s \in InFlight <=> s \in Slot /\ Flying(s)
      /\ \A s \in Slot : Flying(s) => Entered(s) = Of(s)
      /\ \A s \in Slot : Age(ROB, s) = RobAge(s)
  <2>1. CASE up_ROB = <<>>
    BY <2>1 DEF InFlight, Entering, Entered, Flying, Of, RobAge, RobSeen, Held
  <2>2. CASE up_ROB # <<>>
    <3>1. PICK e \in RobEntry : e = Head(up_ROB)
      BY <1>2, <2>2 DEF Vector
    <3>2. RobSeen = push_back(ROB, e)
      BY <2>2, <3>1 DEF RobSeen
    <3> DEFINE b == push_back(ROB, e)
    <3>3. /\ \A s \in Slot : b.queue[s] = IF s = ROB.tail THEN e ELSE ROB.queue[s]
          /\ \A s : Age(b, s) = Age(ROB, s)
          /\ Held(b) = Held(ROB) \cup {ROB.tail}
      BY <1>1, <1>2, <2>2, QueuePush
    <3> HIDE DEF b
    <3>4. RobSeen = b /\ Entering = {ROB.tail} /\ ROB.tail \in Slot /\ \A s \in Held(ROB) : s \in Slot
      BY <1>2, <2>2, <3>2, QueueAges DEF Entering, b
    <3>5. \A s : s \in InFlight <=> s \in Slot /\ Flying(s)
      BY <3>3, <3>4 DEF InFlight, Flying
    <3>6. \A s \in Slot : Entered(s) = IF s = ROB.tail THEN e ELSE ROB.queue[s]
      BY <3>1, <3>4 DEF Entered
    <3> QED BY <3>3, <3>4, <3>5, <3>6 DEF Of, RobAge
  <2> QED BY <2>1, <2>2
<1>4. \A e : e \in Stations <=> \E i \in Slot : RsSeen[i].status /\ e = RsSeen[i]
  <2>1. CASE up_RS = <<>>
    <3>1. ToSet(up_RS) = {}
      BY <2>1 DEF ToSet
    <3> QED BY <2>1, <3>1 DEF Stations, RsSeen
  <2>2. CASE up_RS # <<>>
    <3>1. PICK x \in RsEntry : x = Head(up_RS) /\ up_RS = <<x>>
      BY <1>2, <2>2 DEF Vector
    <3>2. ToSet(up_RS) = {x}
      BY <3>1 DEF ToSet
    <3>3. PICK i \in Slot : i = find_empty(RS) /\ ~RS[i].status
      BY <1>1, <1>2, <2>2, Found
    <3>4. RsSeen = [RS EXCEPT ![i] = x]
      BY <2>2, <3>1, <3>3 DEF RsSeen
    <3>5. RsSeen[i] = x /\ x.status /\ \A j \in Slot : j # i => RsSeen[j] = RS[j]
      BY <1>1, <1>2, <2>2, <3>1, <3>4
    <3> QED BY <3>2, <3>3, <3>5 DEF Stations
  <2> QED BY <2>1, <2>2
<1>5. \A e : e \in Accesses <=> \E k \in Slot : k \in Held(LsbSeen) /\ e = AccessAt(k)
  <2>1. CASE up_LSB = <<>>
    <3>1. ToSet(up_LSB) = {}
      BY <2>1 DEF ToSet
    <3> QED BY <2>1, <3>1 DEF Accesses, LsbSeen, AccessAt, Held
  <2>2. CASE up_LSB # <<>>
    <3>1. PICK x \in LsbEntry : x = Head(up_LSB) /\ up_LSB = <<x>>
      BY <1>2, <2>2 DEF Vector
    <3>2. ToSet(up_LSB) = {x}
      BY <3>1 DEF ToSet
    <3> DEFINE b == push_back(LSB, x)
    <3>3. /\ \A s \in Slot : b.queue[s] = IF s = LSB.tail THEN x ELSE LSB.queue[s]
          /\ Held(b) = Held(LSB) \cup {LSB.tail}
      BY <1>1, <1>2, <2>2, QueuePush
    <3>4. LSB.tail \in Slot /\ \A s \in Held(LSB) : s \in Slot /\ s # LSB.tail
      BY <1>2, QueueAges
    <3>5. LsbSeen = b
      BY <2>2, <3>1 DEF LsbSeen
    <3> HIDE DEF b
    <3> QED BY <3>2, <3>3, <3>4, <3>5 DEF Accesses, AccessAt
  <2> QED BY <2>1, <2>2
<1>6. \A s \in Slot : /\ ~Left(s) /\ ~InEx(s)
                      /\ Announced(s) <=> Number_ROB = s
                      /\ Telling(s) <=> Number_ROB = s
                      /\ ToStations(s) <=> Number_ROB = s
                      /\ ToAccesses(s) <=> Number_ROB = s
                      /\ Computed(s) <=> EX_to_ROB.first = s
                      /\ Loaded(s) <=> LSB_to_ROB_pre.first = s
  BY <1>1 DEF Left, InEx, Announced, Telling, ToStations, ToAccesses, Computed, Loaded
<1>7. Indices
  BY IndicesHold DEF Top
<1> QED BY <1>2, <1>3, <1>4, <1>5, <1>6, <1>7

\* One place for each instruction that is not ready.
LEMMA TopWorkers == Top => OneWorkerEach
<1> SUFFICES ASSUME Top, NEW s \in InFlight, ~Entered(s).end
             PROVE  Cardinality({e \in Stations : e.idx = s})
                      + Cardinality({e \in Accesses : e.idx = s /\ ~e.commited})
                      + Flag(EX_to_ROB.first = s) + Flag(LSB_to_ROB_pre.first = s)
                    = IF Entered(s).ready THEN 0 ELSE 1
  BY DEF OneWorkerEach
<1> DEFINE A == {e \in Stations : e.idx = s}
           B == {e \in Accesses : e.idx = s /\ ~e.commited}
<1>1. s \in Slot /\ Flying(s) /\ ~Of(s).end /\ Entered(s) = Of(s)
  BY TopView
<1>2. Unfinished(s) <=> ~Entered(s).ready
  BY <1>1 DEF Unfinished
<1>3. /\ \A i \in Slot : InRs(s, i) => A = {RsSeen[i]}
      /\ (\A i \in Slot : ~InRs(s, i)) => A = {}
  <2>1. \A e : e \in A <=> \E i \in Slot : InRs(s, i) /\ e = RsSeen[i]
    BY TopView DEF InRs
  <2>2. \A i, j \in Slot : InRs(s, i) /\ InRs(s, j) => i = j
    BY <1>1 DEF Top, Scheduled, Alone
  <2> HIDE DEF A
  <2> QED BY <2>1, <2>2
<1>4. /\ \A k \in Slot : InLsb(s, k) => B = {AccessAt(k)}
      /\ (\A k \in Slot : ~InLsb(s, k)) => B = {}
  <2>1. \A e : e \in B <=> \E k \in Slot : InLsb(s, k) /\ e = AccessAt(k)
    BY TopView DEF InLsb, Open
  <2>2. \A i, j \in Slot : InLsb(s, i) /\ InLsb(s, j) => i = j
    BY <1>1 DEF Top, Scheduled, Alone
  <2> HIDE DEF B
  <2> QED BY <2>1, <2>2
<1>5. Cardinality({}) = 0 /\ \A x : Cardinality({x}) = 1
  BY FS_EmptySet, FS_Singleton
<1>6. /\ Flag(EX_to_ROB.first = s) = IF Computed(s) THEN 1 ELSE 0
      /\ Flag(LSB_to_ROB_pre.first = s) = IF Loaded(s) THEN 1 ELSE 0
  BY <1>1, TopView DEF Flag
<1>7. ~InEx(s) /\ ~Left(s) /\ ~Telling(s)
  BY <1>1, TopView DEF Top, Scheduled, LastOut
<1>8. \A i \in Slot : /\ InRs(s, i) => Unfinished(s) /\ ~Computed(s) /\ ~Loaded(s)
                      /\ InLsb(s, i) => Unfinished(s) /\ ~Computed(s) /\ ~Loaded(s)
  BY <1>1, <1>7 DEF Top, Scheduled, Owned, Alone
<1>9. /\ Computed(s) => Unfinished(s) /\ ~Loaded(s)
      /\ Loaded(s) => Unfinished(s)
      /\ \A i, k \in Slot : InRs(s, i) => ~InLsb(s, k)
  BY <1>1 DEF Top, Scheduled, Owned, Alone
<1>10. Unfinished(s) => \/ Computed(s) \/ Loaded(s)
                        \/ \E i \in Slot : InRs(s, i)
                        \/ \E k \in Slot : InLsb(s, k)
  BY <1>1, <1>7 DEF Top, Scheduled, Worked
<1>11. CASE ~Unfinished(s)
  <2>1. A = {} /\ B = {} /\ ~Computed(s) /\ ~Loaded(s)
    BY <1>3, <1>4, <1>8, <1>9, <1>11
  <2> HIDE DEF A, B
  <2>2. Cardinality(A) = 0 /\ Cardinality(B) = 0
    BY <1>5, <2>1
  <2> QED BY <1>2, <1>6, <1>11, <2>1, <2>2 DEF A, B
<1>12. CASE Unfinished(s) /\ \E i \in Slot : InRs(s, i)
  <2>1. PICK i \in Slot : InRs(s, i)
    BY <1>12
  <2>2. A = {RsSeen[i]} /\ B = {} /\ ~Computed(s) /\ ~Loaded(s)
    BY <1>3, <1>4, <1>8, <1>9, <2>1
  <2> HIDE DEF A, B
  <2>3. Cardinality(A) = 1 /\ Cardinality(B) = 0
    BY <1>5, <2>2
  <2> QED BY <1>2, <1>6, <1>12, <2>2, <2>3 DEF A, B
<1>13. CASE Unfinished(s) /\ \E k \in Slot : InLsb(s, k)
  <2>1. PICK k \in Slot : InLsb(s, k)
    BY <1>13
  <2>2. A = {} /\ B = {AccessAt(k)} /\ ~Computed(s) /\ ~Loaded(s)
    BY <1>3, <1>4, <1>8, <1>9, <2>1
  <2> HIDE DEF A, B
  <2>3. Cardinality(A) = 0 /\ Cardinality(B) = 1
    BY <1>5, <2>2
  <2> QED BY <1>2, <1>6, <1>13, <2>2, <2>3 DEF A, B
<1>14. CASE Unfinished(s) /\ (Computed(s) \/ Loaded(s))
  <2>1. A = {} /\ B = {} /\ (Computed(s) <=> ~Loaded(s))
    BY <1>3, <1>4, <1>8, <1>9, <1>14
  <2> HIDE DEF A, B
  <2>2. Cardinality(A) = 0 /\ Cardinality(B) = 0
    BY <1>5, <2>1
  <2> QED BY <1>2, <1>6, <1>14, <2>1, <2>2 DEF A, B
<1> QED BY <1>10, <1>11, <1>12, <1>13, <1>14

\* An operand that is missing is still to come.
LEMMA TopOperands == Top => OperandsStillToCome
<1> SUFFICES ASSUME Top
             PROVE  /\ \A e \in Stations : \A t \in {e.qi, e.qj} \ {NO_TAG} :
                         t = Number_ROB \/ (Older(t, e.idx) /\ Renames(t))
                    /\ \A e \in Accesses : \A t \in {e.q, e.q2} \ {NO_TAG} :
                         /\ ~e.commited /\ (e.op \in LoadOps \/ e.idx # Number_ROB)
                         /\ t = Number_ROB \/ (Older(t, e.idx) /\ Renames(t))
  BY DEF OperandsStillToCome
<1>1. /\ RsSeen \in [Slot -> RsEntry] /\ LsbSeen \in QueueOf(LsbEntry)
  BY ViewTypes DEF Top
<1>2. ASSUME NEW t \in Slot, NEW s \in Slot, Gives(t, s)
      PROVE  Older(t, s) /\ Renames(t)
  <2>1. t \in InFlight /\ Entered(t) = Of(t) /\ Age(ROB, t) = RobAge(t) /\ Age(ROB, s) = RobAge(s)
    BY <1>2, TopView DEF Gives
  <2> QED BY <1>2, <2>1 DEF Gives, Older, Renames
<1>3. ASSUME NEW e \in Stations, NEW t \in {e.qi, e.qj} \ {NO_TAG}
      PROVE  t = Number_ROB \/ (Older(t, e.idx) /\ Renames(t))
  <2>1. PICK i \in Slot : RsSeen[i].status /\ e = RsSeen[i]
    BY TopView
  <2>2. t \in Slot /\ e.idx \in Slot
    BY <1>1, <2>1 DEF RsEntry, Tag
  <2>3. Gives(t, e.idx) \/ ToStations(t)
    BY <2>1, <2>2 DEF Top, Scheduled, OperandsInRs
  <2> QED BY <1>2, <2>2, <2>3, TopView
<1>4. ASSUME NEW e \in Accesses, NEW t \in {e.q, e.q2} \ {NO_TAG}
      PROVE  /\ ~e.commited /\ (e.op \in LoadOps \/ e.idx # Number_ROB)
             /\ t = Number_ROB \/ (Older(t, e.idx) /\ Renames(t))
  <2>1. PICK k \in Slot : k \in Held(LsbSeen) /\ e = AccessAt(k)
    BY TopView
  <2>2. t \in Slot /\ e.idx \in Slot
    <3>1. e \in LsbEntry
      BY <1>1, <2>1 DEF QueueOf, AccessAt
    <3> QED BY <3>1 DEF LsbEntry, Tag
  <2>3. ~Left(e.idx)
    BY <2>2, TopView
  <2>4. ~e.commited /\ Flying(e.idx) /\ (Gives(t, e.idx) \/ ToAccesses(t))
    BY <2>1, <2>2, <2>3 DEF Top, Scheduled, OperandsInLsb, Open
  <2>5. e.idx # Number_ROB
    <3>1. Telling(e.idx) => ~Flying(e.idx)
      BY <2>2 DEF Top, Scheduled, LastOut
    <3> QED BY <2>2, <2>4, <3>1, TopView
  <2> QED BY <1>2, <2>2, <2>4, <2>5, TopView
<1> QED BY <1>3, <1>4

\* A register names the youngest that writes it.
LEMMA TopRegisters == Top => RegistersNameYoungest
<1> SUFFICES ASSUME Top PROVE RegistersNameYoungest
  OBVIOUS
<1>1. FoldLeft(Renamed, FoldLeft(Assigned, reg, up_reg_v_ex), up_reg_q_ex) = RegSeen
  <2>1. up_reg_v_ex \in Vector(Writing) /\ up_reg_q_ex \in Vector(Naming)
    BY DEF Top, WsTypes, VectorTypes
  <2>2. FoldLeft(Assigned, reg, up_reg_v_ex) = RegWritten
    BY <2>1, AssignedOne DEF RegWritten
  <2>3. FoldLeft(Renamed, RegWritten, up_reg_q_ex) = RegSeen
    BY <2>1, RenamedOne DEF RegSeen
  <2> QED BY <2>2, <2>3
<1>2. ASSUME NEW r \in RegIndex \ {0}
      PROVE  LET writers == {s \in InFlight : Renames(s) /\ Entered(s).addr = r}
             IN IF writers = {} THEN ~RegSeen[r].status
                ELSE RegSeen[r].status /\ RegSeen[r].q \in writers
                       /\ \A s \in writers : s = RegSeen[r].q \/ Older(s, RegSeen[r].q)
  <2> DEFINE writers == {s \in InFlight : Renames(s) /\ Entered(s).addr = r}
  <2>1. PICK q \in Slot : q = RegSeen[r].q
    BY TopView DEF Indices
  <2>2. \A s : s \in writers <=> s \in Slot /\ Writes(s, r)
    <3>1. ASSUME NEW s, s \in writers PROVE s \in Slot /\ Writes(s, r)
      <4>1. s \in Slot /\ Flying(s) /\ Entered(s) = Of(s)
        BY <3>1, TopView
      <4> QED BY <3>1, <4>1 DEF Renames, Writes
    <3>2. ASSUME NEW s \in Slot, Writes(s, r) PROVE s \in writers
      <4>1. s \in InFlight /\ Entered(s) = Of(s)
        BY <3>2, TopView DEF Writes
      <4> QED BY <3>2, <4>1 DEF Renames, Writes
    <3> QED BY <3>1, <3>2
  <2>3. \A s \in Slot : /\ Age(ROB, s) = RobAge(s)
                        /\ Writes(s, r) => s \in InFlight
    BY <2>2, TopView DEF Writes
  <2> HIDE DEF writers
  <2>4. CASE NamesYoungest(r)
    <3>1. /\ RegSeen[r].status /\ Writes(q, r)
          /\ \A s \in Slot : Writes(s, r) /\ s # q => RobAge(s) < RobAge(q)
      BY <2>1, <2>4 DEF NamesYoungest
    <3>2. q \in writers /\ \A s \in writers : s = q \/ Older(s, q)
      BY <2>2, <2>3, <3>1 DEF Older
    <3>3. IF writers = {} THEN ~RegSeen[r].status
          ELSE RegSeen[r].status /\ RegSeen[r].q \in writers
                 /\ \A s \in writers : s = RegSeen[r].q \/ Older(s, RegSeen[r].q)
      BY <2>1, <3>1, <3>2
    <3> QED BY <3>3 DEF writers
  <2>5. CASE NamesNone(r)
    <3>1. ~RegSeen[r].status
      BY <2>1, <2>5, TopView DEF NamesNone
    <3>2. writers = {}
      BY <2>2, <2>5 DEF NamesNone
    <3>3. IF writers = {} THEN ~RegSeen[r].status
          ELSE RegSeen[r].status /\ RegSeen[r].q \in writers
                 /\ \A s \in writers : s = RegSeen[r].q \/ Older(s, RegSeen[r].q)
      BY <3>1, <3>2
    <3> QED BY <3>3 DEF writers
  <2> QED BY <2>4, <2>5 DEF Top, Scheduled, Names
<1> QED BY <1>1, <1>2 DEF RegistersNameYoungest

\* The committed stores come first, and what follows is in the order of the program.
LEMMA TopAccesses == Top => AccessesInProgramOrder
<1> SUFFICES ASSUME Top, NEW j \in DOMAIN Visited(LSB), NEW k \in DOMAIN Visited(LSB), j < k
             PROVE  LET order == Visited(LSB)
                        done(i) == LSB.queue[order[i]].commited
                                     \/ (LSB.queue[order[i]].op \in StoreOps
                                           /\ LSB.queue[order[i]].idx = Number_ROB)
                    IN \/ done(j)
                       \/ /\ ~done(k)
                          /\ Older(LSB.queue[order[j]].idx, LSB.queue[order[k]].idx)
  BY DEF AccessesInProgramOrder
<1>1. LSB \in QueueOf(LsbEntry)
  BY DEF Top, WsTypes, BufferTypes
<1>2. PICK x \in Slot, y \in Slot :
        /\ x = Visited(LSB)[j] /\ y = Visited(LSB)[k] /\ x \in Held(LSB) /\ y \in Held(LSB)
        /\ Age(LSB, x) = j - 1 /\ Age(LSB, y) = k - 1
  <2>1. \A s \in Held(LSB) : s \in Slot
    BY <1>1, QueueAges
  <2> QED BY <1>1, <2>1, VisitedAges
<1>3. j \in Nat /\ k \in Nat
  <2>1. DOMAIN Visited(LSB) = 1 .. Age(LSB, LSB.tail) /\ Age(LSB, LSB.tail) \in 0 .. MAXN - 1
    BY <1>1, VisitedAges, QueueAges
  <2> QED BY <2>1
<1>4. /\ \A s : Age(LsbSeen, s) = Age(LSB, s)
      /\ \A s \in Held(LSB) : s \in Held(LsbSeen) /\ AccessAt(s) = LSB.queue[s]
  <2>1. CASE up_LSB = <<>>
    BY <2>1 DEF LsbSeen, AccessAt
  <2>2. CASE up_LSB # <<>>
    <3>1. PICK a \in LsbEntry : a = Head(up_LSB)
      BY <2>2 DEF Top, WsTypes, VectorTypes, Vector
    <3>2. LsbSeen = push_back(LSB, a) /\ ~isfull(LSB)
      BY <2>2, <3>1 DEF LsbSeen, Top, Prepared
    <3>3. \A s \in Held(LSB) : s \in Slot /\ s # LSB.tail
      BY <1>1, QueueAges
    <3> QED BY <1>1, <3>2, <3>3, QueuePush DEF AccessAt
  <2> QED BY <2>1, <2>2
<1>5. PICK a \in Slot, b \in Slot : a = AccessAt(x).idx /\ b = AccessAt(y).idx
  BY TopView DEF Indices
<1>6. /\ x \in Held(LsbSeen) /\ y \in Held(LsbSeen) /\ Age(LsbSeen, x) < Age(LsbSeen, y)
      /\ AccessAt(x) = LSB.queue[x] /\ AccessAt(y) = LSB.queue[y]
  BY <1>2, <1>3, <1>4
<1>7. \/ AccessAt(x).commited
      \/ ~AccessAt(y).commited /\ \/ Paid(x) /\ Flying(b)
                                  \/ Flying(a) /\ Flying(b) /\ RobAge(a) < RobAge(b)
  <2>1. ~Left(b)
    BY TopView
  <2> QED BY <1>5, <1>6, <2>1 DEF Top, Scheduled, InOrder
<1>8. Paid(x) => AccessAt(x).commited \/ (AccessAt(x).op \in StoreOps /\ a = Number_ROB)
  BY <1>5, TopView DEF Paid
<1>9. Flying(b) => b # Number_ROB
  BY TopView DEF Top, Scheduled, LastOut
<1>10. Flying(a) /\ RobAge(a) < RobAge(b) => Older(a, b)
  BY TopView DEF Older
<1> QED BY <1>2, <1>5, <1>6, <1>7, <1>8, <1>9, <1>10

\* A property that speaks of the top of the loop follows from the invariant there.
LEMMA AtTopTop == WsInv /\ AtTop => Top
  BY DEF WsInv, Sched, Scheduled, AtTop, Top

\* Every buffer, register and word keeps its type, and no vector of CPU.cpp ever holds two
\* elements, of which RS_Run (CPU.cpp:843) and Execute would look at one.
THEOREM TypesAlwaysHold == Spec => []TypeOK
<1>1. WsInv => TypeOK
  BY WsTypeOK DEF WsInv
<1> QED BY <1>1, WsInvHolds, PTL

\* The buffer that takes an issued instruction has room for it: the instruction is neither
\* dropped by the test of ROB_Run (CPU.cpp:1007) nor written over another (CPU.cpp:843, 1040).
THEOREM NothingIsLost == Spec => []NothingLost
  BY WsNothingLost, WsInvHolds, PTL

\* An instruction in flight whose result is missing is in exactly one place: none is dropped
\* by the stages that hand it on, and none is done twice (CPU.cpp: RS_Run, LSB_Run, Execute).
THEOREM WorkersAlwaysAlone == Spec => []OneWorkerEach
<1>1. WsInv => OneWorkerEach
  BY AtTopTop, TopWorkers DEF OneWorkerEach
<1> QED BY <1>1, WsInvHolds, PTL

\* An operand that a station or an access waits for is still to come (CPU.cpp: ISSUE_Run reads
\* the registers as Update copied them, while Commit tells a result once): nothing waits forever
\* for a result that was already told.
THEOREM OperandsAlwaysCome == Spec => []OperandsStillToCome
<1>1. WsInv => OperandsStillToCome
  BY AtTopTop, TopOperands DEF OperandsStillToCome
<1> QED BY <1>1, WsInvHolds, PTL

\* A register names the youngest instruction in flight that writes it, and none if there is
\* none: neither the reuse of an entry nor Clear leaves another name behind (CPU.cpp: REG_Run).
THEOREM RegistersAlwaysName == Spec => []RegistersNameYoungest
<1>1. WsInv => RegistersNameYoungest
  BY AtTopTop, TopRegisters DEF RegistersNameYoungest
<1> QED BY <1>1, WsInvHolds, PTL

\* The load store buffer holds the committed stores and behind them the accesses in flight in
\* program order: what LSB::clear keeps is a prefix of it (LSB.hpp, CPU.cpp: LSB_Run).
THEOREM AccessesStayInOrder == Spec => []AccessesInProgramOrder
<1>1. WsInv => AccessesInProgramOrder
  BY AtTopTop, TopAccesses DEF AccessesInProgramOrder
<1> QED BY <1>1, WsInvHolds, PTL
=============================================================================
