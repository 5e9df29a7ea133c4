---------------------------- MODULE DecodingProofs ----------------------------
(***************************************************************************)
(* The decoders, for every line that can be written.  A word is a set of   *)
(* places, so that each statement is an equality of sets, shown place by   *)
(* place.  First the three decoders' immediates agree on every word; then  *)
(* the word of a line is taken apart: which place belongs to which field,  *)
(* what a number or an immediate put there is read back as, and which      *)
(* operation the opcode, funct3 and the places above rs2 stand for.        *)
(***************************************************************************)
EXTENDS Assembly, TLAPS

\* The immediate of an I instruction: a sum of bits on one side, sign extension on the other.
LEMMA AgreeI ==
  ASSUME NEW t \in Words
  PROVE  immI(t) = get_immediate(t, "I") /\ immI(t) = Imm_I(t)
  <1>1. immI(t) = get_immediate(t, "I")
    BY DEF immI, get_immediate, Copies, Slice, If
  <1>2. 11 \in Gather(t, 20, 31) <=> 31 \in t
    BY DEF Gather, Shr, Words, Places
  <1>3. Gather(t, 20, 31) \cap If(11 \in Gather(t, 20, 31), 12 .. 31) = {}
    BY DEF Gather, Shr, If
  <1>4. immI(t) = Imm_I(t)
    BY <1>2, <1>3 DEF immI, Imm_I, Copies, Slice, If, Plus, Gather
  <1> QED BY <1>1, <1>4

\* The immediate of a store.
LEMMA AgreeS ==
  ASSUME NEW t \in Words
  PROVE  immS(t) = get_immediate(t, "S") /\ immS(t) = Imm_S(t)
  <1> DEFINE top  == Shr(t \cap (25 .. 31), 25)
             low  == Shr(t \cap (7 .. 11), 7)
             high == Shl(top, 5)
             sign == IF 31 \in t THEN 12 .. 31 ELSE {}
  <1>1. low = {i \in 0 .. 4 : i + 7 \in t} /\ top = {i \in 0 .. 6 : i + 25 \in t}
    BY DEF Shr, Words, Places
  <1>2. Shr(t \cap (25 .. 31), 20) = {i \in 5 .. 11 : i + 20 \in t}
    BY DEF Shr, Words, Places
  <1> HIDE DEF top, low
  <1>3. high = {i \in 5 .. 11 : i + 20 \in t}
    BY <1>1 DEF Shl, Places
  <1> HIDE DEF high
  <1>4. get_immediate(t, "S") = high \cup low \cup sign
    BY <1>2, <1>3 DEF get_immediate, low, If
  <1>5. immS(t) = high \cup low \cup sign
    BY DEF immS, Copies, Slice, If, low, high, top
  <1>6. /\ low \cap high = {} /\ (11 \in low \cup high <=> 31 \in t)
        /\ (low \cup high) \cap sign = {}
    BY <1>1, <1>3
  <1>7. Imm_S(t) = Plus(Plus(low, high), If(11 \in Plus(low, high), 12 .. 31))
    BY DEF Imm_S, Gather, low, high, top
  <1>8. Plus(low, high) = low \cup high
    BY <1>6 DEF Plus
  <1>9. Imm_S(t) = low \cup high \cup sign
    BY <1>6, <1>7, <1>8 DEF Plus, If
  <1> QED BY <1>4, <1>5, <1>9

\* The immediate of a branch.
LEMMA AgreeB ==
  ASSUME NEW t \in Words
  PROVE  immB(t) = get_immediate(t, "B") /\ immB(t) = Imm_B(t)
  <1> DEFINE top     == Shr(t \cap (25 .. 30), 25)
             bottom  == Shr(t \cap (8 .. 11), 8)
             seventh == IF 7 \in t THEN {11} ELSE {}
             low     == Shl(bottom, 1)
             high    == Shl(top, 5)
             sign    == IF 31 \in t THEN 12 .. 31 ELSE {}
  <1>1. top = {i \in 0 .. 5 : i + 25 \in t} /\ bottom = {i \in 0 .. 3 : i + 8 \in t}
    BY DEF Shr, Words, Places
  <1>2. /\ Shr(t \cap (8 .. 11), 7) = {i \in 1 .. 4 : i + 7 \in t}
        /\ Shr(t \cap (25 .. 30), 20) = {i \in 5 .. 10 : i + 20 \in t}
    BY DEF Shr, Words, Places
  <1> HIDE DEF top, bottom
  <1>3. low = {i \in 1 .. 4 : i + 7 \in t} /\ high = {i \in 5 .. 10 : i + 20 \in t}
    <2>1. low = {i \in 1 .. 4 : i + 7 \in t}
      BY <1>1 DEF Shl, Places
    <2>2. high = {i \in 5 .. 10 : i + 20 \in t}
      BY <1>1 DEF Shl, Places
    <2> QED BY <2>1, <2>2
  <1> HIDE DEF low, high
  <1>4. Shl(t \cap {7}, 4) = seventh
    BY DEF Shl, Places, Words
  <1>5. Shl(Shr(t \cap (7 .. 7), 7), 11) = seventh
    <2>1. Shr(t \cap (7 .. 7), 7) = IF 7 \in t THEN {0} ELSE {}
      BY DEF Shr, Words, Places
    <2>2. Shl({0}, 11) = {11} /\ Shl({}, 11) = {}
      BY DEF Shl, Places
    <2> QED BY <2>1, <2>2
  <1>6. get_immediate(t, "B") = high \cup low \cup seventh \cup sign
    BY <1>2, <1>3, <1>4 DEF get_immediate, If
  <1>7. immB(t) = high \cup low \cup seventh \cup sign
    BY <1>5 DEF immB, Copies, Slice, If, low, high, top, bottom
  <1>8. /\ seventh \cap low = {} /\ (seventh \cup low) \cap high = {}
        /\ (seventh \cup low \cup high) \cap sign = {}
    BY <1>3
  <1>9. Imm_B(t) = Plus(Plus(Plus(seventh, low), high), sign)
    BY <1>2, <1>3 DEF Imm_B, Gather, If, high, top
  <1>10. Imm_B(t) = high \cup low \cup seventh \cup sign
    BY <1>8, <1>9 DEF Plus
  <1> QED BY <1>6, <1>7, <1>10

\* The immediate of LUI and AUIPC.
LEMMA AgreeU ==
  ASSUME NEW t \in Words
  PROVE  immU(t) = get_immediate(t, "U") /\ immU(t) = Imm_U(t)
  <1> DEFINE top == Shr(t \cap (12 .. 31), 12)
  <1>1. top = {i \in 0 .. 19 : i + 12 \in t}
    BY DEF Shr, Words, Places
  <1> HIDE DEF top
  <1>2. Shl(top, 12) = {i \in 12 .. 31 : i + 0 \in t}
    <2>1. ASSUME NEW i \in Shl(top, 12)
          PROVE  i \in 12 .. 31 /\ i + 0 \in t
      <3>1. PICK j \in top : i = j + 12 /\ j + 12 \in Places
        BY DEF Shl
      <3> QED BY <1>1, <3>1 DEF Places
    <2>2. ASSUME NEW i \in 12 .. 31, i + 0 \in t
          PROVE  i \in Shl(top, 12)
      <3>1. i - 12 \in top /\ (i - 12) + 12 = i /\ i \in Places
        BY <1>1, <2>2 DEF Places
      <3>2. PICK j \in top : j + 12 = i
        BY <3>1
      <3> QED BY <3>1, <3>2 DEF Shl
    <2> QED BY <2>1, <2>2
  <1>3. @ = t \cap (12 .. 31)
    OBVIOUS
  <1> QED BY <1>2, <1>3 DEF immU, Slice, get_immediate, Imm_U, top

\* The immediate of JAL.
LEMMA AgreeJ ==
  ASSUME NEW t \in Words
  PROVE  immJ(t) = get_immediate(t, "J") /\ immJ(t) = Imm_J(t)
  <1> DEFINE top       == Shr(t \cap (21 .. 30), 21)
             between   == Shr(t \cap (12 .. 19), 12)
             twentieth == IF 20 \in t THEN {11} ELSE {}
             low       == Shl(top, 1)
             middle    == t \cap (12 .. 19)
             sign      == IF 31 \in t THEN 20 .. 31 ELSE {}
  <1>1. top = {i \in 0 .. 9 : i + 21 \in t} /\ between = {i \in 0 .. 7 : i + 12 \in t}
    BY DEF Shr, Words, Places
  <1>2. Shr(t \cap (21 .. 30), 20) = {i \in 1 .. 10 : i + 20 \in t}
    BY DEF Shr, Words, Places
  <1> HIDE DEF top, between
  <1>3. low = {i \in 1 .. 10 : i + 20 \in t} /\ Shl(between, 12) = middle
    <2>1. low = {i \in 1 .. 10 : i + 20 \in t}
      <3>1. \A j \in top : j \in 0 .. 9 /\ j + 21 \in t
        BY <1>1
      <3>2. \A i \in low : i \in 1 .. 10 /\ i + 20 \in t
        BY <3>1 DEF Shl
      <3>3. ASSUME NEW i \in 1 .. 10, i + 20 \in t
            PROVE  i \in low
        <4>1. i - 1 \in top /\ (i - 1) + 1 = i
          BY <1>1, <3>3
        <4> QED BY <4>1 DEF Shl, Places
      <3> QED BY <3>2, <3>3
    <2>2. Shl(between, 12) = {i \in 12 .. 19 : i + 0 \in t}
      BY <1>1 DEF Shl, Places
    <2> QED BY <2>1, <2>2
  <1> HIDE DEF low
  <1>4. Shr(t \cap {20}, 9) = twentieth
    BY DEF Shr, Words, Places
  <1>5. Shl(Shr(t \cap (20 .. 20), 20), 11) = twentieth
    <2>1. Shr(t \cap (20 .. 20), 20) = IF 20 \in t THEN {0} ELSE {}
      BY DEF Shr, Words, Places
    <2>2. Shl({0}, 11) = {11} /\ Shl({}, 11) = {}
      BY DEF Shl, Places
    <2> QED BY <2>1, <2>2
  <1>6. get_immediate(t, "J") = low \cup middle \cup twentieth \cup sign
    BY <1>2, <1>3, <1>4 DEF get_immediate, If
  <1>7. immJ(t) = low \cup middle \cup twentieth \cup sign
    BY <1>3, <1>5 DEF immJ, Copies, Slice, If, low, top, between
  <1>8. /\ middle \cap twentieth = {} /\ (middle \cup twentieth) \cap low = {}
        /\ (middle \cup twentieth \cup low) \cap sign = {}
    BY <1>3
  <1>9. Imm_J(t) = Plus(Plus(Plus(middle, twentieth), low), sign)
    BY <1>2, <1>3 DEF Imm_J, If
  <1>10. Imm_J(t) = low \cup middle \cup twentieth \cup sign
    BY <1>8, <1>9 DEF Plus
  <1> QED BY <1>6, <1>7, <1>10

(***************************************************************************)
(* The word of a line has 32 bits.                                         *)
(***************************************************************************)
LEMMA ShlIsWord ==
  ASSUME NEW w, NEW n \in Nat
  PROVE  Shl(w, n) \in Words
  BY DEF Shl, Words

\* The instruction being decoded is a set of bits of a word.
LEMMA WordIsWord == word \in Words
  <1> DEFINE fixed == Bits(Opcode(op))
             funct3 == If(Format(op) \notin {"U", "J"}, Shl(Bits(Funct3(op)), 12))
             funct7 == If(op \in {"SUB", "SRA"}, {30})
             to     == If(HasRd(op), Shl(Bits(rd), 7))
             first  == If(HasRs1(op), Shl(Bits(rs1), 15))
             second == If(HasRs2(op), Shl(Bits(rs2), 20))
             put    == CASE Format(op) = "I" -> PutI(line.imm)
                         [] Format(op) = "S" -> PutS(line.imm)
                         [] Format(op) = "B" -> PutB(line.imm)
                         [] Format(op) = "U" -> PutU(line.imm)
                         [] Format(op) = "J" -> PutJ(line.imm)
                         [] OTHER            -> {}
  <1>1. fixed \in Words /\ {30} \in Words
    BY DEF Bits, Words, Places
  <1>2. funct3 \in Words /\ funct7 \in Words
    BY <1>1, ShlIsWord DEF If, Words
  <1>3. to \in Words /\ first \in Words /\ second \in Words
    BY ShlIsWord DEF If, Words
  <1>4. PutI(line.imm) \in Words /\ PutU(line.imm) \in Words
    BY ShlIsWord DEF PutI, PutU, Words, Places
  <1>5. Shr(line.imm \cap {11}, 4) \in Words
    BY DEF Shr, Words, Places
  <1>6. PutS(line.imm) \in Words
    BY ShlIsWord DEF PutS, Words
  <1>7. PutB(line.imm) \in Words
    BY <1>5, ShlIsWord DEF PutB, Words
  <1>8. PutJ(line.imm) \in Words
    BY ShlIsWord DEF PutJ, Words, Places
  <1> HIDE DEF fixed, funct3, funct7, to, first, second
  <1>9. put \in Words
    <2>1. {} \in Words
      BY DEF Words
    <2> QED BY <2>1, <1>4, <1>6, <1>7, <1>8
  <1> HIDE DEF put
  <1>10. word = fixed \cup funct3 \cup funct7 \cup to \cup first \cup second \cup put
    BY DEF word, line, Assembled, fixed, funct3, funct7, to, first, second, put
  <1> QED BY <1>1, <1>2, <1>3, <1>9, <1>10 DEF Words

(***************************************************************************)
(* Decoder.v, sequent_execute.cpp and translate.hpp give every word the    *)
(* same immediates, and translate.hpp's sums never carry.                  *)
(***************************************************************************)
THEOREM DecodersAgree == Spec => []ImmediatesAgree
  <1>1. ImmediatesAgree
    BY WordIsWord, AgreeI, AgreeS, AgreeB, AgreeU, AgreeJ DEF ImmediatesAgree
  <1> QED BY <1>1, PTL

\* A number is read back from its bits.
LEMMA NumberOfBits ==
  ASSUME NEW n \in 0 .. 127
  PROVE  Number(Bits(n)) = n
<1> DEFINE D(k) == (n \div k) % 2
<1>1. /\ 0 \in Bits(n) <=> D(1) = 1
      /\ 1 \in Bits(n) <=> D(2) = 1
      /\ 2 \in Bits(n) <=> D(4) = 1
      /\ 3 \in Bits(n) <=> D(8) = 1
      /\ 4 \in Bits(n) <=> D(16) = 1
      /\ 5 \in Bits(n) <=> D(32) = 1
      /\ 6 \in Bits(n) <=> D(64) = 1
  BY DEF Bits
<1>2. n = D(1) + 2 * D(2) + 4 * D(4) + 8 * D(8) + 16 * D(16) + 32 * D(32) + 64 * D(64)
  OBVIOUS
<1>3. \A k \in {1, 2, 4, 8, 16, 32, 64} : D(k) \in {0, 1}
  OBVIOUS
<1> HIDE DEF D
<1> QED BY <1>1, <1>2, <1>3 DEF Number

\* A number has as many bits as it needs.
LEMMA BitsBelow ==
  /\ \A n \in 0 .. 127 : Bits(n) \subseteq 0 .. 6
  /\ \A n \in 0 .. 31 : Bits(n) \subseteq 0 .. 4
  /\ \A n \in 0 .. 7 : Bits(n) \subseteq 0 .. 2
<1>1. ASSUME NEW n \in 0 .. 31 PROVE Bits(n) \subseteq 0 .. 4
  <2>1. (n \div 32) % 2 = 0 /\ (n \div 64) % 2 = 0
    OBVIOUS
  <2> QED BY <2>1 DEF Bits
<1>2. ASSUME NEW n \in 0 .. 7 PROVE Bits(n) \subseteq 0 .. 2
  <2>1. (n \div 8) % 2 = 0 /\ (n \div 16) % 2 = 0 /\ (n \div 32) % 2 = 0 /\ (n \div 64) % 2 = 0
    OBVIOUS
  <2> QED BY <2>1 DEF Bits
<1> QED BY <1>1, <1>2 DEF Bits

\* The lines there are.
LineInv == /\ op \in Ops
           /\ rd \in 0 .. 31 /\ rs1 \in 0 .. 31 /\ rs2 \in 0 .. 31
           /\ bits \subseteq FreeBits(op)

\* Every line of a behaviour is one that can be written.
LEMMA LinesStay == Spec => []LineInv
<1>1. Init => LineInv
  BY AssemblyAssumption DEF Init, LineInv, AssemblyAssumption, Ops, ArithImmOps
<1>2. LineInv /\ [Next]_vars => LineInv'
  <2> SUFFICES ASSUME LineInv, [Next]_vars PROVE LineInv'
    OBVIOUS
  <2>1. CASE ChangeOp
    BY <2>1 DEF ChangeOp, LineInv
  <2>2. CASE ChangeRegister
    BY <2>2, AssemblyAssumption DEF ChangeRegister, LineInv, AssemblyAssumption
  <2>3. CASE FlipBit
    BY <2>3 DEF FlipBit, LineInv
  <2>4. CASE UNCHANGED vars
    BY <2>4 DEF vars, LineInv
  <2> QED BY <2>1, <2>2, <2>3, <2>4 DEF Next
<1> QED BY <1>1, <1>2, PTL DEF Spec

(***************************************************************************)
(* The word of a line, place by place.                                     *)
(***************************************************************************)
Put == CASE Format(op) = "I" -> PutI(line.imm)
         [] Format(op) = "S" -> PutS(line.imm)
         [] Format(op) = "B" -> PutB(line.imm)
         [] Format(op) = "U" -> PutU(line.imm)
         [] Format(op) = "J" -> PutJ(line.imm)
         [] OTHER            -> {}

\* What is moved up is found that many places higher.
LEMMA ShlMoves ==
  ASSUME NEW w \in SUBSET Int, NEW n \in Nat
  PROVE  \A i \in Places : i \in Shl(w, n) <=> i - n \in w
<1>1. ASSUME NEW i \in Places, i - n \in w PROVE i \in Shl(w, n)
  <2>1. (i - n) + n = i
    BY DEF Places
  <2> QED BY <1>1, <2>1 DEF Shl
<1>2. ASSUME NEW i \in Places, i \in Shl(w, n) PROVE i - n \in w
  <2>1. PICK j \in w : i = j + n
    BY <1>2 DEF Shl
  <2>2. i - n = j
    BY <2>1 DEF Places
  <2> QED BY <2>1, <2>2
<1> QED BY <1>1, <1>2

\* What is moved down is found that many places lower.
LEMMA ShrMoves ==
  ASSUME NEW w \in SUBSET Int, NEW n \in Nat
  PROVE  \A i \in Nat : i \in Shr(w, n) <=> i + n \in w
<1>1. ASSUME NEW i \in Nat, i + n \in w PROVE i \in Shr(w, n)
  <2>1. (i + n) - n = i /\ i + n >= n
    OBVIOUS
  <2> QED BY <1>1, <2>1 DEF Shr
<1>2. ASSUME NEW i \in Nat, i \in Shr(w, n) PROVE i + n \in w
  <2>1. PICK j \in w : i = j - n
    BY <1>2 DEF Shr
  <2> QED BY <2>1
<1> QED BY <1>1, <1>2

\* Which of its parts put a one bit at a place of the word.
LEMMA WordPlaces ==
  \A i \in Places :
    i \in word <=> \/ i \in Bits(Opcode(op))
                   \/ Format(op) \notin {"U", "J"} /\ i - 12 \in Bits(Funct3(op))
                   \/ op \in {"SUB", "SRA"} /\ i = 30
                   \/ HasRd(op) /\ i - 7 \in Bits(rd)
                   \/ HasRs1(op) /\ i - 15 \in Bits(rs1)
                   \/ HasRs2(op) /\ i - 20 \in Bits(rs2)
                   \/ i \in Put
<1> DEFINE fixed == Bits(Opcode(op))
           funct3 == If(Format(op) \notin {"U", "J"}, Shl(Bits(Funct3(op)), 12))
           funct7 == If(op \in {"SUB", "SRA"}, {30})
           to     == If(HasRd(op), Shl(Bits(rd), 7))
           first  == If(HasRs1(op), Shl(Bits(rs1), 15))
           second == If(HasRs2(op), Shl(Bits(rs2), 20))
<1>1. word = fixed \cup funct3 \cup funct7 \cup to \cup first \cup second \cup Put
  BY DEF word, line, Assembled, Put
<1>2. \A n : Bits(n) \in SUBSET Int
  BY DEF Bits
<1>3. ASSUME NEW i \in Places
      PROVE  /\ i \in funct3 <=> Format(op) \notin {"U", "J"} /\ i - 12 \in Bits(Funct3(op))
             /\ i \in to <=> HasRd(op) /\ i - 7 \in Bits(rd)
             /\ i \in first <=> HasRs1(op) /\ i - 15 \in Bits(rs1)
             /\ i \in second <=> HasRs2(op) /\ i - 20 \in Bits(rs2)
             /\ i \in funct7 <=> op \in {"SUB", "SRA"} /\ i = 30
  BY <1>2, ShlMoves DEF If
<1> HIDE DEF fixed, funct3, funct7, to, first, second
<1> QED BY <1>1, <1>3 DEF fixed

\* What the formats are, operation by operation.
LEMMA Formats ==
  /\ \A o \in {"LUI", "AUIPC"} : Format(o) = "U"
  /\ Format("JAL") = "J"
  /\ \A o \in BranchOps : Format(o) = "B"
  /\ \A o \in StoreOps : Format(o) = "S"
  /\ \A o \in ArithOps : Format(o) = "R"
  /\ \A o \in {"JALR"} \cup LoadOps \cup ArithImmOps : Format(o) = "I"
BY DEF Format, BranchOps, StoreOps, ArithOps, LoadOps, ArithImmOps, ShiftImmOps

\* The opcodes, operation by operation.
LEMMA Opcodes ==
  /\ Opcode("LUI") = 55 /\ Opcode("AUIPC") = 23 /\ Opcode("JAL") = 111 /\ Opcode("JALR") = 103
  /\ \A o \in BranchOps : Opcode(o) = 99
  /\ \A o \in LoadOps : Opcode(o) = 3
  /\ \A o \in StoreOps : Opcode(o) = 35
  /\ \A o \in ArithImmOps : Opcode(o) = 19
  /\ \A o \in ArithOps : Opcode(o) = 51
BY DEF Opcode, BranchOps, StoreOps, ArithOps, LoadOps, ArithImmOps, ShiftImmOps

\* The fields of an immediate.
LEMMA ImmediateFits ==
  ASSUME LineInv
  PROVE  LET imm == Extended(op, bits)
         IN /\ imm \in SUBSET Places
            /\ Format(op) \in {"I", "S"} => \A i \in 12 .. 31 : i \in imm <=> 11 \in imm
            /\ Format(op) = "B" => 0 \notin imm /\ \A i \in 12 .. 31 : i \in imm <=> 12 \in imm
            /\ Format(op) = "U" => \A i \in 0 .. 11 : i \notin imm
            /\ Format(op) = "J" => 0 \notin imm /\ \A i \in 20 .. 31 : i \in imm <=> 20 \in imm
            /\ op \in ShiftImmOps => \A i \in 5 .. 31 : i \in imm <=> (op = "SRAI" /\ i = 10)
<1>1. CASE op \in ShiftImmOps
  <2>1. Format(op) = "I"
    BY <1>1, Formats DEF ArithImmOps, ShiftImmOps
  <2>2. bits \subseteq 0 .. 4
    <3>1. FreeBits(op) = 0 .. 4
      BY <1>1, <2>1 DEF FreeBits
    <3> QED BY <3>1 DEF LineInv
  <2>3. \A i : i \in Extended(op, bits) <=> (i \in bits \/ (op = "SRAI" /\ i = 10))
    <3>1. CASE op = "SRAI"
      <4>1. Extended(op, bits) = bits \cup {10}
        BY <2>1, <3>1 DEF Extended
      <4> QED BY <3>1, <4>1
    <3>2. CASE op # "SRAI"
      <4>1. Extended(op, bits) = bits
        BY <1>1, <2>1, <3>2 DEF Extended, ShiftImmOps
      <4> QED BY <3>2, <4>1
    <3> QED BY <3>1, <3>2
  <2>4. Extended(op, bits) \in SUBSET Places
    <3>1. ASSUME NEW i \in Extended(op, bits) PROVE i \in Places
      <4>1. i \in bits \/ i = 10
        BY <2>3
      <4>2. i \in 0 .. 4 \/ i = 10
        BY <2>2, <4>1
      <4> QED BY <4>2 DEF Places
    <3> QED BY <3>1
  <2>5. \A i \in 5 .. 31 : i \in Extended(op, bits) <=> (op = "SRAI" /\ i = 10)
    BY <2>2, <2>3
  <2> QED BY <1>1, <2>1, <2>4, <2>5
<1>2. CASE op \in BranchOps
  BY <1>2, Formats DEF LineInv, FreeBits, Extended, Signed, If, BranchOps, ShiftImmOps, Places
<1>3. CASE op = "JAL"
  BY <1>3, Formats DEF LineInv, FreeBits, Extended, Signed, If, ShiftImmOps, Places
<1>4. CASE op \in {"LUI", "AUIPC"}
  BY <1>4, Formats DEF LineInv, FreeBits, Extended, ShiftImmOps, Places
<1>5. CASE op \in ArithOps
  BY <1>5, Formats DEF LineInv, FreeBits, Extended, Signed, If, ArithOps, ShiftImmOps, Places
<1>6. CASE op \in StoreOps \cup LoadOps \cup {"JALR"} \cup (ArithImmOps \ ShiftImmOps)
  <2>1. op \notin ShiftImmOps /\ Format(op) \in {"I", "S"}
    BY <1>6, Formats DEF StoreOps, LoadOps, ArithImmOps, ShiftImmOps
  <2> QED BY <2>1 DEF LineInv, FreeBits, Extended, Signed, If, ShiftImmOps, Places
<1> QED BY <1>1, <1>2, <1>3, <1>4, <1>5, <1>6 DEF LineInv, Ops

\* Where the bits of an immediate are put, format by format.
LEMMA PutPlaces ==
  ASSUME LineInv
  PROVE  LET imm == Extended(op, bits)
         IN \A i \in Places :
              /\ Format(op) = "I" => (i \in Put <=> i >= 20 /\ i - 20 \in imm)
              /\ Format(op) = "S" => (i \in Put <=> \/ i >= 25 /\ i - 20 \in imm
                                                    \/ i \in 7 .. 11 /\ i - 7 \in imm)
              /\ Format(op) = "B" => (i \in Put <=> \/ i = 31 /\ 12 \in imm
                                                    \/ i \in 25 .. 30 /\ i - 20 \in imm
                                                    \/ i \in 8 .. 11 /\ i - 7 \in imm
                                                    \/ i = 7 /\ 11 \in imm)
              /\ Format(op) = "U" => (i \in Put <=> i >= 12 /\ i \in imm)
              /\ Format(op) = "J" => (i \in Put <=> \/ i = 31 /\ 20 \in imm
                                                    \/ i \in 21 .. 30 /\ i - 20 \in imm
                                                    \/ i = 20 /\ 11 \in imm
                                                    \/ i \in 12 .. 19 /\ i \in imm)
              /\ Format(op) = "R" => i \notin Put
<1> DEFINE imm == Extended(op, bits)
<1>1. imm \in SUBSET Places /\ line.imm = imm
  BY ImmediateFits DEF line
<1> HIDE DEF imm
<1> SUFFICES ASSUME NEW i \in Places
             PROVE  /\ Format(op) = "I" => (i \in Put <=> i >= 20 /\ i - 20 \in imm)
                    /\ Format(op) = "S" => (i \in Put <=> \/ i >= 25 /\ i - 20 \in imm
                                                          \/ i \in 7 .. 11 /\ i - 7 \in imm)
                    /\ Format(op) = "B" => (i \in Put <=> \/ i = 31 /\ 12 \in imm
                                                          \/ i \in 25 .. 30 /\ i - 20 \in imm
                                                          \/ i \in 8 .. 11 /\ i - 7 \in imm
                                                          \/ i = 7 /\ 11 \in imm)
                    /\ Format(op) = "U" => (i \in Put <=> i >= 12 /\ i \in imm)
                    /\ Format(op) = "J" => (i \in Put <=> \/ i = 31 /\ 20 \in imm
                                                          \/ i \in 21 .. 30 /\ i - 20 \in imm
                                                          \/ i = 20 /\ 11 \in imm
                                                          \/ i \in 12 .. 19 /\ i \in imm)
                    /\ Format(op) = "R" => i \notin Put
  BY DEF imm
<1>2. ASSUME NEW S PROVE imm \cap S \in SUBSET Int
  <2>1. imm \in SUBSET Int
    BY <1>1 DEF Places
  <2> QED BY <2>1
<1>11. /\ Format(op) = "I" => Put = PutI(imm)
       /\ Format(op) = "S" => Put = PutS(imm)
       /\ Format(op) = "B" => Put = PutB(imm)
       /\ Format(op) = "U" => Put = PutU(imm)
       /\ Format(op) = "J" => Put = PutJ(imm)
       /\ Format(op) = "R" => Put = {}
  BY <1>1 DEF Put
<1>3. ASSUME NEW S, NEW n \in Nat
      PROVE  i \in Shl(imm \cap S, n) <=> i - n \in imm /\ i - n \in S
  BY <1>2, ShlMoves
<1>4. i \in Shr(imm \cap {11}, 4) <=> i = 7 /\ 11 \in imm
  BY <1>2, ShrMoves DEF Places
<1>5. Format(op) = "I" => (i \in Put <=> i >= 20 /\ i - 20 \in imm)
  BY <1>3, <1>11 DEF PutI, Places
<1>6. Format(op) = "S" => (i \in Put <=> \/ i >= 25 /\ i - 20 \in imm
                                         \/ i \in 7 .. 11 /\ i - 7 \in imm)
  BY <1>3, <1>11 DEF PutS, Places
<1>7. Format(op) = "B" => (i \in Put <=> \/ i = 31 /\ 12 \in imm
                                         \/ i \in 25 .. 30 /\ i - 20 \in imm
                                         \/ i \in 8 .. 11 /\ i - 7 \in imm
                                         \/ i = 7 /\ 11 \in imm)
  <2>1. /\ i \in Shl(imm \cap {12}, 19) <=> i = 31 /\ 12 \in imm
        /\ i \in Shl(imm \cap (5 .. 10), 20) <=> i \in 25 .. 30 /\ i - 20 \in imm
        /\ i \in Shl(imm \cap (1 .. 4), 7) <=> i \in 8 .. 11 /\ i - 7 \in imm
    <3>1. i \in Int /\ (i - 19 = 12 <=> i = 31)
      BY DEF Places
    <3>2. i \in Shl(imm \cap {12}, 19) <=> i - 19 \in imm /\ i - 19 = 12
      <4>1. i \in Shl(imm \cap {12}, 19) <=> i - 19 \in imm \cap {12}
        BY <1>2, ShlMoves
      <4> QED BY <4>1
    <3>4. i \in Shl(imm \cap {12}, 19) <=> i = 31 /\ 12 \in imm
      BY <3>1, <3>2
    <3>5. i \in Shl(imm \cap (5 .. 10), 20) <=> i \in 25 .. 30 /\ i - 20 \in imm
      BY <1>3, <3>1
    <3>6. i \in Shl(imm \cap (1 .. 4), 7) <=> i \in 8 .. 11 /\ i - 7 \in imm
      BY <1>3, <3>1
    <3> QED BY <3>4, <3>5, <3>6
  <2> QED BY <1>4, <1>11, <2>1 DEF PutB
<1>8. Format(op) = "U" => (i \in Put <=> i >= 12 /\ i \in imm)
  BY <1>1, <1>11 DEF PutU, Places
<1>9. Format(op) = "J" => (i \in Put <=> \/ i = 31 /\ 20 \in imm
                                         \/ i \in 21 .. 30 /\ i - 20 \in imm
                                         \/ i = 20 /\ 11 \in imm
                                         \/ i \in 12 .. 19 /\ i \in imm)
  <2>1. /\ i \in Shl(imm \cap {20}, 11) <=> i = 31 /\ 20 \in imm
        /\ i \in Shl(imm \cap (1 .. 10), 20) <=> i \in 21 .. 30 /\ i - 20 \in imm
        /\ i \in Shl(imm \cap {11}, 9) <=> i = 20 /\ 11 \in imm
    <3>1. i \in Int /\ (i - 11 = 20 <=> i = 31) /\ (i - 9 = 11 <=> i = 20)
      BY DEF Places
    <3>2. i \in Shl(imm \cap {20}, 11) <=> i - 11 \in imm /\ i - 11 = 20
      <4>1. i \in Shl(imm \cap {20}, 11) <=> i - 11 \in imm \cap {20}
        BY <1>2, ShlMoves
      <4> QED BY <4>1
    <3>3. i \in Shl(imm \cap {11}, 9) <=> i - 9 \in imm /\ i - 9 = 11
      <4>1. i \in Shl(imm \cap {11}, 9) <=> i - 9 \in imm \cap {11}
        BY <1>2, ShlMoves
      <4> QED BY <4>1
    <3>4. i \in Shl(imm \cap {20}, 11) <=> i = 31 /\ 20 \in imm
      BY <3>1, <3>2
    <3>5. i \in Shl(imm \cap (1 .. 10), 20) <=> i \in 21 .. 30 /\ i - 20 \in imm
      BY <1>3, <3>1
    <3>6. i \in Shl(imm \cap {11}, 9) <=> i = 20 /\ 11 \in imm
      BY <3>1, <3>3
    <3> QED BY <3>4, <3>5, <3>6
  <2> QED BY <1>11, <2>1 DEF PutJ
<1>10. Format(op) = "R" => i \notin Put
  BY <1>11
<1> QED BY <1>5, <1>6, <1>7, <1>8, <1>9, <1>10

\* Each operation has an opcode of seven bits and a funct3 of three.
LEMMA OpcodesFit == \A o \in Ops : Opcode(o) \in 0 .. 127 /\ Funct3(o) \in 0 .. 7
BY DEF Opcode, Funct3

\* The fields that the line fills are read from the word as they are.
LEMMA FieldPlaces ==
  ASSUME LineInv
  PROVE  /\ \A i \in 0 .. 6 : i \in word <=> i \in Bits(Opcode(op))
         /\ Format(op) \notin {"U", "J"} => \A i \in 12 .. 14 : i \in word <=> i - 12 \in Bits(Funct3(op))
         /\ HasRd(op) => \A i \in 7 .. 11 : i \in word <=> i - 7 \in Bits(rd)
         /\ HasRs1(op) => \A i \in 15 .. 19 : i \in word <=> i - 15 \in Bits(rs1)
         /\ HasRs2(op) => \A i \in 20 .. 24 : i \in word <=> i - 20 \in Bits(rs2)
         /\ Format(op) = "R" => \A i \in 25 .. 31 : i \in word <=> op \in {"SUB", "SRA"} /\ i = 30
         /\ Format(op) # "R" => \A i \in 25 .. 31 : i \in word <=> i \in Put
         /\ Format(op) \in {"U", "J"} => \A i \in 12 .. 31 : i \in word <=> i \in Put
         /\ Format(op) = "I" => \A i \in 20 .. 31 : i \in word <=> i \in Put
         /\ Format(op) \in {"S", "B"} => \A i \in 7 .. 11 : i \in word <=> i \in Put
<1>1. /\ Bits(Opcode(op)) \subseteq 0 .. 6 /\ Bits(Funct3(op)) \subseteq 0 .. 2
      /\ Bits(rd) \subseteq 0 .. 4 /\ Bits(rs1) \subseteq 0 .. 4 /\ Bits(rs2) \subseteq 0 .. 4
  BY BitsBelow, OpcodesFit DEF LineInv
<1>2. Format(op) \in {"R", "I", "S", "B", "U", "J"}
  BY DEF Format
<1>3. op \in {"SUB", "SRA"} => Format(op) = "R"
  BY Formats DEF ArithOps
<1>4. \A i \in Places : i \in Put =>
        /\ Format(op) # "R" /\ i \notin 0 .. 6
        /\ Format(op) \in {"S", "B"} => i \in 7 .. 11 \cup 25 .. 31
        /\ Format(op) = "I" => i \in 20 .. 31
        /\ Format(op) \in {"U", "J"} => i \in 12 .. 31
  BY <1>2, PutPlaces DEF Places
<1>5. ASSUME NEW i \in Places
      PROVE  i \in word <=>
                   \/ i \in 0 .. 6 /\ i \in Bits(Opcode(op))
                   \/ Format(op) \notin {"U", "J"} /\ i \in 12 .. 14 /\ i - 12 \in Bits(Funct3(op))
                   \/ op \in {"SUB", "SRA"} /\ i = 30
                   \/ HasRd(op) /\ i \in 7 .. 11 /\ i - 7 \in Bits(rd)
                   \/ HasRs1(op) /\ i \in 15 .. 19 /\ i - 15 \in Bits(rs1)
                   \/ HasRs2(op) /\ i \in 20 .. 24 /\ i - 20 \in Bits(rs2)
                   \/ i \in Put
  <2>1. i \in Int
    BY DEF Places
  <2>2. /\ i - 12 \in Bits(Funct3(op)) => i \in 12 .. 14
        /\ i - 7 \in Bits(rd) => i \in 7 .. 11
        /\ i - 15 \in Bits(rs1) => i \in 15 .. 19
        /\ i - 20 \in Bits(rs2) => i \in 20 .. 24
    BY <1>1, <2>1
  <2> QED BY <1>1, <2>2, WordPlaces
<1>6. \A i \in 0 .. 6 : i \in word <=> i \in Bits(Opcode(op))
  BY <1>4, <1>5 DEF Places
<1>7. Format(op) \notin {"U", "J"} => \A i \in 12 .. 14 : i \in word <=> i - 12 \in Bits(Funct3(op))
  <2> SUFFICES ASSUME Format(op) \notin {"U", "J"}, NEW i \in 12 .. 14
               PROVE  i \in word <=> i - 12 \in Bits(Funct3(op))
    OBVIOUS
  <2>1. i \in Places /\ i \notin Put
    BY <1>2, <1>4 DEF Places
  <2> QED BY <1>5, <2>1
<1>8. HasRd(op) => \A i \in 7 .. 11 : i \in word <=> i - 7 \in Bits(rd)
  <2> SUFFICES ASSUME HasRd(op), NEW i \in 7 .. 11
               PROVE  i \in word <=> i - 7 \in Bits(rd)
    OBVIOUS
  <2>1. i \in Places /\ i \notin Put
    BY <1>2, <1>4 DEF Places, HasRd
  <2> QED BY <1>5, <2>1
<1>9. HasRs1(op) => \A i \in 15 .. 19 : i \in word <=> i - 15 \in Bits(rs1)
  <2> SUFFICES ASSUME HasRs1(op), NEW i \in 15 .. 19
               PROVE  i \in word <=> i - 15 \in Bits(rs1)
    OBVIOUS
  <2>1. i \in Places /\ i \notin Put
    BY <1>2, <1>4 DEF Places, HasRs1
  <2> QED BY <1>5, <2>1
<1>10. HasRs2(op) => \A i \in 20 .. 24 : i \in word <=> i - 20 \in Bits(rs2)
  <2> SUFFICES ASSUME HasRs2(op), NEW i \in 20 .. 24
               PROVE  i \in word <=> i - 20 \in Bits(rs2)
    OBVIOUS
  <2>1. i \in Places /\ i \notin Put
    BY <1>2, <1>4 DEF Places, HasRs2
  <2> QED BY <1>5, <2>1
<1>11. Format(op) = "R" => \A i \in 25 .. 31 : i \in word <=> op \in {"SUB", "SRA"} /\ i = 30
  <2> SUFFICES ASSUME Format(op) = "R", NEW i \in 25 .. 31
               PROVE  i \in word <=> op \in {"SUB", "SRA"} /\ i = 30
    OBVIOUS
  <2>1. i \in Places /\ i \notin Put
    BY <1>4 DEF Places
  <2> QED BY <1>5, <2>1
<1>15. Format(op) # "R" => \A i \in 25 .. 31 : i \in word <=> i \in Put
  BY <1>3, <1>5 DEF Places
<1>12. Format(op) \in {"U", "J"} => \A i \in 12 .. 31 : i \in word <=> i \in Put
  BY <1>3, <1>5 DEF Places, HasRd, HasRs1, HasRs2
<1>13. Format(op) = "I" => \A i \in 20 .. 31 : i \in word <=> i \in Put
  BY <1>3, <1>5 DEF Places, HasRs2
<1>14. Format(op) \in {"S", "B"} => \A i \in 7 .. 11 : i \in word <=> i \in Put
  BY <1>3, <1>5 DEF Places, HasRd
<1> QED BY <1>6, <1>7, <1>8, <1>9, <1>10, <1>11, <1>12, <1>13, <1>14, <1>15

\* A part of a word that is moved down.
LEMMA ShrSlice ==
  ASSUME NEW t \in Words, NEW lo \in Nat, NEW hi \in Nat
  PROVE  \A j : j \in Shr(t \cap (lo .. hi), lo) <=> j \in 0 .. hi - lo /\ j + lo \in t
<1>1. ASSUME NEW j, j \in Shr(t \cap (lo .. hi), lo)
      PROVE  j \in 0 .. hi - lo /\ j + lo \in t
  <2>1. PICK k \in t \cap (lo .. hi) : j = k - lo
    BY <1>1 DEF Shr
  <2>2. k \in Nat /\ j + lo = k
    BY <2>1
  <2> QED BY <2>1, <2>2
<1>2. ASSUME NEW j \in 0 .. hi - lo, j + lo \in t
      PROVE  j \in Shr(t \cap (lo .. hi), lo)
  <2>1. j + lo \in lo .. hi /\ j + lo >= lo /\ (j + lo) - lo = j
    OBVIOUS
  <2> QED BY <1>2, <2>1 DEF Shr
<1> QED BY <1>1, <1>2

\* The parts that the immediates are made of.
LEMMA Parts ==
  ASSUME NEW t \in Words
  PROVE  /\ \A j : j \in Shr(t \cap (0 .. 6), 0) <=> j \in 0 .. 6 /\ j \in t
         /\ \A j : j \in Shr(t \cap (20 .. 31), 20) <=> j \in 0 .. 11 /\ j + 20 \in t
         /\ \A j : j \in Shr(t \cap (25 .. 31), 20) <=> j \in 5 .. 11 /\ j + 20 \in t
         /\ \A j : j \in Shr(t \cap (7 .. 11), 7) <=> j \in 0 .. 4 /\ j + 7 \in t
         /\ \A j : j \in Shr(t \cap (25 .. 30), 20) <=> j \in 5 .. 10 /\ j + 20 \in t
         /\ \A j : j \in Shr(t \cap (8 .. 11), 7) <=> j \in 1 .. 4 /\ j + 7 \in t
         /\ \A j : j \in Shr(t \cap (21 .. 30), 20) <=> j \in 1 .. 10 /\ j + 20 \in t
         /\ \A j : j \in Shr(t \cap {20}, 9) <=> j = 11 /\ 20 \in t
         /\ \A j : j \in Shl(t \cap {7}, 4) <=> j = 11 /\ 7 \in t
<1>1. \A j : j \in Shr(t \cap (0 .. 6), 0) <=> j \in 0 .. 6 /\ j \in t
  BY DEF Shr, Words, Places
<1>2. \A j : j \in Shr(t \cap (20 .. 31), 20) <=> j \in 0 .. 11 /\ j + 20 \in t
  BY DEF Shr, Words, Places
<1>3. \A j : j \in Shr(t \cap (25 .. 31), 20) <=> j \in 5 .. 11 /\ j + 20 \in t
  BY DEF Shr, Words, Places
<1>4. \A j : j \in Shr(t \cap (7 .. 11), 7) <=> j \in 0 .. 4 /\ j + 7 \in t
  BY DEF Shr, Words, Places
<1>5. \A j : j \in Shr(t \cap (25 .. 30), 20) <=> j \in 5 .. 10 /\ j + 20 \in t
  BY DEF Shr, Words, Places
<1>6. \A j : j \in Shr(t \cap (8 .. 11), 7) <=> j \in 1 .. 4 /\ j + 7 \in t
  BY DEF Shr, Words, Places
<1>7. \A j : j \in Shr(t \cap (21 .. 30), 20) <=> j \in 1 .. 10 /\ j + 20 \in t
  BY DEF Shr, Words, Places
<1>8. \A j : j \in Shr(t \cap {20}, 9) <=> j = 11 /\ 20 \in t
  BY DEF Shr, Words, Places
<1>9. \A j : j \in Shl(t \cap {7}, 4) <=> j = 11 /\ 7 \in t
  BY DEF Shl, Words, Places
<1> QED BY <1>1, <1>2, <1>3, <1>4, <1>5, <1>6, <1>7, <1>8, <1>9

\* A field that holds the bits of a number is read as the number.
LEMMA FieldNumber ==
  ASSUME NEW t \in Words, NEW lo \in Nat, NEW hi \in Nat, NEW n \in 0 .. 127,
         Bits(n) \subseteq 0 .. hi - lo,
         \A i \in lo .. hi : i \in t <=> i - lo \in Bits(n)
  PROVE  Number(Shr(t \cap (lo .. hi), lo)) = n
<1>1. ASSUME NEW j \in 0 .. hi - lo
      PROVE  j + lo \in t <=> j \in Bits(n)
  <2>1. j + lo \in lo .. hi /\ (j + lo) - lo = j
    OBVIOUS
  <2> QED BY <2>1
<1>2. \A j : j \in Shr(t \cap (lo .. hi), lo) <=> j \in Bits(n)
  <2>1. \A j : j \in Shr(t \cap (lo .. hi), lo) <=> j \in 0 .. hi - lo /\ j + lo \in t
    BY ShrSlice
  <2> QED BY <1>1, <2>1
<1>3. Shr(t \cap (lo .. hi), lo) = Bits(n)
  BY <1>2
<1> QED BY <1>3, NumberOfBits

\* The numbers in the word of a line.
LEMMA FieldsRead ==
  ASSUME LineInv
  PROVE  /\ Number(Shr(word \cap (0 .. 6), 0)) = Opcode(op)
         /\ Number(word \cap (0 .. 6)) = Opcode(op)
         /\ Format(op) \notin {"U", "J"} => Number(Shr(word \cap (12 .. 14), 12)) = Funct3(op)
         /\ HasRd(op) => Number(Shr(word \cap (7 .. 11), 7)) = rd
         /\ HasRs1(op) => Number(Shr(word \cap (15 .. 19), 15)) = rs1
         /\ HasRs2(op) => Number(Shr(word \cap (20 .. 24), 20)) = rs2
<1> USE WordIsWord
<1>1. op \in Ops /\ rd \in 0 .. 31 /\ rs1 \in 0 .. 31 /\ rs2 \in 0 .. 31
  BY DEF LineInv
<1>2. /\ Opcode(op) \in 0 .. 127 /\ Bits(Opcode(op)) \subseteq 0 .. 6 - 0
      /\ Funct3(op) \in 0 .. 127 /\ Bits(Funct3(op)) \subseteq 0 .. 14 - 12
  BY <1>1, OpcodesFit, BitsBelow
<1>3. /\ Bits(rd) \subseteq 0 .. 11 - 7 /\ rd \in 0 .. 127
      /\ Bits(rs1) \subseteq 0 .. 19 - 15 /\ rs1 \in 0 .. 127
      /\ Bits(rs2) \subseteq 0 .. 24 - 20 /\ rs2 \in 0 .. 127
  BY <1>1, BitsBelow
<1>4. Number(Shr(word \cap (0 .. 6), 0)) = Opcode(op)
  <2>1. \A i \in 0 .. 6 : i \in word <=> i - 0 \in Bits(Opcode(op))
    BY FieldPlaces
  <2> QED BY <1>2, <2>1, FieldNumber
<1>5. Shr(word \cap (0 .. 6), 0) = word \cap (0 .. 6)
  BY Parts
<1>6. Format(op) \notin {"U", "J"} => Number(Shr(word \cap (12 .. 14), 12)) = Funct3(op)
  BY <1>2, FieldPlaces, FieldNumber
<1>7. HasRd(op) => Number(Shr(word \cap (7 .. 11), 7)) = rd
  <2>1. HasRd(op) => \A i \in 7 .. 11 : i \in word <=> i - 7 \in Bits(rd)
    BY FieldPlaces
  <2> QED BY <1>3, <2>1, FieldNumber
<1>8. HasRs1(op) => Number(Shr(word \cap (15 .. 19), 15)) = rs1
  <2>1. HasRs1(op) => \A i \in 15 .. 19 : i \in word <=> i - 15 \in Bits(rs1)
    BY FieldPlaces
  <2> QED BY <1>3, <2>1, FieldNumber
<1>9. HasRs2(op) => Number(Shr(word \cap (20 .. 24), 20)) = rs2
  <2>1. HasRs2(op) => \A i \in 20 .. 24 : i \in word <=> i - 20 \in Bits(rs2)
    BY FieldPlaces
  <2> QED BY <1>3, <2>1, FieldNumber
<1> QED BY <1>4, <1>5, <1>6, <1>7, <1>8, <1>9

\* The immediate that was put in the word is read from it.
LEMMA ImmediateRead ==
  ASSUME LineInv, Format(op) # "R"
  PROVE  get_immediate(word, Format(op)) = Extended(op, bits)
<1> DEFINE imm  == Extended(op, bits)
           read == get_immediate(word, Format(op))
<1> USE WordIsWord
<1>1. /\ imm \in SUBSET Places
      /\ Format(op) \in {"I", "S"} => \A i \in 12 .. 31 : i \in imm <=> 11 \in imm
      /\ Format(op) = "B" => 0 \notin imm /\ \A i \in 12 .. 31 : i \in imm <=> 12 \in imm
      /\ Format(op) = "U" => \A i \in 0 .. 11 : i \notin imm
      /\ Format(op) = "J" => 0 \notin imm /\ \A i \in 20 .. 31 : i \in imm <=> 20 \in imm
  BY ImmediateFits
<1>2. /\ Format(op) \in {"U", "J"} => \A i \in 12 .. 31 : i \in word <=> i \in Put
      /\ Format(op) \in {"I", "S", "B"} => \A i \in 25 .. 31 : i \in word <=> i \in Put
      /\ Format(op) = "I" => \A i \in 20 .. 31 : i \in word <=> i \in Put
      /\ Format(op) \in {"S", "B"} => \A i \in 7 .. 11 : i \in word <=> i \in Put
  BY FieldPlaces
<1>3. \A i \in Places :
        /\ Format(op) = "I" => (i \in Put <=> i >= 20 /\ i - 20 \in imm)
        /\ Format(op) = "S" => (i \in Put <=> \/ i >= 25 /\ i - 20 \in imm
                                              \/ i \in 7 .. 11 /\ i - 7 \in imm)
        /\ Format(op) = "B" => (i \in Put <=> \/ i = 31 /\ 12 \in imm
                                              \/ i \in 25 .. 30 /\ i - 20 \in imm
                                              \/ i \in 8 .. 11 /\ i - 7 \in imm
                                              \/ i = 7 /\ 11 \in imm)
        /\ Format(op) = "U" => (i \in Put <=> i >= 12 /\ i \in imm)
        /\ Format(op) = "J" => (i \in Put <=> \/ i = 31 /\ 20 \in imm
                                              \/ i \in 21 .. 30 /\ i - 20 \in imm
                                              \/ i = 20 /\ 11 \in imm
                                              \/ i \in 12 .. 19 /\ i \in imm)
  BY PutPlaces
<1> HIDE DEF imm, read
<1>4. CASE Format(op) = "I"
  <2>1. \A j : j \in Shr(word \cap (20 .. 31), 20) <=> j \in 0 .. 11 /\ j + 20 \in word
    BY Parts
  <2>2. ASSUME NEW j \in 0 .. 11 PROVE j + 20 \in word <=> j \in imm
    <3>1. j + 20 \in 20 .. 31 /\ j + 20 \in Places /\ j + 20 >= 20 /\ (j + 20) - 20 = j
      BY DEF Places
    <3> QED BY <1>2, <1>3, <1>4, <3>1
  <2>3. 31 \in word <=> 11 \in imm
    <3>1. 31 = 11 + 20
      OBVIOUS
    <3> QED BY <2>2, <3>1
  <2>4. read = Shr(word \cap (20 .. 31), 20) \cup If(31 \in word, 12 .. 31)
    BY <1>4 DEF read, get_immediate
  <2>5. ASSUME NEW j \in 0 .. 11 PROVE j \in read <=> j \in imm
    BY <1>1, <1>4, <2>1, <2>2, <2>3, <2>4 DEF If
  <2>6. ASSUME NEW j \in 12 .. 31 PROVE j \in read <=> j \in imm
    BY <1>1, <1>4, <2>1, <2>2, <2>3, <2>4 DEF If
  <2>7. read \subseteq Places
    BY <2>1, <2>4 DEF If, Places
  <2> QED BY <1>1, <2>5, <2>6, <2>7 DEF read, imm, Places
<1>5. CASE Format(op) = "S"
  <2>1. /\ \A j : j \in Shr(word \cap (25 .. 31), 20) <=> j \in 5 .. 11 /\ j + 20 \in word
        /\ \A j : j \in Shr(word \cap (7 .. 11), 7) <=> j \in 0 .. 4 /\ j + 7 \in word
    BY Parts
  <2>2. ASSUME NEW j \in 5 .. 11 PROVE j + 20 \in word <=> j \in imm
    <3>1. j + 20 \in 25 .. 31 /\ j + 20 \in Places /\ (j + 20) - 20 = j
      BY DEF Places
    <3> QED BY <1>2, <1>3, <1>5, <3>1
  <2>3. ASSUME NEW j \in 0 .. 4 PROVE j + 7 \in word <=> j \in imm
    <3>1. j + 7 \in 7 .. 11 /\ j + 7 \in Places /\ (j + 7) - 7 = j
      BY DEF Places
    <3> QED BY <1>2, <1>3, <1>5, <3>1
  <2>4. 31 \in word <=> 11 \in imm
    <3>1. 31 = 11 + 20
      OBVIOUS
    <3> QED BY <2>2, <3>1
  <2>5. read = Shr(word \cap (25 .. 31), 20) \cup Shr(word \cap (7 .. 11), 7) \cup If(31 \in word, 12 .. 31)
    BY <1>5 DEF read, get_immediate
  <2>6. ASSUME NEW j \in 0 .. 4 PROVE j \in read <=> j \in imm
    BY <1>1, <1>5, <2>1, <2>2, <2>3, <2>4, <2>5 DEF If
  <2>7. ASSUME NEW j \in 5 .. 11 PROVE j \in read <=> j \in imm
    BY <1>1, <1>5, <2>1, <2>2, <2>3, <2>4, <2>5 DEF If
  <2>8. ASSUME NEW j \in 12 .. 31 PROVE j \in read <=> j \in imm
    BY <1>1, <1>5, <2>1, <2>2, <2>3, <2>4, <2>5 DEF If
  <2>9. read \subseteq Places
    BY <2>1, <2>5 DEF If, Places
  <2> QED BY <1>1, <2>6, <2>7, <2>8, <2>9 DEF read, imm, Places
<1>6. CASE Format(op) = "B"
  <2>1. /\ \A j : j \in Shr(word \cap (25 .. 30), 20) <=> j \in 5 .. 10 /\ j + 20 \in word
        /\ \A j : j \in Shr(word \cap (8 .. 11), 7) <=> j \in 1 .. 4 /\ j + 7 \in word
    BY Parts
  <2>2. ASSUME NEW j \in 5 .. 10 PROVE j + 20 \in word <=> j \in imm
    <3>1. j + 20 \in 25 .. 31 /\ j + 20 \in 25 .. 30 /\ j + 20 \in Places /\ (j + 20) - 20 = j
      BY DEF Places
    <3> QED BY <1>2, <1>3, <1>6, <3>1
  <2>3. ASSUME NEW j \in 1 .. 4 PROVE j + 7 \in word <=> j \in imm
    <3>1. j + 7 \in 7 .. 11 /\ j + 7 \in 8 .. 11 /\ j + 7 \in Places /\ (j + 7) - 7 = j
      BY DEF Places
    <3> QED BY <1>2, <1>3, <1>6, <3>1
  <2>4. (31 \in word <=> 12 \in imm) /\ (7 \in word <=> 11 \in imm)
    BY <1>2, <1>3, <1>6 DEF Places
  <2>5. \A j : j \in Shl(word \cap {7}, 4) <=> j = 11 /\ 7 \in word
    BY Parts
  <2>6. read = Shr(word \cap (25 .. 30), 20) \cup Shr(word \cap (8 .. 11), 7) \cup Shl(word \cap {7}, 4)
                 \cup If(31 \in word, 12 .. 31)
    BY <1>6 DEF read, get_immediate
  <2>7. ASSUME NEW j \in {0} PROVE j \in read <=> j \in imm
    BY <1>1, <1>6, <2>1, <2>2, <2>3, <2>4, <2>5, <2>6 DEF If
  <2>8. ASSUME NEW j \in 1 .. 4 PROVE j \in read <=> j \in imm
    <3>1. j # 11 /\ j \notin 5 .. 10 /\ j \notin 12 .. 31
      OBVIOUS
    <3> QED BY <2>1, <2>3, <2>5, <2>6, <3>1 DEF If
  <2>9. ASSUME NEW j \in 5 .. 10 PROVE j \in read <=> j \in imm
    <3>1. j # 11 /\ j \notin 1 .. 4 /\ j \notin 12 .. 31
      OBVIOUS
    <3> QED BY <2>1, <2>2, <2>5, <2>6, <3>1 DEF If
  <2>10. ASSUME NEW j \in {11} PROVE j \in read <=> j \in imm
    BY <1>1, <1>6, <2>1, <2>2, <2>3, <2>4, <2>5, <2>6 DEF If
  <2>11. ASSUME NEW j \in 12 .. 31 PROVE j \in read <=> j \in imm
    BY <1>1, <1>6, <2>1, <2>2, <2>3, <2>4, <2>5, <2>6 DEF If
  <2>12. read \subseteq Places
    BY <2>1, <2>5, <2>6 DEF If, Places
  <2> QED BY <1>1, <2>7, <2>8, <2>9, <2>10, <2>11, <2>12 DEF read, imm, Places
<1>7. CASE Format(op) = "U"
  <2>1. read = word \cap (12 .. 31)
    BY <1>7 DEF read, get_immediate
  <2>2. \A j \in 12 .. 31 : j \in word <=> j \in imm
    BY <1>2, <1>3, <1>7 DEF Places
  <2>3. ASSUME NEW j \in 0 .. 11 PROVE j \in read <=> j \in imm
    BY <1>1, <1>7, <2>1, <2>2
  <2>4. ASSUME NEW j \in 12 .. 31 PROVE j \in read <=> j \in imm
    BY <1>1, <1>7, <2>1, <2>2
  <2>5. read \subseteq Places
    BY <2>1 DEF Places
  <2> QED BY <1>1, <2>3, <2>4, <2>5 DEF read, imm, Places
<1>8. CASE Format(op) = "J"
  <2>1. \A j : j \in Shr(word \cap (21 .. 30), 20) <=> j \in 1 .. 10 /\ j + 20 \in word
    BY Parts
  <2>2. ASSUME NEW j \in 1 .. 10 PROVE j + 20 \in word <=> j \in imm
    <3>1. j + 20 \in 12 .. 31 /\ j + 20 \in 21 .. 30 /\ j + 20 \in Places /\ (j + 20) - 20 = j
      BY DEF Places
    <3> QED BY <1>2, <1>3, <1>8, <3>1
  <2>3. \A j \in 12 .. 19 : j \in word <=> j \in imm
    BY <1>2, <1>3, <1>8 DEF Places
  <2>4. (31 \in word <=> 20 \in imm) /\ (20 \in word <=> 11 \in imm)
    BY <1>2, <1>3, <1>8 DEF Places
  <2>5. \A j : j \in Shr(word \cap {20}, 9) <=> j = 11 /\ 20 \in word
    BY Parts
  <2>6. read = Shr(word \cap (21 .. 30), 20) \cup (word \cap (12 .. 19)) \cup Shr(word \cap {20}, 9)
                 \cup If(31 \in word, 20 .. 31)
    BY <1>8 DEF read, get_immediate
  <2>7. ASSUME NEW j \in {0} PROVE j \in read <=> j \in imm
    BY <1>1, <1>8, <2>1, <2>2, <2>3, <2>4, <2>5, <2>6 DEF If
  <2>8. ASSUME NEW j \in 1 .. 10 PROVE j \in read <=> j \in imm
    BY <1>1, <1>8, <2>1, <2>2, <2>3, <2>4, <2>5, <2>6 DEF If
  <2>9. ASSUME NEW j \in {11} PROVE j \in read <=> j \in imm
    BY <1>1, <1>8, <2>1, <2>2, <2>3, <2>4, <2>5, <2>6 DEF If
  <2>10. ASSUME NEW j \in 12 .. 19 PROVE j \in read <=> j \in imm
    BY <1>1, <1>8, <2>1, <2>2, <2>3, <2>4, <2>5, <2>6 DEF If
  <2>11. ASSUME NEW j \in 20 .. 31 PROVE j \in read <=> j \in imm
    BY <1>1, <1>8, <2>1, <2>2, <2>3, <2>4, <2>5, <2>6 DEF If
  <2>12. read \subseteq Places
    BY <2>1, <2>5, <2>6 DEF If, Places
  <2> QED BY <1>1, <2>7, <2>8, <2>9, <2>10, <2>11, <2>12 DEF read, imm, Places
<1> QED BY <1>4, <1>5, <1>6, <1>7, <1>8 DEF Format

\* The places above rs2 tell the operations apart that share the opcode and funct3.
LEMMA UpperPlaces ==
  ASSUME LineInv, op \in ArithOps \cup ShiftImmOps
  PROVE  /\ word \cap (25 .. 31) = IF op \in SecondTypes THEN {30} ELSE {}
         /\ Shr(word \cap (25 .. 31), 25) = IF op \in SecondTypes THEN {5} ELSE {}
<1>1. \A i \in 25 .. 31 : i \in word <=> op \in SecondTypes /\ i = 30
  <2>1. CASE op \in ArithOps
    <3>1. Format(op) = "R" /\ (op \in SecondTypes <=> op \in {"SUB", "SRA"})
      BY <2>1, Formats DEF ArithOps, SecondTypes
    <3> QED BY <3>1, FieldPlaces
  <2>2. CASE op \in ShiftImmOps
    <3>1. Format(op) = "I" /\ (op \in SecondTypes <=> op = "SRAI")
      BY <2>2, Formats DEF ArithImmOps, ShiftImmOps, SecondTypes
    <3>2. \A i \in 25 .. 31 : i \in word <=> i \in Put
      BY <3>1, FieldPlaces
    <3>3. \A i \in Places : i \in Put <=> i >= 20 /\ i - 20 \in Extended(op, bits)
      BY <3>1, PutPlaces
    <3>4. \A i \in 5 .. 31 : i \in Extended(op, bits) <=> (op = "SRAI" /\ i = 10)
      BY <2>2, ImmediateFits
    <3>5. ASSUME NEW i \in 25 .. 31 PROVE i \in word <=> (op = "SRAI" /\ i = 30)
      <4>1. i \in Places /\ i >= 20 /\ i - 20 \in 5 .. 31 /\ (i - 20 = 10 <=> i = 30)
        BY DEF Places
      <4>2. i \in word <=> i - 20 \in Extended(op, bits)
        BY <3>2, <3>3, <4>1
      <4> QED BY <3>4, <4>1, <4>2
    <3> QED BY <3>1, <3>5
  <2> QED BY <2>1, <2>2
<1>2. \A i : i \in word \cap (25 .. 31) <=> op \in SecondTypes /\ i = 30
  BY <1>1
<1>3. word \cap (25 .. 31) = IF op \in SecondTypes THEN {30} ELSE {}
  BY <1>2
<1>4. Shr({30}, 25) = {5} /\ Shr({}, 25) = {}
  BY DEF Shr
<1> QED BY <1>3, <1>4

\* The operation that the processor reads.
LEMMA OpRead ==
  ASSUME LineInv
  PROVE  op_out(word) = op
<1>1. /\ Number(Slice(word, 6, 0)) = Opcode(op)
      /\ Format(op) \notin {"U", "J"} => Number(Slice(word, 14, 12)) = Funct3(op)
  BY FieldsRead DEF Slice
<1>2. op \in ArithOps \cup ShiftImmOps => (Slice(word, 31, 25) = {} <=> op \notin SecondTypes)
  BY UpperPlaces DEF Slice
<1>3. CASE op \in {"LUI", "AUIPC", "JAL", "JALR"}
  BY <1>1, <1>3, Opcodes DEF op_out
<1>4. CASE op \in BranchOps
  <2>1. Format(op) = "B" /\ Opcode(op) = 99
    BY <1>4, Formats, Opcodes
  <2>2. op_out(word) = BranchRow[Funct3(op) + 1]
    BY <1>1, <2>1 DEF op_out
  <2> QED BY <1>4, <2>2 DEF BranchOps, BranchRow, Funct3
<1>5. CASE op \in LoadOps
  <2>1. Format(op) = "I" /\ Opcode(op) = 3
    BY <1>5, Formats, Opcodes
  <2>2. op_out(word) = LoadRow[Funct3(op) + 1]
    BY <1>1, <2>1 DEF op_out
  <2> QED BY <1>5, <2>2 DEF LoadOps, LoadRow, Funct3
<1>6. CASE op \in StoreOps
  <2>1. Format(op) = "S" /\ Opcode(op) = 35
    BY <1>6, Formats, Opcodes
  <2>2. op_out(word) = StoreRow[Funct3(op) + 1]
    BY <1>1, <2>1 DEF op_out
  <2> QED BY <1>6, <2>2 DEF StoreOps, StoreRow, Funct3
<1>7. CASE op \in ArithImmOps
  <2>1. Format(op) = "I" /\ Opcode(op) = 19
    BY <1>7, Formats, Opcodes
  <2>2. op_out(word) = ArithImmRow(Slice(word, 31, 25) = {})[Funct3(op) + 1]
    BY <1>1, <2>1 DEF op_out
  <2>3. op \in ShiftImmOps => op_out(word) = ArithImmRow(op \notin SecondTypes)[Funct3(op) + 1]
    BY <1>2, <2>2
  <2>4. CASE op \in ShiftImmOps
    BY <2>3, <2>4 DEF ShiftImmOps, SecondTypes, ArithImmRow, Funct3
  <2>5. CASE op \notin ShiftImmOps
    BY <1>7, <2>2, <2>5 DEF ArithImmOps, ShiftImmOps, ArithImmRow, Funct3
  <2> QED BY <2>4, <2>5
<1>8. CASE op \in ArithOps
  <2>1. Format(op) = "R" /\ Opcode(op) = 51
    BY <1>8, Formats, Opcodes
  <2>2. op_out(word) = ArithRow(Slice(word, 31, 25) = {})[Funct3(op) + 1]
    BY <1>1, <2>1 DEF op_out
  <2>3. op_out(word) = ArithRow(op \notin SecondTypes)[Funct3(op) + 1]
    BY <1>2, <1>8, <2>2
  <2> QED BY <1>8, <2>3 DEF ArithOps, SecondTypes, ArithRow, Funct3
<1> QED BY <1>3, <1>4, <1>5, <1>6, <1>7, <1>8 DEF LineInv, Ops

\* The immediate that the processor reads.
LEMMA ImmRead ==
  ASSUME LineInv, Format(op) # "R"
  PROVE  imm_out(word) = Extended(op, bits)
<1>1. Number(Slice(word, 6, 0)) = Opcode(op)
  BY FieldsRead DEF Slice
<1>2. /\ immI(word) = get_immediate(word, "I") /\ immS(word) = get_immediate(word, "S")
      /\ immB(word) = get_immediate(word, "B") /\ immU(word) = get_immediate(word, "U")
      /\ immJ(word) = get_immediate(word, "J")
  BY WordIsWord, AgreeI, AgreeS, AgreeB, AgreeU, AgreeJ
<1>3. get_immediate(word, Format(op)) = Extended(op, bits)
  BY ImmediateRead
<1>4. CASE op \in {"LUI", "AUIPC", "JAL", "JALR"}
  <2>1. /\ op \in {"LUI", "AUIPC"} => Format(op) = "U" /\ Opcode(op) \in {55, 23}
        /\ op = "JAL" => Format(op) = "J" /\ Opcode(op) = 111
        /\ op = "JALR" => Format(op) = "I" /\ Opcode(op) = 103
    BY Formats, Opcodes
  <2> QED BY <1>1, <1>2, <1>3, <1>4, <2>1 DEF imm_out
<1>5. CASE op \in BranchOps
  <2>1. Format(op) = "B" /\ Opcode(op) = 99
    BY <1>5, Formats, Opcodes
  <2> QED BY <1>1, <1>2, <1>3, <2>1 DEF imm_out
<1>6. CASE op \in LoadOps \cup ArithImmOps
  <2>1. Format(op) = "I" /\ Opcode(op) \in {3, 19}
    BY <1>6, Formats, Opcodes
  <2> QED BY <1>1, <1>2, <1>3, <2>1 DEF imm_out
<1>7. CASE op \in StoreOps
  <2>1. Format(op) = "S" /\ Opcode(op) = 35
    BY <1>7, Formats, Opcodes
  <2> QED BY <1>1, <1>2, <1>3, <2>1 DEF imm_out
<1>8. CASE op \in ArithOps
  BY <1>8, Formats
<1> QED BY <1>4, <1>5, <1>6, <1>7, <1>8 DEF LineInv, Ops

(***************************************************************************)
(* Whatever line is assembled, Decoder.v reads its operation, its          *)
(* immediate and its registers from the word.                              *)
(***************************************************************************)
THEOREM ProcessorAlwaysReadsLine == Spec => []ProcessorReadsLine
<1>1. LineInv => ProcessorReadsLine
  <2> SUFFICES ASSUME LineInv PROVE ProcessorReadsLine
    OBVIOUS
  <2>1. line.imm = Extended(op, bits)
    BY DEF line
  <2>2. /\ Decoder(word).op = op_out(word)
        /\ Decoder(word).imm = imm_out(word)
        /\ Decoder(word).rd = Number(Shr(word \cap (7 .. 11), 7))
        /\ Decoder(word).rs1 = Number(Shr(word \cap (15 .. 19), 15))
        /\ Decoder(word).rs2 = Number(Shr(word \cap (20 .. 24), 20))
    BY DEF Decoder, Slice
  <2> QED BY <2>1, <2>2, OpRead, ImmRead, FieldsRead DEF ProcessorReadsLine, Reads
<1> QED BY <1>1, LinesStay, PTL

\* Operations that share the opcode and funct3 differ above rs2.
LEMMA TypesDiffer ==
  ASSUME NEW o \in Ops, NEW p \in Ops, Opcode(o) = Opcode(p),
         Opcode(o) \in {55, 23, 111, 103} \/ Funct3(o) = Funct3(p),
         o \in PairedTypes /\ p \in PairedTypes => (o \in SecondTypes <=> p \in SecondTypes)
  PROVE  o = p
<1>1. CASE o \in {"LUI", "AUIPC", "JAL", "JALR"}
  BY <1>1, Opcodes DEF Ops
<1>2. CASE o \in BranchOps
  <2>1. Opcode(o) = 99 /\ p \in BranchOps
    BY <1>2, Opcodes DEF Ops
  <2> QED BY <1>2, <2>1 DEF BranchOps, Funct3
<1>3. CASE o \in LoadOps
  <2>1. Opcode(o) = 3 /\ p \in LoadOps
    BY <1>3, Opcodes DEF Ops
  <2> QED BY <1>3, <2>1 DEF LoadOps, Funct3
<1>4. CASE o \in StoreOps
  <2>1. Opcode(o) = 35 /\ p \in StoreOps
    BY <1>4, Opcodes DEF Ops
  <2> QED BY <1>4, <2>1 DEF StoreOps, Funct3
<1>5. CASE o \in ArithImmOps
  <2>1. Opcode(o) = 19 /\ p \in ArithImmOps
    BY <1>5, Opcodes DEF Ops
  <2> QED BY <1>5, <2>1 DEF ArithImmOps, ShiftImmOps, Funct3, PairedTypes, SecondTypes
<1>6. CASE o \in ArithOps
  <2>1. Opcode(o) = 51 /\ p \in ArithOps
    BY <1>6, Opcodes DEF Ops
  <2> QED BY <1>6, <2>1 DEF ArithOps, Funct3, PairedTypes, SecondTypes
<1> QED BY <1>1, <1>2, <1>3, <1>4, <1>5, <1>6 DEF Ops

\* The sequential simulator finds the one type of the word.
LEMMA TypeRead ==
  ASSUME LineInv
  PROVE  Types(word) = {op}
<1>1. /\ Number(word \cap (0 .. 6)) = Opcode(op)
      /\ Format(op) \notin {"U", "J"} => Number(Shr(word \cap (12 .. 14), 12)) = Funct3(op)
  BY FieldsRead
<1>2. Format(op) \in {"U", "J"} => Opcode(op) \in {55, 23, 111, 103}
  BY Formats, Opcodes DEF LineInv, Ops
<1>3. op \in PairedTypes => (op \in SecondTypes <=> word \cap (25 .. 31) # {})
  <2>1. op \in PairedTypes => op \in ArithOps \cup ShiftImmOps
    BY DEF PairedTypes, SecondTypes, ArithOps, ShiftImmOps
  <2> QED BY <2>1, UpperPlaces
<1>4. op \in Types(word)
  BY <1>1, <1>2, <1>3 DEF LineInv, Types
<1>5. ASSUME NEW o \in Types(word) PROVE o = op
  <2>1. /\ o \in Ops /\ Opcode(o) = Opcode(op)
        /\ Opcode(o) \in {55, 23, 111, 103} \/ Funct3(o) = Number(Shr(word \cap (12 .. 14), 12))
        /\ o \in PairedTypes => (o \in SecondTypes <=> word \cap (25 .. 31) # {})
    BY <1>1 DEF Types
  <2>2. Opcode(o) \in {55, 23, 111, 103} \/ Funct3(o) = Funct3(op)
    BY <1>1, <1>2, <2>1
  <2> QED BY <1>3, <2>1, <2>2, TypesDiffer DEF LineInv
<1> QED BY <1>4, <1>5

\* sequent_execute.cpp reads the line from its word.
LEMMA SequentialReadsLine ==
  ASSUME LineInv
  PROVE  Reads(InstructionDecode(word))
<1>1. InstructionDecode(word) =
        [op |-> op, imm |-> get_immediate(word, Format(op)),
         rd |-> Number(Shr(word \cap (7 .. 11), 7)), rs1 |-> Number(Shr(word \cap (15 .. 19), 15)),
         rs2 |-> Number(Shr(word \cap (20 .. 24), 20))]
  <2>1. Types(word) # {} /\ (CHOOSE o \in Types(word) : TRUE) = op
    BY TypeRead
  <2> QED BY <2>1 DEF InstructionDecode
<1>2. line.imm = Extended(op, bits)
  BY DEF line
<1> QED BY <1>1, <1>2, ImmediateRead, FieldsRead DEF Reads

\* What the pipelined simulator reads, by the opcode.
Fields(tp, imm, hasRd, hasRs1, hasRs2) ==
  [op |-> tp, imm |-> imm,
   rd |-> IF hasRd THEN Number(Gather(word, 7, 11)) ELSE 0,
   rs1 |-> IF hasRs1 THEN Number(Gather(word, 15, 19)) ELSE 0,
   rs2 |-> IF hasRs2 THEN Number(Gather(word, 20, 24)) ELSE 0]

\* Fields that the line has suffice.
LEMMA FieldsReads ==
  ASSUME LineInv, NEW tp, NEW imm, NEW hasRd \in BOOLEAN, NEW hasRs1 \in BOOLEAN, NEW hasRs2 \in BOOLEAN,
         tp = op, Format(op) # "R" => imm = Extended(op, bits),
         HasRd(op) => hasRd, HasRs1(op) => hasRs1, HasRs2(op) => hasRs2
  PROVE  Reads(Fields(tp, imm, hasRd, hasRs1, hasRs2))
<1>1. line.imm = Extended(op, bits)
  BY DEF line
<1>2. /\ HasRd(op) => Number(Gather(word, 7, 11)) = rd
      /\ HasRs1(op) => Number(Gather(word, 15, 19)) = rs1
      /\ HasRs2(op) => Number(Gather(word, 20, 24)) = rs2
  BY FieldsRead DEF Gather
<1> QED BY <1>1, <1>2 DEF Fields, Reads

\* translate.hpp reads the line from its word, if it is not the one that ends a simulation.
LEMMA PipelinedReadsLine ==
  ASSUME LineInv, word # EndCode
  PROVE  Reads(translate(word))
<1> DEFINE funct3 == Number(Gather(word, 12, 14))
<1>1. /\ Number(word \cap (0 .. 6)) = Opcode(op)
      /\ Format(op) \notin {"U", "J"} => funct3 = Funct3(op)
  BY FieldsRead DEF Gather
<1>2. /\ Imm_I(word) = get_immediate(word, "I") /\ Imm_S(word) = get_immediate(word, "S")
      /\ Imm_B(word) = get_immediate(word, "B") /\ Imm_U(word) = get_immediate(word, "U")
      /\ Imm_J(word) = get_immediate(word, "J")
  BY WordIsWord, AgreeI, AgreeS, AgreeB, AgreeU, AgreeJ
<1>3. Format(op) # "R" => get_immediate(word, Format(op)) = Extended(op, bits)
  BY ImmediateRead
<1>4. /\ Opcode(op) = 3 => translate(word) = Fields(LoadType[funct3 + 1], Imm_I(word), TRUE, TRUE, FALSE)
      /\ Opcode(op) = 19 =>
           translate(word) = Fields(IType(funct3, Imm_I(word)), Imm_I(word), TRUE, TRUE, FALSE)
      /\ Opcode(op) = 103 =>
           translate(word) = Fields(IF funct3 = 0 THEN "JALR" ELSE "LB", Imm_I(word), TRUE, TRUE, FALSE)
      /\ Opcode(op) = 35 => translate(word) = Fields(StoreType[funct3 + 1], Imm_S(word), FALSE, TRUE, TRUE)
      /\ Opcode(op) = 51 =>
           translate(word) = Fields(RType(funct3, Number(Gather(word, 25, 31))), {}, TRUE, TRUE, TRUE)
      /\ Opcode(op) = 55 => translate(word) = Fields("LUI", Imm_U(word), TRUE, FALSE, FALSE)
      /\ Opcode(op) = 23 => translate(word) = Fields("AUIPC", Imm_U(word), TRUE, FALSE, FALSE)
      /\ Opcode(op) = 99 => translate(word) = Fields(BranchType[funct3 + 1], Imm_B(word), FALSE, TRUE, TRUE)
      /\ Opcode(op) = 111 => translate(word) = Fields("JAL", Imm_J(word), TRUE, FALSE, FALSE)
  BY <1>1 DEF translate, Fields
<1> HIDE DEF funct3
<1>5. CASE op \in {"LUI", "AUIPC", "JAL", "JALR"}
  <2>1. Funct3("JALR") = 0
    BY DEF Funct3
  <2>2. CASE op \in {"LUI", "AUIPC"}
    <3>1. Format(op) = "U" /\ Opcode(op) = IF op = "LUI" THEN 55 ELSE 23
      BY <2>2, Formats, Opcodes
    <3>2. translate(word) = Fields(op, Extended(op, bits), TRUE, FALSE, FALSE)
      BY <1>2, <1>3, <1>4, <2>2, <3>1
    <3> QED BY <3>1, <3>2, FieldsReads DEF HasRd, HasRs1, HasRs2
  <2>3. CASE op = "JAL"
    <3>1. Format(op) = "J" /\ Opcode(op) = 111
      BY <2>3, Formats, Opcodes
    <3>2. translate(word) = Fields(op, Extended(op, bits), TRUE, FALSE, FALSE)
      BY <1>2, <1>3, <1>4, <2>3, <3>1
    <3> QED BY <3>1, <3>2, FieldsReads DEF HasRd, HasRs1, HasRs2
  <2>4. CASE op = "JALR"
    <3>1. Format(op) = "I" /\ Opcode(op) = 103
      BY <2>4, Formats, Opcodes
    <3>2. translate(word) = Fields(op, Extended(op, bits), TRUE, TRUE, FALSE)
      BY <1>1, <1>2, <1>3, <1>4, <2>1, <2>4, <3>1
    <3> QED BY <3>1, <3>2, FieldsReads DEF HasRd, HasRs1, HasRs2
  <2> QED BY <1>5, <2>2, <2>3, <2>4
<1>6. CASE op \in BranchOps
  <2>1. Format(op) = "B" /\ Opcode(op) = 99
    BY <1>6, Formats, Opcodes
  <2>2. BranchType[Funct3(op) + 1] = op
    BY <1>6 DEF BranchOps, BranchType, Funct3
  <2>3. translate(word) = Fields(op, Extended(op, bits), FALSE, TRUE, TRUE)
    BY <1>1, <1>2, <1>3, <1>4, <2>1, <2>2
  <2> QED BY <2>1, <2>3, FieldsReads DEF HasRd, HasRs1, HasRs2
<1>7. CASE op \in LoadOps
  <2>1. Format(op) = "I" /\ Opcode(op) = 3
    BY <1>7, Formats, Opcodes
  <2>2. LoadType[Funct3(op) + 1] = op
    BY <1>7 DEF LoadOps, LoadType, Funct3
  <2>3. translate(word) = Fields(op, Extended(op, bits), TRUE, TRUE, FALSE)
    BY <1>1, <1>2, <1>3, <1>4, <2>1, <2>2
  <2> QED BY <2>1, <2>3, FieldsReads DEF HasRd, HasRs1, HasRs2
<1>8. CASE op \in StoreOps
  <2>1. Format(op) = "S" /\ Opcode(op) = 35
    BY <1>8, Formats, Opcodes
  <2>2. StoreType[Funct3(op) + 1] = op
    BY <1>8 DEF StoreOps, StoreType, Funct3
  <2>3. translate(word) = Fields(op, Extended(op, bits), FALSE, TRUE, TRUE)
    BY <1>1, <1>2, <1>3, <1>4, <2>1, <2>2
  <2> QED BY <2>1, <2>3, FieldsReads DEF HasRd, HasRs1, HasRs2
<1>9. CASE op \in ArithImmOps
  <2>1. Format(op) = "I" /\ Opcode(op) = 19 /\ Imm_I(word) = Extended(op, bits)
    BY <1>2, <1>3, <1>9, Formats, Opcodes
  <2>2. IType(Funct3(op), Extended(op, bits)) = op
    <3>1. CASE op \in ShiftImmOps
      <4>1. \A i \in 5 .. 31 : i \in Extended(op, bits) <=> (op = "SRAI" /\ i = 10)
        BY <3>1, ImmediateFits
      <4>2. Extended(op, bits) \cap (6 .. 31) = {} <=> op # "SRAI"
        BY <4>1
      <4> QED BY <3>1, <4>2 DEF ShiftImmOps, IType, Funct3
    <3>2. CASE op \notin ShiftImmOps
      BY <1>9, <3>2 DEF ArithImmOps, ShiftImmOps, IType, Funct3
    <3> QED BY <3>1, <3>2
  <2>3. translate(word) = Fields(op, Extended(op, bits), TRUE, TRUE, FALSE)
    BY <1>1, <1>4, <2>1, <2>2
  <2> QED BY <2>1, <2>3, FieldsReads DEF HasRd, HasRs1, HasRs2
<1>10. CASE op \in ArithOps
  <2>1. Format(op) = "R" /\ Opcode(op) = 51
    BY <1>10, Formats, Opcodes
  <2>2. Number(Gather(word, 25, 31)) = IF op \in SecondTypes THEN 32 ELSE 0
    <3>1. Number({5}) = 32 /\ Number({}) = 0
      BY DEF Number
    <3> QED BY <1>10, <3>1, UpperPlaces DEF Gather
  <2>3. RType(Funct3(op), IF op \in SecondTypes THEN 32 ELSE 0) = op
    BY <1>10 DEF ArithOps, SecondTypes, RType, Funct3
  <2>4. translate(word) = Fields(op, {}, TRUE, TRUE, TRUE)
    BY <1>1, <1>4, <2>1, <2>2, <2>3
  <2> QED BY <2>1, <2>4, FieldsReads DEF HasRd, HasRs1, HasRs2
<1> QED BY <1>5, <1>6, <1>7, <1>8, <1>9, <1>10 DEF LineInv, Ops

(***************************************************************************)
(* Whatever line is assembled, the sequential and the pipelined simulator  *)
(* read it from the word, but for the one word that ends a simulation.     *)
(***************************************************************************)
THEOREM SimulatorsAlwaysReadLine == Spec => []SimulatorsReadLine
<1>1. LineInv => SimulatorsReadLine
  BY SequentialReadsLine, PipelinedReadsLine DEF SimulatorsReadLine
<1> QED BY <1>1, LinesStay, PTL
=============================================================================
