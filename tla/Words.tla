------------------------------- MODULE Words --------------------------------
(***************************************************************************)
(* The bits and the bytes of a word, and of a memory that holds one byte   *)
(* per address, the lowest byte of a word first.                           *)
(***************************************************************************)
EXTENDS Rv32, FiniteSetsExt

\* Sums(g)[n] is the sum of the first n values of g.
Sums(g) == LET sum[n \in Nat] == IF n = 0 THEN 0 ELSE sum[n - 1] + g[n - 1]
           IN sum

Bits(w)     == {i \in 0 .. XLEN - 1 : (w \div 2^i) % 2 = 1}
FromBits(S) == Sums([i \in Nat |-> IF i \in S THEN 2^i ELSE 0])[XLEN]

ByteOf(w, k) == (w \div 2^(BYTE_BITS * k)) % 2^BYTE_BITS

\* The n bytes of memory from address on, as a word; the higher bytes are 0.
ReadBytes(memory, address, n) ==
  Sums([k \in Nat |-> memory[Add(address, k)] * 2^(BYTE_BITS * k)])[n]

\* Memory after the n low bytes of w are stored from address on.
WriteBytes(memory, address, n, w) ==
  [x \in DOMAIN memory |->
     LET k == Sub(x, address) IN IF k < n THEN ByteOf(w, k) ELSE memory[x]]

\* The low n bytes of w, extended by the highest bit of them.
SignExtend(w, n) == LET low == w % 2^(BYTE_BITS * n)
                    IN IF low < 2^(BYTE_BITS * n - 1) THEN low
                       ELSE Sub(low, 2^(BYTE_BITS * n))

(***************************************************************************)
(* How many bytes an access moves (lsb_goal_out), and what a load makes of *)
(* them.                                                                   *)
(***************************************************************************)
Goal(op) == CASE op \in {"LB", "LBU", "SB"} -> 1
              [] op \in {"LH", "LHU", "SH"} -> WORD_BYTES \div 2
              [] op \in {"LW", "SW"}        -> WORD_BYTES
              [] OTHER                      -> 0

LoadResult(op, w) == CASE op \in {"LB", "LH"}         -> SignExtend(w, Goal(op))
                       [] op \in {"LBU", "LHU", "LW"} -> w % 2^(BYTE_BITS * Goal(op))
                       [] OTHER                       -> 0
=============================================================================
