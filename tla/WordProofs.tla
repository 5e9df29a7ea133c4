----------------------------- MODULE WordProofs -----------------------------
(***************************************************************************)
(* Sums, words and bytes stay in range, for every size of a word.          *)
(***************************************************************************)
EXTENDS Words, WellFoundedInduction, TLAPS

\* A set of natural numbers that is not empty has a least element.
LEMMA LeastElement ==
  ASSUME NEW S \in SUBSET Nat, S # {}
  PROVE  \E m \in S : \A n \in S : m <= n
<1> DEFINE R == OpToRel(<, Nat)
<1>1. IsWellFoundedOn(R, Nat)
  BY NatLessThanWellFounded
<1>2. \E m \in S : \A n \in S : <<n, m>> \notin R
  <2> HIDE DEF R
  <2> QED BY <1>1, WFMin
<1>3. PICK m \in S : \A n \in S : <<n, m>> \notin R
  BY <1>2
<1>4. ASSUME NEW n \in S PROVE m <= n
  <2>1. ~(n < m)
    BY <1>3 DEF OpToRel
  <2> QED BY <2>1
<1> QED BY <1>4

\* Induction over the natural numbers, for a set instead of a predicate.
LEMMA InductiveSet ==
  ASSUME NEW S, 0 \in S, \A n \in Nat : n \in S => n + 1 \in S
  PROVE  \A n \in Nat : n \in S
<1> SUFFICES ASSUME NEW bad \in Nat, bad \notin S
             PROVE  FALSE
  OBVIOUS
<1> DEFINE T == {n \in Nat : n \notin S}
<1>1. T \in SUBSET Nat /\ T # {}
  OBVIOUS
<1>2. PICK m \in T : \A n \in T : m <= n
  <2> HIDE DEF T
  <2> QED BY <1>1, LeastElement
<1>3. m # 0 /\ m - 1 \in Nat /\ m - 1 \notin T
  BY <1>2
<1> QED BY <1>3

(***************************************************************************)
(* The recursive function of Sums exists.                                  *)
(***************************************************************************)

\* p holds the sums of the first values of g, up to that of the first n.
PartialSums(p, g, n) == /\ p \in [0 .. n -> Int]
                        /\ p[0] = 0
                        /\ \A k \in 1 .. n : p[k] = p[k - 1] + g[k - 1]

\* There are partial sums of every length.
LEMMA PartialSumsExist ==
  ASSUME NEW g \in [Nat -> Int]
  PROVE  \A n \in Nat : \E p : PartialSums(p, g, n)
<1> DEFINE S == {n \in Nat : \E p : PartialSums(p, g, n)}
<1>1. 0 \in S
  <2>1. PartialSums([k \in 0 .. 0 |-> 0], g, 0)
    BY DEF PartialSums
  <2> QED BY <2>1
<1>2. ASSUME NEW n \in Nat, n \in S
      PROVE  n + 1 \in S
  <2>1. PICK p : PartialSums(p, g, n)
    BY <1>2
  <2> DEFINE q == [k \in 0 .. n + 1 |-> IF k = n + 1 THEN p[n] + g[n] ELSE p[k]]
  <2>2. p[n] + g[n] \in Int /\ \A k \in 0 .. n : p[k] \in Int
    BY <2>1 DEF PartialSums
  <2>3. q \in [0 .. n + 1 -> Int]
    BY <2>2
  <2>4. q[0] = 0
    BY <2>1 DEF PartialSums
  <2>5. ASSUME NEW k \in 1 .. n + 1
        PROVE  q[k] = q[k - 1] + g[k - 1]
    <3>1. CASE k = n + 1
      BY <3>1
    <3>2. CASE k # n + 1
      <4>1. k \in 1 .. n /\ k - 1 \in 0 .. n /\ k - 1 # n + 1
        BY <3>2
      <4>2. q[k] = p[k] /\ q[k - 1] = p[k - 1]
        BY <4>1, <3>2
      <4> QED BY <4>1, <4>2, <2>1 DEF PartialSums
    <3> QED BY <3>1, <3>2
  <2>6. PartialSums(q, g, n + 1)
    BY <2>3, <2>4, <2>5 DEF PartialSums
  <2> HIDE DEF q
  <2> QED BY <2>6
<1> HIDE DEF S
<1>3. \A n \in Nat : n \in S
  BY <1>1, <1>2, InductiveSet
<1> QED BY <1>3 DEF S

\* Partial sums of different lengths agree where both are defined.
LEMMA PartialSumsAgree ==
  ASSUME NEW g \in [Nat -> Int], NEW m \in Nat, NEW n \in Nat, NEW p, NEW q,
         PartialSums(p, g, m), PartialSums(q, g, n)
  PROVE  \A k \in Nat : k <= m /\ k <= n => p[k] = q[k]
<1> DEFINE S == {k \in Nat : k <= m /\ k <= n => p[k] = q[k]}
<1>1. 0 \in S
  BY DEF PartialSums
<1>2. ASSUME NEW k \in Nat, k \in S
      PROVE  k + 1 \in S
  <2> SUFFICES ASSUME k + 1 <= m, k + 1 <= n
               PROVE  p[k + 1] = q[k + 1]
    OBVIOUS
  <2>1. k + 1 \in 1 .. m /\ k + 1 \in 1 .. n /\ k + 1 - 1 = k /\ k <= m /\ k <= n
    OBVIOUS
  <2>2. p[k] = q[k]
    BY <1>2, <2>1
  <2>3. p[k + 1] = p[k] + g[k] /\ q[k + 1] = q[k] + g[k]
    BY <2>1 DEF PartialSums
  <2> QED BY <2>2, <2>3
<1> HIDE DEF S
<1>3. \A k \in Nat : k \in S
  BY <1>1, <1>2, InductiveSet
<1> QED BY <1>3 DEF S

\* Sums(g)[n] is the sum of the first n values of g.
LEMMA SumsDefined ==
  ASSUME NEW g \in [Nat -> Int]
  PROVE  /\ Sums(g) \in [Nat -> Int]
         /\ Sums(g)[0] = 0
         /\ \A n \in Nat : Sums(g)[n + 1] = Sums(g)[n] + g[n]
<1> DEFINE part(n) == CHOOSE p : PartialSums(p, g, n)
           f == [n \in Nat |-> part(n)[n]]
<1>1. \A n \in Nat : PartialSums(part(n), g, n)
  BY PartialSumsExist
<1> HIDE DEF part
<1>2. f \in [Nat -> Int] /\ f[0] = 0
  BY <1>1 DEF PartialSums
<1>3. ASSUME NEW n \in Nat
      PROVE  f[n + 1] = f[n] + g[n]
  <2>1. part(n + 1)[n + 1] = part(n + 1)[n] + g[n]
    BY <1>1 DEF PartialSums
  <2>2. part(n + 1)[n] = part(n)[n]
    BY <1>1, PartialSumsAgree
  <2> QED BY <2>1, <2>2
<1>4. f = [n \in Nat |-> IF n = 0 THEN 0 ELSE f[n - 1] + g[n - 1]]
  <2> DEFINE h == [n \in Nat |-> IF n = 0 THEN 0 ELSE f[n - 1] + g[n - 1]]
  <2>1. ASSUME NEW n \in Nat PROVE f[n] = h[n]
    <3>1. CASE n = 0
      BY <3>1, <1>2
    <3>2. CASE n # 0
      <4>1. n - 1 \in Nat /\ (n - 1) + 1 = n
        BY <3>2
      <4>2. f[n] = f[n - 1] + g[n - 1]
        BY <4>1, <1>3
      <4> QED BY <3>2, <4>2
    <3> QED BY <3>1, <3>2
  <2>2. f = [n \in Nat |-> f[n]] /\ h = [n \in Nat |-> h[n]]
    OBVIOUS
  <2> QED BY <2>1, <2>2
<1> HIDE DEF f
<1>5. Sums(g) = [n \in Nat |-> IF n = 0 THEN 0 ELSE Sums(g)[n - 1] + g[n - 1]]
  BY <1>4 DEF Sums
<1> DEFINE s == Sums(g)
<1>6. s = [n \in Nat |-> IF n = 0 THEN 0 ELSE s[n - 1] + g[n - 1]]
  BY <1>5
<1> HIDE DEF s
<1>7. s[0] = 0 /\ \A n \in Nat : s[n + 1] = s[n] + g[n]
  <2>1. s[0] = 0
    BY <1>6
  <2>2. ASSUME NEW n \in Nat PROVE s[n + 1] = s[n] + g[n]
    <3>1. n + 1 \in Nat /\ n + 1 # 0 /\ n + 1 - 1 = n
      OBVIOUS
    <3> QED BY <1>6, <3>1
  <2> QED BY <2>1, <2>2
<1>8. \A n \in Nat : s[n] \in Int
  <2> DEFINE S == {n \in Nat : s[n] \in Int}
  <2>1. 0 \in S
    BY <1>7
  <2>2. \A n \in Nat : n \in S => n + 1 \in S
    BY <1>7
  <2> HIDE DEF S
  <2>3. \A n \in Nat : n \in S
    BY <2>1, <2>2, InductiveSet
  <2> QED BY <2>3 DEF S
<1>9. s \in [Nat -> Int]
  <2>1. s = [n \in Nat |-> s[n]]
    BY <1>6
  <2> QED BY <2>1, <1>8
<1> QED BY <1>7, <1>9 DEF s

(***************************************************************************)
(* Powers of two up to the size of a word.                                 *)
(***************************************************************************)
\* What the arithmetic of words rests on: the powers grow, and the modulus of
\* a word is at least 2.
LEMMA Powers ==
  /\ 2^XLEN \in Nat /\ 2^XLEN >= 2
  /\ \A n \in 0 .. XLEN : 2^n \in Nat /\ 2^n >= 1 /\ 2^n <= 2^XLEN
  /\ \A n \in 0 .. XLEN - 1 : 2^(n + 1) = 2 * 2^n
<1>1. XLEN \in Nat /\ XLEN >= 1
  BY WordAssumption DEF WordAssumption
<1>2. \A n \in 0 .. XLEN : 2^n \in Nat /\ 2^n >= 1
  BY PowerAssumption, <1>1 DEF PowerAssumption
<1>3. ASSUME NEW n \in 0 .. XLEN
      PROVE  2^n <= 2^XLEN
  <2>1. XLEN - n \in 0 .. XLEN /\ n + (XLEN - n) = XLEN /\ n + (XLEN - n) <= XLEN
    BY <1>1
  <2>2. 2^(n + (XLEN - n)) = 2^n * 2^(XLEN - n)
    BY <2>1, PowerAssumption DEF PowerAssumption
  <2>3. 2^XLEN = 2^n * 2^(XLEN - n)
    BY <2>1, <2>2
  <2> DEFINE a == 2^n
             b == 2^(XLEN - n)
  <2>4. a \in Nat /\ b \in Nat /\ b >= 1 /\ 2^XLEN = a * b
    BY <1>2, <2>1, <2>3
  <2> HIDE DEF a, b
  <2>5. a <= a * b
    BY <2>4
  <2>6. a <= 2^XLEN
    BY <2>4, <2>5
  <2> QED BY <2>6 DEF a
<1>4. ASSUME NEW n \in 0 .. XLEN - 1
      PROVE  2^(n + 1) = 2 * 2^n
  <2>1. n \in 0 .. XLEN /\ 1 \in 0 .. XLEN /\ 1 + n <= XLEN /\ n + 1 = 1 + n
    BY <1>1
  <2>2. 2^(1 + n) = 2^1 * 2^n
    BY <2>1, PowerAssumption DEF PowerAssumption
  <2>3. 2^1 = 2
    OBVIOUS
  <2> QED BY <2>1, <2>2, <2>3
<1>5. 2^XLEN >= 2
  BY <1>1, <1>3, 1 \in 0 .. XLEN, 2^1 = 2
<1>6. XLEN \in 0 .. XLEN
  BY <1>1
<1> QED BY <1>2, <1>3, <1>4, <1>5, <1>6

\* A remainder is smaller than the divisor.
LEMMA Remainder ==
  ASSUME NEW a \in Int, NEW m \in Nat, m >= 1
  PROVE  a % m \in 0 .. m - 1
  OBVIOUS

\* What is left of a number when as many times the divisor as fit are taken off it.
LEMMA RemainderIs ==
  ASSUME NEW m \in Nat, m >= 1, NEW q \in Int, NEW r \in 0 .. m - 1
  PROVE  (m * q + r) % m = r
<1> DEFINE x == m * q + r
           d == x \div m
           e == x % m
<1>1. x \in Int
  OBVIOUS
<1>2. d \in Int /\ e \in 0 .. m - 1 /\ x = m * d + e
  <2> HIDE DEF x
  <2> QED BY <1>1
<1> HIDE DEF d, e
<1>3. m * d + e = m * q + r
  BY <1>2
<1>4. ASSUME d >= q + 1 PROVE FALSE
  <2>1. m * d >= m * (q + 1)
    BY <1>2, <1>4
  <2>2. m * (q + 1) = m * q + m
    OBVIOUS
  <2> QED BY <1>2, <1>3, <2>1, <2>2
<1>5. ASSUME q >= d + 1 PROVE FALSE
  <2>1. m * q >= m * (d + 1)
    BY <1>2, <1>5
  <2>2. m * (d + 1) = m * d + m
    BY <1>2
  <2> QED BY <1>2, <1>3, <2>1, <2>2
<1>6. d = q
  BY <1>2, <1>4, <1>5
<1>7. e = r
  BY <1>2, <1>3, <1>6
<1> QED BY <1>7 DEF e

\* A remainder does not see what the divisor divides.
LEMMA RemainderShift ==
  ASSUME NEW m \in Nat, m >= 1, NEW x \in Int, NEW q \in Int
  PROVE  (x + m * q) % m = x % m
<1> DEFINE d == x \div m
           e == x % m
<1>1. d \in Int /\ e \in 0 .. m - 1 /\ x = m * d + e
  OBVIOUS
<1> HIDE DEF d, e
<1>2. m * (d + q) = m * d + m * q /\ d + q \in Int
  BY <1>1
<1>3. x + m * q = m * (d + q) + e
  BY <1>1, <1>2
<1>4. (m * (d + q) + e) % m = e
  BY <1>1, <1>2, RemainderIs
<1> QED BY <1>3, <1>4 DEF e

\* A remainder of something added may be taken before or after.
LEMMA RemainderAdds ==
  ASSUME NEW m \in Nat, m >= 1, NEW a \in Int, NEW b \in Int
  PROVE  ((a % m) + b) % m = (a + b) % m
<1> DEFINE d == a \div m
           e == a % m
<1>1. d \in Int /\ e \in Int /\ a = m * d + e
  OBVIOUS
<1> HIDE DEF d, e
<1>2. a + b = (e + b) + m * d /\ e + b \in Int
  BY <1>1
<1>3. ((e + b) + m * d) % m = (e + b) % m
  BY <1>1, <1>2, RemainderShift
<1> QED BY <1>2, <1>3 DEF e

\* Something smaller than the divisor is left as it is.
LEMMA RemainderSmall ==
  ASSUME NEW m \in Nat, m >= 1, NEW r \in 0 .. m - 1
  PROVE  r % m = r
<1>1. m * 0 + r = r
  OBVIOUS
<1> QED BY <1>1, RemainderIs

\* A quotient is no larger than what was divided.
LEMMA Quotient ==
  ASSUME NEW a \in Nat, NEW d \in Nat, d >= 1
  PROVE  a \div d \in 0 .. a
<1>1. a \div d \in Int /\ d * (a \div d) <= a /\ a < d * (a \div d) + d
  OBVIOUS
<1> DEFINE q == a \div d
<1> HIDE DEF q
<1>2. q \in Int /\ d * q <= a /\ a < d * q + d
  BY <1>1 DEF q
<1>3. q >= 0
  <2> SUFFICES ASSUME q <= -1 PROVE FALSE
    BY <1>2
  <2>1. d * q <= d * (-1)
    BY <1>2
  <2> QED BY <2>1, <1>2
<1>4. q <= a
  <2>1. q <= d * q
    BY <1>2, <1>3
  <2> QED BY <2>1, <1>2
<1> QED BY <1>2, <1>3, <1>4 DEF q

\* The operators on words return words.
LEMMA WordArithmetic ==
  /\ 0 \in Word /\ 1 \in Word /\ Word \subseteq Nat
  /\ \A a \in Word : a \in Nat /\ a \in Int
  /\ \A a, b \in Int : Add(a, b) \in Word /\ Sub(a, b) \in Word
  /\ \A b : Flag(b) \in Word
  /\ \A a \in Word : Signed(a) \in Int
<1>1. 0 \in Word /\ 1 \in Word /\ Word \subseteq Nat
  BY Powers DEF Word
<1>2. ASSUME NEW a \in Int, NEW b \in Int
      PROVE  Add(a, b) \in Word /\ Sub(a, b) \in Word
  <2> DEFINE m == 2^XLEN
  <2>1. m \in Nat /\ m >= 1
    BY Powers
  <2> HIDE DEF m
  <2>2. (a + b) % m \in 0 .. m - 1 /\ (a - b) % m \in 0 .. m - 1
    BY <2>1, Remainder
  <2> QED BY <2>2 DEF Word, Add, Sub, m
<1>3. \A b : Flag(b) \in Word
  BY <1>1 DEF Flag
<1>4. \A a \in Word : Signed(a) \in Int
  BY <1>1, Powers DEF Signed
<1> QED BY <1>1, <1>2, <1>3, <1>4

\* Sums and differences of words are words.
LEMMA AddWord ==
  \A a, b \in Word : Add(a, b) \in Word /\ Sub(a, b) \in Word /\ Add(a, INST_BYTES) \in Word
<1>1. INST_BYTES \in Int
  BY WordAssumption DEF WordAssumption
<1> QED BY <1>1, WordArithmetic, Zenon

\* The bits of a word fit in a word: a sum of different powers of two stays
\* below the next power.
LEMMA FromBitsWord ==
  ASSUME NEW S
  PROVE  FromBits(S) \in Word
<1> DEFINE g == [i \in Nat |-> IF i \in S THEN 2^i ELSE 0]
           T == {n \in Nat : n <= XLEN => Sums(g)[n] \in Nat /\ Sums(g)[n] < 2^n}
<1>1. XLEN \in Nat
  BY WordAssumption DEF WordAssumption
<1>2. g \in [Nat -> Int]
  OBVIOUS
<1>3. \A n \in 0 .. XLEN : g[n] \in Nat /\ g[n] <= 2^n
  BY Powers, <1>1
<1> HIDE DEF g
<1>4. 0 \in T
  BY <1>2, SumsDefined, 2^0 = 1
<1>5. ASSUME NEW n \in Nat, n \in T
      PROVE  n + 1 \in T
  <2> SUFFICES ASSUME n + 1 <= XLEN
               PROVE  Sums(g)[n + 1] \in Nat /\ Sums(g)[n + 1] < 2^(n + 1)
    OBVIOUS
  <2>1. n \in 0 .. XLEN - 1 /\ n \in 0 .. XLEN
    BY <1>1
  <2>2. Sums(g)[n] \in Nat /\ Sums(g)[n] < 2^n
    BY <1>5, <2>1
  <2>3. Sums(g)[n + 1] = Sums(g)[n] + g[n]
    BY <1>2, SumsDefined
  <2>4. 2^(n + 1) = 2 * 2^n /\ 2^n \in Nat
    BY <2>1, Powers
  <2>5. g[n] \in Nat /\ g[n] <= 2^n
    BY <2>1, <1>3
  <2> QED BY <2>2, <2>3, <2>4, <2>5
<1> HIDE DEF T
<1>6. XLEN \in T
  BY <1>1, <1>4, <1>5, InductiveSet
<1>7. Sums(g)[XLEN] \in Nat /\ Sums(g)[XLEN] < 2^XLEN
  BY <1>1, <1>6 DEF T
<1> QED BY <1>7, Powers DEF g, FromBits, Word

(***************************************************************************)
(* Bytes.                                                                  *)
(***************************************************************************)
\* A word is WORD_BYTES bytes, and what k of them can hold fits in a word.
LEMMA BytePowers ==
  /\ WORD_BYTES \in Nat /\ WORD_BYTES >= 1
  /\ \A k \in 0 .. WORD_BYTES : BYTE_BITS * k \in 0 .. XLEN
  /\ 2^BYTE_BITS \in Nat /\ 2^BYTE_BITS >= 1 /\ 2^BYTE_BITS <= 2^XLEN
  /\ \A k \in 0 .. WORD_BYTES : /\ 2^(BYTE_BITS * k) \in Nat /\ 2^(BYTE_BITS * k) >= 1
                               /\ 2^(BYTE_BITS * k) <= 2^XLEN
  /\ \A k \in 0 .. WORD_BYTES - 1 :
       2^(BYTE_BITS * (k + 1)) = 2^BYTE_BITS * 2^(BYTE_BITS * k)
  /\ Byte \subseteq Word
<1>1. /\ XLEN \in Nat /\ XLEN >= 1 /\ BYTE_BITS \in Nat /\ BYTE_BITS >= 1
      /\ XLEN % BYTE_BITS = 0
  BY WordAssumption DEF WordAssumption
<1>2. WORD_BYTES \in Nat /\ BYTE_BITS * WORD_BYTES = XLEN
  <2>1. XLEN \div BYTE_BITS \in 0 .. XLEN
    BY <1>1, Quotient
  <2>2. BYTE_BITS * (XLEN \div BYTE_BITS) + (XLEN % BYTE_BITS) = XLEN
    BY <1>1
  <2> QED BY <1>1, <2>1, <2>2 DEF WORD_BYTES
<1>3. WORD_BYTES >= 1
  BY <1>1, <1>2
<1>4. ASSUME NEW k \in 0 .. WORD_BYTES
      PROVE  BYTE_BITS * k \in 0 .. XLEN
  <2>1. BYTE_BITS * k <= BYTE_BITS * WORD_BYTES
    BY <1>1, <1>2
  <2> QED BY <2>1, <1>1, <1>2
<1>5. BYTE_BITS \in 0 .. XLEN
  BY <1>1, <1>3, <1>4, BYTE_BITS * 1 = BYTE_BITS
<1>6. 2^BYTE_BITS \in Nat /\ 2^BYTE_BITS >= 1 /\ 2^BYTE_BITS <= 2^XLEN
  BY <1>5, Powers
<1>7. ASSUME NEW k \in 0 .. WORD_BYTES - 1
      PROVE  2^(BYTE_BITS * (k + 1)) = 2^BYTE_BITS * 2^(BYTE_BITS * k)
  <2>1. BYTE_BITS * (k + 1) = BYTE_BITS + BYTE_BITS * k
    BY <1>1
  <2>2. BYTE_BITS * k \in 0 .. XLEN /\ BYTE_BITS * (k + 1) \in 0 .. XLEN
    BY <1>2, <1>4
  <2> QED BY <1>5, <2>1, <2>2, PowerAssumption DEF PowerAssumption
<1>8. Byte \subseteq Word
  BY <1>6, Powers DEF Byte, Word
<1> QED BY <1>2, <1>3, <1>4, <1>6, <1>7, <1>8, Powers

\* A word has fewer bytes than values.
LEMMA FewBytes == WORD_BYTES < 2^XLEN
<1> DEFINE T == {n \in Nat : n <= XLEN => n < 2^n}
<1>1. XLEN \in Nat /\ XLEN >= 1
  BY WordAssumption DEF WordAssumption
<1>2. 0 \in T
  BY 2^0 = 1
<1>3. ASSUME NEW n \in Nat, n \in T
      PROVE  n + 1 \in T
  <2> SUFFICES ASSUME n + 1 <= XLEN PROVE n + 1 < 2^(n + 1)
    OBVIOUS
  <2> DEFINE p == 2^n
  <2>1. n < p /\ p \in Nat /\ 2^(n + 1) = 2 * p
    BY <1>1, <1>3, Powers
  <2> HIDE DEF p
  <2> QED BY <2>1
<1> HIDE DEF T
<1>4. XLEN \in T
  BY <1>1, <1>2, <1>3, InductiveSet
<1>5. XLEN < 2^XLEN
  BY <1>1, <1>4 DEF T
<1>6. WORD_BYTES <= XLEN
  <2>1. BYTE_BITS * WORD_BYTES \in 0 .. XLEN /\ WORD_BYTES \in Nat
    BY BytePowers
  <2>2. BYTE_BITS \in Nat /\ BYTE_BITS >= 1
    BY WordAssumption DEF WordAssumption
  <2>3. WORD_BYTES <= BYTE_BITS * WORD_BYTES
    BY <2>1, <2>2
  <2> QED BY <1>1, <2>1, <2>3
<1> QED BY <1>1, <1>5, <1>6, BytePowers, Powers

\* The k-th byte after an address is k bytes after it.
LEMMA ByteAfter ==
  ASSUME NEW a \in Word, NEW k \in 0 .. WORD_BYTES - 1
  PROVE  Sub(Add(a, k), a) = k
<1> DEFINE m == 2^XLEN
<1>1. m \in Nat /\ m >= 1 /\ a \in Nat
  BY Powers, WordArithmetic
<1>2. k \in 0 .. m - 1
  BY <1>1, FewBytes, BytePowers
<1> HIDE DEF m
<1>3. PICK x, c \in Int : x = a + k /\ c = 0 - a
  BY <1>1, <1>2
<1>4. ((x % m) + c) % m = (x + c) % m
  BY <1>1, RemainderAdds
<1>5. x % m \in Int /\ x + c = k /\ (x % m) + c = (x % m) - a
  <2>1. x % m \in 0 .. m - 1
    BY <1>1, Remainder
  <2> QED BY <1>1, <1>2, <1>3, <2>1
<1>6. k % m = k
  BY <1>1, <1>2, RemainderSmall
<1> QED BY <1>3, <1>4, <1>5, <1>6 DEF Add, Sub, m

\* The bytes of a word are bytes.
LEMMA ByteOfByte ==
  ASSUME NEW w \in Word, NEW k \in 0 .. WORD_BYTES
  PROVE  ByteOf(w, k) \in Byte
<1> DEFINE d == 2^(BYTE_BITS * k)
           m == 2^BYTE_BITS
<1>1. d \in Nat /\ d >= 1 /\ m \in Nat /\ m >= 1
  BY BytePowers
<1> HIDE DEF d, m
<1>2. w \in Nat
  BY WordArithmetic
<1>3. w \div d \in 0 .. w
  BY <1>1, <1>2, Quotient
<1>4. (w \div d) % m \in 0 .. m - 1
  BY <1>1, <1>3, Remainder
<1> QED BY <1>4 DEF ByteOf, Byte, d, m

\* A memory of bytes stays one under stores.
LEMMA WriteBytesMemory ==
  ASSUME NEW memory \in [Word -> Byte], NEW address \in Word, NEW n \in 0 .. WORD_BYTES,
         NEW w \in Word
  PROVE  WriteBytes(memory, address, n, w) \in [Word -> Byte]
<1> SUFFICES ASSUME NEW x \in Word
             PROVE  (IF Sub(x, address) < n THEN ByteOf(w, Sub(x, address)) ELSE memory[x]) \in Byte
  BY DEF WriteBytes
<1>1. Sub(x, address) \in Nat
  <2>1. x \in Int /\ address \in Int
    BY WordArithmetic
  <2> QED BY <2>1, WordArithmetic
<1>2. CASE Sub(x, address) < n
  <2>1. Sub(x, address) \in 0 .. WORD_BYTES
    BY <1>1, <1>2, BytePowers
  <2> QED BY <1>2, <2>1, ByteOfByte
<1>3. CASE ~(Sub(x, address) < n)
  BY <1>3
<1> QED BY <1>2, <1>3

\* n bytes of a memory, read as a word, are a word.
LEMMA ReadBytesWord ==
  ASSUME NEW memory \in [Word -> Byte], NEW address \in Word, NEW n \in 0 .. WORD_BYTES
  PROVE  ReadBytes(memory, address, n) \in Word
<1> DEFINE g == [k \in Nat |-> memory[Add(address, k)] * 2^(BYTE_BITS * k)]
           T == {k \in Nat : k <= WORD_BYTES =>
                   Sums(g)[k] \in Nat /\ Sums(g)[k] < 2^(BYTE_BITS * k)}
           b == 2^BYTE_BITS
<1>1. ASSUME NEW k \in Nat PROVE memory[Add(address, k)] \in Byte
  <2>1. address \in Int /\ k \in Int
    BY WordArithmetic
  <2>2. Add(address, k) \in Word
    BY <2>1, WordArithmetic
  <2> QED BY <2>2
<1>2. b \in Nat /\ b >= 1 /\ WORD_BYTES \in Nat
  BY BytePowers
<1>3. \A k \in Nat : memory[Add(address, k)] \in 0 .. b - 1
  BY <1>1 DEF Byte
<1>4. g \in [Nat -> Int]
  <2> SUFFICES ASSUME NEW k \in Nat PROVE memory[Add(address, k)] * 2^(BYTE_BITS * k) \in Int
    OBVIOUS
  <2>1. BYTE_BITS * k \in Nat
    BY WordAssumption DEF WordAssumption
  <2>2. 2^(BYTE_BITS * k) \in Int
    BY <2>1
  <2>3. memory[Add(address, k)] \in Int
    BY <1>2, <1>3
  <2> QED BY <2>2, <2>3
<1>5. \A k \in Nat : g[k] = memory[Add(address, k)] * 2^(BYTE_BITS * k)
  OBVIOUS
<1> HIDE DEF g, b
<1>6. 0 \in T
  <2>1. BYTE_BITS * 0 = 0
    BY WordAssumption DEF WordAssumption
  <2>2. 2^(BYTE_BITS * 0) = 1
    BY <2>1, 2^0 = 1
  <2>3. Sums(g)[0] = 0
    BY <1>4, SumsDefined
  <2> QED BY <2>2, <2>3
<1>7. ASSUME NEW k \in Nat, k \in T
      PROVE  k + 1 \in T
  <2> SUFFICES ASSUME k + 1 <= WORD_BYTES
               PROVE  /\ Sums(g)[k + 1] \in Nat
                      /\ Sums(g)[k + 1] < 2^(BYTE_BITS * (k + 1))
    OBVIOUS
  <2> DEFINE p == 2^(BYTE_BITS * k)
             v == memory[Add(address, k)]
  <2>1. k \in 0 .. WORD_BYTES - 1 /\ k \in 0 .. WORD_BYTES
    BY <1>2
  <2>2. Sums(g)[k] \in Nat /\ Sums(g)[k] < p
    BY <1>7, <2>1
  <2>3. Sums(g)[k + 1] = Sums(g)[k] + v * p
    BY <1>4, <1>5, SumsDefined
  <2>4. 2^(BYTE_BITS * (k + 1)) = b * p /\ p \in Nat
    BY <2>1, BytePowers DEF b
  <2>5. v \in 0 .. b - 1
    BY <1>3
  <2> HIDE DEF p, v
  <2>6. v * p \in Nat /\ v * p + p <= b * p
    <3>1. v + 1 <= b /\ v + 1 \in Nat /\ v \in Nat
      BY <2>5, <1>2
    <3>2. (v + 1) * p <= b * p
      BY <3>1, <2>4, <1>2
    <3>3. (v + 1) * p = v * p + p /\ v * p \in Nat
      BY <3>1, <2>4
    <3> QED BY <3>2, <3>3
  <2>7. b * p \in Nat
    BY <2>4, <1>2
  <2> QED BY <2>2, <2>3, <2>4, <2>6, <2>7
<1> HIDE DEF T
<1>8. n \in T
  BY <1>6, <1>7, InductiveSet
<1>9. Sums(g)[n] \in Nat /\ Sums(g)[n] < 2^(BYTE_BITS * n)
  BY <1>2, <1>8 DEF T
<1>10. 2^(BYTE_BITS * n) <= 2^XLEN /\ 2^(BYTE_BITS * n) \in Nat /\ 2^XLEN \in Nat
  BY BytePowers, Powers
<1> QED BY <1>9, <1>10 DEF g, ReadBytes, Word

\* How many bytes an access moves.
LEMMA GoalBytes ==
  ASSUME NEW op
  PROVE  Goal(op) \in 0 .. WORD_BYTES
<1>1. WORD_BYTES \in Nat /\ WORD_BYTES >= 1
  BY BytePowers
<1>2. WORD_BYTES \div 2 \in 0 .. WORD_BYTES
  BY <1>1, Quotient
<1> QED BY <1>1, <1>2 DEF Goal

\* What a load makes of the bytes it read is a word.
LEMMA LoadResultWord ==
  ASSUME NEW op, NEW w \in Word
  PROVE  LoadResult(op, w) \in Word
<1> DEFINE n == Goal(op)
           m == 2^(BYTE_BITS * n)
<1>1. n \in 0 .. WORD_BYTES
  BY GoalBytes
<1>2. m \in Nat /\ m >= 1 /\ m <= 2^XLEN /\ 2^XLEN \in Nat
  BY <1>1, BytePowers, Powers
<1>3. w \in Nat
  BY WordArithmetic
<1>4. w % m \in Word
  <2> HIDE DEF m
  <2>1. w % m \in 0 .. m - 1
    BY <1>2, <1>3, Remainder
  <2> QED BY <1>2, <2>1 DEF Word
<1>5. SignExtend(w, n) \in Word
  <2> DEFINE low == w % m
  <2>1. low \in Int /\ m \in Int
    BY <1>2, <1>4, WordArithmetic
  <2>2. Sub(low, m) \in Word
    BY <2>1, WordArithmetic
  <2>3. SignExtend(w, n) = IF low < 2^(BYTE_BITS * n - 1) THEN low ELSE Sub(low, m)
    BY DEF SignExtend
  <2> HIDE DEF low, m, n
  <2> QED BY <1>4, <2>2, <2>3 DEF low
<1>6. 0 \in Word
  BY WordArithmetic
<1>7. LoadResult(op, w) = SignExtend(w, n) \/ LoadResult(op, w) = w % m \/ LoadResult(op, w) = 0
  <2> HIDE DEF n
  <2>1. CASE op \in {"LB", "LH"}
    BY <2>1 DEF LoadResult, n
  <2>2. CASE op \in {"LBU", "LHU", "LW"}
    BY <2>2 DEF LoadResult, n
  <2>3. CASE op \notin {"LB", "LH"} /\ op \notin {"LBU", "LHU", "LW"}
    BY <2>3 DEF LoadResult
  <2> QED BY <2>1, <2>2, <2>3
<1> QED BY <1>4, <1>5, <1>6, <1>7

\* Reading a byte more.
LEMMA ReadNext ==
  ASSUME NEW memory \in [Word -> Byte], NEW address \in Word
  PROVE  /\ ReadBytes(memory, address, 0) = 0
         /\ \A n \in Nat : ReadBytes(memory, address, n + 1)
                             = ReadBytes(memory, address, n) + memory[Add(address, n)] * 2^(BYTE_BITS * n)
<1> DEFINE g == [k \in Nat |-> memory[Add(address, k)] * 2^(BYTE_BITS * k)]
<1>1. g \in [Nat -> Int]
  <2> SUFFICES ASSUME NEW k \in Nat PROVE memory[Add(address, k)] * 2^(BYTE_BITS * k) \in Int
    OBVIOUS
  <2>1. BYTE_BITS * k \in Nat
    BY WordAssumption DEF WordAssumption
  <2>2. 2^(BYTE_BITS * k) \in Int
    BY <2>1
  <2>3. address \in Int /\ k \in Int
    BY WordArithmetic
  <2>4. Add(address, k) \in Word
    BY <2>3, WordArithmetic
  <2>5. memory[Add(address, k)] \in Int
    BY <2>4, BytePowers DEF Byte
  <2> QED BY <2>2, <2>5
<1>2. \A n \in Nat : g[n] = memory[Add(address, n)] * 2^(BYTE_BITS * n)
  OBVIOUS
<1>3. \A n : ReadBytes(memory, address, n) = Sums(g)[n]
  BY DEF ReadBytes
<1> HIDE DEF g
<1> QED BY <1>1, <1>2, <1>3, SumsDefined

\* An address is as far after another as it is from it.
LEMMA AfterIt ==
  ASSUME NEW x \in Word, NEW a \in Word
  PROVE  Add(a, Sub(x, a)) = x
<1> DEFINE m == 2^XLEN
<1>1. m \in Nat /\ m >= 1 /\ a \in Int /\ x \in 0 .. m - 1
  BY Powers, WordArithmetic DEF Word
<1> HIDE DEF m
<1>2. PICK y \in Int : y = x - a
  BY <1>1
<1>3. ((y % m) + a) % m = (y + a) % m
  BY <1>1, RemainderAdds
<1>4. y + a = x /\ x % m = x
  BY <1>1, <1>2, RemainderSmall
<1>5. y % m \in Int
  BY <1>1, <1>2
<1>6. Add(a, y % m) = ((y % m) + a) % m
  BY <1>1, <1>5 DEF Add, m
<1>7. Sub(x, a) = y % m
  BY <1>2 DEF Sub, m
<1>8. Add(a, y % m) = x
  BY <1>3, <1>4, <1>6, Zenon
<1> QED BY <1>7, <1>8, Zenon

\* Writing a byte more.
LEMMA WriteNext ==
  ASSUME NEW memory \in [Word -> Byte], NEW address \in Word, NEW w \in Word
  PROVE  /\ WriteBytes(memory, address, 0, w) = memory
         /\ \A n \in 0 .. WORD_BYTES - 1 :
              WriteBytes(memory, address, n + 1, w)
                = [WriteBytes(memory, address, n, w) EXCEPT ![Add(address, n)] = ByteOf(w, n)]
<1>1. \A x \in Word : Sub(x, address) \in Nat
  BY WordArithmetic
<1>2. DOMAIN memory = Word
  OBVIOUS
<1>3. WriteBytes(memory, address, 0, w) = memory
  BY <1>1, <1>2 DEF WriteBytes
<1>4. ASSUME NEW n \in 0 .. WORD_BYTES - 1
      PROVE  WriteBytes(memory, address, n + 1, w)
               = [WriteBytes(memory, address, n, w) EXCEPT ![Add(address, n)] = ByteOf(w, n)]
  <2>1. \A x \in Word : x = Add(address, n) <=> Sub(x, address) = n
    BY <1>4, AfterIt, ByteAfter
  <2>2. \A x \in Word : Sub(x, address) < n + 1 <=> Sub(x, address) < n \/ Sub(x, address) = n
    BY <1>1, BytePowers
  <2>3. \A k : WriteBytes(memory, address, k, w)
          = [x \in Word |-> IF Sub(x, address) < k THEN ByteOf(w, Sub(x, address)) ELSE memory[x]]
    BY <1>2 DEF WriteBytes
  <2> QED BY <2>1, <2>2, <2>3
<1> QED BY <1>3, <1>4
=============================================================================
