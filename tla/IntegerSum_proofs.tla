------------------------- MODULE IntegerSum_proofs -------------------------
(***************************************************************************)
(* Proofs about IntegerSum, for any word, any group of bits, any lists and *)
(* any cut.  First the functions defined by recursion satisfy their        *)
(* equations (module Recursion), then a varint is read as it was written,  *)
(* then the invariant says what of the list is left in the payload.        *)
(***************************************************************************)
EXTENDS IntegerSum, Recursion

-----------------------------------------------------------------------------
(* Powers of two.                                                          *)

\* Two is the function its definition describes.
LEMMA TwoDef ==
    /\ Two \in [Nat -> Nat]
    /\ \A n \in Nat : Two[n] = IF n = 0 THEN 1 ELSE 2 * Two[n - 1]
<1> DEFINE D == {0}
           a == [n \in Nat |-> 1]
           d == [n \in Nat |-> IF n = 0 THEN 0 ELSE n - 1]
           h == [p \in Nat \X Nat |-> 2 * p[2]]
<1>1. WellFormed(Nat, D, a, d, h)
  BY DEF WellFormed, Descends
<1>2. Solvable(Nat, D, a, d, h)
  <2> HIDE DEF D, a, d, h
  <2> QED
    BY <1>1, RecursionExists
<1>3. PICK f \in [Nat -> Nat] : \A v \in Nat : f[v] = Step(D, a, d, h, f, v)
  BY <1>2 DEF Solvable
<1>4. ASSUME NEW n \in Nat PROVE f[n] = IF n = 0 THEN 1 ELSE 2 * f[n - 1]
  <2>1. CASE n = 0
    BY <1>3, <2>1 DEF Step
  <2>2. CASE n # 0
    <3>1. <<n, f[n - 1]>> \in Nat \X Nat
      BY <2>2
    <3>2. f[n] = h[<<n, f[d[n]]>>]
      BY <1>3, <2>2 DEF Step
    <3>3. d[n] = n - 1
      BY <2>2
    <3> QED
      BY <2>2, <3>1, <3>2, <3>3
  <2> QED
    BY <2>1, <2>2
<1>5. f = [n \in Nat |-> IF n = 0 THEN 1 ELSE 2 * f[n - 1]]
  BY <1>4
<1>6. Two = [n \in Nat |-> IF n = 0 THEN 1 ELSE 2 * Two[n - 1]]
  BY <1>5 DEF Two
<1>7. \A n \in Nat : n \in {k \in Nat : Two[k] \in Nat}
  <2> DEFINE T == {k \in Nat : Two[k] \in Nat}
  <2>1. 0 \in T
    BY <1>6
  <2>2. ASSUME NEW n \in Nat, n \in T PROVE n + 1 \in T
    BY <1>6, <2>2
  <2> HIDE DEF T
  <2>3. \A n \in Nat : n \in T
    BY <2>1, <2>2, Induction
  <2> QED
    BY <2>3 DEF T
<1> QED
  BY <1>6, <1>7

\* Two numbers with a power of two each multiply as the powers add up.
LEMMA TwoSum ==
    ASSUME NEW m \in Nat, NEW n \in Nat
    PROVE  Two[m + n] = Two[m] * Two[n]
<1> DEFINE T == {k \in Nat : Two[m + k] = Two[m] * Two[k]}
<1>1. 0 \in T
  BY TwoDef
<1>2. ASSUME NEW k \in Nat, k \in T PROVE k + 1 \in T
  <2> DEFINE x == Two[m]
             y == Two[k]
             z == Two[m + k]
  <2>1. x \in Nat /\ y \in Nat /\ z \in Nat
    BY TwoDef
  <2>2. z = x * y
    BY <1>2
  <2>3. Two[k + 1] = 2 * y /\ Two[m + (k + 1)] = 2 * z
    BY TwoDef
  <2> HIDE DEF x, y, z
  <2>4. 2 * z = x * (2 * y)
    BY <2>1, <2>2
  <2>5. Two[m + (k + 1)] = Two[m] * Two[k + 1]
    BY <2>3, <2>4 DEF x
  <2> QED
    BY <2>5
<1> HIDE DEF T
<1>3. \A k \in Nat : k \in T
  BY <1>1, <1>2, Induction
<1> QED
  BY <1>3 DEF T

\* A power of two is positive.
LEMMA TwoPositive ==
    ASSUME NEW n \in Nat
    PROVE  Two[n] \in Nat /\ Two[n] >= 1
<1> DEFINE T == {k \in Nat : Two[k] >= 1}
<1>1. 0 \in T
  BY TwoDef
<1>2. ASSUME NEW k \in Nat, k \in T PROVE k + 1 \in T
  <2>1. Two[k] \in Nat /\ Two[k + 1] = 2 * Two[k]
    BY TwoDef
  <2> QED
    BY <1>2, <2>1
<1> HIDE DEF T
<1>3. \A k \in Nat : k \in T
  BY <1>1, <1>2, Induction
<1> QED
  BY <1>3, TwoDef DEF T

\* A larger power is a multiple of a smaller one, hence not below it.
LEMMA TwoMonotone ==
    ASSUME NEW m \in Nat, NEW n \in Nat, m <= n
    PROVE  Two[m] <= Two[n]
<1> DEFINE x == Two[m]
           y == Two[n - m]
<1>1. x \in Nat /\ y \in Nat /\ y >= 1
  BY TwoPositive
<1>2. Two[n] = x * y
  <2>1. n - m \in Nat /\ m + (n - m) = n
    OBVIOUS
  <2> QED
    BY <2>1, TwoSum
<1> HIDE DEF x, y
<1>3. x <= x * y
  BY <1>1
<1> QED
  BY <1>2, <1>3 DEF x

\* The constants of the word.
LEMMA Powers ==
    /\ Base \in Nat /\ Base >= 2 /\ Half \in Nat /\ Full \in Nat
    /\ Full = 2 * Half
    /\ Two[Width - 2] \in Nat /\ Half = 2 * Two[Width - 2]
    /\ 2 * Base <= Half
<1>1. Width - 1 \in Nat /\ Width - 2 \in Nat /\ Group \in Nat /\ Group >= 1 /\ Width \in Nat
  BY WidthType
<1>2. Two[Width] = 2 * Two[Width - 1]
  BY <1>1, TwoDef
<1>3. Two[Width - 1] = 2 * Two[Width - 2]
  <2>1. Width - 1 # 0 /\ (Width - 1) - 1 = Width - 2
    BY <1>1, WidthType
  <2> QED
    BY <1>1, <2>1, TwoDef
<1>4. Two[1] = 2
  BY TwoDef
<1>5. Two[Group] >= 2
  <2>1. Two[1] <= Two[Group]
    BY <1>1, TwoMonotone
  <2> QED
    BY <1>4, <2>1
<1>6. 2 * Two[Group] <= Two[Width - 1]
  <2>1. Two[Group + 1] = 2 * Two[Group]
    BY <1>1, TwoDef
  <2>2. Two[Group + 1] <= Two[Width - 1]
    BY <1>1, WidthType, TwoMonotone
  <2> QED
    BY <2>1, <2>2
<1>7. Two[Group] \in Nat /\ Two[Width] \in Nat /\ Two[Width - 1] \in Nat /\ Two[Width - 2] \in Nat
  BY <1>1, TwoDef
<1> QED
  BY <1>2, <1>3, <1>5, <1>6, <1>7 DEF Base, Half, Full

-----------------------------------------------------------------------------
(* Division.                                                               *)

\* Quotient and remainder by a positive number.
LEMMA Division ==
    ASSUME NEW a \in Int, NEW m \in Nat, m >= 1
    PROVE  /\ a \div m \in Int /\ a % m \in Nat /\ a % m < m
           /\ a = (a \div m) * m + (a % m)
OBVIOUS

\* Quotient and remainder are unique.
LEMMA DivisionUnique ==
    ASSUME NEW a \in Int, NEW m \in Nat, m >= 1, NEW q \in Int, NEW r \in Nat, r < m,
           a = q * m + r
    PROVE  a \div m = q /\ a % m = r
<1> DEFINE p == a \div m
           s == a % m
<1>1. p \in Int /\ s \in Nat /\ s < m /\ a = p * m + s
  BY Division
<1> HIDE DEF p, s
<1>2. ~(p >= q + 1)
  <2> SUFFICES ASSUME p >= q + 1 PROVE FALSE
    BY <1>1
  <2>1. p * m >= (q + 1) * m
    BY <1>1
  <2>2. (q + 1) * m = q * m + m
    OBVIOUS
  <2>3. p * m \in Int /\ q * m \in Int
    BY <1>1
  <2> QED
    BY <1>1, <2>1, <2>2, <2>3
<1>3. ~(q >= p + 1)
  <2> SUFFICES ASSUME q >= p + 1 PROVE FALSE
    BY <1>1
  <2>1. q * m >= (p + 1) * m
    BY <1>1
  <2>2. (p + 1) * m = p * m + m
    BY <1>1
  <2>3. p * m \in Int /\ q * m \in Int
    BY <1>1
  <2> QED
    BY <1>1, <2>1, <2>2, <2>3
<1>4. p = q
  BY <1>1, <1>2, <1>3
<1>5. s = r
  <2>1. p * m = q * m /\ p * m \in Int
    BY <1>1, <1>4
  <2> QED
    BY <1>1, <2>1
<1> QED
  BY <1>4, <1>5 DEF p, s

\* The quotient of a natural number is one, and smaller when the divisor is 2 or more.
LEMMA DivisionNat ==
    ASSUME NEW a \in Nat, NEW m \in Nat, m >= 1
    PROVE  a \div m \in Nat /\ a \div m <= a /\ (m >= 2 /\ a >= 1 => a \div m < a)
<1> DEFINE q == a \div m
           r == a % m
<1>1. q \in Int /\ r \in Nat /\ r < m /\ a = q * m + r
  BY Division
<1> HIDE DEF q, r
<1>2. q >= 0
  <2> SUFFICES ASSUME q <= -1 PROVE FALSE
    BY <1>1
  <2>1. q * m <= (-1) * m
    BY <1>1
  <2>2. q * m \in Int /\ (-1) * m = -m
    BY <1>1
  <2> QED
    BY <1>1, <2>1, <2>2
<1>3. q <= q * m /\ q * m \in Nat
  BY <1>1, <1>2
<1>4. m >= 2 => 2 * q <= q * m
  BY <1>1, <1>2
<1> QED
  BY <1>1, <1>2, <1>3, <1>4 DEF q

\* A multiple of a divisor's is taken off twice as well as once.
LEMMA DivisionTwice ==
    ASSUME NEW u \in Nat, NEW s \in Nat, s >= 1, NEW b \in Nat, b >= 1
    PROVE  /\ (u \div s) \div b = u \div (s * b)
           /\ u % (s * b) = (u % s) + (((u \div s) % b) * s)
<1> DEFINE q == u \div s
           r == u % s
           p == q \div b
           t == q % b
           m == s * b
<1>1. q \in Nat /\ r \in Nat /\ r < s /\ u = q * s + r
  BY Division, DivisionNat
<1>2. p \in Nat /\ t \in Nat /\ t < b /\ q = p * b + t
  BY <1>1, Division, DivisionNat
<1>3. m \in Nat /\ m >= 1
  OBVIOUS
<1> HIDE DEF q, r, p, t
<1>4. u = p * (s * b) + (r + t * s)
  BY <1>1, <1>2
<1>5. r + t * s \in Nat /\ r + t * s < s * b
  <2>1. t * s <= (b - 1) * s /\ t * s \in Nat
    BY <1>2
  <2>2. (b - 1) * s = s * b - s
    OBVIOUS
  <2>3. s * b \in Nat
    OBVIOUS
  <2> QED
    BY <1>1, <2>1, <2>2, <2>3
<1> DEFINE x == r + t * s
<1>6. x \in Nat /\ x < m /\ u = p * m + x
  BY <1>4, <1>5
<1> HIDE DEF m, x
<1>7. u \div m = p /\ u % m = x
  BY <1>2, <1>3, <1>6, DivisionUnique
<1> QED
  BY <1>7 DEF q, r, p, t, m, x

-----------------------------------------------------------------------------
(* Longs and their zig-zag form.                                           *)

\* Wrap(n) is the long that differs from n by a multiple of 2^Width.
LEMMA WrapType ==
    ASSUME NEW n \in Int
    PROVE  Wrap(n) \in Long /\ \E q \in Int : n = q * Full + Wrap(n)
<1> DEFINE q == (n + Half) \div Full
           r == (n + Half) % Full
<1>1. Half \in Nat /\ Full \in Nat /\ Full >= 1 /\ Full = 2 * Half
  BY Powers
<1>2. n + Half \in Int
  BY <1>1
<1>3. q \in Int /\ r \in Nat /\ r < Full /\ n + Half = q * Full + r
  BY <1>1, <1>2, Division
<1>4. Wrap(n) = r - Half
  BY DEF Wrap
<1> HIDE DEF q, r
<1>5. Wrap(n) \in Long
  BY <1>1, <1>3, <1>4 DEF Long
<1>6. n = q * Full + Wrap(n)
  <2>1. q * Full \in Int
    BY <1>1, <1>3
  <2> QED
    BY <1>1, <1>3, <1>4, <2>1
<1> QED
  BY <1>3, <1>5, <1>6

\* Only one long differs from n by a multiple of 2^Width.
LEMMA WrapUnique ==
    ASSUME NEW n \in Int, NEW q \in Int, NEW w \in Long, n = q * Full + w
    PROVE  Wrap(n) = w
<1>1. Half \in Nat /\ Full \in Nat /\ Full >= 1 /\ Full = 2 * Half
  BY Powers
<1> DEFINE a == n + Half
           r == w + Half
<1>2. w \in Int /\ r \in Nat /\ r < Full
  BY <1>1 DEF Long
<1>3. a \in Int /\ a = q * Full + r
  <2>1. q * Full \in Int
    BY <1>1
  <2> QED
    BY <1>1, <1>2, <2>1
<1>4. Wrap(n) = (a % Full) - Half
  BY DEF Wrap
<1> HIDE DEF a, r
<1>5. a % Full = r
  BY <1>1, <1>2, <1>3, DivisionUnique
<1> QED
  BY <1>1, <1>2, <1>4, <1>5 DEF r

\* A sum may wrap at each step or once.
LEMMA WrapAdd ==
    ASSUME NEW m \in Int, NEW n \in Int
    PROVE  Wrap(Wrap(m) + n) = Wrap(m + n)
<1>1. Full \in Nat /\ Half \in Nat
  BY Powers
<1>2. PICK p \in Int : Wrap(m) \in Long /\ m = p * Full + Wrap(m)
  BY WrapType
<1>3. Wrap(m) \in Int
  BY <1>1, <1>2 DEF Long
<1> DEFINE v == Wrap(m)
           k == v + n
           w == Wrap(k)
<1>4. v \in Int /\ k \in Int /\ m = p * Full + v
  BY <1>2, <1>3
<1>5. PICK q \in Int : w \in Long /\ k = q * Full + w
  <2> HIDE DEF k
  <2> QED
    BY <1>4, WrapType
<1>6. w \in Int
  BY <1>1, <1>5 DEF Long
<1> HIDE DEF w
<1>7. m + n = (p + q) * Full + w
  BY <1>1, <1>4, <1>5, <1>6
<1> DEFINE j == m + n
           i == p + q
<1>8. j \in Int /\ i \in Int /\ j = i * Full + w
  BY <1>7
<1> HIDE DEF j, i
<1>9. Wrap(j) = w
  BY <1>5, <1>8, WrapUnique
<1> QED
  BY <1>9 DEF j, w

\* A long is not changed by Wrap.
LEMMA WrapLong ==
    ASSUME NEW n \in Long
    PROVE  Wrap(n) = n
<1>1. n \in Int /\ Full \in Nat
  BY Powers DEF Long
<1>2. n = 0 * Full + n
  BY <1>1
<1> QED
  BY <1>1, <1>2, WrapUnique

\* What the encoder gets.
Unsigned(n) == ZigZag(n) % Full

\* The encoder's argument fits the word.
LEMMA ZigZagType ==
    ASSUME NEW n \in Int
    PROVE  ZigZag(n) \in Long /\ Unsigned(n) \in 0 .. Full - 1
<1>1. Half \in Nat /\ Full \in Nat /\ Full >= 1 /\ Full = 2 * Half
  BY Powers
<1>2. Wrap(2 * n) \in Long
  BY WrapType
<1>3. ZigZag(n) \in Long
  BY <1>1, <1>2 DEF ZigZag, Long
<1>4. ZigZag(n) \in Int
  BY <1>1, <1>3 DEF Long
<1>5. Unsigned(n) \in Nat /\ Unsigned(n) < Full
  BY <1>1, <1>4, Division DEF Unsigned
<1> QED
  BY <1>1, <1>3, <1>5

\* The zig-zag form of a long: even numbers for those from 0 on, odd ones for the others.
LEMMA UnsignedValue ==
    ASSUME NEW n \in Long
    PROVE  Unsigned(n) = IF n >= 0 THEN 2 * n ELSE -2 * n - 1
<1>1. Half \in Nat /\ Full \in Nat /\ Full >= 1 /\ Full = 2 * Half
  BY Powers
<1>2. n \in Int /\ -Half <= n /\ n < Half
  BY <1>1 DEF Long
<1> DEFINE w == Wrap(2 * n)
           z == ZigZag(n)
<1>3. PICK q \in Int : w \in Long /\ 2 * n = q * Full + w
  <2>1. 2 * n \in Int
    BY <1>2
  <2> QED
    BY <2>1, WrapType
<1>4. w \in Int
  BY <1>1, <1>3 DEF Long
<1>5. z \in Int
  BY <1>1, <1>2, ZigZagType DEF Long
<1>6. z = IF n >= 0 THEN w ELSE -w - 1
  BY DEF ZigZag
<1> HIDE DEF w, z
<1>7. CASE n >= 0
  <2> DEFINE p == -q
             r == 2 * n
  <2>1. p \in Int /\ r \in Nat /\ r < Full
    BY <1>1, <1>2, <1>7
  <2>2. z = p * Full + r
    BY <1>1, <1>2, <1>3, <1>4, <1>6, <1>7
  <2> HIDE DEF p, r
  <2>3. z % Full = r
    BY <1>1, <1>5, <2>1, <2>2, DivisionUnique
  <2> QED
    BY <1>7, <2>3 DEF Unsigned, z, r
<1>8. CASE ~(n >= 0)
  <2> DEFINE r == -2 * n - 1
  <2>1. r \in Nat /\ r < Full
    BY <1>1, <1>2, <1>8
  <2>2. z = q * Full + r
    BY <1>1, <1>2, <1>3, <1>4, <1>6, <1>8
  <2> HIDE DEF r
  <2>3. z % Full = r
    BY <1>1, <1>3, <1>5, <2>1, <2>2, DivisionUnique
  <2> QED
    BY <1>8, <2>3 DEF Unsigned, z, r
<1> QED
  BY <1>7, <1>8

\* The decoder undoes it.
LEMMA UnZigZagUnsigned ==
    ASSUME NEW n \in Long
    PROVE  UnZigZag(Unsigned(n)) = n
<1>1. n \in Int
  BY Powers DEF Long
<1>2. CASE n >= 0
  <2>1. (2 * n) % 2 = 0 /\ (2 * n) \div 2 = n
    BY <1>1
  <2> QED
    BY <1>2, <2>1, UnsignedValue DEF UnZigZag
<1>3. CASE ~(n >= 0)
  <2> DEFINE u == -2 * n - 1
  <2>1. u % 2 = 1 /\ u \div 2 = -n - 1
    BY <1>1
  <2>2. Unsigned(n) = u
    BY <1>3, UnsignedValue
  <2> HIDE DEF u
  <2> QED
    BY <1>1, <2>1, <2>2 DEF UnZigZag
<1> QED
  BY <1>2, <1>3

\* The decoder returns a long.
LEMMA UnZigZagType ==
    ASSUME NEW u \in 0 .. Full - 1
    PROVE  UnZigZag(u) \in Long
<1>1. Half \in Nat /\ Full = 2 * Half
  BY Powers
<1>2. u \div 2 \in Int /\ 0 <= u \div 2 /\ u \div 2 < Half
  BY <1>1
<1> QED
  BY <1>1, <1>2 DEF UnZigZag, Long

\* The signed encoder writes the same where the zig-zag form is not negative.
LEMMA SignedWritable ==
    ASSUME NEW n \in -Two[Width - 2] .. Two[Width - 2] - 1
    PROVE  ZigZag(n) >= 0 /\ ZigZag(n) = Unsigned(n) /\ n \in Long
<1> DEFINE e == Two[Width - 2]
<1>1. e \in Nat /\ Half = 2 * e /\ Half \in Nat /\ Full = 2 * Half /\ Full \in Nat
  BY Powers
<1> HIDE DEF e
<1>2. n \in Int /\ -e <= n /\ n < e
  BY <1>1 DEF e
<1>3. n \in Long /\ 2 * n \in Long
  BY <1>1, <1>2 DEF Long
<1>4. Wrap(2 * n) = 2 * n
  BY <1>3, WrapLong
<1>5. ZigZag(n) = IF n >= 0 THEN 2 * n ELSE -(2 * n) - 1
  BY <1>4 DEF ZigZag
<1>6. Unsigned(n) = IF n >= 0 THEN 2 * n ELSE -2 * n - 1
  BY <1>3, UnsignedValue
<1> QED
  BY <1>2, <1>3, <1>5, <1>6

-----------------------------------------------------------------------------
(* The encoder: groups of bits, the lowest first.                          *)

Byte == 0 .. 2 * Base - 1

\* A byte with the continuation bit, and what is left of the value after it.
LEMMA GroupStep ==
    ASSUME NEW v \in Nat
    PROVE  /\ Base + (v % Base) \in Byte
           /\ v \div Base \in Nat
           /\ v >= Base => v \div Base < v
<1>1. Base \in Nat /\ Base >= 2
  BY Powers
<1>2. v % Base \in Nat /\ v % Base < Base
  BY <1>1, Division
<1>3. Base + (v % Base) \in Byte
  BY <1>1, <1>2 DEF Byte
<1>4. v \div Base \in Nat /\ (v >= Base => v \div Base < v)
  BY <1>1, DivisionNat
<1> QED
  BY <1>3, <1>4

\* Groups is the function its definition describes: the bytes of a varint.
LEMMA GroupsDef ==
    /\ \A v \in Nat : Groups[v] \in Seq(Byte)
    /\ \A v \in Nat :
         Groups[v] = IF v < Base THEN <<v>>
                     ELSE <<Base + (v % Base)>> \o Groups[v \div Base]
<1> DEFINE S == Seq(Byte)
           D == {v \in Nat : v < Base}
           a == [v \in Nat |-> IF v < Base THEN <<v>> ELSE <<0>>]
           d == [v \in Nat |-> v \div Base]
           h == [p \in Nat \X S |-> <<Base + (p[1] % Base)>> \o p[2]]
<1>1. Base \in Nat /\ Base >= 2
  BY Powers
<1>2. a \in [Nat -> S]
  <2> SUFFICES ASSUME NEW v \in Nat PROVE a[v] \in S
    OBVIOUS
  <2>1. 0 \in Byte /\ (v < Base => v \in Byte)
    BY <1>1 DEF Byte
  <2> QED
    BY <2>1
<1>3. d \in [Nat -> Nat]
  BY <1>1, GroupStep
<1>4. h \in [Nat \X S -> S]
  <2> SUFFICES ASSUME NEW v \in Nat, NEW s \in S
               PROVE  <<Base + (v % Base)>> \o s \in S
    OBVIOUS
  <2>1. Base + (v % Base) \in Byte
    BY GroupStep
  <2> QED
    BY <2>1
<1>5. Descends(D, d)
  <2> SUFFICES ASSUME NEW v \in Nat, v >= Base PROVE d[v] < v
    BY <1>1 DEF Descends
  <2> QED
    BY <1>1, GroupStep
<1>6. WellFormed(S, D, a, d, h)
  BY <1>2, <1>3, <1>4, <1>5 DEF WellFormed
<1>7. \A f \in [Nat -> S] : \A v \in Nat :
        Step(D, a, d, h, f, v) = IF v < Base THEN <<v>>
                                 ELSE <<Base + (v % Base)>> \o f[v \div Base]
  <2> SUFFICES ASSUME NEW f \in [Nat -> S], NEW v \in Nat
               PROVE  Step(D, a, d, h, f, v) =
                        IF v < Base THEN <<v>>
                        ELSE <<Base + (v % Base)>> \o f[v \div Base]
    OBVIOUS
  <2>1. CASE v < Base
    BY <2>1 DEF Step
  <2>2. CASE ~(v < Base)
    <3>1. v \div Base \in Nat
      BY <1>1, GroupStep
    <3>2. d[v] = v \div Base /\ f[v \div Base] \in S
      BY <3>1
    <3>3. h[<<v, f[v \div Base]>>] = <<Base + (v % Base)>> \o f[v \div Base]
      BY <3>2
    <3> QED
      BY <2>2, <3>2, <3>3 DEF Step
  <2> QED
    BY <2>1, <2>2
<1>8. PICK f \in [Nat -> S] : \A v \in Nat : f[v] = Step(D, a, d, h, f, v)
  <2> HIDE DEF S, D, a, d, h
  <2> QED
    BY <1>6, RecursionExists DEF Solvable
<1>9. f = [v \in Nat |-> IF v < Base THEN <<v>>
                         ELSE <<Base + (v % Base)>> \o f[v \div Base]]
  <2> HIDE DEF S, D, a, d, h
  <2> QED
    BY <1>7, <1>8
<1>10. Groups = [v \in Nat |-> IF v < Base THEN <<v>>
                               ELSE <<Base + (v % Base)>> \o Groups[v \div Base]]
  BY <1>9 DEF Groups
<1>11. \A v \in Nat : Groups[v] \in Seq(Byte)
  <2> DEFINE T == {v \in Nat : Groups[v] \notin S}
  <2>1. SUFFICES ASSUME T # {} PROVE FALSE
    OBVIOUS
  <2>2. PICK v \in T : \A w \in T : v <= w
    <3>1. T \subseteq Nat
      OBVIOUS
    <3> HIDE DEF T
    <3> QED
      BY <2>1, <3>1, Least
  <2>3. v \in Nat /\ Groups[v] \notin S /\ \A w \in Nat : w < v => Groups[w] \in S
    BY <2>2
  <2> HIDE DEF T
  <2>4. ~(v < Base)
    <3> SUFFICES ASSUME v < Base PROVE FALSE
      OBVIOUS
    <3>1. v \in Byte
      BY <1>1, <2>3 DEF Byte
    <3>2. Groups[v] = <<v>>
      BY <1>10, <2>3
    <3> QED
      BY <2>3, <3>1, <3>2
  <2>5. v \div Base \in Nat /\ v \div Base < v
    BY <1>1, <2>3, <2>4, GroupStep
  <2>6. Groups[v \div Base] \in S
    BY <2>3, <2>5
  <2>7. Base + (v % Base) \in Byte
    BY <2>3, GroupStep
  <2>8. Groups[v] = <<Base + (v % Base)>> \o Groups[v \div Base]
    BY <1>10, <2>3, <2>4
  <2> QED
    BY <2>3, <2>6, <2>7, <2>8
<1> QED
  BY <1>10, <1>11

-----------------------------------------------------------------------------
(* Joining sequences and adding up, from the end.                          *)

\* f[k] is what is left of the joined sequences from the k-th on.
Joins(X, s, end, f) ==
    /\ f[Len(s) + 1] = end
    /\ \A k \in 1 .. Len(s) : f[k] = s[k] \o f[k + 1]
    /\ \A k \in 1 .. Len(s) + 1 : f[k] \in Seq(X)

\* JoinedFrom joins a sequence of byte sequences from a place on, and the end.
LEMMA JoinedFromDef ==
    ASSUME NEW X, NEW s \in Seq(Seq(X)), NEW end \in Seq(X)
    PROVE  Joins(X, s, end, JoinedFrom(s, end))
<1> DEFINE S == Seq(X)
           m == Len(s)
           h == [p \in (1 .. m) \X S |-> s[p[1]] \o p[2]]
           F == JoinedFrom(s, end)
<1>1. m \in Nat /\ \A k \in 1 .. m : s[k] \in S
  OBVIOUS
<1>2. Backward(S, m, end, h)
  <2>1. h \in [(1 .. m) \X S -> S]
    BY <1>1
  <2> HIDE DEF h, m
  <2> QED
    BY <1>1, <2>1 DEF Backward
<1>3. PICK g \in [1 .. m + 1 -> S] : Solves(m, end, h, g)
  <2> HIDE DEF S, m, h
  <2> QED
    BY <1>2, BackwardExists DEF BackwardSolvable
<1>4. ASSUME NEW k \in 1 .. m + 1 PROVE g[k] = IF k > m THEN end ELSE s[k] \o g[k + 1]
  <2>1. CASE k > m
    <3> HIDE DEF S, m, h
    <3> QED
      BY <1>3, <2>1 DEF Solves
  <2>2. CASE ~(k > m)
    <3>1. k \in 1 .. m /\ k + 1 \in 1 .. m + 1
      BY <1>1, <2>2
    <3>2. g[k] = h[<<k, g[k + 1]>>]
      <4> HIDE DEF S, m, h
      <4> QED
        BY <1>3, <2>2 DEF Solves
    <3>3. g[k + 1] \in S
      BY <1>3, <3>1
    <3> QED
      BY <2>2, <3>1, <3>2, <3>3
  <2> QED
    BY <2>1, <2>2
<1>5. g = [k \in 1 .. Len(s) + 1 |-> IF k > Len(s) THEN end ELSE s[k] \o g[k + 1]]
  BY <1>4
<1>6. F = [k \in 1 .. Len(s) + 1 |-> IF k > Len(s) THEN end ELSE s[k] \o F[k + 1]]
  BY <1>5 DEF JoinedFrom
<1> HIDE DEF F
<1>7. F[m + 1] = end /\ \A k \in 1 .. m : F[k] = s[k] \o F[k + 1]
  <2>1. m + 1 \in 1 .. m + 1 /\ m + 1 > m
    BY <1>1
  <2>2. \A k \in 1 .. m : k \in 1 .. m + 1 /\ ~(k > m)
    BY <1>1
  <2> HIDE DEF m
  <2> QED
    BY <1>6, <2>1, <2>2 DEF m
<1>8. \A k \in 1 .. m + 1 : F[k] \in S
  <2> DEFINE T == {n \in Nat : n <= m => F[m + 1 - n] \in S}
  <2>1. 0 \in T
    BY <1>1, <1>7
  <2>2. ASSUME NEW n \in Nat, n \in T PROVE n + 1 \in T
    <3> SUFFICES ASSUME n + 1 <= m PROVE F[m + 1 - (n + 1)] \in S
      OBVIOUS
    <3> DEFINE k == m + 1 - (n + 1)
    <3>1. k \in 1 .. m /\ k + 1 = m + 1 - n
      BY <1>1
    <3>2. F[k + 1] \in S
      BY <1>1, <2>2, <3>1
    <3> HIDE DEF k, m
    <3>3. F[k] = s[k] \o F[k + 1] /\ s[k] \in S
      BY <1>1, <1>7, <3>1
    <3> QED
      BY <3>2, <3>3 DEF k
  <2>3. \A n \in Nat : n \in T
    <3> HIDE DEF T
    <3> QED
      BY <2>1, <2>2, Induction
  <2> SUFFICES ASSUME NEW k \in 1 .. m + 1 PROVE F[k] \in S
    OBVIOUS
  <2>4. m + 1 - k \in Nat /\ m + 1 - k <= m /\ m + 1 - (m + 1 - k) = k
    BY <1>1
  <2> QED
    BY <2>3, <2>4
<1> QED
  BY <1>7, <1>8 DEF F, Joins

\* SumFrom sums a sequence of integers from a place on.
LEMMA SumFromDef ==
    ASSUME NEW s \in Seq(Int)
    PROVE  LET f == SumFrom(s)
           IN  /\ f[Len(s) + 1] = 0
               /\ \A k \in 1 .. Len(s) : f[k] = s[k] + f[k + 1]
               /\ \A k \in 1 .. Len(s) + 1 : f[k] \in Int
<1> DEFINE m == Len(s)
           h == [p \in (1 .. m) \X Int |-> s[p[1]] + p[2]]
           F == SumFrom(s)
<1>1. m \in Nat /\ \A k \in 1 .. m : s[k] \in Int
  OBVIOUS
<1>2. Backward(Int, m, 0, h)
  <2>1. h \in [(1 .. m) \X Int -> Int]
    BY <1>1
  <2> HIDE DEF h, m
  <2> QED
    BY <1>1, <2>1 DEF Backward
<1>3. PICK g \in [1 .. m + 1 -> Int] : Solves(m, 0, h, g)
  <2> HIDE DEF m, h
  <2> QED
    BY <1>2, BackwardExists DEF BackwardSolvable
<1>4. ASSUME NEW k \in 1 .. m + 1 PROVE g[k] = IF k > m THEN 0 ELSE s[k] + g[k + 1]
  <2>1. CASE k > m
    <3> HIDE DEF m, h
    <3> QED
      BY <1>3, <2>1 DEF Solves
  <2>2. CASE ~(k > m)
    <3>1. k \in 1 .. m /\ k + 1 \in 1 .. m + 1
      BY <1>1, <2>2
    <3>2. g[k] = h[<<k, g[k + 1]>>]
      <4> HIDE DEF m, h
      <4> QED
        BY <1>3, <2>2 DEF Solves
    <3>3. g[k + 1] \in Int
      BY <1>3, <3>1
    <3> QED
      BY <2>2, <3>1, <3>2, <3>3
  <2> QED
    BY <2>1, <2>2
<1>5. g = [k \in 1 .. Len(s) + 1 |-> IF k > Len(s) THEN 0 ELSE s[k] + g[k + 1]]
  BY <1>4
<1>6. F = [k \in 1 .. Len(s) + 1 |-> IF k > Len(s) THEN 0 ELSE s[k] + F[k + 1]]
  BY <1>5 DEF SumFrom
<1> HIDE DEF F
<1>7. F[m + 1] = 0 /\ \A k \in 1 .. m : F[k] = s[k] + F[k + 1]
  <2>1. m + 1 \in 1 .. m + 1 /\ m + 1 > m
    BY <1>1
  <2>2. \A k \in 1 .. m : k \in 1 .. m + 1 /\ ~(k > m)
    BY <1>1
  <2> HIDE DEF m
  <2> QED
    BY <1>6, <2>1, <2>2 DEF m
<1>8. \A k \in 1 .. m + 1 : F[k] \in Int
  <2> DEFINE T == {n \in Nat : n <= m => F[m + 1 - n] \in Int}
  <2>1. 0 \in T
    BY <1>1, <1>7
  <2>2. ASSUME NEW n \in Nat, n \in T PROVE n + 1 \in T
    <3> SUFFICES ASSUME n + 1 <= m PROVE F[m + 1 - (n + 1)] \in Int
      OBVIOUS
    <3> DEFINE k == m + 1 - (n + 1)
    <3>1. k \in 1 .. m /\ k + 1 = m + 1 - n
      BY <1>1
    <3>2. F[k + 1] \in Int
      BY <1>1, <2>2, <3>1
    <3> HIDE DEF k, m
    <3>3. F[k] = s[k] + F[k + 1] /\ s[k] \in Int
      BY <1>1, <1>7, <3>1
    <3> QED
      BY <3>2, <3>3 DEF k
  <2>3. \A n \in Nat : n \in T
    <3> HIDE DEF T
    <3> QED
      BY <2>1, <2>2, Induction
  <2> SUFFICES ASSUME NEW k \in 1 .. m + 1 PROVE F[k] \in Int
    OBVIOUS
  <2>4. m + 1 - k \in Nat /\ m + 1 - k <= m /\ m + 1 - (m + 1 - k) = k
    BY <1>1
  <2> QED
    BY <2>3, <2>4
<1> QED
  BY <1>7, <1>8 DEF F

-----------------------------------------------------------------------------
(* The bytes of a list.                                                    *)

\* Concatenation of byte sequences is associative.
LEMMA BytesAssociative ==
    ASSUME NEW r \in Seq(Byte), NEW s \in Seq(Byte), NEW t \in Seq(Byte)
    PROVE  (r \o s) \o t = r \o (s \o t) /\ s \o t \in Seq(Byte)
OBVIOUS

\* What ListsType says of the blocks of a list.
LEMMA ListFacts ==
    ASSUME NEW l \in Lists
    PROVE  /\ Len(l) \in Nat /\ DOMAIN l = 1 .. Len(l)
           /\ \A k \in 1 .. Len(l) :
                /\ l[k].sized \in BOOLEAN /\ l[k].items \in Seq(Long)
                /\ Len(l[k].items) \in 1 .. Half - 1
                /\ Len(l[k].items) \in Long /\ -Len(l[k].items) \in Long
<1>1. l \in Seq([sized : BOOLEAN, items : Seq(Long)])
  BY ListsType
<1>2. Len(l) \in Nat /\ DOMAIN l = 1 .. Len(l)
  BY <1>1
<1>3. \A k \in 1 .. Len(l) : l[k].sized \in BOOLEAN /\ l[k].items \in Seq(Long)
  <2> SUFFICES ASSUME NEW k \in 1 .. Len(l)
               PROVE  l[k].sized \in BOOLEAN /\ l[k].items \in Seq(Long)
    OBVIOUS
  <2> DEFINE R == [sized : BOOLEAN, items : Seq(Long)]
  <2>1. l[k] \in R
    <3> HIDE DEF R
    <3>1. l \in Seq(R)
      BY <1>1 DEF R
    <3> QED
      BY <3>1
  <2> QED
    BY <2>1
<1>4. \A k \in 1 .. Len(l) : Len(l[k].items) \in 1 .. Half - 1
  BY <1>2, ListsType
<1>5. \A n \in 1 .. Half - 1 : n \in Long /\ -n \in Long
  BY Powers DEF Long
<1> QED
  BY <1>2, <1>3, <1>4, <1>5

\* A long is written as the groups of its zig-zag form.
LEMMA WriteUnsignedType ==
    ASSUME NEW n \in Int
    PROVE  WriteUnsigned(n) = Groups[Unsigned(n)] /\ WriteUnsigned(n) \in Seq(Byte)
<1>1. Unsigned(n) \in Nat
  BY ZigZagType, Powers
<1> QED
  BY <1>1, GroupsDef DEF WriteUnsigned, Unsigned

\* The integers of a block, from the j-th on.
LEMMA ItemBytesDef ==
    ASSUME NEW l \in Lists, NEW k \in 1 .. Len(l)
    PROVE  LET b == l[k]  f == ItemBytes(l[k])
           IN  /\ f[Len(b.items) + 1] = <<>>
               /\ \A j \in 1 .. Len(b.items) : f[j] = WriteUnsigned(b.items[j]) \o f[j + 1]
               /\ \A j \in 1 .. Len(b.items) + 1 : f[j] \in Seq(Byte)
<1> DEFINE i == l[k].items
           s == [j \in DOMAIN i |-> WriteUnsigned(i[j])]
<1>1. i \in Seq(Long) /\ Len(i) \in Nat
  BY ListFacts
<1>2. DOMAIN i = 1 .. Len(i) /\ \A j \in 1 .. Len(i) : i[j] \in Int
  <2>1. \A n \in Long : n \in Int
    BY Powers DEF Long
  <2> HIDE DEF i
  <2> QED
    BY <1>1, <2>1
<1> HIDE DEF i
<1>3. s \in Seq(Seq(Byte)) /\ Len(s) = Len(i) /\ \A j \in 1 .. Len(i) : s[j] = WriteUnsigned(i[j])
  <2>1. \A j \in 1 .. Len(i) : WriteUnsigned(i[j]) \in Seq(Byte)
    BY <1>2, WriteUnsignedType
  <2> QED
    BY <1>1, <1>2, <2>1
<1>4. <<>> \in Seq(Byte)
  OBVIOUS
<1>5. ItemBytes(l[k]) = JoinedFrom(s, <<>>)
  BY DEF ItemBytes, i
<1> HIDE DEF s
<1>6. Joins(Byte, s, <<>>, ItemBytes(l[k]))
  BY <1>3, <1>4, <1>5, JoinedFromDef
<1>7. /\ ItemBytes(l[k])[Len(i) + 1] = <<>>
      /\ \A j \in 1 .. Len(i) : ItemBytes(l[k])[j] = WriteUnsigned(i[j]) \o ItemBytes(l[k])[j + 1]
      /\ \A j \in 1 .. Len(i) + 1 : ItemBytes(l[k])[j] \in Seq(Byte)
  BY <1>3, <1>6 DEF Joins
<1> QED
  BY <1>7 DEF i

\* A block has an item.
LEMMA BlockLength ==
    ASSUME NEW l \in Lists, NEW k \in 1 .. Len(l)
    PROVE  Len(l[k].items) \in Nat /\ Len(l[k].items) >= 1
<1> DEFINE n == Len(l[k].items)
<1>1. n \in 1 .. Half - 1
  BY ListFacts
<1>2. Half \in Int
  BY Powers
<1> HIDE DEF n
<1>3. n \in Nat /\ n >= 1
  BY <1>1, <1>2
<1> QED
  BY <1>3 DEF n

\* The count of a block, and its size where it has one.
CountBytes(b) ==
    IF b.sized THEN WriteUnsigned(-Len(b.items)) \o WriteUnsigned(Len(Bytes(b)))
    ELSE WriteUnsigned(Len(b.items))

\* A block is its count and its integers.
LEMMA BlockType ==
    ASSUME NEW l \in Lists, NEW k \in 1 .. Len(l)
    PROVE  /\ Block(l[k]) = CountBytes(l[k]) \o Bytes(l[k])
           /\ CountBytes(l[k]) \in Seq(Byte) /\ Bytes(l[k]) \in Seq(Byte)
<1> DEFINE b == l[k]
           n == Len(b.items)
<1>1. n \in Nat /\ n >= 1
  BY BlockLength
<1>2. Bytes(b) \in Seq(Byte)
  <2>1. 1 \in 1 .. n + 1
    BY <1>1
  <2> QED
    BY <2>1, ItemBytesDef DEF Bytes
<1>3. Len(Bytes(b)) \in Int /\ -n \in Int /\ n \in Int
  BY <1>1, <1>2
<1>4. CountBytes(b) \in Seq(Byte)
  <2>1. WriteUnsigned(Len(Bytes(b))) \in Seq(Byte) /\ WriteUnsigned(-n) \in Seq(Byte)
        /\ WriteUnsigned(n) \in Seq(Byte)
    BY <1>3, WriteUnsignedType
  <2> QED
    BY <2>1 DEF CountBytes
<1> QED
  BY <1>2, <1>4 DEF Block, CountBytes

\* The blocks of a list, from the k-th on, and the end.
LEMMA ListBytesDef ==
    ASSUME NEW l \in Lists
    PROVE  LET f == ListBytes(l)
           IN  /\ f[Len(l) + 1] = <<0>>
               /\ \A k \in 1 .. Len(l) : f[k] = Block(l[k]) \o f[k + 1]
               /\ \A k \in 1 .. Len(l) + 1 : f[k] \in Seq(Byte)
<1> DEFINE s == [k \in DOMAIN l |-> Block(l[k])]
<1>1. Len(l) \in Nat /\ DOMAIN l = 1 .. Len(l)
  BY ListFacts
<1>2. \A k \in 1 .. Len(l) : Block(l[k]) \in Seq(Byte)
  <2> SUFFICES ASSUME NEW k \in 1 .. Len(l) PROVE Block(l[k]) \in Seq(Byte)
    OBVIOUS
  <2>1. Block(l[k]) = CountBytes(l[k]) \o Bytes(l[k])
    BY BlockType
  <2>2. CountBytes(l[k]) \in Seq(Byte) /\ Bytes(l[k]) \in Seq(Byte)
    BY BlockType
  <2> QED
    BY <2>1, <2>2
<1>3. s \in Seq(Seq(Byte)) /\ Len(s) = Len(l) /\ \A k \in 1 .. Len(l) : s[k] = Block(l[k])
  BY <1>1, <1>2
<1>4. <<0>> \in Seq(Byte)
  <2>1. 0 \in Byte
    BY Powers DEF Byte
  <2> QED
    BY <2>1
<1>5. ListBytes(l) = JoinedFrom(s, <<0>>)
  BY DEF ListBytes
<1> HIDE DEF s
<1>6. Joins(Byte, s, <<0>>, ListBytes(l))
  BY <1>3, <1>4, <1>5, JoinedFromDef
<1> QED
  BY <1>3, <1>6 DEF Joins

\* A payload consists of bytes.
LEMMA PayloadType ==
    ASSUME NEW l \in Lists
    PROVE  Payload(l) \in Seq(Byte)
<1>1. 1 \in 1 .. Len(l) + 1
  BY ListFacts
<1> QED
  BY <1>1, ListBytesDef DEF Payload

\* The sums of the blocks from a place on.
LEMMA TotalDef ==
    ASSUME NEW l \in Lists
    PROVE  LET f == SumFrom(BlockSums(l))
           IN  /\ f[Len(l) + 1] = 0 /\ Total(l) = f[1]
               /\ \A k \in 1 .. Len(l) : f[k] = SumFrom(l[k].items)[1] + f[k + 1]
               /\ \A k \in 1 .. Len(l) + 1 : f[k] \in Int
<1> DEFINE s == BlockSums(l)
<1>1. Len(l) \in Nat /\ DOMAIN l = 1 .. Len(l)
  BY ListFacts
<1>2. \A k \in 1 .. Len(l) : SumFrom(l[k].items)[1] \in Int
  <2> SUFFICES ASSUME NEW k \in 1 .. Len(l) PROVE SumFrom(l[k].items)[1] \in Int
    OBVIOUS
  <2>1. l[k].items \in Seq(Int) /\ 1 \in 1 .. Len(l[k].items) + 1
    <3>1. \A n \in Long : n \in Int
      BY Powers DEF Long
    <3> QED
      BY <3>1, ListFacts
  <2> QED
    BY <2>1, SumFromDef
<1>3. s \in Seq(Int) /\ Len(s) = Len(l)
      /\ \A k \in 1 .. Len(l) : s[k] = SumFrom(l[k].items)[1]
  BY <1>1, <1>2 DEF BlockSums
<1> HIDE DEF s
<1>4. Total(l) = SumFrom(s)[1]
  BY DEF Total, s
<1> QED
  BY <1>3, <1>4, SumFromDef DEF s

-----------------------------------------------------------------------------
(* A varint is read as it was written.                                     *)

\* The bytes of f from p on are s.
Suffix(f, p, s) == Len(f) = p - 1 + Len(s) /\ \A i \in 1 .. Len(s) : f[p - 1 + i] = s[i]

\* Of the varint of u, which t follows, s bits with value v have been read before p.
Cursor(f, p, v, s, u, t) ==
    /\ u \in 0 .. Full - 1 /\ t \in Seq(Byte) /\ s \in Nat /\ p \in Nat \ {0}
    /\ s = 0 \/ Two[s] <= u
    /\ v = u % Two[s]
    /\ Suffix(f, p, Groups[u \div Two[s]] \o t)

\* What is left of the varint is the quotient by the bits read.
LEMMA CursorFacts ==
    ASSUME NEW f, NEW p, NEW v, NEW s, NEW u, NEW t, Cursor(f, p, v, s, u, t)
    PROVE  /\ u \in Nat /\ u < Full /\ t \in Seq(Byte) /\ s \in Nat /\ p \in Nat /\ p >= 1
           /\ Two[s] \in Nat /\ Two[s] >= 1
           /\ u \div Two[s] \in Nat
           /\ u = (u \div Two[s]) * Two[s] + (u % Two[s])
<1>1. u \in Nat /\ u < Full /\ t \in Seq(Byte) /\ s \in Nat /\ p \in Nat /\ p >= 1
  BY Powers DEF Cursor
<1>2. Two[s] \in Nat /\ Two[s] >= 1
  BY <1>1, TwoPositive
<1>3. u \div Two[s] \in Nat
  BY <1>1, <1>2, DivisionNat
<1>4. u = (u \div Two[s]) * Two[s] + (u % Two[s])
  <2> DEFINE w == Two[s]
  <2>1. u \in Int /\ w \in Nat /\ w >= 1
    BY <1>1, <1>2
  <2> HIDE DEF w
  <2>2. u = (u \div w) * w + (u % w)
    BY <2>1, Division
  <2> QED
    BY <2>2 DEF w
<1> QED
  BY <1>1, <1>2, <1>3, <1>4

\* A reader that has not read a byte of it.
LEMMA CursorStart ==
    ASSUME NEW f, NEW p \in Nat \ {0}, NEW u \in 0 .. Full - 1, NEW t \in Seq(Byte),
           Suffix(f, p, Groups[u] \o t)
    PROVE  Cursor(f, p, 0, 0, u, t)
<1>1. u \in Nat
  BY Powers
<1>2. Two[0] = 1
  BY TwoDef
<1>3. u \div 1 = u /\ u % 1 = 0
  BY <1>1
<1> QED
  BY <1>1, <1>2, <1>3 DEF Cursor

\* The next byte: the first of a concatenation.
LEMMA SuffixFirst ==
    ASSUME NEW f, NEW p \in Nat, p >= 1, NEW b \in Byte, NEW s \in Seq(Byte),
           Suffix(f, p, <<b>> \o s)
    PROVE  f[p] = b /\ p <= Len(f) /\ Suffix(f, p + 1, s)
<1>1. Len(<<b>> \o s) = Len(s) + 1 /\ Len(s) \in Nat
  OBVIOUS
<1>2. (<<b>> \o s)[1] = b /\ \A i \in 1 .. Len(s) : (<<b>> \o s)[i + 1] = s[i]
  OBVIOUS
<1>3. f[p] = b
  <2>1. 1 \in 1 .. Len(<<b>> \o s) /\ p - 1 + 1 = p
    BY <1>1
  <2> QED
    BY <1>2, <2>1 DEF Suffix
<1>4. Len(f) = p - 1 + (Len(s) + 1)
  BY <1>1 DEF Suffix
<1>5. ASSUME NEW i \in 1 .. Len(s) PROVE f[(p + 1) - 1 + i] = s[i]
  <2>1. i + 1 \in 1 .. Len(<<b>> \o s) /\ p - 1 + (i + 1) = (p + 1) - 1 + i
    BY <1>1
  <2>2. f[p - 1 + (i + 1)] = (<<b>> \o s)[i + 1]
    BY <2>1 DEF Suffix
  <2> QED
    BY <1>2, <2>1, <2>2
<1> QED
  BY <1>1, <1>3, <1>4, <1>5 DEF Suffix

\* The byte at the cursor, and what is left after it.
LEMMA CursorByte ==
    ASSUME NEW f, NEW p, NEW v, NEW s, NEW u, NEW t, Cursor(f, p, v, s, u, t)
    PROVE  LET q == u \div Two[s]
           IN  /\ p <= Len(f)
               /\ q < Base => f[p] = q /\ Suffix(f, p + 1, t)
               /\ ~(q < Base) => /\ f[p] = Base + (q % Base)
                                 /\ Suffix(f, p + 1, Groups[q \div Base] \o t)
<1> DEFINE q == u \div Two[s]
<1>1. q \in Nat /\ p \in Nat /\ p >= 1 /\ t \in Seq(Byte) /\ Base \in Nat
  BY CursorFacts, Powers
<1>2. Suffix(f, p, Groups[q] \o t)
  BY DEF Cursor
<1> HIDE DEF q
<1>3. CASE q < Base
  <2>1. q \in Byte
    BY <1>1, <1>3 DEF Byte
  <2>2. Groups[q] = <<q>>
    BY <1>1, <1>3, GroupsDef
  <2> QED
    BY <1>1, <1>2, <1>3, <2>1, <2>2, SuffixFirst DEF q
<1>4. CASE ~(q < Base)
  <2> DEFINE b == Base + (q % Base)
             r == Groups[q \div Base]
  <2>1. b \in Byte /\ q \div Base \in Nat
    BY <1>1, GroupStep
  <2>2. r \in Seq(Byte) /\ Groups[q] = <<b>> \o r
    BY <1>1, <1>4, <2>1, GroupsDef
  <2> HIDE DEF b, r
  <2>3. (<<b>> \o r) \o t = <<b>> \o (r \o t) /\ r \o t \in Seq(Byte)
    <3>1. <<b>> \in Seq(Byte)
      BY <2>1
    <3> QED
      BY <1>1, <2>2, <3>1, BytesAssociative
  <2>4. Suffix(f, p, <<b>> \o (r \o t))
    BY <1>2, <2>2, <2>3
  <2>5. f[p] = b /\ p <= Len(f) /\ Suffix(f, p + 1, r \o t)
    BY <1>1, <2>1, <2>3, <2>4, SuffixFirst
  <2> QED
    BY <1>4, <2>5 DEF b, r, q
<1> QED
  BY <1>3, <1>4 DEF q

\* A byte with the continuation bit: the value has more bits, and they fit the word.
LEMMA CursorGroup ==
    ASSUME NEW f, NEW p, NEW v, NEW s, NEW u, NEW t, Cursor(f, p, v, s, u, t),
           ~(f[p] < Base)
    PROVE  /\ s + Group < Width
           /\ Cursor(f, p + 1, (v + (f[p] % Base) * Two[s]) % Full, s + Group, u, t)
<1> DEFINE w == Two[s]
           q == u \div w
           c == q % Base
<1>1. /\ u \in Nat /\ u < Full /\ t \in Seq(Byte) /\ s \in Nat /\ p \in Nat /\ p >= 1
      /\ w \in Nat /\ w >= 1 /\ q \in Nat /\ u = q * w + (u % w)
  BY CursorFacts
<1>2. Base \in Nat /\ Base >= 2 /\ Full \in Nat /\ Full >= 1
  BY Powers
<1>3. c \in Nat /\ c < Base
  <2> HIDE DEF q
  <2>1. q \in Int /\ Base >= 1
    BY <1>1, <1>2
  <2> QED
    BY <1>2, <2>1, Division
<1>4. v = u % w /\ v \in Nat
  <2>1. u % w \in Nat
    <3> HIDE DEF w
    <3> QED
      BY <1>1, Division
  <2> QED
    BY <2>1 DEF Cursor
<1>5. ~(q < Base) /\ f[p] = Base + c /\ Suffix(f, p + 1, Groups[q \div Base] \o t)
  <2>1. q < Base => f[p] = q
    BY CursorByte
  <2>2. ~(q < Base)
    BY <2>1
  <2> QED
    BY <2>2, CursorByte
<1>6. f[p] % Base = c
  <2>1. Base + c \in Int /\ Base + c = 1 * Base + c
    BY <1>2, <1>3
  <2> HIDE DEF c
  <2>2. (Base + c) % Base = c
    BY <1>2, <1>3, <2>1, DivisionUnique
  <2> QED
    BY <1>5, <2>2
<1>7. Two[s + Group] = w * Base
  BY <1>1, WidthType, TwoSum DEF Base
<1> HIDE DEF w, q, c
<1>8. q \div Base = u \div (w * Base) /\ u % (w * Base) = v + (c * w)
  <2>1. u \in Nat /\ w \in Nat /\ w >= 1 /\ Base \in Nat /\ Base >= 1
    BY <1>1, <1>2
  <2>2. /\ (u \div w) \div Base = u \div (w * Base)
        /\ u % (w * Base) = (u % w) + (((u \div w) % Base) * w)
    BY <2>1, DivisionTwice
  <2> QED
    BY <1>4, <2>2 DEF q, c
<1> DEFINE x == w * Base
           y == v + (c * w)
<1>9. x \in Nat /\ x <= u
  <2>1. Base * w <= q * w
    BY <1>1, <1>2, <1>5
  <2>2. v + q * w = u /\ q * w \in Nat /\ Base * w = w * Base /\ w * Base \in Nat
    BY <1>1, <1>2, <1>4
  <2> QED
    BY <1>4, <2>1, <2>2
<1>10. s + Group < Width
  <2> SUFFICES ASSUME Width <= s + Group PROVE FALSE
    BY <1>1, WidthType
  <2>1. Two[Width] <= Two[s + Group]
    BY <1>1, WidthType, TwoMonotone
  <2>2. Full <= x
    BY <1>7, <2>1 DEF Full
  <2> QED
    BY <1>1, <1>2, <1>9, <2>2
<1>11. y \in Nat /\ y <= u /\ y = u % x
  <2>1. c * w \in Nat
    BY <1>1, <1>3
  <2>2. y \in Nat
    BY <1>4, <2>1
  <2>3. u % x <= u
    <3>1. u % x \in Nat /\ u = (u \div x) * x + (u % x) /\ u \div x \in Nat
      <4>1. x >= 1 /\ x \in Nat /\ u \in Nat /\ u \in Int
        BY <1>1, <1>2, <1>9
      <4> HIDE DEF x
      <4>2. u % x \in Nat /\ u = (u \div x) * x + (u % x)
        BY <4>1, Division
      <4>3. u \div x \in Nat
        BY <4>1, DivisionNat
      <4> QED
        BY <4>2, <4>3
    <3>2. (u \div x) * x \in Nat
      <4> HIDE DEF x
      <4> QED
        BY <1>9, <3>1
    <3> HIDE DEF x
    <3> QED
      BY <1>1, <3>1, <3>2
  <2> QED
    BY <1>8, <2>2, <2>3
<1>12. y % Full = y
  <2>1. y < Full /\ y = 0 * Full + y /\ y \in Int
    BY <1>1, <1>2, <1>11
  <2> HIDE DEF y
  <2> QED
    BY <1>2, <1>11, <2>1, DivisionUnique
<1>13. Cursor(f, p + 1, y, s + Group, u, t)
  <2>1. s + Group \in Nat /\ p + 1 \in Nat \ {0}
    BY <1>1, WidthType
  <2>2. u \in 0 .. Full - 1
    BY <1>1, <1>2
  <2>3. Suffix(f, p + 1, Groups[u \div Two[s + Group]] \o t)
    BY <1>5, <1>7, <1>8
  <2>4. Two[s + Group] <= u /\ y = u % Two[s + Group]
    BY <1>7, <1>9, <1>11
  <2> HIDE DEF y
  <2> QED
    BY <1>1, <2>1, <2>2, <2>3, <2>4 DEF Cursor
<1> QED
  BY <1>6, <1>10, <1>12, <1>13 DEF w

\* The last byte: the value is read, and t is next.
LEMMA CursorLast ==
    ASSUME NEW f, NEW p, NEW v, NEW s, NEW u, NEW t, Cursor(f, p, v, s, u, t),
           f[p] < Base
    PROVE  /\ (v + (f[p] % Base) * Two[s]) % Full = u
           /\ Suffix(f, p + 1, t)
<1> DEFINE w == Two[s]
           q == u \div w
<1>1. /\ u \in Nat /\ u < Full
      /\ w \in Nat /\ w >= 1 /\ q \in Nat /\ u = q * w + (u % w)
  BY CursorFacts
<1>2. Base \in Nat /\ Base >= 2 /\ Full \in Nat /\ Full >= 1
  BY Powers
<1>3. q < Base /\ f[p] = q /\ Suffix(f, p + 1, t)
  <2>1. ~(q < Base) => f[p] = Base + (q % Base)
    BY CursorByte
  <2>2. q % Base \in Nat
    <3> HIDE DEF q
    <3>1. q \in Int /\ Base >= 1
      BY <1>1, <1>2
    <3> QED
      BY <1>2, <3>1, Division
  <2>3. q < Base
    BY <1>2, <2>1, <2>2
  <2> QED
    BY <2>3, CursorByte
<1>4. v = u % w
  BY DEF Cursor
<1>5. f[p] % Base = q
  <2>1. q = 0 * Base + q /\ q \in Int
    BY <1>1, <1>2
  <2> HIDE DEF q
  <2>2. q % Base = q
    <3>1. q \in Nat /\ q < Base /\ Base >= 1 /\ 0 \in Int
      BY <1>1, <1>2, <1>3
    <3> QED
      BY <1>2, <2>1, <3>1, DivisionUnique
  <2> QED
    BY <1>3, <2>2
<1> HIDE DEF w, q
<1>6. v + (q * w) = u
  <2>1. u % w \in Nat
    BY <1>1, Division
  <2>2. q * w \in Nat
    BY <1>1
  <2> QED
    BY <1>1, <1>4, <2>1, <2>2
<1>7. u % Full = u
  <2>1. /\ u \in Int /\ u \in Nat /\ u < Full /\ Full \in Nat /\ Full >= 1
        /\ 0 \in Int /\ u = 0 * Full + u
    BY <1>1, <1>2
  <2> QED
    BY <2>1, DivisionUnique
<1> QED
  BY <1>3, <1>5, <1>6, <1>7 DEF w

-----------------------------------------------------------------------------
(* Where a reader of a list is: before the k-th count, the size of the     *)
(* k-th block or its j-th integer, with the sum of what came before.       *)

SumsFrom(l) == SumFrom(BlockSums(l))

AtCount(l, k, x, u, t) ==
    /\ Wrap(x + SumsFrom(l)[k]) = Wrap(Total(l))
    /\ IF k > Len(l) THEN u = 0 /\ t = <<>>
       ELSE IF l[k].sized
       THEN /\ u = Unsigned(-Len(l[k].items))
            /\ t = WriteUnsigned(Len(Bytes(l[k]))) \o (Bytes(l[k]) \o ListBytes(l)[k + 1])
       ELSE u = Unsigned(Len(l[k].items)) /\ t = Bytes(l[k]) \o ListBytes(l)[k + 1]

AtSize(l, k, n, x, u, t) ==
    /\ l[k].sized /\ n = Len(l[k].items)
    /\ Wrap(x + SumsFrom(l)[k]) = Wrap(Total(l))
    /\ u = Unsigned(Len(Bytes(l[k]))) /\ t = Bytes(l[k]) \o ListBytes(l)[k + 1]

AtItem(l, k, j, n, x, u, t) ==
    /\ n = Len(l[k].items) + 1 - j
    /\ Wrap(x + (SumFrom(l[k].items)[j] + SumsFrom(l)[k + 1])) = Wrap(Total(l))
    /\ u = Unsigned(l[k].items[j])
    /\ t = ItemBytes(l[k])[j + 1] \o ListBytes(l)[k + 1]

\* The varint ahead is that of u, and t comes after it; n integers of the block and the sum x
\* have been noted.
Place(l, w, n, x, u, t) ==
    \/ w = "count" /\ \E k \in 1 .. Len(l) + 1 : AtCount(l, k, x, u, t)
    \/ w = "size" /\ \E k \in 1 .. Len(l) : AtSize(l, k, n, x, u, t)
    \/ w = "item" /\ \E k \in 1 .. Len(l) : \E j \in 1 .. Len(l[k].items) :
                        AtItem(l, k, j, n, x, u, t)

InList(l, p, v, s, w, n, x) ==
    \E u, t : Cursor(Payload(l), p, v, s, u, t) /\ Place(l, w, n, x, u, t)

\* The sums of a list's blocks and of their integers, from each place on.
LEMMA SumType ==
    ASSUME NEW l \in Lists
    PROVE  /\ SumsFrom(l)[Len(l) + 1] = 0 /\ SumsFrom(l)[1] = Total(l)
           /\ \A k \in 1 .. Len(l) + 1 : SumsFrom(l)[k] \in Int
           /\ \A k \in 1 .. Len(l) :
                /\ SumsFrom(l)[k] = SumFrom(l[k].items)[1] + SumsFrom(l)[k + 1]
                /\ SumFrom(l[k].items)[Len(l[k].items) + 1] = 0
                /\ \A j \in 1 .. Len(l[k].items) :
                     /\ l[k].items[j] \in Long
                     /\ SumFrom(l[k].items)[j] = l[k].items[j] + SumFrom(l[k].items)[j + 1]
                /\ \A j \in 1 .. Len(l[k].items) + 1 : SumFrom(l[k].items)[j] \in Int
<1>1. \A n \in Long : n \in Int
  BY Powers DEF Long
<1>2. \A k \in 1 .. Len(l) : l[k].items \in Seq(Long)
  BY ListFacts
<1> SUFFICES ASSUME NEW k \in 1 .. Len(l)
             PROVE  /\ SumsFrom(l)[k] = SumFrom(l[k].items)[1] + SumsFrom(l)[k + 1]
                    /\ SumFrom(l[k].items)[Len(l[k].items) + 1] = 0
                    /\ \A j \in 1 .. Len(l[k].items) :
                         /\ l[k].items[j] \in Long
                         /\ SumFrom(l[k].items)[j] = l[k].items[j] + SumFrom(l[k].items)[j + 1]
                    /\ \A j \in 1 .. Len(l[k].items) + 1 : SumFrom(l[k].items)[j] \in Int
  BY TotalDef DEF SumsFrom
<1> DEFINE i == l[k].items
<1>3. i \in Seq(Long)
  BY <1>2
<1>4. SumsFrom(l)[k] = SumFrom(i)[1] + SumsFrom(l)[k + 1]
  BY TotalDef DEF SumsFrom
<1> HIDE DEF i
<1>5. i \in Seq(Int)
  BY <1>1, <1>3
<1>6. \A j \in 1 .. Len(i) : i[j] \in Long
  BY <1>3
<1> QED
  BY <1>4, <1>5, <1>6, SumFromDef DEF i

\* Before a count, or the end.
LEMMA AtBlock ==
    ASSUME NEW l \in Lists, NEW k \in 1 .. Len(l) + 1, NEW p \in Nat \ {0}, NEW n, NEW x,
           Suffix(Payload(l), p, ListBytes(l)[k]),
           Wrap(x + SumsFrom(l)[k]) = Wrap(Total(l))
    PROVE  InList(l, p, 0, 0, "count", n, x)
<1>1. Len(l) \in Nat
  BY ListFacts
<1>2. SUFFICES \E u \in 0 .. Full - 1 : \E t \in Seq(Byte) :
                 ListBytes(l)[k] = Groups[u] \o t /\ AtCount(l, k, x, u, t)
  BY CursorStart DEF InList, Place
<1>3. CASE k > Len(l)
  <2>1. k = Len(l) + 1
    BY <1>1, <1>3
  <2>2. ListBytes(l)[k] = <<0>>
    BY <2>1, ListBytesDef
  <2>3. Groups[0] = <<0>> /\ 0 \in 0 .. Full - 1
    <3>1. 0 \in Nat /\ 0 < Base /\ 0 \in 0 .. Full - 1
      BY Powers
    <3> QED
      BY <3>1, GroupsDef
  <2>4. <<0>> = <<0>> \o <<>> /\ <<>> \in Seq(Byte)
    OBVIOUS
  <2>5. AtCount(l, k, x, 0, <<>>)
    BY <1>3 DEF AtCount
  <2> QED
    BY <2>2, <2>3, <2>4, <2>5
<1>4. CASE ~(k > Len(l))
  <2> DEFINE b == l[k]
             r == ListBytes(l)[k + 1]
             c == Bytes(b)
             z == Len(b.items)
  <2>1. k \in 1 .. Len(l) /\ k + 1 \in 1 .. Len(l) + 1
    BY <1>1, <1>4
  <2>2. r \in Seq(Byte) /\ c \in Seq(Byte) /\ Len(c) \in Int /\ z \in Int /\ -z \in Int
    <3>1. r \in Seq(Byte)
      BY <2>1, ListBytesDef
    <3>2. c \in Seq(Byte)
      BY <2>1, BlockType
    <3>3. z \in Nat
      BY <2>1, ListFacts
    <3>4. Len(c) \in Nat
      BY <3>2
    <3> QED
      BY <3>1, <3>2, <3>3, <3>4
  <2>3. ListBytes(l)[k] = (CountBytes(b) \o c) \o r /\ CountBytes(b) \in Seq(Byte)
    BY <2>1, ListBytesDef, BlockType
  <2>4. ListBytes(l)[k] = CountBytes(b) \o (c \o r)
    <3> HIDE DEF b, c, r
    <3> QED
      BY <2>2, <2>3, BytesAssociative
  <2>5. c \o r \in Seq(Byte)
    BY <2>2
  <2>6. CASE b.sized
    <3> DEFINE e == WriteUnsigned(-z)
               g == WriteUnsigned(Len(c))
    <3>1. e \in Seq(Byte) /\ g \in Seq(Byte) /\ e = Groups[Unsigned(-z)]
      BY <2>2, WriteUnsignedType
    <3>2. CountBytes(b) = e \o g
      BY <2>6 DEF CountBytes
    <3>3. ListBytes(l)[k] = e \o (g \o (c \o r)) /\ g \o (c \o r) \in Seq(Byte)
      <4> DEFINE y == c \o r
      <4>1. y \in Seq(Byte) /\ ListBytes(l)[k] = (e \o g) \o y
        BY <2>4, <2>5, <3>2
      <4> HIDE DEF e, g, y
      <4>2. e \in Seq(Byte) /\ g \in Seq(Byte) /\ y \in Seq(Byte)
        BY <3>1, <4>1
      <4>3. (e \o g) \o y = e \o (g \o y) /\ g \o y \in Seq(Byte)
        BY <4>2, BytesAssociative
      <4> QED
        BY <4>1, <4>3 DEF y
    <3>4. Unsigned(-z) \in 0 .. Full - 1
      BY <2>2, ZigZagType
    <3>5. AtCount(l, k, x, Unsigned(-z), g \o (c \o r))
      BY <1>4, <2>6 DEF AtCount
    <3> QED
      BY <3>1, <3>3, <3>4, <3>5
  <2>7. CASE ~b.sized
    <3>1. CountBytes(b) = Groups[Unsigned(z)]
      BY <2>2, <2>7, WriteUnsignedType DEF CountBytes
    <3>2. Unsigned(z) \in 0 .. Full - 1
      BY <2>2, ZigZagType
    <3>3. AtCount(l, k, x, Unsigned(z), c \o r)
      BY <1>4, <2>7 DEF AtCount
    <3> QED
      BY <2>4, <2>5, <3>1, <3>2, <3>3
  <2> QED
    BY <2>6, <2>7
<1> QED
  BY <1>3, <1>4

\* Before an integer, or after the last one of a block.
LEMMA AtItems ==
    ASSUME NEW l \in Lists, NEW k \in 1 .. Len(l), NEW j \in 1 .. Len(l[k].items) + 1,
           NEW p \in Nat \ {0}, NEW x \in Int,
           Suffix(Payload(l), p, ItemBytes(l[k])[j] \o ListBytes(l)[k + 1]),
           Wrap(x + (SumFrom(l[k].items)[j] + SumsFrom(l)[k + 1])) = Wrap(Total(l)),
           NEW n, n = Len(l[k].items) + 1 - j
    PROVE  InList(l, p, 0, 0, AfterItems(n), n, x)
<1> DEFINE i == l[k].items
           r == ListBytes(l)[k + 1]
           d == SumsFrom(l)[k + 1]
<1>1. Len(l) \in Nat /\ Len(i) \in Nat /\ k + 1 \in 1 .. Len(l) + 1
  BY ListFacts
<1>2. r \in Seq(Byte) /\ d \in Int
  BY <1>1, ListBytesDef, SumType
<1>3. CASE j > Len(i)
  <2>1. j = Len(i) + 1 /\ n = 0
    BY <1>1, <1>3
  <2>2. ItemBytes(l[k])[j] = <<>> /\ SumFrom(i)[j] = 0
    BY <2>1, ItemBytesDef, SumType
  <2>3. <<>> \o r = r /\ 0 + d = d
    BY <1>2
  <2>4. Suffix(Payload(l), p, r) /\ Wrap(x + d) = Wrap(Total(l))
    BY <2>2, <2>3
  <2>5. AfterItems(n) = "count"
    BY <2>1 DEF AfterItems
  <2>6. InList(l, p, 0, 0, "count", n, x)
    BY <1>1, <2>4, AtBlock
  <2> QED
    BY <2>5, <2>6
<1>4. CASE ~(j > Len(i))
  <2> DEFINE u == Unsigned(i[j])
             t == ItemBytes(l[k])[j + 1]
  <2>1. j \in 1 .. Len(i) /\ j + 1 \in 1 .. Len(i) + 1 /\ n # 0
    BY <1>1, <1>4
  <2>2. i[j] \in Int
    <3>1. i[j] \in Long
      BY <2>1, SumType
    <3> QED
      BY <3>1, Powers DEF Long
  <2>3. t \in Seq(Byte) /\ ItemBytes(l[k])[j] = WriteUnsigned(i[j]) \o t
    BY <2>1, ItemBytesDef
  <2>4. WriteUnsigned(i[j]) = Groups[u] /\ WriteUnsigned(i[j]) \in Seq(Byte) /\ u \in 0 .. Full - 1
    BY <2>2, WriteUnsignedType, ZigZagType
  <2>5. ItemBytes(l[k])[j] \o r = Groups[u] \o (t \o r) /\ t \o r \in Seq(Byte)
    <3> DEFINE e == Groups[u]
    <3>1. e \in Seq(Byte) /\ ItemBytes(l[k])[j] = e \o t
      BY <2>3, <2>4
    <3> HIDE DEF t, r, u, e
    <3>2. (e \o t) \o r = e \o (t \o r) /\ t \o r \in Seq(Byte)
      BY <1>2, <2>3, <3>1, BytesAssociative
    <3> QED
      BY <3>1, <3>2 DEF e
  <2>6. Cursor(Payload(l), p, 0, 0, u, t \o r)
    <3> HIDE DEF t, r, u
    <3> QED
      BY <2>4, <2>5, CursorStart DEF r
  <2>7. AtItem(l, k, j, n, x, u, t \o r)
    BY DEF AtItem
  <2>8. Place(l, "item", n, x, u, t \o r)
    BY <2>1, <2>7 DEF Place
  <2>9. AfterItems(n) = "item"
    BY <2>1 DEF AfterItems
  <2> HIDE DEF u, t, r
  <2> QED
    BY <2>6, <2>8, <2>9 DEF InList
<1> QED
  BY <1>3, <1>4

\* After a count: the size of the block, its first integer, or the end of the list.
LEMMA ReadCount ==
    ASSUME NEW l \in Lists, NEW k \in 1 .. Len(l) + 1, NEW p \in Nat \ {0}, NEW x \in Long,
           NEW u, NEW t, AtCount(l, k, x, u, t), Suffix(Payload(l), p, t)
    PROVE  LET c == UnZigZag(u)
           IN  /\ c = 0 => x = Wrap(Total(l)) /\ p = Len(Payload(l)) + 1
               /\ c > 0 => InList(l, p, 0, 0, AfterItems(c), c, x)
               /\ c < 0 => Sized(l) /\ InList(l, p, 0, 0, "size", -c, x)
<1>1. Len(l) \in Nat /\ DOMAIN l = 1 .. Len(l)
  BY ListFacts
<1>2. x \in Int
  BY Powers DEF Long
<1>3. CASE k > Len(l)
  <2>1. k = Len(l) + 1 /\ u = 0 /\ t = <<>>
    BY <1>1, <1>3 DEF AtCount
  <2>2. UnZigZag(u) = 0
    BY <2>1 DEF UnZigZag
  <2>3. SumsFrom(l)[k] = 0 /\ Wrap(x) = x
    BY <2>1, SumType, WrapLong
  <2>4. x = Wrap(Total(l))
    <3>1. Wrap(x + SumsFrom(l)[k]) = Wrap(Total(l)) /\ x + 0 = x
      BY <1>2 DEF AtCount
    <3> QED
      BY <2>3, <3>1
  <2>5. p = Len(Payload(l)) + 1
    <3>1. Len(t) = 0
      BY <2>1
    <3> QED
      BY <3>1 DEF Suffix
  <2> QED
    BY <2>2, <2>4, <2>5
<1>4. CASE ~(k > Len(l))
  <2> DEFINE b == l[k]
             z == Len(b.items)
             r == ListBytes(l)[k + 1]
  <2>1. k \in 1 .. Len(l)
    BY <1>1, <1>4
  <2>2. z \in Nat /\ z >= 1 /\ z \in Long /\ -z \in Long
    BY <2>1, ListFacts, BlockLength
  <2>3. SumsFrom(l)[k] = SumFrom(b.items)[1] + SumsFrom(l)[k + 1]
    BY <2>1, SumType
  <2>4. Wrap(x + SumsFrom(l)[k]) = Wrap(Total(l))
    BY DEF AtCount
  <2>5. CASE b.sized
    <3> DEFINE g == Len(Bytes(b))
    <3>1. u = Unsigned(-z) /\ t = WriteUnsigned(g) \o (Bytes(b) \o r)
      BY <1>4, <2>5 DEF AtCount
    <3>2. UnZigZag(u) = -z
      BY <2>2, <3>1, UnZigZagUnsigned
    <3>3. g \in Int
      <4>1. Bytes(b) \in Seq(Byte)
        BY <2>1, BlockType
      <4> QED
        BY <4>1
    <3>4. WriteUnsigned(g) = Groups[Unsigned(g)] /\ Unsigned(g) \in 0 .. Full - 1
      BY <3>3, WriteUnsignedType, ZigZagType
    <3>5. Bytes(b) \o r \in Seq(Byte)
      <4>1. Bytes(b) \in Seq(Byte)
        BY <2>1, BlockType
      <4>2. r \in Seq(Byte)
        <5>1. k + 1 \in 1 .. Len(l) + 1
          BY <1>1, <2>1
        <5> QED
          BY <5>1, ListBytesDef
      <4> QED
        BY <4>1, <4>2
    <3>6. Cursor(Payload(l), p, 0, 0, Unsigned(g), Bytes(b) \o r)
      <4> HIDE DEF g, r, b
      <4> QED
        BY <3>1, <3>4, <3>5, CursorStart
    <3>7. AtSize(l, k, z, x, Unsigned(g), Bytes(b) \o r)
      BY <2>4, <2>5 DEF AtSize
    <3>8. InList(l, p, 0, 0, "size", z, x)
      BY <2>1, <3>6, <3>7 DEF InList, Place
    <3>9. Sized(l)
      BY <1>1, <2>1, <2>5 DEF Sized
    <3>10. -(-z) = z /\ -z < 0
      BY <2>2
    <3> HIDE DEF z
    <3> QED
      BY <2>2, <3>2, <3>8, <3>9, <3>10
  <2>6. CASE ~b.sized
    <3>1. u = Unsigned(z) /\ t = Bytes(b) \o r
      BY <1>4, <2>6 DEF AtCount
    <3>2. UnZigZag(u) = z
      BY <2>2, <3>1, UnZigZagUnsigned
    <3>3. 1 \in 1 .. z + 1 /\ z = z + 1 - 1
      BY <2>2
    <3>4. InList(l, p, 0, 0, AfterItems(z), z, x)
      BY <1>2, <2>1, <2>3, <2>4, <3>1, <3>3, AtItems DEF Bytes
    <3> HIDE DEF z
    <3> QED
      BY <2>2, <3>2, <3>4
  <2> QED
    BY <2>5, <2>6
<1> QED
  BY <1>3, <1>4

\* After a size: the first integer of the block.
LEMMA ReadSize ==
    ASSUME NEW l \in Lists, NEW k \in 1 .. Len(l), NEW p \in Nat \ {0}, NEW x \in Long,
           NEW n, NEW u, NEW t, AtSize(l, k, n, x, u, t), Suffix(Payload(l), p, t)
    PROVE  InList(l, p, 0, 0, "item", n, x)
<1>1. n \in Nat /\ n >= 1 /\ n = Len(l[k].items)
  <2>1. Len(l[k].items) \in 1 .. Half - 1
    BY ListFacts
  <2>2. n = Len(l[k].items)
    BY DEF AtSize
  <2>3. \A i \in 1 .. Half - 1 : i \in Nat /\ i >= 1
    BY Powers
  <2> QED
    BY <2>1, <2>2, <2>3
<1>2. SumsFrom(l)[k] = SumFrom(l[k].items)[1] + SumsFrom(l)[k + 1]
  BY SumType
<1>3. x \in Int
  BY Powers DEF Long
<1>4. 1 \in 1 .. Len(l[k].items) + 1 /\ n = Len(l[k].items) + 1 - 1
  BY <1>1
<1>5. Suffix(Payload(l), p, ItemBytes(l[k])[1] \o ListBytes(l)[k + 1])
  BY DEF AtSize, Bytes
<1>6. Wrap(x + (SumFrom(l[k].items)[1] + SumsFrom(l)[k + 1])) = Wrap(Total(l))
  BY <1>2 DEF AtSize
<1>7. InList(l, p, 0, 0, AfterItems(n), n, x)
  BY <1>3, <1>4, <1>5, <1>6, AtItems
<1> QED
  BY <1>1, <1>7 DEF AfterItems

\* After an integer: the next one, or the next block.
LEMMA ReadItem ==
    ASSUME NEW l \in Lists, NEW k \in 1 .. Len(l), NEW j \in 1 .. Len(l[k].items),
           NEW p \in Nat \ {0}, NEW x \in Long,
           NEW n, NEW u, NEW t, AtItem(l, k, j, n, x, u, t), Suffix(Payload(l), p, t)
    PROVE  InList(l, p, 0, 0, AfterItems(n - 1), n - 1, Wrap(x + UnZigZag(u)))
<1> DEFINE m == Len(l[k].items)
           a == l[k].items[j]
           s == SumFrom(l[k].items)[j + 1]
           d == SumsFrom(l)[k + 1]
           y == Wrap(x + a)
           h == j + 1
<1>1. m \in Nat /\ j \in Nat /\ j >= 1 /\ j <= m /\ Len(l) \in Nat
  BY ListFacts
<1>2. a \in Long /\ UnZigZag(u) = a
  BY SumType, UnZigZagUnsigned DEF AtItem
<1>3. a \in Int /\ x \in Int
  BY <1>2, Powers DEF Long
<1>4. s \in Int /\ SumFrom(l[k].items)[j] = a + s
  <2>1. j + 1 \in 1 .. m + 1
    BY <1>1
  <2> QED
    BY <2>1, SumType
<1>5. d \in Int
  <2>1. k + 1 \in 1 .. Len(l) + 1
    BY <1>1
  <2> QED
    BY <2>1, SumType
<1>6. y \in Int
  <2>1. x + a \in Int
    BY <1>3
  <2>2. y \in Long
    BY <2>1, WrapType
  <2> QED
    BY <2>2, Powers DEF Long
<1>7. Wrap(y + (s + d)) = Wrap(Total(l))
  <2> HIDE DEF a, s, d
  <2>1. x + a \in Int /\ s + d \in Int /\ (x + a) + (s + d) = x + ((a + s) + d)
    BY <1>3, <1>4, <1>5
  <2>2. Wrap(Wrap(x + a) + (s + d)) = Wrap((x + a) + (s + d))
    BY <2>1, WrapAdd
  <2>3. Wrap(x + ((a + s) + d)) = Wrap(Total(l))
    BY <1>4 DEF AtItem, d
  <2> QED
    BY <2>1, <2>2, <2>3
<1>8. h \in 1 .. m + 1 /\ n - 1 = m + 1 - h
  <2>1. n = m + 1 - j
    BY DEF AtItem
  <2> HIDE DEF m
  <2>2. n - 1 = m + 1 - (j + 1) /\ j + 1 \in 1 .. m + 1
    BY <1>1, <2>1
  <2> QED
    BY <2>2
<1>9. Suffix(Payload(l), p, ItemBytes(l[k])[h] \o ListBytes(l)[k + 1])
  BY DEF AtItem
<1> HIDE DEF y
<1>10. InList(l, p, 0, 0, AfterItems(n - 1), n - 1, y)
  BY <1>6, <1>7, <1>8, <1>9, AtItems
<1> QED
  BY <1>2, <1>10 DEF y

-----------------------------------------------------------------------------
(* The inductive invariant.                                                *)

\* A block in which integers are left to be read.
Types == TypeOK /\ (want \in {"size", "item"} => left >= 1)

InPayload == want \in {"count", "size", "item"}

\* The payload of the list, less what is cut off its end.
Cut ==
    /\ cut < Len(Payload(list))
    /\ InPayload => payload = SubSeq(Payload(list), 1, Len(Payload(list)) - cut)

\* A reader that knows the blocks, and either reads all of them or panics where they end, is
\* at a place of the list.
Sound == Readable(list) /\ (cut = 0 \/ AtEnd = "panics")
Placed == InPayload /\ Sound => InList(list, pos, val, shift, want, left, sum)

\* The consumer is reading the sum.
Echoed ==
    want = "sum" /\ Writable(sum) => Cursor(payload, pos, val, shift, Unsigned(sum), <<>>)

IInv ==
    Types /\ Cut /\ Placed /\ Echoed /\ ListSummed /\ TruncationDetected /\ ResultExact

-----------------------------------------------------------------------------
(* Types.                                                                  *)

\* The encoder writes bytes.
LEMMA WriteType ==
    ASSUME NEW n \in Long
    PROVE  Write(n) \in Seq(Byte)
<1>1. n \in Int /\ Base \in Nat /\ Base >= 2
  BY Powers DEF Long
<1>2. WriteUnsigned(n) \in Seq(Byte)
  BY <1>1, WriteUnsignedType
<1>3. ZigZag(n) \in Int
  BY <1>1, ZigZagType, Powers DEF Long
<1>4. WriteSigned(n) \in Seq(Byte)
  <2> DEFINE z == ZigZag(n)
             m == 2 * Base
  <2>1. z \in Int /\ m \in Nat /\ m >= 1
    BY <1>1, <1>3
  <2> HIDE DEF z, m
  <2>2. z % m \in Nat /\ z % m < m
    BY <2>1, Division
  <2>3. z % m \in Byte
    BY <2>1, <2>2 DEF Byte, m
  <2>4. z >= 0 => Groups[z] \in Seq(Byte)
    BY <2>1, GroupsDef
  <2>5. WriteSigned(n) = IF z < 0 THEN <<z % m>> ELSE Groups[z]
    BY DEF WriteSigned, z, m
  <2> QED
    BY <2>1, <2>3, <2>4, <2>5
<1> QED
  BY <1>2, <1>4 DEF Write

\* All that is fixed and all that a step may set.
Fixed == proc \in Processors /\ list \in Lists /\ cut \in 0 .. MaxCut
Moving(y, p, v, s, w, n, x, r) ==
    /\ y \in Seq(Byte) /\ p \in 1 .. Len(y) + 1
    /\ v \in 0 .. Full - 1 /\ s \in Nat
    /\ w \in {"count", "size", "item", "sum", "done", "panicked"}
    /\ n \in 0 .. Half /\ x \in Long /\ r \in Long
    /\ w \in {"size", "item"} => n >= 1

\* Types in two parts: what no step changes, and the rest.
LEMMA TypesParts ==
    Types <=> Fixed /\ Moving(payload, pos, val, shift, want, left, sum, result)
BY DEF Types, TypeOK, Fixed, Moving, Byte

\* A complete varint keeps the types.
LEMMA CompleteTypes ==
    ASSUME Types, NEW n \in Long, NEW p \in 1 .. Len(payload) + 1, Complete(n, p)
    PROVE  Types'
<1>1. Fixed /\ Moving(payload, pos, val, shift, want, left, sum, result)
  BY TypesParts
<1>2. Fixed'
  BY <1>1 DEF Complete, Fixed
<1>3. 0 \in 0 .. Full - 1 /\ 0 \in Nat /\ Half \in Nat
  BY Powers
<1>4. n \in Int /\ -Half <= n /\ n < Half
  BY <1>3 DEF Long
<1>5. val' = 0 /\ shift' = 0
  BY DEF Complete
<1>6. Moving(payload', pos', val', shift', want', left', sum', result')
  <2>1. CASE want = "count" /\ n = 0
    <3>1. want' = "sum" /\ payload' = Write(sum) /\ pos' = 1
          /\ left' = left /\ sum' = sum /\ result' = result
      BY <2>1 DEF Complete
    <3>2. Write(sum) \in Seq(Byte)
      BY <1>1, WriteType DEF Moving
    <3>3. 1 \in 1 .. Len(Write(sum)) + 1
      <4>1. Len(Write(sum)) \in Nat
        BY <3>2
      <4> QED
        BY <4>1
    <3>4. Moving(Write(sum), 1, 0, 0, "sum", left, sum, result)
      BY <1>1, <1>3, <3>2, <3>3 DEF Moving
    <3> QED
      BY <1>5, <3>1, <3>4
  <2>2. CASE want = "count" /\ n # 0
    <3>1. PICK c : c = left' /\ c = (IF n > 0 THEN n ELSE IF SkipsSize THEN -n ELSE 0)
      BY <2>2 DEF Complete
    <3>2. want' = (IF n < 0 /\ SkipsSize THEN "size" ELSE AfterItems(c))
      BY <2>2, <3>1 DEF Complete
    <3>3. pos' = p /\ payload' = payload /\ sum' = sum /\ result' = result
      BY <2>2 DEF Complete
    <3>4. c \in 0 .. Half /\ (n < 0 /\ SkipsSize => c >= 1)
      BY <1>3, <1>4, <3>1
    <3>5. PICK w : w = want' /\ w = (IF n < 0 /\ SkipsSize THEN "size" ELSE AfterItems(c))
      BY <3>2
    <3>6. w \in {"count", "size", "item"} /\ (w \in {"size", "item"} => c >= 1)
      <4>1. CASE n < 0 /\ SkipsSize
        BY <3>4, <3>5, <4>1
      <4>2. CASE ~(n < 0 /\ SkipsSize)
        BY <3>4, <3>5, <4>2 DEF AfterItems
      <4> QED
        BY <4>1, <4>2
    <3>7. Moving(payload, p, 0, 0, w, c, sum, result)
      BY <1>1, <1>3, <3>4, <3>6 DEF Moving
    <3> QED
      BY <1>5, <3>1, <3>3, <3>5, <3>7
  <2>3. CASE want = "size"
    <3>1. want' = "item" /\ pos' = p /\ payload' = payload
          /\ left' = left /\ sum' = sum /\ result' = result
      BY <2>3 DEF Complete
    <3>2. Moving(payload, p, 0, 0, "item", left, sum, result)
      BY <1>1, <1>3, <2>3 DEF Moving
    <3> QED
      BY <1>5, <3>1, <3>2
  <2>4. CASE want = "item"
    <3>1. sum' = Added(n) /\ left' = left - 1 /\ want' = AfterItems(left - 1) /\ pos' = p
          /\ payload' = payload /\ result' = result
      BY <2>4 DEF Complete
    <3>2. left >= 1 /\ left \in Nat /\ left <= Half /\ sum \in Int
      BY <1>1, <1>3, <2>4 DEF Moving, Long
    <3>3. Added(n) \in Long
      <4>1. sum + n \in Int
        BY <1>4, <3>2
      <4> QED
        BY <4>1, WrapType DEF Added
    <3>4. left - 1 \in 0 .. Half
      BY <1>3, <3>2
    <3>5. /\ AfterItems(left - 1) \in {"count", "item"}
          /\ AfterItems(left - 1) = "item" => left - 1 >= 1
      BY <3>2 DEF AfterItems
    <3>6. Moving(payload, p, 0, 0, AfterItems(left - 1), left - 1, Added(n), result)
      BY <1>1, <1>3, <3>3, <3>4, <3>5 DEF Moving
    <3> QED
      BY <1>5, <3>1, <3>6
  <2>5. CASE want = "sum"
    <3>1. result' = n /\ want' = "done" /\ pos' = p
          /\ payload' = payload /\ left' = left /\ sum' = sum
      BY <2>5 DEF Complete
    <3>2. Moving(payload, p, 0, 0, "done", left, sum, n)
      BY <1>1, <1>3 DEF Moving
    <3> QED
      BY <1>5, <3>1, <3>2
  <2> QED
    BY <2>1, <2>2, <2>3, <2>4, <2>5 DEF Complete
<1> QED
  BY <1>2, <1>6 DEF Types, TypeOK, Fixed, Moving, Byte

\* The value of a varint so far is a word.
LEMMA ValType ==
    ASSUME Types, More
    PROVE  /\ Val \in 0 .. Full - 1 /\ UnZigZag(Val) \in Long
           /\ pos \in Nat /\ pos >= 1 /\ pos + 1 \in 1 .. Len(payload) + 1
<1>1. Moving(payload, pos, val, shift, want, left, sum, result)
  BY TypesParts
<1>2. Len(payload) \in Nat /\ pos \in 1 .. Len(payload)
  BY <1>1 DEF Moving, More
<1>3. Base \in Nat /\ Base >= 1 /\ Full \in Nat /\ Full >= 1
  BY Powers
<1>4. payload[pos] \in Int
  <2>1. payload[pos] \in Byte
    BY <1>1, <1>2 DEF Moving
  <2> QED
    BY <2>1, <1>3 DEF Byte
<1> DEFINE b == payload[pos]
           w == Two[shift]
           c == b % Base
           y == val + (c * w)
<1>5. w \in Nat /\ val \in Nat
  BY <1>1, <1>3, TwoPositive DEF Moving
<1>6. c \in Nat
  BY <1>3, <1>4, Division
<1>7. y \in Nat
  <2> HIDE DEF c, w
  <2> QED
    BY <1>5, <1>6
<1>8. Val = y % Full
  BY DEF Val
<1> HIDE DEF y
<1>9. y % Full \in Nat /\ y % Full < Full
  BY <1>3, <1>7, Division
<1>10. Val \in 0 .. Full - 1
  BY <1>3, <1>8, <1>9
<1>11. UnZigZag(Val) \in Long
  BY <1>10, UnZigZagType
<1> QED
  BY <1>2, <1>10, <1>11

\* Every step keeps the types.
LEMMA TypesStep == Types /\ [Next]_vars => Types'
<1> SUFFICES ASSUME Types, [Next]_vars PROVE Types'
  OBVIOUS
<1>1. Fixed /\ Moving(payload, pos, val, shift, want, left, sum, result)
  BY TypesParts
<1>2. CASE ReadGroup
  <2>1. PICK v : v = val' /\ v = Val
    BY <1>2 DEF ReadGroup
  <2>2. PICK p : p = pos' /\ p = pos + 1
    BY <1>2 DEF ReadGroup
  <2>3. PICK s : s = shift' /\ s = shift + Group
    BY <1>2 DEF ReadGroup
  <2>4. v \in 0 .. Full - 1 /\ p \in 1 .. Len(payload) + 1
    BY <1>2, <2>1, <2>2, ValType DEF ReadGroup
  <2>5. s \in Nat
    BY <1>1, <2>3, WidthType DEF Moving
  <2>6. Moving(payload, p, v, s, want, left, sum, result)
    BY <1>1, <2>4, <2>5 DEF Moving
  <2>7. Fixed' /\ Moving(payload', pos', val', shift', want', left', sum', result')
    BY <1>1, <1>2, <2>1, <2>2, <2>3, <2>6 DEF ReadGroup, Fixed
  <2> QED
    BY <2>7 DEF Types, TypeOK, Fixed, Moving, Byte
<1>3. CASE ReadLast
  <2>1. UnZigZag(Val) \in Long /\ pos + 1 \in 1 .. Len(payload) + 1
    BY <1>3, ValType DEF ReadLast
  <2> QED
    BY <1>3, <2>1, CompleteTypes DEF ReadLast
<1>4. CASE ReadPastEnd
  <2>1. CASE AtEnd = "panics" \/ want = "sum"
    <3>1. CASE /\ want' = "panicked"
               /\ UNCHANGED <<proc, list, cut, payload, pos, val, shift, left, sum, result>>
      <4>1. Moving(payload, pos, val, shift, "panicked", left, sum, result)
        BY <1>1 DEF Moving
      <4>2. Fixed' /\ Moving(payload', pos', val', shift', want', left', sum', result')
        BY <1>1, <3>1, <4>1 DEF Fixed
      <4> QED
        BY <4>2 DEF Types, TypeOK, Fixed, Moving, Byte
    <3> QED
      BY <1>4, <2>1, <3>1 DEF ReadPastEnd
  <2>2. CASE AtEnd = "cut" /\ want # "sum"
    <3>1. UnZigZag(val) \in Long /\ pos \in 1 .. Len(payload) + 1
      BY <1>1, UnZigZagType DEF Moving
    <3>2. Complete(UnZigZag(val), pos)
      BY <1>4, <2>2 DEF ReadPastEnd
    <3> QED
      BY <3>1, <3>2, CompleteTypes
  <2>3. CASE AtEnd = "zero" /\ want # "sum"
    <3>1. 0 \in Long /\ pos \in 1 .. Len(payload) + 1
      <4>1. 0 \in Long
        BY Powers DEF Long
      <4> QED
        BY <1>1, <4>1 DEF Moving
    <3>2. Complete(0, pos)
      BY <1>4, <2>3 DEF ReadPastEnd
    <3> QED
      BY <3>1, <3>2, CompleteTypes
  <2> QED
    BY <1>4, <2>1, <2>2, <2>3 DEF ReadPastEnd
<1>5. CASE Terminated \/ UNCHANGED vars
  BY <1>5 DEF Terminated, vars, Types, TypeOK
<1> QED
  BY <1>2, <1>3, <1>4, <1>5 DEF Next

-----------------------------------------------------------------------------
(* The payload, and the reader's place in it.                              *)

\* Until the sum is written the payload is the list's, less what is cut off.
LEMMA CutStep == Cut /\ [Next]_vars => Cut'
<1> SUFFICES ASSUME Cut, [Next]_vars PROVE Cut'
  OBVIOUS
<1>1. cut' = cut /\ list' = list
  BY DEF Next, ReadGroup, ReadLast, ReadPastEnd, Complete, Terminated, vars
<1>2. (InPayload)' => InPayload /\ payload' = payload
  <2>1. CASE ReadGroup
    BY <2>1 DEF ReadGroup, InPayload
  <2>2. ASSUME NEW n, NEW p, Complete(n, p)
        PROVE  (InPayload)' => InPayload /\ payload' = payload
    BY <2>2 DEF Complete, InPayload
  <2>3. CASE ReadLast
    BY <2>2, <2>3 DEF ReadLast
  <2>4. CASE ReadPastEnd
    <3>1. CASE want' = "panicked"
      BY <3>1 DEF InPayload
    <3> QED
      BY <2>2, <2>4, <3>1 DEF ReadPastEnd
  <2>5. CASE Terminated \/ UNCHANGED vars
    BY <2>5 DEF Terminated, vars, InPayload
  <2> QED
    BY <2>1, <2>3, <2>4, <2>5 DEF Next
<1> QED
  BY <1>1, <1>2 DEF Cut

\* What the reader sees of the payload.
LEMMA CutFacts ==
    ASSUME Types, Cut, InPayload
    PROVE  /\ Payload(list) \in Seq(Byte) /\ cut \in Nat
           /\ Len(payload) = Len(Payload(list)) - cut
           /\ \A i \in 1 .. Len(payload) : payload[i] = Payload(list)[i]
<1> DEFINE f == Payload(list)
<1>1. f \in Seq(Byte) /\ cut \in Nat
  BY PayloadType DEF Types, TypeOK
<1>2. Len(f) \in Nat /\ cut < Len(f) /\ payload = SubSeq(f, 1, Len(f) - cut)
  BY <1>1 DEF Cut
<1> HIDE DEF f
<1>3. Len(f) - cut \in 0 .. Len(f) /\ Len(f) - cut \in Nat
  BY <1>1, <1>2
<1>4. Len(payload) = Len(f) - cut /\ \A i \in 1 .. Len(f) - cut : payload[i] = f[i]
  BY <1>1, <1>2, <1>3
<1> QED
  BY <1>1, <1>4 DEF f

\* At a place of the list there is a byte to be read, unless bytes are cut off.
LEMMA PlacedByte ==
    ASSUME Types, Cut, InPayload, NEW u, NEW t,
           Cursor(Payload(list), pos, val, shift, u, t)
    PROVE  /\ pos <= Len(Payload(list))
           /\ More => payload[pos] = Payload(list)[pos]
           /\ cut = 0 => More
<1>1. pos <= Len(Payload(list))
  BY CursorByte
<1>2. pos \in Nat /\ pos >= 1
  BY CursorFacts
<1>3. Len(payload) = Len(Payload(list)) - cut /\ Len(Payload(list)) \in Nat
      /\ \A i \in 1 .. Len(payload) : payload[i] = Payload(list)[i]
  BY CutFacts
<1>4. More => pos \in 1 .. Len(payload)
  <2>1. Len(payload) \in Nat
    BY DEF Types, TypeOK
  <2> QED
    BY <1>2, <2>1 DEF More
<1>5. cut = 0 => More
  BY <1>1, <1>3 DEF More
<1> QED
  BY <1>1, <1>3, <1>4, <1>5

\* A varint of the list is read to its end and not beyond it.
LEMMA PlacedLast ==
    ASSUME Types, Cut, InPayload, More, NEW u, NEW t,
           Cursor(Payload(list), pos, val, shift, u, t)
    PROVE  LastByte <=> payload[pos] < Base
<1>1. payload[pos] = Payload(list)[pos]
  BY PlacedByte
<1>2. ~(payload[pos] < Base) => shift + Group < Width
  BY <1>1, CursorGroup
<1>3. shift + Group \in Int /\ Width \in Int
  BY WidthType DEF Types, TypeOK
<1> QED
  BY <1>2, <1>3 DEF LastByte

\* A complete varint: the reader is at the next place of the list, or has read all of it.
LEMMA PlacedComplete ==
    ASSUME Types, Cut, Sound, InPayload, More, NEW u \in 0 .. Full - 1, NEW t,
           Suffix(Payload(list), pos + 1, t), Place(list, want, left, sum, u, t),
           Complete(UnZigZag(u), pos + 1)
    PROVE  /\ (InPayload)' => InList(list, pos', val', shift', want', left', sum')
           /\ want' = "sum" => sum = Wrap(Total(list)) /\ cut = 0
<1> DEFINE p == pos + 1
           c == UnZigZag(u)
<1>1. p \in Nat \ {0} /\ pos \in Nat /\ sum \in Long /\ list \in Lists /\ left \in Int
  BY Powers DEF Types, TypeOK
<1>2. val' = 0 /\ shift' = 0
  BY DEF Complete
<1>3. CASE want = "count"
  <2>1. PICK k \in 1 .. Len(list) + 1 : AtCount(list, k, sum, u, t)
    BY <1>3 DEF Place
  <2>2. /\ c = 0 => sum = Wrap(Total(list)) /\ p = Len(Payload(list)) + 1
        /\ c > 0 => InList(list, p, 0, 0, AfterItems(c), c, sum)
        /\ c < 0 => Sized(list) /\ InList(list, p, 0, 0, "size", -c, sum)
    <3> HIDE DEF p
    <3>1. Suffix(Payload(list), p, t)
      BY DEF p
    <3> QED
      BY <1>1, <2>1, <3>1, ReadCount
  <2>3. c \in Int
    <3>1. c \in Long
      BY UnZigZagType
    <3> QED
      BY <3>1, Powers DEF Long
  <2>4. CASE c = 0
    <3>1. want' = "sum"
      BY <1>3, <2>4 DEF Complete
    <3>2. cut = 0
      <4>1. pos <= Len(payload) /\ Len(payload) = Len(Payload(list)) - cut /\ cut \in Nat
            /\ Len(Payload(list)) \in Nat
        BY CutFacts DEF More
      <4>2. pos = Len(Payload(list))
        BY <1>1, <2>2, <2>4, <4>1
      <4> QED
        BY <4>1, <4>2
    <3> QED
      BY <2>2, <2>4, <3>1, <3>2 DEF InPayload
  <2>5. CASE c > 0
    <3>1. left' = c /\ pos' = p /\ sum' = sum /\ want' = AfterItems(left')
      <4>1. c # 0 /\ ~(c < 0)
        BY <2>3, <2>5
      <4> QED
        BY <1>3, <2>5, <4>1 DEF Complete
    <3>2. want' = AfterItems(c) /\ want' # "sum"
      BY <3>1 DEF AfterItems
    <3> QED
      BY <1>2, <2>2, <2>5, <3>1, <3>2
  <2>6. CASE c < 0
    <3>1. c # 0 /\ ~(c > 0)
      BY <2>3, <2>6
    <3>2. SkipsSize
      BY <2>2, <2>6 DEF Sound, Readable, SkipsSize
    <3>3. left' = -c /\ pos' = p /\ sum' = sum /\ want' = "size"
      BY <1>3, <2>6, <3>1, <3>2 DEF Complete
    <3> QED
      BY <1>2, <2>2, <2>6, <3>3
  <2> QED
    BY <2>3, <2>4, <2>5, <2>6
<1>4. CASE want = "size"
  <2>1. PICK k \in 1 .. Len(list) : AtSize(list, k, left, sum, u, t)
    BY <1>4 DEF Place
  <2>2. InList(list, p, 0, 0, "item", left, sum)
    <3> HIDE DEF p
    <3>1. Suffix(Payload(list), p, t)
      BY DEF p
    <3> QED
      BY <1>1, <2>1, <3>1, ReadSize
  <2>3. want' = "item" /\ pos' = p /\ left' = left /\ sum' = sum
    BY <1>4 DEF Complete
  <2> QED
    BY <1>2, <2>2, <2>3
<1>5. CASE want = "item"
  <2>1. PICK k \in 1 .. Len(list) : \E j \in 1 .. Len(list[k].items) :
               AtItem(list, k, j, left, sum, u, t)
    BY <1>5 DEF Place
  <2>2. PICK j \in 1 .. Len(list[k].items) : AtItem(list, k, j, left, sum, u, t)
    BY <2>1
  <2>3. InList(list, p, 0, 0, AfterItems(left - 1), left - 1, Wrap(sum + c))
    <3> HIDE DEF p
    <3>1. Suffix(Payload(list), p, t)
      BY DEF p
    <3> QED
      BY <1>1, <2>2, <3>1, ReadItem
  <2>4. want' = AfterItems(left - 1) /\ pos' = p /\ left' = left - 1 /\ sum' = Wrap(sum + c)
    BY <1>5 DEF Complete, Added
  <2>5. want' # "sum"
    BY <2>4 DEF AfterItems
  <2> QED
    BY <1>2, <2>3, <2>4, <2>5
<1> QED
  BY <1>3, <1>4, <1>5 DEF InPayload

\* A step of a sound reader takes it to the next place, or to the end with the sum.
LEMMA SoundStep ==
    ASSUME Types, Cut, Sound, InPayload, InList(list, pos, val, shift, want, left, sum), Next
    PROVE  /\ (InPayload)' => InList(list, pos', val', shift', want', left', sum')
           /\ want' \in {"sum", "done"} =>
                want' = "sum" /\ sum' = sum /\ sum = Wrap(Total(list)) /\ cut = 0
<1> DEFINE f == Payload(list)
<1>1. PICK u, t : Cursor(f, pos, val, shift, u, t) /\ Place(list, want, left, sum, u, t)
  BY DEF InList
<1>2. u \in 0 .. Full - 1 /\ pos \in Nat
  BY <1>1 DEF Cursor
<1>3. More => payload[pos] = f[pos] /\ (LastByte <=> payload[pos] < Base)
  BY <1>1, PlacedByte, PlacedLast
<1>4. CASE ReadGroup
  <2>1. ~(f[pos] < Base) /\ payload[pos] = f[pos]
    BY <1>3, <1>4 DEF ReadGroup
  <2>2. Cursor(f, pos + 1, Val, shift + Group, u, t)
    BY <1>1, <2>1, CursorGroup DEF Val
  <2>3. InList(list, pos + 1, Val, shift + Group, want, left, sum)
    BY <1>1, <2>2 DEF InList
  <2> QED
    BY <1>4, <2>3 DEF ReadGroup, InPayload
<1>5. CASE ReadLast
  <2>1. f[pos] < Base /\ payload[pos] = f[pos] /\ More
    BY <1>3, <1>5 DEF ReadLast
  <2>2. Val = u /\ Suffix(f, pos + 1, t)
    BY <1>1, <2>1, CursorLast DEF Val
  <2>3. Complete(UnZigZag(u), pos + 1)
    BY <1>5, <2>2 DEF ReadLast
  <2>4. /\ (InPayload)' => InList(list, pos', val', shift', want', left', sum')
        /\ want' = "sum" => sum = Wrap(Total(list)) /\ cut = 0
    BY <1>1, <1>2, <2>1, <2>2, <2>3, PlacedComplete
  <2>5. want' \in {"sum", "done"} => want' = "sum" /\ sum' = sum
    BY <2>3 DEF Complete, InPayload, AfterItems
  <2> QED
    BY <2>4, <2>5
<1>6. CASE ReadPastEnd
  <2>1. cut # 0
    BY <1>1, <1>6, PlacedByte DEF ReadPastEnd
  <2>2. AtEnd = "panics" /\ want # "sum"
    BY <2>1 DEF Sound, InPayload
  <2>3. want' = "panicked"
    BY <1>6, <2>2 DEF ReadPastEnd
  <2> QED
    BY <2>3 DEF InPayload
<1>7. CASE Terminated
  BY <1>7 DEF Terminated, InPayload
<1> QED
  BY <1>4, <1>5, <1>6, <1>7 DEF Next

\* No step changes the input; the sum stands from the end of the list on.
LEMMA InputsStep ==
    ASSUME [Next]_vars
    PROVE  /\ proc' = proc /\ list' = list /\ cut' = cut
           /\ (Sound)' <=> Sound
           /\ (InPayload)' => InPayload
           /\ want \in {"sum", "done"} => sum' = sum
           /\ want' \in {"sum", "done"} => want # "panicked"
<1>1. proc' = proc /\ list' = list /\ cut' = cut
  BY DEF Next, ReadGroup, ReadLast, ReadPastEnd, Complete, Terminated, vars
<1>2. (Sound)' <=> Sound
  BY <1>1 DEF Sound, Readable, AtEnd
<1>3. ASSUME NEW n, NEW p, Complete(n, p)
      PROVE  /\ (InPayload)' => InPayload
             /\ want \in {"sum", "done"} => sum' = sum
             /\ want # "panicked"
  BY <1>3 DEF Complete, InPayload
<1>4. CASE ReadGroup
  BY <1>1, <1>2, <1>4 DEF ReadGroup, InPayload, Reading
<1>5. CASE ReadLast
  BY <1>1, <1>2, <1>3, <1>5 DEF ReadLast
<1>6. CASE ReadPastEnd
  <2>1. CASE want' = "panicked" /\ sum' = sum
    BY <1>1, <1>2, <2>1 DEF InPayload
  <2> QED
    BY <1>1, <1>2, <1>3, <1>6, <2>1 DEF ReadPastEnd
<1>7. CASE Terminated \/ UNCHANGED vars
  BY <1>1, <1>2, <1>7 DEF Terminated, vars, InPayload
<1> QED
  BY <1>4, <1>5, <1>6, <1>7 DEF Next

\* Every step of a sound reader takes it to the next place of the list.
LEMMA PlacedStep == Types /\ Cut /\ Placed /\ [Next]_vars => Placed'
<1> SUFFICES ASSUME Types, Cut, Placed, [Next]_vars, (InPayload)', (Sound)'
             PROVE  InList(list', pos', val', shift', want', left', sum')
  BY DEF Placed
<1>1. InPayload /\ Sound /\ list' = list
  BY InputsStep
<1>2. InList(list, pos, val, shift, want, left, sum)
  BY <1>1 DEF Placed
<1>3. CASE Next
  BY <1>1, <1>2, <1>3, SoundStep
<1>4. CASE UNCHANGED vars
  BY <1>2, <1>4 DEF vars
<1> QED
  BY <1>3, <1>4

\* The end of the list is reached with the list's sum.
LEMMA SummedStep == Types /\ Cut /\ Placed /\ ListSummed /\ [Next]_vars => ListSummed'
<1> SUFFICES ASSUME Types, Cut, Placed, ListSummed, [Next]_vars,
                    want' \in {"sum", "done"}, cut' = 0, Readable(list)'
             PROVE  sum' = Wrap(Total(list'))
  BY DEF ListSummed
<1>1. proc' = proc /\ list' = list /\ cut' = cut /\ want # "panicked"
  BY InputsStep
<1>2. Readable(list) /\ cut = 0 /\ Sound
  BY <1>1 DEF Readable, Sound
<1>3. CASE InPayload
  <2>1. InList(list, pos, val, shift, want, left, sum)
    BY <1>2, <1>3 DEF Placed
  <2>2. Next
    BY <1>3 DEF InPayload, vars
  <2> QED
    BY <1>1, <1>2, <1>3, <2>1, <2>2, SoundStep
<1>4. CASE ~InPayload
  <2>1. want \in {"sum", "done"}
    BY <1>1, <1>4 DEF InPayload, Types, TypeOK
  <2> QED
    BY <1>1, <1>2, <2>1, InputsStep DEF ListSummed
<1> QED
  BY <1>3, <1>4

\* A decoder that notices the end of the payload does not take it for a value.
LEMMA TruncationStep ==
    Types /\ Cut /\ Placed /\ TruncationDetected /\ [Next]_vars => TruncationDetected'
<1> SUFFICES ASSUME Types, Cut, Placed, TruncationDetected, [Next]_vars,
                    cut' > 0, proc' \in {"krafka", "rust", "go"}, Readable(list)',
                    want' \in {"sum", "done"}
             PROVE  FALSE
  BY DEF TruncationDetected
<1>1. proc' = proc /\ list' = list /\ cut' = cut /\ want # "panicked"
  BY InputsStep
<1>2. Readable(list) /\ cut > 0 /\ proc \in {"krafka", "rust", "go"} /\ Sound
  BY <1>1 DEF Readable, Sound, AtEnd
<1>3. want \notin {"sum", "done"}
  BY <1>2 DEF TruncationDetected
<1>4. InPayload /\ Next
  BY <1>1, <1>3 DEF InPayload, Types, TypeOK, vars
<1>5. InList(list, pos, val, shift, want, left, sum)
  BY <1>2, <1>4 DEF Placed
<1>6. cut = 0
  BY <1>2, <1>4, <1>5, SoundStep
<1> QED
  BY <1>2, <1>6

-----------------------------------------------------------------------------
(* The consumer reads what the processor wrote.                            *)

\* The processor's encoder writes the varint of the sum, where it can.
LEMMA Written ==
    ASSUME NEW n \in Long, Writable(n)
    PROVE  Cursor(Write(n), 1, 0, 0, Unsigned(n), <<>>)
<1> DEFINE u == Unsigned(n)
<1>1. n \in Int
  BY Powers DEF Long
<1>2. u \in 0 .. Full - 1 /\ u \in Nat
  <2>1. u \in 0 .. Full - 1
    BY <1>1, ZigZagType
  <2> QED
    BY <2>1, Powers
<1>3. Write(n) = Groups[u]
  <2>1. CASE proc \in {"rust", "java"}
    <3>1. ZigZag(n) >= 0 /\ ZigZag(n) = u
      BY <2>1, SignedWritable DEF Writable
    <3>2. ~(ZigZag(n) < 0)
      BY <1>2, <3>1
    <3> QED
      BY <2>1, <3>1, <3>2 DEF Write, WriteSigned
  <2>2. CASE proc \notin {"rust", "java"}
    BY <1>1, <2>2, WriteUnsignedType DEF Write
  <2> QED
    BY <2>1, <2>2
<1> HIDE DEF u
<1>4. Groups[u] \in Seq(Byte)
  BY <1>2, GroupsDef
<1>5. Groups[u] \o <<>> = Groups[u] /\ <<>> \in Seq(Byte)
  BY <1>4
<1>6. Suffix(Write(n), 1, Groups[u] \o <<>>)
  <2>1. Len(Groups[u]) \in Nat
    BY <1>4
  <2> QED
    BY <1>3, <1>5, <2>1 DEF Suffix
<1>7. Cursor(Write(n), 1, 0, 0, u, <<>>)
  <2> DEFINE f == Write(n)
  <2>1. 1 \in Nat \ {0} /\ Suffix(f, 1, Groups[u] \o <<>>)
    BY <1>6
  <2> HIDE DEF f
  <2>2. Cursor(f, 1, 0, 0, u, <<>>)
    BY <1>2, <1>5, <2>1, CursorStart
  <2> QED
    BY <2>2 DEF f
<1> QED
  BY <1>7 DEF u

\* The consumer reads the varint of the sum, and with its last byte the sum.
LEMMA EchoStep == Types /\ Echoed /\ ResultExact /\ [Next]_vars => Echoed' /\ ResultExact'
<1> SUFFICES ASSUME Types, Echoed, ResultExact, [Next]_vars
             PROVE  Echoed' /\ ResultExact'
  OBVIOUS
<1>1. proc' = proc
  BY InputsStep
<1>2. CASE want = "sum" /\ Writable(sum) /\ Next
  <2> DEFINE u == Unsigned(sum)
  <2>1. Cursor(payload, pos, val, shift, u, <<>>)
    BY <1>2 DEF Echoed
  <2>2. pos <= Len(payload)
    BY <2>1, CursorByte
  <2>3. shift + Group \in Int /\ Width \in Int
    BY WidthType DEF Types, TypeOK
  <2>4. LastByte <=> payload[pos] < Base
    <3>1. ~(payload[pos] < Base) => shift + Group < Width
      BY <2>1, CursorGroup
    <3> QED
      BY <2>3, <3>1 DEF LastByte
  <2>5. CASE ReadGroup
    <3>1. ~(payload[pos] < Base)
      BY <2>4, <2>5 DEF ReadGroup
    <3>2. Cursor(payload, pos + 1, Val, shift + Group, u, <<>>)
      BY <2>1, <3>1, CursorGroup DEF Val
    <3>3. /\ payload' = payload /\ pos' = pos + 1 /\ val' = Val /\ shift' = shift + Group
          /\ sum' = sum /\ want' = want
      BY <2>5 DEF ReadGroup
    <3> QED
      BY <1>2, <3>2, <3>3 DEF Echoed, ResultExact, Unsigned, ZigZag
  <2>6. CASE ReadLast
    <3>1. payload[pos] < Base
      BY <2>4, <2>6 DEF ReadLast
    <3>2. Val = u
      BY <2>1, <3>1, CursorLast DEF Val
    <3>3. UnZigZag(Val) = sum
      BY <3>2, UnZigZagUnsigned DEF Types, TypeOK
    <3>4. want' = "done" /\ result' = sum /\ sum' = sum
      BY <1>2, <2>6, <3>3 DEF ReadLast, Complete
    <3> QED
      BY <3>4 DEF Echoed, ResultExact
  <2>7. CASE ReadPastEnd
    BY <2>2, <2>7 DEF ReadPastEnd, More
  <2>8. CASE Terminated
    BY <1>2, <2>8 DEF Terminated
  <2> QED
    BY <1>2, <2>5, <2>6, <2>7, <2>8 DEF Next
<1>3. CASE want = "sum" /\ ~Writable(sum) /\ Next
  <2>1. sum' = sum
    BY <1>3, InputsStep
  <2>2. ~(Writable(sum))'
    BY <1>1, <1>3, <2>1 DEF Writable
  <2> QED
    BY <2>2 DEF Echoed, ResultExact
<1>4. CASE want = "done" \/ UNCHANGED vars
  <2>1. UNCHANGED vars
    BY <1>4 DEF Next, ReadGroup, ReadLast, ReadPastEnd, Terminated, Reading
  <2> QED
    BY <2>1 DEF vars, Echoed, ResultExact, Writable, Unsigned, ZigZag
<1>5. CASE want \notin {"sum", "done"} /\ Next
  <2>1. ASSUME NEW n, NEW p, Complete(n, p), want' = "sum"
        PROVE  payload' = Write(sum) /\ pos' = 1 /\ val' = 0 /\ shift' = 0 /\ sum' = sum
    <3>1. AfterItems(left - 1) # "sum" /\ AfterItems(left') # "sum"
      BY DEF AfterItems
    <3> QED
      BY <1>5, <2>1, <3>1 DEF Complete
  <2>2. ASSUME NEW n, NEW p, Complete(n, p) PROVE want' # "done"
    <3>1. AfterItems(left - 1) # "done" /\ AfterItems(left') # "done"
      BY DEF AfterItems
    <3> QED
      BY <1>5, <2>2, <3>1 DEF Complete
  <2>3. /\ want' # "done"
        /\ want' = "sum" =>
             payload' = Write(sum) /\ pos' = 1 /\ val' = 0 /\ shift' = 0 /\ sum' = sum
    <3>1. CASE ReadGroup
      BY <1>5, <3>1 DEF ReadGroup
    <3>2. CASE ReadLast
      BY <2>1, <2>2, <3>2 DEF ReadLast
    <3>3. CASE ReadPastEnd
      <4>1. CASE want' = "panicked"
        BY <4>1
      <4> QED
        BY <2>1, <2>2, <3>3, <4>1 DEF ReadPastEnd
    <3>4. CASE Terminated
      BY <1>5, <3>4 DEF Terminated, vars
    <3> QED
      BY <1>5, <3>1, <3>2, <3>3, <3>4 DEF Next
  <2>5. ASSUME want' = "sum", (Writable(sum))' PROVE Echoed'
    <3>1. Writable(sum) /\ sum \in Long
      BY <1>1, <2>3, <2>5 DEF Writable, Types, TypeOK
    <3>2. Cursor(Write(sum), 1, 0, 0, Unsigned(sum), <<>>)
      BY <3>1, Written
    <3>3. /\ payload' = Write(sum) /\ pos' = 1 /\ val' = 0 /\ shift' = 0 /\ sum' = sum
      BY <2>3, <2>5
    <3> QED
      BY <3>2, <3>3 DEF Echoed, Unsigned, ZigZag
  <2> QED
    BY <2>3, <2>5 DEF Echoed, ResultExact
<1> QED
  BY <1>2, <1>3, <1>4, <1>5

-----------------------------------------------------------------------------
(* The theorems.                                                           *)

\* The invariant holds initially.
LEMMA InitInv == Init => IInv
<1> SUFFICES ASSUME Init PROVE IInv
  OBVIOUS
<1> DEFINE f == Payload(list)
<1>1. list \in Lists /\ proc \in Processors /\ cut \in 0 .. MaxCut /\ cut < Len(f)
      /\ payload = SubSeq(f, 1, Len(f) - cut) /\ pos = 1 /\ val = 0 /\ shift = 0
      /\ want = "count" /\ left = 0 /\ sum = 0 /\ result = 0
  BY DEF Init
<1>2. f \in Seq(Byte)
  BY <1>1, PayloadType
<1>3. Base \in Nat /\ Half \in Nat /\ Half >= 1 /\ Full \in Nat /\ Full >= 1
  BY Powers
<1>4. payload \in Seq(Byte) /\ Len(payload) \in Nat
  <2>1. cut \in Nat
    BY <1>1
  <2> HIDE DEF f
  <2>2. Len(f) \in Nat /\ Len(f) - cut \in 0 .. Len(f)
    BY <1>1, <1>2, <2>1
  <2>3. SubSeq(f, 1, Len(f) - cut) \in Seq(Byte)
    BY <1>2, <2>2
  <2> QED
    BY <1>1, <2>3
<1>5. 0 \in Long /\ 0 \in 0 .. Half /\ 0 \in 0 .. Full - 1 /\ 1 \in 1 .. Len(payload) + 1
  BY <1>3, <1>4 DEF Long
<1>6. Types
  BY <1>1, <1>4, <1>5 DEF Types, TypeOK, Byte
<1>7. Cut
  BY <1>1 DEF Cut
<1>8. Placed
  <2>1. 1 \in 1 .. Len(list) + 1 /\ 1 \in Nat \ {0}
    BY <1>1, ListFacts
  <2>2. Suffix(f, 1, ListBytes(list)[1])
    BY <1>2 DEF Suffix, Payload
  <2>3. Wrap(0 + SumsFrom(list)[1]) = Wrap(Total(list))
    <3>1. SumsFrom(list)[1] \in Int /\ SumsFrom(list)[1] = Total(list)
      BY <1>1, <2>1, SumType
    <3>2. 0 + Total(list) = Total(list)
      BY <3>1
    <3> QED
      BY <3>1, <3>2
  <2>4. InList(list, 1, 0, 0, "count", 0, 0)
    BY <1>1, <2>1, <2>2, <2>3, AtBlock
  <2> QED
    BY <1>1, <2>4 DEF Placed
<1> QED
  BY <1>1, <1>6, <1>7, <1>8 DEF IInv, Echoed, ListSummed, TruncationDetected, ResultExact

\* The invariant holds always.
LEMMA Inductive == Spec => []IInv
<1>1. Init => IInv
  BY InitInv
<1>2. IInv /\ [Next]_vars => IInv'
  BY TypesStep, CutStep, PlacedStep, SummedStep, TruncationStep, EchoStep DEF IInv
<1> QED
  BY <1>1, <1>2, PTL DEF Spec

\* Whatever list is read by whichever processor, complete or cut, every variable keeps its type:
\* no byte, word, count or sum leaves its range, and no position the payload.
THEOREM TypeCorrect == Spec => []TypeOK
<1>1. IInv => TypeOK
  BY DEF IInv, Types
<1> QED
  BY <1>1, Inductive, PTL

\* Every list of longs, in any blocks with or without sizes, is summed modulo 2^Width: decoders
\* and sum loop undo what the encoder wrote, for a word and a group of any number of bits.
THEOREM ListSummedTheorem == Spec => []ListSummed
<1>1. IInv => ListSummed
  BY DEF IInv
<1> QED
  BY <1>1, Inductive, PTL

\* No list that has lost bytes at its end, however many, yields a sum where reading past the end
\* panics.
THEOREM TruncationTheorem == Spec => []TruncationDetected
<1>1. IInv => TruncationDetected
  BY DEF IInv
<1> QED
  BY <1>1, Inductive, PTL

\* The consumer prints the processor's sum, for every long where the encoder is unsigned and for
\* half of them where it is signed.
THEOREM ResultTheorem == Spec => []ResultExact
<1>1. IInv => ResultExact
  BY DEF IInv
<1> QED
  BY <1>1, Inductive, PTL
=============================================================================
