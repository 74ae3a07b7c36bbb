----------------------------- MODULE Recursion -----------------------------
(***************************************************************************)
(* Induction over the natural numbers, and the existence of functions      *)
(* defined by recursion, stated for sets and functions instead of          *)
(* operators: the induction theorems of the library have an operator as    *)
(* their parameter, which no backend can instantiate.  All rests on the    *)
(* well-foundedness of < on Nat.                                           *)
(***************************************************************************)
EXTENDS Integers, WellFoundedInduction, TLAPS

\* A set of natural numbers has a least element.
LEMMA Least ==
    ASSUME NEW T, T \subseteq Nat, T # {}
    PROVE  \E m \in T : \A n \in T : m <= n
<1>1. IsWellFoundedOn(OpToRel(<, Nat), Nat)
  BY NatLessThanWellFounded
<1>2. PICK m \in T : \A n \in T : <<n, m>> \notin OpToRel(<, Nat)
  BY <1>1, WFMin, Zenon
<1>3. \A n \in T : ~ (n < m)
  BY <1>2 DEF OpToRel
<1> QED
  BY <1>3

\* What holds of 0, and of n + 1 when it holds of n, holds of every natural number.
LEMMA Induction ==
    ASSUME NEW T, 0 \in T, \A n \in Nat : n \in T => n + 1 \in T
    PROVE  \A n \in Nat : n \in T
<1> DEFINE U == Nat \ T
<1>1. SUFFICES ASSUME U # {} PROVE FALSE
  OBVIOUS
<1>2. PICK m \in U : \A n \in U : m <= n
  <2>1. U \subseteq Nat
    OBVIOUS
  <2> HIDE DEF U
  <2> QED
    BY <1>1, <2>1, Least
<1>3. m # 0 /\ m - 1 \in Nat
  OBVIOUS
<1>4. m - 1 \in T
  BY <1>2, <1>3
<1> QED
  BY <1>3, <1>4

-----------------------------------------------------------------------------
(* Recursion: on D a function is given by a, and elsewhere by its value at *)
(* a smaller number.                                                       *)

Step(D, a, d, h, g, v) == IF v \in D THEN a[v] ELSE h[<<v, g[d[v]]>>]

\* The argument of the recursive call is smaller.
Descends(D, d) == \A v \in Nat \ D : d[v] < v

\* The function as far as n.
Upto(D, a, d, h, g, n) == \A v \in 0 .. n : g[v] = Step(D, a, d, h, g, v)

\* Two solutions agree as far as both go.
LEMMA UptoUnique ==
    ASSUME NEW D, NEW a, NEW h, NEW d \in [Nat -> Nat], Descends(D, d),
           NEW m \in Nat, NEW n \in Nat, NEW f, NEW g,
           Upto(D, a, d, h, f, m), Upto(D, a, d, h, g, n)
    PROVE  \A v \in Nat : v <= m /\ v <= n => f[v] = g[v]
<1> USE DEF Descends
<1> DEFINE U == {u \in Nat : u <= m /\ u <= n /\ f[u] # g[u]}
<1>1. SUFFICES ASSUME U # {} PROVE FALSE
  OBVIOUS
<1>2. PICK u \in U : \A w \in U : u <= w
  <2>1. U \subseteq Nat
    OBVIOUS
  <2> HIDE DEF U
  <2> QED
    BY <1>1, <2>1, Least
<1>3. u \in 0 .. m /\ u \in 0 .. n /\ f[u] # g[u]
  OBVIOUS
<1>4. f[u] = Step(D, a, d, h, f, u) /\ g[u] = Step(D, a, d, h, g, u)
  BY <1>3 DEF Upto
<1>5. u \notin D
  BY <1>3, <1>4 DEF Step
<1>6. d[u] \in Nat /\ d[u] < u
  BY <1>3, <1>5
<1>7. f[d[u]] = g[d[u]]
  <2>1. d[u] \notin U
    BY <1>2, <1>3, <1>6
  <2>2. d[u] <= m /\ d[u] <= n
    BY <1>3, <1>6
  <2> QED
    BY <1>6, <2>1, <2>2
<1> QED
  BY <1>3, <1>4, <1>7 DEF Step

\* There is a solution as far as any n.
LEMMA UptoExists ==
    ASSUME NEW S, NEW D, NEW a \in [Nat -> S], NEW d \in [Nat -> Nat],
           NEW h \in [Nat \X S -> S], Descends(D, d)
    PROVE  \A n \in Nat : \E g \in [0 .. n -> S] : Upto(D, a, d, h, g, n)
<1> USE DEF Descends
<1> DEFINE T == {n \in Nat : \E g \in [0 .. n -> S] : Upto(D, a, d, h, g, n)}
<1>1. 0 \in T
  <2> DEFINE g == [v \in 0 .. 0 |-> a[0]]
  <2>1. 0 \in D
    <3> SUFFICES ASSUME 0 \notin D PROVE FALSE
      OBVIOUS
    <3>1. d[0] \in Nat /\ d[0] < 0
      OBVIOUS
    <3> QED
      BY <3>1
  <2>2. g \in [0 .. 0 -> S]
    OBVIOUS
  <2>3. Upto(D, a, d, h, g, 0)
    BY <2>1 DEF Upto, Step
  <2> QED
    BY <2>2, <2>3
<1>2. ASSUME NEW n \in Nat, n \in T PROVE n + 1 \in T
  <2>1. PICK g \in [0 .. n -> S] : Upto(D, a, d, h, g, n)
    BY <1>2
  <2> DEFINE k == [v \in 0 .. n + 1 |->
                     IF v = n + 1 THEN Step(D, a, d, h, g, n + 1) ELSE g[v]]
  <2>2. Step(D, a, d, h, g, n + 1) \in S
    <3>1. CASE n + 1 \in D
      BY <3>1 DEF Step
    <3>2. CASE n + 1 \notin D
      <4>1. d[n + 1] \in 0 .. n
        BY <3>2
      <4>2. n + 1 \in Nat /\ g[d[n + 1]] \in S
        BY <4>1
      <4> QED
        BY <3>2, <4>2 DEF Step
    <3> QED
      BY <3>1, <3>2
  <2>3. k \in [0 .. n + 1 -> S]
    BY <2>2
  <2>4. ASSUME NEW v \in 0 .. n + 1 PROVE k[v] = Step(D, a, d, h, k, v)
    <3>1. v \notin D => d[v] \in 0 .. n /\ k[d[v]] = g[d[v]]
      <4> SUFFICES ASSUME v \notin D PROVE d[v] \in 0 .. n /\ k[d[v]] = g[d[v]]
        OBVIOUS
      <4>1. v \in Nat /\ v <= n + 1
        OBVIOUS
      <4>2. d[v] \in Nat /\ d[v] < v
        BY <4>1
      <4> HIDE DEF k
      <4>3. d[v] \in 0 .. n
        BY <4>1, <4>2
      <4> DEFINE w == d[v]
      <4> HIDE DEF w
      <4>4. w \in 0 .. n
        BY <4>3 DEF w
      <4>5. w \in 0 .. n + 1 /\ w # n + 1
        BY <4>4
      <4>6. k[w] = g[w]
        BY <4>5 DEF k
      <4> QED
        BY <4>3, <4>6 DEF w
    <3>2. Step(D, a, d, h, k, v) = Step(D, a, d, h, g, v)
      <4> HIDE DEF k
      <4> QED
        BY <3>1 DEF Step
    <3>3. CASE v = n + 1
      BY <3>2, <3>3
    <3>4. CASE v # n + 1
      <4>1. v \in 0 .. n /\ k[v] = g[v]
        BY <3>4
      <4> QED
        BY <2>1, <3>2, <4>1 DEF Upto
    <3> QED
      BY <3>3, <3>4
  <2>5. Upto(D, a, d, h, k, n + 1)
    BY <2>4 DEF Upto
  <2> HIDE DEF k
  <2> QED
    BY <2>3, <2>5
<1>3. \A n \in Nat : n \in T
  <2> HIDE DEF T
  <2> QED
    BY <1>1, <1>2, Induction
<1> QED
  BY <1>3

\* A recursion over Nat with values in S, and a function that satisfies it.
WellFormed(S, D, a, d, h) ==
    /\ a \in [Nat -> S] /\ d \in [Nat -> Nat] /\ h \in [Nat \X S -> S]
    /\ Descends(D, d)

Solvable(S, D, a, d, h) ==
    \E f \in [Nat -> S] : \A v \in Nat : f[v] = Step(D, a, d, h, f, v)

\* A recursion whose argument descends has a solution, so that a function defined by it
\* satisfies its own equation.
THEOREM RecursionExists ==
    ASSUME NEW S, NEW D, NEW a, NEW d, NEW h, WellFormed(S, D, a, d, h)
    PROVE  Solvable(S, D, a, d, h)
<1> USE DEF WellFormed
<1> DEFINE G(n) == CHOOSE g \in [0 .. n -> S] : Upto(D, a, d, h, g, n)
<1>1. \A n \in Nat : G(n) \in [0 .. n -> S] /\ Upto(D, a, d, h, G(n), n)
  BY UptoExists
<1> HIDE DEF G
<1> DEFINE f == [n \in Nat |-> G(n)[n]]
<1>2. f \in [Nat -> S]
  BY <1>1
<1>3. ASSUME NEW v \in Nat PROVE f[v] = Step(D, a, d, h, f, v)
  <2>1. f[v] = Step(D, a, d, h, G(v), v)
    BY <1>1 DEF Upto
  <2>2. CASE v \in D
    BY <2>1, <2>2 DEF Step
  <2>3. CASE v \notin D
    <3>1. d[v] \in Nat /\ d[v] < v
      BY <2>3 DEF Descends
    <3>2. G(v)[d[v]] = G(d[v])[d[v]]
      <4> DEFINE u == d[v]
      <4>1. u \in Nat /\ u \in 0 .. v /\ u <= u
        BY <3>1
      <4>2. Upto(D, a, d, h, G(v), v) /\ Upto(D, a, d, h, G(u), u)
        BY <1>1, <4>1
      <4> DEFINE p == G(v)
                 q == G(u)
      <4> HIDE DEF u, p, q
      <4>3. Upto(D, a, d, h, p, v) /\ Upto(D, a, d, h, q, u)
        BY <4>2 DEF p, q
      <4>4. p[u] = q[u]
        BY <4>1, <4>3, UptoUnique
      <4> QED
        BY <4>4 DEF u, p, q
    <3>3. f[d[v]] = G(v)[d[v]]
      BY <3>1, <3>2
    <3> QED
      BY <2>1, <2>3, <3>3 DEF Step
  <2> QED
    BY <2>2, <2>3
<1> HIDE DEF f
<1> QED
  BY <1>2, <1>3 DEF Solvable

-----------------------------------------------------------------------------
(* Recursion from the end of a sequence of length m: end after the last    *)
(* place, and elsewhere the value at the next place.                       *)

Backward(S, m, end, h) == m \in Nat /\ end \in S /\ h \in [(1 .. m) \X S -> S]

Solves(m, end, h, f) == \A k \in 1 .. m + 1 : f[k] = IF k > m THEN end ELSE h[<<k, f[k + 1]>>]

BackwardSolvable(S, m, end, h) == \E f \in [1 .. m + 1 -> S] : Solves(m, end, h, f)

\* A recursion from the end of a sequence has a solution: f[k] from f[k + 1].
THEOREM BackwardExists ==
    ASSUME NEW S, NEW m, NEW end, NEW h, Backward(S, m, end, h)
    PROVE  BackwardSolvable(S, m, end, h)
<1>1. m \in Nat /\ end \in S /\ h \in [(1 .. m) \X S -> S]
  BY DEF Backward
<1> DEFINE D == {n \in Nat : n = 0 \/ n > m}
           a == [n \in Nat |-> end]
           d == [n \in Nat |-> IF n = 0 THEN 0 ELSE n - 1]
           c == [p \in Nat \X S |-> IF p[1] \in 1 .. m THEN h[<<m + 1 - p[1], p[2]>>] ELSE p[2]]
<1>2. c \in [Nat \X S -> S]
  <2> SUFFICES ASSUME NEW n \in 1 .. m, NEW x \in S PROVE h[<<m + 1 - n, x>>] \in S
    OBVIOUS
  <2>1. m + 1 - n \in 1 .. m
    BY <1>1
  <2> QED
    BY <1>1, <2>1
<1>3. WellFormed(S, D, a, d, c)
  BY <1>1, <1>2 DEF WellFormed, Descends
<1>4. PICK g \in [Nat -> S] : \A n \in Nat : g[n] = Step(D, a, d, c, g, n)
  <2> HIDE DEF D, a, d, c
  <2> QED
    BY <1>3, RecursionExists DEF Solvable
<1>5. g[0] = end
  BY <1>4 DEF Step
<1>6. ASSUME NEW n \in 1 .. m PROVE g[n] = h[<<m + 1 - n, g[n - 1]>>]
  <2>1. n \in Nat /\ n - 1 \in Nat /\ n \notin D /\ d[n] = n - 1
    BY <1>1
  <2>2. g[n] = c[<<n, g[n - 1]>>]
    <3> HIDE DEF D, a, d, c
    <3> QED
      BY <1>4, <2>1 DEF Step
  <2>3. g[n - 1] \in S
    BY <2>1
  <2> QED
    BY <2>1, <2>2, <2>3
<1> DEFINE f == [k \in 1 .. m + 1 |-> g[m + 1 - k]]
<1>7. f \in [1 .. m + 1 -> S]
  BY <1>1
<1>8. ASSUME NEW k \in 1 .. m + 1
      PROVE  f[k] = IF k > m THEN end ELSE h[<<k, f[k + 1]>>]
  <2>1. CASE k > m
    <3>1. m + 1 - k = 0
      BY <1>1, <2>1
    <3> QED
      BY <1>5, <2>1, <3>1
  <2>2. CASE ~(k > m)
    <3> DEFINE n == m + 1 - k
    <3>1. n \in 1 .. m /\ m + 1 - n = k /\ k + 1 \in 1 .. m + 1 /\ m + 1 - (k + 1) = n - 1
      BY <1>1, <2>2
    <3>2. f[k] = g[n] /\ f[k + 1] = g[n - 1]
      BY <3>1
    <3> HIDE DEF n, f
    <3>3. g[n] = h[<<k, g[n - 1]>>]
      BY <1>6, <3>1
    <3> QED
      BY <2>2, <3>2, <3>3
  <2> QED
    BY <2>1, <2>2
<1> HIDE DEF f
<1> QED
  BY <1>7, <1>8 DEF BackwardSolvable, Solves
=============================================================================
