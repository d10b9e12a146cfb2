------------------------------ MODULE HmmProofs ------------------------------
(***************************************************************************)
(* Proofs about HMM_JH/main.cpp, for every number of states, symbols and   *)
(* observations: what an epoch sums, over the memory it works on; that     *)
(* viterbi() finds most likely paths; that the training loop uses the      *)
(* lines of its file in order; and that main() does both.                  *)
(*                                                                         *)
(* The way there: induction over naturals and finite sets, stated about    *)
(* sets; the arithmetic of fractions in lowest terms; sums over finite     *)
(* sets, in any order and part by part; the recursive functions of the     *)
(* model, which are equations to be solved before they can be used; and    *)
(* one induction over time for each of the dynamic programs.               *)
(***************************************************************************)
EXTENDS HmmMain, Integers, FiniteSetTheorems, TLAPS

-----------------------------------------------------------------------------
(* Induction, as a fact about sets of naturals.                            *)

\* A set of naturals that is not empty has a least element.
LEMMA LeastNatural ==
    ASSUME NEW S \in SUBSET Nat, S # {}
    PROVE  \E n \in S : \A m \in S : n <= m
<1> DEFINE R == {p \in Nat \X Nat : p[1] < p[2]}
<1>1. IsWellFoundedOn(R, Nat)
  BY NatLessThanWellFounded, Zenon DEF OpToRel
<1>2. \A x, y \in Nat : <<y, x>> \in R <=> y < x
  OBVIOUS
<1> HIDE DEF R
<1>3. PICK x \in S : \A y \in S : ~ (<<y, x>> \in R)
  BY <1>1, WFMin, Zenon
<1>4. ASSUME NEW y \in S PROVE x <= y
  <2>1. x \in Nat /\ y \in Nat /\ ~(<<y, x>> \in R)
    BY <1>3
  <2>2. ~(y < x)
    BY <1>2, <2>1, Zenon
  <2> QED
    BY <2>1, <2>2
<1> QED
  BY <1>4

\* Induction.
LEMMA SetInduction ==
    ASSUME NEW S, 0 \in S, \A n \in Nat : n \in S => n + 1 \in S
    PROVE  Nat \subseteq S
<1> DEFINE U == Nat \ S
<1> SUFFICES ASSUME U # {} PROVE FALSE
  OBVIOUS
<1>1. U \in SUBSET Nat
  OBVIOUS
<1>2. PICK n \in U : \A m \in U : n <= m
  <2> HIDE DEF U
  <2> QED
    BY <1>1, LeastNatural
<1>3. n # 0 /\ n - 1 \in Nat /\ n - 1 \in S /\ (n - 1) + 1 = n
  BY <1>2
<1> QED
  BY <1>2, <1>3

\* With all smaller numbers in the set.
LEMMA StrongInduction ==
    ASSUME NEW S, \A n \in Nat : (\A m \in Nat : m < n => m \in S) => n \in S
    PROVE  Nat \subseteq S
<1> DEFINE U == {n \in Nat : \A m \in Nat : m < n => m \in S}
<1>1. 0 \in U
  OBVIOUS
<1>2. ASSUME NEW n \in Nat, n \in U PROVE n + 1 \in U
  <2>1. n \in S
    BY <1>2
  <2>2. ASSUME NEW m \in Nat, m < n + 1 PROVE m \in S
    <3>1. m < n \/ m = n
      BY <2>2
    <3> QED
      BY <3>1, <2>1, <1>2
  <2> QED
    BY <2>2
<1>3. Nat \subseteq U
  <2> HIDE DEF U
  <2> QED
    BY <1>1, <1>2, SetInduction
<1>4. ASSUME NEW n \in Nat PROVE n \in S
  <2>1. n + 1 \in U /\ n < n + 1
    BY <1>3
  <2> QED
    BY <2>1
<1> QED
  BY <1>4

\* f is defined by recursion over the naturals.
Recurs(f, V, first, step) ==
    /\ f \in [Nat -> V]
    /\ f[0] = first
    /\ \A n \in Nat : f[n + 1] = step[n][f[n]]

\* Recursion defines a function.
LEMMA Recursion ==
    ASSUME NEW V, NEW first, first \in V, NEW step, \A n \in Nat, v \in V : step[n][v] \in V
    PROVE  \E f : Recurs(f, V, first, step)
<1> DEFINE Good(n, f) == f \in [0 .. n -> V] /\ f[0] = first /\ \A m \in Nat : m < n => f[m + 1] = step[m][f[m]]
           S == {n \in Nat : \E f : Good(n, f)}
<1>1. 0 \in S
  <2>1. Good(0, [m \in 0 .. 0 |-> first])
    OBVIOUS
  <2> QED
    BY <2>1
<1>2. ASSUME NEW n \in Nat, n \in S PROVE n + 1 \in S
  <2>1. PICK f : Good(n, f)
    BY <1>2
  <2> DEFINE g == [m \in 0 .. n + 1 |-> IF m = n + 1 THEN step[n][f[n]] ELSE f[m]]
  <2>2. f[n] \in V
    BY <2>1
  <2>3. step[n][f[n]] \in V
    BY <2>2
  <2>4. g \in [0 .. n + 1 -> V]
    BY <2>1, <2>3
  <2>5. g[0] = first
    BY <2>1
  <2>6. ASSUME NEW m \in Nat, m < n + 1 PROVE g[m + 1] = step[m][g[m]]
    <3>1. CASE m < n
      BY <3>1, <2>1
    <3>2. CASE m = n
      BY <3>2
    <3> QED
      BY <3>1, <3>2, <2>6
  <2>7. Good(n + 1, g)
    <3> HIDE DEF g
    <3> QED
      BY <2>4, <2>5, <2>6
  <2> HIDE DEF Good, g
  <2> QED
    BY <2>7
<1>3. Nat \subseteq S
  <2> HIDE DEF S
  <2> QED
    BY <1>1, <1>2, SetInduction
<1> DEFINE h == [n \in Nat |-> CHOOSE f : Good(n, f)]
<1>4. ASSUME NEW n \in Nat PROVE Good(n, h[n])
  <2>1. \E f : Good(n, f)
    BY <1>3
  <2> HIDE DEF Good
  <2> QED
    BY <2>1
<1>5. ASSUME NEW n \in Nat PROVE h[n + 1][n] = h[n][n]
  <2> HIDE DEF h
  <2> DEFINE E == {m \in Nat : m <= n => h[n + 1][m] = h[n][m]}
  <2>1. Good(n, h[n]) /\ Good(n + 1, h[n + 1])
    BY <1>4
  <2>2. 0 \in E
    BY <2>1
  <2>3. ASSUME NEW m \in Nat, m \in E PROVE m + 1 \in E
    <3> SUFFICES ASSUME m + 1 <= n PROVE h[n + 1][m + 1] = h[n][m + 1]
      OBVIOUS
    <3>1. m < n /\ m < n + 1 /\ h[n + 1][m] = h[n][m]
      BY <2>3
    <3>2. h[n + 1][m + 1] = step[m][h[n + 1][m]]
      BY <2>1, <3>1
    <3>3. h[n][m + 1] = step[m][h[n][m]]
      BY <2>1, <3>1
    <3> QED
      BY <3>1, <3>2, <3>3
  <2>4. Nat \subseteq E
    <3> HIDE DEF E, Good
    <3> QED
      BY <2>2, <2>3, SetInduction
  <2> QED
    BY <2>4
<1> DEFINE g == [n \in Nat |-> h[n][n]]
<1>6. ASSUME NEW n \in Nat PROVE g[n] \in V /\ g[n] = h[n][n]
  <2> HIDE DEF h
  <2> QED
    BY <1>4
<1>7. g \in [Nat -> V]
  BY <1>6
<1>8. g[0] = first
  <2>1. Good(0, h[0])
    BY <1>4
  <2> HIDE DEF h
  <2> QED
    BY <2>1, <1>6
<1>9. ASSUME NEW n \in Nat PROVE g[n + 1] = step[n][g[n]]
  <2>1. Good(n + 1, h[n + 1]) /\ n + 1 \in Nat /\ n < n + 1
    <3> HIDE DEF Good, h
    <3> QED
      BY <1>4
  <2>2. h[n + 1][n + 1] = step[n][h[n + 1][n]]
    <3> HIDE DEF h
    <3> QED
      BY <2>1
  <2>3. g[n + 1] = h[n + 1][n + 1] /\ g[n] = h[n][n]
    BY <1>6
  <2> HIDE DEF h, g
  <2> QED
    BY <2>2, <2>3, <1>5
<1> HIDE DEF g
<1>10. Recurs(g, V, first, step)
  BY <1>7, <1>8, <1>9 DEF Recurs
<1> QED
  BY <1>10

-----------------------------------------------------------------------------
(* Euclid's algorithm.                                                     *)

\* By Bezout's identity every common divisor divides g.
IsGcd(g, a, b) ==
    /\ g \in Nat
    /\ \E k \in Nat : a = g * k
    /\ \E k \in Nat : b = g * k
    /\ \E u, v \in Int : g = u * a + v * b

LEMMA DivMod ==
    ASSUME NEW a \in Nat, NEW b \in Nat, b # 0
    PROVE  /\ a \div b \in Nat /\ a % b \in Nat /\ a % b < b
           /\ a = b * (a \div b) + (a % b)
  OBVIOUS

LEMMA Combine ==
    ASSUME NEW a \in Int, NEW b \in Int, NEW q \in Int, NEW r \in Int, NEW u \in Int, NEW v \in Int,
           a = b * q + r
    PROVE  u * b + v * r = v * a + (u - v * q) * b
  OBVIOUS

LEMMA GcdStep ==
    ASSUME NEW a \in Nat, NEW b \in Nat, b # 0, NEW g, IsGcd(g, b, a % b)
    PROVE  IsGcd(g, a, b)
<1>1. PICK k \in Nat, l \in Nat, u \in Int, v \in Int :
        g \in Nat /\ b = g * k /\ a % b = g * l /\ g = u * b + v * (a % b)
  BY DEF IsGcd
<1> DEFINE q == a \div b
           r == a % b
<1>2. q \in Nat /\ r \in Nat /\ a = b * q + r
  BY DivMod
<1> HIDE DEF q
<1>3. r = g * l /\ g = u * b + v * r
  BY <1>1
<1> HIDE DEF r
<1>4. a = g * (k * q + l) /\ k * q + l \in Nat
  <2>1. b * q = (g * k) * q
    BY <1>1
  <2>2. (g * k) * q = g * (k * q) /\ k * q \in Nat
    BY <1>1, <1>2
  <2>3. g * (k * q + l) = g * (k * q) + g * l
    BY <1>1, <1>2
  <2> QED
    BY <2>1, <2>2, <2>3, <1>2, <1>3
<1>5. g = v * a + (u - v * q) * b /\ u - v * q \in Int
  <2>1. v * q \in Int
    BY <1>2
  <2> QED
    BY <1>1, <1>2, <1>3, <2>1, Combine
<1> QED
  BY <1>1, <1>4, <1>5 DEF IsGcd

\* The equation of gcd has a solution.
LEMMA GcdExists ==
    gcd = [b \in Nat |-> [a \in Nat |-> IF b = 0 THEN a ELSE gcd[a % b][b]]]
<1> DEFINE Good(n, g) == /\ g \in [0 .. n -> [Nat -> Nat]]
                         /\ \A b \in 0 .. n : g[b] = [a \in Nat |-> IF b = 0 THEN a ELSE g[a % b][b]]
           S == {n \in Nat : \E g : Good(n, g)}
<1>1. 0 \in S
  <2> DEFINE g == [m \in 0 .. 0 |-> [a \in Nat |-> a]]
  <2>1. Good(0, g)
    OBVIOUS
  <2> QED
    BY <2>1
<1>2. ASSUME NEW n \in Nat, n \in S PROVE n + 1 \in S
  <2>1. PICK f : Good(n, f)
    BY <1>2
  <2> DEFINE top == [a \in Nat |-> f[a % (n + 1)][n + 1]]
             g   == [m \in 0 .. n + 1 |-> IF m = n + 1 THEN top ELSE f[m]]
  <2>2. ASSUME NEW a \in Nat, NEW b \in Nat, b # 0 PROVE a % b \in 0 .. b - 1
    BY <2>2, DivMod
  <2>3. top \in [Nat -> Nat]
    <3>1. ASSUME NEW a \in Nat PROVE f[a % (n + 1)][n + 1] \in Nat
      <4>1. a % (n + 1) \in 0 .. n
        BY <2>2
      <4>2. f[a % (n + 1)] \in [Nat -> Nat]
        BY <4>1, <2>1
      <4> QED
        BY <4>2
    <3> QED
      BY <3>1
  <2>4. g \in [0 .. n + 1 -> [Nat -> Nat]]
    <3> HIDE DEF top
    <3>1. ASSUME NEW m \in 0 .. n + 1 PROVE (IF m = n + 1 THEN top ELSE f[m]) \in [Nat -> Nat]
      <4>1. CASE m = n + 1
        BY <4>1, <2>3
      <4>2. CASE m # n + 1
        <5>1. m \in 0 .. n
          BY <4>2
        <5> QED
          BY <5>1, <4>2, <2>1
      <4> QED
        BY <4>1, <4>2
    <3> QED
      BY <3>1
  <2>5. ASSUME NEW b \in 0 .. n + 1 PROVE g[b] = [a \in Nat |-> IF b = 0 THEN a ELSE g[a % b][b]]
    <3>1. CASE b = n + 1
      <4>1. \A a \in Nat : a % b \in 0 .. n
        BY <3>1, <2>2
      <4>2. ASSUME NEW a \in Nat PROVE g[a % b] = f[a % b]
        <5>1. a % b \in 0 .. n + 1 /\ a % b # n + 1
          BY <4>1
        <5> HIDE DEF top
        <5> QED
          BY <5>1
      <4>3. g[b] = top /\ b # 0
        BY <3>1
      <4> QED
        BY <4>2, <4>3, <3>1
    <3>2. CASE b # n + 1
      <4>1. b \in 0 .. n
        BY <3>2
      <4>2. ASSUME b # 0, NEW a \in Nat PROVE g[a % b] = f[a % b]
        <5>1. a % b \in 0 .. n + 1 /\ a % b # n + 1
          BY <4>1, <4>2, <2>2
        <5> HIDE DEF top
        <5> QED
          BY <5>1
      <4>3. g[b] = f[b]
        BY <4>1
      <4>4. f[b] = [a \in Nat |-> IF b = 0 THEN a ELSE f[a % b][b]]
        BY <2>1, <4>1
      <4> HIDE DEF g
      <4> QED
        BY <4>2, <4>3, <4>4
    <3> QED
      BY <3>1, <3>2
  <2>6. Good(n + 1, g)
    <3> HIDE DEF g
    <3> QED
      BY <2>4, <2>5
  <2> HIDE DEF Good, g
  <2> QED
    BY <2>6
<1>3. Nat \subseteq S
  <2> HIDE DEF S
  <2> QED
    BY <1>1, <1>2, SetInduction
<1> DEFINE h == [n \in Nat |-> CHOOSE g : Good(n, g)]
<1>4. ASSUME NEW n \in Nat PROVE Good(n, h[n])
  <2>1. \E g : Good(n, g)
    BY <1>3
  <2> HIDE DEF Good
  <2> QED
    BY <2>1
<1> HIDE DEF h
<1>5. ASSUME NEW n \in Nat, NEW m \in Nat, NEW b \in Nat, b <= n, b <= m PROVE h[n][b] = h[m][b]
  <2> DEFINE E == {c \in Nat : c <= n /\ c <= m => h[n][c] = h[m][c]}
  <2>1. Good(n, h[n]) /\ Good(m, h[m])
    BY <1>4
  <2>2. ASSUME NEW c \in Nat, \A d \in Nat : d < c => d \in E PROVE c \in E
    <3> SUFFICES ASSUME c <= n, c <= m PROVE h[n][c] = h[m][c]
      OBVIOUS
    <3>1. /\ h[n][c] = [a \in Nat |-> IF c = 0 THEN a ELSE h[n][a % c][c]]
          /\ h[m][c] = [a \in Nat |-> IF c = 0 THEN a ELSE h[m][a % c][c]]
      <4> c \in 0 .. n /\ c \in 0 .. m
        OBVIOUS
      <4> QED
        BY <2>1
    <3>2. ASSUME c # 0, NEW a \in Nat PROVE h[n][a % c] = h[m][a % c]
      <4>1. a % c \in Nat /\ a % c < c
        BY <3>2, DivMod
      <4>2. a % c \in E
        BY <4>1, <2>2
      <4> QED
        BY <4>1, <4>2
    <3> QED
      BY <3>1, <3>2
  <2>3. Nat \subseteq E
    <3> HIDE DEF E, Good
    <3> QED
      BY <2>2, StrongInduction
  <2> QED
    BY <2>3, <1>5
<1> DEFINE w == [b \in Nat |-> h[b][b]]
<1>6. ASSUME NEW b \in Nat PROVE w[b] = [a \in Nat |-> IF b = 0 THEN a ELSE w[a % b][b]]
  <2>1. h[b][b] = [a \in Nat |-> IF b = 0 THEN a ELSE h[b][a % b][b]]
    <3>1. Good(b, h[b])
      <4> HIDE DEF Good
      <4> QED
        BY <1>4
    <3>2. b \in 0 .. b
      OBVIOUS
    <3> QED
      BY <3>1, <3>2
  <2>2. ASSUME b # 0, NEW a \in Nat PROVE h[b][a % b] = w[a % b]
    <3>1. a % b \in Nat /\ a % b <= b
      BY <2>2, DivMod
    <3>2. h[b][a % b] = h[a % b][a % b]
      BY <3>1, <1>5
    <3> QED
      BY <3>1, <3>2
  <2>3. w[b] = h[b][b]
    OBVIOUS
  <2> HIDE DEF w
  <2> QED
    BY <2>1, <2>2, <2>3
<1>7. w = [b \in Nat |-> [a \in Nat |-> IF b = 0 THEN a ELSE w[a % b][b]]]
  <2>1. w = [b \in Nat |-> w[b]]
    OBVIOUS
  <2> HIDE DEF w
  <2> QED
    BY <1>6, <2>1
<1>8. \E g : g = [b \in Nat |-> [a \in Nat |-> IF b = 0 THEN a ELSE g[a % b][b]]]
  <2> HIDE DEF w
  <2> QED
    BY <1>7
<1> QED
  BY <1>8 DEF gcd

\* gcd computes a common divisor that every other one divides.
LEMMA GcdIs ==
    ASSUME NEW a \in Nat, NEW b \in Nat
    PROVE  IsGcd(gcd[b][a], a, b)
<1> DEFINE S == {n \in Nat : \A m \in Nat : IsGcd(gcd[n][m], m, n)}
<1>1. ASSUME NEW n \in Nat, \A m \in Nat : m < n => m \in S PROVE n \in S
  <2>1. ASSUME NEW m \in Nat PROVE IsGcd(gcd[n][m], m, n)
    <3>1. gcd[n][m] = IF n = 0 THEN m ELSE gcd[m % n][n]
      BY GcdExists
    <3>2. CASE n = 0
      <4>1. m = m * 1 /\ n = m * 0 /\ m = 1 * m + 0 * n
        BY <3>2
      <4>2. IsGcd(m, m, n)
        BY <4>1 DEF IsGcd
      <4> QED
        BY <3>1, <3>2, <4>2
    <3>3. CASE n # 0
      <4>1. m % n \in Nat /\ m % n < n
        BY <3>3, DivMod
      <4>2. IsGcd(gcd[m % n][n], n, m % n)
        BY <4>1, <1>1
      <4>3. IsGcd(gcd[m % n][n], m, n)
        BY <4>2, <3>3, GcdStep
      <4> QED
        BY <3>1, <3>3, <4>3
    <3> QED
      BY <3>2, <3>3
  <2> QED
    BY <2>1
<1>2. Nat \subseteq S
  <2> HIDE DEF S
  <2> QED
    BY <1>1, StrongInduction
<1> QED
  BY <1>2

-----------------------------------------------------------------------------
(* Fractions.                                                              *)

Fraction == Number \ {NaN}

LEMMA Cancel ==
    ASSUME NEW g \in Int, NEW m \in Int, NEW k \in Int, g # 0, g * m = g * k
    PROVE  m = k
  OBVIOUS

LEMMA DivExact ==
    ASSUME NEW g \in Nat, NEW k \in Nat, g # 0
    PROVE  (g * k) \div g = k
  OBVIOUS

\* What is left of two numbers once their gcd is divided out of them.
Divided(a, b, g, m, e, u, v) ==
    /\ gcd[b][a] = g /\ g # 0 /\ e # 0
    /\ a = g * m /\ b = g * e /\ u * m + v * e = 1
    /\ a \div g = m /\ b \div g = e

LEMMA DivideOut ==
    ASSUME NEW a \in Nat, NEW b \in Nat, b # 0
    PROVE  \E g, m, e \in Nat, u, v \in Int : Divided(a, b, g, m, e, u, v)
<1>1. PICK g \in Nat, m \in Nat, e \in Nat, u \in Int, v \in Int :
         gcd[b][a] = g /\ a = g * m /\ b = g * e /\ g = u * a + v * b
  <2>1. IsGcd(gcd[b][a], a, b)
    BY GcdIs
  <2> QED
    BY <2>1 DEF IsGcd
<1>2. g # 0 /\ e # 0
  BY <1>1
<1>3. u * m + v * e = 1
  <2>1. u * a = g * (u * m) /\ v * b = g * (v * e)
    BY <1>1
  <2>2. u * m \in Int /\ v * e \in Int
    OBVIOUS
  <2>3. g * (u * m + v * e) = g * (u * m) + g * (v * e)
    BY <2>2
  <2>4. g * (u * m + v * e) = g * 1
    BY <1>1, <2>1, <2>3
  <2> QED
    BY <1>2, <2>2, <2>4, Cancel
<1>4. a \div g = m /\ b \div g = e
  BY <1>1, <1>2, DivExact
<1>5. Divided(a, b, g, m, e, u, v)
  BY <1>1, <1>2, <1>3, <1>4 DEF Divided
<1> QED
  BY <1>5

LEMMA DivideUnit ==
    ASSUME NEW g \in Nat, NEW k \in Int, g * k = 1
    PROVE  g = 1
  OBVIOUS

LEMMA GcdOne ==
    ASSUME NEW m \in Nat, NEW e \in Nat, NEW u \in Int, NEW v \in Int, u * m + v * e = 1
    PROVE  gcd[e][m] = 1
<1>1. PICK g \in Nat, k \in Nat, l \in Nat : gcd[e][m] = g /\ m = g * k /\ e = g * l
  <2>1. IsGcd(gcd[e][m], m, e)
    BY GcdIs
  <2> QED
    BY <2>1 DEF IsGcd
<1>2. g * (u * k + v * l) = 1
  <2>1. u * m = g * (u * k) /\ v * e = g * (v * l)
    BY <1>1
  <2>2. u * k \in Int /\ v * l \in Int
    OBVIOUS
  <2>3. g * (u * k + v * l) = g * (u * k) + g * (v * l)
    BY <2>2
  <2> QED
    BY <2>1, <2>3
<1>3. g = 1
  <2>1. u * k + v * l \in Int
    OBVIOUS
  <2> QED
    BY <1>2, <2>1, DivideUnit
<1> QED
  BY <1>1, <1>3

LEMMA FractionIs ==
    ASSUME NEW x \in Fraction
    PROVE  /\ x = <<x[1], x[2]>> /\ x[1] \in Nat /\ x[2] \in Nat /\ x[2] # 0
           /\ \E u, v \in Int : u * x[1] + v * x[2] = 1
<1>1. x \in Nat \X Nat /\ x[2] # 0 /\ gcd[x[2]][x[1]] = 1
  BY DEF Fraction, Number, NaN
<1>2. x = <<x[1], x[2]>> /\ x[1] \in Nat /\ x[2] \in Nat
  BY <1>1
<1>3. \E u, v \in Int : 1 = u * x[1] + v * x[2]
  <2>1. IsGcd(gcd[x[2]][x[1]], x[1], x[2])
    BY <1>2, GcdIs
  <2> QED
    BY <1>1, <2>1 DEF IsGcd
<1> QED
  BY <1>1, <1>2, <1>3

LEMMA FractionOf ==
    ASSUME NEW m \in Nat, NEW e \in Nat, NEW u \in Int, NEW v \in Int, u * m + v * e = 1, e # 0
    PROVE  <<m, e>> \in Fraction
  BY GcdOne DEF Fraction, Number, NaN

\* Reduced keeps the quotient and yields its lowest terms.
LEMMA ReducedIs ==
    ASSUME NEW n \in Nat, NEW d \in Nat, d # 0
    PROVE  /\ Reduced(n, d) \in Fraction
           /\ Reduced(n, d)[1] * d = n * Reduced(n, d)[2]
<1>0. PICK g, m, e \in Nat, u, v \in Int : Divided(n, d, g, m, e, u, v)
  BY DivideOut
<1>1. /\ gcd[d][n] = g /\ g # 0 /\ e # 0
      /\ n = g * m /\ d = g * e /\ u * m + v * e = 1
      /\ n \div g = m /\ d \div g = e
  BY <1>0 DEF Divided
<1>2. Reduced(n, d) = <<m, e>>
  BY <1>1 DEF Reduced
<1>3. <<m, e>> \in Fraction
  BY <1>1, FractionOf
<1>4. m * (g * e) = (g * m) * e
  OBVIOUS
<1> QED
  BY <1>1, <1>2, <1>3, <1>4

LEMMA Antisymmetric ==
    ASSUME NEW e \in Nat, NEW f \in Nat, e # 0, f # 0,
           NEW k \in Int, NEW l \in Int, f = e * k, e = f * l
    PROVE  e = f
  OBVIOUS

\* What divides a product and has nothing in common with one factor divides
\* the other.
LEMMA Divides ==
    ASSUME NEW m \in Nat, NEW e \in Nat, NEW n \in Nat, NEW d \in Nat, m * d = n * e,
           NEW u \in Int, NEW v \in Int, u * m + v * e = 1
    PROVE  d = e * (u * n + v * d) /\ u * n + v * d \in Int
<1>1. (u * m + v * e) * d = u * (m * d) + (v * e) * d
  OBVIOUS
<1>2. u * (n * e) = e * (u * n) /\ (v * e) * d = e * (v * d)
  OBVIOUS
<1>3. u * n \in Int /\ v * d \in Int
  OBVIOUS
<1>4. e * (u * n + v * d) = e * (u * n) + e * (v * d)
  BY <1>3
<1> QED
  BY <1>1, <1>2, <1>3, <1>4

\* A number has one form.
LEMMA OneForm ==
    ASSUME NEW x \in Fraction, NEW y \in Fraction, x[1] * y[2] = y[1] * x[2]
    PROVE  x = y
<1>1. PICK m \in Nat, e \in Nat, u \in Int, v \in Int : x = <<m, e>> /\ e # 0 /\ u * m + v * e = 1
  BY FractionIs
<1>2. PICK n \in Nat, d \in Nat, s \in Int, t \in Int : y = <<n, d>> /\ d # 0 /\ s * n + t * d = 1
  BY FractionIs
<1>3. m * d = n * e
  BY <1>1, <1>2
<1>4. d = e * (u * n + v * d) /\ u * n + v * d \in Int
  BY <1>1, <1>3, Divides
<1>5. e = d * (s * m + t * e) /\ s * m + t * e \in Int
  BY <1>2, <1>3, Divides
<1>6. e = d
  BY <1>1, <1>2, <1>4, <1>5, Antisymmetric
<1>7. d * m = d * n
  BY <1>3, <1>6
<1>8. m = n
  BY <1>2, <1>7, Cancel
<1> QED
  BY <1>1, <1>2, <1>6, <1>8

LEMMA CrossCancel ==
    ASSUME NEW a \in Nat, NEW b \in Nat, NEW n \in Nat, NEW d \in Nat,
           NEW p \in Nat, NEW q \in Nat, NEW m \in Nat, NEW e \in Nat,
           d # 0, e # 0, a * d = n * b, p * e = m * q, n * e = m * d
    PROVE  a * q = p * b
<1>1. (d * e) * (a * q) = (a * d) * (e * q)
  OBVIOUS
<1>2. (n * b) * (e * q) = (n * e) * (b * q)
  OBVIOUS
<1>3. (m * d) * (b * q) = (m * q) * (b * d)
  OBVIOUS
<1>4. (p * e) * (b * d) = (d * e) * (p * b)
  OBVIOUS
<1>5. (d * e) * (a * q) = (d * e) * (p * b)
  BY <1>1, <1>2, <1>3, <1>4
<1>6. d * e \in Int /\ d * e # 0 /\ a * q \in Int /\ p * b \in Int
  OBVIOUS
<1> QED
  BY <1>5, <1>6, Cancel

\* Equal quotients are reduced to the same fraction.
LEMMA ReducedSame ==
    ASSUME NEW n \in Nat, NEW d \in Nat, d # 0, NEW m \in Nat, NEW e \in Nat, e # 0, n * e = m * d
    PROVE  Reduced(n, d) = Reduced(m, e)
<1>1. PICK x \in Fraction : x = Reduced(n, d) /\ x[1] * d = n * x[2]
  BY ReducedIs
<1>2. PICK y \in Fraction : y = Reduced(m, e) /\ y[1] * e = m * y[2]
  BY ReducedIs
<1>3. PICK a \in Nat, b \in Nat : a = x[1] /\ b = x[2]
  BY FractionIs
<1>4. PICK p \in Nat, q \in Nat : p = y[1] /\ q = y[2]
  BY FractionIs
<1>5. a * d = n * b /\ p * e = m * q
  BY <1>1, <1>2, <1>3, <1>4
<1>6. a * q = p * b
  BY <1>5, CrossCancel
<1> QED
  BY <1>1, <1>2, <1>3, <1>4, <1>6, OneForm

LEMMA ReducedOf ==
    ASSUME NEW x \in Fraction
    PROVE  Reduced(x[1], x[2]) = x
<1>1. x[1] \in Nat /\ x[2] \in Nat /\ x[2] # 0
  BY FractionIs
<1>2. PICK y \in Fraction : y = Reduced(x[1], x[2]) /\ y[1] * x[2] = x[1] * y[2]
  BY <1>1, ReducedIs
<1> QED
  BY <1>2, OneForm

LEMMA NonZero ==
    ASSUME NEW b \in Nat, NEW d \in Nat, b # 0, d # 0
    PROVE  b * d \in Nat /\ b * d # 0
  OBVIOUS

\* Every quotient stands for a fraction, and a fraction for its quotients.
LEMMA Quotient ==
    ASSUME NEW x \in Fraction
    PROVE  \E a, b \in Nat : b # 0 /\ x = <<a, b>> /\ x = Reduced(a, b)
  BY FractionIs, ReducedOf

LEMMA PlusCross ==
    ASSUME NEW a \in Nat, NEW c \in Nat, NEW g \in Nat, NEW m \in Nat, NEW e \in Nat
    PROVE  (a * e + c * m) * ((g * m) * (g * e)) = (a * (g * e) + c * (g * m)) * (m * (g * e))
  OBVIOUS

\* ++ adds: that it takes the factors out first changes nothing.
LEMMA PlusIs ==
    ASSUME NEW a \in Nat, NEW b \in Nat, NEW c \in Nat, NEW d \in Nat, b # 0, d # 0
    PROVE  <<a, b>> ++ <<c, d>> = Reduced(a * d + c * b, b * d)
<1>0. PICK g, m, e \in Nat, u, v \in Int : Divided(b, d, g, m, e, u, v)
  BY DivideOut
<1>1. gcd[d][b] = g /\ g # 0 /\ e # 0 /\ b = g * m /\ d = g * e /\ b \div g = m /\ d \div g = e
  BY <1>0 DEF Divided
<1>2. m # 0
  BY <1>1
<1>3. <<a, b>> ++ <<c, d>> = Reduced(a * e + c * m, m * d)
  BY <1>1 DEF ++, NaN
<1>4. (a * e + c * m) * (b * d) = (a * d + c * b) * (m * d)
  BY <1>1, PlusCross
<1>5. b * d \in Nat /\ b * d # 0 /\ m * d \in Nat /\ m * d # 0
  BY <1>2, NonZero
<1>6. a * e + c * m \in Nat /\ a * d + c * b \in Nat
  OBVIOUS
<1>7. PICK p \in Nat, q \in Nat, r \in Nat, s \in Nat :
         p = a * e + c * m /\ q = m * d /\ r = a * d + c * b /\ s = b * d
  BY <1>5, <1>6
<1>8. q # 0 /\ s # 0 /\ p * s = r * q
  BY <1>4, <1>5, <1>7
<1>9. Reduced(p, q) = Reduced(r, s)
  BY <1>8, ReducedSame
<1> QED
  BY <1>3, <1>7, <1>9

LEMMA TimesCross ==
    ASSUME NEW a \in Nat, NEW b \in Nat, NEW c \in Nat, NEW d \in Nat,
           NEW m \in Nat, NEW e \in Nat, NEW n \in Nat, NEW f \in Nat,
           m * d = a * e, n * b = c * f
    PROVE  (m * n) * (b * d) = (a * c) * (e * f)
<1>1. (m * n) * (b * d) = (m * d) * (n * b)
  OBVIOUS
<1>2. (a * e) * (c * f) = (a * c) * (e * f)
  OBVIOUS
<1> QED
  BY <1>1, <1>2

\* ** multiplies: that it takes the factors out first changes nothing.
LEMMA TimesIs ==
    ASSUME NEW a \in Nat, NEW b \in Nat, NEW c \in Nat, NEW d \in Nat, b # 0, d # 0
    PROVE  <<a, b>> ** <<c, d>> = Reduced(a * c, b * d)
<1>1. PICK m \in Nat, e \in Nat : e # 0 /\ Reduced(a, d) = <<m, e>> /\ m * d = a * e
  BY ReducedIs, FractionIs
<1>2. PICK n \in Nat, f \in Nat : f # 0 /\ Reduced(c, b) = <<n, f>> /\ n * b = c * f
  BY ReducedIs, FractionIs
<1>3. <<a, b>> ** <<c, d>> = Reduced(m * n, e * f)
  BY <1>1, <1>2 DEF **
<1>4. (m * n) * (b * d) = (a * c) * (e * f)
  BY <1>1, <1>2, TimesCross
<1>5. b * d \in Nat /\ b * d # 0 /\ e * f \in Nat /\ e * f # 0
  BY <1>1, <1>2, NonZero
<1>6. m * n \in Nat /\ a * c \in Nat
  OBVIOUS
<1> QED
  BY <1>3, <1>4, <1>5, <1>6, ReducedSame

LEMMA ReducedPlusCross ==
    ASSUME NEW n \in Nat, NEW d \in Nat, NEW m \in Nat, NEW e \in Nat,
           NEW a \in Nat, NEW b \in Nat, NEW p \in Nat, NEW q \in Nat,
           a * d = n * b, p * e = m * q
    PROVE  (a * q + p * b) * (d * e) = (n * e + m * d) * (b * q)
<1>1. (a * q + p * b) * (d * e) = (a * d) * (q * e) + (p * e) * (b * d)
  OBVIOUS
<1>2. (n * b) * (q * e) + (m * q) * (b * d) = (n * e + m * d) * (b * q)
  OBVIOUS
<1> QED
  BY <1>1, <1>2

LEMMA ReducedPlus ==
    ASSUME NEW n \in Nat, NEW d \in Nat, NEW m \in Nat, NEW e \in Nat, d # 0, e # 0
    PROVE  Reduced(n, d) ++ Reduced(m, e) = Reduced(n * e + m * d, d * e)
<1>1. PICK a \in Nat, b \in Nat : b # 0 /\ Reduced(n, d) = <<a, b>> /\ a * d = n * b
  BY ReducedIs, FractionIs
<1>2. PICK p \in Nat, q \in Nat : q # 0 /\ Reduced(m, e) = <<p, q>> /\ p * e = m * q
  BY ReducedIs, FractionIs
<1>3. Reduced(n, d) ++ Reduced(m, e) = Reduced(a * q + p * b, b * q)
  BY <1>1, <1>2, PlusIs
<1>4. (a * q + p * b) * (d * e) = (n * e + m * d) * (b * q)
  BY <1>1, <1>2, ReducedPlusCross
<1>5. d * e \in Nat /\ d * e # 0 /\ b * q \in Nat /\ b * q # 0
  BY <1>1, <1>2, NonZero
<1>6. a * q + p * b \in Nat /\ n * e + m * d \in Nat
  OBVIOUS
<1> QED
  BY <1>3, <1>4, <1>5, <1>6, ReducedSame

LEMMA ReducedTimes ==
    ASSUME NEW n \in Nat, NEW d \in Nat, NEW m \in Nat, NEW e \in Nat, d # 0, e # 0
    PROVE  Reduced(n, d) ** Reduced(m, e) = Reduced(n * m, d * e)
<1>1. PICK a \in Nat, b \in Nat : b # 0 /\ Reduced(n, d) = <<a, b>> /\ a * d = n * b
  BY ReducedIs, FractionIs
<1>2. PICK p \in Nat, q \in Nat : q # 0 /\ Reduced(m, e) = <<p, q>> /\ p * e = m * q
  BY ReducedIs, FractionIs
<1>3. Reduced(n, d) ** Reduced(m, e) = Reduced(a * p, b * q)
  BY <1>1, <1>2, TimesIs
<1>4. (a * p) * (d * e) = (n * m) * (b * q)
  <2>1. (a * p) * (d * e) = (a * d) * (p * e)
    OBVIOUS
  <2>2. (n * b) * (m * q) = (n * m) * (b * q)
    OBVIOUS
  <2> QED
    BY <1>1, <1>2, <2>1, <2>2
<1>5. d * e \in Nat /\ d * e # 0 /\ b * q \in Nat /\ b * q # 0
  BY <1>1, <1>2, NonZero
<1>6. a * p \in Nat /\ n * m \in Nat
  OBVIOUS
<1> QED
  BY <1>3, <1>4, <1>5, <1>6, ReducedSame

\* Whatever is computed from NaN is NaN.
LEMMA NotANumber ==
    ASSUME NEW x \in Number
    PROVE  NaN ++ x = NaN /\ x ++ NaN = NaN /\ NaN ** x = NaN /\ x ** NaN = NaN
<1>1. NaN ++ x = NaN /\ x ++ NaN = NaN
  BY DEF ++
<1>2. x[1] \in Nat /\ x[2] \in Nat
  BY FractionIs DEF Fraction, NaN
<1>3. Reduced(x[1], 0) = <<0, 0>>
  BY DEF Reduced, NaN
<1>4. PICK m, e \in Nat : Reduced(0, x[2]) = <<m, e>>
  <2>1. CASE x[2] = 0
    BY <2>1 DEF Reduced, NaN
  <2>2. CASE x[2] # 0
    <3>1. Reduced(0, x[2]) \in Fraction
      BY <1>2, <2>2, ReducedIs
    <3> QED
      BY <3>1, FractionIs
  <2> QED
    BY <2>1, <2>2
<1>5. NaN ** x = Reduced(m * 0, e * 0) /\ x ** NaN = Reduced(0 * m, 0 * e)
  BY <1>3, <1>4 DEF **, NaN
<1>6. e * 0 = 0 /\ 0 * e = 0
  OBVIOUS
<1> QED
  BY <1>1, <1>5, <1>6 DEF Reduced

LEMMA FractionNumber ==
    /\ Fraction \subseteq Number /\ NaN \in Number /\ NaN \notin Fraction
    /\ Number = Fraction \cup {NaN}
    /\ Zero \in Fraction /\ One \in Fraction
<1>1. 0 * 0 + 1 * 1 = 1 /\ 0 * 1 + 1 * 1 = 1
  OBVIOUS
<1>2. <<0, 1>> \in Fraction /\ <<1, 1>> \in Fraction
  BY <1>1, FractionOf
<1> QED
  BY <1>2 DEF Fraction, Number, Zero, One

LEMMA ClosedFraction ==
    ASSUME NEW x \in Fraction, NEW y \in Fraction
    PROVE  x ++ y \in Fraction /\ x ** y \in Fraction
<1>1. PICK a \in Nat, b \in Nat : b # 0 /\ x = <<a, b>>
  BY Quotient
<1>2. PICK c \in Nat, d \in Nat : d # 0 /\ y = <<c, d>>
  BY Quotient
<1>3. b * d \in Nat /\ b * d # 0 /\ a * c \in Nat /\ a * d + c * b \in Nat
  BY <1>1, <1>2, NonZero
<1>4. x ++ y = Reduced(a * d + c * b, b * d) /\ x ** y = Reduced(a * c, b * d)
  BY <1>1, <1>2, PlusIs, TimesIs
<1> QED
  BY <1>3, <1>4, ReducedIs

\* Numbers are closed under both, and what follows are the laws of a semiring.
LEMMA Closed ==
    ASSUME NEW x \in Number, NEW y \in Number
    PROVE  x ++ y \in Number /\ x ** y \in Number
  BY ClosedFraction, NotANumber, FractionNumber

LEMMA PlusCommutes ==
    ASSUME NEW x \in Number, NEW y \in Number
    PROVE  x ++ y = y ++ x
<1>1. CASE x = NaN \/ y = NaN
  BY <1>1, NotANumber
<1>2. CASE x \in Fraction /\ y \in Fraction
  <2>1. PICK a \in Nat, b \in Nat : b # 0 /\ x = <<a, b>>
    BY <1>2, Quotient
  <2>2. PICK c \in Nat, d \in Nat : d # 0 /\ y = <<c, d>>
    BY <1>2, Quotient
  <2>3. x ++ y = Reduced(a * d + c * b, b * d) /\ y ++ x = Reduced(c * b + a * d, d * b)
    BY <2>1, <2>2, PlusIs
  <2>4. a * d + c * b = c * b + a * d /\ b * d = d * b
    OBVIOUS
  <2> QED
    BY <2>3, <2>4
<1> QED
  BY <1>1, <1>2, FractionNumber

LEMMA TimesCommutes ==
    ASSUME NEW x \in Number, NEW y \in Number
    PROVE  x ** y = y ** x
<1>1. CASE x = NaN \/ y = NaN
  BY <1>1, NotANumber
<1>2. CASE x \in Fraction /\ y \in Fraction
  <2>1. PICK a \in Nat, b \in Nat : b # 0 /\ x = <<a, b>>
    BY <1>2, Quotient
  <2>2. PICK c \in Nat, d \in Nat : d # 0 /\ y = <<c, d>>
    BY <1>2, Quotient
  <2>3. x ** y = Reduced(a * c, b * d) /\ y ** x = Reduced(c * a, d * b)
    BY <2>1, <2>2, TimesIs
  <2>4. a * c = c * a /\ b * d = d * b
    OBVIOUS
  <2> QED
    BY <2>3, <2>4
<1> QED
  BY <1>1, <1>2, FractionNumber

LEMMA PlusAssociates ==
    ASSUME NEW x \in Number, NEW y \in Number, NEW z \in Number
    PROVE  (x ++ y) ++ z = x ++ (y ++ z)
<1>1. CASE x = NaN \/ y = NaN \/ z = NaN
  BY <1>1, NotANumber, Closed
<1>2. CASE x \in Fraction /\ y \in Fraction /\ z \in Fraction
  <2>1. PICK a \in Nat, b \in Nat : b # 0 /\ x = Reduced(a, b)
    BY <1>2, Quotient
  <2>2. PICK c \in Nat, d \in Nat : d # 0 /\ y = Reduced(c, d)
    BY <1>2, Quotient
  <2>3. PICK e \in Nat, f \in Nat : f # 0 /\ z = Reduced(e, f)
    BY <1>2, Quotient
  <2>4. b * d \in Nat /\ b * d # 0 /\ d * f \in Nat /\ d * f # 0
    BY <2>1, <2>2, <2>3, NonZero
  <2>5. a * d + c * b \in Nat /\ c * f + e * d \in Nat
    OBVIOUS
  <2>6. x ++ y = Reduced(a * d + c * b, b * d) /\ y ++ z = Reduced(c * f + e * d, d * f)
    BY <2>1, <2>2, <2>3, ReducedPlus
  <2>7. (x ++ y) ++ z = Reduced((a * d + c * b) * f + e * (b * d), (b * d) * f)
    BY <2>3, <2>4, <2>5, <2>6, ReducedPlus
  <2>8. x ++ (y ++ z) = Reduced(a * (d * f) + (c * f + e * d) * b, b * (d * f))
    BY <2>1, <2>4, <2>5, <2>6, ReducedPlus
  <2>9. /\ (a * d + c * b) * f + e * (b * d) = a * (d * f) + (c * f + e * d) * b
        /\ (b * d) * f = b * (d * f)
    OBVIOUS
  <2> QED
    BY <2>7, <2>8, <2>9
<1> QED
  BY <1>1, <1>2, FractionNumber

LEMMA TimesAssociates ==
    ASSUME NEW x \in Number, NEW y \in Number, NEW z \in Number
    PROVE  (x ** y) ** z = x ** (y ** z)
<1>1. CASE x = NaN \/ y = NaN \/ z = NaN
  BY <1>1, NotANumber, Closed
<1>2. CASE x \in Fraction /\ y \in Fraction /\ z \in Fraction
  <2>1. PICK a \in Nat, b \in Nat : b # 0 /\ x = Reduced(a, b)
    BY <1>2, Quotient
  <2>2. PICK c \in Nat, d \in Nat : d # 0 /\ y = Reduced(c, d)
    BY <1>2, Quotient
  <2>3. PICK e \in Nat, f \in Nat : f # 0 /\ z = Reduced(e, f)
    BY <1>2, Quotient
  <2>4. b * d \in Nat /\ b * d # 0 /\ d * f \in Nat /\ d * f # 0
    BY <2>1, <2>2, <2>3, NonZero
  <2>5. a * c \in Nat /\ c * e \in Nat
    OBVIOUS
  <2>6. x ** y = Reduced(a * c, b * d) /\ y ** z = Reduced(c * e, d * f)
    BY <2>1, <2>2, <2>3, ReducedTimes
  <2>7. (x ** y) ** z = Reduced((a * c) * e, (b * d) * f)
    BY <2>3, <2>4, <2>5, <2>6, ReducedTimes
  <2>8. x ** (y ** z) = Reduced(a * (c * e), b * (d * f))
    BY <2>1, <2>4, <2>5, <2>6, ReducedTimes
  <2>9. (a * c) * e = a * (c * e) /\ (b * d) * f = b * (d * f)
    OBVIOUS
  <2> QED
    BY <2>7, <2>8, <2>9
<1> QED
  BY <1>1, <1>2, FractionNumber

LEMMA Distributes ==
    ASSUME NEW x \in Number, NEW y \in Number, NEW z \in Number
    PROVE  (x ++ y) ** z = (x ** z) ++ (y ** z)
<1>1. CASE x = NaN \/ y = NaN \/ z = NaN
  BY <1>1, NotANumber, Closed
<1>2. CASE x \in Fraction /\ y \in Fraction /\ z \in Fraction
  <2>1. PICK a \in Nat, b \in Nat : b # 0 /\ x = Reduced(a, b)
    BY <1>2, Quotient
  <2>2. PICK c \in Nat, d \in Nat : d # 0 /\ y = Reduced(c, d)
    BY <1>2, Quotient
  <2>3. PICK e \in Nat, f \in Nat : f # 0 /\ z = Reduced(e, f)
    BY <1>2, Quotient
  <2>4. b * d \in Nat /\ b * d # 0 /\ b * f \in Nat /\ b * f # 0 /\ d * f \in Nat /\ d * f # 0
    BY <2>1, <2>2, <2>3, NonZero
  <2>5. a * d + c * b \in Nat /\ a * e \in Nat /\ c * e \in Nat
    OBVIOUS
  <2>6. /\ x ++ y = Reduced(a * d + c * b, b * d)
        /\ x ** z = Reduced(a * e, b * f) /\ y ** z = Reduced(c * e, d * f)
    BY <2>1, <2>2, <2>3, ReducedPlus, ReducedTimes
  <2>7. (x ++ y) ** z = Reduced((a * d + c * b) * e, (b * d) * f)
    BY <2>3, <2>4, <2>5, <2>6, ReducedTimes
  <2>8. (x ** z) ++ (y ** z) = Reduced((a * e) * (d * f) + (c * e) * (b * f), (b * f) * (d * f))
    BY <2>4, <2>5, <2>6, ReducedPlus
  <2>9. ((a * d + c * b) * e) * ((b * f) * (d * f)) = ((a * e) * (d * f) + (c * e) * (b * f)) * ((b * d) * f)
    OBVIOUS
  <2>10. /\ (b * d) * f \in Nat /\ (b * d) * f # 0 /\ (b * f) * (d * f) \in Nat /\ (b * f) * (d * f) # 0
         /\ (a * d + c * b) * e \in Nat /\ (a * e) * (d * f) + (c * e) * (b * f) \in Nat
    BY <2>3, <2>4, <2>5, NonZero
  <2> QED
    BY <2>7, <2>8, <2>9, <2>10, ReducedSame
<1> QED
  BY <1>1, <1>2, FractionNumber

LEMMA Units ==
    ASSUME NEW x \in Number
    PROVE  Zero ++ x = x /\ x ++ Zero = x /\ One ** x = x /\ x ** One = x
<1>1. CASE x = NaN
  BY <1>1, NotANumber, FractionNumber
<1>2. CASE x \in Fraction
  <2>1. PICK a \in Nat, b \in Nat : b # 0 /\ x = <<a, b>> /\ x = Reduced(a, b)
    BY <1>2, Quotient
  <2>2. Zero ++ x = Reduced(0 * b + a * 1, 1 * b) /\ One ** x = Reduced(1 * a, 1 * b)
    BY <2>1, PlusIs, TimesIs DEF Zero, One
  <2>3. 0 * b + a * 1 = a /\ 1 * b = b /\ 1 * a = a
    OBVIOUS
  <2>4. Zero ++ x = x /\ One ** x = x
    BY <2>1, <2>2, <2>3
  <2> QED
    BY <2>4, PlusCommutes, TimesCommutes, FractionNumber
<1> QED
  BY <1>1, <1>2, FractionNumber

LEMMA DivisionIs ==
    ASSUME NEW x \in Number, NEW y \in Number
    PROVE  x // y \in Number
<1>1. CASE x \in Fraction /\ y \in Fraction /\ y[1] # 0
  <2>1. PICK u \in Int, v \in Int : u * y[1] + v * y[2] = 1 /\ y[1] \in Nat /\ y[2] \in Nat /\ y[2] # 0
    BY <1>1, FractionIs
  <2>2. v * y[2] + u * y[1] = 1
    BY <2>1
  <2>3. <<y[2], y[1]>> \in Fraction
    BY <1>1, <2>1, <2>2, FractionOf
  <2>4. x // y = x ** <<y[2], y[1]>>
    BY <1>1, FractionNumber DEF //
  <2> QED
    BY <1>1, <2>3, <2>4, ClosedFraction, FractionNumber
<1>2. CASE x = NaN \/ y = NaN \/ y[1] = 0
  BY <1>2, FractionNumber DEF //
<1> QED
  BY <1>1, <1>2, FractionNumber

-----------------------------------------------------------------------------
(* Finite sums.                                                            *)

\* Induction over the subsets of a finite set, from one element less.
LEMMA RemovalInduction ==
    ASSUME NEW D, IsFiniteSet(D), NEW P, {} \in P,
           \A s \in SUBSET D : s # {} /\ (\A x \in s : s \ {x} \in P) => s \in P
    PROVE  SUBSET D \subseteq P
<1> DEFINE S == {n \in Nat : \A s \in SUBSET D : Cardinality(s) = n => s \in P}
<1>1. \A s \in SUBSET D : IsFiniteSet(s) /\ Cardinality(s) \in Nat
  BY FS_Subset, FS_CardinalityType
<1>2. 0 \in S
  BY <1>1, FS_EmptySet
<1>3. ASSUME NEW n \in Nat, n \in S PROVE n + 1 \in S
  <2>1. ASSUME NEW s \in SUBSET D, Cardinality(s) = n + 1 PROVE s \in P
    <3>1. s # {}
      <4>1. Cardinality({}) = 0 /\ n + 1 # 0
        BY FS_EmptySet
      <4> QED
        BY <2>1, <4>1
    <3>2. ASSUME NEW x \in s PROVE s \ {x} \in P
      <4>1. Cardinality(s \ {x}) = Cardinality(s) - 1
        BY <1>1, FS_RemoveElement
      <4>2. Cardinality(s \ {x}) = n /\ s \ {x} \in SUBSET D
        BY <2>1, <4>1
      <4> QED
        BY <4>2, <1>3
    <3> QED
      BY <3>1, <3>2
  <2> QED
    BY <2>1
<1>4. Nat \subseteq S
  <2> HIDE DEF S
  <2> QED
    BY <1>2, <1>3, SetInduction
<1> QED
  BY <1>1, <1>4

LEMMA AdditionInduction ==
    ASSUME NEW D, IsFiniteSet(D), NEW P, {} \in P,
           \A s \in SUBSET D, x \in D : s \in P /\ x \notin s => s \cup {x} \in P
    PROVE  D \in P
<1>1. ASSUME NEW s \in SUBSET D, s # {}, \A x \in s : s \ {x} \in P PROVE s \in P
  <2>1. PICK x \in s : TRUE
    BY <1>1
  <2>2. s \ {x} \in P /\ s \ {x} \in SUBSET D /\ x \in D /\ x \notin s \ {x} /\ (s \ {x}) \cup {x} = s
    BY <1>1
  <2> QED
    BY <2>2
<1>2. SUBSET D \subseteq P
  BY <1>1, RemovalInduction
<1> QED
  BY <1>2

\* The element a fold takes next.
Some(s) == CHOOSE x \in s : TRUE

FoldStep(f, g, s) == IF s = {} THEN Zero ELSE f[Some(s)] ++ g[s \ {Some(s)}]

Folded(f, D) == CHOOSE g : g = [s \in SUBSET D |-> FoldStep(f, g, s)]

LEMMA TotalIs ==
    ASSUME NEW f
    PROVE  Total(f) = Folded(f, DOMAIN f)[DOMAIN f]
  BY DEF Total, FoldFunction, FoldFunctionOnSet, MapThenFoldSet, Folded, FoldStep, Some

LEMMA SomeIs ==
    ASSUME NEW s, s # {}
    PROVE  Some(s) \in s
  BY DEF Some

\* The recursion inside the fold of the community modules has a solution.
LEMMA FoldedExists ==
    ASSUME NEW D, IsFiniteSet(D), NEW f
    PROVE  Folded(f, D) = [s \in SUBSET D |-> FoldStep(f, Folded(f, D), s)]
<1> DEFINE Sub(n) == {s \in SUBSET D : Cardinality(s) <= n}
           Good(n, g) == g = [s \in Sub(n) |-> FoldStep(f, g, s)]
           S == {n \in Nat : \E g : Good(n, g)}
<1>1. \A s \in SUBSET D : IsFiniteSet(s) /\ Cardinality(s) \in Nat
  BY FS_Subset, FS_CardinalityType
<1>2. ASSUME NEW s \in SUBSET D, s # {}
      PROVE  s \ {Some(s)} \in SUBSET D /\ Cardinality(s \ {Some(s)}) = Cardinality(s) - 1
  <2>1. Some(s) \in s
    BY <1>2, SomeIs
  <2> QED
    BY <2>1, <1>1, FS_RemoveElement
<1>3. 0 \in S
  <2> DEFINE g == [s \in Sub(0) |-> Zero]
  <2>1. ASSUME NEW s \in Sub(0) PROVE s = {}
    <3>1. s \in SUBSET D /\ Cardinality(s) <= 0
      OBVIOUS
    <3>2. IsFiniteSet(s) /\ Cardinality(s) = 0
      BY <3>1, <1>1
    <3> QED
      BY <3>2, FS_EmptySet
  <2>2. ASSUME NEW s \in Sub(0) PROVE FoldStep(f, g, s) = Zero
    BY <2>1 DEF FoldStep
  <2> HIDE DEF Sub
  <2>3. Good(0, g)
    BY <2>2
  <2> QED
    BY <2>3
<1>4. ASSUME NEW n \in Nat, n \in S PROVE n + 1 \in S
  <2>1. PICK h : Good(n, h)
    BY <1>4
  <2> DEFINE g == [s \in Sub(n + 1) |-> FoldStep(f, h, s)]
  <2>2. ASSUME NEW s \in Sub(n + 1) PROVE FoldStep(f, h, s) = FoldStep(f, g, s)
    <3>1. CASE s = {}
      BY <3>1 DEF FoldStep
    <3>2. CASE s # {}
      <4> DEFINE r == s \ {Some(s)}
      <4>1. r \in SUBSET D /\ Cardinality(r) = Cardinality(s) - 1 /\ Cardinality(s) \in Nat /\ Cardinality(s) <= n + 1
        BY <1>1, <1>2, <3>2
      <4>2. r \in Sub(n) /\ r \in Sub(n + 1)
        BY <4>1
      <4>3. h[r] = FoldStep(f, h, r)
        <5> HIDE DEF Sub, r
        <5> QED
          BY <2>1, <4>2
      <4>4. g[r] = FoldStep(f, h, r)
        <5> HIDE DEF Sub, r
        <5> QED
          BY <4>2
      <4> HIDE DEF g
      <4> QED
        BY <3>2, <4>3, <4>4 DEF FoldStep
    <3> QED
      BY <3>1, <3>2
  <2> HIDE DEF Sub
  <2>3. Good(n + 1, g)
    BY <2>2
  <2> HIDE DEF Good, g
  <2> QED
    BY <2>3
<1>5. Nat \subseteq S
  <2> HIDE DEF S
  <2> QED
    BY <1>3, <1>4, SetInduction
<1>6. Cardinality(D) \in Nat /\ Sub(Cardinality(D)) = SUBSET D
  BY FS_Subset, FS_CardinalityType
<1>7. PICK g : Good(Cardinality(D), g)
  BY <1>5, <1>6
<1>8. g = [s \in SUBSET D |-> FoldStep(f, g, s)]
  <2> HIDE DEF Sub
  <2> QED
    BY <1>6, <1>7
<1> QED
  BY <1>8 DEF Folded

\* What a fold over s gives depends on the values in s only.
LEMMA FoldedAgree ==
    ASSUME NEW D, IsFiniteSet(D), NEW f, NEW E, IsFiniteSet(E), NEW g, E \subseteq D,
           \A x \in E : f[x] = g[x]
    PROVE  Folded(f, D)[E] = Folded(g, E)[E]
<1> DEFINE P == {s \in SUBSET E : Folded(f, D)[s] = Folded(g, E)[s]}
<1>1. ASSUME NEW s \in SUBSET E
      PROVE  /\ Folded(f, D)[s] = FoldStep(f, Folded(f, D), s)
             /\ Folded(g, E)[s] = FoldStep(g, Folded(g, E), s)
  <2>1. s \in SUBSET D
    OBVIOUS
  <2>2. Folded(f, D) = [r \in SUBSET D |-> FoldStep(f, Folded(f, D), r)]
    BY FoldedExists
  <2>3. Folded(g, E) = [r \in SUBSET E |-> FoldStep(g, Folded(g, E), r)]
    BY FoldedExists
  <2>4. Folded(f, D)[s] = FoldStep(f, Folded(f, D), s)
    BY <2>1, <2>2
  <2>5. Folded(g, E)[s] = FoldStep(g, Folded(g, E), s)
    BY <2>3
  <2> QED
    BY <2>4, <2>5
<1>2. {} \in P
  BY <1>1 DEF FoldStep
<1>3. ASSUME NEW s \in SUBSET E, s # {}, \A x \in s : s \ {x} \in P PROVE s \in P
  <2>1. Some(s) \in s
    BY <1>3, SomeIs
  <2>2. f[Some(s)] = g[Some(s)]
    BY <2>1
  <2>3. Folded(f, D)[s \ {Some(s)}] = Folded(g, E)[s \ {Some(s)}]
    BY <1>3, <2>1
  <2> QED
    BY <1>1, <1>3, <2>2, <2>3 DEF FoldStep
<1>4. SUBSET E \subseteq P
  <2> HIDE DEF P
  <2> QED
    BY <1>2, <1>3, RemovalInduction
<1> QED
  BY <1>4

-----------------------------------------------------------------------------
\* The sum of f over S.
Over(f, S) == Total([x \in S |-> f[x]])

Numbers(f, S) == \A x \in S : f[x] \in Number

\* Total, in its own order.
LEMMA OverStep ==
    ASSUME NEW S, IsFiniteSet(S), NEW f
    PROVE  Over(f, S) = IF S = {} THEN Zero ELSE f[Some(S)] ++ Over(f, S \ {Some(S)})
<1> DEFINE g == [x \in S |-> f[x]]
           R == S \ {Some(S)}
           h == [x \in R |-> f[x]]
<1>1. Over(f, S) = Folded(g, S)[S] /\ Over(f, R) = Folded(h, R)[R]
  BY TotalIs DEF Over
<1>2. Folded(g, S)[S] = FoldStep(g, Folded(g, S), S)
  <2> HIDE DEF g
  <2>1. Folded(g, S) = [s \in SUBSET S |-> FoldStep(g, Folded(g, S), s)]
    BY FoldedExists
  <2> QED
    BY <2>1
<1>3. IsFiniteSet(R) /\ R \subseteq S
  BY FS_RemoveElement
<1>4. \A x \in R : g[x] = h[x]
  OBVIOUS
<1>5. Folded(g, S)[R] = Folded(h, R)[R]
  <2> HIDE DEF g, h, R
  <2> QED
    BY <1>3, <1>4, FoldedAgree
<1>6. S # {} => g[Some(S)] = f[Some(S)]
  BY SomeIs
<1> QED
  <2> HIDE DEF g, h
  <2> QED
    BY <1>1, <1>2, <1>5, <1>6 DEF FoldStep

LEMMA OverEmpty ==
    ASSUME NEW f
    PROVE  Over(f, {}) = Zero
  BY OverStep, FS_EmptySet

LEMMA OverAgree ==
    ASSUME NEW S, NEW f, NEW g, \A x \in S : f[x] = g[x]
    PROVE  Over(f, S) = Over(g, S)
<1>1. [x \in S |-> f[x]] = [x \in S |-> g[x]]
  OBVIOUS
<1> QED
  BY <1>1 DEF Over

LEMMA OverType ==
    ASSUME NEW S, IsFiniteSet(S), NEW f, Numbers(f, S)
    PROVE  Over(f, S) \in Number
<1> DEFINE P == {s \in SUBSET S : Over(f, s) \in Number}
<1>1. {} \in P
  BY OverEmpty, FractionNumber
<1>2. ASSUME NEW s \in SUBSET S, s # {}, \A x \in s : s \ {x} \in P PROVE s \in P
  <2>1. Some(s) \in s /\ IsFiniteSet(s)
    BY <1>2, SomeIs, FS_Subset
  <2>2. f[Some(s)] \in Number
    BY <2>1 DEF Numbers
  <2>3. Over(f, s \ {Some(s)}) \in Number
    BY <1>2, <2>1
  <2>4. Over(f, s) = f[Some(s)] ++ Over(f, s \ {Some(s)})
    BY <1>2, <2>1, OverStep
  <2>5. Over(f, s) \in Number
    BY <2>2, <2>3, <2>4, Closed
  <2> QED
    BY <2>5
<1>3. SUBSET S \subseteq P
  <2> HIDE DEF P
  <2> QED
    BY <1>1, <1>2, RemovalInduction
<1> QED
  BY <1>3

\* The order in which a sum is taken does not matter.
LEMMA OverRemove ==
    ASSUME NEW S, IsFiniteSet(S), NEW f, Numbers(f, S), NEW z \in S
    PROVE  Over(f, S) = f[z] ++ Over(f, S \ {z})
<1> DEFINE P == {s \in SUBSET S : \A y \in s : Over(f, s) = f[y] ++ Over(f, s \ {y})}
<1>1. {} \in P
  OBVIOUS
<1>2. ASSUME NEW s \in SUBSET S, s # {}, \A x \in s : s \ {x} \in P PROVE s \in P
  <2> SUFFICES ASSUME NEW y \in s PROVE Over(f, s) = f[y] ++ Over(f, s \ {y})
    OBVIOUS
  <2> DEFINE c == Some(s)
  <2>1. c \in s /\ IsFiniteSet(s)
    BY <1>2, SomeIs, FS_Subset
  <2>2. Over(f, s) = f[c] ++ Over(f, s \ {c})
    BY <1>2, <2>1, OverStep
  <2> HIDE DEF c
  <2>3. CASE c = y
    BY <2>2, <2>3
  <2>4. CASE c # y
    <3> DEFINE r == (s \ {c}) \ {y}
    <3>1. y \in s \ {c} /\ c \in s \ {y} /\ (s \ {y}) \ {c} = r
      BY <2>1, <2>4
    <3>2. Over(f, s \ {c}) = f[y] ++ Over(f, r)
      BY <1>2, <2>1, <3>1
    <3>3. Over(f, s \ {y}) = f[c] ++ Over(f, r)
      BY <1>2, <3>1
    <3>4. f[c] \in Number /\ f[y] \in Number
      BY <2>1 DEF Numbers
    <3>5. Over(f, r) \in Number
      <4>1. IsFiniteSet(r) /\ Numbers(f, r)
        BY <2>1, FS_RemoveElement DEF Numbers
      <4> QED
        BY <4>1, OverType
    <3> HIDE DEF r
    <3>6. f[c] ++ (f[y] ++ Over(f, r)) = (f[c] ++ f[y]) ++ Over(f, r)
      BY <3>4, <3>5, PlusAssociates
    <3>7. (f[y] ++ f[c]) ++ Over(f, r) = f[y] ++ (f[c] ++ Over(f, r))
      BY <3>4, <3>5, PlusAssociates
    <3>8. f[c] ++ f[y] = f[y] ++ f[c]
      BY <3>4, PlusCommutes
    <3> QED
      BY <2>2, <3>2, <3>3, <3>6, <3>7, <3>8
  <2> QED
    BY <2>3, <2>4
<1>3. SUBSET S \subseteq P
  <2> HIDE DEF P
  <2> QED
    BY <1>1, <1>2, RemovalInduction
<1> QED
  BY <1>3

LEMMA OverAdd ==
    ASSUME NEW S, IsFiniteSet(S), NEW x, x \notin S, NEW f, Numbers(f, S), f[x] \in Number
    PROVE  Over(f, S \cup {x}) = f[x] ++ Over(f, S)
<1>1. IsFiniteSet(S \cup {x}) /\ x \in S \cup {x} /\ (S \cup {x}) \ {x} = S
  BY FS_AddElement
<1>2. Numbers(f, S \cup {x})
  BY DEF Numbers
<1> QED
  BY <1>1, <1>2, OverRemove

LEMMA OverSingle ==
    ASSUME NEW x, NEW f, f[x] \in Number
    PROVE  Over(f, {x}) = f[x]
<1>1. Over(f, {} \cup {x}) = f[x] ++ Over(f, {})
  BY FS_EmptySet, OverAdd DEF Numbers
<1>2. {} \cup {x} = {x}
  OBVIOUS
<1> QED
  BY <1>1, <1>2, OverEmpty, Units

\* Only the empty sum is not multiplied: zero times NaN is NaN.
LEMMA OverTimes ==
    ASSUME NEW S, IsFiniteSet(S), S # {}, NEW f, Numbers(f, S), NEW g, NEW c \in Number,
           \A x \in S : g[x] = f[x] ** c
    PROVE  Over(g, S) = Over(f, S) ** c
<1> DEFINE P == {s \in SUBSET S : s # {} => Over(g, s) = Over(f, s) ** c}
<1>0. Numbers(g, S)
  BY Closed DEF Numbers
<1>1. {} \in P
  OBVIOUS
<1>2. ASSUME NEW s \in SUBSET S, NEW x \in S, s \in P, x \notin s PROVE s \cup {x} \in P
  <2>1. IsFiniteSet(s) /\ Numbers(f, s) /\ Numbers(g, s) /\ f[x] \in Number /\ g[x] \in Number /\ g[x] = f[x] ** c
    BY <1>0, FS_Subset DEF Numbers
  <2>2. Over(f, s \cup {x}) = f[x] ++ Over(f, s) /\ Over(g, s \cup {x}) = g[x] ++ Over(g, s)
    BY <1>2, <2>1, OverAdd
  <2>3. Over(f, s) \in Number
    BY <2>1, OverType
  <2>4. CASE s = {}
    <3>1. Over(f, s) = Zero /\ Over(g, s) = Zero
      BY <2>4, OverEmpty
    <3>2. Over(f, s \cup {x}) = f[x] /\ Over(g, s \cup {x}) = g[x]
      BY <2>1, <2>2, <3>1, Units
    <3> QED
      BY <2>1, <3>2
  <2>5. CASE s # {}
    <3>1. Over(g, s) = Over(f, s) ** c
      BY <1>2, <2>5
    <3>2. (f[x] ++ Over(f, s)) ** c = (f[x] ** c) ++ (Over(f, s) ** c)
      BY <2>1, <2>3, Distributes
    <3> QED
      BY <2>1, <2>2, <3>1, <3>2
  <2> QED
    BY <2>4, <2>5
<1>3. S \in P
  <2> HIDE DEF P
  <2> QED
    BY <1>1, <1>2, AdditionInduction
<1> QED
  BY <1>3

LEMMA OverChange ==
    ASSUME NEW K, IsFiniteSet(K), NEW f, NEW g, Numbers(f, K), NEW k \in K, NEW c \in Number,
           g[k] = c ++ f[k], \A l \in K : l # k => g[l] = f[l]
    PROVE  Over(g, K) = c ++ Over(f, K)
<1> DEFINE R == K \ {k}
<1>1. f[k] \in Number /\ g[k] \in Number
  BY Closed DEF Numbers
<1>2. Numbers(g, K) /\ Numbers(f, R) /\ IsFiniteSet(R)
  BY <1>1, FS_RemoveElement DEF Numbers
<1>3. Over(f, K) = f[k] ++ Over(f, R) /\ Over(g, K) = g[k] ++ Over(g, R)
  BY <1>2, OverRemove
<1>4. Over(g, R) = Over(f, R)
  BY OverAgree
<1>5. Over(f, R) \in Number
  BY <1>2, OverType
<1> HIDE DEF R
<1>6. (c ++ f[k]) ++ Over(f, R) = c ++ (f[k] ++ Over(f, R))
  BY <1>1, <1>5, PlusAssociates
<1> QED
  BY <1>3, <1>4, <1>6

\* A sum taken part by part, where h says to which part an element belongs.
LEMMA OverParts ==
    ASSUME NEW S, IsFiniteSet(S), NEW f, Numbers(f, S), NEW K, IsFiniteSet(K), NEW h \in [S -> K]
    PROVE  Over(f, S) = Over([k \in K |-> Over(f, {x \in S : h[x] = k})], K)
<1> DEFINE Part(s, k) == {x \in s : h[x] = k}
           Sums(s) == [k \in K |-> Over(f, Part(s, k))]
           P == {s \in SUBSET S : Over(f, s) = Over(Sums(s), K)}
<1>0. ASSUME NEW s \in SUBSET S PROVE IsFiniteSet(s) /\ Numbers(f, s)
  BY FS_Subset DEF Numbers
<1>1. ASSUME NEW s \in SUBSET S PROVE Numbers(Sums(s), K)
  <2>1. ASSUME NEW k \in K PROVE Over(f, Part(s, k)) \in Number
    <3>1. Part(s, k) \in SUBSET S
      OBVIOUS
    <3> HIDE DEF Part
    <3> QED
      BY <3>1, <1>0, OverType
  <2> HIDE DEF Part
  <2> QED
    BY <2>1 DEF Numbers
<1>2. {} \in P
  <2>1. \A k \in K : Sums({})[k] = Zero
    <3>1. \A k \in K : Part({}, k) = {}
      OBVIOUS
    <3> HIDE DEF Part
    <3> QED
      BY <3>1, OverEmpty
  <2> DEFINE Z == {s \in SUBSET K : Over(Sums({}), s) = Zero}
  <2>2. {} \in Z
    BY OverEmpty
  <2>3. ASSUME NEW s \in SUBSET K, NEW x \in K, s \in Z, x \notin s PROVE s \cup {x} \in Z
    <3>1. IsFiniteSet(s) /\ Numbers(Sums({}), s) /\ Sums({})[x] \in Number
      BY <1>1, FS_Subset DEF Numbers
    <3> HIDE DEF Sums
    <3>2. Over(Sums({}), s \cup {x}) = Sums({})[x] ++ Over(Sums({}), s)
      BY <2>3, <3>1, OverAdd
    <3>3. Over(Sums({}), s \cup {x}) = Zero
      BY <2>1, <2>3, <3>2, Units, FractionNumber
    <3> QED
      BY <3>3
  <2>4. K \in Z
    <3> HIDE DEF Z
    <3> QED
      BY <2>2, <2>3, AdditionInduction
  <2> HIDE DEF Sums
  <2> QED
    BY <2>4, OverEmpty
<1>3. ASSUME NEW s \in SUBSET S, NEW x \in S, s \in P, x \notin s PROVE s \cup {x} \in P
  <2> DEFINE t == s \cup {x}
  <2>1. t \in SUBSET S /\ f[x] \in Number /\ h[x] \in K
    BY DEF Numbers
  <2>2. Over(f, t) = f[x] ++ Over(f, s)
    BY <1>0, <1>3, <2>1, OverAdd
  <2>3. Sums(t)[h[x]] = f[x] ++ Sums(s)[h[x]]
    <3>1. Part(t, h[x]) = Part(s, h[x]) \cup {x} /\ x \notin Part(s, h[x]) /\ Part(s, h[x]) \in SUBSET S
      BY <1>3
    <3>2. Over(f, Part(s, h[x]) \cup {x}) = f[x] ++ Over(f, Part(s, h[x]))
      <4> HIDE DEF Part
      <4> QED
        BY <3>1, <1>0, <2>1, OverAdd
    <3> HIDE DEF Part, t
    <3> QED
      BY <2>1, <3>1, <3>2
  <2>4. ASSUME NEW l \in K, l # h[x] PROVE Sums(t)[l] = Sums(s)[l]
    <3>1. Part(t, l) = Part(s, l)
      BY <2>4
    <3> HIDE DEF Part, t
    <3> QED
      BY <3>1
  <2>5. Over(Sums(t), K) = f[x] ++ Over(Sums(s), K)
    <3>1. Numbers(Sums(s), K)
      BY <1>1
    <3> HIDE DEF Sums, t
    <3> QED
      BY <2>1, <2>3, <2>4, <3>1, OverChange
  <2> HIDE DEF Sums, t
  <2> QED
    BY <1>3, <2>1, <2>2, <2>5 DEF t
<1>4. S \in P
  <2> HIDE DEF P
  <2> QED
    BY <1>2, <1>3, AdditionInduction
<1> QED
  BY <1>4

\* A sum over another set of as many elements.
LEMMA OverReindex ==
    ASSUME NEW S, IsFiniteSet(S), NEW f, Numbers(f, S), NEW K, IsFiniteSet(K), NEW h \in [S -> K],
           NEW g \in [K -> S], \A k \in K : h[g[k]] = k, \A x \in S : g[h[x]] = x
    PROVE  Over(f, S) = Over([k \in K |-> f[g[k]]], K)
<1> DEFINE u == [k \in K |-> Over(f, {x \in S : h[x] = k})]
           v == [k \in K |-> f[g[k]]]
<1>1. ASSUME NEW k \in K PROVE u[k] = v[k]
  <2>1. {x \in S : h[x] = k} = {g[k]}
    OBVIOUS
  <2>2. Over(f, {g[k]}) = f[g[k]]
    BY OverSingle DEF Numbers
  <2> QED
    BY <2>1, <2>2
<1>2. Over(f, S) = Over(u, K)
  BY OverParts
<1> HIDE DEF u, v
<1>3. Over(u, K) = Over(v, K)
  BY <1>1, OverAgree
<1> QED
  BY <1>2, <1>3 DEF v

LEMMA TotalOver ==
    ASSUME NEW S, NEW f, f = [x \in S |-> f[x]]
    PROVE  Total(f) = Over(f, S)
  BY DEF Over

-----------------------------------------------------------------------------
(* Paths and their weights.                                                *)

ModelOK ==
    /\ pi \in [State -> Number]
    /\ A \in [State -> [State -> Number]]
    /\ B \in [State -> [Symbol -> Number]]
    /\ observations \in [Time -> Symbol]

LEMMA Sizes ==
    /\ N \in Nat /\ N # 0 /\ T \in Nat /\ T # 0 /\ 0 \in State /\ 0 \in Time /\ T - 1 \in Time
    /\ State \subseteq Nat /\ Time \subseteq Nat
    /\ IsFiniteSet(State) /\ IsFiniteSet(Time)
    /\ State = 0 .. N - 1 /\ Time = 0 .. T - 1
<1>1. N \in Nat \ {0} /\ T \in Nat \ {0}
  BY HmmAssumption
<1>2. IsFiniteSet(0 .. N - 1) /\ IsFiniteSet(0 .. T - 1)
  BY <1>1, FS_Interval
<1> QED
  BY <1>1, <1>2 DEF State, Time

LEMMA ModelNumbers ==
    ASSUME ModelOK, NEW s \in State, NEW r \in State, NEW t \in Time
    PROVE  pi[s] \in Number /\ A[s][r] \in Number /\ B[s][observations[t]] \in Number
  BY DEF ModelOK

\* The first n + 1 states of a path, and a path with one state more.
Cut(q, n) == [t \in 0 .. n |-> q[t]]
Extend(p, n, s) == [t \in 0 .. n + 1 |-> IF t = n + 1 THEN s ELSE p[t]]

\* Every path of n + 1 moves is one of n moves and a state.
LEMMA CutExtend ==
    ASSUME NEW n \in Nat
    PROVE  /\ \A q \in Paths(n + 1) : /\ Cut(q, n) \in Paths(n) /\ q[n + 1] \in State /\ q[n] \in State
                                      /\ Cut(q, n)[n] = q[n]
                                      /\ Extend(Cut(q, n), n, q[n + 1]) = q
           /\ \A p \in Paths(n), s \in State :
                  /\ Extend(p, n, s) \in Paths(n + 1) /\ Cut(Extend(p, n, s), n) = p
                  /\ Extend(p, n, s)[n + 1] = s /\ Extend(p, n, s)[n] = p[n] /\ p[n] \in State
<1>1. ASSUME NEW q \in Paths(n + 1)
      PROVE  /\ Cut(q, n) \in Paths(n) /\ q[n + 1] \in State /\ q[n] \in State
             /\ Cut(q, n)[n] = q[n]
             /\ Extend(Cut(q, n), n, q[n + 1]) = q
  <2>1. q \in [0 .. n + 1 -> State]
    BY DEF Paths
  <2>2. \A t \in 0 .. n + 1 : (IF t = n + 1 THEN q[n + 1] ELSE Cut(q, n)[t]) = q[t]
    BY DEF Cut
  <2>3. Extend(Cut(q, n), n, q[n + 1]) = q
    BY <2>1, <2>2 DEF Extend
  <2>4. n \in 0 .. n + 1 /\ n + 1 \in 0 .. n + 1 /\ n \in 0 .. n
    OBVIOUS
  <2>5. \A t \in 0 .. n : q[t] \in State
    BY <2>1
  <2> QED
    BY <2>1, <2>3, <2>4, <2>5 DEF Cut, Paths
<1>2. ASSUME NEW p \in Paths(n), NEW s \in State
      PROVE  /\ Extend(p, n, s) \in Paths(n + 1) /\ Cut(Extend(p, n, s), n) = p
             /\ Extend(p, n, s)[n + 1] = s /\ Extend(p, n, s)[n] = p[n] /\ p[n] \in State
  <2>1. p \in [0 .. n -> State]
    BY DEF Paths
  <2>2. \A t \in 0 .. n + 1 : t = n + 1 \/ t \in 0 .. n
    OBVIOUS
  <2>3. \A t \in 0 .. n + 1 : (IF t = n + 1 THEN s ELSE p[t]) \in State
    BY <2>1, <2>2
  <2>4. Extend(p, n, s) \in [0 .. n + 1 -> State]
    BY <2>3 DEF Extend
  <2>5. \A t \in 0 .. n : Extend(p, n, s)[t] = p[t]
    BY DEF Extend
  <2>6. Cut(Extend(p, n, s), n) = p
    BY <2>1, <2>5 DEF Cut
  <2>7. Extend(p, n, s)[n + 1] = s /\ n \in 0 .. n
    BY DEF Extend
  <2> QED
    BY <2>1, <2>4, <2>5, <2>6, <2>7 DEF Paths
<1> QED
  BY <1>1, <1>2

LEMMA PathsFinite ==
    ASSUME NEW n \in Nat
    PROVE  IsFiniteSet(Paths(n))
<1> DEFINE S == {m \in Nat : IsFiniteSet(Paths(m))}
<1>1. 0 \in S
  <2> DEFINE f == [s \in State |-> [t \in 0 .. 0 |-> s]]
  <2>1. f \in [State -> Paths(0)]
    BY DEF Paths
  <2>2. ASSUME NEW p \in Paths(0) PROVE \E s \in State : f[s] = p
    <3>1. p \in [0 .. 0 -> State] /\ p[0] \in State
      BY DEF Paths
    <3>2. f[p[0]] = p
      BY <3>1
    <3> QED
      BY <3>1, <3>2
  <2>3. f \in Surjection(State, Paths(0))
    <3> HIDE DEF f
    <3> QED
      BY <2>1, <2>2 DEF Surjection
  <2> HIDE DEF f
  <2>4. IsFiniteSet(Paths(0))
    BY <2>3, Sizes, FS_Surjection
  <2> QED
    BY <2>4
<1>2. ASSUME NEW m \in Nat, m \in S PROVE m + 1 \in S
  <2> DEFINE D == Paths(m) \X State
             f == [x \in D |-> Extend(x[1], m, x[2])]
  <2>1. IsFiniteSet(D)
    BY <1>2, Sizes, FS_Product
  <2>2. f \in [D -> Paths(m + 1)]
    BY CutExtend
  <2>3. ASSUME NEW q \in Paths(m + 1) PROVE \E x \in D : f[x] = q
    <3>1. <<Cut(q, m), q[m + 1]>> \in D /\ Extend(Cut(q, m), m, q[m + 1]) = q
      BY CutExtend
    <3> QED
      BY <3>1
  <2>4. f \in Surjection(D, Paths(m + 1))
    <3> HIDE DEF f, D
    <3> QED
      BY <2>2, <2>3 DEF Surjection
  <2> HIDE DEF f, D
  <2>5. IsFiniteSet(Paths(m + 1))
    BY <2>1, <2>4, FS_Surjection
  <2> QED
    BY <2>5
<1>3. Nat \subseteq S
  <2> HIDE DEF S
  <2> QED
    BY <1>1, <1>2, SetInduction
<1> QED
  BY <1>3

\* What Weight computes at t from what it computed at t - 1.
WeightStep(q, w, t) ==
    (IF t = 0 THEN pi[q[0]] ELSE w[t - 1] ** A[q[t - 1]][q[t]]) ** B[q[t]][observations[t]]

Weighs(q, n, w) == w = [t \in 0 .. n |-> WeightStep(q, w, t)]

\* What Weight chooses is the only solution of its equation.
LEMMA WeightIs ==
    ASSUME NEW q, NEW n \in Nat, NEW w, Weighs(q, n, w)
    PROVE  Weight(q, n) = w[n]
<1> DEFINE g == CHOOSE v : Weighs(q, n, v)
           S == {m \in Nat : m <= n => g[m] = w[m]}
<1>1. Weight(q, n) = g[n]
  BY DEF Weight, Weighs, WeightStep
<1>2. Weighs(q, n, g)
  OBVIOUS
<1> HIDE DEF g
<1>3. ASSUME NEW m \in Nat, m <= n PROVE g[m] = WeightStep(q, g, m) /\ w[m] = WeightStep(q, w, m)
  <2>1. m \in 0 .. n
    BY <1>3
  <2> QED
    BY <1>2, <2>1 DEF Weighs
<1>4. 0 \in S
  BY <1>3 DEF WeightStep
<1>5. ASSUME NEW m \in Nat, m \in S PROVE m + 1 \in S
  <2> SUFFICES ASSUME m + 1 <= n PROVE g[m + 1] = w[m + 1]
    OBVIOUS
  <2>1. g[m] = w[m] /\ m + 1 # 0 /\ (m + 1) - 1 = m
    BY <1>5
  <2>2. g[m + 1] = WeightStep(q, g, m + 1) /\ w[m + 1] = WeightStep(q, w, m + 1)
    BY <1>3
  <2> QED
    BY <2>1, <2>2 DEF WeightStep
<1>6. Nat \subseteq S
  <2> HIDE DEF S
  <2> QED
    BY <1>4, <1>5, SetInduction
<1> QED
  BY <1>1, <1>6

LEMMA WeightSolved ==
    ASSUME ModelOK, NEW n \in Time, NEW q \in Paths(n)
    PROVE  \E w \in [0 .. n -> Number] : Weighs(q, n, w)
<1> DEFINE Move(m, v) == (v ** A[q[m]][q[m + 1]]) ** B[q[m + 1]][observations[m + 1]]
           step == [m \in Nat |-> [v \in Number |-> IF m + 1 \in 0 .. n THEN Move(m, v) ELSE v]]
           first == pi[q[0]] ** B[q[0]][observations[0]]
<1>0. n \in Nat /\ \A m \in 0 .. n : m \in Time /\ q[m] \in State
  BY Sizes DEF Paths
<1>1. first \in Number
  <2>1. 0 \in 0 .. n
    BY <1>0
  <2> QED
    BY <1>0, <2>1, ModelNumbers, Closed
<1>2. \A m \in Nat, v \in Number : step[m][v] \in Number
  <2>1. ASSUME NEW m \in Nat, NEW v \in Number, m + 1 \in 0 .. n PROVE Move(m, v) \in Number
    <3>1. m \in 0 .. n
      BY <1>0, <2>1
    <3>2. A[q[m]][q[m + 1]] \in Number /\ B[q[m + 1]][observations[m + 1]] \in Number
      BY <1>0, <2>1, <3>1, ModelNumbers
    <3> QED
      BY <3>2, Closed
  <2> HIDE DEF Move
  <2> QED
    BY <2>1
<1>3. PICK f \in [Nat -> Number] : f[0] = first /\ \A m \in Nat : f[m + 1] = step[m][f[m]]
  <2> HIDE DEF first, step
  <2>1. PICK f : Recurs(f, Number, first, step)
    BY <1>1, <1>2, Recursion
  <2> QED
    BY <2>1 DEF Recurs
<1> DEFINE w == [t \in 0 .. n |-> f[t]]
<1>4. ASSUME NEW t \in 0 .. n PROVE f[t] = WeightStep(q, w, t)
  <2>1. CASE t = 0
    BY <1>3, <2>1 DEF WeightStep
  <2>2. CASE t # 0
    <3>1. t - 1 \in Nat /\ (t - 1) + 1 = t /\ t - 1 \in 0 .. n
      BY <1>0, <2>2
    <3>2. f[t] = step[t - 1][f[t - 1]]
      BY <1>3, <3>1
    <3>3. step[t - 1][f[t - 1]] = Move(t - 1, f[t - 1])
      <4> HIDE DEF Move
      <4> QED
        BY <3>1
    <3>4. w[t - 1] = f[t - 1]
      BY <3>1
    <3> HIDE DEF w, step
    <3> QED
      BY <2>2, <3>1, <3>2, <3>3, <3>4 DEF WeightStep
  <2> QED
    BY <2>1, <2>2
<1>5. w \in [0 .. n -> Number]
  BY <1>0, <1>3
<1>6. Weighs(q, n, w)
  <2>1. w = [t \in 0 .. n |-> WeightStep(q, w, t)]
    <3> SUFFICES \A t \in 0 .. n : f[t] = WeightStep(q, w, t)
      OBVIOUS
    <3> HIDE DEF w
    <3> QED
      BY <1>4
  <2> HIDE DEF w
  <2> QED
    BY <2>1 DEF Weighs
<1> HIDE DEF w
<1> QED
  BY <1>5, <1>6

LEMMA WeightNumber ==
    ASSUME ModelOK, NEW n \in Time, NEW q \in Paths(n)
    PROVE  Weight(q, n) \in Number
<1>1. PICK w \in [0 .. n -> Number] : Weighs(q, n, w)
  BY WeightSolved
<1>2. n \in Nat /\ n \in 0 .. n
  BY Sizes
<1> QED
  BY <1>1, <1>2, WeightIs

LEMMA WeightFirst ==
    ASSUME ModelOK, NEW q \in Paths(0)
    PROVE  Weight(q, 0) = pi[q[0]] ** B[q[0]][observations[0]]
<1>0. 0 \in Time
  BY Sizes
<1>1. PICK w \in [0 .. 0 -> Number] : Weighs(q, 0, w)
  BY <1>0, WeightSolved
<1>2. w[0] = WeightStep(q, w, 0)
  BY <1>1 DEF Weighs
<1> QED
  BY <1>1, <1>2, WeightIs DEF WeightStep

\* The weight of a path, from that of the path without its last state.
LEMMA WeightNext ==
    ASSUME ModelOK, NEW n \in Nat, n + 1 \in Time, NEW q \in Paths(n + 1)
    PROVE  Weight(q, n + 1) =
              (Weight(Cut(q, n), n) ** A[q[n]][q[n + 1]]) ** B[q[n + 1]][observations[n + 1]]
<1>1. PICK w \in [0 .. n + 1 -> Number] : Weighs(q, n + 1, w)
  BY WeightSolved
<1>2. w[n + 1] = WeightStep(q, w, n + 1)
  <2>1. n + 1 \in 0 .. n + 1
    OBVIOUS
  <2> QED
    BY <1>1, <2>1 DEF Weighs
<1> DEFINE v == [t \in 0 .. n |-> w[t]]
           p == Cut(q, n)
<1>3. ASSUME NEW t \in 0 .. n PROVE w[t] = WeightStep(p, v, t)
  <2>1. t \in 0 .. n + 1 /\ 0 \in 0 .. n
    OBVIOUS
  <2>2. w[t] = WeightStep(q, w, t)
    BY <1>1, <2>1 DEF Weighs
  <2>3. p[t] = q[t] /\ p[0] = q[0]
    BY DEF Cut
  <2>4. t # 0 => v[t - 1] = w[t - 1] /\ p[t - 1] = q[t - 1]
    BY DEF Cut
  <2> HIDE DEF v, p
  <2> QED
    BY <2>2, <2>3, <2>4 DEF WeightStep
<1>4. Weighs(p, n, v)
  <2>1. v = [t \in 0 .. n |-> WeightStep(p, v, t)]
    <3> SUFFICES \A t \in 0 .. n : w[t] = WeightStep(p, v, t)
      OBVIOUS
    <3> HIDE DEF v, p
    <3> QED
      BY <1>3
  <2> HIDE DEF v, p
  <2> QED
    BY <2>1 DEF Weighs
<1>5. v[n] = w[n]
  OBVIOUS
<1>6. Weight(p, n) = w[n]
  <2> HIDE DEF v, p
  <2> QED
    BY <1>4, <1>5, WeightIs
<1>7. Weight(q, n + 1) = w[n + 1]
  BY <1>1, WeightIs
<1> HIDE DEF v
<1>8. n + 1 # 0 /\ (n + 1) - 1 = n
  OBVIOUS
<1> QED
  BY <1>2, <1>6, <1>7, <1>8 DEF WeightStep

LEMMA WeightExtend ==
    ASSUME ModelOK, NEW n \in Nat, n + 1 \in Time, NEW p \in Paths(n), NEW s \in State
    PROVE  Weight(Extend(p, n, s), n + 1) = (Weight(p, n) ** A[p[n]][s]) ** B[s][observations[n + 1]]
  BY WeightNext, CutExtend

-----------------------------------------------------------------------------
(* forward().                                                              *)

Row == [State -> Number]

FirstRow == [s \in State |-> pi[s] ** B[s][observations[0]]]

NextRow(prev, t) == [s \in State |-> Total([r \in State |-> prev[r] ** A[r][s]]) ** B[s][observations[t]]]

ForwardStep(a, t) == IF t = 0 THEN FirstRow ELSE NextRow(a[t - 1], t)

Forwards(a) == a = [t \in Time |-> ForwardStep(a, t)]

LEMMA RowsAreNumbers ==
    ASSUME ModelOK
    PROVE  FirstRow \in Row /\ \A prev \in Row, t \in Time : NextRow(prev, t) \in Row
<1>1. FirstRow \in Row
  BY Sizes, ModelNumbers, Closed DEF FirstRow, Row
<1>2. ASSUME NEW prev \in Row, NEW t \in Time PROVE NextRow(prev, t) \in Row
  <2>1. ASSUME NEW s \in State
        PROVE  Total([r \in State |-> prev[r] ** A[r][s]]) ** B[s][observations[t]] \in Number
    <3> DEFINE f == [r \in State |-> prev[r] ** A[r][s]]
    <3>1. Numbers(f, State)
      BY ModelNumbers, Closed, Sizes DEF Numbers, Row
    <3>2. Total(f) = Over(f, State)
      BY TotalOver
    <3> HIDE DEF f
    <3>3. Total(f) \in Number
      BY <3>1, <3>2, OverType, Sizes
    <3>4. Total(f) ** B[s][observations[t]] \in Number
      BY <3>3, ModelNumbers, Closed
    <3> QED
      BY <3>4 DEF f
  <2> QED
    BY <2>1 DEF NextRow, Row
<1> QED
  BY <1>1, <1>2

LEMMA TimeBefore ==
    ASSUME NEW t \in Time, t # 0
    PROVE  t - 1 \in Nat /\ (t - 1) + 1 = t /\ t - 1 \in Time
  BY Sizes

LEMMA ForwardSolved ==
    ASSUME ModelOK
    PROVE  \E a : Forwards(a)
<1> DEFINE step == [n \in Nat |-> [v \in Row |-> IF n + 1 \in Time THEN NextRow(v, n + 1) ELSE v]]
<1>1. \A n \in Nat, v \in Row : step[n][v] \in Row
  BY RowsAreNumbers
<1>2. FirstRow \in Row
  BY RowsAreNumbers
<1>3. PICK f : Recurs(f, Row, FirstRow, step)
  <2> HIDE DEF step
  <2> QED
    BY <1>1, <1>2, Recursion
<1> DEFINE a == [t \in Time |-> f[t]]
<1>4. ASSUME NEW t \in Time PROVE f[t] = ForwardStep(a, t)
  <2>1. CASE t = 0
    BY <1>3, <2>1 DEF ForwardStep, Recurs
  <2>2. CASE t # 0
    <3>1. t - 1 \in Nat /\ (t - 1) + 1 = t /\ t - 1 \in Time
      BY <2>2, TimeBefore
    <3>2. f[t] = step[t - 1][f[t - 1]] /\ f[t - 1] \in Row
      <4> HIDE DEF step
      <4> QED
        BY <1>3, <3>1 DEF Recurs
    <3>3. step[t - 1][f[t - 1]] = NextRow(f[t - 1], t)
      BY <3>1, <3>2
    <3>4. a[t - 1] = f[t - 1]
      BY <3>1
    <3> HIDE DEF a, step
    <3> QED
      BY <2>2, <3>2, <3>3, <3>4 DEF ForwardStep
  <2> QED
    BY <2>1, <2>2
<1>5. a = [t \in Time |-> ForwardStep(a, t)]
  <2> SUFFICES \A t \in Time : f[t] = ForwardStep(a, t)
    OBVIOUS
  <2> HIDE DEF a
  <2> QED
    BY <1>4
<1> HIDE DEF a
<1> QED
  BY <1>5 DEF Forwards

LEMMA ForwardTyped ==
    ASSUME ModelOK, NEW a, Forwards(a)
    PROVE  a \in [Time -> Row]
<1> DEFINE S == {n \in Nat : n \in Time => a[n] \in Row}
<1>1. \A t \in Time : a[t] = ForwardStep(a, t)
  BY DEF Forwards
<1>2. 0 \in S
  BY <1>1, RowsAreNumbers DEF ForwardStep
<1>3. ASSUME NEW n \in Nat, n \in S PROVE n + 1 \in S
  <2> SUFFICES ASSUME n + 1 \in Time PROVE a[n + 1] \in Row
    OBVIOUS
  <2>1. (n + 1) - 1 = n /\ n + 1 # 0 /\ n \in Time
    BY Sizes
  <2>2. a[n + 1] = NextRow(a[n], n + 1)
    BY <1>1, <2>1 DEF ForwardStep
  <2> QED
    BY <1>3, <2>1, <2>2, RowsAreNumbers
<1>4. Nat \subseteq S
  <2> HIDE DEF S
  <2> QED
    BY <1>2, <1>3, SetInduction
<1>5. a = [t \in Time |-> a[t]]
  BY DEF Forwards
<1>6. \A t \in Time : a[t] \in Row
  BY <1>4, Sizes
<1> QED
  BY <1>5, <1>6

-----------------------------------------------------------------------------
\* The paths that end in s, and what they weigh.
Ending(t, s) == {q \in Paths(t) : q[t] = s}
Weights(t) == [q \in Paths(t) |-> Weight(q, t)]

LEMMA EndingIs ==
    ASSUME ModelOK, NEW t \in Time, NEW s \in State
    PROVE  /\ IsFiniteSet(Ending(t, s)) /\ Numbers(Weights(t), Ending(t, s)) /\ Ending(t, s) # {}
           /\ IsFiniteSet(Paths(t)) /\ Numbers(Weights(t), Paths(t))
<1>1. t \in Nat
  BY Sizes
<1>2. IsFiniteSet(Paths(t)) /\ Ending(t, s) \in SUBSET Paths(t)
  BY <1>1, PathsFinite DEF Ending
<1>3. IsFiniteSet(Ending(t, s))
  BY <1>2, FS_Subset
<1>4. \A q \in Paths(t) : Weights(t)[q] \in Number
  BY WeightNumber DEF Weights
<1>5. [m \in 0 .. t |-> s] \in Ending(t, s)
  BY <1>1 DEF Ending, Paths
<1> QED
  BY <1>2, <1>3, <1>4, <1>5 DEF Numbers

\* The paths that are in r at n and in s at n + 1.
LEMMA MoveSum ==
    ASSUME ModelOK, NEW n \in Nat, n + 1 \in Time, n \in Time, NEW r \in State, NEW s \in State
    PROVE  Over(Weights(n + 1), {q \in Ending(n + 1, s) : q[n] = r}) =
              (Over(Weights(n), Ending(n, r)) ** A[r][s]) ** B[s][observations[n + 1]]
<1> DEFINE S == {q \in Ending(n + 1, s) : q[n] = r}
           K == Ending(n, r)
           f == Weights(n + 1)
           h == [q \in S |-> Cut(q, n)]
           g == [p \in K |-> Extend(p, n, s)]
           a == A[r][s]
           b == B[s][observations[n + 1]]
           w == [p \in K |-> f[g[p]]]
<1>1. IsFiniteSet(S) /\ Numbers(f, S)
  <2>1. S \in SUBSET Ending(n + 1, s)
    OBVIOUS
  <2> QED
    BY <2>1, EndingIs, FS_Subset DEF Numbers
<1>2. IsFiniteSet(K) /\ Numbers(Weights(n), K) /\ K # {}
  BY EndingIs
<1>3. h \in [S -> K] /\ g \in [K -> S] /\ (\A p \in K : h[g[p]] = p) /\ (\A q \in S : g[h[q]] = q)
  <2>1. ASSUME NEW q \in S PROVE Cut(q, n) \in K /\ Extend(Cut(q, n), n, s) = q
    BY CutExtend DEF Ending
  <2>2. ASSUME NEW p \in K PROVE Extend(p, n, s) \in S /\ Cut(Extend(p, n, s), n) = p
    BY CutExtend DEF Ending
  <2> HIDE DEF S, K
  <2> QED
    BY <2>1, <2>2
<1>4. Over(f, S) = Over(w, K)
  <2> HIDE DEF S, K, f, h, g
  <2> QED
    BY <1>1, <1>2, <1>3, OverReindex
<1>5. a \in Number /\ b \in Number /\ a ** b \in Number
  BY ModelNumbers, Closed
<1>6. ASSUME NEW p \in K PROVE w[p] = Weights(n)[p] ** (a ** b)
  <2>1. p \in Paths(n) /\ p[n] = r
    BY DEF Ending
  <2>2. Extend(p, n, s) \in Paths(n + 1)
    BY <2>1, CutExtend
  <2>3. f[Extend(p, n, s)] = (Weight(p, n) ** a) ** b
    BY <2>1, <2>2, WeightExtend DEF Weights
  <2>4. Weight(p, n) \in Number
    BY <2>1, WeightNumber
  <2> HIDE DEF a, b
  <2>5. (Weight(p, n) ** a) ** b = Weight(p, n) ** (a ** b)
    BY <1>5, <2>4, TimesAssociates
  <2>6. Weights(n)[p] = Weight(p, n)
    BY <2>1 DEF Weights
  <2> HIDE DEF f
  <2> QED
    BY <2>3, <2>5, <2>6
<1>7. Over(w, K) = Over(Weights(n), K) ** (a ** b)
  <2> HIDE DEF w, K, a, b
  <2> QED
    BY <1>2, <1>5, <1>6, OverTimes
<1>8. Over(Weights(n), K) \in Number
  BY <1>2, OverType
<1>9. (Over(Weights(n), K) ** a) ** b = Over(Weights(n), K) ** (a ** b)
  <2> HIDE DEF K, a, b
  <2> QED
    BY <1>5, <1>8, TimesAssociates
<1> QED
  <2> HIDE DEF w, f, S, K, a, b
  <2>1. Over(f, S) = (Over(Weights(n), K) ** a) ** b
    BY <1>4, <1>7, <1>9
  <2> QED
    BY <2>1 DEF f, S, K, a, b

\* One step of forward().
LEMMA EndingSum ==
    ASSUME ModelOK, NEW n \in Nat, n + 1 \in Time, n \in Time, NEW s \in State, NEW prev \in Row,
           \A r \in State : prev[r] = Over(Weights(n), Ending(n, r))
    PROVE  NextRow(prev, n + 1)[s] = Over(Weights(n + 1), Ending(n + 1, s))
<1> DEFINE S == Ending(n + 1, s)
           f == Weights(n + 1)
           h == [q \in S |-> q[n]]
           b == B[s][observations[n + 1]]
           u == [r \in State |-> Over(f, {q \in S : h[q] = r})]
           v == [r \in State |-> prev[r] ** A[r][s]]
<1>1. IsFiniteSet(S) /\ Numbers(f, S) /\ IsFiniteSet(State) /\ State # {}
  BY EndingIs, Sizes
<1>2. h \in [S -> State]
  <2>1. \A q \in S : q[n] \in State
    BY CutExtend DEF Ending
  <2> HIDE DEF S
  <2> QED
    BY <2>1
<1>3. Over(f, S) = Over(u, State)
  <2> HIDE DEF f, S, h
  <2> QED
    BY <1>1, <1>2, OverParts
<1>4. b \in Number
  BY ModelNumbers
<1>5. Numbers(v, State)
  BY ModelNumbers, Closed, Sizes DEF Numbers, Row
<1>6. ASSUME NEW r \in State PROVE u[r] = v[r] ** b
  <2>1. {q \in S : h[q] = r} = {q \in Ending(n + 1, s) : q[n] = r}
    OBVIOUS
  <2>2. Over(f, {q \in Ending(n + 1, s) : q[n] = r}) = (Over(Weights(n), Ending(n, r)) ** A[r][s]) ** b
    BY MoveSum
  <2>3. v[r] = Over(Weights(n), Ending(n, r)) ** A[r][s]
    OBVIOUS
  <2>4. u[r] = Over(f, {q \in S : h[q] = r})
    OBVIOUS
  <2> HIDE DEF u, v, b, f, S, h
  <2> QED
    BY <2>1, <2>2, <2>3, <2>4
<1>7. Over(u, State) = Over(v, State) ** b
  <2> HIDE DEF u, v, b
  <2> QED
    BY <1>1, <1>4, <1>5, <1>6, OverTimes
<1>8. NextRow(prev, n + 1)[s] = Total(v) ** b
  BY DEF NextRow
<1>9. Total(v) = Over(v, State)
  BY TotalOver
<1> HIDE DEF u, v, b, f, S
<1>10. NextRow(prev, n + 1)[s] = Over(f, S)
  BY <1>3, <1>7, <1>8, <1>9
<1> QED
  BY <1>10 DEF f, S

\* forward() sums the weights of the paths.
LEMMA ForwardSums ==
    ASSUME ModelOK, NEW a, Forwards(a), NEW t \in Time, NEW s \in State
    PROVE  a[t][s] = Over(Weights(t), Ending(t, s))
<1> DEFINE S == {n \in Nat : n \in Time => \A r \in State : a[n][r] = Over(Weights(n), Ending(n, r))}
<1>1. a \in [Time -> Row]
  BY ForwardTyped
<1>2. \A n \in Time : a[n] = ForwardStep(a, n)
  BY DEF Forwards
<1>3. 0 \in S
  <2>1. ASSUME 0 \in Time, NEW r \in State PROVE a[0][r] = Over(Weights(0), Ending(0, r))
    <3> DEFINE p == [m \in 0 .. 0 |-> r]
    <3>1. p \in Paths(0) /\ p[0] = r
      BY DEF Paths
    <3>2. Ending(0, r) = {p}
      BY DEF Ending, Paths
    <3>3. Weights(0)[p] = pi[r] ** B[r][observations[0]]
      <4> HIDE DEF p
      <4> QED
        BY <3>1, WeightFirst DEF Weights
    <3>4. Weights(0)[p] \in Number
      BY <3>3, <2>1, ModelNumbers, Closed
    <3>5. Over(Weights(0), {p}) = Weights(0)[p]
      BY <3>4, OverSingle
    <3>6. a[0][r] = pi[r] ** B[r][observations[0]]
      BY <2>1, <1>2 DEF ForwardStep, FirstRow
    <3> HIDE DEF p
    <3> QED
      BY <3>2, <3>3, <3>5, <3>6
  <2> QED
    BY <2>1
<1>4. ASSUME NEW n \in Nat, n \in S PROVE n + 1 \in S
  <2> SUFFICES ASSUME n + 1 \in Time, NEW r \in State
               PROVE  a[n + 1][r] = Over(Weights(n + 1), Ending(n + 1, r))
    OBVIOUS
  <2>1. (n + 1) - 1 = n /\ n + 1 # 0 /\ n \in Time
    BY Sizes
  <2>2. a[n + 1] = NextRow(a[n], n + 1)
    BY <1>2, <2>1 DEF ForwardStep
  <2>3. a[n] \in Row
    BY <1>1, <2>1
  <2>4. \A k \in State : a[n][k] = Over(Weights(n), Ending(n, k))
    BY <1>4, <2>1
  <2> QED
    BY <2>1, <2>2, <2>3, <2>4, EndingSum
<1>5. Nat \subseteq S
  <2> HIDE DEF S
  <2> QED
    BY <1>3, <1>4, SetInduction
<1> QED
  BY <1>5, Sizes

\* The likelihood is the weight of all paths.
LEMMA AllPaths ==
    ASSUME ModelOK, NEW a, Forwards(a)
    PROVE  Over(a[T - 1], State) = Over(Weights(T - 1), Paths(T - 1))
<1> DEFINE S == Paths(T - 1)
           f == Weights(T - 1)
           h == [q \in S |-> q[T - 1]]
           u == [s \in State |-> Over(f, {q \in S : h[q] = s})]
<1>1. IsFiniteSet(S) /\ Numbers(f, S) /\ IsFiniteSet(State) /\ T - 1 \in Time /\ T - 1 \in Nat
  BY EndingIs, Sizes
<1>2. h \in [S -> State]
  BY <1>1 DEF Paths
<1>3. Over(f, S) = Over(u, State)
  <2> HIDE DEF f, S, h
  <2> QED
    BY <1>1, <1>2, OverParts
<1>4. ASSUME NEW s \in State PROVE a[T - 1][s] = u[s]
  <2>1. {q \in S : h[q] = s} = Ending(T - 1, s)
    BY DEF Ending
  <2>2. a[T - 1][s] = Over(f, Ending(T - 1, s))
    BY <1>1, ForwardSums
  <2>3. u[s] = Over(f, {q \in S : h[q] = s})
    OBVIOUS
  <2> HIDE DEF u, f, S, h
  <2> QED
    BY <2>1, <2>2, <2>3
<1>5. Over(a[T - 1], State) = Over(u, State)
  <2> HIDE DEF u
  <2> QED
    BY <1>4, OverAgree
<1> HIDE DEF u
<1> QED
  BY <1>3, <1>5

-----------------------------------------------------------------------------
(* backward().                                                             *)

PrevRow(old, next, t) ==
    [s \in State |-> old[t][s] ++ Total([r \in State |-> next[r] ** A[s][r] ** B[r][observations[t + 1]]])]

BackwardStep(b, old, t) == IF t = T - 1 THEN [s \in State |-> One] ELSE PrevRow(old, b[t + 1], t)

Backwards(b, old) == b = [t \in Time |-> BackwardStep(b, old, t)]

LEMMA LastRowIsNumbers == [s \in State |-> One] \in Row
  BY FractionNumber DEF Row

LEMMA PrevRowIsNumbers ==
    ASSUME ModelOK, NEW old \in [Time -> Row], NEW next \in Row, NEW t \in Time, t + 1 \in Time
    PROVE  PrevRow(old, next, t) \in Row
<1>1. ASSUME NEW s \in State
      PROVE  old[t][s] ++ Total([r \in State |-> next[r] ** A[s][r] ** B[r][observations[t + 1]]]) \in Number
  <2> DEFINE f == [r \in State |-> next[r] ** A[s][r] ** B[r][observations[t + 1]]]
  <2>1. ASSUME NEW r \in State PROVE f[r] \in Number
    <3>1. next[r] \in Number /\ A[s][r] \in Number /\ B[r][observations[t + 1]] \in Number
      BY ModelNumbers DEF Row
    <3>2. next[r] ** A[s][r] \in Number
      BY <3>1, Closed
    <3>3. next[r] ** A[s][r] ** B[r][observations[t + 1]] \in Number
      BY <3>1, <3>2, Closed
    <3> QED
      BY <3>3
  <2>2. Total(f) = Over(f, State)
    BY TotalOver
  <2>3. old[t][s] \in Number
    BY DEF Row
  <2> HIDE DEF f
  <2>4. Total(f) \in Number
    BY <2>1, <2>2, OverType, Sizes DEF Numbers
  <2>5. old[t][s] ++ Total(f) \in Number
    BY <2>3, <2>4, Closed
  <2> QED
    BY <2>5 DEF f
<1> QED
  BY <1>1 DEF PrevRow, Row

LEMMA BackwardSolved ==
    ASSUME ModelOK, NEW old \in [Time -> Row]
    PROVE  \E b : Backwards(b, old)
<1> DEFINE at1(n) == T - 1 - n
           step == [n \in Nat |-> [v \in Row |->
                       IF n + 1 \in Time THEN PrevRow(old, v, at1(n + 1)) ELSE v]]
           last == [s \in State |-> One]
<1>0. ASSUME NEW n \in Nat, n \in Time
      PROVE  at1(n) \in Time /\ at1(at1(n)) = n /\ (n # 0 => at1(n - 1) = at1(n) + 1 /\ at1(n) + 1 \in Time)
  BY <1>0, Sizes
<1>1. ASSUME NEW n \in Nat, NEW v \in Row PROVE step[n][v] \in Row
  <2>1. CASE n + 1 \in Time
    <3>1. at1(n + 1) \in Time /\ at1(n + 1) + 1 \in Time
      BY <2>1, Sizes
    <3>2. PrevRow(old, v, at1(n + 1)) \in Row
      <4> HIDE DEF at1
      <4> QED
        BY <3>1, PrevRowIsNumbers
    <3> HIDE DEF at1
    <3> QED
      BY <2>1, <3>2
  <2>2. CASE ~(n + 1 \in Time)
    BY <2>2
  <2> QED
    BY <2>1, <2>2
<1>2. last \in Row
  BY LastRowIsNumbers
<1>3. PICK f : Recurs(f, Row, last, step)
  <2> HIDE DEF step, last
  <2> QED
    BY <1>1, <1>2, Recursion
<1> DEFINE b == [t \in Time |-> f[at1(t)]]
<1>4. ASSUME NEW t \in Time PROVE f[at1(t)] = BackwardStep(b, old, t)
  <2>0. t \in Nat /\ at1(t) \in Time /\ at1(t) \in Nat /\ at1(at1(t)) = t
    BY <1>0, Sizes
  <2>1. CASE t = T - 1
    <3>1. at1(t) = 0
      BY <2>1, Sizes
    <3>2. f[0] = last
      BY <1>3 DEF Recurs
    <3> QED
      BY <2>1, <3>1, <3>2 DEF BackwardStep
  <2>2. CASE t # T - 1
    <3> DEFINE k == at1(t + 1)
    <3>1. k \in Nat /\ k + 1 = at1(t) /\ t + 1 \in Time /\ at1(k + 1) = t /\ k + 1 \in Time
      BY <2>2, Sizes
    <3>2. f[k + 1] = step[k][f[k]] /\ f[k] \in Row
      <4> HIDE DEF step, k
      <4> QED
        BY <1>3, <3>1 DEF Recurs
    <3>3. step[k][f[k]] = PrevRow(old, f[k], t)
      <4> HIDE DEF k, at1
      <4> QED
        BY <3>1, <3>2
    <3>4. b[t + 1] = f[k]
      BY <3>1
    <3> HIDE DEF b, step, k, at1
    <3> QED
      BY <2>2, <3>1, <3>2, <3>3, <3>4 DEF BackwardStep
  <2> QED
    BY <2>1, <2>2
<1>5. b = [t \in Time |-> BackwardStep(b, old, t)]
  <2> SUFFICES \A t \in Time : f[at1(t)] = BackwardStep(b, old, t)
    OBVIOUS
  <2> HIDE DEF b
  <2> QED
    BY <1>4
<1> HIDE DEF b
<1> QED
  BY <1>5 DEF Backwards

LEMMA BackwardTyped ==
    ASSUME ModelOK, NEW old \in [Time -> Row], NEW b, Backwards(b, old)
    PROVE  b \in [Time -> Row]
<1> DEFINE S == {n \in Nat : n \in Time => b[T - 1 - n] \in Row}
<1>1. \A t \in Time : b[t] = BackwardStep(b, old, t)
  BY DEF Backwards
<1>2. 0 \in S
  <2>1. T - 1 - 0 = T - 1 /\ T - 1 \in Time
    BY Sizes
  <2> QED
    BY <2>1, <1>1, LastRowIsNumbers DEF BackwardStep
<1>3. ASSUME NEW n \in Nat, n \in S PROVE n + 1 \in S
  <2> SUFFICES ASSUME n + 1 \in Time PROVE b[T - 1 - (n + 1)] \in Row
    OBVIOUS
  <2>1. PICK t \in Time : t = T - 1 - (n + 1) /\ t # T - 1 /\ t + 1 = T - 1 - n /\ t + 1 \in Time /\ n \in Time
    BY Sizes
  <2>2. b[t] = PrevRow(old, b[t + 1], t)
    BY <1>1, <2>1 DEF BackwardStep
  <2> QED
    BY <1>3, <2>1, <2>2, PrevRowIsNumbers
<1>4. Nat \subseteq S
  <2> HIDE DEF S
  <2> QED
    BY <1>2, <1>3, SetInduction
<1>5. b = [t \in Time |-> b[t]]
  BY DEF Backwards
<1>6. ASSUME NEW t \in Time PROVE b[t] \in Row
  <2>1. PICK n \in Nat : n \in Time /\ t = T - 1 - n
    <3>1. T - 1 - t \in Nat /\ T - 1 - t \in Time /\ t = T - 1 - (T - 1 - t)
      BY Sizes
    <3> QED
      BY <3>1
  <2> QED
    BY <1>4, <2>1
<1> QED
  BY <1>5, <1>6

-----------------------------------------------------------------------------
\* What a walk contributes if beta held old.
Values(old) ==
    [q \in Walks |-> Weight(q, Last(q)) ** (IF Last(q) = T - 1 THEN One ELSE old[Last(q)][q[Last(q)]])]

\* The walks that begin with p.
On(p, t) == {q \in Walks : t <= Last(q) /\ Cut(q, t) = p}

LEMMA CutPath ==
    ASSUME NEW n \in Nat, NEW q \in Paths(n), NEW t \in 0 .. n
    PROVE  /\ Cut(q, t) \in Paths(t) /\ Cut(q, t)[t] = q[t] /\ q[t] \in State
           /\ Cut(q, n) = q
           /\ t # n => /\ Cut(q, t + 1) = Extend(Cut(q, t), t, q[t + 1])
                       /\ Cut(Cut(q, t + 1), t) = Cut(q, t)
                       /\ q[t + 1] \in State
<1>1. q \in [0 .. n -> State]
  BY DEF Paths
<1>2. \A m \in 0 .. t : m \in 0 .. n
  OBVIOUS
<1>3. Cut(q, t) \in Paths(t)
  BY <1>1, <1>2 DEF Cut, Paths
<1>4. Cut(q, n) = q
  BY <1>1 DEF Cut
<1>5. Cut(q, t)[t] = q[t]
  BY DEF Cut
<1>6. ASSUME t # n
      PROVE  /\ Cut(q, t + 1) = Extend(Cut(q, t), t, q[t + 1])
             /\ Cut(Cut(q, t + 1), t) = Cut(q, t)
             /\ q[t + 1] \in State
  <2>1. t + 1 \in 0 .. n
    BY <1>6
  <2>2. \A m \in 0 .. t + 1 : (IF m = t + 1 THEN q[t + 1] ELSE Cut(q, t)[m]) = q[m]
    BY DEF Cut
  <2>3. \A m \in 0 .. t : Cut(q, t + 1)[m] = q[m]
    BY DEF Cut
  <2>4. Cut(q, t + 1) = Extend(Cut(q, t), t, q[t + 1])
    BY <2>2 DEF Cut, Extend
  <2>5. Cut(Cut(q, t + 1), t) = [m \in 0 .. t |-> Cut(q, t + 1)[m]] /\ Cut(q, t) = [m \in 0 .. t |-> q[m]]
    BY DEF Cut
  <2> QED
    BY <1>1, <2>1, <2>3, <2>4, <2>5
<1> QED
  BY <1>1, <1>3, <1>4, <1>5, <1>6

LEMMA Reorder ==
    ASSUME NEW w \in Number, NEW a \in Number, NEW b \in Number, NEW x \in Number
    PROVE  ((w ** a) ** b) ** x = ((x ** a) ** b) ** w
<1>1. a ** b \in Number /\ (a ** b) ** x \in Number /\ x ** (a ** b) \in Number
  BY Closed
<1>2. (w ** a) ** b = w ** (a ** b)
  BY TimesAssociates
<1>3. (w ** (a ** b)) ** x = w ** ((a ** b) ** x)
  BY <1>1, TimesAssociates
<1>4. (a ** b) ** x = x ** (a ** b)
  BY <1>1, TimesCommutes
<1>5. w ** (x ** (a ** b)) = (x ** (a ** b)) ** w
  BY <1>1, TimesCommutes
<1>6. x ** (a ** b) = (x ** a) ** b
  BY TimesAssociates
<1> QED
  BY <1>2, <1>3, <1>4, <1>5, <1>6

LEMMA LastIs ==
    ASSUME NEW n \in Time, NEW q \in Paths(n)
    PROVE  Last(q) = n /\ q \in Walks
<1>1. DOMAIN q = 0 .. n /\ n \in 0 .. n /\ \A m \in 0 .. n : n >= m
  BY Sizes DEF Paths
<1>2. \A x \in 0 .. n : (\A m \in 0 .. n : x >= m) => x = n
  BY Sizes
<1>3. (CHOOSE x \in 0 .. n : \A m \in 0 .. n : x >= m) = n
  BY <1>1, <1>2
<1> QED
  BY <1>1, <1>3 DEF Last, Max, Walks

LEMMA WalkIs ==
    ASSUME NEW q \in Walks
    PROVE  Last(q) \in Time /\ q \in Paths(Last(q))
<1>1. PICK n \in Time : q \in Paths(n)
  BY DEF Walks
<1> QED
  BY <1>1, LastIs

LEMMA WalksFinite == IsFiniteSet(Walks)
<1> DEFINE Up(n) == UNION {Paths(m) : m \in 0 .. n}
           S == {n \in Nat : IsFiniteSet(Up(n))}
<1>1. 0 \in S
  <2>1. Up(0) = Paths(0)
    OBVIOUS
  <2> QED
    BY <2>1, PathsFinite
<1>2. ASSUME NEW n \in Nat, n \in S PROVE n + 1 \in S
  <2>1. 0 .. n + 1 = (0 .. n) \cup {n + 1}
    OBVIOUS
  <2>2. Up(n + 1) = Up(n) \cup Paths(n + 1)
    BY <2>1
  <2>3. IsFiniteSet(Up(n)) /\ IsFiniteSet(Paths(n + 1))
    BY <1>2, PathsFinite
  <2> HIDE DEF Up
  <2>4. ASSUME NEW X, NEW Y, IsFiniteSet(X), IsFiniteSet(Y) PROVE IsFiniteSet(X \cup Y)
    BY <2>4, FS_Union
  <2>5. IsFiniteSet(Up(n) \cup Paths(n + 1))
    BY <2>3, <2>4
  <2>6. IsFiniteSet(Up(n + 1))
    BY <2>2, <2>5
  <2> QED
    BY <2>6
<1>3. Nat \subseteq S
  <2> HIDE DEF S
  <2> QED
    BY <1>1, <1>2, SetInduction
<1>4. T - 1 \in Nat /\ Time = 0 .. T - 1
  BY Sizes
<1>5. Walks = Up(T - 1)
  BY <1>4 DEF Walks
<1> QED
  BY <1>3, <1>4, <1>5

LEMMA ValuesAre ==
    ASSUME ModelOK, NEW old \in [Time -> Row]
    PROVE  \A q \in Walks : Values(old)[q] \in Number
<1> SUFFICES ASSUME NEW q \in Walks PROVE Values(old)[q] \in Number
  OBVIOUS
<1>1. PICK n \in Time : q \in Paths(n) /\ Last(q) = n
  BY WalkIs
<1>2. Weight(q, n) \in Number /\ q[n] \in State
  BY <1>1, WeightNumber, Sizes DEF Paths
<1>3. (IF n = T - 1 THEN One ELSE old[n][q[n]]) \in Number
  BY <1>2, FractionNumber DEF Row
<1>4. Values(old)[q] = Weight(q, n) ** (IF n = T - 1 THEN One ELSE old[n][q[n]])
  BY <1>1 DEF Values
<1> QED
  BY <1>2, <1>3, <1>4, Closed

LEMMA SomeWalks ==
    ASSUME ModelOK, NEW old \in [Time -> Row], NEW S \in SUBSET Walks
    PROVE  IsFiniteSet(S) /\ Numbers(Values(old), S)
  BY WalksFinite, ValuesAre, FS_Subset DEF Numbers

\* The walks that begin with p and do not end there.
Later(p, t) == {q \in On(p, t) : Last(q) # t}

LEMMA LaterIs ==
    ASSUME NEW t \in Time, NEW p \in Paths(t), NEW q \in Walks
    PROVE  /\ q \in Later(p, t) =>
                 /\ t + 1 <= Last(q) /\ q[t + 1] \in State
                 /\ Cut(q, t + 1) = Extend(p, t, q[t + 1])
           /\ \A r \in State : q \in On(Extend(p, t, r), t + 1) => q \in Later(p, t) /\ q[t + 1] = r
<1>1. PICK n \in Nat : q \in Paths(n) /\ Last(q) = n
  BY WalkIs, Sizes
<1>2. t \in Nat
  BY Sizes
<1>3. ASSUME q \in Later(p, t)
      PROVE  t + 1 <= n /\ q[t + 1] \in State /\ Cut(q, t + 1) = Extend(p, t, q[t + 1])
  <2>1. t <= n /\ t # n /\ Cut(q, t) = p
    BY <1>1, <1>3 DEF Later, On
  <2>2. t \in 0 .. n /\ t + 1 <= n
    BY <1>2, <2>1
  <2> QED
    BY <1>1, <2>1, <2>2, CutPath
<1>4. ASSUME NEW r \in State, q \in On(Extend(p, t, r), t + 1) PROVE q \in Later(p, t) /\ q[t + 1] = r
  <2>1. t + 1 <= n /\ Cut(q, t + 1) = Extend(p, t, r)
    BY <1>1, <1>4 DEF On
  <2>2. t \in 0 .. n /\ t # n /\ t + 1 \in 0 .. n
    BY <1>2, <2>1
  <2>3. Cut(Cut(q, t + 1), t) = Cut(q, t) /\ Cut(q, t + 1)[t + 1] = q[t + 1]
    BY <1>1, <2>2, CutPath
  <2>4. Cut(Extend(p, t, r), t) = p /\ Extend(p, t, r)[t + 1] = r
    BY <1>2, CutExtend
  <2> QED
    BY <1>1, <2>1, <2>2, <2>3, <2>4 DEF Later, On
<1> QED
  BY <1>1, <1>3, <1>4

\* One step back: the walks that go on.
LEMMA LaterSum ==
    ASSUME ModelOK, NEW old \in [Time -> Row], NEW t \in Time, t + 1 \in Time, NEW next \in Row,
           NEW p \in Paths(t),
           \A r \in State : Over(Values(old), On(Extend(p, t, r), t + 1))
                                = Weight(Extend(p, t, r), t + 1) ** next[r]
    PROVE  LET v == [r \in State |-> next[r] ** A[p[t]][r] ** B[r][observations[t + 1]]]
           IN  /\ Over(Values(old), Later(p, t)) = Total(v) ** Weight(p, t)
               /\ Total(v) \in Number
<1> DEFINE S == Later(p, t)
           f == Values(old)
           w == Weight(p, t)
           h == [q \in S |-> q[t + 1]]
           u == [r \in State |-> Over(f, {q \in S : h[q] = r})]
           v == [r \in State |-> next[r] ** A[p[t]][r] ** B[r][observations[t + 1]]]
<1>0. t \in Nat /\ p[t] \in State /\ S \in SUBSET Walks
  BY Sizes DEF Paths, Later, On
<1>1. IsFiniteSet(S) /\ Numbers(f, S) /\ IsFiniteSet(State) /\ State # {}
  BY <1>0, SomeWalks, Sizes
<1>2. h \in [S -> State]
  <2>1. \A q \in S : q[t + 1] \in State
    BY <1>0, LaterIs
  <2> HIDE DEF S
  <2> QED
    BY <2>1
<1>3. Over(f, S) = Over(u, State)
  <2> HIDE DEF f, S, h
  <2> QED
    BY <1>1, <1>2, OverParts
<1>4. w \in Number
  BY WeightNumber
<1>5. ASSUME NEW r \in State
      PROVE  /\ next[r] \in Number /\ A[p[t]][r] \in Number /\ B[r][observations[t + 1]] \in Number
             /\ v[r] \in Number
  <2>1. next[r] \in Number /\ A[p[t]][r] \in Number /\ B[r][observations[t + 1]] \in Number
    BY <1>0, ModelNumbers DEF Row
  <2>2. next[r] ** A[p[t]][r] \in Number
    BY <2>1, Closed
  <2>3. next[r] ** A[p[t]][r] ** B[r][observations[t + 1]] \in Number
    BY <2>1, <2>2, Closed
  <2> QED
    BY <2>1, <2>3
<1>6. ASSUME NEW r \in State PROVE u[r] = v[r] ** w
  <2> DEFINE e == Extend(p, t, r)
             a == A[p[t]][r]
             b == B[r][observations[t + 1]]
  <2>1. {q \in S : h[q] = r} = On(e, t + 1)
    <3>1. ASSUME NEW q \in S, q[t + 1] = r PROVE q \in On(e, t + 1)
      <4>1. q \in Walks /\ t + 1 <= Last(q) /\ Cut(q, t + 1) = e
        BY <1>0, <3>1, LaterIs
      <4> QED
        BY <4>1 DEF On
    <3>2. ASSUME NEW q \in On(e, t + 1) PROVE q \in S /\ q[t + 1] = r
      <4>1. q \in Walks
        BY DEF On
      <4> QED
        BY <4>1, LaterIs
    <3>3. \A q \in S : h[q] = q[t + 1]
      OBVIOUS
    <3> HIDE DEF S, e, h
    <3> QED
      BY <3>1, <3>2, <3>3
  <2>2. u[r] = Over(f, {q \in S : h[q] = r})
    OBVIOUS
  <2>3. Over(f, On(e, t + 1)) = Weight(e, t + 1) ** next[r]
    OBVIOUS
  <2>4. Weight(e, t + 1) = (w ** a) ** b
    BY <1>0, WeightExtend
  <2>5. v[r] = (next[r] ** a) ** b
    OBVIOUS
  <2> HIDE DEF e, a, b, u, v, w, f, h, S
  <2>6. a \in Number /\ b \in Number /\ next[r] \in Number
    BY <1>5 DEF a, b
  <2>7. ((w ** a) ** b) ** next[r] = ((next[r] ** a) ** b) ** w
    BY <1>4, <2>6, Reorder
  <2> QED
    BY <2>1, <2>2, <2>3, <2>4, <2>5, <2>7
<1>7. Over(u, State) = Over(v, State) ** w
  <2> HIDE DEF u, v, w
  <2> QED
    BY <1>1, <1>4, <1>5, <1>6, OverTimes DEF Numbers
<1>8. Over(v, State) \in Number
  <2> HIDE DEF v
  <2> QED
    BY <1>1, <1>5, OverType DEF Numbers
<1>9. Total(v) = Over(v, State)
  BY TotalOver
<1> HIDE DEF u, v, w, f, S
<1>10. Over(f, S) = Total(v) ** w /\ Total(v) \in Number
  BY <1>3, <1>7, <1>8, <1>9
<1> QED
  BY <1>10 DEF f, S, w, v

\* And with the walk that ends at p, which counts what beta held.
LEMMA OnSum ==
    ASSUME ModelOK, NEW old \in [Time -> Row], NEW t \in Time, t + 1 \in Time, NEW next \in Row,
           NEW p \in Paths(t),
           \A r \in State : Over(Values(old), On(Extend(p, t, r), t + 1))
                                = Weight(Extend(p, t, r), t + 1) ** next[r]
    PROVE  Over(Values(old), On(p, t)) = Weight(p, t) ** PrevRow(old, next, t)[p[t]]
<1> DEFINE v == [r \in State |-> next[r] ** A[p[t]][r] ** B[r][observations[t + 1]]]
           f == Values(old)
           w == Weight(p, t)
           x == old[t][p[t]]
           R == Later(p, t)
<1>0. t \in Nat /\ t # T - 1 /\ p[t] \in State /\ p \in Walks /\ Last(p) = t
  BY LastIs, Sizes DEF Paths
<1>1. On(p, t) = R \cup {p} /\ p \notin R /\ R \in SUBSET Walks
  <2>1. Cut(p, t) = p
    BY <1>0, CutPath
  <2>2. ASSUME NEW q \in On(p, t), Last(q) = t PROVE q = p
    <3>1. q \in Paths(t) /\ Cut(q, t) = p
      BY <2>2, WalkIs DEF On
    <3>2. t \in 0 .. t
      BY <1>0
    <3> QED
      BY <1>0, <3>1, <3>2, CutPath
  <2>3. p \in On(p, t)
    BY <1>0, <2>1 DEF On
  <2> QED
    BY <1>0, <2>2, <2>3 DEF Later, On
<1>2. f[p] = w ** x
  BY <1>0 DEF Values
<1>3. w \in Number /\ x \in Number
  BY <1>0, WeightNumber DEF Row
<1>4. Over(f, R) = Total(v) ** w /\ Total(v) \in Number
  BY LaterSum
<1>5. PrevRow(old, next, t)[p[t]] = x ++ Total(v)
  BY <1>0 DEF PrevRow
<1>6. IsFiniteSet(R) /\ Numbers(f, R)
  BY <1>1, SomeWalks
<1> HIDE DEF v, f, w, x, R
<1>7. w ** x \in Number
  BY <1>3, Closed
<1>8. Over(f, R \cup {p}) = f[p] ++ Over(f, R)
  BY <1>1, <1>2, <1>6, <1>7, OverAdd
<1>9. w ** x = x ** w
  BY <1>3, TimesCommutes
<1>10. (x ++ Total(v)) ** w = (x ** w) ++ (Total(v) ** w) /\ x ++ Total(v) \in Number
  BY <1>3, <1>4, Distributes, Closed
<1>11. (x ++ Total(v)) ** w = w ** (x ++ Total(v))
  BY <1>3, <1>10, TimesCommutes
<1>12. Over(f, On(p, t)) = w ** PrevRow(old, next, t)[p[t]]
  BY <1>1, <1>2, <1>4, <1>5, <1>8, <1>9, <1>10, <1>11
<1> QED
  BY <1>12 DEF f, w

\* backward() sums what the walks that begin with p are worth from there on.
LEMMA BackwardSums ==
    ASSUME ModelOK, NEW old \in [Time -> Row],
           NEW b, Backwards(b, old), NEW t \in Time, NEW p \in Paths(t)
    PROVE  Over(Values(old), On(p, t)) = Weight(p, t) ** b[t][p[t]]
<1> DEFINE Sums(m) == \A q \in Paths(m) : Over(Values(old), On(q, m)) = Weight(q, m) ** b[m][q[m]]
           S == {n \in Nat : n \in Time => Sums(T - 1 - n)}
<1>0. T - 1 \in Nat /\ T - 1 \in Time
  BY Sizes
<1>1. b \in [Time -> Row]
  BY BackwardTyped
<1>2. \A m \in Time : b[m] = BackwardStep(b, old, m)
  BY DEF Backwards
<1>3. 0 \in S
  <2>1. ASSUME NEW q \in Paths(T - 1)
        PROVE  Over(Values(old), On(q, T - 1)) = Weight(q, T - 1) ** b[T - 1][q[T - 1]]
    <3>0. q \in Walks /\ Last(q) = T - 1
      BY <1>0, LastIs
    <3>1. On(q, T - 1) = {q}
      <4>1. ASSUME NEW k \in On(q, T - 1) PROVE k = q
        <5>1. k \in Walks /\ T - 1 <= Last(k) /\ Cut(k, T - 1) = q
          BY DEF On
        <5>2. Last(k) = T - 1 /\ k \in Paths(T - 1)
          BY <5>1, WalkIs, Sizes
        <5>3. T - 1 \in 0 .. T - 1
          BY <1>0
        <5> QED
          BY <1>0, <5>1, <5>2, <5>3, CutPath
      <4>2. Cut(q, T - 1) = q /\ T - 1 <= T - 1
        <5>1. T - 1 \in 0 .. T - 1 /\ T - 1 <= T - 1
          BY <1>0
        <5> QED
          BY <1>0, <5>1, CutPath
      <4>3. q \in On(q, T - 1)
        BY <3>0, <4>2 DEF On
      <4> QED
        BY <4>1, <4>3
    <3>2. Weight(q, T - 1) \in Number
      BY <1>0, WeightNumber
    <3>3. Values(old)[q] = Weight(q, T - 1)
      BY <3>0, <3>2, Units DEF Values
    <3>4. Over(Values(old), {q}) = Weight(q, T - 1)
      BY <3>2, <3>3, OverSingle
    <3>5. q[T - 1] \in State
      BY <1>0 DEF Paths
    <3>6. b[T - 1][q[T - 1]] = One
      BY <1>0, <1>2, <3>5 DEF BackwardStep
    <3> QED
      BY <3>1, <3>2, <3>4, <3>6, Units
  <2>2. T - 1 - 0 = T - 1
    BY <1>0
  <2> QED
    BY <2>1, <2>2
<1>4. ASSUME NEW n \in Nat, n \in S PROVE n + 1 \in S
  <2> SUFFICES ASSUME n + 1 \in Time, NEW m, m = T - 1 - (n + 1) PROVE Sums(m)
    OBVIOUS
  <2>1. m \in Time /\ m # T - 1 /\ m + 1 = T - 1 - n /\ m + 1 \in Time /\ n \in Time /\ m \in Nat
    BY Sizes
  <2>2. Sums(m + 1)
    BY <1>4, <2>1
  <2>3. b[m] = PrevRow(old, b[m + 1], m)
    BY <1>2, <2>1 DEF BackwardStep
  <2>4. b[m + 1] \in Row
    BY <1>1, <2>1
  <2>5. ASSUME NEW q \in Paths(m) PROVE Over(Values(old), On(q, m)) = Weight(q, m) ** b[m][q[m]]
    <3>1. ASSUME NEW r \in State
          PROVE  Over(Values(old), On(Extend(q, m, r), m + 1)) = Weight(Extend(q, m, r), m + 1) ** b[m + 1][r]
      <4>1. Extend(q, m, r) \in Paths(m + 1) /\ Extend(q, m, r)[m + 1] = r
        BY <2>1, CutExtend
      <4> QED
        BY <2>2, <4>1
    <3> QED
      BY <2>1, <2>3, <2>4, <3>1, OnSum
  <2> QED
    BY <2>5
<1>5. Nat \subseteq S
  <2> HIDE DEF S
  <2> QED
    BY <1>3, <1>4, SetInduction
<1>6. T - 1 - t \in Nat /\ T - 1 - t \in Time /\ T - 1 - (T - 1 - t) = t
  BY Sizes
<1>7. Sums(t)
  <2> HIDE DEF Sums
  <2> QED
    BY <1>5, <1>6
<1> QED
  BY <1>7

-----------------------------------------------------------------------------
(* init_gamma() and init_xi().                                             *)

\* The walks that are in s at t.
Through(t, s) == {q \in Walks : t <= Last(q) /\ q[t] = s}

\* The walks that are in s at t and in r at t + 1.
Moving(t, s, r) == {q \in Walks : t < Last(q) /\ q[t] = s /\ q[t + 1] = r}

\* alpha and beta meet in the walks through a state at a time.
LEMMA ThroughSum ==
    ASSUME ModelOK, NEW old \in [Time -> Row],
           NEW a, Forwards(a), NEW b, Backwards(b, old), NEW t \in Time, NEW s \in State
    PROVE  Over(Values(old), Through(t, s)) = a[t][s] ** b[t][s]
<1> DEFINE S == Through(t, s)
           K == Ending(t, s)
           f == Values(old)
           h == [q \in S |-> Cut(q, t)]
           u == [p \in K |-> Over(f, {q \in S : h[q] = p})]
           c == b[t][s]
<1>0. ASSUME NEW q \in Walks, t <= Last(q) PROVE Cut(q, t) \in Paths(t) /\ Cut(q, t)[t] = q[t]
  <2>1. PICK n \in Nat : q \in Paths(n) /\ n = Last(q)
    BY WalkIs, Sizes
  <2>2. t \in 0 .. n
    BY <1>0, <2>1, Sizes
  <2> QED
    BY <2>1, <2>2, CutPath
<1>1. IsFiniteSet(S) /\ Numbers(f, S)
  <2>1. S \in SUBSET Walks
    BY DEF Through
  <2> QED
    BY <2>1, SomeWalks
<1>2. IsFiniteSet(K) /\ Numbers(Weights(t), K) /\ K # {}
  BY EndingIs
<1>3. h \in [S -> K]
  <2>1. ASSUME NEW q \in S PROVE Cut(q, t) \in K
    BY <1>0 DEF Through, Ending
  <2> HIDE DEF S, K
  <2> QED
    BY <2>1
<1>4. Over(f, S) = Over(u, K)
  <2> HIDE DEF f, S, h, K
  <2> QED
    BY <1>1, <1>2, <1>3, OverParts
<1>5. c \in Number
  <2>1. b \in [Time -> Row]
    BY BackwardTyped
  <2> QED
    BY <2>1 DEF Row
<1>6. ASSUME NEW p \in K PROVE u[p] = Weights(t)[p] ** c
  <2>1. p \in Paths(t) /\ p[t] = s
    BY DEF Ending
  <2>2. {q \in S : h[q] = p} = On(p, t)
    BY <1>0, <2>1 DEF On, Through
  <2>3. Over(f, On(p, t)) = Weight(p, t) ** b[t][p[t]]
    BY <2>1, BackwardSums
  <2>4. u[p] = Over(f, {q \in S : h[q] = p})
    OBVIOUS
  <2>5. Weights(t)[p] = Weight(p, t)
    BY <2>1 DEF Weights
  <2> HIDE DEF u, f, S, h
  <2> QED
    BY <2>1, <2>2, <2>3, <2>4, <2>5
<1>7. Over(u, K) = Over(Weights(t), K) ** c
  <2> HIDE DEF u, K, c
  <2> QED
    BY <1>2, <1>5, <1>6, OverTimes
<1>8. a[t][s] = Over(Weights(t), K)
  BY ForwardSums
<1> HIDE DEF u, K, f, S
<1>9. Over(f, S) = a[t][s] ** c
  BY <1>4, <1>7, <1>8
<1> QED
  BY <1>9 DEF f, S

\* And around a move, in the walks that make it.
LEMMA MovingSum ==
    ASSUME ModelOK, NEW old \in [Time -> Row],
           NEW a, Forwards(a), NEW b, Backwards(b, old),
           NEW t \in Time, t + 1 \in Time, NEW s \in State, NEW r \in State
    PROVE  Over(Values(old), Moving(t, s, r)) =
              a[t][s] ** A[s][r] ** B[r][observations[t + 1]] ** b[t + 1][r]
<1> DEFINE S == Moving(t, s, r)
           K == Ending(t, s)
           f == Values(old)
           h == [q \in S |-> Cut(q, t)]
           u == [p \in K |-> Over(f, {q \in S : h[q] = p})]
           x == A[s][r]
           y == B[r][observations[t + 1]]
           z == b[t + 1][r]
           c == (x ** y) ** z
<1>0. t \in Nat
  BY Sizes
<1>a. ASSUME NEW q \in S
      PROVE  q \in Walks /\ Cut(q, t) \in Paths(t) /\ Cut(q, t)[t] = s /\ q \in Later(Cut(q, t), t)
  <2>1. PICK n \in Nat : q \in Walks /\ q \in Paths(n) /\ n = Last(q) /\ t < n
    BY WalkIs, Sizes DEF Moving
  <2>2. t \in 0 .. n /\ t <= n /\ t # n
    BY <1>0, <2>1
  <2> QED
    BY <2>1, <2>2, CutPath DEF Moving, Later, On
<1>1. IsFiniteSet(S) /\ Numbers(f, S)
  <2>1. S \in SUBSET Walks
    BY DEF Moving
  <2> QED
    BY <2>1, SomeWalks
<1>2. IsFiniteSet(K) /\ Numbers(Weights(t), K) /\ K # {}
  BY EndingIs
<1>3. h \in [S -> K]
  <2>1. ASSUME NEW q \in S PROVE Cut(q, t) \in K
    BY <1>a DEF Ending
  <2> HIDE DEF S, K
  <2> QED
    BY <2>1
<1>4. Over(f, S) = Over(u, K)
  <2> HIDE DEF f, S, h, K
  <2> QED
    BY <1>1, <1>2, <1>3, OverParts
<1>5. x \in Number /\ y \in Number /\ z \in Number /\ x ** y \in Number /\ c \in Number
  <2>1. b \in [Time -> Row]
    BY BackwardTyped
  <2>2. z \in Number
    BY <2>1 DEF Row
  <2>3. x \in Number /\ y \in Number
    BY ModelNumbers
  <2> HIDE DEF x, y, z
  <2>4. x ** y \in Number
    BY <2>3, Closed
  <2> QED
    BY <2>2, <2>3, <2>4, Closed
<1>6. ASSUME NEW w \in Number PROVE ((w ** x) ** y) ** z = w ** c
  <2> HIDE DEF x, y, z
  <2>1. (w ** x) ** y = w ** (x ** y)
    BY <1>5, TimesAssociates
  <2>2. (w ** (x ** y)) ** z = w ** ((x ** y) ** z)
    BY <1>5, TimesAssociates
  <2> QED
    BY <2>1, <2>2
<1>7. ASSUME NEW p \in K PROVE u[p] = Weights(t)[p] ** c
  <2> DEFINE e == Extend(p, t, r)
  <2>1. p \in Paths(t) /\ p[t] = s
    BY DEF Ending
  <2>2. {q \in S : h[q] = p} = On(e, t + 1)
    <3>1. ASSUME NEW q \in S, Cut(q, t) = p PROVE q \in On(e, t + 1)
      <4>1. q \in Walks /\ q \in Later(p, t) /\ q[t + 1] = r
        BY <1>a, <3>1 DEF Moving
      <4>2. t + 1 <= Last(q) /\ Cut(q, t + 1) = Extend(p, t, q[t + 1])
        BY <2>1, <4>1, LaterIs
      <4> QED
        BY <4>1, <4>2 DEF On
    <3>2. ASSUME NEW q \in On(e, t + 1) PROVE q \in S /\ Cut(q, t) = p
      <4>1. q \in Walks
        BY DEF On
      <4>2. q \in Later(p, t) /\ q[t + 1] = r
        BY <2>1, <4>1, LaterIs
      <4>3. PICK n \in Nat : q \in Paths(n) /\ n = Last(q)
        BY <4>1, WalkIs, Sizes
      <4>4. t <= n /\ t # n /\ Cut(q, t) = p
        BY <4>2, <4>3 DEF Later, On
      <4>5. t < n /\ t \in 0 .. n
        BY <1>0, <4>4
      <4>6. q[t] = s
        BY <2>1, <4>3, <4>4, <4>5, CutPath
      <4> QED
        BY <4>1, <4>2, <4>3, <4>4, <4>5, <4>6 DEF Moving
    <3>3. \A q \in S : h[q] = Cut(q, t)
      OBVIOUS
    <3> HIDE DEF S, h, e
    <3> QED
      BY <3>1, <3>2, <3>3
  <2>3. e \in Paths(t + 1) /\ e[t + 1] = r
    BY <1>0, <2>1, CutExtend
  <2>4. Weight(e, t + 1) = (Weight(p, t) ** x) ** y
    BY <1>0, <2>1, WeightExtend
  <2>5. Weight(p, t) \in Number /\ Weights(t)[p] = Weight(p, t)
    BY <2>1, WeightNumber DEF Weights
  <2>6. u[p] = Over(f, {q \in S : h[q] = p})
    OBVIOUS
  <2> HIDE DEF e
  <2>7. Over(f, On(e, t + 1)) = Weight(e, t + 1) ** z
    BY <2>3, BackwardSums
  <2> HIDE DEF u, f, S, h, x, y, z, c
  <2> QED
    BY <1>6, <2>2, <2>4, <2>5, <2>6, <2>7
<1>8. Over(u, K) = Over(Weights(t), K) ** c
  <2> HIDE DEF u, K, c
  <2> QED
    BY <1>2, <1>5, <1>7, OverTimes
<1>9. a[t][s] = Over(Weights(t), K)
  BY ForwardSums
<1>10. a[t][s] \in Number
  BY <1>2, <1>9, OverType
<1> HIDE DEF u, K, f, S, x, y, z, c
<1>11. Over(f, S) = ((a[t][s] ** x) ** y) ** z
  BY <1>4, <1>6, <1>8, <1>9, <1>10
<1> QED
  BY <1>11 DEF f, S, x, y, z

-----------------------------------------------------------------------------
(* The invariant.                                                          *)

Typed ==
    /\ ModelOK
    /\ alpha \in [Time -> Row] /\ beta \in [Time -> Row] /\ gamma \in [Time -> Row]
    /\ stale \in [Time -> Row]
    /\ xi \in [Time -> [State -> Row]]

AlphaInv == at \in {"backward", "init_gamma", "init_xi", "baum_welch"} => Forwards(alpha)

BetaInv == at \in {"init_gamma", "init_xi", "baum_welch"} => Backwards(beta, stale)

GammaInv == at \in {"init_xi", "baum_welch"} => \A t \in Time, s \in State :
    gamma[t][s] = (alpha[t][s] ** beta[t][s]) // likelihood

XiInv == at = "baum_welch" => \A t \in 0 .. T - 2, s \in State, r \in State :
    xi[t][s][r] = (alpha[t][s] ** A[s][r] ** B[r][observations[t + 1]] ** beta[t + 1][r]) // likelihood

EpochInv == Typed /\ AlphaInv /\ BetaInv /\ GammaInv /\ XiInv

LEMMA ForwardAction ==
    ASSUME ModelOK, forward
    PROVE  Forwards(alpha') /\ alpha' \in [Time -> Row]
<1> DEFINE a == CHOOSE g : Forwards(g)
<1>1. alpha' = [t \in Time |-> a[t]]
  BY DEF forward, Forwards, ForwardStep, FirstRow, NextRow
<1>2. Forwards(a)
  BY ForwardSolved
<1> HIDE DEF a
<1>3. a = [t \in Time |-> a[t]]
  BY <1>2 DEF Forwards
<1>4. alpha' = a
  BY <1>1, <1>3
<1> QED
  BY <1>2, <1>4, ForwardTyped

LEMMA BackwardAction ==
    ASSUME ModelOK, beta \in [Time -> Row], backward
    PROVE  Backwards(beta', beta) /\ beta' \in [Time -> Row]
<1> DEFINE b == CHOOSE g : Backwards(g, beta)
<1>1. beta' = [t \in Time |-> b[t]]
  BY DEF backward, Backwards, BackwardStep, PrevRow
<1>2. Backwards(b, beta)
  BY BackwardSolved
<1> HIDE DEF b
<1>3. b = [t \in Time |-> b[t]]
  BY <1>2 DEF Backwards
<1>4. beta' = b
  BY <1>1, <1>3
<1> QED
  BY <1>2, <1>4, BackwardTyped

LEMMA LikelihoodNumber ==
    ASSUME alpha \in [Time -> Row]
    PROVE  likelihood \in Number
<1>1. alpha[T - 1] \in Row
  BY Sizes
<1>2. Total(alpha[T - 1]) = Over(alpha[T - 1], State)
  BY <1>1, TotalOver DEF Row
<1>3. Over(alpha[T - 1], State) \in Number
  BY <1>1, OverType, Sizes DEF Numbers, Row
<1> QED
  BY <1>2, <1>3 DEF likelihood

LEMMA RowSum ==
    ASSUME NEW S, IsFiniteSet(S), NEW f, f = [x \in S |-> f[x]], Numbers(f, S)
    PROVE  Total(f) \in Number
  BY TotalOver, OverType

\* Every conjunct that is about parameters and observations in functions that
\* do not assign to them.
LEMMA SameModel ==
    ASSUME NEW a, NEW b, NEW old, UNCHANGED <<parameters, observations>>
    PROVE  /\ ModelOK => ModelOK'
           /\ Forwards(a) => Forwards(a)'
           /\ Backwards(b, old) => Backwards(b, old)'
<1>1. A' = A /\ B' = B /\ pi' = pi /\ observations' = observations
  BY DEF parameters
<1>2. ModelOK => ModelOK'
  BY <1>1 DEF ModelOK
<1>3. Forwards(a) => Forwards(a)'
  BY <1>1 DEF Forwards, ForwardStep, FirstRow, NextRow
<1>4. Backwards(b, old) => Backwards(b, old)'
  BY <1>1 DEF Backwards, BackwardStep, PrevRow
<1> QED
  BY <1>2, <1>3, <1>4

LEMMA TypedInit ==
    ASSUME Init
    PROVE  Typed
<1>1. ModelOK
  <2>1. 0 \in Symbol
    BY HmmAssumption DEF Symbol
  <2>2. observations \in [Time -> Symbol]
    BY <2>1 DEF Init
  <2>3. A \in [State -> StateRows] /\ B \in [State -> SymbolRows] /\ pi \in StateRows
    BY DEF Init
  <2>4. StateRows \subseteq [State -> Number] /\ SymbolRows \subseteq [Symbol -> Number]
    BY HmmAssumption
  <2> QED
    BY <2>2, <2>3, <2>4 DEF ModelOK
<1>2. Junk \subseteq Number
  BY HmmAssumption
<1>3. beta \in [Time -> Row] /\ stale = beta
  <2>1. beta \in [Time -> [State -> Junk]] /\ stale = beta
    BY DEF Init
  <2>2. [State -> Junk] \subseteq Row
    BY <1>2 DEF Row
  <2> QED
    BY <2>1, <2>2
<1>4. xi \in [Time -> [State -> Row]]
  <2>1. PICK last \in [State -> [State -> Junk]] : xi = [t \in Time |-> last]
    BY DEF Init
  <2>2. last \in [State -> Row]
    BY <1>2 DEF Row
  <2> QED
    BY <2>1, <2>2
<1>5. alpha \in [Time -> Row] /\ gamma = alpha
  <2>1. alpha = [t \in Time |-> [s \in State |-> Zero]] /\ gamma = alpha
    BY DEF Init
  <2> QED
    BY <2>1, FractionNumber DEF Row
<1> QED
  BY <1>1, <1>3, <1>4, <1>5 DEF Typed

LEMMA GammaTyped ==
    ASSUME Typed, init_gamma
    PROVE  gamma' \in [Time -> Row]
<1>1. ASSUME NEW t \in Time, NEW s \in State PROVE (alpha[t][s] ** beta[t][s]) // likelihood \in Number
  <2>1. alpha[t][s] \in Number /\ beta[t][s] \in Number
    BY DEF Typed, Row
  <2>2. alpha[t][s] ** beta[t][s] \in Number
    BY <2>1, Closed
  <2> QED
    BY <2>2, DivisionIs, LikelihoodNumber DEF Typed
<1>2. gamma' = [t \in Time |-> [s \in State |-> (alpha[t][s] ** beta[t][s]) // likelihood]]
  BY DEF init_gamma
<1> QED
  BY <1>1, <1>2 DEF Row

LEMMA XiTyped ==
    ASSUME Typed, init_xi
    PROVE  xi' \in [Time -> [State -> Row]]
<1> DEFINE x(t, s, r) == (alpha[t][s] ** A[s][r] ** B[r][observations[t + 1]] ** beta[t + 1][r]) // likelihood
<1>1. ASSUME NEW t \in Time, t # T - 1, NEW s \in State, NEW r \in State PROVE x(t, s, r) \in Number
  <2>1. t + 1 \in Time
    BY <1>1, Sizes
  <2>2. alpha[t][s] \in Number /\ beta[t + 1][r] \in Number
    BY <2>1 DEF Typed, Row
  <2>3. A[s][r] \in Number /\ B[r][observations[t + 1]] \in Number
    BY <2>1, ModelNumbers DEF Typed
  <2>4. alpha[t][s] ** A[s][r] \in Number
    BY <2>2, <2>3, Closed
  <2>5. alpha[t][s] ** A[s][r] ** B[r][observations[t + 1]] \in Number
    BY <2>3, <2>4, Closed
  <2>6. alpha[t][s] ** A[s][r] ** B[r][observations[t + 1]] ** beta[t + 1][r] \in Number
    BY <2>2, <2>5, Closed
  <2> QED
    BY <2>6, DivisionIs, LikelihoodNumber DEF Typed
<1>2. xi' = [t \in Time |-> IF t = T - 1 THEN xi[t] ELSE [s \in State |-> [r \in State |-> x(t, s, r)]]]
  BY DEF init_xi
<1>3. \A t \in Time : xi[t] \in [State -> Row]
  BY DEF Typed
<1> HIDE DEF x
<1>4. ASSUME NEW t \in Time
      PROVE  (IF t = T - 1 THEN xi[t] ELSE [s \in State |-> [r \in State |-> x(t, s, r)]]) \in [State -> Row]
  <2>1. CASE t = T - 1
    BY <1>3, <2>1
  <2>2. CASE t # T - 1
    BY <1>1, <2>2 DEF Row
  <2> QED
    BY <2>1, <2>2
<1> QED
  BY <1>2, <1>4

LEMMA ModelTyped ==
    ASSUME Typed, baum_welch
    PROVE  ModelOK'
<1> DEFINE visits(s) == Total([t \in Time |-> gamma[t][s]])
           moves(s, r) == Total([t \in Time |-> xi[t][s][r]])
           seen(o) == {t \in Time : observations[t] = o}
           sum(s, o) == Total([t \in seen(o) |-> gamma[t][s]])
<1>0. \A t \in Time, s \in State, r \in State : gamma[t][s] \in Number /\ xi[t][s][r] \in Number
  BY DEF Typed, Row
<1>1. ASSUME NEW s \in State PROVE visits(s) \in Number
  <2> DEFINE f == [t \in Time |-> gamma[t][s]]
  <2>1. Numbers(f, Time) /\ f = [t \in Time |-> f[t]]
    BY <1>0 DEF Numbers
  <2> HIDE DEF f
  <2>2. Total(f) \in Number
    BY <2>1, RowSum, Sizes
  <2> QED
    BY <2>2 DEF f
<1>2. ASSUME NEW s \in State, NEW r \in State PROVE moves(s, r) \in Number
  <2> DEFINE f == [t \in Time |-> xi[t][s][r]]
  <2>1. Numbers(f, Time) /\ f = [t \in Time |-> f[t]]
    BY <1>0 DEF Numbers
  <2> HIDE DEF f
  <2>2. Total(f) \in Number
    BY <2>1, RowSum, Sizes
  <2> QED
    BY <2>2 DEF f
<1>3. ASSUME NEW s \in State, NEW o PROVE sum(s, o) \in Number
  <2> DEFINE f == [t \in seen(o) |-> gamma[t][s]]
  <2>1. Numbers(f, seen(o)) /\ f = [t \in seen(o) |-> f[t]]
    BY <1>0 DEF Numbers
  <2>2. IsFiniteSet(seen(o))
    BY Sizes, FS_Subset
  <2> HIDE DEF f, seen
  <2>3. Total(f) \in Number
    BY <2>1, <2>2, RowSum
  <2> QED
    BY <2>3 DEF f
<1>4. PICK j \in [State -> [Symbol -> Junk]] : B' = [s \in State |-> [o \in Symbol |->
                                (IF seen(o) = {} THEN j[s][o] ELSE sum(s, o)) // visits(s)]]
  BY DEF baum_welch
<1>5. A' = [s \in State |-> [r \in State |-> moves(s, r) // visits(s)]]
  BY DEF baum_welch
<1>6. pi' = gamma[0] /\ observations' = observations
  BY DEF baum_welch
<1> HIDE DEF visits, moves, sum, seen
<1>7. pi' \in [State -> Number]
  BY <1>6, Sizes DEF Typed, Row
<1>8. A' \in [State -> [State -> Number]]
  BY <1>1, <1>2, <1>5, DivisionIs
<1>9. B' \in [State -> [Symbol -> Number]]
  <2>1. ASSUME NEW s \in State, NEW o \in Symbol
        PROVE  (IF seen(o) = {} THEN j[s][o] ELSE sum(s, o)) // visits(s) \in Number
    <3>1. (IF seen(o) = {} THEN j[s][o] ELSE sum(s, o)) \in Number
      BY <1>3, HmmAssumption
    <3> QED
      BY <1>1, <3>1, DivisionIs
  <2> QED
    BY <1>4, <2>1
<1> QED
  BY <1>6, <1>7, <1>8, <1>9 DEF Typed, ModelOK

\* Every function keeps the invariant.
LEMMA EpochInvStep ==
    ASSUME EpochInv, [Next]_vars
    PROVE  EpochInv'
<1> USE DEF EpochInv
<1>1. CASE update_observations
  <2>1. /\ UNCHANGED <<parameters, alpha, beta, gamma, xi, stale>> /\ observations' \in [Time -> Symbol]
        /\ at' = "forward"
    BY <1>1 DEF update_observations
  <2>2. Typed'
    BY <2>1 DEF Typed, ModelOK, parameters
  <2> QED
    BY <2>1, <2>2 DEF AlphaInv, BetaInv, GammaInv, XiInv
<1>2. CASE forward
  <2>1. UNCHANGED <<parameters, observations, beta, gamma, xi, stale>> /\ at' = "backward"
    BY <1>2 DEF forward
  <2>2. Forwards(alpha') /\ alpha' \in [Time -> Row]
    BY <1>2, ForwardAction DEF Typed
  <2>3. Typed'
    BY <2>1, <2>2, SameModel DEF Typed
  <2>4. A' = A /\ B' = B /\ pi' = pi /\ observations' = observations
    BY <2>1 DEF parameters
  <2>5. AlphaInv'
    BY <2>2, <2>4 DEF AlphaInv, Forwards, ForwardStep, FirstRow, NextRow
  <2> QED
    BY <2>1, <2>3, <2>5 DEF BetaInv, GammaInv, XiInv
<1>3. CASE backward
  <2>1. /\ UNCHANGED <<parameters, observations, alpha, gamma, xi>> /\ at = "backward" /\ at' = "init_gamma"
        /\ stale' = beta
    BY <1>3 DEF backward
  <2>2. Backwards(beta', beta) /\ beta' \in [Time -> Row]
    BY <1>3, BackwardAction DEF Typed
  <2>3. Typed'
    BY <2>1, <2>2, SameModel DEF Typed
  <2>4. A' = A /\ B' = B /\ pi' = pi /\ observations' = observations
    BY <2>1 DEF parameters
  <2>5. AlphaInv'
    BY <2>1, <2>4 DEF AlphaInv, Forwards, ForwardStep, FirstRow, NextRow
  <2>6. BetaInv'
    BY <2>1, <2>2, <2>4 DEF BetaInv, Backwards, BackwardStep, PrevRow
  <2> QED
    BY <2>1, <2>3, <2>5, <2>6 DEF GammaInv, XiInv
<1>4. CASE init_gamma
  <2>1. /\ UNCHANGED <<parameters, observations, alpha, beta, xi, stale>>
        /\ at = "init_gamma" /\ at' = "init_xi"
        /\ gamma' = [t \in Time |-> [s \in State |-> (alpha[t][s] ** beta[t][s]) // likelihood]]
    BY <1>4 DEF init_gamma
  <2>2. gamma' \in [Time -> Row]
    BY <1>4, GammaTyped
  <2>3. Typed'
    BY <2>1, <2>2, SameModel DEF Typed
  <2>4. A' = A /\ B' = B /\ pi' = pi /\ observations' = observations /\ likelihood' = likelihood
    BY <2>1 DEF parameters, likelihood
  <2>5. AlphaInv'
    BY <2>1, <2>4 DEF AlphaInv, Forwards, ForwardStep, FirstRow, NextRow
  <2>6. BetaInv'
    BY <2>1, <2>4 DEF BetaInv, Backwards, BackwardStep, PrevRow
  <2>7. GammaInv'
    BY <2>1, <2>4 DEF GammaInv
  <2> QED
    BY <2>1, <2>3, <2>5, <2>6, <2>7 DEF XiInv
<1>5. CASE init_xi
  <2>1. /\ UNCHANGED <<parameters, observations, alpha, beta, gamma, stale>>
        /\ at = "init_xi" /\ at' = "baum_welch"
        /\ xi' = [t \in Time |-> IF t = T - 1 THEN xi[t] ELSE
                [s \in State |-> [r \in State |->
                    (alpha[t][s] ** A[s][r] ** B[r][observations[t + 1]] ** beta[t + 1][r]) // likelihood]]]
    BY <1>5 DEF init_xi
  <2>2. xi' \in [Time -> [State -> Row]]
    BY <1>5, XiTyped
  <2>3. Typed'
    BY <2>1, <2>2, SameModel DEF Typed
  <2>4. A' = A /\ B' = B /\ pi' = pi /\ observations' = observations /\ likelihood' = likelihood
    BY <2>1 DEF parameters, likelihood
  <2>5. AlphaInv'
    BY <2>1, <2>4 DEF AlphaInv, Forwards, ForwardStep, FirstRow, NextRow
  <2>6. BetaInv'
    BY <2>1, <2>4 DEF BetaInv, Backwards, BackwardStep, PrevRow
  <2>7. GammaInv'
    BY <2>1, <2>4 DEF GammaInv
  <2>8. XiInv'
    <3>1. \A t \in 0 .. T - 2 : t \in Time /\ t # T - 1
      BY Sizes
    <3> QED
      BY <2>1, <2>4, <3>1 DEF XiInv
  <2> QED
    BY <2>3, <2>5, <2>6, <2>7, <2>8
<1>6. CASE baum_welch
  <2>1. UNCHANGED <<alpha, beta, gamma, xi, stale>> /\ at' \in {"update_observations", "viterbi"}
    BY <1>6 DEF baum_welch
  <2>2. Typed'
    BY <1>6, <2>1, ModelTyped DEF Typed
  <2> QED
    BY <2>1, <2>2 DEF AlphaInv, BetaInv, GammaInv, XiInv
<1>7. CASE viterbi
  <2>1. UNCHANGED <<parameters, observations, alpha, beta, gamma, xi, stale>> /\ at' = "done"
    BY <1>7 DEF viterbi
  <2>2. Typed'
    BY <2>1, SameModel DEF Typed
  <2> QED
    BY <2>1, <2>2 DEF AlphaInv, BetaInv, GammaInv, XiInv
<1>8. CASE UNCHANGED vars
  <2>1. A' = A /\ B' = B /\ pi' = pi /\ observations' = observations /\ at' = at
        /\ alpha' = alpha /\ beta' = beta /\ gamma' = gamma /\ xi' = xi /\ stale' = stale
    BY <1>8 DEF vars
  <2>2. Typed' /\ likelihood' = likelihood
    BY <2>1 DEF Typed, ModelOK, likelihood
  <2>3. AlphaInv'
    BY <2>1 DEF AlphaInv, Forwards, ForwardStep, FirstRow, NextRow
  <2>4. BetaInv'
    BY <2>1 DEF BetaInv, Backwards, BackwardStep, PrevRow
  <2>5. GammaInv' /\ XiInv'
    BY <2>1, <2>2 DEF GammaInv, XiInv
  <2> QED
    BY <2>2, <2>3, <2>4, <2>5
<1> QED
  BY <1>1, <1>2, <1>3, <1>4, <1>5, <1>6, <1>7, <1>8 DEF Next

LEMMA SumOverIs ==
    ASSUME ModelOK, NEW t \in Time, NEW S \in SUBSET Paths(t)
    PROVE  SumOver(S, LAMBDA q : Weight(q, t)) = Over(Weights(t), S)
<1>1. [q \in S |-> Weight(q, t)] = [q \in S |-> Weights(t)[q]]
  BY DEF Weights
<1> QED
  BY <1>1 DEF SumOver, Over

LEMMA SumOfValues ==
    ASSUME NEW S \in SUBSET Walks
    PROVE  SumOver(S, Value) = Over(Values(stale), S)
<1>1. [q \in S |-> Value(q)] = [q \in S |-> Values(stale)[q]]
  BY DEF Value, Values
<1> QED
  BY <1>1 DEF SumOver, Over

\* The invariant is enough.
LEMMA EpochSums ==
    ASSUME EpochInv
    PROVE  EpochComputesSums
<1> USE DEF EpochInv
<1>0. T - 1 \in Time /\ ModelOK
  BY Sizes DEF Typed
<1>1. Evidence = Over(Weights(T - 1), Paths(T - 1))
  BY <1>0, SumOverIs DEF Evidence
<1>2. ASSUME Forwards(alpha) PROVE likelihood = Evidence
  <2>1. alpha[T - 1] \in Row
    BY <1>0 DEF Typed
  <2>2. likelihood = Over(alpha[T - 1], State)
    BY <2>1, TotalOver DEF likelihood, Row
  <2> QED
    BY <1>0, <1>1, <1>2, <2>2, AllPaths
<1>3. ForwardSumsPaths
  <2> SUFFICES ASSUME at = "backward" PROVE
        /\ \A t \in Time, s \in State :
            alpha[t][s] = SumOver({q \in Paths(t) : q[t] = s}, LAMBDA q : Weight(q, t))
        /\ likelihood = Evidence
    BY DEF ForwardSumsPaths
  <2>1. Forwards(alpha)
    BY DEF AlphaInv
  <2>2. ASSUME NEW t \in Time, NEW s \in State
        PROVE  alpha[t][s] = SumOver({q \in Paths(t) : q[t] = s}, LAMBDA q : Weight(q, t))
    <3>1. alpha[t][s] = Over(Weights(t), Ending(t, s))
      BY <1>0, <2>1, ForwardSums
    <3>2. SumOver(Ending(t, s), LAMBDA q : Weight(q, t)) = Over(Weights(t), Ending(t, s))
      <4>1. Ending(t, s) \in SUBSET Paths(t)
        BY DEF Ending
      <4> QED
        BY <1>0, <4>1, SumOverIs
    <3> QED
      BY <3>1, <3>2 DEF Ending
  <2> QED
    BY <1>2, <2>1, <2>2
<1>4. GammaAndXiSumWalks
  <2> SUFFICES ASSUME at = "baum_welch" PROVE
        /\ \A t \in Time, s \in State :
            gamma[t][s] = SumOver({q \in Walks : t <= Last(q) /\ q[t] = s}, Value) // Evidence
        /\ \A t \in 0 .. T - 2, s \in State, r \in State :
            xi[t][s][r] =
                SumOver({q \in Walks : t < Last(q) /\ q[t] = s /\ q[t + 1] = r}, Value) // Evidence
    BY DEF GammaAndXiSumWalks
  <2>1. Forwards(alpha) /\ Backwards(beta, stale) /\ likelihood = Evidence /\ stale \in [Time -> Row]
    BY <1>2 DEF AlphaInv, BetaInv, Typed
  <2>2. ASSUME NEW t \in Time, NEW s \in State
        PROVE  gamma[t][s] = SumOver({q \in Walks : t <= Last(q) /\ q[t] = s}, Value) // Evidence
    <3>1. gamma[t][s] = (alpha[t][s] ** beta[t][s]) // Evidence
      BY <2>1 DEF GammaInv
    <3>2. Over(Values(stale), Through(t, s)) = alpha[t][s] ** beta[t][s]
      BY <1>0, <2>1, ThroughSum
    <3>3. Through(t, s) \in SUBSET Walks
      BY DEF Through
    <3>4. SumOver(Through(t, s), Value) // Evidence = gamma[t][s]
      BY <3>1, <3>2, <3>3, SumOfValues
    <3> QED
      BY <3>4 DEF Through
  <2>3. ASSUME NEW t \in 0 .. T - 2, NEW s \in State, NEW r \in State
        PROVE  xi[t][s][r] =
                  SumOver({q \in Walks : t < Last(q) /\ q[t] = s /\ q[t + 1] = r}, Value) // Evidence
    <3>0. t \in Time /\ t + 1 \in Time
      BY Sizes
    <3>1. xi[t][s][r] = (alpha[t][s] ** A[s][r] ** B[r][observations[t + 1]] ** beta[t + 1][r]) // Evidence
      BY <2>1 DEF XiInv
    <3>2. Over(Values(stale), Moving(t, s, r)) =
             alpha[t][s] ** A[s][r] ** B[r][observations[t + 1]] ** beta[t + 1][r]
      BY <1>0, <2>1, <3>0, MovingSum
    <3>3. Moving(t, s, r) \in SUBSET Walks
      BY DEF Moving
    <3>4. SumOver(Moving(t, s, r), Value) // Evidence = xi[t][s][r]
      BY <3>1, <3>2, <3>3, SumOfValues
    <3> QED
      BY <3>4 DEF Moving
  <2> QED
    BY <2>2, <2>3
<1> QED
  BY <1>3, <1>4 DEF EpochComputesSums

\* forward() computes the sums over paths it stands for, in every epoch; gamma and
\* xi, computed with a beta that backward() added to and never cleared, are the
\* sums over walks that may stop early, for every model, every memory and every
\* observation.
THEOREM EpochIsExact == Spec => []EpochComputesSums
<1>1. Init => EpochInv
  <2> SUFFICES ASSUME Init PROVE EpochInv
    OBVIOUS
  <2>1. Typed /\ at = "update_observations"
    BY TypedInit DEF Init
  <2> QED
    BY <2>1 DEF EpochInv, AlphaInv, BetaInv, GammaInv, XiInv
<1>2. EpochInv /\ [Next]_vars => EpochInv'
  BY EpochInvStep
<1>3. EpochInv => EpochComputesSums
  BY EpochSums
<1> QED
  BY <1>1, <1>2, <1>3, PTL DEF Spec

-----------------------------------------------------------------------------
(* Comparison of fractions.                                                *)

LEMMA GcdZero ==
    ASSUME NEW a \in Nat
    PROVE  gcd[0][a] = a
  BY GcdExists

LEMMA LessCross ==
    ASSUME NEW n \in Nat, NEW d \in Nat, NEW h \in Nat, NEW k \in Nat, NEW l \in Nat, NEW m \in Nat,
           n # 0, d # 0
    PROVE  h * l < k * m <=> (n * h) * (d * l) < (n * k) * (d * m)
<1> DEFINE x == h * l
           y == k * m
           z == n * d
<1>1. (n * h) * (d * l) = z * x /\ (n * k) * (d * m) = z * y
  OBVIOUS
<1>2. x \in Nat /\ y \in Nat /\ z \in Nat /\ z > 0
  OBVIOUS
<1> HIDE DEF x, y, z
<1>3. x < y <=> z * x < z * y
  BY <1>2
<1> QED
  BY <1>1, <1>3 DEF x, y

LEMMA LessPositive ==
    ASSUME NEW a \in Nat, NEW b \in Nat, NEW c \in Nat, NEW e \in Nat, b # 0, e # 0, c # 0
    PROVE  Less(<<a, b>>, <<c, e>>) <=> a * e < c * b
<1>1. PICK d, m, l \in Nat, u, v \in Int : Divided(b, e, d, m, l, u, v)
  BY DivideOut
<1>2. PICK n, h, k \in Nat, x, y \in Int : Divided(a, c, n, h, k, x, y)
  BY DivideOut
<1>3. Less(<<a, b>>, <<c, e>>) <=> h * l < k * m
  BY <1>1, <1>2 DEF Less, Divided
<1>4. n # 0 /\ d # 0 /\ a = n * h /\ c = n * k /\ b = d * m /\ e = d * l
  BY <1>1, <1>2 DEF Divided
<1>5. h * l < k * m <=> (n * h) * (d * l) < (n * k) * (d * m)
  BY <1>4, LessCross
<1> QED
  BY <1>3, <1>4, <1>5

\* Less compares the quotients.
LEMMA LessIs ==
    ASSUME NEW a \in Nat, NEW b \in Nat, NEW c \in Nat, NEW e \in Nat, b # 0, e # 0
    PROVE  Less(<<a, b>>, <<c, e>>) <=> a * e < c * b
<1>1. CASE c # 0
  BY <1>1, LessPositive
<1>2. CASE c = 0
  <2>1. gcd[c][a] = a
    BY <1>2, GcdZero
  <2>2. c * b = 0 /\ a * e \in Nat
    BY <1>2
  <2>3. Less(<<a, b>>, <<c, e>>) =>
            a # 0 /\ (a \div a) * (e \div gcd[e][b]) < (0 \div a) * (b \div gcd[e][b]) /\ gcd[e][b] # 0
    BY <1>2, <2>1 DEF Less
  <2>4. PICK d, m, l \in Nat, u, v \in Int : Divided(b, e, d, m, l, u, v)
    BY DivideOut
  <2>5. a # 0 => a \div a = 1 /\ 0 \div a = 0
    OBVIOUS
  <2>6. ~Less(<<a, b>>, <<c, e>>)
    <3>1. gcd[e][b] = d /\ e \div d = l /\ b \div d = m
      BY <2>4 DEF Divided
    <3>2. 1 * l = l /\ 0 * m = 0 /\ ~(l < 0)
      OBVIOUS
    <3> QED
      BY <2>3, <2>5, <3>1, <3>2
  <2> QED
    BY <2>2, <2>6
<1> QED
  BY <1>1, <1>2

LEMMA Between ==
    ASSUME NEW a \in Nat, NEW b \in Nat, NEW c \in Nat, NEW d \in Nat, NEW e \in Nat, NEW f \in Nat,
           b # 0, d # 0, f # 0, c * b <= a * d
    PROVE  /\ e * d <= c * f => e * b <= a * f
           /\ a * f < e * b => c * f < e * d
<1>1. (c * b) * f <= (a * d) * f
  OBVIOUS
<1>2. ASSUME e * d <= c * f PROVE e * b <= a * f
  <2>1. (e * d) * b <= (c * f) * b
    BY <1>2
  <2>2. (e * d) * b = d * (e * b) /\ (c * f) * b = (c * b) * f /\ (a * d) * f = d * (a * f)
    OBVIOUS
  <2>3. d * (e * b) <= d * (a * f)
    BY <1>1, <2>1, <2>2
  <2> DEFINE x == e * b
             y == a * f
  <2>4. x \in Nat /\ y \in Nat /\ d * x <= d * y
    BY <2>3
  <2> HIDE DEF x, y
  <2>5. x <= y
    BY <2>4
  <2> QED
    BY <2>5 DEF x, y
<1>3. ASSUME a * f < e * b PROVE c * f < e * d
  <2> DEFINE x == e * d
             y == c * f
  <2>1. x \in Nat /\ y \in Nat
    OBVIOUS
  <2>2. ~(x <= y)
    BY <1>2, <1>3
  <2> HIDE DEF x, y
  <2>3. y < x
    BY <2>1, <2>2
  <2> QED
    BY <2>3 DEF x, y
<1> QED
  BY <1>2, <1>3

\* Less is a strict order in which any two fractions are comparable.
LEMMA Ordered ==
    ASSUME NEW x \in Fraction, NEW y \in Fraction, NEW z \in Fraction, ~Less(x, y)
    PROVE  /\ ~Less(y, z) => ~Less(x, z)
           /\ Less(x, z) => Less(y, z)
           /\ ~Less(x, x) /\ ~Less(x, Zero)
<1>1. PICK a, b \in Nat : b # 0 /\ x = <<a, b>>
  BY Quotient
<1>2. PICK c, d \in Nat : d # 0 /\ y = <<c, d>>
  BY Quotient
<1>3. PICK e, f \in Nat : f # 0 /\ z = <<e, f>>
  BY Quotient
<1>4. /\ Less(x, y) <=> a * d < c * b
      /\ Less(y, z) <=> c * f < e * d
      /\ Less(x, z) <=> a * f < e * b
      /\ Less(x, x) <=> a * b < a * b
      /\ Less(x, Zero) <=> a * 1 < 0 * b
  BY <1>1, <1>2, <1>3, LessIs DEF Zero
<1>5. /\ a * d \in Nat /\ c * b \in Nat /\ c * f \in Nat /\ e * d \in Nat
      /\ a * f \in Nat /\ e * b \in Nat /\ a * b \in Nat
  OBVIOUS
<1>6. c * b <= a * d
  BY <1>4, <1>5
<1>7. /\ e * d <= c * f => e * b <= a * f
      /\ a * f < e * b => c * f < e * d
  BY <1>1, <1>2, <1>3, <1>6, Between
<1>8. ~(a * 1 < 0 * b)
  OBVIOUS
<1> QED
  BY <1>4, <1>5, <1>7, <1>8

LEMMA LessAsymmetric ==
    ASSUME NEW x \in Fraction, NEW y \in Fraction, Less(x, y)
    PROVE  ~Less(y, x)
<1>1. PICK a, b \in Nat : b # 0 /\ x = <<a, b>>
  BY Quotient
<1>2. PICK c, d \in Nat : d # 0 /\ y = <<c, d>>
  BY Quotient
<1>3. (Less(x, y) <=> a * d < c * b) /\ (Less(y, x) <=> c * b < a * d)
  BY <1>1, <1>2, LessIs
<1>4. a * d \in Nat /\ c * b \in Nat
  OBVIOUS
<1> QED
  BY <1>3, <1>4

LEMMA Irreflexive ==
    ASSUME NEW x \in Fraction
    PROVE  ~Less(x, x) /\ ~Less(x, Zero)
<1>1. ~Less(x, x)
  BY LessAsymmetric
<1> QED
  BY <1>1, Ordered

LEMMA ReducedZero ==
    ASSUME NEW n \in Nat, NEW d \in Nat, d # 0
    PROVE  Less(Zero, Reduced(n, d)) <=> n # 0
<1>1. PICK m, e \in Nat : e # 0 /\ Reduced(n, d) = <<m, e>> /\ m * d = n * e
  BY ReducedIs, FractionIs
<1>2. Less(Zero, <<m, e>>) <=> 0 * e < m * 1
  BY <1>1, LessIs DEF Zero
<1>3. m # 0 <=> n # 0
  BY <1>1
<1>4. 0 * e = 0 /\ m * 1 = m
  OBVIOUS
<1> QED
  BY <1>1, <1>2, <1>3, <1>4

\* A product is above 0 if both factors are.
LEMMA PositiveTimes ==
    ASSUME NEW x \in Fraction, NEW y \in Fraction
    PROVE  Less(Zero, x ** y) <=> Less(Zero, x) /\ Less(Zero, y)
<1>1. PICK a, b \in Nat : b # 0 /\ x = <<a, b>> /\ x = Reduced(a, b)
  BY Quotient
<1>2. PICK c, d \in Nat : d # 0 /\ y = <<c, d>> /\ y = Reduced(c, d)
  BY Quotient
<1>3. x ** y = Reduced(a * c, b * d)
  BY <1>1, <1>2, TimesIs
<1>4. b * d \in Nat /\ b * d # 0 /\ a * c \in Nat /\ (a * c # 0 <=> a # 0 /\ c # 0)
  BY <1>1, <1>2
<1>5. Less(Zero, Reduced(a * c, b * d)) <=> a * c # 0
  BY <1>4, ReducedZero
<1>6. (Less(Zero, x) <=> a # 0) /\ (Less(Zero, y) <=> c # 0)
  BY <1>1, <1>2, ReducedZero
<1> QED
  BY <1>3, <1>4, <1>5, <1>6

LEMMA ReducedLess ==
    ASSUME NEW n \in Nat, NEW d \in Nat, NEW m \in Nat, NEW e \in Nat, d # 0, e # 0,
           ~(n * e < m * d)
    PROVE  ~Less(Reduced(n, d), Reduced(m, e))
<1>1. PICK a, b \in Nat : b # 0 /\ Reduced(n, d) = <<a, b>> /\ a * d = n * b
  BY ReducedIs, FractionIs
<1>2. PICK p, q \in Nat : q # 0 /\ Reduced(m, e) = <<p, q>> /\ p * e = m * q
  BY ReducedIs, FractionIs
<1>3. Less(<<a, b>>, <<p, q>>) <=> a * q < p * b
  BY <1>1, <1>2, LessIs
<1>4. m * d <= n * e
  <2>1. m * d \in Nat /\ n * e \in Nat
    OBVIOUS
  <2> QED
    BY <2>1
<1>5. (m * d) * (b * q) <= (n * e) * (b * q)
  <2> DEFINE x == m * d
             y == n * e
             z == b * q
  <2>1. x \in Nat /\ y \in Nat /\ z \in Nat /\ x <= y
    BY <1>4
  <2> HIDE DEF x, y, z
  <2>2. x * z <= y * z
    BY <2>1
  <2> QED
    BY <2>2 DEF x, y, z
<1>6. (m * d) * (b * q) = (d * e) * (p * b)
  <2>1. (m * d) * (b * q) = (m * q) * (d * b)
    OBVIOUS
  <2>2. (p * e) * (d * b) = (d * e) * (p * b)
    OBVIOUS
  <2> QED
    BY <1>2, <2>1, <2>2
<1>7. (n * e) * (b * q) = (d * e) * (a * q)
  <2>1. (n * e) * (b * q) = (n * b) * (e * q)
    OBVIOUS
  <2>2. (a * d) * (e * q) = (d * e) * (a * q)
    OBVIOUS
  <2> QED
    BY <1>1, <2>1, <2>2
<1> DEFINE x == p * b
           y == a * q
           z == d * e
<1>8. x \in Nat /\ y \in Nat /\ z \in Nat /\ z > 0 /\ z * x <= z * y
  BY <1>5, <1>6, <1>7
<1> HIDE DEF x, y, z
<1>9. ~(y < x)
  BY <1>8
<1> QED
  BY <1>1, <1>2, <1>3, <1>9 DEF x, y

\* Multiplying keeps the order.
LEMMA TimesMonotone ==
    ASSUME NEW x \in Fraction, NEW y \in Fraction, NEW z \in Fraction, ~Less(x, y)
    PROVE  ~Less(x ** z, y ** z)
<1>1. PICK a, b \in Nat : b # 0 /\ x = <<a, b>>
  BY Quotient
<1>2. PICK c, d \in Nat : d # 0 /\ y = <<c, d>>
  BY Quotient
<1>3. PICK e, f \in Nat : f # 0 /\ z = <<e, f>>
  BY Quotient
<1>4. x ** z = Reduced(a * e, b * f) /\ y ** z = Reduced(c * e, d * f)
  BY <1>1, <1>2, <1>3, TimesIs
<1>5. ~(a * d < c * b)
  BY <1>1, <1>2, LessIs
<1>6. ~((a * e) * (d * f) < (c * e) * (b * f))
  <2>1. (a * e) * (d * f) = (a * d) * (e * f) /\ (c * e) * (b * f) = (c * b) * (e * f)
    OBVIOUS
  <2> DEFINE u == a * d
             v == c * b
             w == e * f
  <2>2. u \in Nat /\ v \in Nat /\ w \in Nat /\ ~(u < v)
    BY <1>5
  <2> HIDE DEF u, v, w
  <2>3. ~(u * w < v * w)
    BY <2>2
  <2> QED
    BY <2>1, <2>3 DEF u, v, w
<1>7. b * f \in Nat /\ b * f # 0 /\ d * f \in Nat /\ d * f # 0 /\ a * e \in Nat /\ c * e \in Nat
  BY <1>1, <1>2, <1>3, NonZero
<1> QED
  BY <1>4, <1>6, <1>7, ReducedLess

-----------------------------------------------------------------------------
(* The choices of viterbi().                                               *)

Fractions == [State -> Fraction]

\* The first of the states up to k, those with a p above 0, that no other has a
\* greater p than.
FirstBest(p, k, s) ==
    /\ s \in Positive(p) /\ s < k
    /\ \A r \in Positive(p) : r < k => IF r < s THEN Less(p[r], p[s]) ELSE ~Less(p[s], p[r])

\* There is a first state with a greatest p.
LEMMA FirstBestExists ==
    ASSUME NEW p \in Fractions, NEW k \in Nat, \E r \in Positive(p) : r < k
    PROVE  \E s \in State : FirstBest(p, k, s)
<1> DEFINE S == {n \in Nat : (\E r \in Positive(p) : r < n) => \E s \in State : FirstBest(p, n, s)}
<1>0. Positive(p) \subseteq State /\ State \subseteq Nat /\ \A s \in State : p[s] \in Fraction
  BY Sizes DEF Positive, Fractions
<1>a. \A r \in Positive(p) : r \in Nat
  BY <1>0
<1>1. 0 \in S
  <2>1. ~ \E r \in Positive(p) : r < 0
    BY <1>a
  <2> QED
    BY <2>1
<1>2. ASSUME NEW n \in Nat, n \in S PROVE n + 1 \in S
  <2> SUFFICES ASSUME \E r \in Positive(p) : r < n + 1 PROVE \E s \in State : FirstBest(p, n + 1, s)
    OBVIOUS
  <2>1. \A r \in Positive(p) : r < n + 1 <=> r < n \/ r = n
    <3>1. ASSUME NEW r \in Nat PROVE r < n + 1 <=> r < n \/ r = n
      OBVIOUS
    <3> QED
      BY <1>a, <3>1
  <2>2. CASE ~ \E r \in Positive(p) : r < n
    <3>1. n \in Positive(p) /\ n \in State /\ p[n] \in Fraction
      BY <1>0, <2>1, <2>2
    <3>2. ~Less(p[n], p[n]) /\ ~(n < n) /\ n < n + 1
      BY <3>1, Irreflexive
    <3>3. FirstBest(p, n + 1, n)
      BY <2>1, <2>2, <3>1, <3>2 DEF FirstBest
    <3> QED
      BY <3>1, <3>3
  <2>3. CASE \E r \in Positive(p) : r < n
    <3>1. PICK s \in State : FirstBest(p, n, s)
      BY <1>2, <2>3
    <3>2. s \in Positive(p) /\ s < n /\ s < n + 1 /\ p[s] \in Fraction /\ s \in Nat
      BY <1>0, <3>1 DEF FirstBest
    <3>3. CASE n \in Positive(p) /\ Less(p[s], p[n])
      <4>1. ASSUME NEW r \in Positive(p), r < n PROVE Less(p[r], p[n])
        <5>1. p[r] \in Fraction /\ p[n] \in Fraction
          BY <1>0, <3>3
        <5>2. Less(p[r], p[s]) \/ ~Less(p[s], p[r])
          BY <3>1, <4>1 DEF FirstBest
        <5>3. ~Less(p[s], p[r])
          BY <3>2, <5>1, <5>2, LessAsymmetric
        <5> QED
          BY <3>2, <3>3, <5>1, <5>3, Ordered
      <4>2. p[n] \in Fraction /\ ~Less(p[n], p[n]) /\ n < n + 1 /\ n \in State /\ ~(n < n)
        BY <1>0, <3>3, Irreflexive
      <4>3. FirstBest(p, n + 1, n)
        BY <2>1, <3>3, <4>1, <4>2 DEF FirstBest
      <4> QED
        BY <4>2, <4>3
    <3>4. CASE ~(n \in Positive(p) /\ Less(p[s], p[n]))
      <4>1. ~(n < s)
        BY <3>2
      <4>2. FirstBest(p, n + 1, s)
        BY <2>1, <3>1, <3>2, <3>4, <4>1 DEF FirstBest
      <4> QED
        BY <4>2
    <3> QED
      BY <3>3, <3>4
  <2> QED
    BY <2>2, <2>3
<1>3. Nat \subseteq S
  <2> HIDE DEF S
  <2> QED
    BY <1>1, <1>2, SetInduction
<1> QED
  BY <1>3

\* max_state is one of the states with the greatest p.
LEMMA MostLikelyIs ==
    ASSUME NEW p \in Fractions, Positive(p) # {}
    PROVE  /\ MostLikely(p) \in Positive(p)
           /\ \A r \in Positive(p) : ~Less(p[MostLikely(p)], p[r])
<1>0. /\ Positive(p) \subseteq State /\ State \subseteq Nat /\ \A s \in State : p[s] \in Fraction
      /\ N \in Nat /\ \A s \in State : s < N
  BY Sizes DEF Positive, Fractions
<1> DEFINE Best(s) == \A r \in Positive(p) : IF r < s THEN Less(p[r], p[s]) ELSE ~Less(p[s], p[r])
           m == CHOOSE s \in Positive(p) : Best(s)
<1>1. \E s \in Positive(p) : Best(s)
  <2>1. \E r \in Positive(p) : r < N
    BY <1>0
  <2>2. PICK s \in State : FirstBest(p, N, s)
    BY <1>0, <2>1, FirstBestExists
  <2> QED
    BY <1>0, <2>2 DEF FirstBest
<1>2. m \in Positive(p) /\ Best(m)
  <2> HIDE DEF Best
  <2> QED
    BY <1>1
<1>3. MostLikely(p) = m
  BY DEF MostLikely
<1> HIDE DEF m
<1>4. ASSUME NEW r \in Positive(p) PROVE ~Less(p[m], p[r])
  <2>1. Less(p[r], p[m]) \/ ~Less(p[m], p[r])
    BY <1>2
  <2> QED
    BY <1>0, <1>2, <2>1, LessAsymmetric
<1> QED
  BY <1>2, <1>3, <1>4

\* max_prob is at least every p, and p of max_state if it is above 0.
LEMMA GreatestIs ==
    ASSUME NEW p \in Fractions
    PROVE  /\ Greatest(p) \in Fraction
           /\ \A r \in State : ~Less(Greatest(p), p[r])
           /\ Less(Zero, Greatest(p)) => Greatest(p) = p[MostLikely(p)]
<1>0. Positive(p) \subseteq State /\ (\A s \in State : p[s] \in Fraction) /\ Zero \in Fraction
  BY FractionNumber DEF Positive, Fractions
<1>1. CASE Positive(p) = {}
  <2>1. Greatest(p) = Zero /\ ~Less(Zero, Zero)
    BY <1>0, <1>1, Irreflexive DEF Greatest
  <2>2. \A r \in State : ~Less(Zero, p[r])
    BY <1>1 DEF Positive
  <2> QED
    BY <1>0, <2>1, <2>2
<1>2. CASE Positive(p) # {}
  <2> DEFINE m == MostLikely(p)
  <2>1. Greatest(p) = p[m] /\ m \in Positive(p) /\ \A r \in Positive(p) : ~Less(p[m], p[r])
    BY <1>2, MostLikelyIs DEF Greatest
  <2> HIDE DEF m
  <2>2. ASSUME NEW r \in State, r \notin Positive(p) PROVE ~Less(p[m], p[r])
    <3>1. ~Less(Zero, p[r])
      BY <2>2 DEF Positive
    <3>2. p[m] \in Fraction /\ ~Less(p[m], Zero) /\ p[r] \in Fraction
      BY <1>0, <2>1, Irreflexive
    <3> QED
      BY <1>0, <3>1, <3>2, Ordered
  <2> QED
    BY <1>0, <2>1, <2>2 DEF m
<1> QED
  BY <1>1, <1>2

LargestStep(p, l, s) == IF s = 0 THEN 0 ELSE IF Less(p[l[s - 1]], p[s]) THEN s ELSE l[s - 1]

Largest(p, l) == l = [s \in State |-> LargestStep(p, l, s)]

LEMMA LargestSolved ==
    ASSUME NEW p
    PROVE  \E l : Largest(p, l)
<1> DEFINE step == [n \in Nat |-> [v \in Nat |-> IF Less(p[v], p[n + 1]) THEN n + 1 ELSE v]]
<1>1. \A n \in Nat, v \in Nat : step[n][v] \in Nat
  OBVIOUS
<1>2. PICK f : Recurs(f, Nat, 0, step)
  <2> HIDE DEF step
  <2> QED
    BY <1>1, Recursion
<1> DEFINE l == [s \in State |-> f[s]]
<1>3. ASSUME NEW s \in State PROVE f[s] = LargestStep(p, l, s)
  <2>1. CASE s = 0
    BY <1>2, <2>1 DEF LargestStep, Recurs
  <2>2. CASE s # 0
    <3>1. s - 1 \in Nat /\ (s - 1) + 1 = s /\ s - 1 \in State
      BY <2>2, Sizes
    <3>2. f[s] = step[s - 1][f[s - 1]] /\ f[s - 1] \in Nat
      <4> HIDE DEF step
      <4> QED
        BY <1>2, <3>1 DEF Recurs
    <3>3. step[s - 1][f[s - 1]] = IF Less(p[f[s - 1]], p[s]) THEN s ELSE f[s - 1]
      BY <3>1, <3>2
    <3>4. l[s - 1] = f[s - 1]
      BY <3>1
    <3> HIDE DEF l, step
    <3> QED
      BY <2>2, <3>2, <3>3, <3>4 DEF LargestStep
  <2> QED
    BY <2>1, <2>2
<1>4. l = [s \in State |-> LargestStep(p, l, s)]
  <2> SUFFICES \A s \in State : f[s] = LargestStep(p, l, s)
    OBVIOUS
  <2> HIDE DEF l
  <2> QED
    BY <1>3
<1> HIDE DEF l
<1> QED
  BY <1>4 DEF Largest

\* max_element finds a greatest element.
LEMMA MaxElementIs ==
    ASSUME NEW p \in Fractions
    PROVE  MaxElement(p) \in State /\ \A r \in State : ~Less(p[MaxElement(p)], p[r])
<1> DEFINE l == CHOOSE g : Largest(p, g)
           S == {n \in Nat : n \in State => /\ l[n] \in State
                                            /\ \A r \in State : r <= n => ~Less(p[l[n]], p[r])}
<1>0. \A s \in State : p[s] \in Fraction
  BY DEF Fractions
<1>1. MaxElement(p) = l[N - 1]
  BY DEF MaxElement, Largest, LargestStep
<1>2. Largest(p, l)
  BY LargestSolved
<1> HIDE DEF l
<1>3. \A s \in State : l[s] = LargestStep(p, l, s)
  BY <1>2 DEF Largest
<1>4. 0 \in S
  <2>1. 0 \in State /\ \A r \in State : r <= 0 => r = 0
    BY Sizes
  <2>2. l[0] = 0
    BY <1>3, <2>1 DEF LargestStep
  <2>3. ~Less(p[0], p[0])
    BY <1>0, <2>1, Irreflexive
  <2> QED
    BY <2>1, <2>2, <2>3
<1>5. ASSUME NEW n \in Nat, n \in S PROVE n + 1 \in S
  <2> SUFFICES ASSUME n + 1 \in State
               PROVE  l[n + 1] \in State /\ \A r \in State : r <= n + 1 => ~Less(p[l[n + 1]], p[r])
    OBVIOUS
  <2>1. /\ n \in State /\ (n + 1) - 1 = n /\ n + 1 # 0
        /\ \A r \in State : r <= n + 1 => r <= n \/ r = n + 1
    BY Sizes
  <2>2. l[n + 1] = IF Less(p[l[n]], p[n + 1]) THEN n + 1 ELSE l[n]
    BY <1>3, <2>1 DEF LargestStep
  <2>3. l[n] \in State /\ \A r \in State : r <= n => ~Less(p[l[n]], p[r])
    BY <1>5, <2>1
  <2>4. p[l[n]] \in Fraction /\ p[n + 1] \in Fraction
    BY <1>0, <2>3
  <2>5. CASE Less(p[l[n]], p[n + 1])
    <3>1. ~Less(p[n + 1], p[l[n]]) /\ ~Less(p[n + 1], p[n + 1])
      BY <2>4, <2>5, LessAsymmetric, Irreflexive
    <3>2. ASSUME NEW r \in State, r <= n PROVE ~Less(p[n + 1], p[r])
      <4>1. p[r] \in Fraction /\ ~Less(p[l[n]], p[r])
        BY <1>0, <2>3, <3>2
      <4> QED
        BY <2>4, <3>1, <4>1, Ordered
    <3> QED
      BY <2>1, <2>2, <2>5, <3>1, <3>2
  <2>6. CASE ~Less(p[l[n]], p[n + 1])
    BY <2>1, <2>2, <2>3, <2>6
  <2> QED
    BY <2>5, <2>6
<1>6. Nat \subseteq S
  <2> HIDE DEF S
  <2> QED
    BY <1>4, <1>5, SetInduction
<1>7. N - 1 \in State /\ N - 1 \in Nat /\ \A r \in State : r <= N - 1
  BY Sizes
<1> QED
  BY <1>1, <1>6, <1>7

-----------------------------------------------------------------------------
(* viterbi().                                                              *)

\* A model without NaN.
FineModel ==
    /\ pi \in Fractions
    /\ A \in [State -> Fractions]
    /\ B \in [State -> [Symbol -> Fraction]]
    /\ observations \in [Time -> Symbol]

LEMMA FineNumbers ==
    ASSUME FineModel, NEW s \in State, NEW r \in State, NEW t \in Time
    PROVE  pi[s] \in Fraction /\ A[s][r] \in Fraction /\ B[s][observations[t]] \in Fraction
  BY DEF FineModel, Fractions

LEMMA FineIsOK ==
    ASSUME FineModel
    PROVE  ModelOK
<1>1. Fraction \subseteq Number
  BY FractionNumber
<1> QED
  BY <1>1 DEF FineModel, ModelOK, Fractions

\* What the moves to s are worth.
Moves(prev, s) == [r \in State |-> prev[r] ** A[r][s]]

BestRow(prev, t) == [s \in State |-> Greatest(Moves(prev, s)) ** B[s][observations[t]]]

BestStep(d, t) == IF t = 0 THEN FirstRow ELSE BestRow(d[t - 1], t)

Bests(d) == d = [t \in Time |-> BestStep(d, t)]

LEMMA MovesAreFractions ==
    ASSUME FineModel, NEW prev \in Fractions, NEW s \in State
    PROVE  Moves(prev, s) \in Fractions
  BY FineNumbers, ClosedFraction, Sizes DEF Moves, Fractions

LEMMA BestRows ==
    ASSUME FineModel
    PROVE  FirstRow \in Fractions /\ \A prev \in Fractions, t \in Time : BestRow(prev, t) \in Fractions
<1>1. FirstRow \in Fractions
  BY Sizes, FineNumbers, ClosedFraction DEF FirstRow, Fractions
<1>2. ASSUME NEW prev \in Fractions, NEW t \in Time PROVE BestRow(prev, t) \in Fractions
  <2>1. ASSUME NEW s \in State PROVE Greatest(Moves(prev, s)) ** B[s][observations[t]] \in Fraction
    <3>1. Greatest(Moves(prev, s)) \in Fraction
      BY MovesAreFractions, GreatestIs
    <3> QED
      BY <3>1, FineNumbers, ClosedFraction
  <2> QED
    BY <2>1 DEF BestRow, Fractions
<1> QED
  BY <1>1, <1>2

\* The table of viterbi().
LEMMA BestSolved ==
    ASSUME FineModel
    PROVE  \E d : Bests(d)
<1> DEFINE step == [n \in Nat |-> [v \in Fractions |-> IF n + 1 \in Time THEN BestRow(v, n + 1) ELSE v]]
<1>1. \A n \in Nat, v \in Fractions : step[n][v] \in Fractions
  BY BestRows
<1>2. FirstRow \in Fractions
  BY BestRows
<1>3. PICK f : Recurs(f, Fractions, FirstRow, step)
  <2> HIDE DEF step
  <2> QED
    BY <1>1, <1>2, Recursion
<1> DEFINE d == [t \in Time |-> f[t]]
<1>4. ASSUME NEW t \in Time PROVE f[t] = BestStep(d, t)
  <2>1. CASE t = 0
    BY <1>3, <2>1 DEF BestStep, Recurs
  <2>2. CASE t # 0
    <3>1. t - 1 \in Nat /\ (t - 1) + 1 = t /\ t - 1 \in Time
      BY <2>2, TimeBefore
    <3>2. f[t] = step[t - 1][f[t - 1]] /\ f[t - 1] \in Fractions
      <4> HIDE DEF step
      <4> QED
        BY <1>3, <3>1 DEF Recurs
    <3>3. step[t - 1][f[t - 1]] = BestRow(f[t - 1], t)
      BY <3>1, <3>2
    <3>4. d[t - 1] = f[t - 1]
      BY <3>1
    <3> HIDE DEF d, step
    <3> QED
      BY <2>2, <3>2, <3>3, <3>4 DEF BestStep
  <2> QED
    BY <2>1, <2>2
<1>5. d = [t \in Time |-> BestStep(d, t)]
  <2> SUFFICES \A t \in Time : f[t] = BestStep(d, t)
    OBVIOUS
  <2> HIDE DEF d
  <2> QED
    BY <1>4
<1> HIDE DEF d
<1> QED
  BY <1>5 DEF Bests

LEMMA BestTyped ==
    ASSUME FineModel, NEW d, Bests(d)
    PROVE  /\ \A t \in Time : d[t] \in Fractions
           /\ d[0] = FirstRow
           /\ \A n \in Nat : n + 1 \in Time => n \in Time /\ d[n + 1] = BestRow(d[n], n + 1)
<1> DEFINE S == {n \in Nat : n \in Time => d[n] \in Fractions}
<1>1. \A t \in Time : d[t] = BestStep(d, t)
  BY DEF Bests
<1>2. d[0] = FirstRow
  BY <1>1, Sizes DEF BestStep
<1>3. ASSUME NEW n \in Nat, n + 1 \in Time PROVE n \in Time /\ d[n + 1] = BestRow(d[n], n + 1)
  <2>1. (n + 1) - 1 = n /\ n + 1 # 0 /\ n \in Time
    BY <1>3, Sizes
  <2> QED
    BY <1>1, <1>3, <2>1 DEF BestStep
<1>4. 0 \in S
  BY <1>2, BestRows
<1>5. ASSUME NEW n \in Nat, n \in S PROVE n + 1 \in S
  BY <1>3, <1>5, BestRows
<1>6. Nat \subseteq S
  <2> HIDE DEF S
  <2> QED
    BY <1>4, <1>5, SetInduction
<1> QED
  BY <1>2, <1>3, <1>6, Sizes

LEMMA WeightFraction ==
    ASSUME FineModel
    PROVE  \A t \in Time : \A q \in Paths(t) : Weight(q, t) \in Fraction
<1> DEFINE S == {n \in Nat : n \in Time => \A q \in Paths(n) : Weight(q, n) \in Fraction}
<1>1. 0 \in S
  <2>1. 0 \in Time /\ ModelOK
    BY Sizes, FineIsOK
  <2>2. ASSUME NEW q \in Paths(0) PROVE Weight(q, 0) \in Fraction
    <3>1. q[0] \in State /\ Weight(q, 0) = pi[q[0]] ** B[q[0]][observations[0]]
      BY <2>1, WeightFirst DEF Paths
    <3> QED
      BY <2>1, <3>1, FineNumbers, ClosedFraction
  <2> QED
    BY <2>2
<1>2. ASSUME NEW n \in Nat, n \in S PROVE n + 1 \in S
  <2> SUFFICES ASSUME n + 1 \in Time, NEW q \in Paths(n + 1) PROVE Weight(q, n + 1) \in Fraction
    OBVIOUS
  <2>1. n \in Time /\ ModelOK
    BY Sizes, FineIsOK
  <2>2. Cut(q, n) \in Paths(n) /\ q[n + 1] \in State /\ q[n] \in State
    BY CutExtend
  <2>3. Weight(q, n + 1) = (Weight(Cut(q, n), n) ** A[q[n]][q[n + 1]]) ** B[q[n + 1]][observations[n + 1]]
    BY <2>1, WeightNext
  <2>4. Weight(Cut(q, n), n) \in Fraction
    BY <1>2, <2>1, <2>2
  <2>5. A[q[n]][q[n + 1]] \in Fraction /\ B[q[n + 1]][observations[n + 1]] \in Fraction
    BY <2>2, FineNumbers
  <2> QED
    BY <2>3, <2>4, <2>5, ClosedFraction
<1>3. Nat \subseteq S
  <2> HIDE DEF S
  <2> QED
    BY <1>1, <1>2, SetInduction
<1> QED
  BY <1>3, Sizes

\* No path is worth more than the table says of the state it ends in.
LEMMA TableBounds ==
    ASSUME FineModel, NEW d, Bests(d)
    PROVE  \A t \in Time : \A q \in Paths(t) : ~Less(d[t][q[t]], Weight(q, t))
<1> DEFINE S == {n \in Nat : n \in Time => \A q \in Paths(n) : ~Less(d[n][q[n]], Weight(q, n))}
<1>0. ModelOK
  BY FineIsOK
<1>1. 0 \in S
  <2>1. 0 \in Time
    BY Sizes
  <2>2. ASSUME NEW q \in Paths(0) PROVE ~Less(d[0][q[0]], Weight(q, 0))
    <3>1. q[0] \in State /\ Weight(q, 0) = pi[q[0]] ** B[q[0]][observations[0]]
      BY <1>0, <2>1, WeightFirst DEF Paths
    <3>2. d[0][q[0]] = Weight(q, 0)
      BY <3>1, BestTyped DEF FirstRow
    <3>3. Weight(q, 0) \in Fraction
      BY <2>1, WeightFraction
    <3> QED
      BY <3>2, <3>3, Irreflexive
  <2> QED
    BY <2>2
<1>2. ASSUME NEW n \in Nat, n \in S PROVE n + 1 \in S
  <2> SUFFICES ASSUME n + 1 \in Time, NEW q \in Paths(n + 1) PROVE ~Less(d[n + 1][q[n + 1]], Weight(q, n + 1))
    OBVIOUS
  <2> DEFINE p == Cut(q, n)
             r == q[n]
             s == q[n + 1]
             a == A[r][s]
             b == B[s][observations[n + 1]]
             w == Weight(p, n)
             g == Greatest(Moves(d[n], s))
  <2>1. p \in Paths(n) /\ p[n] = r /\ r \in State /\ s \in State
    BY CutExtend
  <2>2. n \in Time /\ d[n + 1] = BestRow(d[n], n + 1) /\ d[n] \in Fractions
    BY BestTyped
  <2>3. a \in Fraction /\ b \in Fraction
    BY <2>1, FineNumbers
  <2>4. w \in Fraction
    BY <2>1, <2>2, WeightFraction
  <2>5. Weight(q, n + 1) = (w ** a) ** b
    BY <1>0, WeightNext
  <2>6. d[n + 1][s] = g ** b
    BY <2>1, <2>2 DEF BestRow
  <2>7. d[n][r] \in Fraction /\ ~Less(d[n][r], w)
    BY <1>2, <2>1, <2>2 DEF Fractions
  <2>8. Moves(d[n], s)[r] = d[n][r] ** a
    BY <2>1 DEF Moves
  <2>9. g \in Fraction /\ ~Less(g, Moves(d[n], s)[r])
    BY <2>1, <2>2, MovesAreFractions, GreatestIs
  <2> HIDE DEF p, r, s, a, b, w, g
  <2>10. d[n][r] ** a \in Fraction /\ w ** a \in Fraction
    BY <2>3, <2>4, <2>7, ClosedFraction
  <2>11. ~Less(d[n][r] ** a, w ** a)
    BY <2>3, <2>4, <2>7, TimesMonotone
  <2>12. ~Less(g, w ** a)
    BY <2>8, <2>9, <2>10, <2>11, Ordered
  <2>13. ~Less(g ** b, (w ** a) ** b)
    BY <2>3, <2>9, <2>10, <2>12, TimesMonotone
  <2> QED
    BY <2>5, <2>6, <2>13 DEF s
<1>3. Nat \subseteq S
  <2> HIDE DEF S
  <2> QED
    BY <1>1, <1>2, SetInduction
<1> QED
  BY <1>3, Sizes

\* A path of best moves up to t.
Follows(d, q, t) == \A u \in Nat : u < t => q[u] = MostLikely(Moves(d[u], q[u + 1]))

\* Such a path is worth what the table says, if that is more than nothing.
LEMMA TableReached ==
    ASSUME FineModel, NEW d, Bests(d)
    PROVE  \A t \in Time : \A q \in Paths(t) :
              Follows(d, q, t) /\ Less(Zero, d[t][q[t]]) => Weight(q, t) = d[t][q[t]]
<1> DEFINE S == {n \in Nat : n \in Time => \A q \in Paths(n) :
                    Follows(d, q, n) /\ Less(Zero, d[n][q[n]]) => Weight(q, n) = d[n][q[n]]}
<1>0. ModelOK
  BY FineIsOK
<1>1. 0 \in S
  <2>1. 0 \in Time
    BY Sizes
  <2>2. ASSUME NEW q \in Paths(0) PROVE d[0][q[0]] = Weight(q, 0)
    <3>1. q[0] \in State /\ Weight(q, 0) = pi[q[0]] ** B[q[0]][observations[0]]
      BY <1>0, <2>1, WeightFirst DEF Paths
    <3> QED
      BY <3>1, BestTyped DEF FirstRow
  <2> QED
    BY <2>2
<1>2. ASSUME NEW n \in Nat, n \in S PROVE n + 1 \in S
  <2> SUFFICES ASSUME n + 1 \in Time, NEW q \in Paths(n + 1), Follows(d, q, n + 1),
                      Less(Zero, d[n + 1][q[n + 1]])
               PROVE  Weight(q, n + 1) = d[n + 1][q[n + 1]]
    OBVIOUS
  <2> DEFINE p == Cut(q, n)
             r == q[n]
             s == q[n + 1]
             a == A[r][s]
             b == B[s][observations[n + 1]]
             m == Moves(d[n], s)
             g == Greatest(m)
  <2>1. p \in Paths(n) /\ p[n] = r /\ r \in State /\ s \in State
    BY CutExtend
  <2>2. n \in Time /\ d[n + 1] = BestRow(d[n], n + 1) /\ d[n] \in Fractions
    BY BestTyped
  <2>3. a \in Fraction /\ b \in Fraction /\ d[n][r] \in Fraction
    BY <2>1, <2>2, FineNumbers DEF Fractions
  <2>4. Weight(q, n + 1) = (Weight(p, n) ** a) ** b
    BY <1>0, WeightNext
  <2>5. d[n + 1][s] = g ** b
    BY <2>1, <2>2 DEF BestRow
  <2>6. m[r] = d[n][r] ** a
    BY <2>1 DEF Moves
  <2>7. m \in Fractions
    BY <2>1, <2>2, MovesAreFractions
  <2>8. r = MostLikely(m)
    BY DEF Follows
  <2>9. Follows(d, p, n)
    <3>1. ASSUME NEW u \in Nat, u < n PROVE p[u] = MostLikely(Moves(d[u], p[u + 1]))
      <4>1. u < n + 1 /\ u \in 0 .. n /\ u + 1 \in 0 .. n
        BY <3>1
      <4>2. p[u] = q[u] /\ p[u + 1] = q[u + 1]
        BY <4>1 DEF Cut
      <4>3. q[u] = MostLikely(Moves(d[u], q[u + 1]))
        BY <4>1 DEF Follows
      <4> HIDE DEF p
      <4> QED
        BY <4>2, <4>3
    <3> HIDE DEF p
    <3> QED
      BY <3>1 DEF Follows
  <2>10. Less(Zero, g ** b)
    BY <2>5
  <2> HIDE DEF p, r, s, a, b, m
  <2>11. g \in Fraction /\ (Less(Zero, g) => g = m[MostLikely(m)])
    BY <2>7, GreatestIs
  <2> HIDE DEF g
  <2>12. Less(Zero, g)
    BY <2>3, <2>10, <2>11, PositiveTimes
  <2>13. g = d[n][r] ** a
    BY <2>6, <2>8, <2>11, <2>12
  <2>14. Less(Zero, d[n][r])
    BY <2>3, <2>12, <2>13, PositiveTimes
  <2>15. Weight(p, n) = d[n][r]
    BY <1>2, <2>1, <2>2, <2>9, <2>14
  <2> QED
    BY <2>4, <2>5, <2>13, <2>15 DEF s
<1>3. Nat \subseteq S
  <2> HIDE DEF S
  <2> QED
    BY <1>1, <1>2, SetInduction
<1> QED
  BY <1>3, Sizes

LEMMA NotPositive ==
    ASSUME NEW x \in Fraction, ~Less(Zero, x)
    PROVE  x = Zero
<1>1. PICK a, b \in Nat : b # 0 /\ x = <<a, b>> /\ x = Reduced(a, b)
  BY Quotient
<1>2. a = 0
  BY <1>1, ReducedZero
<1>3. x[1] * Zero[2] = Zero[1] * x[2]
  BY <1>1, <1>2 DEF Zero
<1> QED
  BY <1>3, OneForm, FractionNumber

\* And if that is nothing, the path is worth nothing either.
LEMMA TracedWeighs ==
    ASSUME FineModel, NEW d, Bests(d), NEW t \in Time, NEW q \in Paths(t), Follows(d, q, t)
    PROVE  Weight(q, t) = d[t][q[t]]
<1>1. q[t] \in State
  BY Sizes DEF Paths
<1>2. Weight(q, t) \in Fraction /\ d[t][q[t]] \in Fraction
  BY <1>1, WeightFraction, BestTyped DEF Fractions
<1>3. CASE Less(Zero, d[t][q[t]])
  BY <1>3, TableReached
<1>4. CASE ~Less(Zero, d[t][q[t]])
  <2>1. d[t][q[t]] = Zero
    BY <1>2, <1>4, NotPositive
  <2>2. ~Less(Zero, Weight(q, t))
    BY <2>1, TableBounds
  <2>3. Weight(q, t) = Zero
    BY <1>2, <2>2, NotPositive
  <2> QED
    BY <2>1, <2>3
<1> QED
  BY <1>3, <1>4

\* psi, as computed from the table.
Traces(d, p) == \A t \in Nat, s \in State : t + 1 \in Time => p[t + 1][s] = MostLikely(Moves(d[t], s))

LEMMA TracedFollows ==
    ASSUME NEW d, NEW p, Traces(d, p), NEW t \in Time, NEW q \in Paths(t),
           \A u \in 0 .. t - 1 : q[u] = p[u + 1][q[u + 1]]
    PROVE  Follows(d, q, t)
<1>1. ASSUME NEW u \in Nat, u < t PROVE q[u] = MostLikely(Moves(d[u], q[u + 1]))
  <2>1. u \in 0 .. t - 1 /\ u + 1 \in 0 .. t /\ u + 1 \in Time
    BY <1>1, Sizes
  <2>2. q[u] = p[u + 1][q[u + 1]] /\ q[u + 1] \in State
    BY <2>1 DEF Paths
  <2> QED
    BY <2>1, <2>2 DEF Traces
<1> QED
  BY <1>1 DEF Follows

\* So the path that is traced back from a state with the greatest last value is
\* a most likely one.
LEMMA TracedIsBest ==
    ASSUME FineModel, NEW d, Bests(d), NEW q \in Paths(T - 1), Follows(d, q, T - 1),
           q[T - 1] = MaxElement(d[T - 1]), NEW o \in Paths(T - 1)
    PROVE  ~Less(Weight(q, T - 1), Weight(o, T - 1))
<1> DEFINE x == d[T - 1]
           m == MaxElement(x)
<1>0. T - 1 \in Time /\ x \in Fractions /\ Weight(o, T - 1) \in Fraction
  BY Sizes, BestTyped, WeightFraction
<1>1. m \in State /\ (\A r \in State : ~Less(x[m], x[r])) /\ \A r \in State : x[r] \in Fraction
  BY <1>0, MaxElementIs DEF Fractions
<1>2. o[T - 1] \in State /\ ~Less(x[o[T - 1]], Weight(o, T - 1))
  BY <1>0, TableBounds, Sizes DEF Paths
<1>3. Weight(q, T - 1) = x[m]
  BY <1>0, TracedWeighs
<1> HIDE DEF x, m
<1>4. x[m] \in Fraction /\ x[o[T - 1]] \in Fraction /\ ~Less(x[m], x[o[T - 1]])
  BY <1>1, <1>2
<1>5. ~Less(x[m], Weight(o, T - 1))
  BY <1>0, <1>2, <1>4, Ordered
<1> QED
  BY <1>3, <1>5

LEMMA FineFromTyped ==
    ASSUME ModelOK, Defined
    PROVE  FineModel
<1> USE DEF Defined
<1>0. \A x \in Number : x # NaN => x \in Fraction
  BY FractionNumber
<1>1. pi \in Fractions
  BY <1>0 DEF ModelOK, Fractions
<1>2. A \in [State -> Fractions]
  <2>1. \A s \in State : A[s] \in Fractions
    BY <1>0 DEF ModelOK, Fractions
  <2> QED
    BY <2>1 DEF ModelOK
<1>3. B \in [State -> [Symbol -> Fraction]]
  <2>1. \A s \in State : B[s] \in [Symbol -> Fraction]
    BY <1>0 DEF ModelOK
  <2> QED
    BY <2>1 DEF ModelOK
<1> QED
  BY <1>1, <1>2, <1>3 DEF ModelOK, FineModel

\* The last time that path has an element for.
End == IF T <= N THEN T - 1 ELSE N - 1

LEMMA EndIs ==
    /\ End \in Nat /\ End \in Time /\ 0 .. End \subseteq Time /\ 0 .. End \subseteq State
    /\ \A u \in Nat : u < End => u + 1 < N /\ u < N /\ u # T - 1 /\ u \in Time /\ u + 1 \in Time
  BY Sizes DEF End

\* What viterbi() leaves in delta, psi and path.
LEMMA ViterbiAction ==
    ASSUME FineModel, viterbi
    PROVE  LET best == [t \in 0 .. End |-> path'[t]]
           IN  /\ Bests(delta') /\ Traces(delta', psi')
               /\ best \in Paths(End) /\ best[End] = path'[End]
               /\ \A u \in 0 .. End - 1 : best[u] = psi'[u + 1][best[u + 1]]
               /\ T <= N => path'[T - 1] = MaxElement(delta'[T - 1])
<1> DEFINE d == CHOOSE g : Bests(g)
           delta1 == [t \in Time |-> d[t]]
           psi1 == [t \in Time |-> [s \in State |->
                    IF t = 0 THEN 0 ELSE MostLikely([r \in State |-> delta1[t - 1][r] ** A[r][s]])]]
           last == MaxElement(delta1[T - 1])
           best == [t \in 0 .. End |-> path'[t]]
<1>1. /\ delta' = delta1 /\ psi' = psi1
      /\ path' \in [State -> State]
      /\ \A t \in Time : t < N =>
            IF t = T - 1 THEN path'[t] = last
            ELSE IF t + 1 < N THEN path'[t] = psi1[t + 1][path'[t + 1]]
            ELSE path'[t] \in PathsBack(psi1, last)[t]
  BY DEF viterbi, Bests, BestStep, FirstRow, BestRow, Moves
<1>2. Bests(d)
  BY BestSolved
<1> HIDE DEF d
<1>3. delta1 = d
  BY <1>2 DEF Bests
<1>4. delta' = d
  BY <1>1, <1>3
<1>5. Traces(d, psi1)
  <2>1. ASSUME NEW t \in Nat, NEW s \in State, t + 1 \in Time
        PROVE  psi1[t + 1][s] = MostLikely(Moves(d[t], s))
    <3>1. (t + 1) - 1 = t /\ t + 1 # 0
      OBVIOUS
    <3>2. psi1[t + 1][s] = MostLikely([r \in State |-> delta1[t][r] ** A[r][s]])
      BY <2>1, <3>1
    <3> HIDE DEF psi1, delta1
    <3> QED
      BY <1>3, <3>2 DEF Moves
  <2> HIDE DEF psi1
  <2> QED
    BY <2>1 DEF Traces
<1> HIDE DEF psi1, delta1
<1>6. best \in Paths(End) /\ best[End] = path'[End]
  BY <1>1, EndIs DEF Paths
<1>7. ASSUME NEW u \in 0 .. End - 1 PROVE best[u] = psi1[u + 1][best[u + 1]]
  <2>1. u \in Nat /\ u < End /\ u \in 0 .. End /\ u + 1 \in 0 .. End
    BY EndIs
  <2>2. path'[u] = psi1[u + 1][path'[u + 1]]
    BY <1>1, <2>1, EndIs
  <2> QED
    BY <2>1, <2>2
<1>8. T <= N => path'[T - 1] = MaxElement(d[T - 1])
  BY <1>1, <1>3, Sizes
<1> HIDE DEF best
<1>9. /\ Bests(delta') /\ Traces(delta', psi')
      /\ best \in Paths(End) /\ best[End] = path'[End]
      /\ \A u \in 0 .. End - 1 : best[u] = psi'[u + 1][best[u + 1]]
      /\ T <= N => path'[T - 1] = MaxElement(delta'[T - 1])
  BY <1>1, <1>2, <1>4, <1>5, <1>6, <1>7, <1>8
<1> QED
  BY <1>9 DEF best

\* Whatever the parameters are when viterbi() is called.
LEMMA ViterbiStep ==
    ASSUME Typed, viterbi
    PROVE  ViterbiFindsBestPaths'
<1> DEFINE found == [t \in 0 .. End |-> path[t]]
           best  == [t \in 0 .. End |-> path'[t]]
<1>1. A' = A /\ B' = B /\ pi' = pi /\ observations' = observations
  BY DEF viterbi, parameters
<1>2. ASSUME Defined
      PROVE  /\ \A t \in Time : \A q \in Paths(t) :
                 /\ ~Less(delta'[t][q[t]], Weight(q, t))
                 /\ (\A u \in 0 .. t - 1 : q[u] = psi'[u + 1][q[u + 1]]) => Weight(q, t) = delta'[t][q[t]]
             /\ \A q \in Paths(T - 1) :
                 (\A u \in 0 .. (T - 1) - 1 : q[u] = psi'[u + 1][q[u + 1]])
                 /\ q[T - 1] = MaxElement(delta'[T - 1]) =>
                    \A o \in Paths(T - 1) : ~Less(Weight(q, T - 1), Weight(o, T - 1))
             /\ Weight(best, End) = delta'[End][path'[End]]
             /\ T <= N => \A o \in Paths(End) : ~Less(Weight(best, End), Weight(o, End))
  <2>1. FineModel
    BY <1>2, FineFromTyped DEF Typed
  <2>2. /\ Bests(delta') /\ Traces(delta', psi')
        /\ best \in Paths(End) /\ best[End] = path'[End]
        /\ \A u \in 0 .. End - 1 : best[u] = psi'[u + 1][best[u + 1]]
        /\ T <= N => path'[T - 1] = MaxElement(delta'[T - 1])
    BY <2>1, ViterbiAction
  <2> HIDE DEF best
  <2>3. ASSUME NEW t \in Time, NEW q \in Paths(t)
        PROVE  /\ ~Less(delta'[t][q[t]], Weight(q, t))
               /\ (\A u \in 0 .. t - 1 : q[u] = psi'[u + 1][q[u + 1]]) => Weight(q, t) = delta'[t][q[t]]
    <3>1. ~Less(delta'[t][q[t]], Weight(q, t))
      BY <2>1, <2>2, TableBounds
    <3>2. ASSUME \A u \in 0 .. t - 1 : q[u] = psi'[u + 1][q[u + 1]] PROVE Weight(q, t) = delta'[t][q[t]]
      <4>1. Follows(delta', q, t)
        BY <2>2, <3>2, TracedFollows
      <4> QED
        BY <2>1, <2>2, <4>1, TracedWeighs
    <3> QED
      BY <3>1, <3>2
  <2>4. Follows(delta', best, End)
    BY <2>2, EndIs, TracedFollows
  <2>5. Weight(best, End) = delta'[End][path'[End]]
    BY <2>1, <2>2, <2>4, EndIs, TracedWeighs
  <2>6. ASSUME T <= N, NEW o \in Paths(End) PROVE ~Less(Weight(best, End), Weight(o, End))
    <3>1. End = T - 1
      BY <2>6 DEF End
    <3> QED
      BY <2>1, <2>2, <2>4, <2>6, <3>1, TracedIsBest
  <2>7. ASSUME NEW q \in Paths(T - 1), \A u \in 0 .. (T - 1) - 1 : q[u] = psi'[u + 1][q[u + 1]],
               q[T - 1] = MaxElement(delta'[T - 1]), NEW o \in Paths(T - 1)
        PROVE  ~Less(Weight(q, T - 1), Weight(o, T - 1))
    <3>1. T - 1 \in Time
      BY Sizes
    <3>2. Follows(delta', q, T - 1)
      BY <2>2, <2>7, <3>1, TracedFollows
    <3> QED
      BY <2>1, <2>2, <2>7, <3>2, TracedIsBest
  <2> QED
    BY <2>3, <2>5, <2>6, <2>7
<1>3. ASSUME NEW q, NEW n PROVE Weight(q, n)' = Weight(q, n)
  BY <1>1 DEF Weight
<1>4. Defined' => Defined
  BY <1>1 DEF Defined
<1>5. ASSUME NEW q, NEW n PROVE Traced(q, n)' <=> \A u \in 0 .. n - 1 : q[u] = psi'[u + 1][q[u + 1]]
  BY DEF Traced
<1>6. Weight(found, End)' = Weight(best, End)
  BY <1>1 DEF Weight
<1>7. IsMostLikely(found, End)' <=> \A o \in Paths(End) : ~Less(Weight(found, End)', Weight(o, End)')
  BY DEF IsMostLikely
<1>8. ViterbiFindsBestPaths' <=>
        (at' = "done" /\ Defined' =>
             /\ \A t \in Time : \A q \in Paths(t) :
                 /\ ~Less(delta'[t][q[t]], Weight(q, t)')
                 /\ Traced(q, t)' => Weight(q, t)' = delta'[t][q[t]]
             /\ \A q \in Paths(T - 1) :
                 Traced(q, T - 1)' /\ q[T - 1] = MaxElement(delta'[T - 1]) => IsMostLikely(q, T - 1)'
             /\ Weight(found, End)' = delta'[End][path'[End]]
             /\ T <= N => IsMostLikely(found, End)')
  BY DEF ViterbiFindsBestPaths, End
<1> HIDE DEF best, found
<1>9. ASSUME Defined'
      PROVE  /\ \A t \in Time : \A q \in Paths(t) :
                 /\ ~Less(delta'[t][q[t]], Weight(q, t)')
                 /\ Traced(q, t)' => Weight(q, t)' = delta'[t][q[t]]
             /\ \A q \in Paths(T - 1) :
                 Traced(q, T - 1)' /\ q[T - 1] = MaxElement(delta'[T - 1]) => IsMostLikely(q, T - 1)'
             /\ Weight(found, End)' = delta'[End][path'[End]]
             /\ T <= N => IsMostLikely(found, End)'
  <2>1. Defined
    BY <1>4, <1>9
  <2>2. ASSUME NEW t \in Time, NEW q \in Paths(t)
        PROVE  /\ ~Less(delta'[t][q[t]], Weight(q, t)')
               /\ Traced(q, t)' => Weight(q, t)' = delta'[t][q[t]]
    BY <1>2, <1>3, <1>5, <2>1
  <2>3. Weight(found, End)' = delta'[End][path'[End]]
    BY <1>2, <1>6, <2>1
  <2>4. T <= N => IsMostLikely(found, End)'
    BY <1>2, <1>3, <1>6, <1>7, <2>1
  <2>5. ASSUME NEW q \in Paths(T - 1), Traced(q, T - 1)', q[T - 1] = MaxElement(delta'[T - 1])
        PROVE  IsMostLikely(q, T - 1)'
    <3>1. \A o \in Paths(T - 1) : ~Less(Weight(q, T - 1), Weight(o, T - 1))
      BY <1>2, <1>5, <2>1, <2>5
    <3> QED
      BY <1>3, <3>1 DEF IsMostLikely
  <2> QED
    BY <2>2, <2>3, <2>4, <2>5
<1> QED
  BY <1>8, <1>9

\* viterbi(), for every number of states and of observations: no path to a state is
\* more likely than delta says, one that psi traces back is as likely, and from the
\* greatest last delta a most likely one.  path is traced back as far as its array
\* goes, and with room for all of it it is a most likely path.
THEOREM ViterbiIsOptimal == Spec => []ViterbiFindsBestPaths
<1> DEFINE Inv == EpochInv /\ ViterbiFindsBestPaths
<1>1. Init => Inv
  <2> SUFFICES ASSUME Init PROVE Inv
    OBVIOUS
  <2>1. Typed /\ at = "update_observations"
    BY TypedInit DEF Init
  <2> QED
    BY <2>1 DEF EpochInv, AlphaInv, BetaInv, GammaInv, XiInv, ViterbiFindsBestPaths
<1>2. Inv /\ [Next]_vars => Inv'
  <2> SUFFICES ASSUME EpochInv, ViterbiFindsBestPaths, [Next]_vars PROVE Inv'
    OBVIOUS
  <2>1. EpochInv'
    BY EpochInvStep
  <2>2. CASE viterbi
    BY <2>1, <2>2, ViterbiStep DEF EpochInv
  <2>3. CASE update_observations \/ forward \/ backward \/ init_gamma \/ init_xi \/ baum_welch
    <3>1. at' # "done"
      BY <2>3 DEF update_observations, forward, backward, init_gamma, init_xi, baum_welch
    <3> QED
      BY <2>1, <3>1 DEF ViterbiFindsBestPaths
  <2>4. CASE UNCHANGED vars
    <3>1. /\ A' = A /\ B' = B /\ pi' = pi /\ observations' = observations
          /\ delta' = delta /\ psi' = psi /\ path' = path /\ at' = at
      BY <2>4 DEF vars, parameters
    <3>2. ASSUME NEW q, NEW n PROVE Weight(q, n)' = Weight(q, n)
      BY <3>1 DEF Weight
    <3>3. Defined' = Defined
      BY <3>1 DEF Defined
    <3>4. ASSUME NEW q, NEW n PROVE Traced(q, n)' = Traced(q, n)
      BY <3>1 DEF Traced
    <3>5. ASSUME NEW q, NEW n PROVE IsMostLikely(q, n)' = IsMostLikely(q, n)
      BY <3>2 DEF IsMostLikely
    <3>6. ViterbiFindsBestPaths' = ViterbiFindsBestPaths
      BY <3>1, <3>2, <3>3, <3>4, <3>5 DEF ViterbiFindsBestPaths
    <3> QED
      BY <2>1, <3>6
  <2> QED
    BY <2>2, <2>3, <2>4 DEF Next
<1> QED
  BY <1>1, <1>2, PTL DEF Spec

-----------------------------------------------------------------------------
(* The training loop.                                                      *)

USE DEF Line

\* The type invariant with what SMT needs of the file.
TrainTyped == TrainTypeOK /\ file \in Seq(Line) /\ EpochSize \in Nat \ {0}

LEMMA FilesAreSequences == file \in Files => file \in Seq(Line)
BY TrainingAssumption

\* Every variable of the training loop keeps its type, whatever the file holds.
THEOREM TrainingTyped == TrainSpec => []TrainTypeOK
<1>1. TrainInit => TrainTypeOK
  <2>1. SUFFICES ASSUME TrainInit PROVE TrainTypeOK
    OBVIOUS
  <2>2. file \in Seq(Line)
    BY <2>1, FilesAreSequences DEF TrainInit
  <2>3. /\ lines \in Seq(Nat) /\ Len(lines) = 0
        /\ trained \in Seq(Seq(Nat))
    BY <2>1 DEF TrainInit
  <2>4. pos = 0 /\ Len(file) \in Nat /\ epoch_num = 0 /\ EpochSize \in Nat
    BY <2>1, <2>2, TrainingAssumption DEF TrainInit
  <2>5. file \in Files /\ end_of_file \in BOOLEAN /\ place = "while"
    BY <2>1 DEF TrainInit
  <2> QED
    BY <2>3, <2>4, <2>5 DEF TrainTypeOK
<1>2. TrainTypeOK /\ [TrainNext]_train_vars => TrainTypeOK'
  <2>1. SUFFICES ASSUME TrainTypeOK, [TrainNext]_train_vars PROVE TrainTypeOK'
    OBVIOUS
  <2>2. file \in Seq(Line) /\ EpochSize \in Nat \ {0}
    BY <2>1, FilesAreSequences, TrainingAssumption DEF TrainTypeOK
  <2>3. CASE BeginEpoch
    BY <2>1, <2>2, <2>3 DEF TrainTypeOK, BeginEpoch
  <2>4. CASE ReadNumber
    BY <2>1, <2>2, <2>4 DEF TrainTypeOK, ReadNumber
  <2>5. CASE ReadNothing
    BY <2>1, <2>2, <2>5 DEF TrainTypeOK, ReadNothing
  <2>6. CASE Throw
    BY <2>1, <2>2, <2>6 DEF TrainTypeOK, Throw
  <2>7. CASE Train
    BY <2>1, <2>2, <2>7 DEF TrainTypeOK, Train
  <2>8. CASE Finish
    BY <2>1, <2>2, <2>8 DEF TrainTypeOK, Finish
  <2>9. CASE UNCHANGED train_vars
    BY <2>1, <2>9 DEF TrainTypeOK, train_vars
  <2> QED
    BY <2>1, <2>3, <2>4, <2>5, <2>6, <2>7, <2>8, <2>9 DEF TrainNext
<1> QED
  BY <1>1, <1>2, PTL DEF TrainSpec

-----------------------------------------------------------------------------
(* Lines and observations.                                                 *)

\* The observations of the epochs that are over.
Base == Len(trained) * EpochSize

\* As long as lines are left, one has been taken for every observation.
Pace == pos <= Base + Len(lines) /\ (pos = Base + Len(lines) \/ pos = Len(file))

ReadInv ==
    place = "read" =>
        /\ Pace
        /\ \A i \in 1 .. Len(lines) : lines[i] \in {0, Base + i}
        /\ (\E i \in 1 .. Len(lines) : lines[i] = 0) => end_of_file

WhileInv == place = "while" => pos <= Base /\ (pos = Base \/ pos = Len(file))

LineInv == LinesInOrder /\ ReadInv /\ WhileInv

\* No epoch that is over was padded, while another one is read or may be.
Clean == \A e \in 1 .. Len(trained) : \A i \in 1 .. EpochSize : trained[e][i] # 0

PadInv == PaddingOnlyInLastEpoch /\ (place \in {"read", "terminated"} \/ ~end_of_file => Clean)

LEMMA NextBase ==
    ASSUME NEW n \in Nat, NEW t \in Nat
    PROVE  (n + 1) * t = n * t + t /\ n * t \in Nat
BY SMT

LEMMA Appending ==
    ASSUME NEW s \in Seq(Nat), NEW x \in Nat
    PROVE  /\ Len(s) \in Nat /\ Len(Append(s, x)) = Len(s) + 1
           /\ \A i \in 1 .. Len(s) + 1 : \/ i \in 1 .. Len(s) /\ Append(s, x)[i] = s[i]
                                         \/ i = Len(s) + 1 /\ Append(s, x)[i] = x
  OBVIOUS

LEMMA LineInductive == TrainTyped /\ LineInv /\ [TrainNext]_train_vars => LineInv'
<1>1. SUFFICES ASSUME TrainTyped, LineInv, [TrainNext]_train_vars PROVE LineInv'
  OBVIOUS
<1> USE <1>1 DEF TrainTyped, TrainTypeOK
<1>2. Base \in Nat /\ Len(lines) \in Nat /\ Len(file) \in Nat /\ pos \in Nat /\ Len(trained) \in Nat
  BY NextBase DEF Base
<1>3. CASE BeginEpoch
  <2>1. Base' = Base /\ lines' = <<>> /\ pos' = pos /\ file' = file /\ trained' = trained
    BY <1>3 DEF BeginEpoch, Base
  <2>2. pos <= Base /\ (pos = Base \/ pos = Len(file)) /\ place' = "read"
    BY <1>3 DEF BeginEpoch, LineInv, WhileInv
  <2> QED
    BY <1>2, <2>1, <2>2 DEF LineInv, WhileInv, ReadInv, Pace, LinesInOrder
<1>4. CASE ReadNumber
  <2>1. Base' = Base /\ file' = file /\ trained' = trained /\ place' = "read" /\ end_of_file' = end_of_file
    BY <1>4 DEF ReadNumber, Base
  <2>2. pos = Base + Len(lines) /\ pos' = pos + 1
    BY <1>2, <1>4 DEF ReadNumber, LineInv, ReadInv, Pace
  <2>3. lines' = Append(lines, Base + Len(lines) + 1)
    BY <1>4, <2>2 DEF ReadNumber
  <2>4. /\ \A i \in 1 .. Len(lines) : lines[i] \in {0, Base + i}
        /\ (\E i \in 1 .. Len(lines) : lines[i] = 0) => end_of_file
    BY <1>4 DEF ReadNumber, LineInv, ReadInv
  <2>5. Len(lines') = Len(lines) + 1
    BY <2>3
  <2>6. \A i \in 1 .. Len(lines') :
            \/ i \in 1 .. Len(lines) /\ lines'[i] = lines[i]
            \/ i = Len(lines) + 1 /\ lines'[i] = Base + i
    <3>1. lines \in Seq(Nat) /\ Base + Len(lines) + 1 \in Nat
      BY <1>2
    <3>2. \A i \in 1 .. Len(lines) + 1 :
            \/ i \in 1 .. Len(lines) /\ lines'[i] = lines[i]
            \/ i = Len(lines) + 1 /\ lines'[i] = Base + Len(lines) + 1
      BY <2>3, <3>1, Appending
    <3>3. \A i \in 1 .. Len(lines') : i \in 1 .. Len(lines) + 1
      BY <2>5
    <3>4. ASSUME NEW i, i = Len(lines) + 1 PROVE Base + Len(lines) + 1 = Base + i
      BY <1>2, <3>4
    <3> QED
      BY <3>2, <3>3, <3>4
  <2>7. \A i \in 1 .. Len(lines') : lines'[i] \in {0, Base + i}
    BY <2>4, <2>6
  <2>8. ASSUME NEW i \in 1 .. Len(lines'), lines'[i] = 0 PROVE end_of_file
    <3>1. i \in 1 .. Len(lines) /\ lines[i] = 0
      BY <1>2, <2>5, <2>6, <2>8
    <3> QED
      BY <2>4, <3>1
  <2> QED
    BY <1>2, <2>1, <2>2, <2>5, <2>7, <2>8 DEF LineInv, WhileInv, ReadInv, Pace, LinesInOrder
<1>5. CASE ReadNothing
  <2>1. Base' = Base /\ file' = file /\ trained' = trained /\ place' = "read" /\ end_of_file'
    BY <1>5 DEF ReadNothing, Base
  <2>2. Pace /\ pos' = (IF pos < Len(file) THEN pos + 1 ELSE pos)
    BY <1>5 DEF ReadNothing, LineInv, ReadInv
  <2>3. lines' = Append(lines, 0)
    BY <1>5 DEF ReadNothing
  <2>4. \A i \in 1 .. Len(lines) : lines[i] \in {0, Base + i}
    BY <1>5 DEF ReadNothing, LineInv, ReadInv
  <2>5. Len(lines') = Len(lines) + 1
    BY <2>3
  <2>6. \A i \in 1 .. Len(lines') : lines'[i] \in {0, Base + i}
    <3>1. lines \in Seq(Nat) /\ 0 \in Nat
      OBVIOUS
    <3>2. \A i \in 1 .. Len(lines') :
            \/ i \in 1 .. Len(lines) /\ lines'[i] = lines[i]
            \/ lines'[i] = 0
      BY <2>3, <3>1, Appending
    <3> QED
      BY <2>4, <3>2
  <2>7. pos' <= Base + Len(lines') /\ (pos' = Base + Len(lines') \/ pos' = Len(file))
    BY <1>2, <2>2, <2>5 DEF Pace
  <2> QED
    BY <1>2, <2>1, <2>6, <2>7 DEF LineInv, WhileInv, ReadInv, Pace, LinesInOrder
<1>6. CASE Throw
  BY <1>6 DEF Throw, LineInv, LinesInOrder, ReadInv, WhileInv
<1>7. CASE Train
  <2>1. /\ trained' = Append(trained, lines) /\ pos' = pos /\ file' = file /\ place' = "while"
        /\ Len(lines) = EpochSize
    BY <1>7 DEF Train
  <2>2. Len(trained') = Len(trained) + 1
    BY <2>1
  <2>3. Base' = Base + EpochSize
    BY <2>2, NextBase DEF Base
  <2>4. Pace /\ \A i \in 1 .. EpochSize : lines[i] \in {0, Base + i}
    BY <1>7 DEF Train, LineInv, ReadInv
  <2>5. ASSUME NEW e \in 1 .. Len(trained'), NEW i \in 1 .. EpochSize
        PROVE  trained'[e][i] \in {0, (e - 1) * EpochSize + i}
    <3>1. CASE e = Len(trained) + 1
      <4>1. e - 1 = Len(trained) /\ trained'[e] = lines
        BY <2>1, <2>2, <3>1
      <4> QED
        BY <2>4, <4>1 DEF Base
    <3>2. CASE e # Len(trained) + 1
      <4>1. e \in 1 .. Len(trained) /\ trained'[e] = trained[e]
        BY <2>1, <2>2, <2>5, <3>2
      <4> QED
        BY <2>5, <4>1 DEF LineInv, LinesInOrder
    <3> QED
      BY <3>1, <3>2
  <2>6. LinesInOrder'
    BY <2>5 DEF LinesInOrder
  <2>7. WhileInv'
    BY <1>2, <2>1, <2>3, <2>4 DEF WhileInv, Pace
  <2> QED
    BY <2>1, <2>6, <2>7 DEF LineInv, ReadInv
<1>8. CASE Finish
  BY <1>8 DEF Finish, LineInv, LinesInOrder, ReadInv, WhileInv
<1>9. CASE UNCHANGED train_vars
  BY <1>9 DEF train_vars, LineInv, LinesInOrder, ReadInv, WhileInv, Base, Pace
<1> QED
  BY <1>3, <1>4, <1>5, <1>6, <1>7, <1>8, <1>9 DEF TrainNext

LEMMA TrainTypedAlways == TrainSpec => []TrainTyped
<1>1. TrainTypeOK => TrainTyped
  BY FilesAreSequences, TrainingAssumption DEF TrainTypeOK, TrainTyped
<1> QED
  BY <1>1, TrainingTyped, PTL

\* Lines are used once and in their order over all epochs, for every file.
THEOREM LinesAreInOrder == TrainSpec => []LinesInOrder
<1>1. TrainInit => LineInv
  BY TrainingAssumption DEF TrainInit, LineInv, LinesInOrder, ReadInv, WhileInv, Base
<1>2. LineInv => LinesInOrder
  BY DEF LineInv
<1> QED
  BY <1>1, <1>2, LineInductive, TrainTypedAlways, PTL DEF TrainSpec

LEMMA PadInductive == TrainTyped /\ LineInv /\ PadInv /\ [TrainNext]_train_vars => PadInv'
<1>1. SUFFICES ASSUME TrainTyped, LineInv, PadInv, [TrainNext]_train_vars PROVE PadInv'
  OBVIOUS
<1> USE <1>1 DEF TrainTyped, TrainTypeOK
<1>2. ASSUME trained' = trained, place \in {"read", "terminated"} \/ ~end_of_file, place' \in {"read", "terminated"}
      PROVE  PadInv'
  BY <1>2 DEF PadInv, PaddingOnlyInLastEpoch, Clean
<1>3. CASE BeginEpoch
  BY <1>2, <1>3 DEF BeginEpoch
<1>4. CASE ReadNumber
  BY <1>2, <1>4 DEF ReadNumber
<1>5. CASE ReadNothing
  BY <1>2, <1>5 DEF ReadNothing
<1>6. CASE Throw
  BY <1>2, <1>6 DEF Throw
<1>7. CASE Train
  <2>1. /\ trained' = Append(trained, lines) /\ place' = "while" /\ end_of_file' = end_of_file
        /\ Len(lines) = EpochSize
    BY <1>7 DEF Train
  <2>2. Clean /\ ((\E i \in 1 .. EpochSize : lines[i] = 0) => end_of_file)
    BY <1>7, <2>1 DEF Train, PadInv, LineInv, ReadInv
  <2>3. \A e \in 1 .. Len(trained') : \/ e = Len(trained') /\ trained'[e] = lines
                                      \/ e \in 1 .. Len(trained) /\ trained'[e] = trained[e]
    BY <2>1
  <2>4. PaddingOnlyInLastEpoch'
    BY <2>1, <2>2, <2>3 DEF PaddingOnlyInLastEpoch, Clean
  <2>5. ~end_of_file => Clean'
    BY <2>2, <2>3 DEF Clean
  <2> QED
    BY <2>1, <2>4, <2>5 DEF PadInv
<1>8. CASE Finish
  BY <1>8 DEF Finish, PadInv, PaddingOnlyInLastEpoch, Clean
<1>9. CASE UNCHANGED train_vars
  BY <1>9 DEF train_vars, PadInv, PaddingOnlyInLastEpoch, Clean
<1> QED
  BY <1>3, <1>4, <1>5, <1>6, <1>7, <1>8, <1>9 DEF TrainNext

\* No epoch is trained after one that was padded, for every file.
THEOREM PaddingEndsTraining == TrainSpec => []PaddingOnlyInLastEpoch
<1>1. TrainInit => LineInv /\ PadInv
  BY TrainingAssumption
  DEF TrainInit, LineInv, LinesInOrder, ReadInv, WhileInv, Base, PadInv, PaddingOnlyInLastEpoch, Clean
<1>2. PadInv => PaddingOnlyInLastEpoch
  BY DEF PadInv
<1> QED
  BY <1>1, <1>2, LineInductive, PadInductive, TrainTypedAlways, PTL DEF TrainSpec

-----------------------------------------------------------------------------
(* The number of epochs.                                                   *)

AllNumbers == \A n \in 1 .. Len(file) : file[n] = "number"

\* Of a file of numbers a line is taken for every observation until the first
\* padding; after it the epoch that is read, or was read last, holds the end.
CountInv ==
    AllNumbers =>
        /\ place = "while" /\ ~end_of_file => pos = Base
        /\ place = "read" /\ ~end_of_file => pos = Base + Len(lines)
        /\ place = "read" /\ end_of_file => Base <= Len(file) /\ Len(file) < Base + Len(lines)
        /\ place \in {"while", "done"} /\ end_of_file => Base - EpochSize <= Len(file) /\ Len(file) < Base
        /\ place = "done" => end_of_file

LEMMA QuotientIs ==
    ASSUME NEW n \in Int, NEW t \in Int, t > 0, NEW d \in Int, d * t <= n /\ n < (d + 1) * t
    PROVE  n \div t = d
BY Z3

LEMMA CountInductive == TrainTyped /\ CountInv /\ [TrainNext]_train_vars => CountInv'
<1>1. SUFFICES ASSUME TrainTyped, CountInv, [TrainNext]_train_vars, AllNumbers' PROVE CountInv'
  BY DEF CountInv
<1> USE <1>1 DEF TrainTyped, TrainTypeOK
<1>2. Base \in Nat /\ Len(lines) \in Nat /\ Len(file) \in Nat /\ pos \in Nat /\ Len(trained) \in Nat
  BY NextBase DEF Base
<1>3. file' = file /\ AllNumbers
  BY DEF AllNumbers, TrainNext, BeginEpoch, ReadNumber, ReadNothing, Throw, Train, Finish, train_vars
<1>3a. pos < Len(file) => file[pos + 1] = "number"
  <2>1. pos < Len(file) => pos + 1 \in 1 .. Len(file)
    BY <1>2
  <2> QED
    BY <1>3, <2>1 DEF AllNumbers
<1>4. CASE BeginEpoch
  <2>1. Base' = Base /\ Len(lines') = 0 /\ pos' = pos /\ place' = "read" /\ end_of_file' = FALSE
    BY <1>4 DEF BeginEpoch, Base
  <2>2. pos = Base
    BY <1>3, <1>4 DEF BeginEpoch, CountInv
  <2> QED
    BY <1>2, <2>1, <2>2 DEF CountInv
<1>5. CASE ReadNumber
  <2>1. /\ Base' = Base /\ Len(lines') = Len(lines) + 1 /\ pos' = pos + 1 /\ place' = "read"
        /\ end_of_file' = end_of_file /\ place = "read"
    BY <1>5 DEF ReadNumber, Base
  <2>2. /\ ~end_of_file => pos = Base + Len(lines)
        /\ end_of_file => Base <= Len(file) /\ Len(file) < Base + Len(lines)
    BY <1>3, <2>1 DEF CountInv
  <2>3. /\ ~end_of_file' => pos' = Base' + Len(lines')
        /\ end_of_file' => Base' <= Len(file') /\ Len(file') < Base' + Len(lines')
    BY <1>2, <1>3, <2>1, <2>2
  <2> QED
    BY <2>1, <2>3 DEF CountInv
<1>6. CASE ReadNothing
  <2>1. /\ Base' = Base /\ Len(lines') = Len(lines) + 1 /\ pos' = pos /\ place' = "read"
        /\ end_of_file' = TRUE /\ place = "read"
    BY <1>6, <1>3a DEF ReadNothing, Base
  <2>2. pos = Len(file)
    BY <1>2, <1>6, <1>3a DEF ReadNothing
  <2> QED
    BY <1>2, <1>3, <2>1, <2>2 DEF CountInv
<1>7. CASE Throw
  BY <1>7, <1>3a DEF Throw
<1>8. CASE Train
  <2>1. /\ Len(trained') = Len(trained) + 1 /\ pos' = pos /\ place = "read" /\ place' = "while"
        /\ end_of_file' = end_of_file /\ Len(lines) = EpochSize
    BY <1>8 DEF Train
  <2>2. Base' = Base + EpochSize
    BY <2>1, NextBase DEF Base
  <2> QED
    BY <1>2, <1>3, <2>1, <2>2 DEF CountInv
<1>9. CASE Finish
  BY <1>2, <1>3, <1>9 DEF Finish, CountInv, Base
<1>10. CASE UNCHANGED train_vars
  BY <1>3, <1>10 DEF train_vars, CountInv, Base
<1> QED
  BY <1>4, <1>5, <1>6, <1>7, <1>8, <1>9, <1>10 DEF TrainNext

\* Training a file of numbers takes one epoch more than the file fills, for
\* every length of the file and of an epoch.
THEOREM CountsEpochs == TrainSpec => []EpochsOfNumbers
<1>1. TrainInit => CountInv
  BY TrainingAssumption DEF TrainInit, CountInv, Base
<1>2. TrainTyped /\ CountInv => EpochsOfNumbers
  <2>1. SUFFICES ASSUME TrainTyped, CountInv, place = "done", AllNumbers
                 PROVE  Len(trained) = Len(file) \div EpochSize + 1
    BY DEF EpochsOfNumbers, AllNumbers
  <2>2. Len(trained) \in Nat /\ Len(file) \in Nat /\ EpochSize \in Nat \ {0} /\ Base \in Nat
    BY <2>1, NextBase DEF TrainTyped, TrainTypeOK, Base
  <2>3. Base - EpochSize <= Len(file) /\ Len(file) < Base
    BY <2>1 DEF CountInv
  <2>4. PICK d \in Int : d = Len(trained) - 1
    BY <2>2
  <2>5. Len(trained) = d + 1 /\ EpochSize \in Int /\ EpochSize > 0 /\ Len(file) \in Int
    BY <2>2, <2>4
  <2>6. Base = (d + 1) * EpochSize /\ Base - EpochSize = d * EpochSize
    BY <2>5 DEF Base
  <2>7. d * EpochSize <= Len(file) /\ Len(file) < (d + 1) * EpochSize
    BY <2>3, <2>6
  <2>8. Len(file) \div EpochSize = d
    BY <2>5, <2>7, QuotientIs
  <2> QED
    BY <2>5, <2>8
<1> QED
  BY <1>1, <1>2, CountInductive, TrainTypedAlways, PTL DEF TrainSpec

-----------------------------------------------------------------------------
(* main().                                                                 *)

LEMMA MainIsBoth == MainSpec => Spec /\ TrainSpec
<1>1. MainInit => Init /\ TrainInit
  BY DEF MainInit
<1>2. [MainNext]_main_vars => [Next]_vars /\ [TrainNext]_train_vars
  BY DEF MainNext, Read, Observe, Epoch, Decode, Next, TrainNext, main_vars
<1> QED
  BY <1>1, <1>2, PTL DEF MainSpec, Spec, TrainSpec

\* Over all epochs of main(), for any file and any model: each epoch sums what it
\* should over the memory it finds, its lines are the next ones, only the last one
\* is padded, and viterbi() decodes its observations.
THEOREM MainKeeps ==
    MainSpec => [](EpochComputesSums /\ ViterbiFindsBestPaths /\ LinesInOrder /\ PaddingOnlyInLastEpoch)
  BY MainIsBoth, EpochIsExact, ViterbiIsOptimal, LinesAreInOrder, PaddingEndsTraining, PTL
=============================================================================
