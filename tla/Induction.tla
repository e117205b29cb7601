------------------------------ MODULE Induction ------------------------------
(***************************************************************************)
(* Induction over an initial segment of the naturals, stated with sets and *)
(* functions instead of predicates and operators, so that it can be cited  *)
(* where a loop of the code is modelled by a recursive function; and what  *)
(* the proofs need of products and remainders of numbers without a value.  *)
(***************************************************************************)
EXTENDS Integers, WellFoundedInduction, TLAPS

\* A nonempty set of naturals has a least element.
LEMMA LeastNumber ==
    ASSUME NEW T, T \subseteq Nat, T # {}
    PROVE  \E x \in T : \A y \in T : x <= y
<1>1. IsWellFoundedOn(OpToRel(<, Nat), Nat)
  BY NatLessThanWellFounded, Zenon
<1>2. PICK x \in T : \A y \in T : ~(<<y, x>> \in OpToRel(<, Nat))
  BY <1>1, WFMin, Zenon
<1>3. ASSUME NEW y \in T, y < x PROVE FALSE
  <2>1. y \in Nat /\ x \in Nat
    OBVIOUS
  <2>2. <<y, x>> \in OpToRel(<, Nat)
    BY <1>3, <2>1, Zenon DEF OpToRel
  <2> QED BY <2>2, <1>2
<1> QED BY <1>3

\* A set that holds 0, and with every number below n its successor, holds all
\* numbers up to n.
LEMMA SegmentInduction ==
    ASSUME NEW S, NEW n \in Nat, 0 \in S,
           \A i \in 0 .. n - 1 : i \in S => i + 1 \in S
    PROVE  0 .. n \subseteq S
<1> DEFINE T == (0 .. n) \ S
<1>1. ASSUME T # {} PROVE FALSE
  <2>0. T \subseteq Nat
    OBVIOUS
  <2>1. PICK x \in T : \A y \in T : x <= y
    <3> HIDE DEF T
    <3> QED BY <1>1, <2>0, LeastNumber
  <2>2. x # 0 /\ x \in Nat /\ x <= n
    OBVIOUS
  <2>3. x - 1 \in 0 .. n - 1 /\ x - 1 \in S
    BY <2>1, <2>2
  <2>4. (x - 1) + 1 \in S
    BY <2>3
  <2> QED BY <2>2, <2>4
<1> QED BY <1>1

\* f starts with a and goes from one value to the next by step.
Iterates(f, n, A, a, step) ==
    /\ f \in [0 .. n -> A]
    /\ f[0] = a
    /\ \A i \in 1 .. n : f[i] = step[<<f[i - 1], i>>]

\* A set that holds 0, and every number up to n below which it holds all, holds
\* all numbers up to n.
LEMMA DescentInduction ==
    ASSUME NEW S, NEW n \in Nat, 0 \in S,
           \A i \in 1 .. n : 0 .. i - 1 \subseteq S => i \in S
    PROVE  0 .. n \subseteq S
<1> DEFINE T == {m \in 0 .. n : 0 .. m \subseteq S}
<1>1. 0 \in T
  OBVIOUS
<1>2. ASSUME NEW m \in 0 .. n - 1, m \in T PROVE m + 1 \in T
  <2>1. m + 1 \in 1 .. n /\ (m + 1) - 1 = m /\ 0 .. m \subseteq S
    BY <1>2
  <2>2. m + 1 \in S
    BY <2>1
  <2>3. 0 .. m + 1 \subseteq S
    BY <2>1, <2>2
  <2> QED BY <2>1, <2>3
<1>3. 0 .. n \subseteq T
  <2> HIDE DEF T
  <2> QED BY <1>1, <1>2, SegmentInduction
<1> QED BY <1>3

\* f starts with a and each value comes by step from the one at a smaller number.
Descends(f, n, A, a, step, down) ==
    /\ f \in [0 .. n -> A]
    /\ f[0] = a
    /\ \A i \in 1 .. n : f[i] = step[<<f[down[i]], i>>]

\* A function can be defined by its first value and such a step.
LEMMA DescentRecursion ==
    ASSUME NEW n \in Nat, NEW A, NEW a \in A, NEW step, NEW down,
           \A i \in 1 .. n : down[i] \in 0 .. i - 1,
           \A v \in A, i \in 1 .. n : step[<<v, i>>] \in A
    PROVE  \E f : Descends(f, n, A, a, step, down)
<1> DEFINE Upto(m, f) == f[0] = a /\ \A i \in 1 .. m : f[i] = step[<<f[down[i]], i>>]
           S == {m \in 0 .. n : \E f \in [0 .. m -> A] : Upto(m, f)}
<1>1. 0 \in S
  <2>1. [i \in 0 .. 0 |-> a] \in [0 .. 0 -> A] /\ Upto(0, [i \in 0 .. 0 |-> a])
    OBVIOUS
  <2>2. 0 \in 0 .. n /\ \E f \in [0 .. 0 -> A] : Upto(0, f)
    <3> HIDE DEF Upto
    <3> QED BY <2>1
  <2> QED BY <2>2
<1>2. ASSUME NEW m \in 0 .. n - 1, m \in S PROVE m + 1 \in S
  <2>1. PICK f \in [0 .. m -> A] : Upto(m, f)
    BY <1>2
  <2> DEFINE last == step[<<f[down[m + 1]], m + 1>>]
             g == [i \in 0 .. m + 1 |-> IF i = m + 1 THEN last ELSE f[i]]
  <2>2. m + 1 \in 1 .. n /\ down[m + 1] \in 0 .. m /\ f[down[m + 1]] \in A
    OBVIOUS
  <2>3. last \in A
    BY <2>2
  <2> HIDE DEF last
  <2>4. g \in [0 .. m + 1 -> A]
    BY <2>3
  <2>5. g[0] = a
    BY <2>1
  <2>6. ASSUME NEW i \in 1 .. m + 1 PROVE g[i] = step[<<g[down[i]], i>>]
    <3>1. i \in 1 .. n /\ down[i] \in 0 .. i - 1
      BY <2>2
    <3>2. down[i] \in 0 .. m + 1 /\ down[i] # m + 1 /\ g[down[i]] = f[down[i]]
      BY <3>1
    <3>3. CASE i = m + 1
      <4>1. g[i] = last
        BY <3>3
      <4>2. g[down[i]] = f[down[m + 1]] /\ i = m + 1
        BY <3>2, <3>3
      <4> HIDE DEF g
      <4> QED BY <4>1, <4>2 DEF last
    <3>4. CASE i # m + 1
      <4>1. i \in 1 .. m /\ g[i] = f[i]
        BY <3>4
      <4> QED BY <2>1, <3>2, <4>1
    <3> QED BY <3>3, <3>4
  <2>7. Upto(m + 1, g)
    BY <2>5, <2>6
  <2> HIDE DEF g, Upto
  <2> QED BY <2>4, <2>7
<1>3. n \in S
  <2>1. 0 .. n \subseteq S
    <3> HIDE DEF S
    <3> QED BY <1>1, <1>2, SegmentInduction
  <2> QED BY <2>1
<1> QED BY <1>3 DEF Descends

\* The same with a step from the number before.
LEMMA SegmentRecursion ==
    ASSUME NEW n \in Nat, NEW A, NEW a \in A, NEW step,
           \A v \in A, i \in 1 .. n : step[<<v, i>>] \in A
    PROVE  \E f : Iterates(f, n, A, a, step)
<1> DEFINE down == [i \in 1 .. n |-> i - 1]
<1>0. \A i \in 1 .. n : down[i] = i - 1
  OBVIOUS
<1>1. \A i \in 1 .. n : down[i] \in 0 .. i - 1
  OBVIOUS
<1> HIDE DEF down
<1>2. PICK f : Descends(f, n, A, a, step, down)
  BY <1>1, DescentRecursion
<1>3. \A i \in 1 .. n : f[i] = step[<<f[i - 1], i>>]
  BY <1>0, <1>2 DEF Descends
<1> QED BY <1>2, <1>3 DEF Iterates, Descends

-----------------------------------------------------------------------------
LEMMA ProductGrows ==
    ASSUME NEW a \in Nat, NEW b \in Nat, NEW n \in Nat, a <= b
    PROVE  a * n <= b * n
<1>1. PICK d \in Nat : b = a + d
  <2>1. b - a \in Nat /\ b = a + (b - a)
    OBVIOUS
  <2> QED BY <2>1
<1>2. b * n = a * n + d * n /\ d * n >= 0 /\ a * n \in Nat
  BY <1>1
<1> QED BY <1>2

LEMMA Division ==
    ASSUME NEW b \in Nat \ {0}, NEW m \in Nat
    PROVE  m \div b \in Nat /\ m % b \in 0 .. b - 1 /\ m = b * (m \div b) + (m % b)
<1> DEFINE q == m \div b
           r == m % b
<1>1. q \in Int /\ r \in 0 .. b - 1
  OBVIOUS
<1>2. r = m - b * q
  OBVIOUS
<1> HIDE DEF q, r
<1>3. b * q \in Int /\ m = b * q + r
  BY <1>1, <1>2
<1>4. ASSUME q < 0 PROVE FALSE
  <2>1. b * (-q) >= b /\ b * (-q) = -(b * q)
    BY <1>1, <1>4
  <2> QED BY <1>1, <1>3, <2>1
<1> QED BY <1>1, <1>3, <1>4 DEF q, r

LEMMA DivisionUnique ==
    ASSUME NEW b \in Nat \ {0}, NEW q \in Nat, NEW r \in 0 .. b - 1,
           NEW p \in Nat, NEW s \in 0 .. b - 1, b * q + r = b * p + s
    PROVE  q = p /\ r = s
<1>1. ASSUME NEW u \in Nat, NEW v \in Nat, NEW x \in 0 .. b - 1, NEW y \in 0 .. b - 1,
             b * u + x = b * v + y, u < v
      PROVE  FALSE
  <2>1. (u + 1) * b <= v * b
    BY <1>1, ProductGrows
  <2>2. (u + 1) * b = b * u + b /\ v * b = b * v
    OBVIOUS
  <2> QED BY <1>1, <2>1, <2>2
<1>2. ~(q < p) /\ ~(p < q)
  BY <1>1
<1> QED BY <1>2

\* Quotient and remainder of the next number.
LEMMA DivisionNext ==
    ASSUME NEW b \in Nat \ {0}, NEW m \in Nat
    PROVE  /\ (m % b) + 1 < b => (m + 1) \div b = m \div b /\ (m + 1) % b = (m % b) + 1
           /\ ~((m % b) + 1 < b) => (m + 1) \div b = m \div b + 1 /\ (m + 1) % b = 0
<1> DEFINE q == m \div b
           r == m % b
           p == (m + 1) \div b
           s == (m + 1) % b
<1>1. /\ q \in Nat /\ r \in 0 .. b - 1 /\ m = b * q + r
      /\ p \in Nat /\ s \in 0 .. b - 1 /\ m + 1 = b * p + s
  <2>1. m + 1 \in Nat
    OBVIOUS
  <2> QED BY <2>1, Division, Zenon
<1> HIDE DEF q, r, p, s
<1>2. CASE r + 1 < b
  <2>1. r + 1 \in 0 .. b - 1 /\ b * q + (r + 1) = b * p + s
    BY <1>1, <1>2
  <2>2. q = p /\ r + 1 = s
    BY <1>1, <2>1, DivisionUnique
  <2> QED BY <1>1, <1>2, <2>2 DEF q, r, p, s
<1>3. CASE ~(r + 1 < b)
  <2>1. r + 1 = b
    BY <1>1, <1>3
  <2>2. b * (q + 1) = b * q + b /\ q + 1 \in Nat /\ 0 \in 0 .. b - 1
    BY <1>1
  <2>3. b * (q + 1) + 0 = b * p + s
    BY <1>1, <2>1, <2>2
  <2>4. q + 1 = p /\ 0 = s
    BY <1>1, <2>2, <2>3, DivisionUnique
  <2> QED BY <1>1, <1>3, <2>4 DEF q, r, p, s
<1> QED BY <1>2, <1>3 DEF r

=============================================================================
