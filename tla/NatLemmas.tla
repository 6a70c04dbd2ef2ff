----------------------------- MODULE NatLemmas -----------------------------
(* Facts on numbers.  What the provers do not know of \div and % when the    *)
(* divisor is a variable: the arithmetic under probe sequences (slot numbers *)
(* modulo the capacity) and arenas (padding modulo the alignment, objects    *)
(* that fit).  And induction, stated for a set of numbers.                   *)
EXTENDS Integers, FiniteSetTheorems, TLAPS

----------------------------------------------------------------------------
\* \div and %

\* Quotient and remainder: their types, and the number they come from.
LEMMA ModDef ==
  ASSUME NEW a \in Int, NEW c \in Nat \ {0}
  PROVE  /\ a \div c \in Int
         /\ a % c \in 0 .. c - 1
         /\ a = c * (a \div c) + (a % c)
  OBVIOUS

\* One more times l.
LEMMA SuccTimes ==
  ASSUME NEW a \in Nat, NEW l \in Nat
  PROVE  (a + 1) * l = a * l + l /\ a * l \in Nat
  OBVIOUS

\* A positive multiple of c is at least c.
LEMMA MulGe ==
  ASSUME NEW d \in Int, NEW c \in Nat \ {0}, d >= 1
  PROVE  c * d >= c
  OBVIOUS

\* A number has one remainder.
LEMMA ModUnique ==
  ASSUME NEW q \in Int, NEW c \in Nat \ {0}, NEW r \in 0 .. c - 1
  PROVE  (c * q + r) % c = r
  <1> DEFINE x == c * q + r
             p == x \div c
             s == x % c
  <1>1. x \in Int OBVIOUS
  <1>2. p \in Int /\ s \in 0 .. c - 1 /\ x = c * p + s
    BY <1>1, ModDef
  <1> HIDE DEF p, s
  <1>3. c * (q - p) = s - r /\ c * (p - q) = r - s
    BY <1>2
  <1>4. ~(q - p >= 1)
    BY <1>2, <1>3, MulGe
  <1>5. ~(p - q >= 1)
    BY <1>2, <1>3, MulGe
  <1>6. p = q
    BY <1>4, <1>5, <1>2
  <1>7. s = r
    BY <1>2, <1>6
  <1> QED BY <1>7 DEF s

\* A number has one quotient.
LEMMA DivUnique ==
  ASSUME NEW q \in Int, NEW c \in Nat \ {0}, NEW r \in 0 .. c - 1
  PROVE  (c * q + r) \div c = q
  <1> DEFINE x == c * q + r
             p == x \div c
  <1>1. x \in Int
    OBVIOUS
  <1>2. p \in Int /\ x % c = r /\ x = c * p + (x % c)
    BY <1>1, ModDef, ModUnique
  <1> HIDE DEF p
  <1>3. c * (q - p) = 0 /\ c * (p - q) = 0
    BY <1>2
  <1>4. ~(q - p >= 1)
    BY <1>2, <1>3, MulGe
  <1>5. ~(p - q >= 1)
    BY <1>2, <1>3, MulGe
  <1>6. p = q
    BY <1>2, <1>4, <1>5
  <1> QED
    BY <1>6 DEF p

\* Dividing by a product is dividing by one factor after the other: the digits of a
\* number are those of its quotient and one more.
LEMMA DivDiv ==
  ASSUME NEW a \in Nat, NEW p \in Nat \ {0}, NEW b \in Nat \ {0}
  PROVE  a \div (b * p) = (a \div p) \div b
  <1> DEFINE q == a \div p
             r == a % p
             k == q \div b
             s == q % b
             c == b * p
             e == p * s + r
  <1>1. q \in Int /\ r \in 0 .. p - 1 /\ a = p * q + r
    BY ModDef
  <1>2. k \in Int /\ s \in 0 .. b - 1 /\ q = b * k + s
    BY <1>1, ModDef
  <1> HIDE DEF k, s
  <1> HIDE DEF q, r
  <1>3. c \in Nat \ {0}
    OBVIOUS
  <1>4. p * s >= 0 /\ p * (b - 1 - s) >= 0 /\ p * (b - 1 - s) = b * p - p - p * s
    <2>1. s \in Nat /\ b - 1 - s \in Nat
      BY <1>2
    <2>2. ASSUME NEW x \in Nat PROVE p * x \in Nat
      OBVIOUS
    <2>3. p * (b - 1 - s) = b * p - p - p * s
      BY <1>2
    <2> QED
      BY <2>1, <2>2, <2>3
  <1>5. e \in 0 .. c - 1
    <2>1. p * s \in Int /\ b * p \in Int
      BY <1>2
    <2> QED
      BY <1>1, <1>4, <2>1
  <1>6. a = c * k + e
    <2>1. p * (b * k + s) = (b * p) * k + p * s
      BY <1>2
    <2>2. p * q = c * k + p * s
      BY <1>2, <2>1
    <2>3. p * q \in Int /\ c * k \in Int /\ p * s \in Int
      BY <1>1, <1>2
    <2> QED
      BY <1>1, <2>2, <2>3
  <1> HIDE DEF c, e
  <1>7. a \div c = k
    BY <1>2, <1>3, <1>5, <1>6, DivUnique
  <1> QED
    BY <1>7 DEF c, k, q

\* A remainder may be taken early: a probe sequence taken modulo the capacity at
\* every step is where it would be if taken once (hash.h:44).
LEMMA ModEarly ==
  ASSUME NEW a \in Int, NEW b \in Int, NEW c \in Nat \ {0}
  PROVE  ((a % c) + b) % c = (a + b) % c
  <1> DEFINE q == a \div c
             m == a % c
             y == m + b
             p == y \div c
             r == y % c
  <1>1. q \in Int /\ m \in 0 .. c - 1 /\ a = c * q + m
    BY ModDef
  <1>2. y \in Int BY <1>1
  <1> HIDE DEF q, m, y
  <1>3. p \in Int /\ r \in 0 .. c - 1 /\ y = c * p + r
    BY <1>2, ModDef
  <1> HIDE DEF p, r
  <1>4. a + b = c * (q + p) + r
    BY <1>1, <1>3 DEF y
  <1>5. q + p \in Int BY <1>1, <1>3
  <1>6. (c * (q + p) + r) % c = r
    BY <1>3, <1>5, ModUnique
  <1>7. (a + b) % c = r BY <1>4, <1>6
  <1> QED BY <1>7 DEF r, y, m

\* Multiples of the divisor do not change a remainder: a probe sequence returns
\* to where it started.
LEMMA ModPeriod ==
  ASSUME NEW a \in Int, NEW b \in Int, NEW c \in Nat \ {0}
  PROVE  (a + c * b) % c = a % c
  <1> DEFINE q == a \div c
             r == a % c
  <1>1. q \in Int /\ r \in 0 .. c - 1 /\ a = c * q + r
    BY ModDef
  <1> HIDE DEF q, r
  <1>2. a + c * b = c * (q + b) + r
    BY <1>1
  <1>3. q + b \in Int BY <1>1
  <1>4. (c * (q + b) + r) % c = r
    BY <1>1, <1>3, ModUnique
  <1> QED BY <1>2, <1>4 DEF r

\* The capacity check in multiplied form: n objects of size c fit into x bytes
\* (buf.h:61).
LEMMA DivFits ==
  ASSUME NEW n \in Int, NEW c \in Nat \ {0}, NEW x \in Int, n <= x \div c
  PROVE  n * c <= x
  <1> DEFINE q == x \div c
             r == x % c
  <1>1. q \in Int /\ r \in 0 .. c - 1 /\ x = c * q + r BY ModDef
  <1>2. n <= q OBVIOUS
  <1> HIDE DEF q, r
  <1>3. PICK d \in Nat : q = n + d BY <1>1, <1>2
  <1>4. c * d >= 0 BY <1>3
  <1>5. c * q = n * c + c * d BY <1>1, <1>3
  <1> QED BY <1>1, <1>4, <1>5

\* Adding the padding makes an address a multiple of the alignment (buf.h:60).
LEMMA PadAligns ==
  ASSUME NEW x \in Int, NEW c \in Nat \ {0}
  PROVE  (x + ((-x) % c)) % c = 0
  <1> DEFINE q == (-x) \div c
             r == (-x) % c
  <1>0. -x \in Int OBVIOUS
  <1>1. q \in Int /\ r \in 0 .. c - 1 /\ -x = c * q + r
    BY <1>0, ModDef
  <1> HIDE DEF q, r
  <1>2. x + r = c * (-q) + 0 BY <1>1
  <1>3. (c * (-q) + 0) % c = 0 
    <2>1. -q \in Int /\ 0 \in 0 .. c - 1 BY <1>1
    <2> QED BY <2>1, ModUnique
  <1> QED BY <1>2, <1>3 DEF r

----------------------------------------------------------------------------
\* Least elements and induction

\* A set of natural numbers that is not empty has a least element: among the
\* intervals 0 .. n that end in it, one has no other inside.
LEMMA LeastElement ==
  ASSUME NEW S, S \subseteq Nat, S # {}
  PROVE  \E n \in S : \A m \in S : n <= m
  <1> DEFINE R == StrictSubsetOrdering(Nat)
             F == FiniteSubsetsOf(Nat)
             T == {0 .. n : n \in S}
  <1>1. T \subseteq F /\ T # {}
    <2>1. \A n \in S : IsFiniteSet(0 .. n) /\ 0 .. n \in SUBSET Nat
      BY FS_Interval
    <2> QED
      BY <2>1 DEF FiniteSubsetsOf
  <1>2. IsWellFoundedOn(R, F)
    BY FS_StrictSubsetOrderingWellFounded
  <1>3. PICK t \in T : \A u \in T : ~(<<u, t>> \in R)
    <2> HIDE DEF R, F, T
    <2> QED
      BY <1>1, <1>2, WFMin
  <1>4. PICK x \in S : t = 0 .. x
    BY <1>3
  <1>5. \A y \in S : x <= y
    <2> SUFFICES ASSUME NEW y \in S, ~(x <= y) PROVE FALSE
      OBVIOUS
    <2>1. y \in Nat /\ x \in Nat /\ y < x
      OBVIOUS
    <2>2. 0 .. y \subseteq 0 .. x /\ 0 .. y # 0 .. x
      <3>1. x \in 0 .. x /\ x \notin 0 .. y
        BY <2>1
      <3> QED
        BY <2>1, <3>1
    <2>3. <<0 .. y, 0 .. x>> \in R
      BY <2>1, <2>2 DEF StrictSubsetOrdering
    <2> QED
      BY <1>3, <1>4, <2>3
  <1> QED
    BY <1>5

\* Induction: what holds of 0, and of n + 1 if of n, holds of every number.
LEMMA SetInduction ==
  ASSUME NEW S, 0 \in S, \A n \in Nat : n \in S => n + 1 \in S
  PROVE  Nat \subseteq S
  <1> DEFINE Rest == Nat \ S
  <1> SUFFICES ASSUME Rest # {} PROVE FALSE
    OBVIOUS
  <1>1. PICK n \in Rest : \A m \in Rest : n <= m
    <2>1. Rest \subseteq Nat
      OBVIOUS
    <2> HIDE DEF Rest
    <2> QED
      BY <2>1, LeastElement
  <1>2. n \in Nat /\ n # 0
    OBVIOUS
  <1>3. n - 1 \in Nat /\ n - 1 \notin Rest
    BY <1>1, <1>2
  <1>4. n - 1 \in S /\ (n - 1) + 1 = n
    BY <1>2, <1>3
  <1> QED
    BY <1>3, <1>4

\* A finite set of natural numbers has an upper bound.
LEMMA FiniteBounded ==
  ASSUME NEW S, S \subseteq Nat, IsFiniteSet(S)
  PROVE  \E b \in Nat : \A x \in S : x <= b
  <1> DEFINE Bounded(T) == \E b \in Nat : \A x \in T : x <= b
             P == {n \in Nat : \A T \in SUBSET S : Cardinality(T) = n => Bounded(T)}
  <1>1. 0 \in P
    <2> SUFFICES ASSUME NEW T \in SUBSET S, Cardinality(T) = 0 PROVE Bounded(T)
      OBVIOUS
    <2>1. T = {}
      BY FS_Subset, FS_EmptySet
    <2> QED
      BY <2>1
  <1>2. ASSUME NEW n \in Nat, n \in P
        PROVE  n + 1 \in P
    <2> SUFFICES ASSUME NEW T \in SUBSET S, Cardinality(T) = n + 1 PROVE Bounded(T)
      BY <1>2
    <2>1. IsFiniteSet(T) /\ T # {}
      <3>1. IsFiniteSet(T)
        BY FS_Subset
      <3>2. n + 1 # 0
        OBVIOUS
      <3> QED
        BY <3>1, <3>2, FS_EmptySet
    <2>2. PICK x \in T : TRUE
      BY <2>1
    <2>3. Cardinality(T \ {x}) = n /\ T \ {x} \in SUBSET S
      <3>1. Cardinality(T \ {x}) = (n + 1) - 1
        BY <2>1, FS_RemoveElement
      <3> QED
        BY <3>1
    <2>4. PICK b \in Nat : \A y \in T \ {x} : y <= b
      BY <1>2, <2>3
    <2>5. x \in Nat
      OBVIOUS
    <2>6. CASE x <= b
      BY <2>4, <2>6
    <2>7. CASE ~(x <= b)
      <3>1. \A y \in T : y \in Nat /\ y <= x
        BY <2>4, <2>5, <2>7
      <3> QED
        BY <2>5, <3>1
    <2> QED
      BY <2>6, <2>7
  <1>3. Nat \subseteq P
    <2> HIDE DEF P
    <2> QED
      BY <1>1, <1>2, SetInduction
  <1>4. Cardinality(S) \in P
    BY <1>3, FS_CardinalityType
  <1> QED
    BY <1>4

\* And a greatest element, if it is not empty.
LEMMA GreatestElement ==
  ASSUME NEW S, S \subseteq Nat, S # {}, IsFiniteSet(S)
  PROVE  \E n \in S : \A m \in S : m <= n
  <1> DEFINE U == {b \in Nat : \A x \in S : x <= b}
  <1>1. U # {}
    BY FiniteBounded
  <1>2. PICK u \in U : \A b \in U : u <= b
    <2>1. U \subseteq Nat
      OBVIOUS
    <2> HIDE DEF U
    <2> QED
      BY <1>1, <2>1, LeastElement
  <1>3. u \in Nat /\ \A x \in S : x \in Nat /\ x <= u
    OBVIOUS
  <1>4. CASE u \notin S
    <2>1. \A x \in S : x < u
      BY <1>3, <1>4
    <2>2. u - 1 \in Nat /\ \A x \in S : x <= u - 1
      <3>1. PICK x \in S : TRUE
        OBVIOUS
      <3>2. u > 0
        BY <1>3, <2>1, <3>1
      <3> QED
        BY <1>3, <2>1, <3>2
    <2>3. u - 1 \in U
      BY <2>2
    <2> QED
      BY <1>2, <1>3, <2>3
  <1> QED
    BY <1>3, <1>4
============================================================================
