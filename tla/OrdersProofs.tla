------------------------------ MODULE OrdersProofs ------------------------------
(***************************************************************************)
(* Facts of arithmetic that the other proofs rest on: the least number of  *)
(* a set, quotients and remainders, powers of two, and what the operators  *)
(* of Orders compute.                                                      *)
(***************************************************************************)
EXTENDS Orders, FiniteSets, FiniteSetTheorems, NaturalsInduction, WellFoundedInduction, TLAPS

(* A non-empty set of natural numbers has a least element. *)
LEMMA LeastNat ==
  ASSUME NEW S \in SUBSET Nat, S # {}
  PROVE  \E m \in S : \A k \in S : m <= k
<1>1. IsWellFoundedOn(OpToRel(<, Nat), Nat)
  BY Zenon, NatLessThanWellFounded
<1>2. PICK m \in S : \A k \in S : ~ (<<k, m>> \in OpToRel(<, Nat))
  BY <1>1, WFMin, Zenon
<1>3. \A k \in S : ~ (k < m)
  BY Zenon, <1>2 DEF OpToRel
<1> QED
  BY <1>3

-----------------------------------------------------------------------------
(* Quotients *)

(* Quotient and remainder are unique. *)
LEMMA DivUnique ==
  ASSUME NEW n \in Nat \ {0}, NEW q \in Int, NEW r \in 0..(n - 1)
  PROVE  (n * q + r) \div n = q /\ (n * q + r) % n = r
<1> DEFINE a == n * q + r
           x == a \div n
           y == a % n
<1>1. a \in Int /\ x \in Int /\ y \in 0..(n - 1) /\ a = n * x + y
  BY SMT
<1> HIDE DEF x, y
<1>2. n * (x - q) = r - y
  BY <1>1, SMT
<1>3. x = q
  <2>1. CASE x >= q + 1
    <3>1. n * (x - q) >= n
      BY <1>1, <2>1, SMT
    <3> QED
      BY <1>1, <1>2, <3>1
  <2>2. CASE x <= q - 1
    <3>1. n * (q - x) >= n
      BY <1>1, <2>2, SMT
    <3>2. n * (x - q) = -(n * (q - x))
      BY <1>1, SMT
    <3> QED
      BY <1>1, <1>2, <3>1, <3>2
  <2> QED
    BY <1>1, <2>1, <2>2
<1>4. y = r
  BY <1>1, <1>3, <1>2, SMT
<1> QED
  BY <1>3, <1>4 DEF x, y

(* Quotient and remainder of a natural number. *)
LEMMA DivNat ==
  ASSUME NEW a \in Nat, NEW n \in Nat \ {0}
  PROVE  /\ a \div n \in Nat /\ a % n \in 0..(n - 1)
         /\ a = n * (a \div n) + (a % n)
BY SMT

(* A multiple of d divided by d. *)
LEMMA DivMultiple ==
  ASSUME NEW n \in Nat, NEW d \in Nat \ {0}
  PROVE  (n * d) \div d = n /\ (n * d) % d = 0
  OBVIOUS

-----------------------------------------------------------------------------
(* Powers of two *)

(* 2^(k+1) is twice 2^k: the subsets of 1..(k+1) are those of 1..k, with and
   without k+1. *)
LEMMA PowStep ==
  ASSUME NEW k \in Nat
  PROVE  2^(k + 1) = 2 * 2^k /\ 2^k \in Nat
<1> DEFINE A == SUBSET (1..k)
          B == {T \cup {k + 1} : T \in A}
          f == [T \in A |-> T \cup {k + 1}]
<1>1. IsFiniteSet(1..k) /\ Cardinality(1..k) = k
  BY FS_Interval
<1>2. IsFiniteSet(1..(k + 1)) /\ Cardinality(1..(k + 1)) = k + 1
  BY FS_Interval
<1>3. IsFiniteSet(A) /\ Cardinality(A) = 2^k
  BY Zenon, <1>1, FS_SUBSET
<1>4. Cardinality(SUBSET (1..(k + 1))) = 2^(k + 1)
  BY Zenon, <1>2, FS_SUBSET
<1>5. SUBSET (1..(k + 1)) = A \cup B
  <2>1. ASSUME NEW T \in SUBSET (1..(k + 1)) PROVE T \in A \cup B
    <3>1. CASE k + 1 \in T
      <4>1. T \ {k + 1} \in A 
        <5>1. \A x \in 1..(k + 1) : x # k + 1 => x \in 1..k
          OBVIOUS
        <5> QED BY <5>1, <2>1
      <4>2. T = (T \ {k + 1}) \cup {k + 1}  BY <3>1
      <4> QED BY Zenon, <4>1, <4>2
    <3>2. CASE k + 1 \notin T
        <5>1. \A x \in 1..(k + 1) : x # k + 1 => x \in 1..k
          OBVIOUS
        <5> QED BY <5>1, <2>1, <3>2
    <3> QED BY <3>1, <3>2
  <2>2. ASSUME NEW T \in A \cup B PROVE T \in SUBSET (1..(k + 1))
    <3>1. 1..k \subseteq 1..(k + 1) /\ k + 1 \in 1..(k + 1) OBVIOUS
    <3> QED BY <3>1, <2>2
  <2> QED BY Zenon, <2>1, <2>2
<1>6. A \cap B = {}
  <2>1. k + 1 \notin 1..k OBVIOUS
  <2> QED BY <2>1
<1>7. ExistsBijection(A, B)
  <2>1. \A T \in A : k + 1 \notin T
    <3>1. k + 1 \notin 1..k OBVIOUS
    <3> QED BY <3>1
  <2>2. f \in [A -> B] OBVIOUS
  <2>3. \A x, y \in A : f[x] = f[y] => x = y
    BY <2>1
  <2>4. \A t \in B : \E s \in A : f[s] = t
    OBVIOUS
  <2>5. f \in Bijection(A, B)
    BY Zenon, <2>2, <2>3, <2>4 DEF Bijection, Injection, Surjection, IsInjective
  <2> QED BY Zenon, <2>5 DEF ExistsBijection
<1>8. IsFiniteSet(B) /\ Cardinality(B) = 2^k
  BY <1>3, <1>7, FS_Bijection
<1> HIDE DEF A, B, f
<1>9. Cardinality(A \cup B) = Cardinality(A) + Cardinality(B) - Cardinality(A \cap B)
  BY <1>3, <1>8, FS_Union, Zenon
<1>10. Cardinality(A) \in Nat
  BY <1>3, FS_CardinalityType
<1>11. Cardinality(A \cap B) = 0
  BY <1>6, FS_EmptySet
<1>12. Cardinality(B) = Cardinality(A)
  BY <1>3, <1>8
<1>13. Cardinality(A \cup B) = 2 * Cardinality(A)
  BY <1>9, <1>10, <1>11, <1>12
<1>14. Cardinality(A \cup B) = 2^(k + 1)
  BY Zenon, <1>4, <1>5
<1> QED
  BY <1>3, <1>10, <1>13, <1>14

(* 2^0 counts the subsets of the empty set. *)
LEMMA PowZero == 2^0 = 1
<1>1. IsFiniteSet({}) /\ Cardinality({}) = 0
  BY FS_EmptySet
<1>2. Cardinality(SUBSET {}) = 2^0
  BY Zenon, <1>1, FS_SUBSET
<1>3. SUBSET {} = {{}}
  OBVIOUS
<1> QED
  BY <1>2, <1>3, FS_Singleton

(* 2^k exceeds k. *)
LEMMA PowGt ==
  ASSUME NEW k \in Nat
  PROVE  2^k \in Nat /\ k < 2^k
<1> DEFINE Bad == {j \in Nat : ~(j < 2^j)}
<1> SUFFICES Bad = {}
  BY Zenon, PowStep
<1> SUFFICES ASSUME Bad # {} PROVE FALSE
  OBVIOUS
<1>1. PICK m \in Bad : \A j \in Bad : m <= j
  BY Zenon, LeastNat
<1>2. CASE m = 0
  BY <1>2, PowZero
<1>3. CASE m # 0
  <2>1. m - 1 \in Nat /\ m - 1 \notin Bad
    BY <1>1, <1>3
  <2>2. 2^((m - 1) + 1) = 2 * 2^(m - 1) /\ 2^(m - 1) \in Nat
    BY <2>1, PowStep
  <2>3. (m - 1) + 1 = m
    BY <1>1
  <2> QED
    BY <1>1, <2>1, <2>2, <2>3
<1> QED
  BY <1>2, <1>3

(* 2^(a+b) is the product of 2^a and 2^b. *)
LEMMA PowAdd ==
  ASSUME NEW a \in Nat, NEW b \in Nat
  PROVE  2^(a + b) = 2^a * 2^b
<1> DEFINE Bad == {j \in Nat : 2^(a + j) # 2^a * 2^j}
<1> SUFFICES Bad = {}
  BY Zenon
<1> SUFFICES ASSUME Bad # {} PROVE FALSE
  OBVIOUS
<1>1. PICK m \in Bad : \A j \in Bad : m <= j
  BY Zenon, LeastNat
<1>2. CASE m = 0
  <2>1. 2^(a + m) = 2^a /\ 2^m = 1 /\ 2^a \in Nat
    BY <1>2, PowZero, PowStep
  <2> QED
    BY <1>1, <2>1
<1>3. CASE m # 0
  <2>1. m - 1 \in Nat /\ m - 1 \notin Bad
    BY <1>1, <1>3
  <2>2. 2^(m - 1 + 1) = 2 * 2^(m - 1) /\ 2^(m - 1) \in Nat
    BY <2>1, PowStep
  <2>3. a + (m - 1) \in Nat
    BY <2>1
  <2>4. 2^(a + (m - 1) + 1) = 2 * 2^(a + (m - 1)) /\ 2^(a + (m - 1)) \in Nat
    BY <2>3, PowStep
  <2>5. (m - 1) + 1 = m /\ a + (m - 1) + 1 = a + m
    BY <1>1
  <2>6. 2^(a + (m - 1)) = 2^a * 2^(m - 1)
    BY <2>1
  <2>7. 2^a \in Nat
    BY PowStep
  <2>8. 2^(a + m) = 2 * (2^a * 2^(m - 1)) /\ 2^m = 2 * 2^(m - 1)
    BY <2>2, <2>4, <2>5, <2>6
  <2>9. \A x, y \in Nat : 2 * (x * y) = x * (2 * y)
    OBVIOUS
  <2> QED
    BY <1>1, <2>2, <2>7, <2>8, <2>9
<1> QED
  BY <1>2, <1>3

(* 2^k grows with k. *)
LEMMA PowMono ==
  ASSUME NEW a \in Nat, NEW b \in Nat, a <= b
  PROVE  2^a <= 2^b /\ (a < b => 2 * 2^a <= 2^b)
<1>1. ASSUME NEW c \in Nat, c <= b PROVE 2^c <= 2^b
  <2>1. b - c \in Nat /\ c + (b - c) = b
    BY <1>1
  <2>2. 2^b = 2^c * 2^(b - c)
    BY <2>1, PowAdd
  <2>3. 2^c \in Nat /\ 2^(b - c) \in Nat /\ 1 <= 2^(b - c)
    BY <2>1, PowGt
  <2>4. \A x, y \in Nat : 1 <= y => x <= x * y
    OBVIOUS
  <2> QED
    BY <2>2, <2>3, <2>4
<1>2. a < b => 2^(a + 1) <= 2^b
  BY <1>1
<1> QED
  BY <1>1, <1>2, PowStep

-----------------------------------------------------------------------------
(* Levels *)

(* ilog2 is the exponent k with 2^k <= m < 2^(k+1), and there is only one. *)
LEMMA Ilog2 ==
  ASSUME NEW m \in Nat \ {0}
  PROVE  /\ ilog2(m) \in Nat
         /\ 2^ilog2(m) <= m
         /\ m < 2^(ilog2(m) + 1)
         /\ \A k \in Nat : 2^k <= m /\ m < 2^(k + 1) => ilog2(m) = k
<1> DEFINE P(k) == 2^k <= m /\ m < 2^(k + 1)
           S == {k \in Nat : m < 2^(k + 1)}
<1>1. S # {}
  <2>1. m + 1 \in Nat
    OBVIOUS
  <2>2. m + 1 < 2^(m + 1) /\ 2^(m + 1) \in Nat
    BY <2>1, PowGt
  <2>3. m < 2^(m + 1)
    BY <2>2
  <2>4. m \in S
    BY <2>3
  <2> QED
    BY Zenon, <2>4
<1>2. PICK k \in S : \A j \in S : k <= j
  BY Zenon, <1>1, LeastNat
<1>3. 2^k <= m
  <2>1. CASE k = 0
    BY <2>1, PowZero
  <2>2. CASE k # 0
    <3>1. k - 1 \in Nat /\ k - 1 \notin S /\ (k - 1) + 1 = k
      BY <1>2, <2>2
    <3>2. 2^k \in Nat
      BY PowGt
    <3> QED
      BY <3>1, <3>2
  <2> QED
    BY <2>1, <2>2
<1>4. k \in 0..m
  BY <1>2, <1>3, PowGt
<1>5. ilog2(m) \in 0..m /\ P(ilog2(m))
  BY <1>2, <1>3, <1>4 DEF ilog2
<1>6. ASSUME NEW a \in Nat, NEW b \in Nat, P(a), P(b) PROVE a <= b
  <2> SUFFICES ASSUME b + 1 <= a PROVE FALSE
    OBVIOUS
  <2>1. 2^(b + 1) <= 2^a /\ 2^a \in Nat /\ 2^(b + 1) \in Nat
    BY PowMono, PowGt
  <2> QED
    BY <1>6, <2>1
<1>7. \A a, b \in Nat : P(a) /\ P(b) => a = b
  BY <1>6
<1> QED
  BY <1>5, <1>7

(* The level of node i: the root is alone on level 0, and the nodes of level
   l are those from 2^l - 1 on. *)
LEMMA LevelBounds ==
  ASSUME NEW i \in Nat
  PROVE  /\ find_order(i) \in Nat
         /\ 2^find_order(i) \in Nat \ {0}
         /\ 2^find_order(i) <= i + 1
         /\ i + 1 < 2 * 2^find_order(i)
<1>1. i + 1 \in Nat \ {0}
  OBVIOUS
<1>2. /\ ilog2(i + 1) \in Nat
      /\ 2^ilog2(i + 1) <= i + 1
      /\ i + 1 < 2^(ilog2(i + 1) + 1)
  BY <1>1, Ilog2
<1>3. /\ 2^(ilog2(i + 1) + 1) = 2 * 2^ilog2(i + 1)
      /\ 2^ilog2(i + 1) \in Nat \ {0}
  BY <1>2, PowStep, PowGt
<1> QED
  BY <1>2, <1>3 DEF find_order

(* Between two powers of two there is one level. *)
LEMMA LevelUnique ==
  ASSUME NEW i \in Nat, NEW l \in Nat, 2^l <= i + 1, i + 1 < 2 * 2^l
  PROVE  find_order(i) = l
<1>1. i + 1 \in Nat \ {0}
  OBVIOUS
<1>2. i + 1 < 2^(l + 1)
  BY PowStep
<1>3. ilog2(i + 1) = l
  BY <1>1, <1>2, Ilog2
<1> QED
  BY <1>3 DEF find_order

(* The root is on level 0. *)
LEMMA LevelRoot == find_order(0) = 0
<1>1. 2^0 <= 0 + 1 /\ 0 + 1 < 2 * 2^0
  BY PowZero
<1> QED
  BY Zenon, <1>1, LevelUnique

(* The order of a power of two, other than 1, is its exponent. *)
LEMMA OrderOfPower ==
  ASSUME NEW k \in Nat \ {0}
  PROVE  find_order(2^k) = k
<1>1. 2^k \in Nat /\ k < 2^k
  BY PowGt
<1>2. 2^k <= 2^k + 1 /\ 2^k + 1 < 2 * 2^k
  BY <1>1
<1> QED
  BY <1>1, <1>2, LevelUnique

(* trailing_zeros inverts the power of two. *)
LEMMA TrailingZeros ==
  ASSUME NEW k \in Nat
  PROVE  trailing_zeros(2^k) = k
<1> DEFINE P(j) == 2^k % 2^j = 0 /\ 2^k % 2^(j + 1) # 0
<1>1. 2^k \in Nat \ {0} /\ k \in 0..(2^k)
  BY PowGt
<1>2. P(k)
  <2>1. 2^(k + 1) = 2 * 2^k
    BY PowStep
  <2>2. \A x \in Nat \ {0} : x % x = 0 /\ x % (2 * x) = x
    OBVIOUS
  <2> QED
    BY <1>1, <2>1, <2>2
<1>3. ASSUME NEW j \in Nat, P(j) PROVE j = k
  <2>1. ASSUME j + 1 <= k PROVE FALSE
    <3>1. k - (j + 1) \in Nat /\ j + 1 \in Nat /\ (k - (j + 1)) + (j + 1) = k
      BY <2>1
    <3>2. 2^k = 2^(k - (j + 1)) * 2^(j + 1)
      BY <3>1, PowAdd
    <3>3. 2^(k - (j + 1)) \in Nat /\ 2^(j + 1) \in Nat \ {0}
      BY <3>1, PowGt
    <3> QED
      BY Zenon, <1>3, <3>2, <3>3, DivMultiple
  <2>2. ASSUME k < j PROVE FALSE
    <3>1. 2 * 2^k <= 2^j /\ 2^j \in Nat
      BY <2>2, PowMono, PowGt
    <3>2. \A x, y \in Nat : x < y => x % y = x
      OBVIOUS
    <3> QED
      BY <1>1, <1>3, <3>1, <3>2
  <2> QED
    BY <2>1, <2>2
<1>4. \A j \in 0..(2^k) : P(j) <=> j = k
  BY <1>1, <1>2, <1>3
<1>5. trailing_zeros(2^k) = CHOOSE j \in 0..(2^k) : P(j)
  BY DEF trailing_zeros
<1> HIDE DEF P
<1> QED
  BY <1>1, <1>4, <1>5

(* next_power_of_two is the least power of two that is not below n. *)
LEMMA NextPowerOfTwo ==
  ASSUME NEW n \in Nat \ {0}
  PROVE  \E k \in Nat :
            /\ next_power_of_two(n) = 2^k
            /\ n <= 2^k
            /\ \A j \in 0..(k - 1) : 2^j < n
<1> DEFINE P(k) == n <= 2^k /\ \A j \in 0..(k - 1) : 2^j < n
           S == {k \in Nat : n <= 2^k}
<1>1. n \in S
  BY PowGt
<1>2. PICK m \in S : \A k \in S : m <= k
  BY Zenon, <1>1, LeastNat
<1>3. P(m)
  <2>1. ASSUME NEW j \in 0..(m - 1) PROVE 2^j < n
    <3>1. j \in Nat /\ j \notin S
      BY <1>2
    <3>2. 2^j \in Nat
      BY <3>1, PowGt
    <3> QED
      BY <3>1, <3>2
  <2> QED
    BY <1>2, <2>1
<1>4. m \in 0..n
  BY <1>1, <1>2
<1> DEFINE k == CHOOSE k \in 0..n : P(k)
<1>5. k \in 0..n /\ P(k)
  BY Zenon, <1>3, <1>4
<1>6. next_power_of_two(n) = 2^k
  BY DEF next_power_of_two
<1> HIDE DEF k
<1> QED
  BY <1>5, <1>6

(* There is only one such power of two. *)
LEMMA LeastPowerUnique ==
  ASSUME NEW n \in Nat \ {0}, NEW k \in Nat, NEW m \in Nat,
         n <= 2^k, \A j \in 0..(k - 1) : 2^j < n,
         n <= 2^m, \A j \in 0..(m - 1) : 2^j < n
  PROVE  k = m
<1>1. 2^k \in Nat /\ 2^m \in Nat
  BY PowGt
<1>2. ~(k < m)
  <2> SUFFICES ASSUME k < m PROVE FALSE
    OBVIOUS
  <2>1. k \in 0..(m - 1)
    OBVIOUS
  <2> QED
    BY <1>1, <2>1
<1>3. ~(m < k)
  <2> SUFFICES ASSUME m < k PROVE FALSE
    OBVIOUS
  <2>1. m \in 0..(k - 1)
    OBVIOUS
  <2> QED
    BY <1>1, <2>1
<1> QED
  BY <1>2, <1>3

(* A quotient of a quotient. *)
LEMMA DivDiv ==
  ASSUME NEW x \in Nat, NEW a \in Nat \ {0}, NEW b \in Nat \ {0}
  PROVE  (x \div a) \div b = x \div (a * b)
<1> DEFINE q == x \div a
           r == x % a
           p == q \div b
           s == q % b
<1>1. q \in Nat /\ r \in 0..(a - 1) /\ x = a * q + r
  BY Zenon, DivNat
<1>2. p \in Nat /\ s \in 0..(b - 1) /\ q = b * p + s
  BY Zenon, <1>1, DivNat
<1> HIDE DEF q, r, p, s
<1>3. x = (a * b) * p + (a * s + r)
  <2>1. a * q = a * (b * p) + a * s
    BY <1>2, SMT
  <2>2. a * (b * p) = (a * b) * p
    BY <1>2, SMT
  <2>3. a * (b * p) \in Int /\ a * s \in Int
    BY <1>2, SMT
  <2> QED
    BY <1>1, <2>1, <2>2, <2>3
<1>4. a * b \in Nat \ {0}
  BY SMT
<1>5. a * s + r \in 0..(a * b - 1)
  <2>1. a * s \in Nat
    BY <1>2, SMT
  <2>2. a * s <= a * (b - 1)
    BY <1>2, SMT
  <2>3. a * (b - 1) = a * b - a
    BY SMT
  <2> QED
    BY <1>1, <1>4, <2>1, <2>2, <2>3
<1>6. ((a * b) * p + (a * s + r)) \div (a * b) = p
  BY <1>2, <1>4, <1>5, DivUnique
<1>7. x \div (a * b) = p
  BY Zenon, <1>3, <1>6
<1> QED
  BY Zenon, <1>7 DEF p, q

=============================================================================
