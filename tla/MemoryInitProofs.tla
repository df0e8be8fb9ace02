---------------------------- MODULE MemoryInitProofs ----------------------------
(***************************************************************************)
(* Proofs about Words and MemoryInit, for words of any number of bits, any *)
(* RAM and any reserved region of whole pages: that the bit smearing of    *)
(* next_power_of_two computes the least power of two, that Memory::new     *)
(* stays inside the reserved region and panics only if it is too small,    *)
(* and for which requests buddy_alloc finds no level.                      *)
(***************************************************************************)
EXTENDS MemoryInit, OrdersProofs

-----------------------------------------------------------------------------
(* Words *)

(* A word has at least two bits. *)
LEMMA WordSize ==
  /\ Rounds \in Nat \ {0}
  /\ Bits \in Nat /\ 2 <= Bits /\ Bits = 2 * 2^(Rounds - 1)
  /\ 2^Bits \in Nat /\ MAX \in Nat /\ MAX = 2^Bits - 1
  /\ 2^(Bits - 1) \in Nat \ {0} /\ 2^Bits = 2 * 2^(Bits - 1)
<1>1. Rounds \in Nat \ {0} /\ Rounds - 1 \in Nat /\ (Rounds - 1) + 1 = Rounds
  BY RoundsAssumption
<1>2. Bits = 2 * 2^(Rounds - 1) /\ 2^(Rounds - 1) \in Nat /\ 0 < 2^(Rounds - 1)
  BY <1>1, PowStep, PowGt DEF Bits
<1>3. Bits \in Nat /\ 2 <= Bits
  BY <1>2
<1>4. Bits - 1 \in Nat /\ (Bits - 1) + 1 = Bits
  BY <1>3
<1>5. 2^Bits = 2 * 2^(Bits - 1) /\ 2^(Bits - 1) \in Nat /\ 0 < 2^(Bits - 1)
  BY <1>4, PowStep, PowGt
<1> QED
  BY <1>1, <1>2, <1>3, <1>5 DEF MAX

(* A number that fits in a word is not changed. *)
LEMMA WrapSmall ==
  ASSUME NEW n \in 0..MAX
  PROVE  Wrap(n) = n
<1>1. 2^Bits \in Nat \ {0} /\ n \in 0..(2^Bits - 1)
  BY WordSize
<1>2. (2^Bits * 0 + n) % 2^Bits = n
  BY <1>1, DivUnique
<1> QED
  BY <1>1, <1>2 DEF Wrap

-----------------------------------------------------------------------------
(* Bits *)

(* The bits of a number that was shifted to the right. *)
LEMMA BitShift ==
  ASSUME NEW x \in Nat, NEW s \in Nat, NEW k \in Nat
  PROVE  Bit(x \div 2^s, k) = Bit(x, s + k)
<1>1. 2^s \in Nat \ {0} /\ 2^k \in Nat \ {0}
  BY PowGt
<1>2. (x \div 2^s) \div 2^k = x \div (2^s * 2^k)
  BY Zenon, <1>1, DivDiv
<1>3. 2^(s + k) = 2^s * 2^k
  BY Zenon, PowAdd
<1> QED
  BY Zenon, <1>2, <1>3 DEF Bit

(* The last bit. *)
LEMMA BitZero ==
  ASSUME NEW x \in Nat
  PROVE  Bit(x, 0) = x % 2
  BY PowZero DEF Bit

(* The highest bit of a number, and the ones above it. *)
LEMMA BitTop ==
  ASSUME NEW x \in Nat, NEW m \in Nat
  PROVE  /\ x < 2^m => Bit(x, m) = 0
         /\ 2^m <= x /\ x < 2^(m + 1) => Bit(x, m) = 1
<1>1. 2^m \in Nat \ {0} /\ 2^(m + 1) = 2 * 2^m
  BY PowGt, PowStep
<1>2. CASE x < 2^m
  <2>1. x \in 0..(2^m - 1)
    BY <1>1, <1>2
  <2>2. (2^m * 0 + x) \div 2^m = 0
    BY <1>1, <2>1, DivUnique
  <2>3. x \div 2^m = 0
    BY <1>1, <2>2
  <2> QED
    BY <1>1, <1>2, <2>3 DEF Bit
<1>3. CASE 2^m <= x /\ x < 2^(m + 1)
  <2>1. x - 2^m \in 0..(2^m - 1)
    BY <1>1, <1>3
  <2>2. (2^m * 1 + (x - 2^m)) \div 2^m = 1
    BY <1>1, <2>1, DivUnique
  <2>3. x \div 2^m = 1
    BY <1>1, <2>2
  <2> QED
    BY <1>1, <1>3, <2>3 DEF Bit
<1> QED
  BY <1>2, <1>3

(* A number is made of its last bit and of the others. *)
LEMMA BitSucc ==
  ASSUME NEW x \in Nat, NEW k \in Nat
  PROVE  /\ x \div 2 \in Nat
         /\ x = 2 * (x \div 2) + Bit(x, 0)
         /\ Bit(x, k + 1) = Bit(x \div 2, k)
         /\ Bit(x, 0) \in {0, 1}
<1>1. 2^1 = 2
  <2>1. 2^(0 + 1) = 2 * 2^0
    BY PowStep
  <2> QED
    BY <2>1, PowZero
<1>2. Bit(x \div 2^1, k) = Bit(x, 1 + k)
  BY Zenon, BitShift
<1>3. 1 + k = k + 1
  OBVIOUS
<1>4. Bit(x, k + 1) = Bit(x \div 2, k)
  BY Zenon, <1>1, <1>2, <1>3
<1>5. Bit(x, 0) = x % 2
  BY BitZero
<1> QED
  BY <1>4, <1>5

(* Numbers of n bits that agree in all of them are equal. *)
LEMMA BitsUnique ==
  ASSUME NEW n \in Nat, NEW x \in 0..(2^n - 1), NEW y \in 0..(2^n - 1),
         \A k \in 0..(n - 1) : Bit(x, k) = Bit(y, k)
  PROVE  x = y
<1> DEFINE Agree(a, b, l) == \A k \in 0..(l - 1) : Bit(a, k) = Bit(b, k)
           Unique(l) == \A a, b \in 0..(2^l - 1) : Agree(a, b, l) => a = b
           Bad == {l \in Nat : ~Unique(l)}
<1> SUFFICES Bad = {}
  <2>1. ASSUME Unique(n) PROVE x = y
    BY Zenon, <2>1
  <2>2. Bad = {} => Unique(n)
    <3> HIDE DEF Unique
    <3> QED
      BY Zenon
  <2> QED
    BY Zenon, <2>1, <2>2
<1> SUFFICES ASSUME Bad # {} PROVE FALSE
  OBVIOUS
<1>1. PICK m \in Bad : \A l \in Bad : m <= l
  BY Zenon, LeastNat
<1>2. m # 0
  <2>1. Unique(0)
    BY PowZero
  <2>2. ~Unique(m)
    BY Zenon, <1>1
  <2> HIDE DEF Unique
  <2> QED
    BY Zenon, <2>1, <2>2
<1>3. m - 1 \in Nat /\ (m - 1) + 1 = m /\ m - 1 \notin Bad
  BY <1>1, <1>2
<1>4. Unique(m - 1)
  BY Zenon, <1>3
<1>5. 2^m = 2 * 2^(m - 1) /\ 2^(m - 1) \in Nat
  <2>1. 2^((m - 1) + 1) = 2 * 2^(m - 1) /\ 2^(m - 1) \in Nat
    BY Zenon, <1>3, PowStep
  <2> QED
    BY Zenon, <1>3, <2>1
<1>6. ASSUME NEW a \in 0..(2^m - 1), NEW b \in 0..(2^m - 1), Agree(a, b, m)
      PROVE  a = b
  <2>1. a \in Nat /\ b \in Nat
    BY <1>5
  <2>2. a = 2 * (a \div 2) + Bit(a, 0) /\ b = 2 * (b \div 2) + Bit(b, 0)
    BY Zenon, <2>1, BitSucc
  <2>3. Bit(a, 0) = Bit(b, 0)
    <3>1. 0 \in 0..(m - 1)
      BY <1>3
    <3> QED
      BY Zenon, <1>6, <3>1
  <2>4. a \div 2 \in 0..(2^(m - 1) - 1) /\ b \div 2 \in 0..(2^(m - 1) - 1)
    BY <1>5, <1>6
  <2>5. Agree(a \div 2, b \div 2, m - 1)
    <3>1. ASSUME NEW k \in 0..((m - 1) - 1)
          PROVE  Bit(a \div 2, k) = Bit(b \div 2, k)
      <4>1. k \in Nat /\ k + 1 \in 0..(m - 1)
        BY <1>3
      <4>2. Bit(a, k + 1) = Bit(a \div 2, k) /\ Bit(b, k + 1) = Bit(b \div 2, k)
        BY Zenon, <2>1, <4>1, BitSucc
      <4> QED
        BY Zenon, <1>6, <4>1, <4>2
    <3> QED
      BY Zenon, <3>1
  <2>6. a \div 2 = b \div 2
    BY Zenon, <1>4, <2>4, <2>5
  <2> QED
    BY Zenon, <2>2, <2>3, <2>6
<1> QED
  BY Zenon, <1>1, <1>6

(* Every set of positions below n is the set of the bits of a number. *)
LEMMA BitsExist ==
  ASSUME NEW n \in Nat, NEW S
  PROVE  \E z \in 0..(2^n - 1) : \A k \in 0..(n - 1) : Bit(z, k) = 1 <=> k \in S
<1> DEFINE Has(z, l, T) == \A k \in 0..(l - 1) : Bit(z, k) = 1 <=> k \in T
           Exists(l) == \A T \in SUBSET Nat : \E z \in 0..(2^l - 1) : Has(z, l, T)
           Bad == {l \in Nat : ~Exists(l)}
<1>1. Bad = {}
  <2> SUFFICES ASSUME Bad # {} PROVE FALSE
    OBVIOUS
  <2>1. PICK m \in Bad : \A l \in Bad : m <= l
    BY Zenon, LeastNat
  <2>2. m # 0
    <3>1. 0 \in 0..(2^0 - 1) /\ 0..(0 - 1) = {}
      BY PowZero
    <3>2. Exists(0)
      BY Zenon, <3>1
    <3> HIDE DEF Exists
    <3> QED
      BY Zenon, <2>1, <3>2
  <2>3. m - 1 \in Nat /\ (m - 1) + 1 = m /\ m - 1 \notin Bad
    BY <2>1, <2>2
  <2>4. Exists(m - 1)
    BY Zenon, <2>3
  <2>5. 2^m = 2 * 2^(m - 1) /\ 2^(m - 1) \in Nat
    <3>1. 2^((m - 1) + 1) = 2 * 2^(m - 1) /\ 2^(m - 1) \in Nat
      BY Zenon, <2>3, PowStep
    <3> QED
      BY Zenon, <2>3, <3>1
  <2>6. ASSUME NEW T \in SUBSET Nat
        PROVE  \E z \in 0..(2^m - 1) : Has(z, m, T)
    <3> DEFINE U == {k \in Nat : k + 1 \in T}
               b == IF 0 \in T THEN 1 ELSE 0
    <3>1. PICK y \in 0..(2^(m - 1) - 1) : Has(y, m - 1, U)
      <4>1. U \in SUBSET Nat
        OBVIOUS
      <4> QED
        BY Zenon, <2>4, <4>1
    <3>2. b \in {0, 1} /\ (b = 1 <=> 0 \in T)
      OBVIOUS
    <3> HIDE DEF b
    <3> DEFINE z == 2 * y + b
    <3>3. /\ y \in Nat /\ z \in Nat /\ z \in 0..(2^m - 1)
          /\ z \div 2 = y /\ z % 2 = b
      BY <2>5, <3>2
    <3> HIDE DEF z
    <3>4. ASSUME NEW k \in 0..(m - 1) PROVE Bit(z, k) = 1 <=> k \in T
      <4>1. CASE k = 0
        <5>1. Bit(z, k) = b
          BY Zenon, <3>3, <4>1, BitZero
        <5> QED
          BY Zenon, <3>2, <4>1, <5>1
      <4>2. CASE k # 0
        <5>1. k - 1 \in Nat /\ (k - 1) + 1 = k /\ k - 1 \in 0..((m - 1) - 1)
          BY <2>3, <4>2
        <5>2. Bit(z, (k - 1) + 1) = Bit(z \div 2, k - 1)
          BY Zenon, <3>3, <5>1, BitSucc
        <5>3. Bit(z, k) = Bit(y, k - 1)
          BY Zenon, <3>3, <5>1, <5>2
        <5>4. Bit(y, k - 1) = 1 <=> k - 1 \in U
          BY Zenon, <3>1, <5>1
        <5>5. k - 1 \in U <=> k \in T
          BY Zenon, <5>1
        <5> QED
          BY Zenon, <5>3, <5>4, <5>5
      <4> QED
        BY Zenon, <4>1, <4>2
    <3> QED
      BY Zenon, <3>3, <3>4
  <2> QED
    BY Zenon, <2>1, <2>6
<1>2. PICK z \in 0..(2^n - 1) : Has(z, n, S \cap Nat)
  <2>1. Exists(n)
    <3> HIDE DEF Exists
    <3> QED
      BY Zenon, <1>1
  <2>2. S \cap Nat \in SUBSET Nat
    BY Zenon
  <2> QED
    BY Zenon, <2>1, <2>2
<1>3. \A k \in 0..(n - 1) : k \in S \cap Nat <=> k \in S
  OBVIOUS
<1> QED
  BY Zenon, <1>2, <1>3

(* What the or of two words is. *)
LEMMA OrBits ==
  ASSUME NEW x, NEW y
  PROVE  /\ x | y \in 0..MAX
         /\ \A k \in 0..(Bits - 1) :
              Bit(x | y, k) = 1 <=> Bit(x, k) = 1 \/ Bit(y, k) = 1
<1> DEFINE S == {k \in Nat : Bit(x, k) = 1 \/ Bit(y, k) = 1}
           P(z) == \A k \in 0..(Bits - 1) : Bit(z, k) = 1 <=> Bit(x, k) = 1 \/ Bit(y, k) = 1
<1>1. Bits \in Nat /\ 0..MAX = 0..(2^Bits - 1)
  BY WordSize
<1>2. PICK z \in 0..(2^Bits - 1) : \A k \in 0..(Bits - 1) : Bit(z, k) = 1 <=> k \in S
  BY Zenon, <1>1, BitsExist
<1>3. \A k \in 0..(Bits - 1) : k \in S <=> Bit(x, k) = 1 \/ Bit(y, k) = 1
  <2>1. \A k \in 0..(Bits - 1) : k \in Nat
    BY <1>1
  <2> QED
    BY Zenon, <2>1
<1>4. \E w \in 0..MAX : P(w)
  BY Zenon, <1>1, <1>2, <1>3
<1>5. x | y = CHOOSE w \in 0..MAX : P(w)
  BY Zenon DEF |
<1> HIDE DEF P
<1>6. x | y \in 0..MAX /\ P(x | y)
  BY Zenon, <1>4, <1>5
<1> QED
  BY Zenon, <1>6 DEF P

(* A bit is 0 or 1. *)
LEMMA BitType ==
  ASSUME NEW x \in Nat, NEW k \in Nat
  PROVE  Bit(x, k) \in {0, 1}
<1>1. 2^k \in Nat \ {0}
  BY PowGt
<1>2. x \div 2^k \in Nat
  BY Zenon, <1>1, DivNat
<1> QED
  BY <1>2 DEF Bit

(* A number whose bits below p are all set. *)
LEMMA OnesBits ==
  ASSUME NEW p \in Nat, NEW k \in Nat
  PROVE  /\ k < p => Bit(2^p - 1, k) = 1
         /\ p <= k => Bit(2^p - 1, k) = 0
         /\ 2^p - 1 \in Nat
<1>1. 2^p \in Nat \ {0} /\ 2^p - 1 \in Nat
  BY PowGt
<1>2. ASSUME k < p PROVE Bit(2^p - 1, k) = 1
  <2> DEFINE j == p - (k + 1)
             t == 2^j
             u == 2^k
  <2>1. j \in Nat /\ k + (j + 1) = p
    BY <1>2
  <2>2. t \in Nat \ {0} /\ u \in Nat \ {0} /\ 2^(j + 1) = 2 * t
    BY <2>1, PowGt, PowStep
  <2>3. 2^p = u * 2^(j + 1)
    <3>1. j + 1 \in Nat
      BY <2>1
    <3>2. 2^(k + (j + 1)) = 2^k * 2^(j + 1)
      BY Zenon, <3>1, PowAdd
    <3> QED
      BY Zenon, <2>1, <3>2
  <2> HIDE DEF j, t, u
  <2>4. 2^p = u * (2 * t)
    BY Zenon, <2>2, <2>3
  <2>5. 2^p - 1 = u * (2 * t - 1) + (u - 1)
    <3>1. u * (2 * t) = u * (2 * t - 1) + u
      BY <2>2, SMT
    <3>2. u * (2 * t - 1) \in Int
      BY <2>2, SMT
    <3> QED
      BY <2>2, <2>4, <3>1, <3>2
  <2>6. (u * (2 * t - 1) + (u - 1)) \div u = 2 * t - 1
    <3>1. 2 * t - 1 \in Int /\ u - 1 \in 0..(u - 1)
      BY <2>2
    <3> QED
      BY Zenon, <2>2, <3>1, DivUnique
  <2>7. (2^p - 1) \div u = 2 * t - 1
    BY Zenon, <2>5, <2>6
  <2>8. (2 * t - 1) % 2 = 1
    BY <2>2
  <2> QED
    BY Zenon, <2>7, <2>8 DEF Bit, u
<1>3. ASSUME p <= k PROVE Bit(2^p - 1, k) = 0
  <2>1. 2^p <= 2^k /\ 2^k \in Nat
    BY <1>3, PowMono, PowGt
  <2>2. 2^p - 1 < 2^k
    BY <1>1, <2>1
  <2> QED
    BY Zenon, <1>1, <2>2, BitTop
<1> QED
  BY Zenon, <1>1, <1>2, <1>3

-----------------------------------------------------------------------------
(* The smearing of next_power_of_two *)

(* The values of x, one after each line x |= x >> 2^r. *)
Rows(n, f, l) ==
  /\ f \in [0..l -> 0..MAX]
  /\ f[0] = Lowered(n)
  /\ \A r \in 1..l : f[r] = Smear(f[r - 1], r - 1)

(* There are such values, however many lines there are. *)
LEMMA RowsExist ==
  ASSUME NEW n \in 1..MAX, NEW l \in Nat
  PROVE  \E f : Rows(n, f, l)
<1> DEFINE Exists(j) == \E f : Rows(n, f, j)
           Bad == {j \in Nat : ~Exists(j)}
<1> SUFFICES Bad = {}
  BY Zenon
<1> SUFFICES ASSUME Bad # {} PROVE FALSE
  OBVIOUS
<1>1. PICK m \in Bad : \A j \in Bad : m <= j
  BY Zenon, LeastNat
<1>2. m # 0
  <2> DEFINE f == [r \in 0..0 |-> Lowered(n)]
  <2>1. Lowered(n) \in 0..MAX
    BY WordSize DEF Lowered
  <2>2. 0 \in 0..0 /\ 1..0 = {}
    OBVIOUS
  <2>3. f \in [0..0 -> 0..MAX] /\ f[0] = Lowered(n)
    BY Zenon, <2>1, <2>2
  <2> HIDE DEF f
  <2>4. Rows(n, f, 0)
    BY Zenon, <2>2, <2>3 DEF Rows
  <2> QED
    BY Zenon, <1>1, <2>4
<1>3. m - 1 \in Nat /\ m \in Nat /\ m - 1 \notin Bad
  BY <1>1, <1>2
<1>4. PICK f : Rows(n, f, m - 1)
  BY Zenon, <1>3
<1> DEFINE g == [r \in 0..m |-> IF r = m THEN Smear(f[m - 1], m - 1) ELSE f[r]]
<1>5. ASSUME NEW r \in 0..m PROVE g[r] = IF r = m THEN Smear(f[m - 1], m - 1) ELSE f[r]
  BY Zenon
<1>6. g \in [0..m -> 0..MAX]
  <2>1. ASSUME NEW r \in 0..m
        PROVE  (IF r = m THEN Smear(f[m - 1], m - 1) ELSE f[r]) \in 0..MAX
    <3>1. CASE r = m
      BY Zenon, <3>1, OrBits DEF Smear
    <3>2. CASE r # m
      <4>1. r \in 0..(m - 1)
        BY <1>3, <3>2
      <4> QED
        BY Zenon, <1>4, <3>2, <4>1 DEF Rows
    <3> QED
      BY Zenon, <3>1, <3>2
  <2> QED
    BY Zenon, <2>1
<1> HIDE DEF g
<1>7. g[0] = Lowered(n)
  <2>1. 0 \in 0..m /\ 0 # m
    BY <1>2, <1>3
  <2> QED
    BY Zenon, <1>4, <1>5, <2>1 DEF Rows
<1>8. ASSUME NEW r \in 1..m PROVE g[r] = Smear(g[r - 1], r - 1)
  <2>1. r - 1 \in 0..m /\ r - 1 # m /\ r \in 0..m
    BY <1>3
  <2>2. g[r - 1] = f[r - 1]
    BY Zenon, <1>5, <2>1
  <2>3. CASE r = m
    BY Zenon, <1>5, <2>1, <2>2, <2>3
  <2>4. CASE r # m
    <3>1. r \in 1..(m - 1)
      BY <1>3, <2>4
    <3>2. f[r] = Smear(f[r - 1], r - 1)
      BY Zenon, <1>4, <3>1 DEF Rows
    <3> QED
      BY Zenon, <1>5, <2>1, <2>2, <2>4, <3>2
  <2> QED
    BY Zenon, <2>3, <2>4
<1>9. Rows(n, g, m)
  BY Zenon, <1>6, <1>7, <1>8 DEF Rows
<1> QED
  BY Zenon, <1>1, <1>9

(* Smeared is the last of them. *)
LEMMA SmearedRows ==
  ASSUME NEW n \in 1..MAX
  PROVE  \E f : Rows(n, f, Rounds) /\ Smeared[n] = f[Rounds]
<1> DEFINE Step(g) == [r \in 0..Rounds |-> IF r = 0 THEN Lowered(n) ELSE Smear(g[r - 1], r - 1)]
           x == CHOOSE g : g = Step(g)
<1>1. Smeared[n] = x[Rounds]
  BY Zenon DEF Smeared
<1>2. PICK f : Rows(n, f, Rounds)
  BY Zenon, WordSize, RowsExist
<1>3. f = Step(f)
  <2>1. ASSUME NEW r \in 0..Rounds
        PROVE  f[r] = IF r = 0 THEN Lowered(n) ELSE Smear(f[r - 1], r - 1)
    <3>1. CASE r = 0
      BY Zenon, <1>2, <3>1 DEF Rows
    <3>2. CASE r # 0
      <4>1. r \in 1..Rounds
        BY WordSize, <3>2
      <4> QED
        BY Zenon, <1>2, <3>2, <4>1 DEF Rows
    <3> QED
      BY Zenon, <3>1, <3>2
  <2>2. f = [r \in 0..Rounds |-> f[r]]
    BY Zenon, <1>2 DEF Rows
  <2> QED
    BY Zenon, <2>1, <2>2
<1>4. x = Step(x)
  <2> HIDE DEF Step
  <2> QED
    BY Zenon, <1>3
<1> HIDE DEF x
<1>5. Rows(n, x, Rounds)
  <2>1. ASSUME NEW r \in 0..Rounds
        PROVE  x[r] = IF r = 0 THEN Lowered(n) ELSE Smear(x[r - 1], r - 1)
    BY Zenon, <1>4
  <2>2. 0 \in 0..Rounds /\ \A r \in 1..Rounds : r \in 0..Rounds /\ r # 0
    BY WordSize
  <2>3. \A r \in 0..Rounds : x[r] \in 0..MAX
    <3>1. Lowered(n) \in 0..MAX
      BY WordSize DEF Lowered
    <3>2. \A r : Smear(x[r - 1], r - 1) \in 0..MAX
      BY Zenon, OrBits DEF Smear
    <3> QED
      BY Zenon, <2>1, <3>1, <3>2
  <2>4. x = [r \in 0..Rounds |-> x[r]]
    BY Zenon, <1>4
  <2>5. x \in [0..Rounds -> 0..MAX]
    BY Zenon, <2>3, <2>4
  <2> QED
    BY Zenon, <2>1, <2>2, <2>5 DEF Rows
<1> QED
  BY Zenon, <1>1, <1>5

(* After r lines, the 2^r bits from the highest one down are set, and none
   above it: m is the highest set bit, or -1 if there is none. *)
Spread(x, m, r) ==
  \A k \in 0..(Bits - 1) :
    /\ m < k => Bit(x, k) # 1
    /\ k <= m /\ m - k < 2^r => Bit(x, k) = 1

(* A line doubles the run of set bits. *)
LEMMA SpreadStep ==
  ASSUME NEW x \in 0..MAX, NEW m \in -1..(Bits - 1), NEW r \in Nat, Spread(x, m, r)
  PROVE  Spread(Smear(x, r), m, r + 1)
<1> DEFINE s == 2^r
           y == x \div 2^s
<1>1. s \in Nat \ {0} /\ 2^(r + 1) = 2 * s
  BY PowGt, PowStep
<1> HIDE DEF s
<1>2. x \in Nat /\ x < 2^Bits /\ Bits \in Nat
  BY WordSize
<1> SUFFICES ASSUME NEW k \in 0..(Bits - 1)
             PROVE  /\ m < k => Bit(Smear(x, r), k) # 1
                    /\ k <= m /\ m - k < 2^(r + 1) => Bit(Smear(x, r), k) = 1
  BY SMT DEF Spread
<1>3. k \in Nat /\ s + k \in Nat /\ k < s + k
  BY <1>1, <1>2
<1>4. Bit(y, k) = Bit(x, s + k)
  <2>1. s \in Nat
    BY <1>1
  <2> QED
    BY SMT, <1>2, <1>3, <2>1, BitShift
<1>5. Bit(Smear(x, r), k) = 1 <=> Bit(x, k) = 1 \/ Bit(x, s + k) = 1
  <2>1. Smear(x, r) = x | y
    BY Zenon DEF Smear, s
  <2>2. Bit(x | y, k) = 1 <=> Bit(x, k) = 1 \/ Bit(y, k) = 1
    BY Zenon, OrBits
  <2> QED
    BY Zenon, <1>4, <2>1, <2>2
<1>6. ASSUME Bits <= s + k PROVE Bit(x, s + k) # 1
  <2>1. 2^Bits <= 2^(s + k) /\ 2^Bits \in Nat /\ 2^(s + k) \in Nat
    BY <1>2, <1>3, <1>6, PowMono, PowGt
  <2>2. x < 2^(s + k)
    BY <1>2, <2>1
  <2>3. Bit(x, s + k) = 0
    BY Zenon, <1>2, <1>3, <2>2, BitTop
  <2> QED
    BY <2>3
<1>7. ASSUME m < k PROVE ~(Bit(x, k) = 1 \/ Bit(x, s + k) = 1)
  <2>1. Bit(x, k) # 1
    BY Zenon, <1>7 DEF Spread
  <2>2. CASE s + k \in 0..(Bits - 1)
    <3>1. m < s + k
      BY <1>3, <1>7
    <3> QED
      BY Zenon, <2>1, <2>2, <3>1 DEF Spread
  <2>3. CASE s + k \notin 0..(Bits - 1)
    <3>1. Bits <= s + k
      BY <1>2, <1>3, <2>3
    <3> QED
      BY Zenon, <1>6, <2>1, <3>1
  <2> QED
    BY Zenon, <2>2, <2>3
<1>8. ASSUME k <= m, m - k < 2^(r + 1) PROVE Bit(x, k) = 1 \/ Bit(x, s + k) = 1
  <2>1. CASE m - k < s
    BY Zenon, <1>8, <2>1 DEF Spread, s
  <2>2. CASE ~(m - k < s)
    <3>1. s + k \in 0..(Bits - 1) /\ s + k <= m /\ m - (s + k) < s
      BY <1>1, <1>2, <1>3, <1>8, <2>2
    <3> QED
      BY Zenon, <3>1 DEF Spread, s
  <2> QED
    BY Zenon, <2>1, <2>2
<1> QED
  BY Zenon, <1>5, <1>7, <1>8

(* The highest set bit of a word, and what is set before the first line. *)
LEMMA SpreadStart ==
  ASSUME NEW x \in 0..MAX
  PROVE  \E m \in -1..(Bits - 1) :
           /\ Spread(x, m, 0)
           /\ x < 2^(m + 1) /\ \A j \in 0..m : 2^j <= x
<1>1. Bits \in Nat /\ x \in Nat /\ x < 2^Bits /\ 2^Bits \in Nat
  BY WordSize
<1>2. CASE x = 0
  <2>1. ASSUME NEW k \in 0..(Bits - 1) PROVE Bit(x, k) = 0
    <3>1. k \in Nat /\ x < 2^k
      BY <1>1, <1>2, PowGt
    <3> QED
      BY Zenon, <1>1, <3>1, BitTop
  <2>2. Spread(x, -1, 0)
    BY <1>1, <2>1 DEF Spread
  <2>3. x < 2^(-1 + 1) /\ -1 \in -1..(Bits - 1) /\ 0..(-1) = {}
    BY <1>1, <1>2, PowZero
  <2> QED
    BY Zenon, <2>2, <2>3
<1>3. CASE x # 0
  <2> DEFINE m == ilog2(x)
  <2>1. m \in Nat /\ 2^m <= x /\ x < 2^(m + 1)
    BY Zenon, <1>1, <1>3, Ilog2
  <2> HIDE DEF m
  <2>2. 2^m \in Nat /\ 2^(m + 1) \in Nat
    BY <2>1, PowGt
  <2>3. m < Bits
    <3> SUFFICES ASSUME Bits <= m PROVE FALSE
      BY <1>1, <2>1
    <3>1. 2^Bits <= 2^m
      BY <1>1, <2>1, PowMono
    <3> QED
      BY <1>1, <2>1, <2>2, <3>1
  <2>4. ASSUME NEW k \in 0..(Bits - 1)
        PROVE  /\ m < k => Bit(x, k) # 1
               /\ k <= m /\ m - k < 2^0 => Bit(x, k) = 1
    <3>1. ASSUME m < k PROVE Bit(x, k) # 1
      <4>1. 2^(m + 1) <= 2^k /\ 2^k \in Nat /\ k \in Nat
        BY <1>1, <2>1, <3>1, PowMono, PowGt
      <4>2. x < 2^k
        BY <1>1, <2>1, <2>2, <4>1
      <4>3. Bit(x, k) = 0
        BY Zenon, <1>1, <4>1, <4>2, BitTop
      <4> QED
        BY <4>3
    <3>2. ASSUME k <= m, m - k < 2^0 PROVE Bit(x, k) = 1
      <4>1. k = m
        BY <1>1, <2>1, <3>2, PowZero
      <4> QED
        BY Zenon, <1>1, <2>1, <4>1, BitTop
    <3> QED
      BY Zenon, <3>1, <3>2
  <2>5. Spread(x, m, 0)
    BY Zenon, <2>4 DEF Spread
  <2>6. ASSUME NEW j \in 0..m PROVE 2^j <= x
    <3>1. 2^j <= 2^m /\ 2^j \in Nat
      BY <2>1, PowMono, PowGt
    <3> QED
      BY <1>1, <2>1, <2>2, <3>1
  <2>7. m \in -1..(Bits - 1)
    BY <1>1, <2>1, <2>3
  <2> QED
    BY Zenon, <2>1, <2>5, <2>6, <2>7
<1> QED
  BY Zenon, <1>2, <1>3

(* After the last line every bit from the highest one down is set. *)
LEMMA SmearedOnes ==
  ASSUME NEW n \in 1..MAX
  PROVE  \E m \in -1..(Bits - 1) :
           /\ Smeared[n] = 2^(m + 1) - 1
           /\ n <= 2^(m + 1) /\ \A j \in 0..m : 2^j < n
<1>1. PICK f : Rows(n, f, Rounds) /\ Smeared[n] = f[Rounds]
  BY Zenon, SmearedRows
<1>2. f[0] = n - 1 /\ n - 1 \in 0..MAX
  <2>1. f[0] = n - 1
    BY Zenon, <1>1 DEF Rows, Lowered
  <2> QED
    BY <2>1, WordSize
<1>3. PICK m \in -1..(Bits - 1) :
        /\ Spread(n - 1, m, 0)
        /\ n - 1 < 2^(m + 1) /\ \A j \in 0..m : 2^j <= n - 1
  BY Zenon, <1>2, SpreadStart
<1>4. ASSUME NEW r \in 0..Rounds PROVE Spread(f[r], m, r)
  <2> DEFINE Bad == {j \in Nat : j \in 0..Rounds /\ ~Spread(f[j], m, j)}
  <2>1. Bad = {}
    <3> SUFFICES ASSUME Bad # {} PROVE FALSE
      OBVIOUS
    <3>1. PICK l \in Bad : \A j \in Bad : l <= j
      BY Zenon, LeastNat
    <3>2. l # 0
      BY Zenon, <1>2, <1>3, <3>1
    <3>3. l - 1 \in Nat /\ l - 1 \in 0..Rounds /\ l \in 1..Rounds /\ (l - 1) + 1 = l
      BY <3>1, <3>2, WordSize
    <3>4. l - 1 \notin Bad
      <4>1. ~(l <= l - 1)
        BY <3>1
      <4> QED
        BY Zenon, <3>1, <4>1
    <3>5. Spread(f[l - 1], m, l - 1) /\ f[l - 1] \in 0..MAX
      BY Zenon, <1>1, <3>3, <3>4 DEF Rows
    <3>6. Spread(Smear(f[l - 1], l - 1), m, (l - 1) + 1)
      BY Zenon, <3>3, <3>5, SpreadStep
    <3>7. f[l] = Smear(f[l - 1], l - 1)
      BY Zenon, <1>1, <3>3 DEF Rows
    <3> QED
      BY Zenon, <3>1, <3>3, <3>6, <3>7
  <2>2. r \in Nat
    BY WordSize
  <2> QED
    BY Zenon, <2>1, <2>2
<1> DEFINE x == f[Rounds]
<1>5. Rounds \in 0..Rounds
  BY WordSize
<1>6. x \in 0..MAX /\ Spread(x, m, Rounds)
  BY Zenon, <1>1, <1>4, <1>5 DEF Rows
<1> HIDE DEF x
<1>7. x = 2^(m + 1) - 1
  <2>1. Bits \in Nat /\ m + 1 \in Nat /\ m + 1 <= Bits /\ x \in 0..(2^Bits - 1)
    BY <1>6, WordSize
  <2>2. 2^(m + 1) <= 2^Bits /\ 2^(m + 1) \in Nat \ {0} /\ 2^Bits \in Nat
    BY <2>1, PowMono, PowGt
  <2>3. 2^(m + 1) - 1 \in 0..(2^Bits - 1)
    BY <2>2
  <2>4. ASSUME NEW k \in 0..(Bits - 1) PROVE Bit(x, k) = Bit(2^(m + 1) - 1, k)
    <3>1. k \in Nat /\ x \in Nat
      BY <2>1
    <3>2. CASE k <= m
      <4>1. k < m + 1 /\ m - k < Bits
        BY <2>1, <3>1, <3>2
      <4>2. Bit(x, k) = 1
        BY Zenon, <1>6, <3>2, <4>1 DEF Spread, Bits
      <4>3. Bit(2^(m + 1) - 1, k) = 1
        BY Zenon, <2>1, <3>1, <4>1, OnesBits
      <4> QED
        BY Zenon, <4>2, <4>3
    <3>3. CASE ~(k <= m)
      <4>1. m + 1 <= k /\ m < k
        BY <2>1, <3>1, <3>3
      <4>2. Bit(x, k) # 1 /\ Bit(x, k) \in {0, 1}
        BY Zenon, <1>6, <3>1, <4>1, BitType DEF Spread
      <4>3. Bit(2^(m + 1) - 1, k) = 0
        BY Zenon, <2>1, <3>1, <4>1, OnesBits
      <4> QED
        BY Zenon, <4>2, <4>3
    <3> QED
      BY Zenon, <3>2, <3>3
  <2> QED
    BY Zenon, <2>1, <2>3, <2>4, BitsUnique
<1>8. n <= 2^(m + 1) /\ \A j \in 0..m : 2^j < n
  <2>1. m + 1 \in Nat /\ 2^(m + 1) \in Nat
    BY PowGt, WordSize
  <2>2. n <= 2^(m + 1)
    BY <1>3, <2>1
  <2>3. ASSUME NEW j \in 0..m PROVE 2^j < n
    <3>1. 2^j \in Nat /\ 2^j <= n - 1
      BY <1>3, PowGt
    <3> QED
      BY <3>1
  <2> QED
    BY Zenon, <2>2, <2>3
<1> QED
  BY Zenon, <1>1, <1>7, <1>8 DEF x

-----------------------------------------------------------------------------
(* The two functions of mem.rs on words *)

(* What next_power_of_two returns for a word. *)
LEMMA NextPowerWord ==
  ASSUME NEW n \in 1..MAX
  PROVE  /\ n <= 2^(Bits - 1) =>
              \E k \in 0..(Bits - 1) :
                 /\ next_power_of_two_word(n) = 2^k /\ next_power_of_two(n) = 2^k
                 /\ n <= 2^k /\ \A j \in 0..(k - 1) : 2^j < n
         /\ 2^(Bits - 1) < n => next_power_of_two_word(n) = None
<1>1. /\ Bits \in Nat /\ 2 <= Bits /\ n \in Nat \ {0}
      /\ 2^(Bits - 1) \in Nat \ {0} /\ 2^Bits = 2 * 2^(Bits - 1) /\ MAX = 2^Bits - 1
  BY WordSize
<1>2. MAX \div 2 + 1 = 2^(Bits - 1)
  BY <1>1
<1>3. TooLarge(n) <=> n > 2^(Bits - 1)
  BY Zenon, <1>2 DEF TooLarge
<1>4. ASSUME n <= 2^(Bits - 1)
      PROVE  \E k \in 0..(Bits - 1) :
                 /\ next_power_of_two_word(n) = 2^k /\ next_power_of_two(n) = 2^k
                 /\ n <= 2^k /\ \A j \in 0..(k - 1) : 2^j < n
  <2>1. PICK m \in -1..(Bits - 1) :
           /\ Smeared[n] = 2^(m + 1) - 1
           /\ n <= 2^(m + 1) /\ \A j \in 0..m : 2^j < n
    BY Zenon, SmearedOnes
  <2> DEFINE k == m + 1
  <2>2. k \in Nat /\ k - 1 = m
    BY <1>1
  <2>3. k <= Bits - 1
    <3> SUFFICES ASSUME Bits - 1 <= m PROVE FALSE
      BY <1>1
    <3>1. Bits - 1 \in 0..m
      BY <1>1
    <3> QED
      BY <1>1, <1>4, <2>1, <3>1
  <2>4. 2^k \in Nat \ {0} /\ 2^k <= 2^(Bits - 1)
    BY <1>1, <2>2, <2>3, PowMono, PowGt
  <2>5. next_power_of_two_word(n) = 2^k
    <3>1. ~TooLarge(n) /\ n # 0
      BY <1>1, <1>3, <1>4
    <3>2. next_power_of_two_word(n) = Wrap(Smeared[n] + 1)
      BY Zenon, <3>1 DEF next_power_of_two_word
    <3>3. Smeared[n] + 1 = 2^k
      BY <2>1, <2>4
    <3>4. 2^k \in 0..MAX
      BY <1>1, <2>4
    <3> QED
      BY Zenon, <3>2, <3>3, <3>4, WrapSmall
  <2> HIDE DEF k
  <2>6. n <= 2^k /\ \A j \in 0..(k - 1) : 2^j < n
    BY Zenon, <2>1, <2>2 DEF k
  <2>7. next_power_of_two(n) = 2^k
    <3>1. PICK i \in Nat :
            /\ next_power_of_two(n) = 2^i
            /\ n <= 2^i
            /\ \A j \in 0..(i - 1) : 2^j < n
      BY Zenon, <1>1, NextPowerOfTwo
    <3>2. i = k
      BY Zenon, <1>1, <2>2, <2>6, <3>1, LeastPowerUnique
    <3> QED
      BY Zenon, <3>1, <3>2
  <2>8. k \in 0..(Bits - 1)
    BY <1>1, <2>2, <2>3
  <2> QED
    BY Zenon, <2>5, <2>6, <2>7, <2>8
<1>5. ASSUME 2^(Bits - 1) < n PROVE next_power_of_two_word(n) = None
  <2>1. TooLarge(n) /\ n # 0
    BY <1>1, <1>3, <1>5
  <2> QED
    BY Zenon, <2>1 DEF next_power_of_two_word
<1> QED
  BY Zenon, <1>4, <1>5

(* find_order needs no word that is larger than its argument. *)
LEMMA OrderWord ==
  ASSUME NEW n \in 0..MAX
  PROVE  find_order_word(n) = find_order(n)
<1>1. Bits \in Nat /\ n \in Nat /\ MAX \in Nat /\ MAX + 1 = 2^Bits /\ 2^Bits \in Nat
  BY WordSize
<1>2. CASE n = MAX
  <2>1. 2^Bits <= n + 1 /\ n + 1 < 2 * 2^Bits
    BY <1>1, <1>2
  <2>2. find_order(n) = Bits
    BY Zenon, <1>1, <2>1, LevelUnique
  <2> QED
    BY Zenon, <1>2, <2>2 DEF find_order_word
<1>3. CASE n # MAX
  <2>1. n + 1 \in 0..MAX
    BY <1>1, <1>3
  <2>2. Wrap(n + 1) = n + 1
    BY Zenon, <2>1, WrapSmall
  <2> QED
    BY Zenon, <1>3, <2>2 DEF find_order_word, find_order
<1> QED
  BY Zenon, <1>2, <1>3

(* The bit smearing of next_power_of_two, on words of any number of bits,
   returns the least power of two that is not below its argument, and None
   exactly if a word cannot hold it. *)
THEOREM NextPowerOfTwoComputes ==
  \A n \in 1..MAX :
    next_power_of_two_word(n) = IF n <= 2^(Bits - 1) THEN next_power_of_two(n) ELSE None
<1> SUFFICES ASSUME NEW n \in 1..MAX
             PROVE  next_power_of_two_word(n)
                      = IF n <= 2^(Bits - 1) THEN next_power_of_two(n) ELSE None
  BY Zenon
<1>1. CASE n <= 2^(Bits - 1)
  BY Zenon, <1>1, NextPowerWord
<1>2. CASE ~(n <= 2^(Bits - 1))
  <2>1. 2^(Bits - 1) < n
    BY <1>2, WordSize
  <2> QED
    BY Zenon, <1>2, <2>1, NextPowerWord
<1> QED
  BY Zenon, <1>1, <1>2

-----------------------------------------------------------------------------
(* Pages *)

(* PAGE_SIZE and its order. *)
LEMMA PageFacts ==
  \E p \in Nat \ {0} : /\ PAGE_SIZE = 2^p /\ PAGE_SIZE \in Nat /\ 2 <= PAGE_SIZE
                       /\ PAGE_SIZE % 2 = 0
<1>1. PICK p \in 1..PAGE_SIZE : PAGE_SIZE = 2^p
  BY MemoryInitAssumption
<1>2. p \in Nat \ {0} /\ p - 1 \in Nat /\ (p - 1) + 1 = p
  BY MemoryInitAssumption
<1>3. 2^p = 2 * 2^(p - 1) /\ 2^(p - 1) \in Nat \ {0}
  BY <1>2, PowStep, PowGt
<1> QED
  BY <1>1, <1>2, <1>3

(* How many whole pages n bytes need. *)
LEMMA CeilFacts ==
  ASSUME NEW n \in Nat \ {0}
  PROVE  /\ div_ceil(n) \in Nat
         /\ n <= div_ceil(n) * PAGE_SIZE
         /\ (div_ceil(n) - 1) * PAGE_SIZE < n
         /\ \A c \in Nat : n <= c * PAGE_SIZE => div_ceil(n) <= c
<1> DEFINE a == n + PAGE_SIZE - 1
           d == a \div PAGE_SIZE
           r == a % PAGE_SIZE
<1>1. PAGE_SIZE \in Nat \ {0}
  BY PageFacts
<1>2. a \in Nat
  BY <1>1
<1>3. d \in Nat /\ r \in 0..(PAGE_SIZE - 1) /\ a = PAGE_SIZE * d + r
  <2> HIDE DEF a
  <2> QED
    BY Zenon, <1>1, <1>2, DivNat
<1>4. div_ceil(n) = d
  BY Zenon DEF div_ceil
<1> HIDE DEF d, r
<1>5. PAGE_SIZE * d = n + PAGE_SIZE - 1 - r
  BY <1>1, <1>3
<1>6. d * PAGE_SIZE = PAGE_SIZE * d /\ (d - 1) * PAGE_SIZE = PAGE_SIZE * d - PAGE_SIZE
  BY <1>1, <1>3
<1>7. n <= d * PAGE_SIZE /\ (d - 1) * PAGE_SIZE < n
  BY <1>1, <1>3, <1>5, <1>6
<1>8. ASSUME NEW c \in Nat, n <= c * PAGE_SIZE PROVE d <= c
  <2> SUFFICES ASSUME c <= d - 1 PROVE FALSE
    BY <1>3
  <2>1. c * PAGE_SIZE <= (d - 1) * PAGE_SIZE
    BY <1>1, <1>3
  <2>2. c * PAGE_SIZE \in Int /\ (d - 1) * PAGE_SIZE \in Int
    BY <1>1, <1>3
  <2> QED
    BY <1>7, <1>8, <2>1, <2>2
<1> QED
  BY <1>3, <1>4, <1>7, <1>8

(* There is only one such number. *)
LEMMA CeilUnique ==
  ASSUME NEW n \in Nat \ {0}
  PROVE  (CHOOSE p \in 0..n : p * PAGE_SIZE >= n /\ (p - 1) * PAGE_SIZE < n) = div_ceil(n)
<1> DEFINE d == div_ceil(n)
           P(p) == p * PAGE_SIZE >= n /\ (p - 1) * PAGE_SIZE < n
<1>1. PAGE_SIZE \in Nat \ {0}
  BY PageFacts
<1>2. /\ d \in Nat /\ n <= d * PAGE_SIZE /\ (d - 1) * PAGE_SIZE < n
      /\ \A c \in Nat : n <= c * PAGE_SIZE => d <= c
  BY Zenon, CeilFacts
<1> HIDE DEF d
<1>3. d <= n
  <2>1. n <= n * PAGE_SIZE
    BY <1>1
  <2> QED
    BY Zenon, <1>2, <2>1
<1>4. d \in 0..n /\ P(d)
  BY <1>1, <1>2, <1>3
<1>5. ASSUME NEW p \in 0..n, P(p) PROVE p = d
  <2>1. p \in Nat /\ n <= p * PAGE_SIZE
    BY <1>1, <1>5
  <2>2. d <= p
    BY Zenon, <1>2, <2>1
  <2>3. ~(d <= p - 1)
    <3> SUFFICES ASSUME d <= p - 1 PROVE FALSE
      OBVIOUS
    <3>1. d * PAGE_SIZE <= (p - 1) * PAGE_SIZE
      BY <1>1, <1>2, <2>1
    <3>2. d * PAGE_SIZE \in Int /\ (p - 1) * PAGE_SIZE \in Int
      BY <1>1, <1>2, <2>1
    <3> QED
      BY <1>2, <1>5, <3>1, <3>2
  <2> QED
    BY <1>2, <2>1, <2>2, <2>3
<1> HIDE DEF P
<1>6. (CHOOSE p \in 0..n : P(p)) = d
  BY <1>4, <1>5
<1> QED
  BY Zenon, <1>6 DEF P, d

(* RAM is a positive number of pages, and its size fits in a word. *)
LEMMA RamPages ==
  ASSUME NEW r \in Rams
  PROVE  /\ r.start \in Nat /\ r.end \in Nat /\ r.end <= MAX
         /\ \E m \in Nat \ {0} : r.end - r.start = m * PAGE_SIZE
         /\ r.end - r.start \in 1..MAX /\ PAGE_SIZE <= r.end - r.start
         /\ (r.end - r.start) % 2 = 0
<1>1. PAGE_SIZE \in Nat \ {0}
  BY PageFacts
<1>2. /\ r \in [start : Nat, end : Nat]
      /\ r.start % PAGE_SIZE = 0 /\ r.end % PAGE_SIZE = 0
      /\ r.start < r.end /\ r.end <= MAX
  BY Zenon, MemoryInitAssumption
<1>3. r.start \in Nat /\ r.end \in Nat
  BY <1>2
<1> DEFINE a == r.start \div PAGE_SIZE
           b == r.end \div PAGE_SIZE
<1>4. a \in Nat /\ b \in Nat /\ r.start = PAGE_SIZE * a + 0 /\ r.end = PAGE_SIZE * b + 0
  <2>1. a \in Nat /\ r.start = PAGE_SIZE * a + (r.start % PAGE_SIZE)
    BY Zenon, <1>1, <1>3, DivNat
  <2>2. b \in Nat /\ r.end = PAGE_SIZE * b + (r.end % PAGE_SIZE)
    BY Zenon, <1>1, <1>3, DivNat
  <2> HIDE DEF a, b
  <2> QED
    BY Zenon, <1>2, <2>1, <2>2
<1> HIDE DEF a, b
<1>5. PAGE_SIZE * a \in Nat /\ PAGE_SIZE * b \in Nat
  BY <1>1, <1>4
<1>6. r.start = PAGE_SIZE * a /\ r.end = PAGE_SIZE * b
  BY <1>4, <1>5
<1>7. a < b
  <2> SUFFICES ASSUME b <= a PROVE FALSE
    BY <1>4
  <2>1. PAGE_SIZE * b <= PAGE_SIZE * a
    BY <1>1, <1>4
  <2> QED
    BY <1>2, <1>5, <1>6, <2>1
<1> DEFINE m == b - a
<1>8. m \in Nat \ {0}
  BY <1>4, <1>7
<1>9. PAGE_SIZE * b - PAGE_SIZE * a = m * PAGE_SIZE
  BY <1>1, <1>4
<1>10. r.end - r.start = m * PAGE_SIZE
  BY Zenon, <1>6, <1>9
<1> HIDE DEF m
<1>11. PAGE_SIZE <= m * PAGE_SIZE
  BY <1>1, <1>8
<1>12. (m * PAGE_SIZE) % 2 = 0
  <2>1. PICK h \in Nat : PAGE_SIZE = 2 * h
    <3>1. PAGE_SIZE % 2 = 0
      BY PageFacts
    <3> QED
      BY <1>1, <3>1
  <2>2. m * PAGE_SIZE = 2 * (m * h) /\ m * h \in Nat
    BY <1>8, <2>1
  <2>3. \A z \in Nat : (2 * z) % 2 = 0
    OBVIOUS
  <2> QED
    BY Zenon, <2>2, <2>3
<1>13. r.end - r.start \in 1..MAX
  BY <1>2, <1>3, WordSize
<1> QED
  BY Zenon, <1>2, <1>3, <1>8, <1>10, <1>11, <1>12, <1>13

-----------------------------------------------------------------------------
(* The fields of Memory *)

(* buddy_high_order is the order of the largest power of two in RAM. *)
LEMMA HighOrder ==
  ASSUME ram \in Rams
  PROVE  /\ mem_size \in 1..MAX /\ PAGE_SIZE <= mem_size
         /\ buddy_high_order \in 0..(Bits - 1)
         /\ buddy_high_order = ilog2(mem_size)
         /\ 2^buddy_high_order \in Nat
         /\ 2^buddy_high_order <= mem_size /\ mem_size < 2^(buddy_high_order + 1)
<1>1. mem_size \in 1..MAX /\ PAGE_SIZE <= mem_size /\ mem_size % 2 = 0
  BY Zenon, RamPages DEF mem_size
<1> DEFINE n == mem_size
           h == find_order(n)
<1>2. n \in Nat \ {0} /\ n \in 0..MAX /\ n + 1 \in Nat \ {0}
  BY <1>1, WordSize
<1>3. buddy_high_order = h
  BY Zenon, <1>2, OrderWord DEF buddy_high_order
<1> HIDE DEF n
<1>4. h \in Nat /\ 2^h \in Nat \ {0} /\ 2^h <= n + 1 /\ n + 1 < 2 * 2^h
  BY Zenon, <1>2, LevelBounds
<1> HIDE DEF h
<1>5. 2^h <= n
  <2>1. CASE h = 0
    BY <1>2, <2>1, PowZero
  <2>2. CASE h # 0
    <3>1. h - 1 \in Nat /\ (h - 1) + 1 = h
      BY <1>4, <2>2
    <3>2. 2^((h - 1) + 1) = 2 * 2^(h - 1) /\ 2^(h - 1) \in Nat
      BY Zenon, <3>1, PowStep
    <3>3. 2^h = 2 * 2^(h - 1)
      BY Zenon, <3>1, <3>2
    <3>4. n % 2 = 0
      BY Zenon, <1>1 DEF n
    <3> QED
      BY <1>2, <1>4, <3>2, <3>3, <3>4
  <2> QED
    BY <2>1, <2>2
<1>6. 2^(h + 1) = 2 * 2^h
  BY <1>4, PowStep
<1>7. n < 2^(h + 1)
  BY <1>2, <1>4, <1>6
<1>8. h = ilog2(n)
  BY Zenon, <1>2, <1>4, <1>5, <1>7, Ilog2
<1>9. h < Bits
  <2> SUFFICES ASSUME Bits <= h PROVE FALSE
    BY <1>4, WordSize
  <2>1. 2^Bits <= 2^h /\ 2^Bits \in Nat /\ MAX = 2^Bits - 1
    BY <1>4, WordSize, PowMono
  <2> QED
    BY <1>2, <1>4, <1>5, <2>1
<1>10. h \in 0..(Bits - 1)
  BY <1>4, <1>9, WordSize
<1> QED
  BY Zenon, <1>1, <1>3, <1>4, <1>5, <1>7, <1>8, <1>10 DEF n

(* The tree has a state for every node down to the single pages, and its depth
   is less than the number of its nodes. *)
LEMMA StackLength ==
  ASSUME ram \in Rams
  PROVE  /\ buddy_node_count \in Nat \ {0}
         /\ buddy_stack_len \in Nat
         /\ 2^buddy_stack_len - 1 <= buddy_node_count
         /\ buddy_stack_len <= buddy_node_count
         /\ \E m \in Nat \ {0} :
              mem_size = m * PAGE_SIZE /\ buddy_node_count = 2 * m - 1
<1>1. PICK p \in Nat \ {0} : PAGE_SIZE = 2^p /\ PAGE_SIZE \in Nat /\ 2 <= PAGE_SIZE
  BY PageFacts
<1>2. PICK m \in Nat \ {0} : mem_size = m * PAGE_SIZE
  BY Zenon, RamPages DEF mem_size
<1>3. buddy_node_count = 2 * m - 1
  <2>1. PAGE_SIZE \in Nat \ {0}
    BY <1>1
  <2>2. (m * PAGE_SIZE) \div PAGE_SIZE = m
    BY Zenon, <2>1, DivMultiple
  <2> QED
    BY Zenon, <1>2, <2>2 DEF buddy_node_count
<1> DEFINE h == buddy_high_order
<1>4. /\ h \in 0..(Bits - 1) /\ 2^h \in Nat /\ 2^h <= mem_size /\ mem_size < 2^(h + 1)
      /\ PAGE_SIZE <= mem_size /\ mem_size \in 1..MAX
  BY Zenon, HighOrder
<1>5. buddy_low_order = p
  <2>1. PAGE_SIZE \in 0..MAX
    BY <1>1, <1>4, WordSize
  <2> QED
    BY Zenon, <1>1, <2>1, OrderWord, OrderOfPower DEF buddy_low_order
<1> HIDE DEF h
<1>6. h \in Nat
  BY <1>4, WordSize
<1>7. p <= h
  <2> SUFFICES ASSUME h + 1 <= p PROVE FALSE
    BY <1>6
  <2>1. 2^(h + 1) <= 2^p /\ 2^(h + 1) \in Nat
    BY <1>6, PowMono, PowGt
  <2> QED
    BY <1>1, <1>4, <2>1, WordSize
<1> DEFINE d == h - p
           t == 2^d
<1>8. d \in Nat /\ p + d = h
  BY <1>6, <1>7
<1>9. t \in Nat \ {0} /\ d < t /\ 2^(d + 1) = 2 * t
  BY <1>8, PowGt, PowStep
<1>10. 2^h = PAGE_SIZE * t
  <2>1. 2^(p + d) = 2^p * 2^d
    BY Zenon, <1>8, PowAdd
  <2> QED
    BY Zenon, <1>1, <1>8, <2>1
<1> HIDE DEF t
<1>11. t <= m
  <2> SUFFICES ASSUME m + 1 <= t PROVE FALSE
    BY <1>9
  <2>1. (m + 1) * PAGE_SIZE <= t * PAGE_SIZE
    BY <1>1, <1>9
  <2>2. (m + 1) * PAGE_SIZE = m * PAGE_SIZE + PAGE_SIZE /\ t * PAGE_SIZE = PAGE_SIZE * t
    BY <1>1, <1>9
  <2>3. m * PAGE_SIZE \in Nat
    BY <1>1
  <2> QED
    BY <1>1, <1>2, <1>4, <1>10, <2>1, <2>2, <2>3
<1>12. buddy_stack_len = d + 1
  BY Zenon, <1>5 DEF buddy_stack_len, h
<1> HIDE DEF d
<1>13. 2^buddy_stack_len = 2 * t
  BY Zenon, <1>9, <1>12
<1>14. /\ buddy_node_count \in Nat \ {0} /\ buddy_stack_len \in Nat
       /\ 2^buddy_stack_len - 1 <= buddy_node_count
       /\ buddy_stack_len <= buddy_node_count
  BY <1>3, <1>8, <1>9, <1>11, <1>12, <1>13
<1> QED
  BY Zenon, <1>2, <1>3, <1>14

(* The pages of the two areas: no size and no sum of Memory::new exceeds a
   word, since the reserved region lies below RAM. *)
LEMMA NoWrap ==
  ASSUME ram \in Rams, NEW a \in Nat, a <= ram.start
  PROVE  LET n == buddy_node_count
             c == div_ceil(n)
             d == div_ceil(n * WORD)
         IN  /\ n * WORD \in Nat \ {0}
             /\ buddy_stack_size = n * WORD
             /\ c \in Nat /\ d \in Nat
             /\ c * PAGE_SIZE \in Nat /\ d * PAGE_SIZE \in Nat
             /\ n <= c * PAGE_SIZE /\ n * WORD <= d * PAGE_SIZE
             /\ Wrap(c * PAGE_SIZE) = c * PAGE_SIZE
             /\ Wrap(d * PAGE_SIZE) = d * PAGE_SIZE
             /\ Wrap(a + c * PAGE_SIZE) = a + c * PAGE_SIZE
             /\ Wrap(a + d * PAGE_SIZE) = a + d * PAGE_SIZE
<1> DEFINE n == buddy_node_count
           c == div_ceil(n)
           d == div_ceil(n * WORD)
<1>1. /\ PAGE_SIZE \in Nat \ {0} /\ 2 <= PAGE_SIZE
      /\ WORD \in Nat \ {0} /\ 2 * WORD <= PAGE_SIZE
  BY PageFacts, MemoryInitAssumption
<1>2. PICK m \in Nat \ {0} : mem_size = m * PAGE_SIZE /\ n = 2 * m - 1
  BY Zenon, StackLength
<1>3. ram.start \in Nat /\ ram.end \in Nat /\ ram.end <= MAX
  BY Zenon, RamPages
<1>4. m * PAGE_SIZE \in Nat /\ ram.start + m * PAGE_SIZE = ram.end
  <2>1. m * PAGE_SIZE \in Nat
    BY <1>1
  <2> QED
    BY <1>2, <1>3, <2>1 DEF mem_size
<1>5. a + m * PAGE_SIZE <= MAX /\ m * PAGE_SIZE <= MAX
  BY <1>3, <1>4, WordSize
<1> HIDE DEF n
<1>6. n \in Nat \ {0} /\ n * WORD \in Nat \ {0} /\ n <= m * PAGE_SIZE
  <2>1. n \in Nat \ {0} /\ n <= m * 2
    BY <1>2
  <2>2. m * 2 <= m * PAGE_SIZE
    BY <1>1
  <2>3. n * WORD \in Nat \ {0}
    BY <1>1, <2>1
  <2> QED
    BY <1>4, <2>1, <2>2, <2>3
<1>7. n * WORD <= m * PAGE_SIZE
  <2>1. n * WORD <= (2 * m) * WORD
    BY <1>1, <1>2
  <2>2. (2 * m) * WORD = m * (2 * WORD)
    BY <1>1
  <2>3. m * (2 * WORD) <= m * PAGE_SIZE
    BY <1>1
  <2>4. m * (2 * WORD) \in Nat
    BY <1>1
  <2> QED
    BY <1>4, <1>6, <2>1, <2>2, <2>3, <2>4
<1>8. c \in Nat /\ n <= c * PAGE_SIZE /\ c <= m
  BY Zenon, <1>6, CeilFacts
<1>9. d \in Nat /\ n * WORD <= d * PAGE_SIZE /\ d <= m
  BY Zenon, <1>6, <1>7, CeilFacts
<1>10. buddy_stack_size = n * WORD
  <2>1. n * WORD \in 0..MAX
    BY <1>4, <1>5, <1>6, <1>7, WordSize
  <2>2. Wrap(n * WORD) = n * WORD
    BY Zenon, <2>1, WrapSmall
  <2> QED
    BY Zenon, <2>2 DEF buddy_stack_size, buddy_meta_size, n
<1>11. ASSUME NEW e \in Nat, e <= m
       PROVE  /\ e * PAGE_SIZE \in Nat
              /\ Wrap(e * PAGE_SIZE) = e * PAGE_SIZE
              /\ Wrap(a + e * PAGE_SIZE) = a + e * PAGE_SIZE
  <2>1. e * PAGE_SIZE <= m * PAGE_SIZE /\ e * PAGE_SIZE \in Nat
    BY <1>1, <1>11
  <2>2. e * PAGE_SIZE \in 0..MAX /\ a + e * PAGE_SIZE \in 0..MAX
    BY <1>4, <1>5, <2>1, WordSize
  <2> QED
    BY Zenon, <2>1, <2>2, WrapSmall
<1> HIDE DEF c, d
<1>12. /\ c * PAGE_SIZE \in Nat /\ d * PAGE_SIZE \in Nat
       /\ Wrap(c * PAGE_SIZE) = c * PAGE_SIZE
       /\ Wrap(d * PAGE_SIZE) = d * PAGE_SIZE
       /\ Wrap(a + c * PAGE_SIZE) = a + c * PAGE_SIZE
       /\ Wrap(a + d * PAGE_SIZE) = a + d * PAGE_SIZE
  BY Zenon, <1>8, <1>9, <1>11
<1> QED
  BY Zenon, <1>6, <1>8, <1>9, <1>10, <1>12 DEF n, c, d

-----------------------------------------------------------------------------
(* The inductive invariant *)

(* The blocks as page_alloc returns them when no sum wraps: buddy_stack right
   after the whole pages of buddy_meta. *)
MetaBlock ==
  [addr |-> reserve.start, size |-> div_ceil(buddy_node_count) * PAGE_SIZE,
   used |-> buddy_node_count]

StackBlock ==
  [addr |-> MetaBlock.addr + MetaBlock.size,
   size |-> div_ceil(buddy_node_count * WORD) * PAGE_SIZE,
   used |-> buddy_node_count * WORD]

(* Where InitialAlloc stands, and what Memory::new has placed so far. *)
AreasInv ==
  /\ pc \in {"meta", "stack", "ready", "memory_panic", "size_panic"}
  /\ pc = "meta" => next = reserve.start
  /\ pc = "stack" =>
       meta = MetaBlock /\ next = StackBlock.addr /\ next <= reserve.end
  /\ pc = "ready" =>
       /\ meta = MetaBlock /\ stack = StackBlock
       /\ next = StackBlock.addr + StackBlock.size /\ next <= reserve.end
  /\ pc = "memory_panic" => reserve.end < StackBlock.addr + StackBlock.size

(* What buddy_alloc's answer says of the request. *)
ReturnInv ==
  /\ ret.n \in Nat
  /\ ret.level \in {"none", "OutOfMemory", "ZeroSize", "too_large", "search", "underflow"}
  /\ ret.level \in {"none", "OutOfMemory", "ZeroSize"} => ret.n \notin 1..mem_size
  /\ ret.level \in {"too_large", "search", "underflow"} =>
       ret.n \in 1..mem_size /\ ret.size = Rounded(ret.n)
  /\ ret.level = "too_large" => ret.size = None
  /\ ret.level = "search" =>
       ret.size # None /\ ~(find_order_word(ret.size) > buddy_high_order)
  /\ ret.level = "underflow" =>
       ret.size # None /\ find_order_word(ret.size) > buddy_high_order

Inv == ram \in Rams /\ reserve \in Reserves /\ AreasInv /\ ReturnInv

(* The reserved region, as kernel.ld places it. *)
LEMMA Regions ==
  ASSUME ram \in Rams, reserve \in Reserves
  PROVE  /\ reserve.start \in Nat /\ reserve.end \in Nat
         /\ reserve.start <= reserve.end /\ reserve.end <= ram.start
         /\ reserve.start % PAGE_SIZE = 0
<1>1. reserve \in [start : Nat, end : Nat]
  BY Zenon, MemoryInitAssumption
<1>2. reserve.start <= reserve.end /\ reserve.start % PAGE_SIZE = 0
  BY Zenon, MemoryInitAssumption
<1>3. reserve.end <= ram.start
  BY Zenon, MemoryInitAssumption
<1> QED
  BY <1>1, <1>2, <1>3

(* page_alloc compares and returns what it means to. *)
LEMMA Placed ==
  ASSUME ram \in Rams, reserve \in Reserves, next \in Nat, next <= reserve.end
  PROVE  LET c == div_ceil(buddy_meta_size)
             d == div_ceil(buddy_stack_size)
         IN  /\ MetaBlock.size \in Nat /\ StackBlock.size \in Nat
             /\ PageAlloc(c, buddy_node_count)
                  = [addr |-> next, size |-> MetaBlock.size, used |-> MetaBlock.used]
             /\ PageAlloc(d, buddy_meta_size * WORD)
                  = [addr |-> next, size |-> StackBlock.size, used |-> StackBlock.used]
             /\ BlockEnd(c) = next + MetaBlock.size
             /\ BlockEnd(d) = next + StackBlock.size
<1>1. next <= ram.start
  <2>1. /\ reserve.end \in Nat /\ reserve.end <= ram.start /\ ram.start \in Nat
    BY Zenon, Regions, RamPages
  <2> QED
    BY <2>1
<1> DEFINE n == buddy_node_count
           c == div_ceil(n)
           d == div_ceil(n * WORD)
<1>2. /\ buddy_stack_size = n * WORD
      /\ c * PAGE_SIZE \in Nat /\ d * PAGE_SIZE \in Nat
      /\ Wrap(c * PAGE_SIZE) = c * PAGE_SIZE
      /\ Wrap(d * PAGE_SIZE) = d * PAGE_SIZE
      /\ Wrap(next + c * PAGE_SIZE) = next + c * PAGE_SIZE
      /\ Wrap(next + d * PAGE_SIZE) = next + d * PAGE_SIZE
  BY Zenon, <1>1, NoWrap
<1>3. /\ MetaBlock.size = c * PAGE_SIZE /\ MetaBlock.used = n
      /\ StackBlock.size = d * PAGE_SIZE /\ StackBlock.used = n * WORD
  BY Zenon DEF MetaBlock, StackBlock
<1>4. /\ div_ceil(buddy_meta_size) = c /\ div_ceil(buddy_stack_size) = d
      /\ buddy_meta_size = n
  BY Zenon, <1>2 DEF buddy_meta_size
<1> HIDE DEF n, c, d
<1> QED
  BY Zenon, <1>2, <1>3, <1>4 DEF PageAlloc, BlockEnd, n

(* The fields of Memory and the two blocks depend on the regions alone. *)
LEMMA FieldsUnchanged ==
  ASSUME ram' = ram, reserve' = reserve
  PROVE  /\ mem_size' = mem_size /\ buddy_node_count' = buddy_node_count
         /\ buddy_high_order' = buddy_high_order
         /\ MetaBlock' = MetaBlock /\ StackBlock' = StackBlock
<1>1. mem_size' = mem_size
  BY Zenon DEF mem_size
<1>2. buddy_node_count' = buddy_node_count /\ buddy_high_order' = buddy_high_order
  BY Zenon, <1>1 DEF buddy_node_count, buddy_high_order
<1>3. MetaBlock' = MetaBlock
  BY Zenon, <1>2 DEF MetaBlock
<1>4. StackBlock' = StackBlock
  BY Zenon, <1>2, <1>3 DEF StackBlock
<1> QED
  BY Zenon, <1>1, <1>2, <1>3, <1>4

(* Each step of Memory::new places the next area after the last one. *)
LEMMA AreasStep ==
  ASSUME ram \in Rams, reserve \in Reserves, AreasInv, [Next]_vars
  PROVE  ram' = ram /\ reserve' = reserve /\ AreasInv'
<1> USE DEF AreasInv
<1>r. /\ reserve.start \in Nat /\ reserve.end \in Nat
      /\ reserve.start <= reserve.end
  BY Zenon, Regions
<1>b. /\ MetaBlock.addr = reserve.start
      /\ StackBlock.addr = MetaBlock.addr + MetaBlock.size
  BY Zenon DEF MetaBlock, StackBlock
<1>p. ASSUME next \in Nat, next <= reserve.end
      PROVE  /\ MetaBlock.size \in Nat /\ StackBlock.size \in Nat
             /\ PageAlloc(div_ceil(buddy_meta_size), buddy_node_count)
                  = [addr |-> next, size |-> MetaBlock.size, used |-> MetaBlock.used]
             /\ PageAlloc(div_ceil(buddy_stack_size), buddy_meta_size * WORD)
                  = [addr |-> next, size |-> StackBlock.size, used |-> StackBlock.used]
             /\ BlockEnd(div_ceil(buddy_meta_size)) = next + MetaBlock.size
             /\ BlockEnd(div_ceil(buddy_stack_size)) = next + StackBlock.size
  BY Zenon, <1>p, Placed
<1>s. MetaBlock.size \in Nat /\ StackBlock.size \in Nat
  <2>1. ram.start \in Nat
    BY Zenon, RamPages
  <2>2. reserve.start <= ram.start
    BY <1>r, <2>1, Regions
  <2>3. /\ div_ceil(buddy_node_count) * PAGE_SIZE \in Nat
        /\ div_ceil(buddy_node_count * WORD) * PAGE_SIZE \in Nat
    BY Zenon, <1>r, <2>2, NoWrap
  <2> QED
    BY Zenon, <2>3 DEF MetaBlock, StackBlock
<1>m. pc = "meta" => next = reserve.start /\ next \in Nat /\ next <= reserve.end
  BY Zenon, <1>r
<1>n. pc = "stack" =>
        next = reserve.start + MetaBlock.size /\ next \in Nat /\ next <= reserve.end
  BY <1>r, <1>b, <1>s
<1>1. CASE NewMeta
  <2>1. /\ pc = "meta" /\ pc' = "stack" /\ ram' = ram /\ reserve' = reserve
        /\ meta' = [addr |-> next, size |-> MetaBlock.size, used |-> MetaBlock.used]
        /\ next' = next + MetaBlock.size
        /\ next + MetaBlock.size <= reserve.end
    BY Zenon, <1>1, <1>m, <1>p DEF NewMeta, Fits, Advance
  <2>2. meta' = MetaBlock
    BY Zenon, <1>m, <1>b, <2>1 DEF MetaBlock
  <2>3. next' = StackBlock.addr /\ next' <= reserve.end
    BY Zenon, <1>m, <1>b, <2>1
  <2> QED
    BY Zenon, <2>1, <2>2, <2>3, FieldsUnchanged
<1>2. CASE NewStack
  <2>1. /\ pc = "stack" /\ pc' = "ready" /\ ram' = ram /\ reserve' = reserve
        /\ meta' = meta
        /\ stack' = [addr |-> next, size |-> StackBlock.size, used |-> StackBlock.used]
        /\ next' = next + StackBlock.size
        /\ next + StackBlock.size <= reserve.end
    BY Zenon, <1>2, <1>n, <1>p DEF NewStack, Fits, Advance
  <2>2. next = StackBlock.addr /\ meta' = MetaBlock
    BY Zenon, <2>1
  <2>3. stack' = StackBlock
    BY Zenon, <2>1, <2>2 DEF StackBlock
  <2>4. next' = StackBlock.addr + StackBlock.size /\ next' <= reserve.end
    BY Zenon, <2>1, <2>2
  <2> QED
    BY Zenon, <2>1, <2>2, <2>3, <2>4, FieldsUnchanged
<1>3. CASE NoMemory
  <2>1. pc' = "memory_panic" /\ ram' = ram /\ reserve' = reserve
    BY Zenon, <1>3 DEF NoMemory
  <2>2. reserve.end < StackBlock.addr + StackBlock.size
    <3>1. CASE pc = "meta" /\ ~Fits(div_ceil(buddy_meta_size))
      <4>1. ~(reserve.start + MetaBlock.size <= reserve.end)
        BY Zenon, <1>m, <1>p, <3>1 DEF Fits
      <4> QED
        BY <1>r, <1>b, <1>s, <4>1
    <3>2. CASE pc = "stack" /\ ~Fits(div_ceil(buddy_stack_size))
      <4>1. ~(next + StackBlock.size <= reserve.end) /\ next = StackBlock.addr
        BY Zenon, <1>n, <1>p, <3>2 DEF Fits
      <4> QED
        BY <1>r, <1>b, <1>s, <4>1
    <3> QED
      BY Zenon, <1>3, <3>1, <3>2 DEF NoMemory
  <2> QED
    BY Zenon, <2>1, <2>2, FieldsUnchanged
<1>4. ASSUME NEW n \in Requests, buddy_alloc(n)
      PROVE  ram' = ram /\ reserve' = reserve /\ AreasInv'
  <2>1. /\ pc = "ready" /\ pc' \in {"ready", "size_panic"}
        /\ ram' = ram /\ reserve' = reserve
        /\ next' = next /\ meta' = meta /\ stack' = stack
    BY Zenon, <1>4 DEF buddy_alloc
  <2> QED
    BY Zenon, <2>1, FieldsUnchanged
<1>5. CASE UNCHANGED vars
  <2>1. /\ ram' = ram /\ reserve' = reserve /\ pc' = pc
        /\ next' = next /\ meta' = meta /\ stack' = stack
    BY Zenon, <1>5 DEF vars
  <2> QED
    BY Zenon, <2>1, FieldsUnchanged
<1> QED
  BY Zenon, <1>1, <1>2, <1>3, <1>4, <1>5 DEF Next, Halt

(* Each call of buddy_alloc answers by the size of the request. *)
LEMMA ReturnStep ==
  ASSUME ram \in Rams, ReturnInv, ram' = ram, reserve' = reserve, [Next]_vars
  PROVE  ReturnInv'
<1> USE DEF ReturnInv
<1>1. CASE ret' = ret
  BY Zenon, <1>1, FieldsUnchanged DEF Rounded
<1>2. ASSUME NEW n \in Requests, buddy_alloc(n) PROVE ReturnInv'
  <2>1. n \in Nat /\ mem_size \in Nat
    BY HighOrder, MemoryInitAssumption
  <2>2. CASE Refused(n)
    <3>1. ret' = [n |-> n, size |-> None, level |-> "OutOfMemory"]
      BY Zenon, <1>2, <2>2 DEF buddy_alloc, Return
    <3>2. n \notin 1..mem_size
      BY <2>1, <2>2 DEF Refused
    <3>3. ret'.n = n /\ ret'.level = "OutOfMemory"
      BY Zenon, <3>1
    <3> QED
      BY Zenon, <2>1, <3>2, <3>3, FieldsUnchanged
  <2>3. CASE ~Refused(n) /\ n = 0
    <3>1. ret' = [n |-> n, size |-> None, level |-> "ZeroSize"]
      BY Zenon, <1>2, <2>3 DEF buddy_alloc, Return
    <3>2. n \notin 1..mem_size
      BY <2>1, <2>3
    <3>3. ret'.n = n /\ ret'.level = "ZeroSize"
      BY Zenon, <3>1
    <3> QED
      BY Zenon, <2>1, <3>2, <3>3, FieldsUnchanged
  <2>4. CASE ~Refused(n) /\ n # 0 /\ Rounded(n) = None
    <3>1. ret' = [n |-> n, size |-> None, level |-> "too_large"]
      BY Zenon, <1>2, <2>4 DEF buddy_alloc, Return
    <3>2. n \in 1..mem_size
      BY <2>1, <2>4 DEF Refused
    <3>3. ret'.n = n /\ ret'.level = "too_large" /\ ret'.size = None
      BY Zenon, <3>1
    <3> QED
      BY Zenon, <2>1, <2>4, <3>2, <3>3, FieldsUnchanged
  <2>5. CASE ~Refused(n) /\ n # 0 /\ Rounded(n) # None
    <3> DEFINE over == find_order_word(Rounded(n)) > buddy_high_order
    <3>1. ret' = [n |-> n, size |-> Rounded(n),
                  level |-> IF over THEN "underflow" ELSE "search"]
      BY Zenon, <1>2, <2>5 DEF buddy_alloc, Return
    <3>2. n \in 1..mem_size
      BY <2>1, <2>5 DEF Refused
    <3>3. ret'.n = n /\ ret'.size = Rounded(n)
      BY Zenon, <3>1
    <3>4. CASE over
      <4>1. ret'.level = "underflow"
        BY Zenon, <3>1, <3>4
      <4> QED
        BY Zenon, <2>1, <2>5, <3>2, <3>3, <3>4, <4>1, FieldsUnchanged
    <3>5. CASE ~over
      <4>1. ret'.level = "search"
        BY Zenon, <3>1, <3>5
      <4> QED
        BY Zenon, <2>1, <2>5, <3>2, <3>3, <3>5, <4>1, FieldsUnchanged
    <3> QED
      BY Zenon, <3>4, <3>5
  <2> QED
    BY Zenon, <2>2, <2>3, <2>4, <2>5
<1> QED
  BY Zenon, <1>1, <1>2 DEF Next, NewMeta, NewStack, NoMemory, Halt, vars

(* Memory::new places the two areas one after the other in whole pages, and
   buddy_alloc answers by the request's rounded size: the invariant holds in
   every state, for every word and page size, RAM, reserved region and request. *)
THEOREM Invariance == Spec => []Inv
<1>1. Init => Inv
  <2> SUFFICES ASSUME Init PROVE Inv
    OBVIOUS
  <2>1. ret.n = 0 /\ ret.level = "none"
    BY Zenon DEF Init
  <2>2. ret.n \in Nat /\ ret.n \notin 1..mem_size
    BY <2>1
  <2>3. ReturnInv
    BY Zenon, <2>1, <2>2 DEF ReturnInv
  <2>4. ram \in Rams /\ reserve \in Reserves /\ AreasInv
    BY Zenon DEF Init, AreasInv
  <2> QED
    BY Zenon, <2>3, <2>4 DEF Inv
<1>2. Inv /\ [Next]_vars => Inv'
  BY Zenon, AreasStep, ReturnStep DEF Inv
<1> QED
  BY <1>1, <1>2, PTL DEF Spec

-----------------------------------------------------------------------------
(* The properties *)

(* For every word and page size, RAM of whole pages and reserved region below
   it, the two areas of the allocator lie inside the region without overlap,
   and each has room for what is kept there. *)
THEOREM AreasAlwaysFit == Spec => []AreasFit
<1>1. Inv => AreasFit
  <2> SUFFICES ASSUME Inv, pc = "ready" PROVE AreasFit
    BY Zenon DEF AreasFit
  <2> DEFINE n == buddy_node_count
             c == div_ceil(n) * PAGE_SIZE
             d == div_ceil(n * WORD) * PAGE_SIZE
             len == buddy_stack_len
             s == reserve.start
  <2>1. ram \in Rams /\ reserve \in Reserves
    BY Zenon DEF Inv
  <2>2. /\ s \in Nat /\ reserve.end \in Nat /\ s <= reserve.end
        /\ reserve.end <= ram.start /\ s % PAGE_SIZE = 0 /\ ram.start \in Nat
    BY Zenon, <2>1, Regions, RamPages
  <2>3. /\ n * WORD \in Nat \ {0} /\ c \in Nat /\ d \in Nat
        /\ n <= c /\ n * WORD <= d
    <3>1. s <= ram.start
      BY <2>2
    <3> QED
      BY Zenon, <2>1, <2>2, <3>1, NoWrap
  <2>4. n \in Nat \ {0} /\ len \in Nat /\ 2^len - 1 <= n /\ len <= n
    BY Zenon, <2>1, StackLength
  <2>5. /\ meta.addr = s /\ meta.used = n
        /\ stack.addr = s + c /\ stack.used = n * WORD
        /\ next = (s + c) + d /\ next <= reserve.end
    <3>1. /\ meta = MetaBlock /\ stack = StackBlock
          /\ next = StackBlock.addr + StackBlock.size /\ next <= reserve.end
      BY Zenon DEF Inv, AreasInv
    <3>2. MetaBlock.addr = s /\ MetaBlock.size = c /\ MetaBlock.used = n
      BY Zenon DEF MetaBlock
    <3>3. StackBlock.addr = s + c /\ StackBlock.size = d /\ StackBlock.used = n * WORD
      BY Zenon, <3>2 DEF StackBlock
    <3> HIDE DEF n, c, d, s
    <3> QED
      BY Zenon, <3>1, <3>2, <3>3
  <2>6. (s + c) % PAGE_SIZE = 0
    <3> DEFINE q == s \div PAGE_SIZE
               e == div_ceil(n)
    <3>1. PAGE_SIZE \in Nat \ {0} /\ e \in Nat
      <4>1. PAGE_SIZE \in Nat \ {0}
        BY PageFacts
      <4> QED
        BY Zenon, <2>4, <4>1, CeilFacts
    <3>2. q \in Nat /\ s = PAGE_SIZE * q + (s % PAGE_SIZE)
      BY Zenon, <2>2, <3>1, DivNat
    <3>3. s = PAGE_SIZE * q + 0
      BY Zenon, <2>2, <3>2
    <3> HIDE DEF q, e, s
    <3>4. PAGE_SIZE * q + 0 = q * PAGE_SIZE /\ q + e \in Nat
      BY <3>1, <3>2
    <3>5. q * PAGE_SIZE + e * PAGE_SIZE = (q + e) * PAGE_SIZE
      BY <3>1, <3>2
    <3>6. s + e * PAGE_SIZE = (q + e) * PAGE_SIZE
      BY Zenon, <3>3, <3>4, <3>5
    <3>7. (s + e * PAGE_SIZE) % PAGE_SIZE = 0
      BY Zenon, <3>1, <3>4, <3>6, DivMultiple
    <3> QED
      BY Zenon, <3>7 DEF e
  <2>7. len * WORD <= n * WORD
    <3>1. WORD \in Nat
      BY MemoryInitAssumption
    <3> HIDE DEF len, n
    <3> QED
      BY <2>4, <3>1
  <2> HIDE DEF n, c, d, len, s
  <2>8. s <= s /\ s + n <= s + c /\ (s + c) + n * WORD <= (s + c) + d
    BY <2>2, <2>3, <2>4
  <2>9. /\ s <= meta.addr /\ meta.addr + meta.used <= stack.addr
        /\ stack.addr + stack.used <= next /\ next <= reserve.end
        /\ meta.addr % PAGE_SIZE = 0 /\ stack.addr % PAGE_SIZE = 0
        /\ 2^len - 1 <= meta.used /\ len * WORD <= stack.used
    BY Zenon, <2>2, <2>4, <2>5, <2>6, <2>7, <2>8
  <2> QED
    BY Zenon, <2>9 DEF AreasFit, len, s
<1> QED
  BY <1>1, Invariance, PTL

(* Memory::new panics only when the reserved region has no room for the two
   areas: nothing that page_alloc adds up or multiplies can wrap. *)
THEOREM PanicsOnlyForCause == Spec => []PanicsForCause
<1>1. Inv => PanicsForCause
  <2> SUFFICES ASSUME Inv, pc = "memory_panic" PROVE PanicsForCause
    BY Zenon DEF PanicsForCause
  <2> DEFINE n == buddy_node_count
             e == div_ceil(n)
             f == div_ceil(n * WORD)
             s == reserve.start
  <2>1. ram \in Rams /\ reserve \in Reserves
    BY Zenon DEF Inv
  <2>2. /\ s \in Nat /\ reserve.end \in Nat /\ s <= reserve.end
        /\ reserve.end <= ram.start /\ ram.start \in Nat
    BY Zenon, <2>1, Regions, RamPages
  <2>3. n * WORD \in Nat \ {0} /\ e \in Nat /\ f \in Nat
    <3>1. s <= ram.start
      BY <2>2
    <3> QED
      BY Zenon, <2>1, <2>2, <3>1, NoWrap
  <2>4. n \in Nat \ {0}
    BY Zenon, <2>1, StackLength
  <2>5. reserve.end < (s + e * PAGE_SIZE) + f * PAGE_SIZE
    BY Zenon DEF Inv, AreasInv, MetaBlock, StackBlock
  <2>6. PAGE_SIZE \in Nat
    BY PageFacts
  <2> HIDE DEF e, f, s, n
  <2>7. e * PAGE_SIZE + f * PAGE_SIZE = PAGE_SIZE * (e + f)
        /\ e * PAGE_SIZE \in Nat /\ f * PAGE_SIZE \in Nat
    BY <2>3, <2>6
  <2>8. reserve.end - s < PAGE_SIZE * (e + f)
    BY <2>2, <2>5, <2>7
  <2> DEFINE Pages(m) == CHOOSE p \in 0..m : p * PAGE_SIZE >= m /\ (p - 1) * PAGE_SIZE < m
  <2>9. Pages(n) = e /\ Pages(n * WORD) = f
    BY Zenon, <2>3, <2>4, CeilUnique DEF e, f
  <2> HIDE DEF Pages
  <2>10. reserve.end - s < PAGE_SIZE * (Pages(n) + Pages(n * WORD))
    BY Zenon, <2>8, <2>9
  <2> QED
    BY Zenon, <2>10 DEF PanicsForCause, Pages, n, s
<1> QED
  BY <1>1, Invariance, PTL

(* Where a request finds its level: exactly the requests up to the largest
   power of two in RAM are rounded to a word whose order the tree has. *)
LEMMA RoundedOrder ==
  ASSUME ram \in Rams, NEW n \in 1..mem_size
  PROVE  LET found == /\ Rounded(n) # None
                      /\ ~(find_order_word(Rounded(n)) > buddy_high_order)
         IN  /\ found <=> n <= 2^buddy_high_order
             /\ found =>
                  /\ Rounded(n) = next_power_of_two(IF n < PAGE_SIZE THEN PAGE_SIZE ELSE n)
                  /\ Rounded(n) <= 2^buddy_high_order
<1> DEFINE b == IF n < PAGE_SIZE THEN PAGE_SIZE ELSE n
           h == buddy_high_order
           f == find_order_word(Rounded(n))
<1>1. /\ mem_size \in 1..MAX /\ PAGE_SIZE <= mem_size
      /\ h \in 0..(Bits - 1) /\ 2^h \in Nat /\ 2^h <= mem_size /\ mem_size < 2^(h + 1)
  BY Zenon, HighOrder
<1>2. PICK p \in Nat \ {0} : PAGE_SIZE = 2^p /\ PAGE_SIZE \in Nat /\ 2 <= PAGE_SIZE
  BY PageFacts
<1> HIDE DEF h
<1>3. h \in Nat /\ n \in Nat \ {0} /\ b \in Nat \ {0} /\ b \in 1..MAX /\ 2 <= b /\ n <= b
  BY <1>1, <1>2, WordSize
<1>4. PAGE_SIZE <= 2^h
  <2> SUFFICES p <= h
    BY <1>2, <1>3, PowMono
  <2> SUFFICES ASSUME h + 1 <= p PROVE FALSE
    BY <1>3
  <2>1. 2^(h + 1) <= 2^p /\ 2^(h + 1) \in Nat
    BY <1>3, PowMono, PowGt
  <2> QED
    BY <1>1, <1>2, <2>1, WordSize
<1>5. n <= 2^h <=> b <= 2^h
  BY <1>1, <1>3, <1>4
<1>6. 2^h <= 2^(Bits - 1)
  BY <1>1, <1>3, WordSize, PowMono
<1>7. Rounded(n) = next_power_of_two_word(b)
  BY Zenon DEF Rounded
<1> HIDE DEF b
<1>8. CASE 2^(Bits - 1) < b
  <2>1. Rounded(n) = None
    BY Zenon, <1>3, <1>7, <1>8, NextPowerWord
  <2>2. ~(n <= 2^h)
    BY <1>1, <1>3, <1>5, <1>6, <1>8, WordSize
  <2> QED
    BY Zenon, <2>1, <2>2 DEF h
<1>9. CASE b <= 2^(Bits - 1)
  <2>1. PICK k \in 0..(Bits - 1) :
          /\ next_power_of_two_word(b) = 2^k /\ next_power_of_two(b) = 2^k
          /\ b <= 2^k /\ \A j \in 0..(k - 1) : 2^j < b
    BY Zenon, <1>3, <1>9, NextPowerWord
  <2>2. k \in Nat /\ 2^k \in Nat \ {0}
    BY <2>1, WordSize, PowGt
  <2>3. k # 0
    <3> SUFFICES ASSUME k = 0 PROVE FALSE
      OBVIOUS
    <3>1. 2^k = 1
      BY Zenon, PowZero
    <3> QED
      BY <1>3, <2>1, <3>1
  <2>4. 2^k <= 2^(Bits - 1)
    BY <2>2, WordSize, PowMono
  <2>5. 2^k \in 0..MAX
    BY <2>2, <2>4, WordSize
  <2>6. find_order_word(2^k) = k
    BY Zenon, <2>2, <2>3, <2>5, OrderWord, OrderOfPower
  <2>7. Rounded(n) = 2^k /\ f = k
    BY Zenon, <1>7, <2>1, <2>6
  <2>8. Rounded(n) # None
    BY <2>2, <2>7 DEF None
  <2>9. ~(k > h) => b <= 2^h /\ 2^k <= 2^h
    <3>1. ASSUME k <= h PROVE b <= 2^h /\ 2^k <= 2^h
      <4>1. 2^k <= 2^h
        BY <1>3, <2>2, <3>1, PowMono
      <4> QED
        BY <1>1, <1>3, <2>1, <2>2, <4>1
    <3> QED
      BY <1>3, <2>2, <3>1
  <2>10. k > h => ~(b <= 2^h)
    <3>1. ASSUME k > h PROVE 2^h < b
      <4>1. h \in 0..(k - 1)
        BY <1>3, <2>2, <3>1
      <4> QED
        BY Zenon, <2>1, <4>1
    <3> QED
      BY <1>1, <1>3, <3>1
  <2> HIDE DEF f
  <2>11. /\ (Rounded(n) # None /\ ~(f > h)) <=> n <= 2^h
         /\ ~(f > h) => Rounded(n) = next_power_of_two(b) /\ Rounded(n) <= 2^h
    BY Zenon, <1>5, <2>1, <2>7, <2>8, <2>9, <2>10
  <2> QED
    BY Zenon, <2>11 DEF b, f, h
<1> QED
  BY <1>3, <1>8, <1>9, WordSize

(* buddy_alloc searches for the least power of two that holds the request and
   is at least a page: the bit smearing, the saturating branch and the check
   for an overflow compute what they should for every word size. *)
THEOREM AlwaysSearchesLeastSize == Spec => []SearchesLeastSize
<1>1. Inv => SearchesLeastSize
  <2> SUFFICES ASSUME Inv, ret.level = "search" PROVE SearchesLeastSize
    BY Zenon DEF SearchesLeastSize
  <2>1. /\ ram \in Rams /\ ret.n \in 1..mem_size /\ ret.size = Rounded(ret.n)
        /\ ret.size # None /\ ~(find_order_word(ret.size) > buddy_high_order)
    BY Zenon DEF Inv, ReturnInv
  <2>2. /\ ret.size = next_power_of_two(IF ret.n < PAGE_SIZE THEN PAGE_SIZE ELSE ret.n)
        /\ ret.size <= 2^buddy_high_order
    BY Zenon, <2>1, RoundedOrder
  <2>3. 2^buddy_high_order <= mem_size
    BY Zenon, <2>1, HighOrder
  <2> QED
    BY Zenon, <2>2, <2>3 DEF SearchesLeastSize
<1> QED
  BY <1>1, Invariance, PTL

(* The requests for which the tree has no level are those above the largest
   power of two in RAM, and they only; on a RAM that is a power of two there
   is none. *)
THEOREM LevelMissingExactly == Spec => []LevelMissing
<1>1. Inv => LevelMissing
  <2> SUFFICES ASSUME Inv PROVE LevelMissing
    OBVIOUS
  <2> DEFINE found == /\ Rounded(ret.n) # None
                      /\ ~(find_order_word(Rounded(ret.n)) > buddy_high_order)
             missing == ret.level \in {"underflow", "too_large"}
             h == buddy_high_order
  <2>1. ram \in Rams /\ ret.n \in Nat
    BY Zenon DEF Inv, ReturnInv
  <2>2. h = ilog2(mem_size) /\ 2^h \in Nat
    BY Zenon, <2>1, HighOrder
  <2>3. CASE ret.level \in {"none", "OutOfMemory", "ZeroSize"}
    <3>1. ret.n \notin 1..mem_size /\ ~missing
      BY Zenon, <2>3 DEF Inv, ReturnInv
    <3> QED
      BY Zenon, <3>1 DEF LevelMissing
  <2>4. CASE ret.level \in {"too_large", "search", "underflow"}
    <3>1. ret.n \in 1..mem_size /\ (missing <=> ~found)
      BY Zenon, <2>4 DEF Inv, ReturnInv
    <3>2. found <=> ret.n <= 2^h
      BY Zenon, <2>1, <3>1, RoundedOrder
    <3> HIDE DEF found, missing, h
    <3>3. missing <=> 2^h < ret.n
      <4>1. ret.n <= 2^h <=> ~(2^h < ret.n)
        BY <2>1, <2>2
      <4> QED
        BY Zenon, <3>1, <3>2, <4>1
    <3> QED
      BY Zenon, <2>2, <3>1, <3>3 DEF LevelMissing, missing
  <2> QED
    BY Zenon, <2>3, <2>4 DEF Inv, ReturnInv
<1> QED
  BY <1>1, Invariance, PTL

=============================================================================
