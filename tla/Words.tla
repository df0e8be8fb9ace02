--------------------------------- MODULE Words ----------------------------------
(***************************************************************************)
(* find_order and next_power_of_two of rust/src/mem.rs as the code has     *)
(* them, on machine words of 2^Rounds bits: the branches at the ends of    *)
(* the range and the bit smearing.  Orders has what they should compute.   *)
(* The kernel's words have 32 bits, for which Rounds = 5; #[cfg] adds the  *)
(* sixth round for 64.                                                     *)
(***************************************************************************)
EXTENDS Orders

CONSTANT Rounds   \* how many lines x |= x >> 2^r there are

ASSUME RoundsAssumption == Rounds \in Nat \ {0}

Bits == 2^Rounds

MAX == 2^Bits - 1

(* Arithmetic of the release build. *)
Wrap(n) == n % 2^Bits

(* The Option None of next_power_of_two; 0 is no power of two. *)
None == 0

TooLarge_Half(n) == n > MAX \div 2

TooLarge(n) == n > MAX \div 2 + 1

(* let mut x = n - 1 *)
Lowered(n) == n - 1

Bit(x, k) == (x \div 2^k) % 2

(* The word whose bits are set where a bit of x or of y is. *)
x | y ==
  CHOOSE z \in 0..MAX :
    \A k \in 0..(Bits - 1) : Bit(z, k) = 1 <=> Bit(x, k) = 1 \/ Bit(y, k) = 1

(* x |= x >> 2^r *)
Smear(x, r) == x | (x \div 2^(2^r))

(* The value of x after the last round. *)
Smeared ==
  [n \in 1..MAX |->
     LET x[r \in 0..Rounds] == IF r = 0 THEN Lowered(n) ELSE Smear(x[r - 1], r - 1)
     IN  x[Rounds]]

next_power_of_two_word(n) ==
  IF n = 0 THEN 1
  ELSE IF TooLarge(n) THEN None
  ELSE Wrap(Smeared[n] + 1)

(* The word cannot hold usize::MAX + 1: that branch returns the number of
   bits. *)
find_order_word(n) == IF n = MAX THEN Bits ELSE ilog2(Wrap(n + 1))

=============================================================================
