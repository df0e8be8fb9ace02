--------------------------------- MODULE Orders ---------------------------------
(***************************************************************************)
(* Base-two orders: the functions of rust/src/mem.rs and of the core       *)
(* library that the buddy allocator computes with, over the mathematical   *)
(* integers.  MemoryInit runs the bit manipulations of the code, which     *)
(* Words has, and states what they compute.                                *)
(***************************************************************************)
EXTENDS Integers

(* usize::ilog2 of the core library: the position of the highest set bit. *)
ilog2(m) == CHOOSE k \in 0..m : 2^k <= m /\ m < 2^(k + 1)

(* usize::trailing_zeros of the core library, for n # 0. *)
trailing_zeros(n) == CHOOSE k \in 0..n : n % 2^k = 0 /\ n % 2^(k + 1) # 0

(* The branch for n = usize::MAX returns ilog2(2^32) = 32 without computing
   n + 1, so over the mathematical integers both branches are one formula. *)
find_order(n) == ilog2(n + 1)

(* What the bit smearing of next_power_of_two computes for every n that the
   word can represent: the least power of two that is not below n. *)
next_power_of_two(n) ==
  2^(CHOOSE k \in 0..n : n <= 2^k /\ \A j \in 0..(k - 1) : 2^j < n)

=============================================================================
