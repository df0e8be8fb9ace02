------------------------------- MODULE BuddyTree -------------------------------
(***************************************************************************)
(* The geometry of the binary tree that the buddy allocator of             *)
(* rust/src/mem.rs keeps in the array buddy_meta.                          *)
(*                                                                         *)
(* Node 0 is the whole RAM region; the children of node i are 2i+1 and     *)
(* 2i+2.  A node at level l stands for a block of 2^(buddy_high_order - l) *)
(* bytes; the nodes of the last level are single pages.                    *)
(*                                                                         *)
(* The two constants are the orders (base-two logarithms) of the RAM size  *)
(* and of the page size.  The kernel image has 64 MiB of RAM (kernel.ld)   *)
(* and 4 KiB pages: mem_order = 26 and page_order = 12.                    *)
(*                                                                         *)
(* A definition whose name has an underscore and a suffix in capitals, as  *)
(* NodeOf_OneOff, is a faulty variant of the definition that follows it.   *)
(* No specification uses it: it stands for a mistake that a property       *)
(* detects.                                                                *)
(***************************************************************************)
EXTENDS Integers, Orders

CONSTANTS
  mem_order,    \* the RAM region given to Memory::new has 2^mem_order bytes
  page_order,   \* PAGE_SIZE = 2^page_order
  ram_start     \* the address of its first byte

(* A page has at least two bytes (find_order is not the logarithm of 1) and
   there are at least two pages. *)
ASSUME OrderAssumption ==
  /\ mem_order \in Nat
  /\ page_order \in Nat \ {0}
  /\ page_order < mem_order

(* kernel.ld aligns __free_ram to a page. *)
ASSUME RamAssumption ==
  /\ ram_start \in Nat
  /\ ram_start % 2^page_order = 0

mem_size == 2^mem_order

PAGE_SIZE == 2^page_order

-----------------------------------------------------------------------------

(* The fields that Memory::new computes. *)
buddy_node_count == 2 * (mem_size \div PAGE_SIZE) - 1

buddy_high_order == find_order(mem_size)

buddy_low_order == find_order(PAGE_SIZE)

buddy_stack_len_NoRoot == buddy_high_order - buddy_low_order

buddy_stack_len == buddy_high_order - buddy_low_order + 1

Node == 0..(buddy_node_count - 1)

Level == 0..(mem_order - page_order)

-----------------------------------------------------------------------------

Parent(i) == (i - 1) \div 2

Left(i) == 2 * i + 1

Right(i) == 2 * i + 2

(* The position of node i among the nodes of its level. *)
AtLevel(i, level) == (1 + i) - 2^level

(* The address that buddy_alloc computes for node i at the given level. *)
BlockAddr(i, level) ==
  ram_start + AtLevel(i, level) * 2^(buddy_high_order - level)

(* The block of RAM that node i stands for. *)
Block(i) == [addr |-> BlockAddr(i, find_order(i)),
             size |-> 2^(buddy_high_order - find_order(i))]

Within(b, c) == c.addr <= b.addr /\ b.addr + b.size <= c.addr + c.size

(* The level and the node that buddy_free computes back from a PhysAddr. *)
LevelOf(b) == buddy_high_order - trailing_zeros(b.size)

NodeOf_OneOff(b) == 2^LevelOf(b) + (b.addr - ram_start) \div b.size

NodeOf(b) == 2^LevelOf(b) - 1 + (b.addr - ram_start) \div b.size

(* p ^ 1 *)
FlipLowBit(p) == IF p % 2 = 0 THEN p + 1 ELSE p - 1

BuddyOf(i, level) == FlipLowBit(AtLevel(i, level)) + 2^level - 1

=============================================================================
