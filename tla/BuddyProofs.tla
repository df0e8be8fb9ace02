------------------------------- MODULE BuddyProofs -------------------------------
(***************************************************************************)
(* Proofs about the buddy allocator of Buddy, for every RAM size, page     *)
(* size and start address.  First the tree: the level of a node, its       *)
(* children, its parent and its buddy, and the block of RAM it stands for. *)
(* Then the allocator: the state stays well typed, the search stack        *)
(* never overflows, live blocks are disjoint and inside RAM, and only      *)
(* freeing the whole of RAM panics.  A second invariant then says what the *)
(* search has passed, from which: between calls the tree is determined by  *)
(* the live blocks, allocation is first fit, and clients see what          *)
(* BlockAllocator promises them.                                           *)
(***************************************************************************)
EXTENDS Buddy, OrdersProofs

-----------------------------------------------------------------------------
(* The nodes of the tree *)

(* Children are one level down, and only the root has level 0. *)
LEMMA LevelChild ==
  ASSUME NEW i \in Nat
  PROVE  /\ find_order(Left(i)) = find_order(i) + 1
         /\ find_order(Right(i)) = find_order(i) + 1
<1> DEFINE l == find_order(i)
<1>1. l \in Nat /\ 2^l \in Nat \ {0} /\ 2^l <= i + 1 /\ i + 1 < 2 * 2^l
  BY Zenon, LevelBounds
<1>2. l + 1 \in Nat /\ 2^(l + 1) = 2 * 2^l
  BY <1>1, PowStep
<1>3. ASSUME NEW j \in {Left(i), Right(i)} PROVE find_order(j) = l + 1
  <2>1. j \in Nat /\ 2 * (i + 1) <= j + 1 /\ j + 1 <= 2 * (i + 1) + 1
    BY <1>3 DEF Left, Right
  <2>2. 2^(l + 1) <= j + 1 /\ j + 1 < 2 * 2^(l + 1)
    BY <1>1, <1>2, <2>1
  <2> QED
    BY Zenon, <1>2, <2>1, <2>2, LevelUnique
<1> QED
  BY Zenon, <1>3

(* Every node but the root is a child of its parent. *)
LEMMA ParentChild ==
  ASSUME NEW i \in Nat \ {0}
  PROVE  /\ Parent(i) \in Nat
         /\ Parent(i) < i
         /\ i = Left(Parent(i)) \/ i = Right(Parent(i))
         /\ find_order(i) = find_order(Parent(i)) + 1
<1>1. Parent(i) \in Nat /\ Parent(i) < i
  BY DEF Parent
<1>2. i = Left(Parent(i)) \/ i = Right(Parent(i))
  BY DEF Parent, Left, Right
<1> QED
  BY Zenon, <1>1, <1>2, LevelChild

(* The parent of a child is the node itself. *)
LEMMA ChildParent ==
  ASSUME NEW i \in Nat
  PROVE  /\ Left(i) \in Nat \ {0} /\ Parent(Left(i)) = i
         /\ Right(i) \in Nat \ {0} /\ Parent(Right(i)) = i
  BY DEF Parent, Left, Right

-----------------------------------------------------------------------------
(* The tree of Memory::new *)

(* The depth of the tree: the level of its single pages. *)
Depth == mem_order - page_order

(* The fields of Memory hold the two orders, and buddy_stack has an entry for
   each level. *)
LEMMA Orders ==
  /\ buddy_high_order = mem_order
  /\ buddy_low_order = page_order
  /\ buddy_stack_len = Depth + 1
  /\ Depth \in Nat \ {0}
<1>1. mem_order \in Nat \ {0} /\ page_order \in Nat \ {0}
  BY OrderAssumption
<1>2. buddy_high_order = mem_order /\ buddy_low_order = page_order
  BY Zenon, <1>1, OrderOfPower DEF buddy_high_order, buddy_low_order, mem_size, PAGE_SIZE
<1> QED
  BY <1>2, OrderAssumption DEF buddy_stack_len, Depth

(* The number of nodes that Memory::new computes is that of a full tree. *)
LEMMA NodeCount ==
  /\ 2^Depth \in Nat \ {0}
  /\ mem_size = 2^Depth * PAGE_SIZE
  /\ buddy_node_count = 2 * 2^Depth - 1
<1>1. Depth \in Nat /\ page_order \in Nat /\ mem_order = Depth + page_order
  BY OrderAssumption DEF Depth
<1>2. mem_size = 2^Depth * PAGE_SIZE
  BY Zenon, <1>1, PowAdd DEF mem_size, PAGE_SIZE
<1>3. 2^Depth \in Nat \ {0} /\ PAGE_SIZE \in Nat \ {0}
  BY <1>1, PowGt DEF PAGE_SIZE
<1>4. mem_size \div PAGE_SIZE = 2^Depth
  BY Zenon, <1>2, <1>3, DivMultiple
<1> QED
  BY Zenon, <1>2, <1>3, <1>4 DEF buddy_node_count

(* The nodes are the numbers whose level is at most the depth. *)
LEMMA NodeLevel ==
  ASSUME NEW i \in Nat
  PROVE  i \in Node <=> find_order(i) <= Depth
<1> DEFINE l == find_order(i)
<1>1. l \in Nat /\ 2^l \in Nat \ {0} /\ 2^l <= i + 1 /\ i + 1 < 2 * 2^l
  BY LevelBounds
<1>2. Depth \in Nat /\ 2^Depth \in Nat \ {0}
  BY Zenon, Orders, NodeCount
<1>3. i \in Node <=> i + 1 < 2 * 2^Depth
  BY <1>2, NodeCount DEF Node
<1>4. ASSUME l <= Depth PROVE i + 1 < 2 * 2^Depth
  <2>1. 2^l <= 2^Depth
    BY Zenon, <1>1, <1>2, <1>4, PowMono
  <2> QED
    BY <1>1, <1>2, <2>1
<1>5. ASSUME ~(l <= Depth) PROVE ~(i + 1 < 2 * 2^Depth)
  <2>1. Depth < l
    BY <1>1, <1>2, <1>5
  <2>2. 2 * 2^Depth <= 2^l
    BY <1>1, <1>2, <2>1, PowMono
  <2> QED
    BY <1>1, <1>2, <2>2
<1> QED
  BY Zenon, <1>3, <1>4, <1>5

(* The index that buddy_free computes for the buddy is the parent's other
   child; for the root it is the left child. *)
LEMMA Buddies ==
  ASSUME NEW i \in Nat \ {0}
  PROVE  /\ {i, BuddyOf(i, find_order(i))} = {Left(Parent(i)), Right(Parent(i))}
         /\ BuddyOf(i, find_order(i)) \in Nat \ {0}
         /\ Parent(BuddyOf(i, find_order(i))) = Parent(i)
<1> DEFINE p == Parent(i)
           u == 2^find_order(p)
<1>1. /\ p \in Nat
      /\ i = Left(p) \/ i = Right(p)
      /\ find_order(i) = find_order(p) + 1
  BY Zenon, ParentChild
<1>2. u \in Nat \ {0} /\ 2^find_order(i) = 2 * u
  BY Zenon, <1>1, LevelBounds, PowStep
<1> HIDE DEF p, u
<1>3. CASE i = Left(p)
  <2>1. AtLevel(i, find_order(i)) = 2 * (p + 1 - u)
    BY <1>1, <1>2, <1>3 DEF AtLevel, Left
  <2>2. (2 * (p + 1 - u)) % 2 = 0
    BY <1>1, <1>2
  <2>3. BuddyOf(i, find_order(i)) = Right(p)
    BY <1>1, <1>2, <2>1, <2>2 DEF BuddyOf, FlipLowBit, Right
  <2> QED
    BY Zenon, <1>1, <1>3, <2>3, ChildParent DEF p
<1>4. CASE i = Right(p)
  <2>1. AtLevel(i, find_order(i)) = 2 * (p + 1 - u) + 1
    BY <1>1, <1>2, <1>4 DEF AtLevel, Right
  <2>2. (2 * (p + 1 - u) + 1) % 2 # 0
    BY <1>1, <1>2
  <2>3. BuddyOf(i, find_order(i)) = Left(p)
    BY <1>1, <1>2, <2>1, <2>2 DEF BuddyOf, FlipLowBit, Left
  <2> QED
    BY Zenon, <1>1, <1>4, <2>3, ChildParent DEF p
<1> QED
  BY Zenon, <1>1, <1>3, <1>4

(* The buddy that buddy_free computes for the root is the root's left child. *)
LEMMA BuddyRoot == BuddyOf(0, find_order(0)) = 1
<1>1. AtLevel(0, 0) = 0
  BY PowZero DEF AtLevel
<1>2. FlipLowBit(0) = 1
  BY DEF FlipLowBit
<1>3. BuddyOf(0, 0) = 1 + 1 - 1
  BY Zenon, <1>1, <1>2, PowZero DEF BuddyOf
<1> QED
  BY <1>3, LevelRoot

-----------------------------------------------------------------------------
(* Blocks *)

(* The position of a node on its level, and the size of its block. *)
LEMMA BlockShape ==
  ASSUME NEW i \in Node
  PROVE  LET l == find_order(i)
             s == 2^(mem_order - l)
         IN  /\ l \in Level
             /\ AtLevel(i, l) \in 0..(2^l - 1)
             /\ s \in Nat \ {0}
             /\ 2^l * s = mem_size
             /\ s = 2^(Depth - l) * PAGE_SIZE
             /\ 2^(Depth - l) \in Nat \ {0}
             /\ Block(i) = [addr |-> ram_start + AtLevel(i, l) * s, size |-> s]
<1> DEFINE l == find_order(i)
           s == 2^(mem_order - l)
<1>1. i \in Nat
  BY NodeCount DEF Node
<1>2. l \in Nat /\ l <= Depth
  BY Zenon, <1>1, NodeLevel, LevelBounds
<1>3. l \in Level
  BY <1>2, Orders DEF Level, Depth
<1>4. AtLevel(i, l) \in 0..(2^l - 1)
  BY <1>1, LevelBounds DEF AtLevel
<1>5. mem_order - l \in Nat /\ Depth - l \in Nat /\ page_order \in Nat
  BY <1>2, OrderAssumption, Orders DEF Depth
<1>6. 2^l * s = mem_size
  <2>1. l + (mem_order - l) = mem_order
    BY <1>2, OrderAssumption
  <2> QED
    BY Zenon, <1>2, <1>5, <2>1, PowAdd DEF mem_size
<1>7. s = 2^(Depth - l) * PAGE_SIZE
  <2>1. mem_order - l = (Depth - l) + page_order
    BY <1>2, OrderAssumption DEF Depth
  <2> QED
    BY Zenon, <1>5, <2>1, PowAdd DEF PAGE_SIZE
<1>8. s \in Nat \ {0} /\ 2^(Depth - l) \in Nat \ {0}
  BY <1>5, PowGt
<1>9. Block(i) = [addr |-> ram_start + AtLevel(i, l) * s, size |-> s]
  BY Zenon, Orders DEF Block, BlockAddr
<1> QED
  BY Zenon, <1>3, <1>4, <1>6, <1>7, <1>8, <1>9

(* buddy_free recovers the level and the node from the address and the size
   that buddy_alloc returned. *)
LEMMA NodeOfBlock ==
  ASSUME NEW i \in Node
  PROVE  LevelOf(Block(i)) = find_order(i) /\ NodeOf(Block(i)) = i
<1> DEFINE l == find_order(i)
           s == 2^(mem_order - l)
<1>1. /\ l \in Level
      /\ AtLevel(i, l) \in 0..(2^l - 1)
      /\ s \in Nat \ {0}
      /\ Block(i) = [addr |-> ram_start + AtLevel(i, l) * s, size |-> s]
  BY Zenon, BlockShape
<1>2. l \in Nat /\ mem_order - l \in Nat /\ 2^l \in Nat /\ i \in Nat
  BY <1>1, OrderAssumption, PowGt, NodeCount DEF Level, Node
<1>3. LevelOf(Block(i)) = l
  <2>1. trailing_zeros(s) = mem_order - l
    BY Zenon, <1>2, TrailingZeros
  <2> QED
    BY <1>1, <1>2, <2>1, Orders, OrderAssumption DEF LevelOf
<1>4. (Block(i).addr - ram_start) \div Block(i).size = AtLevel(i, l)
  <2> HIDE DEF s
  <2>1. (AtLevel(i, l) * s) \div s = AtLevel(i, l)
    BY <1>1, <1>2, DivMultiple
  <2>2. AtLevel(i, l) * s \in Nat
    BY <1>1, <1>2
  <2>3. Block(i).addr = ram_start + AtLevel(i, l) * s /\ Block(i).size = s
    BY <1>1
  <2>4. Block(i).addr - ram_start = AtLevel(i, l) * s
    BY <2>2, <2>3, RamAssumption
  <2> QED
    BY Zenon, <2>1, <2>3, <2>4
<1>5. NodeOf(Block(i)) = 2^l - 1 + AtLevel(i, l)
  BY Zenon, <1>3, <1>4 DEF NodeOf
<1> QED
  BY <1>2, <1>3, <1>5 DEF AtLevel

(* Blocks lie in RAM and are aligned to a page. *)
LEMMA BlockInRam ==
  ASSUME NEW i \in Node
  PROVE  /\ Block(i) \in [addr : Nat, size : Nat \ {0}]
         /\ ram_start <= Block(i).addr
         /\ Block(i).addr + Block(i).size <= ram_start + mem_size
         /\ Block(i).addr % PAGE_SIZE = 0
<1> DEFINE l == find_order(i)
           s == 2^(mem_order - l)
           a == AtLevel(i, l)
           q == 2^(Depth - l)
<1>1. /\ l \in Level
      /\ a \in 0..(2^l - 1)
      /\ s \in Nat \ {0}
      /\ 2^l * s = mem_size
      /\ s = q * PAGE_SIZE
      /\ q \in Nat \ {0}
      /\ Block(i) = [addr |-> ram_start + a * s, size |-> s]
  BY Zenon, BlockShape
<1>2. 2^l \in Nat /\ PAGE_SIZE \in Nat \ {0}
  BY <1>1, OrderAssumption, PowGt DEF Level, PAGE_SIZE
<1>3. ram_start \in Nat /\ ram_start % PAGE_SIZE = 0
  BY Zenon, RamAssumption DEF PAGE_SIZE
<1> HIDE DEF l, s, a, q
<1>4. a \in Nat /\ a + 1 <= 2^l
  BY <1>1, <1>2
<1>5. a * s \in Nat /\ a * s + s <= 2^l * s
  <2>1. \A x, y, z \in Nat : x + 1 <= y => x * z \in Nat /\ x * z + z <= y * z
    OBVIOUS
  <2> QED
    BY Zenon, <1>1, <1>2, <1>4, <2>1
<1>6. (ram_start + a * s) % PAGE_SIZE = 0
  <2>1. a * s = (a * q) * PAGE_SIZE /\ a * q \in Nat
    BY <1>1, <1>2, <1>4
  <2>2. PICK k \in Nat : ram_start = k * PAGE_SIZE
    <3>1. ram_start \div PAGE_SIZE \in Nat
      BY <1>2, <1>3
    <3>2. ram_start = (ram_start \div PAGE_SIZE) * PAGE_SIZE
      BY <1>2, <1>3
    <3> QED
      BY Zenon, <3>1, <3>2
  <2>3. k + a * q \in Nat
    BY <2>1
  <2>4. ram_start + a * s = (k + a * q) * PAGE_SIZE
    BY <1>2, <2>1, <2>2
  <2> QED
    BY <1>2, <2>3, <2>4, DivMultiple
<1>7. Block(i).addr = ram_start + a * s /\ Block(i).size = s
  BY <1>1
<1>8. Block(i) \in [addr : Nat, size : Nat \ {0}]
  BY <1>1, <1>3, <1>5
<1>9. ram_start <= Block(i).addr
  BY <1>3, <1>5, <1>7
<1>10. Block(i).addr + Block(i).size <= ram_start + mem_size
  BY <1>1, <1>2, <1>3, <1>5, <1>7
<1>11. Block(i).addr % PAGE_SIZE = 0
  BY Zenon, <1>6, <1>7
<1> QED
  BY Zenon, <1>8, <1>9, <1>10, <1>11

(* The block of a node is half of its parent's. *)
LEMMA BlockParent ==
  ASSUME NEW i \in Node \ {0}
  PROVE  Parent(i) \in Node /\ Within(Block(i), Block(Parent(i)))
<1> DEFINE p == Parent(i)
           l == find_order(p)
           u == 2^l
           s == 2^(mem_order - (l + 1))
<1>1. i \in Nat \ {0}
  BY NodeCount DEF Node
<1>2. /\ p \in Nat
      /\ i = Left(p) \/ i = Right(p)
      /\ find_order(i) = l + 1
  BY Zenon, <1>1, ParentChild
<1>3. l \in Nat /\ u \in Nat \ {0} /\ l + 1 <= Depth
  BY Zenon, <1>1, <1>2, NodeLevel, LevelBounds
<1>4. p \in Node
  BY <1>2, <1>3, NodeLevel, Orders
<1>5. 2^(l + 1) = 2 * u
  BY Zenon, <1>3, PowStep
<1>6. mem_order - (l + 1) \in Nat /\ (mem_order - (l + 1)) + 1 = mem_order - l
  BY <1>3, OrderAssumption DEF Depth
<1>7. s \in Nat /\ 2^(mem_order - l) = 2 * s
  BY Zenon, <1>6, PowStep
<1>8. Block(i) = [addr |-> ram_start + (1 + i - 2 * u) * s, size |-> s]
  <2>1. Block(i) = [addr |-> ram_start + AtLevel(i, find_order(i))
                                          * 2^(mem_order - find_order(i)),
                    size |-> 2^(mem_order - find_order(i))]
    BY Zenon, BlockShape
  <2>2. AtLevel(i, find_order(i)) = 1 + i - 2 * u
    BY <1>1, <1>2, <1>3, <1>5 DEF AtLevel
  <2> QED
    BY Zenon, <1>2, <2>1, <2>2
<1>9. Block(p) = [addr |-> ram_start + (1 + p - u) * (2 * s), size |-> 2 * s]
  <2>1. Block(p) = [addr |-> ram_start + AtLevel(p, l) * 2^(mem_order - l),
                    size |-> 2^(mem_order - l)]
    BY Zenon, <1>4, BlockShape
  <2>2. AtLevel(p, l) = 1 + p - u
    BY <1>2, <1>3 DEF AtLevel
  <2> QED
    BY Zenon, <1>7, <2>1, <2>2
<1>10. i = 2 * p + 1 \/ i = 2 * p + 2
  BY Zenon, <1>2 DEF Left, Right
<1> HIDE DEF p, l, u, s
<1>11. (1 + p - u) * (2 * s) = (2 * (1 + p - u)) * s
  BY <1>2, <1>3, <1>7
<1>12. 1 + i - 2 * u = 2 * (1 + p - u) \/ 1 + i - 2 * u = 2 * (1 + p - u) + 1
  BY <1>2, <1>3, <1>10
<1> DEFINE x == 2 * (1 + p - u)
<1>13. x \in Int
  BY <1>2, <1>3
<1>14. (1 + i - 2 * u) * s = x * s \/ (1 + i - 2 * u) * s = x * s + s
  <2>1. (x + 1) * s = x * s + s
    BY <1>7, <1>13
  <2> QED
    BY Zenon, <1>12, <2>1
<1>15. x * s \in Int
  BY <1>7, <1>13
<1> HIDE DEF x
<1>16. Block(p).addr = ram_start + x * s /\ Block(p).size = 2 * s
  BY <1>9, <1>11 DEF x
<1>17. /\ Block(i).addr = ram_start + x * s \/ Block(i).addr = ram_start + (x * s + s)
       /\ Block(i).size = s
  BY <1>8, <1>14
<1>18. Within(Block(i), Block(p))
  BY <1>7, <1>15, <1>16, <1>17, RamAssumption DEF Within
<1> QED
  BY Zenon, <1>4, <1>18 DEF p

(* Two blocks of one level that overlap are the same. *)
LEMMA SameLevel ==
  ASSUME NEW i \in Node, NEW j \in Node, find_order(i) = find_order(j),
         Block(i).addr < Block(j).addr + Block(j).size,
         Block(j).addr < Block(i).addr + Block(i).size
  PROVE  i = j
<1> DEFINE l == find_order(i)
           s == 2^(mem_order - l)
           a == AtLevel(i, l)
           b == AtLevel(j, l)
<1>1. /\ a \in 0..(2^l - 1) /\ b \in 0..(2^l - 1)
      /\ l \in Level
      /\ s \in Nat \ {0}
      /\ Block(i) = [addr |-> ram_start + a * s, size |-> s]
      /\ Block(j) = [addr |-> ram_start + b * s, size |-> s]
  BY Zenon, BlockShape
<1>2. i \in Nat /\ j \in Nat /\ 2^l \in Nat
  BY <1>1, NodeCount, PowGt, OrderAssumption DEF Node, Level
<1>3. a \in Nat /\ b \in Nat
  BY <1>1, <1>2
<1>4. a = b => i = j
  BY <1>2 DEF AtLevel
<1>5. /\ Block(i).addr = ram_start + a * s /\ Block(i).size = s
      /\ Block(j).addr = ram_start + b * s /\ Block(j).size = s
  BY <1>1
<1> HIDE DEF l, s, a, b
<1>6. a * s \in Nat /\ b * s \in Nat
  BY <1>1, <1>3
<1>7. a * s < b * s + s /\ b * s < a * s + s
  BY <1>1, <1>5, <1>6, RamAssumption
<1>8. \A x, y, z \in Nat : x + 1 <= y => x * z + z <= y * z
  OBVIOUS
<1>9. ~(a + 1 <= b) /\ ~(b + 1 <= a)
  BY <1>1, <1>3, <1>6, <1>7, <1>8
<1> QED
  BY <1>3, <1>4, <1>9

(* The rounded request is the size of the blocks of a level, and holds the
   request. *)
LEMMA RequestLevel ==
  ASSUME NEW n \in PAGE_SIZE..mem_size
  PROVE  \E k \in page_order..mem_order :
            /\ next_power_of_two(n) = 2^k
            /\ n <= 2^k
            /\ \A j \in 0..(k - 1) : 2^j < n
            /\ find_order(2^k) = k
<1>1. /\ page_order \in Nat \ {0} /\ mem_order \in Nat \ {0}
      /\ PAGE_SIZE \in Nat \ {0} /\ mem_size \in Nat
      /\ n \in Nat \ {0}
  BY OrderAssumption, PowGt DEF PAGE_SIZE, mem_size
<1>2. PICK k \in Nat :
        next_power_of_two(n) = 2^k /\ n <= 2^k /\ \A j \in 0..(k - 1) : 2^j < n
  BY Zenon, <1>1, NextPowerOfTwo
<1>3. 2^k \in Nat
  BY Zenon, <1>2, PowGt
<1>4. k <= mem_order
  <2> SUFFICES ASSUME mem_order < k PROVE FALSE
    BY <1>1, <1>2
  <2>1. mem_order \in 0..(k - 1)
    BY <1>1, <1>2
  <2> QED
    BY <1>1, <1>2, <2>1 DEF mem_size
<1>5. page_order <= k
  <2> SUFFICES ASSUME k < page_order PROVE FALSE
    BY <1>1, <1>2
  <2>1. 2 * 2^k <= PAGE_SIZE
    BY <1>1, <1>2, PowMono DEF PAGE_SIZE
  <2> QED
    BY <1>1, <1>2, <1>3, <2>1
<1>6. k \in page_order..mem_order /\ k \in Nat \ {0}
  BY <1>1, <1>2, <1>4, <1>5
<1> QED
  BY Zenon, <1>2, <1>6, OrderOfPower

-----------------------------------------------------------------------------
(* The inductive invariant *)

(* The nodes on the stack of buddy_alloc are at most as deep as the request
   and hang below Split nodes.  Each is at least as deep as its place in the
   stack, except that the top may be one level higher: the node that is
   replaced by its two children is always the top. *)
StackInv ==
  /\ pc # "search" => stack = <<>>
  /\ pc = "search" => req.n = 2^(mem_order - req.order)
  /\ \A k \in 1..Len(stack) :
       /\ find_order(stack[k]) <= req.order
       /\ stack[k] # 0 => buddy_meta[Parent(stack[k])] = "Split"
       /\ k - 1 <= find_order(stack[k])
       /\ k < Len(stack) => k <= find_order(stack[k])

(* The node that buddy_free merges is free, its level and its buddy are up to
   date, and its parent is still Split. *)
CurInv ==
  pc = "merge" =>
    /\ cur = Cursor(cur.i, find_order(cur.i))
    /\ buddy_meta[cur.i] = "Free"
    /\ cur.i # 0 => buddy_meta[Parent(cur.i)] = "Split"

AllocatedNodes == {i \in Node : buddy_meta[i] = "Allocated"}

(* The live blocks are those of the Allocated nodes. *)
LiveInv == live = {Block(i) : i \in AllocatedNodes}

Inv ==
  /\ TypeOK
  /\ ParentSplit
  /\ StackInv
  /\ CurInv
  /\ LiveInv
  /\ PanicOnlyForWholeRegion

-----------------------------------------------------------------------------
(* Nodes *)

(* The nodes are an initial segment of the numbers, with levels of the tree. *)
LEMMA NodeFacts ==
  /\ Node \subseteq Nat
  /\ 0 \in Node /\ 1 \in Node
  /\ \A i \in Node : find_order(i) \in Level
  /\ \A i \in Node \ {0} : /\ Parent(i) \in Node
                           /\ find_order(i) = find_order(Parent(i)) + 1
                           /\ BuddyOf(i, find_order(i)) \in Node
  /\ \A i \in Node : find_order(i) < Depth => Left(i) \in Node /\ Right(i) \in Node
<1>1. Node \subseteq Nat /\ 0 \in Node /\ 1 \in Node
  <2>1. 2 * 2^Depth - 1 > 1
    <3>1. Depth \in Nat /\ Depth >= 1 /\ Depth < 2^Depth /\ 2^Depth \in Nat
      BY Orders, PowGt
    <3> QED
      BY <3>1
  <2> QED
    BY <2>1, NodeCount DEF Node
<1>2. \A i \in Node : find_order(i) \in Level
  BY Zenon, BlockShape
<1>3. ASSUME NEW i \in Node, find_order(i) < Depth
      PROVE  Left(i) \in Node /\ Right(i) \in Node
  <2>1. i \in Nat /\ find_order(i) \in Nat /\ Depth \in Nat
    BY Zenon, <1>1, LevelBounds, Orders
  <2>2. Left(i) \in Nat /\ Right(i) \in Nat
    BY Zenon, <2>1, ChildParent
  <2>3. find_order(Left(i)) <= Depth /\ find_order(Right(i)) <= Depth
    BY <1>3, <2>1, LevelChild
  <2> QED
    BY Zenon, <2>2, <2>3, NodeLevel
<1>4. ASSUME NEW i \in Node \ {0}
      PROVE  /\ Parent(i) \in Node
             /\ find_order(i) = find_order(Parent(i)) + 1
             /\ BuddyOf(i, find_order(i)) \in Node
  <2>1. i \in Nat \ {0}
    BY Zenon, <1>1
  <2>2. Parent(i) \in Node /\ find_order(i) = find_order(Parent(i)) + 1
    BY Zenon, <2>1, BlockParent, ParentChild
  <2>3. find_order(Parent(i)) < Depth
    <3>1. find_order(i) \in Level /\ find_order(Parent(i)) \in Level
      BY Zenon, <1>2, <2>2
    <3> QED
      BY <2>2, <3>1, OrderAssumption DEF Level, Depth
  <2>4. BuddyOf(i, find_order(i)) \in {Left(Parent(i)), Right(Parent(i))}
    BY Zenon, <2>1, Buddies
  <2> QED
    BY Zenon, <1>3, <2>2, <2>3, <2>4
<1> QED
  BY Zenon, <1>1, <1>2, <1>3, <1>4

(* Different nodes stand for different blocks. *)
LEMMA BlockInjective ==
  ASSUME NEW i \in Node, NEW j \in Node, Block(i) = Block(j)
  PROVE  i = j
<1>1. NodeOf(Block(i)) = i /\ NodeOf(Block(j)) = j
  BY Zenon, NodeOfBlock
<1> QED
  BY Zenon, <1>1

(* The stack operations of the search. *)
LEMMA StackOps ==
  ASSUME stack \in Seq(Node), stack # <<>>
  PROVE  /\ Len(stack) \in Nat \ {0}
         /\ Top \in Node
         /\ Pop \in Seq(Node)
         /\ Len(Pop) = Len(stack) - 1
         /\ \A k \in 1..(Len(stack) - 1) : Pop[k] = stack[k]
<1>1. Len(stack) \in Nat \ {0}
  OBVIOUS
<1> DEFINE n == Len(stack) - 1
<1>2. n \in Nat /\ n <= Len(stack)
  BY <1>1
<1>3. Pop = SubSeq(stack, 1, n)
  BY Zenon DEF Pop
<1> HIDE DEF n
<1>4. Pop \in Seq(Node) /\ Len(Pop) = n
  BY <1>2, <1>3
<1>5. \A k \in 1..n : Pop[k] = stack[k]
  BY <1>2, <1>3
<1>6. Top \in Node
  BY <1>1 DEF Top
<1> QED
  BY Zenon, <1>1, <1>4, <1>5, <1>6 DEF n

(* What pushing the two children does to the search stack. *)
LEMMA PushTwo ==
  ASSUME NEW s \in Seq(Node), NEW a \in Node, NEW b \in Node
  PROVE  /\ s \o <<a, b>> \in Seq(Node)
         /\ Len(s \o <<a, b>>) = Len(s) + 2
         /\ \A k \in 1..Len(s) : (s \o <<a, b>>)[k] = s[k]
         /\ (s \o <<a, b>>)[Len(s) + 1] = a
         /\ (s \o <<a, b>>)[Len(s) + 2] = b
  OBVIOUS

-----------------------------------------------------------------------------
(* The tree *)

(* A free node whose parent is Split may be marked Allocated or Split, and a
   Split one may be marked Split again. *)
LEMMA MarkNode ==
  ASSUME TypeOK, ParentSplit,
         NEW i \in Node, NEW v \in {"Allocated", "Split"},
         buddy_meta[i] = "Free" \/ (buddy_meta[i] = "Split" /\ v = "Split"),
         i # 0 => buddy_meta[Parent(i)] = "Split",
         buddy_meta' = [buddy_meta EXCEPT ![i] = v]
  PROVE  ParentSplit' /\ buddy_meta' \in [Node -> BlockState]
<1>1. buddy_meta' \in [Node -> BlockState]
  BY Zenon DEF TypeOK, BlockState
<1>2. ASSUME NEW j \in Node \ {0}, buddy_meta'[j] # "Free"
      PROVE  buddy_meta'[Parent(j)] = "Split"
  <2>1. Parent(j) \in Node /\ Parent(j) # j
    BY NodeFacts, ParentChild
  <2>2. buddy_meta[Parent(j)] = "Split"
    BY Zenon, <1>2 DEF ParentSplit, TypeOK
  <2> QED
    BY Zenon, <2>1, <2>2 DEF TypeOK
<1> QED
  BY Zenon, <1>1, <1>2 DEF ParentSplit

(* A node may be marked Free if its children are. *)
LEMMA FreeNode ==
  ASSUME TypeOK, ParentSplit,
         NEW i \in Node,
         \A j \in Node \ {0} : Parent(j) = i => buddy_meta[j] = "Free",
         buddy_meta' = [buddy_meta EXCEPT ![i] = "Free"]
  PROVE  ParentSplit' /\ buddy_meta' \in [Node -> BlockState]
<1>1. buddy_meta' \in [Node -> BlockState]
  BY Zenon DEF TypeOK, BlockState
<1>2. ASSUME NEW j \in Node \ {0}, buddy_meta'[j] # "Free"
      PROVE  buddy_meta'[Parent(j)] = "Split"
  <2>1. Parent(j) \in Node
    BY Zenon, NodeFacts
  <2>2. buddy_meta[j] # "Free"
    BY Zenon, <1>2 DEF TypeOK
  <2> QED
    BY Zenon, <2>1, <2>2 DEF TypeOK, ParentSplit
<1> QED
  BY Zenon, <1>1, <1>2 DEF ParentSplit

(* If the root is not Split, nothing below it is in use: follow the parents
   of the first node in use. *)
LEMMA RootNotSplit ==
  ASSUME TypeOK, ParentSplit, buddy_meta[0] # "Split"
  PROVE  \A i \in Node \ {0} : buddy_meta[i] = "Free"
<1> DEFINE Bad == {i \in Node \ {0} : buddy_meta[i] # "Free"}
<1> SUFFICES ASSUME Bad # {} PROVE FALSE
  BY Zenon
<1>1. PICK m \in Bad : \A k \in Bad : m <= k
  <2>1. Bad \in SUBSET Nat
    BY Zenon, NodeFacts
  <2> QED
    BY Zenon, <2>1, LeastNat
<1>2. buddy_meta[Parent(m)] = "Split"
  BY Zenon DEF ParentSplit
<1>3. Parent(m) \in Node /\ Parent(m) < m /\ m \in Nat
  BY Zenon, NodeFacts, ParentChild
<1>4. Parent(m) \in Bad /\ Parent(m) \in Nat
  BY Zenon, <1>2, <1>3, NodeFacts
<1>5. m <= Parent(m)
  BY <1>1, <1>4, Zenon
<1> QED
  BY <1>3, <1>4, <1>5

-----------------------------------------------------------------------------
(* Every step preserves the invariant *)

(* The metadata that Memory::new fills in satisfies the invariant. *)
LEMMA InitInv == Init => Inv
<1> SUFFICES ASSUME Init PROVE Inv
  BY Zenon
<1>1. TypeOK
  BY NodeFacts, OrderAssumption
     DEF Init, TypeOK, BlockState, NoReq, NoCur, NoRet, Level
<1>2. ParentSplit
  BY Zenon DEF Init, ParentSplit
<1>3. StackInv
  BY DEF Init, StackInv
<1>4. LiveInv
  BY Zenon DEF Init, LiveInv, AllocatedNodes
<1>5. CurInv /\ PanicOnlyForWholeRegion
  BY Zenon DEF Init, CurInv, PanicOnlyForWholeRegion
<1> QED
  BY Zenon, <1>1, <1>2, <1>3, <1>4, <1>5 DEF Inv

(* The early returns of buddy_alloc preserve the invariant. *)
LEMMA AllocRejectInv ==
  ASSUME Inv, NEW bytes \in 0..MaxRequest, AllocReject(bytes)
  PROVE  Inv'
<1>1. TypeOK'
  BY RequestAssumption DEF Inv, TypeOK, AllocReject
<1>2. (ParentSplit /\ StackInv /\ CurInv /\ LiveInv /\ PanicOnlyForWholeRegion)'
  BY Zenon DEF Inv, AllocReject, ParentSplit, StackInv, CurInv, LiveInv,
         AllocatedNodes, PanicOnlyForWholeRegion, Cursor
<1> QED
  BY Zenon, <1>1, <1>2 DEF Inv

(* The level and the size of a request that is looked for. *)
LEMMA RequestShape ==
  ASSUME NEW bytes \in 1..mem_size
  PROVE  LET order == buddy_high_order - find_order(RoundUp(bytes))
         IN  /\ order \in Level
             /\ RoundUp(bytes) \in Nat
             /\ RoundUp(bytes) = 2^(mem_order - order)
             /\ bytes <= RoundUp(bytes)
<1> DEFINE n == IF bytes < PAGE_SIZE THEN PAGE_SIZE ELSE bytes
<1>1. PAGE_SIZE \in Nat \ {0} /\ mem_size \in Nat /\ PAGE_SIZE <= mem_size
  BY OrderAssumption, PowGt, PowMono DEF PAGE_SIZE, mem_size
<1>2. n \in PAGE_SIZE..mem_size /\ bytes <= n
  BY <1>1
<1>3. PICK k \in page_order..mem_order :
        /\ next_power_of_two(n) = 2^k
        /\ n <= 2^k
        /\ find_order(2^k) = k
  BY Zenon, <1>2, RequestLevel
<1>4. RoundUp(bytes) = 2^k
  BY Zenon, <1>3 DEF RoundUp
<1>5. k \in Nat /\ 2^k \in Nat
  BY <1>3, OrderAssumption, PowGt
<1>6. buddy_high_order - find_order(RoundUp(bytes)) = mem_order - k
  BY Zenon, <1>3, <1>4, Orders
<1>7. mem_order - k \in Level /\ mem_order - (mem_order - k) = k
  BY <1>3, OrderAssumption DEF Level
<1> QED
  BY <1>1, <1>2, <1>3, <1>4, <1>5, <1>6, <1>7

(* Pushing the root, with the rounded request, preserves the invariant. *)
LEMMA AllocBeginInv ==
  ASSUME Inv, NEW bytes \in 0..MaxRequest, AllocBegin(bytes)
  PROVE  Inv'
<1>1. bytes \in 1..mem_size
  BY Zenon DEF AllocBegin
<1> DEFINE order == buddy_high_order - find_order(RoundUp(bytes))
<1>2. /\ order \in Level /\ RoundUp(bytes) \in Nat
      /\ RoundUp(bytes) = 2^(mem_order - order)
  BY Zenon, <1>1, RequestShape
<1>3. req' = [bytes |-> bytes, n |-> RoundUp(bytes), order |-> order]
  BY Zenon DEF AllocBegin
<1> HIDE DEF order
<1>4. stack' \in Seq(Node) /\ Len(stack') = 1 /\ stack'[1] = 0
  BY NodeFacts DEF AllocBegin
<1>5. TypeOK'
  BY <1>2, <1>3, <1>4, RequestAssumption DEF Inv, TypeOK, AllocBegin, NoRet
<1>6. StackInv'
  <2>1. find_order(0) <= order /\ 0 <= find_order(0)
    BY <1>2, LevelRoot, OrderAssumption DEF Level
  <2> QED
    BY <1>2, <1>3, <1>4, <2>1 DEF StackInv, AllocBegin
<1>7. (ParentSplit /\ CurInv /\ LiveInv /\ PanicOnlyForWholeRegion)'
  BY Zenon DEF Inv, AllocBegin, ParentSplit, CurInv, LiveInv, AllocatedNodes,
         PanicOnlyForWholeRegion
<1> QED
  BY Zenon, <1>5, <1>6, <1>7 DEF Inv

(* What the invariant says of the node on top of the stack. *)
LEMMA TopFacts ==
  ASSUME Inv, pc = "search", stack # <<>>
  PROVE  /\ stack \in Seq(Node) /\ Len(stack) \in Nat \ {0}
         /\ Top \in Node
         /\ Top # 0 => buddy_meta[Parent(Top)] = "Split"
         /\ find_order(Top) \in Level
         /\ find_order(Top) <= req.order
         /\ Len(stack) - 1 <= find_order(Top)
         /\ req.order \in Level
         /\ buddy_meta[Top] \in BlockState
<1>1. stack \in Seq(Node) /\ req.order \in Level /\ buddy_meta \in [Node -> BlockState]
  BY Zenon DEF Inv, TypeOK
<1>2. Len(stack) \in Nat \ {0} /\ Top \in Node
  BY Zenon, <1>1, StackOps
<1>3. Len(stack) \in 1..Len(stack)
  BY <1>2
<1>4. /\ Top # 0 => buddy_meta[Parent(Top)] = "Split"
      /\ find_order(Top) <= req.order
      /\ Len(stack) - 1 <= find_order(Top)
  BY Zenon, <1>3 DEF Inv, StackInv, Top
<1> QED
  BY Zenon, <1>1, <1>2, <1>4, NodeFacts

(* Taking a free node preserves the invariant: nothing below it is in use. *)
LEMMA SearchTakeInv ==
  ASSUME Inv, SearchTake
  PROVE  Inv'
<1>1. pc = "search" /\ stack # <<>> /\ buddy_meta[Top] = "Free"
      /\ find_order(Top) = req.order
  BY Zenon DEF SearchTake
<1>2. Top \in Node /\ (Top # 0 => buddy_meta[Parent(Top)] = "Split")
  BY Zenon, <1>1, TopFacts
<1>3. buddy_meta' = [buddy_meta EXCEPT ![Top] = "Allocated"]
  BY Zenon DEF SearchTake
<1>4. ParentSplit' /\ buddy_meta' \in [Node -> BlockState]
  BY Zenon, <1>1, <1>2, <1>3, MarkNode DEF Inv
<1>5. live' = live \cup {Block(Top)}
  <2>1. [addr |-> BlockAddr(Top, find_order(Top)), size |-> req.n] = Block(Top)
    BY Zenon, <1>1, Orders DEF Inv, StackInv, Block
  <2> QED
    BY Zenon, <2>1 DEF SearchTake
<1>6. LiveInv'
  <2>1. AllocatedNodes' = AllocatedNodes \cup {Top}
    BY <1>2, <1>3 DEF AllocatedNodes, Inv, TypeOK
  <2> QED
    BY Zenon, <1>5, <2>1 DEF LiveInv, Inv
<1>7. TypeOK'
  <2>1. Block(Top) \in [addr : Nat, size : Nat]
    BY Zenon, <1>2, BlockInRam
  <2>2. live' \subseteq [addr : Nat, size : Nat]
    BY Zenon, <1>5, <2>1 DEF Inv, TypeOK
  <2> QED
    BY <1>4, <2>2, OrderAssumption DEF Inv, TypeOK, SearchTake, NoReq, Level
<1>8. (StackInv /\ CurInv /\ PanicOnlyForWholeRegion)'
  BY DEF SearchTake, StackInv, CurInv, PanicOnlyForWholeRegion
<1> QED
  BY Zenon, <1>4, <1>6, <1>7, <1>8 DEF Inv

(* Popping a node that cannot hold the request preserves the invariant. *)
LEMMA SearchSkipInv ==
  ASSUME Inv, SearchSkip
  PROVE  Inv'
<1>1. pc = "search" /\ stack # <<>> /\ stack' = Pop
  BY Zenon DEF SearchSkip
<1>2. stack \in Seq(Node) /\ Len(stack) \in Nat \ {0}
  BY Zenon, <1>1, TopFacts
<1>3. /\ stack' \in Seq(Node)
      /\ Len(stack') = Len(stack) - 1
      /\ \A k \in 1..(Len(stack) - 1) : stack'[k] = stack[k]
  BY Zenon, <1>1, <1>2, StackOps
<1>4. TypeOK'
  BY Zenon, <1>3 DEF Inv, TypeOK, SearchSkip
<1>5. StackInv'
  <2>1. ASSUME NEW k \in 1..Len(stack')
        PROVE  /\ find_order(stack'[k]) <= req'.order
               /\ stack'[k] # 0 => buddy_meta'[Parent(stack'[k])] = "Split"
               /\ k - 1 <= find_order(stack'[k])
               /\ k < Len(stack') => k <= find_order(stack'[k])
    <3>1. k \in 1..Len(stack) /\ k < Len(stack) /\ stack'[k] = stack[k]
      BY <1>2, <1>3
    <3>2. req' = req /\ buddy_meta' = buddy_meta
      BY Zenon DEF SearchSkip
    <3> QED
      BY Zenon, <3>1, <3>2 DEF Inv, StackInv
  <2>2. (pc # "search" => stack = <<>>)' /\ (pc = "search" => req.n = 2^(mem_order - req.order))'
    BY Zenon, <1>1 DEF Inv, StackInv, SearchSkip
  <2> QED
    BY Zenon, <2>1, <2>2 DEF StackInv
<1>6. (ParentSplit /\ CurInv /\ LiveInv /\ PanicOnlyForWholeRegion)'
  BY Zenon, <1>1 DEF Inv, SearchSkip, ParentSplit, CurInv, LiveInv, AllocatedNodes,
         PanicOnlyForWholeRegion
<1> QED
  BY Zenon, <1>4, <1>5, <1>6 DEF Inv

(* Splitting a node and pushing its children preserves the invariant. *)
LEMMA SearchDescendInv ==
  ASSUME Inv, SearchDescend
  PROVE  Inv'
<1>1. /\ pc = "search" /\ stack # <<>>
      /\ find_order(Top) # req.order /\ buddy_meta[Top] # "Allocated"
      /\ stack' = Pop \o <<Right(Top), Left(Top)>>
      /\ buddy_meta' = [buddy_meta EXCEPT ![Top] = "Split"]
      /\ req' = req
  BY Zenon DEF SearchDescend
<1>2. /\ stack \in Seq(Node) /\ Len(stack) \in Nat \ {0}
      /\ Top \in Node
      /\ Top # 0 => buddy_meta[Parent(Top)] = "Split"
      /\ find_order(Top) \in Level
      /\ find_order(Top) <= req.order
      /\ Len(stack) - 1 <= find_order(Top)
      /\ req.order \in Level
      /\ buddy_meta[Top] \in BlockState
  BY Zenon, <1>1, TopFacts
<1>3. ParentSplit' /\ buddy_meta' \in [Node -> BlockState]
  BY Zenon, <1>1, <1>2, MarkNode DEF Inv, BlockState
<1>4. find_order(Top) + 1 <= req.order /\ find_order(Top) < Depth
  BY <1>1, <1>2, OrderAssumption DEF Level, Depth
<1>5. Left(Top) \in Node /\ Right(Top) \in Node
  BY Zenon, <1>2, <1>4, NodeFacts
<1>6. /\ Pop \in Seq(Node)
      /\ Len(Pop) = Len(stack) - 1
      /\ \A k \in 1..(Len(stack) - 1) : Pop[k] = stack[k]
  BY Zenon, <1>1, <1>2, StackOps
<1>7. /\ stack' \in Seq(Node)
      /\ Len(stack') = Len(stack) + 1
      /\ \A k \in 1..(Len(stack) - 1) : stack'[k] = stack[k]
      /\ stack'[Len(stack)] = Right(Top)
      /\ stack'[Len(stack) + 1] = Left(Top)
  <2>1. /\ stack' \in Seq(Node)
        /\ Len(stack') = Len(Pop) + 2
        /\ \A k \in 1..Len(Pop) : stack'[k] = Pop[k]
        /\ stack'[Len(Pop) + 1] = Right(Top)
        /\ stack'[Len(Pop) + 2] = Left(Top)
    BY <1>1, <1>5, <1>6, PushTwo
  <2>2. Len(Pop) + 1 = Len(stack) /\ Len(Pop) + 2 = Len(stack) + 1
    BY <1>2, <1>6
  <2> QED
    BY Zenon, <1>6, <2>1, <2>2
<1>8. /\ find_order(Left(Top)) = find_order(Top) + 1 /\ Parent(Left(Top)) = Top
      /\ find_order(Right(Top)) = find_order(Top) + 1 /\ Parent(Right(Top)) = Top
  BY Zenon, <1>2, NodeFacts, LevelChild, ChildParent
<1>9. StackInv'
  <2>1. ASSUME NEW k \in 1..Len(stack')
        PROVE  /\ find_order(stack'[k]) <= req'.order
               /\ stack'[k] # 0 => buddy_meta'[Parent(stack'[k])] = "Split"
               /\ k - 1 <= find_order(stack'[k])
               /\ k < Len(stack') => k <= find_order(stack'[k])
    <3>1. CASE k \in 1..(Len(stack) - 1)
      <4>1. k \in 1..Len(stack) /\ k < Len(stack) /\ stack'[k] = stack[k]
        BY <1>2, <1>7, <3>1
      <4>2. stack[k] \in Node /\ (stack[k] # 0 => Parent(stack[k]) \in Node)
        <5>1. stack[k] \in Node
          BY <1>2, <4>1
        <5> QED
          BY Zenon, <5>1, NodeFacts
      <4>3. /\ find_order(stack[k]) <= req.order
            /\ stack[k] # 0 => buddy_meta[Parent(stack[k])] = "Split"
            /\ k - 1 <= find_order(stack[k])
            /\ k <= find_order(stack[k])
        BY Zenon, <4>1 DEF Inv, StackInv
      <4>4. stack[k] # 0 => buddy_meta'[Parent(stack[k])] = "Split"
        BY Zenon, <1>1, <4>2, <4>3 DEF Inv, TypeOK
      <4> QED
        BY Zenon, <1>1, <4>1, <4>3, <4>4
    <3>2. CASE k = Len(stack) \/ k = Len(stack) + 1
      <4>1. stack'[k] \in {Left(Top), Right(Top)}
        BY Zenon, <1>7, <3>2
      <4>2. find_order(stack'[k]) = find_order(Top) + 1 /\ Parent(stack'[k]) = Top
        BY Zenon, <1>8, <4>1
      <4>3. buddy_meta'[Top] = "Split"
        BY Zenon, <1>1, <1>2 DEF Inv, TypeOK
      <4>4. k - 1 <= find_order(Top) + 1 /\ (k < Len(stack') => k <= find_order(Top) + 1)
        BY <1>2, <1>7, <3>2 DEF Level
      <4> QED
        BY Zenon, <1>1, <1>4, <4>2, <4>3, <4>4
    <3> QED
      BY <1>2, <1>7, <3>1, <3>2
  <2>2. (pc # "search" => stack = <<>>)' /\ (pc = "search" => req.n = 2^(mem_order - req.order))'
    BY Zenon, <1>1 DEF Inv, StackInv, SearchDescend
  <2> QED
    BY <2>1, <2>2 DEF StackInv
<1>10. TypeOK'
  BY Zenon, <1>3, <1>7 DEF Inv, TypeOK, SearchDescend
<1>11. LiveInv'
  <2>1. AllocatedNodes' = AllocatedNodes
    BY Zenon, <1>1, <1>2 DEF AllocatedNodes, Inv, TypeOK
  <2> QED
    BY Zenon, <2>1 DEF LiveInv, Inv, SearchDescend
<1>12. (CurInv /\ PanicOnlyForWholeRegion)'
  BY Zenon, <1>1 DEF SearchDescend, CurInv, PanicOnlyForWholeRegion
<1> QED
  BY Zenon, <1>3, <1>9, <1>10, <1>11, <1>12 DEF Inv

(* Giving up on an empty stack preserves the invariant. *)
LEMMA SearchFailInv ==
  ASSUME Inv, SearchFail
  PROVE  Inv'
<1>1. TypeOK'
  BY OrderAssumption DEF Inv, TypeOK, SearchFail, NoReq, Level
<1>2. (ParentSplit /\ StackInv /\ CurInv /\ LiveInv /\ PanicOnlyForWholeRegion)'
  BY DEF Inv, SearchFail, ParentSplit, StackInv, CurInv, LiveInv,
         AllocatedNodes, PanicOnlyForWholeRegion
<1> QED
  BY Zenon, <1>1, <1>2 DEF Inv

(* The cursor of a node has the types that TypeOK asks for. *)
LEMMA CursorType ==
  ASSUME NEW i \in Node
  PROVE  Cursor(i, find_order(i)) \in [i : Node, level : Level, buddy_i : Node]
<1>1. find_order(i) \in Level
  BY Zenon, NodeFacts
<1>2. BuddyOf(i, find_order(i)) \in Node
  BY Zenon, NodeFacts, BuddyRoot
<1> QED
  BY Zenon, <1>1, <1>2 DEF Cursor

(* buddy_free finds the allocated node of a live block, and freeing it
   preserves the invariant. *)
LEMMA FreeBeginInv ==
  ASSUME Inv, NEW b \in live, FreeBegin(b)
  PROVE  Inv'
<1>1. PICK i \in Node : buddy_meta[i] = "Allocated" /\ b = Block(i)
  BY Zenon DEF Inv, LiveInv, AllocatedNodes
<1>2. NodeOf(b) = i /\ LevelOf(b) = find_order(i)
  BY Zenon, <1>1, NodeOfBlock
<1>3. /\ pc = "idle" /\ pc' = "merge"
      /\ live' = live \ {b}
      /\ buddy_meta' = [buddy_meta EXCEPT ![i] = "Free"]
      /\ cur' = Cursor(i, find_order(i))
      /\ ret' = NoRet
      /\ UNCHANGED <<req, stack>>
  BY Zenon, <1>1, <1>2 DEF FreeBegin
<1>4. ParentSplit' /\ buddy_meta' \in [Node -> BlockState]
  <2>1. \A j \in Node \ {0} : Parent(j) = i => buddy_meta[j] = "Free"
    BY Zenon, <1>1 DEF Inv, ParentSplit
  <2> QED
    BY Zenon, <1>3, <2>1, FreeNode DEF Inv
<1>5. TypeOK'
  <2>1. cur' \in [i : Node, level : Level, buddy_i : Node]
    BY Zenon, <1>3, CursorType
  <2> QED
    BY Zenon, <1>3, <1>4, <2>1 DEF Inv, TypeOK, NoRet
<1>6. StackInv'
  BY <1>3 DEF Inv, StackInv
<1>7. CurInv'
  <2>1. cur'.i = i
    BY Zenon, <1>3 DEF Cursor
  <2>2. buddy_meta'[i] = "Free"
    BY Zenon, <1>3 DEF Inv, TypeOK
  <2>3. i # 0 => buddy_meta'[Parent(i)] = "Split"
    <3>1. i # 0 => buddy_meta[Parent(i)] = "Split" /\ Parent(i) \in Node
      BY Zenon, <1>1, NodeFacts DEF Inv, ParentSplit
    <3> QED
      BY Zenon, <1>1, <1>3, <3>1 DEF Inv, TypeOK
  <2> QED
    BY Zenon, <1>3, <2>1, <2>2, <2>3 DEF CurInv
<1>8. LiveInv'
  <2>1. AllocatedNodes' = AllocatedNodes \ {i}
    BY Zenon, <1>3 DEF AllocatedNodes, Inv, TypeOK
  <2>2. live = {Block(j) : j \in AllocatedNodes}
    BY Zenon DEF Inv, LiveInv
  <2>3. \A j \in AllocatedNodes : Block(j) = Block(i) => j = i
    BY Zenon, BlockInjective DEF AllocatedNodes
  <2>4. live \ {Block(i)} = {Block(j) : j \in AllocatedNodes \ {i}}
    BY Zenon, <2>2, <2>3
  <2> QED
    BY Zenon, <1>1, <1>3, <2>1, <2>4 DEF LiveInv
<1>9. PanicOnlyForWholeRegion'
  BY Zenon, <1>3 DEF PanicOnlyForWholeRegion
<1> QED
  BY Zenon, <1>4, <1>5, <1>6, <1>7, <1>8, <1>9 DEF Inv

(* Ending the merge loop preserves the invariant. *)
LEMMA MergeStopInv ==
  ASSUME Inv, MergeStop
  PROVE  Inv'
<1>1. TypeOK'
  BY NodeFacts, OrderAssumption DEF Inv, TypeOK, MergeStop, NoCur, Level
<1>2. (ParentSplit /\ StackInv /\ CurInv /\ LiveInv /\ PanicOnlyForWholeRegion)'
  BY Zenon DEF Inv, MergeStop, ParentSplit, StackInv, CurInv, LiveInv,
         AllocatedNodes, PanicOnlyForWholeRegion
<1> QED
  BY <1>1, <1>2 DEF Inv

(* The panic at the root happens only when the whole of RAM was freed. *)
LEMMA MergeAtRootInv ==
  ASSUME Inv, MergeAtRoot
  PROVE  Inv'
<1>1. TypeOK'
  BY Zenon DEF Inv, TypeOK, MergeAtRoot
<1>2. (ParentSplit /\ StackInv /\ CurInv /\ LiveInv)'
  BY Zenon DEF Inv, MergeAtRoot, ParentSplit, StackInv, CurInv, LiveInv, AllocatedNodes
<1>3. PanicOnlyForWholeRegion'
  <2>1. cur = Cursor(cur.i, find_order(cur.i)) /\ buddy_meta[0] = "Free" /\ cur.i = 0
    BY Zenon DEF Inv, CurInv, MergeAtRoot
  <2>2. cur.level = 0
    BY <2>1, LevelRoot DEF Cursor
  <2>3. \A i \in Node : buddy_meta[i] = "Free"
    BY Zenon, <2>1, RootNotSplit DEF Inv
  <2>4. live = {}
    BY Zenon, <2>3 DEF Inv, LiveInv, AllocatedNodes
  <2> QED
    BY Zenon, <2>1, <2>2, <2>4 DEF PanicOnlyForWholeRegion, MergeAtRoot
<1> QED
  BY Zenon, <1>1, <1>2, <1>3 DEF Inv

(* Merging two free buddies preserves the invariant, and never panics: their
   parent is Split. *)
LEMMA MergeUpInv ==
  ASSUME Inv, MergeUp
  PROVE  Inv'
<1> DEFINE p == Parent(cur.i)
<1>1. /\ pc = "merge" /\ cur.i # 0
      /\ buddy_meta[cur.buddy_i] = "Free"
  BY Zenon DEF MergeUp
<1>2. /\ cur = Cursor(cur.i, find_order(cur.i))
      /\ buddy_meta[cur.i] = "Free"
      /\ buddy_meta[p] = "Split"
  BY Zenon, <1>1 DEF Inv, CurInv
<1>3. cur.i \in Node \ {0}
  BY Zenon, <1>1 DEF Inv, TypeOK
<1>4. /\ cur.level = find_order(cur.i)
      /\ cur.buddy_i = BuddyOf(cur.i, find_order(cur.i))
  BY <1>2 DEF Cursor
<1>5. p \in Node /\ find_order(cur.i) = find_order(p) + 1 /\ find_order(p) \in Level
  BY Zenon, <1>3, NodeFacts
<1>6. cur.level - 1 = find_order(p)
  BY <1>4, <1>5 DEF Level
<1>7. /\ buddy_meta' = [buddy_meta EXCEPT ![p] = "Free"]
      /\ pc' = IF p = 0 THEN "idle" ELSE "merge"
      /\ cur' = IF p = 0 THEN NoCur ELSE Cursor(p, find_order(p))
      /\ UNCHANGED <<req, stack, live, ret>>
  BY Zenon, <1>2, <1>6 DEF MergeUp
<1> HIDE DEF p
<1>8. ParentSplit' /\ buddy_meta' \in [Node -> BlockState]
  <2>1. ASSUME NEW j \in Node \ {0}, Parent(j) = p PROVE buddy_meta[j] = "Free"
    <3>1. j \in Nat \ {0} /\ cur.i \in Nat \ {0}
      BY Zenon, <1>3, NodeFacts
    <3>2. j = Left(p) \/ j = Right(p)
      BY Zenon, <2>1, <3>1, ParentChild
    <3>3. {cur.i, cur.buddy_i} = {Left(p), Right(p)}
      BY Zenon, <1>4, <3>1, Buddies DEF p
    <3>4. j = cur.i \/ j = cur.buddy_i
      BY Zenon, <3>2, <3>3
    <3> QED
      BY Zenon, <1>1, <1>2, <3>4
  <2> QED
    BY Zenon, <1>5, <1>7, <2>1, FreeNode DEF Inv
<1>9. TypeOK'
  <2>1. cur' \in [i : Node, level : Level, buddy_i : Node]
    BY <1>5, <1>7, CursorType, NodeFacts, OrderAssumption DEF NoCur, Level
  <2> QED
    BY Zenon, <1>7, <1>8, <2>1 DEF Inv, TypeOK
<1>10. StackInv'
  BY <1>1, <1>7 DEF Inv, StackInv
<1>11. CurInv'
  <2> SUFFICES ASSUME p # 0 PROVE CurInv'
    BY Zenon, <1>7 DEF CurInv
  <2>1. cur' = Cursor(p, find_order(p)) /\ cur'.i = p
    BY Zenon, <1>7 DEF Cursor
  <2>2. buddy_meta'[p] = "Free"
    BY Zenon, <1>5, <1>7 DEF Inv, TypeOK
  <2>3. buddy_meta'[Parent(p)] = "Split"
    <3>1. buddy_meta[Parent(p)] = "Split" /\ Parent(p) \in Node
      BY Zenon, <1>2, <1>5, NodeFacts DEF Inv, ParentSplit, p
    <3>2. Parent(p) # p
      BY <1>5, NodeFacts, ParentChild
    <3> QED
      BY Zenon, <1>7, <3>1, <3>2 DEF Inv, TypeOK
  <2> QED
    BY Zenon, <2>1, <2>2, <2>3 DEF CurInv
<1>12. LiveInv'
  <2>1. AllocatedNodes' = AllocatedNodes
    BY Zenon, <1>2, <1>5, <1>7 DEF AllocatedNodes, Inv, TypeOK, p
  <2> QED
    BY Zenon, <1>7, <2>1 DEF LiveInv, Inv
<1>13. PanicOnlyForWholeRegion'
  BY Zenon, <1>7 DEF PanicOnlyForWholeRegion
<1> QED
  BY Zenon, <1>8, <1>9, <1>10, <1>11, <1>12, <1>13 DEF Inv

(* Every step of the allocator preserves the invariant. *)
LEMMA InvStep == Inv /\ [Next]_vars => Inv'
<1> SUFFICES ASSUME Inv, [Next]_vars PROVE Inv'
  BY Zenon
<1>1. CASE UNCHANGED vars
  BY Zenon, <1>1 DEF vars, Inv, TypeOK, ParentSplit, StackInv, CurInv, LiveInv,
              AllocatedNodes, PanicOnlyForWholeRegion
<1>2. CASE FreeUnsized \/ Halt
  BY Zenon, <1>1, <1>2 DEF FreeUnsized, Halt
<1>3. CASE Step
  BY Zenon, <1>3, SearchTakeInv, SearchSkipInv, SearchDescendInv, SearchFailInv,
     MergeStopInv, MergeAtRootInv, MergeUpInv DEF Step
<1> QED
  BY Zenon, <1>1, <1>2, <1>3, AllocRejectInv, AllocBeginInv, FreeBeginInv DEF Next

-----------------------------------------------------------------------------
(* What follows from the invariant *)

(* No node in use lies, even in part, inside the block of an Allocated node:
   otherwise take the first such node; its parent is Split, overlaps the block
   as well, and is neither a smaller such node nor the Allocated node. *)
LEMMA NothingInsideAllocated ==
  ASSUME TypeOK, ParentSplit,
         NEW i \in Node, buddy_meta[i] = "Allocated",
         NEW j \in Node, buddy_meta[j] # "Free",
         find_order(i) <= find_order(j),
         Abs!Overlap(Block(i), Block(j))
  PROVE  i = j
<1> DEFINE Bad == {k \in Node : /\ buddy_meta[k] # "Free"
                                /\ find_order(i) <= find_order(k)
                                /\ Abs!Overlap(Block(i), Block(k))
                                /\ k # i}
<1> SUFFICES ASSUME Bad # {} PROVE FALSE
  BY Zenon
<1>1. PICK m \in Bad : \A k \in Bad : m <= k
  <2>1. Bad \in SUBSET Nat
    BY Zenon, NodeFacts
  <2> QED
    BY Zenon, <2>1, LeastNat
<1>2. /\ m \in Node /\ m # i
      /\ buddy_meta[m] # "Free"
      /\ find_order(i) <= find_order(m)
      /\ Abs!Overlap(Block(i), Block(m))
  BY Zenon, <1>1
<1>3. find_order(i) \in Nat /\ find_order(m) \in Nat
  BY Zenon, <1>2, NodeFacts, LevelBounds
<1>4. find_order(i) # find_order(m)
  BY Zenon, <1>2, SameLevel DEF Abs!Overlap
<1>5. m # 0
  BY <1>2, <1>3, <1>4, LevelRoot
<1> DEFINE p == Parent(m)
<1>6. /\ p \in Node /\ p \in Nat /\ m \in Nat
      /\ p < m
      /\ find_order(m) = find_order(p) + 1
      /\ find_order(p) \in Nat
  BY Zenon, <1>2, <1>5, NodeFacts, ParentChild, LevelBounds
<1>7. buddy_meta[p] = "Split"
  BY Zenon, <1>2, <1>5 DEF ParentSplit
<1>8. Within(Block(m), Block(p))
  BY Zenon, <1>2, <1>5, BlockParent
<1> HIDE DEF p
<1>9. /\ Block(i).addr \in Nat /\ Block(i).size \in Nat
      /\ Block(m).addr \in Nat /\ Block(m).size \in Nat
      /\ Block(p).addr \in Nat /\ Block(p).size \in Nat
  <2>1. \A k \in Node : Block(k) \in [addr : Nat, size : Nat \ {0}]
    BY Zenon, BlockInRam
  <2>2. \A b \in [addr : Nat, size : Nat \ {0}] : b.addr \in Nat /\ b.size \in Nat
    BY Zenon
  <2> QED
    BY Zenon, <1>2, <1>6, <2>1, <2>2
<1>10. Abs!Overlap(Block(i), Block(p))
  BY <1>2, <1>8, <1>9 DEF Abs!Overlap, Within
<1>11. find_order(i) <= find_order(p)
  BY <1>2, <1>3, <1>4, <1>6
<1>12. p # i
  BY Zenon, <1>7
<1>13. p \in Bad
  BY Zenon, <1>6, <1>7, <1>10, <1>11, <1>12
<1>14. m <= p
  BY <1>1, <1>13, Zenon
<1> QED
  BY <1>6, <1>14

(* Live blocks are blocks of allocated nodes, none of which is inside another. *)
LEMMA InvDisjoint == Inv => LiveDisjoint
<1> SUFFICES ASSUME Inv PROVE LiveDisjoint
  BY Zenon
<1>1. ASSUME NEW b \in live, NEW c \in live, Abs!Overlap(b, c) PROVE b = c
  <2>1. PICK i \in Node : buddy_meta[i] = "Allocated" /\ b = Block(i)
    BY Zenon DEF Inv, LiveInv, AllocatedNodes
  <2>2. PICK j \in Node : buddy_meta[j] = "Allocated" /\ c = Block(j)
    BY Zenon DEF Inv, LiveInv, AllocatedNodes
  <2>3. find_order(i) \in Nat /\ find_order(j) \in Nat
    BY Zenon, NodeFacts, LevelBounds
  <2>4. Abs!Overlap(Block(i), Block(j)) /\ Abs!Overlap(Block(j), Block(i))
    BY Zenon, <1>1, <2>1, <2>2 DEF Abs!Overlap
  <2>5. CASE find_order(i) <= find_order(j)
    BY Zenon, <2>1, <2>2, <2>4, <2>5, NothingInsideAllocated DEF Inv
  <2>6. CASE find_order(j) <= find_order(i)
    BY Zenon, <2>1, <2>2, <2>4, <2>6, NothingInsideAllocated DEF Inv
  <2> QED
    BY <2>3, <2>5, <2>6
<1>2. ASSUME NEW b \in live
      PROVE  /\ ram_start <= b.addr
             /\ b.addr + b.size <= ram_start + mem_size
             /\ b.addr % PAGE_SIZE = 0
  <2>1. PICK i \in Node : b = Block(i)
    BY Zenon DEF Inv, LiveInv, AllocatedNodes
  <2> QED
    BY Zenon, <2>1, BlockInRam
<1> QED
  BY Zenon, <1>1, <1>2 DEF LiveDisjoint

(* The levels of the nodes on the stack bound its length. *)
LEMMA InvStackFits == Inv => StackFits
<1> SUFFICES ASSUME Inv PROVE StackFits
  OBVIOUS
<1>1. CASE stack = <<>>
  BY <1>1, Orders DEF StackFits
<1>2. CASE stack # <<>>
  <2>1. pc = "search"
    BY Zenon, <1>2 DEF Inv, StackInv
  <2>2. /\ Len(stack) - 1 <= find_order(Top)
        /\ find_order(Top) \in Level /\ Len(stack) \in Nat
    BY Zenon, <1>2, <2>1, TopFacts
  <2> QED
    BY <2>2, Orders, OrderAssumption DEF StackFits, Level, Depth
<1> QED
  BY Zenon, <1>1, <1>2

(* The invariant holds in every reachable state. *)
THEOREM Invariance == Spec => []Inv
  BY InitInv, InvStep, PTL DEF Spec

(* Memory: the state is well typed, and every index into buddy_meta is one of
   its nodes. *)
THEOREM TypeCorrect == Spec => []TypeOK
<1>1. Inv => TypeOK
  BY Zenon DEF Inv
<1> QED
  BY <1>1, Invariance, PTL

(* Memory: a node in use lies below Split nodes only. *)
THEOREM TreeConsistent == Spec => []ParentSplit
<1>1. Inv => ParentSplit
  BY Zenon DEF Inv
<1> QED
  BY <1>1, Invariance, PTL

(* Memory::buddy_alloc: buddy_stack, with one entry for each level of the
   tree, is large enough for the search. *)
THEOREM StackNeverOverflows == Spec => []StackFits
  BY InvStackFits, Invariance, PTL

(* Memory: blocks handed out are disjoint, inside RAM and page-aligned. *)
THEOREM BlocksDisjoint == Spec => []LiveDisjoint
  BY InvDisjoint, Invariance, PTL

(* Memory::buddy_free: of the blocks that buddy_alloc returns, only the one
   that is the whole of RAM makes it panic. *)
THEOREM FreePanicsOnlyForWholeRegion == Spec => []PanicOnlyForWholeRegion
<1>1. Inv => PanicOnlyForWholeRegion
  BY Zenon DEF Inv
<1> QED
  BY <1>1, Invariance, PTL

-----------------------------------------------------------------------------
(* A second inductive invariant: what the search has passed, and why a node
   is Split *)

(* A Split node whose children may both be free: the one that the search has
   just opened on its way down, or the one that buddy_free is about to merge. *)
Opening(i) ==
  \/ /\ pc = "search" /\ stack # <<>>
     /\ Top # 0 /\ buddy_meta[Top] = "Free" /\ i = Parent(Top)
  \/ pc = "merge" /\ cur.i # 0 /\ i = Parent(cur.i)

(* A Split node has children, and one of them is in use. *)
SplitInv ==
  \A i \in Node : buddy_meta[i] = "Split" =>
    /\ find_order(i) < Depth
    /\ \/ buddy_meta[Left(i)] # "Free" \/ buddy_meta[Right(i)] # "Free"
       \/ Opening(i)

End(b) == b.addr + b.size

RamEnd == ram_start + mem_size

(* Where the part of RAM begins that the search has still to look at. *)
Frontier == IF stack = <<>> THEN RamEnd ELSE Block(Top).addr

Taken(i) == \E c \in live : Abs!Overlap(Block(i), c)

(* The blocks on the stack follow each other, from the top, up to the end of
   RAM, and before them every block of the requested size is taken. *)
SearchInv ==
  pc = "search" =>
    /\ req.bytes \in 1..mem_size /\ req.bytes <= MaxRequest
    /\ req.n = RoundUp(req.bytes)
    /\ \A k \in 1..Len(stack) :
         End(Block(stack[k])) = IF k = 1 THEN RamEnd ELSE Block(stack[k - 1]).addr
    /\ \A i \in Node :
         find_order(i) = req.order /\ Block(i).addr < Frontier => Taken(i)

CInv == Inv /\ SplitInv /\ SearchInv

-----------------------------------------------------------------------------
(* Blocks *)

(* The block of a node is a non-empty interval. *)
LEMMA BlockTyped ==
  ASSUME NEW i \in Node
  PROVE  /\ Block(i).addr \in Nat /\ Block(i).size \in Nat \ {0}
         /\ ram_start <= Block(i).addr /\ End(Block(i)) <= RamEnd
         /\ RamEnd \in Nat /\ End(Block(i)) \in Nat
         /\ Block(i).addr < RamEnd
<1>1. Block(i) \in [addr : Nat, size : Nat \ {0}]
  BY Zenon, BlockInRam
<1>2. Block(i).addr \in Nat /\ Block(i).size \in Nat \ {0}
  BY Zenon, <1>1
<1>3. ram_start <= Block(i).addr /\ End(Block(i)) <= RamEnd
  BY Zenon, BlockInRam DEF End, RamEnd
<1>4. RamEnd \in Nat
  BY PowGt, OrderAssumption, RamAssumption DEF RamEnd, mem_size
<1> QED
  BY <1>2, <1>3, <1>4 DEF End

(* A block overlaps every block that lies within it. *)
LEMMA WithinOverlaps ==
  ASSUME NEW i \in Node, NEW j \in Node, Within(Block(j), Block(i))
  PROVE  Abs!Overlap(Block(i), Block(j))
<1>1. \A a, c \in Nat, s, t \in Nat \ {0} :
        a <= c /\ c + t <= a + s => a < c + t /\ c < a + s
  OBVIOUS
<1>2. /\ Block(j).addr \in Nat /\ Block(j).size \in Nat \ {0}
      /\ Block(i).addr \in Nat /\ Block(i).size \in Nat \ {0}
  BY Zenon, BlockTyped
<1> QED
  BY Zenon, <1>1, <1>2 DEF Abs!Overlap, Within

(* A block overlaps every block in which it starts. *)
LEMMA StartOverlaps ==
  ASSUME NEW i \in Node, NEW j \in Node,
         Block(i).addr >= Block(j).addr, Block(i).addr < End(Block(j))
  PROVE  Abs!Overlap(Block(i), Block(j))
<1>1. \A a, c \in Nat, s \in Nat \ {0} : a >= c => c < a + s
  OBVIOUS
<1>2. /\ Block(j).addr \in Nat
      /\ Block(i).addr \in Nat /\ Block(i).size \in Nat \ {0}
  BY Zenon, BlockTyped
<1> QED
  BY Zenon, <1>1, <1>2 DEF Abs!Overlap, End

(* The root is the whole of RAM. *)
LEMMA BlockRoot == Block(0).addr = ram_start /\ End(Block(0)) = RamEnd
<1>1. 0 \in Node /\ find_order(0) = 0
  BY Zenon, NodeFacts, LevelRoot
<1>2. AtLevel(0, 0) = 0
  BY PowZero DEF AtLevel
<1>3. /\ 2^0 * 2^(mem_order - 0) = mem_size /\ 2^(mem_order - 0) \in Nat
      /\ Block(0) = [addr |-> ram_start + AtLevel(0, 0) * 2^(mem_order - 0),
                     size |-> 2^(mem_order - 0)]
  BY Zenon, <1>1, BlockShape
<1> DEFINE s == 2^(mem_order - 0)
<1>4. s = mem_size /\ s \in Nat
  BY <1>3, PowZero
<1> HIDE DEF s
<1>5. Block(0) = [addr |-> ram_start + 0 * s, size |-> s]
  BY Zenon, <1>2, <1>3 DEF s
<1>6. ram_start + 0 * s = ram_start
  BY <1>4, RamAssumption
<1> QED
  BY <1>4, <1>5, <1>6 DEF End, RamEnd

(* The two children of a node are the two halves of its block. *)
LEMMA BlockChildren ==
  ASSUME NEW i \in Node, find_order(i) < Depth
  PROVE  /\ Left(i) \in Node /\ Right(i) \in Node
         /\ Block(Left(i)).addr = Block(i).addr
         /\ End(Block(Left(i))) = Block(Right(i)).addr
         /\ End(Block(Right(i))) = End(Block(i))
<1> DEFINE l == find_order(i)
           s == 2^(mem_order - l)
           h == 2^(mem_order - (l + 1))
           a == AtLevel(i, l)
<1>1. Left(i) \in Node /\ Right(i) \in Node /\ i \in Nat
  BY Zenon, NodeFacts
<1>2. /\ find_order(Left(i)) = l + 1 /\ find_order(Right(i)) = l + 1
  BY Zenon, <1>1, LevelChild
<1>3. l \in Nat /\ mem_order - (l + 1) \in Nat /\ 2^l \in Nat /\ 2^(l + 1) = 2 * 2^l
  <2>1. l \in Nat
    BY Zenon, <1>1, LevelBounds
  <2>2. mem_order - (l + 1) \in Nat
    BY <2>1, OrderAssumption DEF Depth
  <2> HIDE DEF l
  <2> QED
    BY Zenon, <2>1, <2>2, PowStep
<1>4. s = 2 * h /\ h \in Nat
  <2>1. mem_order - l = (mem_order - (l + 1)) + 1
    BY <1>3, OrderAssumption
  <2> QED
    BY Zenon, <1>3, <2>1, PowStep
<1>5. AtLevel(Left(i), l + 1) = 2 * a /\ AtLevel(Right(i), l + 1) = 2 * a + 1 /\ a \in Int
  BY <1>1, <1>3 DEF AtLevel, Left, Right
<1>6. /\ Block(i) = [addr |-> ram_start + a * s, size |-> s]
      /\ Block(Left(i)) = [addr |-> ram_start + AtLevel(Left(i), l + 1) * h, size |-> h]
      /\ Block(Right(i)) = [addr |-> ram_start + AtLevel(Right(i), l + 1) * h, size |-> h]
  BY Zenon, <1>1, <1>2, BlockShape
<1> HIDE DEF s, h, a, l
<1>7. /\ Block(i).addr = ram_start + a * (2 * h) /\ Block(i).size = 2 * h
      /\ Block(Left(i)).addr = ram_start + (2 * a) * h /\ Block(Left(i)).size = h
      /\ Block(Right(i)).addr = ram_start + (2 * a + 1) * h /\ Block(Right(i)).size = h
  BY <1>4, <1>5, <1>6
<1>8. /\ a * (2 * h) = (2 * a) * h
      /\ (2 * a + 1) * h = (2 * a) * h + h
      /\ (2 * a) * h \in Int
  BY <1>4, <1>5, SMT
<1> QED
  BY <1>1, <1>4, <1>7, <1>8, RamAssumption DEF End

(* The slots of a size that BlockAllocator knows are the blocks of a level. *)
LEMMA SlotsOfLevel ==
  ASSUME NEW l \in Level
  PROVE  Abs!Slots(2^(mem_order - l)) = {Block(i) : i \in {j \in Node : find_order(j) = l}}
<1> DEFINE s == 2^(mem_order - l)
           N == 2^l
           B(p) == [addr |-> ram_start + p * s, size |-> s]
<1>1. l \in Nat /\ mem_order - l \in Nat /\ l <= Depth /\ Depth \in Nat
  BY OrderAssumption, Orders DEF Level, Depth
<1>2. s \in Nat \ {0} /\ N \in Nat \ {0} /\ mem_size = N * s
  <2>1. s \in Nat /\ N \in Nat /\ mem_order - l < s /\ l < N
    BY Zenon, <1>1, PowGt
  <2>2. 2^(l + (mem_order - l)) = N * s
    BY Zenon, <1>1, PowAdd
  <2>3. l + (mem_order - l) = mem_order
    BY <1>1, OrderAssumption
  <2> QED
    BY <1>1, <2>1, <2>2, <2>3 DEF mem_size
<1>3. mem_size \div s = N
  BY Zenon, <1>2, DivMultiple
<1>4. ASSUME NEW p \in 0..(N - 1)
      PROVE  \E i \in Node : find_order(i) = l /\ Block(i) = B(p)
  <2> DEFINE i == N - 1 + p
  <2>1. i \in Nat /\ i + 1 = N + p /\ N <= i + 1 /\ i + 1 < 2 * N
    BY <1>2
  <2>2. find_order(i) = l
    BY Zenon, <1>1, <2>1, LevelUnique
  <2>3. i \in Node
    BY Zenon, <1>1, <2>1, <2>2, NodeLevel
  <2>4. AtLevel(i, l) = p
    BY <1>2 DEF AtLevel
  <2>5. Block(i) = B(p)
    BY Zenon, <2>2, <2>3, <2>4, BlockShape
  <2> QED
    BY Zenon, <2>2, <2>3, <2>5
<1>5. ASSUME NEW i \in Node, find_order(i) = l
      PROVE  \E p \in 0..(N - 1) : Block(i) = B(p)
  BY Zenon, <1>5, BlockShape
<1>6. Abs!Slots(s) = {B(p) : p \in 0..(N - 1)}
  BY Zenon, <1>3 DEF Abs!Slots
<1> QED
  BY Zenon, <1>4, <1>5, <1>6

-----------------------------------------------------------------------------
(* The blocks in use *)

(* A node whose block a smaller node in use lies in, even in part, is in use:
   otherwise take the first node in use that overlaps it and is as deep as it
   is; its parent is another one. *)
LEMMA AncestorInUse ==
  ASSUME ParentSplit,
         NEW i \in Node, NEW j \in Node, buddy_meta[j] # "Free",
         find_order(i) <= find_order(j),
         Abs!Overlap(Block(i), Block(j))
  PROVE  buddy_meta[i] # "Free"
<1> DEFINE S == {k \in Node : /\ buddy_meta[k] # "Free"
                              /\ find_order(i) <= find_order(k)
                              /\ Abs!Overlap(Block(i), Block(k))}
<1>1. PICK m \in S : \A k \in S : m <= k
  <2>1. S \in SUBSET Nat /\ j \in S
    BY Zenon, NodeFacts
  <2> QED
    BY Zenon, <2>1, LeastNat
<1>2. /\ m \in Node /\ m \in Nat
      /\ buddy_meta[m] # "Free"
      /\ find_order(i) <= find_order(m)
      /\ Abs!Overlap(Block(i), Block(m))
      /\ find_order(i) \in Nat /\ find_order(m) \in Nat
  BY Zenon, <1>1, NodeFacts, LevelBounds
<1>3. CASE find_order(i) = find_order(m)
  BY Zenon, <1>2, <1>3, SameLevel DEF Abs!Overlap
<1>4. CASE find_order(i) < find_order(m)
  <2> DEFINE p == Parent(m)
  <2>1. m # 0
    BY <1>2, <1>4, LevelRoot
  <2>2. /\ p \in Node /\ p \in Nat /\ p < m
        /\ find_order(m) = find_order(p) + 1 /\ find_order(p) \in Nat
    BY Zenon, <1>2, <2>1, NodeFacts, ParentChild, LevelBounds
  <2>3. buddy_meta[p] = "Split" /\ Within(Block(m), Block(p))
    BY Zenon, <1>2, <2>1, BlockParent DEF ParentSplit
  <2> HIDE DEF p
  <2>4. Abs!Overlap(Block(i), Block(p))
    BY <1>2, <2>2, <2>3, BlockTyped DEF Abs!Overlap, Within
  <2>5. p \in S
    BY <1>2, <1>4, <2>2, <2>3, <2>4
  <2>6. m <= p
    BY <1>1, <2>5, Zenon
  <2> QED
    BY <2>2, <2>6
<1> QED
  BY <1>2, <1>3, <1>4

(* If no Split node is waiting for a child in use, every node in use has a
   live block within: otherwise take the last one that has none; one of its
   children is a later one. *)
LEMMA UsedHasLive ==
  ASSUME Inv, SplitInv, \A k \in Node : ~Opening(k),
         NEW i \in Node, buddy_meta[i] # "Free"
  PROVE  \E c \in live : Within(c, Block(i))
<1> DEFINE Good(k) == \E c \in live : Within(c, Block(k))
           N == buddy_node_count
           S == {n \in Nat : \E k \in Node : n = N - k /\ buddy_meta[k] # "Free" /\ ~Good(k)}
<1> SUFFICES ASSUME S # {} PROVE FALSE
  <2>1. N - i \in Nat
    BY NodeCount DEF Node
  <2> QED
    BY Zenon, <2>1
<1>1. PICK n \in S : \A x \in S : n <= x
  BY Zenon, LeastNat
<1>2. PICK k \in Node : n = N - k /\ buddy_meta[k] # "Free" /\ ~Good(k)
  BY Zenon, <1>1
<1>3. buddy_meta[k] = "Split"
  <2>1. ASSUME buddy_meta[k] = "Allocated" PROVE FALSE
    <3>1. Block(k) \in live
      BY Zenon, <2>1 DEF Inv, LiveInv, AllocatedNodes
    <3>2. Within(Block(k), Block(k))
      BY BlockTyped DEF Within
    <3> QED
      BY Zenon, <1>2, <3>1, <3>2
  <2> QED
    BY Zenon, <1>2, <2>1 DEF Inv, TypeOK, BlockState
<1>4. PICK c \in {Left(k), Right(k)} : c \in Node /\ buddy_meta[c] # "Free"
  BY Zenon, <1>3, NodeFacts DEF SplitInv
<1>5. c \in Node \ {0} /\ Parent(c) = k /\ k < c /\ k \in Nat /\ c \in Nat
  <2>1. k \in Nat /\ c \in Nat
    BY Zenon, <1>2, <1>4, NodeFacts
  <2>2. c # 0 /\ Parent(c) = k
    BY Zenon, <1>4, <2>1, ChildParent
  <2> QED
    BY Zenon, <1>4, <2>1, <2>2, ParentChild
<1>6. Within(Block(c), Block(k))
  BY Zenon, <1>5, BlockParent
<1>7. ~Good(c)
  <2> SUFFICES ASSUME NEW b \in live, Within(b, Block(c)) PROVE Good(k)
    BY Zenon, <1>2
  <2>1. PICK j \in Node : b = Block(j)
    BY Zenon DEF Inv, LiveInv, AllocatedNodes
  <2>2. Within(Block(j), Block(k))
    BY <1>2, <1>4, <1>6, <2>1, BlockTyped DEF Within
  <2> QED
    BY Zenon, <2>1, <2>2
<1>8. N - c \in Nat /\ N - c < N - k /\ N \in Nat
  BY <1>4, <1>5, NodeCount DEF Node
<1>9. N - c \in S
  BY Zenon, <1>4, <1>7, <1>8
<1>10. n <= N - c
  BY <1>1, <1>9, Zenon
<1> QED
  BY <1>2, <1>5, <1>8, <1>10

(* A node of the size that is looked for, below Split nodes only, and free,
   overlaps no live block. *)
LEMMA FreeNodeFree ==
  ASSUME Inv, NEW i \in Node, buddy_meta[i] = "Free",
         i # 0 => buddy_meta[Parent(i)] = "Split"
  PROVE  ~Taken(i)
<1> SUFFICES ASSUME NEW c \in live, Abs!Overlap(Block(i), c) PROVE FALSE
  BY Zenon DEF Taken
<1>1. PICK j \in Node : buddy_meta[j] = "Allocated" /\ c = Block(j)
  BY Zenon DEF Inv, LiveInv, AllocatedNodes
<1>2. find_order(i) \in Nat /\ find_order(j) \in Nat
  BY Zenon, <1>1, NodeFacts, LevelBounds
<1>3. CASE find_order(i) <= find_order(j)
  BY Zenon, <1>1, <1>3, AncestorInUse DEF Inv
<1>4. CASE find_order(j) < find_order(i)
  <2> DEFINE p == Parent(i)
  <2>1. i # 0
    BY <1>2, <1>4, LevelRoot
  <2>2. p \in Node /\ find_order(i) = find_order(p) + 1 /\ find_order(p) \in Nat
    BY Zenon, <2>1, NodeFacts, LevelBounds
  <2>3. buddy_meta[p] = "Split" /\ Within(Block(i), Block(p))
    BY Zenon, <2>1, BlockParent
  <2> HIDE DEF p
  <2>4. Abs!Overlap(Block(j), Block(p))
    BY <1>1, <2>2, <2>3, BlockTyped DEF Abs!Overlap, Within
  <2>5. j = p
    BY <1>1, <1>2, <1>4, <2>2, <2>3, <2>4, NothingInsideAllocated DEF Inv
  <2> QED
    BY Zenon, <1>1, <2>3, <2>5
<1> QED
  BY <1>2, <1>3, <1>4

-----------------------------------------------------------------------------
(* The second invariant is preserved *)

(* A node and its children. *)
LEMMA Family ==
  ASSUME NEW i \in Node
  PROVE  /\ i # 0 => /\ Parent(i) \in Node /\ Parent(i) # i
                     /\ i \in {Left(Parent(i)), Right(Parent(i))}
         /\ \A c \in {Left(i), Right(i)} : c # i /\ c # 0 /\ Parent(c) = i
         /\ find_order(i) < Depth => Left(i) \in Node /\ Right(i) \in Node
<1>1. i \in Nat
  BY Zenon, NodeFacts
<1>2. \A c \in {Left(i), Right(i)} : c # 0 /\ Parent(c) = i /\ c # i
  <2>1. Left(i) # i /\ Right(i) # i
    BY <1>1 DEF Left, Right
  <2> QED
    BY Zenon, <1>1, <2>1, ChildParent
<1>3. i # 0 => /\ Parent(i) \in Node /\ Parent(i) # i
               /\ i \in {Left(Parent(i)), Right(Parent(i))}
  BY <1>1, ParentChild, NodeFacts
<1> QED
  BY Zenon, <1>2, <1>3, NodeFacts

(* A node in use is reached, or the search goes on below a Split one. *)
LEMMA SplitSearch ==
  ASSUME Inv, SplitInv, SearchTake \/ SearchSkip \/ SearchDescend \/ SearchFail
  PROVE  SplitInv'
<1>1. buddy_meta \in [Node -> BlockState] /\ stack \in Seq(Node) /\ req.order \in Level
  BY Zenon DEF Inv, TypeOK
<1>2. CASE SearchTake
  <2>1. Top \in Node
    BY Zenon, <1>1, <1>2, StackOps DEF SearchTake
  <2>2. /\ buddy_meta' = [buddy_meta EXCEPT ![Top] = "Allocated"]
        /\ pc = "search"
    BY Zenon, <1>2 DEF SearchTake
  <2> SUFFICES ASSUME NEW i \in Node, buddy_meta'[i] = "Split"
               PROVE  /\ find_order(i) < Depth
                      /\ buddy_meta'[Left(i)] # "Free" \/ buddy_meta'[Right(i)] # "Free"
    BY Zenon DEF SplitInv
  <2>3. buddy_meta[i] = "Split"
    BY Zenon, <1>1, <2>1, <2>2
  <2>4. find_order(i) < Depth /\ Left(i) \in Node /\ Right(i) \in Node
    BY Zenon, <2>3, Family DEF SplitInv
  <2>5. CASE Opening(i)
    <3>1. Top # 0 /\ i = Parent(Top)
      BY Zenon, <2>2, <2>5 DEF Opening
    <3>2. Top \in {Left(i), Right(i)}
      BY Zenon, <2>1, <3>1, Family
    <3> QED
      BY Zenon, <1>1, <2>1, <2>2, <2>4, <3>2
  <2>6. CASE buddy_meta[Left(i)] # "Free" \/ buddy_meta[Right(i)] # "Free"
    BY Zenon, <1>1, <2>1, <2>2, <2>4, <2>6
  <2> QED
    BY Zenon, <2>3, <2>4, <2>5, <2>6 DEF SplitInv
<1>3. CASE SearchSkip
  BY Zenon, <1>3 DEF SearchSkip, SplitInv, Opening
<1>4. CASE SearchDescend
  <2> DEFINE top == Top
  <2>1. /\ top \in Node /\ Pop \in Seq(Node)
    BY Zenon, <1>1, <1>4, StackOps DEF SearchDescend
  <2>2. /\ buddy_meta' = [buddy_meta EXCEPT ![top] = "Split"]
        /\ pc = "search" /\ pc' = "search" /\ buddy_meta[top] # "Allocated"
        /\ find_order(top) # req.order /\ stack # <<>>
        /\ stack' = Pop \o <<Right(top), Left(top)>>
    BY Zenon, <1>4 DEF SearchDescend
  <2>3. find_order(top) < Depth
    <3>1. Len(stack) \in 1..Len(stack) /\ find_order(stack[Len(stack)]) <= req.order
      <4>1. Len(stack) \in Nat \ {0}
        BY Zenon, <1>1, <2>2, StackOps
      <4>2. Len(stack) \in 1..Len(stack)
        BY <4>1
      <4> QED
        BY Zenon, <4>2 DEF Inv, StackInv
    <3>2. find_order(top) \in Level /\ find_order(top) <= req.order
      BY Zenon, <2>1, <3>1, NodeFacts DEF Top
    <3> QED
      BY <1>1, <2>2, <3>2, OrderAssumption DEF Level, Depth
  <2>4. Left(top) \in Node /\ Right(top) \in Node
    BY Zenon, <2>1, <2>3, Family
  <2>5. stack' # <<>> /\ Top' = Left(top)
    <3>1. /\ Len(stack') = Len(Pop) + 2 /\ stack'[Len(Pop) + 2] = Left(top)
          /\ stack' \in Seq(Node)
      BY <2>1, <2>2, <2>4, PushTwo
    <3>2. Len(Pop) \in Nat
      BY <2>1
    <3> QED
      BY <3>1, <3>2 DEF Top
  <2> HIDE DEF top
  <2> SUFFICES ASSUME NEW i \in Node, buddy_meta'[i] = "Split"
               PROVE  /\ find_order(i) < Depth
                      /\ \/ buddy_meta'[Left(i)] # "Free" \/ buddy_meta'[Right(i)] # "Free"
                         \/ Opening(i)'
    BY Zenon DEF SplitInv
  <2>6. CASE i = top
    <3>1. /\ Left(top) # top /\ Right(top) # top /\ Left(top) # 0
          /\ Parent(Left(top)) = top /\ Parent(Right(top)) = top
      BY Zenon, <2>1, Family
    <3>2. /\ buddy_meta'[Left(top)] = buddy_meta[Left(top)]
          /\ buddy_meta'[Right(top)] = buddy_meta[Right(top)]
      BY Zenon, <1>1, <2>1, <2>2, <2>4, <3>1
    <3>3. CASE buddy_meta'[Left(top)] = "Free"
      <4>1. Opening(i)'
        BY Zenon, <2>2, <2>5, <2>6, <3>1, <3>3 DEF Opening
      <4> QED
        BY Zenon, <2>3, <2>6, <4>1
    <3> QED
      BY Zenon, <2>3, <2>6, <3>3
  <2>7. CASE i # top
    <3>1. buddy_meta[i] = "Split"
      BY Zenon, <1>1, <2>1, <2>2, <2>7
    <3>2. find_order(i) < Depth /\ Left(i) \in Node /\ Right(i) \in Node
      BY <3>1, Family DEF SplitInv
    <3>3. CASE Opening(i)
      <4>1. top # 0 /\ i = Parent(top)
        BY Zenon, <2>2, <3>3 DEF Opening, top
      <4>2. top \in {Left(i), Right(i)}
        BY Zenon, <2>1, <4>1, Family
      <4> QED
        BY Zenon, <1>1, <2>1, <2>2, <3>2, <4>2
    <3>4. CASE buddy_meta[Left(i)] # "Free" \/ buddy_meta[Right(i)] # "Free"
      BY Zenon, <1>1, <2>1, <2>2, <3>2, <3>4
    <3> QED
      BY Zenon, <3>1, <3>2, <3>3, <3>4 DEF SplitInv
  <2> QED
    BY Zenon, <2>6, <2>7
<1>5. CASE SearchFail
  BY Zenon, <1>5 DEF SearchFail, SplitInv, Opening
<1> QED
  BY Zenon, <1>2, <1>3, <1>4, <1>5

(* buddy_free merges every pair of buddies that it makes free. *)
LEMMA SplitFree ==
  ASSUME Inv, SplitInv,
         \/ \E b \in live : FreeBegin(b)
         \/ MergeStop \/ MergeAtRoot \/ MergeUp
  PROVE  SplitInv'
<1>1. buddy_meta \in [Node -> BlockState] /\ cur.i \in Node
  BY Zenon DEF Inv, TypeOK
<1>2. ASSUME NEW j \in Node, buddy_meta' = [buddy_meta EXCEPT ![j] = "Free"],
             j # 0 => pc' = "merge" /\ cur'.i = j,
             \A k \in Node : k # j => ~Opening(k)
      PROVE  SplitInv'
  <2> SUFFICES ASSUME NEW i \in Node, buddy_meta'[i] = "Split"
               PROVE  /\ find_order(i) < Depth
                      /\ \/ buddy_meta'[Left(i)] # "Free" \/ buddy_meta'[Right(i)] # "Free"
                         \/ Opening(i)'
    BY Zenon DEF SplitInv
  <2>1. buddy_meta[i] = "Split" /\ i # j
    BY Zenon, <1>1, <1>2
  <2>2. find_order(i) < Depth /\ Left(i) \in Node /\ Right(i) \in Node
    BY Zenon, <2>1, Family DEF SplitInv
  <2>3. PICK c \in {Left(i), Right(i)} : buddy_meta[c] # "Free"
    BY Zenon, <1>2, <2>1 DEF SplitInv
  <2>4. CASE c = j
    <3>1. j # 0 /\ Parent(j) = i
      BY Zenon, <2>3, <2>4, Family
    <3>2. Opening(i)'
      BY Zenon, <1>2, <3>1 DEF Opening
    <3> QED
      BY Zenon, <2>2, <3>2
  <2>5. CASE c # j
    BY <1>1, <1>2, <2>2, <2>3, <2>5
  <2> QED
    BY Zenon, <2>4, <2>5
<1>3. ASSUME NEW b \in live, FreeBegin(b) PROVE SplitInv'
  <2>1. PICK j \in Node : buddy_meta[j] = "Allocated" /\ b = Block(j)
    BY Zenon DEF Inv, LiveInv, AllocatedNodes
  <2>2. NodeOf(b) = j
    BY Zenon, <2>1, NodeOfBlock
  <2>3. /\ buddy_meta' = [buddy_meta EXCEPT ![j] = "Free"] /\ pc' = "merge" /\ pc = "idle"
        /\ cur' = Cursor(j, LevelOf(b))
    BY Zenon, <1>3, <2>1, <2>2 DEF FreeBegin
  <2>4. cur'.i = j /\ \A k \in Node : ~Opening(k)
    BY Zenon, <2>3 DEF Cursor, Opening
  <2> QED
    BY Zenon, <1>2, <2>3, <2>4
<1>4. CASE MergeStop
  <2>1. /\ buddy_meta' = buddy_meta /\ pc = "merge"
        /\ buddy_meta[BuddyOf(cur.i, find_order(cur.i))] # "Free"
    BY <1>4 DEF MergeStop, Inv, CurInv, Cursor
  <2> SUFFICES ASSUME NEW i \in Node, buddy_meta[i] = "Split"
               PROVE  /\ find_order(i) < Depth
                      /\ buddy_meta[Left(i)] # "Free" \/ buddy_meta[Right(i)] # "Free"
    BY Zenon, <2>1 DEF SplitInv
  <2>2. CASE Opening(i)
    <3>1. cur.i # 0 /\ i = Parent(cur.i)
      BY Zenon, <2>1, <2>2 DEF Opening
    <3>2. BuddyOf(cur.i, find_order(cur.i)) \in {Left(i), Right(i)}
      <4>1. cur.i \in Nat \ {0}
        BY Zenon, <1>1, <3>1, NodeFacts
      <4> QED
        BY Zenon, <3>1, <4>1, Buddies
    <3> QED
      BY Zenon, <2>1, <3>2 DEF SplitInv
  <2> QED
    BY Zenon, <2>2 DEF SplitInv
<1>5. CASE MergeAtRoot
  BY Zenon, <1>5 DEF MergeAtRoot, SplitInv, Opening
<1>6. CASE MergeUp
  <2> DEFINE j == Parent(cur.i)
  <2>1. pc = "merge" /\ cur.i # 0 /\ buddy_meta[j] = "Split" /\ j \in Node
    BY Zenon, <1>1, <1>6, Family DEF MergeUp, Inv, CurInv
  <2>2. /\ buddy_meta' = [buddy_meta EXCEPT ![j] = "Free"]
        /\ j # 0 => pc' = "merge" /\ cur' = Cursor(j, cur.level - 1)
    BY Zenon, <1>6, <2>1 DEF MergeUp
  <2>3. \A k \in Node : k # j => ~Opening(k)
    BY Zenon, <2>1 DEF Opening
  <2>4. j # 0 => pc' = "merge" /\ cur'.i = j
    BY <2>2 DEF Cursor
  <2> HIDE DEF j
  <2> QED
    BY Zenon, <1>2, <2>1, <2>2, <2>3, <2>4
<1> QED
  BY Zenon, <1>3, <1>4, <1>5, <1>6

(* The search passes only blocks that are taken. *)
LEMMA SearchSkipPasses ==
  ASSUME CInv, SearchSkip
  PROVE  SearchInv'
<1> DEFINE n == Len(stack)
<1>1. /\ pc = "search" /\ stack # <<>> /\ stack' = Pop
      /\ req' = req /\ live' = live /\ buddy_meta[Top] # "Free"
      /\ find_order(Top) # req.order => buddy_meta[Top] = "Allocated"
  BY Zenon DEF SearchSkip
<1>2. /\ n \in Nat \ {0} /\ Top \in Node /\ Pop \in Seq(Node) /\ Len(Pop) = n - 1
      /\ \A k \in 1..(n - 1) : Pop[k] = stack[k]
      /\ Top = stack[n]
  BY Zenon, <1>1, StackOps DEF CInv, Inv, TypeOK, Top
<1>3. /\ \A k \in 1..n : End(Block(stack[k])) =
                           IF k = 1 THEN RamEnd ELSE Block(stack[k - 1]).addr
      /\ \A i \in Node : find_order(i) = req.order /\ Block(i).addr < Block(Top).addr
                           => Taken(i)
      /\ req.bytes \in 1..mem_size /\ req.bytes <= MaxRequest
      /\ req.n = RoundUp(req.bytes)
  BY Zenon, <1>1 DEF CInv, SearchInv, Frontier
<1>4. \A k \in 1..(n - 1) : End(Block(Pop[k])) =
                              IF k = 1 THEN RamEnd ELSE Block(Pop[k - 1]).addr
  <2> SUFFICES ASSUME NEW k \in 1..(n - 1)
               PROVE  End(Block(Pop[k])) = IF k = 1 THEN RamEnd ELSE Block(Pop[k - 1]).addr
    BY Zenon
  <2>1. k \in 1..n /\ (k # 1 => k - 1 \in 1..(n - 1))
    BY <1>2
  <2> HIDE DEF n
  <2> QED
    BY Zenon, <1>2, <1>3, <2>1
<1>5. Frontier' = End(Block(Top))
  <2>1. n \in 1..n
    BY <1>2
  <2>2. CASE n = 1
    <3>1. stack' = <<>>
      BY <1>1, <1>2, <2>2
    <3> QED
      BY Zenon, <1>2, <1>3, <2>1, <2>2, <3>1 DEF Frontier
  <2>3. CASE n # 1
    <3>1. stack' # <<>> /\ Top' = stack[n - 1]
      BY <1>1, <1>2, <2>3 DEF Top
    <3>2. End(Block(Top)) = Block(stack[n - 1]).addr
      BY Zenon, <1>2, <1>3, <2>1, <2>3
    <3> QED
      BY Zenon, <3>1, <3>2 DEF Frontier
  <2> QED
    BY Zenon, <2>2, <2>3
<1>6. ASSUME NEW i \in Node, find_order(i) = req.order, Block(i).addr < End(Block(Top))
      PROVE  Taken(i)
  <2>1. CASE Block(i).addr < Block(Top).addr
    BY Zenon, <1>3, <1>6, <2>1
  <2>2. CASE Block(i).addr >= Block(Top).addr
    <3>1. Abs!Overlap(Block(i), Block(Top))
      BY Zenon, <1>2, <1>6, <2>2, StartOverlaps
    <3>2. CASE find_order(Top) = req.order
      <4>1. i = Top
        BY Zenon, <1>2, <1>6, <3>1, <3>2, SameLevel DEF Abs!Overlap
      <4>2. PICK c \in live : Within(c, Block(Top))
        <5>1. \A k \in Node : ~Opening(k)
          BY Zenon, <1>1 DEF Opening
        <5> QED
          BY Zenon, <1>1, <1>2, <5>1, UsedHasLive DEF CInv
      <4>3. PICK j \in Node : c = Block(j)
        BY Zenon DEF CInv, Inv, LiveInv, AllocatedNodes
      <4>4. Abs!Overlap(Block(i), c)
        <5>1. Within(Block(j), Block(i))
          BY Zenon, <4>1, <4>2, <4>3
        <5> QED
          BY Zenon, <1>6, <4>3, <5>1, WithinOverlaps
      <4> QED
        BY Zenon, <4>4 DEF Taken
    <3>3. CASE find_order(Top) # req.order
      <4>1. Block(Top) \in live
        BY Zenon, <1>1, <1>2, <3>3 DEF CInv, Inv, LiveInv, AllocatedNodes
      <4> QED
        BY Zenon, <3>1, <4>1 DEF Taken
    <3> QED
      BY Zenon, <3>2, <3>3
  <2> QED
    BY <1>2, <2>1, <2>2, BlockTyped
<1>7. \A i \in Node : find_order(i) = req.order /\ Block(i).addr < Frontier' => Taken(i)'
  BY Zenon, <1>1, <1>5, <1>6 DEF Taken
<1> QED
  BY Zenon, <1>1, <1>2, <1>3, <1>4, <1>7 DEF SearchInv

(* Opening a node leaves the frontier where it is. *)
LEMMA SearchDescendPasses ==
  ASSUME CInv, SearchDescend
  PROVE  SearchInv'
<1> DEFINE n == Len(stack)
           top == Top
<1>1. /\ pc = "search" /\ stack # <<>> /\ stack' = Pop \o <<Right(top), Left(top)>>
      /\ req' = req /\ live' = live /\ find_order(top) # req.order
  BY Zenon DEF SearchDescend
<1>2. /\ n \in Nat \ {0} /\ top \in Node /\ Pop \in Seq(Node) /\ Len(Pop) = n - 1
      /\ \A k \in 1..(n - 1) : Pop[k] = stack[k]
      /\ top = stack[n] /\ req.order \in Level
  BY Zenon, <1>1, StackOps DEF CInv, Inv, TypeOK, Top
<1>3. /\ \A k \in 1..n : End(Block(stack[k])) =
                           IF k = 1 THEN RamEnd ELSE Block(stack[k - 1]).addr
      /\ \A i \in Node : find_order(i) = req.order /\ Block(i).addr < Block(top).addr
                           => Taken(i)
      /\ req.bytes \in 1..mem_size /\ req.bytes <= MaxRequest
      /\ req.n = RoundUp(req.bytes)
  BY Zenon, <1>1 DEF CInv, SearchInv, Frontier
<1>4. find_order(top) < Depth
  <2>1. n \in 1..n
    BY <1>2
  <2>2. find_order(top) <= req.order
    BY Zenon, <1>2, <2>1 DEF CInv, Inv, StackInv
  <2>3. find_order(top) \in Level
    BY Zenon, <1>2, NodeFacts
  <2> QED
    BY <1>1, <1>2, <2>2, <2>3, OrderAssumption DEF Level, Depth
<1>5. /\ Left(top) \in Node /\ Right(top) \in Node
      /\ Block(Left(top)).addr = Block(top).addr
      /\ End(Block(Left(top))) = Block(Right(top)).addr
      /\ End(Block(Right(top))) = End(Block(top))
  BY Zenon, <1>2, <1>4, BlockChildren
<1>6. /\ stack' \in Seq(Node) /\ Len(stack') = n + 1
      /\ \A k \in 1..(n - 1) : stack'[k] = stack[k]
      /\ stack'[n] = Right(top) /\ stack'[n + 1] = Left(top)
  <2>1. /\ stack' \in Seq(Node) /\ Len(stack') = Len(Pop) + 2
        /\ \A k \in 1..Len(Pop) : stack'[k] = Pop[k]
        /\ stack'[Len(Pop) + 1] = Right(top) /\ stack'[Len(Pop) + 2] = Left(top)
    <3> DEFINE s == Pop
               a == Right(top)
               b == Left(top)
    <3>1. s \in Seq(Node) /\ a \in Node /\ b \in Node /\ stack' = s \o <<a, b>>
      BY Zenon, <1>1, <1>2, <1>5
    <3> HIDE DEF s, a, b
    <3>2. /\ stack' \in Seq(Node) /\ Len(stack') = Len(s) + 2
          /\ \A k \in 1..Len(s) : stack'[k] = s[k]
          /\ stack'[Len(s) + 1] = a /\ stack'[Len(s) + 2] = b
      BY <3>1, PushTwo
    <3> QED
      BY Zenon, <3>2 DEF s, a, b
  <2>2. Len(Pop) + 2 = n + 1 /\ Len(Pop) + 1 = n
    BY <1>2
  <2> HIDE DEF n
  <2> QED
    BY Zenon, <1>2, <2>1, <2>2
<1> HIDE DEF n, top
<1>7. ASSUME NEW k \in 1..(n + 1)
      PROVE  End(Block(stack'[k])) = IF k = 1 THEN RamEnd ELSE Block(stack'[k - 1]).addr
  <2>1. CASE k <= n - 1
    <3>1. k \in 1..(n - 1) /\ k \in 1..n /\ (k # 1 => k - 1 \in 1..(n - 1))
      BY <1>2, <2>1
    <3> QED
      BY Zenon, <1>3, <1>6, <3>1
  <2>2. CASE k = n
    <3>1. n \in 1..n /\ (n # 1 => n - 1 \in 1..(n - 1))
      BY <1>2
    <3> QED
      BY Zenon, <1>2, <1>3, <1>5, <1>6, <2>2, <3>1
  <2>3. CASE k = n + 1
    <3>1. n + 1 # 1 /\ (n + 1) - 1 = n
      BY <1>2
    <3> QED
      BY Zenon, <1>5, <1>6, <2>3, <3>1
  <2> QED
    BY <1>2, <2>1, <2>2, <2>3
<1>8. Frontier' = Block(top).addr
  <2>1. stack' # <<>> /\ Top' = Left(top)
    BY <1>2, <1>6 DEF Top
  <2> QED
    BY Zenon, <1>5, <2>1 DEF Frontier
<1>9. \A i \in Node : find_order(i) = req.order /\ Block(i).addr < Frontier' => Taken(i)'
  BY Zenon, <1>1, <1>3, <1>8 DEF Taken
<1> QED
  BY Zenon, <1>1, <1>3, <1>6, <1>7, <1>9 DEF SearchInv

(* Every step preserves the second invariant. *)
LEMMA CInvStep == CInv /\ [Next]_vars => CInv'
<1> SUFFICES ASSUME CInv, [Next]_vars PROVE CInv'
  OBVIOUS
<1>1. Inv' /\ Inv /\ SplitInv
  BY Zenon, InvStep DEF CInv
<1>2. CASE SearchTake \/ SearchFail
  BY Zenon, <1>1, <1>2, SplitSearch DEF CInv, SearchInv, SearchTake, SearchFail
<1>3. CASE SearchSkip
  BY Zenon, <1>1, <1>3, SplitSearch, SearchSkipPasses DEF CInv
<1>4. CASE SearchDescend
  BY Zenon, <1>1, <1>4, SplitSearch, SearchDescendPasses DEF CInv
<1>5. CASE \/ \E b \in live : FreeBegin(b)
           \/ MergeStop \/ MergeAtRoot \/ MergeUp
  <2>1. SplitInv'
    BY Zenon, <1>1, <1>5, SplitFree
  <2>2. pc' # "search"
    BY Zenon, <1>5 DEF FreeBegin, MergeStop, MergeAtRoot, MergeUp
  <2> QED
    BY Zenon, <1>1, <2>1, <2>2 DEF CInv, SearchInv
<1>6. ASSUME NEW bytes \in 0..MaxRequest, AllocReject(bytes) PROVE CInv'
  BY Zenon, <1>1, <1>6 DEF AllocReject, CInv, SplitInv, Opening, SearchInv
<1>7. ASSUME NEW bytes \in 0..MaxRequest, AllocBegin(bytes) PROVE CInv'
  <2>1. /\ pc = "idle" /\ pc' = "search" /\ stack' = <<0>>
        /\ buddy_meta' = buddy_meta /\ bytes \in 1..mem_size
        /\ req'.bytes = bytes /\ req'.n = RoundUp(bytes)
    BY Zenon, <1>7 DEF AllocBegin
  <2>2. SplitInv'
    BY Zenon, <1>1, <2>1 DEF SplitInv, Opening
  <2>3. Len(stack') = 1 /\ stack'[1] = 0 /\ stack' # <<>> /\ Top' = 0
    BY Zenon, <2>1 DEF Top
  <2>4. Frontier' = ram_start
    BY Zenon, <2>3, BlockRoot DEF Frontier
  <2>5. \A i \in Node : ~(Block(i).addr < ram_start)
    BY BlockTyped, RamAssumption
  <2>6. bytes <= MaxRequest
    BY RequestAssumption
  <2>7. \A k \in 1..Len(stack') :
          End(Block(stack'[k])) = IF k = 1 THEN RamEnd ELSE Block(stack'[k - 1]).addr
    BY <2>3, BlockRoot
  <2> QED
    BY Zenon, <1>1, <2>1, <2>2, <2>4, <2>5, <2>6, <2>7 DEF CInv, SearchInv
<1>8. CASE FreeUnsized \/ Halt \/ UNCHANGED vars
  <2>1. UNCHANGED vars
    BY Zenon, <1>8 DEF FreeUnsized, Halt
  <2>2. \A i \in Node : Opening(i)' = Opening(i) /\ Taken(i)' = Taken(i)
    BY Zenon, <2>1 DEF vars, Opening, Taken, Top
  <2>3. Frontier' = Frontier
    BY Zenon, <2>1 DEF vars, Frontier, Top
  <2> QED
    BY <1>1, <2>1, <2>2, <2>3 DEF vars, CInv, SplitInv, SearchInv
<1> QED
  BY Zenon, <1>2, <1>3, <1>4, <1>5, <1>6, <1>7, <1>8 DEF Next, Step

(* The second invariant holds in every reachable state. *)
THEOREM CInvariance == Spec => []CInv
<1>1. Init => CInv
  BY Zenon, InitInv DEF Init, CInv, SplitInv, SearchInv
<1> QED
  BY <1>1, CInvStep, PTL DEF Spec

-----------------------------------------------------------------------------
(* What follows from the second invariant *)

(* A block within another is at least as deep. *)
LEMMA WithinLevel ==
  ASSUME NEW i \in Node, NEW j \in Node, Within(Block(j), Block(i))
  PROVE  find_order(i) <= find_order(j)
<1> SUFFICES ASSUME find_order(j) < find_order(i) PROVE FALSE
  BY NodeFacts, LevelBounds
<1> DEFINE a == mem_order - find_order(i)
           b == mem_order - find_order(j)
<1>1. find_order(i) \in Level /\ find_order(j) \in Level
  BY Zenon, NodeFacts
<1>2. a \in Nat /\ b \in Nat /\ a < b
  BY <1>1, OrderAssumption DEF Level
<1>3. Block(i).size = 2^a /\ Block(j).size = 2^b
  BY BlockShape
<1> HIDE DEF a, b
<1>4. 2 * 2^a <= 2^b
  BY <1>2, PowMono
<1>5. Block(j).size <= Block(i).size
  BY BlockTyped DEF Within
<1>6. Block(i).size \in Nat \ {0} /\ Block(j).size \in Nat
  BY Zenon, BlockTyped
<1> QED
  BY <1>3, <1>4, <1>5, <1>6

(* Between calls the tree is determined by the live blocks. *)
LEMMA InvCanonical == CInv => Canonical
<1> SUFFICES ASSUME CInv, pc = "idle", NEW i \in Node
             PROVE  buddy_meta[i] =
                      IF Block(i) \in live THEN "Allocated"
                      ELSE IF \E b \in live : Within(b, Block(i)) THEN "Split"
                      ELSE "Free"
  BY Zenon DEF Canonical
<1>1. /\ Inv /\ SplitInv /\ \A k \in Node : ~Opening(k)
      /\ buddy_meta[i] \in BlockState
  BY Zenon DEF CInv, Inv, TypeOK, Opening
<1>2. Block(i) \in live <=> buddy_meta[i] = "Allocated"
  BY Zenon, <1>1, BlockInjective DEF Inv, LiveInv, AllocatedNodes
<1>3. ASSUME buddy_meta[i] # "Free" PROVE \E b \in live : Within(b, Block(i))
  BY Zenon, <1>1, <1>3, UsedHasLive
<1>4. ASSUME NEW b \in live, Within(b, Block(i)) PROVE buddy_meta[i] # "Free"
  <2>1. PICK j \in Node : buddy_meta[j] = "Allocated" /\ b = Block(j)
    BY Zenon, <1>1 DEF Inv, LiveInv, AllocatedNodes
  <2>2. find_order(i) <= find_order(j)
    BY Zenon, <1>4, <2>1, WithinLevel
  <2>3. Within(Block(j), Block(i))
    BY Zenon, <1>4, <2>1
  <2>4. Abs!Overlap(Block(i), Block(j))
    BY Zenon, <2>3, WithinOverlaps
  <2> QED
    BY Zenon, <1>1, <2>1, <2>2, <2>4, AncestorInUse DEF Inv
<1> QED
  BY Zenon, <1>1, <1>2, <1>3, <1>4 DEF BlockState

(* The rounded request is the least size that BlockAllocator allows. *)
LEMMA SlotSizeIs ==
  ASSUME NEW n \in 1..mem_size
  PROVE  Abs!SlotSize(n) = RoundUp(n)
<1> DEFINE m == IF n < PAGE_SIZE THEN PAGE_SIZE ELSE n
           Sizes == {2^k : k \in page_order..mem_order}
           Fits(s) == n <= s /\ \A t \in Sizes : n <= t => s <= t
<1>1. PAGE_SIZE \in Nat \ {0} /\ mem_size \in Nat /\ PAGE_SIZE <= mem_size
  BY OrderAssumption, PowGt, PowMono DEF PAGE_SIZE, mem_size
<1>2. m \in PAGE_SIZE..mem_size /\ n <= m
  BY <1>1
<1>3. PICK k \in page_order..mem_order :
        /\ next_power_of_two(m) = 2^k
        /\ m <= 2^k
        /\ \A j \in 0..(k - 1) : 2^j < m
        /\ find_order(2^k) = k
  BY Zenon, <1>2, RequestLevel
<1>4. k \in Nat /\ 2^k \in Nat /\ page_order \in Nat
  BY <1>3, OrderAssumption, PowGt
<1>5. ASSUME NEW j \in page_order..mem_order, n <= 2^j PROVE 2^k <= 2^j
  <2>1. j \in Nat /\ 2^j \in Nat /\ PAGE_SIZE <= 2^j
    BY OrderAssumption, PowGt, PowMono DEF PAGE_SIZE
  <2>2. m <= 2^j
    BY Zenon, <1>5, <2>1
  <2>3. ~(j < k)
    <3> SUFFICES ASSUME j < k PROVE FALSE
      BY Zenon
    <3>1. j \in 0..(k - 1)
      BY <1>4, <2>1
    <3>2. 2^j < m
      BY Zenon, <1>3, <3>1
    <3> QED
      BY <1>1, <1>2, <2>1, <2>2, <3>2
  <2> QED
    BY <1>4, <2>1, <2>3, PowMono
<1>6. 2^k \in Sizes /\ Fits(2^k)
  <2>1. n <= 2^k
    BY <1>1, <1>2, <1>3, <1>4
  <2> QED
    BY Zenon, <1>3, <1>5, <2>1
<1>7. \A s \in Sizes : s \in Nat
  BY OrderAssumption, PowGt
<1>8. \A s \in Sizes : Fits(s) => s = 2^k
  BY <1>4, <1>6, <1>7
<1>9. Abs!SlotSize(n) = CHOOSE s \in Sizes : Fits(s)
  BY Zenon DEF Abs!SlotSize
<1> HIDE DEF Sizes, Fits
<1>10. (CHOOSE s \in Sizes : Fits(s)) = 2^k
  BY <1>6, <1>8, Zenon
<1> QED
  BY <1>3, <1>9, <1>10 DEF RoundUp

(* What the search may take, and what it has passed, in the client's terms. *)
LEMMA SearchSlots ==
  ASSUME CInv, pc = "search"
  PROVE  /\ Abs!SlotSize(req.bytes) = req.n
         /\ Abs!Slots(req.n) = {Block(i) : i \in {j \in Node : find_order(j) = req.order}}
         /\ req.bytes \in 1..mem_size /\ req.bytes \in 1..MaxRequest
<1>1. /\ req.bytes \in 1..mem_size /\ req.bytes <= MaxRequest /\ req.n = RoundUp(req.bytes)
      /\ req.n = 2^(mem_order - req.order) /\ req.order \in Level
  BY Zenon DEF CInv, Inv, StackInv, TypeOK, SearchInv
<1>2. Abs!SlotSize(req.bytes) = req.n
  BY Zenon, <1>1, SlotSizeIs
<1>3. Abs!Slots(req.n) = {Block(i) : i \in {j \in Node : find_order(j) = req.order}}
  BY Zenon, <1>1, SlotsOfLevel
<1> QED
  BY <1>1, <1>2, <1>3, RequestAssumption, PowGt, OrderAssumption DEF mem_size

(* The block that buddy_alloc returns: a slot of the right size, free, and the
   first one. *)
LEMMA TakesFirstFree ==
  ASSUME CInv, SearchTake
  PROVE  /\ live' = live \cup {Block(Top)}
         /\ Block(Top).size = req.n
         /\ Block(Top) \in Abs!Slots(req.n)
         /\ \A c \in live : ~Abs!Overlap(Block(Top), c)
         /\ \A s \in Abs!Slots(req.n) :
              s.addr < Block(Top).addr => \E c \in live : Abs!Overlap(s, c)
<1>1. pc = "search" /\ stack # <<>> /\ buddy_meta[Top] = "Free"
      /\ find_order(Top) = req.order
  BY DEF SearchTake
<1>2. Top \in Node /\ (Top # 0 => buddy_meta[Parent(Top)] = "Split")
  BY Zenon, <1>1, TopFacts DEF CInv
<1>3. [addr |-> BlockAddr(Top, find_order(Top)), size |-> req.n] = Block(Top)
  BY Zenon, <1>1, Orders DEF CInv, Inv, StackInv, Block
<1>4. live' = live \cup {Block(Top)} /\ Block(Top).size = req.n
  BY <1>3 DEF SearchTake
<1>5. Abs!Slots(req.n) = {Block(i) : i \in {j \in Node : find_order(j) = req.order}}
  BY Zenon, <1>1, SearchSlots
<1>6. ~Taken(Top)
  BY Zenon, <1>1, <1>2, FreeNodeFree DEF CInv
<1>7. \A i \in Node : find_order(i) = req.order /\ Block(i).addr < Block(Top).addr
                        => Taken(i)
  BY Zenon, <1>1 DEF CInv, SearchInv, Frontier
<1> QED
  BY <1>1, <1>2, <1>4, <1>5, <1>6, <1>7 DEF Taken

(* When the loop of buddy_alloc ends with an empty stack, no slot is free. *)
LEMMA FailsOnlyIfFull ==
  ASSUME CInv, SearchFail
  PROVE  Abs!FreeSlots(req.bytes) = {}
<1>1. pc = "search" /\ stack = <<>>
  BY Zenon DEF SearchFail
<1>2. /\ Abs!SlotSize(req.bytes) = req.n
      /\ Abs!Slots(req.n) = {Block(i) : i \in {j \in Node : find_order(j) = req.order}}
  BY Zenon, <1>1, SearchSlots
<1>3. \A i \in Node : find_order(i) = req.order => Taken(i)
  BY Zenon, <1>1, BlockTyped DEF CInv, SearchInv, Frontier
<1> QED
  BY Zenon, <1>2, <1>3 DEF Abs!FreeSlots, Taken

-----------------------------------------------------------------------------
(* The theorems *)

(* Between calls of buddy_alloc and buddy_free the tree is the one that the
   live blocks determine: nothing is lost, and free buddies are merged. *)
THEOREM TreeIsCanonical == Spec => []Canonical
BY CInvariance, InvCanonical, PTL

(* buddy_alloc returns a block only if every slot of that size at a lower
   address is in use. *)
THEOREM AllocatesFirstFit == Spec => FirstFit
<1>1. CInv /\ [Next]_vars =>
        [\A b \in live' \ live : \A s \in Abs!Slots(b.size) :
           s.addr < b.addr => \E c \in live : Abs!Overlap(s, c)]_vars
  <2> SUFFICES ASSUME CInv, Next
               PROVE  \A b \in live' \ live : \A s \in Abs!Slots(b.size) :
                        s.addr < b.addr => \E c \in live : Abs!Overlap(s, c)
    BY Zenon
  <2>1. CASE SearchTake
    <3>1. /\ live' = live \cup {Block(Top)}
          /\ Block(Top).size = req.n
          /\ \A s \in Abs!Slots(req.n) :
               s.addr < Block(Top).addr => \E c \in live : Abs!Overlap(s, c)
      BY Zenon, <2>1, TakesFirstFree
    <3> QED
      BY Zenon, <3>1
  <2>2. CASE ~SearchTake
    <3>1. live' \subseteq live
      BY Zenon, <2>2 DEF Next, Step, AllocReject, AllocBegin, FreeBegin, FreeUnsized,
                  SearchSkip, SearchDescend, SearchFail, MergeStop, MergeAtRoot,
                  MergeUp, Halt, vars
    <3> QED
      BY Zenon, <3>1
  <2> QED
    BY Zenon, <2>1, <2>2
<1> QED
  BY <1>1, CInvariance, PTL DEF Spec, FirstFit

(* Every step of the tree algorithm is a step of the client's view, or none. *)
LEMMA RefinesStep == CInv /\ [Next]_vars => [Abs!Next]_(Abs!vars)
<1> SUFFICES ASSUME CInv, [Next]_vars PROVE [Abs!Next]_(Abs!vars)
  BY Zenon
<1> USE DEF Abs!vars
<1>1. CASE UNCHANGED vars
  BY Zenon, <1>1 DEF vars
<1>2. ASSUME NEW bytes \in 0..MaxRequest, AllocReject(bytes)
      PROVE  [Abs!Next]_(Abs!vars)
  <2>1. CASE bytes > mem_size /\ ret' = [bytes |-> bytes, result |-> "OutOfMemory"]
    <3>1. Abs!OutOfMemory(bytes)
      BY Zenon, <1>2, <2>1 DEF AllocReject, Abs!OutOfMemory
    <3>2. bytes \in 1..MaxRequest
      BY <2>1, OrderAssumption, PowGt, RequestAssumption DEF mem_size
    <3> QED
      BY Zenon, <3>1, <3>2 DEF Abs!Next
  <2>2. CASE bytes = 0 /\ ret' = [bytes |-> bytes, result |-> "ZeroSize"]
    BY Zenon, <1>2, <2>2 DEF AllocReject, Abs!ZeroSize, Abs!Next
  <2> QED
    BY Zenon, <1>2, <2>1, <2>2 DEF AllocReject
<1>3. ASSUME NEW bytes \in 0..MaxRequest, AllocBegin(bytes)
      PROVE  [Abs!Next]_(Abs!vars)
  BY Zenon, <1>3 DEF AllocBegin, Abs!Call, Abs!Next, NoRet, Abs!NoRet
<1>4. ASSUME NEW b \in live, FreeBegin(b)
      PROVE  [Abs!Next]_(Abs!vars)
  <2>1. Abs!Free(b)
    BY Zenon, <1>4 DEF FreeBegin, Abs!Free, NoRet, Abs!NoRet
  <2> QED
    BY Zenon, <2>1 DEF Abs!Next
<1>5. CASE SearchTake
  <2>1. pc = "search" /\ ret' = [bytes |-> req.bytes, result |-> "Ok"]
    BY Zenon, <1>5 DEF SearchTake
  <2>2. /\ Abs!SlotSize(req.bytes) = req.n
        /\ req.bytes \in 1..mem_size /\ req.bytes \in 1..MaxRequest
    BY Zenon, <2>1, SearchSlots
  <2>3. Block(Top) \in Abs!FreeSlots(req.bytes) /\ live' = live \cup {Block(Top)}
    BY Zenon, <1>5, <2>2, TakesFirstFree DEF Abs!FreeSlots
  <2>4. Abs!Alloc(req.bytes)
    BY Zenon, <2>1, <2>2, <2>3 DEF Abs!Alloc
  <2> QED
    BY Zenon, <2>2, <2>4 DEF Abs!Next
<1>6. CASE SearchFail
  <2>1. /\ pc = "search" /\ UNCHANGED live
        /\ ret' = [bytes |-> req.bytes, result |-> "OutOfMemory"]
    BY Zenon, <1>6 DEF SearchFail
  <2>2. req.bytes \in 1..MaxRequest
    BY Zenon, <2>1, SearchSlots
  <2>3. Abs!FreeSlots(req.bytes) = {}
    BY Zenon, <1>6, FailsOnlyIfFull
  <2>4. Abs!OutOfMemory(req.bytes)
    BY <2>1, <2>2, <2>3, RequestAssumption DEF Abs!OutOfMemory
  <2> QED
    BY Zenon, <2>2, <2>4 DEF Abs!Next
<1>7. CASE SearchSkip \/ SearchDescend \/ MergeStop \/ MergeAtRoot \/ MergeUp
           \/ FreeUnsized \/ Halt
  BY Zenon, <1>7 DEF SearchSkip, SearchDescend, MergeStop, MergeAtRoot, MergeUp,
              FreeUnsized, Halt, vars
<1> QED
  BY Zenon, <1>1, <1>2, <1>3, <1>4, <1>5, <1>6, <1>7 DEF Next, Step

(* The buddy allocator implements BlockAllocator: it serves a request from a
   free slot of the least size that holds it, and refuses one only if no such
   slot is free. *)
THEOREM ImplementsBlockAllocatorAlways == Spec => ImplementsBlockAllocator
<1>1. Init => Abs!Init
  BY Zenon DEF Init, Abs!Init, NoRet, Abs!NoRet
<1> QED
  BY <1>1, RefinesStep, CInvariance, PTL DEF Spec, ImplementsBlockAllocator, Abs!Spec

=============================================================================
