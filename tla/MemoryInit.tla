------------------------------- MODULE MemoryInit -------------------------------
(***************************************************************************)
(* Memory::new of rust/src/mem.rs with its bump allocator InitialAlloc, on *)
(* any RAM of whole pages and any reserved region, and what buddy_alloc    *)
(* then makes of the sizes it computed, up to its search.                  *)
(*                                                                         *)
(* BuddyTree and Buddy take RAM to be a power of two; this module shows    *)
(* where that is needed.                                                   *)
(***************************************************************************)
EXTENDS Integers, Words

CONSTANTS
  PAGE_SIZE,    \* 4096 in the kernel
  WORD,         \* size_of::<usize>(); 4 in the kernel
  Rams,         \* the possible RAM regions, as records of start and end
  Reserves,     \* the possible reserved regions
  Requests      \* the sizes that buddy_alloc is asked for

(* A page is a power of two and has room for two words.  kernel.ld aligns both
   regions to pages, the reserved one below RAM; RAM has at least one page. *)
ASSUME MemoryInitAssumption ==
  /\ PAGE_SIZE \in Nat /\ \E k \in 1..PAGE_SIZE : PAGE_SIZE = 2^k
  /\ WORD \in Nat \ {0} /\ 2 * WORD <= PAGE_SIZE
  /\ Requests \subseteq Nat
  /\ Rams \cup Reserves \subseteq [start : Nat, end : Nat]
  /\ \A r \in Rams \cup Reserves : r.start % PAGE_SIZE = 0 /\ r.end % PAGE_SIZE = 0
  /\ \A r \in Rams : r.start < r.end /\ r.end <= MAX
  /\ \A r \in Reserves : r.start <= r.end
  /\ \A r \in Rams, s \in Reserves : s.end <= r.start

VARIABLES
  ram, reserve,  \* the arguments of Memory::new
  next,          \* InitialAlloc.next
  meta, stack,   \* the blocks of buddy_meta and buddy_stack, and what is written there
  pc,            \* "meta", "stack", "ready", "memory_panic" or "size_panic"
  ret            \* buddy_alloc's request, the size it is rounded to, and how it goes on

vars == <<ram, reserve, next, meta, stack, pc, ret>>

NoBlock == [addr |-> 0, size |-> 0, used |-> 0]

-----------------------------------------------------------------------------

mem_size == ram.end - ram.start

buddy_node_count == 2 * (mem_size \div PAGE_SIZE) - 1

(* size_of::<BlockState>() is 1. *)
buddy_meta_size == buddy_node_count

buddy_high_order == find_order_word(mem_size)

buddy_low_order == find_order_word(PAGE_SIZE)

buddy_stack_len == buddy_high_order - buddy_low_order + 1

buddy_stack_size == Wrap(buddy_meta_size * WORD)

div_ceil_Floor(n) == n \div PAGE_SIZE

(* usize::div_ceil by PAGE_SIZE. *)
div_ceil(n) == (n + PAGE_SIZE - 1) \div PAGE_SIZE

-----------------------------------------------------------------------------

Init ==
  /\ ram \in Rams /\ reserve \in Reserves
  /\ next = reserve.start
  /\ meta = NoBlock /\ stack = NoBlock
  /\ pc = "meta"
  /\ ret = [n |-> 0, size |-> None, level |-> "none"]

(* The end of a block of n pages; the release build does not check either sum. *)
BlockEnd(n) == Wrap(next + Wrap(n * PAGE_SIZE))

Fits_Strict(n) == BlockEnd(n) < reserve.end

(* page_alloc's test for n pages. *)
Fits(n) == BlockEnd(n) <= reserve.end

(* page_alloc(n), of which the caller then writes used bytes. *)
PageAlloc(n, used) == [addr |-> next, size |-> Wrap(n * PAGE_SIZE), used |-> used]

Advance(n) == BlockEnd(n)

(* buddy_meta: every node is written Free. *)
NewMeta ==
  /\ pc = "meta"
  /\ Fits(div_ceil(buddy_meta_size))
  /\ meta' = PageAlloc(div_ceil(buddy_meta_size), buddy_node_count)
  /\ next' = Advance(div_ceil(buddy_meta_size))
  /\ pc' = "stack"
  /\ UNCHANGED <<ram, reserve, stack, ret>>

(* buddy_stack: write_bytes clears buddy_meta_size words. *)
NewStack ==
  /\ pc = "stack"
  /\ Fits(div_ceil(buddy_stack_size))
  /\ stack' = PageAlloc(div_ceil(buddy_stack_size), buddy_meta_size * WORD)
  /\ next' = Advance(div_ceil(buddy_stack_size))
  /\ pc' = "ready"
  /\ UNCHANGED <<ram, reserve, meta, ret>>

(* page_alloc panics: the reserved region is too small. *)
NoMemory ==
  /\ \/ pc = "meta" /\ ~Fits(div_ceil(buddy_meta_size))
     \/ pc = "stack" /\ ~Fits(div_ceil(buddy_stack_size))
  /\ pc' = "memory_panic"
  /\ UNCHANGED <<ram, reserve, next, meta, stack, ret>>

-----------------------------------------------------------------------------

Rounded_NoMinimum(n) == next_power_of_two_word(n)

Rounded(n) == next_power_of_two_word(IF n < PAGE_SIZE THEN PAGE_SIZE ELSE n)

Refused(n) == n > mem_size

Return(n, size, level) == ret' = [n |-> n, size |-> size, level |-> level]

(* buddy_alloc up to its search: the early returns, the expect on the rounded
   size, and req_order, a difference of words that must not be negative. *)
buddy_alloc(n) ==
  LET size  == Rounded(n)
      level == IF find_order_word(size) > buddy_high_order THEN "underflow" ELSE "search"
  IN  /\ pc = "ready"
      /\ IF Refused(n) THEN Return(n, None, "OutOfMemory") /\ UNCHANGED pc
         ELSE IF n = 0 THEN Return(n, None, "ZeroSize") /\ UNCHANGED pc
         ELSE IF size = None THEN Return(n, None, "too_large") /\ pc' = "size_panic"
         ELSE Return(n, size, level) /\ UNCHANGED pc
      /\ UNCHANGED <<ram, reserve, next, meta, stack>>

(* A panic waits for interrupts for ever. *)
Halt == pc \in {"memory_panic", "size_panic"} /\ UNCHANGED vars

Next == NewMeta \/ NewStack \/ NoMemory \/ (\E n \in Requests : buddy_alloc(n)) \/ Halt

Spec == Init /\ [][Next]_vars

-----------------------------------------------------------------------------
(* Properties *)

(* The two areas lie inside the reserved region and do not overlap, each in
   whole pages of its own, and each has room for what the allocator keeps
   there: a state for every node down to the single pages, for any number of
   pages, and the slice of the search stack, inside what was cleared for it. *)
AreasFit ==
  pc = "ready" =>
    /\ reserve.start <= meta.addr /\ meta.addr + meta.used <= stack.addr
    /\ stack.addr + stack.used <= next /\ next <= reserve.end
    /\ meta.addr % PAGE_SIZE = 0 /\ stack.addr % PAGE_SIZE = 0
    /\ 2^buddy_stack_len - 1 <= meta.used
    /\ buddy_stack_len * WORD <= stack.used

(* page_alloc "panics if there is not enough available memory", and only
   then: Memory::new returns if the reserved region has room, in whole pages,
   for a byte and then for a word for every node. *)
PanicsForCause ==
  LET Pages(n) == CHOOSE p \in 0..n : p * PAGE_SIZE >= n /\ (p - 1) * PAGE_SIZE < n
  IN  pc = "memory_panic" =>
        reserve.end - reserve.start
          < PAGE_SIZE * (Pages(buddy_node_count) + Pages(buddy_node_count * WORD))

(* "Returns the next powers of two that comes after n": the search looks for
   the least power of two that holds the request and is at least a page, and
   the root of the tree, which lies inside RAM, is no smaller. *)
SearchesLeastSize ==
  ret.level = "search" =>
    /\ ret.size = next_power_of_two(IF ret.n < PAGE_SIZE THEN PAGE_SIZE ELSE ret.n)
    /\ ret.size <= 2^buddy_high_order /\ 2^buddy_high_order <= mem_size

(* On a RAM that is a power of two, every request up to its size has a level
   in the tree.  On any other RAM the requests that have none, and for which
   the kernel panics or a level underflows, are those above the largest power
   of two in it, and they only. *)
LevelMissing ==
  ret.level \in {"underflow", "too_large"} <=>
    /\ ret.n \in 1..mem_size
    /\ 2^ilog2(mem_size) < ret.n

=============================================================================
