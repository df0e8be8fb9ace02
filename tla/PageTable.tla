------------------------------- MODULE PageTable -------------------------------
(***************************************************************************)
(* The two-level page tables of rust/src/vm.rs, stored in the FixedVecs of *)
(* rust/src/stdlib.rs, over memory that the buddy allocator hands out.     *)
(*                                                                         *)
(* A PageTable keeps every second-level table twice: as the FixedVec that  *)
(* owns it, in second_pts, through which map_page writes, and as an entry  *)
(* of the root, through which the hardware walks.  FixedVec::new does not  *)
(* initialise its elements: kernel_init has cleared RAM once.  Assigning   *)
(* an element drops the old one, and dropping a FixedVec of zero bytes     *)
(* frees nothing (its size is None).                                       *)
(*                                                                         *)
(* The allocator is first fit (FirstFit of Buddy): the lowest block of the *)
(* right size that is not in use.  Root and second-level tables are blocks *)
(* of one page, second_pts is a larger one; memory keeps its contents when *)
(* it is freed, and a freed block is served again.  A block freed in one   *)
(* size is not modelled as served in the other.                            *)
(*                                                                         *)
(* So the code relies on every block it is served being clear, which the   *)
(* clearing of RAM at boot ensures only until a written block comes back.  *)
(* The history variable dirty records that this has happened.              *)
(***************************************************************************)
EXTENDS Integers

CONSTANTS
  PAGE_SIZE,  \* bytes in a page; 4096 in the kernel
  Entries,    \* entries in a table; 1024 in the kernel
  Owner,      \* the page tables that may exist: one for each process
  NoOwner,
  Pages,      \* the addresses of the blocks of one page
  Arrays,     \* the addresses of the blocks that can hold a second_pts
  Targets,    \* the physical addresses that are mapped
  Flags       \* the flags they are mapped with

ASSUME PageTableAssumption ==
  /\ PAGE_SIZE \in Nat \ {0}
  /\ Entries \in Nat \ {0}
  /\ Pages \subseteq Nat /\ Arrays \subseteq Nat
  /\ \A p \in Pages : p % PAGE_SIZE = 0
  /\ 0 \notin Pages \cup Arrays
  /\ Pages \cap Arrays = {}
  /\ Targets \subseteq Nat
  /\ Flags \subseteq 0..1023

Index == 0..(Entries - 1)

VAddr == 0..(PAGE_SIZE * Entries * Entries - 1)

NoTable == [root |-> 0, second |-> 0]

(* A FixedVec<usize>: its pointer, its capacity, the size of its PhysAddr. *)
ZeroVec == [ptr |-> 0, cap |-> 0, size |-> 0]

TableAt(p) == [ptr |-> p, cap |-> Entries, size |-> PAGE_SIZE]

Call(o, v, pte) == [owner |-> o, vaddr |-> v, pte |-> pte]

NoCall == [owner |-> NoOwner, vaddr |-> 0, pte |-> 0]

VARIABLES
  words,   \* the contents of every block of one page
  vecs,    \* the contents of every block that can hold a second_pts
  used,    \* the blocks that are allocated
  dirty,   \* whether phalloc has served a block that was not clear
  table,   \* table[o]: the PageTable of o, by the addresses of its FixedVecs
  last,    \* the last call of map_page that returned
  status   \* "run", or the panic that stopped the kernel

vars == <<words, vecs, used, dirty, table, last, status>>

-----------------------------------------------------------------------------

(* kernel_init clears RAM. *)
Init ==
  /\ words = [p \in Pages |-> [i \in Index |-> 0]]
  /\ vecs = [a \in Arrays |-> [i \in Index |-> ZeroVec]]
  /\ used = {}
  /\ dirty = FALSE
  /\ table = [o \in Owner |-> NoTable]
  /\ last = NoCall
  /\ status = "run"

-----------------------------------------------------------------------------
(* phalloc *)

Avail(blocks) == blocks \ used

(* First fit. *)
phalloc(blocks) ==
  CHOOSE b \in Avail(blocks) : \A c \in Avail(blocks) : b <= c

ClearPage(p) == \A i \in Index : words[p][i] = 0

ClearArray(a) == \A i \in Index : vecs[a][i] = ZeroVec

(* PageTable::new.  The FixedVecs take their blocks as they are. *)
new(o) ==
  /\ status = "run"
  /\ table[o] = NoTable
  /\ Avail(Pages) # {} /\ Avail(Arrays) # {}
  /\ table' = [table EXCEPT ![o] = [root |-> phalloc(Pages), second |-> phalloc(Arrays)]]
  /\ used' = used \cup {phalloc(Pages), phalloc(Arrays)}
  /\ dirty' = (dirty \/ ~ClearPage(phalloc(Pages)) \/ ~ClearArray(phalloc(Arrays)))
  /\ last' = NoCall
  /\ UNCHANGED <<words, vecs, status>>

(* The unwrap in FixedVec::new fails, for root_pt or, when root_pt has its
   block, for second_pts. *)
new_no_memory(o) ==
  /\ status = "run"
  /\ table[o] = NoTable
  /\ \/ Avail(Pages) = {} /\ UNCHANGED <<used, dirty>>
     \/ /\ Avail(Pages) # {} /\ Avail(Arrays) = {}
        /\ used' = used \cup {phalloc(Pages)}
        /\ dirty' = (dirty \/ ~ClearPage(phalloc(Pages)))
  /\ status' = "memory_panic"
  /\ UNCHANGED <<words, vecs, table, last>>

-----------------------------------------------------------------------------
(* PageTable::map_page *)

vpn1(v) == (v \div (PAGE_SIZE * Entries)) % Entries

vpn0_Shift(v) == (v \div (2 * PAGE_SIZE)) % Entries

vpn0(v) == (v \div PAGE_SIZE) % Entries

Valid(pte) == pte % 2 = 1

(* ((addr / PAGE_SIZE) << 10) | flags | PAGE_V *)
Pte(addr, flags) ==
  (addr \div PAGE_SIZE) * 1024 + (IF Valid(flags) THEN flags ELSE flags + 1)

Unaligned(v, pa) == v % PAGE_SIZE # 0 \/ pa % PAGE_SIZE # 0

map_page_unaligned(o, v, pa) ==
  /\ status = "run"
  /\ table[o] # NoTable
  /\ Unaligned(v, pa)
  /\ status' = "align_panic"
  /\ UNCHANGED <<words, vecs, used, dirty, table, last>>

RootEntry(o, v) == words[table[o].root][vpn1(v)]

Second(o, v) == vecs[table[o].second][vpn1(v)]

map_page_no_memory(o, v, pa) ==
  /\ status = "run"
  /\ table[o] # NoTable
  /\ ~Unaligned(v, pa)
  /\ ~Valid(RootEntry(o, v))
  /\ Avail(Pages) = {}
  /\ status' = "memory_panic"
  /\ UNCHANGED <<words, vecs, used, dirty, table, last>>

(* The blocks that the drop of a FixedVec<usize> frees. *)
Freed(vec) == IF vec.size = 0 THEN {} ELSE {vec.ptr}

NewSecond_NoVec(o, v, p) == vecs

NewSecond(o, v, p) ==
  [vecs EXCEPT ![table[o].second][vpn1(v)] = TableAt(p)]

SetRoot(o, v, p) == [words EXCEPT ![table[o].root][vpn1(v)] = Pte(p, 0)]

(* The second-level table is created: assigning it drops the FixedVec that
   was there, and buddy_free panics for a block that is not allocated. *)
map_page_create(o, v, pa, flags) ==
  LET old == Freed(Second(o, v))
      p == phalloc(Pages)
  IN  /\ status = "run"
      /\ table[o] # NoTable
      /\ ~Unaligned(v, pa)
      /\ ~Valid(RootEntry(o, v))
      /\ Avail(Pages) # {}
      /\ IF old \subseteq used
           THEN /\ vecs' = NewSecond(o, v, p)
                /\ words' = [SetRoot(o, v, p) EXCEPT ![p][vpn0(v)] = Pte(pa, flags)]
                /\ used' = (used \cup {p}) \ old
                /\ last' = Call(o, v, Pte(pa, flags))
                /\ UNCHANGED status
           ELSE /\ status' = "free_panic"
                /\ UNCHANGED <<words, vecs, used, last>>
      /\ dirty' = (dirty \/ ~ClearPage(p))
      /\ UNCHANGED table

(* The table is there: index_mut of second_pts and of the table. *)
map_page(o, v, pa, flags) ==
  LET second == Second(o, v)
  IN  /\ status = "run"
      /\ table[o] # NoTable
      /\ ~Unaligned(v, pa)
      /\ Valid(RootEntry(o, v))
      /\ IF vpn0(v) < second.cap
           THEN /\ words' = [words EXCEPT ![second.ptr][vpn0(v)] = Pte(pa, flags)]
                /\ last' = Call(o, v, Pte(pa, flags))
                /\ UNCHANGED status
           ELSE /\ status' = "index_panic"
                /\ UNCHANGED <<words, last>>
      /\ UNCHANGED <<vecs, used, dirty, table>>

-----------------------------------------------------------------------------

(* The vectors inside second_pts, by index. *)
Elements(o) == vecs[table[o].second]

Inner_Kept(o) == {}

(* The blocks that drop_in_place frees for the elements of second_pts. *)
Inner(o) == UNION {Freed(Elements(o)[i]) : i \in Index}

(* Two elements that own the same block: it is freed twice. *)
Doubled(o) ==
  \E i, j \in Index : i # j /\ Freed(Elements(o)[i]) \cap Freed(Elements(o)[j]) # {}

(* The drop of a PageTable: root_pt, then second_pts, whose elements are
   dropped one by one before its own block is freed. *)
drop(o) ==
  LET blocks == Inner(o) \cup {table[o].root, table[o].second}
  IN  /\ status = "run"
      /\ table[o] # NoTable
      /\ IF blocks \subseteq used /\ ~Doubled(o) /\ table[o].root \notin Inner(o)
           THEN /\ used' = used \ blocks
                /\ table' = [table EXCEPT ![o] = NoTable]
                /\ last' = NoCall
                /\ UNCHANGED status
           ELSE /\ status' = "free_panic"
                /\ UNCHANGED <<used, table, last>>
      /\ UNCHANGED <<words, vecs, dirty>>

(* The panic! macro waits for interrupts forever. *)
Halt ==
  /\ status # "run"
  /\ UNCHANGED vars

Next ==
  \/ \E o \in Owner :
       \/ new(o)
       \/ new_no_memory(o)
       \/ \E v \in VAddr, pa \in Targets :
            \/ map_page_unaligned(o, v, pa)
            \/ map_page_no_memory(o, v, pa)
            \/ \E flags \in Flags : \/ map_page_create(o, v, pa, flags)
                                    \/ map_page(o, v, pa, flags)
       \/ drop(o)
  \/ Halt

Spec == Init /\ [][Next]_vars

-----------------------------------------------------------------------------
(* Properties *)

Live == {o \in Owner : table[o] # NoTable}

(* The hardware's Sv32 walk: what the entry of the root points to is a table
   of physical memory, whoever owns it. *)
Walk(o, v) ==
  LET page == v \div PAGE_SIZE
      pte  == words[table[o].root][page \div Entries]
      next == (pte \div 1024) * PAGE_SIZE
  IN  IF pte % 2 = 1 /\ next \in Pages THEN words[next][page % Entries] ELSE 0

VPage == {v \in VAddr : v % PAGE_SIZE = 0}

(* The blocks of a page table. *)
Blocks(o) ==
  {table[o].root, table[o].second} \cup ({Elements(o)[i].ptr : i \in Index} \ {0})

(* As long as phalloc has served only blocks that were clear, freed ones
   among them, the two records of a second-level table agree: an entry of the
   root is valid exactly if second_pts owns a table there, and then it is that
   one. *)
RootMatchesOwner ==
  ~dirty => \A o \in Live, v \in VPage :
    /\ Valid(RootEntry(o, v)) => Second(o, v) = TableAt((RootEntry(o, v) \div 1024) * PAGE_SIZE)
    /\ ~Valid(RootEntry(o, v)) => Second(o, v) = ZeroVec

(* As long as phalloc has served only blocks that were clear, every allocated
   block belongs to exactly one page table: none is shared between processes,
   none is freed while it is in use, and the drop of a nested FixedVec leaks
   none.  A panic of buddy_free or of the bounds check of FixedVec's index
   under map_page or drop therefore has one cause only: a block that came
   back with its old contents. *)
BlocksOwnedOnce ==
  ~dirty =>
    /\ status \notin {"index_panic", "free_panic"}
    /\ status = "run" => used = UNION {Blocks(o) : o \in Live}
    /\ \A o, q \in Live : o # q => Blocks(o) \cap Blocks(q) = {}
    /\ \A o \in Live, i, j \in Index :
         LET p == Elements(o)[i].ptr
         IN  p # 0 => p # table[o].root /\ (i # j => p # Elements(o)[j].ptr)

(* "FIXME: Either this or zeroing during the allocation" (kernel_init, of
   the clearing of RAM at boot): a page table that PageTable::new returns
   maps nothing. *)
NewTableEmpty ==
  [][\A o \in Owner : table[o] = NoTable /\ table'[o] # NoTable =>
       \A v \in VPage : Walk(o, v)' = 0]_vars

(* What the hardware's walk finds: a map from virtual pages to entries. *)
Abs == INSTANCE AddressMap
         WITH Leaf <- {Pte(pa, f) : pa \in Targets, f \in Flags},
              Unmapped <- 0, Absent <- [v \in {} |-> 0],
              space <- [o \in Owner |->
                          IF o \in Live THEN [v \in VPage |-> Walk(o, v)]
                          ELSE [v \in {} |-> 0]]

(* As long as phalloc serves only blocks that are clear, PageTable::new,
   map_page and drop are the operations of an address map: a new table maps
   nothing, and map_page changes the one entry of the one table it is told
   to, as the hardware's walk sees them. *)
ImplementsAddressMap == Abs!Init /\ [][Abs!Next \/ dirty']_(Abs!vars)

=============================================================================
