--------------------------------- MODULE Buddy ---------------------------------
(***************************************************************************)
(* The buddy allocator of rust/src/mem.rs: Memory::buddy_alloc and         *)
(* Memory::buddy_free, one action per iteration of their loops.            *)
(*                                                                         *)
(* Both functions run while the caller holds the mutex around Memory       *)
(* (mem::buddy_alloc, mem::buddy_free), so there is one call at a time and *)
(* one program counter.  The clients are abstracted to the set of blocks   *)
(* they hold: a client may ask for any number of bytes and may free a      *)
(* block it holds.                                                         *)
(***************************************************************************)
EXTENDS BuddyTree, Sequences

CONSTANT MaxRequest   \* the largest number of bytes a client asks for

ASSUME RequestAssumption == MaxRequest \in Nat

VARIABLES
  buddy_meta,  \* the BlockState of every node
  pc,          \* where the call under way is; "idle" between calls
  req,         \* buddy_alloc: the request, its rounded size, its level
  stack,       \* buddy_alloc: buddy_stack[0..sp] of the depth-first search
  cur,         \* buddy_free: the node being merged, its level, its buddy
  live,        \* the PhysAddrs the clients hold
  ret          \* the result of the last buddy_alloc, until the next call

vars == <<buddy_meta, pc, req, stack, cur, live, ret>>

BlockState == {"Free", "Allocated", "Split"}

NoReq == [bytes |-> 0, n |-> 0, order |-> 0]

NoRet == [bytes |-> 0, result |-> "none"]

NoCur == [i |-> 0, level |-> 0, buddy_i |-> 0]

(* A node of the given level with its buddy, the i, level and buddy_i of
   buddy_free's loop. *)
Cursor(i, level) == [i |-> i, level |-> level, buddy_i |-> BuddyOf(i, level)]

Top == stack[Len(stack)]

Pop == SubSeq(stack, 1, Len(stack) - 1)

-----------------------------------------------------------------------------

(* Memory::new fills buddy_meta with BlockState::Free. *)
Init ==
  /\ buddy_meta = [i \in Node |-> "Free"]
  /\ pc = "idle"
  /\ req = NoReq
  /\ stack = <<>>
  /\ cur = NoCur
  /\ live = {}
  /\ ret = NoRet

-----------------------------------------------------------------------------
(* buddy_alloc *)

AllocReject_WholeRegion(bytes) ==
  /\ pc = "idle"
  /\ \/ bytes >= mem_size /\ ret' = [bytes |-> bytes, result |-> "OutOfMemory"]
     \/ bytes = 0 /\ ret' = [bytes |-> bytes, result |-> "ZeroSize"]
  /\ UNCHANGED <<buddy_meta, pc, req, stack, cur, live>>

(* The early returns. *)
AllocReject(bytes) ==
  /\ pc = "idle"
  /\ \/ bytes > mem_size /\ ret' = [bytes |-> bytes, result |-> "OutOfMemory"]
     \/ bytes = 0 /\ ret' = [bytes |-> bytes, result |-> "ZeroSize"]
  /\ UNCHANGED <<buddy_meta, pc, req, stack, cur, live>>

(* The rounded size of a request, in bytes. *)
RoundUp(bytes) ==
  next_power_of_two(IF bytes < PAGE_SIZE THEN PAGE_SIZE ELSE bytes)

(* A request that is looked for: push the root. *)
AllocBegin(bytes) ==
  /\ pc = "idle"
  /\ bytes \in 1..mem_size
  /\ pc' = "search"
  /\ req' = [bytes |-> bytes,
             n     |-> RoundUp(bytes),
             order |-> buddy_high_order - find_order(RoundUp(bytes))]
  /\ stack' = <<0>>
  /\ ret' = NoRet
  /\ UNCHANGED <<buddy_meta, cur, live>>

(* The node on top of the stack has the right size and is free. *)
SearchTake ==
  /\ pc = "search"
  /\ stack # <<>>
  /\ find_order(Top) = req.order
  /\ buddy_meta[Top] = "Free"
  /\ buddy_meta' = [buddy_meta EXCEPT ![Top] = "Allocated"]
  /\ live' = live \cup {[addr |-> BlockAddr(Top, find_order(Top)),
                         size |-> req.n]}
  /\ ret' = [bytes |-> req.bytes, result |-> "Ok"]
  /\ pc' = "idle"
  /\ req' = NoReq
  /\ stack' = <<>>
  /\ UNCHANGED cur

SearchSkip_NoPop ==
  /\ pc = "search"
  /\ stack # <<>>
  /\ IF find_order(Top) = req.order
       THEN buddy_meta[Top] # "Free"
       ELSE buddy_meta[Top] = "Allocated"
  /\ UNCHANGED vars

(* It cannot hold the request: of the right size but in use, or a larger
   block that is allocated as a whole. *)
SearchSkip ==
  /\ pc = "search"
  /\ stack # <<>>
  /\ IF find_order(Top) = req.order
       THEN buddy_meta[Top] # "Free"
       ELSE buddy_meta[Top] = "Allocated"
  /\ stack' = Pop
  /\ UNCHANGED <<buddy_meta, pc, req, cur, live, ret>>

SearchDescend_IntoAllocated ==
  /\ pc = "search"
  /\ stack # <<>>
  /\ find_order(Top) # req.order
  /\ buddy_meta' = [buddy_meta EXCEPT ![Top] = "Split"]
  /\ stack' = Pop \o <<Right(Top), Left(Top)>>
  /\ UNCHANGED <<pc, req, cur, live, ret>>

SearchDescend_RightFirst ==
  /\ pc = "search"
  /\ stack # <<>>
  /\ find_order(Top) # req.order
  /\ buddy_meta[Top] # "Allocated"
  /\ buddy_meta' = [buddy_meta EXCEPT ![Top] = "Split"]
  /\ stack' = Pop \o <<Left(Top), Right(Top)>>
  /\ UNCHANGED <<pc, req, cur, live, ret>>

(* It is larger than the request and not allocated: it becomes, or already
   is, Split, and both children are pushed, the left one on top.  A push past
   the end of the slice buddy_stack would panic: see StackFits. *)
SearchDescend ==
  /\ pc = "search"
  /\ stack # <<>>
  /\ find_order(Top) # req.order
  /\ buddy_meta[Top] # "Allocated"
  /\ buddy_meta' = [buddy_meta EXCEPT ![Top] = "Split"]
  /\ stack' = Pop \o <<Right(Top), Left(Top)>>
  /\ UNCHANGED <<pc, req, cur, live, ret>>

(* The stack is empty: the loop ends. *)
SearchFail ==
  /\ pc = "search"
  /\ stack = <<>>
  /\ ret' = [bytes |-> req.bytes, result |-> "OutOfMemory"]
  /\ pc' = "idle"
  /\ req' = NoReq
  /\ UNCHANGED <<buddy_meta, stack, cur, live>>

-----------------------------------------------------------------------------
(* buddy_free *)

(* A PhysAddr without a size was not allocated here: return at once. *)
FreeUnsized ==
  /\ pc = "idle"
  /\ UNCHANGED vars

(* A client gives back a block: free its node and find its buddy. *)
FreeBegin(b) ==
  LET i == NodeOf(b)
  IN  /\ pc = "idle"
      /\ b \in live
      /\ live' = live \ {b}
      /\ IF buddy_meta[i] = "Allocated"
           THEN /\ buddy_meta' = [buddy_meta EXCEPT ![i] = "Free"]
                /\ pc' = "merge"
           ELSE /\ pc' = "panic"
                /\ UNCHANGED buddy_meta
      /\ cur' = Cursor(i, LevelOf(b))
      /\ ret' = NoRet
      /\ UNCHANGED <<req, stack>>

(* The buddy is in use: the loop ends. *)
MergeStop ==
  /\ pc = "merge"
  /\ buddy_meta[cur.buddy_i] # "Free"
  /\ pc' = "idle"
  /\ cur' = NoCur
  /\ UNCHANGED <<buddy_meta, req, stack, live, ret>>

(* The loop is entered for node 0, which has no parent: i - 1 wraps or traps,
   and either the overflow check or the bounds check of buddy_meta panics. *)
MergeAtRoot ==
  /\ pc = "merge"
  /\ buddy_meta[cur.buddy_i] = "Free"
  /\ cur.i = 0
  /\ pc' = "panic"
  /\ UNCHANGED <<buddy_meta, req, stack, cur, live, ret>>

MergeUp_Once ==
  LET i == Parent(cur.i)
  IN  /\ pc = "merge"
      /\ buddy_meta[cur.buddy_i] = "Free"
      /\ cur.i # 0
      /\ buddy_meta' = [buddy_meta EXCEPT ![i] = "Free"]
      /\ pc' = "idle"
      /\ cur' = NoCur
      /\ UNCHANGED <<req, stack, live, ret>>

(* Both buddies are free: their parent becomes free, and is merged next
   unless it is the root. *)
MergeUp ==
  LET i == Parent(cur.i)
  IN  /\ pc = "merge"
      /\ buddy_meta[cur.buddy_i] = "Free"
      /\ cur.i # 0
      /\ IF buddy_meta[i] = "Split"
           THEN /\ buddy_meta' = [buddy_meta EXCEPT ![i] = "Free"]
                /\ pc' = IF i = 0 THEN "idle" ELSE "merge"
                /\ cur' = IF i = 0 THEN NoCur ELSE Cursor(i, cur.level - 1)
           ELSE /\ pc' = "panic"
                /\ UNCHANGED <<buddy_meta, cur>>
      /\ UNCHANGED <<req, stack, live, ret>>

-----------------------------------------------------------------------------

(* The panic! macro: print and wait for interrupts forever. *)
Halt ==
  /\ pc = "panic"
  /\ UNCHANGED vars

Step ==
  \/ SearchTake
  \/ SearchSkip
  \/ SearchDescend
  \/ SearchFail
  \/ MergeStop
  \/ MergeAtRoot
  \/ MergeUp

Next ==
  \/ \E bytes \in 0..MaxRequest : AllocReject(bytes) \/ AllocBegin(bytes)
  \/ \E b \in live : FreeBegin(b)
  \/ FreeUnsized
  \/ Step
  \/ Halt

Spec == Init /\ [][Next]_vars

(* A call that has begun keeps running: nothing preempts the kernel. *)
FairSpec == Spec /\ WF_vars(Step)

-----------------------------------------------------------------------------
(* Properties *)

(* The client's view: a set of disjoint blocks. *)
Abs == INSTANCE BlockAllocator
         WITH Start <- ram_start, Size <- mem_size,
              SlotSizes <- {2^k : k \in page_order..mem_order}

(* Every variable holds a value of its kind; in particular every index that
   buddy_alloc and buddy_free use for buddy_meta is within its bounds, so the
   slice's bounds check never fails. *)
TypeOK ==
  /\ buddy_meta \in [Node -> BlockState]
  /\ pc \in {"idle", "search", "merge", "panic"}
  /\ req \in [bytes : Nat, n : Nat, order : Level]
  /\ stack \in Seq(Node)
  /\ cur \in [i : Node, level : Level, buddy_i : Node]
  /\ live \subseteq [addr : Nat, size : Nat]
  /\ ret \in [bytes : Nat, result : {"none", "Ok", "OutOfMemory", "ZeroSize"}]

(* The depth-first search of buddy_alloc never pushes past the end of
   buddy_stack, which has one entry per level of the tree although the search
   keeps two nodes of the deepest level (the FIXME in Memory::new). *)
StackFits == Len(stack) <= buddy_stack_len

(* A node of the tree that is in use lies below Split nodes only. *)
ParentSplit ==
  \A i \in Node \ {0} : buddy_meta[i] # "Free" => buddy_meta[Parent(i)] = "Split"

(* Blocks handed out are disjoint, lie inside RAM and are page-aligned, at
   every step of every call. *)
LiveDisjoint ==
  /\ \A b, c \in live : b # c => ~Abs!Overlap(b, c)
  /\ \A b \in live : /\ ram_start <= b.addr
                     /\ b.addr + b.size <= ram_start + mem_size
                     /\ b.addr % PAGE_SIZE = 0

(* Between calls buddy_meta is determined by the blocks that are live, however
   they came to be live: a live block is Allocated, what contains one is
   Split, and all else is Free, so that nothing is lost and buddies that are
   both free have always been merged. *)
Canonical ==
  pc = "idle" =>
    \A i \in Node :
      buddy_meta[i] =
        IF Block(i) \in live THEN "Allocated"
        ELSE IF \E b \in live : Within(b, Block(i)) THEN "Split"
        ELSE "Free"

(* buddy_free panics for a block that buddy_alloc returned only if that block
   is the whole of RAM. *)
PanicOnlyForWholeRegion ==
  pc = "panic" => cur.i = 0 /\ cur.level = 0 /\ live = {}

(* "This function panics if, while freeing, the state of a given block is not
   what it expects, which indicates a bug in the allocation logic" (phree in
   stdlib.rs): freeing a block that buddy_alloc returned does not panic. *)
FreeNeverPanics == pc # "panic"

(* buddy_alloc is first fit: a block is returned only if every slot of its
   size at a lower address is in use. *)
FirstFit ==
  [][\A b \in live' \ live : \A s \in Abs!Slots(b.size) :
       s.addr < b.addr => \E c \in live : Abs!Overlap(s, c)]_vars

(* Every call of buddy_alloc or buddy_free ends. *)
CallsReturn == pc \in {"search", "merge"} ~> pc \in {"idle", "panic"}

(* The allocator implements the client's view. *)
ImplementsBlockAllocator == Abs!Spec

=============================================================================
