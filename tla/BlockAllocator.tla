---------------------------- MODULE BlockAllocator ----------------------------
(***************************************************************************)
(* What a client of mem::buddy_alloc and mem::buddy_free may rely on, with *)
(* no tree in sight: a set of live blocks.                                 *)
(*                                                                         *)
(* A block is served from a slot: a naturally aligned piece of RAM whose   *)
(* size is the least page-size multiple of the form PageSize * 2^k that    *)
(* holds the request.  Any slot that is disjoint from the live blocks may  *)
(* be returned, and OutOfMemory is returned only if there is none.         *)
(***************************************************************************)
EXTENDS Integers

CONSTANTS
  Start,      \* first address of the region
  Size,       \* its size in bytes
  SlotSizes,  \* the sizes of the slots
  MaxRequest  \* the largest request a client makes

VARIABLES
  live,   \* the blocks handed out and not yet freed
  ret     \* the result of the last allocation, until the next call

vars == <<live, ret>>

Overlap(b, c) == b.addr < c.addr + c.size /\ c.addr < b.addr + b.size

SlotSize(n) ==
  CHOOSE s \in SlotSizes : n <= s /\ \A t \in SlotSizes : n <= t => s <= t

Slots(s) == {[addr |-> Start + p * s, size |-> s] : p \in 0..(Size \div s - 1)}

FreeSlots(n) == {b \in Slots(SlotSize(n)) : \A c \in live : ~Overlap(b, c)}

-----------------------------------------------------------------------------

NoRet == [bytes |-> 0, result |-> "none"]

Init ==
  /\ live = {}
  /\ ret = NoRet

(* A call begins. *)
Call ==
  /\ ret' = NoRet
  /\ UNCHANGED live

Alloc(n) ==
  /\ n \in 1..Size
  /\ \E b \in FreeSlots(n) : live' = live \cup {b}
  /\ ret' = [bytes |-> n, result |-> "Ok"]

OutOfMemory(n) ==
  /\ n > Size \/ (n > 0 /\ FreeSlots(n) = {})
  /\ ret' = [bytes |-> n, result |-> "OutOfMemory"]
  /\ UNCHANGED live

ZeroSize ==
  /\ ret' = [bytes |-> 0, result |-> "ZeroSize"]
  /\ UNCHANGED live

Free(b) ==
  /\ b \in live
  /\ live' = live \ {b}
  /\ ret' = NoRet

Next ==
  \/ Call
  \/ \E n \in 1..MaxRequest : Alloc(n) \/ OutOfMemory(n)
  \/ ZeroSize
  \/ \E b \in live : Free(b)

Spec == Init /\ [][Next]_vars

=============================================================================
