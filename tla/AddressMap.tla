------------------------------ MODULE AddressMap ------------------------------
(***************************************************************************)
(* What the users of vm::PageTable may rely on, with no tables in sight:   *)
(* every page table is a map from virtual pages to page-table entries, and *)
(* map_page changes one entry of one map.                                  *)
(***************************************************************************)
CONSTANTS
  Owner,   \* the page tables that may exist
  NoOwner,
  VPage,   \* the virtual pages
  Leaf,    \* the entries that map_page may write
  Unmapped,
  Absent

VARIABLES
  space,   \* space[o]: Absent, or the map of o
  last     \* the last call of map_page that returned

vars == <<space, last>>

Call(o, v, e) == [owner |-> o, vaddr |-> v, pte |-> e]

NoCall == [owner |-> NoOwner, vaddr |-> 0, pte |-> 0]

Init == space = [o \in Owner |-> Absent] /\ last = NoCall

New(o) ==
  /\ space[o] = Absent
  /\ space' = [space EXCEPT ![o] = [v \in VPage |-> Unmapped]]
  /\ last' = NoCall

Map(o, v, e) ==
  /\ space[o] # Absent
  /\ space' = [space EXCEPT ![o][v] = e]
  /\ last' = Call(o, v, e)

Drop(o) ==
  /\ space[o] # Absent
  /\ space' = [space EXCEPT ![o] = Absent]
  /\ last' = NoCall

Next ==
  \E o \in Owner :
    \/ New(o)
    \/ \E v \in VPage, e \in Leaf : Map(o, v, e)
    \/ Drop(o)

Spec == Init /\ [][Next]_vars

=============================================================================
