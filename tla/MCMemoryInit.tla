------------------------------ MODULE MCMemoryInit ------------------------------
(***************************************************************************)
(* Words of 8 bits, one to a byte, and pages of 8 bytes: RAM of 1 to 19    *)
(* pages, which passes the largest power of two that a word can hold,      *)
(* reserved regions of 0 to 11 pages, so that either area may be the one   *)
(* that does not fit, and requests around the powers of two and beyond RAM.*)
(***************************************************************************)
EXTENDS MemoryInit

Region(start, size) == [start |-> start, end |-> start + size]

MCRams == {Region(96, 8 * p) : p \in 1..19}

MCReserves == {Region(8, 8 * p) : p \in 0..11}

MCRequests == (0..34) \cup (60..68) \cup (124..160)

=============================================================================
