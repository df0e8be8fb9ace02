-------------------------------- MODULE MCBuddy --------------------------------
(***************************************************************************)
(* The buddy allocator on a region of eight four-byte pages that starts at *)
(* address 12, which is aligned to a page and to no larger block. Requests *)
(* run from zero to one byte more than the region.                         *)
(***************************************************************************)
EXTENDS Buddy

MCMaxRequest == 2^mem_order + 1

=============================================================================
