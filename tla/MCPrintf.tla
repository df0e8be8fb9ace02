-------------------------------- MODULE MCPrintf --------------------------------
(* Ints of 8 bits: the ends of the range, and both sides of a change in the
   number of digits or of the sign. *)
EXTENDS Printf

MCValues == {-128, -127, -10, 0, 9, 100, 127}

=============================================================================
