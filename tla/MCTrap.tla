--------------------------------- MODULE MCTrap ---------------------------------
(***************************************************************************)
(* Exceptions in a kernel of four slots, at every point of the scheduler,  *)
(* with up to two faults of trap_handler on top.                           *)
(***************************************************************************)
EXTENDS Trap

MCUsers == 0..PROC_MAX

MCCause == {"illegal", "load"}

=============================================================================
