------------------------------- MODULE MCCKernel --------------------------------
(***************************************************************************)
(* The C kernel with four slots.  kernel_main creates the idle process and *)
(* up to one process too many, with images small enough to fill all slots  *)
(* or large enough to run out of memory.                                   *)
(***************************************************************************)
EXTENDS CKernel

MCUsers == 0..PROC_NO_MAX

MCImagePages == {1, 2}

MCBefore == [pid |-> 0, state |-> "UNUSED"]

=============================================================================
