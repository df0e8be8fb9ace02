-------------------------------- MODULE MCKernel --------------------------------
(***************************************************************************)
(* The kernel with four slots and five pages in two spans: kernel_main     *)
(* creates up to one process too many, processes may create more, and any  *)
(* allocation may fail.                                                    *)
(***************************************************************************)
EXTENDS Kernel

MCUsers == 0..PROC_MAX

MCHarts == {0, 1}

=============================================================================
