--------------------------------- MODULE MCProc ---------------------------------
(***************************************************************************)
(* The process table with the kernel's eight slots: kernel_main creates    *)
(* the idle process and any number of others up to one too many, and the   *)
(* processes themselves may create more.                                   *)
(***************************************************************************)
EXTENDS Proc

MCUsers == 0..PROC_MAX

=============================================================================
