--------------------------------- MODULE MCSync ---------------------------------
(***************************************************************************)
(* The cell and the mutex shared by a few threads.                         *)
(***************************************************************************)
EXTENDS Sync

=============================================================================
