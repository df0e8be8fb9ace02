--------------------------------- MODULE MCShell --------------------------------
(***************************************************************************)
(* A buffer of five bytes, commands of two characters, and lines that fill *)
(* the buffer once and run on.                                             *)
(***************************************************************************)
EXTENDS Shell

MCChar == {0, 1, 2, 3}

MCHello == <<1, 2>>

MCExit == <<2, 1>>

=============================================================================
