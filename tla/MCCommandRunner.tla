--------------------------- MODULE MCCommandRunner ---------------------------
(* CommandRunner for TLC. *)
EXTENDS CommandRunner, TLC
=============================================================================
