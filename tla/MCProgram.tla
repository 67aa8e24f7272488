----------------------------- MODULE MCProgram -----------------------------
(* Program for TLC. *)
EXTENDS Program, TLC
=============================================================================
