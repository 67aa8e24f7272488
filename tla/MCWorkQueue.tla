----------------------------- MODULE MCWorkQueue -----------------------------
(* WorkQueue for TLC: two workers, three jobs, one newer request. *)
EXTENDS WorkQueue
=============================================================================
