--------------------------- MODULE MCActiveProfile ---------------------------
(* ActiveProfile for TLC: threads, and proxies, are interchangeable. *)
EXTENDS ActiveProfile, TLC

ThreadSymmetry == Permutations(Thread)
Symmetry == ThreadSymmetry \cup Permutations(Proxy)
=============================================================================
