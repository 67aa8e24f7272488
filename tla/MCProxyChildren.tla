--------------------------- MODULE MCProxyChildren ---------------------------
(* ProxyChildren for TLC: the launches are interchangeable. *)
EXTENDS ProxyChildren, TLC

Symmetry == Permutations(Launch)
=============================================================================
