------------------------- MODULE MCUrlCheckService -------------------------
(* The instance that TLC checks.                                            *)
EXTENDS UrlCheckService, TLC

Symmetry == Permutations(Checks) \cup Permutations(Urls)
=============================================================================
