--------------------------- MODULE MCRuleSources ---------------------------
(* The instance that TLC checks.                                            *)
EXTENDS RuleSources, TLC

Symmetry == Permutations(Ids) \cup Permutations(Urls)
=============================================================================
