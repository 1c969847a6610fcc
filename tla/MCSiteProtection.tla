-------------------------- MODULE MCSiteProtection --------------------------
(* The instance that TLC checks: the URLs are interchangeable.              *)
EXTENDS SiteProtection, TLC

Symmetry == Permutations(Urls)
=============================================================================
