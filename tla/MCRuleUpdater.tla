--------------------------- MODULE MCRuleUpdater ---------------------------
(* The instance that TLC checks: three successive manifests, the last one   *)
(* the first to expire, one that repeats the second's sequence with other   *)
(* content, and packages with and without rules of their own.               *)
EXTENDS RuleUpdater

Signed(seq, sha, gen, exp) == [seq |-> seq, sha |-> sha, gen |-> gen, exp |-> exp, version |-> sha]

MCManifests == {Signed(1, "a", 0, 3), Signed(2, "b", 0, 3),
                Signed(2, "c", 1, 3), Signed(3, "d", 0, 1)}

Package(valid, gen, exp) ==
    [found |-> TRUE, valid |-> valid, minimum |-> 0, gen |-> gen, exp |-> exp, version |-> "p"]

MCAssets == {Package(TRUE, 0, 0), Package(TRUE, 1, 2), Package(FALSE, 0, 1),
             [Package(FALSE, 0, 0) EXCEPT !.found = FALSE]}
=============================================================================
