--------------------------- MODULE MCRegistration ---------------------------
(* Constants for the run of Registration.  Twenty basis points make the      *)
(* whole, so that the split of the constructor (20/40/10/20/5/5 percent) and *)
(* its per-level share times MaxLevels = 2 keep their proportions.           *)
EXTENDS Registration, TLC

CONSTANTS m1, m2, m3, root

Symmetry == Permutations({m1, m2, m3})
PackageTerms == 1 :> [price |-> 7, limit |-> 10] @@ 2 :> [price |-> 20, limit |-> 30]
DefaultSplit == [direct |-> 4, network |-> 8, creator |-> 2,
                 burn |-> 4, liquidity |-> 1, global |-> 1]
DefaultUnlock == 1 :> 1 @@ 2 :> 2
DefaultRules == [volumeBps |-> 10, inactiveDays |-> 1]

\* Pausing blocks the tree, and what the root buys does not change its place.
TreeFocus == ~paused /\ ~users[root].activated
=============================================================================
