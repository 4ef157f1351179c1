-------------------------- MODULE MCManagedAction --------------------------
(* ManagedAction on small instances: one page with a few possible titles. *)
EXTENDS ManagedAction, TLC

CONSTANTS old, new, newer, other, r1, r2

MCTitles == {old, new, newer, other}
OneTarget == {new}
TwoTargets == {new, newer}
OneRequest == {r1}
TwoRequests == {r1, r2}
Rewriting == {"rewriting"}
Manual == {"manual"}
AllKinds == {"exact", "rewriting", "manual"}
ExactOrRewriting == {"exact", "rewriting"}

RequestSymmetry == Permutations(TwoRequests)
=============================================================================
