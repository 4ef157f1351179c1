---------------------------- MODULE MCTitleStore ----------------------------
(* TitleStore on small instances: one post, a few changes. *)
EXTENDS TitleStore, TLC

CONSTANTS ta, tb, tc, td, k1, k2, k3, k4, r1

MCTitles == {ta, tb, tc, td}
MCKeys == {k1, k2, k3, k4}
OneRequest == {r1}

\* Titles and keys are only compared.
MCSymmetry == Permutations(MCTitles) \cup Permutations(MCKeys)
=============================================================================
