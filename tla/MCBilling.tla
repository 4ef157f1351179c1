---------------------------- MODULE MCBilling ----------------------------
(* Instances of Billing for TLC. *)
EXTENDS Billing, TLC

CONSTANTS p1, p2, r1, r2
MCPayments == {p1, p2}
MCRequests == {r1, r2}
OneRequest == {r1}
MCForSale == {"starter", "pro"}
MCPrice == [plan \in MCForSale |-> IF plan = "pro" THEN 2 ELSE 1]
MCSymmetry == Permutations(MCPayments) \cup Permutations(MCRequests)
========================================================================
