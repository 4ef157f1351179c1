-------------------------- MODULE MCCustomerSide --------------------------
(***************************************************************************)
(* Values for CustomerSide: two of whatever races, payments, accounts,     *)
(* links, adapters and keys; requests, sign-ins and callbacks;             *)
(* disconnections and the operator's commands.                             *)
(***************************************************************************)
EXTENDS CustomerSide, TLC

CONSTANTS p1, p2, r1, r2, d1, d2

MCPayments == {p1, p2}
MCRequests == {r1, r2}
MCDisconnects == {d1, d2}
MCForSale == {"starter", "pro"}
MCPrice == [plan \in MCForSale |-> IF plan = "pro" THEN 2 ELSE 1]
MCPerson == [l \in MCPayments \cup {"login"} |-> "person"]
MCSymmetry ==
    Permutations(MCPayments) \cup Permutations(MCRequests) \cup Permutations(MCDisconnects)
=============================================================================
