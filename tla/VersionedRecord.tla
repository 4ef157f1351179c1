-------------------------- MODULE VersionedRecord --------------------------
(***************************************************************************)
(* What the stores built on the record store rely on: one aggregate is a   *)
(* single record with a version (app/persistence/contracts.py).  It is     *)
(* created once; a replacement follows the record it was computed from,    *)
(* one version later and with the same owner, or it does not happen.       *)
(***************************************************************************)
EXTENDS Naturals

CONSTANTS
    Tenants,   \* owners
    Contents,  \* payloads
    Nothing    \* what a first version was computed from

Rows == [version : Nat \ {0}, tenant : Tenants, content : Contents,
         on : Contents \cup {Nothing}]
NoRow == [version |-> 0]

VARIABLE current

Init == current = NoRow

Create ==
    /\ current = NoRow
    /\ current' \in Rows
    /\ current'.version = 1

Replace ==
    /\ current # NoRow
    /\ current' \in Rows
    /\ current'.version = current.version + 1
    /\ current'.on = current.content
    /\ current'.tenant = current.tenant

Next == Create \/ Replace

Spec == Init /\ [][Next]_current
=============================================================================
