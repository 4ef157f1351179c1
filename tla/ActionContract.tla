--------------------------- MODULE ActionContract ---------------------------
(***************************************************************************)
(* What a customer is promised about one proposed change, whatever the     *)
(* server, the site and other requests do meanwhile:                       *)
(*                                                                         *)
(*   - nothing but the title a person approved is put on the page, and a   *)
(*     refusal is final (app/action/approval.py);                          *)
(*   - a refusal that was accepted is kept: once the change is on the page *)
(*     it can only be undone (app/action/executor.py:8);                   *)
(*   - a change is undone once, and stays undone;                          *)
(*   - it teaches once, and never after it was undone                      *)
(*     (app/measurement/runner.py:27).                                     *)
(***************************************************************************)

CONSTANT Titles

VARIABLES
    verdict,   \* "open", "approved" or "refused"
    title,     \* the title proposed, then the one approved
    put,       \* the titles put on the page for this change
    undone,
    taught

vars == <<verdict, title, put, undone, taught>>

Init ==
    /\ verdict = "open"
    /\ title \in Titles
    /\ put = {}
    /\ undone = FALSE
    /\ taught = FALSE

Approve ==
    /\ verdict = "open"
    /\ verdict' = "approved"
    /\ title' \in Titles
    /\ UNCHANGED <<put, undone, taught>>

Refuse ==
    /\ verdict # "refused"
    /\ put = {}
    /\ verdict' = "refused"
    /\ UNCHANGED <<title, put, undone, taught>>

Put ==
    /\ verdict = "approved"
    /\ ~undone
    /\ put' = put \cup {title}
    /\ UNCHANGED <<verdict, title, undone, taught>>

Undo ==
    /\ put # {}
    /\ undone' = TRUE
    /\ UNCHANGED <<verdict, title, put, taught>>

Teach ==
    /\ put # {}
    /\ ~undone
    /\ ~taught
    /\ taught' = TRUE
    /\ UNCHANGED <<verdict, title, put, undone>>

Next == Approve \/ Refuse \/ Put \/ Undo \/ Teach

Spec == Init /\ [][Next]_vars
=============================================================================
