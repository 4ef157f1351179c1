------------------------ MODULE MCGoogleConnection ------------------------
(* Instance of GoogleConnection for TLC: two links of one customer and one *)
(* to sign in with, two callbacks and two disconnections.                  *)
EXTENDS GoogleConnection, TLC

CONSTANTS link1, link2, login, callback1, callback2, disconnect1, disconnect2, person

MCPerson == [l \in {link1, link2, login} |-> person]
MCSymmetry ==
    Permutations({link1, link2}) \cup Permutations({callback1, callback2})
    \cup Permutations({disconnect1, disconnect2})
===========================================================================
