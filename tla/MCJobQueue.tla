----------------------------- MODULE MCJobQueue -----------------------------
(* JobQueue on small instances: two jobs, two server processes. *)
EXTENDS JobQueue, TLC

CONSTANTS j1, j2, p1, p2, c1

MCJobs == {j1, j2}
OneJob == {j1}
MCProcs == {p1, p2}
OneProc == {p1}
MCCancellers == {c1}
NoCancellers == {}

\* Processes are interchangeable, and no invariant names one.
ProcSymmetry == Permutations(MCProcs)
=============================================================================
