--------------------------- MODULE MCRecordStore ---------------------------
(* RecordStore on small instances: a few connections, owners and payloads. *)
EXTENDS RecordStore, TLC

CONSTANTS w1, w2, w3, t1, t2, a, b

MCWriters == {w1, w2, w3}
MCTenants == {t1, t2}
MCContents == {a, b}

\* Connections and owners are interchangeable.
MCSymmetry == Permutations(MCWriters) \cup Permutations(MCTenants)
=============================================================================
