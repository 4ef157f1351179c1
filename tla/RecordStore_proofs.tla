------------------------- MODULE RecordStore_proofs -------------------------
(***************************************************************************)
(* RecordStore implements VersionedRecord, for any set of connections,     *)
(* owners and payloads.                                                    *)
(*                                                                         *)
(* The inductive invariant relates the rows a writer holds to the          *)
(* committed ones: what it read is committed for good; what it inserted    *)
(* and has not committed is newer than every committed row and has no      *)
(* rival; and what it is about to insert either is newer than every        *)
(* committed row or meets a committed row of its own version.              *)
(***************************************************************************)
EXTENDS RecordStore, TLAPS

\* A row computed from r by its owner.
Follows(d, r) ==
    d.version = r.version + 1 /\ d.tenant = r.tenant /\ d.on = r.content

Newest(d) == \A r \in rows : r.version < d.version
Met(d) == \E r \in rows : r.version = d.version

\* What is known of a writer that is replacing (it has read a row) or
\* creating (it has not).
ReadIsCommitted ==
    \A w \in Writers :
        /\ pc[w] \in {"owner", "where"} => read[w] # NoRow
        /\ (pc[w] # "idle" /\ read[w] # NoRow) =>
              /\ read[w] \in rows
              /\ draft[w].version = read[w].version + 1
              /\ draft[w].on = read[w].content
              /\ pc[w] # "owner" => draft[w].tenant = read[w].tenant
        /\ (pc[w] # "idle" /\ read[w] = NoRow) => draft[w].version = 1
        /\ pc[w] # "idle" => draft[w] \in Rows

AboutToInsert ==
    \A w \in Writers : pc[w] = "insert" => Newest(draft[w]) \/ Met(draft[w])

OpenIsNewest ==
    \A w \in Writers : pc[w] = "open" => Newest(draft[w])

NoRival ==
    \A u, w \in Writers :
        (pc[u] = "open" /\ pc[w] = "open" /\ draft[u].version = draft[w].version) => u = w

HasFirstAndLast ==
    rows # {} => /\ \E r \in rows : r.version = 1
                 /\ \E r \in rows : IsLatest(r)

IInv ==
    /\ TypeOK
    /\ OneRowPerVersion
    /\ OwnerIsImmutable
    /\ ReadIsCommitted
    /\ AboutToInsert
    /\ OpenIsNewest
    /\ NoRival
    /\ HasFirstAndLast
-----------------------------------------------------------------------------
LEMMA InitIInv == Init => IInv
  BY DEF Init, IInv, TypeOK, OneRowPerVersion, OwnerIsImmutable, ReadIsCommitted,
         AboutToInsert, OpenIsNewest, NoRival, HasFirstAndLast, Rows, NoRow

\* NoRow is not a row.
LEMMA NoRowNotRow == NoRow \notin Rows
  BY DEF NoRow, Rows

\* A writer that goes back to idle takes nothing from the others.
LEMMA ConflictIInv ==
  ASSUME IInv, NEW w \in Writers, Conflict(w)
  PROVE  IInv'
  <1> USE DEF Conflict, Goto, IInv
  <1>1. TypeOK'
    BY DEF TypeOK
  <1>2. OneRowPerVersion' /\ OwnerIsImmutable' /\ HasFirstAndLast'
    BY DEF OneRowPerVersion, OwnerIsImmutable, HasFirstAndLast, IsLatest
  <1>3. \A u \in Writers : pc'[u] # "idle" => u # w /\ pc'[u] = pc[u]
    BY DEF TypeOK
  <1>4. ReadIsCommitted'
    BY <1>3 DEF ReadIsCommitted
  <1>5. AboutToInsert' /\ OpenIsNewest' /\ NoRival'
    BY <1>3 DEF AboutToInsert, OpenIsNewest, NoRival, Newest, Met
  <1> QED
    BY <1>1, <1>2, <1>4, <1>5

\* create
LEMMA CreateBeginIInv ==
  ASSUME IInv, NEW w \in Writers, CreateBegin(w)
  PROVE  IInv'
  <1> USE DEF Goto, IInv
  <1>1. PICK tenant \in Tenants, content \in Contents :
          draft' = [draft EXCEPT ![w] =
              [version |-> 1, tenant |-> tenant, content |-> content, on |-> Nothing]]
    BY DEF CreateBegin
  <1>2. /\ rows' = rows
        /\ read' = [read EXCEPT ![w] = NoRow]
        /\ pc' = [pc EXCEPT ![w] = "insert"]
    BY DEF CreateBegin
  <1>3. draft'[w] \in Rows /\ draft'[w].version = 1
    BY <1>1 DEF TypeOK, Rows
  <1>4. \A u \in Writers \ {w} :
          pc'[u] = pc[u] /\ read'[u] = read[u] /\ draft'[u] = draft[u]
    BY <1>1, <1>2 DEF TypeOK
  <1>5. pc'[w] = "insert" /\ read'[w] = NoRow
    BY <1>2 DEF TypeOK
  <1>6. TypeOK'
    <2>1. [version |-> 1, tenant |-> tenant, content |-> content, on |-> Nothing] \in Rows
      BY DEF Rows
    <2> QED
      BY <1>1, <1>2, <2>1 DEF TypeOK
  <1>7. OneRowPerVersion' /\ OwnerIsImmutable' /\ HasFirstAndLast'
    BY <1>2 DEF OneRowPerVersion, OwnerIsImmutable, HasFirstAndLast, IsLatest
  <1>8. ReadIsCommitted'
    BY <1>2, <1>3, <1>4, <1>5 DEF ReadIsCommitted
  <1>9. AboutToInsert'
    <2>1. \/ \A r \in rows' : r.version < draft'[w].version
          \/ \E r \in rows' : r.version = draft'[w].version
      BY <1>2, <1>3 DEF HasFirstAndLast
    <2> QED
      BY <1>2, <1>4, <2>1 DEF AboutToInsert, Newest, Met
  <1>10. OpenIsNewest' /\ NoRival'
    BY <1>2, <1>4, <1>5 DEF OpenIsNewest, NoRival, Newest
  <1> QED
    BY <1>6, <1>7, <1>8, <1>9, <1>10

\* get
LEMMA GetIInv ==
  ASSUME IInv, NEW w \in Writers, Get(w)
  PROVE  IInv'
  <1> USE DEF Goto, IInv
  <1>1. PICK r \in rows, tenant \in Tenants, content \in Contents :
          /\ read' = [read EXCEPT ![w] = r]
          /\ draft' = [draft EXCEPT ![w] =
                [version |-> r.version + 1, tenant |-> tenant, content |-> content,
                 on |-> r.content]]
    BY DEF Get
  <1>2. rows' = rows /\ pc' = [pc EXCEPT ![w] = "owner"]
    BY DEF Get
  <1>3. r \in Rows /\ r # NoRow
    BY NoRowNotRow DEF TypeOK
  <1>4. [version |-> r.version + 1, tenant |-> tenant, content |-> content,
         on |-> r.content] \in Rows
    BY <1>3 DEF Rows
  <1>5. /\ pc'[w] = "owner" /\ read'[w] = r
        /\ draft'[w] \in Rows
        /\ draft'[w].version = r.version + 1 /\ draft'[w].on = r.content
    BY <1>1, <1>2, <1>4 DEF TypeOK
  <1>6. \A u \in Writers \ {w} :
          pc'[u] = pc[u] /\ read'[u] = read[u] /\ draft'[u] = draft[u]
    BY <1>1, <1>2 DEF TypeOK
  <1>7. TypeOK'
    BY <1>1, <1>2, <1>3, <1>4 DEF TypeOK
  <1>8. OneRowPerVersion' /\ OwnerIsImmutable' /\ HasFirstAndLast'
    BY <1>2 DEF OneRowPerVersion, OwnerIsImmutable, HasFirstAndLast, IsLatest
  <1>9. ReadIsCommitted'
    BY <1>2, <1>3, <1>5, <1>6 DEF ReadIsCommitted
  <1>10. AboutToInsert' /\ OpenIsNewest' /\ NoRival'
    BY <1>2, <1>5, <1>6 DEF AboutToInsert, OpenIsNewest, NoRival, Newest, Met
  <1> QED
    BY <1>7, <1>8, <1>9, <1>10

\* A step of w that changes nothing but its place.
LEMMA MoveIInv ==
  ASSUME IInv, NEW w \in Writers, NEW place \in {"where", "insert", "open"},
         Goto(w, place), UNCHANGED <<rows, read, draft>>,
         pc[w] # "idle",
         place = "where" => pc[w] = "owner",
         place # "owner" /\ read[w] # NoRow => draft[w].tenant = read[w].tenant,
         place = "insert" => Newest(draft[w]) \/ Met(draft[w]),
         place = "open" =>
            /\ Newest(draft[w])
            /\ \A u \in Writers \ {w} : pc[u] = "open" => draft[u].version # draft[w].version
  PROVE  IInv'
  <1> USE DEF Goto, IInv
  <1>1. pc'[w] = place /\ \A u \in Writers \ {w} : pc'[u] = pc[u]
    BY DEF TypeOK
  <1>2. TypeOK'
    BY DEF TypeOK
  <1>3. OneRowPerVersion' /\ OwnerIsImmutable' /\ HasFirstAndLast'
    BY DEF OneRowPerVersion, OwnerIsImmutable, HasFirstAndLast, IsLatest
  <1>4. ReadIsCommitted'
    BY <1>1 DEF ReadIsCommitted
  <1>5. AboutToInsert' /\ OpenIsNewest'
    BY <1>1 DEF AboutToInsert, OpenIsNewest, Newest, Met
  <1>6. NoRival'
    BY <1>1 DEF NoRival
  <1> QED
    BY <1>2, <1>3, <1>4, <1>5, <1>6

\* replace, up to the commit
LEMMA CheckOwnerIInv ==
  ASSUME IInv, NEW w \in Writers, CheckOwner(w)
  PROVE  IInv'
  <1>1. CASE Conflict(w)
    BY <1>1, ConflictIInv
  <1>2. CASE ~Conflict(w)
    <2>1. PICK r \in rows : r.tenant = draft[w].tenant
      BY <1>2 DEF CheckOwner
    <2>2. Goto(w, "where") /\ UNCHANGED <<rows, read, draft>> /\ pc[w] = "owner"
      BY <1>2 DEF CheckOwner
    <2>3. read[w] # NoRow => draft[w].tenant = read[w].tenant
      BY <2>1, <2>2 DEF IInv, ReadIsCommitted, OwnerIsImmutable
    <2> QED
      BY <2>2, <2>3, MoveIInv
  <1> QED
    BY <1>1, <1>2

LEMMA EvaluateWhereIInv ==
  ASSUME IInv, NEW w \in Writers, EvaluateWhere(w)
  PROVE  IInv'
  <1>1. CASE Conflict(w)
    BY <1>1, ConflictIInv
  <1>2. CASE ~Conflict(w)
    <2>1. PICK r \in rows : IsLatest(r) /\ r.version = read[w].version
      BY <1>2 DEF EvaluateWhere
    <2>2. Goto(w, "insert") /\ UNCHANGED <<rows, read, draft>> /\ pc[w] = "where"
      BY <1>2 DEF EvaluateWhere
    <2>3. /\ read[w] # NoRow
          /\ draft[w].version = read[w].version + 1
          /\ draft[w].tenant = read[w].tenant
      BY <2>2 DEF IInv, ReadIsCommitted
    <2>4. Newest(draft[w])
      BY <2>1, <2>3 DEF IsLatest, Newest, IInv, TypeOK, Rows
    <2> QED
      BY <2>2, <2>3, <2>4, MoveIInv
  <1> QED
    BY <1>1, <1>2

LEMMA InsertIInv ==
  ASSUME IInv, NEW w \in Writers, Insert(w)
  PROVE  IInv'
  <1>1. CASE Conflict(w)
    BY <1>1, ConflictIInv
  <1>2. CASE ~Conflict(w)
    <2>1. /\ Goto(w, "open") /\ UNCHANGED <<rows, read, draft>> /\ pc[w] = "insert"
          /\ ~Met(draft[w])
      BY <1>2 DEF Insert, Met
    <2>2. Newest(draft[w])
      BY <2>1 DEF IInv, AboutToInsert
    <2>3. \A u \in Writers \ {w} : pc[u] = "open" => draft[u].version # draft[w].version
      BY DEF Insert
    <2>4. read[w] # NoRow => draft[w].tenant = read[w].tenant
      BY <2>1 DEF IInv, ReadIsCommitted
    <2> QED
      BY <2>1, <2>2, <2>3, <2>4, MoveIInv
  <1> QED
    BY <1>1, <1>2

\* What a commit finds: no row, or the row it was computed from is the last.
LEMMA CommitFollows ==
  ASSUME IInv, NEW w \in Writers, pc[w] = "open"
  PROVE  /\ draft[w] \in Rows
         /\ Newest(draft[w])
         /\ rows = {} => draft[w].version = 1
         /\ rows # {} => read[w] \in rows /\ IsLatest(read[w]) /\ Follows(draft[w], read[w])
  <1>1. draft[w] \in Rows /\ Newest(draft[w])
    BY DEF IInv, ReadIsCommitted, OpenIsNewest
  <1>2. read[w] = NoRow => rows = {} /\ draft[w].version = 1
    BY <1>1 DEF IInv, ReadIsCommitted, Newest, TypeOK, Rows
  <1>3. read[w] # NoRow => read[w] \in rows /\ Follows(draft[w], read[w])
    BY DEF IInv, ReadIsCommitted, Follows
  <1>4. read[w] # NoRow => IsLatest(read[w])
    BY <1>1, <1>3 DEF IsLatest, Newest, Follows, IInv, TypeOK, Rows
  <1> QED
    BY <1>1, <1>2, <1>3, <1>4

LEMMA CommitIInv ==
  ASSUME IInv, NEW w \in Writers, Commit(w)
  PROVE  IInv'
  <1> DEFINE d == draft[w]
  <1>1. /\ pc[w] = "open"
        /\ rows' = rows \cup {d}
        /\ pc' = [pc EXCEPT ![w] = "idle"]
        /\ UNCHANGED <<read, draft>>
    BY DEF Commit, Goto
  <1>2. /\ d \in Rows
        /\ Newest(d)
        /\ rows = {} => d.version = 1
        /\ rows # {} => read[w] \in rows /\ IsLatest(read[w]) /\ Follows(d, read[w])
    BY <1>1, CommitFollows
  <1>3. rows \subseteq Rows
    BY DEF IInv, TypeOK
  <1>4. pc'[w] = "idle" /\ \A u \in Writers \ {w} : pc'[u] = pc[u]
    BY <1>1 DEF IInv, TypeOK
  <1> HIDE DEF d
  <1>5. TypeOK'
    BY <1>1, <1>2 DEF IInv, TypeOK
  <1>6. OneRowPerVersion'
    BY <1>1, <1>2, <1>3 DEF IInv, OneRowPerVersion, Newest, Rows
  <1>7. OwnerIsImmutable'
    BY <1>1, <1>2, <1>3 DEF IInv, OwnerIsImmutable, Follows
  <1>8. HasFirstAndLast'
    <2>1. \E r \in rows' : r.version = 1
      BY <1>1, <1>2 DEF IInv, HasFirstAndLast
    <2>2. \A s \in rows' : s.version <= d.version
      BY <1>1, <1>2, <1>3 DEF Newest, Rows
    <2> QED
      BY <1>1, <2>1, <2>2 DEF HasFirstAndLast, IsLatest
  <1>9. ReadIsCommitted'
    BY <1>1, <1>4 DEF IInv, ReadIsCommitted
  <1>10. NoRival'
    BY <1>1, <1>4 DEF IInv, NoRival
  \* The other writers: those that would insert after d meet a row of their
  \* own version; the open ones have another version than d, and a row to
  \* follow, so theirs is later.
  <1>11. ASSUME NEW u \in Writers, u # w, pc[u] = "insert"
         PROVE  \/ \A r \in rows' : r.version < draft[u].version
                \/ \E r \in rows' : r.version = draft[u].version
    <2>1. Newest(draft[u]) \/ Met(draft[u])
      BY <1>11 DEF IInv, AboutToInsert
    <2>2. draft[u] \in Rows
      BY <1>11 DEF IInv, ReadIsCommitted
    <2>3. CASE Met(draft[u])
      BY <1>1, <2>3 DEF Met
    <2>4. CASE Newest(draft[u])
      <3>1. CASE rows = {}
        BY <1>1, <1>2, <2>2, <3>1 DEF Rows
      <3>2. CASE rows # {}
        BY <1>1, <1>2, <1>3, <2>2, <2>4, <3>2 DEF Rows, Newest, Follows
      <3> QED
        BY <3>1, <3>2
    <2> QED
      BY <2>1, <2>3, <2>4
  <1>12. ASSUME NEW u \in Writers, u # w, pc[u] = "open"
         PROVE  \A r \in rows' : r.version < draft[u].version
    <2>1. Newest(draft[u]) /\ draft[u] \in Rows
      BY <1>12 DEF IInv, OpenIsNewest, ReadIsCommitted
    <2>2. draft[u].version # d.version
      BY <1>1, <1>12 DEF IInv, NoRival, d
    <2>3. CASE rows = {}
      BY <1>1, <1>2, <2>1, <2>2, <2>3 DEF Rows
    <2>4. CASE rows # {}
      BY <1>1, <1>2, <1>3, <2>1, <2>2, <2>4 DEF Rows, Newest, Follows
    <2> QED
      BY <2>3, <2>4
  <1>13. AboutToInsert' /\ OpenIsNewest'
    BY <1>1, <1>4, <1>11, <1>12 DEF AboutToInsert, OpenIsNewest, Newest, Met
  <1> QED
    BY <1>5, <1>6, <1>7, <1>8, <1>9, <1>10, <1>13 DEF IInv
-----------------------------------------------------------------------------
LEMMA NextIInv == IInv /\ [Next]_vars => IInv'
  <1> SUFFICES ASSUME IInv, [Next]_vars
               PROVE  IInv'
    OBVIOUS
  <1>1. ASSUME NEW w \in Writers, CreateBegin(w)
        PROVE  IInv'
    BY <1>1, CreateBeginIInv
  <1>2. ASSUME NEW w \in Writers, Get(w)
        PROVE  IInv'
    BY <1>2, GetIInv
  <1>3. ASSUME NEW w \in Writers, CheckOwner(w)
        PROVE  IInv'
    BY <1>3, CheckOwnerIInv
  <1>4. ASSUME NEW w \in Writers, EvaluateWhere(w)
        PROVE  IInv'
    BY <1>4, EvaluateWhereIInv
  <1>5. ASSUME NEW w \in Writers, Insert(w)
        PROVE  IInv'
    BY <1>5, InsertIInv
  <1>6. ASSUME NEW w \in Writers, Commit(w)
        PROVE  IInv'
    BY <1>6, CommitIInv
  <1>7. ASSUME NEW w \in Writers, Abort(w)
        PROVE  IInv'
    BY <1>7, ConflictIInv DEF Abort
  <1>8. CASE UNCHANGED vars
    BY <1>8 DEF vars, IInv, TypeOK, OneRowPerVersion, OwnerIsImmutable, ReadIsCommitted,
                AboutToInsert, OpenIsNewest, NoRival, HasFirstAndLast, Newest, Met, IsLatest
  <1> QED
    BY <1>1, <1>2, <1>3, <1>4, <1>5, <1>6, <1>7, <1>8 DEF Next

LEMMA SpecIInv == Spec => []IInv
  BY InitIInv, NextIInv, PTL DEF Spec

\* Every variable keeps its type.
THEOREM SpecTypeOK == Spec => []TypeOK
  <1>1. IInv => TypeOK
    BY DEF IInv
  <1> QED
    BY <1>1, SpecIInv, PTL

\* However many connections replace the same version at once, at most one of
\* them goes through (PRIMARY KEY and the conditional INSERT of replace).
THEOREM SpecOneRowPerVersion == Spec => []OneRowPerVersion
  <1>1. IInv => OneRowPerVersion
    BY DEF IInv
  <1> QED
    BY <1>1, SpecIInv, PTL

\* The owner of an aggregate never changes, although replace checks it in a
\* statement of its own.
THEOREM SpecOwnerIsImmutable == Spec => []OwnerIsImmutable
  <1>1. IInv => OwnerIsImmutable
    BY DEF IInv
  <1> QED
    BY <1>1, SpecIInv, PTL
-----------------------------------------------------------------------------
(***************************************************************************)
(* The refinement: a commit is a Create or a Replace, every other step     *)
(* leaves the newest row where it is.                                      *)
(***************************************************************************)

\* The newest row is the only last one.
LEMMA LatestIsCurrent ==
  ASSUME IInv, NEW r \in rows, IsLatest(r)
  PROVE  currentBar = r
  <1>1. \A s \in rows : IsLatest(s) => s = r
    BY DEF IInv, TypeOK, OneRowPerVersion, IsLatest, Rows
  <1>2. rows # {}
    OBVIOUS
  <1> QED
    BY <1>1, <1>2 DEF currentBar, IsLatest

LEMMA CommitRefines ==
  ASSUME IInv, IInv', NEW w \in Writers, Commit(w)
  PROVE  Record!Next
  <1> DEFINE d == draft[w]
  <1>1. pc[w] = "open" /\ rows' = rows \cup {d}
    BY DEF Commit
  <1>2. /\ d \in Rows
        /\ Newest(d)
        /\ rows = {} => d.version = 1
        /\ rows # {} => read[w] \in rows /\ IsLatest(read[w]) /\ Follows(d, read[w])
    BY <1>1, CommitFollows
  <1> HIDE DEF d
  <1>3. rows' # {} /\ d \in rows' /\ rows' \subseteq Rows /\ rows \subseteq Rows
    BY <1>1 DEF IInv, TypeOK
  <1>4. \A s \in rows' : s.version <= d.version
    BY <1>1, <1>2, <1>3 DEF Newest, Rows
  <1>5. currentBar' = d
    <2>1. \A s \in rows' : (\A t \in rows' : t.version <= s.version) => s = d
      BY <1>1, <1>2, <1>3 DEF Newest, Rows
    <2> QED
      BY <1>3, <1>4, <2>1 DEF currentBar, IsLatest
  <1>6. CASE rows = {}
    <2>1. currentBar = NoRow
      BY <1>6 DEF currentBar
    <2>2. Record!Create
      BY <1>2, <1>5, <1>6, <2>1 DEF Record!Create, Record!NoRow, NoRow, Record!Rows, Rows
    <2> QED
      BY <2>2 DEF Record!Next
  <1>7. CASE rows # {}
    <2>1. currentBar = read[w] /\ read[w] \in Rows
      BY <1>2, <1>3, <1>7, LatestIsCurrent
    <2>2. read[w] # NoRow
      BY <2>1, NoRowNotRow
    <2>3. Record!Replace
      BY <1>2, <1>5, <1>7, <2>1, <2>2 DEF Record!Replace, Record!NoRow, NoRow,
                                          Record!Rows, Rows, Follows
    <2> QED
      BY <2>3 DEF Record!Next
  <1> QED
    BY <1>6, <1>7

\* The table as a whole is one versioned record: no update is lost and no
\* version is skipped, for any interleaving of the statements.
THEOREM SpecImplementsRecord == Spec => ImplementsRecord
  <1>1. Init => Record!Init
    BY DEF Init, Record!Init, currentBar, NoRow, Record!NoRow
  <1>2. IInv /\ IInv' /\ [Next]_vars => [Record!Next]_currentBar
    <2> SUFFICES ASSUME IInv, IInv', [Next]_vars
                 PROVE  [Record!Next]_currentBar
      OBVIOUS
    <2>1. ASSUME NEW w \in Writers, Commit(w)
          PROVE  Record!Next
      BY <2>1, CommitRefines
    <2>2. ASSUME rows' = rows
          PROVE  currentBar' = currentBar
      BY <2>2 DEF currentBar, IsLatest
    <2>3. \/ \E w \in Writers : Commit(w)
          \/ rows' = rows
      BY DEF Next, vars, CreateBegin, Get, CheckOwner, EvaluateWhere, Insert, Abort, Conflict
    <2> QED
      BY <2>1, <2>2, <2>3
  <1> QED
    BY <1>1, <1>2, SpecIInv, PTL DEF Spec, ImplementsRecord, Record!Spec
=============================================================================
