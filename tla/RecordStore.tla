---------------------------- MODULE RecordStore ----------------------------
(***************************************************************************)
(* One aggregate in PostgreSQL: create, get and replace of                 *)
(* app/persistence/postgres.py over the table of                           *)
(* migrations/001_persistence_foundation.sql, used by several connections  *)
(* at once.                                                                *)
(*                                                                         *)
(* A replace is three statements with a snapshot each (READ COMMITTED):    *)
(* the caller's read, the check of the owner and the conditional INSERT.   *)
(* The INSERT first evaluates its WHERE on its snapshot and only then      *)
(* enters the primary key, where it waits for an uncommitted row with the  *)
(* same version and fails on a committed one.  transaction() may keep the  *)
(* inserted row uncommitted while other records are written.               *)
(*                                                                         *)
(* Left out: record_id, which every writer draws anew, and two writes of   *)
(* one aggregate in one transaction, which no caller makes.  Rows are not  *)
(* deleted: RecordPurge removes those of sessions and OAuth states only.   *)
(***************************************************************************)
EXTENDS Naturals

CONSTANTS
    Writers,     \* database connections
    Tenants,     \* owners
    Contents,    \* payloads
    Nothing,     \* what a first version was computed from
    MaxVersion   \* bound: versions of the aggregate

ASSUME MaxVersionAssumption == MaxVersion \in Nat \ {0}

Rows == [version : Nat \ {0}, tenant : Tenants, content : Contents,
         on : Contents \cup {Nothing}]
NoRow == [version |-> 0]

VARIABLES
    rows,   \* committed rows of persistence_records
    pc,     \* writer -> its place in create or replace
    read,   \* writer -> the row its get returned
    draft   \* writer -> the row it is about to insert, or has inserted

vars == <<rows, pc, read, draft>>

Init ==
    /\ rows = {}
    /\ pc = [w \in Writers |-> "idle"]
    /\ read = [w \in Writers |-> NoRow]
    /\ draft = [w \in Writers |-> NoRow]

IsLatest(r) == r \in rows /\ \A s \in rows : s.version <= r.version

Goto(w, place) == pc' = [pc EXCEPT ![w] = place]

\* The statement fails, or the guard raises: connection.rollback().
Conflict(w) == Goto(w, "idle") /\ UNCHANGED <<rows, read, draft>>

-----------------------------------------------------------------------------
\* Faulty variant: versions are counted from zero.
CreateFromZero(w) ==
    /\ pc[w] = "idle"
    /\ \E tenant \in Tenants, content \in Contents :
          draft' = [draft EXCEPT ![w] =
              [version |-> 0, tenant |-> tenant, content |-> content, on |-> Nothing]]
    /\ read' = [read EXCEPT ![w] = NoRow]
    /\ Goto(w, "insert")
    /\ UNCHANGED rows

\* create: the INSERT of a first version, guarded by the primary key alone.
CreateBegin(w) ==
    /\ pc[w] = "idle"
    /\ \E tenant \in Tenants, content \in Contents :
          draft' = [draft EXCEPT ![w] =
              [version |-> 1, tenant |-> tenant, content |-> content, on |-> Nothing]]
    /\ read' = [read EXCEPT ![w] = NoRow]
    /\ Goto(w, "insert")
    /\ UNCHANGED rows

\* get: ORDER BY version DESC LIMIT 1, and the caller's next version.
Get(w) ==
    /\ pc[w] = "idle"
    /\ \E r \in rows, tenant \in Tenants, content \in Contents :
          /\ IsLatest(r)
          /\ r.version < MaxVersion
          /\ read' = [read EXCEPT ![w] = r]
          /\ draft' = [draft EXCEPT ![w] =
                [version |-> r.version + 1, tenant |-> tenant, content |-> content,
                 on |-> r.content]]
    /\ Goto(w, "owner")
    /\ UNCHANGED rows

\* Faulty variant: the owner is read and not compared.
OwnerUnchecked(w) ==
    /\ pc[w] = "owner"
    /\ Goto(w, "where")
    /\ UNCHANGED <<rows, read, draft>>

\* _current_tenant_id: the owner must not change.
CheckOwner(w) ==
    /\ pc[w] = "owner"
    /\ \E r \in rows :
          /\ IsLatest(r)
          /\ IF r.tenant = draft[w].tenant
             THEN Goto(w, "where") /\ UNCHANGED <<rows, read, draft>>
             ELSE Conflict(w)

\* The WHERE of the INSERT: the expected version exists and is the last one.
EvaluateWhere(w) ==
    /\ pc[w] = "where"
    /\ IF \E r \in rows : IsLatest(r) /\ r.version = read[w].version
       THEN Goto(w, "insert") /\ UNCHANGED <<rows, read, draft>>
       ELSE Conflict(w)

\* Faulty variants: a check of the committed rows instead of a unique index;
\* no check at all after the WHERE.
InsertWithoutWaiting(w) ==
    /\ pc[w] = "insert"
    /\ IF \E r \in rows : r.version = draft[w].version
       THEN Conflict(w)
       ELSE Goto(w, "open") /\ UNCHANGED <<rows, read, draft>>
InsertUnindexed(w) ==
    /\ pc[w] = "insert"
    /\ Goto(w, "open")
    /\ UNCHANGED <<rows, read, draft>>

\* The primary key: wait for an uncommitted row, fail on a committed one.
Insert(w) ==
    /\ pc[w] = "insert"
    /\ \A u \in Writers \ {w} :
          pc[u] = "open" => draft[u].version # draft[w].version
    /\ IF \E r \in rows : r.version = draft[w].version
       THEN Conflict(w)
       ELSE Goto(w, "open") /\ UNCHANGED <<rows, read, draft>>

\* The end of the connection's or of the transaction's context.
Commit(w) ==
    /\ pc[w] = "open"
    /\ rows' = rows \cup {draft[w]}
    /\ Goto(w, "idle")
    /\ UNCHANGED <<read, draft>>

\* Another statement of the transaction fails, or the server dies.
Abort(w) ==
    /\ pc[w] # "idle"
    /\ Conflict(w)

Next ==
    \E w \in Writers :
        \/ CreateBegin(w) \/ Get(w)
        \/ CheckOwner(w) \/ EvaluateWhere(w) \/ Insert(w)
        \/ Commit(w) \/ Abort(w)

Spec == Init /\ [][Next]_vars
-----------------------------------------------------------------------------
(***************************************************************************)
(* Properties.                                                             *)
(***************************************************************************)

\* Every variable keeps its type.
TypeOK ==
    /\ rows \subseteq Rows
    /\ pc \in [Writers -> {"idle", "owner", "where", "insert", "open"}]
    /\ read \in [Writers -> Rows \cup {NoRow}]
    /\ draft \in [Writers -> Rows \cup {NoRow}]

\* Two replaces that read the same version never both go through: no version
\* has two rows, even while several inserts are uncommitted.
OneRowPerVersion ==
    \A r, s \in rows : r.version = s.version => r = s

\* "An aggregate must never change owner." (app/persistence/postgres.py:427)
\* The owner is checked in a statement of its own, before the insert.
OwnerIsImmutable == \A r, s \in rows : r.tenant = s.tenant

\* The newest committed row is all a reader sees: through it the table is a
\* single versioned record whose every version was computed from the one
\* before, so that no update is lost.
currentBar == IF rows = {} THEN NoRow ELSE CHOOSE r \in rows : IsLatest(r)

Record == INSTANCE VersionedRecord WITH current <- currentBar

ImplementsRecord == Record!Spec
=============================================================================
