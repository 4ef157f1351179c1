----------------------------- MODULE TitleStore -----------------------------
(***************************************************************************)
(* The WordPress connector plugin's store of title overrides for one post: *)
(* integrations/wordpress/hoshyarseo-connector/includes/                   *)
(* class-hoshyarseo-title-store.php.                                       *)
(*                                                                         *)
(* The override and the history are two post meta values.  WordPress reads *)
(* all of a post's meta at once, at the first get_post_meta of a request;  *)
(* the request then writes the override and saves its copy of the history. *)
(* Nothing makes the two writes one, and PHP may be stopped between them   *)
(* (a time limit, a restart, a lost database).  Requests for one post      *)
(* overlap when a client gives up waiting and sends another.               *)
(*                                                                         *)
(* Left out: cleaning of titles and the checks of empty or long ones,      *)
(* which answer 422 and change nothing.                                    *)
(***************************************************************************)
EXTENDS Naturals, Sequences

CONSTANTS
    Titles,       \* what an override can be
    Keys,         \* idempotency keys, one per change
    NoOverride,   \* no override: the site's own title shows
    Requests,     \* PHP requests that can overlap
    HistorySize,  \* HISTORY_SIZE: 20 in the code
    MaxChanges,   \* bound: changes made
    MaxStops      \* bound: requests stopped before their end

ASSUME OverrideAssumption == NoOverride \notin Titles
ASSUME BoundsAssumption == HistorySize \in Nat \ {0} /\ MaxChanges \in Nat /\ MaxStops \in Nat

VARIABLES
    override,  \* META_TITLE
    history,   \* META_HISTORY, oldest first
    req,       \* request -> [at, entry, copy]: its place, its change, the
               \*   history it read
    found,     \* key -> the override before the first write of a change that
               \*   is not in the history yet
    before,    \* saved change -> the override before its first write
    saved,     \* the changes that reached the history, oldest first
    changes, stops

vars == <<override, history, req, found, before, saved, changes, stops>>

Values == Titles \cup {NoOverride}
Entries == [id : 1..MaxChanges, key : Keys, previous : Values, new : Titles, undone : BOOLEAN]
NoEntry == [id |-> 0]
Places == {"idle", "setTitle", "saveEntry", "answer", "restore", "saveUndone"}
Ended == [at |-> "idle", entry |-> NoEntry, copy |-> <<>>]
NotYet == [known |-> FALSE, value |-> NoOverride]

Init ==
    /\ override = NoOverride
    /\ history = <<>>
    /\ req = [r \in Requests |-> Ended]
    /\ found = [k \in Keys |-> NotYet]
    /\ before = [id \in 1..MaxChanges |-> NoOverride]
    /\ saved = <<>>
    /\ changes = 0
    /\ stops = 0

InHistory(h, key) == \E n \in DOMAIN h : h[n].key = key

\* Faulty variants: one entry too many; the oldest entries instead of the newest.
KeptOneMore(h) == SubSeq(h, IF Len(h) > HistorySize + 1 THEN Len(h) - HistorySize ELSE 1, Len(h))
KeptOldest(h) == SubSeq(h, 1, IF Len(h) > HistorySize THEN HistorySize ELSE Len(h))

\* save_history: the most recent entries.
Kept(h) == SubSeq(h, IF Len(h) > HistorySize THEN Len(h) - HistorySize + 1 ELSE 1, Len(h))

-----------------------------------------------------------------------------
\* apply answers a key that is in the history with its change: its client
\* was not answered the first time.
ApplyKnown(r, n) ==
    /\ req[r].at = "idle"
    /\ n \in DOMAIN history
    /\ req' = [req EXCEPT ![r] =
            [at |-> "answer", entry |-> history[n], copy |-> <<>>]]
    /\ UNCHANGED <<override, history, found, before, saved, changes, stops>>

\* Faulty variant: a key is looked for in the newest entry only.
ApplyAgain(r, key, title) ==
    /\ req[r].at = "idle"
    /\ history # <<>> => history[Len(history)].key # key
    /\ changes < MaxChanges
    /\ changes' = changes + 1
    /\ req' = [req EXCEPT ![r] =
            [at |-> "setTitle", copy |-> history,
             entry |-> [id |-> changes + 1, key |-> key, previous |-> override,
                        new |-> title, undone |-> FALSE]]]
    /\ UNCHANGED <<override, history, found, before, saved, stops>>

\* Faulty variant: the previous override is not looked up.
ApplyFromNothing(r, key, title) ==
    /\ req[r].at = "idle"
    /\ ~InHistory(history, key)
    /\ changes < MaxChanges
    /\ changes' = changes + 1
    /\ req' = [req EXCEPT ![r] =
            [at |-> "setTitle", copy |-> history,
             entry |-> [id |-> changes + 1, key |-> key, previous |-> NoOverride,
                        new |-> title, undone |-> FALSE]]]
    /\ UNCHANGED <<override, history, found, before, saved, stops>>

\* Otherwise it builds an entry from the override of now.
ApplyBegin(r, key, title) ==
    /\ req[r].at = "idle"
    /\ ~InHistory(history, key)
    /\ changes < MaxChanges
    /\ changes' = changes + 1
    /\ req' = [req EXCEPT ![r] =
            [at |-> "setTitle", copy |-> history,
             entry |-> [id |-> changes + 1, key |-> key, previous |-> override,
                        new |-> title, undone |-> FALSE]]]
    /\ UNCHANGED <<override, history, found, before, saved, stops>>

\* update_post_meta( META_TITLE ), the first of the two writes.
SetTitle(r) ==
    LET entry == req[r].entry IN
    /\ req[r].at = "setTitle"
    /\ override' = entry.new
    /\ found' = [found EXCEPT ![entry.key] =
            IF @.known THEN @ ELSE [known |-> TRUE, value |-> override]]
    /\ req' = [req EXCEPT ![r].at = "saveEntry"]
    /\ UNCHANGED <<history, before, saved, changes, stops>>

\* save_history with the entry appended to what was read.
SaveEntry(r) ==
    /\ req[r].at = "saveEntry"
    /\ history' = Kept(Append(req[r].copy, req[r].entry))
    /\ saved' = Append(saved, req[r].entry)
    /\ before' = [before EXCEPT ![req[r].entry.id] = found[req[r].entry.key].value]
    /\ found' = [found EXCEPT ![req[r].entry.key] = NotYet]
    /\ req' = [req EXCEPT ![r].at = "answer"]
    /\ UNCHANGED <<override, changes, stops>>

\* The client is told of the change.
Answer(r) ==
    /\ req[r].at = "answer"
    /\ req' = [req EXCEPT ![r] = Ended]
    /\ UNCHANGED <<override, history, found, before, saved, changes, stops>>

\* Faulty variant: a change is undone whatever the override is now.
RollbackRegardless(r, n) ==
    /\ req[r].at = "idle"
    /\ n \in DOMAIN history
    /\ ~history[n].undone
    /\ req' = [req EXCEPT ![r] =
            [at |-> "restore", entry |-> history[n], copy |-> history]]
    /\ UNCHANGED <<override, history, found, before, saved, changes, stops>>

\* rollback finds a change that is not undone and whose title is the override
\* still; any other is answered without a write (404, 409).
RollbackBegin(r, n) ==
    /\ req[r].at = "idle"
    /\ n \in DOMAIN history
    /\ ~history[n].undone
    /\ override = history[n].new
    /\ req' = [req EXCEPT ![r] =
            [at |-> "restore", entry |-> history[n], copy |-> history]]
    /\ UNCHANGED <<override, history, found, before, saved, changes, stops>>

\* delete_post_meta or update_post_meta( META_TITLE ) with the previous one.
Restore(r) ==
    /\ req[r].at = "restore"
    /\ override' = req[r].entry.previous
    /\ req' = [req EXCEPT ![r].at = "saveUndone"]
    /\ UNCHANGED <<history, found, before, saved, changes, stops>>

\* save_history with the change marked.
SaveUndone(r) ==
    LET entry == req[r].entry IN
    /\ req[r].at = "saveUndone"
    /\ history' = Kept([n \in DOMAIN req[r].copy |->
            IF req[r].copy[n].id = entry.id THEN [entry EXCEPT !.undone = TRUE]
                                            ELSE req[r].copy[n]])
    /\ req' = [req EXCEPT ![r] = Ended]
    /\ UNCHANGED <<override, found, before, saved, changes, stops>>

\* PHP ends the request where it is.
StopRequest(r) ==
    /\ req[r].at # "idle"
    /\ stops < MaxStops
    /\ stops' = stops + 1
    /\ req' = [req EXCEPT ![r] = Ended]
    /\ UNCHANGED <<override, history, found, before, saved, changes>>

Next ==
    \E r \in Requests :
        \/ \E key \in Keys, title \in Titles : ApplyBegin(r, key, title)
        \/ SetTitle(r) \/ SaveEntry(r) \/ Answer(r)
        \/ \E n \in DOMAIN history : ApplyKnown(r, n) \/ RollbackBegin(r, n)
        \/ Restore(r) \/ SaveUndone(r)
        \/ StopRequest(r)

Spec == Init /\ [][Next]_vars

-----------------------------------------------------------------------------
(***************************************************************************)
(* Properties.                                                             *)
(***************************************************************************)

\* Every variable keeps its type.
TypeOK ==
    /\ override \in Values
    /\ history \in Seq(Entries) /\ Len(history) <= HistorySize
    /\ req \in [Requests -> [at : Places, entry : Entries \cup {NoEntry}, copy : Seq(Entries)]]
    /\ \A r \in Requests : req[r].at # "idle" => req[r].entry \in Entries
    /\ found \in [Keys -> [known : BOOLEAN, value : Values]]
    /\ before \in [1..MaxChanges -> Values]
    /\ saved \in Seq(Entries)
    /\ changes \in 0..MaxChanges /\ stops \in Nat

\* "Caller-supplied key, unique per change" (class-hoshyarseo-title-store.php:43):
\* however often a request is stopped and repeated, and whatever is done in
\* between, the changes that are remembered have each a key of their own.
OneChangePerKey ==
    \A m, n \in DOMAIN history : history[m].key = history[n].key => m = n

\* A change that a client may have been told of can be found again to be
\* undone, until HISTORY_SIZE later changes have been saved, and it is what a
\* repetition with its key is answered with; a request that was stopped before
\* its entry takes no place in the history.
AnsweredIsKept ==
    \A n \in DOMAIN saved :
        n + HistorySize > Len(saved) =>
            \E k \in DOMAIN history :
                /\ history[k].id = saved[n].id
                /\ \A m \in DOMAIN history : history[m].key = history[k].key => m = k

\* The changes after the one being undone that stand: each has put a title of
\* its own in the place of another.
NewerStanding(r) ==
    {n \in DOMAIN req[r].copy :
        LET later == req[r].copy[n] IN
        later.id > req[r].entry.id /\ ~later.undone /\ later.previous # later.new}

\* rollback tells by the override alone that nothing has changed since.  That
\* is enough while no two changes ever set the same title and PHP runs every
\* request to its end: no undo then takes a newer change away.
NewerTitleKept ==
    [][\A r \in Requests :
          /\ Restore(r) /\ stops = 0
          /\ \A m, n \in DOMAIN saved : saved[m].new = saved[n].new => m = n
          => NewerStanding(r) = {}]_vars

\* "Refuses when the override has changed since: undoing an older change
\* would discard a newer one." (class-hoshyarseo-title-store.php:87)
NewerChangeKept == [][\A r \in Requests : Restore(r) => NewerStanding(r) = {}]_vars

\* Undoing a change brings back exactly what was there before it, after any
\* sequence of changes, repetitions and undoings, while PHP runs every request
\* to its end (class-hoshyarseo-title-store.php:85).
UndoRestoresUnstopped ==
    [][\A r \in Requests :
          Restore(r) /\ stops = 0 => override' = before[req[r].entry.id]]_vars

\* "Undo one change, restoring exactly what was there before it."
\* (class-hoshyarseo-title-store.php:85), with requests that are stopped.
UndoRestores ==
    [][\A r \in Requests : Restore(r) => override' = before[req[r].entry.id]]_vars

=============================================================================
