---------------------------- MODULE Warehouse ----------------------------
(***************************************************************************)
(* The Search Console warehouse of one site (app/warehouse, app/gsc) and   *)
(* the measurement that reads it (app/measurement): a round asks Google    *)
(* for settled days one by one and stores each with its ledger entry in    *)
(* one transaction, while the customer may switch the property, a server   *)
(* that lost the lease may still be in a round, and the measurement reads  *)
(* the ledger, the queries and the pages in three transactions.            *)
(* Of a day's rows only those of one page and one of its queries are kept. *)
(***************************************************************************)
EXTENDS Naturals, FiniteSets, FiniteSetsExt

CONSTANTS
    Servers, Properties, None,
    LastDay,                  \* bound: days are 1..LastDay
    Traffic,                  \* Traffic[p][d]: "none", "hidden" (the page, not this query), "seen"
    LAG_DAYS, WINDOW_DAYS, DAYS_PER_ROUND, MAX_RETRIES,
    Baseline, Current,        \* the days the measurement compares
    DEADLINE_DAYS,
    MaxSwitches, MaxFaults, MaxRounds     \* bounds

VARIABLES
    today, final,             \* in Google's calendar; the newest day Google has finished
    property,                 \* the site's, or None
    ledger, rows,             \* of each day: gsc_sync_days; gsc_daily_pages and _queries
    round,                    \* round[s]: the round a server is in
    lease,                    \* the server whose loop may begin a round
    measured,                 \* the settlement of one action
    bounds                    \* how many switches, faults and rounds there were

vars == <<today, final, property, ledger, rows, round, lease, measured, bounds>>
------------------------------------------------------------------------
Days == 1..LastDay

\* gsc_sync_days: due says that RETRY_AFTER has passed since a failure.
SyncDayStatus == [property : Properties \cup {None}, status : {"none", "synced", "failed"},
                  capped : BOOLEAN, due : BOOLEAN]
DayRows == [from : Properties \cup {None}, page : BOOLEAN, query : BOOLEAN]

NoEntry == [property |-> None, status |-> "none", capped |-> FALSE, due |-> FALSE]
NoRows == [from |-> None, page |-> FALSE, query |-> FALSE]
NoRound == [at |-> "idle", property |-> None, days |-> {}, tries |-> 0,
            got |-> NoRows, capped |-> FALSE, refused |-> FALSE]
NotMeasured == [at |-> "waiting", property |-> None, stored |-> {}, capped |-> {},
                queries |-> {}, pages |-> {}, torn |-> FALSE]

Init ==
    /\ today = 1 /\ final = 0
    /\ property \in Properties
    /\ ledger = [d \in Days |-> NoEntry] /\ rows = [d \in Days |-> NoRows]
    /\ round = [s \in Servers |-> NoRound]
    /\ lease \in Servers
    /\ measured = NotMeasured
    /\ bounds = [switches |-> 0, faults |-> 0, rounds |-> 0]

\* latest_final_date of search_console_today, and the window the warehouse holds.
Newest == IF today > LAG_DAYS THEN today - LAG_DAYS ELSE 0
sync_window == {d \in Days : d <= Newest /\ d + WINDOW_DAYS > Newest}

\* What Google says with dataState=final: nothing of a day it has not finished, and
\* of one at the daily cap perhaps not this page or query.
Final(p, d) ==
    LET whole == [from |-> p, page |-> d <= final /\ Traffic[p][d] # "none",
                  query |-> d <= final /\ Traffic[p][d] = "seen"]
    IN  {[rows |-> whole, capped |-> FALSE],
         [rows |-> [whole EXCEPT !.query = FALSE], capped |-> FALSE],
         [rows |-> [whole EXCEPT !.page = FALSE, !.query = FALSE], capped |-> TRUE]}

\* GoogleErrorKind: the statuses of each, and whether the client asks again.
GoogleErrorKind ==
    {[status |-> s, retryable |-> FALSE] : s \in {400, 401, 403, 404}} \cup
    {[status |-> s, retryable |-> TRUE] : s \in {403, 429, 500}}
credential_refused(error) == error.status \in {401, 403}
------------------------------------------------------------------------
Busy(s) == round[s].at # "idle"
Day(s) == Max(round[s].days)

\* The next days, newest first, at most DAYS_PER_ROUND.
Planned(p) ==
    LET due == {d \in sync_window : \/ ledger[d].property # p
                                    \/ ledger[d].status = "failed" /\ ledger[d].due}
    IN  {d \in due : Cardinality({e \in due : e > d}) < DAYS_PER_ROUND}

\* WarehouseLoop, run_round: the property and the days are read once.
Begin(s) ==
    /\ lease = s /\ ~Busy(s) /\ bounds.rounds < MaxRounds
    /\ property # None /\ Planned(property) # {}
    /\ round' = [round EXCEPT ![s] = [NoRound EXCEPT !.at = "totals", !.property = property,
                                                     !.days = Planned(property)]]
    /\ bounds' = [bounds EXCEPT !.rounds = @ + 1]
    /\ UNCHANGED <<today, final, property, ledger, rows, lease, measured>>

\* On with the next day, or the end of the round.
Left(s) ==
    LET left == round[s].days \ {Day(s)} IN
    [round EXCEPT ![s] = IF left = {} \/ round[s].refused THEN NoRound
                         ELSE [round[s] EXCEPT !.at = "totals", !.days = left, !.tries = 0,
                                               !.got = NoRows, !.capped = FALSE]]

\* fetch_day asks for the totals with dataState=all: a day Google is still
\* collecting is left for a later round.
Totals(s) ==
    /\ round[s].at = "totals"
    /\ round' = IF Day(s) > final THEN Left(s) ELSE [round EXCEPT ![s].at = "rows"]
    /\ UNCHANGED <<today, final, property, ledger, rows, lease, measured, bounds>>

\* The pages and the queries, as far as Google sends them.
Rows(s) ==
    /\ round[s].at = "rows"
    /\ \E answer \in Final(round[s].property, Day(s)) :
          /\ answer.rows.query => answer.rows.page
          /\ round' = [round EXCEPT ![s].at = "store", ![s].got = answer.rows, ![s].capped = answer.capped]
    /\ UNCHANGED <<today, final, property, ledger, rows, lease, measured, bounds>>

\* An error of Google's: asked again up to MAX_RETRIES times, then the day has
\* failed; one that refuses the credential ends the round.
Error(s) ==
    /\ round[s].at \in {"totals", "rows"} /\ bounds.faults < MaxFaults
    /\ \E error \in GoogleErrorKind :
          round' = [round EXCEPT ![s] =
             IF error.retryable /\ round[s].tries < MAX_RETRIES
             THEN [round[s] EXCEPT !.tries = @ + 1]
             ELSE [round[s] EXCEPT !.at = "failed", !.refused = credential_refused(error)]]
    /\ bounds' = [bounds EXCEPT !.faults = @ + 1]
    /\ UNCHANGED <<today, final, property, ledger, rows, lease, measured>>

\* replace_day: the old rows, the new ones and the ledger entry in one transaction,
\* or nothing when it fails.
ReplaceDay(s) ==
    /\ round[s].at = "store"
    /\ LET d == Day(s) IN
          /\ rows' = [rows EXCEPT ![d] = round[s].got]
          /\ ledger' = [ledger EXCEPT ![d] =
                [property |-> round[s].property, status |-> "synced",
                 capped |-> round[s].capped, due |-> FALSE]]
          /\ measured' = [measured EXCEPT !.torn = @ \/ /\ measured.at \in {"queries", "pages"}
                                                        /\ d \in measured.stored]
    /\ round' = Left(s)
    /\ UNCHANGED <<today, final, property, lease, bounds>>

StoreFails(s) ==
    /\ round[s].at = "store" /\ bounds.faults < MaxFaults
    /\ bounds' = [bounds EXCEPT !.faults = @ + 1]
    /\ round' = Left(s)
    /\ UNCHANGED <<today, final, property, ledger, rows, lease, measured>>

\* record_failure leaves a good copy from the same property alone.
RecordFailure(s) ==
    /\ round[s].at = "failed"
    /\ LET d == Day(s) entry == ledger[Day(s)] IN
          ledger' = IF entry.status \in {"none", "failed"} \/ entry.property # round[s].property
                    THEN [ledger EXCEPT ![d].property = round[s].property, ![d].status = "failed",
                                        ![d].due = FALSE]
                    ELSE ledger
    /\ round' = Left(s)
    /\ UNCHANGED <<today, final, property, rows, lease, measured, bounds>>

\* RETRY_AFTER passes for a day that failed.
RetryAfter(d) ==
    /\ ledger[d].status = "failed" /\ ~ledger[d].due
    /\ ledger' = [ledger EXCEPT ![d].due = TRUE]
    /\ UNCHANGED <<today, final, property, rows, round, lease, measured, bounds>>

\* configure_gsc, google_disconnect: another property, or none.
Switch ==
    /\ bounds.switches < MaxSwitches
    /\ bounds' = [bounds EXCEPT !.switches = @ + 1]
    /\ property' \in (Properties \cup {None}) \ {property}
    /\ UNCHANGED <<today, final, ledger, rows, round, lease, measured>>

\* The lease goes to another server; the one that had it may be in a round.
TakeLease(s) ==
    /\ lease # s
    /\ lease' = s
    /\ UNCHANGED <<today, final, property, ledger, rows, round, measured, bounds>>

\* Google finishes days in their order, usually within LAG_DAYS.
Finish ==
    /\ final < today - 1
    /\ final' = final + 1
    /\ UNCHANGED <<today, property, ledger, rows, round, lease, measured, bounds>>

NextDay ==
    /\ today < LastDay + LAG_DAYS
    /\ today' = today + 1
    /\ UNCHANGED <<final, property, ledger, rows, round, lease, measured, bounds>>
------------------------------------------------------------------------
\* MeasurementRunner.settle.
Compared == Baseline \cup Current

\* The site's property; once disconnected, that of a stored day of the window.
PropertyOf(entries) ==
    IF property # None THEN {property}
    ELSE LET synced == {d \in Compared : entries[d].status = "synced"}
         IN  IF synced = {} THEN {None} ELSE {entries[d].property : d \in synced}

ReadLedger ==
    /\ measured.at = "waiting"
    /\ Newest >= Max(Current)
    /\ \E p \in PropertyOf(ledger) :
          LET own == {d \in Compared : ledger[d].property = p}
              stored == {d \in own : ledger[d].status = "synced"}
          IN  /\ stored = Compared \/ Newest >= Max(Current) + DEADLINE_DAYS
              /\ measured' = [NotMeasured EXCEPT !.at = "queries", !.property = p, !.stored = stored,
                                                 !.capped = {d \in own : ledger[d].capped}]
    /\ UNCHANGED <<today, final, property, ledger, rows, round, lease, bounds>>

\* query_days, page_days: whatever rows are there.
ReadQueries ==
    /\ measured.at = "queries"
    /\ measured' = [measured EXCEPT !.at = "pages", !.queries = {d \in Compared : rows[d].query}]
    /\ UNCHANGED <<today, final, property, ledger, rows, round, lease, bounds>>

ReadPages ==
    /\ measured.at = "pages"
    /\ measured' = [measured EXCEPT !.at = "settled", !.pages = {d \in Compared : rows[d].page}]
    /\ UNCHANGED <<today, final, property, ledger, rows, round, lease, bounds>>

\* build_observations: a day is a zero only when it is stored whole and the page
\* was not seen at all.
Observation(d) ==
    CASE d \in measured.stored /\ d \in measured.queries -> "observed"
      [] d \in measured.stored /\ d \notin measured.queries
         /\ d \notin measured.capped /\ d \notin measured.pages -> "expected_zero"
      [] OTHER -> "unknown"

Next ==
    \/ \E s \in Servers :
          \/ Begin(s) \/ Totals(s) \/ Rows(s) \/ Error(s)
          \/ ReplaceDay(s) \/ StoreFails(s) \/ RecordFailure(s) \/ TakeLease(s)
    \/ \E d \in Days : RetryAfter(d)
    \/ Switch \/ Finish \/ NextDay
    \/ ReadLedger \/ ReadQueries \/ ReadPages

Spec == Init /\ [][Next]_vars
------------------------------------------------------------------------
(* Every variable keeps its type. *)
TypeOK ==
    /\ today \in 1..LastDay + LAG_DAYS /\ final \in 0..today
    /\ property \in Properties \cup {None} /\ lease \in Servers
    /\ ledger \in [Days -> SyncDayStatus] /\ rows \in [Days -> DayRows]
    /\ \A s \in Servers : /\ round[s].at \in {"idle", "totals", "rows", "store", "failed"}
                          /\ round[s].days \subseteq Days /\ round[s].tries \in 0..MAX_RETRIES
    /\ measured.at \in {"waiting", "queries", "pages", "settled"}

(* What the reports read of a day (synced, from one property) are the rows   *)
(* of that property, of a day Google had finished: whatever failed, whatever *)
(* property the site had, however two servers' rounds overlapped             *)
(* (WarehouseReports, replace_day, record_failure, fetch_day).               *)
SyncedIsWhole ==
    \A d \in Days : ledger[d].status = "synced" =>
        /\ rows[d].from = ledger[d].property
        /\ d <= final
        /\ ~ledger[d].capped => (rows[d].page <=> Traffic[ledger[d].property][d] # "none")

(* An outcome is computed from what happened: a day that counts as observed  *)
(* or as without traffic was so at the property the action is measured by,   *)
(* with no zero invented for a day that was not finished, failed, capped or  *)
(* another property's; except when a day was replaced between the            *)
(* measurement's reads (settle, build_observations).                         *)
ObservedIsTrue ==
    measured.at = "settled" /\ ~measured.torn =>
        \A d \in Compared :
            /\ Observation(d) = "observed" => Traffic[measured.property][d] = "seen"
            /\ Observation(d) = "expected_zero" => Traffic[measured.property][d] = "none"
=========================================================================
