--------------------------- MODULE PaidLookups ---------------------------
(***************************************************************************)
(* Search volumes and Google's results, which are paid for by the request  *)
(* (app/keyword_intel, app/serp/cache.py): answers are kept in a cache,    *)
(* and each request is first counted against daily budgets in the          *)
(* database, which every client and worker shares.                         *)
(***************************************************************************)
EXTENDS Naturals, FiniteSets, Sequences

CONSTANTS
    Clients,               \* requests and workers that look up at once
    Queries,
    Tenant,                \* Tenant[c]: whose lookups a client makes
    Limit,                 \* Limit[s]: the daily limit of a budget
    SNAPSHOT_TTL, MAX_STALE, VOLUME_TTL, UNCONFIRMED_TTL,
    CONSUME_ATTEMPTS,      \* 5 in the code
    LastDay, MaxLookups    \* bounds

VARIABLES
    today,                 \* in Tehran
    used, version,         \* of each budget and day: the count, its record's version
    cache,                 \* of each kind and query: when it was answered, 0 for never
    client,                \* what each does, and has found
    begun,                 \* how many lookups, a bound
    sent                   \* sent[s][d]: requests sent that were counted there

vars == <<today, used, version, cache, client, begun, sent>>
------------------------------------------------------------------------
Days == 1..LastDay
Kinds == {"serp", "volume"}
Scopes == DOMAIN Limit

\* CombinedBudget: one customer's, then everyone's. The searches have one of their own.
Budgets(c) == IF client[c].kind = "serp" THEN <<"serp">> ELSE <<Tenant[c], "volume">>

Idle == [at |-> "idle", kind |-> "serp", todo |-> {}, wanted |-> {}, stale |-> {}, answered |-> {},
         pending |-> {}, budget |-> 1, day |-> 1, used |-> 0, version |-> 0, tries |-> 0]

Init ==
    /\ today = 1
    /\ used = [s \in Scopes |-> [d \in Days |-> 0]]
    /\ version = [s \in Scopes |-> [d \in Days |-> 0]]
    /\ cache = [k \in Kinds |-> [q \in Queries |-> [at |-> 0, confirmed |-> TRUE]]]
    /\ client = [c \in Clients |-> Idle]
    /\ begun = 0
    /\ sent = [s \in Scopes |-> [d \in Days |-> 0]]

Ttl(kind, entry) ==
    IF kind = "serp" THEN SNAPSHOT_TTL
    ELSE IF entry.confirmed THEN VOLUME_TTL ELSE UNCONFIRMED_TTL

Fresh(kind, q) == cache[kind][q].at # 0 /\ today - cache[kind][q].at <= Ttl(kind, cache[kind][q])

\* What may be answered with when no request can be had: of Google's results only
\* what is not too old.
Older(kind, q) ==
    cache[kind][q].at # 0 /\ (kind = "serp" => today - cache[kind][q].at <= MAX_STALE)

Goto(c, step) == client' = [client EXCEPT ![c].at = step]

\* search of one query; lookup of several, one request for each here.
Begin(c) ==
    /\ client[c].at = "idle" /\ begun < MaxLookups
    /\ begun' = begun + 1
    /\ \E kind \in Kinds, wanted \in SUBSET Queries :
          /\ wanted # {} /\ (kind = "serp" => Cardinality(wanted) = 1)
          /\ LET missing == {q \in wanted : ~Fresh(kind, q)} IN
                client' = [client EXCEPT ![c] =
                   [Idle EXCEPT !.kind = kind, !.wanted = wanted, !.answered = wanted \ missing,
                                !.todo = missing, !.stale = {q \in missing : Older(kind, q)},
                                !.at = IF missing = {} THEN "done"
                                       ELSE IF kind = "volume" THEN "check" ELSE "count"]]
    /\ UNCHANGED <<today, used, version, cache, sent>>

\* No request can be had: what is left is answered from what is old, or not at all.
Refuse(c) ==
    LET left == client[c].todo IN
    client' = [client EXCEPT ![c].at = "done",
                             ![c].answered = @ \cup (left \cap client[c].stale),
                             ![c].pending = left \ client[c].stale]

\* CombinedBudget.consume looks at every budget before it takes from any.
Check(c) ==
    /\ client[c].at = "check"
    /\ IF \E i \in DOMAIN Budgets(c) : used[Budgets(c)[i]][today] >= Limit[Budgets(c)[i]]
       THEN Refuse(c)
       ELSE Goto(c, "count")
    /\ UNCHANGED <<today, used, version, cache, sent, begun>>

\* RequestBudget.consume: the day's count is read, and written over the version read.
Scope(c) == Budgets(c)[client[c].budget]

ReadCount(c) ==
    /\ client[c].at = "count"
    /\ LET day == IF client[c].tries = 0 THEN today ELSE client[c].day IN
       IF used[Scope(c)][day] >= Limit[Scope(c)]
       THEN Refuse(c)
       ELSE client' = [client EXCEPT ![c].at = "take", ![c].day = day,
                          ![c].used = used[Scope(c)][day], ![c].version = version[Scope(c)][day]]
    /\ UNCHANGED <<today, used, version, cache, sent, begun>>

\* Faulty variant: the count is written whatever it has become.
UnchangedOrNot(c) == TRUE

Unchanged(c) == version[Scope(c)][client[c].day] = client[c].version

TakeCount(c) ==
    /\ client[c].at = "take"
    /\ LET s == Scope(c) day == client[c].day IN
       \/ /\ Unchanged(c)
          /\ used' = [used EXCEPT ![s][day] = client[c].used + 1]
          /\ version' = [version EXCEPT ![s][day] = @ + 1]
          /\ client' = [client EXCEPT ![c].tries = 0,
                ![c].budget = IF @ < Len(Budgets(c)) THEN @ + 1 ELSE @,
                ![c].at = IF client[c].budget < Len(Budgets(c)) THEN "count" ELSE "send"]
       \/ /\ ~Unchanged(c)
          /\ IF client[c].tries + 1 < CONSUME_ATTEMPTS
             THEN client' = [client EXCEPT ![c].at = "count", ![c].tries = @ + 1]
             ELSE Refuse(c)
          /\ UNCHANGED <<used, version>>
    /\ UNCHANGED <<today, cache, sent, begun>>

\* The request is sent: it counts on the day its last budget was taken from.
Sent(c) == sent' = [sent EXCEPT ![Scope(c)][client[c].day] = @ + 1]

\* Answered and kept; nothing found for a whole request is kept for a day only.
Answer(c) ==
    /\ client[c].at = "send" /\ Sent(c)
    /\ LET q == CHOOSE q \in client[c].todo : TRUE kind == client[c].kind IN
       /\ \E confirmed \in IF kind = "volume" THEN BOOLEAN ELSE {TRUE} :
             cache' = [cache EXCEPT ![kind][q] = [at |-> today, confirmed |-> confirmed]]
       /\ client' = [client EXCEPT ![c].answered = @ \cup {q}, ![c].todo = @ \ {q}, ![c].budget = 1,
                                   ![c].at = IF client[c].todo = {q} THEN "done" ELSE "check"]
    /\ UNCHANGED <<today, used, version, begun>>

\* The provider says the day is spent, whatever our count says; or asks to wait.
Spent(c) ==
    /\ client[c].at = "send" /\ Sent(c)
    /\ used' = [used EXCEPT ![Scope(c)][today] = Limit[Scope(c)]]
    /\ version' = [version EXCEPT ![Scope(c)][today] = @ + 1]
    /\ Refuse(c)
    /\ UNCHANGED <<today, cache, begun>>

RateLimited(c) ==
    /\ client[c].at = "send" /\ client[c].kind = "serp" /\ Sent(c)
    /\ Refuse(c)
    /\ UNCHANGED <<today, used, version, cache, begun>>

\* Any other error is the caller's.
Error(c) ==
    /\ client[c].at = "send" /\ Sent(c)
    /\ Goto(c, "failed")
    /\ UNCHANGED <<today, used, version, cache, begun>>

End(c) ==
    /\ client[c].at \in {"done", "failed"}
    /\ client' = [client EXCEPT ![c] = Idle]
    /\ UNCHANGED <<today, used, version, cache, sent, begun>>

NextDay ==
    /\ today < LastDay
    /\ today' = today + 1
    /\ UNCHANGED <<used, version, cache, client, sent, begun>>

Next ==
    \/ \E c \in Clients :
          \/ Begin(c) \/ Check(c) \/ ReadCount(c) \/ TakeCount(c)
          \/ Answer(c) \/ Spent(c) \/ RateLimited(c) \/ Error(c) \/ End(c)
    \/ NextDay

Spec == Init /\ [][Next]_vars

------------------------------------------------------------------------
(* Every variable keeps its type. *)
TypeOK ==
    /\ today \in Days
    /\ used \in [Scopes -> [Days -> Nat]] /\ sent \in [Scopes -> [Days -> Nat]]
    /\ \A c \in Clients : client[c].kind \in Kinds /\ client[c].wanted \subseteq Queries

(* However many lookups run at once, no budget is exceeded on any day, every *)
(* request that was sent had been counted, and a lookup tells of every word  *)
(* either what it found or that it is still to be asked, never both          *)
(* (RequestBudget.consume, CachedSearchVolume.lookup, CachedSERPProvider).   *)
BudgetHolds ==
    /\ \A s \in Scopes, d \in Days : sent[s][d] <= used[s][d] /\ used[s][d] <= Limit[s]
    /\ \A c \in Clients : client[c].at = "done" =>
          /\ client[c].answered \cup client[c].pending = client[c].wanted
          /\ client[c].answered \cap client[c].pending = {}
=========================================================================
