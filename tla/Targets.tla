----------------------------- MODULE Targets -----------------------------
(***************************************************************************)
(* The target words of one site (app/targets, app/api/target_routes): the  *)
(* customer's requests, the suggestion's job and the weekly rank check     *)
(* change one versioned record. Times are counted in steps of the clock.   *)
(***************************************************************************)
EXTENDS Naturals, FiniteSets, FiniteSetsExt

CONSTANTS
    Words, Requests,          \* a suggestion's job has the name of its request
    NoJob,
    MAX_WORDS, MAX_CONFIRMED, UPDATE_ATTEMPTS,
    SUGGEST_COOLDOWN, SUGGEST_STALE_AFTER,
    MaxClock, MaxRounds       \* bounds

VARIABLES
    clock,
    keywords, version,        \* TargetKeywordSet, its version in the store
    request,                  \* request[r]: what it asks, the copy it has read
    job,                      \* job[r]: the suggestion's job
    worker,                   \* delivers one suggestion
    tracker,                  \* RankTracker, one word at a time
    rounds

vars == <<clock, keywords, version, request, job, worker, tracker, rounds>>
------------------------------------------------------------------------
KeywordStatus == {"unknown", "suggested", "confirmed", "dismissed"}
SuggestionStatus == {"idle", "running", "failed"}
Times == 0..MaxClock + 1                   \* 0: never

\* TargetKeywordSet. checks[w] dates the newest rank check of a word.
Set == [words : [Words -> KeywordStatus], checks : [Words -> Times],
        status : SuggestionStatus, job : Requests \cup {NoJob},
        asked : Times, updated : Times]

Asks == [kind : {"brief", "suggest"}]
        \cup [kind : {"add", "status"}, word : Words, to : KeywordStatus \ {"unknown"}]

NewSet == [words |-> [w \in Words |-> "unknown"], checks |-> [w \in Words |-> 0],
           status |-> "idle", job |-> NoJob, asked |-> 0, updated |-> 0]

IdleWorker == [at |-> "idle", job |-> NoJob, found |-> {}, error |-> FALSE,
               seen |-> NewSet, version |-> 0, tries |-> 0]
IdleTracker == [at |-> "idle", word |-> {}, fetched |-> 0, seen |-> NewSet, version |-> 0, tries |-> 0]
NoRequest == [at |-> "free", ask |-> [kind |-> "brief"], seen |-> NewSet, version |-> 0, now |-> 0]

Init ==
    /\ clock = 1
    /\ keywords = NewSet /\ version = 0
    /\ request = [r \in Requests |-> NoRequest]
    /\ job = [r \in Requests |-> "none"]
    /\ worker = IdleWorker /\ tracker = IdleTracker /\ rounds = 0

With(set, status) == {w \in Words : set.words[w] = status}
Listed(set) == Words \ With(set, "unknown")

\* The words without the dismissed ones make_room forgets (the oldest: any, here).
make_room(words, wanted) ==
    LET dismissed == {w \in Words : words[w] = "dismissed"}
        listed == Cardinality({w \in Words : words[w] # "unknown"})
        excess == IF listed + wanted > MAX_WORDS THEN listed + wanted - MAX_WORDS ELSE 0
    IN  {[w \in Words |-> IF w \in gone THEN "unknown" ELSE words[w]] :
            gone \in kSubset(Min({excess, Cardinality(dismissed)}), dismissed)}

\* A word that is forgotten loses its history.
Kept(set, words) ==
    [set EXCEPT !.words = words,
                !.checks = [w \in Words |-> IF words[w] = "unknown" THEN 0 ELSE @[w]]]
------------------------------------------------------------------------
\* What each request refuses to do to the set it has read.
MayConfirm(set, w) ==
    set.words[w] = "confirmed" \/ Cardinality(With(set, "confirmed")) < MAX_CONFIRMED

MaySuggest(set, now) ==
    /\ ~(set.status = "running" /\ now - set.updated < SUGGEST_STALE_AFTER)
    /\ set.asked = 0 \/ now - set.asked >= SUGGEST_COOLDOWN

\* read_or_new and the checks of set_brief, suggest, add_keyword and set_status.
Read(r) ==
    /\ request[r].at = "free"
    /\ \E kind \in {"brief", "suggest", "add", "status"}, w \in Words, to \in KeywordStatus \ {"unknown"} :
          /\ CASE kind = "suggest" -> MaySuggest(keywords, clock)
               [] kind = "add" -> MayConfirm(keywords, w) /\ to = "confirmed"
               [] kind = "status" -> /\ w \in Listed(keywords)
                                     /\ to = "confirmed" => MayConfirm(keywords, w)
               [] OTHER -> TRUE
          /\ request' = [request EXCEPT ![r] =
                [at |-> "save", seen |-> keywords, version |-> version, now |-> clock,
                 ask |-> IF kind \in {"add", "status"} THEN [kind |-> kind, word |-> w, to |-> to]
                         ELSE [kind |-> kind]]]
    /\ UNCHANGED <<clock, keywords, version, job, worker, tracker, rounds>>

\* What the request makes of the copy it has read.
Made(r) ==
    LET q == request[r]
        made == CASE q.ask.kind = "brief" -> {q.seen}
                  [] q.ask.kind = "suggest" ->
                        {[q.seen EXCEPT !.status = "running", !.job = r, !.asked = q.now]}
                  [] q.ask.kind = "status" -> {[q.seen EXCEPT !.words[q.ask.word] = q.ask.to]}
                  [] q.ask.kind = "add" ->
                        {Kept(q.seen, [words EXCEPT ![q.ask.word] = "confirmed"]) :
                            words \in IF q.ask.word \in Listed(q.seen) THEN {q.seen.words}
                                      ELSE make_room(q.seen.words, 1)}
    IN  {[set EXCEPT !.updated = clock] : set \in made}

\* Faulty variant: whatever was saved since is written over.
MaySaveOver(read) == TRUE

\* TargetKeywordStore.save: only over the version it was read at.
MaySave(read) == read.version = version

\* The set and the suggestion's job in one transaction; 409 to a copy that is stale.
Save(r) ==
    /\ request[r].at = "save"
    /\ IF MaySave(request[r])
       THEN /\ keywords' \in Made(r)
            /\ version' = version + 1
            /\ job' = IF request[r].ask.kind = "suggest" THEN [job EXCEPT ![r] = "queued"] ELSE job
       ELSE UNCHANGED <<keywords, version, job>>
    /\ request' = [request EXCEPT ![r] = [NoRequest EXCEPT !.at = "answered", !.now = request[r].now]]
    /\ UNCHANGED <<clock, worker, tracker, rounds>>
------------------------------------------------------------------------
\* build_target_suggestion_handler: the request of this job is still the latest.
mine(set, j) == set.status = "running" /\ set.job = j

Deliver(r) ==
    /\ worker.at = "idle" /\ job[r] = "queued"
    /\ job' = [job EXCEPT ![r] = IF mine(keywords, r) THEN "running" ELSE "ended"]
    /\ worker' = IF mine(keywords, r) THEN [IdleWorker EXCEPT !.at = "ask", !.job = r] ELSE worker
    /\ UNCHANGED <<clock, keywords, version, request, tracker, rounds>>

\* No page, or an error of the model; or the words it found.
Answer ==
    /\ worker.at = "ask"
    /\ \/ worker' = [worker EXCEPT !.at = "read", !.error = TRUE]
       \/ \E found \in SUBSET Words : worker' = [worker EXCEPT !.at = "read", !.found = found]
    /\ UNCHANGED <<clock, keywords, version, request, job, tracker, rounds>>

JobOver(status) == worker' = IdleWorker /\ job' = [job EXCEPT ![worker.job] = status]

\* TargetKeywordStore.update reads the set; a newer request's is left alone.
UpdateRead ==
    /\ worker.at = "read"
    /\ IF mine(keywords, worker.job)
       THEN /\ worker' = [worker EXCEPT !.at = "save", !.seen = keywords, !.version = version]
            /\ UNCHANGED job
       ELSE JobOver("ended")
    /\ UNCHANGED <<clock, keywords, version, request, tracker, rounds>>

\* What was decided stays, the earlier ideas give way to those that fit.
Suggested ==
    LET decided == [w \in Words |-> IF worker.seen.words[w] = "suggested" THEN "unknown"
                                    ELSE worker.seen.words[w]]
        fresh == {w \in worker.found : decided[w] = "unknown"}
    IN  UNION {{[w \in Words |-> IF w \in new THEN "suggested" ELSE kept[w]] :
                  new \in {s \in SUBSET fresh : Cardinality(s) = Min({Cardinality(fresh),
                             IF Cardinality({w \in Words : kept[w] # "unknown"}) >= MAX_WORDS THEN 0
                             ELSE MAX_WORDS - Cardinality({w \in Words : kept[w] # "unknown"})})}} :
               kept \in make_room(decided, Cardinality(fresh))}

Outcomes ==
    IF worker.error THEN {[worker.seen EXCEPT !.status = "failed", !.updated = clock]}
    ELSE {[Kept(worker.seen, words) EXCEPT !.status = "idle", !.updated = clock] : words \in Suggested}

\* Written, or read again; the set is marked failed when every attempt to write
\* the words has lost, and left as it is when that too has lost.
UpdateSave ==
    /\ worker.at = "save"
    /\ \/ /\ MaySave(worker)
          /\ keywords' \in Outcomes /\ version' = version + 1
          /\ JobOver("ended")
       \/ /\ ~MaySave(worker)
          /\ worker.tries + 1 < UPDATE_ATTEMPTS
          /\ worker' = [worker EXCEPT !.at = "read", !.tries = @ + 1]
          /\ UNCHANGED <<keywords, version, job>>
       \/ /\ ~MaySave(worker)
          /\ worker.tries + 1 = UPDATE_ATTEMPTS
          /\ IF worker.error THEN JobOver("beaten")
             ELSE worker' = [worker EXCEPT !.at = "read", !.tries = 0, !.error = TRUE] /\ UNCHANGED job
          /\ UNCHANGED <<keywords, version>>
    /\ UNCHANGED <<clock, request, tracker, rounds>>

\* The server stops: the job had one attempt.
Stop ==
    /\ worker.at # "idle"
    /\ JobOver("lost")
    /\ UNCHANGED <<clock, keywords, version, request, tracker, rounds>>
------------------------------------------------------------------------
\* RankTracker.run_round: the words as the round read them, each one's answer dated
\* by when Google gave it, which may be long ago.
Look ==
    /\ tracker.at = "idle" /\ rounds < MaxRounds
    /\ \E w \in With(keywords, "confirmed"), fetched \in 1..clock :
          /\ fetched > keywords.checks[w]
          /\ tracker' = [IdleTracker EXCEPT !.at = "read", !.word = {w}, !.fetched = fetched]
    /\ rounds' = rounds + 1
    /\ UNCHANGED <<clock, keywords, version, request, job, worker>>

\* _save: the set as it is now; nothing newer than what is there is no new version.
RankRead ==
    /\ tracker.at = "read"
    /\ tracker' = IF \E w \in tracker.word : w \in Listed(keywords) /\ tracker.fetched > keywords.checks[w]
                  THEN [tracker EXCEPT !.at = "save", !.seen = keywords, !.version = version]
                  ELSE IdleTracker
    /\ UNCHANGED <<clock, keywords, version, request, job, worker, rounds>>

RankSave ==
    /\ tracker.at = "save"
    /\ IF MaySave(tracker)
       THEN /\ keywords' = [tracker.seen EXCEPT !.checks =
                              [w \in Words |-> IF w \in tracker.word THEN tracker.fetched ELSE @[w]]]
            /\ version' = version + 1
            /\ tracker' = IdleTracker
       ELSE /\ tracker' = IF tracker.tries + 1 < UPDATE_ATTEMPTS
                          THEN [tracker EXCEPT !.at = "read", !.tries = @ + 1] ELSE IdleTracker
            /\ UNCHANGED <<keywords, version>>
    /\ UNCHANGED <<clock, request, job, worker, rounds>>

Tick ==
    /\ clock < MaxClock
    /\ clock' = clock + 1
    /\ UNCHANGED <<keywords, version, request, job, worker, tracker, rounds>>

Next ==
    \/ \E r \in Requests : Read(r) \/ Save(r) \/ Deliver(r)
    \/ Answer \/ UpdateRead \/ UpdateSave \/ Stop
    \/ Look \/ RankRead \/ RankSave
    \/ Tick

Spec == Init /\ [][Next]_vars
------------------------------------------------------------------------
(* Every variable keeps its type. *)
TypeOK ==
    /\ clock \in 1..MaxClock /\ version \in Nat /\ rounds \in 0..MaxRounds
    /\ keywords \in Set
    /\ \A r \in Requests : request[r].ask \in Asks /\ request[r].seen \in Set
    /\ job \in [Requests -> {"none", "queued", "running", "ended", "lost", "beaten"}]
    /\ worker.at \in {"idle", "ask", "read", "save"} /\ worker.seen \in Set
    /\ tracker.at \in {"idle", "read", "save"} /\ tracker.seen \in Set

(* What the customer decided about a word changes only by a request that saw *)
(* that decision, or by forgetting a dismissed word of a full list: never by *)
(* a suggestion, a rank check or a request that had read something older;    *)
(* and a rank check is never undone nor replaced by an older one, unless the *)
(* word is forgotten (TargetKeywordStore.save, the change of each update).   *)
DecisionStep ==
    \A w \in Words :
       /\ keywords.words[w] \in {"confirmed", "dismissed"} /\ keywords'.words[w] # keywords.words[w]
          => \/ /\ keywords.words[w] = "dismissed" /\ keywords'.words[w] = "unknown"
                /\ Cardinality(Listed(keywords')) >= MAX_WORDS
             \/ \E r \in Requests : /\ request[r].at = "save" /\ request'[r].at = "answered"
                                    /\ request[r].seen.words = keywords.words
       /\ keywords'.checks[w] < keywords.checks[w] => keywords'.words[w] = "unknown"

DecisionsStand == [][DecisionStep]_vars

(* The set says that words are being suggested only while the job it names   *)
(* may still deliver them: when it has ended, the set says so, unless the    *)
(* server stopped under it or it lost every race to write (handler, fail).   *)
(* And no two jobs were asked for within the cooldown, by whatever requests  *)
(* (suggest): each is a call of the model that is paid for.                  *)
RunningHasItsJob ==
    /\ keywords.status = "running" => job[keywords.job] # "ended"
    /\ \A r, s \in Requests : r # s /\ job[r] # "none" /\ job[s] # "none" =>
          \/ request[r].now >= request[s].now + SUGGEST_COOLDOWN
          \/ request[s].now >= request[r].now + SUGGEST_COOLDOWN
=========================================================================
