----------------------------- MODULE SiteWork -----------------------------
(***************************************************************************)
(* What the service does about a customer's site besides changing titles:  *)
(* scans, recommendation runs, target words, the Search Console warehouse, *)
(* the model, the paid lookups, the rules a recommendation follows, what   *)
(* settled changes teach, and the adapter of a plain WordPress site. The   *)
(* parts share no records, so a behaviour is one of one part: `focus` says *)
(* which. Some variables are used by several parts, and those the part in  *)
(* focus does not use hold nothing.                                        *)
(***************************************************************************)
EXTENDS Integers, Sequences, FiniteSets

CONSTANTS
    None,                                      \* nobody and nothing
    \* SiteScan
    Files, Texts, SCAN_COOLDOWN, SCAN_STALE_AFTER, RESCAN_EVERY, RETRY_FAILED_AFTER,
    MAX_DOUBLINGS, MaxAttempts, MaxJobs, MaxClock, MaxStops,
    \* SiteCrawl
    Pages, Home, Plain, Sitemaps, COMMON_SITEMAPS, MAX_PAGES, MAX_QUEUE,
    MAX_CHILD_SITEMAPS, MAX_LINKS, MaxClosed,
    \* SeoRun
    Runs, Kind, Attempts, MaxFaults, MaxLooks,
    \* Targets
    Words, Requests, MAX_WORDS, MAX_CONFIRMED, UPDATE_ATTEMPTS, SUGGEST_COOLDOWN,
    SUGGEST_STALE_AFTER, MaxTime, MaxTracks,
    \* Warehouse
    Servers, Properties, LastDay, Traffic, LAG_DAYS, WINDOW_DAYS, DAYS_PER_ROUND,
    DAY_RETRIES, BaselineDays, CurrentDays, DEADLINE_DAYS, MaxSwitches, MaxRounds,
    \* Reasoning
    Providers, MAX_RETRIES, MAX_SWITCHES, Fallback, MIN_COMPETITOR_EVIDENCE,
    Titles, CurrentTitle, Competitors, OffQuery, Ids, MaxCandidates, MaxConfidence,
    \* PaidLookups
    Clients, Queries, Tenant, Limit, SNAPSHOT_TTL, MAX_STALE, VOLUME_TTL,
    UNCONFIRMED_TTL, CONSUME_ATTEMPTS, MaxLookups,
    \* Detection
    Windows, Length, Adjustments, MaxRevisions,
    \* Learning
    Actions, Owner, Changes, PRECISION, MIN_SAMPLES,
    \* WordPressSite
    Posts, Addresses, Slug, HomeAddress, PostTexts, Old, Removed, MaxCalls, MaxEdits

ASSUME ScansAssumption ==
    /\ MaxAttempts \in Nat \ {0} /\ {MaxJobs, MaxClock, MaxStops} \subseteq Nat
    /\ "no such file" \notin Texts
ASSUME CrawlAssumption ==
    /\ IsFiniteSet(Pages) /\ Home \in Pages /\ "on another host" \notin Sitemaps
    /\ COMMON_SITEMAPS \in Seq(Sitemaps)
    /\ MAX_QUEUE \in Nat \ {0} /\ {MAX_PAGES, MAX_CHILD_SITEMAPS, MAX_LINKS} \subseteq Nat
ASSUME RunsAssumption ==
    /\ Kind \in [Runs -> {"analysis", "target", "description"}]
    /\ Attempts \in [Runs -> Nat \ {0}] /\ MaxFaults \in Nat /\ "no run" \notin Runs
ASSUME TargetsAssumption ==
    /\ IsFiniteSet(Words) /\ None \notin Requests
    /\ {MAX_WORDS, UPDATE_ATTEMPTS, SUGGEST_COOLDOWN, MaxTracks} \subseteq Nat
    /\ MaxTime \in Nat \ {0}
ASSUME WarehouseAssumption ==
    /\ BaselineDays \cup CurrentDays \subseteq 1..LastDay
    /\ {LAG_DAYS, WINDOW_DAYS, DAYS_PER_ROUND, DAY_RETRIES, DEADLINE_DAYS} \subseteq Nat
ASSUME ReasoningAssumption ==
    /\ Providers \in Seq({Providers[i] : i \in DOMAIN Providers}) /\ Providers # <<>>
    /\ \A i, j \in DOMAIN Providers : Providers[i] = Providers[j] => i = j
    /\ {MAX_RETRIES, MAX_SWITCHES, MaxCandidates, MaxConfidence} \subseteq Nat
ASSUME LookupsAssumption ==
    /\ IsFiniteSet(Clients) /\ IsFiniteSet(Queries)
    /\ Limit \in [DOMAIN Limit -> Nat] /\ {"serp", "volume"} \subseteq DOMAIN Limit
    /\ Tenant \in [Clients -> DOMAIN Limit]
    /\ LastDay \in Nat \ {0} /\ {CONSUME_ATTEMPTS, MaxLookups} \subseteq Nat
ASSUME DetectionAssumption ==
    /\ Length \in Nat \ {0} /\ MaxRevisions \in Nat /\ Adjustments \subseteq Int
    /\ \A window \in Windows :
          /\ window.days \in [1..Length -> [impressions : Nat, clicks : Nat, position : Nat,
                                           pageImpressions : Nat, pageClicks : Nat]]
          /\ \A d \in 1..Length : window.days[d].impressions = 0 => window.days[d].clicks = 0
ASSUME LearningAssumption ==
    /\ IsFiniteSet(Actions) /\ None \notin Int /\ MIN_SAMPLES \in Nat \ {0}
    /\ PRECISION \in Nat /\ PRECISION >= 1000 /\ PRECISION % 10 = 0
    /\ \A c \in Changes : c.level \in {"page", "query"}
    /\ \A days \in UNION {{c.baseline, c.current} : c \in Changes} :
          /\ days \in Seq([status : {"observed", "expected_zero", "unknown"},
                           impressions : Nat, clicks : Nat])
          /\ 0 < Len(days) /\ 5 * Len(days) < 2 * PRECISION
          /\ \A d \in DOMAIN days : days[d].clicks <= days[d].impressions
ASSUME AdapterAssumption ==
    /\ IsFiniteSet(Posts) /\ Removed \notin Addresses /\ Old \in PostTexts
    /\ {MaxCalls, MaxEdits} \subseteq Nat

VARIABLES
    focus,
    removed, scan, kept, file, served, jobs, created, caller, tab, finished,
    torn, agreed, shown,
    site, phase, robots, starts, guessing, pending, seen, opened, tree,
    silent, sitemapUrls, sitemapPages, uncertain, rich, queue, position,
    pages, capped, late, turnedAway,
    run, action, searches, answers,
    keywords, request, tracker, rounds,
    final, property, ledger, rows, round, lease, measured, bounds,
    found, provider, tries, switches, attempts, failure, attempt_log,
    call_log, last_provider, answer,
    used, cache, client, sent,
    google, responses, decision,
    change, outcome, feedback,
    posts, call, changes, edits,
    clock, worker, stops, job, proposal, faults, version, today, at, begun,
    revisions

scanOnly ==
    <<removed, scan, kept, file, served, jobs, created, caller, tab, finished,
      torn, agreed, shown>>
crawlOnly ==
    <<site, phase, robots, starts, guessing, pending, seen, opened, tree, silent,
      sitemapUrls, sitemapPages, uncertain, rich, queue, position, pages,
      capped, late, turnedAway>>
runsOnly == <<run, action, searches, answers>>
targetsOnly == <<keywords, request, tracker, rounds>>
warehouseOnly ==
    <<final, property, ledger, rows, round, lease, measured, bounds>>
reasoningOnly ==
    <<found, provider, tries, switches, attempts, failure, attempt_log, call_log,
      last_provider, answer>>
lookupsOnly == <<used, cache, client, sent>>
detectionOnly == <<google, responses, decision>>
learningOnly == <<change, outcome, feedback>>
adapterOnly == <<posts, call, changes, edits>>
shared ==
    <<clock, worker, stops, job, proposal, faults, version, today, at, begun,
      revisions>>
partVars ==
    <<scanOnly, crawlOnly, runsOnly, targetsOnly, warehouseOnly, reasoningOnly,
      lookupsOnly, detectionOnly, learningOnly, adapterOnly, shared>>
siteVars == <<focus, partVars>>
------------------------------------------------------------------------
Scan == INSTANCE SiteScan WITH Kinds <- Files
Crawl == INSTANCE SiteCrawl
Run == INSTANCE SeoRun
Target == INSTANCE Targets WITH NoJob <- None, MaxClock <- MaxTime, MaxRounds <- MaxTracks
Days == INSTANCE Warehouse WITH
    MAX_RETRIES <- DAY_RETRIES, Baseline <- BaselineDays, Current <- CurrentDays
Title == INSTANCE Reasoning WITH Current <- CurrentTitle
Paid == INSTANCE PaidLookups
Found == INSTANCE Detection WITH Lessons <- Adjustments
Learned == INSTANCE Learning
Site == INSTANCE WordPressSite WITH Home <- HomeAddress, Texts <- PostTexts
------------------------------------------------------------------------
NoScan ==
    /\ removed = None /\ scan = None /\ kept = None /\ file = None
    /\ served = None /\ jobs = None /\ created = None /\ caller = None
    /\ tab = None /\ finished = None /\ torn = None /\ agreed = None
    /\ shown = None
NoCrawl ==
    /\ site = None /\ phase = None /\ robots = None /\ starts = None
    /\ guessing = None /\ pending = None /\ seen = None /\ opened = None
    /\ tree = None /\ silent = None /\ sitemapUrls = None /\ sitemapPages = None
    /\ uncertain = None /\ rich = None /\ queue = None /\ position = None
    /\ pages = None /\ capped = None /\ late = None /\ turnedAway = None
NoRun == run = None /\ action = None /\ searches = None /\ answers = None
NoTargets == keywords = None /\ request = None /\ tracker = None /\ rounds = None
NoDays ==
    /\ final = None /\ property = None /\ ledger = None /\ rows = None
    /\ round = None /\ lease = None /\ measured = None /\ bounds = None
NoTitle ==
    /\ found = None /\ provider = None /\ tries = None /\ switches = None
    /\ attempts = None /\ failure = None /\ attempt_log = None /\ call_log = None
    /\ last_provider = None /\ answer = None
NoLookups == used = None /\ cache = None /\ client = None /\ sent = None
NoDecision == google = None /\ responses = None /\ decision = None
NoLesson == change = None /\ outcome = None /\ feedback = None
NoPosts == posts = None /\ call = None /\ changes = None /\ edits = None

SiteInit ==
    \/ focus = "scan" /\ Scan!Init /\ NoCrawl /\ NoRun /\ NoTargets /\ NoDays
       /\ NoTitle /\ NoLookups /\ NoDecision /\ NoLesson /\ NoPosts /\ job = None
       /\ proposal = None /\ faults = None /\ version = None /\ today = None
       /\ at = None /\ begun = None /\ revisions = None
    \/ focus = "crawl" /\ Crawl!Init /\ NoScan /\ NoRun /\ NoTargets /\ NoDays
       /\ NoTitle /\ NoLookups /\ NoDecision /\ NoLesson /\ NoPosts /\ clock = None
       /\ worker = None /\ stops = None /\ job = None /\ proposal = None
       /\ faults = None /\ version = None /\ today = None /\ at = None
       /\ begun = None /\ revisions = None
    \/ focus = "runs" /\ Run!Init /\ NoScan /\ NoCrawl /\ NoTargets /\ NoDays
       /\ NoTitle /\ NoLookups /\ NoDecision /\ NoLesson /\ NoPosts /\ clock = None
       /\ version = None /\ today = None /\ at = None /\ begun = None
       /\ revisions = None
    \/ focus = "targets" /\ Target!Init /\ NoScan /\ NoCrawl /\ NoRun /\ NoDays
       /\ NoTitle /\ NoLookups /\ NoDecision /\ NoLesson /\ NoPosts /\ stops = None
       /\ proposal = None /\ faults = None /\ today = None /\ at = None
       /\ begun = None /\ revisions = None
    \/ focus = "warehouse" /\ Days!Init /\ NoScan /\ NoCrawl /\ NoRun /\ NoTargets
       /\ NoTitle /\ NoLookups /\ NoDecision /\ NoLesson /\ NoPosts /\ clock = None
       /\ worker = None /\ stops = None /\ job = None /\ proposal = None
       /\ faults = None /\ version = None /\ at = None /\ begun = None
       /\ revisions = None
    \/ focus = "reasoning" /\ Title!Init /\ NoScan /\ NoCrawl /\ NoRun /\ NoTargets
       /\ NoDays /\ NoLookups /\ NoDecision /\ NoLesson /\ NoPosts /\ clock = None
       /\ worker = None /\ stops = None /\ job = None /\ faults = None
       /\ version = None /\ today = None /\ begun = None /\ revisions = None
    \/ focus = "lookups" /\ Paid!Init /\ NoScan /\ NoCrawl /\ NoRun /\ NoTargets
       /\ NoDays /\ NoTitle /\ NoDecision /\ NoLesson /\ NoPosts /\ clock = None
       /\ worker = None /\ stops = None /\ job = None /\ proposal = None
       /\ faults = None /\ at = None /\ revisions = None
    \/ focus = "detection" /\ Found!Init /\ NoScan /\ NoCrawl /\ NoRun /\ NoTargets
       /\ NoDays /\ NoTitle /\ NoLookups /\ NoLesson /\ NoPosts /\ clock = None
       /\ worker = None /\ stops = None /\ job = None /\ proposal = None
       /\ faults = None /\ version = None /\ today = None /\ begun = None
    \/ focus = "learning" /\ Learned!Init /\ NoScan /\ NoCrawl /\ NoRun /\ NoTargets
       /\ NoDays /\ NoTitle /\ NoLookups /\ NoDecision /\ NoPosts /\ clock = None
       /\ worker = None /\ stops = None /\ job = None /\ proposal = None
       /\ faults = None /\ version = None /\ today = None /\ at = None
       /\ begun = None /\ revisions = None
    \/ focus = "adapter" /\ Site!Init /\ NoScan /\ NoCrawl /\ NoRun /\ NoTargets
       /\ NoDays /\ NoTitle /\ NoLookups /\ NoDecision /\ NoLesson /\ clock = None
       /\ worker = None /\ stops = None /\ job = None /\ proposal = None
       /\ version = None /\ today = None /\ at = None

\* What rests while a part is in focus.
SiteNext ==
    \/ focus = "scan" /\ Scan!Next
       /\ UNCHANGED <<focus, crawlOnly, runsOnly, targetsOnly, warehouseOnly,
                      reasoningOnly, lookupsOnly, detectionOnly, learningOnly,
                      adapterOnly, job, proposal, faults, version, today, at, begun,
                      revisions>>
    \/ focus = "crawl" /\ Crawl!Next
       /\ UNCHANGED <<focus, scanOnly, runsOnly, targetsOnly, warehouseOnly,
                      reasoningOnly, lookupsOnly, detectionOnly, learningOnly,
                      adapterOnly, clock, worker, stops, job, proposal, faults,
                      version, today, at, begun, revisions>>
    \/ focus = "runs" /\ Run!Next
       /\ UNCHANGED <<focus, scanOnly, crawlOnly, targetsOnly, warehouseOnly,
                      reasoningOnly, lookupsOnly, detectionOnly, learningOnly,
                      adapterOnly, clock, version, today, at, begun, revisions>>
    \/ focus = "targets" /\ Target!Next
       /\ UNCHANGED <<focus, scanOnly, crawlOnly, runsOnly, warehouseOnly,
                      reasoningOnly, lookupsOnly, detectionOnly, learningOnly,
                      adapterOnly, stops, proposal, faults, today, at, begun,
                      revisions>>
    \/ focus = "warehouse" /\ Days!Next
       /\ UNCHANGED <<focus, scanOnly, crawlOnly, runsOnly, targetsOnly,
                      reasoningOnly, lookupsOnly, detectionOnly, learningOnly,
                      adapterOnly, clock, worker, stops, job, proposal, faults,
                      version, at, begun, revisions>>
    \/ focus = "reasoning" /\ Title!Next
       /\ UNCHANGED <<focus, scanOnly, crawlOnly, runsOnly, targetsOnly,
                      warehouseOnly, lookupsOnly, detectionOnly, learningOnly,
                      adapterOnly, clock, worker, stops, job, faults, version,
                      today, begun, revisions>>
    \/ focus = "lookups" /\ Paid!Next
       /\ UNCHANGED <<focus, scanOnly, crawlOnly, runsOnly, targetsOnly,
                      warehouseOnly, reasoningOnly, detectionOnly, learningOnly,
                      adapterOnly, clock, worker, stops, job, proposal, faults, at,
                      revisions>>
    \/ focus = "detection" /\ Found!Next
       /\ UNCHANGED <<focus, scanOnly, crawlOnly, runsOnly, targetsOnly,
                      warehouseOnly, reasoningOnly, lookupsOnly, learningOnly,
                      adapterOnly, clock, worker, stops, job, proposal, faults,
                      version, today, begun>>
    \/ focus = "learning" /\ Learned!Next
       /\ UNCHANGED <<focus, scanOnly, crawlOnly, runsOnly, targetsOnly,
                      warehouseOnly, reasoningOnly, lookupsOnly, detectionOnly,
                      adapterOnly, clock, worker, stops, job, proposal, faults,
                      version, today, at, begun, revisions>>
    \/ focus = "adapter" /\ Site!Next
       /\ UNCHANGED <<focus, scanOnly, crawlOnly, runsOnly, targetsOnly,
                      warehouseOnly, reasoningOnly, lookupsOnly, detectionOnly,
                      learningOnly, clock, worker, stops, job, proposal, version,
                      today, at>>

SiteSpec == SiteInit /\ [][SiteNext]_siteVars
------------------------------------------------------------------------
(* Every variable of the part in focus keeps its type. *)
TypesOK ==
    /\ focus = "scan" => Scan!TypeOK
    /\ focus = "crawl" => Crawl!TypeOK
    /\ focus = "runs" => Run!TypeOK
    /\ focus = "targets" => Target!TypeOK
    /\ focus = "warehouse" => Days!TypeOK
    /\ focus = "reasoning" => Title!TypeOK
    /\ focus = "lookups" => Paid!TypeOK
    /\ focus = "detection" => Found!TypeOK
    /\ focus = "learning" => Learned!TypeOK
    /\ focus = "adapter" => Site!TypeOK

(* What the customer sees of the last finished scan is untouched by a newer  *)
(* one, and a file is called applied only when this very text was agreed to  *)
(* and was served (SiteScanStore.save, build_site_file_handler).             *)
ScanIsKept == focus = "scan" => Scan!FinishedIsKept /\ Scan!AppliedWasAgreedAndShown

(* What is proposed rests on what was found: a sitemap on what the crawl     *)
(* read, a title on Google's results and on an answer of the model that is   *)
(* accounted for, a recommendation on figures that held and that call for it *)
(* (SiteCrawler.crawl, build_site_plan; TitleWorkflow.run,                   *)
(* run_title_reasoning_orchestration; run_decision_engine, build_action).    *)
ProposalIsSound ==
    /\ focus = "crawl" => Crawl!ProposalIsSound /\ Crawl!VisitedOnce
    /\ focus = "reasoning" => Title!ProposalIsAccounted
    /\ focus = "detection" => Found!RecommendationIsGrounded

(* What a job has said it did is there: a completed run's proposal is in the *)
(* inbox, words that are said to be on their way have a job, and a change    *)
(* the adapter answered for was made to the page asked for and is named by a *)
(* revision no older than itself (build_seo_run_handler,                     *)
(* build_target_suggestion_handler; _resolve_post, _build_change_id).        *)
WorkIsAnswered ==
    /\ focus = "runs" => Run!CompletedIsAnswered
    /\ focus = "targets" => Target!RunningHasItsJob
    /\ focus = "adapter" => Site!PageAskedFor /\ Site!NamedAfterWrite

(* What a customer has decided, and what was paid for, outlives the late     *)
(* answers of jobs and their redeliveries (TargetKeywordStore.update,        *)
(* existing_proposal, _queue_for_approval).                                  *)
DecisionsStand ==
    [][/\ focus = "runs" => Run!PaidOnceStep
       /\ focus = "targets" => Target!DecisionStep]_partVars

(* A day that counts as synced is whole and of one property; what a change   *)
(* is measured by is what happened; its verdict is what the days show; and   *)
(* what is learned is true of the tenant's own changes (replace_day,         *)
(* fetch_day, settle; evaluate_outcome; calculate_learning_adjustment).      *)
EvidenceIsTrue ==
    /\ focus = "warehouse" => Days!SyncedIsWhole /\ Days!ObservedIsTrue
    /\ focus = "learning" => Learned!VerdictIsTrue /\ Learned!LessonIsTrue

(* No daily budget is exceeded, however many lookups run at once             *)
(* (RequestBudget.consume, CachedSearchVolume.lookup, CachedSERPProvider).   *)
BudgetHolds == focus = "lookups" => Paid!BudgetHolds
=============================================================================
