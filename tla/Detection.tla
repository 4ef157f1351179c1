---------------------------- MODULE Detection ----------------------------
(***************************************************************************)
(* How Search Console's numbers become a recommendation                    *)
(* (app/runtime/service.py, ingestion, features, detectors, classifier,    *)
(* opportunity, strategy, engine, pipeline, action/planner): four answers  *)
(* are fetched one after another while Google may revise what it holds,    *)
(* then checked, reconciled and put through the rules, and the lessons of  *)
(* earlier changes move the strategy's priority.                           *)
(* Positions are in tenths, scores in ten-thousandths.                     *)
(***************************************************************************)
EXTENDS Integers, Sequences, FiniteSets, FiniteSetsExt, Functions

CONSTANTS
    Windows,          \* what Google may hold of a window: open, and its days
    Length,           \* days in a window, at least one
    Lessons,          \* the adjustments learning can give
    None,
    MaxRevisions      \* bound

VARIABLES
    google,           \* of both windows, now
    responses,        \* the answers so far, in the order they are asked for
    at,               \* "asked", "fetch", "check", "decide", "decided" or "refused"
    decision,
    revisions

vars == <<google, responses, at, decision, revisions>>
------------------------------------------------------------------------
\* A day: the target query's row (no impressions: no row) and the page's.
Day == [impressions : Nat, clicks : Nat, position : Nat,
        pageImpressions : Nat, pageClicks : Nat]

Scores == 0..10000
NoAction == [type |-> None, status |-> None]
NoDecision == [status |-> None, class |-> None, signals |-> {}, queued |-> FALSE,
               strategy |-> None, action |-> NoAction, priority |-> 0]

Init ==
    /\ google \in [{"baseline", "current"} -> Windows]
    /\ responses = <<>> /\ at = "asked" /\ decision = NoDecision /\ revisions = 0

Asked == <<"baseline", "baseline", "current", "current">>

\* PersistentSEORunService.run refuses an inactive site, one without Search Console
\* and a window that is too long or reaches into days that have not settled.
Ask ==
    /\ at = "asked"
    /\ at' \in {"fetch", "refused"}
    /\ UNCHANGED <<google, responses, decision, revisions>>

\* validate_final_response.
Final(window) == ~window.open

\* PersistentSEORunService.run.fetch: the query rows and the page rows of each window.
Fetch ==
    /\ at = "fetch"
    /\ LET window == google[Asked[Len(responses) + 1]] IN
          IF Final(window)
          THEN /\ responses' = Append(responses, window.days)
               /\ at' = IF Len(responses) = 3 THEN "check" ELSE at
          ELSE at' = "refused" /\ UNCHANGED responses
    /\ UNCHANGED <<google, decision, revisions>>

\* An answer that cannot be had, or not be read, ends the run.
FetchFails ==
    /\ at = "fetch"
    /\ at' = "refused"
    /\ UNCHANGED <<google, responses, decision, revisions>>

\* Google revises a window it has already answered from.
Revise ==
    /\ at \in {"asked", "fetch"} /\ revisions < MaxRevisions
    /\ \E w \in DOMAIN google, window \in Windows : google' = [google EXCEPT ![w] = window]
    /\ revisions' = revisions + 1
    /\ UNCHANGED <<responses, at, decision>>

\* The query's rows of a window are from its first answer, the page's from its second.
Read(rows, pages) ==
    [d \in 1..Length |->
        [rows[d] EXCEPT !.pageImpressions = pages[d].pageImpressions,
                        !.pageClicks = pages[d].pageClicks]]
Baseline == Read(responses[1], responses[2])
Current == Read(responses[3], responses[4])

\* validate_daily_totals, each day on its own.
DailyTotalsHold(window) ==
    \A d \in 1..Length : window[d].impressions > 0 =>
        /\ window[d].pageImpressions > 0
        /\ window[d].impressions <= window[d].pageImpressions
        /\ window[d].clicks <= window[d].pageClicks

Check ==
    /\ at = "check"
    /\ at' = IF DailyTotalsHold(Baseline) /\ DailyTotalsHold(Current) THEN "decide" ELSE "refused"
    /\ UNCHANGED <<google, responses, decision, revisions>>
------------------------------------------------------------------------
\* The features.
Total(figures) ==
    LET upTo[d \in 0..Length] == IF d = 0 THEN 0 ELSE upTo[d - 1] + figures[d] IN upTo[Length]

Observed(window) == {d \in 1..Length : window[d].impressions > 0}
Impressions(window) == Total([d \in 1..Length |-> window[d].impressions])
Clicks(window) == Total([d \in 1..Length |-> window[d].clicks])
PageImpressions(window) == Total([d \in 1..Length |-> window[d].pageImpressions])
PageClicks(window) == Total([d \in 1..Length |-> window[d].pageClicks])

\* The smallest of the figures that k of them do not exceed.
Ranked(figures, k) ==
    Min({n \in Range(figures) : Cardinality({d \in DOMAIN figures : figures[d] <= n}) >= k})

\* Twice the median, so that it is whole.
Median2(figures) ==
    LET n == Cardinality(DOMAIN figures)
    IN  IF n = 0 THEN 0 ELSE Ranked(figures, (n + 1) \div 2) + Ranked(figures, n \div 2 + 1)

Position2(window) == Median2([d \in Observed(window) |-> window[d].position])

\* Four times the median absolute deviation.
Mad4(window) ==
    Median2([d \in Observed(window) |->
        LET off == 2 * window[d].position - Position2(window) IN IF off < 0 THEN -off ELSE off])

\* The current CTR is this many percent points, or more, below the baseline's.
CtrFell(baseline, current, points) ==
    100 * (Clicks(baseline) * Impressions(current) - Clicks(current) * Impressions(baseline))
        >= points * Impressions(baseline) * Impressions(current)

\* Of two totals: _classify, calculate_reconciliation_completeness (in halves).
Reconciled(query, url) ==
    IF query = url THEN 2 ELSE IF query < url THEN 1 ELSE 0

\* reconcile_input: each of the two totals must not exceed the page's.
Reconciliation(window) ==
    <<Reconciled(Impressions(window), PageImpressions(window)),
      Reconciled(Clicks(window), PageClicks(window))>>

\* calculate_reconciliation_completeness, in quarters.
ReconciliationQuarters(window) == Reconciliation(window)[1] + Reconciliation(window)[2]

\* calculate_window_completeness against 0.8.
Complete(window) == 5 * Cardinality(Observed(window)) >= 4 * Length

\* calculate_completeness: every row there is counts as observed.
HasRows(window) == Observed(window) # {} /\ PageImpressions(window) > 0

PassesGate(baseline, current) ==
    /\ Complete(baseline) /\ Complete(current)
    /\ HasRows(current)
    /\ ReconciliationQuarters(current) >= 2
------------------------------------------------------------------------
\* The detectors, past the gate.
CtrDrop(baseline, current) == Clicks(baseline) > 0 /\ CtrFell(baseline, current, 2)
PositionDecline(baseline, current) == Position2(current) - Position2(baseline) >= 30
HighValue(current) ==
    /\ Impressions(current) >= 100
    /\ Position2(current) \in 80..400
    /\ 100 * Clicks(current) <= 8 * Impressions(current)
Volatile(current) == Mad4(current) >= 60

Signals(baseline, current) ==
    (IF CtrDrop(baseline, current) THEN {"CTR_DROP"} ELSE {}) \cup
    (IF PositionDecline(baseline, current) THEN {"POSITION_DECLINE"} ELSE {}) \cup
    (IF HighValue(current) THEN {"HIGH_VALUE_OPPORTUNITY"} ELSE {}) \cup
    (IF Volatile(current) THEN {"VOLATILITY"} ELSE {})

\* detect_signal_risks.
Risks(signals) ==
    IF "VOLATILITY" \notin signals THEN {}
    ELSE (IF "CTR_DROP" \in signals THEN {"CTR_DROP_UNDER_VOLATILITY"} ELSE {}) \cup
         (IF "POSITION_DECLINE" \in signals THEN {"POSITION_DECLINE_UNDER_VOLATILITY"} ELSE {})

Actionable == {"CTR_DROP", "POSITION_DECLINE", "HIGH_VALUE_OPPORTUNITY"}

\* A signal's confidence is the product of the two windows' completeness.
Confidence(baseline, current, risks) ==
    LET product == (10000 * Cardinality(Observed(baseline)) * Cardinality(Observed(current)))
                          \div (Length * Length)
    IN  IF risks = {} THEN product ELSE (8 * product) \div 10

\* classify_signals.
Class(signals, confidence) ==
    IF signals \cap Actionable = {} THEN "PASS"
    ELSE IF confidence < 5000 THEN "REJECT" ELSE "INVESTIGATE"

\* build_opportunity, _resolve_opportunity_type.
Qualified(class, signals) == class = "INVESTIGATE" /\ signals # {}
OpportunityFor(signals) ==
    CASE {"CTR_DROP", "POSITION_DECLINE"} \subseteq signals -> "mixed_recovery"
      [] "CTR_DROP" \in signals /\ "POSITION_DECLINE" \notin signals -> "ctr_recovery"
      [] "POSITION_DECLINE" \in signals /\ "CTR_DROP" \notin signals -> "position_recovery"
      [] OTHER -> "visibility_growth"

\* Faulty variant: what may be noise is acted on as well.
StrategyRegardless(opportunity, risks) ==
    CASE opportunity \in {"mixed_recovery", "ctr_recovery"} -> "serp_title_optimization"
      [] opportunity = "position_recovery" -> "internal_linking"
      [] opportunity = "visibility_growth" -> "content_depth_improvement"

\* _recommend_strategy_type: a decline that may be noise is not acted on.
StrategyFor(opportunity, risks) ==
    LET shaky == "POSITION_DECLINE_UNDER_VOLATILITY" \in risks
    IN  CASE opportunity = "mixed_recovery" ->
                IF shaky THEN "cannibalization_investigation" ELSE "serp_title_optimization"
          [] opportunity = "ctr_recovery" -> "serp_title_optimization"
          [] opportunity = "position_recovery" ->
                IF shaky THEN "monitor_only" ELSE "internal_linking"
          [] opportunity = "visibility_growth" -> "content_depth_improvement"

\* effort, risk and the share of the opportunity's impact, in percent.
StrategyScores ==
    [serp_title_optimization |-> [effort |-> 25, risk |-> 30, impact |-> 95],
     cannibalization_investigation |-> [effort |-> 60, risk |-> 20, impact |-> 80],
     internal_linking |-> [effort |-> 45, risk |-> 35, impact |-> 75],
     content_depth_improvement |-> [effort |-> 70, risk |-> 45, impact |-> 70],
     monitor_only |-> [effort |-> 5, risk |-> 5, impact |-> 20]]

\* _impact_score, and what the strategy may expect of it.
Impact(impressions) == IF impressions >= 5000 THEN 10000 ELSE 2 * impressions
ExpectedImpact(strategy, impressions) ==
    (Impact(impressions) * StrategyScores[strategy].impact) \div 100
Priority(strategy, impressions, confidence) ==
    (40 * ExpectedImpact(strategy, impressions) + 35 * confidence
        + 1500 * (100 - StrategyScores[strategy].effort)
        + 1000 * (100 - StrategyScores[strategy].risk)) \div 100

STRATEGY_TO_ACTION ==
    [serp_title_optimization |-> "optimize_title",
     cannibalization_investigation |-> "investigate_cannibalization",
     internal_linking |-> "improve_internal_linking",
     content_depth_improvement |-> "improve_content_depth",
     monitor_only |-> "monitor"]
RiskLevel(strategy) ==
    LET risk == StrategyScores[strategy].risk
    IN  IF risk >= 65 THEN "high" ELSE IF risk >= 35 THEN "medium" ELSE "low"
RequiresApproval(strategy) ==
    \/ STRATEGY_TO_ACTION[strategy] \in {"optimize_title", "improve_content_depth"}
    \/ RiskLevel(strategy) \in {"medium", "high"}

\* build_action.
ActionOf(strategy) ==
    [type |-> STRATEGY_TO_ACTION[strategy],
     status |-> IF RequiresApproval(strategy) THEN "awaiting_approval" ELSE "planned"]

\* apply_learning_to_strategy: within [0, 1].
Adjusted(priority, lesson) ==
    LET moved == priority + lesson
    IN  IF moved < 0 THEN 0 ELSE IF moved > 10000 THEN 10000 ELSE moved

\* run_decision_engine.
Engine(baseline, current, lesson) ==
    LET signals == Signals(baseline, current)
        risks == Risks(signals)
        confidence == Confidence(baseline, current, risks)
        class == Class(signals, confidence)
        strategy == StrategyFor(OpportunityFor(signals), risks)
        found == [NoDecision EXCEPT !.status = "completed", !.class = class,
                                    !.signals = signals \cup risks,
                                    !.queued = class = "INVESTIGATE"]
    IN  IF ~PassesGate(baseline, current)
        THEN [NoDecision EXCEPT !.status = "rejected_data_quality", !.class = "REJECT"]
        ELSE IF ~Qualified(class, signals) THEN found
        ELSE [found EXCEPT !.strategy = strategy, !.action = ActionOf(strategy),
                           !.priority = Adjusted(Priority(strategy, Impressions(current), confidence),
                                                 lesson)]

\* run_decision_pipeline: totals of the query above the page's are refused.
Decided(baseline, current, lesson) ==
    IF 0 \in {Reconciliation(current)[1], Reconciliation(current)[2]}
    THEN [NoDecision EXCEPT !.status = "rejected_reconciliation", !.class = "REJECT"]
    ELSE Engine(baseline, current, lesson)

Decide ==
    /\ at = "decide"
    /\ \E lesson \in Lessons : decision' = Decided(Baseline, Current, lesson)
    /\ at' = "decided"
    /\ UNCHANGED <<google, responses, revisions>>

Next == Ask \/ Fetch \/ FetchFails \/ Revise \/ Check \/ Decide

Spec == Init /\ [][Next]_vars
------------------------------------------------------------------------
(* Every variable keeps its type. *)
TypeOK ==
    /\ google \in [{"baseline", "current"} -> Windows]
    /\ Len(responses) <= 4 /\ at \in {"asked", "fetch", "check", "decide", "decided", "refused"}
    /\ decision.priority \in Scores /\ revisions \in 0..MaxRevisions

(* A recommendation that would change the site rests on days that were seen, *)
(* in four answers that agree: no more than one day in five is missing, no   *)
(* day has more of the query than of its page. A new title is called for     *)
(* only when the clicks fell faster than the impressions, and never while a  *)
(* decline in position may be noise; links or content only when the clicks   *)
(* held; and nothing is written without being asked, however well learning   *)
(* speaks of it (run_decision_pipeline, run_decision_engine, build_action).  *)
RecommendationIsGrounded ==
    LET type == decision.action.type
    IN  type # None =>
           /\ decision.queued
           /\ \A window \in {Baseline, Current} :
                 /\ 5 * Cardinality({d \in 1..Length : window[d].impressions = 0}) <= Length
                 /\ \A d \in 1..Length : /\ window[d].impressions <= window[d].pageImpressions
                                         /\ window[d].clicks <= window[d].pageClicks
           /\ type = "optimize_title" =>
                 /\ Clicks(Current) * Impressions(Baseline) < Clicks(Baseline) * Impressions(Current)
                 /\ Volatile(Current) => Position2(Current) - Position2(Baseline) < 30
           /\ type \in {"improve_internal_linking", "improve_content_depth"} =>
                 Clicks(Baseline) = 0 \/ ~CtrFell(Baseline, Current, 2)
           /\ type = "improve_internal_linking" =>
                 Position2(Current) > Position2(Baseline) /\ ~Volatile(Current)
           /\ type \notin {"monitor", "investigate_cannibalization"} =>
                 decision.action.status = "awaiting_approval"
=========================================================================
