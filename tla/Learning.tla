---------------------------- MODULE Learning ----------------------------
(***************************************************************************)
(* What settled changes teach (app/measurement/engine.py, app/outcome,     *)
(* app/learning): each change's two windows of days are summed up and      *)
(* compared, the outcome is decided by the change in CTR, a change made    *)
(* for one query leaves one feedback event, and the events of a tenant     *)
(* move the priority of its next title strategies.                         *)
(* Ratios are whole multiples of 1/PRECISION (10^6 in the code), rounded   *)
(* where the code rounds.                                                  *)
(***************************************************************************)
EXTENDS Integers, FiniteSets, FiniteSetsExt, Sequences

CONSTANTS
    Actions,
    Owner,            \* Owner[a]: the tenant of an action
    Changes,          \* what may have happened around a change: level, baseline, current
    None,
    PRECISION,        \* 10^6 in the code; a multiple of 10
    MIN_SAMPLES       \* events before anything is learned, at least one

VARIABLES
    change,           \* change[a]: the one its days show, fixed but unknown to the program
    outcome,          \* outcome[a]: action_outcome, None before it is settled
    feedback          \* feedback[a]: learning_feedback, None where there is none

vars == <<change, outcome, feedback>>
------------------------------------------------------------------------
DataStatus == {"observed", "expected_zero", "unknown"}
OutcomeStatus == {"success", "failure", "inconclusive"}

Init ==
    /\ change \in [Actions -> Changes]
    /\ outcome = [a \in Actions |-> None]
    /\ feedback = [a \in Actions |-> None]

\* round(part / whole) in whole numbers.
Round(part, whole) == (2 * part + whole) \div (2 * whole)

\* _window_summary: completeness counts the days that are known, and the sums
\* leave the unknown ones out.
Summary(days) ==
    LET known == {d \in DOMAIN days : days[d].status # "unknown"}
        impressions == MapThenSumSet(LAMBDA d : days[d].impressions, known)
        clicks == MapThenSumSet(LAMBDA d : days[d].clicks, known)
    IN  [completeness |-> Round(PRECISION * Cardinality(known), Len(days)),
         ctr |-> IF impressions = 0 THEN 0 ELSE Round(PRECISION * clicks, impressions)]

\* _relative_change.
Relative(baseline, current) ==
    IF baseline = 0 THEN None ELSE Round(PRECISION * (current - baseline), baseline)

\* measure_action: ready when both windows are at least 0.8 complete.
Measurement(c) ==
    LET baseline == Summary(c.baseline) current == Summary(c.current)
    IN  [ready |-> /\ 10 * baseline.completeness >= 8 * PRECISION
                   /\ 10 * current.completeness >= 8 * PRECISION,
         relative |-> Relative(baseline.ctr, current.ctr)]

\* _evaluate_primary_metric under the policy of POLICIES: 10% either way.
Improved(relative) == 10 * relative >= PRECISION
Regressed(relative) == 10 * relative < -PRECISION

\* evaluate_outcome: between the two, the change is within the noise band.
Outcome(measurement) ==
    LET relative == measurement.relative
        verdict(status, band) == [status |-> status, band |-> band, relative |-> relative]
    IN  IF ~measurement.ready \/ relative = None THEN verdict("inconclusive", FALSE)
        ELSE IF Regressed(relative) THEN verdict("failure", FALSE)
        ELSE IF Improved(relative) THEN verdict("success", FALSE)
        ELSE verdict("inconclusive", TRUE)

\* build_feedback_event; a page-level change has nothing to teach a query.
Feedback(a, found) == IF change[a].level = "page" THEN None ELSE found

\* MeasurementRunner.settle: the outcome and its feedback event, at once.
Settle(a) ==
    /\ outcome[a] = None
    /\ LET found == Outcome(Measurement(change[a])) IN
          /\ outcome' = [outcome EXCEPT ![a] = found]
          /\ feedback' = [feedback EXCEPT ![a] = Feedback(a, found)]
    /\ UNCHANGED change
------------------------------------------------------------------------
\* FeedbackStore.list_for_tenant.
Events(t) == {a \in Actions : Owner[a] = t /\ feedback[a] # None}

\* Faulty variant: a change within the noise band was not measured.
MeasuredVerdicts(t) == {a \in Events(t) : feedback[a].status \in {"success", "failure"}}

\* _measured: a verdict, or a change too small for one.
Measured(t) ==
    {a \in Events(t) : feedback[a].status \in {"success", "failure"} \/ feedback[a].band}

\* The share of the events that were measured, less while there are few.
Confidence(usable, total) ==
    [part |-> (IF usable < MIN_SAMPLES THEN usable ELSE MIN_SAMPLES) * usable,
     whole |-> MIN_SAMPLES * total]

\* _build_performance.
Performance(t) ==
    LET total == Cardinality(Events(t))
        usable == Cardinality(Measured(t))
    IN  [established |-> usable >= MIN_SAMPLES,
         total |-> total, usable |-> usable,
         sum |-> MapThenSumSet(LAMBDA a : feedback[a].relative, Measured(t)),
         confidence |-> Confidence(usable, total)]

\* _build_signal: CTR is better when it is higher (benefit_change).
Direction(p) ==
    CASE ~p.established -> "insufficient_sample"
      [] p.established /\ p.sum > 0 -> "positive"
      [] p.established /\ p.sum < 0 -> "negative"
      [] OTHER -> "neutral"

\* _find_matching_signal.
Eligible(p) ==
    /\ p.established /\ p.total >= MIN_SAMPLES
    /\ 2 * p.confidence.part >= p.confidence.whole

\* calculate_learning_adjustment: a quarter of the average change, by the
\* confidence, within 0.10 either way.
Adjustment(t) ==
    LET p == Performance(t)
        raw == Round(p.sum * p.confidence.part, 4 * p.usable * p.confidence.whole)
        most == PRECISION \div 10
    IN  IF Events(t) = {} \/ ~Eligible(p) \/ Direction(p) \notin {"positive", "negative"} THEN 0
        ELSE IF raw > most THEN most ELSE IF raw < -most THEN -most ELSE raw

Next == \E a \in Actions : Settle(a)

Spec == Init /\ [][Next]_vars
------------------------------------------------------------------------
(* Every variable keeps its type. *)
TypeOK ==
    /\ change \in [Actions -> Changes]
    /\ \A a \in Actions : /\ outcome[a] # None => outcome[a].status \in OutcomeStatus
                          /\ feedback[a] \in {None, outcome[a]}

\* What really happened, on the days known.
Known(days) == {d \in DOMAIN days : days[d].status # "unknown"}
Impressions(days) == MapThenSumSet(LAMBDA d : days[d].impressions, Known(days))
Clicks(days) == MapThenSumSet(LAMBDA d : days[d].clicks, Known(days))
Whole(c) ==
    /\ 5 * Cardinality(Known(c.baseline)) >= 4 * Len(c.baseline)
    /\ 5 * Cardinality(Known(c.current)) >= 4 * Len(c.current)
    /\ Clicks(c.baseline) > 0
\* Whether clicks per impression moved by at least so many percent: up, down.
Rose(c, percent) ==
    /\ Impressions(c.current) > 0
    /\ 100 * Clicks(c.current) * Impressions(c.baseline) >=
          (100 + percent) * Clicks(c.baseline) * Impressions(c.current)
Fell(c, percent) ==
    100 * Clicks(c.current) * Impressions(c.baseline) <=
        (100 - percent) * Clicks(c.baseline) * Impressions(c.current)
\* Whether the digits kept of the CTR before are enough to compare it by: with
\* six, one click in 8333 impressions.
Legible(c) == PRECISION * Clicks(c.baseline) >= 120 * Impressions(c.baseline)

(* A verdict is what the days show: none without both windows seen whole;    *)
(* success never where the CTR fell, nor failure where it rose, however few  *)
(* the clicks; and a move by a tenth, or by less, is one, give or take the   *)
(* percent that rounding may hide, where the CTR is not too small for its    *)
(* digits (measure_action, evaluate_outcome).                                *)
VerdictIsTrue ==
    \A a \in Actions : outcome[a] # None =>
        LET c == change[a] IN
        /\ outcome[a].status = "success" =>
              Whole(c) /\ ~Fell(c, 0) /\ (Legible(c) => Rose(c, 9))
        /\ outcome[a].status = "failure" =>
              Whole(c) /\ ~Rose(c, 0) /\ (Legible(c) => Fell(c, 9))
        /\ outcome[a].band =>
              Whole(c) /\ (Legible(c) => ~Rose(c, 11) /\ ~Fell(c, 11))

(* What was learned is true of the tenant's own changes: a priority moves at *)
(* most a tenth, only on enough of its changes for single queries with whole *)
(* windows and no fewer than were without, and up only if one of them rose,  *)
(* down only if one fell; in particular the many small changes count beside  *)
(* the few large ones (build_learning_context, calculate_learning_adjustment).*)
LessonIsTrue ==
    \A t \in {Owner[a] : a \in Actions} :
        LET own == {a \in Actions : Owner[a] = t /\ outcome[a] # None /\ change[a].level = "query"}
            whole == {a \in own : Whole(change[a])}
            adjustment == Adjustment(t)
        IN  adjustment # 0 =>
               /\ 10 * adjustment \in -PRECISION..PRECISION
               /\ Cardinality(whole) >= MIN_SAMPLES /\ 2 * Cardinality(whole) >= Cardinality(own)
               /\ adjustment > 0 => \E a \in whole : ~Fell(change[a], 0)
               /\ adjustment < 0 => \E a \in whole : ~Rose(change[a], 0)
               /\ {a \in whole : Legible(change[a])} \subseteq Measured(t)
=========================================================================
