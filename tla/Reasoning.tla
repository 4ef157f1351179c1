---------------------------- MODULE Reasoning ----------------------------
(***************************************************************************)
(* One title proposal (app/title, app/serp, app/reasoning): what Google's  *)
(* results let be decided, the providers asked one after another with      *)
(* retries, what of the answer is accepted and which title is proposed;    *)
(* and the telemetry, which is what the calls are paid by.                 *)
(***************************************************************************)
EXTENDS Naturals, Sequences, FiniteSets, FiniteSetsExt

CONSTANTS
    Providers,               \* a sequence: the enabled ones, in their order
    MAX_RETRIES,             \* of a provider's transport
    MAX_SWITCHES,            \* of the fallback policy
    Fallback,                \* fallback_failure_types
    MIN_COMPETITOR_EVIDENCE,
    Titles, Current,         \* titles the model may write; the page's
    Competitors,             \* of Titles: those Google's results show
    OffQuery,                \* of Titles: those without the query's words
    Ids, MaxCandidates, MaxConfidence

VARIABLES
    at,                      \* the step the workflow is at
    found,                   \* what the page and Google's results say
    provider, tries,         \* the place in Providers, the attempts there
    switches, attempts,      \* of the ReasoningExecutionContext
    failure,                 \* of the last attempt
    attempt_log, call_log,   \* AttemptTelemetryRecorder, TelemetryRecorder
    last_provider,           \* last_provider_id: 0 for None
    answer,                  \* the candidates the model gave
    proposal

context == <<switches, attempts>>
telemetry == <<attempt_log, call_log>>
vars == <<at, found, provider, tries, context, failure, telemetry, last_provider, answer, proposal>>
------------------------------------------------------------------------
LLMFailureType == {"transport", "timeout", "rate_limit", "authentication",
                   "invalid_json", "invalid_schema", "empty_output", "none"}

Candidate == [id : Ids, title : Titles, confidence : 0..MaxConfidence]

\* ArvanTransport.complete and the parsing of what it gives: the failures, and
\* whether the same provider is asked again. "http" is another 4xx.
Failures ==
    {[type |-> t, retryable |-> TRUE] : t \in {"transport", "timeout", "rate_limit"}} \cup
    {[type |-> t, retryable |-> FALSE] :
        t \in {"transport", "authentication", "invalid_json", "invalid_schema", "empty_output"}}

NoProposal == [status |-> "none", title |-> Current, provider |-> 0]

Init ==
    /\ at = "search"
    /\ found \in [target : BOOLEAN, chosen_word : BOOLEAN, page_title : BOOLEAN,
                  competitors : 0..MIN_COMPETITOR_EVIDENCE]
    /\ provider = 0 /\ tries = 0 /\ switches = 0 /\ attempts = 0
    /\ failure = "none" /\ attempt_log = <<>> /\ call_log = <<>> /\ last_provider = 0
    /\ answer = <<>>
    /\ proposal = NoProposal

\* build_serp_decision: the target is in the results, unless the customer chose the
\* word; the page has a title; there are enough competitors.
SERPDecision ==
    IF /\ found.target \/ found.chosen_word
       /\ found.page_title
       /\ found.competitors >= MIN_COMPETITOR_EVIDENCE
    THEN "pass" ELSE "investigate"

\* A source that does not answer gives no results.
Search ==
    /\ at = "search"
    /\ \/ UNCHANGED found
       \/ found' = [found EXCEPT !.target = FALSE, !.competitors = 0]
    /\ at' = "decide"
    /\ UNCHANGED <<provider, tries, context, failure, telemetry, last_provider, answer, proposal>>

Propose(status, title, by) ==
    /\ proposal' = [status |-> status, title |-> title, provider |-> by]
    /\ at' = "stored"

Decide ==
    /\ at = "decide"
    /\ IF SERPDecision = "pass"
       THEN at' = "ask" /\ provider' = 1 /\ UNCHANGED proposal
       ELSE Propose("blocked", Current, 0) /\ UNCHANGED provider
    /\ UNCHANGED <<found, tries, context, failure, telemetry, last_provider, answer>>

\* StructuredTitleReasoner: every attempt is logged, whatever it gives.
Logged(status) ==
    Append(attempt_log, [provider |-> provider, number |-> attempts + 1, switch |-> switches, status |-> status])

Call(status) ==
    Append(call_log, [provider |-> provider, attempts |-> attempts + 1, switches |-> switches, status |-> status])

Succeed ==
    /\ at = "ask"
    /\ answer' \in UNION {[1..n -> Candidate] : n \in 0..MaxCandidates}
    /\ attempts' = attempts + 1
    /\ attempt_log' = Logged("success") /\ call_log' = Call("success")
    /\ last_provider' = provider
    /\ at' = "select"
    /\ UNCHANGED <<found, provider, tries, switches, failure, proposal>>

\* Asked again after a pause, while it may be.
MayRetry(f) == f.retryable /\ tries < MAX_RETRIES

\* ReasoningRouter: the next provider, for the failures and as often as the policy says.
MaySwitch(f) == f.type \in Fallback /\ switches < MAX_SWITCHES /\ provider < Len(Providers)

\* select_provider counts a switch only to another provider.
Switched == IF Providers[provider + 1] # Providers[provider] THEN switches + 1 ELSE switches

Attempt(f) ==
    /\ at = "ask"
    /\ attempts' = attempts + 1
    /\ attempt_log' = Logged("failed")
    /\ failure' = f.type
    /\ UNCHANGED <<found, last_provider, answer>>

Retry ==
    \E f \in Failures :
        /\ MayRetry(f) /\ Attempt(f)
        /\ tries' = tries + 1
        /\ UNCHANGED <<at, provider, switches, call_log, proposal>>

SwitchProvider ==
    \E f \in Failures :
        /\ ~MayRetry(f) /\ MaySwitch(f) /\ Attempt(f)
        /\ provider' = provider + 1 /\ tries' = 0
        /\ switches' = Switched
        /\ UNCHANGED <<at, call_log, proposal>>

GiveUp ==
    \E f \in Failures :
        /\ ~MayRetry(f) /\ ~MaySwitch(f) /\ Attempt(f)
        /\ call_log' = Call("failed")
        /\ Propose("failed", Current, last_provider)
        /\ UNCHANGED <<provider, tries, switches>>

\* validate_title_candidate.
Valid(title) == title # Current /\ title \notin Competitors /\ title \notin OffQuery

\* generate_title_reasoning: the candidates that are accepted, and the most confident
\* of them, the first of equals.
Accepted == {i \in DOMAIN answer : Valid(answer[i].title)}
Selected ==
    CHOOSE i \in Accepted :
        \A j \in Accepted :
            \/ answer[j].confidence < answer[i].confidence
            \/ answer[j].confidence = answer[i].confidence /\ j >= i

\* The workflow finds it again by its id: the first that has it.
ById(id) == Min({i \in Accepted : answer[i].id = id})

Select ==
    /\ at = "select"
    /\ IF Accepted = {}
       THEN Propose("failed", Current, last_provider)
       ELSE Propose("completed", answer[ById(answer[Selected].id)].title, last_provider)
    /\ UNCHANGED <<found, provider, tries, context, failure, telemetry, last_provider, answer>>

Next == Search \/ Decide \/ Succeed \/ Retry \/ SwitchProvider \/ GiveUp \/ Select

Spec == Init /\ [][Next]_vars
------------------------------------------------------------------------
(* Every variable keeps its type. *)
TypeOK ==
    /\ at \in {"search", "decide", "ask", "select", "stored"}
    /\ provider \in 0..Len(Providers) /\ last_provider \in 0..Len(Providers)
    /\ tries \in 0..MAX_RETRIES /\ failure \in LLMFailureType
    /\ proposal.status \in {"none", "blocked", "failed", "completed"}

LastAttempt == attempt_log[Len(attempt_log)]

(* A title is proposed only on evidence: Google's results passed, and it is  *)
(* one the model gave that copies neither the page nor a competitor and has  *)
(* the query's words; and it is credited to the provider that answered       *)
(* (run_title_reasoning_orchestration, last_provider_id).                    *)
(* What it cost is known: each attempt is logged once, with its number, and  *)
(* the call once, with all its attempts and switches, whichever way it ended;*)
(* and however the providers fail, the attempts are bounded by the policy.   *)
ProposalIsAccounted ==
    at = "stored" =>
        /\ proposal.status = "completed" =>
              /\ SERPDecision = "pass" /\ Valid(proposal.title)
              /\ \E i \in DOMAIN answer : answer[i].title = proposal.title
              /\ LastAttempt.status = "success" /\ LastAttempt.provider = proposal.provider
        /\ Len(call_log) = IF SERPDecision = "pass" THEN 1 ELSE 0
        /\ \A c \in {call_log[i] : i \in DOMAIN call_log} :
              /\ c.attempts = Len(attempt_log)
              /\ c.switches = Cardinality({attempt_log[i].switch : i \in DOMAIN attempt_log}) - 1
              /\ c.status = LastAttempt.status
        /\ \A i \in DOMAIN attempt_log : attempt_log[i].number = i
        /\ Len(attempt_log) <= (MAX_SWITCHES + 1) * (MAX_RETRIES + 1)
=========================================================================
