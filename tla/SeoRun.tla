----------------------------- MODULE SeoRun -----------------------------
(***************************************************************************)
(* From a run to a proposal the customer decides (app/runs, app/title,     *)
(* app/targets, app/descriptions): the deliveries of its job may fail or   *)
(* be cut off at any step, and each search and each answer of the model is *)
(* paid for.                                                               *)
(***************************************************************************)
EXTENDS Naturals

CONSTANTS
    Runs,
    Kind,            \* Kind[r]: what asked for it
    Attempts,        \* Attempts[r]: of its job
    MaxFaults, MaxStops, MaxLooks    \* bounds

VARIABLES
    run,             \* run[r]: the status of its record
    job,             \* job[r]: its status and the attempts left
    proposal,        \* proposal[r]: the title proposal stored under the run's id
    action,          \* action[r]: the managed action under the run's id
    worker,          \* the run it works on, the step it is at, what it has found
    searches, answers,    \* paid for: searches of Google, answers of the model
    faults, stops

paid == <<searches, answers>>
vars == <<run, job, proposal, action, worker, paid, faults, stops>>
------------------------------------------------------------------------
RunKind == {"analysis", "target", "description"}
SEORunStatus == {"none", "queued", "running", "completed", "failed"}
TitleProposalStatus == {"none", "blocked", "failed", "completed"}
JobStatus == {"none", "queued", "running", "ended"}
Steps == {"idle", "analyse", "propose", "search", "model", "store", "queue", "complete", "end"}

Nobody == "no run"
Idle == [on |-> Nobody, at |-> "idle", outcome |-> "none"]

Init ==
    /\ run = [r \in Runs |-> "none"]
    /\ job = [r \in Runs |-> [status |-> "none", left |-> Attempts[r]]]
    /\ proposal = [r \in Runs |-> "none"]
    /\ action = [r \in Runs |-> "none"]
    /\ worker = Idle
    /\ searches = [r \in Runs |-> 0] /\ answers = [r \in Runs |-> 0]
    /\ faults = 0 /\ stops = 0

At(r, step) == worker.on = r /\ worker.at = step
Goto(step) == worker' = [worker EXCEPT !.at = step]
Found(step, outcome) == worker' = [worker EXCEPT !.at = step, !.outcome = outcome]

\* create_run, propose_title: the run and its job in one transaction. A description
\* has its job alone.
Create(r) ==
    /\ job[r].status = "none"
    /\ job' = [job EXCEPT ![r].status = "queued"]
    /\ run' = IF Kind[r] = "description" THEN run ELSE [run EXCEPT ![r] = "queued"]
    /\ UNCHANGED <<proposal, action, worker, paid, faults, stops>>

\* A run that is complete, a description that is proposed: delivered again for nothing.
NothingToDo(r) == IF Kind[r] = "description" THEN action[r] # "none" ELSE run[r] = "completed"

\* A run that failed or was cut off is started again from the beginning.
Deliver(r) ==
    /\ worker = Idle /\ job[r].status = "queued"
    /\ job' = [job EXCEPT ![r] = [status |-> "running", left |-> @.left - 1]]
    /\ IF NothingToDo(r)
       THEN /\ worker' = [Idle EXCEPT !.on = r, !.at = "end"]
            /\ UNCHANGED run
       ELSE /\ worker' = [Idle EXCEPT !.on = r, !.at =
                  CASE Kind[r] = "analysis" -> "analyse"
                    [] Kind[r] = "target" -> "propose"
                    [] Kind[r] = "description" -> "model"]
            /\ run' = IF Kind[r] = "description" THEN run ELSE [run EXCEPT ![r] = "running"]
    /\ UNCHANGED <<proposal, action, paid, faults, stops>>

\* The handler raised: the run is saved as failed, the job goes back in the queue
\* while it has attempts left.
JobOver(r) == [job EXCEPT ![r].status = IF @ = "running" /\ job[r].left > 0 THEN "queued" ELSE "ended"]

Raise(r) ==
    /\ run' = IF Kind[r] = "description" THEN run ELSE [run EXCEPT ![r] = "failed"]
    /\ job' = JobOver(r)
    /\ worker' = Idle
------------------------------------------------------------------------
\* SEORunService.run: no strategy, one about the title, or another, which the title
\* workflow refuses with an error.
Analyse(r) ==
    /\ At(r, "analyse")
    /\ \/ Goto("complete") /\ UNCHANGED <<run, job>>
       \/ Goto("propose") /\ UNCHANGED <<run, job>>
       \/ Raise(r)
    /\ UNCHANGED <<proposal, action, paid, faults, stops>>

\* For a target word, a proposal an earlier delivery has paid for is taken.
Propose(r) ==
    /\ At(r, "propose")
    /\ IF Kind[r] = "target" /\ proposal[r] # "none"
       THEN Found("queue", proposal[r])
       ELSE Goto("search")
    /\ UNCHANGED <<run, job, proposal, action, paid, faults, stops>>

\* The page is read, Google is searched: no answer, or one the decision does not
\* pass, is a blocked proposal.
Search(r) ==
    /\ At(r, "search")
    /\ searches[r] < MaxLooks
    /\ searches' = [searches EXCEPT ![r] = @ + 1]
    /\ Found("store", "blocked") \/ Goto("model")
    /\ UNCHANGED <<run, job, proposal, action, answers, faults, stops>>

\* A usable answer, or none.
AskModel(r) ==
    /\ At(r, "model")
    /\ answers[r] < MaxLooks
    /\ answers' = [answers EXCEPT ![r] = @ + 1]
    /\ IF Kind[r] = "description"
       THEN Found("queue", "completed") \/ Goto("end")
       ELSE Found("store", "completed") \/ Found("store", "failed")
    /\ UNCHANGED <<run, job, proposal, action, searches, faults, stops>>

\* TitleProposalStore.create: its first version, or an error if there is one.
StoreProposal(r) ==
    /\ At(r, "store")
    /\ IF proposal[r] = "none"
       THEN /\ proposal' = [proposal EXCEPT ![r] = worker.outcome]
            /\ Goto("queue")
            /\ UNCHANGED <<run, job>>
       ELSE Raise(r) /\ UNCHANGED proposal
    /\ UNCHANGED <<action, paid, faults, stops>>

\* _queue_for_approval: the action is found, or created.
QueueForApproval(r) ==
    /\ At(r, "queue")
    /\ action' = IF worker.outcome = "completed" /\ action[r] = "none"
                 THEN [action EXCEPT ![r] = "awaiting_approval"] ELSE action
    /\ Goto(IF Kind[r] = "description" THEN "end" ELSE "complete")
    /\ UNCHANGED <<run, job, proposal, paid, faults, stops>>

Complete(r) ==
    /\ At(r, "complete")
    /\ run' = [run EXCEPT ![r] = "completed"]
    /\ Goto("end")
    /\ UNCHANGED <<job, proposal, action, paid, faults, stops>>

End(r) ==
    /\ At(r, "end")
    /\ job' = [job EXCEPT ![r].status = "ended"]
    /\ worker' = Idle
    /\ UNCHANGED <<run, proposal, action, paid, faults, stops>>

\* A site without Search Console, a page that cannot be read, a store that does not
\* answer.
Fail(r) ==
    /\ worker.on = r /\ worker.at # "end"
    /\ faults < MaxFaults
    /\ faults' = faults + 1
    /\ Raise(r)
    /\ UNCHANGED <<proposal, action, paid, stops>>

\* The server stops: the run stays as it is, its job is recovered.
Stop ==
    /\ worker # Idle /\ stops < MaxStops
    /\ stops' = stops + 1
    /\ job' = JobOver(worker.on)
    /\ worker' = Idle
    /\ UNCHANGED <<run, proposal, action, paid, faults>>

\* The customer approves or rejects.
Decide(r) ==
    /\ action[r] = "awaiting_approval"
    /\ action' = [action EXCEPT ![r] = "decided"]
    /\ UNCHANGED <<run, job, proposal, worker, paid, faults, stops>>

Next ==
    \/ \E r \in Runs :
          \/ Create(r) \/ Deliver(r)
          \/ Analyse(r) \/ Propose(r) \/ Search(r) \/ AskModel(r) \/ StoreProposal(r)
          \/ QueueForApproval(r) \/ Complete(r) \/ End(r)
          \/ Fail(r) \/ Decide(r)
    \/ Stop

Spec == Init /\ [][Next]_vars
------------------------------------------------------------------------
(* Every variable keeps its type. *)
TypeOK ==
    /\ run \in [Runs -> SEORunStatus]
    /\ job \in [Runs -> [status : JobStatus, left : Nat]]
    /\ proposal \in [Runs -> TitleProposalStatus]
    /\ action \in [Runs -> {"none", "awaiting_approval", "decided"}]
    /\ worker \in [on : Runs \cup {Nobody}, at : Steps, outcome : TitleProposalStatus]
    /\ searches \in [Runs -> Nat] /\ answers \in [Runs -> Nat]
    /\ faults \in 0..MaxFaults /\ stops \in 0..MaxStops

(* A run that asked for a target word has told the customer what it found    *)
(* when it is complete: a finished proposal is in the inbox, and what is in  *)
(* the inbox has its proposal, whatever delivery stored which of them        *)
(* (target_title, existing_proposal, _queue_for_approval).                   *)
CompletedIsAnswered ==
    \A r \in Runs :
        /\ Kind[r] = "target" /\ run[r] = "completed" /\ proposal[r] = "completed" => action[r] # "none"
        /\ Kind[r] # "description" /\ action[r] # "none" => proposal[r] = "completed"

(* What a delivery has stored is not paid for again: a target word's         *)
(* proposal and a description are asked of Google and of the model only      *)
(* while they are not there, and no later delivery takes the customer's      *)
(* decision or the proposal back (existing_proposal, _queue_for_approval).   *)
PaidOnceStep ==
    \A r \in Runs :
       /\ proposal[r] # "none" => proposal'[r] = proposal[r]
       /\ action[r] = "decided" => action'[r] = "decided"
       /\ run[r] = "completed" => run'[r] = "completed"
       /\ \/ Kind[r] = "target" /\ proposal[r] # "none"
          \/ Kind[r] = "description" /\ action[r] # "none"
          => <<searches'[r], answers'[r]>> = <<searches[r], answers[r]>>

StoredIsNotPaidAgain == [][PaidOnceStep]_vars
=========================================================================
