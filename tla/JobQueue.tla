------------------------------ MODULE JobQueue ------------------------------
(***************************************************************************)
(* The durable job queue and its single worker: app/models/jobs.py,        *)
(* app/jobs/store.py, app/jobs/scheduler.py, app/runtime/worker.py,        *)
(* app/runtime/lease.py and the two job endpoints of app/api/app.py.       *)
(*                                                                         *)
(* A job is one record of the versioned record store.  JobStore.update is  *)
(* two database steps, and both are modelled: it reads the stored version  *)
(* and then replaces that version with the caller's copy.  It never asks   *)
(* which version the caller's copy came from.                              *)
(*                                                                         *)
(* Left out: payloads, results, error texts and clocks.  created_at is     *)
(* kept as the order of creation.  The lease is the PostgreSQL session     *)
(* that holds the advisory lock.                                           *)
(***************************************************************************)
EXTENDS Naturals, FiniteSets

CONSTANTS
    Jobs,            \* job identifiers
    Procs,           \* server processes that may run the embedded worker
    Cancellers,      \* API requests that cancel a job
    MaxAttempts,     \* Job.max_attempts, the same for every job
    MaxRestarts,     \* bound: how often processes are stopped or die
    MaxLeaseLosses,  \* bound: how often the lock's database session is lost
    NoProc, NoJob    \* model values outside Procs and Jobs

ASSUME JobsAssumption == IsFiniteSet(Jobs)
ASSUME MaxAttemptsAssumption == MaxAttempts \in 1..10
ASSUME BoundsAssumption == MaxRestarts \in Nat /\ MaxLeaseLosses \in Nat
ASSUME NoProcAssumption == NoProc \notin Procs /\ NoJob \notin Jobs

VARIABLES
    store,      \* job -> the payload of its newest version
    version,    \* job -> the number of that version, 0 before it is created
    createdAt,  \* job -> its place in the order of creation, 0 before
    lease,      \* the process whose session holds the advisory lock
    pc,         \* process -> where its worker thread is
    held,       \* process -> the job the thread works on
    copy,       \* process -> the payload it will save
    seen,       \* process -> the version its update has read
    todo,       \* process -> RUNNING records a recovery still has to save
    req,        \* canceller -> [at, job, copy, seen], an API request on its way
    runs,       \* job -> how often a handler was called for it
    restarts, losses

workerVars == <<lease, pc, held, copy, seen, todo>>
budgets == <<restarts, losses>>
vars == <<store, version, createdAt, workerVars, req, runs, budgets>>

Final == {"completed", "failed", "cancelled"}
JobStatus == {"absent", "queued", "running"} \cup Final
Payload == [status: JobStatus, attempts: 0..MaxAttempts]
Absent == [status |-> "absent", attempts |-> 0]

\* Where a worker thread can be; "off": its process is down, "dead": the
\* process is up but its thread has ended with an exception.
Up == {"recover", "fixGet", "fixPut", "poll", "claimGet", "claimPut",
       "handle", "doneGet", "donePut"}
Holding == Up \ {"recover", "fixGet", "poll"}
Places == Up \cup {"off", "dead"}

(***************************************************************************)
(* The Job transitions (app/models/jobs.py).                               *)
(***************************************************************************)
TransitionRunning(job) ==
    [status |-> "running", attempts |-> job.attempts + 1]
\* Faulty variant: the attempt is counted again at its end.
CompleteCounting(job) == [job EXCEPT !.status = "completed", !.attempts = @ + 1]
Complete(job) == [job EXCEPT !.status = "completed"]
\* Faulty variants: one attempt too many; a retry that gives its attempt back.
RetryOnceMore(job) ==
    [job EXCEPT !.status = IF job.attempts <= MaxAttempts THEN "queued" ELSE "failed"]
RetryForFree(job) ==
    [job EXCEPT !.status = IF job.attempts < MaxAttempts THEN "queued" ELSE "failed",
                !.attempts = @ - 1]
RetryOrFail(job) ==
    [job EXCEPT !.status = IF job.attempts < MaxAttempts THEN "queued"
                                                         ELSE "failed"]
Cancelled(job) == [job EXCEPT !.status = "cancelled"]

NoRequest == [at |-> "idle", job |-> NoJob, copy |-> Absent, seen |-> 0]

Queued(j) == store[j].status = "queued"
Oldest(j) == Queued(j) /\ \A k \in Jobs : Queued(k) => createdAt[j] <= createdAt[k]

\* Repository.replace: the new payload is stored only over the version read.
Replaced(j, payload) ==
    /\ store' = [store EXCEPT ![j] = payload]
    /\ version' = [version EXCEPT ![j] = @ + 1]

Init ==
    /\ store = [j \in Jobs |-> Absent]
    /\ version = [j \in Jobs |-> 0]
    /\ createdAt = [j \in Jobs |-> 0]
    /\ lease = NoProc
    /\ pc = [p \in Procs |-> "off"]
    /\ held = [p \in Procs |-> NoJob]
    /\ copy = [p \in Procs |-> Absent]
    /\ seen = [p \in Procs |-> 0]
    /\ todo = [p \in Procs |-> {}]
    /\ req = [c \in Cancellers |-> NoRequest]
    /\ runs = [j \in Jobs |-> 0]
    /\ restarts = 0
    /\ losses = 0

-----------------------------------------------------------------------------
(***************************************************************************)
(* The API.                                                                *)
(***************************************************************************)

\* create_job, and every endpoint that creates a job with its decision.
CreateJob(j) ==
    /\ store[j].status = "absent"
    /\ store' = [store EXCEPT ![j] = [status |-> "queued", attempts |-> 0]]
    /\ version' = [version EXCEPT ![j] = 1]
    /\ createdAt' = [createdAt EXCEPT
            ![j] = Cardinality({k \in Jobs : createdAt[k] > 0}) + 1]
    /\ UNCHANGED <<workerVars, req, runs, budgets>>

\* cancel_job reads the job and Job.cancel checks the status of that copy.
CancelRead(c, j) ==
    /\ req[c].at = "idle"
    /\ Queued(j)
    /\ req' = [req EXCEPT ![c] =
            [at |-> "get", job |-> j, copy |-> Cancelled(store[j]), seen |-> 0]]
    /\ UNCHANGED <<store, version, createdAt, workerVars, runs, budgets>>

\* JobStore.update, first half: the version to replace.
CancelGet(c) ==
    /\ req[c].at = "get"
    /\ req' = [req EXCEPT ![c].at = "put", ![c].seen = version[req[c].job]]
    /\ UNCHANGED <<store, version, createdAt, workerVars, runs, budgets>>

\* JobStore.update, second half; a conflict is answered 409.
CancelPut(c) ==
    LET j == req[c].job IN
    /\ req[c].at = "put"
    /\ IF version[j] = req[c].seen
       THEN Replaced(j, req[c].copy)
       ELSE UNCHANGED <<store, version>>
    /\ req' = [req EXCEPT ![c] = NoRequest]
    /\ UNCHANGED <<createdAt, workerVars, runs, budgets>>

-----------------------------------------------------------------------------
(***************************************************************************)
(* The worker thread.                                                      *)
(***************************************************************************)
At(p, place) == pc[p] = place
Goto(p, place) == pc' = [pc EXCEPT ![p] = place]
Released(p) == IF lease = p THEN NoProc ELSE lease

\* An exception that leaves run_forever: WorkerHandle._run keeps its type,
\* gives the lease back and the thread ends.  Nothing starts another one.
Die(p) ==
    /\ Goto(p, "dead")
    /\ lease' = Released(p)
    /\ held' = [held EXCEPT ![p] = NoJob]
    /\ todo' = [todo EXCEPT ![p] = {}]

\* Faulty variant: the answer of pg_try_advisory_lock is not looked at.
StartAnyway(p) ==
    /\ At(p, "off")
    /\ lease' = p
    /\ Goto(p, "recover")
    /\ UNCHANGED <<store, version, createdAt, held, copy, seen, todo, req, runs, budgets>>

\* WorkerHandle.start: the lease first, then the thread.  A process that
\* does not get the lease does not start.
Start(p) ==
    /\ At(p, "off")
    /\ lease = NoProc
    /\ lease' = p
    /\ Goto(p, "recover")
    /\ UNCHANGED <<store, version, createdAt, held, copy, seen, todo, req, runs, budgets>>

\* Faulty variant: jobs on their last attempt are not recovered.
RecoverRetriable(p) ==
    /\ At(p, "recover")
    /\ todo' = [todo EXCEPT ![p] =
            {<<j, store[j]>> : j \in {k \in Jobs : /\ store[k].status = "running"
                                                   /\ store[k].attempts < MaxAttempts}}]
    /\ Goto(p, "fixGet")
    /\ UNCHANGED <<store, version, createdAt, lease, held, copy, seen, req, runs, budgets>>

\* recover_running_jobs lists the records once ...
RecoverScan(p) ==
    /\ At(p, "recover")
    /\ todo' = [todo EXCEPT ![p] =
            {<<j, store[j]>> : j \in {k \in Jobs : store[k].status = "running"}}]
    /\ Goto(p, "fixGet")
    /\ UNCHANGED <<store, version, createdAt, lease, held, copy, seen, req, runs, budgets>>

\* ... and requeues or fails each one it found RUNNING with update.
RecoverGet(p) ==
    /\ At(p, "fixGet")
    /\ \/ /\ todo[p] = {}
          /\ Goto(p, "poll")
          /\ UNCHANGED <<held, copy, seen, todo>>
       \/ \E item \in todo[p] :
            /\ held' = [held EXCEPT ![p] = item[1]]
            /\ copy' = [copy EXCEPT ![p] = RetryOrFail(item[2])]
            /\ seen' = [seen EXCEPT ![p] = version[item[1]]]
            /\ todo' = [todo EXCEPT ![p] = @ \ {item}]
            /\ Goto(p, "fixPut")
    /\ UNCHANGED <<store, version, createdAt, lease, req, runs, budgets>>

\* The second half of an update made by the thread: on a conflict the
\* exception ends it, because no update of run_once is inside its try.
Put(p, next) ==
    \/ /\ version[held[p]] = seen[p]
       /\ Replaced(held[p], copy[p])
       /\ Goto(p, next)
       /\ held' = [held EXCEPT ![p] = IF next = "handle" THEN held[p] ELSE NoJob]
       /\ UNCHANGED <<lease, todo>>
    \/ /\ version[held[p]] # seen[p]
       /\ Die(p)
       /\ UNCHANGED <<store, version>>

RecoverPut(p) ==
    /\ At(p, "fixPut")
    /\ Put(p, "fixGet")
    /\ UNCHANGED <<createdAt, copy, seen, req, runs, budgets>>

\* run_once picks the oldest queued job; transition_running raises, outside
\* the try, for a job that has no attempt left.
Poll(p) ==
    /\ At(p, "poll")
    /\ \E j \in Jobs :
         /\ Oldest(j)
         /\ \/ /\ store[j].attempts < MaxAttempts
               /\ held' = [held EXCEPT ![p] = j]
               /\ copy' = [copy EXCEPT ![p] = TransitionRunning(store[j])]
               /\ Goto(p, "claimGet")
               /\ UNCHANGED <<lease, todo>>
            \/ /\ store[j].attempts >= MaxAttempts
               /\ Die(p)
               /\ UNCHANGED copy
    /\ UNCHANGED <<store, version, createdAt, seen, req, runs, budgets>>

\* The first half of the two updates of run_once.
Get(p, from, to) ==
    /\ At(p, from)
    /\ seen' = [seen EXCEPT ![p] = version[held[p]]]
    /\ Goto(p, to)
    /\ UNCHANGED <<store, version, createdAt, lease, held, copy, todo, req, runs, budgets>>

ClaimGet(p) == Get(p, "claimGet", "claimPut")
\* Faulty variant: the version read for the claim is used for the result too.
DoneFromClaim(p) ==
    /\ At(p, "doneGet")
    /\ Goto(p, "donePut")
    /\ UNCHANGED <<store, version, createdAt, lease, held, copy, seen, todo, req, runs, budgets>>
DoneGet(p) == Get(p, "doneGet", "donePut")

ClaimPut(p) ==
    /\ At(p, "claimPut")
    /\ Put(p, "handle")
    /\ UNCHANGED <<createdAt, copy, seen, req, runs, budgets>>

\* The handler: it returns, or whatever it raises is caught and the attempt
\* is retried or failed.
Handle(p) ==
    /\ At(p, "handle")
    /\ runs' = [runs EXCEPT ![held[p]] = @ + 1]
    /\ \E outcome \in {Complete(copy[p]), RetryOrFail(copy[p])} :
            copy' = [copy EXCEPT ![p] = outcome]
    /\ Goto(p, "doneGet")
    /\ UNCHANGED <<store, version, createdAt, lease, held, seen, todo, req, budgets>>

DonePut(p) ==
    /\ At(p, "donePut")
    /\ Put(p, "poll")
    /\ UNCHANGED <<createdAt, copy, seen, req, runs, budgets>>

\* WorkerHandle.stop: the loop sees the stop event between two jobs, and the
\* process leaves.
Stop(p) ==
    /\ At(p, "poll")
    /\ restarts < MaxRestarts
    /\ restarts' = restarts + 1
    /\ Goto(p, "off")
    /\ lease' = Released(p)
    /\ UNCHANGED <<store, version, createdAt, held, copy, seen, todo, req, runs, losses>>

-----------------------------------------------------------------------------
(***************************************************************************)
(* The environment.                                                        *)
(***************************************************************************)

\* The process dies wherever it is; its session ends and with it the lock.
\* It is also what an operator's restart does to a process whose thread died.
Crash(p) ==
    /\ ~At(p, "off")
    /\ restarts < MaxRestarts
    /\ restarts' = restarts + 1
    /\ Goto(p, "off")
    /\ lease' = Released(p)
    /\ held' = [held EXCEPT ![p] = NoJob]
    /\ todo' = [todo EXCEPT ![p] = {}]
    /\ UNCHANGED <<store, version, createdAt, copy, seen, req, runs, losses>>

\* The session that holds the lock ends while the thread goes on: the lease
\* is taken once and never looked at again.
LoseSession ==
    /\ lease # NoProc
    /\ losses < MaxLeaseLosses
    /\ losses' = losses + 1
    /\ lease' = NoProc
    /\ UNCHANGED <<store, version, createdAt, pc, held, copy, seen, todo, req, runs, restarts>>

WorkerStep(p) ==
    \/ RecoverScan(p) \/ RecoverGet(p) \/ RecoverPut(p)
    \/ Poll(p) \/ ClaimGet(p) \/ ClaimPut(p)
    \/ Handle(p) \/ DoneGet(p) \/ DonePut(p)

Next ==
    \/ \E j \in Jobs : CreateJob(j)
    \/ \E c \in Cancellers :
          (\E j \in Jobs : CancelRead(c, j)) \/ CancelGet(c) \/ CancelPut(c)
    \/ \E p \in Procs : Start(p) \/ WorkerStep(p) \/ Stop(p) \/ Crash(p)
    \/ LoseSession

Spec == Init /\ [][Next]_vars

\* The thread runs whenever it can, and a stopped process is started again
\* (systemd, deploy/seoagent.service).  Requests may stall for ever.
Fairness == \A p \in Procs : WF_vars(WorkerStep(p)) /\ WF_vars(Start(p))
FairSpec == Spec /\ Fairness
-----------------------------------------------------------------------------
(***************************************************************************)
(* Properties.                                                             *)
(***************************************************************************)

\* Every variable keeps its type, and a thread or a request that works on a
\* job names it.
TypeOK ==
    /\ store \in [Jobs -> Payload]
    /\ version \in [Jobs -> Nat]
    /\ createdAt \in [Jobs -> Nat]
    /\ lease \in Procs \cup {NoProc}
    /\ pc \in [Procs -> Places]
    /\ held \in [Procs -> Jobs \cup {NoJob}]
    /\ \A p \in Procs : pc[p] \in Holding => held[p] \in Jobs
    /\ copy \in [Procs -> Payload]
    /\ seen \in [Procs -> Nat]
    /\ todo \in [Procs -> SUBSET (Jobs \X Payload)]
    /\ req \in [Cancellers -> [at : {"idle", "get", "put"}, job : Jobs \cup {NoJob},
                               copy : Payload, seen : Nat]]
    /\ \A c \in Cancellers : req[c].at # "idle" => req[c].job \in Jobs
    /\ runs \in [Jobs -> Nat]
    /\ restarts \in Nat
    /\ losses \in Nat

\* However crashes, recoveries, retries and late cancellations interleave, a
\* handler is called at most max_attempts times for a job: the attempt is
\* stored before the handler runs, and no writer stores a queued or running
\* job with fewer attempts than were made.
RunsBounded == \A j \in Jobs : runs[j] <= MaxAttempts

\* Two threads never run jobs at once: the advisory lock is taken before the
\* thread starts and given back after it ends.
OneWorker == \A p, q \in Procs : (pc[p] \in Up /\ pc[q] \in Up) => p = q

\* A queued job can always be started: transition_running raises for one
\* without attempts left, outside run_once's try, which would end the worker
\* at every start.
QueuedCanStart == \A j \in Jobs : Queued(j) => store[j].attempts < MaxAttempts

\* When the worker looks for work no job is RUNNING: recovery has dealt with
\* every one a crash left behind, and each finished one has been saved.
NoOrphanWhenPolling ==
    \A p \in Procs : pc[p] = "poll" => \A j \in Jobs : store[j].status # "running"

\* No update of run_once or of recovery is inside a try (scheduler.py:81-110),
\* so a conflict ends the thread of a process that stays up.  Only one thing
\* causes it: a cancellation that was saved between the two halves of an
\* update.  No crash, recovery or second server ever does.
WorkerSurvives ==
    (\E p \in Procs : pc[p] = "dead") => \E j \in Jobs : store[j].status = "cancelled"

\* Job.cancel: "Only queued jobs can be cancelled." (app/models/jobs.py:96)
OnlyQueuedCancelled ==
    [][\A j \in Jobs :
          (store'[j].status = "cancelled" /\ store[j].status # "cancelled")
             => Queued(j)]_vars

\* A queued job comes to an end: it completes, fails or is cancelled, unless
\* the worker thread has ended.
JobEnds ==
    \A j \in Jobs :
        Queued(j) ~> (store[j].status \in Final \/ \E p \in Procs : pc[p] = "dead")
=============================================================================
