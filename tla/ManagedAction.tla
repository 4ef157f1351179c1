--------------------------- MODULE ManagedAction ---------------------------
(***************************************************************************)
(* One proposed change to one page, from the pending decision to its       *)
(* outcome or its undoing: app/action (approval, executor, store),         *)
(* app/models/managed_action.py, the action endpoints of app/api/app.py,   *)
(* app/measurement/runner.py, and the customer's site behind the adapters  *)
(* of app/site_adapters.                                                   *)
(*                                                                         *)
(* Four kinds of actors touch the action, none of them holding a lock      *)
(* between its read and its write: API requests, the worker (one job at a  *)
(* time, see JobQueue), the measurement loop, and on the site the customer.*)
(*                                                                         *)
(* The stored history is append-only and every write appends at least one  *)
(* event of its own, so "the stored history is a prefix of the caller's"   *)
(* (ManagedActionStore.update) says exactly that nobody has written since  *)
(* the caller read.  fresh is the set of actors for whom that is so.  Of   *)
(* the history itself only what is decided from it is kept: asked, the     *)
(* value of rollback_pending.                                              *)
(*                                                                         *)
(* Left out: texts, notes, details, and errors other than their effect.    *)
(***************************************************************************)
EXTENDS Naturals, FiniteSets, ActionStatus

CONSTANTS
    Titles,        \* what the page's field can say
    Original,      \* what it says when the change is proposed
    Targets,       \* what a reviewer may approve instead of it
    Unknown,       \* no value: no override, nothing observed, nothing read
    Requests,      \* API requests that can be on their way at once
    Worker, Measurer,
    Kinds,         \* the kinds of site connection to consider
    MaxAttempts,   \* max_attempts of an action's jobs: 3 in the code
    MaxJobs,       \* bound: jobs created for the action
    MaxFaults,     \* bound: site or database calls that fail
    MaxCrashes,    \* bound: how often the server dies
    MaxEdits       \* bound: changes to the page by others

ASSUME TitlesAssumption ==
    /\ Original \in Titles
    /\ Targets \subseteq Titles \ {Original}
    /\ Unknown \notin Titles
ASSUME ActorsAssumption ==
    Worker \notin Requests /\ Measurer \notin Requests /\ Worker # Measurer
ASSUME KindsAssumption == Kinds \subseteq {"exact", "rewriting", "manual"}
ASSUME BoundsAssumption ==
    /\ MaxAttempts \in Nat \ {0}
    /\ {MaxJobs, MaxFaults, MaxCrashes, MaxEdits} \subseteq Nat

VARIABLES
    act,       \* the stored action
    fresh,     \* actors whose copy extends the stored history
    jobs,      \* slot -> job, in order of creation
    w,         \* the worker: where it is, its job, its copy, the page it read
    req,       \* request -> the decision it is about to save
    m,         \* the measurement loop: "idle" or "settle"
    kind,      \* the site's connection: "exact" (the connector plugin),
               \*   "rewriting" (plain write-back) or "manual"
    site,      \* base: the site's own title; override, entry: the plugin's
    served,    \* the title in the HTML the public address serves (cache)
    written,   \* titles the system has written to the site
    lastBy,    \* who changed the site last: "system" or "customer"
    lessons,   \* feedback events recorded for the action
    faults, crashes, edits

siteVars == <<site, served, written, lastBy>>
budgets == <<faults, crashes, edits>>
vars == <<act, fresh, jobs, w, req, m, kind, siteVars, lessons, budgets>>

JobSlots == 1..MaxJobs
NoJob == [type |-> "none", status |-> "none", attempts |-> 0]
NoChange == [previous |-> Unknown, new |-> Unknown, id |-> FALSE]
NoEntry == [made |-> FALSE, previous |-> Unknown, new |-> Unknown, undone |-> FALSE]
Values == Titles \cup {Unknown}

Changes == [previous : Values, new : Values, id : BOOLEAN]
Actions == [status : ActionStatuses, target : Titles, observed : Values,
            applied : Changes, rolledBack : BOOLEAN, asked : BOOLEAN]

NoCopy == [status |-> "planned", target |-> Original, observed |-> Unknown,
           applied |-> NoChange, rolledBack |-> FALSE, asked |-> FALSE]
Resting == [at |-> "idle", job |-> 0, copy |-> NoCopy, page |-> Unknown]
NoRequest == [op |-> "none", target |-> Unknown]

\* propose_title_change: the pending decision; the page's value may not have
\* been captured.  The site is then as the proposal saw it.
Init ==
    /\ \E observed \in {Original, Unknown}, target \in Targets :
          act = [status |-> "awaiting_approval", target |-> target,
                 observed |-> observed, applied |-> NoChange,
                 rolledBack |-> FALSE, asked |-> FALSE]
    /\ fresh = {}
    /\ jobs = [n \in JobSlots |-> NoJob]
    /\ w = Resting
    /\ req = [r \in Requests |-> NoRequest]
    /\ m = "idle"
    /\ kind \in Kinds
    /\ site = [base |-> Original, override |-> Unknown, entry |-> NoEntry]
    /\ served = Original
    /\ written = {}
    /\ lastBy = "customer"
    /\ lessons = 0
    /\ faults = 0 /\ crashes = 0 /\ edits = 0

-----------------------------------------------------------------------------
(***************************************************************************)
(* The site.                                                               *)
(***************************************************************************)

\* What the site renders: the plugin's override hides the site's own title.
Shown(s) == IF s.override # Unknown THEN s.override ELSE s.base

\* What read_page returns as the page's title.  The REST adapters ask the
\* site; the others fetch the public page, which a cache may still serve.
OnPage == IF kind = "rewriting" THEN Shown(site) ELSE served

\* field.write with the key "action:<id>".  The plugin returns the change it
\* already made for the key; a plain write just happens (again).
WriteTarget(s, target) ==
    CASE kind = "exact" /\ s.entry.made -> s
      [] kind = "exact" /\ ~s.entry.made ->
            [s EXCEPT !.override = target,
                      !.entry = [made |-> TRUE, previous |-> s.override,
                                 new |-> target, undone |-> FALSE]]
      [] OTHER -> [s EXCEPT !.base = target]

\* The plugin's rollback of the change it made: done, or already done; it is
\* refused when the override is no longer the one the change set.
PluginRefuses(s) == ~s.entry.undone /\ s.override # s.entry.new
PluginUndo(s) ==
    IF s.entry.undone THEN s
    ELSE [s EXCEPT !.override = s.entry.previous, !.entry.undone = TRUE]

-----------------------------------------------------------------------------
(***************************************************************************)
(* The store: ManagedActionStore.update.                                   *)
(***************************************************************************)

\* Faulty variant: no check that the stored history is a prefix of the copy's.
SavedBlindly(actor, new) ==
    /\ act' = new
    /\ fresh' = {actor} \cap {Worker}

\* actor's update goes through and every other copy is stale; only the worker
\* goes on with the copy it saved.
Saved(actor, new) ==
    /\ actor \in fresh
    /\ act' = new
    /\ fresh' = {actor} \cap {Worker}

Moved(a, status) == [a EXCEPT !.status = status]

\* Job(...) of _action_job, in the next free slot.
NewJob(type) ==
    LET n == Cardinality({k \in JobSlots : jobs[k].type # "none"}) + 1 IN
    /\ n \in JobSlots
    /\ jobs' = [jobs EXCEPT ![n] = [type |-> type, status |-> "queued", attempts |-> 0]]

-----------------------------------------------------------------------------
(***************************************************************************)
(* API requests: each reads the action and checks it, then saves its       *)
(* decision together with the job that carries it out.                     *)
(***************************************************************************)

\* check_rollback
MayRollBack(a) ==
    /\ a.applied # NoChange
    /\ ~a.rolledBack
    /\ a.status \in RollbackableStatuses

\* Faulty variants: a rejection while the change is being made; an approval of
\* what was rejected.
MayRejectUnderWay(op) ==
    CASE op = "approve"  -> act.status = "awaiting_approval"
      [] op = "reject"   -> act.status \in {"awaiting_approval", "approved", "executing"}
      [] op = "applied"  -> kind = "manual" /\ act.status \in {"approved", "executed"}
      [] op = "rollback" -> MayRollBack(act)
MayApproveRejected(op) ==
    CASE op = "approve"  -> act.status \in {"awaiting_approval", "rejected"}
      [] op = "reject"   -> act.status \in {"awaiting_approval", "approved"}
      [] op = "applied"  -> kind = "manual" /\ act.status \in {"approved", "executed"}
      [] op = "rollback" -> MayRollBack(act)

MayRequest(op) ==
    CASE op = "approve"  -> act.status = "awaiting_approval"
      [] op = "reject"   -> act.status \in {"awaiting_approval", "approved"}
      [] op = "applied"  -> kind = "manual" /\ act.status \in {"approved", "executed"}
      [] op = "rollback" -> MayRollBack(act)

ReadForRequest(r, op, target) ==
    /\ req[r].op = "none"
    /\ MayRequest(op)
    /\ op # "approve" => target = act.target
    /\ req' = [req EXCEPT ![r] = [op |-> op, target |-> target]]
    /\ fresh' = fresh \cup {r}
    /\ UNCHANGED <<act, jobs, w, m, kind, siteVars, lessons, budgets>>

Decided(op, target) ==
    CASE op = "approve"  -> [act EXCEPT !.status = "approved", !.target = target]
      [] op = "reject"   -> Moved(act, "rejected")
      [] op = "applied"  -> act
      [] op = "rollback" -> [act EXCEPT !.asked = TRUE]

\* Faulty variant: the decision is saved and its job is not.
SaveDecisionAlone(r) ==
    /\ req[r].op # "none"
    /\ Saved(r, Decided(req[r].op, req[r].target))
    /\ req' = [req EXCEPT ![r] = NoRequest]
    /\ UNCHANGED <<jobs, w, m, kind, siteVars, lessons, budgets>>

\* _save_with_job, or update alone for a rejection; the request then ends.
SaveRequest(r) ==
    LET op == req[r].op IN
    /\ op # "none"
    /\ Saved(r, Decided(op, req[r].target))
    /\ CASE op \in {"approve", "applied"} -> NewJob("execute")
         [] op = "rollback"               -> NewJob("rollback")
         [] OTHER                         -> UNCHANGED jobs
    /\ req' = [req EXCEPT ![r] = NoRequest]
    /\ UNCHANGED <<w, m, kind, siteVars, lessons, budgets>>

\* ActionChangedError: 409, nothing saved, no job.
ConflictRequest(r) ==
    /\ req[r].op # "none"
    /\ r \notin fresh
    /\ req' = [req EXCEPT ![r] = NoRequest]
    /\ UNCHANGED <<act, fresh, jobs, w, m, kind, siteVars, lessons, budgets>>

-----------------------------------------------------------------------------
(***************************************************************************)
(* The worker: taking a job, ending it, errors and crashes.                *)
(***************************************************************************)
outsideWorker == <<req, m, kind, lessons>>
At(place) == w.at = place

\* The worker goes on to place with its copy; or with a new copy.
Goto(place) == w' = [w EXCEPT !.at = place]
GotoWith(place, copy) == w' = [w EXCEPT !.at = place, !.copy = copy]

JobStatus(n, status) == jobs' = [jobs EXCEPT ![n].status = status]
\* Faulty variant: one attempt too many.
RetryOnceMore(n) ==
    JobStatus(n, IF jobs[n].attempts <= MaxAttempts THEN "queued" ELSE "failed")

RetryOrFail(n) ==
    JobStatus(n, IF jobs[n].attempts < MaxAttempts THEN "queued" ELSE "failed")
Idle == w' = Resting

\* The oldest queued job starts an attempt; its handler loads the action.
TakeJob ==
    /\ At("idle")
    /\ \E n \in JobSlots :
         /\ jobs[n].status = "queued"
         /\ \A k \in JobSlots : jobs[k].status = "queued" => n <= k
         /\ jobs' = [jobs EXCEPT ![n].status = "running", ![n].attempts = @ + 1]
         /\ w' = [Resting EXCEPT !.at = "load", !.job = n]
    /\ UNCHANGED <<act, fresh, siteVars, outsideWorker, budgets>>

\* action_store.get, and the handler's first test: nothing left to do.
Load ==
    /\ At("load")
    /\ fresh' = fresh \cup {Worker}
    /\ LET skip == IF jobs[w.job].type = "execute"
                   THEN act.status \notin ExecutableStatuses
                   ELSE act.rolledBack
       IN GotoWith(IF skip THEN "done"
                   ELSE IF jobs[w.job].type = "execute" THEN "begin" ELSE "rbBegin",
                   act)
    /\ UNCHANGED <<act, jobs, siteVars, outsideWorker, budgets>>

\* The handler has returned: the job is COMPLETED.
FinishJob ==
    /\ At("done")
    /\ JobStatus(w.job, "completed")
    /\ Idle
    /\ fresh' = fresh \ {Worker}
    /\ UNCHANGED <<act, siteVars, outsideWorker, budgets>>

\* _note_error, whose own failure is swallowed, and the job's retry.  An
\* error raised while claiming the action is not noted on it.
NoteErrorAndRetry ==
    /\ At("note")
    /\ \/ fresh' = {}
       \/ fresh' = fresh \ {Worker}
    /\ RetryOrFail(w.job)
    /\ Idle
    /\ UNCHANGED <<act, siteVars, outsideWorker, budgets>>

\* A step that writes the action: the update goes through, or it raises
\* because somebody else has written since the copy was read.
Update(from, new, next) ==
    /\ At(from)
    /\ \/ Saved(Worker, new) /\ GotoWith(next, new)
       \/ Worker \notin fresh /\ Goto("note") /\ UNCHANGED <<act, fresh>>
    /\ UNCHANGED <<jobs, siteVars, outsideWorker, budgets>>

\* A step that only reads the page.
ReadPage(from, page, next) ==
    /\ At(from)
    /\ w' = [w EXCEPT !.at = next, !.page = page]
    /\ UNCHANGED <<act, fresh, jobs, siteVars, outsideWorker, budgets>>

InHandler == w.at \notin {"idle", "load", "done", "note"}

\* A call to the site or the database fails and has no effect.
Fault ==
    /\ InHandler
    /\ faults < MaxFaults
    /\ faults' = faults + 1
    /\ Goto("note")
    /\ UNCHANGED <<act, fresh, jobs, siteVars, outsideWorker, crashes, edits>>

\* The server dies; at its next start the job is requeued or failed
\* (JobQueue).  Requests and the measurement round die with it.
Crash ==
    /\ crashes < MaxCrashes
    /\ crashes' = crashes + 1
    /\ IF At("idle") THEN UNCHANGED jobs ELSE RetryOrFail(w.job)
    /\ Idle
    /\ req' = [r \in Requests |-> NoRequest]
    /\ m' = "idle"
    /\ fresh' = {}
    /\ UNCHANGED <<act, kind, siteVars, lessons, faults, edits>>

-----------------------------------------------------------------------------
(***************************************************************************)
(* The execute_action handler.                                             *)
(***************************************************************************)
copy == w.copy

\* What is to be done, by the connection and the status of the copy.
Begin ==
    /\ At("begin")
    /\ Goto(CASE copy.status = "executed"                     -> "verify"
              [] kind = "manual" /\ copy.status = "approved"  -> "look"
              [] kind = "manual" /\ copy.status = "executing" -> "done"
              [] kind # "manual" /\ copy.status = "approved"  -> "claim"
              [] kind # "manual" /\ copy.status = "executing" -> "carryOut")
    /\ UNCHANGED <<act, fresh, jobs, siteVars, outsideWorker, budgets>>

\* The claim: EXECUTING is saved before the site is touched.
Claim == Update("claim", Moved(copy, "executing"), "carryOut")

\* _carry_out: a connection without the capability, or the page read.
LackCapability ==
    /\ At("carryOut")
    /\ Goto("refuse")
    /\ UNCHANGED <<act, fresh, jobs, siteVars, outsideWorker, budgets>>

Changed(page) ==
    /\ page # copy.target
    /\ copy.observed # Unknown
    /\ page # copy.observed
ReadBeforeWrite ==
    ReadPage("carryOut", OnPage, IF Changed(OnPage) THEN "refuse" ELSE "write")

\* adapter_cannot_apply, page_changed_since_proposal, execution_failed
Refuse == Update("refuse", Moved(copy, "failed"), "done")

\* The write is made and acknowledged, made but not acknowledged (the
\* request timed out), or refused by the site.
WriteSite ==
    /\ At("write")
    /\ site' = WriteTarget(site, copy.target)
    /\ written' = written \cup {copy.target}
    /\ lastBy' = "system"
    /\ \/ Goto("record") /\ UNCHANGED faults
       \/ faults < MaxFaults /\ faults' = faults + 1 /\ Goto("note")
    /\ UNCHANGED <<act, fresh, jobs, served, outsideWorker, crashes, edits>>
WriteRefused ==
    /\ At("write")
    /\ Goto("refuse")
    /\ UNCHANGED <<act, fresh, jobs, siteVars, outsideWorker, budgets>>

\* The change is recorded as EXECUTED, with what it replaced.
PreviousValue ==
    IF w.page = copy.target /\ copy.observed # Unknown THEN copy.observed ELSE w.page
Record ==
    Update("record",
           [copy EXCEPT !.status = "executed",
                        !.applied = [previous |-> PreviousValue, new |-> copy.target,
                                     id |-> kind = "exact"]],
           "verify")

\* _verify: WAITING_FOR_RECRAWL in memory, the page read back, and both
\* events saved at once.  The plugin's stored override counts as shown.
ReadBack ==
    ReadPage("verify",
             IF kind = "exact" /\ site.override = copy.target THEN copy.target ELSE OnPage,
             "verified")
SaveVerification ==
    Update("verified",
           Moved(copy, IF w.page = copy.target THEN "measurement_window_active"
                                               ELSE "failed"),
           "done")

\* _check_applied_by_customer: a manual site.
LookForCustomer ==
    ReadPage("look", OnPage, IF OnPage = copy.target THEN "claimSeen" ELSE "wait")
WaitForCustomer == Update("wait", copy, "done")
ClaimSeen == Update("claimSeen", Moved(copy, "executing"), "recordSeen")
RecordSeen ==
    Update("recordSeen",
           [copy EXCEPT !.status = "executed",
                        !.applied = [previous |-> copy.observed, new |-> copy.target,
                                     id |-> FALSE]],
           "verify")

-----------------------------------------------------------------------------
(***************************************************************************)
(* The rollback_action handler.                                            *)
(***************************************************************************)
previous == copy.applied.previous

RollbackBegin ==
    /\ At("rbBegin")
    /\ Goto(IF ~MayRollBack(copy) THEN "note"
            ELSE CASE kind = "manual" /\ previous = Unknown -> "rbGiveUp"
                   [] kind = "manual" /\ previous # Unknown -> "rbLook"
                   [] kind = "exact" /\ copy.applied.id     -> "rbUndo"
                   [] OTHER                                 -> "rbRead")
    /\ UNCHANGED <<act, fresh, jobs, siteVars, outsideWorker, budgets>>

\* Faulty variant: the plugin's refusal is taken for success.
UndoRegardless ==
    /\ At("rbUndo")
    /\ site' = IF PluginRefuses(site) THEN site ELSE PluginUndo(site)
    /\ lastBy' = "system"
    /\ Goto("rbRendered")
    /\ UNCHANGED <<act, fresh, jobs, served, written, outsideWorker, budgets>>

\* _rollback_exactly: the plugin undoes its own change, or refuses; the
\* answer may be lost.
UndoExactly ==
    /\ At("rbUndo")
    /\ IF PluginRefuses(site)
       THEN /\ Goto("rbGiveUp")
            /\ UNCHANGED <<site, lastBy, faults>>
       ELSE /\ site' = PluginUndo(site)
            /\ lastBy' = "system"
            /\ \/ Goto("rbRendered") /\ UNCHANGED faults
               \/ faults < MaxFaults /\ faults' = faults + 1 /\ Goto("note")
    /\ UNCHANGED <<act, fresh, jobs, served, written, outsideWorker, crashes, edits>>

\* The rendered page is read for the record only; what it shows decides nothing.
ReadRendered == ReadPage("rbRendered", OnPage, "rbRecord")

\* _rollback_by_rewriting: the page first.
ReadBeforeRestore ==
    ReadPage("rbRead", OnPage,
             CASE OnPage = previous                                   -> "rbRecord"
               [] OnPage # previous /\ OnPage # copy.applied.new -> "rbGiveUp"
               [] OTHER                                              -> "rbWrite")
RestoreSite ==
    /\ At("rbWrite")
    /\ site' = [site EXCEPT !.base = previous]
    /\ lastBy' = "system"
    /\ \/ Goto("rbCheck") /\ UNCHANGED faults
       \/ faults < MaxFaults /\ faults' = faults + 1 /\ Goto("note")
    /\ UNCHANGED <<act, fresh, jobs, served, written, outsideWorker, crashes, edits>>
RestoreRefused ==
    /\ At("rbWrite")
    /\ Goto("rbGiveUp")
    /\ UNCHANGED <<act, fresh, jobs, siteVars, outsideWorker, budgets>>
CheckRestored ==
    ReadPage("rbCheck", OnPage, IF OnPage = previous THEN "rbRecord" ELSE "rbGiveUp")

\* _rollback_by_customer: a manual site.
LookForRestored ==
    ReadPage("rbLook", OnPage, IF OnPage = previous THEN "rbRecord" ELSE "rbWait")
WaitForRestored == Update("rbWait", copy, "done")

\* Faulty variant: an ending that does not end the request.
GiveUpSilently == Update("rbGiveUp", copy, "done")

\* The endings of _ROLLBACK_GAVE_UP, after which nothing is pending, and
\* _rolled_back, after which rollback_pending is not asked any more.
GiveUpRollback == Update("rbGiveUp", [copy EXCEPT !.asked = FALSE], "done")
RecordRolledBack ==
    Update("rbRecord",
           [copy EXCEPT !.status = "rolled_back", !.rolledBack = TRUE], "done")

-----------------------------------------------------------------------------
(***************************************************************************)
(* The measurement loop.                                                   *)
(***************************************************************************)

\* Faulty variant: a pending rollback is not asked about.
ReadRegardless ==
    /\ m = "idle"
    /\ act.status \in WatchedStatuses
    /\ act.applied # NoChange
    /\ m' = "settle"
    /\ fresh' = fresh \cup {Measurer}
    /\ UNCHANGED <<act, jobs, w, req, kind, siteVars, lessons, budgets>>

\* run_round reads the action; settle goes on when nothing is pending and
\* the data is there.
ReadForSettling ==
    /\ m = "idle"
    /\ act.status \in WatchedStatuses
    /\ act.applied # NoChange
    /\ ~act.asked
    /\ m' = "settle"
    /\ fresh' = fresh \cup {Measurer}
    /\ UNCHANGED <<act, jobs, w, req, kind, siteVars, lessons, budgets>>

\* The outcome, the action and the feedback event, in one transaction.
SaveOutcome ==
    /\ m = "settle"
    /\ \E outcome \in OutcomeStatuses : Saved(Measurer, Moved(act, outcome))
    /\ lessons' = lessons + 1
    /\ m' = "idle"
    /\ UNCHANGED <<jobs, w, req, kind, siteVars, budgets>>

\* PersistenceConflictError: skipped until the next round.
SkipOutcome ==
    /\ m = "settle"
    /\ Measurer \notin fresh
    /\ m' = "idle"
    /\ UNCHANGED <<act, fresh, jobs, w, req, kind, siteVars, lessons, budgets>>

-----------------------------------------------------------------------------
(***************************************************************************)
(* The customer and the page cache.                                        *)
(***************************************************************************)

\* The site's own title is edited, by hand or by what the customer runs.
EditPage(title) ==
    /\ edits < MaxEdits
    /\ edits' = edits + 1
    /\ title # site.base
    /\ site' = [site EXCEPT !.base = title]
    /\ lastBy' = "customer"
    /\ UNCHANGED <<act, fresh, jobs, w, served, written, outsideWorker, faults, crashes>>

\* A later change sets the plugin's override of the same page.
LaterOverride(title) ==
    /\ kind = "exact"
    /\ edits < MaxEdits
    /\ edits' = edits + 1
    /\ title # site.override
    /\ site' = [site EXCEPT !.override = title]
    /\ lastBy' = "customer"
    /\ UNCHANGED <<act, fresh, jobs, w, served, written, outsideWorker, faults, crashes>>

\* The cached page is rendered again.  A REST connection never reads it.
ServePage ==
    /\ kind # "rewriting"
    /\ served # Shown(site)
    /\ served' = Shown(site)
    /\ UNCHANGED <<act, fresh, jobs, w, site, written, lastBy, outsideWorker, budgets>>

-----------------------------------------------------------------------------
Execute ==
    \/ Begin \/ Claim \/ LackCapability \/ ReadBeforeWrite \/ Refuse
    \/ WriteSite \/ WriteRefused \/ Record \/ ReadBack \/ SaveVerification
    \/ LookForCustomer \/ WaitForCustomer \/ ClaimSeen \/ RecordSeen

RollBack ==
    \/ RollbackBegin \/ UndoExactly \/ ReadRendered
    \/ ReadBeforeRestore \/ RestoreSite \/ RestoreRefused \/ CheckRestored
    \/ LookForRestored \/ WaitForRestored \/ GiveUpRollback \/ RecordRolledBack

WorkerStep ==
    TakeJob \/ Load \/ FinishJob \/ NoteErrorAndRetry \/ Execute \/ RollBack

RequestStep(r) ==
    \/ \E op \in {"approve", "reject", "applied", "rollback"}, t \in Targets :
          ReadForRequest(r, op, t)
    \/ SaveRequest(r)
    \/ ConflictRequest(r)

Measure == ReadForSettling \/ SaveOutcome \/ SkipOutcome

Environment ==
    \/ \E t \in Titles : EditPage(t) \/ LaterOverride(t)
    \/ ServePage
    \/ Fault
    \/ Crash

Next == WorkerStep \/ (\E r \in Requests : RequestStep(r)) \/ Measure \/ Environment

Spec == Init /\ [][Next]_vars
-----------------------------------------------------------------------------
(***************************************************************************)
(* Properties.                                                             *)
(***************************************************************************)
Places ==
    {"idle", "load", "begin", "claim", "carryOut", "refuse", "write", "record",
     "verify", "verified", "look", "wait", "claimSeen", "recordSeen", "rbBegin",
     "rbUndo", "rbRendered", "rbRead", "rbWrite", "rbCheck", "rbLook", "rbWait",
     "rbGiveUp", "rbRecord", "done", "note"}
Jobs == [type : {"none", "execute", "rollback"},
         status : {"none", "queued", "running", "completed", "failed"},
         attempts : 0..MaxAttempts]

\* Every variable keeps its type.
TypeOK ==
    /\ act \in Actions
    /\ fresh \subseteq Requests \cup {Worker, Measurer}
    /\ jobs \in [JobSlots -> Jobs]
    /\ w \in [at : Places, job : {0} \cup JobSlots, copy : Actions, page : Values]
    /\ req \in [Requests -> [op : {"none", "approve", "reject", "applied", "rollback"},
                             target : Values]]
    /\ m \in {"idle", "settle"}
    /\ kind \in Kinds
    /\ site \in [base : Values, override : Values,
                 entry : [made : BOOLEAN, previous : Values, new : Values, undone : BOOLEAN]]
    /\ served \in Values
    /\ written \subseteq Titles
    /\ lastBy \in {"system", "customer"}
    /\ {lessons, faults, crashes, edits} \subseteq Nat

\* "A person decides before anything touches a customer's site"
\* (app/action/approval.py): once the system has written, the action was
\* approved with exactly that title and can no longer be rejected, however
\* approvals, rejections, retries and crashes interleave.
NoWriteWithoutApproval ==
    written # {} => /\ written = {act.target}
                    /\ act.status \notin {"awaiting_approval", "approved", "rejected"}

\* A rollback is recorded only for a site that was really restored: the
\* plugin marks the change undone, and a title written back is still there
\* unless somebody else has changed it (app/action/executor.py:259-351).
RolledBackIsUndone ==
    act.status = "rolled_back" =>
        /\ act.applied.id => site.entry.undone
        /\ (kind = "rewriting" /\ lastBy = "system") => site.base = act.applied.previous

\* Redelivery "finishes the job instead of [...] losing track of it"
\* (app/action/executor.py:5): an approved or executing action has a job that
\* works on it or has used up its attempts.  A manual site has one property
\* of its own: there an approved action may be waiting for its customer.
UnfinishedJob(type) ==
    \E n \in JobSlots : jobs[n].type = type /\ jobs[n].status \in {"queued", "running"}
ExhaustedJob(type) ==
    \E n \in JobSlots : jobs[n].type = type /\ jobs[n].status = "failed"
NoWorkForgotten ==
    kind # "manual" /\ act.status \in {"approved", "executing"} =>
        UnfinishedJob("execute") \/ ExhaustedJob("execute")

\* "A rollback the customer has asked for comes first"
\* (app/measurement/runner.py:32): no outcome is recorded between the request
\* and the end of its job, and none of a change already undone.
PendingRollbackNotMeasured ==
    [][lessons' # lessons => ~act.asked /\ ~act.rolledBack]_vars

\* An action teaches once, whatever is retried (app/measurement/runner.py:27).
OneLesson == lessons <= 1

\* transition_action never has to refuse: with its guards alone, whatever
\* interleaves, every save moves the action along ALLOWED_TRANSITIONS
\* (app/action/state_machine.py:5), a settling or a verification by two moves;
\* and the action of an undone change is never moved again.
StatusFollowsTable ==
    [][/\ act'.status # act.status =>
             \E via \in ActionStatuses :
                /\ via = act.status \/ CanTransition(act.status, via)
                /\ CanTransition(via, act'.status)
       /\ act.rolledBack => act' = act]_vars

(***************************************************************************)
(* The contract (ActionContract) and the refinement mapping.  On a manual  *)
(* site the change is put on the page by the customer, as recorded.        *)
(***************************************************************************)
verdictBar ==
    CASE act.status = "awaiting_approval" -> "open"
      [] act.status = "rejected"          -> "refused"
      [] OTHER                            -> "approved"
putBar == written \cup (IF act.applied = NoChange THEN {} ELSE {act.applied.new})

Contract == INSTANCE ActionContract
    WITH verdict <- verdictBar, title <- act.target, put <- putBar,
         undone <- act.rolledBack, taught <- lessons > 0

\* ManagedAction keeps the promises of ActionContract.
ImplementsContract == Contract!Spec

(***************************************************************************)
(* Claims of the sources that the code does not keep.                      *)
(***************************************************************************)

\* Redelivery "finishes the job instead of [...] losing track of it"
\* (app/action/executor.py:5), on a manual site.
ManualNotForgotten ==
    kind = "manual" /\ act.status = "executing" =>
        UnfinishedJob("execute") \/ ExhaustedJob("execute")

\* "The customer asked to undo the change and the job has not finished."
\* (app/measurement/runner.py:107)
PendingMeansJob == act.asked /\ ~act.rolledBack => UnfinishedJob("rollback")

\* "... nothing was written." (app/action/executor.py:117)
NothingWasWritten ==
    [][ReadBeforeWrite /\ w'.at = "refuse" => written = {}]_vars

\* "Neither handler overwrites a page someone else has changed in the
\* meantime." (app/action/executor.py:17)
NoForeignOverwrite ==
    [][WriteSite /\ copy.observed # Unknown /\ site' # site
          => Shown(site) \in {copy.observed, copy.target}]_vars

(***************************************************************************)
(* Liveness: the worker runs whenever it can (run_forever), failures and   *)
(* crashes being finitely many.                                            *)
(***************************************************************************)
FairSpec == Spec /\ WF_vars(WorkerStep)

\* An approved change is carried out, fails or is rejected, or its job has
\* used up its attempts.
ApprovedIsCarriedOut ==
    (act.status = "approved" /\ kind # "manual")
        ~> (act.status \notin {"approved", "executing"} \/ ExhaustedJob("execute"))

\* A rollback that was asked for is made or refused, or its job has used up
\* its attempts; a manual site waits for its customer.
RollbackIsAnswered ==
    (act.asked /\ kind # "manual")
        ~> (~act.asked \/ act.rolledBack \/ ExhaustedJob("rollback"))
=============================================================================
