------------------------ MODULE ManagedAction_proofs ------------------------
(***************************************************************************)
(* ManagedAction keeps the promises of ActionContract, for any titles,     *)
(* requests, kinds of connection and bounds.                               *)
(*                                                                         *)
(* The inductive invariant says why a copy may be trusted. What a writer   *)
(* whose copy is fresh has read still holds, so the guard it passed does   *)
(* too. The worker's place tells the status of its copy. And once the copy *)
(* shows a change under way, the stored action is under way with the same  *)
(* title, fresh or not: that is what makes a write without a lock safe.    *)
(* The second half of the module adds two promises that are about more     *)
(* than the action: a rollback that is recorded was made on the site, and  *)
(* work that was approved has a job.                                       *)
(***************************************************************************)
EXTENDS ManagedAction, FiniteSetTheorems, TLAPS

\* From the claim on; nothing leads back to a decision.
UnderWay == ActionStatuses \ {"planned", "awaiting_approval", "approved", "rejected"}

\* A job that can be taken has an attempt left.
AttemptsLeft == \A n \in JobSlots : jobs[n].status = "queued" => jobs[n].attempts < MaxAttempts

\* A change and what is known of it go together.
Sound(a) ==
    /\ a.rolledBack => a.status = "rolled_back"
    /\ a.applied # NoChange => a.status \in UnderWay /\ a.applied.new = a.target
WritesApproved == written # {} => written = {act.target} /\ act.status \in UnderWay
TaughtOnce ==
    /\ lessons \in {0, 1}
    /\ lessons = 1 => act.status \in OutcomeStatuses \cup {"rolled_back"}

\* What the worker's place tells of its copy.
Outside == {"idle", "load", "done", "note"}
Undoing == {"rbUndo", "rbRendered", "rbRead", "rbWrite", "rbCheck", "rbLook", "rbWait",
            "rbGiveUp", "rbRecord"}
CopyAt(place, c) ==
    /\ place \notin Outside => ~c.rolledBack
    /\ place = "begin" => c.status \in ExecutableStatuses
    /\ place \in {"claim", "look", "wait", "claimSeen"} => c.status = "approved"
    /\ place \in {"carryOut", "refuse", "write", "record", "recordSeen"} =>
          c.status = "executing"
    /\ place \in {"verify", "verified"} => c.status = "executed"
    /\ place \in Undoing => MayRollBack(c)

\* What the worker's copy tells of the stored action.
WorkerKnows ==
    /\ CopyAt(w.at, copy)
    /\ InHandler => ~act.rolledBack
    /\ InHandler /\ copy.status \in UnderWay =>
          act.status \in UnderWay /\ act.target = copy.target
    /\ Worker \in fresh => w.at \notin {"idle", "load"} /\ copy = act

\* What a fresh copy tells a request and the measurement loop.
RequestKnows(r) ==
    /\ req[r].op # "none" => req[r].target \in Titles
    /\ r \in fresh => req[r].op # "none" /\ MayRequest(req[r].op)
MeasurerKnows ==
    Measurer \in fresh =>
        act.status \in WatchedStatuses /\ act.applied # NoChange /\ ~act.asked

Known ==
    /\ Sound(act)
    /\ WritesApproved
    /\ TaughtOnce
    /\ WorkerKnows
    /\ \A r \in Requests : RequestKnows(r)
    /\ MeasurerKnows

IInv == TypeOK /\ AttemptsLeft /\ Known
-----------------------------------------------------------------------------
(***************************************************************************)
(* Types.                                                                  *)
(***************************************************************************)
Sites == [base : Values, override : Values,
          entry : [made : BOOLEAN, previous : Values, new : Values, undone : BOOLEAN]]
Tasks == [at : Places, job : {0} \cup JobSlots, copy : Actions, page : Values]

LEMMA InitTyped == Init => TypeOK /\ AttemptsLeft
  <1> SUFFICES ASSUME Init PROVE TypeOK /\ AttemptsLeft
    OBVIOUS
  <1> USE TitlesAssumption, BoundsAssumption DEF Init
  <1>1. act \in Actions /\ NoCopy \in Actions
    BY DEF Actions, ActionStatuses, Changes, NoChange, Values, NoCopy
  <1>2. jobs \in [JobSlots -> Jobs] /\ AttemptsLeft
    BY DEF Jobs, NoJob, AttemptsLeft
  <1>3. w \in Tasks
    BY <1>1 DEF Resting, Tasks, Places, Values
  <1>4. site \in Sites /\ served \in Values
    BY DEF Sites, NoEntry, Values
  <1>5. \A r \in Requests : req[r] = NoRequest
    OBVIOUS
  <1> QED
    BY <1>1, <1>2, <1>3, <1>4, <1>5 DEF TypeOK, Tasks, Sites, NoRequest, Values

\* What the page says, and what a write or the plugin's undo makes of the site.
LEMMA SiteTyped ==
  ASSUME TypeOK
  PROVE  /\ Shown(site) \in Values /\ OnPage \in Values
         /\ \A t \in Titles : WriteTarget(site, t) \in Sites
         /\ \A v \in Values : [site EXCEPT !.base = v] \in Sites
         /\ \A v \in Values : [site EXCEPT !.override = v] \in Sites
         /\ PluginUndo(site) \in Sites
  <1>1. site \in Sites /\ served \in Values
    BY DEF TypeOK, Sites
  <1>2. Shown(site) \in Values /\ OnPage \in Values
    BY <1>1 DEF Shown, OnPage, Sites
  <1>3. ASSUME NEW t \in Titles PROVE WriteTarget(site, t) \in Sites
    BY <1>1 DEF WriteTarget, Sites, Values
  <1>4. PluginUndo(site) \in Sites
    BY <1>1 DEF PluginUndo, Sites
  <1> QED
    BY <1>1, <1>2, <1>3, <1>4 DEF Sites

\* The copy and what a step makes of it.
LEMMA CopyTyped ==
  ASSUME TypeOK
  PROVE  /\ copy \in Actions /\ copy.target \in Titles /\ w.page \in Values
         /\ copy.applied.previous \in Values
         /\ \A s \in ActionStatuses : Moved(copy, s) \in Actions
         /\ \A b \in BOOLEAN : [copy EXCEPT !.asked = b] \in Actions
         /\ \A v \in Values, b \in BOOLEAN :
              [copy EXCEPT !.status = "executed",
                           !.applied = [previous |-> v, new |-> copy.target, id |-> b]]
                 \in Actions
         /\ [copy EXCEPT !.status = "rolled_back", !.rolledBack = TRUE] \in Actions
  <1>1. copy \in Actions /\ w.page \in Values
    BY DEF TypeOK, copy
  <1> QED
    BY <1>1 DEF Actions, Changes, Moved, ActionStatuses, Values

\* The worker goes somewhere.
LEMMA GotoTyped ==
  ASSUME TypeOK, NEW place \in Places, Goto(place),
         UNCHANGED <<act, fresh, jobs, outsideWorker>>,
         site' \in Sites, served' \in Values, written' \subseteq Titles,
         lastBy' \in {"system", "customer"},
         {faults', crashes', edits'} \subseteq Nat
  PROVE  TypeOK'
  <1>1. w \in Tasks /\ w' = [w EXCEPT !.at = place]
    BY DEF TypeOK, Goto, Tasks
  <1>2. w' \in Tasks
    BY <1>1 DEF Tasks
  <1> QED
    BY <1>2 DEF TypeOK, Tasks, Sites, outsideWorker

LEMMA ReadTyped ==
  ASSUME TypeOK, NEW from, NEW page \in Values, NEW next \in Places,
         ReadPage(from, page, next)
  PROVE  TypeOK'
  <1>1. w \in Tasks /\ w' = [w EXCEPT !.at = next, !.page = page]
    BY DEF TypeOK, ReadPage, Tasks
  <1>2. w' \in Tasks
    BY <1>1 DEF Tasks
  <1> QED
    BY <1>2 DEF TypeOK, Tasks, ReadPage, outsideWorker, siteVars, budgets

LEMMA UpdateTyped ==
  ASSUME TypeOK, NEW from, NEW new \in Actions, NEW next \in Places,
         Update(from, new, next)
  PROVE  TypeOK'
  <1>1. w \in Tasks
    BY DEF TypeOK, Tasks
  <1>2. CASE Saved(Worker, new) /\ GotoWith(next, new)
    <2>1. w' \in Tasks
      BY <1>1, <1>2 DEF GotoWith, Tasks
    <2> QED
      BY <1>2, <2>1 DEF TypeOK, Tasks, Saved, Update, outsideWorker, siteVars, budgets
  <1>3. CASE Goto("note") /\ UNCHANGED <<act, fresh>>
    <2>1. w' \in Tasks
      BY <1>1, <1>3 DEF Goto, Tasks, Places
    <2> QED
      BY <1>3, <2>1 DEF TypeOK, Tasks, Update, outsideWorker, siteVars, budgets
  <1> QED
    BY <1>2, <1>3 DEF Update

\* The job list: a new job, an attempt, and the ends of an attempt.
Queue == jobs \in [JobSlots -> Jobs] /\ AttemptsLeft
LEMMA NewJobTyped ==
  ASSUME Queue, NEW type \in {"execute", "rollback"}, NewJob(type)
  PROVE  Queue'
  <1>1. PICK n \in JobSlots :
          jobs' = [jobs EXCEPT ![n] = [type |-> type, status |-> "queued", attempts |-> 0]]
    BY DEF NewJob
  <1> QED
    BY <1>1, BoundsAssumption DEF Queue, AttemptsLeft, Jobs

LEMMA RetryTyped ==
  ASSUME Queue, NEW n \in {0} \cup JobSlots, RetryOrFail(n)
  PROVE  Queue'
  <1>1. jobs' = [jobs EXCEPT ![n].status =
                    IF jobs[n].attempts < MaxAttempts THEN "queued" ELSE "failed"]
    BY DEF RetryOrFail, JobStatus
  <1>2. CASE n \in JobSlots
    BY <1>1, <1>2 DEF Queue, AttemptsLeft, Jobs
  <1>3. CASE n \notin JobSlots
    <2>1. jobs' = jobs
      BY <1>1, <1>3 DEF Queue
    <2> QED
      BY <2>1 DEF Queue, AttemptsLeft
  <1> QED
    BY <1>2, <1>3

\* An action of the worker that leaves its place and the site to others.
LEMMA QueueIsLeft ==
  ASSUME Queue, UNCHANGED jobs
  PROVE  Queue'
  BY DEF Queue, AttemptsLeft

LEMMA TakeJobTyped == IInv /\ TakeJob => TypeOK' /\ AttemptsLeft'
  <1> SUFFICES ASSUME IInv, TakeJob PROVE TypeOK' /\ AttemptsLeft'
    OBVIOUS
  <1>1. PICK n \in JobSlots :
          /\ jobs[n].status = "queued"
          /\ jobs' = [jobs EXCEPT ![n].status = "running", ![n].attempts = @ + 1]
          /\ w' = [Resting EXCEPT !.at = "load", !.job = n]
    BY DEF TakeJob
  <1>2. jobs \in [JobSlots -> Jobs] /\ jobs[n] \in Jobs /\ jobs[n].attempts < MaxAttempts
    BY <1>1 DEF IInv, TypeOK, AttemptsLeft, Jobs
  <1> DEFINE job == [type |-> jobs[n].type, status |-> "running",
                     attempts |-> jobs[n].attempts + 1]
  <1>3. jobs' = [jobs EXCEPT ![n] = job]
    BY <1>1, <1>2 DEF Jobs
  <1>4. jobs' \in [JobSlots -> Jobs]
    <2>1. jobs[n].attempts + 1 \in 0..MaxAttempts
      BY <1>2, BoundsAssumption DEF Jobs
    <2>2. job \in Jobs
      BY <1>2, <2>1 DEF Jobs
    <2> HIDE DEF job
    <2> QED
      BY <1>2, <1>3, <2>2
  <1>5. AttemptsLeft'
    BY <1>2, <1>3 DEF IInv, AttemptsLeft, Jobs
  <1>6. w' \in Tasks
    BY <1>1, TitlesAssumption
    DEF Resting, Tasks, Places, Values, NoCopy, Actions, ActionStatuses, Changes, NoChange
  <1> QED
    BY <1>4, <1>5, <1>6
    DEF IInv, TypeOK, TakeJob, Tasks, outsideWorker, siteVars, budgets

LEMMA LoadTyped == IInv /\ Load => TypeOK' /\ AttemptsLeft'
  <1> SUFFICES ASSUME IInv, Load PROVE TypeOK' /\ AttemptsLeft'
    OBVIOUS
  <1>1. PICK place \in {"done", "begin", "rbBegin"} : GotoWith(place, act)
    BY DEF Load
  <1>2. w \in Tasks /\ act \in Actions
    BY DEF IInv, TypeOK, Tasks
  <1>3. w' \in Tasks
    BY <1>1, <1>2 DEF GotoWith, Tasks, Places
  <1> QED
    BY <1>3 DEF IInv, TypeOK, AttemptsLeft, Load, Tasks, outsideWorker, siteVars, budgets

\* The ends of an attempt.
LEMMA EndTyped ==
  IInv /\ (FinishJob \/ NoteErrorAndRetry \/ Crash) => TypeOK' /\ AttemptsLeft'
  <1> SUFFICES ASSUME IInv, FinishJob \/ NoteErrorAndRetry \/ Crash
               PROVE  TypeOK' /\ AttemptsLeft'
    OBVIOUS
  <1>1. Queue /\ w.job \in {0} \cup JobSlots
    BY DEF IInv, TypeOK, Queue
  <1>2. Resting \in Tasks
    BY TitlesAssumption
    DEF Resting, Tasks, Places, Values, NoCopy, Actions, ActionStatuses, Changes, NoChange
  <1>3. Queue'
    <2>1. CASE FinishJob
      <3>1. jobs' = [jobs EXCEPT ![w.job].status = "completed"]
        BY <2>1 DEF FinishJob, JobStatus
      <3> QED
        BY <1>1, <3>1 DEF Queue, AttemptsLeft, Jobs
    <2>2. CASE NoteErrorAndRetry
      BY <1>1, <2>2, RetryTyped DEF NoteErrorAndRetry
    <2>3. CASE Crash
      BY <1>1, <2>3, RetryTyped, QueueIsLeft DEF Crash
    <2> QED
      BY <2>1, <2>2, <2>3
  <1>4. TypeOK'
    <2>1. CASE FinishJob
      BY <1>2, <1>3, <2>1
      DEF IInv, TypeOK, FinishJob, Idle, Tasks, Queue, outsideWorker, siteVars, budgets
    <2>2. CASE NoteErrorAndRetry
      BY <1>2, <1>3, <2>2
      DEF IInv, TypeOK, NoteErrorAndRetry, Idle, Tasks, Queue, outsideWorker, siteVars, budgets
    <2>3. CASE Crash
      <3>1. req' \in [Requests -> [op : {"none", "approve", "reject", "applied", "rollback"},
                                   target : Values]]
        BY <2>3 DEF Crash, NoRequest, Values
      <3> QED
        BY <1>2, <1>3, <2>3, <3>1 DEF IInv, TypeOK, Crash, Idle, Tasks, Queue, siteVars
    <2> QED
      BY <2>1, <2>2, <2>3
  <1> QED
    BY <1>3, <1>4 DEF Queue

\* A call to the site may count as a fault.
LEMMA FaultsTyped ==
  ASSUME TypeOK, WriteSite \/ UndoExactly \/ RestoreSite
  PROVE  {faults', crashes', edits'} \subseteq Nat
  <1>1. faults \in Nat /\ crashes \in Nat /\ edits \in Nat
    BY DEF TypeOK
  <1>2. faults' = faults \/ faults' = faults + 1
    BY DEF WriteSite, UndoExactly, RestoreSite
  <1>3. crashes' = crashes /\ edits' = edits
    BY DEF WriteSite, UndoExactly, RestoreSite
  <1> QED
    BY <1>1, <1>2, <1>3

\* What the handlers' steps make of the types: they go to a place, with a
\* page they read, or with an action they save.
LEMMA ExecuteTyped == IInv /\ Execute => TypeOK'
  <1> SUFFICES ASSUME IInv, Execute PROVE TypeOK'
    OBVIOUS
  <1>1. TypeOK
    BY DEF IInv
  <1>2. /\ site \in Sites /\ served \in Values /\ written \subseteq Titles
        /\ lastBy \in {"system", "customer"} /\ {faults, crashes, edits} \subseteq Nat
        /\ kind \in {"exact", "rewriting", "manual"}
    BY <1>1, KindsAssumption DEF TypeOK, Sites
  <1> USE SiteTyped, CopyTyped DEF outsideWorker, siteVars, budgets
  <1>3. CASE Begin
    <2>1. copy.status \in ExecutableStatuses
      BY <1>3 DEF Begin, At, IInv, Known, WorkerKnows, CopyAt
    <2>2. PICK place \in {"verify", "look", "done", "claim", "carryOut"} : Goto(place)
      BY <1>2, <1>3, <2>1 DEF Begin, ExecutableStatuses
    <2> QED
      BY <1>1, <1>2, <1>3, <2>2, GotoTyped DEF Begin, Places
  <1>4. CASE LackCapability \/ WriteRefused
    BY <1>1, <1>2, <1>4, GotoTyped DEF LackCapability, WriteRefused, Places
  <1>5. CASE WriteSite
    <2>1. PICK place \in {"record", "note"} : Goto(place)
      BY <1>5 DEF WriteSite
    <2>2. site' \in Sites /\ written' \subseteq Titles /\ lastBy' = "system"
      BY <1>1, <1>2, <1>5 DEF WriteSite
    <2>3. {faults', crashes', edits'} \subseteq Nat
      BY <1>1, <1>5, FaultsTyped
    <2> QED
      BY <1>1, <1>2, <1>5, <2>1, <2>2, <2>3, GotoTyped DEF WriteSite, Places
  <1>6. CASE ReadBeforeWrite
    <2>1. PICK next \in {"refuse", "write"} : ReadPage("carryOut", OnPage, next)
      BY <1>6 DEF ReadBeforeWrite
    <2> QED
      BY <1>1, <2>1, ReadTyped DEF Places
  <1>7. CASE ReadBack
    <2>1. PICK page \in Values : ReadPage("verify", page, "verified")
      BY <1>1, <1>7 DEF ReadBack, Values
    <2> QED
      BY <1>1, <2>1, ReadTyped DEF Places
  <1>8. CASE LookForCustomer
    <2>1. PICK next \in {"claimSeen", "wait"} : ReadPage("look", OnPage, next)
      BY <1>8 DEF LookForCustomer
    <2> QED
      BY <1>1, <2>1, ReadTyped DEF Places
  <1>9. CASE Claim \/ Refuse \/ ClaimSeen
    BY <1>1, <1>9, UpdateTyped
    DEF Claim, Refuse, ClaimSeen, Places, ActionStatuses
  <1>10. CASE Record
    <2>1. PreviousValue \in Values
      BY <1>1 DEF PreviousValue, TypeOK, Actions, copy
    <2> QED
      BY <1>1, <1>10, <2>1, UpdateTyped DEF Record, Places
  <1>11. CASE SaveVerification
    BY <1>1, <1>11, UpdateTyped DEF SaveVerification, Places, ActionStatuses
  <1>12. CASE WaitForCustomer
    BY <1>1, <1>12, UpdateTyped DEF WaitForCustomer, Places
  <1>13. CASE RecordSeen
    <2>1. copy.observed \in Values
      BY <1>1 DEF TypeOK, Actions, copy
    <2> QED
      BY <1>1, <1>13, <2>1, UpdateTyped DEF RecordSeen, Places
  <1> QED
    BY <1>3, <1>4, <1>5, <1>6, <1>7, <1>8, <1>9, <1>10, <1>11, <1>12, <1>13 DEF Execute

LEMMA RollBackTyped == IInv /\ RollBack => TypeOK'
  <1> SUFFICES ASSUME IInv, RollBack PROVE TypeOK'
    OBVIOUS
  <1>1. TypeOK
    BY DEF IInv
  <1>2. /\ site \in Sites /\ served \in Values /\ written \subseteq Titles
        /\ lastBy \in {"system", "customer"} /\ {faults, crashes, edits} \subseteq Nat
        /\ previous \in Values
    BY <1>1, CopyTyped DEF TypeOK, Sites, previous
  <1> USE SiteTyped, CopyTyped DEF outsideWorker, siteVars, budgets
  <1>3. CASE RollbackBegin
    <2>1. PICK place \in {"note", "rbGiveUp", "rbLook", "rbUndo", "rbRead"} : Goto(place)
      BY <1>3 DEF RollbackBegin
    <2> QED
      BY <1>1, <1>2, <1>3, <2>1, GotoTyped DEF RollbackBegin, Places
  <1>4. CASE UndoExactly
    <2>1. PICK place \in {"rbGiveUp", "rbRendered", "note"} : Goto(place)
      BY <1>4 DEF UndoExactly
    <2>2. site' \in Sites /\ lastBy' \in {"system", "customer"}
      BY <1>1, <1>2, <1>4 DEF UndoExactly
    <2>3. {faults', crashes', edits'} \subseteq Nat
      BY <1>1, <1>4, FaultsTyped
    <2> QED
      BY <1>1, <1>2, <1>4, <2>1, <2>2, <2>3, GotoTyped DEF UndoExactly, Places
  <1>5. CASE RestoreSite
    <2>1. PICK place \in {"rbCheck", "note"} : Goto(place)
      BY <1>5 DEF RestoreSite
    <2>2. site' \in Sites /\ lastBy' = "system"
      BY <1>1, <1>2, <1>5 DEF RestoreSite
    <2>3. {faults', crashes', edits'} \subseteq Nat
      BY <1>1, <1>5, FaultsTyped
    <2> QED
      BY <1>1, <1>2, <1>5, <2>1, <2>2, <2>3, GotoTyped DEF RestoreSite, Places
  <1>6. CASE RestoreRefused
    BY <1>1, <1>2, <1>6, GotoTyped DEF RestoreRefused, Places
  <1>7. CASE ReadRendered
    BY <1>1, <1>7, ReadTyped DEF ReadRendered, Places
  <1>8. CASE ReadBeforeRestore
    <2>1. PICK next \in {"rbRecord", "rbGiveUp", "rbWrite"} : ReadPage("rbRead", OnPage, next)
      BY <1>8 DEF ReadBeforeRestore
    <2> QED
      BY <1>1, <2>1, ReadTyped DEF Places
  <1>9. CASE CheckRestored
    <2>1. PICK next \in {"rbRecord", "rbGiveUp"} : ReadPage("rbCheck", OnPage, next)
      BY <1>9 DEF CheckRestored
    <2> QED
      BY <1>1, <2>1, ReadTyped DEF Places
  <1>10. CASE LookForRestored
    <2>1. PICK next \in {"rbRecord", "rbWait"} : ReadPage("rbLook", OnPage, next)
      BY <1>10 DEF LookForRestored
    <2> QED
      BY <1>1, <2>1, ReadTyped DEF Places
  <1>11. CASE WaitForRestored \/ GiveUpRollback \/ RecordRolledBack
    BY <1>1, <1>11, UpdateTyped
    DEF WaitForRestored, GiveUpRollback, RecordRolledBack, Places
  <1> QED
    BY <1>3, <1>4, <1>5, <1>6, <1>7, <1>8, <1>9, <1>10, <1>11 DEF RollBack

LEMMA HandlerQueue == IInv /\ (Execute \/ RollBack) => AttemptsLeft'
  <1> SUFFICES ASSUME IInv, Execute \/ RollBack PROVE AttemptsLeft'
    OBVIOUS
  <1>1. CASE Execute
    <2>1. UNCHANGED jobs
      BY <1>1 DEF Execute, Begin, Claim, LackCapability, ReadBeforeWrite, Refuse,
         WriteSite, WriteRefused, Record, ReadBack, SaveVerification, LookForCustomer,
         WaitForCustomer, ClaimSeen, RecordSeen, Update, ReadPage
    <2> QED
      BY <2>1 DEF IInv, AttemptsLeft
  <1>2. CASE RollBack
    <2>1. UNCHANGED jobs
      BY <1>2 DEF RollBack, RollbackBegin, UndoExactly, ReadRendered, ReadBeforeRestore,
         RestoreSite, RestoreRefused, CheckRestored, LookForRestored, WaitForRestored,
         GiveUpRollback, RecordRolledBack, Update, ReadPage
    <2> QED
      BY <2>1 DEF IInv, AttemptsLeft
  <1> QED
    BY <1>1, <1>2

LEMMA RequestTyped ==
  ASSUME IInv, NEW r \in Requests, RequestStep(r)
  PROVE  TypeOK' /\ AttemptsLeft'
  <1> USE DEF siteVars, budgets
  <1> DEFINE Ops == {"none", "approve", "reject", "applied", "rollback"}
             Wanted == [op : Ops, target : Values]
  <1>1. /\ TypeOK /\ Queue /\ act \in Actions /\ req \in [Requests -> Wanted]
        /\ NoRequest \in Wanted
    BY DEF IInv, TypeOK, Queue, NoRequest, Values
  <1>2. ASSUME NEW op \in Ops, NEW t \in Targets, ReadForRequest(r, op, t)
        PROVE  TypeOK' /\ AttemptsLeft'
    <2>1. [op |-> op, target |-> t] \in Wanted
      BY TitlesAssumption DEF Values
    <2>2. req' \in [Requests -> Wanted]
      BY <1>1, <1>2, <2>1 DEF ReadForRequest
    <2> QED
      BY <1>1, <1>2, <2>2 DEF TypeOK, Queue, AttemptsLeft, ReadForRequest
  <1>3. CASE SaveRequest(r)
    <2>1. req[r].op \in Ops \ {"none"} /\ req[r].target \in Titles
      BY <1>1, <1>3 DEF SaveRequest, IInv, Known, RequestKnows
    <2>2. Decided(req[r].op, req[r].target) \in Actions
      BY <1>1, <2>1 DEF Decided, Moved, Actions, ActionStatuses
    <2>3. act' \in Actions /\ fresh' \subseteq {Worker}
      BY <1>3, <2>2 DEF SaveRequest, Saved
    <2>4. Queue'
      BY <1>1, <1>3, <2>1, NewJobTyped, QueueIsLeft DEF SaveRequest
    <2>5. req' \in [Requests -> Wanted]
      BY <1>1, <1>3 DEF SaveRequest
    <2> QED
      BY <1>1, <1>3, <2>3, <2>4, <2>5 DEF TypeOK, Queue, SaveRequest
  <1>4. CASE ConflictRequest(r)
    <2>1. req' \in [Requests -> Wanted]
      BY <1>1, <1>4 DEF ConflictRequest
    <2> QED
      BY <1>1, <1>4, <2>1 DEF TypeOK, Queue, AttemptsLeft, ConflictRequest
  <1> QED
    BY <1>2, <1>3, <1>4 DEF RequestStep

LEMMA MeasureTyped == IInv /\ Measure => TypeOK' /\ AttemptsLeft'
  <1> SUFFICES ASSUME IInv, Measure PROVE TypeOK' /\ AttemptsLeft'
    OBVIOUS
  <1> USE DEF siteVars, budgets
  <1>1. CASE ReadForSettling \/ SkipOutcome
    BY <1>1 DEF IInv, TypeOK, AttemptsLeft, ReadForSettling, SkipOutcome
  <1>2. CASE SaveOutcome
    <2>1. act' \in Actions /\ fresh' \subseteq {Worker}
      BY <1>2 DEF SaveOutcome, Saved, Moved, OutcomeStatuses, IInv, TypeOK, Actions,
         ActionStatuses
    <2>2. lessons' \in Nat
      BY <1>2 DEF SaveOutcome, IInv, TypeOK
    <2> QED
      BY <1>2, <2>1, <2>2 DEF SaveOutcome, IInv, TypeOK, AttemptsLeft
  <1> QED
    BY <1>1, <1>2 DEF Measure

LEMMA EnvironmentTyped == IInv /\ Environment => TypeOK' /\ AttemptsLeft'
  <1> SUFFICES ASSUME IInv, Environment PROVE TypeOK' /\ AttemptsLeft'
    OBVIOUS
  <1>1. TypeOK
    BY DEF IInv
  <1>2. /\ \A v \in Values : [site EXCEPT !.base = v] \in Sites
        /\ \A v \in Values : [site EXCEPT !.override = v] \in Sites
        /\ Shown(site) \in Values
    BY <1>1, SiteTyped
  <1>3. faults \in Nat /\ edits \in Nat
    BY <1>1 DEF TypeOK
  <1>4. CASE \E t \in Titles : EditPage(t) \/ LaterOverride(t)
    <2>1. site' \in Sites /\ edits' \in Nat /\ lastBy' = "customer"
      BY <1>2, <1>3, <1>4 DEF EditPage, LaterOverride, Values
    <2>2. UNCHANGED <<act, fresh, jobs, w, served, written, outsideWorker, faults, crashes>>
      BY <1>4 DEF EditPage, LaterOverride
    <2> QED
      BY <2>1, <2>2 DEF IInv, TypeOK, AttemptsLeft, Sites, outsideWorker
  <1>5. CASE ServePage
    BY <1>2, <1>5 DEF IInv, TypeOK, AttemptsLeft, ServePage, outsideWorker, budgets
  <1>6. CASE Fault
    <2>1. faults' \in Nat
      BY <1>3, <1>6 DEF Fault
    <2>2. TypeOK'
      BY <1>1, <1>6, <2>1, GotoTyped DEF Fault, TypeOK, Sites, siteVars, Places
    <2> QED
      BY <1>6, <2>2 DEF Fault, IInv, AttemptsLeft
  <1>7. CASE Crash
    BY <1>7, EndTyped
  <1> QED
    BY <1>4, <1>5, <1>6, <1>7 DEF Environment

LEMMA Typed == IInv /\ [Next]_vars => TypeOK' /\ AttemptsLeft'
  <1> SUFFICES ASSUME IInv, [Next]_vars PROVE TypeOK' /\ AttemptsLeft'
    OBVIOUS
  <1>1. CASE WorkerStep
    BY <1>1, TakeJobTyped, LoadTyped, EndTyped, ExecuteTyped, RollBackTyped, HandlerQueue
    DEF WorkerStep
  <1>2. CASE \E r \in Requests : RequestStep(r)
    BY <1>2, RequestTyped
  <1>3. CASE Measure
    BY <1>3, MeasureTyped
  <1>4. CASE Environment
    BY <1>4, EnvironmentTyped
  <1>5. CASE UNCHANGED vars
    BY <1>5 DEF vars, siteVars, budgets, IInv, TypeOK, AttemptsLeft
  <1> QED
    BY <1>1, <1>2, <1>3, <1>4, <1>5 DEF Next
-----------------------------------------------------------------------------
(***************************************************************************)
(* What is known.                                                          *)
(***************************************************************************)
LEMMA InitKnown == Init => Known
  <1> SUFFICES ASSUME Init PROVE Known
    OBVIOUS
  <1>1. /\ act.status = "awaiting_approval" /\ ~act.rolledBack /\ act.applied = NoChange
        /\ w.at = "idle" /\ fresh = {} /\ written = {} /\ lessons = 0
    BY DEF Init, Resting
  <1>2. \A r \in Requests : req[r].op = "none"
    BY DEF Init, NoRequest
  <1>3. Sound(act) /\ WritesApproved /\ TaughtOnce /\ MeasurerKnows
    BY <1>1 DEF Sound, WritesApproved, TaughtOnce, MeasurerKnows
  <1>4. WorkerKnows
    BY <1>1 DEF WorkerKnows, CopyAt, Outside, Undoing, InHandler
  <1>5. \A r \in Requests : RequestKnows(r)
    BY <1>1, <1>2 DEF RequestKnows
  <1> QED
    BY <1>3, <1>4, <1>5 DEF Known

\* The worker goes on with its copy: nothing that is known is about the rest.
LEMMA WalkKnown ==
  ASSUME IInv, NEW place \in Places \ {"idle", "load"},
         w'.at = place, w'.copy = copy,
         UNCHANGED <<act, fresh, req, kind, lessons, written>>,
         CopyAt(place, copy), InHandler
  PROVE  Known'
  <1> USE DEF IInv, Known
  <1>1. Sound(act)' /\ WritesApproved' /\ TaughtOnce' /\ MeasurerKnows'
    BY DEF Sound, WritesApproved, TaughtOnce, MeasurerKnows
  <1>2. \A r \in Requests : RequestKnows(r)'
    BY DEF RequestKnows, MayRequest, MayRollBack
  <1>3. CopyAt(w.at, copy)'
    BY DEF CopyAt, copy, MayRollBack
  <1>4. WorkerKnows'
    BY <1>3 DEF WorkerKnows, copy, InHandler
  <1> QED
    BY <1>1, <1>2, <1>4

\* What the worker makes of its copy when it saves it.
Carries(new) ==
    /\ Sound(copy) => Sound(new)
    /\ new.target = copy.target
    /\ copy.status \in UnderWay => new.status \in UnderWay
    /\ copy.status \in OutcomeStatuses \cup {"rolled_back"} =>
          new.status \in OutcomeStatuses \cup {"rolled_back"}

LEMMA UpdateKnown ==
  ASSUME IInv, InHandler, NEW from, NEW new, NEW next \in Places \ {"idle", "load"},
         Update(from, new, next), Carries(new), CopyAt(next, new)
  PROVE  Known'
  <1> USE DEF IInv, Known
  <1>1. UNCHANGED <<req, kind, lessons, written>>
    BY DEF Update, outsideWorker, siteVars
  <1>2. CASE Saved(Worker, new) /\ GotoWith(next, new)
    <2>1. /\ Worker \in fresh /\ copy = act /\ act' = new /\ fresh' = {Worker}
          /\ w'.at = next /\ w'.copy = new
      BY <1>2 DEF Saved, GotoWith, WorkerKnows, TypeOK, copy
    <2>2. Sound(act)' /\ WritesApproved' /\ TaughtOnce'
      BY <1>1, <2>1 DEF Carries, Sound, WritesApproved, TaughtOnce
    <2>3. MeasurerKnows' /\ \A r \in Requests : RequestKnows(r)'
      BY <1>1, <2>1, ActorsAssumption DEF MeasurerKnows, RequestKnows
    <2>4. CopyAt(w.at, copy)'
      BY <2>1 DEF CopyAt, copy, MayRollBack
    <2>5. WorkerKnows'
      BY <2>1, <2>4 DEF WorkerKnows, copy, InHandler, CopyAt, Outside
    <2> QED
      BY <2>2, <2>3, <2>5
  <1>3. CASE Worker \notin fresh /\ Goto("note") /\ UNCHANGED <<act, fresh>>
    <2>1. w'.at = "note" /\ w'.copy = copy
      BY <1>3 DEF Goto, TypeOK, copy
    <2>2. CopyAt("note", copy)
      BY DEF CopyAt, Outside, Undoing
    <2> QED
      BY <1>1, <1>3, <2>1, <2>2, WalkKnown DEF Places
  <1> QED
    BY <1>2, <1>3 DEF Update

LEMMA GotoKnown ==
  ASSUME IInv, InHandler, NEW place \in Places \ {"idle", "load"}, Goto(place),
         CopyAt(place, copy), UNCHANGED <<act, fresh, outsideWorker, written>>
  PROVE  Known'
  <1>1. w'.at = place /\ w'.copy = copy
    BY DEF Goto, IInv, TypeOK, copy
  <1> QED
    BY <1>1, WalkKnown DEF outsideWorker

LEMMA ReadKnown ==
  ASSUME IInv, InHandler, NEW from, NEW page, NEW place \in Places \ {"idle", "load"},
         ReadPage(from, page, place), CopyAt(place, copy)
  PROVE  Known'
  <1>1. w'.at = place /\ w'.copy = copy
    BY DEF ReadPage, IInv, TypeOK, copy
  <1> QED
    BY <1>1, WalkKnown DEF ReadPage, outsideWorker, siteVars

\* The attempts' beginnings and ends.
LEMMA TakeJobKnown == IInv /\ TakeJob => Known'
  <1> SUFFICES ASSUME IInv, TakeJob PROVE Known'
    OBVIOUS
  <1> USE DEF IInv, Known
  <1>1. /\ w'.at = "load" /\ Worker \notin fresh
        /\ UNCHANGED <<act, fresh, req, kind, lessons, written>>
    BY DEF TakeJob, At, WorkerKnows, Resting, outsideWorker, siteVars
  <1>2. Sound(act)' /\ WritesApproved' /\ TaughtOnce' /\ MeasurerKnows'
    BY <1>1 DEF Sound, WritesApproved, TaughtOnce, MeasurerKnows
  <1>3. \A r \in Requests : RequestKnows(r)'
    BY <1>1 DEF RequestKnows, MayRequest, MayRollBack
  <1>4. WorkerKnows'
    BY <1>1 DEF WorkerKnows, CopyAt, Outside, Undoing, InHandler
  <1> QED
    BY <1>2, <1>3, <1>4

LEMMA LoadKnown == IInv /\ Load => Known'
  <1> SUFFICES ASSUME IInv, Load PROVE Known'
    OBVIOUS
  <1> USE DEF IInv, Known
  <1>1. UNCHANGED <<act, req, kind, lessons, written>> /\ fresh' = fresh \cup {Worker}
    BY DEF Load, outsideWorker, siteVars
  <1>2. PICK place \in {"done", "begin", "rbBegin"} :
          /\ GotoWith(place, act)
          /\ place = "begin" => act.status \in ExecutableStatuses
          /\ place = "rbBegin" => ~act.rolledBack
    BY DEF Load
  <1>3. w'.at = place /\ w'.copy = act
    BY <1>2 DEF GotoWith, TypeOK
  <1>4. Sound(act)' /\ WritesApproved' /\ TaughtOnce'
    BY <1>1 DEF Sound, WritesApproved, TaughtOnce
  <1>5. MeasurerKnows' /\ \A r \in Requests : RequestKnows(r)'
    BY <1>1, ActorsAssumption DEF MeasurerKnows, RequestKnows, MayRequest, MayRollBack
  <1>6. place # "done" => ~act.rolledBack
    BY <1>2 DEF Sound, ExecutableStatuses
  <1>7. CopyAt(place, act)
    BY <1>2, <1>6 DEF CopyAt, Outside, Undoing
  <1>8. WorkerKnows'
    BY <1>1, <1>3, <1>6, <1>7 DEF WorkerKnows, copy, InHandler, CopyAt, MayRollBack
  <1> QED
    BY <1>4, <1>5, <1>8

LEMMA EndKnown == IInv /\ (FinishJob \/ NoteErrorAndRetry \/ Crash) => Known'
  <1> SUFFICES ASSUME IInv, FinishJob \/ NoteErrorAndRetry \/ Crash PROVE Known'
    OBVIOUS
  <1> USE DEF IInv, Known
  <1>1. /\ UNCHANGED <<act, kind, lessons, written>> /\ w' = Resting
        /\ fresh' \subseteq fresh \ {Worker}
    BY DEF FinishJob, NoteErrorAndRetry, Crash, Idle, outsideWorker, siteVars
  <1>2. UNCHANGED req \/ (fresh' = {} /\ req' = [r \in Requests |-> NoRequest])
    BY DEF FinishJob, NoteErrorAndRetry, Crash, outsideWorker
  <1>3. Sound(act)' /\ WritesApproved' /\ TaughtOnce' /\ MeasurerKnows'
    BY <1>1 DEF Sound, WritesApproved, TaughtOnce, MeasurerKnows
  <1>4. \A r \in Requests : RequestKnows(r)'
    <2>1. CASE UNCHANGED req
      BY <1>1, <2>1 DEF RequestKnows, MayRequest, MayRollBack
    <2>2. CASE fresh' = {} /\ req' = [r \in Requests |-> NoRequest]
      <3>1. \A r \in Requests : req'[r].op = "none"
        BY <2>2 DEF NoRequest
      <3> QED
        BY <2>2, <3>1 DEF RequestKnows
    <2> QED
      BY <1>2, <2>1, <2>2
  <1>5. WorkerKnows'
    BY <1>1 DEF WorkerKnows, CopyAt, Outside, Undoing, InHandler, Resting
  <1> QED
    BY <1>3, <1>4, <1>5

\* The execute_action handler: where each step leads, and with what.
LEMMA ExecuteKnown == IInv /\ Execute => Known'
  <1> SUFFICES ASSUME IInv, Execute PROVE Known'
    OBVIOUS
  <1>1. /\ CopyAt(w.at, copy) /\ kind \in {"exact", "rewriting", "manual"}
        /\ w \in Tasks /\ copy \in Actions
    BY KindsAssumption DEF IInv, Known, WorkerKnows, TypeOK, Tasks, copy
  <1>2. CASE Begin
    <2>1. PICK place \in {"verify", "look", "done", "claim", "carryOut"} :
            Goto(place) /\ CopyAt(place, copy) /\ InHandler
      BY <1>1, <1>2
      DEF Begin, ExecutableStatuses, CopyAt, Outside, Undoing, InHandler, At
    <2> QED
      BY <1>2, <2>1, GotoKnown DEF Begin, siteVars, Places
  <1>3. CASE LackCapability \/ WriteRefused
    <2>1. Goto("refuse") /\ CopyAt("refuse", copy) /\ InHandler
      BY <1>1, <1>3
      DEF LackCapability, WriteRefused, CopyAt, Outside, Undoing, InHandler, At
    <2> QED
      BY <1>3, <2>1, GotoKnown DEF LackCapability, WriteRefused, siteVars, Places
  <1>4. CASE ReadBeforeWrite
    <2>1. PICK place \in {"refuse", "write"} : ReadPage("carryOut", OnPage, place)
      BY <1>4 DEF ReadBeforeWrite
    <2>2. CopyAt(place, copy) /\ InHandler
      BY <1>1, <2>1 DEF ReadPage, CopyAt, Outside, Undoing, InHandler, At
    <2> QED
      BY <2>1, <2>2, ReadKnown DEF Places
  <1>5. CASE ReadBack
    <2>1. PICK page : ReadPage("verify", page, "verified")
      BY <1>5 DEF ReadBack
    <2>2. CopyAt("verified", copy) /\ InHandler
      BY <1>1, <2>1 DEF ReadPage, CopyAt, Outside, Undoing, InHandler, At
    <2> QED
      BY <2>1, <2>2, ReadKnown DEF Places
  <1>6. CASE LookForCustomer
    <2>1. PICK place \in {"claimSeen", "wait"} : ReadPage("look", OnPage, place)
      BY <1>6 DEF LookForCustomer
    <2>2. CopyAt(place, copy) /\ InHandler
      BY <1>1, <2>1 DEF ReadPage, CopyAt, Outside, Undoing, InHandler, At
    <2> QED
      BY <2>1, <2>2, ReadKnown DEF Places
  <1>7. CASE WriteSite
    <2>1. PICK place \in {"record", "note"} : Goto(place)
      BY <1>7 DEF WriteSite
    <2>2. /\ InHandler /\ copy.status = "executing" /\ ~copy.rolledBack
          /\ UNCHANGED <<act, fresh, req, kind, lessons>>
          /\ written' = written \cup {copy.target}
          /\ act.status \in UnderWay /\ act.target = copy.target
      BY <1>1, <1>7
      DEF WriteSite, outsideWorker, IInv, Known, WorkerKnows, UnderWay, ActionStatuses,
         At, InHandler, CopyAt, Outside
    <2>3. w'.at = place /\ w'.copy = copy /\ CopyAt(place, copy)
      BY <1>1, <2>1, <2>2 DEF Goto, Tasks, copy, CopyAt, Outside, Undoing
    <2>4. Sound(act)' /\ TaughtOnce' /\ MeasurerKnows' /\ \A r \in Requests : RequestKnows(r)'
      BY <2>2 DEF IInv, Known, Sound, TaughtOnce, MeasurerKnows, RequestKnows, MayRequest,
         MayRollBack
    <2>5. WritesApproved'
      BY <2>2 DEF IInv, Known, WritesApproved
    <2>6. CopyAt(w.at, copy)'
      BY <2>3 DEF copy, MayRollBack, CopyAt
    <2>7. WorkerKnows'
      BY <1>7, <2>1, <2>2, <2>3, <2>6
      DEF IInv, Known, WorkerKnows, WriteSite, At, InHandler, copy
    <2> QED
      BY <2>4, <2>5, <2>7 DEF Known
  <1>8. CASE Claim \/ ClaimSeen
    <2>1. PICK from \in {"claim", "claimSeen"}, place \in {"carryOut", "recordSeen"} :
            Update(from, Moved(copy, "executing"), place)
      BY <1>8 DEF Claim, ClaimSeen
    <2>2. InHandler /\ copy.status = "approved" /\ ~copy.rolledBack
      BY <1>1, <2>1 DEF Update, CopyAt, Outside, InHandler, At
    <2>3. Carries(Moved(copy, "executing"))
      BY <1>1, <2>2
      DEF Carries, Sound, Moved, Actions, UnderWay, OutcomeStatuses, ActionStatuses
    <2>4. CopyAt(place, Moved(copy, "executing"))
      BY <1>1, <2>2 DEF CopyAt, Outside, Undoing, Moved, Actions
    <2> QED
      BY <2>1, <2>2, <2>3, <2>4, UpdateKnown DEF Places
  <1>9. CASE Refuse \/ SaveVerification
    <2>1. PICK from \in {"refuse", "verified"}, s \in {"measurement_window_active", "failed"} :
            Update(from, Moved(copy, s), "done")
      BY <1>9 DEF Refuse, SaveVerification
    <2>2. InHandler /\ copy.status \in {"executing", "executed"} /\ ~copy.rolledBack
      BY <1>1, <2>1 DEF Update, CopyAt, Outside, InHandler, At
    <2>3. Carries(Moved(copy, s))
      BY <1>1, <2>2
      DEF Carries, Sound, Moved, Actions, UnderWay, OutcomeStatuses, ActionStatuses
    <2>4. CopyAt("done", Moved(copy, s))
      BY DEF CopyAt, Outside, Undoing
    <2> QED
      BY <2>1, <2>2, <2>3, <2>4, UpdateKnown DEF Places
  <1>10. CASE Record \/ RecordSeen
    <2> DEFINE new(v, b) ==
          [copy EXCEPT !.status = "executed",
                       !.applied = [previous |-> v, new |-> copy.target, id |-> b]]
    <2>1. PICK v, b : \E from \in {"record", "recordSeen"} : Update(from, new(v, b), "verify")
      BY <1>10 DEF Record, RecordSeen
    <2>2. InHandler /\ copy.status = "executing" /\ ~copy.rolledBack
      BY <1>1, <2>1 DEF Update, CopyAt, Outside, InHandler, At
    <2>3. /\ new(v, b).status = "executed" /\ new(v, b).target = copy.target
          /\ new(v, b).rolledBack = copy.rolledBack /\ new(v, b).applied.new = copy.target
      BY <1>1 DEF Actions
    <2> HIDE DEF new
    <2>4. Carries(new(v, b))
      BY <2>2, <2>3 DEF Carries, Sound, UnderWay, OutcomeStatuses, ActionStatuses
    <2>5. CopyAt("verify", new(v, b))
      BY <2>2, <2>3 DEF CopyAt, Outside, Undoing
    <2> QED
      BY <2>1, <2>2, <2>4, <2>5, UpdateKnown DEF Places
  <1>11. CASE WaitForCustomer
    <2>1. Carries(copy) /\ CopyAt("done", copy) /\ InHandler
      BY <1>11 DEF Carries, CopyAt, Outside, Undoing, InHandler, WaitForCustomer, Update, At
    <2> QED
      BY <1>11, <2>1, UpdateKnown DEF WaitForCustomer, Places
  <1> QED
    BY <1>2, <1>3, <1>4, <1>5, <1>6, <1>7, <1>8, <1>9, <1>10, <1>11 DEF Execute

\* The rollback_action handler: the copy may be rolled back all along.
LEMMA RollBackKnown == IInv /\ RollBack => Known'
  <1> SUFFICES ASSUME IInv, RollBack PROVE Known'
    OBVIOUS
  <1>1. CopyAt(w.at, copy) /\ copy \in Actions
    BY DEF IInv, Known, WorkerKnows, TypeOK, copy
  <1>2. CASE RollbackBegin
    <2>1. PICK place \in {"note", "rbGiveUp", "rbLook", "rbUndo", "rbRead"} :
            Goto(place) /\ (place # "note" => MayRollBack(copy))
      BY <1>2 DEF RollbackBegin
    <2>2. CopyAt(place, copy) /\ InHandler
      BY <1>1, <1>2, <2>1 DEF RollbackBegin, CopyAt, Outside, Undoing, InHandler, At
    <2> QED
      BY <1>2, <2>1, <2>2, GotoKnown DEF RollbackBegin, siteVars, Places
  <1>3. CASE UndoExactly \/ RestoreSite \/ RestoreRefused
    <2>1. PICK place \in {"rbGiveUp", "rbRendered", "rbCheck", "note"} : Goto(place)
      BY <1>3 DEF UndoExactly, RestoreSite, RestoreRefused
    <2>2. CopyAt(place, copy) /\ InHandler
      BY <1>1, <1>3
      DEF UndoExactly, RestoreSite, RestoreRefused, CopyAt, Outside, Undoing, InHandler, At
    <2>3. UNCHANGED <<act, fresh, outsideWorker, written>>
      BY <1>3 DEF UndoExactly, RestoreSite, RestoreRefused, siteVars
    <2> QED
      BY <2>1, <2>2, <2>3, GotoKnown DEF Places
  <1>4. CASE ReadRendered \/ ReadBeforeRestore \/ CheckRestored \/ LookForRestored
    <2>1. PICK from \in {"rbRendered", "rbRead", "rbCheck", "rbLook"},
               place \in {"rbRecord", "rbGiveUp", "rbWrite", "rbWait"} :
            ReadPage(from, OnPage, place)
      BY <1>4 DEF ReadRendered, ReadBeforeRestore, CheckRestored, LookForRestored
    <2>2. CopyAt(place, copy) /\ InHandler
      BY <1>1, <2>1 DEF ReadPage, CopyAt, Outside, Undoing, InHandler, At
    <2> QED
      BY <2>1, <2>2, ReadKnown DEF Places
  <1>5. ASSUME NEW from \in Undoing, NEW new, Update(from, new, "done"),
               new.status \in {copy.status, "rolled_back"},
               new.target = copy.target, new.applied = copy.applied,
               new.rolledBack = copy.rolledBack \/ new.status = "rolled_back"
        PROVE  Known'
    <2>1. InHandler /\ MayRollBack(copy)
      BY <1>1, <1>5 DEF Update, CopyAt, Outside, Undoing, InHandler, At
    <2>2. copy.status \in UnderWay
      BY <2>1 DEF MayRollBack, RollbackableStatuses, UnderWay, ActionStatuses
    <2>3. Carries(new)
      BY <1>5, <2>1, <2>2 DEF Carries, Sound, MayRollBack, UnderWay, ActionStatuses
    <2>4. CopyAt("done", new)
      BY DEF CopyAt, Outside, Undoing
    <2> QED
      BY <1>5, <2>1, <2>3, <2>4, UpdateKnown DEF Places
  <1>6. CASE WaitForRestored
    BY <1>5, <1>6 DEF WaitForRestored, Undoing
  <1>7. CASE GiveUpRollback
    <2> DEFINE new == [copy EXCEPT !.asked = FALSE]
    <2>1. /\ new.status = copy.status /\ new.target = copy.target
          /\ new.applied = copy.applied /\ new.rolledBack = copy.rolledBack
      BY <1>1 DEF Actions
    <2>2. Update("rbGiveUp", new, "done")
      BY <1>7 DEF GiveUpRollback
    <2> HIDE DEF new
    <2> QED
      BY <1>5, <2>1, <2>2 DEF Undoing
  <1>8. CASE RecordRolledBack
    <2> DEFINE new == [copy EXCEPT !.status = "rolled_back", !.rolledBack = TRUE]
    <2>1. /\ new.status = "rolled_back" /\ new.target = copy.target
          /\ new.applied = copy.applied
      BY <1>1 DEF Actions
    <2>2. Update("rbRecord", new, "done")
      BY <1>8 DEF RecordRolledBack
    <2> HIDE DEF new
    <2> QED
      BY <1>5, <2>1, <2>2 DEF Undoing
  <1> QED
    BY <1>2, <1>3, <1>4, <1>6, <1>7, <1>8 DEF RollBack

\* What is known when a request saves: its guard still holds.
LEMMA SavedRequest ==
  ASSUME IInv, NEW r \in Requests, SaveRequest(r)
  PROVE  /\ MayRequest(req[r].op) /\ req[r].op \in {"approve", "reject", "applied", "rollback"}
         /\ act' = Decided(req[r].op, req[r].target) /\ req[r].target \in Titles
         /\ fresh' = {} /\ UNCHANGED <<w, m, kind, siteVars, lessons, budgets>>
  BY ActorsAssumption
  DEF SaveRequest, Saved, IInv, Known, RequestKnows, TypeOK

LEMMA RequestStepKnown ==
  ASSUME IInv, NEW r \in Requests, RequestStep(r)
  PROVE  Known'
  <1> USE DEF IInv, Known
  <1>1. ASSUME NEW op \in {"approve", "reject", "applied", "rollback"}, NEW t \in Targets,
               ReadForRequest(r, op, t)
        PROVE  Known'
    <2>1. /\ UNCHANGED <<act, w, kind, lessons, written>> /\ fresh' = fresh \cup {r}
          /\ req' = [req EXCEPT ![r] = [op |-> op, target |-> t]] /\ MayRequest(op)
      BY <1>1 DEF ReadForRequest, siteVars
    <2>2. Sound(act)' /\ WritesApproved' /\ TaughtOnce' /\ MeasurerKnows'
      BY <2>1, ActorsAssumption DEF Sound, WritesApproved, TaughtOnce, MeasurerKnows
    <2>3. WorkerKnows'
      BY <2>1, ActorsAssumption DEF WorkerKnows, CopyAt, copy, InHandler, MayRollBack
    <2>4. \A other \in Requests : RequestKnows(other)'
      BY <2>1, TitlesAssumption DEF RequestKnows, MayRequest, MayRollBack, TypeOK
    <2> QED
      BY <2>2, <2>3, <2>4
  <1>2. CASE SaveRequest(r)
    <2>1. /\ MayRequest(req[r].op) /\ act' = Decided(req[r].op, req[r].target)
          /\ req[r].op \in {"approve", "reject", "applied", "rollback"}
          /\ fresh' = {} /\ UNCHANGED <<w, kind, lessons, written>>
      BY <1>2, SavedRequest DEF siteVars
    <2>2. act \in Actions
      BY DEF TypeOK
    <2>3. /\ act.status \in UnderWay => act'.status = act.status /\ act'.target = act.target
          /\ act'.rolledBack = act.rolledBack /\ act'.applied = act.applied
          /\ ~act.rolledBack /\ act.status \notin UnderWay => act.applied = NoChange
      BY <2>1, <2>2 DEF Decided, Moved, MayRequest, MayRollBack, Actions, UnderWay, Sound
    <2>4. Sound(act)' /\ WritesApproved' /\ TaughtOnce' /\ MeasurerKnows'
      <3>1. ~act.rolledBack
        BY <2>1 DEF MayRequest, MayRollBack, Sound
      <3> QED
        BY <2>1, <2>3, <3>1
        DEF Sound, WritesApproved, TaughtOnce, MeasurerKnows, UnderWay, ActionStatuses,
            OutcomeStatuses
    <2>5. WorkerKnows'
      BY <2>1, <2>3 DEF WorkerKnows, CopyAt, copy, InHandler, MayRollBack
    <2>6. req' = [req EXCEPT ![r] = NoRequest]
      BY <1>2 DEF SaveRequest
    <2>7. \A other \in Requests : RequestKnows(other)'
      BY <2>1, <2>6 DEF RequestKnows, NoRequest, TypeOK
    <2> QED
      BY <2>4, <2>5, <2>7
  <1>3. CASE ConflictRequest(r)
    <2>1. /\ UNCHANGED <<act, fresh, w, kind, lessons, written>> /\ r \notin fresh
          /\ req' = [req EXCEPT ![r] = NoRequest]
      BY <1>3 DEF ConflictRequest, siteVars
    <2>2. Sound(act)' /\ WritesApproved' /\ TaughtOnce' /\ MeasurerKnows'
      BY <2>1 DEF Sound, WritesApproved, TaughtOnce, MeasurerKnows
    <2>3. WorkerKnows'
      BY <2>1 DEF WorkerKnows, CopyAt, copy, InHandler, MayRollBack
    <2>4. \A other \in Requests : RequestKnows(other)'
      BY <2>1 DEF RequestKnows, NoRequest, MayRequest, MayRollBack, TypeOK
    <2> QED
      BY <2>2, <2>3, <2>4
  <1> QED
    BY <1>1, <1>2, <1>3 DEF RequestStep

LEMMA MeasureKnown == IInv /\ Measure => Known'
  <1> SUFFICES ASSUME IInv, Measure PROVE Known'
    OBVIOUS
  <1> USE DEF IInv, Known
  <1>1. UNCHANGED <<w, req, kind, written>>
    BY DEF Measure, ReadForSettling, SaveOutcome, SkipOutcome, siteVars
  <1>2. CASE ReadForSettling \/ SkipOutcome
    <2>1. /\ UNCHANGED <<act, lessons>> /\ fresh \subseteq fresh'
          /\ fresh' \subseteq fresh \cup {Measurer}
      BY <1>2 DEF ReadForSettling, SkipOutcome
    <2>2. Sound(act)' /\ WritesApproved' /\ TaughtOnce'
      BY <1>1, <2>1 DEF Sound, WritesApproved, TaughtOnce
    <2>3. MeasurerKnows'
      BY <1>2 DEF ReadForSettling, SkipOutcome, MeasurerKnows
    <2>4. WorkerKnows'
      BY <1>1, <2>1, ActorsAssumption DEF WorkerKnows, CopyAt, copy, InHandler, MayRollBack
    <2>5. \A r \in Requests : RequestKnows(r)'
      BY <1>1, <2>1, ActorsAssumption DEF RequestKnows, MayRequest, MayRollBack
    <2> QED
      BY <2>2, <2>3, <2>4, <2>5
  <1>3. CASE SaveOutcome
    <2>1. PICK s \in OutcomeStatuses : act' = Moved(act, s)
      BY <1>3 DEF SaveOutcome, Saved
    <2>2. /\ Measurer \in fresh /\ fresh' = {} /\ lessons' = lessons + 1
      BY <1>3, ActorsAssumption DEF SaveOutcome, Saved
    <2>3. act.status \in WatchedStatuses /\ ~act.rolledBack /\ lessons = 0
      BY <2>2 DEF MeasurerKnows, WatchedStatuses, Sound, TaughtOnce, OutcomeStatuses
    <2>4. /\ act'.status = s /\ act'.target = act.target /\ act'.applied = act.applied
          /\ act'.rolledBack = act.rolledBack
      BY <2>1 DEF Moved, TypeOK, Actions
    <2>5. s \in UnderWay /\ act.status \in UnderWay
      BY <2>3 DEF OutcomeStatuses, WatchedStatuses, UnderWay, ActionStatuses
    <2>6. Sound(act)' /\ WritesApproved' /\ MeasurerKnows'
      BY <1>1, <2>2, <2>3, <2>4, <2>5 DEF Sound, WritesApproved, MeasurerKnows
    <2>7. TaughtOnce'
      BY <2>2, <2>3, <2>4 DEF TaughtOnce
    <2>8. WorkerKnows'
      BY <1>1, <2>2, <2>3, <2>4, <2>5 DEF WorkerKnows, CopyAt, copy, InHandler, MayRollBack
    <2>9. \A r \in Requests : RequestKnows(r)'
      BY <1>1, <2>2 DEF RequestKnows
    <2> QED
      BY <2>6, <2>7, <2>8, <2>9
  <1> QED
    BY <1>2, <1>3 DEF Measure

LEMMA LeftKnown ==
  ASSUME IInv, UNCHANGED <<act, fresh, w, req, kind, lessons, written>>
  PROVE  Known'
  <1> USE DEF IInv, Known
  <1>1. Sound(act)' /\ WritesApproved' /\ TaughtOnce' /\ MeasurerKnows'
    BY DEF Sound, WritesApproved, TaughtOnce, MeasurerKnows
  <1>2. WorkerKnows'
    BY DEF WorkerKnows, CopyAt, copy, InHandler, MayRollBack
  <1>3. \A r \in Requests : RequestKnows(r)'
    BY DEF RequestKnows, MayRequest, MayRollBack
  <1> QED
    BY <1>1, <1>2, <1>3

LEMMA EnvironmentKnown == IInv /\ Environment => Known'
  <1> SUFFICES ASSUME IInv, Environment PROVE Known'
    OBVIOUS
  <1>1. CASE (\E t \in Titles : EditPage(t) \/ LaterOverride(t)) \/ ServePage
    BY <1>1, LeftKnown DEF EditPage, LaterOverride, ServePage, outsideWorker
  <1>2. CASE Fault
    <2>1. CopyAt("note", copy)
      BY DEF CopyAt, Outside, Undoing
    <2> QED
      BY <1>2, <2>1, GotoKnown DEF Fault, siteVars, Places
  <1>3. CASE Crash
    BY <1>3, EndKnown
  <1> QED
    BY <1>1, <1>2, <1>3 DEF Environment

LEMMA NextIInv == IInv /\ [Next]_vars => IInv'
  <1> SUFFICES ASSUME IInv, [Next]_vars PROVE IInv'
    OBVIOUS
  <1>1. CASE WorkerStep
    BY <1>1, Typed, TakeJobKnown, LoadKnown, EndKnown, ExecuteKnown, RollBackKnown
    DEF WorkerStep, IInv
  <1>2. CASE \E r \in Requests : RequestStep(r)
    BY <1>2, Typed, RequestStepKnown DEF IInv
  <1>3. CASE Measure
    BY <1>3, Typed, MeasureKnown DEF IInv
  <1>4. CASE Environment
    BY <1>4, Typed, EnvironmentKnown DEF IInv
  <1>5. CASE UNCHANGED vars
    BY <1>5, Typed, LeftKnown DEF IInv, vars, siteVars
  <1> QED
    BY <1>1, <1>2, <1>3, <1>4, <1>5 DEF Next
-----------------------------------------------------------------------------
(***************************************************************************)
(* What a step makes of the action.                                        *)
(***************************************************************************)
Recorded(a, v, b) ==
    [a EXCEPT !.status = "executed",
              !.applied = [previous |-> v, new |-> a.target, id |-> b]]

\* The worker's saves, each from the status its place tells.
Claims == act.status = "approved" /\ act' = Moved(act, "executing")
Fails == act.status = "executing" /\ act' = Moved(act, "failed")
Records == act.status = "executing" /\ \E v, b : act' = Recorded(act, v, b)
Verifies ==
    /\ act.status = "executed"
    /\ \E s \in {"measurement_window_active", "failed"} : act' = Moved(act, s)
GivesUp == MayRollBack(act) /\ act' = [act EXCEPT !.asked = FALSE]
Undoes ==
    /\ MayRollBack(act)
    /\ act' = [act EXCEPT !.status = "rolled_back", !.rolledBack = TRUE]
WorkerSaves == Claims \/ Fails \/ Records \/ Verifies \/ GivesUp \/ Undoes

\* A save goes through only when the copy is the stored action.
LEMMA SavedIsStored ==
  ASSUME IInv, NEW from, NEW new, NEW next, Update(from, new, next)
  PROVE  /\ UNCHANGED act \/ (copy = act /\ act' = new)
         /\ UNCHANGED <<lessons, written>>
  BY DEF Update, Saved, IInv, Known, WorkerKnows, outsideWorker, siteVars

LEMMA ExecuteSaves == IInv /\ Execute =>
    /\ UNCHANGED lessons /\ ~act.rolledBack
    /\ \/ UNCHANGED act /\ (UNCHANGED written \/ WriteSite)
       \/ WorkerSaves /\ UNCHANGED written
  <1> SUFFICES ASSUME IInv, Execute
               PROVE  /\ UNCHANGED lessons /\ ~act.rolledBack
                      /\ \/ UNCHANGED act /\ (UNCHANGED written \/ WriteSite)
                         \/ WorkerSaves /\ UNCHANGED written
    OBVIOUS
  <1>1. CopyAt(w.at, copy)
    BY DEF IInv, Known, WorkerKnows
  <1>2. ~act.rolledBack
    BY DEF IInv, Known, WorkerKnows, InHandler, Execute, Begin, Claim, LackCapability,
       ReadBeforeWrite, Refuse, WriteSite, WriteRefused, Record, ReadBack,
       SaveVerification, LookForCustomer, WaitForCustomer, ClaimSeen, RecordSeen, Update,
       ReadPage, At
  <1>3. CASE Begin \/ LackCapability \/ ReadBeforeWrite \/ WriteSite \/ WriteRefused
             \/ ReadBack \/ LookForCustomer
    BY <1>2, <1>3 DEF Begin, LackCapability, ReadBeforeWrite, WriteSite, WriteRefused,
       ReadBack, LookForCustomer, ReadPage, outsideWorker, siteVars
  <1>4. CASE Claim \/ ClaimSeen
    <2>1. copy.status = "approved"
      BY <1>1, <1>4 DEF Claim, ClaimSeen, Update, At, CopyAt
    <2> QED
      BY <1>2, <1>4, <2>1, SavedIsStored DEF Claim, ClaimSeen, WorkerSaves, Claims
  <1>5. CASE Refuse
    <2>1. copy.status = "executing"
      BY <1>1, <1>5 DEF Refuse, Update, At, CopyAt
    <2> QED
      BY <1>2, <1>5, <2>1, SavedIsStored DEF Refuse, WorkerSaves, Fails
  <1>6. CASE Record \/ RecordSeen
    <2>1. copy.status = "executing"
      BY <1>1, <1>6 DEF Record, RecordSeen, Update, At, CopyAt
    <2>2. PICK v, b : \E from \in {"record", "recordSeen"} :
             Update(from, Recorded(copy, v, b), "verify")
      BY <1>6 DEF Record, RecordSeen, Recorded
    <2> QED
      BY <1>2, <2>1, <2>2, SavedIsStored DEF WorkerSaves, Records
  <1>7. CASE SaveVerification
    <2>1. copy.status = "executed"
      BY <1>1, <1>7 DEF SaveVerification, Update, At, CopyAt
    <2>2. PICK s \in {"measurement_window_active", "failed"} :
             Update("verified", Moved(copy, s), "done")
      BY <1>7 DEF SaveVerification
    <2> QED
      BY <1>2, <2>1, <2>2, SavedIsStored DEF WorkerSaves, Verifies
  <1>8. CASE WaitForCustomer
    BY <1>2, <1>8, SavedIsStored DEF WaitForCustomer
  <1> QED
    BY <1>3, <1>4, <1>5, <1>6, <1>7, <1>8 DEF Execute

LEMMA RollBackSaves == IInv /\ RollBack =>
    /\ UNCHANGED <<lessons, written>> /\ ~act.rolledBack
    /\ UNCHANGED act \/ WorkerSaves
  <1> SUFFICES ASSUME IInv, RollBack
               PROVE  /\ UNCHANGED <<lessons, written>> /\ ~act.rolledBack
                      /\ UNCHANGED act \/ WorkerSaves
    OBVIOUS
  <1>1. CopyAt(w.at, copy)
    BY DEF IInv, Known, WorkerKnows
  <1>2. ~act.rolledBack
    BY DEF IInv, Known, WorkerKnows, InHandler, RollBack, RollbackBegin, UndoExactly,
       ReadRendered, ReadBeforeRestore, RestoreSite, RestoreRefused, CheckRestored,
       LookForRestored, WaitForRestored, GiveUpRollback, RecordRolledBack, Update,
       ReadPage, At
  <1>3. CASE RollbackBegin \/ UndoExactly \/ ReadRendered \/ ReadBeforeRestore
             \/ RestoreSite \/ RestoreRefused \/ CheckRestored \/ LookForRestored
    BY <1>2, <1>3 DEF RollbackBegin, UndoExactly, ReadRendered, ReadBeforeRestore,
       RestoreSite, RestoreRefused, CheckRestored, LookForRestored, ReadPage,
       outsideWorker, siteVars
  <1>4. CASE WaitForRestored
    BY <1>2, <1>4, SavedIsStored DEF WaitForRestored
  <1>5. CASE GiveUpRollback \/ RecordRolledBack
    <2>1. MayRollBack(copy)
      BY <1>1, <1>5 DEF GiveUpRollback, RecordRolledBack, Update, At, CopyAt, Undoing
    <2> QED
      BY <1>2, <1>5, <2>1, SavedIsStored
      DEF GiveUpRollback, RecordRolledBack, WorkerSaves, GivesUp, Undoes
  <1> QED
    BY <1>3, <1>4, <1>5 DEF RollBack

\* Every step: a request's decision, an outcome, the worker's writes and saves.
LEMMA ActionSteps ==
  ASSUME IInv, [Next]_vars
  PROVE  \/ \E r \in Requests : SaveRequest(r)
         \/ SaveOutcome
         \/ /\ UNCHANGED lessons /\ ~act.rolledBack
            /\ \/ UNCHANGED act /\ WriteSite
               \/ WorkerSaves /\ UNCHANGED written
         \/ UNCHANGED <<act, written, lessons>>
  <1>1. CASE WorkerStep
    <2>1. CASE Execute
      BY <2>1, ExecuteSaves
    <2>2. CASE RollBack
      BY <2>2, RollBackSaves
    <2>3. CASE TakeJob \/ Load \/ FinishJob \/ NoteErrorAndRetry
      BY <2>3 DEF TakeJob, Load, FinishJob, NoteErrorAndRetry, outsideWorker, siteVars
    <2> QED
      BY <1>1, <2>1, <2>2, <2>3 DEF WorkerStep
  <1>2. CASE \E r \in Requests : RequestStep(r)
    BY <1>2 DEF RequestStep, ReadForRequest, ConflictRequest, siteVars
  <1>3. CASE Measure
    BY <1>3 DEF Measure, ReadForSettling, SkipOutcome, siteVars
  <1>4. CASE Environment
    BY <1>4
    DEF Environment, EditPage, LaterOverride, ServePage, Fault, Crash, outsideWorker, siteVars
  <1>5. CASE UNCHANGED vars
    BY <1>5 DEF vars, siteVars
  <1> QED
    BY <1>1, <1>2, <1>3, <1>4, <1>5 DEF Next
-----------------------------------------------------------------------------
LEMMA SpecIInv == Spec => []IInv
  <1>1. Init => IInv
    BY InitTyped, InitKnown DEF IInv
  <1> QED
    BY <1>1, NextIInv, PTL DEF Spec

\* The action, the queue of its jobs, the worker, the requests, the loop and
\* the site keep their types, and no job is tried more often than its
\* max_attempts (app/action, app/measurement/runner.py).
THEOREM SpecTypeOK == Spec => []TypeOK
  <1>1. IInv => TypeOK
    BY DEF IInv
  <1> QED
    BY <1>1, SpecIInv, PTL

\* "A person decides before anything touches a customer's site"
\* (app/action/approval.py): with any number of requests, attempts, faults and
\* crashes, only the approved title is ever written.
THEOREM SpecNoWriteWithoutApproval == Spec => []NoWriteWithoutApproval
  <1>1. IInv => NoWriteWithoutApproval
    BY DEF IInv, Known, WritesApproved, NoWriteWithoutApproval, UnderWay
  <1> QED
    BY <1>1, SpecIInv, PTL

\* One action teaches once (settle, app/measurement/runner.py).
THEOREM SpecOneLesson == Spec => []OneLesson
  <1>1. IInv => OneLesson
    BY DEF IInv, Known, TaughtOnce, OneLesson
  <1> QED
    BY <1>1, SpecIInv, PTL

\* What is known when an outcome is saved: what the loop read still holds.
LEMMA SavedOutcome ==
  ASSUME IInv, SaveOutcome
  PROVE  /\ act.status \in WatchedStatuses /\ act.applied # NoChange /\ ~act.asked
         /\ ~act.rolledBack /\ lessons = 0 /\ lessons' = 1 /\ UNCHANGED written
         /\ \E s \in OutcomeStatuses : act' = Moved(act, s)
  BY DEF SaveOutcome, Saved, IInv, Known, MeasurerKnows, Sound, TaughtOnce,
     WatchedStatuses, OutcomeStatuses, siteVars

\* No outcome is recorded of a change whose rollback is asked for or made
\* (rollback_pending, app/measurement/runner.py).
THEOREM SpecPendingRollbackNotMeasured == Spec => PendingRollbackNotMeasured
  <1>1. IInv /\ [Next]_vars => (lessons' # lessons => ~act.asked /\ ~act.rolledBack)
    <2> SUFFICES ASSUME IInv, [Next]_vars, lessons' # lessons
                 PROVE  ~act.asked /\ ~act.rolledBack
      OBVIOUS
    <2>1. SaveOutcome
      BY ActionSteps, SavedRequest
    <2> QED
      BY <2>1, SavedOutcome
  <1> QED
    BY <1>1, SpecIInv, PTL DEF Spec, PendingRollbackNotMeasured

\* transition_action never has to refuse: what every writer has checked
\* before still holds when it saves (app/action/state_machine.py).
LEMMA TableStep ==
  ASSUME IInv, [Next]_vars
  PROVE  /\ act'.status # act.status =>
             \E via \in ActionStatuses :
                /\ via = act.status \/ CanTransition(act.status, via)
                /\ CanTransition(via, act'.status)
         /\ act.rolledBack => act' = act
  <1> DEFINE Follows(from, to) ==
        \E via \in ActionStatuses :
           (via = from \/ CanTransition(from, via)) /\ CanTransition(via, to)
  <1>1. act \in Actions
    BY DEF IInv, TypeOK
  <1>2. \A from, to \in ActionStatuses : CanTransition(from, to) => Follows(from, to)
    OBVIOUS
  <1>3. \A s \in ActionStatuses : Moved(act, s).status = s
    BY <1>1 DEF Moved, Actions
  <1>4. CASE \E r \in Requests : SaveRequest(r)
    <2>1. PICK r \in Requests : SaveRequest(r)
      BY <1>4
    <2>2. MayRequest(req[r].op) /\ act' = Decided(req[r].op, req[r].target)
          /\ req[r].op \in {"approve", "reject", "applied", "rollback"}
      BY <2>1, SavedRequest
    <2>3. ~act.rolledBack
      BY <2>2 DEF MayRequest, MayRollBack, IInv, Known, Sound
    <2>4. act'.status # act.status => CanTransition(act.status, act'.status)
      BY <1>1, <2>2
      DEF MayRequest, Decided, Moved, Actions, CanTransition, AllowedTransitions
    <2>5. act'.status \in ActionStatuses
      BY <1>1, <2>2 DEF Decided, Moved, Actions, ActionStatuses
    <2> QED
      BY <1>1, <1>2, <2>3, <2>4, <2>5 DEF Actions
  <1>5. CASE SaveOutcome
    <2>1. PICK s \in OutcomeStatuses : act' = Moved(act, s)
      BY <1>5, SavedOutcome
    <2>2. act.status \in WatchedStatuses /\ ~act.rolledBack
      BY <1>5, SavedOutcome
    <2>3. /\ "evaluating" \in ActionStatuses /\ CanTransition("evaluating", s)
          /\ "evaluating" = act.status \/ CanTransition(act.status, "evaluating")
      BY <2>2
      DEF ActionStatuses, WatchedStatuses, OutcomeStatuses, CanTransition, AllowedTransitions
    <2>4. act'.status = s
      BY <1>3, <2>1 DEF OutcomeStatuses, ActionStatuses
    <2> QED
      BY <2>2, <2>3, <2>4
  <1>6. CASE WorkerSaves /\ ~act.rolledBack
    <2>1. CASE Claims \/ Fails
      <3>1. /\ act'.status \in {"executing", "failed"}
            /\ CanTransition(act.status, act'.status)
        BY <1>3, <2>1 DEF Claims, Fails, CanTransition, AllowedTransitions, ActionStatuses
      <3> QED
        BY <1>1, <1>2, <1>6, <3>1 DEF Actions, ActionStatuses
    <2>2. CASE Records
      <3>1. act'.status = "executed" /\ act.status = "executing"
        BY <1>1, <2>2 DEF Records, Recorded, Actions
      <3>2. CanTransition("executing", "executed")
        BY DEF CanTransition, AllowedTransitions
      <3> QED
        BY <1>2, <1>6, <3>1, <3>2 DEF ActionStatuses
    <2>3. CASE Verifies
      <3>1. /\ act'.status \in {"measurement_window_active", "failed"}
            /\ act.status = "executed"
        BY <1>3, <2>3 DEF Verifies, ActionStatuses
      <3>2. /\ CanTransition("executed", "waiting_for_recrawl")
            /\ CanTransition("waiting_for_recrawl", act'.status)
        BY <3>1 DEF CanTransition, AllowedTransitions
      <3> QED
        BY <1>6, <3>1, <3>2 DEF ActionStatuses
    <2>4. CASE GivesUp
      <3>1. act'.status = act.status
        BY <1>1, <2>4 DEF GivesUp, Actions
      <3> QED
        BY <1>6, <3>1
    <2>5. CASE Undoes
      <3>1. act'.status = "rolled_back" /\ act.status \in RollbackableStatuses
        BY <1>1, <2>5 DEF Undoes, Actions, MayRollBack
      <3>2. CanTransition(act.status, "rolled_back")
        BY <3>1 DEF RollbackableStatuses, CanTransition, AllowedTransitions
      <3> QED
        BY <1>1, <1>2, <1>6, <3>1, <3>2 DEF Actions, ActionStatuses
    <2> QED
      BY <1>6, <2>1, <2>2, <2>3, <2>4, <2>5 DEF WorkerSaves
  <1> QED
    BY <1>4, <1>5, <1>6, ActionSteps

\* Every save moves the action along ALLOWED_TRANSITIONS, whatever interleaves.
THEOREM SpecStatusFollowsTable == Spec => StatusFollowsTable
  <1>1. UNCHANGED vars => UNCHANGED act
    BY DEF vars
  <1> QED
    BY TableStep, SpecIInv, PTL DEF Spec, StatusFollowsTable
-----------------------------------------------------------------------------
(***************************************************************************)
(* The contract.                                                           *)
(***************************************************************************)
contractVars == <<verdictBar, act.target, putBar, act.rolledBack, lessons > 0>>

\* A change under way was approved, and nothing of one that is not is on the page.
LEMMA Verdict ==
  ASSUME IInv
  PROVE  /\ act.status \in UnderWay => verdictBar = "approved"
         /\ act.status = "approved" => verdictBar = "approved"
         /\ act.status \notin UnderWay => putBar = {}
         /\ putBar \subseteq {act.target}
  <1>1. act.status \notin UnderWay => written = {} /\ act.applied = NoChange
    BY DEF IInv, Known, WritesApproved, Sound
  <1>2. written \subseteq {act.target}
    BY DEF IInv, Known, WritesApproved
  <1>3. act.applied # NoChange => act.applied.new = act.target
    BY DEF IInv, Known, Sound
  <1> QED
    BY <1>1, <1>2, <1>3 DEF UnderWay, verdictBar, putBar

LEMMA RequestContract ==
  ASSUME IInv, NEW r \in Requests, SaveRequest(r)
  PROVE  Contract!Next \/ UNCHANGED contractVars
  <1>1. /\ MayRequest(req[r].op) /\ act' = Decided(req[r].op, req[r].target)
        /\ req[r].op \in {"approve", "reject", "applied", "rollback"}
        /\ req[r].target \in Titles /\ UNCHANGED <<written, lessons>>
    BY SavedRequest DEF siteVars
  <1>2. act \in Actions
    BY DEF IInv, TypeOK
  <1>3. CASE req[r].op = "approve"
    <2>1. /\ act.status = "awaiting_approval" /\ act'.status = "approved"
          /\ act'.target = req[r].target /\ act'.applied = act.applied
          /\ act'.rolledBack = act.rolledBack
      BY <1>1, <1>2, <1>3 DEF MayRequest, Decided, Actions
    <2>2. verdictBar = "open" /\ verdictBar' = "approved" /\ putBar' = putBar
      BY <1>1, <2>1 DEF verdictBar, putBar
    <2> QED
      BY <1>1, <2>1, <2>2 DEF Contract!Next, Contract!Approve
  <1>4. CASE req[r].op = "reject"
    <2>1. /\ act.status \in {"awaiting_approval", "approved"} /\ act'.status = "rejected"
          /\ act'.target = act.target /\ act'.applied = act.applied
          /\ act'.rolledBack = act.rolledBack
      BY <1>1, <1>2, <1>4 DEF MayRequest, Decided, Moved, Actions
    <2>2. verdictBar # "refused" /\ verdictBar' = "refused" /\ putBar' = putBar
      BY <1>1, <2>1 DEF verdictBar, putBar
    <2>3. putBar = {}
      BY <2>1, Verdict DEF UnderWay
    <2> QED
      BY <1>1, <2>1, <2>2, <2>3 DEF Contract!Next, Contract!Refuse
  <1>5. CASE req[r].op \in {"applied", "rollback"}
    <2>1. /\ act'.status = act.status /\ act'.target = act.target
          /\ act'.applied = act.applied /\ act'.rolledBack = act.rolledBack
      BY <1>1, <1>2, <1>5 DEF Decided, Actions
    <2> QED
      BY <1>1, <2>1 DEF contractVars, verdictBar, putBar
  <1> QED
    BY <1>1, <1>3, <1>4, <1>5

LEMMA OutcomeContract ==
  ASSUME IInv, SaveOutcome
  PROVE  Contract!Next
  <1>1. PICK s \in OutcomeStatuses : act' = Moved(act, s)
    BY SavedOutcome
  <1>2. /\ act.status \in WatchedStatuses /\ act.applied # NoChange /\ ~act.rolledBack
        /\ lessons = 0 /\ lessons' = 1 /\ UNCHANGED written
    BY SavedOutcome
  <1>3. /\ act'.status = s /\ act'.target = act.target /\ act'.applied = act.applied
        /\ act'.rolledBack = act.rolledBack
    BY <1>1 DEF Moved, IInv, TypeOK, Actions
  <1>4. verdictBar' = verdictBar
    BY <1>2, <1>3 DEF verdictBar, WatchedStatuses, OutcomeStatuses
  <1>5. putBar' = putBar /\ putBar # {}
    BY <1>2, <1>3 DEF putBar
  <1>6. ~(lessons > 0) /\ (lessons > 0)' = TRUE
    BY <1>2
  <1> QED
    BY <1>2, <1>3, <1>4, <1>5, <1>6 DEF Contract!Next, Contract!Teach

LEMMA WriteContract ==
  ASSUME IInv, WriteSite
  PROVE  Contract!Next
  <1>1. /\ copy.status = "executing" /\ ~act.rolledBack
        /\ act.status \in UnderWay /\ act.target = copy.target
    BY DEF IInv, Known, WorkerKnows, CopyAt, WriteSite, At, InHandler, UnderWay,
       ActionStatuses
  <1>2. written' = written \cup {act.target} /\ UNCHANGED <<act, lessons>>
    BY <1>1 DEF WriteSite, outsideWorker
  <1>3. putBar' = putBar \cup {act.target} /\ verdictBar' = verdictBar
    BY <1>2 DEF putBar, verdictBar
  <1>4. verdictBar = "approved"
    BY <1>1, Verdict
  <1> QED
    BY <1>1, <1>2, <1>3, <1>4 DEF Contract!Next, Contract!Put

LEMMA SaveContract ==
  ASSUME IInv, WorkerSaves, UNCHANGED <<written, lessons>>, ~act.rolledBack
  PROVE  Contract!Next \/ UNCHANGED contractVars
  <1>1. act \in Actions
    BY DEF IInv, TypeOK
  <1>2. CASE Claims \/ Fails \/ Verifies
    <2>1. PICK s \in {"executing", "failed", "measurement_window_active"} :
             act' = Moved(act, s)
      BY <1>2 DEF Claims, Fails, Verifies
    <2>2. act.status \in {"approved", "executing", "executed"}
      BY <1>2 DEF Claims, Fails, Verifies
    <2>3. /\ act'.status = s /\ act'.target = act.target
          /\ act'.applied = act.applied /\ act'.rolledBack = act.rolledBack
      BY <1>1, <2>1 DEF Moved, Actions
    <2> QED
      BY <2>2, <2>3 DEF contractVars, verdictBar, putBar
  <1>3. CASE Records
    <2>1. PICK v, b : act' = Recorded(act, v, b)
      BY <1>3 DEF Records
    <2>2. /\ act.status = "executing" /\ act'.status = "executed"
          /\ act'.target = act.target /\ act'.rolledBack = act.rolledBack
          /\ act'.applied = [previous |-> v, new |-> act.target, id |-> b]
      BY <1>1, <1>3, <2>1 DEF Records, Recorded, Actions
    <2>3. act'.applied # NoChange /\ act'.applied.new = act.target
      <3>1. act.target \in Titles
        BY <1>1 DEF Actions
      <3> QED
        BY <2>2, <3>1, TitlesAssumption DEF NoChange
    <2>4. putBar' = putBar \cup {act.target}
      <3>1. putBar' = written \cup {act.target}
        BY <2>3 DEF putBar
      <3>2. act.applied # NoChange => act.applied.new = act.target
        BY DEF IInv, Known, Sound
      <3> QED
        BY <3>1, <3>2 DEF putBar
    <2>5. verdictBar = "approved" /\ verdictBar' = "approved"
      BY <2>2 DEF verdictBar
    <2> QED
      BY <2>2, <2>4, <2>5 DEF Contract!Next, Contract!Put
  <1>4. CASE GivesUp
    <2>1. /\ act'.status = act.status /\ act'.target = act.target
          /\ act'.applied = act.applied /\ act'.rolledBack = act.rolledBack
      BY <1>1, <1>4 DEF GivesUp, Actions
    <2> QED
      BY <2>1 DEF contractVars, verdictBar, putBar
  <1>5. CASE Undoes
    <2>1. /\ act'.status = "rolled_back" /\ act'.target = act.target
          /\ act'.applied = act.applied /\ act'.rolledBack = TRUE
      BY <1>1, <1>5 DEF Undoes, Actions
    <2>2. act.applied # NoChange /\ act.status \in RollbackableStatuses
      BY <1>5 DEF Undoes, MayRollBack
    <2>3. verdictBar' = verdictBar
      BY <2>1, <2>2 DEF verdictBar, RollbackableStatuses
    <2>4. putBar' = putBar /\ putBar # {}
      BY <2>1, <2>2 DEF putBar
    <2> QED
      BY <2>1, <2>3, <2>4 DEF Contract!Next, Contract!Undo
  <1> QED
    BY <1>2, <1>3, <1>4, <1>5 DEF WorkerSaves

\* The action from its proposal to its end keeps what ActionContract promises
\* the customer (app/action, app/measurement/runner.py): only the approved
\* title, a refusal that is kept, one undoing, one lesson.
THEOREM SpecImplementsContract == Spec => ImplementsContract
  <1>1. Init => Contract!Init
    <2> SUFFICES ASSUME Init PROVE Contract!Init
      OBVIOUS
    <2>1. /\ act.status = "awaiting_approval" /\ act.target \in Titles
          /\ act.applied = NoChange /\ act.rolledBack = FALSE
          /\ written = {} /\ lessons = 0
      BY TitlesAssumption DEF Init
    <2>2. (lessons > 0) = FALSE
      BY <2>1
    <2> QED
      BY <2>1, <2>2 DEF Contract!Init, verdictBar, putBar
  <1>2. IInv /\ [Next]_vars => [Contract!Next]_contractVars
    <2> SUFFICES ASSUME IInv, [Next]_vars PROVE [Contract!Next]_contractVars
      OBVIOUS
    <2>1. CASE \E r \in Requests : SaveRequest(r)
      BY <2>1, RequestContract
    <2>2. CASE SaveOutcome
      BY <2>2, OutcomeContract
    <2>3. CASE WriteSite
      BY <2>3, WriteContract
    <2>4. CASE WorkerSaves /\ UNCHANGED <<written, lessons>> /\ ~act.rolledBack
      BY <2>4, SaveContract
    <2>5. CASE UNCHANGED <<act, written, lessons>>
      BY <2>5 DEF contractVars, verdictBar, putBar
    <2> QED
      BY <2>1, <2>2, <2>3, <2>4, <2>5, ActionSteps
  <1> QED
    BY <1>1, <1>2, SpecIInv, PTL
    DEF Spec, ImplementsContract, Contract!Spec, Contract!vars, contractVars
-----------------------------------------------------------------------------
(* What the site and the jobs have to do with the action's end.             *)
\* What RolledBackIsUndone says of an action.
Undone(a) ==
    /\ a.applied.id => site.entry.undone
    /\ (kind = "rewriting" /\ lastBy = "system") => site.base = a.applied.previous

\* The worker's place tells how it undoes, and how far it is.
UndoneOnSite ==
    /\ kind # "exact" => site.override = Unknown
    /\ act.applied.id \/ copy.applied.id => kind = "exact"
    /\ w.at \in {"rbUndo", "rbRendered"} => kind = "exact"
    /\ w.at \in {"rbRead", "rbWrite", "rbCheck", "rbLook"} => ~copy.applied.id
    /\ w.at = "rbLook" => kind = "manual"
    /\ w.at = "rbRendered" => site.entry.undone
    /\ w.at = "rbRecord" => Undone(copy)
    /\ act.status = "rolled_back" => act.rolledBack /\ Undone(act)

\* A job that still works for the action: the worker is not at its end.
Works(n) ==
    /\ jobs[n].type = "execute"
    /\ \/ jobs[n].status \in {"queued", "failed"}
       \/ jobs[n].status = "running" /\ w.job = n /\ w.at # "done"
WorkHasJob ==
    kind # "manual" /\ act.status \in {"approved", "executing"} =>
        \E n \in JobSlots : Works(n)

\* The worker's job, and what its place tells of it; jobs fill the slots in order.
Working ==
    /\ w.at = "idle" => w.job = 0
    /\ w.at # "idle" => w.job \in JobSlots /\ jobs[w.job].status = "running"
    /\ w.at \in Undoing \cup {"rbBegin"} => jobs[w.job].type = "rollback"
    /\ w.at \in {"look", "wait", "claimSeen"} => kind = "manual"
    /\ \A n \in JobSlots : jobs[n].type = "none" => jobs[n].status = "none"
InOrder ==
    \E used \in 0..MaxJobs : \A n \in JobSlots : jobs[n].type # "none" <=> n <= used

EInv == IInv /\ UndoneOnSite /\ WorkHasJob /\ Working /\ InOrder
-----------------------------------------------------------------------------
(***************************************************************************)
(* A rollback that is recorded was made.                                   *)
(***************************************************************************)

\* The worker saves what it has made of its copy.
LEMMA UpdateUndone ==
  ASSUME EInv, InHandler, NEW from, NEW new, NEW next \in Places \ Undoing,
         Update(from, new, next),
         new.applied.id => kind = "exact",
         new.status = "rolled_back" => new.rolledBack /\ Undone(new)
  PROVE  UndoneOnSite'
  <1> USE DEF EInv, UndoneOnSite
  <1>1. UNCHANGED <<site, kind, lastBy>>
    BY DEF Update, outsideWorker, siteVars
  <1>2. w \in Tasks
    BY DEF IInv, TypeOK, Tasks
  <1>3. CASE Saved(Worker, new) /\ GotoWith(next, new)
    <2>1. act' = new /\ w'.at = next /\ w'.copy = new
      BY <1>2, <1>3 DEF Saved, GotoWith, Tasks
    <2> QED
      BY <1>1, <2>1 DEF copy, Undone, Undoing
  <1>4. CASE Goto("note") /\ UNCHANGED act
    <2>1. w'.at = "note" /\ w'.copy = copy
      BY <1>2, <1>4 DEF Goto, Tasks, copy
    <2> QED
      BY <1>1, <1>4, <2>1 DEF copy, Undone
  <1> QED
    BY <1>3, <1>4 DEF Update

\* The worker moves on, with its copy or a copy of the stored action.
LEMMA MoveUndone ==
  ASSUME EInv, UNCHANGED <<act, site, lastBy, kind>>,
         w'.at \notin Undoing, w'.copy \in {copy, act} \/ ~w'.copy.applied.id
  PROVE  UndoneOnSite'
  BY DEF EInv, UndoneOnSite, copy, Undone, Undoing

LEMMA ExecuteUndone == EInv /\ Execute => UndoneOnSite'
  <1> SUFFICES ASSUME EInv, Execute PROVE UndoneOnSite'
    OBVIOUS
  <1>1. IInv /\ CopyAt(w.at, copy) /\ w \in Tasks /\ copy \in Actions
    BY DEF EInv, IInv, Known, WorkerKnows, TypeOK, Tasks, copy
  <1>2. InHandler
    BY DEF InHandler, Execute, Begin, Claim, LackCapability, ReadBeforeWrite, Refuse,
       WriteSite, WriteRefused, Record, ReadBack, SaveVerification, LookForCustomer,
       WaitForCustomer, ClaimSeen, RecordSeen, Update, ReadPage, At
  <1>3. copy.applied.id => kind = "exact"
    BY DEF EInv, UndoneOnSite
  <1>4. CASE Begin
    <2>1. copy.status \in ExecutableStatuses /\ kind \in {"exact", "rewriting", "manual"}
      BY <1>1, <1>4, KindsAssumption DEF Begin, At, CopyAt, EInv, IInv, TypeOK
    <2>2. PICK place \in {"verify", "look", "done", "claim", "carryOut"} : Goto(place)
      BY <1>4, <2>1 DEF Begin, ExecutableStatuses
    <2>3. w'.at = place /\ w'.copy = copy
      BY <1>1, <2>2 DEF Goto, Tasks, copy
    <2> QED
      BY <1>4, <2>3, MoveUndone DEF Begin, outsideWorker, siteVars, Undoing
  <1>5. CASE LackCapability \/ WriteRefused
    <2>1. w'.at = "refuse" /\ w'.copy = copy
      BY <1>1, <1>5 DEF LackCapability, WriteRefused, Goto, Tasks, copy
    <2> QED
      BY <1>5, <2>1, MoveUndone
      DEF LackCapability, WriteRefused, outsideWorker, siteVars, Undoing
  <1>6. CASE ReadBeforeWrite \/ ReadBack \/ LookForCustomer
    <2>1. w'.at \in {"refuse", "write", "verified", "claimSeen", "wait"} /\ w'.copy = copy
      BY <1>1, <1>6 DEF ReadBeforeWrite, ReadBack, LookForCustomer, ReadPage, Tasks, copy
    <2> QED
      BY <1>6, <2>1, MoveUndone
      DEF ReadBeforeWrite, ReadBack, LookForCustomer, ReadPage, outsideWorker, siteVars,
          Undoing
  <1>7. CASE WriteSite
    <2>1. /\ w'.at \in {"record", "note"} /\ w'.copy = copy
          /\ UNCHANGED <<act, kind>>
      BY <1>1, <1>7 DEF WriteSite, Goto, Tasks, copy, outsideWorker
    <2>2. kind # "exact" => site'.override = site.override
      <3>1. site \in Sites /\ site' = WriteTarget(site, copy.target)
        BY <1>1, <1>7 DEF WriteSite, IInv, TypeOK, Sites
      <3> QED
        BY <3>1 DEF WriteTarget, Sites
    <2>3. act.status # "rolled_back"
      BY <1>2 DEF EInv, UndoneOnSite, IInv, Known, WorkerKnows
    <2> QED
      BY <2>1, <2>2, <2>3 DEF EInv, UndoneOnSite, copy
  <1>8. CASE Claim \/ Refuse \/ SaveVerification \/ ClaimSeen
    <2>1. PICK from \in Places, s \in {"executing", "failed", "measurement_window_active"},
               next \in {"carryOut", "done", "recordSeen"} :
            Update(from, Moved(copy, s), next)
      <3>1. CASE Claim \/ ClaimSeen
        BY <3>1 DEF Claim, ClaimSeen, Places
      <3>2. CASE Refuse \/ SaveVerification
        BY <3>2 DEF Refuse, SaveVerification, Places
      <3> QED
        BY <1>8, <3>1, <3>2
    <2>2. Moved(copy, s).status = s /\ Moved(copy, s).applied = copy.applied
      BY <1>1 DEF Moved, Actions
    <2> QED
      BY <1>2, <1>3, <2>1, <2>2, UpdateUndone DEF Places, Undoing
  <1>9. CASE Record \/ RecordSeen
    <2>1. PICK v, b : \E from : /\ Update(from, Recorded(copy, v, b), "verify")
                                /\ b = TRUE => kind = "exact"
                                /\ b \in BOOLEAN
      BY <1>9 DEF Record, RecordSeen, Recorded
    <2>2. Recorded(copy, v, b).status = "executed" /\ Recorded(copy, v, b).applied.id = b
      BY <1>1 DEF Recorded, Actions
    <2> QED
      BY <1>2, <2>1, <2>2, UpdateUndone DEF Places, Undoing
  <1>10. CASE WaitForCustomer
    <2>1. copy.status = "approved"
      BY <1>1, <1>10 DEF WaitForCustomer, Update, At, CopyAt
    <2> QED
      BY <1>2, <1>3, <1>10, <2>1, UpdateUndone DEF WaitForCustomer, Places, Undoing
  <1> QED
    BY <1>4, <1>5, <1>6, <1>7, <1>8, <1>9, <1>10 DEF Execute

LEMMA RollBackUndone == EInv /\ RollBack => UndoneOnSite'
  <1> SUFFICES ASSUME EInv, RollBack PROVE UndoneOnSite'
    OBVIOUS
  <1>1. IInv /\ CopyAt(w.at, copy) /\ w \in Tasks /\ copy \in Actions /\ site \in Sites
    BY DEF EInv, IInv, Known, WorkerKnows, TypeOK, Tasks, Sites, copy
  <1>2. InHandler
    BY DEF InHandler, RollBack, RollbackBegin, UndoExactly, ReadRendered,
       ReadBeforeRestore, RestoreSite, RestoreRefused, CheckRestored, LookForRestored,
       WaitForRestored, GiveUpRollback, RecordRolledBack, Update, ReadPage, At
  <1>3. act.status # "rolled_back"
    BY <1>1, <1>2 DEF EInv, UndoneOnSite, IInv, Known, WorkerKnows
  <1>4. CASE RollbackBegin
    <2>1. PICK place \in {"note", "rbGiveUp", "rbLook", "rbUndo", "rbRead"} :
            /\ Goto(place)
            /\ place = "rbLook" => kind = "manual"
            /\ place = "rbUndo" => kind = "exact"
            /\ place = "rbRead" => ~(kind = "exact" /\ copy.applied.id)
      BY <1>4 DEF RollbackBegin
    <2>2. w'.at = place /\ w'.copy = copy /\ UNCHANGED <<act, site, lastBy, kind>>
      BY <1>1, <1>4, <2>1 DEF RollbackBegin, Goto, Tasks, copy, outsideWorker, siteVars
    <2> QED
      BY <1>3, <2>1, <2>2 DEF EInv, UndoneOnSite, copy
  <1>5. CASE UndoExactly
    <2>1. kind = "exact"
      BY <1>5 DEF EInv, UndoneOnSite, UndoExactly, At
    <2>2. /\ w'.at \in {"rbGiveUp", "rbRendered", "note"} /\ w'.copy = copy
          /\ UNCHANGED <<act, kind>>
      BY <1>1, <1>5 DEF UndoExactly, Goto, Tasks, copy, outsideWorker
    <2>3. w'.at = "rbRendered" => site'.entry.undone
      <3>1. PluginUndo(site).entry.undone
        BY <1>1 DEF PluginUndo, Sites
      <3>2. PluginRefuses(site) => w'.at # "rbRendered"
        BY <1>1, <1>5 DEF UndoExactly, Goto, Tasks
      <3> QED
        BY <1>5, <3>1, <3>2 DEF UndoExactly
    <2> QED
      BY <1>3, <2>1, <2>2, <2>3 DEF EInv, UndoneOnSite, copy
  <1>6. CASE ReadRendered
    <2>1. w'.at = "rbRecord" /\ w'.copy = copy /\ UNCHANGED <<act, kind, site, lastBy>>
      BY <1>1, <1>6
      DEF ReadRendered, ReadPage, Tasks, copy, outsideWorker, siteVars
    <2>2. kind = "exact" /\ site.entry.undone
      BY <1>6 DEF EInv, UndoneOnSite, ReadRendered, ReadPage, At
    <2> QED
      BY <1>3, <2>1, <2>2 DEF EInv, UndoneOnSite, copy, Undone
  <1>7. CASE ReadBeforeRestore \/ CheckRestored
    <2>1. /\ w'.at \in {"rbRecord", "rbGiveUp", "rbWrite"} /\ w'.copy = copy
          /\ w'.at = "rbRecord" => OnPage = previous
          /\ UNCHANGED <<act, kind, site, lastBy>>
      BY <1>1, <1>7
      DEF ReadBeforeRestore, CheckRestored, ReadPage, Tasks, copy, outsideWorker, siteVars
    <2>2. ~copy.applied.id
      BY <1>7 DEF EInv, UndoneOnSite, ReadBeforeRestore, CheckRestored, ReadPage, At
    <2>3. kind = "rewriting" => OnPage = site.base
      BY DEF EInv, UndoneOnSite, OnPage, Shown
    <2>4. w'.at = "rbRecord" => Undone(copy)
      BY <2>1, <2>2, <2>3 DEF Undone, previous
    <2> QED
      BY <1>3, <2>1, <2>2, <2>4 DEF EInv, UndoneOnSite, copy, Undone
  <1>8. CASE RestoreSite \/ RestoreRefused
    <2>1. /\ w'.at \in {"rbCheck", "rbGiveUp", "note"} /\ w'.copy = copy
          /\ UNCHANGED <<act, kind>>
      BY <1>1, <1>8 DEF RestoreSite, RestoreRefused, Goto, Tasks, copy, outsideWorker
    <2>2. site'.override = site.override
      BY <1>1, <1>8 DEF RestoreSite, RestoreRefused, Sites, siteVars
    <2>3. ~copy.applied.id
      BY <1>8 DEF EInv, UndoneOnSite, RestoreSite, RestoreRefused, At
    <2> QED
      BY <1>3, <2>1, <2>2, <2>3 DEF EInv, UndoneOnSite, copy
  <1>9. CASE LookForRestored
    <2>1. /\ w'.at \in {"rbRecord", "rbWait"} /\ w'.copy = copy
          /\ UNCHANGED <<act, kind, site, lastBy>>
      BY <1>1, <1>9
      DEF LookForRestored, ReadPage, Tasks, copy, outsideWorker, siteVars
    <2>2. kind = "manual" /\ ~copy.applied.id
      BY <1>9 DEF EInv, UndoneOnSite, LookForRestored, ReadPage, At
    <2> QED
      BY <1>3, <2>1, <2>2 DEF EInv, UndoneOnSite, copy, Undone
  <1>10. CASE WaitForRestored \/ GiveUpRollback
    <2> DEFINE new == [copy EXCEPT !.asked = FALSE]
    <2>1. copy.status # "rolled_back"
      BY <1>1, <1>10
      DEF WaitForRestored, GiveUpRollback, Update, At, CopyAt, Undoing, MayRollBack,
          RollbackableStatuses
    <2>2. copy.applied.id => kind = "exact"
      BY DEF EInv, UndoneOnSite
    <2>3. new.status = copy.status /\ new.applied = copy.applied
      BY <1>1 DEF Actions
    <2>4. Update("rbWait", copy, "done") \/ Update("rbGiveUp", new, "done")
      BY <1>10 DEF WaitForRestored, GiveUpRollback
    <2> HIDE DEF new
    <2> QED
      BY <1>2, <2>1, <2>2, <2>3, <2>4, UpdateUndone DEF Places, Undoing
  <1>11. CASE RecordRolledBack
    <2> DEFINE new == [copy EXCEPT !.status = "rolled_back", !.rolledBack = TRUE]
    <2>1. Undone(copy) /\ (copy.applied.id => kind = "exact")
      BY <1>11 DEF EInv, UndoneOnSite, RecordRolledBack, Update, At
    <2>2. new.rolledBack /\ new.applied = copy.applied
      BY <1>1 DEF Actions
    <2>3. Update("rbRecord", new, "done")
      BY <1>11 DEF RecordRolledBack
    <2> HIDE DEF new
    <2>4. Undone(new)
      BY <2>1, <2>2 DEF Undone
    <2> QED
      BY <1>2, <2>1, <2>2, <2>3, <2>4, UpdateUndone DEF Places, Undoing
  <1> QED
    BY <1>4, <1>5, <1>6, <1>7, <1>8, <1>9, <1>10, <1>11 DEF RollBack

\* The other steps of the worker, and the end of all of them.
LEMMA AttemptUndone ==
  EInv /\ (TakeJob \/ Load \/ FinishJob \/ NoteErrorAndRetry \/ Fault \/ Crash)
    => UndoneOnSite'
  <1> SUFFICES ASSUME EInv, TakeJob \/ Load \/ FinishJob \/ NoteErrorAndRetry \/ Fault \/ Crash
               PROVE  UndoneOnSite'
    OBVIOUS
  <1>1. w \in Tasks
    BY DEF EInv, IInv, TypeOK, Tasks
  <1>2. UNCHANGED <<act, site, lastBy, kind>>
    BY DEF TakeJob, Load, FinishJob, NoteErrorAndRetry, Fault, Crash, outsideWorker, siteVars
  <1>3. CASE TakeJob
    <2>1. w'.at = "load" /\ ~w'.copy.applied.id
      <3>1. w'.at = "load" /\ w'.copy = NoCopy
        BY <1>3 DEF TakeJob, Resting
      <3>2. NoCopy.applied.id = FALSE
        BY DEF NoCopy, NoChange
      <3> QED
        BY <3>1, <3>2
    <2> QED
      BY <1>2, <2>1, MoveUndone DEF Undoing
  <1>4. CASE FinishJob \/ NoteErrorAndRetry \/ Crash
    <2>1. w'.at = "idle" /\ ~w'.copy.applied.id
      BY <1>4 DEF FinishJob, NoteErrorAndRetry, Crash, Idle, Resting, NoCopy, NoChange
    <2> QED
      BY <1>2, <2>1, MoveUndone DEF Undoing
  <1>5. CASE Load
    <2>1. PICK place \in {"done", "begin", "rbBegin"} : GotoWith(place, act)
      BY <1>5 DEF Load
    <2>2. w'.at = place /\ w'.copy = act
      BY <1>1, <2>1 DEF GotoWith, Tasks
    <2> QED
      BY <1>2, <2>2, MoveUndone DEF Undoing
  <1>6. CASE Fault
    <2>1. w'.at = "note" /\ w'.copy = copy
      BY <1>1, <1>6 DEF Fault, Goto, Tasks, copy
    <2> QED
      BY <1>2, <2>1, MoveUndone DEF Undoing
  <1> QED
    BY <1>3, <1>4, <1>5, <1>6

\* The customer, the requests and the measurement loop.
LEMMA OthersUndone ==
  EInv /\ ((\E r \in Requests : RequestStep(r)) \/ Measure
           \/ (\E t \in Titles : EditPage(t) \/ LaterOverride(t)) \/ ServePage)
    => UndoneOnSite'
  <1> SUFFICES ASSUME EInv,
                      (\E r \in Requests : RequestStep(r)) \/ Measure
                      \/ (\E t \in Titles : EditPage(t) \/ LaterOverride(t)) \/ ServePage
               PROVE  UndoneOnSite'
    OBVIOUS
  <1>1. IInv /\ act \in Actions /\ site \in Sites
    BY DEF EInv, IInv, TypeOK, Sites
  <1>2. ASSUME act'.applied = act.applied, UNCHANGED <<site, lastBy, kind, w>>,
               act'.status = "rolled_back" => act' = act
        PROVE  UndoneOnSite'
    BY <1>2 DEF EInv, UndoneOnSite, copy, Undone
  <1>3. CASE \E r \in Requests : RequestStep(r)
    <2>1. PICK r \in Requests : RequestStep(r)
      BY <1>3
    <2>2. CASE SaveRequest(r)
      <3>1. /\ MayRequest(req[r].op) /\ act' = Decided(req[r].op, req[r].target)
            /\ req[r].op \in {"approve", "reject", "applied", "rollback"}
            /\ UNCHANGED <<site, lastBy, kind, w>>
        BY <1>1, <2>2, SavedRequest DEF siteVars
      <3>2. act'.applied = act.applied /\ (act'.status = "rolled_back" => act' = act)
        BY <1>1, <3>1
        DEF Decided, Moved, Actions, MayRequest, MayRollBack, RollbackableStatuses
      <3> QED
        BY <1>2, <3>1, <3>2
    <2>3. CASE ~SaveRequest(r)
      <3>1. UNCHANGED <<act, site, lastBy, kind, w>>
        BY <2>1, <2>3 DEF RequestStep, ReadForRequest, ConflictRequest, siteVars
      <3> QED
        BY <1>2, <3>1
    <2> QED
      BY <2>2, <2>3
  <1>4. CASE Measure
    <2>1. CASE SaveOutcome
      <3>1. PICK s \in OutcomeStatuses : act' = Moved(act, s)
        BY <1>1, <2>1, SavedOutcome
      <3>2. act'.applied = act.applied /\ act'.status # "rolled_back"
        BY <1>1, <3>1 DEF Moved, Actions, OutcomeStatuses
      <3> QED
        BY <1>2, <2>1, <3>2 DEF SaveOutcome, siteVars
    <2>2. CASE ReadForSettling \/ SkipOutcome
      <3>1. UNCHANGED <<act, site, lastBy, kind, w>>
        BY <2>2 DEF ReadForSettling, SkipOutcome, siteVars
      <3> QED
        BY <1>2, <3>1
    <2> QED
      BY <1>4, <2>1, <2>2 DEF Measure
  <1>5. CASE (\E t \in Titles : EditPage(t) \/ LaterOverride(t)) \/ ServePage
    <2>1. CASE \E t \in Titles : EditPage(t) \/ LaterOverride(t)
      <3>1. /\ site'.entry = site.entry /\ lastBy' = "customer"
            /\ kind # "exact" => site'.override = site.override
        BY <1>1, <2>1 DEF EditPage, LaterOverride, Sites
      <3>2. UNCHANGED <<act, w, kind>>
        BY <2>1 DEF EditPage, LaterOverride, outsideWorker
      <3> QED
        BY <3>1, <3>2 DEF EInv, UndoneOnSite, copy, Undone
    <2>2. CASE ServePage
      BY <1>2, <2>2 DEF ServePage, outsideWorker
    <2> QED
      BY <1>5, <2>1, <2>2
  <1> QED
    BY <1>3, <1>4, <1>5

LEMMA NextUndone == EInv /\ [Next]_vars => UndoneOnSite'
  <1> SUFFICES ASSUME EInv, [Next]_vars PROVE UndoneOnSite'
    OBVIOUS
  <1>1. CASE UNCHANGED vars
    BY <1>1 DEF EInv, UndoneOnSite, copy, Undone, vars, siteVars
  <1> QED
    BY <1>1, ExecuteUndone, RollBackUndone, AttemptUndone, OthersUndone
    DEF Next, WorkerStep, Environment
-----------------------------------------------------------------------------
(***************************************************************************)
(* Approved work has a job.                                                *)
(***************************************************************************)

\* The next slot is free: Job(...) never overwrites one.
LEMMA FreeSlot ==
  ASSUME InOrder, NEW type, type # "none", jobs \in [JobSlots -> Jobs], NewJob(type)
  PROVE  /\ InOrder'
         /\ \E n \in JobSlots :
              /\ jobs[n].type = "none"
              /\ jobs' = [jobs EXCEPT ![n] =
                             [type |-> type, status |-> "queued", attempts |-> 0]]
  <1>1. PICK used \in 0..MaxJobs : \A n \in JobSlots : jobs[n].type # "none" <=> n <= used
    BY DEF InOrder
  <1>2. MaxJobs \in Nat
    BY BoundsAssumption
  <1>3. {k \in JobSlots : jobs[k].type # "none"} = 1..used
    BY <1>1, <1>2 DEF JobSlots
  <1>4. Cardinality(1..used) = used
    BY <1>1, FS_Interval
  <1>5. /\ used + 1 \in JobSlots
        /\ jobs' = [jobs EXCEPT ![used + 1] =
                       [type |-> type, status |-> "queued", attempts |-> 0]]
    BY <1>3, <1>4 DEF NewJob
  <1>6. jobs[used + 1].type = "none"
    BY <1>1, <1>5
  <1>7. \A n \in JobSlots : jobs'[n].type # "none" <=> n <= used + 1
    BY <1>1, <1>5 DEF JobSlots
  <1>8. InOrder'
    <2>1. used + 1 \in 0..MaxJobs
      BY <1>1, <1>2, <1>5 DEF JobSlots
    <2> QED
      BY <1>7, <2>1 DEF InOrder, JobSlots
  <1> QED
    BY <1>5, <1>6, <1>8

\* A job's status changes, and nothing else of any job.
LEMMA SameOrder ==
  ASSUME InOrder, \A n \in JobSlots : jobs'[n].type = jobs[n].type
  PROVE  InOrder'
  BY DEF InOrder

\* The worker goes on with its job, in its handler or to the end of it.
LEMMA GoOnWorks ==
  ASSUME EInv, w.at # "idle", w'.at # "idle", w'.job = w.job, UNCHANGED <<jobs, kind>>,
         w'.at \in Undoing => w.at \in Undoing \cup {"rbBegin"},
         w'.at # "rbBegin",
         w'.at \in {"look", "wait", "claimSeen"} => kind = "manual",
         kind # "manual" /\ act'.status \in {"approved", "executing"} =>
            /\ act.status \in {"approved", "executing"}
            /\ w'.at = "done" => jobs[w.job].type = "rollback"
  PROVE  WorkHasJob' /\ Working' /\ InOrder'
  <1>1. Working' /\ InOrder'
    BY DEF EInv, Working, InOrder
  <1>2. WorkHasJob'
    <2> SUFFICES ASSUME kind # "manual", act'.status \in {"approved", "executing"}
                 PROVE  \E n \in JobSlots : Works(n)'
      BY DEF WorkHasJob
    <2>1. PICK n \in JobSlots : Works(n)
      BY DEF EInv, WorkHasJob
    <2>2. Works(n)'
      BY <2>1 DEF Works
    <2> QED
      BY <2>2
  <1> QED
    BY <1>1, <1>2

\* No save of the worker's leads back to work that is to be done.
LEMMA SavesGoForward ==
  ASSUME EInv, UNCHANGED act \/ WorkerSaves, act'.status \in {"approved", "executing"}
  PROVE  act.status \in {"approved", "executing"}
  <1>1. act \in Actions
    BY DEF EInv, IInv, TypeOK
  <1> QED
    BY <1>1 DEF WorkerSaves, Claims, Fails, Records, Recorded, Verifies, GivesUp, Undoes,
       Moved, MayRollBack, RollbackableStatuses, Actions

LEMMA ExecuteWorks == EInv /\ Execute => WorkHasJob' /\ Working' /\ InOrder'
  <1> SUFFICES ASSUME EInv, Execute PROVE WorkHasJob' /\ Working' /\ InOrder'
    OBVIOUS
  <1> DEFINE Onward == Places \ (Undoing \cup {"idle", "rbBegin"})
  <1>1. IInv /\ CopyAt(w.at, copy) /\ w \in Tasks /\ copy \in Actions /\ act \in Actions
    BY DEF EInv, IInv, Known, WorkerKnows, TypeOK, Tasks, copy
  <1>2. /\ w.at # "idle" /\ UNCHANGED <<jobs, kind>>
        /\ UNCHANGED act \/ WorkerSaves
    <2>1. UNCHANGED act \/ WorkerSaves
      BY <1>1, ExecuteSaves
    <2> QED
      BY <2>1 DEF Execute, Begin, Claim, LackCapability, ReadBeforeWrite, Refuse,
         WriteSite, WriteRefused, Record, ReadBack, SaveVerification, LookForCustomer,
         WaitForCustomer, ClaimSeen, RecordSeen, Update, ReadPage, At, outsideWorker
  <1>3. ASSUME NEW place \in Onward, w'.at = place, w'.job = w.job,
               place \in {"look", "wait", "claimSeen"} => kind = "manual",
               place = "done" => kind = "manual" \/ act'.status \notin {"approved", "executing"}
        PROVE  WorkHasJob' /\ Working' /\ InOrder'
    <2>1. act'.status \in {"approved", "executing"} => act.status \in {"approved", "executing"}
      BY <1>2, SavesGoForward
    <2> QED
      BY <1>2, <1>3, <2>1, GoOnWorks
  <1>4. ASSUME NEW from, NEW new, NEW next, Update(from, new, next)
        PROVE  \/ w'.at = next /\ w'.job = w.job /\ act' = new
               \/ w'.at = "note" /\ w'.job = w.job
    BY <1>1, <1>4 DEF Update, Saved, GotoWith, Goto, Tasks
  <1>5. CASE Begin
    <2>1. copy.status \in ExecutableStatuses /\ kind \in {"exact", "rewriting", "manual"}
      BY <1>1, <1>5, KindsAssumption DEF Begin, At, CopyAt, EInv, IInv, TypeOK
    <2>2. PICK place \in {"verify", "look", "done", "claim", "carryOut"} :
            /\ Goto(place)
            /\ place \in {"look", "done"} => kind = "manual"
      BY <1>5, <2>1 DEF Begin, ExecutableStatuses
    <2>3. w'.at = place /\ w'.job = w.job
      BY <1>1, <2>2 DEF Goto, Tasks
    <2> QED
      BY <1>3, <2>2, <2>3 DEF Places, Undoing
  <1>6. CASE LackCapability \/ WriteRefused \/ WriteSite
    <2>1. w'.at \in {"refuse", "record", "note"} /\ w'.job = w.job
      BY <1>1, <1>6 DEF LackCapability, WriteRefused, WriteSite, Goto, Tasks
    <2> QED
      BY <1>3, <2>1 DEF Places, Undoing
  <1>7. CASE ReadBeforeWrite \/ ReadBack
    <2>1. w'.at \in {"refuse", "write", "verified"} /\ w'.job = w.job
      BY <1>1, <1>7 DEF ReadBeforeWrite, ReadBack, ReadPage, Tasks
    <2> QED
      BY <1>3, <2>1 DEF Places, Undoing
  <1>8. CASE LookForCustomer
    <2>1. w'.at \in {"claimSeen", "wait"} /\ w'.job = w.job
      BY <1>1, <1>8 DEF LookForCustomer, ReadPage, Tasks
    <2>2. kind = "manual"
      BY <1>8 DEF EInv, Working, LookForCustomer, ReadPage, At
    <2> QED
      BY <1>3, <2>1, <2>2 DEF Places, Undoing
  <1>9. CASE Claim \/ ClaimSeen
    <2>1. w'.at \in {"carryOut", "recordSeen", "note"} /\ w'.job = w.job
      BY <1>4, <1>9 DEF Claim, ClaimSeen
    <2> QED
      BY <1>3, <2>1 DEF Places, Undoing
  <1>10. CASE Record \/ RecordSeen
    <2>1. PICK v, b : \E from \in {"record", "recordSeen"} :
             Update(from, Recorded(copy, v, b), "verify")
      BY <1>10 DEF Record, RecordSeen, Recorded
    <2>2. w'.at \in {"verify", "note"} /\ w'.job = w.job
      BY <1>4, <2>1
    <2> QED
      BY <1>3, <2>2 DEF Places, Undoing
  <1>11. CASE Refuse \/ SaveVerification
    <2>1. PICK from \in Places, s \in {"failed", "measurement_window_active"} :
            Update(from, Moved(copy, s), "done")
      BY <1>11 DEF Refuse, SaveVerification, Places
    <2>2. Moved(copy, s).status = s
      BY <1>1 DEF Moved, Actions
    <2>3. /\ w'.at \in {"done", "note"} /\ w'.job = w.job
          /\ w'.at = "done" => act'.status = s
      BY <1>4, <2>1, <2>2
    <2> QED
      BY <1>3, <2>3 DEF Places, Undoing
  <1>12. CASE WaitForCustomer
    <2>1. w'.at \in {"done", "note"} /\ w'.job = w.job
      BY <1>4, <1>12 DEF WaitForCustomer
    <2>2. kind = "manual"
      BY <1>12 DEF EInv, Working, WaitForCustomer, Update, At
    <2> QED
      BY <1>3, <2>1, <2>2 DEF Places, Undoing
  <1> QED
    BY <1>5, <1>6, <1>7, <1>8, <1>9, <1>10, <1>11, <1>12 DEF Execute

LEMMA RollBackWorks == EInv /\ RollBack => WorkHasJob' /\ Working' /\ InOrder'
  <1> SUFFICES ASSUME EInv, RollBack PROVE WorkHasJob' /\ Working' /\ InOrder'
    OBVIOUS
  <1>1. IInv /\ w \in Tasks
    BY DEF EInv, IInv, TypeOK, Tasks
  <1>2. /\ w.at \in Undoing \cup {"rbBegin"} /\ UNCHANGED <<jobs, kind>>
        /\ UNCHANGED act \/ WorkerSaves
    <2>1. UNCHANGED act \/ WorkerSaves
      BY <1>1, RollBackSaves
    <2> QED
      BY <2>1 DEF RollBack, RollbackBegin, UndoExactly, ReadRendered, ReadBeforeRestore,
         RestoreSite, RestoreRefused, CheckRestored, LookForRestored, WaitForRestored,
         GiveUpRollback, RecordRolledBack, Update, ReadPage, At, outsideWorker, Undoing
  <1>3. jobs[w.job].type = "rollback"
    BY <1>2 DEF EInv, Working
  <1>4. w'.at \in Undoing \cup {"done", "note"} /\ w'.job = w.job
    <2>1. CASE RollbackBegin
      <3>1. PICK place \in {"note", "rbGiveUp", "rbLook", "rbUndo", "rbRead"} : Goto(place)
        BY <2>1 DEF RollbackBegin
      <3> QED
        BY <1>1, <3>1 DEF Goto, Tasks, Undoing
    <2>2. CASE UndoExactly \/ RestoreSite \/ RestoreRefused
      BY <1>1, <2>2 DEF UndoExactly, RestoreSite, RestoreRefused, Goto, Tasks, Undoing
    <2>3. CASE ReadRendered \/ ReadBeforeRestore \/ CheckRestored \/ LookForRestored
      BY <1>1, <2>3 DEF ReadRendered, ReadBeforeRestore, CheckRestored, LookForRestored,
         ReadPage, Tasks, Undoing
    <2>4. CASE WaitForRestored \/ GiveUpRollback \/ RecordRolledBack
      BY <1>1, <2>4 DEF WaitForRestored, GiveUpRollback, RecordRolledBack, Update, Goto,
         GotoWith, Tasks
    <2> QED
      BY <2>1, <2>2, <2>3, <2>4 DEF RollBack
  <1>5. act'.status \in {"approved", "executing"} => act.status \in {"approved", "executing"}
    BY <1>2, SavesGoForward
  <1> QED
    BY <1>2, <1>3, <1>4, <1>5, GoOnWorks DEF Undoing

LEMMA TakeJobWorks == EInv /\ TakeJob => WorkHasJob' /\ Working' /\ InOrder'
  <1> SUFFICES ASSUME EInv, TakeJob PROVE WorkHasJob' /\ Working' /\ InOrder'
    OBVIOUS
  <1>1. PICK n \in JobSlots :
          /\ jobs[n].status = "queued"
          /\ jobs' = [jobs EXCEPT ![n].status = "running", ![n].attempts = @ + 1]
          /\ w' = [Resting EXCEPT !.at = "load", !.job = n]
    BY DEF TakeJob
  <1>2. jobs \in [JobSlots -> Jobs] /\ w.at = "idle" /\ w.job = 0 /\ 0 \notin JobSlots
    BY DEF EInv, IInv, TypeOK, Working, TakeJob, At, JobSlots
  <1>3. w'.at = "load" /\ w'.job = n /\ UNCHANGED <<act, kind>>
    BY <1>1 DEF TakeJob, Resting, outsideWorker
  <1>4. /\ jobs'[n].status = "running" /\ jobs'[n].type = jobs[n].type
        /\ \A k \in JobSlots : k # n => jobs'[k] = jobs[k]
    BY <1>1, <1>2 DEF Jobs
  <1>5. Working' /\ InOrder'
    BY <1>1, <1>3, <1>4, SameOrder DEF EInv, Working, Undoing
  <1>6. \A k \in JobSlots : Works(k) => Works(k)'
    BY <1>2, <1>3, <1>4 DEF Works
  <1> QED
    BY <1>3, <1>5, <1>6 DEF EInv, WorkHasJob

LEMMA LoadWorks == EInv /\ Load => WorkHasJob' /\ Working' /\ InOrder'
  <1> SUFFICES ASSUME EInv, Load PROVE WorkHasJob' /\ Working' /\ InOrder'
    OBVIOUS
  <1>1. w \in Tasks /\ w.at = "load" /\ jobs[w.job] \in Jobs /\ jobs[w.job].status = "running"
    BY DEF EInv, IInv, TypeOK, Tasks, Load, At, Working
  <1>2. jobs[w.job].type \in {"none", "execute", "rollback"}
    BY <1>1 DEF Jobs
  <1>3. PICK place \in {"done", "begin", "rbBegin"} :
          /\ GotoWith(place, act)
          /\ place = "rbBegin" => jobs[w.job].type # "execute"
          /\ (place = "done" /\ jobs[w.job].type = "execute") =>
                act.status \notin ExecutableStatuses
    BY DEF Load
  <1>4. w'.at = place /\ w'.job = w.job /\ UNCHANGED <<jobs, act, kind>>
    BY <1>1, <1>3 DEF GotoWith, Tasks, Load, outsideWorker
  <1>5. jobs[w.job].type # "none"
    BY <1>1 DEF EInv, Working
  <1>6. Working' /\ InOrder'
    BY <1>1, <1>2, <1>3, <1>4, <1>5 DEF EInv, Working, InOrder, Undoing
  <1>7. WorkHasJob'
    <2> SUFFICES ASSUME kind # "manual", act.status \in {"approved", "executing"}
                 PROVE  \E n \in JobSlots : Works(n)'
      BY <1>4 DEF WorkHasJob
    <2>1. PICK n \in JobSlots : Works(n)
      BY DEF EInv, WorkHasJob
    <2>2. Works(n)'
      BY <1>1, <1>3, <1>4, <2>1 DEF Works, ExecutableStatuses
    <2> QED
      BY <2>2
  <1> QED
    BY <1>6, <1>7

\* An attempt that ends leaves its job completed, queued or failed.
LEMMA EndWorks ==
  EInv /\ (FinishJob \/ NoteErrorAndRetry \/ Crash) => WorkHasJob' /\ Working' /\ InOrder'
  <1> SUFFICES ASSUME EInv, FinishJob \/ NoteErrorAndRetry \/ Crash
               PROVE  WorkHasJob' /\ Working' /\ InOrder'
    OBVIOUS
  <1>1. jobs \in [JobSlots -> Jobs] /\ 0 \notin JobSlots
    BY DEF EInv, IInv, TypeOK, JobSlots
  <1>2. w'.at = "idle" /\ w'.job = 0 /\ UNCHANGED <<act, kind>>
    BY DEF FinishJob, NoteErrorAndRetry, Crash, Idle, Resting, outsideWorker
  <1>3. PICK s \in {"completed", "queued", "failed"} :
          /\ (UNCHANGED jobs /\ w.at = "idle") \/ JobStatus(w.job, s)
          /\ s = "completed" => w.at = "done"
    <2>1. CASE FinishJob
      BY <2>1 DEF FinishJob, At
    <2>2. CASE NoteErrorAndRetry \/ Crash
      BY <2>2 DEF NoteErrorAndRetry, Crash, RetryOrFail, At
    <2> QED
      BY <2>1, <2>2
  <1>4. \A n \in JobSlots : jobs'[n].type = jobs[n].type
    BY <1>1, <1>3 DEF JobStatus, Jobs
  <1>5. Working' /\ InOrder'
    <2>1. \A n \in JobSlots : jobs'[n].status = jobs[n].status \/ n = w.job
      BY <1>1, <1>3 DEF JobStatus
    <2> QED
      BY <1>1, <1>2, <1>4, <2>1, SameOrder DEF EInv, Working, Undoing
  <1>6. ASSUME NEW n \in JobSlots, Works(n) PROVE Works(n)'
    <2>1. CASE UNCHANGED jobs /\ w.at = "idle"
      BY <1>1, <1>6, <2>1 DEF Works, EInv, Working
    <2>2. CASE JobStatus(w.job, s) /\ n # w.job
      BY <1>1, <1>6, <2>2 DEF Works, JobStatus
    <2>3. CASE JobStatus(w.job, s) /\ n = w.job
      <3>1. s # "completed"
        BY <1>1, <1>3, <1>6, <2>3 DEF Works, EInv, Working
      <3>2. jobs'[n].status = s /\ jobs'[n].type = "execute"
        BY <1>1, <1>4, <1>6, <2>3 DEF Works, JobStatus, Jobs
      <3> QED
        BY <3>1, <3>2 DEF Works
    <2> QED
      BY <1>3, <2>1, <2>2, <2>3
  <1> QED
    BY <1>2, <1>5, <1>6 DEF EInv, WorkHasJob

LEMMA RequestWorks ==
  ASSUME EInv, NEW r \in Requests, RequestStep(r)
  PROVE  WorkHasJob' /\ Working' /\ InOrder'
  <1>1. /\ IInv /\ act \in Actions /\ jobs \in [JobSlots -> Jobs]
    BY DEF EInv, IInv, TypeOK
  <1>2. CASE ~SaveRequest(r)
    <2>1. UNCHANGED <<act, jobs, w, kind>>
      BY <1>2 DEF RequestStep, ReadForRequest, ConflictRequest
    <2> QED
      BY <2>1 DEF EInv, WorkHasJob, Working, InOrder, Works
  <1>3. CASE SaveRequest(r)
    <2>1. /\ MayRequest(req[r].op) /\ act' = Decided(req[r].op, req[r].target)
          /\ req[r].op \in {"approve", "reject", "applied", "rollback"}
          /\ UNCHANGED <<w, kind>>
      BY <1>1, <1>3, SavedRequest
    <2>2. kind # "manual" /\ act'.status \in {"approved", "executing"} => req[r].op = "approve"
      BY <1>1, <2>1
      DEF MayRequest, MayRollBack, RollbackableStatuses, Decided, Moved, Actions
    <2>3. CASE req[r].op = "reject"
      <3>1. UNCHANGED jobs
        BY <1>3, <2>3 DEF SaveRequest
      <3> QED
        BY <2>1, <2>2, <2>3, <3>1 DEF EInv, WorkHasJob, Working, InOrder
    <2>4. CASE req[r].op # "reject"
      <3>1. PICK type \in {"execute", "rollback"} :
              NewJob(type) /\ (req[r].op = "approve" => type = "execute")
        BY <1>3, <2>1, <2>4 DEF SaveRequest
      <3>2. PICK n \in JobSlots :
              /\ jobs[n].type = "none"
              /\ jobs' = [jobs EXCEPT ![n] =
                             [type |-> type, status |-> "queued", attempts |-> 0]]
        BY <1>1, <3>1, FreeSlot DEF EInv
      <3>3. InOrder'
        BY <1>1, <3>1, FreeSlot DEF EInv
      <3>4. jobs'[n].type = type /\ jobs'[n].status = "queued"
        BY <1>1, <3>2
      <3>5. \A k \in JobSlots : k # n => jobs'[k] = jobs[k]
        BY <1>1, <3>2
      <3>6. w.at # "idle" => w.job # n
        BY <3>2 DEF EInv, Working
      <3>7. Working'
        BY <2>1, <3>1, <3>4, <3>5, <3>6 DEF EInv, Working, Undoing
      <3>8. WorkHasJob'
        BY <2>1, <2>2, <3>1, <3>4 DEF WorkHasJob, Works
      <3> QED
        BY <3>3, <3>7, <3>8
    <2> QED
      BY <2>3, <2>4
  <1> QED
    BY <1>2, <1>3

LEMMA OthersWork ==
  EInv /\ (Measure \/ Fault \/ ServePage
           \/ (\E t \in Titles : EditPage(t) \/ LaterOverride(t)))
    => WorkHasJob' /\ Working' /\ InOrder'
  <1> SUFFICES ASSUME EInv,
                      Measure \/ Fault \/ ServePage
                      \/ (\E t \in Titles : EditPage(t) \/ LaterOverride(t))
               PROVE  WorkHasJob' /\ Working' /\ InOrder'
    OBVIOUS
  <1>1. IInv /\ act \in Actions /\ w \in Tasks
    BY DEF EInv, IInv, TypeOK, Tasks
  <1>2. CASE UNCHANGED <<act, jobs, w, kind>>
    BY <1>2 DEF EInv, WorkHasJob, Working, InOrder, Works
  <1>3. CASE Fault
    <2>1. w'.at = "note" /\ w'.job = w.job /\ UNCHANGED <<jobs, kind, act>> /\ w.at # "idle"
      BY <1>1, <1>3 DEF Fault, Goto, Tasks, outsideWorker, InHandler
    <2> QED
      BY <2>1, GoOnWorks DEF Undoing
  <1>4. CASE SaveOutcome
    <2>1. PICK s \in OutcomeStatuses : act' = Moved(act, s)
      BY <1>1, <1>4, SavedOutcome
    <2>2. act'.status \notin {"approved", "executing"}
      BY <1>1, <2>1 DEF Moved, Actions, OutcomeStatuses
    <2> QED
      BY <1>4, <2>2 DEF SaveOutcome, EInv, WorkHasJob, Working, InOrder
  <1> QED
    BY <1>2, <1>3, <1>4
    DEF Measure, ReadForSettling, SkipOutcome, ServePage, EditPage, LaterOverride,
        outsideWorker

LEMMA NextWorks == EInv /\ [Next]_vars => WorkHasJob' /\ Working' /\ InOrder'
  <1> SUFFICES ASSUME EInv, [Next]_vars PROVE WorkHasJob' /\ Working' /\ InOrder'
    OBVIOUS
  <1>1. CASE UNCHANGED vars
    BY <1>1 DEF EInv, WorkHasJob, Working, InOrder, Works, vars
  <1> QED
    BY <1>1, TakeJobWorks, LoadWorks, EndWorks, ExecuteWorks, RollBackWorks, RequestWorks,
       OthersWork
    DEF Next, WorkerStep, Environment
-----------------------------------------------------------------------------
LEMMA SpecEInv == Spec => []EInv
  <1>1. Init => EInv
    <2> SUFFICES ASSUME Init PROVE EInv
      OBVIOUS
    <2>1. IInv
      BY InitTyped, InitKnown DEF IInv
    <2>2. /\ act.status = "awaiting_approval" /\ act.applied = NoChange
          /\ w.at = "idle" /\ w.job = 0 /\ copy = NoCopy /\ site.override = Unknown
      BY DEF Init, Resting, copy
    <2>3. NoChange.id = FALSE /\ NoCopy.applied = NoChange
      BY DEF NoChange, NoCopy
    <2>4. UndoneOnSite
      BY <2>2, <2>3 DEF UndoneOnSite
    <2>5. \A n \in JobSlots : jobs[n].type = "none" /\ jobs[n].status = "none"
      BY DEF Init, NoJob
    <2>6. WorkHasJob /\ Working
      BY <2>2, <2>5 DEF WorkHasJob, Working, Undoing
    <2>7. InOrder
      <3>1. 0 \in 0..MaxJobs /\ \A n \in JobSlots : ~(n <= 0)
        BY BoundsAssumption DEF JobSlots
      <3> QED
        BY <2>5, <3>1 DEF InOrder
    <2> QED
      BY <2>1, <2>4, <2>6, <2>7 DEF EInv
  <1>2. EInv /\ [Next]_vars => EInv'
    BY NextIInv, NextUndone, NextWorks DEF EInv
  <1> QED
    BY <1>1, <1>2, PTL DEF Spec

\* A rollback is recorded only for a site that was really restored
\* (_rollback_exactly, _rollback_by_rewriting of app/action/executor.py),
\* whatever the customer, later changes, faults and crashes do meanwhile.
THEOREM SpecRolledBackIsUndone == Spec => []RolledBackIsUndone
  <1>1. EInv => RolledBackIsUndone
    BY DEF EInv, UndoneOnSite, Undone, RolledBackIsUndone
  <1> QED
    BY <1>1, SpecEInv, PTL

\* Work that was approved has a job, or one that used up its attempts
\* (_save_with_job of app/api/app.py, the handlers of app/action/executor.py):
\* no interleaving of requests, attempts and crashes loses track of it.
THEOREM SpecNoWorkForgotten == Spec => []NoWorkForgotten
  <1>1. EInv => NoWorkForgotten
    BY DEF EInv, WorkHasJob, Works, NoWorkForgotten, UnfinishedJob, ExhaustedJob
  <1> QED
    BY <1>1, SpecEInv, PTL
=============================================================================
