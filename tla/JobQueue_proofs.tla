-------------------------- MODULE JobQueue_proofs --------------------------
(***************************************************************************)
(* The queue is safe for any jobs, processes, cancellations and attempts,  *)
(* as long as a process that holds the lease does not lose the database    *)
(* session behind it (MaxLeaseLosses = 0).                                 *)
(*                                                                         *)
(* The argument: whoever runs the worker holds the lease, so there is one  *)
(* worker; while it is between the claim and the end of a job, the stored  *)
(* job is the claimed copy or has been cancelled; and whatever copy it is  *)
(* about to save carries at least as many attempts as were made.           *)
(* A worker that dies has met a copy it could not go on with, and only a   *)
(* cancellation makes the stored job differ from the copy.                 *)
(***************************************************************************)
EXTENDS JobQueue, FiniteSetTheorems, TLAPS

USE MaxAttemptsAssumption, BoundsAssumption, NoProcAssumption

-----------------------------------------------------------------------------
(***************************************************************************)
(* Types.                                                                  *)
(***************************************************************************)
LEMMA PayloadTypes ==
  /\ Absent \in Payload
  /\ \A job \in Payload :
        /\ Complete(job) \in Payload
        /\ RetryOrFail(job) \in Payload
        /\ Cancelled(job) \in Payload
        /\ job.attempts < MaxAttempts => TransitionRunning(job) \in Payload
  BY DEF Absent, Payload, JobStatus, Final, Complete, RetryOrFail, Cancelled,
         TransitionRunning

LEMMA PutTypeOK ==
  ASSUME TypeOK, NEW p \in Procs, NEW next \in {"fixGet", "handle", "poll"},
         pc[p] \in Holding, Put(p, next),
         UNCHANGED <<createdAt, copy, seen, req, runs, budgets>>
  PROVE  TypeOK'
  BY DEF TypeOK, Put, Replaced, Goto, Die, Released, Places, Up, Holding, budgets

LEMMA InitTypeOK == Init => TypeOK
  BY PayloadTypes DEF Init, TypeOK, NoRequest, Places, Up, Holding

LEMMA NextTypeOK == TypeOK /\ [Next]_vars => TypeOK'
  <1> SUFFICES ASSUME TypeOK, [Next]_vars
               PROVE  TypeOK'
    OBVIOUS
  <1> USE DEF TypeOK, Goto, At, Places, Up, Holding, workerVars, budgets
  <1>1. ASSUME NEW j \in Jobs, CreateJob(j)
        PROVE  TypeOK'
    <2>1. [status |-> "queued", attempts |-> 0] \in Payload
      BY DEF Payload, JobStatus
    <2>2. Cardinality({k \in Jobs : createdAt[k] > 0}) + 1 \in Nat
      <3>1. {k \in Jobs : createdAt[k] > 0} \subseteq Jobs
        OBVIOUS
      <3>2. IsFiniteSet({k \in Jobs : createdAt[k] > 0})
        BY <3>1, JobsAssumption, FS_Subset
      <3>3. Cardinality({k \in Jobs : createdAt[k] > 0}) \in Nat
        BY <3>2, FS_CardinalityType
      <3> QED
        BY <3>3
    <2> QED
      BY <1>1, <2>1, <2>2 DEF CreateJob
  <1>2. ASSUME NEW c \in Cancellers, NEW j \in Jobs, CancelRead(c, j)
        PROVE  TypeOK'
    <2>1. Cancelled(store[j]) \in Payload
      BY PayloadTypes
    <2> QED
      BY <1>2, <2>1 DEF CancelRead
  <1>3. ASSUME NEW c \in Cancellers, CancelGet(c)
        PROVE  TypeOK'
    <2>1. version[req[c].job] \in Nat
      BY <1>3 DEF CancelGet
    <2> QED
      BY <1>3, <2>1 DEF CancelGet
  <1>4. ASSUME NEW c \in Cancellers, CancelPut(c)
        PROVE  TypeOK'
    <2>1. NoRequest \in [at : {"idle", "get", "put"}, job : Jobs \cup {NoJob},
                         copy : Payload, seen : Nat] /\ NoRequest.at = "idle"
      BY PayloadTypes DEF NoRequest
    <2>2. /\ req' = [req EXCEPT ![c] = NoRequest]
          /\ UNCHANGED <<createdAt, workerVars, runs, budgets>>
          /\ \/ Replaced(req[c].job, req[c].copy)
             \/ UNCHANGED <<store, version>>
      BY <1>4 DEF CancelPut
    <2>3. store' \in [Jobs -> Payload] /\ version' \in [Jobs -> Nat]
      BY <2>2 DEF Replaced
    <2> QED
      BY <2>1, <2>2, <2>3
  <1>5. ASSUME NEW p \in Procs, Start(p)
        PROVE  TypeOK'
    BY <1>5 DEF Start
  <1>6. ASSUME NEW p \in Procs, RecoverScan(p)
        PROVE  TypeOK'
    BY <1>6 DEF RecoverScan
  <1>7. ASSUME NEW p \in Procs, RecoverGet(p)
        PROVE  TypeOK'
    <2>1. \A item \in todo[p] : item[1] \in Jobs /\ RetryOrFail(item[2]) \in Payload
      BY PayloadTypes
    <2> QED
      BY <1>7, <2>1 DEF RecoverGet
  <1>8. ASSUME NEW p \in Procs, RecoverPut(p)
        PROVE  TypeOK'
    BY <1>8, PutTypeOK DEF RecoverPut
  <1>9. ASSUME NEW p \in Procs, Poll(p)
        PROVE  TypeOK'
    BY <1>9, PayloadTypes DEF Poll, Die, Released
  <1>10. ASSUME NEW p \in Procs, ClaimGet(p) \/ DoneGet(p)
         PROVE  TypeOK'
    BY <1>10 DEF ClaimGet, DoneGet, Get
  <1>11. ASSUME NEW p \in Procs, ClaimPut(p)
         PROVE  TypeOK'
    BY <1>11, PutTypeOK DEF ClaimPut
  <1>12. ASSUME NEW p \in Procs, Handle(p)
         PROVE  TypeOK'
    BY <1>12, PayloadTypes DEF Handle
  <1>13. ASSUME NEW p \in Procs, DonePut(p)
         PROVE  TypeOK'
    BY <1>13, PutTypeOK DEF DonePut
  <1>14. ASSUME NEW p \in Procs, Stop(p) \/ Crash(p)
         PROVE  TypeOK'
    BY <1>14 DEF Stop, Crash, Released
  <1>15. CASE LoseSession
    BY <1>15 DEF LoseSession
  <1>16. CASE UNCHANGED vars
    BY <1>16 DEF vars
  <1> QED
    BY <1>1, <1>2, <1>3, <1>4, <1>5, <1>6, <1>7, <1>8, <1>9, <1>10, <1>11, <1>12,
       <1>13, <1>14, <1>15, <1>16 DEF Next, WorkerStep

\* Every variable keeps its type, also when sessions are lost.
THEOREM SpecTypeOK == Spec => []TypeOK
  BY InitTypeOK, NextTypeOK, PTL DEF Spec
-----------------------------------------------------------------------------
(***************************************************************************)
(* The inductive invariant.                                                *)
(***************************************************************************)

\* The process whose worker runs holds the lease.
LeaseHeld == \A p \in Procs : pc[p] \in Up => lease = p

\* An API request only ever saves a cancelled copy.
RequestsCancel == \A c \in Cancellers : req[c].at # "idle" => req[c].copy.status = "cancelled"

\* What is stored counts the attempts made, and leaves one to a queued job.
StoreCovers ==
    \A j \in Jobs :
        /\ store[j].status = "absent" => runs[j] = 0
        /\ store[j].status \in {"queued", "running"} => runs[j] <= store[j].attempts
        /\ store[j].status = "queued" => store[j].attempts < MaxAttempts

\* What the worker is about to save does so too.
CopyCovers ==
    \A p \in Procs :
        /\ pc[p] \in {"claimGet", "claimPut", "handle"} =>
              copy[p].status = "running" /\ runs[held[p]] < copy[p].attempts
        /\ pc[p] \in {"doneGet", "donePut", "fixPut"} =>
              /\ copy[p].status \in {"completed", "queued", "failed"}
              /\ runs[held[p]] <= copy[p].attempts
              /\ copy[p].status = "queued" => copy[p].attempts < MaxAttempts
        /\ pc[p] \in {"fixGet", "fixPut"} =>
              \A item \in todo[p] : runs[item[1]] <= item[2].attempts

\* Whatever the worker holds exists; a job being handled is stored as it was
\* claimed, or has been cancelled.
HeldIsStored ==
    \A p \in Procs :
        /\ pc[p] \in Holding => store[held[p]].status # "absent"
        /\ pc[p] \in {"fixGet", "fixPut"} =>
              \A item \in todo[p] : store[item[1]].status # "absent"
        /\ pc[p] = "handle" => store[held[p]].status \in Final \/ store[held[p]] = copy[p]

\* A RUNNING job is the worker's own or still has to be recovered.
RunningIsKnown ==
    \A p \in Procs, j \in Jobs :
        pc[p] \in Up /\ store[j].status = "running" =>
            \/ pc[p] = "recover"
            \/ pc[p] \in {"fixGet", "fixPut"} /\ \E item \in todo[p] : item[1] = j
            \/ pc[p] \in {"fixPut", "handle", "doneGet", "donePut"} /\ held[p] = j

IInv ==
    /\ TypeOK
    /\ losses = 0
    /\ LeaseHeld
    /\ RequestsCancel
    /\ StoreCovers
    /\ CopyCovers
    /\ HeldIsStored
    /\ RunningIsKnown
    /\ RunsBounded
-----------------------------------------------------------------------------
LEMMA InitIInv == Init => IInv
  <1> SUFFICES ASSUME Init PROVE IInv
    OBVIOUS
  <1>1. TypeOK
    BY InitTypeOK
  <1>2. losses = 0 /\ LeaseHeld /\ RequestsCancel /\ CopyCovers /\ HeldIsStored
    BY DEF Init, LeaseHeld, RequestsCancel, CopyCovers, HeldIsStored, NoRequest,
           Up, Holding
  <1>3. StoreCovers /\ RunningIsKnown /\ RunsBounded
    BY DEF Init, StoreCovers, RunningIsKnown, RunsBounded, Absent, Up
  <1> QED
    BY <1>1, <1>2, <1>3 DEF IInv

\* There is one worker.
LEMMA OthersDown ==
  ASSUME IInv, NEW p \in Procs, pc[p] \in Up, NEW q \in Procs, q # p
  PROVE  pc[q] \notin Up
  BY NoProcAssumption DEF IInv, LeaseHeld

\* The requests and the environment, for a store in which a job is created or
\* cancelled and nothing else changes for the workers.
LEMMA CreateJobIInv ==
  ASSUME IInv, NEW j \in Jobs, CreateJob(j)
  PROVE  IInv'
  <1>1. TypeOK /\ TypeOK'
    BY NextTypeOK DEF IInv, Next
  <1>2. /\ store[j].status = "absent"
        /\ store' = [store EXCEPT ![j] = [status |-> "queued", attempts |-> 0]]
        /\ UNCHANGED <<workerVars, req, runs, budgets>>
    BY DEF CreateJob
  <1>3. store'[j] = [status |-> "queued", attempts |-> 0]
        /\ \A k \in Jobs \ {j} : store'[k] = store[k]
    BY <1>1, <1>2 DEF TypeOK
  <1>4. losses' = 0 /\ LeaseHeld' /\ RequestsCancel' /\ CopyCovers' /\ RunsBounded'
    BY <1>2 DEF IInv, LeaseHeld, RequestsCancel, CopyCovers, RunsBounded, workerVars, budgets
  <1>5. StoreCovers'
    BY <1>2, <1>3 DEF IInv, StoreCovers
  <1>6. HeldIsStored'
    <2>1. \A p \in Procs : pc[p] \in Holding => held[p] \in Jobs
      BY <1>1 DEF TypeOK
    <2>2. \A p \in Procs : \A item \in todo[p] : item[1] \in Jobs
      BY <1>1 DEF TypeOK
    <2> QED
      BY <1>2, <1>3, <2>1, <2>2 DEF IInv, HeldIsStored, workerVars, Holding, Up, Final
  <1>7. RunningIsKnown'
    BY <1>2, <1>3 DEF IInv, RunningIsKnown, workerVars
  <1> QED
    BY <1>1, <1>4, <1>5, <1>6, <1>7 DEF IInv

LEMMA CancelIInv ==
  ASSUME IInv, NEW c \in Cancellers,
         (\E j \in Jobs : CancelRead(c, j)) \/ CancelGet(c) \/ CancelPut(c)
  PROVE  IInv'
  <1>1. TypeOK /\ TypeOK'
    BY NextTypeOK DEF IInv, Next
  <1>2. UNCHANGED <<workerVars, runs, budgets>>
    BY DEF CancelRead, CancelGet, CancelPut
  <1>3. \/ store' = store
        \/ /\ req[c].at = "put"
           /\ store' = [store EXCEPT ![req[c].job] = req[c].copy]
    BY DEF CancelRead, CancelGet, CancelPut, Replaced
  <1>4. \A j \in Jobs : store'[j] = store[j] \/ store'[j].status = "cancelled"
    BY <1>1, <1>3 DEF TypeOK, IInv, RequestsCancel
  <1>5. RequestsCancel'
    <2>1. ASSUME NEW j \in Jobs, CancelRead(c, j)
          PROVE  RequestsCancel'
      <3>1. Cancelled(store[j]).status = "cancelled"
        BY <1>1 DEF TypeOK, Cancelled, Payload
      <3> QED
        BY <1>1, <2>1, <3>1 DEF CancelRead, TypeOK, IInv, RequestsCancel
    <2>2. CASE CancelGet(c)
      BY <1>1, <2>2 DEF CancelGet, TypeOK, IInv, RequestsCancel
    <2>3. CASE CancelPut(c)
      BY <1>1, <2>3 DEF CancelPut, NoRequest, TypeOK, IInv, RequestsCancel
    <2> QED
      BY <2>1, <2>2, <2>3
  <1>6. losses' = 0 /\ LeaseHeld' /\ CopyCovers' /\ RunsBounded'
    BY <1>2 DEF IInv, LeaseHeld, CopyCovers, RunsBounded, workerVars, budgets
  <1>7. StoreCovers'
    BY <1>2, <1>4 DEF IInv, StoreCovers
  <1>8. HeldIsStored'
    <2>1. \A p \in Procs : pc[p] \in Holding => held[p] \in Jobs
      BY <1>1 DEF TypeOK
    <2>2. \A p \in Procs : \A item \in todo[p] : item[1] \in Jobs
      BY <1>1 DEF TypeOK
    <2> QED
      BY <1>2, <1>4, <2>1, <2>2 DEF IInv, HeldIsStored, workerVars, Holding, Up, Final
  <1>9. RunningIsKnown'
    BY <1>2, <1>4 DEF IInv, RunningIsKnown, workerVars
  <1> QED
    BY <1>1, <1>5, <1>6, <1>7, <1>8, <1>9 DEF IInv

\* A step that leaves no worker running where p was.
LEMMA LeaveIInv ==
  ASSUME IInv, TypeOK', NEW p \in Procs,
         pc'[p] \notin Up,
         \A q \in Procs \ {p} : pc'[q] = pc[q],
         \A q \in Procs \ {p} : pc[q] \in Up => lease' = lease,
         \A q \in Procs \ {p} : UNCHANGED <<held[q], copy[q], todo[q]>>,
         UNCHANGED <<store, req, runs, losses>>
  PROVE  IInv'
  <1>1. \A q \in Procs : pc'[q] \in Up => q # p /\ pc[q] = pc'[q] /\ lease' = lease
    OBVIOUS
  <1>2. losses' = 0 /\ RequestsCancel' /\ StoreCovers' /\ RunsBounded'
    BY DEF IInv, RequestsCancel, StoreCovers, RunsBounded
  <1>3. LeaseHeld'
    BY <1>1 DEF IInv, LeaseHeld
  <1>4. CopyCovers' /\ HeldIsStored' /\ RunningIsKnown'
    BY <1>1 DEF IInv, CopyCovers, HeldIsStored, RunningIsKnown, Up, Holding
  <1> QED
    BY <1>2, <1>3, <1>4 DEF IInv

LEMMA StopOrCrashIInv ==
  ASSUME IInv, NEW p \in Procs, Stop(p) \/ Crash(p)
  PROVE  IInv'
  <1>1. TypeOK /\ TypeOK'
    BY NextTypeOK DEF IInv, Next
  <1>2. /\ pc' = [pc EXCEPT ![p] = "off"]
        /\ lease' = Released(p)
        /\ held' = held \/ held' = [held EXCEPT ![p] = NoJob]
        /\ todo' = todo \/ todo' = [todo EXCEPT ![p] = {}]
        /\ UNCHANGED <<store, copy, req, runs, losses>>
    BY DEF Stop, Crash, Goto
  <1>3. pc'[p] \notin Up /\ \A q \in Procs \ {p} : pc'[q] = pc[q]
    BY <1>1, <1>2 DEF TypeOK, Up
  <1>4. \A q \in Procs \ {p} : UNCHANGED <<held[q], copy[q], todo[q]>>
    BY <1>1, <1>2 DEF TypeOK
  <1>5. \A q \in Procs \ {p} : pc[q] \in Up => lease' = lease
    BY <1>2 DEF Released, IInv, LeaseHeld
  <1> QED
    BY <1>1, <1>2, <1>3, <1>4, <1>5, LeaveIInv

LEMMA DieIInv ==
  ASSUME IInv, TypeOK', NEW p \in Procs, pc[p] \in Up, Die(p),
         UNCHANGED <<store, copy, req, runs, losses>>
  PROVE  IInv'
  <1>1. TypeOK
    BY DEF IInv
  <1>2. pc'[p] \notin Up /\ \A q \in Procs \ {p} : pc'[q] = pc[q]
    BY <1>1 DEF TypeOK, Up, Die, Goto
  <1>3. \A q \in Procs \ {p} : UNCHANGED <<held[q], copy[q], todo[q]>>
    BY <1>1 DEF TypeOK, Die
  <1>4. \A q \in Procs \ {p} : pc[q] \in Up => lease' = lease
    BY DEF Die, Released, IInv, LeaseHeld
  <1> QED
    BY <1>2, <1>3, <1>4, LeaveIInv

\* A step of the only worker: the per-process conjuncts are about it alone.
LEMMA OnlyWorker ==
  ASSUME IInv, NEW p \in Procs, pc[p] \in Up \/ lease = NoProc,
         \A q \in Procs \ {p} : pc'[q] = pc[q]
  PROVE  \A q \in Procs : pc'[q] \in Up => q = p
  BY NoProcAssumption, OthersDown DEF IInv, LeaseHeld

\* Start, RecoverScan, RecoverGet, the other reads and Poll: nothing stored changes.
LEMMA ReadIInv ==
  ASSUME IInv, NEW p \in Procs,
         Start(p) \/ RecoverScan(p) \/ RecoverGet(p) \/ Poll(p) \/ ClaimGet(p) \/ DoneGet(p)
  PROVE  IInv'
  <1>1. TypeOK /\ TypeOK'
    BY NextTypeOK DEF IInv, Next, WorkerStep
  <1>2. /\ UNCHANGED <<store, req, runs, losses>>
        /\ \A q \in Procs \ {p} : pc'[q] = pc[q]
    BY <1>1 DEF TypeOK, Start, RecoverScan, RecoverGet, Poll, Die, ClaimGet, DoneGet, Get,
                Goto, budgets
  <1>3. losses' = 0 /\ RequestsCancel' /\ StoreCovers' /\ RunsBounded'
    BY <1>2 DEF IInv, RequestsCancel, StoreCovers, RunsBounded
  <1>4. pc[p] \in Up \/ lease = NoProc
    BY DEF Start, RecoverScan, RecoverGet, Poll, ClaimGet, DoneGet, Get, At, Up
  <1>5. \A q \in Procs : pc'[q] \in Up => q = p
    BY <1>2, <1>4, OnlyWorker
  <1>6. CASE Start(p)
    <2>1. pc'[p] = "recover" /\ lease' = p
      BY <1>1, <1>6 DEF TypeOK, Start, Goto
    <2> QED
      BY <1>1, <1>3, <1>5, <2>1
         DEF IInv, LeaseHeld, CopyCovers, HeldIsStored, RunningIsKnown, Up, Holding
  <1>7. CASE RecoverScan(p)
    <2>1. /\ pc'[p] = "fixGet" /\ lease' = lease
          /\ todo'[p] = {<<j, store[j]>> : j \in {k \in Jobs : store[k].status = "running"}}
          /\ pc[p] = "recover"
      BY <1>1, <1>7 DEF TypeOK, RecoverScan, Goto, At
    <2>2. \A item \in todo'[p] :
             \E j \in Jobs : item = <<j, store[j]>> /\ store[j].status = "running"
      BY <2>1
    <2>3. \A item \in todo'[p] : runs[item[1]] <= item[2].attempts
      BY <2>2 DEF IInv, StoreCovers
    <2>4. \A item \in todo'[p] : store[item[1]].status # "absent"
      BY <2>2
    <2>5. LeaseHeld'
      BY <1>5, <2>1 DEF IInv, LeaseHeld, Up
    <2>6. CopyCovers'
      BY <1>2, <1>5, <2>1, <2>3 DEF CopyCovers, Up
    <2>7. HeldIsStored'
      BY <1>2, <1>5, <2>1, <2>4 DEF HeldIsStored, Holding, Up
    <2>8. RunningIsKnown'
      <3>1. \A j \in Jobs : store[j].status = "running" => <<j, store[j]>> \in todo'[p]
        BY <2>1
      <3>2. \A j \in Jobs : store[j].status = "running" => \E item \in todo'[p] : item[1] = j
        BY <3>1
      <3> QED
        BY <1>2, <1>5, <2>1, <3>2 DEF RunningIsKnown
    <2> QED
      BY <1>1, <1>3, <2>5, <2>6, <2>7, <2>8 DEF IInv
  <1>8. CASE RecoverGet(p) /\ todo[p] = {} /\ Goto(p, "poll")
    <2>1. /\ pc[p] = "fixGet" /\ pc'[p] = "poll" /\ lease' = lease
      BY <1>1, <1>8 DEF TypeOK, RecoverGet, Goto, At
    <2>2. LeaseHeld'
      BY <1>5, <2>1 DEF IInv, LeaseHeld, Up
    <2>3. CopyCovers' /\ HeldIsStored'
      BY <1>5, <2>1 DEF CopyCovers, HeldIsStored, Holding, Up
    <2>4. RunningIsKnown'
      BY <1>2, <1>5, <1>8, <2>1 DEF IInv, RunningIsKnown, Up
    <2> QED
      BY <1>1, <1>3, <2>2, <2>3, <2>4 DEF IInv
  <1>9. CASE RecoverGet(p) /\ ~(todo[p] = {} /\ Goto(p, "poll"))
    <2>1. PICK item \in todo[p] :
            /\ held' = [held EXCEPT ![p] = item[1]]
            /\ copy' = [copy EXCEPT ![p] = RetryOrFail(item[2])]
            /\ todo' = [todo EXCEPT ![p] = @ \ {item}]
            /\ Goto(p, "fixPut")
      BY <1>9 DEF RecoverGet
    <2>2. /\ pc[p] = "fixGet" /\ pc'[p] = "fixPut" /\ lease' = lease
          /\ held'[p] = item[1] /\ copy'[p] = RetryOrFail(item[2])
          /\ todo'[p] = todo[p] \ {item}
          /\ item[2] \in Payload
      BY <1>1, <1>9, <2>1 DEF TypeOK, RecoverGet, Goto, At
    <2>3. /\ runs[item[1]] <= item[2].attempts
          /\ store[item[1]].status # "absent"
      BY <2>2 DEF IInv, CopyCovers, HeldIsStored
    <2>4. /\ copy'[p].status \in {"queued", "failed"}
          /\ copy'[p].attempts = item[2].attempts
          /\ copy'[p].status = "queued" => copy'[p].attempts < MaxAttempts
      BY <2>2 DEF RetryOrFail, Payload
    <2>5. LeaseHeld'
      BY <1>5, <2>2 DEF IInv, LeaseHeld, Up
    <2>6. CopyCovers'
      BY <1>2, <1>5, <2>2, <2>3, <2>4 DEF IInv, CopyCovers, Up
    <2>7. HeldIsStored'
      BY <1>2, <1>5, <2>2, <2>3 DEF IInv, HeldIsStored, Holding, Up
    <2>8. RunningIsKnown'
      BY <1>2, <1>5, <2>2 DEF IInv, RunningIsKnown, Up
    <2> QED
      BY <1>1, <1>3, <2>5, <2>6, <2>7, <2>8 DEF IInv
  <1>10. CASE Poll(p)
    <2>1. PICK j \in Jobs :
            /\ Oldest(j)
            /\ \/ /\ store[j].attempts < MaxAttempts
                  /\ held' = [held EXCEPT ![p] = j]
                  /\ copy' = [copy EXCEPT ![p] = TransitionRunning(store[j])]
                  /\ Goto(p, "claimGet")
                  /\ UNCHANGED <<lease, todo>>
               \/ /\ store[j].attempts >= MaxAttempts
                  /\ Die(p)
                  /\ UNCHANGED copy
      BY <1>10 DEF Poll
    <2>2. store[j].status = "queued" /\ store[j].attempts < MaxAttempts
          /\ runs[j] <= store[j].attempts
      BY <2>1 DEF Oldest, Queued, IInv, StoreCovers
    <2>3. store[j].attempts \in Nat /\ MaxAttempts \in Nat /\ runs[j] \in Nat
      BY <1>1, MaxAttemptsAssumption DEF TypeOK, Payload
    <2>4. /\ held'[p] = j /\ copy'[p] = TransitionRunning(store[j])
          /\ pc'[p] = "claimGet" /\ lease' = lease /\ pc[p] = "poll"
      BY <1>1, <1>10, <2>1, <2>2, <2>3 DEF TypeOK, Goto, Poll, At
    <2>5. copy'[p].status = "running" /\ runs[j] < copy'[p].attempts
      BY <2>2, <2>3, <2>4 DEF TransitionRunning
    <2>6. LeaseHeld'
      BY <1>5, <2>4 DEF IInv, LeaseHeld, Up
    <2>7. CopyCovers' /\ HeldIsStored'
      BY <1>2, <1>5, <2>2, <2>4, <2>5 DEF CopyCovers, HeldIsStored, Holding, Up
    <2>8. RunningIsKnown'
      BY <1>2, <1>5, <2>4 DEF IInv, RunningIsKnown, Up
    <2> QED
      BY <1>1, <1>3, <2>6, <2>7, <2>8 DEF IInv
  <1>11. CASE ClaimGet(p) \/ DoneGet(p)
    <2>1. /\ \/ pc[p] = "claimGet" /\ pc'[p] = "claimPut"
             \/ pc[p] = "doneGet" /\ pc'[p] = "donePut"
          /\ UNCHANGED <<lease, held, copy, todo>>
      BY <1>1, <1>11 DEF TypeOK, ClaimGet, DoneGet, Get, At, Goto
    <2>2. LeaseHeld'
      BY <1>5, <2>1 DEF IInv, LeaseHeld, Up
    <2>3. CopyCovers'
      BY <1>2, <1>5, <2>1 DEF IInv, CopyCovers, Up
    <2>4. HeldIsStored'
      BY <1>2, <1>5, <2>1 DEF IInv, HeldIsStored, Holding, Up
    <2>5. RunningIsKnown'
      BY <1>2, <1>5, <2>1 DEF IInv, RunningIsKnown, Up
    <2> QED
      BY <1>1, <1>3, <2>2, <2>3, <2>4, <2>5 DEF IInv
  <1> QED
    BY <1>6, <1>7, <1>8, <1>9, <1>10, <1>11

LEMMA HandleIInv ==
  ASSUME IInv, NEW p \in Procs, Handle(p)
  PROVE  IInv'
  <1>1. TypeOK /\ TypeOK'
    BY NextTypeOK DEF IInv, Next, WorkerStep
  <1>2. /\ pc[p] = "handle" /\ pc' = [pc EXCEPT ![p] = "doneGet"]
        /\ runs' = [runs EXCEPT ![held[p]] = @ + 1]
        /\ UNCHANGED <<store, lease, held, todo, req, losses>>
    BY DEF Handle, At, Goto, budgets
  <1>3. PICK outcome \in {Complete(copy[p]), RetryOrFail(copy[p])} :
          copy' = [copy EXCEPT ![p] = outcome]
    BY DEF Handle
  <1>4. /\ pc'[p] = "doneGet" /\ copy'[p] = outcome
        /\ \A q \in Procs \ {p} : pc'[q] = pc[q]
    BY <1>1, <1>2, <1>3 DEF TypeOK
  <1>5. \A q \in Procs : pc'[q] \in Up => q = p
    BY <1>2, <1>4, OnlyWorker DEF Up
  <1> DEFINE j == held[p]
  <1>6. j \in Jobs /\ runs'[j] = runs[j] + 1 /\ \A k \in Jobs \ {j} : runs'[k] = runs[k]
    BY <1>1, <1>2 DEF TypeOK, Holding, Up
  <1>7. /\ runs[j] < copy[p].attempts
        /\ copy[p].status = "running"
        /\ store[j].status \in Final \/ store[j] = copy[p]
    BY <1>2 DEF IInv, CopyCovers, HeldIsStored
  <1>8. /\ copy[p] \in Payload /\ runs[j] \in Nat /\ copy[p].attempts \in 0..MaxAttempts
        /\ MaxAttempts \in Nat
    BY <1>1, <1>6, MaxAttemptsAssumption DEF TypeOK, Payload
  <1> HIDE DEF j
  <1>9. /\ copy'[p].status \in {"completed", "queued", "failed"}
        /\ copy'[p].attempts = copy[p].attempts
        /\ copy'[p].status = "queued" => copy'[p].attempts < MaxAttempts
    BY <1>4, <1>8 DEF Complete, RetryOrFail, Payload
  <1>10. runs'[j] <= copy[p].attempts
    BY <1>6, <1>7, <1>8
  <1>11. losses' = 0 /\ RequestsCancel' /\ LeaseHeld'
    BY <1>2, <1>5 DEF IInv, RequestsCancel, LeaseHeld, Up
  <1>12. RunsBounded'
    BY <1>1, <1>6, <1>8, <1>10 DEF IInv, RunsBounded, TypeOK
  <1>13. StoreCovers'
    <2>1. ASSUME NEW k \in Jobs, k # j
          PROVE  runs'[k] = runs[k] /\ store'[k] = store[k]
      BY <1>2, <1>6, <2>1
    <2>2. /\ store'[j].status # "absent" /\ store'[j].status # "queued"
          /\ store'[j].status = "running" => runs'[j] <= store'[j].attempts
      BY <1>2, <1>7, <1>10 DEF Final
    <2> QED
      BY <2>1, <2>2 DEF IInv, StoreCovers
  <1>14. CopyCovers'
    BY <1>2, <1>4, <1>5, <1>9, <1>10 DEF CopyCovers, Up, j
  <1>15. HeldIsStored' /\ RunningIsKnown'
    BY <1>2, <1>4, <1>5 DEF IInv, HeldIsStored, RunningIsKnown, Up, Holding
  <1> QED
    BY <1>1, <1>11, <1>12, <1>13, <1>14, <1>15 DEF IInv

\* An update of the worker that goes through.
LEMMA PutIInv ==
  ASSUME IInv, TypeOK', NEW p \in Procs, NEW next \in {"fixGet", "handle", "poll"},
         \/ pc[p] = "fixPut" /\ next = "fixGet"
         \/ pc[p] = "claimPut" /\ next = "handle"
         \/ pc[p] = "donePut" /\ next = "poll",
         Put(p, next), UNCHANGED <<copy, req, runs, losses>>
  PROVE  IInv'
  <1>1. TypeOK /\ pc[p] \in Up /\ pc[p] \in Holding
    BY DEF IInv, Up, Holding
  <1>2. CASE Die(p) /\ UNCHANGED store
    BY <1>1, <1>2, DieIInv
  <1>3. CASE ~(Die(p) /\ UNCHANGED store)
    <2> DEFINE j == held[p]
    <2>1. /\ store' = [store EXCEPT ![j] = copy[p]]
          /\ pc' = [pc EXCEPT ![p] = next]
          /\ held' = [held EXCEPT ![p] = IF next = "handle" THEN held[p] ELSE NoJob]
          /\ UNCHANGED <<lease, todo>>
      BY <1>3 DEF Put, Replaced, Goto
    <2>2. j \in Jobs /\ copy[p] \in Payload
      BY <1>1 DEF TypeOK
    <2>3. store'[j] = copy[p] /\ \A k \in Jobs \ {j} : store'[k] = store[k]
      BY <1>1, <2>1, <2>2 DEF TypeOK
    <2>4. /\ pc'[p] = next /\ \A q \in Procs \ {p} : pc'[q] = pc[q]
          /\ next = "handle" => held'[p] = j
      BY <1>1, <2>1 DEF TypeOK
    <2>5. \A q \in Procs : pc'[q] \in Up => q = p
      BY <1>1, <2>4, OnlyWorker
    <2>6. /\ pc[p] = "claimPut" => copy[p].status = "running" /\ runs[j] < copy[p].attempts
          /\ pc[p] # "claimPut" =>
                /\ copy[p].status \in {"completed", "queued", "failed"}
                /\ runs[j] <= copy[p].attempts
                /\ copy[p].status = "queued" => copy[p].attempts < MaxAttempts
      BY DEF IInv, CopyCovers
    <2>7. runs[j] \in Nat /\ copy[p].attempts \in Nat
      BY <1>1, <2>2 DEF TypeOK, Payload
    <2>8. \A item \in todo[p] : item[1] \in Jobs
      BY <1>1 DEF TypeOK
    <2> HIDE DEF j
    <2>9. losses' = 0 /\ RequestsCancel' /\ LeaseHeld' /\ RunsBounded'
      BY <2>1, <2>5, <1>1 DEF IInv, RequestsCancel, LeaseHeld, RunsBounded
    <2>10. StoreCovers'
      BY <2>3, <2>6, <2>7 DEF IInv, StoreCovers
    <2>11. CopyCovers'
      BY <2>1, <2>4, <2>5, <2>6 DEF IInv, CopyCovers, Up
    <2>12. HeldIsStored'
      BY <2>1, <2>3, <2>4, <2>5, <2>6, <2>8 DEF IInv, HeldIsStored, Holding, Up
    <2>13. RunningIsKnown'
      <3>1. ASSUME NEW k \in Jobs, k # j, store'[k].status = "running"
            PROVE  pc[p] = "fixPut" /\ \E item \in todo[p] : item[1] = k
        BY <1>1, <2>3, <3>1 DEF IInv, RunningIsKnown, j
      <3>2. store'[j].status = "running" => next = "handle"
        BY <2>3, <2>6
      <3> QED
        BY <2>1, <2>4, <2>5, <3>1, <3>2 DEF RunningIsKnown
    <2> QED
      BY <2>9, <2>10, <2>11, <2>12, <2>13 DEF IInv
  <1> QED
    BY <1>2, <1>3

LEMMA NextIInv ==
  ASSUME MaxLeaseLosses = 0, IInv, [Next]_vars
  PROVE  IInv'
  <1>1. TypeOK'
    BY NextTypeOK DEF IInv
  <1>2. ASSUME NEW j \in Jobs, CreateJob(j)
        PROVE  IInv'
    BY <1>2, CreateJobIInv
  <1>3. ASSUME NEW c \in Cancellers,
               (\E j \in Jobs : CancelRead(c, j)) \/ CancelGet(c) \/ CancelPut(c)
        PROVE  IInv'
    BY <1>3, CancelIInv
  <1>4. ASSUME NEW p \in Procs,
               Start(p) \/ RecoverScan(p) \/ RecoverGet(p) \/ Poll(p) \/ ClaimGet(p) \/ DoneGet(p)
        PROVE  IInv'
    BY <1>4, ReadIInv
  <1>5. ASSUME NEW p \in Procs, Handle(p)
        PROVE  IInv'
    BY <1>5, HandleIInv
  <1>6. ASSUME NEW p \in Procs, RecoverPut(p) \/ ClaimPut(p) \/ DonePut(p)
        PROVE  IInv'
    BY <1>1, <1>6, PutIInv DEF RecoverPut, ClaimPut, DonePut, At, budgets
  <1>7. ASSUME NEW p \in Procs, Stop(p) \/ Crash(p)
        PROVE  IInv'
    BY <1>7, StopOrCrashIInv
  <1>8. CASE LoseSession
    BY <1>8 DEF LoseSession, IInv
  <1>9. CASE UNCHANGED vars
    BY <1>1, <1>9 DEF vars, workerVars, budgets, IInv, LeaseHeld, RequestsCancel, StoreCovers,
                      CopyCovers, HeldIsStored, RunningIsKnown, RunsBounded
  <1> QED
    BY <1>2, <1>3, <1>4, <1>5, <1>6, <1>7, <1>8, <1>9 DEF Next, WorkerStep

LEMMA SpecIInv ==
  ASSUME MaxLeaseLosses = 0
  PROVE  Spec => []IInv
  BY InitIInv, NextIInv, PTL DEF Spec
-----------------------------------------------------------------------------
\* At most one worker runs jobs, however processes are started and die.
THEOREM SpecOneWorker ==
  ASSUME MaxLeaseLosses = 0
  PROVE  Spec => []OneWorker
  <1>1. IInv => OneWorker
    BY NoProcAssumption DEF IInv, LeaseHeld, OneWorker
  <1> QED
    BY <1>1, SpecIInv, PTL

\* No job is handled more than max_attempts times.
THEOREM SpecRunsBounded ==
  ASSUME MaxLeaseLosses = 0
  PROVE  Spec => []RunsBounded
  <1>1. IInv => RunsBounded
    BY DEF IInv
  <1> QED
    BY <1>1, SpecIInv, PTL

\* A queued job has an attempt left, so that taking it never ends the thread.
THEOREM SpecQueuedCanStart ==
  ASSUME MaxLeaseLosses = 0
  PROVE  Spec => []QueuedCanStart
  <1>1. IInv => QueuedCanStart
    BY DEF IInv, StoreCovers, QueuedCanStart, Queued
  <1> QED
    BY <1>1, SpecIInv, PTL

\* Once recovery is over no job is left RUNNING by a worker that died.
THEOREM SpecNoOrphanWhenPolling ==
  ASSUME MaxLeaseLosses = 0
  PROVE  Spec => []NoOrphanWhenPolling
  <1>1. IInv => NoOrphanWhenPolling
    BY DEF IInv, RunningIsKnown, NoOrphanWhenPolling, Up
  <1> QED
    BY <1>1, SpecIInv, PTL
-----------------------------------------------------------------------------
(***************************************************************************)
(* Only a cancellation ends the worker.                                    *)
(***************************************************************************)

\* An update whose version is no longer the newest meets a cancelled job.
StaleMeansCancelled ==
    \A p \in Procs :
        pc[p] \in {"fixPut", "claimPut", "donePut"} =>
            version[held[p]] = seen[p] \/ store[held[p]].status = "cancelled"

\* A cancelled job that no worker holds or is going to hold.
Settled(j) ==
    /\ store[j].status = "cancelled"
    /\ \A p \in Procs :
          /\ pc[p] \in Holding => held[p] # j
          /\ pc[p] \in {"fixGet", "fixPut"} => \A item \in todo[p] : item[1] # j
DeadForReason == (\E p \in Procs : pc[p] = "dead") => \E j \in Jobs : Settled(j)

SInv == IInv /\ StaleMeansCancelled /\ DeadForReason

\* A settled job is never touched again: recovery lists running jobs, the
\* worker takes queued ones, and a request only stores a cancelled copy.
LEMMA SettledStays ==
  ASSUME IInv, NEW j \in Jobs, Settled(j), [Next]_vars
  PROVE  Settled(j)'
  <1>1. TypeOK /\ TypeOK'
    BY NextTypeOK DEF IInv
  <1> USE DEF Settled, At, Goto
  <1>2. ASSUME NEW k \in Jobs, CreateJob(k)
        PROVE  Settled(j)'
    BY <1>1, <1>2 DEF CreateJob, TypeOK, workerVars
  <1>3. ASSUME NEW c \in Cancellers,
               (\E k \in Jobs : CancelRead(c, k)) \/ CancelGet(c) \/ CancelPut(c)
        PROVE  Settled(j)'
    <2>1. UNCHANGED workerVars
      BY <1>3 DEF CancelRead, CancelGet, CancelPut
    <2>2. \/ store' = store
          \/ store' = [store EXCEPT ![req[c].job] = req[c].copy] /\ req[c].at = "put"
      BY <1>3 DEF CancelRead, CancelGet, CancelPut, Replaced
    <2>3. store'[j] = store[j] \/ store'[j].status = "cancelled"
      BY <1>1, <2>2 DEF TypeOK, IInv, RequestsCancel
    <2> QED
      BY <2>1, <2>3 DEF workerVars
  <1>4. ASSUME NEW p \in Procs, Start(p) \/ Stop(p) \/ Crash(p)
        PROVE  Settled(j)'
    <2>1. /\ pc'[p] \in {"recover", "off"} /\ store' = store
          /\ \A q \in Procs \ {p} : UNCHANGED <<pc[q], held[q], todo[q]>>
      BY <1>1, <1>4 DEF TypeOK, Start, Stop, Crash
    <2> QED
      BY <2>1 DEF Holding, Up
  <1>5. ASSUME NEW p \in Procs, RecoverScan(p)
        PROVE  Settled(j)'
    <2>1. /\ pc'[p] = "fixGet" /\ store' = store
          /\ \A q \in Procs \ {p} : UNCHANGED <<pc[q], held[q], todo[q]>>
          /\ todo'[p] = {<<k, store[k]>> : k \in {i \in Jobs : store[i].status = "running"}}
      BY <1>1, <1>5 DEF TypeOK, RecoverScan
    <2>2. \A item \in todo'[p] :
             \E k \in Jobs : item = <<k, store[k]>> /\ store[k].status = "running"
      BY <2>1
    <2>3. \A item \in todo'[p] : item[1] # j
      BY <2>2
    <2> QED
      BY <2>1, <2>3 DEF Holding, Up
  <1>6. ASSUME NEW p \in Procs, RecoverGet(p)
        PROVE  Settled(j)'
    <2>1. /\ store' = store /\ pc[p] = "fixGet"
          /\ \A q \in Procs \ {p} : UNCHANGED <<pc[q], held[q], todo[q]>>
          /\ \/ pc'[p] = "poll"
             \/ /\ pc'[p] = "fixPut" /\ todo'[p] \subseteq todo[p]
                /\ \E item \in todo[p] : held'[p] = item[1]
      BY <1>1, <1>6 DEF TypeOK, RecoverGet
    <2> QED
      BY <2>1 DEF Holding, Up
  <1>7. ASSUME NEW p \in Procs, Poll(p)
        PROVE  Settled(j)'
    <2>1. /\ store' = store
          /\ \A q \in Procs \ {p} : UNCHANGED <<pc[q], held[q], todo[q]>>
          /\ \/ pc'[p] = "dead"
             \/ pc'[p] = "claimGet" /\ \E k \in Jobs : Queued(k) /\ held'[p] = k
      BY <1>1, <1>7 DEF TypeOK, Poll, Die, Oldest
    <2> QED
      BY <2>1 DEF Holding, Up, Queued
  <1>8. ASSUME NEW p \in Procs, ClaimGet(p) \/ DoneGet(p) \/ Handle(p)
        PROVE  Settled(j)'
    <2>1. /\ UNCHANGED <<store, held, todo>>
          /\ pc[p] \in {"claimGet", "doneGet", "handle"}
          /\ pc'[p] \in {"claimPut", "donePut", "doneGet"}
          /\ \A q \in Procs \ {p} : UNCHANGED pc[q]
      BY <1>1, <1>8 DEF TypeOK, ClaimGet, DoneGet, Get, Handle
    <2> QED
      BY <2>1 DEF Holding, Up
  <1>9. ASSUME NEW p \in Procs, RecoverPut(p) \/ ClaimPut(p) \/ DonePut(p)
        PROVE  Settled(j)'
    <2>1. PICK next \in {"fixGet", "handle", "poll"} :
            /\ Put(p, next)
            /\ \/ pc[p] = "fixPut" /\ next = "fixGet"
               \/ pc[p] = "claimPut" /\ next = "handle"
               \/ pc[p] = "donePut" /\ next = "poll"
      BY <1>9 DEF RecoverPut, ClaimPut, DonePut
    <2>2. held[p] # j
      BY <2>1 DEF Holding, Up
    <2>3. /\ store'[j] = store[j]
          /\ \A q \in Procs \ {p} : UNCHANGED <<pc[q], held[q], todo[q]>>
      BY <1>1, <2>1, <2>2 DEF TypeOK, Put, Replaced, Die
    <2>4. \/ pc'[p] = next /\ todo'[p] = todo[p] /\ (next = "handle" => held'[p] = held[p])
          \/ pc'[p] = "dead"
      BY <1>1, <2>1 DEF TypeOK, Put, Die
    <2> QED
      BY <2>1, <2>2, <2>3, <2>4 DEF Holding, Up
  <1>10. CASE LoseSession \/ UNCHANGED vars
    BY <1>10 DEF LoseSession, vars, workerVars
  <1> QED
    BY <1>2, <1>3, <1>4, <1>5, <1>6, <1>7, <1>8, <1>9, <1>10 DEF Next, WorkerStep

\* Only a cancellation comes between the two halves of the worker's update.
LEMMA NextStale ==
  ASSUME SInv, IInv', [Next]_vars
  PROVE  StaleMeansCancelled'
  <1>1. TypeOK /\ TypeOK' /\ IInv
    BY DEF SInv, IInv
  <1> USE DEF StaleMeansCancelled, At, Goto
  <1>2. ASSUME NEW k \in Jobs, CreateJob(k)
        PROVE  StaleMeansCancelled'
    <2>1. /\ \A i \in Jobs \ {k} : UNCHANGED <<store[i], version[i]>>
          /\ UNCHANGED workerVars /\ store[k].status = "absent"
      BY <1>1, <1>2 DEF CreateJob, TypeOK
    <2>2. \A p \in Procs : pc[p] \in Holding => held[p] \in Jobs /\ held[p] # k
      BY <1>1, <2>1 DEF IInv, TypeOK, HeldIsStored
    <2> QED
      BY <2>1, <2>2 DEF SInv, workerVars, Holding, Up
  <1>3. ASSUME NEW c \in Cancellers,
               (\E k \in Jobs : CancelRead(c, k)) \/ CancelGet(c) \/ CancelPut(c)
        PROVE  StaleMeansCancelled'
    <2>1. UNCHANGED workerVars
      BY <1>3 DEF CancelRead, CancelGet, CancelPut
    <2>2. \/ UNCHANGED <<store, version>>
          \/ Replaced(req[c].job, req[c].copy) /\ req[c].at = "put"
      BY <1>3 DEF CancelRead, CancelGet, CancelPut
    <2>3. \A i \in Jobs : UNCHANGED <<store[i], version[i]>> \/ store'[i].status = "cancelled"
      BY <1>1, <2>2 DEF TypeOK, IInv, RequestsCancel, Replaced
    <2>4. \A p \in Procs : pc[p] \in Holding => held[p] \in Jobs
      BY <1>1 DEF TypeOK
    <2> QED
      BY <2>1, <2>3, <2>4 DEF SInv, workerVars, Holding, Up
  <1>4. ASSUME NEW p \in Procs, RecoverGet(p) \/ ClaimGet(p) \/ DoneGet(p)
        PROVE  StaleMeansCancelled'
    <2>1. /\ UNCHANGED <<store, version>>
          /\ \A q \in Procs \ {p} : UNCHANGED <<pc[q], held[q], seen[q]>>
          /\ pc'[p] \in {"fixPut", "claimPut", "donePut"} => seen'[p] = version[held'[p]]
      BY <1>1, <1>4 DEF TypeOK, RecoverGet, ClaimGet, DoneGet, Get
    <2> QED
      BY <2>1 DEF SInv
  <1>5. ASSUME NEW p \in Procs, RecoverPut(p) \/ ClaimPut(p) \/ DonePut(p)
        PROVE  StaleMeansCancelled'
    <2>1. /\ pc[p] \in Up /\ pc'[p] \notin {"fixPut", "claimPut", "donePut"}
          /\ \A q \in Procs \ {p} : UNCHANGED pc[q]
      BY <1>1, <1>5 DEF TypeOK, RecoverPut, ClaimPut, DonePut, Put, Die, Up
    <2>2. \A q \in Procs : pc'[q] \in Up => q = p
      BY <1>1, <2>1, OnlyWorker
    <2> QED
      BY <2>1, <2>2 DEF Up
  <1>6. ASSUME NEW p \in Procs,
               Start(p) \/ RecoverScan(p) \/ Poll(p) \/ Handle(p) \/ Stop(p) \/ Crash(p)
        PROVE  StaleMeansCancelled'
    <2>1. /\ UNCHANGED <<store, version>>
          /\ pc'[p] \notin {"fixPut", "claimPut", "donePut"}
          /\ \A q \in Procs \ {p} : UNCHANGED <<pc[q], held[q], seen[q]>>
      BY <1>1, <1>6 DEF TypeOK, Start, RecoverScan, Poll, Handle, Stop, Crash, Die
    <2> QED
      BY <2>1 DEF SInv
  <1>7. CASE LoseSession \/ UNCHANGED vars
    BY <1>7 DEF SInv, LoseSession, vars, workerVars
  <1> QED
    BY <1>2, <1>3, <1>4, <1>5, <1>6, <1>7 DEF Next, WorkerStep

LEMMA NextDead ==
  ASSUME SInv, IInv', [Next]_vars
  PROVE  DeadForReason'
  <1>1. TypeOK /\ TypeOK' /\ IInv
    BY DEF SInv, IInv
  <1>2. CASE \A q \in Procs : pc'[q] = "dead" => pc[q] = "dead"
    BY <1>1, <1>2, SettledStays DEF SInv, DeadForReason
  <1>3. ASSUME NEW p \in Procs, pc'[p] = "dead", pc[p] # "dead"
        PROVE  DeadForReason'
    <2>1. Poll(p) \/ RecoverPut(p) \/ ClaimPut(p) \/ DonePut(p)
      <3>1. \/ \E q \in Procs : Start(q) \/ WorkerStep(q) \/ Stop(q) \/ Crash(q)
            \/ pc' = pc
        BY DEF Next, CreateJob, CancelRead, CancelGet, CancelPut, LoseSession, workerVars, vars
      <3>2. PICK q \in Procs : Start(q) \/ WorkerStep(q) \/ Stop(q) \/ Crash(q)
        BY <1>3, <3>1
      <3>3. Poll(q) \/ RecoverPut(q) \/ ClaimPut(q) \/ DonePut(q) \/ pc'[p] # "dead"
        BY <1>1, <1>3, <3>2 DEF TypeOK, Start, WorkerStep, Stop, Crash, RecoverScan, RecoverGet,
           ClaimGet, DoneGet, Get, Handle, Goto
      <3>4. \A r \in Procs \ {q} : pc'[r] = pc[r]
        BY <1>1, <1>3, <3>3 DEF TypeOK, Poll, RecoverPut, ClaimPut, DonePut, Put, Die, Goto
      <3> QED
        BY <1>3, <3>3, <3>4
    <2>2. ~Poll(p)
      <3>1. \A j \in Jobs : Oldest(j) => ~(store[j].attempts >= MaxAttempts)
        BY <1>1, MaxAttemptsAssumption DEF TypeOK, Payload, IInv, StoreCovers, Oldest, Queued
      <3>2. Poll(p) => pc'[p] = "claimGet"
        BY <1>1, <3>1 DEF Poll, TypeOK, Goto
      <3> QED
        BY <1>3, <3>2
    <2>3. /\ pc[p] \in {"fixPut", "claimPut", "donePut"}
          /\ version[held[p]] # seen[p] /\ Die(p) /\ UNCHANGED store
      BY <1>1, <1>3, <2>1, <2>2 DEF TypeOK, RecoverPut, ClaimPut, DonePut, Put, At, Goto
    <2>4. PICK j \in Jobs : store'[j].status = "cancelled"
      BY <1>1, <2>3 DEF TypeOK, Holding, Up, SInv, StaleMeansCancelled
    <2>5. \A q \in Procs \ {p} : pc'[q] = pc[q]
      BY <1>1, <2>3 DEF TypeOK, Die, Goto
    <2>6. \A q \in Procs : pc'[q] \notin Up
      BY <1>1, <1>3, <2>3, <2>5, OnlyWorker DEF Up
    <2>7. Settled(j)'
      BY <2>4, <2>6 DEF Settled, Holding, Up
    <2> QED
      BY <2>4, <2>7 DEF DeadForReason
  <1> QED
    BY <1>2, <1>3

\* Nothing but a cancellation ends the worker thread of a process that is up.
THEOREM SpecWorkerSurvives ==
  ASSUME MaxLeaseLosses = 0
  PROVE  Spec => []WorkerSurvives
  <1>1. Init => SInv
    BY InitIInv DEF Init, SInv, StaleMeansCancelled, DeadForReason
  <1>2. SInv /\ [Next]_vars => SInv'
    BY NextIInv, NextStale, NextDead DEF SInv
  <1>3. SInv => WorkerSurvives
    BY DEF SInv, DeadForReason, Settled, WorkerSurvives
  <1> QED
    BY <1>1, <1>2, <1>3, PTL DEF Spec
=============================================================================
