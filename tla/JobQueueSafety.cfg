\* Two servers, two jobs, a cancellation on its way, two restarts.
SPECIFICATION Spec
CONSTANTS
    j1 = j1
    j2 = j2
    p1 = p1
    p2 = p2
    c1 = c1
    NoProc = NoProc
    NoJob = NoJob
    Jobs <- MCJobs
    Procs <- MCProcs
    Cancellers <- MCCancellers
    MaxAttempts = 2
    MaxRestarts = 2
    MaxLeaseLosses = 0
SYMMETRY ProcSymmetry
INVARIANTS
    TypeOK
    RunsBounded
    OneWorker
    QueuedCanStart
    NoOrphanWhenPolling
    WorkerSurvives
\* An idle worker polls an empty queue: nothing is left to do.
CHECK_DEADLOCK FALSE
