\* A cancellation that read the job queued overwrites it while it runs.
SPECIFICATION Spec
CONSTANTS
    j1 = j1
    j2 = j2
    p1 = p1
    p2 = p2
    c1 = c1
    NoProc = NoProc
    NoJob = NoJob
    Jobs <- OneJob
    Procs <- OneProc
    Cancellers <- MCCancellers
    MaxAttempts = 1
    MaxRestarts = 0
    MaxLeaseLosses = 0
PROPERTIES
    OnlyQueuedCancelled
\* An idle worker polls an empty queue: nothing is left to do.
CHECK_DEADLOCK FALSE
