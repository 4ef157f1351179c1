\* One server, two jobs, a cancellation on its way, a restart, the lock lost once.
SPECIFICATION FairSpec
CONSTANTS
    j1 = j1
    j2 = j2
    p1 = p1
    p2 = p2
    c1 = c1
    NoProc = NoProc
    NoJob = NoJob
    Jobs <- MCJobs
    Procs <- OneProc
    Cancellers <- MCCancellers
    MaxAttempts = 2
    MaxRestarts = 1
    MaxLeaseLosses = 1
PROPERTIES
    JobEnds
\* An idle worker polls an empty queue: nothing is left to do.
CHECK_DEADLOCK FALSE
