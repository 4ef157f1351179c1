\* Every kind of connection: two requests at once, two titles to approve, an error, a crash, one change by others.
SPECIFICATION Spec
CONSTANTS
    old = old
    new = new
    newer = newer
    other = other
    r1 = r1
    r2 = r2
    Unknown = Unknown
    Worker = Worker
    Measurer = Measurer
    Titles <- MCTitles
    Original <- old
    Targets <- TwoTargets
    Requests <- TwoRequests
    Kinds <- AllKinds
    MaxAttempts = 2
    MaxJobs = 2
    MaxFaults = 1
    MaxCrashes = 1
    MaxEdits = 1
SYMMETRY RequestSymmetry
INVARIANTS
    TypeOK
    NoWriteWithoutApproval
    RolledBackIsUndone
    
    OneLesson
PROPERTIES
    PendingRollbackNotMeasured
    StatusFollowsTable
    ImplementsContract
\* An action that has been decided, carried out and settled is left alone.
CHECK_DEADLOCK FALSE
