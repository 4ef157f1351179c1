\* A manual site and a server that dies between two saves of one delivery.
SPECIFICATION Spec
CONSTANTS
    old = old
    new = new
    newer = newer
    other = other
    r1 = r1
    r2 = r2
    Unknown = Unknown
    Worker = Worker
    Measurer = Measurer
    Titles <- MCTitles
    Original <- old
    Targets <- OneTarget
    Requests <- OneRequest
    Kinds <- Manual
    MaxAttempts = 3
    MaxJobs = 1
    MaxFaults = 0
    MaxCrashes = 1
    MaxEdits = 1
INVARIANTS
    ManualNotForgotten
\* An action that has been decided, carried out and settled is left alone.
CHECK_DEADLOCK FALSE
