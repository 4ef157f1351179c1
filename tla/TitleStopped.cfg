\* One request at a time, any of which may be stopped and repeated; the history overflows.
SPECIFICATION Spec
CONSTANTS
    ta = ta
    tb = tb
    tc = tc
    td = td
    k1 = k1
    k2 = k2
    k3 = k3
    k4 = k4
    r1 = r1
    NoOverride = NoOverride
    Titles <- MCTitles
    Keys <- MCKeys
    Requests <- OneRequest
    HistorySize = 3
    MaxChanges = 4
    MaxStops = 2
SYMMETRY MCSymmetry
INVARIANTS
    TypeOK
    AnsweredIsKept
PROPERTIES
    NewerTitleKept
    UndoRestoresUnstopped
\* A client may send no more requests.
CHECK_DEADLOCK FALSE
