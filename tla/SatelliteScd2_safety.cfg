\* One key in order, one in any order, crashes between the transactions.
SPECIFICATION Spec
CONSTANTS
    Keys = {ordered, mixed}
    OrderedKeys = {ordered}
    Hashes = {h1, h2}
    MaxTime = 3
    MaxRuns = 3
    MaxFaults = 1
SYMMETRY Symmetry
INVARIANTS
    TypeOK
    OneCurrent
    NoOverlap
    OrderedOneCurrent
    OrderedHistory
PROPERTY OrderedRerun
CHECK_DEADLOCK FALSE
