\* Versions of one key in any order, nothing fails.
SPECIFICATION Spec
CONSTANTS
    Keys = {mixed}
    OrderedKeys = {}
    Hashes = {h1, h2}
    MaxTime = 2
    MaxRuns = 3
    MaxFaults = 0
PROPERTY Idempotent
CHECK_DEADLOCK FALSE
