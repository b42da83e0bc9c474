\* Restarts, disk errors and failed calls, fewer than the writes of
\* mark_finished_best_effort.
SPECIFICATION FairSpec
CONSTANTS
    Runs = {r1, r2}
    NoRun = NoRun
    PostAttempts = 1
    FinishRetries = 2
    TaskRetries = 1
    Mishaps = {"crash", "disk", "output", "quiet overrun"}
    MaxWeb = 0
    MaxFaults = 2
PROPERTIES
    TaskEnds
    RunSettles
CHECK_DEADLOCK FALSE
