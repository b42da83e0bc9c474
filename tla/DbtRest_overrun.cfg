\* dbt that has printed something runs into the time limit; nothing else fails.
SPECIFICATION FairSpec
CONSTANTS
    Runs = {r1}
    NoRun = NoRun
    PostAttempts = 1
    FinishRetries = 2
    TaskRetries = 0
    Mishaps = {"overrun"}
    MaxWeb = 0
    MaxFaults = 1
PROPERTY RunSettles
CHECK_DEADLOCK FALSE
