\* Everything may go wrong: failed calls, restarts, disk errors, overruns, output that cannot be read.
SPECIFICATION Spec
CONSTANTS
    Runs = {r1, r2, r3, r4}
    NoRun = NoRun
    PostAttempts = 2
    FinishRetries = 2
    TaskRetries = 1
    Mishaps = {"crash", "disk", "output", "quiet overrun", "overrun"}
    MaxWeb = 1
    MaxFaults = 3
SYMMETRY Symmetry
INVARIANTS
    TypeOK
    StatusIsTrue
    TaskSuccessIsReal
PROPERTY
    TerminalIsFinal
CHECK_DEADLOCK FALSE
