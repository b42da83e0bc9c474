\* Two questions, failed Redis commands and kills at any point, a model that
\* may be registered late, and anything the language model may generate.
SPECIFICATION FairSpec
CONSTANTS
    Jobs = {j1, j2}
    NoJob = NoJob
    MaxValidation = 2
    MaxExecution = 2
    AutoLog = FALSE
    MaxFaults = 3
INVARIANTS
    TypeOK
    NoJobForgotten
    PositionNeverWorse
PROPERTIES
    QueueSpec
    FinishedIsFinal
    Settles
CHECK_DEADLOCK FALSE
