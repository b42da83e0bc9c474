\* A table with a cursor; rows with equal timestamps; batches smaller than the
\* backlog; failures between the transactions.
SPECIFICATION FairSpec
CONSTANTS
    Watermarked = TRUE
    BatchSize = 2
    MaxPk = 3
    MaxTs = 2
    MaxCopies = 5
    MaxFaults = 2
INVARIANTS
    TypeOK
    CursorCovered
    CopiesAreFaults
PROPERTIES
    SinkSpec
    EveryRowExtracted
