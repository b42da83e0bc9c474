\* order_items: no watermark column; nothing fails.
SPECIFICATION Spec
CONSTANTS
    Watermarked = FALSE
    BatchSize = 2
    MaxPk = 3
    MaxTs = 2
    MaxCopies = 3
    MaxFaults = 0
INVARIANT NoDuplicates
CHECK_DEADLOCK FALSE
