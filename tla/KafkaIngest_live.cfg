\* Extensions builder; a group join never overrides the stored positions.
SPECIFICATION FairSpec
CONSTANTS
    Partitions = {p0, p1}
    Kinds = {"record"}
    RejectsNonObject = FALSE
    Reassigns = FALSE
    MaxMessages = 2
    MaxLog = 3
    MaxFaults = 2
PROPERTIES
    WatermarkMonotone
    TrackedPartitionCatchesUp
