\* Orders/payments builder, reassignments, poison payloads and two faults.
SPECIFICATION Spec
CONSTANTS
    Partitions = {p0, p1}
    Kinds = {"record", "nonobject", "undecodable"}
    RejectsNonObject = TRUE
    Reassigns = TRUE
    MaxMessages = 2
    MaxLog = 2
    MaxFaults = 2
SYMMETRY Symmetry
INVARIANTS
    TypeOK
    WatermarkCovered
    CommitAfterInsert
    SuccessIsDurable
    OnlyAcceptedRows
PROPERTY SinkSpec
