\* Three files and two failures; two raw datasets, rows that commit late and one
\* failure; two events, versions or extensions, through the chain of DAGs and one
\* failure.
CONSTANTS
    Keys <- MCKeys
    Payments = {"payments/1", "payments/2"}
    Unreadable = {"payments/2"}
    MaxFiles = 2
    MaxVersions = 2
    MaxMinioFaults = 2
    Raw = {oltp, minio}
    Mode = "all_raw"
    RowsOf <- MCRowsOf
    CustomerOf <- MCCustomerOf
    Lookback = 2
    Delay = 1
    MaxNow = 3
    MaxRowVersions <- MCMaxRowVersions
    MaxStgFaults = 1
    Dags <- MCDags
    Metrics <- MCMetrics
    MaxEvents = 2
    MaxDagFaults = 1
SPECIFICATION Spec
SYMMETRY Symmetry
CHECK_DEADLOCK FALSE
INVARIANTS TypeOK ManifestIsTrue StagingIsSound ServingIsSound FreshAtRest
