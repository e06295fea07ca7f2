SPECIFICATION MetricsSpec
CONSTANTS
    p1 = p1
    p2 = p2
    Replicas = {r1}
    Partitions = {p1}
    Log <- MetricsLog
    Enabled = TRUE
    CommitModulo = 2
    ConsumerMaxRetries = 2
    OperationMaxRetries = 2
    MaxCommitFailures = 1
    MaxHangs = 1
    MaxDisruptions = 1
    MaxReports = 1
INVARIANTS EveryMessageCounted ExportersBounded
CHECK_DEADLOCK FALSE
