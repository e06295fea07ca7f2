SPECIFICATION SkipSpec
CONSTANTS
    p1 = p1
    p2 = p2
    Replicas = {r1}
    Partitions = {p1}
    Log <- PoisonLog
    Enabled = TRUE
    CommitModulo = 1
    ConsumerMaxRetries <- Infinite
    OperationMaxRetries = 2
    MaxCommitFailures = 0
    MaxHangs = 0
    MaxDisruptions = 0
INVARIANTS
    SkippedStaysSkipped
