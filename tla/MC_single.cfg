SPECIFICATION Spec
CONSTANTS
    p1 = p1
    p2 = p2
    Replicas = {r1}
    Partitions = {p1, p2}
    Log <- SingleLog
    Enabled = TRUE
    CommitModulo = 2
    ConsumerMaxRetries = 2
    OperationMaxRetries = 2
    MaxCommitFailures = 2
    MaxHangs = 0
    MaxDisruptions = 2
INVARIANTS
    TypeOK
    DeliveryInv
    InOrder
    OffsetsAccounted
    ReplayBounded
PROPERTIES
    CleanHandover
