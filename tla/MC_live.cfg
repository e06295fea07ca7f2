SPECIFICATION FairSpec
CONSTANTS
    p1 = p1
    p2 = p2
    Replicas = {r1, r2}
    Partitions = {p1}
    Log <- LiveLog
    Enabled = TRUE
    CommitModulo = 2
    ConsumerMaxRetries <- Infinite
    OperationMaxRetries <- Infinite
    MaxCommitFailures = 1
    MaxHangs = 1
    MaxDisruptions = 2
PROPERTIES
    InventoryCatchesUp
    ImplementsFairDelivery
