SPECIFICATION BudgetSpec
CONSTANTS
    p1 = p1
    p2 = p2
    Replicas = {r1}
    Partitions = {p1}
    Log <- TwoMessages
    Enabled = TRUE
    CommitModulo = 1
    ConsumerMaxRetries = 2
    OperationMaxRetries = 1
    MaxCommitFailures = 0
    MaxHangs = 0
    MaxDisruptions = 0
INVARIANTS
    BudgetIsPerMessage
