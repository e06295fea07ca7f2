SPECIFICATION Spec
CONSTANTS
    Partitions = {p1, p2}
    CommitModulo = 2
    MaxOffset = 3
    MaxFailures = 1
INVARIANTS TypeOK StorageBounded NothingForgotten NoDoubleCommit
PROPERTY ImplementsCommits
CHECK_DEADLOCK FALSE
