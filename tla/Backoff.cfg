\* The default options but for a maximum that bites, and the slowest answers
\* they leave time for: 3 * (92000 + 5000 + 1000) + 5000 = 299000.
CONSTANTS
    OperationMaxRetries = 3
    BackoffFactor = 5
    MaxBackoffSeconds = 1
    MaxPollInterval = 300000
    RequestTimes = {0, 10, 500, 30000, 92000}
    CommitTimes = {20, 5000}
    MaxRequest = 92000
    MaxCommit = 5000
SPECIFICATION Spec
INVARIANT PollsInTime
