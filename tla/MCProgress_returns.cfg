SPECIFICATION Spec
CONSTANTS
    Jobs = {"j1"}
    Consumers = {"w1", "w2"}
    MaxBatch = 1
    MaxJobFaults = 3
    Flushers = {"f1"}
    Closers = {"c1", "c2"}
    BatchSize = 2
    QueueSize = 2
    MaxRecords = 3
    MaxFlushes = 1
    Creds = {"c1"}
    Callers = {"p1"}
    Kinds = {"session", "tokentx"}
    Lifetime = 1
    MaxClock = 2
    MaxCredCalls = 2
    MaxCredFaults = 1
    MaxLives = 1
    Fields = {"addr"}
    AppRequests = {"r1"}
    Hooks = {"h1"}
    MaxStarts = 1
PROPERTY JobsAreHandled
PROPERTY AllReturn
PROPERTY ExpiredAreDeleted
PROPERTY RunReturns
CHECK_DEADLOCK FALSE
