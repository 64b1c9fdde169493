SPECIFICATION Spec
CONSTANTS
    Parts = {"migrations", "database", "jobs", "log", "memory", "valkey", "listing", "s3"}
    Replicas = {"r1", "r2"}
    Owners = {"auth", "files"}
    DownCounts = {1, 2}
    Versions = {1, 2, 3}
    Releases <- FirstUpdatedAndConflicting
    Deployments <- OneOrTwo
    Operated <- One
    MayFailSql = {1, 3}
    MaxMigrateCalls = 3
    MaxMigrateFaults = 1
    TxCallers = {"t1"}
    DbMode = "pgx"
    DbRetries = 1
    MaxHandles = 3
    MaxDbFaults = 1
    MaxTxCalls = 2
    Jobs = {"j1"}
    Consumers = {"w1", "w2"}
    MaxBatch = 2
    MaxJobFaults = 3
    Flushers = {"f1"}
    Closers = {"c1", "c2"}
    BatchSize = 2
    QueueSize = 2
    MaxRecords = 3
    MaxFlushes = 2
    CacheKeys = {"k1", "k2"}
    CacheCallers = {"g1", "g2"}
    TTLs = {0, 1}
    MaxEntries = 1
    CacheClockEnd = 4
    MaxCacheSets = 3
    MaxCacheLives = 2
    Commands = {"g1", "g2"}
    ConnRetries = 1
    MaxClients = 3
    MaxCommands = 2
    Keys <- SomeKeys
    Buckets <- SomeBuckets
    Delimiter = 0
    AskedPrefixes <- WithAndWithoutPrefix
    StartAfters <- FromStartAndFromKey
    Delimited = {TRUE, FALSE}
    PageSize = 1
    MaxChanges = 2
    Users = {"u1", "u2"}
    Putters = {"u1"}
    NoOne = "noone"
    Browser = "url"
    Lengths = {2, 3}
    Declared <- SomeDeclared
    Unset = 99
    PartSize = 2
    URLTTLs = {0, 5}
    DefaultTTL = 1
    MaxTTL = 2
    MaxTime = 1
    MaxUses = 1
    MaxLost = 1
INVARIANT MigrationsInOrder
INVARIANT TransactionsHold
INVARIANT DeletedMeansHandled
INVARIANT PostedInOrder
INVARIANT ClosedIsSaid
INVARIANT PagesCover
INVARIANT UploadsHold
PROPERTY ImplementsLedger
PROPERTY LiveEntriesStay
CHECK_DEADLOCK FALSE
