SPECIFICATION Spec
CONSTANTS
    RegTypes = {"a", "b", "i", "h", "w"}
    Interfaces = {"i", "h"}
    AssignableTo <- Assignable
    Managed = {"a"}
    HalfManaged = {"w"}
    Signatures <- SomeConstructors
    MaxRegistrations = 3
    Fields = {"addr", "read"}
    AppRequests = {"r1", "r2"}
    Hooks = {"h1"}
    MaxStarts = 2
    Requested = {"r1", "r2"}
    ScopedTypes = {"conn", "repo", "log"}
    ScopedNeeds <- RepoTakesConn
    ScopedServices = {"conn", "repo"}
    HandlerTakes <- TakesRepo
    LogType = "log"
    LogTypeIs = {"scoped", "service", "singleton", "alias", "none"}
    MaxInFlight = 1
    ErrorStatuses = {101, 999}
    MaxWrites = 1
    Creds = {"c1"}
    Callers = {"p1", "p2"}
    Kinds = {"session", "token", "tokentx", "apikey"}
    Lifetime = 1
    MaxClock = 2
    MaxCredCalls = 2
    MaxCredFaults = 1
    MaxLives = 1
    KeyIds = {"k1"}
    KeySubjects = {"ann"}
    ScopeLists <- SomeScopeLists
    KeyTTLs = {0, 1, 2}
    KeyCallers = {"c"}
    MaxTick = 3
    SharedFiles = {"f1"}
    Users = {"u1", "u2"}
    OwnerOf <- OwnedByU1
    RequestSlots = {"r1", "r2"}
    UrlTicks = 3
    UrlCacheTicks = 2
    FileCacheTicks = 1
    RequestTicks = 1
    ShareHours = {1}
    MaxShareClock = 4
    MaxShareRequests = 4
    MaxShareFaults = 1
    Paths <- SomePaths
    EnvPath <- GasEnv
    AllowedEnvs = {"dev", "prod"}
    DefaultEnv = "dev"
    Files <- SomeFiles
    DotEnvs <- SomeDotEnvs
    Environs <- SomeEnvirons
    Secrets <- SomeSecrets
    Order0 <- FileThenEnv
    Added = "secrets"
    AppendToOSEnv = TRUE
    MaxLoads = 2
    MaxSets = 1
    NoRaw = "none"
    Structs <- SomeStructs
    Documents <- SomeDocuments
    RawMaps <- SomeRawMaps
    Spellings <- Letters
    ToLower <- LowerCase
    NoTag = "none"
    Wide = 4
    MaxBindSteps = 3
INVARIANT RegistrationHolds
INVARIANT ServerHolds
 
INVARIANT CredentialsHold
INVARIANT KeysHold
INVARIANT SharingHolds
INVARIANT ConfigHolds
INVARIANT BindHolds
CHECK_DEADLOCK FALSE
