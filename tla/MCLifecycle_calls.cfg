SPECIFICATION mcSpec
CONSTANTS
    db = db
    cache = cache
    web = web
    NoOne = NoOne
    Services = {db, cache, web}
    Order <- ThreeInOrder
    Instances = {db}
    AlsoCtor = {}
    Starters = {s1, s2}
    Stoppers = {k1, k2}
    Admins = {adm1, adm2}
    MayFailInit = {db, cache, web}
    MayRestart = {db, cache, web}
    MayPanic = {web}
    StartMayFail = TRUE
    Overlap = FALSE
 
INVARIANT WorkerHolds
PROPERTY NoInitAfterShutDown
PROPERTY DependentsCloseFirst
 
CHECK_DEADLOCK FALSE
