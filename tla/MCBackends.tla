----------------------------- MODULE MCBackends -----------------------------
(***************************************************************************)
(* The services in front of a database, a queue, a cache, a collector or a *)
(* store, side by side: migrations, database access, the job queue, log    *)
(* shipping, the two caches, the listings of the dir store and the s3      *)
(* store. They share no state, so each behaviour runs one of them, chosen  *)
(* at the start, and leaves the others as they were; what is found of it   *)
(* is what would be found of it alone.                                     *)
(***************************************************************************)
EXTENDS Migrations, Database, JobQueue, LogSender, MemoryCache, ValkeyCache,
        ObjectListing, S3Store

CONSTANT Parts
VARIABLE part  \* the component that runs
vars == <<migrateVars, dbVars, jobVars, logVars, cacheVars, vkVars, listVars, allVars, part>>

\* The application before and after an update whose first owner adds a version
\* above the other's, and one whose services register the same version.
Registers(version) == [version |-> version, content |-> 1]
FirstUpdatedAndConflicting ==
    {[auth |-> <<Registers(1)>>, files |-> <<Registers(2)>>],
     [auth |-> <<Registers(1), Registers(3)>>, files |-> <<Registers(2)>>],
     [auth |-> <<Registers(1)>>, files |-> <<Registers(1)>>]}
OneOrTwo == {{"r1"}, {"r1", "r2"}}
One == {{"r1"}}

\* The keys "a", "a/" and "a/b", with "/" for 0; two buckets.
SomeKeys == {<<1>>, <<1, 0>>, <<1, 0, 2>>}
SomeBuckets == {<<1, 1>>, <<2, 2>>}
WithAndWithoutPrefix == {<< >>, <<1>>}
FromStartAndFromKey == {<< >>, <<1, 0>>}

\* Lengths a caller declares: none (99), a bad one, or that of a body.
SomeDeclared == {-1, 2, 3, 99}

Init ==
    /\ part \in Parts
    /\ MigrateInit
    /\ part # "migrations" => deployed = CHOOSE d \in Deployments : TRUE
    /\ DbInit /\ JobInit /\ LogInit /\ CacheInit /\ VkInit
    /\ S3Init
    /\ part # "s3" => bucket = "none"
    /\ ListingInit
    /\ part # "listing" =>
          /\ input = CHOOSE i \in Inputs : i.kind = "objects"
          /\ objects = [k \in Keys |-> "none"] /\ directory = {} /\ nameRecord = {}

MigrationsRun ==
    /\ part = "migrations" /\ MigrateNext
    /\ UNCHANGED <<dbVars, jobVars, logVars, cacheVars, vkVars, listVars, allVars, part>>
DatabaseRuns ==
    /\ part = "database" /\ DbNext
    /\ UNCHANGED <<migrateVars, jobVars, logVars, cacheVars, vkVars, listVars, allVars, part>>
JobsRun ==
    /\ part = "jobs" /\ JobNext
    /\ UNCHANGED <<migrateVars, dbVars, logVars, cacheVars, vkVars, listVars, allVars, part>>
LogRuns ==
    /\ part = "log" /\ LogNext
    /\ UNCHANGED <<migrateVars, dbVars, jobVars, cacheVars, vkVars, listVars, allVars, part>>
MemoryRuns ==
    /\ part = "memory" /\ CacheNext
    /\ UNCHANGED <<migrateVars, dbVars, jobVars, logVars, vkVars, listVars, allVars, part>>
ValkeyRuns ==
    /\ part = "valkey" /\ VkNext
    /\ UNCHANGED <<migrateVars, dbVars, jobVars, logVars, cacheVars, listVars, allVars, part>>
ListingRuns ==
    /\ part = "listing" /\ ListingNext
    /\ UNCHANGED <<migrateVars, dbVars, jobVars, logVars, cacheVars, vkVars, allVars, part>>
S3Runs ==
    /\ part = "s3" /\ S3Next
    /\ UNCHANGED <<migrateVars, dbVars, jobVars, logVars, cacheVars, vkVars, listVars, part>>

Next ==
    \/ MigrationsRun \/ DatabaseRuns \/ JobsRun \/ LogRuns
    \/ MemoryRuns \/ ValkeyRuns \/ ListingRuns \/ S3Runs

Spec == Init /\ [][Next]_vars
=============================================================================
