----------------------------- MODULE Migrations -----------------------------
(***************************************************************************)
(* The migration manager (migrate): replicas of a program that share one   *)
(* database, each with a Service, whose RunPending, Down and ClearDirty    *)
(* run under its own s.mu. The database is external: statements of a       *)
(* transaction take effect at its commit, one transaction at a time works  *)
(* on a version, and version is the tracking table's primary key. DDL is   *)
(* transactional, as on PostgreSQL and SQLite; of MySQL the documentation  *)
(* says itself that a migration is not atomic there.                       *)
(*                                                                         *)
(* Versions are numbers here; the code compares strings of a fixed width.  *)
(***************************************************************************)
EXTENDS Integers, Sequences, FiniteSets

CONSTANTS
    Replicas,
    Owners,         \* the services that register migrations
    Versions,
    Releases,       \* what a program registers at start: each owner's sequence
    Deployments,    \* the sets of replicas that may run
    Operated,       \* deployments in which Down and ClearDirty are called
    DownCounts,     \* the numbers Down is called with
    MayFailSql,     \* versions whose up or down SQL may fail
    MaxMigrateCalls,\* bound on the calls of a replica
    MaxMigrateFaults\* bound on crashes, lost answers and failed statements

\* A migration: its version, and a description, up and down that "content" stands for.
Migration == [version : Versions, content : {1, 2}]

ASSUME MigrationsAssumption ==
    /\ Versions \subseteq Nat /\ IsFiniteSet(Versions)
    /\ Releases \subseteq [Owners -> Seq(Migration)]
    /\ Deployments \subseteq SUBSET Replicas /\ Operated \subseteq Deployments
    /\ MayFailSql \subseteq Versions /\ DownCounts \subseteq Nat
    /\ MaxMigrateCalls \in Nat /\ MaxMigrateFaults \in Nat

VARIABLES
    deployed,   \* the replicas that run in this behaviour
    running,    \* the replicas that are up and whose Service is initialized
    registered, \* s.migrations, per owner
    schema,     \* the versions whose up SQL is in effect
    tracking,   \* __gas_migrations: "none", "clean" or "dirty" for a version
    task,       \* the call that holds each s.mu
    readyProbe,      \* how far CheckReady is, which does not take s.mu to read
    migrateCalls,      \* calls begun, per replica
    migrateFaults,     \* faults so far
    lostAnswer  \* a commit took effect and was reported as failed

migrateVars == <<deployed, running, registered, schema, tracking, task, readyProbe,
                 migrateCalls, migrateFaults, lostAnswer>>

\* What only a start, a crash or a registration changes.
programs == <<deployed, running, registered>>

Nothing == [owner \in Owners |-> << >>]
NoProbe == [at |-> "idle", rows |-> {}]
NoTask == [op |-> "none", at |-> "idle", left |-> {}, v |-> 0, n |-> 0]

MigrateInit ==
    /\ deployed \in Deployments
    /\ running = {}
    /\ registered = [r \in Replicas |-> Nothing]
    /\ schema = {} /\ tracking = [v \in Versions |-> "none"]
    /\ task = [r \in Replicas |-> NoTask]
    /\ readyProbe = [r \in Replicas |-> NoProbe]
    /\ migrateCalls = [r \in Replicas |-> 0]
    /\ migrateFaults = 0 /\ lostAnswer = FALSE

LeastVersion(S) == CHOOSE v \in S : \A w \in S : v <= w
GreatestVersion(S) == CHOOSE v \in S : \A w \in S : v >= w
\* The n greatest members of S, or S if there are fewer.
HighestVersions(S, n) == {v \in S : Cardinality({w \in S : w > v}) < n}

(***************************************************************************)
(* registeredMigrations                                                    *)
(***************************************************************************)
\* ErrDuplicateVersion: another owner, or the same one with other content.
Conflicting(lists) ==
    \E o, p \in Owners : \E i \in DOMAIN lists[o], j \in DOMAIN lists[p] :
        /\ lists[o][i].version = lists[p][j].version
        /\ o # p \/ lists[o][i] # lists[p][j]

RegisteredVersions(lists) ==
    UNION {{lists[o][i].version : i \in DOMAIN lists[o]} : o \in Owners}

(***************************************************************************)
(* The tracking table                                                      *)
(***************************************************************************)
AppliedRows == {v \in Versions : tracking[v] # "none"}
DirtyRows == {v \in Versions : tracking[v] = "dirty"}

\* A transaction of another replica has executed SQL of v and is still open,
\* so a statement on v waits.
WaitsForTx(r, v) ==
    \E o \in running \ {r} : task[o].at \in {"record", "remove", "commit"} /\ task[o].v = v

SetTask(r, changes) == task' = [task EXCEPT ![r] = changes]
TaskAt(r, label) == SetTask(r, [task[r] EXCEPT !.at = label])
TaskDone(r) == SetTask(r, NoTask)
\* The loop of RunPending and of Down, after v.
NextVersion(r) ==
    LET left == task[r].left \ {task[r].v} IN
    IF left = {} THEN TaskDone(r) ELSE SetTask(r, [task[r] EXCEPT !.left = left, !.at = "exec"])

MigrateFault == migrateFaults < MaxMigrateFaults /\ migrateFaults' = migrateFaults + 1

(***************************************************************************)
(* A program starts, stops, and registers                                  *)
(***************************************************************************)
\* Init of the services: Service.Init, then Register of each owner.
Boot(r) ==
    /\ r \in deployed \ running
    /\ running' = running \cup {r}
    /\ \E lists \in Releases : registered' = [registered EXCEPT ![r] = lists]
    /\ UNCHANGED <<deployed, readyProbe, schema, tracking, task,
                   migrateCalls, migrateFaults, lostAnswer>>

\* The kill switch restarts an owner, whose Init registers once more.
Reregister(r, owner) ==
    LET again == registered[r][owner] IN
    /\ r \in running /\ task[r].at = "idle"
    /\ again # << >> /\ \A i, j \in DOMAIN again : again[i] = again[j] => i = j
    /\ registered' = [registered EXCEPT ![r][owner] = again \o again]
    /\ UNCHANGED <<deployed, running, readyProbe, schema, tracking, task,
                   migrateCalls, migrateFaults, lostAnswer>>

\* The process dies; the server rolls its transaction back.
MigrateCrash(r) ==
    /\ r \in running /\ MigrateFault
    /\ running' = running \ {r}
    /\ registered' = [registered EXCEPT ![r] = Nothing]
    /\ readyProbe' = [readyProbe EXCEPT ![r] = NoProbe]
    /\ TaskDone(r)
    /\ UNCHANGED <<deployed, schema, tracking, migrateCalls, lostAnswer>>

(***************************************************************************)
(* RunPending, Down and ClearDirty up to their first change                *)
(***************************************************************************)
BeginTask(r, op, v, n) ==
    /\ r \in running /\ task[r].at = "idle" /\ migrateCalls[r] < MaxMigrateCalls
    /\ SetTask(r, [op |-> op, at |-> "dirty", left |-> {}, v |-> v, n |-> n])
    /\ migrateCalls' = [migrateCalls EXCEPT ![r] = @ + 1]
    /\ UNCHANGED <<programs, readyProbe, schema, tracking, migrateFaults, lostAnswer>>

RunPending(r) == BeginTask(r, "RunPending", 0, 0)
Down(r, n) == deployed \in Operated /\ BeginTask(r, "Down", 0, n)
ClearDirty(r, v) == deployed \in Operated /\ BeginTask(r, "ClearDirty", v, 0)

\* getDirtyMigrations. Fault: RunPending goes on with what is not marked.
BlockedByDirty_not(r) == task[r].op = "ClearDirty" /\ task[r].v \notin DirtyRows
BlockedByDirty(r) ==
    IF task[r].op = "ClearDirty" THEN task[r].v \notin DirtyRows ELSE DirtyRows # {}

ReadDirty(r) ==
    /\ task[r].at = "dirty"
    /\ IF BlockedByDirty(r) THEN TaskDone(r)
       ELSE TaskAt(r, IF task[r].op = "ClearDirty" THEN "clear" ELSE "applied")
    /\ UNCHANGED <<programs, readyProbe, schema, tracking, migrateCalls, migrateFaults, lostAnswer>>

\* getAppliedMigrations, then registeredMigrations.
ReadApplied(r) ==
    LET t == task[r]
        left == IF t.op = "Down" THEN HighestVersions(AppliedRows, t.n)
                ELSE RegisteredVersions(registered[r]) \ AppliedRows
    IN
    /\ t.at = "applied"
    /\ IF Conflicting(registered[r]) \/ left = {} THEN TaskDone(r)
       ELSE SetTask(r, [t EXCEPT !.at = "exec", !.left = left])
    /\ UNCHANGED <<programs, readyProbe, schema, tracking, migrateCalls, migrateFaults, lostAnswer>>

\* The database does not answer a query, or begins no transaction.
QueryFails(r) ==
    /\ task[r].at \in {"dirty", "applied", "exec"} /\ MigrateFault
    /\ TaskDone(r)
    /\ UNCHANGED <<programs, readyProbe, schema, tracking, migrateCalls, lostAnswer>>

(***************************************************************************)
(* applyUp: execUp and recordAndCommit                                     *)
(***************************************************************************)
\* The up SQL succeeds; on a schema that has it already it may, or may not.
ExecUp(r) ==
    LET v == LeastVersion(task[r].left) IN
    /\ task[r].op = "RunPending" /\ task[r].at = "exec" /\ ~WaitsForTx(r, v)
    /\ SetTask(r, [task[r] EXCEPT !.v = v, !.at = "record"])
    /\ UNCHANGED <<programs, readyProbe, schema, tracking, migrateCalls, migrateFaults, lostAnswer>>

\* It fails, half-way or because the schema has it, and is rolled back.
ExecUpFails(r) ==
    LET v == LeastVersion(task[r].left) IN
    /\ task[r].op = "RunPending" /\ task[r].at = "exec" /\ ~WaitsForTx(r, v)
    /\ \/ v \in schema /\ UNCHANGED migrateFaults
       \/ v \in MayFailSql \ schema /\ MigrateFault
    /\ SetTask(r, [task[r] EXCEPT !.v = v, !.at = "mark"])
    /\ UNCHANGED <<programs, readyProbe, schema, tracking, migrateCalls, lostAnswer>>

\* markApplied's INSERT, inside the transaction: the primary key refuses a
\* second row.
RecordApplied(r) ==
    /\ task[r].op = "RunPending" /\ task[r].at = "record"
    /\ TaskAt(r, IF tracking[task[r].v] = "none" THEN "commit" ELSE "mark")
    /\ UNCHANGED <<programs, readyProbe, schema, tracking, migrateCalls, migrateFaults, lostAnswer>>

\* What the commit writes. Fault: the row is not part of the transaction.
UpCommitted_rowless(v) == schema' = schema \cup {v} /\ UNCHANGED tracking
UpCommitted(v) ==
    /\ schema' = schema \cup {v}
    /\ tracking' = [tracking EXCEPT ![v] = "clean"]

CommitUp(r) ==
    /\ task[r].op = "RunPending" /\ task[r].at = "commit"
    /\ UpCommitted(task[r].v)
    /\ NextVersion(r)
    /\ UNCHANGED <<programs, readyProbe, migrateCalls, migrateFaults, lostAnswer>>

\* Commit returns an error: the transaction was rolled back, or it was
\* committed and the answer is lost.
CommitUpFails(r) ==
    /\ task[r].op = "RunPending" /\ task[r].at = "commit" /\ MigrateFault
    /\ \/ UNCHANGED <<schema, tracking, lostAnswer>>
       \/ UpCommitted(task[r].v) /\ lostAnswer' = TRUE
    /\ TaskAt(r, "mark")
    /\ UNCHANGED <<programs, readyProbe, migrateCalls>>

\* markMigrationDirty's upsert, in no transaction.
AfterMark(r) == TaskDone(r)

MarkDirty(r) ==
    /\ task[r].at = "mark" /\ ~WaitsForTx(r, task[r].v)
    /\ tracking' = [tracking EXCEPT ![task[r].v] = "dirty"]
    /\ AfterMark(r)
    /\ UNCHANGED <<programs, readyProbe, schema, migrateCalls, migrateFaults, lostAnswer>>

MarkDirtyFails(r) ==
    /\ task[r].at = "mark" /\ MigrateFault
    /\ AfterMark(r)
    /\ UNCHANGED <<programs, readyProbe, schema, tracking, migrateCalls, lostAnswer>>

(***************************************************************************)
(* applyDown, and the rest of ClearDirty                                   *)
(***************************************************************************)
\* Down takes the highest version first.
DownNext(left) == GreatestVersion(left)

ExecDown(r) ==
    LET v == DownNext(task[r].left) IN
    /\ task[r].op = "Down" /\ task[r].at = "exec"
    /\ v \in RegisteredVersions(registered[r]) /\ ~WaitsForTx(r, v)
    /\ SetTask(r, [task[r] EXCEPT !.v = v, !.at = "remove"])
    /\ UNCHANGED <<programs, readyProbe, schema, tracking, migrateCalls, migrateFaults, lostAnswer>>

\* The version is not registered, or its down SQL fails and is rolled back.
ExecDownFails(r) ==
    LET v == DownNext(task[r].left) IN
    /\ task[r].op = "Down" /\ task[r].at = "exec"
    /\ \/ v \notin RegisteredVersions(registered[r]) /\ UNCHANGED migrateFaults
       \/ v \in RegisteredVersions(registered[r]) \cap MayFailSql /\ ~WaitsForTx(r, v) /\ MigrateFault
    /\ TaskDone(r)
    /\ UNCHANGED <<programs, readyProbe, schema, tracking, migrateCalls, lostAnswer>>

\* removeMigration's DELETE in the transaction, or its failure.
RemoveRow(r) ==
    /\ task[r].op = "Down" /\ task[r].at = "remove"
    /\ \/ TaskAt(r, "commit") /\ UNCHANGED migrateFaults
       \/ TaskDone(r) /\ MigrateFault
    /\ UNCHANGED <<programs, readyProbe, schema, tracking, migrateCalls, lostAnswer>>

DownCommitted(v) ==
    /\ schema' = schema \ {v}
    /\ tracking' = [tracking EXCEPT ![v] = "none"]

CommitDown(r) ==
    /\ task[r].op = "Down" /\ task[r].at = "commit"
    /\ DownCommitted(task[r].v)
    /\ NextVersion(r)
    /\ UNCHANGED <<programs, readyProbe, migrateCalls, migrateFaults, lostAnswer>>

CommitDownFails(r) ==
    /\ task[r].op = "Down" /\ task[r].at = "commit" /\ MigrateFault
    /\ \/ UNCHANGED <<schema, tracking, lostAnswer>>
       \/ DownCommitted(task[r].v) /\ lostAnswer' = TRUE
    /\ TaskDone(r)
    /\ UNCHANGED <<programs, readyProbe, migrateCalls>>

\* The transaction of ClearDirty, whole: the row goes, or (a failed
\* statement or commit) stays.
ClearRow(r) ==
    /\ task[r].at = "clear" /\ ~WaitsForTx(r, task[r].v)
    /\ \/ tracking' = [tracking EXCEPT ![task[r].v] = "none"] /\ UNCHANGED migrateFaults
       \/ UNCHANGED tracking /\ MigrateFault
    /\ TaskDone(r)
    /\ UNCHANGED <<programs, readyProbe, schema, migrateCalls, lostAnswer>>

(***************************************************************************)
(* CheckReady: two queries without s.mu, and the list under it             *)
(***************************************************************************)
Probed(r, at, rows) ==
    /\ readyProbe' = [readyProbe EXCEPT ![r] = [at |-> at, rows |-> rows]]
    /\ UNCHANGED <<programs, schema, tracking, task, migrateCalls, migrateFaults, lostAnswer>>

CheckReady(r) ==
    /\ r \in running /\ deployed \in Operated /\ readyProbe[r].at \in {"idle", "ready", "unready"}
    /\ Probed(r, IF DirtyRows = {} THEN "applied" ELSE "unready", {})

CheckReadyApplied(r) == readyProbe[r].at = "applied" /\ Probed(r, "list", AppliedRows)

CheckReadyList(r) ==
    LET pending == RegisteredVersions(registered[r]) \ readyProbe[r].rows IN
    /\ readyProbe[r].at = "list" /\ task[r].at = "idle"
    /\ Probed(r, IF Conflicting(registered[r]) \/ pending # {} THEN "unready" ELSE "ready", {})

MigrateStep(r) ==
    \/ ReadDirty(r) \/ ReadApplied(r) \/ QueryFails(r)
    \/ ExecUp(r) \/ ExecUpFails(r) \/ RecordApplied(r) \/ CommitUp(r) \/ CommitUpFails(r)
    \/ MarkDirty(r) \/ MarkDirtyFails(r)
    \/ ExecDown(r) \/ ExecDownFails(r) \/ RemoveRow(r) \/ CommitDown(r) \/ CommitDownFails(r)
    \/ ClearRow(r)
    \/ CheckReady(r) \/ CheckReadyApplied(r) \/ CheckReadyList(r)

MigrateNext ==
    \E r \in Replicas :
        \/ Boot(r) \/ MigrateCrash(r) \/ MigrateStep(r)
        \/ \E owner \in Owners : Reregister(r, owner)
        \/ RunPending(r)
        \/ \E n \in DownCounts : Down(r, n)
        \/ \E v \in Versions : ClearDirty(r, v)

MigrateSpec == MigrateInit /\ [][MigrateNext]_migrateVars

(***************************************************************************)
(* Properties                                                              *)
(***************************************************************************)
\* One replica at work, on a database that keeps its word.
Undisturbed == ~lostAnswer /\ \E r \in Replicas : deployed = {r}

\* The tracking table tells the truth: a clean row is a migration in effect,
\* a dirty row or none is one that is not (manager.go: a failure leaves the
\* database "unchanged - rather than schema-applied-but-unrecorded").
TrackingIsTrue ==
    Undisturbed => \A v \in Versions : (tracking[v] = "clean") <=> (v \in schema)

\* Versions are in effect from the lowest up, with no gap, through failures,
\* crashes, repeated registrations, Down and cleared marks.
NoGapApplied ==
    Undisturbed => \A v \in schema, w \in Versions : w < v => w \in schema

\* What is applied, and what is said of it, for one replica at a time.
MigrationsInOrder == TrackingIsTrue /\ NoGapApplied

\* "applies, in version order, every registered migration whose version is
\* not in the tracking table", "while any version is dirty, RunPending, Down,
\* and CheckReady return an error": no version runs before a lower one.
NothingSkipped == \A v \in schema, w \in Versions : w < v => w \in schema

Ledger == INSTANCE MigrationLedger
\* Every step of the manager is one of the ledger's, or leaves both the
\* schema and the table alone.
ImplementsLedger == Ledger!Spec
=============================================================================
