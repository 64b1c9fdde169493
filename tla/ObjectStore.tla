----------------------------- MODULE ObjectStore -----------------------------
(***************************************************************************)
(* One bucket and one key of the dir storage (storage/dir/internal/vfs), as *)
(* several processes use it: PutObject, GetObject, DeleteObject, ListObjects, *)
(* CreateBucket and DeleteBucket, each a caller's steps on a shared file   *)
(* system, with canceled waits, failing bodies and crashes in between.     *)
(*                                                                         *)
(* A step is one file system operation, or several under the key's lock    *)
(* that nothing outside it touches. A data file stands for its body too,   *)
(* and so for the ETag: bodies differ. A directory that was removed stays  *)
(* empty, so of the directories a caller has opened, open[c] keeps those   *)
(* that are still the bucket's. Other I/O errors are left out.             *)
(***************************************************************************)
EXTENDS ObjectsLock, Integers

CONSTANTS
    DataFiles,  \* bound on the data files there are at a time
    InitialObjects, \* what an existing bucket may hold at first, None for nothing
    Asks,       \* Asks[c]: the requests c may make
    MayCrash,   \* callers whose process may die
    MaxCalls,   \* bound on the calls of each caller
    MaxCrashes  \* bound on the crashes of a behaviour

ObjectOps == {"put", "get", "delete", "list"}
BucketOps == {"create_bucket", "delete_bucket"}
Matches == DataFiles \cup {"any", "absent"}
Told == {"pending", "ok", "error", "refused", "notfound", "notempty", "corrupt"}

ASSUME ObjectStoreAssumption ==
    /\ None \notin Inodes \cup Callers \cup DataFiles \cup [op : ObjectOps, match : Matches]
    /\ DataFiles \cap (Told \cup {"meta", "any", "absent"}) = {}
    /\ Asks \in [Callers -> SUBSET [op : ObjectOps \cup BucketOps, match : Matches]]
    /\ InitialObjects \subseteq DataFiles \cup {None}
    /\ MaxCalls \in [Callers -> Nat] /\ MaxCrashes \in Nat

VARIABLES
    dirs,    \* the directories of the bucket: "meta", "objects", "locks"
    record,  \* its name record is there
    meta,    \* the data file that the metadata file names, or None
    temps,   \* data files named by temp metadata files
    data,    \* each data file: "none", "partial" or "whole"
    lifecycle, \* the caller that holds the bucket's lifecycle lock, or None
    open,    \* the directories each caller has open that are still current
    pc, call, \* where each caller is, and its request with what it has found
    calls, crashes

diskVars == <<dirs, record, meta, temps, data>>
procVars == <<lifecycle, open, pc, call, calls, crashes>>
vars == <<lockVars, diskVars, procVars>>

AllDirs == {"meta", "objects", "locks"}
NoCall == [op |-> "none", match |-> "any", prev |-> None, mine |-> None,
           answer |-> "pending", todo |-> {}, debris |-> {}]
Files == {d \in DataFiles : data[d] # "none"}
Here(c, dir) == dir \in open[c]

\* bucket.go's meta: the metadata that c reads, None when it finds no file.
MetaOf(c) == IF Here(c, "meta") THEN meta ELSE None
DataOf(c, d) == IF Here(c, "objects") THEN data[d] ELSE "none"

\* No bucket, or an idle one that is empty or holds an object.
Init ==
    /\ LockInit
    /\ \/ dirs = {} /\ record = FALSE /\ meta = None
       \/ dirs = AllDirs /\ record = TRUE /\ meta \in InitialObjects
    /\ temps = {}
    /\ data = [d \in DataFiles |-> IF d = meta THEN "whole" ELSE "none"]
    /\ lifecycle = None /\ crashes = 0
    /\ open = [c \in Callers |-> {}]
    /\ pc = [c \in Callers |-> "idle"]
    /\ call = [c \in Callers |-> NoCall]
    /\ calls = [c \in Callers |-> 0]

(***************************************************************************)
(* Steps: At is a step of c at a label, Next a label it goes to.           *)
(***************************************************************************)
Goto(c, label) == pc' = [pc EXCEPT ![c] = label]
Answers(c, a) == call' = [call EXCEPT ![c].answer = a]
Remembers(c, d) == call' = [call EXCEPT ![c].prev = d]
ToDo(c, s) == call' = [call EXCEPT ![c].todo = s]
Found(c, prev, answer) == call' = [call EXCEPT ![c].prev = prev, ![c].answer = answer]

DiskSame == UNCHANGED diskVars
CallSame == UNCHANGED <<lifecycle, open, call, calls, crashes>>
Calling == UNCHANGED <<lifecycle, open, calls, crashes>>

\* Starts a wait for the key's lock, which goes on at label.
LockThen(c, label) == Phase(c, "open") /\ UNCHANGED <<linked, file, ghost, granted>> /\ Goto(c, label)
Holding(c, label) == pc[c] = label /\ lk[c] = "held"

Begin(c) ==
    /\ pc[c] = "idle" /\ calls[c] < MaxCalls[c]
    /\ calls' = [calls EXCEPT ![c] = @ + 1]
    /\ \E r \in Asks[c] :
          /\ call' = [call EXCEPT ![c] = [NoCall EXCEPT !.op = r.op, !.match = r.match]]
          /\ Goto(c, IF r.op \in ObjectOps THEN "open_meta" ELSE "lock_bucket")
    /\ UNCHANGED <<lockVars, diskVars, lifecycle, open, crashes>>

\* The call closes its bucket and returns.
Returns(c) ==
    /\ open' = [open EXCEPT ![c] = {}]
    /\ call' = [call EXCEPT ![c] = NoCall]
    /\ Goto(c, "idle")
\* It does so with an error before it has touched the object.
Fails(c) ==
    IF call[c].op \in ObjectOps THEN Returns(c)
    ELSE Answers(c, "error") /\ Goto(c, "unlock_bucket") /\ UNCHANGED open

Return(c) ==
    /\ pc[c] = "return"
    /\ Returns(c)
    /\ UNCHANGED <<lockVars, diskVars, lifecycle, calls, crashes>>

(***************************************************************************)
(* OpenBucket, and the waits for the key's lock                            *)
(***************************************************************************)
AfterOpen(c) ==
    CASE call[c].op = "put" -> "previous"
      [] call[c].op = "get" -> "read"
      [] call[c].op = "delete" -> "find"
      [] call[c].op = "list" -> "peek"
      [] call[c].op = "delete_bucket" -> "sweep"

\* The metadata directory first, then the other two.
OpenDirs(c, wanted, here, next) ==
    /\ pc[c] = here
    /\ IF wanted \subseteq dirs
       THEN /\ open' = [open EXCEPT ![c] = @ \cup wanted]
            /\ Goto(c, next)
            /\ UNCHANGED call
       ELSE Fails(c)
    /\ IF wanted \subseteq dirs /\ next \in {"previous", "read", "find"}
       THEN Phase(c, "open") /\ UNCHANGED <<linked, file, ghost, granted>>
       ELSE UNCHANGED lockVars
    /\ UNCHANGED <<diskVars, lifecycle, calls, crashes>>

OpenBucket(c) ==
    \/ OpenDirs(c, {"meta"}, "open_meta", "open_rest")
    \/ OpenDirs(c, {"objects", "locks"}, "open_rest", AfterOpen(c))

Locking(c) ==
    /\ \/ OpenLockFile(c, Here(c, "locks")) \/ TryLock(c) \/ Granted(c)
       \/ CheckCurrent(c, Here(c, "locks")) \/ Cancel(c)
       \/ GhostLocks(c) \/ GhostCloses(c)
    /\ UNCHANGED <<diskVars, procVars>>

\* The wait ended with an error, and so does the call.
LockFailed(c) ==
    /\ lk[c] = "failed"
    /\ Phase(c, "idle") /\ UNCHANGED <<linked, file, ghost, granted>>
    /\ Fails(c)
    /\ DiskSame /\ UNCHANGED <<lifecycle, calls, crashes>>

\* unlockWith and releaseWith. An object's call then returns; DeleteBucket
\* goes on with the next entry, or leaves.
AfterUnlock(c) ==
    IF call[c].answer # "pending" THEN "unlock_bucket"
    ELSE IF call[c].todo # {} THEN "classify" ELSE "debris"
GaveUp(c) ==
    IF call[c].op \in ObjectOps THEN Returns(c)
    ELSE Goto(c, AfterUnlock(c)) /\ UNCHANGED <<open, call>>

UnlockWith(c) ==
    /\ pc[c] = "unlock" /\ Unlock(c)
    /\ GaveUp(c)
    /\ DiskSame /\ UNCHANGED <<lifecycle, calls, crashes>>
ReleaseWith(c) ==
    /\ pc[c] = "release" /\ Release(c, Here(c, "locks"))
    /\ Goto(c, "released")
    /\ DiskSame /\ CallSame
Released(c) ==
    /\ pc[c] = "released" /\ CloseUnlinked(c)
    /\ GaveUp(c)
    /\ DiskSame /\ UNCHANGED <<lifecycle, calls, crashes>>

(***************************************************************************)
(* CreateObject                                                            *)
(***************************************************************************)
\* The condition, with a data file as the ETag. Fault: it is not checked.
Meets_always(match, etag) == TRUE
Meets(match, etag) ==
    CASE match = "any" -> TRUE
      [] match = "absent" -> etag = None
      [] OTHER -> etag = match

\* previousDataFile. In a removed bucket removedErr turns the answer into
\* the bucket's absence.
PreviousDataFile(c) ==
    /\ Holding(c, "previous")
    /\ IF Meets(call[c].match, MetaOf(c))
       THEN Remembers(c, MetaOf(c)) /\ Goto(c, "create")
       ELSE Answers(c, IF Here(c, "meta") THEN "refused" ELSE "error") /\ Goto(c, "finish")
    /\ UNCHANGED lockVars /\ DiskSame /\ Calling

\* A data file name is a new uuid.
UnusedData == {d \in DataFiles \ (Files \cup temps \cup {meta}) :
    \A c \in Callers : d \notin {call[c].prev, call[c].mine, call[c].match}
                               \cup call[c].todo \cup call[c].debris}
FreshData == CHOOSE d \in UnusedData : TRUE

CreateDataFile(c) ==
    /\ Holding(c, "create") /\ UnusedData # {}
    /\ IF Here(c, "objects")
       THEN /\ data' = [data EXCEPT ![FreshData] = "partial"]
            /\ call' = [call EXCEPT ![c].mine = FreshData] /\ Goto(c, "copy")
       ELSE Answers(c, "error") /\ Goto(c, "finish") /\ UNCHANGED data
    /\ UNCHANGED <<lockVars, dirs, record, meta, temps>> /\ Calling

\* The body is copied, or fails. The Stat misses a file that is gone.
CopyBody(c) ==
    /\ Holding(c, "copy")
    /\ \/ /\ DataOf(c, call[c].mine) = "partial"
          /\ data' = [data EXCEPT ![call[c].mine] = "whole"]
          /\ Goto(c, "temp")
       \/ UNCHANGED data /\ Goto(c, "discard")
    /\ UNCHANGED <<lockVars, dirs, record, meta, temps, call>> /\ Calling

\* writeMetaFile: a temp file, then the rename, which commits.
WriteTemp(c) ==
    /\ Holding(c, "temp")
    /\ IF Here(c, "meta")
       THEN temps' = temps \cup {call[c].mine} /\ Goto(c, "rename")
       ELSE UNCHANGED temps /\ Goto(c, "discard")
    /\ UNCHANGED <<lockVars, dirs, record, meta, data, call>> /\ Calling

Rename(c) ==
    /\ Holding(c, "rename")
    /\ temps' = temps \ {call[c].mine}
    /\ IF Here(c, "meta") /\ call[c].mine \in temps
       THEN /\ meta' = call[c].mine
            /\ Answers(c, "ok") /\ Goto(c, "remove_previous")
       ELSE UNCHANGED <<meta, call>> /\ Goto(c, "discard")
    /\ UNCHANGED <<lockVars, dirs, record, data>> /\ Calling

RemovedData(c, d) ==
    IF d # None /\ Here(c, "objects") THEN [data EXCEPT ![d] = "none"] ELSE data

\* Fault: it removes the data file that the new metadata names.
Stale_mine(c) == call[c].mine
Stale(c) == call[c].prev
RemovePrevious(c) ==
    /\ Holding(c, "remove_previous")
    /\ data' = RemovedData(c, Stale(c))
    /\ Goto(c, "finish")
    /\ UNCHANGED <<lockVars, dirs, record, meta, temps, call>> /\ Calling

\* discardTmp: the data file of the failed write.
Discards(c) == call[c].mine
Discard(c) ==
    /\ Holding(c, "discard")
    /\ data' = RemovedData(c, Discards(c))
    /\ Answers(c, "error") /\ Goto(c, "finish")
    /\ UNCHANGED <<lockVars, dirs, record, meta, temps>> /\ Calling

FinishCreate(c) ==
    /\ pc[c] = "finish"
    /\ IF call[c].answer # "ok" /\ MetaOf(c) = None
       THEN Release(c, Here(c, "locks")) /\ Goto(c, "released") /\ UNCHANGED <<open, call>>
       ELSE Unlock(c) /\ Returns(c)
    /\ DiskSame /\ UNCHANGED <<lifecycle, calls, crashes>>

CreateObject(c) ==
    \/ PreviousDataFile(c) \/ CreateDataFile(c) \/ CopyBody(c) \/ WriteTemp(c)
    \/ Rename(c) \/ RemovePrevious(c) \/ Discard(c) \/ FinishCreate(c)

(***************************************************************************)
(* OpenObject and DeleteObject                                             *)
(***************************************************************************)
ReadMeta(c) ==
    /\ Holding(c, "read")
    /\ IF MetaOf(c) # None
       THEN Found(c, meta, meta) /\ Goto(c, "open_data")
       ELSE /\ Answers(c, IF Here(c, "meta") THEN "notfound" ELSE "error")
            /\ Goto(c, "release")
    /\ UNCHANGED lockVars /\ DiskSame /\ Calling

OpenData(c) ==
    /\ Holding(c, "open_data")
    /\ IF DataOf(c, call[c].prev) = "whole" THEN UNCHANGED call ELSE Answers(c, "corrupt")
    /\ Goto(c, "unlock")
    /\ UNCHANGED lockVars /\ DiskSame /\ Calling

FindObject(c) ==
    /\ Holding(c, "find")
    /\ IF MetaOf(c) # None
       THEN Remembers(c, meta) /\ Goto(c, "remove_meta")
       ELSE Answers(c, "ok") /\ Goto(c, "release")
    /\ UNCHANGED lockVars /\ DiskSame /\ Calling

RemoveMeta(c) ==
    /\ Holding(c, "remove_meta")
    /\ meta' = IF Here(c, "meta") THEN None ELSE meta
    /\ Answers(c, "ok") /\ Goto(c, "remove_data")
    /\ UNCHANGED <<lockVars, dirs, record, temps, data>> /\ Calling

RemoveData(c) ==
    /\ Holding(c, "remove_data")
    /\ data' = RemovedData(c, call[c].prev)
    /\ Goto(c, "release")
    /\ UNCHANGED <<lockVars, dirs, record, meta, temps, call>> /\ Calling

OpenObject(c) == ReadMeta(c) \/ OpenData(c)
DeleteObject(c) == FindObject(c) \/ RemoveMeta(c) \/ RemoveData(c)

(***************************************************************************)
(* Keys: usableKey checks a key without its lock, and once more under it   *)
(* when the data file is gone.                                             *)
(***************************************************************************)
\* Fault: a missing data file is proof enough.
Rechecks_not(c) == lk[c] = "held"
Rechecks(c) == TRUE

Peek(c, locked) ==
    /\ IF MetaOf(c) # None
       THEN Remembers(c, meta) /\ Goto(c, IF locked THEN "restat" ELSE "stat")
       ELSE Answers(c, "notfound") /\ Goto(c, IF locked THEN "release" ELSE "return")
    /\ UNCHANGED lockVars /\ DiskSame /\ Calling

CheckKey(c) == pc[c] = "peek" /\ Peek(c, FALSE)
StatData(c) ==
    /\ pc[c] = "stat"
    /\ \/ /\ DataOf(c, call[c].prev) # "none"
          /\ Answers(c, call[c].prev) /\ Goto(c, "return") /\ UNCHANGED lockVars
       \/ /\ DataOf(c, call[c].prev) = "none"
          /\ IF Rechecks(c)
             THEN LockThen(c, "recheck") /\ UNCHANGED call
             ELSE Answers(c, "corrupt") /\ Goto(c, "return") /\ UNCHANGED lockVars
    /\ DiskSame /\ Calling
Recheck(c) == Holding(c, "recheck") /\ Peek(c, TRUE)
RestatData(c) ==
    /\ Holding(c, "restat")
    /\ Answers(c, IF DataOf(c, call[c].prev) = "none" THEN "corrupt" ELSE call[c].prev)
    /\ Goto(c, "unlock")
    /\ UNCHANGED lockVars /\ DiskSame /\ Calling

Keys(c) == CheckKey(c) \/ StatData(c) \/ Recheck(c) \/ RestatData(c)

(***************************************************************************)
(* CreateBucket and DeleteBucket, under the bucket's lifecycle lock. That  *)
(* is an ObjectsLock too, but withFreeLock never touches its file, so it   *)
(* is a mutex here.                                                        *)
(***************************************************************************)
LifecycleFree(c) == lifecycle = None
LockBucket(c) ==
    /\ pc[c] = "lock_bucket"
    /\ \/ /\ LifecycleFree(c)
          /\ lifecycle' = c /\ UNCHANGED call
          /\ Goto(c, IF call[c].op = "create_bucket" THEN "mk_objects" ELSE "open_meta")
       \/ Answers(c, "error") /\ Goto(c, "return") /\ UNCHANGED lifecycle
    /\ UNCHANGED <<lockVars, diskVars, open, calls, crashes>>

UnlockBucket(c) ==
    /\ pc[c] = "unlock_bucket"
    /\ lifecycle' = IF lifecycle = c THEN None ELSE lifecycle
    /\ Goto(c, "return")
    /\ UNCHANGED <<lockVars, diskVars, open, call, calls, crashes>>

MakeDir(c, dir, here, next) ==
    /\ pc[c] = here
    /\ dirs' = dirs \cup {dir}
    /\ Goto(c, next)
    /\ UNCHANGED <<lockVars, record, meta, temps, data>> /\ CallSame

WriteBucketName(c) ==
    /\ pc[c] = "mk_record"
    /\ record' = TRUE
    /\ Goto(c, "mk_meta")
    /\ UNCHANGED <<lockVars, dirs, meta, temps, data>> /\ CallSame

CreateBucket(c) ==
    \/ MakeDir(c, "objects", "mk_objects", "mk_locks")
    \/ MakeDir(c, "locks", "mk_locks", "mk_record")
    \/ WriteBucketName(c)
    \/ MakeDir(c, "meta", "mk_meta", "unlock_bucket")

\* sweep reads the metadata directory; an entry is "meta" or a temp file.
Entries == (IF meta = None THEN {} ELSE {"meta"}) \cup temps
Sweep(c) ==
    /\ pc[c] = "sweep"
    /\ ToDo(c, Entries) /\ Goto(c, "classify")
    /\ UNCHANGED lockVars /\ DiskSame /\ Calling

NextOf(entries) ==
    IF "meta" \in entries THEN "meta" ELSE CHOOSE e \in entries : TRUE

\* entryState: what the lock protects decides, not the listing.
Debris(e) == IF e = "meta" THEN meta # None /\ data[meta] = "none" ELSE e \in temps
Object(e) == e = "meta" /\ meta # None /\ data[meta] # "none"

Classify(c) ==
    /\ pc[c] = "classify" /\ lk[c] = "idle"
    /\ IF call[c].todo = {}
       THEN Goto(c, "debris") /\ UNCHANGED lockVars
       ELSE LockThen(c, "state")
    /\ DiskSame /\ CallSame

LockedState(c) ==
    /\ Holding(c, "state")
    /\ LET e == NextOf(call[c].todo) IN
       call' = [call EXCEPT ![c].todo = @ \ {e},
                            ![c].debris = IF Debris(e) THEN @ \cup {e} ELSE @,
                            ![c].answer = IF Object(e) THEN "notempty" ELSE @]
    /\ Goto(c, "unlock")
    /\ UNCHANGED lockVars /\ DiskSame /\ Calling

NextDebris(c) ==
    /\ pc[c] = "debris" /\ lk[c] = "idle"
    /\ IF call[c].debris = {}
       THEN Goto(c, "rm_meta_dir") /\ UNCHANGED lockVars
       ELSE LockThen(c, "rm_debris")
    /\ DiskSame /\ CallSame

RemoveDebris(c) ==
    /\ Holding(c, "rm_debris")
    /\ LET e == NextOf(call[c].debris) IN
       /\ call' = [call EXCEPT ![c].debris = @ \ {e}]
       /\ IF Debris(e)
          THEN /\ meta' = IF e = "meta" THEN None ELSE meta
               /\ temps' = temps \ {e}
               /\ Goto(c, "release")
          ELSE UNCHANGED <<meta, temps>> /\ Goto(c, "unlock")
    /\ UNCHANGED <<lockVars, dirs, record, data>> /\ Calling

RemoveDir(c, dir) ==
    /\ dirs' = dirs \ {dir}
    /\ open' = [p \in Callers |-> open[p] \ {dir}]

RemoveMetaDir(c) ==
    /\ pc[c] = "rm_meta_dir"
    /\ IF Entries = {}
       THEN RemoveDir(c, "meta") /\ UNCHANGED call /\ Goto(c, "rm_record")
       ELSE Answers(c, "notempty") /\ Goto(c, "unlock_bucket") /\ UNCHANGED <<dirs, open>>
    /\ UNCHANGED <<lockVars, record, meta, temps, data, lifecycle, calls, crashes>>

RemoveRecord(c) ==
    /\ pc[c] = "rm_record"
    /\ record' = FALSE
    /\ Goto(c, "leftovers")
    /\ UNCHANGED <<lockVars, dirs, meta, temps, data>> /\ CallSame

\* removeLeftovers: the data files, their directory, the lock file and its.
ListData(c) ==
    /\ pc[c] = "leftovers"
    /\ ToDo(c, Files) /\ Goto(c, "data_files")
    /\ UNCHANGED lockVars /\ DiskSame /\ Calling

\* withFreeLock for the next data file. A missing lock file is free.
ProbeData(c) ==
    /\ pc[c] = "data_files" /\ lk[c] = "idle" /\ call[c].todo # {}
    /\ IF linked = None
       THEN Goto(c, "rm_data") /\ UNCHANGED lockVars
       ELSE Goto(c, "probe_data") /\ ProbeOpen(c)
    /\ DiskSame /\ CallSame

ProbedData(c) ==
    /\ pc[c] = "probe_data"
    /\ \/ ProbeFree(c) /\ Goto(c, "rm_data") /\ UNCHANGED call
       \/ /\ ProbeTaken(c) /\ Goto(c, "data_files")
          /\ ToDo(c, call[c].todo \ {NextOf(call[c].todo)})
    /\ DiskSame /\ Calling

RemoveLeftData(c) ==
    /\ pc[c] = "rm_data"
    /\ LET d == NextOf(call[c].todo) IN
       /\ data' = [data EXCEPT ![d] = "none"]
       /\ ToDo(c, call[c].todo \ {d})
    /\ Goto(c, IF lk[c] = "free" THEN "rm_lock" ELSE "data_files")
    /\ UNCHANGED <<lockVars, dirs, record, meta, temps>> /\ Calling

RemoveObjectsDir(c) ==
    /\ pc[c] = "data_files" /\ lk[c] = "idle" /\ call[c].todo = {}
    /\ IF Files = {} THEN RemoveDir(c, "objects") ELSE UNCHANGED <<dirs, open>>
    /\ Goto(c, "lock_files")
    /\ UNCHANGED <<lockVars, record, meta, temps, data, lifecycle, call, calls, crashes>>

\* The locks directory is listed, and then withFreeLock opens the file.
ListLocks(c) ==
    /\ pc[c] = "lock_files"
    /\ Goto(c, IF linked = None THEN "rm_locks_dir" ELSE "probe_lock")
    /\ UNCHANGED lockVars /\ DiskSame /\ CallSame

ProbeLock(c) ==
    /\ pc[c] = "probe_lock" /\ lk[c] = "idle"
    /\ IF linked = None
       THEN Goto(c, "rm_locks_dir") /\ UNCHANGED lockVars
       ELSE ProbeOpen(c) /\ UNCHANGED pc
    /\ DiskSame /\ CallSame

ProbedLock(c) ==
    /\ pc[c] = "probe_lock"
    /\ \/ ProbeFree(c) /\ Goto(c, "rm_last_lock")
       \/ ProbeTaken(c) /\ Goto(c, "rm_locks_dir")
    /\ DiskSame /\ CallSame

RemoveLockFile(c, here, next) ==
    /\ pc[c] = here /\ Unlink(c, TRUE)
    /\ Goto(c, next)
    /\ DiskSame /\ CallSame

CloseLockFile(c, here, next) ==
    /\ pc[c] = here /\ CloseUnlinked(c)
    /\ Goto(c, next)
    /\ DiskSame /\ CallSame

GiveUpFreeLock(c) ==
    \/ RemoveLockFile(c, "rm_lock", "close_lock")
    \/ CloseLockFile(c, "close_lock", "data_files")
    \/ RemoveLockFile(c, "rm_last_lock", "close_last_lock")
    \/ CloseLockFile(c, "close_last_lock", "rm_locks_dir")

RemoveLocksDir(c) ==
    /\ pc[c] = "rm_locks_dir"
    /\ IF linked = None THEN RemoveDir(c, "locks") ELSE UNCHANGED <<dirs, open>>
    /\ Answers(c, "ok") /\ Goto(c, "unlock_bucket")
    /\ UNCHANGED <<lockVars, record, meta, temps, data, lifecycle, calls, crashes>>

DeleteBucket(c) ==
    \/ Sweep(c) \/ Classify(c) \/ LockedState(c) \/ NextDebris(c) \/ RemoveDebris(c)
    \/ RemoveMetaDir(c) \/ RemoveRecord(c) \/ ListData(c) \/ ProbeData(c) \/ ProbedData(c)
    \/ RemoveLeftData(c) \/ RemoveObjectsDir(c) \/ ListLocks(c) \/ ProbeLock(c)
    \/ ProbedLock(c) \/ GiveUpFreeLock(c) \/ RemoveLocksDir(c)

(***************************************************************************)
(* A process dies with the call it runs: its files stay, its locks go.     *)
(***************************************************************************)
Crash(c) ==
    /\ c \in MayCrash /\ pc[c] # "idle" /\ crashes < MaxCrashes
    /\ crashes' = crashes + 1
    /\ CrashLock(c)
    /\ lifecycle' = IF lifecycle = c THEN None ELSE lifecycle
    /\ open' = [open EXCEPT ![c] = {}]
    /\ call' = [call EXCEPT ![c] = NoCall]
    /\ Goto(c, "idle")
    /\ UNCHANGED <<diskVars, calls>>

Next ==
    \E c \in Callers :
        \/ Begin(c) \/ Return(c) \/ OpenBucket(c)
        \/ Locking(c) \/ LockFailed(c) \/ UnlockWith(c) \/ ReleaseWith(c) \/ Released(c)
        \/ CreateObject(c) \/ OpenObject(c) \/ DeleteObject(c) \/ Keys(c)
        \/ LockBucket(c) \/ UnlockBucket(c) \/ CreateBucket(c) \/ DeleteBucket(c)
        \/ Crash(c)

Spec == Init /\ [][Next]_vars

(***************************************************************************)
(* Properties                                                              *)
(***************************************************************************)
TypeOK ==
    /\ LockTypeOK
    /\ dirs \in SUBSET AllDirs /\ record \in BOOLEAN
    /\ meta \in DataFiles \cup {None} /\ temps \in SUBSET DataFiles
    /\ data \in [DataFiles -> {"none", "partial", "whole"}]
    /\ lifecycle \in Callers \cup {None}
    /\ open \in [Callers -> SUBSET AllDirs]
    /\ \A c \in Callers : call[c].prev \in DataFiles \cup {None}
    /\ \A c \in Callers : calls[c] \in 0..MaxCalls[c]
    /\ crashes \in 0..MaxCrashes

\* "An exclusive lock per name": of the callers on the bucket as it is, one
\* at a time works on the key, although lock files are removed under waiters.
OneHolder ==
    \A c, d \in Callers :
        lk[c] = "held" /\ lk[d] = "held" /\ {"meta", "locks"} \subseteq open[c] \cap open[d] => c = d

\* The metadata that readers follow names a whole data file at every instant,
\* whatever write, delete or crash is half done.
CommittedWhole == meta # None => data[meta] = "whole"

\* No reader, locked or not, takes a write in progress for a damaged object.
NoFalseCorruption == \A c \in Callers : call[c].answer # "corrupt"

\* "A failure before it leaves the previous object as it was, with nothing
\* new left behind": without crashes, idle callers leave one data file at
\* most, the object's, and no temp file.
NothingLeftBehind ==
    crashes = 0 /\ (\A c \in Callers : pc[c] = "idle") =>
        temps = {} /\ Files \subseteq {meta}

\* A bucket that exists has a name record, so that it can be listed, while
\* DeleteBucket and CreateBucket race and crash.
BucketNamed == "meta" \in dirs => record

\* What is on disk and what is told of it agree, however the calls overlap.
StoreHolds == TypeOK /\ NoFalseCorruption /\ NothingLeftBehind /\ BucketNamed

\* Of the calls on the key, ObjectRegister sees the request and the answer.
Asked(c) ==
    IF call[c].op \in {"put", "get", "delete"} THEN [op |-> call[c].op, match |-> call[c].match] ELSE None
Answered(c) == IF Asked(c) = None THEN "pending" ELSE call[c].answer

\* Its bucket was deleted after it had opened it.
Outlived(c) == Asked(c) # None /\ pc[c] # "open_meta" /\ ~Here(c, "meta")

Register == INSTANCE ObjectRegister WITH
    ETags <- DataFiles,
    bucket <- "meta" \in dirs,
    object <- meta,
    asked <- [c \in Callers |-> Asked(c)],
    answer <- [c \in Callers |-> Answered(c)],
    outlived <- {c \in Callers : Outlived(c)}

\* Every call takes effect at one instant, conditions included, nothing but a
\* write or a delete of the key changes the object, and a call on a bucket
\* that is gone leaves the one made anew alone.
ImplementsRegister == Register!Spec

\* "Only the holder may remove the file, or it would unlink a file that
\* another holder still has locked."
HeldFileStays ==
    [][\A c \in Callers : lk[c] = "held" /\ lk'[c] = "held" /\ linked = file[c] => linked' = linked]_vars
=============================================================================
