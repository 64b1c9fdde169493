------------------------- MODULE ObjectStoreProofs -------------------------
(***************************************************************************)
(* Theorems about the calls on a bucket of the dir object storage, for any *)
(* callers, files, requests, crashes and scheduling.                       *)
(*                                                                         *)
(* The inductive invariant is StoreInv, in three parts.                    *)
(*   LockInv  the lock: one open file description has the flock of an      *)
(*            inode, and a holder's inode is the one at the name as long   *)
(*            as the locks directory is there.                             *)
(*   CallInv  where a call is: at each label, what it has of the lock,     *)
(*            which of the bucket's directories it has open and which of   *)
(*            them are still the bucket's.                                 *)
(*   KeyInv   the key's files: the one named by the meta is whole, a call  *)
(*            that writes has a data file of its own that nobody else      *)
(*            names, and what a removal has read stays true until it acts. *)
(*                                                                         *)
(* One step of the code breaks LockInv: withFreeLock unlinks by name, so   *)
(* it may remove a lock file made after the one it locked (README,         *)
(* finding 3; the run MCObjectStore_freelock shows it). The theorems on    *)
(* the key say what holds of the behaviours without that step:             *)
(* FreeLocksAreCurrent is their hypothesis. TypeOK and BucketNamed need    *)
(* no such hypothesis: FlockInv, LockInv without what the step breaks,     *)
(* carries them. StoreOfKeptBuckets has none either: where no caller       *)
(* deletes the bucket, nobody takes a free lock.                           *)
(***************************************************************************)
EXTENDS ObjectStore, TLAPS

\* withFreeLock unlinks the lock file that it has locked, and no other.
FreeIsCurrent ==
    \A c \in Callers : lk[c] = "free" /\ lk'[c] = "unlinked" => linked \in {file[c], None}
FreeLocksAreCurrent == [][FreeIsCurrent]_vars

(***************************************************************************)
(* The lock                                                                *)
(***************************************************************************)
\* One open file description has the flock of an inode.
Exclusive ==
    \A c, d \in Callers :
        /\ lk[c] \in HasFlock /\ lk[d] \in HasFlock /\ file[c] = file[d] => c = d
        /\ c \in granted /\ lk[d] \in HasFlock => ghost[c] # file[d]
        /\ c \in granted /\ d \in granted /\ ghost[c] = ghost[d] => c = d

\* A holder's file is the one at the name while its directory is the bucket's.
HeldIsCurrent ==
    \A c \in Callers : lk[c] = "held" /\ Here(c, "locks") => linked = file[c]

LockInv == LockTypeOK /\ Exclusive /\ HeldIsCurrent

(***************************************************************************)
(* Where a call is, and what it has of the lock and of the bucket there    *)
(***************************************************************************)
Unlocked == {"idle", "open_meta", "open_rest", "return", "lock_bucket", "unlock_bucket",
    "mk_objects", "mk_locks", "mk_record", "mk_meta", "peek", "stat", "sweep", "classify",
    "debris", "rm_meta_dir", "rm_record", "leftovers", "data_files", "lock_files",
    "rm_locks_dir"}
Waiting == {"previous", "read", "find", "recheck", "state", "rm_debris"}
Writing == {"copy", "temp", "rename", "discard"}
Working == Writing \cup {"create", "remove_previous", "finish", "open_data",
    "remove_meta", "remove_data", "restat", "unlock", "release"}
Dropping == {"released", "close_lock", "close_last_lock"}
Sweeping == {"sweep", "classify", "state", "debris", "rm_debris", "rm_meta_dir"}
MetaGone == {"rm_record", "leftovers", "data_files", "probe_data", "rm_data", "rm_lock",
    "close_lock", "lock_files", "probe_lock", "rm_last_lock", "close_last_lock", "rm_locks_dir"}
Labels == Unlocked \cup Waiting \cup Working \cup Dropping \cup Sweeping \cup MetaGone

Records == [op : ObjectOps \cup BucketOps \cup {"none"}, match : Matches,
            prev : DataFiles \cup {None}, mine : DataFiles \cup {None},
            answer : Told \cup DataFiles, todo : SUBSET (DataFiles \cup {"meta"}),
            debris : SUBSET (DataFiles \cup {"meta"})]

CallTypeOK ==
    /\ dirs \in SUBSET AllDirs /\ record \in BOOLEAN
    /\ meta \in DataFiles \cup {None} /\ temps \in SUBSET DataFiles
    /\ data \in [DataFiles -> {"none", "partial", "whole"}]
    /\ lifecycle \in Callers \cup {None}
    /\ open \in [Callers -> SUBSET AllDirs]
    /\ pc \in [Callers -> Labels] /\ call \in [Callers -> Records]
    /\ calls \in [Callers -> Nat] /\ \A c \in Callers : calls[c] <= MaxCalls[c]
    /\ crashes \in 0..MaxCrashes

LockAt(c) ==
    /\ pc[c] \in Unlocked => lk[c] = "idle"
    /\ pc[c] \in Waiting => lk[c] \in {"open", "try", "blocked", "check", "held", "failed"}
    /\ pc[c] \in Working => lk[c] = "held"
    /\ pc[c] \in Dropping => lk[c] = "unlinked"
    /\ pc[c] \in {"rm_lock", "rm_last_lock"} => lk[c] = "free"
    /\ pc[c] = "rm_data" => lk[c] \in {"idle", "free"}
    /\ pc[c] = "probe_data" => lk[c] = "probe"
    /\ pc[c] = "probe_lock" => lk[c] \in {"idle", "probe"}

OpAt(c) ==
    LET op == call[c].op IN
    /\ pc[c] = "idle" => call[c] = NoCall
    /\ pc[c] \in {"open_meta", "open_rest", "unlock", "release", "released"}
         => op \in ObjectOps \cup {"delete_bucket"}
    /\ pc[c] \in Writing \cup {"previous", "create", "remove_previous", "finish"} => op = "put"
    /\ pc[c] \in Writing => call[c].mine \in DataFiles
    /\ pc[c] \in {"read", "open_data"} => op = "get"
    /\ pc[c] \in {"find", "remove_meta", "remove_data"} => op = "delete"
    /\ pc[c] \in {"peek", "stat", "recheck", "restat"} => op = "list"
    /\ pc[c] \in {"stat", "restat"} => call[c].prev \in DataFiles
    /\ pc[c] \in Sweeping \cup MetaGone => op = "delete_bucket"
    /\ pc[c] \in {"mk_objects", "mk_locks", "mk_record", "mk_meta"} => op = "create_bucket"
    /\ pc[c] \in {"lock_bucket", "unlock_bucket"} => op \in BucketOps
    /\ op \in BucketOps /\ pc[c] \notin {"lock_bucket", "return"} => lifecycle = c

CallsHold == \A c \in Callers : LockAt(c) /\ OpAt(c)

\* The directories that c has open.
DirsAt(c) ==
    /\ open[c] \subseteq dirs
    /\ pc[c] \in {"idle", "open_meta", "lock_bucket"} => open[c] = {}
    /\ "meta" \in open[c] /\ pc[c] \notin {"open_rest", "unlock_bucket", "return"}
         => open[c] = AllDirs
    /\ pc[c] \in Sweeping \cup {"open_rest", "unlock", "release", "released"}
         /\ call[c].op = "delete_bucket" => "meta" \in open[c]
    /\ pc[c] \in MetaGone => "meta" \notin dirs
    /\ pc[c] = "mk_meta" => record

DirsHold ==
    /\ meta # None \/ temps # {} => "meta" \in dirs
    /\ "meta" \in dirs => record
    /\ \A c \in Callers : DirsAt(c)

CallInv == CallTypeOK /\ CallsHold /\ DirsHold

(***************************************************************************)
(* What the holder of the lock knows of the key                            *)
(***************************************************************************)
HolderKnows ==
    \A c \in Callers : LET k == call[c] IN
        /\ pc[c] \in {"open_data", "restat", "remove_meta"}
             => Here(c, "meta") /\ k.prev = meta /\ meta # None
        /\ pc[c] \in {"create", "copy", "temp", "rename"} /\ Here(c, "meta")
             => k.prev = meta /\ Meets(k.match, meta)
        /\ pc[c] = "rename" => Here(c, "meta") /\ k.mine \in temps
        /\ pc[c] = "remove_previous" => Here(c, "meta") /\ meta # None /\ meta = k.mine /\ k.prev # meta
        /\ pc[c] = "remove_data" => k.prev # None /\ k.prev # meta

\* A data file that is being written is nobody else's.
WrittenIsOwn ==
    \A c \in Callers : pc[c] \in Writing =>
        /\ call[c].mine \in DataFiles /\ call[c].mine # meta
        /\ \A d \in Callers : call[d].prev # call[c].mine
        /\ \A d \in Callers : call[d].mine = call[c].mine => c = d

WholeBeforeCommit ==
    /\ meta # None => data[meta] = "whole"
    /\ \A c \in Callers : pc[c] \in {"temp", "rename"} /\ Here(c, "meta")
          => data[call[c].mine] = "whole"

\* Without a crash, each file is somebody's.
FilesAreOwned ==
    /\ \A c \in Callers : "objects" \notin open[c] =>
          /\ pc[c] \in Writing => data[call[c].mine] = "none"
          /\ pc[c] = "remove_data" => data[call[c].prev] = "none"
    /\ crashes = 0 =>
          /\ \A t \in temps : \E c \in Callers : pc[c] = "rename" /\ call[c].mine = t
          /\ \A d \in Files :
                \/ d = meta
                \/ \E c \in Callers :
                      \/ pc[c] \in Writing /\ call[c].mine = d
                      \/ pc[c] \in {"remove_previous", "remove_data"} /\ call[c].prev = d

\* Where a call has had no effect yet.
Pending == Writing \cup {"lock_bucket", "open_meta", "open_rest", "previous", "create", "read",
    "find", "remove_meta"}
Unanswered ==
    \A c \in Callers :
        /\ call[c].answer # "corrupt"
        /\ pc[c] \in Pending => call[c].answer = "pending"

KeyInv == HolderKnows /\ WrittenIsOwn /\ WholeBeforeCommit /\ FilesAreOwned /\ Unanswered

StoreInv == LockInv /\ CallInv /\ KeyInv

\* What is linked now, or has it open, is an inode in use.
LEMMA FreshIsUnused ==
    ASSUME HasInode
    PROVE  FreshInode \in Inodes /\ FreshInode \notin Used
  BY Zenon DEF HasInode, FreshInode

LEMMA OpenLockFileKeeps ==
    ASSUME NEW c \in Callers, LockTypeOK, Exclusive, NEW live, OpenLockFile(c, live), None \notin Inodes
    PROVE  LockTypeOK' /\ Exclusive'
  <1>1. FreshInode \in Inodes /\ FreshInode \notin Used
    BY FreshIsUnused DEF OpenLockFile
  <1>2. linked' \in Inodes \cup {None}
    BY <1>1 DEF OpenLockFile, LockTypeOK
  <1> QED
    BY <1>1, <1>2 DEF OpenLockFile, LockTypeOK, Exclusive, Phase, HasFlock, Phases

LEMMA TryLockKeeps ==
    ASSUME NEW c \in Callers, LockTypeOK, Exclusive, TryLock(c) \/ Granted(c)
    PROVE  LockTypeOK' /\ Exclusive'
  BY DEF TryLock, Granted, LockTypeOK, Exclusive, Phase, HasFlock, Phases, Flocked

LEMMA CheckCurrentKeeps ==
    ASSUME NEW c \in Callers, LockTypeOK, Exclusive, NEW live, CheckCurrent(c, live)
    PROVE  LockTypeOK' /\ Exclusive'
  BY DEF CheckCurrent, LockTypeOK, Exclusive, Phase, CloseFile, HasFlock, Phases

LEMMA CancelKeeps ==
    ASSUME NEW c \in Callers, LockTypeOK, Exclusive, Cancel(c) \/ GhostLocks(c) \/ GhostCloses(c)
    PROVE  LockTypeOK' /\ Exclusive'
  <1>1. CASE Cancel(c)
    BY <1>1 DEF Cancel, LockTypeOK, Exclusive, Phase, CloseFile, HasFlock, Phases
  <1>2. CASE GhostLocks(c)
    BY <1>2 DEF GhostLocks, LockTypeOK, Exclusive, HasFlock, Phases, Flocked
  <1>3. CASE GhostCloses(c)
    BY <1>3 DEF GhostCloses, LockTypeOK, Exclusive, HasFlock, Phases
  <1> QED
    BY <1>1, <1>2, <1>3

LEMMA LetsGoKeeps ==
    ASSUME NEW c \in Callers, LockTypeOK, Exclusive,
           Unlock(c) \/ CloseUnlinked(c) \/ ProbeTaken(c) \/ CrashLock(c)
    PROVE  LockTypeOK' /\ Exclusive'
  BY DEF Unlock, CloseUnlinked, ProbeTaken, CrashLock, LockTypeOK, Exclusive, Phase, CloseFile,
         HasFlock, Phases

LEMMA UnlinkKeeps ==
    ASSUME NEW c \in Callers, LockTypeOK, Exclusive, NEW live, lk[c] \in {"held", "free"}, Unlink(c, live)
    PROVE  LockTypeOK' /\ Exclusive'
  BY DEF Unlink, LockTypeOK, Exclusive, Phase, HasFlock, Phases

LEMMA ProbeKeeps ==
    ASSUME NEW c \in Callers, LockTypeOK, Exclusive, (lk[c] = "idle" /\ ProbeOpen(c)) \/ ProbeFree(c),
           None \notin Inodes
    PROVE  LockTypeOK' /\ Exclusive'
  BY DEF ProbeOpen, ProbeFree, LockTypeOK, Exclusive, Phase, HasFlock, Phases, Flocked

\* A wait begins, or one that has failed is over.
LEMMA WaitKeeps ==
    ASSUME NEW c \in Callers, LockTypeOK, Exclusive, lk[c] \in {"idle", "failed"}, NEW p \in {"open", "idle"},
           Phase(c, p), UNCHANGED <<linked, file, ghost, granted>>
    PROVE  LockTypeOK' /\ Exclusive'
  BY DEF LockTypeOK, Exclusive, Phase, HasFlock, Phases

CallsTyped == call \in [Callers -> Records]
OthersSame(c) == \A d \in Callers \ {c} : call'[d] = call[d]
\* The fields of c's request, of what it has found and of what it has to do.
RequestSame(c) == call'[c].op = call[c].op /\ call'[c].match = call[c].match
FoundSame(c) == call'[c].prev = call[c].prev /\ call'[c].mine = call[c].mine
ToDoSame(c) == call'[c].todo = call[c].todo /\ call'[c].debris = call[c].debris
AnswerSame(c) == call'[c].answer = call[c].answer

LEMMA AnswersEdits ==
    ASSUME NEW c \in Callers, CallsTyped, NEW a \in Told \cup DataFiles, Answers(c, a)
    PROVE  /\ CallsTyped' /\ OthersSame(c) /\ RequestSame(c) /\ FoundSame(c) /\ ToDoSame(c)
           /\ call'[c].answer = a
  BY DEF CallsTyped, Records, Answers, OthersSame, RequestSame, FoundSame, ToDoSame
LEMMA RemembersEdits ==
    ASSUME NEW c \in Callers, CallsTyped, NEW d \in DataFiles \cup {None}, Remembers(c, d)
    PROVE  /\ CallsTyped' /\ OthersSame(c) /\ RequestSame(c) /\ AnswerSame(c) /\ ToDoSame(c)
           /\ call'[c].prev = d /\ call'[c].mine = call[c].mine
  BY DEF CallsTyped, Records, Remembers, OthersSame, RequestSame, AnswerSame, ToDoSame
LEMMA FoundEdits ==
    ASSUME NEW c \in Callers, CallsTyped, NEW d \in DataFiles, Found(c, d, d)
    PROVE  /\ CallsTyped' /\ OthersSame(c) /\ RequestSame(c) /\ ToDoSame(c)
           /\ call'[c].prev = d /\ call'[c].mine = call[c].mine /\ call'[c].answer = d
  BY DEF CallsTyped, Records, Found, OthersSame, RequestSame, ToDoSame
LEMMA ReturnsEdits ==
    ASSUME NEW c \in Callers, CallsTyped, open \in [Callers -> SUBSET AllDirs], Returns(c)
    PROVE  /\ CallsTyped' /\ OthersSame(c) /\ call'[c] = NoCall
           /\ open' \in [Callers -> SUBSET AllDirs]
  BY DEF CallsTyped, Records, Returns, OthersSame, NoCall, Told, Matches
LEMMA ToDoEdits ==
    ASSUME NEW c \in Callers, CallsTyped, NEW s \in SUBSET (DataFiles \cup {"meta"}), ToDo(c, s)
    PROVE  /\ CallsTyped' /\ OthersSame(c) /\ RequestSame(c) /\ FoundSame(c) /\ AnswerSame(c)
  BY DEF CallsTyped, Records, ToDo, OthersSame, RequestSame, FoundSame, AnswerSame


\* A step of c moves nobody else, and leaves the lifecycle lock to its holder.
Frame(c) ==
    /\ \A d \in Callers \ {c} : pc'[d] = pc[d] /\ lk'[d] = lk[d] /\ call'[d] = call[d]
    /\ lifecycle' = lifecycle \/ lifecycle \in {None, c}
Walks(c) == CallTypeOK' /\ Frame(c) /\ LockAt(c)' /\ OpAt(c)'
Edited(c) == CallsTyped' /\ OthersSame(c) /\ RequestSame(c) /\ call'[c].mine = call[c].mine

LEMMA UnusedIsFree ==
    ASSUME UnusedData # {}
    PROVE  FreshData \in UnusedData
  BY Zenon DEF FreshData

LEMMA StateEdits ==
    ASSUME NEW c \in Callers, CallInv, LockedState(c)
    PROVE  CallsTyped' /\ OthersSame(c) /\ RequestSame(c) /\ FoundSame(c)
  <1> DEFINE e == NextOf(call[c].todo)
  <1> DEFINE left == call[c].todo \ {e}
  <1> DEFINE debris == IF Debris(e) THEN call[c].debris \cup {e} ELSE call[c].debris
  <1> DEFINE answer == IF Object(e) THEN "notempty" ELSE call[c].answer
  <1>1. call' = [call EXCEPT ![c].todo = left, ![c].debris = debris, ![c].answer = answer]
    BY DEF LockedState
  <1>2. /\ call \in [Callers -> Records]
        /\ left \in SUBSET (DataFiles \cup {"meta"})
        /\ debris \in SUBSET (DataFiles \cup {"meta"})
        /\ answer \in Told \cup DataFiles
    BY DEF Debris, CallInv, CallTypeOK, Records, Told
  <1> HIDE DEF left, debris, answer
  <1>3. call'[c] = [op |-> call[c].op, match |-> call[c].match, prev |-> call[c].prev,
                    mine |-> call[c].mine, answer |-> answer, todo |-> left, debris |-> debris]
    <2>1. call[c] \in Records
      BY <1>2
    <2> QED
      BY <1>1, <1>2, <2>1 DEF Records
  <1>4. call'[c] \in Records /\ RequestSame(c) /\ FoundSame(c)
    BY <1>2, <1>3 DEF Records, RequestSame, FoundSame
  <1>5. OthersSame(c) /\ DOMAIN call' = Callers /\ call' = [d \in Callers |-> call'[d]]
    BY <1>1, <1>2 DEF OthersSame
  <1> QED
    BY <1>2, <1>4, <1>5 DEF CallsTyped, OthersSame

LEMMA DebrisEdits ==
    ASSUME NEW c \in Callers, CallInv, RemoveDebris(c)
    PROVE  CallsTyped' /\ OthersSame(c) /\ RequestSame(c) /\ FoundSame(c)
  <1> DEFINE e == NextOf(call[c].debris)
  <1> HIDE DEF e
  <1>1. call' = [call EXCEPT ![c].debris = @ \ {e}]
    BY DEF RemoveDebris, e
  <1> QED
    BY <1>1 DEF CallInv, CallTypeOK, CallsTyped, Records, OthersSame, RequestSame, FoundSame


LEMMA LeftOver ==
    ASSUME NEW c \in Callers, CallsTyped, NEW e, ToDo(c, call[c].todo \ {e})
    PROVE  /\ CallsTyped' /\ OthersSame(c) /\ RequestSame(c) /\ FoundSame(c) /\ AnswerSame(c)
  <1> DEFINE left == call[c].todo \ {e}
  <1>1. left \in SUBSET (DataFiles \cup {"meta"})
    BY DEF CallsTyped, Records
  <1> HIDE DEF left
  <1> QED
    BY <1>1, ToDoEdits DEF left

LEMMA PreviousDataFileWalks ==
    ASSUME NEW c \in Callers, ObjectStoreAssumption, LockTypeOK, CallInv, PreviousDataFile(c)
    PROVE  Walks(c) /\ Edited(c)
  <1>1. Edited(c)
    BY AnswersEdits, RemembersEdits DEF Edited, OthersSame, RequestSame, FoundSame, CallInv,
       CallTypeOK, CallsTyped, PreviousDataFile, MetaOf, Told
  <1>2. CallTypeOK' /\ Frame(c)
    BY <1>1 DEF CallInv, CallTypeOK, CallsTyped, CallsHold, OpAt, Edited, OthersSame, Frame,
       PreviousDataFile, Holding, Goto, lockVars, diskVars, DiskSame, Calling, LockTypeOK, Labels,
       Unlocked, Waiting, Working, Writing, Dropping, Sweeping, MetaGone
  <1>3. LockAt(c)'
    BY DEF CallInv, CallTypeOK, CallsHold, LockAt, PreviousDataFile, Holding, Goto, lockVars,
       LockTypeOK, Unlocked, Waiting, Working, Writing, Dropping
  <1>4. OpAt(c)'
    BY <1>1 DEF CallInv, CallTypeOK, CallsHold, OpAt, Edited, RequestSame, PreviousDataFile,
       Holding, Goto, Calling, Writing, Sweeping, MetaGone, BucketOps, ObjectOps
  <1> QED
    BY <1>1, <1>2, <1>3, <1>4 DEF Walks

LEMMA CopyBodyWalks ==
    ASSUME NEW c \in Callers, ObjectStoreAssumption, LockTypeOK, CallInv, CopyBody(c)
    PROVE  Walks(c) /\ Edited(c)
  <1>1. Edited(c)
    BY DEF Edited, OthersSame, RequestSame, FoundSame, CallInv, CallTypeOK, CallsTyped, CopyBody
  <1>2. CallTypeOK' /\ Frame(c)
    BY <1>1 DEF CallInv, CallTypeOK, CallsTyped, CallsHold, OpAt, Edited, OthersSame, Frame,
       CopyBody, Holding, Goto, lockVars, diskVars, DiskSame, Calling, LockTypeOK, Labels,
       Unlocked, Waiting, Working, Writing, Dropping, Sweeping, MetaGone
  <1>3. LockAt(c)'
    BY DEF CallInv, CallTypeOK, CallsHold, LockAt, CopyBody, Holding, Goto, lockVars, LockTypeOK,
       Unlocked, Waiting, Working, Writing, Dropping
  <1>4. OpAt(c)'
    BY <1>1 DEF CallInv, CallTypeOK, CallsHold, OpAt, Edited, RequestSame, CopyBody, Holding, Goto,
       Calling, Writing, Sweeping, MetaGone, BucketOps, ObjectOps
  <1> QED
    BY <1>1, <1>2, <1>3, <1>4 DEF Walks

LEMMA WriteTempWalks ==
    ASSUME NEW c \in Callers, ObjectStoreAssumption, LockTypeOK, CallInv, WriteTemp(c)
    PROVE  Walks(c) /\ Edited(c)
  <1>1. Edited(c)
    BY DEF Edited, OthersSame, RequestSame, FoundSame, CallInv, CallTypeOK, CallsTyped, WriteTemp
  <1>2. CallTypeOK' /\ Frame(c)
    BY <1>1 DEF CallInv, CallTypeOK, CallsTyped, CallsHold, OpAt, Edited, OthersSame, Frame,
       WriteTemp, Holding, Goto, lockVars, diskVars, DiskSame, Calling, LockTypeOK, Labels,
       Unlocked, Waiting, Working, Writing, Dropping, Sweeping, MetaGone
  <1>3. LockAt(c)'
    BY DEF CallInv, CallTypeOK, CallsHold, LockAt, WriteTemp, Holding, Goto, lockVars, LockTypeOK,
       Unlocked, Waiting, Working, Writing, Dropping
  <1>4. OpAt(c)'
    BY <1>1 DEF CallInv, CallTypeOK, CallsHold, OpAt, Edited, RequestSame, WriteTemp, Holding,
       Goto, Calling, Writing, Sweeping, MetaGone, BucketOps, ObjectOps
  <1> QED
    BY <1>1, <1>2, <1>3, <1>4 DEF Walks

LEMMA RenameWalks ==
    ASSUME NEW c \in Callers, ObjectStoreAssumption, LockTypeOK, CallInv, Rename(c)
    PROVE  Walks(c) /\ Edited(c)
  <1>1. Edited(c)
    BY AnswersEdits DEF Edited, OthersSame, RequestSame, FoundSame, CallInv, CallTypeOK,
       CallsTyped, Rename, Told
  <1>2. CallTypeOK' /\ Frame(c)
    BY <1>1 DEF CallInv, CallTypeOK, CallsTyped, CallsHold, OpAt, Edited, OthersSame, Frame,
       Rename, Holding, Goto, lockVars, diskVars, DiskSame, Calling, LockTypeOK, Labels, Unlocked,
       Waiting, Working, Writing, Dropping, Sweeping, MetaGone
  <1>3. LockAt(c)'
    BY DEF CallInv, CallTypeOK, CallsHold, LockAt, Rename, Holding, Goto, lockVars, LockTypeOK,
       Unlocked, Waiting, Working, Writing, Dropping
  <1>4. OpAt(c)'
    BY <1>1 DEF CallInv, CallTypeOK, CallsHold, OpAt, Edited, RequestSame, Rename, Holding, Goto,
       Calling, Writing, Sweeping, MetaGone, BucketOps, ObjectOps
  <1> QED
    BY <1>1, <1>2, <1>3, <1>4 DEF Walks

LEMMA RemovePreviousWalks ==
    ASSUME NEW c \in Callers, ObjectStoreAssumption, LockTypeOK, CallInv, RemovePrevious(c)
    PROVE  Walks(c) /\ Edited(c)
  <1>1. Edited(c)
    BY DEF Edited, OthersSame, RequestSame, FoundSame, CallInv, CallTypeOK, CallsTyped,
       RemovePrevious
  <1>2. CallTypeOK' /\ Frame(c)
    BY <1>1 DEF CallInv, CallTypeOK, CallsTyped, CallsHold, OpAt, Edited, OthersSame, Frame,
       RemovePrevious, Holding, Goto, lockVars, diskVars, DiskSame, Calling, LockTypeOK,
       RemovedData, Stale, Labels, Unlocked, Waiting, Working, Writing, Dropping, Sweeping, MetaGone
  <1>3. LockAt(c)'
    BY DEF CallInv, CallTypeOK, CallsHold, LockAt, RemovePrevious, Holding, Goto, lockVars,
       LockTypeOK, RemovedData, Stale, Unlocked, Waiting, Working, Writing, Dropping
  <1>4. OpAt(c)'
    BY <1>1 DEF CallInv, CallTypeOK, CallsHold, OpAt, Edited, RequestSame, RemovePrevious, Holding,
       Goto, Calling, RemovedData, Stale, Writing, Sweeping, MetaGone, BucketOps, ObjectOps
  <1> QED
    BY <1>1, <1>2, <1>3, <1>4 DEF Walks

LEMMA DiscardWalks ==
    ASSUME NEW c \in Callers, ObjectStoreAssumption, LockTypeOK, CallInv, Discard(c)
    PROVE  Walks(c) /\ Edited(c)
  <1>1. Edited(c)
    BY AnswersEdits DEF Edited, OthersSame, RequestSame, FoundSame, CallInv, CallTypeOK,
       CallsTyped, Discard, Told
  <1>2. CallTypeOK' /\ Frame(c)
    BY <1>1 DEF CallInv, CallTypeOK, CallsTyped, CallsHold, OpAt, Edited, OthersSame, Frame,
       Discard, Holding, Goto, lockVars, diskVars, DiskSame, Calling, LockTypeOK, RemovedData,
       Discards, Labels, Unlocked, Waiting, Working, Writing, Dropping, Sweeping, MetaGone
  <1>3. LockAt(c)'
    BY DEF CallInv, CallTypeOK, CallsHold, LockAt, Discard, Holding, Goto, lockVars, LockTypeOK,
       RemovedData, Discards, Unlocked, Waiting, Working, Writing, Dropping
  <1>4. OpAt(c)'
    BY <1>1 DEF CallInv, CallTypeOK, CallsHold, OpAt, Edited, RequestSame, Discard, Holding, Goto,
       Calling, RemovedData, Discards, Writing, Sweeping, MetaGone, BucketOps, ObjectOps
  <1> QED
    BY <1>1, <1>2, <1>3, <1>4 DEF Walks

LEMMA ReadMetaWalks ==
    ASSUME NEW c \in Callers, ObjectStoreAssumption, LockTypeOK, CallInv, ReadMeta(c)
    PROVE  Walks(c) /\ Edited(c)
  <1>1. Edited(c)
    BY AnswersEdits, FoundEdits DEF Edited, OthersSame, RequestSame, FoundSame, CallInv,
       CallTypeOK, CallsTyped, ReadMeta, Told, MetaOf
  <1>2. CallTypeOK' /\ Frame(c)
    BY <1>1 DEF CallInv, CallTypeOK, CallsTyped, CallsHold, OpAt, Edited, OthersSame, Frame,
       ReadMeta, Holding, Goto, lockVars, diskVars, DiskSame, Calling, LockTypeOK, Labels,
       Unlocked, Waiting, Working, Writing, Dropping, Sweeping, MetaGone
  <1>3. LockAt(c)'
    BY DEF CallInv, CallTypeOK, CallsHold, LockAt, ReadMeta, Holding, Goto, lockVars, LockTypeOK,
       Unlocked, Waiting, Working, Writing, Dropping
  <1>4. OpAt(c)'
    BY <1>1 DEF CallInv, CallTypeOK, CallsHold, OpAt, Edited, RequestSame, ReadMeta, Holding, Goto,
       Calling, Writing, Sweeping, MetaGone, BucketOps, ObjectOps
  <1> QED
    BY <1>1, <1>2, <1>3, <1>4 DEF Walks

LEMMA OpenDataWalks ==
    ASSUME NEW c \in Callers, ObjectStoreAssumption, LockTypeOK, CallInv, OpenData(c)
    PROVE  Walks(c) /\ Edited(c)
  <1>1. Edited(c)
    BY AnswersEdits DEF Edited, OthersSame, RequestSame, FoundSame, CallInv, CallTypeOK,
       CallsTyped, OpenData, Told
  <1>2. CallTypeOK' /\ Frame(c)
    BY <1>1 DEF CallInv, CallTypeOK, CallsTyped, CallsHold, OpAt, Edited, OthersSame, Frame,
       OpenData, Holding, Goto, lockVars, diskVars, DiskSame, Calling, LockTypeOK, Labels,
       Unlocked, Waiting, Working, Writing, Dropping, Sweeping, MetaGone
  <1>3. LockAt(c)'
    BY DEF CallInv, CallTypeOK, CallsHold, LockAt, OpenData, Holding, Goto, lockVars, LockTypeOK,
       Unlocked, Waiting, Working, Writing, Dropping
  <1>4. OpAt(c)'
    BY <1>1 DEF CallInv, CallTypeOK, CallsHold, OpAt, Edited, RequestSame, OpenData, Holding, Goto,
       Calling, Writing, Sweeping, MetaGone, BucketOps, ObjectOps
  <1> QED
    BY <1>1, <1>2, <1>3, <1>4 DEF Walks

LEMMA FindObjectWalks ==
    ASSUME NEW c \in Callers, ObjectStoreAssumption, LockTypeOK, CallInv, FindObject(c)
    PROVE  Walks(c) /\ Edited(c)
  <1>1. Edited(c)
    BY AnswersEdits, RemembersEdits DEF Edited, OthersSame, RequestSame, FoundSame, CallInv,
       CallTypeOK, CallsTyped, FindObject, Told, MetaOf
  <1>2. CallTypeOK' /\ Frame(c)
    BY <1>1 DEF CallInv, CallTypeOK, CallsTyped, CallsHold, OpAt, Edited, OthersSame, Frame,
       FindObject, Holding, Goto, lockVars, diskVars, DiskSame, Calling, LockTypeOK, Labels,
       Unlocked, Waiting, Working, Writing, Dropping, Sweeping, MetaGone
  <1>3. LockAt(c)'
    BY DEF CallInv, CallTypeOK, CallsHold, LockAt, FindObject, Holding, Goto, lockVars, LockTypeOK,
       Unlocked, Waiting, Working, Writing, Dropping
  <1>4. OpAt(c)'
    BY <1>1 DEF CallInv, CallTypeOK, CallsHold, OpAt, Edited, RequestSame, FindObject, Holding,
       Goto, Calling, Writing, Sweeping, MetaGone, BucketOps, ObjectOps
  <1> QED
    BY <1>1, <1>2, <1>3, <1>4 DEF Walks

LEMMA RemoveMetaWalks ==
    ASSUME NEW c \in Callers, ObjectStoreAssumption, LockTypeOK, CallInv, RemoveMeta(c)
    PROVE  Walks(c) /\ Edited(c)
  <1>1. Edited(c)
    BY AnswersEdits DEF Edited, OthersSame, RequestSame, FoundSame, CallInv, CallTypeOK,
       CallsTyped, RemoveMeta, Told
  <1>2. CallTypeOK' /\ Frame(c)
    BY <1>1 DEF CallInv, CallTypeOK, CallsTyped, CallsHold, OpAt, Edited, OthersSame, Frame,
       RemoveMeta, Holding, Goto, lockVars, diskVars, DiskSame, Calling, LockTypeOK, Labels,
       Unlocked, Waiting, Working, Writing, Dropping, Sweeping, MetaGone
  <1>3. LockAt(c)'
    BY DEF CallInv, CallTypeOK, CallsHold, LockAt, RemoveMeta, Holding, Goto, lockVars, LockTypeOK,
       Unlocked, Waiting, Working, Writing, Dropping
  <1>4. OpAt(c)'
    BY <1>1 DEF CallInv, CallTypeOK, CallsHold, OpAt, Edited, RequestSame, RemoveMeta, Holding,
       Goto, Calling, Writing, Sweeping, MetaGone, BucketOps, ObjectOps
  <1> QED
    BY <1>1, <1>2, <1>3, <1>4 DEF Walks

LEMMA RemoveDataWalks ==
    ASSUME NEW c \in Callers, ObjectStoreAssumption, LockTypeOK, CallInv, RemoveData(c)
    PROVE  Walks(c) /\ Edited(c)
  <1>1. Edited(c)
    BY DEF Edited, OthersSame, RequestSame, FoundSame, CallInv, CallTypeOK, CallsTyped, RemoveData
  <1>2. CallTypeOK' /\ Frame(c)
    BY <1>1 DEF CallInv, CallTypeOK, CallsTyped, CallsHold, OpAt, Edited, OthersSame, Frame,
       RemoveData, Holding, Goto, lockVars, diskVars, DiskSame, Calling, LockTypeOK, RemovedData,
       Labels, Unlocked, Waiting, Working, Writing, Dropping, Sweeping, MetaGone
  <1>3. LockAt(c)'
    BY DEF CallInv, CallTypeOK, CallsHold, LockAt, RemoveData, Holding, Goto, lockVars, LockTypeOK,
       RemovedData, Unlocked, Waiting, Working, Writing, Dropping
  <1>4. OpAt(c)'
    BY <1>1 DEF CallInv, CallTypeOK, CallsHold, OpAt, Edited, RequestSame, RemoveData, Holding,
       Goto, Calling, RemovedData, Writing, Sweeping, MetaGone, BucketOps, ObjectOps
  <1> QED
    BY <1>1, <1>2, <1>3, <1>4 DEF Walks

LEMMA CheckKeyWalks ==
    ASSUME NEW c \in Callers, ObjectStoreAssumption, LockTypeOK, CallInv, CheckKey(c)
    PROVE  Walks(c) /\ Edited(c)
  <1>1. Edited(c)
    BY AnswersEdits, RemembersEdits DEF Edited, OthersSame, RequestSame, FoundSame, CallInv,
       CallTypeOK, CallsTyped, CheckKey, Peek, Told, MetaOf
  <1>2. CallTypeOK' /\ Frame(c)
    BY <1>1 DEF CallInv, CallTypeOK, CallsTyped, CallsHold, OpAt, Edited, OthersSame, Frame,
       CheckKey, Holding, Goto, lockVars, diskVars, DiskSame, Calling, LockTypeOK, Peek, Labels,
       Unlocked, Waiting, Working, Writing, Dropping, Sweeping, MetaGone
  <1>3. LockAt(c)'
    BY DEF CallInv, CallTypeOK, CallsHold, LockAt, CheckKey, Holding, Goto, lockVars, LockTypeOK,
       Peek, Unlocked, Waiting, Working, Writing, Dropping
  <1>4. OpAt(c)'
    <2>1. pc'[c] \in {"stat", "restat"} => call'[c].prev \in DataFiles
      BY RemembersEdits DEF CheckKey, Peek, Goto, MetaOf, CallInv, CallTypeOK, CallsTyped
    <2> QED
      BY <1>1, <2>1 DEF CallInv, CallTypeOK, CallsHold, OpAt, Edited, RequestSame, CheckKey,
         Holding, Goto, Calling, Peek, Writing, Sweeping, MetaGone, BucketOps, ObjectOps
  <1> QED
    BY <1>1, <1>2, <1>3, <1>4 DEF Walks

LEMMA StatDataWalks ==
    ASSUME NEW c \in Callers, ObjectStoreAssumption, LockTypeOK, CallInv, StatData(c)
    PROVE  Walks(c) /\ Edited(c)
  <1>1. Edited(c)
    BY AnswersEdits DEF Edited, OthersSame, RequestSame, FoundSame, CallInv, CallTypeOK,
       CallsTyped, StatData, Told, CallsHold, OpAt
  <1>2. CallTypeOK' /\ Frame(c)
    BY <1>1 DEF CallInv, CallTypeOK, CallsTyped, CallsHold, OpAt, Edited, OthersSame, Frame,
       StatData, Holding, Goto, lockVars, diskVars, DiskSame, Calling, LockTypeOK, LockThen, Phase,
       Labels, Unlocked, Waiting, Working, Writing, Dropping, Sweeping, MetaGone
  <1>3. LockAt(c)'
    BY DEF CallInv, CallTypeOK, CallsHold, LockAt, StatData, Holding, Goto, lockVars, LockTypeOK,
       LockThen, Phase, Unlocked, Waiting, Working, Writing, Dropping
  <1>4. OpAt(c)'
    BY <1>1 DEF CallInv, CallTypeOK, CallsHold, OpAt, Edited, RequestSame, StatData, Holding, Goto,
       Calling, LockThen, Phase, Writing, Sweeping, MetaGone, BucketOps, ObjectOps
  <1> QED
    BY <1>1, <1>2, <1>3, <1>4 DEF Walks

LEMMA RecheckWalks ==
    ASSUME NEW c \in Callers, ObjectStoreAssumption, LockTypeOK, CallInv, Recheck(c)
    PROVE  Walks(c) /\ Edited(c)
  <1>1. Edited(c)
    BY AnswersEdits, RemembersEdits DEF Edited, OthersSame, RequestSame, FoundSame, CallInv,
       CallTypeOK, CallsTyped, Recheck, Peek, Told, MetaOf
  <1>2. CallTypeOK' /\ Frame(c)
    BY <1>1 DEF CallInv, CallTypeOK, CallsTyped, CallsHold, OpAt, Edited, OthersSame, Frame,
       Recheck, Holding, Goto, lockVars, diskVars, DiskSame, Calling, LockTypeOK, Peek, Labels,
       Unlocked, Waiting, Working, Writing, Dropping, Sweeping, MetaGone
  <1>3. LockAt(c)'
    BY DEF CallInv, CallTypeOK, CallsHold, LockAt, Recheck, Holding, Goto, lockVars, LockTypeOK,
       Peek, Unlocked, Waiting, Working, Writing, Dropping
  <1>4. OpAt(c)'
    <2>1. pc'[c] \in {"stat", "restat"} => call'[c].prev \in DataFiles
      BY RemembersEdits DEF Recheck, Peek, Goto, MetaOf, CallInv, CallTypeOK, CallsTyped
    <2> QED
      BY <1>1, <2>1 DEF CallInv, CallTypeOK, CallsHold, OpAt, Edited, RequestSame, Recheck,
         Holding, Goto, Calling, Peek, Writing, Sweeping, MetaGone, BucketOps, ObjectOps
  <1> QED
    BY <1>1, <1>2, <1>3, <1>4 DEF Walks

LEMMA RestatDataWalks ==
    ASSUME NEW c \in Callers, ObjectStoreAssumption, LockTypeOK, CallInv, RestatData(c)
    PROVE  Walks(c) /\ Edited(c)
  <1>1. Edited(c)
    BY AnswersEdits DEF Edited, OthersSame, RequestSame, FoundSame, CallInv, CallTypeOK,
       CallsTyped, RestatData, Holding, Told, CallsHold, OpAt
  <1>2. CallTypeOK' /\ Frame(c)
    BY <1>1 DEF CallInv, CallTypeOK, CallsTyped, CallsHold, OpAt, Edited, OthersSame, Frame,
       RestatData, Holding, Goto, lockVars, diskVars, DiskSame, Calling, LockTypeOK, LockThen,
       Phase, Labels, Unlocked, Waiting, Working, Writing, Dropping, Sweeping, MetaGone
  <1>3. LockAt(c)'
    BY DEF CallInv, CallTypeOK, CallsHold, LockAt, RestatData, Holding, Goto, lockVars, LockTypeOK,
       LockThen, Phase, Unlocked, Waiting, Working, Writing, Dropping
  <1>4. OpAt(c)'
    BY <1>1 DEF CallInv, CallTypeOK, CallsHold, OpAt, Edited, RequestSame, RestatData, Holding,
       Goto, Calling, LockThen, Phase, Writing, Sweeping, MetaGone, BucketOps, ObjectOps
  <1> QED
    BY <1>1, <1>2, <1>3, <1>4 DEF Walks

LEMMA LockBucketWalks ==
    ASSUME NEW c \in Callers, ObjectStoreAssumption, LockTypeOK, CallInv, LockBucket(c)
    PROVE  Walks(c) /\ Edited(c)
  <1>1. Edited(c)
    BY AnswersEdits DEF Edited, OthersSame, RequestSame, FoundSame, CallInv, CallTypeOK,
       CallsTyped, LockBucket, Told
  <1>2. CallTypeOK' /\ Frame(c)
    BY <1>1 DEF CallInv, CallTypeOK, CallsTyped, CallsHold, OpAt, Edited, OthersSame, Frame,
       LockBucket, Holding, Goto, lockVars, diskVars, DiskSame, Calling, LockTypeOK, LifecycleFree,
       Labels, Unlocked, Waiting, Working, Writing, Dropping, Sweeping, MetaGone
  <1>3. LockAt(c)'
    BY DEF CallInv, CallTypeOK, CallsHold, LockAt, LockBucket, Holding, Goto, lockVars, LockTypeOK,
       LifecycleFree, Unlocked, Waiting, Working, Writing, Dropping
  <1>4. OpAt(c)'
    BY <1>1 DEF CallInv, CallTypeOK, CallsHold, OpAt, Edited, RequestSame, LockBucket, Holding,
       Goto, Calling, LifecycleFree, Writing, Sweeping, MetaGone, BucketOps, ObjectOps
  <1> QED
    BY <1>1, <1>2, <1>3, <1>4 DEF Walks

LEMMA UnlockBucketWalks ==
    ASSUME NEW c \in Callers, ObjectStoreAssumption, LockTypeOK, CallInv, UnlockBucket(c)
    PROVE  Walks(c) /\ Edited(c)
  <1>1. Edited(c)
    BY DEF Edited, OthersSame, RequestSame, FoundSame, CallInv, CallTypeOK, CallsTyped, UnlockBucket
  <1>2. CallTypeOK' /\ Frame(c)
    BY <1>1 DEF CallInv, CallTypeOK, CallsTyped, CallsHold, OpAt, Edited, OthersSame, Frame,
       UnlockBucket, Holding, Goto, lockVars, diskVars, DiskSame, Calling, LockTypeOK, Labels,
       Unlocked, Waiting, Working, Writing, Dropping, Sweeping, MetaGone
  <1>3. LockAt(c)'
    BY DEF CallInv, CallTypeOK, CallsHold, LockAt, UnlockBucket, Holding, Goto, lockVars,
       LockTypeOK, Unlocked, Waiting, Working, Writing, Dropping
  <1>4. OpAt(c)'
    BY <1>1 DEF CallInv, CallTypeOK, CallsHold, OpAt, Edited, RequestSame, UnlockBucket, Holding,
       Goto, Calling, Writing, Sweeping, MetaGone, BucketOps, ObjectOps
  <1> QED
    BY <1>1, <1>2, <1>3, <1>4 DEF Walks

LEMMA WriteBucketNameWalks ==
    ASSUME NEW c \in Callers, ObjectStoreAssumption, LockTypeOK, CallInv, WriteBucketName(c)
    PROVE  Walks(c) /\ Edited(c)
  <1>1. Edited(c)
    BY DEF Edited, OthersSame, RequestSame, FoundSame, CallInv, CallTypeOK, CallsTyped,
       WriteBucketName, CallSame
  <1>2. CallTypeOK' /\ Frame(c)
    BY <1>1 DEF CallInv, CallTypeOK, CallsTyped, CallsHold, OpAt, Edited, OthersSame, Frame,
       WriteBucketName, Holding, Goto, lockVars, diskVars, DiskSame, Calling, LockTypeOK, CallSame,
       Labels, Unlocked, Waiting, Working, Writing, Dropping, Sweeping, MetaGone
  <1>3. LockAt(c)'
    BY DEF CallInv, CallTypeOK, CallsHold, LockAt, WriteBucketName, Holding, Goto, lockVars,
       LockTypeOK, CallSame, Unlocked, Waiting, Working, Writing, Dropping
  <1>4. OpAt(c)'
    BY <1>1 DEF CallInv, CallTypeOK, CallsHold, OpAt, Edited, RequestSame, WriteBucketName,
       Holding, Goto, Calling, CallSame, Writing, Sweeping, MetaGone, BucketOps, ObjectOps
  <1> QED
    BY <1>1, <1>2, <1>3, <1>4 DEF Walks

LEMMA SweepWalks ==
    ASSUME NEW c \in Callers, ObjectStoreAssumption, LockTypeOK, CallInv, Sweep(c)
    PROVE  Walks(c) /\ Edited(c)
  <1>1. Edited(c)
    BY ToDoEdits DEF Edited, OthersSame, RequestSame, FoundSame, CallInv, CallTypeOK, CallsTyped,
       Sweep, Entries
  <1>2. CallTypeOK' /\ Frame(c)
    BY <1>1 DEF CallInv, CallTypeOK, CallsTyped, CallsHold, OpAt, Edited, OthersSame, Frame, Sweep,
       Holding, Goto, lockVars, diskVars, DiskSame, Calling, LockTypeOK, Labels, Unlocked, Waiting,
       Working, Writing, Dropping, Sweeping, MetaGone
  <1>3. LockAt(c)'
    BY DEF CallInv, CallTypeOK, CallsHold, LockAt, Sweep, Holding, Goto, lockVars, LockTypeOK,
       Unlocked, Waiting, Working, Writing, Dropping
  <1>4. OpAt(c)'
    BY <1>1 DEF CallInv, CallTypeOK, CallsHold, OpAt, Edited, RequestSame, Sweep, Holding, Goto,
       Calling, Writing, Sweeping, MetaGone, BucketOps, ObjectOps
  <1> QED
    BY <1>1, <1>2, <1>3, <1>4 DEF Walks

LEMMA ClassifyWalks ==
    ASSUME NEW c \in Callers, ObjectStoreAssumption, LockTypeOK, CallInv, Classify(c)
    PROVE  Walks(c) /\ Edited(c)
  <1>1. Edited(c)
    BY DEF Edited, OthersSame, RequestSame, FoundSame, CallInv, CallTypeOK, CallsTyped, Classify,
       CallSame
  <1>2. CallTypeOK' /\ Frame(c)
    BY <1>1 DEF CallInv, CallTypeOK, CallsTyped, CallsHold, OpAt, Edited, OthersSame, Frame,
       Classify, Holding, Goto, lockVars, diskVars, DiskSame, Calling, LockTypeOK, LockThen, Phase,
       CallSame, Labels, Unlocked, Waiting, Working, Writing, Dropping, Sweeping, MetaGone
  <1>3. LockAt(c)'
    BY DEF CallInv, CallTypeOK, CallsHold, LockAt, Classify, Holding, Goto, lockVars, LockTypeOK,
       LockThen, Phase, CallSame, Unlocked, Waiting, Working, Writing, Dropping
  <1>4. OpAt(c)'
    BY <1>1 DEF CallInv, CallTypeOK, CallsHold, OpAt, Edited, RequestSame, Classify, Holding, Goto,
       Calling, LockThen, Phase, CallSame, Writing, Sweeping, MetaGone, BucketOps, ObjectOps
  <1> QED
    BY <1>1, <1>2, <1>3, <1>4 DEF Walks

LEMMA LockedStateWalks ==
    ASSUME NEW c \in Callers, ObjectStoreAssumption, LockTypeOK, CallInv, LockedState(c)
    PROVE  Walks(c) /\ Edited(c)
  <1>1. Edited(c)
    BY StateEdits DEF Edited, OthersSame, RequestSame, FoundSame, CallInv, CallTypeOK, CallsTyped,
       LockedState
  <1>2. CallTypeOK' /\ Frame(c)
    BY <1>1 DEF CallInv, CallTypeOK, CallsTyped, CallsHold, OpAt, Edited, OthersSame, Frame,
       LockedState, Holding, Goto, lockVars, diskVars, DiskSame, Calling, LockTypeOK, Labels,
       Unlocked, Waiting, Working, Writing, Dropping, Sweeping, MetaGone
  <1>3. LockAt(c)'
    BY DEF CallInv, CallTypeOK, CallsHold, LockAt, LockedState, Holding, Goto, lockVars,
       LockTypeOK, Unlocked, Waiting, Working, Writing, Dropping
  <1>4. OpAt(c)'
    BY <1>1 DEF CallInv, CallTypeOK, CallsHold, OpAt, Edited, RequestSame, LockedState, Holding,
       Goto, Calling, Writing, Sweeping, MetaGone, BucketOps, ObjectOps
  <1> QED
    BY <1>1, <1>2, <1>3, <1>4 DEF Walks

LEMMA NextDebrisWalks ==
    ASSUME NEW c \in Callers, ObjectStoreAssumption, LockTypeOK, CallInv, NextDebris(c)
    PROVE  Walks(c) /\ Edited(c)
  <1>1. Edited(c)
    BY DEF Edited, OthersSame, RequestSame, FoundSame, CallInv, CallTypeOK, CallsTyped, NextDebris,
       CallSame
  <1>2. CallTypeOK' /\ Frame(c)
    BY <1>1 DEF CallInv, CallTypeOK, CallsTyped, CallsHold, OpAt, Edited, OthersSame, Frame,
       NextDebris, Holding, Goto, lockVars, diskVars, DiskSame, Calling, LockTypeOK, LockThen,
       Phase, CallSame, Labels, Unlocked, Waiting, Working, Writing, Dropping, Sweeping, MetaGone
  <1>3. LockAt(c)'
    BY DEF CallInv, CallTypeOK, CallsHold, LockAt, NextDebris, Holding, Goto, lockVars, LockTypeOK,
       LockThen, Phase, CallSame, Unlocked, Waiting, Working, Writing, Dropping
  <1>4. OpAt(c)'
    BY <1>1 DEF CallInv, CallTypeOK, CallsHold, OpAt, Edited, RequestSame, NextDebris, Holding,
       Goto, Calling, LockThen, Phase, CallSame, Writing, Sweeping, MetaGone, BucketOps, ObjectOps
  <1> QED
    BY <1>1, <1>2, <1>3, <1>4 DEF Walks

LEMMA RemoveDebrisWalks ==
    ASSUME NEW c \in Callers, ObjectStoreAssumption, LockTypeOK, CallInv, RemoveDebris(c)
    PROVE  Walks(c) /\ Edited(c)
  <1>1. Edited(c)
    BY DebrisEdits DEF Edited, OthersSame, RequestSame, FoundSame, CallInv, CallTypeOK, CallsTyped,
       RemoveDebris
  <1>2. CallTypeOK' /\ Frame(c)
    BY <1>1 DEF CallInv, CallTypeOK, CallsTyped, CallsHold, OpAt, Edited, OthersSame, Frame,
       RemoveDebris, Holding, Goto, lockVars, diskVars, DiskSame, Calling, LockTypeOK, Debris,
       Labels, Unlocked, Waiting, Working, Writing, Dropping, Sweeping, MetaGone
  <1>3. LockAt(c)'
    BY DEF CallInv, CallTypeOK, CallsHold, LockAt, RemoveDebris, Holding, Goto, lockVars,
       LockTypeOK, Debris, Unlocked, Waiting, Working, Writing, Dropping
  <1>4. OpAt(c)'
    BY <1>1 DEF CallInv, CallTypeOK, CallsHold, OpAt, Edited, RequestSame, RemoveDebris, Holding,
       Goto, Calling, Debris, Writing, Sweeping, MetaGone, BucketOps, ObjectOps
  <1> QED
    BY <1>1, <1>2, <1>3, <1>4 DEF Walks

LEMMA RemoveMetaDirWalks ==
    ASSUME NEW c \in Callers, ObjectStoreAssumption, LockTypeOK, CallInv, RemoveMetaDir(c)
    PROVE  Walks(c) /\ Edited(c)
  <1>1. Edited(c)
    BY AnswersEdits DEF Edited, OthersSame, RequestSame, FoundSame, CallInv, CallTypeOK,
       CallsTyped, RemoveMetaDir, Told
  <1>2. CallTypeOK' /\ Frame(c)
    BY <1>1 DEF CallInv, CallTypeOK, CallsTyped, CallsHold, OpAt, Edited, OthersSame, Frame,
       RemoveMetaDir, Holding, Goto, lockVars, diskVars, DiskSame, Calling, LockTypeOK, RemoveDir,
       Labels, Unlocked, Waiting, Working, Writing, Dropping, Sweeping, MetaGone
  <1>3. LockAt(c)'
    BY DEF CallInv, CallTypeOK, CallsHold, LockAt, RemoveMetaDir, Holding, Goto, lockVars,
       LockTypeOK, RemoveDir, Unlocked, Waiting, Working, Writing, Dropping
  <1>4. OpAt(c)'
    BY <1>1 DEF CallInv, CallTypeOK, CallsHold, OpAt, Edited, RequestSame, RemoveMetaDir, Holding,
       Goto, Calling, RemoveDir, Writing, Sweeping, MetaGone, BucketOps, ObjectOps
  <1> QED
    BY <1>1, <1>2, <1>3, <1>4 DEF Walks

LEMMA RemoveRecordWalks ==
    ASSUME NEW c \in Callers, ObjectStoreAssumption, LockTypeOK, CallInv, RemoveRecord(c)
    PROVE  Walks(c) /\ Edited(c)
  <1>1. Edited(c)
    BY DEF Edited, OthersSame, RequestSame, FoundSame, CallInv, CallTypeOK, CallsTyped,
       RemoveRecord, CallSame
  <1>2. CallTypeOK' /\ Frame(c)
    BY <1>1 DEF CallInv, CallTypeOK, CallsTyped, CallsHold, OpAt, Edited, OthersSame, Frame,
       RemoveRecord, Holding, Goto, lockVars, diskVars, DiskSame, Calling, LockTypeOK, CallSame,
       Labels, Unlocked, Waiting, Working, Writing, Dropping, Sweeping, MetaGone
  <1>3. LockAt(c)'
    BY DEF CallInv, CallTypeOK, CallsHold, LockAt, RemoveRecord, Holding, Goto, lockVars,
       LockTypeOK, CallSame, Unlocked, Waiting, Working, Writing, Dropping
  <1>4. OpAt(c)'
    BY <1>1 DEF CallInv, CallTypeOK, CallsHold, OpAt, Edited, RequestSame, RemoveRecord, Holding,
       Goto, Calling, CallSame, Writing, Sweeping, MetaGone, BucketOps, ObjectOps
  <1> QED
    BY <1>1, <1>2, <1>3, <1>4 DEF Walks

LEMMA ListDataWalks ==
    ASSUME NEW c \in Callers, ObjectStoreAssumption, LockTypeOK, CallInv, ListData(c)
    PROVE  Walks(c) /\ Edited(c)
  <1>1. Edited(c)
    BY ToDoEdits DEF Edited, OthersSame, RequestSame, FoundSame, CallInv, CallTypeOK, CallsTyped,
       ListData, Files
  <1>2. CallTypeOK' /\ Frame(c)
    BY <1>1 DEF CallInv, CallTypeOK, CallsTyped, CallsHold, OpAt, Edited, OthersSame, Frame,
       ListData, Holding, Goto, lockVars, diskVars, DiskSame, Calling, LockTypeOK, Labels,
       Unlocked, Waiting, Working, Writing, Dropping, Sweeping, MetaGone
  <1>3. LockAt(c)'
    BY DEF CallInv, CallTypeOK, CallsHold, LockAt, ListData, Holding, Goto, lockVars, LockTypeOK,
       Unlocked, Waiting, Working, Writing, Dropping
  <1>4. OpAt(c)'
    BY <1>1 DEF CallInv, CallTypeOK, CallsHold, OpAt, Edited, RequestSame, ListData, Holding, Goto,
       Calling, Writing, Sweeping, MetaGone, BucketOps, ObjectOps
  <1> QED
    BY <1>1, <1>2, <1>3, <1>4 DEF Walks

LEMMA ProbeDataWalks ==
    ASSUME NEW c \in Callers, ObjectStoreAssumption, LockTypeOK, CallInv, ProbeData(c)
    PROVE  Walks(c) /\ Edited(c)
  <1>1. Edited(c)
    BY DEF Edited, OthersSame, RequestSame, FoundSame, CallInv, CallTypeOK, CallsTyped, ProbeData,
       CallSame
  <1>2. CallTypeOK' /\ Frame(c)
    BY <1>1 DEF CallInv, CallTypeOK, CallsTyped, CallsHold, OpAt, Edited, OthersSame, Frame,
       ProbeData, Holding, Goto, lockVars, diskVars, DiskSame, Calling, LockTypeOK, CallSame,
       ProbeOpen, Phase, Labels, Unlocked, Waiting, Working, Writing, Dropping, Sweeping, MetaGone
  <1>3. LockAt(c)'
    BY DEF CallInv, CallTypeOK, CallsHold, LockAt, ProbeData, Holding, Goto, lockVars, LockTypeOK,
       CallSame, ProbeOpen, Phase, Unlocked, Waiting, Working, Writing, Dropping
  <1>4. OpAt(c)'
    BY <1>1 DEF CallInv, CallTypeOK, CallsHold, OpAt, Edited, RequestSame, ProbeData, Holding,
       Goto, Calling, CallSame, ProbeOpen, Phase, Writing, Sweeping, MetaGone, BucketOps, ObjectOps
  <1> QED
    BY <1>1, <1>2, <1>3, <1>4 DEF Walks

LEMMA ProbedDataWalks ==
    ASSUME NEW c \in Callers, ObjectStoreAssumption, LockTypeOK, CallInv, ProbedData(c)
    PROVE  Walks(c) /\ Edited(c)
  <1>1. Edited(c)
    <2>1. CASE ProbeFree(c) /\ UNCHANGED call
      BY <2>1 DEF Edited, OthersSame, RequestSame, CallInv, CallTypeOK, CallsTyped
    <2>2. CASE ToDo(c, call[c].todo \ {NextOf(call[c].todo)})
      BY <2>2, LeftOver DEF Edited, FoundSame, CallInv, CallTypeOK, CallsTyped
    <2> QED
      BY <2>1, <2>2 DEF ProbedData
  <1>2. CallTypeOK' /\ Frame(c)
    BY <1>1 DEF CallInv, CallTypeOK, CallsTyped, CallsHold, OpAt, Edited, OthersSame, Frame,
       ProbedData, Holding, Goto, lockVars, diskVars, DiskSame, Calling, LockTypeOK, ProbeFree,
       ProbeTaken, Phase, CloseFile, Labels, Unlocked, Waiting, Working, Writing, Dropping,
       Sweeping, MetaGone
  <1>3. LockAt(c)'
    BY DEF CallInv, CallTypeOK, CallsHold, LockAt, ProbedData, Holding, Goto, lockVars, LockTypeOK,
       ProbeFree, ProbeTaken, Phase, CloseFile, Unlocked, Waiting, Working, Writing, Dropping
  <1>4. OpAt(c)'
    BY <1>1 DEF CallInv, CallTypeOK, CallsHold, OpAt, Edited, RequestSame, ProbedData, Holding,
       Goto, Calling, ProbeFree, ProbeTaken, Phase, CloseFile, Writing, Sweeping, MetaGone,
       BucketOps, ObjectOps
  <1> QED
    BY <1>1, <1>2, <1>3, <1>4 DEF Walks

LEMMA RemoveLeftDataWalks ==
    ASSUME NEW c \in Callers, ObjectStoreAssumption, LockTypeOK, CallInv, RemoveLeftData(c)
    PROVE  Walks(c) /\ Edited(c)
  <1>1. Edited(c)
    <2>1. ToDo(c, call[c].todo \ {NextOf(call[c].todo)})
      BY DEF RemoveLeftData
    <2> QED
      BY <2>1, LeftOver DEF Edited, FoundSame, CallInv, CallTypeOK, CallsTyped
  <1>2. CallTypeOK' /\ Frame(c)
    BY <1>1 DEF CallInv, CallTypeOK, CallsTyped, CallsHold, OpAt, Edited, OthersSame, Frame,
       RemoveLeftData, Holding, Goto, lockVars, diskVars, DiskSame, Calling, LockTypeOK, Labels,
       Unlocked, Waiting, Working, Writing, Dropping, Sweeping, MetaGone
  <1>3. LockAt(c)'
    BY DEF CallInv, CallTypeOK, CallsHold, LockAt, RemoveLeftData, Holding, Goto, lockVars,
       LockTypeOK, Unlocked, Waiting, Working, Writing, Dropping
  <1>4. OpAt(c)'
    BY <1>1 DEF CallInv, CallTypeOK, CallsHold, OpAt, Edited, RequestSame, RemoveLeftData, Holding,
       Goto, Calling, Writing, Sweeping, MetaGone, BucketOps, ObjectOps
  <1> QED
    BY <1>1, <1>2, <1>3, <1>4 DEF Walks

LEMMA RemoveObjectsDirWalks ==
    ASSUME NEW c \in Callers, ObjectStoreAssumption, LockTypeOK, CallInv, RemoveObjectsDir(c)
    PROVE  Walks(c) /\ Edited(c)
  <1>1. Edited(c)
    BY DEF Edited, OthersSame, RequestSame, FoundSame, CallInv, CallTypeOK, CallsTyped,
       RemoveObjectsDir
  <1>2. CallTypeOK' /\ Frame(c)
    BY <1>1 DEF CallInv, CallTypeOK, CallsTyped, CallsHold, OpAt, Edited, OthersSame, Frame,
       RemoveObjectsDir, Holding, Goto, lockVars, diskVars, DiskSame, Calling, LockTypeOK,
       RemoveDir, Labels, Unlocked, Waiting, Working, Writing, Dropping, Sweeping, MetaGone
  <1>3. LockAt(c)'
    BY DEF CallInv, CallTypeOK, CallsHold, LockAt, RemoveObjectsDir, Holding, Goto, lockVars,
       LockTypeOK, RemoveDir, Unlocked, Waiting, Working, Writing, Dropping
  <1>4. OpAt(c)'
    BY <1>1 DEF CallInv, CallTypeOK, CallsHold, OpAt, Edited, RequestSame, RemoveObjectsDir,
       Holding, Goto, Calling, RemoveDir, Writing, Sweeping, MetaGone, BucketOps, ObjectOps
  <1> QED
    BY <1>1, <1>2, <1>3, <1>4 DEF Walks

LEMMA ListLocksWalks ==
    ASSUME NEW c \in Callers, ObjectStoreAssumption, LockTypeOK, CallInv, ListLocks(c)
    PROVE  Walks(c) /\ Edited(c)
  <1>1. Edited(c)
    BY DEF Edited, OthersSame, RequestSame, FoundSame, CallInv, CallTypeOK, CallsTyped, ListLocks,
       CallSame
  <1>2. CallTypeOK' /\ Frame(c)
    BY <1>1 DEF CallInv, CallTypeOK, CallsTyped, CallsHold, OpAt, Edited, OthersSame, Frame,
       ListLocks, Holding, Goto, lockVars, diskVars, DiskSame, Calling, LockTypeOK, CallSame,
       Labels, Unlocked, Waiting, Working, Writing, Dropping, Sweeping, MetaGone
  <1>3. LockAt(c)'
    BY DEF CallInv, CallTypeOK, CallsHold, LockAt, ListLocks, Holding, Goto, lockVars, LockTypeOK,
       CallSame, Unlocked, Waiting, Working, Writing, Dropping
  <1>4. OpAt(c)'
    BY <1>1 DEF CallInv, CallTypeOK, CallsHold, OpAt, Edited, RequestSame, ListLocks, Holding,
       Goto, Calling, CallSame, Writing, Sweeping, MetaGone, BucketOps, ObjectOps
  <1> QED
    BY <1>1, <1>2, <1>3, <1>4 DEF Walks

LEMMA ProbeLockWalks ==
    ASSUME NEW c \in Callers, ObjectStoreAssumption, LockTypeOK, CallInv, ProbeLock(c)
    PROVE  Walks(c) /\ Edited(c)
  <1>1. Edited(c)
    BY DEF Edited, OthersSame, RequestSame, FoundSame, CallInv, CallTypeOK, CallsTyped, ProbeLock,
       CallSame
  <1>2. CallTypeOK' /\ Frame(c)
    BY <1>1 DEF CallInv, CallTypeOK, CallsTyped, CallsHold, OpAt, Edited, OthersSame, Frame,
       ProbeLock, Holding, Goto, lockVars, diskVars, DiskSame, Calling, LockTypeOK, CallSame,
       ProbeOpen, Phase, Labels, Unlocked, Waiting, Working, Writing, Dropping, Sweeping, MetaGone
  <1>3. LockAt(c)'
    BY DEF CallInv, CallTypeOK, CallsHold, LockAt, ProbeLock, Holding, Goto, lockVars, LockTypeOK,
       CallSame, ProbeOpen, Phase, Unlocked, Waiting, Working, Writing, Dropping
  <1>4. OpAt(c)'
    BY <1>1 DEF CallInv, CallTypeOK, CallsHold, OpAt, Edited, RequestSame, ProbeLock, Holding,
       Goto, Calling, CallSame, ProbeOpen, Phase, Writing, Sweeping, MetaGone, BucketOps, ObjectOps
  <1> QED
    BY <1>1, <1>2, <1>3, <1>4 DEF Walks

LEMMA ProbedLockWalks ==
    ASSUME NEW c \in Callers, ObjectStoreAssumption, LockTypeOK, CallInv, ProbedLock(c)
    PROVE  Walks(c) /\ Edited(c)
  <1>1. Edited(c)
    BY DEF Edited, OthersSame, RequestSame, FoundSame, CallInv, CallTypeOK, CallsTyped, ProbedLock,
       CallSame
  <1>2. CallTypeOK' /\ Frame(c)
    BY <1>1 DEF CallInv, CallTypeOK, CallsTyped, CallsHold, OpAt, Edited, OthersSame, Frame,
       ProbedLock, Holding, Goto, lockVars, diskVars, DiskSame, Calling, LockTypeOK, CallSame,
       ProbeFree, ProbeTaken, Phase, CloseFile, Labels, Unlocked, Waiting, Working, Writing,
       Dropping, Sweeping, MetaGone
  <1>3. LockAt(c)'
    BY DEF CallInv, CallTypeOK, CallsHold, LockAt, ProbedLock, Holding, Goto, lockVars, LockTypeOK,
       CallSame, ProbeFree, ProbeTaken, Phase, CloseFile, Unlocked, Waiting, Working, Writing,
       Dropping
  <1>4. OpAt(c)'
    BY <1>1 DEF CallInv, CallTypeOK, CallsHold, OpAt, Edited, RequestSame, ProbedLock, Holding,
       Goto, Calling, CallSame, ProbeFree, ProbeTaken, Phase, CloseFile, Writing, Sweeping,
       MetaGone, BucketOps, ObjectOps
  <1> QED
    BY <1>1, <1>2, <1>3, <1>4 DEF Walks

LEMMA GiveUpFreeLockWalks ==
    ASSUME NEW c \in Callers, ObjectStoreAssumption, LockTypeOK, CallInv, GiveUpFreeLock(c)
    PROVE  Walks(c) /\ Edited(c)
  <1>1. Edited(c)
    BY DEF Edited, OthersSame, RequestSame, FoundSame, CallInv, CallTypeOK, CallsTyped,
       GiveUpFreeLock, RemoveLockFile, CloseLockFile, CallSame
  <1>2. CallTypeOK' /\ Frame(c)
    BY <1>1 DEF CallInv, CallTypeOK, CallsTyped, CallsHold, OpAt, Edited, OthersSame, Frame,
       GiveUpFreeLock, Holding, Goto, lockVars, diskVars, DiskSame, Calling, LockTypeOK,
       RemoveLockFile, CloseLockFile, CallSame, Unlink, CloseUnlinked, Phase, CloseFile, Labels,
       Unlocked, Waiting, Working, Writing, Dropping, Sweeping, MetaGone
  <1>3. LockAt(c)'
    BY DEF CallInv, CallTypeOK, CallsHold, LockAt, GiveUpFreeLock, Holding, Goto, lockVars,
       LockTypeOK, RemoveLockFile, CloseLockFile, CallSame, Unlink, CloseUnlinked, Phase,
       CloseFile, Unlocked, Waiting, Working, Writing, Dropping
  <1>4. OpAt(c)'
    BY <1>1 DEF CallInv, CallTypeOK, CallsHold, OpAt, Edited, RequestSame, GiveUpFreeLock, Holding,
       Goto, Calling, RemoveLockFile, CloseLockFile, CallSame, Unlink, CloseUnlinked, Phase,
       CloseFile, Writing, Sweeping, MetaGone, BucketOps, ObjectOps
  <1> QED
    BY <1>1, <1>2, <1>3, <1>4 DEF Walks

LEMMA RemoveLocksDirWalks ==
    ASSUME NEW c \in Callers, ObjectStoreAssumption, LockTypeOK, CallInv, RemoveLocksDir(c)
    PROVE  Walks(c) /\ Edited(c)
  <1>1. Edited(c)
    BY AnswersEdits DEF Edited, OthersSame, RequestSame, FoundSame, CallInv, CallTypeOK,
       CallsTyped, RemoveLocksDir, Told
  <1>2. CallTypeOK' /\ Frame(c)
    <2>1. dirs' \in SUBSET AllDirs /\ open' \in [Callers -> SUBSET AllDirs]
      BY DEF CallInv, CallTypeOK, RemoveLocksDir, RemoveDir
    <2> QED
      BY <1>1, <2>1 DEF CallInv, CallTypeOK, CallsTyped, CallsHold, OpAt, Edited, OthersSame,
         Frame, RemoveLocksDir, Goto, lockVars, LockTypeOK, Labels, Unlocked
  <1>3. LockAt(c)'
    BY DEF CallInv, CallTypeOK, CallsHold, LockAt, RemoveLocksDir, Holding, Goto, lockVars,
       LockTypeOK, RemoveDir, AllDirs, Unlocked, Waiting, Working, Writing, Dropping
  <1>4. OpAt(c)'
    BY <1>1 DEF CallInv, CallTypeOK, CallsHold, OpAt, Edited, RequestSame, RemoveLocksDir, Holding,
       Goto, Calling, RemoveDir, AllDirs, Writing, Sweeping, MetaGone, BucketOps, ObjectOps
  <1> QED
    BY <1>1, <1>2, <1>3, <1>4 DEF Walks

LEMMA ReleaseWithWalks ==
    ASSUME NEW c \in Callers, ObjectStoreAssumption, LockTypeOK, CallInv, ReleaseWith(c)
    PROVE  Walks(c) /\ Edited(c)
  <1>1. Edited(c)
    BY DEF Edited, OthersSame, RequestSame, FoundSame, CallInv, CallTypeOK, CallsTyped,
       ReleaseWith, CallSame
  <1>2. CallTypeOK' /\ Frame(c)
    BY <1>1 DEF CallInv, CallTypeOK, CallsTyped, CallsHold, OpAt, Edited, OthersSame, Frame,
       ReleaseWith, Holding, Goto, lockVars, diskVars, DiskSame, Calling, LockTypeOK, CallSame,
       Release, Unlink, Phase, Labels, Unlocked, Waiting, Working, Writing, Dropping, Sweeping,
       MetaGone
  <1>3. LockAt(c)'
    BY DEF CallInv, CallTypeOK, CallsHold, LockAt, ReleaseWith, Holding, Goto, lockVars,
       LockTypeOK, CallSame, Release, Unlink, Phase, Unlocked, Waiting, Working, Writing, Dropping
  <1>4. OpAt(c)'
    BY <1>1 DEF CallInv, CallTypeOK, CallsHold, OpAt, Edited, RequestSame, ReleaseWith, Holding,
       Goto, Calling, CallSame, Release, Unlink, Phase, Writing, Sweeping, MetaGone, BucketOps,
       ObjectOps
  <1> QED
    BY <1>1, <1>2, <1>3, <1>4 DEF Walks

\* A call that returns.
Gone(c) == pc' = [pc EXCEPT ![c] = "idle"] /\ call'[c] = NoCall /\ OthersSame(c)
Typed == call \in [Callers -> Records] /\ pc \in [Callers -> Labels] /\ open \in [Callers -> SUBSET AllDirs]

LEMMA ReturnsTyped ==
    ASSUME NEW c \in Callers, CallTypeOK, Returns(c)
    PROVE  Gone(c) /\ Typed'
  <1>1. CallsTyped /\ open \in [Callers -> SUBSET AllDirs]
    BY DEF CallTypeOK, CallsTyped
  <1>2. pc' = [pc EXCEPT ![c] = "idle"]
    BY DEF Returns, Goto
  <1> QED
    BY <1>1, <1>2, ReturnsEdits DEF Gone, Typed, CallsTyped, CallTypeOK, Labels, Unlocked

LEMMA FailsTyped ==
    ASSUME NEW c \in Callers, CallTypeOK, Fails(c)
    PROVE  /\ Typed'
           /\ \/ call[c].op \in ObjectOps /\ Gone(c)
              \/ /\ call[c].op \notin ObjectOps /\ pc' = [pc EXCEPT ![c] = "unlock_bucket"]
                 /\ Edited(c) /\ call'[c].answer = "error" /\ open' = open
  <1>1. CASE call[c].op \in ObjectOps
    BY <1>1, ReturnsTyped DEF Fails
  <1>2. CASE call[c].op \notin ObjectOps
    <2>1. Answers(c, "error") /\ pc' = [pc EXCEPT ![c] = "unlock_bucket"] /\ open' = open
      BY <1>2 DEF Fails, Goto
    <2>2. Edited(c) /\ call'[c].answer = "error"
      BY <2>1, AnswersEdits DEF Edited, CallTypeOK, CallsTyped, Told, FoundSame
    <2> QED
      BY <1>2, <2>1, <2>2 DEF Typed, CallTypeOK, Labels, Unlocked, Edited, CallsTyped
  <1> QED
    BY <1>1, <1>2

LEMMA GaveUpTyped ==
    ASSUME NEW c \in Callers, CallTypeOK, GaveUp(c)
    PROVE  /\ Typed'
           /\ \/ call[c].op \in ObjectOps /\ Gone(c)
              \/ /\ call[c].op \notin ObjectOps /\ pc' = [pc EXCEPT ![c] = AfterUnlock(c)]
                 /\ call' = call /\ open' = open
  <1>1. CASE call[c].op \in ObjectOps
    BY <1>1, ReturnsTyped DEF GaveUp
  <1>2. CASE call[c].op \notin ObjectOps
    BY <1>2 DEF GaveUp, Goto, AfterUnlock, Typed, CallTypeOK, Labels, Unlocked
  <1> QED
    BY <1>1, <1>2

LEMMA BeginWalks ==
    ASSUME NEW c \in Callers, ObjectStoreAssumption, LockTypeOK, CallInv, Begin(c)
    PROVE  Walks(c)
  <1>1. PICK r \in Asks[c] :
          /\ call' = [call EXCEPT ![c] = [NoCall EXCEPT !.op = r.op, !.match = r.match]]
          /\ Goto(c, IF r.op \in ObjectOps THEN "open_meta" ELSE "lock_bucket")
    BY DEF Begin
  <1>2. r.op \in ObjectOps \cup BucketOps /\ r.match \in Matches
    BY DEF ObjectStoreAssumption
  <1>3. CallsTyped' /\ OthersSame(c) /\ call'[c].op = r.op
    BY <1>1, <1>2 DEF CallInv, CallTypeOK, CallsTyped, Records, OthersSame, NoCall, Told
  <1>4. calls' \in [Callers -> Nat] /\ \A d \in Callers : calls'[d] <= MaxCalls[d]
    BY DEF CallInv, CallTypeOK, Begin, ObjectStoreAssumption
  <1>5. CallTypeOK' /\ Frame(c)
    BY <1>1, <1>3, <1>4 DEF Begin, Goto, CallInv, CallTypeOK, CallsTyped, OthersSame, Frame,
       lockVars, diskVars, Labels, Unlocked
  <1>6. LockAt(c)' /\ OpAt(c)'
    BY <1>1, <1>2, <1>3 DEF Begin, Goto, CallInv, CallTypeOK, CallsHold, LockAt, OpAt, lockVars,
       Unlocked, Waiting, Working, Writing, Dropping, Sweeping, MetaGone, BucketOps, ObjectOps
  <1> QED
    BY <1>5, <1>6 DEF Walks

LEMMA ReturnWalks ==
    ASSUME NEW c \in Callers, ObjectStoreAssumption, LockTypeOK, CallInv, Return(c)
    PROVE  Walks(c)
  <1>1. Gone(c) /\ Typed'
    BY ReturnsTyped DEF Return, CallInv
  <1>2. CallTypeOK' /\ Frame(c)
    BY <1>1 DEF Gone, Typed, OthersSame, Return, CallInv, CallTypeOK, Frame, lockVars, diskVars
  <1>3. LockAt(c)' /\ OpAt(c)'
    BY <1>1 DEF Gone, Return, CallInv, CallTypeOK, CallsHold, LockAt, OpAt, lockVars, NoCall,
       Unlocked, Waiting, Working, Writing, Dropping, Sweeping, MetaGone, BucketOps, ObjectOps
  <1> QED
    BY <1>2, <1>3 DEF Walks

LEMMA OpenDirsWalks ==
    ASSUME NEW c \in Callers, ObjectStoreAssumption, LockTypeOK, CallInv,
           NEW wanted \in SUBSET AllDirs, NEW here \in {"open_meta", "open_rest"}, NEW next,
           here = "open_meta" => next = "open_rest", here = "open_rest" => next = AfterOpen(c),
           OpenDirs(c, wanted, here, next)
    PROVE  Walks(c)
  <1>1. /\ lk[c] = "idle" /\ call[c].op \in ObjectOps \cup {"delete_bucket"} /\ pc[c] = here
        /\ call[c].op = "delete_bucket" => lifecycle = c
    BY DEF CallInv, CallsHold, LockAt, OpAt, OpenDirs, Unlocked, BucketOps
  <1>2. next = "open_rest" \/ next = AfterOpen(c)
    OBVIOUS
  <1>3. CASE wanted \subseteq dirs
    <2>1. /\ open' = [open EXCEPT ![c] = @ \cup wanted] /\ pc' = [pc EXCEPT ![c] = next]
          /\ call' = call
      BY <1>3 DEF OpenDirs, Goto
    <2>2. next \in Labels
      BY <1>1, <1>2 DEF AfterOpen, ObjectOps, Labels, Unlocked, Waiting, Sweeping
    <2>3. open' \in [Callers -> SUBSET AllDirs]
      BY <2>1 DEF CallInv, CallTypeOK
    <2>4. lk' = IF next \in {"previous", "read", "find"} THEN [lk EXCEPT ![c] = "open"] ELSE lk
      BY <1>3 DEF OpenDirs, Phase, lockVars
    <2>5. CallTypeOK' /\ Frame(c)
      BY <2>1, <2>2, <2>3, <2>4 DEF OpenDirs, CallInv, CallTypeOK, Frame, diskVars, LockTypeOK
    <2>6. LockAt(c)'
      BY <1>1, <1>2, <2>1, <2>4 DEF CallInv, CallTypeOK, LockAt, AfterOpen, LockTypeOK, ObjectOps,
         Unlocked, Waiting, Working, Writing, Dropping
    <2>7. OpAt(c)'
      BY <1>1, <1>2, <2>1 DEF OpenDirs, CallInv, CallTypeOK, OpAt, AfterOpen, ObjectOps, BucketOps,
         Writing, Sweeping, MetaGone
    <2> QED
      BY <2>5, <2>6, <2>7 DEF Walks
  <1>4. CASE ~(wanted \subseteq dirs)
    <2>1. Fails(c) /\ lk' = lk
      BY <1>4 DEF OpenDirs, lockVars
    <2>2. /\ Typed'
          /\ \/ call[c].op \in ObjectOps /\ Gone(c)
             \/ /\ call[c].op \notin ObjectOps /\ pc' = [pc EXCEPT ![c] = "unlock_bucket"]
                /\ Edited(c) /\ call'[c].answer = "error" /\ open' = open
      BY <2>1, FailsTyped DEF CallInv
    <2>3. CallTypeOK' /\ Frame(c)
      BY <2>1, <2>2 DEF OpenDirs, Typed, Gone, Edited, OthersSame, CallInv, CallTypeOK, Frame,
         diskVars
    <2>4. LockAt(c)' /\ OpAt(c)'
      BY <1>1, <2>1, <2>2 DEF OpenDirs, Gone, Edited, RequestSame, CallInv, CallTypeOK, LockAt,
         OpAt,
         NoCall, ObjectOps, BucketOps, Unlocked, Waiting, Working, Writing, Dropping, Sweeping, MetaGone
    <2> QED
      BY <2>3, <2>4 DEF Walks
  <1> QED
    BY <1>3, <1>4

LEMMA OpenBucketWalks ==
    ASSUME NEW c \in Callers, ObjectStoreAssumption, LockTypeOK, CallInv, OpenBucket(c)
    PROVE  Walks(c)
  <1>1. CASE OpenDirs(c, {"meta"}, "open_meta", "open_rest")
    BY <1>1, OpenDirsWalks DEF AllDirs
  <1>2. CASE OpenDirs(c, {"objects", "locks"}, "open_rest", AfterOpen(c))
    BY <1>2, OpenDirsWalks DEF AllDirs
  <1> QED
    BY <1>1, <1>2 DEF OpenBucket

LEMMA LockingWalks ==
    ASSUME NEW c \in Callers, ObjectStoreAssumption, LockTypeOK, CallInv, Locking(c)
    PROVE  Walks(c)
  <1>1. /\ \A d \in Callers \ {c} : lk'[d] = lk[d]
        /\ \/ lk'[c] = lk[c]
           \/ /\ lk[c] \in {"open", "try", "blocked", "check"}
              /\ lk'[c] \in {"open", "try", "blocked", "check", "held", "failed"}
    <2>1. CASE OpenLockFile(c, Here(c, "locks"))
      BY <2>1 DEF LockTypeOK, OpenLockFile, Phase
    <2>2. CASE TryLock(c) \/ Granted(c)
      BY <2>2 DEF LockTypeOK, TryLock, Granted, Phase
    <2>3. CASE CheckCurrent(c, Here(c, "locks"))
      BY <2>3 DEF LockTypeOK, CheckCurrent, Phase
    <2>4. CASE Cancel(c)
      BY <2>4 DEF LockTypeOK, Cancel, Phase
    <2>5. CASE GhostLocks(c) \/ GhostCloses(c)
      BY <2>5 DEF GhostLocks, GhostCloses
    <2> QED
      BY <2>1, <2>2, <2>3, <2>4, <2>5 DEF Locking
  <1>2. CallTypeOK' /\ Frame(c)
    BY <1>1 DEF Locking, CallInv, CallTypeOK, Frame, diskVars, procVars
  <1>3. LockAt(c)'
    BY <1>1 DEF Locking, CallInv, CallTypeOK, CallsHold, LockAt, procVars, Labels,
       Unlocked, Waiting, Working, Writing, Dropping, Sweeping, MetaGone
  <1>4. OpAt(c)'
    BY DEF Locking, CallInv, CallTypeOK, CallsHold, OpAt, procVars
  <1> QED
    BY <1>2, <1>3, <1>4 DEF Walks

LEMMA LockFailedWalks ==
    ASSUME NEW c \in Callers, ObjectStoreAssumption, LockTypeOK, CallInv, LockFailed(c)
    PROVE  Walks(c)
  <1>1. /\ Typed'
        /\ \/ call[c].op \in ObjectOps /\ Gone(c)
           \/ /\ call[c].op \notin ObjectOps /\ pc' = [pc EXCEPT ![c] = "unlock_bucket"]
              /\ Edited(c) /\ call'[c].answer = "error" /\ open' = open
    BY FailsTyped DEF LockFailed, CallInv
  <1>2. lk' = [lk EXCEPT ![c] = "idle"]
    BY DEF LockFailed, Phase
  <1>3. CallTypeOK' /\ Frame(c)
    BY <1>1, <1>2 DEF LockFailed, Typed, Gone, Edited, OthersSame, CallInv, CallTypeOK, Frame,
       diskVars, DiskSame, LockTypeOK
  <1>4. pc[c] \in Waiting
    BY DEF LockFailed, CallInv, CallTypeOK, CallsHold, LockAt, Labels, Unlocked, Waiting, Working,
       Writing, Dropping, Sweeping, MetaGone
  <1>5. call[c].op \in ObjectOps \/ (call[c].op = "delete_bucket" /\ lifecycle = c)
    <2>1. OpAt(c) /\ pc[c] \in {"previous", "read", "find", "recheck", "state", "rm_debris"}
      BY <1>4 DEF CallInv, CallsHold, Waiting
    <2> QED
      BY <2>1 DEF OpAt, Sweeping, BucketOps, ObjectOps
  <1>6. LockAt(c)' /\ OpAt(c)'
    BY <1>1, <1>2, <1>5 DEF LockFailed, Gone, Edited, RequestSame, CallInv, CallTypeOK, LockAt,
       OpAt,
       NoCall, ObjectOps, BucketOps, Unlocked, Waiting, Working, Writing, Dropping, Sweeping,
       MetaGone, LockTypeOK
  <1> QED
    BY <1>3, <1>6 DEF Walks

LEMMA GaveUpWalks ==
    ASSUME NEW c \in Callers, ObjectStoreAssumption, LockTypeOK, CallInv, GaveUp(c),
           pc[c] \in {"unlock", "released"}, lk' = [lk EXCEPT ![c] = "idle"],
           UNCHANGED <<diskVars, lifecycle, calls, crashes>>
    PROVE  Walks(c)
  <1>1. /\ Typed'
        /\ \/ call[c].op \in ObjectOps /\ Gone(c)
           \/ /\ call[c].op \notin ObjectOps /\ pc' = [pc EXCEPT ![c] = AfterUnlock(c)]
              /\ call' = call /\ open' = open
    BY GaveUpTyped DEF CallInv
  <1>2. CallTypeOK' /\ Frame(c)
    BY <1>1 DEF Typed, Gone, OthersSame, CallInv, CallTypeOK, Frame, diskVars, LockTypeOK
  <1>3. call[c].op \in ObjectOps \/ (call[c].op = "delete_bucket" /\ lifecycle = c)
    BY DEF CallInv, CallsHold, OpAt, BucketOps
  <1>4. LockAt(c)' /\ OpAt(c)'
    BY <1>1, <1>3 DEF Gone, AfterUnlock, CallInv, CallTypeOK, LockAt, OpAt, NoCall, ObjectOps,
       BucketOps, Unlocked, Waiting, Working, Writing, Dropping, Sweeping, MetaGone, LockTypeOK
  <1> QED
    BY <1>2, <1>4 DEF Walks

LEMMA UnlockWithWalks ==
    ASSUME NEW c \in Callers, ObjectStoreAssumption, LockTypeOK, CallInv, UnlockWith(c)
    PROVE  Walks(c)
  BY GaveUpWalks DEF UnlockWith, Unlock, Phase, DiskSame

LEMMA ReleasedWalks ==
    ASSUME NEW c \in Callers, ObjectStoreAssumption, LockTypeOK, CallInv, Released(c)
    PROVE  Walks(c)
  BY GaveUpWalks DEF Released, CloseUnlinked, Phase, DiskSame

LEMMA CreateDataFileWalks ==
    ASSUME NEW c \in Callers, ObjectStoreAssumption, LockTypeOK, CallInv, CreateDataFile(c)
    PROVE  Walks(c)
  <1>1. FreshData \in DataFiles
    BY UnusedIsFree DEF CreateDataFile, UnusedData
  <1>2. CallsTyped' /\ OthersSame(c) /\ RequestSame(c) /\ (pc'[c] = "copy" => call'[c].mine = FreshData)
    <2>1. CASE Here(c, "objects")
      <3>1. call' = [call EXCEPT ![c].mine = FreshData]
        BY <2>1 DEF CreateDataFile
      <3>2. call \in [Callers -> Records]
        BY DEF CallInv, CallTypeOK
      <3>3. call' \in [Callers -> Records]
        BY <1>1, <3>1, <3>2 DEF Records
      <3> QED
        BY <3>1, <3>2, <3>3 DEF CallsTyped, Records, OthersSame, RequestSame
    <2>2. CASE ~Here(c, "objects")
      BY <2>2, AnswersEdits DEF CreateDataFile, Goto, CallInv, CallTypeOK, CallsTyped, Told
    <2> QED
      BY <2>1, <2>2
  <1>3. data' \in [DataFiles -> {"none", "partial", "whole"}]
    BY <1>1 DEF CreateDataFile, CallInv, CallTypeOK
  <1>4. CallTypeOK' /\ Frame(c)
    BY <1>2, <1>3 DEF CreateDataFile, Goto, CallInv, CallTypeOK, CallsTyped, OthersSame, Frame,
       Holding, Calling, lockVars, Labels, Working, Writing
  <1>5. LockAt(c)' /\ OpAt(c)'
    BY <1>1, <1>2 DEF CreateDataFile, Goto, Holding, CallInv, CallTypeOK, CallsHold, LockAt, OpAt,
       RequestSame, Calling, lockVars, ObjectOps, BucketOps, Unlocked, Waiting, Working, Writing,
       Dropping, Sweeping, MetaGone
  <1> QED
    BY <1>4, <1>5 DEF Walks

LEMMA FinishCreateWalks ==
    ASSUME NEW c \in Callers, ObjectStoreAssumption, LockTypeOK, CallInv, FinishCreate(c)
    PROVE  Walks(c)
  <1>1. call[c].op = "put" /\ lk[c] = "held"
    BY DEF FinishCreate, CallInv, CallsHold, LockAt, OpAt, Working
  <1>2. CASE Release(c, Here(c, "locks")) /\ Goto(c, "released") /\ UNCHANGED <<open, call>>
    <2>1. CallTypeOK' /\ Frame(c)
      BY <1>2 DEF FinishCreate, Release, Unlink, Phase, Goto, CallInv, CallTypeOK, Frame, diskVars,
         DiskSame, LockTypeOK, Labels, Dropping
    <2>2. LockAt(c)' /\ OpAt(c)'
      BY <1>1, <1>2 DEF FinishCreate, Release, Unlink, Phase, Goto, CallInv, CallTypeOK, CallsHold,
         LockAt, OpAt, LockTypeOK, ObjectOps, BucketOps, Unlocked, Waiting, Working, Writing, Dropping,
         Sweeping, MetaGone
    <2> QED
      BY <2>1, <2>2 DEF Walks
  <1>3. CASE Unlock(c) /\ Returns(c)
    <2>1. Gone(c) /\ Typed' /\ lk' = [lk EXCEPT ![c] = "idle"]
      BY <1>3, ReturnsTyped DEF Unlock, Phase, CallInv
    <2>2. CallTypeOK' /\ Frame(c)
      BY <2>1 DEF FinishCreate, Gone, Typed, OthersSame, CallInv, CallTypeOK, Frame, diskVars,
         DiskSame, LockTypeOK
    <2>3. LockAt(c)' /\ OpAt(c)'
      BY <2>1 DEF Gone, CallInv, CallTypeOK, LockAt, OpAt, NoCall, LockTypeOK, ObjectOps, BucketOps,
         Unlocked, Waiting, Working, Writing, Dropping, Sweeping, MetaGone
    <2> QED
      BY <2>2, <2>3 DEF Walks
  <1> QED
    BY <1>2, <1>3 DEF FinishCreate

LEMMA CrashWalks ==
    ASSUME NEW c \in Callers, ObjectStoreAssumption, LockTypeOK, CallInv, Crash(c)
    PROVE  Walks(c)
  <1>1. Gone(c) /\ Typed'
    BY ReturnsTyped DEF Crash, Returns, CallInv
  <1>2. crashes' \in 0..MaxCrashes /\ lifecycle' \in Callers \cup {None} /\ lifecycle' # c
    BY DEF Crash, CallInv, CallTypeOK, ObjectStoreAssumption
  <1>3. CallTypeOK' /\ Frame(c) /\ lk'[c] = "idle"
    BY <1>1, <1>2 DEF Crash, CrashLock, Gone, Typed, OthersSame, CallInv, CallTypeOK, Frame,
       diskVars,
       LockTypeOK
  <1>4. LockAt(c)' /\ OpAt(c)'
    BY <1>1, <1>3 DEF Gone, CallInv, CallTypeOK, LockAt, OpAt, NoCall, ObjectOps, BucketOps,
       Unlocked,
       Waiting, Working, Writing, Dropping, Sweeping, MetaGone
  <1> QED
    BY <1>3, <1>4 DEF Walks

LEMMA MakeDirWalks ==
    ASSUME NEW c \in Callers, ObjectStoreAssumption, LockTypeOK, CallInv, NEW dir \in AllDirs,
           NEW here \in {"mk_objects", "mk_locks", "mk_meta"},
           NEW next \in {"mk_locks", "mk_record", "unlock_bucket"}, MakeDir(c, dir, here, next)
    PROVE  Walks(c)
  <1>1. dirs' \in SUBSET AllDirs
    BY DEF MakeDir, CallInv, CallTypeOK
  <1>2. CallTypeOK' /\ Frame(c)
    BY <1>1 DEF MakeDir, Goto, CallSame, CallInv, CallTypeOK, Frame, lockVars, Labels, Unlocked
  <1>3. call[c].op = "create_bucket" /\ lifecycle = c /\ lk[c] = "idle"
    BY DEF MakeDir, CallInv, CallsHold, LockAt, OpAt, BucketOps, Unlocked
  <1>4. LockAt(c)' /\ OpAt(c)'
    BY <1>3 DEF MakeDir, Goto, CallSame, CallInv, CallTypeOK, LockAt, OpAt, lockVars, ObjectOps,
       BucketOps, Unlocked, Waiting, Working, Writing, Dropping, Sweeping, MetaGone
  <1> QED
    BY <1>2, <1>4 DEF Walks

LEMMA CreateBucketWalks ==
    ASSUME NEW c \in Callers, ObjectStoreAssumption, LockTypeOK, CallInv, CreateBucket(c)
    PROVE  Walks(c)
  BY MakeDirWalks, WriteBucketNameWalks DEF CreateBucket, AllDirs

\* A step of c.
Step(c) ==
    \/ Begin(c) \/ Return(c) \/ OpenBucket(c)
    \/ Locking(c) \/ LockFailed(c) \/ UnlockWith(c) \/ ReleaseWith(c) \/ Released(c)
    \/ CreateObject(c) \/ OpenObject(c) \/ DeleteObject(c) \/ Keys(c)
    \/ LockBucket(c) \/ UnlockBucket(c) \/ CreateBucket(c) \/ DeleteBucket(c)
    \/ Crash(c)

LEMMA StepWalks ==
    ASSUME NEW c \in Callers, ObjectStoreAssumption, LockTypeOK, CallInv, Step(c)
    PROVE  Walks(c)
  <1>1. CASE Begin(c) \/ Return(c) \/ OpenBucket(c)
    BY <1>1, BeginWalks, ReturnWalks, OpenBucketWalks
  <1>2. CASE Locking(c) \/ LockFailed(c) \/ UnlockWith(c) \/ ReleaseWith(c) \/ Released(c)
    BY <1>2, LockingWalks, LockFailedWalks, UnlockWithWalks, ReleaseWithWalks, ReleasedWalks
  <1>3. CASE CreateObject(c)
    BY <1>3, PreviousDataFileWalks, CreateDataFileWalks, CopyBodyWalks, WriteTempWalks, RenameWalks,
       RemovePreviousWalks, DiscardWalks, FinishCreateWalks DEF CreateObject
  <1>4. CASE OpenObject(c) \/ DeleteObject(c)
    BY <1>4, ReadMetaWalks, OpenDataWalks, FindObjectWalks, RemoveMetaWalks, RemoveDataWalks
       DEF OpenObject, DeleteObject
  <1>5. CASE Keys(c)
    BY <1>5, CheckKeyWalks, StatDataWalks, RecheckWalks, RestatDataWalks DEF Keys
  <1>6. CASE LockBucket(c) \/ UnlockBucket(c) \/ CreateBucket(c) \/ Crash(c)
    BY <1>6, LockBucketWalks, UnlockBucketWalks, CreateBucketWalks, CrashWalks
  <1>7. CASE DeleteBucket(c)
    BY <1>7, SweepWalks, ClassifyWalks, LockedStateWalks, NextDebrisWalks, RemoveDebrisWalks,
       RemoveMetaDirWalks, RemoveRecordWalks, ListDataWalks, ProbeDataWalks, ProbedDataWalks,
       RemoveLeftDataWalks, RemoveObjectsDirWalks, ListLocksWalks, ProbeLockWalks, ProbedLockWalks,
       GiveUpFreeLockWalks, RemoveLocksDirWalks DEF DeleteBucket
  <1> QED
    BY <1>1, <1>2, <1>3, <1>4, <1>5, <1>6, <1>7 DEF Step

LEMMA CallsHoldKept ==
    ASSUME NEW c \in Callers, ObjectStoreAssumption, LockTypeOK, CallInv, Step(c)
    PROVE  CallTypeOK' /\ CallsHold' /\ Frame(c)
  <1>1. Walks(c)
    BY StepWalks
  <1>2. ASSUME NEW d \in Callers, d # c
        PROVE  LockAt(d)' /\ OpAt(d)'
    <2>1. pc'[d] = pc[d] /\ lk'[d] = lk[d] /\ call'[d] = call[d]
      BY <1>1, <1>2 DEF Walks, Frame
    <2>2. lifecycle = d => lifecycle' = d
      BY <1>1, <1>2 DEF Walks, Frame, ObjectStoreAssumption
    <2> QED
      BY <2>1, <2>2 DEF CallInv, CallsHold, LockAt, OpAt
  <1> QED
    BY <1>1, <1>2 DEF Walks, CallsHold

\* What a step does to the lock.
LockMoves(c) ==
    \/ UNCHANGED lockVars
    \/ /\ lk[c] \in {"idle", "failed"} /\ (Phase(c, "open") \/ Phase(c, "idle"))
       /\ UNCHANGED <<linked, file, ghost, granted>>
    \/ OpenLockFile(c, Here(c, "locks")) \/ TryLock(c) \/ Granted(c)
    \/ CheckCurrent(c, Here(c, "locks")) \/ Cancel(c) \/ GhostLocks(c) \/ GhostCloses(c)
    \/ Unlock(c) \/ CloseUnlinked(c) \/ ProbeTaken(c) \/ CrashLock(c)
    \/ Release(c, Here(c, "locks"))
    \/ lk[c] = "free" /\ Unlink(c, TRUE)
    \/ lk[c] = "idle" /\ ProbeOpen(c)
    \/ ProbeFree(c)

LEMMA StepMovesLock ==
    ASSUME NEW c \in Callers, LockTypeOK, CallInv, Step(c)
    PROVE  LockMoves(c)
  <1>1. LockAt(c)
    BY DEF CallInv, CallsHold
  <1>2. CASE Begin(c) \/ Return(c) \/ LockBucket(c) \/ UnlockBucket(c) \/ CreateBucket(c)
    BY <1>2 DEF Begin, Return, LockBucket, UnlockBucket, CreateBucket, MakeDir, WriteBucketName,
       LockMoves, lockVars
  <1>3. CASE OpenBucket(c) \/ LockFailed(c)
    BY <1>1, <1>3 DEF OpenBucket, OpenDirs, LockFailed, LockAt, Unlocked, LockMoves, lockVars
  <1>4. CASE Locking(c)
    BY <1>4 DEF Locking, LockMoves
  <1>5. CASE UnlockWith(c) \/ ReleaseWith(c) \/ Released(c) \/ Crash(c) \/ FinishCreate(c)
    BY <1>5 DEF UnlockWith, ReleaseWith, Released, Crash, FinishCreate, LockMoves
  <1>6. CASE CreateObject(c) /\ ~FinishCreate(c)
    BY <1>6 DEF CreateObject, PreviousDataFile, CreateDataFile, CopyBody, WriteTemp, Rename,
       RemovePrevious, Discard, LockMoves
  <1>7. CASE OpenObject(c) \/ DeleteObject(c)
    BY <1>7 DEF OpenObject, ReadMeta, OpenData, DeleteObject, FindObject, RemoveMeta, RemoveData,
       LockMoves
  <1>8. CASE Keys(c)
    BY <1>1, <1>8 DEF Keys, CheckKey, StatData, Recheck, RestatData, Peek, LockThen, LockAt,
       Unlocked,
       LockMoves
  <1>9. CASE Sweep(c) \/ Classify(c) \/ LockedState(c) \/ NextDebris(c) \/ RemoveDebris(c)
             \/ RemoveMetaDir(c) \/ RemoveRecord(c) \/ ListData(c)
    BY <1>9 DEF Sweep, Classify, LockedState, NextDebris, RemoveDebris, RemoveMetaDir, RemoveRecord,
       ListData, LockThen, LockMoves
  <1>10. CASE ProbeData(c) \/ ProbedData(c) \/ RemoveLeftData(c) \/ RemoveObjectsDir(c) \/ ListLocks(c)
              \/ ProbeLock(c) \/ ProbedLock(c) \/ RemoveLocksDir(c)
    BY <1>10 DEF ProbeData, ProbedData, RemoveLeftData, RemoveObjectsDir, ListLocks, ProbeLock,
       ProbedLock, RemoveLocksDir, LockMoves
  <1>11. CASE GiveUpFreeLock(c)
    BY <1>1, <1>11 DEF GiveUpFreeLock, RemoveLockFile, CloseLockFile, LockAt, LockMoves
  <1> QED
    BY <1>2, <1>3, <1>4, <1>5, <1>6, <1>7, <1>8, <1>9, <1>10, <1>11
       DEF Step, CreateObject, DeleteBucket

LEMMA LockKept ==
    ASSUME NEW c \in Callers, None \notin Inodes, LockTypeOK, Exclusive, LockMoves(c)
    PROVE  LockTypeOK' /\ Exclusive'
  <1>1. CASE UNCHANGED lockVars
    BY <1>1 DEF lockVars, LockTypeOK, Exclusive
  <1>2. CASE OpenLockFile(c, Here(c, "locks")) \/ TryLock(c) \/ Granted(c)
             \/ CheckCurrent(c, Here(c, "locks")) \/ Cancel(c) \/ GhostLocks(c) \/ GhostCloses(c)
    BY <1>2, OpenLockFileKeeps, TryLockKeeps, CheckCurrentKeeps, CancelKeeps
  <1>3. CASE Unlock(c) \/ CloseUnlinked(c) \/ ProbeTaken(c) \/ CrashLock(c)
    BY <1>3, LetsGoKeeps
  <1>4. CASE Release(c, Here(c, "locks")) \/ (lk[c] = "free" /\ Unlink(c, TRUE))
    <2>1. CASE Release(c, Here(c, "locks"))
      <3>1. lk[c] \in {"held", "free"} /\ Unlink(c, Here(c, "locks"))
        BY <2>1 DEF Release
      <3> QED
        BY <3>1, UnlinkKeeps
    <2>2. CASE lk[c] = "free" /\ Unlink(c, TRUE)
      BY <2>2 DEF Unlink, LockTypeOK, Exclusive, Phase, HasFlock, Phases
    <2> QED
      BY <1>4, <2>1, <2>2
  <1>5. CASE (lk[c] = "idle" /\ ProbeOpen(c)) \/ ProbeFree(c)
    BY <1>5, ProbeKeeps
  <1>6. CASE /\ lk[c] \in {"idle", "failed"} /\ (Phase(c, "open") \/ Phase(c, "idle"))
             /\ UNCHANGED <<linked, file, ghost, granted>>
    BY <1>6, WaitKeeps
  <1> QED
    BY <1>1, <1>2, <1>3, <1>4, <1>5, <1>6 DEF LockMoves

\* Nobody gets to know a directory while it holds the lock.
LEMMA StepOpens ==
    ASSUME NEW c \in Callers, LockTypeOK, CallInv, Step(c)
    PROVE  \A d \in Callers : open'[d] \subseteq open[d] \/ (d = c /\ lk'[d] # "held")
  <1>1. open \in [Callers -> SUBSET AllDirs]
    BY DEF CallInv, CallTypeOK
  <1>2. ASSUME Returns(c)
        PROVE  \A d \in Callers : open'[d] \subseteq open[d]
    BY <1>1, <1>2 DEF Returns
  <1>3. ASSUME NEW dir, RemoveDir(c, dir)
        PROVE  \A d \in Callers : open'[d] \subseteq open[d]
    BY <1>1, <1>3 DEF RemoveDir
  <1>4. CASE Begin(c) \/ Locking(c) \/ ReleaseWith(c) \/ LockBucket(c) \/ UnlockBucket(c) \/ CreateBucket(c)
    BY <1>4 DEF Begin, Locking, ReleaseWith, LockBucket, UnlockBucket, CreateBucket, MakeDir,
       WriteBucketName, CallSame, procVars
  <1>5. CASE Return(c) \/ LockFailed(c) \/ UnlockWith(c) \/ Released(c) \/ FinishCreate(c)
    BY <1>2, <1>5 DEF Return, LockFailed, UnlockWith, Released, FinishCreate, Fails, GaveUp
  <1>6. CASE Crash(c)
    BY <1>1, <1>6 DEF Crash
  <1>7. CASE OpenBucket(c)
    <2>1. pc[c] \in {"open_meta", "open_rest"} /\ lk[c] = "idle"
      BY <1>7 DEF OpenBucket, OpenDirs, CallInv, CallsHold, LockAt, Unlocked
    <2>2. \A d \in Callers \ {c} : open'[d] \subseteq open[d]
      BY <1>1, <1>2, <1>7 DEF OpenBucket, OpenDirs, Fails
    <2>3. lk'[c] # "held"
      BY <1>7, <2>1 DEF OpenBucket, OpenDirs, Phase, LockTypeOK, lockVars
    <2> QED
      BY <2>2, <2>3
  <1>8. CASE CreateObject(c) /\ ~FinishCreate(c)
    BY <1>8 DEF CreateObject, PreviousDataFile, CreateDataFile, CopyBody, WriteTemp, Rename,
       RemovePrevious, Discard, Calling
  <1>9. CASE OpenObject(c) \/ DeleteObject(c) \/ Keys(c)
    BY <1>9 DEF OpenObject, ReadMeta, OpenData, DeleteObject, FindObject, RemoveMeta, RemoveData,
       Keys,
       CheckKey, StatData, Recheck, RestatData, Peek, Calling
  <1>10. CASE RemoveMetaDir(c) \/ RemoveObjectsDir(c) \/ RemoveLocksDir(c)
    BY <1>3, <1>10 DEF RemoveMetaDir, RemoveObjectsDir, RemoveLocksDir
  <1>11. CASE /\ DeleteBucket(c) /\ ~RemoveMetaDir(c) /\ ~RemoveObjectsDir(c) /\ ~RemoveLocksDir(c)
    BY <1>11 DEF DeleteBucket, Sweep, Classify, LockedState, NextDebris, RemoveDebris, RemoveRecord,
       ListData, ProbeData, ProbedData, RemoveLeftData, ListLocks, ProbeLock, ProbedLock,
       GiveUpFreeLock, RemoveLockFile, CloseLockFile, Calling, CallSame
  <1> QED
    BY <1>4, <1>5, <1>6, <1>7, <1>8, <1>9, <1>10, <1>11 DEF Step, CreateObject

\* Only the holder removes the file of the lock, whatever the others have open.
LEMMA HeldStaysCurrent ==
    ASSUME NEW c \in Callers, ObjectStoreAssumption, LockInv, CallInv, Step(c), FreeIsCurrent
    PROVE  LockInv'
  <1>1. LockMoves(c)
    BY StepMovesLock DEF LockInv
  <1>2. LockTypeOK' /\ Exclusive'
    BY <1>1, LockKept DEF LockInv, ObjectStoreAssumption
  <1>3. \A d \in Callers : open'[d] \subseteq open[d] \/ (d = c /\ lk'[d] # "held")
    BY StepOpens DEF LockInv
  <1> SUFFICES ASSUME NEW d \in Callers, lk'[d] = "held", "locks" \in open'[d]
               PROVE  linked' = file'[d]
    BY <1>2 DEF LockInv, HeldIsCurrent, Here
  <1>4. Here(d, "locks")
    BY <1>3 DEF Here
  <1>5. lk[d] = "held" => linked = file[d] /\ file[d] # None
    BY <1>4 DEF LockInv, HeldIsCurrent, LockTypeOK
  <1>6. ASSUME lk[d] = "held", NEW e \in Callers, lk[e] \in HasFlock, linked = file[e]
        PROVE  e = d
    BY <1>5, <1>6 DEF LockInv, Exclusive, HasFlock
  <1>7. CASE \/ UNCHANGED lockVars \/ TryLock(c) \/ Granted(c) \/ Cancel(c) \/ GhostLocks(c) \/ GhostCloses(c)
             \/ Unlock(c) \/ CloseUnlinked(c) \/ ProbeTaken(c) \/ CrashLock(c)
             \/ (lk[c] = "idle" /\ ProbeOpen(c)) \/ ProbeFree(c)
    BY <1>5, <1>7 DEF LockInv, LockTypeOK, lockVars, TryLock, Granted, Cancel, GhostLocks,
       GhostCloses,
       Unlock, CloseUnlinked, ProbeTaken, CrashLock, ProbeOpen, ProbeFree, Phase, CloseFile
  <1>8. CASE /\ lk[c] \in {"idle", "failed"} /\ (Phase(c, "open") \/ Phase(c, "idle"))
             /\ UNCHANGED <<linked, file, ghost, granted>>
    BY <1>5, <1>8 DEF LockInv, LockTypeOK, Phase
  <1>9. CASE OpenLockFile(c, Here(c, "locks"))
    BY <1>5, <1>9 DEF LockInv, LockTypeOK, OpenLockFile, Phase
  <1>10. CASE CheckCurrent(c, Here(c, "locks"))
    BY <1>5, <1>10 DEF LockInv, LockTypeOK, CheckCurrent, Current, Phase, CloseFile
  <1>11. CASE Release(c, Here(c, "locks"))
    <2>1. lk[c] = "held" /\ d # c /\ lk[d] = "held" /\ file' = file
      BY <1>11 DEF Release, Unlink, Phase, LockInv, LockTypeOK
    <2>2. ~Here(c, "locks")
      BY <1>5, <1>6, <2>1 DEF LockInv, HeldIsCurrent, HasFlock
    <2> QED
      BY <1>5, <1>11, <2>1, <2>2 DEF Release, Unlink
  <1>12. CASE lk[c] = "free" /\ Unlink(c, TRUE)
    <2>1. d # c /\ lk[d] = "held" /\ lk'[c] = "unlinked"
      BY <1>12 DEF Unlink, Phase, LockInv, LockTypeOK
    <2>2. linked \in {file[c], None}
      BY <1>12, <2>1 DEF FreeIsCurrent
    <2> QED
      BY <1>5, <1>6, <1>12, <2>1, <2>2 DEF HasFlock
  <1> QED
    BY <1>1, <1>7, <1>8, <1>9, <1>10, <1>11, <1>12 DEF LockMoves

\* The steps that make or remove a directory or the record do so under the
\* lifecycle lock; the others leave them alone.
DirsMove(c) ==
    \/ UNCHANGED <<dirs, record>> /\ \A d \in Callers \ {c} : open'[d] = open[d]
    \/ /\ lifecycle = c
       /\ \/ \E dir \in AllDirs : dirs' = dirs \cup {dir} /\ UNCHANGED <<open, record>>
             /\ (dir = "meta" => record)
          \/ UNCHANGED <<dirs, open>>
             /\ (record' \/ "meta" \notin dirs)
          \/ \E dir \in AllDirs : RemoveDir(c, dir) /\ UNCHANGED record
             /\ (dir = "meta" \/ "meta" \notin dirs)

\* Two callers are not both inside the bucket's lifecycle lock.
LEMMA OneLifecycle ==
    ASSUME NEW c \in Callers, NEW d \in Callers, CallInv, lifecycle = c,
           \/ pc[d] \in MetaGone \/ pc[d] = "mk_meta"
           \/ /\ pc[d] \in Sweeping \cup {"open_rest", "unlock", "release", "released"}
              /\ call[d].op = "delete_bucket"
    PROVE  d = c
  <1>1. lifecycle = d
    BY DEF CallInv, CallsHold, OpAt, BucketOps, MetaGone, Sweeping
  <1> QED
    BY <1>1

LEMMA OthersDirs ==
    ASSUME NEW c \in Callers, ObjectStoreAssumption, CallInv, Frame(c), DirsMove(c),
           NEW d \in Callers, d # c
    PROVE  DirsAt(d)'
  <1>1. DirsAt(d) /\ pc'[d] = pc[d] /\ call'[d] = call[d]
    BY DEF CallInv, DirsHold, Frame
  <1>2. CASE UNCHANGED <<dirs, record>> /\ \A p \in Callers \ {c} : open'[p] = open[p]
    BY <1>1, <1>2 DEF DirsAt
  <1>3. CASE lifecycle = c
    <2>1. /\ pc[d] \notin MetaGone /\ pc[d] # "mk_meta"
          /\ ~(/\ pc[d] \in Sweeping \cup {"open_rest", "unlock", "release", "released"}
               /\ call[d].op = "delete_bucket")
      BY <1>3, OneLifecycle
    <2>2. CASE \E dir \in AllDirs : dirs' = dirs \cup {dir} /\ UNCHANGED <<open, record>>
      BY <1>1, <2>1, <2>2 DEF DirsAt
    <2>3. CASE UNCHANGED <<dirs, open>>
      BY <1>1, <2>1, <2>3 DEF DirsAt
    <2>4. CASE \E dir \in AllDirs : RemoveDir(c, dir) /\ (dir = "meta" \/ "meta" \notin dirs)
      <3>1. PICK dir \in AllDirs : RemoveDir(c, dir) /\ (dir = "meta" \/ "meta" \notin dirs)
        BY <2>4
      <3>2. open'[d] = open[d] \ {dir} /\ dirs' = dirs \ {dir} /\ "meta" \notin dirs'
        BY <3>1 DEF RemoveDir
      <3> QED
        BY <1>1, <2>1, <3>2 DEF DirsAt
    <2> QED
      BY <1>2, <1>3, <2>2, <2>3, <2>4 DEF DirsMove
  <1> QED
    BY <1>2, <1>3 DEF DirsMove

\* The steps of one caller on directories, record, metadata and temp files.
LEMMA SteadyDirs ==
    ASSUME NEW c \in Callers, CallInv, Frame(c), UNCHANGED <<dirs, record>>,
           \A d \in Callers \ {c} : open'[d] = open[d],
           meta' = None \/ meta' = meta \/ "meta" \in dirs, temps' \subseteq temps \/ "meta" \in dirs,
           DirsAt(c)', ObjectStoreAssumption
    PROVE  DirsHold'
  BY OthersDirs DEF DirsMove, DirsHold, CallInv

LEMMA GoneDirs ==
    ASSUME NEW c \in Callers, CallTypeOK, pc' = [pc EXCEPT ![c] = "idle"], open' = [open EXCEPT ![c] = {}]
    PROVE  DirsAt(c)' /\ \A d \in Callers \ {c} : open'[d] = open[d]
  BY DEF CallTypeOK, DirsAt, Sweeping, MetaGone

LEMMA ReturnsDirs ==
    ASSUME NEW c \in Callers, CallTypeOK, Returns(c)
    PROVE  DirsAt(c)' /\ \A d \in Callers \ {c} : open'[d] = open[d]
  BY GoneDirs DEF Returns, Goto

LEMMA CreateDirs ==
    ASSUME NEW c \in Callers, ObjectStoreAssumption, LockTypeOK, CallInv, Frame(c),
           CreateObject(c) \/ OpenObject(c) \/ DeleteObject(c) \/ Keys(c)
    PROVE  DirsHold'
  <1>1. DirsAt(c) /\ LockAt(c) /\ OpAt(c)
    BY DEF CallInv, CallsHold, DirsHold
  <1>2. CASE FinishCreate(c)
    <2>1. DirsAt(c)' /\ \A d \in Callers \ {c} : open'[d] = open[d]
      <3>1. CASE Returns(c)
        BY <3>1, ReturnsDirs DEF CallInv
      <3>2. CASE pc[c] = "finish" /\ Goto(c, "released") /\ UNCHANGED <<open, call, dirs, record>>
        BY <1>1, <3>2 DEF Goto, DirsAt, CallInv, CallTypeOK, OpAt, Sweeping, MetaGone
      <3> QED
        BY <1>2, <3>1, <3>2 DEF FinishCreate, DiskSame, diskVars
    <2> QED
      BY <1>2, <2>1, SteadyDirs DEF FinishCreate, DiskSame, diskVars
  <1>3. CASE CreateObject(c) /\ ~FinishCreate(c)
    <2>1. UNCHANGED <<dirs, record, open>>
      BY <1>3 DEF CreateObject, PreviousDataFile, CreateDataFile, CopyBody, WriteTemp, Rename,
         RemovePrevious, Discard, DiskSame, diskVars, Calling
    <2>2. DirsAt(c)'
      BY <1>1, <1>3, <2>1 DEF CreateObject, PreviousDataFile, CreateDataFile, CopyBody, WriteTemp,
         Rename,
         RemovePrevious, Discard, Holding, Goto, DirsAt, CallInv, CallTypeOK, Sweeping, MetaGone
    <2>3. meta' = meta \/ "meta" \in dirs
      BY <1>1, <1>3 DEF CreateObject, PreviousDataFile, CreateDataFile, CopyBody, WriteTemp, Rename,
         RemovePrevious, Discard, DiskSame, diskVars, DirsAt, Here
    <2>4. temps' \subseteq temps \/ "meta" \in dirs
      BY <1>1, <1>3 DEF CreateObject, PreviousDataFile, CreateDataFile, CopyBody, WriteTemp, Rename,
         RemovePrevious, Discard, DiskSame, diskVars, DirsAt, Here
    <2> QED
      BY <2>1, <2>2, <2>3, <2>4, SteadyDirs
  <1>4. CASE OpenObject(c) \/ DeleteObject(c)
    <2>1. UNCHANGED <<dirs, record, open, temps>> /\ meta' \in {meta, None}
      BY <1>4 DEF OpenObject, DeleteObject, ReadMeta, OpenData, FindObject, RemoveMeta, RemoveData,
         DiskSame, diskVars, Calling
    <2>2. DirsAt(c)'
      <3>1. call'[c].op = call[c].op
        BY <1>4, ReadMetaWalks, OpenDataWalks, FindObjectWalks, RemoveMetaWalks, RemoveDataWalks
           DEF OpenObject, DeleteObject, Edited, RequestSame
      <3> QED
        BY <1>1, <1>4, <2>1, <3>1 DEF OpenObject, DeleteObject, ReadMeta, OpenData, FindObject,
           RemoveMeta,
         RemoveData, Holding, Goto, DirsAt, CallInv, CallTypeOK, OpAt, Sweeping, MetaGone
    <2> QED
      BY <2>1, <2>2, SteadyDirs
  <1>5. CASE Keys(c)
    <2>1. UNCHANGED <<dirs, record, open, temps, meta>>
      BY <1>5 DEF Keys, CheckKey, StatData, Recheck, RestatData, Peek, DiskSame, diskVars, Calling
    <2>2. call'[c].op = call[c].op
      BY <1>5, CheckKeyWalks, StatDataWalks, RecheckWalks, RestatDataWalks DEF Keys, Edited,
         RequestSame
    <2>3. DirsAt(c)'
      BY <1>1, <1>5, <2>1, <2>2 DEF Keys, CheckKey, StatData, Recheck, RestatData, Peek, Holding,
         Goto, DirsAt,
         LockThen, CallInv, CallTypeOK, OpAt, Sweeping, MetaGone
    <2> QED
      BY <2>1, <2>3, SteadyDirs
  <1> QED
    BY <1>2, <1>3, <1>4, <1>5

LEMMA LockingDirs ==
    ASSUME NEW c \in Callers, ObjectStoreAssumption, LockTypeOK, CallInv, Frame(c),
           \/ Begin(c) \/ Return(c) \/ Crash(c) \/ Locking(c)
           \/ LockFailed(c) \/ UnlockWith(c) \/ ReleaseWith(c) \/ Released(c)
    PROVE  DirsHold'
  <1>1. DirsAt(c) /\ LockAt(c) /\ OpAt(c)
    BY DEF CallInv, CallsHold, DirsHold
  <1>2. UNCHANGED <<dirs, record, meta, temps>>
    BY DEF Begin, Return, Crash, Locking, LockFailed, UnlockWith, ReleaseWith, Released, DiskSame,
       diskVars
  <1>3. DirsAt(c)' /\ \A d \in Callers \ {c} : open'[d] = open[d]
    <2>1. CASE Returns(c)
      BY <2>1, ReturnsDirs DEF CallInv
    <2>2. CASE Crash(c)
      BY <2>2, GoneDirs DEF Crash, Goto, CallInv
    <2>3. CASE Begin(c)
      BY <1>1, <1>2, <2>3 DEF Begin, Goto, DirsAt, CallInv, CallTypeOK, Sweeping, MetaGone
    <2>4. CASE Locking(c)
      BY <1>1, <1>2, <2>4 DEF Locking, procVars, DirsAt
    <2>5. CASE LockFailed(c) /\ ~Returns(c)
      BY <1>1, <1>2, <2>5 DEF LockFailed, Fails, Goto, DirsAt, CallInv, CallTypeOK, Sweeping,
         MetaGone
    <2>6. CASE (UnlockWith(c) \/ Released(c)) /\ ~Returns(c)
      <3>1. call[c].op = "delete_bucket" /\ "meta" \in open[c]
        BY <1>1, <2>6 DEF UnlockWith, Released, GaveUp, OpAt, DirsAt
      <3>2. call' = call /\ open' = open /\ pc' = [pc EXCEPT ![c] = AfterUnlock(c)]
        BY <2>6 DEF UnlockWith, Released, GaveUp, Goto
      <3> QED
        BY <1>1, <1>2, <2>6, <3>1, <3>2 DEF UnlockWith, Released, AfterUnlock, DirsAt, CallInv,
           CallTypeOK,
           Sweeping, MetaGone
    <2>7. CASE ReleaseWith(c)
      BY <1>1, <1>2, <2>7 DEF ReleaseWith, CallSame, Goto, DirsAt, CallInv, CallTypeOK, Sweeping,
         MetaGone
    <2> QED
      BY <2>1, <2>2, <2>3, <2>4, <2>5, <2>6, <2>7 DEF Return
  <1> QED
    BY <1>2, <1>3, SteadyDirs

LEMMA OpenDirsHold ==
    ASSUME NEW c \in Callers, ObjectStoreAssumption, LockTypeOK, CallInv, Frame(c), OpenBucket(c)
    PROVE  DirsHold'
  <1>1. DirsAt(c) /\ OpAt(c)
    BY DEF CallInv, CallsHold, DirsHold
  <1>2. UNCHANGED <<dirs, record, meta, temps>>
    BY DEF OpenBucket, OpenDirs, diskVars
  <1>3. DirsAt(c)' /\ \A d \in Callers \ {c} : open'[d] = open[d]
    <2>1. CASE Fails(c)
      <3>1. CASE Returns(c)
        BY <3>1, ReturnsDirs DEF CallInv
      <3>2. CASE Goto(c, "unlock_bucket") /\ UNCHANGED open
        BY <1>1, <1>2, <3>2 DEF Goto, DirsAt, CallInv, CallTypeOK, Sweeping, MetaGone
      <3> QED
        BY <2>1, <3>1, <3>2 DEF Fails
    <2>2. CASE /\ pc[c] = "open_meta" /\ {"meta"} \subseteq dirs /\ open' = [open EXCEPT ![c] = @ \cup {"meta"}]
               /\ Goto(c, "open_rest") /\ UNCHANGED call
      BY <1>1, <1>2, <2>2 DEF Goto, DirsAt, CallInv, CallTypeOK, Sweeping, MetaGone
    <2>3. CASE /\ pc[c] = "open_rest" /\ {"objects", "locks"} \subseteq dirs
               /\ open' = [open EXCEPT ![c] = @ \cup {"objects", "locks"}]
               /\ Goto(c, AfterOpen(c)) /\ UNCHANGED call
      <3>1. call[c].op \in ObjectOps \cup {"delete_bucket"}
        BY <1>1, <2>3 DEF OpAt
      <3>2. AfterOpen(c) \in {"previous", "read", "find", "peek", "sweep"}
        BY <3>1 DEF AfterOpen, ObjectOps
      <3>3. open'[c] = open[c] \cup {"objects", "locks"} /\ open'[c] \subseteq dirs'
        BY <1>1, <1>2, <2>3 DEF CallInv, CallTypeOK, DirsAt
      <3>4. "meta" \in open'[c] => open'[c] = AllDirs
        BY <3>3 DEF AllDirs, CallInv, CallTypeOK
      <3>5. call[c].op = "delete_bucket" => "meta" \in open'[c]
        BY <1>1, <2>3, <3>3 DEF DirsAt
      <3>6. pc'[c] \in {"previous", "read", "find", "peek", "sweep"}
        BY <2>3, <3>2 DEF Goto, CallInv, CallTypeOK
      <3>7. \A d \in Callers \ {c} : open'[d] = open[d]
        BY <2>3 DEF CallInv, CallTypeOK
      <3> QED
        BY <2>3, <3>3, <3>4, <3>5, <3>6, <3>7 DEF DirsAt, MetaGone
    <2> QED
      BY <2>1, <2>2, <2>3 DEF OpenBucket, OpenDirs
  <1> QED
    BY <1>2, <1>3, SteadyDirs

LEMMA BucketDirs ==
    ASSUME NEW c \in Callers, ObjectStoreAssumption, LockTypeOK, CallInv, Frame(c),
           LockBucket(c) \/ UnlockBucket(c) \/ CreateBucket(c)
    PROVE  DirsHold'
  <1>1. DirsAt(c) /\ OpAt(c)
    BY DEF CallInv, CallsHold, DirsHold
  <1>2. CASE LockBucket(c) \/ UnlockBucket(c)
    <2>1. DirsAt(c)'
      BY <1>1, <1>2 DEF LockBucket, UnlockBucket, Goto, diskVars, DirsAt, CallInv, CallTypeOK,
         Sweeping,
         MetaGone
    <2> QED
      BY <1>2, <2>1, SteadyDirs DEF LockBucket, UnlockBucket, diskVars
  <1>3. CASE CreateBucket(c)
    <2>1. DirsAt(c)' /\ lifecycle = c /\ UNCHANGED <<open, meta, temps>>
      BY <1>1, <1>3 DEF CreateBucket, MakeDir, WriteBucketName, Goto, CallSame, DirsAt, OpAt,
         CallInv,
         CallTypeOK, BucketOps, Sweeping, MetaGone
    <2>2. DirsMove(c)
      BY <1>1, <1>3, <2>1 DEF CreateBucket, MakeDir, WriteBucketName, CallSame, DirsMove, DirsAt,
         AllDirs
    <2>3. dirs \subseteq dirs' /\ ("meta" \in dirs' => record')
      BY <1>1, <1>3 DEF CreateBucket, MakeDir, WriteBucketName, CallInv, DirsHold, DirsAt
    <2> QED
      BY <2>1, <2>2, <2>3, OthersDirs DEF DirsHold, CallInv
  <1> QED
    BY <1>2, <1>3

LEMMA DeleteDirs ==
    ASSUME NEW c \in Callers, ObjectStoreAssumption, LockTypeOK, CallInv, Frame(c), DeleteBucket(c)
    PROVE  DirsHold'
  <1>1. DirsAt(c) /\ OpAt(c)
    BY DEF CallInv, CallsHold, DirsHold
  <1>2. CASE Sweep(c) \/ Classify(c) \/ LockedState(c) \/ NextDebris(c) \/ RemoveDebris(c)
    <2>1. call'[c].op = call[c].op
      BY <1>2, SweepWalks, ClassifyWalks, LockedStateWalks, NextDebrisWalks, RemoveDebrisWalks
         DEF Edited, RequestSame
    <2>2. UNCHANGED <<dirs, record, open>> /\ meta' \in {meta, None} /\ temps' \subseteq temps
      BY <1>2 DEF Sweep, Classify, LockedState, NextDebris, RemoveDebris, DiskSame, diskVars,
         Calling, CallSame
    <2>3. DirsAt(c)'
      BY <1>1, <1>2, <2>1, <2>2 DEF Sweep, Classify, LockedState, NextDebris, RemoveDebris,
         Holding, LockThen,
         Goto, DirsAt, OpAt, CallInv, CallTypeOK, Sweeping, MetaGone
    <2> QED
      BY <2>2, <2>3, SteadyDirs
  <1>3. CASE ListData(c) \/ ProbeData(c) \/ ProbedData(c) \/ RemoveLeftData(c) \/ ListLocks(c)
             \/ ProbeLock(c) \/ ProbedLock(c) \/ GiveUpFreeLock(c)
    <2>1. UNCHANGED <<dirs, record, open, meta, temps>>
      BY <1>3 DEF ListData, ProbeData, ProbedData, RemoveLeftData, ListLocks, ProbeLock, ProbedLock,
         GiveUpFreeLock, RemoveLockFile, CloseLockFile, DiskSame, diskVars, Calling, CallSame
    <2>2. pc[c] \in MetaGone /\ pc'[c] \in MetaGone
      BY <1>3 DEF ListData, ProbeData, ProbedData, RemoveLeftData, ListLocks, ProbeLock, ProbedLock,
         GiveUpFreeLock, RemoveLockFile, CloseLockFile, Goto, CallInv, CallTypeOK, MetaGone
    <2>3. DirsAt(c)'
      BY <1>1, <2>1, <2>2 DEF DirsAt, Sweeping, MetaGone
    <2> QED
      BY <2>1, <2>3, SteadyDirs
  <1>4. CASE RemoveMetaDir(c) \/ RemoveRecord(c) \/ RemoveObjectsDir(c) \/ RemoveLocksDir(c)
    <2>1. lifecycle = c /\ UNCHANGED <<meta, temps>>
      BY <1>1, <1>4 DEF RemoveMetaDir, RemoveRecord, RemoveObjectsDir, RemoveLocksDir, OpAt,
         BucketOps,
         Sweeping, MetaGone
    <2>2. DirsMove(c)
      BY <1>1, <1>4, <2>1 DEF RemoveMetaDir, RemoveRecord, RemoveObjectsDir, RemoveLocksDir,
         DirsMove, DirsAt,
         CallSame, AllDirs, MetaGone
    <2>3. DirsAt(c)'
      <3>1. CASE RemoveMetaDir(c)
        BY <1>1, <3>1 DEF RemoveMetaDir, RemoveDir, Goto, DirsAt, CallInv, CallTypeOK, Sweeping,
           MetaGone
      <3>2. CASE RemoveRecord(c)
        BY <1>1, <3>2 DEF RemoveRecord, CallSame, Goto, DirsAt, CallInv, CallTypeOK, Sweeping,
           MetaGone
      <3>3. CASE RemoveObjectsDir(c) \/ RemoveLocksDir(c)
        BY <1>1, <3>3 DEF RemoveObjectsDir, RemoveLocksDir, RemoveDir, Goto, DirsAt, CallInv,
           CallTypeOK,
           Sweeping, MetaGone
      <3> QED
        BY <1>4, <3>1, <3>2, <3>3
    <2>4. (meta # None \/ temps # {} => "meta" \in dirs') /\ ("meta" \in dirs' => record')
      BY <1>1, <1>4 DEF RemoveMetaDir, RemoveRecord, RemoveObjectsDir, RemoveLocksDir, RemoveDir,
         Entries, DirsAt,
         CallInv, DirsHold, MetaGone
    <2> QED
      BY <2>1, <2>2, <2>3, <2>4, OthersDirs DEF DirsHold
  <1> QED
    BY <1>2, <1>3, <1>4 DEF DeleteBucket

LEMMA CallInvKept ==
    ASSUME NEW c \in Callers, ObjectStoreAssumption, LockTypeOK, CallInv, Step(c)
    PROVE  CallInv' /\ Frame(c)
  <1>1. CallTypeOK' /\ CallsHold' /\ Frame(c)
    BY CallsHoldKept
  <1>2. DirsHold'
    BY <1>1, CreateDirs, LockingDirs, OpenDirsHold, BucketDirs, DeleteDirs DEF Step
  <1> QED
    BY <1>1, <1>2 DEF CallInv

(***************************************************************************)
(* The key                                                                 *)
(***************************************************************************)
Owning == Writing \cup {"remove_previous", "remove_data"}
Marked == Owning \cup {"create", "open_data", "restat", "remove_meta"}
Held(c) == lk[c] = "held" /\ Here(c, "meta") /\ Here(c, "locks")

\* Of the callers that have the key's lock in the bucket as it is, there is one.
LEMMA OneLive ==
    ASSUME NEW c \in Callers, NEW d \in Callers, LockInv, Held(c), Held(d)
    PROVE  c = d
  BY DEF LockInv, HeldIsCurrent, Exclusive, HasFlock, Held

LEMMA LiveIsHeld ==
    ASSUME NEW c \in Callers, CallInv, pc[c] \in Working \cup {"state", "rm_debris"},
           lk[c] = "held", Here(c, "meta")
    PROVE  Held(c) /\ open[c] = AllDirs
  <1>1. open[c] = AllDirs
    BY DEF CallInv, DirsHold, DirsAt, Here, Working, Writing
  <1> QED
    BY <1>1 DEF Held, Here, AllDirs

\* While one works on the key in the bucket as it is, nobody else does.
LEMMA Alone ==
    ASSUME NEW c \in Callers, NEW d \in Callers, c # d, LockInv, CallInv,
           pc[c] \in Working \cup {"state", "rm_debris"}, lk[c] = "held", Here(c, "meta"),
           pc[d] \in Marked
    PROVE  ~Here(d, "meta")
  <1>1. pc[d] \in Working
    BY DEF Marked, Owning, Working, Writing
  <1>2. lk[d] = "held"
    BY <1>1 DEF CallInv, CallsHold, LockAt
  <1> QED
    BY <1>1, <1>2, LiveIsHeld, OneLive

\* A step of c that leaves the key alone and has c own no file.
Quiet(c) ==
    /\ UNCHANGED <<meta, temps, data>> /\ \A d \in Callers \ {c} : open'[d] = open[d]
    /\ pc'[c] \notin Marked
    /\ crashes' = 0 => crashes = 0 /\ pc[c] \notin Owning
    /\ call'[c].prev \in {call[c].prev, meta, None} /\ call'[c].mine \in {call[c].mine, None}
    /\ call'[c].answer # "corrupt"
    /\ pc'[c] \in Pending => call'[c].answer = "pending"

LEMMA QuietKeeps ==
    ASSUME NEW c \in Callers, ObjectStoreAssumption, CallInv, KeyInv, Frame(c), Quiet(c)
    PROVE  KeyInv'
  <1>1. HolderKnows'
    BY DEF KeyInv, HolderKnows, Frame, Quiet, Here, Marked, Owning, Writing
  <1>2. WrittenIsOwn'
    BY DEF KeyInv, WrittenIsOwn, Frame, Quiet, Marked, Owning, ObjectStoreAssumption
  <1>3. WholeBeforeCommit'
    BY DEF KeyInv, WholeBeforeCommit, Frame, Quiet, Here, Marked, Owning, Writing
  <1>4. FilesAreOwned'
    <2>1. \A d \in Callers : "objects" \notin open'[d] =>
          /\ pc'[d] \in Writing => data'[call'[d].mine] = "none"
          /\ pc'[d] = "remove_data" => data'[call'[d].prev] = "none"
      BY DEF KeyInv, FilesAreOwned, Frame, Quiet, Marked, Owning
    <2>2. ASSUME crashes' = 0
          PROVE  \A t \in temps' : \E d \in Callers : pc'[d] = "rename" /\ call'[d].mine = t
      BY <2>2 DEF KeyInv, FilesAreOwned, Frame, Quiet, Owning, Writing
    <2>3. ASSUME crashes' = 0, NEW f \in Files'
          PROVE  \/ f = meta'
                 \/ \E d \in Callers :
                      \/ pc'[d] \in Writing /\ call'[d].mine = f
                      \/ pc'[d] \in {"remove_previous", "remove_data"} /\ call'[d].prev = f
      BY <2>3 DEF KeyInv, FilesAreOwned, Frame, Quiet, Owning, Files
    <2> QED
      BY <2>1, <2>2, <2>3 DEF FilesAreOwned
  <1>5. Unanswered'
    BY DEF KeyInv, Unanswered, Frame, Quiet
  <1> QED
    BY <1>1, <1>2, <1>3, <1>4, <1>5 DEF KeyInv

LEMMA GoneIsQuiet ==
    ASSUME NEW c \in Callers, CallInv, Gone(c), open' = [open EXCEPT ![c] = {}], UNCHANGED <<meta, temps, data>>,
           crashes' = 0 => crashes = 0 /\ pc[c] \notin Owning
    PROVE  Quiet(c)
  BY DEF Gone, CallInv, CallTypeOK, NoCall, Quiet, Marked, Owning, Writing, Pending

LEMMA ReturnsIsQuiet ==
    ASSUME NEW c \in Callers, CallInv, Returns(c), UNCHANGED <<meta, temps, data, crashes>>,
           pc[c] \notin Owning
    PROVE  Quiet(c)
  BY ReturnsTyped, GoneIsQuiet DEF CallInv, Returns

LEMMA FailsIsQuiet ==
    ASSUME NEW c \in Callers, CallInv, Fails(c), UNCHANGED <<meta, temps, data, crashes>>,
           pc[c] \notin Owning
    PROVE  Quiet(c)
  <1>1. CASE Returns(c)
    BY <1>1, ReturnsIsQuiet
  <1>2. CASE Answers(c, "error") /\ Goto(c, "unlock_bucket") /\ UNCHANGED open
    <2>1. call'[c].answer = "error" /\ call'[c].prev = call[c].prev /\ call'[c].mine = call[c].mine
      BY <1>2, AnswersEdits DEF FoundSame, CallInv, CallTypeOK, CallsTyped, Told
    <2> QED
      BY <1>2, <2>1 DEF Goto, CallInv, CallTypeOK, Quiet, Marked, Owning, Writing, Pending
  <1> QED
    BY <1>1, <1>2 DEF Fails

\* The steps around a call, and its waits for the lock.
LEMMA QuietSteps ==
    ASSUME NEW c \in Callers, ObjectStoreAssumption, LockTypeOK, CallInv, KeyInv,
           \/ Begin(c) \/ Return(c) \/ Crash(c) \/ OpenBucket(c) \/ LockFailed(c)
           \/ UnlockWith(c) \/ ReleaseWith(c) \/ Released(c) \/ FinishCreate(c)
           \/ LockBucket(c) \/ UnlockBucket(c) \/ CreateBucket(c)
    PROVE  Quiet(c)
  <1>1. /\ call[c].answer # "corrupt" /\ (pc[c] \in Pending => call[c].answer = "pending")
        /\ LockAt(c) /\ OpAt(c)
    BY DEF KeyInv, Unanswered, CallInv, CallsHold
  <1>2. UNCHANGED <<meta, temps, data>>
    BY DEF Begin, Return, Crash, OpenBucket, OpenDirs, LockFailed, UnlockWith, ReleaseWith,
       Released,
       FinishCreate, LockBucket, UnlockBucket, CreateBucket, MakeDir, WriteBucketName, DiskSame, diskVars
  <1>3. CASE Begin(c)
    <2>1. PICK r \in Asks[c] : /\ call' = [call EXCEPT ![c] = [NoCall EXCEPT !.op = r.op, !.match = r.match]]
                               /\ Goto(c, IF r.op \in ObjectOps THEN "open_meta" ELSE "lock_bucket")
      BY <1>3 DEF Begin
    <2>2. call'[c].prev = None /\ call'[c].mine = None /\ call'[c].answer = "pending"
      BY <2>1 DEF CallInv, CallTypeOK, NoCall
    <2> QED
      BY <1>2, <1>3, <2>1, <2>2 DEF Begin, Goto, CallInv, CallTypeOK, Quiet, Marked, Owning, Writing
  <1>4. CASE Return(c)
    BY <1>2, <1>4, ReturnsIsQuiet DEF Return, Owning, Writing
  <1>5. CASE Crash(c)
    <2>1. Gone(c)
      BY <1>5, ReturnsTyped DEF Crash, Returns, CallInv
    <2>2. crashes' # 0 /\ open' = [open EXCEPT ![c] = {}]
      BY <1>5 DEF Crash, CallInv, CallTypeOK, ObjectStoreAssumption
    <2> QED
      BY <1>2, <2>1, <2>2, GoneIsQuiet
  <1>6. CASE OpenBucket(c)
    <2>1. pc[c] \notin Owning /\ crashes' = crashes
      BY <1>6 DEF OpenBucket, OpenDirs, Owning, Writing
    <2>2. CASE Fails(c)
      BY <1>2, <2>1, <2>2, FailsIsQuiet
    <2>3. CASE /\ call' = call /\ \A d \in Callers \ {c} : open'[d] = open[d]
               /\ Goto(c, "open_rest") \/ Goto(c, AfterOpen(c))
      <3>1. AfterOpen(c) \in {"previous", "read", "find", "peek", "sweep"} /\ pc[c] \in Pending
        BY <1>1, <1>6 DEF OpenBucket, OpenDirs, OpAt, AfterOpen, ObjectOps, Pending
      <3>2. pc'[c] \in {"open_rest", "previous", "read", "find", "peek", "sweep"}
        BY <2>3, <3>1 DEF Goto, CallInv, CallTypeOK
      <3>3. call'[c] = call[c]
        BY <2>3
      <3> QED
        BY <1>1, <1>2, <2>1, <2>3, <3>1, <3>2, <3>3 DEF Quiet, Marked, Owning, Writing
    <2> QED
      BY <1>6, <2>2, <2>3 DEF OpenBucket, OpenDirs, CallInv, CallTypeOK
  <1>7. CASE LockFailed(c)
    <2>1. pc[c] \notin Owning
      BY <1>1, <1>7 DEF LockFailed, LockAt, Owning, Working, Writing
    <2> QED
      BY <1>2, <1>7, <2>1, FailsIsQuiet DEF LockFailed
  <1>8. CASE UnlockWith(c) \/ Released(c)
    <2>1. pc[c] \notin Owning /\ crashes' = crashes /\ GaveUp(c)
      BY <1>8 DEF UnlockWith, Released, Owning, Writing
    <2>2. CASE Returns(c)
      BY <1>2, <2>1, <2>2, ReturnsIsQuiet
    <2>3. CASE Goto(c, AfterUnlock(c)) /\ UNCHANGED <<open, call>>
      BY <1>1, <1>2, <2>1, <2>3 DEF Goto, AfterUnlock, CallInv, CallTypeOK, Quiet, Marked, Owning,
         Writing, Pending
    <2> QED
      BY <2>1, <2>2, <2>3 DEF GaveUp
  <1>9. CASE FinishCreate(c)
    <2>1. pc[c] \notin Owning /\ crashes' = crashes
      BY <1>9 DEF FinishCreate, Owning, Writing
    <2>2. CASE Returns(c)
      BY <1>2, <2>1, <2>2, ReturnsIsQuiet
    <2>3. CASE Goto(c, "released") /\ UNCHANGED <<open, call>>
      BY <1>1, <1>2, <2>1, <2>3 DEF Goto, CallInv, CallTypeOK, Quiet, Marked, Owning, Writing,
         Pending
    <2> QED
      BY <1>9, <2>2, <2>3 DEF FinishCreate
  <1>10. CASE LockBucket(c)
    <2>1. /\ call'[c].prev = call[c].prev /\ call'[c].mine = call[c].mine /\ pc[c] = "lock_bucket"
          /\ \/ call'[c].answer = call[c].answer
             \/ call'[c].answer = "error" /\ Goto(c, "return")
      BY <1>10, AnswersEdits DEF LockBucket, FoundSame, CallInv, CallTypeOK, CallsTyped, Told
    <2> QED
      BY <1>1, <1>2, <1>10, <2>1 DEF LockBucket, Goto, CallInv, CallTypeOK, Quiet, Marked, Owning,
         Writing, Pending
  <1>11. CASE ReleaseWith(c) \/ UnlockBucket(c) \/ CreateBucket(c)
    BY <1>1, <1>2, <1>11 DEF ReleaseWith, UnlockBucket, CreateBucket, MakeDir, WriteBucketName,
       CallSame,
       Goto, CallInv, CallTypeOK, Quiet, Marked, Owning, Writing, Pending
  <1> QED
    BY <1>3, <1>4, <1>5, <1>6, <1>7, <1>8, <1>9, <1>10, <1>11

\* What a reader finds, locked or not, is whole.
LEMMA QuietReads ==
    ASSUME NEW c \in Callers, ObjectStoreAssumption, LockTypeOK, CallInv, KeyInv,
           OpenData(c) \/ CheckKey(c) \/ StatData(c) \/ RestatData(c)
    PROVE  Quiet(c)
  <1>1. /\ call[c].answer # "corrupt" /\ LockAt(c) /\ OpAt(c) /\ DirsAt(c)
        /\ UNCHANGED <<meta, temps, data, open, crashes>>
    BY DEF KeyInv, Unanswered, CallInv, CallsHold, DirsHold, OpenData, CheckKey, StatData,
       RestatData, Peek,
       DiskSame, diskVars, Calling
  <1>2. CallsTyped /\ Told \cap DataFiles = {}
    BY DEF CallInv, CallTypeOK, CallsTyped, ObjectStoreAssumption
  <1>3. CASE CheckKey(c)
    <2>1. MetaOf(c) \in DataFiles \cup {None} /\ MetaOf(c) \in {meta, None}
      BY DEF MetaOf, CallInv, CallTypeOK
    <2>2. CASE MetaOf(c) # None
      <3>1. Remembers(c, meta) /\ Goto(c, "stat") /\ meta \in DataFiles
        BY <1>3, <2>1, <2>2 DEF CheckKey, Peek
      <3>2. call'[c].prev = meta /\ call'[c].mine = call[c].mine /\ call'[c].answer = call[c].answer
        BY <1>2, <3>1, RemembersEdits DEF AnswerSame
      <3> QED
        BY <1>1, <1>3, <3>1, <3>2 DEF CheckKey, Goto, CallInv, CallTypeOK, Quiet, Marked, Owning,
           Writing, Pending
    <2>3. CASE MetaOf(c) = None
      <3>1. Answers(c, "notfound") /\ Goto(c, "return")
        BY <1>3, <2>3 DEF CheckKey, Peek
      <3>2. FoundSame(c) /\ call'[c].answer = "notfound"
        BY <1>2, <3>1, AnswersEdits DEF Told
      <3> QED
        BY <1>1, <1>3, <3>1, <3>2 DEF FoundSame, CheckKey, Goto, CallInv, CallTypeOK, Quiet,
           Marked, Owning, Writing, Pending
    <2> QED
      BY <2>2, <2>3
  <1>4. CASE StatData(c)
    <2>1. call[c].prev \in DataFiles /\ call[c].prev # "corrupt"
      BY <1>1, <1>2, <1>4 DEF StatData, OpAt, Told
    <2>2. CASE Answers(c, call[c].prev) /\ Goto(c, "return")
      <3>1. FoundSame(c) /\ call'[c].answer = call[c].prev
        BY <1>2, <2>1, <2>2, AnswersEdits
      <3> QED
        BY <1>1, <1>4, <2>1, <2>2, <3>1 DEF FoundSame, StatData, Goto, CallInv, CallTypeOK, Quiet,
           Marked, Owning, Writing, Pending
    <2>3. CASE Goto(c, "recheck") /\ UNCHANGED call
      BY <1>1, <1>4, <2>3 DEF StatData, Goto, CallInv, CallTypeOK, Quiet, Marked, Owning, Writing,
         Pending
    <2> QED
      BY <1>4, <2>2, <2>3 DEF StatData, Rechecks, LockThen
  <1>5. CASE OpenData(c) \/ RestatData(c)
    <2>1. /\ Here(c, "meta") /\ call[c].prev = meta /\ meta \in DataFiles /\ data[meta] = "whole"
          /\ pc[c] \in {"open_data", "restat"}
      BY <1>5 DEF OpenData, RestatData, Holding, KeyInv, HolderKnows, WholeBeforeCommit, CallInv,
         CallTypeOK
    <2>2. DataOf(c, call[c].prev) = "whole"
      BY <1>1, <2>1 DEF DirsAt, Here, AllDirs, DataOf
    <2>3. UNCHANGED call \/ (FoundSame(c) /\ call'[c].answer = meta)
      <3>1. UNCHANGED call \/ Answers(c, meta)
        BY <1>5, <2>1, <2>2 DEF OpenData, RestatData
      <3> QED
        BY <1>2, <2>1, <3>1, AnswersEdits
    <2>4. meta # "corrupt" /\ Goto(c, "unlock")
      BY <1>2, <1>5, <2>1 DEF Told, OpenData, RestatData
    <2> QED
      BY <1>1, <2>1, <2>3, <2>4 DEF FoundSame, Goto, CallInv, CallTypeOK, Quiet, Marked, Owning,
         Writing, Pending
  <1> QED
    BY <1>3, <1>4, <1>5

\* The steps of DeleteBucket that remove nothing of the key.
LEMMA QuietDeletes ==
    ASSUME NEW c \in Callers, ObjectStoreAssumption, LockTypeOK, CallInv, KeyInv,
           \/ Sweep(c) \/ Classify(c) \/ LockedState(c) \/ NextDebris(c) \/ RemoveRecord(c)
           \/ ListData(c) \/ ProbeData(c) \/ ProbedData(c) \/ ListLocks(c) \/ ProbeLock(c) \/ ProbedLock(c)
           \/ GiveUpFreeLock(c)
           \/ (RemoveMetaDir(c) /\ UNCHANGED open) \/ (RemoveObjectsDir(c) /\ UNCHANGED open)
           \/ (RemoveLocksDir(c) /\ UNCHANGED open)
    PROVE  Quiet(c)
  <1>1. call[c].answer # "corrupt" /\ CallsTyped
    BY DEF KeyInv, Unanswered, CallInv, CallTypeOK, CallsTyped
  <1>2. /\ UNCHANGED <<meta, temps, data, open, crashes>>
        /\ pc[c] \notin Owning /\ pc'[c] \notin Marked \cup Pending
    <2>1. CASE Sweep(c) \/ Classify(c) \/ LockedState(c) \/ NextDebris(c) \/ RemoveRecord(c)
      BY <2>1 DEF Sweep, Classify, LockedState, NextDebris, RemoveRecord, DiskSame, diskVars,
         Calling, CallSame,
         Holding, LockThen, Goto, CallInv, CallTypeOK, Marked, Owning, Writing, Pending
    <2>2. CASE ListData(c) \/ ProbeData(c) \/ ProbedData(c) \/ ListLocks(c) \/ ProbeLock(c) \/ ProbedLock(c)
      BY <2>2 DEF ListData, ProbeData, ProbedData, ListLocks, ProbeLock, ProbedLock, DiskSame,
         diskVars, Calling,
         CallSame, Goto, CallInv, CallTypeOK, Marked, Owning, Writing, Pending
    <2>3. CASE GiveUpFreeLock(c)
      BY <2>3 DEF GiveUpFreeLock, RemoveLockFile, CloseLockFile, DiskSame, diskVars, CallSame,
         Goto, CallInv,
         CallTypeOK, Marked, Owning, Writing, Pending
    <2>4. CASE RemoveMetaDir(c) /\ UNCHANGED open
      BY <2>4 DEF RemoveMetaDir, Goto, CallInv, CallTypeOK, Marked, Owning, Writing, Pending
    <2>5. CASE (RemoveObjectsDir(c) \/ RemoveLocksDir(c)) /\ UNCHANGED open
      BY <2>5 DEF RemoveObjectsDir, RemoveLocksDir, Goto, CallInv, CallTypeOK, Marked, Owning,
         Writing, Pending
    <2> QED
      BY <2>1, <2>2, <2>3, <2>4, <2>5
  <1>3. FoundSame(c) /\ call'[c].answer # "corrupt"
    <2>1. CASE LockedState(c)
      <3>1. call'[c].answer \in {"notempty", call[c].answer}
        BY <2>1 DEF LockedState, CallInv, CallTypeOK, Records
      <3> QED
        BY <1>1, <2>1, <3>1, StateEdits
    <2>2. CASE Sweep(c) \/ ListData(c)
      <3>1. PICK s \in SUBSET (DataFiles \cup {"meta"}) : ToDo(c, s)
        BY <2>2 DEF Sweep, ListData, Entries, Files, CallInv, CallTypeOK
      <3> QED
        BY <1>1, <3>1, ToDoEdits DEF AnswerSame
    <2>3. CASE ProbedData(c)
      <3>1. UNCHANGED call \/ ToDo(c, call[c].todo \ {NextOf(call[c].todo)})
        BY <2>3 DEF ProbedData
      <3> QED
        BY <1>1, <3>1, LeftOver DEF FoundSame, AnswerSame
    <2>4. CASE RemoveMetaDir(c) \/ RemoveLocksDir(c)
      <3>1. UNCHANGED call \/ Answers(c, "notempty") \/ Answers(c, "ok")
        BY <2>4 DEF RemoveMetaDir, RemoveLocksDir
      <3> QED
        BY <1>1, <3>1, AnswersEdits DEF FoundSame, Told
    <2>5. CASE UNCHANGED call
      BY <1>1, <2>5 DEF FoundSame
    <2> QED
      BY <2>1, <2>2, <2>3, <2>4, <2>5 DEF Classify, NextDebris, RemoveRecord, ProbeData, ListLocks,
         ProbeLock,
         ProbedLock, GiveUpFreeLock, RemoveLockFile, CloseLockFile, RemoveObjectsDir, CallSame
  <1> QED
    BY <1>2, <1>3 DEF Quiet, FoundSame

\* A step of c in which it learns what the metadata says.
Learns(c) ==
    /\ UNCHANGED <<meta, temps, data, open, crashes>>
    /\ pc[c] \notin Owning /\ pc'[c] \in {"create", "open_data", "restat", "remove_meta"}
    /\ call'[c].prev \in {meta, None} /\ call'[c].mine = call[c].mine
    /\ call'[c].answer # "corrupt" /\ (pc'[c] \in Pending => call'[c].answer = "pending")
    /\ pc'[c] # "create" => Here(c, "meta") /\ call'[c].prev = meta /\ meta # None
    /\ pc'[c] = "create" /\ Here(c, "meta") => call'[c].prev = meta /\ Meets(call'[c].match, meta)

LEMMA LearnsKeeps ==
    ASSUME NEW c \in Callers, ObjectStoreAssumption, CallInv, KeyInv, Frame(c), Learns(c)
    PROVE  KeyInv'
  <1>1. HolderKnows'
    BY DEF KeyInv, HolderKnows, Frame, Learns, Here
  <1>2. WrittenIsOwn'
    BY DEF KeyInv, WrittenIsOwn, Frame, Learns, Writing, ObjectStoreAssumption
  <1>3. WholeBeforeCommit'
    BY DEF KeyInv, WholeBeforeCommit, Frame, Learns, Here
  <1>4. FilesAreOwned'
    <2>1. \A d \in Callers : "objects" \notin open'[d] =>
          /\ pc'[d] \in Writing => data'[call'[d].mine] = "none"
          /\ pc'[d] = "remove_data" => data'[call'[d].prev] = "none"
      BY DEF KeyInv, FilesAreOwned, Frame, Learns, Writing
    <2>2. ASSUME crashes' = 0
          PROVE  \A t \in temps' : \E d \in Callers : pc'[d] = "rename" /\ call'[d].mine = t
      BY <2>2 DEF KeyInv, FilesAreOwned, Frame, Learns, Owning, Writing
    <2>3. ASSUME crashes' = 0, NEW f \in Files'
          PROVE  \/ f = meta'
                 \/ \E d \in Callers :
                      \/ pc'[d] \in Writing /\ call'[d].mine = f
                      \/ pc'[d] \in {"remove_previous", "remove_data"} /\ call'[d].prev = f
      BY <2>3 DEF KeyInv, FilesAreOwned, Frame, Learns, Owning, Files
    <2> QED
      BY <2>1, <2>2, <2>3 DEF FilesAreOwned
  <1>5. Unanswered'
    BY DEF KeyInv, Unanswered, Frame, Learns
  <1> QED
    BY <1>1, <1>2, <1>3, <1>4, <1>5 DEF KeyInv

LEMMA ReadsKeep ==
    ASSUME NEW c \in Callers, ObjectStoreAssumption, LockTypeOK, CallInv, KeyInv, Frame(c),
           PreviousDataFile(c) \/ ReadMeta(c) \/ FindObject(c) \/ Recheck(c)
    PROVE  KeyInv'
  <1>1. /\ call[c].answer # "corrupt" /\ (pc[c] \in Pending => call[c].answer = "pending")
        /\ UNCHANGED <<meta, temps, data, open, crashes>>
        /\ CallsTyped /\ Told \cap DataFiles = {} /\ pc \in [Callers -> Labels]
    BY DEF KeyInv, Unanswered, CallInv, CallTypeOK, CallsTyped, ObjectStoreAssumption,
       PreviousDataFile,
       ReadMeta, FindObject, Recheck, Peek, DiskSame, diskVars, Calling
  <1>2. /\ MetaOf(c) \in DataFiles \cup {None} /\ MetaOf(c) \in {meta, None}
        /\ MetaOf(c) # None => Here(c, "meta") /\ MetaOf(c) = meta
    BY DEF MetaOf, CallInv, CallTypeOK
  <1>3. Learns(c) \/ Quiet(c)
    <2>1. CASE PreviousDataFile(c)
      <3>1. CASE Meets(call[c].match, MetaOf(c)) /\ Remembers(c, MetaOf(c)) /\ Goto(c, "create")
        <4>1. /\ call'[c].prev = MetaOf(c) /\ call'[c].mine = call[c].mine /\ call'[c].answer = call[c].answer
              /\ call'[c].match = call[c].match
          BY <1>1, <1>2, <3>1, RemembersEdits DEF AnswerSame, RequestSame
        <4>2. pc'[c] = "create" /\ pc[c] = "previous"
          BY <1>1, <2>1, <3>1 DEF Goto, PreviousDataFile, Holding
        <4>3. Here(c, "meta") => MetaOf(c) = meta
          BY DEF MetaOf
        <4> QED
          BY <1>1, <1>2, <3>1, <4>1, <4>2, <4>3 DEF Learns, Owning, Writing, Pending
      <3>2. CASE Answers(c, IF Here(c, "meta") THEN "refused" ELSE "error") /\ Goto(c, "finish")
        <4>1. FoundSame(c) /\ call'[c].answer # "corrupt"
          BY <1>1, <3>2, AnswersEdits DEF Told
        <4> QED
          BY <1>1, <2>1, <3>2, <4>1 DEF FoundSame, Goto, PreviousDataFile, Holding, Quiet, Marked,
             Owning, Writing, Pending
      <3> QED
        BY <2>1, <3>1, <3>2 DEF PreviousDataFile
    <2>2. CASE ReadMeta(c) \/ FindObject(c) \/ Recheck(c)
      <3>1. pc[c] \notin Owning /\ pc[c] \in {"read", "find", "recheck"}
        BY <2>2 DEF ReadMeta, FindObject, Recheck, Holding, Owning, Writing
      <3>2. CASE MetaOf(c) # None
        <4>1. meta \in DataFiles /\ meta # "corrupt"
          BY <1>1, <1>2, <3>2 DEF Told
        <4>2. \/ Found(c, meta, meta) /\ Goto(c, "open_data")
              \/ Remembers(c, meta) /\ Goto(c, "restat")
              \/ Remembers(c, meta) /\ Goto(c, "remove_meta") /\ pc[c] = "find"
          BY <2>2, <3>2 DEF ReadMeta, FindObject, Recheck, Peek, Holding
        <4>3. /\ call'[c].prev = meta /\ call'[c].mine = call[c].mine
              /\ call'[c].answer = call[c].answer \/ call'[c].answer = meta
          BY <1>1, <4>1, <4>2, RemembersEdits, FoundEdits DEF AnswerSame
        <4>4. pc'[c] = "remove_meta" => call'[c].answer = call[c].answer /\ pc[c] = "find"
          BY <1>1, <4>1, <4>2, RemembersEdits DEF AnswerSame, Goto
        <4>5. pc'[c] \in {"open_data", "restat", "remove_meta"}
          BY <1>1, <4>2 DEF Goto
        <4> QED
          BY <1>1, <1>2, <3>1, <3>2, <4>1, <4>3, <4>4, <4>5 DEF Learns, Pending, Writing
      <3>3. CASE MetaOf(c) = None
        <4>1. PICK a \in {"notfound", "error", "ok"} : Answers(c, a) /\ Goto(c, "release")
          BY <2>2, <3>3 DEF ReadMeta, FindObject, Recheck, Peek
        <4>2. FoundSame(c) /\ call'[c].answer # "corrupt"
          BY <1>1, <4>1, AnswersEdits DEF Told
        <4> QED
          BY <1>1, <3>1, <4>1, <4>2 DEF FoundSame, Goto, Quiet, Marked, Owning, Writing, Pending
      <3> QED
        BY <3>2, <3>3
    <2> QED
      BY <2>1, <2>2
  <1> QED
    BY <1>3, LearnsKeeps, QuietKeeps

\* A step of c that may remove data files, and has c own no file.
Erases(c) ==
    /\ UNCHANGED <<meta, temps, open, crashes>>
    /\ \A f \in DataFiles : data'[f] \in {data[f], "none"}
    /\ meta # None => data'[meta] = data[meta]
    /\ \A d \in Callers \ {c} :
          pc[d] \in {"temp", "rename"} /\ Here(d, "meta") => data'[call[d].mine] = data[call[d].mine]
    /\ pc[c] # "rename" /\ (pc[c] \in Writing => data'[call[c].mine] = "none")
    /\ pc[c] \in {"remove_previous", "remove_data"} /\ call[c].prev # None => data'[call[c].prev] = "none"
    /\ pc'[c] \notin Marked \cup Pending
    /\ FoundSame(c) /\ call'[c].answer # "corrupt"

LEMMA ErasesKeeps ==
    ASSUME NEW c \in Callers, ObjectStoreAssumption, CallInv, KeyInv, Frame(c), Erases(c)
    PROVE  KeyInv'
  <1>1. HolderKnows'
    BY DEF KeyInv, HolderKnows, Frame, Erases, Here, Marked, Owning, Writing
  <1>2. WrittenIsOwn'
    BY DEF KeyInv, WrittenIsOwn, Frame, Erases, FoundSame, Marked, Owning
  <1>3. WholeBeforeCommit'
    BY DEF KeyInv, WholeBeforeCommit, Frame, Erases, Here, Marked, Owning, Writing
  <1>4. FilesAreOwned'
    <2>1. ASSUME NEW d \in Callers, "objects" \notin open'[d]
          PROVE  /\ pc'[d] \in Writing => data'[call'[d].mine] = "none"
                 /\ pc'[d] = "remove_data" => data'[call'[d].prev] = "none"
      <3>1. d # c => pc'[d] = pc[d] /\ call'[d] = call[d]
        BY DEF Frame
      <3>2. pc[d] \in Writing => call[d].mine \in DataFiles
        BY DEF KeyInv, WrittenIsOwn
      <3>3. pc[d] = "remove_data" => call[d].prev \in DataFiles
        BY DEF KeyInv, HolderKnows, CallInv, CallTypeOK, Records
      <3> QED
        BY <2>1, <3>1, <3>2, <3>3 DEF KeyInv, FilesAreOwned, Erases, Marked, Owning
    <2>2. ASSUME crashes' = 0
          PROVE  \A t \in temps' : \E d \in Callers : pc'[d] = "rename" /\ call'[d].mine = t
      BY <2>2 DEF KeyInv, FilesAreOwned, Frame, Erases
    <2>3. ASSUME crashes' = 0, NEW f \in Files'
          PROVE  \/ f = meta'
                 \/ \E d \in Callers :
                      \/ pc'[d] \in Writing /\ call'[d].mine = f
                      \/ pc'[d] \in {"remove_previous", "remove_data"} /\ call'[d].prev = f
      <3>1. f \in Files /\ f \in DataFiles /\ data'[f] # "none"
        BY <2>3 DEF Files, Erases
      <3>2. CASE f = meta
        BY <3>2 DEF Erases
      <3>3. CASE f # meta
        <4>1. PICK d \in Callers :
                 \/ pc[d] \in Writing /\ call[d].mine = f
                 \/ pc[d] \in {"remove_previous", "remove_data"} /\ call[d].prev = f
          BY <2>3, <3>1, <3>3 DEF KeyInv, FilesAreOwned, Erases
        <4>2. d # c
          BY <3>1, <4>1 DEF Erases, ObjectStoreAssumption
        <4> QED
          BY <4>1, <4>2 DEF Frame
      <3> QED
        BY <3>2, <3>3
    <2> QED
      BY <2>1, <2>2, <2>3 DEF FilesAreOwned
  <1>5. Unanswered'
    BY DEF KeyInv, Unanswered, Frame, Erases
  <1> QED
    BY <1>1, <1>2, <1>3, <1>4, <1>5 DEF KeyInv

\* RemovedData takes one file, that the directory of c holds.
LEMMA Removed ==
    ASSUME NEW c \in Callers, ObjectStoreAssumption, CallInv, NEW d \in DataFiles \cup {None},
           data' = RemovedData(c, d)
    PROVE  /\ \A f \in DataFiles : data'[f] \in {data[f], "none"} /\ (f # d => data'[f] = data[f])
           /\ d \in DataFiles /\ Here(c, "objects") => data'[d] = "none"
           /\ ~Here(c, "objects") => data' = data
  BY DEF RemovedData, CallInv, CallTypeOK, ObjectStoreAssumption

LEMMA RemovalsKeep ==
    ASSUME NEW c \in Callers, ObjectStoreAssumption, LockTypeOK, CallInv, KeyInv, Frame(c),
           RemovePrevious(c) \/ Discard(c) \/ RemoveData(c) \/ RemoveLeftData(c)
    PROVE  KeyInv'
  <1>1. /\ call[c].answer # "corrupt" /\ CallsTyped /\ pc \in [Callers -> Labels]
        /\ UNCHANGED <<meta, temps, open, crashes>>
    BY DEF KeyInv, Unanswered, CallInv, CallTypeOK, CallsTyped, RemovePrevious, Discard, RemoveData,
       RemoveLeftData, Calling
  <1>2. call[c].prev \in DataFiles \cup {None} /\ call[c].mine \in DataFiles \cup {None}
    BY <1>1 DEF CallsTyped, Records
  <1>3. \A d \in Callers : pc[d] \in Writing =>
           /\ call[d].mine \in DataFiles /\ call[d].mine # meta /\ call[d].mine # call[c].prev
           /\ call[d].mine = call[c].mine => c = d
    BY DEF KeyInv, WrittenIsOwn
  <1>4. CASE RemovePrevious(c)
    <2>1. pc[c] = "remove_previous" /\ pc'[c] = "finish" /\ call' = call /\ data' = RemovedData(c, call[c].prev)
      BY <1>1, <1>4 DEF RemovePrevious, Holding, Goto, Stale
    <2>2. Here(c, "meta") /\ call[c].prev # meta
      BY <2>1 DEF KeyInv, HolderKnows
    <2>3. Here(c, "objects")
      BY <2>1, <2>2 DEF CallInv, DirsHold, DirsAt, Here, AllDirs
    <2>4. meta \in DataFiles \cup {None}
      BY DEF CallInv, CallTypeOK
    <2> QED
      BY <1>1, <1>2, <1>3, <2>1, <2>2, <2>3, <2>4, Removed, ErasesKeeps
         DEF Erases, FoundSame, Marked, Owning, Writing, Pending
  <1>5. CASE Discard(c)
    <2>1. pc[c] = "discard" /\ pc'[c] = "finish" /\ Answers(c, "error") /\ data' = RemovedData(c, call[c].mine)
      BY <1>1, <1>5 DEF Discard, Holding, Goto, Discards
    <2>2. FoundSame(c) /\ call'[c].answer = "error"
      BY <1>1, <2>1, AnswersEdits DEF Told
    <2>3. ~Here(c, "objects") => data[call[c].mine] = "none"
      BY <2>1 DEF KeyInv, FilesAreOwned, Here, Writing
    <2>4. meta \in DataFiles \cup {None} /\ call[c].mine # meta /\ call[c].mine \in DataFiles
      BY <1>3, <2>1 DEF CallInv, CallTypeOK, Writing
    <2> QED
      BY <1>1, <1>2, <1>3, <2>1, <2>2, <2>3, <2>4, Removed, ErasesKeeps
         DEF Erases, Marked, Owning, Writing, Pending
  <1>6. CASE RemoveData(c)
    <2>1. pc[c] = "remove_data" /\ pc'[c] = "release" /\ call' = call /\ data' = RemovedData(c, call[c].prev)
      BY <1>1, <1>6 DEF RemoveData, Holding, Goto
    <2>2. call[c].prev # None /\ call[c].prev # meta /\ meta \in DataFiles \cup {None}
      BY <2>1 DEF KeyInv, HolderKnows, CallInv, CallTypeOK
    <2>3. ~Here(c, "objects") => data[call[c].prev] = "none"
      BY <2>1 DEF KeyInv, FilesAreOwned, Here
    <2> QED
      BY <1>1, <1>2, <1>3, <2>1, <2>2, <2>3, Removed, ErasesKeeps
         DEF Erases, FoundSame, Marked, Owning, Writing, Pending
  <1>7. CASE RemoveLeftData(c)
    <2>1. pc[c] = "rm_data" /\ pc'[c] \in {"rm_lock", "data_files"}
      BY <1>1, <1>7 DEF RemoveLeftData, Goto
    <2>2. meta = None /\ \A d \in Callers : ~Here(d, "meta")
      BY <2>1 DEF CallInv, DirsHold, DirsAt, MetaGone, Here
    <2>3. \A f \in DataFiles : data'[f] \in {data[f], "none"}
      BY <1>7 DEF RemoveLeftData, CallInv, CallTypeOK
    <2>4. FoundSame(c) /\ call'[c].answer = call[c].answer
      <3>1. ToDo(c, call[c].todo \ {NextOf(call[c].todo)})
        BY <1>7 DEF RemoveLeftData
      <3> QED
        BY <1>1, <3>1, LeftOver DEF AnswerSame
    <2> QED
      BY <1>1, <2>1, <2>2, <2>3, <2>4, ErasesKeeps DEF Erases, Marked, Owning, Writing, Pending
  <1> QED
    BY <1>4, <1>5, <1>6, <1>7

\* A step of c that removes a directory with nothing of the key in it.
Drops(c, dir) ==
    /\ UNCHANGED <<meta, temps, data, crashes>> /\ RemoveDir(c, dir)
    /\ dir = "meta" => meta = None /\ temps = {}
    /\ dir = "objects" => Files = {}
    /\ pc[c] \notin Owning /\ pc'[c] \notin Marked \cup Pending
    /\ FoundSame(c) /\ call'[c].answer # "corrupt"

LEMMA DropsKeeps ==
    ASSUME NEW c \in Callers, ObjectStoreAssumption, CallInv, KeyInv, Frame(c), NEW dir, Drops(c, dir)
    PROVE  KeyInv'
  <1>1. \A d \in Callers :
           /\ open'[d] = open[d] \ {dir}
           /\ "meta" \in open'[d] => "meta" \in open[d]
           /\ meta # None \/ temps # {} => ("meta" \in open[d] <=> "meta" \in open'[d])
    BY DEF Drops, RemoveDir
  <1>2. HolderKnows'
    BY <1>1 DEF KeyInv, HolderKnows, Frame, Drops, Here, Marked, Owning, Writing
  <1>3. WrittenIsOwn'
    BY DEF KeyInv, WrittenIsOwn, Frame, Drops, FoundSame, Marked, Owning
  <1>4. WholeBeforeCommit'
    BY <1>1 DEF KeyInv, WholeBeforeCommit, Frame, Drops, Here, Marked, Owning, Writing
  <1>5. FilesAreOwned'
    <2>1. ASSUME NEW d \in Callers, "objects" \notin open'[d]
          PROVE  /\ pc'[d] \in Writing => data'[call'[d].mine] = "none"
                 /\ pc'[d] = "remove_data" => data'[call'[d].prev] = "none"
      <3>1. d # c => pc'[d] = pc[d] /\ call'[d] = call[d]
        BY DEF Frame
      <3>2. pc[d] \in Writing => call[d].mine \in DataFiles
        BY DEF KeyInv, WrittenIsOwn
      <3>3. pc[d] = "remove_data" => call[d].prev \in DataFiles
        BY DEF KeyInv, HolderKnows, CallInv, CallTypeOK, Records
      <3>4. "objects" \notin open[d] \/ Files = {}
        BY <1>1, <2>1 DEF Drops
      <3> QED
        BY <3>1, <3>2, <3>3, <3>4 DEF KeyInv, FilesAreOwned, Files, Drops, Marked, Owning
    <2>2. ASSUME crashes' = 0
          PROVE  \A t \in temps' : \E d \in Callers : pc'[d] = "rename" /\ call'[d].mine = t
      BY <2>2 DEF KeyInv, FilesAreOwned, Frame, Drops, Owning, Writing
    <2>3. ASSUME crashes' = 0, NEW f \in Files'
          PROVE  \/ f = meta'
                 \/ \E d \in Callers :
                      \/ pc'[d] \in Writing /\ call'[d].mine = f
                      \/ pc'[d] \in {"remove_previous", "remove_data"} /\ call'[d].prev = f
      BY <2>3 DEF KeyInv, FilesAreOwned, Frame, Drops, Owning, Files
    <2> QED
      BY <2>1, <2>2, <2>3 DEF FilesAreOwned
  <1>6. Unanswered'
    BY DEF KeyInv, Unanswered, Frame, Drops
  <1> QED
    BY <1>2, <1>3, <1>4, <1>5, <1>6 DEF KeyInv

LEMMA RemovedDirsKeep ==
    ASSUME NEW c \in Callers, ObjectStoreAssumption, LockTypeOK, CallInv, KeyInv, Frame(c),
           RemoveMetaDir(c) \/ RemoveObjectsDir(c) \/ RemoveLocksDir(c)
    PROVE  KeyInv'
  <1>1. call[c].answer # "corrupt" /\ CallsTyped /\ pc \in [Callers -> Labels]
    BY DEF KeyInv, Unanswered, CallInv, CallTypeOK, CallsTyped
  <1>2. CASE UNCHANGED open
    BY <1>2, QuietDeletes, QuietKeeps
  <1>3. CASE ~UNCHANGED open
    <2>1. FoundSame(c) /\ call'[c].answer # "corrupt"
      <3>1. UNCHANGED call \/ Answers(c, "ok")
        BY <1>3 DEF RemoveMetaDir, RemoveObjectsDir, RemoveLocksDir
      <3> QED
        BY <1>1, <3>1, AnswersEdits DEF FoundSame, Told
    <2>2. pc[c] \notin Owning /\ pc'[c] \in {"rm_record", "lock_files", "unlock_bucket"}
      BY <1>1, <1>3 DEF RemoveMetaDir, RemoveObjectsDir, RemoveLocksDir, Goto, Owning, Writing
    <2>3. pc'[c] \notin Marked \cup Pending
      BY <2>2 DEF Marked, Owning, Writing, Pending
    <2>4. CASE RemoveMetaDir(c)
      <3>1. Entries = {} /\ Drops(c, "meta")
        BY <1>3, <2>1, <2>2, <2>3, <2>4 DEF RemoveMetaDir, Drops, Entries
      <3> QED
        BY <3>1, DropsKeeps
    <2>5. CASE RemoveObjectsDir(c)
      <3>1. Drops(c, "objects")
        BY <1>3, <2>1, <2>2, <2>3, <2>5 DEF RemoveObjectsDir, Drops
      <3> QED
        BY <3>1, DropsKeeps
    <2>6. CASE RemoveLocksDir(c)
      <3>1. Drops(c, "locks")
        BY <1>3, <2>1, <2>2, <2>3, <2>6 DEF RemoveLocksDir, Drops
      <3> QED
        BY <3>1, DropsKeeps
    <2> QED
      BY <2>4, <2>5, <2>6
  <1> QED
    BY <1>2, <1>3

\* The new data file is nobody's.
LEMMA CreateKeeps ==
    ASSUME NEW c \in Callers, ObjectStoreAssumption, LockTypeOK, CallInv, KeyInv, Frame(c), CreateDataFile(c)
    PROVE  KeyInv'
  <1> DEFINE f == FreshData
  <1>1. f \in UnusedData
    BY UnusedIsFree DEF CreateDataFile
  <1>2. /\ f \in DataFiles /\ data[f] = "none" /\ f \notin temps /\ f # meta
        /\ \A d \in Callers : f # call[d].prev /\ f # call[d].mine
    BY <1>1 DEF UnusedData, Files
  <1> HIDE DEF f
  <1>3. /\ pc[c] = "create" /\ UNCHANGED <<meta, temps, open, crashes>> /\ pc \in [Callers -> Labels]
        /\ call[c].answer = "pending" /\ CallsTyped
    BY DEF CreateDataFile, Holding, Calling, KeyInv, Unanswered, Pending, CallInv, CallTypeOK,
       CallsTyped
  <1>4. CASE Here(c, "objects")
    <2>1. /\ data' = [data EXCEPT ![f] = "partial"] /\ pc'[c] = "copy"
          /\ call' = [call EXCEPT ![c].mine = f]
      BY <1>3, <1>4 DEF CreateDataFile, Goto, f
    <2>2. /\ call'[c].mine = f /\ call'[c].prev = call[c].prev /\ call'[c].match = call[c].match
          /\ call'[c].answer = "pending"
      BY <1>3, <2>1 DEF CallsTyped, Records
    <2>3. \A g \in DataFiles : g # f => data'[g] = data[g]
      BY <2>1 DEF CallInv, CallTypeOK
    <2>4. HolderKnows'
      BY <1>3, <2>1, <2>2 DEF KeyInv, HolderKnows, Frame, Here
    <2>5. WrittenIsOwn'
      BY <1>2, <1>3, <2>1, <2>2 DEF KeyInv, WrittenIsOwn, Frame, Writing
    <2>6. WholeBeforeCommit'
      <3>1. meta # None => meta \in DataFiles
        BY DEF CallInv, CallTypeOK
      <3>2. \A d \in Callers : pc[d] \in {"temp", "rename"} => call[d].mine \in DataFiles
        BY DEF KeyInv, WrittenIsOwn, Writing
      <3> QED
        BY <1>2, <1>3, <2>1, <2>3, <3>1, <3>2 DEF KeyInv, WholeBeforeCommit, Frame, Here
    <2>7. FilesAreOwned'
      <3>1. ASSUME NEW d \in Callers, "objects" \notin open'[d]
            PROVE  /\ pc'[d] \in Writing => data'[call'[d].mine] = "none"
                   /\ pc'[d] = "remove_data" => data'[call'[d].prev] = "none"
        <4>1. d # c /\ pc'[d] = pc[d] /\ call'[d] = call[d]
          BY <1>3, <1>4, <3>1 DEF Frame, Here
        <4>2. pc[d] \in Writing => call[d].mine \in DataFiles
          BY DEF KeyInv, WrittenIsOwn
        <4>3. pc[d] = "remove_data" => call[d].prev \in DataFiles
          BY DEF KeyInv, HolderKnows, CallInv, CallTypeOK, Records
        <4> QED
          BY <1>2, <1>3, <2>3, <3>1, <4>1, <4>2, <4>3 DEF KeyInv, FilesAreOwned
      <3>2. ASSUME crashes' = 0
            PROVE  \A t \in temps' : \E d \in Callers : pc'[d] = "rename" /\ call'[d].mine = t
        BY <1>3, <3>2 DEF KeyInv, FilesAreOwned, Frame
      <3>3. ASSUME crashes' = 0, NEW g \in Files'
            PROVE  \/ g = meta'
                   \/ \E d \in Callers :
                        \/ pc'[d] \in Writing /\ call'[d].mine = g
                        \/ pc'[d] \in {"remove_previous", "remove_data"} /\ call'[d].prev = g
        <4>1. CASE g = f
          BY <2>1, <2>2, <4>1 DEF Writing
        <4>2. CASE g # f
          <5>1. g \in Files
            BY <2>3, <3>3, <4>2 DEF Files
          <5> QED
            BY <1>3, <3>3, <5>1 DEF KeyInv, FilesAreOwned, Frame, Writing
        <4> QED
          BY <4>1, <4>2
      <3> QED
        BY <3>1, <3>2, <3>3 DEF FilesAreOwned
    <2>8. Unanswered'
      BY <1>3, <2>2 DEF KeyInv, Unanswered, Frame
    <2> QED
      BY <2>4, <2>5, <2>6, <2>7, <2>8 DEF KeyInv
  <1>5. CASE ~Here(c, "objects")
    <2>1. Answers(c, "error") /\ pc'[c] = "finish" /\ UNCHANGED data
      BY <1>3, <1>5 DEF CreateDataFile, Goto
    <2>2. FoundSame(c) /\ call'[c].answer = "error"
      BY <1>3, <2>1, AnswersEdits DEF Told
    <2> QED
      BY <1>3, <2>1, <2>2, QuietKeeps DEF Quiet, FoundSame, Marked, Owning, Writing, Pending
  <1> QED
    BY <1>4, <1>5

\* The steps of the one write that has the data file: its body, its temp file.
LEMMA WritesKeep ==
    ASSUME NEW c \in Callers, ObjectStoreAssumption, LockTypeOK, CallInv, KeyInv, Frame(c),
           CopyBody(c) \/ WriteTemp(c)
    PROVE  KeyInv'
  <1>1. /\ pc[c] \in {"copy", "temp"} /\ pc[c] \in Writing /\ pc'[c] \in {"temp", "rename", "discard"}
        /\ UNCHANGED <<meta, open, crashes, call>>
    BY DEF CopyBody, WriteTemp, Holding, Goto, Calling, Writing, CallInv, CallTypeOK
  <1>2. /\ call[c].mine \in DataFiles /\ call[c].mine # meta
        /\ \A d \in Callers \ {c} : pc[d] \in Writing => call[d].mine \in DataFiles /\ call[d].mine # call[c].mine
        /\ \A d \in Callers : call[d].prev # call[c].mine
    BY <1>1 DEF KeyInv, WrittenIsOwn
  <1>3. /\ pc'[c] = "temp" => pc[c] = "copy" /\ temps' = temps /\ Here(c, "objects")
              /\ data' = [data EXCEPT ![call[c].mine] = "whole"]
        /\ pc'[c] = "rename" => pc[c] = "temp" /\ temps' = temps \cup {call[c].mine} /\ Here(c, "meta") /\ data' = data
        /\ pc'[c] = "discard" => data' = data /\ temps' = temps
    BY DEF CopyBody, WriteTemp, DataOf, Holding, Goto, CallInv, CallTypeOK
  <1>4. /\ temps \subseteq temps' /\ temps' \subseteq temps \cup {call[c].mine}
        /\ \A g \in DataFiles : g # call[c].mine => data'[g] = data[g]
    BY <1>1, <1>3 DEF CallInv, CallTypeOK
  <1>5. HolderKnows'
    BY <1>1, <1>3, <1>4 DEF KeyInv, HolderKnows, Frame, Here
  <1>6. WrittenIsOwn'
    BY <1>1 DEF KeyInv, WrittenIsOwn, Frame, Writing
  <1>7. WholeBeforeCommit'
    <2>1. meta # None => meta \in DataFiles
      BY DEF CallInv, CallTypeOK
    <2>2. pc'[c] = "temp" => data'[call[c].mine] = "whole"
      BY <1>2, <1>3 DEF CallInv, CallTypeOK
    <2> QED
      BY <1>1, <1>2, <1>3, <1>4, <2>1, <2>2 DEF KeyInv, WholeBeforeCommit, Frame, Here, Writing
  <1>8. FilesAreOwned'
    <2>1. ASSUME NEW d \in Callers, "objects" \notin open'[d]
          PROVE  /\ pc'[d] \in Writing => data'[call'[d].mine] = "none"
                 /\ pc'[d] = "remove_data" => data'[call'[d].prev] = "none"
      <3>1. CASE d = c
        BY <1>1, <1>3, <2>1, <3>1 DEF KeyInv, FilesAreOwned, Here
      <3>2. CASE d # c
        <4>1. pc'[d] = pc[d] /\ call'[d] = call[d]
          BY <3>2 DEF Frame
        <4>2. pc[d] = "remove_data" => call[d].prev \in DataFiles
          BY DEF KeyInv, HolderKnows, CallInv, CallTypeOK, Records
        <4> QED
          BY <1>1, <1>2, <1>4, <2>1, <3>2, <4>1, <4>2 DEF KeyInv, FilesAreOwned
      <3> QED
        BY <3>1, <3>2
    <2>2. ASSUME crashes' = 0, NEW t \in temps'
          PROVE  \E d \in Callers : pc'[d] = "rename" /\ call'[d].mine = t
      <3>1. CASE t \in temps
        BY <1>1, <2>2, <3>1 DEF KeyInv, FilesAreOwned, Frame
      <3>2. CASE t \notin temps
        BY <1>1, <1>3, <2>2, <3>2
      <3> QED
        BY <3>1, <3>2
    <2>3. ASSUME crashes' = 0, NEW g \in Files'
          PROVE  \/ g = meta'
                 \/ \E d \in Callers :
                      \/ pc'[d] \in Writing /\ call'[d].mine = g
                      \/ pc'[d] \in {"remove_previous", "remove_data"} /\ call'[d].prev = g
      <3>1. CASE g = call[c].mine
        BY <1>1, <3>1 DEF Writing
      <3>2. CASE g # call[c].mine
        <4>1. g \in Files
          BY <1>4, <2>3, <3>2 DEF Files
        <4> QED
          BY <1>1, <2>3, <4>1 DEF KeyInv, FilesAreOwned, Frame, Writing
      <3> QED
        BY <3>1, <3>2
    <2> QED
      BY <2>1, <2>2, <2>3 DEF FilesAreOwned
  <1>9. Unanswered'
    BY <1>1 DEF KeyInv, Unanswered, Frame, Writing, Pending
  <1> QED
    BY <1>5, <1>6, <1>7, <1>8, <1>9 DEF KeyInv

\* The rename commits: the metadata names the new data file, which is whole,
\* and the caller that renamed it has the previous one to remove.
LEMMA RenameCommits ==
    ASSUME NEW c \in Callers, LockInv, CallInv, KeyInv, Rename(c)
    PROVE  /\ Here(c, "meta") /\ call[c].prev = meta /\ Meets(call[c].match, meta)
           /\ meta' = call[c].mine /\ temps' = temps \ {call[c].mine} /\ Answers(c, "ok")
           /\ UNCHANGED <<data, open, crashes, dirs>> /\ pc[c] = "rename" /\ pc'[c] = "remove_previous"
  <1>1. pc[c] = "rename" /\ Here(c, "meta") /\ call[c].mine \in temps
    BY DEF Rename, Holding, KeyInv, HolderKnows
  <1>2. call[c].prev = meta /\ Meets(call[c].match, meta)
    BY <1>1 DEF KeyInv, HolderKnows
  <1> QED
    BY <1>1, <1>2 DEF Rename, Goto, Calling, CallInv, CallTypeOK

LEMMA RenameKeeps ==
    ASSUME NEW c \in Callers, ObjectStoreAssumption, LockInv, CallInv, KeyInv, Frame(c), Rename(c)
    PROVE  KeyInv'
  <1>1. /\ Here(c, "meta") /\ call[c].prev = meta /\ meta' = call[c].mine
        /\ temps' = temps \ {call[c].mine} /\ Answers(c, "ok")
        /\ UNCHANGED <<data, open, crashes>> /\ pc[c] = "rename" /\ pc'[c] = "remove_previous"
    BY RenameCommits
  <1>2. FoundSame(c) /\ call'[c].answer = "ok"
    BY <1>1, AnswersEdits DEF Told, CallInv, CallTypeOK, CallsTyped
  <1>3. /\ call[c].mine \in DataFiles /\ call[c].mine # meta
        /\ \A d \in Callers \ {c} : pc[d] \in Writing => call[d].mine \in DataFiles /\ call[d].mine # call[c].mine
        /\ \A d \in Callers : call[d].prev # call[c].mine
    BY <1>1 DEF KeyInv, WrittenIsOwn, Writing
  <1>4. \A d \in Callers \ {c} : pc[d] \in Marked => ~Here(d, "meta")
    BY <1>1, Alone DEF Rename, Holding, Working, Writing
  <1>5. HolderKnows'
    BY <1>1, <1>2, <1>3, <1>4 DEF KeyInv, HolderKnows, Frame, Here, FoundSame, Marked, Owning,
       Writing, ObjectStoreAssumption
  <1>6. WrittenIsOwn'
    BY <1>1, <1>2, <1>3 DEF KeyInv, WrittenIsOwn, Frame, FoundSame, Writing
  <1>7. WholeBeforeCommit'
    <2>1. data[call[c].mine] = "whole"
      BY <1>1 DEF KeyInv, WholeBeforeCommit
    <2> QED
      BY <1>1, <1>4, <2>1 DEF KeyInv, WholeBeforeCommit, Frame, Here, Marked, Owning, Writing
  <1>8. FilesAreOwned'
    <2>1. ASSUME NEW d \in Callers, "objects" \notin open'[d]
          PROVE  /\ pc'[d] \in Writing => data'[call'[d].mine] = "none"
                 /\ pc'[d] = "remove_data" => data'[call'[d].prev] = "none"
      BY <1>1, <2>1 DEF KeyInv, FilesAreOwned, Frame, Writing
    <2>2. ASSUME crashes' = 0, NEW t \in temps'
          PROVE  \E d \in Callers : pc'[d] = "rename" /\ call'[d].mine = t
      <3>1. PICK d \in Callers : pc[d] = "rename" /\ call[d].mine = t
        BY <1>1, <2>2 DEF KeyInv, FilesAreOwned
      <3>2. d # c
        BY <1>1, <2>2, <3>1
      <3> QED
        BY <3>1, <3>2 DEF Frame
    <2>3. ASSUME crashes' = 0, NEW g \in Files'
          PROVE  \/ g = meta'
                 \/ \E d \in Callers :
                      \/ pc'[d] \in Writing /\ call'[d].mine = g
                      \/ pc'[d] \in {"remove_previous", "remove_data"} /\ call'[d].prev = g
      <3>1. CASE g = call[c].mine \/ g = meta
        BY <1>1, <1>2, <3>1 DEF FoundSame
      <3>2. CASE g # call[c].mine /\ g # meta
        <4>1. PICK d \in Callers :
                 \/ pc[d] \in Writing /\ call[d].mine = g
                 \/ pc[d] \in {"remove_previous", "remove_data"} /\ call[d].prev = g
          BY <1>1, <2>3, <3>2 DEF KeyInv, FilesAreOwned, Files
        <4>2. d # c
          BY <1>1, <3>2, <4>1
        <4> QED
          BY <4>1, <4>2 DEF Frame
      <3> QED
        BY <3>1, <3>2
    <2> QED
      BY <2>1, <2>2, <2>3 DEF FilesAreOwned
  <1>9. Unanswered'
    BY <1>1, <1>2 DEF KeyInv, Unanswered, Frame, Writing, Pending
  <1> QED
    BY <1>5, <1>6, <1>7, <1>8, <1>9 DEF KeyInv

LEMMA RemoveMetaKeeps ==
    ASSUME NEW c \in Callers, ObjectStoreAssumption, LockInv, CallInv, KeyInv, Frame(c), RemoveMeta(c)
    PROVE  KeyInv'
  <1>1. /\ pc[c] = "remove_meta" /\ pc'[c] = "remove_data" /\ UNCHANGED <<temps, data, open, crashes>>
        /\ Here(c, "meta") /\ call[c].prev = meta /\ meta # None /\ meta' = None
    BY DEF RemoveMeta, Holding, Goto, Calling, KeyInv, HolderKnows, CallInv, CallTypeOK
  <1>2. FoundSame(c) /\ call'[c].answer = "ok"
    BY AnswersEdits DEF RemoveMeta, Told, CallInv, CallTypeOK, CallsTyped
  <1>3. \A d \in Callers \ {c} : pc[d] \in Marked => ~Here(d, "meta")
    BY <1>1, Alone DEF RemoveMeta, Holding, Working
  <1>4. open[c] = AllDirs
    BY <1>1 DEF CallInv, DirsHold, DirsAt, Here
  <1>5. HolderKnows'
    BY <1>1, <1>2, <1>3 DEF KeyInv, HolderKnows, Frame, Here, FoundSame, Marked, Owning, Writing
  <1>6. WrittenIsOwn'
    BY <1>1, <1>2 DEF KeyInv, WrittenIsOwn, Frame, FoundSame, Writing, ObjectStoreAssumption
  <1>7. WholeBeforeCommit'
    BY <1>1 DEF KeyInv, WholeBeforeCommit, Frame, Here
  <1>8. FilesAreOwned'
    <2>1. ASSUME NEW d \in Callers, "objects" \notin open'[d]
          PROVE  /\ pc'[d] \in Writing => data'[call'[d].mine] = "none"
                 /\ pc'[d] = "remove_data" => data'[call'[d].prev] = "none"
      BY <1>1, <1>4, <2>1 DEF KeyInv, FilesAreOwned, Frame, AllDirs
    <2>2. ASSUME crashes' = 0
          PROVE  \A t \in temps' : \E d \in Callers : pc'[d] = "rename" /\ call'[d].mine = t
      BY <1>1, <2>2 DEF KeyInv, FilesAreOwned, Frame
    <2>3. ASSUME crashes' = 0, NEW g \in Files'
          PROVE  \/ g = meta'
                 \/ \E d \in Callers :
                      \/ pc'[d] \in Writing /\ call'[d].mine = g
                      \/ pc'[d] \in {"remove_previous", "remove_data"} /\ call'[d].prev = g
      <3>1. CASE g = meta
        BY <1>1, <1>2, <3>1 DEF FoundSame
      <3>2. CASE g # meta
        <4>1. PICK d \in Callers :
                 \/ pc[d] \in Writing /\ call[d].mine = g
                 \/ pc[d] \in {"remove_previous", "remove_data"} /\ call[d].prev = g
          BY <1>1, <2>3, <3>2 DEF KeyInv, FilesAreOwned, Files
        <4>2. d # c
          BY <1>1, <4>1 DEF Writing
        <4> QED
          BY <4>1, <4>2 DEF Frame
      <3> QED
        BY <3>1, <3>2
    <2> QED
      BY <2>1, <2>2, <2>3 DEF FilesAreOwned
  <1>9. Unanswered'
    BY <1>1, <1>2 DEF KeyInv, Unanswered, Frame, Writing, Pending
  <1> QED
    BY <1>5, <1>6, <1>7, <1>8, <1>9 DEF KeyInv

\* Debris is a temp file: metadata without its data file there never is.
LEMMA DebrisIsTemp ==
    ASSUME NEW c \in Callers, ObjectStoreAssumption, CallInv, KeyInv, RemoveDebris(c)
    PROVE  /\ UNCHANGED <<meta, data, open, crashes, dirs>> /\ temps' \subseteq temps
           /\ pc[c] = "rm_debris" /\ pc'[c] \in {"release", "unlock"} /\ FoundSame(c)
           /\ call'[c].answer = call[c].answer
  <1> DEFINE e == NextOf(call[c].debris)
  <1>1. Debris("meta") => "meta" \notin temps /\ FALSE
    BY DEF Debris, KeyInv, WholeBeforeCommit
  <1>2. UNCHANGED meta /\ temps' \subseteq temps
    BY <1>1 DEF RemoveDebris
  <1>3. FoundSame(c)
    BY DebrisEdits
  <1>4. call'[c].answer = call[c].answer
    BY DEF RemoveDebris, CallInv, CallTypeOK, Records
  <1> QED
    BY <1>2, <1>3, <1>4 DEF RemoveDebris, Holding, Goto, Calling, CallInv, CallTypeOK

LEMMA RemoveDebrisKeeps ==
    ASSUME NEW c \in Callers, ObjectStoreAssumption, LockInv, CallInv, KeyInv, Frame(c), RemoveDebris(c)
    PROVE  KeyInv'
  <1>1. /\ UNCHANGED <<meta, data, open, crashes>> /\ temps' \subseteq temps
        /\ pc[c] = "rm_debris" /\ pc'[c] \in {"release", "unlock"} /\ FoundSame(c)
        /\ call'[c].answer = call[c].answer
    BY DebrisIsTemp
  <1>2. Here(c, "meta") /\ lk[c] = "held"
    <2>1. call[c].op = "delete_bucket"
      BY <1>1 DEF CallInv, CallsHold, OpAt, Sweeping
    <2> QED
      BY <1>1, <2>1 DEF RemoveDebris, Holding, CallInv, DirsHold, DirsAt, Here, Sweeping
  <1>3. \A d \in Callers \ {c} : pc[d] \in Marked => ~Here(d, "meta")
    BY <1>1, <1>2, Alone
  <1>4. \A d \in Callers : pc[d] # "rename"
    BY <1>1, <1>3 DEF KeyInv, HolderKnows, Marked, Owning, Writing
  <1>5. HolderKnows'
    BY <1>1, <1>4 DEF KeyInv, HolderKnows, Frame, Here
  <1>6. WrittenIsOwn'
    BY <1>1 DEF KeyInv, WrittenIsOwn, Frame, FoundSame, Writing
  <1>7. WholeBeforeCommit'
    BY <1>1 DEF KeyInv, WholeBeforeCommit, Frame, Here
  <1>8. FilesAreOwned'
    BY <1>1, <1>4 DEF KeyInv, FilesAreOwned, Files, Frame, Writing
  <1>9. Unanswered'
    BY <1>1 DEF KeyInv, Unanswered, Frame, Writing, Pending
  <1> QED
    BY <1>5, <1>6, <1>7, <1>8, <1>9 DEF KeyInv

LEMMA LockingKeeps ==
    ASSUME UNCHANGED <<diskVars, procVars>>, KeyInv
    PROVE  KeyInv'
  BY DEF diskVars, procVars, KeyInv, HolderKnows, WrittenIsOwn, WholeBeforeCommit, FilesAreOwned,
     Unanswered,
     Files, Here

LEMMA KeyInvKept ==
    ASSUME NEW c \in Callers, ObjectStoreAssumption, LockInv, CallInv, KeyInv, Frame(c), Step(c)
    PROVE  KeyInv'
  <1>1. LockTypeOK
    BY DEF LockInv
  <1>2. CASE \/ Begin(c) \/ Return(c) \/ Crash(c) \/ OpenBucket(c) \/ LockFailed(c)
             \/ UnlockWith(c) \/ ReleaseWith(c) \/ Released(c) \/ FinishCreate(c)
             \/ LockBucket(c) \/ UnlockBucket(c) \/ CreateBucket(c)
    BY <1>1, <1>2, QuietSteps, QuietKeeps
  <1>3. CASE Locking(c)
    BY <1>3, LockingKeeps DEF Locking
  <1>4. CASE CreateObject(c) /\ ~FinishCreate(c)
    BY <1>1, <1>4, ReadsKeep, CreateKeeps, WritesKeep, RenameKeeps, RemovalsKeep DEF CreateObject
  <1>5. CASE OpenObject(c) \/ DeleteObject(c)
    BY <1>1, <1>5, ReadsKeep, QuietReads, QuietKeeps, RemoveMetaKeeps, RemovalsKeep DEF OpenObject,
       DeleteObject
  <1>6. CASE Keys(c)
    BY <1>1, <1>6, ReadsKeep, QuietReads, QuietKeeps DEF Keys
  <1>7. CASE DeleteBucket(c)
    BY <1>1, <1>7, QuietDeletes, QuietKeeps, RemoveDebrisKeeps, RemovalsKeep, RemovedDirsKeep
      DEF DeleteBucket
  <1> QED
    BY <1>2, <1>3, <1>4, <1>5, <1>6, <1>7 DEF Step, CreateObject

(***************************************************************************)
(* What the register sees                                                  *)
(***************************************************************************)
AskedView == [c \in Callers |-> Asked(c)]
AnswerView == [c \in Callers |-> Answered(c)]
OutlivedView == {c \in Callers : Outlived(c)}
AskedOps == {"put", "get", "delete"}

RequestSeen(c) == AskedView'[c] = AskedView[c] /\ (c \in OutlivedView' <=> c \in OutlivedView)
ViewSame(c) == RequestSeen(c) /\ AnswerView'[c] = AnswerView[c]
BucketSame == meta' = meta /\ ("meta" \in dirs' <=> "meta" \in dirs)
RegisterNext == Register!Next \/ UNCHANGED Register!regVars

LEMMA ViewOf ==
    ASSUME NEW c \in Callers, ObjectStoreAssumption, CallTypeOK
    PROVE  /\ call[c].op \in AskedOps => AskedView[c] # None
           /\ call[c].op \notin AskedOps => AskedView[c] = None
           /\ AskedView[c] # None =>
                 /\ call[c].op \in AskedOps /\ AskedView[c] = [op |-> call[c].op, match |-> call[c].match]
                 /\ AskedView[c] \in [op : AskedOps, match : Matches]
                 /\ AnswerView[c] = call[c].answer
                 /\ c \in OutlivedView <=> (pc[c] # "open_meta" /\ ~Here(c, "meta"))
           /\ AskedView[c] = None => AnswerView[c] = "pending" /\ c \notin OutlivedView
  <1>1. AskedView[c] = Asked(c) /\ AnswerView[c] = Answered(c) /\ (c \in OutlivedView <=> Outlived(c))
    BY DEF AskedView, AnswerView, OutlivedView
  <1>2. call[c].op \in AskedOps =>
           /\ [op |-> call[c].op, match |-> call[c].match] \in [op : AskedOps, match : Matches]
           /\ Asked(c) = [op |-> call[c].op, match |-> call[c].match]
    BY DEF Asked, AskedOps, CallTypeOK, Records
  <1>3. call[c].op \notin AskedOps => Asked(c) = None
    BY DEF Asked, AskedOps
  <1>4. None \notin [op : AskedOps, match : Matches]
    BY DEF ObjectStoreAssumption, AskedOps, ObjectOps
  <1>5. /\ Answered(c) = IF Asked(c) = None THEN "pending" ELSE call[c].answer
        /\ Outlived(c) <=> Asked(c) # None /\ pc[c] # "open_meta" /\ ~Here(c, "meta")
    BY DEF Answered, Outlived
  <1> QED
    BY <1>1, <1>2, <1>3, <1>4, <1>5

LEMMA OthersViewSame ==
    ASSUME NEW c \in Callers, NEW d \in Callers \ {c}, Frame(c), "meta" \in open'[d] <=> "meta" \in open[d]
    PROVE  ViewSame(d)
  BY DEF Frame, ViewSame, RequestSeen, AskedView, AnswerView, OutlivedView, Asked, Answered,
     Outlived, Here

LEMMA Stutters ==
    ASSUME BucketSame, \A d \in Callers : ViewSame(d)
    PROVE  RegisterNext
  <1>1. AskedView' = AskedView /\ AnswerView' = AnswerView
    BY DEF AskedView, AnswerView, ViewSame, RequestSeen
  <1>2. OutlivedView' = OutlivedView
    BY DEF OutlivedView, ViewSame, RequestSeen
  <1> QED
    BY <1>1, <1>2 DEF RegisterNext, Register!regVars, BucketSame, AskedView, AnswerView,
       OutlivedView

\* c's call gets its answer.
Effects(c) ==
    /\ \A d \in Callers \ {c} : ViewSame(d)
    /\ RequestSeen(c)
    /\ AskedView[c] # None /\ AnswerView[c] = "pending" /\ AnswerView'[c] # "pending"

LEMMA EffectsAnswer ==
    ASSUME NEW c \in Callers, Effects(c)
    PROVE  AskedView' = AskedView /\ OutlivedView' = OutlivedView
           /\ AnswerView' = [AnswerView EXCEPT ![c] = AnswerView'[c]]
  BY DEF AskedView, OutlivedView, AnswerView, Effects, ViewSame, RequestSeen

LEMMA ViewOfNext ==
    ASSUME NEW c \in Callers, ObjectStoreAssumption, CallTypeOK'
    PROVE  /\ call'[c].op \in AskedOps => AskedView'[c] # None
           /\ call'[c].op \notin AskedOps => AskedView'[c] = None
           /\ AskedView'[c] # None =>
                 /\ call'[c].op \in AskedOps /\ AskedView'[c] = [op |-> call'[c].op, match |-> call'[c].match]
                 /\ AskedView'[c] \in [op : AskedOps, match : Matches]
                 /\ AnswerView'[c] = call'[c].answer
                 /\ c \in OutlivedView' <=> (pc'[c] # "open_meta" /\ "meta" \notin open'[c])
           /\ AskedView'[c] = None => AnswerView'[c] = "pending" /\ c \notin OutlivedView'
  <1> DEFINE asks == call'[c].op \in AskedOps
  <1> DEFINE request == [op |-> call'[c].op, match |-> call'[c].match]
  <1>1. /\ AskedView'[c] = IF asks THEN request ELSE None
        /\ AnswerView'[c] = IF AskedView'[c] = None THEN "pending" ELSE call'[c].answer
        /\ c \in OutlivedView' <=> (AskedView'[c] # None /\ pc'[c] # "open_meta" /\ "meta" \notin open'[c])
    BY DEF AskedView, AnswerView, OutlivedView, Asked, Answered, Outlived, AskedOps, Here
  <1>2. asks => request \in [op : AskedOps, match : Matches]
    BY DEF AskedOps, CallTypeOK, Records
  <1>3. None \notin [op : AskedOps, match : Matches]
    BY DEF ObjectStoreAssumption, AskedOps, ObjectOps
  <1> QED
    BY <1>1, <1>2, <1>3

\* The call c is on goes on.
LEMMA SameRequest ==
    ASSUME NEW c \in Callers, ObjectStoreAssumption, CallTypeOK, CallTypeOK', RequestSame(c),
           \/ call[c].op \notin AskedOps
           \/ (pc'[c] # "open_meta" /\ "meta" \notin open'[c]) <=> (pc[c] # "open_meta" /\ "meta" \notin open[c])
    PROVE  RequestSeen(c) /\ (AnswerSame(c) \/ call[c].op \notin AskedOps => ViewSame(c))
  <1>1. AskedView'[c] = AskedView[c]
    <2>1. CASE call[c].op \in AskedOps
      <3>1. AskedView[c] = [op |-> call[c].op, match |-> call[c].match]
        BY <2>1, ViewOf
      <3>2. AskedView'[c] = [op |-> call'[c].op, match |-> call'[c].match]
        BY <2>1, ViewOfNext DEF RequestSame
      <3> QED
        BY <3>1, <3>2 DEF RequestSame
    <2>2. CASE call[c].op \notin AskedOps
      <3>1. AskedView[c] = None
        BY <2>2, ViewOf
      <3>2. AskedView'[c] = None
        BY <2>2, ViewOfNext DEF RequestSame
      <3> QED
        BY <3>1, <3>2
    <2> QED
      BY <2>1, <2>2
  <1> QED
    BY <1>1, ViewOf, ViewOfNext DEF RequestSame, RequestSeen, ViewSame, AnswerSame, Here

\* It is over.
LEMMA GoneReturns ==
    ASSUME NEW c \in Callers, ObjectStoreAssumption, CallTypeOK, CallTypeOK', BucketSame,
           \A d \in Callers \ {c} : ViewSame(d), call'[c] = NoCall
    PROVE  RegisterNext
  <1>1. AskedView'[c] = None /\ AnswerView'[c] = "pending" /\ c \notin OutlivedView'
    <2>1. call'[c].op \notin AskedOps
      BY DEF NoCall, AskedOps
    <2> QED
      BY <2>1, ViewOfNext
  <1>2. CASE AskedView[c] = None
    <2>1. ViewSame(c)
      BY <1>1, <1>2, ViewOf DEF ViewSame, RequestSeen
    <2> QED
      BY <2>1, Stutters
  <1>3. CASE AskedView[c] # None
    <2>1. AskedView' = [AskedView EXCEPT ![c] = None]
      BY <1>1 DEF AskedView, ViewSame, RequestSeen
    <2>2. AnswerView' = [AnswerView EXCEPT ![c] = "pending"]
      BY <1>1 DEF AnswerView, ViewSame
    <2>3. OutlivedView' = OutlivedView \ {c}
      BY <1>1 DEF OutlivedView, ViewSame, RequestSeen
    <2>4. Register!Return(c)
      BY <1>1, <1>3, <2>1, <2>2, <2>3 DEF Register!Return, BucketSame, AskedView, AnswerView,
         OutlivedView
    <2> QED
      BY <2>4 DEF RegisterNext, Register!Next
  <1> QED
    BY <1>2, <1>3

LEMMA BeginCalls ==
    ASSUME NEW c \in Callers, ObjectStoreAssumption, CallInv, CallTypeOK', Frame(c), Begin(c)
    PROVE  RegisterNext
  <1>1. /\ BucketSame /\ \A d \in Callers \ {c} : ViewSame(d)
        /\ call[c].op = "none"
    BY OthersViewSame DEF Begin, diskVars, BucketSame, CallInv, CallsHold, OpAt, NoCall
  <1>2. PICK r \in Asks[c] : /\ call' = [call EXCEPT ![c] = [NoCall EXCEPT !.op = r.op, !.match = r.match]]
                             /\ Goto(c, IF r.op \in ObjectOps THEN "open_meta" ELSE "lock_bucket")
    BY DEF Begin
  <1>3. call'[c].answer = "pending" /\ call'[c].op = r.op
    BY <1>2 DEF CallInv, CallTypeOK, NoCall
  <1>4. r.op \in AskedOps => pc'[c] = "open_meta"
    BY <1>2 DEF Goto, CallInv, CallTypeOK, AskedOps, ObjectOps
  <1>5. AnswerView'[c] = AnswerView[c] /\ AskedView[c] = None /\ (c \in OutlivedView' <=> c \in OutlivedView)
    BY <1>1, <1>3, <1>4, ViewOf, ViewOfNext DEF CallInv, AskedOps
  <1>6. CASE AskedView'[c] = None
    BY <1>1, <1>5, <1>6, Stutters DEF ViewSame, RequestSeen
  <1>7. CASE AskedView'[c] # None
    <2>1. AskedView' = [AskedView EXCEPT ![c] = AskedView'[c]]
      BY <1>1 DEF AskedView, ViewSame, RequestSeen
    <2>2. AnswerView' = AnswerView
      BY <1>1, <1>5 DEF AnswerView, ViewSame
    <2>3. OutlivedView' = OutlivedView
      BY <1>1, <1>5 DEF OutlivedView, ViewSame, RequestSeen
    <2>4. AskedView'[c] \in Register!Requests
      BY <1>7, ViewOfNext DEF Register!Requests, AskedOps, Matches
    <2>5. Register!Call(c)
      BY <1>1, <1>5, <2>1, <2>2, <2>3, <2>4 DEF Register!Call, BucketSame, AskedView, AnswerView,
         OutlivedView
    <2> QED
      BY <2>5 DEF RegisterNext, Register!Next
  <1> QED
    BY <1>6, <1>7

\* Steps that keep the metadata and its directory, and everybody's hold of it.
DirSame(c) ==
    BucketSame /\ \A d \in Callers \ {c} : "meta" \in open'[d] <=> "meta" \in open[d]

LEMMA OngoingStutters ==
    ASSUME NEW c \in Callers, ObjectStoreAssumption, CallInv, CallTypeOK', Frame(c), DirSame(c),
           RequestSame(c), AnswerSame(c) \/ call[c].op \notin AskedOps,
           \/ call[c].op \notin AskedOps
           \/ (pc'[c] # "open_meta" /\ "meta" \notin open'[c]) <=> (pc[c] # "open_meta" /\ "meta" \notin open[c])
    PROVE  RegisterNext
  <1>1. ViewSame(c)
    BY SameRequest DEF CallInv
  <1>2. \A d \in Callers \ {c} : ViewSame(d)
    BY OthersViewSame DEF DirSame
  <1> QED
    BY <1>1, <1>2, Stutters DEF DirSame

LEMMA EndingReturns ==
    ASSUME NEW c \in Callers, ObjectStoreAssumption, CallInv, CallTypeOK', Frame(c), DirSame(c),
           call'[c] = NoCall
    PROVE  RegisterNext
  BY OthersViewSame, GoneReturns DEF DirSame, CallInv

\* A step of an asked call at a label past open_meta, in which the call is answered.
LEMMA AnswersHave ==
    ASSUME NEW c \in Callers, ObjectStoreAssumption, CallInv, CallTypeOK', Frame(c),
           DirSame(c) \/ (open' = open /\ dirs' = dirs),
           call[c].op \in AskedOps, RequestSame(c), open'[c] = open[c],
           pc[c] # "open_meta", pc'[c] # "open_meta", call[c].answer = "pending", call'[c].answer # "pending"
    PROVE  /\ Effects(c) /\ AnswerView'[c] = call'[c].answer
           /\ AskedView[c] = [op |-> call[c].op, match |-> call[c].match]
           /\ c \in OutlivedView <=> ~Here(c, "meta")
  <1>1. RequestSeen(c)
    BY SameRequest DEF CallInv
  <1>2. \A d \in Callers \ {c} : ViewSame(d)
    BY OthersViewSame DEF DirSame
  <1>3. AskedView[c] # None /\ AnswerView[c] = "pending"
    BY ViewOf DEF CallInv
  <1>4. AnswerView'[c] = call'[c].answer
    BY <1>1, <1>3, ViewOfNext DEF RequestSeen
  <1> QED
    BY <1>1, <1>2, <1>3, <1>4, ViewOf DEF Effects, CallInv

\* An answered call's effect, as the register has it.
LEMMA EffectIs ==
    ASSUME NEW c \in Callers, Effects(c), NEW a, AnswerView'[c] = a,
           Register!Answer(c, a) =>
              Register!Put(c) \/ Register!Refuse(c) \/ Register!Get(c) \/ Register!Delete(c) \/ Register!Fail(c)
    PROVE  RegisterNext
  <1>1. Register!Answer(c, a)
    BY EffectsAnswer DEF Register!Answer, AskedView, AnswerView, OutlivedView
  <1>2. Register!Effect(c)
    BY <1>1 DEF Register!Effect, Effects, AskedView, AnswerView
  <1> QED
    BY <1>2 DEF RegisterNext, Register!Next

LEMMA FailEffect ==
    ASSUME NEW c \in Callers, Effects(c), BucketSame, AnswerView'[c] = "error"
    PROVE  RegisterNext
  <1>1. Register!Answer(c, "error") => Register!Fail(c)
    BY DEF Register!Fail, BucketSame
  <1> QED
    BY <1>1, EffectIs

LEMMA CreateRefines ==
    ASSUME NEW c \in Callers, ObjectStoreAssumption, StoreInv, CallTypeOK', Frame(c), CreateObject(c)
    PROVE  RegisterNext
  <1>1. /\ LockTypeOK /\ LockInv /\ CallInv /\ KeyInv /\ CallsTyped /\ LockAt(c) /\ OpAt(c)
        /\ pc \in [Callers -> Labels]
    BY DEF StoreInv, LockInv, CallInv, CallsHold, CallTypeOK, CallsTyped
  <1>2. call[c].op = "put" /\ call[c].op \in AskedOps
    BY <1>1 DEF CreateObject, PreviousDataFile, CreateDataFile, CopyBody, WriteTemp, Rename,
       RemovePrevious,
       Discard, FinishCreate, Holding, OpAt, Writing, AskedOps
  <1>3. pc[c] \in Pending => call[c].answer = "pending"
    BY <1>1 DEF KeyInv, Unanswered
  <1>4. CASE PreviousDataFile(c)
    <2>1. pc[c] = "previous" /\ open' = open /\ UNCHANGED <<meta, dirs>> /\ call[c].answer = "pending"
      BY <1>3, <1>4 DEF PreviousDataFile, Holding, Calling, DiskSame, diskVars, Pending
    <2>2. CASE Remembers(c, MetaOf(c)) /\ Goto(c, "create")
      <3>1. RequestSame(c) /\ AnswerSame(c)
        BY <1>1, <2>2, RemembersEdits DEF MetaOf, CallInv, CallTypeOK
      <3> QED
        BY <1>1, <2>1, <2>2, <3>1, OngoingStutters DEF DirSame, BucketSame, Goto
    <2>3. CASE /\ ~Meets(call[c].match, MetaOf(c)) /\ Goto(c, "finish")
               /\ Answers(c, IF Here(c, "meta") THEN "refused" ELSE "error")
      <3>1. RequestSame(c) /\ call'[c].answer = IF Here(c, "meta") THEN "refused" ELSE "error"
        BY <1>1, <2>3, AnswersEdits DEF Told
      <3>2. /\ Effects(c) /\ AnswerView'[c] = call'[c].answer /\ AskedView[c] = [op |-> "put", match |-> call[c].match]
            /\ c \in OutlivedView <=> ~Here(c, "meta")
        BY <1>1, <1>2, <2>1, <2>3, <3>1, AnswersHave DEF Goto
      <3>3. CASE ~Here(c, "meta")
        BY <2>1, <3>1, <3>2, <3>3, FailEffect DEF BucketSame
      <3>4. CASE Here(c, "meta")
        <4>1. ~Meets(call[c].match, meta)
          BY <2>3, <3>4 DEF MetaOf
        <4>2. Register!Answer(c, "refused") => Register!Refuse(c)
          BY <2>1, <3>2, <3>4, <4>1 DEF Register!Refuse, Register!Meets, Meets, AskedView,
             OutlivedView
        <4> QED
          BY <3>1, <3>2, <3>4, <4>2, EffectIs
      <3> QED
        BY <3>3, <3>4
    <2> QED
      BY <1>4, <2>2, <2>3 DEF PreviousDataFile
  <1>5. CASE CreateDataFile(c)
    <2>1. pc[c] = "create" /\ open' = open /\ UNCHANGED <<meta, dirs>> /\ call[c].answer = "pending"
      BY <1>3, <1>5 DEF CreateDataFile, Holding, Calling, Pending
    <2>2. CASE call' = [call EXCEPT ![c].mine = FreshData] /\ Goto(c, "copy")
      <3>1. RequestSame(c) /\ AnswerSame(c)
        BY <1>1, <2>2 DEF RequestSame, AnswerSame, CallsTyped, Records
      <3> QED
        BY <1>1, <2>1, <2>2, <3>1, OngoingStutters DEF DirSame, BucketSame, Goto
    <2>3. CASE Answers(c, "error") /\ Goto(c, "finish")
      <3>1. RequestSame(c) /\ call'[c].answer = "error"
        BY <1>1, <2>3, AnswersEdits DEF Told
      <3>2. Effects(c) /\ AnswerView'[c] = "error"
        BY <1>1, <1>2, <2>1, <2>3, <3>1, AnswersHave DEF Goto
      <3> QED
        BY <2>1, <3>2, FailEffect DEF BucketSame
    <2> QED
      BY <1>5, <2>2, <2>3 DEF CreateDataFile
  <1>6. CASE CopyBody(c) \/ WriteTemp(c) \/ RemovePrevious(c)
    <2>1. /\ pc[c] # "open_meta" /\ pc'[c] # "open_meta" /\ UNCHANGED <<open, meta, dirs, call>>
      BY <1>1, <1>6 DEF CopyBody, WriteTemp, RemovePrevious, Holding, Goto, Calling
    <2> QED
      BY <1>1, <2>1, OngoingStutters DEF DirSame, BucketSame, RequestSame, AnswerSame
  <1>7. CASE Rename(c)
    <2>1. /\ Here(c, "meta") /\ Meets(call[c].match, meta)
          /\ meta' = call[c].mine /\ Answers(c, "ok")
          /\ UNCHANGED <<open, dirs>> /\ pc[c] = "rename" /\ pc'[c] = "remove_previous"
      BY <1>1, <1>7, RenameCommits
    <2>2. RequestSame(c) /\ call'[c].answer = "ok" /\ call[c].answer = "pending"
      BY <1>1, <1>3, <2>1, AnswersEdits DEF Told, Pending, Writing
    <2>3. /\ Effects(c) /\ AnswerView'[c] = "ok" /\ AskedView[c] = [op |-> "put", match |-> call[c].match]
          /\ c \notin OutlivedView
      BY <1>1, <1>2, <2>1, <2>2, AnswersHave
    <2>4. "meta" \in dirs /\ meta' \in DataFiles
      BY <1>1, <2>1 DEF CallInv, DirsHold, DirsAt, Here, OpAt, Writing
    <2>5. Register!Answer(c, "ok") => Register!Put(c)
      BY <2>1, <2>3, <2>4 DEF Register!Put, Register!Meets, Meets, AskedView, OutlivedView
    <2> QED
      BY <2>3, <2>5, EffectIs
  <1>8. CASE Discard(c)
    <2>1. /\ pc[c] = "discard" /\ pc'[c] = "finish" /\ UNCHANGED <<open, meta, dirs>> /\ Answers(c, "error")
          /\ call[c].answer = "pending"
      BY <1>1, <1>3, <1>8 DEF Discard, Holding, Goto, Calling, Pending, Writing
    <2>2. RequestSame(c) /\ call'[c].answer = "error"
      BY <1>1, <2>1, AnswersEdits DEF Told
    <2>3. Effects(c) /\ AnswerView'[c] = "error"
      BY <1>1, <1>2, <2>1, <2>2, AnswersHave
    <2> QED
      BY <2>1, <2>3, FailEffect DEF BucketSame
  <1>9. CASE FinishCreate(c)
    <2>1. UNCHANGED <<meta, dirs>> /\ pc[c] = "finish"
      BY <1>9 DEF FinishCreate, DiskSame, diskVars
    <2>2. CASE Goto(c, "released") /\ UNCHANGED <<open, call>>
      BY <1>1, <2>1, <2>2, OngoingStutters DEF DirSame, BucketSame, RequestSame, AnswerSame, Goto
    <2>3. CASE Returns(c)
      <3>1. call'[c] = NoCall
        BY <1>1, <2>3, ReturnsTyped DEF Gone, CallInv
      <3>2. \A d \in Callers \ {c} : open'[d] = open[d]
        BY <1>1, <2>3, ReturnsDirs DEF CallInv
      <3> QED
        BY <1>1, <2>1, <3>1, <3>2, EndingReturns DEF DirSame, BucketSame
    <2> QED
      BY <1>9, <2>2, <2>3 DEF FinishCreate
  <1> QED
    BY <1>4, <1>5, <1>6, <1>7, <1>8, <1>9 DEF CreateObject

LEMMA ReadRefines ==
    ASSUME NEW c \in Callers, ObjectStoreAssumption, StoreInv, CallTypeOK', Frame(c),
           OpenObject(c) \/ DeleteObject(c)
    PROVE  RegisterNext
  <1>1. /\ LockTypeOK /\ LockInv /\ CallInv /\ KeyInv /\ CallsTyped /\ OpAt(c) /\ pc \in [Callers -> Labels]
    BY DEF StoreInv, LockInv, CallInv, CallsHold, CallTypeOK, CallsTyped
  <1>2. call[c].op \in AskedOps /\ (pc[c] \in Pending => call[c].answer = "pending")
    BY <1>1 DEF OpenObject, ReadMeta, OpenData, DeleteObject, FindObject, RemoveMeta, RemoveData,
       Holding, OpAt,
       AskedOps, KeyInv, Unanswered
  <1>3. /\ UNCHANGED <<open, dirs>> /\ pc[c] # "open_meta" /\ pc'[c] # "open_meta"
    BY <1>1 DEF OpenObject, ReadMeta, OpenData, DeleteObject, FindObject, RemoveMeta, RemoveData,
       Holding, Goto,
       Calling, DiskSame, diskVars
  <1>4. MetaOf(c) = IF Here(c, "meta") THEN meta ELSE None
    BY DEF MetaOf
  <1>5. CASE ReadMeta(c)
    <2>1. pc[c] = "read" /\ meta' = meta /\ call[c].answer = "pending" /\ call[c].op = "get"
      BY <1>1, <1>2, <1>5 DEF ReadMeta, Holding, DiskSame, diskVars, Pending, OpAt
    <2>2. CASE MetaOf(c) # None
      <3>1. Found(c, meta, meta) /\ Here(c, "meta") /\ meta \in DataFiles /\ meta \notin Told /\ meta # None
        BY <1>1, <1>4, <1>5, <2>2 DEF ReadMeta, CallInv, CallTypeOK, ObjectStoreAssumption
      <3>2. RequestSame(c) /\ call'[c].answer = meta /\ meta # "pending"
        BY <1>1, <3>1, FoundEdits DEF Told
      <3>3. /\ Effects(c) /\ AnswerView'[c] = meta /\ AskedView[c] = [op |-> "get", match |-> call[c].match]
            /\ c \notin OutlivedView
        BY <1>1, <1>2, <1>3, <2>1, <3>1, <3>2, AnswersHave
      <3>4. Register!Answer(c, meta) => Register!Get(c)
        BY <1>3, <2>1, <3>1, <3>3 DEF Register!Get, AskedView, OutlivedView
      <3> QED
        BY <3>3, <3>4, EffectIs
    <2>3. CASE MetaOf(c) = None
      <3>1. Answers(c, IF Here(c, "meta") THEN "notfound" ELSE "error")
        BY <1>5, <2>3 DEF ReadMeta
      <3>2. RequestSame(c) /\ call'[c].answer = IF Here(c, "meta") THEN "notfound" ELSE "error"
        BY <1>1, <3>1, AnswersEdits DEF Told
      <3>3. /\ Effects(c) /\ AnswerView'[c] = call'[c].answer /\ AskedView[c] = [op |-> "get", match |-> call[c].match]
            /\ c \in OutlivedView <=> ~Here(c, "meta")
        BY <1>1, <1>2, <1>3, <2>1, <3>2, AnswersHave
      <3>4. CASE ~Here(c, "meta")
        BY <1>3, <2>1, <3>2, <3>3, <3>4, FailEffect DEF BucketSame
      <3>5. CASE Here(c, "meta")
        <4>1. Register!Answer(c, "notfound") => Register!Get(c)
          BY <1>3, <1>4, <2>1, <2>3, <3>3, <3>5 DEF Register!Get, AskedView, OutlivedView
        <4> QED
          BY <3>2, <3>3, <3>5, <4>1, EffectIs
      <3> QED
        BY <3>4, <3>5
    <2> QED
      BY <2>2, <2>3
  <1>6. CASE OpenData(c)
    <2>1. Here(c, "meta") /\ call[c].prev = meta /\ data[meta] = "whole"
      BY <1>1, <1>6 DEF OpenData, Holding, KeyInv, HolderKnows, WholeBeforeCommit
    <2>2. DataOf(c, call[c].prev) = "whole"
      <3>1. open[c] = AllDirs
        BY <1>1, <1>6, <2>1 DEF OpenData, Holding, CallInv, DirsHold, DirsAt, Here
      <3> QED
        BY <2>1, <3>1 DEF DataOf, Here, AllDirs
    <2>3. UNCHANGED <<call, meta>>
      BY <1>6, <2>2 DEF OpenData, DiskSame, diskVars
    <2> QED
      BY <1>1, <1>3, <2>3, OngoingStutters DEF DirSame, BucketSame, RequestSame, AnswerSame
  <1>7. CASE FindObject(c)
    <2>1. pc[c] = "find" /\ meta' = meta /\ call[c].answer = "pending" /\ call[c].op = "delete"
      BY <1>1, <1>2, <1>7 DEF FindObject, Holding, DiskSame, diskVars, Pending, OpAt
    <2>2. CASE MetaOf(c) # None
      <3>1. Remembers(c, meta) /\ meta \in DataFiles
        BY <1>1, <1>4, <1>7, <2>2 DEF FindObject, CallInv, CallTypeOK
      <3>2. RequestSame(c) /\ AnswerSame(c)
        BY <1>1, <3>1, RemembersEdits
      <3> QED
        BY <1>1, <1>3, <2>1, <3>2, OngoingStutters DEF DirSame, BucketSame
    <2>3. CASE MetaOf(c) = None
      <3>1. RequestSame(c) /\ call'[c].answer = "ok"
        BY <1>1, <1>7, <2>3, AnswersEdits DEF FindObject, Told
      <3>2. /\ Effects(c) /\ AnswerView'[c] = "ok" /\ AskedView[c] = [op |-> "delete", match |-> call[c].match]
            /\ c \in OutlivedView <=> ~Here(c, "meta")
        BY <1>1, <1>2, <1>3, <2>1, <3>1, AnswersHave
      <3>3. Register!Answer(c, "ok") => Register!Delete(c)
        BY <1>3, <1>4, <2>1, <2>3, <3>2 DEF Register!Delete, AskedView, OutlivedView
      <3> QED
        BY <3>2, <3>3, EffectIs
    <2> QED
      BY <2>2, <2>3
  <1>8. CASE RemoveMeta(c)
    <2>1. /\ pc[c] = "remove_meta" /\ Here(c, "meta") /\ meta' = None /\ Answers(c, "ok")
          /\ call[c].op = "delete" /\ call[c].answer = "pending"
      BY <1>1, <1>2, <1>8 DEF RemoveMeta, Holding, KeyInv, HolderKnows, OpAt, Pending
    <2>2. RequestSame(c) /\ call'[c].answer = "ok"
      BY <1>1, <2>1, AnswersEdits DEF Told
    <2>3. /\ Effects(c) /\ AnswerView'[c] = "ok" /\ AskedView[c] = [op |-> "delete", match |-> call[c].match]
          /\ c \notin OutlivedView
      BY <1>1, <1>2, <1>3, <2>1, <2>2, AnswersHave
    <2>4. Register!Answer(c, "ok") => Register!Delete(c)
      BY <1>3, <2>1, <2>3 DEF Register!Delete, AskedView, OutlivedView
    <2> QED
      BY <2>3, <2>4, EffectIs
  <1>9. CASE RemoveData(c)
    <2>1. UNCHANGED <<meta, call>>
      BY <1>9 DEF RemoveData
    <2> QED
      BY <1>1, <1>3, <2>1, OngoingStutters DEF DirSame, BucketSame, RequestSame, AnswerSame
  <1> QED
    BY <1>5, <1>6, <1>7, <1>8, <1>9 DEF OpenObject, DeleteObject

\* The steps around a call, and its waits for the lock.
LEMMA AroundRefines ==
    ASSUME NEW c \in Callers, ObjectStoreAssumption, StoreInv, CallTypeOK', Frame(c),
           \/ Return(c) \/ Crash(c) \/ OpenBucket(c) \/ Locking(c) \/ LockFailed(c)
           \/ UnlockWith(c) \/ ReleaseWith(c) \/ Released(c)
    PROVE  RegisterNext
  <1>1. /\ LockTypeOK /\ LockInv /\ CallInv /\ CallsTyped /\ OpAt(c) /\ DirsAt(c) /\ pc \in [Callers -> Labels]
        /\ LockAt(c) /\ open \in [Callers -> SUBSET AllDirs]
    BY DEF StoreInv, LockInv, CallInv, CallsHold, DirsHold, CallTypeOK, CallsTyped
  <1>2. BucketSame
    BY DEF Return, Crash, OpenBucket, OpenDirs, Locking, LockFailed, UnlockWith, ReleaseWith,
       Released,
       DiskSame, diskVars, BucketSame
  <1>3. ASSUME Returns(c)
        PROVE  RegisterNext
    <2>1. call'[c] = NoCall /\ \A d \in Callers \ {c} : open'[d] = open[d]
      BY <1>1, <1>3, ReturnsTyped, ReturnsDirs DEF Gone, CallInv
    <2> QED
      BY <1>1, <1>2, <2>1, EndingReturns DEF DirSame
  <1>4. ASSUME Answers(c, "error"), UNCHANGED open, call[c].op \notin ObjectOps
        PROVE  RegisterNext
    <2>1. RequestSame(c) /\ call[c].op \notin AskedOps
      BY <1>1, <1>4, AnswersEdits DEF Told, ObjectOps, AskedOps
    <2> QED
      BY <1>1, <1>2, <1>4, <2>1, OngoingStutters DEF DirSame
  <1>5. CASE Crash(c)
    <2>1. call'[c] = NoCall /\ \A d \in Callers \ {c} : open'[d] = open[d]
      BY <1>1, <1>5 DEF Crash, CallsTyped
    <2> QED
      BY <1>1, <1>2, <2>1, EndingReturns DEF DirSame
  <1>6. CASE Return(c)
    BY <1>3, <1>6 DEF Return
  <1>7. CASE LockFailed(c)
    BY <1>3, <1>4, <1>7 DEF LockFailed, Fails
  <1>8. CASE Locking(c)
    BY <1>1, <1>2, <1>8, OngoingStutters DEF Locking, procVars, DirSame, RequestSame, AnswerSame
  <1>9. CASE ReleaseWith(c)
    <2>1. UNCHANGED <<open, call>> /\ pc[c] # "open_meta" /\ pc'[c] # "open_meta"
      BY <1>1, <1>9 DEF ReleaseWith, CallSame, Goto
    <2> QED
      BY <1>1, <1>2, <2>1, OngoingStutters DEF DirSame, RequestSame, AnswerSame
  <1>10. CASE UnlockWith(c) \/ Released(c)
    <2>1. CASE Returns(c)
      BY <1>3, <2>1
    <2>2. CASE UNCHANGED <<open, call>> /\ call[c].op \notin ObjectOps
      BY <1>1, <1>2, <2>2, OngoingStutters DEF DirSame, RequestSame, AnswerSame, ObjectOps, AskedOps
    <2> QED
      BY <1>10, <2>1, <2>2 DEF UnlockWith, Released, GaveUp
  <1>11. CASE OpenBucket(c)
    <2>1. CASE Fails(c)
      BY <1>3, <1>4, <2>1 DEF Fails
    <2>2. CASE /\ pc[c] = "open_meta" /\ open' = [open EXCEPT ![c] = @ \cup {"meta"}]
               /\ Goto(c, "open_rest") /\ UNCHANGED call
      <3>1. "meta" \in open'[c] /\ \A d \in Callers \ {c} : open'[d] = open[d]
        BY <1>1, <2>2
      <3> QED
        BY <1>1, <1>2, <2>2, <3>1, OngoingStutters DEF DirSame, RequestSame, AnswerSame
    <2>3. CASE /\ pc[c] = "open_rest" /\ open' = [open EXCEPT ![c] = @ \cup {"objects", "locks"}]
               /\ Goto(c, AfterOpen(c)) /\ UNCHANGED call
      <3>1. /\ "meta" \in open'[c] <=> "meta" \in open[c]
            /\ \A d \in Callers \ {c} : open'[d] = open[d]
        BY <1>1, <2>3
      <3>2. pc'[c] # "open_meta"
        BY <1>1, <2>3 DEF Goto, AfterOpen, OpAt, ObjectOps
      <3> QED
        BY <1>1, <1>2, <2>3, <3>1, <3>2, OngoingStutters DEF DirSame, RequestSame, AnswerSame
    <2> QED
      BY <1>11, <2>1, <2>2, <2>3 DEF OpenBucket, OpenDirs
  <1> QED
    BY <1>5, <1>6, <1>7, <1>8, <1>9, <1>10, <1>11

\* Keys, CreateBucket and DeleteBucket, which are no calls on the key.
LEMMA UnaskedRefines ==
    ASSUME NEW c \in Callers, ObjectStoreAssumption, CallInv, CallTypeOK', Frame(c), BucketSame, UNCHANGED open,
           call[c].op \notin AskedOps, RequestSame(c)
    PROVE  RegisterNext
  BY OngoingStutters DEF DirSame

LEMMA BucketRefines ==
    ASSUME NEW c \in Callers, ObjectStoreAssumption, StoreInv, CallTypeOK', Frame(c),
           Keys(c) \/ LockBucket(c) \/ UnlockBucket(c) \/ CreateBucket(c)
    PROVE  RegisterNext
  <1>1. CallInv /\ CallsTyped /\ LockTypeOK /\ OpAt(c)
    BY DEF StoreInv, LockInv, CallInv, CallsHold, CallTypeOK, CallsTyped
  <1>2. UNCHANGED open /\ call[c].op \notin AskedOps
    BY <1>1 DEF Keys, CheckKey, StatData, Recheck, RestatData, Peek, Calling, LockBucket,
       UnlockBucket, CreateBucket,
       MakeDir, WriteBucketName, CallSame, Holding, OpAt, AskedOps, BucketOps
  <1>3. RequestSame(c)
    <2>1. CASE Keys(c) \/ LockBucket(c) \/ UnlockBucket(c)
      BY <1>1, <2>1, CheckKeyWalks, StatDataWalks, RecheckWalks, RestatDataWalks, LockBucketWalks,
         UnlockBucketWalks
         DEF Keys, Edited
    <2>2. CASE CreateBucket(c)
      BY <2>2 DEF CreateBucket, MakeDir, WriteBucketName, CallSame, RequestSame
    <2> QED
      BY <2>1, <2>2
  <1>4. CASE BucketSame
    BY <1>1, <1>2, <1>3, <1>4, UnaskedRefines
  <1>5. CASE ~BucketSame
    <2>1. /\ meta' = meta /\ dirs' = dirs \cup {"meta"} /\ "meta" \notin dirs /\ call' = call /\ pc[c] = "mk_meta"
      BY <1>5 DEF Keys, CheckKey, StatData, Recheck, RestatData, Peek, LockBucket, UnlockBucket,
         CreateBucket,
         MakeDir, WriteBucketName, CallSame, DiskSame, diskVars, BucketSame
    <2>2. ViewSame(c)
      BY <1>1, <1>2, <1>3, SameRequest DEF CallInv
    <2>3. \A d \in Callers : ViewSame(d)
      BY <1>2, <2>2, OthersViewSame
    <2>4. AskedView' = AskedView /\ AnswerView' = AnswerView
      BY <2>3 DEF ViewSame, RequestSeen, AskedView, AnswerView
    <2>5. OutlivedView' = OutlivedView
      BY <2>3 DEF ViewSame, RequestSeen, OutlivedView
    <2>6. Register!CreateBucket
      BY <2>1, <2>4, <2>5 DEF Register!CreateBucket, AskedView, AnswerView, OutlivedView
    <2> QED
      BY <2>6 DEF RegisterNext, Register!Next
  <1> QED
    BY <1>4, <1>5

\* The metadata directory goes when it is empty, and with it the bucket.
LEMMA BucketGoesEmpty ==
    ASSUME NEW c \in Callers, ObjectStoreAssumption, StoreInv, CallTypeOK', Frame(c),
           RemoveMetaDir(c), Entries = {}
    PROVE  RegisterNext
  <1>1. CallInv /\ CallsTyped /\ LockTypeOK /\ OpAt(c) /\ DirsAt(c) /\ open \in [Callers -> SUBSET AllDirs]
    BY DEF StoreInv, LockInv, CallInv, CallsHold, DirsHold, CallTypeOK, CallsTyped
  <1>2. /\ pc[c] = "rm_meta_dir" /\ call' = call /\ meta' = meta /\ meta = None
        /\ dirs' = dirs \ {"meta"} /\ open' = [p \in Callers |-> open[p] \ {"meta"}]
    BY DEF RemoveMetaDir, RemoveDir, Entries
  <1>3. call[c].op = "delete_bucket" /\ "meta" \in dirs
    BY <1>1, <1>2 DEF OpAt, DirsAt, Sweeping
  <1>4. AskedView' = AskedView /\ AnswerView' = AnswerView
    BY <1>2 DEF AskedView, AnswerView, Asked, Answered
  <1>5. ASSUME NEW d \in Callers
        PROVE  /\ d \in OutlivedView => d \in OutlivedView'
               /\ d \in OutlivedView' => AskedView[d] # None
    <2>1. \/ d = c /\ AskedView[d] = None
          \/ pc'[d] = pc[d]
      BY <1>1, <1>3, ViewOf DEF Frame, CallInv, AskedOps
    <2>2. d \in OutlivedView' <=> (AskedView[d] # None /\ pc'[d] # "open_meta")
      BY <1>2, <1>4 DEF OutlivedView, Outlived, AskedView, Asked, Here
    <2>3. d \in OutlivedView => AskedView[d] # None /\ pc[d] # "open_meta"
      BY DEF OutlivedView, Outlived, AskedView
    <2> QED
      BY <2>1, <2>2, <2>3
  <1>6. OutlivedView' \in SUBSET {d \in Callers : AskedView[d] # None} /\ OutlivedView \subseteq OutlivedView'
    BY <1>5 DEF OutlivedView
  <1>7. Register!DeleteBucket
    BY <1>2, <1>3, <1>4, <1>6 DEF Register!DeleteBucket, AskedView, AnswerView, OutlivedView
  <1> QED
    BY <1>7 DEF RegisterNext, Register!Next

LEMMA DeleteRefines ==
    ASSUME NEW c \in Callers, ObjectStoreAssumption, StoreInv, CallTypeOK', Frame(c), DeleteBucket(c)
    PROVE  RegisterNext
  <1>1. CallInv /\ CallsTyped /\ LockTypeOK /\ OpAt(c) /\ KeyInv
    BY DEF StoreInv, LockInv, CallInv, CallsHold, CallTypeOK, CallsTyped
  <1>2. call[c].op \notin AskedOps
    BY <1>1 DEF DeleteBucket, Sweep, Classify, LockedState, NextDebris, RemoveDebris,
       RemoveMetaDir, RemoveRecord,
       ListData, ProbeData, ProbedData, RemoveLeftData, RemoveObjectsDir, ListLocks, ProbeLock, ProbedLock,
       GiveUpFreeLock, RemoveLockFile, CloseLockFile, RemoveLocksDir, Holding, OpAt, Sweeping, MetaGone, AskedOps
  <1>3. RequestSame(c)
    BY <1>1, SweepWalks, ClassifyWalks, LockedStateWalks, NextDebrisWalks, RemoveDebrisWalks,
       RemoveMetaDirWalks, RemoveRecordWalks, ListDataWalks, ProbeDataWalks, ProbedDataWalks,
       RemoveLeftDataWalks, RemoveObjectsDirWalks, ListLocksWalks, ProbeLockWalks, ProbedLockWalks,
       GiveUpFreeLockWalks, RemoveLocksDirWalks DEF DeleteBucket, Edited
  <1>4. CASE RemoveMetaDir(c) /\ Entries = {}
    BY <1>4, BucketGoesEmpty
  <1>5. CASE ~(RemoveMetaDir(c) /\ Entries = {})
    <2>1. DirSame(c)
      <3>1. CASE RemoveObjectsDir(c) \/ RemoveLocksDir(c) \/ RemoveMetaDir(c)
        BY <1>1, <1>5, <3>1 DEF RemoveObjectsDir, RemoveLocksDir, RemoveMetaDir, RemoveDir,
           DirSame, BucketSame,
           CallInv, CallTypeOK
      <3>2. CASE RemoveDebris(c)
        BY <1>1, <3>2, DebrisIsTemp DEF DirSame, BucketSame
      <3>3. CASE /\ ~RemoveObjectsDir(c) /\ ~RemoveLocksDir(c) /\ ~RemoveMetaDir(c) /\ ~RemoveDebris(c)
        BY <3>3 DEF DeleteBucket, Sweep, Classify, LockedState, NextDebris, RemoveRecord, ListData,
           ProbeData,
           ProbedData, RemoveLeftData, ListLocks, ProbeLock, ProbedLock, GiveUpFreeLock, RemoveLockFile,
           CloseLockFile, DiskSame, diskVars, Calling, CallSame, DirSame, BucketSame
      <3> QED
        BY <3>1, <3>2, <3>3
    <2> QED
      BY <1>1, <1>2, <1>3, <2>1, OngoingStutters
  <1> QED
    BY <1>4, <1>5

LEMMA StepRefines ==
    ASSUME NEW c \in Callers, ObjectStoreAssumption, StoreInv, CallTypeOK', Frame(c), Step(c)
    PROVE  RegisterNext
  <1>1. CallInv
    BY DEF StoreInv
  <1> QED
    BY <1>1, BeginCalls, AroundRefines, CreateRefines, ReadRefines, BucketRefines,
       DeleteRefines DEF Step

(***************************************************************************)
(* The theorems                                                            *)
(***************************************************************************)
LEMMA InitIsRight ==
    ASSUME ObjectStoreAssumption, Init
    PROVE  StoreInv
  <1>1. LockInv
    BY DEF Init, LockInit, LockInv, LockTypeOK, Exclusive, HeldIsCurrent, HasFlock, Phases
  <1>2. call \in [Callers -> Records]
    BY DEF Init, NoCall, Records, Matches, Told
  <1>3. /\ dirs \in SUBSET AllDirs /\ record \in BOOLEAN /\ meta \in DataFiles \cup {None}
        /\ data \in [DataFiles -> {"none", "partial", "whole"}]
    BY DEF Init, ObjectStoreAssumption, AllDirs
  <1>4. CallTypeOK
    BY <1>2, <1>3 DEF Init, CallTypeOK, Labels, Unlocked, ObjectStoreAssumption
  <1>5. CallsHold
    BY DEF Init, LockInit, NoCall, CallsHold, LockAt, OpAt, Unlocked, Waiting, Working, Writing,
       Dropping, Sweeping,
       MetaGone, BucketOps
  <1>6. DirsHold
    BY DEF Init, DirsHold, DirsAt, AllDirs, Sweeping, MetaGone
  <1>7. KeyInv
    <2>1. HolderKnows /\ WrittenIsOwn /\ Unanswered
      BY DEF Init, NoCall, HolderKnows, WrittenIsOwn, Unanswered, Writing
    <2>2. WholeBeforeCommit
      BY <1>3 DEF Init, WholeBeforeCommit
    <2>3. FilesAreOwned
      BY DEF Init, FilesAreOwned, Files, Writing
    <2> QED
      BY <2>1, <2>2, <2>3 DEF KeyInv
  <1> QED
    BY <1>1, <1>4, <1>5, <1>6, <1>7 DEF StoreInv, CallInv

LEMMA NextIsStep ==
    ASSUME Next
    PROVE  \E c \in Callers : Step(c)
  BY DEF Next, Step

LEMMA TypesAreRight ==
    ASSUME ObjectStoreAssumption, LockTypeOK, CallTypeOK
    PROVE  TypeOK
  <1>1. \A c \in Callers : call[c].prev \in DataFiles \cup {None} /\ calls[c] \in 0..MaxCalls[c]
    BY DEF CallTypeOK, Records, ObjectStoreAssumption
  <1> QED
    BY <1>1 DEF TypeOK, CallTypeOK

(***************************************************************************)
(* What holds whatever withFreeLock unlinks                                *)
(***************************************************************************)
FlockInv == LockTypeOK /\ Exclusive /\ CallInv

LEMMA FlockIsKept == Spec => []FlockInv
  <1>1. Init => FlockInv
    BY ObjectStoreAssumption, InitIsRight DEF StoreInv, LockInv, FlockInv
  <1>2. ASSUME FlockInv, [Next]_vars
        PROVE  FlockInv'
    <2>1. CASE UNCHANGED vars
      BY <1>2, <2>1 DEF vars, lockVars, diskVars, procVars, FlockInv, LockTypeOK, Exclusive,
         CallInv,
         CallTypeOK, CallsHold, LockAt, OpAt, DirsHold, DirsAt, Here
    <2>2. CASE Next
      BY <1>2, <2>2, NextIsStep, StepMovesLock, LockKept, CallInvKept, ObjectStoreAssumption
         DEF FlockInv, ObjectStoreAssumption
    <2> QED
      BY <1>2, <2>1, <2>2
  <1> QED
    BY <1>1, <1>2, PTL DEF Spec

\* mk_record before mk_meta and rm_record after the metadata directory is
\* removed, each under the lifecycle lock (vfs/bucket.go, deletebucket.go): a
\* bucket that exists can be listed, also where the key's lock fails.
THEOREM BucketNamedHolds == Spec => [](TypeOK /\ BucketNamed)
  <1>1. FlockInv => TypeOK /\ BucketNamed
    BY ObjectStoreAssumption, TypesAreRight DEF FlockInv, CallInv, DirsHold, BucketNamed
  <1> QED
    BY <1>1, FlockIsKept, PTL

LEMMA StoreStays ==
    ASSUME ObjectStoreAssumption, StoreInv, [Next]_vars, [FreeIsCurrent]_vars
    PROVE  StoreInv'
  <1>1. CASE UNCHANGED vars
    BY <1>1 DEF vars, lockVars, diskVars, procVars, StoreInv, LockInv, LockTypeOK, Exclusive,
       HeldIsCurrent,
       CallInv, CallTypeOK, CallsHold, LockAt, OpAt, DirsHold, DirsAt, KeyInv, HolderKnows, WrittenIsOwn,
       WholeBeforeCommit, FilesAreOwned, Files, Unanswered, Here
  <1>2. CASE Next /\ FreeIsCurrent
    <2>1. PICK c \in Callers : Step(c)
      BY <1>2, NextIsStep
    <2>2. LockInv /\ LockTypeOK /\ CallInv /\ KeyInv
      BY DEF StoreInv, LockInv
    <2>3. LockInv'
      BY <1>2, <2>1, <2>2, HeldStaysCurrent
    <2>4. CallInv' /\ Frame(c)
      BY <2>1, <2>2, CallInvKept
    <2>5. KeyInv'
      BY <2>1, <2>2, <2>4, KeyInvKept
    <2> QED
      BY <2>3, <2>4, <2>5 DEF StoreInv
  <1> QED
    BY <1>1, <1>2

LEMMA StoreIsKept == Spec /\ FreeLocksAreCurrent => []StoreInv
  <1>1. Init => StoreInv
    BY ObjectStoreAssumption, InitIsRight
  <1>2. StoreInv /\ [Next]_vars /\ [FreeIsCurrent]_vars => StoreInv'
    BY ObjectStoreAssumption, StoreStays
  <1> QED
    BY <1>1, <1>2, PTL DEF Spec, FreeLocksAreCurrent

\* "An exclusive lock per name" (vfs/lock.go): Lock, Unlock and Release of the
\* callers that have opened the bucket as it is let one at a time work on the
\* key, though a holder unlinks the lock file under its waiters.
THEOREM OneHolderHolds == Spec /\ FreeLocksAreCurrent => []OneHolder
  <1>1. StoreInv => OneHolder
    BY DEF StoreInv, LockInv, HeldIsCurrent, Exclusive, HasFlock, OneHolder, Here
  <1> QED
    BY <1>1, StoreIsKept, PTL

\* At every instant the metadata names a whole data file: writeMetaFile's
\* rename (vfs/write.go) comes after the copy, and the removals of the previous
\* data file after the rename, of puts, deletes and sweeps that crash midway.
THEOREM CommittedWholeHolds == Spec /\ FreeLocksAreCurrent => []CommittedWhole
  <1>1. StoreInv => CommittedWhole
    BY DEF StoreInv, KeyInv, WholeBeforeCommit, CommittedWhole
  <1> QED
    BY <1>1, StoreIsKept, PTL

\* No reader reports damage where there is none (usableKey's second look), no
\* file is left behind unless a process crashed, and a bucket has its record.
THEOREM StoreHoldsHolds == Spec /\ FreeLocksAreCurrent => []StoreHolds
  <1>1. ASSUME StoreInv
        PROVE  StoreHolds
    <2>1. LockTypeOK /\ CallTypeOK /\ KeyInv /\ DirsHold
      BY <1>1 DEF StoreInv, LockInv, CallInv
    <2>2. TypeOK
      BY <2>1, TypesAreRight, ObjectStoreAssumption
    <2>3. NoFalseCorruption
      BY <2>1 DEF KeyInv, Unanswered, NoFalseCorruption
    <2>4. NothingLeftBehind
      BY <2>1 DEF KeyInv, FilesAreOwned, NothingLeftBehind, Writing
    <2>5. BucketNamed
      BY <2>1 DEF DirsHold, BucketNamed
    <2> QED
      BY <2>2, <2>3, <2>4, <2>5 DEF StoreHolds
  <1> QED
    BY <1>1, StoreIsKept, PTL

LEMMA HeldFileIsKept ==
    ASSUME NEW c \in Callers, ObjectStoreAssumption, LockInv, CallInv, Step(c), FreeIsCurrent,
           NEW d \in Callers, lk[d] = "held", lk'[d] = "held", linked = file[d]
    PROVE  linked' = linked
  <1>1. LockMoves(c)
    BY StepMovesLock DEF LockInv
  <1>2. linked # None
    BY DEF LockInv, LockTypeOK
  <1>3. ASSUME NEW e \in Callers, lk[e] \in HasFlock, linked = file[e]
        PROVE  e = d
    BY <1>3 DEF LockInv, Exclusive, HasFlock
  <1>4. CASE OpenLockFile(c, Here(c, "locks"))
    BY <1>2, <1>4 DEF OpenLockFile
  <1>5. CASE Release(c, Here(c, "locks"))
    <2>1. lk[c] = "held" /\ lk'[c] = "unlinked"
      BY <1>5 DEF Release, Unlink, Phase, LockInv, LockTypeOK
    <2>2. ~Here(c, "locks")
      BY <1>3, <2>1 DEF LockInv, HeldIsCurrent, HasFlock
    <2> QED
      BY <1>5, <2>2 DEF Release, Unlink
  <1>6. CASE lk[c] = "free" /\ Unlink(c, TRUE)
    <2>1. lk'[c] = "unlinked"
      BY <1>6 DEF Unlink, Phase, LockInv, LockTypeOK
    <2>2. linked = file[c]
      BY <1>2, <1>6, <2>1 DEF FreeIsCurrent
    <2> QED
      BY <1>3, <1>6, <2>2 DEF HasFlock
  <1>7. CASE ~(\/ OpenLockFile(c, Here(c, "locks")) \/ Release(c, Here(c, "locks"))
               \/ (lk[c] = "free" /\ Unlink(c, TRUE)))
    BY <1>1, <1>7 DEF LockMoves, lockVars, TryLock, Granted, CheckCurrent, Cancel, GhostLocks,
       GhostCloses,
       Unlock, CloseUnlinked, ProbeTaken, CrashLock, ProbeOpen, ProbeFree
  <1> QED
    BY <1>4, <1>5, <1>6, <1>7

\* "Only the holder may remove the file" (vfs/lock.go): what withFreeLock does
\* to a file that is no longer the one it locked is all that breaks it.
THEOREM HeldFileStaysHolds == Spec /\ FreeLocksAreCurrent => HeldFileStays
  <1> DEFINE FileStays == \A c \in Callers :
        lk[c] = "held" /\ lk'[c] = "held" /\ linked = file[c] => linked' = linked
  <1>1. ASSUME StoreInv, [Next]_vars, [FreeIsCurrent]_vars
        PROVE  [FileStays]_vars
    <2>1. CASE Next /\ FreeIsCurrent
      BY <1>1, <2>1, NextIsStep, HeldFileIsKept, ObjectStoreAssumption DEF StoreInv
    <2> QED
      BY <1>1, <2>1
  <1> QED
    BY <1>1, StoreIsKept, PTL DEF Spec, FreeLocksAreCurrent, HeldFileStays

LEMMA RegisterInit ==
    ASSUME ObjectStoreAssumption, Init
    PROVE  Register!Init
  <1>1. \A c \in Callers : Asked(c) = None /\ Answered(c) = "pending" /\ ~Outlived(c)
    BY DEF Init, NoCall, Asked, Answered, Outlived
  <1>2. AskedView = [c \in Callers |-> None] /\ AnswerView = [c \in Callers |-> "pending"] /\ OutlivedView = {}
    BY <1>1 DEF AskedView, AnswerView, OutlivedView
  <1>3. meta \in IF "meta" \in dirs THEN DataFiles \cup {None} ELSE {None}
    BY DEF Init, AllDirs, ObjectStoreAssumption
  <1> QED
    BY <1>2, <1>3 DEF Register!Init, AskedView, AnswerView, OutlivedView

\* Every put, get and delete takes effect at one instant between its call and
\* its return, conditions included (provider.go's PutObject, GetObject and
\* DeleteObject): the store implements the register.
THEOREM RegisterIsImplemented == Spec /\ FreeLocksAreCurrent => ImplementsRegister
  <1>1. Init => Register!Init
    BY ObjectStoreAssumption, RegisterInit
  <1>2. ASSUME StoreInv, [Next]_vars
        PROVE  [Register!Next]_(Register!regVars)
    <2>1. CASE UNCHANGED vars
      BY <2>1 DEF vars, diskVars, procVars, Register!regVars, Asked, Answered, Outlived, Here
    <2>2. CASE Next
      <3>1. PICK c \in Callers : Step(c)
        BY <2>2, NextIsStep
      <3>2. CallInv' /\ Frame(c)
        BY <1>2, <3>1, CallInvKept, ObjectStoreAssumption DEF StoreInv, LockInv
      <3> QED
        BY <1>2, <3>1, <3>2, StepRefines, ObjectStoreAssumption DEF CallInv, RegisterNext
    <2> QED
      BY <1>2, <2>1, <2>2
  <1> QED
    BY <1>1, <1>2, StoreIsKept, PTL DEF Spec, ImplementsRegister, Register!Spec


(***************************************************************************)
(* Where no bucket is deleted, the hypothesis is a theorem                 *)
(***************************************************************************)
BucketsAreKept == \A c \in Callers : \A r \in Asks[c] : r.op # "delete_bucket"
NoneDeletes == \A c \in Callers : call[c].op # "delete_bucket"

\* The request of a call stays what it is.
LEMMA RequestStays ==
    ASSUME NEW c \in Callers, CallTypeOK, Step(c), ~Begin(c)
    PROVE  call'[c].op = call[c].op \/ call'[c] = NoCall
  <1>1. call \in [Callers -> Records]
    BY DEF CallTypeOK
  <1>2. \A a : Answers(c, a) \/ Remembers(c, a) \/ ToDo(c, a) => call'[c].op = call[c].op
    BY <1>1 DEF Answers, Remembers, ToDo, Records
  <1>3. Returns(c) => call'[c] = NoCall
    BY <1>1 DEF Returns
  <1>4. CASE Return(c) \/ OpenBucket(c) \/ Locking(c) \/ LockFailed(c)
    BY <1>2, <1>3, <1>4 DEF Return, OpenBucket, OpenDirs, Fails, Locking, LockFailed, procVars
  <1>5. CASE UnlockWith(c) \/ ReleaseWith(c) \/ Released(c)
    BY <1>3, <1>5 DEF UnlockWith, ReleaseWith, Released, GaveUp, CallSame
  <1>6. CASE Crash(c) \/ LockBucket(c) \/ UnlockBucket(c) \/ CreateBucket(c)
    BY <1>1, <1>2, <1>6 DEF Crash, LockBucket, UnlockBucket, CreateBucket, MakeDir,
       WriteBucketName, CallSame
  <1>7. CASE CreateObject(c)
    BY <1>1, <1>2, <1>3, <1>7 DEF CreateObject, PreviousDataFile, CreateDataFile, CopyBody,
       WriteTemp,
       Rename, RemovePrevious, Discard, FinishCreate, Records
  <1>8. CASE OpenObject(c) \/ DeleteObject(c)
    BY <1>1, <1>2, <1>8 DEF OpenObject, ReadMeta, OpenData, DeleteObject, FindObject, RemoveMeta,
       RemoveData,
       Found, Records
  <1>9. CASE Keys(c)
    BY <1>2, <1>9 DEF Keys, CheckKey, StatData, Recheck, RestatData, Peek
  <1>10. CASE Sweep(c) \/ Classify(c) \/ LockedState(c) \/ NextDebris(c) \/ RemoveDebris(c)
             \/ RemoveMetaDir(c) \/ RemoveRecord(c)
    BY <1>1, <1>2, <1>10 DEF Sweep, Classify, LockedState, NextDebris, RemoveDebris, RemoveMetaDir,
       RemoveRecord, CallSame, Records
  <1>11. CASE ListData(c) \/ ProbeData(c) \/ ProbedData(c) \/ RemoveLeftData(c) \/ RemoveObjectsDir(c)
             \/ ListLocks(c) \/ ProbeLock(c) \/ ProbedLock(c) \/ GiveUpFreeLock(c) \/ RemoveLocksDir(c)
    BY <1>2, <1>11 DEF ListData, ProbeData, ProbedData, RemoveLeftData, RemoveObjectsDir,
       ListLocks, ProbeLock,
       ProbedLock, GiveUpFreeLock, RemoveLockFile, CloseLockFile, RemoveLocksDir, CallSame
  <1> QED
    BY <1>4, <1>5, <1>6, <1>7, <1>8, <1>9, <1>10, <1>11 DEF Step, DeleteBucket

LEMMA NoneDeletesStays ==
    ASSUME ObjectStoreAssumption, BucketsAreKept, FlockInv, NoneDeletes, NEW c \in Callers, Step(c)
    PROVE  NoneDeletes'
  <1>1. \A d \in Callers \ {c} : call'[d] = call[d]
    BY CallInvKept DEF FlockInv, Frame
  <1>2. CASE Begin(c)
    <2>1. PICK r \in Asks[c] : call' = [call EXCEPT ![c] = [NoCall EXCEPT !.op = r.op, !.match = r.match]]
      BY <1>2 DEF Begin
    <2>2. call'[c].op = r.op
      BY <2>1 DEF FlockInv, CallInv, CallTypeOK, NoCall
    <2> QED
      BY <1>1, <2>2 DEF BucketsAreKept, NoneDeletes
  <1>3. CASE ~Begin(c)
    BY <1>1, <1>3, RequestStays DEF FlockInv, CallInv, NoneDeletes, NoCall
  <1> QED
    BY <1>2, <1>3

LEMMA FreeLocksAreCurrentHolds ==
    ASSUME BucketsAreKept
    PROVE  Spec => FreeLocksAreCurrent
  <1>1. Init => NoneDeletes
    BY DEF Init, NoneDeletes, NoCall
  <1>2. ASSUME FlockInv, NoneDeletes, [Next]_vars
        PROVE  NoneDeletes' /\ [FreeIsCurrent]_vars
    <2>1. CASE UNCHANGED vars
      BY <1>2, <2>1 DEF vars, procVars, NoneDeletes
    <2>2. CASE Next
      <3>1. PICK c \in Callers : Step(c)
        BY <2>2, NextIsStep
      <3>2. NoneDeletes'
        BY <1>2, <3>1, NoneDeletesStays, ObjectStoreAssumption
      <3>3. \A d \in Callers : lk[d] # "free"
        BY <1>2 DEF FlockInv, CallInv, CallTypeOK, CallsHold, LockAt, OpAt, NoneDeletes, Labels,
           Unlocked,
           Waiting, Working, Dropping, Sweeping, MetaGone
      <3> QED
        BY <3>2, <3>3 DEF FreeIsCurrent
    <2> QED
      BY <1>2, <2>1, <2>2
  <1> QED
    BY <1>1, <1>2, FlockIsKept, PTL DEF Spec, FreeLocksAreCurrent

\* Without calls of DeleteBucket the store is right, and nothing is assumed of
\* the lock: puts, gets, deletes, lists and CreateBucket of any callers, with
\* crashes and canceled waits.
THEOREM StoreOfKeptBuckets ==
    ASSUME BucketsAreKept
    PROVE  Spec => /\ [](OneHolder /\ CommittedWhole /\ StoreHolds)
                   /\ HeldFileStays /\ ImplementsRegister
  <1>1. Spec => FreeLocksAreCurrent
    BY FreeLocksAreCurrentHolds
  <1> QED
    BY <1>1, OneHolderHolds, CommittedWholeHolds, StoreHoldsHolds, HeldFileStaysHolds,
       RegisterIsImplemented, PTL
=============================================================================
