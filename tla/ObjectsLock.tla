----------------------------- MODULE ObjectsLock -----------------------------
(***************************************************************************)
(* The lock of one object name in the dir storage (vfs/lock.go): an        *)
(* exclusive flock on a lock file that its holder may remove.              *)
(*                                                                         *)
(* Every provider call opens its own Bucket, and with it its own           *)
(* ObjectsLock, so a caller here is one call in this or another process,   *)
(* and the per-name slot of an ObjectsLock is never contended. An action   *)
(* takes live, whether the locks directory that the caller opened is still *)
(* the bucket's: a file cannot be made or found in a removed directory.    *)
(***************************************************************************)
EXTENDS FiniteSets

CONSTANTS
    Callers,
    Inodes, \* bound on the lock files that are linked or open at a time
    None

VARIABLES
    linked, \* the inode that the name of the lock file links, or None
    file,   \* the inode each caller has open, or None
    lk,     \* how far each caller has got
    ghost,  \* the inode of a wait that the caller abandoned, or None
    granted \* callers whose abandoned wait has the flock

lockVars == <<linked, file, lk, ghost, granted>>

Phases == {"idle", "open", "try", "blocked", "check", "held", "unlinked", "failed",
           "probe", "free"}
HasFlock == {"check", "held", "unlinked", "free"}

LockInit ==
    /\ linked = None
    /\ file = [c \in Callers |-> None]
    /\ lk = [c \in Callers |-> "idle"]
    /\ ghost = [c \in Callers |-> None]
    /\ granted = {}

LockTypeOK ==
    /\ linked \in Inodes \cup {None}
    /\ file \in [Callers -> Inodes \cup {None}]
    /\ lk \in [Callers -> Phases]
    /\ ghost \in [Callers -> Inodes \cup {None}]
    /\ granted \in SUBSET Callers
    /\ \A c \in Callers : file[c] = None <=> lk[c] \in {"idle", "open", "failed"} \* no leak
    /\ \A c \in granted : ghost[c] # None

\* An open file description has the flock on inode i.
Flocked(i) ==
    \E c \in Callers : \/ file[c] = i /\ lk[c] \in HasFlock
                       \/ ghost[c] = i /\ c \in granted

\* An inode is freed, and used again, once nothing links it or has it open.
Used == {linked} \cup {file[c] : c \in Callers} \cup {ghost[c] : c \in Callers}
FreshInode == CHOOSE i \in Inodes : i \notin Used
HasInode == Inodes \ Used # {}

Phase(c, p) == lk' = [lk EXCEPT ![c] = p]
CloseFile(c) == file' = [file EXCEPT ![c] = None]

(***************************************************************************)
(* Lock                                                                    *)
(***************************************************************************)
\* acquireFile opens the file at the name, creating it if it is missing.
OpenLockFile(c, live) ==
    /\ lk[c] = "open" /\ HasInode
    /\ IF live
       THEN /\ linked' = IF linked = None THEN FreshInode ELSE linked
            /\ file' = [file EXCEPT ![c] = linked']
            /\ Phase(c, "try")
       ELSE Phase(c, "failed") /\ UNCHANGED <<linked, file>>
    /\ UNCHANGED <<ghost, granted>>

TryLock(c) ==
    /\ lk[c] = "try"
    /\ Phase(c, IF Flocked(file[c]) THEN "blocked" ELSE "check")
    /\ UNCHANGED <<linked, file, ghost, granted>>

Granted(c) ==
    /\ lk[c] = "blocked" /\ ~Flocked(file[c])
    /\ Phase(c, "check")
    /\ UNCHANGED <<linked, file, ghost, granted>>

\* isCurrent. Fault: the file is not compared with the one at the name.
Current_skipped(c, live) == TRUE
Current(c, live) == live /\ linked = file[c]

\* A file that is no longer current is closed and the name opened again.
CheckCurrent(c, live) ==
    /\ lk[c] = "check"
    /\ IF Current(c, live)
       THEN Phase(c, "held") /\ UNCHANGED file
       ELSE Phase(c, "open") /\ CloseFile(c)
    /\ UNCHANGED <<linked, ghost, granted>>

\* ctx is done, at a select. A wait in the syscall goes on without the caller.
Cancel(c) ==
    \/ /\ lk[c] = "open"
       /\ Phase(c, "failed")
       /\ UNCHANGED <<linked, file, ghost, granted>>
    \/ /\ lk[c] = "blocked" /\ ghost[c] = None
       /\ Phase(c, "failed")
       /\ ghost' = [ghost EXCEPT ![c] = file[c]]
       /\ CloseFile(c)
       /\ UNCHANGED <<linked, granted>>

\* abandon's goroutine: the syscall returns, then it closes the file.
GhostLocks(c) ==
    /\ ghost[c] # None /\ c \notin granted /\ ~Flocked(ghost[c])
    /\ granted' = granted \cup {c}
    /\ UNCHANGED <<linked, file, lk, ghost>>
GhostCloses(c) ==
    /\ c \in granted
    /\ granted' = granted \ {c}
    /\ ghost' = [ghost EXCEPT ![c] = None]
    /\ UNCHANGED <<linked, file, lk>>

(***************************************************************************)
(* Unlock keeps the file. Release unlinks the name and then closes.        *)
(***************************************************************************)
Unlock(c) ==
    /\ lk[c] = "held"
    /\ CloseFile(c) /\ Phase(c, "idle")
    /\ UNCHANGED <<linked, ghost, granted>>

Unlink(c, live) ==
    /\ linked' = IF live THEN None ELSE linked
    /\ Phase(c, "unlinked")
    /\ UNCHANGED <<file, ghost, granted>>

Release(c, live) == lk[c] = "held" /\ Unlink(c, live)

CloseUnlinked(c) ==
    /\ lk[c] = "unlinked"
    /\ CloseFile(c) /\ Phase(c, "idle")
    /\ UNCHANGED <<linked, ghost, granted>>

(***************************************************************************)
(* withFreeLock (vfs/deletebucket.go): open, try, run, unlink, close. It   *)
(* does not ask whether the file that it locked is still current.          *)
(***************************************************************************)
ProbeOpen(c) ==
    /\ linked # None
    /\ file' = [file EXCEPT ![c] = linked]
    /\ Phase(c, "probe")
    /\ UNCHANGED <<linked, ghost, granted>>

ProbeFree(c) ==
    /\ lk[c] = "probe" /\ ~Flocked(file[c])
    /\ Phase(c, "free")
    /\ UNCHANGED <<linked, file, ghost, granted>>

ProbeTaken(c) ==
    /\ lk[c] = "probe" /\ Flocked(file[c])
    /\ CloseFile(c) /\ Phase(c, "idle")
    /\ UNCHANGED <<linked, ghost, granted>>

\* A crash closes what the process has open, its abandoned wait included.
CrashLock(c) ==
    /\ file' = [file EXCEPT ![c] = None]
    /\ lk' = [lk EXCEPT ![c] = "idle"]
    /\ ghost' = [ghost EXCEPT ![c] = None]
    /\ granted' = granted \ {c}
    /\ UNCHANGED linked
=============================================================================
