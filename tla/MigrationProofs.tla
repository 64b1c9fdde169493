-------------------------- MODULE MigrationProofs --------------------------
(***************************************************************************)
(* Proofs about module Migrations.                                         *)
(*                                                                         *)
(* LedgerIsKept: the manager implements MigrationLedger. CallsHold is its  *)
(* invariant: two transactions never hold one version, so nobody gives a   *)
(* version a row between RunPending's INSERT and its commit, and a mark    *)
(* that ClearDirty has read is there when it deletes the row. Any number   *)
(* of replicas may run their pending migrations at once; Down and          *)
(* ClearDirty, which an operator calls, are called where one replica runs. *)
(*                                                                         *)
(* AppliedInOrder: what one replica has applied has no gap. InOrder adds   *)
(* what its call relies on: RunPending has yet to apply versions that lie  *)
(* right above those in effect, and takes the least; Down has yet to       *)
(* revert the top of those in effect, and takes the greatest. A release    *)
(* that adds a version below one it already has is left out: nothing       *)
(* promises an order there.                                                *)
(***************************************************************************)
EXTENDS Migrations, FiniteSetTheorems, WellFoundedInduction, TLAPS

(***************************************************************************)
(* Versions                                                                *)
(***************************************************************************)
\* A set of numbers has a least one.
LEMMA LeastNumber ==
    ASSUME NEW S, S \subseteq Nat, S # {}
    PROVE  \E v \in S : \A w \in S : v <= w
  <1> DEFINE R == OpToRel(<, Nat)
  <1>1. \A a, b \in Nat : a < b => <<a, b>> \in R
    BY Zenon DEF OpToRel
  <1>2. IsWellFoundedOn(R, Nat)
    BY NatLessThanWellFounded
  <1> HIDE DEF R
  <1>3. PICK v \in S : \A w \in S : ~(<<w, v>> \in R)
    BY <1>2, WFMin
  <1>4. \A w \in S : ~(w < v)
    BY <1>1, <1>3
  <1> QED
    BY <1>3, <1>4

\* sort.Slice by version puts the least of them first.
LEMMA LeastVersionIs ==
    ASSUME NEW S, S \subseteq Versions, S # {}
    PROVE  LeastVersion(S) \in S /\ \A w \in S : LeastVersion(S) <= w
  <1>1. \E v \in S : \A w \in S : v <= w
    BY LeastNumber, MigrationsAssumption
  <1> QED
    BY <1>1, Zenon DEF LeastVersion

\* Finitely many versions have a greatest one: one with the fewest above it.
LEMMA GreatestVersionIs ==
    ASSUME NEW S, S \subseteq Versions, S # {}
    PROVE  GreatestVersion(S) \in S /\ \A w \in S : GreatestVersion(S) >= w
  <1> DEFINE Above(v) == {w \in S : w > v}
  <1> DEFINE Counts == {Cardinality(Above(v)) : v \in S}
  <1>1. IsFiniteSet(S) /\ S \subseteq Nat
    BY FS_Subset, MigrationsAssumption
  <1>2. \A v \in S : IsFiniteSet(Above(v)) /\ Cardinality(Above(v)) \in Nat
    BY <1>1, FS_Subset, FS_CardinalityType
  <1>3. Counts \subseteq Nat /\ Counts # {}
    BY <1>2
  <1>4. PICK c \in Counts : \A d \in Counts : c <= d
    BY <1>3, LeastNumber
  <1>5. PICK v \in S : c = Cardinality(Above(v))
    BY <1>4
  <1>6. ASSUME NEW w \in S, w > v PROVE FALSE
    <2>1. Above(w) \subseteq Above(v) /\ w \in Above(v) /\ w \notin Above(w)
      <3>1. v \in Nat /\ w \in Nat /\ \A y \in S : y \in Nat
        BY <1>1
      <3>2. \A y \in S : y > w => y > v
        BY <1>6, <3>1
      <3>3. ~(w > w)
        BY <3>1
      <3> QED
        BY <1>6, <3>2, <3>3
    <2>2. Cardinality(Above(w)) < Cardinality(Above(v))
      <3>1. Above(w) # Above(v)
        BY <2>1
      <3> HIDE DEF Above
      <3>2. Cardinality(Above(w)) <= Cardinality(Above(v))
            /\ (Cardinality(Above(w)) = Cardinality(Above(v)) => Above(w) = Above(v))
        BY <1>2, <2>1, FS_Subset
      <3> QED
        BY <1>2, <3>1, <3>2
    <2>3. c <= Cardinality(Above(w))
      BY <1>4
    <2>4. Cardinality(Above(v)) \in Nat /\ Cardinality(Above(w)) \in Nat
      BY <1>2
    <2> HIDE DEF Above, Counts
    <2> QED
      BY <1>5, <2>2, <2>3, <2>4
  <1>7. \A w \in S : v >= w
    BY <1>1, <1>6
  <1>8. \E x \in S : \A w \in S : x >= w
    BY <1>7
  <1> QED
    BY <1>8, Zenon DEF GreatestVersion

\* Down(n) takes whatever lies above what it takes.
LEMMA HighestAreOnTop ==
    ASSUME NEW S, S \subseteq Versions, NEW n \in Nat
    PROVE  /\ HighestVersions(S, n) \subseteq S
           /\ \A v \in HighestVersions(S, n), w \in S : w > v => w \in HighestVersions(S, n)
  <1>1. HighestVersions(S, n) \subseteq S
    BY DEF HighestVersions
  <1>2. ASSUME NEW v \in HighestVersions(S, n), NEW w \in S, w > v
        PROVE  w \in HighestVersions(S, n)
    <2> DEFINE Above(x) == {y \in S : y > x}
    <2>1. IsFiniteSet(S) /\ S \subseteq Nat
      BY FS_Subset, MigrationsAssumption
    <2>2. v \in S /\ Cardinality(Above(v)) < n
      BY DEF HighestVersions
    <2>3. Above(w) \subseteq Above(v)
      <3>1. v \in Nat /\ w \in Nat /\ \A y \in S : y \in Nat
        BY <2>1, <2>2
      <3>2. \A y \in S : y > w => y > v
        BY <1>2, <3>1
      <3> QED
        BY <3>2
    <2>4. IsFiniteSet(Above(v))
      BY <2>1, FS_Subset
    <2>5. Cardinality(Above(w)) \in Nat /\ Cardinality(Above(v)) \in Nat
          /\ Cardinality(Above(w)) <= Cardinality(Above(v))
      <3> HIDE DEF Above
      <3> QED
        BY <2>3, <2>4, FS_Subset, FS_CardinalityType
    <2> QED
      BY <2>2, <2>5 DEF HighestVersions
  <1> QED
    BY <1>1, <1>2

(***************************************************************************)
(* The calls under way, and their transactions                             *)
(***************************************************************************)
Task == [op : {"none", "RunPending", "Down", "ClearDirty"},
         at : {"idle", "dirty", "applied", "exec", "record", "remove", "commit", "mark", "clear"},
         left : SUBSET Versions, v : Nat, n : Nat]

\* A transaction that has executed SQL of t.v is open.
InTx(t) == t.at \in {"record", "remove", "commit"}

\* What a call t of replica r relies on: a new version has no row yet when its
\* transaction commits, and ClearDirty's has a mark.
TaskOK(r, t) ==
    /\ t \in Task
    /\ t.at # "idle" => r \in running
    /\ InTx(t) \/ t.at \in {"mark", "clear"} => t.v \in Versions
    /\ t.at = "exec" => t.left # {}
    /\ t.at # "idle" /\ t.op # "RunPending" => deployed \in Operated
    /\ t.at = "commit" /\ t.op = "RunPending" => tracking[t.v] = "none"
    /\ t.at = "clear" => t.op = "ClearDirty" /\ tracking[t.v] = "dirty"

OneTxPerVersion ==
    \A r, o \in Replicas : r # o /\ InTx(task[r]) /\ InTx(task[o]) => task[r].v # task[o].v

Shape ==
    /\ deployed \subseteq Replicas /\ running \subseteq deployed
    /\ registered \in [Replicas -> [Owners -> Seq(Migration)]]
    /\ schema \subseteq Versions
    /\ tracking \in [Versions -> {"none", "clean", "dirty"}]
    /\ task \in [Replicas -> Task]
    /\ lostAnswer \in BOOLEAN

CallsHold == Shape /\ OneTxPerVersion /\ \A r \in Replicas : TaskOK(r, task[r])

\* Down and ClearDirty are called where one replica runs.
OneOperator == \A d \in Operated : \A r, o \in d : r = o
OperatedAlone == deployed \in Operated => \A r, o \in deployed : r = o

(***************************************************************************)
(* One replica: versions go up and down without a gap                      *)
(***************************************************************************)
\* Every release registers what lies below its versions.
ReleasesAreWhole ==
    \A lists \in Releases : \A v \in RegisteredVersions(lists), w \in Versions :
        w < v => w \in RegisteredVersions(lists)

Orderly(t) ==
    /\ t.at = "dirty" => t.op \in {"RunPending", "Down", "ClearDirty"}
    /\ t.at = "record" => t.op = "RunPending"
    /\ t.at = "remove" => t.op = "Down"
    /\ t.at \in {"applied", "exec", "commit"} => t.op \in {"RunPending", "Down"}
    /\ t.at \in {"applied", "exec"} \/ InTx(t) => DirtyRows = {}
    /\ t.op = "RunPending" /\ (t.at = "exec" \/ InTx(t)) =>
          /\ t.left \cap schema = {}
          /\ \A v \in t.left, w \in Versions : w < v => w \in t.left \cup schema
    /\ t.op = "RunPending" /\ InTx(t) => t.v \in t.left /\ \A w \in t.left : t.v <= w
    /\ t.op = "Down" /\ (t.at = "exec" \/ InTx(t)) =>
          /\ t.left \subseteq schema
          /\ \A v \in t.left, w \in schema : w > v => w \in t.left
    /\ t.op = "Down" /\ InTx(t) => t.v \in t.left /\ \A w \in t.left : t.v >= w
    /\ t.at = "mark" => t.v \notin schema

Whole == \A r \in Replicas : \A v \in RegisteredVersions(registered[r]), w \in Versions :
            w < v => w \in RegisteredVersions(registered[r])

InOrder ==
    Undisturbed => /\ TrackingIsTrue /\ NoGapApplied /\ Whole
                   /\ \A r \in Replicas : Orderly(task[r])
(***************************************************************************)
(* Every step keeps CallsHold                                              *)
(***************************************************************************)
LEMMA InitCalls == MigrateInit => CallsHold
  <1> SUFFICES ASSUME MigrateInit PROVE CallsHold
    OBVIOUS
  <1>1. NoTask \in Task
    BY MigrationsAssumption DEF NoTask, Task
  <1>2. Nothing \in [Owners -> Seq(Migration)]
    BY DEF Nothing
  <1>3. Shape
    BY <1>1, <1>2, MigrationsAssumption DEF MigrateInit, Shape
  <1>4. \A r \in Replicas : task[r] = NoTask
    BY DEF MigrateInit
  <1> QED
    BY <1>1, <1>3, <1>4 DEF CallsHold, OneTxPerVersion, TaskOK, InTx, NoTask

\* One call goes on as t: no other call loses what it relies on.
LEMMA OneCallGoesOn ==
    ASSUME CallsHold, NEW r \in Replicas, NEW t \in Task,
           task' = [task EXCEPT ![r] = t],
           deployed' = deployed, running' \subseteq deployed,
           \A o \in running : o # r => o \in running',
           registered' \in [Replicas -> [Owners -> Seq(Migration)]],
           schema' \subseteq Versions,
           tracking' \in [Versions -> {"none", "clean", "dirty"}],
           lostAnswer' \in BOOLEAN,
           t.at # "idle" => r \in running',
           InTx(t) \/ t.at \in {"mark", "clear"} => t.v \in Versions,
           t.at = "exec" => t.left # {},
           t.at # "idle" /\ t.op # "RunPending" => deployed \in Operated,
           t.at = "commit" /\ t.op = "RunPending" => tracking'[t.v] = "none",
           t.at = "clear" => t.op = "ClearDirty" /\ tracking'[t.v] = "dirty",
           InTx(t) => (InTx(task[r]) /\ t.v = task[r].v) \/ ~WaitsForTx(r, t.v),
           \A o \in Replicas \ {r} :
              InTx(task[o]) \/ task[o].at = "clear" => tracking'[task[o].v] = tracking[task[o].v]
    PROVE  CallsHold'
  <1>1. \A o \in Replicas : task'[o] = IF o = r THEN t ELSE task[o]
    BY DEF CallsHold, Shape
  <1>2. Shape'
    BY <1>1 DEF CallsHold, Shape
  <1>3. \A o \in Replicas : TaskOK(o, task[o])'
    BY <1>1 DEF CallsHold, Shape, TaskOK, InTx
  <1>4. \A o \in Replicas : o # r /\ InTx(t) /\ InTx(task[o]) => t.v # task[o].v
    BY DEF CallsHold, OneTxPerVersion, WaitsForTx, InTx, TaskOK
  <1>5. OneTxPerVersion'
    BY <1>1, <1>4 DEF CallsHold, OneTxPerVersion, InTx
  <1> QED
    BY <1>2, <1>3, <1>5 DEF CallsHold

\* A call ends.
LEMMA OneCallEnds ==
    ASSUME CallsHold, NEW r \in Replicas, TaskDone(r),
           deployed' = deployed, running' \subseteq deployed,
           \A o \in running : o # r => o \in running',
           registered' \in [Replicas -> [Owners -> Seq(Migration)]],
           schema' \subseteq Versions,
           tracking' \in [Versions -> {"none", "clean", "dirty"}],
           lostAnswer' \in BOOLEAN,
           \A o \in Replicas \ {r} :
              InTx(task[o]) \/ task[o].at = "clear" => tracking'[task[o].v] = tracking[task[o].v]
    PROVE  CallsHold'
  <1>1. /\ NoTask \in Task /\ NoTask.at = "idle" /\ task' = [task EXCEPT ![r] = NoTask]
    BY MigrationsAssumption DEF NoTask, Task, TaskDone, SetTask
  <1> QED
    BY <1>1, OneCallGoesOn DEF InTx

\* A call goes on with the table as it was.
LEMMA OneCallReads ==
    ASSUME CallsHold, NEW r \in Replicas, NEW t \in Task,
           SetTask(r, t), UNCHANGED <<programs, schema, tracking, lostAnswer>>,
           r \in running,
           InTx(t) \/ t.at \in {"mark", "clear"} => t.v \in Versions,
           t.at = "exec" => t.left # {},
           t.at # "idle" /\ t.op # "RunPending" => deployed \in Operated,
           t.at = "commit" /\ t.op = "RunPending" => tracking[t.v] = "none",
           t.at = "clear" => t.op = "ClearDirty" /\ tracking[t.v] = "dirty",
           InTx(t) => (InTx(task[r]) /\ t.v = task[r].v) \/ ~WaitsForTx(r, t.v)
    PROVE  CallsHold'
  <1>1. task' = [task EXCEPT ![r] = t]
    BY DEF SetTask
  <1> QED
    BY <1>1, OneCallGoesOn DEF CallsHold, Shape, programs

\* Boot, Register and CheckReady touch no call.
LEMMA ProgramsMove ==
    ASSUME CallsHold, NEW r \in Replicas,
           Boot(r) \/ (\E owner \in Owners : Reregister(r, owner))
             \/ CheckReady(r) \/ CheckReadyApplied(r) \/ CheckReadyList(r)
    PROVE  CallsHold' /\ UNCHANGED <<schema, tracking, task, deployed, lostAnswer>>
  <1>1. UNCHANGED <<schema, tracking, task, deployed, lostAnswer>>
    BY DEF Boot, Reregister, CheckReady, CheckReadyApplied, CheckReadyList, Probed, programs
  <1>2. running \subseteq running' /\ running' \subseteq deployed
    BY DEF Boot, Reregister, CheckReady, CheckReadyApplied, CheckReadyList, Probed, programs, CallsHold, Shape
  <1>3. registered' \in [Replicas -> [Owners -> Seq(Migration)]]
    <2>1. CASE Boot(r)
      BY <2>1, MigrationsAssumption DEF Boot, CallsHold, Shape
    <2>2. CASE \E owner \in Owners : Reregister(r, owner)
      <3>1. PICK owner \in Owners : Reregister(r, owner)
        BY <2>2
      <3>2. registered[r] \in [Owners -> Seq(Migration)] /\ registered[r][owner] \in Seq(Migration)
        BY DEF CallsHold, Shape
      <3>3. registered[r][owner] \o registered[r][owner] \in Seq(Migration)
        BY <3>2
      <3> QED
        BY <3>1, <3>2, <3>3 DEF Reregister, CallsHold, Shape
    <2>3. CASE CheckReady(r) \/ CheckReadyApplied(r) \/ CheckReadyList(r)
      BY <2>3 DEF CheckReady, CheckReadyApplied, CheckReadyList, Probed, programs, CallsHold, Shape
    <2> QED
      BY <2>1, <2>2, <2>3
  <1>4. Shape'
    BY <1>1, <1>2, <1>3 DEF CallsHold, Shape
  <1> QED
    BY <1>1, <1>2, <1>4 DEF CallsHold, OneTxPerVersion, TaskOK, InTx

\* A crash ends a call and opens the rows its transaction held.
LEMMA MigrateCrashCalls ==
    ASSUME CallsHold, NEW r \in Replicas, MigrateCrash(r)
    PROVE  CallsHold'
  <1>1. Nothing \in [Owners -> Seq(Migration)]
    BY DEF Nothing
  <1> QED
    BY <1>1, OneCallEnds DEF MigrateCrash, CallsHold, Shape

\* RunPending, Down and ClearDirty take s.mu and have read nothing yet.
LEMMA BeginTaskCalls ==
    ASSUME CallsHold, NEW r \in Replicas, NEW op \in {"RunPending", "Down", "ClearDirty"},
           NEW v \in Nat, NEW n \in Nat, BeginTask(r, op, v, n),
           op = "RunPending" \/ deployed \in Operated
    PROVE  CallsHold'
  <1> DEFINE t == [op |-> op, at |-> "dirty", left |-> {}, v |-> v, n |-> n]
  <1>1. t \in Task /\ t.at = "dirty" /\ t.op = op
    BY DEF Task
  <1>2. SetTask(r, t) /\ r \in running /\ UNCHANGED <<programs, schema, tracking, lostAnswer>>
    BY DEF BeginTask
  <1> HIDE DEF t
  <1> QED
    BY <1>1, <1>2, OneCallReads DEF InTx

\* getDirtyMigrations: ClearDirty goes on with a version it saw marked.
LEMMA ReadDirtyCalls ==
    ASSUME CallsHold, NEW r \in Replicas, ReadDirty(r)
    PROVE  CallsHold'
  <1>1. task[r] \in Task /\ TaskOK(r, task[r])
    BY DEF CallsHold, Shape
  <1>2. CASE BlockedByDirty(r)
    BY <1>2, OneCallEnds DEF ReadDirty, programs, CallsHold, Shape
  <1>3. CASE ~BlockedByDirty(r)
    <2> DEFINE to == IF task[r].op = "ClearDirty" THEN "clear" ELSE "applied"
    <2> DEFINE t == [task[r] EXCEPT !.at = to]
    <2>1. t \in Task /\ t.at = to /\ t.op = task[r].op /\ t.v = task[r].v
      BY <1>1 DEF Task
    <2>2. to = "clear" => task[r].op = "ClearDirty" /\ t.v \in Versions /\ tracking[t.v] = "dirty"
      BY <1>3, <2>1 DEF BlockedByDirty, DirtyRows
    <2>3. SetTask(r, t) /\ UNCHANGED <<programs, schema, tracking, lostAnswer>>
      BY <1>3 DEF ReadDirty, TaskAt
    <2>4. task[r].at = "dirty" /\ r \in running /\ to \in {"clear", "applied"}
          /\ (task[r].op # "RunPending" => deployed \in Operated)
      BY <1>1 DEF ReadDirty, TaskOK
    <2> HIDE DEF t, to
    <2> QED
      BY <2>1, <2>2, <2>3, <2>4, OneCallReads DEF InTx
  <1> QED
    BY <1>2, <1>3

\* What is registered has a version.
LEMMA RegisteredAreVersions ==
    ASSUME CallsHold, NEW r \in Replicas
    PROVE  RegisteredVersions(registered[r]) \subseteq Versions
  <1>1. ASSUME NEW o \in Owners, NEW i \in DOMAIN registered[r][o]
        PROVE  registered[r][o][i].version \in Versions
    <2>1. registered[r][o] \in Seq(Migration)
      BY DEF CallsHold, Shape
    <2>2. registered[r][o][i] \in Migration
      BY <2>1
    <2> QED
      BY <2>2 DEF Migration
  <1> QED
    BY <1>1 DEF RegisteredVersions

\* What RunPending and Down go through are versions.
LEMMA ReadAppliedCalls ==
    ASSUME CallsHold, NEW r \in Replicas, ReadApplied(r)
    PROVE  CallsHold'
  <1>1. task[r] \in Task /\ TaskOK(r, task[r])
    BY DEF CallsHold, Shape
  <1> DEFINE left == IF task[r].op = "Down" THEN HighestVersions(AppliedRows, task[r].n)
                     ELSE RegisteredVersions(registered[r]) \ AppliedRows
  <1>2. left \subseteq Versions
    <2>1. AppliedRows \subseteq Versions /\ task[r].n \in Nat
      BY <1>1 DEF AppliedRows, Task
    <2> QED
      BY <2>1, HighestAreOnTop, RegisteredAreVersions
  <1>3. CASE Conflicting(registered[r]) \/ left = {}
    <2>1. TaskDone(r) /\ UNCHANGED <<programs, schema, tracking, lostAnswer>>
      BY <1>3 DEF ReadApplied
    <2> QED
      BY <2>1, OneCallEnds DEF programs, CallsHold, Shape
  <1>4. CASE ~(Conflicting(registered[r]) \/ left = {})
    <2> DEFINE t == [task[r] EXCEPT !.at = "exec", !.left = left]
    <2>1. t \in Task /\ t.at = "exec" /\ t.left = left /\ t.op = task[r].op
      BY <1>1, <1>2 DEF Task
    <2>2. SetTask(r, t) /\ UNCHANGED <<programs, schema, tracking, lostAnswer>>
      BY <1>4 DEF ReadApplied
    <2>3. r \in running /\ left # {} /\ (task[r].op # "RunPending" => deployed \in Operated)
      BY <1>1, <1>4 DEF ReadApplied, TaskOK
    <2> HIDE DEF t, left
    <2> QED
      BY <2>1, <2>2, <2>3, OneCallReads DEF InTx
  <1> QED
    BY <1>3, <1>4

\* A query, or marking or reverting, fails, and the call returns its error.
LEMMA CallFails ==
    ASSUME CallsHold, NEW r \in Replicas,
           QueryFails(r) \/ MarkDirtyFails(r) \/ ExecDownFails(r)
    PROVE  CallsHold' /\ TaskDone(r) /\ UNCHANGED <<programs, schema, tracking, lostAnswer>>
  <1>1. TaskDone(r) /\ UNCHANGED <<programs, schema, tracking, lostAnswer>>
    BY DEF QueryFails, MarkDirtyFails, ExecDownFails, AfterMark
  <1> QED
    BY <1>1, OneCallEnds DEF programs, CallsHold, Shape

\* execUp waits for whoever holds the version.
LEMMA ExecUpCalls ==
    ASSUME CallsHold, NEW r \in Replicas, ExecUp(r) \/ ExecUpFails(r)
    PROVE  CallsHold'
  <1> DEFINE v == LeastVersion(task[r].left)
  <1>1. task[r] \in Task /\ TaskOK(r, task[r]) /\ task[r].at = "exec" /\ task[r].op = "RunPending"
    BY DEF CallsHold, Shape, ExecUp, ExecUpFails
  <1>2. v \in Versions /\ v \in Nat
    BY <1>1, LeastVersionIs, MigrationsAssumption DEF Task, TaskOK
  <1>3. PICK to \in {"record", "mark"} : SetTask(r, [task[r] EXCEPT !.v = v, !.at = to])
    BY DEF ExecUp, ExecUpFails
  <1>4. ~WaitsForTx(r, v) /\ UNCHANGED <<programs, schema, tracking, lostAnswer>>
    BY DEF ExecUp, ExecUpFails
  <1> DEFINE t == [task[r] EXCEPT !.v = v, !.at = to]
  <1>5. t \in Task /\ t.at = to /\ t.v = v /\ t.op = "RunPending"
    BY <1>1, <1>2, <1>3 DEF Task
  <1>6. r \in running
    BY <1>1 DEF TaskOK
  <1>7. SetTask(r, t)
    BY <1>3
  <1> HIDE DEF t, v
  <1> QED
    BY <1>2, <1>3, <1>4, <1>5, <1>6, <1>7, OneCallReads DEF InTx

\* Only a version without a row reaches the commit.
LEMMA RecordAppliedCalls ==
    ASSUME CallsHold, NEW r \in Replicas, RecordApplied(r)
    PROVE  CallsHold'
  <1> DEFINE to == IF tracking[task[r].v] = "none" THEN "commit" ELSE "mark"
  <1> DEFINE t == [task[r] EXCEPT !.at = to]
  <1>1. task[r] \in Task /\ TaskOK(r, task[r]) /\ task[r].at = "record" /\ task[r].op = "RunPending"
    BY DEF CallsHold, Shape, RecordApplied
  <1>2. t \in Task /\ t.at = to /\ t.v = task[r].v /\ t.op = "RunPending"
    BY <1>1 DEF Task
  <1>3. t.v \in Versions /\ r \in running
    BY <1>1, <1>2 DEF TaskOK, InTx
  <1>4. SetTask(r, t) /\ UNCHANGED <<programs, schema, tracking, lostAnswer>>
    BY DEF RecordApplied, TaskAt
  <1>5. to \in {"commit", "mark"} /\ (to = "commit" => tracking[t.v] = "none")
    BY <1>2
  <1> HIDE DEF t, to
  <1> QED
    BY <1>1, <1>2, <1>3, <1>4, <1>5, OneCallReads DEF InTx

\* applyDown waits for whoever holds the version.
LEMMA ExecDownCalls ==
    ASSUME CallsHold, NEW r \in Replicas, ExecDown(r)
    PROVE  CallsHold'
  <1> DEFINE v == DownNext(task[r].left)
  <1> DEFINE t == [task[r] EXCEPT !.v = v, !.at = "remove"]
  <1>1. task[r] \in Task /\ TaskOK(r, task[r]) /\ task[r].at = "exec" /\ task[r].op = "Down"
    BY DEF CallsHold, Shape, ExecDown
  <1>2. v \in Versions /\ v \in Nat
    BY <1>1, GreatestVersionIs, MigrationsAssumption DEF Task, TaskOK, DownNext
  <1>3. t \in Task /\ t.at = "remove" /\ t.v = v /\ t.op = "Down"
    BY <1>1, <1>2 DEF Task
  <1>4. SetTask(r, t) /\ ~WaitsForTx(r, v) /\ UNCHANGED <<programs, schema, tracking, lostAnswer>>
    BY DEF ExecDown
  <1>5. r \in running /\ deployed \in Operated
    BY <1>1 DEF TaskOK
  <1> HIDE DEF t, v
  <1> QED
    BY <1>2, <1>3, <1>4, <1>5, OneCallReads DEF InTx

\* removeMigration works inside the transaction.
LEMMA RemoveRowCalls ==
    ASSUME CallsHold, NEW r \in Replicas, RemoveRow(r)
    PROVE  CallsHold'
  <1> DEFINE t == [task[r] EXCEPT !.at = "commit"]
  <1>1. task[r] \in Task /\ TaskOK(r, task[r]) /\ task[r].at = "remove" /\ task[r].op = "Down"
    BY DEF CallsHold, Shape, RemoveRow
  <1>2. t \in Task /\ t.at = "commit" /\ t.v = task[r].v /\ t.op = "Down"
    BY <1>1 DEF Task
  <1>3. t.v \in Versions /\ r \in running /\ deployed \in Operated
    BY <1>1, <1>2 DEF TaskOK, InTx
  <1>4. UNCHANGED <<programs, schema, tracking, lostAnswer>> /\ (SetTask(r, t) \/ TaskDone(r))
    BY DEF RemoveRow, TaskAt
  <1> HIDE DEF t
  <1>5. CASE SetTask(r, t)
    BY <1>1, <1>2, <1>3, <1>4, <1>5, OneCallReads DEF InTx
  <1>6. CASE TaskDone(r)
    BY <1>4, <1>6, OneCallEnds DEF programs, CallsHold, Shape
  <1> QED
    BY <1>4, <1>5, <1>6

\* Once a version is committed the loop goes on, or the call ends.
LEMMA OneCallCommits ==
    ASSUME CallsHold, NEW r \in Replicas, task[r].at = "commit", NextVersion(r),
           UNCHANGED <<programs, lostAnswer>>, schema' \subseteq Versions,
           tracking' \in [Versions -> {"none", "clean", "dirty"}],
           \A o \in Replicas \ {r} :
              InTx(task[o]) \/ task[o].at = "clear" => tracking'[task[o].v] = tracking[task[o].v]
    PROVE  CallsHold'
  <1>1. task[r] \in Task /\ TaskOK(r, task[r])
    BY DEF CallsHold, Shape
  <1> DEFINE left == task[r].left \ {task[r].v}
  <1>2. CASE left = {}
    <2>1. TaskDone(r)
      BY <1>2 DEF NextVersion
    <2> QED
      BY <2>1, OneCallEnds DEF programs, CallsHold, Shape
  <1>3. CASE left # {}
    <2> DEFINE t == [task[r] EXCEPT !.left = left, !.at = "exec"]
    <2>1. t \in Task /\ t.at = "exec" /\ t.left = left /\ t.op = task[r].op
      BY <1>1 DEF Task
    <2>2. task' = [task EXCEPT ![r] = t]
      BY <1>3 DEF NextVersion, SetTask
    <2>3. r \in running /\ (task[r].op # "RunPending" => deployed \in Operated)
      BY <1>1 DEF TaskOK
    <2> HIDE DEF t, left
    <2> QED
      BY <1>3, <2>1, <2>2, <2>3, OneCallGoesOn DEF programs, CallsHold, Shape, InTx
  <1> QED
    BY <1>2, <1>3

\* Two transactions never hold one version, and Down and ClearDirty work alone:
\* what r writes to its version is nothing another call relies on.
LEMMA OthersElsewhere ==
    ASSUME OperatedAlone, CallsHold, NEW r \in Replicas, task[r].at # "idle",
           InTx(task[r]) \/ ~WaitsForTx(r, task[r].v) \/ task[r].op # "RunPending",
           NEW o \in Replicas \ {r}, InTx(task[o]) \/ task[o].at = "clear"
    PROVE  task[o].v # task[r].v
  <1>1. TaskOK(o, task[o]) /\ TaskOK(r, task[r])
    BY DEF CallsHold
  <1>2. r \in running /\ o \in running /\ running \subseteq deployed
    BY <1>1 DEF CallsHold, Shape, TaskOK, InTx
  <1>3. deployed \notin Operated
    BY <1>2 DEF OperatedAlone
  <1>4. InTx(task[o]) /\ task[r].op = "RunPending"
    BY <1>1, <1>2, <1>3 DEF TaskOK, InTx
  <1> QED
    BY <1>2, <1>4 DEF CallsHold, OneTxPerVersion, InTx, WaitsForTx

\* recordAndCommit: the version had no row, and has one that is clean.
LEMMA CommitUpCalls ==
    ASSUME OperatedAlone, CallsHold, NEW r \in Replicas, CommitUp(r)
    PROVE  CallsHold' /\ task[r].v \in Versions /\ Ledger!Apply(task[r].v)
  <1>1. TaskOK(r, task[r]) /\ task[r].at = "commit" /\ task[r].op = "RunPending"
    BY DEF CallsHold, CommitUp
  <1>2. task[r].v \in Versions /\ tracking[task[r].v] = "none" /\ InTx(task[r])
    BY <1>1 DEF TaskOK, InTx
  <1>3. /\ schema' = schema \cup {task[r].v}
        /\ tracking' = [tracking EXCEPT ![task[r].v] = "clean"]
    BY DEF CommitUp, UpCommitted
  <1>4. /\ schema' \subseteq Versions /\ tracking' \in [Versions -> {"none", "clean", "dirty"}]
        /\ \A o \in Replicas \ {r} :
              InTx(task[o]) \/ task[o].at = "clear" => tracking'[task[o].v] = tracking[task[o].v]
    BY <1>1, <1>2, <1>3, OthersElsewhere DEF CallsHold, Shape
  <1>5. CallsHold'
    BY <1>1, <1>4, OneCallCommits DEF CommitUp
  <1> QED
    BY <1>2, <1>3, <1>5 DEF Ledger!Apply

\* The commit reports an error, truthfully or not.
LEMMA CommitUpFailsCalls ==
    ASSUME OperatedAlone, CallsHold, NEW r \in Replicas, CommitUpFails(r)
    PROVE  /\ CallsHold' /\ task[r].v \in Versions
           /\ Ledger!Apply(task[r].v) \/ UNCHANGED <<schema, tracking>>
  <1>1. TaskOK(r, task[r]) /\ task[r].at = "commit" /\ task[r].op = "RunPending" /\ task[r] \in Task
    BY DEF CallsHold, Shape, CommitUpFails
  <1>2. task[r].v \in Versions /\ tracking[task[r].v] = "none" /\ InTx(task[r]) /\ r \in running
    BY <1>1 DEF TaskOK, InTx
  <1>3. \/ UNCHANGED <<schema, tracking, lostAnswer>>
        \/ /\ schema' = schema \cup {task[r].v}
           /\ tracking' = [tracking EXCEPT ![task[r].v] = "clean"]
           /\ lostAnswer' = TRUE
    BY DEF CommitUpFails, UpCommitted
  <1>4. /\ schema' \subseteq Versions /\ tracking' \in [Versions -> {"none", "clean", "dirty"}]
        /\ lostAnswer' \in BOOLEAN
        /\ \A o \in Replicas \ {r} :
              InTx(task[o]) \/ task[o].at = "clear" => tracking'[task[o].v] = tracking[task[o].v]
    <2>1. tracking \in [Versions -> {"none", "clean", "dirty"}] /\ schema \subseteq Versions /\ lostAnswer \in BOOLEAN
      BY DEF CallsHold, Shape
    <2>2. ASSUME NEW o \in Replicas \ {r}, InTx(task[o]) \/ task[o].at = "clear"
          PROVE  tracking'[task[o].v] = tracking[task[o].v]
      <3>1. task[o].v # task[r].v /\ task[o].v \in Versions
        BY <1>1, <1>2, <2>2, OthersElsewhere DEF CallsHold, TaskOK
      <3> QED
        BY <1>3, <2>1, <3>1
    <2>3. /\ schema' \subseteq Versions /\ tracking' \in [Versions -> {"none", "clean", "dirty"}]
          /\ lostAnswer' \in BOOLEAN
      BY <1>2, <1>3, <2>1
    <2> QED
      BY <2>2, <2>3
  <1> DEFINE t == [task[r] EXCEPT !.at = "mark"]
  <1>5. t \in Task /\ t.at = "mark" /\ t.v = task[r].v /\ t.op = "RunPending"
    BY <1>1 DEF Task
  <1>6. task' = [task EXCEPT ![r] = t] /\ UNCHANGED programs
    BY DEF CommitUpFails, TaskAt, SetTask
  <1> HIDE DEF t
  <1>7. CallsHold'
    BY <1>2, <1>4, <1>5, <1>6, OneCallGoesOn DEF programs, CallsHold, Shape, InTx
  <1> QED
    BY <1>2, <1>3, <1>7 DEF Ledger!Apply

\* markDirty waits for a transaction that holds the row.
LEMMA MarkDirtyCalls ==
    ASSUME OperatedAlone, CallsHold, NEW r \in Replicas, MarkDirty(r)
    PROVE  CallsHold' /\ task[r].v \in Versions /\ Ledger!Mark(task[r].v)
  <1>1. TaskOK(r, task[r]) /\ task[r].at = "mark" /\ ~WaitsForTx(r, task[r].v)
    BY DEF CallsHold, MarkDirty
  <1>2. task[r].v \in Versions
    BY <1>1 DEF TaskOK
  <1>3. tracking' = [tracking EXCEPT ![task[r].v] = "dirty"] /\ UNCHANGED <<programs, schema, lostAnswer>>
        /\ TaskDone(r)
    BY DEF MarkDirty, AfterMark
  <1>4. /\ tracking' \in [Versions -> {"none", "clean", "dirty"}]
        /\ \A o \in Replicas \ {r} :
              InTx(task[o]) \/ task[o].at = "clear" => tracking'[task[o].v] = tracking[task[o].v]
    BY <1>1, <1>2, <1>3, OthersElsewhere DEF CallsHold, Shape
  <1>5. CallsHold'
    BY <1>3, <1>4, OneCallEnds DEF programs, CallsHold, Shape
  <1> QED
    BY <1>2, <1>3, <1>5 DEF Ledger!Mark

\* applyDown: the schema change and the row go together.
LEMMA CommitDownCalls ==
    ASSUME OperatedAlone, CallsHold, NEW r \in Replicas, CommitDown(r)
    PROVE  CallsHold' /\ task[r].v \in Versions /\ Ledger!Revert(task[r].v)
  <1>1. TaskOK(r, task[r]) /\ task[r].at = "commit" /\ task[r].op = "Down"
    BY DEF CallsHold, CommitDown
  <1>2. task[r].v \in Versions /\ InTx(task[r])
    BY <1>1 DEF TaskOK, InTx
  <1>3. /\ schema' = schema \ {task[r].v}
        /\ tracking' = [tracking EXCEPT ![task[r].v] = "none"]
    BY DEF CommitDown, DownCommitted
  <1>4. /\ schema' \subseteq Versions /\ tracking' \in [Versions -> {"none", "clean", "dirty"}]
        /\ \A o \in Replicas \ {r} :
              InTx(task[o]) \/ task[o].at = "clear" => tracking'[task[o].v] = tracking[task[o].v]
    BY <1>1, <1>2, <1>3, OthersElsewhere DEF CallsHold, Shape
  <1>5. CallsHold'
    BY <1>1, <1>4, OneCallCommits DEF CommitDown
  <1> QED
    BY <1>2, <1>3, <1>5 DEF Ledger!Revert

\* The commit of a down migration reports an error, truthfully or not.
LEMMA CommitDownFailsCalls ==
    ASSUME OperatedAlone, CallsHold, NEW r \in Replicas, CommitDownFails(r)
    PROVE  /\ CallsHold' /\ task[r].v \in Versions
           /\ Ledger!Revert(task[r].v) \/ UNCHANGED <<schema, tracking>>
  <1>1. TaskOK(r, task[r]) /\ task[r].at = "commit" /\ task[r].op = "Down"
    BY DEF CallsHold, CommitDownFails
  <1>2. task[r].v \in Versions /\ InTx(task[r])
    BY <1>1 DEF TaskOK, InTx
  <1>3. \/ UNCHANGED <<schema, tracking, lostAnswer>>
        \/ /\ schema' = schema \ {task[r].v}
           /\ tracking' = [tracking EXCEPT ![task[r].v] = "none"]
           /\ lostAnswer' = TRUE
    BY DEF CommitDownFails, DownCommitted
  <1>4. /\ schema' \subseteq Versions /\ tracking' \in [Versions -> {"none", "clean", "dirty"}]
        /\ lostAnswer' \in BOOLEAN
        /\ \A o \in Replicas \ {r} :
              InTx(task[o]) \/ task[o].at = "clear" => tracking'[task[o].v] = tracking[task[o].v]
    <2>1. tracking \in [Versions -> {"none", "clean", "dirty"}] /\ schema \subseteq Versions /\ lostAnswer \in BOOLEAN
      BY DEF CallsHold, Shape
    <2>2. ASSUME NEW o \in Replicas \ {r}, InTx(task[o]) \/ task[o].at = "clear"
          PROVE  tracking'[task[o].v] = tracking[task[o].v]
      <3>1. task[o].v # task[r].v /\ task[o].v \in Versions
        BY <1>1, <1>2, <2>2, OthersElsewhere DEF CallsHold, TaskOK
      <3> QED
        BY <1>3, <2>1, <3>1
    <2>3. /\ schema' \subseteq Versions /\ tracking' \in [Versions -> {"none", "clean", "dirty"}]
          /\ lostAnswer' \in BOOLEAN
      BY <1>2, <1>3, <2>1
    <2> QED
      BY <2>2, <2>3
  <1>5. CallsHold'
    BY <1>4, OneCallEnds DEF CommitDownFails, programs, CallsHold, Shape
  <1> QED
    BY <1>2, <1>3, <1>5 DEF Ledger!Revert

\* ClearDirty removes the mark it has seen.
LEMMA ClearRowCalls ==
    ASSUME OperatedAlone, CallsHold, NEW r \in Replicas, ClearRow(r)
    PROVE  /\ CallsHold' /\ task[r].v \in Versions
           /\ Ledger!Clear(task[r].v) \/ UNCHANGED <<schema, tracking>>
  <1>1. TaskOK(r, task[r]) /\ task[r].at = "clear" /\ ~WaitsForTx(r, task[r].v)
    BY DEF CallsHold, ClearRow
  <1>2. task[r].v \in Versions /\ tracking[task[r].v] = "dirty" /\ task[r].op # "RunPending"
    BY <1>1 DEF TaskOK
  <1>3. /\ tracking' = [tracking EXCEPT ![task[r].v] = "none"] \/ UNCHANGED tracking
        /\ UNCHANGED <<programs, schema, lostAnswer>> /\ TaskDone(r)
    BY DEF ClearRow
  <1>4. /\ tracking' \in [Versions -> {"none", "clean", "dirty"}]
        /\ \A o \in Replicas \ {r} :
              InTx(task[o]) \/ task[o].at = "clear" => tracking'[task[o].v] = tracking[task[o].v]
    <2>1. tracking \in [Versions -> {"none", "clean", "dirty"}] /\ schema \subseteq Versions /\ lostAnswer \in BOOLEAN
      BY DEF CallsHold, Shape
    <2>2. ASSUME NEW o \in Replicas \ {r}, InTx(task[o]) \/ task[o].at = "clear"
          PROVE  tracking'[task[o].v] = tracking[task[o].v]
      <3>1. task[o].v # task[r].v /\ task[o].v \in Versions
        BY <1>1, <1>2, <2>2, OthersElsewhere DEF CallsHold, TaskOK
      <3> QED
        BY <1>3, <2>1, <3>1
    <2>3. /\ tracking' \in [Versions -> {"none", "clean", "dirty"}]
      BY <1>2, <1>3, <2>1
    <2> QED
      BY <2>2, <2>3
  <1>5. CallsHold'
    BY <1>3, <1>4, OneCallEnds DEF programs, CallsHold, Shape
  <1> QED
    BY <1>2, <1>3, <1>5 DEF Ledger!Clear

\* Every step keeps CallsHold and is one of the ledger or changes nothing of it.
LEMMA CallsStep ==
    ASSUME OperatedAlone, CallsHold, [MigrateNext]_migrateVars
    PROVE  CallsHold' /\ [Ledger!Next]_<<schema, tracking>>
  <1>1. CASE UNCHANGED migrateVars
    BY <1>1 DEF migrateVars, CallsHold, Shape, OneTxPerVersion, TaskOK, InTx
  <1>2. CASE MigrateNext
    <2>1. PICK r \in Replicas :
             \/ Boot(r) \/ MigrateCrash(r) \/ MigrateStep(r)
             \/ \E owner \in Owners : Reregister(r, owner)
             \/ RunPending(r)
             \/ \E n \in DownCounts : Down(r, n)
             \/ \E v \in Versions : ClearDirty(r, v)
      BY <1>2 DEF MigrateNext
    <2>2. CASE \/ Boot(r) \/ (\E owner \in Owners : Reregister(r, owner))
               \/ CheckReady(r) \/ CheckReadyApplied(r) \/ CheckReadyList(r)
      BY <2>2, ProgramsMove
    <2>3. CASE \/ RunPending(r) \/ (\E n \in DownCounts : Down(r, n))
               \/ (\E v \in Versions : ClearDirty(r, v))
      <3>1. UNCHANGED <<schema, tracking>>
        BY <2>3 DEF RunPending, Down, ClearDirty, BeginTask
      <3>2. DownCounts \subseteq Nat /\ Versions \subseteq Nat /\ 0 \in Nat
        BY MigrationsAssumption
      <3> QED
        BY <2>3, <3>1, <3>2, BeginTaskCalls DEF RunPending, Down, ClearDirty
    <2>4. CASE MigrateCrash(r)
      BY <2>4, MigrateCrashCalls DEF MigrateCrash
    <2>5. CASE QueryFails(r) \/ MarkDirtyFails(r) \/ ExecDownFails(r)
      BY <2>5, CallFails
    <2>6. CASE \/ ReadDirty(r) \/ ReadApplied(r) \/ ExecUp(r) \/ ExecUpFails(r)
               \/ RecordApplied(r) \/ ExecDown(r) \/ RemoveRow(r)
      <3>1. UNCHANGED <<schema, tracking>>
        BY <2>6 DEF ReadDirty, ReadApplied, ExecUp, ExecUpFails, RecordApplied, ExecDown, RemoveRow
      <3> QED
        BY <2>6, <3>1, ReadDirtyCalls, ReadAppliedCalls, ExecUpCalls, RecordAppliedCalls,
           ExecDownCalls, RemoveRowCalls
    <2>7. CASE \/ CommitUp(r) \/ CommitUpFails(r) \/ MarkDirty(r)
               \/ CommitDown(r) \/ CommitDownFails(r) \/ ClearRow(r)
      BY <2>7, CommitUpCalls, CommitUpFailsCalls, MarkDirtyCalls, CommitDownCalls,
         CommitDownFailsCalls, ClearRowCalls DEF Ledger!Next
    <2> QED
      BY <2>1, <2>2, <2>3, <2>4, <2>5, <2>6, <2>7 DEF MigrateStep
  <1> QED
    BY <1>1, <1>2

\* Every step of the manager is a step of the ledger or leaves schema and table
\* alone: up SQL and row commit together, and so do down SQL and its DELETE.
THEOREM LedgerIsKept == ASSUME OneOperator PROVE MigrateSpec => ImplementsLedger
  <1>1. MigrateInit => CallsHold /\ Ledger!Init
    BY InitCalls DEF MigrateInit, Ledger!Init
  <1>2. CallsHold /\ [MigrateNext]_migrateVars => CallsHold' /\ [Ledger!Next]_<<schema, tracking>>
    BY CallsStep DEF OneOperator, OperatedAlone
  <1> QED
    BY <1>1, <1>2, PTL DEF MigrateSpec, ImplementsLedger, Ledger!Spec

(***************************************************************************)
(* Every step keeps InOrder                                                *)
(***************************************************************************)
LEMMA IdleIsOrderly == ASSUME NEW t, t.at = "idle" PROVE Orderly(t)
  BY DEF Orderly, InTx

\* An empty database is in order.
LEMMA InitInOrder == MigrateInit => InOrder
  <1> SUFFICES ASSUME MigrateInit PROVE InOrder
    OBVIOUS
  <1>1. \A r \in Replicas : Orderly(task[r])
    BY IdleIsOrderly DEF MigrateInit, NoTask
  <1>2. Whole
    BY DEF MigrateInit, Nothing, Whole, RegisteredVersions
  <1> QED
    BY <1>1, <1>2 DEF MigrateInit, InOrder, TrackingIsTrue, NoGapApplied

\* Where one replica is deployed only its call has to be looked at.
LEMMA SoleReplica ==
    ASSUME CallsHold', NEW r \in Replicas, r \in deployed',
           Undisturbed' => TrackingIsTrue' /\ NoGapApplied' /\ Whole' /\ Orderly(task[r])'
    PROVE  InOrder'
  <1> SUFFICES ASSUME Undisturbed', NEW o \in Replicas, o # r PROVE Orderly(task[o])'
    BY DEF InOrder
  <1>1. o \notin running'
    BY DEF Undisturbed, CallsHold, Shape
  <1>2. task'[o].at = "idle"
    BY <1>1 DEF CallsHold, TaskOK
  <1> QED
    BY <1>2 DEF Orderly, InTx

\* A call goes on as t, and the database as it was.
LEMMA OneCallStaysInOrder ==
    ASSUME CallsHold, CallsHold', InOrder, NEW r \in running, NEW t \in Task, SetTask(r, t),
           UNCHANGED <<programs, schema, tracking>>, lostAnswer => lostAnswer',
           Undisturbed => Orderly(t)
    PROVE  InOrder'
  <1>1. r \in Replicas /\ r \in deployed' /\ task'[r] = t
    BY DEF CallsHold, Shape, programs, SetTask
  <1> SUFFICES ASSUME Undisturbed'
               PROVE  TrackingIsTrue' /\ NoGapApplied' /\ Whole' /\ Orderly(task[r])'
    BY <1>1, SoleReplica
  <1>2. Undisturbed
    BY DEF Undisturbed, programs
  <1> QED
    BY <1>1, <1>2 DEF InOrder, TrackingIsTrue, NoGapApplied, Whole, Orderly, DirtyRows, programs

\* A call that ends without a change leaves the order as it is.
LEMMA EndedInOrder ==
    ASSUME CallsHold, CallsHold', InOrder, NEW r \in running, TaskDone(r),
           UNCHANGED <<programs, schema, tracking>>, lostAnswer => lostAnswer'
    PROVE  InOrder'
  <1>1. NoTask \in Task /\ NoTask.at = "idle" /\ SetTask(r, NoTask)
    BY MigrationsAssumption DEF NoTask, Task, TaskDone
  <1>2. Orderly(NoTask)
    BY <1>1, IdleIsOrderly
  <1> QED
    BY <1>1, <1>2, OneCallStaysInOrder

\* registeredMigrations lists what each owner registered.
LEMMA VersionsRegistered ==
    ASSUME NEW lists, NEW v
    PROVE  v \in RegisteredVersions(lists) <=>
             \E p \in Owners : \E i \in DOMAIN lists[p] : v = lists[p][i].version
  BY DEF RegisteredVersions

\* A list appended to itself has the same members.
LEMMA TwiceTheSame ==
    ASSUME NEW S, NEW own \in Seq(S)
    PROVE  /\ \A i \in DOMAIN (own \o own) : \E j \in DOMAIN own : (own \o own)[i] = own[j]
           /\ \A j \in DOMAIN own : j \in DOMAIN (own \o own) /\ (own \o own)[j] = own[j]
  <1>1. Len(own \o own) = Len(own) + Len(own) /\ Len(own) \in Nat
        /\ DOMAIN own = 1..Len(own) /\ DOMAIN (own \o own) = 1..Len(own \o own)
    OBVIOUS
  <1>2. \A i \in 1..Len(own) + Len(own) :
           (own \o own)[i] = IF i <= Len(own) THEN own[i] ELSE own[i - Len(own)]
    OBVIOUS
  <1>3. ASSUME NEW i \in 1..Len(own) + Len(own)
        PROVE  \E j \in 1..Len(own) : (own \o own)[i] = own[j]
    <2>1. CASE i <= Len(own)
      BY <1>1, <1>2, <2>1
    <2>2. CASE ~(i <= Len(own))
      <3>1. i - Len(own) \in 1..Len(own)
        BY <1>1, <2>2
      <3> QED
        BY <1>2, <2>2, <3>1
    <2> QED
      BY <2>1, <2>2
  <1>4. \A j \in 1..Len(own) : j \in 1..Len(own) + Len(own) /\ (own \o own)[j] = own[j]
    BY <1>1, <1>2
  <1> QED
    BY <1>1, <1>3, <1>4

\* What a program registers has no gap, however often an owner registers again.
LEMMA ProgramsInOrder ==
    ASSUME ReleasesAreWhole, CallsHold, CallsHold', InOrder, NEW r \in Replicas,
           Boot(r) \/ (\E owner \in Owners : Reregister(r, owner))
             \/ CheckReady(r) \/ CheckReadyApplied(r) \/ CheckReadyList(r)
    PROVE  InOrder'
  <1>1. UNCHANGED <<schema, tracking, task, deployed, lostAnswer>>
    BY ProgramsMove
  <1>2. ASSUME Undisturbed PROVE Whole'
    <2>1. CASE Boot(r)
      <3>1. PICK lists \in Releases : registered' = [registered EXCEPT ![r] = lists]
        BY <2>1 DEF Boot
      <3>2. \A o \in Replicas : registered'[o] = IF o = r THEN lists ELSE registered[o]
        BY <3>1 DEF CallsHold, Shape
      <3> QED
        BY <1>2, <3>2 DEF Whole, ReleasesAreWhole, InOrder
    <2>2. CASE \E owner \in Owners : Reregister(r, owner)
      <3>1. PICK owner \in Owners : Reregister(r, owner)
        BY <2>2
      <3> DEFINE own == registered[r][owner]
      <3>2. own \in Seq(Migration)
        BY DEF CallsHold, Shape
      <3> HIDE DEF own
      <3>3. /\ \A i \in DOMAIN (own \o own) : \E j \in DOMAIN own : (own \o own)[i] = own[j]
            /\ \A j \in DOMAIN own : j \in DOMAIN (own \o own) /\ (own \o own)[j] = own[j]
        BY <3>2, TwiceTheSame
      <3>4. \A o \in Replicas, p \in Owners :
               registered'[o][p] = IF o = r /\ p = owner THEN own \o own ELSE registered[o][p]
        BY <3>1 DEF Reregister, CallsHold, Shape, own
      <3>5. registered[r][owner] = own
        BY DEF own
      <3>6. \A o \in Replicas : \A v :
               v \in RegisteredVersions(registered'[o]) <=> v \in RegisteredVersions(registered[o])
        <4>1. ASSUME NEW o \in Replicas, NEW v, v \in RegisteredVersions(registered'[o])
              PROVE  v \in RegisteredVersions(registered[o])
          <5>1. PICK p \in Owners : \E i \in DOMAIN registered'[o][p] : v = registered'[o][p][i].version
            BY <4>1, VersionsRegistered
          <5>2. \E j \in DOMAIN registered[o][p] : v = registered[o][p][j].version
            <6>1. CASE o = r /\ p = owner
              <7>1. registered'[o][p] = own \o own /\ registered[o][p] = own
                BY <3>4, <3>5, <6>1
              <7> QED
                BY <5>1, <7>1, <3>3
            <6>2. CASE ~(o = r /\ p = owner)
              BY <5>1, <6>2, <3>4
            <6> QED
              BY <6>1, <6>2
          <5> QED
            BY <5>2, VersionsRegistered
        <4>2. ASSUME NEW o \in Replicas, NEW v, v \in RegisteredVersions(registered[o])
              PROVE  v \in RegisteredVersions(registered'[o])
          <5>1. PICK p \in Owners : \E i \in DOMAIN registered[o][p] : v = registered[o][p][i].version
            BY <4>2, VersionsRegistered
          <5>2. \E j \in DOMAIN registered'[o][p] : v = registered'[o][p][j].version
            <6>1. CASE o = r /\ p = owner
              <7>1. registered'[o][p] = own \o own /\ registered[o][p] = own
                BY <3>4, <3>5, <6>1
              <7>2. PICK i \in DOMAIN own : v = own[i].version
                BY <5>1, <7>1
              <7>3. i \in DOMAIN (own \o own) /\ v = (own \o own)[i].version
                BY <3>3, <7>2
              <7> QED
                BY <7>1, <7>3
            <6>2. CASE ~(o = r /\ p = owner)
              BY <5>1, <6>2, <3>4
            <6> QED
              BY <6>1, <6>2
          <5> QED
            BY <5>2, VersionsRegistered
        <4> QED
          BY <4>1, <4>2
      <3> QED
        BY <1>2, <3>6 DEF Whole, InOrder
    <2>3. CASE CheckReady(r) \/ CheckReadyApplied(r) \/ CheckReadyList(r)
      BY <1>2, <2>3 DEF CheckReady, CheckReadyApplied, CheckReadyList, Probed, programs, Whole, InOrder
    <2> QED
      BY <2>1, <2>2, <2>3
  <1> QED
    BY <1>1, <1>2 DEF InOrder, Undisturbed, TrackingIsTrue, NoGapApplied, Orderly, DirtyRows

\* A crash rolls back what was not committed.
LEMMA CrashInOrder ==
    ASSUME CallsHold, CallsHold', InOrder, NEW r \in Replicas, MigrateCrash(r)
    PROVE  InOrder'
  <1>1. r \in deployed' /\ task'[r].at = "idle" /\ UNCHANGED <<deployed, schema, tracking, lostAnswer>>
    BY DEF MigrateCrash, TaskDone, SetTask, NoTask, CallsHold, Shape
  <1>2. Whole => Whole'
    <2>1. \A o \in Replicas : registered'[o] = IF o = r THEN Nothing ELSE registered[o]
      BY DEF MigrateCrash, CallsHold, Shape
    <2>2. RegisteredVersions(Nothing) = {}
      BY DEF RegisteredVersions, Nothing
    <2> QED
      BY <2>1, <2>2 DEF Whole
  <1>3. Orderly(task[r])'
    BY <1>1 DEF Orderly, InTx
  <1> QED
    BY <1>1, <1>2, <1>3, SoleReplica DEF InOrder, Undisturbed, TrackingIsTrue, NoGapApplied

\* A call that begins relies on nothing yet.
LEMMA BeginTaskInOrder ==
    ASSUME CallsHold, CallsHold', InOrder, NEW r \in Replicas, NEW op \in {"RunPending", "Down", "ClearDirty"},
           NEW v \in Nat, NEW n \in Nat, BeginTask(r, op, v, n)
    PROVE  InOrder'
  <1> DEFINE t == [op |-> op, at |-> "dirty", left |-> {}, v |-> v, n |-> n]
  <1>1. t \in Task /\ t.at = "dirty" /\ t.op = op
    BY DEF Task
  <1>2. SetTask(r, t) /\ r \in running /\ UNCHANGED <<programs, schema, tracking, lostAnswer>>
    BY DEF BeginTask
  <1> HIDE DEF t
  <1>3. Orderly(t)
    BY <1>1 DEF Orderly, InTx
  <1> QED
    BY <1>1, <1>2, <1>3, OneCallStaysInOrder

\* Without marks the table lists what is in effect.
LEMMA AppliedIsSchema ==
    ASSUME CallsHold, InOrder, Undisturbed, DirtyRows = {}
    PROVE  AppliedRows = schema
  BY DEF CallsHold, Shape, InOrder, TrackingIsTrue, DirtyRows, AppliedRows

\* RunPending and Down go on only while nothing is marked.
LEMMA ReadDirtyInOrder ==
    ASSUME CallsHold, CallsHold', InOrder, NEW r \in Replicas, ReadDirty(r)
    PROVE  InOrder'
  <1>1. task[r] \in Task /\ r \in running /\ task[r].at = "dirty"
    BY DEF CallsHold, Shape, TaskOK, ReadDirty
  <1>2. CASE BlockedByDirty(r)
    BY <1>1, <1>2, EndedInOrder DEF ReadDirty
  <1>3. CASE ~BlockedByDirty(r)
    <2> DEFINE to == IF task[r].op = "ClearDirty" THEN "clear" ELSE "applied"
    <2> DEFINE t == [task[r] EXCEPT !.at = to]
    <2>1. t \in Task /\ t.at = to /\ t.op = task[r].op
      BY <1>1 DEF Task
    <2>2. SetTask(r, t) /\ UNCHANGED <<programs, schema, tracking, lostAnswer>>
      BY <1>3 DEF ReadDirty, TaskAt
    <2>3. to = "clear" \/ (to = "applied" /\ task[r].op # "ClearDirty" /\ DirtyRows = {})
      <3>1. CASE task[r].op = "ClearDirty"
        BY <3>1
      <3>2. CASE task[r].op # "ClearDirty"
        BY <1>3, <3>2 DEF BlockedByDirty
      <3> QED
        BY <3>1, <3>2
    <2>4. Undisturbed => Orderly(task[r])
      BY DEF InOrder
    <2> HIDE DEF t, to
    <2>5. Undisturbed => Orderly(t)
      BY <1>1, <2>1, <2>3, <2>4 DEF Orderly, InTx
    <2> QED
      BY <1>1, <2>1, <2>2, <2>5, OneCallStaysInOrder
  <1> QED
    BY <1>2, <1>3

\* What RunPending will apply lies above what is in effect, and what Down will
\* revert is the top of it.
LEMMA ReadAppliedInOrder ==
    ASSUME CallsHold, CallsHold', InOrder, NEW r \in Replicas, ReadApplied(r)
    PROVE  InOrder'
  <1>1. task[r] \in Task /\ r \in running /\ task[r].at = "applied"
    BY DEF CallsHold, Shape, TaskOK, ReadApplied
  <1> DEFINE left == IF task[r].op = "Down" THEN HighestVersions(AppliedRows, task[r].n)
                     ELSE RegisteredVersions(registered[r]) \ AppliedRows
  <1>2. CASE Conflicting(registered[r]) \/ left = {}
    <2>1. TaskDone(r) /\ UNCHANGED <<programs, schema, tracking, lostAnswer>>
      BY <1>2 DEF ReadApplied
    <2> QED
      BY <1>1, <2>1, EndedInOrder
  <1>3. CASE ~(Conflicting(registered[r]) \/ left = {})
    <2> DEFINE t == [task[r] EXCEPT !.at = "exec", !.left = left]
    <2>1. AppliedRows \subseteq Versions /\ task[r].n \in Nat
      BY <1>1 DEF AppliedRows, Task
    <2>2. left \subseteq Versions
      BY <2>1, HighestAreOnTop, RegisteredAreVersions
    <2>3. t \in Task /\ t.at = "exec" /\ t.left = left /\ t.op = task[r].op
      BY <1>1, <2>2 DEF Task
    <2>4. SetTask(r, t) /\ UNCHANGED <<programs, schema, tracking, lostAnswer>>
      BY <1>3 DEF ReadApplied
    <2>5. ASSUME Undisturbed PROVE Orderly(t)
      <3>1. DirtyRows = {} /\ task[r].op \in {"RunPending", "Down"}
        BY <1>1, <2>5 DEF InOrder, Orderly
      <3>2. AppliedRows = schema
        BY <2>5, <3>1, AppliedIsSchema
      <3>3. CASE task[r].op = "Down"
        <4>1. left = HighestVersions(schema, task[r].n)
          BY <3>2, <3>3
        <4>2. left \subseteq schema /\ \A v \in left, w \in schema : w > v => w \in left
          BY <2>1, <3>2, <4>1, HighestAreOnTop
        <4> HIDE DEF t, left
        <4> QED
          BY <2>3, <3>1, <3>3, <4>2 DEF Orderly, InTx
      <3>4. CASE task[r].op = "RunPending"
        <4>1. left = RegisteredVersions(registered[r]) \ schema
          BY <3>2, <3>4
        <4>2. \A v \in left, w \in Versions : w < v => w \in left \cup schema
          BY <2>5, <4>1 DEF InOrder, Whole
        <4> HIDE DEF t, left
        <4> QED
          BY <2>3, <3>1, <3>4, <4>1, <4>2 DEF Orderly, InTx
      <3> QED
        BY <3>1, <3>3, <3>4
    <2> HIDE DEF t, left
    <2> QED
      BY <1>1, <2>3, <2>4, <2>5, OneCallStaysInOrder
  <1> QED
    BY <1>2, <1>3

\* A failed query, mark or down SQL changes nothing.
LEMMA FailedInOrder ==
    ASSUME CallsHold, CallsHold', InOrder, NEW r \in Replicas,
           QueryFails(r) \/ MarkDirtyFails(r) \/ ExecDownFails(r)
    PROVE  InOrder'
  <1>1. r \in running
    BY DEF QueryFails, MarkDirtyFails, ExecDownFails, CallsHold, TaskOK
  <1> QED
    BY <1>1, CallFails, EndedInOrder

\* RunPending takes the least version it has yet to apply.
LEMMA ExecUpInOrder ==
    ASSUME CallsHold, CallsHold', InOrder, NEW r \in Replicas, ExecUp(r) \/ ExecUpFails(r)
    PROVE  InOrder'
  <1> DEFINE v == LeastVersion(task[r].left)
  <1>1. /\ task[r] \in Task /\ TaskOK(r, task[r]) /\ r \in running
        /\ task[r].at = "exec" /\ task[r].op = "RunPending"
    BY DEF CallsHold, Shape, ExecUp, ExecUpFails, TaskOK
  <1>2. v \in Nat /\ v \in task[r].left /\ \A w \in task[r].left : v <= w
    BY <1>1, LeastVersionIs, MigrationsAssumption DEF Task, TaskOK
  <1>3. PICK to \in {"record", "mark"} : SetTask(r, [task[r] EXCEPT !.v = v, !.at = to])
    BY DEF ExecUp, ExecUpFails
  <1>4. UNCHANGED <<programs, schema, tracking, lostAnswer>>
    BY DEF ExecUp, ExecUpFails
  <1> DEFINE t == [task[r] EXCEPT !.v = v, !.at = to]
  <1>5. t \in Task /\ t.at = to /\ t.v = v /\ t.op = "RunPending" /\ t.left = task[r].left
    BY <1>1, <1>2, <1>3 DEF Task
  <1>6. SetTask(r, t)
    BY <1>3
  <1> HIDE DEF t, v
  <1>7. ASSUME Undisturbed PROVE Orderly(t)
    <2>1. Orderly(task[r])
      BY <1>7 DEF InOrder
    <2> QED
      BY <1>1, <1>2, <1>3, <1>5, <2>1 DEF Orderly, InTx
  <1> QED
    BY <1>1, <1>4, <1>5, <1>6, <1>7, OneCallStaysInOrder

\* The row is written inside the transaction.
LEMMA RecordAppliedInOrder ==
    ASSUME CallsHold, CallsHold', InOrder, NEW r \in Replicas, RecordApplied(r)
    PROVE  InOrder'
  <1>1. /\ task[r] \in Task /\ TaskOK(r, task[r]) /\ r \in running
        /\ task[r].at = "record" /\ task[r].op = "RunPending"
    BY DEF CallsHold, Shape, RecordApplied, TaskOK
  <1>2. PICK to \in {"commit", "mark"} : SetTask(r, [task[r] EXCEPT !.at = to])
    BY DEF RecordApplied, TaskAt
  <1> DEFINE t == [task[r] EXCEPT !.at = to]
  <1>3. t \in Task /\ t.at = to /\ t.v = task[r].v /\ t.op = "RunPending" /\ t.left = task[r].left
    BY <1>1, <1>2 DEF Task
  <1>4. SetTask(r, t) /\ UNCHANGED <<programs, schema, tracking, lostAnswer>>
    BY <1>2 DEF RecordApplied
  <1> HIDE DEF t
  <1>5. ASSUME Undisturbed PROVE Orderly(t)
    <2>1. Orderly(task[r])
      BY <1>5 DEF InOrder
    <2> QED
      BY <1>1, <1>2, <1>3, <2>1 DEF Orderly, InTx
  <1> QED
    BY <1>1, <1>3, <1>4, <1>5, OneCallStaysInOrder

\* Down takes the greatest version it has yet to revert.
LEMMA ExecDownInOrder ==
    ASSUME CallsHold, CallsHold', InOrder, NEW r \in Replicas, ExecDown(r)
    PROVE  InOrder'
  <1> DEFINE v == DownNext(task[r].left)
  <1> DEFINE t == [task[r] EXCEPT !.v = v, !.at = "remove"]
  <1>1. /\ task[r] \in Task /\ TaskOK(r, task[r]) /\ r \in running
        /\ task[r].at = "exec" /\ task[r].op = "Down"
    BY DEF CallsHold, Shape, ExecDown, TaskOK
  <1>2. v \in Nat /\ v \in task[r].left /\ \A w \in task[r].left : v >= w
    BY <1>1, GreatestVersionIs, MigrationsAssumption DEF Task, TaskOK, DownNext
  <1>3. t \in Task /\ t.at = "remove" /\ t.v = v /\ t.op = "Down" /\ t.left = task[r].left
    BY <1>1, <1>2 DEF Task
  <1>4. SetTask(r, t) /\ UNCHANGED <<programs, schema, tracking, lostAnswer>>
    BY DEF ExecDown
  <1> HIDE DEF t, v
  <1>5. ASSUME Undisturbed PROVE Orderly(t)
    <2>1. Orderly(task[r])
      BY <1>5 DEF InOrder
    <2> QED
      BY <1>1, <1>2, <1>3, <2>1 DEF Orderly, InTx
  <1> QED
    BY <1>1, <1>3, <1>4, <1>5, OneCallStaysInOrder

\* The row is deleted inside the transaction.
LEMMA RemoveRowInOrder ==
    ASSUME CallsHold, CallsHold', InOrder, NEW r \in Replicas, RemoveRow(r)
    PROVE  InOrder'
  <1> DEFINE t == [task[r] EXCEPT !.at = "commit"]
  <1>1. task[r] \in Task /\ r \in running /\ task[r].at = "remove" /\ task[r].op = "Down"
    BY DEF CallsHold, Shape, RemoveRow, TaskOK
  <1>2. t \in Task /\ t.at = "commit" /\ t.v = task[r].v /\ t.op = "Down" /\ t.left = task[r].left
    BY <1>1 DEF Task
  <1>3. UNCHANGED <<programs, schema, tracking, lostAnswer>> /\ (SetTask(r, t) \/ TaskDone(r))
    BY DEF RemoveRow, TaskAt
  <1> HIDE DEF t
  <1>4. ASSUME Undisturbed PROVE Orderly(t)
    <2>1. Orderly(task[r])
      BY <1>4 DEF InOrder
    <2> QED
      BY <1>1, <1>2, <2>1 DEF Orderly, InTx
  <1> QED
    BY <1>1, <1>2, <1>3, <1>4, OneCallStaysInOrder, EndedInOrder

\* RunPending commits the lowest version that is missing.
LEMMA CommitUpInOrder ==
    ASSUME CallsHold, CallsHold', InOrder, NEW r \in Replicas, CommitUp(r)
    PROVE  InOrder'
  <1>1. /\ task[r] \in Task /\ TaskOK(r, task[r]) /\ r \in running /\ r \in deployed'
        /\ task[r].at = "commit" /\ task[r].op = "RunPending"
    BY DEF CallsHold, Shape, CommitUp, TaskOK, programs
  <1> SUFFICES ASSUME Undisturbed'
               PROVE  TrackingIsTrue' /\ NoGapApplied' /\ Whole' /\ Orderly(task[r])'
    BY <1>1, SoleReplica
  <1>2. Undisturbed
    BY DEF Undisturbed, CommitUp, programs
  <1>3. Orderly(task[r]) /\ TrackingIsTrue /\ NoGapApplied /\ Whole
    BY <1>2 DEF InOrder
  <1>4. /\ task[r].v \in task[r].left /\ \A w \in task[r].left : task[r].v <= w
        /\ task[r].left \cap schema = {} /\ DirtyRows = {}
        /\ \A v \in task[r].left, w \in Versions : w < v => w \in task[r].left \cup schema
        /\ task[r].left \subseteq Versions
    BY <1>1, <1>3 DEF Orderly, InTx, Task
  <1>5. /\ schema' = schema \cup {task[r].v}
        /\ tracking' = [tracking EXCEPT ![task[r].v] = "clean"]
        /\ UNCHANGED programs
    BY DEF CommitUp, UpCommitted
  <1>6. TrackingIsTrue' /\ Whole' /\ DirtyRows' = {}
    BY <1>2, <1>3, <1>4, <1>5 DEF TrackingIsTrue, Whole, DirtyRows, programs, CallsHold, Shape
  <1>7. \A w \in Versions : w < task[r].v => w \in schema
    <2>1. task[r].v \in Nat /\ \A w \in Versions : w \in Nat
      BY <1>4, MigrationsAssumption
    <2> QED
      BY <1>4, <2>1
  <1>8. NoGapApplied'
    BY <1>2, <1>3, <1>5, <1>7 DEF NoGapApplied
  <1>9. Orderly(task[r])'
    <2> DEFINE left == task[r].left \ {task[r].v}
    <2>1. CASE left = {}
      <3>1. task'[r].at = "idle"
        BY <1>1, <2>1 DEF CommitUp, NextVersion, TaskDone, SetTask, NoTask, CallsHold, Shape
      <3> QED
        BY <3>1 DEF Orderly, InTx
    <2>2. CASE left # {}
      <3>1. task' = [task EXCEPT ![r] = [task[r] EXCEPT !.left = left, !.at = "exec"]]
        BY <2>2 DEF CommitUp, NextVersion, SetTask
      <3>2. task'[r].at = "exec" /\ task'[r].left = left /\ task'[r].op = "RunPending"
        BY <1>1, <3>1 DEF CallsHold, Shape, Task
      <3> QED
        BY <1>4, <1>5, <1>6, <3>2 DEF Orderly, InTx
    <2> QED
      BY <2>1, <2>2
  <1> QED
    BY <1>6, <1>8, <1>9

\* A commit that failed left the version out; one whose answer is lost disturbs.
LEMMA CommitUpFailsInOrder ==
    ASSUME CallsHold, CallsHold', InOrder, NEW r \in Replicas, CommitUpFails(r)
    PROVE  InOrder'
  <1>1. task[r] \in Task /\ r \in running /\ r \in deployed'
        /\ task[r].at = "commit" /\ task[r].op = "RunPending"
    BY DEF CallsHold, Shape, CommitUpFails, TaskOK, programs
  <1>2. CASE lostAnswer'
    BY <1>1, <1>2, SoleReplica DEF Undisturbed
  <1>3. CASE ~lostAnswer'
    <2> DEFINE t == [task[r] EXCEPT !.at = "mark"]
    <2>1. t \in Task /\ t.at = "mark" /\ t.v = task[r].v
      BY <1>1 DEF Task
    <2>2. SetTask(r, t) /\ UNCHANGED <<programs, schema, tracking, lostAnswer>>
      BY <1>3 DEF CommitUpFails, TaskAt
    <2> HIDE DEF t
    <2>3. ASSUME Undisturbed PROVE Orderly(t)
      <3>1. Orderly(task[r])
        BY <2>3 DEF InOrder
      <3> QED
        BY <1>1, <2>1, <3>1 DEF Orderly, InTx
    <2> QED
      BY <1>1, <2>1, <2>2, <2>3, OneCallStaysInOrder
  <1> QED
    BY <1>2, <1>3

\* What is marked dirty was rolled back.
LEMMA MarkDirtyInOrder ==
    ASSUME CallsHold, CallsHold', InOrder, NEW r \in Replicas, MarkDirty(r)
    PROVE  InOrder'
  <1>1. /\ task[r] \in Task /\ TaskOK(r, task[r]) /\ r \in running /\ r \in deployed'
        /\ task[r].at = "mark"
    BY DEF CallsHold, Shape, MarkDirty, TaskOK, programs
  <1> SUFFICES ASSUME Undisturbed'
               PROVE  TrackingIsTrue' /\ NoGapApplied' /\ Whole' /\ Orderly(task[r])'
    BY <1>1, SoleReplica
  <1>2. Undisturbed
    BY DEF Undisturbed, MarkDirty, programs
  <1>3. Orderly(task[r]) /\ TrackingIsTrue /\ NoGapApplied /\ Whole
    BY <1>2 DEF InOrder
  <1>4. task[r].v \notin schema
    BY <1>1, <1>3 DEF Orderly
  <1>5. /\ tracking' = [tracking EXCEPT ![task[r].v] = "dirty"]
        /\ UNCHANGED <<programs, schema>> /\ task'[r].at = "idle"
    BY <1>1 DEF MarkDirty, AfterMark, TaskDone, SetTask, NoTask, CallsHold, Shape
  <1>6. TrackingIsTrue' /\ NoGapApplied' /\ Whole'
    BY <1>2, <1>3, <1>4, <1>5 DEF TrackingIsTrue, NoGapApplied, Whole, programs, CallsHold, Shape
  <1> QED
    BY <1>5, <1>6 DEF Orderly, InTx

\* Down commits the highest version that is in effect.
LEMMA CommitDownInOrder ==
    ASSUME CallsHold, CallsHold', InOrder, NEW r \in Replicas, CommitDown(r)
    PROVE  InOrder'
  <1>1. /\ task[r] \in Task /\ TaskOK(r, task[r]) /\ r \in running /\ r \in deployed'
        /\ task[r].at = "commit" /\ task[r].op = "Down"
    BY DEF CallsHold, Shape, CommitDown, TaskOK, programs
  <1> SUFFICES ASSUME Undisturbed'
               PROVE  TrackingIsTrue' /\ NoGapApplied' /\ Whole' /\ Orderly(task[r])'
    BY <1>1, SoleReplica
  <1>2. Undisturbed
    BY DEF Undisturbed, CommitDown, programs
  <1>3. Orderly(task[r]) /\ TrackingIsTrue /\ NoGapApplied /\ Whole
    BY <1>2 DEF InOrder
  <1>4. /\ task[r].v \in task[r].left /\ \A w \in task[r].left : task[r].v >= w
        /\ task[r].left \subseteq schema /\ DirtyRows = {}
        /\ \A v \in task[r].left, w \in schema : w > v => w \in task[r].left
        /\ schema \subseteq Versions
    BY <1>1, <1>3 DEF Orderly, InTx, CallsHold, Shape
  <1>5. /\ schema' = schema \ {task[r].v}
        /\ tracking' = [tracking EXCEPT ![task[r].v] = "none"]
        /\ UNCHANGED programs
    BY DEF CommitDown, DownCommitted
  <1>6. TrackingIsTrue' /\ Whole' /\ DirtyRows' = {}
    BY <1>2, <1>3, <1>4, <1>5 DEF TrackingIsTrue, Whole, DirtyRows, programs, CallsHold, Shape
  <1>7. \A w \in schema : ~(w > task[r].v)
    <2>1. task[r].v \in Nat /\ \A w \in Versions : w \in Nat
      BY <1>4, MigrationsAssumption
    <2>2. ASSUME NEW w \in schema, w > task[r].v PROVE FALSE
      <3>1. w \in Nat /\ w \in task[r].left
        BY <1>4, <2>1, <2>2
      <3>2. task[r].v >= w
        BY <1>4, <3>1
      <3> QED
        BY <2>1, <2>2, <3>1, <3>2
    <2> QED
      BY <2>2
  <1>8. NoGapApplied'
    <2>1. \A v \in schema', w \in Versions : w < v => w \in schema /\ w # task[r].v
      BY <1>2, <1>3, <1>4, <1>5, <1>7, MigrationsAssumption DEF NoGapApplied
    <2> QED
      BY <1>5, <2>1 DEF NoGapApplied
  <1>9. Orderly(task[r])'
    <2> DEFINE left == task[r].left \ {task[r].v}
    <2>1. CASE left = {}
      <3>1. task'[r].at = "idle"
        BY <1>1, <2>1 DEF CommitDown, NextVersion, TaskDone, SetTask, NoTask, CallsHold, Shape
      <3> QED
        BY <3>1 DEF Orderly, InTx
    <2>2. CASE left # {}
      <3>1. task' = [task EXCEPT ![r] = [task[r] EXCEPT !.left = left, !.at = "exec"]]
        BY <2>2 DEF CommitDown, NextVersion, SetTask
      <3>2. task'[r].at = "exec" /\ task'[r].left = left /\ task'[r].op = "Down"
        BY <1>1, <3>1 DEF CallsHold, Shape, Task
      <3> QED
        BY <1>4, <1>5, <1>6, <3>2 DEF Orderly, InTx
    <2> QED
      BY <2>1, <2>2
  <1> QED
    BY <1>6, <1>8, <1>9

\* A failed commit leaves the version; a lost answer disturbs.
LEMMA CommitDownFailsInOrder ==
    ASSUME CallsHold, CallsHold', InOrder, NEW r \in Replicas, CommitDownFails(r)
    PROVE  InOrder'
  <1>1. r \in running /\ r \in deployed' /\ TaskDone(r)
    BY DEF CallsHold, Shape, CommitDownFails, TaskOK, programs
  <1>2. CASE lostAnswer'
    BY <1>1, <1>2, SoleReplica DEF Undisturbed
  <1>3. CASE ~lostAnswer'
    BY <1>1, <1>3, EndedInOrder DEF CommitDownFails
  <1> QED
    BY <1>2, <1>3

\* A version whose mark is cleared is not in effect.
LEMMA ClearRowInOrder ==
    ASSUME CallsHold, CallsHold', InOrder, NEW r \in Replicas, ClearRow(r)
    PROVE  InOrder'
  <1>1. /\ task[r] \in Task /\ TaskOK(r, task[r]) /\ r \in running /\ r \in deployed'
        /\ task[r].at = "clear"
    BY DEF CallsHold, Shape, ClearRow, TaskOK, programs
  <1> SUFFICES ASSUME Undisturbed'
               PROVE  TrackingIsTrue' /\ NoGapApplied' /\ Whole' /\ Orderly(task[r])'
    BY <1>1, SoleReplica
  <1>2. Undisturbed
    BY DEF Undisturbed, ClearRow, programs
  <1>3. TrackingIsTrue /\ NoGapApplied /\ Whole
    BY <1>2 DEF InOrder
  <1>4. task[r].v \in Versions /\ tracking[task[r].v] = "dirty"
    BY <1>1 DEF TaskOK
  <1>5. /\ tracking' = [tracking EXCEPT ![task[r].v] = "none"] \/ UNCHANGED tracking
        /\ UNCHANGED <<programs, schema>> /\ task'[r].at = "idle"
    BY <1>1 DEF ClearRow, TaskDone, SetTask, NoTask, CallsHold, Shape
  <1>6. TrackingIsTrue' /\ NoGapApplied' /\ Whole'
    BY <1>2, <1>3, <1>4, <1>5 DEF TrackingIsTrue, NoGapApplied, Whole, programs, CallsHold, Shape
  <1> QED
    BY <1>5, <1>6 DEF Orderly, InTx

\* Every step keeps InOrder.
LEMMA OrderStep ==
    ASSUME OperatedAlone, ReleasesAreWhole, CallsHold, InOrder, [MigrateNext]_migrateVars
    PROVE  InOrder'
  <1>1. CallsHold'
    BY CallsStep
  <1>2. CASE UNCHANGED migrateVars
    BY <1>2 DEF migrateVars, InOrder, Undisturbed, TrackingIsTrue, NoGapApplied, Whole, Orderly,
       InTx, DirtyRows
  <1>3. CASE MigrateNext
    <2>1. PICK r \in Replicas :
             \/ Boot(r) \/ MigrateCrash(r) \/ MigrateStep(r)
             \/ \E owner \in Owners : Reregister(r, owner)
             \/ RunPending(r)
             \/ \E n \in DownCounts : Down(r, n)
             \/ \E v \in Versions : ClearDirty(r, v)
      BY <1>3 DEF MigrateNext
    <2>2. CASE \/ RunPending(r) \/ (\E n \in DownCounts : Down(r, n))
               \/ (\E v \in Versions : ClearDirty(r, v))
      <3>1. DownCounts \subseteq Nat /\ Versions \subseteq Nat /\ 0 \in Nat
        BY MigrationsAssumption
      <3> QED
        BY <1>1, <2>2, <3>1, BeginTaskInOrder DEF RunPending, Down, ClearDirty
    <2>3. CASE MigrateStep(r)
      BY <1>1, <2>3, ReadDirtyInOrder, ReadAppliedInOrder, FailedInOrder, ExecUpInOrder,
         RecordAppliedInOrder, CommitUpInOrder, CommitUpFailsInOrder, MarkDirtyInOrder,
         ExecDownInOrder, RemoveRowInOrder, CommitDownInOrder, CommitDownFailsInOrder,
         ClearRowInOrder, ProgramsInOrder DEF MigrateStep
    <2> QED
      BY <1>1, <2>1, <2>2, <2>3, ProgramsInOrder, CrashInOrder
  <1> QED
    BY <1>2, <1>3

\* What is deployed stays the same in a behaviour.
LEMMA DeployedStays ==
    ASSUME [MigrateNext]_migrateVars
    PROVE  deployed' = deployed
  <1>1. CASE UNCHANGED migrateVars
    BY <1>1 DEF migrateVars
  <1>2. CASE MigrateNext
    BY <1>2 DEF MigrateNext, MigrateStep, Boot, MigrateCrash, Reregister, RunPending, Down, ClearDirty,
       BeginTask, ReadDirty, ReadApplied, QueryFails, ExecUp, ExecUpFails, RecordApplied, CommitUp,
       CommitUpFails, MarkDirty, MarkDirtyFails, ExecDown, ExecDownFails, RemoveRow, CommitDown,
       CommitDownFails, ClearRow, CheckReady, CheckReadyApplied, CheckReadyList, Probed, programs
  <1> QED
    BY <1>1, <1>2

\* One replica at a time, on a database that keeps its word: versions are in
\* effect from the lowest up, and the tracking table tells which.
THEOREM AppliedInOrder ==
    ASSUME ReleasesAreWhole
    PROVE  MigrateSpec => []MigrationsInOrder
  <1> DEFINE IInv == OperatedAlone => CallsHold /\ InOrder
  <1>1. MigrateInit => IInv
    BY InitCalls, InitInOrder
  <1>2. IInv /\ [MigrateNext]_migrateVars => IInv'
    <2> SUFFICES ASSUME IInv, [MigrateNext]_migrateVars, OperatedAlone'
                 PROVE  CallsHold' /\ InOrder'
      OBVIOUS
    <2>1. OperatedAlone
      BY DeployedStays DEF OperatedAlone
    <2> QED
      BY <2>1, CallsStep, OrderStep
  <1>3. IInv => MigrationsInOrder
    BY DEF InOrder, MigrationsInOrder, TrackingIsTrue, NoGapApplied, Undisturbed, OperatedAlone
  <1> QED
    BY <1>1, <1>2, <1>3, PTL DEF MigrateSpec
=============================================================================
