----------------------------- MODULE Lifecycle -----------------------------
(***************************************************************************)
(* The life of a Worker's services (worker.go, service_management.go) and  *)
(* of the App around it (app.go): Start with its failures, Shutdown, and   *)
(* the kill switch, CloseService and RestartService, called by other       *)
(* goroutines meanwhile. What the container does inside BuildAll is module *)
(* Container, and what they do to routes and events is module KillSwitch;  *)
(* here BuildAll is the Init of each service in turn.                      *)
(*                                                                         *)
(* Services have distinct names, as the documentation requires of them.    *)
(***************************************************************************)
EXTENDS Integers, Sequences

CONSTANTS
    Services,
    Order,       \* the order BuildAll initializes them in
    Instances,   \* those registered as instances: a prefix of Order
    AlsoCtor,    \* instances whose type has a singleton constructor as well
    Starters,    \* goroutines that call Start
    Stoppers,    \* goroutines that call Shutdown
    Admins,      \* goroutines that call CloseService and RestartService
    MayFailInit, \* services whose Init may fail
    MayRestart,  \* services an admin restarts
    MayPanic,    \* services whose Close may panic
    StartMayFail,\* the router hook, migrations, ready hooks or config may fail
    Overlap,     \* the embedder may call Shutdown while Start runs
    NoOne

SeqSet(s) == {s[i] : i \in 1..Len(s)}

ASSUME LifecycleAssumption ==
    /\ Order \in Seq(Services) /\ SeqSet(Order) = Services
    /\ \A i, j \in 1..Len(Order) : Order[i] = Order[j] => i = j
    /\ Instances \subseteq Services /\ AlsoCtor \subseteq Instances
    /\ \A i, j \in 1..Len(Order) :
          i <= j /\ Order[j] \in Instances => Order[i] \in Instances
    /\ Starters \cap Stoppers = {} /\ Starters \cap Admins = {}
    /\ Stoppers \cap Admins = {}
    /\ MayFailInit \subseteq Services /\ MayPanic \subseteq Services
    /\ MayRestart \subseteq Services
    /\ StartMayFail \in BOOLEAN /\ Overlap \in BOOLEAN
    /\ NoOne \notin Starters \cup Stoppers \cup Admins \cup Services

Procs == Starters \cup Stoppers \cup Admins

VARIABLES
    up,           \* Init calls that succeeded minus Close calls, per service
    built,        \* services c.instances holds
    inited,       \* instances c.initedInstances holds
    active,       \* w.activeServices
    serviceOrder, \* w.serviceOrder
    mu,           \* the holder of w.mu across a call into a service
    shutDown,     \* w.shutDown
    initOnce, shutdownOnce, \* sync.Once: "idle", "running", "ok" / "err" / "done"
    startErr,     \* w.startErr # nil
    next,         \* BuildAll's and EachInstance's position
    closing,      \* the services each goroutine has yet to close, and the order
                  \* it goes backward through
    target,       \* the service an admin works on
    pc

NothingToClose == [order |-> << >>, left |-> {}]

vars == <<up, built, inited, active, serviceOrder, mu, shutDown,
          initOnce, shutdownOnce, startErr, next, closing, target, pc>>

Init ==
    /\ up = [s \in Services |-> 0]
    /\ built = Instances /\ inited = {} /\ active = {} /\ serviceOrder = << >>
    /\ mu = NoOne /\ shutDown = FALSE
    /\ initOnce = "idle" /\ shutdownOnce = "idle" /\ startErr = FALSE
    /\ next = 1
    /\ closing = [p \in Procs |-> NothingToClose]
    /\ target = [p \in Procs |-> NoOne]
    /\ pc = [p \in Procs |-> "idle"]

Goto(p, label) == pc' = [pc EXCEPT ![p] = label]
MuFree == mu = NoOne
StartRunning == \E p \in Starters : pc[p] # "idle"

\* The services of S, to be closed backward. Fault: what CloseService closed
\* is not skipped.
ToClose_all(order, S) == [order |-> order, left |-> SeqSet(order)]
ToClose(order, S) == [order |-> order, left |-> SeqSet(order) \cap S]

\* s comes next of those. Fault: the oldest comes next.
IsNewest_oldest(s, todo) ==
    \E i \in 1..Len(todo.order) :
        /\ s = todo.order[i] /\ s \in todo.left
        /\ \A j \in 1..Len(todo.order) : todo.order[j] \in todo.left => i <= j
IsNewest(s, todo) ==
    \E i \in 1..Len(todo.order) :
        /\ s = todo.order[i] /\ s \in todo.left
        /\ \A j \in 1..Len(todo.order) : todo.order[j] \in todo.left => j <= i

\* w.shutDown as the kill switch sees it. Fault: it does not look.
KillSwitchOff_never == FALSE
KillSwitchOff == shutDown

\* activeServices once CloseService closed s, and once RestartService
\* initialized it. Fault: RestartService leaves the map as it was.
Without(s) == active \ {s}
With_not(s) == active
With(s) == active \cup {s}

\* w.mu once a kill-switch call by p on s returns. Fault: it is still locked.
Unlocked_leak(p, s) == p
Unlocked(p, s) == NoOne

\* initializedServices: initialized instances, and whatever type has a
\* singleton registration and a cached value.
InitializedServices == {s \in built : s \in inited \/ s \notin Instances \/ s \in AlsoCtor}

\* closeActive's critical section, by goroutine p.
TakeActive(p) ==
    /\ MuFree
    /\ closing' = [closing EXCEPT ![p] = ToClose(serviceOrder, active)]
    /\ active' = active \ SeqSet(serviceOrder)

(***************************************************************************)
(* Start                                                                   *)
(***************************************************************************)
Start(p) ==
    /\ pc[p] = "idle" /\ MuFree /\ ~startErr
    /\ ~Overlap => shutdownOnce = "idle"
    /\ Goto(p, "init")
    /\ UNCHANGED <<up, built, inited, active, serviceOrder, mu, shutDown,
                   initOnce, shutdownOnce, startErr, next, closing, target>>

\* InitServices: initOnce.Do makes one caller run it and the others wait.
InitServices(p) ==
    /\ pc[p] = "init"
    /\ \/ initOnce = "idle" /\ initOnce' = "running" /\ Goto(p, "build")
       \/ initOnce = "ok" /\ Goto(p, "migrate") /\ UNCHANGED initOnce
       \/ initOnce = "err" /\ Goto(p, "failed") /\ UNCHANGED initOnce
    /\ UNCHANGED <<up, built, inited, active, serviceOrder, mu, shutDown,
                   shutdownOnce, startErr, next, closing, target>>

\* One service of BuildAll.
BuildOne(p) ==
    LET s == Order[next] IN
    /\ pc[p] = "build" /\ next <= Len(Order)
    /\ up' = [up EXCEPT ![s] = @ + 1]
    /\ built' = built \cup {s}
    /\ inited' = IF s \in Instances THEN inited \cup {s} ELSE inited
    /\ next' = next + 1
    /\ UNCHANGED <<active, serviceOrder, mu, shutDown, initOnce, shutdownOnce,
                   startErr, closing, target, pc>>

BuildFails(p) ==
    /\ pc[p] = "build" /\ next <= Len(Order) /\ Order[next] \in MayFailInit
    /\ closing' = [closing EXCEPT ![p] = ToClose(Order, InitializedServices)]
    /\ Goto(p, "closing")
    /\ UNCHANGED <<up, built, inited, active, serviceOrder, mu, shutDown,
                   initOnce, shutdownOnce, startErr, next, target>>

BuildDone(p) ==
    /\ pc[p] = "build" /\ next > Len(Order)
    /\ next' = 1 /\ Goto(p, "collect")
    /\ UNCHANGED <<up, built, inited, active, serviceOrder, mu, shutDown,
                   initOnce, shutdownOnce, startErr, closing, target>>

\* EachInstance's callback for one service.
Collect(p) ==
    LET s == Order[next] IN
    /\ pc[p] = "collect" /\ next <= Len(Order) /\ MuFree
    /\ active' = active \cup {s}
    /\ serviceOrder' = IF s \in active THEN serviceOrder ELSE Append(serviceOrder, s)
    /\ next' = next + 1
    /\ UNCHANGED <<up, built, inited, mu, shutDown, initOnce, shutdownOnce,
                   startErr, closing, target, pc>>

\* postBuildHook succeeds (or there is none); AllServicesInitialized.
Collected(p) ==
    /\ pc[p] = "collect" /\ next > Len(Order)
    /\ initOnce' = "ok" /\ Goto(p, "migrate")
    /\ UNCHANGED <<up, built, inited, active, serviceOrder, mu, shutDown,
                   shutdownOnce, startErr, next, closing, target>>

\* RunPending, the ready hooks and App.bindConfig, in that order.
StartPhase(p) ==
    /\ \/ pc[p] = "migrate" /\ Goto(p, "ready")
       \/ pc[p] = "ready" /\ MuFree /\ Goto(p, "bind")
       \/ pc[p] = "bind" /\ Goto(p, "idle")
    /\ UNCHANGED <<up, built, inited, active, serviceOrder, mu, shutDown,
                   initOnce, shutdownOnce, startErr, next, closing, target>>

\* The router hook or one of those phases fails: closeActive.
StartFails(p) ==
    /\ StartMayFail
    /\ pc[p] \in {"migrate", "ready", "bind"} \/ (pc[p] = "collect" /\ next > Len(Order))
    /\ TakeActive(p)
    /\ Goto(p, "closing")
    /\ UNCHANGED <<up, built, inited, serviceOrder, mu, shutDown,
                   initOnce, shutdownOnce, startErr, next, target>>

\* failStart.
StartFailed(p) ==
    /\ pc[p] = "failed" /\ MuFree
    /\ startErr' = TRUE /\ Goto(p, "idle")
    /\ UNCHANGED <<up, built, inited, active, serviceOrder, mu, shutDown,
                   initOnce, shutdownOnce, next, closing, target>>

(***************************************************************************)
(* Closing, for a failed Start and for Shutdown                            *)
(***************************************************************************)
\* closeServices, one service, without w.mu. Its error is joined, so a
\* failing Close goes on to the next.
CloseNext(p) ==
    /\ pc[p] = "closing"
    /\ \E s \in closing[p].left :
          /\ IsNewest(s, closing[p])
          /\ up' = [up EXCEPT ![s] = @ - 1]
          /\ closing' = [closing EXCEPT ![p].left = @ \ {s}]
    /\ UNCHANGED <<built, inited, active, serviceOrder, mu, shutDown,
                   initOnce, shutdownOnce, startErr, next, target, pc>>

ClosingDone(p) ==
    /\ pc[p] = "closing" /\ closing[p].left = {}
    /\ closing' = [closing EXCEPT ![p] = NothingToClose]
    /\ IF p \in Starters
       THEN /\ Goto(p, "failed")
            /\ initOnce' = IF initOnce = "running" THEN "err" ELSE initOnce
            /\ UNCHANGED shutdownOnce
       ELSE /\ Goto(p, "idle")
            /\ shutdownOnce' = "done"
            /\ UNCHANGED initOnce
    /\ UNCHANGED <<up, built, inited, active, serviceOrder, mu, shutDown,
                   startErr, next, target>>

\* Shutdown, its once, and the flag; SystemShuttingDown follows.
Shutdown(p) ==
    /\ pc[p] = "idle" /\ shutdownOnce = "idle" /\ ~(~Overlap /\ StartRunning)
    /\ shutdownOnce' = "running"
    /\ Goto(p, "shutdown")
    /\ UNCHANGED <<up, built, inited, active, serviceOrder, mu, shutDown,
                   initOnce, startErr, next, closing, target>>

MarkShutDown(p) ==
    /\ pc[p] = "shutdown" /\ MuFree
    /\ shutDown' = TRUE
    /\ Goto(p, "notify")
    /\ UNCHANGED <<up, built, inited, active, serviceOrder, mu,
                   initOnce, shutdownOnce, startErr, next, closing, target>>

CloseActive(p) ==
    /\ pc[p] = "notify" /\ p \in Stoppers
    /\ TakeActive(p)
    /\ Goto(p, "closing")
    /\ UNCHANGED <<up, built, inited, serviceOrder, mu, shutDown,
                   initOnce, shutdownOnce, startErr, next, target>>

(***************************************************************************)
(* The kill switch. w.mu is held from the checks through Close or Init.    *)
(***************************************************************************)
CloseService(p, s) ==
    /\ pc[p] = "idle" /\ MuFree
    /\ ~KillSwitchOff /\ s \in built /\ s \in active
    /\ mu' = p
    /\ target' = [target EXCEPT ![p] = s]
    /\ Goto(p, "close")
    /\ UNCHANGED <<up, built, inited, active, serviceOrder, shutDown,
                   initOnce, shutdownOnce, startErr, next, closing>>

\* Close returns; its error is only logged.
CloseReturns(p) ==
    LET s == target[p] IN
    /\ pc[p] = "close"
    /\ up' = [up EXCEPT ![s] = @ - 1]
    /\ active' = Without(s)
    /\ mu' = Unlocked(p, s)
    /\ target' = [target EXCEPT ![p] = NoOne]
    /\ Goto(p, "idle")
    /\ UNCHANGED <<built, inited, serviceOrder, shutDown, initOnce, shutdownOnce,
                   startErr, next, closing>>

\* Close panics: w.mu is not released by a defer, so it stays locked.
ClosePanics(p) ==
    /\ pc[p] = "close" /\ target[p] \in MayPanic
    /\ Goto(p, "idle")
    /\ UNCHANGED <<up, built, inited, active, serviceOrder, mu, shutDown,
                   initOnce, shutdownOnce, startErr, next, closing, target>>

RestartService(p, s) ==
    /\ pc[p] = "idle" /\ MuFree /\ s \in MayRestart
    /\ ~KillSwitchOff /\ s \in built /\ s \notin active /\ s \in SeqSet(serviceOrder)
    /\ mu' = p
    /\ target' = [target EXCEPT ![p] = s]
    /\ Goto(p, "reinit")
    /\ UNCHANGED <<up, built, inited, active, serviceOrder, shutDown,
                   initOnce, shutdownOnce, startErr, next, closing>>

RestartReturns(p) ==
    LET s == target[p] IN
    /\ pc[p] = "reinit"
    /\ up' = [up EXCEPT ![s] = @ + 1]
    /\ active' = With(s)
    /\ mu' = Unlocked(p, s)
    /\ target' = [target EXCEPT ![p] = NoOne]
    /\ Goto(p, "idle")
    /\ UNCHANGED <<built, inited, serviceOrder, shutDown, initOnce, shutdownOnce,
                   startErr, next, closing>>

\* Init fails; one that succeeds too late is closed by initService.
RestartFails(p) ==
    LET s == target[p] IN
    /\ pc[p] = "reinit" /\ s \in MayFailInit
    /\ mu' = Unlocked(p, s)
    /\ target' = [target EXCEPT ![p] = NoOne]
    /\ Goto(p, "idle")
    /\ UNCHANGED <<up, built, inited, active, serviceOrder, shutDown,
                   initOnce, shutdownOnce, startErr, next, closing>>

StarterStep(p) ==
    \/ InitServices(p) \/ BuildOne(p) \/ BuildFails(p) \/ BuildDone(p)
    \/ Collect(p) \/ Collected(p) \/ StartPhase(p) \/ StartFails(p) \/ StartFailed(p)
    \/ CloseNext(p) \/ ClosingDone(p)
StopperStep(p) ==
    MarkShutDown(p) \/ CloseActive(p) \/ CloseNext(p) \/ ClosingDone(p)
AdminStep(p) ==
    CloseReturns(p) \/ ClosePanics(p) \/ RestartReturns(p) \/ RestartFails(p)

Next ==
    \/ \E p \in Starters : Start(p) \/ StarterStep(p)
    \/ \E p \in Stoppers : Shutdown(p) \/ StopperStep(p)
    \/ \E p \in Admins :
          \/ AdminStep(p)
          \/ \E s \in Services : CloseService(p, s) \/ RestartService(p, s)

Spec == Init /\ [][Next]_vars

\* A goroutine inside a call goes on; w.mu, a sync.Mutex, is handed to a
\* waiter it has starved for a millisecond, so waiting for it is fair too.
FairSpec ==
    /\ Spec
    /\ \A p \in Starters : SF_vars(StarterStep(p))
    /\ \A p \in Stoppers : SF_vars(StopperStep(p))
    /\ \A p \in Admins : WF_vars(AdminStep(p))

(***************************************************************************)
(* Properties                                                              *)
(***************************************************************************)
TypeOK ==
    /\ up \in [Services -> Int]
    /\ built \in SUBSET Services /\ inited \in SUBSET Instances
    /\ active \in SUBSET Services
    /\ serviceOrder \in Seq(Services)
    /\ mu \in Admins \cup {NoOne}
    /\ shutDown \in BOOLEAN /\ startErr \in BOOLEAN
    /\ initOnce \in {"idle", "running", "ok", "err"}
    /\ shutdownOnce \in {"idle", "running", "done"}
    /\ next \in 1..Len(Order) + 1
    /\ closing \in [Procs -> [order : Seq(Services), left : SUBSET Services]]
    /\ target \in [Procs -> Services \cup {NoOne}]
    /\ pc \in [Procs -> {"idle", "init", "build", "collect", "migrate", "ready", "bind",
                         "closing", "failed", "shutdown", "notify", "close", "reinit"}]

\* Every Close answers one successful Init and every Init finds the service
\* closed: closeActive removes a service from activeServices before it closes
\* it, "so a CloseService racing with it cannot close one again".
OneClosePerInit == \A s \in Services : up[s] \in {0, 1}

\* What ActiveServices, CheckHealth and CheckReady report is open, whenever
\* they can take w.mu.
ActiveIsUp == MuFree => \A s \in active : up[s] = 1

\* After Shutdown and every Start have returned, no service is left open.
ShutdownClosesAll ==
    shutdownOnce = "done" /\ ~StartRunning => \A s \in Services : up[s] = 0

\* "Once it has begun, CloseService and RestartService return an error", "so
\* the kill switch cannot reopen a service after the worker has closed it".
NoInitAfterShutDown ==
    [][shutDown /\ initOnce # "running" => \A s \in Services : up'[s] <= up[s]]_vars

\* closeServices: a service that was initialized later, and so may use this
\* one, is closed before this one, whether Start failed or Shutdown runs.
\* (The kill switch closes what it is told to; it holds w.mu meanwhile.)
DependentsCloseFirst ==
    [][mu' = mu => \A i, j \in 1..Len(Order) :
          i < j /\ up'[Order[i]] < up[Order[i]] => up[Order[j]] = 0]_vars

\* "A failed start leaves nothing running", and a later Start returns the
\* same error without opening anything.
FailedStartLeavesNothing ==
    startErr /\ ~StartRunning => active = {} /\ \A s \in Services : up[s] = 0

\* What is open, what is reported and what is left agree, at any time.
WorkerHolds == TypeOK /\ ActiveIsUp /\ ShutdownClosesAll /\ FailedStartLeavesNothing

\* Start, Shutdown, CloseService and RestartService come to an end whatever
\* the others do: "later calls, including concurrent ones, wait for the first
\* to finish". (A Close that panics under CloseService or RestartService keeps
\* w.mu for good: then who needs w.mu waits for ever.)
LeftLocked == mu # NoOne /\ pc[mu] = "idle" /\ target[mu] \in MayPanic
CallsReturn == \A p \in Procs : pc[p] # "idle" ~> pc[p] = "idle" \/ LeftLocked
=============================================================================
