-------------------------- MODULE LifecycleProofs --------------------------
(***************************************************************************)
(* Proofs about module Lifecycle. The inductive invariant has two halves.  *)
(*                                                                         *)
(* Control says where each goroutine may be and what initOnce,             *)
(* shutdownOnce and w.mu say of it; it holds whatever the embedder does,   *)
(* and NothingOpensLate needs no more.                                     *)
(*                                                                         *)
(* Data says who answers for every open service: activeServices, the       *)
(* BuildAll under way, or the one goroutine that closes. It needs          *)
(* RunAlone, which is what the documentation asks of the embedder          *)
(* (Shutdown after Start has returned; one registration per type), and     *)
(* excludes the one other way to lose a service: RestartService reopening  *)
(* what a Start that later fails has collected. The runs of                *)
(* MCLifecycle make the same choice.                                       *)
(***************************************************************************)
EXTENDS Lifecycle, TLAPS

(***************************************************************************)
(* Control: who is where, and what the two sync.Once and w.mu say of it    *)
(***************************************************************************)
\* Where each kind of goroutine may be, and what it has with it there.
Placed ==
    /\ \A p \in Starters : pc[p] \in {"idle", "init", "build", "collect", "migrate",
                                      "ready", "bind", "closing", "failed"}
    /\ \A p \in Stoppers : pc[p] \in {"idle", "shutdown", "notify", "closing"}
    /\ \A p \in Admins : pc[p] \in {"idle", "close", "reinit"}
    /\ \A p \in Admins : pc[p] # "idle" => mu = p /\ target[p] \in Services
    /\ \A p \in Admins : pc[p] = "reinit" => ~shutDown
    /\ \A p \in Procs : pc[p] # "closing" => closing[p].left = {}

\* initOnce: one goroutine runs initServices, and the later phases come after it.
InsideOnce(p) == pc[p] \in {"build", "collect", "closing"}
OnceRuns ==
    /\ \A p \in Starters :
          /\ pc[p] \in {"build", "collect"} => initOnce = "running"
          /\ pc[p] \in {"migrate", "ready", "bind"} => initOnce = "ok"
          /\ pc[p] = "closing" => initOnce \in {"running", "ok"}
          /\ pc[p] = "failed" \/ startErr => initOnce \in {"ok", "err"}
    /\ \A p, q \in Starters :
          initOnce = "running" /\ InsideOnce(p) /\ InsideOnce(q) => p = q

\* shutdownOnce: one goroutine runs it, and never beside a Start.
ShutdownRuns ==
    /\ \A p \in Stoppers : pc[p] # "idle" => shutdownOnce = "running"
    /\ \A p, q \in Stoppers : pc[p] # "idle" /\ pc[q] # "idle" => p = q
    /\ \A p \in Stoppers : pc[p] \in {"notify", "closing"} => shutDown
    /\ shutdownOnce = "done" => shutDown
    /\ ~Overlap => \A p \in Starters : pc[p] # "idle" => shutdownOnce = "idle"

Control == TypeOK /\ Placed /\ OnceRuns /\ ShutdownRuns

\* The goroutines are of one kind each, and none is called NoOne.
LEMMA Kinds ==
    /\ Starters \cap Stoppers = {} /\ Starters \cap Admins = {} /\ Stoppers \cap Admins = {}
    /\ NoOne \notin Procs /\ NoOne \notin Services /\ Procs = Starters \cup Stoppers \cup Admins
  BY LifecycleAssumption DEF Procs

\* BuildAll's order lists every service once.
LEMMA OrderFacts ==
    /\ Order \in Seq(Services)
    /\ Len(Order) \in Nat /\ \A i \in 1..Len(Order) : Order[i] \in Services
    /\ \A i, j \in 1..Len(Order) : Order[i] = Order[j] => i = j
    /\ \A s \in Services : \E i \in 1..Len(Order) : Order[i] = s
  BY LifecycleAssumption DEF SeqSet

\* The services of a list are services.
LEMMA MemberOfSeq ==
    ASSUME NEW q \in Seq(Services) PROVE SeqSet(q) \subseteq Services
  BY DEF SeqSet

\* Start leaves everyone where Control says.
LEMMA StartControl ==
    ASSUME Control, NEW p \in Starters, Start(p)
    PROVE  Control'
  <1> USE Kinds DEF Goto, Start, MuFree
  <1>1. TypeOK'
    BY DEF Control, TypeOK
  <1>2. Placed'
    BY DEF Control, TypeOK, Placed
  <1>3. OnceRuns'
    BY DEF Control, TypeOK, Placed, OnceRuns, InsideOnce
  <1>4. ShutdownRuns'
    BY DEF Control, TypeOK, Placed, ShutdownRuns
  <1> QED
    BY <1>1, <1>2, <1>3, <1>4 DEF Control

\* InitServices leaves everyone where Control says.
LEMMA InitServicesControl ==
    ASSUME Control, NEW p \in Starters, InitServices(p)
    PROVE  Control'
  <1> USE Kinds
  <1>1. PICK to \in {"build", "migrate", "failed"} :
           /\ pc' = [pc EXCEPT ![p] = to]
           /\ to = "build" => initOnce = "idle" /\ initOnce' = "running"
           /\ to = "migrate" => initOnce = "ok" /\ UNCHANGED initOnce
           /\ to = "failed" => initOnce = "err" /\ UNCHANGED initOnce
    BY DEF InitServices, Goto
  <1>2. /\ pc[p] = "init"
        /\ UNCHANGED <<up, built, inited, active, serviceOrder, mu, shutDown, shutdownOnce,
                       startErr, next, closing, target>>
    BY DEF InitServices
  <1>3. TypeOK'
    BY <1>1, <1>2 DEF Control, TypeOK
  <1>4. Placed'
    BY <1>1, <1>2 DEF Control, TypeOK, Placed
  <1>5. OnceRuns'
    BY <1>1, <1>2 DEF Control, TypeOK, Placed, OnceRuns, InsideOnce
  <1>6. ShutdownRuns'
    BY <1>1, <1>2 DEF Control, TypeOK, Placed, ShutdownRuns
  <1> QED
    BY <1>3, <1>4, <1>5, <1>6 DEF Control

\* BuildOne leaves everyone where Control says.
LEMMA BuildOneControl ==
    ASSUME Control, NEW p \in Starters, BuildOne(p)
    PROVE  Control'
  <1> USE Kinds DEF Goto, BuildOne
  <1>1. TypeOK'
    <2>1. Order[next] \in Services /\ next + 1 \in 1..(Len(Order) + 1)
      BY OrderFacts DEF Control, TypeOK
    <2>2. up' \in [Services -> Int]
      BY <2>1 DEF Control, TypeOK
    <2> QED
      BY <2>1, <2>2 DEF Control, TypeOK
  <1>2. Placed'
    BY DEF Control, TypeOK, Placed
  <1>3. OnceRuns'
    BY DEF Control, TypeOK, Placed, OnceRuns, InsideOnce
  <1>4. ShutdownRuns'
    BY DEF Control, TypeOK, Placed, ShutdownRuns
  <1> QED
    BY <1>1, <1>2, <1>3, <1>4 DEF Control

\* BuildFails leaves everyone where Control says.
LEMMA BuildFailsControl ==
    ASSUME Control, NEW p \in Starters, BuildFails(p)
    PROVE  Control'
  <1> USE Kinds DEF Goto, BuildFails, ToClose
  <1>1. TypeOK'
    BY OrderFacts, MemberOfSeq DEF Control, TypeOK, InitializedServices, Placed
  <1>2. Placed'
    BY DEF Control, TypeOK, Placed
  <1>3. OnceRuns'
    BY DEF Control, TypeOK, Placed, OnceRuns, InsideOnce
  <1>4. ShutdownRuns'
    BY DEF Control, TypeOK, Placed, ShutdownRuns
  <1> QED
    BY <1>1, <1>2, <1>3, <1>4 DEF Control

\* BuildDone leaves everyone where Control says.
LEMMA BuildDoneControl ==
    ASSUME Control, NEW p \in Starters, BuildDone(p)
    PROVE  Control'
  <1> USE Kinds DEF Goto, BuildDone
  <1>1. TypeOK'
    BY OrderFacts DEF Control, TypeOK
  <1>2. Placed'
    BY DEF Control, TypeOK, Placed
  <1>3. OnceRuns'
    BY DEF Control, TypeOK, Placed, OnceRuns, InsideOnce
  <1>4. ShutdownRuns'
    BY DEF Control, TypeOK, Placed, ShutdownRuns
  <1> QED
    BY <1>1, <1>2, <1>3, <1>4 DEF Control

\* Collect leaves everyone where Control says.
LEMMA CollectControl ==
    ASSUME Control, NEW p \in Starters, Collect(p)
    PROVE  Control'
  <1> USE Kinds DEF Goto, Collect, MuFree
  <1>1. TypeOK'
    <2>1. Order[next] \in Services /\ next + 1 \in 1..(Len(Order) + 1)
      BY OrderFacts DEF Control, TypeOK
    <2>2. serviceOrder' \in Seq(Services)
      BY <2>1 DEF Control, TypeOK
    <2> QED
      BY <2>1, <2>2 DEF Control, TypeOK
  <1>2. Placed'
    BY DEF Control, TypeOK, Placed
  <1>3. OnceRuns'
    BY DEF Control, TypeOK, Placed, OnceRuns, InsideOnce
  <1>4. ShutdownRuns'
    BY DEF Control, TypeOK, Placed, ShutdownRuns
  <1> QED
    BY <1>1, <1>2, <1>3, <1>4 DEF Control

\* Collected leaves everyone where Control says.
LEMMA CollectedControl ==
    ASSUME Control, NEW p \in Starters, Collected(p)
    PROVE  Control'
  <1> USE Kinds DEF Goto, Collected
  <1>1. TypeOK'
    BY DEF Control, TypeOK
  <1>2. Placed'
    BY DEF Control, TypeOK, Placed
  <1>3. OnceRuns'
    BY DEF Control, TypeOK, Placed, OnceRuns, InsideOnce
  <1>4. ShutdownRuns'
    BY DEF Control, TypeOK, Placed, ShutdownRuns
  <1> QED
    BY <1>1, <1>2, <1>3, <1>4 DEF Control

\* StartPhase leaves everyone where Control says.
LEMMA StartPhaseControl ==
    ASSUME Control, NEW p \in Starters, StartPhase(p)
    PROVE  Control'
  <1> USE Kinds DEF Goto, StartPhase, MuFree
  <1>1. TypeOK'
    BY DEF Control, TypeOK
  <1>2. Placed'
    BY DEF Control, TypeOK, Placed
  <1>3. OnceRuns'
    BY DEF Control, TypeOK, Placed, OnceRuns, InsideOnce
  <1>4. ShutdownRuns'
    BY DEF Control, TypeOK, Placed, ShutdownRuns
  <1> QED
    BY <1>1, <1>2, <1>3, <1>4 DEF Control

\* StartFails leaves everyone where Control says.
LEMMA StartFailsControl ==
    ASSUME Control, NEW p \in Starters, StartFails(p)
    PROVE  Control'
  <1> USE Kinds DEF Goto, StartFails, TakeActive, ToClose, MuFree
  <1>1. TypeOK'
    BY OrderFacts, MemberOfSeq DEF Control, TypeOK, InitializedServices, Placed
  <1>2. Placed'
    BY DEF Control, TypeOK, Placed
  <1>3. OnceRuns'
    BY DEF Control, TypeOK, Placed, OnceRuns, InsideOnce
  <1>4. ShutdownRuns'
    BY DEF Control, TypeOK, Placed, ShutdownRuns
  <1> QED
    BY <1>1, <1>2, <1>3, <1>4 DEF Control

\* StartFailed leaves everyone where Control says.
LEMMA StartFailedControl ==
    ASSUME Control, NEW p \in Starters, StartFailed(p)
    PROVE  Control'
  <1> USE Kinds DEF Goto, StartFailed, MuFree
  <1>1. TypeOK'
    BY DEF Control, TypeOK
  <1>2. Placed'
    BY DEF Control, TypeOK, Placed
  <1>3. OnceRuns'
    BY DEF Control, TypeOK, Placed, OnceRuns, InsideOnce
  <1>4. ShutdownRuns'
    BY DEF Control, TypeOK, Placed, ShutdownRuns
  <1> QED
    BY <1>1, <1>2, <1>3, <1>4 DEF Control

\* Shutdown leaves everyone where Control says.
LEMMA ShutdownControl ==
    ASSUME Control, NEW p \in Stoppers, Shutdown(p)
    PROVE  Control'
  <1> USE Kinds DEF Goto, Shutdown, StartRunning
  <1>1. TypeOK'
    BY DEF Control, TypeOK
  <1>2. Placed'
    BY DEF Control, TypeOK, Placed
  <1>3. OnceRuns'
    BY DEF Control, TypeOK, Placed, OnceRuns, InsideOnce
  <1>4. ShutdownRuns'
    BY DEF Control, TypeOK, Placed, ShutdownRuns
  <1> QED
    BY <1>1, <1>2, <1>3, <1>4 DEF Control

\* MarkShutDown leaves everyone where Control says.
LEMMA MarkShutDownControl ==
    ASSUME Control, NEW p \in Stoppers, MarkShutDown(p)
    PROVE  Control'
  <1> USE Kinds DEF Goto, MarkShutDown, MuFree
  <1>1. TypeOK'
    BY DEF Control, TypeOK
  <1>2. Placed'
    BY DEF Control, TypeOK, Placed
  <1>3. OnceRuns'
    BY DEF Control, TypeOK, Placed, OnceRuns, InsideOnce
  <1>4. ShutdownRuns'
    BY DEF Control, TypeOK, Placed, ShutdownRuns
  <1> QED
    BY <1>1, <1>2, <1>3, <1>4 DEF Control

\* CloseActive leaves everyone where Control says.
LEMMA CloseActiveControl ==
    ASSUME Control, NEW p \in Stoppers, CloseActive(p)
    PROVE  Control'
  <1> USE Kinds DEF Goto, CloseActive, TakeActive, ToClose, MuFree
  <1>1. TypeOK'
    BY OrderFacts, MemberOfSeq DEF Control, TypeOK, InitializedServices, Placed
  <1>2. Placed'
    BY DEF Control, TypeOK, Placed
  <1>3. OnceRuns'
    BY DEF Control, TypeOK, Placed, OnceRuns, InsideOnce
  <1>4. ShutdownRuns'
    BY DEF Control, TypeOK, Placed, ShutdownRuns
  <1> QED
    BY <1>1, <1>2, <1>3, <1>4 DEF Control

\* CloseNext leaves everyone where Control says.
LEMMA CloseNextControl ==
    ASSUME Control, NEW p \in Starters \cup Stoppers, CloseNext(p)
    PROVE  Control'
  <1> USE Kinds DEF Goto, CloseNext
  <1>1. TypeOK'
    <2>1. PICK s \in closing[p].left :
             /\ up' = [up EXCEPT ![s] = @ - 1]
             /\ closing' = [closing EXCEPT ![p].left = @ \ {s}]
      OBVIOUS
    <2>2. closing[p] \in [order : Seq(Services), left : SUBSET Services] /\ s \in Services
      BY DEF Control, TypeOK
    <2>3. up' \in [Services -> Int]
      BY <2>1, <2>2 DEF Control, TypeOK
    <2>4. closing' \in [Procs -> [order : Seq(Services), left : SUBSET Services]]
      BY <2>1, <2>2 DEF Control, TypeOK
    <2> QED
      BY <2>3, <2>4 DEF Control, TypeOK
  <1>2. Placed'
    BY DEF Control, TypeOK, Placed
  <1>3. OnceRuns'
    BY DEF Control, TypeOK, Placed, OnceRuns, InsideOnce
  <1>4. ShutdownRuns'
    BY DEF Control, TypeOK, Placed, ShutdownRuns
  <1> QED
    BY <1>1, <1>2, <1>3, <1>4 DEF Control

\* ClosingDone leaves everyone where Control says.
LEMMA ClosingDoneControl ==
    ASSUME Control, NEW p \in Starters \cup Stoppers, ClosingDone(p)
    PROVE  Control'
  <1> USE Kinds
  <1>1. NothingToClose \in [order : Seq(Services), left : SUBSET Services] /\ NothingToClose.left = {}
    BY DEF NothingToClose
  <1>2. /\ pc[p] = "closing" /\ closing' = [closing EXCEPT ![p] = NothingToClose]
        /\ UNCHANGED <<up, built, inited, active, serviceOrder, mu, shutDown, startErr, next, target>>
    BY DEF ClosingDone
  <1>3. CASE p \in Starters
    <2>1. /\ pc' = [pc EXCEPT ![p] = "failed"] /\ UNCHANGED shutdownOnce
          /\ initOnce' = IF initOnce = "running" THEN "err" ELSE initOnce
      BY <1>3 DEF ClosingDone, Goto
    <2>2. TypeOK' /\ Placed'
      BY <1>1, <1>2, <1>3, <2>1 DEF Control, TypeOK, Placed
    <2>3. OnceRuns'
      BY <1>2, <1>3, <2>1 DEF Control, TypeOK, Placed, OnceRuns, InsideOnce
    <2>4. ShutdownRuns'
      BY <1>2, <1>3, <2>1 DEF Control, TypeOK, Placed, ShutdownRuns
    <2> QED
      BY <2>2, <2>3, <2>4 DEF Control
  <1>4. CASE p \in Stoppers
    <2>1. pc' = [pc EXCEPT ![p] = "idle"] /\ shutdownOnce' = "done" /\ UNCHANGED initOnce
      BY <1>4 DEF ClosingDone, Goto
    <2>2. TypeOK' /\ Placed'
      BY <1>1, <1>2, <1>4, <2>1 DEF Control, TypeOK, Placed
    <2>3. OnceRuns'
      BY <1>2, <1>4, <2>1 DEF Control, TypeOK, Placed, OnceRuns, InsideOnce
    <2>4. ShutdownRuns'
      BY <1>2, <1>4, <2>1 DEF Control, TypeOK, Placed, ShutdownRuns
    <2> QED
      BY <2>2, <2>3, <2>4 DEF Control
  <1> QED
    BY <1>3, <1>4

\* CloseService leaves everyone where Control says.
LEMMA CloseServiceControl ==
    ASSUME Control, NEW p \in Admins, NEW s \in Services, CloseService(p, s)
    PROVE  Control'
  <1> USE Kinds DEF Goto, CloseService, MuFree, KillSwitchOff
  <1>1. TypeOK'
    BY DEF Control, TypeOK
  <1>2. Placed'
    BY DEF Control, TypeOK, Placed
  <1>3. OnceRuns'
    BY DEF Control, TypeOK, Placed, OnceRuns, InsideOnce
  <1>4. ShutdownRuns'
    BY DEF Control, TypeOK, Placed, ShutdownRuns
  <1> QED
    BY <1>1, <1>2, <1>3, <1>4 DEF Control

\* CloseReturns leaves everyone where Control says.
LEMMA CloseReturnsControl ==
    ASSUME Control, NEW p \in Admins, CloseReturns(p)
    PROVE  Control'
  <1> USE Kinds DEF Goto, CloseReturns, Without, Unlocked
  <1>1. TypeOK'
    <2>1. target[p] \in Services
      BY DEF Control, Placed
    <2>2. up' \in [Services -> Int]
      BY <2>1 DEF Control, TypeOK
    <2> QED
      BY <2>1, <2>2 DEF Control, TypeOK
  <1>2. Placed'
    BY DEF Control, TypeOK, Placed
  <1>3. OnceRuns'
    BY DEF Control, TypeOK, Placed, OnceRuns, InsideOnce
  <1>4. ShutdownRuns'
    BY DEF Control, TypeOK, Placed, ShutdownRuns
  <1> QED
    BY <1>1, <1>2, <1>3, <1>4 DEF Control

\* RestartService leaves everyone where Control says.
LEMMA RestartServiceControl ==
    ASSUME Control, NEW p \in Admins, NEW s \in Services, RestartService(p, s)
    PROVE  Control'
  <1> USE Kinds DEF Goto, RestartService, MuFree, KillSwitchOff
  <1>1. TypeOK'
    BY DEF Control, TypeOK
  <1>2. Placed'
    BY DEF Control, TypeOK, Placed
  <1>3. OnceRuns'
    BY DEF Control, TypeOK, Placed, OnceRuns, InsideOnce
  <1>4. ShutdownRuns'
    BY DEF Control, TypeOK, Placed, ShutdownRuns
  <1> QED
    BY <1>1, <1>2, <1>3, <1>4 DEF Control

\* RestartReturns leaves everyone where Control says.
LEMMA RestartReturnsControl ==
    ASSUME Control, NEW p \in Admins, RestartReturns(p)
    PROVE  Control'
  <1> USE Kinds DEF Goto, RestartReturns, With, Unlocked
  <1>1. TypeOK'
    <2>1. target[p] \in Services
      BY DEF Control, Placed
    <2>2. up' \in [Services -> Int]
      BY <2>1 DEF Control, TypeOK
    <2> QED
      BY <2>1, <2>2 DEF Control, TypeOK
  <1>2. Placed'
    BY DEF Control, TypeOK, Placed
  <1>3. OnceRuns'
    BY DEF Control, TypeOK, Placed, OnceRuns, InsideOnce
  <1>4. ShutdownRuns'
    BY DEF Control, TypeOK, Placed, ShutdownRuns
  <1> QED
    BY <1>1, <1>2, <1>3, <1>4 DEF Control

\* RestartFails leaves everyone where Control says.
LEMMA RestartFailsControl ==
    ASSUME Control, NEW p \in Admins, RestartFails(p)
    PROVE  Control'
  <1> USE Kinds DEF Goto, RestartFails, Unlocked
  <1>1. TypeOK'
    BY OrderFacts DEF Control, TypeOK
  <1>2. Placed'
    BY DEF Control, TypeOK, Placed
  <1>3. OnceRuns'
    BY DEF Control, TypeOK, Placed, OnceRuns, InsideOnce
  <1>4. ShutdownRuns'
    BY DEF Control, TypeOK, Placed, ShutdownRuns
  <1> QED
    BY <1>1, <1>2, <1>3, <1>4 DEF Control

\* ClosePanics leaves everyone where Control says.
LEMMA ClosePanicsControl ==
    ASSUME Control, NEW p \in Admins, ClosePanics(p)
    PROVE  Control'
  <1> USE Kinds DEF Goto, ClosePanics
  <1>1. TypeOK'
    BY DEF Control, TypeOK
  <1>2. Placed'
    BY DEF Control, TypeOK, Placed
  <1>3. OnceRuns'
    BY DEF Control, TypeOK, Placed, OnceRuns, InsideOnce
  <1>4. ShutdownRuns'
    BY DEF Control, TypeOK, Placed, ShutdownRuns
  <1> QED
    BY <1>1, <1>2, <1>3, <1>4 DEF Control

\* Every step keeps Control.
LEMMA ControlStep == Control /\ [Next]_vars => Control'
  <1> SUFFICES ASSUME Control, [Next]_vars PROVE Control'
    OBVIOUS
  <1>1. CASE UNCHANGED vars
    BY <1>1 DEF vars, Control, TypeOK, Placed, OnceRuns, InsideOnce, ShutdownRuns
  <1>2. CASE \E p \in Starters : Start(p) \/ StarterStep(p)
    BY <1>2, StartControl, InitServicesControl, BuildOneControl, BuildFailsControl,
       BuildDoneControl, CollectControl, CollectedControl, StartPhaseControl,
       StartFailsControl, StartFailedControl, CloseNextControl, ClosingDoneControl
       DEF StarterStep
  <1>3. CASE \E p \in Stoppers : Shutdown(p) \/ StopperStep(p)
    BY <1>3, ShutdownControl, MarkShutDownControl, CloseActiveControl, CloseNextControl,
       ClosingDoneControl DEF StopperStep
  <1>4. CASE \E p \in Admins : \/ AdminStep(p)
                               \/ \E s \in Services : CloseService(p, s) \/ RestartService(p, s)
    BY <1>4, CloseServiceControl, CloseReturnsControl, RestartServiceControl,
       RestartReturnsControl, RestartFailsControl, ClosePanicsControl DEF AdminStep
  <1> QED
    BY <1>1, <1>2, <1>3, <1>4 DEF Next

\* A worker that NewWorker just made.
LEMMA InitControl == Init => Control
  <1> SUFFICES ASSUME Init PROVE Control
    OBVIOUS
  <1>1. NothingToClose \in [order : Seq(Services), left : SUBSET Services] /\ NothingToClose.left = {}
    BY DEF NothingToClose
  <1>2. TypeOK
    <2>1. << >> \in Seq(Services) /\ 1 \in 1..(Len(Order) + 1)
      BY OrderFacts
    <2>2. /\ closing \in [Procs -> [order : Seq(Services), left : SUBSET Services]]
          /\ target \in [Procs -> Services \cup {NoOne}]
      BY <1>1 DEF Init
    <2>3. built \in SUBSET Services /\ active \in SUBSET Services /\ inited \in SUBSET Instances
      BY LifecycleAssumption DEF Init
    <2>4. pc \in [Procs -> {"idle"}] /\ up \in [Services -> Int]
      BY DEF Init
    <2> QED
      BY <2>1, <2>2, <2>3, <2>4 DEF Init, TypeOK
  <1>3. Placed /\ OnceRuns /\ ShutdownRuns
    BY <1>1, Kinds DEF Init, Placed, OnceRuns, InsideOnce, ShutdownRuns
  <1> QED
    BY <1>2, <1>3 DEF Control

(***************************************************************************)
(* Services: who owns each one that is open                                *)
(***************************************************************************)
\* The embedder calls Shutdown once Start has returned, registers a type once,
\* and no admin restarts services while a Start may still fail.
RunAlone == ~Overlap /\ AlsoCtor = {} /\ (MayRestart = {} \/ ~StartMayFail)

\* The services initialized by a BuildAll or EachInstance still under way.
Pending(s) ==
    \E p \in Starters, i \in 1..Len(Order) :
        /\ s = Order[i]
        /\ \/ pc[p] = "build" /\ i < next
           \/ pc[p] = "collect" /\ i >= next
Closing(s) == \E p \in Procs : s \in closing[p].left

\* A failed start has closed, or is closing, all there was.
Failing ==
    startErr \/ initOnce = "err"
    \/ \E p \in Starters : pc[p] \in {"closing", "failed"}

IsPrefix(q) == Len(q) <= Len(Order) /\ \A i \in 1..Len(q) : q[i] = Order[i]

\* What BuildAll has built and EachInstance has collected so far.
Built ==
    /\ initOnce = "idle" => next = 1
    /\ initOnce = "idle" \/ (\E p \in Starters : pc[p] = "build") =>
          /\ serviceOrder = << >>
          /\ built = Instances \cup {Order[i] : i \in 1..(next - 1)}
          /\ inited = Instances \cap {Order[i] : i \in 1..(next - 1)}
    /\ \A p \in Starters : pc[p] = "collect" => Len(serviceOrder) = next - 1
    /\ IsPrefix(serviceOrder) /\ active \subseteq SeqSet(serviceOrder)

\* An open service is tracked, about to be tracked, or about to be closed.
UpIsOwned ==
    /\ \A s \in Services : up[s] = IF s \in active \/ Pending(s) \/ Closing(s) THEN 1 ELSE 0
    /\ \A s \in active : ~Pending(s)

\* Where one goroutine closes services, nothing else is open.
ClosesAlone ==
    /\ \A p \in Procs : closing[p].left # {} =>
          /\ active = {} /\ \A s \in Services : ~Pending(s)
          /\ \A q \in Procs : q # p => closing[q].left = {}
    /\ \A p \in Procs : closing[p].left \subseteq SeqSet(closing[p].order) /\ IsPrefix(closing[p].order)

\* What the kill switch works on while it holds w.mu.
TargetsHeld ==
    \A p \in Admins :
       /\ pc[p] = "close" => target[p] \in active
       /\ pc[p] = "reinit" =>
             /\ target[p] \in (SeqSet(serviceOrder) \cap MayRestart) \ active
             /\ ~Pending(target[p]) /\ ~Closing(target[p])

NothingLeft ==
    /\ \A p \in Stoppers : pc[p] = "closing" => active = {}
    /\ shutdownOnce = "done" => active = {}
    /\ Failing => /\ active = {}
                  /\ serviceOrder = << >> \/ MayRestart = {}
                  /\ \A s \in Services : ~Pending(s)
                  /\ \A p \in Stoppers : closing[p].left = {}

Data == Built /\ UpIsOwned /\ ClosesAlone /\ TargetsHeld /\ NothingLeft

IInv == Control /\ Data

\* What the kill switch works on stays as it is when others move.
LEMMA TargetsStay ==
    ASSUME Control, Data, serviceOrder' = serviceOrder, active' = active,
           \A q \in Admins : pc'[q] \in {"close", "reinit"} =>
                               pc'[q] = pc[q] /\ target'[q] = target[q],
           \A s \in Services : (Pending(s)' <=> Pending(s)) /\ (Closing(s)' <=> Closing(s))
    PROVE  TargetsHeld'
  <1>1. \A q \in Admins : pc[q] # "idle" => target[q] \in Services
    BY DEF Control, Placed
  <1> QED
    BY <1>1 DEF Data, TargetsHeld

\* A step that opens, closes, builds and tracks nothing keeps all of it, if the
\* kill switch chooses what it works on well.
LEMMA QuietButTargets ==
    ASSUME Control, Data, Control', TargetsHeld',
           UNCHANGED <<up, built, inited, active, serviceOrder, next>>,
           \A q \in Procs : /\ closing'[q].left = closing[q].left
                            /\ IsPrefix(closing'[q].order)
                            /\ closing'[q].left \subseteq SeqSet(closing'[q].order),
           \A s \in Services : Pending(s)' <=> Pending(s),
           \A q \in Starters : /\ pc'[q] = "build" => pc[q] = "build" \/ initOnce = "idle"
                               /\ pc'[q] = "collect" => pc[q] = "collect",
           \A q \in Stoppers : pc'[q] = "closing" => pc[q] = "closing",
           initOnce' = "idle" => initOnce = "idle",
           startErr' \/ initOnce' = "err" \/ (\E q \in Starters : pc'[q] \in {"closing", "failed"})
               => Failing,
           shutdownOnce' = "done" => shutdownOnce = "done" \/ active = {}
    PROVE  Data'
  <1>1. Built'
    BY DEF Data, Built, IsPrefix
  <1>2. \A s \in Services : Closing(s)' <=> Closing(s)
    BY DEF Closing
  <1>3. active \subseteq Services
    BY DEF Control, TypeOK
  <1>4. UpIsOwned'
    BY <1>2, <1>3 DEF Data, UpIsOwned
  <1>5. ClosesAlone'
    BY <1>3 DEF Data, ClosesAlone, IsPrefix
  <1>6. NothingLeft'
    BY Kinds DEF Data, NothingLeft, Failing
  <1> QED
    BY <1>1, <1>4, <1>5, <1>6 DEF Data

\* A step that leaves services, trackers and positions alone keeps Data.
LEMMA QuietKeeps ==
    ASSUME Control, Data, Control',
           UNCHANGED <<up, built, inited, active, serviceOrder, next>>,
           \A q \in Procs : /\ closing'[q].left = closing[q].left
                            /\ IsPrefix(closing'[q].order)
                            /\ closing'[q].left \subseteq SeqSet(closing'[q].order),
           \A s \in Services : Pending(s)' <=> Pending(s),
           \A q \in Starters : /\ pc'[q] = "build" => pc[q] = "build" \/ initOnce = "idle"
                               /\ pc'[q] = "collect" => pc[q] = "collect",
           \A q \in Stoppers : pc'[q] = "closing" => pc[q] = "closing",
           \A q \in Admins : pc'[q] \in {"close", "reinit"} =>
                               pc'[q] = pc[q] /\ target'[q] = target[q],
           initOnce' = "idle" => initOnce = "idle",
           startErr' \/ initOnce' = "err" \/ (\E q \in Starters : pc'[q] \in {"closing", "failed"})
               => Failing,
           shutdownOnce' = "done" => shutdownOnce = "done" \/ active = {}
    PROVE  Data'
  <1>1. \A s \in Services : Closing(s)' <=> Closing(s)
    BY DEF Closing
  <1>2. TargetsHeld'
    BY <1>1, TargetsStay
  <1> QED
    BY <1>2, QuietButTargets

\* What EachInstance has yet to collect is not in serviceOrder.
LEMMA CollectedIsNotPending ==
    ASSUME Control, Data, NEW s \in SeqSet(serviceOrder)
    PROVE  ~Pending(s)
  <1> SUFFICES ASSUME NEW p \in Starters, NEW i \in 1..Len(Order), s = Order[i],
                      \/ pc[p] = "build" /\ i < next
                      \/ pc[p] = "collect" /\ i >= next
               PROVE  FALSE
    BY DEF Pending
  <1>1. PICK j \in 1..Len(serviceOrder) : s = serviceOrder[j]
    BY DEF SeqSet
  <1>2. Len(serviceOrder) \in Nat /\ Len(Order) \in Nat /\ next \in Nat
    BY OrderFacts DEF Control, TypeOK
  <1>3. j \in 1..Len(Order) /\ s = Order[j]
    BY <1>1, <1>2 DEF Data, Built, IsPrefix
  <1>4. i = j
    BY <1>3, OrderFacts
  <1>5. CASE pc[p] = "build"
    BY <1>1, <1>5 DEF Data, Built
  <1>6. CASE pc[p] = "collect" /\ i >= next
    BY <1>1, <1>2, <1>4, <1>6 DEF Data, Built
  <1> QED
    BY <1>5, <1>6

\* A step outside BuildAll and EachInstance leaves what they have under way.
LEMMA SamePending ==
    ASSUME UNCHANGED next,
           \A q \in Starters : \/ pc'[q] = pc[q]
                               \/ {pc[q], pc'[q]} \cap {"build", "collect"} = {}
    PROVE  \A s : Pending(s)' <=> Pending(s)
  BY DEF Pending

\* Start leaves every open service with one owner.
LEMMA StartData ==
    ASSUME Control, Data, Control', NEW p \in Starters, Start(p)
    PROVE  Data'
  <1>1. \A q \in Procs : /\ IsPrefix(closing[q].order)
                     /\ closing[q].left \subseteq SeqSet(closing[q].order)
    BY DEF Data, ClosesAlone
  <1>2. \A s : Pending(s)' <=> Pending(s)
    BY Kinds, SamePending DEF Start, Goto, Control, TypeOK
  <1> QED
    BY <1>1, <1>2, Kinds, QuietKeeps DEF Start, Goto, Control, TypeOK, Placed, Failing

\* StartPhase leaves every open service with one owner.
LEMMA StartPhaseData ==
    ASSUME Control, Data, Control', NEW p \in Starters, StartPhase(p)
    PROVE  Data'
  <1>1. \A q \in Procs : /\ IsPrefix(closing[q].order)
                     /\ closing[q].left \subseteq SeqSet(closing[q].order)
    BY DEF Data, ClosesAlone
  <1>2. \A s : Pending(s)' <=> Pending(s)
    BY Kinds, SamePending DEF StartPhase, Goto, Control, TypeOK
  <1> QED
    BY <1>1, <1>2, Kinds, QuietKeeps DEF StartPhase, Goto, Control, TypeOK, Placed, Failing

\* StartFailed leaves every open service with one owner.
LEMMA StartFailedData ==
    ASSUME Control, Data, Control', NEW p \in Starters, StartFailed(p)
    PROVE  Data'
  <1>1. \A q \in Procs : /\ IsPrefix(closing[q].order)
                     /\ closing[q].left \subseteq SeqSet(closing[q].order)
    BY DEF Data, ClosesAlone
  <1>2. \A s : Pending(s)' <=> Pending(s)
    BY Kinds, SamePending DEF StartFailed, Goto, Control, TypeOK
  <1> QED
    BY <1>1, <1>2, Kinds, QuietKeeps DEF StartFailed, Goto, Control, TypeOK, Placed, Failing

\* Shutdown leaves every open service with one owner.
LEMMA ShutdownData ==
    ASSUME Control, Data, Control', NEW p \in Stoppers, Shutdown(p)
    PROVE  Data'
  <1>1. \A q \in Procs : /\ IsPrefix(closing[q].order)
                     /\ closing[q].left \subseteq SeqSet(closing[q].order)
    BY DEF Data, ClosesAlone
  <1>2. \A s : Pending(s)' <=> Pending(s)
    BY Kinds, SamePending DEF Shutdown, Goto, Control, TypeOK
  <1> QED
    BY <1>1, <1>2, Kinds, QuietKeeps DEF Shutdown, Goto, Control, TypeOK, Placed, Failing

\* MarkShutDown leaves every open service with one owner.
LEMMA MarkShutDownData ==
    ASSUME Control, Data, Control', NEW p \in Stoppers, MarkShutDown(p)
    PROVE  Data'
  <1>1. \A q \in Procs : /\ IsPrefix(closing[q].order)
                     /\ closing[q].left \subseteq SeqSet(closing[q].order)
    BY DEF Data, ClosesAlone
  <1>2. \A s : Pending(s)' <=> Pending(s)
    BY Kinds, SamePending DEF MarkShutDown, Goto, Control, TypeOK
  <1> QED
    BY <1>1, <1>2, Kinds, QuietKeeps DEF MarkShutDown, Goto, Control, TypeOK, Placed, Failing

\* RestartFails leaves every open service with one owner.
LEMMA RestartFailsData ==
    ASSUME Control, Data, Control', NEW p \in Admins, RestartFails(p)
    PROVE  Data'
  <1>1. \A q \in Procs : /\ IsPrefix(closing[q].order)
                     /\ closing[q].left \subseteq SeqSet(closing[q].order)
    BY DEF Data, ClosesAlone
  <1>2. \A s : Pending(s)' <=> Pending(s)
    BY Kinds, SamePending DEF RestartFails, Goto, Control, TypeOK
  <1> QED
    BY <1>1, <1>2, Kinds, QuietKeeps DEF RestartFails, Goto, Control, TypeOK, Placed, Failing

\* ClosePanics leaves every open service with one owner.
LEMMA ClosePanicsData ==
    ASSUME Control, Data, Control', NEW p \in Admins, ClosePanics(p)
    PROVE  Data'
  <1>1. \A q \in Procs : /\ IsPrefix(closing[q].order)
                     /\ closing[q].left \subseteq SeqSet(closing[q].order)
    BY DEF Data, ClosesAlone
  <1>2. \A s : Pending(s)' <=> Pending(s)
    BY Kinds, SamePending DEF ClosePanics, Goto, Control, TypeOK
  <1> QED
    BY <1>1, <1>2, Kinds, QuietKeeps DEF ClosePanics, Goto, Control, TypeOK, Placed, Failing

\* InitServices leaves every open service with one owner.
LEMMA InitServicesData ==
    ASSUME Control, Data, Control', NEW p \in Starters, InitServices(p)
    PROVE  Data'
  <1>1. \A q \in Procs : /\ IsPrefix(closing[q].order)
                     /\ closing[q].left \subseteq SeqSet(closing[q].order)
    BY DEF Data, ClosesAlone
  <1>2. PICK to \in {"build", "migrate", "failed"} :
           /\ pc' = [pc EXCEPT ![p] = to]
           /\ to = "build" => initOnce = "idle" /\ initOnce' = "running"
           /\ to = "migrate" => initOnce = "ok" /\ UNCHANGED initOnce
           /\ to = "failed" => initOnce = "err" /\ UNCHANGED initOnce
    BY DEF InitServices, Goto
  <1>3. /\ pc[p] = "init"
        /\ UNCHANGED <<up, built, inited, active, serviceOrder, mu, shutDown, shutdownOnce,
                       startErr, next, closing, target>>
    BY DEF InitServices
  <1>4. \A s : Pending(s)' <=> Pending(s)
    <2>1. to = "build" => \A i \in 1..Len(Order) : ~(i < next)
      BY <1>2, OrderFacts DEF Data, Built
    <2>2. \A q \in Starters : pc'[q] = IF q = p THEN to ELSE pc[q]
      BY <1>2, Kinds DEF Control, TypeOK
    <2> QED
      BY <1>2, <1>3, <2>1, <2>2 DEF Pending
  <1> QED
    BY <1>1, <1>2, <1>3, <1>4, Kinds, QuietKeeps DEF Control, TypeOK, Placed, Failing

\* Collected leaves every open service with one owner.
LEMMA CollectedData ==
    ASSUME Control, Data, Control', NEW p \in Starters, Collected(p)
    PROVE  Data'
  <1>1. \A q \in Procs : /\ IsPrefix(closing[q].order)
                     /\ closing[q].left \subseteq SeqSet(closing[q].order)
    BY DEF Data, ClosesAlone
  <1>2. \A s : Pending(s)' <=> Pending(s)
    <2>1. /\ pc[p] = "collect" /\ next > Len(Order) /\ next' = next
          /\ pc' = [pc EXCEPT ![p] = "migrate"]
      BY DEF Collected, Goto
    <2>2. \A q \in Starters : pc'[q] = IF q = p THEN "migrate" ELSE pc[q]
      BY <2>1, Kinds DEF Control, TypeOK
    <2>3. \A i \in 1..Len(Order) : ~(i >= next)
      BY <2>1, OrderFacts DEF Control, TypeOK
    <2> QED
      BY <2>1, <2>2, <2>3 DEF Pending
  <1> QED
    BY <1>1, <1>2, Kinds, QuietKeeps DEF Collected, Goto, Control, TypeOK, Placed, Failing

\* ClosingDone leaves every open service with one owner.
LEMMA ClosingDoneData ==
    ASSUME Control, Data, Control', NEW p \in Starters \cup Stoppers, ClosingDone(p)
    PROVE  Data'
  <1>1. \A q \in Procs : /\ IsPrefix(closing[q].order)
                     /\ closing[q].left \subseteq SeqSet(closing[q].order)
    BY DEF Data, ClosesAlone
  <1>2. /\ pc[p] = "closing" /\ closing[p].left = {}
        /\ closing' = [closing EXCEPT ![p] = NothingToClose]
        /\ UNCHANGED <<up, built, inited, active, serviceOrder, mu, shutDown, startErr, next, target>>
    BY DEF ClosingDone
  <1>3. IsPrefix(NothingToClose.order) /\ NothingToClose.left = {}
    BY OrderFacts DEF NothingToClose, IsPrefix
  <1>4. PICK to \in {"failed", "idle"} :
           /\ pc' = [pc EXCEPT ![p] = to]
           /\ to = "failed" <=> p \in Starters
           /\ initOnce' = "err" => initOnce = "err" \/ p \in Starters
           /\ initOnce' = "idle" => initOnce = "idle"
           /\ shutdownOnce' = "done" => shutdownOnce = "done" \/ p \in Stoppers
    BY Kinds DEF ClosingDone, Goto
  <1>5. \A s : Pending(s)' <=> Pending(s)
    BY <1>2, <1>4, Kinds, SamePending DEF Control, TypeOK
  <1>6. p \in Stoppers => active = {}
    BY <1>2 DEF Data, NothingLeft
  <1>7. \A q \in Procs : /\ closing'[q].left = closing[q].left
                         /\ IsPrefix(closing'[q].order)
                         /\ closing'[q].left \subseteq SeqSet(closing'[q].order)
    BY <1>1, <1>2, <1>3 DEF Control, TypeOK
  <1>8. p \in Starters => Failing
    BY <1>2 DEF Failing
  <1>9. startErr' \/ initOnce' = "err" \/ (\E q \in Starters : pc'[q] \in {"closing", "failed"})
            => Failing
    BY <1>2, <1>4, <1>8, Kinds DEF Control, TypeOK, Failing
  <1> QED
    BY <1>2, <1>4, <1>5, <1>6, <1>7, <1>9, Kinds, QuietKeeps DEF Control, TypeOK, Placed

\* CloseService leaves every open service with one owner.
LEMMA CloseServiceData ==
    ASSUME Control, Data, Control', NEW p \in Admins, NEW s \in Services, CloseService(p, s)
    PROVE  Data'
  <1>1. \A q \in Procs : /\ IsPrefix(closing[q].order)
                     /\ closing[q].left \subseteq SeqSet(closing[q].order)
    BY DEF Data, ClosesAlone
  <1>2. /\ s \in active /\ mu = NoOne /\ pc' = [pc EXCEPT ![p] = "close"]
        /\ target' = [target EXCEPT ![p] = s]
        /\ UNCHANGED <<up, built, inited, active, serviceOrder, shutDown,
                       initOnce, shutdownOnce, startErr, next, closing>>
    BY DEF CloseService, Goto, MuFree
  <1>3. \A t : Pending(t)' <=> Pending(t)
    BY <1>2, Kinds, SamePending DEF Control, TypeOK, Placed
  <1>4. TargetsHeld'
    BY <1>2, Kinds DEF Control, TypeOK, Placed, TargetsHeld
  <1> QED
    BY <1>1, <1>2, <1>3, <1>4, Kinds, QuietButTargets DEF Control, TypeOK, Placed, Failing

\* RestartService leaves every open service with one owner.
LEMMA RestartServiceData ==
    ASSUME Control, Data, Control', NEW p \in Admins, NEW s \in Services, RestartService(p, s)
    PROVE  Data'
  <1>1. \A q \in Procs : /\ IsPrefix(closing[q].order)
                     /\ closing[q].left \subseteq SeqSet(closing[q].order)
    BY DEF Data, ClosesAlone
  <1>2. /\ s \in (SeqSet(serviceOrder) \cap MayRestart) \ active /\ mu = NoOne /\ ~shutDown
        /\ pc' = [pc EXCEPT ![p] = "reinit"] /\ target' = [target EXCEPT ![p] = s]
        /\ UNCHANGED <<up, built, inited, active, serviceOrder, shutDown,
                       initOnce, shutdownOnce, startErr, next, closing>>
    BY DEF RestartService, Goto, MuFree, KillSwitchOff
  <1>3. \A t : Pending(t)' <=> Pending(t)
    BY <1>2, Kinds, SamePending DEF Control, TypeOK, Placed
  \* A service being collected is not in serviceOrder yet, and one being closed
  \* is there only once the worker is shut down.
  <1>4. ~Pending(s)
    BY <1>2, CollectedIsNotPending
  <1>5. ~Closing(s)
    <2>1. serviceOrder # << >>
      BY <1>2 DEF SeqSet
    <2>2. \A q \in Starters : pc[q] # "closing"
      BY <1>2, <2>1 DEF Data, NothingLeft, Failing
    <2>3. \A q \in Stoppers \cup Admins : pc[q] # "closing"
      BY <1>2 DEF Control, Placed, ShutdownRuns
    <2> QED
      BY <2>2, <2>3, Kinds DEF Closing, Control, Placed
  <1>6. TargetsHeld'
    <2>1. Closing(s)' <=> Closing(s)
      BY <1>2 DEF Closing
    <2>2. \A q \in Admins : q # p => pc'[q] = "idle"
      BY <1>2, Kinds DEF Control, TypeOK, Placed
    <2> QED
      BY <1>2, <1>3, <1>4, <1>5, <2>1, <2>2, Kinds DEF Control, TypeOK, TargetsHeld
  <1> QED
    BY <1>1, <1>2, <1>3, <1>6, Kinds, QuietButTargets DEF Control, TypeOK, Placed, Failing

\* initServices is inside the once alone, before anything is closed.
LEMMA AloneInside ==
    ASSUME Control, Data, NEW p \in Starters, pc[p] \in {"build", "collect"}
    PROVE  /\ \A q \in Starters : q # p => pc[q] \in {"idle", "init", "failed"} /\ ~InsideOnce(q)
           /\ ~Overlap => \A q \in Stoppers : pc[q] = "idle"
           /\ initOnce = "running"
           /\ ~Overlap => \A q \in Procs : closing[q].left = {}
  <1>1. initOnce = "running"
    BY DEF Control, OnceRuns
  <1>2. \A q \in Starters : q # p => pc[q] \in {"idle", "init", "failed"} /\ ~InsideOnce(q)
    BY <1>1 DEF Control, Placed, OnceRuns, InsideOnce
  <1>3. ~Overlap => \A q \in Stoppers : pc[q] = "idle"
    BY DEF Control, Placed, ShutdownRuns
  <1>4. \A q \in Starters : pc[q] # "closing"
    BY <1>2
  <1>5. ~Overlap => \A q \in Procs : pc[q] # "closing"
    BY <1>3, <1>4, Kinds DEF Control, Placed
  <1> QED
    BY <1>1, <1>2, <1>3, <1>5 DEF Control, Placed

\* Nothing has failed while BuildAll or EachInstance runs.
LEMMA NotFailingInside ==
    ASSUME Control, Data, NEW p \in Starters, pc[p] \in {"build", "collect"}
    PROVE  ~Failing
  BY AloneInside DEF Control, OnceRuns, Failing

\* BuildOne leaves every open service with one owner.
LEMMA BuildOneData ==
    ASSUME RunAlone, Control, Data, Control', NEW p \in Starters, BuildOne(p)
    PROVE  Data'
  <1> DEFINE s == Order[next]
  <1>1. /\ pc[p] = "build" /\ next \in 1..Len(Order) /\ s \in Services /\ next' = next + 1
        /\ up' = [up EXCEPT ![s] = @ + 1]
        /\ built' = built \cup {s}
        /\ inited' = IF s \in Instances THEN inited \cup {s} ELSE inited
        /\ UNCHANGED <<active, serviceOrder, mu, shutDown, initOnce, shutdownOnce,
                       startErr, closing, target, pc>>
    BY OrderFacts DEF BuildOne, Control, TypeOK
  <1> HIDE DEF s
  <1>2. /\ serviceOrder = << >> /\ active = {}
        /\ built = Instances \cup {Order[i] : i \in 1..(next - 1)}
        /\ inited = Instances \cap {Order[i] : i \in 1..(next - 1)}
    BY <1>1 DEF Data, Built, SeqSet
  <1>3. /\ \A q \in Starters : q # p => pc[q] \notin {"build", "collect"}
        /\ initOnce = "running" /\ \A q \in Procs : closing[q].left = {}
    BY <1>1, AloneInside DEF RunAlone
  <1>4. \A t : Pending(t) <=> \E i \in 1..Len(Order) : t = Order[i] /\ i < next
    BY <1>1, <1>3 DEF Pending
  <1>5. \A t : Pending(t)' <=> \E i \in 1..Len(Order) : t = Order[i] /\ i < next + 1
    BY <1>1, <1>3 DEF Pending
  <1>6. ~Pending(s)
    <2> SUFFICES ASSUME NEW i \in 1..Len(Order), Order[i] = Order[next], i < next PROVE FALSE
      BY <1>4 DEF s
    <2> QED
      BY <1>1, OrderFacts
  <1>7. \A t : Pending(t)' <=> Pending(t) \/ t = s
    BY <1>1, <1>4, <1>5, OrderFacts DEF s
  <1>8. \A t \in Services : ~Closing(t) /\ ~Closing(t)'
    BY <1>1, <1>3 DEF Closing
  <1>9. Built'
    <2>1. {Order[i] : i \in 1..(next' - 1)} = {Order[i] : i \in 1..(next - 1)} \cup {s}
      BY <1>1 DEF s
    <2> QED
      BY <1>1, <1>2, <1>3, <2>1 DEF Data, Built
  <1>10. UpIsOwned'
    BY <1>1, <1>2, <1>6, <1>7, <1>8 DEF Data, UpIsOwned, Control, TypeOK
  <1>11. ClosesAlone'
    BY <1>1, <1>3 DEF Data, ClosesAlone, IsPrefix
  <1>12. TargetsHeld'
    BY <1>1, <1>2 DEF Data, TargetsHeld, SeqSet
  <1>13. NothingLeft'
    <2>1. ~Failing
      BY <1>1, NotFailingInside
    <2> QED
      BY <1>1, <1>2, <2>1 DEF Data, NothingLeft, Failing
  <1> QED
    BY <1>9, <1>10, <1>11, <1>12, <1>13 DEF Data

\* BuildDone leaves every open service with one owner.
LEMMA BuildDoneData ==
    ASSUME RunAlone, Control, Data, Control', NEW p \in Starters, BuildDone(p)
    PROVE  Data'
  <1>1. /\ pc[p] = "build" /\ next = Len(Order) + 1 /\ next' = 1 /\ pc' = [pc EXCEPT ![p] = "collect"]
        /\ UNCHANGED <<up, built, inited, active, serviceOrder, mu, shutDown, initOnce,
                       shutdownOnce, startErr, closing, target>>
    BY OrderFacts DEF BuildDone, Control, TypeOK, Goto
  <1>2. /\ serviceOrder = << >> /\ active = {}
    BY <1>1 DEF Data, Built, SeqSet
  <1>3. /\ \A q \in Starters : q # p => pc[q] \notin {"build", "collect"}
        /\ initOnce = "running" /\ \A q \in Procs : closing[q].left = {}
    BY <1>1, AloneInside DEF RunAlone
  <1>4. \A q \in Procs : pc'[q] = IF q = p THEN "collect" ELSE pc[q]
    BY <1>1 DEF Control, TypeOK
  <1>5. \A t : Pending(t)' <=> Pending(t)
    <2>1. \A t : Pending(t) <=> \E i \in 1..Len(Order) : t = Order[i]
      BY <1>1, <1>3, OrderFacts DEF Pending
    <2>2. \A t : Pending(t)' <=> \E i \in 1..Len(Order) : t = Order[i]
      BY <1>1, <1>3, <1>4, OrderFacts, Kinds DEF Pending
    <2> QED
      BY <2>1, <2>2
  <1>6. \A t \in Services : Closing(t)' <=> Closing(t)
    BY <1>1 DEF Closing
  <1>7. Built'
    BY <1>1, <1>2, <1>3, <1>4, Kinds DEF Data, Built, IsPrefix
  <1>8. UpIsOwned'
    BY <1>1, <1>2, <1>5, <1>6 DEF Data, UpIsOwned
  <1>9. ClosesAlone'
    BY <1>1, <1>3 DEF Data, ClosesAlone, IsPrefix
  <1>10. TargetsHeld'
    BY <1>1, <1>4, <1>5, <1>6, Kinds, TargetsStay
  <1>11. NothingLeft'
    BY <1>1, <1>2, <1>4, NotFailingInside, Kinds DEF Data, NothingLeft, Failing
  <1> QED
    BY <1>7, <1>8, <1>9, <1>10, <1>11 DEF Data

\* Collect leaves every open service with one owner.
LEMMA CollectData ==
    ASSUME RunAlone, Control, Data, Control', NEW p \in Starters, Collect(p)
    PROVE  Data'
  <1>0. next \in 1..Len(Order) /\ Order[next] \in Services
    BY OrderFacts DEF Collect, Control, TypeOK
  <1>1. PICK s \in Services :
        /\ s = Order[next] /\ pc[p] = "collect" /\ next \in 1..Len(Order) /\ next' = next + 1
        /\ active' = active \cup {s} /\ mu = NoOne
        /\ serviceOrder' = IF s \in active THEN serviceOrder ELSE Append(serviceOrder, s)
        /\ UNCHANGED <<up, built, inited, mu, shutDown, initOnce, shutdownOnce,
                       startErr, closing, target, pc>>
    BY <1>0 DEF Collect, MuFree
  <1>2. Pending(s)
    BY <1>1 DEF Pending
  <1>3. serviceOrder' = Append(serviceOrder, s)
    BY <1>1, <1>2 DEF Data, UpIsOwned, Control, TypeOK
  <1>4. /\ \A q \in Starters : q # p => pc[q] \notin {"build", "collect"}
        /\ initOnce = "running" /\ \A q \in Procs : closing[q].left = {}
        /\ \A q \in Stoppers : pc[q] = "idle"
    BY <1>1, AloneInside DEF RunAlone
  <1>5. \A t : Pending(t) <=> \E i \in 1..Len(Order) : t = Order[i] /\ i >= next
    BY <1>1, <1>4 DEF Pending
  <1>6. \A t : Pending(t)' <=> \E i \in 1..Len(Order) : t = Order[i] /\ i >= next + 1
    BY <1>1, <1>4 DEF Pending
  <1>7. ~Pending(s)'
    <2> SUFFICES ASSUME NEW i \in 1..Len(Order), Order[i] = Order[next], i >= next + 1 PROVE FALSE
      BY <1>1, <1>6
    <2> QED
      BY <1>1, OrderFacts
  <1>8. \A t : Pending(t) <=> Pending(t)' \/ t = s
    BY <1>1, <1>5, <1>6, OrderFacts
  <1>9. \A t \in Services : Closing(t)' <=> Closing(t)
    BY <1>1 DEF Closing
  <1>10. Built'
    <2>1. Len(serviceOrder) = next - 1 /\ IsPrefix(serviceOrder) /\ active \subseteq SeqSet(serviceOrder)
      BY <1>1 DEF Data, Built
    <2>2. /\ Len(serviceOrder') = next
          /\ \A i \in 1..next : serviceOrder'[i] = IF i = next THEN s ELSE serviceOrder[i]
      BY <1>1, <1>3, <2>1 DEF Control, TypeOK
    <2>3. IsPrefix(serviceOrder')
      BY <1>1, <2>1, <2>2 DEF IsPrefix
    <2>4. active' \subseteq SeqSet(serviceOrder')
      BY <1>1, <2>1, <2>2 DEF SeqSet
    <2> QED
      BY <1>1, <1>4, <2>2, <2>3, <2>4 DEF Built
  <1>11. UpIsOwned'
    BY <1>1, <1>7, <1>8, <1>9 DEF Data, UpIsOwned, Control, TypeOK
  <1>12. ClosesAlone'
    BY <1>1, <1>4 DEF Data, ClosesAlone, IsPrefix
  <1>13. TargetsHeld'
    <2>1. \A q \in Admins : pc[q] = "idle"
      BY <1>1, Kinds DEF Control, Placed
    <2> QED
      BY <1>1, <2>1 DEF TargetsHeld
  <1>14. NothingLeft'
    BY <1>1, <1>4, NotFailingInside DEF Data, NothingLeft, Failing, Control, ShutdownRuns, RunAlone
  <1> QED
    BY <1>10, <1>11, <1>12, <1>13, <1>14 DEF Data

\* What p has taken away to close is what was open; everything else is closed.
LEMMA TakeKeeps ==
    ASSUME Control, Data, Control', NEW p \in Starters \cup Stoppers, NEW todo,
           closing' = [closing EXCEPT ![p] = todo], pc' = [pc EXCEPT ![p] = "closing"],
           pc[p] # "closing",
           UNCHANGED <<up, built, inited, serviceOrder, mu, shutDown, initOnce, shutdownOnce,
                       startErr, next, target>>,
           active' = {},
           todo.left \subseteq Services, todo.left \subseteq SeqSet(todo.order), IsPrefix(todo.order),
           \A s \in Services : s \in todo.left <=> s \in active \/ Pending(s),
           todo.left # {} => \A q \in Procs : closing[q].left = {},
           \A s \in Services : ~Pending(s)',
           \A q \in Admins : pc[q] # "close",
           \A q \in Admins : pc[q] = "reinit" => target[q] \notin todo.left,
           Failing' => /\ serviceOrder = << >> \/ MayRestart = {}
                       /\ \A q \in Stoppers : closing'[q].left = {}
    PROVE  Data'
  <1>1. \A q \in Procs : /\ pc'[q] = (IF q = p THEN "closing" ELSE pc[q])
                         /\ closing'[q] = (IF q = p THEN todo ELSE closing[q])
    BY Kinds DEF Control, TypeOK
  <1>2. closing[p].left = {} /\ p \in Procs
    BY Kinds DEF Control, Placed
  <1>3. \A s \in Services : Closing(s)' <=> Closing(s) \/ s \in todo.left
    BY <1>1, <1>2 DEF Closing
  <1>4. Built'
    BY <1>1, Kinds DEF Data, Built, IsPrefix
  <1>5. UpIsOwned'
    BY <1>3 DEF Data, UpIsOwned
  <1>6. ClosesAlone'
    <2>1. \A q \in Procs : closing'[q].left \subseteq SeqSet(closing'[q].order)
                          /\ IsPrefix(closing'[q].order)
      BY <1>1 DEF Data, ClosesAlone
    <2>2. \A q, r \in Procs : closing'[q].left # {} /\ r # q => closing'[r].left = {}
      BY <1>1, <1>2 DEF Data, ClosesAlone
    <2> QED
      BY <2>1, <2>2 DEF ClosesAlone, IsPrefix
  <1>7. TargetsHeld'
    <2>1. \A q \in Admins : pc'[q] = pc[q] /\ (pc[q] = "reinit" => target[q] \in Services)
      BY <1>1, Kinds DEF Control, Placed
    <2> QED
      BY <1>3, <2>1 DEF Data, TargetsHeld
  <1>8. NothingLeft'
    BY DEF Data, NothingLeft
  <1> QED
    BY <1>4, <1>5, <1>6, <1>7, <1>8 DEF Data

\* BuildFails leaves every open service with one owner.
LEMMA BuildFailsData ==
    ASSUME RunAlone, Control, Data, Control', NEW p \in Starters, BuildFails(p)
    PROVE  Data'
  <1> DEFINE todo == ToClose(Order, InitializedServices)
  <1>1. /\ pc[p] = "build" /\ next \in 1..Len(Order)
        /\ closing' = [closing EXCEPT ![p] = todo] /\ pc' = [pc EXCEPT ![p] = "closing"]
        /\ UNCHANGED <<up, built, inited, active, serviceOrder, mu, shutDown,
                       initOnce, shutdownOnce, startErr, next, target>>
    BY OrderFacts DEF BuildFails, Goto, Control, TypeOK
  <1>2. /\ serviceOrder = << >> /\ active = {}
        /\ built = Instances \cup {Order[i] : i \in 1..(next - 1)}
        /\ inited = Instances \cap {Order[i] : i \in 1..(next - 1)}
    BY <1>1 DEF Data, Built, SeqSet
  <1>3. /\ \A q \in Starters : q # p => pc[q] \notin {"build", "collect"}
        /\ \A q \in Procs : closing[q].left = {}
    BY <1>1, AloneInside DEF RunAlone
  <1>4. \A t : Pending(t) <=> \E i \in 1..Len(Order) : t = Order[i] /\ i < next
    BY <1>1, <1>3 DEF Pending
  <1>5. InitializedServices = {Order[i] : i \in 1..(next - 1)}
    BY <1>2 DEF InitializedServices, RunAlone
  <1>6. /\ todo.order = Order /\ todo.left = SeqSet(Order) \cap InitializedServices
    BY DEF ToClose
  <1>7. \A s \in Services : s \in todo.left <=> s \in active \/ Pending(s)
    <2>1. SeqSet(Order) = Services
      BY OrderFacts DEF SeqSet
    <2>2. \A s \in Services : s \in todo.left <=> \E i \in 1..(next - 1) : s = Order[i]
      BY <1>5, <1>6, <2>1
    <2>3. \A i : i \in 1..(next - 1) <=> i \in 1..Len(Order) /\ i < next
      BY <1>1, OrderFacts
    <2> QED
      BY <1>2, <1>4, <2>2, <2>3
  <1>8. todo.left \subseteq Services /\ IsPrefix(todo.order) /\ todo.left \subseteq SeqSet(todo.order)
    BY <1>6, OrderFacts, MemberOfSeq DEF IsPrefix
  <1>9. \A q \in Procs : pc'[q] = IF q = p THEN "closing" ELSE pc[q]
    BY <1>1, Kinds DEF Control, TypeOK
  <1>10. \A s \in Services : ~Pending(s)'
    BY <1>1, <1>3, <1>9, Kinds DEF Pending
  <1>11. \A q \in Admins : pc[q] = "idle"
    BY <1>2 DEF Data, TargetsHeld, Control, Placed, SeqSet
  <1>12. \A q \in Stoppers : closing'[q].left = {}
    BY <1>1, <1>3, Kinds DEF Control, TypeOK
  <1> HIDE DEF todo
  <1> QED
    BY <1>1, <1>2, <1>3, <1>7, <1>8, <1>10, <1>11, <1>12, TakeKeeps

\* closeActive takes all that is active.
LEMMA TakeActiveData ==
    ASSUME Control, Data, Control', NEW p \in Starters \cup Stoppers, TakeActive(p),
           pc' = [pc EXCEPT ![p] = "closing"], pc[p] # "closing",
           UNCHANGED <<up, built, inited, serviceOrder, mu, shutDown, initOnce, shutdownOnce,
                       startErr, next, target>>,
           \A s \in Services : ~Pending(s), \A s \in Services : ~Pending(s)',
           Failing' => /\ serviceOrder = << >> \/ MayRestart = {}
                       /\ p \in Stoppers => Failing
                       /\ \A q \in Stoppers : closing[q].left = {}
    PROVE  Data'
  <1> DEFINE todo == ToClose(serviceOrder, active)
  <1>1. mu = NoOne /\ closing' = [closing EXCEPT ![p] = todo] /\ active' = active \ SeqSet(serviceOrder)
    BY DEF TakeActive, MuFree
  <1>2. active \subseteq SeqSet(serviceOrder) /\ IsPrefix(serviceOrder) /\ active \subseteq Services
    BY DEF Data, Built, Control, TypeOK
  <1>3. todo.order = serviceOrder /\ todo.left = active
    BY <1>2 DEF ToClose
  <1>4. \A q \in Admins : pc[q] = "idle"
    BY <1>1, Kinds DEF Control, Placed
  <1>5. todo.left # {} => \A q \in Procs : closing[q].left = {}
    BY <1>3 DEF Data, ClosesAlone
  <1>6. Failing' => \A q \in Stoppers : closing'[q].left = {}
    BY <1>1, <1>3, Kinds DEF Control, TypeOK, Data, NothingLeft
  <1> HIDE DEF todo
  <1> QED
    BY <1>1, <1>2, <1>3, <1>4, <1>5, <1>6, TakeKeeps

\* StartFails leaves every open service with one owner.
LEMMA StartFailsData ==
    ASSUME RunAlone, Control, Data, Control', NEW p \in Starters, StartFails(p)
    PROVE  Data'
  <1>1. /\ TakeActive(p) /\ pc' = [pc EXCEPT ![p] = "closing"] /\ StartMayFail
        /\ pc[p] \in {"migrate", "ready", "bind"} \/ (pc[p] = "collect" /\ next > Len(Order))
        /\ UNCHANGED <<up, built, inited, serviceOrder, mu, shutDown,
                       initOnce, shutdownOnce, startErr, next, target>>
    BY DEF StartFails, Goto
  <1>2. \A q \in Procs : pc'[q] = IF q = p THEN "closing" ELSE pc[q]
    BY <1>1 DEF Control, TypeOK
  <1>3. \A q \in Starters : pc[q] = "build" \/ pc[q] = "collect" => q = p
    BY <1>1, AloneInside DEF Control, OnceRuns, InsideOnce
  <1>4. \A i \in 1..Len(Order) : pc[p] = "collect" => ~(i >= next)
    BY <1>1, OrderFacts DEF Control, TypeOK
  <1>5. \A s \in Services : ~Pending(s) /\ ~Pending(s)'
    BY <1>1, <1>2, <1>3, <1>4, Kinds DEF Pending
  <1>6. MayRestart = {}
    BY <1>1 DEF RunAlone
  <1>7. \A q \in Stoppers : closing[q].left = {}
    BY <1>1, Kinds DEF RunAlone, Control, Placed, ShutdownRuns
  <1> QED
    BY <1>1, <1>5, <1>6, <1>7, Kinds, TakeActiveData

\* CloseActive leaves every open service with one owner.
LEMMA CloseActiveData ==
    ASSUME RunAlone, Control, Data, Control', NEW p \in Stoppers, CloseActive(p)
    PROVE  Data'
  <1>1. /\ TakeActive(p) /\ pc' = [pc EXCEPT ![p] = "closing"] /\ pc[p] = "notify"
        /\ UNCHANGED <<up, built, inited, serviceOrder, mu, shutDown,
                       initOnce, shutdownOnce, startErr, next, target>>
    BY DEF CloseActive, Goto
  <1>2. \A q \in Procs : pc'[q] = IF q = p THEN "closing" ELSE pc[q]
    BY <1>1 DEF Control, TypeOK
  <1>3. \A q \in Starters : pc[q] = "idle"
    BY <1>1 DEF RunAlone, Control, Placed, ShutdownRuns
  <1>4. \A s \in Services : ~Pending(s) /\ ~Pending(s)'
    BY <1>1, <1>2, <1>3, Kinds DEF Pending
  <1>5. Failing' => Failing
    BY <1>1, <1>2, <1>3, Kinds DEF Failing
  <1>6. Failing => (serviceOrder = << >> \/ MayRestart = {}) /\ \A q \in Stoppers : closing[q].left = {}
    BY DEF Data, NothingLeft
  <1> QED
    BY <1>1, <1>4, <1>5, <1>6, Kinds, TakeActiveData

\* CloseNext leaves every open service with one owner.
LEMMA CloseNextData ==
    ASSUME Control, Data, Control', NEW p \in Starters \cup Stoppers, CloseNext(p)
    PROVE  Data'
  <1>1. PICK s \in closing[p].left :
           /\ up' = [up EXCEPT ![s] = @ - 1]
           /\ closing' = [closing EXCEPT ![p].left = @ \ {s}]
    BY DEF CloseNext
  <1>2. /\ pc[p] = "closing"
        /\ UNCHANGED <<built, inited, active, serviceOrder, mu, shutDown,
                       initOnce, shutdownOnce, startErr, next, target, pc>>
    BY DEF CloseNext
  <1>3. /\ p \in Procs /\ s \in Services /\ active = {}
        /\ \A t \in Services : ~Pending(t)
        /\ \A q \in Procs : q # p => closing[q].left = {}
    BY <1>1, Kinds DEF Control, TypeOK, Data, ClosesAlone
  <1>4. \A q \in Procs : /\ closing'[q].order = closing[q].order
                         /\ closing'[q].left = closing[q].left \ {s}
    BY <1>1, <1>3 DEF Control, TypeOK
  <1>5. \A t : Pending(t)' <=> Pending(t)
    BY <1>2 DEF Pending
  <1>6. \A t \in Services : Closing(t) <=> Closing(t)' \/ t = s
    BY <1>1, <1>3, <1>4 DEF Closing
  <1>7. ~Closing(s)'
    BY <1>4 DEF Closing
  <1>8. Built'
    BY <1>2 DEF Data, Built, IsPrefix
  <1>9. UpIsOwned'
    BY <1>1, <1>2, <1>3, <1>5, <1>6, <1>7 DEF Data, UpIsOwned, Control, TypeOK
  <1>10. ClosesAlone'
    BY <1>2, <1>3, <1>4, <1>5 DEF Data, ClosesAlone, IsPrefix
  <1>11. TargetsHeld'
    <2>1. \A q \in Admins : pc[q] = "reinit" => target[q] \in Services
      BY DEF Control, Placed
    <2> QED
      BY <1>2, <1>5, <1>6, <2>1 DEF Data, TargetsHeld
  <1>12. NothingLeft'
    <2>1. Failing' <=> Failing
      BY <1>2 DEF Failing
    <2>2. \A q \in Stoppers : closing[q].left = {} => closing'[q].left = {}
      BY <1>4, Kinds
    <2> QED
      BY <1>2, <1>5, <2>1, <2>2 DEF Data, NothingLeft
  <1> QED
    BY <1>8, <1>9, <1>10, <1>11, <1>12 DEF Data

\* CloseReturns leaves every open service with one owner.
LEMMA CloseReturnsData ==
    ASSUME Control, Data, Control', NEW p \in Admins, CloseReturns(p)
    PROVE  Data'
  <1>1. PICK s \in Services :
           /\ s = target[p] /\ s \in active /\ mu = p /\ pc' = [pc EXCEPT ![p] = "idle"]
           /\ up' = [up EXCEPT ![s] = @ - 1]
           /\ active' = active \ {s}
    BY DEF CloseReturns, Goto, Without, Data, TargetsHeld, Control, Placed
  <1>2. UNCHANGED <<built, inited, serviceOrder, shutDown, initOnce, shutdownOnce,
                   startErr, next, closing>>
    BY DEF CloseReturns
  <1>3. \A q \in Procs : closing[q].left = {}
    BY <1>1 DEF Data, ClosesAlone
  <1>4. \A q \in Procs : pc'[q] = IF q = p THEN "idle" ELSE pc[q]
    BY <1>1 DEF Control, TypeOK
  <1>5. \A t : Pending(t)' <=> Pending(t)
    BY <1>2, <1>4, Kinds DEF Pending
  <1>6. \A t \in Services : ~Closing(t) /\ ~Closing(t)'
    BY <1>2, <1>3 DEF Closing
  <1>7. Built'
    BY <1>1, <1>2, <1>4, Kinds DEF Data, Built, IsPrefix
  <1>8. UpIsOwned'
    BY <1>1, <1>5, <1>6 DEF Data, UpIsOwned, Control, TypeOK
  <1>9. ClosesAlone'
    BY <1>2, <1>3 DEF Data, ClosesAlone, IsPrefix
  <1>10. TargetsHeld'
    <2>1. \A q \in Admins : pc'[q] = "idle"
      BY <1>1, <1>4, Kinds DEF Control, Placed
    <2> QED
      BY <2>1 DEF TargetsHeld
  <1>11. NothingLeft'
    BY <1>1, <1>2, <1>4, Kinds DEF Data, NothingLeft, Failing
  <1> QED
    BY <1>7, <1>8, <1>9, <1>10, <1>11 DEF Data

\* RestartReturns leaves every open service with one owner.
LEMMA RestartReturnsData ==
    ASSUME Control, Data, Control', NEW p \in Admins, RestartReturns(p)
    PROVE  Data'
  <1>1. PICK s \in Services :
           /\ s = target[p] /\ mu = p /\ pc[p] = "reinit" /\ pc' = [pc EXCEPT ![p] = "idle"]
           /\ up' = [up EXCEPT ![s] = @ + 1]
           /\ active' = active \cup {s}
    BY DEF RestartReturns, Goto, With, Control, Placed
  <1>2. UNCHANGED <<built, inited, serviceOrder, shutDown, initOnce, shutdownOnce,
                   startErr, next, closing>>
    BY DEF RestartReturns
  <1>3. /\ s \in SeqSet(serviceOrder) \cap MayRestart /\ s \notin active
        /\ ~Pending(s) /\ ~Closing(s) /\ ~shutDown
    BY <1>1 DEF Data, TargetsHeld, Control, Placed
  <1>4. \A q \in Procs : pc'[q] = IF q = p THEN "idle" ELSE pc[q]
    BY <1>1 DEF Control, TypeOK
  <1>5. \A t : Pending(t)' <=> Pending(t)
    BY <1>2, <1>4, Kinds DEF Pending
  <1>6. \A t \in Services : Closing(t)' <=> Closing(t)
    BY <1>2 DEF Closing
  \* Nothing is being closed: a failed start leaves nothing to restart.
  <1>7. ~Failing
    BY <1>3 DEF Data, NothingLeft, SeqSet
  <1>8. \A q \in Procs : closing[q].left = {}
    <2>1. \A q \in Starters : pc[q] # "closing"
      BY <1>7 DEF Failing
    <2>2. \A q \in Stoppers \cup Admins : pc[q] # "closing"
      BY <1>3 DEF Control, Placed, ShutdownRuns
    <2> QED
      BY <2>1, <2>2, Kinds DEF Control, Placed
  <1>9. Built'
    BY <1>1, <1>2, <1>3, <1>4, Kinds DEF Data, Built, IsPrefix
  <1>10. UpIsOwned'
    BY <1>1, <1>3, <1>5, <1>6 DEF Data, UpIsOwned, Control, TypeOK
  <1>11. ClosesAlone'
    BY <1>2, <1>8 DEF Data, ClosesAlone, IsPrefix
  <1>12. TargetsHeld'
    <2>1. \A q \in Admins : pc'[q] = "idle"
      BY <1>1, <1>4, Kinds DEF Control, Placed
    <2> QED
      BY <2>1 DEF TargetsHeld
  <1>13. NothingLeft'
    <2>1. ~Failing'
      BY <1>2, <1>4, <1>7, Kinds DEF Failing
    <2>2. \A q \in Stoppers : pc'[q] # "closing"
      BY <1>3, <1>4, Kinds DEF Control, ShutdownRuns
    <2>3. shutdownOnce' # "done"
      BY <1>2, <1>3 DEF Control, ShutdownRuns
    <2> QED
      BY <2>1, <2>2, <2>3 DEF NothingLeft
  <1> QED
    BY <1>9, <1>10, <1>11, <1>12, <1>13 DEF Data

\* A worker that NewWorker just made tracks and owes nothing.
LEMMA InitData == Init => Data
  <1> SUFFICES ASSUME Init PROVE Data
    OBVIOUS
  <1>1. /\ \A p \in Procs : pc[p] = "idle" /\ closing[p] = NothingToClose
        /\ NothingToClose.left = {} /\ NothingToClose.order = << >>
        /\ next = 1 /\ active = {} /\ serviceOrder = << >> /\ inited = {} /\ built = Instances
        /\ \A s \in Services : up[s] = 0
        /\ ~startErr /\ initOnce = "idle" /\ shutdownOnce = "idle"
    BY DEF Init, NothingToClose
  <1>2. \A s \in Services : ~Pending(s) /\ ~Closing(s)
    BY <1>1, Kinds DEF Pending, Closing
  <1>3. IsPrefix(<< >>)
    BY OrderFacts DEF IsPrefix
  <1>4. 1..(next - 1) = {}
    BY <1>1
  <1>5. Built
    BY <1>1, <1>3, <1>4, Kinds DEF Built
  <1>6. UpIsOwned /\ TargetsHeld
    BY <1>1, <1>2, Kinds DEF UpIsOwned, TargetsHeld
  <1>7. ClosesAlone
    BY <1>1, <1>3 DEF ClosesAlone
  <1>8. NothingLeft
    BY <1>1, Kinds DEF NothingLeft, Failing
  <1> QED
    BY <1>5, <1>6, <1>7, <1>8 DEF Data

\* Every step keeps both halves.
LEMMA DataStep == RunAlone /\ IInv /\ [Next]_vars => IInv'
  <1> SUFFICES ASSUME RunAlone, Control, Data, [Next]_vars PROVE IInv'
    BY DEF IInv
  <1>1. Control'
    BY ControlStep
  <1>2. CASE UNCHANGED vars
    <2>1. \A s : (Pending(s)' <=> Pending(s)) /\ (Closing(s)' <=> Closing(s))
      BY <1>2 DEF vars, Pending, Closing
    <2>2. Failing' <=> Failing
      BY <1>2 DEF vars, Failing
    <2>3. Data'
      BY <1>2, <2>1, <2>2 DEF vars, Data, Built, UpIsOwned, ClosesAlone, TargetsHeld, NothingLeft, IsPrefix
    <2> QED
      BY <1>1, <2>3 DEF IInv
  <1>3. CASE \E p \in Starters : Start(p) \/ StarterStep(p)
    BY <1>1, <1>3, StartData, InitServicesData, BuildOneData, BuildFailsData,
       BuildDoneData, CollectData, CollectedData, StartPhaseData,
       StartFailsData, StartFailedData, CloseNextData, ClosingDoneData
       DEF StarterStep, IInv
  <1>4. CASE \E p \in Stoppers : Shutdown(p) \/ StopperStep(p)
    BY <1>1, <1>4, ShutdownData, MarkShutDownData, CloseActiveData, CloseNextData,
       ClosingDoneData DEF StopperStep, IInv
  <1>5. CASE \E p \in Admins : \/ AdminStep(p)
                               \/ \E s \in Services : CloseService(p, s) \/ RestartService(p, s)
    BY <1>1, <1>5, CloseServiceData, CloseReturnsData, RestartServiceData,
       RestartReturnsData, RestartFailsData, ClosePanicsData DEF AdminStep, IInv
  <1> QED
    BY <1>2, <1>3, <1>4, <1>5 DEF Next

\* The only steps that change what is open: one service more in BuildAll and
\* RestartService, one less in closeServices and CloseService.
LEMMA UpMoves ==
  ASSUME Control, Next
  PROVE  \/ up' = up
         \/ \E p \in Procs, t \in Services : up' = [up EXCEPT ![t] = @ - 1]
         \/ \E p \in Starters : BuildOne(p)
         \/ \E p \in Admins : RestartReturns(p)
  <1>1. ASSUME NEW p \in Procs, CloseNext(p)
        PROVE  \E q \in Procs, t \in Services : up' = [up EXCEPT ![t] = @ - 1]
    BY <1>1 DEF CloseNext, Control, TypeOK
  <1>2. ASSUME NEW p \in Admins, CloseReturns(p)
        PROVE  \E q \in Procs, t \in Services : up' = [up EXCEPT ![t] = @ - 1]
    <2>1. p \in Procs /\ target[p] \in Services
      BY <1>2, Kinds DEF CloseReturns, Control, Placed, TypeOK
    <2> QED
      BY <1>2, <2>1 DEF CloseReturns
  <1>3. CASE \E p \in Starters : Start(p) \/ StarterStep(p)
    <2>1. PICK p \in Starters : Start(p) \/ StarterStep(p)
      BY <1>3
    <2>2. CASE BuildOne(p)
      BY <2>2
    <2>3. CASE CloseNext(p)
      BY <1>1, <2>3, Kinds
    <2>4. CASE \/ Start(p) \/ InitServices(p) \/ BuildFails(p) \/ BuildDone(p) \/ Collect(p)
               \/ Collected(p) \/ StartPhase(p) \/ StartFails(p) \/ StartFailed(p) \/ ClosingDone(p)
      <3>1. up' = up
        BY <2>4 DEF Start, InitServices, BuildFails, BuildDone, Collect,
           Collected, StartPhase, StartFails, StartFailed, ClosingDone
      <3> QED
        BY <3>1
    <2> QED
      BY <2>1, <2>2, <2>3, <2>4 DEF StarterStep
  <1>4. CASE \E p \in Stoppers : Shutdown(p) \/ StopperStep(p)
    <2>1. PICK p \in Stoppers : Shutdown(p) \/ StopperStep(p)
      BY <1>4
    <2>2. CASE CloseNext(p)
      BY <1>1, <2>2, Kinds
    <2>3. CASE Shutdown(p) \/ MarkShutDown(p) \/ CloseActive(p) \/ ClosingDone(p)
      <3>1. up' = up
        BY <2>3 DEF Shutdown, MarkShutDown, CloseActive, ClosingDone
      <3> QED
        BY <3>1
    <2> QED
      BY <2>1, <2>2, <2>3 DEF StopperStep
  <1>5. CASE \E p \in Admins : \/ AdminStep(p)
                               \/ \E s \in Services : CloseService(p, s) \/ RestartService(p, s)
    <2>1. PICK p \in Admins : \/ AdminStep(p)
                              \/ \E s \in Services : CloseService(p, s) \/ RestartService(p, s)
      BY <1>5
    <2>2. CASE CloseReturns(p)
      BY <1>2, <2>2
    <2>3. CASE RestartReturns(p)
      BY <2>3
    <2>4. CASE ClosePanics(p) \/ RestartFails(p) \/ \E s \in Services : CloseService(p, s) \/ RestartService(p, s)
      <3>1. up' = up
        BY <2>4 DEF ClosePanics, RestartFails, CloseService, RestartService
      <3> QED
        BY <3>1
    <2> QED
      BY <2>1, <2>2, <2>3, <2>4 DEF AdminStep
  <1> QED
    BY <1>3, <1>4, <1>5 DEF Next

(***************************************************************************)
(* Theorems                                                                *)
(***************************************************************************)
\* The worker's state keeps its type, whatever fails and whoever overlaps.
THEOREM TypeCorrect == Spec => []TypeOK
  <1>1. Control => TypeOK
    BY DEF Control
  <1> QED
    BY InitControl, ControlStep, <1>1, PTL DEF Spec

\* service_management.go looks at w.shutDown under w.mu, and Shutdown sets it
\* under w.mu: once it has begun nothing is initialized but by a BuildAll that
\* began before.
THEOREM NothingOpensLate == Spec => NoInitAfterShutDown
  <1>1. Control /\ [Next]_vars => [shutDown /\ initOnce # "running" => \A s \in Services : up'[s] <= up[s]]_vars
    <2> SUFFICES ASSUME Control, Next, shutDown, initOnce # "running", NEW s \in Services
                 PROVE  up'[s] <= up[s]
      BY Zenon
    <2>1. up[s] \in Int
      BY DEF Control, TypeOK
    <2>2. \A p \in Starters : pc[p] # "build"
      BY DEF Control, OnceRuns
    <2>3. \A p \in Admins : pc[p] # "reinit"
      BY DEF Control, Placed
    <2>4. CASE up' = up
      BY <2>1, <2>4
    <2>5. CASE \E p \in Procs, t \in Services : up' = [up EXCEPT ![t] = @ - 1]
      BY <2>1, <2>5 DEF Control, TypeOK
    <2>6. CASE \E p \in Starters : BuildOne(p)
      BY <2>2, <2>6 DEF BuildOne
    <2>7. CASE \E p \in Admins : RestartReturns(p)
      BY <2>3, <2>7 DEF RestartReturns
    <2> QED
      BY <2>4, <2>5, <2>6, <2>7, UpMoves
  <1> QED
    BY InitControl, ControlStep, <1>1, PTL DEF Spec, NoInitAfterShutDown

\* closeActive and CloseService: every Close answers one Init.
THEOREM ClosedOncePerInit == ASSUME RunAlone PROVE Spec => []OneClosePerInit
  <1>1. Init => IInv
    BY InitControl, InitData DEF IInv
  <1>2. IInv /\ [Next]_vars => IInv'
    BY DataStep
  <1>3. IInv => OneClosePerInit
    BY DEF IInv, Data, UpIsOwned, OneClosePerInit
  <1> QED
    BY <1>1, <1>2, <1>3, PTL DEF Spec

\* What is reported is open; a failed Start and a Shutdown leave nothing open.
THEOREM WorkerKeepsItsWord == ASSUME RunAlone PROVE Spec => []WorkerHolds
  <1>1. Init => IInv
    BY InitControl, InitData DEF IInv
  <1>2. IInv /\ [Next]_vars => IInv'
    BY DataStep
  <1>3. IInv => WorkerHolds
    <2> SUFFICES ASSUME Control, Data PROVE WorkerHolds
      BY DEF IInv
    <2>1. TypeOK /\ ActiveIsUp
      BY DEF Control, TypeOK, Data, UpIsOwned, ActiveIsUp
    <2>2. ASSUME ~StartRunning, active = {}, \A p \in Stoppers : closing[p].left = {}, NEW s \in Services
          PROVE  up[s] = 0
      <3>1. ~Pending(s)
        BY <2>2 DEF StartRunning, Pending
      <3>2. \A p \in Starters \cup Admins : closing[p].left = {}
        BY <2>2, Kinds DEF StartRunning, Control, Placed
      <3>3. ~Closing(s)
        BY <2>2, <3>2, Kinds DEF Closing
      <3> QED
        BY <2>2, <3>1, <3>3 DEF Data, UpIsOwned
    <2>3. ShutdownClosesAll
      <3> SUFFICES ASSUME shutdownOnce = "done", ~StartRunning PROVE \A s \in Services : up[s] = 0
        BY DEF ShutdownClosesAll
      <3>1. \A p \in Stoppers : closing[p].left = {}
        BY Kinds DEF Control, Placed, ShutdownRuns
      <3> QED
        BY <2>2, <3>1 DEF Data, NothingLeft
    <2>4. FailedStartLeavesNothing
      BY <2>2 DEF Data, NothingLeft, Failing, FailedStartLeavesNothing
    <2> QED
      BY <2>1, <2>3, <2>4 DEF WorkerHolds
  <1> QED
    BY <1>1, <1>2, <1>3, PTL DEF Spec

\* closeServices goes backward: what may use a service is closed before it.
THEOREM DependentsAreClosedFirst == ASSUME RunAlone PROVE Spec => DependentsCloseFirst
  <1>1. Init => IInv
    BY InitControl, InitData DEF IInv
  <1>2. IInv /\ [Next]_vars => IInv'
    BY DataStep
  <1>3. IInv /\ [Next]_vars =>
          [mu' = mu => \A i, j \in 1..Len(Order) :
              i < j /\ up'[Order[i]] < up[Order[i]] => up[Order[j]] = 0]_vars
    <2> SUFFICES ASSUME Control, Data, Next, mu' = mu, NEW i \in 1..Len(Order), NEW j \in 1..Len(Order),
                        i < j, up'[Order[i]] < up[Order[i]]
                 PROVE  up[Order[j]] = 0
      BY Zenon DEF IInv
    <2>1. Order[i] \in Services /\ Order[j] \in Services /\ up[Order[i]] \in Int
      BY OrderFacts DEF Control, TypeOK
    <2>2. PICK p \in Starters \cup Stoppers : CloseNext(p)
      <3>1. ASSUME NEW p \in Starters, BuildOne(p) PROVE FALSE
        <4>1. up' = [up EXCEPT ![Order[next]] = @ + 1]
          BY <3>1 DEF BuildOne
        <4> QED
          BY <2>1, <4>1 DEF Control, TypeOK
      <3>2. ASSUME NEW p \in Admins, AdminStep(p) PROVE up' = up \/ mu' # mu
        BY <3>2, Kinds DEF AdminStep, CloseReturns, ClosePanics, RestartReturns, RestartFails,
           Control, TypeOK, Placed, Unlocked
      <3>3. up' # up
        BY <2>1
      <3>4. CASE \E p \in Starters : Start(p) \/ StarterStep(p)
        BY <3>1, <3>3, <3>4 DEF StarterStep, Start, InitServices, BuildFails, BuildDone, Collect,
           Collected, StartPhase, StartFails, StartFailed, ClosingDone
      <3>5. CASE \E p \in Stoppers : Shutdown(p) \/ StopperStep(p)
        BY <3>3, <3>5 DEF StopperStep, Shutdown, MarkShutDown, CloseActive, ClosingDone
      <3>6. CASE \E p \in Admins : \/ AdminStep(p)
                                   \/ \E t \in Services : CloseService(p, t) \/ RestartService(p, t)
        BY <3>2, <3>3, <3>6 DEF CloseService, RestartService
      <3> QED
        BY <3>4, <3>5, <3>6 DEF Next
    <2>3. PICK s \in closing[p].left : IsNewest(s, closing[p]) /\ up' = [up EXCEPT ![s] = @ - 1]
      BY <2>2 DEF CloseNext
    <2>4. p \in Procs /\ s \in Services
      BY <2>3, Kinds DEF Control, TypeOK
    <2>5. s = Order[i]
      BY <2>1, <2>3, <2>4 DEF Control, TypeOK
    <2>6. /\ active = {} /\ ~Pending(Order[j])
          /\ \A q \in Procs : q # p => closing[q].left = {}
      BY <2>1, <2>3, <2>4 DEF Data, ClosesAlone
    <2>7. Order[j] \notin closing[p].left
      <3> DEFINE q == closing[p].order
      <3>1. IsPrefix(q) /\ closing[p].left \subseteq SeqSet(q) /\ Len(q) \in Nat
        BY <2>4 DEF Data, ClosesAlone, Control, TypeOK
      <3>2. PICK k \in 1..Len(q) :
              s = q[k] /\ \A l \in 1..Len(q) : q[l] \in closing[p].left => l <= k
        BY <2>3 DEF IsNewest
      <3>3. \A n \in 1..Len(q) : n \in 1..Len(Order) /\ q[n] = Order[n]
        BY <3>1 DEF IsPrefix
      <3>4. k \in 1..Len(Order) /\ Order[k] = Order[i]
        BY <2>5, <3>2, <3>3
      <3>5. k = i
        BY <3>4, OrderFacts
      <3>6. ASSUME Order[j] \in closing[p].left PROVE FALSE
        <4>1. PICK l \in 1..Len(q) : Order[j] = q[l]
          BY <3>1, <3>6 DEF SeqSet
        <4>2. l \in 1..Len(Order) /\ Order[l] = Order[j]
          BY <3>3, <4>1
        <4>3. l = j
          BY <4>2, OrderFacts
        <4>4. l <= k
          BY <3>2, <3>6, <4>1
        <4> QED
          BY <3>5, <4>3, <4>4
      <3> QED
        BY <3>6
    <2>8. ~Closing(Order[j])
      BY <2>6, <2>7 DEF Closing
    <2> QED
      BY <2>1, <2>6, <2>8 DEF Data, UpIsOwned
  <1> QED
    BY <1>1, <1>2, <1>3, PTL DEF Spec, DependentsCloseFirst

====
