----------------------------- MODULE KillSwitch -----------------------------
(***************************************************************************)
(* The kill switch at work on the router and the event bus: one goroutine  *)
(* starts the App (Init of each service, then tracking, then Seal), and    *)
(* admins close and restart services meanwhile (CloseService and           *)
(* RestartService in service_management.go). What Init registers is the    *)
(* service's script; it registers the same on every run.                   *)
(*                                                                         *)
(* w.mu is held by an admin from the check to the last step before the     *)
(* event, and r.mu and bus.mu only within a step.                          *)
(***************************************************************************)
EXTENDS Router, EventBus

CONSTANTS
    Order,       \* the order services are initialized in
    Script,      \* Script[s]: what Init registers, in order
    Admins,
    Starter,     \* the goroutine that calls Start
    Nobody,      \* the owner of subscriptions made without one
    MayFailInit, \* services whose Init may fail on a restart
    EarlyKill,   \* an admin may act before Start has sealed the router
    MaxRestarts  \* bound on the restarts of a behaviour

\* One call of a service's Init.
Registrations ==
    [kind : {"register", "use", "handle", "group", "notfound", "subscribe"},
     name : Middlewares \cup Events \cup {"none"},
     handles : Seq([route : Routes, mws : SUBSET Middlewares])]
Entry(s, k) == Script[s][k]
Entries(s) == 1..Len(Script[s])
\* What service s registers by its k-th call: middleware m, route r, a handler of
\* event e.
Names(s, k, m) == Entry(s, k).kind = "register" /\ Entry(s, k).name = m
Serves(s, k, r) == Entry(s, k).kind \in {"handle", "group"} /\ r \in RoutesOf(Entry(s, k))
Hears(s, k, e) == Entry(s, k).kind = "subscribe" /\ Entry(s, k).name = e

\* buildMiddleware panics on a name that nobody has registered: an App that
\* guards a route with one does not start.
GuardNames(op) == UNION {h.mws : h \in SetOf(op.handles)}
NamesAreRegistered ==
    \A s \in Services : \A k \in Entries(s) : \A m \in GuardNames(Entry(s, k)) :
        \E t \in Services : \E i \in Entries(t) : Names(t, i, m)

ASSUME KillSwitchAssumption ==
    /\ Order \in Seq(Services) /\ SetOf(Order) = Services /\ Services # {}
    /\ \A i, j \in 1..Len(Order) : Order[i] = Order[j] => i = j
    /\ NoOne \notin Services /\ NoOne \notin Admins
    /\ Owners = Services \cup {Nobody} /\ Nobody \notin Services
    /\ Emitters = Admins /\ {"closed", "initialized"} \subseteq Events
    /\ Starter \notin Admins
    /\ \A s \in Services : Script[s] \in Seq(Registrations)
    /\ \A s \in Services : \A k \in Entries(s) :
          /\ Entry(s, k).kind \in {"register", "use"} => Entry(s, k).name \in Middlewares
          /\ Entry(s, k).kind = "subscribe" => Entry(s, k).name \in Events
          /\ Entry(s, k).kind = "handle" => Len(Entry(s, k).handles) = 1
    /\ NamesAreRegistered
    /\ MaxRestarts \in Nat /\ EarlyKill \in BOOLEAN

VARIABLES
    mu,      \* the admin that holds w.mu, or NoOne
    active,  \* w.activeServices
    closed,  \* services torn down by CloseService, until a restart runs Init
    pc, job, \* where each goroutine is, and the service it works on
    step,    \* its position in the script, or the starter's in Order
    restarts

adminVars == <<mu, active, closed, pc, job, step, restarts>>
vars == <<routerVars, busVars, adminVars>>

Procs == Admins \cup {Starter}
Goto(p, label) == pc' = [pc EXCEPT ![p] = label]

Init ==
    /\ RouterInit
    /\ subscribers = [e \in Events |-> [NoneOf EXCEPT ![Nobody] = 1]]
    /\ emitting = [p \in Emitters |-> Idle]
    /\ mu = NoOne /\ active = {} /\ closed = {} /\ restarts = 0
    /\ pc = [p \in Procs |-> IF p = Starter THEN "init" ELSE "idle"]
    /\ job = [p \in Procs |-> IF p = Starter THEN Order[1] ELSE NoOne]
    /\ step = [p \in Procs |-> 1]

(***************************************************************************)
(* One registration of an Init, on the starter or on a restarting admin.   *)
(***************************************************************************)
Panics(r) ==
    \/ r.kind = "handle" /\ ~Validates(r.handles[1].mws)
    \/ r.kind = "use" /\ ~Validates({r.name})
    \/ r.kind = "notfound" /\ ~AcceptsNotFound

Perform(s, r) ==
    \/ r.kind = "register" /\ Register(s, r.name) /\ UNCHANGED busVars
    \/ r.kind = "use" /\ Use(r.name) /\ UNCHANGED busVars
    \/ r.kind = "handle" /\ Handle(s, r.handles[1]) /\ UNCHANGED busVars
    \/ r.kind = "group" /\ Group(s, r.handles) /\ UNCHANGED busVars
    \/ r.kind = "notfound" /\ NotFound(s) /\ UNCHANGED busVars
    \/ r.kind = "subscribe" /\ Subscribe(s, r.name) /\ UNCHANGED routerVars

InitStep(p) ==
    /\ pc[p] = "init" /\ step[p] <= Len(Script[job[p]])
    /\ Perform(job[p], Script[job[p]][step[p]])
    /\ step' = [step EXCEPT ![p] = @ + 1]
    /\ UNCHANGED <<mu, active, closed, pc, job, restarts>>

(***************************************************************************)
(* Start                                                                   *)
(***************************************************************************)
Position(s) == CHOOSE i \in 1..Len(Order) : Order[i] = s
NextService ==
    LET i == Position(job[Starter]) IN
    /\ pc[Starter] = "init" /\ step[Starter] > Len(Script[job[Starter]])
    /\ IF i < Len(Order)
       THEN /\ job' = [job EXCEPT ![Starter] = Order[i + 1]]
            /\ UNCHANGED pc
       ELSE /\ Goto(Starter, "collect")
            /\ UNCHANGED job
    /\ step' = [step EXCEPT ![Starter] = 1]
    /\ UNCHANGED <<routerVars, busVars, mu, active, closed, restarts>>

\* initServices tracks the services, each under w.mu.
Collect ==
    /\ pc[Starter] = "collect" /\ step[Starter] <= Len(Order) /\ mu = NoOne
    /\ active' = active \cup {Order[step[Starter]]}
    /\ step' = [step EXCEPT ![Starter] = @ + 1]
    /\ UNCHANGED <<routerVars, busVars, mu, closed, pc, job, restarts>>

\* The App's postBuildHook.
PostBuild ==
    /\ pc[Starter] = "collect" /\ step[Starter] > Len(Order)
    /\ Seal
    /\ Goto(Starter, "started")
    /\ UNCHANGED <<busVars, mu, active, closed, job, step, restarts>>

(***************************************************************************)
(* CloseService                                                            *)
(***************************************************************************)
MayAct(p) == pc[p] = "idle" /\ mu = NoOne /\ (EarlyKill \/ sealed)

CloseService(p, s) ==
    /\ MayAct(p) /\ s \in active
    /\ mu' = p
    /\ job' = [job EXCEPT ![p] = s]
    /\ RemoveByService(s)
    /\ closed' = closed \cup {s}
    /\ Goto(p, "removed")
    /\ UNCHANGED <<busVars, active, step, restarts>>

RemoveEvents(p) ==
    /\ pc[p] = "removed"
    /\ RemoveSubscriptions(job[p])
    /\ Goto(p, "closing")
    /\ UNCHANGED <<routerVars, mu, active, closed, job, step, restarts>>

\* Close returns, the service is dropped and w.mu unlocked.
Closed(p) ==
    /\ pc[p] = "closing"
    /\ active' = active \ {job[p]}
    /\ mu' = NoOne
    /\ Goto(p, "notify_closed")
    /\ UNCHANGED <<routerVars, busVars, closed, job, step, restarts>>

(***************************************************************************)
(* RestartService                                                          *)
(***************************************************************************)
RestartService(p, s) ==
    /\ MayAct(p) /\ sealed /\ s \in Services \ active /\ restarts < MaxRestarts
    /\ mu' = p
    /\ job' = [job EXCEPT ![p] = s]
    /\ step' = [step EXCEPT ![p] = 1]
    /\ restarts' = restarts + 1
    /\ closed' = closed \ {s}
    /\ Goto(p, "init")
    /\ UNCHANGED <<routerVars, busVars, active>>

Restarted(p) ==
    /\ p \in Admins /\ pc[p] = "init" /\ step[p] > Len(Script[job[p]])
    /\ active' = active \cup {job[p]}
    /\ mu' = NoOne
    /\ Goto(p, "notify_initialized")
    /\ UNCHANGED <<routerVars, busVars, closed, job, step, restarts>>

\* Init returns an error after it registered a part of the script.
RestartFails(p) ==
    /\ p \in Admins /\ pc[p] = "init" /\ job[p] \in MayFailInit
    /\ mu' = NoOne
    /\ closed' = closed \cup {job[p]}
    /\ Goto(p, "idle")
    /\ job' = [job EXCEPT ![p] = NoOne]
    /\ UNCHANGED <<routerVars, busVars, active, step, restarts>>

\* The router refuses a registration with a panic. RestartService has no
\* deferred unlock, so w.mu stays locked.
InitPanics(p) ==
    /\ p \in Admins /\ pc[p] = "init" /\ step[p] <= Len(Script[job[p]])
    /\ Panics(Script[job[p]][step[p]])
    /\ closed' = closed \cup {job[p]}
    /\ Goto(p, "idle")
    /\ job' = [job EXCEPT ![p] = NoOne]
    /\ UNCHANGED <<routerVars, busVars, mu, active, step, restarts>>

(***************************************************************************)
(* The system events, emitted without w.mu; the emitter waits.             *)
(***************************************************************************)
EventOf(label) == IF label = "notify_closed" THEN "closed" ELSE "initialized"

Notify(p) ==
    /\ pc[p] \in {"notify_closed", "notify_initialized"}
    /\ Emit(p, EventOf(pc[p]), job[p])
    /\ Goto(p, "wait")
    /\ UNCHANGED <<routerVars, mu, active, closed, job, step, restarts>>

Deliver(p) ==
    \E owner \in Owners :
        /\ Handled(p, owner)
        /\ UNCHANGED <<routerVars, mu, active, closed, pc, job, step, restarts>>

Done(p) ==
    /\ pc[p] = "wait" /\ Waited(p)
    /\ Goto(p, "idle")
    /\ job' = [job EXCEPT ![p] = NoOne]
    /\ UNCHANGED <<routerVars, mu, active, closed, step, restarts>>

Next ==
    \/ \E p \in Procs : InitStep(p)
    \/ NextService \/ Collect \/ PostBuild
    \/ \E p \in Admins :
          \/ \E s \in Services : CloseService(p, s) \/ RestartService(p, s)
          \/ RemoveEvents(p) \/ Closed(p)
          \/ Restarted(p) \/ RestartFails(p) \/ InitPanics(p)
          \/ Notify(p) \/ Deliver(p) \/ Done(p)

Spec == Init /\ [][Next]_vars

(***************************************************************************)
(* Properties                                                              *)
(***************************************************************************)
TypeOK ==
    /\ RouterTypeOK /\ BusTypeOK
    /\ mu \in Admins \cup {NoOne}
    /\ active \in SUBSET Services /\ closed \in SUBSET Services
    /\ pc \in [Procs -> {"init", "collect", "started", "idle", "removed", "closing",
                         "notify_closed", "notify_initialized", "wait"}]
    /\ job \in [Procs -> Services \cup {NoOne}]
    /\ step \in [Procs -> Nat \ {0}]
    /\ restarts \in 0..MaxRestarts

Settled == sealed /\ mu = NoOne
Scripted(s) == UNION {SetOf(r.handles) : r \in {x \in SetOf(Script[s]) : x.kind \in {"handle", "group"}}}

\* "After the teardown, every route the closed service owns answers 503",
\* although the operations that registered it are replayed on every rebuild.
ClosedRoutesUnavailable ==
    sealed => \A s \in closed : \A h \in Scripted(s) : served[h.route].code = 503

\* A route guarded by a closed service's middleware stops serving, whoever
\* owns it: "the middleware is disabled, never skipped, so a teardown can
\* never drop an authorization check and leave the route open".
GuardsHold ==
    \A r \in Routes : served[r].code = 200 =>
        \A m \in served[r].guards : registry[m] # NoOne /\ registry[m] \notin closed

\* An active service answers on each of its routes whose middleware belongs
\* to active services, after any number of teardowns and restarts.
ActiveRoutesServe ==
    Settled => \A s \in active : \A h \in Scripted(s) :
        (\A m \in h.mws \cup SetOf(globals) : registry[m] \in active) =>
            served[h.route].code = 200 /\ served[h.route].svc = s

\* Routes() lists every route of an active service once, however often the
\* operation that registered it was replayed, and none of a closed one.
RoutesListedOnce ==
    Settled => \A s \in Services, r \in Routes :
        routes[s][r] = IF s \in active /\ r \in {h.route : h \in Scripted(s)} THEN 1 ELSE 0

\* An active service holds each of its subscriptions once; a closed one none.
SubscribedOnce ==
    Settled => \A s \in Services, e \in Events :
        subscribers[e][s] =
            IF s \in active
            THEN Cardinality({k \in Entries(s) : Hears(s, k, e)})
            ELSE 0

\* No teardown or restart leaves a route open that it should not: neither one
\* of a closed service nor one behind a closed service's middleware.
NothingIsExposed == ClosedRoutesUnavailable /\ GuardsHold

\* The router's and the bus's books say of each service what it registered
\* in its present life, once.
BooksHold == TypeOK /\ ServedIsCurrent /\ RoutesListedOnce /\ SubscribedOnce
=============================================================================
