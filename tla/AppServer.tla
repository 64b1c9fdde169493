----------------------------- MODULE AppServer -----------------------------
(***************************************************************************)
(* The App around the Worker (app.go): the *http.Server that Server builds *)
(* once, what Start's bindConfig writes onto it, Serve, Stop, and Run with *)
(* its server goroutine, and Worker.Start's ready hooks (worker.go). What  *)
(* Start and Shutdown do to each service is module Lifecycle; here the     *)
(* services are open or closed together.                                   *)
(*                                                                         *)
(* A Config is a number: 0 for DefaultConfig, n for what the n-th Bind     *)
(* writes; a server field holds the Config it was copied from or Chosen,   *)
(* a value of its own that a caller set it to.                             *)
(***************************************************************************)
EXTENDS Integers, FiniteSets

CONSTANTS
    Fields,         \* the server fields of serverFields
    AppRequests,    \* requests clients may send
    Hooks,          \* functions other goroutines pass to ReadyFunc
    MaxStarts       \* calls of Start, Run's included

Chosen == -1
NoServer == [f \in {} |-> 0]

ASSUME AppServerAssumption ==
    /\ Fields # {} /\ MaxStarts \in Nat \ {0}

Starting == {"main", "again"}   \* Run's Start, and a later one
Stopping == {"main", "stopper"} \* Run's Stop, and one from a handler

VARIABLES
    cfg,         \* a.cfg
    server,      \* the fields of a.srv, NoServer before Server is called
    srvCopied,   \* a.srvCopied
    srvSettled,  \* a.srvSettled
    handed,      \* fields the caller has changed (history)
    services,    \* "none", "open", "closed": the Worker's services
    appErr,      \* w.startErr # nil
    readyFuncs, readyRan, hooksRun, \* w.readyFuncs, w.readyRan, hooks called
    snapshot,    \* start's clone of readyFuncs
    listening,   \* ListenAndServe accepts connections
    inShutdown,  \* http.Server's flag: Shutdown was called
    inFlight,    \* requests being handled
    overran,     \* a Shutdown of the server ended before they did
    closedOnce,  \* w.shutdownOnce: "idle", "running", "done"
    signalled,   \* a signal is in Run's quit channel
    srvErr,      \* Run's channel: "empty", "error", "closed"
    starts,      \* calls of Start so far
    at           \* where each goroutine is

configVars == <<cfg, server, srvCopied, srvSettled, handed>>
hookVars == <<readyFuncs, readyRan, hooksRun, snapshot>>
serveVars == <<listening, inShutdown, inFlight, overran, srvErr>>
appVars == <<cfg, server, srvCopied, srvSettled, handed, services, appErr,
             readyFuncs, readyRan, hooksRun, snapshot, listening, inShutdown,
             inFlight, overran, closedOnce, signalled, srvErr, starts, at>>

AppInit ==
    /\ cfg = 0 /\ server = NoServer /\ srvCopied = NoServer /\ srvSettled = FALSE
    /\ handed = {}
    /\ services = "none" /\ appErr = FALSE
    /\ readyFuncs = {} /\ readyRan = FALSE /\ hooksRun = {} /\ snapshot = {}
    /\ listening = FALSE /\ inShutdown = FALSE /\ inFlight = {} /\ overran = FALSE
    /\ closedOnce = "idle" /\ signalled = FALSE /\ srvErr = "empty" /\ starts = 0
    /\ at = [p \in Starting \cup Stopping \cup {"serve"} |-> IF p = "main" THEN "begin" ELSE "idle"]

Go(p, label) == at' = [at EXCEPT ![p] = label]

InStart(p) == at[p] \in {"init", "migrate", "hooks", "ready", "bind", "apply", "event"}
Begun == at["serve"] \in {"listen", "serving", "returned"}

\* serverFieldsOf.
serverFieldsOf(c) == [f \in Fields |-> c]

\* Server, inside srvOnce: builds the server from the Config as it stands.
Server ==
    /\ server' = IF server = NoServer THEN serverFieldsOf(cfg) ELSE server
    /\ srvCopied' = IF server = NoServer THEN serverFieldsOf(cfg) ELSE srvCopied

\* A field applyBoundServer may write: the caller has left it as it was.
Untouched(f) == server[f] = srvCopied[f]

\* applyBoundServer has nothing to do, or may not.
Final == server = NoServer \/ srvSettled

\* applyBoundServer.
applyBoundServer ==
    /\ srvSettled' = (srvSettled \/ ~Final)
    /\ server' = IF Final THEN server
                 ELSE [f \in Fields |-> IF Untouched(f) THEN cfg ELSE server[f]]
    /\ srvCopied' = IF Final THEN srvCopied ELSE serverFieldsOf(cfg)

(***************************************************************************)
(* Start                                                                   *)
(***************************************************************************)
\* Run's Start, or a later one, alone: two Binds of one Config at a time are
\* the caller's data race, as building the server beside one is.
StartApp(p) ==
    /\ \/ p = "main" /\ at[p] = "begin"
       \/ p = "again" /\ at[p] = "idle" /\ server # NoServer /\ at["main"] # "begin"
    /\ \A q \in Starting : ~InStart(q)
    /\ starts < MaxStarts
    /\ starts' = starts + 1
    /\ Go(p, CASE ~appErr -> "init" [] p = "main" -> "returned" [] OTHER -> "idle")
    /\ UNCHANGED <<configVars, hookVars, serveVars, services, appErr, closedOnce,
                   signalled>>

\* A service's Init calls Server and changes some of its fields.
InitUsesServer(p) ==
    /\ at[p] = "init" /\ services = "none"
    /\ Server
    /\ UNCHANGED <<cfg, srvSettled, handed, hookVars, serveVars, services, appErr,
                   closedOnce, signalled, starts, at>>

InitSetsField(p, f) ==
    /\ at[p] = "init" /\ services = "none" /\ server # NoServer
    /\ server' = [server EXCEPT ![f] = Chosen]
    /\ handed' = handed \cup {f}
    /\ UNCHANGED <<cfg, srvCopied, srvSettled, hookVars, serveVars, services, appErr,
                   closedOnce, signalled, starts, at>>

\* InitServices, once for all Starts.
AppInitServices(p) ==
    /\ at[p] = "init"
    /\ services' = IF services = "none" THEN "open" ELSE services
    /\ Go(p, "migrate")
    /\ UNCHANGED <<configVars, hookVars, serveVars, appErr, closedOnce, signalled, starts>>

\* RunPending succeeds.
AppMigrates(p) ==
    /\ at[p] = "migrate"
    /\ Go(p, "hooks")
    /\ UNCHANGED <<configVars, hookVars, serveVars, services, appErr, closedOnce,
                   signalled, starts>>

\* The hooks start will run, read under w.mu together with setting readyRan.
TakeHooks(p) ==
    /\ at[p] = "hooks"
    /\ snapshot' = readyFuncs /\ readyRan' = TRUE
    /\ Go(p, "ready")
    /\ UNCHANGED <<configVars, readyFuncs, hooksRun, serveVars, services, appErr,
                   closedOnce, signalled, starts>>

RunHook(p, h) ==
    /\ at[p] = "ready" /\ h \in snapshot
    /\ snapshot' = snapshot \ {h} /\ hooksRun' = hooksRun \cup {h}
    /\ UNCHANGED <<configVars, readyFuncs, readyRan, serveVars, services, appErr,
                   closedOnce, signalled, starts, at>>

HooksDone(p) ==
    /\ at[p] = "ready" /\ snapshot = {}
    /\ Go(p, "bind")
    /\ UNCHANGED <<configVars, hookVars, serveVars, services, appErr, closedOnce,
                   signalled, starts>>

\* bindConfig: Bind, then applyBoundServer, then AppConfigUpdated.
BindConfig(p) ==
    /\ at[p] = "bind"
    /\ cfg' = starts
    /\ Go(p, "apply")
    /\ UNCHANGED <<server, srvCopied, srvSettled, handed, hookVars, serveVars, services,
                   appErr, closedOnce, signalled, starts>>

ApplyBound(p) ==
    /\ at[p] = "apply"
    /\ applyBoundServer
    /\ Go(p, "event")
    /\ UNCHANGED <<cfg, handed, hookVars, serveVars, services, appErr, closedOnce,
                   signalled, starts>>

\* A subscriber of AppConfigUpdated sets a field, before the server serves.
SubscriberSets(p, f) ==
    /\ at[p] = "event" /\ server # NoServer /\ at["serve"] = "idle"
    /\ server' = [server EXCEPT ![f] = Chosen]
    /\ handed' = handed \cup {f}
    /\ UNCHANGED <<cfg, srvCopied, srvSettled, hookVars, serveVars, services, appErr,
                   closedOnce, signalled, starts, at>>

\* Start returns nil; Run then starts the goroutine that serves.
AppStarted(p) ==
    /\ at[p] = "event"
    /\ at' = IF p = "main" THEN [at EXCEPT !["main"] = "select", !["serve"] = "serve"]
             ELSE [at EXCEPT ![p] = "idle"]
    /\ UNCHANGED <<configVars, hookVars, serveVars, services, appErr, closedOnce,
                   signalled, starts>>

\* Init, the router hook, a migration, a hook or Bind fails: closeActive and
\* failStart.
AppStartFails(p) ==
    /\ at[p] \in {"migrate", "ready", "bind"} \/ (at[p] = "init" /\ services = "none")
    /\ services' = "closed" /\ appErr' = TRUE
    /\ Go(p, IF p = "main" THEN "returned" ELSE "idle")
    /\ UNCHANGED <<configVars, hookVars, serveVars, closedOnce, signalled, starts>>

\* ReadyFunc panics, under w.mu.
TooLateForHook == readyRan

ReadyFunc(h) ==
    /\ h \notin readyFuncs /\ ~TooLateForHook
    /\ readyFuncs' = readyFuncs \cup {h}
    /\ UNCHANGED <<configVars, readyRan, hooksRun, snapshot, serveVars, services, appErr,
                   closedOnce, signalled, starts, at>>

(***************************************************************************)
(* Serve, and the requests net/http runs                                   *)
(***************************************************************************)
Serve ==
    /\ at["serve"] = "serve"
    /\ Server
    /\ Go("serve", "settle")
    /\ UNCHANGED <<cfg, srvSettled, handed, hookVars, serveVars, services, appErr,
                   closedOnce, signalled, starts>>

Settle ==
    /\ at["serve"] = "settle"
    /\ srvSettled' = TRUE
    /\ Go("serve", "listen")
    /\ UNCHANGED <<cfg, server, srvCopied, handed, hookVars, serveVars, services, appErr,
                   closedOnce, signalled, starts>>

\* ListenAndServe: ErrServerClosed at once after Shutdown, or it listens, or
\* it cannot.
Listen ==
    /\ at["serve"] = "listen"
    /\ \/ ~inShutdown /\ listening' = TRUE /\ Go("serve", "serving") /\ UNCHANGED srvErr
       \/ ~inShutdown /\ srvErr' = "error" /\ Go("serve", "returned") /\ UNCHANGED listening
       \/ inShutdown /\ srvErr' = "closed" /\ Go("serve", "returned") /\ UNCHANGED listening
    /\ UNCHANGED <<configVars, hookVars, inShutdown, inFlight, overran, services, appErr,
                   closedOnce, signalled, starts>>

\* Serve returns: nil after Shutdown, an error when the listener fails.
ServeEnds ==
    /\ at["serve"] = "serving"
    /\ srvErr' = IF inShutdown THEN "closed" ELSE "error"
    /\ listening' = FALSE
    /\ Go("serve", "returned")
    /\ UNCHANGED <<configVars, hookVars, inShutdown, inFlight, overran, services, appErr,
                   closedOnce, signalled, starts>>

Arrive(r) ==
    /\ listening /\ r \notin inFlight
    /\ inFlight' = inFlight \cup {r}
    /\ UNCHANGED <<configVars, hookVars, listening, inShutdown, overran, srvErr, services,
                   appErr, closedOnce, signalled, starts, at>>

Respond(r) ==
    /\ r \in inFlight
    /\ inFlight' = inFlight \ {r}
    /\ UNCHANGED <<configVars, hookVars, listening, inShutdown, overran, srvErr, services,
                   appErr, closedOnce, signalled, starts, at>>

(***************************************************************************)
(* Stop and Run                                                            *)
(***************************************************************************)
Signal ==
    /\ at["main"] = "select" /\ ~signalled
    /\ signalled' = TRUE
    /\ UNCHANGED <<configVars, hookVars, serveVars, services, appErr, closedOnce, starts, at>>

\* Run's select: the signal, or what Serve left in its channel.
RunSelects ==
    /\ at["main"] = "select" /\ (signalled \/ srvErr # "empty")
    /\ Go("main", "stop")
    /\ UNCHANGED <<configVars, hookVars, serveVars, services, appErr, closedOnce,
                   signalled, starts>>

StopCalled ==
    /\ at["stopper"] = "idle" /\ at["main"] \in {"select", "stop"}
    /\ Go("stopper", "stop")
    /\ UNCHANGED <<configVars, hookVars, serveVars, services, appErr, closedOnce,
                   signalled, starts>>

\* Server, and the event that the shutdown begins.
Stop(p) ==
    /\ at[p] = "stop"
    /\ Server
    /\ Go(p, "shutdown")
    /\ UNCHANGED <<cfg, srvSettled, handed, hookVars, serveVars, services, appErr,
                   closedOnce, signalled, starts>>

\* http.Server.Shutdown: no more connections, then wait for those there are.
ShutdownServer(p) ==
    /\ at[p] = "shutdown"
    /\ inShutdown' = TRUE /\ listening' = FALSE
    /\ Go(p, "drain")
    /\ UNCHANGED <<configVars, hookVars, inFlight, overran, srvErr, services, appErr,
                   closedOnce, signalled, starts>>

\* They are done, or ShutdownTimeout passes; the Worker is next either way.
\* Faults: the wait is for the listener alone; it has no timeout.
Drained_listener == ~listening
Drained == inFlight = {}
TimesOut_never == FALSE
TimesOut == TRUE

DrainEnds(p) ==
    /\ at[p] = "drain"
    /\ \/ Drained /\ UNCHANGED overran
       \/ TimesOut /\ overran' = TRUE
    /\ Go(p, "worker")
    /\ UNCHANGED <<configVars, hookVars, listening, inShutdown, inFlight, srvErr, services,
                   appErr, closedOnce, signalled, starts>>

\* Worker.Shutdown: the first caller closes the services, the others wait.
ShutdownWorker(p) ==
    /\ at[p] = "worker"
    /\ \/ /\ closedOnce = "idle" /\ closedOnce' = "running"
          /\ Go(p, "closing")
       \/ /\ closedOnce = "done" /\ UNCHANGED closedOnce
          /\ Go(p, "returned")
    /\ UNCHANGED <<configVars, hookVars, serveVars, services, appErr, signalled, starts>>

WorkerClosed(p) ==
    /\ at[p] = "closing"
    /\ services' = "closed" /\ closedOnce' = "done"
    /\ Go(p, "returned")
    /\ UNCHANGED <<configVars, hookVars, serveVars, appErr, signalled, starts>>

StartStep(p) ==
    \/ AppInitServices(p) \/ AppMigrates(p) \/ TakeHooks(p) \/ HooksDone(p)
    \/ BindConfig(p) \/ ApplyBound(p) \/ AppStarted(p) \/ AppStartFails(p)
    \/ \E h \in Hooks : RunHook(p, h)
    \/ InitUsesServer(p)
    \/ \E f \in Fields : InitSetsField(p, f) \/ SubscriberSets(p, f)
StopStep(p) ==
    Stop(p) \/ ShutdownServer(p) \/ DrainEnds(p) \/ ShutdownWorker(p) \/ WorkerClosed(p)

AppNext ==
    \/ \E p \in Starting : StartApp(p) \/ StartStep(p)
    \/ \E h \in Hooks : ReadyFunc(h)
    \/ Serve \/ Settle \/ Listen \/ ServeEnds
    \/ \E r \in AppRequests : Arrive(r) \/ Respond(r)
    \/ Signal \/ RunSelects \/ StopCalled
    \/ \E p \in Stopping : StopStep(p)

\* Goroutines go on; ServeEnds only answers Shutdown for sure.
AppFairness ==
    /\ WF_appVars(RunSelects)
    /\ \A p \in Stopping : WF_appVars(StopStep(p))

AppSpec == AppInit /\ [][AppNext]_appVars /\ AppFairness

(***************************************************************************)
(* Properties                                                              *)
(***************************************************************************)
\* Every field of the server that serves is what the caller set it to, or,
\* with the caller's hands off it, the bound value: of one Bind for them all.
ServedAsConfigured ==
    Begun => \E c \in 1..MaxStarts : \A f \in Fields :
                 server[f] = IF f \in handed THEN Chosen ELSE c

\* ReadyFunc: "it is never silently dropped". A hook registered without a
\* panic has run when Run gets to serve.
HooksAreRun == at["main"] \in {"select", "stop"} => readyFuncs \subseteq hooksRun

\* Stop closes the services under a request only when the request outlived
\* ShutdownTimeout. (A later Start that fails closes them too.)
ServicesOutliveRequests ==
    services = "closed" /\ ~appErr /\ inFlight # {} => overran

\* What Run serves with, before what, and until when.
ServerHolds == ServedAsConfigured /\ HooksAreRun /\ ServicesOutliveRequests

\* Run returns after a signal and after a failure of the server, whatever
\* requests still run and whoever else calls Stop.
RunReturns == signalled \/ srvErr # "empty" ~> at["main"] = "returned"
=============================================================================
