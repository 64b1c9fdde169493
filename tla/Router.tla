------------------------------- MODULE Router -------------------------------
(***************************************************************************)
(* The router (router.go): registrations are recorded as operations, every *)
(* change after Seal rebuilds the routing tree from the record and swaps   *)
(* it in, and RemoveByService turns what a service registered into 503s.   *)
(*                                                                         *)
(* Every method runs under r.mu, so each is one atomic action here, the    *)
(* rebuild included. A route stands for a method and full path, with its   *)
(* implicit HEAD; a handler is known by the service that owns it. Chi is   *)
(* modelled by what buildMux relies on: the last registration of a route   *)
(* wins, and middleware runs before the handler.                           *)
(***************************************************************************)
EXTENDS Integers, Sequences, FiniteSets

CONSTANTS
    Services,
    Routes,
    Middlewares,  \* names of middleware
    NoOne

VARIABLES
    ops,        \* r.pendingOps: [svc, group, handles]
    bookedOps,  \* r.bookedOps
    globals,    \* r.pendingMW: the names given to Use
    registry,   \* r.registry: the owner of each named middleware, or NoOne
    retired,    \* r.retired, likewise
    routes,     \* r.routes: how often each route is booked, per service
    removed,    \* r.removed: the routes torn down, per service
    sealed,     \* r.sealed
    notFoundHandlerService, \* the service that set the 404 handler, or NoOne
    served      \* r.served: what the published tree answers on each route

routerVars == <<ops, bookedOps, globals, registry, retired, routes, removed, sealed,
                notFoundHandlerService, served>>

Unavailable == [code |-> 503, svc |-> NoOne, guards |-> {}]
NotRouted == [code |-> 404, svc |-> NoOne, guards |-> {}]
Open(svc, guards) == [code |-> 200, svc |-> svc, guards |-> guards]
SetOf(s) == {s[i] : i \in 1..Len(s)}
RoutesOf(op) == {h.route : h \in SetOf(op.handles)}

RouterInit ==
    /\ ops = << >> /\ bookedOps = 0 /\ globals = << >>
    /\ registry = [m \in Middlewares |-> NoOne]
    /\ retired = [m \in Middlewares |-> NoOne]
    /\ routes = [s \in Services |-> [r \in Routes |-> 0]]
    /\ removed = [s \in Services |-> {}]
    /\ sealed = FALSE
    /\ notFoundHandlerService = NoOne
    /\ served = [r \in Routes |-> NotRouted]

(***************************************************************************)
(* The tree that buildMux makes of recorded operations o, global           *)
(* middleware g, registry reg and removed routes rm.                       *)
(***************************************************************************)
\* buildMiddleware finds m in the registry. Otherwise it is retired and
\* answers 503. Fault: a retired middleware is left out of the chain.
Passes_skipped(reg, m) == TRUE
Passes(reg, m) == reg[m] # NoOne

\* The overlay covers every removed route, whoever registers it now.
Overlaid(rm, r) == \E s \in Services : r \in rm[s]

LastOp(o, r) ==
    CHOOSE i \in 1..Len(o) : r \in RoutesOf(o[i]) /\ \A k \in i + 1..Len(o) : r \notin RoutesOf(o[k])
Guards(op, r) == UNION {h.mws : h \in {x \in SetOf(op.handles) : x.route = r}}

Tree(o, g, reg, rm) ==
    [r \in Routes |->
        IF Overlaid(rm, r) THEN Unavailable
        ELSE IF \A i \in 1..Len(o) : r \notin RoutesOf(o[i]) THEN NotRouted
        ELSE LET op == o[LastOp(o, r)]
                 guards == SetOf(g) \cup Guards(op, r)
             IN IF \A m \in guards : Passes(reg, m) THEN Open(op.svc, guards)
                ELSE Unavailable]

\* The positions in o of the Group and Route operations a build runs for the
\* first time. Those already built are replays.
FirstBuilt(o) == {i \in bookedOps + 1..Len(o) : o[i].group}

\* recordBookkeeping for the handles of each operation of o at a position in
\* new: the route is booked, and its service's removed routes are forgotten.
Booked(rt, o, new) ==
    [s \in Services |-> [r \in Routes |->
        rt[s][r] + Cardinality({i \in new : o[i].svc = s /\ r \in RoutesOf(o[i])})]]
\* Fault: the 503 overlay outlives a registration.
Forgotten_kept(rm, o, new) == rm
Forgotten(rm, o, new) ==
    [s \in Services |->
        IF \E i \in new : o[i].svc = s /\ o[i].handles # << >> THEN {} ELSE rm[s]]

\* How many operations are booked after a build.
BookedAll(o) == Len(o)

\* publish, when the router is sealed; rt and rm are the books before it.
Publish(o, g, reg, rt, rm) ==
    IF sealed' THEN
        LET new == FirstBuilt(o) rm2 == Forgotten(rm, o, new) IN
        /\ routes' = Booked(rt, o, new) /\ removed' = rm2
        /\ bookedOps' = BookedAll(o)
        /\ served' = Tree(o, g, reg, rm2)
    ELSE routes' = rt /\ removed' = rm /\ UNCHANGED <<bookedOps, served>>

(***************************************************************************)
(* The methods                                                             *)
(***************************************************************************)
\* A retired name is registered again.
Reclaims(m) == retired[m] # NoOne
\* Register: a retired name is reclaimed, and only that rebuilds the tree.
Register(s, m) ==
    /\ registry' = [registry EXCEPT ![m] = s]
    /\ retired' = [retired EXCEPT ![m] = NoOne]
    /\ UNCHANGED <<ops, globals, sealed, notFoundHandlerService>>
    /\ IF Reclaims(m) THEN Publish(ops, globals, registry', routes, removed)
       ELSE UNCHANGED <<bookedOps, routes, removed, served>>

\* Use, Handle: validateMiddleware panics on a name that is not registered,
\* a retired one included.
Validates(mws) == \A m \in mws : registry[m] # NoOne
Use(m) ==
    /\ Validates({m})
    /\ globals' = Append(globals, m)
    /\ UNCHANGED <<ops, registry, retired, sealed, notFoundHandlerService>>
    /\ Publish(ops, globals', registry, routes, removed)

\* Handle on the top-level router: booked at once.
Handle(s, h) ==
    /\ Validates(h.mws)
    /\ ops' = Append(ops, [svc |-> s, group |-> FALSE, handles |-> <<h>>])
    /\ UNCHANGED <<globals, registry, retired, sealed, notFoundHandlerService>>
    /\ Publish(ops', globals, registry,
               Booked(routes, ops', {Len(ops')}), Forgotten(removed, ops', {Len(ops')}))

\* Group and Route: the callback's handles are booked on the first build.
Group(s, hs) ==
    LET op == [svc |-> s, group |-> TRUE, handles |-> hs] IN
    /\ sealed => \A h \in SetOf(hs), m \in Middlewares :
          m \in h.mws => registry[m] # NoOne \/ retired[m] # NoOne
    /\ ops' = Append(ops, op)
    /\ UNCHANGED <<globals, registry, retired, sealed, notFoundHandlerService>>
    /\ Publish(ops', globals, registry, routes, removed)

\* NotFound panics if the router has a 404 handler, whoever set it, and
\* RemoveByService leaves it in place.
AcceptsNotFound == notFoundHandlerService = NoOne
NotFound(s) ==
    /\ AcceptsNotFound
    /\ notFoundHandlerService' = s
    /\ UNCHANGED <<ops, globals, registry, retired, sealed>>
    /\ Publish(ops, globals, registry, routes, removed)

Seal ==
    /\ ~sealed
    /\ sealed' = TRUE
    /\ UNCHANGED <<ops, globals, registry, retired, notFoundHandlerService>>
    /\ Publish(ops, globals, registry, routes, removed)

\* The routes of s RemoveByService overlays.
TornDown(s) ==
    IF \E r \in Routes : routes[s][r] > 0 THEN {r \in Routes : routes[s][r] > 0} ELSE removed[s]

RemoveByService(s) ==
    LET owned == {m \in Middlewares : registry[m] = s} IN
    /\ registry' = [m \in Middlewares |-> IF m \in owned THEN NoOne ELSE registry[m]]
    /\ retired' = [m \in Middlewares |-> IF m \in owned THEN s ELSE retired[m]]
    /\ UNCHANGED <<ops, globals, sealed, notFoundHandlerService>>
    /\ Publish(ops, globals, registry',
               [routes EXCEPT ![s] = [r \in Routes |-> 0]],
               [removed EXCEPT ![s] = TornDown(s)])

(***************************************************************************)
(* Properties of the router alone                                          *)
(***************************************************************************)
RouterTypeOK ==
    /\ ops \in Seq([svc : Services, group : BOOLEAN,
                    handles : Seq([route : Routes, mws : SUBSET Middlewares])])
    /\ bookedOps \in 0..Len(ops)
    /\ globals \in Seq(Middlewares)
    /\ registry \in [Middlewares -> Services \cup {NoOne}]
    /\ retired \in [Middlewares -> Services \cup {NoOne}]
    /\ routes \in [Services -> [Routes -> Nat]]
    /\ removed \in [Services -> SUBSET Routes]
    /\ sealed \in BOOLEAN
    /\ notFoundHandlerService \in Services \cup {NoOne}
    /\ served \in [Routes -> [code : {200, 404, 503}, svc : Services \cup {NoOne},
                              guards : SUBSET Middlewares]]

\* "Once sealed, structural changes rebuild the tree and swap it in": what is
\* served is what a build of the present record would give, so no method
\* forgets to publish a change that matters.
ServedIsCurrent == sealed => served = Tree(ops, globals, registry, removed)
=============================================================================
