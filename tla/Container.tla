----------------------------- MODULE Container -----------------------------
(***************************************************************************)
(* The dependency-injection container (service_registry.go, di_guard.go):  *)
(* goroutines that resolve services, the singletons under construction,    *)
(* the goroutines waiting for another goroutine's build, and the detection *)
(* of cycles and of waits that would deadlock.                             *)
(*                                                                         *)
(* One action is one critical section of c.mu, or one step the goroutine   *)
(* takes without it (calling a constructor, closing a build's channel).    *)
(* c.stacks[gid] is only ever read and written by goroutine gid, so the    *)
(* push of enterBuild and the pop of leaveBuild are folded into the local  *)
(* steps around them.                                                      *)
(***************************************************************************)
EXTENDS Integers, Sequences, FiniteSets

CONSTANTS
    Goroutines,  \* goroutines that resolve services
    Types,       \* the reflect.Types that can be resolved
    Singletons, Transients, Scopeds, \* the registrations, by lifetime
    Provided,    \* instances registered before the first resolution, in order
    LateGiven,   \* types an instance may be registered for while others run
    Alias,       \* alias interface -> target type
    Args,        \* Args[t]: constructor parameters of t, in order
    Calls,       \* Calls[t]: what t's constructor or Init resolves by itself
    MayFail,     \* types whose constructor or Init may return an error
    MayPanic,    \* types whose constructor or Init may panic
    MaxDepth,    \* maxResolveDepth (256 in the code)
    NoOne        \* no goroutine

SeqRange(s) == {s[i] : i \in 1..Len(s)}

ASSUME ConstantsAssumption ==
    /\ Singletons \subseteq Types /\ Transients \subseteq Types
    /\ Scopeds \subseteq Types
    /\ Singletons \cap Transients = {} /\ Singletons \cap Scopeds = {}
    /\ Transients \cap Scopeds = {}
    /\ Provided \in Seq(Types)
    /\ LateGiven \subseteq Types
    /\ \A a \in DOMAIN Alias : Alias[a] \in Types
    /\ \A t \in Types : /\ Args[t] \in Seq(Types \cup DOMAIN Alias)
                        /\ Calls[t] \in Seq(Types \cup DOMAIN Alias)
    /\ MayFail \subseteq Types /\ MayPanic \subseteq Types
    /\ MaxDepth \in Nat \ {0}
    /\ {NoOne, "container"} \cap Goroutines = {}

VARIABLES
    instances,  \* c.instances: the cached types in the order they appeared
    given,      \* types whose cached value was registered, not constructed
    builds,     \* c.builds: the goroutine building each singleton, or NoOne
    waiting,    \* c.waiting: the build each goroutine waits for, or NoBuild
    stacks,     \* c.stacks, each frame with the constructor's progress
    scope,      \* the request scope of each goroutine: s.order
    live,       \* instances of Service initialized and not yet closed
    pc, asked, ret  \* where each goroutine is, what it asked for, its answer

vars == <<instances, given, builds, waiting, stacks, scope, live, pc, asked, ret>>

NoBuild == [type |-> NoOne, gid |-> NoOne]
NoAsk == [type |-> NoOne, via |-> "container"]
Container == "container"  \* the owner of singletons; a goroutine owns its scope
Resolvers == {"container", "scope"}
Names == Types \cup DOMAIN Alias
Frame == [type : Types, via : Resolvers, next : Nat \ {0}]
Owners == {Container} \cup Goroutines

\* A lookup of an alias is redirected to its target.
AliasTarget(n) == IF n \in DOMAIN Alias THEN Alias[n] ELSE n
Needs(t) == Args[t] \o Calls[t]
Top(g) == stacks[g][Len(stacks[g])]
Pop(s) == SubSeq(s, 1, Len(s) - 1)
\* c.stacks holds t for g; cycleIn reports it as a cycle.
OnStack(g, t) == \E i \in 1..Len(stacks[g]) : stacks[g][i].type = t
IsCached(t) == \E i \in 1..Len(instances) : instances[i] = t
InScope(g, t) == \E i \in 1..Len(scope[g]) : scope[g][i] = t

\* enterBuild looks for the type on the stack.
cycleIn(g, t) == OnStack(g, t)

\* c.builds[t] exists. Fault: resolveSingleton does not look for it.
InFlight_unseen(t) == FALSE
InFlight(t) == builds[t] # NoOne

\* delete(c.builds, t), whether the build succeeded or not.
BuildsWithout(t, r) == [builds EXCEPT ![t] = NoOne]

\* c.instances.Set: a new key goes last. Fault: it goes first.
WithInstance_first(t) == IF IsCached(t) THEN instances ELSE <<t>> \o instances
WithInstance(t) == IF IsCached(t) THEN instances ELSE Append(instances, t)

\* The instances of Service left open by a constructor and initService that
\* returned r: an Init that succeeds after its deadline is closed again.
\* Fault: it is not.
LiveAfter_late(o, t, r) == [live EXCEPT ![o][t] = @ + 1]
LiveAfter(o, t, r) ==
    IF r = "ok" /\ t \notin Transients THEN [live EXCEPT ![o][t] = @ + 1] ELSE live

\* The goroutines close(b.done) wakes. Fault: the channel is not closed.
Waking_none(t, g) == {}
Waking(t, g) ==
    {h \in Goroutines : pc[h] = "blocked" /\ waiting[h] = [type |-> t, gid |-> g]}

(***************************************************************************)
(* waitsOn: the goroutine b is, through a chain of waits each on the next  *)
(* one's build, waiting for g. The code walks the chain; reachability is   *)
(* written here as membership in every set that holds b and is closed      *)
(* under one more wait.                                                    *)
(***************************************************************************)
ClosedUnderWaits(S) ==
    \A h \in S : waiting[h] # NoBuild => waiting[h].gid \in S
\* Fault: no wait is refused.
waitsOn_none(b, g) == FALSE
waitsOn(b, g) ==
    \A S \in SUBSET Goroutines : b \in S /\ ClosedUnderWaits(S) => g \in S

\* waitsOn as di_guard.go writes it: at most len(c.waiting) + 1 steps from b.
Waiters == {h \in Goroutines : waiting[h] # NoBuild}
\* Fault: one step short.
waitsOnWalk_short(b, g) ==
    LET walk[n \in Nat] ==
            IF n = 0 THEN [h \in Goroutines |-> FALSE]
            ELSE [h \in Goroutines |->
                     h = g \/ (h \in Waiters /\ walk[n - 1][waiting[h].gid])]
    IN walk[Cardinality(Waiters)][b]
waitsOnWalk(b, g) ==
    LET walk[n \in Nat] ==
            IF n = 0 THEN [h \in Goroutines |-> FALSE]
            ELSE [h \in Goroutines |->
                     h = g \/ (h \in Waiters /\ walk[n - 1][waiting[h].gid])]
    IN walk[Cardinality(Waiters) + 1][b]

Init ==
    /\ instances = Provided
    /\ given = SeqRange(Provided)
    /\ builds = [t \in Types |-> NoOne]
    /\ waiting = [g \in Goroutines |-> NoBuild]
    /\ stacks = [g \in Goroutines |-> << >>]
    /\ scope = [g \in Goroutines |-> << >>]
    /\ live = [o \in Owners |-> [t \in Types |-> 0]]
    /\ pc = [g \in Goroutines |-> "idle"]
    /\ asked = [g \in Goroutines |-> NoAsk]
    /\ ret = [g \in Goroutines |-> "none"]

(***************************************************************************)
(* Steps                                                                   *)
(***************************************************************************)
Goto(g, label) == pc' = [pc EXCEPT ![g] = label]
Answer(g, r) == ret' = [ret EXCEPT ![g] = r] /\ Goto(g, "return")
Fails(r) == r # "ok"
LeaveWith(g, r) ==  \* leaveBuild, with invoke's result r
    /\ stacks' = [stacks EXCEPT ![g] = Pop(@)]
    /\ asked' = [asked EXCEPT ![g] = [type |-> Top(g).type, via |-> Top(g).via]]
    /\ ret' = [ret EXCEPT ![g] = r]
    /\ Goto(g, "built")
Advance(g) == stacks' = [stacks EXCEPT ![g][Len(stacks[g])].next = @ + 1]

\* Resolve, MustResolve, Scope.Resolve or one type of BuildAll's order.
Resolve(g, n, via) ==
    /\ pc[g] = "idle"
    /\ asked' = [asked EXCEPT ![g] = [type |-> AliasTarget(n), via |-> via]]
    /\ Goto(g, "lookup")
    /\ UNCHANGED <<instances, given, builds, waiting, stacks, scope, live, ret>>

\* resolveType: the scope's cache, then the container's, then the lifetime.
LookupHit(g) ==
    /\ pc[g] = "lookup"
    /\ \/ IsCached(asked[g].type)
       \/ asked[g].via = "scope" /\ InScope(g, asked[g].type)
    /\ Answer(g, "ok")
    /\ UNCHANGED <<instances, given, builds, waiting, stacks, scope, live, asked>>

LookupMiss(g) ==
    LET t == asked[g].type via == asked[g].via IN
    /\ pc[g] = "lookup"
    /\ ~IsCached(t) /\ ~(via = "scope" /\ InScope(g, t))
    /\ \/ /\ t \in Singletons
          /\ asked' = [asked EXCEPT ![g].via = "container"]
          /\ Goto(g, "singleton")
          /\ UNCHANGED ret
       \/ /\ t \in Transients \/ (t \in Scopeds /\ via = "scope")
          /\ Goto(g, "enter")
          /\ UNCHANGED <<asked, ret>>
       \/ /\ t \notin Singletons \cup Transients
          /\ t \in Scopeds => via = "container"
          /\ Answer(g, "err")
          /\ UNCHANGED asked
    /\ UNCHANGED <<instances, given, builds, waiting, stacks, scope, live>>

\* resolveSingleton, first critical section, with awaitBuild's.
ResolveSingleton(g) ==
    LET t == asked[g].type IN
    /\ pc[g] = "singleton"
    /\ \/ IsCached(t) /\ Answer(g, "ok") /\ UNCHANGED <<builds, waiting>>
       \/ /\ ~IsCached(t) /\ ~InFlight(t)
          /\ builds' = [builds EXCEPT ![t] = g]
          /\ Goto(g, "enter")
          /\ UNCHANGED <<waiting, ret>>
       \/ /\ ~IsCached(t) /\ InFlight(t)
          /\ builds[t] = g \/ waitsOn(builds[t], g)
          /\ Answer(g, "circular")
          /\ UNCHANGED <<builds, waiting>>
       \/ /\ ~IsCached(t) /\ InFlight(t)
          /\ builds[t] # g /\ ~waitsOn(builds[t], g)
          /\ waiting' = [waiting EXCEPT ![g] = [type |-> t, gid |-> builds[t]]]
          /\ Goto(g, "blocked")
          /\ UNCHANGED <<builds, ret>>
    /\ UNCHANGED <<instances, given, stacks, scope, live, asked>>

\* invoke's enterBuild: refuse a type already on this goroutine's stack.
EnterBuild(g) ==
    LET t == asked[g].type IN
    /\ pc[g] = "enter"
    /\ \/ /\ cycleIn(g, t) \/ Len(stacks[g]) >= MaxDepth
          /\ ret' = [ret EXCEPT ![g] = "circular"]
          /\ Goto(g, "built")
          /\ UNCHANGED stacks
       \/ /\ ~cycleIn(g, t) /\ Len(stacks[g]) < MaxDepth
          /\ stacks' = [stacks EXCEPT ![g] =
                Append(@, [type |-> t, via |-> asked[g].via, next |-> 1])]
          /\ Goto(g, "args")
          /\ UNCHANGED ret
    /\ UNCHANGED <<instances, given, builds, waiting, scope, live, asked>>

\* resolveCtorArgs asks for the next parameter through the caller's resolver;
\* a constructor or Init asks the container for what it needs by itself.
AskNext(g) ==
    LET f == Top(g) IN
    /\ pc[g] = "args"
    /\ f.next <= Len(Needs(f.type))
    /\ asked' = [asked EXCEPT ![g] =
          [type |-> AliasTarget(Needs(f.type)[f.next]),
           via |-> IF f.next <= Len(Args[f.type]) THEN f.via ELSE "container"]]
    /\ Goto(g, "lookup")
    /\ UNCHANGED <<instances, given, builds, waiting, stacks, scope, live, ret>>

\* The constructor and initService return a value or an error (a late Init
\* is an error too), and invoke's deferred leaveBuild pops the frame.
Construct(g) ==
    LET f == Top(g)
        owner == IF f.type \in Scopeds THEN g ELSE Container IN
    /\ pc[g] = "args"
    /\ f.next > Len(Needs(f.type))
    /\ \E r \in {"ok"} \cup (IF f.type \in MayFail THEN {"err"} ELSE {}) :
          LeaveWith(g, r) /\ live' = LiveAfter(owner, f.type, r)
    /\ UNCHANGED <<instances, given, builds, waiting, scope>>

\* A panic unwinds every frame: leaveBuild is deferred, but nothing deletes
\* the builds of the goroutine. Whoever started the resolution recovers.
Panic(g) ==
    /\ pc[g] = "args" /\ Top(g).type \in MayPanic
    /\ stacks' = [stacks EXCEPT ![g] = << >>]
    /\ asked' = [asked EXCEPT ![g] = NoAsk]
    /\ Goto(g, "idle")
    /\ UNCHANGED <<instances, given, builds, waiting, scope, live, ret>>

\* resolveSingleton, second critical section.
Publish(g) ==
    LET t == asked[g].type IN
    /\ pc[g] = "built" /\ t \in Singletons
    /\ IF Fails(ret[g]) THEN UNCHANGED <<instances, given>>
       ELSE /\ instances' = WithInstance(t)
            /\ given' = given \ {t}
    /\ builds' = BuildsWithout(t, ret[g])
    /\ Goto(g, "close")
    /\ UNCHANGED <<waiting, stacks, scope, live, asked, ret>>

\* close(b.done): every goroutine blocked on this build wakes with its result.
CloseDone(g) ==
    LET mine == Waking(asked[g].type, g) IN
    /\ pc[g] = "close"
    /\ pc' = [h \in Goroutines |-> IF h \in mine THEN "woken"
                                   ELSE IF h = g THEN "return" ELSE pc[h]]
    /\ ret' = [h \in Goroutines |-> IF h \in mine THEN ret[g] ELSE ret[h]]
    /\ UNCHANGED <<instances, given, builds, waiting, stacks, scope, live, asked>>

\* awaitBuild after <-b.done.
Wake(g) ==
    /\ pc[g] = "woken"
    /\ waiting' = [waiting EXCEPT ![g] = NoBuild]
    /\ Goto(g, "return")
    /\ UNCHANGED <<instances, given, builds, stacks, scope, live, asked, ret>>

\* A scoped or transient value: resolveType keeps the scoped one.
Keep(g) ==
    LET t == asked[g].type IN
    /\ pc[g] = "built" /\ t \notin Singletons
    /\ scope' = IF t \in Scopeds /\ ~Fails(ret[g])
                THEN [scope EXCEPT ![g] = Append(@, t)] ELSE scope
    /\ Goto(g, "return")
    /\ UNCHANGED <<instances, given, builds, waiting, stacks, live, asked, ret>>

\* The answer reaches whoever asked: the caller of Resolve, or a frame. A
\* missing parameter fails the frame; an error a constructor got by itself
\* may be handled there or returned.
Return(g) ==
    /\ pc[g] = "return"
    /\ \/ /\ stacks[g] = << >>
          /\ Goto(g, "idle")
          /\ asked' = [asked EXCEPT ![g] = NoAsk]
          /\ ret' = [ret EXCEPT ![g] = "none"]
          /\ UNCHANGED stacks
       \/ /\ stacks[g] # << >>
          /\ ~Fails(ret[g]) \/ Top(g).next > Len(Args[Top(g).type])
          /\ Advance(g)
          /\ Goto(g, "args")
          /\ ret' = [ret EXCEPT ![g] = "none"]
          /\ UNCHANGED asked
       \/ /\ stacks[g] # << >>
          /\ Fails(ret[g])
          /\ LeaveWith(g, ret[g])
    /\ UNCHANGED <<instances, given, builds, waiting, scope, live>>

\* Scope.Close, once the request is over.
CloseScope(g) ==
    /\ pc[g] = "idle" /\ scope[g] # << >>
    /\ live' = [live EXCEPT ![g] =
          [t \in Types |-> IF InScope(g, t) THEN @[t] - 1 ELSE @[t]]]
    /\ scope' = [scope EXCEPT ![g] = << >>]
    /\ UNCHANGED <<instances, given, builds, waiting, stacks, pc, asked, ret>>

\* RegisterServiceInstance on a running container.
RegisterServiceInstance(t) ==
    /\ t \notin given
    /\ given' = given \cup {t}
    /\ instances' = WithInstance(t)
    /\ UNCHANGED <<builds, waiting, stacks, scope, live, pc, asked, ret>>

Step(g) ==
    \/ LookupHit(g) \/ LookupMiss(g) \/ ResolveSingleton(g) \/ EnterBuild(g)
    \/ AskNext(g) \/ Construct(g) \/ Publish(g) \/ CloseDone(g)
    \/ Wake(g) \/ Keep(g) \/ Return(g)

Next ==
    \/ \E g \in Goroutines :
          \/ Step(g)
          \/ Panic(g)
          \/ CloseScope(g)
          \/ \E n \in Names, via \in Resolvers : Resolve(g, n, via)
    \/ \E t \in LateGiven : RegisterServiceInstance(t)

Spec == Init /\ [][Next]_vars

\* A goroutine that is not blocked keeps running: the Go scheduler is fair,
\* and Init is assumed to return, as initService requires of it.
FairSpec == Spec /\ \A g \in Goroutines : WF_vars(Step(g))
(***************************************************************************)
(* Properties                                                              *)
(***************************************************************************)
Labels == {"idle", "lookup", "singleton", "enter", "args", "built", "close",
           "blocked", "woken", "return"}

\* The shape of the state; every variable of c and of the goroutines.
TypeOK ==
    /\ instances \in Seq(Types)
    /\ given \in SUBSET Types
    /\ builds \in [Types -> Goroutines \cup {NoOne}]
    /\ waiting \in [Goroutines -> [type : Types, gid : Goroutines] \cup {NoBuild}]
    /\ stacks \in [Goroutines -> Seq(Frame)]
    /\ scope \in [Goroutines -> Seq(Types)]
    /\ live \in [Owners -> [Types -> Int]]
    /\ pc \in [Goroutines -> Labels]
    /\ asked \in [Goroutines -> [type : Types, via : Resolvers] \cup {NoAsk}]
    /\ ret \in [Goroutines -> {"none", "ok", "err", "circular"}]

\* "One goroutine builds it at a time" (resolveSingleton): a singleton is on
\* the stack of at most one goroutine, which c.builds names.
OneBuilder ==
    \A t \in Singletons, g, h \in Goroutines :
        OnStack(g, t) /\ OnStack(h, t) => g = h /\ builds[t] = g

\* A constructor is never entered again by the goroutine that is inside it
\* (cycleIn), whatever its lifetime, so nesting ends.
NoNestedBuild ==
    \A g \in Goroutines : \A i, j \in 1..Len(stacks[g]) :
        stacks[g][i].type = stacks[g][j].type => i = j

\* Init runs to success once per singleton, and once per scope for a scoped
\* service: nothing initialized is lost before it is cached, and nothing is
\* cached whose Init did not succeed. (While no instance is registered late.)
LiveIsKept ==
    /\ \A t \in Singletons \ given :
          live[Container][t] =
             IF IsCached(t) \/ \E g \in Goroutines :
                   pc[g] = "built" /\ asked[g].type = t /\ ret[g] = "ok"
             THEN 1 ELSE 0
    /\ \A t \in Scopeds, g \in Goroutines :
          live[g][t] =
             IF InScope(g, t) \/ (pc[g] = "built" /\ asked[g].type = t /\ ret[g] = "ok")
             THEN 1 ELSE 0

\* c.waiting never holds a cycle: in every set of goroutines one waits for
\* nobody of the set. It is what awaitBuild's refusal is for.
NoWaitCycle ==
    \A S \in SUBSET Goroutines :
        S # {} => \E g \in S : waiting[g] = NoBuild \/ waiting[g].gid \notin S

\* The bounded walk of di_guard.go decides exactly whether b waits for g: its
\* bound of len(c.waiting)+1 steps is long enough for every chain of waits.
WalkIsReachability ==
    \A b, g \in Goroutines : waitsOnWalk(b, g) <=> waitsOn(b, g)

\* A goroutine blocked in awaitBuild waits for a build that is still running
\* or whose channel its builder is about to close: no wake-up is missed.
BlockedHasBuilder ==
    \A g \in Goroutines : pc[g] = "blocked" =>
        LET t == waiting[g].type b == waiting[g].gid IN
        /\ waiting[g] # NoBuild
        /\ builds[t] = b \/ (pc[b] = "close" /\ asked[b].type = t)

\* EachInstance: "this order is a valid initialization order: reversing it is
\* safe for shutdown": a constructed singleton stands after its parameters.
InstancesInDependencyOrder ==
    \A i \in 1..Len(instances) : instances[i] \notin given =>
        \A n \in SeqRange(Args[instances[i]]) :
            AliasTarget(n) \in Singletons =>
                \E j \in 1..i - 1 : instances[j] = AliasTarget(n)

\* Every resolution comes to an end, in a value or an error, whatever cycles
\* the constructors run into and however the goroutines interleave.
ResolveReturns ==
    \A g \in Goroutines : pc[g] # "idle" ~> pc[g] = "idle"

\* resolveSingleton's doc: ErrCircularDependency answers a constructor that
\* comes back for its own type and a wait that would deadlock. Where no
\* constructor needs itself, however indirectly, neither can happen.
NoFalseCircle ==
    \A g \in Goroutines : ret[g] # "circular"
=============================================================================
