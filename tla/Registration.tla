---------------------------- MODULE Registration ----------------------------
(***************************************************************************)
(* What may be registered in a ServiceContainer, in which order, and what  *)
(* BuildAll makes of it: the checks of service shapes, aliases, lifetimes  *)
(* and circles, and the order the singletons are built in. Constructors    *)
(* run without other goroutines here (Container has those) and succeed. A  *)
(* registration that panics changes nothing and is no step.                *)
(***************************************************************************)
EXTENDS Integers, Sequences, FiniteSetsExt

CONSTANTS
    RegTypes,        \* the types there are
    Interfaces,      \* those that are interfaces
    AssignableTo,    \* per type, the types it is assignable to or implements
    Managed,         \* those that implement Service
    HalfManaged,     \* those that declare Init or Close and do not implement it
    Signatures,      \* the constructors: what they return, and their parameters
    MaxRegistrations \* bound on registration calls

ASSUME RegistrationAssumption ==
    /\ Interfaces \subseteq RegTypes /\ Managed \subseteq RegTypes /\ HalfManaged \subseteq RegTypes
    /\ AssignableTo \in [RegTypes -> SUBSET RegTypes] /\ MaxRegistrations \in Nat
    /\ \A c \in Signatures : c.returns \in RegTypes /\ c.takes \in Seq(RegTypes)

VARIABLES
    registrations, \* ordered map: type, lifetime and constructor
    prebuilt,      \* ordered map: the types with an instance
    aliases,       \* ordered map: alias and target
    regCalls,      \* registration calls so far
    regOutcome,       \* of the last BuildAll, or "none" since a registration
    builtOrder     \* what that BuildAll built, in order

regVars == <<registrations, prebuilt, aliases, regCalls, regOutcome, builtOrder>>

Lifetimes == {"singleton", "scoped", "transient"}

RegInit ==
    /\ registrations = << >> /\ prebuilt = << >> /\ aliases = << >>
    /\ regCalls = 0 /\ regOutcome = "none" /\ builtOrder = << >>

(***************************************************************************)
(* The ordered maps (internal/orderedmap.go): a key keeps its place        *)
(***************************************************************************)
SeqRange(s) == {s[i] : i \in DOMAIN s}
KeysOf(map) == {map[i].key : i \in DOMAIN map}
PlaceOf(map, key) == CHOOSE i \in DOMAIN map : map[i].key = key
EntryOf(map, key) == map[PlaceOf(map, key)]
SetEntry(map, entry) ==
    IF entry.key \in KeysOf(map) THEN [map EXCEPT ![PlaceOf(map, entry.key)] = entry]
    ELSE Append(map, entry)

(***************************************************************************)
(* Registering                                                             *)
(***************************************************************************)
\* validateCtorShape: a function, not variadic, of one or two results, whose
\* first fits t and whose second is an error.
ValidCtorShape(t, ctor) ==
    /\ ctor.form = "func" /\ ctor.outs \in {1, 2}
    /\ t \in AssignableTo[ctor.returns] \cup {ctor.returns}
    /\ (ctor.outs = 2) => ctor.lastIsError

Called ==
    /\ regCalls < MaxRegistrations
    /\ regCalls' = regCalls + 1 /\ regOutcome' = "none" /\ builtOrder' = << >>

RegisterService(t, ctor, lifetime) ==
    /\ Called
    /\ ValidCtorShape(t, ctor) /\ ~(lifetime = "transient" /\ t \in Managed)
    /\ t \notin KeysOf(aliases)
    /\ registrations' = SetEntry(registrations, [key |-> t, lifetime |-> lifetime, takes |-> ctor.takes])
    /\ UNCHANGED <<prebuilt, aliases>>

StoresUnder(t) == t \notin KeysOf(aliases)

RegisterInstance(t) ==
    /\ Called /\ StoresUnder(t)
    /\ prebuilt' = SetEntry(prebuilt, [key |-> t])
    /\ UNCHANGED <<registrations, aliases>>

\* validateAlias, checkAliasLocked.
AliasAllowed(t, a) ==
    /\ a \in Interfaces /\ a # t /\ a \in AssignableTo[t]
    /\ a \notin KeysOf(registrations) \cup KeysOf(prebuilt)
    /\ t \notin KeysOf(aliases) /\ \A i \in DOMAIN aliases : aliases[i].target # a

RegisterAlias(t, a) ==
    /\ Called /\ AliasAllowed(t, a)
    /\ aliases' = SetEntry(aliases, [key |-> a, target |-> t])
    /\ UNCHANGED <<registrations, prebuilt>>

(***************************************************************************)
(* BuildAll's checks                                                       *)
(***************************************************************************)
\* Fault: a dependency on an alias is taken for one on itself.
aliasTarget_self(t) == t
aliasTarget(t) == IF t \in KeysOf(aliases) THEN EntryOf(aliases, t).target ELSE t

Registered(t) == t \in KeysOf(registrations)
HasInstance(t) == t \in KeysOf(prebuilt)
CanResolveType(t) == HasInstance(aliasTarget(t)) \/ Registered(aliasTarget(t))
Takes(t) == LET takes == EntryOf(registrations, t).takes
            IN [i \in DOMAIN takes |-> aliasTarget(takes[i])]
LifetimeOf(t) == EntryOf(registrations, t).lifetime

ValidShapes == (KeysOf(registrations) \cup KeysOf(prebuilt)) \cap HalfManaged = {}
ValidAliases ==
    \A i \in DOMAIN aliases : Registered(aliases[i].target) \/ HasInstance(aliases[i].target)

\* A singleton must not hold on to a scoped or transient dependency.
Captive(t, dep) ==
    /\ LifetimeOf(t) = "singleton" /\ ~HasInstance(dep)
    /\ Registered(dep) /\ LifetimeOf(dep) # "singleton"
ValidLifetimes ==
    \A t \in KeysOf(registrations) : \A i \in DOMAIN Takes(t) : ~Captive(t, Takes(t)[i])

(***************************************************************************)
(* topoSort: Kahn's algorithm over the registrations                       *)
(***************************************************************************)
InDegree ==
    [t \in KeysOf(registrations) |->
        Cardinality({i \in DOMAIN Takes(t) : Registered(Takes(t)[i])})]

\* What of a sequence is in S, in the order of the sequence.
Among(s, S) ==
    LET upto[n \in 0..Len(s)] ==
            IF n = 0 THEN << >>
            ELSE IF s[n] \in S THEN Append(upto[n - 1], s[n]) ELSE upto[n - 1]
    IN upto[Len(s)]
\* The registered types, in order.
RegOrder == [i \in DOMAIN registrations |-> registrations[i].key]

\* One turn: the head is ordered, and every occurrence of it as a parameter
\* counts one down; what comes to 0 is queued, in registration order.
Queued(left) == left = 0
KahnTurn(s) ==
    LET curr == Head(s.queue)
        Uses(t) == Cardinality({i \in DOMAIN Takes(t) : Takes(t)[i] = curr})
        degree == [t \in DOMAIN s.degree |-> s.degree[t] - Uses(t)]
        ready == {t \in DOMAIN degree : Uses(t) > 0 /\ Queued(degree[t])}
    IN [queue |-> Tail(s.queue) \o Among(RegOrder, ready),
        degree |-> degree, order |-> Append(s.order, curr)]

topoSort ==
    LET free == {t \in DOMAIN InDegree : InDegree[t] = 0}
        turn[n \in 0..Len(registrations)] ==
            IF n = 0 THEN [queue |-> Among(RegOrder, free), degree |-> InDegree, order |-> << >>]
            ELSE IF turn[n - 1].queue = << >> THEN turn[n - 1] ELSE KahnTurn(turn[n - 1])
    IN turn[Len(registrations)].order

(***************************************************************************)
(* BuildAll                                                                *)
(***************************************************************************)
BuildResult ==
    CASE ~ValidShapes -> "shape"
      [] ValidShapes /\ ~ValidAliases -> "alias"
      [] ValidShapes /\ ValidAliases /\ ~ValidLifetimes -> "captive"
      [] ValidShapes /\ ValidAliases /\ ValidLifetimes /\ Len(topoSort) # Len(registrations) -> "circular"
      [] OTHER -> "order"

\* The singletons without an instance, in order, up to the first that needs a
\* type nobody registered: that one's resolution fails.
Buildable ==
    Among(topoSort, {t \in KeysOf(registrations) : LifetimeOf(t) = "singleton" /\ ~HasInstance(t)})
Fails(t) == \E i \in DOMAIN Takes(t) : ~CanResolveType(Takes(t)[i])
BuiltNow ==
    LET n == Min({i \in DOMAIN Buildable : Fails(Buildable[i])} \cup {Len(Buildable) + 1})
    IN SubSeq(Buildable, 1, n - 1)

BuildAll ==
    /\ regOutcome = "none"
    /\ IF BuildResult = "order"
       THEN /\ builtOrder' = BuiltNow
            /\ regOutcome' = IF BuiltNow = Buildable THEN "ok" ELSE "missing"
            /\ prebuilt' = prebuilt \o [i \in DOMAIN BuiltNow |-> [key |-> BuiltNow[i]]]
       ELSE regOutcome' = BuildResult /\ UNCHANGED <<prebuilt, builtOrder>>
    /\ UNCHANGED <<registrations, aliases, regCalls>>

RegNext ==
    \/ BuildAll
    \/ \E t \in RegTypes : RegisterInstance(t)
    \/ \E t, a \in RegTypes : RegisterAlias(t, a)
    \/ \E t \in RegTypes, ctor \in Signatures, lifetime \in Lifetimes : RegisterService(t, ctor, lifetime)

RegSpec == RegInit /\ [][RegNext]_regVars

(***************************************************************************)
(* Properties                                                              *)
(***************************************************************************)
\* In whatever order things are registered and built, one lookup of an alias
\* ends at something that is not an alias, and no alias is hidden by, or
\* hides, a registration or an instance of its own.
AliasesAreFlat ==
    \A i \in DOMAIN aliases :
        /\ aliases[i].target \notin KeysOf(aliases)
        /\ aliases[i].key \notin KeysOf(registrations) \cup KeysOf(prebuilt)

\* What a constructor's parameters stand for, and constructors that all need
\* one of each other
Means(t) == {aliases[i].target : i \in {j \in DOMAIN aliases : aliases[j].key = t}}
Needs(t) ==
    {d \in RegTypes : \E e \in SeqRange(EntryOf(registrations, t).takes) :
                          IF Means(e) = {} THEN d = e ELSE d \in Means(e)}
Circular == \E S \in (SUBSET KeysOf(registrations)) \ {{}} : \A t \in S : Needs(t) \cap S # {}

\* BuildAll says "circular" exactly when constructors need each other; without
\* an error every singleton and all it takes that a singleton may hold is
\* there, and each is built after those it takes, through aliases or twice.
BuildIsSound ==
    /\ regOutcome = "circular" => Circular
    /\ regOutcome \in {"ok", "missing"} => ~Circular
    /\ regOutcome = "ok" =>
         \A t \in KeysOf(registrations) :
             LifetimeOf(t) = "singleton" =>
                 HasInstance(t) /\ (t \in SeqRange(builtOrder) => \A d \in Needs(t) : HasInstance(d))
    /\ \A i, j \in DOMAIN builtOrder : builtOrder[j] \in Needs(builtOrder[i]) => j < i

\* What is registered stays flat, and what is built of it is in order.
RegistrationHolds == AliasesAreFlat /\ BuildIsSound
=============================================================================
