-------------------------- MODULE KillSwitchProofs --------------------------
(***************************************************************************)
(* Proofs about module KillSwitch, with Router and EventBus.               *)
(***************************************************************************)
EXTENDS KillSwitch, FiniteSetTheorems, WellFoundedInduction, TLAPS

(***************************************************************************)
(* Hypotheses                                                              *)
(***************************************************************************)
\* CloseService is called once Start has sealed the router: a group that Seal
\* builds for the first time is booked for its service even if that has been
\* closed before.
KilledAfterSeal == ~EarlyKill

\* A restart that does not succeed has registered nothing that its service's
\* teardown would take back. It may end at call k, by an error of Init or by a
\* panic of the router, and it never passes a NotFound.
NeededBy(s, k) == IF Entry(s, k).kind = "use" THEN {Entry(s, k).name} ELSE GuardNames(Entry(s, k))
MayStopAt(s, k) ==
    \/ s \in MayFailInit
    \/ /\ k \in Entries(s)
       /\ \/ Entry(s, k).kind = "notfound"
          \/ /\ Entry(s, k).kind \in {"handle", "use"}
             /\ \E m \in NeededBy(s, k) : \A j \in 1..k - 1 : ~Names(s, j, m)
TakenBack(s, k) == Entry(s, k).kind \in {"register", "handle", "group", "subscribe"}
RestartsStopClean ==
    \A s \in Services : \A k \in 1..Len(Script[s]) + 1 : MayStopAt(s, k) =>
        \A j \in 1..k - 1 : TakenBack(s, j) => \E i \in 1..j : Entry(s, i).kind = "notfound"

\* A route is registered in one place.
RoutesRegisteredOnce ==
    \A s, t \in Services : \A k \in Entries(s), l \in Entries(t) :
        \A i \in 1..Len(Entry(s, k).handles), j \in 1..Len(Entry(t, l).handles) :
            Entry(s, k).handles[i].route = Entry(t, l).handles[j].route => s = t /\ k = l /\ i = j

(***************************************************************************)
(* Where everybody is, and what Start has registered                       *)
(***************************************************************************)
Known(m) == registry[m] # NoOne \/ retired[m] # NoOne

\* The calls of the first Init of s are those below StartReach(s).
StartReach(s) ==
    IF pc[Starter] # "init" \/ Position(s) < Position(job[Starter]) THEN Len(Script[s]) + 1
    ELSE IF s = job[Starter] THEN step[Starter] ELSE 1

Placed ==
    /\ pc[Starter] \in {"init", "collect", "started"} /\ job[Starter] \in Services
    /\ sealed <=> pc[Starter] = "started"
    /\ pc[Starter] = "init" => step[Starter] <= Len(Script[job[Starter]]) + 1
    /\ \A p \in Admins :
          /\ pc[p] \notin {"collect", "started"}
          /\ pc[p] # "idle" => job[p] \in Services
          /\ pc[p] = "init" => sealed /\ step[p] <= Len(Script[job[p]]) + 1
          /\ pc[p] \in {"init", "removed", "closing"} => mu = p

\* Every operation is a call of its service's script.
RecordIsScripted ==
    \A i \in 1..Len(ops) : \E k \in Entries(ops[i].svc) :
        /\ Entry(ops[i].svc, k).kind = IF ops[i].group THEN "group" ELSE "handle"
        /\ ops[i].handles = Entry(ops[i].svc, k).handles

\* What the first Inits have registered stays on record.
OnRecord(s, k) ==
    /\ Entry(s, k).kind = "register" => Known(Entry(s, k).name)
    /\ Entry(s, k).kind = "notfound" => notFoundHandlerService # NoOne
    /\ Entry(s, k).kind \in {"handle", "group"} =>
          \E i \in 1..Len(ops) : ops[i].svc = s /\ ops[i].handles = Entry(s, k).handles
InitsRecorded == \A s \in Services : \A k \in 1..StartReach(s) - 1 : OnRecord(s, k)

TypeInv ==
    /\ TypeOK /\ Placed /\ RecordIsScripted /\ InitsRecorded
    /\ bookedOps = IF sealed THEN Len(ops) ELSE 0
    /\ \A m \in SetOf(globals) : Known(m)

(***************************************************************************)
(* What the books hold of each service                                     *)
(***************************************************************************)
\* An admin with w.mu works on s.
Working(s, labels) == mu \in Admins /\ pc[mu] \in labels /\ job[mu] = s

\* The calls of the present life of s that are in effect are those below.
ReachBut(s, torn) ==
    IF ~sealed THEN StartReach(s)
    ELSE IF Working(s, {"init"}) THEN step[mu]
    ELSE IF s \in active /\ ~Working(s, torn) THEN Len(Script[s]) + 1 ELSE 1
RouteReach(s) == ReachBut(s, {"removed", "closing"})
EventReach(s) == ReachBut(s, {"closing"})

BeforeSeal ==
    ~sealed => /\ mu = NoOne /\ closed = {} /\ \A p \in Admins : pc[p] = "idle"
               /\ \A s \in Services : removed[s] = {}
               /\ active = IF pc[Starter] = "init" THEN {} ELSE {Order[i] : i \in 1..step[Starter] - 1}

Lives ==
    \A s \in Services :
        /\ sealed => s \in active \cup closed \/ Working(s, {"init"})
        /\ Working(s, {"init"}) => s \notin active \cup closed
        /\ Working(s, {"removed", "closing"}) => s \in active /\ s \in closed

AllRemoved(s) == \A k \in Entries(s) : \A r \in Routes : Serves(s, k, r) => r \in removed[s]
ClosedIsGone ==
    /\ \A m \in Middlewares : registry[m] \notin closed
    /\ sealed => \A s \in closed : AllRemoved(s)

\* A restart at call n. As long as it could stop it has taken nothing back.
RestartsFromNothing ==
    \A s \in Services : Working(s, {"init"}) =>
        /\ (\A j \in 1..step[mu] - 1 : ~TakenBack(s, j)) =>
              AllRemoved(s) /\ \A m \in Middlewares : registry[m] # s
        /\ \A j \in 1..step[mu] - 1 : /\ Entry(s, j).kind # "notfound"
                                      /\ Entry(s, j).kind = "register" => registry[Entry(s, j).name] # NoOne

ServingCalls(s, r, n) ==
    {k \in 1..n - 1 : Serves(s, k, r) /\ (sealed \/ Entry(s, k).kind = "handle")}
GroupCalls(s, r, n) == {k \in 1..n - 1 : Serves(s, k, r) /\ Entry(s, k).kind = "group"}
GroupOps(s, r) == {i \in 1..Len(ops) : ops[i].group /\ ops[i].svc = s /\ r \in RoutesOf(ops[i])}
HearingCalls(s, e, n) == {k \in 1..n - 1 : Hears(s, k, e)}
Counted ==
    \A s \in Services :
        /\ \A r \in Routes :
              /\ routes[s][r] = Cardinality(ServingCalls(s, r, RouteReach(s)))
              /\ ~sealed => Cardinality(GroupOps(s, r)) = Cardinality(GroupCalls(s, r, StartReach(s)))
        /\ \A e \in Events : subscribers[e][s] = Cardinality(HearingCalls(s, e, EventReach(s)))

RemovedIsOwn ==
    \A s \in Services :
        /\ \A r \in removed[s] : \E k \in Entries(s) : Serves(s, k, r)
        /\ sealed => \A k \in 1..RouteReach(s) - 1 : \A r \in Routes : Serves(s, k, r) => removed[s] = {}

BookInv == /\ BeforeSeal /\ Lives /\ ClosedIsGone /\ RestartsFromNothing
           /\ Counted /\ RemovedIsOwn

(***************************************************************************)
(* Constants                                                               *)
(***************************************************************************)
\* Order names each service at one position.
LEMMA Positions ==
    /\ Len(Order) \in Nat \ {0}
    /\ \A s \in Services : Position(s) \in 1..Len(Order) /\ Order[Position(s)] = s
    /\ \A i \in 1..Len(Order) : Order[i] \in Services /\ Position(Order[i]) = i
  <1>1. Len(Order) \in Nat /\ \A i \in 1..Len(Order) : Order[i] \in Services
    BY KillSwitchAssumption
  <1>2. \A s \in Services : \E i \in 1..Len(Order) : Order[i] = s
    BY KillSwitchAssumption DEF SetOf
  <1>3. \A s \in Services : Position(s) \in 1..Len(Order) /\ Order[Position(s)] = s
    BY <1>2, Zenon DEF Position
  <1>4. \A i \in 1..Len(Order) : Position(Order[i]) = i
    <2>1. \A i, j \in 1..Len(Order) : Order[i] = Order[j] => i = j
      BY KillSwitchAssumption, Zenon
    <2> QED
      BY <1>1, <1>3, <2>1, Zenon
  <1>5. Len(Order) # 0
    BY <1>3, KillSwitchAssumption
  <1> QED
    BY <1>1, <1>3, <1>4, <1>5

\* A call of an Init has a kind, and what goes with it.
LEMMA CallTypes ==
    ASSUME NEW s \in Services
    PROVE  /\ Len(Script[s]) \in Nat
           /\ \A k \in Entries(s) :
                /\ Entry(s, k) \in Registrations
                /\ Entry(s, k).kind \in {"register", "use"} => Entry(s, k).name \in Middlewares
                /\ Entry(s, k).kind = "subscribe" => Entry(s, k).name \in Events
                /\ Entry(s, k).kind = "handle" => Entry(s, k).handles = <<Entry(s, k).handles[1]>>
  <1>1. Script[s] \in Seq(Registrations)
    BY KillSwitchAssumption
  <1>2. \A k \in Entries(s) : Entry(s, k) \in Registrations
    BY <1>1 DEF Entry, Entries
  <1>3. ASSUME NEW k \in Entries(s), Entry(s, k).kind = "handle"
        PROVE  Entry(s, k).handles = <<Entry(s, k).handles[1]>>
    <2>1. Len(Entry(s, k).handles) = 1
      BY <1>3, KillSwitchAssumption
    <2>2. Entry(s, k).handles \in Seq([route : Routes, mws : SUBSET Middlewares])
      BY <1>2 DEF Registrations
    <2> QED
      BY <2>1, <2>2
  <1> QED
    BY <1>1, <1>2, <1>3, KillSwitchAssumption

(***************************************************************************)
(* Publishing                                                              *)
(***************************************************************************)
Operations == [svc : Services, group : BOOLEAN,
               handles : Seq([route : Routes, mws : SUBSET Middlewares])]
Books == [Services -> [Routes -> Nat]]
Overlays == [Services -> SUBSET Routes]

\* Booking one operation adds one to the routes of its service that it has.
BookedBy(rt, op) == [s \in Services |-> [r \in Routes |->
    rt[s][r] + (IF op.svc = s /\ r \in RoutesOf(op) THEN 1 ELSE 0)]]
ForgottenBy(rm, op) == [s \in Services |-> IF op.svc = s /\ op.handles # << >> THEN {} ELSE rm[s]]
LEMMA BookedOne ==
    ASSUME NEW rt \in Books, NEW rm \in Overlays, NEW o \in Seq(Operations), NEW i \in 1..Len(o)
    PROVE  /\ Booked(rt, o, {i}) = BookedBy(rt, o[i]) /\ Forgotten(rm, o, {i}) = ForgottenBy(rm, o[i])
           /\ Booked(rt, o, {i}) \in Books /\ Forgotten(rm, o, {i}) \in Overlays
  <1> DEFINE Hits(s, r) == {j \in {i} : o[j].svc = s /\ r \in RoutesOf(o[j])}
  <1> DEFINE One(s, r) == IF o[i].svc = s /\ r \in RoutesOf(o[i]) THEN 1 ELSE 0
  <1>1. \A s, r : Hits(s, r) = IF o[i].svc = s /\ r \in RoutesOf(o[i]) THEN {i} ELSE {}
    OBVIOUS
  <1>2. \A s, r : Cardinality(Hits(s, r)) = One(s, r)
    BY <1>1, FS_Singleton, FS_EmptySet
  <1> HIDE DEF Hits
  <1>3. Booked(rt, o, {i}) = [s \in Services |-> [r \in Routes |-> rt[s][r] + Cardinality(Hits(s, r))]]
    BY DEF Booked, Hits
  <1>4. Booked(rt, o, {i}) = [s \in Services |-> [r \in Routes |-> rt[s][r] + One(s, r)]]
    BY <1>2, <1>3
  <1>5. \A s \in Services, r \in Routes : rt[s][r] + One(s, r) \in Nat
    BY DEF Books
  <1>6. Booked(rt, o, {i}) \in Books
    <2> HIDE DEF One
    <2> QED
      BY <1>4, <1>5 DEF Books
  <1>7. Forgotten(rm, o, {i}) =
            [s \in Services |-> IF o[i].svc = s /\ o[i].handles # << >> THEN {} ELSE rm[s]]
    BY DEF Forgotten
  <1>8. Forgotten(rm, o, {i}) \in Overlays
    BY <1>7 DEF Overlays
  <1> QED
    BY <1>4, <1>6, <1>7, <1>8 DEF BookedBy, ForgottenBy

\* Booking none changes nothing.
LEMMA BookedNone ==
    ASSUME NEW rt \in Books, NEW rm \in Overlays, NEW o
    PROVE  Booked(rt, o, {}) = rt /\ Forgotten(rm, o, {}) = rm
  <1> DEFINE Hits(s, r) == {j \in {} : o[j].svc = s /\ r \in RoutesOf(o[j])}
  <1>1. \A s, r : Cardinality(Hits(s, r)) = 0
    BY FS_EmptySet
  <1> HIDE DEF Hits
  <1>2. Booked(rt, o, {}) = [s \in Services |-> [r \in Routes |-> rt[s][r] + Cardinality(Hits(s, r))]]
    BY DEF Booked, Hits
  <1>3. Booked(rt, o, {}) = [s \in Services |-> [r \in Routes |-> rt[s][r]]]
    BY <1>1, <1>2 DEF Books
  <1> QED
    BY <1>3 DEF Books, Overlays, Forgotten

\* publish, on an unchanged record: nothing is built for the first time.
LEMMA PublishSame ==
    ASSUME ops \in Seq(Operations), bookedOps = (IF sealed THEN Len(ops) ELSE 0), sealed' = sealed,
           NEW g, NEW reg, NEW rt \in Books, NEW rm \in Overlays, Publish(ops, g, reg, rt, rm)
    PROVE  /\ routes' = rt /\ removed' = rm /\ bookedOps' = IF sealed THEN Len(ops) ELSE 0
           /\ sealed => served' = Tree(ops, g, reg, rm)
           /\ ~sealed => served' = served
  <1>1. CASE sealed
    <2>1. FirstBuilt(ops) = {}
      BY <1>1 DEF FirstBuilt
    <2> QED
      BY <1>1, <2>1, BookedNone DEF Publish, BookedAll
  <1>2. CASE ~sealed
    BY <1>2 DEF Publish
  <1> QED
    BY <1>1, <1>2

\* publish, with one operation more: a handle has been booked, and a group is
\* built for the first time if the router is sealed.
LEMMA PublishOneMore ==
    ASSUME ops \in Seq(Operations), bookedOps = (IF sealed THEN Len(ops) ELSE 0), sealed' = sealed,
           NEW g, NEW reg, NEW rt \in Books, NEW rm \in Overlays, NEW op \in Operations,
           NEW o, o = Append(ops, op), Publish(o, g, reg, rt, rm)
    PROVE  LET new == IF op.group /\ sealed THEN {Len(o)} ELSE {}
               rm2 == Forgotten(rm, o, new)
           IN /\ routes' = Booked(rt, o, new) /\ removed' = rm2
              /\ bookedOps' = IF sealed THEN Len(o) ELSE 0
              /\ sealed => served' = Tree(o, g, reg, rm2)
              /\ ~sealed => served' = served
  <1>1. CASE sealed
    <2>1. FirstBuilt(o) = {i \in {Len(o)} : o[i].group}
      BY <1>1 DEF FirstBuilt
    <2>2. o[Len(o)] = op
      OBVIOUS
    <2>3. FirstBuilt(o) = IF op.group THEN {Len(o)} ELSE {}
      BY <2>1, <2>2
    <2> QED
      BY <1>1, <2>3 DEF Publish, BookedAll
  <1>2. CASE ~sealed
    BY <1>2, BookedNone DEF Publish
  <1> QED
    BY <1>1, <1>2

(***************************************************************************)
(* The tree                                                                *)
(***************************************************************************)
\* Of the operations that register r there is a last one.
LEMMA LastOpIs ==
    ASSUME NEW o \in Seq(Operations), NEW r, NEW i0 \in 1..Len(o), r \in RoutesOf(o[i0])
    PROVE  LastOp(o, r) \in 1..Len(o) /\ r \in RoutesOf(o[LastOp(o, r)])
  <1> DEFINE S == {i \in 1..Len(o) : r \in RoutesOf(o[i])}
             D == {Len(o) - i : i \in S}
             R == OpToRel(<, Nat)
  <1>1. Len(o) \in Nat /\ S \subseteq 1..Len(o) /\ i0 \in S
    OBVIOUS
  <1>2. D \subseteq Nat /\ Len(o) - i0 \in D
    BY <1>1
  <1>3. \A a, b \in Nat : a < b => <<a, b>> \in R
    BY Zenon DEF OpToRel
  <1>4. IsWellFoundedOn(R, Nat)
    BY NatLessThanWellFounded
  <1> HIDE DEF R
  <1>5. PICK d \in D : \A e \in D : ~(<<e, d>> \in R)
    <2> HIDE DEF D
    <2> QED
      BY <1>2, <1>4, WFMin
  <1>6. \A e \in D : ~(e < d)
    BY <1>2, <1>3, <1>5
  <1>7. PICK i \in S : d = Len(o) - i
    OBVIOUS
  <1>8. \A k \in S : Len(o) - k \in D
    OBVIOUS
  <1>9. \A k \in S : ~(Len(o) - k < Len(o) - i)
    BY <1>6, <1>7, <1>8
  <1>10. \A k \in S : k <= i
    BY <1>1, <1>9
  <1>11. i \in 1..Len(o) /\ r \in RoutesOf(o[i]) /\ \A k \in i + 1..Len(o) : r \notin RoutesOf(o[k])
    BY <1>1, <1>10
  <1>12. \E j \in 1..Len(o) : r \in RoutesOf(o[j]) /\ \A k \in j + 1..Len(o) : r \notin RoutesOf(o[k])
    BY <1>11
  <1> QED
    BY <1>12, Zenon DEF LastOp

\* The guards of a route are among those that its operation names.
LEMMA GuardsAreNamed == \A op, r : Guards(op, r) \subseteq GuardNames(op)
  BY DEF Guards, GuardNames

\* A tree depends on the registry by the guards that it names alone.
LEMMA SameTree ==
    ASSUME NEW o \in Seq(Operations), NEW g, NEW rm, NEW reg1, NEW reg2,
           \A m \in SetOf(g) : Passes(reg1, m) <=> Passes(reg2, m),
           \A i \in 1..Len(o) : \A m \in GuardNames(o[i]) : Passes(reg1, m) <=> Passes(reg2, m)
    PROVE  Tree(o, g, reg1, rm) = Tree(o, g, reg2, rm)
  <1> SUFFICES ASSUME NEW r \in Routes PROVE Tree(o, g, reg1, rm)[r] = Tree(o, g, reg2, rm)[r]
    BY DEF Tree
  <1>1. CASE Overlaid(rm, r) \/ \A i \in 1..Len(o) : r \notin RoutesOf(o[i])
    BY <1>1 DEF Tree
  <1>2. CASE ~Overlaid(rm, r) /\ \E i \in 1..Len(o) : r \in RoutesOf(o[i])
    <2>1. LastOp(o, r) \in 1..Len(o)
      BY <1>2, LastOpIs
    <2> DEFINE guards == SetOf(g) \cup Guards(o[LastOp(o, r)], r)
    <2>2. \A m \in guards : Passes(reg1, m) <=> Passes(reg2, m)
      BY <2>1, GuardsAreNamed
    <2>3. (\A m \in guards : Passes(reg1, m)) <=> (\A m \in guards : Passes(reg2, m))
      BY <2>2
    <2> HIDE DEF guards
    <2>4. ASSUME NEW reg
          PROVE  Tree(o, g, reg, rm)[r] =
                    IF \A m \in guards : Passes(reg, m) THEN Open(o[LastOp(o, r)].svc, guards) ELSE Unavailable
      BY <1>2 DEF Tree, guards
    <2> QED
      BY <2>3, <2>4
  <1> QED
    BY <1>1, <1>2

\* Once the router is sealed every guard on record is registered or retired.
GuardsKnown ==
    /\ \A m \in SetOf(globals) : Known(m)
    /\ sealed => \A i \in 1..Len(ops) : \A m \in GuardNames(ops[i]) : Known(m)

\* What a name stands for when all first Inits are over.
LEMMA NamesAreKnown ==
    ASSUME TypeInv, pc[Starter] # "init", NEW s \in Services, NEW k \in Entries(s),
           NEW m \in GuardNames(Entry(s, k))
    PROVE  Known(m)
  <1>1. PICK t \in Services : \E i \in Entries(t) : Names(t, i, m)
    BY KillSwitchAssumption DEF NamesAreRegistered
  <1>2. PICK i \in Entries(t) : Names(t, i, m)
    BY <1>1
  <1>3. i \in 1..StartReach(t) - 1
    BY CallTypes DEF StartReach, Entries
  <1> QED
    BY <1>2, <1>3 DEF TypeInv, InitsRecorded, OnRecord, Names

LEMMA RecordedGuardsKnown == ASSUME TypeInv PROVE GuardsKnown
  <1>1. ASSUME sealed, NEW i \in 1..Len(ops), NEW m \in GuardNames(ops[i]) PROVE Known(m)
    <2>0. ops \in Seq(Operations)
      BY Zenon DEF TypeInv, TypeOK, RouterTypeOK, Operations
    <2>1. ops[i].svc \in Services
      <3>1. ops[i] \in Operations
        BY <2>0
      <3> QED
        BY <3>1 DEF Operations
    <2>2. PICK k \in Entries(ops[i].svc) : ops[i].handles = Entry(ops[i].svc, k).handles
      BY DEF TypeInv, RecordIsScripted
    <2>3. m \in GuardNames(Entry(ops[i].svc, k))
      BY <2>2 DEF GuardNames
    <2>4. pc[Starter] # "init"
      BY <1>1 DEF TypeInv, Placed
    <2> QED
      BY <2>1, <2>3, <2>4, NamesAreKnown
  <1> QED
    BY <1>1 DEF GuardsKnown, TypeInv

(***************************************************************************)
(* One registration of an Init                                             *)
(***************************************************************************)
\* The tables after call k of the Init of s.
Registered(s, k) ==
    /\ registry' = [m \in Middlewares |-> IF Names(s, k, m) THEN s ELSE registry[m]]
    /\ retired' = [m \in Middlewares |-> IF Names(s, k, m) THEN NoOne ELSE retired[m]]
    /\ globals' = IF Entry(s, k).kind = "use" THEN Append(globals, Entry(s, k).name) ELSE globals
    /\ notFoundHandlerService' = IF Entry(s, k).kind = "notfound" THEN s ELSE notFoundHandlerService
    /\ Entry(s, k).kind \in {"handle", "use"} => \A m \in NeededBy(s, k) : registry[m] # NoOne
    /\ Entry(s, k).kind = "notfound" => notFoundHandlerService = NoOne
    /\ subscribers' = [e \in Events |-> [o \in Owners |->
            subscribers[e][o] + (IF o = s /\ Hears(s, k, e) THEN 1 ELSE 0)]]
    /\ emitting' = emitting

\* Its routes count at once, or when Seal builds the group they are in.
Counts(s, k) == Entry(s, k).kind = "handle" \/ (Entry(s, k).kind = "group" /\ sealed)
Recorded(s, k) ==
    /\ ops' = IF Entry(s, k).kind \in {"handle", "group"}
              THEN Append(ops, [svc |-> s, group |-> Entry(s, k).kind = "group", handles |-> Entry(s, k).handles])
              ELSE ops
    /\ routes' = [t \in Services |-> [r \in Routes |->
            routes[t][r] + (IF t = s /\ Serves(s, k, r) /\ Counts(s, k) THEN 1 ELSE 0)]]
    /\ removed' = [t \in Services |->
            IF t = s /\ Counts(s, k) /\ Entry(s, k).handles # << >> THEN {} ELSE removed[t]]
    /\ sealed' = sealed
    /\ bookedOps' = IF sealed THEN Len(ops') ELSE 0

\* What is served is the tree of the present record; before Seal, nothing.
TreeCurrent ==
    served = IF sealed THEN Tree(ops, globals, registry, removed) ELSE [r \in Routes |-> NotRouted]

LEMMA RouterTypes ==
    ASSUME TypeInv
    PROVE  /\ ops \in Seq(Operations) /\ routes \in Books /\ removed \in Overlays
           /\ globals \in Seq(Middlewares) /\ sealed \in BOOLEAN
           /\ registry \in [Middlewares -> Services \cup {NoOne}]
           /\ retired \in [Middlewares -> Services \cup {NoOne}]
           /\ subscribers \in [Events -> [Owners -> Nat]]
           /\ Services \subseteq Owners
           /\ bookedOps = IF sealed THEN Len(ops) ELSE 0
  BY KillSwitchAssumption, Zenon DEF TypeInv, TypeOK, RouterTypeOK, BusTypeOK, Operations, Books, Overlays

\* Register, Use, NotFound and Subscribe record nothing.
LEMMA SameBooks ==
    ASSUME TypeInv, NEW s \in Services, NEW k \in Entries(s), Entry(s, k).kind \notin {"handle", "group"}
    PROVE  /\ routes = [t \in Services |-> [r \in Routes |->
                  routes[t][r] + (IF t = s /\ Serves(s, k, r) /\ Counts(s, k) THEN 1 ELSE 0)]]
           /\ removed = [t \in Services |->
                  IF t = s /\ Counts(s, k) /\ Entry(s, k).handles # << >> THEN {} ELSE removed[t]]
  <1>1. ~Counts(s, k)
    BY DEF Counts
  <1> QED
    BY <1>1, RouterTypes DEF Books, Overlays

\* Who subscribes nothing.
LEMMA SameBus ==
    ASSUME TypeInv, NEW s \in Services, NEW k \in Entries(s), Entry(s, k).kind # "subscribe"
    PROVE  subscribers = [e \in Events |-> [o \in Owners |->
                subscribers[e][o] + (IF o = s /\ Hears(s, k, e) THEN 1 ELSE 0)]]
  <1>1. \A e : ~Hears(s, k, e)
    BY DEF Hears
  <1> QED
    BY <1>1, RouterTypes

\* Who registers no middleware.
LEMMA SameNames ==
    ASSUME TypeInv, NEW s \in Services, NEW k \in Entries(s), Entry(s, k).kind # "register"
    PROVE  /\ registry = [m \in Middlewares |-> IF Names(s, k, m) THEN s ELSE registry[m]]
           /\ retired = [m \in Middlewares |-> IF Names(s, k, m) THEN NoOne ELSE retired[m]]
  <1>1. \A m : ~Names(s, k, m)
    BY DEF Names
  <1> QED
    BY <1>1, RouterTypes

LEMMA RegisterEffect ==
    ASSUME TypeInv, TreeCurrent, NEW s \in Services, NEW k \in Entries(s),
           Entry(s, k).kind = "register", Register(s, Entry(s, k).name), UNCHANGED busVars
    PROVE  Registered(s, k) /\ Recorded(s, k) /\ TreeCurrent'
  <1> DEFINE m0 == Entry(s, k).name
  <1>1. m0 \in Middlewares
    BY CallTypes
  <1>2. /\ registry' = [m \in Middlewares |-> IF Names(s, k, m) THEN s ELSE registry[m]]
        /\ retired' = [m \in Middlewares |-> IF Names(s, k, m) THEN NoOne ELSE retired[m]]
    BY <1>1, RouterTypes DEF Register, Names
  <1>3. Registered(s, k)
    BY <1>2, SameBus DEF Register, Registered, busVars
  <1>4. /\ routes' = routes /\ removed' = removed /\ ops' = ops /\ sealed' = sealed
        /\ bookedOps' = bookedOps
        /\ sealed => served' = Tree(ops, globals, registry', removed)
        /\ ~sealed => served' = served
    <2>1. CASE Reclaims(m0)
      BY <2>1, RouterTypes, PublishSame DEF Register
    <2>2. CASE ~Reclaims(m0)
      <3>1. UNCHANGED <<ops, globals, sealed, bookedOps, routes, removed, served>>
        BY <2>2 DEF Register
      <3>2. ASSUME sealed PROVE Tree(ops, globals, registry', removed) = Tree(ops, globals, registry, removed)
        <4>1. \A m : Known(m) => (Passes(registry', m) <=> Passes(registry, m))
          BY <1>1, <2>2, KillSwitchAssumption, RouterTypes DEF Register, Known, Passes, Reclaims
        <4> QED
          BY <3>2, <4>1, RecordedGuardsKnown, RouterTypes, SameTree DEF GuardsKnown
      <3> QED
        BY <3>1, <3>2 DEF TreeCurrent
    <2> QED
      BY <2>1, <2>2
  <1>5. Recorded(s, k)
    BY <1>4, SameBooks, RouterTypes DEF Recorded
  <1>6. TreeCurrent'
    BY <1>4 DEF TreeCurrent, Register
  <1> QED
    BY <1>3, <1>5, <1>6

LEMMA UseEffect ==
    ASSUME TypeInv, TreeCurrent, NEW s \in Services, NEW k \in Entries(s),
           Entry(s, k).kind = "use", Use(Entry(s, k).name), UNCHANGED busVars
    PROVE  Registered(s, k) /\ Recorded(s, k) /\ TreeCurrent'
  <1>1. Registered(s, k)
    BY SameBus, SameNames DEF Use, Validates, Registered, NeededBy, busVars
  <1>2. /\ routes' = routes /\ removed' = removed /\ ops' = ops /\ sealed' = sealed
        /\ bookedOps' = bookedOps /\ registry' = registry
        /\ sealed => served' = Tree(ops, globals', registry, removed)
        /\ ~sealed => served' = served
    BY RouterTypes, PublishSame DEF Use
  <1>3. Recorded(s, k)
    BY <1>2, SameBooks, RouterTypes DEF Recorded
  <1>4. TreeCurrent'
    BY <1>2 DEF TreeCurrent
  <1> QED
    BY <1>1, <1>3, <1>4

LEMMA NotFoundEffect ==
    ASSUME TypeInv, TreeCurrent, NEW s \in Services, NEW k \in Entries(s),
           Entry(s, k).kind = "notfound", NotFound(s), UNCHANGED busVars
    PROVE  Registered(s, k) /\ Recorded(s, k) /\ TreeCurrent'
  <1>1. Registered(s, k)
    BY SameBus, SameNames DEF NotFound, AcceptsNotFound, Registered, busVars
  <1>2. /\ routes' = routes /\ removed' = removed /\ ops' = ops /\ sealed' = sealed
        /\ bookedOps' = bookedOps /\ registry' = registry /\ globals' = globals
        /\ sealed => served' = Tree(ops, globals, registry, removed)
        /\ ~sealed => served' = served
    BY RouterTypes, PublishSame DEF NotFound
  <1>3. Recorded(s, k)
    BY <1>2, SameBooks, RouterTypes DEF Recorded
  <1>4. TreeCurrent'
    BY <1>2 DEF TreeCurrent
  <1> QED
    BY <1>1, <1>3, <1>4

LEMMA SubscribeEffect ==
    ASSUME TypeInv, TreeCurrent, NEW s \in Services, NEW k \in Entries(s),
           Entry(s, k).kind = "subscribe", Subscribe(s, Entry(s, k).name), UNCHANGED routerVars
    PROVE  Registered(s, k) /\ Recorded(s, k) /\ TreeCurrent'
  <1>0. UNCHANGED <<ops, bookedOps, globals, registry, retired, routes, removed, sealed,
                    notFoundHandlerService, served>>
    BY DEF routerVars
  <1>1. subscribers' = [e \in Events |-> [o \in Owners |->
            subscribers[e][o] + (IF o = s /\ Hears(s, k, e) THEN 1 ELSE 0)]]
    <2> DEFINE e0 == Entry(s, k).name
    <2>1. e0 \in Events /\ s \in Owners
      BY CallTypes, RouterTypes
    <2>2. subscribers \in [Events -> [Owners -> Nat]]
      BY RouterTypes
    <2>3. \A e : Hears(s, k, e) <=> e = e0
      BY DEF Hears
    <2>4. subscribers' = [subscribers EXCEPT ![e0][s] = @ + 1]
      BY DEF Subscribe
    <2> HIDE DEF e0
    <2>5. subscribers' = [e \in Events |-> IF e = e0 THEN [subscribers[e] EXCEPT ![s] = @ + 1] ELSE subscribers[e]]
      BY <2>1, <2>2, <2>4
    <2>6. \A e \in Events : subscribers[e] \in [Owners -> Nat]
      BY <2>2
    <2>7. \A e \in Events : subscribers'[e] =
              [o \in Owners |-> subscribers[e][o] + (IF o = s /\ e = e0 THEN 1 ELSE 0)]
      BY <2>1, <2>5, <2>6
    <2> QED
      BY <2>3, <2>5, <2>7
  <1>2. Registered(s, k)
    BY <1>0, <1>1, SameNames DEF Subscribe, Registered
  <1>3. Recorded(s, k)
    BY <1>0, SameBooks, RouterTypes DEF Recorded
  <1>4. TreeCurrent'
    BY <1>0 DEF TreeCurrent
  <1> QED
    BY <1>2, <1>3, <1>4

\* The operation that a Handle or a Group leaves on record.
LEMMA CallIsOperation ==
    ASSUME NEW s \in Services, NEW k \in Entries(s), Entry(s, k).kind \in {"handle", "group"},
           NEW g \in BOOLEAN, NEW op, op = [svc |-> s, group |-> g, handles |-> Entry(s, k).handles]
    PROVE  /\ op \in Operations
           /\ RoutesOf(op) = RoutesOf(Entry(s, k)) /\ GuardNames(op) = GuardNames(Entry(s, k))
           /\ \A r : Serves(s, k, r) <=> r \in RoutesOf(op)
  <1>1. Entry(s, k) \in Registrations
    BY CallTypes
  <1>2. op \in Operations
    BY <1>1 DEF Registrations, Operations
  <1>3. RoutesOf(op) = RoutesOf(Entry(s, k)) /\ GuardNames(op) = GuardNames(Entry(s, k))
    BY DEF RoutesOf, GuardNames
  <1> QED
    BY <1>2, <1>3 DEF Serves

LEMMA HandleEffect ==
    ASSUME TypeInv, TreeCurrent, NEW s \in Services, NEW k \in Entries(s),
           Entry(s, k).kind = "handle", Handle(s, Entry(s, k).handles[1]), UNCHANGED busVars
    PROVE  Registered(s, k) /\ Recorded(s, k) /\ TreeCurrent'
  <1> DEFINE h == Entry(s, k).handles[1]
             op == [svc |-> s, group |-> FALSE, handles |-> Entry(s, k).handles]
  <1>1. Entry(s, k).handles = <<h>>
    BY CallTypes
  <1>2. op \in Operations /\ \A r : Serves(s, k, r) <=> r \in RoutesOf(op)
    BY CallIsOperation
  <1>3. GuardNames(Entry(s, k)) = h.mws
    <2>1. SetOf(<<h>>) = {h}
      BY DEF SetOf
    <2> QED
      BY <1>1, <2>1 DEF GuardNames
  <1>4. Registered(s, k)
    BY <1>3, SameBus, SameNames DEF Handle, Validates, Registered, NeededBy, busVars
  <1>5. /\ ops' = Append(ops, op) /\ sealed' = sealed /\ globals' = globals /\ registry' = registry
        /\ Publish(ops', globals, registry,
                   Booked(routes, ops', {Len(ops')}), Forgotten(removed, ops', {Len(ops')}))
    BY <1>1 DEF Handle
  <1>6. ops'[Len(ops')] = op
    BY <1>2, <1>5, RouterTypes
  <1> DEFINE rt == Booked(routes, ops', {Len(ops')})
             rm == Forgotten(removed, ops', {Len(ops')})
  <1>7. /\ rt \in Books /\ rm \in Overlays
        /\ rt = BookedBy(routes, op) /\ rm = ForgottenBy(removed, op)
    <2>1. routes \in Books /\ removed \in Overlays /\ ops' \in Seq(Operations) /\ Len(ops') \in 1..Len(ops')
      BY <1>2, <1>5, RouterTypes
    <2> DEFINE o == ops'  i == Len(ops')
    <2> HIDE DEF o, i, op
    <2>2. routes \in Books /\ removed \in Overlays /\ o \in Seq(Operations) /\ i \in 1..Len(o)
      BY <2>1 DEF o, i
    <2>3. /\ Booked(routes, o, {i}) = BookedBy(routes, o[i]) /\ Forgotten(removed, o, {i}) = ForgottenBy(removed, o[i])
          /\ Booked(routes, o, {i}) \in Books /\ Forgotten(removed, o, {i}) \in Overlays
      BY <2>2, BookedOne
    <2> QED
      BY <1>6, <2>3 DEF o, i
  <1>8. op.group = FALSE /\ op.svc = s /\ op.handles = Entry(s, k).handles
    OBVIOUS
  <1> HIDE DEF rt, rm, op
  <1>9. /\ routes' = Booked(rt, ops', {}) /\ removed' = Forgotten(rm, ops', {})
        /\ bookedOps' = IF sealed THEN Len(ops') ELSE 0
        /\ sealed => served' = Tree(ops', globals, registry, Forgotten(rm, ops', {}))
        /\ ~sealed => served' = served
    <2>1. Publish(ops', globals, registry, rt, rm)
      BY <1>5 DEF rt, rm
    <2>2. \A new : new = (IF op.group /\ sealed THEN {Len(ops')} ELSE {}) => new = {}
      BY <1>8
    <2>3. /\ ops \in Seq(Operations) /\ bookedOps = (IF sealed THEN Len(ops) ELSE 0) /\ sealed' = sealed
          /\ rt \in Books /\ rm \in Overlays /\ op \in Operations /\ ops' = Append(ops, op)
      BY <1>2, <1>5, <1>7, RouterTypes
    <2> QED
      BY <2>1, <2>2, <2>3, PublishOneMore
  <1>10. /\ routes' = rt /\ removed' = rm
         /\ sealed => served' = Tree(ops', globals, registry, rm)
         /\ ~sealed => served' = served
    BY <1>7, <1>9, BookedNone
  <1>11. Counts(s, k)
    BY DEF Counts
  <1>12. routes' = [t \in Services |-> [r \in Routes |->
            routes[t][r] + (IF t = s /\ Serves(s, k, r) /\ Counts(s, k) THEN 1 ELSE 0)]]
    BY <1>2, <1>7, <1>8, <1>10, <1>11 DEF BookedBy
  <1>13. removed' = [t \in Services |->
            IF t = s /\ Counts(s, k) /\ Entry(s, k).handles # << >> THEN {} ELSE removed[t]]
    BY <1>7, <1>8, <1>10, <1>11 DEF ForgottenBy
  <1>14. Recorded(s, k)
    BY <1>5, <1>9, <1>12, <1>13 DEF Recorded, op
  <1>15. TreeCurrent'
    BY <1>5, <1>10 DEF TreeCurrent
  <1> QED
    BY <1>4, <1>14, <1>15

LEMMA GroupEffect ==
    ASSUME TypeInv, TreeCurrent, NEW s \in Services, NEW k \in Entries(s),
           Entry(s, k).kind = "group", Group(s, Entry(s, k).handles), UNCHANGED busVars
    PROVE  Registered(s, k) /\ Recorded(s, k) /\ TreeCurrent'
  <1> DEFINE op == [svc |-> s, group |-> TRUE, handles |-> Entry(s, k).handles]
  <1>1. op \in Operations /\ \A r : Serves(s, k, r) <=> r \in RoutesOf(op)
    BY CallIsOperation
  <1>2. Registered(s, k)
    BY SameBus, SameNames DEF Group, Registered, busVars
  <1>3. /\ ops' = Append(ops, op) /\ sealed' = sealed /\ globals' = globals /\ registry' = registry
        /\ Publish(ops', globals, registry, routes, removed)
    BY DEF Group
  <1>4. ops'[Len(ops')] = op
    BY <1>1, <1>3, RouterTypes
  <1>5. op.group = TRUE /\ op.svc = s /\ op.handles = Entry(s, k).handles
    OBVIOUS
  <1> HIDE DEF op
  <1> DEFINE new == IF op.group /\ sealed THEN {Len(ops')} ELSE {}
             rt == Booked(routes, ops', new)
             rm == Forgotten(removed, ops', new)
  <1>6. /\ routes' = rt /\ removed' = rm
        /\ bookedOps' = IF sealed THEN Len(ops') ELSE 0
        /\ sealed => served' = Tree(ops', globals, registry, rm)
        /\ ~sealed => served' = served
    <2>1. /\ ops \in Seq(Operations) /\ bookedOps = (IF sealed THEN Len(ops) ELSE 0) /\ sealed' = sealed
          /\ routes \in Books /\ removed \in Overlays /\ op \in Operations /\ ops' = Append(ops, op)
          /\ Publish(ops', globals, registry, routes, removed)
      BY <1>1, <1>3, RouterTypes
    <2> QED
      BY <2>1, PublishOneMore
  <1>7. Counts(s, k) <=> sealed
    BY DEF Counts
  <1>8. /\ rt = [t \in Services |-> [r \in Routes |->
                    routes[t][r] + (IF t = s /\ Serves(s, k, r) /\ Counts(s, k) THEN 1 ELSE 0)]]
        /\ rm = [t \in Services |->
                    IF t = s /\ Counts(s, k) /\ Entry(s, k).handles # << >> THEN {} ELSE removed[t]]
    <2>1. CASE sealed
      <3>1. new = {Len(ops')}
        BY <1>5, <2>1
      <3> HIDE DEF new
      <3>2. rt = BookedBy(routes, op) /\ rm = ForgottenBy(removed, op)
        <4>1. routes \in Books /\ removed \in Overlays /\ ops' \in Seq(Operations) /\ Len(ops') \in 1..Len(ops')
          BY <1>1, <1>3, RouterTypes
        <4> DEFINE o == ops'  i == Len(ops')
        <4> HIDE DEF o, i
        <4>2. routes \in Books /\ removed \in Overlays /\ o \in Seq(Operations) /\ i \in 1..Len(o)
          BY <4>1 DEF o, i
        <4>3. /\ Booked(routes, o, {i}) = BookedBy(routes, o[i])
              /\ Forgotten(removed, o, {i}) = ForgottenBy(removed, o[i])
          BY <4>2, BookedOne
        <4> QED
          BY <1>4, <3>1, <4>3 DEF o, i
      <3> HIDE DEF rt, rm
      <3> QED
        BY <1>1, <1>5, <1>7, <2>1, <3>2 DEF BookedBy, ForgottenBy
    <2>2. CASE ~sealed
      <3>1. new = {}
        BY <2>2
      <3> HIDE DEF new
      <3>2. rt = routes /\ rm = removed
        BY <3>1, RouterTypes, BookedNone
      <3> HIDE DEF rt, rm
      <3> QED
        BY <1>7, <2>2, <3>2, RouterTypes DEF Books, Overlays
    <2> QED
      BY <2>1, <2>2, RouterTypes
  <1> HIDE DEF rt, rm
  <1>9. Recorded(s, k)
    BY <1>3, <1>6, <1>8 DEF Recorded, op
  <1>10. TreeCurrent'
    BY <1>3, <1>6 DEF TreeCurrent
  <1> QED
    BY <1>2, <1>9, <1>10

\* A step of an Init registers what the script says, and the tree follows.
LEMMA InitEffect ==
    ASSUME TypeInv, TreeCurrent, NEW p \in Procs, InitStep(p)
    PROVE  /\ job[p] \in Services /\ step[p] \in Entries(job[p])
           /\ Registered(job[p], step[p]) /\ Recorded(job[p], step[p]) /\ TreeCurrent'
  <1>1. job[p] \in Services
    BY DEF InitStep, TypeInv, Placed, Procs
  <1>2. step[p] \in Entries(job[p])
    BY <1>1, CallTypes, KillSwitchAssumption DEF InitStep, TypeInv, TypeOK, Entries
  <1>3. Perform(job[p], Entry(job[p], step[p]))
    BY DEF InitStep, Entry
  <1> DEFINE s == job[p]  k == step[p]
  <1> HIDE DEF s, k
  <1>4. Perform(s, Entry(s, k)) /\ s \in Services /\ k \in Entries(s)
    BY <1>1, <1>2, <1>3 DEF s, k
  <1>5. Registered(s, k) /\ Recorded(s, k) /\ TreeCurrent'
    BY <1>4, RegisterEffect, UseEffect, NotFoundEffect, SubscribeEffect, HandleEffect, GroupEffect
       DEF Perform
  <1> QED
    BY <1>1, <1>2, <1>5 DEF s, k

(***************************************************************************)
(* Seal and RemoveByService                                                *)
(***************************************************************************)
LEMMA SealEffect ==
    ASSUME TypeInv, Seal
    PROVE  /\ ~sealed /\ sealed' /\ bookedOps' = Len(ops)
           /\ UNCHANGED <<ops, globals, registry, retired, notFoundHandlerService>>
           /\ routes' = [s \in Services |-> [r \in Routes |-> routes[s][r] + Cardinality(GroupOps(s, r))]]
           /\ removed' = [s \in Services |->
                IF \E i \in 1..Len(ops) : ops[i].group /\ ops[i].svc = s /\ ops[i].handles # << >>
                THEN {} ELSE removed[s]]
           /\ TreeCurrent'
  <1> DEFINE new == {i \in 1..Len(ops) : ops[i].group}
  <1>1. ~sealed /\ sealed' /\ Publish(ops, globals, registry, routes, removed)
    BY DEF Seal
  <1>2. FirstBuilt(ops) = new
    BY <1>1, RouterTypes DEF FirstBuilt
  <1>3. \A s, r : {i \in new : ops[i].svc = s /\ r \in RoutesOf(ops[i])} = GroupOps(s, r)
    BY DEF GroupOps
  <1>4. Booked(routes, ops, new) =
            [s \in Services |-> [r \in Routes |-> routes[s][r] + Cardinality(GroupOps(s, r))]]
    <2> HIDE DEF new
    <2> QED
      BY <1>3 DEF Booked
  <1>5. Forgotten(removed, ops, new) =
            [s \in Services |->
                IF \E i \in 1..Len(ops) : ops[i].group /\ ops[i].svc = s /\ ops[i].handles # << >>
                THEN {} ELSE removed[s]]
    BY DEF Forgotten
  <1>6. /\ routes' = Booked(routes, ops, new) /\ removed' = Forgotten(removed, ops, new)
        /\ bookedOps' = Len(ops) /\ served' = Tree(ops, globals, registry, removed')
    BY <1>1, <1>2 DEF Publish, BookedAll
  <1>7. UNCHANGED <<ops, globals, registry, retired, notFoundHandlerService>>
    BY DEF Seal
  <1>8. TreeCurrent'
    BY <1>1, <1>6, <1>7 DEF TreeCurrent
  <1> QED
    BY <1>1, <1>4, <1>5, <1>6, <1>7, <1>8

\* What RemoveByService leaves of the books, at work on s.
Zeros == [r \in Routes |-> 0]
LEMMA TornDownType == ASSUME TypeInv, NEW s \in Services PROVE TornDown(s) \in SUBSET Routes
  BY RouterTypes DEF TornDown, Overlays
LEMMA RemoveEffect ==
    ASSUME TypeInv, TreeCurrent, NEW s \in Services, RemoveByService(s)
    PROVE  /\ registry' = [m \in Middlewares |-> IF registry[m] = s THEN NoOne ELSE registry[m]]
           /\ retired' = [m \in Middlewares |-> IF registry[m] = s THEN s ELSE retired[m]]
           /\ UNCHANGED <<ops, globals, sealed, notFoundHandlerService, bookedOps>>
           /\ routes' = [routes EXCEPT ![s] = Zeros]
           /\ removed' = [removed EXCEPT ![s] = TornDown(s)]
           /\ TreeCurrent'
  <1> DEFINE rt == [routes EXCEPT ![s] = Zeros]
             rm == [removed EXCEPT ![s] = TornDown(s)]
             owned == {m \in Middlewares : registry[m] = s}
  <1>1. rt \in Books
    BY RouterTypes DEF Books, Zeros
  <1>2. rm \in Overlays
    BY RouterTypes, TornDownType DEF Overlays
  <1>3. /\ UNCHANGED <<ops, globals, sealed, notFoundHandlerService>>
        /\ Publish(ops, globals, registry', rt, rm)
    BY DEF RemoveByService, Zeros
  <1>4. /\ registry' = [m \in Middlewares |-> IF m \in owned THEN NoOne ELSE registry[m]]
        /\ retired' = [m \in Middlewares |-> IF m \in owned THEN s ELSE retired[m]]
    BY DEF RemoveByService
  <1>5. \A m \in Middlewares : m \in owned <=> registry[m] = s
    OBVIOUS
  <1> HIDE DEF rt, rm, owned
  <1>6. /\ routes' = rt /\ removed' = rm /\ bookedOps' = IF sealed THEN Len(ops) ELSE 0
        /\ sealed => served' = Tree(ops, globals, registry', rm)
        /\ ~sealed => served' = served
    BY <1>1, <1>2, <1>3, RouterTypes, PublishSame
  <1>7. TreeCurrent'
    BY <1>3, <1>6 DEF TreeCurrent
  <1>8. bookedOps' = bookedOps
    BY <1>6, RouterTypes
  <1> QED
    BY <1>3, <1>4, <1>5, <1>6, <1>7, <1>8 DEF rt, rm

\* A tree answers each route in one of three ways.
LEMMA TreeType ==
    ASSUME NEW o \in Seq(Operations), NEW g \in Seq(Middlewares), NEW reg, NEW rm
    PROVE  Tree(o, g, reg, rm) \in
                [Routes -> [code : {200, 404, 503}, svc : Services \cup {NoOne}, guards : SUBSET Middlewares]]
  <1> DEFINE T == [code : {200, 404, 503}, svc : Services \cup {NoOne}, guards : SUBSET Middlewares]
  <1>1. Unavailable \in T /\ NotRouted \in T
    BY DEF Unavailable, NotRouted
  <1>2. ASSUME NEW r \in Routes, NEW i \in 1..Len(o), r \in RoutesOf(o[i])
        PROVE  Open(o[LastOp(o, r)].svc, SetOf(g) \cup Guards(o[LastOp(o, r)], r)) \in T
    <2>1. LastOp(o, r) \in 1..Len(o)
      BY <1>2, LastOpIs
    <2>2. o[LastOp(o, r)] \in Operations
      BY <2>1
    <2>3. ASSUME NEW op \in Operations PROVE op.svc \in Services /\ Guards(op, r) \subseteq Middlewares
      <3>1. op.svc \in Services /\ op.handles \in Seq([route : Routes, mws : SUBSET Middlewares])
        BY DEF Operations
      <3>2. \A h \in SetOf(op.handles) : h.mws \subseteq Middlewares
        <4> DEFINE H == [route : Routes, mws : SUBSET Middlewares]
                   hs == op.handles
        <4>1. hs \in Seq(H)
          BY <3>1
        <4>2. \A h \in H : h.mws \subseteq Middlewares
          OBVIOUS
        <4> HIDE DEF H, hs
        <4>3. \A j \in 1..Len(hs) : hs[j] \in H
          BY <4>1
        <4> QED
          BY <4>2, <4>3 DEF SetOf, hs
      <3> QED
        BY <3>1, <3>2 DEF Guards
    <2>4. SetOf(g) \subseteq Middlewares
      BY DEF SetOf
    <2> QED
      BY <2>2, <2>3, <2>4 DEF Open
  <1>3. ASSUME NEW r \in Routes
        PROVE  Tree(o, g, reg, rm)[r] \in T
    <2>1. CASE Overlaid(rm, r) \/ \A i \in 1..Len(o) : r \notin RoutesOf(o[i])
      BY <1>1, <2>1 DEF Tree
    <2>2. CASE ~Overlaid(rm, r) /\ \E i \in 1..Len(o) : r \in RoutesOf(o[i])
      <3> HIDE DEF T
      <3> QED
        BY <1>1, <1>2, <2>2 DEF Tree
    <2> QED
      BY <2>1, <2>2
  <1> HIDE DEF T
  <1>4. Tree(o, g, reg, rm) \in [Routes -> T]
    BY <1>3 DEF Tree
  <1> QED
    BY <1>4 DEF T

(***************************************************************************)
(* TypeInv and TreeCurrent are kept                                        *)
(***************************************************************************)
\* The step leaves the goroutines where they are.
LEMMA InitType == Init => TypeInv /\ TreeCurrent
  <1> SUFFICES ASSUME Init PROVE TypeInv /\ TreeCurrent
    OBVIOUS
  <1>1. Order[1] \in Services /\ Position(Order[1]) = 1
    BY Positions
  <1>2. \A s \in Services : StartReach(s) = 1
    BY <1>1, Positions DEF Init, StartReach, Procs
  <1>3. Placed
    <2>1. \A p \in Admins : pc[p] = "idle"
      BY KillSwitchAssumption DEF Init, Procs
    <2>2. pc[Starter] = "init" /\ job[Starter] = Order[1] /\ step[Starter] = 1
      BY DEF Init, Procs
    <2> QED
      BY <1>1, <2>1, <2>2, CallTypes DEF Placed, Init, RouterInit
  <1>4. BusTypeOK
    <2>1. [NoneOf EXCEPT ![Nobody] = 1] \in [Owners -> Nat] /\ NoneOf \in [Owners -> Nat]
      BY DEF NoneOf
    <2>2. Idle \in [event : Events \cup {"none"}, about : Owners \cup {"none"}, left : [Owners -> Nat]]
      BY <2>1 DEF Idle
    <2> QED
      BY <2>1, <2>2 DEF Init, BusTypeOK
  <1>5. RouterTypeOK
    <2>1. /\ ops = << >> /\ globals = << >> /\ bookedOps = 0 /\ sealed = FALSE
          /\ notFoundHandlerService = NoOne
      BY DEF Init, RouterInit
    <2>2. /\ registry \in [Middlewares -> Services \cup {NoOne}]
          /\ retired \in [Middlewares -> Services \cup {NoOne}]
      BY DEF Init, RouterInit
    <2>3. routes \in [Services -> [Routes -> Nat]] /\ removed \in [Services -> SUBSET Routes]
      BY DEF Init, RouterInit
    <2>4. served \in [Routes -> [code : {200, 404, 503}, svc : Services \cup {NoOne},
                                 guards : SUBSET Middlewares]]
      BY DEF Init, RouterInit, NotRouted
    <2>5. ops \in Seq([svc : Services, group : BOOLEAN,
                       handles : Seq([route : Routes, mws : SUBSET Middlewares])])
      <3> DEFINE O == [svc : Services, group : BOOLEAN,
                       handles : Seq([route : Routes, mws : SUBSET Middlewares])]
      <3> HIDE DEF O
      <3>1. ops \in Seq(O)
        BY <2>1
      <3> QED
        BY <3>1 DEF O
    <2> QED
      <3>1. Len(ops) = 0 /\ globals \in Seq(Middlewares)
        BY <2>1
      <3>2. bookedOps \in 0..Len(ops) /\ sealed \in BOOLEAN /\ notFoundHandlerService \in Services \cup {NoOne}
        <4>1. bookedOps \in 0..Len(ops)
          BY <2>1, <3>1
        <4>2. sealed \in BOOLEAN
          BY <2>1
        <4>3. notFoundHandlerService \in Services \cup {NoOne}
          BY <2>1
        <4> QED
          BY <4>1, <4>2, <4>3
      <3> QED
        BY <2>2, <2>3, <2>4, <2>5, <3>1, <3>2 DEF RouterTypeOK
  <1>6. TypeOK
    BY <1>1, <1>4, <1>5, KillSwitchAssumption DEF TypeOK, Init, Procs
  <1>7. ops = << >> /\ globals = << >> /\ bookedOps = 0 /\ ~sealed
    BY DEF Init, RouterInit
  <1>8. RecordIsScripted /\ InitsRecorded /\ \A m \in SetOf(globals) : Known(m)
    BY <1>2, <1>7 DEF RecordIsScripted, InitsRecorded, SetOf
  <1>9. TreeCurrent
    BY <1>7 DEF TreeCurrent, Init, RouterInit
  <1> QED
    BY <1>3, <1>6, <1>7, <1>8, <1>9 DEF TypeInv

\* The types of the router's state after a step that keeps the others.
ServedType == [Routes -> [code : {200, 404, 503}, svc : Services \cup {NoOne}, guards : SUBSET Middlewares]]
LEMMA RegisteredTypes ==
    ASSUME TypeInv, TreeCurrent', NEW s \in Services, NEW k \in Entries(s), Registered(s, k), Recorded(s, k)
    PROVE  RouterTypeOK' /\ BusTypeOK'
  <1>1. ops' \in Seq(Operations)
    <2>1. ASSUME Entry(s, k).kind \in {"handle", "group"}
          PROVE  [svc |-> s, group |-> Entry(s, k).kind = "group", handles |-> Entry(s, k).handles] \in Operations
      BY <2>1, CallIsOperation
    <2> QED
      BY <2>1, RouterTypes DEF Recorded
  <1>2. globals' \in Seq(Middlewares)
    BY RouterTypes, CallTypes DEF Registered
  <1>3. registry' \in [Middlewares -> Services \cup {NoOne}] /\ retired' \in [Middlewares -> Services \cup {NoOne}]
    BY RouterTypes DEF Registered
  <1>4. routes' \in Books
    <2>1. \A t \in Services, r \in Routes : routes[t][r] \in Nat
      BY RouterTypes DEF Books
    <2> QED
      BY <2>1 DEF Recorded, Books
  <1>5. removed' \in Overlays
    BY RouterTypes DEF Recorded, Overlays
  <1>6. served' \in ServedType
    <2>1. [r \in Routes |-> NotRouted] \in ServedType
      BY DEF ServedType, NotRouted
    <2> QED
      BY <1>1, <1>2, <2>1, TreeType DEF TreeCurrent, ServedType
  <1>7. sealed' \in BOOLEAN /\ bookedOps' \in 0..Len(ops')
    BY <1>1, RouterTypes DEF Recorded
  <1>8. notFoundHandlerService' \in Services \cup {NoOne}
    BY DEF Registered, TypeInv, TypeOK, RouterTypeOK
  <1>9. BusTypeOK'
    <2>1. \A e \in Events, o \in Owners : subscribers[e][o] \in Nat
      BY RouterTypes
    <2>2. subscribers' \in [Events -> [Owners -> Nat]]
      BY <2>1 DEF Registered
    <2> QED
      BY <2>2 DEF Registered, TypeInv, TypeOK, BusTypeOK
  <1> QED
    BY <1>1, <1>2, <1>3, <1>4, <1>5, <1>6, <1>7, <1>8, <1>9
       DEF RouterTypeOK, Operations, Books, Overlays, ServedType

\* A name that is known stays known.
LEMMA KnownGrows ==
    ASSUME TypeInv, NEW s \in Services, NEW k \in Entries(s), Registered(s, k)
    PROVE  /\ \A m \in Middlewares : Known(m) => Known(m)'
           /\ \A m \in Middlewares : Names(s, k, m) => Known(m)'
  BY KillSwitchAssumption, RouterTypes DEF Registered, Known

\* The record grows by what the script says.
LEMMA RecordGrows ==
    ASSUME TypeInv, NEW s \in Services, NEW k \in Entries(s), Recorded(s, k)
    PROVE  /\ RecordIsScripted'
           /\ \A i \in 1..Len(ops) : i \in 1..Len(ops') /\ ops'[i] = ops[i]
           /\ Entry(s, k).kind \in {"handle", "group"} =>
                \E i \in 1..Len(ops') : ops'[i].svc = s /\ ops'[i].handles = Entry(s, k).handles
  <1>1. CASE Entry(s, k).kind \in {"handle", "group"}
    <2> DEFINE op == [svc |-> s, group |-> Entry(s, k).kind = "group", handles |-> Entry(s, k).handles]
    <2>1. op \in Operations /\ ops' = Append(ops, op) /\ ops \in Seq(Operations)
      BY <1>1, CallIsOperation, RouterTypes DEF Recorded
    <2>2. /\ Entry(op.svc, k).kind = IF op.group THEN "group" ELSE "handle"
          /\ op.handles = Entry(op.svc, k).handles /\ op.svc = s
      BY <1>1
    <2> HIDE DEF op
    <2>3. /\ Len(ops') = Len(ops) + 1 /\ ops'[Len(ops) + 1] = op
          /\ \A i \in 1..Len(ops) : i \in 1..Len(ops') /\ ops'[i] = ops[i]
      BY <2>1
    <2>4. RecordIsScripted'
      <3> SUFFICES ASSUME NEW i \in 1..Len(ops')
                   PROVE  \E j \in Entries(ops'[i].svc) :
                            /\ Entry(ops'[i].svc, j).kind = IF ops'[i].group THEN "group" ELSE "handle"
                            /\ ops'[i].handles = Entry(ops'[i].svc, j).handles
        BY DEF RecordIsScripted
      <3>1. CASE i = Len(ops) + 1
        BY <2>2, <2>3, <3>1
      <3>2. CASE i \in 1..Len(ops)
        BY <2>3, <3>2 DEF TypeInv, RecordIsScripted
      <3> QED
        BY <2>1, <2>3, <3>1, <3>2
    <2> QED
      BY <2>1, <2>2, <2>3, <2>4
  <1>2. CASE Entry(s, k).kind \notin {"handle", "group"}
    BY <1>2 DEF Recorded, TypeInv, RecordIsScripted
  <1> QED
    BY <1>1, <1>2

\* The first Init of a service has come as far as the starter.
LEMMA StartReachIs ==
    ASSUME TypeInv, NEW s \in Services
    PROVE  /\ StartReach(s) \in 1..Len(Script[s]) + 1
           /\ pc[Starter] # "init" => StartReach(s) = Len(Script[s]) + 1
  <1>1. step[Starter] \in Nat \ {0}
    BY DEF TypeInv, TypeOK, Procs
  <1> QED
    BY <1>1, CallTypes DEF StartReach, TypeInv, Placed

LEMMA SetOfAppend == ASSUME NEW S, NEW g \in Seq(S), NEW x \in S PROVE SetOf(Append(g, x)) = SetOf(g) \cup {x}
  <1> DEFINE a == Append(g, x)
  <1>1. Len(a) = Len(g) + 1 /\ a[Len(g) + 1] = x /\ \A i \in 1..Len(g) : a[i] = g[i]
    OBVIOUS
  <1>2. Len(g) \in Nat
    OBVIOUS
  <1> HIDE DEF a
  <1>3. SetOf(a) = SetOf(g) \cup {x}
    <2>1. ASSUME NEW y \in SetOf(a) PROVE y \in SetOf(g) \cup {x}
      BY <1>1, <1>2, <2>1 DEF SetOf
    <2>2. ASSUME NEW y \in SetOf(g) PROVE y \in SetOf(a)
      <3>1. PICK i \in 1..Len(g) : y = g[i]
        BY <2>2 DEF SetOf
      <3>2. i \in 1..Len(a) /\ a[i] = y
        BY <1>1, <1>2, <3>1
      <3> QED
        BY <3>2 DEF SetOf
    <2>3. x \in SetOf(a)
      <3>1. Len(a) \in 1..Len(a) /\ a[Len(a)] = x
        BY <1>1, <1>2
      <3> QED
        BY <3>1 DEF SetOf
    <2> QED
      BY <2>1, <2>2, <2>3
  <1> QED
    BY <1>3 DEF a

LEMMA InitStepType ==
    ASSUME TypeInv, TreeCurrent, NEW p \in Procs, InitStep(p)
    PROVE  TypeInv' /\ TreeCurrent'
  <1>0. PICK s \in Services : s = job[p]
    BY InitEffect
  <1>00. PICK k \in Entries(s) : k = step[p]
    BY <1>0, InitEffect
  <1>1. s \in Services /\ k \in Entries(s) /\ Registered(s, k) /\ Recorded(s, k) /\ TreeCurrent'
    BY <1>0, <1>00, InitEffect
  <1>2. /\ step' = [step EXCEPT ![p] = k + 1] /\ k \in Nat \ {0} /\ k <= Len(Script[s])
        /\ UNCHANGED <<mu, active, closed, pc, job, restarts>> /\ pc[p] = "init"
    BY <1>0, <1>00 DEF InitStep, TypeInv, TypeOK
  <1>3. RouterTypeOK' /\ BusTypeOK'
    BY <1>1, RegisteredTypes
  <1>4. TypeOK'
    <2>1. step' \in [Procs -> Nat \ {0}]
      BY <1>2 DEF TypeInv, TypeOK
    <2> QED
      BY <1>2, <1>3, <2>1 DEF TypeInv, TypeOK
  <1>5. sealed' = sealed /\ bookedOps' = IF sealed THEN Len(ops') ELSE 0
    BY <1>1 DEF Recorded
  <1>6. Placed'
    <2>1. \A q \in Procs : step'[q] = IF q = p THEN k + 1 ELSE step[q]
      BY <1>2 DEF TypeInv, TypeOK
    <2>2. Len(Script[s]) \in Nat
      BY <1>1, CallTypes
    <2> QED
      BY <1>0, <1>2, <1>5, <2>1, <2>2 DEF TypeInv, Placed, Procs
  <1>7. RecordIsScripted'
    BY <1>1, RecordGrows
  <1>8. \A m \in SetOf(globals') : Known(m)'
    <2>1. ASSUME Entry(s, k).kind = "use" PROVE Entry(s, k).name \in Middlewares /\ Known(Entry(s, k).name)
      BY <1>1, <2>1, CallTypes DEF Registered, NeededBy, Known
    <2>2. \A m \in SetOf(globals') : m \in Middlewares /\ Known(m)
      <3>1. \A m \in SetOf(globals) : m \in Middlewares /\ Known(m)
        BY RouterTypes DEF TypeInv, SetOf
      <3>2. CASE Entry(s, k).kind = "use"
        <4>1. SetOf(Append(globals, Entry(s, k).name)) = SetOf(globals) \cup {Entry(s, k).name}
          BY <2>1, <3>2, RouterTypes, SetOfAppend
        <4> QED
          BY <1>1, <2>1, <3>1, <3>2, <4>1 DEF Registered
      <3>3. CASE Entry(s, k).kind # "use"
        BY <1>1, <3>1, <3>3 DEF Registered
      <3> QED
        BY <3>2, <3>3
    <2> QED
      BY <1>1, <2>2, KnownGrows
  <1>9. InitsRecorded'
    <2>1. ASSUME NEW t \in Services, NEW j \in Entries(t), OnRecord(t, j) PROVE OnRecord(t, j)'
      <3>1. Entry(t, j).kind = "register" => Entry(t, j).name \in Middlewares
        BY <2>1, CallTypes
      <3>2. Entry(t, j).kind = "register" => (Known(Entry(t, j).name) => Known(Entry(t, j).name)')
        BY <1>1, <3>1, KnownGrows
      <3>3. notFoundHandlerService # NoOne => notFoundHandlerService' # NoOne
        BY <1>1, KillSwitchAssumption DEF Registered
      <3>4. \A i \in 1..Len(ops) : i \in 1..Len(ops') /\ ops'[i] = ops[i]
        BY <1>1, RecordGrows
      <3>5. ASSUME Entry(t, j).kind \in {"handle", "group"}
            PROVE  \E i \in 1..Len(ops') : ops'[i].svc = t /\ ops'[i].handles = Entry(t, j).handles
        <4>1. PICK i \in 1..Len(ops) : ops[i].svc = t /\ ops[i].handles = Entry(t, j).handles
          BY <2>1, <3>5 DEF OnRecord
        <4> QED
          BY <3>4, <4>1
      <3> QED
        BY <2>1, <3>2, <3>3, <3>5 DEF OnRecord, Entry
    <2>2. OnRecord(s, k)'
      <3>1. Entry(s, k).kind = "register" => Known(Entry(s, k).name)'
        <4>1. Entry(s, k).kind = "register" =>
                 Entry(s, k).name \in Middlewares /\ Names(s, k, Entry(s, k).name)
          BY <1>1, CallTypes DEF Names
        <4> QED
          BY <1>1, <4>1, KnownGrows
      <3>2. Entry(s, k).kind = "notfound" => notFoundHandlerService' # NoOne
        BY <1>1, KillSwitchAssumption DEF Registered
      <3>3. Entry(s, k).kind \in {"handle", "group"} =>
                \E i \in 1..Len(ops') : ops'[i].svc = s /\ ops'[i].handles = Entry(s, k).handles
        BY <1>1, RecordGrows
      <3> QED
        BY <3>1, <3>2, <3>3 DEF OnRecord, Entry
    <2>3. ASSUME NEW t \in Services, NEW j \in 1..StartReach(t)' - 1
          PROVE  j \in 1..StartReach(t) - 1 \/ (t = s /\ j = k)
      <3>1. \A q \in Procs : step'[q] = IF q = p THEN k + 1 ELSE step[q]
        BY <1>2 DEF TypeInv, TypeOK
      <3>2. Len(Script[t]) \in Nat
        BY CallTypes
      <3>3. CASE p = Starter
        BY <1>0, <1>00, <1>2, <2>3, <3>1, <3>2, <3>3 DEF StartReach, Procs
      <3>4. CASE p # Starter
        BY <1>0, <1>00, <1>2, <2>3, <3>1, <3>2, <3>4 DEF StartReach, Procs
      <3> QED
        BY <3>3, <3>4
    <2>4. \A t \in Services : \A j \in 1..StartReach(t) - 1 : j \in Entries(t) /\ OnRecord(t, j)
      <3> SUFFICES ASSUME NEW t \in Services, NEW j \in 1..StartReach(t) - 1
                   PROVE  j \in Entries(t) /\ OnRecord(t, j)
        OBVIOUS
      <3> QED
        BY StartReachIs, CallTypes DEF TypeInv, InitsRecorded, Entries
    <2> SUFFICES ASSUME NEW t \in Services, NEW j \in 1..StartReach(t)' - 1
                 PROVE  OnRecord(t, j)'
      BY DEF InitsRecorded
    <2> QED
      BY <2>1, <2>2, <2>3, <2>4
  <1> QED
    BY <1>1, <1>4, <1>5, <1>6, <1>7, <1>8, <1>9 DEF TypeInv

\* A step that does not touch the router and leaves the first Inits as far as
\* they are.
LEMMA RecordKept ==
    ASSUME TypeInv, TreeCurrent, UNCHANGED routerVars,
           \A s \in Services : StartReach(s)' = StartReach(s)
    PROVE  /\ RouterTypeOK' /\ RecordIsScripted' /\ InitsRecorded' /\ TreeCurrent'
           /\ bookedOps' = IF sealed' THEN Len(ops') ELSE 0
           /\ \A m \in SetOf(globals') : Known(m)'
  <1>1. UNCHANGED <<ops, bookedOps, globals, registry, retired, routes, removed, sealed,
                    notFoundHandlerService, served>>
    BY DEF routerVars
  <1>2. RouterTypeOK' /\ RecordIsScripted' /\ TreeCurrent'
    BY <1>1 DEF TypeInv, TypeOK, RouterTypeOK, RecordIsScripted, TreeCurrent
  <1>3. InitsRecorded'
    <2>1. \A s \in Services : \A k : OnRecord(s, k) => OnRecord(s, k)'
      BY <1>1 DEF OnRecord, Known, Entry
    <2> QED
      BY <2>1 DEF TypeInv, InitsRecorded
  <1>4. \A m : Known(m) => Known(m)'
    BY <1>1 DEF Known
  <1> QED
    BY <1>1, <1>2, <1>3, <1>4, RouterTypes DEF TypeInv

\* An admin's step leaves the starter where it is.
LEMMA StartReachSame ==
    ASSUME pc'[Starter] = pc[Starter], job'[Starter] = job[Starter], step'[Starter] = step[Starter]
    PROVE  \A s \in Services : StartReach(s)' = StartReach(s)
  BY DEF StartReach

LEMMA NextServiceType ==
    ASSUME TypeInv, TreeCurrent, NextService
    PROVE  TypeInv' /\ TreeCurrent' /\ \A s \in Services : StartReach(s)' = StartReach(s)
  <1> DEFINE s0 == job[Starter]  i0 == Position(s0)
  <1>1. s0 \in Services /\ i0 \in 1..Len(Order) /\ Order[i0] = s0
    BY Positions DEF TypeInv, Placed
  <1>2. /\ pc[Starter] = "init" /\ step[Starter] = Len(Script[s0]) + 1 /\ ~sealed
        /\ step' = [step EXCEPT ![Starter] = 1]
        /\ UNCHANGED <<routerVars, busVars, mu, active, closed, restarts>>
    BY <1>1, CallTypes DEF NextService, TypeInv, Placed, TypeOK, Procs
  <1>3. /\ i0 < Len(Order) => job' = [job EXCEPT ![Starter] = Order[i0 + 1]] /\ pc' = pc
        /\ ~(i0 < Len(Order)) => pc' = [pc EXCEPT ![Starter] = "collect"] /\ job' = job
    BY DEF NextService, Goto
  <1>4. i0 < Len(Order) => Order[i0 + 1] \in Services /\ Position(Order[i0 + 1]) = i0 + 1
    BY <1>1, Positions
  <1>5. pc \in [Procs -> {"init", "collect", "started", "idle", "removed", "closing",
                           "notify_closed", "notify_initialized", "wait"}]
        /\ job \in [Procs -> Services \cup {NoOne}] /\ step \in [Procs -> Nat \ {0}] /\ Starter \in Procs
    BY DEF TypeInv, TypeOK, Procs
  <1> HIDE DEF i0
  <1>6. \A s \in Services : StartReach(s)' = StartReach(s)
    <2> SUFFICES ASSUME NEW s \in Services PROVE StartReach(s)' = StartReach(s)
      OBVIOUS
    <2>1. Position(s) \in 1..Len(Order) /\ Order[Position(s)] = s
      BY Positions
    <2>2. StartReach(s) = IF Position(s) <= i0 THEN Len(Script[s]) + 1 ELSE 1
      <3>1. Position(s) = i0 => s = s0
        BY <1>1, <2>1
      <3> QED
        BY <1>1, <1>2, <2>1, <3>1 DEF StartReach, i0
    <2>3. CASE i0 < Len(Order)
      <3>1. /\ pc'[Starter] = "init" /\ job'[Starter] = Order[i0 + 1] /\ step'[Starter] = 1
        BY <1>2, <1>3, <1>5, <2>3
      <3>2. StartReach(s)' = IF Position(s) < i0 + 1 THEN Len(Script[s]) + 1 ELSE 1
        BY <1>4, <2>3, <3>1 DEF StartReach
      <3> QED
        BY <1>1, <2>1, <2>2, <3>2
    <2>4. CASE ~(i0 < Len(Order))
      <3>1. pc'[Starter] = "collect"
        BY <1>3, <1>5, <2>4
      <3>2. StartReach(s)' = Len(Script[s]) + 1
        BY <3>1 DEF StartReach
      <3> QED
        BY <1>1, <2>1, <2>2, <2>4, <3>2, Positions
    <2> QED
      BY <2>3, <2>4
  <1>7. TypeOK'
    <2>1. pc' \in [Procs -> {"init", "collect", "started", "idle", "removed", "closing",
                              "notify_closed", "notify_initialized", "wait"}]
      BY <1>3, <1>5
    <2>2. job' \in [Procs -> Services \cup {NoOne}]
      BY <1>3, <1>4, <1>5
    <2>3. step' \in [Procs -> Nat \ {0}]
      BY <1>2, <1>5
    <2> QED
      BY <1>2, <1>6, <2>1, <2>2, <2>3, RecordKept DEF TypeInv, TypeOK, busVars, BusTypeOK
  <1>8. Placed'
    <2>1. \A p \in Admins : pc'[p] = pc[p] /\ job'[p] = job[p] /\ step'[p] = step[p]
      BY <1>2, <1>3, <1>5, KillSwitchAssumption DEF Procs
    <2>2. \A s \in Services : 1 <= Len(Script[s]) + 1
      BY CallTypes
    <2>3. /\ pc'[Starter] \in {"init", "collect"} /\ job'[Starter] \in Services
          /\ step'[Starter] = 1
      BY <1>1, <1>2, <1>3, <1>4, <1>5
    <2>4. sealed' = sealed /\ mu' = mu
      BY <1>2 DEF routerVars
    <2> QED
      BY <1>2, <2>1, <2>2, <2>3, <2>4 DEF TypeInv, Placed
  <1> QED
    BY <1>2, <1>6, <1>7, <1>8, RecordKept DEF TypeInv

\* Where the goroutines are, as the types have it.
Labels == {"init", "collect", "started", "idle", "removed", "closing",
           "notify_closed", "notify_initialized", "wait"}
LEMMA AdminTypes ==
    ASSUME TypeInv
    PROVE  /\ pc \in [Procs -> Labels] /\ job \in [Procs -> Services \cup {NoOne}]
           /\ step \in [Procs -> Nat \ {0}] /\ Starter \in Procs /\ Starter \notin Admins
           /\ Admins \subseteq Procs /\ NoOne \notin Services /\ NoOne \notin Admins
           /\ mu \in Admins \cup {NoOne}
  BY KillSwitchAssumption DEF TypeInv, TypeOK, Procs, Labels

LEMMA CollectType ==
    ASSUME TypeInv, TreeCurrent, Collect
    PROVE  TypeInv' /\ TreeCurrent' /\ \A s \in Services : StartReach(s)' = StartReach(s)
  <1>1. /\ pc[Starter] = "collect" /\ step[Starter] <= Len(Order)
        /\ active' = active \cup {Order[step[Starter]]}
        /\ step' = [step EXCEPT ![Starter] = step[Starter] + 1]
        /\ UNCHANGED <<routerVars, busVars, mu, closed, pc, job, restarts>>
    BY DEF Collect
  <1>2. \A s \in Services : StartReach(s)' = StartReach(s)
    BY <1>1 DEF StartReach
  <1>3. step' \in [Procs -> Nat \ {0}] /\ \A p \in Admins : step'[p] = step[p]
    BY <1>1, AdminTypes
  <1>4. active' \subseteq Services
    <2>1. step[Starter] \in 1..Len(Order)
      BY <1>1, AdminTypes, Positions
    <2> QED
      BY <1>1, <2>1, Positions DEF TypeInv, TypeOK
  <1>5. TypeOK'
    BY <1>1, <1>2, <1>3, <1>4, RecordKept DEF TypeInv, TypeOK, busVars, BusTypeOK
  <1>6. Placed'
    <2>1. sealed' = sealed /\ pc' = pc /\ job' = job /\ mu' = mu
      BY <1>1 DEF routerVars
    <2> QED
      BY <1>1, <1>3, <2>1 DEF TypeInv, Placed
  <1> QED
    BY <1>1, <1>2, <1>5, <1>6, RecordKept DEF TypeInv

LEMMA PostBuildType ==
    ASSUME TypeInv, PostBuild
    PROVE  TypeInv' /\ TreeCurrent' /\ \A s \in Services : StartReach(s)' = StartReach(s)
  <1>1. /\ pc[Starter] = "collect" /\ Seal /\ pc' = [pc EXCEPT ![Starter] = "started"]
        /\ UNCHANGED <<busVars, mu, active, closed, job, step, restarts>>
    BY DEF PostBuild, Goto
  <1>2. pc' \in [Procs -> Labels] /\ pc'[Starter] = "started" /\ \A p \in Admins : pc'[p] = pc[p]
    BY <1>1, AdminTypes DEF Labels
  <1>3. \A s \in Services : StartReach(s)' = StartReach(s)
    BY <1>1, <1>2 DEF StartReach
  <1>4. /\ sealed' /\ bookedOps' = Len(ops) /\ TreeCurrent'
        /\ UNCHANGED <<ops, globals, registry, retired, notFoundHandlerService>>
    BY <1>1, SealEffect
  <1>5. routes' \in Books
    <2>1. \A s \in Services, r \in Routes : Cardinality(GroupOps(s, r)) \in Nat
      <3> SUFFICES ASSUME NEW s \in Services, NEW r \in Routes PROVE Cardinality(GroupOps(s, r)) \in Nat
        OBVIOUS
      <3>1. Len(ops) \in Nat
        BY RouterTypes
      <3>2. IsFiniteSet(1..Len(ops)) /\ GroupOps(s, r) \subseteq 1..Len(ops)
        BY <3>1, FS_Interval DEF GroupOps
      <3> QED
        BY <3>2, FS_Subset, FS_CardinalityType
    <2> DEFINE C(s, r) == Cardinality(GroupOps(s, r))
    <2>2. routes' = [s \in Services |-> [r \in Routes |-> routes[s][r] + C(s, r)]]
      BY <1>1, SealEffect
    <2> HIDE DEF C
    <2>3. \A s \in Services, r \in Routes : routes[s][r] + C(s, r) \in Nat
      BY <2>1, RouterTypes DEF Books, C
    <2> QED
      BY <2>2, <2>3 DEF Books
  <1>6. removed' \in Overlays
    <2>1. removed' = [s \in Services |->
                IF \E i \in 1..Len(ops) : ops[i].group /\ ops[i].svc = s /\ ops[i].handles # << >>
                THEN {} ELSE removed[s]]
      BY <1>1, SealEffect
    <2> QED
      BY <2>1, RouterTypes DEF Overlays
  <1>7. served' \in ServedType
    BY <1>4, RouterTypes, TreeType DEF TreeCurrent, ServedType
  <1>8. RouterTypeOK'
    <2>1. bookedOps' \in 0..Len(ops') /\ sealed' \in BOOLEAN
      <3>1. Len(ops) \in Nat
        BY RouterTypes
      <3>2. sealed' = TRUE
        BY <1>1 DEF Seal
      <3> QED
        BY <1>4, <3>1, <3>2
    <2> QED
      BY <1>4, <1>5, <1>6, <1>7, <2>1 DEF TypeInv, TypeOK, RouterTypeOK, Books, Overlays, ServedType
  <1>9. TypeOK'
    BY <1>1, <1>2, <1>8 DEF TypeInv, TypeOK, busVars, BusTypeOK, Labels
  <1>10. Placed'
    BY <1>1, <1>2, <1>4 DEF TypeInv, Placed
  <1>11. RecordIsScripted' /\ InitsRecorded'
    <2>1. \A s \in Services : \A k : OnRecord(s, k) => OnRecord(s, k)'
      BY <1>4 DEF OnRecord, Known, Entry
    <2> QED
      BY <1>3, <1>4, <2>1 DEF TypeInv, RecordIsScripted, InitsRecorded
  <1>12. \A m \in SetOf(globals') : Known(m)'
    BY <1>4 DEF TypeInv, Known
  <1> QED
    BY <1>3, <1>4, <1>9, <1>10, <1>11, <1>12 DEF TypeInv

LEMMA CloseServiceType ==
    ASSUME TypeInv, TreeCurrent, NEW p \in Admins, NEW s \in Services, CloseService(p, s)
    PROVE  TypeInv' /\ TreeCurrent' /\ \A t \in Services : StartReach(t)' = StartReach(t)
  <1>1. /\ MayAct(p) /\ s \in active /\ mu' = p /\ job' = [job EXCEPT ![p] = s]
        /\ RemoveByService(s) /\ closed' = closed \cup {s} /\ pc' = [pc EXCEPT ![p] = "removed"]
        /\ UNCHANGED <<busVars, active, step, restarts>>
    BY DEF CloseService, Goto
  <1>2. \A q \in Procs : q # p => pc'[q] = pc[q] /\ job'[q] = job[q] /\ step'[q] = step[q]
    BY <1>1, AdminTypes
  <1>3. pc' \in [Procs -> Labels] /\ pc'[p] = "removed" /\ job' \in [Procs -> Services \cup {NoOne}] /\ job'[p] = s
    BY <1>1, AdminTypes DEF Labels
  <1>4. \A t \in Services : StartReach(t)' = StartReach(t)
    BY <1>2, AdminTypes, StartReachSame
  <1>5. /\ registry' = [m \in Middlewares |-> IF registry[m] = s THEN NoOne ELSE registry[m]]
        /\ retired' = [m \in Middlewares |-> IF registry[m] = s THEN s ELSE retired[m]]
        /\ UNCHANGED <<ops, globals, sealed, notFoundHandlerService, bookedOps>>
        /\ routes' = [routes EXCEPT ![s] = Zeros]
        /\ removed' = [removed EXCEPT ![s] = TornDown(s)]
        /\ TreeCurrent'
    BY <1>1, RemoveEffect
  <1>6. /\ registry' \in [Middlewares -> Services \cup {NoOne}]
        /\ retired' \in [Middlewares -> Services \cup {NoOne}]
        /\ routes' \in Books /\ removed' \in Overlays
    BY <1>5, RouterTypes, TornDownType DEF Books, Overlays, Zeros
  <1>7. served' \in ServedType
    <2>1. [r \in Routes |-> NotRouted] \in ServedType
      BY DEF ServedType, NotRouted
    <2> QED
      BY <1>5, <2>1, RouterTypes, TreeType DEF TreeCurrent, ServedType
  <1>8. RouterTypeOK'
    BY <1>5, <1>6, <1>7 DEF TypeInv, TypeOK, RouterTypeOK, Books, Overlays, ServedType
  <1>9. TypeOK'
    BY <1>1, <1>3, <1>8 DEF TypeInv, TypeOK, busVars, BusTypeOK, Labels
  <1>10. Placed'
    BY <1>1, <1>2, <1>3, <1>5, AdminTypes DEF TypeInv, Placed, MayAct
  <1>11. \A m \in Middlewares : Known(m) => Known(m)'
    BY <1>5, RouterTypes, KillSwitchAssumption DEF Known
  <1>12. InitsRecorded'
    <2>1. ASSUME NEW t \in Services, NEW k \in Entries(t), OnRecord(t, k) PROVE OnRecord(t, k)'
      <3>1. Entry(t, k).kind = "register" => Entry(t, k).name \in Middlewares
        BY CallTypes
      <3> QED
        BY <1>5, <1>11, <2>1, <3>1 DEF OnRecord, Entry
    <2>2. \A t \in Services : \A j \in 1..StartReach(t) - 1 : j \in Entries(t) /\ OnRecord(t, j)
      <3> SUFFICES ASSUME NEW t \in Services, NEW j \in 1..StartReach(t) - 1
                   PROVE  j \in Entries(t) /\ OnRecord(t, j)
        OBVIOUS
      <3> QED
        BY StartReachIs, CallTypes DEF TypeInv, InitsRecorded, Entries
    <2> QED
      BY <1>4, <2>1, <2>2 DEF InitsRecorded
  <1>13. RecordIsScripted'
    BY <1>5 DEF TypeInv, RecordIsScripted
  <1>14. \A m \in SetOf(globals') : Known(m)'
    <2>1. \A m \in SetOf(globals) : m \in Middlewares /\ Known(m)
      BY RouterTypes DEF TypeInv, SetOf
    <2> QED
      BY <1>5, <1>11, <2>1
  <1> QED
    BY <1>4, <1>5, <1>9, <1>10, <1>12, <1>13, <1>14, RouterTypes DEF TypeInv

\* A step of an admin's that does not touch the router.
AdminStep(p) ==
    \/ RemoveEvents(p) \/ Closed(p) \/ (\E s \in Services : RestartService(p, s))
    \/ Restarted(p) \/ RestartFails(p) \/ InitPanics(p) \/ Notify(p) \/ Deliver(p) \/ Done(p)

\* What such a step changes: the admin's own place, the lock and the sets.
LEMMA AdminStepFrame ==
    ASSUME TypeInv, NEW p \in Admins, AdminStep(p)
    PROVE  /\ UNCHANGED routerVars
           /\ pc' \in [Procs -> Labels] /\ job' \in [Procs -> Services \cup {NoOne}]
           /\ step' \in [Procs -> Nat \ {0}]
           /\ \A q \in Procs : q # p => pc'[q] = pc[q] /\ job'[q] = job[q] /\ step'[q] = step[q]
           /\ mu' \in {mu, p, NoOne} /\ (mu' # mu => mu \in {p, NoOne})
           /\ active' \in SUBSET Services /\ closed' \in SUBSET Services /\ restarts' \in 0..MaxRestarts
           /\ pc'[p] \notin {"collect", "started"}
           /\ pc'[p] # "idle" => job'[p] \in Services
           /\ pc'[p] = "init" => sealed /\ step'[p] <= Len(Script[job'[p]]) + 1
           /\ pc'[p] \in {"init", "removed", "closing"} => mu' = p
  <1>1. /\ pc \in [Procs -> Labels] /\ job \in [Procs -> Services \cup {NoOne}]
        /\ step \in [Procs -> Nat \ {0}] /\ p \in Procs
        /\ active \in SUBSET Services /\ closed \in SUBSET Services /\ restarts \in 0..MaxRestarts
        /\ MaxRestarts \in Nat
        /\ pc[p] \notin {"collect", "started"}
        /\ pc[p] # "idle" => job[p] \in Services
        /\ pc[p] = "init" => sealed /\ step[p] <= Len(Script[job[p]]) + 1
        /\ pc[p] \in {"init", "removed", "closing"} => mu = p
    BY AdminTypes, KillSwitchAssumption DEF TypeInv, TypeOK, Placed
  <1>2. CASE RemoveEvents(p)
    BY <1>1, <1>2 DEF RemoveEvents, Goto, Labels
  <1>3. CASE Closed(p)
    BY <1>1, <1>3 DEF Closed, Goto, Labels
  <1>4. CASE \E s \in Services : RestartService(p, s)
    <2>1. PICK s \in Services : RestartService(p, s)
      BY <1>4
    <2>2. /\ sealed /\ restarts < MaxRestarts /\ mu = NoOne /\ mu' = p /\ pc' = [pc EXCEPT ![p] = "init"]
          /\ job' = [job EXCEPT ![p] = s] /\ step' = [step EXCEPT ![p] = 1]
          /\ restarts' = restarts + 1 /\ closed' = closed \ {s} /\ UNCHANGED <<routerVars, busVars, active>>
      BY <2>1 DEF RestartService, MayAct, Goto
    <2>3. 1 <= Len(Script[s]) + 1
      BY CallTypes
    <2>4. restarts' \in 0..MaxRestarts
      BY <1>1, <2>2
    <2> QED
      BY <1>1, <2>2, <2>3, <2>4 DEF Labels
  <1>5. CASE Restarted(p)
    BY <1>1, <1>5 DEF Restarted, Goto, Labels
  <1>6. CASE RestartFails(p)
    BY <1>1, <1>6 DEF RestartFails, Goto, Labels
  <1>7. CASE InitPanics(p)
    BY <1>1, <1>7 DEF InitPanics, Goto, Labels
  <1>8. CASE Notify(p)
    BY <1>1, <1>8 DEF Notify, Goto, Labels
  <1>9. CASE Deliver(p)
    BY <1>1, <1>9 DEF Deliver
  <1>10. CASE Done(p)
    BY <1>1, <1>10 DEF Done, Goto, Labels
  <1> QED
    BY <1>2, <1>3, <1>4, <1>5, <1>6, <1>7, <1>8, <1>9, <1>10 DEF AdminStep

\* The bus keeps its types.
LEMMA AdminStepBus == ASSUME TypeInv, NEW p \in Admins, AdminStep(p) PROVE BusTypeOK'
  <1> DEFINE Emission == [event : Events \cup {"none"}, about : Owners \cup {"none"}, left : [Owners -> Nat]]
  <1>1. /\ subscribers \in [Events -> [Owners -> Nat]] /\ emitting \in [Emitters -> Emission]
        /\ p \in Emitters /\ Services \subseteq Owners /\ NoneOf \in [Owners -> Nat]
        /\ {"closed", "initialized"} \subseteq Events
    BY KillSwitchAssumption DEF TypeInv, TypeOK, BusTypeOK, NoneOf
  <1>2. ASSUME UNCHANGED busVars PROVE BusTypeOK'
    BY <1>2 DEF TypeInv, TypeOK, BusTypeOK, busVars
  <1>3. CASE RemoveEvents(p)
    <2>1. /\ subscribers' = [e \in Events |-> [subscribers[e] EXCEPT ![job[p]] = 0]] /\ emitting' = emitting
      BY <1>3 DEF RemoveEvents, RemoveSubscriptions, Filtered
    <2>2. \A e \in Events : [subscribers[e] EXCEPT ![job[p]] = 0] \in [Owners -> Nat]
      BY <1>1
    <2> QED
      BY <1>1, <2>1, <2>2 DEF BusTypeOK
  <1>4. CASE Notify(p)
    <2>1. PICK e \in Events, a \in Owners : Emit(p, e, a)
      BY <1>1, <1>4, AdminTypes DEF Notify, EventOf, TypeInv, Placed
    <2>2. [event |-> e, about |-> a, left |-> subscribers[e]] \in Emission
      BY <1>1
    <2> HIDE DEF Emission
    <2>3. emitting' \in [Emitters -> Emission] /\ subscribers' = subscribers
      BY <1>1, <2>1, <2>2 DEF Emit
    <2> QED
      BY <1>1, <2>3 DEF BusTypeOK, Emission
  <1>5. CASE Deliver(p)
    <2>1. PICK owner \in Owners : Handled(p, owner)
      BY <1>5 DEF Deliver
    <2>2. emitting[p] \in Emission /\ emitting[p].left[owner] > 0
      BY <1>1, <2>1 DEF Handled
    <2> DEFINE left == [emitting[p].left EXCEPT ![owner] = @ - 1]
    <2>3. left \in [Owners -> Nat]
      BY <2>2
    <2> HIDE DEF left
    <2>4. [emitting[p] EXCEPT !.left = left] \in Emission
      BY <2>2, <2>3
    <2>5. emitting' = [emitting EXCEPT ![p] = [emitting[p] EXCEPT !.left = left]] /\ subscribers' = subscribers
      BY <2>1 DEF Handled, left
    <2> HIDE DEF Emission
    <2>6. emitting' \in [Emitters -> Emission]
      BY <1>1, <2>4, <2>5
    <2> QED
      BY <1>1, <2>5, <2>6 DEF BusTypeOK, Emission
  <1>6. CASE Done(p)
    <2>1. Idle \in Emission
      BY <1>1 DEF Idle
    <2>2. emitting' = [emitting EXCEPT ![p] = Idle] /\ subscribers' = subscribers
      BY <1>6 DEF Done, Waited
    <2> HIDE DEF Emission
    <2>3. emitting' \in [Emitters -> Emission]
      BY <1>1, <2>1, <2>2
    <2> QED
      BY <1>1, <2>2, <2>3 DEF BusTypeOK, Emission
  <1>7. CASE Closed(p) \/ (\E s \in Services : RestartService(p, s)) \/ Restarted(p) \/ RestartFails(p) \/ InitPanics(p)
    BY <1>2, <1>7 DEF Closed, RestartService, Restarted, RestartFails, InitPanics
  <1> QED
    BY <1>3, <1>4, <1>5, <1>6, <1>7 DEF AdminStep

LEMMA AdminStepType ==
    ASSUME TypeInv, TreeCurrent, NEW p \in Admins, AdminStep(p)
    PROVE  TypeInv' /\ TreeCurrent' /\ \A s \in Services : StartReach(s)' = StartReach(s)
  <1>1. \A s \in Services : StartReach(s)' = StartReach(s)
    <2>1. pc'[Starter] = pc[Starter] /\ job'[Starter] = job[Starter] /\ step'[Starter] = step[Starter]
      BY AdminStepFrame, AdminTypes
    <2> QED
      BY <2>1, StartReachSame
  <1>2. TypeOK'
    <2>1. mu' \in Admins \cup {NoOne}
      BY AdminStepFrame, AdminTypes
    <2> QED
      BY <1>1, <2>1, AdminStepFrame, AdminStepBus, RecordKept DEF TypeOK, Labels
  <1>3. Placed'
    <2>1. sealed' = sealed
      BY AdminStepFrame DEF routerVars
    <2>2. pc'[Starter] = pc[Starter] /\ job'[Starter] = job[Starter] /\ step'[Starter] = step[Starter]
      BY AdminStepFrame, AdminTypes
    <2>3. ASSUME NEW q \in Admins
          PROVE  /\ pc'[q] \notin {"collect", "started"}
                 /\ pc'[q] # "idle" => job'[q] \in Services
                 /\ pc'[q] = "init" => sealed /\ step'[q] <= Len(Script[job'[q]]) + 1
                 /\ pc'[q] \in {"init", "removed", "closing"} => mu' = q
      <3>1. CASE q = p
        BY <3>1, AdminStepFrame
      <3>2. CASE q # p
        <4>1. pc'[q] = pc[q] /\ job'[q] = job[q] /\ step'[q] = step[q]
          BY <3>2, AdminStepFrame, AdminTypes
        <4>2. mu' # mu => mu # q
          BY <3>2, AdminStepFrame, AdminTypes
        <4> QED
          BY <4>1, <4>2 DEF TypeInv, Placed
      <3> QED
        BY <3>1, <3>2
    <2> QED
      BY <2>1, <2>2, <2>3 DEF TypeInv, Placed
  <1> QED
    BY <1>1, <1>2, <1>3, AdminStepFrame, RecordKept DEF TypeInv

\* Which steps there are.
LEMMA Steps ==
    ASSUME Next
    PROVE  \/ \E p \in Procs : InitStep(p)
           \/ NextService \/ Collect \/ PostBuild
           \/ \E p \in Admins : (\E s \in Services : CloseService(p, s)) \/ AdminStep(p)
  BY DEF Next, AdminStep

LEMMA StutterType == ASSUME TypeInv, TreeCurrent, UNCHANGED vars PROVE TypeInv' /\ TreeCurrent'
  <1>1. UNCHANGED <<routerVars, subscribers, emitting, mu, active, closed, pc, job, step, restarts>>
    BY DEF vars, busVars, adminVars
  <1>2. \A s \in Services : StartReach(s)' = StartReach(s)
    BY <1>1, StartReachSame
  <1>3. TypeOK'
    BY <1>1, <1>2, RecordKept DEF TypeInv, TypeOK, BusTypeOK
  <1>4. Placed'
    BY <1>1 DEF TypeInv, Placed, routerVars
  <1> QED
    BY <1>1, <1>2, <1>3, <1>4, RecordKept DEF TypeInv

LEMMA TypeStep == ASSUME TypeInv, TreeCurrent, [Next]_vars PROVE TypeInv' /\ TreeCurrent'
  <1>1. CASE Next
    BY <1>1, Steps, InitStepType, NextServiceType, CollectType, PostBuildType, CloseServiceType, AdminStepType
  <1> QED
    BY <1>1, StutterType

LEMMA TypeInvariant == Spec => [](TypeInv /\ TreeCurrent)
  <1>1. Init => TypeInv /\ TreeCurrent
    BY InitType
  <1>2. TypeInv /\ TreeCurrent /\ [Next]_vars => (TypeInv /\ TreeCurrent)'
    BY TypeStep
  <1> QED
    BY <1>1, <1>2, PTL DEF Spec

(***************************************************************************)
(* Counting the calls of a script                                          *)
(***************************************************************************)
LEMMA CountUpTo ==
    ASSUME NEW n \in Nat \ {0}, NEW A, NEW B, A \subseteq 1..n, B = A \ {n}
    PROVE  /\ IsFiniteSet(A) /\ IsFiniteSet(B) /\ Cardinality(A) \in Nat /\ Cardinality(B) \in Nat
           /\ Cardinality(A) = Cardinality(B) + (IF n \in A THEN 1 ELSE 0)
  <1>1. IsFiniteSet(1..n)
    BY FS_Interval
  <1>2. IsFiniteSet(A) /\ IsFiniteSet(B)
    BY <1>1, FS_Subset
  <1>3. Cardinality(A) \in Nat /\ Cardinality(B) \in Nat
    BY <1>2, FS_CardinalityType
  <1>4. CASE n \in A
    <2>1. A = B \cup {n} /\ n \notin B
      BY <1>4
    <2> QED
      BY <1>2, <1>3, <1>4, <2>1, FS_AddElement
  <1>5. CASE n \notin A
    <2>1. A = B
      BY <1>5
    <2> QED
      BY <1>2, <1>3, <1>5, <2>1
  <1> QED
    BY <1>4, <1>5, <1>2, <1>3

\* One call more.
LEMMA OneMoreCall ==
    ASSUME NEW s \in Services, NEW k \in Entries(s)
    PROVE  /\ \A r : Cardinality(ServingCalls(s, r, k + 1)) =
                        Cardinality(ServingCalls(s, r, k)) + (IF Serves(s, k, r) /\ Counts(s, k) THEN 1 ELSE 0)
           /\ \A r : Cardinality(GroupCalls(s, r, k + 1)) =
                        Cardinality(GroupCalls(s, r, k))
                            + (IF Serves(s, k, r) /\ Entry(s, k).kind = "group" THEN 1 ELSE 0)
           /\ \A e : Cardinality(HearingCalls(s, e, k + 1)) =
                        Cardinality(HearingCalls(s, e, k)) + (IF Hears(s, k, e) THEN 1 ELSE 0)
  <1>1. k \in Nat \ {0} /\ (k + 1) - 1 = k
    BY CallTypes DEF Entries
  <1>2. ASSUME NEW r
        PROVE  Cardinality(ServingCalls(s, r, k + 1)) =
                   Cardinality(ServingCalls(s, r, k)) + (IF Serves(s, k, r) /\ Counts(s, k) THEN 1 ELSE 0)
    <2>1. /\ ServingCalls(s, r, k + 1) \subseteq 1..k
          /\ ServingCalls(s, r, k) = ServingCalls(s, r, k + 1) \ {k}
          /\ k \in ServingCalls(s, r, k + 1) <=> Serves(s, k, r) /\ Counts(s, k)
      BY <1>1 DEF ServingCalls, Counts, Serves
    <2> QED
      BY <1>1, <2>1, CountUpTo
  <1>3. ASSUME NEW r
        PROVE  Cardinality(GroupCalls(s, r, k + 1)) =
                   Cardinality(GroupCalls(s, r, k)) + (IF Serves(s, k, r) /\ Entry(s, k).kind = "group" THEN 1 ELSE 0)
    <2>1. /\ GroupCalls(s, r, k + 1) \subseteq 1..k
          /\ GroupCalls(s, r, k) = GroupCalls(s, r, k + 1) \ {k}
          /\ k \in GroupCalls(s, r, k + 1) <=> Serves(s, k, r) /\ Entry(s, k).kind = "group"
      BY <1>1 DEF GroupCalls
    <2> QED
      BY <1>1, <2>1, CountUpTo
  <1>4. ASSUME NEW e
        PROVE  Cardinality(HearingCalls(s, e, k + 1)) =
                   Cardinality(HearingCalls(s, e, k)) + (IF Hears(s, k, e) THEN 1 ELSE 0)
    <2>1. /\ HearingCalls(s, e, k + 1) \subseteq 1..k
          /\ HearingCalls(s, e, k) = HearingCalls(s, e, k + 1) \ {k}
          /\ k \in HearingCalls(s, e, k + 1) <=> Hears(s, k, e)
      BY <1>1 DEF HearingCalls
    <2> QED
      BY <1>1, <2>1, CountUpTo
  <1> QED
    BY <1>2, <1>3, <1>4

\* No call yet.
LEMMA NoCalls ==
    \A s, x : /\ Cardinality(ServingCalls(s, x, 1)) = 0 /\ Cardinality(GroupCalls(s, x, 1)) = 0
              /\ Cardinality(HearingCalls(s, x, 1)) = 0
  <1>1. \A s, x : ServingCalls(s, x, 1) = {} /\ GroupCalls(s, x, 1) = {} /\ HearingCalls(s, x, 1) = {}
    BY DEF ServingCalls, GroupCalls, HearingCalls
  <1> QED
    BY <1>1, FS_EmptySet

\* The record has one group more.
LEMMA GroupOpsGrow ==
    ASSUME TypeInv, NEW s \in Services, NEW k \in Entries(s), Recorded(s, k), NEW t, NEW r
    PROVE  /\ Cardinality(GroupOps(t, r)) \in Nat
           /\ Cardinality(GroupOps(t, r)') =
                    Cardinality(GroupOps(t, r))
                        + (IF t = s /\ Entry(s, k).kind = "group" /\ Serves(s, k, r) THEN 1 ELSE 0)
  <1> DEFINE n == Len(ops) + 1
             op == [svc |-> s, group |-> Entry(s, k).kind = "group", handles |-> Entry(s, k).handles]
  <1>1. n \in Nat \ {0} /\ Len(ops) = n - 1
    BY RouterTypes
  <1>2. CASE Entry(s, k).kind \in {"handle", "group"}
    <2>1. op \in Operations /\ (r \in RoutesOf(op) <=> Serves(s, k, r))
      BY <1>2, CallIsOperation
    <2>2. ops' = Append(ops, op) /\ ops \in Seq(Operations)
      BY <1>2, RouterTypes DEF Recorded
    <2>3. op.svc = s /\ op.group <=> Entry(s, k).kind = "group"
      OBVIOUS
    <2> HIDE DEF op
    <2>4. Len(ops') = n /\ ops'[n] = op /\ \A i \in 1..n - 1 : ops'[i] = ops[i]
      BY <2>1, <2>2
    <2>5. op.svc = s
      BY DEF op
    <2>6. /\ GroupOps(t, r)' \subseteq 1..n /\ GroupOps(t, r) = GroupOps(t, r)' \ {n}
          /\ n \in GroupOps(t, r)' <=> t = s /\ Entry(s, k).kind = "group" /\ Serves(s, k, r)
      <3> HIDE DEF n
      <3>1. GroupOps(t, r)' = {i \in 1..n : ops'[i].group /\ ops'[i].svc = t /\ r \in RoutesOf(ops'[i])}
        BY <2>4 DEF GroupOps
      <3>2. GroupOps(t, r) = {i \in 1..n - 1 : ops[i].group /\ ops[i].svc = t /\ r \in RoutesOf(ops[i])}
        BY <1>1 DEF GroupOps
      <3>3. GroupOps(t, r) = GroupOps(t, r)' \ {n}
        BY <1>1, <2>4, <3>1, <3>2
      <3> QED
        BY <1>1, <2>1, <2>3, <2>4, <2>5, <3>1, <3>3
    <2> HIDE DEF n
    <2> DEFINE A == GroupOps(t, r)'  B == GroupOps(t, r)
    <2>7. A \subseteq 1..n /\ B = A \ {n}
      BY <2>6
    <2> HIDE DEF A, B
    <2>8. Cardinality(B) \in Nat /\ Cardinality(A) = Cardinality(B) + (IF n \in A THEN 1 ELSE 0)
      <3> SUFFICES ASSUME NEW m, NEW X, NEW Y, m = n, X = A, Y = B
                   PROVE  Cardinality(Y) \in Nat /\ Cardinality(X) = Cardinality(Y) + (IF m \in X THEN 1 ELSE 0)
        OBVIOUS
      <3>1. m \in Nat \ {0} /\ X \subseteq 1..m /\ Y = X \ {m}
        BY <1>1, <2>7
      <3> QED
        BY <3>1, CountUpTo
    <2> QED
      BY <2>6, <2>8 DEF A, B
  <1>3. CASE Entry(s, k).kind \notin {"handle", "group"}
    <2>1. GroupOps(t, r)' = GroupOps(t, r)
      BY <1>3 DEF Recorded, GroupOps
    <2>2. GroupOps(t, r) \subseteq 1..n /\ GroupOps(t, r) \ {n} = GroupOps(t, r)
      BY <1>1 DEF GroupOps
    <2> HIDE DEF n
    <2>3. Cardinality(GroupOps(t, r)) \in Nat
      BY <1>1, <2>2, CountUpTo
    <2> QED
      BY <1>3, <2>1, <2>3
  <1> QED
    BY <1>2, <1>3

(***************************************************************************)
(* BookInv is kept by a registration                                       *)
(***************************************************************************)
\* How far the Inits are, before and after the call.
LEMMA InitReach ==
    ASSUME TypeInv, BeforeSeal, NEW p \in Procs, InitStep(p),
           NEW s \in Services, s = job[p], NEW k \in Entries(s), k = step[p], Recorded(s, k)
    PROVE  /\ RouteReach(s) = k /\ EventReach(s) = k /\ RouteReach(s)' = k + 1 /\ EventReach(s)' = k + 1
           /\ \A t \in Services : t # s =>
                RouteReach(t)' = RouteReach(t) /\ EventReach(t)' = EventReach(t)
           /\ ~sealed => /\ p = Starter /\ StartReach(s) = k /\ StartReach(s)' = k + 1
                         /\ \A t \in Services : t # s => StartReach(t)' = StartReach(t)
           /\ sealed => /\ p \in Admins /\ mu = p /\ pc[Starter] = "started" /\ Working(s, {"init"})
                        /\ \A t, L : t # s => ~Working(t, L)
           /\ \A t, L : Working(t, L)' <=> Working(t, L)
  <1>1. /\ step' = [step EXCEPT ![p] = k + 1] /\ pc[p] = "init" /\ sealed' = sealed
        /\ UNCHANGED <<mu, active, closed, pc, job, restarts>>
    BY DEF InitStep, Recorded
  <1>2. step'[p] = k + 1 /\ \A q \in Procs : q # p => step'[q] = step[q]
    BY <1>1, AdminTypes
  <1>3. \A t, L : Working(t, L)' <=> Working(t, L)
    BY <1>1 DEF Working
  <1>4. CASE ~sealed
    <2>1. p = Starter
      BY <1>1, <1>4 DEF BeforeSeal, Procs
    <2>2. StartReach(s) = k /\ StartReach(s)' = k + 1
      <3>1. ~(Position(s) < Position(s))
        BY Positions
      <3> QED
        BY <1>1, <1>2, <2>1, <3>1 DEF StartReach
    <2>3. \A t \in Services : t # s => StartReach(t)' = StartReach(t)
      BY <1>1, <2>1 DEF StartReach
    <2> QED
      BY <1>1, <1>3, <1>4, <2>1, <2>2, <2>3 DEF RouteReach, EventReach, ReachBut
  <1>5. CASE sealed
    <2>1. p \in Admins /\ mu = p /\ pc[Starter] = "started" /\ mu \in Procs
      BY <1>1, <1>5 DEF TypeInv, Placed, Procs
    <2>2. Working(s, {"init"}) /\ \A t, L : t # s => ~Working(t, L)
      BY <1>1, <2>1 DEF Working
    <2>3. RouteReach(s) = k /\ EventReach(s) = k /\ RouteReach(s)' = k + 1 /\ EventReach(s)' = k + 1
      BY <1>1, <1>2, <1>3, <1>5, <2>1, <2>2 DEF RouteReach, EventReach, ReachBut
    <2>4. \A t \in Services : t # s => RouteReach(t)' = RouteReach(t) /\ EventReach(t)' = EventReach(t)
      BY <1>1, <1>3, <1>5, <2>2 DEF RouteReach, EventReach, ReachBut
    <2> QED
      BY <1>3, <1>5, <2>1, <2>2, <2>3, <2>4
  <1> QED
    BY <1>4, <1>5

LEMMA InitCounted ==
    ASSUME TypeInv, BeforeSeal, Counted, NEW p \in Procs, InitStep(p),
           NEW s \in Services, s = job[p], NEW k \in Entries(s), k = step[p],
           Registered(s, k), Recorded(s, k)
    PROVE  Counted'
  <1>1. sealed' = sealed
    BY DEF Recorded
  <1>2. ASSUME NEW t \in Services, NEW r \in Routes
        PROVE  routes'[t][r] = Cardinality(ServingCalls(t, r, RouteReach(t))')
    <2>1. routes'[t][r] = routes[t][r] + (IF t = s /\ Serves(s, k, r) /\ Counts(s, k) THEN 1 ELSE 0)
      BY DEF Recorded
    <2>3. routes[t][r] = Cardinality(ServingCalls(t, r, RouteReach(t))) /\ routes[t][r] \in Nat
      BY RouterTypes DEF Counted, Books
    <2>4. ServingCalls(t, r, RouteReach(t))' = ServingCalls(t, r, RouteReach(t)')
      BY <1>1 DEF ServingCalls, Serves, Entry
    <2>5. CASE t = s
      BY <2>1, <2>3, <2>4, <2>5, InitReach, OneMoreCall
    <2>6. CASE t # s
      BY <2>1, <2>3, <2>4, <2>6, InitReach
    <2> QED
      BY <2>5, <2>6
  <1>3. ASSUME ~sealed, NEW t \in Services, NEW r \in Routes
        PROVE  Cardinality(GroupOps(t, r)') = Cardinality(GroupCalls(t, r, StartReach(t))')
    <2>1. /\ Cardinality(GroupOps(t, r)) \in Nat
          /\ Cardinality(GroupOps(t, r)') =
                    Cardinality(GroupOps(t, r))
                        + (IF t = s /\ Entry(s, k).kind = "group" /\ Serves(s, k, r) THEN 1 ELSE 0)
      BY GroupOpsGrow
    <2>2. Cardinality(GroupOps(t, r)) = Cardinality(GroupCalls(t, r, StartReach(t)))
      BY <1>3 DEF Counted
    <2>3. GroupCalls(t, r, StartReach(t))' = GroupCalls(t, r, StartReach(t)')
      BY DEF GroupCalls, Serves, Entry
    <2>4. CASE t = s
      BY <1>3, <2>1, <2>2, <2>3, <2>4, InitReach, OneMoreCall
    <2>5. CASE t # s
      BY <1>3, <2>1, <2>2, <2>3, <2>5, InitReach
    <2> QED
      BY <2>4, <2>5
  <1>4. ASSUME NEW t \in Services, NEW e \in Events
        PROVE  subscribers'[e][t] = Cardinality(HearingCalls(t, e, EventReach(t))')
    <2>1. subscribers'[e][t] = subscribers[e][t] + (IF t = s /\ Hears(s, k, e) THEN 1 ELSE 0)
      BY RouterTypes DEF Registered
    <2>2. subscribers[e][t] = Cardinality(HearingCalls(t, e, EventReach(t))) /\ subscribers[e][t] \in Nat
      BY RouterTypes DEF Counted
    <2>3. HearingCalls(t, e, EventReach(t))' = HearingCalls(t, e, EventReach(t)')
      BY DEF HearingCalls, Hears, Entry
    <2>4. CASE t = s
      BY <2>1, <2>2, <2>3, <2>4, InitReach, OneMoreCall
    <2>5. CASE t # s
      BY <2>1, <2>2, <2>3, <2>5, InitReach
    <2> QED
      BY <2>4, <2>5
  <1> QED
    BY <1>1, <1>2, <1>3, <1>4 DEF Counted

LEMMA InitStepBooks ==
    ASSUME TypeInv, TreeCurrent, BookInv, NEW p \in Procs, InitStep(p)
    PROVE  BookInv'
  <1>1. PICK s \in Services : s = job[p]
    BY InitEffect
  <1>2. PICK k \in Entries(s) : k = step[p]
    BY <1>1, InitEffect
  <1>3. Registered(s, k) /\ Recorded(s, k)
    BY <1>1, <1>2, InitEffect
  <1>4. /\ pc[p] = "init" /\ sealed' = sealed /\ step' = [step EXCEPT ![p] = k + 1]
        /\ UNCHANGED <<mu, active, closed, pc, job, restarts>>
    BY <1>2, <1>3 DEF InitStep, Recorded
  <1>5. /\ RouteReach(s) = k /\ RouteReach(s)' = k + 1
        /\ \A t \in Services : t # s => RouteReach(t)' = RouteReach(t)
        /\ ~sealed => p = Starter
        /\ sealed => /\ p \in Admins /\ mu = p /\ pc[Starter] = "started" /\ Working(s, {"init"})
                     /\ \A t, L : t # s => ~Working(t, L)
        /\ \A t, L : Working(t, L)' <=> Working(t, L)
    BY <1>1, <1>2, <1>3, InitReach DEF BookInv
  <1>6. k \in Nat \ {0} /\ k <= Len(Script[s]) /\ Len(Script[s]) \in Nat
    BY CallTypes DEF Entries
  <1>7. sealed => s \notin closed /\ s \notin active
    BY <1>5 DEF BookInv, Lives
  <1>8. \A t \in Services : removed'[t] = IF t = s /\ Counts(s, k) /\ Entry(s, k).handles # << >> THEN {} ELSE removed[t]
    BY <1>3 DEF Recorded
  <1>9. \A m \in Middlewares : registry'[m] = IF Names(s, k, m) THEN s ELSE registry[m]
    BY <1>3 DEF Registered
  <1>10. BeforeSeal'
    <2>1. ASSUME ~sealed
          PROVE  /\ mu = NoOne /\ closed = {} /\ \A q \in Admins : pc[q] = "idle"
                 /\ \A t \in Services : removed[t] = {} /\ active = {} /\ p = Starter
      BY <1>4, <1>5, <2>1 DEF BookInv, BeforeSeal
    <2> QED
      BY <1>4, <1>8, <2>1 DEF BeforeSeal
  <1>11. Lives'
    BY <1>4, <1>5 DEF BookInv, Lives
  <1>12. ClosedIsGone'
    <2>1. ASSUME NEW m \in Middlewares PROVE registry'[m] \notin closed'
      <3>1. registry[m] \notin closed
        BY DEF BookInv, ClosedIsGone
      <3>2. s \notin closed
        BY <1>7 DEF BookInv, BeforeSeal
      <3> QED
        BY <1>4, <1>9, <3>1, <3>2
    <2>2. ASSUME sealed, NEW t \in closed PROVE AllRemoved(t)'
      <3>1. t \in Services /\ t # s
        BY <1>7, <2>2 DEF TypeInv, TypeOK
      <3>2. removed'[t] = removed[t]
        BY <1>8, <3>1
      <3> QED
        BY <2>2, <3>2 DEF BookInv, ClosedIsGone, AllRemoved, Serves, Entry
    <2> QED
      BY <1>4, <2>1, <2>2 DEF ClosedIsGone
  <1>13. RestartsFromNothing'
    <2> SUFFICES ASSUME NEW t \in Services, Working(t, {"init"})
                 PROVE  /\ (\A j \in 1..step'[mu] - 1 : ~TakenBack(t, j)) =>
                              AllRemoved(t)' /\ \A m \in Middlewares : registry'[m] # t
                        /\ \A j \in 1..step'[mu] - 1 :
                              /\ Entry(t, j).kind # "notfound"
                              /\ Entry(t, j).kind = "register" => registry'[Entry(t, j).name] # NoOne
      BY <1>4, <1>5 DEF RestartsFromNothing, TakenBack, Entry
    <2>1. sealed
      BY KillSwitchAssumption DEF BookInv, BeforeSeal, Working
    <2>2. t = s /\ mu = p /\ step'[mu] = k + 1 /\ step[mu] = k
      BY <1>2, <1>4, <1>5, <2>1, AdminTypes
    <2>3. /\ (\A j \in 1..k - 1 : ~TakenBack(s, j)) =>
                AllRemoved(s) /\ \A m \in Middlewares : registry[m] # s
          /\ \A j \in 1..k - 1 :
                /\ Entry(s, j).kind # "notfound"
                /\ Entry(s, j).kind = "register" => registry[Entry(s, j).name] # NoOne
      BY <2>2 DEF BookInv, RestartsFromNothing
    <2>4. ASSUME \A j \in 1..k : ~TakenBack(s, j)
          PROVE  AllRemoved(s)' /\ \A m \in Middlewares : registry'[m] # s
      <3>1. ~TakenBack(s, k) /\ \A j \in 1..k - 1 : ~TakenBack(s, j)
        BY <1>6, <2>4
      <3>2. \A m \in Middlewares : registry'[m] = registry[m]
        BY <1>9, <3>1 DEF TakenBack, Names
      <3>3. removed'[s] = removed[s]
        BY <1>8, <3>1 DEF TakenBack, Counts
      <3> QED
        BY <2>3, <3>1, <3>2, <3>3 DEF AllRemoved, Serves, Entry
    <2>5. Entry(s, k).kind # "notfound"
      <3>1. k \in 1..StartReach(s) - 1
        BY <1>5, <1>6, <2>1 DEF StartReach
      <3>2. Entry(s, k).kind = "notfound" => notFoundHandlerService # NoOne
        BY <3>1 DEF TypeInv, InitsRecorded, OnRecord
      <3> QED
        BY <1>3, <3>2 DEF Registered
    <2>6. ASSUME NEW j \in 1..k, Entry(s, j).kind = "register" PROVE registry'[Entry(s, j).name] # NoOne
      <3>1. j \in Entries(s)
        BY <1>6 DEF Entries
      <3>2. Entry(s, j).name \in Middlewares
        BY <2>6, <3>1, CallTypes
      <3>3. CASE j = k
        BY <1>9, <2>6, <3>2, <3>3, KillSwitchAssumption DEF Names
      <3>4. CASE j \in 1..k - 1
        BY <1>9, <2>3, <2>6, <3>2, <3>4, KillSwitchAssumption
      <3> QED
        BY <1>6, <3>3, <3>4
    <2>7. \A j \in 1..k : j = k \/ j \in 1..k - 1
      BY <1>6
    <2>8. 1..(k + 1) - 1 = 1..k
      BY <1>6
    <2> QED
      BY <2>2, <2>3, <2>4, <2>5, <2>6, <2>7, <2>8
  <1>14. Counted'
    BY <1>1, <1>2, <1>3, InitCounted DEF BookInv
  <1>15. RemovedIsOwn'
    <2>1. ASSUME NEW t \in Services, NEW r \in removed'[t] PROVE \E j \in Entries(t) : Serves(t, j, r)
      <3>1. r \in removed[t]
        BY <1>8, <2>1
      <3> QED
        BY <3>1 DEF BookInv, RemovedIsOwn
    <2>2. ASSUME sealed, NEW t \in Services, NEW j \in 1..RouteReach(t)' - 1, NEW r \in Routes, Serves(t, j, r)
          PROVE  removed'[t] = {}
      <3>1. CASE j \in 1..RouteReach(t) - 1
        <4>1. removed[t] = {}
          BY <2>2, <3>1 DEF BookInv, RemovedIsOwn
        <4> QED
          BY <1>8, <4>1
      <3>2. CASE ~(j \in 1..RouteReach(t) - 1)
        <4>1. t = s /\ j = k
          <5>1. t = s
            BY <1>5, <3>2
          <5> QED
            BY <1>5, <1>6, <3>2, <5>1
        <4>2. Counts(s, k)
          BY <2>2, <4>1 DEF Counts, Serves
        <4>3. Entry(s, k).handles # << >>
          BY <2>2, <4>1 DEF Serves, RoutesOf, SetOf
        <4> QED
          BY <1>8, <4>1, <4>2, <4>3
      <3> QED
        BY <3>1, <3>2
    <2>3. \A t \in Services : \A j, r : Serves(t, j, r)' <=> Serves(t, j, r)
      BY DEF Serves, Entry
    <2> QED
      BY <1>4, <2>1, <2>2, <2>3 DEF RemovedIsOwn, Entries
  <1> QED
    BY <1>10, <1>11, <1>12, <1>13, <1>14, <1>15 DEF BookInv

(***************************************************************************)
(* BookInv is kept by the other steps                                      *)
(***************************************************************************)
\* An Init ends or is taken as not begun: from n to m calls in effect.
Ends(s, n, m) == m = n \/ (m = 1 /\ \A j \in 1..n - 1 : ~TakenBack(s, j))

\* Steps that change no book.
LEMMA QuietBooks ==
    ASSUME TypeInv, BookInv, UNCHANGED <<ops, routes, removed, sealed, subscribers>>,
           \A s \in Services : StartReach(s)' = StartReach(s),
           \A s \in Services : /\ Ends(s, RouteReach(s), RouteReach(s)')
                               /\ Ends(s, EventReach(s), EventReach(s)')
    PROVE  Counted' /\ RemovedIsOwn'
  <1>1. ASSUME NEW s \in Services, NEW r \in Routes
        PROVE  routes[s][r] = Cardinality(ServingCalls(s, r, RouteReach(s))')
    <2>1. routes[s][r] = Cardinality(ServingCalls(s, r, RouteReach(s)))
      BY DEF BookInv, Counted
    <2>2. ServingCalls(s, r, RouteReach(s))' = ServingCalls(s, r, RouteReach(s)')
      BY DEF ServingCalls, Serves, Entry
    <2>3. CASE RouteReach(s)' = RouteReach(s)
      BY <2>1, <2>2, <2>3
    <2>4. CASE RouteReach(s)' = 1 /\ \A j \in 1..RouteReach(s) - 1 : ~TakenBack(s, j)
      <3>1. ServingCalls(s, r, RouteReach(s)) = {}
        BY <2>4 DEF ServingCalls, TakenBack, Serves
      <3> QED
        BY <2>1, <2>2, <2>4, <3>1, NoCalls, FS_EmptySet
    <2> QED
      BY <2>3, <2>4 DEF Ends
  <1>2. ASSUME NEW s \in Services, NEW e \in Events
        PROVE  subscribers[e][s] = Cardinality(HearingCalls(s, e, EventReach(s))')
    <2>1. subscribers[e][s] = Cardinality(HearingCalls(s, e, EventReach(s)))
      BY DEF BookInv, Counted
    <2>2. HearingCalls(s, e, EventReach(s))' = HearingCalls(s, e, EventReach(s)')
      BY DEF HearingCalls, Hears, Entry
    <2>3. CASE EventReach(s)' = EventReach(s)
      BY <2>1, <2>2, <2>3
    <2>4. CASE EventReach(s)' = 1 /\ \A j \in 1..EventReach(s) - 1 : ~TakenBack(s, j)
      <3>1. HearingCalls(s, e, EventReach(s)) = {}
        BY <2>4 DEF HearingCalls, TakenBack, Hears
      <3> QED
        BY <2>1, <2>2, <2>4, <3>1, NoCalls, FS_EmptySet
    <2> QED
      BY <2>3, <2>4 DEF Ends
  <1>3. ASSUME ~sealed, NEW s \in Services, NEW r \in Routes
        PROVE  Cardinality(GroupOps(s, r)') = Cardinality(GroupCalls(s, r, StartReach(s))')
    <2>1. GroupOps(s, r)' = GroupOps(s, r)
      BY DEF GroupOps
    <2>2. GroupCalls(s, r, StartReach(s))' = GroupCalls(s, r, StartReach(s))
      BY DEF GroupCalls, Serves, Entry
    <2> QED
      BY <1>3, <2>1, <2>2 DEF BookInv, Counted
  <1>4. Counted'
    BY <1>1, <1>2, <1>3 DEF Counted
  <1>5. RemovedIsOwn'
    <2>1. \A s : \A j, r : Serves(s, j, r)' <=> Serves(s, j, r)
      BY DEF Serves, Entry
    <2>2. \A s \in Services : \A j \in 1..RouteReach(s)' - 1 : j \in 1..RouteReach(s) - 1
      BY DEF Ends
    <2> QED
      BY <2>1, <2>2 DEF BookInv, RemovedIsOwn, Entries
  <1> QED
    BY <1>4, <1>5

\* The starter's steps between the Inits.
LEMMA StarterBooks ==
    ASSUME TypeInv, TreeCurrent, BookInv, NextService \/ Collect
    PROVE  BookInv'
  <1>1. \A s \in Services : StartReach(s)' = StartReach(s)
    BY NextServiceType, CollectType
  <1>2. /\ UNCHANGED <<routerVars, busVars, mu, closed, restarts>>
        /\ pc[Starter] \in {"init", "collect"}
        /\ \A q \in Admins : pc'[q] = pc[q]
    BY AdminTypes DEF NextService, Collect, Goto
  <1>3. ~sealed /\ sealed' = sealed
    BY <1>2 DEF TypeInv, Placed, routerVars
  <1>4. /\ mu = NoOne /\ closed = {} /\ \A q \in Admins : pc[q] = "idle"
        /\ \A s \in Services : removed[s] = {}
        /\ active = IF pc[Starter] = "init" THEN {} ELSE {Order[i] : i \in 1..step[Starter] - 1}
    BY <1>3 DEF BookInv, BeforeSeal
  <1>5. \A s, L : ~Working(s, L) /\ ~Working(s, L)'
    BY <1>2, <1>4, AdminTypes DEF Working
  <1>6. active' = IF pc'[Starter] = "init" THEN {} ELSE {Order[i] : i \in 1..step'[Starter] - 1}
    <2>1. CASE NextService
      <3>1. /\ pc[Starter] = "init" /\ pc'[Starter] \in {"init", "collect"} /\ active' = active
            /\ step'[Starter] = 1
        BY <2>1, AdminTypes DEF NextService, Goto
      <3>2. {Order[i] : i \in 1..1 - 1} = {}
        OBVIOUS
      <3> QED
        BY <1>4, <3>1, <3>2
    <2>2. CASE Collect
      <3> DEFINE n == step[Starter]
      <3>1. /\ pc[Starter] = "collect" /\ pc'[Starter] = "collect" /\ active' = active \cup {Order[n]}
            /\ step'[Starter] = n + 1 /\ n \in Nat \ {0}
        BY <2>2, AdminTypes DEF Collect
      <3>2. active = {Order[i] : i \in 1..n - 1}
        BY <1>4, <3>1
      <3> HIDE DEF n
      <3>3. {Order[i] : i \in 1..(n + 1) - 1} = {Order[i] : i \in 1..n - 1} \cup {Order[n]}
        BY <3>1
      <3> QED
        BY <3>1, <3>2, <3>3
    <2> QED
      BY <2>1, <2>2
  <1>7. BeforeSeal'
    BY <1>2, <1>4, <1>6 DEF BeforeSeal, routerVars
  <1>8. Lives' /\ RestartsFromNothing'
    BY <1>3, <1>5 DEF Lives, RestartsFromNothing
  <1>9. ClosedIsGone'
    BY <1>2, <1>3, <1>4 DEF ClosedIsGone, routerVars
  <1>10. Counted' /\ RemovedIsOwn'
    <2>1. UNCHANGED <<ops, routes, removed, sealed, subscribers>>
      BY <1>2 DEF routerVars, busVars
    <2>2. \A s \in Services : RouteReach(s)' = RouteReach(s) /\ EventReach(s)' = EventReach(s)
      BY <1>1, <1>3 DEF RouteReach, EventReach, ReachBut
    <2> QED
      BY <1>1, <2>1, <2>2, QuietBooks DEF Ends
  <1> QED
    BY <1>7, <1>8, <1>9, <1>10 DEF BookInv

\* Seal books the groups.
LEMMA PostBuildBooks ==
    ASSUME TypeInv, TreeCurrent, BookInv, PostBuild
    PROVE  BookInv'
  <1>1. /\ pc[Starter] = "collect" /\ step[Starter] > Len(Order) /\ Seal
        /\ pc' = [pc EXCEPT ![Starter] = "started"]
        /\ UNCHANGED <<busVars, mu, active, closed, job, step, restarts>>
    BY DEF PostBuild, Goto
  <1>2. /\ ~sealed /\ sealed' /\ UNCHANGED <<ops, registry>>
        /\ routes' = [s \in Services |-> [r \in Routes |-> routes[s][r] + Cardinality(GroupOps(s, r))]]
        /\ removed' = [s \in Services |->
                IF \E i \in 1..Len(ops) : ops[i].group /\ ops[i].svc = s /\ ops[i].handles # << >>
                THEN {} ELSE removed[s]]
    BY <1>1, SealEffect
  <1>3. /\ mu = NoOne /\ closed = {} /\ \A q \in Admins : pc[q] = "idle"
        /\ \A s \in Services : removed[s] = {}
        /\ active = {Order[i] : i \in 1..step[Starter] - 1}
    BY <1>1, <1>2 DEF BookInv, BeforeSeal
  <1>4. active = Services
    <2>1. ASSUME NEW s \in Services PROVE s \in active
      <3>1. Position(s) \in 1..Len(Order) /\ Order[Position(s)] = s
        BY Positions
      <3>2. Position(s) \in 1..step[Starter] - 1
        BY <1>1, <3>1, AdminTypes, Positions
      <3> QED
        BY <1>3, <3>1, <3>2
    <2> QED
      BY <2>1 DEF TypeInv, TypeOK
  <1>5. \A s, L : ~Working(s, L) /\ ~Working(s, L)'
    BY <1>1, <1>3, AdminTypes DEF Working
  <1>6. \A s \in Services : removed'[s] = {}
    BY <1>2, <1>3
  <1>7. \A s \in Services : /\ StartReach(s) = Len(Script[s]) + 1
                            /\ RouteReach(s) = Len(Script[s]) + 1 /\ RouteReach(s)' = Len(Script[s]) + 1
                            /\ EventReach(s) = Len(Script[s]) + 1 /\ EventReach(s)' = Len(Script[s]) + 1
    <2>1. \A s \in Services : StartReach(s) = Len(Script[s]) + 1
      BY <1>1, StartReachIs
    <2> QED
      BY <1>1, <1>2, <1>4, <1>5, <2>1 DEF RouteReach, EventReach, ReachBut
  <1>8. Counted'
    <2>1. ASSUME NEW s \in Services, NEW r \in Routes
          PROVE  routes'[s][r] = Cardinality(ServingCalls(s, r, RouteReach(s))')
      <3> DEFINE n == Len(Script[s])
                 H == {k \in 1..n : Serves(s, k, r) /\ Entry(s, k).kind = "handle"}
                 G == {k \in 1..n : Serves(s, k, r) /\ Entry(s, k).kind = "group"}
      <3>1. n \in Nat /\ (n + 1) - 1 = n
        BY CallTypes
      <3>2. ServingCalls(s, r, RouteReach(s)) = H
        BY <1>2, <1>7, <3>1 DEF ServingCalls
      <3>3. GroupCalls(s, r, StartReach(s)) = G
        BY <1>7, <3>1 DEF GroupCalls
      <3>4. ServingCalls(s, r, RouteReach(s))' = H \cup G
        BY <1>2, <1>7, <3>1 DEF ServingCalls, Serves, Entry
      <3>5. IsFiniteSet(H) /\ IsFiniteSet(G)
        <4> H \subseteq 1..n /\ G \subseteq 1..n
          OBVIOUS
        <4> HIDE DEF H, G, n
        <4>1. IsFiniteSet(1..n)
          BY <3>1, FS_Interval
        <4> QED
          BY <4>1, FS_Subset
      <3>6. H \cap G = {}
        OBVIOUS
      <3> HIDE DEF H, G, n
      <3>7. Cardinality(H \cup G) = Cardinality(H) + Cardinality(G)
        <4>1. Cardinality(H \cup G) = Cardinality(H) + Cardinality(G) - Cardinality(H \cap G)
          BY <3>5, FS_Union
        <4>2. Cardinality(H \cap G) = 0 /\ Cardinality(H) \in Nat /\ Cardinality(G) \in Nat
          BY <3>5, <3>6, FS_EmptySet, FS_CardinalityType
        <4> QED
          BY <4>1, <4>2
      <3>8. routes[s][r] = Cardinality(H) /\ Cardinality(GroupOps(s, r)) = Cardinality(G)
        BY <1>2, <3>2, <3>3 DEF BookInv, Counted
      <3> QED
        BY <1>2, <3>4, <3>7, <3>8
    <2>2. ASSUME NEW s \in Services, NEW e \in Events
          PROVE  subscribers'[e][s] = Cardinality(HearingCalls(s, e, EventReach(s))')
      <3>1. HearingCalls(s, e, EventReach(s))' = HearingCalls(s, e, EventReach(s))
        BY <1>7 DEF HearingCalls, Hears, Entry
      <3> QED
        BY <1>1, <3>1 DEF BookInv, Counted, busVars
    <2> QED
      BY <1>2, <2>1, <2>2 DEF Counted
  <1>9. BeforeSeal' /\ Lives' /\ RestartsFromNothing'
    BY <1>1, <1>2, <1>4, <1>5 DEF BeforeSeal, Lives, RestartsFromNothing
  <1>10. ClosedIsGone' /\ RemovedIsOwn'
    BY <1>1, <1>3, <1>6 DEF ClosedIsGone, RemovedIsOwn
  <1> QED
    BY <1>8, <1>9, <1>10 DEF BookInv

\* CloseService overlays what the service serves, whoever replays it.
LEMMA CloseServiceBooks ==
    ASSUME TypeInv, TreeCurrent, BookInv, KilledAfterSeal,
           NEW p \in Admins, NEW s \in Services, CloseService(p, s)
    PROVE  BookInv'
  <1>1. /\ mu = NoOne /\ sealed /\ s \in active /\ mu' = p /\ job' = [job EXCEPT ![p] = s]
        /\ RemoveByService(s) /\ closed' = closed \cup {s} /\ pc' = [pc EXCEPT ![p] = "removed"]
        /\ UNCHANGED <<busVars, active, step, restarts>>
    BY DEF CloseService, MayAct, Goto, KilledAfterSeal
  <1>2. /\ registry' = [m \in Middlewares |-> IF registry[m] = s THEN NoOne ELSE registry[m]]
        /\ UNCHANGED <<ops, sealed>>
        /\ routes' = [routes EXCEPT ![s] = Zeros]
        /\ removed' = [removed EXCEPT ![s] = TornDown(s)]
    BY <1>1, RemoveEffect
  <1>3. \A t, L : ~Working(t, L)
    BY <1>1, AdminTypes DEF Working
  <1>4. /\ pc'[p] = "removed" /\ job'[p] = s
    BY <1>1, AdminTypes
  <1>5. \A t, L : Working(t, L)' <=> "removed" \in L /\ t = s
    BY <1>1, <1>4 DEF Working
  <1>6. /\ RouteReach(s) = Len(Script[s]) + 1 /\ RouteReach(s)' = 1
        /\ \A t \in Services : t # s => RouteReach(t)' = RouteReach(t)
        /\ \A t \in Services : EventReach(t)' = EventReach(t)
    BY <1>1, <1>2, <1>3, <1>5 DEF RouteReach, EventReach, ReachBut
  <1>7. /\ \A t \in Services : t # s => routes'[t] = routes[t] /\ removed'[t] = removed[t]
        /\ routes'[s] = Zeros /\ removed'[s] = TornDown(s)
    BY <1>2, RouterTypes DEF Books, Overlays
  <1>8. \A t, j, r : Serves(t, j, r)' <=> Serves(t, j, r)
    BY DEF Serves, Entry
  <1>9. ASSUME NEW r \in Routes
        PROVE  routes[s][r] > 0 <=> \E k \in Entries(s) : Serves(s, k, r)
    <2> DEFINE S == ServingCalls(s, r, Len(Script[s]) + 1)
    <2>1. routes[s][r] = Cardinality(S)
      BY <1>6 DEF BookInv, Counted
    <2>2. Len(Script[s]) \in Nat
      BY CallTypes
    <2>3. S = {k \in Entries(s) : Serves(s, k, r)}
      BY <1>1, <2>2 DEF ServingCalls, Entries
    <2>4. IsFiniteSet(S)
      <3>1. IsFiniteSet(1..Len(Script[s])) /\ S \subseteq 1..Len(Script[s])
        BY <2>2, <2>3, FS_Interval DEF Entries
      <3> HIDE DEF S
      <3> QED
        BY <3>1, FS_Subset
    <2> HIDE DEF S
    <2>5. Cardinality(S) \in Nat /\ (Cardinality(S) = 0 <=> S = {})
      BY <2>4, FS_CardinalityType, FS_EmptySet
    <2> QED
      BY <2>1, <2>3, <2>5
  <1>10. AllRemoved(s)'
    <2> SUFFICES ASSUME NEW k \in Entries(s), NEW r \in Routes, Serves(s, k, r) PROVE r \in removed'[s]
      BY <1>8 DEF AllRemoved, Entries
    <2> QED
      BY <1>7, <1>9 DEF TornDown
  <1>11. Lives'
    <2>1. \A t \in Services : t \in active \cup closed
      BY <1>1, <1>3 DEF BookInv, Lives
    <2> QED
      BY <1>1, <1>2, <1>5, <2>1 DEF Lives
  <1>12. ClosedIsGone'
    <2>1. \A m \in Middlewares : registry'[m] \notin closed'
      BY <1>1, <1>2, KillSwitchAssumption DEF BookInv, ClosedIsGone, TypeInv, TypeOK
    <2>2. ASSUME NEW t \in closed, t # s PROVE AllRemoved(t)'
      <3>1. removed'[t] = removed[t]
        BY <1>7, <2>2 DEF TypeInv, TypeOK
      <3> QED
        BY <1>1, <1>8, <3>1 DEF BookInv, ClosedIsGone, AllRemoved, Entries
    <2> QED
      BY <1>1, <1>10, <2>1, <2>2 DEF ClosedIsGone
  <1>13. BeforeSeal' /\ RestartsFromNothing'
    BY <1>1, <1>2, <1>5 DEF BeforeSeal, RestartsFromNothing
  <1>14. Counted'
    <2>1. ASSUME NEW t \in Services, NEW r \in Routes
          PROVE  routes'[t][r] = Cardinality(ServingCalls(t, r, RouteReach(t))')
      <3>1. ServingCalls(t, r, RouteReach(t))' = ServingCalls(t, r, RouteReach(t)')
        BY <1>2 DEF ServingCalls, Serves, Entry
      <3>2. CASE t = s
        BY <1>6, <1>7, <3>1, <3>2, NoCalls DEF Zeros
      <3>3. CASE t # s
        BY <1>6, <1>7, <3>1, <3>3 DEF BookInv, Counted
      <3> QED
        BY <3>2, <3>3
    <2>2. ASSUME NEW t \in Services, NEW e \in Events
          PROVE  subscribers'[e][t] = Cardinality(HearingCalls(t, e, EventReach(t))')
      <3>1. HearingCalls(t, e, EventReach(t))' = HearingCalls(t, e, EventReach(t))
        BY <1>6 DEF HearingCalls, Hears, Entry
      <3> QED
        BY <1>1, <3>1 DEF BookInv, Counted, busVars
    <2> QED
      BY <1>1, <1>2, <2>1, <2>2 DEF Counted
  <1>15. RemovedIsOwn'
    <2>1. ASSUME NEW t \in Services, NEW r \in removed'[t] PROVE \E j \in Entries(t) : Serves(t, j, r)
      <3>1. CASE t # s
        BY <1>7, <2>1, <3>1 DEF BookInv, RemovedIsOwn
      <3>2. CASE t = s
        <4>1. r \in TornDown(s) /\ r \in Routes
          BY <1>7, <2>1, <3>2, TornDownType
        <4>2. CASE \E q \in Routes : routes[s][q] > 0
          BY <1>9, <3>2, <4>1, <4>2 DEF TornDown
        <4>3. CASE ~\E q \in Routes : routes[s][q] > 0
          BY <3>2, <4>1, <4>3 DEF TornDown, BookInv, RemovedIsOwn
        <4> QED
          BY <4>2, <4>3
      <3> QED
        BY <3>1, <3>2
    <2>2. ASSUME NEW t \in Services, NEW j \in 1..RouteReach(t)' - 1, NEW r \in Routes, Serves(t, j, r)
          PROVE  removed'[t] = {}
      <3>1. t # s
        BY <1>6, <2>2
      <3> QED
        BY <1>1, <1>6, <1>7, <2>2, <3>1 DEF BookInv, RemovedIsOwn
    <2> QED
      BY <1>8, <2>1, <2>2 DEF RemovedIsOwn, Entries
  <1> QED
    BY <1>11, <1>12, <1>13, <1>14, <1>15 DEF BookInv

\* What holds of an admin that has begun: the router is sealed, and it works
\* with w.mu on its service.
LEMMA AtWork ==
    ASSUME TypeInv, BookInv, NEW p \in Admins, pc[p] # "idle"
    PROVE  /\ sealed /\ job[p] \in Services /\ pc[Starter] = "started" /\ p \in Procs
           /\ pc[p] \in {"init", "removed", "closing"} =>
                /\ mu = p /\ \A t, L : Working(t, L) <=> pc[p] \in L /\ t = job[p]
  <1>1. sealed /\ job[p] \in Services /\ pc[Starter] = "started" /\ p \in Procs
    BY AdminTypes DEF BookInv, BeforeSeal, TypeInv, Placed
  <1> QED
    BY <1>1 DEF TypeInv, Placed, Working

LEMMA RemoveEventsBooks ==
    ASSUME TypeInv, TreeCurrent, BookInv, NEW p \in Admins, RemoveEvents(p)
    PROVE  BookInv'
  <1> DEFINE s == job[p]
  <1>1. /\ pc[p] = "removed" /\ pc' = [pc EXCEPT ![p] = "closing"]
        /\ subscribers' = [e \in Events |-> [subscribers[e] EXCEPT ![s] = 0]]
        /\ UNCHANGED <<routerVars, mu, active, closed, job, step, restarts>>
    BY DEF RemoveEvents, RemoveSubscriptions, Filtered, Goto
  <1>2. /\ sealed /\ s \in Services /\ mu = p /\ pc'[p] = "closing"
        /\ \A t, L : Working(t, L) <=> "removed" \in L /\ t = s
        /\ \A t, L : Working(t, L)' <=> "closing" \in L /\ t = s
    <2>1. sealed /\ s \in Services /\ mu = p /\ \A t, L : Working(t, L) <=> "removed" \in L /\ t = s
      BY <1>1, AtWork
    <2>2. pc'[p] = "closing" /\ job'[p] = s /\ mu' = p
      BY <1>1, <2>1, AdminTypes
    <2> QED
      BY <2>1, <2>2 DEF Working
  <1>3. sealed' = sealed /\ routes' = routes /\ removed' = removed /\ registry' = registry
    BY <1>1 DEF routerVars
  <1>4. \A t \in Services : RouteReach(t)' = RouteReach(t)
    BY <1>1, <1>2, <1>3 DEF RouteReach, ReachBut
  <1>5. \A t \in Services : EventReach(t)' = IF t = s THEN 1 ELSE EventReach(t)
    BY <1>1, <1>2, <1>3 DEF EventReach, ReachBut
  <1>6. Counted'
    <2>1. ASSUME NEW t \in Services, NEW r \in Routes
          PROVE  routes'[t][r] = Cardinality(ServingCalls(t, r, RouteReach(t))')
      <3>1. ServingCalls(t, r, RouteReach(t))' = ServingCalls(t, r, RouteReach(t))
        BY <1>3, <1>4 DEF ServingCalls, Serves, Entry
      <3> QED
        BY <1>3, <3>1 DEF BookInv, Counted
    <2>2. ASSUME NEW t \in Services, NEW e \in Events
          PROVE  subscribers'[e][t] = Cardinality(HearingCalls(t, e, EventReach(t))')
      <3>1. HearingCalls(t, e, EventReach(t))' = HearingCalls(t, e, EventReach(t)')
        BY DEF HearingCalls, Hears, Entry
      <3>2. subscribers'[e][t] = IF t = s THEN 0 ELSE subscribers[e][t]
        BY <1>1, <1>2, RouterTypes
      <3>3. CASE t = s
        BY <1>5, <3>1, <3>2, <3>3, NoCalls
      <3>4. CASE t # s
        BY <1>5, <3>1, <3>2, <3>4 DEF BookInv, Counted
      <3> QED
        BY <3>3, <3>4
    <2> QED
      BY <1>2, <1>3, <2>1, <2>2 DEF Counted
  <1>7. BeforeSeal' /\ Lives' /\ RestartsFromNothing'
    <2>1. s \in active /\ s \in closed
      BY <1>2 DEF BookInv, Lives
    <2> QED
      BY <1>1, <1>2, <1>3, <2>1 DEF BeforeSeal, BookInv, Lives, RestartsFromNothing
  <1>8. ClosedIsGone'
    BY <1>1, <1>3 DEF BookInv, ClosedIsGone, AllRemoved, Serves, Entry, Entries
  <1>9. RemovedIsOwn'
    BY <1>3, <1>4 DEF BookInv, RemovedIsOwn, Serves, Entry, Entries
  <1> QED
    BY <1>6, <1>7, <1>8, <1>9 DEF BookInv

LEMMA ClosedBooks ==
    ASSUME TypeInv, TreeCurrent, BookInv, NEW p \in Admins, Closed(p)
    PROVE  BookInv'
  <1> DEFINE s == job[p]
  <1>1. /\ pc[p] = "closing" /\ active' = active \ {s} /\ mu' = NoOne
        /\ UNCHANGED <<routerVars, busVars, closed, job, step, restarts>>
    BY DEF Closed
  <1>2. /\ sealed /\ s \in Services /\ mu = p
        /\ \A t, L : Working(t, L) <=> "closing" \in L /\ t = s
        /\ \A t, L : ~Working(t, L)'
    BY <1>1, AtWork, AdminTypes DEF Working
  <1>3. UNCHANGED <<ops, routes, removed, sealed, subscribers, registry>>
    BY <1>1 DEF routerVars, busVars
  <1>4. s \in closed
    BY <1>2 DEF BookInv, Lives
  <1>5. \A t \in Services : RouteReach(t)' = RouteReach(t) /\ EventReach(t)' = EventReach(t)
    BY <1>1, <1>2, <1>3 DEF RouteReach, EventReach, ReachBut
  <1>6. Counted' /\ RemovedIsOwn'
    <2>1. \A t \in Services : StartReach(t)' = StartReach(t)
      BY AdminStepType DEF AdminStep
    <2> QED
      BY <1>3, <1>5, <2>1, QuietBooks DEF Ends
  <1>7. BeforeSeal' /\ RestartsFromNothing'
    BY <1>2, <1>3 DEF BeforeSeal, RestartsFromNothing
  <1>8. Lives'
    BY <1>1, <1>2, <1>3, <1>4 DEF BookInv, Lives
  <1>9. ClosedIsGone'
    BY <1>1, <1>3 DEF BookInv, ClosedIsGone, AllRemoved, Serves, Entry, Entries
  <1> QED
    BY <1>6, <1>7, <1>8, <1>9 DEF BookInv

LEMMA RestartServiceBooks ==
    ASSUME TypeInv, TreeCurrent, BookInv, NEW p \in Admins, NEW s \in Services, RestartService(p, s)
    PROVE  BookInv'
  <1>1. /\ mu = NoOne /\ sealed /\ s \notin active /\ mu' = p
        /\ job' = [job EXCEPT ![p] = s] /\ step' = [step EXCEPT ![p] = 1] /\ closed' = closed \ {s}
        /\ pc' = [pc EXCEPT ![p] = "init"] /\ UNCHANGED <<routerVars, busVars, active>>
    BY DEF RestartService, MayAct, Goto
  <1>2. /\ pc'[p] = "init" /\ job'[p] = s /\ step'[p] = 1
        /\ \A t, L : ~Working(t, L)
        /\ \A t, L : Working(t, L)' <=> "init" \in L /\ t = s
    <2>1. pc'[p] = "init" /\ job'[p] = s /\ step'[p] = 1
      BY <1>1, AdminTypes
    <2> QED
      BY <1>1, <2>1, AdminTypes DEF Working
  <1>3. UNCHANGED <<ops, routes, removed, sealed, subscribers, registry>>
    BY <1>1 DEF routerVars, busVars
  <1>4. s \in closed
    BY <1>1, <1>2 DEF BookInv, Lives
  <1>5. \A t \in Services : RouteReach(t)' = RouteReach(t) /\ EventReach(t)' = EventReach(t)
    BY <1>1, <1>2, <1>3 DEF RouteReach, EventReach, ReachBut
  <1>6. Counted' /\ RemovedIsOwn'
    <2>1. \A t \in Services : StartReach(t)' = StartReach(t)
      BY AdminStepType DEF AdminStep
    <2> QED
      BY <1>3, <1>5, <2>1, QuietBooks DEF Ends
  <1>7. BeforeSeal'
    BY <1>1, <1>3 DEF BeforeSeal
  <1>8. Lives'
    BY <1>1, <1>2, <1>3 DEF BookInv, Lives
  <1>9. ClosedIsGone'
    BY <1>1, <1>3 DEF BookInv, ClosedIsGone, AllRemoved, Serves, Entry, Entries
  <1>10. RestartsFromNothing'
    <2>1. AllRemoved(s)' /\ \A m \in Middlewares : registry'[m] # s
      BY <1>1, <1>3, <1>4 DEF BookInv, ClosedIsGone, AllRemoved, Serves, Entry, Entries
    <2>2. step'[mu'] = 1
      BY <1>1, <1>2
    <2> QED
      BY <1>2, <2>1, <2>2 DEF RestartsFromNothing
  <1> QED
    BY <1>6, <1>7, <1>8, <1>9, <1>10 DEF BookInv

LEMMA RestartedBooks ==
    ASSUME TypeInv, TreeCurrent, BookInv, NEW p \in Admins, Restarted(p)
    PROVE  BookInv'
  <1> DEFINE s == job[p]
  <1>1. /\ pc[p] = "init" /\ step[p] > Len(Script[s]) /\ active' = active \cup {s} /\ mu' = NoOne
        /\ UNCHANGED <<routerVars, busVars, closed, job, step, restarts>>
    BY DEF Restarted
  <1>2. /\ sealed /\ s \in Services /\ mu = p
        /\ \A t, L : Working(t, L) <=> "init" \in L /\ t = s
        /\ \A t, L : ~Working(t, L)'
    BY <1>1, AtWork, AdminTypes DEF Working
  <1>3. UNCHANGED <<ops, routes, removed, sealed, subscribers, registry>>
    BY <1>1 DEF routerVars, busVars
  <1>4. step[mu] = Len(Script[s]) + 1
    BY <1>1, <1>2, CallTypes, AdminTypes DEF TypeInv, Placed
  <1>5. \A t \in Services : RouteReach(t)' = RouteReach(t) /\ EventReach(t)' = EventReach(t)
    BY <1>1, <1>2, <1>3, <1>4 DEF RouteReach, EventReach, ReachBut
  <1>6. Counted' /\ RemovedIsOwn'
    <2>1. \A t \in Services : StartReach(t)' = StartReach(t)
      BY AdminStepType DEF AdminStep
    <2> QED
      BY <1>3, <1>5, <2>1, QuietBooks DEF Ends
  <1>7. BeforeSeal' /\ RestartsFromNothing'
    BY <1>2, <1>3 DEF BeforeSeal, RestartsFromNothing
  <1>8. Lives'
    BY <1>1, <1>2, <1>3 DEF BookInv, Lives
  <1>9. ClosedIsGone'
    BY <1>1, <1>3 DEF BookInv, ClosedIsGone, AllRemoved, Serves, Entry, Entries
  <1> QED
    BY <1>6, <1>7, <1>8, <1>9 DEF BookInv

\* A restart that does not succeed has taken nothing back.
LEMMA StopsClean ==
    ASSUME TypeInv, BookInv, RestartsStopClean, NEW p \in Admins, NEW s \in Services,
           pc[p] = "init", job[p] = s, RestartFails(p) \/ InitPanics(p)
    PROVE  /\ \A j \in 1..step[p] - 1 : ~TakenBack(s, j)
           /\ AllRemoved(s) /\ \A m \in Middlewares : registry[m] # s
  <1> DEFINE n == step[p]
  <1>1. /\ sealed /\ mu = p /\ Working(s, {"init"}) /\ n \in 1..Len(Script[s]) + 1
    <2>1. n \in Nat \ {0} /\ n <= Len(Script[s]) + 1 /\ Len(Script[s]) \in Nat
      BY AdminTypes, CallTypes DEF TypeInv, Placed
    <2> QED
      BY <2>1, AtWork
  <1>2. /\ (\A j \in 1..n - 1 : ~TakenBack(s, j)) => AllRemoved(s) /\ \A m \in Middlewares : registry[m] # s
        /\ \A j \in 1..n - 1 :
              /\ Entry(s, j).kind # "notfound"
              /\ Entry(s, j).kind = "register" => registry[Entry(s, j).name] # NoOne
    BY <1>1 DEF BookInv, RestartsFromNothing
  <1>3. MayStopAt(s, n)
    <2>1. CASE RestartFails(p)
      BY <2>1 DEF RestartFails, MayStopAt
    <2>2. CASE InitPanics(p)
      <3>1. n \in Entries(s) /\ Panics(Entry(s, n))
        BY <1>1, <2>2, CallTypes DEF InitPanics, Entries, Entry
      <3>2. CASE Entry(s, n).kind = "notfound"
        BY <3>1, <3>2 DEF MayStopAt
      <3>3. CASE Entry(s, n).kind \in {"handle", "use"}
        <4>1. PICK m \in NeededBy(s, n) : registry[m] = NoOne
          <5>1. CASE Entry(s, n).kind = "use"
            BY <3>1, <5>1 DEF Panics, Validates, NeededBy
          <5>2. CASE Entry(s, n).kind = "handle"
            <6> DEFINE h == Entry(s, n).handles[1]
            <6>1. Entry(s, n).handles = <<h>>
              BY <3>1, <5>2, CallTypes
            <6>2. SetOf(<<h>>) = {h}
              BY DEF SetOf
            <6>3. GuardNames(Entry(s, n)) = h.mws
              BY <6>1, <6>2 DEF GuardNames
            <6> QED
              BY <3>1, <5>2, <6>3 DEF Panics, Validates, NeededBy
          <5> QED
            BY <3>3, <5>1, <5>2
        <4>2. \A j \in 1..n - 1 : ~Names(s, j, m)
          BY <1>2, <4>1 DEF Names
        <4> QED
          BY <3>1, <3>3, <4>1, <4>2 DEF MayStopAt
      <3>4. Entry(s, n).kind \in {"notfound", "handle", "use"}
        BY <3>1 DEF Panics
      <3> QED
        BY <3>2, <3>3, <3>4
    <2> QED
      BY <2>1, <2>2
  <1>4. \A j \in 1..n - 1 : ~TakenBack(s, j)
    <2> SUFFICES ASSUME NEW j \in 1..n - 1, TakenBack(s, j) PROVE FALSE
      OBVIOUS
    <2>1. PICK i \in 1..j : Entry(s, i).kind = "notfound"
      BY <1>1, <1>3 DEF RestartsStopClean
    <2>2. i \in 1..n - 1
      BY <1>1, <2>1
    <2> QED
      BY <1>2, <2>1, <2>2
  <1> QED
    BY <1>2, <1>4

LEMMA StoppedBooks ==
    ASSUME TypeInv, TreeCurrent, BookInv, RestartsStopClean, NEW p \in Admins,
           RestartFails(p) \/ InitPanics(p)
    PROVE  BookInv'
  <1>1. pc[p] = "init"
    BY DEF RestartFails, InitPanics
  <1>2. PICK s \in Services : s = job[p]
    BY <1>1, AtWork
  <1>3. /\ closed' = closed \cup {s} /\ pc' = [pc EXCEPT ![p] = "idle"] /\ mu' \in {NoOne, mu}
        /\ UNCHANGED <<routerVars, busVars, active, step, restarts>>
    BY <1>2 DEF RestartFails, InitPanics, Goto
  <1>4. /\ sealed /\ mu = p
        /\ \A t, L : Working(t, L) <=> "init" \in L /\ t = s
    BY <1>1, <1>2, AtWork
  <1>5. \A t : ~Working(t, {"init"})' /\ ~Working(t, {"removed", "closing"})' /\ ~Working(t, {"closing"})'
    BY <1>3, <1>4, AdminTypes DEF Working
  <1>6. UNCHANGED <<ops, routes, removed, sealed, subscribers, registry>>
    BY <1>3 DEF routerVars, busVars
  <1>7. s \notin active /\ s \notin closed
    BY <1>4 DEF BookInv, Lives
  <1>8. /\ \A j \in 1..step[mu] - 1 : ~TakenBack(s, j)
        /\ AllRemoved(s) /\ \A m \in Middlewares : registry[m] # s
    BY <1>1, <1>2, <1>4, StopsClean
  <1>9. /\ RouteReach(s) = step[mu] /\ RouteReach(s)' = 1 /\ EventReach(s) = step[mu] /\ EventReach(s)' = 1
        /\ \A t \in Services : t # s =>
                RouteReach(t)' = RouteReach(t) /\ EventReach(t)' = EventReach(t)
    BY <1>3, <1>4, <1>5, <1>6, <1>7 DEF RouteReach, EventReach, ReachBut
  <1>10. Counted' /\ RemovedIsOwn'
    <2>1. \A t \in Services : StartReach(t)' = StartReach(t)
      BY AdminStepType DEF AdminStep
    <2>2. \A t \in Services : Ends(t, RouteReach(t), RouteReach(t)') /\ Ends(t, EventReach(t), EventReach(t)')
      BY <1>8, <1>9 DEF Ends
    <2> QED
      BY <1>6, <2>1, <2>2, QuietBooks
  <1>11. BeforeSeal' /\ RestartsFromNothing'
    BY <1>4, <1>5, <1>6 DEF BeforeSeal, RestartsFromNothing
  <1>12. Lives'
    BY <1>3, <1>4, <1>5, <1>6 DEF BookInv, Lives
  <1>13. ClosedIsGone'
    <2>1. \A t : AllRemoved(t)' <=> AllRemoved(t)
      BY <1>6 DEF AllRemoved, Serves, Entry, Entries
    <2> QED
      BY <1>3, <1>6, <1>8, <2>1, KillSwitchAssumption DEF BookInv, ClosedIsGone
  <1> QED
    BY <1>10, <1>11, <1>12, <1>13 DEF BookInv

\* The events change no book.
LEMMA NotifyBooks ==
    ASSUME TypeInv, TreeCurrent, BookInv, NEW p \in Admins, Notify(p) \/ Deliver(p) \/ Done(p)
    PROVE  BookInv'
  <1>1. /\ UNCHANGED <<routerVars, subscribers, mu, active, closed, step>>
        /\ \A q \in Admins : pc[q] \in {"init", "removed", "closing"} => pc'[q] = pc[q] /\ job'[q] = job[q]
        /\ \A q \in Admins : pc[q] \notin {"init", "removed", "closing"} =>
                pc'[q] \notin {"init", "removed", "closing"}
        /\ \A q \in Admins : pc[q] = "idle" => pc'[q] = "idle"
        /\ pc'[Starter] = pc[Starter]
    BY AdminTypes DEF Notify, Deliver, Done, Emit, Handled, Waited, Goto
  <1>2. UNCHANGED <<ops, routes, removed, sealed, subscribers, registry>>
    BY <1>1 DEF routerVars
  <1>3. \A t : /\ Working(t, {"init"})' <=> Working(t, {"init"})
               /\ Working(t, {"removed", "closing"})' <=> Working(t, {"removed", "closing"})
               /\ Working(t, {"closing"})' <=> Working(t, {"closing"})
    BY <1>1 DEF Working
  <1>4. \A t \in Services : StartReach(t)' = StartReach(t)
    BY AdminStepType DEF AdminStep
  <1>5. \A t \in Services : RouteReach(t)' = RouteReach(t) /\ EventReach(t)' = EventReach(t)
    BY <1>1, <1>2, <1>3, <1>4 DEF RouteReach, EventReach, ReachBut
  <1>6. Counted' /\ RemovedIsOwn'
    BY <1>2, <1>4, <1>5, QuietBooks DEF Ends
  <1>7. BeforeSeal' /\ Lives'
    BY <1>1, <1>2, <1>3 DEF BookInv, BeforeSeal, Lives
  <1>8. ClosedIsGone'
    BY <1>1, <1>2 DEF BookInv, ClosedIsGone, AllRemoved, Serves, Entry, Entries
  <1>9. RestartsFromNothing'
    <2>1. \A t : AllRemoved(t)' <=> AllRemoved(t)
      BY <1>2 DEF AllRemoved, Serves, Entry, Entries
    <2> QED
      BY <1>1, <1>2, <1>3, <2>1 DEF BookInv, RestartsFromNothing, TakenBack, Entry
  <1> QED
    BY <1>6, <1>7, <1>8, <1>9 DEF BookInv

LEMMA InitBooks == Init => BookInv
  <1> SUFFICES ASSUME Init PROVE BookInv
    OBVIOUS
  <1>1. /\ ~sealed /\ mu = NoOne /\ closed = {} /\ active = {} /\ \A q \in Admins : pc[q] = "idle"
        /\ pc[Starter] = "init" /\ job[Starter] = Order[1] /\ step[Starter] = 1 /\ ops = << >>
    BY KillSwitchAssumption DEF Init, RouterInit, Procs
  <1>2. \A s \in Services : StartReach(s) = 1
    BY <1>1, Positions DEF StartReach
  <1>3. \A s, L : ~Working(s, L)
    BY <1>1, KillSwitchAssumption DEF Working
  <1>4. \A s \in Services : RouteReach(s) = 1 /\ EventReach(s) = 1
    BY <1>1, <1>2 DEF RouteReach, EventReach, ReachBut
  <1>5. \A s \in Services : removed[s] = {} /\ \A r \in Routes : routes[s][r] = 0
    BY DEF Init, RouterInit
  <1>6. \A s \in Services, e \in Events : subscribers[e][s] = 0
    BY KillSwitchAssumption DEF Init, NoneOf
  <1>7. \A s, r : Cardinality(GroupOps(s, r)) = 0
    <2>1. \A s, r : GroupOps(s, r) = {}
      BY <1>1 DEF GroupOps
    <2> QED
      BY <2>1, FS_EmptySet
  <1>8. Counted
    BY <1>2, <1>4, <1>5, <1>6, <1>7, NoCalls DEF Counted
  <1>9. BeforeSeal /\ Lives /\ RestartsFromNothing /\ RemovedIsOwn
    BY <1>1, <1>3, <1>5 DEF BeforeSeal, Lives, RestartsFromNothing, RemovedIsOwn
  <1>10. ClosedIsGone
    BY <1>1 DEF ClosedIsGone
  <1> QED
    BY <1>8, <1>9, <1>10 DEF BookInv

LEMMA StutterBooks == ASSUME TypeInv, BookInv, UNCHANGED vars PROVE BookInv'
  <1>1. UNCHANGED <<ops, registry, routes, removed, sealed, subscribers, mu, active, closed, pc, job, step>>
    BY DEF vars, routerVars, busVars, adminVars
  <1>2. /\ \A s \in Services : StartReach(s)' = StartReach(s)
        /\ \A s, L : Working(s, L)' <=> Working(s, L)
    BY <1>1, StartReachSame DEF Working
  <1>3. \A s \in Services : RouteReach(s)' = RouteReach(s) /\ EventReach(s)' = EventReach(s)
    BY <1>1, <1>2 DEF RouteReach, EventReach, ReachBut
  <1>4. Counted' /\ RemovedIsOwn'
    BY <1>1, <1>2, <1>3, QuietBooks DEF Ends
  <1>5. BeforeSeal' /\ Lives'
    BY <1>1, <1>2 DEF BookInv, BeforeSeal, Lives
  <1>6. \A t : AllRemoved(t)' <=> AllRemoved(t)
    BY <1>1 DEF AllRemoved, Serves, Entry, Entries
  <1>7. ClosedIsGone' /\ RestartsFromNothing'
    BY <1>1, <1>2, <1>6 DEF BookInv, ClosedIsGone, RestartsFromNothing, TakenBack, Entry
  <1> QED
    BY <1>4, <1>5, <1>7 DEF BookInv

LEMMA BookStep ==
    ASSUME KilledAfterSeal, RestartsStopClean, TypeInv, TreeCurrent, BookInv, [Next]_vars
    PROVE  BookInv'
  <1>1. CASE \E p \in Procs : InitStep(p)
    BY <1>1, InitStepBooks
  <1>2. CASE NextService \/ Collect \/ PostBuild
    BY <1>2, StarterBooks, PostBuildBooks
  <1>3. CASE \E p \in Admins, s \in Services : CloseService(p, s)
    BY <1>3, CloseServiceBooks
  <1>4. ASSUME NEW p \in Admins, AdminStep(p) PROVE BookInv'
    BY <1>4, RemoveEventsBooks, ClosedBooks, RestartServiceBooks, RestartedBooks, StoppedBooks, NotifyBooks
       DEF AdminStep
  <1>5. CASE UNCHANGED vars
    BY <1>5, StutterBooks
  <1> QED
    BY <1>1, <1>2, <1>3, <1>4, <1>5, Steps

LEMMA BookInvariant ==
    ASSUME KilledAfterSeal, RestartsStopClean
    PROVE  Spec => [](TypeInv /\ TreeCurrent /\ BookInv)
  <1>1. Init => TypeInv /\ TreeCurrent /\ BookInv
    BY InitType, InitBooks
  <1>2. TypeInv /\ TreeCurrent /\ BookInv /\ [Next]_vars => (TypeInv /\ TreeCurrent /\ BookInv)'
    BY TypeStep, BookStep
  <1> QED
    BY <1>1, <1>2, PTL DEF Spec

(***************************************************************************)
(* What the invariants say                                                 *)
(***************************************************************************)
\* The books name only what there is, and once sealed the router serves the
\* tree of its present record: no method forgets to publish.
THEOREM TypesAndTree == Spec => [](TypeOK /\ ServedIsCurrent)
  <1>1. TypeInv /\ TreeCurrent => TypeOK /\ ServedIsCurrent
    BY DEF TypeInv, TreeCurrent, ServedIsCurrent
  <1> QED
    BY <1>1, TypeInvariant, PTL

\* What a sealed router answers on a route.
LEMMA Answers ==
    ASSUME TypeInv, TreeCurrent, sealed, NEW r \in Routes
    PROVE  /\ Overlaid(removed, r) => served[r] = Unavailable
           /\ served[r].code = 200 => \A m \in served[r].guards : registry[m] # NoOne
           /\ \A i \in 1..Len(ops) : r \in RoutesOf(ops[i]) /\ ~Overlaid(removed, r) =>
                 LET op == ops[LastOp(ops, r)]
                     guards == SetOf(globals) \cup Guards(op, r)
                 IN (\A m \in guards : registry[m] # NoOne) => served[r] = Open(op.svc, guards)
  <1>1. served[r] = Tree(ops, globals, registry, removed)[r]
    BY DEF TreeCurrent
  <1> DEFINE op == ops[LastOp(ops, r)]
             guards == SetOf(globals) \cup Guards(op, r)
             None == \A i \in 1..Len(ops) : r \notin RoutesOf(ops[i])
  <1>2. Tree(ops, globals, registry, removed)[r] =
            IF Overlaid(removed, r) THEN Unavailable
            ELSE IF None THEN NotRouted
            ELSE IF \A m \in guards : Passes(registry, m) THEN Open(op.svc, guards) ELSE Unavailable
    BY DEF Tree
  <1>3. Unavailable.code = 503 /\ NotRouted.code = 404 /\ Open(op.svc, guards).guards = guards
    BY DEF Unavailable, NotRouted, Open
  <1>4. \A i \in 1..Len(ops) : r \in RoutesOf(ops[i]) => ~None
    OBVIOUS
  <1> HIDE DEF op, guards, None
  <1>5. Overlaid(removed, r) => served[r] = Unavailable
    BY <1>1, <1>2
  <1>6. served[r].code = 200 => \A m \in served[r].guards : registry[m] # NoOne
    BY <1>1, <1>2, <1>3 DEF Passes
  <1>7. ~None /\ ~Overlaid(removed, r) /\ (\A m \in guards : registry[m] # NoOne) => served[r] = Open(op.svc, guards)
    BY <1>1, <1>2 DEF Passes
  <1> QED
    BY <1>4, <1>5, <1>6, <1>7 DEF op, guards

\* A route of a service's script is served by one of its calls.
LEMMA ScriptedIsServed ==
    ASSUME NEW s \in Services
    PROVE  \A h \in Scripted(s) : /\ h.route \in Routes /\ h.mws \subseteq Middlewares
                                  /\ \E k \in Entries(s) : /\ Serves(s, k, h.route)
                                                            /\ h \in SetOf(Entry(s, k).handles)
  <1> SUFFICES ASSUME NEW h \in Scripted(s)
               PROVE  /\ h.route \in Routes /\ h.mws \subseteq Middlewares
                      /\ \E k \in Entries(s) : Serves(s, k, h.route) /\ h \in SetOf(Entry(s, k).handles)
    OBVIOUS
  <1>1. PICK k \in Entries(s) : Entry(s, k).kind \in {"handle", "group"} /\ h \in SetOf(Entry(s, k).handles)
    <2>1. PICK c \in SetOf(Script[s]) : c.kind \in {"handle", "group"} /\ h \in SetOf(c.handles)
      BY DEF Scripted
    <2> QED
      BY <2>1 DEF SetOf, Entries, Entry
  <1>2. Serves(s, k, h.route)
    BY <1>1 DEF Serves, RoutesOf
  <1> DEFINE H == [route : Routes, mws : SUBSET Middlewares]
  <1>3. h \in H
    <2>1. Entry(s, k).handles \in Seq(H)
      BY CallTypes DEF Registrations
    <2> HIDE DEF H
    <2> QED
      BY <1>1, <2>1 DEF SetOf
  <1> QED
    BY <1>1, <1>2, <1>3

\* No teardown or restart leaves a route open that it should not: a route of a
\* closed service answers 503, replays and failed restarts included, and so
\* does every route behind a closed service's middleware.
THEOREM NothingLeftOpen ==
    ASSUME KilledAfterSeal, RestartsStopClean
    PROVE  Spec => []NothingIsExposed
  <1>1. ASSUME TypeInv, TreeCurrent, BookInv PROVE NothingIsExposed
    <2>1. ClosedRoutesUnavailable
      <3> SUFFICES ASSUME sealed, NEW s \in closed, NEW h \in Scripted(s) PROVE served[h.route].code = 503
        BY DEF ClosedRoutesUnavailable
      <3>1. s \in Services
        BY <1>1 DEF TypeInv, TypeOK
      <3>2. PICK k \in Entries(s) : Serves(s, k, h.route)
        BY <3>1, ScriptedIsServed
      <3>3. h.route \in Routes
        BY <3>1, ScriptedIsServed
      <3>4. h.route \in removed[s]
        BY <1>1, <3>2, <3>3 DEF BookInv, ClosedIsGone, AllRemoved
      <3>5. served[h.route] = Unavailable
        BY <1>1, <3>1, <3>3, <3>4, Answers DEF Overlaid
      <3> QED
        BY <3>5 DEF Unavailable
    <2>2. GuardsHold
      <3> SUFFICES ASSUME NEW r \in Routes, served[r].code = 200, NEW m \in served[r].guards
                   PROVE  registry[m] # NoOne /\ registry[m] \notin closed
        BY DEF GuardsHold
      <3>1. sealed
        <4>1. ~sealed => served[r] = NotRouted
          BY <1>1 DEF TreeCurrent
        <4> QED
          BY <4>1 DEF NotRouted
      <3>2. m \in Middlewares
        BY <1>1 DEF TypeInv, TypeOK, RouterTypeOK
      <3>3. served[r].code = 200 => \A x \in served[r].guards : registry[x] # NoOne
        BY <1>1, <3>1, Answers
      <3>4. registry[m] \notin closed
        BY <1>1, <3>2 DEF BookInv, ClosedIsGone
      <3> QED
        BY <3>3, <3>4
    <2> QED
      BY <2>1, <2>2 DEF NothingIsExposed
  <1> QED
    BY <1>1, BookInvariant, PTL

\* With w.mu free and the router sealed every active service has run its whole
\* script, and the others nothing of theirs.
LEMMA SettledReach ==
    ASSUME TypeInv, BookInv, Settled, NEW s \in Services
    PROVE  /\ RouteReach(s) = IF s \in active THEN Len(Script[s]) + 1 ELSE 1
           /\ EventReach(s) = IF s \in active THEN Len(Script[s]) + 1 ELSE 1
  <1>1. sealed /\ \A L : ~Working(s, L)
    BY KillSwitchAssumption DEF Settled, Working
  <1> QED
    BY <1>1 DEF RouteReach, EventReach, ReachBut

\* Where a route is registered once, the call and the handle are the only ones.
LEMMA OnePlace ==
    ASSUME RoutesRegisteredOnce, NEW s \in Services, NEW t \in Services,
           NEW k \in Entries(s), NEW l \in Entries(t),
           NEW h \in SetOf(Entry(s, k).handles), NEW g \in SetOf(Entry(t, l).handles), h.route = g.route
    PROVE  s = t /\ k = l /\ h = g
  <1>1. PICK i \in 1..Len(Entry(s, k).handles) : h = Entry(s, k).handles[i]
    BY DEF SetOf
  <1>2. PICK j \in 1..Len(Entry(t, l).handles) : g = Entry(t, l).handles[j]
    BY DEF SetOf
  <1>3. s = t /\ k = l /\ i = j
    BY <1>1, <1>2 DEF RoutesRegisteredOnce
  <1> QED
    BY <1>1, <1>2, <1>3

LEMMA OneCall ==
    ASSUME RoutesRegisteredOnce, NEW s \in Services, NEW t \in Services,
           NEW k \in Entries(s), NEW l \in Entries(t), NEW r, Serves(s, k, r), Serves(t, l, r)
    PROVE  s = t /\ k = l
  <1>1. PICK h \in SetOf(Entry(s, k).handles) : h.route = r
    BY DEF Serves, RoutesOf
  <1>2. PICK g \in SetOf(Entry(t, l).handles) : g.route = r
    BY DEF Serves, RoutesOf
  <1> QED
    BY <1>1, <1>2, OnePlace

\* An active service answers on each of its routes whose middleware belongs to
\* active services, after any number of teardowns and restarts.
THEOREM ActiveServicesServe ==
    ASSUME KilledAfterSeal, RestartsStopClean, RoutesRegisteredOnce
    PROVE  Spec => []ActiveRoutesServe
  <1>1. ASSUME TypeInv, TreeCurrent, BookInv PROVE ActiveRoutesServe
    <2> SUFFICES ASSUME Settled, NEW s \in active, NEW h \in Scripted(s),
                        \A m \in h.mws \cup SetOf(globals) : registry[m] \in active
                 PROVE  served[h.route].code = 200 /\ served[h.route].svc = s
      BY DEF ActiveRoutesServe
    <2> DEFINE r == h.route
    <2>1. s \in Services /\ sealed /\ active \subseteq Services
      BY <1>1 DEF TypeInv, TypeOK, Settled
    <2>2. PICK k \in Entries(s) : Serves(s, k, r) /\ h \in SetOf(Entry(s, k).handles)
      BY <2>1, ScriptedIsServed
    <2>3. r \in Routes
      BY <2>1, ScriptedIsServed
    <2>4. k \in 1..RouteReach(s) - 1 /\ k \in 1..StartReach(s) - 1
      <3>1. RouteReach(s) = Len(Script[s]) + 1
        BY <1>1, <2>1, SettledReach
      <3>2. StartReach(s) = Len(Script[s]) + 1
        <4>1. pc[Starter] # "init"
          BY <1>1, <2>1 DEF TypeInv, Placed
        <4> QED
          BY <1>1, <2>1, <4>1, StartReachIs
      <3> QED
        BY <2>1, <3>1, <3>2, CallTypes DEF Entries
    <2>5. ~Overlaid(removed, r)
      <3> SUFFICES ASSUME NEW t \in Services, r \in removed[t] PROVE FALSE
        BY DEF Overlaid
      <3>1. PICK l \in Entries(t) : Serves(t, l, r)
        BY <1>1 DEF BookInv, RemovedIsOwn
      <3>2. t = s
        BY <2>1, <2>2, <3>1, OneCall
      <3>3. removed[s] = {}
        BY <1>1, <2>1, <2>2, <2>3, <2>4 DEF BookInv, RemovedIsOwn
      <3> QED
        BY <3>2, <3>3
    <2>6. PICK i \in 1..Len(ops) : r \in RoutesOf(ops[i])
      <3>1. PICK i \in 1..Len(ops) : ops[i].svc = s /\ ops[i].handles = Entry(s, k).handles
        BY <1>1, <2>1, <2>2, <2>4 DEF TypeInv, InitsRecorded, OnRecord, Serves
      <3>2. r \in RoutesOf(ops[i])
        BY <2>2, <3>1 DEF Serves, RoutesOf
      <3> QED
        BY <3>2
    <2> DEFINE op == ops[LastOp(ops, r)]
               guards == SetOf(globals) \cup Guards(op, r)
    <2>7. LastOp(ops, r) \in 1..Len(ops) /\ r \in RoutesOf(op)
      BY <1>1, <2>6, RouterTypes, LastOpIs
    <2>8. op.svc \in Services
      <3>1. op \in Operations
        BY <1>1, <2>7, RouterTypes
      <3> QED
        BY <3>1 DEF Operations
    <2>9. PICK l \in Entries(op.svc) : op.handles = Entry(op.svc, l).handles
      BY <1>1, <2>7 DEF TypeInv, RecordIsScripted
    <2> HIDE DEF op, guards, r
    <2>10. \A g \in SetOf(op.handles) : g.route = r => op.svc = s /\ g = h
      BY <2>1, <2>2, <2>8, <2>9, OnePlace DEF r
    <2>11. op.svc = s /\ Guards(op, r) = h.mws
      <3>1. PICK g \in SetOf(op.handles) : g.route = r
        BY <2>7 DEF RoutesOf
      <3>2. {x \in SetOf(op.handles) : x.route = r} = {h}
        BY <2>10, <3>1
      <3> QED
        BY <2>10, <3>1, <3>2 DEF Guards
    <2>12. \A m \in guards : registry[m] # NoOne
      BY <2>1, <2>11, KillSwitchAssumption DEF guards
    <2>13. served[r] = Open(op.svc, guards)
      BY <1>1, <2>1, <2>3, <2>5, <2>6, <2>12, Answers DEF op, guards
    <2> QED
      BY <2>11, <2>13 DEF Open, r
  <1> QED
    BY <1>1, BookInvariant, PTL

\* The books say of each service what it registered in its present life, once:
\* a route is listed once for an active service and not for a closed one, and
\* so is a subscription, however often the record has been replayed.
THEOREM BooksAreRight ==
    ASSUME KilledAfterSeal, RestartsStopClean, RoutesRegisteredOnce
    PROVE  Spec => []BooksHold
  <1>1. ASSUME TypeInv, TreeCurrent, BookInv PROVE BooksHold
    <2>1. TypeOK /\ ServedIsCurrent
      BY <1>1 DEF TypeInv, TreeCurrent, ServedIsCurrent
    <2>2. RoutesListedOnce
      <3> SUFFICES ASSUME Settled, NEW s \in Services, NEW r \in Routes
                   PROVE  routes[s][r] = IF s \in active /\ r \in {h.route : h \in Scripted(s)} THEN 1 ELSE 0
        BY DEF RoutesListedOnce
      <3> DEFINE S == ServingCalls(s, r, RouteReach(s))
      <3>1. routes[s][r] = Cardinality(S)
        BY <1>1 DEF BookInv, Counted
      <3>2. CASE s \notin active
        BY <1>1, <3>1, <3>2, SettledReach, NoCalls
      <3>3. CASE s \in active
        <4>1. S = {k \in Entries(s) : Serves(s, k, r)}
          <5>1. RouteReach(s) = Len(Script[s]) + 1 /\ Len(Script[s]) \in Nat /\ sealed
            BY <1>1, <3>3, SettledReach, CallTypes DEF Settled
          <5> QED
            BY <5>1 DEF ServingCalls, Entries
        <4>2. r \in {h.route : h \in Scripted(s)} <=> \E k \in Entries(s) : Serves(s, k, r)
          <5>1. ASSUME NEW k \in Entries(s), Serves(s, k, r) PROVE r \in {h.route : h \in Scripted(s)}
            <6>1. PICK h \in SetOf(Entry(s, k).handles) : h.route = r
              BY <5>1 DEF Serves, RoutesOf
            <6>2. h \in Scripted(s)
              BY <5>1, <6>1 DEF Scripted, Serves, SetOf, Entries, Entry
            <6> QED
              BY <6>1, <6>2
          <5>2. ASSUME NEW h \in Scripted(s), h.route = r PROVE \E k \in Entries(s) : Serves(s, k, r)
            BY <5>2, ScriptedIsServed
          <5> QED
            BY <5>1, <5>2
        <4> HIDE DEF S
        <4>3. CASE \E k \in Entries(s) : Serves(s, k, r)
          <5>1. PICK k \in Entries(s) : Serves(s, k, r)
            BY <4>3
          <5>2. S = {k}
            BY <4>1, <5>1, OneCall
          <5> QED
            BY <3>1, <3>3, <4>2, <5>1, <5>2, FS_Singleton
        <4>4. CASE ~\E k \in Entries(s) : Serves(s, k, r)
          <5>1. S = {}
            BY <4>1, <4>4
          <5> QED
            BY <3>1, <4>2, <4>4, <5>1, FS_EmptySet
        <4> QED
          BY <4>3, <4>4
      <3> QED
        BY <3>2, <3>3
    <2>3. SubscribedOnce
      <3> SUFFICES ASSUME Settled, NEW s \in Services, NEW e \in Events
                   PROVE  subscribers[e][s] =
                            IF s \in active THEN Cardinality({k \in Entries(s) : Hears(s, k, e)}) ELSE 0
        BY DEF SubscribedOnce
      <3>1. subscribers[e][s] = Cardinality(HearingCalls(s, e, EventReach(s)))
        BY <1>1 DEF BookInv, Counted
      <3>2. CASE s \notin active
        BY <1>1, <3>1, <3>2, SettledReach, NoCalls
      <3>3. CASE s \in active
        <4>1. EventReach(s) = Len(Script[s]) + 1 /\ Len(Script[s]) \in Nat
          BY <1>1, <3>3, SettledReach, CallTypes
        <4>2. HearingCalls(s, e, EventReach(s)) = {k \in Entries(s) : Hears(s, k, e)}
          BY <4>1 DEF HearingCalls, Entries
        <4> QED
          BY <3>1, <3>3, <4>2
      <3> QED
        BY <3>2, <3>3
    <2> QED
      BY <2>1, <2>2, <2>3 DEF BooksHold
  <1> QED
    BY <1>1, BookInvariant, PTL
=============================================================================
