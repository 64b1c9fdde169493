------------------------------ MODULE EventBus ------------------------------
(***************************************************************************)
(* The event bus (eventbus.go). Subscribing and removing run under bus.mu; *)
(* Emit takes a snapshot of the subscribers under it and then runs each    *)
(* handler on a goroutine of its own, so handlers run later, in any order, *)
(* whatever has happened to the bus since. They are started in the order   *)
(* of their registration, which decides nothing: subscriptions are counted.*)
(***************************************************************************)
EXTENDS Integers

CONSTANTS
    Events,     \* event types
    Owners,     \* what SubscribeWithOwner records, and Nobody for Subscribe
    Emitters    \* goroutines that emit

VARIABLES
    subscribers, \* bus.subscribers: the subscriptions of each event, by owner
    emitting     \* per emitter: the event, its subject and the handlers of the
                 \* snapshot that still run, by owner

busVars == <<subscribers, emitting>>

NoneOf == [o \in Owners |-> 0]
Idle == [event |-> "none", about |-> "none", left |-> NoneOf]

Subscribe(owner, e) ==
    /\ subscribers' = [subscribers EXCEPT ![e][owner] = @ + 1]
    /\ UNCHANGED emitting

\* RemoveByService filters each list in place. Fault: it stops at the first
\* subscription of the service.
Filtered_first(subs, owner) == IF subs[owner] > 0 THEN [subs EXCEPT ![owner] = @ - 1] ELSE subs
Filtered(subs, owner) == [subs EXCEPT ![owner] = 0]
RemoveSubscriptions(owner) ==
    /\ subscribers' = [e \in Events |-> Filtered(subscribers[e], owner)]
    /\ UNCHANGED emitting

Emit(p, e, about) ==
    /\ emitting[p] = Idle
    /\ emitting' = [emitting EXCEPT ![p] = [event |-> e, about |-> about, left |-> subscribers[e]]]
    /\ UNCHANGED subscribers

\* One handler of the snapshot runs to its end, or panics and is recovered.
Handled(p, owner) ==
    /\ emitting[p].left[owner] > 0
    /\ emitting' = [emitting EXCEPT ![p].left[owner] = @ - 1]
    /\ UNCHANGED subscribers

\* The WaitGroup's Wait returns.
Waited(p) ==
    /\ emitting[p] # Idle /\ emitting[p].left = NoneOf
    /\ emitting' = [emitting EXCEPT ![p] = Idle]
    /\ UNCHANGED subscribers

BusTypeOK ==
    /\ subscribers \in [Events -> [Owners -> Nat]]
    /\ emitting \in [Emitters -> [event : Events \cup {"none"}, about : Owners \cup {"none"},
                                 left : [Owners -> Nat]]]
=============================================================================
