---------------------------- MODULE MCKillSwitch ----------------------------
(* Small applications for KillSwitch.                                      *)
EXTENDS KillSwitch, TLC

CONSTANTS auth, billing, pages, me, invoices, plans, home, requireAuth, audit

H(r, mws) == [route |-> r, mws |-> mws]
OneHandle(r, mws) == [kind |-> "handle", name |-> "none", handles |-> <<H(r, mws)>>]
A(kind, name) == [kind |-> kind, name |-> name, handles |-> << >>]

ThreeInOrder == <<auth, billing, pages>>
TwoInOrder == <<auth, billing>>

\* auth guards its own route and one of billing's, which registers its two
\* routes in a group and hears of each closing twice; pages sets the 404
\* handler and a global middleware.
AppScript ==
    auth :> <<A("register", requireAuth), OneHandle(me, {requireAuth}), A("subscribe", "closed")>>
    @@ billing :> <<[kind |-> "group", name |-> "none",
                     handles |-> <<H(invoices, {requireAuth}), H(plans, {})>>],
                    A("subscribe", "closed"), A("subscribe", "closed"), A("subscribe", "initialized")>>
    @@ pages :> <<A("notfound", "none"), A("register", audit), A("use", audit), OneHandle(home, {})>>
=============================================================================
