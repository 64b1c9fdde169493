-------------------------- MODULE MigrationLedger --------------------------
(***************************************************************************)
(* What the tracking table promises of the schema: a migration and its row *)
(* change together, in one step, and a mark is set or cleared without      *)
(* touching the schema. migrate/doc.go: "Each migration's up SQL and its   *)
(* tracking row commit in one transaction", and the same of Down.          *)
(***************************************************************************)
CONSTANT Versions
VARIABLES schema, tracking

Init == schema = {} /\ tracking = [v \in Versions |-> "none"]

Apply(v) ==
    /\ tracking[v] = "none"
    /\ schema' = schema \cup {v}
    /\ tracking' = [tracking EXCEPT ![v] = "clean"]

Revert(v) ==
    /\ schema' = schema \ {v}
    /\ tracking' = [tracking EXCEPT ![v] = "none"]

Mark(v) ==
    /\ tracking' = [tracking EXCEPT ![v] = "dirty"]
    /\ UNCHANGED schema

Clear(v) ==
    /\ tracking[v] = "dirty"
    /\ tracking' = [tracking EXCEPT ![v] = "none"]
    /\ UNCHANGED schema

Next == \E v \in Versions : Apply(v) \/ Revert(v) \/ Mark(v) \/ Clear(v)

Spec == Init /\ [][Next]_<<schema, tracking>>
=============================================================================
