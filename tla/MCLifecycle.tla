---------------------------- MODULE MCLifecycle ----------------------------
(***************************************************************************)
(* A small worker for Lifecycle: db is registered as an instance, cache    *)
(* and web are constructed after it. A behaviour either has an operator    *)
(* who restarts services, or a Start that fails: RestartService is open to *)
(* callers after a failed Start too (w.shutDown is not set), and reopening *)
(* a service there while Start still closes it is the caller's error.      *)
(***************************************************************************)
EXTENDS Lifecycle

CONSTANTS db, cache, web
ThreeInOrder == <<db, cache, web>>

VARIABLE restarts  \* the operator restarts services, and Start does not fail
                   \* once they are built

mcInit == Init /\ restarts \in BOOLEAN

mcNext ==
    /\ Next /\ UNCHANGED restarts
    /\ IF restarts
       THEN \A p \in Starters : pc[p] # "build" /\ pc'[p] = "closing" => pc[p] = "closing"
       ELSE \A p \in Admins : pc'[p] # "reinit"

\* Where the first conjunct takes StartFails out, Collected or StartPhase is
\* left, so the fairness of FairSpec asks of the code what it asks there.
mcSpec ==
    /\ mcInit /\ [][mcNext]_<<vars, restarts>>
    /\ \A p \in Starters : SF_vars(StarterStep(p))
    /\ \A p \in Stoppers : SF_vars(StopperStep(p))
    /\ \A p \in Admins : WF_vars(AdminStep(p))
=============================================================================
