---------------------------- MODULE MCObjectStore ----------------------------
(* Small instances of ObjectStore.                                         *)
EXTENDS ObjectStore, TLC

CONSTANTS writer, other, admin, d1, d2, d3, d4, d5

Ask(op, match) == [op |-> op, match |-> match]

\* A writer, another client, and an admin of the bucket.
ThreeAsk == writer :> {Ask("put", d1), Ask("delete", "any")}
            @@ other :> {Ask("put", "absent"), Ask("get", "any"), Ask("list", "any"),
                         Ask("create_bucket", "any")}
            @@ admin :> {Ask("delete_bucket", "any")}
ThreeCalls == writer :> 2 @@ other :> 1 @@ admin :> 1

\* A bucket is deleted while a get of a missing object and a put are on it.
RacingAsk == writer :> {Ask("put", "any")}
             @@ other :> {Ask("get", "any")}
             @@ admin :> {Ask("delete_bucket", "any")}
RacingCalls == [c \in Callers |-> 1]
==============================================================================
