------------------------------ MODULE Database ------------------------------
(***************************************************************************)
(* The database service (database/service.go, tx.go): Init opens a handle  *)
(* and retries, Close closes it, and callers run functions in transactions *)
(* meanwhile. A handle is an *sql.DB or, in pgx mode, a pgxpool.Pool with  *)
(* the *sql.DB made from it. The server may refuse any call, and a commit  *)
(* may take effect without its answer arriving.                            *)
(***************************************************************************)
EXTENDS Integers, FiniteSets

CONSTANTS
    TxCallers,   \* goroutines that call WithTx or WithPgxTx
    DbMode,      \* "sql" or "pgx"
    DbRetries,   \* Database.ConnRetries
    MaxHandles,  \* bound on handles ever opened
    MaxDbFaults, \* bound on server calls that fail
    MaxTxCalls   \* bound on calls, per caller

ASSUME DatabaseAssumption ==
    /\ DbMode \in {"sql", "pgx"} /\ DbRetries \in Nat
    /\ MaxHandles \in Nat \ {0} /\ MaxDbFaults \in Nat /\ MaxTxCalls \in Nat

VARIABLES
    dbPhase,   \* of the owner's call: "down", "connecting", "up", "closing"
    attempt,   \* connection attempts of this Init
    current,   \* s.db, s.pool: the handle, 0 for nil
    dbClosed,  \* s.closed
    openSet,   \* handles opened and not closed
    handles,   \* handles ever opened
    dbFaults,
    txCall,    \* per caller: "idle", "checked", "running", "deferred"
    txKind,    \* per caller: "sql" or "pgx"
    txOn,      \* per caller: the handle of its transaction, 0 for none
    tx,        \* per caller: "none", "open", "committed", "rolledback"
    txFn,      \* per caller: how fn ended
    txCtxDone, \* per caller: the context it passed is done
    txResult,  \* per caller: of the last call
    ownEnd,    \* callers whose fn ended the transaction itself, or whose Commit
               \* lost its answer, in the last call
    txCalls

ownerVars == <<dbPhase, attempt, current, dbClosed, openSet, handles>>
txVars == <<txCall, txKind, txOn, tx, txFn, txCtxDone, txResult, ownEnd, txCalls>>
dbVars == <<ownerVars, dbFaults, txVars>>

All(x) == [p \in TxCallers |-> x]

DbInit ==
    /\ dbPhase = "down" /\ attempt = 0 /\ current = 0 /\ dbClosed = FALSE
    /\ openSet = {} /\ handles = 0 /\ dbFaults = 0
    /\ txCall = All("idle") /\ txKind = All("sql") /\ txOn = All(0) /\ tx = All("none")
    /\ txFn = All("nil") /\ txCtxDone = All(FALSE) /\ txResult = All("none")
    /\ ownEnd = {} /\ txCalls = All(0)

Fault == dbFaults < MaxDbFaults /\ dbFaults' = dbFaults + 1
NoFault == dbFaults' = dbFaults

(***************************************************************************)
(* Init and Close, called by the container one after the other             *)
(***************************************************************************)
InitStarts ==
    /\ dbPhase = "down" /\ handles < MaxHandles
    /\ dbPhase' = "connecting" /\ attempt' = 0
    /\ UNCHANGED <<current, dbClosed, openSet, handles, dbFaults, txVars>>

\* initSQL, initPgx: a handle whose ping fails is closed again.
AfterFailedPing(opened) == openSet

Connects ==
    LET opened == handles + 1 IN
    /\ dbPhase = "connecting" /\ handles < MaxHandles /\ handles' = opened
    /\ \/ /\ NoFault /\ openSet' = openSet \cup {opened}
          /\ current' = opened /\ dbClosed' = FALSE /\ dbPhase' = "up" /\ UNCHANGED attempt
       \/ /\ Fault /\ openSet' = AfterFailedPing(opened)
          /\ attempt' = attempt + 1
          /\ dbPhase' = IF attempt < DbRetries THEN "connecting" ELSE "down"
          /\ UNCHANGED <<current, dbClosed>>
    /\ UNCHANGED txVars

\* Between two attempts Init's context ends, or a setting is refused before any.
InitGivesUp ==
    /\ dbPhase = "connecting" /\ dbPhase' = "down"
    /\ UNCHANGED <<attempt, current, dbClosed, openSet, handles, dbFaults, txVars>>

CloseMarks ==
    /\ dbPhase = "up" /\ dbPhase' = "closing" /\ dbClosed' = TRUE
    /\ UNCHANGED <<attempt, current, openSet, handles, dbFaults, txVars>>

\* A pool's Close waits for the connections in use, an sql.DB's does not.
InUse(h) == {p \in TxCallers : txOn[p] = h}
CloseEnds ==
    /\ dbPhase = "closing" /\ (DbMode = "pgx" => InUse(current) = {})
    /\ openSet' = openSet \ {current} /\ dbPhase' = "down"
    /\ UNCHANGED <<attempt, current, dbClosed, handles, dbFaults, txVars>>

(***************************************************************************)
(* WithTx and WithPgxTx                                                    *)
(***************************************************************************)
Returns(p, what) ==
    /\ txCall' = [txCall EXCEPT ![p] = "idle"] /\ txResult' = [txResult EXCEPT ![p] = what]
    /\ txOn' = [txOn EXCEPT ![p] = 0]

Calls(p, kind) ==
    /\ txCall[p] = "idle" /\ txCalls[p] < MaxTxCalls
    /\ txCalls' = [txCalls EXCEPT ![p] = @ + 1]
    /\ txKind' = [txKind EXCEPT ![p] = kind] /\ tx' = [tx EXCEPT ![p] = "none"]
    /\ txFn' = [txFn EXCEPT ![p] = "nil"] /\ txCtxDone' = [txCtxDone EXCEPT ![p] = FALSE]
    /\ ownEnd' = ownEnd \ {p}
    /\ IF dbClosed THEN Returns(p, "error")
       ELSE txCall' = [txCall EXCEPT ![p] = "checked"] /\ UNCHANGED <<txOn, txResult>>
    /\ UNCHANGED <<ownerVars, dbFaults>>

\* s.db is read after the check, and the handle may be closed by then.
HasHandle(kind) == current # 0 /\ (kind = "pgx" => DbMode = "pgx")
Begins(p) ==
    /\ txCall[p] = "checked"
    /\ \/ /\ HasHandle(txKind[p]) /\ current \in openSet /\ ~txCtxDone[p] /\ NoFault
          /\ txCall' = [txCall EXCEPT ![p] = "running"]
          /\ txOn' = [txOn EXCEPT ![p] = current] /\ tx' = [tx EXCEPT ![p] = "open"]
          /\ UNCHANGED txResult
       \/ /\ IF HasHandle(txKind[p]) /\ current \in openSet /\ ~txCtxDone[p] THEN Fault ELSE NoFault
          /\ Returns(p, "error") /\ UNCHANGED tx
    /\ UNCHANGED <<ownerVars, txKind, txFn, txCtxDone, ownEnd, txCalls>>

\* The caller's context ends: database/sql rolls back on its own, pgx does not.
ContextEnds(p) ==
    /\ txCall[p] # "idle" /\ ~txCtxDone[p]
    /\ txCtxDone' = [txCtxDone EXCEPT ![p] = TRUE]
    /\ tx' = [tx EXCEPT ![p] = IF txKind[p] = "sql" /\ @ = "open" THEN "rolledback" ELSE @]
    /\ UNCHANGED <<ownerVars, dbFaults, txCall, txKind, txOn, txFn, txResult, ownEnd, txCalls>>

\* fn returns, panics or ends its goroutine, and may end the transaction first.
FnEnds(p, how, own) ==
    /\ txCall[p] = "running" /\ txCall' = [txCall EXCEPT ![p] = "deferred"]
    /\ txFn' = [txFn EXCEPT ![p] = how]
    /\ IF own # "open" /\ tx[p] = "open" /\ ~txCtxDone[p]
       THEN tx' = [tx EXCEPT ![p] = own] /\ ownEnd' = ownEnd \cup {p}
       ELSE UNCHANGED <<tx, ownEnd>>
    /\ UNCHANGED <<ownerVars, dbFaults, txKind, txOn, txCtxDone, txResult, txCalls>>

\* The deferred function commits unless fn failed. A Goexit is no panic and no
\* error, so it commits. Fault: a panic is not told from success.
Commits_always(how) == how # "error"
Commits(how) == how \in {"nil", "goexit"}
Told(how) == IF how \in {"panic", "goexit"} THEN how ELSE "error"

CommitsOrRollsBack(p) ==
    /\ txCall[p] = "deferred"
    /\ \/ /\ Commits(txFn[p]) /\ tx[p] = "open" /\ ~txCtxDone[p] /\ NoFault
          /\ tx' = [tx EXCEPT ![p] = "committed"]
          /\ Returns(p, IF txFn[p] = "nil" THEN "ok" ELSE Told(txFn[p])) /\ UNCHANGED ownEnd
       \/ /\ Commits(txFn[p]) /\ tx[p] = "open" /\ ~txCtxDone[p] /\ Fault
          /\ \/ tx' = [tx EXCEPT ![p] = "committed"] /\ ownEnd' = ownEnd \cup {p}
             \/ tx' = [tx EXCEPT ![p] = "rolledback"] /\ UNCHANGED ownEnd
          /\ Returns(p, Told(txFn[p]))
       \/ /\ ~Commits(txFn[p]) \/ tx[p] # "open" \/ txCtxDone[p]
          /\ tx' = [tx EXCEPT ![p] = IF @ = "open" THEN "rolledback" ELSE @]
          /\ NoFault /\ Returns(p, Told(txFn[p])) /\ UNCHANGED ownEnd
    /\ UNCHANGED <<ownerVars, txKind, txFn, txCtxDone, txCalls>>

\* What the probes say of the service, the server being reachable.
CheckHealth == ~dbClosed /\ current # 0
HandleIsReady == ~dbClosed /\ current \in openSet

DbNext ==
    \/ InitStarts \/ Connects \/ InitGivesUp \/ CloseMarks \/ CloseEnds
    \/ \E p \in TxCallers :
         \/ Begins(p) \/ ContextEnds(p) \/ CommitsOrRollsBack(p)
         \/ \E kind \in {"sql", "pgx"} : Calls(p, kind)
         \/ \E how \in {"nil", "error", "panic", "goexit"}, own \in {"open", "committed", "rolledback"} :
              FnEnds(p, how, own)

DbSpec == DbInit /\ [][DbNext]_dbVars

(***************************************************************************)
(* Properties                                                              *)
(***************************************************************************)
\* What WithTx says and what is in the database agree, whenever contexts end,
\* handles close and calls fail: nil means committed, and an error or a panic
\* means not, unless fn committed itself or Commit's answer was lost.
CallersAreTold ==
    \A p \in TxCallers : txCall[p] = "idle" =>
        /\ txResult[p] = "ok" => tx[p] = "committed"
        /\ txResult[p] \in {"error", "panic"} => tx[p] # "committed" \/ p \in ownEnd

\* However often Init retries, fails and runs again, the handle in use is the
\* only one open, none is once Close has returned, and none is closed under a
\* pgx transaction. The probes pass exactly while it is open for use.
OneHandleOpen ==
    /\ HandleIsReady <=> (dbPhase = "up")
    /\ CheckHealth <=> (dbPhase = "up")
    /\ openSet \subseteq (IF dbPhase \in {"up", "closing"} THEN {current} ELSE {})
    /\ DbMode = "pgx" => \A p \in TxCallers : txOn[p] # 0 => txOn[p] \in openSet

\* A transaction ends as its caller is told, on a handle that is open.
TransactionsHold == CallersAreTold /\ OneHandleOpen
=============================================================================
