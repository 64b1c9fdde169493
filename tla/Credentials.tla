---------------------------- MODULE Credentials ----------------------------
(***************************************************************************)
(* Sessions, one-time tokens and API keys (auth/session, auth/token,       *)
(* auth/apikey): rows of a database table that concurrent requests         *)
(* present, extend, consume and revoke, and that a cleanup loop deletes    *)
(* once expired. The three stores have nothing in common but this shape,   *)
(* so a behaviour is of one of them. The database is external: a statement *)
(* is one step, and of MySQL's token consumption, which is a transaction   *)
(* of two statements, the row's lock.                                      *)
(*                                                                         *)
(* Secrets are not guessed and identifiers not repeated, so a credential   *)
(* is a model value; all belong to one subject.                            *)
(***************************************************************************)
EXTENDS Integers, FiniteSets

CONSTANTS
    Creds,        \* the credentials that are issued
    Callers,      \* concurrent requests and operators
    Kinds,        \* which of "session", "token", "tokentx", "apikey"
    Lifetime,     \* SessionTTL, DefaultTTL, WithTTL
    MaxClock,     \* bound on time
    MaxCredCalls, \* bound on the calls of a caller
    MaxCredFaults,\* bound on failed statements
    MaxLives      \* bound on Inits of the service

ASSUME CredentialsAssumption ==
    /\ Creds # {} /\ Kinds \subseteq {"session", "token", "tokentx", "apikey"}
    /\ Lifetime \in Nat /\ MaxClock \in Nat
    /\ MaxCredCalls \in Nat /\ MaxCredFaults \in Nat /\ MaxLives \in Nat

VARIABLES
    kind,      \* the store of this behaviour; "tokentx" is MySQL's adapter
    clock,
    rows,      \* per credential: its state, expires_at, and the latest it ever was
    call,      \* the call a caller is in
    credCalls, \* calls begun, per caller
    credFaults,
    lives,     \* Inits of the service
    open,      \* between Init and Close
    done,      \* s.done has been closed
    loops,     \* cleanup loops running
    ended,     \* credentials whose revocation or consumption was answered
    accepted   \* how often a credential was accepted

credTime == <<kind, clock>>
credService == <<lives, open, done, loops>>
credVars == <<credTime, rows, call, credCalls, credFaults, credService, ended, accepted>>

NoCall == [op |-> "none", at |-> "idle", c |-> CHOOSE c \in Creds : TRUE,
           read |-> 0, began |-> 0, ended |-> {}, right |-> TRUE]

CredInit ==
    /\ kind \in Kinds
    /\ clock = 0
    /\ rows = [c \in Creds |-> [state |-> "none", expires |-> 0, latest |-> 0]]
    /\ call = [p \in Callers |-> NoCall]
    /\ credCalls = [p \in Callers |-> 0] /\ credFaults = 0
    /\ lives = 0 /\ open = FALSE /\ done = FALSE /\ loops = 0
    /\ ended = {} /\ accepted = [c \in Creds |-> 0]

(***************************************************************************)
(* The service and its cleanup loop                                        *)
(***************************************************************************)
\* Init starts a loop; API keys are not cleaned up. Close closes s.done
\* through doneOnce, and no Init makes another.
OpenService ==
    /\ ~open /\ lives < MaxLives
    /\ open' = TRUE /\ lives' = lives + 1
    /\ loops' = IF kind = "apikey" THEN loops ELSE loops + 1
    /\ UNCHANGED <<credTime, rows, call, credCalls, credFaults, done, ended, accepted>>

CloseCredService ==
    /\ open
    /\ open' = FALSE /\ done' = (done \/ kind # "apikey")
    /\ UNCHANGED <<credTime, rows, call, credCalls, credFaults, lives, loops, ended, accepted>>

\* A transaction has deleted the row and not committed: its lock holds others.
RowLocked(c) == \E p \in Callers : call[p].at = "commit" /\ call[p].c = c

Overdue(c) == rows[c].state = "live" /\ rows[c].expires < clock

Removed(C) == rows' = [c \in Creds |-> IF c \in C THEN [rows[c] EXCEPT !.state = "gone"] ELSE rows[c]]

\* A tick: DELETE ... WHERE expires_at < now. select may choose the tick
\* although done is closed.
CleanupTick ==
    /\ loops > 0
    /\ \A c \in Creds : Overdue(c) => ~RowLocked(c)
    /\ Removed({c \in Creds : Overdue(c)})
    /\ UNCHANGED <<credTime, call, credCalls, credFaults, credService, ended, accepted>>

\* The DELETE fails; the loop goes on to the next tick. Fault: it returns.
LoopsAfterError_less == loops - 1
LoopsAfterError == loops

CleanupFails ==
    /\ loops > 0 /\ credFaults < MaxCredFaults
    /\ credFaults' = credFaults + 1 /\ loops' = LoopsAfterError
    /\ UNCHANGED <<credTime, rows, call, credCalls, lives, open, done, ended, accepted>>

CleanupEnds ==
    /\ done /\ loops > 0
    /\ loops' = loops - 1
    /\ UNCHANGED <<credTime, rows, call, credCalls, credFaults, lives, open, done, ended, accepted>>

Tick ==
    /\ clock < MaxClock
    /\ clock' = clock + 1
    /\ UNCHANGED <<kind, rows, call, credCalls, credFaults, credService, ended, accepted>>

(***************************************************************************)
(* Calls                                                                   *)
(***************************************************************************)
CallBegins(p, op, at, c, right) ==
    /\ open /\ call[p].at = "idle" /\ credCalls[p] < MaxCredCalls
    /\ call' = [call EXCEPT ![p] = [op |-> op, at |-> at, c |-> c, read |-> 0,
                                    began |-> clock, ended |-> ended, right |-> right]]
    /\ credCalls' = [credCalls EXCEPT ![p] = @ + 1]
    /\ UNCHANGED <<credTime, rows, credFaults, credService, ended, accepted>>

CallAt(p, label) == call' = [call EXCEPT ![p].at = label]
CallEnds(p) == call' = [call EXCEPT ![p] = NoCall]
CallGoes(p, on, label, read) ==
    IF on THEN call' = [call EXCEPT ![p].at = label, ![p].read = read] ELSE CallEnds(p)

\* A row that lives from now on.
Given(c, now) == LET e == now + Lifetime IN
    [state |-> "live", expires |-> e, latest |-> IF e > rows[c].latest THEN e ELSE rows[c].latest]

\* Create, Issue and Generate: the row, with its expiry.
Issue(p, c) ==
    /\ open /\ call[p].at = "idle" /\ credCalls[p] < MaxCredCalls
    /\ rows[c].state = "none"
    /\ rows' = [rows EXCEPT ![c] = Given(c, clock)]
    /\ credCalls' = [credCalls EXCEPT ![p] = @ + 1]
    /\ UNCHANGED <<credTime, call, credFaults, credService, ended, accepted>>

Present(p, c, right) ==
    /\ rows[c].state # "none" /\ (kind \in {"session", "apikey"} => right)
    /\ CallBegins(p, "present", IF kind = "token" THEN "consume" ELSE "get", c, right)

\* Revoke, RevokeAll, Delete, RevokeAllByPurpose: of one credential or of all.
RevokeOne(p, c) == rows[c].state # "none" /\ CallBegins(p, "revoke", "delete", c, TRUE)
RevokeSubject(p) == CallBegins(p, "revokeall", "delete", NoCall.c, TRUE)

RevokedBy(p) ==
    IF call[p].op = "revoke" THEN {call[p].c} ELSE {c \in Creds : rows[c].state # "none"}

\* Sessions and tokens are deleted; a key's deleted_at is set, or, by Delete,
\* its row is deleted. No statement of a caller is in an open transaction here.
RevokeRows(p) ==
    /\ call[p].op \in {"revoke", "revokeall"} /\ call[p].at = "delete"
    /\ \A c \in RevokedBy(p) : ~RowLocked(c)
    /\ \/ Removed(RevokedBy(p))
       \/ /\ kind = "apikey"
          /\ rows' = [c \in Creds |->
                  IF c \in RevokedBy(p) /\ rows[c].state = "live"
                  THEN [rows[c] EXCEPT !.state = "revoked"] ELSE rows[c]]
    /\ ended' = ended \cup RevokedBy(p)
    /\ CallEnds(p)
    /\ UNCHANGED <<credTime, credCalls, credFaults, credService, accepted>>

\* A statement or a transaction fails without effect, and so does the call.
StatementFails(p) ==
    /\ call[p].at \in {"get", "extend", "used", "consume", "delete", "commit"}
    /\ credFaults < MaxCredFaults /\ credFaults' = credFaults + 1
    /\ CallEnds(p)
    /\ UNCHANGED <<credTime, rows, credCalls, credService, ended, accepted>>

(***************************************************************************)
(* Authenticate of a session and of an API key                             *)
(***************************************************************************)
\* GetSession; GetKeyByHash asks for deleted_at IS NULL.
Readable(c) == rows[c].state = "live"

\* now.After(expires).
PastExpiry(expires) == clock > expires

ReadRow(p) ==
    /\ call[p].at = "get" /\ kind \in {"session", "apikey"}
    /\ CallGoes(p, Readable(call[p].c), "check", rows[call[p].c].expires)
    /\ UNCHANGED <<credTime, rows, credCalls, credFaults, credService, ended, accepted>>

\* The expiry that was read, against the time now, from which a session's
\* extension then starts.
CheckExpiry(p) ==
    /\ call[p].at = "check" /\ kind \in {"session", "apikey"}
    /\ CallGoes(p, ~PastExpiry(call[p].read),
                IF kind = "session" THEN "extend" ELSE "used", clock)
    /\ UNCHANGED <<credTime, rows, credCalls, credFaults, credService, ended, accepted>>

\* ExtendSession: UPDATE ... WHERE id = ?, of no row if it is gone.
\* Fault: an upsert, which brings a deleted session back.
Extended_upsert(c, now) == [rows EXCEPT ![c] = Given(c, now)]
Extended(c, now) == IF Readable(c) THEN [rows EXCEPT ![c] = Given(c, now)] ELSE rows

Accepted(p) ==
    /\ accepted' = [accepted EXCEPT ![call[p].c] = IF @ < 2 THEN @ + 1 ELSE @]
    /\ CallAt(p, "accepted")

Extend(p) ==
    /\ call[p].at = "extend"
    /\ rows' = Extended(call[p].c, call[p].read)
    /\ Accepted(p)
    /\ UNCHANGED <<credTime, credCalls, credFaults, credService, ended>>

\* UpdateLastUsed, by the key's id.
MarkUsed(p) ==
    /\ call[p].at = "used"
    /\ Accepted(p)
    /\ UNCHANGED <<credTime, rows, credCalls, credFaults, credService, ended>>

(***************************************************************************)
(* Verify of a token                                                       *)
(***************************************************************************)
Presented(p) == CallGoes(p, TRUE, "check", rows[call[p].c].expires)

\* DELETE ... RETURNING. No record: ErrTokenInvalid.
Consume(p) ==
    /\ call[p].at = "consume"
    /\ IF Readable(call[p].c)
       THEN Presented(p) /\ Removed({call[p].c})
       ELSE CallEnds(p) /\ UNCHANGED rows
    /\ UNCHANGED <<credTime, credCalls, credFaults, credService, ended, accepted>>

\* MySQL: SELECT, then DELETE, which waits for the lock, then Commit.
SelectToken(p) ==
    /\ call[p].at = "get" /\ kind = "tokentx"
    /\ CallGoes(p, Readable(call[p].c), "delete", 0)
    /\ UNCHANGED <<credTime, rows, credCalls, credFaults, credService, ended, accepted>>

\* n == 0: another transaction was faster.
DeletedNone(c) == ~Readable(c)

DeleteToken(p) ==
    /\ call[p].op = "present" /\ call[p].at = "delete" /\ ~RowLocked(call[p].c)
    /\ CallGoes(p, ~DeletedNone(call[p].c), "commit", 0)
    /\ UNCHANGED <<credTime, rows, credCalls, credFaults, credService, ended, accepted>>

\* The commit; or its answer is lost, and Verify fails of a token consumed.
CommitToken(p) ==
    /\ call[p].at = "commit"
    /\ Removed({call[p].c})
    /\ \/ Presented(p) /\ UNCHANGED credFaults
       \/ CallEnds(p) /\ credFaults < MaxCredFaults /\ credFaults' = credFaults + 1
    /\ UNCHANGED <<credTime, credCalls, credService, ended, accepted>>

\* The purpose, then the expiry; the token is gone whatever they say.
CheckToken(p) ==
    /\ call[p].at = "check" /\ kind \in {"token", "tokentx"}
    /\ ended' = ended \cup {call[p].c}
    /\ IF call[p].right /\ ~PastExpiry(call[p].read)
       THEN Accepted(p) ELSE CallEnds(p) /\ UNCHANGED accepted
    /\ UNCHANGED <<credTime, rows, credCalls, credFaults, credService>>

\* The caller sees the answer and is done.
Answered(p) ==
    /\ call[p].at = "accepted"
    /\ CallEnds(p)
    /\ UNCHANGED <<credTime, rows, credCalls, credFaults, credService, ended, accepted>>

CredStep(p) ==
    \/ RevokeRows(p) \/ StatementFails(p) \/ Answered(p)
    \/ ReadRow(p) \/ CheckExpiry(p) \/ Extend(p) \/ MarkUsed(p)
    \/ Consume(p) \/ SelectToken(p) \/ DeleteToken(p) \/ CommitToken(p) \/ CheckToken(p)

CredNext ==
    \/ OpenService \/ CloseCredService \/ CleanupTick \/ CleanupFails \/ CleanupEnds \/ Tick
    \/ \E p \in Callers :
        \/ CredStep(p) \/ RevokeSubject(p)
        \/ \E c \in Creds : Issue(p, c) \/ RevokeOne(p, c) \/ \E right \in BOOLEAN : Present(p, c, right)

\* The cleanup loop's ticker fires for ever, and the loop is scheduled.
CredFairness == WF_credVars(CleanupTick) /\ WF_credVars(CleanupEnds)
                /\ \A p \in Callers : WF_credVars(CredStep(p))
CredSpec == CredInit /\ [][CredNext]_credVars /\ CredFairness

(***************************************************************************)
(* Properties                                                              *)
(***************************************************************************)
\* Once a revocation, or the verification of a token, has been answered, no
\* request that starts later is accepted, whatever the requests that were
\* under way then still write.
NothingEndedIsAccepted ==
    \A p \in Callers : call[p].at = "accepted" => call[p].c \notin call[p].ended

\* A request is accepted only if it began within the lifetime that the
\* credential's issue, or another accepted request, has given it.
AcceptedInTime ==
    \A p \in Callers : call[p].at = "accepted" => call[p].began <= rows[call[p].c].latest

\* "concurrent Verify calls for the same raw token cannot both succeed"
\* (token.go), with either way to consume it, failed commits included.
TokenAcceptedOnce ==
    kind \in {"token", "tokentx"} => \A c \in Creds : accepted[c] <= 1

\* What is accepted was given, was in time, and had not been taken back.
CredentialsHold == NothingEndedIsAccepted /\ AcceptedInTime /\ TokenAcceptedOnce

\* The first life's loop deletes every expired row, unless it is extended by
\* a request that read it in time, or the service is closed.
ExpiredAreDeleted ==
    \A c \in Creds :
        (kind # "apikey" /\ open /\ lives = 1 /\ Overdue(c)) ~> (~Overdue(c) \/ ~open)
=============================================================================
