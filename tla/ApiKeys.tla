------------------------------- MODULE ApiKeys -------------------------------
(***************************************************************************)
(* API keys (auth/apikey) on their three databases: what Generate inserts, *)
(* what each adapter of apikey/db makes of a row, and what Authenticate,   *)
(* List and the revocations do with it, directly or through WithTx. Time   *)
(* goes in half seconds: PostgreSQL keeps a time as it is, MySQL's         *)
(* DATETIME rounds to a second and the SQLite adapter cuts to one. A scope *)
(* list is a comma separated text but on PostgreSQL. The database is       *)
(* outside src: a statement takes effect at once, and one that meets a row *)
(* of the open transaction waits. Module Credentials has the same service  *)
(* with concurrent requests and failing statements.                        *)
(***************************************************************************)
EXTENDS Integers, Sequences, FiniteSets

CONSTANTS
    KeyIds,      \* a key: its ID, its hash and the raw key
    KeySubjects,
    ScopeLists,  \* scope lists asked for
    KeyTTLs,     \* arguments of WithTTL
    KeyCallers,  \* requests that present a key
    MaxTick      \* bound on the half seconds

ASSUME ApiKeysAssumption == MaxTick \in Nat /\ KeyTTLs \subseteq Int

VARIABLES
    driver,   \* "postgres", "mysql" or "sqlite"
    keyRows,  \* the table, as committed
    txRows,   \* as the open transaction sees it
    touched,  \* rows the open transaction holds
    txOpen,
    given,    \* what Generate answered: [subject, scopes, until, fate]
    tick,
    checked,  \* the row a caller has read and found valid; NoRow before
    verdict   \* what Authenticate last answered: [key, answer, scopes, seen]
keyVars == <<driver, keyRows, txRows, touched, txOpen, given, tick, checked, verdict>>

NoExpiry == -1
NotDeleted == -1
NoRow == [id |-> "none"]
NotGiven == [subject |-> "none", scopes |-> <<>>, until |-> NoExpiry, fate |-> "none"]
NoVerdict == [key |-> "none", answer |-> "none", scopes |-> <<>>, seen |-> 0]

(***************************************************************************)
(* The adapters                                                            *)
(***************************************************************************)
\* strings.TrimSpace on the scopes of the model.
TrimSpace(s) == CASE s = " read" -> "read" [] s = " " -> "" [] OTHER -> s
cleanStringSlice(s) ==
    LET trimmed == [i \in DOMAIN s |-> TrimSpace(s[i])]
    IN SelectSeq(trimmed, LAMBDA t : t # "")

\* A comma separated text is the list strings.Split makes of it: the empty text
\* is a list of one empty scope.
joinCommas(s) == IF cleanStringSlice(s) = <<>> THEN <<"">> ELSE cleanStringSlice(s)
splitCommas(text) == cleanStringSlice(text)

\* A list that is cleaned stays what it is.
ASSUME CleanListsStay ==
    \A s \in ScopeLists : cleanStringSlice(joinCommas(s)) = cleanStringSlice(s)

\* A time is cut to the second.
formatSQLiteTime(t) == (t \div 2) * 2

\* How an adapter writes a scope list and a time, and reads scopes again.
postgresAdapter ==
    [scopesIn |-> [s \in ScopeLists |-> cleanStringSlice(s)],
     time |-> [t \in Nat |-> t]]
mysqlAdapter ==
    [scopesIn |-> [s \in ScopeLists |-> joinCommas(s)],
     time |-> [t \in Nat |-> ((t + 1) \div 2) * 2]]
sqliteAdapter ==
    [scopesIn |-> [s \in ScopeLists |-> joinCommas(s)],
     time |-> [t \in Nat |-> formatSQLiteTime(t)]]
\* Store.Init picks by the driver.
adapter == CASE driver = "postgres" -> postgresAdapter [] driver = "mysql" -> mysqlAdapter
             [] driver = "sqlite" -> sqliteAdapter
timeOf(t) == IF t = NoExpiry THEN NoExpiry ELSE adapter.time[t]

\* What a row is read as, by GetKeyByHash and by ListKeysBySubject.
keyInfo(row) == [row EXCEPT !.scopes = IF driver = "postgres" THEN @ ELSE splitCommas(@)]

(***************************************************************************)
(* Statements                                                              *)
(***************************************************************************)
\* WithTx makes a copy of the service that works in the transaction. Fault:
\* the copy keeps the plain connection.
WithTx_direct(in) == FALSE
WithTx(in) == in

Rows(in) == IF WithTx(in) THEN txRows ELSE keyRows
\* A statement changes the rows in ids to what to makes of them.
Statement(in, ids, to) ==
    IF WithTx(in)
    THEN /\ txOpen /\ touched' = touched \cup ids
         /\ txRows' = [k \in KeyIds |-> IF k \in ids THEN to[k] ELSE txRows[k]]
         /\ UNCHANGED <<driver, keyRows, txOpen>>
    ELSE /\ touched \cap ids = {}
         /\ keyRows' = [k \in KeyIds |-> IF k \in ids THEN to[k] ELSE keyRows[k]]
         /\ txRows' = [k \in KeyIds |-> IF k \in ids THEN to[k] ELSE txRows[k]]
         /\ UNCHANGED <<driver, touched, txOpen>>

Of(in, subject) == {k \in KeyIds : Rows(in)[k] # NoRow /\ Rows(in)[k].subject = subject}

\* SoftDeleteKeyByID and SoftDeleteKeysBySubject: WHERE deleted_at IS NULL.
NotYetDeleted(in, ids) == {k \in ids : Rows(in)[k] # NoRow /\ Rows(in)[k].deleted = NotDeleted}
SoftDelete(in, ids) ==
    LET hit == NotYetDeleted(in, ids)
    IN Statement(in, hit, [k \in hit |-> [Rows(in)[k] EXCEPT !.deleted = timeOf(tick)]])
HardDelete(in, ids) == Statement(in, ids, [k \in ids |-> NoRow])

(***************************************************************************)
(* The service                                                             *)
(***************************************************************************)
\* A TTL that is not positive is ignored.
WithTTL(ttl) == IF ttl <= 0 THEN NoExpiry ELSE tick + ttl

\* A comma in a scope is refused; Generate answers the scopes as asked for.
normalizeScopes(scopes) == \A i \in DOMAIN scopes : scopes[i] # "read,write"

Generate(in, k) ==
    /\ given[k] = NotGiven
    /\ \E subject \in KeySubjects, scopes \in ScopeLists, ttl \in KeyTTLs :
          /\ normalizeScopes(scopes)
          /\ given' = [given EXCEPT ![k] = [subject |-> subject, scopes |-> scopes,
                                            until |-> WithTTL(ttl),
                                            fate |-> IF in THEN "open" ELSE "kept"]]
          /\ Statement(in, {k}, [x \in {k} |->
                [id |-> k, subject |-> subject, scopes |-> adapter.scopesIn[scopes],
                 until |-> timeOf(WithTTL(ttl)), deleted |-> NotDeleted, used |-> FALSE]])
    /\ UNCHANGED <<tick, checked, verdict>>

Revoke(in, k) ==
    /\ given[k] # NotGiven /\ SoftDelete(in, {k})
    /\ UNCHANGED <<given, tick, checked, verdict>>
RevokeAll(in, subject) ==
    /\ SoftDelete(in, Of(in, subject))
    /\ UNCHANGED <<given, tick, checked, verdict>>
\* Another scheme is none of this service's.
RevokeAllByScheme(in, subject, scheme) == scheme = "apikey" /\ RevokeAll(in, subject)
Delete(in, k) ==
    /\ given[k] # NotGiven /\ HardDelete(in, {k})
    /\ UNCHANGED <<given, tick, checked, verdict>>
DeleteAll(in, subject) ==
    /\ HardDelete(in, Of(in, subject))
    /\ UNCHANGED <<given, tick, checked, verdict>>

\* Authenticate reads the key and checks its expiry ...
Authenticate(c, k) ==
    /\ checked[c] = NoRow
    /\ LET row == keyRows[k]
       IN IF row = NoRow \/ (row # NoRow /\ row.deleted # NotDeleted)
          THEN /\ verdict' = [verdict EXCEPT ![c] = [NoVerdict EXCEPT !.key = k, !.seen = tick,
                                                        !.answer = "ErrUnauthenticated"]]
               /\ UNCHANGED checked
          ELSE IF row.until # NoExpiry /\ tick > row.until
          THEN /\ verdict' = [verdict EXCEPT ![c] = [NoVerdict EXCEPT !.key = k, !.seen = tick,
                                                        !.answer = "ErrCredentialsExpired"]]
               /\ UNCHANGED checked
          ELSE /\ checked' = [checked EXCEPT ![c] = keyInfo(row)]
               /\ verdict' = [verdict EXCEPT ![c] = [NoVerdict EXCEPT !.key = k, !.seen = tick]]
    /\ UNCHANGED <<driver, keyRows, txRows, touched, txOpen, given, tick>>

\* ... and marks it used: UPDATE of no row, when it has been deleted, is no error.
UpdateLastUsed(c) ==
    /\ checked[c] # NoRow
    /\ LET k == checked[c].id
           hit == {x \in {k} : keyRows[x] # NoRow}
       IN Statement(FALSE, hit, [x \in hit |-> [keyRows[x] EXCEPT !.used = TRUE]])
    /\ checked' = [checked EXCEPT ![c] = NoRow]
    /\ verdict' = [verdict EXCEPT ![c].answer = "accepted", ![c].scopes = checked[c].scopes]
    /\ UNCHANGED <<given, tick>>

(***************************************************************************)
(* The application's transaction, and time                                 *)
(***************************************************************************)
Begin ==
    /\ ~txOpen /\ txOpen' = TRUE /\ txRows' = keyRows /\ touched' = {}
    /\ UNCHANGED <<driver, keyRows, given, tick, checked, verdict>>
Fates(fate) == [k \in KeyIds |-> IF given[k].fate = "open" THEN [given[k] EXCEPT !.fate = fate]
                                 ELSE given[k]]
Commit ==
    /\ txOpen /\ txOpen' = FALSE /\ touched' = {}
    /\ keyRows' = [k \in KeyIds |-> IF k \in touched THEN txRows[k] ELSE keyRows[k]]
    /\ txRows' = keyRows' /\ given' = Fates("kept")
    /\ UNCHANGED <<driver, tick, checked, verdict>>
Rollback ==
    /\ txOpen /\ txOpen' = FALSE /\ touched' = {} /\ txRows' = keyRows /\ given' = Fates("lost")
    /\ UNCHANGED <<driver, keyRows, tick, checked, verdict>>
HalfASecond ==
    /\ tick < MaxTick /\ tick' = tick + 1
    /\ UNCHANGED <<driver, keyRows, txRows, touched, txOpen, given, checked, verdict>>

KeyInit ==
    /\ driver \in {"postgres", "mysql", "sqlite"}
    /\ keyRows = [k \in KeyIds |-> NoRow] /\ txRows = keyRows
    /\ touched = {} /\ txOpen = FALSE /\ tick = 0
    /\ given = [k \in KeyIds |-> NotGiven]
    /\ checked = [c \in KeyCallers |-> NoRow] /\ verdict = [c \in KeyCallers |-> NoVerdict]

KeyNext ==
    \/ \E in \in BOOLEAN :
          /\ in => txOpen
          /\ \/ \E k \in KeyIds : Generate(in, k) \/ Revoke(in, k) \/ Delete(in, k)
             \/ \E s \in KeySubjects : \/ RevokeAllByScheme(in, s, "apikey") \/ DeleteAll(in, s)
    \/ \E c \in KeyCallers : UpdateLastUsed(c) \/ \E k \in KeyIds : Authenticate(c, k)
    \/ Begin \/ Commit \/ Rollback \/ HalfASecond

KeySpec == KeyInit /\ [][KeyNext]_keyVars

(***************************************************************************)
(* Properties                                                              *)
(***************************************************************************)
\* Whatever the database, a key that was given is read back with its subject
\* and the scopes that were asked for, trimmed and without the empty ones.
KeysReadBack ==
    \A k \in KeyIds : keyRows[k] # NoRow =>
        /\ keyInfo(keyRows[k]).subject = given[k].subject
        /\ keyInfo(keyRows[k]).scopes = cleanStringSlice(given[k].scopes)

\* A key is accepted no later than the expiry Generate answered, up to the half
\* second MySQL rounds up, and refused as expired less than a second before it.
ExpiryIsKept ==
    \A c \in KeyCallers : LET v == verdict[c] IN
        /\ v.answer = "accepted" /\ given[v.key].until # NoExpiry =>
              v.seen <= given[v.key].until + (IF driver = "mysql" THEN 1 ELSE 0)
        /\ v.answer = "ErrCredentialsExpired" => v.seen + 2 > given[v.key].until

\* A key generated through WithTx is accepted only when its transaction has
\* committed.
RolledBackIsRefused ==
    \A c \in KeyCallers : verdict[c].answer = "accepted" => given[verdict[c].key].fate = "kept"

\* What an API key promises, on every database.
KeysHold == KeysReadBack /\ ExpiryIsKept /\ RolledBackIsRefused
=============================================================================
