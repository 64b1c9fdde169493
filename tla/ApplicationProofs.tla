------------------------- MODULE ApplicationProofs -------------------------
(***************************************************************************)
(* Proofs about modules Credentials, AppServer, ApiKeys, FileSharing and   *)
(* Registration, which share no state.                                     *)
(*                                                                         *)
(* CredentialsAreHeld: what a call has read of a credential is no older    *)
(* than the call (CallLearned), a row that has ended is not live (RowsEnd) *)
(* and a one-time token is gone from its table before it is looked at      *)
(* (TokensAreTaken).                                                       *)
(*                                                                         *)
(* ServerIsHeld: what the server was made from is one Config, at least the *)
(* last one bound (ConfigReaches), the hooks are those of the first Start  *)
(* (HooksGo) and nobody passes the drain before it is over (DrainsFirst).  *)
(*                                                                         *)
(* ApiKeysAreHeld: a row is what the adapter makes of the key that was     *)
(* answered (AsGiven), what is committed was given for good (TablesHold),  *)
(* and a caller holds a row that was read in time (VerdictHolds).          *)
(*                                                                         *)
(* SharingIsHeld: a request past its row has had its owner checked and its *)
(* row not ended before it began (RequestHolds), and an entry is the       *)
(* user's it was made for and no fresher than its row (EntryHolds).        *)
(*                                                                         *)
(* RegistrationIsHeld: after every turn of topoSort the ordered types come *)
(* after what they need and the queued ones wait for nothing (KahnInv), so *)
(* what is left when the queue is empty is a circle, and BuildAll builds   *)
(* along the order (BuildableIs) up to the first that fails (BuiltNowIs).  *)
(* topoSort and Among are recursive functions: what they come to is shown  *)
(* by a least counterexample (LeastNumber, Recursion).                     *)
(***************************************************************************)
EXTENDS Registration, Credentials, AppServer, ApiKeys, FileSharing, FiniteSetTheorems,
        WellFoundedInduction, TLAPS

(***************************************************************************)
(* Credentials: what has ended is never live again                         *)
(***************************************************************************)
CallRecords ==
    [op : {"none", "present", "revoke", "revokeall"},
     at : {"idle", "get", "consume", "check", "extend", "used", "delete", "commit", "accepted"},
     c : Creds, read : Nat, began : Nat, ended : SUBSET Creds, right : BOOLEAN]

CredTypeOK ==
    /\ kind \in {"session", "token", "tokentx", "apikey"} /\ clock \in Nat
    /\ rows \in [Creds -> [state : {"none", "live", "revoked", "gone"}, expires : Nat, latest : Nat]]
    /\ call \in [Callers -> CallRecords]
    /\ ended \subseteq Creds /\ accepted \in [Creds -> 0..2]

\* A row lives no longer than the latest it was ever given, and one that has
\* ended is not live.
RowsEnd ==
    /\ \A c \in Creds : rows[c].expires <= rows[c].latest
    /\ \A c \in ended : rows[c].state \in {"revoked", "gone"}

\* What a caller has learned of its credential. Past its read, the credential
\* had not ended when the call began.
CallLearned(p) ==
    LET q == call[p] IN
    /\ q.ended \subseteq ended /\ q.began <= clock
    /\ q.at # "idle" /\ q.op \in {"present", "revoke"} => rows[q.c].state # "none"
    /\ q.at \in {"get", "consume", "check", "extend", "used", "commit", "accepted"} => q.op = "present"
    /\ q.at \in {"check", "extend", "used", "commit", "accepted"} => q.c \notin q.ended
    /\ q.at = "check" => q.read <= rows[q.c].latest
    /\ q.at \in {"extend", "used", "accepted"} => q.began <= rows[q.c].latest
    /\ q.at = "extend" => kind = "session"
    /\ q.at = "used" => kind = "apikey"
    /\ q.at = "consume" => kind = "token"
    /\ q.at = "commit" \/ (q.at = "delete" /\ q.op = "present") => kind = "tokentx"

\* A token is gone before it is looked at, one caller holds its row while it
\* deletes it, and one caller looks at it.
TokensAreTaken ==
    kind \in {"token", "tokentx"} =>
        /\ \A c \in Creds : accepted[c] <= 1 /\ (accepted[c] > 0 => rows[c].state = "gone")
        /\ \A p \in Callers :
              /\ call[p].at = "check" => rows[call[p].c].state = "gone" /\ accepted[call[p].c] = 0
              /\ call[p].at = "commit" => rows[call[p].c].state = "live"
        /\ \A p, q \in Callers :
              p # q /\ call[p].at \in {"check", "commit"} /\ call[q].at = call[p].at => call[p].c # call[q].c

CredInv == CredTypeOK /\ RowsEnd /\ (\A p \in Callers : CallLearned(p)) /\ TokensAreTaken

\* No row and no call at first.
LEMMA InitCred == CredInit => CredInv
  <1> SUFFICES ASSUME CredInit PROVE CredInv
    OBVIOUS
  <1>1. NoCall \in CallRecords /\ NoCall.at = "idle" /\ NoCall.ended = {} /\ NoCall.began = 0
    BY CredentialsAssumption DEF NoCall, CallRecords
  <1>2. /\ kind \in {"session", "token", "tokentx", "apikey"} /\ clock = 0 /\ ended = {}
        /\ rows = [c \in Creds |-> [state |-> "none", expires |-> 0, latest |-> 0]]
        /\ call = [p \in Callers |-> NoCall] /\ accepted = [c \in Creds |-> 0]
    BY CredentialsAssumption DEF CredInit
  <1>3. CredTypeOK
    BY <1>1, <1>2 DEF CredTypeOK
  <1>4. RowsEnd /\ TokensAreTaken
    BY <1>1, <1>2 DEF RowsEnd, TokensAreTaken
  <1>5. \A p \in Callers : CallLearned(p)
    BY <1>1, <1>2 DEF CallLearned
  <1> QED
    BY <1>3, <1>4, <1>5 DEF CredInv

\* What one row may become under a caller that has read it.
RowGoesOn(c) ==
    /\ rows'[c].expires <= rows'[c].latest /\ rows[c].latest <= rows'[c].latest
    /\ rows[c].state # "none" => rows'[c].state # "none"
    /\ rows[c].state \in {"revoked", "gone"} => rows'[c].state \in {"revoked", "gone"}
    /\ kind \in {"token", "tokentx"} /\ rows[c].state = "gone" => rows'[c].state = "gone"

\* Rows that go on take nothing from what callers have learned.
LEMMA LearnedStays ==
    ASSUME CredInv, CredTypeOK', NEW p \in Callers, call'[p] = call[p],
           \A c \in Creds : RowGoesOn(c), ended \subseteq ended', kind' = kind, clock <= clock'
    PROVE  CallLearned(p)'
  <1>1. /\ call[p].c \in Creds /\ call[p].ended \subseteq Creds /\ call[p].began \in Nat /\ call[p].read \in Nat
        /\ clock \in Nat /\ clock' \in Nat /\ rows[call[p].c].latest \in Nat /\ rows'[call[p].c].latest \in Nat
    BY DEF CredInv, CredTypeOK, CallRecords
  <1>2. CallLearned(p) /\ RowGoesOn(call[p].c)
    BY <1>1 DEF CredInv
  <1> QED
    BY <1>1, <1>2 DEF CallLearned, RowGoesOn

\* A step of one caller, from what it learns in it.
LEMMA OneCallSteps ==
    ASSUME CredInv, CredTypeOK', NEW p \in Callers, \A q \in Callers \ {p} : call'[q] = call[q],
           \A c \in Creds : RowGoesOn(c), ended \subseteq ended', kind' = kind, clock' = clock,
           CallLearned(p)', \A c \in ended' : rows'[c].state \in {"revoked", "gone"}, TokensAreTaken'
    PROVE  CredInv'
  <1>1. \A q \in Callers : CallLearned(q)'
    <2> SUFFICES ASSUME NEW q \in Callers, q # p PROVE CallLearned(q)'
      OBVIOUS
    <2>1. clock <= clock'
      BY DEF CredInv, CredTypeOK
    <2> QED
      BY <2>1, LearnedStays
  <1>2. RowsEnd'
    BY DEF RowsEnd, RowGoesOn
  <1> QED
    BY <1>1, <1>2 DEF CredInv

\* A step that makes nobody look at a token or hold its row.
LEMMA TokensStay ==
    ASSUME CredInv, CredTypeOK', kind' = kind,
           \A q \in Callers : call'[q] = call[q] \/ call'[q].at \notin {"check", "commit"},
           kind \in {"token", "tokentx"} =>
              /\ accepted' = accepted
              /\ \A c \in Creds : rows[c].state = "gone" => rows'[c].state = "gone"
              /\ \A q \in Callers : call'[q].at = "commit" => rows'[call[q].c].state = rows[call[q].c].state
    PROVE  TokensAreTaken'
  <1> SUFFICES ASSUME kind \in {"token", "tokentx"} PROVE TokensAreTaken'
    BY DEF TokensAreTaken
  <1>1. TokensAreTaken /\ \A q \in Callers : call[q].c \in Creds
    BY DEF CredInv, CredTypeOK, CallRecords
  <1>2. \A c \in Creds : accepted'[c] <= 1 /\ (accepted'[c] > 0 => rows'[c].state = "gone")
    BY <1>1 DEF TokensAreTaken
  <1>3. \A q \in Callers :
           /\ call'[q].at = "check" => rows'[call'[q].c].state = "gone" /\ accepted'[call'[q].c] = 0
           /\ call'[q].at = "commit" => rows'[call'[q].c].state = "live"
    BY <1>1 DEF TokensAreTaken
  <1>4. \A q, r \in Callers :
           q # r /\ call'[q].at \in {"check", "commit"} /\ call'[r].at = call'[q].at => call'[q].c # call'[r].c
    BY <1>1 DEF TokensAreTaken
  <1> QED
    BY <1>2, <1>3, <1>4 DEF TokensAreTaken

\* The service's own steps: rows that have expired are deleted.
LEMMA ServiceCred ==
    ASSUME CredInv, OpenService \/ CloseCredService \/ CleanupTick \/ CleanupFails \/ CleanupEnds \/ Tick
    PROVE  CredInv'
  <1>1. UNCHANGED <<kind, call, ended, accepted>> /\ clock' \in {clock, clock + 1}
    BY DEF OpenService, CloseCredService, CleanupTick, CleanupFails, CleanupEnds, Tick, credTime
  <1>2. clock' \in Nat /\ clock <= clock'
    BY <1>1 DEF CredInv, CredTypeOK
  <1>3. \/ rows' = rows
        \/ /\ rows' = [c \in Creds |-> IF Overdue(c) THEN [rows[c] EXCEPT !.state = "gone"] ELSE rows[c]]
           /\ \A c \in Creds : Overdue(c) => ~RowLocked(c)
    BY DEF OpenService, CloseCredService, CleanupTick, CleanupFails, CleanupEnds, Tick, Removed
  <1>4. /\ rows' \in [Creds -> [state : {"none", "live", "revoked", "gone"}, expires : Nat, latest : Nat]]
        /\ \A c \in Creds : /\ rows'[c].expires = rows[c].expires /\ rows'[c].latest = rows[c].latest
                            /\ \/ rows'[c].state = rows[c].state
                               \/ rows[c].state = "live" /\ rows'[c].state = "gone" /\ ~RowLocked(c)
    <2>1. CASE rows' = rows
      BY <2>1 DEF CredInv, CredTypeOK
    <2>2. CASE rows' # rows
      BY <1>3, <2>2 DEF CredInv, CredTypeOK, Overdue
    <2> QED
      BY <2>1, <2>2
  <1>5. CredTypeOK'
    BY <1>1, <1>2, <1>4 DEF CredInv, CredTypeOK
  <1>6. \A c \in Creds : RowGoesOn(c)
    <2> SUFFICES ASSUME NEW c \in Creds PROVE RowGoesOn(c)
      OBVIOUS
    <2>1. rows[c].expires \in Nat /\ rows[c].latest \in Nat /\ rows[c].expires <= rows[c].latest
      BY DEF CredInv, CredTypeOK, RowsEnd
    <2> QED
      BY <1>4, <2>1 DEF RowGoesOn
  <1>7. \A p \in Callers : CallLearned(p)'
    BY <1>1, <1>2, <1>5, <1>6, LearnedStays
  <1>8. RowsEnd'
    BY <1>1, <1>4, <1>6 DEF CredInv, CredTypeOK, RowsEnd, RowGoesOn
  <1>9. TokensAreTaken'
    <2>1. \A q \in Callers : call[q].at = "commit" => RowLocked(call[q].c) /\ call[q].c \in Creds
      BY DEF RowLocked, CredInv, CredTypeOK, CallRecords
    <2> QED
      BY <1>1, <1>4, <1>5, <2>1, TokensStay
  <1> QED
    BY <1>5, <1>7, <1>8, <1>9 DEF CredInv

\* A call that has learned nothing yet.
Starts(new) ==
    /\ new \in CallRecords /\ new.ended \subseteq ended /\ new.began <= clock
    /\ new.at \in {"idle", "get", "consume", "delete"}
    /\ new.at \in {"get", "consume"} => new.op = "present"
    /\ (new.at = "consume" => kind = "token") /\ (new.at = "delete" => new.op # "present")
    /\ new.at # "idle" /\ new.op \in {"present", "revoke"} => rows[new.c].state # "none"

\* A call begins, or one that has begun ends, without a word about a row.
LEMMA BeginsOrEndsCred ==
    ASSUME CredInv, NEW p \in Callers,
           \/ RevokeSubject(p) \/ StatementFails(p) \/ Answered(p)
           \/ (\E c \in Creds : RevokeOne(p, c) \/ \E right \in BOOLEAN : Present(p, c, right))
    PROVE  CredInv'
  <1>1. UNCHANGED <<kind, clock, rows, ended, accepted>>
    BY DEF RevokeSubject, StatementFails, Answered, RevokeOne, Present, CallBegins, CallEnds, credTime
  <1>2. PICK new : call' = [call EXCEPT ![p] = new] /\ Starts(new)
    <2>0. clock \in Nat /\ ended \subseteq Creds /\ NoCall.c \in Creds
      BY CredentialsAssumption DEF CredInv, CredTypeOK, NoCall
    <2>1. CASE StatementFails(p) \/ Answered(p)
      <3>1. call' = [call EXCEPT ![p] = NoCall]
        BY <2>1 DEF StatementFails, Answered, CallEnds
      <3>2. /\ NoCall \in CallRecords /\ NoCall.ended = {} /\ NoCall.began = 0 /\ NoCall.at = "idle"
        BY CredentialsAssumption DEF NoCall, CallRecords
      <3>3. Starts(NoCall)
        BY <2>0, <3>2 DEF Starts
      <3> QED
        BY <3>1, <3>3
    <2>2. CASE RevokeSubject(p)
      <3> DEFINE new == [op |-> "revokeall", at |-> "delete", c |-> NoCall.c, read |-> 0,
                         began |-> clock, ended |-> ended, right |-> TRUE]
      <3>1. call' = [call EXCEPT ![p] = new]
        BY <2>2 DEF RevokeSubject, CallBegins
      <3>2. new \in CallRecords
        BY <2>0 DEF CallRecords
      <3>3. Starts(new)
        BY <2>0, <3>2 DEF Starts
      <3> HIDE DEF new
      <3> QED
        BY <3>1, <3>3
    <2>3. CASE \E c \in Creds : RevokeOne(p, c) \/ \E right \in BOOLEAN : Present(p, c, right)
      <3>1. PICK c \in Creds, op \in {"present", "revoke"}, where \in {"get", "consume", "delete"}, right \in BOOLEAN :
              /\ rows[c].state # "none" /\ (where # "delete" <=> op = "present")
              /\ where = "consume" => kind = "token"
              /\ call' = [call EXCEPT ![p] = [op |-> op, at |-> where, c |-> c, read |-> 0,
                                             began |-> clock, ended |-> ended, right |-> right]]
        BY <2>3 DEF RevokeOne, Present, CallBegins
      <3> DEFINE new == [op |-> op, at |-> where, c |-> c, read |-> 0,
                         began |-> clock, ended |-> ended, right |-> right]
      <3>2. new \in CallRecords
        BY <2>0 DEF CallRecords
      <3>3. Starts(new)
        BY <2>0, <3>1, <3>2 DEF Starts
      <3>4. call' = [call EXCEPT ![p] = new]
        BY <3>1
      <3> HIDE DEF new
      <3> QED
        BY <3>3, <3>4
    <2> QED
      BY <2>1, <2>2, <2>3
  <1>3. CredTypeOK'
    BY <1>1, <1>2 DEF CredInv, CredTypeOK, Starts
  <1>4. call'[p] = new /\ \A q \in Callers \ {p} : call'[q] = call[q]
    BY <1>2 DEF CredInv, CredTypeOK
  <1>5. CallLearned(p)'
    BY <1>1, <1>2, <1>4 DEF CallLearned, Starts
  <1>6. TokensAreTaken'
    <2>1. call'[p].at \notin {"check", "commit"}
      BY <1>2, <1>4 DEF Starts
    <2> QED
      BY <1>1, <1>3, <1>4, <2>1, TokensStay
  <1>7. \A c \in Creds : RowGoesOn(c)
    BY <1>1 DEF RowGoesOn, CredInv, CredTypeOK, RowsEnd
  <1> QED
    BY <1>1, <1>3, <1>4, <1>5, <1>6, <1>7, OneCallSteps DEF CredInv, RowsEnd

\* Create, Issue and Generate: a new row.
LEMMA IssueCred == ASSUME CredInv, NEW p \in Callers, NEW c \in Creds, Issue(p, c) PROVE CredInv'
  <1>1. UNCHANGED <<kind, clock, call, ended, accepted>> /\ rows[c].state = "none"
    BY DEF Issue, credTime
  <1> DEFINE now == Given(c, clock)
  <1>2. /\ now \in [state : {"none", "live", "revoked", "gone"}, expires : Nat, latest : Nat]
        /\ now.state = "live" /\ now.expires <= now.latest /\ rows[c].latest <= now.latest
    BY CredentialsAssumption DEF Given, CredInv, CredTypeOK
  <1>3. rows' = [rows EXCEPT ![c] = now]
    BY DEF Issue
  <1> HIDE DEF now
  <1>4. CredTypeOK'
    BY <1>1, <1>2, <1>3 DEF CredInv, CredTypeOK
  <1>5. \A d \in Creds : RowGoesOn(d)
    BY <1>1, <1>2, <1>3 DEF RowGoesOn, CredInv, CredTypeOK, RowsEnd
  <1>6. CallLearned(p)'
    <2>1. clock <= clock'
      BY <1>1 DEF CredInv, CredTypeOK
    <2> QED
      BY <1>1, <1>4, <1>5, <2>1, LearnedStays
  <1>7. TokensAreTaken'
    <2>1. kind \in {"token", "tokentx"} => \A q \in Callers : call[q].at = "commit" => call[q].c # c
      BY <1>1 DEF CredInv, TokensAreTaken
    <2>2. \A d \in Creds \ {c} : rows'[d] = rows[d]
      BY <1>3 DEF CredInv, CredTypeOK
    <2>3. \A q \in Callers : call[q].c \in Creds
      BY DEF CredInv, CredTypeOK, CallRecords
    <2> QED
      BY <1>1, <1>4, <2>1, <2>2, <2>3, TokensStay
  <1>8. \A d \in ended' : rows'[d].state \in {"revoked", "gone"}
    BY <1>1, <1>5 DEF CredInv, CredTypeOK, RowsEnd, RowGoesOn
  <1> QED
    BY <1>1, <1>4, <1>5, <1>6, <1>7, <1>8, OneCallSteps

\* A call that ends as a row that is gone or revoked, or not there at all.
LEMMA RevokeCred == ASSUME CredInv, NEW p \in Callers, RevokeRows(p) PROVE CredInv'
  <1>1. UNCHANGED <<kind, clock, accepted>> /\ ended' = ended \cup RevokedBy(p)
        /\ call' = [call EXCEPT ![p] = NoCall] /\ \A c \in RevokedBy(p) : ~RowLocked(c)
    BY DEF RevokeRows, CallEnds, credTime
  <1>2. \/ rows' = [c \in Creds |-> IF c \in RevokedBy(p) THEN [rows[c] EXCEPT !.state = "gone"] ELSE rows[c]]
        \/ /\ kind = "apikey"
           /\ rows' = [c \in Creds |-> IF c \in RevokedBy(p) /\ rows[c].state = "live"
                                       THEN [rows[c] EXCEPT !.state = "revoked"] ELSE rows[c]]
    BY DEF RevokeRows, Removed
  <1>3. RevokedBy(p) \subseteq Creds /\ \A c \in RevokedBy(p) : rows[c].state # "none"
    <2>1. call[p].op = "revoke" => call[p].c \in Creds /\ rows[call[p].c].state # "none"
      BY DEF RevokeRows, CredInv, CredTypeOK, CallRecords, CallLearned
    <2> QED
      BY <2>1 DEF RevokedBy
  <1>4. /\ rows' \in [Creds -> [state : {"none", "live", "revoked", "gone"}, expires : Nat, latest : Nat]]
        /\ \A c \in Creds : /\ rows'[c].expires = rows[c].expires /\ rows'[c].latest = rows[c].latest
                            /\ c \notin RevokedBy(p) => rows'[c].state = rows[c].state
                            /\ c \in RevokedBy(p) => \/ rows'[c].state = "gone"
                                                     \/ /\ kind = "apikey"
                                                        /\ \/ rows[c].state = "live" /\ rows'[c].state = "revoked"
                                                           \/ rows[c].state # "live" /\ rows'[c].state = rows[c].state
    <2>1. CASE rows' = [c \in Creds |-> IF c \in RevokedBy(p) THEN [rows[c] EXCEPT !.state = "gone"] ELSE rows[c]]
      BY <2>1 DEF CredInv, CredTypeOK
    <2>2. CASE /\ kind = "apikey"
               /\ rows' = [c \in Creds |-> IF c \in RevokedBy(p) /\ rows[c].state = "live"
                                           THEN [rows[c] EXCEPT !.state = "revoked"] ELSE rows[c]]
      BY <2>2 DEF CredInv, CredTypeOK
    <2> QED
      BY <1>2, <2>1, <2>2
  <1>5. NoCall \in CallRecords /\ NoCall.at = "idle" /\ NoCall.ended = {} /\ NoCall.began = 0
    BY CredentialsAssumption DEF NoCall, CallRecords
  <1>6. CredTypeOK'
    BY <1>1, <1>3, <1>4, <1>5 DEF CredInv, CredTypeOK
  <1>7. call'[p] = NoCall /\ \A q \in Callers \ {p} : call'[q] = call[q]
    BY <1>1 DEF CredInv, CredTypeOK
  <1>8. \A c \in Creds : RowGoesOn(c)
    <2> SUFFICES ASSUME NEW c \in Creds PROVE RowGoesOn(c)
      OBVIOUS
    <2>1. rows[c].expires \in Nat /\ rows[c].latest \in Nat /\ rows[c].expires <= rows[c].latest
          /\ rows[c].state \in {"none", "live", "revoked", "gone"}
      BY DEF CredInv, CredTypeOK, RowsEnd
    <2> QED
      BY <1>3, <1>4, <2>1 DEF RowGoesOn
  <1>9. CallLearned(p)'
    <2>1. clock' \in Nat
      BY <1>6 DEF CredTypeOK
    <2> QED
      BY <1>5, <1>7, <2>1 DEF CallLearned
  <1>10. TokensAreTaken'
    <2>1. \A q \in Callers : call[q].at = "commit" => RowLocked(call[q].c) /\ call[q].c \in Creds
      BY DEF RowLocked, CredInv, CredTypeOK, CallRecords
    <2> QED
      BY <1>1, <1>4, <1>5, <1>6, <1>7, <2>1, TokensStay
  <1>11. \A c \in ended' : rows'[c].state \in {"revoked", "gone"}
    <2> SUFFICES ASSUME NEW c \in ended' PROVE rows'[c].state \in {"revoked", "gone"}
      OBVIOUS
    <2>1. c \in Creds /\ rows[c].state \in {"none", "live", "revoked", "gone"}
      BY <1>1, <1>3 DEF CredInv, CredTypeOK
    <2>2. c \in ended => rows[c].state \in {"revoked", "gone"}
      BY DEF CredInv, RowsEnd
    <2> QED
      BY <1>1, <1>3, <1>4, <2>1, <2>2
  <1> QED
    BY <1>1, <1>6, <1>7, <1>8, <1>9, <1>10, <1>11, OneCallSteps

\* CallGoes: where a caller is and what it has read, and nothing else.
SameCall(p, label, read) ==
    /\ call' \in [Callers -> CallRecords]
    /\ call'[p].at = label /\ call'[p].read = read
    /\ call'[p].c = call[p].c /\ call'[p].op = call[p].op /\ call'[p].right = call[p].right
    /\ call'[p].began = call[p].began /\ call'[p].ended = call[p].ended
    /\ \A q \in Callers \ {p} : call'[q] = call[q]

\* What a caller learns is kept when only the caller moves.
LEMMA CallGoesOn ==
    ASSUME CredTypeOK, NEW p \in Callers,
           NEW label \in {"check", "extend", "used", "delete", "commit"}, NEW read \in Nat,
           call' = [call EXCEPT ![p].at = label, ![p].read = read]
    PROVE  SameCall(p, label, read)
  <1> DEFINE new == [call[p] EXCEPT !.at = label, !.read = read]
  <1>1. /\ new \in CallRecords /\ new.at = label /\ new.read = read /\ new.c = call[p].c /\ new.op = call[p].op
        /\ new.right = call[p].right /\ new.began = call[p].began /\ new.ended = call[p].ended
    BY DEF CredTypeOK, CallRecords
  <1>2. call' = [call EXCEPT ![p] = new]
    OBVIOUS
  <1> HIDE DEF new
  <1> QED
    BY <1>1, <1>2 DEF CredTypeOK, SameCall

\* A caller reads a row, or the clock, and goes on only while the row lives and
\* is in time.
LEMMA ReadsCred ==
    ASSUME CredInv, NEW p \in Callers, ReadRow(p) \/ CheckExpiry(p) \/ SelectToken(p)
    PROVE  CredInv'
  <1>1. UNCHANGED <<kind, clock, rows, ended, accepted>>
    BY DEF ReadRow, CheckExpiry, SelectToken, credTime
  <1>2. \/ call' = [call EXCEPT ![p] = NoCall]
        \/ /\ call[p].at = "get" /\ kind \in {"session", "apikey"} /\ Readable(call[p].c)
           /\ call' = [call EXCEPT ![p].at = "check", ![p].read = rows[call[p].c].expires]
        \/ /\ call[p].at = "check" /\ ~PastExpiry(call[p].read)
           /\ \/ kind = "session" /\ call' = [call EXCEPT ![p].at = "extend", ![p].read = clock]
              \/ kind = "apikey" /\ call' = [call EXCEPT ![p].at = "used", ![p].read = clock]
        \/ /\ call[p].at = "get" /\ kind = "tokentx"
           /\ call' = [call EXCEPT ![p].at = "delete", ![p].read = 0]
    BY DEF ReadRow, CheckExpiry, SelectToken, CallGoes, CallEnds
  <1>3. NoCall \in CallRecords /\ NoCall.at = "idle" /\ NoCall.ended = {} /\ NoCall.began = 0
    BY CredentialsAssumption DEF NoCall, CallRecords
  <1>4. /\ call[p] \in CallRecords /\ call[p].c \in Creds /\ clock \in Nat
        /\ rows[call[p].c].expires \in Nat /\ rows[call[p].c].latest \in Nat
        /\ rows[call[p].c].expires <= rows[call[p].c].latest
        /\ Readable(call[p].c) => call[p].c \notin ended
        /\ CallLearned(p) /\ call[p].read \in Nat /\ call[p].began \in Nat
    BY DEF CredInv, CredTypeOK, CallRecords, RowsEnd, Readable
  <1>5. \/ call' = [call EXCEPT ![p] = NoCall]
        \/ /\ call[p].at = "get" /\ kind \in {"session", "apikey"} /\ Readable(call[p].c)
           /\ SameCall(p, "check", rows[call[p].c].expires)
        \/ /\ call[p].at = "check" /\ ~PastExpiry(call[p].read)
           /\ \/ kind = "session" /\ SameCall(p, "extend", clock)
              \/ kind = "apikey" /\ SameCall(p, "used", clock)
        \/ call[p].at = "get" /\ kind = "tokentx" /\ SameCall(p, "delete", 0)
    BY <1>2, <1>4, CallGoesOn DEF CredInv
  <1>6. CredTypeOK'
    BY <1>1, <1>3, <1>5 DEF CredInv, CredTypeOK, SameCall
  <1>7. \A q \in Callers \ {p} : call'[q] = call[q]
    BY <1>5 DEF CredInv, CredTypeOK, SameCall
  <1>8. call' = [call EXCEPT ![p] = NoCall] => call'[p] = NoCall
    BY DEF CredInv, CredTypeOK
  <1>9. CallLearned(p)'
    <2>1. CASE call' = [call EXCEPT ![p] = NoCall]
      BY <1>1, <1>3, <1>4, <1>8, <2>1 DEF CallLearned
    <2>2. CASE call' # [call EXCEPT ![p] = NoCall]
      <3>1. call[p].op = "present" /\ call[p].ended \subseteq ended
        BY <1>4, <1>5, <2>2 DEF CallLearned
      <3> QED
        BY <1>1, <1>4, <1>5, <2>2, <3>1 DEF CallLearned, SameCall, PastExpiry
    <2> QED
      BY <2>1, <2>2
  <1>10. TokensAreTaken'
    <2>1. call'[p].at \in {"idle", "check", "extend", "used", "delete"}
          /\ (kind \in {"token", "tokentx"} => call'[p].at # "check")
      BY <1>3, <1>5, <1>8 DEF SameCall
    <2>2. kind \in {"session", "apikey"} => TokensAreTaken'
      BY <1>1 DEF TokensAreTaken
    <2>3. kind \in {"token", "tokentx"} => TokensAreTaken'
      BY <1>1, <1>6, <1>7, <2>1, TokensStay
    <2> QED
      BY <2>2, <2>3 DEF CredInv, CredTypeOK
  <1>11. \A c \in Creds : RowGoesOn(c)
    BY <1>1 DEF RowGoesOn, CredInv, CredTypeOK, RowsEnd
  <1> QED
    BY <1>1, <1>6, <1>7, <1>9, <1>10, <1>11, OneCallSteps DEF CredInv, RowsEnd

\* ExtendSession writes a row that is still there, and UpdateLastUsed none.
LEMMA AcceptsCred == ASSUME CredInv, NEW p \in Callers, Extend(p) \/ MarkUsed(p) PROVE CredInv'
  <1>1. /\ UNCHANGED <<kind, clock, ended>> /\ kind \in {"session", "apikey"} /\ call[p].at \in {"extend", "used"}
        /\ call' = [call EXCEPT ![p].at = "accepted"]
        /\ accepted' = [accepted EXCEPT ![call[p].c] = IF @ < 2 THEN @ + 1 ELSE @]
    BY DEF Extend, MarkUsed, Accepted, CallAt, credTime, CredInv, CallLearned
  <1>2. call[p] \in CallRecords /\ call[p].c \in Creds /\ call[p].read \in Nat /\ CallLearned(p)
        /\ call[p].began \in Nat /\ clock \in Nat
    BY DEF CredInv, CredTypeOK, CallRecords
  <1>3. accepted' \in [Creds -> 0..2]
    BY <1>1, <1>2 DEF CredInv, CredTypeOK
  <1> DEFINE new == [call[p] EXCEPT !.at = "accepted"]
  <1>4. /\ new \in CallRecords /\ new.at = "accepted" /\ new.c = call[p].c /\ new.op = call[p].op
        /\ new.began = call[p].began /\ new.ended = call[p].ended
    BY <1>2 DEF CallRecords
  <1>5. call' = [call EXCEPT ![p] = new]
    BY <1>1
  <1> HIDE DEF new
  <1>6. call' \in [Callers -> CallRecords] /\ call'[p] = new /\ \A q \in Callers \ {p} : call'[q] = call[q]
    BY <1>4, <1>5 DEF CredInv, CredTypeOK
  <1> DEFINE now == Given(call[p].c, call[p].read)
  <1>7. /\ now \in [state : {"none", "live", "revoked", "gone"}, expires : Nat, latest : Nat]
        /\ now.state = "live" /\ now.expires <= now.latest /\ rows[call[p].c].latest <= now.latest
    BY <1>2, CredentialsAssumption DEF Given, CredInv, CredTypeOK
  <1>8. rows' = rows \/ (rows[call[p].c].state = "live" /\ rows' = [rows EXCEPT ![call[p].c] = now])
    BY DEF Extend, MarkUsed, Extended, Readable
  <1> HIDE DEF now
  <1>9. CredTypeOK'
    BY <1>1, <1>3, <1>6, <1>7, <1>8 DEF CredInv, CredTypeOK
  <1>10. \A c \in Creds : RowGoesOn(c)
    BY <1>1, <1>2, <1>7, <1>8 DEF RowGoesOn, CredInv, CredTypeOK, RowsEnd
  <1>11. CallLearned(p)'
    <2>1. /\ rows[call[p].c].latest \in Nat /\ rows'[call[p].c].latest \in Nat
          /\ rows[call[p].c].latest <= rows'[call[p].c].latest
          /\ rows[call[p].c].state # "none" => rows'[call[p].c].state # "none"
      BY <1>2, <1>9, <1>10 DEF CredInv, CredTypeOK, RowGoesOn
    <2>2. /\ call[p].ended \subseteq ended /\ call[p].began <= clock /\ call[p].op = "present"
          /\ call[p].c \notin call[p].ended /\ call[p].began <= rows[call[p].c].latest
          /\ rows[call[p].c].state # "none"
      BY <1>1, <1>2 DEF CallLearned
    <2> QED
      BY <1>1, <1>2, <1>4, <1>6, <2>1, <2>2 DEF CallLearned
  <1>12. TokensAreTaken'
    BY <1>1 DEF TokensAreTaken
  <1>13. \A c \in ended' : rows'[c].state \in {"revoked", "gone"}
    BY <1>1, <1>10 DEF CredInv, CredTypeOK, RowsEnd, RowGoesOn
  <1> QED
    BY <1>1, <1>6, <1>9, <1>10, <1>11, <1>12, <1>13, OneCallSteps

\* The row that a caller takes is gone, and nobody else has it.
LEMMA TakesCred ==
    ASSUME CredInv, NEW p \in Callers, Consume(p) \/ CommitToken(p)
    PROVE  CredInv'
  <1>1. UNCHANGED <<kind, clock, ended, accepted>> /\ call[p].at \in {"consume", "commit"}
    BY DEF Consume, CommitToken, credTime
  <1>2. \/ UNCHANGED rows /\ call' = [call EXCEPT ![p] = NoCall]
        \/ /\ rows[call[p].c].state = "live" /\ Removed({call[p].c})
           /\ \/ call' = [call EXCEPT ![p] = NoCall]
              \/ call' = [call EXCEPT ![p].at = "check", ![p].read = rows[call[p].c].expires]
    BY DEF Consume, CommitToken, Presented, CallGoes, CallEnds, Readable, CredInv, TokensAreTaken, CallLearned
  <1>3. NoCall \in CallRecords /\ NoCall.at = "idle" /\ NoCall.ended = {} /\ NoCall.began = 0
    BY CredentialsAssumption DEF NoCall, CallRecords
  <1>4. /\ call[p] \in CallRecords /\ call[p].c \in Creds /\ clock \in Nat
        /\ rows[call[p].c].expires \in Nat /\ rows[call[p].c].latest \in Nat
        /\ rows[call[p].c].expires <= rows[call[p].c].latest
        /\ rows[call[p].c].state = "live" => call[p].c \notin ended
        /\ CallLearned(p)
    BY DEF CredInv, CredTypeOK, CallRecords, RowsEnd
  <1>5. kind \in {"token", "tokentx"} /\ call[p].op = "present" /\ call[p].ended \subseteq ended /\ call[p].began <= clock
    BY <1>1, <1>4 DEF CallLearned
  <1>6. \/ UNCHANGED rows /\ call' = [call EXCEPT ![p] = NoCall]
        \/ /\ rows[call[p].c].state = "live" /\ Removed({call[p].c})
           /\ \/ call' = [call EXCEPT ![p] = NoCall]
              \/ SameCall(p, "check", rows[call[p].c].expires)
    BY <1>2, <1>4, CallGoesOn DEF CredInv
  <1>7. \A c \in Creds : /\ rows'[c].expires = rows[c].expires /\ rows'[c].latest = rows[c].latest
                         /\ c # call[p].c => rows'[c].state = rows[c].state
                         /\ rows'[c].state # rows[c].state => rows[c].state = "live" /\ rows'[c].state = "gone"
    BY <1>6 DEF Removed, CredInv, CredTypeOK
  <1>8. rows' \in [Creds -> [state : {"none", "live", "revoked", "gone"}, expires : Nat, latest : Nat]]
    BY <1>6 DEF Removed, CredInv, CredTypeOK
  <1>9. CredTypeOK'
    BY <1>1, <1>3, <1>6, <1>8 DEF CredInv, CredTypeOK, SameCall
  <1>10. \A c \in Creds : RowGoesOn(c)
    <2> SUFFICES ASSUME NEW c \in Creds PROVE RowGoesOn(c)
      OBVIOUS
    <2>1. rows[c].expires \in Nat /\ rows[c].latest \in Nat /\ rows[c].expires <= rows[c].latest
      BY DEF CredInv, CredTypeOK, RowsEnd
    <2> QED
      BY <1>7, <2>1 DEF RowGoesOn
  <1>11. call' = [call EXCEPT ![p] = NoCall] => call'[p] = NoCall
    BY DEF CredInv, CredTypeOK
  <1>12. \A q \in Callers \ {p} : call'[q] = call[q]
    BY <1>6 DEF CredInv, CredTypeOK, SameCall
  <1>13. CallLearned(p)'
    <2>1. CASE call' = [call EXCEPT ![p] = NoCall]
      BY <1>1, <1>3, <1>4, <1>11, <2>1 DEF CallLearned
    <2>2. CASE rows[call[p].c].state = "live" /\ Removed({call[p].c}) /\ SameCall(p, "check", rows[call[p].c].expires)
      <3>1. rows'[call[p].c].state # "none" /\ rows'[call[p].c].latest = rows[call[p].c].latest
        BY <1>4, <1>7, <2>2
      <3> QED
        BY <1>1, <1>4, <1>5, <2>2, <3>1 DEF CallLearned, SameCall
    <2> QED
      BY <1>6, <2>1, <2>2
  <1>14. TokensAreTaken'
    <2>1. /\ TokensAreTaken /\ \A q \in Callers : call[q].c \in Creds
          /\ \A q \in Callers : CallLearned(q)
      BY DEF CredInv, CredTypeOK, CallRecords
    <2>2. call'[p] = NoCall \/ (call'[p].at = "check" /\ call'[p].c = call[p].c
                              /\ rows[call[p].c].state = "live" /\ rows'[call[p].c].state = "gone")
      <3>1. Removed({call[p].c}) => rows'[call[p].c].state = "gone"
        BY <1>4 DEF Removed, CredInv, CredTypeOK
      <3> QED
        BY <1>6, <1>11, <3>1 DEF SameCall
    <2>3. \A q \in Callers \ {p} : call[q].at = "commit" => call[q].c # call[p].c
      BY <1>1, <2>1 DEF TokensAreTaken, CallLearned
    <2>4. \A c \in Creds : accepted'[c] <= 1 /\ (accepted'[c] > 0 => rows'[c].state = "gone")
      BY <1>1, <1>5, <1>7, <2>1 DEF TokensAreTaken
    <2>5. accepted[call[p].c] > 0 \/ accepted[call[p].c] = 0
      BY <1>4 DEF CredInv, CredTypeOK
    <2>6. \A q \in Callers :
            /\ call'[q].at = "check" => rows'[call'[q].c].state = "gone" /\ accepted'[call'[q].c] = 0
            /\ call'[q].at = "commit" => rows'[call'[q].c].state = "live"
      <3> SUFFICES ASSUME NEW q \in Callers
                   PROVE  /\ call'[q].at = "check" => rows'[call'[q].c].state = "gone" /\ accepted'[call'[q].c] = 0
                          /\ call'[q].at = "commit" => rows'[call'[q].c].state = "live"
        OBVIOUS
      <3>1. CASE q = p
        BY <1>1, <1>3, <1>4, <1>5, <2>1, <2>2, <2>5, <3>1 DEF TokensAreTaken
      <3>2. CASE q # p
        BY <1>1, <1>5, <1>7, <1>12, <2>1, <2>3, <3>2 DEF TokensAreTaken
      <3> QED
        BY <3>1, <3>2
    <2>7. \A q \in Callers \ {p} : call[q].at = "check" => rows[call[q].c].state = "gone"
      BY <1>5, <2>1 DEF TokensAreTaken
    <2>8. \A q, r \in Callers :
            q # r /\ call'[q].at \in {"check", "commit"} /\ call'[r].at = call'[q].at => call'[q].c # call'[r].c
      <3> SUFFICES ASSUME NEW q \in Callers, NEW r \in Callers, q # r,
                          call'[q].at \in {"check", "commit"}, call'[r].at = call'[q].at
                   PROVE  call'[q].c # call'[r].c
        OBVIOUS
      <3>1. CASE q # p /\ r # p
        BY <1>5, <1>12, <2>1, <3>1 DEF TokensAreTaken
      <3>2. CASE q = p
        BY <1>3, <1>12, <2>2, <2>7, <3>2
      <3>3. CASE r = p
        BY <1>3, <1>12, <2>2, <2>7, <3>3
      <3> QED
        BY <3>1, <3>2, <3>3
    <2> QED
      BY <2>4, <2>6, <2>8 DEF TokensAreTaken
  <1>15. \A c \in ended' : rows'[c].state \in {"revoked", "gone"}
    BY <1>1, <1>7 DEF CredInv, CredTypeOK, RowsEnd
  <1> QED
    BY <1>1, <1>9, <1>10, <1>12, <1>13, <1>14, <1>15, OneCallSteps

\* MySQL's DELETE takes the lock of a row that is there.
LEMMA DeletesCred == ASSUME CredInv, NEW p \in Callers, DeleteToken(p) PROVE CredInv'
  <1>1. UNCHANGED <<kind, clock, rows, ended, accepted>> /\ call[p].op = "present" /\ call[p].at = "delete"
        /\ ~RowLocked(call[p].c)
    BY DEF DeleteToken, credTime
  <1>2. \/ call' = [call EXCEPT ![p] = NoCall]
        \/ rows[call[p].c].state = "live" /\ call' = [call EXCEPT ![p].at = "commit", ![p].read = 0]
    BY DEF DeleteToken, DeletedNone, Readable, CallGoes, CallEnds
  <1>3. NoCall \in CallRecords /\ NoCall.at = "idle" /\ NoCall.ended = {} /\ NoCall.began = 0
    BY CredentialsAssumption DEF NoCall, CallRecords
  <1>4. /\ call[p].c \in Creds /\ clock \in Nat /\ CallLearned(p)
        /\ rows[call[p].c].state = "live" => call[p].c \notin ended
    BY DEF CredInv, CredTypeOK, CallRecords, RowsEnd
  <1>5. call' = [call EXCEPT ![p] = NoCall] \/ (rows[call[p].c].state = "live" /\ SameCall(p, "commit", 0))
    BY <1>2, CallGoesOn DEF CredInv
  <1>6. CredTypeOK'
    BY <1>1, <1>3, <1>5 DEF CredInv, CredTypeOK, SameCall
  <1>7. \A q \in Callers \ {p} : call'[q] = call[q]
    BY <1>5 DEF CredInv, CredTypeOK, SameCall
  <1>8. call' = [call EXCEPT ![p] = NoCall] => call'[p] = NoCall
    BY DEF CredInv, CredTypeOK
  <1>9. CallLearned(p)'
    <2>1. CASE call' = [call EXCEPT ![p] = NoCall]
      BY <1>1, <1>3, <1>4, <1>8, <2>1 DEF CallLearned
    <2>2. CASE rows[call[p].c].state = "live" /\ SameCall(p, "commit", 0)
      BY <1>1, <1>4, <2>2 DEF CallLearned, SameCall
    <2> QED
      BY <1>5, <2>1, <2>2
  <1>10. TokensAreTaken'
    <2>1. CASE call' = [call EXCEPT ![p] = NoCall]
      BY <1>1, <1>3, <1>6, <1>7, <1>8, <2>1, TokensStay
    <2>2. CASE rows[call[p].c].state = "live" /\ SameCall(p, "commit", 0)
      <3>1. \A q \in Callers : call[q].at = "commit" => call[q].c # call[p].c
        BY <1>1 DEF RowLocked
      <3>2. call'[p].at = "commit" /\ call'[p].c = call[p].c
        BY <2>2 DEF SameCall
      <3> QED
        BY <1>1, <1>7, <2>2, <3>1, <3>2 DEF CredInv, TokensAreTaken
    <2> QED
      BY <1>5, <2>1, <2>2
  <1>11. \A c \in Creds : RowGoesOn(c)
    BY <1>1 DEF RowGoesOn, CredInv, CredTypeOK, RowsEnd
  <1> QED
    BY <1>1, <1>6, <1>7, <1>9, <1>10, <1>11, OneCallSteps DEF CredInv, RowsEnd

\* The token that is accepted was taken by this caller.
LEMMA CheckTokenCred == ASSUME CredInv, NEW p \in Callers, CheckToken(p) PROVE CredInv'
  <1>1. UNCHANGED <<kind, clock, rows>> /\ kind \in {"token", "tokentx"} /\ call[p].at = "check"
        /\ ended' = ended \cup {call[p].c}
    BY DEF CheckToken, credTime
  <1>2. \/ /\ ~PastExpiry(call[p].read) /\ call' = [call EXCEPT ![p].at = "accepted"]
           /\ accepted' = [accepted EXCEPT ![call[p].c] = IF @ < 2 THEN @ + 1 ELSE @]
        \/ call' = [call EXCEPT ![p] = NoCall] /\ UNCHANGED accepted
    BY DEF CheckToken, Accepted, CallAt, CallEnds
  <1>3. NoCall \in CallRecords /\ NoCall.at = "idle" /\ NoCall.ended = {} /\ NoCall.began = 0
    BY CredentialsAssumption DEF NoCall, CallRecords
  <1>4. /\ call[p] \in CallRecords /\ call[p].c \in Creds /\ clock \in Nat /\ CallLearned(p)
        /\ call[p].read \in Nat /\ call[p].began \in Nat /\ rows[call[p].c].latest \in Nat
        /\ rows[call[p].c].state = "gone" /\ accepted[call[p].c] = 0
    BY <1>1 DEF CredInv, CredTypeOK, CallRecords, TokensAreTaken
  <1> DEFINE new == [call[p] EXCEPT !.at = "accepted"]
  <1>5. /\ new \in CallRecords /\ new.at = "accepted" /\ new.c = call[p].c /\ new.op = call[p].op
        /\ new.began = call[p].began /\ new.ended = call[p].ended
    BY <1>4 DEF CallRecords
  <1>6. \/ /\ ~PastExpiry(call[p].read) /\ call' = [call EXCEPT ![p] = new]
           /\ accepted' = [accepted EXCEPT ![call[p].c] = 1]
        \/ call' = [call EXCEPT ![p] = NoCall] /\ UNCHANGED accepted
    BY <1>2, <1>4 DEF CredInv, CredTypeOK
  <1> HIDE DEF new
  <1>7. \/ call'[p] = new /\ ~PastExpiry(call[p].read) /\ accepted' = [accepted EXCEPT ![call[p].c] = 1]
        \/ call'[p] = NoCall /\ UNCHANGED accepted
    BY <1>6 DEF CredInv, CredTypeOK
  <1>8. \A q \in Callers \ {p} : call'[q] = call[q]
    BY <1>6 DEF CredInv, CredTypeOK
  <1>9. CredTypeOK'
    <2>1. call' \in [Callers -> CallRecords] /\ accepted' \in [Creds -> 0..2]
      BY <1>3, <1>5, <1>6 DEF CredInv, CredTypeOK
    <2> QED
      BY <1>1, <1>4, <2>1 DEF CredInv, CredTypeOK
  <1>10. CallLearned(p)'
    <2>1. CASE call'[p] = NoCall
      BY <1>1, <1>3, <1>4, <2>1 DEF CallLearned
    <2>2. CASE call'[p] = new /\ ~PastExpiry(call[p].read)
      BY <1>1, <1>4, <1>5, <2>2 DEF CallLearned, PastExpiry
    <2> QED
      BY <1>7, <2>1, <2>2
  <1>11. TokensAreTaken'
    <2>1. TokensAreTaken /\ \A q \in Callers : call[q].c \in Creds
      BY DEF CredInv, CredTypeOK, CallRecords
    <2>2. \A c \in Creds : accepted'[c] = accepted[c] \/ (c = call[p].c /\ accepted'[c] = 1)
      BY <1>6 DEF CredInv, CredTypeOK
    <2>3. call'[p].at \notin {"check", "commit"}
      BY <1>3, <1>5, <1>7
    <2>4. \A q \in Callers \ {p} : call[q].at \in {"check", "commit"} => call[q].c # call[p].c
      BY <1>1, <1>4, <2>1 DEF TokensAreTaken
    <2>5. \A c \in Creds : accepted'[c] <= 1 /\ (accepted'[c] > 0 => rows'[c].state = "gone")
      BY <1>1, <1>4, <2>1, <2>2 DEF TokensAreTaken
    <2> QED
      BY <1>1, <1>8, <2>1, <2>2, <2>3, <2>4, <2>5 DEF TokensAreTaken
  <1>12. \A c \in Creds : RowGoesOn(c)
    BY <1>1 DEF RowGoesOn, CredInv, CredTypeOK, RowsEnd
  <1>13. \A c \in ended' : rows'[c].state \in {"revoked", "gone"}
    BY <1>1, <1>4 DEF CredInv, RowsEnd
  <1> QED
    BY <1>1, <1>8, <1>9, <1>10, <1>11, <1>12, <1>13, OneCallSteps

\* No credential is accepted once its end has been answered, out of its time,
\* or, for a token, twice.
THEOREM CredentialsAreHeld == CredSpec => []CredentialsHold
  <1>1. CredInv /\ [CredNext]_credVars => CredInv'
    <2>1. CASE UNCHANGED credVars
      BY <2>1 DEF credVars, credTime, CredInv, CredTypeOK, RowsEnd, CallLearned, TokensAreTaken
    <2>2. ASSUME CredInv, CredNext PROVE CredInv'
      <3>1. ASSUME NEW p \in Callers, CredStep(p) PROVE CredInv'
        BY <2>2, <3>1, RevokeCred, BeginsOrEndsCred, ReadsCred, AcceptsCred, TakesCred, DeletesCred, CheckTokenCred
        DEF CredStep
      <3> QED
        BY <2>2, <3>1, ServiceCred, BeginsOrEndsCred, IssueCred DEF CredNext
    <2> QED
      BY <2>1, <2>2
  <1>2. CredInv => CredentialsHold
    BY DEF CredInv, CallLearned, TokensAreTaken, CredentialsHold, NothingEndedIsAccepted, AcceptedInTime, TokenAcceptedOnce
  <1> QED
    BY InitCred, <1>1, <1>2, PTL DEF CredSpec
(***************************************************************************)
(* The App: the server it serves with, its hooks, and its shutdown         *)
(***************************************************************************)
AppLabels == {"begin", "init", "migrate", "hooks", "ready", "bind", "apply", "event", "select", "stop", "shutdown",
              "drain", "worker", "closing", "returned", "idle", "serve", "settle", "listen", "serving"}

AppTypeOK ==
    /\ at \in [Starting \cup Stopping \cup {"serve"} -> AppLabels]
    /\ starts \in 0..MaxStarts /\ cfg \in 0..MaxStarts /\ handed \subseteq Fields
    /\ \A p \in Starting : InStart(p) => starts >= 1

\* Every field that nobody has changed was copied from one Config, the least-th
\* Bind's or a later one.
CopiedFrom(least) ==
    \E c \in least..MaxStarts :
        /\ srvCopied = [f \in Fields |-> c]
        /\ server = [f \in Fields |-> IF f \in handed THEN Chosen ELSE c]

\* The Config has been bound, and the server has been told.
HasBound == srvSettled \/ at["serve"] # "idle" \/ \E p \in Starting : at[p] = "event"

ConfigReaches ==
    /\ server = NoServer => handed = {}
    /\ server # NoServer => CopiedFrom(0)
    /\ HasBound => cfg >= 1 /\ (server # NoServer => CopiedFrom(1))
    /\ \A p \in Starting : at[p] = "apply" => cfg >= 1
    /\ at["serve"] \notin {"idle", "serve"} => server # NoServer

\* The hooks are those the first Start took, and what it took it runs.
HooksGo ==
    /\ \A p \in Starting : at[p] = "ready" => readyRan /\ readyFuncs \subseteq snapshot \cup hooksRun
    /\ \A p \in Starting : at[p] \in {"bind", "apply", "event", "select", "stop"} =>
            readyRan /\ readyFuncs \subseteq hooksRun

\* Nobody gets past the drain while a request is served, unless it timed out.
DrainsFirst ==
    /\ inShutdown => ~listening
    /\ \A p \in Stopping : at[p] = "drain" => inShutdown
    /\ (\E p \in Stopping : at[p] \in {"worker", "closing"}) \/ (services = "closed" /\ ~appErr) =>
            inShutdown /\ (overran \/ inFlight = {})

AppInv == AppTypeOK /\ ConfigReaches /\ HooksGo /\ DrainsFirst

\* No goroutine has begun, and there is no server yet.
LEMMA InitApp == AppInit => AppInv
  <1> SUFFICES ASSUME AppInit PROVE AppInv
    OBVIOUS
  <1>1. at \in [Starting \cup Stopping \cup {"serve"} -> AppLabels] /\ \A p \in Starting : ~InStart(p)
    BY DEF AppInit, Starting, Stopping, InStart, AppLabels
  <1>2a. starts \in 0..MaxStarts /\ cfg \in 0..MaxStarts /\ handed \subseteq Fields
    BY AppServerAssumption DEF AppInit
  <1>1a. AppTypeOK
    BY <1>1, <1>2a DEF AppTypeOK
  <1>2. ConfigReaches
    BY DEF AppInit, ConfigReaches, HasBound, Starting, Stopping
  <1>3. HooksGo /\ DrainsFirst
    BY DEF AppInit, HooksGo, DrainsFirst, Starting, Stopping
  <1> QED
    BY <1>1a, <1>2, <1>3 DEF AppInv

\* Every goroutine is at a label.
LEMMA LabelsAreTyped == ASSUME AppInv, AppNext PROVE at' \in [Starting \cup Stopping \cup {"serve"} -> AppLabels]
  <1> DEFINE Labels == [Starting \cup Stopping \cup {"serve"} -> AppLabels]
  <1>0. at \in Labels
    BY DEF AppInv, AppTypeOK
  <1>a. ASSUME NEW p, NEW label \in AppLabels, Go(p, label) PROVE at' \in Labels
    BY <1>0, <1>a DEF Go
  <1> SUFFICES at' \in Labels
    OBVIOUS
  <1> HIDE DEF Labels
  <1>1. ASSUME NEW p \in Starting, StartApp(p) PROVE at' \in Labels
    BY <1>1, <1>a DEF AppLabels, StartApp
  <1>2. ASSUME NEW p \in Starting, AppInitServices(p) \/ AppMigrates(p) \/ TakeHooks(p) \/ HooksDone(p) PROVE at' \in Labels
    BY <1>2, <1>a DEF AppLabels, AppInitServices, AppMigrates, TakeHooks, HooksDone
  <1>3. ASSUME NEW p \in Starting, BindConfig(p) \/ ApplyBound(p) \/ AppStartFails(p) PROVE at' \in Labels
    BY <1>3, <1>a DEF AppLabels, BindConfig, ApplyBound, AppStartFails
  <1>4. ASSUME NEW p \in Starting, AppStarted(p) PROVE at' \in Labels
    BY <1>4, <1>0 DEF AppStarted, Labels, AppLabels, Starting, Stopping
  <1>5. ASSUME NEW p \in Starting, \/ InitUsesServer(p)
                                   \/ \E f \in Fields : InitSetsField(p, f) \/ SubscriberSets(p, f)
                                   \/ \E h \in Hooks : RunHook(p, h)
        PROVE  at' \in Labels
    BY <1>5, <1>0 DEF InitUsesServer, InitSetsField, SubscriberSets, RunHook
  <1>6. ASSUME \/ (\E h \in Hooks : ReadyFunc(h)) \/ (\E r \in AppRequests : Arrive(r) \/ Respond(r)) \/ Signal
        PROVE  at' \in Labels
    BY <1>6, <1>0 DEF ReadyFunc, Arrive, Respond, Signal
  <1>7. ASSUME Serve \/ Settle \/ Listen \/ ServeEnds \/ RunSelects \/ StopCalled PROVE at' \in Labels
    BY <1>7, <1>a DEF AppLabels, Serve, Settle, Listen, ServeEnds, RunSelects, StopCalled
  <1>8. ASSUME NEW p \in Stopping, StopStep(p) PROVE at' \in Labels
    BY <1>8, <1>a DEF AppLabels, StopStep, Stop, ShutdownServer, DrainEnds, ShutdownWorker, WorkerClosed
  <1> QED
    BY <1>1, <1>2, <1>3, <1>4, <1>5, <1>6, <1>7, <1>8 DEF AppNext, StartStep

\* A Config is one of the Binds, and only Start and the callers in Start
\* change what it and the server are.
LEMMA BindsAreTyped ==
    ASSUME AppInv, AppNext
    PROVE  /\ starts' \in 0..MaxStarts /\ cfg' \in 0..MaxStarts /\ handed' \subseteq Fields
           /\ \A p \in Starting : InStart(p)' => starts' >= 1
  <1> DEFINE Typed == /\ starts \in 0..MaxStarts /\ cfg \in 0..MaxStarts /\ handed \subseteq Fields
                      /\ \A p \in Starting : InStart(p) => starts >= 1
  <1>0. Typed /\ starts \in Nat /\ MaxStarts \in Nat /\ at \in [Starting \cup Stopping \cup {"serve"} -> AppLabels]
    BY AppServerAssumption DEF AppInv, AppTypeOK
  <1> SUFFICES Typed'
    OBVIOUS
  <1>a. ASSUME UNCHANGED <<starts, cfg, handed>>, \A p \in Starting : InStart(p)' => \E q \in Starting : InStart(q)
        PROVE  Typed'
    BY <1>0, <1>a DEF InStart
  <1> USE DEF Starting, Stopping, Go
  <1>1. ASSUME NEW p \in Starting, StartApp(p) PROVE Typed'
    <2>1. starts' = starts + 1 /\ starts < MaxStarts /\ UNCHANGED <<cfg, handed>>
      BY <1>1 DEF StartApp, configVars
    <2>2. starts' \in 0..MaxStarts /\ starts' >= 1
      BY <2>1, <1>0
    <2> QED
      BY <2>1, <2>2, <1>0
  <1>2. ASSUME NEW p \in Starting, AppInitServices(p) \/ AppMigrates(p) \/ TakeHooks(p) \/ HooksDone(p) PROVE Typed'
    <2>1. InStart(p) /\ UNCHANGED <<starts, cfg, handed>>
      BY <1>2 DEF AppInitServices, AppMigrates, TakeHooks, HooksDone, configVars, InStart
    <2> QED
      BY <2>1, <1>a
  <1>3. ASSUME NEW p \in Starting, BindConfig(p) PROVE Typed'
    <2>1. InStart(p) /\ cfg' = starts /\ UNCHANGED <<starts, handed>>
      BY <1>3 DEF BindConfig, InStart
    <2> QED
      BY <2>1, <1>0
  <1>4. ASSUME NEW p \in Starting, ApplyBound(p) \/ AppStarted(p) \/ AppStartFails(p) PROVE Typed'
    <2>1. InStart(p) /\ UNCHANGED <<starts, cfg, handed>>
      BY <1>4 DEF ApplyBound, AppStarted, AppStartFails, configVars, InStart
    <2> QED
      BY <2>1, <1>a
  <1>5. ASSUME NEW p \in Starting, NEW f \in Fields, InitSetsField(p, f) \/ SubscriberSets(p, f) PROVE Typed'
    <2>1. handed' \subseteq Fields /\ UNCHANGED <<starts, cfg, at>>
      BY <1>5, <1>0 DEF InitSetsField, SubscriberSets
    <2> QED
      BY <2>1, <1>0 DEF InStart
  <1>6. ASSUME NEW p \in Starting, InitUsesServer(p) \/ \E h \in Hooks : RunHook(p, h) PROVE Typed'
    <2>1. UNCHANGED <<starts, cfg, handed, at>>
      BY <1>6 DEF InitUsesServer, RunHook, configVars
    <2> QED
      BY <2>1, <1>0 DEF InStart
  <1>7. ASSUME \/ (\E h \in Hooks : ReadyFunc(h)) \/ (\E r \in AppRequests : Arrive(r) \/ Respond(r)) \/ Signal
        PROVE  Typed'
    <2>1. UNCHANGED <<starts, cfg, handed, at>>
      BY <1>7 DEF ReadyFunc, Arrive, Respond, Signal, configVars
    <2> QED
      BY <2>1, <1>0 DEF InStart
  <1>8. ASSUME Serve \/ Settle \/ Listen \/ ServeEnds PROVE Typed'
    <2>1. /\ UNCHANGED <<starts, cfg, handed>>
          /\ \A q \in Starting : at'[q] = at[q]
      BY <1>8, <1>0 DEF Serve, Settle, Listen, ServeEnds, configVars
    <2> QED
      BY <2>1, <1>a DEF InStart
  <1>9. ASSUME RunSelects \/ StopCalled PROVE Typed'
    <2>1. /\ UNCHANGED <<starts, cfg, handed>>
          /\ \A q \in Starting : at'[q] = at[q] \/ at'[q] = "stop"
      BY <1>9, <1>0 DEF RunSelects, StopCalled, configVars
    <2> QED
      BY <2>1, <1>a DEF InStart
  <1>10. ASSUME NEW p \in Stopping, StopStep(p) PROVE Typed'
    <2>1. /\ UNCHANGED <<starts, cfg, handed>>
          /\ \A q \in Starting : at'[q] = at[q] \/ at'[q] \in {"shutdown", "drain", "worker", "closing", "returned"}
      BY <1>10, <1>0 DEF StopStep, Stop, ShutdownServer, DrainEnds, ShutdownWorker, WorkerClosed, configVars
    <2> QED
      BY <2>1, <1>a DEF InStart
  <1> QED
    BY <1>1, <1>2, <1>3, <1>4, <1>5, <1>6, <1>7, <1>8, <1>9, <1>10 DEF AppNext, StartStep

\* The types of the App's state.
LEMMA AppTypes == ASSUME AppInv, AppNext PROVE AppTypeOK'
  BY LabelsAreTyped, BindsAreTyped DEF AppTypeOK

\* ReadyFunc refuses a hook that would come too late.
LEMMA HooksStep == ASSUME AppInv, AppNext PROVE HooksGo'
  <1> USE DEF AppInv, AppTypeOK, HooksGo, Starting, Stopping, Go, hookVars
  <1>1. ASSUME NEW p \in Starting, StartApp(p) PROVE HooksGo'
    BY <1>1 DEF StartApp
  <1>2. ASSUME NEW p \in Starting, AppInitServices(p) \/ AppMigrates(p) \/ TakeHooks(p) \/ HooksDone(p) PROVE HooksGo'
    BY <1>2 DEF AppInitServices, AppMigrates, TakeHooks, HooksDone
  <1>3. ASSUME NEW p \in Starting, BindConfig(p) \/ ApplyBound(p) PROVE HooksGo'
    BY <1>3 DEF BindConfig, ApplyBound
  <1>4. ASSUME NEW p \in Starting, AppStarted(p) \/ AppStartFails(p) PROVE HooksGo'
    BY <1>4 DEF AppStarted, AppStartFails
  <1>5. ASSUME NEW p \in Starting, InitUsesServer(p) \/ \E f \in Fields : InitSetsField(p, f) \/ SubscriberSets(p, f)
        PROVE  HooksGo'
    BY <1>5 DEF InitUsesServer, InitSetsField, SubscriberSets
  <1>6. ASSUME NEW p \in Starting, \E h \in Hooks : RunHook(p, h) PROVE HooksGo'
    BY <1>6 DEF RunHook
  <1>7. ASSUME \/ (\E h \in Hooks : ReadyFunc(h)) \/ (\E r \in AppRequests : Arrive(r) \/ Respond(r)) \/ Signal
        PROVE  HooksGo'
    BY <1>7 DEF ReadyFunc, TooLateForHook, Arrive, Respond, Signal
  <1>8. ASSUME Serve \/ Settle \/ Listen \/ ServeEnds \/ RunSelects \/ StopCalled PROVE HooksGo'
    BY <1>8 DEF Serve, Settle, Listen, ServeEnds, RunSelects, StopCalled
  <1>9. ASSUME NEW p \in Stopping, StopStep(p) PROVE HooksGo'
    BY <1>9 DEF StopStep, Stop, ShutdownServer, DrainEnds, ShutdownWorker, WorkerClosed
  <1> QED
    BY <1>1, <1>2, <1>3, <1>4, <1>5, <1>6, <1>7, <1>8, <1>9 DEF AppNext, StartStep

\* Once Shutdown was called no request arrives, and the Worker comes after.
LEMMA DrainStep == ASSUME AppInv, AppNext PROVE DrainsFirst'
  <1> USE DEF AppInv, AppTypeOK, DrainsFirst, Starting, Stopping, Go, serveVars
  <1>1. ASSUME NEW p \in Starting, StartApp(p) PROVE DrainsFirst'
    BY <1>1 DEF StartApp
  <1>2. ASSUME NEW p \in Starting, AppInitServices(p) \/ AppMigrates(p) \/ TakeHooks(p) \/ HooksDone(p) PROVE DrainsFirst'
    BY <1>2 DEF AppInitServices, AppMigrates, TakeHooks, HooksDone
  <1>3. ASSUME NEW p \in Starting, BindConfig(p) \/ ApplyBound(p) PROVE DrainsFirst'
    BY <1>3 DEF BindConfig, ApplyBound
  <1>4. ASSUME NEW p \in Starting, AppStarted(p) \/ AppStartFails(p) PROVE DrainsFirst'
    BY <1>4 DEF AppStarted, AppStartFails
  <1>5. ASSUME NEW p \in Starting, InitUsesServer(p) \/ \E f \in Fields : InitSetsField(p, f) \/ SubscriberSets(p, f)
        PROVE  DrainsFirst'
    BY <1>5 DEF InitUsesServer, InitSetsField, SubscriberSets
  <1>6. ASSUME NEW p \in Starting, \E h \in Hooks : RunHook(p, h) PROVE DrainsFirst'
    BY <1>6 DEF RunHook
  <1>7. ASSUME (\E h \in Hooks : ReadyFunc(h)) \/ Signal PROVE DrainsFirst'
    BY <1>7 DEF ReadyFunc, Signal
  <1>8. ASSUME \E r \in AppRequests : Arrive(r) \/ Respond(r) PROVE DrainsFirst'
    BY <1>8 DEF Arrive, Respond
  <1>9. ASSUME Serve \/ Settle \/ Listen \/ ServeEnds \/ RunSelects \/ StopCalled PROVE DrainsFirst'
    BY <1>9 DEF Serve, Settle, Listen, ServeEnds, RunSelects, StopCalled
  <1>10. ASSUME NEW p \in Stopping, StopStep(p) PROVE DrainsFirst'
    BY <1>10 DEF StopStep, Stop, ShutdownServer, DrainEnds, Drained, TimesOut, ShutdownWorker, WorkerClosed
  <1> QED
    BY <1>1, <1>2, <1>3, <1>4, <1>5, <1>6, <1>7, <1>8, <1>9, <1>10 DEF AppNext, StartStep

\* A server that was built is not NoServer, and Chosen is no Config.
LEMMA CopiedIsBuilt ==
    ASSUME NEW least \in Nat, CopiedFrom(least)
    PROVE  server # NoServer
  <1>1. DOMAIN server = Fields
    BY DEF CopiedFrom
  <1>2. DOMAIN NoServer = {}
    BY DEF NoServer
  <1> QED
    BY <1>1, <1>2, AppServerAssumption

\* Where the Config and the server stay as they are, and nobody gets past a
\* Bind that was not.
LEMMA ConfigStays ==
    ASSUME ConfigReaches, UNCHANGED <<cfg, server, srvCopied, handed>>, HasBound' => HasBound,
           \A p \in Starting : at'[p] = "apply" => at[p] = "apply",
           at'["serve"] \in {"idle", "serve"} \/ at["serve"] \notin {"idle", "serve"} \/ server # NoServer
    PROVE  ConfigReaches'
  <1>1. CopiedFrom(0)' = CopiedFrom(0) /\ CopiedFrom(1)' = CopiedFrom(1)
    BY DEF CopiedFrom
  <1> QED
    BY <1>1 DEF ConfigReaches

\* Server builds the server from the Config there is.
LEMMA ServerReaches ==
    ASSUME AppInv, Server, UNCHANGED <<cfg, handed>>, HasBound' => HasBound,
           \A p \in Starting : at'[p] = "apply" => at[p] = "apply"
    PROVE  ConfigReaches'
  <1> USE AppServerAssumption DEF AppInv, AppTypeOK
  <1>1. CASE server # NoServer
    <2>1. UNCHANGED <<cfg, server, srvCopied, handed>>
      BY <1>1 DEF Server
    <2> QED
      BY <1>1, <2>1, ConfigStays
  <1>2. CASE server = NoServer
    <2>1. handed = {} /\ handed' = {}
      BY <1>2 DEF ConfigReaches
    <2>2. server' = [f \in Fields |-> cfg] /\ srvCopied' = [f \in Fields |-> cfg]
      BY <1>2 DEF Server, serverFieldsOf
    <2>3. server' = [f \in Fields |-> IF f \in handed' THEN Chosen ELSE cfg]
      BY <2>1, <2>2
    <2>4. CopiedFrom(0)' /\ (cfg >= 1 => CopiedFrom(1)')
      BY <2>2, <2>3 DEF CopiedFrom
    <2>5. DOMAIN server' = Fields /\ DOMAIN NoServer = {}
      BY <2>2 DEF NoServer
    <2> QED
      BY <2>1, <2>4, <2>5 DEF ConfigReaches
  <1> QED
    BY <1>1, <1>2

\* A caller sets a field of the server there is.
LEMMA SetReaches ==
    ASSUME AppInv, NEW f \in Fields, server # NoServer, server' = [server EXCEPT ![f] = Chosen],
           handed' = handed \cup {f}, UNCHANGED <<cfg, srvCopied, srvSettled, at>>
    PROVE  ConfigReaches'
  <1>1. ASSUME NEW least \in Nat, CopiedFrom(least) PROVE CopiedFrom(least)'
    <2>1. PICK c \in least..MaxStarts : /\ srvCopied = [g \in Fields |-> c]
                                        /\ server = [g \in Fields |-> IF g \in handed THEN Chosen ELSE c]
      BY <1>1 DEF CopiedFrom
    <2>2. server' = [g \in Fields |-> IF g \in handed' THEN Chosen ELSE c] /\ srvCopied' = [g \in Fields |-> c]
      BY <2>1
    <2> QED
      BY <2>2 DEF CopiedFrom
  <1>2. CopiedFrom(0) /\ CopiedFrom(0)' /\ HasBound' = HasBound
    BY <1>1 DEF AppInv, ConfigReaches, HasBound
  <1>3. DOMAIN server' = Fields /\ DOMAIN NoServer = {}
    BY <1>2 DEF CopiedFrom, NoServer
  <1> QED
    BY <1>1, <1>2, <1>3, AppServerAssumption DEF AppInv, ConfigReaches

\* applyBoundServer writes what was bound onto every field it may.
LEMMA ApplyReaches ==
    ASSUME AppInv, NEW p \in Starting, ApplyBound(p)
    PROVE  ConfigReaches'
  <1> USE DEF Starting, Stopping, Go
  <1>0. cfg \in 1..MaxStarts /\ MaxStarts \in Nat /\ UNCHANGED <<cfg, handed>>
    BY AppServerAssumption DEF AppInv, AppTypeOK, ConfigReaches, ApplyBound
  <1>a. at'["serve"] = at["serve"] /\ \A q \in Starting : at'[q] = "apply" => at[q] = "apply"
    BY DEF ApplyBound, AppInv, AppTypeOK
  <1>1. CASE server = NoServer
    <2>1. UNCHANGED <<server, srvCopied>>
      BY <1>1 DEF ApplyBound, applyBoundServer, Final
    <2> QED
      BY <1>0, <1>a, <1>1, <2>1 DEF AppInv, ConfigReaches
  <1>2. CASE server # NoServer /\ srvSettled
    <2>1. UNCHANGED <<server, srvCopied>> /\ HasBound
      BY <1>2 DEF ApplyBound, applyBoundServer, Final, HasBound
    <2> QED
      BY <1>0, <1>a, <2>1, ConfigStays DEF AppInv
  <1>3. CASE server # NoServer /\ ~srvSettled
    <2>1. /\ server' = [f \in Fields |-> IF Untouched(f) THEN cfg ELSE server[f]]
          /\ srvCopied' = [f \in Fields |-> cfg]
      BY <1>3 DEF ApplyBound, applyBoundServer, Final, serverFieldsOf
    <2>2. PICK c \in 0..MaxStarts : /\ srvCopied = [f \in Fields |-> c]
                                    /\ server = [f \in Fields |-> IF f \in handed THEN Chosen ELSE c]
      BY <1>3 DEF AppInv, ConfigReaches, CopiedFrom
    <2>3. \A f \in Fields : Untouched(f) <=> f \notin handed
      BY <2>2, AppServerAssumption DEF Untouched, Chosen
    <2>4. server' = [f \in Fields |-> IF f \in handed' THEN Chosen ELSE cfg]
      BY <2>1, <2>2, <2>3, <1>0
    <2>5. CopiedFrom(0)' /\ CopiedFrom(1)'
      BY <2>1, <2>4, <1>0 DEF CopiedFrom
    <2>6. DOMAIN server' = Fields /\ DOMAIN NoServer = {}
      BY <2>1 DEF NoServer
    <2> QED
      BY <1>0, <2>5, <2>6, AppServerAssumption DEF ConfigReaches
  <1> QED
    BY <1>1, <1>2, <1>3

\* Every step of the App keeps what its server is configured with.
LEMMA ConfigStep == ASSUME AppInv, AppNext PROVE ConfigReaches'
  <1>0. ConfigReaches /\ at \in [Starting \cup Stopping \cup {"serve"} -> AppLabels]
    BY DEF AppInv, AppTypeOK
  <1> USE DEF Starting, Stopping, Go
  <1>1. ASSUME NEW p \in Starting, StartApp(p) PROVE ConfigReaches'
    <2>1. /\ UNCHANGED <<cfg, server, srvCopied, handed, srvSettled>> /\ at'["serve"] = at["serve"]
          /\ \A q \in Starting : at'[q] \in {"apply", "event"} => at'[q] = at[q]
      BY <1>1, <1>0 DEF StartApp, configVars
    <2> QED
      BY <2>1, <1>0, ConfigStays DEF HasBound
  <1>2. ASSUME NEW p \in Starting, AppInitServices(p) \/ AppMigrates(p) \/ TakeHooks(p) \/ HooksDone(p) PROVE ConfigReaches'
    <2>1. /\ UNCHANGED <<cfg, server, srvCopied, handed, srvSettled>> /\ at'["serve"] = at["serve"]
          /\ \A q \in Starting : at'[q] \in {"apply", "event"} => at'[q] = at[q]
      BY <1>2, <1>0 DEF AppInitServices, AppMigrates, TakeHooks, HooksDone, configVars
    <2> QED
      BY <2>1, <1>0, ConfigStays DEF HasBound
  <1>3. ASSUME NEW p \in Starting, BindConfig(p) PROVE ConfigReaches'
    <2>1. /\ UNCHANGED <<server, srvCopied, handed, srvSettled>> /\ at'["serve"] = at["serve"]
          /\ \A q \in Starting : at'[q] = "event" => at[q] = "event"
      BY <1>3, <1>0 DEF BindConfig
    <2>2. cfg' >= 1
      BY <1>3 DEF BindConfig, AppInv, AppTypeOK, InStart
    <2>3. CopiedFrom(0)' = CopiedFrom(0) /\ CopiedFrom(1)' = CopiedFrom(1) /\ (HasBound' => HasBound)
      BY <2>1 DEF CopiedFrom, HasBound
    <2> QED
      BY <2>1, <2>2, <2>3, <1>0 DEF ConfigReaches
  <1>4. ASSUME NEW p \in Starting, AppStarted(p) PROVE ConfigReaches'
    <2>1. /\ UNCHANGED <<cfg, server, srvCopied, handed, srvSettled>> /\ HasBound
          /\ at'["serve"] \in {at["serve"], "serve"}
          /\ \A q \in Starting : at'[q] = "apply" => at[q] = "apply"
      BY <1>4, <1>0 DEF AppStarted, configVars, HasBound
    <2> QED
      BY <2>1, <1>0, ConfigStays
  <1>5. ASSUME NEW p \in Starting, AppStartFails(p) PROVE ConfigReaches'
    <2>1. /\ UNCHANGED <<cfg, server, srvCopied, handed, srvSettled>> /\ at'["serve"] = at["serve"]
          /\ \A q \in Starting : at'[q] \in {"apply", "event"} => at'[q] = at[q]
      BY <1>5, <1>0 DEF AppStartFails, configVars
    <2> QED
      BY <2>1, <1>0, ConfigStays DEF HasBound
  <1>6. ASSUME NEW p \in Starting, InitUsesServer(p) PROVE ConfigReaches'
    <2>1. Server /\ UNCHANGED <<cfg, handed, srvSettled, at>>
      BY <1>6 DEF InitUsesServer
    <2> QED
      BY <2>1, ServerReaches DEF HasBound
  <1>7. ASSUME NEW p \in Starting, NEW f \in Fields, InitSetsField(p, f) \/ SubscriberSets(p, f) PROVE ConfigReaches'
    BY <1>7, SetReaches DEF InitSetsField, SubscriberSets
  <1>8. ASSUME \/ \E p \in Starting, h \in Hooks : RunHook(p, h)
               \/ \E h \in Hooks : ReadyFunc(h)
               \/ \E r \in AppRequests : Arrive(r) \/ Respond(r)
               \/ Signal
        PROVE  ConfigReaches'
    <2>1. UNCHANGED <<cfg, server, srvCopied, handed, srvSettled, at>>
      BY <1>8 DEF RunHook, ReadyFunc, Arrive, Respond, Signal, configVars
    <2> QED
      BY <2>1, <1>0, ConfigStays DEF HasBound
  <1>9. ASSUME Serve PROVE ConfigReaches'
    <2>1. /\ Server /\ UNCHANGED <<cfg, handed, srvSettled>> /\ HasBound
          /\ \A q \in Starting : at'[q] = at[q]
      BY <1>9, <1>0 DEF Serve, HasBound
    <2> QED
      BY <2>1, ServerReaches
  <1>10. ASSUME Settle \/ Listen \/ ServeEnds PROVE ConfigReaches'
    <2>1. /\ UNCHANGED <<cfg, server, srvCopied, handed>> /\ HasBound
          /\ at["serve"] \in {"settle", "listen", "serving"}
          /\ \A q \in Starting : at'[q] = at[q]
      BY <1>10, <1>0 DEF Settle, Listen, ServeEnds, configVars, HasBound
    <2> QED
      BY <2>1, <1>0, ConfigStays
  <1>11. ASSUME RunSelects \/ StopCalled PROVE ConfigReaches'
    <2>1. /\ UNCHANGED <<cfg, server, srvCopied, handed, srvSettled>> /\ at'["serve"] = at["serve"]
          /\ \A q \in Starting : at'[q] \in {"apply", "event"} => at'[q] = at[q]
      BY <1>11, <1>0 DEF RunSelects, StopCalled, configVars
    <2> QED
      BY <2>1, <1>0, ConfigStays DEF HasBound
  <1>12. ASSUME NEW p \in Stopping, Stop(p) PROVE ConfigReaches'
    <2>1. /\ Server /\ UNCHANGED <<cfg, handed, srvSettled>> /\ at'["serve"] = at["serve"]
          /\ \A q \in Starting : at'[q] \in {"apply", "event"} => at'[q] = at[q]
      BY <1>12, <1>0 DEF Stop
    <2> QED
      BY <2>1, ServerReaches DEF HasBound
  <1>13. ASSUME NEW p \in Stopping, ShutdownServer(p) \/ DrainEnds(p) \/ ShutdownWorker(p) \/ WorkerClosed(p)
        PROVE  ConfigReaches'
    <2>1. /\ UNCHANGED <<cfg, server, srvCopied, handed, srvSettled>> /\ at'["serve"] = at["serve"]
          /\ \A q \in Starting : at'[q] \in {"apply", "event"} => at'[q] = at[q]
      BY <1>13, <1>0 DEF ShutdownServer, DrainEnds, ShutdownWorker, WorkerClosed, configVars
    <2> QED
      BY <2>1, <1>0, ConfigStays DEF HasBound
  <1> QED
    BY <1>1, <1>2, <1>3, <1>4, <1>5, <1>6, <1>7, <1>8, <1>9, <1>10, <1>11, <1>12, <1>13, ApplyReaches
       DEF AppNext, StartStep, StopStep

\* What Run serves with, before what and until when (app.go, Run, Serve, Stop
\* and applyBoundServer; worker.go, ReadyFunc): once the server goroutine
\* listens, every field of the server is what the caller set it to or what one
\* Bind wrote; every hook ReadyFunc took has run; and services are closed under
\* a request only when it outlived ShutdownTimeout.
THEOREM ServerIsHeld == AppSpec => []ServerHolds
  <1>1. AppInit => AppInv
    BY InitApp
  <1>2. AppInv /\ [AppNext]_appVars => AppInv'
    <2>1. AppInv /\ UNCHANGED appVars => AppInv'
      BY DEF appVars, AppInv, AppTypeOK, ConfigReaches, HasBound, CopiedFrom, HooksGo, DrainsFirst, InStart
    <2>2. AppInv /\ AppNext => AppInv'
      BY AppTypes, ConfigStep, HooksStep, DrainStep DEF AppInv
    <2> QED
      BY <2>1, <2>2
  <1>3. AppInv => ServerHolds
    <2> SUFFICES ASSUME AppInv PROVE ServerHolds
      OBVIOUS
    <2>1. ServedAsConfigured
      <3>1. Begun => server # NoServer /\ HasBound
        BY DEF AppInv, ConfigReaches, Begun, HasBound
      <3>2. Begun => CopiedFrom(1)
        BY <3>1 DEF AppInv, ConfigReaches
      <3> QED
        BY <3>2 DEF ServedAsConfigured, CopiedFrom
    <2>2. HooksAreRun
      BY DEF AppInv, HooksGo, HooksAreRun, Starting
    <2>3. ServicesOutliveRequests
      BY DEF AppInv, DrainsFirst, ServicesOutliveRequests
    <2> QED
      BY <2>1, <2>2, <2>3 DEF ServerHolds
  <1> QED
    BY <1>1, <1>2, <1>3, PTL DEF AppSpec
(***************************************************************************)
(* API keys: what was given is what is read back, until it ends            *)
(***************************************************************************)
AllScopes == ScopeLists \cup {<< >>, <<"">>} \cup {cleanStringSlice(s) : s \in ScopeLists}
KeyRecords ==
    [id : KeyIds, subject : KeySubjects, scopes : AllScopes, until : Int, deleted : Int, used : BOOLEAN]
GivenKeys ==
    [subject : KeySubjects \cup {"none"}, scopes : AllScopes, until : Int,
     fate : {"none", "open", "kept", "lost"}]
Verdicts ==
    [key : KeyIds \cup {"none"}, scopes : AllScopes, seen : Nat,
     answer : {"none", "accepted", "ErrUnauthenticated", "ErrCredentialsExpired"}]

KeyTypeOK ==
    /\ keyRows \in [KeyIds -> KeyRecords \cup {NoRow}] /\ txRows \in [KeyIds -> KeyRecords \cup {NoRow}]
    /\ txOpen \in BOOLEAN /\ tick \in Nat /\ touched \subseteq KeyIds
    /\ given \in [KeyIds -> GivenKeys]
    /\ checked \in [KeyCallers -> KeyRecords \cup {NoRow}]
    /\ verdict \in [KeyCallers -> Verdicts]
    /\ driver \in {"postgres", "mysql", "sqlite"}

\* A row is what the adapter makes of the key g that Generate answered.
AsGiven(g, k, row) ==
    row # NoRow =>
        /\ g.fate \in {"open", "kept"} /\ g.scopes \in ScopeLists
        /\ row.id = k /\ row.subject = g.subject /\ row.scopes = adapter.scopesIn[g.scopes]
        /\ row.until = timeOf(g.until)

\* What is committed was given for good, and without a transaction there is
\* nothing else.
TablesHold ==
    /\ \A k \in KeyIds : AsGiven(given[k], k, keyRows[k]) /\ AsGiven(given[k], k, txRows[k])
    /\ \A k \in KeyIds : keyRows[k] # NoRow => given[k].fate = "kept"
    /\ ~txOpen => txRows = keyRows /\ touched = {} /\ \A k \in KeyIds : given[k].fate # "open"
    /\ \A k \in KeyIds : given[k].until >= 0 \/ given[k].until = NoExpiry

\* What a caller is told, or will be, of the key it has presented.
InTime(v) == given[v.key].until # NoExpiry => v.seen <= given[v.key].until + (IF driver = "mysql" THEN 1 ELSE 0)
VerdictHolds(c) ==
    LET v == verdict[c] IN
    /\ checked[c] # NoRow => checked[c].id = v.key /\ v.answer = "none"
    /\ checked[c] # NoRow \/ v.answer = "accepted" => v.key \in KeyIds /\ given[v.key].fate = "kept" /\ InTime(v)
    /\ v.answer = "ErrCredentialsExpired" =>
           v.key \in KeyIds /\ given[v.key].fate = "kept" /\ v.seen + 2 > given[v.key].until

KeyInv == KeyTypeOK /\ TablesHold /\ \A c \in KeyCallers : VerdictHolds(c)

\* Every database reads back the scopes that were asked for, cleaned.
LEMMA AdapterReads ==
    ASSUME driver \in {"postgres", "mysql", "sqlite"}, NEW s \in ScopeLists
    PROVE  /\ (IF driver = "postgres" THEN adapter.scopesIn[s] ELSE splitCommas(adapter.scopesIn[s]))
                   = cleanStringSlice(s)
           /\ adapter.scopesIn[s] \in AllScopes
  <1>1. CASE driver = "postgres"
    <2>1. adapter.scopesIn[s] = cleanStringSlice(s)
      BY <1>1 DEF adapter, postgresAdapter
    <2> QED
      BY <1>1, <2>1 DEF AllScopes
  <1>2. CASE driver \in {"mysql", "sqlite"}
    <2>1. adapter.scopesIn[s] = joinCommas(s)
      BY <1>2 DEF adapter, mysqlAdapter, sqliteAdapter
    <2>2. splitCommas(adapter.scopesIn[s]) = cleanStringSlice(s) /\ driver # "postgres"
      BY <1>2, <2>1, CleanListsStay DEF splitCommas
    <2>3. joinCommas(s) \in AllScopes
      BY DEF joinCommas, AllScopes
    <2> QED
      BY <2>1, <2>2, <2>3
  <1> QED
    BY <1>1, <1>2

\* MySQL keeps a time up to half a second more, SQLite up to half a second
\* less.
LEMMA AdapterTimes ==
    ASSUME driver \in {"postgres", "mysql", "sqlite"}, NEW t \in Nat
    PROVE  /\ adapter.time[t] \in Nat /\ adapter.time[t] <= t + (IF driver = "mysql" THEN 1 ELSE 0)
           /\ adapter.time[t] + 1 >= t
  <1>1. /\ ((t + 1) \div 2) * 2 \in Nat /\ ((t + 1) \div 2) * 2 <= t + 1 /\ ((t + 1) \div 2) * 2 >= t
        /\ (t \div 2) * 2 \in Nat /\ (t \div 2) * 2 <= t /\ (t \div 2) * 2 >= t - 1
    OBVIOUS
  <1>2. CASE driver = "postgres"
    <2>1. adapter.time[t] = t
      BY <1>2 DEF adapter, postgresAdapter
    <2> QED
      BY <1>2, <2>1
  <1>3. CASE driver = "mysql"
    <2>1. adapter.time[t] = ((t + 1) \div 2) * 2
      BY <1>3 DEF adapter, mysqlAdapter
    <2> QED
      BY <1>1, <1>3, <2>1
  <1>4. CASE driver = "sqlite"
    <2>1. adapter.time[t] = (t \div 2) * 2
      BY <1>4 DEF adapter, sqliteAdapter, formatSQLiteTime
    <2> QED
      BY <1>1, <1>4, <2>1
  <1> QED
    BY <1>2, <1>3, <1>4

\* The expiry of a row, as a caller meets it.
LEMMA RowsEndInTime ==
    ASSUME KeyInv, NEW k \in KeyIds, keyRows[k] # NoRow
    PROVE  LET until == keyRows[k].until
               promised == given[k].until
           IN /\ until \in Int /\ promised \in Int
              /\ until = NoExpiry <=> promised = NoExpiry
              /\ until # NoExpiry => until <= promised + (IF driver = "mysql" THEN 1 ELSE 0) /\ until + 1 >= promised
  <1>1. given[k].until \in Int /\ (given[k].until >= 0 \/ given[k].until = NoExpiry) /\ keyRows[k].until = timeOf(given[k].until)
    BY DEF KeyInv, KeyTypeOK, TablesHold, AsGiven, GivenKeys
  <1>2. CASE given[k].until = NoExpiry
    BY <1>1, <1>2 DEF timeOf, NoExpiry
  <1>3. CASE given[k].until \in Nat
    <2>1. keyRows[k].until = adapter.time[given[k].until] /\ given[k].until # NoExpiry
      BY <1>1, <1>3 DEF timeOf, NoExpiry
    <2>2. driver \in {"postgres", "mysql", "sqlite"}
      BY DEF KeyInv, KeyTypeOK
    <2> QED
      BY <2>1, <2>2, <1>3, AdapterTimes DEF NoExpiry
  <1> QED
    BY <1>1, <1>2, <1>3

\* The first keys, none.
LEMMA InitKeys == KeyInit => KeyInv
  <1> SUFFICES ASSUME KeyInit PROVE KeyInv
    OBVIOUS
  <1>1. NotGiven \in GivenKeys /\ NotGiven.fate = "none" /\ NotGiven.until = NoExpiry
    BY DEF NotGiven, GivenKeys, AllScopes, NoExpiry
  <1>2. NoVerdict \in Verdicts /\ NoVerdict.answer = "none"
    BY DEF NoVerdict, AllScopes, Verdicts
  <1>3. KeyTypeOK
    BY <1>1, <1>2 DEF KeyInit, KeyTypeOK
  <1>4. TablesHold
    BY <1>1 DEF KeyInit, TablesHold, AsGiven
  <1>5. \A c \in KeyCallers : VerdictHolds(c)
    BY <1>2 DEF KeyInit, VerdictHolds
  <1> QED
    BY <1>3, <1>4, <1>5 DEF KeyInv

\* What has been given for good stays as it was given.
LEMMA VerdictStays ==
    ASSUME KeyInv, NEW c \in KeyCallers, checked'[c] = checked[c], verdict'[c] = verdict[c], driver' = driver,
           \A k \in KeyIds : given[k].fate = "kept" => given'[k] = given[k]
    PROVE  VerdictHolds(c)'
  BY DEF KeyInv, VerdictHolds, InTime

\* A statement leaves the tables as they should be when every row it writes
\* is, and what was given changes for its rows alone.
LEMMA StatementHolds ==
    ASSUME KeyInv, NEW in \in BOOLEAN, in => txOpen, NEW ids \in SUBSET KeyIds, NEW to, Statement(in, ids, to),
           given' \in [KeyIds -> GivenKeys],
           \A k \in KeyIds : given'[k] = given[k] \/ (k \in ids /\ given[k].fate = "none"),
           \A k \in KeyIds : given'[k].until >= 0 \/ given'[k].until = NoExpiry,
           \A k \in KeyIds : given'[k].fate = "open" /\ given[k].fate # "open" => in,
           \A k \in ids : /\ to[k] \in KeyRecords \cup {NoRow} /\ AsGiven(given'[k], k, to[k])
                          /\ to[k] # NoRow /\ ~in => given'[k].fate = "kept"
    PROVE  /\ TablesHold' /\ driver' = driver /\ txOpen' = txOpen
           /\ keyRows' \in [KeyIds -> KeyRecords \cup {NoRow}] /\ txRows' \in [KeyIds -> KeyRecords \cup {NoRow}]
           /\ touched' \subseteq KeyIds
           /\ \A k \in KeyIds : given[k].fate = "kept" => given'[k] = given[k]
  <1>1. driver' = driver /\ txOpen' = txOpen
    BY DEF Statement
  <1>2. adapter' = adapter
    BY <1>1 DEF adapter
  <1>3. \A k \in KeyIds : given[k].fate = "none" => keyRows[k] = NoRow /\ txRows[k] = NoRow
    BY DEF KeyInv, TablesHold, AsGiven
  <1>4. \A k \in KeyIds : AsGiven(given'[k], k, keyRows[k]) /\ AsGiven(given'[k], k, txRows[k])
    BY <1>3 DEF KeyInv, TablesHold, AsGiven
  <1>5. /\ keyRows' \in [KeyIds -> KeyRecords \cup {NoRow}] /\ txRows' \in [KeyIds -> KeyRecords \cup {NoRow}]
        /\ touched' \subseteq KeyIds
    BY DEF Statement, WithTx, KeyInv, KeyTypeOK
  <1>6. \A k \in KeyIds : /\ keyRows'[k] = keyRows[k] \/ (~in /\ k \in ids /\ keyRows'[k] = to[k])
                          /\ txRows'[k] = txRows[k] \/ (k \in ids /\ txRows'[k] = to[k])
    BY DEF Statement, WithTx, KeyInv, KeyTypeOK
  <1>7. \A k \in KeyIds : AsGiven(given'[k], k, keyRows'[k]) /\ AsGiven(given'[k], k, txRows'[k])
    BY <1>4, <1>6
  <1>8. \A k \in KeyIds : AsGiven(given[k], k, keyRows[k])' /\ AsGiven(given[k], k, txRows[k])'
    BY <1>2, <1>7 DEF AsGiven, timeOf
  <1>9. \A k \in KeyIds : keyRows'[k] # NoRow => given'[k].fate = "kept"
    BY <1>3, <1>6 DEF KeyInv, TablesHold
  <1>10. ~txOpen => txRows' = keyRows' /\ touched' = {} /\ \A k \in KeyIds : given'[k].fate # "open"
    BY DEF Statement, WithTx, KeyInv, KeyTypeOK, TablesHold
  <1>11. \A k \in KeyIds : given[k].fate = "kept" => given'[k] = given[k]
    OBVIOUS
  <1> QED
    BY <1>1, <1>5, <1>8, <1>9, <1>10, <1>11 DEF TablesHold

\* A statement that is not Generate's, on rows that are there or go.
LEMMA ChangeHolds ==
    ASSUME KeyInv, NEW in \in BOOLEAN, in => txOpen, NEW ids \in SUBSET KeyIds, NEW to, Statement(in, ids, to),
           UNCHANGED <<given, tick, checked, verdict>>,
           \A k \in ids : \/ to[k] = NoRow
                          \/ /\ Rows(in)[k] # NoRow /\ to[k] \in KeyRecords
                             /\ to[k].id = Rows(in)[k].id /\ to[k].subject = Rows(in)[k].subject
                             /\ to[k].scopes = Rows(in)[k].scopes /\ to[k].until = Rows(in)[k].until
    PROVE  KeyInv'
  <1>1. \A k \in KeyIds : /\ AsGiven(given[k], k, Rows(in)[k])
                          /\ Rows(in)[k] # NoRow /\ ~in => given[k].fate = "kept"
    BY DEF Rows, WithTx, KeyInv, TablesHold
  <1>2. \A k \in ids : /\ to[k] \in KeyRecords \cup {NoRow} /\ AsGiven(given[k], k, to[k])
                       /\ to[k] # NoRow /\ ~in => given[k].fate = "kept"
    BY <1>1 DEF AsGiven
  <1>3. /\ given' = given /\ given \in [KeyIds -> GivenKeys]
        /\ \A k \in KeyIds : given[k].until >= 0 \/ given[k].until = NoExpiry
    BY DEF KeyInv, KeyTypeOK, TablesHold
  <1>4. /\ TablesHold' /\ driver' = driver /\ txOpen' = txOpen
        /\ keyRows' \in [KeyIds -> KeyRecords \cup {NoRow}] /\ txRows' \in [KeyIds -> KeyRecords \cup {NoRow}]
        /\ touched' \subseteq KeyIds
    BY <1>2, <1>3, StatementHolds
  <1>5. \A c \in KeyCallers : VerdictHolds(c)'
    BY <1>3, <1>4, VerdictStays
  <1> QED
    BY <1>3, <1>4, <1>5 DEF KeyInv, KeyTypeOK

\* Revocations, soft and hard.
LEMMA RevocationHolds ==
    ASSUME KeyInv, NEW in \in BOOLEAN, in => txOpen, NEW ids \in SUBSET KeyIds,
           SoftDelete(in, ids) \/ HardDelete(in, ids), UNCHANGED <<given, tick, checked, verdict>>
    PROVE  KeyInv'
  <1>0. Rows(in) \in [KeyIds -> KeyRecords \cup {NoRow}]
    BY DEF KeyInv, KeyTypeOK, Rows
  <1>1. CASE HardDelete(in, ids)
    <2> DEFINE to == [k \in ids |-> NoRow]
    <2>1. Statement(in, ids, to) /\ \A k \in ids : to[k] = NoRow
      BY <1>1 DEF HardDelete
    <2> HIDE DEF to
    <2> QED
      BY <2>1, ChangeHolds
  <1>2. CASE SoftDelete(in, ids)
    <2> DEFINE hit == NotYetDeleted(in, ids)
               to == [k \in hit |-> [Rows(in)[k] EXCEPT !.deleted = timeOf(tick)]]
    <2>1. Statement(in, hit, to)
      BY <1>2 DEF SoftDelete
    <2>2. timeOf(tick) \in Int
      BY AdapterTimes DEF KeyInv, KeyTypeOK, timeOf, NoExpiry
    <2>3. hit \in SUBSET KeyIds /\ \A k \in hit : Rows(in)[k] \in KeyRecords /\ Rows(in)[k] # NoRow
      BY <1>0 DEF NotYetDeleted
    <2>4. \A k \in hit : /\ to[k] \in KeyRecords
                         /\ to[k].id = Rows(in)[k].id /\ to[k].subject = Rows(in)[k].subject
                         /\ to[k].scopes = Rows(in)[k].scopes /\ to[k].until = Rows(in)[k].until
      BY <2>2, <2>3 DEF KeyRecords
    <2> HIDE DEF hit, to
    <2> QED
      BY <2>1, <2>3, <2>4, ChangeHolds
  <1> QED
    BY <1>1, <1>2

\* Generate, in a transaction or not.
LEMMA GenerateHolds ==
    ASSUME KeyInv, NEW in \in BOOLEAN, in => txOpen, NEW k \in KeyIds, Generate(in, k)
    PROVE  KeyInv'
  <1>1. PICK subject \in KeySubjects, scopes \in ScopeLists, ttl \in KeyTTLs :
          /\ given' = [given EXCEPT ![k] = [subject |-> subject, scopes |-> scopes, until |-> WithTTL(ttl),
                                            fate |-> IF in THEN "open" ELSE "kept"]]
          /\ Statement(in, {k}, [x \in {k} |->
                [id |-> k, subject |-> subject, scopes |-> adapter.scopesIn[scopes],
                 until |-> timeOf(WithTTL(ttl)), deleted |-> NotDeleted, used |-> FALSE]])
    BY DEF Generate
  <1>2. given[k].fate = "none" /\ UNCHANGED <<tick, checked, verdict>>
    BY DEF Generate, NotGiven
  <1> DEFINE g == [subject |-> subject, scopes |-> scopes, until |-> WithTTL(ttl),
                   fate |-> IF in THEN "open" ELSE "kept"]
             row == [id |-> k, subject |-> subject, scopes |-> adapter.scopesIn[scopes],
                     until |-> timeOf(WithTTL(ttl)), deleted |-> NotDeleted, used |-> FALSE]
             to == [x \in {k} |-> row]
  <1>3. driver \in {"postgres", "mysql", "sqlite"} /\ tick \in Nat /\ ttl \in Int /\ given \in [KeyIds -> GivenKeys]
    BY ApiKeysAssumption DEF KeyInv, KeyTypeOK
  <1>4. WithTTL(ttl) = NoExpiry \/ WithTTL(ttl) \in Nat
    BY <1>3 DEF WithTTL
  <1>5. timeOf(WithTTL(ttl)) \in Int
    BY <1>3, <1>4, AdapterTimes DEF timeOf, NoExpiry
  <1>6. WithTTL(ttl) \in Int /\ (WithTTL(ttl) >= 0 \/ WithTTL(ttl) = NoExpiry)
    BY <1>4 DEF NoExpiry
  <1>7. g \in GivenKeys /\ g.until = WithTTL(ttl) /\ g.scopes = scopes /\ g.subject = subject
        /\ g.fate = IF in THEN "open" ELSE "kept"
    BY <1>6 DEF GivenKeys, AllScopes
  <1>8. row \in KeyRecords
    BY <1>3, <1>5, AdapterReads DEF KeyRecords, NotDeleted
  <1>9. AsGiven(g, k, row)
    BY <1>7 DEF AsGiven
  <1>10. given' = [given EXCEPT ![k] = g] /\ Statement(in, {k}, to) /\ to[k] = row
    BY <1>1
  <1> HIDE DEF g, row, to
  <1>11. /\ given' \in [KeyIds -> GivenKeys] /\ given'[k] = g
         /\ \A x \in KeyIds : x # k => given'[x] = given[x]
    BY <1>3, <1>7, <1>10
  <1>12. \A x \in KeyIds : given'[x].until >= 0 \/ given'[x].until = NoExpiry
    BY <1>6, <1>7, <1>11 DEF KeyInv, TablesHold
  <1>13. /\ TablesHold' /\ driver' = driver /\ txOpen' = txOpen
         /\ keyRows' \in [KeyIds -> KeyRecords \cup {NoRow}] /\ txRows' \in [KeyIds -> KeyRecords \cup {NoRow}]
         /\ touched' \subseteq KeyIds
         /\ \A x \in KeyIds : given[x].fate = "kept" => given'[x] = given[x]
    BY <1>2, <1>7, <1>8, <1>9, <1>10, <1>11, <1>12, StatementHolds
  <1>14. \A c \in KeyCallers : VerdictHolds(c)'
    BY <1>2, <1>13, VerdictStays
  <1> QED
    BY <1>2, <1>11, <1>13, <1>14 DEF KeyInv, KeyTypeOK

\* Authenticate's first half: what it has read, it may tell.
LEMMA AuthenticateHolds ==
    ASSUME KeyInv, NEW c \in KeyCallers, NEW k \in KeyIds, Authenticate(c, k)
    PROVE  KeyInv'
  <1>1. /\ UNCHANGED <<driver, keyRows, txRows, touched, txOpen, given, tick>> /\ checked[c] = NoRow /\ tick \in Nat
        /\ keyRows[k] \in KeyRecords \cup {NoRow} /\ KeyTypeOK
    BY DEF Authenticate, KeyInv, KeyTypeOK
  <1>2. TablesHold'
    <2>1. adapter' = adapter
      BY <1>1 DEF adapter
    <2> QED
      BY <1>1, <2>1 DEF KeyInv, TablesHold, AsGiven, timeOf
  <1>3. ASSUME NEW answer \in {"ErrUnauthenticated", "ErrCredentialsExpired"}, NEW new,
               new = [NoVerdict EXCEPT !.key = k, !.seen = tick, !.answer = answer]
        PROVE  new \in Verdicts /\ new.key = k /\ new.seen = tick /\ new.answer = answer
    BY <1>1, <1>3 DEF NoVerdict, Verdicts, AllScopes
  <1>4. ASSUME NEW new, new = [NoVerdict EXCEPT !.key = k, !.seen = tick]
        PROVE  new \in Verdicts /\ new.key = k /\ new.seen = tick /\ new.answer = "none"
    BY <1>1, <1>4 DEF NoVerdict, Verdicts, AllScopes
  <1>5. ASSUME NEW new \in Verdicts, verdict' = [verdict EXCEPT ![c] = new], new.key = k, new.seen = tick,
               \/ checked' = checked /\ new.answer = "ErrUnauthenticated"
               \/ /\ checked' = checked /\ new.answer = "ErrCredentialsExpired"
                  /\ given[k].fate = "kept" /\ tick + 2 > given[k].until
               \/ \E row \in KeyRecords :
                     /\ checked' = [checked EXCEPT ![c] = row] /\ row.id = k /\ new.answer = "none"
                     /\ given[k].fate = "kept" /\ InTime(new)
        PROVE  KeyInv'
    <2>1. /\ checked' \in [KeyCallers -> KeyRecords \cup {NoRow}] /\ verdict' \in [KeyCallers -> Verdicts]
          /\ verdict'[c] = new /\ \A d \in KeyCallers : d # c => checked'[d] = checked[d] /\ verdict'[d] = verdict[d]
      BY <1>1, <1>5 DEF KeyTypeOK
    <2>2. \A d \in KeyCallers : d # c => VerdictHolds(d)'
      BY <1>1, <2>1, VerdictStays
    <2>3. checked'[c] # NoRow => checked'[c].id = k /\ new.answer = "none" /\ given[k].fate = "kept" /\ InTime(new)
      BY <1>1, <1>5 DEF KeyTypeOK
    <2>4. VerdictHolds(c)'
      <3>1. new.answer # "accepted"
        BY <1>5
      <3>2. new.answer = "ErrCredentialsExpired" => given[k].fate = "kept" /\ tick + 2 > given[k].until
        BY <1>5
      <3>3. InTime(new) => (given'[k].until # NoExpiry =>
                                tick <= given'[k].until + (IF driver' = "mysql" THEN 1 ELSE 0))
        BY <1>1, <1>5 DEF InTime
      <3> QED
        BY <1>1, <1>5, <2>1, <2>3, <3>1, <3>2, <3>3 DEF VerdictHolds, InTime
    <2>5. KeyTypeOK'
      BY <1>1, <2>1 DEF KeyTypeOK
    <2> QED
      BY <1>2, <2>2, <2>4, <2>5 DEF KeyInv
  <1>6. CASE keyRows[k] = NoRow \/ keyRows[k].deleted # NotDeleted
    <2>1. /\ verdict' = [verdict EXCEPT ![c] = [NoVerdict EXCEPT !.key = k, !.seen = tick,
                                                             !.answer = "ErrUnauthenticated"]]
          /\ checked' = checked
      BY <1>6 DEF Authenticate
    <2> QED
      BY <2>1, <1>3, <1>5
  <1>7. CASE keyRows[k] # NoRow /\ keyRows[k].deleted = NotDeleted
    <2> DEFINE row == keyRows[k]
    <2>1. given[k].fate = "kept" /\ given[k].scopes \in ScopeLists /\ row \in KeyRecords /\ row.id = k
          /\ row.scopes = adapter.scopesIn[given[k].scopes] /\ driver \in {"postgres", "mysql", "sqlite"}
      BY <1>1, <1>7 DEF KeyInv, TablesHold, AsGiven, KeyTypeOK
    <2>2. /\ row.until \in Int /\ given[k].until \in Int /\ (row.until = NoExpiry <=> given[k].until = NoExpiry)
          /\ row.until # NoExpiry => /\ row.until <= given[k].until + (IF driver = "mysql" THEN 1 ELSE 0)
                                     /\ row.until + 1 >= given[k].until
      BY <1>7, RowsEndInTime
    <2>3. CASE row.until # NoExpiry /\ tick > row.until
      <3>1. /\ verdict' = [verdict EXCEPT ![c] = [NoVerdict EXCEPT !.key = k, !.seen = tick,
                                                               !.answer = "ErrCredentialsExpired"]]
            /\ checked' = checked
        BY <1>7, <2>3 DEF Authenticate
      <3>2. \A r, g \in Int, n \in Nat : n > r /\ r + 1 >= g => n + 2 > g
        OBVIOUS
      <3>3. tick + 2 > given[k].until
        <4>1. row.until \in Int /\ given[k].until \in Int /\ tick \in Nat
          BY <1>1, <2>2
        <4>2. tick > row.until
          BY <2>3
        <4>3. row.until + 1 >= given[k].until
          BY <2>2, <2>3
        <4> HIDE DEF row
        <4> QED
          BY <4>1, <4>2, <4>3, <3>2
      <3> QED
        BY <2>1, <3>1, <3>3, <1>3, <1>5
    <2>4. CASE ~(row.until # NoExpiry /\ tick > row.until)
      <3>1. /\ verdict' = [verdict EXCEPT ![c] = [NoVerdict EXCEPT !.key = k, !.seen = tick]]
            /\ checked' = [checked EXCEPT ![c] = keyInfo(row)]
        BY <1>7, <2>4 DEF Authenticate
      <3>2. keyInfo(row) \in KeyRecords /\ keyInfo(row).id = k
        <4>1. cleanStringSlice(given[k].scopes) \in AllScopes
          BY <2>1 DEF AllScopes
        <4>2. (IF driver = "postgres" THEN row.scopes ELSE splitCommas(row.scopes)) \in AllScopes
          BY <2>1, <4>1, AdapterReads
        <4> QED
          BY <2>1, <4>2 DEF keyInfo, KeyRecords
      <3>3. given[k].until # NoExpiry => tick <= given[k].until + (IF driver = "mysql" THEN 1 ELSE 0)
        <4>1. \A r, g, h \in Int, n \in Nat : ~(n > r) /\ r <= g + h => n <= g + h
          OBVIOUS
        <4>2. (IF driver = "mysql" THEN 1 ELSE 0) \in Int
          OBVIOUS
        <4> QED
          <5>1. row.until \in Int /\ given[k].until \in Int /\ tick \in Nat
            BY <1>1, <2>2
          <5>2. given[k].until # NoExpiry => ~(tick > row.until)
            BY <2>2, <2>4
          <5>3. given[k].until # NoExpiry => row.until <= given[k].until + (IF driver = "mysql" THEN 1 ELSE 0)
            BY <2>2
          <5> HIDE DEF row
          <5> QED
            BY <5>1, <5>2, <5>3, <4>1, <4>2
      <3> DEFINE new == [NoVerdict EXCEPT !.key = k, !.seen = tick]
      <3>4. new \in Verdicts /\ new.key = k /\ new.seen = tick /\ new.answer = "none"
        BY <1>4
      <3>5. verdict' = [verdict EXCEPT ![c] = new]
        BY <3>1
      <3> HIDE DEF new
      <3>6. InTime(new)
        BY <3>3, <3>4 DEF InTime
      <3> QED
        BY <2>1, <3>1, <3>2, <3>4, <3>5, <3>6, <1>5
    <2> QED
      BY <2>3, <2>4
  <1> QED
    BY <1>1, <1>6, <1>7

\* Its second half: the key is marked used, or is gone, and the caller is told.
LEMMA AcceptHolds ==
    ASSUME KeyInv, NEW c \in KeyCallers, UpdateLastUsed(c)
    PROVE  KeyInv'
  <1> DEFINE k == checked[c].id
             hit == {x \in {k} : keyRows[x] # NoRow}
             to == [x \in hit |-> [keyRows[x] EXCEPT !.used = TRUE]]
  <1>1. /\ checked[c] \in KeyRecords /\ checked[c] # NoRow /\ verdict[c] \in Verdicts /\ verdict[c].key = k /\ k \in KeyIds
        /\ given[k].fate = "kept" /\ InTime(verdict[c]) /\ UNCHANGED <<given, tick>>
    BY DEF UpdateLastUsed, KeyInv, KeyTypeOK, VerdictHolds
  <1>2. Statement(FALSE, hit, to)
    BY DEF UpdateLastUsed
  <1>3. hit \in SUBSET KeyIds /\ \A x \in hit : keyRows[x] \in KeyRecords /\ keyRows[x] # NoRow
    BY <1>1 DEF KeyInv, KeyTypeOK
  <1>4. \A x \in hit : /\ to[x] \in KeyRecords /\ AsGiven(given[x], x, keyRows[x]) /\ given[x].fate = "kept"
                       /\ to[x].id = keyRows[x].id /\ to[x].subject = keyRows[x].subject
                       /\ to[x].scopes = keyRows[x].scopes /\ to[x].until = keyRows[x].until
    BY <1>3 DEF KeyRecords, KeyInv, TablesHold
  <1> HIDE DEF hit, to
  <1>5. /\ given' = given /\ given \in [KeyIds -> GivenKeys]
        /\ \A x \in KeyIds : given[x].until >= 0 \/ given[x].until = NoExpiry
    BY <1>1 DEF KeyInv, KeyTypeOK, TablesHold
  <1>6. \A x \in hit : AsGiven(given[x], x, to[x])
    BY <1>3, <1>4 DEF AsGiven
  <1>7. /\ TablesHold' /\ driver' = driver /\ txOpen' = txOpen
        /\ keyRows' \in [KeyIds -> KeyRecords \cup {NoRow}] /\ txRows' \in [KeyIds -> KeyRecords \cup {NoRow}]
        /\ touched' \subseteq KeyIds
    <2>1. \A x \in hit : to[x] \in KeyRecords \cup {NoRow} /\ AsGiven(given'[x], x, to[x]) /\ given'[x].fate = "kept"
      BY <1>4, <1>5, <1>6
    <2>2. given' \in [KeyIds -> GivenKeys] /\ \A x \in KeyIds : given'[x] = given[x]
      BY <1>5
    <2>3. \A x \in KeyIds : given'[x].until >= 0 \/ given'[x].until = NoExpiry
      BY <1>5
    <2> DEFINE in == FALSE
    <2>4. in \in BOOLEAN /\ ~in /\ Statement(in, hit, to)
      BY <1>2
    <2> HIDE DEF in
    <2> QED
      BY <2>1, <2>2, <2>3, <2>4, <1>3, StatementHolds
  <1>8. /\ checked' = [checked EXCEPT ![c] = NoRow]
        /\ verdict' = [verdict EXCEPT ![c].answer = "accepted", ![c].scopes = checked[c].scopes]
    BY DEF UpdateLastUsed
  <1>9. /\ checked' \in [KeyCallers -> KeyRecords \cup {NoRow}] /\ verdict' \in [KeyCallers -> Verdicts]
        /\ checked'[c] = NoRow /\ verdict'[c].key = verdict[c].key /\ verdict'[c].seen = verdict[c].seen
        /\ verdict'[c].answer = "accepted"
        /\ \A d \in KeyCallers : d # c => checked'[d] = checked[d] /\ verdict'[d] = verdict[d]
    BY <1>1, <1>8 DEF KeyInv, KeyTypeOK, KeyRecords, Verdicts
  <1>10. \A d \in KeyCallers : d # c => VerdictHolds(d)'
    BY <1>5, <1>7, <1>9, VerdictStays
  <1>11. VerdictHolds(c)'
    BY <1>1, <1>5, <1>7, <1>9 DEF VerdictHolds, InTime
  <1>12. KeyTypeOK'
    BY <1>1, <1>5, <1>7, <1>9 DEF KeyInv, KeyTypeOK
  <1> QED
    BY <1>7, <1>10, <1>11, <1>12 DEF KeyInv

\* What becomes of the keys given in a transaction.
Decided(fate) ==
    /\ given' \in [KeyIds -> GivenKeys]
    /\ \A k \in KeyIds : /\ given'[k].subject = given[k].subject /\ given'[k].scopes = given[k].scopes
                         /\ given'[k].until = given[k].until
                         /\ given'[k].fate = IF given[k].fate = "open" THEN fate ELSE given[k].fate
                         /\ given[k].fate # "open" => given'[k] = given[k]

\* The application's transaction begins, or is decided.
LEMMA TransactionHolds == ASSUME KeyInv, Begin \/ Commit \/ Rollback PROVE KeyInv'
  <1>1. UNCHANGED <<driver, tick, checked, verdict>> /\ adapter' = adapter
    BY DEF Begin, Commit, Rollback, adapter
  <1>2. ASSUME NEW fate \in {"kept", "lost"}, given' = Fates(fate) PROVE Decided(fate)
    <2>1. ASSUME NEW k \in KeyIds
          PROVE  /\ given'[k] \in GivenKeys
                 /\ given'[k].subject = given[k].subject /\ given'[k].scopes = given[k].scopes
                 /\ given'[k].until = given[k].until
                 /\ given'[k].fate = IF given[k].fate = "open" THEN fate ELSE given[k].fate
                 /\ given[k].fate # "open" => given'[k] = given[k]
      <3>1. /\ given[k] \in GivenKeys
            /\ given'[k] = IF given[k].fate = "open" THEN [given[k] EXCEPT !.fate = fate] ELSE given[k]
        BY <1>2 DEF Fates, KeyInv, KeyTypeOK
      <3>2. CASE given[k].fate = "open"
        BY <3>1, <3>2 DEF GivenKeys
      <3>3. CASE given[k].fate # "open"
        BY <3>1, <3>3
      <3> QED
        BY <3>2, <3>3
    <2>2. given' = [k \in KeyIds |-> given'[k]]
      BY <1>2 DEF Fates
    <2> QED
      BY <2>1, <2>2 DEF Decided
  <1>a. ASSUME NEW k \in KeyIds, NEW row, AsGiven(given[k], k, row), given'[k].subject = given[k].subject,
               given'[k].scopes = given[k].scopes, given'[k].until = given[k].until,
               row # NoRow => given'[k].fate \in {"open", "kept"}
        PROVE  AsGiven(given'[k], k, row)
    BY <1>a DEF AsGiven
  <1>b. ASSUME \A k \in KeyIds : AsGiven(given'[k], k, keyRows'[k]) /\ AsGiven(given'[k], k, txRows'[k])
        PROVE  \A k \in KeyIds : AsGiven(given[k], k, keyRows[k])' /\ AsGiven(given[k], k, txRows[k])'
    BY <1>1, <1>b DEF AsGiven, timeOf
  <1>c. \A k \in KeyIds : /\ AsGiven(given[k], k, keyRows[k]) /\ AsGiven(given[k], k, txRows[k])
                          /\ keyRows[k] # NoRow => given[k].fate = "kept"
                          /\ txRows[k] # NoRow => given[k].fate \in {"open", "kept"}
                          /\ given[k].until >= 0 \/ given[k].until = NoExpiry
    BY DEF KeyInv, TablesHold, AsGiven
  <1>3. TablesHold' /\ KeyTypeOK'
    <2>1. CASE Begin
      BY <1>1, <2>1 DEF Begin, KeyInv, KeyTypeOK, TablesHold, AsGiven, timeOf
    <2>2. CASE Commit
      <3>1. KeyTypeOK'
        BY <1>1, <1>2, <2>2 DEF Commit, KeyInv, KeyTypeOK, Decided
      <3>2. given' = Fates("kept")
        BY <2>2 DEF Commit
      <3>3. \A k \in KeyIds : keyRows'[k] \in {keyRows[k], txRows[k]} /\ txRows' = keyRows'
        BY <2>2 DEF Commit
      <3>4. \A k \in KeyIds : /\ given'[k].subject = given[k].subject /\ given'[k].scopes = given[k].scopes
                              /\ given'[k].until = given[k].until
                              /\ given'[k].fate = IF given[k].fate = "open" THEN "kept" ELSE given[k].fate
        BY <1>2, <3>2 DEF Decided
      <3>5. \A k \in KeyIds : /\ AsGiven(given'[k], k, keyRows'[k]) /\ AsGiven(given'[k], k, txRows'[k])
                              /\ keyRows'[k] # NoRow => given'[k].fate = "kept"
        BY <1>a, <1>c, <3>3, <3>4
      <3>6. \A k \in KeyIds : given'[k].fate # "open" /\ (given'[k].until >= 0 \/ given'[k].until = NoExpiry)
        BY <1>c, <3>4
      <3>7. txRows' = keyRows' /\ touched' = {}
        BY <2>2 DEF Commit
      <3> QED
        BY <1>b, <3>1, <3>5, <3>6, <3>7 DEF TablesHold
    <2>3. CASE Rollback
      <3>1. KeyTypeOK'
        BY <1>1, <1>2, <2>3 DEF Rollback, KeyInv, KeyTypeOK, Decided
      <3>2. given' = Fates("lost") /\ keyRows' = keyRows /\ txRows' = keyRows /\ touched' = {} /\ ~txOpen'
        BY <2>3 DEF Rollback
      <3>3. \A k \in KeyIds : /\ given'[k].subject = given[k].subject /\ given'[k].scopes = given[k].scopes
                              /\ given'[k].until = given[k].until
                              /\ given'[k].fate = IF given[k].fate = "open" THEN "lost" ELSE given[k].fate
        BY <1>2, <3>2 DEF Decided
      <3>4. \A k \in KeyIds : /\ AsGiven(given'[k], k, keyRows'[k]) /\ AsGiven(given'[k], k, txRows'[k])
                              /\ keyRows'[k] # NoRow => given'[k].fate = "kept"
        BY <1>a, <1>c, <3>2, <3>3
      <3>5. \A k \in KeyIds : given'[k].fate # "open" /\ (given'[k].until >= 0 \/ given'[k].until = NoExpiry)
        BY <1>c, <3>3
      <3> QED
        BY <1>b, <3>1, <3>2, <3>4, <3>5 DEF TablesHold
    <2> QED
      BY <2>1, <2>2, <2>3
  <1>4. \A k \in KeyIds : given[k].fate = "kept" => given'[k] = given[k]
    <2>1. given' = given \/ given' = Fates("kept") \/ given' = Fates("lost")
      BY DEF Begin, Commit, Rollback
    <2> QED
      BY <1>2, <2>1 DEF Decided
  <1>5. \A c \in KeyCallers : VerdictHolds(c)'
    BY <1>1, <1>4, VerdictStays
  <1> QED
    BY <1>3, <1>5 DEF KeyInv

\* Half a second passes.
LEMMA TickHolds == ASSUME KeyInv, HalfASecond \/ UNCHANGED keyVars PROVE KeyInv'
  <1>1. UNCHANGED <<driver, keyRows, txRows, touched, txOpen, given, checked, verdict>> /\ tick' \in Nat /\ adapter' = adapter
    BY DEF HalfASecond, keyVars, KeyInv, KeyTypeOK, adapter
  <1>2. TablesHold' /\ KeyTypeOK'
    BY <1>1 DEF KeyInv, TablesHold, KeyTypeOK, AsGiven, timeOf
  <1>3. \A c \in KeyCallers : VerdictHolds(c)'
    BY <1>1, VerdictStays
  <1> QED
    BY <1>2, <1>3 DEF KeyInv

\* What an API key promises on every database (apikey.go, Authenticate,
\* Generate and WithTx; apikey/db/adapters.go): it is read back with the scopes
\* and the subject it was given, it is accepted no later than it should be and
\* refused as expired no earlier, and not at all when the transaction that
\* generated it was rolled back.
THEOREM ApiKeysAreHeld == KeySpec => []KeysHold
  <1>1. KeyInit => KeyInv
    BY InitKeys
  <1>2. KeyInv /\ [KeyNext]_keyVars => KeyInv'
    <2> SUFFICES ASSUME KeyInv, [KeyNext]_keyVars PROVE KeyInv'
      OBVIOUS
    <2>1. ASSUME NEW in \in BOOLEAN, in => txOpen, NEW k \in KeyIds, Revoke(in, k) \/ Delete(in, k) PROVE KeyInv'
      BY <2>1, RevocationHolds DEF Revoke, Delete
    <2>2. ASSUME NEW in \in BOOLEAN, in => txOpen, NEW s \in KeySubjects,
                 RevokeAllByScheme(in, s, "apikey") \/ DeleteAll(in, s)
          PROVE  KeyInv'
      <3>1. Of(in, s) \in SUBSET KeyIds
        BY DEF Of
      <3> QED
        BY <2>2, <3>1, RevocationHolds DEF RevokeAllByScheme, RevokeAll, DeleteAll
    <2> QED
      BY <2>1, <2>2, GenerateHolds, AuthenticateHolds, AcceptHolds, TransactionHolds, TickHolds DEF KeyNext
  <1>3. KeyInv => KeysHold
    <2> SUFFICES ASSUME KeyInv PROVE KeysHold
      OBVIOUS
    <2>1. KeysReadBack
      <3> SUFFICES ASSUME NEW k \in KeyIds, keyRows[k] # NoRow
                   PROVE  /\ keyInfo(keyRows[k]).subject = given[k].subject
                          /\ keyInfo(keyRows[k]).scopes = cleanStringSlice(given[k].scopes)
        BY DEF KeysReadBack
      <3>1. /\ keyRows[k] \in KeyRecords /\ given[k].scopes \in ScopeLists /\ keyRows[k].subject = given[k].subject
            /\ keyRows[k].scopes = adapter.scopesIn[given[k].scopes] /\ driver \in {"postgres", "mysql", "sqlite"}
        BY DEF KeyInv, TablesHold, AsGiven, KeyTypeOK
      <3> QED
        BY <3>1, AdapterReads DEF keyInfo, KeyRecords
    <2>2. ExpiryIsKept /\ RolledBackIsRefused
      BY DEF KeyInv, VerdictHolds, InTime, ExpiryIsKept, RolledBackIsRefused
    <2> QED
      BY <2>1, <2>2 DEF KeysHold
  <1> QED
    BY <1>1, <1>2, <1>3, PTL DEF KeySpec
(***************************************************************************)
(* File sharing: answers are the owner's and fresh, rows have objects      *)
(***************************************************************************)
\* What may be left of a request of this kind.
LeftOf(purpose) ==
    {<< >>} \cup
    CASE purpose = "upload" -> {<<"put", "insert">>, <<"insert">>}
      [] purpose = "get" -> {<<"cache", "row", "fill">>, <<"row", "fill">>, <<"fill">>}
      [] purpose \in {"download", "lookup"} ->
           {<<"cache", "row", "presign", "fill">>, <<"row", "presign", "fill">>, <<"presign", "fill">>, <<"fill">>}
      [] purpose = "delete" -> {<<"row", "unstore", "unrow", "evict">>, <<"unstore", "unrow", "evict">>,
                             <<"unrow", "evict">>, <<"evict">>}
      [] purpose = "share" -> {<<"row", "create">>, <<"create">>}
      [] OTHER -> {}

RequestKinds == {"upload", "get", "download", "delete", "share", "lookup"}
CachedKinds == {"get", "download", "lookup"}
AllLefts == UNION {LeftOf(purpose) : purpose \in RequestKinds}
Calls ==
    [kind : RequestKinds \cup {"none"}, user : Users \cup {"none"}, file : SharedFiles \cup {"none"},
     left : AllLefts, since : Nat, url : Nat,
     status : {0, 200, 201, 204, 404, 410, 500}, at : Nat]

ShareTypeOK ==
    /\ minute \in Nat /\ minute > 0 /\ fileRows \subseteq SharedFiles
    /\ serving \in [RequestSlots -> Calls]
    /\ rowEnded \in [SharedFiles -> Nat]
    /\ \A f \in SharedFiles : rowEnded[f] <= minute
    /\ \A k \in DOMAIN cached : cached[k].until \in Nat /\ cached[k].url \in Nat

\* A deleted file does not come back.
RowsStayEnded == \A f \in fileRows : rowEnded[f] = 0

\* The request has found its row, so the owner's check is made.
PastRow(r) == Active(r) /\ Head(serving[r].left) \in {"presign", "fill", "unstore", "unrow", "evict", "create"}

\* At what a request tells of a deleted file, no more time has passed than the
\* request's and the cache's.
FreshUntil(purpose, f, t) == rowEnded[f] # 0 => t <= rowEnded[f] + RequestTicks + CachedFor(purpose)

RequestHolds(r) ==
    LET q == serving[r] IN
    /\ q.left \in LeftOf(q.kind)
    /\ q.kind # "none" => q.user \in Users /\ q.file \in SharedFiles
    /\ Active(r) => /\ q.kind # "none" /\ q.status = 0 /\ q.since <= minute /\ minute <= q.since + RequestTicks
    /\ q.kind = "upload" \/ (q.kind # "lookup" /\ (PastRow(r) \/ Succeeded(r))) => OwnerOf[q.file] = q.user
    /\ PastRow(r) => rowEnded[q.file] = 0 \/ rowEnded[q.file] >= q.since
    /\ PastRow(r) /\ Head(q.left) = "fill" /\ q.kind # "get" => q.url >= q.since + UrlTicks
    /\ Succeeded(r) => q.kind # "none"
    /\ q.status = 200 =>
          /\ q.kind \in {"download", "lookup"} => q.url > q.at
          /\ q.at <= minute /\ FreshUntil(q.kind, q.file, q.at)
    /\ q.kind = "upload" /\ Active(r) =>
          /\ rowEnded[q.file] = 0 /\ q.file \notin fileRows
          /\ Head(q.left) = "insert" => q.file \in objects \cup unstored

\* Two uploads at a time are of two files.
UploadsDiffer ==
    \A r, s \in RequestSlots :
        r # s /\ serving[r].kind = "upload" /\ Active(r) /\ serving[s].kind = "upload" /\ Active(s) =>
            serving[r].file # serving[s].file

\* An entry serves the user it was made for, as long as its URL works.
EntryHolds(k) ==
    \E purpose \in CachedKinds, user \in Users, f \in SharedFiles :
        /\ k = CacheKey(purpose, user, f)
        /\ purpose # "lookup" => OwnerOf[f] = user
        /\ cached[k].until <= minute + CachedFor(purpose)
        /\ purpose # "get" => cached[k].url >= cached[k].until
        /\ FreshUntil(purpose, f, cached[k].until)

ShareInv ==
    /\ ShareTypeOK /\ RowsStayEnded /\ RowsHaveObjects /\ UploadsDiffer
    /\ \A r \in RequestSlots : RequestHolds(r)
    /\ \A k \in DOMAIN cached : EntryHolds(k)

\* What is next of a request, and what comes after.
Continues(purpose, left) ==
    /\ Tail(left) \in LeftOf(purpose) /\ purpose \in RequestKinds
    /\ Head(left) = "cache" => purpose \in CachedKinds /\ Tail(left) # << >> /\ Head(Tail(left)) = "row"
    /\ Head(left) = "row" => /\ purpose # "upload" /\ Tail(left) # << >>
                             /\ Head(Tail(left)) \in {"presign", "fill", "unstore", "create"}
                             /\ Head(Tail(left)) = "fill" => purpose = "get"
    /\ Head(left) = "presign" => purpose \in CachedKinds \ {"get"} /\ Tail(left) # << >> /\ Head(Tail(left)) = "fill"
    /\ Head(left) = "fill" => purpose \in CachedKinds
    /\ Head(left) = "put" => Len(left) # 1 /\ Tail(left) # << >> /\ Head(Tail(left)) = "insert"
    /\ Head(left) = "insert" => Len(left) = 1
    /\ Head(left) = "unstore" => purpose = "delete" /\ Len(left) # 1 /\ Tail(left) # << >> /\ Head(Tail(left)) = "unrow"
    /\ Head(left) = "unrow" => purpose = "delete" /\ Len(left) # 1 /\ Tail(left) # << >> /\ Head(Tail(left)) = "evict"
    /\ Head(left) = "evict" => purpose = "delete" /\ Len(left) = 1
    /\ Head(left) = "create" => purpose = "share" /\ Len(left) = 1
    /\ Head(left) \in {"put", "insert"} <=> purpose = "upload"

\* Every step that is left of a request is followed by one that may be.
LEMMA NextStep == ASSUME NEW purpose, NEW left \in LeftOf(purpose), left # << >> PROVE Continues(purpose, left)
  <1>1. CASE purpose = "upload"
    <2>0. left \in {<<"put", "insert">>, <<"insert">>}
      BY <1>1 DEF LeftOf
    <2>1. CASE left = <<"put", "insert">>
      <3>1. Head(left) = "put" /\ Tail(left) = <<"insert">> /\ Len(left) # 1
        BY <2>1
      <3>2. <<"insert">> \in LeftOf(purpose) /\ <<"insert">> # << >> /\ Head(<<"insert">>) = "insert"
        BY <1>1 DEF LeftOf
      <3> QED
        BY <1>1, <3>1, <3>2 DEF Continues, RequestKinds, CachedKinds
    <2>2. CASE left = <<"insert">>
      <3>1. Head(left) = "insert" /\ Tail(left) = << >> /\ Len(left) = 1
        BY <2>2
      <3>2. << >> \in LeftOf(purpose)
        BY DEF LeftOf
      <3> QED
        BY <1>1, <3>1, <3>2 DEF Continues, RequestKinds, CachedKinds
    <2> QED
      BY <2>0, <2>1, <2>2
  <1>2. CASE purpose = "get"
    <2>0. left \in {<<"cache", "row", "fill">>, <<"row", "fill">>, <<"fill">>}
      BY <1>2 DEF LeftOf
    <2>1. CASE left = <<"cache", "row", "fill">>
      <3>1. Head(left) = "cache" /\ Tail(left) = <<"row", "fill">> /\ Len(left) # 1
        BY <2>1
      <3>2. <<"row", "fill">> \in LeftOf(purpose) /\ <<"row", "fill">> # << >> /\ Head(<<"row", "fill">>) = "row"
        BY <1>2 DEF LeftOf
      <3> QED
        BY <1>2, <3>1, <3>2 DEF Continues, RequestKinds, CachedKinds
    <2>2. CASE left = <<"row", "fill">>
      <3>1. Head(left) = "row" /\ Tail(left) = <<"fill">> /\ Len(left) # 1
        BY <2>2
      <3>2. <<"fill">> \in LeftOf(purpose) /\ <<"fill">> # << >> /\ Head(<<"fill">>) = "fill"
        BY <1>2 DEF LeftOf
      <3> QED
        BY <1>2, <3>1, <3>2 DEF Continues, RequestKinds, CachedKinds
    <2>3. CASE left = <<"fill">>
      <3>1. Head(left) = "fill" /\ Tail(left) = << >> /\ Len(left) = 1
        BY <2>3
      <3>2. << >> \in LeftOf(purpose)
        BY DEF LeftOf
      <3> QED
        BY <1>2, <3>1, <3>2 DEF Continues, RequestKinds, CachedKinds
    <2> QED
      BY <2>0, <2>1, <2>2, <2>3
  <1>3. CASE purpose \in {"download", "lookup"}
    <2>0. left \in {<<"cache", "row", "presign", "fill">>, <<"row", "presign", "fill">>, <<"presign", "fill">>, <<"fill">>}
      BY <1>3 DEF LeftOf
    <2>1. CASE left = <<"cache", "row", "presign", "fill">>
      <3>1. Head(left) = "cache" /\ Tail(left) = <<"row", "presign", "fill">> /\ Len(left) # 1
        BY <2>1
      <3>2. <<"row", "presign", "fill">> \in LeftOf(purpose) /\ <<"row", "presign", "fill">> # << >> /\ Head(<<"row", "presign", "fill">>) = "row"
        BY <1>3 DEF LeftOf
      <3> QED
        BY <1>3, <3>1, <3>2 DEF Continues, RequestKinds, CachedKinds
    <2>2. CASE left = <<"row", "presign", "fill">>
      <3>1. Head(left) = "row" /\ Tail(left) = <<"presign", "fill">> /\ Len(left) # 1
        BY <2>2
      <3>2. <<"presign", "fill">> \in LeftOf(purpose) /\ <<"presign", "fill">> # << >> /\ Head(<<"presign", "fill">>) = "presign"
        BY <1>3 DEF LeftOf
      <3> QED
        BY <1>3, <3>1, <3>2 DEF Continues, RequestKinds, CachedKinds
    <2>3. CASE left = <<"presign", "fill">>
      <3>1. Head(left) = "presign" /\ Tail(left) = <<"fill">> /\ Len(left) # 1
        BY <2>3
      <3>2. <<"fill">> \in LeftOf(purpose) /\ <<"fill">> # << >> /\ Head(<<"fill">>) = "fill"
        BY <1>3 DEF LeftOf
      <3> QED
        BY <1>3, <3>1, <3>2 DEF Continues, RequestKinds, CachedKinds
    <2>4. CASE left = <<"fill">>
      <3>1. Head(left) = "fill" /\ Tail(left) = << >> /\ Len(left) = 1
        BY <2>4
      <3>2. << >> \in LeftOf(purpose)
        BY DEF LeftOf
      <3> QED
        BY <1>3, <3>1, <3>2 DEF Continues, RequestKinds, CachedKinds
    <2> QED
      BY <2>0, <2>1, <2>2, <2>3, <2>4
  <1>4. CASE purpose = "delete"
    <2>0. left \in {<<"row", "unstore", "unrow", "evict">>, <<"unstore", "unrow", "evict">>, <<"unrow", "evict">>, <<"evict">>}
      BY <1>4 DEF LeftOf
    <2>1. CASE left = <<"row", "unstore", "unrow", "evict">>
      <3>1. Head(left) = "row" /\ Tail(left) = <<"unstore", "unrow", "evict">> /\ Len(left) # 1
        BY <2>1
      <3>2. <<"unstore", "unrow", "evict">> \in LeftOf(purpose) /\ <<"unstore", "unrow", "evict">> # << >> /\ Head(<<"unstore", "unrow", "evict">>) = "unstore"
        BY <1>4 DEF LeftOf
      <3> QED
        BY <1>4, <3>1, <3>2 DEF Continues, RequestKinds, CachedKinds
    <2>2. CASE left = <<"unstore", "unrow", "evict">>
      <3>1. Head(left) = "unstore" /\ Tail(left) = <<"unrow", "evict">> /\ Len(left) # 1
        BY <2>2
      <3>2. <<"unrow", "evict">> \in LeftOf(purpose) /\ <<"unrow", "evict">> # << >> /\ Head(<<"unrow", "evict">>) = "unrow"
        BY <1>4 DEF LeftOf
      <3> QED
        BY <1>4, <3>1, <3>2 DEF Continues, RequestKinds, CachedKinds
    <2>3. CASE left = <<"unrow", "evict">>
      <3>1. Head(left) = "unrow" /\ Tail(left) = <<"evict">> /\ Len(left) # 1
        BY <2>3
      <3>2. <<"evict">> \in LeftOf(purpose) /\ <<"evict">> # << >> /\ Head(<<"evict">>) = "evict"
        BY <1>4 DEF LeftOf
      <3> QED
        BY <1>4, <3>1, <3>2 DEF Continues, RequestKinds, CachedKinds
    <2>4. CASE left = <<"evict">>
      <3>1. Head(left) = "evict" /\ Tail(left) = << >> /\ Len(left) = 1
        BY <2>4
      <3>2. << >> \in LeftOf(purpose)
        BY DEF LeftOf
      <3> QED
        BY <1>4, <3>1, <3>2 DEF Continues, RequestKinds, CachedKinds
    <2> QED
      BY <2>0, <2>1, <2>2, <2>3, <2>4
  <1>5. CASE purpose = "share"
    <2>0. left \in {<<"row", "create">>, <<"create">>}
      BY <1>5 DEF LeftOf
    <2>1. CASE left = <<"row", "create">>
      <3>1. Head(left) = "row" /\ Tail(left) = <<"create">> /\ Len(left) # 1
        BY <2>1
      <3>2. <<"create">> \in LeftOf(purpose) /\ <<"create">> # << >> /\ Head(<<"create">>) = "create"
        BY <1>5 DEF LeftOf
      <3> QED
        BY <1>5, <3>1, <3>2 DEF Continues, RequestKinds, CachedKinds
    <2>2. CASE left = <<"create">>
      <3>1. Head(left) = "create" /\ Tail(left) = << >> /\ Len(left) = 1
        BY <2>2
      <3>2. << >> \in LeftOf(purpose)
        BY DEF LeftOf
      <3> QED
        BY <1>5, <3>1, <3>2 DEF Continues, RequestKinds, CachedKinds
    <2> QED
      BY <2>0, <2>1, <2>2
  <1>6. CASE purpose \notin RequestKinds
    BY <1>6 DEF LeftOf, RequestKinds
  <1> QED
    BY <1>1, <1>2, <1>3, <1>4, <1>5, <1>6 DEF RequestKinds

\* What every handler starts with.
LEMMA FirstStep ==
    ASSUME NEW purpose \in DOMAIN StepsOf
    PROVE  /\ purpose \in RequestKinds /\ StepsOf[purpose] \in LeftOf(purpose) /\ StepsOf[purpose] # << >>
           /\ Head(StepsOf[purpose]) \in {"put", "cache", "row"} /\ (Head(StepsOf[purpose]) = "put" <=> purpose = "upload")
  <1>1. purpose \in RequestKinds
    BY DEF StepsOf, RequestKinds
  <1> QED
    BY <1>1 DEF StepsOf, UploadSteps, RequestKinds, LeftOf

\* What a step of one request leaves to the others: a file goes, or comes that
\* no other request uploads; the storage may lose only what somebody deletes.
Around(r) ==
    /\ minute' = minute
    /\ \A f \in SharedFiles : \/ rowEnded'[f] = rowEnded[f]
                              \/ f \in fileRows /\ rowEnded'[f] = minute
    /\ \A s \in RequestSlots \ {r} : /\ serving'[s] = serving[s]
                                     /\ serving[s].kind = "upload" /\ Active(s) /\ serving[s].file \notin fileRows =>
                                            serving[s].file \notin fileRows'
    /\ objects \cup unstored \subseteq objects' \cup unstored'

\* The other requests learn nothing new of a step of r.
LEMMA OthersStay ==
    ASSUME ShareInv, NEW r \in RequestSlots, Around(r), NEW s \in RequestSlots, s # r
    PROVE  RequestHolds(s)'
  <1> PICK q : q = serving[s]
    OBVIOUS
  <1>1. /\ RequestHolds(s) /\ q \in Calls /\ minute \in Nat /\ rowEnded \in [SharedFiles -> Nat]
        /\ serving'[s] = q /\ minute' = minute
    BY DEF ShareInv, ShareTypeOK, Around
  <1>2. Active(s)' = Active(s) /\ PastRow(s)' = PastRow(s) /\ Succeeded(s)' = Succeeded(s)
    BY <1>1 DEF Active, PastRow, Succeeded
  <1>3. \A f \in SharedFiles : rowEnded'[f] = rowEnded[f] \/ (f \in fileRows /\ rowEnded[f] = 0 /\ rowEnded'[f] = minute)
    BY DEF Around, ShareInv, RowsStayEnded
  <1>4. RequestTicks \in Nat /\ CachedFor(q.kind) \in Nat
    BY FileSharingAssumption DEF CachedFor
  <1>5. q.kind # "none" => q.user \in Users /\ q.file \in SharedFiles
    BY <1>1 DEF RequestHolds
  <1>6. q.since \in Nat /\ q.at \in Nat /\ q.url \in Nat
    BY <1>1 DEF Calls
  <1>7. PastRow(s) => rowEnded'[q.file] = 0 \/ rowEnded'[q.file] >= q.since
    BY <1>1, <1>3, <1>5, <1>6 DEF RequestHolds, PastRow
  <1>8. q.status = 200 => /\ q.kind \in {"download", "lookup"} => q.url > q.at
                          /\ q.at <= minute'
                          /\ rowEnded'[q.file] # 0 => q.at <= rowEnded'[q.file] + RequestTicks + CachedFor(q.kind)
    BY <1>1, <1>3, <1>4, <1>5, <1>6 DEF RequestHolds, FreshUntil, Succeeded
  <1>9. q.kind = "upload" /\ Active(s) => /\ rowEnded'[q.file] = 0 /\ q.file \notin fileRows'
                                          /\ Head(q.left) = "insert" => q.file \in objects' \cup unstored'
    BY <1>1, <1>3, <1>5 DEF RequestHolds, Around
  <1>10. RequestHolds(s) => RequestHolds(s)'
    BY <1>1, <1>2, <1>7, <1>8, <1>9 DEF RequestHolds, FreshUntil
  <1> QED
    BY <1>1, <1>10

\* Entries outlive what the rows they were made from go through.
LEMMA EntriesStay ==
    ASSUME ShareInv, NEW k \in DOMAIN cached, minute' = minute, cached'[k] = cached[k],
           \A f \in SharedFiles : rowEnded'[f] = rowEnded[f] \/ rowEnded'[f] = minute
    PROVE  EntryHolds(k)' /\ cached'[k].until \in Nat /\ cached'[k].url \in Nat
  <1>1. PICK purpose \in CachedKinds, user \in Users, f \in SharedFiles :
          /\ k = CacheKey(purpose, user, f)
          /\ purpose # "lookup" => OwnerOf[f] = user
          /\ cached[k].until <= minute + CachedFor(purpose)
          /\ purpose # "get" => cached[k].url >= cached[k].until
          /\ FreshUntil(purpose, f, cached[k].until)
    BY DEF ShareInv, EntryHolds
  <1>2. cached[k].until \in Nat /\ cached[k].url \in Nat /\ minute \in Nat /\ rowEnded[f] \in Nat
    BY DEF ShareInv, ShareTypeOK
  <1>3. RequestTicks \in Nat /\ CachedFor(purpose) \in Nat
    BY FileSharingAssumption DEF CachedFor
  <1>4. rowEnded'[f] # 0 => cached[k].until <= rowEnded'[f] + RequestTicks + CachedFor(purpose)
    BY <1>1, <1>2, <1>3 DEF FreshUntil
  <1> QED
    BY <1>1, <1>2, <1>4 DEF EntryHolds, FreshUntil

\* A step of a request, once it is known what the request and the rows become.
LEMMA RequestMoves ==
    ASSUME ShareInv, NEW r \in RequestSlots, NEW new \in Calls, serving' = [serving EXCEPT ![r] = new],
           Around(r), RequestHolds(r)',
           new.kind = "upload" /\ new.left # << >> =>
               \A s \in RequestSlots \ {r} : serving[s].kind = "upload" /\ Active(s) => serving[s].file # new.file,
           fileRows' \subseteq SharedFiles, rowEnded' \in [SharedFiles -> Nat], RowsStayEnded', RowsHaveObjects',
           \A k \in DOMAIN cached' : EntryHolds(k)' /\ cached'[k].until \in Nat /\ cached'[k].url \in Nat
    PROVE  ShareInv'
  <1>1. \A s \in RequestSlots : RequestHolds(s)'
    BY OthersStay
  <1>2. serving' \in [RequestSlots -> Calls] /\ serving'[r] = new /\ \A s \in RequestSlots : s # r => serving'[s] = serving[s]
    BY DEF ShareInv, ShareTypeOK
  <1>3. ShareTypeOK'
    BY <1>2 DEF ShareInv, ShareTypeOK, Around
  <1>4. UploadsDiffer'
    BY <1>2 DEF ShareInv, UploadsDiffer, Active
  <1> QED
    BY <1>1, <1>3, <1>4 DEF ShareInv

\* A step that touches the request alone.
LEMMA OnlyServing ==
    ASSUME ShareInv, NEW r \in RequestSlots, NEW new \in Calls, serving' = [serving EXCEPT ![r] = new],
           UNCHANGED <<minute, fileRows, objects, cached, rowEnded, unstored>>, RequestHolds(r)',
           new.kind = "upload" /\ new.left # << >> =>
               \A s \in RequestSlots \ {r} : serving[s].kind = "upload" /\ Active(s) => serving[s].file # new.file
    PROVE  ShareInv'
  <1>1. Around(r)
    BY DEF Around, ShareInv, ShareTypeOK
  <1>2. \A k \in DOMAIN cached' : EntryHolds(k)' /\ cached'[k].until \in Nat /\ cached'[k].url \in Nat
    BY EntriesStay
  <1>3. /\ fileRows' \subseteq SharedFiles /\ rowEnded' \in [SharedFiles -> Nat] /\ RowsStayEnded' /\ RowsHaveObjects'
    BY DEF ShareInv, ShareTypeOK, RowsStayEnded, RowsHaveObjects
  <1> QED
    BY <1>1, <1>2, <1>3, RequestMoves

\* What a request is but for its kind, its user, its file and its start.
LEMMA CallBecomes ==
    ASSUME NEW q \in Calls, NEW left \in AllLefts, NEW status \in {0, 200, 201, 204, 404, 410, 500}, NEW url \in Nat,
           NEW time \in Nat, NEW new, DOMAIN new = DOMAIN q, new = [x \in DOMAIN new |-> new[x]],
           new.left = left, new.status = status, new.url = url, new.at = time, new.kind = q.kind, new.user = q.user,
           new.file = q.file, new.since = q.since
    PROVE  new \in Calls
  <1>1. q \in Calls
    OBVIOUS
  <1>2. new = [kind |-> q.kind, user |-> q.user, file |-> q.file, left |-> left, since |-> q.since, url |-> url,
               status |-> status, at |-> time]
    BY <1>1 DEF Calls
  <1>3. [kind |-> q.kind, user |-> q.user, file |-> q.file, left |-> left, since |-> q.since, url |-> url,
         status |-> status, at |-> time] \in Calls
    BY DEF Calls
  <1> QED
    BY <1>2, <1>3

\* The request that has an answer.
LEMMA AnswerHolds ==
    ASSUME ShareInv, NEW r \in RequestSlots, Active(r), NEW status \in {200, 201, 204, 404, 410, 500}, NEW url \in Nat,
           Answers(r, status, url), minute' = minute,
           status \in {200, 201, 204} /\ serving[r].kind # "lookup" => OwnerOf[serving[r].file] = serving[r].user,
           status = 200 => /\ serving[r].kind \in {"download", "lookup"} => url > minute
                           /\ rowEnded'[serving[r].file] # 0 =>
                                  minute <= rowEnded'[serving[r].file] + RequestTicks + CachedFor(serving[r].kind)
    PROVE  \E new \in Calls : /\ serving' = [serving EXCEPT ![r] = new] /\ new.left = << >>
                              /\ RequestHolds(r)'
  <1> PICK q : q = serving[r]
    OBVIOUS
  <1> DEFINE new == [q EXCEPT !.left = << >>, !.status = status, !.url = url, !.at = minute]
  <1>1. q \in Calls /\ minute \in Nat /\ minute > 0 /\ RequestHolds(r) /\ serving \in [RequestSlots -> Calls] /\ << >> \in LeftOf("get")
    BY DEF ShareInv, ShareTypeOK, LeftOf
  <1>2. << >> \in AllLefts /\ << >> \in LeftOf(q.kind)
    BY DEF LeftOf, RequestKinds, AllLefts
  <1>3. new \in Calls /\ new.left = << >> /\ new.status = status /\ new.url = url /\ new.at = minute /\ new.kind = q.kind
        /\ new.user = q.user /\ new.file = q.file /\ new.since = q.since
    <2>1. new.left = << >> /\ new.status = status /\ new.url = url /\ new.at = minute /\ new.kind = q.kind
          /\ new.user = q.user /\ new.file = q.file /\ new.since = q.since
      BY <1>1 DEF Calls
    <2>2. DOMAIN new = DOMAIN q /\ new = [x \in DOMAIN new |-> new[x]]
      OBVIOUS
    <2> HIDE DEF new
    <2> QED
      BY <1>1, <1>2, <2>1, <2>2, CallBecomes
  <1>4. serving' = [serving EXCEPT ![r] = new]
    <2>1. serving' = [serving EXCEPT ![r] = [serving[r] EXCEPT !.left = << >>, !.status = status, !.url = url,
                                                              !.at = minute]]
      BY <1>1 DEF Answers
    <2> QED
      BY <2>1
  <1> HIDE DEF new
  <1>5. serving'[r] = new
    BY <1>1, <1>4
  <1>6. ~Active(r)' /\ ~PastRow(r)' /\ q.kind # "none" /\ q.user \in Users /\ q.file \in SharedFiles
    BY <1>1, <1>3, <1>5 DEF Active, PastRow, RequestHolds
  <1>7. q.kind = "upload" \/ (q.kind # "lookup" /\ Succeeded(r)') => OwnerOf[q.file] = q.user
    BY <1>1, <1>3, <1>5 DEF RequestHolds, Succeeded
  <1>8. new.status = 200 =>
            /\ new.kind \in {"download", "lookup"} => new.url > new.at
            /\ new.at <= minute'
            /\ rowEnded'[new.file] # 0 => new.at <= rowEnded'[new.file] + RequestTicks + CachedFor(new.kind)
    <2>1. status = 200 => /\ q.kind \in {"download", "lookup"} => url > minute
                          /\ rowEnded'[q.file] # 0 => minute <= rowEnded'[q.file] + RequestTicks + CachedFor(q.kind)
      OBVIOUS
    <2> QED
      BY <1>1, <1>3, <2>1
  <1>9. RequestHolds(r)'
    BY <1>2, <1>3, <1>5, <1>6, <1>7, <1>8 DEF RequestHolds, FreshUntil
  <1> QED
    BY <1>3, <1>4, <1>9

\* The request goes on, as it is but for its URL.
Advances(q, new) ==
    /\ DOMAIN new = DOMAIN q /\ new = [x \in DOMAIN new |-> new[x]]
    /\ new.left = Tail(q.left) /\ new.status = q.status /\ new.at = q.at /\ new.kind = q.kind
    /\ new.user = q.user /\ new.file = q.file /\ new.since = q.since

\* A request that goes on to its next step.
LEMMA GoesOnHolds ==
    ASSUME ShareInv, NEW r \in RequestSlots, Active(r), NEW new, Advances(serving[r], new), new.url \in Nat,
           serving' = [serving EXCEPT ![r] = new], minute' = minute,
           PastRow(r)' => /\ serving[r].kind # "lookup" => OwnerOf[serving[r].file] = serving[r].user
                          /\ rowEnded'[serving[r].file] = 0 \/ rowEnded'[serving[r].file] >= serving[r].since
                          /\ Head(Tail(serving[r].left)) = "fill" /\ serving[r].kind # "get" =>
                                 new.url >= serving[r].since + UrlTicks,
           serving[r].kind = "upload" =>
               /\ rowEnded'[serving[r].file] = 0 /\ serving[r].file \notin fileRows'
               /\ Head(Tail(serving[r].left)) = "insert" => serving[r].file \in objects' \cup unstored'
    PROVE  new \in Calls /\ RequestHolds(r)'
  <1> PICK q : q = serving[r]
    OBVIOUS
  <1> DEFINE url == new.url
  <1>1. q \in Calls /\ minute \in Nat /\ RequestHolds(r) /\ serving \in [RequestSlots -> Calls] /\ q.left # << >>
    BY DEF ShareInv, ShareTypeOK, Active
  <1>2. Continues(q.kind, q.left)
    BY <1>1, NextStep DEF RequestHolds
  <1>3. Tail(q.left) \in LeftOf(q.kind) /\ q.kind \in RequestKinds /\ Tail(q.left) \in AllLefts
    BY <1>2 DEF Continues, AllLefts
  <1>4. new \in Calls /\ new.left = Tail(q.left) /\ new.status = q.status /\ new.at = q.at /\ new.kind = q.kind
        /\ new.user = q.user /\ new.file = q.file /\ new.since = q.since
    <2>1. q.status \in {0, 200, 201, 204, 404, 410, 500} /\ q.at \in Nat
      BY <1>1 DEF Calls
    <2> QED
      BY <1>1, <1>3, <2>1, CallBecomes DEF Advances
  <1>6. serving'[r] = new
    BY <1>1
  <1>7. /\ q.kind # "none" /\ q.status = 0 /\ q.since <= minute /\ minute <= q.since + RequestTicks
        /\ q.user \in Users /\ q.file \in SharedFiles /\ ~Succeeded(r)' /\ (q.kind = "upload" => OwnerOf[q.file] = q.user)
    BY <1>1, <1>4, <1>6 DEF RequestHolds, Succeeded, RequestKinds
  <1>8. PastRow(r)' => /\ q.kind # "lookup" => OwnerOf[q.file] = q.user
                       /\ rowEnded'[q.file] = 0 \/ rowEnded'[q.file] >= q.since
                       /\ Head(new.left) = "fill" /\ q.kind # "get" => url >= q.since + UrlTicks
    BY <1>4
  <1>9. q.kind = "upload" => /\ rowEnded'[q.file] = 0 /\ q.file \notin fileRows'
                             /\ Head(new.left) = "insert" => q.file \in objects' \cup unstored'
    BY <1>4
  <1>a. q.kind = "upload" \/ (q.kind # "lookup" /\ (PastRow(r)' \/ Succeeded(r)')) => OwnerOf[q.file] = q.user
    BY <1>7, <1>8
  <1>b. new.left \in LeftOf(new.kind) /\ new.status = 0 /\ new.since <= minute' /\ minute' <= new.since + RequestTicks
    BY <1>3, <1>4, <1>7
  <1>10. RequestHolds(r)'
    <2> PICK o : o = serving'[r]
      OBVIOUS
    <2>1. o = new
      BY <1>6
    <2>2. /\ o.left \in LeftOf(o.kind)
          /\ o.kind # "none" => o.user \in Users /\ o.file \in SharedFiles
          /\ Active(r)' => /\ o.kind # "none" /\ o.status = 0 /\ o.since <= minute' /\ minute' <= o.since + RequestTicks
      BY <2>1, <1>4, <1>7, <1>b
    <2>3. o.kind = "upload" \/ (o.kind # "lookup" /\ (PastRow(r)' \/ Succeeded(r)')) => OwnerOf[o.file] = o.user
      BY <2>1, <1>4, <1>a
    <2>4. /\ PastRow(r)' => rowEnded'[o.file] = 0 \/ rowEnded'[o.file] >= o.since
          /\ PastRow(r)' /\ Head(o.left) = "fill" /\ o.kind # "get" => o.url >= o.since + UrlTicks
      BY <2>1, <1>4, <1>8
    <2>5. (Succeeded(r)' => o.kind # "none") /\ o.status # 200
      BY <2>1, <1>4, <1>7
    <2>6. o.kind = "upload" => /\ rowEnded'[o.file] = 0 /\ o.file \notin fileRows'
                               /\ Head(o.left) = "insert" => o.file \in objects' \cup unstored'
      BY <2>1, <1>4, <1>9
    <2> QED
      BY <2>2, <2>3, <2>4, <2>5, <2>6 DEF RequestHolds
  <1> QED
    BY <1>4, <1>10

\* GoesOn leaves the URL as it is.
LEMMA GoesOnAdvances ==
    ASSUME ShareInv, NEW r \in RequestSlots, GoesOn(r)
    PROVE  \E new : Advances(serving[r], new) /\ new.url = serving[r].url /\ serving' = [serving EXCEPT ![r] = new]
  <1> PICK q : q = serving[r]
    OBVIOUS
  <1> DEFINE new == [q EXCEPT !.left = Tail(@)]
  <1>1. q \in Calls
    BY DEF ShareInv, ShareTypeOK
  <1>2. new.left = Tail(q.left) /\ new.status = q.status /\ new.at = q.at /\ new.kind = q.kind
        /\ new.user = q.user /\ new.file = q.file /\ new.since = q.since /\ new.url = q.url
    BY <1>1 DEF Calls
  <1>3. DOMAIN new = DOMAIN q /\ new = [x \in DOMAIN new |-> new[x]]
    OBVIOUS
  <1>4. serving' = [serving EXCEPT ![r] = new]
    BY DEF GoesOn
  <1> HIDE DEF new
  <1> QED
    BY <1>2, <1>3, <1>4 DEF Advances

\* Where a request is, and what it knows.
LEMMA AtStep ==
    ASSUME ShareInv, NEW r \in RequestSlots, NEW step, At(r, step)
    PROVE  LET q == serving[r] IN
           /\ Active(r) /\ Head(q.left) = step /\ Continues(q.kind, q.left) /\ q \in Calls
           /\ q.kind \in RequestKinds /\ q.user \in Users /\ q.file \in SharedFiles /\ q.since \in Nat /\ q.url \in Nat
           /\ q.since <= minute /\ minute <= q.since + RequestTicks
  <1>1. serving[r] \in Calls /\ RequestHolds(r) /\ Active(r) /\ Head(serving[r].left) = step
    BY DEF ShareInv, ShareTypeOK, At
  <1>2. serving[r].left \in LeftOf(serving[r].kind) /\ serving[r].left # << >>
    BY <1>1 DEF RequestHolds, Active
  <1>3. Continues(serving[r].kind, serving[r].left)
    BY <1>2, NextStep
  <1> QED
    BY <1>1, <1>3 DEF RequestHolds, Calls, Continues, RequestKinds

\* A new request.
LEMMA TakeHolds ==
    ASSUME ShareInv, NEW r \in RequestSlots, NEW purpose \in DOMAIN StepsOf, NEW user \in Users, NEW file \in SharedFiles,
           TakesRequest(r, purpose, user, file)
    PROVE  ShareInv'
  <1> DEFINE new == [Idle EXCEPT !.kind = purpose, !.user = user, !.file = file, !.left = StepsOf[purpose], !.since = minute]
  <1>1. /\ purpose \in RequestKinds /\ StepsOf[purpose] \in LeftOf(purpose) /\ StepsOf[purpose] # << >>
        /\ Head(StepsOf[purpose]) \in {"put", "cache", "row"}
    BY FirstStep
  <1>2. StepsOf[purpose] \in AllLefts /\ minute \in Nat /\ serving \in [RequestSlots -> Calls]
    BY <1>1 DEF AllLefts, ShareInv, ShareTypeOK
  <1>3. new = [kind |-> purpose, user |-> user, file |-> file, left |-> StepsOf[purpose], since |-> minute, url |-> 0,
               status |-> 0, at |-> 0]
    <2>1. /\ new.kind = purpose /\ new.user = user /\ new.file = file /\ new.left = StepsOf[purpose] /\ new.since = minute
          /\ new.url = 0 /\ new.status = 0 /\ new.at = 0
      BY DEF Idle
    <2>2. /\ DOMAIN new = {"kind", "user", "file", "left", "since", "url", "status", "at"}
          /\ new = [x \in DOMAIN new |-> new[x]]
      BY DEF Idle
    <2> HIDE DEF new
    <2> QED
      BY <2>1, <2>2
  <1>4. serving' = [serving EXCEPT ![r] = new] /\ UNCHANGED <<minute, fileRows, objects, cached, rowEnded, unstored>>
    BY DEF TakesRequest
  <1>5. purpose = "upload" => /\ user = OwnerOf[file] /\ rowEnded[file] = 0 /\ file \notin fileRows
                              /\ \A s \in RequestSlots : serving[s].kind = "upload" => serving[s].file # file
    BY DEF TakesRequest
  <1> HIDE DEF new
  <1>6. /\ new.kind = purpose /\ new.user = user /\ new.file = file /\ new.left = StepsOf[purpose] /\ new.since = minute
        /\ new.url = 0 /\ new.status = 0 /\ new.at = 0
    BY <1>3
  <1>7. new \in Calls
    <2>1. 0 \in {0, 200, 201, 204, 404, 410, 500} /\ 0 \in Nat
      OBVIOUS
    <2> QED
      BY <1>1, <1>2, <1>3, <2>1 DEF Calls
  <1>8. serving'[r] = new
    BY <1>2, <1>4
  <1>9. ~PastRow(r)' /\ ~Succeeded(r)' /\ minute <= minute + RequestTicks
    BY <1>1, <1>2, <1>6, <1>8, FileSharingAssumption DEF PastRow, Succeeded
  <1>10. RequestHolds(r)'
    <2> PICK o : o = serving'[r]
      OBVIOUS
    <2>1. o = new
      BY <1>8
    <2>2. /\ o.left \in LeftOf(o.kind) /\ o.user \in Users /\ o.file \in SharedFiles
          /\ o.kind # "none" /\ o.status = 0 /\ o.since <= minute' /\ minute' <= o.since + RequestTicks
      BY <2>1, <1>1, <1>2, <1>4, <1>6, <1>9 DEF RequestKinds
    <2>3. o.kind = "upload" => /\ OwnerOf[o.file] = o.user /\ rowEnded'[o.file] = 0 /\ o.file \notin fileRows'
                               /\ Head(o.left) # "insert"
      BY <2>1, <1>1, <1>4, <1>5, <1>6
    <2>4. o.status # 200
      BY <2>2
    <2> QED
      BY <2>2, <2>3, <2>4, <1>9 DEF RequestHolds
  <1> QED
    BY <1>4, <1>5, <1>6, <1>7, <1>10, OnlyServing

\* The cache has an answer, or the request goes on to the row.
LEMMA CacheHolds == ASSUME ShareInv, NEW r \in RequestSlots, ReadsCache(r) PROVE ShareInv'
  <1> PICK q : q = serving[r]
    OBVIOUS
  <1> DEFINE key == CacheKey(q.kind, q.user, q.file)
             entry == Entry(key)
  <1>1. /\ Active(r) /\ Head(q.left) = "cache" /\ Continues(q.kind, q.left) /\ q.file \in SharedFiles /\ q.url \in Nat
        /\ q.user \in Users /\ q.kind \in CachedKinds /\ Head(Tail(q.left)) = "row" /\ minute \in Nat
    BY AtStep DEF ReadsCache, Continues, ShareInv, ShareTypeOK
  <1>2. UNCHANGED <<minute, fileRows, objects, cached, rowEnded, unstored>>
    BY DEF ReadsCache
  <1>3. CASE entry.until > minute /\ Answers(r, 200, entry.url)
    <2>1. key \in DOMAIN cached /\ entry = cached[key]
      BY <1>1, <1>3 DEF Entry, Absent
    <2>2. PICK purpose \in CachedKinds, user \in Users, f \in SharedFiles :
            /\ key = CacheKey(purpose, user, f)
            /\ purpose # "lookup" => OwnerOf[f] = user
            /\ purpose # "get" => cached[key].url >= cached[key].until
            /\ FreshUntil(purpose, f, cached[key].until)
      BY <2>1 DEF ShareInv, EntryHolds
    <2>3. purpose = q.kind /\ f = q.file /\ (purpose # "lookup" => user = q.user)
      BY <2>2 DEF CacheKey
    <2>4. entry.until \in Nat /\ entry.url \in Nat /\ rowEnded[q.file] \in Nat
      BY <2>1, <1>1 DEF ShareInv, ShareTypeOK
    <2>5. RequestTicks \in Nat /\ CachedFor(q.kind) \in Nat
      BY FileSharingAssumption DEF CachedFor
    <2>6. rowEnded'[q.file] # 0 => minute <= rowEnded'[q.file] + RequestTicks + CachedFor(q.kind)
      BY <1>1, <1>2, <1>3, <2>1, <2>2, <2>3, <2>4, <2>5 DEF FreshUntil
    <2>7. q.kind \in {"download", "lookup"} => entry.url > minute
      BY <1>1, <1>3, <2>1, <2>2, <2>3, <2>4
    <2>8. q.kind # "lookup" => OwnerOf[q.file] = q.user
      BY <2>2, <2>3
    <2> HIDE DEF entry, key
    <2>9. PICK new \in Calls : /\ serving' = [serving EXCEPT ![r] = new] /\ new.left = << >> /\ RequestHolds(r)'
      BY <1>1, <1>2, <1>3, <2>4, <2>6, <2>7, <2>8, AnswerHolds
    <2> QED
      BY <1>2, <2>9, OnlyServing
  <1>4. CASE GoesOn(r)
    <2>1. PICK new : Advances(q, new) /\ new.url = q.url /\ serving' = [serving EXCEPT ![r] = new]
      BY <1>4, GoesOnAdvances
    <2>2. ~PastRow(r)' /\ q.kind # "upload"
      BY <1>1, <2>1 DEF PastRow, Advances, ShareInv, ShareTypeOK, CachedKinds
    <2>3. new \in Calls /\ RequestHolds(r)' /\ new.kind = q.kind
      BY <1>1, <1>2, <2>1, <2>2, GoesOnHolds DEF Advances
    <2> QED
      BY <1>2, <2>1, <2>2, <2>3, OnlyServing
  <1> QED
    BY <1>3, <1>4 DEF ReadsCache

\* The row is there and the request may go on, or it is refused.
LEMMA RowHolds == ASSUME ShareInv, NEW r \in RequestSlots, ReadsRow(r) PROVE ShareInv'
  <1> PICK q : q = serving[r]
    OBVIOUS
  <1>1. /\ Active(r) /\ Head(q.left) = "row" /\ Continues(q.kind, q.left) /\ q.file \in SharedFiles /\ q.url \in Nat
        /\ q.kind # "upload" /\ (Head(Tail(q.left)) = "fill" => q.kind = "get")
    BY AtStep DEF ReadsRow, Continues
  <1>2. UNCHANGED <<minute, fileRows, objects, cached, rowEnded, unstored>>
    BY DEF ReadsRow
  <1>3. CASE GoesOn(r) /\ q.file \in fileRows /\ (q.kind # "lookup" => OwnerOf[q.file] = q.user)
    <2>1. PICK new : Advances(q, new) /\ new.url = q.url /\ serving' = [serving EXCEPT ![r] = new]
      BY <1>3, GoesOnAdvances
    <2>2. rowEnded'[q.file] = 0
      BY <1>2, <1>3 DEF ShareInv, RowsStayEnded
    <2>3. new \in Calls /\ RequestHolds(r)' /\ new.kind = q.kind
      BY <1>1, <1>2, <1>3, <2>1, <2>2, GoesOnHolds DEF Advances
    <2> QED
      BY <1>1, <1>2, <2>1, <2>3, OnlyServing
  <1>4. CASE Answers(r, 404, 0) \/ Answers(r, 410, 0)
    <2>1. PICK new \in Calls : /\ serving' = [serving EXCEPT ![r] = new] /\ new.left = << >> /\ RequestHolds(r)'
      BY <1>1, <1>2, <1>4, AnswerHolds
    <2> QED
      BY <1>2, <2>1, OnlyServing
  <1> QED
    BY <1>3, <1>4 DEF ReadsRow, ReadsShare

\* A URL is signed, or the request fails.
LEMMA PresignHolds == ASSUME ShareInv, NEW r \in RequestSlots, Presigns(r) PROVE ShareInv'
  <1> PICK q : q = serving[r]
    OBVIOUS
  <1>1. /\ Active(r) /\ Head(q.left) = "presign" /\ Continues(q.kind, q.left) /\ q.file \in SharedFiles /\ q \in Calls
        /\ q.kind \in CachedKinds \ {"get"} /\ q.since \in Nat /\ q.since <= minute /\ minute \in Nat
        /\ UrlTicks \in Nat /\ RequestHolds(r) /\ PastRow(r)
    BY AtStep, FileSharingAssumption DEF Presigns, Continues, ShareInv, ShareTypeOK, PastRow
  <1>2. UNCHANGED <<minute, fileRows, objects, cached, rowEnded, unstored>>
    BY DEF Presigns
  <1>3. CASE serving' = [serving EXCEPT ![r].left = Tail(@), ![r].url = minute + UrlTicks]
    <2> DEFINE new == [q EXCEPT !.left = Tail(@), !.url = minute + UrlTicks]
    <2>1. new.left = Tail(q.left) /\ new.status = q.status /\ new.at = q.at /\ new.kind = q.kind
          /\ new.user = q.user /\ new.file = q.file /\ new.since = q.since /\ new.url = minute + UrlTicks
      BY <1>1 DEF Calls
    <2>2. DOMAIN new = DOMAIN q /\ new = [x \in DOMAIN new |-> new[x]]
      OBVIOUS
    <2>3. serving' = [serving EXCEPT ![r] = new]
      BY <1>3
    <2> HIDE DEF new
    <2>4. Advances(q, new) /\ new.url \in Nat /\ new.url >= q.since + UrlTicks
      BY <1>1, <2>1, <2>2 DEF Advances
    <2>5. /\ q.kind # "lookup" => OwnerOf[q.file] = q.user
          /\ rowEnded'[q.file] = 0 \/ rowEnded'[q.file] >= q.since
      BY <1>1, <1>2 DEF RequestHolds
    <2>6. new \in Calls /\ RequestHolds(r)'
      BY <1>1, <1>2, <2>3, <2>4, <2>5, GoesOnHolds DEF CachedKinds
    <2>7. new.kind # "upload"
      BY <1>1, <2>1 DEF CachedKinds
    <2> QED
      BY <1>2, <2>3, <2>6, <2>7, OnlyServing
  <1>4. CASE Answers(r, 500, 0)
    <2>1. PICK new \in Calls : /\ serving' = [serving EXCEPT ![r] = new] /\ new.left = << >> /\ RequestHolds(r)'
      BY <1>1, <1>2, <1>4, AnswerHolds
    <2> QED
      BY <1>2, <2>1, OnlyServing
  <1> QED
    BY <1>3, <1>4 DEF Presigns

\* The answer is cached, or the cache fails; it is given either way.
LEMMA FillHolds == ASSUME ShareInv, NEW r \in RequestSlots, FillsCache(r) PROVE ShareInv'
  <1> PICK q : q = serving[r]
    OBVIOUS
  <1> DEFINE key == CacheKey(q.kind, q.user, q.file)
             entry == [until |-> minute + CachedFor(q.kind), url |-> q.url]
  <1>1. /\ Active(r) /\ Head(q.left) = "fill" /\ q.file \in SharedFiles /\ q.user \in Users /\ q \in Calls /\ q.url \in Nat
        /\ q.kind \in CachedKinds /\ q.since \in Nat /\ q.since <= minute /\ minute <= q.since + RequestTicks
        /\ RequestHolds(r) /\ PastRow(r)
    BY AtStep DEF FillsCache, Continues, ShareInv, PastRow
  <1>2. UNCHANGED <<minute, fileRows, objects, rowEnded, unstored>> /\ Answers(r, 200, q.url)
    BY DEF FillsCache
  <1>3. /\ q.kind # "lookup" => OwnerOf[q.file] = q.user
        /\ rowEnded[q.file] = 0 \/ rowEnded[q.file] >= q.since
        /\ q.kind # "get" => q.url >= q.since + UrlTicks
    BY <1>1 DEF RequestHolds, CachedKinds
  <1>4. /\ RequestTicks \in Nat /\ UrlTicks \in Nat /\ UrlCacheTicks \in Nat /\ UrlCacheTicks > 0
        /\ UrlCacheTicks + RequestTicks <= UrlTicks /\ CachedFor(q.kind) \in Nat
        /\ q.kind # "get" => CachedFor(q.kind) = UrlCacheTicks
    BY FileSharingAssumption DEF CachedFor
  <1>5. minute \in Nat /\ rowEnded[q.file] \in Nat
    BY <1>1 DEF ShareInv, ShareTypeOK
  <1>6. rowEnded[q.file] # 0 => /\ minute <= rowEnded[q.file] + RequestTicks
                                /\ minute <= rowEnded[q.file] + RequestTicks + CachedFor(q.kind)
                                /\ minute + CachedFor(q.kind) <= rowEnded[q.file] + RequestTicks + CachedFor(q.kind)
    BY <1>1, <1>3, <1>4, <1>5
  <1>7. q.kind # "get" => q.url > minute /\ q.url >= minute + CachedFor(q.kind)
    BY <1>1, <1>3, <1>4, <1>5
  <1>8. PICK new \in Calls : /\ serving' = [serving EXCEPT ![r] = new] /\ new.left = << >> /\ RequestHolds(r)'
    <2>1. q.kind \in {"download", "lookup"} => q.url > minute
      BY <1>7
    <2>2. rowEnded'[q.file] # 0 => minute <= rowEnded'[q.file] + RequestTicks + CachedFor(q.kind)
      BY <1>2, <1>6
    <2> QED
      BY <1>1, <1>2, <1>3, <2>1, <2>2, AnswerHolds
  <1>9. ASSUME cached' = [k \in DOMAIN cached \cup {key} |-> IF k = key THEN entry ELSE cached[k]]
        PROVE  \A k \in DOMAIN cached' : EntryHolds(k)' /\ cached'[k].until \in Nat /\ cached'[k].url \in Nat
    <2> SUFFICES ASSUME NEW k \in DOMAIN cached' PROVE EntryHolds(k)' /\ cached'[k].until \in Nat /\ cached'[k].url \in Nat
      OBVIOUS
    <2>1. CASE k # key
      <3>1. k \in DOMAIN cached /\ cached'[k] = cached[k]
        BY <1>9, <2>1
      <3> QED
        BY <3>1, <1>2, EntriesStay
    <2>2. CASE k = key
      <3>1. cached'[k].until = minute + CachedFor(q.kind) /\ cached'[k].url = q.url
        BY <1>9, <2>2
      <3>2. k = CacheKey(q.kind, q.user, q.file)
        BY <2>2
      <3>3. cached'[k].until <= minute + CachedFor(q.kind) /\ cached'[k].until \in Nat
        BY <3>1, <1>4, <1>5
      <3>4. q.kind # "get" => cached'[k].url >= cached'[k].until
        BY <3>1, <1>7
      <3>5. rowEnded'[q.file] # 0 => cached'[k].until <= rowEnded'[q.file] + RequestTicks + CachedFor(q.kind)
        BY <3>1, <1>2, <1>6
      <3> QED
        BY <1>1, <1>2, <1>3, <3>1, <3>2, <3>3, <3>4, <3>5 DEF EntryHolds, FreshUntil
    <2> QED
      BY <2>1, <2>2
  <1>10. \A k \in DOMAIN cached' : EntryHolds(k)' /\ cached'[k].until \in Nat /\ cached'[k].url \in Nat
    <2>1. cached' = cached \/ cached' = [k \in DOMAIN cached \cup {key} |-> IF k = key THEN entry ELSE cached[k]]
      BY DEF FillsCache
    <2> QED
      BY <1>2, <1>9, <2>1, EntriesStay
  <1>11. Around(r)
    BY <1>2, <1>8 DEF Around, ShareInv, ShareTypeOK
  <1>12. /\ fileRows' \subseteq SharedFiles /\ rowEnded' \in [SharedFiles -> Nat] /\ RowsStayEnded' /\ RowsHaveObjects'
    BY <1>2 DEF ShareInv, ShareTypeOK, RowsStayEnded, RowsHaveObjects
  <1> QED
    BY <1>8, <1>10, <1>11, <1>12, RequestMoves

\* A call to storage or to the database, whatever comes of it.
LEMMA CallHolds ==
    ASSUME ShareInv, NEW r \in RequestSlots, Active(r), serving[r].kind \in {"upload", "delete", "share"},
           serving[r].kind = "upload" \/ PastRow(r),
           NEW status \in {201, 204}, NextOr(r, status) \/ Answers(r, 500, 0),
           minute' = minute, cached' = cached, fileRows' \subseteq SharedFiles, rowEnded' \in [SharedFiles -> Nat],
           RowsStayEnded', RowsHaveObjects', objects \cup unstored \subseteq objects' \cup unstored',
           \A f \in SharedFiles : rowEnded'[f] = rowEnded[f] \/ (f \in fileRows /\ rowEnded'[f] = minute),
           fileRows' \subseteq fileRows \cup (IF serving[r].kind = "upload" THEN {serving[r].file} ELSE {}),
           Len(serving[r].left) # 1 /\ serving[r].kind = "upload" =>
               /\ rowEnded'[serving[r].file] = 0 /\ serving[r].file \notin fileRows'
               /\ GoesOn(r) => serving[r].file \in objects' \cup unstored'
    PROVE  ShareInv'
  <1> PICK q : q = serving[r]
    OBVIOUS
  <1>1. /\ RequestHolds(r) /\ q \in Calls /\ q.kind \in RequestKinds /\ q.left # << >> /\ minute \in Nat
        /\ q.user \in Users /\ q.file \in SharedFiles /\ q.since \in Nat /\ q.url \in Nat /\ q.since <= minute
    BY DEF ShareInv, ShareTypeOK, RequestHolds, Calls, Active, RequestKinds
  <1>2. OwnerOf[q.file] = q.user
    BY <1>1 DEF RequestHolds
  <1>3. rowEnded \in [SharedFiles -> Nat] /\ (PastRow(r) => rowEnded[q.file] = 0 \/ rowEnded[q.file] >= q.since)
    BY <1>1 DEF RequestHolds, ShareInv, ShareTypeOK
  <1>4. ASSUME \A s \in RequestSlots \ {r} : serving'[s] = serving[s] PROVE Around(r)
    BY <1>1, <1>4 DEF Around, ShareInv, UploadsDiffer
  <1>5. \A k \in DOMAIN cached' : EntryHolds(k)' /\ cached'[k].until \in Nat /\ cached'[k].url \in Nat
    BY EntriesStay
  <1>6. CASE \E code \in {201, 204, 500}, url \in Nat : Answers(r, code, url)
    <2>1. PICK code \in {201, 204, 500}, url \in Nat : Answers(r, code, url)
      BY <1>6
    <2>2. PICK new \in Calls : /\ serving' = [serving EXCEPT ![r] = new] /\ new.left = << >> /\ RequestHolds(r)'
      BY <1>2, <2>1, AnswerHolds
    <2>3. Around(r)
      BY <1>4, <2>2 DEF ShareInv, ShareTypeOK
    <2> QED
      BY <1>5, <2>2, <2>3, RequestMoves
  <1>7. CASE GoesOn(r) /\ Len(q.left) # 1
    <2>1. PICK new : Advances(q, new) /\ new.url = q.url /\ serving' = [serving EXCEPT ![r] = new]
      BY <1>7, GoesOnAdvances
    <2>2. Continues(q.kind, q.left)
      BY <1>1, NextStep DEF RequestHolds
    <2>3. Head(Tail(q.left)) # "fill"
      <3>1. q.kind # "upload" => Head(q.left) \in {"presign", "fill", "unstore", "unrow", "evict", "create"}
        BY DEF PastRow
      <3>2. q.kind = "upload" => Head(q.left) \in {"put", "insert"}
        BY <2>2 DEF Continues
      <3> QED
        BY <1>7, <2>2, <3>1, <3>2 DEF Continues, CachedKinds, RequestKinds
    <2>4. PastRow(r)' => rowEnded'[q.file] = 0 \/ rowEnded'[q.file] >= q.since
      BY <1>1, <1>3, <1>7
    <2>5. new \in Calls /\ RequestHolds(r)'
      BY <1>1, <1>2, <1>7, <2>1, <2>3, <2>4, GoesOnHolds
    <2>6. new.kind = q.kind /\ new.file = q.file
      BY <2>1 DEF Advances
    <2>7. new.kind = "upload" /\ new.left # << >> =>
            \A s \in RequestSlots \ {r} : serving[s].kind = "upload" /\ Active(s) => serving[s].file # new.file
      <3>1. q.kind = "upload" => \A s \in RequestSlots \ {r} :
              serving[s].kind = "upload" /\ Active(s) => serving[s].file # q.file
        BY <1>7 DEF ShareInv, UploadsDiffer
      <3> QED
        BY <2>6, <3>1
    <2>8. Around(r)
      BY <1>4, <2>1 DEF ShareInv, ShareTypeOK
    <2>9. /\ new \in Calls /\ serving' = [serving EXCEPT ![r] = new] /\ RequestHolds(r)'
          /\ fileRows' \subseteq SharedFiles /\ rowEnded' \in [SharedFiles -> Nat] /\ RowsStayEnded' /\ RowsHaveObjects'
      BY <2>1, <2>5
    <2> QED
      BY <1>5, <2>7, <2>8, <2>9, RequestMoves
  <1> QED
    BY <1>1, <1>6, <1>7 DEF NextOr

\* Storage and the database.
LEMMA StoreHolds ==
    ASSUME ShareInv, NEW r \in RequestSlots,
           Puts(r) \/ Inserts(r) \/ Unstores(r) \/ Unrows(r) \/ \E hours \in ShareHours : CreatesShare(r, hours)
    PROVE  ShareInv'
  <1> PICK q : q = serving[r]
    OBVIOUS
  <1>0. /\ fileRows \subseteq SharedFiles /\ rowEnded \in [SharedFiles -> Nat] /\ RowsStayEnded /\ RowsHaveObjects
        /\ minute \in Nat /\ minute > 0
    BY DEF ShareInv, ShareTypeOK
  <1>1. ASSUME NEW step \in {"put", "insert", "unstore", "unrow", "create"}, At(r, step)
        PROVE  /\ Active(r) /\ q.file \in SharedFiles /\ Head(q.left) = step
               /\ step \in {"put", "insert"} => /\ q.kind = "upload" /\ rowEnded[q.file] = 0 /\ q.file \notin fileRows
               /\ step = "insert" => Len(q.left) = 1 /\ q.file \in objects \cup unstored
               /\ step \in {"unstore", "unrow"} => q.kind = "delete" /\ PastRow(r)
               /\ step = "create" => q.kind = "share" /\ PastRow(r) /\ Len(q.left) = 1
    <2>1. Active(r) /\ Head(q.left) = step /\ Continues(q.kind, q.left) /\ q.file \in SharedFiles /\ RequestHolds(r)
      BY <1>1, AtStep DEF ShareInv
    <2>2. /\ step \in {"put", "insert"} => q.kind = "upload"
          /\ step = "insert" => Len(q.left) = 1
          /\ step \in {"unstore", "unrow"} => q.kind = "delete"
          /\ step = "create" => q.kind = "share" /\ Len(q.left) = 1
      BY <2>1 DEF Continues
    <2> QED
      BY <2>1, <2>2 DEF RequestHolds, PastRow
  <1>2. CASE Puts(r)
    <2>1. At(r, "put") /\ UNCHANGED <<minute, fileRows, cached, rowEnded, unstored>>
          /\ \/ objects' = objects \cup {q.file} /\ NextOr(r, 201)
             \/ objects' \in {objects, objects \cup {q.file}} /\ Answers(r, 500, 0)
      BY <1>2 DEF Puts, Outcome
    <2>2. RowsStayEnded' /\ RowsHaveObjects' /\ objects \subseteq objects'
      BY <1>0, <2>1 DEF RowsStayEnded, RowsHaveObjects
    <2>3. GoesOn(r) => q.file \in objects'
      <3>1. ~(GoesOn(r) /\ Answers(r, 500, 0))
        <4>1. serving \in [RequestSlots -> Calls] /\ q \in Calls /\ q.status = 0
          BY <1>1, <2>1, AtStep DEF ShareInv, ShareTypeOK, RequestHolds
        <4>2. GoesOn(r) => serving'[r].status = 0
          BY <4>1 DEF GoesOn, Calls
        <4>3. Answers(r, 500, 0) => serving'[r].status = 500
          BY <4>1 DEF Answers, Calls
        <4> QED
          BY <4>2, <4>3
      <3> QED
        BY <2>1, <3>1
    <2> QED
      BY <1>0, <1>1, <2>1, <2>2, <2>3, CallHolds
  <1>3. CASE Inserts(r)
    <2>1. At(r, "insert") /\ UNCHANGED <<minute, objects, cached, rowEnded, unstored>>
          /\ fileRows' \in {fileRows, fileRows \cup {q.file}} /\ (NextOr(r, 201) \/ Answers(r, 500, 0))
      BY <1>3 DEF Inserts, Outcome
    <2>2. RowsStayEnded' /\ RowsHaveObjects' /\ fileRows' \subseteq SharedFiles
      BY <1>0, <1>1, <2>1 DEF RowsStayEnded, RowsHaveObjects
    <2> QED
      BY <1>0, <1>1, <2>1, <2>2, CallHolds
  <1>4. CASE Unstores(r)
    <2>1. At(r, "unstore") /\ UNCHANGED <<minute, fileRows, cached, rowEnded>> /\ unstored' = unstored \cup {q.file}
          /\ objects' \in {objects, objects \ {q.file}} /\ (NextOr(r, 204) \/ Answers(r, 500, 0))
      BY <1>4 DEF Unstores, Outcome
    <2>2. RowsStayEnded' /\ RowsHaveObjects' /\ objects \cup unstored \subseteq objects' \cup unstored'
      BY <1>0, <2>1 DEF RowsStayEnded, RowsHaveObjects
    <2> QED
      BY <1>0, <1>1, <2>1, <2>2, CallHolds
  <1>5. CASE Unrows(r)
    <2>1. At(r, "unrow") /\ UNCHANGED <<minute, objects, cached, unstored>> /\ (NextOr(r, 204) \/ Answers(r, 500, 0))
          /\ \/ /\ fileRows' = fileRows \ {q.file}
                /\ rowEnded' = [rowEnded EXCEPT ![q.file] = IF q.file \in fileRows THEN minute ELSE @]
             \/ UNCHANGED <<fileRows, rowEnded>>
      BY <1>5 DEF Unrows, Outcome
    <2>2. RowsStayEnded' /\ RowsHaveObjects'
      BY <1>0, <1>1, <2>1 DEF RowsStayEnded, RowsHaveObjects
    <2>3. /\ rowEnded' \in [SharedFiles -> Nat] /\ fileRows' \subseteq fileRows
          /\ \A f \in SharedFiles : rowEnded'[f] = rowEnded[f] \/ (f \in fileRows /\ rowEnded'[f] = minute)
      BY <1>0, <2>1
    <2> QED
      BY <1>0, <1>1, <2>1, <2>2, <2>3, CallHolds
  <1>6. CASE \E hours \in ShareHours : CreatesShare(r, hours)
    <2>1. At(r, "create") /\ UNCHANGED <<minute, fileRows, objects, cached, rowEnded, unstored>>
          /\ (NextOr(r, 201) \/ Answers(r, 500, 0))
      BY <1>6 DEF CreatesShare, Outcome
    <2>2. RowsStayEnded' /\ RowsHaveObjects'
      BY <1>0, <2>1 DEF RowsStayEnded, RowsHaveObjects
    <2> QED
      BY <1>0, <1>1, <2>1, <2>2, CallHolds
  <1> QED
    BY <1>2, <1>3, <1>4, <1>5, <1>6

\* A delete's eviction, as well as it goes.
LEMMA EvictHolds == ASSUME ShareInv, NEW r \in RequestSlots, Evicts(r) PROVE ShareInv'
  <1> PICK q : q = serving[r]
    OBVIOUS
  <1>1. /\ Active(r) /\ Head(q.left) = "evict" /\ q.kind = "delete" /\ RequestHolds(r) /\ PastRow(r)
    BY AtStep DEF Evicts, Continues, ShareInv, PastRow
  <1>2. UNCHANGED <<minute, fileRows, objects, rowEnded, unstored>> /\ Answers(r, 204, 0)
    BY DEF Evicts
  <1>3. OwnerOf[q.file] = q.user
    BY <1>1 DEF RequestHolds
  <1>4. PICK new \in Calls : /\ serving' = [serving EXCEPT ![r] = new] /\ new.left = << >> /\ RequestHolds(r)'
    BY <1>1, <1>2, <1>3, AnswerHolds
  <1>5. \A k \in DOMAIN cached' : k \in DOMAIN cached /\ cached'[k] = cached[k]
    BY DEF Evicts
  <1>6. \A k \in DOMAIN cached' : EntryHolds(k)' /\ cached'[k].until \in Nat /\ cached'[k].url \in Nat
    BY <1>2, <1>5, EntriesStay
  <1>7. Around(r)
    BY <1>2, <1>4 DEF Around, ShareInv, ShareTypeOK
  <1>8. /\ fileRows' \subseteq SharedFiles /\ rowEnded' \in [SharedFiles -> Nat] /\ RowsStayEnded' /\ RowsHaveObjects'
    BY <1>2 DEF ShareInv, ShareTypeOK, RowsStayEnded, RowsHaveObjects
  <1> QED
    BY <1>4, <1>6, <1>7, <1>8, RequestMoves

\* No request, answered or not.
LEMMA IdleHolds ==
    ASSUME minute' \in Nat, NEW r \in RequestSlots, serving'[r] = Idle
    PROVE  Idle \in Calls /\ RequestHolds(r)'
  <1>1. /\ Idle.kind = "none" /\ Idle.left = << >> /\ Idle.status = 0
    BY DEF Idle
  <1>2. << >> \in LeftOf("none") /\ << >> \in AllLefts
    BY DEF LeftOf, AllLefts, RequestKinds
  <1>3. Idle \in Calls
    <2>1. 0 \in {0, 200, 201, 204, 404, 410, 500} /\ 0 \in Nat
      OBVIOUS
    <2> QED
      BY <1>2, <2>1 DEF Idle, Calls
  <1>4. ~Active(r)' /\ ~PastRow(r)' /\ ~Succeeded(r)'
    BY <1>1 DEF Active, PastRow, Succeeded
  <1> QED
    BY <1>1, <1>2, <1>3, <1>4 DEF RequestHolds

\* A minute passes; nobody takes too many.
LEMMA MinuteHolds == ASSUME ShareInv, Minute PROVE ShareInv'
  <1>1. /\ minute' = minute + 1 /\ minute \in Nat /\ UNCHANGED <<fileRows, objects, rowEnded, unstored>>
        /\ serving' = [r \in RequestSlots |-> IF Active(r) THEN serving[r] ELSE Idle]
        /\ rowEnded \in [SharedFiles -> Nat] /\ serving \in [RequestSlots -> Calls]
    BY DEF Minute, ShareInv, ShareTypeOK
  <1>2. ASSUME NEW r \in RequestSlots, Active(r) PROVE RequestHolds(r)'
    <2> PICK q : q = serving[r]
      OBVIOUS
    <2>1. /\ RequestHolds(r) /\ q \in Calls /\ serving'[r] = q /\ minute - q.since < RequestTicks /\ q.status = 0
          /\ q.since <= minute /\ q.since \in Nat /\ RequestTicks \in Nat
      BY <1>1, <1>2, FileSharingAssumption DEF ShareInv, Minute, RequestHolds, Calls
    <2>2. Active(r)' = Active(r) /\ PastRow(r)' = PastRow(r) /\ Succeeded(r)' = Succeeded(r)
      BY <2>1 DEF Active, PastRow, Succeeded
    <2>3. q.since <= minute' /\ minute' <= q.since + RequestTicks /\ q.status # 200
      BY <1>1, <2>1
    <2>4. RequestHolds(r) => RequestHolds(r)'
      BY <1>1, <2>1, <2>2, <2>3 DEF RequestHolds
    <2> QED
      BY <2>1, <2>4
  <1>3. ASSUME NEW r \in RequestSlots, ~Active(r) PROVE Idle \in Calls /\ RequestHolds(r)' /\ ~Active(r)'
    <2>1. minute' \in Nat /\ serving'[r] = Idle
      BY <1>1, <1>3
    <2>2. Idle.left = << >>
      BY DEF Idle
    <2> QED
      BY <2>1, <2>2, IdleHolds DEF Active
  <1>4. \A k \in DOMAIN cached' : EntryHolds(k)' /\ cached'[k].until \in Nat /\ cached'[k].url \in Nat
    <2> SUFFICES ASSUME NEW k \in DOMAIN cached' PROVE EntryHolds(k)' /\ cached'[k].until \in Nat /\ cached'[k].url \in Nat
      OBVIOUS
    <2>1. k \in DOMAIN cached /\ cached'[k] = cached[k]
      BY DEF Minute
    <2>2. PICK purpose \in CachedKinds, user \in Users, f \in SharedFiles :
            /\ k = CacheKey(purpose, user, f)
            /\ purpose # "lookup" => OwnerOf[f] = user
            /\ cached[k].until <= minute + CachedFor(purpose)
            /\ purpose # "get" => cached[k].url >= cached[k].until
            /\ FreshUntil(purpose, f, cached[k].until)
      BY <2>1 DEF ShareInv, EntryHolds
    <2>3. cached[k].until \in Nat /\ cached[k].url \in Nat /\ CachedFor(purpose) \in Nat
      BY <2>1, FileSharingAssumption DEF ShareInv, ShareTypeOK, CachedFor
    <2>4. cached[k].until <= minute' + CachedFor(purpose)
      BY <1>1, <2>2, <2>3
    <2> QED
      BY <1>1, <2>1, <2>2, <2>3, <2>4 DEF EntryHolds, FreshUntil
  <1>5. \A r \in RequestSlots : RequestHolds(r)' /\ serving'[r] \in Calls /\ (Active(r)' => serving'[r] = serving[r] /\ Active(r))
    BY <1>1, <1>2, <1>3
  <1>6. ShareTypeOK'
    <2>1. minute' \in Nat /\ minute' > 0 /\ \A f \in SharedFiles : rowEnded'[f] <= minute'
      BY <1>1 DEF ShareInv, ShareTypeOK
    <2>2. serving' \in [RequestSlots -> Calls]
      BY <1>1, <1>5
    <2> QED
      BY <1>1, <1>4, <2>1, <2>2 DEF ShareInv, ShareTypeOK
  <1>7. UploadsDiffer'
    BY <1>5 DEF ShareInv, UploadsDiffer
  <1>8. RowsStayEnded' /\ RowsHaveObjects'
    BY <1>1 DEF ShareInv, RowsStayEnded, RowsHaveObjects
  <1> QED
    BY <1>4, <1>5, <1>6, <1>7, <1>8 DEF ShareInv

\* Nothing is shared at first.
LEMMA InitShare == ShareInit => ShareInv
  <1> SUFFICES ASSUME ShareInit PROVE ShareInv
    OBVIOUS
  <1>1. /\ minute = 1 /\ fileRows = {} /\ DOMAIN cached = {} /\ serving = [r \in RequestSlots |-> Idle]
        /\ rowEnded = [f \in SharedFiles |-> 0]
    BY DEF ShareInit
  <1>2. /\ Idle.kind = "none" /\ Idle.left = << >> /\ Idle.status = 0
    BY DEF Idle
  <1>3. << >> \in LeftOf("none") /\ << >> \in AllLefts
    BY DEF LeftOf, AllLefts, RequestKinds
  <1>4. Idle \in Calls
    <2>1. 0 \in {0, 200, 201, 204, 404, 410, 500} /\ 0 \in Nat
      OBVIOUS
    <2> QED
      BY <1>3, <2>1 DEF Idle, Calls
  <1>5. \A r \in RequestSlots : RequestHolds(r)
    BY <1>1, <1>2, <1>3 DEF RequestHolds, Active, PastRow, Succeeded
  <1>6. ShareTypeOK
    BY <1>1, <1>4 DEF ShareTypeOK
  <1>7. UploadsDiffer /\ RowsStayEnded /\ RowsHaveObjects
    BY <1>1, <1>2 DEF UploadsDiffer, RowsStayEnded, RowsHaveObjects
  <1> QED
    BY <1>1, <1>5, <1>6, <1>7 DEF ShareInv

\* What the example api-server promises of its files (example/api-server, the
\* files and shares services): an answer about a file reaches its owner alone,
\* cached or not; a URL that is handed out works, and a deleted file is not told
\* of longer than the cache and the request last; a row has its object until a
\* delete takes it, whichever call fails.
THEOREM SharingIsHeld == ShareSpec => []SharingHolds
  <1>1. ShareInit => ShareInv
    BY InitShare
  <1>2. ShareInv /\ [ShareNext]_shareVars => ShareInv'
    <2>1. ShareInv /\ ShareNext => ShareInv'
      BY MinuteHolds, TakeHolds, CacheHolds, RowHolds, PresignHolds, FillHolds, StoreHolds, EvictHolds DEF ShareNext
    <2>2. ShareInv /\ UNCHANGED shareVars => ShareInv'
      BY DEF shareVars, ShareInv, ShareTypeOK, RowsStayEnded, RowsHaveObjects, UploadsDiffer, RequestHolds, EntryHolds,
             Active, PastRow, Succeeded, FreshUntil
    <2> QED
      BY <2>1, <2>2
  <1>3. ShareInv => SharingHolds
    <2> SUFFICES ASSUME ShareInv PROVE SharingHolds
      OBVIOUS
    <2>1. AnswersAreOwners
      BY DEF ShareInv, RequestHolds, AnswersAreOwners
    <2>2. AnswersAreFresh
      BY DEF ShareInv, RequestHolds, AnswersAreFresh, FreshUntil
    <2> QED
      BY <2>1, <2>2 DEF ShareInv, SharingHolds
  <1> QED
    BY <1>1, <1>2, <1>3, PTL DEF ShareSpec

(***************************************************************************)
(* Registration: numbers, recursive functions and what Among keeps         *)
(***************************************************************************)
\* A set of numbers has a least one.
LEMMA LeastNumber ==
    ASSUME NEW S \in SUBSET Nat, S # {}
    PROVE  \E m \in S : \A n \in S : m <= n
  <1>1. \E x \in S : \A y \in S : ~(<<y, x>> \in OpToRel(<, Nat))
    BY NatLessThanWellFounded, WFMin, Zenon
  <1>2. \A x, y \in Nat : <<y, x>> \in OpToRel(<, Nat) <=> y < x
    BY Zenon DEF OpToRel
  <1>3. PICK x \in S : \A y \in S : ~(<<y, x>> \in OpToRel(<, Nat))
    BY <1>1
  <1>4. \A y \in S : ~(y < x)
    BY <1>2, <1>3, Zenon
  <1>5. \A y \in S : x <= y
    BY <1>4
  <1> QED
    BY <1>5

\* There is a function that goes from n to n+1 by F[n].
FollowsTo(w, k, x, F) == w[0] = x /\ \A i \in 0..k - 1 : w[i + 1] = F[i][w[i]]
Steps(F, X) == F \in [Nat -> [X -> X]]
HasSequence(X, x, F) == \E f \in [Nat -> X] : f[0] = x /\ \A n \in Nat : f[n + 1] = F[n][f[n]]
LEMMA Recursion ==
    ASSUME NEW X, NEW x, x \in X, NEW F, Steps(F, X)
    PROVE  HasSequence(X, x, F)
  <1> USE DEF Steps
  <1> DEFINE lacks == {k \in Nat : \A w \in [0..k -> X] : ~FollowsTo(w, k, x, F)}
  <1>1. lacks = {}
    <2> SUFFICES ASSUME lacks # {} PROVE FALSE
      OBVIOUS
    <2>1. PICK m \in lacks : \A n \in lacks : m <= n
      BY LeastNumber
    <2>2. m # 0
      <3> DEFINE w == [i \in 0..0 |-> x]
      <3>1. w \in [0..0 -> X] /\ FollowsTo(w, 0, x, F)
        BY DEF FollowsTo
      <3> QED
        BY <3>1
    <2>3. m \in Nat /\ m - 1 \in Nat /\ ~(m <= m - 1) /\ m - 1 + 1 = m
      BY <2>2
    <2>4. PICK v \in [0..m - 1 -> X] : FollowsTo(v, m - 1, x, F)
      BY <2>1, <2>3
    <2> DEFINE w == [i \in 0..m |-> IF i = m THEN F[m - 1][v[m - 1]] ELSE v[i]]
    <2>5. v[m - 1] \in X /\ F[m - 1] \in [X -> X]
      BY <2>3
    <2>6. w \in [0..m -> X]
      <3>1. \A i \in 0..m : i # m => i \in 0..m - 1
        BY <2>3
      <3> QED
        BY <3>1, <2>5
    <2>7. \A i \in 0..m - 1 : w[i] = v[i]
      BY <2>3
    <2>8. w[m] = F[m - 1][v[m - 1]]
      BY <2>3
    <2> HIDE DEF w
    <2>9. ASSUME NEW i \in 0..m - 1 PROVE w[i + 1] = F[i][w[i]]
      <3>1. CASE i = m - 1
        BY <3>1, <2>3, <2>7, <2>8
      <3>2. CASE i # m - 1
        <4>1. i \in 0..m - 1 - 1 /\ i + 1 \in 0..m - 1
          BY <3>2, <2>3
        <4>2. v[i + 1] = F[i][v[i]]
          BY <4>1, <2>4 DEF FollowsTo
        <4> QED
          BY <4>1, <4>2, <2>7
      <3> QED
        BY <3>1, <3>2
    <2>10. w[0] = x
      BY <2>3, <2>4, <2>7 DEF FollowsTo
    <2>11. FollowsTo(w, m, x, F)
      BY <2>9, <2>10 DEF FollowsTo
    <2> QED
      BY <2>1, <2>6, <2>11
  <1> DEFINE traced(k) == CHOOSE w \in [0..k -> X] : FollowsTo(w, k, x, F)
  <1>2. ASSUME NEW k \in Nat PROVE traced(k) \in [0..k -> X] /\ FollowsTo(traced(k), k, x, F)
    BY <1>1
  <1> HIDE DEF traced
  <1>3. ASSUME NEW k \in Nat PROVE \A i \in 0..k : traced(k + 1)[i] = traced(k)[i]
    <2> DEFINE differs == {i \in Nat : i <= k /\ traced(k + 1)[i] # traced(k)[i]}
    <2> SUFFICES ASSUME differs # {} PROVE FALSE
      OBVIOUS
    <2>0. k + 1 \in Nat /\ 0 \in 0..k
      OBVIOUS
    <2>1. FollowsTo(traced(k + 1), k + 1, x, F) /\ FollowsTo(traced(k), k, x, F)
      BY <2>0, <1>2
    <2>2. PICK m \in differs : \A n \in differs : m <= n
      BY LeastNumber
    <2>3. m # 0
      BY <2>1, <2>2 DEF FollowsTo
    <2>4. m - 1 \in 0..k - 1 /\ m - 1 \in 0..k + 1 - 1 /\ m - 1 + 1 = m /\ m - 1 \in Nat
          /\ m - 1 <= k /\ ~(m <= m - 1)
      BY <2>2, <2>3
    <2>5. traced(k + 1)[m - 1] = traced(k)[m - 1]
      BY <2>2, <2>4
    <2>6. traced(k + 1)[m] = traced(k)[m]
      BY <2>1, <2>4, <2>5 DEF FollowsTo
    <2> QED
      BY <2>2, <2>6
  <1> DEFINE f == [n \in Nat |-> traced(n)[n]]
  <1>4. f \in [Nat -> X]
    <2>1. ASSUME NEW n \in Nat PROVE traced(n)[n] \in X
      BY <1>2
    <2> QED
      BY <2>1
  <1>5. f[0] = x
    <2>1. traced(0)[0] = x
      BY <1>2 DEF FollowsTo
    <2> QED
      BY <2>1
  <1>6. ASSUME NEW n \in Nat PROVE f[n + 1] = F[n][f[n]]
    <2>1. n + 1 \in Nat /\ n \in 0..n + 1 - 1 /\ n \in 0..n
      OBVIOUS
    <2>2. traced(n + 1)[n + 1] = F[n][traced(n + 1)[n]]
      BY <2>1, <1>2 DEF FollowsTo
    <2>3. traced(n + 1)[n] = traced(n)[n]
      BY <2>1, <1>3
    <2> QED
      BY <2>1, <2>2, <2>3
  <1> HIDE DEF f
  <1> QED
    BY <1>4, <1>5, <1>6 DEF HasSequence

\* Induction, of a set.
LEMMA Climb ==
    ASSUME NEW N \in Nat, NEW S, 0 \in S, \A n \in 0..N - 1 : n \in S => n + 1 \in S
    PROVE  \A n \in 0..N : n \in S
  <1> DEFINE lacks == {n \in Nat : n <= N /\ n \notin S}
  <1> SUFFICES ASSUME lacks # {} PROVE FALSE
    OBVIOUS
  <1>1. PICK m \in lacks : \A n \in lacks : m <= n
    BY LeastNumber
  <1>2. m # 0
    OBVIOUS
  <1>3. m - 1 \in Nat /\ m - 1 <= N /\ ~(m <= m - 1) /\ m - 1 + 1 = m /\ m - 1 \in 0..N - 1
    BY <1>2
  <1>4. m - 1 \in S
    BY <1>1, <1>3
  <1> QED
    BY <1>3, <1>4

\* A sequence and one more.
LEMMA AppendIs ==
    ASSUME NEW T, NEW q \in Seq(T), NEW x \in T
    PROVE  /\ Append(q, x) \in Seq(T) /\ Len(Append(q, x)) = Len(q) + 1
           /\ Append(q, x)[Len(q) + 1] = x
           /\ \A i \in 1..Len(q) : Append(q, x)[i] = q[i]
  OBVIOUS

\* Among keeps what is in S, in its order: e says where each comes from.
Picks(r, s, n, S, e) ==
    /\ e \in [1..Len(r) -> 1..n]
    /\ \A i, j \in 1..Len(r) : i < j => e[i] < e[j]
    /\ \A i \in 1..Len(r) : r[i] = s[e[i]] /\ s[e[i]] \in S
    /\ \A k \in 1..n : s[k] \in S => \E i \in 1..Len(r) : e[i] = k

LEMMA AmongPicks ==
    ASSUME NEW T, NEW s \in Seq(T), NEW S
    PROVE  Among(s, S) \in Seq(T) /\ \E e : Picks(Among(s, S), s, Len(s), S, e)
  <1> DEFINE N == Len(s)
             Turn(w, n) ==
                 IF n = 0 THEN << >> ELSE IF s[n] \in S THEN Append(w[n - 1], s[n]) ELSE w[n - 1]
             u == CHOOSE w : w = [n \in 0..N |-> Turn(w, n)]
             F == [n \in Nat |-> [x \in Seq(T) |->
                      IF n + 1 \in 1..N /\ s[n + 1] \in S THEN Append(x, s[n + 1]) ELSE x]]
  <1>1. Among(s, S) = u[N] /\ N \in Nat
    BY DEF Among
  <1>2. \A n \in 1..N : s[n] \in T
    OBVIOUS
  <1>3. F \in [Nat -> [Seq(T) -> Seq(T)]]
    BY <1>2
  <1>4. << >> \in Seq(T)
    OBVIOUS
  <1>5. \A n \in Nat, x \in Seq(T) :
           F[n][x] = IF n + 1 \in 1..N /\ s[n + 1] \in S THEN Append(x, s[n + 1]) ELSE x
    OBVIOUS
  <1> HIDE DEF F, u
  <1>6. PICK f \in [Nat -> Seq(T)] : f[0] = << >> /\ \A n \in Nat : f[n + 1] = F[n][f[n]]
    <2> DEFINE X == Seq(T)
               none == << >>
    <2>1. Steps(F, X) /\ none \in X
      BY <1>3, <1>4 DEF Steps
    <2> HIDE DEF X, none
    <2>2. HasSequence(X, none, F)
      BY <2>1, Recursion
    <2> QED
      BY <2>2 DEF X, none, HasSequence
  <1> DEFINE w == [n \in 0..N |-> f[n]]
  <1>7. ASSUME NEW n \in 0..N PROVE w[n] = Turn(w, n)
    <2>1. CASE n = 0
      BY <2>1, <1>6
    <2>2. CASE n # 0
      <3>1. n - 1 \in Nat /\ n - 1 + 1 = n /\ n - 1 \in 0..N /\ n \in 1..N
        BY <2>2, <1>1
      <3>2. w[n] = F[n - 1][f[n - 1]] /\ w[n - 1] = f[n - 1] /\ f[n - 1] \in Seq(T)
        BY <3>1, <1>6
      <3>3. w[n] = IF s[n] \in S THEN Append(f[n - 1], s[n]) ELSE f[n - 1]
        BY <3>1, <3>2, <1>5
      <3> QED
        BY <2>2, <3>2, <3>3
    <2> QED
      BY <2>1, <2>2
  <1>8. w = [n \in 0..N |-> Turn(w, n)]
    <2>1. w = [n \in 0..N |-> w[n]]
      OBVIOUS
    <2> HIDE DEF w, Turn
    <2> QED
      BY <2>1, <1>7
  <1>9. u = [n \in 0..N |-> Turn(u, n)]
    <2> HIDE DEF w, Turn
    <2> QED
      BY <1>8 DEF u
  <1> HIDE DEF w
  <1>10. \A n \in 0..N : u[n] = Turn(u, n)
    <2> HIDE DEF Turn
    <2> QED
      BY <1>9
  <1> DEFINE good == {n \in 0..N : u[n] \in Seq(T) /\ \E e : Picks(u[n], s, n, S, e)}
  <1>11. 0 \in good
    <2>1. u[0] = << >> /\ 0 \in 0..N
      BY <1>1, <1>10
    <2>2. Picks(u[0], s, 0, S, [i \in 1..0 |-> 0])
      BY <2>1 DEF Picks
    <2> QED
      BY <1>4, <2>1, <2>2
  <1>12. ASSUME NEW n \in 0..N - 1, n \in good PROVE n + 1 \in good
    <2> DEFINE m == n + 1
    <2>1. m \in 1..N /\ m \in 0..N /\ m - 1 = n /\ m # 0 /\ m \in Nat /\ n \in Nat
      BY <1>1
    <2>7. m \in 1..m /\ \A k \in 1..n : k \in 1..m /\ k < m
      BY <2>1
    <2>2. u[n] \in Seq(T)
      BY <1>12
    <2>3. PICK e : Picks(u[n], s, n, S, e)
      BY <1>12
    <2>4. u[m] = IF s[m] \in S THEN Append(u[n], s[m]) ELSE u[n]
      BY <1>10, <2>1
    <2> HIDE DEF m
    <2>5. CASE s[m] \notin S
      <3>0. \A k \in 1..m : s[k] \in S => k \in 1..n
        BY <2>1, <2>5
      <3>2. e \in [1..Len(u[n]) -> 1..m]
        BY <2>3, <2>7 DEF Picks
      <3>1. Picks(u[n], s, m, S, e)
        BY <2>3, <3>0, <3>2 DEF Picks
      <3> QED
        BY <3>1, <2>1, <2>2, <2>4, <2>5 DEF m
    <2>6. CASE s[m] \in S
      <3> DEFINE r == Append(u[n], s[m])
                 L == Len(u[n])
      <3>0. L \in Nat
        BY <2>2
      <3> HIDE DEF L
      <3> DEFINE
                 d == [i \in 1..L + 1 |-> IF i = L + 1 THEN m ELSE e[i]]
      <3>1. s[m] \in T /\ L \in Nat
        BY <1>2, <2>1, <3>0
      <3>2. r \in Seq(T) /\ Len(r) = L + 1 /\ r[L + 1] = s[m] /\ \A i \in 1..L : r[i] = u[n][i]
        <4> DEFINE q == u[n]
                   v == s[m]
        <4>1. q \in Seq(T) /\ v \in T
          BY <2>2, <3>1
        <4> HIDE DEF q, v
        <4>2. /\ Append(q, v) \in Seq(T) /\ Len(Append(q, v)) = Len(q) + 1
              /\ Append(q, v)[Len(q) + 1] = v
              /\ \A i \in 1..Len(q) : Append(q, v)[i] = q[i]
          BY <4>1, AppendIs
        <4> QED
          BY <4>2 DEF L, q, v
      <3>3. e \in [1..L -> 1..n]
        BY <2>3 DEF Picks, L
      <3>4. d[L + 1] = m /\ \A i \in 1..L : d[i] = e[i] /\ e[i] \in 1..n
        <4>1. L + 1 \in 1..L + 1 /\ \A i \in 1..L : i \in 1..L + 1 /\ i # L + 1
          BY <3>1
        <4> QED
          BY <4>1, <3>3
      <3>5. d \in [1..L + 1 -> 1..m]
        <4>1. \A i \in 1..L + 1 : i = L + 1 \/ i \in 1..L
          BY <3>1
        <4> QED
          BY <4>1, <2>7, <3>3
      <3>11. L \in Nat
        BY <3>1
      <3> HIDE DEF d, r
      <3>6. \A i \in 1..L + 1 : i = L + 1 \/ i \in 1..L
        BY <3>11
      <3>12. L + 1 \in 1..L + 1 /\ \A i \in 1..L : i \in 1..L + 1
        BY <3>11
      <3>7. \A i, j \in 1..L + 1 : i < j => d[i] < d[j]
        <4> SUFFICES ASSUME NEW i \in 1..L + 1, NEW j \in 1..L + 1, i < j PROVE d[i] < d[j]
          OBVIOUS
        <4>1. i \in 1..L
          BY <3>11
        <4>2. CASE j = L + 1
          <5>1. d[i] \in 1..n /\ d[j] = m
            BY <4>1, <4>2, <3>4
          <5> QED
            BY <5>1, <2>7
        <4>3. CASE j \in 1..L
          BY <4>1, <4>3, <3>4, <2>3 DEF Picks, L
        <4> QED
          BY <4>2, <4>3, <3>6
      <3>8. \A i \in 1..L + 1 : r[i] = s[d[i]] /\ s[d[i]] \in S
        <4> SUFFICES ASSUME NEW i \in 1..L + 1 PROVE r[i] = s[d[i]] /\ s[d[i]] \in S
          OBVIOUS
        <4>1. CASE i = L + 1
          BY <4>1, <3>2, <3>4, <2>6
        <4>2. CASE i \in 1..L
          BY <4>2, <3>2, <3>4, <2>3 DEF Picks, L
        <4> QED
          BY <4>1, <4>2, <3>6
      <3>9. ASSUME NEW k \in 1..m, s[k] \in S PROVE \E i \in 1..L + 1 : d[i] = k
        <4>1. CASE k = m
          BY <4>1, <3>12, <3>4
        <4>2. CASE k # m
          <5>1. k \in 1..n
            BY <4>2, <2>1
          <5>2. PICK i \in 1..L : e[i] = k
            BY <5>1, <2>3, <3>9 DEF Picks, L
          <5> QED
            BY <5>2, <3>4, <3>12
        <4> QED
          BY <4>1, <4>2
      <3>10. Picks(r, s, m, S, d)
        BY <3>2, <3>5, <3>7, <3>8, <3>9 DEF Picks, L
      <3> QED
        BY <3>2, <3>10, <2>1, <2>4, <2>6 DEF r, m
    <2> QED
      BY <2>5, <2>6
  <1>13. N \in good
    <2> HIDE DEF good, N
    <2>1. \A n \in 0..N : n \in good
      BY <1>1, <1>11, <1>12, Climb
    <2> QED
      BY <1>1, <2>1
  <1> QED
    BY <1>1, <1>13

\* So it has no member twice that s does not, and its members are those of s in S.
NoneTwice(s) == \A i, j \in 1..Len(s) : s[i] = s[j] => i = j
LEMMA AmongMembers ==
    ASSUME NEW T, NEW s \in Seq(T), NEW S
    PROVE  /\ SeqRange(Among(s, S)) = SeqRange(s) \cap S
           /\ NoneTwice(s) => NoneTwice(Among(s, S))
  <1> DEFINE r == Among(s, S)
  <1>1. r \in Seq(T)
    BY AmongPicks
  <1>2. PICK e : Picks(r, s, Len(s), S, e)
    BY AmongPicks
  <1> HIDE DEF r
  <1>3. DOMAIN r = 1..Len(r) /\ DOMAIN s = 1..Len(s) /\ Len(r) \in Nat /\ Len(s) \in Nat
    BY <1>1
  <1>4. SeqRange(r) = SeqRange(s) \cap S
    <2>1. ASSUME NEW i \in 1..Len(r) PROVE r[i] \in SeqRange(s) \cap S
      BY <1>2, <1>3 DEF Picks, SeqRange
    <2>2. ASSUME NEW k \in 1..Len(s), s[k] \in S PROVE s[k] \in SeqRange(r)
      BY <1>2, <1>3, <2>2 DEF Picks, SeqRange
    <2> QED
      BY <1>3, <2>1, <2>2 DEF SeqRange
  <1>5. ASSUME NoneTwice(s), NEW i \in 1..Len(r), NEW j \in 1..Len(r), r[i] = r[j]
        PROVE  i = j
    <2>1. e[i] \in 1..Len(s) /\ e[j] \in 1..Len(s) /\ s[e[i]] = s[e[j]]
      BY <1>2, <1>5 DEF Picks
    <2>2. e[i] = e[j]
      BY <2>1, <1>5 DEF NoneTwice
    <2>3. ~(i < j) /\ ~(j < i)
      BY <2>1, <2>2, <1>2 DEF Picks
    <2> QED
      BY <2>3, <1>3
  <1> QED
    BY <1>4, <1>5 DEF NoneTwice, r

(***************************************************************************)
(* The ordered maps                                                        *)
(***************************************************************************)
KeysOnce(map) == \A i, j \in DOMAIN map : map[i].key = map[j].key => i = j

LEMMA EntryIs ==
    ASSUME NEW E, NEW map \in Seq(E), NEW key \in KeysOf(map)
    PROVE  EntryOf(map, key) \in E /\ EntryOf(map, key).key = key
           /\ PlaceOf(map, key) \in DOMAIN map
  <1>1. \E i \in DOMAIN map : map[i].key = key
    BY DEF KeysOf
  <1>2. PlaceOf(map, key) \in DOMAIN map /\ map[PlaceOf(map, key)].key = key
    BY <1>1 DEF PlaceOf
  <1> QED
    BY <1>2 DEF EntryOf

LEMMA SetEntryIs ==
    ASSUME NEW E, NEW map \in Seq(E), KeysOnce(map), NEW entry \in E
    PROVE  /\ SetEntry(map, entry) \in Seq(E) /\ KeysOnce(SetEntry(map, entry))
           /\ KeysOf(SetEntry(map, entry)) = KeysOf(map) \cup {entry.key}
           /\ \A j \in DOMAIN SetEntry(map, entry) :
                 \/ SetEntry(map, entry)[j] = entry
                 \/ \E i \in DOMAIN map : SetEntry(map, entry)[j] = map[i]
  <1> DEFINE r == SetEntry(map, entry)
             p == PlaceOf(map, entry.key)
  <1>0. Len(map) \in Nat /\ DOMAIN map = 1..Len(map)
    OBVIOUS
  <1>1. CASE entry.key \in KeysOf(map)
    <2>1. p \in DOMAIN map /\ map[p].key = entry.key
      BY <1>1, EntryIs DEF EntryOf
    <2>2. r = [map EXCEPT ![p] = entry]
      BY <1>1 DEF SetEntry
    <2> HIDE DEF p
    <2>3. r \in Seq(E) /\ DOMAIN r = DOMAIN map
      BY <2>1, <2>2
    <2>4. r[p] = entry /\ \A i \in DOMAIN map : i # p => r[i] = map[i]
      BY <2>1, <2>2
    <2> HIDE DEF r
    <2>5. \A i \in DOMAIN map : r[i].key = map[i].key
      BY <2>1, <2>4
    <2>6. KeysOnce(r) /\ KeysOf(r) = KeysOf(map)
      BY <2>3, <2>5 DEF KeysOnce, KeysOf
    <2>7. \A j \in DOMAIN r : r[j] = entry \/ \E i \in DOMAIN map : r[j] = map[i]
      BY <2>3, <2>4
    <2> QED
      BY <2>3, <2>6, <2>7, <1>1 DEF r
  <1>2. CASE entry.key \notin KeysOf(map)
    <2>1. r = Append(map, entry)
      BY <1>2 DEF SetEntry
    <2>2. /\ r \in Seq(E) /\ Len(r) = Len(map) + 1 /\ r[Len(map) + 1] = entry
          /\ \A i \in 1..Len(map) : r[i] = map[i]
      BY <2>1, AppendIs
    <2> HIDE DEF r
    <2>3. DOMAIN r = 1..Len(map) + 1
      BY <2>2
    <2>4. \A i \in 1..Len(map) + 1 : i = Len(map) + 1 \/ i \in 1..Len(map)
      BY <1>0
    <2>5. Len(map) + 1 \in 1..Len(map) + 1 /\ \A i \in 1..Len(map) : i \in 1..Len(map) + 1
      BY <1>0
    <2>6. \A i \in 1..Len(map) : map[i].key # entry.key
      BY <1>0, <1>2 DEF KeysOf
    <2>7. KeysOnce(r)
      <3> SUFFICES ASSUME NEW i \in 1..Len(map) + 1, NEW j \in 1..Len(map) + 1,
                          r[i].key = r[j].key
                   PROVE  i = j
        BY <2>3 DEF KeysOnce
      <3>1. CASE i \in 1..Len(map) /\ j \in 1..Len(map)
        BY <3>1, <2>2, <1>0 DEF KeysOnce
      <3>2. CASE i = Len(map) + 1 \/ j = Len(map) + 1
        BY <3>2, <2>2, <2>4, <2>6
      <3> QED
        BY <3>1, <3>2, <2>4
    <2>8. KeysOf(r) = KeysOf(map) \cup {entry.key}
      <3>1. ASSUME NEW i \in DOMAIN r PROVE r[i].key \in KeysOf(map) \cup {entry.key}
        BY <2>2, <2>3, <2>4, <1>0 DEF KeysOf
      <3>2. ASSUME NEW i \in DOMAIN map PROVE map[i].key \in KeysOf(r)
        BY <2>2, <2>3, <2>5, <1>0 DEF KeysOf
      <3>3. entry.key \in KeysOf(r)
        BY <2>2, <2>3, <2>5 DEF KeysOf
      <3> QED
        BY <3>1, <3>2, <3>3 DEF KeysOf
    <2>9. \A j \in DOMAIN r : r[j] = entry \/ \E i \in DOMAIN map : r[j] = map[i]
      BY <2>2, <2>3, <2>4, <1>0
    <2> QED
      BY <2>2, <2>7, <2>8, <2>9 DEF r
  <1> QED
    BY <1>1, <1>2

(***************************************************************************)
(* What is registered                                                      *)
(***************************************************************************)
Kept == [key : RegTypes, lifetime : Lifetimes, takes : Seq(RegTypes)]
Renamed == [key : RegTypes, target : RegTypes]
Made == [key : RegTypes]
Outcomes == {"none", "shape", "alias", "captive", "circular", "ok", "missing"}

RegTypeOK ==
    /\ registrations \in Seq(Kept) /\ prebuilt \in Seq(Made) /\ aliases \in Seq(Renamed)
    /\ regOutcome \in Outcomes /\ builtOrder \in Seq(RegTypes)
    /\ KeysOnce(registrations) /\ KeysOnce(prebuilt) /\ KeysOnce(aliases)

FreshIsEmpty == regOutcome = "none" => builtOrder = << >>

RegisteredInv == RegTypeOK /\ AliasesAreFlat /\ FreshIsEmpty
RegInv == RegisteredInv /\ BuildIsSound

LEMMA RegisterServiceKeeps ==
    ASSUME RegisteredInv, NEW t \in RegTypes, NEW ctor \in Signatures, NEW lifetime \in Lifetimes,
           RegisterService(t, ctor, lifetime)
    PROVE  RegisteredInv'
  <1> DEFINE e == [key |-> t, lifetime |-> lifetime, takes |-> ctor.takes]
  <1>1. e \in Kept /\ e.key = t
    BY RegistrationAssumption DEF Kept
  <1>2. registrations' = SetEntry(registrations, e) /\ UNCHANGED <<prebuilt, aliases>>
        /\ t \notin KeysOf(aliases) /\ regOutcome' = "none" /\ builtOrder' = << >>
    BY DEF RegisterService, Called
  <1> HIDE DEF e
  <1>3. registrations' \in Seq(Kept) /\ KeysOnce(registrations')
        /\ KeysOf(registrations') = KeysOf(registrations) \cup {t}
    BY <1>1, <1>2, SetEntryIs DEF RegisteredInv, RegTypeOK
  <1>4. RegTypeOK'
    BY <1>2, <1>3 DEF RegisteredInv, RegTypeOK, Outcomes
  <1>5. AliasesAreFlat'
    <2>1. \A i \in DOMAIN aliases : aliases[i].key # t
      BY <1>2 DEF KeysOf
    <2> QED
      BY <1>2, <1>3, <2>1 DEF RegisteredInv, AliasesAreFlat
  <1> QED
    BY <1>2, <1>4, <1>5 DEF RegisteredInv, FreshIsEmpty

LEMMA RegisterInstanceKeeps ==
    ASSUME RegisteredInv, NEW t \in RegTypes, RegisterInstance(t)
    PROVE  RegisteredInv'
  <1> DEFINE e == [key |-> t]
  <1>1. e \in Made /\ e.key = t
    BY DEF Made
  <1>2. prebuilt' = SetEntry(prebuilt, e) /\ UNCHANGED <<registrations, aliases>>
        /\ t \notin KeysOf(aliases) /\ regOutcome' = "none" /\ builtOrder' = << >>
    BY DEF RegisterInstance, Called, StoresUnder
  <1> HIDE DEF e
  <1>3. prebuilt' \in Seq(Made) /\ KeysOnce(prebuilt')
        /\ KeysOf(prebuilt') = KeysOf(prebuilt) \cup {t}
    BY <1>1, <1>2, SetEntryIs DEF RegisteredInv, RegTypeOK
  <1>4. RegTypeOK'
    BY <1>2, <1>3 DEF RegisteredInv, RegTypeOK, Outcomes
  <1>5. AliasesAreFlat'
    <2>1. \A i \in DOMAIN aliases : aliases[i].key # t
      BY <1>2 DEF KeysOf
    <2> QED
      BY <1>2, <1>3, <2>1 DEF RegisteredInv, AliasesAreFlat
  <1> QED
    BY <1>2, <1>4, <1>5 DEF RegisteredInv, FreshIsEmpty

LEMMA RegisterAliasKeeps ==
    ASSUME RegisteredInv, NEW t \in RegTypes, NEW a \in RegTypes, RegisterAlias(t, a)
    PROVE  RegisteredInv'
  <1> DEFINE e == [key |-> a, target |-> t]
  <1>1. e \in Renamed /\ e.key = a /\ e.target = t
    BY DEF Renamed
  <1>2. aliases' = SetEntry(aliases, e) /\ UNCHANGED <<registrations, prebuilt>>
        /\ AliasAllowed(t, a) /\ regOutcome' = "none" /\ builtOrder' = << >>
    BY DEF RegisterAlias, Called
  <1> HIDE DEF e
  <1>3. aliases' \in Seq(Renamed) /\ KeysOnce(aliases')
        /\ KeysOf(aliases') = KeysOf(aliases) \cup {a}
        /\ \A j \in DOMAIN aliases' : aliases'[j] = e \/ \E i \in DOMAIN aliases : aliases'[j] = aliases[i]
    BY <1>1, <1>2, SetEntryIs DEF RegisteredInv, RegTypeOK
  <1>4. RegTypeOK'
    BY <1>2, <1>3 DEF RegisteredInv, RegTypeOK, Outcomes
  <1>5. AliasesAreFlat'
    <2> SUFFICES ASSUME NEW j \in DOMAIN aliases'
                 PROVE  /\ aliases'[j].target \notin KeysOf(aliases) \cup {a}
                        /\ aliases'[j].key \notin KeysOf(registrations) \cup KeysOf(prebuilt)
      BY <1>2, <1>3 DEF AliasesAreFlat
    <2>1. CASE aliases'[j] = e
      BY <2>1, <1>1, <1>2 DEF AliasAllowed
    <2>2. CASE \E i \in DOMAIN aliases : aliases'[j] = aliases[i]
      BY <2>2, <1>2 DEF AliasAllowed, RegisteredInv, AliasesAreFlat
    <2> QED
      BY <2>1, <2>2, <1>3
  <1> QED
    BY <1>2, <1>4, <1>5 DEF RegisteredInv, FreshIsEmpty

(***************************************************************************)
(* topoSort                                                                *)
(***************************************************************************)
\* A sequence without repetition is as long as it has members.
LEMMA LengthCounts ==
    ASSUME NEW T, NEW s \in Seq(T), NoneTwice(s)
    PROVE  IsFiniteSet(SeqRange(s)) /\ Cardinality(SeqRange(s)) = Len(s)
  <1>1. Len(s) \in Nat /\ DOMAIN s = 1..Len(s)
    OBVIOUS
  <1>2. s \in Bijection(1..Len(s), SeqRange(s))
    <2>1. s \in [1..Len(s) -> SeqRange(s)]
      BY <1>1 DEF SeqRange
    <2>2. \A x \in SeqRange(s) : \E i \in 1..Len(s) : s[i] = x
      BY <1>1 DEF SeqRange
    <2> QED
      BY <2>1, <2>2, <1>1 DEF Bijection, Injection, IsInjective, Surjection, NoneTwice
  <1>3. ExistsBijection(1..Len(s), SeqRange(s))
    BY <1>2 DEF ExistsBijection
  <1> QED
    BY <1>1, <1>3, FS_CountingElements, FS_NatBijection

LEMMA AliasTargetIs ==
    ASSUME RegTypeOK, NEW d \in RegTypes
    PROVE  /\ aliasTarget(d) \in RegTypes
           /\ (aliasTarget(d) = d /\ Means(d) = {}) \/ Means(d) = {aliasTarget(d)}
  <1>1. CASE d \in KeysOf(aliases)
    <2>1. EntryOf(aliases, d) \in Renamed /\ EntryOf(aliases, d).key = d
          /\ PlaceOf(aliases, d) \in DOMAIN aliases
      BY <1>1, EntryIs DEF RegTypeOK
    <2>2. aliasTarget(d) = EntryOf(aliases, d).target
      BY <1>1 DEF aliasTarget
    <2>3. Means(d) = {aliases[PlaceOf(aliases, d)].target}
      BY <2>1 DEF Means, EntryOf, RegTypeOK, KeysOnce
    <2> QED
      BY <2>1, <2>2, <2>3 DEF Renamed, EntryOf
  <1>2. CASE d \notin KeysOf(aliases)
    BY <1>2 DEF aliasTarget, Means, KeysOf
  <1> QED
    BY <1>1, <1>2

LEMMA TakesIs ==
    ASSUME RegTypeOK, NEW t \in KeysOf(registrations)
    PROVE  /\ t \in RegTypes /\ LifetimeOf(t) \in Lifetimes
           /\ Takes(t) \in Seq(RegTypes) /\ Needs(t) = SeqRange(Takes(t))
  <1>1. EntryOf(registrations, t) \in Kept /\ EntryOf(registrations, t).key = t
    BY EntryIs DEF RegTypeOK
  <1> DEFINE takes == EntryOf(registrations, t).takes
  <1>2. takes \in Seq(RegTypes) /\ t \in RegTypes /\ LifetimeOf(t) \in Lifetimes
    BY <1>1 DEF Kept, LifetimeOf
  <1>3. Takes(t) = [i \in DOMAIN takes |-> aliasTarget(takes[i])]
    BY DEF Takes
  <1>4. \A x : x \in Needs(t) <=>
           /\ x \in RegTypes
           /\ \E d \in SeqRange(takes) : IF Means(d) = {} THEN x = d ELSE x \in Means(d)
    BY DEF Needs
  <1> HIDE DEF takes
  <1>5. DOMAIN takes = 1..Len(takes) /\ Len(takes) \in Nat /\ \A i \in DOMAIN takes : takes[i] \in RegTypes
    BY <1>2
  <1>6. \A d \in RegTypes : /\ aliasTarget(d) \in RegTypes
                            /\ (aliasTarget(d) = d /\ Means(d) = {}) \/ Means(d) = {aliasTarget(d)}
    BY AliasTargetIs
  <1>7. Takes(t) \in Seq(RegTypes)
    <2>1. \A i \in 1..Len(takes) : aliasTarget(takes[i]) \in RegTypes
      BY <1>5, <1>6
    <2> QED
      BY <1>3, <1>5, <2>1
  <1>8. SeqRange(Takes(t)) = {aliasTarget(d) : d \in SeqRange(takes)}
    BY <1>3 DEF SeqRange
  <1>9. SeqRange(takes) \subseteq RegTypes
    BY <1>5 DEF SeqRange
  <1>10. Needs(t) = {aliasTarget(d) : d \in SeqRange(takes)}
    <2>0. \A d \in SeqRange(takes) :
             /\ (aliasTarget(d) = d /\ Means(d) = {}) \/ Means(d) = {aliasTarget(d)}
             /\ aliasTarget(d) \in RegTypes
      BY <1>6, <1>9
    <2>2. \A x : x \in Needs(t) <=> \E d \in SeqRange(takes) : x = aliasTarget(d)
      BY <2>0, <1>4
    <2> QED
      BY <2>2
  <1> QED
    BY <1>2, <1>7, <1>8, <1>10

\* The parameters of t, by their place, that are registered and not in D.
Waits(t, D) == {i \in DOMAIN Takes(t) : Registered(Takes(t)[i]) /\ Takes(t)[i] \notin D}
UsedAt(t, d) == {i \in DOMAIN Takes(t) : Takes(t)[i] = d}

LEMMA PlacesAreFinite ==
    ASSUME RegTypeOK, NEW t \in KeysOf(registrations), NEW P \in SUBSET DOMAIN Takes(t)
    PROVE  IsFiniteSet(P) /\ Cardinality(P) \in Nat /\ (Cardinality(P) = 0 <=> P = {})
  <1>1. DOMAIN Takes(t) = 1..Len(Takes(t)) /\ Len(Takes(t)) \in Nat
    BY TakesIs
  <1>2. IsFiniteSet(1..Len(Takes(t)))
    BY <1>1, FS_Interval
  <1>3. IsFiniteSet(P)
    BY <1>1, <1>2, FS_Subset
  <1> QED
    BY <1>3, FS_CardinalityType, FS_EmptySet

\* What the head of the queue leaves a type to wait for.
LEMMA UsesCountDown ==
    ASSUME RegTypeOK, NEW t \in KeysOf(registrations), NEW D,
           NEW d \in KeysOf(registrations), d \notin D
    PROVE  /\ Cardinality(Waits(t, D \cup {d})) = Cardinality(Waits(t, D)) - Cardinality(UsedAt(t, d))
           /\ Waits(t, D) = Waits(t, D \cup {d}) \cup UsedAt(t, d)
  <1>1. Waits(t, D) = Waits(t, D \cup {d}) \cup UsedAt(t, d)
        /\ Waits(t, D \cup {d}) \cap UsedAt(t, d) = {}
    BY DEF Waits, UsedAt, Registered
  <1>2. /\ IsFiniteSet(Waits(t, D \cup {d})) /\ Cardinality(Waits(t, D \cup {d})) \in Nat
        /\ IsFiniteSet(UsedAt(t, d)) /\ Cardinality(UsedAt(t, d)) \in Nat
    <2>1. Waits(t, D \cup {d}) \in SUBSET DOMAIN Takes(t) /\ UsedAt(t, d) \in SUBSET DOMAIN Takes(t)
      BY DEF Waits, UsedAt
    <2> QED
      BY <2>1, PlacesAreFinite
  <1>3. Cardinality(Waits(t, D)) =
            Cardinality(Waits(t, D \cup {d})) + Cardinality(UsedAt(t, d)) - Cardinality({})
    BY <1>1, <1>2, FS_Union
  <1>4. Cardinality({}) = 0
    BY FS_EmptySet
  <1> QED
    BY <1>1, <1>2, <1>3, <1>4

\* The types ordered so far are in order, and those queued wait for no other.
KahnInv(s, n) ==
    /\ s \in [queue : Seq(KeysOf(registrations)), degree : [KeysOf(registrations) -> Nat],
              order : Seq(KeysOf(registrations))]
    /\ NoneTwice(s.queue) /\ NoneTwice(s.order)
    /\ SeqRange(s.queue) \cap SeqRange(s.order) = {}
    /\ \A t \in KeysOf(registrations) :
         /\ s.degree[t] = Cardinality(Waits(t, SeqRange(s.order)))
         /\ t \in SeqRange(s.queue) \cup SeqRange(s.order) <=> Waits(t, SeqRange(s.order)) = {}
    /\ \A i \in DOMAIN s.order : Waits(s.order[i], {s.order[j] : j \in 1..i - 1}) = {}
    /\ s.queue = << >> \/ Len(s.order) = n

LEMMA RegOrderIs ==
    ASSUME RegTypeOK
    PROVE  /\ RegOrder \in Seq(KeysOf(registrations)) /\ NoneTwice(RegOrder)
           /\ SeqRange(RegOrder) = KeysOf(registrations) /\ Len(RegOrder) = Len(registrations)
  <1>1. DOMAIN registrations = 1..Len(registrations) /\ Len(registrations) \in Nat
    BY DEF RegTypeOK
  <1>2. RegOrder \in Seq(KeysOf(registrations)) /\ Len(RegOrder) = Len(registrations)
    BY <1>1 DEF RegOrder, KeysOf
  <1>3. \A i \in 1..Len(registrations) : RegOrder[i] = registrations[i].key
    BY <1>1 DEF RegOrder
  <1>4. DOMAIN RegOrder = 1..Len(registrations)
    BY <1>1 DEF RegOrder
  <1>5. NoneTwice(RegOrder)
    BY <1>1, <1>2, <1>3 DEF NoneTwice, RegTypeOK, KeysOnce
  <1>6. SeqRange(RegOrder) = KeysOf(registrations)
    BY <1>1, <1>3, <1>4 DEF SeqRange, KeysOf
  <1> QED
    BY <1>2, <1>5, <1>6

\* Two sequences, one after the other.
LEMMA JoinIs ==
    ASSUME NEW T, NEW a \in Seq(T), NEW b \in Seq(T)
    PROVE  /\ a \o b \in Seq(T) /\ SeqRange(a \o b) = SeqRange(a) \cup SeqRange(b)
           /\ (NoneTwice(a) /\ NoneTwice(b) /\ SeqRange(a) \cap SeqRange(b) = {}) => NoneTwice(a \o b)
  <1> DEFINE c == a \o b
             m == Len(a)
             n == Len(b)
  <1>1. m \in Nat /\ n \in Nat /\ DOMAIN a = 1..m /\ DOMAIN b = 1..n
    OBVIOUS
  <1>2. /\ c \in Seq(T) /\ Len(c) = m + n
        /\ \A i \in 1..m + n : c[i] = IF i <= m THEN a[i] ELSE b[i - m]
    OBVIOUS
  <1>9. \A i \in 1..n : c[i + m] = b[i]
    OBVIOUS
  <1>3. DOMAIN c = 1..m + n
    BY <1>2
  <1> HIDE DEF c, m, n
  <1>4. \A i \in 1..m + n : \/ i \in 1..m /\ i <= m
                            \/ i - m \in 1..n /\ ~(i <= m)
    BY <1>1
  <1>5. \A i \in 1..m : i \in 1..m + n /\ i <= m
    BY <1>1
  <1>6. \A i \in 1..n : i + m \in 1..m + n /\ ~(i + m <= m) /\ i + m - m = i
    BY <1>1
  <1>7. SeqRange(c) = SeqRange(a) \cup SeqRange(b)
    <2>1. ASSUME NEW i \in 1..m + n PROVE c[i] \in SeqRange(a) \cup SeqRange(b)
      BY <1>1, <1>2, <1>4 DEF SeqRange
    <2>2. ASSUME NEW i \in 1..m PROVE a[i] \in SeqRange(c)
      BY <1>2, <1>3, <1>5 DEF SeqRange
    <2>3. ASSUME NEW i \in 1..n PROVE b[i] \in SeqRange(c)
      <3>2. c[i + m] = b[i] /\ i + m \in DOMAIN c
        BY <1>2, <1>3, <1>6, <1>9
      <3> QED
        BY <3>2 DEF SeqRange
    <2> QED
      BY <1>1, <1>3, <2>1, <2>2, <2>3 DEF SeqRange
  <1>8. ASSUME NoneTwice(a), NoneTwice(b), SeqRange(a) \cap SeqRange(b) = {},
               NEW i \in 1..m + n, NEW j \in 1..m + n, c[i] = c[j]
        PROVE  i = j
    <2>1. CASE i <= m /\ j <= m
      BY <2>1, <1>2, <1>4, <1>8 DEF NoneTwice, m
    <2>2. CASE ~(i <= m) /\ ~(j <= m)
      <3>1. i - m \in 1..n /\ j - m \in 1..n /\ b[i - m] = b[j - m]
        BY <2>2, <1>2, <1>4, <1>8
      <3>2. i - m = j - m
        BY <3>1, <1>8 DEF NoneTwice, n
      <3> QED
        BY <3>2, <1>1
    <2>3. ASSUME NEW k \in 1..m, NEW l \in 1..n PROVE a[k] # b[l]
      BY <1>1, <1>8 DEF SeqRange
    <2> QED
      BY <2>1, <2>2, <2>3, <1>2, <1>4, <1>8
  <1> QED
    BY <1>2, <1>7, <1>8 DEF NoneTwice, c

\* One turn of topoSortOrder's loop.
LEMMA KahnTurnKeeps ==
    ASSUME RegTypeOK, NEW s, NEW n \in Nat, KahnInv(s, n), s.queue # << >>
    PROVE  KahnInv(KahnTurn(s), n + 1)
  <1> DEFINE K == KeysOf(registrations)
             curr == Head(s.queue)
             D == SeqRange(s.order)
             E == D \cup {curr}
             degree == [t \in K |-> s.degree[t] - Cardinality(UsedAt(t, curr))]
             ready == {t \in K : Cardinality(UsedAt(t, curr)) > 0 /\ degree[t] = 0}
             rest == Tail(s.queue)
             next == Among(RegOrder, ready)
             r == KahnTurn(s)
  <1>1. s.queue \in Seq(K) /\ s.degree \in [K -> Nat] /\ s.order \in Seq(K) /\ Len(s.order) = n
    BY DEF KahnInv
  <1>2. r = [queue |-> rest \o next, degree |-> degree, order |-> Append(s.order, curr)]
    <2>1. DOMAIN s.degree = K
      BY <1>1
    <2> QED
      BY <2>1 DEF KahnTurn, UsedAt, Queued
  <1>3. curr \in K /\ curr \in SeqRange(s.queue) /\ curr \notin D
    <2> DEFINE q == s.queue
    <2>1. q \in Seq(K) /\ q # << >>
      BY <1>1
    <2> HIDE DEF q
    <2>2. q[1] = Head(q) /\ 1 \in DOMAIN q /\ q[1] \in K
      BY <2>1
    <2>3. Head(q) \in K /\ Head(q) \in SeqRange(q)
      BY <2>2 DEF SeqRange
    <2>4. SeqRange(q) \cap D = {}
      BY DEF KahnInv, q
    <2> QED
      BY <2>3, <2>4 DEF q
  <1>4. rest \in Seq(K) /\ NoneTwice(rest) /\ SeqRange(rest) = SeqRange(s.queue) \ {curr}
    <2> DEFINE q == s.queue
    <2>1. q \in Seq(K) /\ q # << >> /\ NoneTwice(q)
      BY <1>1 DEF KahnInv
    <2> HIDE DEF q
    <2>2. Len(q) \in Nat \ {0} /\ DOMAIN q = 1..Len(q)
      BY <2>1
    <2>3. /\ Tail(q) \in Seq(K) /\ Len(Tail(q)) = Len(q) - 1 /\ Head(q) = q[1]
          /\ \A i \in 1..Len(q) - 1 : Tail(q)[i] = q[i + 1]
      BY <2>1, <2>2
    <2>4. NoneTwice(Tail(q))
      <3> SUFFICES ASSUME NEW i \in 1..Len(q) - 1, NEW j \in 1..Len(q) - 1, Tail(q)[i] = Tail(q)[j]
                   PROVE  i = j
        BY <2>3 DEF NoneTwice
      <3>1. i + 1 \in 1..Len(q) /\ j + 1 \in 1..Len(q) /\ q[i + 1] = q[j + 1]
        BY <2>2, <2>3
      <3>2. i + 1 = j + 1
        BY <3>1, <2>1 DEF NoneTwice
      <3> QED
        BY <3>2
    <2>5. DOMAIN Tail(q) = 1..Len(q) - 1
      BY <2>3
    <2>6. \A i \in 1..Len(q) - 1 : i + 1 \in 1..Len(q) /\ i + 1 # 1
      BY <2>2
    <2>7. \A i \in 1..Len(q) : i = 1 \/ (i - 1 \in 1..Len(q) - 1 /\ i - 1 + 1 = i)
      BY <2>2
    <2>8. ASSUME NEW i \in 1..Len(q) - 1 PROVE Tail(q)[i] \in SeqRange(q) \ {q[1]}
      <3>1. Tail(q)[i] = q[i + 1] /\ i + 1 \in 1..Len(q) /\ i + 1 # 1 /\ 1 \in 1..Len(q)
        BY <2>2, <2>3, <2>6
      <3> QED
        BY <3>1, <2>1, <2>2 DEF NoneTwice, SeqRange
    <2>9. ASSUME NEW i \in 1..Len(q), q[i] # q[1] PROVE q[i] \in SeqRange(Tail(q))
      <3>1. i - 1 \in 1..Len(q) - 1 /\ i - 1 + 1 = i
        BY <2>7, <2>9
      <3> QED
        BY <3>1, <2>3, <2>5 DEF SeqRange
    <2>10. SeqRange(Tail(q)) = SeqRange(q) \ {Head(q)}
      BY <2>2, <2>3, <2>5, <2>8, <2>9 DEF SeqRange
    <2> QED
      BY <2>3, <2>4, <2>10 DEF q
  <1>5. next \in Seq(K) /\ NoneTwice(next) /\ SeqRange(next) = ready
    <2>1. RegOrder \in Seq(K) /\ NoneTwice(RegOrder) /\ SeqRange(RegOrder) = K
      BY RegOrderIs
    <2>2. ready \subseteq K
      OBVIOUS
    <2> HIDE DEF ready, K
    <2>3. next \in Seq(K)
      BY <2>1, AmongPicks
    <2>4. SeqRange(next) = K \cap ready /\ NoneTwice(next)
      BY <2>1, AmongMembers
    <2> QED
      BY <2>2, <2>3, <2>4
  <1>6. ASSUME NEW t \in K
        PROVE  /\ Cardinality(UsedAt(t, curr)) \in Nat
               /\ Cardinality(UsedAt(t, curr)) > 0 <=> UsedAt(t, curr) # {}
               /\ degree[t] = Cardinality(Waits(t, E)) /\ degree[t] \in Nat
               /\ degree[t] = 0 <=> Waits(t, E) = {}
               /\ Waits(t, D) = Waits(t, E) \cup UsedAt(t, curr)
               /\ Waits(t, D) = {} <=> t \in SeqRange(s.queue) \cup D
    <2>1. /\ Cardinality(Waits(t, E)) = Cardinality(Waits(t, D)) - Cardinality(UsedAt(t, curr))
          /\ Waits(t, D) = Waits(t, E) \cup UsedAt(t, curr)
      BY <1>3, UsesCountDown
    <2>2. Waits(t, E) \in SUBSET DOMAIN Takes(t) /\ UsedAt(t, curr) \in SUBSET DOMAIN Takes(t)
      BY DEF Waits, UsedAt
    <2>3. /\ Cardinality(Waits(t, E)) \in Nat /\ (Cardinality(Waits(t, E)) = 0 <=> Waits(t, E) = {})
          /\ Cardinality(UsedAt(t, curr)) \in Nat
          /\ (Cardinality(UsedAt(t, curr)) = 0 <=> UsedAt(t, curr) = {})
      BY <2>2, PlacesAreFinite
    <2>4. s.degree[t] = Cardinality(Waits(t, D))
          /\ (t \in SeqRange(s.queue) \cup D <=> Waits(t, D) = {})
      BY DEF KahnInv
    <2>5. degree[t] = s.degree[t] - Cardinality(UsedAt(t, curr))
      OBVIOUS
    <2>6. degree[t] = Cardinality(Waits(t, E))
      BY <2>1, <2>4, <2>5
    <2>7. Cardinality(UsedAt(t, curr)) > 0 <=> UsedAt(t, curr) # {}
      BY <2>3
    <2>8. degree[t] \in Nat /\ (degree[t] = 0 <=> Waits(t, E) = {})
      BY <2>3, <2>6
    <2> HIDE DEF degree, D, E, curr
    <2> QED
      BY <2>1, <2>3, <2>4, <2>6, <2>7, <2>8
  <1>7. \A t \in K : t \in ready <=> UsedAt(t, curr) # {} /\ Waits(t, E) = {}
    BY <1>6
  <1>8. degree \in [K -> Nat]
    BY <1>6
  <1> HIDE DEF r, rest, next, ready, degree
  <1>9. r.queue = rest \o next /\ r.degree = degree /\ r.order = Append(s.order, curr)
    BY <1>2
  <1>10. /\ r.order \in Seq(K) /\ Len(r.order) = n + 1 /\ r.order[n + 1] = curr
         /\ \A i \in 1..n : r.order[i] = s.order[i]
    <2> DEFINE o == s.order
    <2>1. o \in Seq(K) /\ Len(o) = n
      BY <1>1
    <2> HIDE DEF o, curr
    <2>2. /\ Append(o, curr) \in Seq(K) /\ Len(Append(o, curr)) = Len(o) + 1
          /\ Append(o, curr)[Len(o) + 1] = curr
          /\ \A i \in 1..Len(o) : Append(o, curr)[i] = o[i]
      BY <1>3, <2>1, AppendIs
    <2> QED
      BY <1>9, <2>1, <2>2 DEF o
  <1>11. DOMAIN r.order = 1..n + 1 /\ DOMAIN s.order = 1..n
    BY <1>1, <1>10
  <1>12. \A i \in 1..n + 1 : i = n + 1 \/ i \in 1..n
    OBVIOUS
  <1>13. n + 1 \in 1..n + 1 /\ \A i \in 1..n : i \in 1..n + 1
    OBVIOUS
  <1>14. SeqRange(r.order) = E
    <2>1. ASSUME NEW i \in 1..n + 1 PROVE r.order[i] \in E
      BY <1>10, <1>11, <1>12 DEF SeqRange
    <2>2. \A i \in 1..n : s.order[i] \in SeqRange(r.order)
      BY <1>10, <1>11, <1>13 DEF SeqRange
    <2>3. curr \in SeqRange(r.order)
      BY <1>10, <1>11, <1>13 DEF SeqRange
    <2> QED
      BY <1>11, <2>1, <2>2, <2>3 DEF SeqRange
  <1>15. NoneTwice(r.order)
    <2> SUFFICES ASSUME NEW i \in 1..n + 1, NEW j \in 1..n + 1, r.order[i] = r.order[j]
                 PROVE  i = j
      BY <1>10 DEF NoneTwice
    <2>1. \A k \in 1..n : s.order[k] # curr
      BY <1>3, <1>11 DEF SeqRange
    <2>2. \A k, l \in 1..n : s.order[k] = s.order[l] => k = l
      BY <1>1 DEF KahnInv, NoneTwice
    <2> QED
      BY <1>10, <1>12, <2>1, <2>2
  <1>16. SeqRange(rest) \cap ready = {} /\ ready \cap D = {} /\ ready \subseteq K /\ curr \notin ready
    <2>1. ASSUME NEW t \in ready PROVE t \in K /\ t \notin SeqRange(s.queue) \cup D
      <3>1. t \in K
        BY DEF ready
      <3> QED
        BY <3>1, <1>6, <1>7
    <2> QED
      BY <2>1, <1>3, <1>4
  <1>17. r.queue \in Seq(K) /\ NoneTwice(r.queue) /\ SeqRange(r.queue) = SeqRange(rest) \cup ready
    BY <1>4, <1>5, <1>9, <1>16, JoinIs
  <1>18. SeqRange(r.queue) \cap SeqRange(r.order) = {}
    BY <1>3, <1>4, <1>14, <1>16, <1>17 DEF KahnInv
  <1>19. ASSUME NEW t \in K
         PROVE  /\ r.degree[t] = Cardinality(Waits(t, SeqRange(r.order)))
                /\ t \in SeqRange(r.queue) \cup SeqRange(r.order) <=> Waits(t, SeqRange(r.order)) = {}
    <2>1. r.degree[t] = Cardinality(Waits(t, E))
      BY <1>6, <1>9
    <2>2. t \in SeqRange(r.queue) \cup SeqRange(r.order) <=> t \in SeqRange(s.queue) \cup D \/ t \in ready
      BY <1>3, <1>4, <1>14, <1>17
    <2>3. t \in SeqRange(s.queue) \cup D \/ t \in ready <=> Waits(t, E) = {}
      BY <1>6, <1>7
    <2> QED
      BY <2>1, <2>2, <2>3, <1>14
  <1>20. \A i \in DOMAIN r.order : Waits(r.order[i], {r.order[j] : j \in 1..i - 1}) = {}
    <2> SUFFICES ASSUME NEW i \in 1..n + 1
                 PROVE  Waits(r.order[i], {r.order[j] : j \in 1..i - 1}) = {}
      BY <1>11
    <2>1. \A j \in 1..i - 1 : r.order[j] = s.order[j]
      BY <1>10
    <2>2. {r.order[j] : j \in 1..i - 1} = {s.order[j] : j \in 1..i - 1}
      BY <2>1
    <2>3. CASE i \in 1..n
      BY <2>2, <2>3, <1>10, <1>11 DEF KahnInv
    <2>4. CASE i = n + 1
      <3>1. i - 1 = n
        BY <2>4
      <3>2. {s.order[j] : j \in 1..i - 1} = D
        BY <3>1, <1>11 DEF SeqRange
      <3>3. Waits(curr, D) = {}
        BY <1>3, <1>6
      <3> QED
        BY <2>2, <2>4, <3>2, <3>3, <1>10
    <2> QED
      BY <2>3, <2>4, <1>12
  <1>21. r \in [queue : Seq(K), degree : [K -> Nat], order : Seq(K)]
    BY <1>2, <1>8, <1>9, <1>10, <1>17
  <1> QED
    BY <1>10, <1>15, <1>17, <1>18, <1>19, <1>20, <1>21 DEF KahnInv, r
\* topoSort is what the queue has come to after as many turns as there are
\* registrations.
LEMMA TopoIsKahn ==
    ASSUME RegTypeOK
    PROVE  \E s : KahnInv(s, Len(registrations)) /\ topoSort = s.order
  <1> DEFINE K == KeysOf(registrations)
             N == Len(registrations)
             free == {t \in DOMAIN InDegree : InDegree[t] = 0}
             start == [queue |-> Among(RegOrder, free), degree |-> InDegree, order |-> << >>]
             Goes(x) == IF x.queue = << >> THEN x ELSE KahnTurn(x)
             Turn(w, n) == IF n = 0 THEN start ELSE IF w[n - 1].queue = << >> THEN w[n - 1]
                                                    ELSE KahnTurn(w[n - 1])
             u == CHOOSE w : w = [n \in 0..N |-> Turn(w, n)]
             X == {s \in [queue : Seq(K), degree : [K -> Nat], order : Seq(K)] :
                      \E n \in Nat : KahnInv(s, n)}
             F == [n \in Nat |-> [x \in X |-> Goes(x)]]
  <1>1. topoSort = u[N].order
    BY DEF topoSort
  <1>2. N \in Nat
    BY DEF RegTypeOK
  <1> HIDE DEF N, u
  <1>3. KahnInv(start, 0)
    <2>0. \A t : Waits(t, {}) = {i \in DOMAIN Takes(t) : Registered(Takes(t)[i])}
      BY DEF Waits
    <2>1. DOMAIN InDegree = K /\ \A t \in K : InDegree[t] = Cardinality(Waits(t, {}))
      BY <2>0 DEF InDegree
    <2>2. \A t \in K : Cardinality(Waits(t, {})) \in Nat /\ (Cardinality(Waits(t, {})) = 0 <=> Waits(t, {}) = {})
      <3> SUFFICES ASSUME NEW t \in K
                   PROVE  Cardinality(Waits(t, {})) \in Nat
                          /\ (Cardinality(Waits(t, {})) = 0 <=> Waits(t, {}) = {})
        OBVIOUS
      <3>1. Waits(t, {}) \in SUBSET DOMAIN Takes(t)
        BY DEF Waits
      <3> QED
        BY <3>1, PlacesAreFinite
    <2>3. InDegree \in [K -> Nat]
      <3>1. InDegree = [t \in K |-> InDegree[t]]
        BY DEF InDegree
      <3> QED
        BY <2>1, <2>2, <3>1
    <2>4. \A t \in K : t \in free <=> Waits(t, {}) = {}
      BY <2>1, <2>2
    <2>5. free \subseteq K
      BY <2>1
    <2> DEFINE queue == Among(RegOrder, free)
    <2> HIDE DEF free, K
    <2>6. queue \in Seq(K) /\ NoneTwice(queue) /\ SeqRange(queue) = free
      <3>1. RegOrder \in Seq(K) /\ NoneTwice(RegOrder) /\ SeqRange(RegOrder) = K
        BY RegOrderIs DEF K
      <3>2. queue \in Seq(K)
        BY <3>1, AmongPicks
      <3>3. SeqRange(queue) = K \cap free /\ NoneTwice(queue)
        BY <3>1, AmongMembers
      <3> QED
        BY <2>5, <3>2, <3>3
    <2>7. start.queue = queue /\ start.degree = InDegree /\ start.order = << >>
      OBVIOUS
    <2>8. start \in [queue : Seq(K), degree : [K -> Nat], order : Seq(K)]
      BY <2>3, <2>6
    <2> HIDE DEF start, queue
    <2>9. SeqRange(<< >>) = {} /\ NoneTwice(<< >>) /\ Len(<< >>) = 0 /\ DOMAIN << >> = {}
      BY DEF SeqRange, NoneTwice
    <2>10. \A t \in K : /\ InDegree[t] = Cardinality(Waits(t, {}))
                        /\ t \in free \cup {} <=> Waits(t, {}) = {}
      BY <2>1, <2>4
    <2> QED
      BY <2>6, <2>7, <2>8, <2>9, <2>10 DEF KahnInv, K
  <1> HIDE DEF start
  <1>4. ASSUME NEW x, NEW n \in Nat, KahnInv(x, n)
        PROVE  KahnInv(Goes(x), n + 1)
    <2>1. CASE x.queue = << >>
      BY <1>4, <2>1 DEF KahnInv
    <2>2. CASE x.queue # << >>
      BY <1>4, <2>2, KahnTurnKeeps
    <2> QED
      BY <2>1, <2>2
  <1>5. ASSUME NEW x, NEW n \in Nat, KahnInv(x, n) PROVE x \in X
    BY <1>5 DEF KahnInv
  <1>6. \A x \in X : \E n \in Nat : KahnInv(x, n)
    OBVIOUS
  <1> HIDE DEF Goes, X
  <1>7. \A x \in X : Goes(x) \in X
    <2> SUFFICES ASSUME NEW x \in X PROVE Goes(x) \in X
      OBVIOUS
    <2>1. PICK n \in Nat : KahnInv(x, n)
      BY <1>6
    <2> QED
      BY <2>1, <1>4, <1>5
  <1>8. Steps(F, X) /\ start \in X
    BY <1>3, <1>5, <1>7 DEF Steps
  <1>9. \A n \in Nat : \A x \in X : F[n][x] = Goes(x)
    OBVIOUS
  <1> HIDE DEF F
  <1>10. HasSequence(X, start, F)
    BY <1>8, Recursion
  <1>11. PICK f \in [Nat -> X] : f[0] = start /\ \A n \in Nat : f[n + 1] = F[n][f[n]]
    BY <1>10 DEF HasSequence
  <1> DEFINE w == [n \in 0..N |-> f[n]]
  <1>12. ASSUME NEW n \in 0..N PROVE w[n] = Turn(w, n)
    <2>1. CASE n = 0
      BY <2>1, <1>11
    <2>2. CASE n # 0
      <3>1. n - 1 \in Nat /\ n - 1 + 1 = n /\ n - 1 \in 0..N
        BY <2>2, <1>2
      <3>2. w[n] = F[n - 1][f[n - 1]] /\ w[n - 1] = f[n - 1] /\ f[n - 1] \in X
        BY <3>1, <1>11
      <3>3. w[n] = Goes(w[n - 1])
        BY <3>1, <3>2, <1>9
      <3> HIDE DEF w
      <3> QED
        BY <2>2, <3>3 DEF Goes
    <2> QED
      BY <2>1, <2>2
  <1>13. w = [n \in 0..N |-> Turn(w, n)]
    <2>1. w = [n \in 0..N |-> w[n]]
      OBVIOUS
    <2> HIDE DEF w, Turn
    <2> QED
      BY <2>1, <1>12
  <1>14. u = [n \in 0..N |-> Turn(u, n)]
    <2> HIDE DEF w, Turn
    <2> QED
      BY <1>13 DEF u
  <1> HIDE DEF w
  <1>15. \A n \in 0..N : u[n] = Turn(u, n)
    <2> HIDE DEF Turn
    <2> QED
      BY <1>14
  <1> DEFINE good == {n \in 0..N : KahnInv(u[n], n)}
  <1>16. 0 \in good
    BY <1>2, <1>3, <1>15
  <1>17. ASSUME NEW n \in 0..N - 1, n \in good PROVE n + 1 \in good
    <2>1. n + 1 \in 0..N /\ n + 1 # 0 /\ n + 1 - 1 = n /\ n \in Nat
      BY <1>2
    <2>2. u[n + 1] = Goes(u[n])
      BY <2>1, <1>15 DEF Goes
    <2>3. KahnInv(u[n], n)
      BY <1>17
    <2> QED
      BY <2>1, <2>2, <2>3, <1>4
  <1> HIDE DEF good
  <1>18. N \in good
    <2>1. \A n \in 0..N : n \in good
      BY <1>2, <1>16, <1>17, Climb
    <2> QED
      BY <1>2, <2>1
  <1> QED
    BY <1>1, <1>18 DEF good, N

InOrder(q) == \A i \in DOMAIN q : Waits(q[i], {q[j] : j \in 1..i - 1}) = {}

\* It is in order, and it orders every type exactly where none of them need
\* each other in a circle.
LEMMA TopoIsSound ==
    ASSUME RegTypeOK
    PROVE  /\ topoSort \in Seq(KeysOf(registrations)) /\ NoneTwice(topoSort)
           /\ \A i \in DOMAIN topoSort : \A d \in Needs(topoSort[i]) \cap KeysOf(registrations) :
                 \E j \in 1..i - 1 : topoSort[j] = d
           /\ Len(topoSort) = Len(registrations) => SeqRange(topoSort) = KeysOf(registrations) /\ ~Circular
           /\ Len(topoSort) # Len(registrations) => Circular
  <1> DEFINE K == KeysOf(registrations)
             N == Len(registrations)
             o == topoSort
             D == SeqRange(o)
  <1>1. PICK s : KahnInv(s, N) /\ o = s.order
    BY TopoIsKahn
  <1>2. o \in Seq(K) /\ NoneTwice(o)
    BY <1>1 DEF KahnInv
  <1>3. \A t \in K : \A P : Waits(t, P) = {} => Needs(t) \cap K \subseteq P
    <2> SUFFICES ASSUME NEW t \in K, NEW P, Waits(t, P) = {}, NEW d \in Needs(t) \cap K PROVE d \in P
      OBVIOUS
    <2>1. PICK i \in DOMAIN Takes(t) : Takes(t)[i] = d
      BY TakesIs DEF SeqRange
    <2> QED
      BY <2>1 DEF Waits, Registered
  <1>4. \A t \in K : \A P : Waits(t, P) # {} => \E d \in Needs(t) \cap K : d \notin P
    <2> SUFFICES ASSUME NEW t \in K, NEW P, NEW i \in Waits(t, P) PROVE \E d \in Needs(t) \cap K : d \notin P
      OBVIOUS
    <2>1. i \in DOMAIN Takes(t) /\ Takes(t)[i] \in K /\ Takes(t)[i] \notin P
      BY DEF Waits, Registered
    <2>2. Takes(t)[i] \in Needs(t)
      BY <2>1, TakesIs DEF SeqRange
    <2> QED
      BY <2>1, <2>2
  <1>5. \A i \in DOMAIN o : o[i] \in K
    BY <1>2
  <1>6. \A i \in DOMAIN o : Waits(o[i], {o[j] : j \in 1..i - 1}) = {}
    <2>1. InOrder(s.order)
      BY <1>1 DEF KahnInv, InOrder
    <2>2. InOrder(o)
      BY <1>1, <2>1
    <2> QED
      BY <2>2 DEF InOrder
  <1>7. \A i \in DOMAIN o : \A d \in Needs(o[i]) \cap K : \E j \in 1..i - 1 : o[j] = d
    <2> HIDE DEF K, o
    <2> SUFFICES ASSUME NEW i \in DOMAIN o, NEW d \in Needs(o[i]) \cap K
                 PROVE  \E j \in 1..i - 1 : o[j] = d
      OBVIOUS
    <2>1. d \in {o[j] : j \in 1..i - 1}
      BY <1>3, <1>5, <1>6
    <2> QED
      BY <2>1
  <1>8. Len(o) \in Nat /\ DOMAIN o = 1..Len(o) /\ D \subseteq K
    BY <1>2 DEF SeqRange
  <1>9. IsFiniteSet(K) /\ Cardinality(K) = N
    BY RegOrderIs, LengthCounts
  <1>10. Cardinality(D) = Len(o)
    BY <1>2, LengthCounts
  <1>11. Len(o) = N => D = K
    BY <1>8, <1>9, <1>10, FS_Subset
  <1>12. ASSUME D = K PROVE ~Circular
    <2> SUFFICES ASSUME NEW S \in (SUBSET K) \ {{}}, \A t \in S : Needs(t) \cap S # {} PROVE FALSE
      BY DEF Circular
    <2> HIDE DEF o
    <2> DEFINE among == {i \in Nat : i \in DOMAIN o /\ o[i] \in S}
    <2>1. among # {}
      <3>1. PICK t \in S : t \in K
        OBVIOUS
      <3>2. t \in D
        BY <3>1, <1>12
      <3> QED
        BY <3>2, <1>8 DEF SeqRange
    <2>2. PICK m \in among : \A n \in among : m <= n
      BY <2>1, LeastNumber
    <2>3. PICK d \in S : d \in Needs(o[m])
      BY <2>2
    <2>4. PICK j \in 1..m - 1 : o[j] = d
      BY <2>2, <2>3, <1>7
    <2>5. j \in DOMAIN o /\ j \in Nat /\ ~(m <= j)
      BY <2>2, <1>8
    <2> QED
      BY <2>2, <2>4, <2>5
  <1>13. ASSUME Len(o) # N PROVE Circular
    <2>1. D # K
      BY <1>9, <1>10, <1>13
    <2>2. s.queue = << >>
      BY <1>1, <1>13 DEF KahnInv
    <2>3. SeqRange(s.queue) = {}
      BY <2>2 DEF SeqRange
    <2> DEFINE S == K \ D
    <2>4. S # {} /\ S \in SUBSET K
      BY <2>1, <1>8
    <2>5. ASSUME NEW t \in S PROVE Needs(t) \cap S # {}
      <3>1. t \notin SeqRange(s.queue) \cup SeqRange(s.order)
        BY <1>1, <2>3
      <3>2. Waits(t, D) # {}
        BY <1>1, <3>1 DEF KahnInv
      <3> QED
        BY <3>2, <1>4
    <2> QED
      BY <2>4, <2>5 DEF Circular
  <1> QED
    BY <1>2, <1>7, <1>11, <1>12, <1>13

(***************************************************************************)
(* BuildAll                                                                *)
(***************************************************************************)
Unbuilt == {t \in KeysOf(registrations) : LifetimeOf(t) = "singleton" /\ ~HasInstance(t)}

\* What is built is a start of what there is to build, none of which fails,
\* in an order where nothing comes before what it needs.
LEMMA BuildableIs ==
    ASSUME RegTypeOK
    PROVE  /\ Buildable \in Seq(KeysOf(registrations)) /\ NoneTwice(Buildable)
           /\ SeqRange(Buildable) = SeqRange(topoSort) \cap Unbuilt
           /\ \A i, j \in 1..Len(Buildable) : Buildable[j] \in Needs(Buildable[i]) => j < i
  <1> DEFINE K == KeysOf(registrations)
             o == topoSort
             b == Buildable
  <1>1. b = Among(o, Unbuilt)
    BY DEF Buildable, Unbuilt
  <1>2. /\ o \in Seq(K) /\ NoneTwice(o)
        /\ \A i \in DOMAIN o : \A d \in Needs(o[i]) \cap K : \E j \in 1..i - 1 : o[j] = d
    BY TopoIsSound
  <1> HIDE DEF o, b, K
  <1>3. b \in Seq(K) /\ NoneTwice(b) /\ SeqRange(b) = SeqRange(o) \cap Unbuilt
    BY <1>1, <1>2, AmongPicks, AmongMembers
  <1>4. PICK e : Picks(b, o, Len(o), Unbuilt, e)
    BY <1>1, <1>2, AmongPicks
  <1>5. ASSUME NEW i \in 1..Len(b), NEW j \in 1..Len(b), b[j] \in Needs(b[i])
        PROVE  j < i
    <2>1. e[i] \in 1..Len(o) /\ e[j] \in 1..Len(o) /\ b[i] = o[e[i]] /\ b[j] = o[e[j]]
      BY <1>4 DEF Picks
    <2>2. b[j] \in K
      BY <1>3
    <2>3. Len(o) \in Nat /\ DOMAIN o = 1..Len(o) /\ Len(b) \in Nat
      BY <1>2, <1>3
    <2>4. PICK k \in 1..e[i] - 1 : o[k] = b[j]
      BY <1>2, <1>5, <2>1, <2>2, <2>3
    <2>5. k \in 1..Len(o) /\ k < e[i]
      BY <2>1, <2>3
    <2>6. k = e[j]
      BY <2>1, <2>4, <2>5, <1>2 DEF NoneTwice
    <2>7. e[j] < e[i] /\ ~(e[i] < e[j]) /\ e[i] # e[j]
      BY <2>1, <2>3, <2>5, <2>6
    <2>8. ~(i < j) /\ i # j
      BY <1>4, <2>7 DEF Picks
    <2> QED
      BY <2>3, <2>8
  <1> QED
    BY <1>3, <1>5 DEF b, o, K

LEMMA BuiltNowIs ==
    ASSUME RegTypeOK
    PROVE  \E n \in 0..Len(Buildable) :
              /\ BuiltNow \in Seq(KeysOf(registrations)) /\ Len(BuiltNow) = n
              /\ \A i \in 1..n : BuiltNow[i] = Buildable[i] /\ ~Fails(Buildable[i])
  <1> DEFINE b == Buildable
             K == KeysOf(registrations)
             S == {i \in DOMAIN b : Fails(b[i])} \cup {Len(b) + 1}
             m == Min(S)
  <1>1. b \in Seq(K)
    BY BuildableIs
  <1>2. BuiltNow = SubSeq(b, 1, m - 1)
    BY DEF BuiltNow
  <1> HIDE DEF b, K
  <1>3. Len(b) \in Nat /\ DOMAIN b = 1..Len(b)
    BY <1>1
  <1>4. S \in SUBSET Nat /\ S # {}
    BY <1>3
  <1>5. \E x \in S : \A y \in S : x <= y
    <2> HIDE DEF S
    <2> QED
      BY <1>4, LeastNumber
  <1>6. m \in S /\ \A y \in S : m <= y
    <2> HIDE DEF S
    <2> QED
      BY <1>5 DEF Min
  <1>7. m \in 1..Len(b) + 1
    BY <1>3, <1>6
  <1>8. ASSUME NEW i \in 1..m - 1 PROVE ~Fails(b[i])
    <2>1. i \in DOMAIN b /\ ~(m <= i)
      BY <1>3, <1>7
    <2> QED
      BY <1>6, <2>1
  <1> HIDE DEF m, S
  <1>9. /\ SubSeq(b, 1, m - 1) \in Seq(K) /\ Len(SubSeq(b, 1, m - 1)) = m - 1
        /\ \A i \in 1..m - 1 : SubSeq(b, 1, m - 1)[i] = b[i]
    BY <1>1, <1>3, <1>7
  <1> QED
    <2>1. m - 1 \in 0..Len(b)
      BY <1>3, <1>7
    <2> QED
      BY <1>2, <1>8, <1>9, <2>1 DEF b, K

\* What is built is none of what there is, and is there when it has been.
LEMMA InstancesAre ==
    ASSUME NEW pre \in Seq(Made), KeysOnce(pre), NEW b \in Seq(RegTypes), NoneTwice(b),
           \A i \in 1..Len(b) : b[i] \notin KeysOf(pre)
    PROVE  LET post == pre \o [i \in DOMAIN b |-> [key |-> b[i]]]
           IN post \in Seq(Made) /\ KeysOnce(post) /\ KeysOf(post) = KeysOf(pre) \cup SeqRange(b)
  <1> DEFINE made == [i \in DOMAIN b |-> [key |-> b[i]]]
             post == pre \o made
             m == Len(pre)
             n == Len(b)
  <1>0. m \in Nat /\ n \in Nat
    OBVIOUS
  <1>1. DOMAIN pre = 1..m /\ DOMAIN b = 1..n /\ \A i \in 1..n : b[i] \in RegTypes
    OBVIOUS
  <1>2. made \in Seq(Made) /\ Len(made) = n /\ \A i \in 1..n : made[i].key = b[i]
    BY <1>0, <1>1 DEF Made
  <1> HIDE DEF made
  <1>3. /\ post \in Seq(Made) /\ Len(post) = m + n
        /\ \A i \in 1..m + n : post[i] = IF i <= m THEN pre[i] ELSE made[i - m]
    BY <1>2
  <1>4. \A i \in 1..n : post[i + m] = made[i]
    BY <1>2
  <1>5. DOMAIN post = 1..m + n
    BY <1>3
  <1> HIDE DEF post, m, n
  <1>6. \A i \in 1..m + n : \/ i \in 1..m /\ i <= m
                            \/ i - m \in 1..n /\ ~(i <= m)
    BY <1>0
  <1>7. \A i \in 1..m : i \in 1..m + n /\ i <= m
    BY <1>0
  <1>8. \A i \in 1..n : i + m \in 1..m + n
    BY <1>0
  <1>9. KeysOf(post) = KeysOf(pre) \cup SeqRange(b)
    <2>1. ASSUME NEW i \in 1..m + n PROVE post[i].key \in KeysOf(pre) \cup SeqRange(b)
      BY <1>1, <1>2, <1>3, <1>6 DEF KeysOf, SeqRange
    <2>2. ASSUME NEW i \in 1..m PROVE pre[i].key \in KeysOf(post)
      BY <1>3, <1>5, <1>7 DEF KeysOf
    <2>3. ASSUME NEW i \in 1..n PROVE b[i] \in KeysOf(post)
      <3>1. post[i + m].key = b[i] /\ i + m \in DOMAIN post
        BY <1>2, <1>4, <1>5, <1>8
      <3> QED
        BY <3>1 DEF KeysOf
    <2> QED
      BY <1>1, <1>5, <2>1, <2>2, <2>3 DEF KeysOf, SeqRange
  <1>10. ASSUME NEW i \in 1..m + n, NEW j \in 1..m + n, post[i].key = post[j].key
         PROVE  i = j
    <2>1. CASE i <= m /\ j <= m
      BY <2>1, <1>0, <1>1, <1>3, <1>6, <1>10 DEF KeysOnce
    <2>2. CASE ~(i <= m) /\ ~(j <= m)
      <3>1. i - m \in 1..n /\ j - m \in 1..n /\ b[i - m] = b[j - m]
        BY <2>2, <1>2, <1>3, <1>6, <1>10
      <3>2. i - m = j - m
        BY <3>1 DEF NoneTwice, n
      <3> QED
        BY <3>2, <1>0
    <2>3. ASSUME NEW k \in 1..m, NEW l \in 1..n PROVE pre[k].key # b[l]
      BY <1>1 DEF KeysOf, n
    <2> QED
      BY <2>1, <2>2, <2>3, <1>2, <1>3, <1>6, <1>10
  <1>11. KeysOnce(post)
    BY <1>5, <1>10 DEF KeysOnce
  <1> QED
    BY <1>3, <1>9, <1>11 DEF post, made

\* What a parameter stands for is no alias.
LEMMA TargetIsNoAlias ==
    ASSUME RegTypeOK, AliasesAreFlat, NEW t \in KeysOf(registrations), NEW d \in Needs(t)
    PROVE  aliasTarget(d) = d
  <1>1. PICK e \in SeqRange(EntryOf(registrations, t).takes) :
           IF Means(e) = {} THEN d = e ELSE d \in Means(e)
    BY DEF Needs
  <1>2. Means(d) = {} \/ d \notin KeysOf(aliases)
    BY <1>1 DEF Means, AliasesAreFlat
  <1>3. d \notin KeysOf(aliases)
    BY <1>2 DEF Means, KeysOf
  <1> QED
    BY <1>3 DEF aliasTarget

LEMMA RegStutters ==
    ASSUME RegInv, UNCHANGED regVars
    PROVE  RegInv'
  <1>1. /\ UNCHANGED <<registrations, prebuilt, aliases>> /\ regOutcome' = regOutcome
        /\ builtOrder' = builtOrder
    BY DEF regVars
  <1>2. \A t : /\ Needs(t)' = Needs(t) /\ LifetimeOf(t)' = LifetimeOf(t)
               /\ HasInstance(t)' <=> HasInstance(t)
    BY <1>1 DEF Needs, Means, LifetimeOf, HasInstance
  <1>3. Circular' <=> Circular
    BY <1>1, <1>2 DEF Circular
  <1>4. RegisteredInv'
    BY <1>1 DEF RegInv, RegisteredInv, RegTypeOK, AliasesAreFlat, FreshIsEmpty
  <1>5. BuildIsSound'
    BY <1>1, <1>2, <1>3 DEF RegInv, BuildIsSound
  <1> QED
    BY <1>4, <1>5 DEF RegInv

LEMMA BuildAllKeeps ==
    ASSUME RegInv, BuildAll
    PROVE  RegInv'
  <1> DEFINE K == KeysOf(registrations)
             new == BuiltNow
             made == [i \in DOMAIN new |-> [key |-> new[i]]]
  <1>0. RegTypeOK /\ AliasesAreFlat /\ UNCHANGED <<registrations, aliases>>
    BY DEF RegInv, RegisteredInv, BuildAll
  <1>1. \A t : Needs(t)' = Needs(t) /\ LifetimeOf(t)' = LifetimeOf(t)
    BY <1>0 DEF Needs, Means, LifetimeOf
  <1>2. Circular' <=> Circular
    BY <1>0, <1>1 DEF Circular
  <1>3. CASE BuildResult # "order"
    <2>1. regOutcome' = BuildResult /\ UNCHANGED <<prebuilt, builtOrder>> /\ builtOrder = << >>
      BY <1>3 DEF BuildAll, RegInv, RegisteredInv, FreshIsEmpty
    <2>2. BuildResult \in {"shape", "alias", "captive", "circular"}
          /\ (BuildResult = "circular" => Len(topoSort) # Len(registrations))
      BY <1>3 DEF BuildResult
    <2>3. RegisteredInv'
      BY <1>0, <2>1, <2>2 DEF RegisteredInv, RegTypeOK, AliasesAreFlat, FreshIsEmpty, Outcomes
    <2>4. regOutcome' = "circular" => Circular
      BY <1>0, <2>1, <2>2, TopoIsSound
    <2>5. BuildIsSound'
      BY <1>2, <2>1, <2>2, <2>4 DEF BuildIsSound
    <2> QED
      BY <2>3, <2>5 DEF RegInv
  <1>4. CASE BuildResult = "order"
    <2>1. /\ ValidLifetimes /\ Len(topoSort) = Len(registrations)
      BY <1>4 DEF BuildResult
    <2>2. /\ builtOrder' = new /\ prebuilt' = prebuilt \o made
          /\ regOutcome' = IF new = Buildable THEN "ok" ELSE "missing"
      BY <1>4 DEF BuildAll
    <2>3. SeqRange(topoSort) = K /\ ~Circular
      BY <1>0, <2>1, TopoIsSound
    <2>4. /\ Buildable \in Seq(K) /\ NoneTwice(Buildable) /\ SeqRange(Buildable) = Unbuilt
          /\ \A i, j \in 1..Len(Buildable) : Buildable[j] \in Needs(Buildable[i]) => j < i
      BY <1>0, <2>3, BuildableIs DEF Unbuilt
    <2>5. PICK n \in 0..Len(Buildable) :
             /\ new \in Seq(K) /\ Len(new) = n
             /\ \A i \in 1..n : new[i] = Buildable[i] /\ ~Fails(Buildable[i])
      BY <1>0, BuiltNowIs
    <2> HIDE DEF new
    <2>6. /\ Len(Buildable) \in Nat /\ DOMAIN Buildable = 1..Len(Buildable) /\ DOMAIN new = 1..n
          /\ \A i \in 1..n : i \in 1..Len(Buildable)
      BY <2>4, <2>5
    <2>7. NoneTwice(new) /\ SeqRange(new) \subseteq Unbuilt
      <3>1. \A i \in 1..Len(Buildable) : Buildable[i] \in Unbuilt
        BY <2>4, <2>6 DEF SeqRange
      <3>2. SeqRange(new) \subseteq Unbuilt
        BY <2>5, <2>6, <3>1 DEF SeqRange
      <3>3. NoneTwice(new)
        BY <2>4, <2>5, <2>6 DEF NoneTwice
      <3> QED
        BY <3>2, <3>3
    <2>8. new \in Seq(RegTypes) /\ \A i \in 1..n : new[i] \in K /\ new[i] \notin KeysOf(prebuilt)
      <3>1. K \subseteq RegTypes
        BY <1>0, TakesIs
      <3>2. \A i \in 1..n : new[i] \in Unbuilt
        BY <2>6, <2>7 DEF SeqRange
      <3> QED
        BY <2>5, <2>6, <3>1, <3>2 DEF Unbuilt, HasInstance
    <2>9. /\ prebuilt' \in Seq(Made) /\ KeysOnce(prebuilt')
          /\ KeysOf(prebuilt') = KeysOf(prebuilt) \cup SeqRange(new)
      BY <1>0, <2>2, <2>5, <2>7, <2>8, InstancesAre DEF RegTypeOK
    <2>10. RegTypeOK'
      BY <1>0, <2>2, <2>8, <2>9 DEF RegTypeOK, Outcomes
    <2>11. AliasesAreFlat'
      <3>1. SeqRange(new) \subseteq K
        BY <2>6, <2>8 DEF SeqRange
      <3> QED
        BY <1>0, <2>9, <3>1 DEF AliasesAreFlat
    <2>12. FreshIsEmpty'
      BY <2>2 DEF FreshIsEmpty
    <2>13. \A i, j \in DOMAIN new : new[j] \in Needs(new[i]) => j < i
      BY <2>4, <2>5, <2>6
    <2>14. ASSUME new = Buildable, NEW t \in K, LifetimeOf(t) = "singleton"
           PROVE  /\ HasInstance(t)'
                  /\ t \in SeqRange(new) => \A d \in Needs(t) : HasInstance(d)'
      <3>1. \A x \in K : LifetimeOf(x) = "singleton" => x \in KeysOf(prebuilt')
        BY <2>4, <2>9, <2>14 DEF Unbuilt, HasInstance
      <3>2. ASSUME t \in SeqRange(new), NEW d \in Needs(t)
            PROVE  d \in KeysOf(prebuilt')
        <4>1. Takes(t) \in Seq(RegTypes) /\ Needs(t) = SeqRange(Takes(t))
          BY <1>0, TakesIs
        <4>2. PICK i \in DOMAIN Takes(t) : Takes(t)[i] = d
          BY <3>2, <4>1 DEF SeqRange
        <4>3. ~Fails(t)
          BY <2>5, <2>6, <3>2 DEF SeqRange
        <4>4. CanResolveType(d)
          BY <4>2, <4>3 DEF Fails
        <4>5. aliasTarget(d) = d
          BY <1>0, <3>2, TargetIsNoAlias
        <4>6. ~Captive(t, d)
          BY <2>1, <4>2 DEF ValidLifetimes
        <4> QED
          BY <2>9, <2>14, <3>1, <4>4, <4>5, <4>6 DEF CanResolveType, Captive, HasInstance, Registered
      <3> QED
        BY <3>1, <3>2, <2>14 DEF HasInstance
    <2>15. BuildIsSound'
      <3>1. regOutcome' \in {"ok", "missing"} /\ (regOutcome' = "ok" => new = Buildable)
        BY <2>2
      <3>2. ~Circular'
        BY <1>2, <2>3
      <3>3. (\A i, j \in DOMAIN builtOrder : builtOrder[j] \in Needs(builtOrder[i]) => j < i)'
        BY <1>1, <2>2, <2>13
      <3>4. ASSUME regOutcome' = "ok", NEW t \in KeysOf(registrations)', LifetimeOf(t)' = "singleton"
            PROVE  /\ HasInstance(t)'
                   /\ t \in SeqRange(builtOrder)' => \A d \in Needs(t)' : HasInstance(d)'
        <4>1. t \in K /\ LifetimeOf(t) = "singleton" /\ new = Buildable
          BY <1>0, <1>1, <3>1, <3>4
        <4>2. Needs(t)' = Needs(t) /\ SeqRange(builtOrder)' = SeqRange(new)
          BY <1>1, <2>2
        <4> QED
          BY <2>14, <4>1, <4>2
      <3> QED
        BY <3>1, <3>2, <3>3, <3>4 DEF BuildIsSound
    <2> QED
      BY <2>10, <2>11, <2>12, <2>15 DEF RegInv, RegisteredInv
  <1> QED
    BY <1>3, <1>4

\* Whatever is registered and built, in whatever order, no alias leads to
\* another one, and BuildAll says what is so of the constructors.
THEOREM RegistrationIsHeld == RegSpec => []RegistrationHolds
  <1>1. RegInit => RegInv
    <2> SUFFICES ASSUME RegInit PROVE RegInv
      OBVIOUS
    <2>1. /\ registrations = << >> /\ prebuilt = << >> /\ aliases = << >>
          /\ regOutcome = "none" /\ builtOrder = << >>
      BY DEF RegInit
    <2> QED
      BY <2>1 DEF RegInv, RegisteredInv, RegTypeOK, AliasesAreFlat, FreshIsEmpty, BuildIsSound,
                  KeysOnce, KeysOf, Outcomes
  <1>2. ASSUME RegInv, [RegNext]_regVars PROVE RegInv'
    <2>0. RegisteredInv
      BY <1>2 DEF RegInv
    <2>1. ASSUME RegisteredInv', regOutcome' = "none", builtOrder' = << >> PROVE RegInv'
      BY <2>1 DEF RegInv, BuildIsSound
    <2>2. CASE BuildAll
      BY <1>2, <2>2, BuildAllKeeps
    <2>3. ASSUME NEW t \in RegTypes, RegisterInstance(t) PROVE RegInv'
      BY <2>0, <2>1, <2>3, RegisterInstanceKeeps DEF RegisterInstance, Called
    <2>4. ASSUME NEW t \in RegTypes, NEW a \in RegTypes, RegisterAlias(t, a) PROVE RegInv'
      BY <2>0, <2>1, <2>4, RegisterAliasKeeps DEF RegisterAlias, Called
    <2>5. ASSUME NEW t \in RegTypes, NEW ctor \in Signatures, NEW lifetime \in Lifetimes,
                 RegisterService(t, ctor, lifetime)
          PROVE  RegInv'
      BY <2>0, <2>1, <2>5, RegisterServiceKeeps DEF RegisterService, Called
    <2>6. CASE UNCHANGED regVars
      BY <1>2, <2>6, RegStutters
    <2> QED
      BY <1>2, <2>2, <2>3, <2>4, <2>5, <2>6 DEF RegNext
  <1>3. RegInv => RegistrationHolds
    BY DEF RegInv, RegisteredInv, RegistrationHolds
  <1> QED
    BY <1>1, <1>2, <1>3, PTL DEF RegSpec
=============================================================================
