--------------------------- MODULE BackendProofs ---------------------------
(***************************************************************************)
(* Proofs about modules LogSender, Database, JobQueue, MemoryCache,        *)
(* ValkeyCache, S3Store and ObjectListing. These share no state.           *)
(*                                                                         *)
(* RecordsArePostedInOrder: posted, the batch and the queue, one after the *)
(* other, are the records from 1 to the last one logged (NoneSkipped), and *)
(* whoever is answered after the next post has all it waits for in posted  *)
(* or in the batch (FlushServed, CloseServed).                             *)
(*                                                                         *)
(* TransactionsAreHeld: the one open handle is s.db while the service is   *)
(* up or closing (HandleHeld), and a transaction that is committed before  *)
(* WithTx decides was committed by fn (Undecided).                         *)
(*                                                                         *)
(* OnlyDeletesRemove: an action property of the memory cache; all the      *)
(* invariant has to say is that a nil map has no entries.                  *)
(*                                                                         *)
(* UploadsAreHeld: the bytes of a body are in parts, in the buffer or      *)
(* still to be read, and a write begins with none left and as many as were *)
(* declared (BytesAreCounted).                                             *)
(*                                                                         *)
(* ClosedIsAlwaysSaid: an error that a closed or replaced client caused is *)
(* answered with cache.ErrClosed. The argument follows the two reads of    *)
(* closedDuring: while the flag is clear the current client is open, so a  *)
(* command whose client is dead finds the flag set or another client; and  *)
(* numbers of clients are not used twice.                                  *)
(*                                                                         *)
(* DeletedIsHandled: no job is deleted that nobody has handled. A consumer *)
(* about to settle holds a verdict on the first job of its batch, and a    *)
(* good one means that this very job has been handled; only such a verdict *)
(* leads to an Ack.                                                        *)
(*                                                                         *)
(* PagesAreCovered: what nobody touches and is not answered yet comes      *)
(* after the name the next page resumes at, is on the page, or comes after *)
(* all of a page that is truncated (NoneLeftOut).                          *)
(***************************************************************************)
EXTENDS LogSender, Database, JobQueue, MemoryCache, ValkeyCache, S3Store, ObjectListing,
        WellFoundedInduction, TLAPS

(***************************************************************************)
(* Log shipping: what was logged is posted, in the batch or in the queue   *)
(***************************************************************************)
LogTypeOK ==
    /\ queue \in Seq(Nat) /\ unsent \in Seq(Nat) /\ posted \in Seq(Nat) /\ logged \in Nat
    /\ sender \in {"select", "drain", "post", "returned"}
    /\ serves \in Flushers \cup {"stop", "none"} /\ stopped \in BOOLEAN
    /\ flusher \in [Flushers -> [at : {"idle", "send", "wait", "flushed", "noop"}, upto : Nat]]
    /\ closer \in [Closers -> {"idle", "wait", "closed"}] /\ atClose \in Nat

\* posted, then unsent, then queue are the numbers from 1 to logged.
NoneSkipped ==
    /\ Len(posted) + Len(unsent) + Len(queue) = logged
    /\ \A i \in 1..Len(posted) : posted[i] = i
    /\ \A i \in 1..Len(unsent) : unsent[i] = Len(posted) + i
    /\ \A i \in 1..Len(queue) : queue[i] = Len(posted) + Len(unsent) + i

\* The flush that run serves, and what its batch covers once it is drained.
FlushServed ==
    /\ sender \in {"select", "returned"} => serves = "none"
    /\ \A f \in Flushers :
          /\ flusher[f].upto <= logged
          /\ serves = f => flusher[f].at = "wait"
          /\ sender = "post" /\ serves = f => flusher[f].upto <= Len(posted) + Len(unsent)
          /\ flusher[f].at = "flushed" => flusher[f].upto <= Len(posted)

CloseServed ==
    /\ atClose <= logged
    /\ serves = "stop" \/ sender = "returned" => stopped
    /\ sender = "post" /\ serves = "stop" => atClose <= Len(posted) + Len(unsent)
    /\ sender = "returned" => atClose <= Len(posted)
    /\ \A c \in Closers : closer[c] = "closed" => sender = "returned"

LogInv == LogTypeOK /\ NoneSkipped /\ FlushServed /\ CloseServed

\* The sender starts with nothing.
LEMMA InitLog == LogInit => LogInv
  <1> SUFFICES ASSUME LogInit PROVE LogInv
    OBVIOUS
  <1>1. LogTypeOK
    <2>1. << >> \in Seq(Nat)
      OBVIOUS
    <2>2. queue \in Seq(Nat) /\ unsent \in Seq(Nat) /\ posted \in Seq(Nat) /\ logged \in Nat /\ atClose \in Nat
      BY <2>1 DEF LogInit
    <2>3. flusher \in [Flushers -> [at : {"idle", "send", "wait", "flushed", "noop"}, upto : Nat]]
      BY DEF LogInit
    <2>4. closer \in [Closers -> {"idle", "wait", "closed"}]
      BY DEF LogInit
    <2> QED
      BY <2>2, <2>3, <2>4 DEF LogInit, LogTypeOK
  <1>2. Len(queue) = 0 /\ Len(unsent) = 0 /\ Len(posted) = 0
    BY DEF LogInit
  <1>3. NoneSkipped
    BY <1>2 DEF LogInit, NoneSkipped
  <1>4. FlushServed /\ CloseServed
    BY <1>2, LogAssumption DEF LogInit, FlushServed, CloseServed
  <1> QED
    BY <1>1, <1>3, <1>4 DEF LogInv

\* A record is numbered as it is accepted.
LEMMA EnqueueLog == ASSUME LogInv, enqueue PROVE LogInv'
  <1>1. LogTypeOK' /\ Len(queue') = Len(queue) + 1
    BY DEF LogInv, LogTypeOK, enqueue
  <1>2. NoneSkipped'
    <2>1. \A i \in 1..Len(queue') : queue'[i] = IF i <= Len(queue) THEN queue[i] ELSE logged + 1
      BY DEF LogInv, LogTypeOK, enqueue
    <2> QED
      BY <1>1, <2>1 DEF LogInv, LogTypeOK, NoneSkipped, enqueue
  <1>3. FlushServed' /\ CloseServed'
    BY DEF LogInv, LogTypeOK, FlushServed, CloseServed, enqueue
  <1> QED
    BY <1>1, <1>2, <1>3 DEF LogInv

\* A record goes from the head of the queue to the end of the batch.
LEMMA OneRecordTaken ==
    ASSUME LogTypeOK, NoneSkipped, queue # << >>,
           unsent' = Append(unsent, Head(queue)), queue' = Tail(queue), UNCHANGED <<posted, logged>>
    PROVE  /\ NoneSkipped' /\ queue' \in Seq(Nat) /\ unsent' \in Seq(Nat)
           /\ Len(unsent') = Len(unsent) + 1
  <1>1. /\ queue' \in Seq(Nat) /\ unsent' \in Seq(Nat)
        /\ Len(unsent') = Len(unsent) + 1 /\ Len(queue') = Len(queue) - 1
        /\ Len(queue) \in Nat \ {0} /\ Len(unsent) \in Nat /\ Len(posted) \in Nat
    BY DEF LogTypeOK
  <1>2. \A i \in 1..Len(queue') : i + 1 \in 1..Len(queue) /\ queue'[i] = queue[i + 1]
    BY <1>1 DEF LogTypeOK
  <1>3. \A i \in 1..Len(unsent') : unsent'[i] = IF i <= Len(unsent) THEN unsent[i] ELSE queue[1]
    BY <1>1 DEF LogTypeOK
  <1>4. queue[1] = Len(posted) + Len(unsent) + 1
    <2>1. 1 \in 1..Len(queue)
      BY <1>1
    <2> QED
      BY <2>1 DEF NoneSkipped
  <1>5. ASSUME NEW i \in 1..Len(unsent') PROVE unsent'[i] = Len(posted) + i
    <2>1. CASE i <= Len(unsent)
      <3>1. i \in 1..Len(unsent)
        BY <1>1, <2>1
      <3> QED
        BY <1>3, <2>1, <3>1 DEF NoneSkipped
    <2>2. CASE ~(i <= Len(unsent))
      <3>1. i = Len(unsent) + 1
        BY <1>1, <2>2
      <3> QED
        BY <1>1, <1>3, <1>4, <2>2, <3>1
    <2> QED
      BY <2>1, <2>2
  <1>6. ASSUME NEW i \in 1..Len(queue') PROVE queue'[i] = Len(posted) + Len(unsent') + i
    <2>1. queue[i + 1] = Len(posted) + Len(unsent) + (i + 1)
      BY <1>2 DEF NoneSkipped
    <2> QED
      BY <1>1, <1>2, <2>1
  <1>7. \A i \in 1..Len(posted') : posted'[i] = i
    BY DEF NoneSkipped
  <1>8. Len(posted') + Len(unsent') + Len(queue') = logged'
    <2>1. Len(posted) + Len(unsent) + Len(queue) = logged
      BY DEF NoneSkipped
    <2>2. posted' = posted /\ logged' = logged
      OBVIOUS
    <2>3. Len(posted') = Len(posted)
      BY <2>2
    <2> QED
      BY <1>1, <2>1, <2>2, <2>3
  <1> QED
    BY <1>1, <1>5, <1>6, <1>7, <1>8 DEF NoneSkipped

\* run takes a record, which fills the batch or does not.
LEMMA RunTakesLog == ASSUME LogInv, RunTakes PROVE LogInv'
  <1>1. /\ NoneSkipped' /\ queue' \in Seq(Nat) /\ unsent' \in Seq(Nat)
        /\ Len(unsent') = Len(unsent) + 1
    BY OneRecordTaken DEF LogInv, RunTakes
  <1>2. LogTypeOK'
    BY <1>1 DEF LogInv, LogTypeOK, RunTakes
  <1>3. FlushServed' /\ CloseServed'
    BY <1>1, LogAssumption DEF LogInv, LogTypeOK, FlushServed, CloseServed, RunTakes
  <1> QED
    BY <1>1, <1>2, <1>3 DEF LogInv

\* The queue found empty, the batch holds all that was accepted.
LEMMA DrainLog == ASSUME LogInv, Drain PROVE LogInv'
  <1>1. CASE queue = << >>
    <2>1. Len(queue) = 0 /\ UNCHANGED <<queue, unsent, posted, logged>>
      BY <1>1 DEF Drain
    <2>2. LogTypeOK' /\ NoneSkipped'
      BY <1>1, <2>1 DEF LogInv, LogTypeOK, NoneSkipped, Drain
    <2>3. Len(posted) + Len(unsent) = logged
      BY <2>1 DEF LogInv, NoneSkipped, LogTypeOK
    <2>4. FlushServed' /\ CloseServed'
      BY <1>1, <2>3 DEF LogInv, LogTypeOK, FlushServed, CloseServed, Drain
    <2> QED
      BY <2>2, <2>4 DEF LogInv
  <1>2. CASE queue # << >>
    <2>1. /\ NoneSkipped' /\ queue' \in Seq(Nat) /\ unsent' \in Seq(Nat)
          /\ Len(unsent') = Len(unsent) + 1
      BY <1>2, OneRecordTaken DEF LogInv, Drain
    <2>2. LogTypeOK'
      BY <1>2, <2>1 DEF LogInv, LogTypeOK, Drain
    <2>3. FlushServed' /\ CloseServed'
      BY <1>2, <2>1 DEF LogInv, LogTypeOK, FlushServed, CloseServed, Drain
    <2> QED
      BY <2>1, <2>2, <2>3 DEF LogInv
  <1> QED
    BY <1>1, <1>2

\* A post hands on the whole batch and answers whom it serves.
LEMMA PostLog == ASSUME LogInv, Post PROVE LogInv'
  <1>1. /\ posted' = posted \o unsent /\ unsent' = << >> /\ UNCHANGED <<queue, logged>>
        /\ Len(posted') = Len(posted) + Len(unsent) /\ Len(unsent') = 0
        /\ posted' \in Seq(Nat) /\ unsent' \in Seq(Nat)
        /\ Len(posted) \in Nat /\ Len(unsent) \in Nat
    BY DEF Post, Rest, LogInv, LogTypeOK
  <1>2. \A i \in 1..Len(posted') : posted'[i] = IF i <= Len(posted) THEN posted[i] ELSE unsent[i - Len(posted)]
    BY <1>1 DEF LogInv, LogTypeOK
  <1>3. \A i \in 1..Len(posted') : posted'[i] = i
    <2> SUFFICES ASSUME NEW i \in 1..Len(posted') PROVE posted'[i] = i
      OBVIOUS
    <2>1. CASE i <= Len(posted)
      BY <1>1, <1>2, <2>1 DEF LogInv, NoneSkipped
    <2>2. CASE ~(i <= Len(posted))
      <3>1. i - Len(posted) \in 1..Len(unsent)
        BY <1>1, <2>2
      <3>2. unsent[i - Len(posted)] = Len(posted) + (i - Len(posted))
        BY <3>1 DEF LogInv, NoneSkipped
      <3> QED
        BY <1>1, <1>2, <2>2, <3>2
    <2> QED
      BY <2>1, <2>2
  <1>4. NoneSkipped'
    BY <1>1, <1>3 DEF LogInv, LogTypeOK, NoneSkipped
  <1>5. \A f \in Flushers :
          flusher'[f] = IF f = serves THEN [flusher[f] EXCEPT !.at = "flushed"] ELSE flusher[f]
    BY DEF Post
  <1>6. LogTypeOK'
    BY <1>1, <1>5 DEF LogInv, LogTypeOK, Post
  <1>7. FlushServed'
    BY <1>1, <1>5, LogAssumption DEF LogInv, LogTypeOK, FlushServed, Post
  <1>8. CloseServed'
    BY <1>1 DEF LogInv, LogTypeOK, FlushServed, CloseServed, Post
  <1> QED
    BY <1>4, <1>6, <1>7, <1>8 DEF LogInv

\* The rest moves no record.
LEMMA OthersLog ==
    ASSUME LogInv,
           \/ RunTicks \/ RunStops
           \/ (\E f \in Flushers : FlushBegins(f) \/ FlushTaken(f) \/ FlushStopped(f))
           \/ (\E c \in Closers : CloseBegins(c) \/ CloseReturns(c))
    PROVE  LogInv'
  <1>1. UNCHANGED <<queue, logged, unsent, posted>>
    BY DEF RunTicks, RunStops, FlushBegins, FlushTaken, FlushStopped, CloseBegins, CloseReturns
  <1>2. NoneSkipped' /\ Len(posted) \in Nat /\ Len(unsent) \in Nat /\ logged \in Nat
    BY <1>1 DEF LogInv, NoneSkipped, LogTypeOK
  <1>3. CASE RunTicks \/ RunStops
    BY <1>1, <1>2, <1>3, LogAssumption DEF RunTicks, RunStops, AfterStop, LogInv, LogTypeOK, FlushServed, CloseServed
  <1>4. CASE \E f \in Flushers : FlushBegins(f)
    BY <1>1, <1>2, <1>4, LogAssumption DEF FlushBegins, LogInv, LogTypeOK, FlushServed, CloseServed
  <1>5. CASE \E f \in Flushers : FlushTaken(f)
    <2>1. PICK f \in Flushers : FlushTaken(f)
      BY <1>5
    <2>2. f # "stop" /\ f # "none"
      BY LogAssumption
    <2>3. \A g \in Flushers : /\ flusher'[g].upto = flusher[g].upto
                              /\ flusher'[g].at = IF g = f THEN "wait" ELSE flusher[g].at
      BY <2>1 DEF FlushTaken, FlusherAt, LogInv, LogTypeOK
    <2>4. LogTypeOK'
      BY <1>1, <2>1 DEF FlushTaken, FlusherAt, LogInv, LogTypeOK
    <2>5. FlushServed'
      BY <1>1, <1>2, <2>1, <2>2, <2>3 DEF FlushTaken, LogInv, LogTypeOK, FlushServed
    <2>6. CloseServed'
      BY <1>1, <2>1, <2>2 DEF FlushTaken, LogInv, CloseServed
    <2> QED
      BY <1>2, <2>4, <2>5, <2>6 DEF LogInv
  <1>6. CASE \E f \in Flushers : FlushStopped(f)
    BY <1>1, <1>2, <1>6, LogAssumption DEF FlushStopped, FlusherAt, LogInv, LogTypeOK, FlushServed, CloseServed
  <1>7. CASE \E c \in Closers : CloseBegins(c) \/ CloseReturns(c)
    <2>1. LogTypeOK'
      BY <1>1, <1>7 DEF CloseBegins, CloseReturns, LogInv, LogTypeOK
    <2>2. FlushServed'
      BY <1>1, <1>7 DEF CloseBegins, CloseReturns, LogInv, FlushServed
    <2>3. CloseServed'
      BY <1>1, <1>2, <1>7 DEF CloseBegins, CloseReturns, LogInv, LogTypeOK, CloseServed
    <2> QED
      BY <1>2, <2>1, <2>2, <2>3 DEF LogInv
  <1> QED
    BY <1>3, <1>4, <1>5, <1>6, <1>7

\* Every record is posted once and in order, and Flush and Close return after
\* what they promise to have posted.
THEOREM RecordsArePostedInOrder == LogSpec => []PostedInOrder
  <1>1. LogInv /\ [LogNext]_logVars => LogInv'
    <2>1. CASE UNCHANGED logVars
      BY <2>1 DEF logVars, LogInv, LogTypeOK, NoneSkipped, FlushServed, CloseServed
    <2>2. ASSUME LogInv, LogNext PROVE LogInv'
      BY <2>2, EnqueueLog, RunTakesLog, DrainLog, PostLog, OthersLog DEF LogNext
    <2> QED
      BY <2>1, <2>2
  <1>2. LogInv => PostedInOrder
    BY DEF LogInv, LogTypeOK, NoneSkipped, FlushServed, CloseServed, PostedInOrder
  <1> QED
    BY InitLog, <1>1, <1>2, PTL DEF LogSpec


(***************************************************************************)
(* Database access: one handle at most, and callers told the truth         *)
(***************************************************************************)
DbTypeOK ==
    /\ dbPhase \in {"down", "connecting", "up", "closing"}
    /\ current \in Nat /\ handles \in Nat /\ dbClosed \in BOOLEAN
    /\ txCall \in [TxCallers -> {"idle", "checked", "running", "deferred"}]
    /\ txKind \in [TxCallers -> {"sql", "pgx"}] /\ txOn \in [TxCallers -> Nat]
    /\ tx \in [TxCallers -> {"none", "open", "committed", "rolledback"}]
    /\ txFn \in [TxCallers -> {"nil", "error", "panic", "goexit"}]
    /\ txResult \in [TxCallers -> {"none", "ok", "error", "panic", "goexit"}]
    /\ ownEnd \subseteq TxCallers

\* s.db is open between Init and Close, and a handle of an earlier life is not.
HandleHeld ==
    /\ openSet = IF dbPhase \in {"up", "closing"} THEN {current} ELSE {}
    /\ dbPhase = "up" => ~dbClosed /\ current # 0
    /\ dbPhase # "up" => dbClosed \/ current = 0
    /\ dbPhase = "closing" => dbClosed
    /\ DbMode = "pgx" => \A p \in TxCallers : txOn[p] # 0 => txOn[p] \in openSet

\* What a caller inside WithTx cannot be told wrong later.
Undecided ==
    \A p \in TxCallers :
        /\ txCall[p] = "checked" => tx[p] = "none"
        /\ txCall[p] \in {"running", "deferred"} /\ tx[p] = "committed" => p \in ownEnd

DbInv == DbTypeOK /\ HandleHeld /\ Undecided /\ CallersAreTold

\* No handle is open before the first Init.
LEMMA InitDb == DbInit => DbInv
  <1> SUFFICES ASSUME DbInit PROVE DbInv
    OBVIOUS
  <1>1. /\ dbPhase = "down" /\ current = 0 /\ dbClosed = FALSE /\ openSet = {} /\ handles = 0
        /\ txCall = [p \in TxCallers |-> "idle"] /\ txKind = [p \in TxCallers |-> "sql"]
        /\ txOn = [p \in TxCallers |-> 0] /\ tx = [p \in TxCallers |-> "none"]
        /\ txFn = [p \in TxCallers |-> "nil"] /\ txResult = [p \in TxCallers |-> "none"] /\ ownEnd = {}
    BY DEF DbInit, All
  <1>2. DbTypeOK
    BY <1>1 DEF DbTypeOK
  <1>3. HandleHeld
    BY <1>1 DEF HandleHeld
  <1>4. Undecided /\ CallersAreTold
    BY <1>1 DEF Undecided, CallersAreTold
  <1> QED
    BY <1>2, <1>3, <1>4 DEF DbInv

\* Init, its retries and Close: the handle of a failed ping is closed again.
LEMMA OwnerDb ==
    ASSUME DbInv, InitStarts \/ Connects \/ InitGivesUp \/ CloseMarks \/ CloseEnds
    PROVE  DbInv'
  <1>1. UNCHANGED txVars
    BY DEF InitStarts, Connects, InitGivesUp, CloseMarks, CloseEnds
  <1>2. Undecided' /\ CallersAreTold'
    BY <1>1 DEF txVars, DbInv, Undecided, CallersAreTold
  <1>3. DbTypeOK'
    <2>1. /\ dbPhase' \in {"down", "connecting", "up", "closing"} /\ dbClosed' \in BOOLEAN
          /\ handles' \in Nat /\ current' \in Nat
      <3>1. handles \in Nat /\ current \in Nat /\ dbClosed \in BOOLEAN
        BY DEF DbInv, DbTypeOK
      <3>2. CASE Connects
        <4>1. handles' = handles + 1 /\ handles' \in Nat
          BY <3>1, <3>2 DEF Connects
        <4>2. dbPhase' \in {"down", "connecting", "up"} /\ dbClosed' \in {FALSE, dbClosed}
              /\ current' \in {current, handles'}
          BY <3>2 DEF Connects
        <4> QED
          BY <3>1, <4>1, <4>2
      <3>3. CASE InitStarts \/ InitGivesUp \/ CloseMarks \/ CloseEnds
        BY <3>1, <3>3 DEF InitStarts, InitGivesUp, CloseMarks, CloseEnds
      <3> QED
        BY <3>2, <3>3
    <2> QED
      BY <1>1, <2>1 DEF txVars, DbInv, DbTypeOK
  <1>4. HandleHeld'
    <2>1. CASE InitStarts \/ InitGivesUp \/ CloseMarks
      BY <1>1, <2>1 DEF txVars, DbInv, DbTypeOK, HandleHeld, InitStarts, InitGivesUp, CloseMarks
    <2>2. CASE Connects
      BY <1>1, <2>2 DEF txVars, DbInv, DbTypeOK, HandleHeld, Connects, AfterFailedPing
    <2>3. CASE CloseEnds
      <3>1. openSet' = {} /\ dbPhase' = "down" /\ UNCHANGED <<current, dbClosed, txOn>>
            /\ dbClosed /\ openSet = {current}
        BY <1>1, <2>3 DEF txVars, DbInv, HandleHeld, CloseEnds
      <3>2. DbMode = "pgx" => \A p \in TxCallers : txOn[p] = 0
        BY <2>3, <3>1 DEF DbInv, HandleHeld, CloseEnds, InUse
      <3> QED
        BY <3>1, <3>2 DEF HandleHeld
    <2> QED
      BY <2>1, <2>2, <2>3
  <1> QED
    BY <1>2, <1>3, <1>4 DEF DbInv

\* WithTx looks at s.closed first.
LEMMA CallsDb ==
    ASSUME DbInv, NEW p \in TxCallers, NEW kind \in {"sql", "pgx"}, Calls(p, kind)
    PROVE  DbInv'
  <1>1. UNCHANGED ownerVars
    BY DEF Calls
  <1>2. DbTypeOK'
    BY <1>1 DEF ownerVars, DbInv, DbTypeOK, Calls, Returns
  <1>3. HandleHeld'
    BY <1>1 DEF ownerVars, DbInv, DbTypeOK, HandleHeld, Calls, Returns
  <1>4. Undecided' /\ CallersAreTold'
    BY DEF DbInv, DbTypeOK, Undecided, CallersAreTold, Calls, Returns
  <1> QED
    BY <1>2, <1>3, <1>4 DEF DbInv

\* A transaction begins on an open handle or not at all.
LEMMA BeginsDb ==
    ASSUME DbInv, NEW p \in TxCallers, Begins(p)
    PROVE  DbInv'
  <1>1. UNCHANGED ownerVars
    BY DEF Begins
  <1>2. DbTypeOK'
    BY <1>1 DEF ownerVars, DbInv, DbTypeOK, Begins, Returns
  <1>3. HandleHeld'
    BY <1>1 DEF ownerVars, DbInv, DbTypeOK, HandleHeld, Begins, Returns
  <1>4. Undecided' /\ CallersAreTold'
    BY DEF DbInv, DbTypeOK, Undecided, CallersAreTold, Begins, Returns
  <1> QED
    BY <1>2, <1>3, <1>4 DEF DbInv

\* fn runs, and its context may end meanwhile.
LEMMA FnDb ==
    ASSUME DbInv, NEW p \in TxCallers,
           \/ ContextEnds(p)
           \/ \E how \in {"nil", "error", "panic", "goexit"}, own \in {"open", "committed", "rolledback"} :
                FnEnds(p, how, own)
    PROVE  DbInv'
  <1>1. UNCHANGED ownerVars /\ UNCHANGED <<txOn, txKind, txResult>>
    BY DEF ContextEnds, FnEnds
  <1>2. DbTypeOK'
    BY <1>1 DEF ownerVars, DbInv, DbTypeOK, ContextEnds, FnEnds
  <1>3. HandleHeld'
    BY <1>1 DEF ownerVars, DbInv, HandleHeld
  <1>4. Undecided' /\ CallersAreTold'
    <2>1. CASE ContextEnds(p)
      BY <2>1 DEF DbInv, DbTypeOK, Undecided, CallersAreTold, ContextEnds
    <2>2. CASE \E how \in {"nil", "error", "panic", "goexit"}, own \in {"open", "committed", "rolledback"} :
                 FnEnds(p, how, own)
      BY <2>2 DEF DbInv, DbTypeOK, Undecided, CallersAreTold, FnEnds
    <2> QED
      BY <2>1, <2>2
  <1> QED
    BY <1>2, <1>3, <1>4 DEF DbInv

\* What the caller is told is what the deferred function did.
LEMMA CommitsOrRollsBackDb ==
    ASSUME DbInv, NEW p \in TxCallers, CommitsOrRollsBack(p)
    PROVE  DbInv'
  <1>1. UNCHANGED ownerVars
    BY DEF CommitsOrRollsBack
  <1>2. DbTypeOK'
    BY <1>1 DEF ownerVars, DbInv, DbTypeOK, CommitsOrRollsBack, Returns, Told
  <1>3. HandleHeld'
    BY <1>1 DEF ownerVars, DbInv, DbTypeOK, HandleHeld, CommitsOrRollsBack, Returns
  <1>4. Undecided' /\ CallersAreTold'
    BY DEF DbInv, DbTypeOK, Undecided, CallersAreTold, CommitsOrRollsBack, Returns, Told, Commits
  <1> QED
    BY <1>2, <1>3, <1>4 DEF DbInv

\* nil means committed, an error means not unless fn or the server says
\* otherwise, and the handle in use is the only one open.
THEOREM TransactionsAreHeld == DbSpec => []TransactionsHold
  <1>1. DbInv /\ [DbNext]_dbVars => DbInv'
    <2>1. CASE UNCHANGED dbVars
      BY <2>1 DEF dbVars, ownerVars, txVars, DbInv, DbTypeOK, HandleHeld, Undecided, CallersAreTold
    <2>2. ASSUME DbInv, DbNext PROVE DbInv'
      BY <2>2, OwnerDb, CallsDb, BeginsDb, FnDb, CommitsOrRollsBackDb DEF DbNext
    <2> QED
      BY <2>1, <2>2
  <1>2. DbInv => TransactionsHold
    BY DEF DbInv, DbTypeOK, HandleHeld, TransactionsHold, OneHandleOpen, HandleIsReady, CheckHealth
  <1> QED
    BY InitDb, <1>1, <1>2, PTL DEF DbSpec


(***************************************************************************)
(* Memory cache: an entry that has not expired is nobody's to remove       *)
(***************************************************************************)
CacheTypeOK ==
    /\ items \in [CacheKeys -> [value : Nat, expires : Nat]]
    /\ cacheLive \in BOOLEAN /\ cacheNow \in Nat \ {0} /\ sets \in Nat

\* A map that does not exist has no entry.
NilIsEmpty == ~cacheLive => Stored = {}

CacheInv == CacheTypeOK /\ NilIsEmpty

\* Removing what has expired removes no entry that has not.
LEMMA OnlyExpiredRemoved ==
    ASSUME NEW K \in SUBSET Expired, NEW k \in CacheKeys, Live(k), items' = Without(K)
    PROVE  items'[k] # NoEntry
  BY DEF Live, Stored, Without

\* A Set makes an entry, and makes room for it with an expired one.
LEMMA SetKeeps ==
    ASSUME CacheInv, NEW key \in CacheKeys, NEW ttl \in TTLs, CacheSet(key, ttl),
           NEW k \in CacheKeys, Live(k)
    PROVE  items'[k] # NoEntry
  <1> DEFINE entry == [value |-> sets + 1, expires |-> IF ttl = 0 THEN 0 ELSE cacheNow + ttl]
  <1>1. entry # NoEntry
    <2>1. entry.value # NoEntry.value
      BY DEF CacheInv, CacheTypeOK, NoEntry
    <2> QED
      BY <2>1
  <1>2. CASE items' = [items EXCEPT ![key] = entry]
    BY <1>1, <1>2 DEF Live, Stored, CacheInv, CacheTypeOK
  <1>3. CASE \E out \in Expired : items' = [Without({out}) EXCEPT ![key] = entry]
    BY <1>1, <1>3 DEF Live, Stored, Without
  <1> QED
    BY <1>2, <1>3 DEF CacheSet

\* One step of the cache.
LEMMA StepKeeps ==
    ASSUME CacheInv, CacheNext, NEW k \in CacheKeys, Live(k), items'[k] = NoEntry
    PROVE  CacheDelete(k) \/ CacheClose
  <1>1. items[k] # NoEntry
    BY DEF Live, Stored
  <1>2. CASE CacheOpen
    BY <1>1, <1>2 DEF CacheOpen, CacheInv, NilIsEmpty, Stored
  <1>3. CASE CacheTick
    BY <1>1, <1>3 DEF CacheTick
  <1>4. CASE \E life \in sweeps : Sweep(life) \/ SweepEnds(life)
    <2>1. items' = Without(Expired) \/ items' = items
      BY <1>4 DEF Sweep, SweepEnds
    <2> QED
      BY <1>1, <2>1, OnlyExpiredRemoved
  <1>5. CASE \E key \in CacheKeys : CacheDelete(key)
    <2>1. PICK key \in CacheKeys : CacheDelete(key)
      BY <1>5
    <2>2. key = k
      BY <1>1, <2>1 DEF CacheDelete, Without
    <2> QED
      BY <2>1, <2>2
  <1>6. CASE \E key \in CacheKeys, ttl \in TTLs : CacheSet(key, ttl)
    BY <1>6, SetKeeps
  <1>7. CASE \E p \in CacheCallers : (\E key \in CacheKeys : GetReads(p, key)) \/ GetDecides(p)
    BY <1>1, <1>7 DEF GetReads, GetDecides
  <1>8. CASE \E p \in CacheCallers : GetDeletes(p)
    <2>1. PICK p \in CacheCallers : GetDeletes(p)
      BY <1>8
    <2>2. items' = Without(LazilyDeleted(getting[p].key)) /\ LazilyDeleted(getting[p].key) \subseteq Expired
      BY <2>1 DEF GetDeletes, LazilyDeleted
    <2> QED
      BY <2>2, OnlyExpiredRemoved
  <1> QED
    BY <1>2, <1>3, <1>4, <1>5, <1>6, <1>7, <1>8 DEF CacheNext

\* Every step keeps the invariant.
LEMMA CacheInvKept == ASSUME CacheInv, [CacheNext]_cacheVars PROVE CacheInv'
  <1>1. CASE UNCHANGED cacheVars
    BY <1>1 DEF cacheVars, CacheInv, CacheTypeOK, NilIsEmpty, Stored
  <1>e. NoEntry \in [value : Nat, expires : Nat]
    BY DEF NoEntry
  <1>w. ASSUME NEW K PROVE Without(K) \in [CacheKeys -> [value : Nat, expires : Nat]]
    BY <1>e DEF Without, CacheInv, CacheTypeOK
  <1>2. CASE CacheOpen \/ CacheClose
    <2>1. items' = [k \in CacheKeys |-> NoEntry] /\ cacheLive' \in BOOLEAN /\ UNCHANGED <<cacheNow, sets>>
      BY <1>2 DEF CacheOpen, CacheClose
    <2>2. CacheTypeOK'
      BY <2>1, <1>e DEF CacheInv, CacheTypeOK
    <2>3. NilIsEmpty'
      BY <2>1 DEF NilIsEmpty, Stored
    <2> QED
      BY <2>2, <2>3 DEF CacheInv
  <1>3. CASE CacheTick
    BY <1>3 DEF CacheTick, CacheInv, CacheTypeOK, NilIsEmpty, Stored
  <1>4. ASSUME NEW K, items' = Without(K), UNCHANGED <<cacheLive, cacheNow, sets>>
        PROVE  CacheInv'
    <2>1. CacheTypeOK'
      BY <1>4, <1>w DEF CacheInv, CacheTypeOK
    <2>2. NilIsEmpty'
      BY <1>4 DEF CacheInv, NilIsEmpty, Stored, Without
    <2> QED
      BY <2>1, <2>2 DEF CacheInv
  <1>5. CASE \E life \in sweeps : Sweep(life) \/ SweepEnds(life)
    <2>1. CASE \E life \in sweeps : Sweep(life)
      BY <2>1, <1>4 DEF Sweep, CacheInv, CacheTypeOK
    <2>2. CASE \E life \in sweeps : SweepEnds(life)
      BY <2>2 DEF SweepEnds, CacheInv, CacheTypeOK, NilIsEmpty, Stored
    <2> QED
      BY <1>5, <2>1, <2>2
  <1>6. CASE \E key \in CacheKeys : CacheDelete(key)
    BY <1>6, <1>4 DEF CacheDelete, CacheInv, CacheTypeOK
  <1>7. CASE \E key \in CacheKeys, ttl \in TTLs : CacheSet(key, ttl)
    <2>1. PICK key \in CacheKeys, ttl \in TTLs : CacheSet(key, ttl)
      BY <1>7
    <2> DEFINE entry == [value |-> sets + 1, expires |-> IF ttl = 0 THEN 0 ELSE cacheNow + ttl]
    <2>2. entry \in [value : Nat, expires : Nat] /\ sets' \in Nat
      BY <2>1, CacheAssumption DEF CacheSet, CacheInv, CacheTypeOK
    <2>3. items' \in [CacheKeys -> [value : Nat, expires : Nat]]
      <3>1. CASE items' = [items EXCEPT ![key] = entry]
        BY <2>2, <3>1 DEF CacheInv, CacheTypeOK
      <3>2. CASE \E out \in Expired : items' = [Without({out}) EXCEPT ![key] = entry]
        <4>1. PICK out \in Expired : items' = [Without({out}) EXCEPT ![key] = entry]
          BY <3>2
        <4>2. Without({out}) \in [CacheKeys -> [value : Nat, expires : Nat]]
          BY <1>w
        <4> HIDE DEF entry
        <4> QED
          BY <2>2, <4>1, <4>2
      <3> QED
        BY <2>1, <3>1, <3>2 DEF CacheSet
    <2> QED
      BY <2>1, <2>2, <2>3 DEF CacheSet, CacheInv, CacheTypeOK, NilIsEmpty
  <1>8. CASE \E p \in CacheCallers : (\E key \in CacheKeys : GetReads(p, key)) \/ GetDecides(p)
    BY <1>8 DEF GetReads, GetDecides, GetAt, CacheInv, CacheTypeOK, NilIsEmpty, Stored
  <1>9. CASE \E p \in CacheCallers : GetDeletes(p)
    BY <1>9, <1>4 DEF GetDeletes, GetAt, CacheInv, CacheTypeOK
  <1> QED
    BY <1>1, <1>2, <1>3, <1>5, <1>6, <1>7, <1>8, <1>9 DEF CacheNext

\* The cache has no map before the first Init.
LEMMA InitCache == CacheInit => CacheInv
  <1>1. NoEntry \in [value : Nat, expires : Nat]
    BY DEF NoEntry
  <1>2. CacheInit => CacheTypeOK
    <2>1. CacheInit => /\ items = [k \in CacheKeys |-> NoEntry] /\ cacheLive = FALSE
                       /\ cacheNow = 1 /\ sets = 0
      BY DEF CacheInit
    <2>2. [k \in CacheKeys |-> NoEntry] \in [CacheKeys -> [value : Nat, expires : Nat]]
      BY <1>1
    <2> QED
      <3>1. ASSUME CacheInit PROVE items \in [CacheKeys -> [value : Nat, expires : Nat]]
        BY <2>1, <2>2, <3>1
      <3>2. ASSUME CacheInit PROVE cacheLive \in BOOLEAN
        BY <2>1, <3>2
      <3>3. ASSUME CacheInit PROVE cacheNow \in Nat \ {0} /\ sets \in Nat
        BY <2>1, <3>3
      <3> QED
        BY <3>1, <3>2, <3>3 DEF CacheTypeOK
  <1>3. CacheInit => NilIsEmpty
    BY DEF CacheInit, NilIsEmpty, Stored
  <1> QED
    BY <1>2, <1>3 DEF CacheInv

\* No eviction, sweep or lazy deletion removes an entry that has not expired.
THEOREM OnlyDeletesRemove == CacheSpec => LiveEntriesStay
  <1>1. CacheInv /\ [CacheNext]_cacheVars => CacheInv'
    BY CacheInvKept
  <1>2. CacheInv /\ [CacheNext]_cacheVars =>
          [\A k \in CacheKeys :
             Live(k) /\ items'[k] = NoEntry => CacheDelete(k) \/ CacheClose]_cacheVars
    BY StepKeeps
  <1>3. CacheInit /\ [][CacheNext]_cacheVars => LiveEntriesStay
    BY InitCache, <1>1, <1>2, PTL DEF LiveEntriesStay
  <1> QED
    BY <1>3 DEF CacheSpec

(***************************************************************************)
(* S3 storage: the bytes of a body are counted from Read to Write          *)
(***************************************************************************)
Amounts == [Users -> Nat]
Writers == Users \cup {NoOne, Browser}
Asks == [op : {"none", "put"}, want : Declared, cond : Conditions, etag : Writers,
         len : Nat, end : Endings, ttl : Nat]

S3TypeOK ==
    /\ uat \in [Users -> {"idle", "reading", "writing", "aborting"}]
    /\ ask \in [Users -> Asks]
    /\ body \in Amounts /\ rd \in Amounts /\ buffer \in Amounts /\ sent \in Amounts
    /\ object.by \in Writers /\ uploads \subseteq Users

\* What has been read of a body is in the buffer or in parts, and the rest is
\* still in the body; who writes has read it all, and as much as it declared.
BytesAreCounted ==
    \A u \in Users :
        /\ uat[u] \in {"reading", "writing"} =>
              rd[u] = sent[u] + buffer[u] /\ rd[u] + body[u] = ask[u].len
        /\ uat[u] = "writing" => body[u] = 0 /\ (ask[u].want # Unset => rd[u] = ask[u].want)

\* There is no upload without the bucket, and a URL is signed for the length
\* that was asked for.
PartsInBucket == (bucket # "mine" => uploads = {}) /\ \A url \in urls : url.len = url.asked

S3Inv == S3TypeOK /\ BytesAreCounted /\ PartsInBucket /\ UploadsHold

\* A Read returns no more than the body has, and an EOF at its end only.
LEMMA BodyReadsBounds ==
    ASSUME S3TypeOK, NEW u \in Users, NEW p \in Int, NEW r \in BodyReads(u, p)
    PROVE  r.n \in Nat /\ r.n <= body[u] /\ (r.err = "eof" => r.n = body[u])
  <1>1. body[u] \in Nat /\ ask[u].end \in Endings
    BY DEF S3TypeOK, Amounts, Asks
  <1>2. CASE body[u] = 0
    <2>1. PICK e : r = [n |-> 0, err |-> e]
      BY <1>2, Zenon DEF BodyReads
    <2> QED
      BY <1>1, <1>2, <2>1
  <1>3. CASE body[u] # 0
    <2>1. CASE r \in [n : 1..Least(body[u], p), err : {"none"}]
      BY <1>1, <2>1 DEF Least
    <2>2. CASE r.n = body[u]
      BY <1>1, <2>2
    <2>3. BodyReads(u, p) = [n : 1..Least(body[u], p), err : {"none"}]
             \cup {[n |-> body[u], err |-> IF ask[u].end = "eof" THEN "eof" ELSE "read body"] :
                     x \in IF body[u] <= p /\ ask[u].end \in {"eof", "fail"} THEN {1} ELSE {}}
      BY <1>3, Zenon DEF BodyReads
    <2> DEFINE last == [n |-> body[u], err |-> IF ask[u].end = "eof" THEN "eof" ELSE "read body"]
    <2>4. last.n = body[u]
      OBVIOUS
    <2> HIDE DEF last
    <2>5. r \in [n : 1..Least(body[u], p), err : {"none"}] \/ r.n = body[u]
      <3>1. r \in [n : 1..Least(body[u], p), err : {"none"}] \/ r = last
        BY <2>3, Zenon DEF last
      <3> QED
        BY <2>4, <3>1
    <2> QED
      BY <2>1, <2>2, <2>5
  <1> QED
    BY <1>2, <1>3

\* lengthReader: what it takes from the body it returns, unless it fails, and
\* it ends where the body ends, at the declared length.
LEMMA LengthReadsBounds ==
    ASSUME S3TypeOK, NEW u \in Users, NEW p \in Int, NEW r \in LengthReads(u, p)
    PROVE  /\ r.took \in Nat /\ r.took <= body[u] /\ r.n \in Nat
           /\ r.err \in {"none", "eof"} => r.n = r.took
           /\ r.err = "eof" => r.took = body[u]
           /\ r.err = "eof" /\ ask[u].want # Unset => rd[u] + r.took = ask[u].want
  <1>1. /\ body[u] \in Nat /\ rd[u] \in Nat /\ ask[u].end \in Endings /\ ask[u].want \in Declared
        /\ ask[u].want # Unset => ask[u].want \in Int
    BY S3Assumption DEF S3TypeOK, Amounts, Asks
  <1>2. CASE ask[u].want = Unset
    <2>1. PICK x \in BodyReads(u, p) : r = [n |-> x.n, err |-> x.err, took |-> x.n]
      BY <1>2 DEF LengthReads
    <2>2. x.n \in Nat /\ x.n <= body[u] /\ (x.err = "eof" => x.n = body[u])
      BY BodyReadsBounds
    <2> QED
      BY <1>2, <2>1, <2>2
  <1>3. CASE ask[u].want # Unset /\ rd[u] = ask[u].want
    <2>1. r = [n |-> 0, err |-> probe(u, body[u]), took |-> 0]
      BY <1>3 DEF LengthReads
    <2>2. probe(u, body[u]) = "eof" => body[u] = 0
      BY <1>1 DEF probe
    <2> QED
      BY <1>1, <1>3, <2>1, <2>2
  <1>4. CASE ask[u].want # Unset /\ rd[u] # ask[u].want
    <2>1. PICK x \in BodyReads(u, Least(p, ask[u].want - rd[u])) : r = settle(u, x)
      BY <1>4 DEF LengthReads
    <2>2. Least(p, ask[u].want - rd[u]) \in Int
      BY <1>1, <1>4 DEF Least
    <2>3. x.n \in Nat /\ x.n <= body[u] /\ (x.err = "eof" => x.n = body[u])
      BY <2>2, BodyReadsBounds
    <2>4. probe(u, body[u] - x.n) = "eof" => body[u] - x.n = 0
      BY <1>1, <2>3 DEF probe
    <2>5. /\ r.took = x.n
          /\ r.n \in {0, x.n}
          /\ r.err \in {"none", "eof"} => r.n = x.n
          /\ r.err = "eof" => body[u] - x.n = 0 /\ rd[u] + x.n = ask[u].want
      BY <2>1, <2>4 DEF settle
    <2> QED
      BY <1>1, <2>3, <2>5
  <1> QED
    BY <1>2, <1>3, <1>4


\* Nothing is on its way at the start.
LEMMA InitS3 == S3Init => S3Inv
  <1> SUFFICES ASSUME S3Init PROVE S3Inv
    OBVIOUS
  <1>1. S3TypeOK
    <2>1. uat \in [Users -> {"idle", "reading", "writing", "aborting"}]
      BY DEF S3Init
    <2>2. ask \in [Users -> Asks]
      <3>1. NoAsk \in Asks
        BY S3Assumption DEF NoAsk, Asks, Writers, Conditions, Endings
      <3> QED
        BY <3>1 DEF S3Init
    <2>3. body \in Amounts /\ rd \in Amounts /\ buffer \in Amounts /\ sent \in Amounts
      BY DEF S3Init, Amounts
    <2>4. object.by \in Writers /\ uploads \subseteq Users
      BY DEF S3Init, NoObject, Writers
    <2> QED
      BY <2>1, <2>2, <2>3, <2>4 DEF S3TypeOK
  <1>2. BytesAreCounted /\ PartsInBucket /\ UploadsHold
    BY DEF S3Init, BytesAreCounted, PartsInBucket, UploadsHold, LengthIsHeld, NoPartsAreLeft
  <1> QED
    BY <1>1, <1>2 DEF S3Inv

\* Calls that are one request move no bytes of a PutObject.
LEMMA RequestsS3 ==
    ASSUME S3Inv, NEW u \in Users,
           \/ CreateBucket(u) \/ HeadBucket(u) \/ DeleteBucket(u)
           \/ HeadObject(u) \/ GetObject(u) \/ DeleteObject(u) \/ ListObjects(u) \/ ListBuckets(u)
           \/ PresignUploadURL(u) \/ PresignDownloadURL(u)
    PROVE  S3Inv'
  <1>1. UNCHANGED <<uat, ask, body, rd, buffer, sent, stored, strays>>
    BY DEF CreateBucket, HeadBucket, DeleteBucket, BucketCall, HeadObject, GetObject, DeleteObject,
           ListObjects, ObjectCall, ListBuckets, PresignUploadURL, PresignDownloadURL, Use
  <1>2. object' \in {object, NoObject} /\ uploads' \in {uploads, {}}
    BY DEF CreateBucket, HeadBucket, DeleteBucket, BucketCall, HeadObject, GetObject, DeleteObject,
           ListObjects, ObjectCall, ListBuckets, PresignUploadURL, PresignDownloadURL, s3Vars
  <1>3. bucket' # "mine" => uploads' = {}
    <2>1. CASE CreateBucket(u) \/ HeadBucket(u) \/ DeleteBucket(u)
      <3>1. /\ bucket' \in {bucket, "mine", "none"}
            /\ uploads' = IF bucket' = "none" THEN {} ELSE uploads
        BY <2>1 DEF CreateBucket, HeadBucket, DeleteBucket, BucketCall
      <3> QED
        BY <3>1 DEF S3Inv, PartsInBucket
    <2>2. CASE ~(CreateBucket(u) \/ HeadBucket(u) \/ DeleteBucket(u))
      <3>1. UNCHANGED <<bucket, uploads>>
        BY <2>2 DEF HeadObject, GetObject, DeleteObject, ListObjects, ObjectCall, ListBuckets,
                    PresignUploadURL, PresignDownloadURL, s3Vars
      <3> QED
        BY <3>1 DEF S3Inv, PartsInBucket
    <2> QED
      BY <2>1, <2>2
  <1>4. \A url \in urls' : url.len = url.asked
    <2>1. CASE PresignUploadURL(u)
      <3>1. \A url \in urls' \ urls : url.len = url.asked
        BY <2>1 DEF PresignUploadURL, Signed
      <3> QED
        BY <3>1 DEF S3Inv, PartsInBucket
    <2>2. CASE ~PresignUploadURL(u)
      <3>1. UNCHANGED urls
        BY <2>2 DEF CreateBucket, HeadBucket, DeleteBucket, BucketCall, HeadObject, GetObject, DeleteObject,
                    ListObjects, ObjectCall, ListBuckets, PresignDownloadURL, s3Vars
      <3> QED
        BY <3>1 DEF S3Inv, PartsInBucket
    <2> QED
      BY <2>1, <2>2
  <1>5. S3TypeOK'
    BY <1>1, <1>2 DEF S3Inv, S3TypeOK, NoObject, Writers
  <1>6. BytesAreCounted' /\ UploadsHold'
    BY <1>1, <1>2 DEF S3Inv, BytesAreCounted, UploadsHold, LengthIsHeld, NoPartsAreLeft
  <1> QED
    BY <1>3, <1>4, <1>5, <1>6 DEF S3Inv, PartsInBucket

\* A PutObject starts with its whole body ahead of it.
LEMMA PutS3 == ASSUME S3Inv, NEW u \in Users, PutObject(u) PROVE S3Inv'
  <1>1. PICK want \in Declared, cond \in Conditions, len \in Lengths, end \in Endings :
          /\ ask' = [ask EXCEPT ![u] = [NoAsk EXCEPT !.op = "put", !.want = want, !.cond = conditionHeaders(cond),
                                                    !.etag = object.by, !.len = len, !.end = end]]
          /\ body' = [body EXCEPT ![u] = len]
          /\ uat' = [uat EXCEPT ![u] = "idle"] \/ uat' = [uat EXCEPT ![u] = "reading"]
    <2>1. PICK want \in Declared, cond \in Conditions, len \in Lengths, end \in Endings :
            /\ ask' = [ask EXCEPT ![u] = [NoAsk EXCEPT !.op = "put", !.want = want, !.cond = conditionHeaders(cond),
                                                      !.etag = object.by, !.len = len, !.end = end]]
            /\ body' = [body EXCEPT ![u] = len]
            /\ IF ~ValidCondition(cond) THEN Answers(u, "ErrInvalidCondition")
               ELSE IF want # Unset /\ want < 0 THEN Answers(u, "ErrContentLengthMismatch")
               ELSE Sets(u, "reading") /\ reply' = [reply EXCEPT ![u] = "none"]
      BY Zenon DEF PutObject
    <2>2. uat' = [uat EXCEPT ![u] = "idle"] \/ uat' = [uat EXCEPT ![u] = "reading"]
      BY <2>1, Zenon DEF Answers, Sets
    <2> QED
      BY <2>1, <2>2, Zenon
  <1>2. /\ rd' = [rd EXCEPT ![u] = 0] /\ buffer' = [buffer EXCEPT ![u] = 0] /\ sent' = [sent EXCEPT ![u] = 0]
        /\ UNCHANGED <<bucket, object, uploads, urls, stored, strays>> /\ uat[u] = "idle"
    BY DEF PutObject, Use, s3Vars
  <1> DEFINE a == [NoAsk EXCEPT !.op = "put", !.want = want, !.cond = conditionHeaders(cond),
                                !.etag = object.by, !.len = len, !.end = end]
  <1>3. a \in Asks /\ a.len = len /\ len \in Nat
    BY S3Assumption DEF NoAsk, Asks, conditionHeaders, S3Inv, S3TypeOK
  <1>4. ask' = [ask EXCEPT ![u] = a]
    BY <1>1
  <1> HIDE DEF a
  <1>5. S3TypeOK'
    BY <1>1, <1>2, <1>3, <1>4 DEF S3Inv, S3TypeOK, Amounts
  <1>6. BytesAreCounted'
    <2> SUFFICES ASSUME NEW v \in Users
                 PROVE  /\ uat'[v] \in {"reading", "writing"} =>
                              rd'[v] = sent'[v] + buffer'[v] /\ rd'[v] + body'[v] = ask'[v].len
                        /\ uat'[v] = "writing" => body'[v] = 0 /\ (ask'[v].want # Unset => rd'[v] = ask'[v].want)
      BY DEF BytesAreCounted
    <2>1. CASE v = u
      <3>1. /\ rd'[u] = 0 /\ buffer'[u] = 0 /\ sent'[u] = 0 /\ body'[u] = len /\ ask'[u] = a
            /\ uat'[u] \in {"idle", "reading"}
        BY <1>1, <1>2, <1>4 DEF S3Inv, S3TypeOK, Amounts
      <3> QED
        BY <1>3, <2>1, <3>1
    <2>2. CASE v # u
      <3>1. /\ rd'[v] = rd[v] /\ buffer'[v] = buffer[v] /\ sent'[v] = sent[v] /\ body'[v] = body[v]
            /\ ask'[v] = ask[v] /\ uat'[v] = uat[v]
        BY <1>1, <1>2, <1>4, <2>2 DEF S3Inv, S3TypeOK, Amounts
      <3> QED
        BY <3>1 DEF S3Inv, BytesAreCounted
    <2> QED
      BY <2>1, <2>2
  <1>7. PartsInBucket'
    BY <1>2 DEF S3Inv, PartsInBucket
  <1>8. UploadsHold'
    BY <1>1, <1>2 DEF S3Inv, S3TypeOK, UploadsHold, LengthIsHeld, NoPartsAreLeft
  <1> QED
    BY <1>5, <1>6, <1>7, <1>8 DEF S3Inv

\* What is read is counted, and an upload whose body fails is aborted.
LEMMA ReadS3 == ASSUME S3Inv, NEW u \in Users, ReadBody(u) PROVE S3Inv'
  <1>1. buffer[u] \in Nat /\ PartSize - buffer[u] \in Int
    BY S3Assumption DEF S3Inv, S3TypeOK, Amounts
  <1>2. PICK r \in LengthReads(u, PartSize - buffer[u]) :
          /\ body' = [body EXCEPT ![u] = @ - r.took]
          /\ rd' = [rd EXCEPT ![u] = @ + r.took]
          /\ buffer' = [buffer EXCEPT ![u] = @ + r.n]
          /\ \/ r.err = "none" /\ uat' = uat
             \/ r.err = "eof" /\ uat' = [uat EXCEPT ![u] = "writing"]
             \/ uat' = [uat EXCEPT ![u] = IF u \in uploads THEN "aborting" ELSE "idle"]
    BY DEF ReadBody, Sets
  <1>3. UNCHANGED <<bucket, object, uploads, urls, ask, sent, stored, strays>> /\ uat[u] = "reading"
    BY DEF ReadBody, s3Vars
  <1>4. /\ r.took \in Nat /\ r.took <= body[u] /\ r.n \in Nat
        /\ r.err \in {"none", "eof"} => r.n = r.took
        /\ r.err = "eof" => r.took = body[u]
        /\ r.err = "eof" /\ ask[u].want # Unset => rd[u] + r.took = ask[u].want
    BY <1>1, LengthReadsBounds DEF S3Inv
  <1>5. S3TypeOK'
    <2>1. body' \in Amounts /\ rd' \in Amounts /\ buffer' \in Amounts
      BY <1>2, <1>4 DEF S3Inv, S3TypeOK, Amounts
    <2>2. uat' \in [Users -> {"idle", "reading", "writing", "aborting"}]
      BY <1>2 DEF S3Inv, S3TypeOK
    <2> QED
      BY <1>3, <2>1, <2>2 DEF S3Inv, S3TypeOK
  <1>6. BytesAreCounted'
    <2> SUFFICES ASSUME NEW v \in Users
                 PROVE  /\ uat'[v] \in {"reading", "writing"} =>
                              rd'[v] = sent'[v] + buffer'[v] /\ rd'[v] + body'[v] = ask'[v].len
                        /\ uat'[v] = "writing" => body'[v] = 0 /\ (ask'[v].want # Unset => rd'[v] = ask'[v].want)
      BY DEF BytesAreCounted
    <2>1. CASE v = u
      <3>1. /\ body'[u] = body[u] - r.took /\ rd'[u] = rd[u] + r.took /\ buffer'[u] = buffer[u] + r.n
            /\ sent'[u] = sent[u] /\ ask'[u] = ask[u]
            /\ uat'[u] = "reading" => r.err = "none"
            /\ uat'[u] = "writing" => r.err = "eof"
        BY <1>2, <1>3 DEF S3Inv, S3TypeOK, Amounts
      <3>2. /\ rd[u] \in Nat /\ sent[u] \in Nat /\ body[u] \in Nat /\ ask[u].len \in Nat
            /\ rd[u] = sent[u] + buffer[u] /\ rd[u] + body[u] = ask[u].len
        BY <1>3 DEF S3Inv, S3TypeOK, Amounts, Asks, BytesAreCounted
      <3> QED
        BY <1>1, <1>4, <2>1, <3>1, <3>2
    <2>2. CASE v # u
      <3>1. /\ rd'[v] = rd[v] /\ buffer'[v] = buffer[v] /\ sent'[v] = sent[v] /\ body'[v] = body[v]
            /\ ask'[v] = ask[v] /\ uat'[v] = uat[v]
        BY <1>2, <1>3, <2>2 DEF S3Inv, S3TypeOK, Amounts
      <3> QED
        BY <3>1 DEF S3Inv, BytesAreCounted
    <2> QED
      BY <2>1, <2>2
  <1>7. PartsInBucket'
    BY <1>3 DEF S3Inv, PartsInBucket
  <1>8. UploadsHold'
    BY <1>2, <1>3 DEF S3Inv, S3TypeOK, UploadsHold, LengthIsHeld, NoPartsAreLeft
  <1> QED
    BY <1>5, <1>6, <1>7, <1>8 DEF S3Inv

\* A part moves from the buffer to S3, or there is no upload to abort.
LEMMA PartS3 == ASSUME S3Inv, NEW u \in Users, SendPart(u) PROVE S3Inv'
  <1>1. UNCHANGED <<bucket, object, urls, ask, body, rd, stored, strays>> /\ uat[u] = "reading" /\ buffer[u] = PartSize
    BY DEF SendPart
  <1>2. CASE bucket = "mine" /\ (sent[u] = 0 \/ u \in uploads)
    <2>1. /\ uploads' = uploads \cup {u} /\ uat' = uat
          /\ sent' = [sent EXCEPT ![u] = @ + PartSize] /\ buffer' = [buffer EXCEPT ![u] = 0]
      BY <1>2 DEF SendPart
    <2>2. S3TypeOK'
      BY <1>1, <2>1, S3Assumption DEF S3Inv, S3TypeOK, Amounts
    <2>3. BytesAreCounted'
      BY <1>1, <2>1, S3Assumption DEF S3Inv, S3TypeOK, Amounts, BytesAreCounted
    <2>4. PartsInBucket' /\ UploadsHold'
      BY <1>1, <1>2, <2>1 DEF S3Inv, PartsInBucket, UploadsHold, LengthIsHeld, NoPartsAreLeft
    <2> QED
      BY <2>2, <2>3, <2>4 DEF S3Inv
  <1>3. CASE ~(bucket = "mine" /\ (sent[u] = 0 \/ u \in uploads))
    <2>1. UNCHANGED <<uploads, sent, buffer>> /\ uat' = [uat EXCEPT ![u] = "idle"]
      BY <1>3 DEF SendPart, Answers, Sets
    <2>2. u \notin uploads
      BY <1>3 DEF S3Inv, PartsInBucket
    <2>3. S3TypeOK'
      BY <1>1, <2>1 DEF S3Inv, S3TypeOK
    <2>4. BytesAreCounted'
      BY <1>1, <2>1 DEF S3Inv, S3TypeOK, BytesAreCounted
    <2>5. PartsInBucket' /\ UploadsHold'
      BY <1>1, <2>1, <2>2 DEF S3Inv, S3TypeOK, PartsInBucket, UploadsHold, LengthIsHeld, NoPartsAreLeft
    <2> QED
      BY <2>3, <2>4, <2>5 DEF S3Inv
  <1> QED
    BY <1>2, <1>3

\* The write that S3 takes holds the whole body, and ends the upload.
LEMMA WriteS3 == ASSUME S3Inv, NEW u \in Users, Write(u) PROVE S3Inv'
  <1> DEFINE code == IF sent[u] > 0 /\ u \notin uploads THEN "NoSuchUpload" ELSE WriteAnswer(ask[u].cond, ask[u].etag)
             new == [by |-> u, len |-> sent[u] + buffer[u]]
  <1>1. UNCHANGED <<bucket, urls, ask, body, rd, buffer, sent, strays>> /\ uat[u] = "writing"
    BY DEF Write
  <1>2. /\ object' = IF code = "ok" THEN new ELSE object
        /\ stored' = IF code = "ok"
                     THEN stored \cup {[by |-> u, len |-> new.len, want |-> ask[u].want, whole |-> new.len = ask[u].len]}
                     ELSE stored
        /\ uploads' = IF code = "ok" THEN uploads \ {u} ELSE uploads
        /\ \/ uat' = uat
           \/ uat' = [uat EXCEPT ![u] = IF code # "ok" /\ u \in uploads THEN "aborting" ELSE "idle"]
    BY DEF Write, Sets
  <1> HIDE DEF code
  <1>3. S3TypeOK'
    <2>1. object'.by \in Writers
      BY <1>2 DEF S3Inv, S3TypeOK, Writers
    <2>2. uat' \in [Users -> {"idle", "reading", "writing", "aborting"}] /\ uploads' \subseteq Users
      BY <1>2 DEF S3Inv, S3TypeOK
    <2> QED
      BY <1>1, <2>1, <2>2 DEF S3Inv, S3TypeOK
  <1>4. BytesAreCounted'
    BY <1>1, <1>2 DEF S3Inv, S3TypeOK, BytesAreCounted
  <1>5. PartsInBucket'
    BY <1>1, <1>2 DEF S3Inv, PartsInBucket
  <1>6. LengthIsHeld'
    <2>1. /\ rd[u] \in Nat /\ sent[u] \in Nat /\ body[u] = 0 /\ ask[u].len \in Nat /\ buffer[u] \in Nat
          /\ rd[u] = sent[u] + buffer[u] /\ rd[u] + body[u] = ask[u].len
          /\ ask[u].want # Unset => rd[u] = ask[u].want
      BY <1>1 DEF S3Inv, S3TypeOK, Amounts, Asks, BytesAreCounted
    <2>2. new.len = ask[u].len /\ (ask[u].want # Unset => new.len = ask[u].want)
      BY <2>1
    <2> HIDE DEF new
    <2> DEFINE taken == [by |-> u, len |-> new.len, want |-> ask[u].want, whole |-> new.len = ask[u].len]
    <2>3. taken.whole /\ taken.len = new.len /\ taken.want = ask[u].want
      BY <2>2, Zenon
    <2>4. stored' = stored \/ stored' = stored \cup {taken}
      BY <1>2
    <2> HIDE DEF taken
    <2> QED
      BY <2>2, <2>3, <2>4 DEF S3Inv, UploadsHold, LengthIsHeld
  <1>7. NoPartsAreLeft'
    BY <1>1, <1>2 DEF S3Inv, S3TypeOK, UploadsHold, NoPartsAreLeft
  <1> QED
    BY <1>3, <1>4, <1>5, <1>6, <1>7 DEF S3Inv, UploadsHold

\* An abort ends the upload or leaves a stray.
LEMMA AbortS3 == ASSUME S3Inv, NEW u \in Users, Abort(u) PROVE S3Inv'
  <1>1. UNCHANGED <<bucket, object, urls, ask, body, rd, buffer, sent, stored>> /\ uat' = [uat EXCEPT ![u] = "idle"]
    BY DEF Abort, Sets
  <1>2. (uploads' = uploads \ {u} /\ strays' = strays) \/ (uploads' = uploads /\ strays' = strays \cup {u})
    BY DEF Abort, AbortsUpload
  <1>3. S3TypeOK'
    BY <1>1, <1>2 DEF S3Inv, S3TypeOK
  <1>4. BytesAreCounted' /\ PartsInBucket'
    BY <1>1, <1>2 DEF S3Inv, S3TypeOK, BytesAreCounted, PartsInBucket
  <1>5. UploadsHold'
    BY <1>1, <1>2 DEF S3Inv, S3TypeOK, UploadsHold, LengthIsHeld, NoPartsAreLeft
  <1> QED
    BY <1>3, <1>4, <1>5 DEF S3Inv

\* A browser uploads what the URL was signed for.
LEMMA UrlS3 == ASSUME S3Inv, NEW url \in urls, NEW n \in Lengths, UseURL(url, n) PROVE S3Inv'
  <1>1. /\ UNCHANGED <<bucket, uploads, urls, uat, ask, body, rd, buffer, sent, strays>>
        /\ object' = [by |-> Browser, len |-> n] /\ url.len \in {Unset, n}
        /\ stored' = stored \cup {[by |-> Browser, len |-> n, want |-> url.asked, whole |-> TRUE]}
    BY DEF UseURL, useVars
  <1>2. url.len = url.asked
    BY DEF S3Inv, PartsInBucket
  <1>3. S3TypeOK'
    BY <1>1 DEF S3Inv, S3TypeOK, Writers
  <1>4. BytesAreCounted' /\ PartsInBucket' /\ NoPartsAreLeft'
    BY <1>1 DEF S3Inv, BytesAreCounted, PartsInBucket, UploadsHold, NoPartsAreLeft
  <1>5. LengthIsHeld'
    BY <1>1, <1>2 DEF S3Inv, UploadsHold, LengthIsHeld
  <1> QED
    BY <1>3, <1>4, <1>5 DEF S3Inv, UploadsHold

\* What S3 has is what was sent, whole, and no upload is left half sent.
THEOREM UploadsAreHeld == S3Spec => []UploadsHold
  <1>1. S3Inv /\ [S3Next]_allVars => S3Inv'
    <2>1. CASE UNCHANGED allVars \/ Ticks
      <3>1. UNCHANGED <<s3Vars, useVars, stored, strays>>
        BY <2>1 DEF Ticks, allVars
      <3> QED
        BY <3>1 DEF s3Vars, useVars, S3Inv, S3TypeOK, BytesAreCounted, PartsInBucket, UploadsHold, LengthIsHeld, NoPartsAreLeft
    <2>2. ASSUME S3Inv, S3Next, ~Ticks PROVE S3Inv'
      BY <2>2, RequestsS3, PutS3, ReadS3, PartS3, WriteS3, AbortS3, UrlS3 DEF S3Next
    <2> QED
      BY <2>1, <2>2
  <1>2. S3Inv => UploadsHold
    BY DEF S3Inv
  <1> QED
    BY InitS3, <1>1, <1>2, PTL DEF S3Spec

(***************************************************************************)
(* The Valkey cache: a dead client is not the current one                  *)
(***************************************************************************)
Places == {"idle", "load", "do", "failed", "asked", "ok", "ErrClosed", "error"}

\* Types, and where the owner's goroutine may be.
VkTypeOK ==
    /\ vkClosed \in BOOLEAN /\ vkClients \in Nat /\ vkClient \in 0..vkClients
    /\ vkDead \subseteq 1..vkClients
    /\ vkPhase \in {"down", "connecting", "swapped", "opening", "up", "closing"}
    /\ vkCommand \in [Commands -> [at : Places, ref : Nat, dead : BOOLEAN]]

\* A new client is open until Close has begun, and Close has set the flag.
CurrentIsOpen ==
    /\ vkPhase \in {"swapped", "opening", "up", "closing"} => vkClient # 0
    /\ vkPhase \in {"swapped", "opening", "up"} => vkClient \notin vkDead
    /\ vkPhase = "closing" => vkClosed
    /\ ~vkClosed => vkClient \notin vkDead

\* What a command that has met a dead client still has of it.
DeadIsRemembered ==
    \A g \in Commands :
        LET c == vkCommand[g] IN
        /\ c.ref <= vkClients
        /\ c.at = "failed" /\ c.dead => c.ref \in vkDead
        /\ c.at = "asked" /\ c.dead => c.ref # vkClient

VkInv == VkTypeOK /\ CurrentIsOpen /\ DeadIsRemembered /\ ClosedIsSaid

\* The invariant holds once the service is made.
LEMMA VkInitInv == VkInit => VkInv
  <1> SUFFICES ASSUME VkInit PROVE VkInv
    OBVIOUS
  <1>1. \A g \in Commands : vkCommand[g] = [at |-> "idle", ref |-> 0, dead |-> FALSE]
    BY DEF VkInit, NoCommand
  <1>2. VkTypeOK
    <2>1. [at |-> "idle", ref |-> 0, dead |-> FALSE] \in [at : Places, ref : Nat, dead : BOOLEAN]
      BY DEF Places
    <2>2. vkCommand \in [Commands -> [at : Places, ref : Nat, dead : BOOLEAN]]
      BY <2>1 DEF VkInit, NoCommand
    <2>3. vkClients \in Nat /\ vkDead \subseteq 1..vkClients /\ vkClient \in 0..vkClients
      BY DEF VkInit
    <2>5. vkClosed \in BOOLEAN
      BY DEF VkInit
    <2>4. vkPhase \in {"down", "connecting", "swapped", "opening", "up", "closing"}
      BY DEF VkInit
    <2> QED
      BY <2>2, <2>3, <2>4, <2>5 DEF VkTypeOK
  <1>3. CurrentIsOpen
    BY DEF VkInit, CurrentIsOpen
  <1>4. DeadIsRemembered /\ ClosedIsSaid
    BY <1>1 DEF VkInit, DeadIsRemembered, ClosedIsSaid
  <1> QED
    BY <1>2, <1>3, <1>4 DEF VkInv

\* The steps of Init and Close keep it, whatever commands are under way.
LEMMA OwnerKeepsInv ==
    VkInv /\ (VkStarts \/ VkConnects \/ VkConnectFails \/ VkClosesOld \/ VkOpens
              \/ VkMarksClosed \/ VkCloses) => VkInv'
  <1> SUFFICES ASSUME VkInv,
                      VkStarts \/ VkConnects \/ VkConnectFails \/ VkClosesOld \/ VkOpens
                      \/ VkMarksClosed \/ VkCloses
               PROVE VkInv'
    OBVIOUS
  <1> USE DEF VkInv, VkTypeOK, CurrentIsOpen, DeadIsRemembered, ClosedIsSaid
  <1>1. CASE VkStarts
    BY <1>1 DEF VkStarts, ClearedEarly
  \* The client's number is new, so no command refers to it.
  <1>2. CASE VkConnects
    BY <1>2 DEF VkConnects
  <1>3. CASE VkConnectFails
    BY <1>3 DEF VkConnectFails
  <1>4. CASE VkClosesOld
    BY <1>4 DEF VkClosesOld
  <1>5. CASE VkOpens
    BY <1>5 DEF VkOpens
  <1>6. CASE VkMarksClosed
    BY <1>6 DEF VkMarksClosed
  \* The client is dead from here on, and the flag has been set before.
  <1>7. CASE VkCloses
    BY <1>7 DEF VkCloses
  <1> QED
    BY <1>1, <1>2, <1>3, <1>4, <1>5, <1>6, <1>7

\* A command leaves the service alone and moves only itself, to a place that
\* fits what it carries.
LEMMA MoveKeepsInv ==
    ASSUME VkInv, NEW g \in Commands, NEW place \in Places, NEW ref \in 0..vkClients,
           NEW dead \in BOOLEAN, CommandAt(g, place, ref, dead),
           place = "failed" /\ dead => ref \in vkDead,
           place = "asked" /\ dead => ref # vkClient,
           place = "error" => ~dead
    PROVE  VkInv'
  <1> USE DEF CommandAt, vkServer
  <1> DEFINE Moved == [at |-> place, ref |-> ref, dead |-> dead]
  <1>1. Moved \in [at : Places, ref : Nat, dead : BOOLEAN] /\ Moved.ref <= vkClients
    BY DEF VkInv, VkTypeOK
  <1>2. vkCommand' = [vkCommand EXCEPT ![g] = Moved]
    OBVIOUS
  <1>3. vkCommand' \in [Commands -> [at : Places, ref : Nat, dead : BOOLEAN]]
    BY <1>1, <1>2 DEF VkInv, VkTypeOK
  <1>4. \A h \in Commands : vkCommand'[h] = IF h = g THEN Moved ELSE vkCommand[h]
    BY <1>2 DEF VkInv, VkTypeOK
  <1>5. DeadIsRemembered' /\ ClosedIsSaid'
    BY <1>1, <1>4 DEF VkInv, DeadIsRemembered, ClosedIsSaid
  <1> QED
    BY <1>3, <1>5 DEF VkInv, VkTypeOK, CurrentIsOpen

LEMMA CommandKeepsInv ==
    ASSUME VkInv, NEW g \in Commands,
           VkAcquires(g) \/ VkLoads(g) \/ VkDoes(g) \/ VkAsksClosed(g) \/ VkAsksClient(g)
    PROVE  VkInv'
  <1> DEFINE c == vkCommand[g]
  <1>1. c.ref \in 0..vkClients /\ c.dead \in BOOLEAN /\ vkClients \in Nat
        /\ vkClient \in 0..vkClients
    BY DEF VkInv, VkTypeOK, DeadIsRemembered
  <1>2. 0 \in 0..vkClients /\ {"load", "ErrClosed", "do", "ok", "failed", "asked", "error"} \subseteq Places
    BY <1>1 DEF Places
  <1>3. CASE VkAcquires(g)
    BY <1>2, <1>3, MoveKeepsInv DEF VkAcquires
  <1>4. CASE VkLoads(g)
    BY <1>1, <1>2, <1>4, MoveKeepsInv DEF VkLoads
  <1>5. CASE VkDoes(g)
    <2>1. CASE CommandAt(g, "ok", 0, FALSE)
      BY <1>2, <2>1, MoveKeepsInv
    <2>2. CASE CommandAt(g, "failed", c.ref, c.ref \in vkDead)
      <3> DEFINE d == c.ref \in vkDead
      <3>1. d \in BOOLEAN /\ (d => c.ref \in vkDead) /\ CommandAt(g, "failed", c.ref, d)
        BY <2>2
      <3> HIDE DEF d
      <3> QED
        BY <1>1, <1>2, <3>1, MoveKeepsInv
    <2> QED
      BY <1>5, <2>1, <2>2 DEF VkDoes
  \* Where the flag is clear the current client is open, and not the dead one.
  <1>6. CASE VkAsksClosed(g)
    <2>1. c.at = "failed" /\ c.dead => c.ref \in vkDead
      BY DEF VkInv, DeadIsRemembered
    <2>2. CASE vkClosed
      <3>1. CommandAt(g, "ErrClosed", c.ref, c.dead)
        BY <1>6, <2>2 DEF VkAsksClosed
      <3> QED
        BY <1>1, <1>2, <3>1, MoveKeepsInv
    <2>3. CASE ~vkClosed
      <3>1. CommandAt(g, "asked", c.ref, c.dead) /\ (c.dead => c.ref # vkClient)
        BY <1>6, <2>1, <2>3 DEF VkAsksClosed, VkInv, CurrentIsOpen
      <3> QED
        BY <1>1, <1>2, <3>1, MoveKeepsInv
    <2> QED
      BY <2>2, <2>3
  <1>7. CASE VkAsksClient(g)
    <2>1. c.at = "asked" /\ c.dead => c.ref # vkClient
      BY DEF VkInv, DeadIsRemembered
    <2>2. CASE vkClient # c.ref
      <3>1. CommandAt(g, "ErrClosed", 0, c.dead)
        BY <1>7, <2>2 DEF VkAsksClient, ReplacedSince
      <3> QED
        BY <1>1, <1>2, <3>1, MoveKeepsInv
    <2>3. CASE vkClient = c.ref
      <3>1. CommandAt(g, "error", 0, c.dead) /\ ~c.dead
        BY <1>7, <2>1, <2>3 DEF VkAsksClient, ReplacedSince
      <3> QED
        BY <1>1, <1>2, <3>1, MoveKeepsInv
    <2> QED
      BY <2>2, <2>3
  <1> QED
    BY <1>3, <1>4, <1>5, <1>6, <1>7

\* closedDuring (cache/valkey/service.go): whenever Close, a restart and the
\* command's four reads interleave, a failure on a client that was closed is
\* reported as cache.ErrClosed.
THEOREM ClosedIsAlwaysSaid == VkSpec => []ClosedIsSaid
  <1>1. VkInv /\ [VkNext]_vkVars => VkInv'
    <2> SUFFICES ASSUME VkInv, [VkNext]_vkVars PROVE VkInv'
      OBVIOUS
    <2>1. CASE UNCHANGED vkVars
      BY <2>1 DEF vkVars, vkServer, VkInv, VkTypeOK, CurrentIsOpen, DeadIsRemembered, ClosedIsSaid
    <2>2. CASE VkNext
      BY <2>2, OwnerKeepsInv, CommandKeepsInv DEF VkNext
    <2> QED
      BY <2>1, <2>2
  <1>2. VkInv => ClosedIsSaid
    BY DEF VkInv
  <1> QED
    BY VkInitInv, <1>1, <1>2, PTL DEF VkSpec

(***************************************************************************)
(* The job queue: a verdict is about the job in hand                       *)
(***************************************************************************)
\* What a consumer about to settle knows of the job in its hand.
VerdictIsTrue ==
    \A c \in Consumers : loop[c] = "settling" =>
        /\ verdict[c] \in {"done", "failed"}
        /\ verdict[c] = "done" => Head(batch[c]) \in handled

JobTypeOK ==
    /\ DOMAIN sqs = Jobs /\ sqs = [j \in Jobs |-> sqs[j]]
    /\ loop = [c \in Consumers |-> loop[c]]
    /\ batch = [c \in Consumers |-> batch[c]]
    /\ verdict = [c \in Consumers |-> verdict[c]]

JobInv == JobTypeOK /\ VerdictIsTrue /\ DeletedMeansHandled

\* Only what is handled is acked, and an Ack deletes one job only.
LEMMA SettlesKeepsInv ==
    ASSUME JobInv, NEW c \in Consumers, Settles(c)
    PROVE  JobInv'
  <1> USE DEF JobInv, JobTypeOK, VerdictIsTrue, DeletedMeansHandled
  <1> DEFINE j == Head(batch[c])
  <1>1. /\ loop[c] = "settling" /\ UNCHANGED handled
        /\ verdict' = [verdict EXCEPT ![c] = "none"]
        /\ \/ UNCHANGED sqs
           \/ Settlement(c, j)
    BY DEF Settles
  <1>2. \E place \in {"poll", "refused", "ended", "handling"} : loop' = [loop EXCEPT ![c] = place]
    BY DEF Settles, LoopAt, AfterError
  <1>3. \/ UNCHANGED batch
        \/ batch' = [batch EXCEPT ![c] = Tail(batch[c])]
    BY DEF Settles
  <1>4. /\ DOMAIN sqs' = Jobs /\ sqs' = [i \in Jobs |-> sqs'[i]]
        /\ \A i \in Jobs : sqs'[i] = "deleted" => i \in handled
    <2>1. CASE UNCHANGED sqs
      BY <2>1
    <2>2. CASE Settlement(c, j) /\ verdict[c] = "failed"
      BY <2>2 DEF Settlement, Nack
    <2>3. CASE Settlement(c, j) /\ verdict[c] = "done"
      <3>1. j \in handled
        BY <1>1, <2>3
      <3> QED
        BY <2>3, <3>1 DEF Settlement, Ack
    <2> QED
      BY <1>1, <2>1, <2>2, <2>3
  <1>5. VerdictIsTrue'
    BY <1>1, <1>2, <1>3
  <1> QED
    BY <1>1, <1>2, <1>3, <1>4, <1>5

\* A good verdict is given together with the entry in handled.
LEMMA HandlesKeepsInv ==
    ASSUME JobInv, NEW c \in Consumers, Handles(c)
    PROVE  JobInv'
  BY DEF Handles, LoopAt, JobInv, JobTypeOK, VerdictIsTrue, DeletedMeansHandled

\* A batch is exchanged only where no verdict is pending.
LEMMA ReceivedKeepsInv ==
    ASSUME JobInv, NEW c \in Consumers, NEW got, Received(c, got)
    PROVE  JobInv'
  <1> USE DEF JobInv, JobTypeOK, VerdictIsTrue, DeletedMeansHandled
  <1>1. /\ sqs' = [j \in Jobs |-> IF j \in {got[i] : i \in DOMAIN got} THEN "hidden" ELSE sqs[j]]
        /\ UNCHANGED <<verdict, handled>>
    BY DEF Received, Hides
  <1>2. \/ UNCHANGED batch
        \/ batch' = [batch EXCEPT ![c] = got]
    BY DEF Received
  <1>3. \E place \in {"poll", "refused", "ended", "handling"} : loop' = [loop EXCEPT ![c] = place]
    BY DEF Received, LoopAt, AfterError
  <1> QED
    BY <1>1, <1>2, <1>3

\* The other steps delete nothing and give no verdict.
LEMMA OthersKeepInv ==
    ASSUME JobInv,
           \/ CloseQueue \/ InitQueue
           \/ \E j \in Jobs : Appears(j) \/ \E delay \in {0, 1} : Enqueue(j, delay)
           \/ \E c \in Consumers : \/ PollStarts(c) \/ LoopEnds(c)
                                   \/ CloseConsumer(c) \/ InitConsumer(c)
    PROVE  JobInv'
  <1> USE DEF JobInv, JobTypeOK, VerdictIsTrue, DeletedMeansHandled, loopVars
  <1>1. CASE CloseQueue \/ InitQueue
    BY <1>1 DEF CloseQueue, InitQueue
  <1>2. CASE \E j \in Jobs : Appears(j)
    BY <1>2 DEF Appears
  <1>3. CASE \E j \in Jobs : \E delay \in {0, 1} : Enqueue(j, delay)
    BY <1>3 DEF Enqueue
  <1>4. CASE \E c \in Consumers : PollStarts(c)
    BY <1>4 DEF PollStarts, LoopAt, AfterError
  <1>5. CASE \E c \in Consumers : LoopEnds(c)
    BY <1>5 DEF LoopEnds, LoopAt
  <1>6. CASE \E c \in Consumers : CloseConsumer(c)
    BY <1>6 DEF CloseConsumer
  <1>7. CASE \E c \in Consumers : InitConsumer(c)
    <2>1. PICK c \in Consumers :
             /\ loop' = [loop EXCEPT ![c] = "poll"]
             /\ batch' = [batch EXCEPT ![c] = << >>]
             /\ UNCHANGED <<sqs, verdict, handled>>
      BY <1>7 DEF InitConsumer, LoopAt
    <2>2. VerdictIsTrue'
      BY <2>1
    <2> QED
      BY <2>1, <2>2
  <1> QED
    BY <1>1, <1>2, <1>3, <1>4, <1>5, <1>6, <1>7

\* Ack and Nack (queue/sqs/service.go) as the guide's consumer uses them:
\* whatever calls fail, time out or lose their answers, a job is deleted only
\* after a handler has succeeded on it.
THEOREM DeletedIsHandled == JobSpec => []DeletedMeansHandled
  <1>1. JobInit => JobInv
    BY DEF JobInit, JobInv, JobTypeOK, VerdictIsTrue, DeletedMeansHandled
  <1>2. JobInv /\ [JobNext]_jobVars => JobInv'
    <2> SUFFICES ASSUME JobInv, [JobNext]_jobVars PROVE JobInv'
      OBVIOUS
    <2>1. CASE UNCHANGED jobVars
      BY <2>1 DEF jobVars, loopVars, JobInv, JobTypeOK, VerdictIsTrue, DeletedMeansHandled
    <2>2. CASE JobNext
      BY <2>2, SettlesKeepsInv, HandlesKeepsInv, ReceivedKeepsInv, OthersKeepInv
         DEF JobNext, LoopSteps
    <2> QED
      BY <2>1, <2>2
  <1>3. JobInv => DeletedMeansHandled
    BY DEF JobInv
  <1> QED
    BY <1>1, <1>2, <1>3, PTL DEF JobSpec

(***************************************************************************)
(* Listing: names, and the order of names                                  *)
(***************************************************************************)
Letters == Seq(Int)

\* a and b have the same first n letters.
Agree(a, b, n) == n \in 0..Len(a) /\ n <= Len(b) /\ \A i \in 1..n : a[i] = b[i]

\* A prefix has the letters of what it begins.
LEMMA PrefixAgrees ==
    ASSUME NEW a \in Letters, NEW b \in Letters
    PROVE  IsPrefix(a, b) <=> Agree(a, b, Len(a))
  <1>1. Len(a) <= Len(b) =>
          /\ SubSeq(a, 1, Len(a)) = [i \in 1..Len(a) |-> a[i]]
          /\ SubSeq(b, 1, Len(a)) = [i \in 1..Len(a) |-> b[i]]
    BY DEF Letters
  <1>2. Len(a) \in Nat /\ Len(b) \in Nat
    BY DEF Letters
  <1> DEFINE f == [i \in 1..Len(a) |-> a[i]]
             g == [i \in 1..Len(a) |-> b[i]]
  <1>3. f = g <=> \A i \in 1..Len(a) : a[i] = b[i]
    <2>1. ASSUME f = g, NEW i \in 1..Len(a) PROVE a[i] = b[i]
      <3>1. f[i] = a[i] /\ g[i] = b[i]
        OBVIOUS
      <3> QED
        BY <2>1, <3>1
    <2>2. ASSUME \A i \in 1..Len(a) : a[i] = b[i] PROVE f = g
      BY <2>2
    <2> QED
      BY <2>1, <2>2
  <1> HIDE DEF f, g
  <1>4. IsPrefix(a, b) <=> Len(a) <= Len(b) /\ f = g
    BY <1>1 DEF IsPrefix, f, g
  <1>5. Agree(a, b, Len(a)) <=> Len(a) <= Len(b) /\ \A i \in 1..Len(a) : a[i] = b[i]
    BY <1>2 DEF Agree
  <1> QED
    BY <1>3, <1>4, <1>5

\* Two names are told apart by the first letter in which they differ, where
\* the end of a name comes before every letter.
LEMMA BeforeAtAPlace ==
    ASSUME NEW a \in Letters, NEW b \in Letters
    PROVE  Before(a, b) <=>
             \E n \in Nat : /\ Agree(a, b, n) /\ n < Len(b)
                            /\ n < Len(a) => a[n + 1] < b[n + 1]
  <1>1. ASSUME IsStrictPrefix(a, b)
        PROVE  Agree(a, b, Len(a)) /\ Len(a) < Len(b)
    <2>1. Agree(a, b, Len(a)) /\ a # b
      BY <1>1, PrefixAgrees DEF IsStrictPrefix
    <2>2. Len(a) = Len(b) => a = b
      BY <2>1 DEF Agree, Letters
    <2> QED
      BY <2>1, <2>2 DEF Agree, Letters
  <1>2. ASSUME Agree(a, b, Len(a)), Len(a) < Len(b)
        PROVE  IsStrictPrefix(a, b)
    BY <1>2, PrefixAgrees DEF IsStrictPrefix, Letters
  <1>3. ASSUME NEW i \in DOMAIN a \cap DOMAIN b, a[i] < b[i], \A j \in 1..i - 1 : a[j] = b[j]
        PROVE  i - 1 \in Nat /\ Agree(a, b, i - 1) /\ i - 1 < Len(b) /\ a[i - 1 + 1] < b[i - 1 + 1]
    BY <1>3 DEF Agree, Letters
  <1>4. ASSUME NEW n \in Nat, Agree(a, b, n), n < Len(a), n < Len(b), a[n + 1] < b[n + 1]
        PROVE  /\ n + 1 \in DOMAIN a \cap DOMAIN b
               /\ \A j \in 1..n + 1 - 1 : a[j] = b[j]
    BY <1>4 DEF Agree, Letters
  <1>5. Len(a) \in Nat /\ ~(Len(a) < Len(a))
    BY DEF Letters
  <1>6. ASSUME Before(a, b)
        PROVE  \E n \in Nat : /\ Agree(a, b, n) /\ n < Len(b)
                              /\ n < Len(a) => a[n + 1] < b[n + 1]
    <2>1. CASE IsStrictPrefix(a, b)
      BY <2>1, <1>1, <1>5
    <2>2. CASE ~IsStrictPrefix(a, b)
      <3>1. PICK i \in DOMAIN a \cap DOMAIN b : a[i] < b[i] /\ \A j \in 1..i - 1 : a[j] = b[j]
        BY <1>6, <2>2 DEF Before
      <3> QED
        BY <3>1, <1>3
    <2> QED
      BY <2>1, <2>2
  <1>7. ASSUME NEW n \in Nat, Agree(a, b, n), n < Len(b), n < Len(a) => a[n + 1] < b[n + 1]
        PROVE  Before(a, b)
    <2>1. CASE n < Len(a)
      BY <2>1, <1>4, <1>7 DEF Before
    <2>2. CASE ~(n < Len(a))
      <3>1. n = Len(a)
        BY <2>2, <1>7, <1>5 DEF Agree
      <3> QED
        BY <3>1, <1>2, <1>7 DEF Before
    <2> QED
      BY <2>1, <2>2
  <1> QED
    BY <1>6, <1>7

\* Go's order of strings is one: of two places where names differ, the first
\* decides.
LEMMA BeforeIsTransitive ==
    ASSUME NEW a \in Letters, NEW b \in Letters, NEW c \in Letters, Before(a, b), Before(b, c)
    PROVE  Before(a, c)
  <1>1. PICK m \in Nat : /\ Agree(a, b, m) /\ m < Len(b)
                         /\ m < Len(a) => a[m + 1] < b[m + 1]
    BY BeforeAtAPlace
  <1>2. PICK n \in Nat : /\ Agree(b, c, n) /\ n < Len(c)
                         /\ n < Len(b) => b[n + 1] < c[n + 1]
    BY BeforeAtAPlace
  <1>3. Len(a) \in Nat /\ Len(b) \in Nat /\ Len(c) \in Nat
    BY DEF Letters
  <1>4. /\ \A i \in 1..Len(a) : a[i] \in Int
        /\ \A i \in 1..Len(b) : b[i] \in Int
        /\ \A i \in 1..Len(c) : c[i] \in Int
    BY DEF Letters
  <1>5. CASE m <= n
    <2>1. Agree(a, c, m) /\ m < Len(c)
      BY <1>1, <1>2, <1>3, <1>5 DEF Agree
    <2>2. m < Len(a) => a[m + 1] < c[m + 1]
      <3> SUFFICES ASSUME m < Len(a) PROVE a[m + 1] < c[m + 1]
        OBVIOUS
      <3>1. m + 1 \in 1..Len(a) /\ m + 1 \in 1..Len(b) /\ m + 1 \in 1..Len(c)
        BY <1>1, <1>3, <2>1
      <3>2. CASE m < n
        <4>1. b[m + 1] = c[m + 1]
          BY <3>2, <1>2 DEF Agree
        <4> QED
          BY <4>1, <1>1
      <3>3. CASE m = n
        <4>1. b[m + 1] < c[m + 1]
          BY <3>3, <1>1, <1>2
        <4> QED
          BY <4>1, <1>1, <1>4, <3>1
      <3> QED
        BY <3>2, <3>3, <1>5
    <2> QED
      BY <2>1, <2>2, BeforeAtAPlace
  <1>6. CASE n < m
    <2>1. Agree(a, c, n) /\ n < Len(c)
      BY <1>1, <1>2, <1>3, <1>6 DEF Agree
    <2>2. n < Len(a) => a[n + 1] < c[n + 1]
      BY <1>1, <1>2, <1>3, <1>6 DEF Agree
    <2> QED
      BY <2>1, <2>2, BeforeAtAPlace
  <1> QED
    BY <1>5, <1>6

\* A listing starts before every name.
LEMMA StartIsBefore ==
    ASSUME NEW b \in Letters, b # << >>
    PROVE  Before(<< >>, b)
  <1>1. Len(b) > 0 /\ << >> \in Letters /\ Len(<< >>) = 0
    BY DEF Letters
  <1>2. Agree(<< >>, b, 0) /\ 0 < Len(b) /\ ~(0 < Len(<< >>))
    BY <1>1 DEF Agree, Letters
  <1> QED
    BY <1>1, <1>2, BeforeAtAPlace

\* A set of numbers above zero has a least one.
LEMMA LeastEnd ==
    ASSUME NEW S \in SUBSET Nat, S # {}
    PROVE  Min(S) \in S
  <1>1. \E x \in S : \A y \in S : ~(<<y, x>> \in OpToRel(<, Nat))
    BY NatLessThanWellFounded, WFMin, Zenon
  <1>2. \A x, y \in Nat : <<y, x>> \in OpToRel(<, Nat) <=> y < x
    BY Zenon DEF OpToRel
  <1>3. PICK x \in S : \A y \in S : ~(<<y, x>> \in OpToRel(<, Nat))
    BY <1>1
  <1>4. \A y \in S : ~(y < x)
    BY <1>2, <1>3, Zenon
  <1>5. \A y \in S : x =< y
    BY <1>4
  <1> QED
    BY <1>5 DEF Min

InputTyped ==
    /\ input.kind \in {"objects", "buckets"} /\ input.delim \in BOOLEAN
    /\ input.prefix \in Letters /\ input.start \in Letters
    /\ input.kind = "buckets" =>
          input.prefix = << >> /\ input.start = << >> /\ ~input.delim

\* A name is a sequence of letters and not empty, a key that is not a common
\* prefix is named by itself.
LEMMA NamesAreLetters ==
    ASSUME InputTyped, NEW key \in Letters, key # << >>
    PROVE  /\ RollsUpTo(key) \in Letters /\ RollsUpTo(key) # << >>
           /\ ~Common(RollsUpTo(key)) => RollsUpTo(key) = key
           /\ input.kind = "buckets" => RollsUpTo(key) = key /\ Selected(key)
  <1>1. Len(input.prefix) \in Nat /\ Len(key) \in Nat
    BY DEF InputTyped, Letters
  <1>2. CASE input.delim /\ Ends(key) # {}
    <2> DEFINE m == Min(Ends(key))
               name == SubSeq(key, 1, m)
    <2>1. Ends(key) \in SUBSET Nat
      BY <1>1 DEF Ends
    <2>2. m \in Ends(key)
      BY <1>2, <2>1, LeastEnd
    <2>3. m \in Len(input.prefix) + 1..Len(key) /\ key[m] = Delimiter
      BY <2>2 DEF Ends
    <2> HIDE DEF m
    <2>4. name = [i \in 1..m |-> key[i]] /\ name \in Letters /\ Len(name) = m
      BY <2>3, <1>1 DEF Letters
    <2>5. RollsUpTo(key) = name
      BY <1>2 DEF RollsUpTo, m
    <2>6. m \in Ends(name)
      BY <2>3, <2>4, <1>1 DEF Ends
    <2>7. name # << >>
      BY <2>3, <2>4, <1>1 DEF Letters
    <2>8. Common(name)
      BY <2>6, <1>2 DEF Common
    <2>9. input.kind # "buckets"
      BY <1>2 DEF InputTyped
    <2> QED
      BY <2>4, <2>5, <2>7, <2>8, <2>9
  <1>3. CASE ~(input.delim /\ Ends(key) # {})
    <2>1. RollsUpTo(key) = key
      BY <1>3 DEF RollsUpTo
    <2>2. ASSUME input.kind = "buckets" PROVE Selected(key)
      <3>1. input.prefix = << >> /\ input.start = << >>
        BY <2>2 DEF InputTyped
      <3>2. Agree(<< >>, key, 0) /\ << >> \in Letters /\ Len(<< >>) = 0
        BY <1>1 DEF Agree, Letters
      <3> QED
        BY <3>1, <3>2, PrefixAgrees DEF Selected
    <2> QED
      BY <2>1, <2>2
  <1> QED
    BY <1>2, <1>3

(***************************************************************************)
(* Listing: a name that lasts is answered, on the page or still to come    *)
(***************************************************************************)
ListingTypeOK ==
    /\ InputTyped
    /\ objects \in [Keys -> {"none", "usable", "corrupt"}]
    /\ at \in {"start", "reading", "doubt", "summary", "done"} /\ after \in Letters
    /\ toRead \subseteq IF input.kind = "objects" THEN Keys ELSE Buckets
    /\ found \subseteq IF input.kind = "objects" THEN Keys ELSE Buckets
    /\ at # "summary" => pg = {}
    /\ pg \subseteq Letters /\ seen \in Seq(Letters)
    /\ directory \subseteq Buckets

\* What the listing has to name: nobody has touched it since it began.
Lasting ==
    IF input.kind = "objects"
    THEN {k \in Keys \ touched : Selected(k) /\ objects[k] = "usable"}
    ELSE (directory \cap nameRecord) \ touched

\* What it may name.
ThereOnce(key) == key \in Keys /\ (key \in touched \/ objects[key] = "usable")
NameOfOne(name) == \E k \in Keys : Selected(k) /\ RollsUpTo(k) = name /\ ThereOnce(k)
NothingMadeUp ==
    input.kind = "objects" =>
        /\ \A k \in found : ThereOnce(k)
        /\ \A name \in pg \cup Range(seen) : NameOfOne(name)

\* Of a page, the names are the next ones.
Ahead(name) ==
    \/ at \in {"start", "reading", "doubt"} /\ Before(after, name)
    \/ name \in pg
    \/ at = "summary" /\ more /\ Before(after, name) /\ \A other \in pg : Before(other, name)
NoneLeftOut ==
    \A x \in Lasting :
        /\ at \in {"reading", "doubt"} => x \in toRead \cup found
        /\ RollsUpTo(x) \in Range(seen) \/ Ahead(RollsUpTo(x))

SeenInOrder ==
    /\ \A i \in 1..Len(seen) - 1 : Before(seen[i], seen[i + 1])
    /\ seen # << >> => seen[Len(seen)] = after \/ Before(seen[Len(seen)], after)
    /\ \A name \in pg : Before(after, name)

ListingInv == ListingTypeOK /\ NothingMadeUp /\ NoneLeftOut /\ SeenInOrder

\* What Selected and RollsUpTo say of a key depends on the input only.
LEMMA SameInputSameNames ==
    ASSUME UNCHANGED input
    PROVE  \A k : (Selected(k) <=> Selected(k)') /\ RollsUpTo(k)' = RollsUpTo(k)
                  /\ (Common(k)' <=> Common(k))
  BY DEF Selected, RollsUpTo, Common, Ends

LEMMA LastingIsNamed ==
    ASSUME ListingAssumption, ListingTypeOK, NEW x \in Lasting
    PROVE  /\ x \in Letters /\ Selected(x)
           /\ RollsUpTo(x) \in Letters /\ RollsUpTo(x) # << >>
           /\ x \in IF input.kind = "objects" THEN Keys ELSE Buckets
           /\ input.kind = "objects" => objects[x] = "usable" /\ x \notin touched
           /\ input.kind # "objects" => x \in directory \cap nameRecord /\ x \notin touched
  <1>1. /\ x \in IF input.kind = "objects" THEN Keys ELSE Buckets
        /\ input.kind = "objects" => Selected(x) /\ objects[x] = "usable" /\ x \notin touched
        /\ input.kind # "objects" => x \in directory \cap nameRecord /\ x \notin touched
    BY DEF Lasting, ListingTypeOK
  <1>2. x \in Letters /\ x # << >>
    BY <1>1 DEF ListingAssumption, Letters
  <1>3. InputTyped
    BY DEF ListingTypeOK
  <1>4. RollsUpTo(x) \in Letters /\ RollsUpTo(x) # << >> /\ (input.kind = "buckets" => Selected(x))
    BY <1>2, <1>3, NamesAreLetters
  <1> QED
    BY <1>1, <1>2, <1>3, <1>4 DEF InputTyped

LEMMA ListingStarts ==
    ASSUME ListingAssumption, ListingInit
    PROVE  ListingInv
  <1>1. InputTyped
    <2>1. input \in Inputs
      BY DEF ListingInit
    <2>2. /\ AskedPrefixes \cup StartAfters \subseteq Letters /\ << >> \in Letters
          /\ Delimited \subseteq BOOLEAN
      BY DEF ListingAssumption, Letters
    <2> QED
      BY <2>1, <2>2 DEF Inputs, InputTyped
  <1>2. ListingTypeOK
    BY <1>1 DEF ListingInit, ListingTypeOK, Letters
  <1>3. Range(seen) = {} /\ pg = {} /\ found = {} /\ seen = << >> /\ Len(seen) = 0
    BY DEF ListingInit, Range
  <1>4. NothingMadeUp /\ SeenInOrder
    BY <1>3 DEF NothingMadeUp, SeenInOrder
  <1>5. ASSUME NEW x \in Lasting PROVE Ahead(RollsUpTo(x)) /\ at = "start"
    <2>1. at = "start" /\ after = << >>
      BY DEF ListingInit
    <2>2. RollsUpTo(x) \in Letters /\ RollsUpTo(x) # << >>
      BY <1>2, LastingIsNamed
    <2> QED
      BY <2>1, <2>2, StartIsBefore DEF Ahead
  <1> QED
    BY <1>2, <1>4, <1>5 DEF ListingInv, NoneLeftOut

\* The lister changes neither what is stored nor what it is asked for.
LEMMA ListerLeavesTheWorld ==
    ASSUME UNCHANGED <<worldVars, input>>
    PROVE  /\ Lasting' = Lasting
           /\ \A k : (ThereOnce(k)' <=> ThereOnce(k)) /\ (NameOfOne(k)' <=> NameOfOne(k))
           /\ InputTyped' <=> InputTyped
  <1>1. UNCHANGED <<objects, directory, nameRecord, touched, input>>
    BY DEF worldVars
  <1>2. \A k : (Selected(k) <=> Selected(k)') /\ RollsUpTo(k)' = RollsUpTo(k)
    BY <1>1, SameInputSameNames
  <1>3. \A k : ThereOnce(k)' <=> ThereOnce(k)
    BY <1>1 DEF ThereOnce
  <1>4. \A k : NameOfOne(k)' <=> NameOfOne(k)
    BY <1>2, <1>3 DEF NameOfOne
  <1>5. Lasting' = Lasting
    BY <1>1, <1>2 DEF Lasting
  <1> QED
    BY <1>1, <1>3, <1>4, <1>5 DEF InputTyped

\* Reading the directory: what lasts is there to be read, and is found.
LEMMA ReadingKeeps ==
    ASSUME ListingAssumption, ListingInv,
           \/ ReadDir \/ LookAgain \/ Canceled
           \/ \E k \in Keys : UsableKey(k)
           \/ \E b \in Buckets : BucketEntry(b)
    PROVE  ListingInv'
  <1>1. /\ UNCHANGED <<worldVars, input, after, pg, more, seen>>
        /\ at \in {"start", "reading", "doubt"} /\ at' \in {"start", "reading", "doubt"}
    BY DEF ReadDir, LookAgain, Canceled, UsableKey, BucketEntry, LGoto
  <1>2. /\ Lasting' = Lasting /\ (InputTyped' <=> InputTyped)
        /\ \A k : (ThereOnce(k)' <=> ThereOnce(k)) /\ (NameOfOne(k)' <=> NameOfOne(k))
        /\ \A k : RollsUpTo(k)' = RollsUpTo(k)
    BY <1>1, ListerLeavesTheWorld, SameInputSameNames
  <1>3. /\ ListingTypeOK /\ UNCHANGED <<objects, directory, nameRecord, touched, input>>
        /\ InputTyped
    BY <1>1 DEF worldVars, ListingInv, ListingTypeOK
  <1>4. \A x \in Lasting :
          /\ x \in IF input.kind = "objects" THEN Keys ELSE Buckets
          /\ input.kind = "objects" => objects[x] = "usable"
          /\ input.kind # "objects" => x \in directory \cap nameRecord
    BY <1>3, LastingIsNamed
  <1>5. /\ toRead' \subseteq IF input.kind = "objects" THEN Keys ELSE Buckets
        /\ found' \subseteq IF input.kind = "objects" THEN Keys ELSE Buckets
        /\ input.kind = "objects" => \A k \in found' : k \in found \/ ThereOnce(k)
        /\ \A x \in Lasting : at' \in {"reading", "doubt"} => x \in toRead' \cup found'
    <2>1. CASE ReadDir
      BY <2>1, <1>3, <1>4 DEF ReadDir, ListingTypeOK
    <2>2. CASE LookAgain \/ Canceled
      BY <2>2, <1>3 DEF LookAgain, Canceled, LGoto, ListingTypeOK, ListingInv, NoneLeftOut
    <2>3. ASSUME NEW k \in Keys, UsableKey(k) PROVE <1>5
      <3>1. /\ at = "reading" /\ at' = at /\ input.kind = "objects" /\ toRead' = toRead \ {k}
            /\ found' = IF objects[k] = "usable" THEN found \cup {k} ELSE found
        BY <2>3 DEF UsableKey
      <3> QED
        BY <3>1, <1>3, <1>4 DEF ListingTypeOK, ListingInv, NoneLeftOut, ThereOnce
    <2>4. ASSUME NEW b \in Buckets, BucketEntry(b) PROVE <1>5
      <3>1. /\ at = "reading" /\ input.kind = "buckets" /\ toRead' = toRead \ {b}
            /\ found' = IF b \in nameRecord THEN found \cup {b} ELSE found
        BY <2>4 DEF BucketEntry
      <3> QED
        BY <3>1, <1>3, <1>4 DEF ListingTypeOK, ListingInv, NoneLeftOut
    <2> QED
      BY <2>1, <2>2, <2>3, <2>4
  <1>6. ListingTypeOK'
    BY <1>1, <1>2, <1>3, <1>5 DEF ListingTypeOK
  <1>7. NothingMadeUp'
    BY <1>1, <1>2, <1>3, <1>5 DEF ListingInv, NothingMadeUp
  <1>8. NoneLeftOut'
    BY <1>1, <1>2, <1>5 DEF ListingInv, NoneLeftOut, Ahead
  <1>9. SeenInOrder'
    BY <1>1 DEF ListingInv, SeenInOrder
  <1> QED
    BY <1>6, <1>7, <1>8, <1>9 DEF ListingInv

\* A page: what was found after the last name is on it or after all of it.
LEMMA PageKeeps ==
    ASSUME ListingAssumption, ListingInv, Page
    PROVE  ListingInv'
  <1> DEFINE names == {name \in rollUp(found) : Resumes(name)}
  <1>1. /\ UNCHANGED <<worldVars, input, after, toRead, found, seen>>
        /\ at = "reading" /\ toRead = {} /\ at' = "summary"
    BY DEF Page, LGoto
  <1>2. PICK p \in SUBSET names : IsPage(p, names) /\ pg' = p /\ more' = Truncated(names, p)
    BY DEF Page
  <1>3. /\ Lasting' = Lasting /\ (InputTyped' <=> InputTyped)
        /\ \A k : (ThereOnce(k)' <=> ThereOnce(k)) /\ (NameOfOne(k)' <=> NameOfOne(k))
        /\ \A k : RollsUpTo(k)' = RollsUpTo(k)
    BY <1>1, ListerLeavesTheWorld, SameInputSameNames
  <1>4. /\ ListingTypeOK /\ UNCHANGED <<objects, directory, nameRecord, touched, input>>
        /\ InputTyped /\ NothingMadeUp /\ NoneLeftOut /\ SeenInOrder
    BY <1>1 DEF worldVars, ListingInv, ListingTypeOK
  <1>5. ASSUME NEW name \in names
        PROVE  /\ name \in Letters /\ Before(after, name)
               /\ input.kind = "objects" => NameOfOne(name)
    <2>1. PICK k \in found : Selected(k) /\ RollsUpTo(k) = name
      BY DEF rollUp
    <2>2. k \in Letters /\ k # << >>
      BY <1>4 DEF ListingTypeOK, ListingAssumption, Letters
    <2>3. name \in Letters
      BY <2>1, <2>2, <1>4, NamesAreLetters
    <2>4. input.kind = "objects" => ThereOnce(k)
      BY <1>4 DEF NothingMadeUp
    <2> QED
      BY <2>1, <2>3, <2>4 DEF NameOfOne, ThereOnce, Resumes
  <1>6. ListingTypeOK'
    BY <1>1, <1>2, <1>3, <1>4, <1>5 DEF ListingTypeOK
  <1>7. NothingMadeUp'
    BY <1>1, <1>2, <1>3, <1>4, <1>5 DEF NothingMadeUp
  <1>8. NoneLeftOut'
    <2> SUFFICES ASSUME NEW x \in Lasting
                 PROVE  RollsUpTo(x) \in Range(seen) \/ Ahead(RollsUpTo(x))'
      BY <1>1, <1>3 DEF NoneLeftOut
    <2>1. x \in found /\ Selected(x)
      BY <1>1, <1>4, LastingIsNamed DEF NoneLeftOut
    <2>2. RollsUpTo(x) \in rollUp(found)
      BY <2>1 DEF rollUp
    <2>3. CASE RollsUpTo(x) \in names
      <3>1. CASE RollsUpTo(x) \in p
        BY <3>1, <1>2, <1>3 DEF Ahead
      <3>2. CASE RollsUpTo(x) \notin p
        <4>1. more' /\ Before(after, RollsUpTo(x)) /\ \A other \in p : Before(other, RollsUpTo(x))
          BY <3>2, <2>3, <1>2, <1>5 DEF IsPage, Truncated
        <4> QED
          BY <4>1, <1>1, <1>2, <1>3 DEF Ahead
      <3> QED
        BY <3>1, <3>2
    <2>4. CASE RollsUpTo(x) \notin names
      <3>1. ~Before(after, RollsUpTo(x))
        BY <2>2, <2>4 DEF Resumes
      <3>2. pg = {}
        BY <1>1, <1>4 DEF ListingTypeOK
      <3> QED
        BY <3>1, <3>2, <1>1, <1>4 DEF NoneLeftOut, Ahead
    <2> QED
      BY <2>3, <2>4
  <1>9. SeenInOrder'
    BY <1>1, <1>2, <1>4, <1>5 DEF SeenInOrder
  <1> QED
    BY <1>6, <1>7, <1>8, <1>9 DEF ListingInv

\* The first name of the page is answered, unless its object is gone or
\* damaged, and then nobody has left it alone.
LEMMA SummaryKeeps ==
    ASSUME ListingAssumption, ListingInv, Summary
    PROVE  ListingInv'
  <1>1. /\ UNCHANGED <<worldVars, input, toRead, found, more>> /\ at = "summary" /\ at' = at
    BY DEF Summary
  <1>2. PICK name \in pg :
          /\ \A other \in pg \ {name} : Before(name, other)
          /\ after' = name /\ pg' = pg \ {name}
          /\ seen' = IF Listed(name) THEN Append(seen, name) ELSE seen
    BY DEF Summary
  <1>3. /\ Lasting' = Lasting /\ (InputTyped' <=> InputTyped)
        /\ \A k : (ThereOnce(k)' <=> ThereOnce(k)) /\ (NameOfOne(k)' <=> NameOfOne(k))
        /\ \A k : RollsUpTo(k)' = RollsUpTo(k)
    BY <1>1, ListerLeavesTheWorld, SameInputSameNames
  <1>4. /\ ListingTypeOK /\ UNCHANGED <<objects, directory, nameRecord, touched, input>>
        /\ InputTyped /\ NothingMadeUp /\ NoneLeftOut /\ SeenInOrder
    BY <1>1 DEF worldVars, ListingInv, ListingTypeOK
  <1>5. name \in Letters /\ seen \in Seq(Letters) /\ after \in Letters
    BY <1>4 DEF ListingTypeOK
  <1>6. /\ seen' \in Seq(Letters) /\ Range(seen) \subseteq Range(seen')
        /\ Range(seen') \subseteq Range(seen) \cup {name}
        /\ Listed(name) => name \in Range(seen')
    <2>1. CASE Listed(name)
      <3>1. /\ seen' = Append(seen, name) /\ DOMAIN seen' = 1..Len(seen) + 1
            /\ \A i \in 1..Len(seen) : seen'[i] = seen[i]
            /\ seen'[Len(seen) + 1] = name /\ DOMAIN seen = 1..Len(seen) /\ Len(seen) \in Nat
        BY <2>1, <1>2, <1>5
      <3>2. seen' \in Seq(Letters)
        BY <3>1, <1>5
      <3>3. ASSUME NEW i \in 1..Len(seen) PROVE seen[i] \in Range(seen')
        BY <3>1 DEF Range
      <3>4. name \in Range(seen')
        BY <3>1 DEF Range
      <3>5. ASSUME NEW i \in 1..Len(seen) + 1 PROVE seen'[i] \in Range(seen) \cup {name}
        BY <3>1 DEF Range
      <3> QED
        BY <3>1, <3>2, <3>3, <3>4, <3>5 DEF Range
    <2>2. CASE ~Listed(name)
      BY <2>2, <1>2, <1>5
    <2> QED
      BY <2>1, <2>2
  <1>7. ListingTypeOK'
    BY <1>1, <1>2, <1>3, <1>4, <1>5, <1>6 DEF ListingTypeOK
  <1>8. NothingMadeUp'
    BY <1>1, <1>2, <1>3, <1>4, <1>6 DEF NothingMadeUp
  <1>9. NoneLeftOut'
    <2> SUFFICES ASSUME NEW x \in Lasting
                 PROVE  RollsUpTo(x) \in Range(seen') \/ Ahead(RollsUpTo(x))'
      BY <1>1, <1>3 DEF NoneLeftOut
    <2> DEFINE n == RollsUpTo(x)
    <2>1. CASE n \in Range(seen)
      BY <2>1, <1>6
    <2>2. CASE n = name
      <3>1. Listed(name)
        <4> SUFFICES ASSUME Summarized(name) PROVE objects[name] = "usable"
          BY DEF Listed
        <4>1. input.kind = "objects" /\ ~Common(name)
          BY DEF Summarized
        <4>2. x \in Keys /\ x \in Letters /\ x # << >> /\ objects[x] = "usable"
          BY <4>1, <1>4, LastingIsNamed DEF ListingAssumption
        <4>3. n = x
          BY <4>1, <4>2, <2>2, <1>4, NamesAreLetters
        <4> QED
          BY <4>2, <4>3, <2>2
      <3> QED
        BY <3>1, <2>2, <1>6
    <2>3. CASE n \in pg \ {name}
      BY <2>3, <1>2, <1>3 DEF Ahead
    <2>4. CASE n \notin Range(seen) /\ n \notin pg
      <3>1. more /\ \A other \in pg : Before(other, n)
        BY <2>4, <1>1, <1>4 DEF NoneLeftOut, Ahead
      <3> QED
        BY <3>1, <1>1, <1>2, <1>3 DEF Ahead
    <2> QED
      BY <2>1, <2>2, <2>3, <2>4
  <1>10. SeenInOrder'
    <2>1. Before(after, name) /\ \A other \in pg' : Before(after', other)
      BY <1>2, <1>4 DEF SeenInOrder
    <2>2. ASSUME seen # << >>
          PROVE  Before(seen[Len(seen)], name)
      <3>1. seen[Len(seen)] \in Letters /\ (seen[Len(seen)] = after \/ Before(seen[Len(seen)], after))
        BY <2>2, <1>4, <1>5 DEF SeenInOrder
      <3> QED
        BY <3>1, <2>1, <1>5, BeforeIsTransitive
    <2>3. CASE Listed(name)
      <3>1. seen' = Append(seen, name)
        BY <2>3, <1>2
      <3>2. /\ Len(seen') = Len(seen) + 1 /\ Len(seen) \in Nat /\ seen'[Len(seen')] = name
            /\ \A i \in 1..Len(seen) : seen'[i] = seen[i]
            /\ seen = << >> \/ Len(seen) > 0
        BY <3>1, <1>5
      <3>3. ASSUME NEW i \in 1..Len(seen') - 1 PROVE Before(seen'[i], seen'[i + 1])
        <4>1. CASE i = Len(seen)
          BY <4>1, <3>2, <2>2
        <4>2. CASE i # Len(seen)
          <5>1. i \in 1..Len(seen) - 1 /\ i \in 1..Len(seen) /\ i + 1 \in 1..Len(seen)
            BY <4>2, <3>2
          <5> QED
            BY <5>1, <3>2, <1>4 DEF SeenInOrder
        <4> QED
          BY <4>1, <4>2
      <3> QED
        BY <3>2, <3>3, <2>1, <1>2 DEF SeenInOrder
    <2>4. CASE ~Listed(name)
      <3>1. seen' = seen
        BY <2>4, <1>2
      <3> QED
        BY <3>1, <2>1, <2>2, <1>2, <1>4 DEF SeenInOrder
    <2> QED
      BY <2>3, <2>4
  <1> QED
    BY <1>7, <1>8, <1>9, <1>10 DEF ListingInv

\* The token is the last name of the page: what is not named yet is after it.
LEMMA AnswerKeeps ==
    ASSUME ListingAssumption, ListingInv, Answer
    PROVE  ListingInv'
  <1>1. /\ UNCHANGED <<worldVars, input, after, toRead, found, pg, more, seen>>
        /\ at = "summary" /\ pg = {} /\ at' = IF more THEN "start" ELSE "done"
    BY DEF Answer, LGoto
  <1>2. /\ Lasting' = Lasting /\ (InputTyped' <=> InputTyped)
        /\ \A k : (ThereOnce(k)' <=> ThereOnce(k)) /\ (NameOfOne(k)' <=> NameOfOne(k))
        /\ \A k : RollsUpTo(k)' = RollsUpTo(k)
    BY <1>1, ListerLeavesTheWorld, SameInputSameNames
  <1>3. /\ ListingTypeOK /\ UNCHANGED <<objects, directory, nameRecord, touched, input>>
        /\ NothingMadeUp /\ NoneLeftOut /\ SeenInOrder
    BY <1>1 DEF worldVars, ListingInv
  <1>4. ListingTypeOK'
    BY <1>1, <1>2, <1>3 DEF ListingTypeOK
  <1>5. NothingMadeUp'
    BY <1>1, <1>2, <1>3 DEF NothingMadeUp
  <1>6. NoneLeftOut'
    BY <1>1, <1>2, <1>3 DEF NoneLeftOut, Ahead
  <1>7. SeenInOrder'
    BY <1>1, <1>3 DEF SeenInOrder
  <1> QED
    BY <1>4, <1>5, <1>6, <1>7 DEF ListingInv

\* The others touch what they change, and the rest lasts.
LEMMA OthersKeep ==
    ASSUME ListingAssumption, ListingInv,
           \/ \E k \in Keys : PutOrDelete(k)
           \/ \E b \in Buckets :
                 \/ WriteRecord(b) \/ MakeDirectory(b) \/ RemoveDirectory(b) \/ DropRecord(b)
    PROVE  ListingInv'
  <1>1. UNCHANGED listerVars
    BY DEF PutOrDelete, WriteRecord, MakeDirectory, RemoveDirectory, DropRecord, Changes
  <1>2. UNCHANGED <<input, at, after, toRead, found, pg, more, seen>> /\ ListingTypeOK
    BY <1>1 DEF listerVars, ListingInv
  <1>3. /\ objects' \in [Keys -> {"none", "usable", "corrupt"}] /\ directory' \subseteq Buckets
        /\ touched \subseteq touched'
        /\ \A k \in Keys : k \in touched' \/ objects'[k] = objects[k]
        /\ input.kind # "objects" =>
              \A b : b \in touched' \/ (b \in directory' \cap nameRecord' => b \in directory \cap nameRecord)
    <2>1. ASSUME NEW k \in Keys, PutOrDelete(k) PROVE <1>3
      <3>1. /\ input.kind = "objects" /\ touched' = touched \cup {k} /\ UNCHANGED directory
            /\ \E s \in {"none", "usable", "corrupt"} : objects' = [objects EXCEPT ![k] = s]
        BY <2>1 DEF PutOrDelete, Changes
      <3> QED
        BY <3>1, <1>2 DEF ListingTypeOK
    <2>2. ASSUME NEW b \in Buckets,
                 WriteRecord(b) \/ MakeDirectory(b) \/ RemoveDirectory(b) \/ DropRecord(b)
          PROVE  <1>3
      <3>1. touched' = touched \cup {b} /\ UNCHANGED objects
        BY <2>2 DEF WriteRecord, MakeDirectory, RemoveDirectory, DropRecord, Changes
      <3>2. directory' \subseteq directory \cup {b} /\ nameRecord' \subseteq nameRecord \cup {b}
        BY <2>2 DEF WriteRecord, MakeDirectory, RemoveDirectory, DropRecord
      <3> QED
        BY <3>1, <3>2, <1>2 DEF ListingTypeOK
    <2> QED
      BY <2>1, <2>2
  <1>4. \A k : (Selected(k) <=> Selected(k)') /\ RollsUpTo(k)' = RollsUpTo(k)
    BY <1>2, SameInputSameNames
  <1>5. Lasting' \subseteq Lasting
    BY <1>2, <1>3, <1>4 DEF Lasting
  <1>6. \A k : ThereOnce(k) => ThereOnce(k)'
    BY <1>3 DEF ThereOnce
  <1>7. \A name : NameOfOne(name) => NameOfOne(name)'
    BY <1>4, <1>6 DEF NameOfOne
  <1>8. ListingTypeOK'
    BY <1>2, <1>3 DEF ListingTypeOK, InputTyped
  <1>9. NothingMadeUp'
    BY <1>2, <1>6, <1>7 DEF ListingInv, NothingMadeUp
  <1>10. NoneLeftOut'
    BY <1>2, <1>4, <1>5 DEF ListingInv, NoneLeftOut, Ahead
  <1>11. SeenInOrder'
    BY <1>2 DEF ListingInv, SeenInOrder
  <1> QED
    BY <1>8, <1>9, <1>10, <1>11 DEF ListingInv

LEMMA ListingStays ==
    ASSUME ListingAssumption, ListingInv, [ListingNext]_listVars
    PROVE  ListingInv'
  <1>1. CASE ReadDir \/ LookAgain \/ Canceled
    BY <1>1, ReadingKeeps
  <1>2. CASE \E k \in Keys : UsableKey(k)
    BY <1>2, ReadingKeeps
  <1>3. CASE \E b \in Buckets : BucketEntry(b)
    BY <1>3, ReadingKeeps
  <1>4. CASE Page
    BY <1>4, PageKeeps
  <1>5. CASE Summary
    BY <1>5, SummaryKeeps
  <1>6. CASE Answer
    BY <1>6, AnswerKeeps
  <1>7. CASE \/ \E k \in Keys : PutOrDelete(k)
             \/ \E b \in Buckets :
                   \/ WriteRecord(b) \/ MakeDirectory(b) \/ RemoveDirectory(b) \/ DropRecord(b)
    BY <1>7, OthersKeep
  <1>8. CASE UNCHANGED listVars
    <2>1. /\ UNCHANGED <<worldVars, input, at, after, toRead, found, pg, more, seen>>
          /\ UNCHANGED <<objects, directory>>
      BY <1>8 DEF listVars, worldVars
    <2>2. /\ Lasting' = Lasting /\ (InputTyped' <=> InputTyped)
          /\ \A k : (ThereOnce(k)' <=> ThereOnce(k)) /\ (NameOfOne(k)' <=> NameOfOne(k))
          /\ \A k : RollsUpTo(k)' = RollsUpTo(k)
      BY <2>1, ListerLeavesTheWorld, SameInputSameNames
    <2> QED
      BY <2>1, <2>2 DEF ListingInv, ListingTypeOK, NothingMadeUp, NoneLeftOut, Ahead, SeenInOrder
  <1> QED
    BY <1>1, <1>2, <1>3, <1>4, <1>5, <1>6, <1>7, <1>8 DEF ListingNext

\* ListObjects and ListBuckets, page by page (list.go): whatever others put,
\* delete or damage between and during the calls, every object or bucket that
\* they leave alone is named by itself or by its common prefix, names come in
\* order and once, and each is of an object that was there.
THEOREM PagesAreCovered == ListingSpec => []PagesCover
  <1>1. ListingInit => ListingInv
    BY ListingAssumption, ListingStarts
  <1>2. ListingInv /\ [ListingNext]_listVars => ListingInv'
    BY ListingAssumption, ListingStays
  <1>3. ListingInv => PagesCover
    <2> SUFFICES ASSUME ListingInv PROVE PagesCover
      OBVIOUS
    <2>1. /\ ListingTypeOK /\ NothingMadeUp /\ NoneLeftOut
          /\ \A i \in 1..Len(seen) - 1 : Before(seen[i], seen[i + 1])
      BY DEF ListingInv, SeenInOrder
    <2>2. ASSUME at = "done", NEW x \in Lasting PROVE RollsUpTo(x) \in Range(seen)
      BY <2>1, <2>2 DEF ListingTypeOK, NoneLeftOut, Ahead
    <2>3. input.kind = "objects" =>
            /\ at = "done" => \A k \in Keys \ touched :
                  Selected(k) /\ objects[k] = "usable" => RollsUpTo(k) \in Range(seen)
            /\ \A name \in Range(seen) : \E k \in Keys :
                  Selected(k) /\ RollsUpTo(k) = name /\ (k \in touched \/ objects[k] = "usable")
      BY <2>1, <2>2 DEF Lasting, NothingMadeUp, NameOfOne, ThereOnce
    <2>4. ASSUME input.kind = "buckets", at = "done", NEW b \in (directory \cap nameRecord) \ touched
          PROVE  b \in Range(seen)
      <3>1. b \in Lasting /\ b \in Buckets
        BY <2>1, <2>4 DEF Lasting, ListingTypeOK
      <3>2. b \in Letters /\ b # << >> /\ InputTyped
        BY <3>1, <2>1, ListingAssumption DEF ListingAssumption, Letters, ListingTypeOK
      <3>3. RollsUpTo(b) = b
        BY <3>2, <2>4, NamesAreLetters
      <3> QED
        BY <3>1, <3>3, <2>2, <2>4
    <2> QED
      BY <2>1, <2>3, <2>4 DEF PagesCover
  <1> QED
    BY <1>1, <1>2, <1>3, PTL DEF ListingSpec
============================================================================
