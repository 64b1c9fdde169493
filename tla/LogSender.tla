----------------------------- MODULE LogSender -----------------------------
(***************************************************************************)
(* Log shipping (log/httpsink.go): a delivery goroutine takes records from *)
(* a bounded channel into a batch and posts it when it is full, on a tick, *)
(* on a flush, and when the sender is closed. Enqueueing never blocks and  *)
(* may drop. A step is one channel operation or one post; a record is the  *)
(* number of its acceptance. A post that fails is reported and not         *)
(* repeated, so "posted" is what has been handed to the HTTP client.       *)
(***************************************************************************)
EXTENDS Integers, Sequences

CONSTANTS
    Flushers,     \* goroutines that call Flush
    Closers,      \* goroutines that call Close
    BatchSize,
    QueueSize,
    MaxRecords,   \* bound on records logged
    MaxFlushes    \* bound on Flushes, per goroutine

ASSUME LogAssumption ==
    /\ Flushers \cap {"stop", "none"} = {}
    /\ BatchSize \in Nat \ {0} /\ QueueSize \in Nat \ {0}
    /\ MaxRecords \in Nat /\ MaxFlushes \in Nat

VARIABLES
    queue,      \* s.ch
    logged,     \* records accepted into s.ch so far
    unsent,
    posted,     \* every record posted, in order
    sender,     \* where run is: "select", "drain", "post" or "returned"
    serves,     \* the flush that run has taken, "stop" when it was stopped, or "none"
    stopped,    \* s.stopped is closed
    flusher,    \* per flusher: where it is, and what had been accepted when it began
    flushes,    \* Flushes begun, per goroutine
    closer,     \* per closer: where it is
    atClose     \* records accepted when the sender was stopped

logVars == <<queue, logged, unsent, posted, sender, serves, stopped, flusher, flushes, closer, atClose>>

LogInit ==
    /\ queue = << >> /\ logged = 0 /\ unsent = << >> /\ posted = << >>
    /\ sender = "select" /\ serves = "none" /\ stopped = FALSE
    /\ flusher = [f \in Flushers |-> [at |-> "idle", upto |-> 0]]
    /\ flushes = [f \in Flushers |-> 0]
    /\ closer = [c \in Closers |-> "idle"] /\ atClose = 0

(***************************************************************************)
(* The callers                                                             *)
(***************************************************************************)
\* A record that finds no room, or (by the select's choice) a stopped sender,
\* is dropped: no step.
enqueue ==
    /\ logged < MaxRecords /\ Len(queue) < QueueSize
    /\ logged' = logged + 1
    /\ queue' = Append(queue, logged + 1)
    /\ UNCHANGED <<unsent, posted, sender, serves, stopped, flusher, flushes, closer, atClose>>

FlusherAt(f, at) == flusher' = [flusher EXCEPT ![f].at = at]

FlushBegins(f) ==
    /\ flusher[f].at \in {"idle", "flushed", "noop"} /\ flushes[f] < MaxFlushes
    /\ flusher' = [flusher EXCEPT ![f] = [at |-> "send", upto |-> logged]]
    /\ flushes' = [flushes EXCEPT ![f] = @ + 1]
    /\ UNCHANGED <<queue, logged, unsent, posted, sender, serves, stopped, closer, atClose>>

\* The rendezvous on s.flushCh
FlushTaken(f) ==
    /\ flusher[f].at = "send" /\ sender = "select"
    /\ FlusherAt(f, "wait")
    /\ sender' = "drain" /\ serves' = f
    /\ UNCHANGED <<queue, logged, unsent, posted, stopped, flushes, closer, atClose>>

\* <-s.stopped. Fault: flush waits for the delivery goroutine only.
GivesUp_never == FALSE
GivesUp == stopped

FlushStopped(f) ==
    /\ flusher[f].at = "send" /\ GivesUp
    /\ FlusherAt(f, "noop")
    /\ UNCHANGED <<queue, logged, unsent, posted, sender, serves, stopped, flushes, closer, atClose>>

\* closeOnce: the first closes s.stopped, and all wait for run to return.
CloseBegins(c) ==
    /\ closer[c] = "idle"
    /\ closer' = [closer EXCEPT ![c] = "wait"]
    /\ stopped' = TRUE
    /\ atClose' = IF stopped THEN atClose ELSE logged
    /\ UNCHANGED <<queue, logged, unsent, posted, sender, serves, flusher, flushes>>

CloseReturns(c) ==
    /\ closer[c] = "wait" /\ sender = "returned"
    /\ closer' = [closer EXCEPT ![c] = "closed"]
    /\ UNCHANGED <<queue, logged, unsent, posted, sender, serves, stopped, flusher, flushes, atClose>>

(***************************************************************************)
(* run                                                                     *)
(***************************************************************************)
RunTakes ==
    /\ sender = "select" /\ queue # << >>
    /\ unsent' = Append(unsent, Head(queue)) /\ queue' = Tail(queue)
    /\ sender' = IF Len(unsent') >= BatchSize THEN "post" ELSE "select"
    /\ UNCHANGED <<logged, posted, serves, stopped, flusher, flushes, closer, atClose>>

RunTicks ==
    /\ sender = "select" /\ unsent # << >>
    /\ sender' = "post"
    /\ UNCHANGED <<queue, logged, unsent, posted, serves, stopped, flusher, flushes, closer, atClose>>

\* A stopped sender goes on with the queue.
AfterStop == "drain"

RunStops ==
    /\ sender = "select" /\ stopped
    /\ sender' = AfterStop /\ serves' = "stop"
    /\ UNCHANGED <<queue, logged, unsent, posted, stopped, flusher, flushes, closer, atClose>>

\* One record after the other, until the queue is found empty.
Drain ==
    /\ sender = "drain"
    /\ IF queue = << >>
       THEN sender' = "post" /\ UNCHANGED <<queue, unsent>>
       ELSE unsent' = Append(unsent, Head(queue)) /\ queue' = Tail(queue) /\ UNCHANGED sender
    /\ UNCHANGED <<logged, posted, serves, stopped, flusher, flushes, closer, atClose>>

\* post, and then what the case of the select does: answer the flush, or
\* return. Fault: the batch is kept after a post.
Rest_kept == unsent
Rest == << >>

Post ==
    /\ sender = "post"
    /\ posted' = posted \o unsent /\ unsent' = Rest
    /\ sender' = IF serves = "stop" THEN "returned" ELSE "select"
    /\ serves' = "none"
    /\ flusher' = [f \in Flushers |->
                     IF f = serves THEN [flusher[f] EXCEPT !.at = "flushed"] ELSE flusher[f]]
    /\ UNCHANGED <<queue, logged, stopped, flushes, closer, atClose>>

LogNext ==
    \/ enqueue \/ RunTakes \/ RunTicks \/ RunStops \/ Drain \/ Post
    \/ \E f \in Flushers : FlushBegins(f) \/ FlushTaken(f) \/ FlushStopped(f)
    \/ \E c \in Closers : CloseBegins(c) \/ CloseReturns(c)

\* The ticker fires for ever, a select that is ready over and over takes each
\* ready case in the end, and the HTTP client has a timeout.
LogFairness ==
    /\ WF_logVars(Drain) /\ WF_logVars(Post)
    /\ SF_logVars(RunStops) /\ SF_logVars(RunTicks) /\ SF_logVars(RunTakes)
    /\ \A f \in Flushers : SF_logVars(FlushTaken(f)) /\ WF_logVars(FlushStopped(f))
    /\ \A c \in Closers : WF_logVars(CloseReturns(c))
LogSpec == LogInit /\ [][LogNext]_logVars /\ LogFairness

(***************************************************************************)
(* Properties                                                              *)
(***************************************************************************)
\* Records are posted in the order they were logged, each once and none
\* skipped, across ticks, full batches, flushes and the last drain; what a
\* Flush has returned for, and what was accepted before Close when Close has
\* returned, has been posted ("posts the records still queued ... and returns
\* once that last post has finished", logging.mdx).
PostedInOrder ==
    /\ \A i \in DOMAIN posted : posted[i] = i
    /\ \A f \in Flushers : flusher[f].at = "flushed" => Len(posted) >= flusher[f].upto
    /\ \A c \in Closers : closer[c] = "closed" => Len(posted) >= atClose

\* Flush and Close return, whichever of the two the goroutine sees first, and
\* a record in the queue is posted in the end, unless the sender is stopped.
AllReturn ==
    /\ \A f \in Flushers : (flusher[f].at = "send") ~> (flusher[f].at \in {"flushed", "noop"})
    /\ \A c \in Closers : (closer[c] = "wait") ~> (closer[c] = "closed")
    /\ \A n \in 1..MaxRecords : (logged = n) ~> (Len(posted) >= n \/ stopped)
=============================================================================
