------------------------------ MODULE JobQueue ------------------------------
(***************************************************************************)
(* The SQS job queue (queue/sqs), SQS behind it, and the consumer service  *)
(* the module's guide gives: a pull loop that Init starts and Close stops, *)
(* which receives a batch and acks or nacks every job of it. SQS delivers  *)
(* at least once: a job not settled within the visibility timeout comes    *)
(* again, and the answer to any call may be lost after it took effect.     *)
(***************************************************************************)
EXTENDS Integers, Sequences, SequencesExt, FiniteSets

CONSTANTS
    Jobs,          \* the messages that are sent
    Consumers,     \* consumer services, of one process or several
    MaxBatch,      \* most messages a Dequeue asks for (10 in the code's limit)
    MaxJobFaults   \* bound on the calls and handlers that fail, visibility timeouts
                   \* that end while a consumer has the job, and restarts

ASSUME JobQueueAssumption ==
    MaxBatch \in Nat \ {0} /\ MaxJobFaults \in Nat

VARIABLES
    sqs,         \* per job: "unsent", "delayed", "visible", "hidden", "deleted"
    holder,      \* per job, who received it last, or "none"
    queueClosed, \* Service.closed
    loop,        \* per consumer, where its goroutine stands
    batch,       \* per consumer, the jobs in hand, the current one first
    verdict,     \* per consumer: of the handler on the current job
    cancelled,   \* per consumer: the loop's context
    handled,     \* jobs some handler has succeeded on
    jobFaults

loopVars == <<loop, batch, verdict, cancelled>>
jobVars == <<sqs, holder, queueClosed, loopVars, handled, jobFaults>>

JobInit ==
    /\ sqs = [j \in Jobs |-> "unsent"] /\ holder = [j \in Jobs |-> "none"]
    /\ queueClosed = FALSE
    /\ loop = [c \in Consumers |-> "poll"] /\ batch = [c \in Consumers |-> << >>]
    /\ verdict = [c \in Consumers |-> "none"] /\ cancelled = [c \in Consumers |-> FALSE]
    /\ handled = {} /\ jobFaults = 0

Faulty == jobFaults < MaxJobFaults /\ jobFaults' = jobFaults + 1
Faultless == jobFaults' = jobFaults
LoopAt(c, where) == loop' = [loop EXCEPT ![c] = where]

(***************************************************************************)
(* The queue service                                                       *)
(***************************************************************************)
\* Enqueue. The error of a SendMessage may come after the message is queued.
Enqueue(j, delay) ==
    /\ sqs[j] = "unsent" /\ ~queueClosed
    /\ \/ Faultless
       \/ Faulty
    /\ sqs' = [sqs EXCEPT ![j] = IF delay > 0 THEN "delayed" ELSE "visible"]
    /\ UNCHANGED <<holder, queueClosed, loopVars, handled>>

CloseQueue ==
    /\ ~queueClosed /\ queueClosed' = TRUE
    /\ UNCHANGED <<sqs, holder, loopVars, handled, jobFaults>>

InitQueue ==
    /\ queueClosed /\ queueClosed' = FALSE /\ Faulty
    /\ UNCHANGED <<sqs, holder, loopVars, handled>>

\* What SQS does on its own: a delay ends, a visibility timeout does.
Over(c) == loop[c] \in {"ended", "refused"}
InHand(j) == \E c \in Consumers : ~Over(c) /\ Contains(batch[c], j)
Appears(j) ==
    /\ \/ sqs[j] = "delayed" /\ Faultless
       \/ sqs[j] = "hidden" /\ ~InHand(j) /\ Faultless
       \/ sqs[j] = "hidden" /\ InHand(j) /\ Faulty
    /\ sqs' = [sqs EXCEPT ![j] = "visible"]
    /\ UNCHANGED <<holder, queueClosed, loopVars, handled>>

(***************************************************************************)
(* The consumer's loop                                                     *)
(***************************************************************************)
\* receiveMessageParams: maxMessages within SQS's limits.
Clamped(most) == IF most < 1 THEN 1 ELSE IF most > 10 THEN 10 ELSE most

\* What run does with the error of a Poll: it ends if it was cancelled or the
\* queue is closed (here "refused"), and polls again otherwise, 5 seconds later.
\* What is left of the batch stays unsettled. Fault: any error ends it.
AfterError_ends(closed, stopped) == "ended"
AfterError(closed, stopped) ==
    IF closed THEN "refused" ELSE IF stopped THEN "ended" ELSE "poll"

\* A call made on a cancelled context fails; so does any, now and then.
CallFails(c) == IF cancelled[c] THEN Faultless ELSE Faulty
CallWorks(c) == ~cancelled[c] /\ Faultless

PollStarts(c) ==
    /\ loop[c] = "poll" /\ ~cancelled[c]
    /\ LoopAt(c, IF queueClosed THEN AfterError(TRUE, FALSE) ELSE "receiving")
    /\ batch' = [batch EXCEPT ![c] = << >>]
    /\ UNCHANGED <<sqs, holder, queueClosed, verdict, cancelled, handled, jobFaults>>

LoopEnds(c) ==
    /\ loop[c] = "poll" /\ cancelled[c] /\ LoopAt(c, "ended")
    /\ UNCHANGED <<sqs, holder, queueClosed, batch, verdict, cancelled, handled, jobFaults>>

\* Dequeue: SQS hides what it hands out, whether or not the answer arrives.
Hides(c, S) ==
    /\ sqs' = [j \in Jobs |-> IF j \in S THEN "hidden" ELSE sqs[j]]
    /\ holder' = [j \in Jobs |-> IF j \in S THEN c ELSE holder[j]]
Received(c, got) ==
    /\ loop[c] = "receiving"
    /\ Len(got) <= Clamped(MaxBatch) /\ \A i \in DOMAIN got : sqs[got[i]] = "visible"
    /\ Hides(c, {got[i] : i \in DOMAIN got})
    /\ \/ /\ CallWorks(c) /\ batch' = [batch EXCEPT ![c] = got]
          /\ LoopAt(c, IF got = << >> THEN "poll" ELSE "handling")
       \/ /\ CallFails(c) /\ UNCHANGED batch /\ LoopAt(c, AfterError(FALSE, cancelled[c]))
    /\ UNCHANGED <<queueClosed, verdict, cancelled, handled>>

Handles(c) ==
    /\ loop[c] = "handling" /\ LoopAt(c, "settling")
    /\ \/ /\ Faultless /\ verdict' = [verdict EXCEPT ![c] = "done"]
          /\ handled' = handled \cup {Head(batch[c])}
       \/ Faulty /\ verdict' = [verdict EXCEPT ![c] = "failed"] /\ UNCHANGED handled
    /\ UNCHANGED <<sqs, holder, queueClosed, batch, cancelled>>

\* Ack deletes the message, Nack makes it visible again. SQS may or may not
\* honour the receipt of one that has been received again since.
Ack(c, j) == \/ sqs' = [sqs EXCEPT ![j] = "deleted"]
             \/ holder[j] # c /\ UNCHANGED sqs
Nack(c, j) == \/ sqs[j] = "hidden" /\ sqs' = [sqs EXCEPT ![j] = "visible"]
              \/ (holder[j] # c \/ sqs[j] # "hidden") /\ UNCHANGED sqs

\* Poll's continue: a job that failed is nacked and never acked.
\* Fault: it is acked like the others.
Settlement_ack(c, j) == Ack(c, j)
Settlement(c, j) == IF verdict[c] = "failed" THEN Nack(c, j) ELSE Ack(c, j)

Settles(c) ==
    LET j == Head(batch[c]) IN
    /\ loop[c] = "settling"
    /\ \/ /\ queueClosed /\ LoopAt(c, AfterError(TRUE, cancelled[c])) /\ UNCHANGED <<sqs, batch>> /\ Faultless
       \/ /\ ~queueClosed /\ CallFails(c) /\ LoopAt(c, AfterError(FALSE, cancelled[c])) /\ UNCHANGED batch
          /\ Settlement(c, j) \/ UNCHANGED sqs
       \/ /\ ~queueClosed /\ CallWorks(c) /\ Settlement(c, j)
          /\ batch' = [batch EXCEPT ![c] = Tail(@)]
          /\ LoopAt(c, IF Len(batch[c]) = 1 THEN "poll" ELSE "handling")
    /\ verdict' = [verdict EXCEPT ![c] = "none"]
    /\ UNCHANGED <<holder, queueClosed, cancelled, handled>>

(***************************************************************************)
(* The consumer's Close and Init                                           *)
(***************************************************************************)
\* Close cancels the context and waits for the loop to end.
CloseConsumer(c) ==
    /\ ~cancelled[c] /\ cancelled' = [cancelled EXCEPT ![c] = TRUE]
    /\ UNCHANGED <<sqs, holder, queueClosed, loop, batch, verdict, handled, jobFaults>>

InitConsumer(c) ==
    /\ cancelled[c] /\ Over(c) /\ Faulty
    /\ cancelled' = [cancelled EXCEPT ![c] = FALSE] /\ LoopAt(c, "poll")
    /\ batch' = [batch EXCEPT ![c] = << >>]
    /\ UNCHANGED <<sqs, holder, queueClosed, verdict, handled>>

Batches == {got \in UNION {[1..n -> Jobs] : n \in 0..MaxBatch} : IsInjective(got)}
LoopSteps(c) ==
    \/ PollStarts(c) \/ LoopEnds(c) \/ Handles(c) \/ Settles(c)
    \/ \E got \in Batches : Received(c, got)

JobNext ==
    \/ CloseQueue \/ InitQueue
    \/ \E j \in Jobs : Appears(j) \/ \E delay \in {0, 1} : Enqueue(j, delay)
    \/ \E c \in Consumers : LoopSteps(c) \/ CloseConsumer(c) \/ InitConsumer(c)

\* What a loop does next whoever else does nothing, and a job handed to it.
LoopGoesOn(c) == PollStarts(c) \/ LoopEnds(c) \/ Handles(c) \/ Settles(c) \/ Received(c, << >>)
Hands(c, j) == \E got \in Batches : Contains(got, j) /\ Received(c, got)

\* Goroutines run, timeouts end, and SQS hands out a message that is visible
\* whenever it is asked; nobody has to send, close or start anything.
JobFairness ==
    /\ \A j \in Jobs : WF_jobVars(Appears(j))
    /\ \A c \in Consumers : WF_jobVars(LoopGoesOn(c)) /\ \A j \in Jobs : SF_jobVars(Hands(c, j))

JobSpec == JobInit /\ [][JobNext]_jobVars /\ JobFairness

(***************************************************************************)
(* Properties                                                              *)
(***************************************************************************)
\* Whatever calls fail, time out or are lost, and whoever is closed when, a
\* job leaves the queue only after some handler succeeded on it.
DeletedMeansHandled == \A j \in Jobs : sqs[j] = "deleted" => j \in handled

\* A job sent to the queue is handled, or every consumer was closed or found
\* the queue closed: an error of a call or of a handler stops no loop.
JobsAreHandled ==
    \A j \in Jobs : sqs[j] = "visible" ~>
        \/ j \in handled
        \/ \A c \in Consumers : cancelled[c] \/ loop[c] = "refused"
=============================================================================
