----------------------------- MODULE MCProgress -----------------------------
(***************************************************************************)
(* What must come to an end, of four components side by side: the jobs of  *)
(* the queue, the log records and the goroutines that wait for them, the   *)
(* rows of expired credentials, and the App's Run. As in MCBackends each   *)
(* behaviour runs one of them; each module's fairness is asked of it       *)
(* alone. The bounds are smaller than where only safety is checked.        *)
(***************************************************************************)
EXTENDS JobQueue, LogSender, Credentials, AppServer

VARIABLE part  \* the component that runs
vars == <<jobVars, logVars, credVars, appVars, part>>

Init ==
    /\ part \in {"jobs", "log", "credentials", "server"}
    /\ JobInit /\ LogInit /\ AppInit
    /\ CredInit
    /\ part # "credentials" => kind = CHOOSE k \in Kinds : TRUE

JobsRun == part = "jobs" /\ JobNext /\ UNCHANGED <<logVars, credVars, appVars, part>>
LogRuns == part = "log" /\ LogNext /\ UNCHANGED <<jobVars, credVars, appVars, part>>
CredentialsRun == part = "credentials" /\ CredNext /\ UNCHANGED <<jobVars, logVars, appVars, part>>
ServerRuns == part = "server" /\ AppNext /\ UNCHANGED <<jobVars, logVars, credVars, part>>

Next == JobsRun \/ LogRuns \/ CredentialsRun \/ ServerRuns

\* JobFairness, LogFairness, CredFairness and AppFairness, of the component
\* that runs.
Fairness ==
    /\ \A j \in Jobs : WF_jobVars(part = "jobs" /\ Appears(j))
    /\ \A c \in Consumers :
          /\ WF_jobVars(part = "jobs" /\ LoopGoesOn(c))
          /\ \A j \in Jobs : SF_jobVars(part = "jobs" /\ Hands(c, j))
    /\ WF_logVars(part = "log" /\ Drain) /\ WF_logVars(part = "log" /\ Post)
    /\ SF_logVars(part = "log" /\ RunStops) /\ SF_logVars(part = "log" /\ RunTicks)
    /\ SF_logVars(part = "log" /\ RunTakes)
    /\ \A f \in Flushers : /\ SF_logVars(part = "log" /\ FlushTaken(f))
                           /\ WF_logVars(part = "log" /\ FlushStopped(f))
    /\ \A c \in Closers : WF_logVars(part = "log" /\ CloseReturns(c))
    /\ WF_credVars(part = "credentials" /\ CleanupTick)
    /\ WF_credVars(part = "credentials" /\ CleanupEnds)
    /\ \A p \in Callers : WF_credVars(part = "credentials" /\ CredStep(p))
    /\ WF_appVars(part = "server" /\ RunSelects)
    /\ \A p \in Stopping : WF_appVars(part = "server" /\ StopStep(p))

Spec == Init /\ [][Next]_vars /\ Fairness
=============================================================================
