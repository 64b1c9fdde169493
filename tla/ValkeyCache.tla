---------------------------- MODULE ValkeyCache ----------------------------
(***************************************************************************)
(* The Valkey cache (cache/valkey): a closed flag and a pointer to the     *)
(* current client, both atomic, and no lock. Init connects, with retries,  *)
(* and swaps the client before it clears the flag; Close sets the flag     *)
(* before it closes the client; a command that fails asks both whether the *)
(* service was closed or restarted under it. Init and Close are called one *)
(* after the other (the worker sees to that), commands at any time. The    *)
(* server and its client are external: a command on a closed client fails, *)
(* and one on an open client succeeds or, for a network fault, fails.      *)
(***************************************************************************)
EXTENDS Integers

CONSTANTS
    Commands,      \* concurrent Gets, Sets, Deletes, Exists and CheckReadys
    ConnRetries,   \* cache.connretries
    MaxClients,    \* bound on clients made
    MaxCommands    \* bound on commands, per goroutine

ASSUME ValkeyAssumption == ConnRetries \in Nat /\ MaxClients \in Nat /\ MaxCommands \in Nat

VARIABLES
    vkClosed,    \* s.closed
    vkClient,    \* s.client: the client's number, 0 before the first
    vkClients,   \* clients made so far
    vkDead,      \* clients that have been closed
    vkPhase,     \* what the worker's goroutine does
    vkAttempt,   \* of connectWithRetry
    vkCommand,   \* per goroutine: where its command is, the client it uses, and
                 \* whether that was closed when the command failed
    vkCount      \* commands begun, per goroutine

vkServer == <<vkClosed, vkClient, vkClients, vkDead, vkPhase, vkAttempt>>
vkVars == <<vkServer, vkCommand, vkCount>>

NoCommand == [at |-> "idle", ref |-> 0, dead |-> FALSE]

VkInit ==
    /\ vkClosed = FALSE /\ vkClient = 0 /\ vkClients = 0 /\ vkDead = {}
    /\ vkPhase = "down" /\ vkAttempt = 0
    /\ vkCommand = [g \in Commands |-> NoCommand] /\ vkCount = [g \in Commands |-> 0]

(***************************************************************************)
(* Init and Close                                                          *)
(***************************************************************************)
\* closed is cleared once the new client is there.
ClearedEarly == vkClosed

VkStarts ==
    /\ vkPhase = "down" /\ vkClients < MaxClients
    /\ vkPhase' = "connecting" /\ vkAttempt' = 0 /\ vkClosed' = ClearedEarly
    /\ UNCHANGED <<vkClient, vkClients, vkDead, vkCommand, vkCount>>

\* A client is made and pinged; the old one is swapped out. A failed attempt
\* closes its client and leaves the old one.
VkConnects ==
    /\ vkPhase = "connecting"
    /\ vkClients' = vkClients + 1 /\ vkClient' = vkClients + 1
    /\ vkPhase' = "swapped"
    /\ UNCHANGED <<vkClosed, vkDead, vkAttempt, vkCommand, vkCount>>

\* Init fails after the last retry, or when its context ends during a wait;
\* the flag stays as it was.
VkConnectFails ==
    /\ vkPhase = "connecting"
    /\ \/ vkAttempt < ConnRetries /\ vkAttempt' = vkAttempt + 1 /\ vkPhase' = "connecting"
       \/ vkPhase' = "down" /\ UNCHANGED vkAttempt
    /\ UNCHANGED <<vkClosed, vkClient, vkClients, vkDead, vkCommand, vkCount>>

\* prev.c.Close(), if there is one
VkClosesOld ==
    /\ vkPhase = "swapped"
    /\ vkDead' = vkDead \cup (1..(vkClient - 1))
    /\ vkPhase' = "opening"
    /\ UNCHANGED <<vkClosed, vkClient, vkClients, vkAttempt, vkCommand, vkCount>>

VkOpens ==
    /\ vkPhase = "opening"
    /\ vkClosed' = FALSE /\ vkPhase' = "up"
    /\ UNCHANGED <<vkClient, vkClients, vkDead, vkAttempt, vkCommand, vkCount>>

VkMarksClosed ==
    /\ vkPhase = "up"
    /\ vkClosed' = TRUE /\ vkPhase' = "closing"
    /\ UNCHANGED <<vkClient, vkClients, vkDead, vkAttempt, vkCommand, vkCount>>

VkCloses ==
    /\ vkPhase = "closing"
    /\ vkDead' = vkDead \cup {vkClient} /\ vkPhase' = "down"
    /\ UNCHANGED <<vkClosed, vkClient, vkClients, vkAttempt, vkCommand, vkCount>>

(***************************************************************************)
(* Commands                                                                *)
(***************************************************************************)
CommandAt(g, at, ref, dead) ==
    /\ vkCommand' = [vkCommand EXCEPT ![g] = [at |-> at, ref |-> ref, dead |-> dead]]
    /\ UNCHANGED vkServer

\* acquire: the flag first
VkAcquires(g) ==
    /\ vkCommand[g].at \in {"idle", "ok", "ErrClosed", "error"} /\ vkCount[g] < MaxCommands
    /\ vkCount' = [vkCount EXCEPT ![g] = @ + 1]
    /\ CommandAt(g, IF vkClosed THEN "ErrClosed" ELSE "load", 0, FALSE)

\* then the client
VkLoads(g) ==
    /\ vkCommand[g].at = "load"
    /\ CommandAt(g, IF vkClient = 0 THEN "ErrClosed" ELSE "do", vkClient, FALSE)
    /\ UNCHANGED vkCount

VkDoes(g) ==
    /\ vkCommand[g].at = "do"
    /\ LET ref == vkCommand[g].ref IN
       \/ ref \notin vkDead /\ CommandAt(g, "ok", 0, FALSE)
       \/ CommandAt(g, "failed", ref, ref \in vkDead)
    /\ UNCHANGED vkCount

\* closedDuring reads the flag, and then, if it is not set, the client.
VkAsksClosed(g) ==
    /\ vkCommand[g].at = "failed"
    /\ CommandAt(g, IF vkClosed THEN "ErrClosed" ELSE "asked", vkCommand[g].ref, vkCommand[g].dead)
    /\ UNCHANGED vkCount

\* Fault: only the flag counts.
ReplacedSince_never(ref) == FALSE
ReplacedSince(ref) == vkClient # ref

VkAsksClient(g) ==
    /\ vkCommand[g].at = "asked"
    /\ CommandAt(g, IF ReplacedSince(vkCommand[g].ref) THEN "ErrClosed" ELSE "error", 0, vkCommand[g].dead)
    /\ UNCHANGED vkCount

VkNext ==
    \/ VkStarts \/ VkConnects \/ VkConnectFails \/ VkClosesOld \/ VkOpens
    \/ VkMarksClosed \/ VkCloses
    \/ \E g \in Commands :
        VkAcquires(g) \/ VkLoads(g) \/ VkDoes(g) \/ VkAsksClosed(g) \/ VkAsksClient(g)

VkSpec == VkInit /\ [][VkNext]_vkVars

(***************************************************************************)
(* Properties                                                              *)
(***************************************************************************)
\* "A command that fails because of that [a Close, or a client replaced]
\* reports cache.ErrClosed rather than the client's own error", whenever the
\* Close and the restart come between its four reads.
ClosedIsSaid ==
    \A g \in Commands : vkCommand[g].at = "error" => ~vkCommand[g].dead
=============================================================================
