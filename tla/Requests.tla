------------------------------ MODULE Requests ------------------------------
(***************************************************************************)
(* The path of a request through an App: the scope middleware, the request *)
(* logger, the DI-aware (or plain) handler with its dependencies, the      *)
(* error handler, and the way back, on which the logger writes its line    *)
(* and the scope closes what it has built, whether the handler returned,   *)
(* failed, panicked or aborted the connection. A step is one call into the *)
(* scope, the response writer or application code. net/http's response     *)
(* writer is external: the first final status wins, a body without one     *)
(* sends 200, some statuses have no body, and an invalid code panics.      *)
(***************************************************************************)
EXTENDS Integers, Sequences, FiniteSets, SequencesExt

CONSTANTS
    Requested,     \* concurrent requests
    ScopedTypes,   \* types registered with the scoped lifetime
    ScopedNeeds,   \* their constructors' parameters: a sequence for each
    ScopedServices,\* those that are Services, the logger's type apart
    HandlerTakes,  \* the handler's parameters after the Context
    LogType,       \* the request logger's type parameter
    LogTypeIs,     \* how it may be registered: "scoped", "service" (scoped, and
                   \* a Service), "singleton", "alias" (of a scoped type), "none"
    ErrorStatuses, \* of the *Errors the application makes
    MaxWrites,     \* bound on the responses a handler writes
    MaxInFlight    \* bound on the requests served at a time

ASSUME RequestAssumption ==
    /\ ScopedServices \subseteq ScopedTypes \ {LogType}
    /\ MaxWrites \in Nat /\ MaxInFlight \in Nat
    /\ ScopedNeeds \in [ScopedTypes -> Seq(ScopedTypes)] /\ HandlerTakes \in Seq(ScopedTypes)
    /\ ErrorStatuses \subseteq Int

VARIABLES
    request,     \* per request: its place, scope, problem and writes
    reply,       \* per request: its status line (0: none yet) and body
    logLines,    \* per request: the log lines of its logger
    sharedFields \* the fields of the singleton logger

requestVars == <<request, reply, logLines, sharedFields>>

(***************************************************************************)
(* Errors (errors.go): what an application returns, and what is written    *)
(***************************************************************************)
\* "internal" is the message of the canonical 500; every other error carries
\* a text that is not for the client, as its cause or as itself.
NoProblem == [typed |-> FALSE, status |-> 0, message |-> "none"]
TypedError(status) == [typed |-> TRUE, status |-> status, message |-> "public"]
WithCause(e) == [e EXCEPT !.message = "public"]
PlainError == [typed |-> FALSE, status |-> 0, message |-> "secret"]
BindErrors == {413, 400}     \* too large, not JSON or not a form
Unprocessable == TypedError(422)

coerceError(e) == IF e.typed THEN e ELSE [TypedError(500) EXCEPT !.message = "internal"]

normalizeStatus(status) == IF status < 100 \/ status > 599 THEN 500 ELSE status

(***************************************************************************)
(* The response writer                                                     *)
(***************************************************************************)
Informational(status) == status \in 100..199 /\ status # 101
WriteHeader(w, status) == IF w.line # 0 \/ Informational(status) THEN w ELSE [w EXCEPT !.line = status]
WriteBody(w, part) ==
    LET begun == WriteHeader(w, 200) IN
    IF begun.line \in {101, 204, 304} THEN begun ELSE [begun EXCEPT !.body = Append(@, part)]

\* JSON, XML, HTML, Text, Blob: the status first. A value that cannot be
\* encoded leaves the status without a body.
Rendered(w, status, encodes) ==
    IF encodes THEN WriteBody(WriteHeader(w, status), [status |-> 0, message |-> "value"])
    ELSE WriteHeader(w, status)

writeErrorResponse(w, e) ==
    LET status == normalizeStatus(e.status)
    IN WriteBody(WriteHeader(w, status), [status |-> status, message |-> e.message])

(***************************************************************************)
(* Init, and a request's record                                            *)
(***************************************************************************)
NewContext ==
    [at |-> "idle", plain |-> FALSE, kind |-> "none", logs |-> FALSE, todo |-> << >>, built |-> << >>,
     slot |-> "built", problem |-> NoProblem, wrote |-> 0, caught |-> 0, closed |-> << >>]
NoReply == [line |-> 0, body |-> << >>]

RequestsInit ==
    /\ request = [r \in Requested |-> NewContext] /\ reply = [r \in Requested |-> NoReply]
    /\ logLines = [r \in Requested |-> << >>] /\ sharedFields = {}

\* What is of no more use when the handler has been left is forgotten.
Become(r, changed) ==
    request' = [request EXCEPT ![r] =
        IF changed.at = "leave"
        THEN [changed EXCEPT !.plain = FALSE, !.problem = NoProblem, !.caught = 0, !.todo = << >>]
        ELSE changed]
RequestAt(r, at) == request[r].at = at
Served(r) == request[r].at \notin {"idle", "done"}
IsService(t, kind) == t \in ScopedServices \/ (t = LogType /\ kind = "service")
Replies(r, w) == reply' = [reply EXCEPT ![r] = w]

(***************************************************************************)
(* The middlewares                                                         *)
(***************************************************************************)
\* requestScopeMiddleware, NewScope
Arrives(r) ==
    \E plain \in BOOLEAN, kind \in LogTypeIs :
        /\ RequestAt(r, "idle") /\ Cardinality({q \in Requested : Served(q)}) < MaxInFlight
        /\ Become(r, [NewContext EXCEPT !.at = "logger", !.plain = plain, !.kind = kind])
        /\ UNCHANGED <<reply, logLines, sharedFields>>

\* resolveFrom the scope: the type alone, or what it needs before it.
Missing(r, t) == {i \in DOMAIN ScopedNeeds[t] : ~Contains(request[r].built, ScopedNeeds[t][i])}

\* replaceScoped: only a scoped type whose instance is not a Service, and not
\* an alias. Fault: a Service is replaced too, and the scope no longer holds it.
Replaces_service(kind) == kind \in {"scoped", "service"}
Replaces(kind) == kind = "scoped"

\* With derives a logger that has this request's ID.
With(fields, r) == fields

\* A LogType that cannot be resolved is passed over.
RequestLogger(r) ==
    /\ RequestAt(r, "logger")
    /\ LET c == [request[r] EXCEPT !.at = "next"] IN
       \/ /\ c.kind # "none"
          /\ Become(r, [c EXCEPT !.logs = TRUE,
                 !.built = IF c.kind = "singleton" THEN @ ELSE Append(@, LogType),
                 !.slot = IF Replaces(c.kind) THEN "derived" ELSE @])
          /\ sharedFields' = IF c.kind = "singleton" THEN With(sharedFields, r) ELSE sharedFields
       \/ Become(r, c) /\ UNCHANGED sharedFields
    /\ UNCHANGED <<reply, logLines>>

(***************************************************************************)
(* The handler                                                             *)
(***************************************************************************)
HandlerStarts(r) ==
    /\ RequestAt(r, "next")
    /\ Become(r, [request[r] EXCEPT !.at = IF request[r].plain THEN "handler" ELSE "resolve",
                                    !.todo = IF request[r].plain THEN << >> ELSE HandlerTakes])
    /\ UNCHANGED <<reply, logLines, sharedFields>>

\* Its parameters, one after the other; a constructor or Init that fails
\* leaves what was built before it in the scope.
ResolveArgs(r) ==
    /\ RequestAt(r, "resolve")
    /\ LET c == request[r] IN
       IF c.todo = << >> THEN Become(r, [c EXCEPT !.at = "handler"])
       ELSE LET t == Head(c.todo) IN
            \/ Contains(c.built, t) /\ Become(r, [c EXCEPT !.todo = Tail(@)])
            \/ ~Contains(c.built, t) /\ Missing(r, t) # {}
               /\ Become(r, [c EXCEPT !.todo = <<ScopedNeeds[t][Min(Missing(r, t))]>> \o @])
            \/ ~Contains(c.built, t) /\ Missing(r, t) = {}
               /\ Become(r, [c EXCEPT !.built = Append(@, t), !.todo = Tail(@)])
            \/ ~Contains(c.built, t)
               /\ \E e \in {PlainError, TypedError(404)} :
                     Become(r, [c EXCEPT !.at = "problem", !.problem = e])
    /\ UNCHANGED <<reply, logLines, sharedFields>>

Writes(r) ==
    /\ RequestAt(r, "handler") /\ request[r].wrote < MaxWrites
    /\ \E encodes \in BOOLEAN :
        /\ Replies(r, Rendered(reply[r], 201, encodes))
        /\ Become(r, [request[r] EXCEPT !.wrote = @ + 1,
                        !.at = IF encodes \/ request[r].plain THEN @ ELSE "problem",
                        !.problem = IF encodes THEN @ ELSE PlainError])
    /\ UNCHANGED <<logLines, sharedFields>>

NoContent(r) ==
    /\ RequestAt(r, "handler")
    /\ Replies(r, WriteHeader(reply[r], 204))
    /\ Become(r, [request[r] EXCEPT !.at = "leave"])
    /\ UNCHANGED <<logLines, sharedFields>>

\* BindJSON and BindForm, whose error the handler returns
BindsBody(r) ==
    /\ RequestAt(r, "handler") /\ ~request[r].plain
    /\ \E e \in {TypedError(s) : s \in BindErrors} \cup {Unprocessable} :
          Become(r, [request[r] EXCEPT !.at = "problem", !.problem = WithCause(e)])
    /\ UNCHANGED <<reply, logLines, sharedFields>>

Returns(r) ==
    /\ RequestAt(r, "handler")
    /\ \/ Become(r, [request[r] EXCEPT !.at = "leave"])
       \/ ~request[r].plain /\ \E e \in {TypedError(s) : s \in ErrorStatuses} \cup {PlainError} :
             Become(r, [request[r] EXCEPT !.at = "problem", !.problem = e])
    /\ UNCHANGED <<reply, logLines, sharedFields>>

\* handlePanic: any value but http.ErrAbortHandler becomes a plain error; a
\* panic of the error handler comes here once more, and the next one leaves.
Panics(r) ==
    /\ request[r].at \in {"handler", "problem"}
    /\ LET again == request[r].caught > 0 IN
       Become(r, [request[r] EXCEPT !.at = IF again THEN "leave" ELSE "problem",
                                    !.caught = @ + 1, !.problem = PlainError])
    /\ UNCHANGED <<reply, logLines, sharedFields>>

Aborts(r) ==
    /\ RequestAt(r, "handler")
    /\ Become(r, [request[r] EXCEPT !.at = "leave"])
    /\ UNCHANGED <<reply, logLines, sharedFields>>

\* defaultErrorHandler, WriteError
HandleError(r) ==
    /\ RequestAt(r, "problem")
    /\ Replies(r, writeErrorResponse(reply[r], coerceError(request[r].problem)))
    /\ Become(r, [request[r] EXCEPT !.at = "leave"])
    /\ UNCHANGED <<logLines, sharedFields>>

(***************************************************************************)
(* The way back: the deferred calls, after a return or a panic             *)
(***************************************************************************)
LogsRequest(r) ==
    /\ RequestAt(r, "leave")
    /\ Become(r, [request[r] EXCEPT !.at = "closing", !.todo = Reverse(request[r].built)])
    /\ logLines' = [logLines EXCEPT ![r] =
         IF ~request[r].logs THEN @
         ELSE Append(@, [status |-> reply[r].line,
                fields |-> {r} \cup IF request[r].kind = "singleton" THEN sharedFields ELSE {}])]
    /\ UNCHANGED <<reply, sharedFields>>

\* A slot that no longer holds the Service is nothing to close. A Close that
\* fails is logged, and the next one is called.
ClosesNext(r) ==
    /\ RequestAt(r, "closing") /\ request[r].todo # << >>
    /\ LET c == request[r] t == Head(c.todo)
           held == IsService(t, c.kind) /\ (t = LogType => c.slot = "built")
       IN Become(r, [c EXCEPT !.todo = Tail(@), !.closed = IF held THEN Append(@, t) ELSE @])
    /\ UNCHANGED <<reply, logLines, sharedFields>>

\* The reply has been sent and the log written: both are out of the model.
Ends(r) ==
    /\ RequestAt(r, "closing") /\ request[r].todo = << >>
    /\ Become(r, [request[r] EXCEPT !.at = "done", !.logs = FALSE, !.wrote = 0])
    /\ Replies(r, NoReply) /\ logLines' = [logLines EXCEPT ![r] = << >>]
    /\ UNCHANGED sharedFields

RequestStep(r) ==
    \/ RequestLogger(r) \/ HandlerStarts(r) \/ ResolveArgs(r) \/ HandleError(r)
    \/ LogsRequest(r) \/ ClosesNext(r) \/ Ends(r)
RequestsNext ==
    \E r \in Requested :
        \/ Arrives(r) \/ RequestStep(r)
        \/ Writes(r) \/ NoContent(r) \/ BindsBody(r) \/ Returns(r) \/ Panics(r) \/ Aborts(r)

RequestsSpec == RequestsInit /\ [][RequestsNext]_requestVars

(***************************************************************************)
(* Properties                                                              *)
(***************************************************************************)
\* However a request ends, each Service its scope has built is closed once,
\* in the reverse of the order they were built in: also when a later one could
\* not be built, and when the request logger has put its own logger into one
\* of the slots ("a scoped T whose instance is a Service is not replaced, so
\* the scope still closes it", RequestLogger). A scope builds no type twice.
ScopeIsTornDown ==
    \A r \in Requested : RequestAt(r, "done") =>
        LET built == request[r].built closed == request[r].closed IN
        /\ IsInjective(built)
        /\ ToSet(closed) = {t \in ToSet(built) : IsService(t, request[r].kind)}
        /\ \A i, j \in DOMAIN closed : i < j =>
              \E m, n \in DOMAIN built : n < m /\ built[m] = closed[i] /\ built[n] = closed[j]

\* No text but a *Error's message reaches a client, an error that finds
\* nothing written is the whole response, and its status line is one that
\* net/http accepts, and final.
ErrorsAreRendered ==
    \A r \in Requested :
        /\ \A i \in DOMAIN reply[r].body : reply[r].body[i].message # "secret"
        /\ reply[r].line \in {0, 101} \cup 200..599
        /\ Len(reply[r].body) = 1 /\ reply[r].body[1].status >= 200 /\ request[r].wrote = 0
             => reply[r].line = reply[r].body[1].status

\* A request's log line has its own ID and no other's, whichever lifetime the
\* logger has ("the resolved logger itself is never changed, so a singleton
\* shared by every request is safe", RequestLogger).
LogsAreSeparate ==
    \A r \in Requested : \A i \in DOMAIN logLines[r] : logLines[r][i].fields = {r}

\* What a request leaves behind: its scope, its response and its log lines.
ResponsesHold == ScopeIsTornDown /\ ErrorsAreRendered /\ LogsAreSeparate
=============================================================================
