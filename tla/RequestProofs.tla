--------------------------- MODULE RequestProofs ---------------------------
(***************************************************************************)
(* Theorems about modules Requests and ConfigStore.                        *)
(*                                                                         *)
(* ResponsesHold, for any number of requests, any scoped types and         *)
(* constructors, and any statuses. ScopeIsTornDown rests on Closing: what  *)
(* is left to close is the reverse of the first types built, and what was  *)
(* closed are the Services among the others, later ones first.             *)
(* ErrorsAreRendered rests on Answered: as long as the handler has written *)
(* nothing, there is no status line and no body, so the first error begins *)
(* the response. LogsAreSeparate rests on the singleton logger's fields,   *)
(* which stay as they are.                                                 *)
(*                                                                         *)
(* ConfigHolds, for any documents, environments, secrets, providers and    *)
(* keys. It rests on the shape of a tree (IsTree), which every merge       *)
(* keeps: above a leaf there are maps only. So a document that has a path, *)
(* or a scalar above it, takes the leaf away that an earlier one put there *)
(* (MergeIntoIs), and a leaf that is left is of the last document that     *)
(* says anything of it. EnvInv holds while EnvIsLeftAlone.                 *)
(***************************************************************************)
EXTENDS Requests, ConfigStore, FiniteSetTheorems, WellFoundedInduction, TLAPS

Types == ScopedTypes \cup {LogType}
Places == {"idle", "logger", "next", "resolve", "handler", "problem", "leave", "closing", "done"}
Messages == {"none", "public", "internal", "secret", "value"}
Problems == {e \in [typed : BOOLEAN, status : Int, message : Messages] : e.typed => e.message # "secret"}

Contexts ==
    [at : Places, plain : BOOLEAN, kind : LogTypeIs \cup {"none"}, logs : BOOLEAN,
     todo : Seq(Types), built : Seq(Types), slot : {"built", "derived"}, problem : Problems,
     wrote : Nat, caught : Nat, closed : Seq(Types)]
Parts == [status : Int, message : Messages]
Replied == [line : Int, body : Seq(Parts)]

(***************************************************************************)
(* What holds of a request c, its reply w and its log lines l              *)
(***************************************************************************)
ServicesOf(c) == {t \in Types : IsService(t, c.kind)}

\* The scope: no type twice; the rest of todo is yet to be closed.
Building(c) ==
    /\ IsInjective(c.built)
    /\ c.slot = "derived" => c.kind = "scoped"
    /\ c.at \in {"idle", "logger"} => c.built = << >> /\ c.slot = "built" /\ c.wrote = 0
    /\ c.at \notin {"closing", "done"} => c.closed = << >>

\* The types of held that were built after the first n are closed; what is
\* closed is one of those; and in which order.
Covered(built, closed, held, n) ==
    \A m \in DOMAIN built : m > n /\ built[m] \in held => \E i \in DOMAIN closed : closed[i] = built[m]
Taken(built, closed, held, n) ==
    \A i \in DOMAIN closed : closed[i] \in held /\ \E m \in DOMAIN built : m > n /\ built[m] = closed[i]
InReverse(built, closed) ==
    \A i, j \in DOMAIN closed : i < j =>
        \E m, n \in DOMAIN built : n < m /\ built[m] = closed[i] /\ built[n] = closed[j]

Closing(c) ==
    c.at \in {"closing", "done"} =>
        /\ Len(c.todo) <= Len(c.built)
        /\ \A i \in 1..Len(c.todo) : c.todo[i] = c.built[Len(c.todo) - i + 1]
        /\ Covered(c.built, c.closed, ServicesOf(c), Len(c.todo))
        /\ Taken(c.built, c.closed, ServicesOf(c), Len(c.todo))
        /\ InReverse(c.built, c.closed)

Answered(c, w) ==
    /\ c.at \notin {"leave", "closing", "done"} /\ c.wrote = 0 => w.line = 0 /\ w.body = << >>
    /\ w.line \in {0, 101} \cup 200..599
    /\ \A i \in DOMAIN w.body : w.body[i].message # "secret"
    /\ Len(w.body) = 1 /\ w.body[1].status >= 200 /\ c.wrote = 0 => w.line = w.body[1].status

RightFor(c, w) ==
    /\ c \in Contexts /\ w \in Replied
    /\ Building(c) /\ Closing(c) /\ Answered(c, w)
    /\ c.at = "resolve" => c.todo \in Seq(ScopedTypes)
    /\ c.at = "done" => c.todo = << >>
RequestsOK ==
    /\ request \in [Requested -> Contexts] /\ reply \in [Requested -> Replied]
    /\ \A r \in Requested : RightFor(request[r], reply[r])

Lines == [status : Int, fields : SUBSET Requested]
LogsOK ==
    /\ sharedFields = {}
    /\ logLines \in [Requested -> Seq(Lines)]
    /\ LogsAreSeparate

(***************************************************************************)
(* A request's next context                                                *)
(***************************************************************************)
Settled(c) ==
    IF c.at = "leave"
    THEN [c EXCEPT !.plain = FALSE, !.problem = NoProblem, !.caught = 0, !.todo = << >>]
    ELSE c

LEMMA SettledIsRight ==
    ASSUME NEW c, NEW w, RightFor(c, w)
    PROVE  RightFor(Settled(c), w)
  <1>1. CASE c.at = "leave"
    <2> DEFINE s == [c EXCEPT !.plain = FALSE, !.problem = NoProblem, !.caught = 0, !.todo = << >>]
    <2>1. NoProblem \in Problems
      BY DEF NoProblem, Problems, Messages
    <2>2. s \in Contexts
      <3>1. << >> \in Seq(Types)
        OBVIOUS
      <3>2. c \in Contexts /\ 0 \in Nat
        BY DEF RightFor
      <3> QED
        BY <2>1, <3>1, <3>2 DEF Contexts
    <2>3. /\ s.at = c.at /\ s.kind = c.kind /\ s.built = c.built /\ s.slot = c.slot
          /\ s.closed = c.closed /\ s.wrote = c.wrote
      BY DEF RightFor, Contexts
    <2>4. Building(s) /\ Closing(s) /\ Answered(s, w)
      BY <1>1, <2>3 DEF RightFor, Building, Closing, Answered
    <2> QED
      BY <1>1, <2>2, <2>3, <2>4 DEF RightFor, Settled
  <1>2. CASE c.at # "leave"
    BY <1>2 DEF Settled
  <1> QED
    BY <1>1, <1>2

\* c becomes of r, and r's reply is w.
LEMMA Becomes ==
    ASSUME NEW r \in Requested, RequestsOK, NEW c, NEW w, Become(r, c),
           reply' = [reply EXCEPT ![r] = w], RightFor(c, w)
    PROVE  RequestsOK'
  <1>1. request' = [request EXCEPT ![r] = Settled(c)]
    BY DEF Become, Settled
  <1>2. RightFor(Settled(c), w)
    BY SettledIsRight
  <1>3. request' \in [Requested -> Contexts] /\ reply' \in [Requested -> Replied]
    BY <1>1, <1>2 DEF RequestsOK, RightFor
  <1>4. \A q \in Requested : RightFor(request'[q], reply'[q])
    <2> TAKE q \in Requested
    <2>1. CASE q = r
      BY <1>1, <1>2, <2>1 DEF RequestsOK
    <2>2. CASE q # r
      BY <1>1, <2>2 DEF RequestsOK
    <2> QED
      BY <2>1, <2>2
  <1> QED
    BY <1>3, <1>4 DEF RequestsOK

LEMMA Settles ==
    ASSUME NEW r \in Requested, RequestsOK, NEW c, Become(r, c), UNCHANGED reply, RightFor(c, reply[r])
    PROVE  RequestsOK'
  <1>1. reply' = [reply EXCEPT ![r] = reply[r]]
    BY DEF RequestsOK
  <1> QED
    BY <1>1, Becomes

(***************************************************************************)
(* The scope goes on as it was: c differs from k in at, problem and caught *)
(***************************************************************************)
ScopeSame(k, c) ==
    /\ c.kind = k.kind /\ c.built = k.built /\ c.slot = k.slot /\ c.closed = k.closed

Early == {"idle", "logger", "next", "resolve"}
Inside == {"next", "resolve", "handler", "problem", "leave"}

LEMMA StaysOpen ==
    ASSUME NEW k, NEW v, RightFor(k, v), k.at \in Inside \cup {"logger"},
           NEW c \in Contexts, ScopeSame(k, c), c.at \in Inside
    PROVE  Building(c) /\ Closing(c)
  BY DEF RightFor, Building, Closing, ScopeSame, Inside

LEMMA AnswerStays ==
    ASSUME NEW k, NEW w, RightFor(k, w), k.at \in Inside, NEW c \in Contexts, c.at \in Inside,
           c.wrote = k.wrote, k.at # "leave"
    PROVE  Answered(c, w)
  BY DEF RightFor, Answered, Inside

(***************************************************************************)
(* The actions                                                             *)
(***************************************************************************)
LEMMA ArrivesKeeps ==
    ASSUME NEW r \in Requested, RequestsOK, Arrives(r)
    PROVE  RequestsOK'
  <1>1. PICK plain \in BOOLEAN, kind \in LogTypeIs :
          /\ RequestAt(r, "idle") /\ UNCHANGED <<reply, logLines, sharedFields>>
          /\ Become(r, [NewContext EXCEPT !.at = "logger", !.plain = plain, !.kind = kind])
    BY DEF Arrives
  <1> DEFINE c == [NewContext EXCEPT !.at = "logger", !.plain = plain, !.kind = kind]
  <1>2. << >> \in Seq(Types) /\ NoProblem \in Problems
    BY DEF NoProblem, Problems, Messages
  <1>3. NewContext \in Contexts
    BY <1>2 DEF NewContext, Contexts, Places
  <1>4. /\ c \in Contexts /\ c.at = "logger" /\ c.built = << >> /\ c.slot = "built"
        /\ c.wrote = 0 /\ c.closed = << >>
    BY <1>3 DEF NewContext, Contexts, Places
  <1>5. Building(c) /\ Closing(c)
    <2> HIDE DEF c
    <2> QED
      BY <1>4 DEF Building, Closing, IsInjective
  <1>6. RightFor(request[r], reply[r]) /\ request[r].at = "idle"
    BY <1>1 DEF RequestsOK, RequestAt
  <1>7. request[r].wrote = 0
    BY <1>6 DEF RightFor, Building
  <1>8. RightFor(c, reply[r])
    <2> HIDE DEF c
    <2> QED
      BY <1>4, <1>5, <1>6, <1>7 DEF RightFor, Answered
  <1> HIDE DEF c
  <1> QED
    BY <1>1, <1>8, Settles DEF c

LEMMA RequestLoggerKeeps ==
    ASSUME NEW r \in Requested, RequestsOK, RequestLogger(r)
    PROVE  RequestsOK'
  <1> DEFINE k == request[r]
             c == [k EXCEPT !.at = "next"]
             d == [c EXCEPT !.logs = TRUE,
                            !.built = IF c.kind = "singleton" THEN @ ELSE Append(@, LogType),
                            !.slot = IF Replaces(c.kind) THEN "derived" ELSE @]
  <1>1. RightFor(k, reply[r]) /\ k.at = "logger"
    BY DEF RequestLogger, RequestAt, RequestsOK
  <1>2. k \in Contexts /\ k.built = << >> /\ k.slot = "built" /\ k.wrote = 0 /\ k.closed = << >>
    BY <1>1 DEF RightFor, Building
  <1>3. /\ c \in Contexts /\ c.at = "next" /\ ScopeSame(k, c) /\ c.wrote = k.wrote
    BY <1>2 DEF Contexts, Places, ScopeSame
  <1>4. RightFor(c, reply[r])
    <2> HIDE DEF c, d
    <2>1. Building(c) /\ Closing(c)
      BY <1>1, <1>3, StaysOpen DEF Inside
    <2>2. Answered(c, reply[r])
      BY <1>1, <1>2, <1>3 DEF RightFor, Answered
    <2> QED
      BY <1>1, <1>3, <2>1, <2>2 DEF RightFor
  <1>5. /\ d \in Contexts /\ d.at = "next" /\ d.kind = c.kind /\ d.wrote = c.wrote /\ d.closed = << >>
        /\ d.built = << >> \/ d.built = <<LogType>>
        /\ d.slot = IF Replaces(c.kind) THEN "derived" ELSE "built"
    <2>1. <<LogType>> \in Seq(Types) /\ Append(<< >>, LogType) = <<LogType>> /\ << >> \in Seq(Types)
      BY DEF Types
    <2> QED
      BY <1>2, <1>3, <2>1 DEF Contexts, ScopeSame
  <1>6. Building(d) /\ Closing(d)
    BY <1>5 DEF Building, Closing, IsInjective, Replaces
  <1>7. RightFor(d, reply[r])
    BY <1>2, <1>4, <1>5, <1>6 DEF RightFor, Answered
  <1>8. (Become(r, d) \/ Become(r, c)) /\ UNCHANGED reply
    BY DEF RequestLogger
  <1> HIDE DEF c, d
  <1> QED
    BY <1>4, <1>7, <1>8, Settles

LEMMA HandlerStartsKeeps ==
    ASSUME NEW r \in Requested, RequestAssumption, RequestsOK, HandlerStarts(r)
    PROVE  RequestsOK'
  <1> DEFINE k == request[r]
             c == [k EXCEPT !.at = IF k.plain THEN "handler" ELSE "resolve",
                            !.todo = IF k.plain THEN << >> ELSE HandlerTakes]
  <1>1. RightFor(k, reply[r]) /\ k.at = "next" /\ k \in Contexts
    BY DEF HandlerStarts, RequestAt, RequestsOK, RightFor
  <1>2. HandlerTakes \in Seq(Types) /\ << >> \in Seq(Types)
    BY DEF RequestAssumption, Types
  <1>3. /\ c \in Contexts /\ ScopeSame(k, c) /\ c.wrote = k.wrote /\ c.at \in {"handler", "resolve"}
        /\ c.at = "resolve" => c.todo \in Seq(ScopedTypes)
    BY <1>1, <1>2 DEF Contexts, Places, ScopeSame, RequestAssumption
  <1>4. RightFor(c, reply[r])
    BY <1>1, <1>3, StaysOpen, AnswerStays DEF RightFor, Inside
  <1>5. Become(r, c) /\ UNCHANGED reply
    BY DEF HandlerStarts
  <1> HIDE DEF c
  <1> QED
    BY <1>4, <1>5, Settles

LEMMA FailsAsIs ==
    ASSUME NEW c \in Contexts, NEW e \in Problems
    PROVE  LET d == [c EXCEPT !.at = "problem", !.problem = e] IN
           d \in Contexts /\ ScopeSame(c, d) /\ d.at = "problem" /\ d.wrote = c.wrote
  BY DEF Contexts, Places, ScopeSame

LEMMA ErrorsAreProblems ==
    /\ PlainError \in Problems
    /\ \A s \in Int : TypedError(s) \in Problems /\ WithCause(TypedError(s)) \in Problems
  <1>1. PlainError \in Problems
    BY DEF PlainError, Problems, Messages
  <1>2. ASSUME NEW s \in Int
        PROVE  TypedError(s) \in Problems /\ WithCause(TypedError(s)) \in Problems
    BY DEF TypedError, WithCause, Problems, Messages
  <1> QED
    BY <1>1, <1>2

\* A type is built that the scope has not built.
LEMMA AppendsNew ==
    ASSUME NEW s \in Seq(Types), NEW t \in Types, IsInjective(s), ~Contains(s, t)
    PROVE  Append(s, t) \in Seq(Types) /\ IsInjective(Append(s, t))
  <1>1. /\ Append(s, t) \in Seq(Types) /\ Len(Append(s, t)) = Len(s) + 1
        /\ DOMAIN Append(s, t) = 1..(Len(s) + 1) /\ DOMAIN s = 1..Len(s)
        /\ \A i \in 1..Len(s) : Append(s, t)[i] = s[i] /\ s[i] # t
        /\ Append(s, t)[Len(s) + 1] = t
    BY DEF Contains
  <1> QED
    BY <1>1 DEF IsInjective

\* The least element of a set of numbers is in it.
LEMMA LeastIsThere ==
    ASSUME NEW S \in SUBSET Nat, S # {}
    PROVE  Min(S) \in S
  <1> DEFINE R == OpToRel(<, Nat)
  <1>1. \A a, b \in Nat : a < b => <<a, b>> \in R
    BY Zenon DEF OpToRel
  <1>2. IsWellFoundedOn(R, Nat)
    BY NatLessThanWellFounded
  <1> HIDE DEF R
  <1>3. PICK m \in S : \A n \in S : ~(<<n, m>> \in R)
    BY <1>2, WFMin
  <1>4. \A n \in S : n \in Nat /\ m \in Nat /\ ~(n < m)
    BY <1>1, <1>3
  <1>5. \A n \in S : m <= n
    BY <1>4
  <1> QED
    BY <1>3, <1>5 DEF Min

LEMMA ResolveArgsKeeps ==
    ASSUME NEW r \in Requested, RequestAssumption, RequestsOK, ResolveArgs(r)
    PROVE  RequestsOK'
  <1> DEFINE c == request[r]
  <1>1. RightFor(c, reply[r]) /\ c.at = "resolve" /\ c \in Contexts /\ UNCHANGED reply
    BY DEF ResolveArgs, RequestAt, RequestsOK, RightFor
  <1>2. c.todo \in Seq(ScopedTypes) /\ c.built \in Seq(Types) /\ Building(c) /\ c.closed = << >>
    BY <1>1 DEF RightFor, Contexts, Building
  <1>3. ASSUME NEW d \in Contexts, ScopeSame(c, d), d.wrote = c.wrote,
               d.at \in {"handler", "problem"} \/ (d.at = "resolve" /\ d.todo \in Seq(ScopedTypes)),
               Become(r, d)
        PROVE  RequestsOK'
    <2>1. RightFor(d, reply[r])
      BY <1>1, <1>3, StaysOpen, AnswerStays DEF RightFor, Inside
    <2> QED
      BY <1>1, <1>3, <2>1, Settles
  <1>4. CASE c.todo = << >>
    <2> DEFINE d == [c EXCEPT !.at = "handler"]
    <2>1. d \in Contexts /\ ScopeSame(c, d) /\ d.wrote = c.wrote /\ d.at = "handler"
      BY <1>1 DEF Contexts, Places, ScopeSame
    <2>2. Become(r, d)
      BY <1>4 DEF ResolveArgs
    <2> HIDE DEF d
    <2> QED
      BY <1>3, <2>1, <2>2
  <1>5. CASE c.todo # << >>
    <2> DEFINE t == Head(c.todo)
               needs == ScopedNeeds[t]
               missing == Missing(r, t)
               passes == [c EXCEPT !.todo = Tail(@)]
               asks == [c EXCEPT !.todo = <<needs[Min(missing)]>> \o @]
               builds == [c EXCEPT !.built = Append(@, t), !.todo = Tail(@)]
               fails(e) == [c EXCEPT !.at = "problem", !.problem = e]
    <2>1. /\ t \in ScopedTypes /\ Tail(c.todo) \in Seq(ScopedTypes)
          /\ needs \in Seq(ScopedTypes) /\ Tail(c.todo) \in Seq(Types)
      BY <1>2, <1>5 DEF RequestAssumption, Types
    <2>2. \/ Become(r, passes)
          \/ missing # {} /\ Become(r, asks)
          \/ ~Contains(c.built, t) /\ Become(r, builds)
          \/ \E e \in {PlainError, TypedError(404)} : Become(r, fails(e))
      BY <1>5 DEF ResolveArgs
    <2>3. CASE Become(r, passes)
      <3>1. /\ passes \in Contexts /\ ScopeSame(c, passes) /\ passes.wrote = c.wrote
            /\ passes.at = "resolve" /\ passes.todo \in Seq(ScopedTypes)
        BY <1>1, <2>1 DEF Contexts, ScopeSame
      <3> HIDE DEF passes
      <3> QED
        BY <1>3, <2>3, <3>1
    <2>4. CASE missing # {} /\ Become(r, asks)
      <3>1. Min(missing) \in DOMAIN needs
        <4>1. missing \subseteq DOMAIN needs
          BY DEF Missing
        <4>2. missing \in SUBSET Nat
          BY <2>1, <4>1
        <4> QED
          BY <2>4, <4>1, <4>2, LeastIsThere
      <3>2. needs[Min(missing)] \in ScopedTypes
        BY <2>1, <3>1
      <3>3. asks.todo \in Seq(ScopedTypes) /\ asks.todo \in Seq(Types)
        <4> HIDE DEF needs, missing
        <4>1. c.todo \in Seq(ScopedTypes) /\ c \in Contexts
          BY <1>1, <1>2
        <4>2. asks.todo = <<needs[Min(missing)]>> \o c.todo
          BY <4>1 DEF Contexts
        <4>3. asks.todo \in Seq(ScopedTypes)
          BY <3>2, <4>1, <4>2
        <4> QED
          BY <4>3 DEF Types
      <3>4. /\ asks \in Contexts /\ ScopeSame(c, asks) /\ asks.wrote = c.wrote /\ asks.at = "resolve"
        BY <1>1, <3>3 DEF Contexts, ScopeSame
      <3> HIDE DEF asks
      <3> QED
        BY <1>3, <2>4, <3>3, <3>4
    <2>5. CASE ~Contains(c.built, t) /\ Become(r, builds)
      <3>1. Append(c.built, t) \in Seq(Types) /\ IsInjective(Append(c.built, t))
        BY <1>2, <2>1, <2>5, AppendsNew DEF Types, Building
      <3>2. /\ builds \in Contexts /\ builds.at = "resolve" /\ builds.todo = Tail(c.todo)
            /\ builds.built = Append(c.built, t) /\ builds.slot = c.slot /\ builds.kind = c.kind
            /\ builds.wrote = c.wrote /\ builds.closed = c.closed
        BY <1>1, <2>1, <3>1 DEF Contexts
      <3>3. Building(builds) /\ Closing(builds)
        BY <1>2, <3>1, <3>2 DEF Building, Closing
      <3>4. Answered(builds, reply[r])
        BY <1>1, <3>2, AnswerStays DEF Inside
      <3>5. RightFor(builds, reply[r])
        BY <1>1, <2>1, <3>2, <3>3, <3>4 DEF RightFor
      <3> HIDE DEF builds
      <3> QED
        BY <1>1, <2>5, <3>5, Settles
    <2>6. ASSUME NEW e \in {PlainError, TypedError(404)}, Become(r, fails(e))
          PROVE  RequestsOK'
      <3>1. e \in Problems
        BY <2>6, ErrorsAreProblems
      <3>2. /\ fails(e) \in Contexts /\ ScopeSame(c, fails(e)) /\ fails(e).wrote = c.wrote
            /\ fails(e).at = "problem"
        BY <1>1, <3>1, FailsAsIs
      <3> HIDE DEF fails
      <3> QED
        BY <1>3, <2>6, <3>2
    <2> QED
      BY <2>2, <2>3, <2>4, <2>5, <2>6
  <1> QED
    BY <1>4, <1>5

(***************************************************************************)
(* The response writer                                                     *)
(***************************************************************************)
FinalLines == {0, 101} \cup 200..599
Written(w) ==
    /\ w \in Replied /\ w.line \in FinalLines
    /\ \A i \in DOMAIN w.body : w.body[i].message # "secret"

LEMMA HeaderIsWritten ==
    ASSUME NEW w, Written(w), NEW status \in 100..599
    PROVE  LET v == WriteHeader(w, status) IN
           /\ Written(v) /\ v.body = w.body
           /\ w.line = 0 /\ status >= 200 => v.line = status
  <1> DEFINE v == WriteHeader(w, status)
             right == /\ Written(v) /\ v.body = w.body
                      /\ w.line = 0 /\ status >= 200 => v.line = status
  <1>1. CASE w.line # 0 \/ Informational(status)
    <2>1. v = w
      BY <1>1 DEF WriteHeader
    <2>2. ~(w.line = 0 /\ status >= 200)
      BY <1>1 DEF Informational
    <2> QED
      BY <2>1, <2>2
  <1>2. CASE w.line = 0 /\ ~Informational(status)
    <2>1. v = [w EXCEPT !.line = status] /\ status \in FinalLines /\ status \in Int
      BY <1>2 DEF WriteHeader, Informational, FinalLines
    <2>2. v \in Replied /\ v.body = w.body /\ v.line = status
      BY <2>1 DEF Written, Replied
    <2>3. right
      <3> HIDE DEF v
      <3> QED
        BY <2>1, <2>2 DEF Written
    <2> QED
      BY <2>3
  <1> QED
    BY <1>1, <1>2

LEMMA BodyIsWritten ==
    ASSUME NEW w, Written(w), NEW part \in Parts, part.message # "secret"
    PROVE  LET v == WriteBody(w, part) IN
           /\ Written(v)
           /\ w.line # 0 => v.line = w.line
           /\ w.body = << >> => v.body \in {<< >>, <<part>>}
           /\ w.line = 0 => v.line = 200
  <1> DEFINE v == WriteBody(w, part)
             begun == WriteHeader(w, 200)
  <1>1. Written(begun) /\ begun.body = w.body /\ (w.line = 0 => begun.line = 200)
    BY HeaderIsWritten
  <1>2. w.line # 0 => begun.line = w.line
    BY DEF WriteHeader
  <1>3. CASE begun.line \in {101, 204, 304}
    BY <1>1, <1>2, <1>3 DEF WriteBody
  <1>4. CASE begun.line \notin {101, 204, 304}
    <2>1. v = [begun EXCEPT !.body = Append(@, part)]
      BY <1>4 DEF WriteBody
    <2> HIDE DEF begun, v
    <2>2. begun.body \in Seq(Parts)
      BY <1>1 DEF Written, Replied
    <2>3. /\ Append(begun.body, part) \in Seq(Parts)
          /\ \A i \in DOMAIN Append(begun.body, part) : Append(begun.body, part)[i].message # "secret"
      BY <1>1, <2>2 DEF Written
    <2>4. v \in Replied /\ v.line = begun.line /\ v.body = Append(begun.body, part)
      BY <1>1, <2>1, <2>3 DEF Written, Replied
    <2>5. Written(v)
      BY <1>1, <2>3, <2>4 DEF Written
    <2>6. w.body = << >> => v.body = <<part>>
      BY <1>1, <2>4
    <2> QED
      BY <1>1, <1>2, <2>4, <2>5, <2>6 DEF v
  <1> QED
    BY <1>3, <1>4

LEMMA RenderedIsWritten ==
    ASSUME NEW w, Written(w), NEW encodes \in BOOLEAN
    PROVE  Written(Rendered(w, 201, encodes))
  <1> DEFINE part == [status |-> 0, message |-> "value"]
  <1>1. part \in Parts /\ part.message # "secret"
    BY DEF Parts, Messages
  <1>2. Written(WriteHeader(w, 201))
    BY HeaderIsWritten
  <1> HIDE DEF part
  <1>3. Written(WriteBody(WriteHeader(w, 201), part))
    BY <1>1, <1>2, BodyIsWritten
  <1> QED
    BY <1>2, <1>3 DEF Rendered, part

\* An error that begins the response is all of it.
LEMMA ErrorIsWritten ==
    ASSUME NEW w, Written(w), NEW e \in Problems
    PROVE  LET v == writeErrorResponse(w, coerceError(e)) IN
           /\ Written(v)
           /\ w.line = 0 /\ w.body = << >> /\ Len(v.body) = 1 /\ v.body[1].status >= 200
                => v.line = v.body[1].status
  <1> DEFINE c == coerceError(e)
             status == normalizeStatus(c.status)
             part == [status |-> status, message |-> c.message]
             begun == WriteHeader(w, status)
             v == WriteBody(begun, part)
  <1>1. c.status \in Int /\ c.message \in Messages /\ c.message # "secret"
    BY DEF coerceError, TypedError, Problems, Messages
  <1> HIDE DEF c
  <1>2. status \in 100..599
    BY <1>1 DEF normalizeStatus
  <1> HIDE DEF status
  <1>3. part \in Parts /\ part.message # "secret" /\ part.status = status
    BY <1>1, <1>2 DEF Parts
  <1> HIDE DEF part
  <1>4. Written(begun) /\ begun.body = w.body /\ (w.line = 0 /\ status >= 200 => begun.line = status)
    BY <1>2, HeaderIsWritten
  <1> HIDE DEF begun
  <1>5. /\ Written(v) /\ (begun.line # 0 => v.line = begun.line)
        /\ begun.body = << >> => v.body \in {<< >>, <<part>>}
    BY <1>3, <1>4, BodyIsWritten
  <1>6. ASSUME w.line = 0, w.body = << >>, Len(v.body) = 1, v.body[1].status >= 200
        PROVE  v.line = v.body[1].status
    <2> HIDE DEF v
    <2>1. v.body = <<part>>
      BY <1>4, <1>5, <1>6
    <2>2. v.body[1].status = status
      BY <1>3, <2>1
    <2> QED
      BY <1>2, <1>4, <1>5, <1>6, <2>2
  <1>7. v = writeErrorResponse(w, coerceError(e))
    BY DEF writeErrorResponse, c, status, part, begun
  <1> HIDE DEF v
  <1> QED
    BY <1>5, <1>6, <1>7

(***************************************************************************)
(* The handler's steps                                                     *)
(***************************************************************************)
LEMMA RepliesAreWritten ==
    ASSUME NEW c, NEW w, RightFor(c, w)
    PROVE  Written(w)
  BY DEF RightFor, Answered, Written, FinalLines

\* c goes on to d outside the scope, with the reply v.
LEMMA HandlerGoesOn ==
    ASSUME NEW r \in Requested, RequestsOK, request[r].at \in {"handler", "problem"},
           NEW d \in Contexts, ScopeSame(request[r], d), d.at \in {"handler", "problem", "leave"},
           NEW v, Written(v), Answered(d, v), Become(r, d), reply' = [reply EXCEPT ![r] = v]
    PROVE  RequestsOK'
  <1>1. RightFor(request[r], reply[r])
    BY DEF RequestsOK
  <1>2. Building(d) /\ Closing(d)
    BY <1>1, StaysOpen DEF Inside
  <1>3. RightFor(d, v)
    BY <1>2 DEF RightFor, Written
  <1> QED
    BY <1>3, Becomes

LEMMA WritesKeeps ==
    ASSUME NEW r \in Requested, RequestsOK, Writes(r)
    PROVE  RequestsOK'
  <1> DEFINE c == request[r]
  <1>1. RightFor(c, reply[r]) /\ c.at = "handler" /\ c \in Contexts
    BY DEF Writes, RequestAt, RequestsOK, RightFor
  <1>2. PICK encodes \in BOOLEAN :
          /\ reply' = [reply EXCEPT ![r] = Rendered(reply[r], 201, encodes)]
          /\ Become(r, [c EXCEPT !.wrote = @ + 1, !.at = IF encodes \/ c.plain THEN @ ELSE "problem",
                                 !.problem = IF encodes THEN @ ELSE PlainError])
    BY DEF Writes, Replies
  <1> DEFINE v == Rendered(reply[r], 201, encodes)
             d == [c EXCEPT !.wrote = @ + 1, !.at = IF encodes \/ c.plain THEN @ ELSE "problem",
                            !.problem = IF encodes THEN @ ELSE PlainError]
  <1>3. d \in Contexts /\ ScopeSame(c, d) /\ d.at \in {"handler", "problem"} /\ d.wrote > 0
    <2>1. PlainError \in Problems /\ c.wrote + 1 \in Nat /\ c.wrote + 1 > 0
      BY <1>1, ErrorsAreProblems DEF Contexts
    <2>2. /\ (IF encodes \/ c.plain THEN c.at ELSE "problem") \in {"handler", "problem"}
          /\ (IF encodes THEN c.problem ELSE PlainError) \in Problems
      BY <1>1, <2>1 DEF Contexts
    <2>3. d \in Contexts
      BY <1>1, <2>1, <2>2 DEF Contexts, Places
    <2>4. d.wrote = c.wrote + 1 /\ d.at \in {"handler", "problem"} /\ ScopeSame(c, d)
      BY <1>1, <2>2 DEF Contexts, ScopeSame
    <2> QED
      BY <2>1, <2>3, <2>4
  <1>4. Written(v)
    BY <1>1, RepliesAreWritten, RenderedIsWritten
  <1> HIDE DEF d, v
  <1>5. Answered(d, v)
    BY <1>3, <1>4 DEF Answered, Written, FinalLines, Contexts
  <1> QED
    BY <1>1, <1>2, <1>3, <1>4, <1>5, HandlerGoesOn DEF d, v

LEMMA NoContentKeeps ==
    ASSUME NEW r \in Requested, RequestsOK, NoContent(r)
    PROVE  RequestsOK'
  <1> DEFINE c == request[r]
             d == [c EXCEPT !.at = "leave"]
             v == WriteHeader(reply[r], 204)
  <1>1. /\ RightFor(c, reply[r]) /\ c.at = "handler" /\ c \in Contexts
        /\ Become(r, d) /\ reply' = [reply EXCEPT ![r] = v]
    BY DEF NoContent, RequestAt, Replies, RequestsOK, RightFor
  <1>2. d \in Contexts /\ ScopeSame(c, d) /\ d.at = "leave" /\ d.wrote = c.wrote
    BY <1>1 DEF Contexts, Places, ScopeSame
  <1>3. Written(v) /\ v.body = reply[r].body
    <2>1. Written(reply[r]) /\ 204 \in 100..599
      BY <1>1, RepliesAreWritten
    <2> QED
      BY <2>1, HeaderIsWritten
  <1> HIDE DEF d, v
  <1>4. Answered(d, v)
    <2>1. d.wrote = 0 => v.body = << >>
      BY <1>1, <1>2, <1>3 DEF RightFor, Answered
    <2> QED
      BY <1>2, <1>3, <2>1 DEF Answered, Written, FinalLines
  <1> QED
    BY <1>1, <1>2, <1>3, <1>4, HandlerGoesOn

\* The handler is left, or has a problem, and nothing is written.
LEMMA HandlerLeft ==
    ASSUME NEW r \in Requested, RequestsOK, request[r].at \in {"handler", "problem"},
           NEW d \in Contexts, ScopeSame(request[r], d), d.at \in {"problem", "leave"},
           d.wrote = request[r].wrote, Become(r, d), UNCHANGED reply
    PROVE  RequestsOK'
  <1>1. RightFor(request[r], reply[r])
    BY DEF RequestsOK
  <1>2. Answered(d, reply[r])
    BY <1>1, AnswerStays DEF Inside
  <1>3. reply' = [reply EXCEPT ![r] = reply[r]]
    BY DEF RequestsOK
  <1> QED
    BY <1>1, <1>2, <1>3, RepliesAreWritten, HandlerGoesOn

LEMMA HandlerLeaves ==
    ASSUME NEW r \in Requested, RequestAssumption, RequestsOK,
           BindsBody(r) \/ Returns(r) \/ Panics(r) \/ Aborts(r)
    PROVE  RequestsOK'
  <1> DEFINE c == request[r]
             fails(e) == [c EXCEPT !.at = "problem", !.problem = e]
             leaves == [c EXCEPT !.at = "leave"]
             panics == [c EXCEPT !.at = IF c.caught > 0 THEN "leave" ELSE "problem",
                                 !.caught = @ + 1, !.problem = PlainError]
  <1>1. c \in Contexts /\ c.at \in {"handler", "problem"} /\ UNCHANGED reply
    BY DEF BindsBody, Returns, Panics, Aborts, RequestAt, RequestsOK
  <1>2. \/ Become(r, leaves) \/ Become(r, panics)
        \/ \E e \in Problems : Become(r, fails(e))
    <2>1. CASE BindsBody(r)
      <3>1. PICK e \in {TypedError(s) : s \in BindErrors} \cup {Unprocessable} : Become(r, fails(WithCause(e)))
        BY <2>1 DEF BindsBody
      <3>2. WithCause(e) \in Problems
        BY ErrorsAreProblems DEF BindErrors, Unprocessable
      <3> HIDE DEF fails
      <3> QED
        BY <3>1, <3>2
    <2>2. CASE Returns(r)
      <3>1. Become(r, leaves) \/ \E e \in {TypedError(s) : s \in ErrorStatuses} \cup {PlainError} : Become(r, fails(e))
        BY <2>2 DEF Returns
      <3>2. {TypedError(s) : s \in ErrorStatuses} \cup {PlainError} \subseteq Problems
        BY ErrorsAreProblems DEF RequestAssumption
      <3> HIDE DEF leaves, fails
      <3> QED
        BY <3>1, <3>2
    <2> QED
      BY <2>1, <2>2 DEF Panics, Aborts
  <1>3. ASSUME NEW e \in Problems
        PROVE  fails(e) \in Contexts /\ ScopeSame(c, fails(e)) /\ fails(e).at = "problem" /\ fails(e).wrote = c.wrote
    BY <1>1, FailsAsIs
  <1>4. leaves \in Contexts /\ ScopeSame(c, leaves) /\ leaves.at = "leave" /\ leaves.wrote = c.wrote
    BY <1>1 DEF Contexts, Places, ScopeSame
  <1>5. panics \in Contexts /\ ScopeSame(c, panics) /\ panics.at \in {"problem", "leave"} /\ panics.wrote = c.wrote
    <2>1. PlainError \in Problems /\ c.caught + 1 \in Nat
      BY <1>1, ErrorsAreProblems DEF Contexts
    <2>2. (IF c.caught > 0 THEN "leave" ELSE "problem") \in {"problem", "leave"}
      OBVIOUS
    <2>3. panics \in Contexts
      BY <1>1, <2>1, <2>2 DEF Contexts, Places
    <2>4. ScopeSame(c, panics) /\ panics.at \in {"problem", "leave"} /\ panics.wrote = c.wrote
      BY <1>1, <2>2 DEF Contexts, ScopeSame
    <2> QED
      BY <2>3, <2>4
  <1> HIDE DEF fails, leaves, panics
  <1> QED
    BY <1>1, <1>2, <1>3, <1>4, <1>5, HandlerLeft

LEMMA HandleErrorKeeps ==
    ASSUME NEW r \in Requested, RequestsOK, HandleError(r)
    PROVE  RequestsOK'
  <1> DEFINE c == request[r]
             d == [c EXCEPT !.at = "leave"]
             v == writeErrorResponse(reply[r], coerceError(c.problem))
  <1>1. /\ RightFor(c, reply[r]) /\ c.at = "problem" /\ c \in Contexts
        /\ Become(r, d) /\ reply' = [reply EXCEPT ![r] = v]
    BY DEF HandleError, RequestAt, Replies, RequestsOK, RightFor
  <1>2. d \in Contexts /\ ScopeSame(c, d) /\ d.at = "leave" /\ d.wrote = c.wrote /\ c.problem \in Problems
    BY <1>1 DEF Contexts, Places, ScopeSame
  <1>3. /\ Written(v)
        /\ reply[r].line = 0 /\ reply[r].body = << >> /\ Len(v.body) = 1 /\ v.body[1].status >= 200
             => v.line = v.body[1].status
    BY <1>1, <1>2, RepliesAreWritten, ErrorIsWritten
  <1> HIDE DEF d, v
  <1>4. d.wrote = 0 => reply[r].line = 0 /\ reply[r].body = << >>
    BY <1>1, <1>2 DEF RightFor, Answered
  <1>5. Answered(d, v)
    BY <1>2, <1>3, <1>4 DEF Answered, Written, FinalLines
  <1> QED
    BY <1>1, <1>2, <1>3, <1>5, HandlerGoesOn

(***************************************************************************)
(* The way back                                                            *)
(***************************************************************************)
LEMMA Reversed ==
    ASSUME NEW s \in Seq(Types)
    PROVE  /\ Reverse(s) \in Seq(Types) /\ Len(Reverse(s)) = Len(s)
           /\ \A i \in 1..Len(s) : Reverse(s)[i] = s[Len(s) - i + 1]
  BY DEF Reverse

LEMMA LogsRequestKeeps ==
    ASSUME NEW r \in Requested, RequestsOK, LogsRequest(r)
    PROVE  RequestsOK'
  <1> DEFINE k == request[r]
             d == [k EXCEPT !.at = "closing", !.todo = Reverse(k.built)]
  <1>1. /\ RightFor(k, reply[r]) /\ k.at = "leave" /\ k \in Contexts
        /\ Become(r, d) /\ UNCHANGED reply
    BY DEF LogsRequest, RequestAt, RequestsOK, RightFor
  <1>2. k.built \in Seq(Types) /\ k.closed = << >> /\ Building(k)
    BY <1>1 DEF Contexts, RightFor, Building
  <1>3. /\ d \in Contexts /\ ScopeSame(k, d) /\ d.at = "closing" /\ d.wrote = k.wrote
        /\ d.todo = Reverse(k.built)
    BY <1>1, <1>2, Reversed DEF Contexts, Places, ScopeSame
  <1> HIDE DEF d
  <1>4. Building(d)
    BY <1>2, <1>3 DEF Building, ScopeSame
  <1>5. Closing(d)
    <2>1. d.built \in Seq(Types) /\ d.closed = << >> /\ Len(d.todo) = Len(d.built)
      BY <1>2, <1>3, Reversed DEF ScopeSame
    <2>2. \A i \in 1..Len(d.todo) : d.todo[i] = d.built[Len(d.todo) - i + 1]
      BY <1>2, <1>3, <2>1, Reversed DEF ScopeSame
    <2> QED
      BY <2>1, <2>2 DEF Closing, Covered, Taken, InReverse
  <1>6. Answered(d, reply[r])
    BY <1>1, <1>3 DEF RightFor, Answered
  <1>7. RightFor(d, reply[r])
    BY <1>1, <1>3, <1>4, <1>5, <1>6 DEF RightFor
  <1> QED
    BY <1>1, <1>7, Settles

LEMMA ClosesOne ==
    ASSUME NEW built \in Seq(Types), NEW closed \in Seq(Types), NEW held, NEW n \in 1..Len(built),
           Covered(built, closed, held, n), Taken(built, closed, held, n), InReverse(built, closed)
    PROVE  LET s == IF built[n] \in held THEN Append(closed, built[n]) ELSE closed IN
           Covered(built, s, held, n - 1) /\ Taken(built, s, held, n - 1) /\ InReverse(built, s)
  <1> DEFINE t == built[n]
             s == Append(closed, t)
  <1>1. /\ t \in Types /\ n \in DOMAIN built /\ DOMAIN built \subseteq Nat /\ n - 1 \in Nat
        /\ Len(closed) \in Nat /\ DOMAIN closed = 1..Len(closed)
    OBVIOUS
  <1>2. CASE t \notin held
    <2>1. Covered(built, closed, held, n - 1)
      BY <1>1, <1>2 DEF Covered
    <2>2. Taken(built, closed, held, n - 1)
      BY <1>1 DEF Taken
    <2> QED
      BY <1>2, <2>1, <2>2
  <1>3. CASE t \in held
    <2>1. /\ DOMAIN s = 1..(Len(closed) + 1) /\ s[Len(closed) + 1] = t
          /\ \A i \in DOMAIN closed : s[i] = closed[i]
      BY <1>1
    <2> HIDE DEF s, t
    <2>2. Covered(built, s, held, n - 1)
      <3> SUFFICES ASSUME NEW m \in DOMAIN built, m > n - 1, built[m] \in held
                   PROVE  \E i \in DOMAIN s : s[i] = built[m]
        BY DEF Covered
      <3>1. CASE m = n
        BY <1>1, <2>1, <3>1 DEF t
      <3>2. CASE m > n
        <4>1. PICK i \in DOMAIN closed : closed[i] = built[m]
          BY <3>2 DEF Covered
        <4> QED
          BY <1>1, <2>1, <4>1
      <3> QED
        BY <1>1, <3>1, <3>2
    <2>3. Taken(built, s, held, n - 1)
      <3> SUFFICES ASSUME NEW i \in DOMAIN s
                   PROVE  s[i] \in held /\ \E m \in DOMAIN built : m > n - 1 /\ built[m] = s[i]
        BY DEF Taken
      <3>1. CASE i \in DOMAIN closed
        <4>1. PICK m \in DOMAIN built : m > n /\ built[m] = closed[i]
          BY <3>1 DEF Taken
        <4>2. m > n - 1 /\ s[i] = closed[i] /\ closed[i] \in held
          BY <1>1, <2>1, <3>1, <4>1 DEF Taken
        <4> QED
          BY <4>1, <4>2
      <3>2. CASE i = Len(closed) + 1
        BY <1>1, <1>3, <2>1, <3>2 DEF t
      <3> QED
        BY <1>1, <2>1, <3>1, <3>2
    <2>4. InReverse(built, s)
      <3> SUFFICES ASSUME NEW i \in DOMAIN s, NEW j \in DOMAIN s, i < j
                   PROVE  \E m, o \in DOMAIN built : o < m /\ built[m] = s[i] /\ built[o] = s[j]
        BY DEF InReverse
      <3>1. i \in DOMAIN closed /\ s[i] = closed[i] /\ (j \in DOMAIN closed \/ j = Len(closed) + 1)
        BY <1>1, <2>1
      <3>2. CASE j \in DOMAIN closed
        <4>1. PICK m \in DOMAIN built, o \in DOMAIN built : o < m /\ built[m] = closed[i] /\ built[o] = closed[j]
          BY <3>1, <3>2 DEF InReverse
        <4> QED
          BY <2>1, <3>1, <3>2, <4>1
      <3>3. CASE j = Len(closed) + 1
        <4>1. PICK m \in DOMAIN built : m > n /\ built[m] = closed[i]
          BY <3>1 DEF Taken
        <4>2. n < m /\ built[m] = s[i] /\ built[n] = s[j]
          BY <1>1, <2>1, <3>1, <3>3, <4>1 DEF t
        <4> QED
          BY <1>1, <4>2
      <3> QED
        BY <3>1, <3>2, <3>3
    <2> QED
      BY <1>3, <2>2, <2>3, <2>4 DEF s, t
  <1> QED
    BY <1>2, <1>3

\* What is left to close is known by its place among what was built.
LEMMA ClosesLast ==
    ASSUME NEW k \in Contexts, Closing(k), k.at = "closing", k.todo # << >>,
           NEW n, n = Len(k.todo), NEW d \in Contexts, d.at = "closing",
           d.kind = k.kind, d.built = k.built, d.todo = Tail(k.todo),
           d.closed = IF k.built[n] \in ServicesOf(k) THEN Append(k.closed, k.built[n]) ELSE k.closed
    PROVE  Closing(d)
  <1>1. /\ k.todo \in Seq(Types) /\ k.built \in Seq(Types) /\ k.closed \in Seq(Types)
        /\ n \in 1..Len(k.built)
    BY DEF Contexts, Closing
  <1>2. /\ Len(d.todo) = n - 1 /\ \A i \in 1..(n - 1) : d.todo[i] = k.todo[i + 1]
    BY <1>1
  <1>3. /\ Len(d.todo) <= Len(d.built)
        /\ \A i \in 1..Len(d.todo) : d.todo[i] = d.built[Len(d.todo) - i + 1]
    BY <1>1, <1>2 DEF Closing
  <1>4. /\ Covered(k.built, k.closed, ServicesOf(k), n) /\ Taken(k.built, k.closed, ServicesOf(k), n)
        /\ InReverse(k.built, k.closed)
    BY DEF Closing
  <1>5. /\ Covered(k.built, d.closed, ServicesOf(k), n - 1) /\ Taken(k.built, d.closed, ServicesOf(k), n - 1)
        /\ InReverse(k.built, d.closed)
    <2> DEFINE built == k.built
               closed == k.closed
               held == ServicesOf(k)
               s == IF built[n] \in held THEN Append(closed, built[n]) ELSE closed
    <2>1. s = d.closed
      OBVIOUS
    <2>2. built \in Seq(Types) /\ closed \in Seq(Types) /\ n \in 1..Len(built)
      BY <1>1
    <2>3. Covered(built, closed, held, n) /\ Taken(built, closed, held, n) /\ InReverse(built, closed)
      BY <1>4
    <2> HIDE DEF built, closed, held
    <2>4. Covered(built, s, held, n - 1) /\ Taken(built, s, held, n - 1) /\ InReverse(built, s)
      BY <2>2, <2>3, ClosesOne
    <2> HIDE DEF s
    <2> QED
      BY <2>1, <2>4 DEF built, held
  <1>6. ServicesOf(d) = ServicesOf(k)
    BY DEF ServicesOf
  <1> QED
    BY <1>2, <1>3, <1>5, <1>6 DEF Closing

LEMMA ClosesNextKeeps ==
    ASSUME NEW r \in Requested, RequestAssumption, RequestsOK, ClosesNext(r)
    PROVE  RequestsOK'
  <1> DEFINE k == request[r]
             t == Head(k.todo)
             held == IsService(t, k.kind) /\ (t = LogType => k.slot = "built")
             d == [k EXCEPT !.todo = Tail(@), !.closed = IF held THEN Append(@, t) ELSE @]
  <1>1. /\ RightFor(k, reply[r]) /\ k.at = "closing" /\ k \in Contexts /\ k.todo # << >>
        /\ Become(r, d) /\ UNCHANGED reply
    BY DEF ClosesNext, RequestAt, RequestsOK, RightFor
  <1>2. Building(k) /\ Closing(k) /\ k.todo \in Seq(Types) /\ k.closed \in Seq(Types)
    BY <1>1 DEF RightFor, Contexts
  <1>3. t = k.built[Len(k.todo)] /\ t \in Types
    <2>1. 1 \in 1..Len(k.todo) /\ Len(k.todo) - 1 + 1 = Len(k.todo) /\ t = k.todo[1]
      BY <1>1, <1>2
    <2>2. k.todo[1] = k.built[Len(k.todo) - 1 + 1]
      BY <1>1, <1>2, <2>1 DEF Closing
    <2> QED
      BY <1>1, <1>2, <2>1, <2>2
  \* The derived logger has taken no Service's place.
  <1>4. held <=> t \in ServicesOf(k)
    <2>1. k.slot \in {"built", "derived"} /\ LogType \notin ScopedServices
      BY <1>1 DEF Contexts, RequestAssumption
    <2> QED
      BY <1>2, <1>3, <2>1 DEF Building, ServicesOf, IsService
  <1>5. /\ d \in Contexts /\ ScopeSame([k EXCEPT !.closed = d.closed], d) /\ d.at = "closing" /\ d.wrote = k.wrote
        /\ d.todo = Tail(k.todo) /\ d.kind = k.kind /\ d.built = k.built /\ d.slot = k.slot
        /\ d.closed = IF t \in ServicesOf(k) THEN Append(k.closed, t) ELSE k.closed
    <2>1. /\ Tail(k.todo) \in Seq(Types) /\ Append(k.closed, t) \in Seq(Types)
      BY <1>1, <1>2, <1>3
    <2> HIDE DEF held
    <2> QED
      BY <1>1, <1>4, <2>1 DEF Contexts, ScopeSame
  <1> HIDE DEF d, t, held
  <1>6. Closing(d)
    BY <1>1, <1>2, <1>3, <1>5, ClosesLast
  <1>7. Building(d) /\ Answered(d, reply[r])
    BY <1>1, <1>2, <1>5 DEF Building, RightFor, Answered
  <1>8. RightFor(d, reply[r])
    BY <1>1, <1>5, <1>6, <1>7 DEF RightFor
  <1> QED
    BY <1>1, <1>8, Settles

LEMMA EndsKeeps ==
    ASSUME NEW r \in Requested, RequestsOK, Ends(r)
    PROVE  RequestsOK'
  <1> DEFINE k == request[r]
             d == [k EXCEPT !.at = "done", !.logs = FALSE, !.wrote = 0]
  <1>1. /\ RightFor(k, reply[r]) /\ k.at = "closing" /\ k \in Contexts /\ k.todo = << >>
        /\ Become(r, d) /\ reply' = [reply EXCEPT ![r] = NoReply]
    BY DEF Ends, RequestAt, Replies, RequestsOK, RightFor
  <1>2. d \in Contexts /\ ScopeSame(k, d) /\ d.at = "done" /\ d.todo = << >> /\ d.wrote = 0
    BY <1>1 DEF Contexts, Places, ScopeSame
  <1>3. NoReply \in Replied /\ NoReply.line = 0 /\ NoReply.body = << >>
    <2>1. << >> \in Seq(Parts)
      OBVIOUS
    <2> QED
      BY <2>1 DEF NoReply, Replied
  <1> HIDE DEF d
  <1>4. Building(d)
    BY <1>1, <1>2 DEF RightFor, Building, ScopeSame
  <1>5. Closing(d)
    BY <1>1, <1>2 DEF RightFor, Closing, ServicesOf, ScopeSame
  <1>6. Answered(d, NoReply)
    BY <1>2, <1>3 DEF Answered
  <1>7. RightFor(d, NoReply)
    BY <1>2, <1>3, <1>4, <1>5, <1>6 DEF RightFor
  <1> QED
    BY <1>1, <1>7, Becomes

(***************************************************************************)
(* The logs                                                                *)
(***************************************************************************)
LEMMA LogsKeep ==
    ASSUME NEW r \in Requested, RequestsOK, LogsOK, RequestLogger(r) \/ LogsRequest(r)
    PROVE  LogsOK'
  <1>1. CASE RequestLogger(r)
    BY <1>1 DEF RequestLogger, LogsOK, LogsAreSeparate, With
  <1>2. CASE LogsRequest(r)
    <2> DEFINE line == [status |-> reply[r].line,
                 fields |-> {r} \cup IF request[r].kind = "singleton" THEN sharedFields ELSE {}]
    <2>1. line \in Lines /\ line.fields = {r}
      BY DEF LogsOK, RequestsOK, Replied, Lines
    <2>2. /\ logLines' = [logLines EXCEPT ![r] = IF ~request[r].logs THEN @ ELSE Append(@, line)]
          /\ UNCHANGED sharedFields
      BY <1>2 DEF LogsRequest
    <2> HIDE DEF line
    <2>3. /\ Append(logLines[r], line) \in Seq(Lines)
          /\ \A i \in DOMAIN Append(logLines[r], line) : Append(logLines[r], line)[i].fields = {r}
      BY <2>1 DEF LogsOK, LogsAreSeparate
    <2> QED
      BY <2>2, <2>3 DEF LogsOK, LogsAreSeparate
  <1> QED
    BY <1>1, <1>2

(***************************************************************************)
(* The theorem                                                             *)
(***************************************************************************)
RequestInv == RequestsOK /\ LogsOK

LEMMA InitIsRight ==
    ASSUME RequestsInit
    PROVE  RequestInv
  <1>1. << >> \in Seq(Types) /\ << >> \in Seq(Parts) /\ << >> \in Seq(Lines) /\ NoProblem \in Problems
    BY DEF NoProblem, Problems, Messages
  <1>2. NewContext \in Contexts /\ NoReply \in Replied
    BY <1>1 DEF NewContext, NoReply, Contexts, Places, Replied
  <1>3. RightFor(NewContext, NoReply)
    <2>1. /\ NewContext.at = "idle" /\ NewContext.built = << >> /\ NewContext.slot = "built"
          /\ NewContext.closed = << >> /\ NewContext.wrote = 0 /\ NoReply.line = 0 /\ NoReply.body = << >>
      BY DEF NewContext, NoReply
    <2> QED
      BY <1>2, <2>1 DEF RightFor, Building, Closing, Answered, IsInjective
  <1> QED
    BY <1>1, <1>2, <1>3 DEF RequestsInit, RequestInv, RequestsOK, LogsOK, LogsAreSeparate

LEMMA StepKeeps ==
    ASSUME RequestAssumption, RequestInv, RequestsNext
    PROVE  RequestInv'
  <1>1. PICK r \in Requested :
        \/ Arrives(r) \/ RequestStep(r)
        \/ Writes(r) \/ NoContent(r) \/ BindsBody(r) \/ Returns(r) \/ Panics(r) \/ Aborts(r)
    BY DEF RequestsNext
  <1>2. RequestsOK'
    BY <1>1, ArrivesKeeps, RequestLoggerKeeps, HandlerStartsKeeps, ResolveArgsKeeps, HandleErrorKeeps,
       LogsRequestKeeps, ClosesNextKeeps, EndsKeeps, WritesKeeps, NoContentKeeps, HandlerLeaves
       DEF RequestStep, RequestInv
  <1>3. LogsOK'
    <2>1. CASE RequestLogger(r) \/ LogsRequest(r)
      BY <2>1, LogsKeep DEF RequestInv
    <2>2. CASE Ends(r)
      <3>1. << >> \in Seq(Lines)
        OBVIOUS
      <3> QED
        BY <2>2, <3>1 DEF Ends, RequestInv, LogsOK, LogsAreSeparate
    <2>3. CASE UNCHANGED <<logLines, sharedFields>>
      BY <2>3 DEF RequestInv, LogsOK, LogsAreSeparate
    <2> QED
      BY <1>1, <2>1, <2>2, <2>3 DEF RequestStep, Arrives, HandlerStarts, ResolveArgs, HandleError, ClosesNext,
         Writes, NoContent, BindsBody, Returns, Panics, Aborts
  <1> QED
    BY <1>2, <1>3 DEF RequestInv

LEMMA InvIsEnough ==
    ASSUME RequestInv
    PROVE  ResponsesHold
  <1>1. ScopeIsTornDown
    <2> SUFFICES ASSUME NEW r \in Requested, request[r].at = "done"
                 PROVE  LET built == request[r].built closed == request[r].closed IN
                        /\ IsInjective(built)
                        /\ ToSet(closed) = {t \in ToSet(built) : IsService(t, request[r].kind)}
                        /\ \A i, j \in DOMAIN closed : i < j =>
                              \E m, n \in DOMAIN built : n < m /\ built[m] = closed[i] /\ built[n] = closed[j]
      BY DEF ScopeIsTornDown, RequestAt
    <2> DEFINE c == request[r]
    <2>1. /\ c \in Contexts /\ Building(c) /\ Closing(c) /\ c.todo = << >>
      BY DEF RequestInv, RequestsOK, RightFor
    <2>2. Len(c.todo) = 0 /\ c.built \in Seq(Types) /\ c.closed \in Seq(Types)
      BY <2>1 DEF Contexts
    <2>3. /\ \A m \in DOMAIN c.built : c.built[m] \in ServicesOf(c) => \E i \in DOMAIN c.closed : c.closed[i] = c.built[m]
          /\ \A i \in DOMAIN c.closed : c.closed[i] \in ServicesOf(c) /\ \E m \in DOMAIN c.built : c.built[m] = c.closed[i]
      <3>1. \A m \in DOMAIN c.built : m > 0
        BY <2>2
      <3> QED
        BY <2>1, <2>2, <3>1 DEF Closing, Covered, Taken
    <2>4. ToSet(c.closed) = {t \in ToSet(c.built) : IsService(t, c.kind)}
      <3>1. ToSet(c.built) \subseteq Types
        BY <2>2 DEF ToSet
      <3> QED
        BY <2>3, <3>1 DEF ToSet, ServicesOf
    <2> QED
      BY <2>1, <2>4 DEF Building, Closing, InReverse
  <1>2. ErrorsAreRendered
    BY DEF RequestInv, RequestsOK, RightFor, Answered, ErrorsAreRendered
  <1>3. LogsAreSeparate
    BY DEF RequestInv, LogsOK
  <1> QED
    BY <1>1, <1>2, <1>3 DEF ResponsesHold

\* However a request ends (a return, an error, a panic, an aborted connection),
\* Scope.Close closes each Service that the scope has built once and in reverse
\* order, writeErrorResponse shows a client no text but an *Error's message,
\* and RequestLogger's line has no fields of another request.
THEOREM ResponsesAreHeld == RequestsSpec => []ResponsesHold
  <1>1. RequestsInit => RequestInv
    BY InitIsRight
  <1>2. RequestInv /\ [RequestsNext]_requestVars => RequestInv'
    <2>1. CASE UNCHANGED requestVars
      BY <2>1 DEF requestVars, RequestInv, RequestsOK, LogsOK, LogsAreSeparate
    <2> QED
      BY <2>1, StepKeeps, RequestAssumption
  <1>3. RequestInv => ResponsesHold
    BY InvIsEnough
  <1> QED
    BY <1>1, <1>2, <1>3, PTL DEF RequestsSpec

(***************************************************************************)
(* The configuration                                                       *)
(***************************************************************************)
\* A set of numbers has a least one.
LEMMA LeastNumber ==
    ASSUME NEW S \in SUBSET Nat, S # {}
    PROVE  \E m \in S : \A n \in S : m <= n
  <1>1. \E x \in S : \A y \in S : ~(<<y, x>> \in OpToRel(<, Nat))
    BY NatLessThanWellFounded, WFMin, Zenon
  <1>2. \A x, y \in Nat : <<y, x>> \in OpToRel(<, Nat) <=> y < x
    BY Zenon DEF OpToRel
  <1>3. PICK x \in S : \A y \in S : ~(<<y, x>> \in OpToRel(<, Nat))
    BY <1>1
  <1>4. \A y \in S : ~(y < x)
    BY <1>2, <1>3, Zenon
  <1>5. \A y \in S : x <= y
    BY <1>4
  <1> QED
    BY <1>5

\* Induction, of a set.
LEMMA Climb ==
    ASSUME NEW N \in Nat, NEW S, 0 \in S, \A n \in 0..N - 1 : n \in S => n + 1 \in S
    PROVE  \A n \in 0..N : n \in S
  <1> DEFINE lacks == {n \in Nat : n <= N /\ n \notin S}
  <1> SUFFICES ASSUME lacks # {} PROVE FALSE
    OBVIOUS
  <1>1. PICK m \in lacks : \A n \in lacks : m <= n
    BY LeastNumber
  <1>2. m # 0
    OBVIOUS
  <1>3. m - 1 \in Nat /\ m - 1 <= N /\ ~(m <= m - 1) /\ m - 1 + 1 = m /\ m - 1 \in 0..N - 1
    BY <1>2
  <1>4. m - 1 \in S
    BY <1>1, <1>3
  <1> QED
    BY <1>3, <1>4

(***************************************************************************)
(* Config: paths and trees                                                 *)
(***************************************************************************)
LEMMA ParentsAre ==
    ASSUME NEW p, IsPath(p), NEW q \in Parents(p)
    PROVE  IsPath(q) /\ q \notin Parents(q) /\ p \notin Parents(p) /\ q # p
           /\ \A r \in Parents(q) : r \in Parents(p)
  <1> DEFINE S == {p[i] : i \in DOMAIN p}
  <1>1. p \in Seq(S) /\ Len(p) \in Nat
    BY DEF IsPath
  <1> HIDE DEF S
  <1>2. \A m \in 1..Len(p) : /\ SubSeq(p, 1, m) \in Seq(S) /\ Len(SubSeq(p, 1, m)) = m
                             /\ \A i \in 1..m : SubSeq(p, 1, m)[i] = p[i]
    BY <1>1
  <1>3. PICK n \in 1..Len(p) - 1 : q = SubSeq(p, 1, n)
    BY DEF Parents
  <1>4. n \in 1..Len(p) /\ n < Len(p)
    BY <1>1, <1>3
  <1>5. q \in Seq(S) /\ Len(q) = n /\ DOMAIN q = 1..n /\ \A i \in 1..n : q[i] = p[i]
    BY <1>2, <1>3, <1>4
  <1>6. \A r \in Parents(q) : r \in Parents(p) /\ Len(r) < n
    <2> SUFFICES ASSUME NEW m \in 1..n - 1
                 PROVE  SubSeq(q, 1, m) \in Parents(p) /\ Len(SubSeq(q, 1, m)) < n
      BY <1>5 DEF Parents
    <2>1. m \in 1..Len(p) /\ m \in 1..n /\ m \in 1..Len(p) - 1 /\ m < n
      BY <1>1, <1>4
    <2>2. SubSeq(q, 1, m) = SubSeq(p, 1, m)
      <3>1. /\ SubSeq(q, 1, m) \in Seq(S) /\ Len(SubSeq(q, 1, m)) = m
            /\ \A i \in 1..m : SubSeq(q, 1, m)[i] = q[i]
        BY <1>5, <2>1
      <3> QED
        BY <1>2, <1>5, <2>1, <3>1
    <2> QED
      BY <1>2, <2>1, <2>2 DEF Parents
  <1>7. \A r \in Parents(p) : Len(r) < Len(p)
    BY <1>1, <1>2 DEF Parents
  <1>8. IsPath(q)
    <2> DEFINE T == {q[i] : i \in DOMAIN q}
    <2>1. \A i \in 1..n : q[i] \in T
      BY <1>5
    <2> HIDE DEF T
    <2>2. q \in Seq(T)
      BY <1>4, <1>5, <2>1
    <2>3. q # << >>
      BY <1>4, <1>5
    <2> QED
      BY <2>2, <2>3 DEF IsPath, T
  <1> QED
    BY <1>1, <1>4, <1>5, <1>6, <1>7, <1>8

LEMMA LeavesAre == \A t, p : p \in Leaves(t) <=> p \in DOMAIN t /\ t[p] # Branch
  BY DEF Leaves

LEMMA TreeIs ==
    ASSUME NEW t, IsTree(t), NEW p \in DOMAIN t
    PROVE  IsPath(p) /\ \A q \in Parents(p) : q \in DOMAIN t /\ t[q] = Branch /\ q \notin Leaves(t)
  BY DEF IsTree, Leaves

\* What a merge keeps of dst, and what it takes from src.
LEMMA MergeIs ==
    ASSUME NEW dst, NEW src, IsTree(dst), IsTree(src)
    PROVE  LET m == Merge(dst, src)
           IN /\ IsTree(m)
              /\ \A p : p \in DOMAIN m <=>
                    \/ p \in DOMAIN src
                    \/ p \in DOMAIN dst /\ \A q \in Parents(p) : q \notin Leaves(src)
              /\ \A p \in DOMAIN m : m[p] = IF p \in DOMAIN src THEN src[p] ELSE dst[p]
  <1> DEFINE gone == {q \in DOMAIN dst : \E p \in DOMAIN src : Clash(dst, src, p) /\ Under(q, p)}
             m == Merge(dst, src)
             D == (DOMAIN dst \ gone) \cup DOMAIN src
  <1>1. m = [p \in D |-> IF p \in DOMAIN src THEN src[p] ELSE dst[p]]
    BY DEF Merge
  <1>2. \A p : p \in gone <=> p \in DOMAIN dst /\ \E q \in Parents(p) : q \in Leaves(src)
    <2>1. \A p \in DOMAIN dst : \A q \in Parents(p) : q \in DOMAIN dst /\ dst[q] = Branch
      BY DEF IsTree
    <2> QED
      BY <2>1, LeavesAre DEF Clash, Under
  <1>3. \A p : p \in D <=> \/ p \in DOMAIN src
                           \/ p \in DOMAIN dst /\ \A q \in Parents(p) : q \notin Leaves(src)
    BY <1>2
  <1> HIDE DEF gone, D
  <1>4. DOMAIN m = D /\ \A p \in D : m[p] = IF p \in DOMAIN src THEN src[p] ELSE dst[p]
    BY <1>1
  <1>5. m = [p \in DOMAIN m |-> m[p]]
    BY <1>1
  <1> HIDE DEF m
  <1>6. ASSUME NEW p \in D, NEW q \in Parents(p)
        PROVE  IsPath(p) /\ q \in D /\ m[q] = Branch
    <2>1. CASE p \in DOMAIN src
      BY <2>1, <1>3, <1>4, TreeIs
    <2>2. CASE p \notin DOMAIN src
      <3>1. p \in DOMAIN dst /\ q \notin Leaves(src)
        BY <2>2, <1>3
      <3>2. IsPath(p) /\ q \in DOMAIN dst /\ dst[q] = Branch
        BY <3>1, TreeIs
      <3>3. \A r \in Parents(q) : r \notin Leaves(src)
        BY <2>2, <1>3, <3>2, ParentsAre
      <3> QED
        BY <3>1, <3>2, <3>3, <1>3, <1>4, LeavesAre
    <2> QED
      BY <2>1, <2>2
  <1>7. \A p \in D : IsPath(p)
    BY <1>3, TreeIs
  <1>8. IsTree(m)
    BY <1>4, <1>5, <1>6, <1>7 DEF IsTree
  <1> QED
    BY <1>3, <1>4, <1>8 DEF m

\* A tree without the values below a path, and without some of its leaves.
LEMMA CutIs ==
    ASSUME NEW t, IsTree(t), NEW D, D \subseteq DOMAIN t,
           \A p \in D : \A q \in Parents(p) : q \in D
    PROVE  IsTree([p \in D |-> t[p]])
  BY TreeIs DEF IsTree

\* The map with v at path, and nothing beside the way there.
SpineTo(path, v) == [p \in Parents(path) \cup {path} |-> IF p = path THEN v ELSE Branch]

LEMMA SpineIs ==
    ASSUME NEW path, IsPath(path), NEW v
    PROVE  IsTree(SpineTo(path, v))
  <1> DEFINE s == SpineTo(path, v)
  <1>1. /\ s = [p \in DOMAIN s |-> s[p]] /\ DOMAIN s = Parents(path) \cup {path}
        /\ \A p \in DOMAIN s : s[p] = IF p = path THEN v ELSE Branch
    BY DEF SpineTo
  <1> HIDE DEF s
  <1>2. \A p \in DOMAIN s : IsPath(p) /\ \A q \in Parents(p) : q \in Parents(path) /\ q # path
    BY <1>1, ParentsAre
  <1>3. IsTree(s)
    BY <1>1, <1>2 DEF IsTree
  <1> QED
    BY <1>3 DEF s

LEMMA PutIs ==
    ASSUME NEW t, IsTree(t), NEW path, IsPath(path), Reaches(t, path), NEW v, v # Branch,
           \A p \in DOMAIN t : path \notin Parents(p)
    PROVE  LET u == Put(t, path, v)
           IN /\ IsTree(u) /\ path \in DOMAIN u /\ u[path] = v
              /\ \A p : p \in DOMAIN u <=> p \in DOMAIN t \/ p \in Parents(path) \/ p = path
              /\ \A p \in DOMAIN u : p # path => u[p] = IF p \in DOMAIN t THEN t[p] ELSE Branch
  <1> DEFINE D == DOMAIN t \ {path}
             r == [p \in D |-> t[p]]
             s == SpineTo(path, v)
             u == Put(t, path, v)
  <1>0. u = Merge(r, s)
    BY DEF Put, SpineTo
  <1>1. DOMAIN r = D /\ \A p \in D : r[p] = t[p]
    OBVIOUS
  <1>2. IsTree(r)
    <2>1. \A p \in D : \A q \in Parents(p) : q \in D
      BY TreeIs
    <2> HIDE DEF D
    <2>2. D \subseteq DOMAIN t
      BY DEF D
    <2> QED
      BY <2>1, <2>2, CutIs
  <1>3. /\ IsTree(s) /\ DOMAIN s = Parents(path) \cup {path}
        /\ \A p \in DOMAIN s : s[p] = IF p = path THEN v ELSE Branch
    BY SpineIs DEF SpineTo
  <1>4. path \notin Parents(path)
    BY ParentsAre DEF Parents
  <1> HIDE DEF r, s
  <1>5. \A p : p \in Leaves(s) <=> p = path
    BY <1>3, LeavesAre
  <1>6. /\ IsTree(Merge(r, s))
        /\ \A p : p \in DOMAIN Merge(r, s) <=>
              p \in DOMAIN s \/ (p \in DOMAIN r /\ \A q \in Parents(p) : q \notin Leaves(s))
        /\ \A p \in DOMAIN Merge(r, s) : Merge(r, s)[p] = IF p \in DOMAIN s THEN s[p] ELSE r[p]
    BY <1>2, <1>3, MergeIs
  <1>7. \A p \in D : \A q \in Parents(p) : q \notin Leaves(s)
    BY <1>5
  <1> HIDE DEF u
  <1>8. \A p : p \in DOMAIN u <=> p \in DOMAIN t \/ p \in Parents(path) \/ p = path
    BY <1>0, <1>1, <1>3, <1>6, <1>7
  <1>9. ASSUME NEW p \in DOMAIN u, p # path
        PROVE  u[p] = IF p \in DOMAIN t THEN t[p] ELSE Branch
    <2>1. CASE p \in Parents(path)
      <3>1. u[p] = Branch
        BY <1>0, <1>3, <1>6, <1>9, <2>1
      <3> QED
        BY <2>1, <3>1 DEF Reaches
    <2>2. CASE p \notin Parents(path)
      BY <1>0, <1>1, <1>3, <1>6, <1>9, <2>2, <1>8
    <2> QED
      BY <2>1, <2>2
  <1>10. path \in DOMAIN u /\ u[path] = v
    BY <1>0, <1>3, <1>6
  <1> QED
    BY <1>0, <1>6, <1>8, <1>9, <1>10 DEF u

\* Set changes the path, what is above it and what is under it.
LEMMA SetIs ==
    ASSUME NEW t, IsTree(t), NEW path, IsPath(path), NEW v, v # Branch
    PROVE  LET u == Set(t, path, v)
           IN /\ IsTree(u)
              /\ Reaches(t, path) => path \in DOMAIN u /\ u[path] = v
              /\ \A p \in DOMAIN t : p # path /\ path \notin Parents(p) => p \in DOMAIN u /\ u[p] = t[p]
              /\ \A p \in DOMAIN u : \/ p = path /\ u[p] = v
                                     \/ p \in DOMAIN t /\ u[p] = t[p]
                                     \/ p \in Parents(path) /\ u[p] = Branch
  <1> DEFINE D == {q \in DOMAIN t : ~Under(q, path)}
             r == [p \in D |-> t[p]]
             u == Set(t, path, v)
  <1>1. CASE ~Reaches(t, path)
    BY <1>1 DEF Set
  <1>2. CASE Reaches(t, path)
    <2>1. u = Put(r, path, v)
      BY <1>2 DEF Set
    <2>2. \A p : p \in D <=> p \in DOMAIN t /\ path \notin Parents(p)
      BY DEF Under
    <2>3. DOMAIN r = D /\ \A p \in D : r[p] = t[p]
      OBVIOUS
    <2>4. IsTree(r)
      <3>1. \A p \in D : \A q \in Parents(p) : q \in D
        BY <2>2, TreeIs, ParentsAre
      <3>2. D \subseteq DOMAIN t
        OBVIOUS
      <3> HIDE DEF D
      <3> QED
        BY <3>1, <3>2, CutIs
    <2> HIDE DEF r, D, u
    <2>5. Reaches(r, path) /\ \A p \in DOMAIN r : path \notin Parents(p)
      BY <1>2, <2>2, <2>3 DEF Reaches
    <2>6. /\ IsTree(u) /\ path \in DOMAIN u /\ u[path] = v
          /\ \A p : p \in DOMAIN u <=> p \in DOMAIN r \/ p \in Parents(path) \/ p = path
          /\ \A p \in DOMAIN u : p # path => u[p] = IF p \in DOMAIN r THEN r[p] ELSE Branch
      BY <2>1, <2>4, <2>5, PutIs
    <2> QED
      BY <2>2, <2>3, <2>6 DEF u
  <1> QED
    BY <1>1, <1>2

LEMMA SetDefaultIs ==
    ASSUME NEW t, IsTree(t), NEW path, IsPath(path), NEW v, v # Branch
    PROVE  LET u == SetDefault(t, path, v)
           IN /\ IsTree(u)
              /\ Reaches(t, path) => path \in DOMAIN u
              /\ \A p \in DOMAIN t : p \in DOMAIN u /\ u[p] = t[p]
              /\ \A p \in DOMAIN u : \/ p = path /\ path \notin DOMAIN t /\ u[p] = v
                                     \/ p \in DOMAIN t /\ u[p] = t[p]
                                     \/ p \in Parents(path) /\ u[p] = Branch
  <1> DEFINE u == SetDefault(t, path, v)
  <1>1. CASE ~(Reaches(t, path) /\ path \notin DOMAIN t)
    BY <1>1 DEF SetDefault
  <1>2. CASE Reaches(t, path) /\ path \notin DOMAIN t
    <2>1. u = Put(t, path, v)
      BY <1>2 DEF SetDefault
    <2>2. \A p \in DOMAIN t : path \notin Parents(p)
      BY <1>2, TreeIs
    <2> HIDE DEF u
    <2>3. /\ IsTree(u) /\ path \in DOMAIN u /\ u[path] = v
          /\ \A p : p \in DOMAIN u <=> p \in DOMAIN t \/ p \in Parents(path) \/ p = path
          /\ \A p \in DOMAIN u : p # path => u[p] = IF p \in DOMAIN t THEN t[p] ELSE Branch
      BY <1>2, <2>1, <2>2, PutIs
    <2> QED
      BY <1>2, <2>3 DEF u
  <1> QED
    BY <1>1, <1>2

LEMMA MergeWithoutOverrideIs ==
    ASSUME NEW dst, NEW src, IsTree(dst), IsTree(src)
    PROVE  LET m == MergeWithoutOverride(dst, src)
           IN /\ IsTree(m)
              /\ \A p \in DOMAIN dst : p \in DOMAIN m /\ m[p] = dst[p]
              /\ \A p \in DOMAIN m : p \in DOMAIN dst \/ (p \in DOMAIN src /\ m[p] = src[p])
  <1> DEFINE missing == {p \in DOMAIN src \ DOMAIN dst :
                            \A q \in Parents(p) : q \in DOMAIN dst => dst[q] = Branch}
             m == MergeWithoutOverride(dst, src)
  <1>1. m = [p \in DOMAIN dst \cup missing |-> IF p \in DOMAIN dst THEN dst[p] ELSE src[p]]
    BY DEF MergeWithoutOverride
  <1>2. \A p : p \in missing <=> /\ p \in DOMAIN src /\ p \notin DOMAIN dst
                                 /\ \A q \in Parents(p) : q \in DOMAIN dst => dst[q] = Branch
    OBVIOUS
  <1> HIDE DEF missing
  <1>3. /\ m = [p \in DOMAIN m |-> m[p]] /\ DOMAIN m = DOMAIN dst \cup missing
        /\ \A p \in DOMAIN m : m[p] = IF p \in DOMAIN dst THEN dst[p] ELSE src[p]
    BY <1>1
  <1> HIDE DEF m
  <1>4. ASSUME NEW p \in DOMAIN m
        PROVE  IsPath(p) /\ \A q \in Parents(p) : q \in DOMAIN m /\ m[q] = Branch
    <2>1. CASE p \in DOMAIN dst
      BY <2>1, <1>3, TreeIs
    <2>2. CASE p \in missing
      <3>1. IsPath(p) /\ \A q \in Parents(p) : q \in DOMAIN src /\ src[q] = Branch
        BY <2>2, <1>2, TreeIs
      <3>2. \A q \in Parents(p) : \A r \in Parents(q) : r \in Parents(p)
        BY <3>1, ParentsAre
      <3>3. \A q \in Parents(p) : q \in DOMAIN dst \/ q \in missing
        BY <2>2, <3>1, <3>2, <1>2
      <3> QED
        BY <2>2, <3>1, <3>3, <1>2, <1>3
    <2> QED
      BY <2>1, <2>2, <1>3
  <1>5. IsTree(m)
    BY <1>3, <1>4 DEF IsTree
  <1> QED
    BY <1>2, <1>3, <1>5 DEF m

(***************************************************************************)
(* Config: the recursive functions exist                                   *)
(***************************************************************************)
MergeTurn(t, docs, w, n) == IF n = 0 THEN t ELSE Merge(w[n - 1], docs[n])
LEMMA MergeIntoGoes ==
    ASSUME NEW t, NEW docs, Len(docs) \in Nat
    PROVE  \E u : MergeInto(t, docs) = u[Len(docs)] /\ \A n \in 0..Len(docs) : u[n] = MergeTurn(t, docs, u, n)
  <1> DEFINE N == Len(docs)
             Goes(w, k) == w = [n \in 0..k |-> MergeTurn(t, docs, w, n)]
             u == CHOOSE w : w = [n \in 0..N |-> IF n = 0 THEN t ELSE Merge(w[n - 1], docs[n])]
             lacks == {k \in Nat : ~\E w : Goes(w, k)}
  <1>1. MergeInto(t, docs) = u[N]
    BY DEF MergeInto
  <1> HIDE DEF N
  <1>2. lacks = {}
    <2> SUFFICES ASSUME lacks # {} PROVE FALSE
      OBVIOUS
    <2>1. PICK m \in lacks : \A n \in lacks : m <= n
      BY LeastNumber
    <2>2. CASE m = 0
      <3> DEFINE w == [n \in 0..0 |-> t]
      <3>1. \A n \in 0..0 : MergeTurn(t, docs, w, n) = t
        BY DEF MergeTurn
      <3>2. Goes(w, 0)
        BY <3>1
      <3> QED
        BY <2>1, <2>2, <3>2
    <2>3. CASE m # 0
      <3>1. m \in Nat /\ m - 1 \in Nat /\ ~(m <= m - 1)
        BY <2>3
      <3>2. PICK v : Goes(v, m - 1)
        BY <2>1, <3>1
      <3> DEFINE w == [n \in 0..m |-> IF n = m THEN Merge(v[m - 1], docs[m]) ELSE v[n]]
      <3>3. ASSUME NEW n \in 0..m PROVE w[n] = MergeTurn(t, docs, w, n)
        <4>1. CASE n = m
          <5>1. w[m - 1] = v[m - 1]
            BY <3>1
          <5>2. w[n] = Merge(v[m - 1], docs[m])
            BY <4>1
          <5> HIDE DEF w
          <5> QED
            BY <2>3, <4>1, <5>1, <5>2 DEF MergeTurn
        <4>2. CASE n # m
          <5>1. n \in 0..m - 1 /\ (n # 0 => n - 1 \in 0..m /\ n - 1 # m)
            BY <3>1, <4>2
          <5>2. w[n] = v[n] /\ (n # 0 => w[n - 1] = v[n - 1])
            BY <4>2, <5>1
          <5>3. v[n] = MergeTurn(t, docs, v, n)
            BY <3>2, <5>1
          <5> HIDE DEF w
          <5> QED
            BY <5>2, <5>3 DEF MergeTurn
        <4> QED
          BY <4>1, <4>2
      <3>4. w = [n \in 0..m |-> w[n]]
        OBVIOUS
      <3> HIDE DEF w
      <3>5. Goes(w, m)
        BY <3>3, <3>4
      <3> QED
        BY <2>1, <3>5
    <2> QED
      BY <2>2, <2>3
  <1>3. \E w : Goes(w, N)
    BY <1>2 DEF N
  <1>4. \A w : Goes(w, N) <=> w = [n \in 0..N |-> IF n = 0 THEN t ELSE Merge(w[n - 1], docs[n])]
    BY DEF MergeTurn
  <1> HIDE DEF lacks, Goes
  <1>5. Goes(u, N)
    BY <1>3, <1>4
  <1> HIDE DEF u
  <1>6. \A n \in 0..N : u[n] = MergeTurn(t, docs, u, n)
    BY <1>5 DEF Goes
  <1> QED
    BY <1>1, <1>6 DEF N

NestTurn(s, w, n) == IF n = 0 THEN NoTree ELSE BuildNestedMap(w[n - 1], s[n])
LEMMA NestingGoes ==
    ASSUME NEW s, Len(s) \in Nat
    PROVE  \E u : Nesting(s) = u[Len(s)] /\ \A n \in 0..Len(s) : u[n] = NestTurn(s, u, n)
  <1> DEFINE N == Len(s)
             Goes(w, k) == w = [n \in 0..k |-> NestTurn(s, w, n)]
             u == CHOOSE w : w = [n \in 0..N |-> IF n = 0 THEN NoTree ELSE BuildNestedMap(w[n - 1], s[n])]
             lacks == {k \in Nat : ~\E w : Goes(w, k)}
  <1>1. Nesting(s) = u[N]
    BY DEF Nesting
  <1> HIDE DEF N
  <1>2. lacks = {}
    <2> SUFFICES ASSUME lacks # {} PROVE FALSE
      OBVIOUS
    <2>1. PICK m \in lacks : \A n \in lacks : m <= n
      BY LeastNumber
    <2>2. CASE m = 0
      <3> DEFINE w == [n \in 0..0 |-> NoTree]
      <3>1. \A n \in 0..0 : NestTurn(s, w, n) = NoTree
        BY DEF NestTurn
      <3>2. Goes(w, 0)
        BY <3>1
      <3> QED
        BY <2>1, <2>2, <3>2
    <2>3. CASE m # 0
      <3>1. m \in Nat /\ m - 1 \in Nat /\ ~(m <= m - 1)
        BY <2>3
      <3>2. PICK v : Goes(v, m - 1)
        BY <2>1, <3>1
      <3> DEFINE w == [n \in 0..m |-> IF n = m THEN BuildNestedMap(v[m - 1], s[m]) ELSE v[n]]
      <3>3. ASSUME NEW n \in 0..m PROVE w[n] = NestTurn(s, w, n)
        <4>1. CASE n = m
          <5>1. w[m - 1] = v[m - 1]
            BY <3>1
          <5>2. w[n] = BuildNestedMap(v[m - 1], s[m])
            BY <4>1
          <5> HIDE DEF w
          <5> QED
            BY <2>3, <4>1, <5>1, <5>2 DEF NestTurn
        <4>2. CASE n # m
          <5>1. n \in 0..m - 1 /\ (n # 0 => n - 1 \in 0..m /\ n - 1 # m)
            BY <3>1, <4>2
          <5>2. w[n] = v[n] /\ (n # 0 => w[n - 1] = v[n - 1])
            BY <4>2, <5>1
          <5>3. v[n] = NestTurn(s, v, n)
            BY <3>2, <5>1
          <5> HIDE DEF w
          <5> QED
            BY <5>2, <5>3 DEF NestTurn
        <4> QED
          BY <4>1, <4>2
      <3>4. w = [n \in 0..m |-> w[n]]
        OBVIOUS
      <3> HIDE DEF w
      <3>5. Goes(w, m)
        BY <3>3, <3>4
      <3> QED
        BY <2>1, <3>5
    <2> QED
      BY <2>2, <2>3
  <1>3. \E w : Goes(w, N)
    BY <1>2 DEF N
  <1>4. \A w : Goes(w, N) <=> w = [n \in 0..N |-> IF n = 0 THEN NoTree ELSE BuildNestedMap(w[n - 1], s[n])]
    BY DEF NestTurn
  <1> HIDE DEF lacks, Goes
  <1>5. Goes(u, N)
    BY <1>3, <1>4
  <1> HIDE DEF u
  <1>6. \A n \in 0..N : u[n] = NestTurn(s, u, n)
    BY <1>5 DEF Goes
  <1> QED
    BY <1>1, <1>6 DEF N

(***************************************************************************)
(* Config: what providers read                                             *)
(***************************************************************************)
LEMMA ValuesAreLeaves ==
    /\ \A x : [val |-> x] # Branch
    /\ \A x, n, i : [val |-> x, load |-> n, place |-> i] # Branch
  <1>1. DOMAIN Branch = {"map"}
    BY DEF Branch
  <1>2. ASSUME NEW x PROVE DOMAIN [val |-> x] = {"val"}
    OBVIOUS
  <1>3. ASSUME NEW x, NEW n, NEW i PROVE "val" \in DOMAIN [val |-> x, load |-> n, place |-> i]
    OBVIOUS
  <1> QED
    BY <1>1, <1>2, <1>3

LEMMA NoTreeIs == IsTree(NoTree) /\ Reaches(NoTree, EnvPath) /\ Quiet(NoTree) /\ DOMAIN NoTree = {}
  BY DEF IsTree, Reaches, Quiet, NoTree

LEMMA BuildNestedMapIs ==
    ASSUME NEW t, IsTree(t), NEW var, IsPath(var.path)
    PROVE  LET u == BuildNestedMap(t, var)
           IN /\ IsTree(u)
              /\ Reaches(t, EnvPath) /\ var.path \notin Parents(EnvPath) => Reaches(u, EnvPath)
              /\ Quiet(t) /\ Apart(var.path) => Quiet(u)
  <1> DEFINE path == var.path
             above == {q \in Parents(path) : q \in DOMAIN t /\ t[q] # Branch}
             D == DOMAIN t \ above
             r == [p \in D |-> t[p]]
             v == [val |-> var.val]
             u == BuildNestedMap(t, var)
  <1>1. u = Set(r, path, v) /\ v # Branch
    BY ValuesAreLeaves DEF BuildNestedMap
  <1>2. IsTree(r)
    <2>1. \A p \in D : \A q \in Parents(p) : q \in D
      BY TreeIs
    <2>2. D \subseteq DOMAIN t
      OBVIOUS
    <2> HIDE DEF D
    <2> QED
      BY <2>1, <2>2, CutIs
  <1>3. \A p \in DOMAIN r : p \in DOMAIN t /\ r[p] = t[p]
    OBVIOUS
  <1> HIDE DEF u, r, v
  <1>4. /\ IsTree(u)
        /\ \A p \in DOMAIN u : \/ p = path /\ u[p] = v
                               \/ p \in DOMAIN r /\ u[p] = r[p]
                               \/ p \in Parents(path) /\ u[p] = Branch
    BY <1>1, <1>2, SetIs
  <1>5. Reaches(t, EnvPath) /\ path \notin Parents(EnvPath) => Reaches(u, EnvPath)
    BY <1>1, <1>3, <1>4 DEF Reaches
  <1>6. Quiet(t) /\ Apart(path) => Quiet(u)
    BY <1>1, <1>3, <1>4 DEF Quiet, Apart
  <1> QED
    BY <1>4, <1>5, <1>6 DEF u

LEMMA NestingIs ==
    ASSUME NEW V, NEW s \in Seq(V), \A var \in V : IsPath(var.path)
    PROVE  /\ IsTree(Nesting(s))
           /\ (\A var \in V : var.path \notin Parents(EnvPath)) => Reaches(Nesting(s), EnvPath)
           /\ (\A var \in V : Apart(var.path)) => Quiet(Nesting(s))
  <1> DEFINE N == Len(s)
             ReachesAll == \A var \in V : var.path \notin Parents(EnvPath)
             QuietAll == \A var \in V : Apart(var.path)
  <1>1. N \in Nat /\ \A n \in 1..N : s[n] \in V
    OBVIOUS
  <1>2. PICK u : Nesting(s) = u[N] /\ \A n \in 0..N : u[n] = NestTurn(s, u, n)
    BY <1>1, NestingGoes
  <1> DEFINE good == {n \in 0..N : IsTree(u[n]) /\ (ReachesAll => Reaches(u[n], EnvPath)) /\ (QuietAll => Quiet(u[n]))}
  <1> HIDE DEF N
  <1>3. 0 \in good
    BY <1>1, <1>2, NoTreeIs DEF NestTurn
  <1>4. ASSUME NEW n \in 0..N - 1, n \in good PROVE n + 1 \in good
    <2>1. n + 1 \in 0..N /\ n + 1 \in 1..N /\ n + 1 # 0 /\ n + 1 - 1 = n
      BY <1>1
    <2>2. u[n + 1] = BuildNestedMap(u[n], s[n + 1])
      BY <1>2, <2>1 DEF NestTurn
    <2>3. s[n + 1] \in V /\ IsPath(s[n + 1].path)
      BY <1>1, <2>1
    <2>4. IsTree(u[n + 1]) /\ (ReachesAll => Reaches(u[n + 1], EnvPath)) /\ (QuietAll => Quiet(u[n + 1]))
      BY <1>4, <2>2, <2>3, BuildNestedMapIs
    <2> QED
      BY <2>1, <2>4
  <1>5. N \in good
    <2> HIDE DEF good
    <2>1. \A n \in 0..N : n \in good
      BY <1>1, <1>3, <1>4, Climb
    <2> QED
      BY <1>1, <2>1
  <1> QED
    BY <1>2, <1>5

LEMMA ParseVariablesIs ==
    ASSUME NEW vars, IsFiniteSet(vars), \A var \in vars : IsPath(var.path), NEW t \in ParseVariables(vars)
    PROVE  /\ IsTree(t)
           /\ (\A var \in vars : var.path \notin Parents(EnvPath)) => Reaches(t, EnvPath)
           /\ (\A var \in vars : Apart(var.path)) => Quiet(t)
  <1>1. Safe(vars) \subseteq vars /\ IsFiniteSet(Safe(vars))
    BY FS_Subset DEF Safe
  <1>2. Cardinality(Safe(vars)) \in Nat
    BY <1>1, FS_CardinalityType
  <1>3. PICK s \in SetToSeqs(Safe(vars)) : t = Nesting(s)
    BY DEF ParseVariables
  <1>4. s \in [1..Cardinality(Safe(vars)) -> Safe(vars)]
    BY DEF SetToSeqs
  <1>5. s \in Seq(vars)
    BY <1>1, <1>2, <1>4
  <1> QED
    BY <1>3, <1>5, NestingIs

LEMMA PathIs ==
    ASSUME NEW S, NEW p \in Seq(S), p # << >>
    PROVE  IsPath(p)
  <1> DEFINE T == {p[i] : i \in DOMAIN p}
  <1>1. DOMAIN p = 1..Len(p) /\ Len(p) \in Nat /\ \A i \in 1..Len(p) : p[i] \in T
    OBVIOUS
  <1> HIDE DEF T
  <1>2. p \in Seq(T)
    BY <1>1
  <1> QED
    BY <1>2 DEF IsPath, T

\* c is b put after a.
Joins(S, a, b, c) ==
    /\ c \in Seq(S) /\ Len(c) = Len(a) + Len(b)
    /\ \A i \in 1..Len(a) : c[i] = a[i]
    /\ \A i \in 1..Len(b) : c[Len(a) + i] = b[i]

LEMMA JoinHas ==
    ASSUME NEW S, NEW a \in Seq(S), NEW b \in Seq(S)
    PROVE  Joins(S, a, b, a \o b)
  BY DEF Joins

\* Prefixes of one sequence after another.
LEMMA PrefixesOfJoin ==
    ASSUME NEW S, NEW a \in Seq(S), NEW b \in Seq(S)
    PROVE  /\ \A m \in 1..Len(a) : SubSeq(a \o b, 1, m) = SubSeq(a, 1, m)
           /\ \A j \in 1..Len(b) : /\ SubSeq(a \o b, 1, Len(a) + j) = a \o SubSeq(b, 1, j)
                                   /\ SubSeq(a \o SubSeq(b, 1, j), Len(a) + 1, Len(a) + j) = SubSeq(b, 1, j)
                                   /\ Len(a \o SubSeq(b, 1, j)) = Len(a) + j
  <1> DEFINE c == a \o b
             k == Len(a)
             l == Len(b)
  <1>1. k \in Nat /\ l \in Nat /\ c \in Seq(S) /\ Len(c) = k + l
        /\ (\A i \in 1..k : c[i] = a[i]) /\ (\A i \in 1..l : c[k + i] = b[i])
    OBVIOUS
  <1>2. \A m \in 1..k : /\ SubSeq(a, 1, m) \in Seq(S) /\ Len(SubSeq(a, 1, m)) = m
                        /\ \A i \in 1..m : SubSeq(a, 1, m)[i] = a[i]
    OBVIOUS
  <1>3. \A j \in 1..l : /\ SubSeq(b, 1, j) \in Seq(S) /\ Len(SubSeq(b, 1, j)) = j
                        /\ \A i \in 1..j : SubSeq(b, 1, j)[i] = b[i]
    OBVIOUS
  <1> HIDE DEF c, k, l
  <1>4. \A m \in 1..k + l : /\ SubSeq(c, 1, m) \in Seq(S) /\ Len(SubSeq(c, 1, m)) = m
                            /\ \A i \in 1..m : SubSeq(c, 1, m)[i] = c[i]
    BY <1>1
  <1>5. ASSUME NEW m \in 1..k PROVE SubSeq(c, 1, m) = SubSeq(a, 1, m)
    <2>1. m \in 1..k + l /\ m \in Nat /\ \A i \in 1..m : i \in 1..k
      BY <1>1
    <2> QED
      BY <1>1, <1>2, <1>4, <2>1
  <1>6. ASSUME NEW j \in 1..l
        PROVE  /\ SubSeq(c, 1, k + j) = a \o SubSeq(b, 1, j)
               /\ SubSeq(a \o SubSeq(b, 1, j), k + 1, k + j) = SubSeq(b, 1, j)
               /\ Len(a \o SubSeq(b, 1, j)) = k + j
    <2> DEFINE d == SubSeq(b, 1, j)
               e == a \o d
    <2>1. j \in Nat /\ k + j \in 1..k + l /\ \A i \in 1..j : i \in 1..l
      BY <1>1
    <2>2. d \in Seq(S) /\ Len(d) = j /\ \A i \in 1..j : d[i] = b[i]
      BY <1>3
    <2> HIDE DEF d
    <2>3. e \in Seq(S) /\ Len(e) = k + j /\ (\A i \in 1..k : e[i] = a[i]) /\ (\A i \in 1..j : e[k + i] = d[i])
      <3>1. Joins(S, a, d, e)
        BY <2>2, JoinHas
      <3> HIDE DEF e
      <3> QED
        BY <2>2, <3>1 DEF k, Joins
    <2> HIDE DEF e
    <2>4. \A i \in 1..k + j : e[i] = c[i]
      <3> SUFFICES ASSUME NEW i \in 1..k + j PROVE e[i] = c[i]
        OBVIOUS
      <3>1. CASE i \in 1..k
        BY <3>1, <1>1, <2>3
      <3>2. CASE i \notin 1..k
        <4>1. \E h \in 1..j : i = k + h
          <5>1. i - k \in 1..j /\ i = k + (i - k)
            BY <3>2, <1>1, <2>1
          <5> QED
            BY <5>1
        <4>2. PICK h \in 1..j : i = k + h
          BY <4>1
        <4>3. e[k + h] = d[h] /\ d[h] = b[h] /\ c[k + h] = b[h]
          BY <1>1, <2>1, <2>2, <2>3
        <4> QED
          BY <4>2, <4>3
      <3> QED
        BY <3>1, <3>2
    <2>5. SubSeq(c, 1, k + j) = e
      BY <1>4, <2>1, <2>3, <2>4
    <2>6. SubSeq(e, k + 1, k + j) = d
      <3>1. /\ SubSeq(e, k + 1, k + j) \in Seq(S) /\ Len(SubSeq(e, k + 1, k + j)) = j
            /\ \A i \in 1..j : SubSeq(e, k + 1, k + j)[i] = e[k + i]
        BY <1>1, <2>1, <2>3
      <3>2. \A i \in 1..j : SubSeq(e, k + 1, k + j)[i] = d[i]
        BY <2>3, <3>1
      <3> DEFINE x == SubSeq(e, k + 1, k + j)
      <3> HIDE DEF x
      <3>3. x \in Seq(S) /\ Len(x) = j /\ \A i \in 1..j : x[i] = d[i]
        BY <3>1, <3>2 DEF x
      <3>4. x = d
        BY <2>2, <3>3
      <3> QED
        BY <3>4 DEF x
    <2> QED
      BY <2>3, <2>5, <2>6 DEF d, e
  <1> QED
    BY <1>5, <1>6 DEF c, k, l

LEMMA NestedIs ==
    ASSUME NEW key, IsPath(key) \/ key = << >>, NEW root, IsTree(root)
    PROVE  IsTree(Nested(key, root))
  <1> DEFINE k == Len(key)
             up == {SubSeq(key, 1, n) : n \in 1..k}
             down == {key \o q : q \in DOMAIN root}
             t == Nested(key, root)
             V(p) == IF Len(p) <= k THEN Branch ELSE root[SubSeq(p, k + 1, Len(p))]
  <1>1. t = [p \in up \cup down |-> V(p)]
    BY DEF Nested
  <1>2. PICK K : key \in Seq(K)
    <2>1. CASE key = << >>
      <3>1. << >> \in Seq({})
        OBVIOUS
      <3> QED
        BY <2>1, <3>1
    <2>2. CASE IsPath(key)
      <3>1. key \in Seq({key[i] : i \in DOMAIN key})
        BY <2>2 DEF IsPath
      <3> QED
        BY <3>1
    <2> QED
      BY <2>1, <2>2
  <1>3. k \in Nat
    BY <1>2
  <1>4. \A n \in 1..k : /\ SubSeq(key, 1, n) \in Seq(K) /\ Len(SubSeq(key, 1, n)) = n
                        /\ SubSeq(key, 1, n) # << >>
    BY <1>2
  <1>5. ASSUME NEW p \in up, NEW r \in Parents(p) PROVE r \in up
    <2>1. PICK n \in 1..k : p = SubSeq(key, 1, n)
      OBVIOUS
    <2>2. PICK m \in 1..n - 1 : r = SubSeq(p, 1, m)
      BY <1>4, <2>1 DEF Parents
    <2>3. m \in 1..k /\ \A i \in 1..m : i \in 1..n
      BY <1>3, <2>1, <2>2
    <2>4. SubSeq(p, 1, m) = SubSeq(key, 1, m)
      BY <1>2, <1>3, <2>1, <2>2, <2>3
    <2> QED
      BY <2>2, <2>3, <2>4
  <1>6. \A p \in up : IsPath(p) /\ Len(p) <= k
    <2>1. \A n \in 1..k : IsPath(SubSeq(key, 1, n)) /\ Len(SubSeq(key, 1, n)) <= k
      <3> SUFFICES ASSUME NEW n \in 1..k
                   PROVE  IsPath(SubSeq(key, 1, n)) /\ Len(SubSeq(key, 1, n)) <= k
        OBVIOUS
      <3>1. SubSeq(key, 1, n) \in Seq(K) /\ Len(SubSeq(key, 1, n)) = n /\ SubSeq(key, 1, n) # << >>
        BY <1>4
      <3>2. n <= k
        BY <1>3
      <3> QED
        BY <3>1, <3>2, PathIs
    <2> QED
      BY <2>1
  <1>7. ASSUME NEW q \in DOMAIN root
        PROVE  /\ IsPath(key \o q)
               /\ \A r \in Parents(key \o q) : r \in up \cup down /\ V(r) = Branch
    <2>1. PICK Q : q \in Seq(Q) /\ q # << >>
      BY TreeIs DEF IsPath
    <2> DEFINE S == K \cup Q
               l == Len(q)
    <2>2. key \in Seq(S) /\ q \in Seq(S)
      BY <1>2, <2>1
    <2>3. l \in Nat /\ l # 0
      BY <2>1
    <2> HIDE DEF S
    <2>4. key \o q \in Seq(S) /\ Len(key \o q) = k + l /\ key \o q # << >>
      BY <2>2, <2>3
    <2>5. IsPath(key \o q)
      BY <2>4, PathIs
    <2>6. ASSUME NEW r \in Parents(key \o q) PROVE r \in up \cup down /\ V(r) = Branch
      <3>1. PICK m \in 1..k + l - 1 : r = SubSeq(key \o q, 1, m)
        BY <2>4 DEF Parents
      <3>2. CASE m \in 1..k
        <4>1. r = SubSeq(key, 1, m)
          BY <2>2, <3>1, <3>2, PrefixesOfJoin
        <4>2. r \in up
          BY <3>2, <4>1
        <4> QED
          BY <1>6, <4>2
      <3>3. CASE m \notin 1..k
        <4> DEFINE j == m - k
                   d == SubSeq(q, 1, j)
        <4>1. j \in 1..l - 1 /\ j \in 1..l /\ k + j = m
          BY <1>3, <2>3, <3>1, <3>3
        <4> HIDE DEF j
        <4>2. /\ r = key \o d /\ Len(r) = k + j /\ SubSeq(r, k + 1, k + j) = d
          <5>1. r = SubSeq(key \o q, 1, k + j)
            BY <3>1, <4>1
          <5>2. /\ SubSeq(key \o q, 1, k + j) = key \o d
                /\ SubSeq(key \o d, k + 1, k + j) = d /\ Len(key \o d) = k + j
            BY <2>2, <4>1, PrefixesOfJoin
          <5> QED
            BY <5>1, <5>2
        <4>3. d \in Parents(q)
          BY <4>1 DEF Parents
        <4> HIDE DEF d
        <4>4. d \in DOMAIN root /\ root[d] = Branch
          BY <4>3, TreeIs
        <4>5. r \in down
          BY <4>2, <4>4
        <4>6. V(r) = Branch
          <5>1. ~(Len(r) <= k)
            BY <1>3, <2>3, <4>1, <4>2
          <5> QED
            BY <4>2, <4>4, <5>1
        <4> QED
          BY <4>5, <4>6
      <3> QED
        BY <3>2, <3>3
    <2> QED
      BY <2>5, <2>6
  <1>8. \A p \in up : V(p) = Branch
    BY <1>6
  <1>9. ASSUME NEW p \in up \cup down
        PROVE  IsPath(p) /\ \A r \in Parents(p) : r \in up \cup down /\ V(r) = Branch
    <2>1. CASE p \in up
      BY <2>1, <1>5, <1>6, <1>8
    <2>2. CASE p \in down
      <3>1. PICK q \in DOMAIN root : p = key \o q
        BY <2>2
      <3> HIDE DEF up, down, V
      <3> QED
        BY <1>7, <3>1
    <2> QED
      BY <2>1, <2>2
  <1> HIDE DEF up, down, V, t
  <1>10. IsTree(t)
    BY <1>1, <1>9 DEF IsTree
  <1> QED
    BY <1>10 DEF t

LEMMA decodeSecretIs ==
    ASSUME NEW s, IsPath(s.key) \/ s.key = << >>, s.raw = NoRaw => IsTree(s.root), ~Undecodable(s)
    PROVE  IsTree(decodeSecret(s))
  <1>1. CASE s.raw = NoRaw
    BY <1>1, NestedIs DEF decodeSecret
  <1>2. CASE s.raw # NoRaw
    <2>1. IsPath(s.key)
      BY <1>2 DEF Undecodable
    <2>2. Reaches(NoTree, s.key) /\ \A p \in DOMAIN NoTree : s.key \notin Parents(p)
      BY NoTreeIs DEF Reaches
    <2>3. IsTree(Put(NoTree, s.key, [val |-> s.raw]))
      BY <2>1, <2>2, NoTreeIs, ValuesAreLeaves, PutIs
    <2> QED
      BY <1>2, <2>3 DEF decodeSecret
  <1> QED
    BY <1>1, <1>2

\* A merge keeps the way to the environment open where both trees do, and the
\* environment where the second says nothing of it.
LEMMA MergeKeepsEnv ==
    ASSUME NEW dst, NEW src, IsTree(dst), IsTree(src)
    PROVE  /\ Reaches(dst, EnvPath) /\ Reaches(src, EnvPath) => Reaches(Merge(dst, src), EnvPath)
           /\ Quiet(dst) /\ Quiet(src) => Quiet(Merge(dst, src))
           /\ Reaches(src, EnvPath) /\ Quiet(src) /\ EnvPath \in DOMAIN dst =>
                 EnvPath \in DOMAIN Merge(dst, src) /\ Merge(dst, src)[EnvPath] = dst[EnvPath]
  <1> DEFINE m == Merge(dst, src)
  <1>1. /\ \A p : p \in DOMAIN m <=>
              \/ p \in DOMAIN src
              \/ p \in DOMAIN dst /\ \A q \in Parents(p) : q \notin Leaves(src)
        /\ \A p \in DOMAIN m : m[p] = IF p \in DOMAIN src THEN src[p] ELSE dst[p]
    BY MergeIs
  <1> HIDE DEF m
  <1>2. ASSUME Reaches(dst, EnvPath), Reaches(src, EnvPath) PROVE Reaches(m, EnvPath)
    BY <1>1, <1>2 DEF Reaches
  <1>3. ASSUME Reaches(src, EnvPath), EnvPath \in DOMAIN dst PROVE EnvPath \in DOMAIN m
    BY <1>1, <1>3, LeavesAre DEF Reaches
  <1>4. ASSUME Quiet(dst), Quiet(src) PROVE Quiet(m)
    BY <1>1, <1>4 DEF Quiet
  <1>5. ASSUME Reaches(src, EnvPath), Quiet(src), EnvPath \in DOMAIN dst PROVE m[EnvPath] = dst[EnvPath]
    BY <1>1, <1>3, <1>5 DEF Quiet
  <1> QED
    BY <1>2, <1>3, <1>4, <1>5 DEF m

\* Where a leaf of the tree merged from several documents comes from.
NoneAfter(docs, n, i, p) ==
    \A j \in i + 1..n : p \notin DOMAIN docs[j] /\ \A q \in Parents(p) : q \notin Leaves(docs[j])
From(t, docs, n, m) ==
    \A p \in Leaves(m) :
        \/ p \in Leaves(t) /\ m[p] = t[p]
        \/ \E i \in 1..n : p \in Leaves(docs[i]) /\ m[p] = docs[i][p] /\ NoneAfter(docs, n, i, p)

LEMMA MergeIntoIs ==
    ASSUME NEW t, IsTree(t), NEW docs, Len(docs) \in Nat, \A n \in 1..Len(docs) : IsTree(docs[n])
    PROVE  LET m == MergeInto(t, docs)
           IN /\ IsTree(m)
              /\ From(t, docs, Len(docs), m)
              /\ Reaches(t, EnvPath) /\ (\A n \in 1..Len(docs) : Reaches(docs[n], EnvPath)) =>
                    Reaches(m, EnvPath)
              /\ Quiet(t) /\ (\A n \in 1..Len(docs) : Quiet(docs[n])) => Quiet(m)
  <1> DEFINE N == Len(docs)
             ReachesAll == Reaches(t, EnvPath) /\ \A n \in 1..N : Reaches(docs[n], EnvPath)
             QuietAll == Quiet(t) /\ \A n \in 1..N : Quiet(docs[n])
  <1>1. PICK u : MergeInto(t, docs) = u[N] /\ \A n \in 0..N : u[n] = MergeTurn(t, docs, u, n)
    BY MergeIntoGoes
  <1> DEFINE Good(n) == /\ IsTree(u[n]) /\ From(t, docs, n, u[n])
                        /\ ReachesAll => Reaches(u[n], EnvPath)
                        /\ QuietAll => Quiet(u[n])
             good == {n \in 0..N : Good(n)}
  <1> HIDE DEF N
  <1>2. N \in Nat /\ \A n \in 1..N : IsTree(docs[n])
    BY DEF N
  <1>3. 0 \in good
    <2>1. u[0] = t /\ 0 \in 0..N
      BY <1>1, <1>2 DEF MergeTurn
    <2> QED
      BY <2>1 DEF From
  <1>4. ASSUME NEW n \in 0..N - 1, n \in good PROVE n + 1 \in good
    <2>1. n \in 0..N /\ n + 1 \in 0..N /\ n + 1 \in 1..N /\ n + 1 # 0 /\ n + 1 - 1 = n
      BY <1>2
    <2>2. u[n + 1] = Merge(u[n], docs[n + 1])
      BY <1>1, <2>1 DEF MergeTurn
    <2>3. Good(n)
      BY <1>4
    <2>4. IsTree(docs[n + 1])
      BY <1>2, <2>1
    <2>5. IsTree(u[n + 1])
      BY <2>2, <2>3, <2>4, MergeIs
    <2>6. ReachesAll => Reaches(u[n + 1], EnvPath)
      BY <2>1, <2>2, <2>3, <2>4, MergeKeepsEnv
    <2>7. QuietAll => Quiet(u[n + 1])
      BY <2>1, <2>2, <2>3, <2>4, MergeKeepsEnv
    <2>8. From(t, docs, n + 1, u[n + 1])
      <3> SUFFICES ASSUME NEW p \in Leaves(u[n + 1])
                   PROVE  \/ p \in Leaves(t) /\ u[n + 1][p] = t[p]
                          \/ \E i \in 1..n + 1 : /\ p \in Leaves(docs[i]) /\ u[n + 1][p] = docs[i][p]
                                                 /\ NoneAfter(docs, n + 1, i, p)
        BY DEF From
      <3> DEFINE new == docs[n + 1]
                 m == u[n + 1]
                 w == u[n]
      <3>1. /\ p \in DOMAIN new \/ (p \in DOMAIN w /\ \A q \in Parents(p) : q \notin Leaves(new))
            /\ m[p] = IF p \in DOMAIN new THEN new[p] ELSE w[p]
            /\ m[p] # Branch
        BY <2>2, <2>3, <2>4, MergeIs, LeavesAre
      <3>2. CASE p \in DOMAIN new
        <4>1. p \in Leaves(new) /\ m[p] = new[p]
          BY <3>1, <3>2, LeavesAre
        <4>2. NoneAfter(docs, n + 1, n + 1, p)
          BY <2>1 DEF NoneAfter
        <4>3. n + 1 \in 1..n + 1
          BY <2>1
        <4> QED
          BY <4>1, <4>2, <4>3
      <3>3. CASE p \notin DOMAIN new
        <4>1. p \in Leaves(w) /\ m[p] = w[p] /\ \A q \in Parents(p) : q \notin Leaves(new)
          BY <3>1, <3>3, LeavesAre
        <4>2. CASE p \in Leaves(t) /\ w[p] = t[p]
          BY <4>1, <4>2
        <4>3. CASE \E i \in 1..n : p \in Leaves(docs[i]) /\ w[p] = docs[i][p] /\ NoneAfter(docs, n, i, p)
          <5>1. PICK i \in 1..n : p \in Leaves(docs[i]) /\ w[p] = docs[i][p] /\ NoneAfter(docs, n, i, p)
            BY <4>3
          <5>2. \A j \in i + 1..n + 1 : j \in i + 1..n \/ j = n + 1
            BY <2>1
          <5>3. NoneAfter(docs, n + 1, i, p)
            BY <3>3, <4>1, <5>1, <5>2 DEF NoneAfter
          <5>4. i \in 1..n + 1
            BY <2>1
          <5> QED
            BY <4>1, <5>1, <5>3, <5>4
        <4> QED
          BY <2>3, <4>1, <4>2, <4>3 DEF From
      <3> QED
        BY <3>2, <3>3
    <2> QED
      BY <2>1, <2>5, <2>6, <2>7, <2>8
  <1>5. \A n \in 0..N : n \in good
    <2> HIDE DEF good
    <2> QED
      BY <1>2, <1>3, <1>4, Climb
  <1>6. Good(N)
    BY <1>2, <1>5
  <1> QED
    BY <1>1, <1>6 DEF N

LEMMA TaggedIs ==
    ASSUME NEW t, IsTree(t), NEW n, NEW i
    PROVE  LET u == Tagged(t, n, i)
           IN /\ IsTree(u) /\ DOMAIN u = DOMAIN t /\ Leaves(u) = Leaves(t)
              /\ \A p \in Leaves(t) : u[p] = [val |-> t[p].val, load |-> n, place |-> i]
              /\ Reaches(t, EnvPath) => Reaches(u, EnvPath)
              /\ Quiet(t) => Quiet(u)
  <1> DEFINE u == Tagged(t, n, i)
             V(p) == [val |-> t[p].val, load |-> n, place |-> i]
  <1>1. u = [p \in DOMAIN t |-> IF t[p] = Branch THEN Branch ELSE V(p)]
    BY DEF Tagged
  <1>2. \A p : V(p) # Branch
    BY ValuesAreLeaves
  <1> HIDE DEF u, V
  <1>3. DOMAIN u = DOMAIN t /\ \A p \in DOMAIN t : u[p] = IF t[p] = Branch THEN Branch ELSE V(p)
    BY <1>1
  <1>4. \A p : p \in Leaves(u) <=> p \in Leaves(t)
    BY <1>2, <1>3, LeavesAre
  <1>5. Leaves(u) = Leaves(t)
    BY <1>4
  <1>6. IsTree(u)
    <2>1. u = [p \in DOMAIN u |-> u[p]]
      BY <1>1
    <2> QED
      BY <1>3, <2>1, TreeIs DEF IsTree
  <1>7. \A p \in Leaves(t) : u[p] = V(p)
    BY <1>3, LeavesAre
  <1>8. Reaches(t, EnvPath) => Reaches(u, EnvPath)
    BY <1>2, <1>3 DEF Reaches
  <1>9. Quiet(t) => Quiet(u)
    BY <1>3 DEF Quiet
  <1> QED
    BY <1>3, <1>5, <1>6, <1>7, <1>8, <1>9 DEF u, V

SourcesHold ==
    /\ file \in Files /\ dotenv \in DotEnvs /\ secrets \in Secrets
    /\ environ \subseteq Vars /\ IsFiniteSet(environ)

LEMMA ListIs ==
    ASSUME NEW N \in Nat, NEW s, s = [i \in 1..N |-> s[i]]
    PROVE  s \in Seq({s[i] : i \in 1..N}) /\ Len(s) = N /\ DOMAIN s = 1..N
  <1> DEFINE R == {s[i] : i \in 1..N}
  <1>1. \A i \in 1..N : s[i] \in R
    OBVIOUS
  <1> HIDE DEF R
  <1>2. s \in [1..N -> R]
    BY <1>1
  <1>3. s \in Seq(R) /\ Len(s) = N /\ DOMAIN s = 1..N
    BY <1>2
  <1> QED
    BY <1>3 DEF R

LEMMA VarsAre ==
    /\ \A var \in Vars : IsPath(var.path)
    /\ \A vars \in DotEnvs \cup Environs : vars \subseteq Vars /\ IsFiniteSet(vars)
  BY ConfigAssumption DEF ConfigAssumption, Vars

LEMMA FetchedIs ==
    ASSUME NEW ss \in Secrets, \A i \in DOMAIN ss : ~Undecodable(ss[i])
    PROVE  /\ IsTree(Fetched(ss))
           /\ (\A i \in DOMAIN ss : Reaches(decodeSecret(ss[i]), EnvPath)) => Reaches(Fetched(ss), EnvPath)
           /\ (\A i \in DOMAIN ss : Quiet(decodeSecret(ss[i]))) => Quiet(Fetched(ss))
  <1> DEFINE N == Len(ss)
             docs == [i \in DOMAIN ss |-> decodeSecret(ss[i])]
  <1>1. /\ ss \in Seq({ss[i] : i \in DOMAIN ss})
        /\ \A i \in DOMAIN ss : /\ IsPath(ss[i].key) \/ ss[i].key = << >>
                                /\ ss[i].raw = NoRaw => IsTree(ss[i].root)
    BY ConfigAssumption DEF ConfigAssumption
  <1>2. N \in Nat /\ DOMAIN ss = 1..N
    BY <1>1
  <1>3. \A i \in 1..N : docs[i] = decodeSecret(ss[i])
    BY <1>2
  <1>4. docs = [i \in 1..N |-> docs[i]]
    BY <1>2
  <1> HIDE DEF docs, N
  <1>5. Len(docs) = N
    BY <1>2, <1>4, ListIs
  <1>6. \A i \in 1..Len(docs) : IsTree(docs[i])
    BY <1>1, <1>2, <1>3, <1>5, decodeSecretIs
  <1> DEFINE m == MergeInto(NoTree, docs)
  <1>7. /\ IsTree(m)
        /\ (\A i \in 1..Len(docs) : Reaches(docs[i], EnvPath)) => Reaches(m, EnvPath)
        /\ (\A i \in 1..Len(docs) : Quiet(docs[i])) => Quiet(m)
    BY <1>2, <1>5, <1>6, NoTreeIs, MergeIntoIs
  <1>8. Fetched(ss) = m
    BY DEF Fetched, docs
  <1> HIDE DEF m
  <1> QED
    BY <1>2, <1>3, <1>5, <1>7, <1>8

\* What a provider returns, and the environment it leaves.
LEMMA loadValuesIs ==
    ASSUME SourcesHold, NEW k \in Providers, NEW r \in loadValues(k)
    PROVE  /\ IsTree(r[1])
           /\ r[2] \subseteq Vars /\ IsFiniteSet(r[2])
           /\ EnvIsLeftAlone => Reaches(r[1], EnvPath) /\ (k = Added => Quiet(r[1]))
  <1>1. ASSUME NEW vars, vars \subseteq Vars, IsFiniteSet(vars), NEW t \in ParseVariables(vars)
        PROVE  /\ IsTree(t)
               /\ EnvIsLeftAlone => Reaches(t, EnvPath) /\ (Added \in {"env", "dotenv"} => Quiet(t))
    <2>1. \A var \in vars : IsPath(var.path)
      BY <1>1, VarsAre
    <2>2. /\ IsTree(t)
          /\ (\A var \in vars : var.path \notin Parents(EnvPath)) => Reaches(t, EnvPath)
          /\ (\A var \in vars : Apart(var.path)) => Quiet(t)
      BY <1>1, <2>1, ParseVariablesIs
    <2> QED
      BY <1>1, <2>2 DEF EnvIsLeftAlone
  <1>2. environ \subseteq Vars /\ IsFiniteSet(environ) /\ dotenv \subseteq Vars /\ IsFiniteSet(dotenv)
    BY VarsAre DEF SourcesHold
  <1>3. Exported(dotenv) \subseteq Vars /\ IsFiniteSet(Exported(dotenv))
    <2> DEFINE kept == {var \in environ : \A new \in Safe(dotenv) : new.path # var.path}
    <2>1. kept \subseteq environ /\ Safe(dotenv) \subseteq dotenv
      BY DEF Safe
    <2> HIDE DEF kept
    <2>2. IsFiniteSet(kept) /\ IsFiniteSet(Safe(dotenv))
      BY <1>2, <2>1, FS_Subset
    <2>3. IsFiniteSet(kept \cup Safe(dotenv)) /\ kept \cup Safe(dotenv) \subseteq Vars
      BY <1>2, <2>1, <2>2, FS_Union
    <2> QED
      BY <2>3 DEF Exported, kept
  <1>4. CASE k = "env"
    <2>1. r \in ParseVariables(environ) \X {environ}
      BY <1>4 DEF loadValues, LoadEnv
    <2>2. r[1] \in ParseVariables(environ) /\ r[2] = environ
      BY <2>1
    <2> QED
      BY <1>1, <1>2, <1>4, <2>2
  <1>5. CASE k = "dotenv"
    <2>1. r \in ParseVariables(dotenv) \X {IF AppendToOSEnv THEN Exported(dotenv) ELSE environ}
      BY <1>5 DEF loadValues, LoadDotEnv
    <2>2. r[1] \in ParseVariables(dotenv) /\ r[2] \in {Exported(dotenv), environ}
      BY <2>1
    <2> QED
      BY <1>1, <1>2, <1>3, <1>5, <2>2
  <1>6. CASE k = "json"
    <2>1. r[1] = file /\ r[2] = environ
      BY <1>6 DEF loadValues, LoadJSON
    <2>2. IsTree(file) /\ file \in Files
      BY ConfigAssumption DEF ConfigAssumption, SourcesHold
    <2> QED
      BY <1>2, <1>6, <2>1, <2>2 DEF EnvIsLeftAlone
  <1>7. CASE k = "secrets"
    <2>1. /\ \A i \in DOMAIN secrets : ~Undecodable(secrets[i])
          /\ r[1] = Fetched(secrets) /\ r[2] = environ
      BY <1>7 DEF loadValues, LoadSecrets
    <2>2. secrets \in Secrets
      BY DEF SourcesHold
    <2>3. /\ IsTree(Fetched(secrets))
          /\ (\A i \in DOMAIN secrets : Reaches(decodeSecret(secrets[i]), EnvPath)) => Reaches(Fetched(secrets), EnvPath)
          /\ (\A i \in DOMAIN secrets : Quiet(decodeSecret(secrets[i]))) => Quiet(Fetched(secrets))
      BY <2>1, <2>2, FetchedIs
    <2>4. EnvIsLeftAlone => /\ \A i \in DOMAIN secrets : Reaches(decodeSecret(secrets[i]), EnvPath)
                            /\ k = Added => \A i \in DOMAIN secrets : Quiet(decodeSecret(secrets[i]))
      BY <1>7, <2>1, <2>2 DEF EnvIsLeftAlone
    <2> QED
      BY <1>2, <2>1, <2>3, <2>4
  <1> QED
    BY <1>4, <1>5, <1>6, <1>7 DEF Providers

IsList(s) == Len(s) \in Nat /\ s = [i \in 1..Len(s) |-> s[i]]

LEMMA ListGrows ==
    ASSUME NEW s, IsList(s), NEW e
    PROVE  LET u == Append(s, e)
           IN /\ IsList(u) /\ Len(u) = Len(s) + 1 /\ u[Len(s) + 1] = e
              /\ \A i \in 1..Len(s) : u[i] = s[i]
  <1> DEFINE N == Len(s)
             R == {s[i] : i \in 1..N} \cup {e}
             u == Append(s, e)
  <1>1. N \in Nat /\ s \in Seq({s[i] : i \in 1..N})
    BY ListIs DEF IsList
  <1>2. s \in Seq(R) /\ e \in R
    BY <1>1
  <1> HIDE DEF R
  <1>3. /\ u \in Seq(R) /\ Len(u) = N + 1 /\ u[N + 1] = e
        /\ \A i \in 1..N : u[i] = s[i]
    BY <1>1, <1>2
  <1> HIDE DEF u
  <1>4. IsList(u)
    BY <1>3 DEF IsList
  <1> QED
    BY <1>3, <1>4 DEF u

LEMMA NothingIs == IsList(<< >>) /\ Len(<< >>) = 0 /\ DOMAIN << >> = {}
  <1>1. << >> \in Seq({}) /\ Len(<< >>) = 0 /\ DOMAIN << >> = 1..0
    OBVIOUS
  <1> QED
    BY <1>1 DEF IsList

(***************************************************************************)
(* The invariant                                                           *)
(***************************************************************************)
\* Trees a load has read.
Read(ts) ==
    /\ IsList(ts)
    /\ \A i \in 1..Len(ts) : IsTree(ts[i]) /\ (EnvIsLeftAlone => Reaches(ts[i], EnvPath))

LeavesHold == loads \in Nat /\ IsTree(values) /\ \A p \in Leaves(values) : values[p].load \in 0..loads
LoadsHold ==
    /\ IsList(history) /\ Len(history) = loads
    /\ ats["boot"] \in {"snapshot", "reading"} => loads > 0 /\ history[loads] = << >>
ReadersHold ==
    /\ ats \in [Loaders -> {"idle", "snapshot", "reading", "post", "resolve", "merge", "done"}]
    /\ registered \in Seq(Providers) /\ left["boot"] \in Seq(Providers)
    /\ left = [t \in Loaders |-> left[t]] /\ loaded = [t \in Loaders |-> loaded[t]]
    /\ \A t \in Loaders : Read(loaded[t])
    /\ ats["adder"] = "merge" =>
          Len(loaded["adder"]) = 1 /\ (EnvIsLeftAlone => Quiet(loaded["adder"][1]))
StoreInv == LeavesHold /\ LoadsHold /\ ReadersHold /\ SourcesHold /\ OneLoadLands

\* A step that merges no load: a leaf is one there was or is of no load.
LEMMA LandedStay ==
    ASSUME LeavesHold, OneLoadLands, loads' \in Nat, loads <= loads',
           \A n \in 1..loads : history'[n] = history[n],
           \A p \in Leaves(values') : \/ p \in Leaves(values) /\ values'[p] = values[p]
                                      \/ values'[p].load = 0
    PROVE  OneLoadLands' /\ \A p \in Leaves(values') : values'[p].load \in 0..loads'
  <1>1. ASSUME NEW p \in Leaves(values') PROVE values'[p].load \in 0..loads'
    BY <1>1 DEF LeavesHold
  <1>2. ASSUME NEW p \in Leaves(values'), values'[p].load > 0
        PROVE  /\ values'[p].place \in DOMAIN history'[values'[p].load]
               /\ \A i \in DOMAIN history'[values'[p].load] : i > values'[p].place =>
                     /\ p \notin DOMAIN history'[values'[p].load][i]
                     /\ \A q \in Parents(p) : q \notin Leaves(history'[values'[p].load][i])
    <2>1. p \in Leaves(values) /\ values'[p] = values[p]
      BY <1>2
    <2> DEFINE v == values[p]
    <2>2. v.load \in 1..loads
      BY <1>2, <2>1 DEF LeavesHold
    <2>3. history'[v.load] = history[v.load]
      BY <2>2
    <2>4. v.load > 0
      BY <2>2 DEF LeavesHold
    <2>5. /\ v.place \in DOMAIN history[v.load]
          /\ \A i \in DOMAIN history[v.load] : i > v.place =>
                /\ p \notin DOMAIN history[v.load][i]
                /\ \A q \in Parents(p) : q \notin Leaves(history[v.load][i])
      BY <2>1, <2>4 DEF OneLoadLands
    <2> QED
      BY <2>1, <2>3, <2>5
  <1>3. OneLoadLands'
    BY <1>2 DEF OneLoadLands
  <1> QED
    BY <1>1, <1>3

LEMMA OwnIs == \A x : Own(x) # Branch /\ Own(x).load = 0 /\ Own(x).val = x
  BY ValuesAreLeaves DEF Own

LEMMA StoreStarts == ConfigInit => StoreInv
  <1> SUFFICES ASSUME ConfigInit PROVE StoreInv
    OBVIOUS
  <1> USE DEF ConfigInit
  <1>1. Leaves(values) = {}
    BY NoTreeIs DEF Leaves
  <1>2. LeavesHold /\ OneLoadLands
    BY <1>1, NoTreeIs DEF LeavesHold, OneLoadLands
  <1>3. LoadsHold
    BY NothingIs DEF LoadsHold, Loaders
  <1>4. ReadersHold
    <2>1. Read(<< >>)
      BY NothingIs DEF Read
    <2> QED
      BY <2>1, ConfigAssumption DEF ReadersHold, Loaders, ConfigAssumption
  <1>5. SourcesHold
    BY VarsAre DEF SourcesHold
  <1> QED
    BY <1>2, <1>3, <1>4, <1>5 DEF StoreInv

LEMMA PreLoadKeeps == StoreInv /\ PreLoad => StoreInv'
  <1> SUFFICES ASSUME StoreInv, PreLoad PROVE StoreInv'
    OBVIOUS
  <1>1. PICK os : values' = SetDefault(values, EnvPath, Own(os))
    BY DEF PreLoad
  <1>2. loads \in Nat /\ loads' = loads + 1 /\ IsList(history) /\ Len(history) = loads /\ IsTree(values)
    BY DEF PreLoad, StoreInv, LeavesHold, LoadsHold
  <1>3. IsPath(EnvPath)
    BY ConfigAssumption DEF ConfigAssumption
  <1>4. /\ IsList(history') /\ Len(history') = loads + 1 /\ history'[loads + 1] = << >>
        /\ \A n \in 1..loads : history'[n] = history[n]
    <2>1. history' = Append(history, << >>)
      BY DEF PreLoad
    <2> QED
      BY <1>2, <2>1, ListGrows
  <1>5. /\ IsTree(values')
        /\ \A p \in DOMAIN values' : \/ values'[p] = Own(os)
                                     \/ p \in DOMAIN values /\ values'[p] = values[p]
                                     \/ values'[p] = Branch
    BY <1>1, <1>2, <1>3, OwnIs, SetDefaultIs
  <1>6. \A p \in Leaves(values') : (p \in Leaves(values) /\ values'[p] = values[p]) \/ values'[p].load = 0
    BY <1>5, OwnIs, LeavesAre
  <1>7. LeavesHold' /\ OneLoadLands'
    BY <1>2, <1>4, <1>5, <1>6, LandedStay DEF StoreInv, LeavesHold
  <1>8. LoadsHold'
    BY <1>2, <1>4 DEF LoadsHold
  <1>9. ReadersHold'
    BY DEF PreLoad, AtC, StoreInv, ReadersHold, Loaders
  <1>10. SourcesHold'
    BY DEF PreLoad, StoreInv, SourcesHold, sourceVars
  <1> QED
    BY <1>7, <1>8, <1>9, <1>10 DEF StoreInv

LEMMA SnapshotKeeps == StoreInv /\ Snapshot => StoreInv'
  <1> SUFFICES ASSUME StoreInv, Snapshot PROVE StoreInv'
    OBVIOUS
  <1> USE DEF Snapshot, AtC, sourceVars, StoreInv
  <1>1. LeavesHold' /\ OneLoadLands'
    BY DEF LeavesHold, OneLoadLands
  <1>2. LoadsHold'
    BY DEF LoadsHold, ReadersHold, Loaders
  <1>3. ReadersHold'
    <2>1. Read(<< >>)
      BY NothingIs DEF Read
    <2> QED
      BY <2>1 DEF ReadersHold, Loaders
  <1>4. SourcesHold'
    BY DEF SourcesHold
  <1> QED
    BY <1>1, <1>2, <1>3, <1>4

LEMMA ReadGrows ==
    ASSUME NEW ts, Read(ts), NEW t, IsTree(t), EnvIsLeftAlone => Reaches(t, EnvPath)
    PROVE  Read(Append(ts, t))
  <1>1. Len(ts) \in Nat /\ IsList(ts)
    BY DEF Read, IsList
  <1> DEFINE u == Append(ts, t)
  <1>2. /\ IsList(u) /\ Len(u) = Len(ts) + 1 /\ u[Len(ts) + 1] = t
        /\ \A i \in 1..Len(ts) : u[i] = ts[i]
    BY <1>1, ListGrows
  <1> HIDE DEF u
  <1>3. \A i \in 1..Len(u) : i \in 1..Len(ts) \/ i = Len(ts) + 1
    BY <1>1, <1>2
  <1>4. Read(u)
    BY <1>1, <1>2, <1>3 DEF Read
  <1> QED
    BY <1>4 DEF u

LEMMA ReadOneKeeps == StoreInv /\ ReadOne => StoreInv'
  <1> SUFFICES ASSUME StoreInv, ReadOne PROVE StoreInv'
    OBVIOUS
  <1>1. Head(left["boot"]) \in Providers /\ Tail(left["boot"]) \in Seq(Providers)
    BY DEF StoreInv, ReadersHold, ReadOne
  <1>2. PICK r \in loadValues(Head(left["boot"])) :
            /\ environ' = r[2]
            /\ loaded' = [loaded EXCEPT !["boot"] = Append(@, r[1])]
            /\ values' = values
    BY DEF ReadOne, Shown
  <1>3. IsTree(r[1]) /\ r[2] \subseteq Vars /\ IsFiniteSet(r[2]) /\ (EnvIsLeftAlone => Reaches(r[1], EnvPath))
    BY <1>1, loadValuesIs DEF StoreInv
  <1>4. LeavesHold' /\ OneLoadLands'
    BY <1>2 DEF StoreInv, LeavesHold, OneLoadLands, ReadOne
  <1>5. LoadsHold'
    BY DEF StoreInv, LoadsHold, ReadOne
  <1>6. ReadersHold'
    <2>1. Read(loaded["boot"])
      BY DEF StoreInv, ReadersHold, Loaders
    <2>2. Read(Append(loaded["boot"], r[1]))
      BY <1>3, <2>1, ReadGrows
    <2>3. /\ loaded' = [t \in Loaders |-> IF t = "boot" THEN Append(loaded["boot"], r[1]) ELSE loaded[t]]
          /\ left' = [t \in Loaders |-> IF t = "boot" THEN Tail(left["boot"]) ELSE left[t]]
      BY <1>2 DEF StoreInv, ReadersHold, Loaders, ReadOne
    <2>4. /\ \A t \in Loaders : Read(loaded'[t])
          /\ loaded'["adder"] = loaded["adder"] /\ left'["boot"] = Tail(left["boot"])
      BY <2>2, <2>3 DEF StoreInv, ReadersHold, Loaders
    <2>5. left' = [t \in Loaders |-> left'[t]] /\ loaded' = [t \in Loaders |-> loaded'[t]]
      BY <2>3
    <2> QED
      BY <1>1, <2>4, <2>5 DEF StoreInv, ReadersHold, ReadOne
  <1>7. SourcesHold'
    BY <1>2, <1>3 DEF StoreInv, SourcesHold, ReadOne
  <1> QED
    BY <1>4, <1>5, <1>6, <1>7 DEF StoreInv

LEMMA ReadFailsKeeps == StoreInv /\ ReadFails => StoreInv'
  <1> SUFFICES ASSUME StoreInv, ReadFails PROVE StoreInv'
    OBVIOUS
  <1> USE DEF ReadFails, AtC, sourceVars, StoreInv
  <1>1. LeavesHold' /\ OneLoadLands'
    BY DEF LeavesHold, OneLoadLands
  <1>2. LoadsHold'
    BY DEF LoadsHold, ReadersHold, Loaders
  <1>3. ReadersHold'
    BY DEF ReadersHold, Loaders
  <1>4. SourcesHold'
    BY DEF SourcesHold
  <1> QED
    BY <1>1, <1>2, <1>3, <1>4

LEMMA PostLoadReadsKeeps == StoreInv /\ PostLoadReads => StoreInv'
  <1> SUFFICES ASSUME StoreInv, PostLoadReads PROVE StoreInv'
    OBVIOUS
  <1> USE DEF PostLoadReads, AtC, sourceVars, StoreInv
  <1>1. LeavesHold' /\ OneLoadLands'
    BY DEF LeavesHold, OneLoadLands
  <1>2. LoadsHold'
    BY DEF LoadsHold, ReadersHold, Loaders
  <1>3. ReadersHold'
    BY DEF ReadersHold, Loaders
  <1>4. SourcesHold'
    BY DEF SourcesHold
  <1> QED
    BY <1>1, <1>2, <1>3, <1>4

LEMMA PostLoadSetsKeeps == StoreInv /\ PostLoadSets => StoreInv'
  <1> SUFFICES ASSUME StoreInv, PostLoadSets PROVE StoreInv'
    OBVIOUS
  <1>1. IsTree(values) /\ loads \in Nat /\ loads' = loads /\ history' = history
    BY DEF StoreInv, LeavesHold, PostLoadSets
  <1>2. IsPath(EnvPath)
    BY ConfigAssumption DEF ConfigAssumption
  <1> DEFINE v == Own(resolved.env)
  <1>3. /\ IsTree(values')
        /\ \A p \in DOMAIN values' : \/ values'[p] = v
                                     \/ p \in DOMAIN values /\ values'[p] = values[p]
                                     \/ values'[p] = Branch
    <2>1. CASE resolved.set
      <3>1. values' = Set(values, EnvPath, v)
        BY <2>1 DEF PostLoadSets
      <3> QED
        BY <1>1, <1>2, <3>1, OwnIs, SetIs
    <2>2. CASE ~resolved.set
      BY <1>1, <2>2 DEF PostLoadSets
    <2> QED
      BY <2>1, <2>2
  <1>4. \A p \in Leaves(values') : (p \in Leaves(values) /\ values'[p] = values[p]) \/ values'[p].load = 0
    BY <1>3, OwnIs, LeavesAre
  <1>5. LeavesHold' /\ OneLoadLands'
    BY <1>1, <1>3, <1>4, LandedStay DEF StoreInv, LeavesHold
  <1>6. LoadsHold'
    BY DEF PostLoadSets, AtC, StoreInv, LoadsHold, ReadersHold, Loaders
  <1>7. ReadersHold'
    BY DEF PostLoadSets, AtC, StoreInv, ReadersHold, Loaders
  <1>8. SourcesHold'
    BY DEF PostLoadSets, StoreInv, SourcesHold, sourceVars
  <1> QED
    BY <1>5, <1>6, <1>7, <1>8 DEF StoreInv

\* What a load merges: its trees, tagged.
LEMMA TaggedAre ==
    ASSUME NEW docs, Read(docs), NEW n
    PROVE  LET tagged == [i \in DOMAIN docs |-> Tagged(docs[i], n, i)]
           IN /\ Len(tagged) = Len(docs)
              /\ \A i \in 1..Len(docs) :
                    /\ tagged[i] = Tagged(docs[i], n, i)
                    /\ IsTree(tagged[i]) /\ (EnvIsLeftAlone => Reaches(tagged[i], EnvPath))
  <1> DEFINE N == Len(docs)
             tagged == [i \in DOMAIN docs |-> Tagged(docs[i], n, i)]
  <1>1. N \in Nat /\ DOMAIN docs = 1..N
    BY DEF Read, IsList
  <1>2. tagged = [i \in 1..N |-> tagged[i]] /\ \A i \in 1..N : tagged[i] = Tagged(docs[i], n, i)
    BY <1>1
  <1> HIDE DEF tagged
  <1>3. Len(tagged) = N
    BY <1>1, <1>2, ListIs
  <1>4. \A i \in 1..N : IsTree(docs[i]) /\ (EnvIsLeftAlone => Reaches(docs[i], EnvPath))
    BY DEF Read
  <1>5. \A i \in 1..N : IsTree(tagged[i]) /\ (EnvIsLeftAlone => Reaches(tagged[i], EnvPath))
    BY <1>2, <1>4, TaggedIs
  <1> QED
    BY <1>2, <1>3, <1>5 DEF tagged

LEMMA MergeAllMerges ==
    ASSUME StoreInv, MergeAll
    PROVE  \E tagged :
              /\ values' = MergeInto(values, tagged)
              /\ Len(tagged) = Len(loaded["boot"]) /\ Len(tagged) \in Nat
              /\ \A i \in 1..Len(tagged) :
                    /\ tagged[i] = Tagged(loaded["boot"][i], loads, i)
                    /\ IsTree(tagged[i]) /\ (EnvIsLeftAlone => Reaches(tagged[i], EnvPath))
                    /\ IsTree(loaded["boot"][i])
  <1> DEFINE docs == loaded["boot"]
             tagged == [i \in DOMAIN docs |-> Tagged(docs[i], loads, i)]
  <1>1. Read(docs)
    BY DEF StoreInv, ReadersHold, Loaders
  <1>2. values' = MergeInto(values, tagged)
    BY DEF MergeAll, MergeOrder
  <1>3. /\ Len(tagged) = Len(docs)
        /\ \A i \in 1..Len(docs) :
              /\ tagged[i] = Tagged(docs[i], loads, i)
              /\ IsTree(tagged[i]) /\ (EnvIsLeftAlone => Reaches(tagged[i], EnvPath))
    BY <1>1, TaggedAre
  <1>4. Len(docs) \in Nat /\ \A i \in 1..Len(docs) : IsTree(docs[i])
    BY <1>1 DEF Read, IsList
  <1> HIDE DEF tagged
  <1> QED
    BY <1>2, <1>3, <1>4

LEMMA MergeAllKeeps == StoreInv /\ MergeAll => StoreInv'
  <1> SUFFICES ASSUME StoreInv, MergeAll PROVE StoreInv'
    OBVIOUS
  <1> DEFINE docs == loaded["boot"]
             N == Len(docs)
  <1>1. PICK tagged :
            /\ values' = MergeInto(values, tagged)
            /\ Len(tagged) = N /\ N \in Nat
            /\ \A i \in 1..N : /\ tagged[i] = Tagged(docs[i], loads, i)
                               /\ IsTree(tagged[i])
                               /\ IsTree(docs[i])
    BY MergeAllMerges
  <1>2. IsTree(values) /\ loads \in Nat /\ loads' = loads /\ loads > 0 /\ history[loads] = << >>
        /\ IsList(history) /\ Len(history) = loads /\ loads \in 1..Len(history)
    BY DEF StoreInv, LeavesHold, LoadsHold, MergeAll
  <1>3. IsTree(values') /\ From(values, tagged, N, values')
    BY <1>1, <1>2, MergeIntoIs
  <1>4. /\ IsList(history') /\ Len(history') = loads /\ history'[loads] = docs
        /\ \A i \in 1..loads : i # loads => history'[i] = history[i]
    <2>1. history' = [history EXCEPT ![loads] = docs]
      BY DEF MergeAll
    <2> HIDE DEF docs
    <2>2. loads \in Nat /\ history = [i \in 1..loads |-> history[i]] /\ loads \in 1..loads
      BY <1>2 DEF IsList
    <2>3. /\ history' = [i \in 1..loads |-> history'[i]] /\ history'[loads] = docs
          /\ \A i \in 1..loads : i # loads => history'[i] = history[i]
      BY <2>1, <2>2
    <2>4. Len(history') = loads
      BY <2>2, <2>3, ListIs
    <2> QED
      BY <2>2, <2>3, <2>4 DEF IsList
  <1>5. DOMAIN docs = 1..N
    BY DEF StoreInv, ReadersHold, Loaders, Read, IsList
  <1> HIDE DEF docs, N
  <1>6. ASSUME NEW p \in Leaves(values')
        PROVE  /\ values'[p].load \in 0..loads
               /\ LET v == values'[p] IN
                     v.load > 0 =>
                        /\ v.place \in DOMAIN history'[v.load]
                        /\ \A i \in DOMAIN history'[v.load] : i > v.place =>
                              /\ p \notin DOMAIN history'[v.load][i]
                              /\ \A q \in Parents(p) : q \notin Leaves(history'[v.load][i])
    <2> DEFINE v == values'[p]
    <2>1. CASE p \in Leaves(values) /\ v = values[p]
      <3>1. v.load \in 0..loads
        BY <2>1 DEF StoreInv, LeavesHold
      <3>2. v.load > 0 =>
              /\ v.place \in DOMAIN history[v.load]
              /\ \A i \in DOMAIN history[v.load] : i > v.place =>
                    /\ p \notin DOMAIN history[v.load][i]
                    /\ \A q \in Parents(p) : q \notin Leaves(history[v.load][i])
        BY <2>1 DEF StoreInv, OneLoadLands
      <3>3. v.load > 0 => v.load # loads
        BY <1>2, <3>2, NothingIs
      <3> HIDE DEF v
      <3>4. v.load > 0 => history'[v.load] = history[v.load]
        BY <1>2, <1>4, <3>1, <3>3
      <3> QED
        BY <3>1, <3>2, <3>4 DEF v
    <2>2. CASE \E i \in 1..N : p \in Leaves(tagged[i]) /\ v = tagged[i][p] /\ NoneAfter(tagged, N, i, p)
      <3>1. PICK i \in 1..N : p \in Leaves(tagged[i]) /\ v = tagged[i][p] /\ NoneAfter(tagged, N, i, p)
        BY <2>2
      <3>2. \A j \in 1..N : DOMAIN tagged[j] = DOMAIN docs[j] /\ Leaves(tagged[j]) = Leaves(docs[j])
        BY <1>1, TaggedIs
      <3>3. v = [val |-> docs[i][p].val, load |-> loads, place |-> i]
        BY <1>1, <3>1, <3>2, TaggedIs
      <3>4. v.load = loads /\ v.place = i
        BY <3>3
      <3> HIDE DEF v
      <3>5. history'[v.load] = docs
        BY <1>4, <3>4
      <3>6. ASSUME NEW j \in DOMAIN docs, j > i
            PROVE  p \notin DOMAIN docs[j] /\ \A q \in Parents(p) : q \notin Leaves(docs[j])
        <4>1. j \in i + 1..N /\ j \in 1..N
          BY <1>1, <1>5, <3>6
        <4>2. p \notin DOMAIN tagged[j] /\ \A q \in Parents(p) : q \notin Leaves(tagged[j])
          BY <3>1, <4>1 DEF NoneAfter
        <4> QED
          BY <3>2, <4>1, <4>2
      <3> QED
        BY <1>2, <1>5, <3>4, <3>5, <3>6 DEF v
    <2> QED
      BY <1>3, <2>1, <2>2 DEF From
  <1>7. LeavesHold'
    BY <1>2, <1>3, <1>6 DEF LeavesHold
  <1>8. OneLoadLands'
    BY <1>6 DEF OneLoadLands
  <1>9. LoadsHold'
    BY <1>2, <1>4 DEF MergeAll, AtC, StoreInv, LoadsHold, ReadersHold, Loaders
  <1>10. ReadersHold'
    BY DEF MergeAll, AtC, StoreInv, ReadersHold, Loaders
  <1>11. SourcesHold'
    BY DEF MergeAll, StoreInv, SourcesHold, sourceVars
  <1> QED
    BY <1>7, <1>8, <1>9, <1>10, <1>11 DEF StoreInv

LEMMA AddReadKeeps == StoreInv /\ AddRead => StoreInv'
  <1> SUFFICES ASSUME StoreInv, AddRead PROVE StoreInv'
    OBVIOUS
  <1>1. PICK r \in loadValues(Added) :
            environ' = r[2] /\ loaded' = [loaded EXCEPT !["adder"] = <<r[1]>>]
    BY DEF AddRead
  <1>2. Added \in Providers
    BY ConfigAssumption DEF ConfigAssumption
  <1>3. /\ IsTree(r[1]) /\ r[2] \subseteq Vars /\ IsFiniteSet(r[2])
        /\ EnvIsLeftAlone => Reaches(r[1], EnvPath) /\ Quiet(r[1])
    BY <1>2, loadValuesIs DEF StoreInv
  <1>4. LeavesHold' /\ OneLoadLands'
    BY DEF StoreInv, LeavesHold, OneLoadLands, AddRead
  <1>5. LoadsHold'
    BY DEF AddRead, AtC, StoreInv, LoadsHold, ReadersHold, Loaders
  <1>6. ReadersHold'
    <2>1. /\ \A t \in Loaders : loaded'[t] = IF t = "adder" THEN <<r[1]>> ELSE loaded[t]
          /\ loaded' = [t \in Loaders |-> loaded'[t]]
      BY <1>1 DEF StoreInv, ReadersHold, Loaders
    <2>2. Len(<<r[1]>>) = 1 /\ <<r[1]>>[1] = r[1]
      OBVIOUS
    <2>3. Read(<<r[1]>>)
      <3> DEFINE s == <<r[1]>>
      <3>1. s = [i \in 1..1 |-> s[i]]
        OBVIOUS
      <3>2. Len(s) = 1 /\ s[1] = r[1]
        BY <2>2
      <3> HIDE DEF s
      <3>3. Read(s)
        BY <1>3, <3>1, <3>2 DEF Read, IsList
      <3> QED
        BY <3>3 DEF s
    <2>4. \A t \in Loaders : Read(loaded'[t])
      BY <2>1, <2>3 DEF StoreInv, ReadersHold
    <2>5. loaded'["adder"] = <<r[1]>>
      BY <2>1 DEF Loaders
    <2>6. ats' \in [Loaders -> {"idle", "snapshot", "reading", "post", "resolve", "merge", "done"}]
      BY DEF AddRead, AtC, StoreInv, ReadersHold, Loaders
    <2>7. Len(loaded'["adder"]) = 1 /\ (EnvIsLeftAlone => Quiet(loaded'["adder"][1]))
      BY <1>3, <2>2, <2>5
    <2> QED
      BY <2>1, <2>4, <2>6, <2>7 DEF AddRead, StoreInv, ReadersHold
  <1>7. SourcesHold'
    BY <1>1, <1>3 DEF StoreInv, SourcesHold, AddRead
  <1> QED
    BY <1>4, <1>5, <1>6, <1>7 DEF StoreInv

LEMMA AddMergeKeeps == StoreInv /\ AddMerge => StoreInv'
  <1> SUFFICES ASSUME StoreInv, AddMerge PROVE StoreInv'
    OBVIOUS
  <1> DEFINE doc == loaded["adder"][1]
             src == Tagged(doc, 0, 0)
  <1>1. IsTree(doc)
    BY DEF StoreInv, ReadersHold, Loaders, Read, AddMerge
  <1>2. IsTree(src) /\ \A p \in Leaves(src) : src[p].load = 0
    <2>1. /\ IsTree(src) /\ Leaves(src) = Leaves(doc)
          /\ \A p \in Leaves(doc) : src[p] = [val |-> doc[p].val, load |-> 0, place |-> 0]
      BY <1>1, TaggedIs
    <2> HIDE DEF src, doc
    <2>3. ASSUME NEW p \in Leaves(src) PROVE src[p].load = 0
      <3>1. src[p] = [val |-> doc[p].val, load |-> 0, place |-> 0]
        BY <2>1, <2>3
      <3> QED
        BY <3>1
    <2> QED
      BY <2>1, <2>3
  <1>3. values' = Merge(values, src) /\ IsTree(values) /\ loads \in Nat /\ loads' = loads
        /\ history' = history
    BY DEF AddMerge, StoreInv, LeavesHold
  <1> HIDE DEF src
  <1>4. /\ IsTree(values')
        /\ \A p \in DOMAIN values' : p \in DOMAIN src \/ p \in DOMAIN values
        /\ \A p \in DOMAIN values' : values'[p] = IF p \in DOMAIN src THEN src[p] ELSE values[p]
    BY <1>2, <1>3, MergeIs
  <1>5. \A p \in Leaves(values') : (p \in Leaves(values) /\ values'[p] = values[p]) \/ values'[p].load = 0
    BY <1>2, <1>4, LeavesAre
  <1>6. LeavesHold' /\ OneLoadLands'
    BY <1>3, <1>4, <1>5, LandedStay DEF StoreInv, LeavesHold
  <1>7. LoadsHold'
    BY DEF AddMerge, AtC, StoreInv, LoadsHold, ReadersHold, Loaders
  <1>8. ReadersHold'
    BY ConfigAssumption DEF AddMerge, AtC, StoreInv, ReadersHold, Loaders, ConfigAssumption
  <1>9. SourcesHold'
    BY DEF AddMerge, StoreInv, SourcesHold, sourceVars
  <1> QED
    BY <1>6, <1>7, <1>8, <1>9 DEF StoreInv

LEMMA SetCalledKeeps == ASSUME NEW path \in Paths PROVE StoreInv /\ SetCalled(path) => StoreInv'
  <1> SUFFICES ASSUME StoreInv, SetCalled(path) PROVE StoreInv'
    OBVIOUS
  <1>1. IsTree(values) /\ loads \in Nat /\ loads' = loads /\ history' = history /\ IsPath(path)
    BY ConfigAssumption DEF SetCalled, StoreInv, LeavesHold, ConfigAssumption
  <1>2. PICK x : values' = Set(values, path, Own(x)) \/ values' = SetDefault(values, path, Own(x))
    BY DEF SetCalled
  <1>3. /\ IsTree(values')
        /\ \A p \in DOMAIN values' : \/ values'[p] = Own(x)
                                     \/ p \in DOMAIN values /\ values'[p] = values[p]
                                     \/ values'[p] = Branch
    <2>1. CASE values' = Set(values, path, Own(x))
      BY <1>1, <2>1, OwnIs, SetIs
    <2>2. CASE values' = SetDefault(values, path, Own(x))
      BY <1>1, <2>2, OwnIs, SetDefaultIs
    <2> QED
      BY <1>2, <2>1, <2>2
  <1>4. \A p \in Leaves(values') : (p \in Leaves(values) /\ values'[p] = values[p]) \/ values'[p].load = 0
    BY <1>3, OwnIs, LeavesAre
  <1>5. LeavesHold' /\ OneLoadLands'
    BY <1>1, <1>3, <1>4, LandedStay DEF StoreInv, LeavesHold
  <1>6. LoadsHold' /\ ReadersHold' /\ SourcesHold'
    BY DEF SetCalled, StoreInv, LoadsHold, ReadersHold, SourcesHold, sourceVars
  <1> QED
    BY <1>5, <1>6 DEF StoreInv

LEMMA SetDefaultsKeeps == StoreInv /\ SetDefaults => StoreInv'
  <1> SUFFICES ASSUME StoreInv, SetDefaults PROVE StoreInv'
    OBVIOUS
  <1>1. PICK t \in Files : values' = MergeWithoutOverride(values, Tagged(t, 0, 0))
    BY DEF SetDefaults
  <1> DEFINE src == Tagged(t, 0, 0)
  <1>2. IsTree(src) /\ \A p \in Leaves(src) : src[p].load = 0
    <2>1. IsTree(t)
      BY ConfigAssumption DEF ConfigAssumption
    <2>2. /\ IsTree(src) /\ Leaves(src) = Leaves(t)
          /\ \A p \in Leaves(t) : src[p] = [val |-> t[p].val, load |-> 0, place |-> 0]
      BY <2>1, TaggedIs
    <2> HIDE DEF src
    <2>3. ASSUME NEW p \in Leaves(src) PROVE src[p].load = 0
      <3>1. src[p] = [val |-> t[p].val, load |-> 0, place |-> 0]
        BY <2>2, <2>3
      <3> QED
        BY <3>1
    <2> QED
      BY <2>2, <2>3
  <1>3. IsTree(values) /\ loads \in Nat /\ loads' = loads /\ history' = history
    BY DEF SetDefaults, StoreInv, LeavesHold
  <1> HIDE DEF src
  <1>4. /\ IsTree(values')
        /\ \A p \in DOMAIN values : values'[p] = values[p]
        /\ \A p \in DOMAIN values' : p \in DOMAIN values \/ (p \in DOMAIN src /\ values'[p] = src[p])
    <2>1. values' = MergeWithoutOverride(values, src)
      BY <1>1 DEF src
    <2> QED
      BY <1>2, <1>3, <2>1, MergeWithoutOverrideIs
  <1>5. \A p \in Leaves(values') : (p \in Leaves(values) /\ values'[p] = values[p]) \/ values'[p].load = 0
    BY <1>2, <1>4, LeavesAre
  <1>6. LeavesHold' /\ OneLoadLands'
    BY <1>3, <1>4, <1>5, LandedStay DEF StoreInv, LeavesHold
  <1>7. LoadsHold' /\ ReadersHold' /\ SourcesHold'
    BY DEF SetDefaults, StoreInv, LoadsHold, ReadersHold, SourcesHold, sourceVars
  <1> QED
    BY <1>6, <1>7 DEF StoreInv

LEMMA EditedKeeps == StoreInv /\ (Edited \/ UNCHANGED storeVars) => StoreInv'
  <1> SUFFICES ASSUME StoreInv, Edited \/ UNCHANGED storeVars PROVE StoreInv'
    OBVIOUS
  <1> USE DEF Edited, storeVars, StoreInv
  <1>1. LeavesHold' /\ OneLoadLands'
    BY DEF LeavesHold, OneLoadLands
  <1>2. LoadsHold' /\ ReadersHold'
    BY DEF LoadsHold, ReadersHold
  <1>3. SourcesHold'
    BY DEF SourcesHold
  <1> QED
    BY <1>1, <1>2, <1>3

LEMMA StoreStays == StoreInv /\ [ConfigNext]_storeVars => StoreInv'
  <1> SUFFICES ASSUME StoreInv, [ConfigNext]_storeVars PROVE StoreInv'
    OBVIOUS
  <1> USE DEF ConfigNext
  <1>1. CASE PreLoad
    BY <1>1, PreLoadKeeps
  <1>2. CASE Snapshot
    BY <1>2, SnapshotKeeps
  <1>3. CASE ReadOne
    BY <1>3, ReadOneKeeps
  <1>4. CASE ReadFails
    BY <1>4, ReadFailsKeeps
  <1>5. CASE MergeAll
    BY <1>5, MergeAllKeeps
  <1>6. CASE PostLoadReads
    BY <1>6, PostLoadReadsKeeps
  <1>7. CASE PostLoadSets
    BY <1>7, PostLoadSetsKeeps
  <1>8. CASE AddRead
    BY <1>8, AddReadKeeps
  <1>9. CASE AddMerge
    BY <1>9, AddMergeKeeps
  <1>10. CASE SetDefaults
    BY <1>10, SetDefaultsKeeps
  <1>11. CASE Edited \/ UNCHANGED storeVars
    BY <1>11, EditedKeeps
  <1>12. CASE \E path \in Paths : SetCalled(path)
    BY <1>12, SetCalledKeeps
  <1> QED
    BY <1>1, <1>2, <1>3, <1>4, <1>5, <1>6, <1>7, <1>8, <1>9, <1>10, <1>11, <1>12

\* "Every provider is loaded before anything is merged": whatever other
\* goroutines merge and set meanwhile, no reader sees a value of a load beside
\* which a later provider of the same load has another, or a scalar above it.
THEOREM OneLoadLandsWhole == ConfigSpec => []OneLoadLands
  <1>1. StoreInv => OneLoadLands
    BY DEF StoreInv
  <1> QED
    BY <1>1, StoreStarts, StoreStays, PTL DEF ConfigSpec

(***************************************************************************)
(* The environment                                                         *)
(***************************************************************************)
EnvInv ==
    /\ Reaches(values, EnvPath)
    /\ ats["boot"] = "resolve" =>
          resolved.env \in AllowedEnvs /\ (~resolved.set => Get(values, EnvPath) = resolved.env)
    /\ EnvIsResolved

LEMMA EnvPathIs == IsPath(EnvPath) /\ \A q \in Parents(EnvPath) : q # EnvPath
  <1>1. IsPath(EnvPath)
    BY ConfigAssumption DEF ConfigAssumption
  <1> QED
    BY <1>1, ParentsAre

\* An environment that is allowed is a leaf of the tree.
LEMMA AllowedIsThere ==
    ASSUME NEW t, Get(t, EnvPath) \in AllowedEnvs
    PROVE  EnvPath \in Leaves(t) /\ Reaches(t, EnvPath)
  BY ConfigAssumption DEF Get, ConfigAssumption

LEMMA LeafIsGot ==
    ASSUME NEW t, Reaches(t, EnvPath), EnvPath \in Leaves(t)
    PROVE  Get(t, EnvPath) = t[EnvPath].val
  BY DEF Get

LEMMA EnvOfIs == \A v : EnvOf(v) \in AllowedEnvs
  BY ConfigAssumption DEF EnvOf, ConfigAssumption

\* A step of another goroutine leaves the environment as it was.
LEMMA EnvStays ==
    ASSUME EnvInv, Reaches(values', EnvPath),
           EnvPath \in Leaves(values) =>
              EnvPath \in DOMAIN values' /\ values'[EnvPath] = values[EnvPath],
           loads' = loads, history' = history, ats'["boot"] = ats["boot"],
           resolved' = resolved, currentEnv' = currentEnv
    PROVE  EnvInv'
  <1>1. Get(values, EnvPath) \in AllowedEnvs => Get(values', EnvPath) = Get(values, EnvPath)
    <2> SUFFICES ASSUME Get(values, EnvPath) \in AllowedEnvs
                 PROVE  Get(values', EnvPath) = Get(values, EnvPath)
      OBVIOUS
    <2>1. EnvPath \in Leaves(values) /\ Reaches(values, EnvPath)
      BY AllowedIsThere
    <2>2. EnvPath \in Leaves(values') /\ values'[EnvPath] = values[EnvPath]
      BY <2>1, LeavesAre
    <2> QED
      BY <2>1, <2>2, LeafIsGot
  <1>2. EnvIsResolved'
    BY <1>1 DEF EnvInv, EnvIsResolved
  <1> QED
    BY <1>1, <1>2 DEF EnvInv

LEMMA EnvStarts == ConfigInit => EnvInv
  <1> SUFFICES ASSUME ConfigInit PROVE EnvInv
    OBVIOUS
  <1> USE DEF ConfigInit
  <1>1. Reaches(values, EnvPath) /\ ats["boot"] = "idle"
    BY NoTreeIs DEF Loaders
  <1>2. EnvIsResolved
    BY DEF EnvIsResolved
  <1> QED
    BY <1>1, <1>2 DEF EnvInv

LEMMA PreLoadKeepsEnv == StoreInv /\ EnvInv /\ PreLoad => EnvInv'
  <1> SUFFICES ASSUME StoreInv, EnvInv, PreLoad PROVE EnvInv'
    OBVIOUS
  <1>1. PICK os : values' = SetDefault(values, EnvPath, Own(os))
    BY DEF PreLoad
  <1>2. IsTree(values)
    BY DEF StoreInv, LeavesHold
  <1>3. \A p \in DOMAIN values' : \/ p = EnvPath /\ values'[p] = Own(os)
                                  \/ p \in DOMAIN values /\ values'[p] = values[p]
                                  \/ p \in Parents(EnvPath) /\ values'[p] = Branch
    BY <1>1, <1>2, EnvPathIs, OwnIs, SetDefaultIs
  <1>4. Reaches(values', EnvPath)
    BY <1>3, EnvPathIs DEF EnvInv, Reaches
  <1>5. ats'["boot"] = "snapshot"
    BY DEF PreLoad, AtC, StoreInv, ReadersHold, Loaders
  <1>6. EnvIsResolved'
    BY <1>5 DEF EnvIsResolved
  <1> QED
    BY <1>4, <1>5, <1>6 DEF EnvInv

\* The steps of a load that change no value.
LEMMA LoadKeepsEnv == StoreInv /\ EnvInv /\ (Snapshot \/ ReadOne \/ ReadFails) => EnvInv'
  <1> SUFFICES ASSUME StoreInv, EnvInv, Snapshot \/ ReadOne \/ ReadFails PROVE EnvInv'
    OBVIOUS
  <1>1. values' = values /\ loads' = loads /\ history' = history
    BY DEF Snapshot, ReadOne, ReadFails, Shown
  <1>2. history[loads] = << >>
    BY DEF Snapshot, ReadOne, ReadFails, StoreInv, LoadsHold
  <1>3. ats'["boot"] # "resolve"
    BY DEF Snapshot, ReadOne, ReadFails, AtC, StoreInv, ReadersHold, Loaders
  <1>4. EnvIsResolved'
    BY <1>1, <1>2 DEF EnvIsResolved
  <1> QED
    BY <1>1, <1>3, <1>4 DEF EnvInv

LEMMA MergeAllKeepsEnv == EnvIsLeftAlone /\ StoreInv /\ EnvInv /\ MergeAll => EnvInv'
  <1> SUFFICES ASSUME EnvIsLeftAlone, StoreInv, EnvInv, MergeAll PROVE EnvInv'
    OBVIOUS
  <1>1. PICK tagged :
            /\ values' = MergeInto(values, tagged)
            /\ Len(tagged) \in Nat
            /\ \A i \in 1..Len(tagged) : IsTree(tagged[i]) /\ Reaches(tagged[i], EnvPath)
    BY MergeAllMerges
  <1>2. IsTree(values)
    BY DEF StoreInv, LeavesHold
  <1>3. Reaches(values', EnvPath)
    BY <1>1, <1>2, MergeIntoIs DEF EnvInv
  <1>4. ats'["boot"] = "post"
    BY DEF MergeAll, AtC, StoreInv, ReadersHold, Loaders
  <1>5. EnvIsResolved'
    BY <1>4 DEF EnvIsResolved
  <1> QED
    BY <1>3, <1>4, <1>5 DEF EnvInv

LEMMA PostLoadReadsKeepsEnv == StoreInv /\ EnvInv /\ PostLoadReads => EnvInv'
  <1> SUFFICES ASSUME StoreInv, EnvInv, PostLoadReads PROVE EnvInv'
    OBVIOUS
  <1> DEFINE v == Get(values, EnvPath)
  <1>1. values' = values
    BY DEF PostLoadReads
  <1>2. ats'["boot"] = "resolve"
    BY DEF PostLoadReads, AtC, StoreInv, ReadersHold, Loaders
  <1>3. resolved' = [env |-> EnvOf(v), set |-> EnvOf(v) # v]
    BY DEF PostLoadReads
  <1>4. Get(values', EnvPath) = v
    BY <1>1
  <1> HIDE DEF v
  <1>5. resolved'.env = EnvOf(v) /\ (~resolved'.set => EnvOf(v) = v)
    BY <1>3
  <1>6. EnvIsResolved'
    BY <1>2 DEF EnvIsResolved
  <1> QED
    BY <1>1, <1>2, <1>4, <1>5, <1>6, EnvOfIs DEF EnvInv

LEMMA PostLoadSetsKeepsEnv == StoreInv /\ EnvInv /\ PostLoadSets => EnvInv'
  <1> SUFFICES ASSUME StoreInv, EnvInv, PostLoadSets PROVE EnvInv'
    OBVIOUS
  <1> DEFINE e == resolved.env
  <1>1. Reaches(values, EnvPath) /\ IsTree(values)
    BY DEF EnvInv, StoreInv, LeavesHold
  <1>2. e \in AllowedEnvs /\ (~resolved.set => Get(values, EnvPath) = e)
    BY DEF EnvInv, PostLoadSets
  <1>3. /\ currentEnv' = e
        /\ values' = IF resolved.set THEN Set(values, EnvPath, Own(e)) ELSE values
    BY DEF PostLoadSets
  <1>4. Reaches(values', EnvPath) /\ Get(values', EnvPath) = e
    <2>1. CASE resolved.set
      <3>1. values' = Set(values, EnvPath, Own(e))
        BY <1>3, <2>1
      <3>2. /\ EnvPath \in DOMAIN values' /\ values'[EnvPath] = Own(e)
            /\ \A p \in DOMAIN values' : \/ p = EnvPath /\ values'[p] = Own(e)
                                         \/ p \in DOMAIN values /\ values'[p] = values[p]
                                         \/ p \in Parents(EnvPath) /\ values'[p] = Branch
        BY <1>1, <3>1, EnvPathIs, OwnIs, SetIs
      <3>3. Reaches(values', EnvPath)
        BY <1>1, <3>2, EnvPathIs DEF Reaches
      <3>4. EnvPath \in Leaves(values')
        BY <3>2, OwnIs, LeavesAre
      <3> QED
        BY <3>2, <3>3, <3>4, OwnIs, LeafIsGot
    <2>2. CASE ~resolved.set
      BY <1>1, <1>2, <1>3, <2>2
    <2> QED
      BY <2>1, <2>2
  <1>5. ats'["boot"] = "idle"
    BY DEF PostLoadSets, AtC, StoreInv, ReadersHold, Loaders
  <1>6. EnvIsResolved'
    BY <1>2, <1>3, <1>4 DEF EnvIsResolved
  <1> QED
    BY <1>4, <1>5, <1>6 DEF EnvInv

LEMMA AddMergeKeepsEnv == EnvIsLeftAlone /\ StoreInv /\ EnvInv /\ AddMerge => EnvInv'
  <1> SUFFICES ASSUME EnvIsLeftAlone, StoreInv, EnvInv, AddMerge PROVE EnvInv'
    OBVIOUS
  <1> DEFINE doc == loaded["adder"][1]
             src == Tagged(doc, 0, 0)
  <1>1. IsTree(doc) /\ Reaches(doc, EnvPath) /\ Quiet(doc)
    <2>1. /\ Read(loaded["adder"]) /\ Len(loaded["adder"]) = 1
          /\ EnvIsLeftAlone => Quiet(doc)
      BY DEF StoreInv, ReadersHold, Loaders, AddMerge
    <2>2. 1 \in 1..Len(loaded["adder"])
      BY <2>1
    <2> QED
      BY <2>1, <2>2 DEF Read
  <1>2. IsTree(src) /\ Reaches(src, EnvPath) /\ Quiet(src)
    BY <1>1, TaggedIs
  <1>3. IsTree(values) /\ values' = Merge(values, src) /\ Reaches(values, EnvPath)
    BY DEF StoreInv, LeavesHold, AddMerge, EnvInv
  <1> HIDE DEF src
  <1>4. /\ Reaches(values', EnvPath)
        /\ EnvPath \in DOMAIN values => EnvPath \in DOMAIN values' /\ values'[EnvPath] = values[EnvPath]
    BY <1>2, <1>3, MergeKeepsEnv
  <1>5. /\ loads' = loads /\ history' = history /\ ats'["boot"] = ats["boot"]
        /\ resolved' = resolved /\ currentEnv' = currentEnv
    BY DEF AddMerge, AtC, StoreInv, ReadersHold, Loaders
  <1> QED
    BY <1>4, <1>5, LeavesAre, EnvStays

LEMMA SetCalledKeepsEnv ==
    ASSUME NEW path \in Paths
    PROVE  StoreInv /\ EnvInv /\ SetCalled(path) => EnvInv'
  <1> SUFFICES ASSUME StoreInv, EnvInv, SetCalled(path) PROVE EnvInv'
    OBVIOUS
  <1>1. IsTree(values) /\ IsPath(path)
    BY ConfigAssumption DEF StoreInv, LeavesHold, ConfigAssumption
  <1>2. PICK x : values' = Set(values, path, Own(x)) \/ values' = SetDefault(values, path, Own(x))
    BY DEF SetCalled
  <1>3. path # EnvPath /\ path \notin Parents(EnvPath)
    BY DEF SetCalled, Under
  <1>4. /\ \A p \in DOMAIN values : p # path /\ path \notin Parents(p) =>
              p \in DOMAIN values' /\ values'[p] = values[p]
        /\ \A p \in DOMAIN values' : \/ p = path /\ values'[p] = Own(x)
                                     \/ p \in DOMAIN values /\ values'[p] = values[p]
                                     \/ p \in Parents(path) /\ values'[p] = Branch
    <2>1. CASE values' = Set(values, path, Own(x))
      BY <1>1, <2>1, OwnIs, SetIs
    <2>2. CASE values' = SetDefault(values, path, Own(x))
      BY <1>1, <2>2, OwnIs, SetDefaultIs
    <2> QED
      BY <1>2, <2>1, <2>2
  <1>5. Reaches(values', EnvPath)
    BY <1>3, <1>4 DEF EnvInv, Reaches
  <1>6. EnvPath \in DOMAIN values => EnvPath \in DOMAIN values' /\ values'[EnvPath] = values[EnvPath]
    BY <1>3, <1>4
  <1>7. /\ loads' = loads /\ history' = history /\ ats'["boot"] = ats["boot"]
        /\ resolved' = resolved /\ currentEnv' = currentEnv
    BY DEF SetCalled
  <1> QED
    BY <1>5, <1>6, <1>7, LeavesAre, EnvStays

LEMMA SetDefaultsKeepsEnv == EnvIsLeftAlone /\ StoreInv /\ EnvInv /\ SetDefaults => EnvInv'
  <1> SUFFICES ASSUME EnvIsLeftAlone, StoreInv, EnvInv, SetDefaults PROVE EnvInv'
    OBVIOUS
  <1>1. PICK t \in Files : values' = MergeWithoutOverride(values, Tagged(t, 0, 0))
    BY DEF SetDefaults
  <1> DEFINE src == Tagged(t, 0, 0)
  <1>2. IsTree(t) /\ Reaches(t, EnvPath)
    BY ConfigAssumption DEF ConfigAssumption, EnvIsLeftAlone
  <1>3. IsTree(src) /\ Reaches(src, EnvPath)
    BY <1>2, TaggedIs
  <1>4. IsTree(values) /\ values' = MergeWithoutOverride(values, src) /\ Reaches(values, EnvPath)
    BY <1>1 DEF StoreInv, LeavesHold, EnvInv
  <1> HIDE DEF src
  <1>5. /\ \A p \in DOMAIN values : p \in DOMAIN values' /\ values'[p] = values[p]
        /\ \A p \in DOMAIN values' : p \in DOMAIN values \/ (p \in DOMAIN src /\ values'[p] = src[p])
    BY <1>3, <1>4, MergeWithoutOverrideIs
  <1>6. Reaches(values', EnvPath)
    BY <1>3, <1>4, <1>5 DEF Reaches
  <1>7. /\ loads' = loads /\ history' = history /\ ats'["boot"] = ats["boot"]
        /\ resolved' = resolved /\ currentEnv' = currentEnv
    BY DEF SetDefaults
  <1> QED
    BY <1>5, <1>6, <1>7, LeavesAre, EnvStays

\* The steps that change neither the tree nor the load.
LEMMA OthersKeepEnv == StoreInv /\ EnvInv /\ (AddRead \/ Edited \/ UNCHANGED storeVars) => EnvInv'
  <1> SUFFICES ASSUME StoreInv, EnvInv, AddRead \/ Edited \/ UNCHANGED storeVars PROVE EnvInv'
    OBVIOUS
  <1>1. /\ values' = values /\ loads' = loads /\ history' = history /\ ats'["boot"] = ats["boot"]
        /\ resolved' = resolved /\ currentEnv' = currentEnv
    BY DEF AddRead, Edited, storeVars, AtC, StoreInv, ReadersHold, Loaders
  <1>2. Reaches(values', EnvPath)
    BY <1>1 DEF EnvInv
  <1> QED
    BY <1>1, <1>2, LeavesAre, EnvStays

LEMMA EnvKeeps == EnvIsLeftAlone /\ StoreInv /\ EnvInv /\ [ConfigNext]_storeVars => EnvInv'
  <1> SUFFICES ASSUME EnvIsLeftAlone, StoreInv, EnvInv, [ConfigNext]_storeVars PROVE EnvInv'
    OBVIOUS
  <1> USE DEF ConfigNext
  <1>1. CASE PreLoad
    BY <1>1, PreLoadKeepsEnv
  <1>2. CASE Snapshot \/ ReadOne \/ ReadFails
    BY <1>2, LoadKeepsEnv
  <1>3. CASE MergeAll
    BY <1>3, MergeAllKeepsEnv
  <1>4. CASE PostLoadReads
    BY <1>4, PostLoadReadsKeepsEnv
  <1>5. CASE PostLoadSets
    BY <1>5, PostLoadSetsKeepsEnv
  <1>6. CASE AddMerge
    BY <1>6, AddMergeKeepsEnv
  <1>7. CASE SetDefaults
    BY <1>7, SetDefaultsKeepsEnv
  <1>8. CASE \E path \in Paths : SetCalled(path)
    BY <1>8, SetCalledKeepsEnv
  <1>9. CASE AddRead \/ Edited \/ UNCHANGED storeVars
    BY <1>9, OthersKeepEnv
  <1> QED
    BY <1>1, <1>2, <1>3, <1>4, <1>5, <1>6, <1>7, <1>8, <1>9

\* Whatever goroutines load, add a provider and set keys of their own at once:
\* what a reader sees is of whole loads, and after a load the config and the
\* extension name the same environment, one that is allowed, as long as no
\* document has a scalar above its key and what LoadProvider adds has nothing
\* at the key.
THEOREM ConfigIsHeld ==
    ASSUME EnvIsLeftAlone
    PROVE  ConfigSpec => []ConfigHolds
  <1>1. ConfigInit => StoreInv /\ EnvInv
    BY StoreStarts, EnvStarts
  <1>2. StoreInv /\ EnvInv /\ [ConfigNext]_storeVars => (StoreInv /\ EnvInv)'
    BY StoreStays, EnvKeeps
  <1>3. StoreInv /\ EnvInv => ConfigHolds
    BY DEF StoreInv, EnvInv, ConfigHolds
  <1> QED
    BY <1>1, <1>2, <1>3, PTL DEF ConfigSpec
=============================================================================
