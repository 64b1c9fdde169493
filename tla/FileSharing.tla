----------------------------- MODULE FileSharing -----------------------------
(***************************************************************************)
(* The api-server example's files and shares services: a file is an object *)
(* in storage and a row in the database, with a cache in front of both and *)
(* presigned URLs that end. Requests run side by side, any call they make  *)
(* may fail, and the cache may lose an entry whenever it likes. One tick   *)
(* is a minute; the lifetimes are scaled down in the configurations.       *)
(***************************************************************************)
EXTENDS Integers, Sequences, FiniteSets

CONSTANTS
    SharedFiles,         \* uploads, each of one user
    Users,
    OwnerOf,       \* per file, the user who uploads it
    RequestSlots,  \* requests served at a time
    UrlTicks,      \* lifetime of a presigned URL (15 minutes)
    UrlCacheTicks, \* how long one is cached (14 minutes)
    FileCacheTicks,\* how long a file's metadata is (5 minutes)
    RequestTicks,  \* longest a request takes
    ShareHours,    \* expires_in_hours of a share, 0 for never
    MaxShareClock, MaxShareRequests, MaxShareFaults

ASSUME FileSharingAssumption ==
    /\ OwnerOf \in [SharedFiles -> Users] /\ ShareHours \subseteq Nat
    /\ {UrlTicks, UrlCacheTicks, FileCacheTicks, RequestTicks} \subseteq Nat
    /\ UrlCacheTicks > 0 /\ UrlCacheTicks + RequestTicks <= UrlTicks

VARIABLES
    minute,    \* the clock
    fileRows,      \* files with a row
    objects,   \* files with an object in storage
    shares,    \* per file, the expiry of its share, Never, or 0 for no share
    cached,    \* the cache: per key, [until, url]
    serving,   \* per slot, the request it serves
    rowEnded,  \* per file, when its row was deleted, 0 before
    unstored,  \* files a request has told storage to delete
    served, shareFaults

shareVars == <<minute, fileRows, objects, shares, cached, serving, rowEnded, unstored, served, shareFaults>>

Never == MaxShareClock + 1
Absent == [until |-> 0, url |-> 0]
Idle == [kind |-> "none", user |-> "none", file |-> "none", left |-> << >>,
         since |-> 0, url |-> 0, status |-> 0, at |-> 0]

\* What each handler does, in order.
UploadSteps == <<"put", "insert">>
StepsOf ==
    [upload |-> UploadSteps, get |-> <<"cache", "row", "fill">>,
     download |-> <<"cache", "row", "presign", "fill">>, delete |-> <<"row", "unstore", "unrow", "evict">>,
     share |-> <<"row", "create">>, lookup |-> <<"cache", "row", "presign", "fill">>]

\* userCacheKey: an entry serves the user it was made for. A share's is its
\* token's. Fault: a file's entry serves everyone.
CacheKey_shared(kind, user, file) == <<kind, "any", file>>
CacheKey(kind, user, file) == <<kind, IF kind = "lookup" THEN "any" ELSE user, file>>

\* How long an answer is cached.
CachedFor(kind) == IF kind = "get" THEN FileCacheTicks ELSE UrlCacheTicks

ShareInit ==
    /\ minute = 1 /\ fileRows = {} /\ objects = {} /\ shares = [f \in SharedFiles |-> 0]
    /\ cached = [k \in {} |-> Absent] /\ serving = [r \in RequestSlots |-> Idle]
    /\ rowEnded = [f \in SharedFiles |-> 0] /\ unstored = {} /\ served = 0 /\ shareFaults = 0

Entry(key) == IF key \in DOMAIN cached THEN cached[key] ELSE Absent
Active(r) == serving[r].left # << >>

ShareFault == shareFaults < MaxShareFaults /\ shareFaults' = shareFaults + 1
NoShareFault == shareFaults' = shareFaults

\* The step is done: on to the next, or an answer with this status.
GoesOn(r) == serving' = [serving EXCEPT ![r].left = Tail(@)]
Answers(r, status, url) ==
    serving' = [serving EXCEPT ![r] = [@ EXCEPT !.left = << >>, !.status = status, !.url = url, !.at = minute]]
NextOr(r, status) ==
    IF Len(serving[r].left) = 1 THEN Answers(r, status, serving[r].url) ELSE GoesOn(r)

TakesRequest(r, kind, user, file) ==
    /\ ~Active(r) /\ served < MaxShareRequests /\ served' = served + 1
    /\ kind = "upload" => user = OwnerOf[file] /\ rowEnded[file] = 0 /\ file \notin fileRows \cup objects
                          /\ \A q \in RequestSlots : serving[q].kind = "upload" => serving[q].file # file
    /\ kind = "lookup" => shares[file] # 0 \/ \E k \in DOMAIN cached : k[1] = "lookup" /\ k[3] = file
    /\ serving' = [serving EXCEPT ![r] = [Idle EXCEPT !.kind = kind, !.user = user, !.file = file,
                                                      !.left = StepsOf[kind], !.since = minute]]
    /\ UNCHANGED <<minute, fileRows, objects, shares, cached, rowEnded, unstored, shareFaults>>

At(r, step) == Active(r) /\ Head(serving[r].left) = step

\* A hit is the answer, whatever the database says by now. A cache that fails
\* is a miss.
ReadsCache(r) ==
    LET q == serving[r]  entry == Entry(CacheKey(q.kind, q.user, q.file)) IN
    /\ At(r, "cache")
    /\ \/ entry.until > minute /\ Answers(r, 200, entry.url) /\ NoShareFault
       \/ entry.until <= minute /\ GoesOn(r) /\ NoShareFault
       \/ entry.until > minute /\ GoesOn(r) /\ ShareFault
    /\ UNCHANGED <<minute, fileRows, objects, shares, cached, rowEnded, unstored, served>>

\* GetShareByToken joins the file's row; a share without one is not found.
ReadsShare(file) == shares[file] # 0 /\ file \in fileRows
MakesShare(file, expiry) == file \in fileRows /\ shares' = [shares EXCEPT ![file] = expiry]

\* GetFileByID or GetShareByToken, the owner's check and the share's expiry.
ReadsRow(r) ==
    LET q == serving[r]
        found == IF q.kind = "lookup" THEN ReadsShare(q.file)
                 ELSE q.file \in fileRows /\ OwnerOf[q.file] = q.user
        gone == q.kind = "lookup" /\ minute > shares[q.file]
    IN
    /\ At(r, "row")
    /\ \/ found /\ ~gone /\ GoesOn(r) /\ NoShareFault
       \/ found /\ gone /\ Answers(r, 410, 0) /\ NoShareFault
       \/ ~found /\ Answers(r, 404, 0) /\ NoShareFault
       \/ found /\ Answers(r, 404, 0) /\ ShareFault
    /\ UNCHANGED <<minute, fileRows, objects, shares, cached, rowEnded, unstored, served>>

Presigns(r) ==
    /\ At(r, "presign")
    /\ \/ /\ NoShareFault
          /\ serving' = [serving EXCEPT ![r].left = Tail(@), ![r].url = minute + UrlTicks]
       \/ ShareFault /\ Answers(r, 500, 0)
    /\ UNCHANGED <<minute, fileRows, objects, shares, cached, rowEnded, unstored, served>>

\* A failed cache write does not fail the request.
FillsCache(r) ==
    LET q == serving[r]
        key == CacheKey(q.kind, q.user, q.file)
        entry == [until |-> minute + CachedFor(q.kind), url |-> q.url]
    IN
    /\ At(r, "fill") /\ Answers(r, 200, q.url)
    /\ \/ NoShareFault /\ cached' = [k \in DOMAIN cached \cup {key} |-> IF k = key THEN entry ELSE cached[k]]
       \/ ShareFault /\ UNCHANGED cached
    /\ UNCHANGED <<minute, fileRows, objects, shares, rowEnded, unstored, served>>

\* A call to storage or to the database: it works, or fails with or without
\* having taken effect, and then the answer is a 500.
Outcome(r, status, effect, unchanged) ==
    \/ effect /\ NoShareFault /\ NextOr(r, status)
    \/ (effect \/ unchanged) /\ ShareFault /\ Answers(r, 500, 0)

Puts(r) ==
    /\ At(r, "put")
    /\ Outcome(r, 201, objects' = objects \cup {serving[r].file}, UNCHANGED objects)
    /\ UNCHANGED <<minute, fileRows, shares, cached, rowEnded, unstored, served>>

Inserts(r) ==
    /\ At(r, "insert")
    /\ Outcome(r, 201, fileRows' = fileRows \cup {serving[r].file}, UNCHANGED fileRows)
    /\ UNCHANGED <<minute, objects, shares, cached, rowEnded, unstored, served>>

Unstores(r) ==
    /\ At(r, "unstore") /\ unstored' = unstored \cup {serving[r].file}
    /\ Outcome(r, 204, objects' = objects \ {serving[r].file}, UNCHANGED objects)
    /\ UNCHANGED <<minute, fileRows, shares, cached, rowEnded, served>>

\* DeleteFile: the file's shares go with it. None left is no error.
Unrows(r) ==
    LET f == serving[r].file IN
    /\ At(r, "unrow")
    /\ Outcome(r, 204,
               /\ fileRows' = fileRows \ {f} /\ shares' = [shares EXCEPT ![f] = 0]
               /\ rowEnded' = [rowEnded EXCEPT ![f] = IF f \in fileRows THEN minute ELSE @],
               UNCHANGED <<fileRows, shares, rowEnded>>)
    /\ UNCHANGED <<minute, objects, cached, unstored, served>>

\* The two entries of the user are deleted, each as well as it goes.
Evicts(r) ==
    LET q == serving[r]
        mine == {CacheKey("get", q.user, q.file), CacheKey("download", q.user, q.file)} \cap DOMAIN cached
    IN
    /\ At(r, "evict") /\ Answers(r, 204, 0)
    /\ \E kept \in SUBSET mine :
         /\ IF kept = {} THEN NoShareFault ELSE ShareFault
         /\ cached' = [k \in (DOMAIN cached \ mine) \cup kept |-> cached[k]]
    /\ UNCHANGED <<minute, fileRows, objects, shares, rowEnded, unstored, served>>

\* shareExpiry, CreateShare; the email is sent by the queue, or not.
CreatesShare(r, hours) ==
    LET f == serving[r].file
        expiry == IF hours = 0 THEN Never ELSE minute + hours
    IN
    /\ At(r, "create")
    /\ \/ /\ f \in fileRows
          /\ Outcome(r, 201, MakesShare(f, expiry), UNCHANGED shares)
       \/ f \notin fileRows /\ Answers(r, 500, 0) /\ NoShareFault /\ UNCHANGED shares
    /\ UNCHANGED <<minute, fileRows, objects, cached, rowEnded, unstored, served>>

\* The clock goes on; no request takes longer than RequestTicks. The cache
\* drops what has expired.
Minute ==
    /\ minute < MaxShareClock /\ minute' = minute + 1
    /\ \A r \in RequestSlots : Active(r) => minute - serving[r].since < RequestTicks
    /\ cached' = [k \in {k \in DOMAIN cached : cached[k].until > minute + 1} |-> cached[k]]
    /\ serving' = [r \in RequestSlots |-> IF Active(r) THEN serving[r] ELSE Idle]
    /\ UNCHANGED <<fileRows, objects, shares, rowEnded, unstored, served, shareFaults>>

ShareNext ==
    \/ Minute
    \/ \E r \in RequestSlots :
         \/ \E kind \in DOMAIN StepsOf, user \in Users, file \in SharedFiles :
              TakesRequest(r, kind, user, file)
         \/ ReadsCache(r) \/ ReadsRow(r) \/ Presigns(r) \/ FillsCache(r)
         \/ Puts(r) \/ Inserts(r) \/ Unstores(r) \/ Unrows(r) \/ Evicts(r)
         \/ \E hours \in ShareHours : CreatesShare(r, hours)

ShareSpec == ShareInit /\ [][ShareNext]_shareVars

(***************************************************************************)
(* Properties                                                              *)
(***************************************************************************)
HasAnswer(r) == serving[r].status # 0
Succeeded(r) == serving[r].status \in {200, 201, 204}

\* A cached answer reaches only the user it was made for: the owner's check,
\* which a hit skips, has been made for every answer about a file.
AnswersAreOwners ==
    \A r \in RequestSlots : Succeeded(r) /\ serving[r].kind # "lookup" =>
        OwnerOf[serving[r].file] = serving[r].user

\* A URL that is handed out, cached or not, still works; and what is said of a
\* deleted file is no older than the cache's lifetime and a request's, also
\* when a delete's eviction comes before the cache is filled.
AnswersAreFresh ==
    \A r \in RequestSlots : serving[r].status = 200 =>
        /\ serving[r].kind \in {"download", "lookup"} => serving[r].url > serving[r].at
        /\ rowEnded[serving[r].file] # 0 =>
             serving[r].at <= rowEnded[serving[r].file] + RequestTicks + CachedFor(serving[r].kind)

\* A file in the database is in storage, unless a delete of it has begun:
\* whichever step of an upload fails, no row is left without its object.
RowsHaveObjects == \A f \in fileRows : f \in objects \/ f \in unstored

\* Answers are for the right user and still true, and files are whole.
SharingHolds == AnswersAreOwners /\ AnswersAreFresh /\ RowsHaveObjects
=============================================================================
