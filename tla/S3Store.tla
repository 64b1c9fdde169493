------------------------------- MODULE S3Store -------------------------------
(***************************************************************************)
(* The S3 storage: Provider and Presigner (storage/s3) with the checks of  *)
(* storage/internal, on one bucket and one key. S3 and the SDK's transfer  *)
(* manager are outside src; they are modelled from how the provider uses   *)
(* them. A request may take effect and lose its answer; the SDK then sends *)
(* it again. Bytes are counted, a body is its length and how it ends, and  *)
(* the ETag of an object is who wrote it.                                  *)
(***************************************************************************)
EXTENDS Integers, FiniteSets

CONSTANTS
    Users,      \* callers of the Provider and the Presigner
    Putters,    \* those of them that call PutObject
    NoOne,      \* the writer of no object
    Browser,    \* who uploads through a presigned URL
    Lengths,    \* lengths of bodies
    Declared,   \* values of ContentLength; Unset for nil
    Unset,
    PartSize,   \* what the transfer manager reads before it sends a part
    URLTTLs,       \* TTLs asked for; 0 takes DefaultTTL
    DefaultTTL, MaxTTL, MaxTime,
    MaxUses,    \* bound on the calls of a user
    MaxLost     \* bound on lost answers and on aborts that fail

ASSUME S3Assumption ==
    /\ Putters \subseteq Users /\ {NoOne, Browser} \cap Users = {} /\ NoOne # Browser
    /\ PartSize \in Nat \ {0} /\ Lengths \subseteq Nat
    /\ Unset \in Declared /\ Declared \ {Unset} \subseteq Int
    /\ MaxTime \in Nat /\ MaxUses \in Nat /\ MaxLost \in Nat
    /\ URLTTLs \subseteq Int /\ 0 < DefaultTTL /\ DefaultTTL <= MaxTTL

Endings == {"eof", "fail", "stall", "invalid"}
Conditions == {"any", "absent", "match", "both"}

VARIABLES
    bucket,  \* "none", "mine" or "theirs", another account's
    object,  \* [by, len]; by is NoOne when there is none
    uploads, \* users whose multipart upload has begun at S3 and not ended
    urls,    \* presigned uploads: [len, cond, etag, until]
    now,
    uat,     \* where each user is
    ask,     \* its request: [op, want, cond, etag, len, end, ttl]
    body,    \* bytes the body still has
    rd,      \* bytes lengthReader has returned
    buffer,  \* bytes the transfer manager holds
    sent,    \* bytes it has sent as parts
    reply,   \* the last answer: "none", "ok" or the error
    stored,  \* writes S3 has taken: [by, len, want, whole]
    strays,  \* users whose abort failed
    uses, lost
s3Vars == <<bucket, object, uploads, urls>>
useVars == <<uat, ask, body, rd, buffer, sent, reply>>
allVars == <<s3Vars, now, useVars, stored, strays, uses, lost>>

NoAsk == [op |-> "none", want |-> Unset, cond |-> "any", etag |-> NoOne, len |-> 0,
          end |-> "eof", ttl |-> 0]
NoObject == [by |-> NoOne, len |-> 0]

S3Init ==
    /\ bucket \in {"none", "mine", "theirs"}
    /\ object = NoObject /\ uploads = {} /\ urls = {} /\ now = 0
    /\ uat = [u \in Users |-> "idle"] /\ ask = [u \in Users |-> NoAsk]
    /\ body = [u \in Users |-> 0] /\ rd = [u \in Users |-> 0]
    /\ buffer = [u \in Users |-> 0] /\ sent = [u \in Users |-> 0]
    /\ reply = [u \in Users |-> "none"]
    /\ stored = {} /\ strays = {}
    /\ uses = [u \in Users |-> 0] /\ lost = 0

Sets(u, label) == uat' = [uat EXCEPT ![u] = label]
Answers(u, r) == Sets(u, "idle") /\ reply' = [reply EXCEPT ![u] = r]

(***************************************************************************)
(* Errors                                                                  *)
(***************************************************************************)
wrapS3Error(code) ==
    CASE code = "NoSuchBucket" -> "ErrBucketNotFound"
      [] code = "NoSuchKey" -> "ErrKeyNotFound"
      [] code = "NotFound" -> "ErrNotFound"
      [] code = "BucketAlreadyExists" -> "ErrBucketExists"
      [] code = "PreconditionFailed" -> "ErrPreconditionFailed"
      [] OTHER -> code

wrapBucketError(code) ==
    CASE code \in {"NoSuchBucket", "NotFound"} -> "ErrBucketNotFound"
      [] code = "BucketNotEmpty" -> "ErrBucketNotEmpty"
      [] code = "Forbidden" -> "ErrAccessDenied"
      [] OTHER -> code

\* CreateBucket takes a bucket the caller owns for success.
createError(code) == IF code = "BucketAlreadyOwnedByYou" THEN "ok" ELSE wrapS3Error(code)

\* conditionHeaders and ValidateCondition: what is sent, or nothing valid.
conditionHeaders(cond) == cond
ValidCondition(cond) == cond # "both"

\* presignTTL.
ttlOf(ttl) == IF ttl = 0 THEN DefaultTTL ELSE ttl
ValidTTL(ttl) == ttlOf(ttl) \in 1..MaxTTL

(***************************************************************************)
(* S3                                                                      *)
(***************************************************************************)
\* Its answer to a request about the bucket or the object.
AboutBucket(op) ==
    CASE op = "create" -> IF bucket = "none" THEN "ok" ELSE IF bucket = "mine"
                          THEN "BucketAlreadyOwnedByYou" ELSE "BucketAlreadyExists"
      [] op = "headbucket" -> IF bucket = "none" THEN "NotFound" ELSE IF bucket = "mine"
                              THEN "ok" ELSE "Forbidden"
      [] op = "deletebucket" -> IF bucket = "none" THEN "NoSuchBucket" ELSE IF bucket = "theirs"
                                THEN "Forbidden" ELSE IF object.by # NoOne
                                THEN "BucketNotEmpty" ELSE "ok"
AboutObject(op) ==
    IF bucket # "mine" THEN IF op = "head" THEN "NotFound" ELSE IF bucket = "none"
                            THEN "NoSuchBucket" ELSE "Forbidden"
    ELSE IF op \in {"head", "get"} /\ object.by = NoOne
    THEN IF op = "head" THEN "NotFound" ELSE "NoSuchKey"
    ELSE "ok"

\* Its answer to a write with a condition.
Holds(cond, etag) ==
    CASE cond = "absent" -> object.by = NoOne
      [] cond = "match" -> object.by = etag
      [] OTHER -> TRUE
WriteAnswer(cond, etag) ==
    IF bucket = "none" THEN "NoSuchBucket" ELSE IF bucket = "theirs" THEN "Forbidden"
    ELSE IF cond = "match" /\ object.by = NoOne THEN "NoSuchKey"
    ELSE IF ~Holds(cond, etag) THEN "PreconditionFailed" ELSE "ok"

(***************************************************************************)
(* Calls that are one request                                              *)
(***************************************************************************)
Use(u) ==
    /\ uat[u] = "idle" /\ uses[u] < MaxUses /\ uses' = [uses EXCEPT ![u] = @ + 1]
    /\ UNCHANGED <<now, stored, strays>>

BucketCall(u, op) ==
    /\ Use(u)
    /\ LET code == AboutBucket(op)
       IN /\ reply' = [reply EXCEPT ![u] = IF code = "ok" THEN "ok" ELSE IF op = "create"
                                           THEN createError(code) ELSE wrapBucketError(code)]
          /\ bucket' = IF code = "ok" /\ op = "create" THEN "mine"
                       ELSE IF code = "ok" /\ op = "deletebucket" THEN "none" ELSE bucket
          \* The parts of an upload go with their bucket.
          /\ uploads' = IF bucket' = "none" THEN {} ELSE uploads
    /\ UNCHANGED <<object, urls, uat, ask, body, rd, buffer, sent, lost>>
CreateBucket(u) == BucketCall(u, "create")
HeadBucket(u) == BucketCall(u, "headbucket")
DeleteBucket(u) == BucketCall(u, "deletebucket")

ObjectCall(u, op) ==
    /\ Use(u)
    /\ LET code == AboutObject(op)
       IN /\ reply' = [reply EXCEPT ![u] = wrapS3Error(code)]
          /\ object' = IF code = "ok" /\ op = "delete" THEN NoObject ELSE object
    /\ UNCHANGED <<bucket, uploads, urls, uat, ask, body, rd, buffer, sent, lost>>
HeadObject(u) == ObjectCall(u, "head")
GetObject(u) == ObjectCall(u, "get")
DeleteObject(u) == ObjectCall(u, "delete")
ListObjects(u) == ObjectCall(u, "list")
\* ListBuckets asks about no bucket: it names those of the account.
ListBuckets(u) ==
    /\ Use(u) /\ reply' = [reply EXCEPT ![u] = "ok"]
    /\ UNCHANGED <<s3Vars, uat, ask, body, rd, buffer, sent, lost>>

(***************************************************************************)
(* PutObject                                                               *)
(***************************************************************************)
PutObject(u) ==
    /\ Use(u) /\ u \in Putters
    /\ \E want \in Declared, cond \in Conditions, len \in Lengths, end \in Endings :
          LET a == [NoAsk EXCEPT !.op = "put", !.want = want, !.cond = conditionHeaders(cond),
                                 !.etag = object.by, !.len = len, !.end = end]
          IN /\ ask' = [ask EXCEPT ![u] = a]
             /\ body' = [body EXCEPT ![u] = len]
             /\ IF ~ValidCondition(cond) THEN Answers(u, "ErrInvalidCondition")
                ELSE IF want # Unset /\ want < 0 THEN Answers(u, "ErrContentLengthMismatch")
                ELSE Sets(u, "reading") /\ reply' = [reply EXCEPT ![u] = "none"]
    /\ rd' = [rd EXCEPT ![u] = 0] /\ buffer' = [buffer EXCEPT ![u] = 0]
    /\ sent' = [sent EXCEPT ![u] = 0]
    /\ UNCHANGED <<s3Vars, lost>>

Least(a, b) == IF a <= b THEN a ELSE b

\* What a Read of the body with room for p may return: [n, err].
BodyReads(u, p) ==
    LET left == body[u] end == ask[u].end
    IN IF left = 0
       THEN {[n |-> 0, err |-> CASE end = "eof" -> "eof" [] end = "fail" -> "read body"
                                 [] end = "stall" -> "none" [] end = "invalid" -> "invalid count"]}
       ELSE [n : 1..Least(left, p), err : {"none"}]
            \cup {[n |-> left, err |-> IF end = "eof" THEN "eof" ELSE "read body"] :
                     x \in IF left <= p /\ end \in {"eof", "fail"} THEN {1} ELSE {}}

\* probe: a byte past the declared length is the mismatch. Fault: it is not
\* looked for.
probe_not(u, left) == "eof"
probe(u, left) ==
    IF left > 0 THEN "ErrContentLengthMismatch"
    ELSE CASE ask[u].end = "eof" -> "eof" [] ask[u].end = "fail" -> "read body"
           [] ask[u].end = "stall" -> "no progress" [] ask[u].end = "invalid" -> "invalid count"

\* settle: what Read returns for r, a Read of the body.
settle(u, r) ==
    LET left == body[u] - r.n
        whole == rd[u] + r.n = ask[u].want
        past == probe(u, left)
    IN IF r.err = "eof" /\ ~whole THEN [n |-> r.n, err |-> "ErrContentLengthMismatch", took |-> r.n]
       ELSE IF r.err \notin {"none", "eof"} THEN [n |-> r.n, err |-> r.err, took |-> r.n]
       ELSE IF whole /\ past = "ErrContentLengthMismatch" THEN [n |-> 0, err |-> past, took |-> r.n]
       ELSE IF whole THEN [n |-> r.n, err |-> past, took |-> r.n]
       ELSE [n |-> r.n, err |-> "none", took |-> r.n]

\* CheckLength and lengthReader.Read.
LengthReads(u, p) ==
    IF ask[u].want = Unset
    THEN {[n |-> r.n, err |-> r.err, took |-> r.n] : r \in BodyReads(u, p)}
    ELSE IF rd[u] = ask[u].want THEN {[n |-> 0, err |-> probe(u, body[u]), took |-> 0]}
    ELSE {settle(u, r) : r \in BodyReads(u, Least(p, ask[u].want - rd[u]))}

\* The transfer manager fills a part.
ReadBody(u) ==
    /\ uat[u] = "reading" /\ buffer[u] < PartSize
    /\ \E r \in LengthReads(u, PartSize - buffer[u]) :
          /\ body' = [body EXCEPT ![u] = @ - r.took]
          /\ rd' = [rd EXCEPT ![u] = @ + r.took]
          /\ buffer' = [buffer EXCEPT ![u] = @ + r.n]
          /\ CASE r.err = "none" -> UNCHANGED <<uat, reply>>
               [] r.err = "eof" -> Sets(u, "writing") /\ UNCHANGED reply
               [] OTHER -> /\ reply' = [reply EXCEPT ![u] = r.err]
                           /\ Sets(u, IF u \in uploads THEN "aborting" ELSE "idle")
    /\ UNCHANGED <<s3Vars, now, ask, sent, stored, strays, uses, lost>>

\* A full part is sent, the first after the upload has been created.
SendPart(u) ==
    /\ uat[u] = "reading" /\ buffer[u] = PartSize
    /\ IF bucket = "mine" /\ (sent[u] = 0 \/ u \in uploads)
       THEN /\ uploads' = uploads \cup {u}
            /\ sent' = [sent EXCEPT ![u] = @ + PartSize] /\ buffer' = [buffer EXCEPT ![u] = 0]
            /\ UNCHANGED <<uat, reply>>
       ELSE /\ Answers(u, wrapS3Error(IF bucket = "none" THEN "NoSuchBucket" ELSE "NoSuchUpload"))
            /\ UNCHANGED <<uploads, sent, buffer>>
    /\ UNCHANGED <<bucket, object, urls, now, ask, body, rd, stored, strays, uses, lost>>

\* One PutObject, or the completion of the upload: the condition goes with it.
\* The answer may be lost: the SDK sends the request again.
Write(u) ==
    /\ uat[u] = "writing"
    /\ LET code == IF sent[u] > 0 /\ u \notin uploads THEN "NoSuchUpload"
                   ELSE WriteAnswer(ask[u].cond, ask[u].etag)
           new == [by |-> u, len |-> sent[u] + buffer[u]]
       IN /\ object' = IF code = "ok" THEN new ELSE object
          /\ stored' = IF code = "ok"
                       THEN stored \cup {[by |-> u, len |-> new.len, want |-> ask[u].want,
                                          whole |-> new.len = ask[u].len]}
                       ELSE stored
          /\ uploads' = IF code = "ok" THEN uploads \ {u} ELSE uploads
          /\ \/ /\ lost < MaxLost /\ lost' = lost + 1 /\ UNCHANGED <<uat, reply>>
             \/ /\ UNCHANGED lost
                /\ reply' = [reply EXCEPT ![u] = wrapS3Error(code)]
                /\ Sets(u, IF code # "ok" /\ u \in uploads THEN "aborting" ELSE "idle")
    /\ UNCHANGED <<bucket, urls, now, ask, body, rd, buffer, sent, strays, uses>>

\* The transfer manager aborts what it began.
AbortsUpload(u) == {u}
Abort(u) ==
    /\ uat[u] = "aborting" /\ Sets(u, "idle")
    /\ \/ uploads' = uploads \ AbortsUpload(u) /\ UNCHANGED <<strays, lost>>
       \/ /\ lost < MaxLost /\ lost' = lost + 1
          /\ strays' = strays \cup {u} /\ UNCHANGED uploads
    /\ UNCHANGED <<bucket, object, urls, now, ask, body, rd, buffer, sent, reply, stored, uses>>

(***************************************************************************)
(* Presigner                                                               *)
(***************************************************************************)
\* What is signed of the length.
Signed(want) == want

PresignUploadURL(u) ==
    /\ Use(u)
    /\ \E want \in Declared, cond \in Conditions, ttl \in URLTTLs :
          IF ~ValidTTL(ttl) THEN reply' = [reply EXCEPT ![u] = "ErrInvalidTTL"] /\ UNCHANGED urls
          ELSE IF ~ValidCondition(cond)
          THEN reply' = [reply EXCEPT ![u] = "ErrInvalidCondition"] /\ UNCHANGED urls
          ELSE /\ reply' = [reply EXCEPT ![u] = "ok"]
               /\ urls' = urls \cup {[len |-> Signed(want), asked |-> want,
                                      cond |-> conditionHeaders(cond),
                                      etag |-> object.by, until |-> now + ttlOf(ttl)]}
    /\ UNCHANGED <<bucket, object, uploads, uat, ask, body, rd, buffer, sent, lost>>

\* A download is signed without a request: S3 judges it when the URL is used.
PresignDownloadURL(u) ==
    /\ Use(u)
    /\ \E ttl \in URLTTLs :
          reply' = [reply EXCEPT ![u] = IF ValidTTL(ttl) THEN "ok" ELSE "ErrInvalidTTL"]
    /\ UNCHANGED <<s3Vars, uat, ask, body, rd, buffer, sent, lost>>

\* A browser uploads n bytes through a URL.
UseURL(url, n) ==
    /\ now < url.until /\ url.len \in {Unset, n}
    /\ WriteAnswer(url.cond, url.etag) = "ok"
    /\ object' = [by |-> Browser, len |-> n]
    /\ stored' = stored \cup {[by |-> Browser, len |-> n, want |-> url.asked, whole |-> TRUE]}
    /\ UNCHANGED <<bucket, uploads, urls, now, useVars, strays, uses, lost>>

Ticks == now < MaxTime /\ now' = now + 1
         /\ UNCHANGED <<s3Vars, useVars, stored, strays, uses, lost>>

S3Next ==
    \/ Ticks
    \/ \E u \in Users :
          \/ CreateBucket(u) \/ HeadBucket(u) \/ DeleteBucket(u)
          \/ HeadObject(u) \/ GetObject(u) \/ DeleteObject(u) \/ ListObjects(u) \/ ListBuckets(u)
          \/ PutObject(u) \/ ReadBody(u) \/ SendPart(u) \/ Write(u) \/ Abort(u)
          \/ PresignUploadURL(u) \/ PresignDownloadURL(u)
    \/ \E url \in urls, n \in Lengths : UseURL(url, n)

S3Spec == S3Init /\ [][S3Next]_allVars

(***************************************************************************)
(* Properties                                                              *)
(***************************************************************************)
\* "A set ContentLength must match the body: a shorter or longer body ...
\* returns an error and the object is not stored": what S3 has taken, in one
\* request, in parts, or through a URL, has the declared length, and no body
\* was cut short.
LengthIsHeld ==
    \A w \in stored : w.whole /\ (w.want # Unset => w.len = w.want)

\* An upload in parts that is over has been completed or aborted, unless the
\* abort itself failed: "the incomplete upload remains" then.
NoPartsAreLeft ==
    \A u \in uploads : uat[u] # "idle" \/ u \in strays

\* What S3 has is what was sent, whole, and nothing lies about half sent.
UploadsHold == LengthIsHeld /\ NoPartsAreLeft
=============================================================================
