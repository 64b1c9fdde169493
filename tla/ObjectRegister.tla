---------------------------- MODULE ObjectRegister ----------------------------
(***************************************************************************)
(* What the dir storage promises for one key of one bucket: every call     *)
(* takes effect at one instant between its start and its return, or not at *)
(* all; a conditional write compares and writes in that instant; a crash   *)
(* or a bucket's deletion loses no object; only an empty bucket goes, and  *)
(* a call that outlives it stores and finds nothing in one made anew.      *)
(***************************************************************************)
CONSTANTS
    Callers,
    ETags,
    None

VARIABLES
    bucket, \* the bucket exists
    object, \* the ETag of the object under the key, or None
    asked,  \* the request each caller waits for: [op, match], or None
    answer, \* what became of it
    outlived \* callers whose call was begun on a bucket deleted since

regVars == <<bucket, object, asked, answer, outlived>>

\* The write condition: none, IfNoneMatch, or IfMatch of an ETag.
Meets(match, etag) ==
    CASE match = "any" -> TRUE
      [] match = "absent" -> etag = None
      [] OTHER -> etag = match

Requests == [op : {"put", "get", "delete"}, match : ETags \cup {"any", "absent"}]
Answer(c, a) == answer' = [answer EXCEPT ![c] = a] /\ UNCHANGED <<asked, outlived>>

Init ==
    /\ bucket \in BOOLEAN
    /\ object \in IF bucket THEN ETags \cup {None} ELSE {None}
    /\ asked = [c \in Callers |-> None]
    /\ answer = [c \in Callers |-> "pending"]
    /\ outlived = {}

Call(c) ==
    /\ asked[c] = None
    /\ asked'[c] \in Requests
    /\ asked' = [asked EXCEPT ![c] = asked'[c]]
    /\ UNCHANGED <<bucket, object, answer, outlived>>

Put(c) ==
    /\ asked[c].op = "put" /\ bucket /\ c \notin outlived /\ Meets(asked[c].match, object)
    /\ object' \in ETags
    /\ Answer(c, "ok") /\ UNCHANGED bucket
Refuse(c) ==
    /\ asked[c].op = "put" /\ c \notin outlived /\ ~Meets(asked[c].match, object)
    /\ Answer(c, "refused") /\ UNCHANGED <<bucket, object>>
Get(c) ==
    /\ asked[c].op = "get" /\ c \notin outlived
    /\ Answer(c, IF object = None THEN "notfound" ELSE object)
    /\ UNCHANGED <<bucket, object>>
\* There is nothing of c's to delete in a bucket made after it began.
Delete(c) ==
    /\ asked[c].op = "delete"
    /\ object' = IF c \in outlived THEN object ELSE None
    /\ Answer(c, "ok") /\ UNCHANGED bucket
\* The call fails and has no effect.
Fail(c) == Answer(c, "error") /\ UNCHANGED <<bucket, object>>

\* The one instant at which the call that c waits for takes effect.
Effect(c) ==
    /\ asked[c] # None /\ answer[c] = "pending" /\ answer'[c] # "pending"
    /\ Put(c) \/ Refuse(c) \/ Get(c) \/ Delete(c) \/ Fail(c)

\* The call returns, an error if it had no effect yet, or its process dies.
Return(c) ==
    /\ asked[c] # None /\ asked'[c] = None
    /\ asked' = [asked EXCEPT ![c] = None]
    /\ answer' = [answer EXCEPT ![c] = "pending"]
    /\ outlived' = outlived \ {c}
    /\ UNCHANGED <<bucket, object>>

CreateBucket == ~bucket /\ bucket' = TRUE /\ UNCHANGED <<object, asked, answer, outlived>>

\* A call that has not opened the bucket yet may find one made anew.
DeleteBucket ==
    /\ bucket /\ object = None
    /\ bucket' = FALSE
    /\ outlived' \in SUBSET {c \in Callers : asked[c] # None}
    /\ outlived \subseteq outlived'
    /\ UNCHANGED <<object, asked, answer>>

Next ==
    \/ \E c \in Callers : Call(c) \/ Effect(c) \/ Return(c)
    \/ CreateBucket \/ DeleteBucket

Spec == Init /\ [][Next]_regVars
===============================================================================
