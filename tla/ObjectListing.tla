---------------------------- MODULE ObjectListing ----------------------------
(***************************************************************************)
(* ListObjects and ListBuckets of the dir storage, page by page, while     *)
(* others put, delete and damage what is listed (storage/dir/list.go and   *)
(* internal/vfs/list.go).                                                  *)
(*                                                                         *)
(* A key is a sequence of letters, numbers here, and a name is a key or a  *)
(* common prefix. One object is looked at in one step: module ObjectStore  *)
(* shows that a look at one key never takes a write that is under way for  *)
(* damage. A continuation token stands for the name it encodes, and << >>  *)
(* for none.                                                               *)
(***************************************************************************)
EXTENDS Integers, FiniteSets, SequencesExt

CONSTANTS
    Keys,        \* the keys of the bucket
    Buckets,     \* the buckets under the root, also sequences of letters
    Delimiter,   \* the letter that separates
    AskedPrefixes, StartAfters, Delimited, \* what the input may hold
    PageSize,    \* MaxKeys and MaxBuckets
    MaxChanges   \* bound on the changes others make

ASSUME ListingAssumption ==
    /\ PageSize \in Nat \ {0} /\ MaxChanges \in Nat
    /\ Keys \cup Buckets \cup AskedPrefixes \cup StartAfters \subseteq Seq(Int)
    /\ << >> \notin Keys \cup Buckets
    /\ Delimited \subseteq BOOLEAN

VARIABLES
    objects,   \* [Keys -> "none", "usable" or "corrupt"]
    directory, \* buckets whose metadata directory is there
    nameRecord, \* buckets whose name record holds their name
    input,     \* the listing: its kind, Prefix, StartAfter, and whether a Delimiter is set
    at,        \* where the lister is
    after,     \* the name the page resumes after
    toRead,    \* entries of the directory not looked at yet
    found,     \* names of what can be listed
    doubted,   \* a bucket that could not be named, being looked at again
    pg,        \* names of the page not answered yet
    more,      \* the page is truncated
    seen,      \* names answered so far, in order
    skipped,   \* entries reported as skipped
    touched,   \* what others changed since the listing began
    created,   \* buckets whose record or directory was made since
    changes
listVars == <<objects, directory, nameRecord, input, at, after, toRead, found, doubted, pg,
              more, seen, skipped, touched, created, changes>>
worldVars == <<objects, directory, nameRecord, touched, created, changes>>
listerVars == <<input, at, after, toRead, found, doubted, pg, more, seen, skipped>>

Inputs ==
    [kind : {"objects"}, prefix : AskedPrefixes, start : StartAfters, delim : Delimited]
        \cup [kind : {"buckets"}, prefix : {<< >>}, start : {<< >>}, delim : {FALSE}]

ListingInit ==
    /\ objects \in [Keys -> {"none", "usable"}]
    /\ directory \in SUBSET Buckets /\ nameRecord \in {directory, {}}
    /\ input \in Inputs
    /\ input.kind = "objects" => directory = {}
    /\ input.kind = "buckets" => objects = [k \in Keys |-> "none"]
    /\ at = "start" /\ after = << >> /\ toRead = {} /\ found = {}
    /\ doubted = << >> /\ pg = {} /\ more = FALSE /\ seen = << >>
    /\ skipped = {} /\ touched = {} /\ created = {} /\ changes = 0

(***************************************************************************)
(* Pages                                                                   *)
(***************************************************************************)
\* Go's order of strings, of bytes.
Before(a, b) ==
    \/ IsStrictPrefix(a, b)
    \/ \E i \in DOMAIN a \cap DOMAIN b :
          a[i] < b[i] /\ \A j \in 1..i - 1 : a[j] = b[j]

\* rollUp: the name key is listed as.
Ends(key) == {i \in Len(input.prefix) + 1..Len(key) : key[i] = Delimiter}
RollsUpTo(key) ==
    IF input.delim /\ Ends(key) # {} THEN SubSeq(key, 1, Min(Ends(key))) ELSE key

\* A common prefix has a delimiter after Prefix; no key listed as itself has.
Common(name) == input.delim /\ Ends(name) # {}

\* The keys the input selects.
Selected(key) == IsPrefix(input.prefix, key) /\ (input.start = << >> \/ Before(input.start, key))
rollUp(keys) == {RollsUpTo(key) : key \in {k \in keys : Selected(k)}}

\* page resumes after a name, and past it. Fault: at it.
Resumes_at(name) == ~Before(name, after)
Resumes(name) == Before(after, name)

\* What page returns: the first of the names, at most PageSize, and whether
\* more follow.
Truncated(names, p) == p # names
IsPage(p, names) ==
    /\ \A a \in p, b \in names \ p : Before(a, b)
    /\ Cardinality(p) <= PageSize
    /\ Truncated(names, p) => Cardinality(p) = PageSize

(***************************************************************************)
(* One page                                                                *)
(***************************************************************************)
LGoto(label) == at' = label

\* fs.ReadDir.
ReadDir ==
    /\ at = "start" /\ LGoto("reading")
    /\ toRead' = IF input.kind = "objects" THEN {k \in Keys : objects[k] # "none"} ELSE directory
    /\ found' = {}
    /\ UNCHANGED <<worldVars, input, after, doubted, pg, more, seen, skipped>>

\* usableKey: a key whose object is gone is left out, a damaged one skipped.
UsableKey(k) ==
    /\ at = "reading" /\ input.kind = "objects" /\ k \in toRead
    /\ toRead' = toRead \ {k}
    /\ found' = IF objects[k] = "usable" THEN found \cup {k} ELSE found
    /\ skipped' = IF objects[k] = "corrupt" THEN skipped \cup {k} ELSE skipped
    /\ UNCHANGED <<worldVars, input, at, after, doubted, pg, more, seen>>

\* bucketEntry: the name record.
BucketEntry(b) ==
    /\ at = "reading" /\ input.kind = "buckets" /\ b \in toRead
    /\ toRead' = toRead \ {b}
    /\ IF b \in nameRecord THEN found' = found \cup {b} /\ UNCHANGED <<at, doubted>>
       ELSE LGoto("doubt") /\ doubted' = b /\ UNCHANGED found
    /\ UNCHANGED <<worldVars, input, after, pg, more, seen, skipped>>

\* Not named: is it still there?
Gone(b) == b \notin directory
LookAgain ==
    /\ at = "doubt" /\ LGoto("reading")
    /\ skipped' = IF Gone(doubted) THEN skipped ELSE skipped \cup {doubted}
    /\ doubted' = << >>
    /\ UNCHANGED <<worldVars, input, after, toRead, found, pg, more, seen>>

Page ==
    /\ at = "reading" /\ toRead = {} /\ LGoto("summary")
    /\ LET names == {name \in rollUp(found) : Resumes(name)} IN
       \E p \in SUBSET names : IsPage(p, names) /\ pg' = p /\ more' = Truncated(names, p)
    /\ UNCHANGED <<worldVars, input, after, toRead, found, doubted, seen, skipped>>

\* summary: an object deleted or damaged since is left out of the page; a
\* common prefix or a bucket is not looked at.
Summarized(name) == input.kind = "objects" /\ ~Common(name)
Listed(name) == Summarized(name) => objects[name] = "usable"
Summary ==
    /\ at = "summary"
    /\ \E name \in pg :
          /\ \A other \in pg \ {name} : Before(name, other)
          /\ after' = name /\ pg' = pg \ {name}
          /\ seen' = IF Listed(name) THEN Append(seen, name) ELSE seen
          /\ skipped' = IF Summarized(name) /\ objects[name] = "corrupt"
                        THEN skipped \cup {name} ELSE skipped
    /\ UNCHANGED <<worldVars, input, at, toRead, found, doubted, more>>

\* The caller asks for the next page with the token of the last name.
Answer ==
    /\ at = "summary" /\ pg = {}
    /\ LGoto(IF more THEN "start" ELSE "done")
    /\ UNCHANGED <<worldVars, input, after, toRead, found, doubted, pg, more, seen, skipped>>

\* A call that fails before it answers is made again with the same token.
Canceled ==
    /\ at = "reading" /\ toRead # {} /\ LGoto("start")
    /\ UNCHANGED <<worldVars, input, after, toRead, found, doubted, pg, more, seen, skipped>>

(***************************************************************************)
(* The others                                                              *)
(***************************************************************************)
Changes(x) ==
    /\ at # "done" /\ changes < MaxChanges
    /\ changes' = changes + 1 /\ touched' = touched \cup {x}
    /\ UNCHANGED listerVars

PutOrDelete(k) ==
    /\ input.kind = "objects" /\ Changes(k)
    /\ \E s \in {"none", "usable", "corrupt"} \ {objects[k]} :
          objects' = [objects EXCEPT ![k] = s]
    /\ UNCHANGED <<directory, nameRecord, created>>

\* CreateBucket writes the record before it makes the directory.
WriteRecord(b) ==
    /\ input.kind = "buckets" /\ Changes(b) /\ b \notin nameRecord
    /\ nameRecord' = nameRecord \cup {b} /\ created' = created \cup {b}
    /\ UNCHANGED <<objects, directory>>
MakeDirectory(b) ==
    /\ input.kind = "buckets" /\ Changes(b) /\ b \in nameRecord \ directory
    /\ directory' = directory \cup {b} /\ created' = created \cup {b}
    /\ UNCHANGED <<objects, nameRecord>>

\* DeleteBucket removes the directory before the record.
RemoveDirectory(b) ==
    /\ input.kind = "buckets" /\ Changes(b) /\ b \in directory
    /\ directory' = directory \ {b}
    /\ UNCHANGED <<objects, nameRecord, created>>
DropRecord(b) ==
    /\ input.kind = "buckets" /\ Changes(b) /\ b \in nameRecord \ directory
    /\ nameRecord' = nameRecord \ {b}
    /\ UNCHANGED <<objects, directory, created>>

ListingNext ==
    \/ ReadDir \/ LookAgain \/ Page \/ Summary \/ Answer \/ Canceled
    \/ \E k \in Keys : UsableKey(k) \/ PutOrDelete(k)
    \/ \E b \in Buckets : \/ BucketEntry(b) \/ WriteRecord(b) \/ MakeDirectory(b)
                          \/ RemoveDirectory(b) \/ DropRecord(b)

ListingSpec == ListingInit /\ [][ListingNext]_listVars

(***************************************************************************)
(* Properties                                                              *)
(***************************************************************************)
\* Over all its pages a listing names every object the input selects that
\* nobody touched, or its common prefix, in order and once, and nothing that
\* was never there, whatever others put and delete between the pages.
PagesCover ==
    /\ \A i \in 1..Len(seen) - 1 : Before(seen[i], seen[i + 1])
    /\ input.kind = "objects" =>
          /\ at = "done" =>
                \A k \in Keys \ touched :
                    Selected(k) /\ objects[k] = "usable" => RollsUpTo(k) \in Range(seen)
          /\ \A name \in Range(seen) : \E k \in Keys :
                Selected(k) /\ RollsUpTo(k) = name /\ (k \in touched \/ objects[k] = "usable")
    /\ input.kind = "buckets" /\ at = "done" =>
          \A b \in (directory \cap nameRecord) \ touched : b \in Range(seen)
=============================================================================
