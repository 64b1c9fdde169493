---------------------------- MODULE MemoryCache ----------------------------
(***************************************************************************)
(* The in-memory cache (cache/memory): a map under a read-write lock, with *)
(* expiring entries, a bound on their number, a cleanup goroutine for each *)
(* life of the service, and a Get that gives the lock up between reading   *)
(* an expired entry and deleting it. A critical section is one step.       *)
(***************************************************************************)
EXTENDS Integers, FiniteSets

CONSTANTS
    CacheKeys,
    CacheCallers,
    TTLs,          \* of a Set; 0 is an entry that never expires
    MaxEntries,    \* 0: no bound
    CacheClockEnd, \* bound on time
    MaxCacheSets,  \* bound on Sets
    MaxCacheLives  \* bound on Inits

ASSUME CacheAssumption ==
    /\ TTLs \subseteq Nat /\ MaxEntries \in Nat
    /\ CacheClockEnd \in Nat /\ MaxCacheSets \in Nat /\ MaxCacheLives \in Nat

VARIABLES
    items,      \* the entries; s.items is nil when there is no life
    cacheLive,  \* s.items # nil
    cacheNow,   \* time
    sets,       \* Sets so far: the number of a Set stands for its value
    cacheLives, \* Inits so far
    sweeps,     \* the lives whose cleanup goroutine runs
    getting     \* per caller: the Get it is in, and the entry it has read

cacheVars == <<items, cacheLive, cacheNow, sets, cacheLives, sweeps, getting>>

NoEntry == [value |-> 0, expires |-> 0]
NotGetting == [at |-> "idle", key |-> CHOOSE k \in CacheKeys : TRUE, entry |-> NoEntry]

CacheInit ==
    /\ items = [k \in CacheKeys |-> NoEntry] /\ cacheLive = FALSE
    /\ cacheNow = 1 /\ sets = 0 /\ cacheLives = 0 /\ sweeps = {}
    /\ getting = [p \in CacheCallers |-> NotGetting]

Stored == {k \in CacheKeys : items[k] # NoEntry}
IsExpired(e) == e # NoEntry /\ e.expires # 0 /\ cacheNow > e.expires
Expired == {k \in Stored : IsExpired(items[k])}
Live(k) == k \in Stored \ Expired
Without(K) == [k \in CacheKeys |-> IF k \in K THEN NoEntry ELSE items[k]]

(***************************************************************************)
(* Init, Close, the cleanup goroutine                                      *)
(***************************************************************************)
\* Each Init makes a context of its own for its goroutine.
SweepStarts(life) == {life}

CacheOpen ==
    /\ ~cacheLive /\ cacheLives < MaxCacheLives
    /\ cacheLive' = TRUE /\ cacheLives' = cacheLives + 1
    /\ items' = [k \in CacheKeys |-> NoEntry]
    /\ sweeps' = sweeps \cup SweepStarts(cacheLives + 1)
    /\ UNCHANGED <<cacheNow, sets, getting>>

\* The goroutine sees the canceled context later, perhaps after one more tick.
CacheClose ==
    /\ cacheLive
    /\ cacheLive' = FALSE /\ items' = [k \in CacheKeys |-> NoEntry]
    /\ UNCHANGED <<cacheNow, sets, cacheLives, sweeps, getting>>

Sweep(life) ==
    /\ life \in sweeps
    /\ items' = Without(Expired)
    /\ UNCHANGED <<cacheLive, cacheNow, sets, cacheLives, sweeps, getting>>

SweepEnds(life) ==
    /\ life \in sweeps /\ (life < cacheLives \/ ~cacheLive)
    /\ sweeps' = sweeps \ {life}
    /\ UNCHANGED <<items, cacheLive, cacheNow, sets, cacheLives, getting>>

(***************************************************************************)
(* Set, Delete, Get; Exists is Get up to its lazy deletion                 *)
(***************************************************************************)
\* enforce max entries for new keys
Full(k) == MaxEntries > 0 /\ k \notin Stored /\ Cardinality(Stored) >= MaxEntries

\* A full cache without an expired entry refuses: no step.
CacheSet(k, ttl) ==
    LET entry == [value |-> sets + 1, expires |-> IF ttl = 0 THEN 0 ELSE cacheNow + ttl] IN
    /\ cacheLive /\ sets < MaxCacheSets
    /\ \/ ~Full(k) /\ items' = [items EXCEPT ![k] = entry]
       \/ Full(k) /\ \E out \in Expired : items' = [Without({out}) EXCEPT ![k] = entry]
    /\ sets' = sets + 1
    /\ UNCHANGED <<cacheLive, cacheNow, cacheLives, sweeps, getting>>

CacheDelete(k) ==
    /\ cacheLive /\ Live(k)
    /\ items' = Without({k})
    /\ UNCHANGED <<cacheLive, cacheNow, sets, cacheLives, sweeps, getting>>

GetAt(p, changes) ==
    /\ getting' = [getting EXCEPT ![p] = changes]
    /\ UNCHANGED <<cacheLive, cacheNow, sets, cacheLives, sweeps>>

\* Under the read lock; a key that is not there is a miss at once.
GetReads(p, k) ==
    /\ getting[p].at = "idle" /\ cacheLive /\ k \in Stored
    /\ GetAt(p, [at |-> "read", key |-> k, entry |-> items[k]])
    /\ UNCHANGED items

\* Without the lock: a hit, or the entry has expired.
GetDecides(p) ==
    /\ getting[p].at = "read"
    /\ GetAt(p, IF IsExpired(getting[p].entry) THEN [getting[p] EXCEPT !.at = "delete"]
                ELSE NotGetting)
    /\ UNCHANGED items

\* Under the write lock again: what is there now is looked at once more.
\* Fault: it is not.
LazilyDeleted_blind(k) == {k}
LazilyDeleted(k) == {k} \cap Expired

GetDeletes(p) ==
    /\ getting[p].at = "delete"
    /\ items' = Without(LazilyDeleted(getting[p].key))
    /\ GetAt(p, NotGetting)

CacheTick ==
    /\ cacheNow < CacheClockEnd
    /\ cacheNow' = cacheNow + 1
    /\ UNCHANGED <<items, cacheLive, sets, cacheLives, sweeps, getting>>

CacheNext ==
    \/ CacheOpen \/ CacheClose \/ CacheTick
    \/ \E life \in sweeps : Sweep(life) \/ SweepEnds(life)
    \/ \E k \in CacheKeys :
        \/ CacheDelete(k) \/ \E ttl \in TTLs : CacheSet(k, ttl)
        \/ \E p \in CacheCallers : GetReads(p, k)
    \/ \E p \in CacheCallers : GetDecides(p) \/ GetDeletes(p)

\* A running goroutine's ticker fires for ever.
CacheFairness == \A life \in 1..MaxCacheLives : WF_cacheVars(Sweep(life)) /\ WF_cacheVars(SweepEnds(life))
CacheSpec == CacheInit /\ [][CacheNext]_cacheVars /\ CacheFairness

(***************************************************************************)
(* Properties                                                              *)
(***************************************************************************)
\* An entry that has not expired leaves the map only by a Delete, an
\* overwriting Set or a Close, never by an eviction, a sweep or another
\* request's lazy deletion of the entry it replaced.
LiveEntriesStay ==
    [][\A k \in CacheKeys :
          Live(k) /\ items'[k] = NoEntry => CacheDelete(k) \/ CacheClose]_cacheVars
=============================================================================
