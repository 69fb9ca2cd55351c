-------------------------- MODULE MemoryCacheStore --------------------------
(***************************************************************************)
(* The storage of MemoryCacheBackend (src/pydecorators/cache_result.py):   *)
(* an OrderedDict of entries, its statistics and its clock, with one       *)
(* operator per locked section.  The backend's RLock makes each of them    *)
(* atomic; MemoryCacheBackend and CacheResult build their actions from     *)
(* them.  What set_value and set_exception do before they take the lock,   *)
(* computing expires_at, is left to those modules: ExpiresAt and SetEntry  *)
(* are separate steps there.                                               *)
(***************************************************************************)
EXTENDS Integers, FiniteSets

CONSTANTS
    Keys,           \* hashable cache keys
    TTL,            \* ttl in clock ticks, or None
    MaxSize,        \* maxsize, or None
    RefreshTTL,     \* refresh_ttl_on_hit
    MaxTime         \* bound on the clock

None == -1

\* MemoryCacheBackend.__init__ rejects every other configuration.
ValidStore ==
    /\ TTL \in (Nat \ {0}) \cup {None}
    /\ MaxSize \in (Nat \ {0}) \cup {None}
    /\ RefreshTTL \in BOOLEAN

ASSUME StoreAssumption == ValidStore /\ MaxTime \in Nat

VARIABLES
    now,            \* clock()
    cache,          \* the OrderedDict: a function from the held keys to entries
    older,          \* its order: <<j, k>> when j is nearer the least recent end than k
    hits,
    misses

storeVars == <<cache, older, hits, misses>>

Held == DOMAIN cache

StoreInit ==
    /\ now = 0
    /\ cache = [k \in {} |-> None]
    /\ older = {}
    /\ hits = 0
    /\ misses = 0

IsExpired(e) == e.expires_at # None /\ now >= e.expires_at

ExpiresAt == IF TTL = None THEN None ELSE now + TTL

\* Some thread can still be served the entry of key.
Live(key) == key \in Held /\ ~IsExpired(cache[key])

\* The order of `keys`, a set with key in it, after move_to_end(key).
MovedToEnd(key, keys) ==
    {p \in older : p[1] # key} \cup ((keys \ {key}) \X {key})

\* What is left when only `keys` stay.
Keep(keys) ==
    /\ cache' = [k \in keys |-> cache[k]]
    /\ older' = older \cap (keys \X keys)

\* Bug in get: a hit adds ttl to the old deadline.
GetHit_AddsTTL(key) ==
    /\ Live(key)
    /\ cache' = [cache EXCEPT ![key].expires_at = @ + TTL]
    /\ older' = MovedToEnd(key, Held)
    /\ hits' = hits + 1
    /\ UNCHANGED misses

\* get: the entry is served, moved to the recent end and, if so configured,
\* given a new deadline.
GetHit(key) ==
    /\ Live(key)
    /\ cache' = IF RefreshTTL THEN [cache EXCEPT ![key].expires_at = ExpiresAt] ELSE cache
    /\ older' = MovedToEnd(key, Held)
    /\ hits' = hits + 1
    /\ UNCHANGED misses

\* get: no entry, or an expired one, which is dropped.
GetMiss(key) ==
    /\ ~Live(key)
    /\ Keep(Held \ {key})
    /\ misses' = misses + 1
    /\ UNCHANGED hits

\* _evict_if_needed: drop from the least recent end; an entry is left when fewer
\* than maxsize are more recent.
Newer(k, keys, order) == {j \in keys : <<k, j>> \in order}
Left(keys, order) ==
    IF MaxSize = None THEN keys
    ELSE {k \in keys : Cardinality(Newer(k, keys, order)) < MaxSize}

\* The entry is written, with `order` the order it gives, and room is made.
Write(entry, order) ==
    LET left == Left(Held \cup {entry.key}, order)
    IN  /\ cache' = [k \in left |-> IF k = entry.key THEN entry ELSE cache[k]]
        /\ older' = order \cap (left \X left)
        /\ UNCHANGED <<hits, misses>>

\* Bug: a rewritten key keeps its old place in the order.
SetEntry_NoMove(entry) ==
    Write(entry, IF entry.key \in Held THEN older
                 ELSE MovedToEnd(entry.key, Held \cup {entry.key}))

\* _set_entry: replace or insert at the recent end, then make room.
SetEntry(entry) == Write(entry, MovedToEnd(entry.key, Held \cup {entry.key}))

\* Bug: clear forgets one of the counters.
ClearStore_KeepsMisses ==
    /\ Keep({})
    /\ hits' = 0
    /\ UNCHANGED misses

\* clear
ClearStore ==
    /\ Keep({})
    /\ hits' = 0
    /\ misses' = 0

\* info prunes before it reports.
Prune ==
    /\ Keep({k \in Held : ~IsExpired(cache[k])})
    /\ UNCHANGED <<hits, misses>>

Advance ==
    /\ now < MaxTime
    /\ now' = now + 1
=============================================================================
