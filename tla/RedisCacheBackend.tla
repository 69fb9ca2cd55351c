------------------------- MODULE RedisCacheBackend -------------------------
(***************************************************************************)
(* RedisCacheBackend (src/pydecorators/redis_backend.py): processes that   *)
(* share a key prefix of one Redis server.  There is no lock and no        *)
(* transaction, so every command a method sends is an action of its own,   *)
(* and between two of them other users may send theirs, entries may        *)
(* expire, and the connection may break (Fail).                            *)
(*                                                                         *)
(* A method in progress is the record call[c]: `op` names the next         *)
(* command, the other fields are its local variables.                      *)
(***************************************************************************)
EXTENDS Integers, FiniteSets, FiniteSetsExt

CONSTANTS
    Clients,        \* processes with a backend object
    Keys,           \* cache keys: _entry_key maps them one to one
    Contents,       \* payload and is_exception of an entry
    Foreign,        \* what another program leaves under the prefix; also its name
    MaxSize,        \* maxsize, or None
    MaxCalls        \* who may share the prefix, with a bound on their method calls

None == -1

\* __init__ rejects every other maxsize.
ValidConfig == MaxSize \in (Nat \ {0}) \cup {None}

ASSUME RedisAssumption ==
    /\ ValidConfig
    /\ Foreign \notin Contents \cup Clients
    /\ DOMAIN MaxCalls \subseteq SUBSET (Clients \cup {Foreign})
    /\ MaxCalls \in [DOMAIN MaxCalls -> Nat]

VARIABLES
    users,          \* who shares the prefix in this behaviour
    store,          \* {prefix}:entry:*, a function from the keys that exist
    hits, misses,   \* {prefix}:stats:hits and misses
    counter,        \* {prefix}:stats:counter
    call,           \* the method each client is in
    invoked,        \* method calls made so far, at most MaxCalls[users]
    latest,         \* history: what was last stored under a key and not cleared since
    overlapped,     \* history: keys whose last store or clear overlapped a lookup
    unaccounted,    \* history: entries no completed eviction accounts for
    recency         \* history, for a lone client: <<j, k>> when j was not used since k was

redis == <<store, hits, misses, counter>>
history == <<latest, overlapped, unaccounted, recency>>
vars == <<users, redis, call, invoked, history>>

\* One client, and nobody else.
Alone == \E c \in Clients : users = {c}
Idle == [op |-> "idle"]
Requests ==
    [op : {"get"}, key : Keys]
    \cup [op : {"set"}, key : Keys, content : Contents]
    \cup [op : {"clear", "info"}]

Init ==
    /\ users \in DOMAIN MaxCalls
    /\ store = [k \in {} |-> Idle]
    /\ hits = 0 /\ misses = 0 /\ counter = 0
    /\ call = [c \in Clients |-> Idle]
    /\ invoked = 0
    /\ latest = [k \in Keys |-> None]
    /\ overlapped = {}
    /\ unaccounted = {}
    /\ recency = {}

-----------------------------------------------------------------------------
(* Commands *)

Continue(c, next) == call' = [call EXCEPT ![c] = next]

\* SET
Put(k, entry) ==
    store' = [j \in DOMAIN store \cup {k} |-> IF j = k THEN entry ELSE store[j]]

\* DEL, or expiry
Drop(keys) ==
    /\ store' = [k \in DOMAIN store \ keys |-> store[k]]
    /\ unaccounted' = unaccounted \ keys

\* INCR of the access counter for the envelope of an entry that is to be SET.
Stamp(c, next) ==
    /\ counter' = counter + 1
    /\ Continue(c, [op |-> next, key |-> call[c].key, entry |->
            [content |-> call[c].content, last_accessed |-> counter + 1]])
    /\ UNCHANGED <<users, store, hits, misses, invoked, history>>

Used(k) ==
    recency' = IF Alone THEN {p \in recency : p[1] # k} \cup ((Keys \ {k}) \X {k}) ELSE recency

\* Some lookup has read the entry of k and may write it back.
BeingRead(k) ==
    \E c \in Clients : call[c].op \in {"count_hit", "touch", "write_back"} /\ call[c].key = k

\* The entries of `keys` are replaced, or cleared, by `content`.
Supersede(keys, content) ==
    /\ latest' = [k \in Keys |-> IF k \in keys THEN content ELSE latest[k]]
    /\ overlapped' = {k \in Keys : IF k \in keys THEN BeingRead(k) ELSE k \in overlapped}

-----------------------------------------------------------------------------
(* get *)

Invoke(c) ==
    /\ c \in users
    /\ call[c] = Idle
    /\ invoked < MaxCalls[users]
    /\ invoked' = invoked + 1
    /\ \E r \in Requests : Continue(c, r)
    /\ UNCHANGED <<users, redis, history>>

\* GET, and _decode_entry: an envelope of another schema or serializer fails.
Read(c) ==
    LET k == call[c].key
    IN  /\ call[c].op = "get"
        /\ IF k \notin DOMAIN store THEN Continue(c, [op |-> "count_miss", key |-> k])
           ELSE IF store[k].content = Foreign THEN Continue(c, [op |-> "discard", key |-> k])
           ELSE Continue(c, [op |-> "count_hit", key |-> k, content |-> store[k].content])
        /\ UNCHANGED <<users, redis, invoked, history>>

\* DEL of the entry that could not be decoded, or of what has replaced it.
Discard(c) ==
    /\ call[c].op = "discard"
    /\ Drop({call[c].key})
    /\ Continue(c, [op |-> "count_miss", key |-> call[c].key])
    /\ UNCHANGED <<users, hits, misses, counter, invoked, latest, overlapped, recency>>

CountMiss(c) ==
    /\ call[c].op = "count_miss"
    /\ misses' = misses + 1
    /\ Continue(c, [op |-> "miss"])
    /\ UNCHANGED <<users, store, hits, counter, invoked, history>>

CountHit(c) ==
    /\ call[c].op = "count_hit"
    /\ hits' = hits + 1
    /\ Continue(c, [op |-> "touch", key |-> call[c].key, content |-> call[c].content])
    /\ UNCHANGED <<users, store, misses, counter, invoked, history>>

Touch(c) ==
    /\ call[c].op = "touch"
    /\ Stamp(c, "write_back")

\* Bug: the entry is written back under the stamp it had.
WriteBack_OldStamp(c) ==
    LET k == call[c].key
    IN  /\ call[c].op = "write_back"
        /\ Put(k, [call[c].entry EXCEPT !.last_accessed =
                IF k \in DOMAIN store THEN store[k].last_accessed ELSE @])
        /\ Used(k)
        /\ unaccounted' = IF k \in DOMAIN store THEN unaccounted ELSE unaccounted \cup {k}
        /\ Continue(c, [op |-> "hit", content |-> call[c].entry.content])
        /\ UNCHANGED <<users, hits, misses, counter, invoked, latest, overlapped>>

\* Bug: the whole envelope becomes the payload.
WriteBack_Nested(c) ==
    LET k == call[c].key
    IN  /\ call[c].op = "write_back"
        /\ Put(k, [content |-> call[c].entry, last_accessed |-> call[c].entry.last_accessed])
        /\ Used(k)
        /\ unaccounted' = IF k \in DOMAIN store THEN unaccounted ELSE unaccounted \cup {k}
        /\ Continue(c, [op |-> "hit", content |-> call[c].entry.content])
        /\ UNCHANGED <<users, hits, misses, counter, invoked, latest, overlapped>>

\* _touch_entry: SET of what was read, whatever is there now.
WriteBack(c) ==
    LET k == call[c].key
    IN  /\ call[c].op = "write_back"
        /\ Put(k, call[c].entry)
        /\ Used(k)
        /\ unaccounted' = IF k \in DOMAIN store THEN unaccounted ELSE unaccounted \cup {k}
        /\ Continue(c, [op |-> "hit", content |-> call[c].entry.content])
        /\ UNCHANGED <<users, hits, misses, counter, invoked, latest, overlapped>>

-----------------------------------------------------------------------------
(* set_value and set_exception *)

Encode(c) ==
    /\ call[c].op = "set"
    /\ Stamp(c, "put")

\* Bug: SET with NX, so an entry that exists stays.
Write_IfAbsent(c) ==
    LET k == call[c].key
    IN  /\ call[c].op = "put"
        /\ IF k \in DOMAIN store THEN UNCHANGED store ELSE Put(k, call[c].entry)
        /\ Used(k)
        /\ Supersede({k}, call[c].entry.content)
        /\ unaccounted' = unaccounted \ {k}
        /\ Continue(c, IF MaxSize = None THEN [op |-> "done"] ELSE [op |-> "scan", key |-> k])
        /\ UNCHANGED <<users, hits, misses, counter, invoked>>

\* SET, and on to the eviction if there is a maxsize.
Write(c) ==
    LET k == call[c].key
    IN  /\ call[c].op = "put"
        /\ Put(k, call[c].entry)
        /\ Used(k)
        /\ Supersede({k}, call[c].entry.content)
        /\ unaccounted' = unaccounted \ {k}
        /\ Continue(c, IF MaxSize = None THEN [op |-> "done"] ELSE [op |-> "scan", key |-> k])
        /\ UNCHANGED <<users, hits, misses, counter, invoked>>

\* _evict_if_needed: SCAN, taken to be one step.
Scan(c) ==
    LET surplus == Cardinality(DOMAIN store) - MaxSize
    IN  /\ call[c].op = "scan"
        /\ IF surplus <= 0
           THEN Continue(c, [op |-> "done"]) /\ unaccounted' = {}
           ELSE /\ Continue(c, [op |-> "age", key |-> call[c].key, surplus |-> surplus,
                                unread |-> DOMAIN store, aged |-> {}])
                /\ UNCHANGED unaccounted
        /\ UNCHANGED <<users, redis, invoked, latest, overlapped, recency>>

\* GET of one scanned entry, in the order of the scan, which is any.
Age(c) ==
    /\ call[c].op = "age"
    /\ \E k \in call[c].unread :
         Continue(c, [op |-> "age", key |-> call[c].key, surplus |-> call[c].surplus,
                      unread |-> call[c].unread \ {k},
                      aged |-> call[c].aged \cup
                        {[key |-> j, last_accessed |-> store[j].last_accessed] :
                            j \in {k} \cap DOMAIN store}])
    /\ UNCHANGED <<users, redis, invoked, history>>

\* The oldest of the aged entries, as many as there were too many in the scan.
Oldest(c) ==
    {old \in SUBSET call[c].aged :
        /\ Cardinality(old) = Min({call[c].surplus, Cardinality(call[c].aged)})
        /\ \A a \in old, b \in call[c].aged \ old : a.last_accessed <= b.last_accessed}

\* Bug: the surplus is counted too low.
Evict_OneLess(c) ==
    /\ call[c].op = "age"
    /\ call[c].unread = {}
    /\ \E old \in Oldest(c) : \E spared \in old : Drop({a.key : a \in old \ {spared}})
    /\ Continue(c, [op |-> "done"])
    /\ UNCHANGED <<users, hits, misses, counter, invoked, latest, overlapped, recency>>

\* DEL of all of them in one command.  Without any it is refused (Fail) or idle.
Evict(c) ==
    /\ call[c].op = "age"
    /\ call[c].unread = {}
    /\ \E old \in Oldest(c) : Drop({a.key : a \in old})
    /\ Continue(c, [op |-> "done"])
    /\ UNCHANGED <<users, hits, misses, counter, invoked, latest, overlapped, recency>>

-----------------------------------------------------------------------------
(* clear and info *)

ScanAll(c) ==
    /\ call[c].op = "clear"
    /\ Continue(c, [op |-> "wipe", keys |-> DOMAIN store])
    /\ UNCHANGED <<users, redis, invoked, history>>

\* Bug: the statistics are not among the deleted keys.
Wipe_KeepsStats(c) ==
    /\ call[c].op = "wipe"
    /\ Drop(call[c].keys)
    /\ Supersede(call[c].keys, None)
    /\ Continue(c, [op |-> "done"])
    /\ UNCHANGED <<users, hits, misses, counter, invoked, recency>>

\* One DEL for the entries seen and the statistics.
Wipe(c) ==
    /\ call[c].op = "wipe"
    /\ Drop(call[c].keys)
    /\ hits' = 0 /\ misses' = 0 /\ counter' = 0
    /\ Supersede(call[c].keys, None)
    /\ Continue(c, [op |-> "done"])
    /\ UNCHANGED <<users, invoked, recency>>

ReadHits(c) ==
    /\ call[c].op = "info"
    /\ Continue(c, [op |-> "read_misses", hits |-> hits])
    /\ UNCHANGED <<users, redis, invoked, history>>

ReadMisses(c) ==
    /\ call[c].op = "read_misses"
    /\ Continue(c, [op |-> "count_entries", hits |-> call[c].hits, misses |-> misses])
    /\ UNCHANGED <<users, redis, invoked, history>>

CountEntries(c) ==
    /\ call[c].op = "count_entries"
    /\ Continue(c, [op |-> "report", hits |-> call[c].hits, misses |-> call[c].misses,
                    currsize |-> Cardinality(DOMAIN store)])
    /\ UNCHANGED <<users, redis, invoked, history>>

-----------------------------------------------------------------------------

Answered(c) == call[c].op \in {"hit", "miss", "done", "report"}

Return(c) ==
    /\ Answered(c)
    /\ Continue(c, Idle)
    /\ UNCHANGED <<users, redis, invoked, history>>

\* A command fails, or the process ends: what the method has done stays.
Fail(c) ==
    /\ call[c] # Idle
    /\ ~Answered(c)
    /\ Continue(c, Idle)
    /\ unaccounted' =
         IF call[c].op \in {"scan", "age"} THEN unaccounted \cup ({call[c].key} \cap DOMAIN store)
         ELSE unaccounted
    /\ UNCHANGED <<users, redis, invoked, latest, overlapped, recency>>

\* ttl, kept by the server.
Expire(k) ==
    /\ k \in DOMAIN store
    /\ Drop({k})
    /\ UNCHANGED <<users, hits, misses, counter, call, invoked, latest, overlapped, recency>>

\* Another program, or a backend with another serializer, uses the prefix; only
\* the latter has stamps.
ForeignWrite(k) ==
    /\ Foreign \in users
    /\ \E stamp \in {0, counter} : Put(k, [content |-> Foreign, last_accessed |-> stamp])
    /\ unaccounted' = unaccounted \cup {k}
    /\ UNCHANGED <<users, hits, misses, counter, call, invoked, latest, overlapped, recency>>

Get(c) == Read(c) \/ Discard(c) \/ CountMiss(c) \/ CountHit(c) \/ Touch(c) \/ WriteBack(c)
Set(c) == Encode(c) \/ Write(c) \/ Scan(c) \/ Age(c) \/ Evict(c)
Clear(c) == ScanAll(c) \/ Wipe(c)
Info(c) == ReadHits(c) \/ ReadMisses(c) \/ CountEntries(c)

Next ==
    \/ \E c \in Clients :
         Invoke(c) \/ Get(c) \/ Set(c) \/ Clear(c) \/ Info(c) \/ Return(c) \/ Fail(c)
    \/ \E k \in Keys : Expire(k) \/ ForeignWrite(k)

Spec == Init /\ [][Next]_vars

-----------------------------------------------------------------------------
(* Properties *)

EntryType == [content : Contents \cup {Foreign}, last_accessed : Nat]
InProgress ==
    [op : {"get", "discard", "count_miss", "scan"}, key : Keys]
    \cup [op : {"set", "count_hit", "touch"}, key : Keys, content : Contents]
    \cup [op : {"put", "write_back"}, key : Keys,
          entry : [content : Contents, last_accessed : Nat \ {0}]]
    \cup [op : {"age"}, key : Keys, surplus : Nat \ {0}, unread : SUBSET Keys,
          aged : SUBSET [key : Keys, last_accessed : Nat]]
    \cup [op : {"clear", "info"}]
    \cup [op : {"wipe"}, keys : SUBSET Keys]
    \cup [op : {"read_misses"}, hits : Nat]
    \cup [op : {"count_entries"}, hits : Nat, misses : Nat]
Answers ==
    [op : {"hit"}, content : Contents]
    \cup [op : {"miss", "done"}]
    \cup [op : {"report"}, hits : Nat, misses : Nat, currsize : Nat]

TypeOK ==
    /\ users \in DOMAIN MaxCalls
    /\ DOMAIN store \subseteq Keys
    /\ \A k \in DOMAIN store : store[k] \in EntryType
    /\ hits \in Nat /\ misses \in Nat /\ counter \in Nat
    /\ call \in [Clients -> {Idle} \cup InProgress \cup Answers]
    /\ invoked \in 0..MaxCalls[users]
    /\ latest \in [Keys -> Contents \cup {None}]
    /\ overlapped \subseteq Keys
    /\ unaccounted \subseteq DOMAIN store
    /\ recency \subseteq Keys \X Keys

\* docs/cache_result.md: set_value replaces the previous value of the key, and
\* clear removes the entries.  An entry is the one last stored unless that store,
\* or the clear after it, came between the read and the write-back of a lookup:
\* overlapping stores, failures, expiry and foreign entries undo nothing.
LatestUnlessOverlapped ==
    \A k \in DOMAIN store \ overlapped : store[k].content \in {latest[k], Foreign}

\* maxsize: when no eviction is under way, there are too many entries only by
\* those a lookup wrote back after they were gone, those whose writer failed
\* before it evicted, and foreign ones.  Concurrent evictions, each from its own
\* outdated scan, leave no other surplus.
SizeBounded ==
    MaxSize # None /\ (\A c \in Clients : call[c].op \notin {"scan", "age"}) =>
        Cardinality(DOMAIN store \ unaccounted) <= MaxSize

\* docs/cache_result.md: LRU eviction where the backend exposes maxsize.  A lone
\* client evicts by order of use although entries expire while it looks at them.
EvictsLeastRecent ==
    [][Alone => \A c \in users, gone \in DOMAIN store \ DOMAIN store' :
         call[c].op = "age" /\ call'[c].op = "done" =>
            \A stays \in DOMAIN store' : <<gone, stays>> \in recency]_vars

\* For a lone client a lookup takes effect when it is counted; the entry it has
\* read counts as kept until it is written back.
LookupOf(c) == call[c].op \in {"count_hit", "touch", "write_back"}
ContentRead(c) == IF call[c].op = "write_back" THEN call[c].entry.content ELSE call[c].content
ReadBack == {call[c].key : c \in {d \in users : LookupOf(d)}}

Reader(k) == CHOOSE c \in users : LookupOf(c) /\ call[c].key = k
Kept ==
    [k \in DOMAIN store \cup ReadBack |->
        IF k \in DOMAIN store THEN store[k].content ELSE ContentRead(Reader(k))]

\* What a method has yet to do, or has done, as the contract sees it.
Pending(c) ==
    LET m == call[c]
    IN  CASE m.op \in {"discard", "count_miss", "count_hit"} -> [op |-> "get", key |-> m.key]
          [] m.op \in {"touch", "write_back"} -> [op |-> "hit", content |-> ContentRead(c)]
          [] m.op = "put" -> [op |-> "set", key |-> m.key, content |-> m.entry.content]
          [] m.op \in {"scan", "age"} -> [op |-> "done"]
          [] m.op = "wipe" -> [op |-> "clear"]
          [] m.op \in {"read_misses", "count_entries"} -> [op |-> "info"]
          [] OTHER -> m

Contract == INSTANCE CacheContract WITH
    call <- [c \in Clients |-> Pending(c)],
    kept <- Kept,
    found <- hits,
    missed <- misses,
    Remote <- TRUE

\* A lone client has the backend of the contract, although every method is a
\* sequence of commands between which entries expire and the connection breaks.
ImplementsContract ==
    /\ Alone => Contract!Init
    /\ [][Alone => [Contract!Next]_(Contract!vars)]_vars
=============================================================================
