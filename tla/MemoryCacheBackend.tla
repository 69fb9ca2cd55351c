------------------------- MODULE MemoryCacheBackend -------------------------
(***************************************************************************)
(* MemoryCacheBackend (src/pydecorators/cache_result.py) used by several   *)
(* threads at once.  Every method body under the RLock is one action; a    *)
(* write is two, because set_value and set_exception compute expires_at    *)
(* before _set_entry takes the lock.                                       *)
(***************************************************************************)
EXTENDS MemoryCacheStore

CONSTANTS
    Clients,        \* threads
    Payloads,       \* results or exceptions of the wrapped function
    MaxCalls        \* bound on the number of backend calls

ASSUME MaxCallsAssumption == MaxCalls \in Nat

VARIABLES
    call,           \* call[c]: the request or answer thread c holds
    invoked,        \* calls made so far, at most MaxCalls
    recency         \* history: <<j, k>> when j was not used since the last use of k

vars == <<now, storeVars, call, invoked, recency>>

Contents == [payload : Payloads, is_exception : BOOLEAN]
\* What a reader of an entry is given.
Content(e) == [payload |-> e.payload, is_exception |-> e.is_exception]
Idle == [op |-> "idle"]
Requests ==
    [op : {"get"}, key : Keys]
    \cup [op : {"set"}, key : Keys, content : Contents]
    \cup [op : {"clear", "info"}]

Answer(c, answer) == call' = [call EXCEPT ![c] = answer]
\* A hit or a write is the latest use: every other key was used before it, or never.
Used(key) ==
    recency' = {p \in recency : p[1] # key} \cup ((Keys \ {key}) \X {key})

Init ==
    /\ StoreInit
    /\ call = [c \in Clients |-> Idle]
    /\ invoked = 0
    /\ recency = {}

Invoke(c) ==
    /\ call[c] = Idle
    /\ invoked < MaxCalls
    /\ invoked' = invoked + 1
    /\ \E r \in Requests : Answer(c, r)
    /\ UNCHANGED <<now, storeVars, recency>>

Hit(c) ==
    /\ call[c].op = "get"
    /\ GetHit(call[c].key)
    /\ Answer(c, [op |-> "hit", content |-> Content(cache[call[c].key])])
    /\ Used(call[c].key)
    /\ UNCHANGED <<now, invoked>>

Miss(c) ==
    /\ call[c].op = "get"
    /\ GetMiss(call[c].key)
    /\ Answer(c, [op |-> "miss"])
    /\ UNCHANGED <<now, invoked, recency>>

\* Bug: the payload and the flag of the entry are swapped.
Stamp_Swapped(c) ==
    /\ call[c].op = "set"
    /\ Answer(c, [op |-> "store", entry |->
            [key |-> call[c].key,
             payload |-> call[c].content.is_exception,
             is_exception |-> call[c].content.payload,
             expires_at |-> ExpiresAt]])
    /\ UNCHANGED <<now, storeVars, invoked, recency>>

\* set_value and set_exception: build the entry, before the lock is taken.
Stamp(c) ==
    /\ call[c].op = "set"
    /\ Answer(c, [op |-> "store", entry |->
            [key |-> call[c].key,
             payload |-> call[c].content.payload,
             is_exception |-> call[c].content.is_exception,
             expires_at |-> ExpiresAt]])
    /\ UNCHANGED <<now, storeVars, invoked, recency>>

Store(c) ==
    /\ call[c].op = "store"
    /\ SetEntry(call[c].entry)
    /\ Answer(c, [op |-> "done"])
    /\ Used(call[c].entry.key)
    /\ UNCHANGED <<now, invoked>>

Clear(c) ==
    /\ call[c].op = "clear"
    /\ ClearStore
    /\ Answer(c, [op |-> "done"])
    /\ UNCHANGED <<now, invoked, recency>>

Info(c) ==
    /\ call[c].op = "info"
    /\ Prune
    /\ Answer(c, [op |-> "report", hits |-> hits, misses |-> misses,
                  currsize |-> Cardinality(Held')])
    /\ UNCHANGED <<now, invoked, recency>>

Return(c) ==
    /\ call[c].op \in {"hit", "miss", "done", "report"}
    /\ Answer(c, Idle)
    /\ UNCHANGED <<now, storeVars, invoked, recency>>

Tick ==
    /\ Advance
    /\ UNCHANGED <<storeVars, call, invoked, recency>>

Next ==
    \/ \E c \in Clients :
         \/ Invoke(c) \/ Hit(c) \/ Miss(c) \/ Stamp(c)
         \/ Store(c) \/ Clear(c) \/ Info(c) \/ Return(c)
    \/ Tick

Spec == Init /\ [][Next]_vars

-----------------------------------------------------------------------------
(* Properties *)

EntryType ==
    [key : Keys, payload : Payloads, is_exception : BOOLEAN,
     expires_at : {None} \cup Nat]

CallStates ==
    Requests
    \cup [op : {"idle", "miss", "done"}]
    \cup [op : {"hit"}, content : Contents]
    \cup [op : {"store"}, entry : EntryType]
    \cup [op : {"report"}, hits : Nat, misses : Nat, currsize : Nat]

TypeOK ==
    /\ now \in 0..MaxTime
    /\ Held \subseteq Keys /\ cache \in [Held -> EntryType]
    /\ \A k \in Held : cache[k].key = k
    /\ MaxSize # None => Cardinality(Held) <= MaxSize
    /\ older \subseteq Held \X Held
    /\ hits \in Nat /\ misses \in Nat
    /\ invoked \in 0..MaxCalls
    /\ recency \subseteq Keys \X Keys
    /\ call \in [Clients -> CallStates]

\* A stored or refreshed deadline is never further away than one ttl: whatever
\* order stamps and writes of different threads take, and however often a
\* refreshed entry is hit, an entry nobody touches for ttl is no longer served.
\* Without ttl there is no deadline at all.
Timely(e) == IF TTL = None THEN e.expires_at = None ELSE e.expires_at \in 0..(now + TTL)
NeverOverstays == \A k \in Held : Timely(cache[k])

\* docs/cache_result.md: when maxsize is exceeded, the least recently used entry
\* is evicted.  A key that a write of another key pushes out was used less
\* recently than every key that stays.
EvictsLeastRecent ==
    [][\A c \in Clients, gone \in Held \ Held' :
         call[c].op = "store" /\ call'[c].op = "done" =>
            \A stays \in Held' \ {call[c].entry.key} : <<gone, stays>> \in recency]_vars

\* A write whose entry is stamped, but not stored yet, has not happened yet.
Pending(c) ==
    IF call[c].op = "store"
    THEN [op |-> "set", key |-> call[c].entry.key, content |-> Content(call[c].entry)]
    ELSE call[c]

\* The backend is an atomic map that may forget entries but never invents, mixes
\* up or brings back one, and whose statistics count the lookups since clear.
Contract == INSTANCE CacheContract WITH
    call <- [c \in Clients |-> Pending(c)],
    kept <- [k \in Held |-> Content(cache[k])],
    found <- hits,
    missed <- misses,
    Remote <- FALSE
ImplementsContract == Contract!Spec
=============================================================================
