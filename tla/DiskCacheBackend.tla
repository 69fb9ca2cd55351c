------------------------- MODULE DiskCacheBackend -------------------------
(***************************************************************************)
(* DiskCacheBackend (src/pydecorators/cache_result.py): backend objects    *)
(* over one SQLite file.  The threads of a process share a backend and its *)
(* lock; the backends of several processes share nothing but the file.     *)
(* Each transaction is one action, and so is each SELECT outside of one:   *)
(* a lookup selects a row first and acts on it in a transaction of its     *)
(* own.  Between two actions other threads and processes run, a process    *)
(* may crash, the machine may reboot and a row may rot.                    *)
(*                                                                         *)
(* A method in progress is the record call[c]: `op` names the next step,   *)
(* `now` is what it read from the clock before it took the lock.           *)
(***************************************************************************)
EXTENDS Integers, FiniteSets

CONSTANTS
    Clients,        \* threads
    Keys,           \* cache keys, one to one with their serialised form
    Contents,       \* payload and is_exception of an entry
    Corrupt,        \* a payload the serializer cannot load
    Backends,       \* DiskCacheBackend objects
    Types,          \* content types of serializers
    MaxSize,        \* maxsize, or None
    Limits,         \* arguments of inspect_entries and inspect_aggregate
    Lag,            \* bound: how long a call may take
    EndTime,        \* bound of the time
    Setups          \* who uses which backend, with ttl, options and a bound on calls

None == -1
Options == {"refresh", "keep_corrupt", "crash", "reboot", "rot"}

\* __init__ rejects every other ttl and maxsize, the inspections every other limit.
ValidConfig ==
    /\ \A s \in Setups : s.ttl \in (Nat \ {0}) \cup {None}
    /\ MaxSize \in (Nat \ {0}) \cup {None}
    /\ Limits \subseteq Nat \ {0}

ASSUME DiskAssumption ==
    /\ ValidConfig
    /\ Corrupt \notin Contents /\ None \notin Contents
    /\ Lag \in Nat /\ EndTime \in Nat
    /\ \A s \in Setups :
         /\ s.users \subseteq Clients
         /\ s.backend \in [s.users -> Backends]
         /\ s.type \in [Backends -> Types]
         /\ s.options \subseteq Options
         /\ s.calls \in Nat

VARIABLES
    setup,          \* the member of Setups this behaviour is about
    rows,           \* cache_entries, a function from the keys that have a row
    hits, misses,   \* cache_stats
    open,           \* backends with an open connection
    call,           \* the method each client is in
    time, bootedAt, \* the time and that of the last boot
    invoked,        \* method calls made so far, at most setup.calls
    latest,         \* history: what a key was last stored with, None once it is deleted
    stored, used    \* history: when a key was last stored, and last used

file == <<rows, hits, misses>>
clock == <<time, bootedAt>>
history == <<latest, stored, used>>
vars == <<setup, file, open, call, clock, invoked, history>>

Idle == [op |-> "idle"]
NoRow == [content |-> None]

Init ==
    /\ setup \in Setups
    /\ rows = [k \in {} |-> NoRow]
    /\ hits = 0 /\ misses = 0
    /\ open = {}
    /\ call = [c \in Clients |-> Idle]
    /\ time = 0 /\ bootedAt = 0
    /\ invoked = 0
    /\ latest = [k \in Keys |-> None]
    /\ stored = [k \in Keys |-> 0]
    /\ used = [k \in Keys |-> 0]

-----------------------------------------------------------------------------

\* time.monotonic
Clock == time - bootedAt

Continue(c, next) == call' = [call EXCEPT ![c] = next]

BackendOf(c) == setup.backend[c]
TypeOf(c) == setup.type[BackendOf(c)]

\* The lock is held over two steps only by these.
HoldsLock(c) == call[c].op \in {"found", "listed", "vacuum"}
LockedBy(b) == {c \in setup.users : HoldsLock(c) /\ BackendOf(c) = b}

\* with self._lock: self._ensure_open()
Enter(c) == LockedBy(BackendOf(c)) = {} /\ BackendOf(c) \in open

ExpiresAt(now) == IF setup.ttl = None THEN None ELSE now + setup.ttl
Expired(row, now) == row.expires_at # None /\ now >= row.expires_at
Servable(row, now, type) ==
    ~Expired(row, now) /\ row.type = type /\ row.content # Corrupt

RowAt(k) == IF k \in DOMAIN rows THEN rows[k] ELSE NoRow

\* DELETE of every row but those of `keys`.
Keep(keys) ==
    /\ rows' = [k \in keys |-> rows[k]]
    /\ latest' = [k \in Keys |-> IF k \in keys THEN latest[k] ELSE None]

-----------------------------------------------------------------------------
(* get *)

Requests(now) ==
    [op : {"get"}, key : Keys, now : {now}]
    \cup [op : {"set"}, key : Keys, content : Contents, now : {now}]
    \cup [op : {"maintain", "integrity"}, now : {now}]
    \cup [op : {"inspect", "aggregate"}, limit : Limits]
    \cup [op : {"clear", "info"}]

Invoke(c) ==
    /\ c \in setup.users
    /\ call[c] = Idle
    /\ invoked < setup.calls
    /\ invoked' = invoked + 1
    /\ \E r \in Requests(Clock) : Continue(c, r)
    /\ UNCHANGED <<setup, file, open, clock, history>>

\* SELECT, before a transaction has begun.
Select(c) ==
    LET k == call[c].key
    IN  /\ call[c].op = "get"
        /\ Enter(c)
        /\ Continue(c, [op |-> "found", key |-> k, now |-> call[c].now,
                        row |-> RowAt(k)])
        /\ UNCHANGED <<setup, file, open, clock, invoked, history>>

\* No row: count the miss.
AnswerAbsent(c) ==
    /\ call[c].op = "found"
    /\ call[c].row = NoRow
    /\ misses' = misses + 1
    /\ Continue(c, [op |-> "miss"])
    /\ UNCHANGED <<setup, rows, hits, open, clock, invoked, history>>

\* A row with an unreadable payload is reported rather than dropped.
Unreadable(c) ==
    /\ call[c].row.content = Corrupt
    /\ "keep_corrupt" \in setup.options
    /\ ~Expired(call[c].row, call[c].now)
    /\ call[c].row.type = TypeOf(c)

\* Expired, of another serializer or corrupt: DELETE the row, or what has
\* replaced it, and count the miss.
AnswerDrop(c) ==
    /\ call[c].op = "found"
    /\ call[c].row # NoRow
    /\ ~Servable(call[c].row, call[c].now, TypeOf(c))
    /\ ~Unreadable(c)
    /\ Keep(DOMAIN rows \ {call[c].key})
    /\ misses' = misses + 1
    /\ Continue(c, [op |-> "miss"])
    /\ UNCHANGED <<setup, hits, open, clock, invoked, stored, used>>

\* The exception leaves the transaction: nothing is counted.
RaiseCorrupt(c) ==
    /\ call[c].op = "found"
    /\ call[c].row # NoRow
    /\ Unreadable(c)
    /\ Continue(c, Idle)
    /\ UNCHANGED <<setup, file, open, clock, invoked, history>>

With(k, row) == [j \in DOMAIN rows \cup {k} |-> IF j = k THEN row ELSE rows[j]]

\* A hit that leaves the table as it says.
Serve(c, table) ==
    LET k == call[c].key
    IN  /\ call[c].op = "found"
        /\ call[c].row # NoRow
        /\ Servable(call[c].row, call[c].now, TypeOf(c))
        /\ rows' = table
        /\ used' = IF k \in DOMAIN table THEN [used EXCEPT ![k] = time] ELSE used
        /\ hits' = hits + 1
        /\ Continue(c, [op |-> "hit", content |-> call[c].row.content])
        /\ UNCHANGED <<setup, misses, open, clock, invoked, latest, stored>>

\* UPDATE of the row the key has now.
Updated(c, expires_at) ==
    [k \in DOMAIN rows |->
        IF k # call[c].key THEN rows[k]
        ELSE [rows[k] EXCEPT !.last_accessed = call[c].now, !.expires_at = expires_at]]

\* Bugs: an upsert, which inserts the row that was read if it is gone; last_accessed
\* is left as it is; every hit refreshes the ttl.
AnswerHit_Upserts(c) ==
    LET k == call[c].key
        row == call[c].row
    IN  Serve(c, IF k \in DOMAIN rows THEN Updated(c, row.expires_at)
                 ELSE With(k, [row EXCEPT !.last_accessed = call[c].now]))
AnswerHit_NoTouch(c) == Serve(c, rows)
AnswerHit_AlwaysRefreshes(c) == Serve(c, Updated(c, ExpiresAt(call[c].now)))

\* The deadline that was read is written back, unless hits refresh it.
AnswerHit(c) ==
    Serve(c, Updated(c, IF "refresh" \in setup.options THEN ExpiresAt(call[c].now)
                        ELSE call[c].row.expires_at))

-----------------------------------------------------------------------------
(* set_value and set_exception *)

\* ORDER BY last_accessed, created_at; of equal rows the one inserted last, k, is last.
Before(table, i, j, k) ==
    LET a == table[i]  b == table[j]
    IN  \/ a.last_accessed < b.last_accessed
        \/ a.last_accessed = b.last_accessed /\ a.created_at < b.created_at
        \/ a.last_accessed = b.last_accessed /\ a.created_at = b.created_at /\ i # k

\* _evict_if_needed: the sets of keys it may delete after the INSERT of k.
Evictions(table, k) ==
    LET overflow == IF MaxSize = None \/ Cardinality(DOMAIN table) <= MaxSize THEN 0
                    ELSE Cardinality(DOMAIN table) - MaxSize
    IN  {out \in SUBSET DOMAIN table :
            /\ Cardinality(out) = overflow
            /\ \A i \in out, j \in DOMAIN table \ out : Before(table, i, j, k)}

\* Bug: the columns of the INSERT are in another order than its values.
NewRow_Swapped(c) ==
    [content |-> TypeOf(c), type |-> call[c].content, expires_at |-> ExpiresAt(call[c].now),
     last_accessed |-> call[c].now, created_at |-> call[c].now]

NewRow(c) ==
    [content |-> call[c].content, type |-> TypeOf(c), expires_at |-> ExpiresAt(call[c].now),
     last_accessed |-> call[c].now, created_at |-> call[c].now]

\* A store that may evict any of `evictions`.
StoreWith(c, evictions) ==
    LET k == call[c].key
        table == With(k, NewRow(c))
    IN  /\ call[c].op = "set"
        /\ Enter(c)
        /\ \E out \in evictions :
             /\ rows' = [j \in DOMAIN table \ out |-> table[j]]
             /\ latest' = [j \in Keys |-> IF j \in out THEN None
                                         ELSE IF j = k THEN call[c].content ELSE latest[j]]
        /\ stored' = [stored EXCEPT ![k] = time]
        /\ used' = [used EXCEPT ![k] = time]
        /\ Continue(c, [op |-> "done"])
        /\ UNCHANGED <<setup, hits, misses, open, clock, invoked>>

\* Bug: the eviction comes before the INSERT.
Store_EvictsFirst(c) == StoreWith(c, Evictions(rows, call[c].key))

\* One transaction: INSERT OR REPLACE, then the eviction.
Store(c) == StoreWith(c, Evictions(With(call[c].key, NewRow(c)), call[c].key))

-----------------------------------------------------------------------------
(* clear, info, maintain and the inspections *)

\* Bug: the statistics are kept.
Clear_KeepsStats(c) ==
    /\ call[c].op = "clear"
    /\ Enter(c)
    /\ Keep({})
    /\ Continue(c, [op |-> "done"])
    /\ UNCHANGED <<setup, hits, misses, open, clock, invoked, stored, used>>

Clear(c) ==
    /\ call[c].op = "clear"
    /\ Enter(c)
    /\ Keep({})
    /\ hits' = 0 /\ misses' = 0
    /\ Continue(c, [op |-> "done"])
    /\ UNCHANGED <<setup, open, clock, invoked, stored, used>>

\* _prune_expired reads the clock itself.
Info(c) ==
    LET left == {k \in DOMAIN rows : ~Expired(rows[k], Clock)}
    IN  /\ call[c].op = "info"
        /\ Enter(c)
        /\ Keep(left)
        /\ Continue(c, [op |-> "report", hits |-> hits, misses |-> misses,
                        currsize |-> Cardinality(left)])
        /\ UNCHANGED <<setup, hits, misses, open, clock, invoked, stored, used>>

MaintainWith(c, left) ==
    /\ call[c].op = "maintain"
    /\ Enter(c)
    /\ Keep(left)
    /\ \E next \in {"vacuum", "tidied"} : Continue(c, [op |-> next])
    /\ UNCHANGED <<setup, hits, misses, open, clock, invoked, stored, used>>

\* Bug: rows are dropped one tick before they expire.
Maintain_TooEager(c) ==
    MaintainWith(c, {k \in DOMAIN rows : Servable(rows[k], call[c].now + 1, TypeOf(c))})

\* Expired, incompatible and corrupt rows go in one transaction.
Maintain(c) ==
    MaintainWith(c, {k \in DOMAIN rows : Servable(rows[k], call[c].now, TypeOf(c))})

\* VACUUM, after the commit and still under the lock.
Vacuum(c) ==
    /\ call[c].op = "vacuum"
    /\ Continue(c, [op |-> "tidied"])
    /\ UNCHANGED <<setup, file, open, clock, invoked, history>>

\* SELECT ... LIMIT limit + 1, which may return any of these sets of keys.
Listing(c, op, pages) ==
    LET size == IF Cardinality(DOMAIN rows) <= call[c].limit THEN Cardinality(DOMAIN rows)
                ELSE call[c].limit + 1
    IN  /\ call[c].op = op
        /\ Enter(c)
        /\ \E listed \in pages :
             /\ Cardinality(listed) = size
             /\ Continue(c, [op |-> "listed", limit |-> call[c].limit, keys |-> listed])
        /\ UNCHANGED <<setup, file, open, clock, invoked, history>>

\* inspect_entries: ORDER BY last_accessed DESC, created_at DESC.
List(c) ==
    Listing(c, "inspect", {listed \in SUBSET DOMAIN rows :
        \A i \in listed, j \in DOMAIN rows \ listed : Before(rows, j, i, i)})

\* inspect_aggregate: in no order.
Sample(c) == Listing(c, "aggregate", SUBSET DOMAIN rows)

\* SELECT COUNT(*), a statement of its own.
Count(c) ==
    LET truncated == Cardinality(call[c].keys) > call[c].limit
    IN  /\ call[c].op = "listed"
        /\ Continue(c, [op |-> "inspection", total |-> Cardinality(DOMAIN rows),
                        entries |-> IF truncated THEN call[c].limit ELSE Cardinality(call[c].keys),
                        truncated |-> truncated])
        /\ UNCHANGED <<setup, file, open, clock, invoked, history>>

\* An expired row is also counted as corrupt or incompatible if it is.
InspectIntegrity(c) ==
    LET expired == {k \in DOMAIN rows : Expired(rows[k], call[c].now)}
        mismatched == {k \in DOMAIN rows : rows[k].type # TypeOf(c)}
        corrupt == {k \in DOMAIN rows \ mismatched : rows[k].content = Corrupt}
    IN  /\ call[c].op = "integrity"
        /\ Enter(c)
        /\ Continue(c, [op |-> "integrity_report", total |-> Cardinality(DOMAIN rows),
                        expired |-> Cardinality(expired), corrupt |-> Cardinality(corrupt),
                        mismatched |-> Cardinality(mismatched)])
        /\ UNCHANGED <<setup, file, open, clock, invoked, history>>

-----------------------------------------------------------------------------

Answered(c) ==
    call[c].op \in {"hit", "miss", "done", "report", "tidied", "inspection", "integrity_report"}

Return(c) ==
    /\ Answered(c)
    /\ Continue(c, Idle)
    /\ UNCHANGED <<setup, file, open, clock, invoked, history>>

\* The backend is closed, or SQLite raises (busy, disk full): the transaction is
\* rolled back.  A VACUUM that fails leaves what was committed before it.
Fail(c) ==
    /\ call[c] # Idle
    /\ ~Answered(c)
    /\ Continue(c, Idle)
    /\ UNCHANGED <<setup, file, open, clock, invoked, history>>

Open(b) ==
    /\ b \notin open
    /\ open' = open \cup {b}
    /\ UNCHANGED <<setup, file, call, clock, invoked, history>>

\* Bug: close does not take the lock.
Close_NoLock(b) ==
    /\ b \in open
    /\ open' = open \ {b}
    /\ UNCHANGED <<setup, file, call, clock, invoked, history>>

\* close, __exit__ and __del__
Close(b) ==
    /\ b \in open
    /\ LockedBy(b) = {}
    /\ open' = open \ {b}
    /\ UNCHANGED <<setup, file, call, clock, invoked, history>>

\* The calls of these clients end with their process.
Kill(clients) == call' = [c \in Clients |-> IF c \in clients THEN Idle ELSE call[c]]

\* The process with backend b dies; SQLite recovers the last commit.
Crash(b) ==
    /\ "crash" \in setup.options
    /\ b \in open
    /\ open' = open \ {b}
    /\ Kill({c \in setup.users : BackendOf(c) = b})
    /\ UNCHANGED <<setup, file, clock, invoked, history>>

\* The monotonic clock starts again; the file is still there.
Reboot ==
    /\ "reboot" \in setup.options
    /\ open' = {}
    /\ Kill(Clients)
    /\ bootedAt' = time
    /\ UNCHANGED <<setup, file, time, invoked, history>>

\* The payload of a row becomes unreadable: disk, or a class that has changed.
Rot(k) ==
    /\ "rot" \in setup.options
    /\ k \in DOMAIN rows
    /\ rows' = [rows EXCEPT ![k].content = Corrupt]
    /\ UNCHANGED <<setup, hits, misses, open, call, clock, invoked, history>>

\* Time passes, but no call takes longer than Lag.
Stamped(c) == call[c].op \in {"get", "found", "set", "maintain", "integrity"}
Tick ==
    /\ time < EndTime
    /\ \A c \in setup.users : Stamped(c) => Clock < call[c].now + Lag
    /\ time' = time + 1
    /\ UNCHANGED <<setup, file, open, call, bootedAt, invoked, history>>

Get(c) == Select(c) \/ AnswerAbsent(c) \/ AnswerDrop(c) \/ RaiseCorrupt(c) \/ AnswerHit(c)
Upkeep(c) ==
    \/ Clear(c) \/ Info(c) \/ Maintain(c) \/ Vacuum(c)
    \/ List(c) \/ Sample(c) \/ Count(c) \/ InspectIntegrity(c)

Next ==
    \/ \E c \in setup.users :
         Invoke(c) \/ Get(c) \/ Store(c) \/ Upkeep(c) \/ Return(c) \/ Fail(c)
    \/ \E b \in Backends : Open(b) \/ Close(b) \/ Crash(b)
    \/ \E k \in Keys : Rot(k)
    \/ Reboot \/ Tick

Spec == Init /\ [][Next]_vars

-----------------------------------------------------------------------------
(* Properties *)

RowType ==
    [content : Contents \cup {Corrupt}, type : Types, expires_at : Nat \cup {None},
     last_accessed : Nat, created_at : Nat]
InProgress ==
    [op : {"get"}, key : Keys, now : Nat]
    \cup [op : {"found"}, key : Keys, now : Nat, row : RowType \cup {NoRow}]
    \cup [op : {"set"}, key : Keys, content : Contents, now : Nat]
    \cup [op : {"maintain", "integrity"}, now : Nat]
    \cup [op : {"inspect", "aggregate"}, limit : Limits]
    \cup [op : {"listed"}, limit : Limits, keys : SUBSET Keys]
    \cup [op : {"clear", "info", "vacuum"}]
Answers ==
    [op : {"hit"}, content : Contents]
    \cup [op : {"miss", "done", "tidied"}]
    \cup [op : {"report"}, hits : Nat, misses : Nat, currsize : Nat]
    \cup [op : {"inspection"}, total : Nat, entries : Nat, truncated : BOOLEAN]
    \cup [op : {"integrity_report"}, total : Nat, expired : Nat, mismatched : Nat, corrupt : Nat]

\* Every variable, row and local variable of a method has its type.
TypeOK ==
    /\ setup \in Setups
    /\ DOMAIN rows \subseteq Keys
    /\ \A k \in DOMAIN rows : rows[k] \in RowType
    /\ hits \in Nat /\ misses \in Nat
    /\ open \subseteq Backends
    /\ call \in [Clients -> InProgress \cup Answers \cup {Idle}]
    /\ time \in Nat /\ bootedAt \in 0..time
    /\ invoked \in Nat
    /\ latest \in [Keys -> Contents \cup {None}]
    /\ stored \in [Keys -> 0..time] /\ used \in [Keys -> 0..time]

\* docs/disk_cache_backend.md: "`ttl`: optional entry lifetime in seconds".  No row
\* can be served later than ttl after its content was stored (or last used, if hits
\* refresh the ttl), although lookups write back deadlines they read earlier.
NeverOverstays ==
    setup.ttl # None => \A k \in DOMAIN rows :
        /\ rows[k].expires_at # None
        /\ rows[k].expires_at + bootedAt
             <= (IF "refresh" \in setup.options THEN used[k] ELSE stored[k]) + setup.ttl

\* Between any two transactions of any process, crashes included, the file has at
\* most maxsize rows.
SizeBounded == MaxSize # None => Cardinality(DOMAIN rows) <= MaxSize

\* A row was stored since its key was last deleted, and holds what was stored then: no
\* lookup brings back what a store of another process has replaced, or what a clear, an
\* eviction, maintain, cache_info or another lookup has deleted.
NoGhosts ==
    \A k \in DOMAIN rows : latest[k] # None /\ rows[k].content \in {latest[k], Corrupt}

\* A key that a store evicts was used no later than every key that stays, up to
\* the time a call takes between reading the clock and its transaction.  (A reboot
\* makes older rows look as if they had been used later than every new one.)
EvictsLeastRecent ==
    [][bootedAt = 0 => \A c \in setup.users, gone \in DOMAIN rows \ DOMAIN rows' :
         call[c].op = "set" /\ call'[c].op = "done" =>
            \A stays \in DOMAIN rows' : used'[gone] <= used'[stays] + Lag]_vars

\* All clients are threads of one process.
OneProcess == \E b \in Backends : \A c \in setup.users : BackendOf(c) = b

\* What a row that was read may have become while nobody else could write.
Since(row) ==
    {row} \cup (IF row = NoRow \/ "rot" \notin setup.options THEN {}
                ELSE {[row EXCEPT !.content = Corrupt]})

\* The lock: no connection is closed under a method that uses it, and while all
\* clients share a backend, what a method has read is still so when it acts on it,
\* unless the row has rotted.
LockHolds ==
    \A c \in setup.users : HoldsLock(c) =>
        /\ BackendOf(c) \in open
        /\ OneProcess =>
             /\ call[c].op = "found" => RowAt(call[c].key) \in Since(call[c].row)
             /\ call[c].op = "listed" =>
                  Cardinality(call[c].keys) > call[c].limit \/ call[c].keys = DOMAIN rows

\* A step of client c may lose the row of k: it evicts or clears; a lookup through its
\* backend would not serve the row; or it deletes, in place of the row it has selected,
\* what another process has written since.
Loses(c, k) ==
    /\ call'[c] # call[c]
    /\ \/ call[c].op \in {"set", "clear"} /\ call'[c].op = "done"
       \/ ~Servable(rows[k], Clock, TypeOf(c))
       \/ /\ ~OneProcess
          /\ call[c].op = "found" /\ call'[c].op = "miss"
          /\ call[c].key = k /\ call[c].row # rows[k]

\* A row that can be served goes only by an eviction or a clear: misses, info and
\* maintain never take it, though they use older times, but for the lookup that
\* another process has overtaken between its SELECT and its DELETE.
KeepsServable ==
    [][\A k \in DOMAIN rows \ DOMAIN rows' : \E c \in setup.users : Loses(c, k)]_vars

\* What a method has yet to do, or has done, as the contract sees it.
Pending(c) ==
    LET m == call[c]
    IN  CASE m.op \in {"get", "found"} -> [op |-> "get", key |-> m.key]
          [] m.op = "set" -> [op |-> "set", key |-> m.key, content |-> m.content]
          [] m.op \in {"clear", "info", "hit", "miss", "done", "report"} -> m
          [] OTHER -> Idle
Kept == [k \in DOMAIN rows |-> rows[k].content]

Contract == INSTANCE CacheContract WITH
    call <- [c \in Clients |-> Pending(c)],
    kept <- Kept,
    found <- hits,
    missed <- misses,
    Remote <- TRUE

\* A lone client has the backend of the contract, with calls that may fail and
\* maintenance that may drop entries.  (Of two threads one may be late, or the clock
\* is behind after a reboot: then the new row is the oldest, and a full cache evicts
\* it in the transaction that inserts it.)
Compared ==
    /\ \E c \in Clients : setup.users = {c}
    /\ setup.options \cap {"rot", "reboot"} = {}
ImplementsContract ==
    /\ Compared => Contract!Init
    /\ [][Compared => [Contract!Next]_(Contract!vars)]_vars
=============================================================================
