# pydecorators in TLA+

TLA+ models of the stateful decorators of `pydecorators`, the TLC
configurations that check them on small instances, and proofs, checked by
TLAPS, of the properties that matter most for every value of the constants.
Paths below are relative to `src/pydecorators/` of the repository.

- [The system](#the-system): components, state, hazards, correctness
- [The modules](#the-modules): which models what, and how
- [The runs](#the-runs): questions, bounds, fairness, results
- [Disagreements with the documentation](#disagreements-with-the-documentation)
- [The proofs](#the-proofs)
- [What is not modelled](#what-is-not-modelled)
- [Plan](#plan)

## The system

The package is a set of function decorators. A decorator keeps its state in
the closure of one decorated function, or in a backend object handed to it;
threads, asyncio tasks and (for the SQLite and Redis storages) processes share
that state by calling the function. There are no background threads: everything
happens on the caller's thread, inside or outside a lock.

| Component | State | Operations | What makes it hard | What makes it correct |
|---|---|---|---|---|
| `circuit_breaker.py` | `state`, `failure_count`, `opened_at` under one `RLock` | `before_call`, `record_success`, `record_failure`, `circuit_state`, `circuit_reset_after` | the wrapped function runs between two locked sections; outcomes arrive against a state other than the one that admitted the call; even inspection changes the state | the three variables agree; the open period is kept; one probe; recovery |
| `cache_result.py`, `MemoryCacheBackend` | ordered dict of entries, hits, misses, under an `RLock` | `get`, `set_value`, `set_exception`, `clear`, `info` | deadlines are computed before the lock; expiry, refresh and eviction interact | an atomic map that forgets but never invents; LRU; no entry outlives `ttl` |
| `cache_result.py`, `cache_result` | in-flight table of `Event`s and diagnostics, under a second lock | the call itself, `cache_info`, `cache_clear` | lookup, claim, run, store, release are separate steps; functions and backends fail; calls nest | single flight, no lost wake-up, no poisoned key, outcomes of the right key |
| `cache_result.py`, `DiskCacheBackend` | SQLite file (rows, two statistics), connection, lock | as above, and `inspect_entries`, `inspect_aggregate`, `inspect_integrity`, `maintain`, `close` | a SELECT stands before the transaction it leads to; processes share the file but no lock; crash, reboot, foreign and corrupt rows | no row served too long or brought back; bounded size; the lock; the backend contract for a lone client |
| `redis_backend.py` | Redis keys: entries, two statistics, an access counter | `get`, `set_value`, `set_exception`, `clear`, `info` | every method is several Redis commands, between which other clients act, entries expire and connections break | what was stored or cleared stays so; bounded size; the backend contract for a lone client |
| `rate_limit.py` | admitted calls per bucket and window: deques, SQLite rows or Redis sorted sets | the call, in `raise` or `block` mode | the clock is read before the critical section; several windows, weighted costs, calendar buckets; blocked callers compete | limit per period and per calendar bucket; all or nothing; exact `retry_after`; nobody blocks for ever |
| `retry.py` | attempt number and delay of one call | attempts, hooks, predicate, sleep, cancellation | every callback may raise, inside or outside the `try`; a cancellation arrives anywhere | one run per attempt; outcome of the latest one |
| `timeout.py` | none (`asyncio.wait_for`) | one call | late answers, functions that resist, timeouts inside timeouts, `TimeoutError` of the coroutine itself | deadline reported only when it passed; one deadline per call outside of `retry`, per attempt inside |
| `log_calls.py`, `measure_time.py` | none | one call | hooks that raise replace the result; cancellation passes them by | records match calls, above and below `retry` |
| `deprecated.py`, `require_env.py`, `validate_types.py` | none | checks around a call | the environment and the warning filters may change between attempts | a refused call does not run |
| `_core.py`, `exceptions.py`, helpers of the cache | none | conversions | nothing concurrent | pure functions |

Interactions: `cache_result` calls its backend through the `CacheBackend`
protocol and never holds the in-flight lock while it does; decorators compose
by nesting (docs/composition.md), each seeing the others only as the wrapped
function; clocks and sleeps are injectable callables. The hazards of the code,
each at its line and with the properties that cover it, are in `PROJECT.json`.

## The modules

### Circuit breaker

`CircuitBreaker` has one action per locked section. `Admit` and `Reject` are
`before_call`, `RecordSuccess`, `RecordFailure` and `IgnoreFailure` the three
ways `wrapper` goes on when the function is over; the run of the function is
the gap between them, during which other callers act. `Inspect` is
`circuit_state()` / `circuit_reset_after()`, which promote OPEN to HALF_OPEN and
so write. A predicate of `exceptions` and `exception_filter` is abstracted to
the choice between `RecordFailure` and `IgnoreFailure`. The code uses the clock
only as `active_clock() - opened_at` compared with `reset_timeout`; `elapsed`
is that difference, saturated, which makes the state space finite without a
bound on time. `quarantine` (ticks until the last opening has lasted its
timeout), `admittedIn` and `health` (whether the dependency has recovered) are
history and environment.

`BreakerContract` is the breaker users are promised: closed until a threshold of
failures, then open for the whole timeout, then half open until the next
outcome. It only counts the calls in progress, so it holds for any number of
callers. `CircuitBreaker!ImplementsContract` is the refinement: `streak` is the
failure count while closed, `remaining` what is left of the timeout, `running`
the number of callers inside the function.

### Cache

`MemoryCacheStore` holds the storage, one operator per locked section of
`MemoryCacheBackend`, to be used by the two modules that follow. The ordered
dict is two variables: `cache`, a function from the held keys to their entries,
and `older`, its order, as the set of pairs `<<j, k>>` with `j` nearer the end
that is evicted first. `MovedToEnd` is `move_to_end`; `Left` is what the loop of
`_evict_if_needed` leaves: the keys with fewer than `maxsize` behind them.

`MemoryCacheBackend` is the backend alone, with concurrent clients. A write is
two actions, `Stamp` (the entry and its deadline are built) and `Store`
(`_set_entry` under the lock). `recency` is history: which key was not used
since the last use of which. `CacheContract` is what the decorator may rely on
from any backend: an atomic map that may forget, with exact statistics. All
three backends are compared with it; `Remote` says whether entries may vanish by
themselves and calls may fail.

`RedisCacheBackend` has one action per Redis command. `recency` is the order of
use, as above, for a lone client. A method in progress is the record `call[c]`,
whose `op` names the next command and whose other fields are the method's local
variables; `Fail` ends it at any point, and `Expire` is the server's expiry, at
any time, which stands for every `ttl`. `ForeignWrite` leaves an entry
`_decode_entry` refuses. `SCAN` is one step, although the server may spread it
over several; keys that appear or vanish meanwhile would add behaviours like
those of a later or an earlier step. It may also return a key twice, while the
server resizes its table, which the model leaves out: `_evict_if_needed` counts
the keys it was given, so that its surplus would be too large and it would evict,
least recently used first, more than it has to, and `currsize` of `info` would
count the key twice. `users` is who shares the prefix; for a
lone client the module is mapped onto `CacheContract`: a lookup takes effect
when it is counted, and the entry it has read counts as kept until it is written
back.

`DiskCacheBackend` has one action per transaction and per SELECT outside of
one. `sqlite3` begins a transaction only at the first statement that writes, so
a lookup is `Select` and then `AnswerAbsent`, `AnswerDrop`, `RaiseCorrupt` or
`AnswerHit`, with the row it has selected as a local variable. The threads of
one backend exclude each other by its lock (`Enter`, `HoldsLock`); backends of
other processes share only the file, and act between any two actions. `open` is
the set of backends with a connection; `Open`, `Close`, `Crash` (a process ends;
what it has committed stays) and `Reboot` (all processes end and the monotonic
clock starts again) change it. `Rot` makes a payload unreadable. `Fail` is any
`sqlite3.Error`: the statement is rolled back, the method raises. `setup`, chosen
at the start from `Setups`, is who uses which backend with which serializer,
`ttl`, options and faults. Deadlines and times of use are numbers of the clock,
which starts at 0 at boot; `time` is real time. `latest`, `stored` and `used`
are history: every transaction that deletes a row resets `latest` of its key, so
that `NoGhosts` tells a row that was stored anew from one that has come back.
For a lone client the module is mapped onto `CacheContract`: a
lookup takes effect when it is counted, a store with its transaction.

`CacheResult` is `wrapper()` of `cache_result` over the memory store. A call
moves through `lookup`, `claim`, `running`, `storing`, `release` and, for
waiters, `waiting` and `woken`; each step is one locked section or one call of
the backend. The `Event` of a producer is named by the producer: `event[c]` is
whose Event call `c` took from the table, `eventSet` which are set. The wrapped
function may return, raise an exception or a `BaseException`, never return
(`MayHang`), or call a decorated function itself (`Nests`); a nested call holds
its parent's thread. With `BackendMayFail`, lookups and stores may raise, as they
do when a serializer fails or the database of another backend is out of reach.
`options` holds the two flags of the decorator, chosen at the start from
`OptionSets`, so that one run covers several decorated functions.
Keys are model values: `make_key` is abstracted to the choice of a key.

### Rate limiter

`RateLimiter` models the wrapper and the three limiters. `setup`, chosen at the
start from `Setups`, is the decorated function: its windows, storage and mode,
and the bounds of its use (callers, keys, costs, lag, clock). The limiters share
their window arithmetic and differ in `Storage`: which events a reservation
drops (`CleanupBefore`, `Prune`, `Remaining`) and in which order they are kept
(`Rank`). The events of a slot are a set of records; `sequence` numbers the
charges and tells apart events with the same time. A deque drops events from the
left as long as the first is old, which is what `Prune` says for any order.
`Call` and `Wake` read the clock, `Admit` and `Deny` are the critical section
(`RLock`, `BEGIN IMMEDIATE`, Lua script); between them other callers and the
clock may run, for at most `MaxLag` ticks. `Fail` is a database that fails
instead: SQLite rolls back, Redis is not reached or loses the answer of a script
that has run, so that the windows are charged for a call that raises. A calendar
window is given by the instants at which its buckets start, so that a day can be
longer than the nominal one. `charges` (what was charged, when, and by which
reading of the clock) and `lastDenial` are history.

### Retry and the decorators without state

`Retry` is the loop of `retry` alone. Each place where user code runs (hooks,
function, predicate, sleep) is an action that may raise either an exception
`exceptions` matches or another one; the actions differ in whether the `try`
statement is around them. `Cancel` is a `CancelledError` at an `await`, which no
`except` clause matches.

`DecoratedCall` extends it to one call through a stack of decorators: `retry`
with any number of `log_calls`, `measure_time`, `timeout`, `validate_types`,
`require_env` and `deprecated` around and inside it. `flow` says whether control
goes down the stack, is in the function or in the loop of `retry`, or comes up
with an `outcome`; `depth` is the layer it is at. Each layer has an action for
entering it and one for leaving it, which is what its async wrapper does before
and after its `await`. `records` counts the starts each observer has recorded
and lists the ends. An observer may raise in its hooks (`Spoil`), and lets a
cancellation pass without a record (`PassCancelled`). Time passes only while the
function or a sleep is awaited. `Deliver` is the event loop: it cancels what is
awaited, for every timeout that is due, for the caller, or both at once; the
function may end with the cancellation or resist it. `LeaveTimeout` follows
`asyncio.wait_for`, that of 3.12 and later, and for functions that swallow a
cancellation also that of 3.11. The control of the sync wrappers is that of the
stacks without timeouts and cancellation. The classes of outcomes are those the
layers tell apart: a value of the annotated type or another one, an error
`exceptions` matches or not, `TimeoutError`, `FunctionTimedOut`, a refusal, an
exception of a hook, and a cancellation.

### Module overview

| Module | Extends / instantiates | Role |
|---|---|---|
| `CircuitBreaker` | instantiates `BreakerContract` | component |
| `BreakerContract` | | abstract specification |
| `CircuitBreakerProofs` | `CircuitBreaker` | proofs |
| `MemoryCacheStore` | | storage shared by the next and `CacheResult` |
| `MemoryCacheBackend` | `MemoryCacheStore`, instantiates `CacheContract` | component |
| `MemoryCacheBackendProofs` | `MemoryCacheBackend` | proofs |
| `CacheContract` | | abstract specification of every backend |
| `RedisCacheBackend` | instantiates `CacheContract` | component |
| `RedisCacheBackendProofs` | `RedisCacheBackend` | proofs |
| `DiskCacheBackend` | instantiates `CacheContract` | component |
| `DiskCacheBackendProofs` | `DiskCacheBackend` | proofs |
| `CacheResult` | `MemoryCacheStore` | composition of decorator and storage |
| `CacheResultProofs` | `CacheResult` | proofs |
| `RateLimiter`, `RateLimiterProofs` | | component, proofs |
| `Retry`, `RetryProofs` | | component, proofs |
| `DecoratedCall` | `Retry` | composition of retry with six decorators |
| `DecoratedCallProofs` | `DecoratedCall`, `RetryProofs` | proofs, that it implements `Retry` among them |
| `MC*` | the component of that name | constants and symmetry for TLC |

Operators named `<Definition>_<Something>`, each with a comment that says which
bug it is, are faulty variants of the definition that follows them. No
specification uses them; each exists to show that a property of a passing run
fails when the code has that bug.

## The runs

`tlc -workers 2 -config <run>.cfg <module>`, in this directory.

| Run | Module | Shows | States |
|---|---|---|---|
| `breaker_concurrent` | `MCCircuitBreaker` | three callers: `StateConsistent`, `FailureCountBounded`, `Recovery`, `ImplementsContract` | 5 706 |
| `breaker_probe` | | documentation not met, see below | |
| `memory_backend` | `MCMemoryCacheBackend` | `NeverOverstays`, `EvictsLeastRecent`, `ImplementsContract` | 518 801 |
| `redis_backend` | `MCRedisCacheBackend` | `LatestUnlessOverlapped`, `SizeBounded`; for a lone client `EvictsLeastRecent`, `ImplementsContract` | 1 030 819 |
| `disk_backend` | `MCDiskCacheBackend` | seven uses of one file: `NeverOverstays`, `SizeBounded`, `NoGhosts`, `LockHolds`, `EvictsLeastRecent`, `KeepsServable`; for a lone client `ImplementsContract` | 1 429 714 |
| `disk_reboot` | | documentation not met | |
| `cache_calls` | `MCCacheResult` | with coalescing, and without it but with cached exceptions: `MarkersExact`, `NoLostWakeup`, `Provenance` | 412 768 |
| `cache_liveness` | | `EveryCallReturns`, `WaitersShareResult` | 146 542 |
| `limit_policies` | `MCRateLimiter` | five decorated functions: `CallsPerPeriod`, `CallsPerCalendarBucket`, `RetryAfterExact`, `LedgerExact` | 1 211 756 |
| `limit_block` | | SQLite, two blocking callers: `EventuallyAdmitted` | 17 701 |
| `limit_longday` | | documentation not met | |
| `decorated_call` | `MCDecoratedCall` | six stacks of decorators: `OncePerAttempt`, `LatestOutcome`, `RecordsMatchCalls`, `TimeoutsExact`, `CallReturns` | 2 142 807 |

Every passing run also checks its module's type invariant, the liveness runs
excepted, whose modules have another run that does.

### Bounds

- **Breaker.** Three callers, threshold 2, timeout 2: enough for a failure
  before, at and after the opening with a probe of another caller in between.
  Nothing else is bounded: the clock is a saturated difference and the failure
  count is bounded by the code, which is `FailureCountBounded`.
- **Memory backend.** Two threads, three keys, room for two entries, `ttl` 2 on
  a clock up to 3, five calls: a key is written, refreshed or rewritten by the
  other thread, pushed out by a third key and looked up again. Since
  `MaxCalls` stops the clients, the run does not check for deadlock.
- **Redis backend.** Three keys and room for two entries, two contents; five
  method calls of a lone client (two entries, a hit on the older, a third entry
  and a look at what is left), four of two clients (an eviction from each side
  around a lookup), three beside a foreign program. The commands of these calls
  interleave without restriction, and any of them may fail.
- **Disk backend.** Three keys, room for two rows, two contents, one serializer
  or two, a clock up to 2 and calls that take up to one tick (`Lag`). The seven
  uses (`MCDiskCacheBackend!Sharing`): a lone client with five method calls; one
  whose rows may rot, one whose machine may reboot; two threads of one process;
  two processes with the same serializer, without faults and with crashes; and
  two with different serializers, with rot. Between the SELECT of a lookup and its
  transaction, which is what `NoGhosts` is about, a clear or a replacement takes
  three calls of two processes and an eviction four (three stores and the lookup),
  which the first two processes have. Since the calls are bounded, the run does not
  check for deadlock.
- **Cache.** Three calls, two keys, room for one entry, `ttl` 1 on a clock up to
  2, one clear: a producer, a waiter and a late call of the same key, or a
  nested call, or a second producer after an uncached failure. The liveness run
  has three keys so that the function of one may hang while the others go on.
- **Rate limiter.** `lastCall` and `horizon` bound the clock past the longest
  period, so that a window fills, slides, empties and fills again. The five
  functions of `limit_policies` (`MCRateLimiter!Policies`): a burst window
  inside a longer one, in memory, with two buckets and costs 1 to 3, one of
  them too large for the burst window; one window in memory with two callers
  that may be held up for two ticks between the clock and the lock; the two
  windows on Redis, and a sliding and a calendar window on SQLite, where any
  reservation may fail; a calendar day longer than the nominal one on Redis. Only
  the second has two callers, because
  the others are about the arithmetic, and lag and overtaking are the subject
  of that one. In `limit_block` calls begin at time 0 only, each caller may call
  again, and the clock runs until all of them can have been admitted.
- **Decorated call.** Three attempts with delays 1, 2, 2 (capped) and jitter 0 or
  1, timeouts of one second, and at most two ticks between two steps of the
  function, so that it may end before, at and after a deadline. The six stacks
  (`MCDecoratedCall!ComposedStacks`) are the orders docs/composition.md discusses:
  observers above and below `retry`, a timeout outside, inside and both, and every
  gate on both sides.

### Fairness

Only the runs with liveness properties use `FairSpec`.

- `CircuitBreaker!Fairness`: the clock advances, every caller keeps calling and
  the wrapped function terminates. `Recovery` is about a dependency that has
  recovered and is still used; with no traffic nobody would close the circuit.
  Nothing is assumed about inspection.
- `CacheResult!Fairness`: threads are scheduled and locks granted, as CPython
  does, and the wrapped function terminates except for the keys in `MayHang`.
  It is weak, and for each step of each call separately; a waiter is not
  promised to win against others (docs/cache_result.md names fairness among
  waiters a non-goal), and each call runs once.
- `RateLimiter!Fairness`: time passes and the wrapper's loop is scheduled. With
  a finite number of competing calls every one is admitted; an unending stream
  of newcomers could starve a sleeper, and the code promises nothing else.
- `DecoratedCall!CallSpec`: function and sleeps come back and the event loop runs.
  A function that resists cancellation may do so for every cancellation it is
  sent, but each layer cancels once, so it, too, comes to its end.

## Disagreements with the documentation

Each is a run that TLC ends with a counterexample; `PROJECT.json` quotes the
lines.

1. `breaker_probe`: a half-open circuit admits every caller that arrives, not
   "one probe call".
2. `limit_longday`: on the day daylight saving ends, the memory and SQLite
   limiters forget calls after 24 hours although the bucket lasts 25. The Redis
   limiter has no such clean-up, and `limit_policies` shows that it keeps the
   quota of such a day.
3. `disk_reboot`: deadlines are readings of the monotonic clock, which starts
   again at boot. A row of before is served until the new clock reaches the old
   deadline, and looks more recently used than every new one: a full file evicts
   each new row in the transaction that inserts it. `NeverOverstays` holds, and is
   proved, for machines that do not reboot.

Also visible in the models, without a run of their own:

- a call admitted before the circuit opened that succeeds afterwards closes it
  before `reset_timeout` has elapsed (`RecordSuccess`; `BreakerContract!Succeed`
  allows it);
- an `after_attempt` hook that raises for a success makes the wrapper sleep and
  run the successful function again (`Retry!AfterSuccess`);
- the limiter's clock is read before the lock, so `CallsPerPeriod` is stated for
  the period less the time a caller may be held up there;
- `total_waiters` of `cache_info` counts waits, so a call that waits twice
  counts twice;
- every Redis hit restarts the entry's `ttl`: the backend has no
  `refresh_ttl_on_hit`, and behaves as if it were on;
- a Redis lookup refreshes an entry by writing back what it has read
  (`redis_backend.py:98`): a value stored by another client in between is replaced
  by the old one, and a cleared entry comes back. `LatestUnlessOverlapped`, which
  holds, says that nothing else undoes a store or a clear. The disk backend, which
  updates the row it finds instead, has no such behaviour (`NoGhosts`);
- between its miss and the in-flight lock (`cache_result.py:1188`) a call of a
  coalescing function may be overtaken by a whole computation; it then computes
  the cached result again. `WaitersShareResult` is about those that do wait;
- a disk lookup that has selected a row it will not serve deletes by key
  (`cache_result.py:477`): what another process has stored there in between goes with
  it. `KeepsServable` has this as its one exception, and without it TLC finds the
  interleaving. In one process the lock excludes it;
- a `_CacheEntry` is built, with its deadline, before the lock of the memory backend is
  taken: a slow writer may replace a newer entry by one that leaves earlier.
  `NeverOverstays` bounds deadlines from above only;
- `inspect_entries` and `inspect_aggregate` read rows and total in two SELECTs:
  with another process in between, `truncated` may be false although rows are
  missing. In one process the lock excludes it (`LockHolds`);
- `inspect_integrity` counts a row both as expired and as mismatched;
- docs/measure_time.md says exceptions are re-raised unchanged; a callback or
  metrics hook that raises replaces them (`Spoil`);
- with the `wait_for` of Python 3.11 a function that swallows a cancellation from
  outside and returns is reported as cancelled all the same (`overruled`).

## The proofs

`tlapm CircuitBreakerProofs.tla` and so on. Every safety invariant and every
action property that a passing run checks is also a theorem, for every value of
the constants and without the bounds on clocks and calls. A theorem `Spec => []P`
is proved through an inductive invariant `IInv`: `Init => IInv`,
`IInv /\ [Next]_vars => IInv'`, `IInv => P`; an action property and a refinement
from `IInv /\ [Next]_vars`, one step per action.

- **`CircuitBreakerProofs`**: `BreakerTypeCorrect`, `BreakerStateConsistent`,
  `BreakerCountBounded`, for every finite set of callers, threshold and timeout.
  `StateConsistent` and the type invariant are inductive together. The count
  bound is not: that an open circuit's count plus the calls still running stays
  below threshold plus callers (the second conjunct of `FailureCountBounded`)
  carries the induction, with lemmas on how the cardinality of `Running`
  changes when a call starts or ends. `BreakerImplementsContract` is the
  refinement. `BreakerAssumption` is what `_validate_config` accepts, and that a
  process has finitely many callers.
- **`MemoryCacheBackendProofs`**: `MemoryTypeCorrect`, `MemoryNeverOverstays`,
  `MemoryEvictsLeastRecent`, `MemoryImplementsContract`, for any threads, keys,
  `ttl` and `maxsize`. What they rest on is that `older` is a strict total order
  of the held keys (`IsOrder`): only then does `Left` keep at most `maxsize` keys
  (`LeftBounded`), and the written key among them (`LastLeft`). Eviction in the order of use needs
  that the order of the dict is that of the uses (`older \subseteq recency`), and
  deadlines that a write on its way to the lock holds one that was right when it
  was computed (`StampedTimely`).
- **`CacheResultProofs`**: `CacheMarkersExact` and `CacheNoLostWakeup`, for every
  set of calls and keys, any nesting and every configuration. Their invariant says
  nothing of the store and the clock: the protocol is safe whatever the backend
  answers. It adds that a waiting call's Event is some call's
  (`WaitsForCall`; "no marker" would match a marker that is gone) and that
  without `coalesce_misses` no call gets to the table (`PlainCalls`, for the
  steps both modes share). `CacheProvenance` follows a result from the execution
  to the entry that is stored, kept and served (`PInv`): entries say what their
  execution returned, and the outcome of a call that has one is final.
  `CacheWaitersShareResult` needs that a stored result stays while nothing
  forgets (`ResultsStay`) and that an Event which is set is that of a producer for
  the same key that has returned (`EventsSettled`).
- **`RedisCacheBackendProofs`**: `RedisLatestUnlessOverlapped`, for any number
  of clients, keys and contents. The property
  is about the entries; the invariant adds the copies that lookups hold
  (`CopiesCurrent`): one whose key no overlapping store or clear has touched is
  what was last stored, so that writing it back does no harm. `RedisSizeBounded`
  is about several evictions at once, each from its own outdated scan and any of
  which may fail. The invariant (`EvictionsSuffice`) quantifies over who fails: for
  every set of evicting clients, if these and those that have not scanned yet come
  to nothing, the remaining entries are few enough, or one of the other evictions
  has seen them all. `RedisEvictsLeastRecent` and `RedisImplementsContract` are
  about a lone client (`LoneInv`): stamps are in the order of use, below the
  counter, and what the client knows at each command (the entry it has read, what
  is left to scan, which counters it has read) is still so but for what has
  expired. A lookup maps to a lookup of the contract at the command that counts
  it; every other command that changes nothing a caller can see maps to a stutter
  or to the contract's forgetting.
- **`DiskCacheBackendProofs`**: `DiskTypeCorrect`, `DiskNoGhosts`,
  `DiskSizeBounded`, `DiskNeverOverstays`, `DiskLockHolds`, `DiskKeepsServable`,
  `DiskEvictsLeastRecent`, `DiskImplementsContract`, for any number of
  threads, processes, keys and contents, and any clock. The type invariant needs
  that what is counted is finite (`CountsFinite`). `NoGhosts` and `SizeBounded`
  are inductive on top of it. Lifetimes (`DeadlinesKept`) need that the clock
  readings of methods in progress are not ahead, and that the row a lookup has
  selected may not stay longer than the row in the file; the theorem has the
  assumption `NoRebootWithTTL`, whose necessity is what `disk_reboot` shows. For
  the lock, mutual exclusion (`Exclusive`) is proved with it. What takes rows away
  rests on clock readings that are at most `Lag` old (`TimelyCalls`), the order of
  eviction on rows that say when they were used, give or take that lag
  (`UsesStamped`). The refinement is that of a lone client whose rows do not rot and
  whose machine does not reboot; its rows are no younger than its clock
  (`RowsAged`), so that a new row is never its own victim.
- **`RateLimiterProofs`**: `LimiterTypeCorrect`, `LimiterHoldsPeriods`,
  `LimiterKeepsLedger`, `LimiterNamesTheWait`, `LimiterHoldsCalendarBuckets`, for
  any windows, storage, costs, callers, buckets and lag. The invariant `Ledger`
  relates the kept events to the charges: charges are numbered in the order in
  which they were made, by readings at most the lag old (`Numbered`); every event is
  that of a charge, in the slot of its window (`Recorded`); and a charge that may
  still count has its event (`Retained`), which has to hold for every order in
  which reservations of callers that were held up can arrive. Limits and the
  ledger are then a comparison of costs, for which the module has lemmas on sums
  over finite sets. For `retry_after`, `Refusals` adds that the call that was
  refused fits at exactly those times that are not before the time it was told
  (`DenialExact`). Two hypotheses limit the theorems: `DistinctNames`, since windows
  of the same name prune each other's events, and `OrdinaryBuckets` (not for the
  sliding windows), whose necessity is what `limit_longday` shows.
- **`RetryProofs`**: `RetryOncePerAttempt`, `RetryLatestOutcome`, for every
  number of attempts and every delay policy. The invariant relates the program
  point to the counters (how many runs and sleeps there have been) and to the
  exception held.
- **`DecoratedCallProofs`**: `CallImplementsRetry`: for every stack, number of
  attempts and delay policy, every step of the composition is a step of `Retry`
  or leaves its variables alone, so that `CallOncePerAttempt` and
  `CallLatestOutcome` follow from the theorems about `Retry`. `CallTimeoutsExact`
  rests on `CallInv`: control stays within the stack (`Control`); a timeout that
  has cancelled the call was due (`SpentElapsed`); as long as nothing resists,
  every cancellation sent is on its way up (`Answered`); and a cancellation on its
  way up is for a layer that is still to come (`Addressed`). `CallRecordsMatch`
  rests on `RecordInv`: a layer above `retry` is entered once and one below it once
  per attempt number (`EnteredPerRound`); each entry is still under way, has its
  end recorded or is excused (`EndsCounted`); and the latest record of a layer that
  has seen the outcome at hand is of that outcome, through the loop of `retry` and
  out of it (`OutcomeTold`). The last uses what `RetryProofs` shows of the
  exception in hand. `CallTypeCorrect` adds the types of records and counters.

The only assumptions are those the modules name, `BreakerAssumption`,
`DiskAssumption` and so on, which say what the code's configuration checks
accept and that bounds are numbers, and the hypotheses `NoRebootWithTTL`,
`DistinctNames` and `OrdinaryBuckets` above. TLC evaluates the former in every run;
the setups of the passing runs satisfy the latter, and without `NoRebootWithTTL` or
`OrdinaryBuckets` the properties in question fail (`disk_reboot`, `limit_longday`).

Only model-checked, and why: `Recovery`, `EveryCallReturns`, `EventuallyAdmitted`
and `CallReturns` are liveness under fairness, which the prover does not handle.
That fairness is assumed at all is irrelevant to the theorems, which are about the
safety part of the specifications.

## What is not modelled

- Serializers, previews, namespaces, directories, default keys, schema versions
  of the SQLite files: conversions without state, which matter to the models only
  as "a key", "a payload", "a content type".
- The text of log records and of diagnostic reports, redaction, and whether a
  value matches an annotation (`_matches_type`): pure functions, which tests reach.
- Disk backend: `on_drop` callbacks that use the backend they are called from,
  which neither the code nor the documents provide for.
- What the databases promise: that SQLite rolls back a transaction that fails
  midway and recovers the last commit after a crash, and that Redis runs a command
  or a script as one step. `Fail` and `Crash` assume it.
- Rate limiter, the clocks of several hosts: all callers of the model read one
  clock, `MaxLag` late at most. The Redis limiter may be shared by hosts
  (docs/rate_limit.md, "multi-host coordination"), and each of these reads its own,
  by default `time.monotonic` where there is no calendar window
  (`rate_limit.py:213`), whose origin is another on every host. The properties are
  about callers on one host, or on hosts that are given a common clock.
- Rate limiter, further: a SQLite file that outlives a reboot (its effect on the monotonic
  timestamps is that of `disk_reboot`), expiry of Redis keys (it removes only
  events that the next reservation would drop), the schema migration, resolution
  of `key` and `cost` by user callables that raise, and the datetime arithmetic
  behind the bounds of a calendar bucket.
- Cyclic nesting of coalesced functions: two threads whose functions call for
  each other's key, or a recursion on one key, wait for ever. `Nests` excludes
  it, and `EveryCallReturns` does not hold of it.
- Configuration errors at decoration time appear as the assumptions on the
  constants. `__init__.py`, `_typing.py`, `exceptions.py`, the scripts and the
  examples have no behaviour of the library.

## Plan

The order in which the models were built, most important behaviour first:

1. `CircuitBreaker` with `BreakerContract`, proofs of its invariants and of the
   refinement.
2. `MemoryCacheStore`, `MemoryCacheBackend` with `CacheContract`.
3. `CacheResult`, proofs of the coalescing protocol.
4. `RateLimiter` with the three storages and their failures.
5. `Retry`, proofs.
6. `RedisCacheBackend`, against `CacheContract`, proofs about its write-back and
   its evictions.
7. `DiskCacheBackend` with crashes and reboots, against `CacheContract`, proofs of
   its invariants.
8. `DecoratedCall`, the decorators without state around `retry`, with timeouts and
   cancellation, proofs of the refinement and of the deadlines.

9. `RateLimiterProofs`, `MemoryCacheBackendProofs`, the refinements of
   `CacheContract` and the records of `DecoratedCall`, as proofs.

What could follow:

- `SingleFlight`, an abstract specification of one computation at a time per key,
  and `CacheResult` proved to implement it;
- safety facts that liveness rests on, such as that some step is always possible
  (in other words than `ENABLED`), as invariants with proofs;
- `CacheResult` over a backend shared with other processes, whose entries other
  clients replace;
- a reboot under the SQLite limiter, and limiters with windows of the same name.
