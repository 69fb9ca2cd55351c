---------------------------- MODULE CacheResult ----------------------------
(***************************************************************************)
(* @cache_result with the default MemoryCacheBackend                       *)
(* (src/pydecorators/cache_result.py), called by several threads.          *)
(*                                                                         *)
(* A call looks its key up, and on a miss runs the wrapped function and    *)
(* stores what it returned.  With coalesce_misses the first call that      *)
(* finds no in-flight marker for its key becomes the producer; the others  *)
(* wait for the producer's Event and look the key up again.  Locked        *)
(* sections are actions; the gaps between them are where other calls run.  *)
(*                                                                         *)
(* The wrapped function may itself call the decorated function (or call    *)
(* another one whose function calls this one): a nested call runs on its   *)
(* parent's thread, so the parent is suspended until it returned.          *)
(***************************************************************************)
EXTENDS MemoryCacheStore

CONSTANTS
    Calls,              \* calls of the decorated function
    NoCall,             \* no producer, no parent
    Nests,              \* <<k1, k2>>: the function run for k1 may call for k2
    OptionSets,         \* sets of the options switched on in cache_result()
    BackendMayFail,     \* get, set_value and set_exception may raise
    MayHang,            \* keys for which the wrapped function may not return
    MaxClears           \* bound on the number of cache_clear() calls

ASSUME CacheResultAssumption ==
    /\ NoCall \notin Calls
    /\ Keys # {}
    /\ Nests \subseteq Keys \X Keys
    /\ MayHang \subseteq Keys
    \* A function that calls for a key that may hang may hang itself.
    /\ \A n \in Nests : n[2] \in MayHang => n[1] \in MayHang
    /\ OptionSets \subseteq SUBSET {"coalesce_misses", "cache_exceptions"}
    /\ BackendMayFail \in BOOLEAN
    /\ MaxClears \in Nat

VARIABLES
    options,        \* the options of this decorated function, fixed when it is made
    pc,             \* where each call is in wrapper()
    key,            \* key[c]: the cache_key of call c
    parent,         \* the call whose wrapped function made call c
    entry,          \* the entry a producer's call is about to store
    outcome,        \* what call c returned or raised
    in_flight,      \* in_flight[k]: the producer whose Event is registered for k
    eventSet,       \* the producers whose Event is set
    event,          \* event[c]: the producer whose Event call c waits for
    total_waiters,
    clears          \* cache_clear() calls so far

wrapperVars == <<in_flight, eventSet, event, total_waiters>>
callVars == <<pc, key, parent, entry, outcome>>
vars == <<now, storeVars, options, callVars, wrapperVars, clears>>

Coalesce == "coalesce_misses" \in options
CacheExceptions == "cache_exceptions" \in options

Steps == {"new", "lookup", "claim", "running", "storing", "release",
          "waiting", "woken", "returned"}
Unknown == [kind |-> "unknown", by |-> NoCall]
Kinds == {"value", "exception", "base_exception", "backend_error"}

\* Calls between taking the in-flight marker and dropping it.
Producing(c) == pc[c] \in {"running", "storing", "release"}
\* A call whose wrapped function is suspended in a nested call.
Nested(c) == {d \in Calls : parent[d] = c /\ pc[d] \notin {"new", "returned"}}

Init ==
    /\ StoreInit
    /\ options \in OptionSets
    /\ pc = [c \in Calls |-> "new"]
    /\ key = [c \in Calls |-> CHOOSE k \in Keys : TRUE]
    /\ parent = [c \in Calls |-> NoCall]
    /\ entry = [c \in Calls |-> NoCall]
    /\ outcome = [c \in Calls |-> Unknown]
    /\ in_flight = [k \in Keys |-> NoCall]
    /\ eventSet = {}
    /\ event = [c \in Calls |-> NoCall]
    /\ total_waiters = 0
    /\ clears = 0

-----------------------------------------------------------------------------

Goto(c, step) == pc' = [pc EXCEPT ![c] = step]

\* Bug in cached_entry_value: the key is returned for the payload.
ReturnEntry_Key(c, e) ==
    /\ Goto(c, "returned")
    /\ outcome' = [outcome EXCEPT ![c] = [kind |-> "value", by |-> e.key]]

\* The call ends with the entry's payload, or raises it.
ReturnEntry(c, e) ==
    /\ Goto(c, "returned")
    /\ outcome' = [outcome EXCEPT ![c] =
            [kind |-> IF e.is_exception THEN "exception" ELSE "value", by |-> e.payload]]

\* make_key, for a call from outside or from a wrapped function that is running.
Start(c, k, p) ==
    /\ pc[c] = "new"
    /\ p # NoCall => /\ pc[p] = "running"
                     /\ Nested(p) = {}
                     /\ <<key[p], k>> \in Nests
    /\ key' = [key EXCEPT ![c] = k]
    /\ parent' = [parent EXCEPT ![c] = p]
    /\ Goto(c, "lookup")
    /\ UNCHANGED <<now, storeVars, entry, outcome, wrapperVars, clears, options>>

LookupHit(c) ==
    /\ pc[c] = "lookup"
    /\ GetHit(key[c])
    /\ ReturnEntry(c, cache[key[c]])
    /\ UNCHANGED <<now, key, parent, entry, wrapperVars, clears, options>>

LookupMiss(c) ==
    /\ pc[c] = "lookup"
    /\ GetMiss(key[c])
    /\ Goto(c, IF Coalesce THEN "claim" ELSE "running")
    /\ UNCHANGED <<now, key, parent, entry, outcome, wrapperVars, clears, options>>

\* Under in_flight_lock: no marker, so this call is the producer.
BecomeProducer(c) ==
    /\ pc[c] = "claim"
    /\ in_flight[key[c]] = NoCall
    /\ in_flight' = [in_flight EXCEPT ![key[c]] = c]
    /\ Goto(c, "running")
    /\ UNCHANGED <<now, storeVars, key, parent, entry, outcome, eventSet, event,
                   total_waiters, clears, options>>

\* Under in_flight_lock: another call is the producer; take its Event.
JoinWaiters(c) ==
    /\ pc[c] = "claim"
    /\ in_flight[key[c]] # NoCall
    /\ event' = [event EXCEPT ![c] = in_flight[key[c]]]
    /\ Goto(c, "waiting")
    /\ UNCHANGED <<now, storeVars, key, parent, entry, outcome, in_flight, eventSet,
                   total_waiters, clears, options>>

\* in_flight_event.wait() returned; the diagnostics are updated.
Wake(c) ==
    /\ pc[c] = "waiting"
    /\ event[c] \in eventSet
    /\ total_waiters' = total_waiters + 1
    /\ Goto(c, "woken")
    /\ UNCHANGED <<now, storeVars, key, parent, entry, outcome, in_flight, eventSet,
                   event, clears, options>>

RecheckHit(c) ==
    /\ pc[c] = "woken"
    /\ GetHit(key[c])
    /\ ReturnEntry(c, cache[key[c]])
    /\ UNCHANGED <<now, key, parent, entry, wrapperVars, clears, options>>

\* Nothing there: the while loop tries to become the producer again.
RecheckMiss(c) ==
    /\ pc[c] = "woken"
    /\ GetMiss(key[c])
    /\ Goto(c, "claim")
    /\ UNCHANGED <<now, key, parent, entry, outcome, wrapperVars, clears, options>>

\* The first lookup of the call, or that of a waiter, raises, and so does the call.
GetFails(c) ==
    /\ BackendMayFail
    /\ pc[c] \in {"lookup", "woken"}
    /\ outcome' = [outcome EXCEPT ![c] = [kind |-> "backend_error", by |-> c]]
    /\ Goto(c, "returned")
    /\ UNCHANGED <<now, storeVars, key, parent, entry, wrapperVars, clears, options>>

\* compute_and_store is over: through the finally block, or straight to the caller.
AfterCompute(c) == Goto(c, IF Coalesce THEN "release" ELSE "returned")

\* The wrapped function returned, or raised if `raised`; set_value or
\* set_exception stamps the entry.
Stamp(c, raised) ==
    /\ pc[c] = "running"
    /\ Nested(c) = {}
    /\ entry' = [entry EXCEPT ![c] =
            [key |-> key[c], payload |-> c, is_exception |-> raised, expires_at |-> ExpiresAt]]
    /\ outcome' = [outcome EXCEPT ![c] =
            [kind |-> IF raised THEN "exception" ELSE "value", by |-> c]]
    /\ Goto(c, "storing")
    /\ UNCHANGED <<now, storeVars, key, parent, in_flight, event, total_waiters, clears, options>>

\* Bugs: exceptions are cached without cache_exceptions; or the waiters are woken
\* before the entry is stored.
FinishCached_AnyException(c) ==
    \E raised \in BOOLEAN : Stamp(c, raised) /\ UNCHANGED eventSet
FinishCached_WakesEarly(c) ==
    \E raised \in (IF CacheExceptions THEN BOOLEAN ELSE {FALSE}) :
        Stamp(c, raised) /\ eventSet' = eventSet \cup {c}

\* The function came back with something that is to be cached.
FinishCached(c) ==
    \E raised \in (IF CacheExceptions THEN BOOLEAN ELSE {FALSE}) :
        Stamp(c, raised) /\ UNCHANGED eventSet

\* It raised something that is not cached: an Exception without
\* cache_exceptions, or a BaseException in any case.
FinishUncached(c) ==
    /\ pc[c] = "running"
    /\ Nested(c) = {}
    /\ \E kind \in {"base_exception"} \cup (IF CacheExceptions THEN {} ELSE {"exception"}) :
         outcome' = [outcome EXCEPT ![c] = [kind |-> kind, by |-> c]]
    /\ AfterCompute(c)
    /\ UNCHANGED <<now, storeVars, key, parent, entry, wrapperVars, clears, options>>

\* _set_entry, under the backend's lock.
Store(c) ==
    /\ pc[c] = "storing"
    /\ SetEntry(entry[c])
    /\ entry' = [entry EXCEPT ![c] = NoCall]
    /\ AfterCompute(c)
    /\ UNCHANGED <<now, key, parent, outcome, wrapperVars, clears, options>>

\* Bug: the exception of the backend bypasses the finally block.
StoreFails_NoFinally(c) ==
    /\ BackendMayFail
    /\ pc[c] = "storing"
    /\ outcome' = [outcome EXCEPT ![c] = [kind |-> "backend_error", by |-> c]]
    /\ entry' = [entry EXCEPT ![c] = NoCall]
    /\ Goto(c, "returned")
    /\ UNCHANGED <<now, storeVars, key, parent, wrapperVars, clears, options>>

\* The backend raised: the caller gets that exception, nothing is stored.
StoreFails(c) ==
    /\ BackendMayFail
    /\ pc[c] = "storing"
    /\ outcome' = [outcome EXCEPT ![c] = [kind |-> "backend_error", by |-> c]]
    /\ entry' = [entry EXCEPT ![c] = NoCall]
    /\ AfterCompute(c)
    /\ UNCHANGED <<now, storeVars, key, parent, wrapperVars, clears, options>>

\* Bug: the marker is dropped, but the Event is not set.
Release_NoSet(c) ==
    /\ pc[c] = "release"
    /\ in_flight' = [in_flight EXCEPT ![key[c]] = NoCall]
    /\ Goto(c, "returned")
    /\ UNCHANGED <<now, storeVars, key, parent, entry, outcome, event, eventSet, total_waiters,
                   clears, options>>

\* The finally block, under in_flight_lock.
Release(c) ==
    /\ pc[c] = "release"
    /\ in_flight' = IF in_flight[key[c]] = c
                    THEN [in_flight EXCEPT ![key[c]] = NoCall] ELSE in_flight
    /\ eventSet' = eventSet \cup {c}
    /\ Goto(c, "returned")
    /\ UNCHANGED <<now, storeVars, key, parent, entry, outcome, event, total_waiters,
                   clears, options>>

\* wrapped.cache_clear()
CacheClear ==
    /\ clears < MaxClears
    /\ clears' = clears + 1
    /\ ClearStore
    /\ UNCHANGED <<now, callVars, wrapperVars, options>>

\* wrapped.cache_info()
CacheInfo ==
    /\ Prune
    /\ UNCHANGED <<now, callVars, wrapperVars, clears, options>>

Tick ==
    /\ Advance
    /\ UNCHANGED <<storeVars, callVars, wrapperVars, clears, options>>

Lookup(c) == LookupHit(c) \/ LookupMiss(c)
Claim(c) == BecomeProducer(c) \/ JoinWaiters(c)
Recheck(c) == RecheckHit(c) \/ RecheckMiss(c)
Finish(c) == FinishCached(c) \/ FinishUncached(c)
EndStore(c) == Store(c) \/ StoreFails(c)

Next ==
    \/ \E c \in Calls :
         \/ \E k \in Keys, p \in Calls \cup {NoCall} : Start(c, k, p)
         \/ Lookup(c) \/ Claim(c) \/ Wake(c) \/ Recheck(c) \/ GetFails(c)
         \/ Finish(c) \/ EndStore(c) \/ Release(c)
    \/ CacheClear
    \/ CacheInfo
    \/ Tick

Spec == Init /\ [][Next]_vars

\* Every thread is scheduled, locks are granted, and the wrapped function
\* returns, except for the keys it may hang for.
Fairness == \A c \in Calls :
    /\ WF_vars(Lookup(c)) /\ WF_vars(Claim(c)) /\ WF_vars(Wake(c))
    /\ WF_vars(Recheck(c)) /\ WF_vars(EndStore(c)) /\ WF_vars(Release(c))
    /\ WF_vars(key[c] \notin MayHang /\ Finish(c))

FairSpec == Spec /\ Fairness

-----------------------------------------------------------------------------
(* Properties *)

EntryType ==
    [key : Keys, payload : Calls, is_exception : BOOLEAN, expires_at : {None} \cup Nat]

TypeOK ==
    /\ now \in Nat
    /\ options \in OptionSets
    /\ Held \subseteq Keys /\ cache \in [Held -> EntryType]
    /\ \A k \in Held : cache[k].key = k
    /\ older \subseteq Held \X Held
    /\ hits \in Nat /\ misses \in Nat
    /\ pc \in [Calls -> Steps]
    /\ key \in [Calls -> Keys]
    /\ parent \in [Calls -> Calls \cup {NoCall}]
    /\ entry \in [Calls -> EntryType \cup {NoCall}]
    /\ outcome \in [Calls -> [kind : Kinds, by : Calls] \cup {Unknown}]
    /\ in_flight \in [Keys -> Calls \cup {NoCall}]
    /\ eventSet \subseteq Calls
    /\ event \in [Calls -> Calls \cup {NoCall}]
    /\ total_waiters \in Nat
    /\ clears \in Nat

\* The in-flight markers are exactly the computations in progress: with
\* coalescing no two calls run the wrapped function for one key at the same
\* time, and no failure of the function or of the backend leaves a marker behind
\* that would poison the key.
MarkersExact ==
    /\ \A k \in Keys : in_flight[k] # NoCall =>
         Producing(in_flight[k]) /\ key[in_flight[k]] = k
    /\ Coalesce => \A c \in Calls : Producing(c) => in_flight[key[c]] = c

\* A waiting call waits for the marker of its own key: either the Event has been
\* set, or the producer that will set it is still registered.  A producer that
\* finishes between the lookup of the marker and the wait is not missed.
NoLostWakeup ==
    \A c \in Calls : pc[c] = "waiting" =>
        event[c] \in eventSet \/ in_flight[key[c]] = event[c]

\* What a call returns or raises is what one execution of the wrapped function
\* for the same key gave, its own or the one whose entry it was served; nothing
\* but values, and exceptions if cache_exceptions, travels through the cache.
Provenance ==
    \A c \in Calls : pc[c] = "returned" =>
        /\ outcome[c].by \in Calls
        /\ key[outcome[c].by] = key[c]
        /\ outcome[c] = outcome[outcome[c].by]
        /\ outcome[c].by # c =>
             outcome[c].kind \in {"value"} \cup (IF CacheExceptions THEN {"exception"} ELSE {})

\* docs/cache_result.md: waiters re-check the backend after the producer
\* finishes.  While nothing expires, is evicted or cleared, a waiter that finds
\* no entry waited for a producer whose outcome was not to be cached, or could
\* not be: the Event is never set before the entry is there.
Forgetful == TTL # None \/ MaxSize # None \/ MaxClears > 0
WaitersShareResult ==
    [][\A c \in Calls : ~Forgetful /\ pc[c] = "woken" /\ pc'[c] = "claim" =>
         outcome[event[c]].kind \notin
            {"value"} \cup (IF CacheExceptions THEN {"exception"} ELSE {})]_vars

\* Every call returns, except where the wrapped function itself may hang: a
\* computation in progress holds up no call for another key, and a producer that
\* fails leaves its waiters free.
EveryCallReturns ==
    \A c \in Calls : pc[c] = "lookup" /\ key[c] \notin MayHang ~> pc[c] = "returned"
=============================================================================
