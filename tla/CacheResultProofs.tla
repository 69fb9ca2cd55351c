------------------------- MODULE CacheResultProofs -------------------------
(***************************************************************************)
(* CacheResult for every set of calls and keys, every nesting and every    *)
(* configuration.                                                          *)
(*                                                                         *)
(* The coalescing protocol first: markers are exactly the computations in  *)
(* progress, and no waiter waits for an Event nobody will set. Neither the *)
(* store nor the clock matters for it, so IInv says nothing of them. PInv  *)
(* follows results from the execution that made them through the store to  *)
(* the callers, and WInv what a producer stored to the waiters it wakes.   *)
(***************************************************************************)
EXTENDS CacheResult, TLAPS

WrapperType ==
    /\ pc \in [Calls -> Steps]
    /\ key \in [Calls -> Keys]
    /\ in_flight \in [Keys -> Calls \cup {NoCall}]
    /\ event \in [Calls -> Calls \cup {NoCall}]
    /\ eventSet \subseteq Calls

\* What MarkersExact and NoLostWakeup need to be inductive: a waiting call took
\* its Event from a marker that was there, and without coalesce_misses no call
\* reaches the in-flight table.
WaitsForCall == \A c \in Calls : pc[c] = "waiting" => event[c] \in Calls
PlainCalls == ~Coalesce =>
    /\ \A k \in Keys : in_flight[k] = NoCall
    /\ \A c \in Calls : pc[c] \notin {"claim", "waiting", "woken", "release"}

IInv == WrapperType /\ MarkersExact /\ NoLostWakeup /\ WaitsForCall /\ PlainCalls

LEMMA InitInv == Init => IInv
<1>1. SUFFICES ASSUME Init PROVE IInv
    OBVIOUS
<1>2. (CHOOSE k \in Keys : TRUE) \in Keys
    BY CacheResultAssumption
<1>3. WrapperType
    BY <1>1, <1>2 DEF Init, WrapperType, Steps
<1>4. MarkersExact /\ NoLostWakeup /\ WaitsForCall /\ PlainCalls
    BY <1>1 DEF Init, MarkersExact, NoLostWakeup, WaitsForCall, PlainCalls, Producing
<1>5. QED
    BY <1>3, <1>4 DEF IInv

\* Steps of a call that only move it between program points that hold no marker
\* and wait for nothing.
LEMMA MoveInv ==
    ASSUME IInv, NEW c \in Calls, NEW step \in Steps,
           pc' = [pc EXCEPT ![c] = step],
           pc[c] \in {"lookup", "waiting", "woken"},
           step \in {"returned", "woken", "claim"},
           ~Coalesce => step = "returned",
           UNCHANGED <<options, key, in_flight, event, eventSet>>
    PROVE  IInv'
BY DEF IInv, WrapperType, MarkersExact, NoLostWakeup, WaitsForCall, PlainCalls, Producing,
       Steps, Coalesce

\* Steps of a producer between taking its marker and dropping it.
LEMMA ProduceInv ==
    ASSUME IInv, NEW c \in Calls, Producing(c), pc[c] # "release",
           \/ pc' = [pc EXCEPT ![c] = "storing"]
           \/ AfterCompute(c),
           UNCHANGED <<options, key, in_flight, event, eventSet>>
    PROVE  IInv'
<1> USE CacheResultAssumption
        DEF IInv, WrapperType, MarkersExact, NoLostWakeup, WaitsForCall, PlainCalls,
            Producing, Steps, Coalesce, AfterCompute, Goto
<1>1. CASE pc' = [pc EXCEPT ![c] = "storing"]
    BY <1>1
<1>2. CASE AfterCompute(c) /\ Coalesce
    BY <1>2
<1>3. CASE AfterCompute(c) /\ ~Coalesce
    BY <1>3
<1>4. QED
    BY <1>1, <1>2, <1>3

LEMMA NextInv == IInv /\ [Next]_vars => IInv'
<1> SUFFICES ASSUME IInv, [Next]_vars PROVE IInv'
    OBVIOUS
<1> USE CacheResultAssumption
<1>1. ASSUME NEW c \in Calls, NEW k \in Keys, NEW p \in Calls \cup {NoCall}, Start(c, k, p)
      PROVE  IInv'
    BY <1>1 DEF Start, Goto, wrapperVars, IInv, WrapperType, MarkersExact, NoLostWakeup,
                WaitsForCall, PlainCalls, Producing, Steps, Coalesce
<1>2. ASSUME NEW c \in Calls, Lookup(c) PROVE IInv'
    <2>1. CASE LookupHit(c)
        BY <2>1, MoveInv DEF LookupHit, ReturnEntry, Goto, wrapperVars, Steps
    <2>2. CASE LookupMiss(c) /\ Coalesce
        BY <2>2, MoveInv DEF LookupMiss, Goto, wrapperVars, Steps
    <2>3. CASE LookupMiss(c) /\ ~Coalesce
        BY <2>3 DEF LookupMiss, Goto, wrapperVars, IInv, WrapperType, MarkersExact,
                    NoLostWakeup, WaitsForCall, PlainCalls, Producing, Steps, Coalesce
    <2>4. QED
        BY <1>2, <2>1, <2>2, <2>3 DEF Lookup
<1>3. ASSUME NEW c \in Calls, BecomeProducer(c) PROVE IInv'
    BY <1>3 DEF BecomeProducer, Goto, IInv, WrapperType, MarkersExact, NoLostWakeup,
                WaitsForCall, PlainCalls, Producing, Steps, Coalesce
<1>4. ASSUME NEW c \in Calls, JoinWaiters(c) PROVE IInv'
    BY <1>4 DEF JoinWaiters, Goto, IInv, WrapperType, MarkersExact, NoLostWakeup,
                WaitsForCall, PlainCalls, Producing, Steps, Coalesce
<1>5. ASSUME NEW c \in Calls, Wake(c) \/ Recheck(c) PROVE IInv'
    <2>1. Coalesce
        BY <1>5 DEF Wake, Recheck, RecheckHit, RecheckMiss, IInv, PlainCalls
    <2>2. QED
        BY <1>5, <2>1, MoveInv
        DEF Wake, Recheck, RecheckHit, RecheckMiss, ReturnEntry, Goto, wrapperVars, Steps
<1>6. ASSUME NEW c \in Calls, Finish(c) \/ EndStore(c) PROVE IInv'
    BY <1>6, ProduceInv DEF Finish, FinishCached, Stamp, FinishUncached, EndStore, Store,
                            StoreFails, Producing, Goto, wrapperVars
<1>7. ASSUME NEW c \in Calls, Release(c) PROVE IInv'
    BY <1>7 DEF Release, Goto, IInv, WrapperType, MarkersExact, NoLostWakeup,
                WaitsForCall, PlainCalls, Producing, Steps, Coalesce
<1>8. ASSUME CacheClear \/ CacheInfo \/ Tick \/ UNCHANGED vars PROVE IInv'
    BY <1>8 DEF CacheClear, CacheInfo, Tick, vars, callVars, wrapperVars, IInv, WrapperType,
                MarkersExact, NoLostWakeup, WaitsForCall, PlainCalls, Producing, Coalesce
<1>9. ASSUME NEW c \in Calls, GetFails(c) PROVE IInv'
    BY <1>9, MoveInv DEF GetFails, Goto, wrapperVars, Steps
<1>10. QED
    BY <1>1, <1>2, <1>3, <1>4, <1>5, <1>6, <1>7, <1>8, <1>9 DEF Next, Claim

LEMMA SpecInv == Spec => []IInv
BY InitInv, NextInv, PTL DEF Spec

\* With coalesce_misses the wrapped function never runs twice at the same time
\* for one key, and no marker outlives its computation, for any number of
\* threads, keys, nested calls and backend failures.
THEOREM CacheMarkersExact == Spec => []MarkersExact
<1>1. IInv => MarkersExact
    BY DEF IInv
<1>2. QED
    BY SpecInv, <1>1, PTL

\* A call that waits is always owed a wake-up: its Event is set, or the call it
\* waits for is still the registered producer of the key.
THEOREM CacheNoLostWakeup == Spec => []NoLostWakeup
<1>1. IInv => NoLostWakeup
    BY DEF IInv
<1>2. QED
    BY SpecInv, <1>1, PTL

-----------------------------------------------------------------------------
(* Types *)

StoreType ==
    /\ Held \subseteq Keys /\ cache \in [Held -> EntryType]
    /\ \A k \in Held : cache[k].key = k
    /\ older \subseteq Held \X Held
    /\ hits \in Nat /\ misses \in Nat

\* What a reader of an entry sees of it.
Same(d, e) == d.key = e.key /\ d.payload = e.payload /\ d.is_exception = e.is_exception

LEMMA ExpiresAtType == now \in Nat => ExpiresAt \in {None} \cup Nat
BY StoreAssumption DEF ExpiresAt, ValidStore

LEMMA KeepStore ==
    ASSUME StoreType, NEW T, T \subseteq Held, Keep(T), hits' \in Nat, misses' \in Nat
    PROVE  StoreType' /\ Held' = T /\ \A k \in T : cache'[k] = cache[k]
<1>1. Held' = T /\ \A k \in T : cache'[k] = cache[k]
    BY DEF Keep, Held
<1>2. QED
    BY <1>1 DEF Keep, StoreType

LEMMA MissStore ==
    ASSUME StoreType, NEW k, GetMiss(k)
    PROVE  StoreType' /\ Held' = Held \ {k} /\ \A j \in Held' : cache'[j] = cache[j]
<1>1. Keep(Held \ {k}) /\ hits' \in Nat /\ misses' \in Nat
    BY DEF GetMiss, StoreType
<1>2. QED
    BY <1>1, KeepStore

LEMMA HitStore ==
    ASSUME StoreType, now \in Nat, NEW k, GetHit(k)
    PROVE  /\ StoreType' /\ Held' = Held /\ k \in Held
           /\ \A j \in Held : /\ Same(cache'[j], cache[j])
                              /\ cache'[j].expires_at \in {cache[j].expires_at, ExpiresAt}
<1> USE DEF GetHit, Live
<1>1. Held' = Held /\ k \in Held
    BY DEF StoreType, Held
<1>2. \A j \in Held :
            /\ cache'[j] \in EntryType
            /\ Same(cache'[j], cache[j])
            /\ cache'[j].expires_at \in {cache[j].expires_at, ExpiresAt}
    BY <1>1, ExpiresAtType DEF StoreType, EntryType, Same, Held
<1>3. cache' \in [Held' -> EntryType]
    <2>1. cache' = [j \in Held' |-> cache'[j]]
        BY <1>1 DEF StoreType, Held
    <2>2. QED
        BY <1>1, <1>2, <2>1
<1>4. older' \subseteq Held \X Held
    BY <1>1 DEF StoreType, MovedToEnd
<1>5. QED
    BY <1>1, <1>2, <1>3, <1>4 DEF StoreType, Same

LEMMA SetStore ==
    ASSUME StoreType, NEW e \in EntryType, SetEntry(e)
    PROVE  /\ StoreType'
           /\ \A k \in Held' : \/ k = e.key /\ cache'[k] = e
                               \/ k \in Held /\ cache'[k] = cache[k]
           /\ MaxSize = None => Held' = Held \cup {e.key}
<1> DEFINE R == MovedToEnd(e.key, Held \cup {e.key})
           L == Left(Held \cup {e.key}, R)
<1>1. /\ cache' = [k \in L |-> IF k = e.key THEN e ELSE cache[k]]
      /\ older' \subseteq L \X L
      /\ UNCHANGED <<hits, misses>>
    BY DEF SetEntry, Write
<1>2. L \subseteq Held \cup {e.key} /\ (MaxSize = None => L = Held \cup {e.key})
    BY DEF Left
<1> HIDE DEF L
<1>3. Held' = L
    BY <1>1 DEF Held
<1>4. \A k \in Held' : \/ k = e.key /\ cache'[k] = e
                       \/ k \in Held /\ cache'[k] = cache[k]
    BY <1>1, <1>2, <1>3
<1>5. Held' \subseteq Keys /\ \A k \in Held' : cache'[k] \in EntryType /\ cache'[k].key = k
    BY <1>2, <1>3, <1>4 DEF StoreType, EntryType
<1>6. cache' \in [Held' -> EntryType]
    BY <1>1, <1>3, <1>5
<1>7. QED
    BY <1>1, <1>2, <1>3, <1>4, <1>5, <1>6 DEF StoreType

-----------------------------------------------------------------------------
(* Where results come from *)

\* The outcome of such a call is final.
Settled(c) == pc[c] \in {"release", "returned"}

\* The entry says what the execution that made it returned or raised.
Faithful(e) ==
    /\ e.payload \in Calls /\ key[e.payload] = e.key
    /\ outcome[e.payload] =
            [kind |-> IF e.is_exception THEN "exception" ELSE "value", by |-> e.payload]
    /\ e.is_exception => CacheExceptions

CachedFaithful == \A k \in Held : Faithful(cache[k]) /\ Settled(cache[k].payload)
StoringFaithful ==
    \A c \in Calls : pc[c] = "storing" =>
        entry[c] \in EntryType /\ entry[c].payload = c /\ Faithful(entry[c])
OutcomesFinal ==
    \A c \in Calls :
        /\ pc[c] = "release" => outcome[c].by = c
        /\ pc[c] = "returned" => outcome[c].by \in Calls /\ Settled(outcome[c].by)

PInv == TypeOK /\ CachedFaithful /\ StoringFaithful /\ OutcomesFinal /\ Provenance

\* The part of TypeOK that neither the wrapper's nor the store's type says.
RestType ==
    /\ now \in Nat /\ options \in OptionSets
    /\ parent \in [Calls -> Calls \cup {NoCall}]
    /\ entry \in [Calls -> EntryType \cup {NoCall}]
    /\ outcome \in [Calls -> [kind : Kinds, by : Calls] \cup {Unknown}]
    /\ total_waiters \in Nat /\ clears \in Nat

LEMMA TypeParts == TypeOK <=> WrapperType /\ StoreType /\ RestType
BY DEF TypeOK, WrapperType, StoreType, RestType

LEMMA InitPInv == Init => PInv
<1> SUFFICES ASSUME Init PROVE PInv
    OBVIOUS
<1>1. Held = {} /\ cache \in [Held -> EntryType]
    BY DEF Init, StoreInit, Held
<1>2. WrapperType
    BY InitInv DEF IInv
<1>3. StoreType
    BY <1>1 DEF Init, StoreInit, StoreType
<1>4. RestType
    BY DEF Init, StoreInit, RestType
<1>5. TypeOK
    BY <1>2, <1>3, <1>4, TypeParts
<1>6. CachedFaithful /\ StoringFaithful /\ OutcomesFinal /\ Provenance
    BY <1>1 DEF Init, CachedFaithful, StoringFaithful, OutcomesFinal, Provenance
<1>7. QED
    BY <1>5, <1>6 DEF PInv

\* An entry of a settled call is as good as it was.
LEMMA FaithfulKept ==
    ASSUME NEW d, NEW e, Same(d, e), Faithful(e), options' = options,
           key'[e.payload] = key[e.payload], outcome'[e.payload] = outcome[e.payload]
    PROVE  Faithful(d)'
BY DEF Same, Faithful, CacheExceptions

\* One call moves; those that settled stay settled, with key and outcome.
LEMMA OthersKept ==
    ASSUME WrapperType, NEW c \in Calls, ~Settled(c) \/ pc[c] = "release",
           NEW s \in Steps, Goto(c, s), pc[c] = "release" => s = "returned",
           \A d \in Calls : d # c => key'[d] = key[d] /\ outcome'[d] = outcome[d],
           pc[c] = "release" => key'[c] = key[c] /\ outcome'[c] = outcome[c]
    PROVE  /\ \A d \in Calls : Settled(d) =>
                    Settled(d)' /\ key'[d] = key[d] /\ outcome'[d] = outcome[d]
           /\ \A d \in Calls : d # c => pc'[d] = pc[d]
           /\ pc'[c] = s
BY DEF Settled, Goto, WrapperType

\* Whatever call c does: if it leaves entries that were there or a faithful one
\* of its own, and ends, if it ends, with an outcome that is its own or final,
\* the invariant holds of all calls.
LEMMA CallKeepsPInv ==
    ASSUME PInv, TypeOK', options' = options, NEW c \in Calls,
           ~Settled(c) \/ pc[c] = "release",
           NEW s \in Steps, Goto(c, s), pc[c] = "release" => s = "returned",
           \A d \in Calls : d # c => /\ key'[d] = key[d] /\ outcome'[d] = outcome[d]
                                     /\ entry'[d] = entry[d],
           pc[c] = "release" => key'[c] = key[c] /\ outcome'[c] = outcome[c],
           NEW e,
           \A k \in Held' : \/ k \in Held /\ Same(cache'[k], cache[k])
                            \/ /\ cache'[k] = e /\ Faithful(e)' /\ e.payload = c
                               /\ s \in {"release", "returned"},
           s = "storing" => /\ entry'[c] = e /\ e \in EntryType /\ e.payload = c
                            /\ Faithful(e)',
           s = "release" => outcome'[c].by = c,
           s = "returned" =>
                \/ outcome'[c].by = c
                \/ \E k \in Held :
                     /\ cache[k].key = key'[c]
                     /\ outcome'[c] = outcome[cache[k].payload]
    PROVE  PInv'
<1> USE DEF PInv
<1>1. WrapperType
    BY TypeParts
<1>2. /\ \A d \in Calls : Settled(d) =>
                Settled(d)' /\ key'[d] = key[d] /\ outcome'[d] = outcome[d]
      /\ \A d \in Calls : d # c => pc'[d] = pc[d]
      /\ pc'[c] = s
    BY <1>1, OthersKept
<1>3. CachedFaithful'
    <2> SUFFICES ASSUME NEW k \in Held', NEW d, d = cache'[k]
                 PROVE  Faithful(d)' /\ Settled(d.payload)'
        BY DEF CachedFaithful
    <2>1. CASE k \in Held /\ Same(d, cache[k])
        <3>1. Faithful(cache[k]) /\ Settled(cache[k].payload) /\ cache[k].payload \in Calls
            BY <2>1 DEF CachedFaithful, Faithful
        <3>2. d.payload = cache[k].payload
            BY <2>1 DEF Same
        <3>3. Faithful(d)'
            BY <1>2, <2>1, <3>1, FaithfulKept
        <3>4. Settled(d.payload)'
            BY <1>2, <3>1, <3>2
        <3>5. QED
            BY <3>3, <3>4
    <2>2. CASE /\ d = e /\ Faithful(e)' /\ e.payload = c
               /\ s \in {"release", "returned"}
        BY <1>2, <2>2 DEF Settled
    <2>3. QED
        BY <2>1, <2>2
<1>4. StoringFaithful'
    <2> SUFFICES ASSUME NEW d \in Calls, pc'[d] = "storing", NEW n, n = entry'[d]
                 PROVE  n \in EntryType /\ n.payload = d /\ Faithful(n)'
        BY DEF StoringFaithful, EntryType
    <2>1. CASE d = c
        BY <1>2, <2>1
    <2>2. CASE d # c
        <3>1. /\ n = entry[d] /\ n \in EntryType /\ n.payload = d
              /\ Faithful(n) /\ key'[d] = key[d] /\ outcome'[d] = outcome[d]
            BY <1>2, <2>2 DEF StoringFaithful
        <3>2. Same(n, n)
            BY DEF Same
        <3>3. QED
            BY <3>1, <3>2, FaithfulKept
    <2>3. QED
        BY <2>1, <2>2
\* What the entry a call is served says of the call that made it.
<1>5. ASSUME NEW k \in Held, cache[k].key = key'[c],
             outcome'[c] = outcome[cache[k].payload], s = "returned",
             NEW p, p = outcome'[c].by
      PROVE  /\ p \in Calls /\ Settled(p)' /\ key'[p] = key'[c] /\ outcome'[c] = outcome'[p]
             /\ outcome'[c].kind \in {"value"} \cup (IF CacheExceptions THEN {"exception"} ELSE {})
    <2>1. p = cache[k].payload /\ p \in Calls /\ Settled(p) /\ Faithful(cache[k])
        BY <1>5 DEF CachedFaithful, Faithful
    <2>2. key[p] = key'[c]
          /\ outcome'[c].kind \in {"value"} \cup (IF CacheExceptions THEN {"exception"} ELSE {})
        BY <1>5, <2>1 DEF Faithful
    <2>3. QED
        BY <1>2, <1>5, <2>1, <2>2
<1>6. OutcomesFinal'
    <2> SUFFICES ASSUME NEW d \in Calls, NEW p, p = outcome'[d].by
                 PROVE  /\ pc'[d] = "release" => p = d
                        /\ pc'[d] = "returned" => p \in Calls /\ Settled(p)'
        BY DEF OutcomesFinal
    <2>1. CASE d = c
        <3>1. s = "returned" => Settled(c)'
            BY <1>2 DEF Settled
        <3>2. QED
            BY <1>2, <1>5, <2>1, <3>1
    <2>2. CASE d # c
        <3>1. pc[d] = pc'[d] /\ outcome'[d] = outcome[d]
            BY <1>2, <2>2
        <3>2. QED
            BY <1>2, <3>1 DEF OutcomesFinal
    <2>3. QED
        BY <2>1, <2>2
<1>7. Provenance'
    <2> SUFFICES ASSUME NEW d \in Calls, pc'[d] = "returned"
                 PROVE  /\ outcome'[d].by \in Calls
                        /\ key'[outcome'[d].by] = key'[d]
                        /\ outcome'[d] = outcome'[outcome'[d].by]
                        /\ outcome'[d].by # d => outcome'[d].kind \in
                            {"value"} \cup (IF CacheExceptions THEN {"exception"} ELSE {})
        BY DEF Provenance, CacheExceptions
    <2>1. CASE d = c
        BY <1>2, <1>5, <2>1
    <2>2. CASE d # c
        <3>1. pc[d] = "returned" /\ Settled(d) /\ Settled(outcome[d].by) /\ outcome[d].by \in Calls
            BY <1>2, <2>2 DEF OutcomesFinal, Settled
        <3>2. outcome'[d] = outcome[d] /\ key'[d] = key[d]
              /\ key'[outcome[d].by] = key[outcome[d].by]
              /\ outcome'[outcome[d].by] = outcome[outcome[d].by]
            BY <1>2, <3>1
        <3>3. QED
            BY <3>1, <3>2 DEF Provenance
    <2>3. QED
        BY <2>1, <2>2
<1>8. QED
    BY <1>3, <1>4, <1>6, <1>7

LEMMA NextPInv == IInv' /\ PInv /\ [Next]_vars => PInv'
<1> SUFFICES ASSUME IInv', PInv, [Next]_vars PROVE PInv'
    OBVIOUS
<1>0. TypeOK /\ WrapperType /\ StoreType /\ RestType /\ WrapperType'
    BY TypeParts DEF PInv, IInv
\* The types, once those of the store and of what else changed are known.
<1>a. ASSUME StoreType', RestType' PROVE TypeOK'
    BY <1>0, <1>a DEF TypeOK, WrapperType, StoreType, RestType
<1>b. ASSUME UNCHANGED storeVars PROVE StoreType' /\ Held' = Held
    BY <1>0, <1>b DEF StoreType, storeVars, Held
<1>c. ASSUME UNCHANGED storeVars PROVE \A k \in Held' : k \in Held /\ Same(cache'[k], cache[k])
    BY <1>0, <1>c DEF storeVars, Held, Same
\* An entry that a lookup found, or the lookup itself.
<1>d. ASSUME NEW c \in Calls, pc[c] \in {"lookup", "woken"},
             GetHit(key[c]), ReturnEntry(c, cache[key[c]]),
             UNCHANGED <<now, key, parent, entry, wrapperVars, clears, options>>
      PROVE  PInv'
    <2> DEFINE k == key[c]
               a == [kind |-> IF cache[k].is_exception THEN "exception" ELSE "value",
                     by |-> cache[k].payload]
    <2>1. StoreType' /\ Held' = Held /\ k \in Held /\ \A j \in Held : Same(cache'[j], cache[j])
        BY <1>0, <1>d, HitStore DEF RestType
    <2>2. Goto(c, "returned") /\ outcome' = [outcome EXCEPT ![c] = a]
        BY <1>d DEF ReturnEntry
    <2>3. Faithful(cache[k]) /\ cache[k].key = k /\ a = outcome[cache[k].payload]
        BY <1>0, <2>1 DEF PInv, CachedFaithful, Faithful, StoreType
    <2>4. a \in [kind : Kinds, by : Calls]
        BY <2>3 DEF Faithful, Kinds
    <2>5. outcome'[c] = a /\ \A d \in Calls : d # c => outcome'[d] = outcome[d]
        BY <1>0, <2>2 DEF RestType
    <2>6. RestType'
        BY <1>0, <1>d, <2>2, <2>4 DEF RestType, wrapperVars
    <2>7. TypeOK'
        BY <1>a, <2>1, <2>6
    <2> HIDE DEF a
    <2>8. QED
        BY <1>d, <2>1, <2>2, <2>3, <2>5, <2>7, CallKeepsPInv DEF Settled, Steps
<1>e. ASSUME NEW c \in Calls, pc[c] \in {"lookup", "woken"}, GetMiss(key[c]),
             NEW s \in {"claim", "running"}, Goto(c, s),
             UNCHANGED <<now, key, parent, entry, outcome, wrapperVars, clears, options>>
      PROVE  PInv'
    <2>1. StoreType' /\ Held' \subseteq Held /\ \A k \in Held' : cache'[k] = cache[k]
        BY <1>0, <1>e, MissStore
    <2>2. TypeOK'
        BY <1>0, <1>a, <1>e, <2>1 DEF RestType, wrapperVars
    <2>3. QED
        BY <1>e, <2>1, <2>2, CallKeepsPInv DEF Settled, Steps, Same
\* Steps between the lookups, which leave the store and all outcomes alone.
<1>f. ASSUME NEW c \in Calls, pc[c] \in {"claim", "waiting"},
             NEW s \in {"running", "waiting", "woken"}, Goto(c, s), total_waiters' \in Nat,
             UNCHANGED <<now, storeVars, key, parent, entry, outcome, clears, options>>
      PROVE  PInv'
    <2>1. TypeOK'
        BY <1>0, <1>a, <1>b, <1>f DEF RestType
    <2>2. QED
        BY <1>c, <1>f, <2>1, CallKeepsPInv DEF Settled, Steps
\* A computation is over: what it gave is the call's own, and final.
<1>g. ASSUME NEW c \in Calls, NEW s \in {"release", "returned"}, Goto(c, s), ~Settled(c),
             NEW kind \in Kinds, outcome' = [outcome EXCEPT ![c] = [kind |-> kind, by |-> c]],
             entry' = [entry EXCEPT ![c] = NoCall] \/ UNCHANGED entry,
             UNCHANGED <<now, storeVars, key, parent, wrapperVars, clears, options>>
      PROVE  PInv'
    <2>1. RestType'
        BY <1>0, <1>g DEF RestType, wrapperVars
    <2>2. TypeOK'
        BY <1>a, <1>b, <1>g, <2>1
    <2>3. outcome'[c].by = c /\ \A d \in Calls : d # c => outcome'[d] = outcome[d]
        BY <1>0, <1>g DEF RestType
    <2>4. \A d \in Calls : d # c => entry'[d] = entry[d]
        BY <1>0, <1>g DEF RestType
    <2>5. QED
        BY <1>c, <1>g, <2>2, <2>3, <2>4, CallKeepsPInv DEF Settled, Steps
\* Steps of no call.
<1>h. ASSUME StoreType', now' \in Nat, clears' \in Nat,
             Held' \subseteq Held, \A k \in Held' : Same(cache'[k], cache[k]),
             UNCHANGED <<callVars, wrapperVars, options>>
      PROVE  PInv'
    <2>1. RestType'
        BY <1>0, <1>h DEF RestType, callVars, wrapperVars
    <2>2. TypeOK'
        BY <1>a, <1>h, <2>1
    <2>3. \A e : Faithful(e) => Faithful(e)'
        BY <1>h DEF Faithful, callVars, CacheExceptions
    <2>4. CachedFaithful'
        <3> SUFFICES ASSUME NEW k \in Held', NEW d, d = cache'[k]
                     PROVE  Faithful(d)' /\ Settled(d.payload)'
            BY DEF CachedFaithful
        <3>1. Faithful(cache[k]) /\ Settled(cache[k].payload) /\ Same(d, cache[k])
            BY <1>h DEF PInv, CachedFaithful
        <3>2. QED
            BY <1>h, <3>1, FaithfulKept DEF Settled, Same, callVars
    <2>5. StoringFaithful'
        BY <1>h, <2>3 DEF PInv, StoringFaithful, callVars, EntryType
    <2>6. OutcomesFinal' /\ Provenance'
        BY <1>h DEF PInv, OutcomesFinal, Provenance, Settled, callVars, CacheExceptions
    <2>7. QED
        BY <2>2, <2>4, <2>5, <2>6 DEF PInv
<1>1. ASSUME NEW c \in Calls, NEW k \in Keys, NEW p \in Calls \cup {NoCall}, Start(c, k, p)
      PROVE  PInv'
    <2>1. RestType'
        BY <1>0, <1>1 DEF Start, RestType, wrapperVars
    <2>2. TypeOK'
        BY <1>1, <1>a, <1>b, <2>1 DEF Start
    <2>3. \A d \in Calls : d # c => key'[d] = key[d]
        BY <1>0, <1>1 DEF Start, WrapperType
    <2>4. QED
        BY <1>1, <1>c, <2>2, <2>3, CallKeepsPInv DEF Start, Settled, Steps
<1>2. ASSUME NEW c \in Calls, Lookup(c) \/ Recheck(c) PROVE PInv'
    BY <1>2, <1>d, <1>e DEF Lookup, Recheck, LookupHit, LookupMiss, RecheckHit, RecheckMiss
<1>3. ASSUME NEW c \in Calls, Claim(c) \/ Wake(c) PROVE PInv'
    BY <1>0, <1>3, <1>f DEF Claim, Wake, BecomeProducer, JoinWaiters, RestType
<1>4. ASSUME NEW c \in Calls, GetFails(c) PROVE PInv'
    BY <1>4, <1>g DEF GetFails, Settled, Kinds
<1>5. ASSUME NEW c \in Calls, FinishCached(c) PROVE PInv'
    <2>1. PICK raised \in (IF CacheExceptions THEN BOOLEAN ELSE {FALSE}) : Stamp(c, raised)
        BY <1>5 DEF FinishCached
    <2> DEFINE e == [key |-> key[c], payload |-> c, is_exception |-> raised,
                     expires_at |-> ExpiresAt]
               a == [kind |-> IF raised THEN "exception" ELSE "value", by |-> c]
    <2>2. entry' = [entry EXCEPT ![c] = e] /\ outcome' = [outcome EXCEPT ![c] = a]
          /\ Goto(c, "storing") /\ pc[c] = "running"
          /\ UNCHANGED <<now, storeVars, key, parent, total_waiters, clears, options>>
        BY <2>1 DEF Stamp
    <2>3. e \in EntryType /\ a \in [kind : Kinds, by : Calls]
        BY <1>0, ExpiresAtType DEF WrapperType, RestType, EntryType, Kinds
    <2>4. RestType'
        BY <1>0, <2>2, <2>3 DEF RestType
    <2>5. TypeOK'
        BY <1>a, <1>b, <2>2, <2>4
    <2>6. entry'[c] = e /\ outcome'[c] = a
          /\ \A d \in Calls : d # c => entry'[d] = entry[d] /\ outcome'[d] = outcome[d]
        BY <1>0, <2>2 DEF RestType
    <2>7. ASSUME NEW d, d = e PROVE Faithful(d)'
        <3>1. raised => CacheExceptions'
            BY <2>2 DEF CacheExceptions
        <3>2. QED
            BY <2>2, <2>6, <2>7, <3>1 DEF Faithful
    <2>8. ~Settled(c)
        BY <2>2 DEF Settled
    <2>9. PICK d : d = e
        OBVIOUS
    <2>10. d \in EntryType /\ d.payload = c /\ entry'[c] = d /\ Faithful(d)'
        BY <2>3, <2>6, <2>7, <2>9
    <2> HIDE DEF e, a
    <2>11. QED
        BY <1>c, <2>2, <2>5, <2>6, <2>8, <2>10, CallKeepsPInv DEF Steps
<1>6. ASSUME NEW c \in Calls, FinishUncached(c) PROVE PInv'
    <2>1. PICK kind \in Kinds : outcome' = [outcome EXCEPT ![c] = [kind |-> kind, by |-> c]]
        BY <1>6 DEF FinishUncached, Kinds
    <2>2. QED
        BY <1>6, <1>g, <2>1 DEF FinishUncached, AfterCompute, Settled
<1>7. ASSUME NEW c \in Calls, Store(c) PROVE PInv'
    <2> DEFINE e == entry[c]
    <2>1. e \in EntryType /\ e.payload = c /\ Faithful(e) /\ SetEntry(e)
        BY <1>7 DEF Store, PInv, StoringFaithful
    <2>2. /\ StoreType'
          /\ \A k \in Held' : cache'[k] = e \/ (k \in Held /\ cache'[k] = cache[k])
        BY <1>0, <2>1, SetStore
    <2>3. RestType'
        BY <1>0, <1>7 DEF RestType, Store, wrapperVars
    <2>4. TypeOK'
        BY <1>a, <2>2, <2>3
    <2>5. \A d \in Calls : d # c => entry'[d] = entry[d]
        BY <1>0, <1>7 DEF Store, RestType
    <2>6. outcome[c].by = c
        BY <2>1 DEF Faithful
    <2>7. ASSUME NEW d, d = e PROVE Faithful(d)'
        BY <1>7, <2>1, <2>7 DEF Store, Faithful, CacheExceptions
    <2>8. PICK s \in {"release", "returned"} : Goto(c, s)
        BY <1>7 DEF Store, AfterCompute
    <2>9. PICK d : d = e
        OBVIOUS
    <2> HIDE DEF e
    <2>10. QED
        BY <1>7, <2>1, <2>2, <2>4, <2>5, <2>6, <2>7, <2>8, <2>9, CallKeepsPInv
        DEF Store, Settled, Steps, Same
<1>8. ASSUME NEW c \in Calls, StoreFails(c) PROVE PInv'
    BY <1>8, <1>g DEF StoreFails, AfterCompute, Settled, Kinds
<1>9. ASSUME NEW c \in Calls, Release(c) PROVE PInv'
    <2>1. RestType'
        BY <1>0, <1>9 DEF Release, RestType
    <2>2. TypeOK'
        BY <1>9, <1>a, <1>b, <2>1 DEF Release
    <2>3. outcome[c].by = c
        BY <1>9 DEF Release, PInv, OutcomesFinal
    <2>4. QED
        BY <1>9, <1>c, <2>2, <2>3, CallKeepsPInv DEF Release, Settled, Steps
<1>10. CASE CacheClear
    <2>1. Keep({}) /\ hits' \in Nat /\ misses' \in Nat
        BY <1>10 DEF CacheClear, ClearStore
    <2>2. StoreType' /\ Held' = {}
        BY <1>0, <2>1, KeepStore
    <2>3. QED
        BY <1>0, <1>10, <1>h, <2>2 DEF CacheClear, RestType
<1>11. CASE CacheInfo
    <2> DEFINE live == {k \in Held : ~IsExpired(cache[k])}
    <2>1. Keep(live) /\ hits' \in Nat /\ misses' \in Nat
        BY <1>0, <1>11 DEF CacheInfo, Prune, StoreType
    <2>2. StoreType' /\ Held' = live /\ \A k \in live : cache'[k] = cache[k]
        BY <1>0, <2>1, KeepStore
    <2>3. QED
        BY <1>0, <1>11, <1>h, <2>2 DEF CacheInfo, RestType, Same
<1>12. CASE Tick \/ UNCHANGED vars
    BY <1>0, <1>12, <1>b, <1>c, <1>h DEF Tick, Advance, vars, RestType
<1>13. QED
    BY <1>1, <1>2, <1>3, <1>4, <1>5, <1>6, <1>7, <1>8, <1>9, <1>10, <1>11, <1>12
    DEF Next, Finish, EndStore

LEMMA SpecPInv == Spec => []PInv
BY SpecInv, InitPInv, NextPInv, PTL DEF Spec

\* The types of the wrapper's state and of the store it uses.
THEOREM CacheTypeCorrect == Spec => []TypeOK
<1>1. PInv => TypeOK
    BY DEF PInv
<1>2. QED
    BY SpecPInv, <1>1, PTL

\* Every outcome comes from one execution of the function for the same key, and
\* only results that are to be cached reach another call, for every number of
\* calls, threads, nested calls, evictions, clears and failures of the backend.
THEOREM CacheProvenance == Spec => []Provenance
<1>1. PInv => Provenance
    BY DEF PInv
<1>2. QED
    BY SpecPInv, <1>1, PTL

-----------------------------------------------------------------------------
(* Waiters and the entry they wait for *)

Cacheable == {"value"} \cup (IF CacheExceptions THEN {"exception"} ELSE {})

\* While nothing is forgotten, a result that was to be cached, and was, is there.
ResultsStay == ~Forgetful =>
    /\ \A k \in Held : cache[k].expires_at = None
    /\ \A c \in Calls : pc[c] = "storing" => entry[c].expires_at = None
    /\ \A c \in Calls : Settled(c) /\ outcome[c].kind \in Cacheable => key[c] \in Held

\* The Event a call waits for is that of a producer for its own key; when it is
\* set the producer has dealt with its entry.
EventsSettled ==
    /\ \A c \in Calls : pc[c] \in {"waiting", "woken"} =>
         event[c] \in Calls /\ pc[event[c]] # "new" /\ key[event[c]] = key[c]
    /\ \A c \in Calls : pc[c] = "woken" => event[c] \in eventSet
    /\ \A p \in eventSet : pc[p] = "returned"

WInv == ResultsStay /\ EventsSettled

LEMMA CallKeepsWInv ==
    ASSUME WInv, WrapperType, WrapperType', options' = options, NEW c \in Calls,
           ~Settled(c) \/ pc[c] = "release",
           NEW s \in Steps \ {"new"}, Goto(c, s), pc[c] = "release" => s = "returned",
           pc[c] = "new" \/ key'[c] = key[c],
           \A d \in Calls : d # c => /\ key'[d] = key[d] /\ outcome'[d] = outcome[d]
                                     /\ entry'[d] = entry[d] /\ event'[d] = event[d],
           ~Forgetful =>
                /\ Held \subseteq Held'
                /\ \A k \in Held' : cache'[k].expires_at = None
                /\ s = "storing" => entry'[c].expires_at = None
                /\ s \in {"release", "returned"} /\ outcome'[c].kind \in Cacheable =>
                        key'[c] \in Held',
           s = "waiting" =>
                event'[c] \in Calls /\ pc[event'[c]] # "new" /\ key[event'[c]] = key[c]
                /\ pc[c] = "claim",
           s = "woken" => pc[c] = "waiting" /\ event[c] \in eventSet /\ event'[c] = event[c],
           eventSet' = eventSet \/ (eventSet' = eventSet \cup {c} /\ s = "returned")
    PROVE  WInv'
<1>1. /\ pc'[c] = s /\ \A d \in Calls : d # c => pc'[d] = pc[d]
      /\ key \in [Calls -> Keys] /\ eventSet \subseteq Calls /\ pc[c] # "returned"
    BY DEF Goto, WrapperType, Settled
<1>2. \A p \in Calls : pc[p] # "new" => pc'[p] # "new" /\ key'[p] = key[p]
    BY <1>1
<1>3. EventsSettled'
    <2>1. \A d \in Calls : pc'[d] \in {"waiting", "woken"} =>
                event'[d] \in Calls /\ pc'[event'[d]] # "new" /\ key'[event'[d]] = key'[d]
        <3> TAKE d \in Calls
        <3>1. CASE d # c
            BY <1>1, <1>2, <3>1 DEF WInv, EventsSettled
        <3>2. CASE d = c
            BY <1>1, <1>2, <3>2 DEF WInv, EventsSettled
        <3>3. QED
            BY <3>1, <3>2
    <2>2. \A d \in Calls : pc'[d] = "woken" => event'[d] \in eventSet'
        BY <1>1 DEF WInv, EventsSettled
    <2>3. \A p \in eventSet' : pc'[p] = "returned"
        BY <1>1 DEF WInv, EventsSettled
    <2>4. QED
        BY <2>1, <2>2, <2>3 DEF EventsSettled
<1>4. ResultsStay'
    <2> SUFFICES ASSUME ~Forgetful
                 PROVE  /\ \A k \in Held' : cache'[k].expires_at = None
                        /\ \A d \in Calls : pc'[d] = "storing" => entry'[d].expires_at = None
                        /\ \A d \in Calls : Settled(d)' /\ outcome'[d].kind \in Cacheable =>
                                key'[d] \in Held'
        BY DEF ResultsStay, Forgetful, Cacheable, CacheExceptions
    <2>1. \A d \in Calls : pc'[d] = "storing" => entry'[d].expires_at = None
        BY <1>1 DEF WInv, ResultsStay
    <2>2. \A d \in Calls : Settled(d)' /\ outcome'[d].kind \in Cacheable => key'[d] \in Held'
        <3> TAKE d \in Calls
        <3>1. CASE d # c
            BY <1>1, <3>1 DEF WInv, ResultsStay, Settled
        <3>2. CASE d = c
            BY <1>1, <3>2 DEF Settled
        <3>3. QED
            BY <3>1, <3>2
    <2>3. QED
        BY <2>1, <2>2
<1>5. QED
    BY <1>3, <1>4 DEF WInv

LEMMA InitWInv == Init => WInv
BY DEF Init, StoreInit, Held, WInv, ResultsStay, EventsSettled, Settled

\* Without ttl, maxsize and clears every lookup that finds nothing found no entry.
LEMMA NothingForgotten ==
    ASSUME ~Forgetful, clears \in Nat
    PROVE  TTL = None /\ MaxSize = None /\ ExpiresAt = None /\ ~CacheClear
BY CacheResultAssumption DEF Forgetful, ExpiresAt, CacheClear

LEMMA NextWInv == IInv /\ IInv' /\ PInv /\ WInv /\ [Next]_vars => WInv'
<1> SUFFICES ASSUME IInv, IInv', PInv, WInv, [Next]_vars PROVE WInv'
    OBVIOUS
<1>0. WrapperType /\ WrapperType' /\ StoreType /\ RestType
    BY TypeParts DEF PInv, IInv
<1>a. ~Forgetful => /\ TTL = None /\ MaxSize = None /\ ExpiresAt = None /\ ~CacheClear
                    /\ \A k \in Held : cache[k].expires_at = None /\ ~IsExpired(cache[k])
    BY <1>0, NothingForgotten DEF RestType, WInv, ResultsStay, IsExpired
<1>b. UNCHANGED storeVars =>
        Held' = Held /\ (~Forgetful => \A k \in Held' : cache'[k].expires_at = None)
    BY <1>a DEF storeVars, Held
<1>c. ASSUME NEW c \in Calls, pc[c] \in {"lookup", "woken"},
             GetHit(key[c]), ReturnEntry(c, cache[key[c]]),
             UNCHANGED <<now, key, parent, entry, wrapperVars, clears, options>>
      PROVE  WInv'
    <2>1. Held' = Held /\ key[c] \in Held
          /\ \A j \in Held : cache'[j].expires_at \in {cache[j].expires_at, ExpiresAt}
        BY <1>0, <1>c, HitStore DEF RestType
    <2>2. \A d \in Calls : d # c => outcome'[d] = outcome[d]
        BY <1>0, <1>c DEF ReturnEntry, RestType
    <2>3. ~Forgetful => \A k \in Held' : cache'[k].expires_at = None
        BY <1>a, <2>1
    <2>4. QED
        BY <1>0, <1>c, <2>1, <2>2, <2>3, CallKeepsWInv
        DEF ReturnEntry, Settled, Steps, wrapperVars
<1>d. ASSUME NEW c \in Calls, pc[c] \in {"lookup", "woken"}, GetMiss(key[c]),
             NEW s \in {"claim", "running"}, Goto(c, s),
             UNCHANGED <<now, key, parent, entry, outcome, wrapperVars, clears, options>>
      PROVE  WInv'
    <2>1. Held' = Held \ {key[c]} /\ \A k \in Held' : cache'[k] = cache[k]
        BY <1>0, <1>d, MissStore
    <2>2. ~Forgetful => Held' = Held /\ \A k \in Held' : cache'[k].expires_at = None
        BY <1>a, <1>d, <2>1 DEF GetMiss, Live
    <2>3. QED
        BY <1>0, <1>d, <2>2, CallKeepsWInv DEF Settled, Steps, wrapperVars
<1>e. ASSUME NEW c \in Calls, NEW s \in {"release", "returned"}, Goto(c, s), ~Settled(c),
             pc[c] # "new",
             NEW kind, kind \notin Cacheable,
             outcome' = [outcome EXCEPT ![c] = [kind |-> kind, by |-> c]],
             entry' = [entry EXCEPT ![c] = NoCall] \/ UNCHANGED entry,
             UNCHANGED <<now, storeVars, key, parent, wrapperVars, clears, options>>
      PROVE  WInv'
    <2>1. outcome'[c].kind = kind /\ \A d \in Calls : d # c => outcome'[d] = outcome[d]
        BY <1>0, <1>e DEF RestType
    <2>2. \A d \in Calls : d # c => entry'[d] = entry[d]
        BY <1>0, <1>e DEF RestType
    <2>3. QED
        BY <1>0, <1>b, <1>e, <2>1, <2>2, CallKeepsWInv DEF Steps, wrapperVars, Settled
<1>1. ASSUME NEW c \in Calls, NEW k \in Keys, NEW p \in Calls \cup {NoCall}, Start(c, k, p)
      PROVE  WInv'
    <2>1. \A d \in Calls : d # c => key'[d] = key[d]
        BY <1>0, <1>1 DEF Start, WrapperType
    <2>2. QED
        BY <1>0, <1>1, <1>b, <2>1, CallKeepsWInv DEF Start, Settled, Steps, wrapperVars
<1>2. ASSUME NEW c \in Calls, Lookup(c) \/ Recheck(c) PROVE WInv'
    BY <1>2, <1>c, <1>d DEF Lookup, Recheck, LookupHit, LookupMiss, RecheckHit, RecheckMiss
<1>3. ASSUME NEW c \in Calls, BecomeProducer(c) \/ Wake(c) PROVE WInv'
    BY <1>0, <1>3, <1>b, CallKeepsWInv DEF BecomeProducer, Wake, Settled, Steps
<1>4. ASSUME NEW c \in Calls, JoinWaiters(c) PROVE WInv'
    <2> DEFINE p == in_flight[key[c]]
    <2>1. p \in Calls /\ key[p] = key[c] /\ pc[p] # "new"
        BY <1>0, <1>4 DEF JoinWaiters, IInv, MarkersExact, Producing, WrapperType
    <2>2. event'[c] = p /\ \A d \in Calls : d # c => event'[d] = event[d]
        BY <1>0, <1>4 DEF JoinWaiters, WrapperType
    <2>3. QED
        BY <1>0, <1>4, <1>b, <2>1, <2>2, CallKeepsWInv DEF JoinWaiters, Settled, Steps
<1>f. "backend_error" \notin Cacheable
    BY DEF Cacheable
<1>5. ASSUME NEW c \in Calls, GetFails(c) PROVE WInv'
    BY <1>5, <1>e, <1>f DEF GetFails, Settled
<1>6. ASSUME NEW c \in Calls, FinishCached(c) PROVE WInv'
    <2>1. PICK raised \in BOOLEAN : Stamp(c, raised) /\ UNCHANGED eventSet
        BY <1>6 DEF FinishCached
    <2>2. entry'[c].expires_at = ExpiresAt
          /\ \A d \in Calls : d # c => entry'[d] = entry[d] /\ outcome'[d] = outcome[d]
        BY <1>0, <2>1 DEF Stamp, RestType
    <2>3. QED
        BY <1>0, <1>a, <1>b, <2>1, <2>2, CallKeepsWInv DEF Stamp, Settled, Steps
<1>7. ASSUME NEW c \in Calls, FinishUncached(c) PROVE WInv'
    <2>1. PICK kind \in {"base_exception"} \cup (IF CacheExceptions THEN {} ELSE {"exception"}) :
            outcome' = [outcome EXCEPT ![c] = [kind |-> kind, by |-> c]]
        BY <1>7 DEF FinishUncached
    <2>2. kind \notin Cacheable
        BY DEF Cacheable
    <2>3. QED
        BY <1>7, <1>e, <2>1, <2>2 DEF FinishUncached, AfterCompute, Settled
<1>8. ASSUME NEW c \in Calls, Store(c) PROVE WInv'
    <2> DEFINE e == entry[c]
    <2>1. e \in EntryType /\ e.key = key[c] /\ SetEntry(e)
        BY <1>8 DEF Store, PInv, StoringFaithful, Faithful
    <2>2. /\ \A k \in Held' : cache'[k] = e \/ (k \in Held /\ cache'[k] = cache[k])
          /\ MaxSize = None => Held' = Held \cup {key[c]}
        BY <1>0, <2>1, SetStore
    <2>3. ~Forgetful => e.expires_at = None
        BY <1>8 DEF Store, WInv, ResultsStay
    <2>4. \A d \in Calls : d # c => entry'[d] = entry[d]
        BY <1>0, <1>8 DEF Store, RestType
    <2>5. PICK s \in {"release", "returned"} : Goto(c, s)
        BY <1>8 DEF Store, AfterCompute
    <2> HIDE DEF e
    <2>6. ~Forgetful => /\ Held \subseteq Held' /\ key[c] \in Held'
                        /\ \A k \in Held' : cache'[k].expires_at = None
        BY <1>a, <2>2, <2>3
    <2>7. QED
        BY <1>0, <1>8, <2>4, <2>5, <2>6, CallKeepsWInv DEF Store, Settled, Steps, wrapperVars
<1>9. ASSUME NEW c \in Calls, StoreFails(c) PROVE WInv'
    <2>1. PICK s \in {"release", "returned"} : Goto(c, s)
        BY <1>9 DEF StoreFails, AfterCompute
    <2>2. QED
        BY <1>9, <1>e, <1>f, <2>1 DEF StoreFails, Settled
<1>10. ASSUME NEW c \in Calls, Release(c) PROVE WInv'
    <2>1. ~Forgetful /\ outcome[c].kind \in Cacheable => key[c] \in Held
        BY <1>10 DEF Release, WInv, ResultsStay, Settled
    <2>2. QED
        BY <1>0, <1>10, <1>b, <2>1, CallKeepsWInv DEF Release, Settled, Steps
\* Steps of no call forget nothing either.
<1>h. ASSUME UNCHANGED <<callVars, wrapperVars, options>>,
             ~Forgetful => /\ Held \subseteq Held'
                           /\ \A k \in Held' : cache'[k].expires_at = None
      PROVE  WInv'
    BY <1>h DEF WInv, ResultsStay, EventsSettled, Settled, callVars, wrapperVars, Cacheable,
                CacheExceptions, Forgetful
<1>11. CASE CacheClear
    BY <1>11, <1>a, <1>h DEF CacheClear
<1>12. CASE CacheInfo
    <2> DEFINE live == {k \in Held : ~IsExpired(cache[k])}
    <2>1. Keep(live) /\ hits' \in Nat /\ misses' \in Nat
        BY <1>0, <1>12 DEF CacheInfo, Prune, StoreType
    <2>2. Held' = live /\ \A k \in live : cache'[k] = cache[k]
        BY <1>0, <2>1, KeepStore
    <2>3. ~Forgetful => Held \subseteq Held' /\ \A k \in Held' : cache'[k].expires_at = None
        BY <1>a, <2>2
    <2>4. QED
        BY <1>12, <1>h, <2>3 DEF CacheInfo
<1>13. CASE Tick \/ UNCHANGED vars
    BY <1>13, <1>b, <1>h DEF Tick, vars
<1>14. QED
    BY <1>1, <1>2, <1>3, <1>4, <1>5, <1>6, <1>7, <1>8, <1>9, <1>10, <1>11, <1>12, <1>13
    DEF Next, Claim, Finish, EndStore

LEMMA ShareStep ==
    PInv /\ WInv /\ [Next]_vars =>
        \A c \in Calls : ~Forgetful /\ pc[c] = "woken" /\ pc'[c] = "claim" =>
            outcome[event[c]].kind \notin Cacheable
<1> SUFFICES ASSUME PInv, WInv, [Next]_vars, NEW c \in Calls,
                    ~Forgetful, pc[c] = "woken", pc'[c] = "claim"
             PROVE  outcome[event[c]].kind \notin Cacheable
    OBVIOUS
<1>0. WrapperType /\ RestType
    BY TypeParts DEF PInv
<1>1. ASSUME NEW d \in Calls, NEW s, Goto(d, s) PROVE d = c /\ s = "claim"
    BY <1>0, <1>1 DEF Goto, WrapperType
<1>2. RecheckMiss(c)
    <2>1. ASSUME NEW d \in Calls,
                 \/ \E k \in Keys, p \in Calls \cup {NoCall} : Start(d, k, p)
                 \/ BecomeProducer(d) \/ JoinWaiters(d) \/ Wake(d) \/ GetFails(d)
                 \/ LookupHit(d) \/ RecheckHit(d) \/ Release(d) \/ FinishCached(d)
          PROVE  FALSE
        <3>1. PICK s \in Steps \ {"claim"} : Goto(d, s)
            BY <2>1 DEF Start, BecomeProducer, JoinWaiters, Wake, GetFails, LookupHit,
                        RecheckHit, ReturnEntry, Release, FinishCached, Stamp, Steps
        <3>2. QED
            BY <1>1, <3>1
    <2>2. ASSUME NEW d \in Calls,
                 LookupMiss(d) \/ FinishUncached(d) \/ Store(d) \/ StoreFails(d)
          PROVE  FALSE
        <3>1. PICK s \in Steps : Goto(d, s)
            BY <2>2 DEF LookupMiss, FinishUncached, Store, StoreFails, AfterCompute, Steps
        <3>2. d = c /\ pc[d] # "woken"
            BY <1>1, <2>2, <3>1 DEF LookupMiss, FinishUncached, Store, StoreFails
        <3>3. QED
            BY <3>2
    <2>3. ASSUME NEW d \in Calls, RecheckMiss(d) PROVE d = c
        BY <1>1, <2>3 DEF RecheckMiss
    <2>4. ~CacheClear /\ ~CacheInfo /\ ~Tick /\ ~UNCHANGED vars
        BY DEF CacheClear, CacheInfo, Tick, vars, callVars
    <2>5. QED
        BY <2>1, <2>2, <2>3, <2>4 DEF Next, Lookup, Claim, Recheck, Finish, EndStore
<1>3. key[c] \notin Held
    BY <1>0, <1>2, NothingForgotten
    DEF RecheckMiss, GetMiss, Live, IsExpired, WInv, ResultsStay, RestType
<1>4. event[c] \in Calls /\ Settled(event[c]) /\ key[event[c]] = key[c]
    BY DEF WInv, EventsSettled, Settled
<1>5. QED
    BY <1>3, <1>4 DEF WInv, ResultsStay

\* A producer wakes its waiters only once its entry is there: while nothing
\* expires, is evicted or cleared, a waiter that finds nothing waited for a
\* result that was not to be cached, or that the backend failed to store.
THEOREM CacheWaitersShareResult == Spec => WaitersShareResult
<1>1. Spec => [](PInv /\ WInv)
    BY SpecInv, SpecPInv, InitWInv, NextWInv, PTL DEF Spec
<1>2. PInv /\ WInv /\ [Next]_vars =>
        [\A c \in Calls : ~Forgetful /\ pc[c] = "woken" /\ pc'[c] = "claim" =>
            outcome[event[c]].kind \notin
                {"value"} \cup (IF CacheExceptions THEN {"exception"} ELSE {})]_vars
    BY ShareStep DEF Cacheable
<1>3. QED
    BY <1>1, <1>2, PTL DEF Spec, WaitersShareResult
=============================================================================
