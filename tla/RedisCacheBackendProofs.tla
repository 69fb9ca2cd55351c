---------------------- MODULE RedisCacheBackendProofs ----------------------
(***************************************************************************)
(* RedisCacheBackend for any number of clients, keys and contents.         *)
(*                                                                         *)
(* LatestUnlessOverlapped rests on IInv, about the entries and the copies  *)
(* of them that lookups hold: a copy whose key no overlapping store or     *)
(* clear has touched is what was last stored, so writing it back does no   *)
(* harm. SizeBounded rests on SizeInv, about evictions that may fail. For  *)
(* a lone client LoneInv says that what it knows between two commands is   *)
(* still so; the order of eviction and the refinement of CacheContract     *)
(* follow from it.                                                         *)
(***************************************************************************)
EXTENDS RedisCacheBackend, FiniteSetTheorems, TLAPS

KeyedSteps ==
    {"get", "discard", "count_miss", "count_hit", "touch", "write_back", "set", "put"}

Shapes ==
    /\ DOMAIN call = Clients
    /\ DOMAIN latest = Keys
    /\ DOMAIN store \subseteq Keys
    /\ \A c \in Clients : call[c].op \in KeyedSteps => call[c].key \in Keys

\* What a lookup holds and may write back.
CopiesCurrent ==
    \A c \in Clients :
        LookupOf(c) /\ call[c].key \notin overlapped => ContentRead(c) = latest[call[c].key]

IInv == Shapes /\ CopiesCurrent /\ LatestUnlessOverlapped

LEMMA InitInv == Init => IInv
BY DEF Init, IInv, Shapes, CopiesCurrent, LatestUnlessOverlapped, Idle, KeyedSteps, LookupOf

\* Steps that leave the entries or drop some, and give the client no copy that
\* it, or the store, did not hold before.
LEMMA HarmlessStep ==
    ASSUME IInv, NEW c \in Clients, NEW next, Continue(c, next),
           next.op \in KeyedSteps => next.key \in Keys,
           next.op \notin {"count_hit", "touch", "write_back"},
           DOMAIN store' \subseteq DOMAIN store,
           \A k \in DOMAIN store' : store'[k] = store[k],
           UNCHANGED <<latest, overlapped>>
    PROVE  IInv'
<1> USE DEF IInv, Continue
<1>1. Shapes'
    BY DEF Shapes
<1>2. CopiesCurrent'
    BY DEF Shapes, CopiesCurrent, LookupOf, ContentRead
<1>3. LatestUnlessOverlapped'
    BY DEF LatestUnlessOverlapped
<1>4. QED
    BY <1>1, <1>2, <1>3

\* Steps of a lookup that holds its copy, up to the write-back.
LEMMA HoldingStep ==
    ASSUME IInv, NEW c \in Clients, NEW next, Continue(c, next),
           next.op \in {"count_hit", "touch", "write_back"},
           next.key \in Keys,
           next.key \notin overlapped =>
               (IF next.op = "write_back" THEN next.entry.content ELSE next.content)
                   = latest[next.key],
           UNCHANGED <<store, latest, overlapped>>
    PROVE  IInv'
<1> USE DEF IInv, Continue
<1>1. Shapes'
    BY DEF Shapes
<1>2. CopiesCurrent'
    BY DEF Shapes, CopiesCurrent, LookupOf, ContentRead
<1>3. LatestUnlessOverlapped'
    BY DEF LatestUnlessOverlapped
<1>4. QED
    BY <1>1, <1>2, <1>3

LEMMA ReadInv == ASSUME IInv, NEW c \in Clients, Read(c) PROVE IInv'
<1> DEFINE k == call[c].key
<1>0. k \in Keys /\ UNCHANGED <<store, latest, overlapped>>
    BY DEF IInv, Shapes, KeyedSteps, Read, redis, history
<1>1. CASE k \notin DOMAIN store
    <2>1. Continue(c, [op |-> "count_miss", key |-> k])
        BY <1>1 DEF Read
    <2>2. QED
        BY <1>0, <2>1, HarmlessStep
<1>2. CASE k \in DOMAIN store /\ store[k].content = Foreign
    <2>1. Continue(c, [op |-> "discard", key |-> k])
        BY <1>2 DEF Read
    <2>2. QED
        BY <1>0, <2>1, HarmlessStep
<1>3. CASE k \in DOMAIN store /\ store[k].content # Foreign
    <2>1. Continue(c, [op |-> "count_hit", key |-> k, content |-> store[k].content])
        BY <1>3 DEF Read
    <2>2. k \notin overlapped => store[k].content = latest[k]
        BY <1>3 DEF IInv, LatestUnlessOverlapped
    <2>3. QED
        BY <1>0, <2>1, <2>2, HoldingStep
<1>4. QED
    BY <1>1, <1>2, <1>3

LEMMA WriteBackInv == ASSUME IInv, NEW c \in Clients, WriteBack(c) PROVE IInv'
<1> DEFINE k == call[c].key
           next == [op |-> "hit", content |-> call[c].entry.content]
<1>1. /\ k \in Keys
      /\ Continue(c, next)
      /\ Put(k, call[c].entry)
      /\ UNCHANGED <<latest, overlapped>>
    BY DEF IInv, Shapes, KeyedSteps, WriteBack
<1>2. k \notin overlapped => call[c].entry.content = latest[k]
    BY DEF IInv, CopiesCurrent, LookupOf, ContentRead, WriteBack
<1>3. Shapes'
    BY <1>1 DEF IInv, Shapes, Continue, Put, KeyedSteps
<1>4. CopiesCurrent'
    BY <1>1 DEF IInv, Shapes, CopiesCurrent, LookupOf, ContentRead, Continue
<1>5. LatestUnlessOverlapped'
    BY <1>1, <1>2 DEF IInv, LatestUnlessOverlapped, Put
<1>6. QED
    BY <1>3, <1>4, <1>5 DEF IInv

\* A store or a clear either finds no copy of the keys it supersedes, or marks
\* them.
LEMMA SupersedeInv ==
    ASSUME IInv, NEW c \in Clients, NEW next, Continue(c, next),
           ~LookupOf(c),
           next.op \notin KeyedSteps,
           NEW keys \in SUBSET Keys, NEW content, Supersede(keys, content),
           DOMAIN store' \subseteq Keys,
           \A k \in DOMAIN store' :
               IF k \in keys THEN store'[k].content = content
               ELSE k \in DOMAIN store /\ store'[k] = store[k]
    PROVE  IInv'
<1> USE DEF IInv
<1>1. Shapes'
    BY DEF Shapes, Continue, Supersede
<1>2. CopiesCurrent'
    <2> SUFFICES ASSUME NEW d \in Clients, LookupOf(d)', call'[d].key \notin overlapped'
                 PROVE  ContentRead(d)' = latest'[call'[d].key]
        BY DEF CopiesCurrent
    <2>1. d # c /\ call'[d] = call[d]
        BY DEF Shapes, Continue, LookupOf, KeyedSteps
    <2>2. LookupOf(d) /\ call[d].key \in Keys /\ ContentRead(d)' = ContentRead(d)
        BY <2>1 DEF Shapes, LookupOf, KeyedSteps, ContentRead
    <2>3. call[d].key \notin keys /\ call[d].key \notin overlapped
        BY <2>1, <2>2 DEF Supersede, BeingRead, LookupOf
    <2>4. latest'[call[d].key] = latest[call[d].key]
        BY <2>2, <2>3 DEF Supersede
    <2>5. QED
        BY <2>1, <2>2, <2>3, <2>4 DEF CopiesCurrent
<1>3. LatestUnlessOverlapped'
    BY DEF LatestUnlessOverlapped, Supersede
<1>4. QED
    BY <1>1, <1>2, <1>3

LEMMA WriteInv == ASSUME IInv, NEW c \in Clients, Write(c) PROVE IInv'
<1> DEFINE k == call[c].key
           next == IF MaxSize = None THEN [op |-> "done"] ELSE [op |-> "scan", key |-> k]
<1>1. Continue(c, next) /\ ~LookupOf(c) /\ next.op \notin KeyedSteps
    BY DEF Write, LookupOf, KeyedSteps
<1>2. k \in Keys /\ Supersede({k}, call[c].entry.content) /\ Put(k, call[c].entry)
    BY DEF IInv, Shapes, KeyedSteps, Write
<1>3. DOMAIN store' \subseteq Keys
    BY <1>2 DEF IInv, Shapes, Put
<1>4. \A j \in DOMAIN store' :
          IF j \in {k} THEN store'[j].content = call[c].entry.content
          ELSE j \in DOMAIN store /\ store'[j] = store[j]
    BY <1>2 DEF Put
<1>5. QED
    BY <1>1, <1>2, <1>3, <1>4, SupersedeInv

\* Only DOMAIN store is ever scanned, so the keys to be wiped are keys.
LEMMA WipeInv == ASSUME IInv, NEW c \in Clients, Wipe(c) PROVE IInv'
<1> DEFINE keys == call[c].keys \cap Keys
<1>1. Continue(c, [op |-> "done"]) /\ ~LookupOf(c)
    BY DEF Wipe, LookupOf
<1>2. Supersede(keys, None)
    BY DEF Wipe, Supersede
<1>3. DOMAIN store' = DOMAIN store \ call[c].keys /\ \A k \in DOMAIN store' : store'[k] = store[k]
    BY DEF Wipe, Drop
<1>4. DOMAIN store' \subseteq Keys
    BY <1>3 DEF IInv, Shapes
<1>5. \A k \in DOMAIN store' :
          IF k \in keys THEN store'[k].content = None
          ELSE k \in DOMAIN store /\ store'[k] = store[k]
    BY <1>3
<1>6. QED
    BY <1>1, <1>2, <1>4, <1>5, SupersedeInv DEF KeyedSteps

\* Steps of no client.
LEMMA EnvironmentInv ==
    ASSUME IInv, NEW k \in Keys, Expire(k) \/ ForeignWrite(k) PROVE IInv'
<1>1. UNCHANGED <<call, latest, overlapped>>
    BY DEF Expire, ForeignWrite
<1>2. /\ DOMAIN store' \subseteq Keys
      /\ \A j \in DOMAIN store' :
           \/ j \in DOMAIN store /\ store'[j] = store[j]
           \/ store'[j].content = Foreign
    BY DEF IInv, Shapes, Expire, ForeignWrite, Drop, Put
<1>3. QED
    BY <1>1, <1>2
    DEF IInv, Shapes, CopiesCurrent, LookupOf, ContentRead, LatestUnlessOverlapped

LEMMA ClientStep ==
    ASSUME IInv, NEW c \in Clients,
           Invoke(c) \/ Get(c) \/ Set(c) \/ Clear(c) \/ Info(c) \/ Return(c) \/ Fail(c)
    PROVE  IInv'
<1> USE DEF KeyedSteps
<1>1. CASE Invoke(c)
    <2>1. PICK r \in Requests : Continue(c, r)
        BY <1>1 DEF Invoke
    <2>2. /\ r.op \in KeyedSteps => r.key \in Keys
          /\ r.op \notin {"count_hit", "touch", "write_back"}
        BY DEF Requests
    <2>3. QED
        BY <1>1, <2>1, <2>2, HarmlessStep DEF Invoke, redis, history
<1>2. CASE Read(c) \/ WriteBack(c) \/ Write(c) \/ Wipe(c)
    BY <1>2, ReadInv, WriteBackInv, WriteInv, WipeInv
<1>3. CASE Discard(c)
    <2>1. Continue(c, [op |-> "count_miss", key |-> call[c].key]) /\ call[c].key \in Keys
        BY <1>3 DEF Discard, IInv, Shapes
    <2>2. QED
        BY <1>3, <2>1, HarmlessStep DEF Discard, Drop
<1>4. CASE CountMiss(c)
    BY <1>4, HarmlessStep DEF CountMiss, history
<1>5. CASE CountHit(c)
    <2>1. /\ Continue(c, [op |-> "touch", key |-> call[c].key, content |-> call[c].content])
          /\ call[c].key \in Keys
          /\ UNCHANGED <<store, latest, overlapped>>
        BY <1>5 DEF CountHit, IInv, Shapes, history
    <2>2. call[c].key \notin overlapped => call[c].content = latest[call[c].key]
        BY <1>5 DEF CountHit, IInv, CopiesCurrent, LookupOf, ContentRead
    <2>3. QED
        BY <2>1, <2>2, HoldingStep
<1>6. CASE Touch(c)
    <2> DEFINE entry == [content |-> call[c].content, last_accessed |-> counter + 1]
               next == [op |-> "write_back", key |-> call[c].key, entry |-> entry]
    <2>1. /\ Continue(c, next)
          /\ call[c].key \in Keys
          /\ UNCHANGED <<store, latest, overlapped>>
        BY <1>6 DEF Touch, Stamp, IInv, Shapes, history
    <2>2. call[c].key \notin overlapped => next.entry.content = latest[call[c].key]
        BY <1>6 DEF Touch, IInv, CopiesCurrent, LookupOf, ContentRead
    <2>3. QED
        BY <2>1, <2>2, HoldingStep
<1>7. CASE Encode(c)
    <2> DEFINE entry == [content |-> call[c].content, last_accessed |-> counter + 1]
    <2>1. /\ Continue(c, [op |-> "put", key |-> call[c].key, entry |-> entry])
          /\ call[c].key \in Keys
          /\ UNCHANGED <<store, latest, overlapped>>
        BY <1>7 DEF Encode, Stamp, IInv, Shapes, history
    <2>2. QED
        BY <2>1, HarmlessStep
<1>8. CASE Scan(c)
    <2>1. PICK next : Continue(c, next) /\ next.op \in {"done", "age"}
        BY <1>8 DEF Scan
    <2>2. QED
        BY <1>8, <2>1, HarmlessStep DEF Scan, redis
<1>9. CASE Age(c)
    <2>1. PICK next : Continue(c, next) /\ next.op = "age"
        BY <1>9 DEF Age
    <2>2. QED
        BY <1>9, <2>1, HarmlessStep DEF Age, redis, history
<1>10. CASE Evict(c)
    <2>1. PICK keys : Drop(keys)
        BY <1>10 DEF Evict
    <2>2. QED
        BY <1>10, <2>1, HarmlessStep DEF Evict, Drop
<1>11. CASE ScanAll(c) \/ ReadHits(c) \/ ReadMisses(c) \/ CountEntries(c)
    <2>1. PICK next : /\ Continue(c, next)
                      /\ next.op \in {"wipe", "read_misses", "count_entries", "report"}
        BY <1>11 DEF ScanAll, ReadHits, ReadMisses, CountEntries
    <2>2. QED
        BY <1>11, <2>1, HarmlessStep
        DEF ScanAll, ReadHits, ReadMisses, CountEntries, redis, history
<1>12. CASE Return(c) \/ Fail(c)
    <2>1. Continue(c, Idle) /\ UNCHANGED <<store, latest, overlapped>>
        BY <1>12 DEF Return, Fail, redis, history
    <2>2. QED
        BY <2>1, HarmlessStep DEF Idle
<1>13. QED
    BY <1>1, <1>2, <1>3, <1>4, <1>5, <1>6, <1>7, <1>8, <1>9, <1>10, <1>11, <1>12
    DEF Get, Set, Clear, Info

LEMMA NextInv == IInv /\ [Next]_vars => IInv'
<1> SUFFICES ASSUME IInv, [Next]_vars PROVE IInv'
    OBVIOUS
<1>1. CASE UNCHANGED vars
    BY <1>1 DEF vars, redis, history, IInv, Shapes, CopiesCurrent, LookupOf, ContentRead,
                LatestUnlessOverlapped
<1>2. QED
    BY <1>1, ClientStep, EnvironmentInv DEF Next

\* set_value and clear are undone by no failure, expiry, eviction or overlapping
\* store of any number of clients, and by a lookup only if they overlapped it.
THEOREM RedisLatestUnlessOverlapped == Spec => []LatestUnlessOverlapped
<1>1. IInv => LatestUnlessOverlapped
    BY DEF IInv
<1>2. QED
    BY <1>1, InitInv, NextInv, PTL DEF Spec

-----------------------------------------------------------------------------
(* The size of the store *)

\* Clients that evict, and what one of them has still to read or has read.
Aging == {c \in Clients : call[c].op = "age"}
Covered(c) == call[c].unread \cup {a.key : a \in call[c].aged}

\* The entries there would be to account for if the evictions of `failing`, and
\* all that have not scanned yet, came to nothing.
Unclaimed(failing) ==
    (DOMAIN store \ unaccounted)
        \ {call[c].key : c \in {d \in Clients : call[d].op = "scan" \/ d \in failing}}

EvictionShapes ==
    /\ MaxSize \in Nat
    /\ IsFiniteSet(DOMAIN store)
    /\ \A c \in Aging :
         /\ call[c].surplus \in Nat
         /\ IsFiniteSet(call[c].unread) /\ IsFiniteSet(call[c].aged)
         /\ Cardinality(call[c].unread) + Cardinality(call[c].aged) <= MaxSize + call[c].surplus

\* Whoever fails, these are few enough, or the eviction of a client that does not
\* fail has seen them all.
EvictionsSuffice ==
    \A failing \in SUBSET Aging :
        \/ Cardinality(Unclaimed(failing)) <= MaxSize
        \/ \E c \in Aging \ failing : Unclaimed(failing) \subseteq Covered(c)

SizeInv == MaxSize # None => EvictionShapes /\ EvictionsSuffice

LEMMA InitSizeInv == Init => SizeInv
<1>1. SUFFICES ASSUME Init, MaxSize # None PROVE EvictionShapes /\ EvictionsSuffice
    BY DEF SizeInv
<1>2. MaxSize \in Nat /\ DOMAIN store = {} /\ Aging = {}
    BY <1>1, RedisAssumption DEF ValidConfig, Init, Aging, Idle
<1>3. Cardinality({}) = 0 /\ IsFiniteSet({})
    BY FS_EmptySet
<1>4. \A failing : Unclaimed(failing) = {}
    BY <1>2 DEF Unclaimed
<1>5. \A failing : Cardinality(Unclaimed(failing)) <= MaxSize
    <2>1. \A failing : Cardinality(Unclaimed(failing)) = 0
        BY <1>3, <1>4
    <2>2. QED
        BY <1>2, <2>1
<1>6. EvictionShapes
    BY <1>2, <1>3 DEF EvictionShapes
<1>7. QED
    BY <1>5, <1>6 DEF EvictionsSuffice

\* A step keeps EvictionsSuffice if what is unclaimed after it was so before, whoever
\* fails, and the evictions that had seen it still have.
LEMMA SufficeStep ==
    ASSUME EvictionShapes, EvictionsSuffice,
           NEW before, \A failing \in SUBSET Aging' : before[failing] \in SUBSET Aging,
           \A failing \in SUBSET Aging' :
               /\ Unclaimed(failing)' \subseteq Unclaimed(before[failing])
               /\ \A c \in Aging \ before[failing] :
                    \/ c \in Aging' \ failing
                       /\ Unclaimed(failing)' \cap Covered(c) \subseteq Covered(c)'
                    \/ Unclaimed(before[failing]) \subseteq Covered(c) =>
                         Cardinality(Unclaimed(failing)') <= MaxSize
    PROVE  EvictionsSuffice'
<1> SUFFICES ASSUME NEW failing \in SUBSET Aging'
             PROVE  \/ Cardinality(Unclaimed(failing)') <= MaxSize
                    \/ \E c \in Aging' \ failing : Unclaimed(failing)' \subseteq Covered(c)'
    BY DEF EvictionsSuffice
<1>1. CASE Cardinality(Unclaimed(before[failing])) <= MaxSize
    <2>1. IsFiniteSet(Unclaimed(before[failing]))
        BY FS_Subset DEF EvictionShapes, Unclaimed
    <2>2. /\ Cardinality(Unclaimed(failing)') <= Cardinality(Unclaimed(before[failing]))
          /\ IsFiniteSet(Unclaimed(failing)')
        BY <2>1, FS_Subset
    <2>3. QED
        BY <1>1, <2>1, <2>2, FS_CardinalityType DEF EvictionShapes
<1>2. CASE \E c \in Aging \ before[failing] : Unclaimed(before[failing]) \subseteq Covered(c)
    <2>1. PICK c \in Aging \ before[failing] : Unclaimed(before[failing]) \subseteq Covered(c)
        BY <1>2
    <2>2. QED
        BY <2>1
<1>3. QED
    BY <1>1, <1>2 DEF EvictionsSuffice

\* Steps of clients that neither scan nor evict, and of the environment: they drop
\* entries, or add only such as are unaccounted for or have a scan ahead.
LEMMA QuietSize ==
    ASSUME Shapes, SizeInv, MaxSize # None,
           NEW c \in Clients, NEW next, Continue(c, next),
           call[c].op \notin {"scan", "age"}, next.op # "age",
           IsFiniteSet(DOMAIN store'),
           (DOMAIN store' \ unaccounted') \subseteq
               (DOMAIN store \ unaccounted) \cup (IF next.op = "scan" THEN {next.key} ELSE {})
    PROVE  SizeInv'
<1> USE DEF SizeInv, Shapes, Continue
<1>1. \A d \in Clients : IF d = c THEN call'[d] = next ELSE call'[d] = call[d]
    OBVIOUS
<1>2. Aging' = Aging
    BY <1>1 DEF Aging
<1>3. \A d \in Aging : call'[d] = call[d] /\ Covered(d)' = Covered(d)
    BY <1>1 DEF Aging, Covered
<1>4. \A failing \in SUBSET Aging : Unclaimed(failing)' \subseteq Unclaimed(failing)
    BY <1>1 DEF Unclaimed, Aging
<1>5. EvictionShapes'
    BY <1>2, <1>3 DEF EvictionShapes
<1>6. EvictionsSuffice'
    <2> DEFINE before == [failing \in SUBSET Aging |-> failing]
    <2>1. \A failing \in SUBSET Aging' : before[failing] = failing /\ failing \in SUBSET Aging
        BY <1>2
    <2> HIDE DEF before
    <2>2. QED
        BY <1>2, <1>3, <1>4, <2>1, SufficeStep
<1>7. QED
    BY <1>5, <1>6

\* The environment: entries expire, or another program writes one.
LEMMA EnvironmentSize ==
    ASSUME SizeInv, MaxSize # None, NEW k \in Keys, Expire(k) \/ ForeignWrite(k)
    PROVE  SizeInv'
<1> USE DEF SizeInv
<1>1. /\ UNCHANGED call
      /\ DOMAIN store' \subseteq DOMAIN store \cup {k}
      /\ DOMAIN store' \ unaccounted' \subseteq DOMAIN store \ unaccounted
    BY DEF Expire, ForeignWrite, Drop, Put
<1>2. IsFiniteSet(DOMAIN store')
    <2>1. IsFiniteSet(DOMAIN store \cup {k})
        BY FS_AddElement DEF EvictionShapes
    <2>2. QED
        BY <1>1, <2>1, FS_Subset
<1>3. Aging' = Aging /\ \A d \in Aging : Covered(d)' = Covered(d)
    BY <1>1 DEF Aging, Covered
<1>4. \A failing \in SUBSET Aging : Unclaimed(failing)' \subseteq Unclaimed(failing)
    BY <1>1 DEF Unclaimed
<1>5. EvictionShapes'
    BY <1>1, <1>2, <1>3 DEF EvictionShapes
<1>6. EvictionsSuffice'
    <2> DEFINE before == [failing \in SUBSET Aging |-> failing]
    <2>1. \A failing \in SUBSET Aging' : before[failing] = failing /\ failing \in SUBSET Aging
        BY <1>3
    <2> HIDE DEF before
    <2>2. QED
        BY <1>3, <1>4, <2>1, SufficeStep
<1>7. QED
    BY <1>5, <1>6

\* A write-back adds an entry that is unaccounted for; a store adds one that the
\* scan it has ahead answers for.
LEMMA PutSize ==
    ASSUME Shapes, SizeInv, MaxSize # None, NEW c \in Clients, WriteBack(c) \/ Write(c)
    PROVE  SizeInv'
<1> DEFINE k == call[c].key
<1>1. DOMAIN store' = DOMAIN store \cup {k}
    BY DEF WriteBack, Write, Put
<1>2. IsFiniteSet(DOMAIN store')
    BY <1>1, FS_AddElement DEF SizeInv, EvictionShapes
<1>3. CASE WriteBack(c)
    <2>1. /\ Continue(c, [op |-> "hit", content |-> call[c].entry.content])
          /\ call[c].op = "write_back"
          /\ DOMAIN store' \ unaccounted' \subseteq DOMAIN store \ unaccounted
        BY <1>1, <1>3 DEF WriteBack
    <2>2. QED
        BY <1>2, <2>1, QuietSize
<1>4. CASE Write(c)
    <2>1. /\ Continue(c, [op |-> "scan", key |-> k])
          /\ call[c].op = "put"
          /\ DOMAIN store' \ unaccounted' \subseteq (DOMAIN store \ unaccounted) \cup {k}
        BY <1>1, <1>4 DEF Write
    <2> HIDE DEF k
    <2>2. QED
        BY <1>2, <2>1, QuietSize
<1>5. QED
    BY <1>3, <1>4

\* Commands that delete entries.
LEMMA DropSize ==
    ASSUME Shapes, SizeInv, MaxSize # None, NEW c \in Clients, Discard(c) \/ Wipe(c)
    PROVE  SizeInv'
<1>1. PICK next, keys :
        /\ Continue(c, next) /\ next.op \in {"count_miss", "done"}
        /\ Drop(keys)
        /\ call[c].op \in {"discard", "wipe"}
    BY DEF Discard, Wipe
<1>2. /\ DOMAIN store' \subseteq DOMAIN store
      /\ DOMAIN store' \ unaccounted' \subseteq DOMAIN store \ unaccounted
    BY <1>1 DEF Drop
<1>3. IsFiniteSet(DOMAIN store')
    BY <1>2, FS_Subset DEF SizeInv, EvictionShapes
<1>4. QED
    BY <1>1, <1>2, <1>3, QuietSize

\* Steps that leave the entries alone.
LEMMA IdleSize ==
    ASSUME Shapes, SizeInv, MaxSize # None, NEW c \in Clients,
           \/ Invoke(c) \/ Read(c) \/ CountMiss(c) \/ CountHit(c) \/ Touch(c) \/ Encode(c)
           \/ Clear(c) /\ call[c].op = "clear"
           \/ Info(c) \/ Return(c)
           \/ Fail(c) /\ call[c].op \notin {"scan", "age"}
    PROVE  SizeInv'
<1>1. PICK next : /\ Continue(c, next) /\ next.op \notin {"scan", "age"}
                  /\ call[c].op \notin {"scan", "age"}
                  /\ UNCHANGED <<store, unaccounted>>
    BY DEF Invoke, Requests, Read, CountMiss, CountHit, Touch, Encode, Stamp, Clear, ScanAll, Wipe,
           Info, ReadHits, ReadMisses, CountEntries, Return, Answered, Fail, Idle, redis, history
<1>2. IsFiniteSet(DOMAIN store')
    BY <1>1 DEF SizeInv, EvictionShapes
<1>3. QED
    BY <1>1, <1>2, QuietSize

\* A scan that finds no surplus accounts for everything; one that does covers all
\* there is, and answers for it in place of the key it was after.
LEMMA ScanSize == ASSUME Shapes, SizeInv, MaxSize # None, NEW c \in Clients, Scan(c) PROVE SizeInv'
<1> USE DEF SizeInv, Shapes, Continue
<1> DEFINE surplus == Cardinality(DOMAIN store) - MaxSize
<1>1. call[c].op = "scan" /\ UNCHANGED store /\ c \notin Aging
    BY DEF Scan, redis, Aging
<1>2. Cardinality(DOMAIN store) \in Nat
    BY FS_CardinalityType DEF EvictionShapes
<1>3. CASE surplus <= 0
    <2>1. Continue(c, [op |-> "done"])
        BY <1>3 DEF Scan
    <2>2. Aging' = Aging /\ \A d \in Aging : call'[d] = call[d]
        BY <1>1, <2>1 DEF Aging
    <2>3. EvictionShapes'
        BY <1>1, <2>2 DEF EvictionShapes
    <2>4. \A failing : Cardinality(Unclaimed(failing)') <= MaxSize
        <3>1. SUFFICES ASSUME NEW failing PROVE Cardinality(Unclaimed(failing)') <= MaxSize
            OBVIOUS
        <3>2. Unclaimed(failing)' \subseteq DOMAIN store
            BY <1>1 DEF Unclaimed
        <3>3. /\ Cardinality(Unclaimed(failing)') <= Cardinality(DOMAIN store)
              /\ Cardinality(Unclaimed(failing)') \in Nat
            BY <3>2, FS_Subset, FS_CardinalityType DEF EvictionShapes
        <3>4. QED
            BY <1>2, <1>3, <3>3 DEF EvictionShapes
    <2>5. QED
        BY <2>3, <2>4 DEF EvictionsSuffice
<1>4. CASE ~(surplus <= 0)
    <2>1. /\ Continue(c, [op |-> "age", key |-> call[c].key, surplus |-> surplus,
                          unread |-> DOMAIN store, aged |-> {}])
          /\ UNCHANGED unaccounted
        BY <1>4 DEF Scan
    <2>2. /\ call'[c].op = "age" /\ call'[c].key = call[c].key
          /\ call'[c].surplus = surplus /\ call'[c].unread = DOMAIN store /\ call'[c].aged = {}
          /\ \A d \in Clients : d # c => call'[d] = call[d]
        BY <2>1
    <2>3. Aging' = Aging \cup {c} /\ \A d \in Aging : Covered(d)' = Covered(d)
        BY <1>1, <2>2 DEF Aging, Covered
    <2>4. EvictionShapes'
        <3>1. surplus \in Nat /\ Cardinality(DOMAIN store) + 0 <= MaxSize + surplus
            BY <1>2, <1>4 DEF EvictionShapes
        <3>2. \A d \in Aging : call'[d] = call[d]
            BY <1>1, <2>2 DEF Aging
        <3>3. IsFiniteSet({}) /\ Cardinality({}) = 0
            BY FS_EmptySet
        <3> HIDE DEF surplus
        <3>4. QED
            BY <1>1, <2>2, <2>3, <3>1, <3>2, <3>3 DEF EvictionShapes
    <2>5. EvictionsSuffice'
        <3>1. SUFFICES ASSUME NEW failing \in SUBSET Aging'
                       PROVE  \/ Cardinality(Unclaimed(failing)') <= MaxSize
                              \/ \E d \in Aging' \ failing :
                                   Unclaimed(failing)' \subseteq Covered(d)'
            BY DEF EvictionsSuffice
        <3>2. CASE c \notin failing
            BY <1>1, <2>2, <2>3, <3>2 DEF Unclaimed, Covered
        <3>3. CASE c \in failing
            <4>1. failing \ {c} \in SUBSET Aging
                BY <2>3
            <4>2. Unclaimed(failing)' = Unclaimed(failing \ {c})
                BY <1>1, <2>1, <2>2, <3>3 DEF Unclaimed
            <4>3. CASE Cardinality(Unclaimed(failing \ {c})) <= MaxSize
                BY <4>2, <4>3
            <4>4. CASE \E d \in Aging \ (failing \ {c}) :
                          Unclaimed(failing \ {c}) \subseteq Covered(d)
                <5>1. PICK d \in Aging \ (failing \ {c}) :
                            Unclaimed(failing \ {c}) \subseteq Covered(d)
                    BY <4>4
                <5>2. d # c /\ d \in Aging' \ failing
                    BY <1>1, <2>3, <5>1 DEF Aging
                <5>3. Covered(d)' = Covered(d)
                    BY <2>3
                <5>4. QED
                    BY <4>2, <5>1, <5>2, <5>3
            <4>5. QED
                BY <4>1, <4>3, <4>4 DEF EvictionsSuffice
        <3>4. QED
            BY <3>2, <3>3
    <2>6. QED
        BY <2>4, <2>5
<1>5. QED
    BY <1>3, <1>4

\* An entry that has been read is aged, unless it is gone.
LEMMA AgeSize == ASSUME Shapes, SizeInv, MaxSize # None, NEW c \in Clients, Age(c) PROVE SizeInv'
<1> USE DEF SizeInv, Shapes, Continue
<1>1. PICK k \in call[c].unread :
        Continue(c, [op |-> "age", key |-> call[c].key, surplus |-> call[c].surplus,
                     unread |-> call[c].unread \ {k},
                     aged |-> call[c].aged \cup
                        {[key |-> j, last_accessed |-> store[j].last_accessed] :
                            j \in {k} \cap DOMAIN store}])
    BY DEF Age
<1> DEFINE new == {[key |-> j, last_accessed |-> store[j].last_accessed] :
                        j \in {k} \cap DOMAIN store}
<1>2. /\ call'[c].op = "age" /\ call'[c].key = call[c].key
      /\ call'[c].surplus = call[c].surplus
      /\ call'[c].unread = call[c].unread \ {k}
      /\ call'[c].aged = call[c].aged \cup new
      /\ \A d \in Clients : d # c => call'[d] = call[d]
    BY <1>1
<1>3. call[c].op = "age" /\ c \in Aging /\ UNCHANGED <<store, unaccounted>>
    BY DEF Age, redis, history, Aging
<1>4. Aging' = Aging
    BY <1>2, <1>3 DEF Aging
<1>5. EvictionShapes'
    <2>1. /\ IsFiniteSet(call[c].unread \ {k})
          /\ Cardinality(call[c].unread \ {k}) = Cardinality(call[c].unread) - 1
        BY <1>3, FS_RemoveElement DEF EvictionShapes
    <2>2. /\ IsFiniteSet(call[c].aged \cup new)
          /\ Cardinality(call[c].aged \cup new) <= Cardinality(call[c].aged) + 1
        <3>1. IsFiniteSet(call[c].aged) /\ Cardinality(call[c].aged) \in Nat
            BY <1>3, FS_CardinalityType DEF EvictionShapes
        <3>2. CASE k \notin DOMAIN store
            <4>1. new = {} /\ call[c].aged \cup new = call[c].aged
                BY <3>2
            <4> HIDE DEF new
            <4>2. QED
                BY <3>1, <4>1
        <3>3. CASE k \in DOMAIN store
            <4>1. PICK e : new = {e}
                BY <3>3
            <4> HIDE DEF new
            <4>2. QED
                BY <3>1, <4>1, FS_AddElement
        <3>4. QED
            BY <3>2, <3>3
    <2>3. \A d \in Aging \ {c} : call'[d] = call[d]
        BY <1>2 DEF Aging
    <2>4. /\ Cardinality(call[c].unread) \in Nat /\ Cardinality(call[c].aged) \in Nat
          /\ Cardinality(call[c].aged \cup new) \in Nat
        BY <1>3, <2>2, FS_CardinalityType DEF EvictionShapes
    <2>5. Cardinality(call'[c].unread) + Cardinality(call'[c].aged) <= MaxSize + call'[c].surplus
        BY <1>2, <1>3, <2>1, <2>2, <2>4 DEF EvictionShapes
    <2> HIDE DEF new
    <2>6. QED
        BY <1>2, <1>3, <1>4, <2>1, <2>2, <2>3, <2>5 DEF EvictionShapes
<1>6. \A failing \in SUBSET Aging : Unclaimed(failing)' = Unclaimed(failing)
    BY <1>2, <1>3 DEF Unclaimed
<1>7. \A failing \in SUBSET Aging, d \in Aging :
        Unclaimed(failing)' \cap Covered(d) \subseteq Covered(d)'
    <2>1. DOMAIN store \cap Covered(c) \subseteq Covered(c)'
        <3>1. SUFFICES ASSUME NEW x \in DOMAIN store, x \in Covered(c) PROVE x \in Covered(c)'
            OBVIOUS
        <3>2. CASE x = k
            <4> DEFINE e == [key |-> x, last_accessed |-> store[x].last_accessed]
            <4>1. e \in new /\ e.key = x
                BY <3>1, <3>2
            <4> HIDE DEF new, e
            <4>2. QED
                BY <1>2, <4>1 DEF Covered
        <3>3. CASE x \in call[c].unread /\ x # k
            BY <1>2, <3>3 DEF Covered
        <3>4. CASE \E a \in call[c].aged : x = a.key
            <4> HIDE DEF new
            <4>1. QED
                BY <1>2, <3>4 DEF Covered
        <3>5. QED
            BY <3>1, <3>2, <3>3, <3>4 DEF Covered
    <2>2. \A d \in Aging \ {c} : Covered(d)' = Covered(d)
        BY <1>2 DEF Covered, Aging
    <2>3. \A failing \in SUBSET Aging : Unclaimed(failing)' \subseteq DOMAIN store
        BY <1>6 DEF Unclaimed
    <2>4. QED
        BY <2>1, <2>2, <2>3
<1>8. EvictionsSuffice'
    <2> DEFINE before == [failing \in SUBSET Aging |-> failing]
    <2>1. \A failing \in SUBSET Aging' : before[failing] = failing /\ failing \in SUBSET Aging
        BY <1>4
    <2> HIDE DEF before
    <2>2. QED
        BY <1>4, <1>6, <1>7, <2>1, SufficeStep
<1>9. QED
    BY <1>5, <1>8

\* A client that fails leaves the key it was to answer for unaccounted.
LEMMA FailSize ==
    ASSUME Shapes, SizeInv, MaxSize # None, NEW c \in Clients, Fail(c),
           call[c].op \in {"scan", "age"}
    PROVE  SizeInv'
<1> USE DEF SizeInv, Shapes, Continue
<1>1. /\ UNCHANGED store
      /\ unaccounted' = unaccounted \cup ({call[c].key} \cap DOMAIN store)
      /\ call'[c] = Idle
      /\ \A d \in Clients : d # c => call'[d] = call[d]
    BY DEF Fail, redis
<1>2. Aging' = Aging \ {c} /\ \A d \in Aging' : call'[d] = call[d] /\ Covered(d)' = Covered(d)
    BY <1>1 DEF Aging, Covered, Idle
<1>3. EvictionShapes'
    BY <1>1, <1>2 DEF EvictionShapes
<1> DEFINE before == [failing \in SUBSET Aging |-> failing \cup ({c} \cap Aging)]
<1>4. \A failing \in SUBSET Aging' :
        before[failing] = failing \cup ({c} \cap Aging) /\ failing \in SUBSET Aging
    BY <1>2
<1> HIDE DEF before
<1>5. \A failing \in SUBSET Aging' : Unclaimed(failing)' \subseteq Unclaimed(before[failing])
    BY <1>1, <1>4 DEF Unclaimed, Idle
<1>6. EvictionsSuffice'
    BY <1>2, <1>4, <1>5, SufficeStep
<1>7. QED
    BY <1>3, <1>6

\* The oldest entries are the surplus, or all that are left.
LEMMA OldestSuffices ==
    ASSUME EvictionShapes, NEW c \in Aging, call[c].unread = {}, NEW old \in Oldest(c)
    PROVE  /\ IsFiniteSet(call[c].aged \ old)
           /\ Cardinality(call[c].aged \ old) <= MaxSize
<1> DEFINE n == Cardinality(call[c].aged)
           s == call[c].surplus
<1>1. /\ IsFiniteSet(call[c].aged) /\ n \in Nat /\ s \in Nat /\ MaxSize \in Nat
      /\ n <= MaxSize + s
    <2>1. Cardinality(call[c].unread) = 0
        BY FS_EmptySet
    <2>2. n \in Nat
        BY FS_CardinalityType DEF EvictionShapes
    <2>3. /\ IsFiniteSet(call[c].aged) /\ s \in Nat /\ MaxSize \in Nat
          /\ Cardinality(call[c].unread) + n <= MaxSize + s
        BY DEF EvictionShapes
    <2> HIDE DEF n, s
    <2>4. QED
        BY <2>1, <2>2, <2>3
<1>2. old \in SUBSET call[c].aged /\ Cardinality(old) = Min({s, n})
    BY DEF Oldest
<1>3. Min({s, n}) = IF s <= n THEN s ELSE n
    BY <1>1 DEF Min
<1>4. /\ IsFiniteSet(call[c].aged \ old)
      /\ Cardinality(call[c].aged \ old) = n - Cardinality(old)
    <2>1. IsFiniteSet(old) /\ IsFiniteSet(call[c].aged \ old)
        BY <1>1, <1>2, FS_Subset
    <2>2. /\ old \cup (call[c].aged \ old) = call[c].aged
          /\ old \cap (call[c].aged \ old) = {}
        BY <1>2
    <2>3. n = Cardinality(old) + Cardinality(call[c].aged \ old) - Cardinality({})
        BY <2>1, <2>2, FS_Union
    <2>4. Cardinality(old) \in Nat /\ Cardinality(call[c].aged \ old) \in Nat /\ Cardinality({}) = 0
        BY <2>1, FS_CardinalityType, FS_EmptySet
    <2> HIDE DEF n
    <2>5. QED
        BY <1>1, <2>1, <2>3, <2>4
<1> HIDE DEF n, s
<1>5. QED
    BY <1>1, <1>2, <1>3, <1>4

\* The keys of finitely many aged entries are not more than these.
LEMMA KeysOfAged ==
    ASSUME NEW S, IsFiniteSet(S)
    PROVE  /\ IsFiniteSet({a.key : a \in S})
           /\ Cardinality({a.key : a \in S}) <= Cardinality(S)
<1> DEFINE f == [a \in S |-> a.key]
           T == {a.key : a \in S}
<1>1. f \in Surjection(S, T)
    BY DEF Surjection
<1> HIDE DEF f
<1>2. QED
    BY <1>1, FS_Surjection

\* An eviction that has seen all that is unclaimed leaves at most maxsize of it.
LEMMA EvictSize ==
    ASSUME Shapes, SizeInv, MaxSize # None, NEW c \in Clients, Evict(c)
    PROVE  SizeInv'
<1> USE DEF SizeInv, Shapes, Continue
<1>1. PICK old \in Oldest(c) : Drop({a.key : a \in old})
    BY DEF Evict
<1> DEFINE gone == {a.key : a \in old}
           left == {a.key : a \in call[c].aged \ old}
<1>2. /\ c \in Aging /\ call[c].unread = {}
      /\ call'[c].op = "done"
      /\ \A d \in Clients : d # c => call'[d] = call[d]
    BY DEF Evict, Aging
<1>3. DOMAIN store' = DOMAIN store \ gone /\ unaccounted' = unaccounted \ gone
    BY <1>1 DEF Drop
<1>4. Aging' = Aging \ {c} /\ \A d \in Aging' : call'[d] = call[d] /\ Covered(d)' = Covered(d)
    BY <1>2 DEF Aging, Covered
<1>5. EvictionShapes'
    <2>1. IsFiniteSet(DOMAIN store')
        BY <1>3, FS_Subset DEF EvictionShapes
    <2>2. QED
        BY <1>4, <2>1 DEF EvictionShapes
<1>6. \A failing \in SUBSET Aging' : Unclaimed(failing)' \subseteq Unclaimed(failing) \ gone
    <2> HIDE DEF gone
    <2>1. QED
        BY <1>2, <1>3, <1>4 DEF Unclaimed, Aging
<1>7. /\ IsFiniteSet(left) /\ Cardinality(left) \in Nat
      /\ Cardinality(left) <= MaxSize
    <2>1. /\ IsFiniteSet(call[c].aged \ old)
          /\ Cardinality(call[c].aged \ old) <= MaxSize
        BY <1>1, <1>2, OldestSuffices
    <2>2. /\ IsFiniteSet(left)
          /\ Cardinality(left) <= Cardinality(call[c].aged \ old)
        BY <2>1, KeysOfAged
    <2>3. Cardinality(left) \in Nat /\ Cardinality(call[c].aged \ old) \in Nat
        BY <2>1, <2>2, FS_CardinalityType
    <2> HIDE DEF left
    <2>4. QED
        BY <2>1, <2>2, <2>3 DEF EvictionShapes
<1>8. Covered(c) \ gone \subseteq left
    BY <1>2 DEF Covered
<1>9. ASSUME NEW failing \in SUBSET Aging', Unclaimed(failing) \subseteq Covered(c)
      PROVE  Cardinality(Unclaimed(failing)') <= MaxSize
    <2> HIDE DEF gone, left
    <2>1. Unclaimed(failing)' \subseteq left
        BY <1>6, <1>8, <1>9
    <2>2. /\ Cardinality(Unclaimed(failing)') <= Cardinality(left)
          /\ Cardinality(Unclaimed(failing)') \in Nat
        BY <1>7, <2>1, FS_Subset, FS_CardinalityType
    <2>3. QED
        BY <1>7, <2>2 DEF EvictionShapes
<1>10. EvictionsSuffice'
    <2> DEFINE before == [failing \in SUBSET Aging |-> failing]
    <2>1. \A failing \in SUBSET Aging' : before[failing] = failing /\ failing \in SUBSET Aging
        BY <1>4
    <2> HIDE DEF before, gone, left
    <2>2. QED
        BY <1>4, <1>6, <1>9, <2>1, SufficeStep
<1>11. QED
    BY <1>5, <1>10

LEMMA NextSizeInv == IInv /\ SizeInv /\ [Next]_vars => SizeInv'
<1>1. SUFFICES ASSUME IInv, SizeInv, [Next]_vars PROVE SizeInv'
    OBVIOUS
<1>2. CASE MaxSize = None
    BY <1>2 DEF SizeInv
<1>3. CASE MaxSize # None
    <2>1. CASE UNCHANGED vars
        <3>1. UNCHANGED <<store, unaccounted, call>>
            BY <2>1 DEF vars, redis, history
        <3>2. Aging' = Aging
            BY <3>1 DEF Aging
        <3>3. \A c \in Aging : Covered(c)' = Covered(c)
            BY <3>1 DEF Covered
        <3>4. \A failing : Unclaimed(failing)' = Unclaimed(failing)
            BY <3>1 DEF Unclaimed
        <3>5. EvictionShapes => EvictionShapes'
            BY <3>1, <3>2 DEF EvictionShapes
        <3>6. EvictionsSuffice => EvictionsSuffice'
            BY <3>2, <3>3, <3>4 DEF EvictionsSuffice
        <3>7. QED
            BY <1>1, <3>5, <3>6 DEF SizeInv
    <2>2. ASSUME NEW k \in Keys, Expire(k) \/ ForeignWrite(k) PROVE SizeInv'
        BY <1>1, <1>3, <2>2, EnvironmentSize
    <2>3. ASSUME NEW c \in Clients,
                 \/ Invoke(c) \/ Get(c) \/ Set(c) \/ Clear(c) \/ Info(c)
                 \/ Return(c) \/ Fail(c)
          PROVE  SizeInv'
        <3>1. Shapes
            BY <1>1 DEF IInv
        <3>2. ScanAll(c) => call[c].op = "clear"
            BY DEF ScanAll
        <3>3. QED
            BY <1>1, <1>3, <2>3, <3>1, <3>2, IdleSize, PutSize, DropSize, ScanSize, AgeSize,
               EvictSize, FailSize
            DEF Get, Set, Clear
    <2>4. QED
        BY <1>1, <2>1, <2>2, <2>3 DEF Next
<1>4. QED
    BY <1>2, <1>3

\* However many clients store and evict at once, each from its own outdated scan,
\* and whichever of them fail: with no eviction under way there are at most maxsize
\* entries that an eviction was to account for.
THEOREM RedisSizeBounded == Spec => []SizeBounded
<1>1. SizeInv => SizeBounded
    <2>1. SUFFICES ASSUME SizeInv, MaxSize # None,
                          \A c \in Clients : call[c].op \notin {"scan", "age"}
                   PROVE  Cardinality(DOMAIN store \ unaccounted) <= MaxSize
        BY DEF SizeBounded
    <2>2. Aging = {} /\ Unclaimed({}) = DOMAIN store \ unaccounted
        BY <2>1 DEF Aging, Unclaimed
    <2>3. QED
        BY <2>1, <2>2 DEF SizeInv, EvictionsSuffice
<1>2. QED
    BY <1>1, InitInv, NextInv, InitSizeInv, NextSizeInv, PTL DEF Spec

-----------------------------------------------------------------------------
(* Types *)

CallStates == {Idle} \cup InProgress \cup Answers

TInv == TypeOK /\ IsFiniteSet(DOMAIN store)

LEMMA InitTInv == Init => TInv
<1> SUFFICES ASSUME Init PROVE TInv
    OBVIOUS
<1>1. DOMAIN store = {} /\ IsFiniteSet(DOMAIN store)
    BY FS_EmptySet DEF Init
<1>2. MaxCalls[users] \in Nat
    BY RedisAssumption DEF Init
<1>3. QED
    BY <1>1, <1>2 DEF Init, TInv, TypeOK, Idle

\* The local variables of a method at each of its commands.
LEMMA CallFields ==
    ASSUME TypeOK, NEW c \in Clients
    PROVE  LET m == call[c]
           IN  /\ m.op \in KeyedSteps \cup {"scan", "age"} => m.key \in Keys
               /\ m.op \in {"set", "count_hit", "touch"} => m.content \in Contents
               /\ m.op \in {"put", "write_back"} =>
                    m.entry \in [content : Contents, last_accessed : Nat \ {0}]
               /\ m.op = "age" => /\ m.surplus \in Nat \ {0}
                                  /\ m.unread \in SUBSET Keys
                                  /\ m.aged \in SUBSET [key : Keys, last_accessed : Nat]
               /\ m.op = "wipe" => m.keys \in SUBSET Keys
               /\ m.op \in {"read_misses", "count_entries"} => m.hits \in Nat
               /\ m.op = "count_entries" => m.misses \in Nat
<1> DEFINE m == call[c]
<1>1. m \in CallStates
    BY DEF TypeOK, CallStates
<1> HIDE DEF m
<1>2. CASE m \in {Idle} \cup Answers
    BY <1>2 DEF Idle, Answers, KeyedSteps, m
<1>3. CASE m \in InProgress
    BY <1>3 DEF InProgress, KeyedSteps, m
<1>4. QED
    BY <1>1, <1>2, <1>3 DEF CallStates

\* What a command may not change of the types.
LEMMA CallType ==
    ASSUME TInv, NEW c \in Clients, NEW next \in CallStates, Continue(c, next),
           DOMAIN store' \subseteq Keys, IsFiniteSet(DOMAIN store'),
           \A k \in DOMAIN store' : store'[k] \in EntryType,
           hits' \in Nat, misses' \in Nat, counter' \in Nat,
           latest' \in [Keys -> Contents \cup {None}], overlapped' \subseteq Keys,
           unaccounted' \subseteq DOMAIN store', recency' \subseteq Keys \X Keys,
           users' = users, invoked' \in 0..MaxCalls[users]
    PROVE  TInv'
BY DEF TInv, TypeOK, CallStates, Continue

LEMMA PutType ==
    ASSUME TInv, NEW k \in Keys, NEW e \in EntryType, Put(k, e)
    PROVE  /\ DOMAIN store' = DOMAIN store \cup {k} /\ DOMAIN store' \subseteq Keys
           /\ IsFiniteSet(DOMAIN store')
           /\ \A j \in DOMAIN store' : store'[j] \in EntryType
<1>1. DOMAIN store' = DOMAIN store \cup {k}
    BY DEF Put
<1>2. IsFiniteSet(DOMAIN store')
    BY <1>1, FS_AddElement DEF TInv
<1>3. QED
    BY <1>1, <1>2 DEF Put, TInv, TypeOK

LEMMA DropType ==
    ASSUME TInv, NEW keys, Drop(keys)
    PROVE  /\ DOMAIN store' \subseteq Keys /\ IsFiniteSet(DOMAIN store')
           /\ \A j \in DOMAIN store' : store'[j] \in EntryType
           /\ unaccounted' \subseteq DOMAIN store'
<1>1. DOMAIN store' = DOMAIN store \ keys
    BY DEF Drop
<1>2. IsFiniteSet(DOMAIN store')
    BY <1>1, FS_Subset DEF TInv
<1>3. QED
    BY <1>1, <1>2 DEF Drop, TInv, TypeOK

LEMMA UsedType ==
    ASSUME TInv, NEW k \in Keys, Used(k) PROVE recency' \subseteq Keys \X Keys
BY DEF TInv, TypeOK, Used

LEMMA ClientType ==
    ASSUME TInv, NEW c \in Clients,
           Invoke(c) \/ Get(c) \/ Set(c) \/ Clear(c) \/ Info(c) \/ Return(c) \/ Fail(c)
    PROVE  TInv'
<1> DEFINE m == call[c]
           k == call[c].key
<1>0. /\ TypeOK /\ IsFiniteSet(DOMAIN store)
      /\ DOMAIN store \subseteq Keys /\ \A j \in DOMAIN store : store[j] \in EntryType
      /\ hits \in Nat /\ misses \in Nat /\ counter \in Nat
      /\ latest \in [Keys -> Contents \cup {None}] /\ overlapped \subseteq Keys
      /\ unaccounted \subseteq DOMAIN store /\ recency \subseteq Keys \X Keys
      /\ invoked \in 0..MaxCalls[users] /\ MaxCalls[users] \in Nat
    BY RedisAssumption DEF TInv, TypeOK
<1>a. \A n \in Nat : n + 1 \in Nat
    OBVIOUS
\* Commands that only read.
<1>b. ASSUME NEW next \in CallStates, Continue(c, next), UNCHANGED <<redis, history, users>>,
             invoked' \in 0..MaxCalls[users]
      PROVE  TInv'
    BY <1>0, <1>b, CallType DEF redis, history
<1>1. CASE Invoke(c)
    <2>1. PICK r \in Requests : Continue(c, r)
        BY <1>1 DEF Invoke
    <2>2. r \in CallStates
        BY DEF Requests, CallStates, InProgress
    <2>3. QED
        BY <1>0, <1>1, <1>b, <2>1, <2>2 DEF Invoke
<1>2. CASE Read(c)
    <2>0. k \in Keys /\ UNCHANGED <<redis, history, users, invoked>>
        BY <1>0, <1>2, CallFields DEF Read, KeyedSteps
    <2>1. CASE k \notin DOMAIN store
        <3>1. [op |-> "count_miss", key |-> k] \in CallStates
            BY <2>0 DEF CallStates, InProgress
        <3>2. QED
            BY <1>0, <1>2, <1>b, <2>0, <2>1, <3>1 DEF Read
    <2>2. CASE k \in DOMAIN store /\ store[k].content = Foreign
        <3>1. [op |-> "discard", key |-> k] \in CallStates
            BY <2>0 DEF CallStates, InProgress
        <3>2. QED
            BY <1>0, <1>2, <1>b, <2>0, <2>2, <3>1 DEF Read
    <2>3. CASE k \in DOMAIN store /\ store[k].content # Foreign
        <3>1. store[k].content \in Contents
            BY <1>0, <2>3 DEF EntryType
        <3>2. [op |-> "count_hit", key |-> k, content |-> store[k].content] \in CallStates
            BY <2>0, <3>1 DEF CallStates, InProgress
        <3>3. QED
            BY <1>0, <1>2, <1>b, <2>0, <2>3, <3>2 DEF Read
    <2>4. QED
        BY <2>1, <2>2, <2>3
<1>3. CASE Discard(c)
    <2>1. [op |-> "count_miss", key |-> k] \in CallStates
        BY <1>0, <1>3, CallFields DEF Discard, KeyedSteps, CallStates, InProgress
    <2>2. QED
        BY <1>0, <1>3, <2>1, DropType, CallType DEF Discard
<1>4. CASE CountMiss(c)
    <2>1. [op |-> "miss"] \in CallStates
        BY DEF CallStates, Answers
    <2>2. QED
        BY <1>0, <1>a, <1>4, <2>1, CallType DEF CountMiss, history
<1>5. CASE CountHit(c)
    <2>1. [op |-> "touch", key |-> k, content |-> m.content] \in CallStates
        BY <1>0, <1>5, CallFields DEF CountHit, KeyedSteps, CallStates, InProgress
    <2>2. QED
        BY <1>0, <1>a, <1>5, <2>1, CallType DEF CountHit, history
<1>6. CASE Touch(c) \/ Encode(c)
    <2> DEFINE e == [content |-> m.content, last_accessed |-> counter + 1]
    <2>1. PICK op \in {"write_back", "put"} : Stamp(c, op)
        BY <1>6 DEF Touch, Encode
    <2>2. k \in Keys /\ m.content \in Contents
        BY <1>0, <1>6, CallFields DEF Touch, Encode, KeyedSteps
    <2>3. e \in [content : Contents, last_accessed : Nat \ {0}]
        BY <1>0, <2>2
    <2>4. [op |-> op, key |-> k, entry |-> e] \in CallStates
        BY <2>2, <2>3 DEF CallStates, InProgress
    <2>5. QED
        BY <1>0, <1>a, <2>1, <2>4, CallType DEF Stamp, history
<1>7. CASE WriteBack(c)
    <2>1. k \in Keys /\ m.entry \in [content : Contents, last_accessed : Nat \ {0}]
        BY <1>0, <1>7, CallFields DEF WriteBack, KeyedSteps
    <2>2. m.entry \in EntryType /\ m.entry.content \in Contents
        BY <2>1 DEF EntryType
    <2>3. [op |-> "hit", content |-> m.entry.content] \in CallStates
        BY <2>2 DEF CallStates, Answers
    <2>4. /\ DOMAIN store' = DOMAIN store \cup {k} /\ DOMAIN store' \subseteq Keys
          /\ IsFiniteSet(DOMAIN store')
          /\ \A j \in DOMAIN store' : store'[j] \in EntryType
        BY <1>7, <2>1, <2>2, PutType DEF WriteBack
    <2>5. recency' \subseteq Keys \X Keys
        BY <1>7, <2>1, UsedType DEF WriteBack
    <2>6. unaccounted' \subseteq DOMAIN store'
        BY <1>0, <1>7, <2>4 DEF WriteBack
    <2>7. QED
        BY <1>0, <1>7, <2>3, <2>4, <2>5, <2>6, CallType DEF WriteBack
<1>8. CASE Write(c)
    <2> DEFINE next == IF MaxSize = None THEN [op |-> "done"] ELSE [op |-> "scan", key |-> k]
    <2>1. k \in Keys /\ m.entry \in [content : Contents, last_accessed : Nat \ {0}]
        BY <1>0, <1>8, CallFields DEF Write, KeyedSteps
    <2>2. m.entry \in EntryType /\ m.entry.content \in Contents
        BY <2>1 DEF EntryType
    <2>3. next \in CallStates
        BY <2>1 DEF CallStates, Answers, InProgress
    <2>4. /\ DOMAIN store' = DOMAIN store \cup {k} /\ DOMAIN store' \subseteq Keys
          /\ IsFiniteSet(DOMAIN store')
          /\ \A j \in DOMAIN store' : store'[j] \in EntryType
        BY <1>8, <2>1, <2>2, PutType DEF Write
    <2>5. recency' \subseteq Keys \X Keys
        BY <1>8, <2>1, UsedType DEF Write
    <2>6. unaccounted' \subseteq DOMAIN store'
        BY <1>0, <1>8, <2>4 DEF Write
    <2>7. latest' \in [Keys -> Contents \cup {None}] /\ overlapped' \subseteq Keys
        BY <1>0, <1>8, <2>2 DEF Write, Supersede
    <2> HIDE DEF next
    <2>8. QED
        BY <1>0, <1>8, <2>3, <2>4, <2>5, <2>6, <2>7, CallType DEF Write, next
<1>9. CASE Scan(c)
    <2> DEFINE surplus == Cardinality(DOMAIN store) - MaxSize
               next == [op |-> "age", key |-> k, surplus |-> surplus,
                        unread |-> DOMAIN store, aged |-> {}]
    <2>1. surplus \in Int
        BY <1>0, FS_CardinalityType, RedisAssumption DEF ValidConfig, None
    <2>2. [op |-> "done"] \in CallStates
        BY DEF CallStates, Answers
    <2>3. ~(surplus <= 0) => next \in CallStates
        <3>1. k \in Keys
            BY <1>0, <1>9, CallFields DEF Scan
        <3> HIDE DEF surplus
        <3>2. QED
            BY <1>0, <2>1, <3>1 DEF CallStates, InProgress
    <2>4. UNCHANGED <<users, redis, invoked, latest, overlapped, recency>>
        BY <1>9 DEF Scan
    <2>5. CASE surplus <= 0
        BY <1>0, <1>9, <2>2, <2>4, <2>5, CallType DEF Scan, redis
    <2>6. CASE ~(surplus <= 0)
        <3>1. Continue(c, next) /\ unaccounted' = unaccounted
            BY <1>9, <2>6 DEF Scan
        <3> HIDE DEF next, surplus
        <3>2. QED
            BY <1>0, <2>3, <2>4, <2>6, <3>1, CallType DEF redis
    <2>7. QED
        BY <2>5, <2>6
<1>10. CASE Age(c)
    <2>1. PICK j \in m.unread :
                Continue(c, [op |-> "age", key |-> k, surplus |-> m.surplus,
                      unread |-> m.unread \ {j},
                      aged |-> m.aged \cup
                        {[key |-> i, last_accessed |-> store[i].last_accessed] :
                            i \in {j} \cap DOMAIN store}])
        BY <1>10 DEF Age
    <2> DEFINE new == {[key |-> i, last_accessed |-> store[i].last_accessed] :
                            i \in {j} \cap DOMAIN store}
    <2>2. /\ k \in Keys /\ m.surplus \in Nat \ {0} /\ m.unread \in SUBSET Keys
          /\ m.aged \in SUBSET [key : Keys, last_accessed : Nat]
        BY <1>0, <1>10, CallFields DEF Age
    <2>3. new \in SUBSET [key : Keys, last_accessed : Nat]
        BY <1>0 DEF EntryType
    <2> HIDE DEF new
    <2>4. [op |-> "age", key |-> k, surplus |-> m.surplus, unread |-> m.unread \ {j},
           aged |-> m.aged \cup new] \in CallStates
        <3>1. m.unread \ {j} \in SUBSET Keys
              /\ m.aged \cup new \in SUBSET [key : Keys, last_accessed : Nat]
            BY <2>2, <2>3
        <3>2. QED
            BY <2>2, <3>1 DEF CallStates, InProgress
    <2>5. QED
        BY <1>0, <1>10, <1>b, <2>1, <2>4 DEF Age, new
<1>11. CASE Evict(c)
    <2>1. PICK keys : Drop(keys)
        BY <1>11 DEF Evict
    <2>2. [op |-> "done"] \in CallStates
        BY DEF CallStates, Answers
    <2>3. QED
        BY <1>0, <1>11, <2>1, <2>2, DropType, CallType DEF Evict
<1>12. CASE ScanAll(c)
    <2>1. [op |-> "wipe", keys |-> DOMAIN store] \in CallStates
        BY <1>0 DEF CallStates, InProgress
    <2>2. QED
        BY <1>0, <1>12, <1>b, <2>1 DEF ScanAll
<1>13. CASE Wipe(c)
    <2>1. [op |-> "done"] \in CallStates
        BY DEF CallStates, Answers
    <2>2. latest' \in [Keys -> Contents \cup {None}] /\ overlapped' \subseteq Keys
        BY <1>0, <1>13 DEF Wipe, Supersede
    <2>3. QED
        BY <1>0, <1>13, <2>1, <2>2, DropType, CallType DEF Wipe
<1>14. CASE Info(c)
    <2>1. PICK next \in CallStates : Continue(c, next)
        <3>1. Cardinality(DOMAIN store) \in Nat
            BY <1>0, FS_CardinalityType
        <3>2. /\ m.op \in {"read_misses", "count_entries"} => m.hits \in Nat
              /\ m.op = "count_entries" => m.misses \in Nat
            BY <1>0, CallFields
        <3>3. CASE ReadHits(c)
            BY <1>0, <3>3 DEF ReadHits, CallStates, InProgress
        <3>4. CASE ReadMisses(c)
            BY <1>0, <3>2, <3>4 DEF ReadMisses, CallStates, InProgress
        <3>5. CASE CountEntries(c)
            BY <3>1, <3>2, <3>5 DEF CountEntries, CallStates, Answers
        <3>6. QED
            BY <1>14, <3>3, <3>4, <3>5 DEF Info
    <2>2. QED
        BY <1>0, <1>14, <1>b, <2>1 DEF Info, ReadHits, ReadMisses, CountEntries
<1>15. CASE Return(c) \/ Fail(c)
    <2>1. Idle \in CallStates
        BY DEF CallStates
    <2>2. unaccounted' \subseteq DOMAIN store
        BY <1>0, <1>15 DEF Return, Fail, history
    <2>3. QED
        BY <1>0, <1>15, <2>1, <2>2, CallType DEF Return, Fail, redis, history
<1>16. QED
    BY <1>1, <1>2, <1>3, <1>4, <1>5, <1>6, <1>7, <1>8, <1>9, <1>10, <1>11, <1>12, <1>13,
       <1>14, <1>15
    DEF Get, Set, Clear

LEMMA NextTInv == TInv /\ [Next]_vars => TInv'
<1> SUFFICES ASSUME TInv, [Next]_vars PROVE TInv'
    OBVIOUS
<1>1. CASE UNCHANGED vars
    BY <1>1 DEF vars, redis, history, TInv, TypeOK
<1>2. ASSUME NEW k \in Keys, Expire(k) PROVE TInv'
    BY <1>2, DropType DEF Expire, TInv, TypeOK
<1>3. ASSUME NEW k \in Keys, ForeignWrite(k) PROVE TInv'
    <2>1. PICK stamp \in {0, counter} : Put(k, [content |-> Foreign, last_accessed |-> stamp])
        BY <1>3 DEF ForeignWrite
    <2>2. [content |-> Foreign, last_accessed |-> stamp] \in EntryType
        BY DEF EntryType, TInv, TypeOK
    <2>3. /\ DOMAIN store' = DOMAIN store \cup {k} /\ DOMAIN store' \subseteq Keys
          /\ IsFiniteSet(DOMAIN store')
          /\ \A j \in DOMAIN store' : store'[j] \in EntryType
        BY <2>1, <2>2, PutType
    <2>4. QED
        BY <1>3, <2>3 DEF ForeignWrite, TInv, TypeOK
<1>4. QED
    BY <1>1, <1>2, <1>3, ClientType DEF Next

\* The types of the store, of every method at every command, and of the histories.
THEOREM RedisTypeCorrect == Spec => []TypeOK
<1>1. TInv => TypeOK
    BY DEF TInv
<1>2. QED
    BY <1>1, InitTInv, NextTInv, PTL DEF Spec

-----------------------------------------------------------------------------
(* A lone client *)

\* Nobody else is in the middle of a method.
OthersIdle == \A c \in Clients \ users : call[c] = Idle

\* The entries' stamps are in the order of the keys' last uses.
StampsOrdered ==
    \A j, k \in DOMAIN store : j # k =>
        /\ store[j].last_accessed # store[k].last_accessed
        /\ store[j].last_accessed < store[k].last_accessed => <<j, k>> \in recency

StampsCounted ==
    \A k \in DOMAIN store : store[k].content # Foreign /\ store[k].last_accessed <= counter

\* What the client knows at each command is still so, but for entries that expired.
KnownStill(c) ==
    LET m == call[c]
    IN  /\ m.op \in {"put", "write_back"} =>
             /\ m.entry.last_accessed = counter
             /\ \A k \in DOMAIN store : store[k].last_accessed < counter
        /\ m.op = "count_miss" => m.key \notin DOMAIN store
        /\ LookupOf(c) /\ m.key \in DOMAIN store => store[m.key].content = ContentRead(c)
        /\ m.op = "age" =>
             /\ DOMAIN store \subseteq Covered(c)
             /\ \A a \in m.aged : a.key \in DOMAIN store =>
                    a.last_accessed = store[a.key].last_accessed
        /\ m.op = "wipe" => DOMAIN store \subseteq m.keys
        /\ m.op \in {"read_misses", "count_entries"} => m.hits = hits
        /\ m.op = "count_entries" => m.misses = misses

LoneInv ==
    /\ OthersIdle
    /\ \A c \in Clients : users = {c} => StampsOrdered /\ StampsCounted /\ KnownStill(c)

LEMMA InitLoneInv == Init => LoneInv
BY DEF Init, LoneInv, OthersIdle, StampsOrdered, StampsCounted, KnownStill, LookupOf, Idle

\* Nothing but the store matters for the stamps, and less of it does no harm.
LEMMA FewerStamps ==
    ASSUME StampsOrdered, StampsCounted, DOMAIN store' \subseteq DOMAIN store,
           \A k \in DOMAIN store' : store'[k] = store[k],
           recency' = recency, counter' = counter
    PROVE  StampsOrdered' /\ StampsCounted'
BY DEF StampsOrdered, StampsCounted

\* The stamp of a new entry is the greatest, and its key the last used.
LEMMA PutStamps ==
    ASSUME TInv, StampsOrdered, StampsCounted, Alone,
           NEW k \in Keys, NEW e, Put(k, e), Used(k), counter' = counter,
           e.content # Foreign, e.last_accessed = counter,
           \A j \in DOMAIN store : store[j].last_accessed < counter
    PROVE  StampsOrdered' /\ StampsCounted'
<1>1. /\ DOMAIN store' = DOMAIN store \cup {k} /\ store'[k] = e
      /\ \A j \in DOMAIN store \ {k} : store'[j] = store[j]
    BY DEF Put
<1>2. /\ counter \in Nat /\ DOMAIN store \subseteq Keys
      /\ \A j \in DOMAIN store : store[j].last_accessed \in Nat
    BY DEF TInv, TypeOK, EntryType
<1>3. /\ \A j \in Keys \ {k} : <<j, k>> \in recency'
      /\ \A i, j \in Keys : <<i, j>> \in recency /\ i # k => <<i, j>> \in recency'
    BY DEF Used
<1>4. StampsCounted'
    BY <1>1, <1>2 DEF StampsCounted
<1>5. StampsOrdered'
    <2> SUFFICES ASSUME NEW i \in DOMAIN store', NEW j \in DOMAIN store', i # j
                 PROVE  /\ store'[i].last_accessed # store'[j].last_accessed
                        /\ store'[i].last_accessed < store'[j].last_accessed =>
                                <<i, j>> \in recency'
        BY DEF StampsOrdered
    <2>1. CASE i = k
        BY <1>1, <1>2, <2>1
    <2>2. CASE j = k
        BY <1>1, <1>2, <1>3, <2>2
    <2>3. CASE i # k /\ j # k
        BY <1>1, <1>2, <1>3, <2>3 DEF StampsOrdered
    <2>4. QED
        BY <2>1, <2>2, <2>3
<1>6. QED
    BY <1>4, <1>5

LEMMA LoneClient ==
    ASSUME TInv, NEW c \in Clients, users = {c},
           StampsOrdered, StampsCounted, KnownStill(c),
           Invoke(c) \/ Get(c) \/ Set(c) \/ Clear(c) \/ Info(c) \/ Return(c) \/ Fail(c)
    PROVE  StampsOrdered' /\ StampsCounted' /\ KnownStill(c)'
<1> DEFINE m == call[c]
           k == call[c].key
<1>0. /\ TypeOK /\ DOMAIN call = Clients /\ counter \in Nat /\ Alone
      /\ \A j \in DOMAIN store : store[j].last_accessed \in Nat
    BY DEF TInv, TypeOK, EntryType, Alone
<1>a. \A next : Continue(c, next) => call'[c] = next
    BY <1>0 DEF Continue
<1>b. ASSUME UNCHANGED <<store, counter, recency>> PROVE StampsOrdered' /\ StampsCounted'
    BY <1>b DEF StampsOrdered, StampsCounted
<1>1. CASE Invoke(c)
    <2>1. PICK r \in Requests : Continue(c, r)
        BY <1>1 DEF Invoke
    <2>2. call'[c].op \in {"get", "set", "clear", "info"}
        BY <1>a, <2>1 DEF Requests
    <2>3. KnownStill(c)'
        BY <2>2 DEF KnownStill, LookupOf
    <2>4. QED
        BY <1>1, <1>b, <2>3 DEF Invoke, redis, history
<1>2. CASE Read(c)
    <2>1. UNCHANGED <<store, counter, recency>>
        BY <1>2 DEF Read, redis, history
    <2>2. CASE k \notin DOMAIN store
        <3>1. call'[c] = [op |-> "count_miss", key |-> k]
            BY <1>2, <1>a, <2>2 DEF Read
        <3>2. QED
            BY <1>b, <2>1, <2>2, <3>1 DEF KnownStill, LookupOf
    <2>3. CASE k \in DOMAIN store
        <3>1. store[k].content # Foreign
            BY <2>3 DEF StampsCounted
        <3>2. call'[c] = [op |-> "count_hit", key |-> k, content |-> store[k].content]
            BY <1>2, <1>a, <2>3, <3>1 DEF Read
        <3>3. QED
            BY <1>b, <2>1, <3>2 DEF KnownStill, LookupOf, ContentRead
    <2>4. QED
        BY <2>2, <2>3
<1>3. CASE Discard(c)
    <2>1. call'[c] = [op |-> "count_miss", key |-> k]
        BY <1>3, <1>a DEF Discard
    <2>2. /\ DOMAIN store' = DOMAIN store \ {k} /\ \A j \in DOMAIN store' : store'[j] = store[j]
          /\ UNCHANGED <<counter, recency>>
        BY <1>3 DEF Discard, Drop
    <2>3. KnownStill(c)'
        BY <2>1, <2>2 DEF KnownStill, LookupOf
    <2>4. QED
        BY <2>2, <2>3, FewerStamps
<1>4. CASE CountMiss(c)
    <2>1. call'[c] = [op |-> "miss"]
        BY <1>4, <1>a DEF CountMiss
    <2>2. QED
        BY <1>4, <1>b, <2>1 DEF CountMiss, history, KnownStill, LookupOf
<1>5. CASE CountHit(c)
    <2>1. call'[c] = [op |-> "touch", key |-> k, content |-> m.content]
        BY <1>5, <1>a DEF CountHit
    <2>2. QED
        BY <1>5, <1>b, <2>1 DEF CountHit, history, KnownStill, LookupOf, ContentRead
<1>6. CASE Touch(c) \/ Encode(c)
    <2> DEFINE e == [content |-> m.content, last_accessed |-> counter + 1]
    <2>1. PICK op \in {"write_back", "put"} :
                call'[c] = [op |-> op, key |-> k, entry |-> e] /\ (op = "write_back" => Touch(c))
        BY <1>6, <1>a DEF Touch, Encode, Stamp
    <2>2. UNCHANGED <<store, recency>> /\ counter' = counter + 1
        BY <1>6 DEF Touch, Encode, Stamp, history
    <2>3. \A j \in DOMAIN store : store[j].last_accessed < counter'
        BY <1>0, <2>2 DEF StampsCounted
    <2>4. StampsOrdered' /\ StampsCounted'
        BY <1>0, <2>2, <2>3 DEF StampsOrdered, StampsCounted
    <2>5. op = "write_back" /\ k \in DOMAIN store => store[k].content = m.content
        BY <2>1 DEF Touch, KnownStill, LookupOf, ContentRead
    <2>6. KnownStill(c)'
        BY <2>1, <2>2, <2>3, <2>5 DEF KnownStill, LookupOf, ContentRead
    <2>7. QED
        BY <2>4, <2>6
<1>7. CASE WriteBack(c) \/ Write(c)
    <2>1. /\ k \in Keys /\ m.entry.content \in Contents /\ m.entry.last_accessed = counter
          /\ \A j \in DOMAIN store : store[j].last_accessed < counter
        BY <1>0, <1>7, CallFields DEF WriteBack, Write, KeyedSteps, KnownStill
    <2>2. Put(k, m.entry) /\ Used(k) /\ counter' = counter
        BY <1>7 DEF WriteBack, Write
    <2>3. m.entry.content # Foreign
        BY <2>1, RedisAssumption
    <2>4. StampsOrdered' /\ StampsCounted'
        BY <1>0, <2>1, <2>2, <2>3, PutStamps
    <2>5. call'[c].op \in {"hit", "done", "scan"}
        BY <1>7, <1>a DEF WriteBack, Write
    <2>6. KnownStill(c)'
        BY <2>5 DEF KnownStill, LookupOf
    <2>7. QED
        BY <2>4, <2>6
<1>8. CASE Scan(c)
    <2>1. UNCHANGED <<store, counter, recency>>
        BY <1>8 DEF Scan, redis
    <2>2. \/ call'[c] = [op |-> "done"]
          \/ /\ call'[c].op = "age" /\ call'[c].unread = DOMAIN store /\ call'[c].aged = {}
        BY <1>8, <1>a DEF Scan
    <2>3. KnownStill(c)'
        BY <2>1, <2>2 DEF KnownStill, LookupOf, Covered
    <2>4. QED
        BY <1>b, <2>1, <2>3
<1>9. CASE Age(c)
    <2>1. UNCHANGED <<store, counter, recency>>
        BY <1>9 DEF Age, redis, history
    <2>2. PICK j \in m.unread :
            /\ call'[c].op = "age" /\ call'[c].unread = m.unread \ {j}
            /\ call'[c].aged = m.aged \cup
                   {[key |-> i, last_accessed |-> store[i].last_accessed] :
                        i \in {j} \cap DOMAIN store}
        BY <1>9, <1>a DEF Age
    <2> DEFINE new == {[key |-> i, last_accessed |-> store[i].last_accessed] :
                            i \in {j} \cap DOMAIN store}
    <2>3. /\ j \in DOMAIN store => j \in {a.key : a \in new}
          /\ \A a \in new : a.key \in DOMAIN store /\ a.last_accessed = store[a.key].last_accessed
        <3>1. ASSUME j \in DOMAIN store PROVE j \in {a.key : a \in new}
            <4> DEFINE b == [key |-> j, last_accessed |-> store[j].last_accessed]
            <4>1. b \in new /\ b.key = j
                BY <3>1
            <4> HIDE DEF b, new
            <4>2. QED
                BY <4>1
        <3>2. ASSUME NEW a \in new
              PROVE  a.key \in DOMAIN store /\ a.last_accessed = store[a.key].last_accessed
            BY <3>2
        <3>3. QED
            BY <3>1, <3>2
    <2>4. /\ DOMAIN store \subseteq m.unread \cup {a.key : a \in m.aged}
          /\ \A a \in m.aged : a.key \in DOMAIN store =>
                a.last_accessed = store[a.key].last_accessed
        BY <1>9 DEF Age, KnownStill, Covered
    <2> HIDE DEF new
    <2>5. DOMAIN store \subseteq (m.unread \ {j}) \cup {a.key : a \in m.aged \cup new}
        BY <2>3, <2>4
    <2>6. KnownStill(c)'
        BY <2>1, <2>2, <2>3, <2>4, <2>5 DEF KnownStill, LookupOf, Covered, new
    <2>7. QED
        BY <1>b, <2>1, <2>6
<1>10. CASE Evict(c)
    <2>1. PICK keys : Drop(keys)
        BY <1>10 DEF Evict
    <2>2. /\ DOMAIN store' \subseteq DOMAIN store /\ \A j \in DOMAIN store' : store'[j] = store[j]
          /\ UNCHANGED <<counter, recency>>
        BY <1>10, <2>1 DEF Evict, Drop
    <2>3. call'[c] = [op |-> "done"]
        BY <1>10, <1>a DEF Evict
    <2>4. KnownStill(c)'
        BY <2>3 DEF KnownStill, LookupOf
    <2>5. QED
        BY <2>2, <2>4, FewerStamps
<1>11. CASE ScanAll(c)
    <2>1. call'[c] = [op |-> "wipe", keys |-> DOMAIN store]
        BY <1>11, <1>a DEF ScanAll
    <2>2. QED
        BY <1>11, <1>b, <2>1 DEF ScanAll, redis, history, KnownStill, LookupOf
<1>12. CASE Wipe(c)
    <2>1. DOMAIN store' = {}
        BY <1>12 DEF Wipe, Drop, KnownStill
    <2>2. call'[c] = [op |-> "done"]
        BY <1>12, <1>a DEF Wipe
    <2>3. QED
        BY <2>1, <2>2 DEF StampsOrdered, StampsCounted, KnownStill, LookupOf
<1>13. CASE Info(c)
    <2>1. UNCHANGED <<store, counter, recency, hits, misses>>
        BY <1>13 DEF Info, ReadHits, ReadMisses, CountEntries, redis, history
    <2>2. KnownStill(c)'
        <3>1. CASE ReadHits(c)
            <4>1. call'[c] = [op |-> "read_misses", hits |-> hits]
                BY <1>a, <3>1 DEF ReadHits
            <4>2. QED
                BY <2>1, <4>1 DEF KnownStill, LookupOf
        <3>2. CASE ReadMisses(c)
            <4>1. call'[c] = [op |-> "count_entries", hits |-> m.hits, misses |-> misses]
                BY <1>a, <3>2 DEF ReadMisses
            <4>2. QED
                BY <2>1, <3>2, <4>1 DEF ReadMisses, KnownStill, LookupOf
        <3>3. CASE CountEntries(c)
            <4>1. call'[c].op = "report"
                BY <1>a, <3>3 DEF CountEntries
            <4>2. QED
                BY <4>1 DEF KnownStill, LookupOf
        <3>4. QED
            BY <1>13, <3>1, <3>2, <3>3 DEF Info
    <2>3. QED
        BY <1>b, <2>1, <2>2
<1>14. CASE Return(c) \/ Fail(c)
    <2>1. call'[c] = Idle
        BY <1>14, <1>a DEF Return, Fail
    <2>2. QED
        BY <1>14, <1>b, <2>1 DEF Return, Fail, redis, history, KnownStill, LookupOf, Idle
<1>15. QED
    BY <1>1, <1>2, <1>3, <1>4, <1>5, <1>6, <1>7, <1>8, <1>9, <1>10, <1>11, <1>12, <1>13, <1>14
    DEF Get, Set, Clear

\* Who is in the middle of a method is a user, and moves alone.
LEMMA ClientIsUser ==
    ASSUME OthersIdle, NEW c \in Clients,
           Invoke(c) \/ Get(c) \/ Set(c) \/ Clear(c) \/ Info(c) \/ Return(c) \/ Fail(c)
    PROVE  /\ c \in users /\ users' = users
           /\ \E next : Continue(c, next)
<1>1. CASE Invoke(c)
    BY <1>1 DEF Invoke
<1>2. CASE Get(c)
    BY <1>2 DEF Get, Read, Discard, CountMiss, CountHit, Touch, Stamp, WriteBack, OthersIdle, Idle
<1>3. CASE Set(c)
    <2>1. call[c] # Idle /\ users' = users
        BY <1>3 DEF Set, Encode, Stamp, Write, Scan, Age, Evict, Idle
    <2>2. \E next : Continue(c, next)
        BY <1>3 DEF Set, Encode, Stamp, Write, Scan, Age, Evict
    <2>3. QED
        BY <2>1, <2>2 DEF OthersIdle
<1>4. CASE Clear(c) \/ Info(c)
    BY <1>4 DEF Clear, ScanAll, Wipe, Info, ReadHits, ReadMisses, CountEntries, OthersIdle, Idle
<1>5. CASE Return(c) \/ Fail(c)
    BY <1>5 DEF Return, Answered, Fail, OthersIdle, Idle
<1>6. QED
    BY <1>1, <1>2, <1>3, <1>4, <1>5

LEMMA NextLoneInv == TInv /\ LoneInv /\ [Next]_vars => LoneInv'
<1> SUFFICES ASSUME TInv, LoneInv, [Next]_vars PROVE LoneInv'
    OBVIOUS
<1> USE DEF LoneInv
<1>1. CASE UNCHANGED vars
    BY <1>1 DEF vars, redis, history, OthersIdle, StampsOrdered, StampsCounted, KnownStill,
                LookupOf, ContentRead, Covered
<1>2. ASSUME NEW c \in Clients,
             Invoke(c) \/ Get(c) \/ Set(c) \/ Clear(c) \/ Info(c) \/ Return(c) \/ Fail(c)
      PROVE  LoneInv'
    <2>1. c \in users /\ users' = users /\ \A d \in Clients \ {c} : call'[d] = call[d]
        BY <1>2, ClientIsUser DEF Continue, TInv, TypeOK
    <2>2. OthersIdle'
        BY <2>1 DEF OthersIdle
    <2>3. ASSUME users' = {c} PROVE StampsOrdered' /\ StampsCounted' /\ KnownStill(c)'
        BY <1>2, <2>1, <2>3, LoneClient
    <2>4. QED
        BY <2>1, <2>2, <2>3
<1>3. ASSUME NEW k \in Keys, Expire(k) PROVE LoneInv'
    <2>1. /\ DOMAIN store' \subseteq DOMAIN store
          /\ \A j \in DOMAIN store' : store'[j] = store[j]
          /\ UNCHANGED <<users, call, hits, misses, counter, recency>>
        BY <1>3 DEF Expire, Drop
    <2>2. ASSUME NEW c \in Clients, KnownStill(c) PROVE KnownStill(c)'
        BY <2>1, <2>2 DEF KnownStill, LookupOf, ContentRead, Covered
    <2>3. QED
        BY <2>1, <2>2, FewerStamps DEF OthersIdle
<1>4. ASSUME NEW k \in Keys, ForeignWrite(k) PROVE LoneInv'
    <2>1. Foreign \in users /\ UNCHANGED <<users, call>>
        BY <1>4 DEF ForeignWrite
    <2>2. QED
        BY <2>1, RedisAssumption DEF OthersIdle
<1>5. QED
    BY <1>1, <1>2, <1>3, <1>4 DEF Next

LEMMA SpecLoneInv == Spec => [](TInv /\ LoneInv)
BY InitTInv, NextTInv, InitLoneInv, NextLoneInv, PTL DEF Spec

LEMMA EvictsStep ==
    TInv /\ LoneInv /\ [Next]_vars =>
        (Alone => \A c \in users, gone \in DOMAIN store \ DOMAIN store' :
            call[c].op = "age" /\ call'[c].op = "done" =>
                \A stays \in DOMAIN store' : <<gone, stays>> \in recency)
<1> SUFFICES ASSUME TInv, LoneInv, [Next]_vars, NEW c \in Clients, users = {c},
                    NEW gone \in DOMAIN store \ DOMAIN store',
                    call[c].op = "age", call'[c].op = "done",
                    NEW stays \in DOMAIN store'
             PROVE  <<gone, stays>> \in recency
    BY DEF Alone
<1>0. /\ StampsOrdered /\ KnownStill(c) /\ OthersIdle /\ TypeOK
      /\ \A j \in DOMAIN store : store[j].last_accessed \in Nat
    BY DEF LoneInv, TInv, TypeOK, EntryType
<1>1. Evict(c)
    <2>1. ~UNCHANGED vars /\ \A k \in Keys : ~Expire(k) /\ ~ForeignWrite(k)
        BY DEF vars, Expire, ForeignWrite
    <2>2. ASSUME NEW d \in Clients,
                 Invoke(d) \/ Get(d) \/ Set(d) \/ Clear(d) \/ Info(d) \/ Return(d) \/ Fail(d)
          PROVE  d = c
        BY <1>0, <2>2, ClientIsUser
    <2>3. ~Invoke(c) /\ ~Get(c) /\ ~Clear(c) /\ ~Info(c) /\ ~Return(c)
        BY DEF Invoke, Idle, Get, Read, Discard, CountMiss, CountHit, Touch, WriteBack, Clear,
               ScanAll, Wipe, Info, ReadHits, ReadMisses, CountEntries, Return, Answered
    <2>4. ~Fail(c) /\ ~Age(c)
        BY <1>0 DEF Fail, Age, Continue, Idle, TypeOK
    <2>5. ~Encode(c) /\ ~Write(c) /\ ~Scan(c)
        BY DEF Encode, Write, Scan
    <2>6. QED
        BY <2>1, <2>2, <2>3, <2>4, <2>5 DEF Next, Set
<1> DEFINE aged == call[c].aged
<1>2. PICK old \in Oldest(c) : Drop({a.key : a \in old})
    BY <1>1 DEF Evict
<1>3. DOMAIN store' = DOMAIN store \ {a.key : a \in old}
    BY <1>2 DEF Drop
<1>4. PICK a \in old : a.key = gone
    BY <1>3
<1>5. PICK b \in aged \ old : b.key = stays
    <2>1. stays \in {b.key : b \in aged}
        BY <1>0, <1>1, <1>3 DEF KnownStill, Covered, Evict
    <2>2. QED
        BY <1>3, <2>1
<1>6. old \subseteq aged /\ a.last_accessed <= b.last_accessed
    BY <1>2, <1>4, <1>5 DEF Oldest
<1>7. a.last_accessed = store[gone].last_accessed /\ b.last_accessed = store[stays].last_accessed
    BY <1>0, <1>3, <1>4, <1>5, <1>6 DEF KnownStill
<1>8. gone # stays /\ stays \in DOMAIN store
    BY <1>3
<1>9. QED
    BY <1>0, <1>6, <1>7, <1>8 DEF StampsOrdered

\* A lone client evicts in the order of use, for every maxsize and number of keys:
\* the stamps it has read are still those of the entries that did not expire.
THEOREM RedisEvictsLeastRecent == Spec => EvictsLeastRecent
BY SpecLoneInv, EvictsStep, PTL DEF Spec, EvictsLeastRecent

-----------------------------------------------------------------------------
(* A lone client implements CacheContract *)

ReadBy(c) == IF LookupOf(c) THEN {call[c].key} ELSE {}
LoneKept(c) ==
    [k \in DOMAIN store \cup ReadBy(c) |->
        IF k \in DOMAIN store THEN store[k].content ELSE ContentRead(c)]

LEMMA KeptByLone ==
    ASSUME NEW c
    PROVE  /\ users = {c} => Kept = LoneKept(c)
           /\ users' = {c} => Kept' = LoneKept(c)'
<1>1. ASSUME users = {c} PROVE Kept = LoneKept(c)
    <2>1. ReadBack = ReadBy(c)
        BY <1>1 DEF ReadBack, ReadBy
    <2>2. \A k \in ReadBy(c) : Reader(k) = c
        BY <1>1 DEF ReadBy, Reader
    <2>3. QED
        BY <2>1, <2>2 DEF Kept, LoneKept
<1>2. ASSUME users' = {c} PROVE Kept' = LoneKept(c)'
    <2>1. ReadBack' = ReadBy(c)'
        BY <1>2 DEF ReadBack, ReadBy
    <2>2. \A k \in ReadBy(c)' : Reader(k)' = c
        BY <1>2 DEF ReadBy, Reader
    <2>3. QED
        BY <2>1, <2>2 DEF Kept, LoneKept
<1>3. QED
    BY <1>1, <1>2

\* The requests as records.
LEMMA Requested ==
    ASSUME TypeOK, NEW c \in Clients
    PROVE  LET m == call[c]
           IN  /\ m.op = "get" => m = [op |-> "get", key |-> m.key]
               /\ m.op = "set" => m = [op |-> "set", key |-> m.key, content |-> m.content]
               /\ m.op = "clear" => m = [op |-> "clear"]
               /\ m.op = "info" => m = [op |-> "info"]
<1>1. call[c] \in {Idle} \cup InProgress \cup Answers
    BY DEF TypeOK
<1>2. QED
    BY <1>1 DEF Idle, InProgress, Answers

\* The contract counts with its own instance of FiniteSets.
LEMMA SameCardinality == \A S : Contract!Cardinality(S) = Cardinality(S)
BY DEF Contract!Cardinality, Cardinality

LEMMA ContractInit == Init => (Alone => Contract!Init)
<1> SUFFICES ASSUME Init, Alone PROVE Contract!Init
    OBVIOUS
<1>1. \A c \in Clients : call[c] = Idle /\ Idle.op = "idle"
    BY DEF Init, Idle
<1>2. ReadBack = {}
    BY <1>1 DEF Alone, ReadBack, LookupOf
<1>3. \A c \in Clients : Pending(c) = Idle
    BY <1>1 DEF Pending
<1>4. Kept = [k \in {} |-> Idle]
    BY <1>2 DEF Init, Kept
<1>5. QED
    BY <1>3, <1>4 DEF Init, Contract!Init, Contract!Idle, Idle

\* The commands by which a method only goes on, whatever the contract sees of it.
LEMMA ContractStutter ==
    ASSUME TInv, NEW c \in Clients, users = {c}, StampsCounted, KnownStill(c),
           Read(c) \/ Touch(c) \/ WriteBack(c) \/ Encode(c) \/ Scan(c) \/ Age(c)
                \/ ScanAll(c) \/ ReadHits(c) \/ ReadMisses(c)
    PROVE  /\ Pending(c)' = Pending(c) /\ LoneKept(c)' = LoneKept(c)
           /\ UNCHANGED <<users, hits, misses>>
           /\ \A d \in Clients \ {c} : call'[d] = call[d]
<1> DEFINE m == call[c]
           k == call[c].key
<1>0. TypeOK /\ DOMAIN call = Clients /\ counter \in Nat
    BY DEF TInv, TypeOK
<1>a. \A next : Continue(c, next) => call'[c] = next /\ \A d \in Clients \ {c} : call'[d] = call[d]
    BY <1>0 DEF Continue
<1>b. ASSUME UNCHANGED store, ~LookupOf(c), ~LookupOf(c)' PROVE LoneKept(c)' = LoneKept(c)
    BY <1>b DEF LoneKept, ReadBy
<1>1. CASE Read(c)
    <2>1. m = [op |-> "get", key |-> k] /\ UNCHANGED <<users, redis>> /\ ~LookupOf(c)
        BY <1>0, <1>1, Requested DEF Read, LookupOf
    <2>2. CASE k \notin DOMAIN store
        <3>1. Continue(c, [op |-> "count_miss", key |-> k])
            BY <1>1, <2>2 DEF Read
        <3>2. Pending(c)' = Pending(c) /\ ~LookupOf(c)'
            BY <1>a, <2>1, <3>1 DEF Pending, LookupOf
        <3>3. QED
            BY <1>a, <1>b, <2>1, <3>1, <3>2 DEF redis
    <2>3. CASE k \in DOMAIN store
        <3>1. Continue(c, [op |-> "count_hit", key |-> k, content |-> store[k].content])
            BY <1>1, <2>3 DEF Read, StampsCounted
        <3>2. Pending(c)' = Pending(c)
            BY <1>a, <2>1, <3>1 DEF Pending
        <3>3. ReadBy(c) = {} /\ ReadBy(c)' = {k}
            BY <1>a, <2>1, <3>1 DEF ReadBy, LookupOf
        <3>4. LoneKept(c)' = LoneKept(c)
            BY <2>1, <2>3, <3>3 DEF LoneKept, redis
        <3>5. QED
            BY <1>a, <2>1, <3>1, <3>2, <3>4 DEF redis
    <2>4. QED
        BY <2>2, <2>3
<1>2. CASE Touch(c)
    <2> DEFINE e == [content |-> m.content, last_accessed |-> counter + 1]
    <2>1. /\ m.op = "touch" /\ Continue(c, [op |-> "write_back", key |-> k, entry |-> e])
          /\ UNCHANGED <<users, store, hits, misses>>
        BY <1>2 DEF Touch, Stamp
    <2>2. Pending(c)' = Pending(c) /\ ContentRead(c)' = ContentRead(c) /\ ReadBy(c)' = ReadBy(c)
        BY <1>a, <2>1 DEF Pending, ContentRead, ReadBy, LookupOf
    <2>3. QED
        BY <1>a, <2>1, <2>2 DEF LoneKept
<1>3. CASE WriteBack(c)
    <2>1. /\ m.op = "write_back" /\ Continue(c, [op |-> "hit", content |-> m.entry.content])
          /\ Put(k, m.entry) /\ UNCHANGED <<users, hits, misses>>
        BY <1>3 DEF WriteBack
    <2>2. Pending(c)' = Pending(c)
        BY <1>a, <2>1 DEF Pending, ContentRead
    <2>3. ReadBy(c) = {k} /\ ReadBy(c)' = {} /\ ContentRead(c) = m.entry.content
        BY <1>a, <2>1 DEF ReadBy, LookupOf, ContentRead
    <2>4. k \in DOMAIN store => store[k].content = m.entry.content
        BY <2>1, <2>3 DEF KnownStill, LookupOf
    <2>5. /\ DOMAIN store' = DOMAIN store \cup {k}
          /\ \A j \in DOMAIN store' : store'[j] = IF j = k THEN m.entry ELSE store[j]
        BY <2>1 DEF Put
    <2>6. LoneKept(c)' = LoneKept(c)
        BY <2>3, <2>4, <2>5 DEF LoneKept
    <2>7. QED
        BY <1>a, <2>1, <2>2, <2>6
<1>4. CASE Encode(c)
    <2> DEFINE e == [content |-> m.content, last_accessed |-> counter + 1]
    <2>1. /\ m.op = "set" /\ Continue(c, [op |-> "put", key |-> k, entry |-> e])
          /\ UNCHANGED <<users, store, hits, misses>>
        BY <1>4 DEF Encode, Stamp
    <2>2. m = [op |-> "set", key |-> k, content |-> m.content]
        BY <1>0, <2>1, Requested
    <2>3. Pending(c)' = Pending(c)
        BY <1>a, <2>1, <2>2 DEF Pending
    <2>4. ~LookupOf(c) /\ ~LookupOf(c)'
        BY <1>a, <2>1 DEF LookupOf
    <2>5. QED
        BY <1>a, <1>b, <2>1, <2>3, <2>4
<1>5. CASE Scan(c)
    <2>1. UNCHANGED <<users, store, hits, misses>> /\ m.op = "scan"
        BY <1>5 DEF Scan, redis
    <2>2. PICK next : Continue(c, next) /\ (next = [op |-> "done"] \/ next.op = "age")
        BY <1>5 DEF Scan
    <2>3. Pending(c)' = Pending(c) /\ ~LookupOf(c) /\ ~LookupOf(c)'
        BY <1>a, <2>1, <2>2 DEF Pending, LookupOf
    <2>4. QED
        BY <1>a, <1>b, <2>1, <2>2, <2>3
<1>6. CASE Age(c)
    <2>1. UNCHANGED <<users, store, hits, misses>> /\ m.op = "age"
        BY <1>6 DEF Age, redis
    <2>2. PICK next : Continue(c, next) /\ next.op = "age"
        BY <1>6 DEF Age
    <2>3. Pending(c)' = Pending(c) /\ ~LookupOf(c) /\ ~LookupOf(c)'
        BY <1>a, <2>1, <2>2 DEF Pending, LookupOf
    <2>4. QED
        BY <1>a, <1>b, <2>1, <2>2, <2>3
<1>7. CASE ScanAll(c) \/ ReadHits(c) \/ ReadMisses(c)
    <2>1. UNCHANGED <<users, store, hits, misses>> /\ m.op \in {"clear", "info", "read_misses"}
        BY <1>7 DEF ScanAll, ReadHits, ReadMisses, redis
    <2>2. PICK next :
            /\ Continue(c, next)
            /\ \/ m.op = "clear" /\ next.op = "wipe"
               \/ m.op \in {"info", "read_misses"} /\ next.op \in {"read_misses", "count_entries"}
        BY <1>7 DEF ScanAll, ReadHits, ReadMisses
    <2>3. Pending(c)' = Pending(c) /\ ~LookupOf(c) /\ ~LookupOf(c)'
        BY <1>0, <1>a, <2>1, <2>2, Requested DEF Pending, LookupOf
    <2>4. QED
        BY <1>a, <1>b, <2>1, <2>2, <2>3
<1>8. QED
    BY <1>1, <1>2, <1>3, <1>4, <1>5, <1>6, <1>7

LEMMA ContractClient ==
    ASSUME TInv, NEW c \in Clients, users = {c}, StampsCounted, KnownStill(c),
           Invoke(c) \/ Get(c) \/ Set(c) \/ Clear(c) \/ Info(c) \/ Return(c) \/ Fail(c)
    PROVE  [Contract!Next]_(Contract!vars)
<1> DEFINE m == call[c]
           k == call[c].key
           calls == [d \in Clients |-> Pending(d)]
<1>0. TypeOK /\ DOMAIN call = Clients /\ counter \in Nat
    BY DEF TInv, TypeOK
<1>a. \A next : Continue(c, next) => call'[c] = next /\ \A d \in Clients \ {c} : call'[d] = call[d]
    BY <1>0 DEF Continue
<1>b. ASSUME NEW next, Continue(c, next), NEW p, Pending(c)' = p
      PROVE  calls' = [calls EXCEPT ![c] = p]
    <2>1. \A d \in Clients \ {c} : Pending(d)' = Pending(d)
        BY <1>a, <1>b DEF Pending, ContentRead
    <2>2. QED
        BY <1>b, <2>1
<1>c. /\ Kept = LoneKept(c)
      /\ users' = users => Kept' = LoneKept(c)'
    BY KeptByLone
<1>d. ASSUME ~LookupOf(c), ~LookupOf(c)', users' = users
      PROVE  /\ Kept = [j \in DOMAIN store |-> store[j].content]
             /\ Kept' = [j \in DOMAIN store' |-> store'[j].content]
    BY <1>c, <1>d DEF LoneKept, ReadBy
<1>1. ASSUME Invoke(c) PROVE Contract!Invoke(c)
    <2>1. PICK r \in Requests : Continue(c, r)
        BY <1>1 DEF Invoke
    <2>2. r \in Contract!Requests /\ r.op \in {"get", "set", "clear", "info"}
        BY DEF Requests, Contract!Requests
    <2>3. Pending(c)' = r /\ Pending(c) = Contract!Idle /\ ~LookupOf(c) /\ ~LookupOf(c)'
        BY <1>1, <1>a, <2>1, <2>2 DEF Invoke, Pending, LookupOf, Idle, Contract!Idle
    <2>4. calls' = [calls EXCEPT ![c] = r]
        BY <1>b, <2>1, <2>3
    <2>5. UNCHANGED <<users, store, hits, misses>>
        BY <1>1 DEF Invoke, redis
    <2>6. Kept' = Kept
        BY <1>d, <2>3, <2>5
    <2>7. QED
        BY <2>2, <2>3, <2>4, <2>5, <2>6 DEF Contract!Invoke
<1>2. ASSUME CountMiss(c) PROVE Contract!Lookup(c)
    <2>1. /\ m.op = "count_miss" /\ Continue(c, [op |-> "miss"])
          /\ UNCHANGED <<users, store, hits>> /\ misses' = misses + 1
        BY <1>2 DEF CountMiss
    <2>2. /\ Pending(c)' = [op |-> "miss"] /\ Pending(c) = [op |-> "get", key |-> k]
          /\ ~LookupOf(c) /\ ~LookupOf(c)'
        BY <1>a, <2>1 DEF Pending, LookupOf
    <2>3. calls' = [calls EXCEPT ![c] = [op |-> "miss"]]
        BY <1>b, <2>1, <2>2
    <2>4. k \notin DOMAIN store
        BY <2>1 DEF KnownStill
    <2>5. Kept' = Contract!Keep(DOMAIN Kept \ {k})
        BY <1>d, <2>1, <2>2, <2>4 DEF Contract!Keep
    <2>6. calls[c].op = "get" /\ calls[c].key = k
        BY <2>2
    <2>7. QED
        BY <2>1, <2>3, <2>5, <2>6, Zenon DEF Contract!Lookup
<1>3. ASSUME CountHit(c) PROVE Contract!Lookup(c)
    <2>1. /\ m.op = "count_hit"
          /\ Continue(c, [op |-> "touch", key |-> k, content |-> m.content])
          /\ UNCHANGED <<users, store, misses>> /\ hits' = hits + 1
        BY <1>3 DEF CountHit
    <2>2. /\ Pending(c)' = [op |-> "hit", content |-> m.content]
          /\ Pending(c) = [op |-> "get", key |-> k]
          /\ ReadBy(c) = {k} /\ ReadBy(c)' = {k}
          /\ ContentRead(c) = m.content /\ ContentRead(c)' = m.content
        BY <1>a, <2>1 DEF Pending, LookupOf, ReadBy, ContentRead
    <2>3. k \in DOMAIN store => store[k].content = m.content
        BY <2>1, <2>2 DEF KnownStill, LookupOf
    <2>4. Kept' = Kept /\ k \in DOMAIN Kept /\ Kept[k] = m.content
        BY <1>c, <2>1, <2>2, <2>3 DEF LoneKept
    <2>5. calls' = [calls EXCEPT ![c] = [op |-> "hit", content |-> Kept[k]]]
        BY <1>b, <2>1, <2>2, <2>4
    <2>6. calls[c].op = "get" /\ calls[c].key = k
        BY <2>2
    <2>7. QED
        BY <2>1, <2>4, <2>5, <2>6, Zenon DEF Contract!Lookup
<1>4. ASSUME Write(c) PROVE Contract!Write(c)
    <2>1. /\ m.op = "put" /\ Put(k, m.entry) /\ UNCHANGED <<users, hits, misses>>
          /\ \E next : Continue(c, next) /\ (next = [op |-> "done"] \/ next.op = "scan")
        BY <1>4 DEF Write
    <2>2. /\ Pending(c)' = [op |-> "done"]
          /\ Pending(c) = [op |-> "set", key |-> k, content |-> m.entry.content]
          /\ ~LookupOf(c) /\ ~LookupOf(c)'
        BY <1>a, <2>1 DEF Pending, LookupOf
    <2>3. calls' = [calls EXCEPT ![c] = [op |-> "done"]]
        BY <1>b, <2>1, <2>2
    <2>4. /\ DOMAIN store' = DOMAIN store \cup {k}
          /\ \A j \in DOMAIN store' : store'[j] = IF j = k THEN m.entry ELSE store[j]
        BY <2>1 DEF Put
    <2>5. /\ {} \in SUBSET (DOMAIN Kept \ {k})
          /\ Kept' = [j \in (DOMAIN Kept \cup {k}) \ {} |-> Contract!With(k, m.entry.content)[j]]
        BY <1>d, <2>1, <2>2, <2>4 DEF Contract!With
    <2>6. \E pushedOut \in SUBSET (DOMAIN Kept \ {k}) :
             Kept' = [j \in (DOMAIN Kept \cup {k}) \ pushedOut |->
                        Contract!With(k, m.entry.content)[j]]
        BY <2>5
    <2>7. QED
        BY <2>1, <2>2, <2>3, <2>6 DEF Contract!Write
<1>e. ASSUME UNCHANGED <<users, hits, misses>>, DOMAIN store' \subseteq DOMAIN store,
             \A j \in DOMAIN store' : store'[j] = store[j], ReadBy(c)' = {}
      PROVE  \E left \in SUBSET DOMAIN Kept : Kept' = Contract!Keep(left)
    <2>1. DOMAIN store' \in SUBSET DOMAIN Kept
        BY <1>c, <1>e DEF LoneKept
    <2>2. Kept' = Contract!Keep(DOMAIN store')
        BY <1>c, <1>e DEF LoneKept, Contract!Keep
    <2>3. QED
        BY <2>1, <2>2
<1>5. ASSUME Discard(c) \/ Evict(c) PROVE Contract!Forget
    <2>1. PICK keys : Drop(keys)
        BY <1>5 DEF Discard, Evict
    <2>2. PICK next :
            /\ Continue(c, next)
            /\ \/ m.op = "discard" /\ next = [op |-> "count_miss", key |-> k]
               \/ m.op = "age" /\ next = [op |-> "done"]
        BY <1>5 DEF Discard, Evict
    <2>3. Pending(c)' = Pending(c) /\ ReadBy(c)' = {}
        BY <1>a, <2>2 DEF Pending, LookupOf, ReadBy
    <2>4. calls' = calls
        BY <1>b, <2>2, <2>3
    <2>5. UNCHANGED <<users, hits, misses>>
        BY <1>5 DEF Discard, Evict
    <2>6. \E left \in SUBSET DOMAIN Kept : Kept' = Contract!Keep(left)
        <3>1. /\ DOMAIN store' \subseteq DOMAIN store
              /\ \A j \in DOMAIN store' : store'[j] = store[j]
            BY <2>1 DEF Drop
        <3>2. QED
            BY <1>e, <2>3, <2>5, <3>1 DEF Contract!Keep
    <2>7. QED
        BY <2>4, <2>5, <2>6 DEF Contract!Forget
<1>6. ASSUME Wipe(c) PROVE Contract!Clear(c)
    <2>1. /\ m.op = "wipe" /\ Drop(m.keys) /\ Continue(c, [op |-> "done"])
          /\ users' = users /\ hits' = 0 /\ misses' = 0
        BY <1>6 DEF Wipe
    <2>2. /\ Pending(c)' = [op |-> "done"] /\ Pending(c) = [op |-> "clear"]
          /\ ~LookupOf(c) /\ ~LookupOf(c)'
        BY <1>a, <2>1 DEF Pending, LookupOf
    <2>3. calls' = [calls EXCEPT ![c] = [op |-> "done"]]
        BY <1>b, <2>1, <2>2
    <2>4. DOMAIN store' = {}
        BY <2>1 DEF Drop, KnownStill
    <2>5. Kept' = Contract!Keep({})
        BY <1>d, <2>1, <2>2, <2>4 DEF Contract!Keep
    <2>6. QED
        BY <2>1, <2>2, <2>3, <2>5 DEF Contract!Clear
<1>7. ASSUME CountEntries(c) PROVE Contract!Info(c)
    <2> DEFINE n == Cardinality(DOMAIN store)
               a == [op |-> "report", hits |-> hits, misses |-> misses, currsize |-> n]
    <2>1. /\ m.op = "count_entries" /\ UNCHANGED <<users, store, hits, misses>>
          /\ Continue(c, [op |-> "report", hits |-> m.hits, misses |-> m.misses, currsize |-> n])
        BY <1>7 DEF CountEntries, redis
    <2>2. Continue(c, a)
        BY <2>1 DEF KnownStill
    <2>3. Pending(c)' = a /\ Pending(c) = [op |-> "info"] /\ ~LookupOf(c) /\ ~LookupOf(c)'
        BY <1>a, <2>1, <2>2 DEF Pending, LookupOf
    <2>4. Kept' = Kept /\ DOMAIN Kept = DOMAIN store /\ Kept = Contract!Keep(DOMAIN Kept)
        BY <1>d, <2>1, <2>3 DEF Contract!Keep
    <2>5. Contract!Cardinality(DOMAIN Kept) = n
        <3>1. Contract!Cardinality(DOMAIN Kept) = Cardinality(DOMAIN Kept)
            BY SameCardinality, Zenon
        <3>2. QED
            BY <2>4, <3>1
    <2> HIDE DEF n
    <2>6. calls' = [calls EXCEPT ![c] = a]
        BY <1>b, <2>2, <2>3
    <2>7. \E left \in SUBSET DOMAIN Kept :
            /\ Kept' = Contract!Keep(left)
            /\ calls' = [calls EXCEPT ![c] =
                    [op |-> "report", hits |-> hits, misses |-> misses,
                     currsize |-> Contract!Cardinality(left)]]
        <3> HIDE DEF calls
        <3>1. DOMAIN Kept \in SUBSET DOMAIN Kept /\ Kept' = Contract!Keep(DOMAIN Kept)
            BY <2>4
        <3>2. QED
            BY <2>5, <2>6, <3>1
    <2>8. calls[c].op = "info"
        BY <2>3
    <2>9. QED
        BY <2>1, <2>7, <2>8, Zenon DEF Contract!Info
<1>8. ASSUME Return(c) PROVE Contract!Return(c)
    <2>1. /\ m.op \in {"hit", "miss", "done", "report"} /\ Continue(c, Idle)
          /\ UNCHANGED <<users, store, hits, misses>>
        BY <1>8 DEF Return, Answered, redis
    <2>2. Pending(c)' = Idle /\ Pending(c) = m /\ ~LookupOf(c) /\ ~LookupOf(c)'
        BY <1>a, <2>1 DEF Pending, LookupOf, Idle
    <2>3. calls' = [calls EXCEPT ![c] = Contract!Idle]
        BY <1>b, <2>1, <2>2 DEF Idle, Contract!Idle
    <2>4. Kept' = Kept
        BY <1>d, <2>1, <2>2
    <2>5. QED
        BY <2>1, <2>2, <2>3, <2>4 DEF Contract!Return
<1>9. ASSUME Fail(c) PROVE Contract!Abandon(c)
    <2>1. /\ m # Idle /\ Continue(c, Idle) /\ UNCHANGED <<users, store, hits, misses>>
        BY <1>9 DEF Fail, redis
    <2>2. m.op # "idle"
        BY <1>0, <2>1 DEF TypeOK, Idle, InProgress, Answers
    <2>3. Pending(c)' = Idle /\ Pending(c) # Contract!Idle /\ ReadBy(c)' = {}
        BY <1>a, <2>1, <2>2 DEF Pending, LookupOf, ReadBy, Idle, Contract!Idle
    <2>4. calls' = [calls EXCEPT ![c] = Contract!Idle]
        BY <1>b, <2>1, <2>3 DEF Idle, Contract!Idle
    <2>5. \E left \in SUBSET DOMAIN Kept : Kept' = Contract!Keep(left)
        BY <1>e, <2>1, <2>3 DEF Contract!Keep
    <2>6. QED
        BY <2>1, <2>3, <2>4, <2>5 DEF Contract!Abandon
<1>10. ASSUME Read(c) \/ Touch(c) \/ WriteBack(c) \/ Encode(c) \/ Scan(c) \/ Age(c)
                \/ ScanAll(c) \/ ReadHits(c) \/ ReadMisses(c)
       PROVE  UNCHANGED Contract!vars
    <2>1. /\ Pending(c)' = Pending(c) /\ LoneKept(c)' = LoneKept(c)
          /\ UNCHANGED <<users, hits, misses>>
          /\ \A d \in Clients \ {c} : call'[d] = call[d]
        BY <1>10, ContractStutter
    <2>2. Kept' = Kept
        BY <1>c, <2>1
    <2>3. \A d \in Clients : Pending(d)' = Pending(d)
        BY <2>1 DEF Pending, ContentRead
    <2>4. QED
        BY <2>1, <2>2, <2>3 DEF Contract!vars
<1>11. QED
    BY <1>1, <1>2, <1>3, <1>4, <1>5, <1>6, <1>7, <1>8, <1>9, <1>10
    DEF Get, Set, Clear, Info, Contract!Next

LEMMA ContractNext ==
    TInv /\ LoneInv /\ [Next]_vars => (Alone => [Contract!Next]_(Contract!vars))
<1> SUFFICES ASSUME TInv, LoneInv, [Next]_vars, NEW c \in Clients, users = {c}
             PROVE  [Contract!Next]_(Contract!vars)
    BY DEF Alone
<1>0. StampsCounted /\ KnownStill(c) /\ OthersIdle
    BY DEF LoneInv
<1>1. CASE UNCHANGED vars
    <2>1. UNCHANGED <<users, store, hits, misses, call>>
        BY <1>1 DEF vars, redis
    <2>2. Kept' = Kept
        <3>1. Kept = LoneKept(c) /\ Kept' = LoneKept(c)'
            BY <2>1, KeptByLone
        <3>2. QED
            BY <2>1, <3>1 DEF LoneKept, ReadBy, LookupOf, ContentRead
    <2>3. \A d \in Clients : Pending(d)' = Pending(d)
        BY <2>1 DEF Pending, ContentRead
    <2>4. QED
        BY <2>1, <2>2, <2>3 DEF Contract!vars
<1>2. ASSUME NEW d \in Clients,
             Invoke(d) \/ Get(d) \/ Set(d) \/ Clear(d) \/ Info(d) \/ Return(d) \/ Fail(d)
      PROVE  [Contract!Next]_(Contract!vars)
    <2>1. d = c
        BY <1>0, <1>2, ClientIsUser
    <2>2. QED
        BY <1>0, <1>2, <2>1, ContractClient
<1>3. ASSUME NEW k \in Keys, Expire(k) PROVE Contract!Forget
    <2>1. /\ DOMAIN store' \subseteq DOMAIN store
          /\ \A j \in DOMAIN store' : store'[j] = store[j]
          /\ UNCHANGED <<users, call, hits, misses>>
        BY <1>3 DEF Expire, Drop
    <2>2. /\ ReadBy(c)' = ReadBy(c) /\ ContentRead(c)' = ContentRead(c)
          /\ \A j \in ReadBy(c) \cap DOMAIN store : store[j].content = ContentRead(c)
        BY <1>0, <2>1 DEF ReadBy, LookupOf, ContentRead, KnownStill
    <2> DEFINE left == DOMAIN store' \cup ReadBy(c)
    <2>3. left \in SUBSET DOMAIN Kept /\ Kept' = Contract!Keep(left)
        <3>1. Kept = LoneKept(c) /\ Kept' = LoneKept(c)'
            BY <2>1, KeptByLone
        <3>2. left \in SUBSET DOMAIN Kept
            BY <2>1, <3>1 DEF LoneKept
        <3>3. Kept' = Contract!Keep(left)
            BY <2>1, <2>2, <3>1 DEF LoneKept, Contract!Keep
        <3>4. QED
            BY <3>2, <3>3
    <2>4. \A d \in Clients : Pending(d)' = Pending(d)
        BY <2>1 DEF Pending, ContentRead
    <2>5. QED
        BY <2>1, <2>3, <2>4 DEF Contract!Forget
<1>4. ASSUME NEW k \in Keys PROVE ~ForeignWrite(k)
    BY RedisAssumption DEF ForeignWrite
<1>5. QED
    BY <1>1, <1>2, <1>3, <1>4 DEF Next, Contract!Next

\* A lone client has the backend of the contract: the sequence of commands of each
\* method, with expiry and failures between them, amounts to one atomic operation.
THEOREM RedisImplementsContract == Spec => ImplementsContract
<1>1. Spec => (Alone => Contract!Init)
    BY ContractInit DEF Spec
<1>2. QED
    BY <1>1, SpecLoneInv, ContractNext, PTL DEF Spec, ImplementsContract
=============================================================================
