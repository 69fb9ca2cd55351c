---------------------- MODULE MemoryCacheBackendProofs ----------------------
(***************************************************************************)
(* MemoryCacheBackend for every set of threads and keys, every ttl and     *)
(* every maxsize: it keeps its bounds and its deadlines, evicts in the     *)
(* order of last use, and implements the contract of a cache backend.      *)
(*                                                                         *)
(* All of it rests on one fact about the store: older is a strict total    *)
(* order of the held keys, and the order of their last uses.               *)
(***************************************************************************)
EXTENDS MemoryCacheBackend, FiniteSetTheorems, TLAPS

-----------------------------------------------------------------------------
(* The order of the entries *)

IsOrder(S, R) ==
    /\ R \subseteq S \X S
    /\ \A j \in S : <<j, j>> \notin R
    /\ \A j, k \in S : j # k => <<j, k>> \in R \/ <<k, j>> \in R
    /\ \A i, j, k \in S : <<i, j>> \in R /\ <<j, k>> \in R => <<i, k>> \in R

LEMMA OrderKept ==
    ASSUME NEW S, NEW R, IsOrder(S, R), NEW T, T \subseteq S
    PROVE  IsOrder(T, R \cap (T \X T))
BY DEF IsOrder

\* move_to_end puts the key behind all others and leaves their order alone.
LEMMA OrderMoved ==
    ASSUME IsOrder(Held, older), NEW k
    PROVE  /\ IsOrder(Held \cup {k}, MovedToEnd(k, Held \cup {k}))
           /\ \A j : <<k, j>> \notin MovedToEnd(k, Held \cup {k})
<1> DEFINE S == Held \cup {k}
           R == MovedToEnd(k, S)
<1>1. \A i, j : <<i, j>> \in R <=>
            \/ <<i, j>> \in older /\ i # k
            \/ i \in S \ {k} /\ j = k
    BY DEF MovedToEnd, IsOrder
<1>2. R \subseteq S \X S
    BY DEF MovedToEnd, IsOrder
<1>3. \A i, j : <<i, j>> \in older => i \in Held /\ j \in Held
    BY DEF IsOrder
<1> HIDE DEF R
<1>4. \A j : <<j, j>> \notin older
    BY <1>3 DEF IsOrder
<1>5. \A j \in S : <<j, j>> \notin R /\ <<k, j>> \notin R
    <2> TAKE j \in S
    <2>1. <<j, j>> \notin R
        BY <1>1, <1>4
    <2>2. <<k, j>> \in R => k \in S \ {k} \/ k # k
        BY <1>1
    <2>3. QED
        BY <2>1, <2>2
<1>6. \A i, j \in S : i # j => <<i, j>> \in R \/ <<j, i>> \in R
    BY <1>1 DEF IsOrder
<1>7. \A h, i, j \in S : <<h, i>> \in R /\ <<i, j>> \in R => <<h, j>> \in R
    <2> SUFFICES ASSUME NEW h \in S, NEW i \in S, NEW j \in S,
                        <<h, i>> \in R, <<i, j>> \in R
                 PROVE  <<h, j>> \in R
        OBVIOUS
    <2>1. i # k /\ h # k /\ <<h, i>> \in older
        BY <1>1, <1>5
    <2>2. CASE j = k
        BY <1>1, <2>1, <2>2
    <2>3. CASE j # k
        BY <1>1, <1>3, <2>1, <2>3 DEF IsOrder
    <2>4. QED
        BY <2>2, <2>3
<1>8. IsOrder(S, R)
    BY <1>2, <1>5, <1>6, <1>7 DEF IsOrder
<1>9. \A j : <<k, j>> \notin R
    BY <1>2, <1>5
<1>10. QED
    BY <1>8, <1>9 DEF R

\* Part of a finite order has a first element.
LEMMA FirstExists ==
    ASSUME NEW S, NEW R, IsOrder(S, R), IsFiniteSet(S), S # {}
    PROVE  \E m \in S : \A j \in S \ {m} : <<m, j>> \in R
<1> DEFINE Before(k) == {j \in S : <<j, k>> \in R}
           Sizes == {Cardinality(Before(k)) : k \in S}
<1>1. \A k \in S : IsFiniteSet(Before(k)) /\ Cardinality(Before(k)) \in Nat
    <2> TAKE k \in S
    <2>1. Before(k) \subseteq S
        OBVIOUS
    <2>2. QED
        BY <2>1, FS_Subset, FS_CardinalityType
<1>2. PICK m \in S : \A k \in S : Cardinality(Before(m)) <= Cardinality(Before(k))
    <2>1. Sizes \subseteq Nat /\ Sizes # {}
        BY <1>1
    <2>2. \E least \in Sizes : \A n \in Sizes : least <= n
        <3> HIDE DEF Sizes
        <3>1. PICK least \in Sizes : \A n \in Sizes : <<n, least>> \notin OpToRel(<, Nat)
            BY <2>1, NatLessThanWellFounded, WFMin, Zenon
        <3>2. \A n \in Sizes : ~(n < least)
            BY <2>1, <3>1, Zenon DEF OpToRel
        <3>3. QED
            BY <2>1, <3>2
    <2>3. QED
        BY <2>2
<1>3. ASSUME NEW j \in S, <<j, m>> \in R PROVE FALSE
    <2>1. Before(j) \subseteq Before(m) /\ j \in Before(m) /\ j \notin Before(j)
        BY <1>3 DEF IsOrder
    <2>2. Cardinality(Before(j)) < Cardinality(Before(m))
        <3> HIDE DEF Before
        <3>1. Cardinality(Before(j)) <= Cardinality(Before(m))
            BY <1>1, <2>1, FS_Subset
        <3>2. Cardinality(Before(j)) # Cardinality(Before(m))
            BY <1>1, <2>1, FS_Subset
        <3>3. QED
            BY <1>1, <3>1, <3>2
    <2> HIDE DEF Before
    <2>3. QED
        BY <1>1, <1>2, <2>2
<1>4. QED
    BY <1>3 DEF IsOrder

-----------------------------------------------------------------------------
(* What _evict_if_needed leaves *)

LEMMA NewerFinite ==
    ASSUME NEW S, IsFiniteSet(S), NEW R, NEW k
    PROVE  IsFiniteSet(Newer(k, S, R)) /\ Cardinality(Newer(k, S, R)) \in Nat
<1>1. Newer(k, S, R) \subseteq S
    BY DEF Newer
<1>2. QED
    BY <1>1, FS_Subset, FS_CardinalityType

LEMMA LeftPart ==
    ASSUME NEW S, NEW R PROVE Left(S, R) \subseteq S
BY DEF Left

\* At most maxsize entries: all but the first of them are newer than that one.
LEMMA LeftBounded ==
    ASSUME NEW S, NEW R, IsOrder(S, R), IsFiniteSet(S), MaxSize # None
    PROVE  Cardinality(Left(S, R)) <= MaxSize
<1> DEFINE L == Left(S, R)
<1>1. MaxSize \in Nat \ {0}
    BY StoreAssumption DEF ValidStore
<1>2. L \subseteq S /\ IsFiniteSet(L)
    BY LeftPart, FS_Subset
<1>3. CASE L = {}
    BY <1>1, <1>3, FS_EmptySet
<1>4. CASE L # {}
    <2>1. PICK m \in L : \A j \in L \ {m} : <<m, j>> \in R
        <3>1. IsOrder(L, R \cap (L \X L))
            BY <1>2, OrderKept
        <3> HIDE DEF L
        <3>2. QED
            BY <1>2, <1>4, <3>1, FirstExists
    <2>2. L \ {m} \subseteq Newer(m, S, R)
        <3> HIDE DEF L
        <3> QED
            BY <1>2, <2>1 DEF Newer
    <2>3. Cardinality(L \ {m}) <= Cardinality(Newer(m, S, R))
        BY <2>2, NewerFinite, FS_Subset
    <2>4. Cardinality(Newer(m, S, R)) < MaxSize
        BY <2>1 DEF Left
    <2>5. Cardinality(L \ {m}) = Cardinality(L) - 1 /\ Cardinality(L) \in Nat
        BY <1>2, <2>1, FS_RemoveElement, FS_CardinalityType
    <2>6. Cardinality(Newer(m, S, R)) \in Nat
        BY NewerFinite
    <2> HIDE DEF L
    <2>7. Cardinality(L) <= MaxSize
        BY <1>1, <2>3, <2>4, <2>5, <2>6
    <2>8. QED
        BY <2>7 DEF L
<1>5. QED
    BY <1>3, <1>4

\* What goes is older than all that stays.
LEMMA LeftRecent ==
    ASSUME NEW S, NEW R, IsOrder(S, R), IsFiniteSet(S),
           NEW gone \in S \ Left(S, R), NEW stays \in Left(S, R)
    PROVE  <<gone, stays>> \in R
<1>1. stays \in S /\ gone # stays /\ MaxSize # None
    BY DEF Left
<1>2. MaxSize \in Nat
    BY <1>1, StoreAssumption DEF ValidStore
<1>3. SUFFICES ASSUME <<stays, gone>> \in R PROVE FALSE
    BY <1>1 DEF IsOrder
<1>4. Newer(gone, S, R) \subseteq Newer(stays, S, R)
    BY <1>1, <1>3 DEF Newer, IsOrder
<1>5. Cardinality(Newer(gone, S, R)) <= Cardinality(Newer(stays, S, R))
    BY <1>4, NewerFinite, FS_Subset
<1>6. Cardinality(Newer(stays, S, R)) < MaxSize
    BY <1>1 DEF Left
<1>7. ~(Cardinality(Newer(gone, S, R)) < MaxSize)
    BY <1>1 DEF Left
<1>8. QED
    BY <1>2, <1>5, <1>6, <1>7, NewerFinite

\* A write is not pushed out by itself.
LEMMA LastLeft ==
    ASSUME NEW S, NEW R, NEW k \in S, \A j : <<k, j>> \notin R
    PROVE  k \in Left(S, R)
<1>1. Cardinality(Newer(k, S, R)) = 0
    <2>1. Newer(k, S, R) = {}
        BY DEF Newer
    <2>2. QED
        BY <2>1, FS_EmptySet
<1>2. MaxSize # None => 0 < MaxSize
    BY StoreAssumption DEF ValidStore, None
<1>3. QED
    BY <1>1, <1>2 DEF Left

-----------------------------------------------------------------------------
(* What every operation of the store preserves *)

StoreInv ==
    /\ Held \subseteq Keys /\ cache \in [Held -> EntryType]
    /\ \A k \in Held : cache[k].key = k
    /\ MaxSize # None => Cardinality(Held) <= MaxSize
    /\ IsFiniteSet(Held)
    /\ IsOrder(Held, older)

LEMMA ExpiresAtType == now \in Nat => ExpiresAt \in {None} \cup Nat
BY StoreAssumption DEF ExpiresAt, ValidStore

LEMMA KeepInv ==
    ASSUME StoreInv, NEW T, T \subseteq Held, Keep(T)
    PROVE  /\ StoreInv' /\ Held' = T
           /\ \A k \in T : cache'[k] = cache[k]
           /\ older' \subseteq older
<1>1. Held' = T /\ \A k \in T : cache'[k] = cache[k]
    BY DEF Keep, Held
<1>2. cache' \in [Held' -> EntryType]
    BY <1>1 DEF Keep, StoreInv
<1>3. IsOrder(Held', older') /\ older' \subseteq older
    BY <1>1, OrderKept DEF Keep, StoreInv
<1>4. IsFiniteSet(T) /\ Cardinality(T) <= Cardinality(Held)
      /\ Cardinality(T) \in Nat /\ Cardinality(Held) \in Nat
    BY FS_Subset, FS_CardinalityType DEF StoreInv
<1>5. MaxSize # None => Cardinality(Held') <= MaxSize
    BY <1>1, <1>4, StoreAssumption DEF StoreInv, ValidStore
<1>6. Held' \subseteq Keys /\ IsFiniteSet(Held') /\ \A k \in Held' : cache'[k].key = k
    BY <1>1, <1>4 DEF StoreInv
<1>7. QED
    BY <1>1, <1>2, <1>3, <1>5, <1>6 DEF StoreInv

LEMMA HitInv ==
    ASSUME StoreInv, now \in Nat, NEW k, GetHit(k)
    PROVE  /\ StoreInv' /\ Held' = Held /\ k \in Held
           /\ \A j \in Held : Content(cache'[j]) = Content(cache[j])
           /\ \A j \in Held : cache'[j].expires_at \in {cache[j].expires_at, ExpiresAt}
           /\ older' = MovedToEnd(k, Held)
<1> USE DEF GetHit, Live
<1>1. k \in Held /\ cache \in [Held -> EntryType]
    BY DEF StoreInv
<1>2. Held' = Held
    BY <1>1 DEF Held
<1>3. \A j \in Held :
            /\ cache'[j] \in EntryType
            /\ cache'[j].key = cache[j].key
            /\ cache'[j].payload = cache[j].payload
            /\ cache'[j].is_exception = cache[j].is_exception
            /\ cache'[j].expires_at \in {cache[j].expires_at, ExpiresAt}
    BY <1>1, ExpiresAtType DEF EntryType, Held
<1>4. cache' \in [Held' -> EntryType]
    <2>1. cache' = [j \in Held' |-> cache'[j]]
        BY <1>1, <1>2 DEF Held
    <2>2. QED
        BY <1>2, <1>3, <2>1
<1>5. IsOrder(Held', older')
    <2>1. Held \cup {k} = Held
        BY <1>1
    <2>2. QED
        BY <1>2, <2>1, OrderMoved DEF StoreInv
<1>6. QED
    BY <1>1, <1>2, <1>3, <1>4, <1>5 DEF StoreInv, Content

LEMMA SetInv ==
    ASSUME StoreInv, NEW e \in EntryType, SetEntry(e),
           NEW S, S = Held \cup {e.key}, NEW R, R = MovedToEnd(e.key, S)
    PROVE  /\ StoreInv' /\ Held' = Left(S, R) /\ e.key \in Held'
           /\ \A k \in Held' : cache'[k] = IF k = e.key THEN e ELSE cache[k]
           /\ older' \subseteq R
           /\ IsOrder(S, R) /\ IsFiniteSet(S)
<1> DEFINE L == Left(S, R)
<1>1. /\ cache' = [k \in L |-> IF k = e.key THEN e ELSE cache[k]]
      /\ older' = R \cap (L \X L)
    BY DEF SetEntry, Write
<1>2. Held' = L /\ L \subseteq S
    BY <1>1, LeftPart DEF Held
<1>3. IsOrder(S, R) /\ \A j : <<e.key, j>> \notin R
    BY OrderMoved DEF StoreInv
<1>4. IsFiniteSet(S)
    BY FS_AddElement DEF StoreInv
<1>5. IsOrder(Held', older')
    <2> HIDE DEF L
    <2> QED
        BY <1>1, <1>2, <1>3, OrderKept
<1>6. IsFiniteSet(Held')
    <2> HIDE DEF L
    <2> QED
        BY <1>2, <1>4, FS_Subset
<1>7. MaxSize # None => Cardinality(Held') <= MaxSize
    BY <1>2, <1>3, <1>4, LeftBounded
<1>8. e.key \in Held'
    BY <1>2, <1>3, LastLeft
<1> HIDE DEF L
<1>9. \A k \in Held' : cache'[k] = IF k = e.key THEN e ELSE cache[k]
    BY <1>1, <1>2
<1>10. \A k \in Held' : k # e.key => k \in Held
    BY <1>2
<1>11. e.key \in Keys
    BY DEF EntryType
<1>12. Held' \subseteq Keys /\ \A k \in Held' : cache'[k] \in EntryType /\ cache'[k].key = k
    BY <1>9, <1>10, <1>11 DEF StoreInv
<1>13. cache' \in [Held' -> EntryType]
    <2>1. cache' = [k \in Held' |-> cache'[k]]
        BY <1>1, <1>2
    <2>2. QED
        BY <1>12, <2>1
<1>14. QED
    BY <1>1, <1>2, <1>3, <1>4, <1>5, <1>6, <1>7, <1>8, <1>9, <1>12, <1>13 DEF StoreInv, L

-----------------------------------------------------------------------------
(* The invariant *)

\* A write that is on its way holds a deadline that was right when it was stamped.
StampedTimely == \A c \in Clients : call[c].op = "store" => Timely(call[c].entry)

IInv ==
    /\ TypeOK /\ StoreInv
    /\ older \subseteq recency
    /\ NeverOverstays /\ StampedTimely

LEMMA InitInv == Init => IInv
<1> SUFFICES ASSUME Init PROVE IInv
    OBVIOUS
<1> USE DEF Init, StoreInit
<1>1. Held = {}
    BY DEF Held
<1>2. cache \in [Held -> EntryType] /\ IsOrder(Held, older)
    BY <1>1 DEF IsOrder
<1>3. IsFiniteSet(Held) /\ Cardinality(Held) = 0
    BY <1>1, FS_EmptySet
<1>4. call \in [Clients -> CallStates]
    BY DEF CallStates, Idle
<1>5. QED
    BY <1>1, <1>2, <1>3, <1>4, StoreAssumption, MaxCallsAssumption
    DEF IInv, TypeOK, StoreInv, NeverOverstays, StampedTimely, Idle, ValidStore

\* What the operations of a call say of the other calls: nothing.
LEMMA AnswerType ==
    ASSUME call \in [Clients -> CallStates], NEW c \in Clients, NEW a \in CallStates,
           Answer(c, a)
    PROVE  /\ call' \in [Clients -> CallStates]
           /\ call'[c] = a
           /\ \A d \in Clients \ {c} : call'[d] = call[d]
BY DEF Answer

\* The fields of a call in each of its states.
LEMMA CallFields ==
    ASSUME call \in [Clients -> CallStates], NEW c \in Clients
    PROVE  /\ call[c].op \in {"get", "set"} => call[c].key \in Keys
           /\ call[c].op = "set" => call[c].content \in Contents
           /\ call[c].op = "store" => call[c].entry \in EntryType
<1>1. call[c] \in CallStates
    OBVIOUS
<1>2. QED
    BY <1>1 DEF CallStates, Requests

LEMMA StampedKept ==
    ASSUME StampedTimely, call \in [Clients -> CallStates], NEW c \in Clients,
           NEW a \in CallStates, Answer(c, a), a.op # "store", now' = now
    PROVE  StampedTimely'
BY AnswerType DEF StampedTimely, Timely

LEMMA NextInv == IInv /\ [Next]_vars => IInv'
<1> SUFFICES ASSUME IInv, [Next]_vars PROVE IInv'
    OBVIOUS
<1>0. /\ TypeOK /\ StoreInv /\ older \subseteq recency /\ NeverOverstays /\ StampedTimely
      /\ call \in [Clients -> CallStates] /\ now \in 0..MaxTime /\ now \in Nat
    BY StoreAssumption DEF IInv, TypeOK
\* What is left to show once the store, the calls and the order of uses are known.
<1>a. ASSUME StoreInv', call' \in [Clients -> CallStates], now' \in 0..MaxTime,
             hits' \in Nat, misses' \in Nat, invoked' \in 0..MaxCalls,
             recency' \subseteq Keys \X Keys, older' \subseteq recency',
             NeverOverstays', StampedTimely'
      PROVE  IInv'
    BY <1>a DEF IInv, TypeOK, StoreInv, IsOrder
<1>b. ASSUME NEW T, T \subseteq Held, Keep(T), UNCHANGED now
      PROVE  StoreInv' /\ NeverOverstays' /\ older' \subseteq recency
    BY <1>0, <1>b, KeepInv DEF NeverOverstays, Timely
<1>c. ASSUME UNCHANGED storeVars PROVE StoreInv' /\ Held' = Held
    BY <1>0, <1>c DEF StoreInv, storeVars, Held, IsOrder
<1>1. ASSUME NEW c \in Clients, Invoke(c) PROVE IInv'
    <2>1. PICK r \in Requests : Answer(c, r)
        BY <1>1 DEF Invoke
    <2>2. r \in CallStates /\ r.op # "store"
        BY DEF Requests, CallStates
    <2>3. call' \in [Clients -> CallStates] /\ StampedTimely'
        BY <1>0, <1>1, <2>1, <2>2, AnswerType, StampedKept DEF Invoke
    <2>4. QED
        BY <1>0, <1>1, <1>a, <1>c, <2>3, MaxCallsAssumption
        DEF Invoke, storeVars, TypeOK, NeverOverstays, Timely
<1>2. ASSUME NEW c \in Clients, Hit(c) PROVE IInv'
    <2> DEFINE k == call[c].key
    <2>1. k \in Keys /\ GetHit(k) /\ UNCHANGED <<now, invoked>> /\ Used(k)
        BY <1>0, <1>2, CallFields DEF Hit
    <2>2. /\ StoreInv' /\ Held' = Held /\ k \in Held
          /\ \A j \in Held : cache'[j].expires_at \in {cache[j].expires_at, ExpiresAt}
          /\ older' = MovedToEnd(k, Held)
        BY <1>0, <2>1, HitInv
    <2>3. [op |-> "hit", content |-> Content(cache[k])] \in CallStates
        <3>1. cache[k] \in EntryType
            BY <1>0, <2>2 DEF StoreInv
        <3>2. Content(cache[k]) \in Contents
            BY <3>1 DEF Content, Contents, EntryType
        <3>3. QED
            BY <3>2 DEF CallStates
    <2>4. call' \in [Clients -> CallStates] /\ StampedTimely'
        BY <1>0, <1>2, <2>1, <2>3, AnswerType, StampedKept DEF Hit
    <2>5. NeverOverstays'
        BY <1>0, <2>1, <2>2, StoreAssumption DEF NeverOverstays, Timely, ExpiresAt, ValidStore
    <2>6. older' \subseteq recency' /\ recency' \subseteq Keys \X Keys
        BY <1>0, <2>1, <2>2 DEF MovedToEnd, Used, StoreInv, TypeOK
    <2>7. QED
        BY <1>0, <1>a, <2>1, <2>2, <2>4, <2>5, <2>6 DEF GetHit, TypeOK
<1>3. ASSUME NEW c \in Clients, Miss(c) PROVE IInv'
    <2>1. Keep(Held \ {call[c].key})
        BY <1>3 DEF Miss, GetMiss
    <2>2. call' \in [Clients -> CallStates] /\ StampedTimely'
        BY <1>0, <1>3, AnswerType, StampedKept DEF Miss, CallStates
    <2>3. QED
        BY <1>0, <1>3, <1>a, <1>b, <2>1, <2>2 DEF Miss, GetMiss, TypeOK
<1>4. ASSUME NEW c \in Clients, Stamp(c) PROVE IInv'
    <2> DEFINE e == [key |-> call[c].key,
                     payload |-> call[c].content.payload,
                     is_exception |-> call[c].content.is_exception,
                     expires_at |-> ExpiresAt]
    <2>1. e \in EntryType /\ Timely(e)
        BY <1>0, <1>4, CallFields, ExpiresAtType, StoreAssumption
        DEF Stamp, Contents, EntryType, Timely, ExpiresAt, ValidStore
    <2>2. [op |-> "store", entry |-> e] \in CallStates
        BY <2>1 DEF CallStates
    <2>3. call' \in [Clients -> CallStates] /\ call'[c] = [op |-> "store", entry |-> e]
          /\ \A d \in Clients \ {c} : call'[d] = call[d]
        BY <1>0, <1>4, <2>2, AnswerType DEF Stamp
    <2>4. StampedTimely'
        BY <1>0, <1>4, <2>1, <2>3 DEF StampedTimely, Timely, Stamp
    <2>5. QED
        BY <1>0, <1>4, <1>a, <1>c, <2>3, <2>4
        DEF Stamp, storeVars, TypeOK, NeverOverstays, Timely
<1>5. ASSUME NEW c \in Clients, Store(c) PROVE IInv'
    <2> DEFINE e == call[c].entry
               S == Held \cup {e.key}
               R == MovedToEnd(e.key, S)
    <2>1. e \in EntryType /\ SetEntry(e) /\ Used(e.key) /\ UNCHANGED <<now, invoked>> /\ Timely(e)
        BY <1>0, <1>5, CallFields DEF Store, StampedTimely
    <2>2. /\ StoreInv' /\ e.key \in Held'
          /\ \A k \in Held' : cache'[k] = IF k = e.key THEN e ELSE cache[k]
          /\ Held' \subseteq S /\ older' \subseteq R
        <3> HIDE DEF S, R
        <3> QED
            BY <1>0, <2>1, SetInv, LeftPart DEF S, R
    <2>3. call' \in [Clients -> CallStates] /\ StampedTimely'
        BY <1>0, <1>5, <2>1, AnswerType, StampedKept DEF Store, CallStates
    <2>4. NeverOverstays'
        BY <1>0, <2>1, <2>2 DEF NeverOverstays, Timely
    <2>5. older' \subseteq recency' /\ recency' \subseteq Keys \X Keys
        BY <1>0, <2>1, <2>2 DEF MovedToEnd, Used, StoreInv, TypeOK, EntryType
    <2>6. QED
        BY <1>0, <1>a, <2>1, <2>2, <2>3, <2>4, <2>5 DEF SetEntry, Write, TypeOK
<1>6. ASSUME NEW c \in Clients, Clear(c) PROVE IInv'
    <2>1. call' \in [Clients -> CallStates] /\ StampedTimely'
        BY <1>0, <1>6, AnswerType, StampedKept DEF Clear, CallStates
    <2>2. QED
        BY <1>0, <1>6, <1>a, <1>b, <2>1 DEF Clear, ClearStore, TypeOK
<1>7. ASSUME NEW c \in Clients, Info(c) PROVE IInv'
    <2>1. Keep({k \in Held : ~IsExpired(cache[k])})
        BY <1>7 DEF Info, Prune
    <2>2. StoreInv' /\ NeverOverstays' /\ older' \subseteq recency
        BY <1>7, <1>b, <2>1 DEF Info
    <2>3. Cardinality(Held') \in Nat
        BY <2>2, FS_CardinalityType DEF StoreInv
    <2>4. call' \in [Clients -> CallStates] /\ StampedTimely'
        BY <1>0, <1>7, <2>3, AnswerType, StampedKept DEF Info, CallStates, TypeOK
    <2>5. QED
        BY <1>0, <1>7, <1>a, <2>2, <2>4 DEF Info, Prune, TypeOK
<1>8. ASSUME NEW c \in Clients, Return(c) PROVE IInv'
    <2>1. call' \in [Clients -> CallStates] /\ StampedTimely'
        BY <1>0, <1>8, AnswerType, StampedKept DEF Return, CallStates, Idle
    <2>2. QED
        BY <1>0, <1>8, <1>a, <1>c, <2>1 DEF Return, storeVars, TypeOK, NeverOverstays, Timely
<1>9. ASSUME Tick PROVE IInv'
    <2>1. now' \in 0..MaxTime /\ now <= now'
        BY <1>0, <1>9, StoreAssumption DEF Tick, Advance
    <2>2. \A e : Timely(e) => Timely(e)'
        BY <1>0, <2>1, StoreAssumption DEF Timely, ValidStore
    <2>3. QED
        BY <1>0, <1>9, <1>a, <1>c, <2>1, <2>2
        DEF Tick, storeVars, TypeOK, NeverOverstays, StampedTimely
<1>10. ASSUME UNCHANGED vars PROVE IInv'
    BY <1>0, <1>10, <1>a, <1>c DEF vars, storeVars, TypeOK, NeverOverstays, StampedTimely, Timely
<1>11. QED
    BY <1>1, <1>2, <1>3, <1>4, <1>5, <1>6, <1>7, <1>8, <1>9, <1>10 DEF Next

LEMMA SpecInv == Spec => []IInv
BY InitInv, NextInv, PTL DEF Spec

\* The types of the backend, and its size: never more than maxsize entries, for
\* every number of threads, although a write inserts before it evicts.
THEOREM MemoryTypeCorrect == Spec => []TypeOK
<1>1. IInv => TypeOK
    BY DEF IInv
<1>2. QED
    BY SpecInv, <1>1, PTL

\* No entry outlives a whole ttl without being written again or refreshed,
\* whatever the order in which threads stamp, store and read.
THEOREM MemoryNeverOverstays == Spec => []NeverOverstays
<1>1. IInv => NeverOverstays
    BY DEF IInv
<1>2. QED
    BY SpecInv, <1>1, PTL

-----------------------------------------------------------------------------
(* Eviction *)

LEMMA EvictsStep ==
    IInv /\ [Next]_vars =>
        \A c \in Clients, gone \in Held \ Held' :
            call[c].op = "store" /\ call'[c].op = "done" =>
                \A stays \in Held' \ {call[c].entry.key} : <<gone, stays>> \in recency
<1> SUFFICES ASSUME IInv, [Next]_vars, NEW c \in Clients, NEW gone \in Held \ Held',
                    call[c].op = "store", call'[c].op = "done",
                    NEW stays \in Held' \ {call[c].entry.key}
             PROVE  <<gone, stays>> \in recency
    OBVIOUS
<1>1. /\ StoreInv /\ older \subseteq recency
      /\ call \in [Clients -> CallStates] /\ now \in Nat
    BY StoreAssumption DEF IInv, TypeOK
<1>2. ASSUME NEW d \in Clients, \E a : Answer(d, a) PROVE d = c
    BY <1>1, <1>2 DEF Answer
<1>3. Store(c)
    <2>1. ASSUME NEW d \in Clients,
                 \/ Invoke(d) \/ Hit(d) \/ Miss(d) \/ Stamp(d)
                 \/ Store(d) \/ Clear(d) \/ Info(d) \/ Return(d)
          PROVE  d = c
        BY <1>2, <2>1 DEF Invoke, Hit, Miss, Stamp, Store, Clear, Info, Return
    <2>2. ~Tick /\ ~UNCHANGED vars
        BY DEF Tick, vars
    <2>3. ~Invoke(c) /\ ~Hit(c) /\ ~Miss(c) /\ ~Stamp(c) /\ ~Clear(c) /\ ~Info(c) /\ ~Return(c)
        BY DEF Invoke, Hit, Miss, Stamp, Clear, Info, Return, Idle
    <2>4. QED
        BY <2>1, <2>2, <2>3 DEF Next
<1> DEFINE e == call[c].entry
           S == Held \cup {e.key}
           R == MovedToEnd(e.key, S)
<1>4. Held' = Left(S, R) /\ IsOrder(S, R) /\ IsFiniteSet(S)
    <2>1. e \in EntryType /\ SetEntry(e)
        BY <1>1, <1>3, CallFields DEF Store
    <2> HIDE DEF S, R
    <2>2. QED
        BY <1>1, <2>1, SetInv DEF S, R
<1>5. <<gone, stays>> \in R
    <2> HIDE DEF R
    <2>1. gone \in S \ Left(S, R) /\ stays \in Left(S, R)
        BY <1>4
    <2> HIDE DEF S
    <2>2. QED
        BY <1>4, <2>1, LeftRecent
<1>6. <<gone, stays>> \in older
    BY <1>5 DEF MovedToEnd
<1>7. QED
    BY <1>1, <1>6

\* When a write makes room, everything it drops was used less recently than
\* everything it keeps.
THEOREM MemoryEvictsLeastRecent == Spec => EvictsLeastRecent
BY SpecInv, EvictsStep, PTL DEF Spec, EvictsLeastRecent

-----------------------------------------------------------------------------
(* MemoryCacheBackend implements CacheContract *)

LEMMA ContractInit == Init => Contract!Init
<1> SUFFICES ASSUME Init PROVE Contract!Init
    OBVIOUS
<1>1. Held = {}
    BY DEF Init, StoreInit, Held
<1>2. QED
    BY <1>1 DEF Init, StoreInit, Contract!Init, Contract!Idle, Idle, Pending

\* The contract counts with its own instance of FiniteSets.
LEMMA SameCardinality == \A S : Contract!Cardinality(S) = Cardinality(S)
BY DEF Contract!Cardinality, Cardinality

\* The promise made to a client changes as its call does, unless it only stamps.
LEMMA PendingAnswer ==
    ASSUME call \in [Clients -> CallStates], NEW c \in Clients, NEW a, Answer(c, a),
           a.op # "store"
    PROVE  [d \in Clients |-> Pending(d)]' = [[d \in Clients |-> Pending(d)] EXCEPT ![c] = a]
BY DEF Answer, Pending

LEMMA ContractNext == IInv /\ [Next]_vars => [Contract!Next]_(Contract!vars)
<1> SUFFICES ASSUME IInv, [Next]_vars PROVE [Contract!Next]_(Contract!vars)
    OBVIOUS
<1> DEFINE kept == [k \in Held |-> Content(cache[k])]
           calls == [d \in Clients |-> Pending(d)]
<1>0. /\ StoreInv /\ call \in [Clients -> CallStates] /\ now \in Nat
      /\ hits \in Nat /\ misses \in Nat
    BY StoreAssumption DEF IInv, TypeOK
<1>a. ASSUME NEW T, T \subseteq Held, Keep(T)
      PROVE  kept' = [k \in T |-> kept[k]] /\ Held' = T
    BY <1>0, <1>a, KeepInv
<1>b. ASSUME UNCHANGED storeVars PROVE UNCHANGED <<kept, hits, misses>>
    BY <1>b DEF storeVars, Held
<1>1. ASSUME NEW c \in Clients, Invoke(c) PROVE Contract!Invoke(c)
    <2>1. PICK r \in Requests : Answer(c, r)
        BY <1>1 DEF Invoke
    <2>2. r.op # "store" /\ r \in Contract!Requests
        BY DEF Requests, Contract!Requests
    <2>3. calls' = [calls EXCEPT ![c] = r]
        BY <1>0, <2>1, <2>2, PendingAnswer
    <2>4. calls[c] = Contract!Idle
        BY <1>1 DEF Invoke, Pending, Idle, Contract!Idle
    <2>5. QED
        BY <1>1, <1>b, <2>2, <2>3, <2>4 DEF Invoke, Contract!Invoke
<1>2. ASSUME NEW c \in Clients, Hit(c) PROVE Contract!Lookup(c)
    <2> DEFINE k == call[c].key
               a == [op |-> "hit", content |-> Content(cache[k])]
    <2>1. GetHit(k) /\ Answer(c, a) /\ calls[c] = call[c] /\ call[c].op = "get"
        BY <1>2 DEF Hit, Pending
    <2>2. /\ Held' = Held /\ k \in Held
          /\ \A j \in Held : Content(cache'[j]) = Content(cache[j])
        BY <1>0, <2>1, HitInv
    <2>3. kept' = kept /\ a.content = kept[k] /\ k \in DOMAIN kept
        BY <2>2
    <2>4. calls' = [calls EXCEPT ![c] = a]
        BY <1>0, <2>1, PendingAnswer
    <2>5. QED
        BY <2>1, <2>3, <2>4 DEF GetHit, Contract!Lookup
<1>3. ASSUME NEW c \in Clients, Miss(c) PROVE Contract!Lookup(c)
    <2> DEFINE k == call[c].key
    <2>1. GetMiss(k) /\ Answer(c, [op |-> "miss"]) /\ calls[c] = call[c] /\ call[c].op = "get"
        BY <1>3 DEF Miss, Pending
    <2>2. kept' = [j \in DOMAIN kept \ {k} |-> kept[j]]
        BY <1>a, <2>1 DEF GetMiss
    <2>3. calls' = [calls EXCEPT ![c] = [op |-> "miss"]]
        BY <1>0, <2>1, PendingAnswer
    <2>4. QED
        BY <2>1, <2>2, <2>3 DEF GetMiss, Contract!Lookup, Contract!Keep
<1>4. ASSUME NEW c \in Clients, Stamp(c) PROVE UNCHANGED Contract!vars
    <2> DEFINE e == [key |-> call[c].key,
                     payload |-> call[c].content.payload,
                     is_exception |-> call[c].content.is_exception,
                     expires_at |-> ExpiresAt]
    <2>1. call[c].op = "set" /\ call[c] \in CallStates
        BY <1>0, <1>4 DEF Stamp
    <2>2. call[c] = [op |-> "set", key |-> call[c].key, content |-> call[c].content]
          /\ call[c].content \in Contents
        BY <2>1 DEF CallStates, Requests
    <2>3. Content(e) = call[c].content
        BY <2>2 DEF Content, Contents
    <2>4. call'[c] = [op |-> "store", entry |-> e] /\ \A d \in Clients \ {c} : call'[d] = call[d]
        BY <1>0, <1>4 DEF Stamp, Answer
    <2>5. \A d \in Clients : Pending(d)' = Pending(d)
        BY <2>1, <2>2, <2>3, <2>4 DEF Pending
    <2>6. QED
        BY <1>4, <1>b, <2>5 DEF Stamp, Contract!vars
<1>5. ASSUME NEW c \in Clients, Store(c) PROVE Contract!Write(c)
    <2> DEFINE e == call[c].entry
               S == Held \cup {e.key}
    <2>1. e \in EntryType /\ SetEntry(e) /\ Answer(c, [op |-> "done"]) /\ UNCHANGED <<hits, misses>>
        BY <1>0, <1>5, CallFields DEF Store, SetEntry, Write
    <2>2. /\ Held' \subseteq S /\ e.key \in Held'
          /\ \A k \in Held' : cache'[k] = IF k = e.key THEN e ELSE cache[k]
        <3> DEFINE R == MovedToEnd(e.key, S)
        <3> HIDE DEF S, R, e
        <3>1. /\ Held' = Left(S, R) /\ e.key \in Held'
              /\ \A k \in Held' : cache'[k] = IF k = e.key THEN e ELSE cache[k]
            BY <1>0, <2>1, SetInv DEF S, R
        <3>2. QED
            BY <3>1, LeftPart
    <2>3. calls[c] = [op |-> "set", key |-> e.key, content |-> Content(e)]
        BY <1>5 DEF Store, Pending
    <2>4. calls' = [calls EXCEPT ![c] = [op |-> "done"]]
        BY <1>0, <2>1, PendingAnswer
    <2>5. /\ S \ Held' \in SUBSET (DOMAIN kept \ {e.key})
          /\ (DOMAIN kept \cup {e.key}) \ (S \ Held') = Held'
        BY <2>2
    <2>6. kept' = [k \in Held' |-> Contract!With(e.key, Content(e))[k]]
        BY <2>2 DEF Contract!With
    <2>7. \E pushedOut \in SUBSET (DOMAIN kept \ {e.key}) :
            kept' = [k \in (DOMAIN kept \cup {e.key}) \ pushedOut |->
                        Contract!With(e.key, Content(e))[k]]
        <3> HIDE DEF kept
        <3> QED
            BY <2>5, <2>6
    <2>8. QED
        BY <2>1, <2>3, <2>4, <2>7 DEF Contract!Write
<1>6. ASSUME NEW c \in Clients, Clear(c) PROVE Contract!Clear(c)
    <2>1. Keep({}) /\ Answer(c, [op |-> "done"]) /\ calls[c].op = "clear"
        BY <1>6 DEF Clear, ClearStore, Pending
    <2>2. calls' = [calls EXCEPT ![c] = [op |-> "done"]]
        BY <1>0, <2>1, PendingAnswer
    <2>3. QED
        BY <1>6, <1>a, <2>1, <2>2 DEF Clear, ClearStore, Contract!Clear, Contract!Keep
<1>7. ASSUME NEW c \in Clients, Info(c) PROVE Contract!Info(c)
    <2> DEFINE live == {k \in Held : ~IsExpired(cache[k])}
               a == [op |-> "report", hits |-> hits, misses |-> misses,
                     currsize |-> Cardinality(live)]
    <2>1. Keep(live) /\ calls[c].op = "info" /\ UNCHANGED <<hits, misses>>
        BY <1>7 DEF Info, Prune, Pending
    <2>2. kept' = [k \in live |-> kept[k]] /\ Held' = live
        BY <1>a, <2>1
    <2>3. Answer(c, a)
        BY <1>7, <2>2 DEF Info
    <2>4. calls' = [calls EXCEPT ![c] = a]
        BY <1>0, <2>3, PendingAnswer
    <2>5. live \in SUBSET DOMAIN kept
        OBVIOUS
    <2>6. \E left \in SUBSET DOMAIN kept :
            /\ kept' = Contract!Keep(left)
            /\ calls' = [calls EXCEPT ![c] =
                    [op |-> "report", hits |-> hits, misses |-> misses,
                     currsize |-> Contract!Cardinality(left)]]
        <3>1. kept' = Contract!Keep(live)
            BY <2>2 DEF Contract!Keep
        <3>2. Contract!Cardinality(live) = Cardinality(live)
            BY SameCardinality, Zenon
        <3> HIDE DEF live, kept, calls
        <3>3. QED
            BY <2>4, <2>5, <3>1, <3>2 DEF live
    <2> HIDE DEF live
    <2>7. QED
        BY <2>1, <2>6, Zenon DEF Contract!Info
<1>8. ASSUME NEW c \in Clients, Return(c) PROVE Contract!Return(c)
    <2>1. Answer(c, Idle) /\ calls[c] = call[c]
        BY <1>8 DEF Return, Pending
    <2>2. calls' = [calls EXCEPT ![c] = Contract!Idle]
        BY <1>0, <2>1, PendingAnswer DEF Idle, Contract!Idle
    <2>3. QED
        BY <1>8, <1>b, <2>1, <2>2 DEF Return, Contract!Return
<1>9. ASSUME Tick \/ UNCHANGED vars PROVE UNCHANGED Contract!vars
    BY <1>9, <1>b DEF Tick, vars, Contract!vars, Pending, storeVars
<1>10. QED
    BY <1>1, <1>2, <1>3, <1>4, <1>5, <1>6, <1>7, <1>8, <1>9 DEF Next, Contract!Next

\* Several threads that use the backend at once see one atomic map that forgets
\* but never invents, mixes up or brings back an entry, with exact statistics.
THEOREM MemoryImplementsContract == Spec => ImplementsContract
BY ContractInit, ContractNext, SpecInv, PTL DEF Spec, ImplementsContract, Contract!Spec
=============================================================================
