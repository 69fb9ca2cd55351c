------------------------- MODULE RateLimiterProofs -------------------------
(***************************************************************************)
(* What RateLimiter promises, for any number of callers, buckets, windows, *)
(* costs and ticks.                                                        *)
(***************************************************************************)
EXTENDS RateLimiter, FiniteSetTheorems, WellFoundedInduction, TLAPS

-----------------------------------------------------------------------------
(* Least and greatest numbers of a set *)

LEMMA LeastElement ==
    ASSUME NEW S, S \subseteq Nat, S # {}
    PROVE  \E m \in S : \A n \in S : m <= n
<1>1. PICK m \in S : \A n \in S : <<n, m>> \notin OpToRel(<, Nat)
    BY NatLessThanWellFounded, WFMin, Zenon
<1>2. \A n \in S : ~(n < m)
    BY <1>1, Zenon DEF OpToRel
<1>3. QED
    BY <1>2

\* The smallest part of S without a greatest element would lose that property
\* with any of its elements, and have a smaller one.
LEMMA GreatestElement ==
    ASSUME NEW S, S \subseteq Int, IsFiniteSet(S), S # {}
    PROVE  \E m \in S : \A n \in S : n <= m
<1> DEFINE Bad == {T \in SUBSET S : T # {} /\ ~ \E m \in T : \A n \in T : n <= m}
           Sizes == {Cardinality(T) : T \in Bad}
<1>1. SUFFICES ASSUME Bad # {} PROVE FALSE
    OBVIOUS
<1>2. \A T \in SUBSET S : IsFiniteSet(T) /\ Cardinality(T) \in Nat
    BY FS_Subset, FS_CardinalityType
<1>3. PICK T \in Bad : \A U \in Bad : Cardinality(T) <= Cardinality(U)
    <2>1. Sizes \subseteq Nat /\ Sizes # {}
        BY <1>1, <1>2
    <2>2. PICK least \in Sizes : \A n \in Sizes : least <= n
        <3> HIDE DEF Sizes
        <3> QED
            BY <2>1, LeastElement
    <2>3. QED
        BY <2>2
<1>4. PICK x \in T : TRUE
    OBVIOUS
<1>5. Cardinality(T \ {x}) = Cardinality(T) - 1 /\ Cardinality(T) \in Nat
    BY <1>2, FS_RemoveElement
<1>6. T \ {x} \notin Bad
    <2> HIDE DEF Bad
    <2> QED
        BY <1>3, <1>5
<1>7. CASE T \ {x} = {}
    BY <1>7
<1>8. CASE T \ {x} # {}
    <2>1. PICK m \in T \ {x} : \A n \in T \ {x} : n <= m
        BY <1>6, <1>8
    <2>2. x \in Int /\ m \in Int
        OBVIOUS
    <2>3. (\A n \in T : n <= m) \/ (\A n \in T : n <= x)
        BY <2>1, <2>2
    <2>4. QED
        BY <2>3
<1>9. QED
    BY <1>7, <1>8

\* Max and Min of the community modules are what they are named for.
LEMMA MaxProperty ==
    ASSUME NEW S, S \subseteq Int, IsFiniteSet(S), S # {}
    PROVE  Max(S) \in S /\ \A n \in S : n <= Max(S)
<1>1. \E m \in S : \A n \in S : m >= n
    BY GreatestElement
<1>2. QED
    BY <1>1, Zenon DEF Max

LEMMA MinProperty ==
    ASSUME NEW S, S \subseteq Nat, S # {}
    PROVE  Min(S) \in S /\ \A n \in S : Min(S) <= n
<1>1. \E m \in S : \A n \in S : m =< n
    BY LeastElement
<1>2. QED
    BY <1>1, Zenon DEF Min

\* Max({0, n}) is n cut off at zero.
LEMMA MaxWithZero ==
    ASSUME NEW n \in Int
    PROVE  Max({0, n}) = IF n > 0 THEN n ELSE 0
<1>1. IsFiniteSet({0, n})
    <2>1. IsFiniteSet({0}) /\ {0, n} = {0} \cup {n}
        BY FS_Singleton
    <2>2. IsFiniteSet({0} \cup {n})
        BY <2>1, FS_AddElement
    <2>3. QED
        BY <2>1, <2>2
<1>2. Max({0, n}) \in {0, n} /\ \A k \in {0, n} : k <= Max({0, n})
    BY <1>1, MaxProperty
<1>3. QED
    BY <1>2

-----------------------------------------------------------------------------
(* Sums of costs *)

\* Events and charges are records with a cost.
Costly(S) == IsFiniteSet(S) /\ \A e \in S : e.cost \in Nat

LEMMA UnitsMember ==
    ASSUME NEW S, NEW u
    PROVE  u \in Units(S) <=> \E e \in S : \E k \in 1..e.cost : u = <<e, k>>
BY DEF Units

LEMMA UnitsFinite ==
    ASSUME NEW S, Costly(S)
    PROVE  IsFiniteSet(Units(S)) /\ CostOf(S) \in Nat
<1> DEFINE One(e) == {e} \X (1..e.cost)
           All == {One(e) : e \in S}
<1>1. \A e \in S : IsFiniteSet(One(e))
    <2> SUFFICES ASSUME NEW e \in S PROVE IsFiniteSet({e} \X (1..e.cost))
        OBVIOUS
    <2>1. IsFiniteSet({e})
        BY FS_Singleton
    <2>2. IsFiniteSet(1..e.cost)
        BY FS_Interval DEF Costly
    <2>3. QED
        BY <2>1, <2>2, FS_Product
<1>2. IsFiniteSet(All)
    <2> DEFINE f == [e \in S |-> One(e)]
    <2>1. f \in Surjection(S, All)
        BY DEF Surjection
    <2>2. QED
        BY <2>1, FS_Surjection DEF Costly
<1>3. IsFiniteSet(UNION All)
    BY <1>1, <1>2, FS_UNION
<1>4. QED
    BY <1>3, FS_CardinalityType DEF Units, CostOf

LEMMA CostEmpty == CostOf({}) = 0
BY FS_EmptySet DEF CostOf, Units

LEMMA CostMonotone ==
    ASSUME NEW S, NEW T, S \subseteq T, Costly(T)
    PROVE  CostOf(S) <= CostOf(T)
<1>1. Units(S) \subseteq Units(T)
    BY DEF Units
<1>2. QED
    BY <1>1, UnitsFinite, FS_Subset DEF CostOf

LEMMA CostlyParts ==
    ASSUME NEW T, Costly(T)
    PROVE  \A S \in SUBSET T : Costly(S)
BY FS_Subset DEF Costly

LEMMA CostOfOne ==
    ASSUME NEW e, e.cost \in Nat
    PROVE  CostOf({e}) = e.cost
<1>1. Units({e}) = {e} \X (1..e.cost)
    BY DEF Units
<1>2. IsFiniteSet({e}) /\ Cardinality({e}) = 1
    BY FS_Singleton
<1>3. IsFiniteSet(1..e.cost) /\ Cardinality(1..e.cost) = e.cost
    BY FS_Interval
<1>4. Cardinality({e} \X (1..e.cost)) = Cardinality({e}) * Cardinality(1..e.cost)
    <2>1. \A A, B : IsFiniteSet(A) /\ IsFiniteSet(B) =>
                Cardinality(A \X B) = Cardinality(A) * Cardinality(B)
        BY FS_Product
    <2>2. QED
        BY <1>2, <1>3, <2>1, Zenon
<1>5. Cardinality({e}) * Cardinality(1..e.cost) = 1 * e.cost
    BY <1>2, <1>3, Zenon
<1>6. 1 * e.cost = e.cost
    OBVIOUS
<1>7. QED
    BY <1>1, <1>4, <1>5, <1>6, Zenon DEF CostOf

\* One more element adds its cost.
LEMMA CostAdd ==
    ASSUME NEW S, Costly(S), NEW e, e.cost \in Nat, e \notin S
    PROVE  CostOf(S \cup {e}) = CostOf(S) + e.cost
<1>1. Units(S \cup {e}) = Units(S) \cup Units({e})
    BY DEF Units
<1>2. Units(S) \cap Units({e}) = {}
    BY DEF Units
<1>3. Costly({e})
    BY FS_Singleton DEF Costly
<1>4. CostOf(S \cup {e}) = CostOf(S) + CostOf({e}) - 0
    <2>1. IsFiniteSet(Units(S)) /\ IsFiniteSet(Units({e}))
        BY <1>3, UnitsFinite
    <2>2. Cardinality(Units(S) \cup Units({e}))
            = Cardinality(Units(S)) + Cardinality(Units({e})) - Cardinality({})
        BY <1>2, <2>1, FS_Union
    <2>3. QED
        BY <1>1, <2>2, FS_EmptySet DEF CostOf
<1>5. CostOf(S) \in Nat /\ CostOf({e}) = e.cost
    BY UnitsFinite, CostOfOne
<1>6. QED
    BY <1>4, <1>5

\* A set that is mapped into another one-to-one, cost for cost, costs no more.
LEMMA CostInjection ==
    ASSUME NEW S, NEW T, Costly(T), NEW f \in [S -> T],
           \A d, e \in S : f[d] = f[e] => d = e,
           \A e \in S : f[e].cost = e.cost
    PROVE  CostOf(S) <= CostOf(T)
<1> DEFINE g == [u \in Units(S) |-> <<f[u[1]], u[2]>>]
<1>1. \A u \in Units(S) : u = <<u[1], u[2]>> /\ u[1] \in S /\ u[2] \in 1..u[1].cost
    BY UnitsMember
<1>2. \A u \in Units(S) : g[u] \in Units(T)
    <2> TAKE u \in Units(S)
    <2>1. f[u[1]] \in T /\ u[2] \in 1..f[u[1]].cost
        BY <1>1
    <2>2. <<f[u[1]], u[2]>> \in Units(T)
        BY <2>1 DEF Units
    <2>3. QED
        BY <2>2
<1>3. \A u, v \in Units(S) : g[u] = g[v] => u = v
    <2> TAKE u, v \in Units(S)
    <2>1. HAVE g[u] = g[v]
    <2>2. f[u[1]] = f[v[1]] /\ u[2] = v[2]
        BY <2>1
    <2>3. QED
        BY <1>1, <2>2
<1>4. g \in Injection(Units(S), Units(T))
    <2>1. g \in [Units(S) -> Units(T)]
        BY <1>2
    <2> HIDE DEF g
    <2>2. QED
        BY <1>3, <2>1 DEF Injection, IsInjective
<1>5. QED
    BY <1>4, UnitsFinite, FS_Injection DEF CostOf

-----------------------------------------------------------------------------
(* Windows and calendars *)

LEMMA WindowType ==
    ASSUME setup \in Setups
    PROVE  /\ setup.horizon \in Nat /\ MaxLag \in Nat
           /\ Storage \in {"memory", "sqlite", "redis"}
           /\ Len(Windows) \in Nat \ {0} /\ Positions = 1..Len(Windows)
           /\ setup.keys \subseteq Buckets /\ setup.costs \subseteq Costs
           /\ setup.callers \subseteq Callers
           /\ \A i \in Positions :
                /\ Windows[i].kind \in {"sliding", "calendar"}
                /\ Windows[i].calls \in Nat \ {0} /\ Windows[i].period \in Nat \ {0}
                /\ Windows[i].kind = "calendar" =>
                     /\ Windows[i].starts \subseteq Nat /\ 0 \in Windows[i].starts
                     /\ \E x \in Windows[i].starts : x > setup.horizon
<1>1. setup \in Setup /\ setup.windows # << >> /\ Covered(setup)
    BY LimiterAssumption DEF ValidSetup
<1>2. setup.windows \in Seq(Sliding \cup Calendar)
    BY <1>1 DEF Setup
<1>3. Len(Windows) \in Nat \ {0} /\ Positions = 1..Len(Windows)
    BY <1>1, <1>2 DEF Windows, Positions
<1>4. \A i \in Positions : Windows[i] \in Sliding \cup Calendar
    BY <1>2, <1>3 DEF Windows
<1>5. \A i \in Positions :
        /\ Windows[i].kind \in {"sliding", "calendar"}
        /\ Windows[i].calls \in Nat \ {0} /\ Windows[i].period \in Nat \ {0}
        /\ Windows[i].kind = "calendar" => Windows[i].starts \subseteq Nat
    BY <1>4 DEF Sliding, Calendar
<1>6. \A i \in Positions : Windows[i].kind = "calendar" =>
        0 \in Windows[i].starts /\ \E x \in Windows[i].starts : x > setup.horizon
    BY <1>1 DEF Covered, Windows, Positions
<1>7. QED
    BY <1>1, <1>3, <1>5, <1>6 DEF Setup, MaxLag, Storage

\* What _calendar_window_bounds returns: no other start lies between the two.
LEMMA Bounds ==
    ASSUME setup \in Setups, NEW i \in Positions, Windows[i].kind = "calendar",
           NEW t \in Times
    PROVE  /\ Start(Windows[i], t) \in Nat /\ Start(Windows[i], t) <= t
           /\ End(Windows[i], t) \in Nat /\ End(Windows[i], t) > t
           /\ \A x \in Windows[i].starts :
                x <= Start(Windows[i], t) \/ x >= End(Windows[i], t)
           /\ Start(Windows[i], t) \in Windows[i].starts
           /\ End(Windows[i], t) \in Windows[i].starts
<1> DEFINE w == Windows[i]
           earlier == {x \in w.starts : x <= t}
           later == {x \in w.starts : x > t}
<1>1. t \in Nat /\ w.starts \subseteq Nat /\ earlier # {} /\ later # {}
    BY WindowType DEF Times
<1>2. IsFiniteSet(earlier)
    BY <1>1, FS_BoundedSetOfNaturals
<1>3. Start(w, t) \in earlier /\ \A x \in earlier : x <= Start(w, t)
    BY <1>1, <1>2, MaxProperty DEF Start
<1>4. End(w, t) \in later /\ \A x \in later : End(w, t) <= x
    BY <1>1, MinProperty DEF End
<1>5. QED
    BY <1>1, <1>3, <1>4

\* Times in the same bucket, and in later ones.
LEMMA BucketsInOrder ==
    ASSUME setup \in Setups, NEW i \in Positions, Windows[i].kind = "calendar",
           NEW t \in Times, NEW u \in Times
    PROVE  /\ t <= u => Start(Windows[i], t) <= Start(Windows[i], u)
           /\ Start(Windows[i], t) <= u /\ u < End(Windows[i], t)
                => Start(Windows[i], u) = Start(Windows[i], t)
           /\ u >= End(Windows[i], t) => Start(Windows[i], u) >= End(Windows[i], t)
<1>1. t \in Nat /\ u \in Nat
    BY WindowType DEF Times
<1>2. QED
    BY <1>1, Bounds

\* prune_before lies before the reading and moves forward with it.
LEMMA PruneBeforeType ==
    ASSUME setup \in Setups, NEW i \in Positions, NEW t \in Times
    PROVE  /\ PruneBefore(Windows[i], t) \in Int /\ PruneBefore(Windows[i], t) < t
           /\ \A u \in Times : t <= u =>
                PruneBefore(Windows[i], t) <= PruneBefore(Windows[i], u)
<1>1. Times \subseteq Nat
    BY WindowType DEF Times
<1>2. CASE Windows[i].kind = "sliding"
    BY <1>1, <1>2, WindowType DEF PruneBefore
<1>3. CASE Windows[i].kind = "calendar"
    BY <1>1, <1>3, Bounds, BucketsInOrder DEF PruneBefore
<1>4. QED
    BY <1>2, <1>3, WindowType

\* The longest nominal period, by which idle slots are cleaned up.
LEMMA LongestPeriod ==
    ASSUME setup \in Setups
    PROVE  CleanupPeriod \in Nat /\ \A i \in Positions : Windows[i].period <= CleanupPeriod
<1> DEFINE periods == {Windows[i].period : i \in Positions}
           f == [i \in Positions |-> Windows[i].period]
<1>1. periods \subseteq Nat /\ periods # {}
    <2>1. 1 \in Positions
        BY WindowType
    <2>2. Windows[1].period \in periods
        BY <2>1
    <2>3. QED
        BY <2>2, WindowType
<1>2. f \in Surjection(Positions, periods)
    BY DEF Surjection
<1>3. IsFiniteSet(Positions)
    BY WindowType, FS_Interval
<1>4. IsFiniteSet(periods)
    BY <1>2, <1>3, FS_Surjection
<1>5. Max(periods) \in periods /\ \A n \in periods : n <= Max(periods)
    <2>1. periods \subseteq Int
        BY <1>1
    <2> HIDE DEF periods
    <2>2. QED
        BY <1>1, <1>4, <2>1, MaxProperty
<1>6. QED
    BY <1>1, <1>5 DEF CleanupPeriod

LEMMA CleanupBeforeType ==
    ASSUME setup \in Setups, NEW t \in Times
    PROVE  /\ CleanupBefore(t) \in Int
           /\ \A i \in Positions :
                CleanupBefore(t) = -1 \/ CleanupBefore(t) <= t - Windows[i].period
<1>1. t \in Nat
    BY WindowType DEF Times
<1>2. CASE Storage = "redis"
    BY <1>2 DEF CleanupBefore
<1>3. CASE Storage # "redis"
    BY <1>1, <1>3, LongestPeriod, WindowType DEF CleanupBefore
<1>4. QED
    BY <1>2, <1>3

-----------------------------------------------------------------------------
(* Types of a reservation *)

LEMMA SlotType ==
    ASSUME NEW i \in Positions, NEW t \in Times
    PROVE  Slot(Windows[i], t) \in Slots
BY DEF Slots

LEMMA RankType ==
    ASSUME setup \in Setups, NEW e \in EventType
    PROVE  Rank(e) \in Nat /\ e.timestamp \in Times /\ e.timestamp \in Nat
BY WindowType DEF Rank, EventType, Times

LEMMA FirstProperty ==
    ASSUME NEW S, S # {}, \A e \in S : Rank(e) \in Nat
    PROVE  First(S) \in S /\ \A f \in S : Rank(First(S)) <= Rank(f)
<1> DEFINE ranks == {Rank(e) : e \in S}
<1>1. ranks \subseteq Nat /\ ranks # {}
    OBVIOUS
<1>2. PICK least \in ranks : \A n \in ranks : least <= n
    <2> HIDE DEF ranks
    <2> QED
        BY <1>1, LeastElement
<1>3. \E e \in S : \A f \in S : Rank(e) <= Rank(f)
    BY <1>2
<1>4. QED
    BY <1>3, Zenon DEF First

LEMMA WindowWaitType ==
    ASSUME setup \in Setups, NEW i \in Positions, NEW t \in Times, NEW c,
           NEW slot, slot \subseteq EventType
    PROVE  WindowWait(slot, Windows[i], t, c) \in Nat
<1> DEFINE w == Windows[i]
           first == First(Enough(slot, w, c))
<1>1. t \in Nat /\ w.period \in Nat
    BY WindowType DEF Times
<1>2. CASE CostOf(slot) + c <= w.calls
    BY <1>2 DEF WindowWait
<1>3. CASE ~(CostOf(slot) + c <= w.calls) /\ w.kind = "calendar"
    <2>1. End(w, t) - t \in Int
        BY <1>1, <1>3, Bounds
    <2>2. Max({0, End(w, t) - t}) \in Nat
        BY <2>1, MaxWithZero
    <2>3. QED
        BY <1>3, <2>2 DEF WindowWait
<1>4. CASE ~(CostOf(slot) + c <= w.calls) /\ w.kind # "calendar" /\ Enough(slot, w, c) = {}
    BY <1>1, <1>4 DEF WindowWait
<1>5. CASE ~(CostOf(slot) + c <= w.calls) /\ w.kind # "calendar" /\ Enough(slot, w, c) # {}
    <2>1. \A e \in Enough(slot, w, c) : e \in EventType /\ Rank(e) \in Nat
        BY RankType DEF Enough
    <2>2. first \in EventType
        BY <1>5, <2>1, FirstProperty
    <2>3. first.timestamp + w.period - t \in Int
        BY <1>1, <2>2, RankType
    <2>4. Max({0, first.timestamp + w.period - t}) \in Nat
        BY <2>3, MaxWithZero
    <2>5. QED
        BY <1>5, <2>4 DEF WindowWait
<1>6. QED
    BY <1>2, <1>3, <1>4, <1>5

LEMMA PrunedSubset ==
    ASSUME NEW b, NEW s, NEW t, NEW i
    PROVE  Pruned(b, s, t, i) \subseteq events[b][s]
BY DEF Pruned, Prune

\* The wait for one window.
WaitFor(b, c, t, i) == WindowWait(Pruned(b, Slot(Windows[i], t), t, i), Windows[i], t, c)

LEMMA WaitSecondsMax ==
    ASSUME TypeOK, NEW b \in Buckets, NEW t \in Times, NEW c
    PROVE  /\ WaitSeconds(b, c, t) \in Nat
           /\ \A i \in Positions : WaitFor(b, c, t, i) \in Nat
           /\ \A i \in Positions : WaitFor(b, c, t, i) <= WaitSeconds(b, c, t)
           /\ \E i \in Positions : WaitFor(b, c, t, i) = WaitSeconds(b, c, t)
<1> DEFINE waits == {WaitFor(b, c, t, i) : i \in Positions}
           f == [i \in Positions |-> WaitFor(b, c, t, i)]
<1>1. setup \in Setups
    BY DEF TypeOK
<1>2. \A i \in Positions : WaitFor(b, c, t, i) \in Nat
    <2> TAKE i \in Positions
    <2>1. events[b][Slot(Windows[i], t)] \subseteq EventType
        BY SlotType DEF TypeOK
    <2>2. Pruned(b, Slot(Windows[i], t), t, i) \subseteq EventType
        BY <2>1, PrunedSubset
    <2>3. QED
        BY <1>1, <2>2, WindowWaitType DEF WaitFor
<1>3. IsFiniteSet(waits)
    <2>1. f \in Surjection(Positions, waits)
        BY DEF Surjection
    <2>2. IsFiniteSet(Positions)
        BY <1>1, WindowType, FS_Interval
    <2>3. QED
        BY <2>1, <2>2, FS_Surjection
<1>4. waits \subseteq Int /\ waits # {}
    <2>1. WaitFor(b, c, t, 1) \in waits
        BY <1>1, WindowType
    <2>2. QED
        BY <1>2, <2>1
<1>5. Max(waits) \in waits /\ \A n \in waits : n <= Max(waits)
    <2> HIDE DEF waits
    <2> QED
        BY <1>3, <1>4, MaxProperty
<1>6. WaitSeconds(b, c, t) = Max(waits)
    BY DEF WaitSeconds, WaitFor
<1>7. QED
    BY <1>2, <1>5, <1>6

LEMMA RemainingType ==
    ASSUME TypeOK, NEW b \in Buckets, NEW t \in Times
    PROVE  /\ Remaining(b, t) \in [Buckets -> [Slots -> SUBSET EventType]]
           /\ \A d \in Buckets, s \in Slots : Remaining(b, t)[d][s] \subseteq events[d][s]
<1>1. ASSUME NEW d \in Buckets, NEW s \in Slots
      PROVE  Remaining(b, t)[d][s] \subseteq events[d][s]
    BY PrunedSubset DEF Remaining, Prune
<1>2. \A d \in Buckets, s \in Slots : Remaining(b, t)[d][s] \subseteq EventType
    BY <1>1 DEF TypeOK
<1>3. Remaining(b, t) = [d \in Buckets |-> [s \in Slots |-> Remaining(b, t)[d][s]]]
    BY DEF Remaining
<1>4. QED
    BY <1>1, <1>2, <1>3

\* What a reservation adds to a slot.
LEMMA ReservedSlots ==
    ASSUME TypeOK, NEW b \in Buckets, NEW t \in Times, NEW c \in Costs
    PROVE  /\ Reserved(b, c, t) \in [Buckets -> [Slots -> SUBSET EventType]]
           /\ \A d \in Buckets, s \in Slots :
                Reserved(b, c, t)[d][s] =
                  Remaining(b, t)[d][s] \cup IF d = b THEN NewEvents(s, c, t) ELSE {}
<1>1. Remaining(b, t) \in [Buckets -> [Slots -> SUBSET EventType]]
    BY RemainingType
<1>2. \A s \in Slots : NewEvents(s, c, t) \subseteq EventType
    BY DEF NewEvents, EventType, TypeOK
<1>3. \A d \in Buckets, s \in Slots :
        Reserved(b, c, t)[d][s] =
          Remaining(b, t)[d][s] \cup IF d = b THEN NewEvents(s, c, t) ELSE {}
    BY <1>1 DEF Reserved
<1>4. Reserved(b, c, t) = [d \in Buckets |-> [s \in Slots |-> Reserved(b, c, t)[d][s]]]
    BY <1>1 DEF Reserved
<1>5. \A d \in Buckets, s \in Slots : Reserved(b, c, t)[d][s] \subseteq EventType
    BY <1>1, <1>2, <1>3
<1>6. QED
    BY <1>3, <1>4, <1>5

-----------------------------------------------------------------------------
(* Type correctness *)

\* A caller that waits for a reservation has a bucket and a cost that fits the
\* windows, and its reading of the clock is recent.
Waiting ==
    \A c \in Callers :
        /\ pc[c] \in {"reserving", "sleeping"} =>
             bucket[c] \in Buckets /\ cost[c] \in Costs /\ ~Oversized(cost[c])
        /\ pc[c] = "reserving" => stamp[c] <= now /\ now <= stamp[c] + MaxLag

Typed == TypeOK /\ Waiting

\* The derived constants change only with the setup.
LEMMA SameSetup ==
    ASSUME setup' = setup
    PROVE  /\ Windows' = Windows /\ Storage' = Storage /\ MaxLag' = MaxLag
           /\ Times' = Times /\ Positions' = Positions /\ Slots' = Slots
           /\ EventType' = EventType /\ ChargeType' = ChargeType
           /\ \A n : Oversized(n)' = Oversized(n)
BY DEF Windows, Storage, MaxLag, Times, Positions, Slots, Slot, Start, EventType,
       ChargeType, Oversized

LEMMA InitTyped == Init => Typed
<1> SUFFICES ASSUME Init PROVE Typed
    OBVIOUS
<1>1. setup \in Setups /\ 0 \in Times
    BY WindowType DEF Init, Times
<1>2. events \in [Buckets -> [Slots -> SUBSET EventType]]
    BY DEF Init
<1>3. lastDenial \in [Buckets -> [cost : Costs \cup {0}, until : Nat]]
    BY DEF Init, NoDenial
<1>4. QED
    BY <1>1, <1>2, <1>3 DEF Init, Typed, TypeOK, Waiting

\* The types of a caller who leaves, and of the others.
LEMMA LeaveTyped ==
    ASSUME Typed, NEW c \in Callers, NEW step \in {"admitted", "refused"}, Leave(c, step),
           setup' = setup, now' = now
    PROVE  /\ pc' \in [Callers -> {"idle", "reserving", "admitted", "refused", "sleeping"}]
           /\ bucket' \in [Callers -> Buckets \cup {NoBucket}]
           /\ cost' \in [Callers -> Costs \cup {0}]
           /\ stamp' \in [Callers -> Times]
           /\ wakeAt' \in [Callers -> Nat]
           /\ Waiting'
<1>1. 0 \in Times
    BY WindowType DEF Typed, TypeOK, Times
<1>2. QED
    BY <1>1, SameSetup DEF Typed, TypeOK, Waiting, Leave, Goto

LEMMA CallTyped ==
    ASSUME Typed, NEW c \in Callers, Call(c)
    PROVE  Typed'
<1>1. setup' = setup /\ now' = now /\ events' = events /\ sequence' = sequence
      /\ charges' = charges /\ lastDenial' = lastDenial
    BY DEF Call
<1>2. PICK b \in setup.keys, n \in setup.costs :
        IF Oversized(n) THEN Leave(c, "refused")
        ELSE /\ bucket' = [bucket EXCEPT ![c] = b]
             /\ cost' = [cost EXCEPT ![c] = n]
             /\ ReadClock(c)
             /\ UNCHANGED wakeAt
    BY DEF Call
<1>3. b \in Buckets /\ n \in Costs /\ MaxLag \in Nat /\ now \in Times /\ now \in Nat
    BY <1>2, WindowType DEF Typed, TypeOK, Times
<1>4. CASE Oversized(n)
    BY <1>1, <1>2, <1>4, LeaveTyped, SameSetup DEF Typed, TypeOK
<1>5. CASE ~Oversized(n)
    <2>1. TypeOK'
        <3>1. /\ pc' = [pc EXCEPT ![c] = "reserving"] /\ stamp' = [stamp EXCEPT ![c] = now]
              /\ bucket' = [bucket EXCEPT ![c] = b] /\ cost' = [cost EXCEPT ![c] = n]
              /\ wakeAt' = wakeAt
            BY <1>2, <1>5 DEF ReadClock, Goto
        <3>2. QED
            BY <1>1, <1>3, <3>1, SameSetup DEF Typed, TypeOK
    <2>2. Waiting'
        BY <1>1, <1>2, <1>3, <1>5, SameSetup
        DEF Typed, TypeOK, Waiting, ReadClock, Goto
    <2>3. QED
        BY <2>1, <2>2 DEF Typed
<1>6. QED
    BY <1>4, <1>5

LEMMA ChargeTyped ==
    ASSUME Typed, NEW c \in Callers, pc[c] = "reserving",
           NEW outcome \in {"admitted", "refused"}, Charge(c, outcome)
    PROVE  Typed'
<1>1. setup' = setup /\ now' = now /\ Leave(c, outcome)
    BY DEF Charge
<1>2. bucket[c] \in Buckets /\ cost[c] \in Costs /\ stamp[c] \in Times /\ now \in Times
    BY DEF Typed, TypeOK, Waiting
<1>3. events' \in [Buckets -> [Slots -> SUBSET EventType]]
    BY <1>2, ReservedSlots DEF Typed, Charge
<1>4. charges' \in SUBSET ChargeType /\ sequence' \in Nat
    BY <1>2 DEF Typed, TypeOK, Charge, ChargeType
<1>5. lastDenial' \in [Buckets -> [cost : Costs \cup {0}, until : Nat]]
    BY DEF Typed, TypeOK, Charge, NoDenial
<1>6. QED
    BY <1>1, <1>3, <1>4, <1>5, LeaveTyped, SameSetup DEF Typed, TypeOK

LEMMA DenyTyped ==
    ASSUME Typed, NEW c \in Callers, Deny(c)
    PROVE  Typed'
<1> DEFINE wait == WaitSeconds(bucket[c], cost[c], stamp[c])
<1>1. setup' = setup /\ now' = now /\ sequence' = sequence /\ charges' = charges
      /\ pc[c] = "reserving" /\ setup \in Setups
    BY DEF Deny, Typed, TypeOK
<1>2. bucket[c] \in Buckets /\ cost[c] \in Costs /\ stamp[c] \in Times /\ now \in Times
    BY <1>1 DEF Typed, TypeOK, Waiting
<1>3. events' \in [Buckets -> [Slots -> SUBSET EventType]]
    BY <1>2, RemainingType DEF Typed, Deny
<1>4. wait \in Nat /\ stamp[c] \in Nat /\ now \in Nat
    BY <1>1, <1>2, WaitSecondsMax, WindowType DEF Typed, Times
<1>5. lastDenial' \in [Buckets -> [cost : Costs \cup {0}, until : Nat]]
    <2>1. lastDenial' = [lastDenial EXCEPT ![bucket[c]] =
                            [cost |-> cost[c], until |-> stamp[c] + wait]]
        BY DEF Deny
    <2>2. [cost |-> cost[c], until |-> stamp[c] + wait] \in [cost : Costs \cup {0}, until : Nat]
        BY <1>2, <1>4
    <2> HIDE DEF wait
    <2>3. QED
        BY <2>1, <2>2 DEF Typed, TypeOK
<1>6. CASE Leave(c, "refused")
    BY <1>1, <1>3, <1>5, <1>6, LeaveTyped, SameSetup DEF Typed, TypeOK
<1>7. CASE Goto(c, "sleeping") /\ wakeAt' = [wakeAt EXCEPT ![c] = now + wait]
           /\ UNCHANGED <<bucket, cost, stamp>>
    <2> HIDE DEF wait
    <2>1. TypeOK'
        BY <1>1, <1>3, <1>4, <1>5, <1>7, SameSetup DEF Typed, TypeOK, Goto
    <2>2. Waiting'
        BY <1>1, <1>2, <1>7, SameSetup DEF Typed, TypeOK, Waiting, Goto
    <2>3. QED
        BY <2>1, <2>2 DEF Typed
<1>8. QED
    BY <1>6, <1>7 DEF Deny

LEMMA FailTyped ==
    ASSUME Typed, NEW c \in Callers, Fail(c)
    PROVE  Typed'
<1>1. pc[c] = "reserving" /\ setup \in Setups
    BY DEF Fail, Typed, TypeOK
<1>2. CASE Leave(c, "refused") /\ UNCHANGED <<setup, now, events, sequence, charges, lastDenial>>
    BY <1>1, <1>2, LeaveTyped, SameSetup DEF Typed, TypeOK
<1>3. CASE Charge(c, "refused")
    BY <1>1, <1>3, ChargeTyped
<1>4. CASE /\ events' = Remaining(bucket[c], stamp[c])
           /\ Leave(c, "refused")
           /\ UNCHANGED <<setup, now, sequence, charges, lastDenial>>
    <2>1. bucket[c] \in Buckets /\ stamp[c] \in Times
        BY <1>1 DEF Typed, TypeOK, Waiting
    <2>2. events' \in [Buckets -> [Slots -> SUBSET EventType]]
        BY <1>4, <2>1, RemainingType DEF Typed
    <2>3. QED
        BY <1>1, <1>4, <2>2, LeaveTyped, SameSetup DEF Typed, TypeOK
<1>5. QED
    BY <1>2, <1>3, <1>4 DEF Fail

LEMMA OtherTyped ==
    ASSUME Typed,
           (\E c \in Callers : Wake(c) \/ CallAgain(c)) \/ Tick \/ UNCHANGED vars
    PROVE  Typed'
<1>1. setup \in Setups /\ setup' = setup /\ MaxLag \in Nat /\ now \in Times /\ now \in Nat
      /\ setup.horizon \in Nat
    BY WindowType DEF Typed, TypeOK, Times, Wake, CallAgain, Tick, vars
<1>2. CASE UNCHANGED vars
    BY <1>1, <1>2, SameSetup DEF Typed, TypeOK, Waiting, vars, callerVars
<1>3. CASE Tick
    <2>1. now' \in Times
        BY <1>1, <1>3, SameSetup DEF Tick, Times
    <2>2. TypeOK'
        BY <1>1, <1>3, <2>1, SameSetup DEF Typed, TypeOK, Tick, callerVars
    <2>3. \A c \in Callers : stamp[c] \in Nat
        BY <1>1 DEF Typed, TypeOK, Times
    <2>4. Waiting'
        BY <1>1, <1>3, <2>3, SameSetup DEF Typed, TypeOK, Waiting, Tick, callerVars
    <2>5. QED
        BY <2>2, <2>4 DEF Typed
<1>4. ASSUME NEW c \in Callers, Wake(c) PROVE Typed'
    BY <1>1, <1>4, SameSetup DEF Typed, TypeOK, Waiting, Wake, ReadClock, Goto
<1>5. ASSUME NEW c \in Callers, CallAgain(c) PROVE Typed'
    BY <1>1, <1>5, SameSetup DEF Typed, TypeOK, Waiting, CallAgain, Goto
<1>6. QED
    BY <1>2, <1>3, <1>4, <1>5

LEMMA TypedInductive == Typed /\ [Next]_vars => Typed'
<1> SUFFICES ASSUME Typed, [Next]_vars PROVE Typed'
    OBVIOUS
<1>1. ASSUME NEW c \in Callers, Admit(c) PROVE Typed'
    BY <1>1, ChargeTyped DEF Admit
<1>2. QED
    BY <1>1, CallTyped, DenyTyped, FailTyped, OtherTyped DEF Next, Step

\* Every variable has its type: the kept events are dated by readings of the
\* clock and carry positive costs, whatever the windows, the storage and the
\* interleaving of the callers.
THEOREM LimiterTypeCorrect == Spec => []TypeOK
<1>1. Init => Typed
    BY InitTyped
<1>2. Typed /\ [Next]_vars => Typed'
    BY TypedInductive
<1>3. Typed => TypeOK
    BY DEF Typed
<1>4. QED
    BY <1>1, <1>2, <1>3, PTL DEF Spec

-----------------------------------------------------------------------------
(* What the kept events say about the charges *)

\* No two windows of a decorated function have one name, and so one window_id.
DistinctNames ==
    \A s \in Setups : \A i, j \in DOMAIN s.windows :
        s.windows[i].id = s.windows[j].id => i = j

\* No calendar bucket is longer than the longest nominal period, unless Redis
\* keeps the events: the memory and the SQLite limiter forget them after that.
OrdinaryBuckets ==
    \A s \in Setups : s.storage # "redis" =>
        \A i \in DOMAIN s.windows, t \in 0..s.horizon :
            LET w == s.windows[i]
            IN  w.kind = "calendar" =>
                    End(w, t) - Start(w, t) <=
                        Max({s.windows[j].period : j \in DOMAIN s.windows})

\* The event of charge q for the window at position i.
Event(q, i) == [id |-> q.id, window |-> i, timestamp |-> q.stamp, cost |-> q.cost]

\* The charges are numbered in the order in which they were made, each by a
\* recent reading of the clock.
Numbered ==
    /\ IsFiniteSet(charges)
    /\ \A q \in charges :
         q.id < sequence /\ q.stamp <= q.at /\ q.at <= q.stamp + MaxLag /\ q.at <= now
    /\ \A p, q \in charges : (p.id <= q.id => p.at <= q.at) /\ (p.id = q.id => p = q)

\* Every kept event is the event of a charge, in the slot of its window.
Recorded ==
    \A b \in Buckets, s \in Slots : \A e \in events[b][s] :
        /\ s = Slot(Windows[e.window], e.timestamp)
        /\ \E q \in charges : q.bucket = b /\ e = Event(q, e.window)

\* Every charge that may count for a reservation still has its event.
Retained ==
    \A q \in charges, i \in Positions :
        /\ Windows[i].kind = "sliding" \/ OrdinaryBuckets
        /\ q.stamp > PruneBefore(Windows[i], now)
        => Event(q, i) \in events[q.bucket][Slot(Windows[i], q.stamp)]

\* The charges to bucket b that a reservation at t counts for a window.
Counted(b, w, t) == {q \in charges : q.bucket = b /\ q.stamp > PruneBefore(w, t)}

\* A call of cost c would be admitted to bucket b at t.
Fits(b, c, t) ==
    \A i \in Positions : CostOf(Counted(b, Windows[i], t)) + c <= Windows[i].calls

\* The wait that the last refusal named ends when the call fits, for good.
DenialExact ==
    MaxLag = 0 => \A b \in Buckets : lastDenial[b] # NoDenial =>
        \A t \in Times : t >= now =>
            (Fits(b, lastDenial[b].cost, t) <=> t >= lastDenial[b].until)

Ledger == Typed /\ Numbered /\ Recorded /\ Retained

LEMMA InitLedger == Init => Ledger
<1> SUFFICES ASSUME Init PROVE Ledger
    OBVIOUS
<1>1. Numbered /\ Retained
    BY FS_EmptySet DEF Init, Numbered, Retained
<1>2. Recorded
    BY DEF Init, Recorded
<1>3. QED
    BY <1>1, <1>2, InitTyped DEF Ledger

\* With distinct names, a slot belongs to one window.
LEMMA SlotOfOneWindow ==
    ASSUME DistinctNames, setup \in Setups, NEW i \in Positions, NEW j \in Positions,
           NEW t, NEW u, Slot(Windows[i], t) = Slot(Windows[j], u)
    PROVE  i = j
<1>1. Windows[i].id = Windows[j].id
    BY DEF Slot
<1>2. QED
    BY <1>1 DEF DistinctNames, Windows, Positions

\* No clean-up reaches into what a window still counts.
LEMMA CleanupSpares ==
    ASSUME setup \in Setups, NEW i \in Positions, NEW t \in Times, NEW u \in Times, t <= u,
           Windows[i].kind = "sliding" \/ OrdinaryBuckets,
           NEW x \in Nat, x > PruneBefore(Windows[i], u)
    PROVE  x > CleanupBefore(t)
<1> DEFINE w == Windows[i]
<1>1. t \in Nat /\ u \in Nat /\ w.period \in Nat
    BY WindowType DEF Times
<1>2. CASE Storage = "redis"
    BY <1>2 DEF CleanupBefore
<1>3. CASE Storage # "redis" /\ w.kind = "sliding"
    BY <1>1, <1>3, LongestPeriod DEF CleanupBefore, PruneBefore
<1>4. CASE Storage # "redis" /\ w.kind = "calendar" /\ OrdinaryBuckets
    <2>1. CleanupPeriod \in Nat
              /\ CleanupPeriod = Max({setup.windows[j].period : j \in DOMAIN setup.windows})
        BY LongestPeriod DEF CleanupPeriod, Windows, Positions
    <2>2. End(w, u) - Start(w, u) <= CleanupPeriod
        BY <1>4, <2>1 DEF OrdinaryBuckets, Storage, Windows, Positions, Times
    <2>3. Start(w, u) \in Nat /\ End(w, u) \in Nat /\ End(w, u) > u
        BY <1>4, Bounds
    <2>4. x > Start(w, u) - 1
        BY <1>4 DEF PruneBefore
    <2>5. CleanupBefore(t) = t - CleanupPeriod
        BY <1>4 DEF CleanupBefore
    <2>6. QED
        BY <1>1, <2>1, <2>2, <2>3, <2>4, <2>5
<1>5. QED
    BY <1>2, <1>3, <1>4, WindowType

\* A reservation that reads the clock at t keeps what counts now.
LEMMA PruningSpares ==
    ASSUME DistinctNames, Ledger, NEW b \in Buckets, NEW t \in Times, t <= now,
           NEW q \in charges, NEW i \in Positions,
           Windows[i].kind = "sliding" \/ OrdinaryBuckets,
           q.stamp > PruneBefore(Windows[i], now)
    PROVE  Event(q, i) \in Remaining(b, t)[q.bucket][Slot(Windows[i], q.stamp)]
<1> DEFINE e == Event(q, i)
           s == Slot(Windows[i], q.stamp)
<1>1. setup \in Setups /\ now \in Times /\ q \in ChargeType
    BY DEF Ledger, Typed, TypeOK
<1>2. q.bucket \in Buckets /\ q.stamp \in Times /\ q.stamp \in Nat
    BY <1>1, WindowType DEF ChargeType, Times
<1>3. e \in events[q.bucket][s] /\ s \in Slots
    BY <1>2, SlotType DEF Ledger, Retained
<1>4. e.timestamp = q.stamp
    BY DEF Event
<1>5. e.timestamp > CleanupBefore(t)
    BY <1>1, <1>2, <1>4, CleanupSpares
<1>6. \A j \in Positions : Slot(Windows[j], t) = s => e.timestamp > PruneBefore(Windows[j], t)
    <2> SUFFICES ASSUME NEW j \in Positions, Slot(Windows[j], t) = s
                 PROVE  e.timestamp > PruneBefore(Windows[j], t)
        OBVIOUS
    <2>1. j = i
        BY <1>1, SlotOfOneWindow
    <2>2. PruneBefore(Windows[i], t) \in Int /\ PruneBefore(Windows[i], now) \in Int
              /\ PruneBefore(Windows[i], t) <= PruneBefore(Windows[i], now)
        BY <1>1, PruneBeforeType
    <2>3. QED
        BY <1>2, <1>4, <2>1, <2>2
<1>7. Rank(e) <= Rank(e)
    <2>1. e \in EventType
        BY <1>2, <1>3 DEF Ledger, Typed, TypeOK
    <2>2. QED
        BY <1>1, <2>1, RankType
<1>8. CASE q.bucket = b
    <2>1. 1..Len(Windows) = Positions
        BY <1>1, WindowType
    <2>2. e \in Pruned(b, s, t, Len(Windows))
        BY <1>3, <1>5, <1>6, <1>7, <1>8, <2>1 DEF Pruned, Prune
    <2>3. QED
        BY <1>2, <1>3, <1>8, <2>2 DEF Remaining
<1>9. CASE q.bucket # b
    <2>1. e \in Prune(events[q.bucket][s], {CleanupBefore(t)})
        BY <1>3, <1>5, <1>7 DEF Prune
    <2>2. QED
        BY <1>2, <1>3, <1>9, <2>1 DEF Remaining
<1>10. QED
    BY <1>8, <1>9

\* A reservation that charges nothing.
LEMMA RemainingLedger ==
    ASSUME DistinctNames, Ledger, Typed', NEW b \in Buckets, NEW t \in Times, t <= now,
           events' = Remaining(b, t), UNCHANGED <<setup, now, sequence, charges>>
    PROVE  Ledger'
<1>1. Numbered'
    BY SameSetup DEF Ledger, Numbered
<1>2. Recorded'
    <2>1. \A d \in Buckets, s \in Slots : Remaining(b, t)[d][s] \subseteq events[d][s]
        BY RemainingType DEF Ledger, Typed
    <2>2. \A d \in Buckets, s \in Slots : \A e \in Remaining(b, t)[d][s] :
            /\ s = Slot(Windows[e.window], e.timestamp)
            /\ \E q \in charges : q.bucket = d /\ e = Event(q, e.window)
        BY <2>1 DEF Ledger, Recorded
    <2>3. QED
        BY <2>2, SameSetup DEF Recorded, Slot, Event
<1>3. Retained'
    BY PruningSpares, SameSetup DEF Retained, Slot, Event, PruneBefore
<1>4. QED
    BY <1>1, <1>2, <1>3 DEF Ledger

LEMMA ChargeLedger ==
    ASSUME DistinctNames, Ledger, Typed', NEW c \in Callers, pc[c] = "reserving",
           NEW outcome, Charge(c, outcome)
    PROVE  Ledger'
<1> DEFINE b == bucket[c]
           t == stamp[c]
           new == [id |-> sequence, bucket |-> b, at |-> now, stamp |-> t, cost |-> cost[c]]
<1>1. b \in Buckets /\ cost[c] \in Costs /\ t \in Times /\ now \in Times /\ sequence \in Nat
      /\ setup \in Setups /\ charges \subseteq ChargeType
    BY DEF Ledger, Typed, TypeOK, Waiting
<1>2. t \in Nat /\ now \in Nat /\ MaxLag \in Nat /\ t <= now /\ now <= t + MaxLag
    BY <1>1, WindowType DEF Ledger, Typed, Waiting, Times
<1>3. setup' = setup /\ now' = now /\ sequence' = sequence + 1 /\ charges' = charges \cup {new}
      /\ events' = Reserved(b, cost[c], t)
    BY DEF Charge
<1>4. \A q \in charges : q.id \in Nat /\ q.at \in Nat /\ q.stamp \in Nat
    BY <1>1, WindowType DEF ChargeType, Times
<1>5. Numbered'
    <2>1. IsFiniteSet(charges \cup {new})
        BY FS_AddElement DEF Ledger, Numbered
    <2>2. \A q \in charges : q.id < sequence /\ q.at <= now
        BY DEF Ledger, Numbered
    <2>3. \A q \in charges \cup {new} :
            q.id < sequence + 1 /\ q.stamp <= q.at /\ q.at <= q.stamp + MaxLag /\ q.at <= now
        BY <1>1, <1>2, <1>4 DEF Ledger, Numbered
    <2>4. \A p, q \in charges \cup {new} :
            (p.id <= q.id => p.at <= q.at) /\ (p.id = q.id => p = q)
        BY <1>1, <1>2, <1>4, <2>2 DEF Ledger, Numbered
    <2>5. QED
        BY <1>3, <2>1, <2>3, <2>4, SameSetup DEF Numbered
<1>6. \A d \in Buckets, s \in Slots :
        events'[d][s] = Remaining(b, t)[d][s] \cup IF d = b THEN NewEvents(s, cost[c], t) ELSE {}
    BY <1>1, <1>3, ReservedSlots DEF Ledger, Typed
<1>7. \A i \in Positions, s \in Slots : Slot(Windows[i], t) = s =>
        Event(new, i) \in NewEvents(s, cost[c], t)
    BY DEF Event, NewEvents
<1>8. Recorded'
    <2>1. ASSUME NEW d \in Buckets, NEW s \in Slots, NEW e \in events'[d][s]
          PROVE  /\ s = Slot(Windows[e.window], e.timestamp)
                 /\ \E q \in charges \cup {new} : q.bucket = d /\ e = Event(q, e.window)
        <3>1. CASE e \in Remaining(b, t)[d][s]
            <4>1. e \in events[d][s]
                BY <1>1, <3>1, RemainingType DEF Ledger, Typed
            <4>2. QED
                BY <4>1 DEF Ledger, Recorded
        <3>2. CASE d = b /\ e \in NewEvents(s, cost[c], t)
            <4>1. PICK i \in Positions : e = Event(new, i) /\ Slot(Windows[i], t) = s
                BY <3>2 DEF NewEvents, Event
            <4>2. e.window = i /\ e.timestamp = t
                BY <4>1 DEF Event
            <4>3. QED
                BY <3>2, <4>1, <4>2
        <3>3. QED
            BY <1>6, <2>1, <3>1, <3>2
    <2>2. QED
        BY <1>3, <2>1, SameSetup DEF Recorded, Slot, Event
<1>9. Retained'
    <2>1. ASSUME NEW q \in charges \cup {new}, NEW i \in Positions,
                 Windows[i].kind = "sliding" \/ OrdinaryBuckets,
                 q.stamp > PruneBefore(Windows[i], now)
          PROVE  Event(q, i) \in events'[q.bucket][Slot(Windows[i], q.stamp)]
        <3>1. CASE q \in charges
            <4>1. q.bucket \in Buckets /\ q.stamp \in Times
                BY <1>1, <3>1 DEF ChargeType
            <4>2. Event(q, i) \in Remaining(b, t)[q.bucket][Slot(Windows[i], q.stamp)]
                BY <1>1, <1>2, <2>1, <3>1, PruningSpares
            <4>3. QED
                BY <1>6, <4>1, <4>2, SlotType
        <3>2. CASE q = new
            BY <1>1, <1>6, <1>7, <3>2, SlotType
        <3>3. QED
            BY <3>1, <3>2
    <2>2. QED
        BY <1>3, <2>1, SameSetup DEF Retained, Slot, Event, PruneBefore
<1>10. QED
    BY <1>5, <1>8, <1>9 DEF Ledger

LEMMA TickLedger ==
    ASSUME Ledger, Typed', Tick
    PROVE  Ledger'
<1>1. setup \in Setups /\ now \in Times /\ now' \in Times /\ now \in Nat /\ now' = now + 1
    BY SameSetup, WindowType DEF Ledger, Typed, TypeOK, Tick, Times
<1>2. charges \subseteq ChargeType
    BY DEF Ledger, Typed, TypeOK
<1>3. \A q \in charges : q.at \in Nat /\ q.stamp \in Nat
    BY <1>1, <1>2, WindowType DEF ChargeType, Times
<1>4. Numbered'
    BY <1>1, <1>3, SameSetup DEF Ledger, Numbered, Tick
<1>5. Recorded'
    BY SameSetup DEF Ledger, Recorded, Tick, Slot, Event
<1>6. Retained'
    <2>1. ASSUME NEW q \in charges, NEW i \in Positions,
                 q.stamp > PruneBefore(Windows[i], now + 1)
          PROVE  q.stamp > PruneBefore(Windows[i], now)
        <3>1. PruneBefore(Windows[i], now) \in Int /\ PruneBefore(Windows[i], now + 1) \in Int
                  /\ PruneBefore(Windows[i], now) <= PruneBefore(Windows[i], now + 1)
            BY <1>1, PruneBeforeType
        <3>2. QED
            BY <1>3, <2>1, <3>1
    <2>2. QED
        BY <1>1, <2>1, SameSetup DEF Ledger, Retained, Tick, Slot, Event
<1>7. QED
    BY <1>4, <1>5, <1>6 DEF Ledger

LEMMA LedgerInductive ==
    ASSUME DistinctNames
    PROVE  Ledger /\ [Next]_vars => Ledger'
<1> SUFFICES ASSUME Ledger, [Next]_vars PROVE Ledger'
    OBVIOUS
<1>1. Typed'
    BY TypedInductive DEF Ledger
<1>2. CASE UNCHANGED <<setup, now, events, sequence, charges>>
    BY <1>1, <1>2, SameSetup
    DEF Ledger, Numbered, Recorded, Retained, Slot, Event, PruneBefore
<1>3. \A c \in Callers : pc[c] = "reserving" =>
        bucket[c] \in Buckets /\ stamp[c] \in Times /\ stamp[c] <= now
    BY DEF Ledger, Typed, TypeOK, Waiting
<1>4. ASSUME NEW c \in Callers, Admit(c) PROVE Ledger'
    BY <1>1, <1>4, ChargeLedger DEF Admit
<1>5. ASSUME NEW c \in Callers, Deny(c) PROVE Ledger'
    BY <1>1, <1>3, <1>5, RemainingLedger DEF Deny
<1>6. ASSUME NEW c \in Callers, Fail(c) PROVE Ledger'
    <2>1. CASE Charge(c, "refused")
        BY <1>1, <1>6, <2>1, ChargeLedger DEF Fail
    <2>2. CASE /\ events' = Remaining(bucket[c], stamp[c])
               /\ UNCHANGED <<setup, now, sequence, charges>>
        BY <1>1, <1>3, <1>6, <2>2, RemainingLedger DEF Fail
    <2>3. QED
        BY <1>2, <1>6, <2>1, <2>2 DEF Fail
<1>7. CASE Tick
    BY <1>1, <1>7, TickLedger
<1>8. QED
    BY <1>2, <1>4, <1>5, <1>6, <1>7 DEF Next, Step, Call, Wake, CallAgain, vars

-----------------------------------------------------------------------------
(* Costs of events and of charges *)

LEMMA ChargesCostly ==
    ASSUME Ledger
    PROVE  \A Q \in SUBSET charges : Costly(Q)
<1>1. \A q \in charges : q.cost \in Nat
    BY LimiterAssumption DEF Ledger, Typed, TypeOK, ChargeType
<1>2. Costly(charges)
    BY <1>1 DEF Ledger, Numbered, Costly
<1>3. QED
    BY <1>2, CostlyParts

LEMMA EventsCostly ==
    ASSUME Ledger, NEW b \in Buckets, NEW s \in Slots
    PROVE  \A S \in SUBSET events[b][s] : Costly(S)
<1> DEFINE E == {Event(p[1], p[2]) : p \in charges \X Positions}
           f == [p \in charges \X Positions |-> Event(p[1], p[2])]
<1>1. setup \in Setups /\ events[b][s] \subseteq EventType
    BY DEF Ledger, Typed, TypeOK
<1>2. IsFiniteSet(charges) /\ IsFiniteSet(Positions)
    BY <1>1, WindowType, FS_Interval DEF Ledger, Numbered
<1>3. IsFiniteSet(charges \X Positions)
    BY <1>2, FS_Product
<1>4. f \in Surjection(charges \X Positions, E)
    BY DEF Surjection
<1>5. IsFiniteSet(E)
    BY <1>3, <1>4, FS_Surjection
<1>6. \A e \in events[b][s] : e \in E
    <2> TAKE e \in events[b][s]
    <2>1. PICK q \in charges : e = Event(q, e.window)
        BY DEF Ledger, Recorded
    <2>2. <<q, e.window>> \in charges \X Positions
        BY <1>1 DEF EventType
    <2>3. QED
        BY <2>1, <2>2
<1>7. Costly(events[b][s])
    <2>1. IsFiniteSet(events[b][s])
        BY <1>5, <1>6, FS_Subset
    <2>2. QED
        BY <1>1, <2>1, LimiterAssumption DEF EventType, Costly
<1>8. QED
    BY <1>7, CostlyParts

\* Charges whose events are all there cost no more than those.
LEMMA ChargesWithinEvents ==
    ASSUME Ledger, NEW Q, Q \subseteq charges, NEW i, NEW T, Costly(T),
           \A q \in Q : Event(q, i) \in T
    PROVE  CostOf(Q) <= CostOf(T)
<1> DEFINE f == [q \in Q |-> Event(q, i)]
<1>1. f \in [Q -> T] /\ \A q \in Q : f[q].cost = q.cost
    BY DEF Event
<1>2. \A p, q \in Q : f[p] = f[q] => p.id = q.id
    BY DEF Event
<1>3. \A p, q \in Q : f[p] = f[q] => p = q
    BY <1>2 DEF Ledger, Numbered
<1> HIDE DEF f
<1>4. QED
    BY <1>1, <1>3, CostInjection

\* Events that all stem from certain charges cost no more than those.
LEMMA EventsWithinCharges ==
    ASSUME Ledger, NEW Q, Q \subseteq charges, NEW i, NEW T,
           \A e \in T : \E q \in Q : e = Event(q, i)
    PROVE  CostOf(T) <= CostOf(Q)
<1> DEFINE f == [e \in T |-> CHOOSE q \in Q : e = Event(q, i)]
<1>1. \A e \in T : f[e] \in Q /\ e = Event(f[e], i)
    OBVIOUS
<1>2. f \in [T -> Q]
    BY <1>1
<1> HIDE DEF f
<1>3. \A d, e \in T : f[d] = f[e] => d = e
    BY <1>1
<1>4. \A e \in T : f[e].cost = e.cost
    BY <1>1 DEF Event
<1>5. Costly(Q)
    BY ChargesCostly
<1>6. QED
    BY <1>2, <1>3, <1>4, <1>5, CostInjection

\* The slot of a window as a reservation at t finds it.
Seen(b, i, t) == Pruned(b, Slot(Windows[i], t), t, i)

LEMMA SeenType ==
    ASSUME Ledger, NEW b \in Buckets, NEW i \in Positions, NEW t \in Times
    PROVE  /\ Seen(b, i, t) \subseteq events[b][Slot(Windows[i], t)]
           /\ Seen(b, i, t) \subseteq EventType
           /\ \A S \in SUBSET Seen(b, i, t) : Costly(S)
<1>1. Slot(Windows[i], t) \in Slots
    BY SlotType
<1>2. Seen(b, i, t) \subseteq events[b][Slot(Windows[i], t)]
    BY PrunedSubset DEF Seen
<1>3. events[b][Slot(Windows[i], t)] \subseteq EventType
    BY <1>1 DEF Ledger, Typed, TypeOK
<1>4. \A S \in SUBSET events[b][Slot(Windows[i], t)] : Costly(S)
    BY <1>1, EventsCostly
<1>5. QED
    BY <1>2, <1>3, <1>4

\* What counts now is seen by a reservation at t, if it falls into the same slot.
LEMMA SeenIfCounted ==
    ASSUME DistinctNames, Ledger, NEW b \in Buckets, NEW i \in Positions,
           NEW t \in Times, t <= now, Windows[i].kind = "sliding" \/ OrdinaryBuckets,
           NEW q \in Counted(b, Windows[i], now),
           Slot(Windows[i], q.stamp) = Slot(Windows[i], t)
    PROVE  Event(q, i) \in Seen(b, i, t)
<1>1. setup \in Setups /\ Slot(Windows[i], t) \in Slots
    BY SlotType DEF Ledger, Typed, TypeOK
<1>2. Event(q, i) \in Remaining(b, t)[b][Slot(Windows[i], t)]
    BY PruningSpares DEF Counted
<1>3. Event(q, i) \in Pruned(b, Slot(Windows[i], t), t, Len(Windows))
    BY <1>1, <1>2 DEF Remaining
<1>4. 1..i \subseteq 1..Len(Windows)
    BY <1>1, WindowType
<1>5. QED
    BY <1>3, <1>4 DEF Seen, Pruned, Prune

\* A slot that has been pruned for its window holds an event after the bound that
\* is no later in the reading order, for each of its events.
LEMMA SeenAfterBound ==
    ASSUME Ledger, NEW b \in Buckets, NEW i \in Positions, NEW t \in Times,
           NEW e \in Seen(b, i, t)
    PROVE  \E f \in Seen(b, i, t) :
             Rank(f) <= Rank(e) /\ f.timestamp > PruneBefore(Windows[i], t)
<1> DEFINE s == Slot(Windows[i], t)
           befores == {CleanupBefore(t)} \cup
                      {PruneBefore(Windows[j], t) : j \in {k \in 1..i : Slot(Windows[k], t) = s}}
<1>1. setup \in Setups /\ i \in 1..i
    BY WindowType DEF Ledger, Typed, TypeOK
<1>2. PICK f \in events[b][s] : Rank(f) <= Rank(e) /\ \A x \in befores : f.timestamp > x
    BY DEF Seen, Pruned, Prune
<1>3. PruneBefore(Windows[i], t) \in befores
    BY <1>1
<1>4. Rank(f) <= Rank(f)
    <2>1. f \in EventType
        BY SlotType DEF Ledger, Typed, TypeOK
    <2>2. QED
        BY <1>1, <2>1, RankType
<1>5. f \in Seen(b, i, t)
    BY <1>2, <1>4 DEF Seen, Pruned, Prune
<1>6. QED
    BY <1>2, <1>3, <1>5

-----------------------------------------------------------------------------
(* Sliding windows *)

\* Where a call is admitted, the charges made less than a period minus the lag
\* ago leave room for it.  A deque whose events are out of order may be read past
\* some that still count by their dates: those were charged before an event that
\* is a whole period old, and so long enough ago.
LEMMA AdmissionFits ==
    ASSUME DistinctNames, Ledger, NEW b \in Buckets, NEW c \in Costs, NEW t \in Times,
           t <= now, now <= t + MaxLag, WaitSeconds(b, c, t) = 0,
           NEW i \in Positions, Windows[i].kind = "sliding"
    PROVE  CostOf({q \in charges : q.bucket = b /\ q.at > now - (Windows[i].period - MaxLag)})
               + c <= Windows[i].calls
<1> DEFINE w == Windows[i]
           Q == {q \in charges : q.bucket = b /\ q.at > now - (w.period - MaxLag)}
           slot == Seen(b, i, t)
           first == First(Enough(slot, w, c))
<1>1. /\ setup \in Setups /\ charges \subseteq ChargeType /\ now \in Nat /\ t \in Nat
      /\ MaxLag \in Nat /\ w.period \in Nat \ {0} /\ w.calls \in Nat /\ c \in Nat
    BY WindowType, LimiterAssumption DEF Ledger, Typed, TypeOK, Times
<1>2. \A q \in charges : q.at \in Nat /\ q.stamp \in Nat /\ q.id \in Nat /\ q.at <= q.stamp + MaxLag
    BY <1>1, WindowType DEF Ledger, Numbered, ChargeType, Times
<1>3. \A q \in Q : Event(q, i) \in slot
    <2> TAKE q \in Q
    <2>1. q.stamp > now - w.period
        BY <1>1, <1>2
    <2>2. q \in Counted(b, w, now)
        BY <2>1 DEF Counted, PruneBefore
    <2>3. Slot(w, q.stamp) = Slot(w, t)
        BY DEF Slot
    <2>4. QED
        BY <2>2, <2>3, SeenIfCounted
<1>4. WindowWait(slot, w, t, c) = 0
    <2>1. WaitFor(b, c, t, i) \in Nat /\ WaitFor(b, c, t, i) <= 0
        BY WaitSecondsMax DEF Ledger, Typed
    <2>2. QED
        BY <2>1 DEF WaitFor, Seen
<1>5. CostOf(Q) \in Nat
    BY ChargesCostly, UnitsFinite
<1>6. CASE CostOf(slot) + c <= w.calls
    <2>1. Costly(slot)
        BY SeenType
    <2>2. CostOf(Q) <= CostOf(slot) /\ CostOf(slot) \in Nat
        BY <1>3, <2>1, ChargesWithinEvents, UnitsFinite
    <2>3. QED
        BY <1>1, <1>5, <1>6, <2>2
<1>7. CASE ~(CostOf(slot) + c <= w.calls)
    <2>1. Enough(slot, w, c) # {} /\ Max({0, first.timestamp + w.period - t}) = 0
        BY <1>1, <1>4, <1>7 DEF WindowWait
    <2>2. \A e \in slot : e \in EventType /\ Rank(e) \in Nat /\ e.timestamp \in Nat
        BY <1>1, SeenType, RankType
    <2>3. first \in slot /\ CostOf(After(slot, first)) + c <= w.calls
        BY <2>1, <2>2, FirstProperty DEF Enough
    <2>4. first.timestamp <= t - w.period
        BY <1>1, <2>1, <2>2, <2>3, MaxWithZero
    <2>5. Storage = "memory"
        <3>1. SUFFICES ASSUME Storage # "memory" PROVE FALSE
            OBVIOUS
        <3>2. PICK f \in slot : Rank(f) <= Rank(first) /\ f.timestamp > t - w.period
            BY <2>3, SeenAfterBound DEF PruneBefore
        <3>3. QED
            BY <1>1, <2>2, <2>3, <2>4, <3>1, <3>2 DEF Rank
    <2>6. PICK p \in charges : first = Event(p, first.window)
        BY <2>3, SeenType, SlotType DEF Ledger, Recorded
    <2>7. p.at <= now - (w.period - MaxLag) /\ first.id = p.id
        <3>1. first.timestamp = p.stamp /\ first.id = p.id
            BY <2>6 DEF Event
        <3>2. QED
            BY <1>1, <1>2, <2>4, <3>1
    <2>8. \A q \in Q : Event(q, i) \in After(slot, first)
        <3> TAKE q \in Q
        <3>1. ~(q.id <= p.id)
            BY <1>1, <1>2, <2>7 DEF Ledger, Numbered
        <3>2. Event(q, i).id = q.id
            BY DEF Event
        <3>3. Rank(Event(q, i)) > Rank(first)
            BY <1>2, <2>5, <2>7, <3>1, <3>2 DEF Rank
        <3>4. QED
            BY <1>3, <3>3 DEF After
    <2>9. Costly(After(slot, first))
        BY SeenType DEF After
    <2>10. CostOf(Q) <= CostOf(After(slot, first)) /\ CostOf(After(slot, first)) \in Nat
        BY <2>8, <2>9, ChargesWithinEvents, UnitsFinite
    <2>11. QED
        BY <1>1, <1>5, <2>3, <2>10
<1>8. QED
    BY <1>6, <1>7

LEMMA SlidingInductive ==
    ASSUME DistinctNames
    PROVE  Ledger /\ CallsPerPeriod /\ [Next]_vars => CallsPerPeriod'
<1> SUFFICES ASSUME Ledger, CallsPerPeriod, [Next]_vars PROVE CallsPerPeriod'
    OBVIOUS
<1>1. CASE UNCHANGED <<setup, charges>>
    BY <1>1, SameSetup
    DEF CallsPerPeriod, AdmittedIn, SlidingWindows, Ledger, Typed, TypeOK
<1>2. ASSUME NEW c \in Callers, pc[c] = "reserving", NEW outcome, Charge(c, outcome)
      PROVE  CallsPerPeriod'
    <2> DEFINE new == [id |-> sequence, bucket |-> bucket[c], at |-> now,
                       stamp |-> stamp[c], cost |-> cost[c]]
               In(C, b, w, u) ==
                   {q \in C : q.bucket = b /\ q.at \in (u - (w.period - MaxLag) + 1)..u}
    <2>1. /\ bucket[c] \in Buckets /\ cost[c] \in Costs /\ stamp[c] \in Times
          /\ stamp[c] <= now /\ now <= stamp[c] + MaxLag /\ setup \in Setups
          /\ WaitSeconds(bucket[c], cost[c], stamp[c]) = 0
          /\ setup' = setup /\ charges' = charges \cup {new} /\ charges \subseteq ChargeType
        BY <1>2 DEF Ledger, Typed, TypeOK, Waiting, Charge
    <2>2. now \in Nat /\ MaxLag \in Nat /\ Times \subseteq Nat /\ cost[c] \in Nat
        <3>1. now \in Times /\ cost[c] \in Nat
            BY <2>1, LimiterAssumption DEF Ledger, Typed, TypeOK
        <3>2. QED
            BY <2>1, <3>1, WindowType DEF Times
    <2>3. new \notin charges
        <3>1. \A q \in charges : q.id < sequence /\ q.id \in Nat
            BY <2>1 DEF Ledger, Numbered, ChargeType
        <3>2. QED
            BY <3>1 DEF Ledger, Typed, TypeOK
    <2>4. ASSUME NEW b \in Buckets, NEW i \in Positions, Windows[i].kind = "sliding",
                 NEW u \in Times
          PROVE  CostOf(In(charges \cup {new}, b, Windows[i], u)) <= Windows[i].calls
        <3> DEFINE w == Windows[i]
                   old == In(charges, b, w, u)
        <3>1. CostOf(old) <= w.calls
            BY <2>4 DEF CallsPerPeriod, AdmittedIn, SlidingWindows
        <3>2. w.period \in Nat /\ w.calls \in Nat
            BY <2>1, WindowType
        <3>3. CASE In(charges \cup {new}, b, w, u) = old
            BY <3>1, <3>3
        <3>4. CASE In(charges \cup {new}, b, w, u) = old \cup {new} /\ b = bucket[c]
                   /\ now \in (u - (w.period - MaxLag) + 1)..u
            <4> DEFINE Q == {q \in charges :
                               q.bucket = b /\ q.at > now - (w.period - MaxLag)}
            <4>1. CostOf(Q) + cost[c] <= w.calls
                BY <2>1, <2>4, <3>4, AdmissionFits
            <4>2. old \subseteq Q
                <5>1. \A q \in charges : q.at \in Nat
                    BY <2>1, <2>2 DEF ChargeType
                <5>2. QED
                    BY <2>2, <3>2, <3>4, <5>1
            <4>3. Costly(Q) /\ Costly(old)
                BY ChargesCostly
            <4>4. CostOf(old) <= CostOf(Q) /\ CostOf(Q) \in Nat /\ CostOf(old) \in Nat
                BY <4>2, <4>3, CostMonotone, UnitsFinite
            <4>5. CostOf(old \cup {new}) = CostOf(old) + cost[c]
                <5>1. new.cost = cost[c] /\ new \notin old
                    BY <2>3
                <5> HIDE DEF new, old
                <5>2. QED
                    BY <2>2, <4>3, <5>1, CostAdd
            <4> HIDE DEF Q, new, old, In
            <4>6. CostOf(old \cup {new}) <= w.calls
                BY <2>2, <3>2, <4>1, <4>4, <4>5
            <4>7. QED
                BY <3>4, <4>6
        <3>5. In(charges \cup {new}, b, w, u) = old
              \/ /\ In(charges \cup {new}, b, w, u) = old \cup {new} /\ b = bucket[c]
                 /\ now \in (u - (w.period - MaxLag) + 1)..u
            OBVIOUS
        <3> HIDE DEF new, old, In
        <3>6. QED
            BY <3>3, <3>4, <3>5
    <2>5. QED
        BY <2>1, <2>4, SameSetup DEF CallsPerPeriod, AdmittedIn, SlidingWindows
<1>3. QED
    BY <1>1, <1>2
    DEF Next, Step, Call, Admit, Deny, Fail, Wake, CallAgain, Tick, vars

\* No more than `calls` units of cost are admitted to a bucket in any period less
\* the lag, by any sliding window, whatever the storage, and however reservations
\* of callers that were held up overtake one another.
THEOREM LimiterHoldsPeriods ==
    ASSUME DistinctNames
    PROVE  Spec => []CallsPerPeriod
<1>1. Init => Ledger
    BY InitLedger
<1>2. Init => CallsPerPeriod
    <2> SUFFICES ASSUME Init PROVE CallsPerPeriod
        OBVIOUS
    <2>1. \A b, times : AdmittedIn(b, times) = 0
        <3>1. \A b, times : {q \in charges : q.bucket = b /\ q.at \in times} = {}
            BY DEF Init
        <3>2. QED
            BY <3>1, CostEmpty DEF AdmittedIn
    <2>2. \A i \in Positions : Windows[i].calls \in Nat
        BY WindowType DEF Init
    <2>3. QED
        BY <2>1, <2>2 DEF CallsPerPeriod, SlidingWindows
<1>3. Ledger /\ [Next]_vars => Ledger'
    BY LedgerInductive
<1>4. Ledger /\ CallsPerPeriod /\ [Next]_vars => CallsPerPeriod'
    BY SlidingInductive
<1>5. QED
    BY <1>1, <1>2, <1>3, <1>4, PTL DEF Spec

-----------------------------------------------------------------------------
(* Without lag: a slot holds exactly what counts *)

\* The context of the results about punctual callers.
Punctual == DistinctNames /\ OrdinaryBuckets /\ Ledger /\ MaxLag = 0

LEMMA PunctualCharges ==
    ASSUME Punctual
    PROVE  /\ setup \in Setups /\ now \in Times /\ now \in Nat
           /\ \A q \in charges :
                q.at = q.stamp /\ q.stamp \in Nat /\ q.id \in Nat /\ q.stamp <= now
                /\ q.stamp \in Times
           /\ \A p, q \in charges : p.id <= q.id => p.stamp <= q.stamp
<1>1. setup \in Setups /\ now \in Times /\ charges \subseteq ChargeType
    BY DEF Punctual, Ledger, Typed, TypeOK
<1>2. Times \subseteq Nat
    BY <1>1, WindowType DEF Times
<1>3. \A q \in charges : q.at \in Nat /\ q.stamp \in Nat /\ q.id \in Nat /\ q.stamp \in Times
    BY <1>1, <1>2 DEF ChargeType
<1>4. QED
    BY <1>1, <1>2, <1>3 DEF Punctual, Ledger, Numbered

LEMMA SeenIsCounted ==
    ASSUME Punctual, NEW b \in Buckets, NEW i \in Positions
    PROVE  /\ \A q \in Counted(b, Windows[i], now) : Event(q, i) \in Seen(b, i, now)
           /\ \A e \in Seen(b, i, now) :
                \E q \in Counted(b, Windows[i], now) : e = Event(q, i)
<1> DEFINE w == Windows[i]
<1>1. /\ setup \in Setups /\ now \in Times /\ now \in Nat /\ now <= now
      /\ DistinctNames /\ OrdinaryBuckets /\ Ledger
    BY PunctualCharges DEF Punctual
<1>2. PruneBefore(w, now) \in Int
    BY <1>1, PruneBeforeType
<1>3. ASSUME NEW q \in Counted(b, w, now) PROVE Event(q, i) \in Seen(b, i, now)
    <2>1. q \in charges /\ q.stamp > PruneBefore(w, now)
              /\ q.stamp \in Times /\ q.stamp \in Nat /\ q.stamp <= now
        BY PunctualCharges DEF Counted
    <2>2. CASE w.kind = "sliding"
        BY <1>1, <2>2, SeenIfCounted DEF Slot
    <2>3. CASE w.kind = "calendar"
        <3>1. /\ Start(w, now) \in Nat /\ End(w, now) \in Nat /\ now < End(w, now)
              /\ q.stamp > Start(w, now) - 1
            BY <1>1, <2>1, <2>3, Bounds DEF PruneBefore
        <3>2. Start(w, now) <= q.stamp /\ q.stamp < End(w, now)
            BY <1>1, <2>1, <3>1
        <3>3. Start(w, q.stamp) = Start(w, now)
            BY <1>1, <2>1, <2>3, <3>2, BucketsInOrder
        <3>4. Slot(w, q.stamp) = Slot(w, now)
            BY <3>3 DEF Slot
        <3>5. QED
            BY <1>1, <3>4, SeenIfCounted
    <2>4. QED
        BY <1>1, <2>2, <2>3, WindowType
<1>4. ASSUME NEW e \in Seen(b, i, now)
      PROVE  \E q \in Counted(b, w, now) : e = Event(q, i)
    <2>1. e \in events[b][Slot(w, now)] /\ e \in EventType /\ Slot(w, now) \in Slots
        BY <1>1, SeenType, SlotType
    <2>2. PICK q \in charges : q.bucket = b /\ e = Event(q, e.window)
        BY <1>1, <2>1 DEF Ledger, Recorded
    <2>3. Slot(w, now) = Slot(Windows[e.window], e.timestamp) /\ e.window \in Positions
        BY <1>1, <2>1 DEF Ledger, Recorded, EventType
    <2>4. e.window = i
        BY <1>1, <2>3, SlotOfOneWindow
    <2>5. PICK f \in Seen(b, i, now) : Rank(f) <= Rank(e) /\ f.timestamp > PruneBefore(w, now)
        BY <1>1, SeenAfterBound
    <2>6. PICK p \in charges : f = Event(p, f.window)
        BY <1>1, <2>1, SeenType DEF Ledger, Recorded
    <2>7. f.timestamp = p.stamp /\ f.id = p.id /\ e.timestamp = q.stamp /\ e.id = q.id
        BY <2>2, <2>6 DEF Event
    <2>8. p.stamp <= q.stamp
        <3>1. CASE Storage = "memory"
            BY <2>5, <2>7, <3>1, PunctualCharges DEF Rank
        <3>2. CASE Storage # "memory"
            BY <2>5, <2>7, <3>2 DEF Rank
        <3>3. QED
            BY <3>1, <3>2
    <2>9. q.stamp > PruneBefore(w, now)
        BY <1>2, <2>5, <2>7, <2>8, PunctualCharges
    <2>10. QED
        BY <2>2, <2>4, <2>9 DEF Counted
<1>5. QED
    BY <1>3, <1>4

LEMMA SeenCost ==
    ASSUME Punctual, NEW b \in Buckets, NEW i \in Positions
    PROVE  /\ CostOf(Seen(b, i, now)) = CostOf(Counted(b, Windows[i], now))
           /\ CostOf(Seen(b, i, now)) \in Nat
<1>1. Ledger /\ now \in Times
    BY PunctualCharges DEF Punctual
<1>2. Costly(Seen(b, i, now)) /\ Costly(Counted(b, Windows[i], now))
    BY <1>1, SeenType, ChargesCostly DEF Counted
<1>3. CostOf(Seen(b, i, now)) \in Nat /\ CostOf(Counted(b, Windows[i], now)) \in Nat
    BY <1>2, UnitsFinite
<1>4. Counted(b, Windows[i], now) \subseteq charges
    BY DEF Counted
<1>5. CostOf(Counted(b, Windows[i], now)) <= CostOf(Seen(b, i, now))
    BY <1>1, <1>2, <1>4, SeenIsCounted, ChargesWithinEvents
<1>6. CostOf(Seen(b, i, now)) <= CostOf(Counted(b, Windows[i], now))
    BY <1>1, <1>4, SeenIsCounted, EventsWithinCharges
<1>7. QED
    BY <1>3, <1>5, <1>6

\* Every slot of every window holds the charges that count in it, no more and no
\* fewer, where callers reserve at the instant of their reading.
THEOREM LimiterKeepsLedger ==
    ASSUME DistinctNames, OrdinaryBuckets
    PROVE  Spec => []LedgerExact
<1>1. Ledger => LedgerExact
    <2> SUFFICES ASSUME Ledger, MaxLag = 0, NEW b \in Buckets, NEW i \in Positions
                 PROVE  CostOf(Seen(b, i, now)) =
                          AdmittedIn(b, (PruneBefore(Windows[i], now) + 1)..now)
        BY DEF LedgerExact, Seen
    <2>1. Punctual
        BY DEF Punctual
    <2>2. PruneBefore(Windows[i], now) \in Int
        BY <2>1, PunctualCharges, PruneBeforeType
    <2>3. \A q \in charges : q.at \in (PruneBefore(Windows[i], now) + 1)..now
                               <=> q.stamp > PruneBefore(Windows[i], now)
        BY <2>1, <2>2, PunctualCharges
    <2>4. {q \in charges : q.bucket = b /\ q.at \in (PruneBefore(Windows[i], now) + 1)..now}
            = Counted(b, Windows[i], now)
        BY <2>3 DEF Counted
    <2>5. QED
        BY <2>1, <2>4, SeenCost DEF AdmittedIn
<1>2. Init => Ledger
    BY InitLedger
<1>3. Ledger /\ [Next]_vars => Ledger'
    BY LedgerInductive
<1>4. QED
    BY <1>1, <1>2, <1>3, PTL DEF Spec

-----------------------------------------------------------------------------
(* Without lag: waits *)

LEMMA CountedCost ==
    ASSUME Ledger, NEW b, NEW w, NEW t
    PROVE  /\ Costly(Counted(b, w, t)) /\ Counted(b, w, t) \subseteq charges
           /\ CostOf(Counted(b, w, t)) \in Nat
BY ChargesCostly, UnitsFinite DEF Counted

\* If the call does not fit a sliding window, then it waits until the event that
\* has to leave last does so.
LEMMA SlidingWait ==
    ASSUME Punctual, NEW b \in Buckets, NEW c \in Nat, NEW i \in Positions,
           Windows[i].kind = "sliding", c <= Windows[i].calls,
           ~(CostOf(Seen(b, i, now)) + c <= Windows[i].calls)
    PROVE  LET enough == Enough(Seen(b, i, now), Windows[i], c)
           IN  /\ enough # {}
               /\ First(enough) \in enough
               /\ \A e \in enough : Rank(First(enough)) <= Rank(e)
               /\ WaitFor(b, c, now, i) = First(enough).timestamp + Windows[i].period - now
               /\ WaitFor(b, c, now, i) > 0
<1> DEFINE w == Windows[i]
           S == Seen(b, i, now)
           enough == Enough(S, w, c)
           ranks == {Rank(e) : e \in S}
           f == [e \in S |-> Rank(e)]
<1>1. setup \in Setups /\ now \in Times /\ now \in Nat /\ Ledger
      /\ w.period \in Nat /\ w.calls \in Nat
    BY PunctualCharges, WindowType DEF Punctual
<1>2. \A e \in S : e \in EventType /\ Rank(e) \in Nat /\ e.timestamp \in Nat
    BY <1>1, SeenType, RankType
<1>3. S # {}
    <2>1. S = {} => CostOf(S) = 0
        BY CostEmpty
    <2>2. QED
        BY <1>1, <2>1
<1>4. PICK last \in S : \A e \in S : Rank(e) <= Rank(last)
    <2>1. f \in Surjection(S, ranks) /\ IsFiniteSet(S)
        BY <1>1, SeenType DEF Surjection, Costly
    <2>2. IsFiniteSet(ranks)
        BY <2>1, FS_Surjection
    <2>3. ranks \subseteq Int /\ ranks # {}
        BY <1>2, <1>3
    <2>4. PICK m \in ranks : \A n \in ranks : n <= m
        <3> HIDE DEF ranks
        <3> QED
            BY <2>2, <2>3, GreatestElement
    <2>5. QED
        BY <2>4
<1>5. last \in enough
    <2>1. After(S, last) = {}
        BY <1>2, <1>4 DEF After
    <2>2. CostOf(After(S, last)) + c <= w.calls
        BY <1>1, <2>1, CostEmpty
    <2>3. QED
        BY <2>2 DEF Enough
<1>6. enough # {} /\ First(enough) \in enough
          /\ \A e \in enough : Rank(First(enough)) <= Rank(e)
    <2>1. \A e \in enough : Rank(e) \in Nat
        BY <1>2 DEF Enough
    <2>2. enough # {}
        BY <1>5
    <2> HIDE DEF enough
    <2>3. QED
        BY <2>1, <2>2, FirstProperty
<1>7. First(enough).timestamp > now - w.period /\ First(enough).timestamp \in Nat
    <2>1. First(enough) \in S
        BY <1>6 DEF Enough
    <2>2. PICK q \in Counted(b, w, now) : First(enough) = Event(q, i)
        BY <2>1, SeenIsCounted
    <2>3. q.stamp > now - w.period /\ First(enough).timestamp = q.stamp
        BY <2>2 DEF Counted, PruneBefore, Event
    <2>4. QED
        BY <1>2, <2>1, <2>3
<1>8. WaitFor(b, c, now, i) = Max({0, First(enough).timestamp + w.period - now})
    BY <1>6 DEF WaitFor, WindowWait, Seen
<1>9. First(enough).timestamp + w.period - now \in Int
          /\ First(enough).timestamp + w.period - now > 0
    BY <1>1, <1>7
<1>10. QED
    BY <1>6, <1>8, <1>9, MaxWithZero

\* The call fits the window at t if and only if the wait is over by then.
LEMMA WaitExact ==
    ASSUME Punctual, NEW b \in Buckets, NEW c \in Nat, NEW i \in Positions,
           c <= Windows[i].calls, NEW t \in Times, t >= now
    PROVE  CostOf(Counted(b, Windows[i], t)) + c <= Windows[i].calls
             <=> t >= now + WaitFor(b, c, now, i)
<1> DEFINE w == Windows[i]
           S == Seen(b, i, now)
           first == First(Enough(S, w, c))
<1>1. /\ setup \in Setups /\ now \in Times /\ now \in Nat /\ t \in Nat /\ Ledger
      /\ w.period \in Nat /\ w.calls \in Nat
    BY PunctualCharges, WindowType DEF Punctual, Times
<1>2. CostOf(S) = CostOf(Counted(b, w, now)) /\ CostOf(S) \in Nat
    BY SeenCost
<1>3. CostOf(Counted(b, w, t)) \in Nat
    BY <1>1, CountedCost
<1>4. CASE CostOf(S) + c <= w.calls
    <2>1. WaitFor(b, c, now, i) = 0
        BY <1>4 DEF WaitFor, WindowWait, Seen
    <2>2. Counted(b, w, t) \subseteq Counted(b, w, now)
        BY <1>1, PruneBeforeType, PunctualCharges DEF Counted
    <2>3. CostOf(Counted(b, w, t)) <= CostOf(Counted(b, w, now))
        BY <1>1, <2>2, CountedCost, CostMonotone
    <2>4. QED
        BY <1>1, <1>2, <1>3, <1>4, <2>1, <2>3
<1>5. CASE ~(CostOf(S) + c <= w.calls) /\ w.kind = "calendar"
    <2>1. End(w, now) \in Nat /\ End(w, now) > now /\ Start(w, now) \in Nat /\ Start(w, now) <= now
        BY <1>1, <1>5, Bounds
    <2>2. WaitFor(b, c, now, i) = End(w, now) - now
        <3>1. Max({0, End(w, now) - now}) = End(w, now) - now
            BY <1>1, <2>1, MaxWithZero
        <3>2. QED
            BY <1>5, <3>1 DEF WaitFor, WindowWait, Seen
    <2>3. CASE t < End(w, now)
        <3>1. Start(w, t) = Start(w, now)
            BY <1>1, <1>5, <2>1, <2>3, BucketsInOrder
        <3>2. Counted(b, w, t) = Counted(b, w, now)
            BY <1>5, <3>1 DEF Counted, PruneBefore
        <3>3. QED
            BY <1>1, <1>2, <1>5, <2>1, <2>2, <2>3, <3>2
    <2>4. CASE t >= End(w, now)
        <3>1. Start(w, t) >= End(w, now) /\ Start(w, t) \in Nat
            BY <1>1, <1>5, <2>4, Bounds, BucketsInOrder
        <3>2. Counted(b, w, t) = {}
            BY <1>1, <1>5, <2>1, <3>1, PunctualCharges DEF Counted, PruneBefore
        <3>3. QED
            BY <1>1, <2>1, <2>2, <2>4, <3>2, CostEmpty
    <2>5. QED
        BY <1>1, <2>1, <2>3, <2>4
<1>6. CASE ~(CostOf(S) + c <= w.calls) /\ w.kind = "sliding"
    <2>1. /\ first \in S /\ CostOf(After(S, first)) + c <= w.calls
          /\ \A e \in S : CostOf(After(S, e)) + c <= w.calls => Rank(first) <= Rank(e)
          /\ WaitFor(b, c, now, i) = first.timestamp + w.period - now
        BY <1>6, SlidingWait DEF Enough
    <2>2. \A e \in S : e \in EventType /\ Rank(e) \in Nat /\ e.timestamp \in Nat
        BY <1>1, SeenType, RankType
    <2>3. PICK p \in charges : first = Event(p, i) /\ first.id = p.id /\ first.timestamp = p.stamp
        <3>1. PICK p \in Counted(b, w, now) : first = Event(p, i)
            BY <2>1, SeenIsCounted
        <3>2. p \in charges
            BY DEF Counted
        <3>3. Event(p, i).id = p.id /\ Event(p, i).timestamp = p.stamp
            BY DEF Event
        <3>4. QED
            BY <3>1, <3>2, <3>3
    <2>4. CASE t >= first.timestamp + w.period
        <3>1. ASSUME NEW q \in Counted(b, w, t) PROVE Event(q, i) \in After(S, first)
            <4>1. q \in charges /\ q.stamp > t - w.period /\ q.bucket = b
                  /\ Event(q, i).id = q.id /\ Event(q, i).timestamp = q.stamp
                BY <1>6 DEF Counted, PruneBefore, Event
            <4>2. q.stamp \in Nat /\ q.id \in Nat /\ p.id \in Nat
                      /\ (q.id <= p.id => q.stamp <= p.stamp)
                BY <4>1, PunctualCharges
            <4>3. q.stamp > first.timestamp
                BY <1>1, <2>1, <2>2, <2>4, <4>1, <4>2
            <4>4. q \in Counted(b, w, now)
                BY <1>1, <1>6, <4>1, <4>2 DEF Counted, PruneBefore
            <4>5. Event(q, i) \in S
                BY <4>4, SeenIsCounted
            <4>6. Rank(Event(q, i)) > Rank(first)
                BY <2>1, <2>2, <2>3, <4>1, <4>2, <4>3 DEF Rank
            <4>7. QED
                BY <4>5, <4>6 DEF After
        <3>2. Costly(After(S, first))
            BY <1>1, SeenType DEF After
        <3>3. CostOf(Counted(b, w, t)) <= CostOf(After(S, first))
            BY <1>1, <3>1, <3>2, CountedCost, ChargesWithinEvents
        <3>4. CostOf(After(S, first)) \in Nat
            BY <3>2, UnitsFinite
        <3>5. QED
            BY <1>1, <1>3, <2>1, <2>2, <2>4, <3>3, <3>4
    <2>5. CASE t < first.timestamp + w.period
        <3> DEFINE G == {e \in S : Rank(e) >= Rank(first)}
                   lower == {e \in S : Rank(e) < Rank(first)}
        <3>1. ASSUME NEW e \in G PROVE \E q \in Counted(b, w, t) : e = Event(q, i)
            <4>1. PICK q \in Counted(b, w, now) : e = Event(q, i)
                BY <3>1, SeenIsCounted
            <4>2. q \in charges /\ q.bucket = b /\ e.id = q.id /\ e.timestamp = q.stamp
                BY <4>1 DEF Counted, Event
            <4>3. q.stamp \in Nat /\ (p.id <= q.id => p.stamp <= q.stamp)
                BY <4>2, PunctualCharges
            <4>4. q.stamp >= first.timestamp
                BY <2>1, <2>2, <2>3, <3>1, <4>2, <4>3 DEF Rank
            <4>5. q.stamp > t - w.period
                BY <1>1, <2>1, <2>2, <2>5, <4>3, <4>4
            <4>6. QED
                BY <1>6, <4>1, <4>2, <4>5 DEF Counted, PruneBefore
        <3>2. CostOf(G) <= CostOf(Counted(b, w, t)) /\ CostOf(G) \in Nat
            <4>1. Costly(G)
                BY <1>1, SeenType
            <4>2. CostOf(G) <= CostOf(Counted(b, w, t))
                <5> HIDE DEF G
                <5> QED
                    BY <1>1, <3>1, CountedCost, EventsWithinCharges
            <4>3. QED
                BY <4>1, <4>2, UnitsFinite
        <3>3. ~(CostOf(G) + c <= w.calls)
            <4>1. CASE lower = {}
                <5>1. \A e \in S : Rank(e) >= Rank(first)
                    BY <2>1, <2>2, <4>1
                <5>2. G = S
                    BY <5>1
                <5>3. QED
                    BY <1>6, <5>2
            <4>2. CASE lower # {}
                <5> DEFINE ranks == {Rank(e) : e \in lower}
                           f == [e \in lower |-> Rank(e)]
                <5>1. f \in Surjection(lower, ranks) /\ IsFiniteSet(lower)
                    BY <1>1, SeenType DEF Surjection, Costly
                <5>2. IsFiniteSet(ranks)
                    BY <5>1, FS_Surjection
                <5>3. ranks \subseteq Int /\ ranks # {}
                    BY <2>2, <4>2
                <5>4. PICK m \in ranks : \A n \in ranks : n <= m
                    <6> HIDE DEF ranks
                    <6> QED
                        BY <5>2, <5>3, GreatestElement
                <5>5. PICK d \in lower : \A e \in lower : Rank(e) <= Rank(d)
                    BY <5>4
                <5>6. \A e \in S : Rank(e) > Rank(d) <=> Rank(e) >= Rank(first)
                    BY <2>1, <2>2, <5>5
                <5>7. After(S, d) = G
                    BY <5>6 DEF After
                <5>8. ~(Rank(first) <= Rank(d)) /\ d \in S
                    BY <2>1, <2>2
                <5>9. QED
                    BY <2>1, <5>7, <5>8
            <4>3. QED
                BY <4>1, <4>2
        <3> HIDE DEF G
        <3>4. QED
            BY <1>1, <1>3, <2>1, <2>2, <2>5, <3>2, <3>3
    <2>6. QED
        BY <1>1, <2>1, <2>2, <2>4, <2>5
<1>7. QED
    BY <1>1, <1>4, <1>5, <1>6, WindowType

\* A call waits for no window exactly if it fits all of them, and it fits all of
\* them at t exactly if the longest wait is over.
LEMMA WaitSecondsExact ==
    ASSUME Punctual, NEW b \in Buckets, NEW c \in Nat, ~Oversized(c),
           NEW t \in Times, t >= now
    PROVE  Fits(b, c, t) <=> t >= now + WaitSeconds(b, c, now)
<1>1. /\ setup \in Setups /\ now \in Times /\ now \in Nat /\ t \in Nat /\ TypeOK
    BY PunctualCharges, WindowType DEF Punctual, Ledger, Typed, Times
<1>2. \A i \in Positions : c <= Windows[i].calls
    BY <1>1, WindowType DEF Oversized
<1>3. Fits(b, c, t) <=> \A i \in Positions : t >= now + WaitFor(b, c, now, i)
    BY <1>2, WaitExact DEF Fits
<1>4. /\ WaitSeconds(b, c, now) \in Nat
      /\ \A i \in Positions :
           WaitFor(b, c, now, i) \in Nat /\ WaitFor(b, c, now, i) <= WaitSeconds(b, c, now)
      /\ \E i \in Positions : WaitFor(b, c, now, i) = WaitSeconds(b, c, now)
    BY <1>1, WaitSecondsMax
<1>5. QED
    BY <1>1, <1>3, <1>4

\* A refusal names a bucket's wait for a cost that the windows can hold.
DenialTyped ==
    \A b \in Buckets : lastDenial[b] # NoDenial =>
        lastDenial[b].cost \in Costs /\ ~Oversized(lastDenial[b].cost)

Refusals == Ledger /\ DenialTyped /\ DenialExact

LEMMA InitRefusals == Init => Refusals
BY InitLedger DEF Init, Refusals, DenialTyped, DenialExact

\* A refusal is exact when it is made.
LEMMA DenyRefusals ==
    ASSUME DistinctNames, OrdinaryBuckets, Refusals, Ledger', NEW c \in Callers, Deny(c)
    PROVE  Refusals'
<1> DEFINE b == bucket[c]
           wait == WaitSeconds(b, cost[c], stamp[c])
<1>1. /\ setup' = setup /\ now' = now /\ charges' = charges /\ setup \in Setups
      /\ lastDenial' = [lastDenial EXCEPT ![b] = [cost |-> cost[c], until |-> stamp[c] + wait]]
      /\ lastDenial \in [Buckets -> [cost : Costs \cup {0}, until : Nat]]
    BY DEF Deny, Refusals, Ledger, Typed, TypeOK
<1>2. /\ b \in Buckets /\ cost[c] \in Costs /\ ~Oversized(cost[c])
      /\ stamp[c] \in Times /\ stamp[c] <= now /\ now <= stamp[c] + MaxLag
    BY DEF Deny, Refusals, Ledger, Typed, TypeOK, Waiting
<1>3. DenialTyped'
    BY <1>1, <1>2, SameSetup DEF Refusals, DenialTyped
<1>4. ASSUME MaxLag = 0, NEW t \in Times, t >= now
      PROVE  Fits(b, cost[c], t) <=> t >= stamp[c] + wait
    <2>1. Punctual
        BY <1>4 DEF Refusals, Punctual
    <2>2. stamp[c] = now
        <3>1. stamp[c] \in Nat /\ now \in Nat
            BY <1>1, <1>2, <2>1, PunctualCharges, WindowType DEF Times
        <3>2. QED
            BY <1>2, <1>4, <3>1
    <2>3. cost[c] \in Nat
        BY <1>2, LimiterAssumption
    <2>4. QED
        BY <1>2, <1>4, <2>1, <2>2, <2>3, WaitSecondsExact
<1>5. \A d, n, t : Fits(d, n, t)' <=> Fits(d, n, t)
    BY <1>1, SameSetup DEF Fits, Counted, PruneBefore
<1>6. DenialExact'
    <2> HIDE DEF wait, b
    <2>1. ASSUME MaxLag = 0, NEW d \in Buckets, lastDenial'[d] # NoDenial, NEW t \in Times, t >= now
          PROVE  Fits(d, lastDenial'[d].cost, t) <=> t >= lastDenial'[d].until
        <3>1. CASE d = b
            <4>1. lastDenial'[d] = [cost |-> cost[c], until |-> stamp[c] + wait]
                BY <1>1, <1>2, <3>1
            <4>2. QED
                BY <1>4, <2>1, <3>1, <4>1
        <3>2. CASE d # b
            <4>1. lastDenial'[d] = lastDenial[d]
                BY <1>1, <1>2, <3>2
            <4>2. QED
                BY <2>1, <4>1 DEF Refusals, DenialExact
        <3>3. QED
            BY <3>1, <3>2
    <2>2. QED
        BY <1>1, <1>5, <2>1, SameSetup DEF DenialExact
<1>7. QED
    BY <1>3, <1>6 DEF Refusals

\* A charge to a bucket forgets its refusal, and does not touch other buckets.
LEMMA ChargeRefusals ==
    ASSUME Refusals, Ledger', NEW c \in Callers, pc[c] = "reserving",
           NEW outcome, Charge(c, outcome)
    PROVE  Refusals'
<1> DEFINE new == [id |-> sequence, bucket |-> bucket[c], at |-> now,
                   stamp |-> stamp[c], cost |-> cost[c]]
<1>1. /\ setup' = setup /\ now' = now /\ charges' = charges \cup {new}
      /\ lastDenial' = [lastDenial EXCEPT ![bucket[c]] = NoDenial]
      /\ lastDenial \in [Buckets -> [cost : Costs \cup {0}, until : Nat]]
      /\ bucket[c] \in Buckets
    BY DEF Charge, Refusals, Ledger, Typed, TypeOK, Waiting
<1>2. \A d \in Buckets : lastDenial'[d] # NoDenial =>
        d # bucket[c] /\ lastDenial'[d] = lastDenial[d]
    BY <1>1
<1>3. \A d, n, t : d # bucket[c] => (Fits(d, n, t)' <=> Fits(d, n, t))
    <2>1. \A d, w, t : d # bucket[c] => Counted(d, w, t)' = Counted(d, w, t)
        BY <1>1 DEF Counted, PruneBefore
    <2>2. QED
        BY <1>1, <2>1, SameSetup DEF Fits
<1>4. DenialTyped'
    BY <1>1, <1>2, SameSetup DEF Refusals, DenialTyped
<1>5. DenialExact'
    BY <1>1, <1>2, <1>3, SameSetup DEF Refusals, DenialExact
<1>6. QED
    BY <1>4, <1>5 DEF Refusals

LEMMA RefusalsInductive ==
    ASSUME DistinctNames, OrdinaryBuckets
    PROVE  Refusals /\ [Next]_vars => Refusals'
<1> SUFFICES ASSUME Refusals, [Next]_vars PROVE Refusals'
    OBVIOUS
<1>1. Ledger' /\ now \in Times /\ now \in Nat
    BY LedgerInductive, WindowType DEF Refusals, Ledger, Typed, TypeOK, Times
<1>2. ASSUME setup' = setup, charges' = charges, lastDenial' = lastDenial,
             now' = now \/ now' = now + 1
      PROVE  Refusals'
    <2>1. \A d, n, t : Fits(d, n, t)' <=> Fits(d, n, t)
        BY <1>2, SameSetup DEF Fits, Counted, PruneBefore
    <2>2. DenialTyped'
        BY <1>2, SameSetup DEF Refusals, DenialTyped
    <2>3. \A t \in Times : t >= now' => t >= now
        BY <1>1, <1>2, WindowType DEF Refusals, Ledger, Typed, TypeOK, Times
    <2>4. DenialExact'
        BY <1>2, <2>1, <2>3, SameSetup DEF Refusals, DenialExact
    <2>5. QED
        BY <1>1, <2>2, <2>4 DEF Refusals
<1>3. ASSUME NEW c \in Callers, Deny(c) PROVE Refusals'
    BY <1>1, <1>3, DenyRefusals
<1>4. ASSUME NEW c \in Callers, Admit(c) PROVE Refusals'
    BY <1>1, <1>4, ChargeRefusals DEF Admit
<1>5. ASSUME NEW c \in Callers, Fail(c) PROVE Refusals'
    BY <1>1, <1>2, <1>5, ChargeRefusals DEF Fail
<1>6. QED
    BY <1>2, <1>3, <1>4, <1>5 DEF Next, Step, Call, Wake, CallAgain, Tick, vars

\* retry_after is the earliest time: where callers are punctual, a refused call
\* would be admitted exactly from the time on that its refusal named, as long as
\* nothing else is charged to its bucket.
THEOREM LimiterNamesTheWait ==
    ASSUME DistinctNames, OrdinaryBuckets
    PROVE  Spec => []RetryAfterExact
<1>1. Refusals => RetryAfterExact
    <2> SUFFICES ASSUME Refusals, NEW b \in Buckets, MaxLag = 0, lastDenial[b] # NoDenial
                 PROVE  WaitSeconds(b, lastDenial[b].cost, now) = 0
                          <=> now >= lastDenial[b].until
        BY DEF RetryAfterExact
    <2>1. Punctual /\ now \in Times /\ now \in Nat
        BY PunctualCharges DEF Refusals, Punctual
    <2>2. lastDenial[b].cost \in Nat /\ ~Oversized(lastDenial[b].cost)
        BY LimiterAssumption DEF Refusals, DenialTyped
    <2>3. Fits(b, lastDenial[b].cost, now) <=> now >= lastDenial[b].until
        BY <2>1 DEF Refusals, DenialExact
    <2>4. Fits(b, lastDenial[b].cost, now)
            <=> now >= now + WaitSeconds(b, lastDenial[b].cost, now)
        BY <2>1, <2>2, WaitSecondsExact
    <2>5. WaitSeconds(b, lastDenial[b].cost, now) \in Nat
        BY <2>1, WaitSecondsMax DEF Punctual, Ledger, Typed
    <2>6. QED
        BY <2>1, <2>3, <2>4, <2>5
<1>2. Init => Refusals
    BY InitRefusals
<1>3. Refusals /\ [Next]_vars => Refusals'
    BY RefusalsInductive
<1>4. QED
    BY <1>1, <1>2, <1>3, PTL DEF Spec

-----------------------------------------------------------------------------
(* Calendar windows *)

\* The cost charged to a bucket between the starts around u.
InBucket(C, b, w, u) == {q \in C : q.bucket = b /\ q.at \in Start(w, u)..(End(w, u) - 1)}

LEMMA ChargeKeepsCalendar ==
    ASSUME Punctual, CallsPerCalendarBucket, NEW c \in Callers, pc[c] = "reserving",
           NEW outcome, Charge(c, outcome),
           NEW b \in Buckets, NEW i \in Positions, Windows[i].kind = "calendar", NEW u \in Times
    PROVE  CostOf(InBucket(charges', b, Windows[i], u)) <= Windows[i].calls
<1> DEFINE w == Windows[i]
           new == [id |-> sequence, bucket |-> bucket[c], at |-> now,
                   stamp |-> stamp[c], cost |-> cost[c]]
           old == InBucket(charges, b, w, u)
<1>1. /\ setup \in Setups /\ now \in Times /\ now \in Nat /\ w.calls \in Nat
      /\ Ledger /\ Typed /\ TypeOK /\ MaxLag = 0
    BY PunctualCharges, WindowType DEF Punctual, Ledger, Typed
<1>2. /\ bucket[c] \in Buckets /\ cost[c] \in Nat /\ ~Oversized(cost[c])
      /\ stamp[c] \in Times /\ stamp[c] <= now /\ now <= stamp[c] + MaxLag
    BY <1>1, LimiterAssumption DEF Typed, TypeOK, Waiting
<1>3. stamp[c] = now
    <2>1. stamp[c] \in Nat
        BY <1>1, <1>2, WindowType DEF Times
    <2>2. QED
        BY <1>1, <1>2, <2>1
<1>4. charges' = charges \cup {new} /\ WaitSeconds(bucket[c], cost[c], now) = 0
    BY <1>3 DEF Charge
<1>5. CostOf(old) <= w.calls
    <2>1. w \in CalendarWindows
        BY DEF CalendarWindows
    <2>2. QED
        BY <1>1, <2>1 DEF CallsPerCalendarBucket, AdmittedIn, InBucket
<1>6. CASE b # bucket[c] \/ now \notin Start(w, u)..(End(w, u) - 1)
    <2>1. InBucket(charges', b, w, u) = old
        BY <1>4, <1>6 DEF InBucket
    <2>2. QED
        BY <1>5, <2>1
<1>7. CASE b = bucket[c] /\ now \in Start(w, u)..(End(w, u) - 1)
    <2>1. /\ Start(w, u) \in Nat /\ End(w, u) \in Nat
          /\ Start(w, now) \in Nat /\ Start(w, now) <= now
        BY <1>1, Bounds
    <2>2. Start(w, now) = Start(w, u)
        BY <1>1, <1>7, <2>1, BucketsInOrder
    <2>3. now < End(w, u)
        BY <1>1, <1>7, <2>1
    <2>4. old = Counted(b, w, now)
        <3>1. \A q \in charges : q.at \in Start(w, u)..(End(w, u) - 1)
                                   <=> q.stamp > PruneBefore(w, now)
            BY <1>1, <2>1, <2>2, <2>3, PunctualCharges DEF PruneBefore
        <3>2. QED
            BY <3>1 DEF InBucket, Counted
    <2>5. CostOf(old) + cost[c] <= w.calls
        <3>1. Fits(b, cost[c], now)
            BY <1>1, <1>2, <1>4, <1>7, WaitSecondsExact
        <3>2. QED
            BY <2>4, <3>1 DEF Fits
    <2>6. new \notin charges
        <3>1. \A q \in charges : q.id < sequence /\ q.id \in Nat
            BY <1>1, PunctualCharges DEF Ledger, Numbered
        <3>2. QED
            BY <1>1, <3>1 DEF TypeOK
    <2>7. InBucket(charges', b, w, u) = old \cup {new}
        BY <1>4, <1>7 DEF InBucket
    <2>8. CostOf(old \cup {new}) = CostOf(old) + cost[c]
        <3>1. Costly(old) /\ new.cost = cost[c] /\ new \notin old
            BY <1>1, <2>6, ChargesCostly DEF InBucket
        <3> HIDE DEF old, new
        <3>2. QED
            BY <1>2, <3>1, CostAdd
    <2> HIDE DEF old, new
    <2>9. QED
        BY <2>5, <2>7, <2>8
<1>8. QED
    BY <1>6, <1>7

\* No more than `calls` units of cost are admitted to a bucket between two starts
\* of a calendar window, where callers are punctual and no calendar bucket is
\* longer than the longest nominal period, unless Redis keeps the events.
THEOREM LimiterHoldsCalendarBuckets ==
    ASSUME DistinctNames, OrdinaryBuckets
    PROVE  Spec => []CallsPerCalendarBucket
<1>1. Init => Ledger
    BY InitLedger
<1>2. Init => CallsPerCalendarBucket
    <2> SUFFICES ASSUME Init PROVE CallsPerCalendarBucket
        OBVIOUS
    <2>1. \A b, times : AdmittedIn(b, times) = 0
        <3>1. \A b, times : {q \in charges : q.bucket = b /\ q.at \in times} = {}
            BY DEF Init
        <3>2. QED
            BY <3>1, CostEmpty DEF AdmittedIn
    <2>2. \A i \in Positions : Windows[i].calls \in Nat
        BY WindowType DEF Init
    <2>3. QED
        BY <2>1, <2>2 DEF CallsPerCalendarBucket, CalendarWindows
<1>3. Ledger /\ [Next]_vars => Ledger'
    BY LedgerInductive
<1>4. Ledger /\ CallsPerCalendarBucket /\ [Next]_vars => CallsPerCalendarBucket'
    <2> SUFFICES ASSUME Ledger, CallsPerCalendarBucket, [Next]_vars
                 PROVE  CallsPerCalendarBucket'
        OBVIOUS
    <2>1. CASE UNCHANGED <<setup, charges>>
        BY <2>1, SameSetup DEF CallsPerCalendarBucket, AdmittedIn, CalendarWindows, Start, End
    <2>2. ASSUME NEW c \in Callers, pc[c] = "reserving", NEW outcome, Charge(c, outcome)
          PROVE  CallsPerCalendarBucket'
        <3>1. setup' = setup
            BY <2>2 DEF Charge
        <3>2. ASSUME MaxLag = 0
              PROVE  \A b \in Buckets, i \in Positions, u \in Times :
                       Windows[i].kind = "calendar" =>
                         CostOf(InBucket(charges', b, Windows[i], u)) <= Windows[i].calls
            <4>1. Punctual
                BY <3>2 DEF Punctual
            <4>2. QED
                BY <2>2, <4>1, ChargeKeepsCalendar
        <3>3. \A b \in Buckets, w \in CalendarWindows, u \in Times : MaxLag = 0 =>
                CostOf({q \in charges' : q.bucket = b /\ q.at \in Start(w, u)..(End(w, u) - 1)})
                  <= w.calls
            BY <3>2 DEF CalendarWindows, InBucket
        <3>4. CalendarWindows' = CalendarWindows
            BY <3>1, SameSetup DEF CalendarWindows
        <3>5. QED
            BY <3>1, <3>3, <3>4, SameSetup
            DEF CallsPerCalendarBucket, AdmittedIn, Start, End
    <2>3. QED
        BY <2>1, <2>2 DEF Next, Step, Call, Admit, Deny, Fail, Wake, CallAgain, Tick, vars
<1>5. QED
    BY <1>1, <1>2, <1>3, <1>4, PTL DEF Spec
=============================================================================
