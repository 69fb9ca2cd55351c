---------------------------- MODULE RateLimiter ----------------------------
(***************************************************************************)
(* @rate_limit (src/pydecorators/rate_limit.py): several callers, threads, *)
(* tasks or processes, share one limiter.  The three limiters differ only  *)
(* in how they keep the admitted calls, so one module models them:         *)
(*   memory  a deque per window, pruned from the left, under an RLock      *)
(*   sqlite  rows read in timestamp order inside BEGIN IMMEDIATE           *)
(*   redis   sorted sets, inside one Lua script                            *)
(* All of them read the clock BEFORE they enter that critical section, and *)
(* decide with that reading, so the actions that read it (Call and Wake)   *)
(* and those that reserve (Admit and Deny) are separate, and `lag` bounds  *)
(* the time between them.                                                  *)
(*                                                                         *)
(* Time is in ticks.  A calendar window lists the instants its buckets     *)
(* start at; its nominal period is the length of an ordinary bucket.       *)
(***************************************************************************)
EXTENDS Integers, Sequences, FiniteSets, FiniteSetsExt

CONSTANTS
    Callers,
    Buckets,        \* values of key=
    Costs,          \* values of cost=
    Setups          \* the decorated functions to consider, see Setup

Sliding == [kind : {"sliding"}, id : Nat, calls : Nat \ {0}, period : Nat \ {0}]
Calendar == [kind : {"calendar"}, id : Nat, calls : Nat \ {0}, period : Nat \ {0},
             starts : SUBSET Nat]

\* One decorated function with its use.  windows: the normalised windows, a
\* sequence; storage and mode as configured; callers, keys and costs: those that
\* occur; fails: whether the database may fail.  The others are bounds: lag, the
\* ticks a caller may be held up before its next step, above all between reading
\* the clock and reserving; lastCall and horizon, the clock when the last call
\* may begin, and at the end.
Setup ==
    [windows : Seq(Sliding \cup Calendar), storage : {"memory", "sqlite", "redis"},
     mode : {"raise", "block"}, callers : SUBSET Callers, keys : SUBSET Buckets,
     costs : SUBSET Costs, fails : BOOLEAN, lag : Nat, lastCall : Nat, horizon : Nat]

\* What the normalisation functions accept; a deque does not fail.
ValidSetup(s) ==
    /\ s \in Setup
    /\ s.windows # << >>
    /\ s.fails => s.storage # "memory"

\* Calendars cover the clock.
Covered(s) ==
    \A i \in DOMAIN s.windows : s.windows[i].kind = "calendar" =>
        0 \in s.windows[i].starts /\ \E x \in s.windows[i].starts : x > s.horizon

ASSUME LimiterAssumption ==
    /\ Costs \subseteq Nat \ {0}
    /\ \A s \in Setups : ValidSetup(s) /\ Covered(s)

VARIABLES
    setup,          \* the decorated function of this behaviour
    now,            \* the clock, which all callers read
    events,         \* events[b][s]: the calls kept for bucket b in slot s
    sequence,       \* numbers the charges: INCR, the row ids, the order in a deque
    pc,             \* where each caller is
    bucket,         \* its bucket_key
    cost,           \* its call_cost
    stamp,          \* its reading of the clock
    wakeAt,         \* when its sleep is over
    charges,        \* history: what was charged, at which time, by which reading
    lastDenial      \* history: the last refusal of b, if nothing was charged since

callerVars == <<pc, bucket, cost, stamp, wakeAt>>
vars == <<setup, now, events, sequence, callerVars, charges, lastDenial>>

Windows == setup.windows
Storage == setup.storage
MaxLag == setup.lag

NoDenial == [cost |-> 0, until |-> 0]
NoBucket == "none"
Times == 0..setup.horizon
Positions == DOMAIN Windows

-----------------------------------------------------------------------------
(* One reservation, computed with the clock reading t *)

\* _calendar_window_bounds
Start(w, t) == Max({x \in w.starts : x <= t})
End(w, t) == Min({x \in w.starts : x > t})

\* The window_id under which events are kept: a calendar bucket has its own.
Slot(w, t) == IF w.kind = "sliding" THEN <<w.id>> ELSE <<w.id, Start(w, t)>>
Slots == {Slot(Windows[i], t) : i \in Positions, t \in Times}

\* Bug: the window is a tick too short.
PruneBefore_OneMore(w, t) == IF w.kind = "sliding" THEN t - w.period + 1 ELSE Start(w, t) - 1

\* prune_before: events at or before it are dropped.
PruneBefore(w, t) == IF w.kind = "sliding" THEN t - w.period ELSE Start(w, t) - 1

\* _max_window_cleanup_period: a calendar window has its nominal period.
CleanupPeriod == Max({Windows[i].period : i \in Positions})

\* Bug: the Redis limiter cleans up by the nominal period, too.
CleanupBefore_Nominal(t) == t - CleanupPeriod

\* No event is kept longer than the period in any slot.  The Redis script has no
\* such step.
CleanupBefore(t) == IF Storage = "redis" THEN -1 ELSE t - CleanupPeriod

\* The order in which the events of a slot are read: a deque has them as they
\* arrived, the databases by their timestamps.
Rank(e) == IF Storage = "memory" THEN e.id ELSE e.timestamp

\* What is left of a slot when the bounds have been applied.  The deque drops from
\* the left as long as the head is old, the databases drop every old row.
Prune(slot, befores) ==
    {e \in slot : \E f \in slot : Rank(f) <= Rank(e) /\ \A t \in befores : f.timestamp > t}

\* Slot s of bucket b when the loop over the windows has come to position i.
\* Windows that share a slot have pruned it one after the other.
Pruned(b, s, t, i) ==
    Prune(events[b][s],
          {CleanupBefore(t)} \cup
          {PruneBefore(Windows[j], t) : j \in {k \in 1..i : Slot(Windows[k], t) = s}})

\* The sum of the costs, as the number of units of cost.
Units(S) == UNION {{e} \X (1..e.cost) : e \in S}
CostOf(S) == Cardinality(Units(S))

\* The events that are left when those up to e have gone, and the events whose
\* leaving makes room for a call of cost c.
After(slot, e) == {f \in slot : Rank(f) > Rank(e)}
Enough(slot, w, c) == {e \in slot : CostOf(After(slot, e)) + c <= w.calls}
First(S) == CHOOSE e \in S : \A f \in S : Rank(e) <= Rank(f)

\* Bug: only the oldest call is waited for, though several have to leave.
WindowWait_OldestOnly(slot, w, t, c) ==
    IF CostOf(slot) + c <= w.calls THEN 0
    ELSE IF w.kind = "calendar" THEN Max({0, End(w, t) - t})
    ELSE Max({0, First(slot).timestamp + w.period - t})

\* _window_wait_seconds
WindowWait(slot, w, t, c) ==
    IF CostOf(slot) + c <= w.calls THEN 0
    ELSE IF w.kind = "calendar" THEN Max({0, End(w, t) - t})
    ELSE IF Enough(slot, w, c) = {} THEN w.period
    ELSE Max({0, First(Enough(slot, w, c)).timestamp + w.period - t})

WaitSeconds(b, c, t) ==
    Max({WindowWait(Pruned(b, Slot(Windows[i], t), t, i), Windows[i], t, c) :
           i \in Positions})

\* What a reservation for bucket b leaves of the events; the memory limiter also
\* prunes the idle slots of the other buckets.
Remaining(b, t) ==
    [d \in Buckets |-> [s \in Slots |->
        IF d = b THEN Pruned(b, s, t, Len(Windows))
        ELSE IF Storage = "memory" THEN Prune(events[d][s], {CleanupBefore(t)})
        ELSE events[d][s]]]

\* One event per window: a slot that n windows name gets n of them.
NewEvents(s, c, t) ==
    {[id |-> sequence, window |-> i, timestamp |-> t, cost |-> c] :
       i \in {j \in Positions : Slot(Windows[j], t) = s}}

\* Bug: timestamp and cost are swapped.
Reserved_Swapped(b, c, t) ==
    [Remaining(b, t) EXCEPT ![b] = [s \in Slots |-> @[s] \cup NewEvents(s, t, c)]]

\* The events once every window is charged.
Reserved(b, c, t) ==
    [Remaining(b, t) EXCEPT ![b] = [s \in Slots |-> @[s] \cup NewEvents(s, c, t)]]

-----------------------------------------------------------------------------

Init ==
    /\ setup \in Setups
    /\ now = 0
    /\ events = [b \in Buckets |-> [s \in Slots |-> {}]]
    /\ sequence = 0
    /\ pc = [c \in Callers |-> "idle"]
    /\ bucket = [c \in Callers |-> NoBucket]
    /\ cost = [c \in Callers |-> 0]
    /\ stamp = [c \in Callers |-> 0]
    /\ wakeAt = [c \in Callers |-> 0]
    /\ charges = {}
    /\ lastDenial = [b \in Buckets |-> NoDenial]

Goto(c, step) == pc' = [pc EXCEPT ![c] = step]

\* The wrapper returns or raises: its local variables are gone.
Leave(c, step) ==
    /\ Goto(c, step)
    /\ bucket' = [bucket EXCEPT ![c] = NoBucket]
    /\ cost' = [cost EXCEPT ![c] = 0]
    /\ stamp' = [stamp EXCEPT ![c] = 0]
    /\ wakeAt' = [wakeAt EXCEPT ![c] = 0]

\* _cost_exceeds_capacity: retry_after is infinite.
Oversized(n) == \E i \in Positions : n > Windows[i].calls

\* reserve_or_delay starts: now = self._clock(), outside the critical section.
ReadClock(c) ==
    /\ stamp' = [stamp EXCEPT ![c] = now]
    /\ Goto(c, "reserving")

\* A call resolves its cost and its bucket, and asks for a reservation.
Call(c) ==
    /\ c \in setup.callers
    /\ pc[c] = "idle"
    /\ now <= setup.lastCall
    /\ \E b \in setup.keys, n \in setup.costs :
         IF Oversized(n) THEN Leave(c, "refused")
         ELSE /\ bucket' = [bucket EXCEPT ![c] = b]
              /\ cost' = [cost EXCEPT ![c] = n]
              /\ ReadClock(c)
              /\ UNCHANGED wakeAt
    /\ UNCHANGED <<setup, now, events, sequence, charges, lastDenial>>

\* The call fits every window, and each is charged.
Charge(c, outcome) ==
    /\ WaitSeconds(bucket[c], cost[c], stamp[c]) = 0
    /\ events' = Reserved(bucket[c], cost[c], stamp[c])
    /\ sequence' = sequence + 1
    /\ Leave(c, outcome)
    /\ charges' = charges \cup {[id |-> sequence, bucket |-> bucket[c], at |-> now,
                                stamp |-> stamp[c], cost |-> cost[c]]}
    /\ lastDenial' = [lastDenial EXCEPT ![bucket[c]] = NoDenial]
    /\ UNCHANGED <<setup, now>>

\* reserve_or_delay returns None, and the function is called.
Admit(c) == pc[c] = "reserving" /\ Charge(c, "admitted")

\* Bug: a refused call is charged all the same.
Deny_Charges(c) ==
    LET wait == WaitSeconds(bucket[c], cost[c], stamp[c])
    IN  /\ pc[c] = "reserving"
        /\ wait > 0
        /\ events' = Reserved(bucket[c], cost[c], stamp[c])
        /\ IF setup.mode = "raise"
           THEN Leave(c, "refused")
           ELSE /\ Goto(c, "sleeping")
                /\ wakeAt' = [wakeAt EXCEPT ![c] = now + wait]
                /\ UNCHANGED <<bucket, cost, stamp>>
        /\ sequence' = sequence + 1
        /\ UNCHANGED <<setup, now, charges, lastDenial>>

\* It returns the seconds to wait: raise RateLimitExceeded, or sleep.
Deny(c) ==
    LET wait == WaitSeconds(bucket[c], cost[c], stamp[c])
    IN  /\ pc[c] = "reserving"
        /\ wait > 0
        /\ events' = Remaining(bucket[c], stamp[c])
        /\ lastDenial' = [lastDenial EXCEPT ![bucket[c]] =
                [cost |-> cost[c], until |-> stamp[c] + wait]]
        /\ IF setup.mode = "raise"
           THEN Leave(c, "refused")
           ELSE /\ Goto(c, "sleeping")
                /\ wakeAt' = [wakeAt EXCEPT ![c] = now + wait]
                /\ UNCHANGED <<bucket, cost, stamp>>
        /\ UNCHANGED <<setup, now, sequence, charges>>

\* reserve_or_delay raises, and so does the wrapper: SQLite has rolled back, Redis
\* was not reached, or only its answer to the script was lost.
Fail(c) ==
    /\ setup.fails
    /\ pc[c] = "reserving"
    /\ \/ Leave(c, "refused") /\ UNCHANGED <<setup, now, events, sequence, charges, lastDenial>>
       \/ Storage = "redis" /\ Charge(c, "refused")
       \/ /\ Storage = "redis"
          /\ WaitSeconds(bucket[c], cost[c], stamp[c]) > 0
          /\ events' = Remaining(bucket[c], stamp[c])
          /\ Leave(c, "refused")
          /\ UNCHANGED <<setup, now, sequence, charges, lastDenial>>

\* The sleep is over, and the loop reserves again.
Wake(c) ==
    /\ pc[c] = "sleeping"
    /\ now >= wakeAt[c]
    /\ ReadClock(c)
    /\ UNCHANGED <<setup, now, events, sequence, bucket, cost, wakeAt, charges, lastDenial>>

CallAgain(c) ==
    /\ pc[c] \in {"admitted", "refused"}
    /\ Goto(c, "idle")
    /\ UNCHANGED <<setup, now, events, sequence, bucket, cost, stamp, wakeAt, charges,
                   lastDenial>>

\* No caller is kept from its next step for more than MaxLag ticks.
Tick ==
    /\ now < setup.horizon
    /\ \A c \in Callers : pc[c] = "sleeping" => now - wakeAt[c] < MaxLag
    /\ \A c \in Callers : pc[c] = "reserving" => now - stamp[c] < MaxLag
    /\ now' = now + 1
    /\ UNCHANGED <<setup, events, sequence, callerVars, charges, lastDenial>>

Step(c) ==
    Admit(c) \/ Deny(c) \/ Wake(c)

Next ==
    \/ \E c \in Callers : Call(c) \/ Step(c) \/ Fail(c) \/ CallAgain(c)
    \/ Tick

Spec == Init /\ [][Next]_vars

\* Callers are scheduled, the lock or database is granted, and time passes.
\* Nothing has to fail.
Fairness == WF_vars(Tick) /\ \A c \in Callers : WF_vars(Step(c))
FairSpec == Spec /\ Fairness

-----------------------------------------------------------------------------
(* Properties *)

SlidingWindows == {Windows[i] : i \in {j \in Positions : Windows[j].kind = "sliding"}}
CalendarWindows == {Windows[i] : i \in {j \in Positions : Windows[j].kind = "calendar"}}

EventType == [id : Nat, window : Positions, timestamp : Times, cost : Costs]
ChargeType == [id : Nat, bucket : Buckets, at : Times, stamp : Times, cost : Costs]

TypeOK ==
    /\ setup \in Setups
    /\ now \in Times
    /\ events \in [Buckets -> [Slots -> SUBSET EventType]]
    /\ sequence \in Nat
    /\ pc \in [Callers -> {"idle", "reserving", "admitted", "refused", "sleeping"}]
    /\ bucket \in [Callers -> Buckets \cup {NoBucket}]
    /\ cost \in [Callers -> Costs \cup {0}]
    /\ stamp \in [Callers -> Times]
    /\ wakeAt \in [Callers -> Nat]
    /\ charges \in SUBSET ChargeType
    /\ lastDenial \in [Buckets -> [cost : Costs \cup {0}, until : Nat]]

\* The cost admitted for bucket b in the clock times of a set.
AdmittedIn(b, times) == CostOf({q \in charges : q.bucket = b /\ q.at \in times})

\* RateLimitWindow: `calls` is the number of calls admitted within `period`
\* seconds, for every window of every bucket and counting weighted costs.  The
\* clock is read before the lock is taken, so a reservation may be dated up to
\* MaxLag ticks early and prune, or be pruned, by the wrong clock.  What is left
\* of the limit then is a window shorter by that lag, however reservations
\* overtake one another and in whatever order the events are kept; without lag
\* it is the whole period.
CallsPerPeriod ==
    \A b \in Buckets, w \in SlidingWindows, t \in Times :
        AdmittedIn(b, (t - (w.period - MaxLag) + 1)..t) <= w.calls

\* docs/rate_limit.md: calendar windows are fixed wall-clock buckets.  No more
\* than `calls` are admitted between two consecutive starts, where no caller is
\* held up between the clock and the lock.
CallsPerCalendarBucket ==
    MaxLag = 0 => \A b \in Buckets, w \in CalendarWindows, t \in Times :
        AdmittedIn(b, Start(w, t)..(End(w, t) - 1)) <= w.calls

\* docs/rate_limit.md: retry_after is the longest wait required by any exceeded
\* window, because that is the earliest time the call can satisfy the full
\* policy.  As long as nothing else is admitted to the bucket, a refused call
\* would be refused at every earlier time and admitted at every later one, where
\* no caller is held up between the clock and the lock.
RetryAfterExact ==
    \A b \in Buckets : MaxLag = 0 /\ lastDenial[b] # NoDenial =>
        (WaitSeconds(b, lastDenial[b].cost, now) = 0 <=> now >= lastDenial[b].until)

\* docs/rate_limit.md: if any window lacks room, no window consumes the call.
\* Each slot of a window holds exactly the charges that still count in it: nothing
\* of a refused call, nothing twice, nothing lost by pruning idle slots.  Also when
\* the database fails, every window is charged or none.
LedgerExact ==
    MaxLag = 0 => \A b \in Buckets, i \in Positions :
        LET w == Windows[i]
        IN  CostOf(Pruned(b, Slot(w, now), now, i)) =
              AdmittedIn(b, (PruneBefore(w, now) + 1)..now)

\* In block mode every call that can ever fit is admitted in the end, also when
\* others take the place it was waiting for.
EventuallyAdmitted ==
    \A c \in Callers : pc[c] = "reserving" ~> pc[c] = "admitted"
=============================================================================
