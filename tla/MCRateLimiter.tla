--------------------------- MODULE MCRateLimiter ---------------------------
(* Instances of RateLimiter for TLC: see the limit_*.cfg files. *)
EXTENDS RateLimiter, TLC

CONSTANTS c1, c2, b1, b2

SlidingWindow(id, calls, period) ==
    [kind |-> "sliding", id |-> id, calls |-> calls, period |-> period]

\* One caller, one bucket, costs 1 and 2, no failures and no lag, until `horizon`.
Plain(windows, storage, horizon) ==
    [windows |-> windows, storage |-> storage, mode |-> "raise", callers |-> {c1},
     keys |-> {b1}, costs |-> {1, 2}, fails |-> FALSE,
     lag |-> 0, lastCall |-> horizon, horizon |-> horizon]

\* A burst limit inside a longer one.
BurstAndLong == <<SlidingWindow(1, 2, 2), SlidingWindow(2, 3, 3)>>
OneWindow == <<SlidingWindow(1, 2, 3)>>

\* A sliding window and calendar buckets of nominal length.
WithCalendar ==
    <<SlidingWindow(1, 2, 2),
      [kind |-> "calendar", id |-> 2, calls |-> 3, period |-> 4, starts |-> {0, 4, 8}]>>

\* The second day is longer than the nominal day, as when daylight saving ends.
LongDay ==
    <<[kind |-> "calendar", id |-> 1, calls |-> 1, period |-> 3, starts |-> {0, 3, 7}]>>

Policies ==
    {[Plain(BurstAndLong, "memory", 4) EXCEPT !.keys = {b1, b2}, !.costs = {1, 3}],
     [Plain(OneWindow, "memory", 6) EXCEPT !.callers = {c1, c2}, !.lag = 2],
     [Plain(BurstAndLong, "redis", 6) EXCEPT !.fails = TRUE],
     [Plain(WithCalendar, "sqlite", 7) EXCEPT !.fails = TRUE],
     Plain(LongDay, "redis", 6)}

LongDayInMemory == {Plain(LongDay, "memory", 6)}

\* Two blocking callers compete, and may call again; the clock goes on until
\* all calls can have been admitted.
Blocking ==
    {[Plain(OneWindow, "sqlite", 14) EXCEPT
        !.mode = "block", !.callers = {c1, c2}, !.lag = 1, !.lastCall = 0]}

Symmetry == Permutations({c1, c2}) \cup Permutations({b1, b2})
=============================================================================
