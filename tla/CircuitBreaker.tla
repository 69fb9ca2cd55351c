--------------------------- MODULE CircuitBreaker ---------------------------
(***************************************************************************)
(* The circuit breaker of src/pydecorators/circuit_breaker.py.             *)
(*                                                                         *)
(* One decorated function keeps (state, failure_count, opened_at) in its   *)
(* closure, guarded by one RLock.  Callers run concurrently: a call passes *)
(* before_call under the lock, runs the wrapped function outside it, and   *)
(* records its outcome under the lock again.  Everything the lock covers   *)
(* is one action; the run of the wrapped function is the gap between the   *)
(* action that admits a call and the one that records its outcome.         *)
(*                                                                         *)
(* The code only ever looks at active_clock() - opened_at and compares it  *)
(* with reset_timeout, so the pair (clock, opened_at) is represented by    *)
(* that difference, saturated at ResetTimeout.                             *)
(***************************************************************************)
EXTENDS Integers, FiniteSets

CONSTANTS
    Callers,            \* threads or tasks that call the decorated function
    FailureThreshold,   \* failure_threshold
    ResetTimeout        \* reset_timeout, in clock ticks

\* _validate_config rejects every other value at decoration time.
ValidConfig ==
    /\ FailureThreshold \in Nat \ {0}
    /\ ResetTimeout \in Nat \ {0}

\* A process has finitely many threads and tasks.
ASSUME BreakerAssumption == IsFiniteSet(Callers) /\ ValidConfig

VARIABLES
    state,          \* the CircuitState in the closure
    failure_count,
    elapsed,        \* active_clock() - opened_at, saturated; None if opened_at is None
    pc,             \* where each caller is
    admittedIn,     \* history: the state in which a running call was admitted
    quarantine,     \* history: ticks until the last opening has lasted ResetTimeout
    health          \* environment: the wrapped function has recovered for good

breakerVars == <<state, failure_count, elapsed>>
vars == <<state, failure_count, elapsed, pc, admittedIn, quarantine, health>>

None == -1
CircuitState == {"CLOSED", "OPEN", "HALF_OPEN"}
Running == {c \in Callers : pc[c] = "running"}
Probes == {c \in Running : admittedIn[c] = "HALF_OPEN"}

TypeOK ==
    /\ state \in CircuitState
    /\ failure_count \in Nat
    /\ elapsed \in {None} \cup 0..ResetTimeout
    /\ pc \in [Callers -> {"idle", "running", "rejected"}]
    /\ admittedIn \in [Callers -> {"CLOSED", "HALF_OPEN"}]
    /\ quarantine \in 0..ResetTimeout
    /\ health \in {"failing", "recovered"}

Init ==
    /\ state = "CLOSED"
    /\ failure_count = 0
    /\ elapsed = None
    /\ pc = [c \in Callers |-> "idle"]
    /\ admittedIn = [c \in Callers |-> "CLOSED"]
    /\ quarantine = 0
    /\ health = "failing"

-----------------------------------------------------------------------------

\* The state after the promotion that every reader performs first.
current_state ==
    IF state = "OPEN" /\ elapsed # None /\ elapsed >= ResetTimeout
    THEN "HALF_OPEN" ELSE state

\* wrapped.circuit_state() and wrapped.circuit_reset_after(): inspection is
\* not read-only, it promotes an open circuit whose timeout has elapsed.
Inspect ==
    /\ current_state # state
    /\ state' = current_state
    /\ UNCHANGED <<failure_count, elapsed, pc, admittedIn, quarantine, health>>

\* Bug: before_call promotes the state but does not look at it.
Admit_Always(c) ==
    /\ pc[c] = "idle"
    /\ state' = current_state
    /\ pc' = [pc EXCEPT ![c] = "running"]
    /\ admittedIn' = [admittedIn EXCEPT ![c] = current_state]
    /\ UNCHANGED <<failure_count, elapsed, quarantine, health>>

\* before_call lets the call through.
Admit(c) ==
    /\ pc[c] = "idle"
    /\ current_state # "OPEN"
    /\ state' = current_state
    /\ pc' = [pc EXCEPT ![c] = "running"]
    /\ admittedIn' = [admittedIn EXCEPT ![c] = current_state]
    /\ UNCHANGED <<failure_count, elapsed, quarantine, health>>

\* before_call raises CircuitBreakerOpen.
Reject(c) ==
    /\ pc[c] = "idle"
    /\ current_state = "OPEN"
    /\ pc' = [pc EXCEPT ![c] = "rejected"]
    /\ UNCHANGED <<breakerVars, admittedIn, quarantine, health>>

\* A rejected caller may call again.
CallAgain(c) ==
    /\ pc[c] = "rejected"
    /\ pc' = [pc EXCEPT ![c] = "idle"]
    /\ UNCHANGED <<breakerVars, admittedIn, quarantine, health>>

\* Bugs in record_success: opened_at, or the count, is kept; or a probe's success
\* is not recorded.
Succeed(c, resetCount, resetClock) ==
    /\ pc[c] = "running"
    /\ state' = "CLOSED"
    /\ failure_count' = IF resetCount THEN 0 ELSE failure_count
    /\ elapsed' = IF resetClock THEN None ELSE elapsed
    /\ pc' = [pc EXCEPT ![c] = "idle"]
    /\ UNCHANGED <<admittedIn, quarantine, health>>
RecordSuccess_KeepsClock(c) == Succeed(c, TRUE, FALSE)
RecordSuccess_KeepsCount(c) == Succeed(c, FALSE, TRUE)
RecordSuccess_IgnoresProbe(c) ==
    IF state = "HALF_OPEN"
    THEN /\ pc[c] = "running"
         /\ pc' = [pc EXCEPT ![c] = "idle"]
         /\ UNCHANGED <<breakerVars, admittedIn, quarantine, health>>
    ELSE Succeed(c, TRUE, TRUE)

\* The wrapped function returned: record_success, whatever the state is now.
RecordSuccess(c) ==
    /\ pc[c] = "running"
    /\ state' = "CLOSED"
    /\ failure_count' = 0
    /\ elapsed' = None
    /\ pc' = [pc EXCEPT ![c] = "idle"]
    /\ UNCHANGED <<admittedIn, quarantine, health>>

\* opened_at = active_clock()
OpenNow ==
    /\ state' = "OPEN"
    /\ elapsed' = 0
    /\ quarantine' = ResetTimeout

\* Bug: the circuit opens only past the threshold.
RecordFailure_OneLate(c) ==
    /\ pc[c] = "running"
    /\ health = "failing"
    /\ pc' = [pc EXCEPT ![c] = "idle"]
    /\ failure_count' = failure_count + 1
    /\ IF state = "HALF_OPEN" \/ failure_count + 1 > FailureThreshold
       THEN OpenNow
       ELSE UNCHANGED <<state, elapsed, quarantine>>
    /\ UNCHANGED <<admittedIn, health>>

\* The wrapped function raised a counted exception: record_failure.
RecordFailure(c) ==
    /\ pc[c] = "running"
    /\ health = "failing"
    /\ pc' = [pc EXCEPT ![c] = "idle"]
    /\ \/ /\ state = "HALF_OPEN"
          /\ failure_count' = FailureThreshold
          /\ OpenNow
       \/ /\ state # "HALF_OPEN"
          /\ failure_count' = failure_count + 1
          /\ IF failure_count + 1 >= FailureThreshold
             THEN OpenNow
             ELSE UNCHANGED <<state, elapsed, quarantine>>
    /\ UNCHANGED <<admittedIn, health>>

\* It raised an exception outside `exceptions`, or one the filter ignores.
IgnoreFailure(c) ==
    /\ pc[c] = "running"
    /\ health = "failing"
    /\ pc' = [pc EXCEPT ![c] = "idle"]
    /\ UNCHANGED <<breakerVars, admittedIn, quarantine, health>>

-----------------------------------------------------------------------------

\* The injected or monotonic clock advances.
Tick ==
    /\ \/ elapsed # None /\ elapsed < ResetTimeout
       \/ quarantine > 0
    /\ elapsed' = IF elapsed = None \/ elapsed = ResetTimeout
                  THEN elapsed ELSE elapsed + 1
    /\ quarantine' = IF quarantine = 0 THEN 0 ELSE quarantine - 1
    /\ UNCHANGED <<state, failure_count, pc, admittedIn, health>>

\* The dependency behind the wrapped function recovers.
Heal ==
    /\ health = "failing"
    /\ health' = "recovered"
    /\ UNCHANGED <<breakerVars, pc, admittedIn, quarantine>>

BeforeCall(c) == Admit(c) \/ Reject(c)
Outcome(c) == RecordSuccess(c) \/ RecordFailure(c) \/ IgnoreFailure(c)

Next ==
    \/ \E c \in Callers : BeforeCall(c) \/ CallAgain(c) \/ Outcome(c)
    \/ Inspect
    \/ Tick
    \/ Heal

Spec == Init /\ [][Next]_vars

\* Time passes, traffic continues, and the wrapped function terminates.
Fairness ==
    /\ WF_vars(Tick)
    /\ \A c \in Callers :
        WF_vars(BeforeCall(c)) /\ WF_vars(CallAgain(c)) /\ WF_vars(Outcome(c))

FairSpec == Spec /\ Fairness

-----------------------------------------------------------------------------
(* Properties *)

\* The closure's three variables agree whatever the interleaving: opened_at is
\* None exactly when the circuit is closed (the assert in before_call relies on
\* it), the count is below the threshold exactly then, a half-open circuit has
\* waited reset_timeout since its last opening, and late outcomes of calls that
\* overlapped the opening never leave an open circuit with a clock of its own.
StateConsistent ==
    /\ state = "CLOSED" <=> elapsed = None
    /\ state = "CLOSED" <=> failure_count < FailureThreshold
    /\ state = "OPEN" => elapsed + quarantine = ResetTimeout
    /\ state = "HALF_OPEN" => elapsed = ResetTimeout /\ quarantine = 0

\* record_failure keeps counting while the circuit is open, for the calls that
\* were running when it opened.  Each of them adds at most one, so the counter
\* stays within the threshold plus the number of concurrent callers.
FailureCountBounded ==
    /\ failure_count < FailureThreshold + Cardinality(Callers)
    /\ state = "OPEN" =>
         failure_count + Cardinality(Running) < FailureThreshold + Cardinality(Callers)

\* Once the dependency has recovered for good and callers keep calling, the
\* circuit closes and stays closed: no leftover failure, unfinished probe or
\* late outcome of an old call can lock it open.
Recovery == health = "recovered" ~> [](state = "CLOSED")

\* docs/circuit_breaker.md: `half_open`: one probe call is allowed after the
\* reset timeout.  before_call has no probe slot: every caller that arrives
\* while the circuit is half-open is admitted.
OneProbe == state = "HALF_OPEN" => Cardinality(Probes) <= 1

\* However calls overlap, the closure implements the breaker users are promised:
\* no call starts while the circuit is open, it opens at the threshold and not
\* before, stays open for the whole timeout after the latest failure unless an
\* older call succeeds, and a half-open circuit is decided by the next outcome.
Contract == INSTANCE BreakerContract WITH
    mode <- state,
    streak <- IF state = "CLOSED" THEN failure_count ELSE 0,
    remaining <- IF elapsed = None THEN 0 ELSE ResetTimeout - elapsed,
    running <- Cardinality(Running)
ImplementsContract == Contract!Spec
=============================================================================
