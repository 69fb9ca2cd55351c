------------------------------- MODULE Retry -------------------------------
(***************************************************************************)
(* One call of a function decorated with @retry                            *)
(* (src/pydecorators/retry.py).  The sync and the async wrapper have the   *)
(* same control: hooks, the wrapped function, the predicate and the sleep  *)
(* may each raise, and what follows depends on where in the try statement  *)
(* they do.  Exceptions are "matching" (isinstance of `exceptions`) or     *)
(* "other"; delays are whole ticks.                                        *)
(***************************************************************************)
EXTENDS Integers, Sequences

CONSTANTS
    Attempts,       \* attempts
    Delay,          \* delay
    Backoff,        \* backoff
    MaxDelay,       \* max_delay, or None
    Jitter,         \* jitter
    HooksRaise      \* before_attempt, after_attempt, retry_if and sleep may raise

None == -1

\* _validate_retry_config, for whole numbers.
ValidConfig ==
    /\ Attempts \in Nat \ {0}
    /\ Delay \in Nat
    /\ Backoff \in Nat \ {0}
    /\ MaxDelay \in Nat \cup {None}
    /\ Jitter \in Nat

ASSUME RetryAssumption == ValidConfig /\ HooksRaise \in BOOLEAN

VARIABLES
    pc,
    attempt_number,
    current_delay,
    exc,            \* the exception the handler caught, or NoException
    executions,     \* history: runs of the wrapped function
    lastOutcome,    \* history: what the last of them did
    verdict,        \* history: whether retry_if has rejected an exception
    sleeps          \* history: the arguments of sleep

historyVars == <<executions, lastOutcome, verdict, sleeps>>
vars == <<pc, attempt_number, current_delay, exc, historyVars>>

\* An exception carries where it was raised and during which attempt.
NoException == [from |-> "none", attempt |-> 0]
Raised(from) == [from |-> from, attempt |-> attempt_number]
Sources == {"function", "before_attempt", "after_attempt", "retry_if", "sleep",
            "cancellation"}

Init ==
    /\ pc = "before"
    /\ attempt_number = 1
    /\ current_delay = Delay
    /\ exc = NoException
    /\ executions = 0
    /\ lastOutcome = "none"
    /\ verdict = "none"
    /\ sleeps = << >>

\* Leave the wrapper with an exception raised at `from`.
RaiseFrom(from) ==
    /\ pc' = "raised"
    /\ exc' = Raised(from)

-----------------------------------------------------------------------------

\* Bug: before_attempt is called inside the try statement.
BeforeAttempt_InTry ==
    /\ pc = "before"
    /\ \/ pc' = "call" /\ UNCHANGED exc
       \/ HooksRaise /\ pc' = "handler" /\ exc' = Raised("before_attempt")
    /\ UNCHANGED <<attempt_number, current_delay, historyVars>>

\* _call_before, outside the try statement.
BeforeAttempt ==
    /\ pc = "before"
    /\ \/ pc' = "call" /\ UNCHANGED exc
       \/ HooksRaise /\ RaiseFrom("before_attempt")
    /\ UNCHANGED <<attempt_number, current_delay, historyVars>>

\* The wrapped function returns, raises what `exceptions` matches, or another.
CallFunction ==
    /\ pc = "call"
    /\ executions' = executions + 1
    /\ \/ lastOutcome' = "value" /\ pc' = "after_success" /\ UNCHANGED exc
       \/ lastOutcome' = "matching" /\ pc' = "handler" /\ exc' = Raised("function")
       \/ lastOutcome' = "other" /\ RaiseFrom("function")
    /\ UNCHANGED <<attempt_number, current_delay, verdict, sleeps>>

\* _call_after(n, None) stands inside the try: what it raises is handled like a
\* failure of the function if `exceptions` matches it.
AfterSuccess ==
    /\ pc = "after_success"
    /\ \/ pc' = "returned" /\ UNCHANGED exc
       \/ HooksRaise /\ RaiseFrom("after_attempt")
       \/ HooksRaise /\ pc' = "handler" /\ exc' = Raised("after_attempt")
    /\ UNCHANGED <<attempt_number, current_delay, historyVars>>

\* _call_after(n, exc), in the except clause.
AfterFailure ==
    /\ pc = "handler"
    /\ \/ pc' = "decide" /\ UNCHANGED exc
       \/ HooksRaise /\ RaiseFrom("after_attempt")
    /\ UNCHANGED <<attempt_number, current_delay, historyVars>>

\* Bugs in _should_retry: one attempt too many; one too few; the last attempt is
\* not told apart and the loop runs out without an outcome.
DecideWith(exhausted, more) ==
    /\ pc = "decide"
    /\ \/ exhausted /\ pc' = "raised" /\ UNCHANGED <<exc, verdict>>
       \/ more /\ pc' = "raised" /\ verdict' = "rejected" /\ UNCHANGED exc
       \/ more /\ pc' = "sleep" /\ UNCHANGED <<exc, verdict>>
    /\ UNCHANGED <<attempt_number, current_delay, executions, lastOutcome, sleeps>>
Decide_OneMore == DecideWith(attempt_number > Attempts, attempt_number <= Attempts)
Decide_OneLess == DecideWith(attempt_number >= Attempts - 1, attempt_number < Attempts - 1)
Decide_RunsOut == DecideWith(FALSE, attempt_number < Attempts)

\* _should_retry: the last attempt re-raises without asking the predicate, which
\* otherwise rejects the exception, accepts it (so does having none), or raises.
Decide ==
    /\ pc = "decide"
    /\ \/ attempt_number >= Attempts /\ pc' = "raised" /\ UNCHANGED <<exc, verdict>>
       \/ /\ attempt_number < Attempts
          /\ \/ pc' = "raised" /\ verdict' = "rejected" /\ UNCHANGED exc
             \/ pc' = "sleep" /\ UNCHANGED <<exc, verdict>>
             \/ HooksRaise /\ RaiseFrom("retry_if") /\ UNCHANGED verdict
    /\ UNCHANGED <<attempt_number, current_delay, executions, lastOutcome, sleeps>>

\* _next_delay
NextDelay ==
    LET next == current_delay * Backoff
    IN  IF MaxDelay # None /\ MaxDelay < next THEN MaxDelay ELSE next

\* sleep(_delay_with_jitter(...)), then the next round of the for loop.
SleepAndRetry ==
    /\ pc = "sleep"
    /\ \E j \in 0..Jitter : sleeps' = Append(sleeps, current_delay + j)
    /\ \/ /\ pc' = "before"
          /\ attempt_number' = attempt_number + 1
          /\ current_delay' = NextDelay
          /\ exc' = NoException
       \/ HooksRaise /\ RaiseFrom("sleep") /\ UNCHANGED <<attempt_number, current_delay>>
    /\ UNCHANGED <<executions, lastOutcome, verdict>>

\* The task is cancelled while the wrapper awaits the function, a hook or the sleep:
\* no except clause matches a CancelledError.
Cancel ==
    /\ pc \in {"before", "call", "after_success", "handler", "sleep"}
    /\ pc' = "cancelled"
    /\ exc' = Raised("cancellation")
    /\ UNCHANGED <<attempt_number, current_delay, historyVars>>

Done == pc \in {"returned", "raised", "cancelled"} /\ UNCHANGED vars

Step ==
    \/ BeforeAttempt \/ CallFunction \/ AfterSuccess
    \/ AfterFailure \/ Decide \/ SleepAndRetry \/ Cancel

Next == Step \/ Done

Spec == Init /\ [][Next]_vars

-----------------------------------------------------------------------------
(* Properties *)

TypeOK ==
    /\ pc \in {"before", "call", "after_success", "handler", "decide", "sleep",
               "returned", "raised", "cancelled"}
    /\ attempt_number \in 1..Attempts
    /\ current_delay \in Nat
    /\ exc \in [from : Sources, attempt : 1..Attempts] \cup {NoException}
    /\ executions \in Nat
    /\ verdict \in {"none", "rejected"}
    /\ lastOutcome \in {"none", "value", "matching", "other"}
    /\ sleeps \in Seq(Nat)

\* The wrapped function comes back exactly once per attempt and sleeps come only
\* between attempts, wherever the hooks, the predicate or the sleep raise: an
\* attempt is neither skipped nor repeated under the same number.
OncePerAttempt ==
    /\ executions <= Attempts
    /\ executions \in IF pc \in {"before", "call"} \/ exc.from = "before_attempt"
                      THEN {attempt_number - 1}
                      ELSE IF pc = "cancelled" THEN {attempt_number - 1, attempt_number}
                      ELSE {attempt_number}
    /\ Len(sleeps) = IF exc.from = "sleep" THEN attempt_number ELSE attempt_number - 1

\* The caller gets the outcome of the latest attempt, never an exception of an
\* earlier one.  It gets a value only if the last run of the function produced it,
\* and a failure the policy covers only when attempts are exhausted or the
\* predicate has rejected it.
LatestOutcome ==
    /\ pc = "returned" => lastOutcome = "value"
    /\ pc = "raised" => exc.attempt = attempt_number
    /\ pc = "raised" /\ exc.from = "function" =>
         \/ lastOutcome = "other"
         \/ lastOutcome = "matching" /\ (attempt_number = Attempts \/ verdict = "rejected")
=============================================================================
