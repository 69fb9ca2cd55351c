---------------------------- MODULE RetryProofs ----------------------------
(***************************************************************************)
(* Safety of Retry for every number of attempts, delay, backoff, cap and   *)
(* jitter, whatever raises where and wherever the call is cancelled.       *)
(***************************************************************************)
EXTENDS Retry, TLAPS

\* What the exception in hand must be at each program point.
ExceptionInHand ==
    /\ pc \in {"before", "call", "after_success", "returned"} => exc = NoException
    /\ pc \in {"handler", "decide", "sleep"} =>
         /\ exc.attempt = attempt_number
         /\ exc.from \in {"function", "after_attempt"}
         /\ exc.from = "function" => lastOutcome = "matching"
    /\ pc = "raised" => exc # NoException
    /\ pc = "after_success" => lastOutcome = "value"
    /\ pc = "sleep" => attempt_number < Attempts

IInv == TypeOK /\ OncePerAttempt /\ LatestOutcome /\ ExceptionInHand

\* The next delay of a loop that has a whole number of ticks is one, too.
LEMMA NextDelayType == current_delay \in Nat => NextDelay \in Nat
<1> SUFFICES ASSUME current_delay \in Nat PROVE NextDelay \in Nat
    OBVIOUS
<1>1. \A m, n \in Nat : m * n \in Nat
    OBVIOUS
<1>2. QED
    BY <1>1, RetryAssumption DEF ValidConfig, NextDelay, None

LEMMA InitInv == Init => IInv
BY RetryAssumption
DEF ValidConfig, Init, IInv, TypeOK, OncePerAttempt, LatestOutcome, ExceptionInHand,
    NoException, Sources

LEMMA NextInv == IInv /\ [Next]_vars => IInv'
<1> SUFFICES ASSUME IInv, [Next]_vars PROVE IInv'
    OBVIOUS
<1> USE RetryAssumption
        DEF ValidConfig, IInv, TypeOK, OncePerAttempt, LatestOutcome, ExceptionInHand, NoException,
            Sources, Raised, RaiseFrom, historyVars
<1>1. CASE BeforeAttempt
    BY <1>1 DEF BeforeAttempt
<1>2. CASE CallFunction
    BY <1>2 DEF CallFunction
<1>3. CASE AfterSuccess
    BY <1>3 DEF AfterSuccess
<1>4. CASE AfterFailure
    BY <1>4 DEF AfterFailure
<1>5. CASE Decide
    BY <1>5 DEF Decide
<1>6. CASE SleepAndRetry
    <2>1. PICK j \in 0..Jitter : sleeps' = Append(sleeps, current_delay + j)
        BY <1>6 DEF SleepAndRetry
    <2>2. sleeps' \in Seq(Nat) /\ Len(sleeps') = Len(sleeps) + 1
        BY <2>1
    <2>3. QED
        BY <1>6, <2>2, NextDelayType DEF SleepAndRetry
<1>7. CASE Cancel
    BY <1>7 DEF Cancel
<1>8. CASE Done \/ UNCHANGED vars
    BY <1>8 DEF Done, vars
<1>9. QED
    BY <1>1, <1>2, <1>3, <1>4, <1>5, <1>6, <1>7, <1>8 DEF Next, Step

LEMMA SpecInv == Spec => []IInv
BY InitInv, NextInv, PTL DEF Spec

\* Program point, attempt number, delay and exception keep their types.
THEOREM RetryTypeCorrect == Spec => []TypeOK
<1>1. IInv => TypeOK
    BY DEF IInv
<1>2. QED
    BY SpecInv, <1>1, PTL

\* For every policy the wrapped function runs once per attempt number, at most
\* `attempts` times, and there is one sleep between two attempts.
THEOREM RetryOncePerAttempt == Spec => []OncePerAttempt
<1>1. IInv => OncePerAttempt
    BY DEF IInv
<1>2. QED
    BY SpecInv, <1>1, PTL

\* For every policy the caller gets the outcome of the latest attempt, and a
\* failure the policy covers only when it is exhausted or rejected.
THEOREM RetryLatestOutcome == Spec => []LatestOutcome
<1>1. IInv => LatestOutcome
    BY DEF IInv
<1>2. QED
    BY SpecInv, <1>1, PTL
=============================================================================
