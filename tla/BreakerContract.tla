-------------------------- MODULE BreakerContract --------------------------
(***************************************************************************)
(* What @circuit_breaker promises its users, as a state machine of its     *)
(* own: closed until FailureThreshold failures without a success, then     *)
(* open, letting no new call start, for ResetTimeout, then half open until *)
(* the next outcome decides.  Calls are only counted, so the contract      *)
(* holds for any number of them; the outcome of a call that overlaps an    *)
(* opening counts like any other.                                          *)
(***************************************************************************)
EXTENDS Integers

CONSTANTS FailureThreshold, ResetTimeout

VARIABLES
    mode,       \* the documented state
    streak,     \* failures without a success while closed
    remaining,  \* ticks until an open circuit may be probed
    running     \* number of calls in progress

vars == <<mode, streak, remaining, running>>

Init ==
    /\ mode = "CLOSED"
    /\ streak = 0
    /\ remaining = 0
    /\ running = 0

\* Calls start in every mode but OPEN.
Start ==
    /\ mode # "OPEN"
    /\ running' = running + 1
    /\ UNCHANGED <<mode, streak, remaining>>

\* The timeout has elapsed: a new call, or an inspection, is the first to see it.
Promote ==
    /\ mode = "OPEN"
    /\ remaining = 0
    /\ mode' = "HALF_OPEN"
    /\ running' \in {running, running + 1}
    /\ UNCHANGED <<streak, remaining>>

\* A call ends.
End == running > 0 /\ running' = running - 1

\* A success closes the circuit and forgets the failures.
Succeed ==
    /\ End
    /\ mode' = "CLOSED"
    /\ streak' = 0
    /\ remaining' = 0

\* A counted failure is tolerated while closed, up to the threshold; otherwise
\* the circuit opens, or stays open, for the whole timeout.
Fail ==
    /\ End
    /\ IF mode = "CLOSED" /\ streak + 1 < FailureThreshold
       THEN streak' = streak + 1 /\ UNCHANGED <<mode, remaining>>
       ELSE mode' = "OPEN" /\ streak' = 0 /\ remaining' = ResetTimeout

\* An exception the breaker is told to ignore.
Ignore == End /\ UNCHANGED <<mode, streak, remaining>>

Wait ==
    /\ remaining > 0
    /\ remaining' = remaining - 1
    /\ UNCHANGED <<mode, streak, running>>

Next == Start \/ Promote \/ Succeed \/ Fail \/ Ignore \/ Wait

Spec == Init /\ [][Next]_vars
=============================================================================
