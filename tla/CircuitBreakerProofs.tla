------------------------ MODULE CircuitBreakerProofs ------------------------
(***************************************************************************)
(* Safety of CircuitBreaker for every finite set of callers, threshold and *)
(* timeout.  TypeOK, StateConsistent and FailureCountBounded are together  *)
(* inductive: the count needs the state it belongs to, and the state needs *)
(* the count.                                                              *)
(***************************************************************************)
EXTENDS CircuitBreaker, FiniteSetTheorems, TLAPS

IInv == TypeOK /\ StateConsistent /\ FailureCountBounded

\* The running callers are a finite set no larger than the set of callers.
LEMMA RunningFinite ==
    /\ IsFiniteSet(Running)
    /\ Cardinality(Running) \in Nat
    /\ Cardinality(Callers) \in Nat
    /\ Cardinality(Running) <= Cardinality(Callers)
BY BreakerAssumption, FS_Subset, FS_CardinalityType DEF Running

\* A call that records its outcome leaves one running caller fewer.
LEMMA OneFewerRunning ==
    ASSUME TypeOK, NEW c \in Callers, pc[c] = "running",
           pc' = [pc EXCEPT ![c] = "idle"]
    PROVE  Cardinality(Running') = Cardinality(Running) - 1
<1>1. Running' = Running \ {c} /\ c \in Running
    BY DEF TypeOK, Running
<1>2. QED
    BY <1>1, RunningFinite, FS_RemoveElement

LEMMA InitInv == Init => IInv
<1>1. SUFFICES ASSUME Init PROVE IInv
    OBVIOUS
<1>2. TypeOK /\ StateConsistent
    BY <1>1, BreakerAssumption DEF ValidConfig, Init, TypeOK, StateConsistent, CircuitState, None
<1>3. FailureCountBounded
    BY <1>1, BreakerAssumption, RunningFinite DEF ValidConfig, Init, FailureCountBounded
<1>4. QED
    BY <1>2, <1>3 DEF IInv

LEMMA NextInv == IInv /\ [Next]_vars => IInv'
<1> SUFFICES ASSUME IInv, [Next]_vars PROVE IInv'
    OBVIOUS
<1> USE BreakerAssumption, RunningFinite
        DEF ValidConfig, IInv, TypeOK, StateConsistent, FailureCountBounded, CircuitState,
            None, current_state, breakerVars
<1>1. ASSUME Inspect PROVE IInv'
    BY <1>1 DEF Inspect, Running
<1>2. ASSUME NEW c \in Callers, Admit(c) PROVE IInv'
    BY <1>2 DEF Admit
<1>3. ASSUME NEW c \in Callers, Reject(c) \/ CallAgain(c) PROVE IInv'
    <2>1. Running' = Running
        BY <1>3 DEF Reject, CallAgain, Running
    <2>2. QED
        BY <1>3, <2>1 DEF Reject, CallAgain
<1>4. ASSUME NEW c \in Callers, RecordSuccess(c) PROVE IInv'
    BY <1>4 DEF RecordSuccess
<1>5. ASSUME NEW c \in Callers, RecordFailure(c) PROVE IInv'
    <2>1. Cardinality(Running') = Cardinality(Running) - 1
        BY <1>5, OneFewerRunning DEF RecordFailure
    <2>2. CASE state = "HALF_OPEN"
        BY <1>5, <2>1, <2>2 DEF RecordFailure, OpenNow
    <2>3. CASE state # "HALF_OPEN" /\ failure_count + 1 >= FailureThreshold
        <3>1. /\ state' = "OPEN" /\ elapsed' = 0 /\ quarantine' = ResetTimeout
              /\ failure_count' = failure_count + 1
              /\ pc' = [pc EXCEPT ![c] = "idle"]
              /\ admittedIn' = admittedIn /\ health' = health
            BY <1>5, <2>3 DEF RecordFailure, OpenNow
        <3>2. Cardinality(Running) >= 1 /\ Cardinality(Running') >= 0
            BY <2>1, RunningFinite, <1>5, FS_EmptySet DEF RecordFailure, Running
        <3>3. TypeOK' /\ StateConsistent'
            BY <2>3, <3>1
        <3>4. FailureCountBounded'
            BY <2>1, <2>3, <3>1, <3>2
        <3>5. QED
            BY <3>3, <3>4
    <2>4. CASE state # "HALF_OPEN" /\ failure_count + 1 < FailureThreshold
        BY <1>5, <2>1, <2>4 DEF RecordFailure
    <2>5. QED
        BY <2>2, <2>3, <2>4
<1>6. ASSUME NEW c \in Callers, IgnoreFailure(c) PROVE IInv'
    <2>1. Cardinality(Running') = Cardinality(Running) - 1
        BY <1>6, OneFewerRunning DEF IgnoreFailure
    <2>2. QED
        BY <1>6, <2>1 DEF IgnoreFailure
<1>7. ASSUME Tick PROVE IInv'
    <2>1. Running' = Running
        BY <1>7 DEF Tick, Running
    <2>2. QED
        BY <1>7, <2>1 DEF Tick
<1>8. ASSUME Heal \/ UNCHANGED vars PROVE IInv'
    <2>1. Running' = Running
        BY <1>8 DEF Heal, vars, Running
    <2>2. QED
        BY <1>8, <2>1 DEF Heal, vars
<1>9. QED
    BY <1>1, <1>2, <1>3, <1>4, <1>5, <1>6, <1>7, <1>8 DEF Next, BeforeCall, Outcome

LEMMA SpecInv == Spec => []IInv
BY InitInv, NextInv, PTL DEF Spec

\* The closure variables of the decorated function always have their types.
THEOREM BreakerTypeCorrect == Spec => []TypeOK
<1>1. IInv => TypeOK
    BY DEF IInv
<1>2. QED
    BY SpecInv, <1>1, PTL

\* For every number of concurrent callers: opened_at is None exactly when the
\* circuit is closed, so the assert in before_call cannot fail, the count is at
\* the threshold exactly when it is not, and a half-open circuit has waited the
\* whole reset timeout since it opened.
THEOREM BreakerStateConsistent == Spec => []StateConsistent
<1>1. IInv => StateConsistent
    BY DEF IInv
<1>2. QED
    BY SpecInv, <1>1, PTL

\* For every number of concurrent callers: late failures cannot drive the
\* counter past the threshold by more than the callers that overlapped.
THEOREM BreakerCountBounded == Spec => []FailureCountBounded
<1>1. IInv => FailureCountBounded
    BY DEF IInv
<1>2. QED
    BY SpecInv, <1>1, PTL

-----------------------------------------------------------------------------
(* CircuitBreaker implements BreakerContract *)

\* A call that is admitted is one running caller more.
LEMMA OneMoreRunning ==
    ASSUME TypeOK, NEW c \in Callers, pc[c] = "idle",
           pc' = [pc EXCEPT ![c] = "running"]
    PROVE  Cardinality(Running') = Cardinality(Running) + 1
<1>1. Running' = Running \cup {c} /\ c \notin Running
    BY DEF TypeOK, Running
<1>2. QED
    BY <1>1, RunningFinite, FS_AddElement

LEMMA ContractInit == Init => Contract!Init
<1> SUFFICES ASSUME Init PROVE Contract!Init
    OBVIOUS
<1>1. Running = {}
    BY DEF Init, Running
<1>2. Cardinality(Running) = 0
    BY <1>1, FS_EmptySet
<1>3. QED
    BY <1>2 DEF Init, Contract!Init

\* A caller that runs is counted.
LEMMA SomeRunning ==
    ASSUME NEW c \in Callers, pc[c] = "running"
    PROVE  Cardinality(Running) > 0
<1>1. Running # {}
    BY DEF Running
<1>2. QED
    BY <1>1, RunningFinite, FS_EmptySet

LEMMA ContractNext == IInv /\ [Next]_vars => [Contract!Next]_(Contract!vars)
<1> SUFFICES ASSUME IInv, [Next]_vars PROVE [Contract!Next]_(Contract!vars)
    OBVIOUS
<1> USE BreakerAssumption, RunningFinite
        DEF ValidConfig, IInv, TypeOK, StateConsistent, CircuitState, None, current_state,
            breakerVars, Contract!vars
<1>1. ASSUME Inspect PROVE Contract!Promote
    <2>1. Running' = Running
        BY <1>1 DEF Inspect, Running
    <2>2. QED
        BY <1>1, <2>1 DEF Inspect, Contract!Promote
<1>2. ASSUME NEW c \in Callers, Admit(c) PROVE Contract!Start \/ Contract!Promote
    <2>1. Cardinality(Running') = Cardinality(Running) + 1
        BY <1>2, OneMoreRunning DEF Admit
    <2>2. CASE state = "OPEN"
        BY <1>2, <2>1, <2>2 DEF Admit, Contract!Promote
    <2>3. CASE state # "OPEN"
        BY <1>2, <2>1, <2>3 DEF Admit, Contract!Start
    <2>4. QED
        BY <2>2, <2>3
<1>3. ASSUME NEW c \in Callers, Reject(c) \/ CallAgain(c) PROVE UNCHANGED Contract!vars
    <2>1. Running' = Running
        BY <1>3 DEF Reject, CallAgain, Running
    <2>2. QED
        BY <1>3, <2>1 DEF Reject, CallAgain
<1>4. ASSUME NEW c \in Callers, Outcome(c)
      PROVE  Contract!Succeed \/ Contract!Fail \/ Contract!Ignore
    <2>1. Contract!End
        BY <1>4, OneFewerRunning, SomeRunning
        DEF Outcome, RecordSuccess, RecordFailure, IgnoreFailure, Contract!End
    <2>2. CASE RecordSuccess(c)
        BY <2>1, <2>2 DEF RecordSuccess, Contract!Succeed
    <2>3. CASE RecordFailure(c)
        BY <2>1, <2>3 DEF RecordFailure, OpenNow, Contract!Fail
    <2>4. CASE IgnoreFailure(c)
        BY <2>1, <2>4 DEF IgnoreFailure, Contract!Ignore
    <2>5. QED
        BY <1>4, <2>2, <2>3, <2>4 DEF Outcome
<1>5. ASSUME Tick PROVE Contract!Wait \/ UNCHANGED Contract!vars
    <2>1. Running' = Running
        BY <1>5 DEF Tick, Running
    <2>2. CASE elapsed = None \/ elapsed = ResetTimeout
        BY <1>5, <2>1, <2>2 DEF Tick
    <2>3. CASE elapsed # None /\ elapsed < ResetTimeout
        BY <1>5, <2>1, <2>3 DEF Tick, Contract!Wait
    <2>4. QED
        BY <2>2, <2>3
<1>6. ASSUME Heal \/ UNCHANGED vars PROVE UNCHANGED Contract!vars
    <2>1. Running' = Running
        BY <1>6 DEF Heal, vars, Running
    <2>2. QED
        BY <1>6, <2>1 DEF Heal, vars
<1>7. QED
    BY <1>1, <1>2, <1>3, <1>4, <1>5, <1>6 DEF Next, BeforeCall, Contract!Next

\* For every number of concurrent callers the closure with its lock implements
\* the breaker users are promised, outcomes of overtaken calls included.
THEOREM BreakerImplementsContract == Spec => ImplementsContract
BY ContractInit, ContractNext, SpecInv, PTL DEF Spec, ImplementsContract, Contract!Spec
=============================================================================
