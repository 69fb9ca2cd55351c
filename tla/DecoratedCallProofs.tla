------------------------ MODULE DecoratedCallProofs ------------------------
(***************************************************************************)
(* Safety of DecoratedCall for every stack of decorators around retry,     *)
(* every policy and every timeout. The composition implements Retry, so    *)
(* what RetryProofs shows of the loop holds inside any stack. Deadlines    *)
(* need an invariant about the cancellations that are on their way,        *)
(* records one about the layers the call is inside of and the outcomes     *)
(* they have seen.                                                         *)
(***************************************************************************)
EXTENDS DecoratedCall, RetryProofs

-----------------------------------------------------------------------------
(* The loop *)

LEMMA CallInitRetries == CallInit => Init
BY DEF CallInit

LEMMA CallStepRetries == [CallNext]_callVars => [Next]_vars
<1> SUFFICES ASSUME [CallNext]_callVars PROVE [Next]_vars
    OBVIOUS
<1>1. CASE \/ EnterLog \/ EnterMeasure \/ EnterTimeout \/ EnterGate \/ EnterValidate
           \/ EnterRetry \/ StartFunction \/ FinishFunction \/ Tick
    BY <1>1 DEF EnterLog, EnterMeasure, EnterTimeout, EnterGate, EnterValidate, EnterRetry,
                StartFunction, FinishFunction, Tick, retryVars
<1>2. CASE LeaveLog \/ LeaveMeasure \/ LeaveTimeout \/ LeaveGate \/ LeaveValidate
           \/ LeaveRetry \/ Attempt \/ Return \/ CallDone \/ UNCHANGED callVars
    BY <1>2 DEF LeaveLog, LeaveMeasure, LeaveTimeout, LeaveGate, LeaveValidate, LeaveRetry,
                Attempt, Return, CallDone, callVars, retryVars
<1>3. CASE Deliver \/ LeaveAttempt
    BY <1>3 DEF Deliver, LeaveAttempt, retryVars, Next, Step
<1>4. CASE Loop \/ Sleep
    BY <1>4 DEF Loop, Sleep, Next, Step
<1>5. QED
    BY <1>1, <1>2, <1>3, <1>4 DEF CallNext, CallStep

\* Whatever stands around it and inside it, the loop behaves as Retry says:
\* timeouts and cancellation included, the composition implements it.
THEOREM CallImplementsRetry == CallSpec => Spec
BY CallInitRetries, CallStepRetries, PTL DEF CallSpec, Spec

\* In every stack the function under retry is run once per attempt number.
THEOREM CallOncePerAttempt == CallSpec => []OncePerAttempt
BY CallImplementsRetry, RetryOncePerAttempt, PTL

\* In every stack the loop ends with the outcome of its latest attempt.
THEOREM CallLatestOutcome == CallSpec => []LatestOutcome
BY CallImplementsRetry, RetryLatestOutcome, PTL

-----------------------------------------------------------------------------
(* Deadlines *)

Timeouts == {i \in DOMAIN stack : stack[i] = "timeout"}

\* Where the control can be.
Control ==
    /\ stack \in Seq(Layers)
    /\ flow \in {"down", "function", "up", "retry", "done"}
    /\ depth \in 0..Function
    /\ flow = "down" => depth >= 1
    /\ flow = "function" => depth = Function
    /\ flow = "retry" => At("retry")
    /\ flow = "up" => depth <= Len(stack)
    /\ flow = "done" => depth = 0
    /\ now \in Nat
    /\ start \in [DOMAIN stack -> Nat]
    /\ spent \subseteq {0} \cup Timeouts
    /\ overruled \subseteq Timeouts
    /\ resisted \in {"no", "yes"}

\* A timeout that has cancelled the call had reached its deadline.
SpentElapsed == \A i \in spent \cap Timeouts : now >= start[i] + Seconds

\* As long as nothing resists, a cancellation is answered at once: it is on its
\* way up to every timeout that has sent it.
Answered ==
    resisted = "no" => \A i \in Timeouts : i < depth =>
        /\ now <= start[i] + Seconds
        /\ i \in spent => flow = "up" /\ outcome = "cancelled"

\* A cancellation on its way up is for a timeout further out, or the caller, and
\* so was one that the wait_for of a timeout remembers to have been swallowed.
Addressed ==
    /\ outcome = "cancelled" => flow \in {"up", "done"} /\ \E j \in spent : j <= depth
    /\ \A i \in overruled :
         i < depth \/ (flow = "up" /\ i = depth) => \E j \in spent : j < i

CallInv == Control /\ SpentElapsed /\ Answered /\ Addressed

LEMMA InitCallInv == CallInit => CallInv
<1>1. SUFFICES ASSUME CallInit PROVE CallInv
    OBVIOUS
<1>2. stack \in Seq(Layers) /\ Len(stack) \in Nat /\ DOMAIN stack = 1..Len(stack)
    BY <1>1, CallAssumption DEF CallInit
<1>3. QED
    BY <1>1, <1>2, CallAssumption
    DEF CallInit, CallInv, Control, SpentElapsed, Answered, Addressed, Timeouts, Function,
        ValidSeconds

\* Steps from a layer that is no timeout to the one below it.
LEMMA DownStep ==
    ASSUME CallInv, depth \in DOMAIN stack, stack[depth] # "timeout",
           flow \in {"down", "retry"}, Descend,
           start' \in [DOMAIN stack -> Nat],
           \A i \in Timeouts : start'[i] = start[i],
           UNCHANGED <<stackVars, now, spent, overruled, resisted>>
    PROVE  CallInv'
<1> USE DEF CallInv, Control, Timeouts, Function, Descend, stackVars
<1>1. Control'
    OBVIOUS
<1>2. SpentElapsed'
    BY DEF SpentElapsed
<1>3. Answered'
    BY DEF Answered
<1>4. Addressed'
    BY DEF Addressed
<1>5. QED
    BY <1>1, <1>2, <1>3, <1>4

\* Steps up with an outcome that is no cancellation, from where none was on its way.
LEMMA UpStep ==
    ASSUME CallInv, NEW result, Ascend(result),
           outcome # "cancelled", result # "cancelled",
           depth >= 1, flow # "done",
           start' \in [DOMAIN stack -> Nat],
           \A i \in Timeouts : start'[i] = start[i],
           UNCHANGED <<stackVars, now, spent, overruled, resisted>>
    PROVE  CallInv'
<1>1. Control'
    BY DEF CallInv, Control, Timeouts, Function, Ascend, stackVars
<1>2. SpentElapsed'
    BY DEF CallInv, Control, Timeouts, Function, Ascend, stackVars, SpentElapsed
<1>3. Answered'
    BY DEF CallInv, Control, Timeouts, Function, Ascend, stackVars, Answered
<1>4. Addressed'
    <2>1. outcome' # "cancelled"
        BY DEF Ascend
    <2>2. ASSUME NEW i \in overruled, i < depth' \/ (flow' = "up" /\ i = depth')
          PROVE  \E j \in spent : j < i
        <3>1. i < depth
            BY <2>2 DEF CallInv, Control, Timeouts, Function, Ascend
        <3>2. QED
            BY <3>1 DEF CallInv, Addressed
    <2>3. QED
        BY <2>1, <2>2 DEF Addressed
<1>5. QED
    BY <1>1, <1>2, <1>3, <1>4 DEF CallInv

\* A cancellation passes a layer that is no timeout.
LEMMA PassStep ==
    ASSUME CallInv, depth \in DOMAIN stack, stack[depth] # "timeout",
           flow = "up", outcome = "cancelled", Ascend(outcome),
           UNCHANGED <<stackVars, now, start, spent, overruled, resisted>>
    PROVE  CallInv'
<1> USE DEF CallInv, Control, Timeouts, Function, Ascend, stackVars
<1>1. Control'
    OBVIOUS
<1>2. SpentElapsed'
    BY DEF SpentElapsed
<1>3. Answered'
    BY DEF Answered
<1>4. Addressed'
    BY DEF Addressed
<1>5. QED
    BY <1>1, <1>2, <1>3, <1>4

\* Steps that stay at a layer, or at the function.
LEMMA StayStep ==
    ASSUME CallInv, outcome # "cancelled",
           \/ flow' = flow
           \/ flow' = "retry" /\ At("retry")
           \/ flow = "down" /\ flow' = "function" /\ depth = Function,
           start' \in [DOMAIN stack -> Nat],
           \A i \in Timeouts : start'[i] = start[i],
           UNCHANGED <<stackVars, depth, outcome, now, spent, overruled, resisted>>
    PROVE  CallInv'
<1> USE DEF CallInv, Control, Timeouts, Function, stackVars, At
<1>1. Control'
    OBVIOUS
<1>2. SpentElapsed'
    BY DEF SpentElapsed
<1>3. Answered'
    BY DEF Answered
<1>4. Addressed'
    BY DEF Addressed
<1>5. QED
    BY <1>1, <1>2, <1>3, <1>4

LEMMA EnterInv ==
    ASSUME CallInv, EnterLog \/ EnterMeasure \/ EnterGate \/ EnterValidate \/ EnterRetry
    PROVE  CallInv'
<1>1. PICK layer \in {"log", "measure", "env", "deprecated", "validate", "retry"} :
           Entering(layer) /\ UNCHANGED <<spent, overruled>>
    BY DEF EnterLog, EnterMeasure, EnterGate, EnterValidate, EnterRetry
<1>2. /\ depth \in DOMAIN stack /\ stack[depth] = layer /\ depth >= 1
      /\ flow = "down" /\ outcome # "cancelled"
      /\ start' \in [DOMAIN stack -> Nat]
      /\ \A i \in Timeouts : start'[i] = start[i]
      /\ UNCHANGED <<stackVars, now, resisted>>
    BY <1>1 DEF Entering, At, CallInv, Control, Addressed, Timeouts, Function
<1>3. \/ Descend
      \/ Ascend("refused")
      \/ flow' = "retry" /\ layer = "retry" /\ UNCHANGED <<depth, outcome>>
    BY <1>1, <1>2 DEF EnterLog, EnterMeasure, EnterGate, EnterValidate, EnterRetry, Entering, At
<1>4. CASE Descend
    BY <1>1, <1>2, <1>4, DownStep
<1>5. CASE Ascend("refused")
    BY <1>1, <1>2, <1>5, UpStep
<1>6. CASE flow' = "retry" /\ layer = "retry" /\ UNCHANGED <<depth, outcome>>
    BY <1>1, <1>2, <1>6, StayStep DEF At
<1>7. QED
    BY <1>3, <1>4, <1>5, <1>6

LEMMA EnterTimeoutInv == ASSUME CallInv, EnterTimeout PROVE CallInv'
<1> USE DEF CallInv, Control, Timeouts, Function
<1>0. DOMAIN stack = 1..Len(stack) /\ Len(stack) \in Nat
    OBVIOUS
<1>1. /\ depth \in DOMAIN stack /\ stack[depth] = "timeout"
      /\ start \in [DOMAIN stack -> Nat] /\ now \in Nat
      /\ flow = "down" /\ outcome # "cancelled"
    BY DEF EnterTimeout, Entering, At, Addressed
<1>2. /\ start' = [start EXCEPT ![depth] = now]
      /\ flow' = "down" /\ depth' = depth + 1
      /\ spent' = spent \ {depth} /\ overruled' = overruled \ {depth}
      /\ UNCHANGED <<stack, outcome, now, resisted>>
    BY DEF EnterTimeout, Entering, Descend, stackVars
<1>3. Control'
    <2>1. start' \in [DOMAIN stack -> Nat]
        BY <1>1, <1>2
    <2>2. spent' \subseteq {0} \cup Timeouts' /\ overruled' \subseteq Timeouts'
        BY <1>2
    <2>3. depth' \in 1..Function'
        BY <1>0, <1>1, <1>2
    <2>4. stack' \in Seq(Layers) /\ now' \in Nat /\ resisted' \in {"no", "yes"}
        BY <1>2
    <2>5. QED
        BY <1>2, <2>1, <2>2, <2>3, <2>4
<1>4. SpentElapsed'
    BY <1>1, <1>2 DEF SpentElapsed
<1>5. Answered'
    BY <1>1, <1>2, CallAssumption DEF Answered, ValidSeconds
<1>6. Addressed'
    <2>1. SUFFICES ASSUME NEW i \in overruled', i < depth'
                   PROVE  \E j \in spent' : j < i
        BY <1>1, <1>2 DEF Addressed
    <2>2. i \in overruled /\ i < depth
        BY <1>0, <1>1, <1>2, <2>1
    <2>3. PICK j \in spent : j < i
        BY <2>2 DEF Addressed
    <2>4. j # depth
        BY <1>0, <1>1, <2>2, <2>3
    <2>5. QED
        BY <1>2, <2>3, <2>4
<1>7. QED
    BY <1>3, <1>4, <1>5, <1>6

LEMMA FunctionInv == ASSUME CallInv, StartFunction \/ FinishFunction PROVE CallInv'
<1>1. CASE StartFunction
    <2>1. outcome # "cancelled" /\ start' \in [DOMAIN stack -> Nat]
        BY <1>1 DEF StartFunction, CallInv, Control, Addressed
    <2>2. QED
        BY <1>1, <2>1, StayStep DEF StartFunction, stackVars
<1>2. CASE FinishFunction
    <2>1. PICK result \in {"value", "odd", "transient", "fatal", "TimeoutError"} : Ascend(result)
        BY <1>2 DEF FinishFunction
    <2>2. /\ flow = "function" /\ depth >= 1
          /\ outcome # "cancelled" /\ start' \in [DOMAIN stack -> Nat]
        BY <1>2 DEF FinishFunction, CallInv, Control, Addressed, Function
    <2>3. UNCHANGED <<stackVars, now, start, spent, overruled, resisted>>
        BY <1>2 DEF FinishFunction
    <2>4. QED
        BY <2>1, <2>2, <2>3, UpStep
<1>3. QED
    BY <1>1, <1>2

\* Only while nothing is due, or while something resists, does the time pass.
LEMMA TickInv == ASSUME CallInv, Tick PROVE CallInv'
<1> USE DEF CallInv, Control, Timeouts, Function, stackVars, Tick
<1>1. Control'
    BY DEF At, Asleep
<1>2. SpentElapsed'
    BY CallAssumption DEF SpentElapsed, ValidSeconds
<1>3. Answered'
    BY CallAssumption DEF Answered, Due, Asleep, ValidSeconds
<1>4. Addressed'
    BY DEF Addressed
<1>5. QED
    BY <1>1, <1>2, <1>3, <1>4

LEMMA DeliverInv == ASSUME CallInv, Deliver PROVE CallInv'
<1> USE DEF CallInv, Control, Timeouts, Function
<1>1. PICK cancelling \in {Due, Due \cup {0}} :
        /\ ~(cancelling \subseteq spent)
        /\ spent' = spent \cup cancelling
        /\ \/ /\ Asleep \/ flow = "function"
              /\ Ascend("cancelled")
              /\ UNCHANGED <<overruled, resisted>>
           \/ /\ flow = "function"
              /\ resisted' = "yes"
              /\ overruled' = overruled \cup
                    {i \in DOMAIN stack : stack[i] = "timeout" /\ \E j \in cancelling : j < i}
              /\ UNCHANGED <<flow, depth, outcome>>
        /\ UNCHANGED <<stackVars, now, start>>
    BY DEF Deliver
<1>2. /\ depth \in Nat /\ depth >= 1 /\ depth - 1 <= Len(stack) /\ Len(stack) \in Nat
      /\ flow \in {"function", "retry"}
      /\ now \in Nat
    BY <1>1 DEF Asleep, At
<1>3. /\ UNCHANGED <<stack, now, start>>
      /\ spent' = spent \cup cancelling
      /\ cancelling # {}
    BY <1>1 DEF stackVars
<1>4. /\ cancelling \subseteq {0} \cup Timeouts
      /\ \A i \in cancelling : i < depth
      /\ \A i \in cancelling \cap Timeouts : now >= start[i] + Seconds
    BY <1>1, <1>2 DEF Due
<1>5. SpentElapsed'
    BY <1>3, <1>4 DEF SpentElapsed
<1>6. CASE /\ Asleep \/ flow = "function"
           /\ Ascend("cancelled")
           /\ UNCHANGED <<overruled, resisted>>
    <2>1. flow' = "up" /\ depth' = depth - 1 /\ outcome' = "cancelled"
        BY <1>6 DEF Ascend
    <2>2. Control'
        BY <1>2, <1>3, <1>4, <1>6, <2>1
    <2>3. Answered'
        BY <1>2, <1>3, <1>4, <1>6, <2>1 DEF Answered
    <2>4. Addressed'
        <3>1. \E j \in spent' : j <= depth'
            <4>1. PICK j \in cancelling : j \in spent'
                BY <1>3
            <4>2. j \in Nat /\ j < depth
                BY <1>4, <4>1
            <4>3. QED
                BY <1>2, <2>1, <4>1, <4>2
        <3>2. ASSUME NEW i \in overruled', i <= depth'
              PROVE  \E j \in spent' : j < i
            <4>1. i \in overruled /\ i < depth
                BY <1>2, <1>6, <2>1, <3>2
            <4>2. QED
                BY <1>3, <4>1 DEF Addressed
        <3>3. \A i \in overruled' : i < depth' \/ i = depth' => i <= depth'
            <4>1. \A i \in overruled' : i \in Nat
                BY <1>6
            <4>2. QED
                BY <1>2, <2>1, <4>1
        <3>4. QED
            BY <2>1, <3>1, <3>2, <3>3 DEF Addressed
    <2>5. QED
        BY <1>5, <2>2, <2>3, <2>4
<1>7. CASE /\ flow = "function"
           /\ resisted' = "yes"
           /\ overruled' = overruled \cup
                 {i \in DOMAIN stack : stack[i] = "timeout" /\ \E j \in cancelling : j < i}
           /\ UNCHANGED <<flow, depth, outcome>>
    <2>1. Control'
        BY <1>2, <1>3, <1>4, <1>7
    <2>2. Answered'
        BY <1>7 DEF Answered
    <2>3. Addressed'
        BY <1>2, <1>3, <1>4, <1>7 DEF Addressed
    <2>4. QED
        BY <1>5, <2>1, <2>2, <2>3
<1>8. QED
    BY <1>1, <1>6, <1>7

LEMMA LeaveInv ==
    ASSUME CallInv, LeaveLog \/ LeaveMeasure \/ LeaveGate \/ LeaveValidate
    PROVE  CallInv'
<1>1. PICK layer \in {"log", "measure", "env", "deprecated", "validate"} : Leaving(layer)
    BY DEF LeaveLog, LeaveMeasure, LeaveGate, LeaveValidate
<1>2. /\ depth \in DOMAIN stack /\ stack[depth] # "timeout" /\ depth >= 1
      /\ flow = "up"
      /\ start' \in [DOMAIN stack -> Nat]
      /\ UNCHANGED <<stackVars, now, start, spent, overruled, resisted>>
    BY <1>1 DEF Leaving, At, CallInv, Control, Function
<1>3. \/ outcome = "cancelled" /\ Ascend(outcome)
      \/ outcome # "cancelled" /\ \E result \in Outcomes \ {"cancelled"} : Ascend(result)
      \/ outcome # "cancelled" /\ Ascend(outcome)
    BY DEF LeaveLog, LeaveMeasure, LeaveGate, LeaveValidate, RecordOutcome, PassCancelled, Spoil,
           Outcomes, Values, Errors
<1>4. CASE outcome = "cancelled" /\ Ascend(outcome)
    BY <1>2, <1>4, PassStep
<1>5. CASE outcome # "cancelled" /\ \E result \in Outcomes \ {"cancelled"} : Ascend(result)
    BY <1>2, <1>5, UpStep
<1>6. CASE outcome # "cancelled" /\ Ascend(outcome)
    BY <1>2, <1>6, UpStep
<1>7. QED
    BY <1>3, <1>4, <1>5, <1>6

\* The wait_for of a timeout ends: with a TimeoutError only if no cancellation is
\* meant for anybody outside of it.
LEMMA LeaveTimeoutInv == ASSUME CallInv, LeaveTimeout PROVE CallInv'
<1> USE DEF CallInv, Control, Timeouts, Function
<1>1. /\ depth \in Timeouts /\ depth >= 1 /\ depth \in Nat
      /\ flow = "up"
      /\ UNCHANGED <<stack, now, start, spent, overruled, resisted>>
    BY DEF LeaveTimeout, Leaving, At, stackVars
<1>2. start' \in [DOMAIN stack -> Nat]
    BY <1>1
<1>3. PICK result \in {outcome, "FunctionTimedOut", "cancelled"} :
        /\ Ascend(result)
        /\ \/ result = "FunctionTimedOut" /\ TimedOut
           \/ result = outcome /\ ~TimedOut
           \/ result = "cancelled" /\ depth \in overruled
    BY DEF LeaveTimeout
<1>4. flow' = "up" /\ depth' = depth - 1 /\ outcome' = result
    BY <1>3 DEF Ascend
<1>5. Control'
    BY <1>1, <1>2, <1>4
<1>6. SpentElapsed'
    BY <1>1 DEF SpentElapsed
<1>7. Answered'
    <2>1. SUFFICES ASSUME resisted = "no", NEW i \in Timeouts, i < depth - 1
                   PROVE  /\ now <= start[i] + Seconds
                          /\ i \in spent => result = "cancelled"
        BY <1>1, <1>4 DEF Answered
    <2>2. now <= start[i] + Seconds /\ (i \in spent => outcome = "cancelled")
        BY <1>1, <2>1 DEF Answered
    <2>3. TimedOut /\ outcome = "cancelled" => i \notin spent
        BY <1>1, <2>1 DEF TimedOut
    <2>4. TimedOut \/ outcome # "cancelled" \/ result = "cancelled"
        BY <1>3
    <2>5. i \in spent => result = "cancelled"
        BY <1>3, <2>2, <2>3, <2>4
    <2>6. QED
        BY <2>2, <2>5
<1>8. Addressed'
    <2>1. ASSUME result = "cancelled" PROVE \E j \in spent : j < depth
        <3>1. CASE depth \in overruled
            BY <1>1, <3>1 DEF Addressed
        <3>2. CASE outcome = "cancelled" /\ ~TimedOut
            <4>1. PICK j \in spent : j <= depth
                BY <3>2 DEF Addressed
            <4>2. CASE j = depth
                BY <1>1, <3>2, <4>1, <4>2 DEF TimedOut
            <4>3. CASE j # depth
                BY <1>1, <4>1, <4>3
            <4>4. QED
                BY <4>2, <4>3
        <3>3. QED
            BY <1>3, <2>1, <3>1, <3>2
    <2>2. \A j \in spent : j < depth => j <= depth - 1
        BY <1>1
    <2>3. \A i \in overruled : i < depth - 1 \/ i = depth - 1 => i < depth
        BY <1>1
    <2>4. QED
        BY <1>1, <1>4, <2>1, <2>2, <2>3 DEF Addressed
<1>9. QED
    BY <1>5, <1>6, <1>7, <1>8

\* retry does not catch a cancellation.
LEMMA LeaveAttemptInv == ASSUME CallInv, LeaveAttempt PROVE CallInv'
<1>1. /\ depth \in DOMAIN stack /\ stack[depth] = "retry" /\ flow = "up"
      /\ start' \in [DOMAIN stack -> Nat]
      /\ UNCHANGED <<stackVars, now, start, spent, overruled, resisted>>
    BY DEF LeaveAttempt, Leaving, At, CallInv, Control
<1>2. Class("cancelled") = "other"
    BY CallAssumption DEF Class, Values, Errors
<1>3. CASE outcome = "cancelled"
    BY <1>1, <1>2, <1>3, PassStep DEF LeaveAttempt
<1>4. CASE outcome # "cancelled"
    BY <1>1, <1>4, StayStep DEF LeaveAttempt, At
<1>5. QED
    BY <1>3, <1>4

LEMMA LoopInv == ASSUME CallInv, Loop \/ Sleep PROVE CallInv'
<1>1. /\ flow = "retry" /\ outcome # "cancelled"
      /\ start' \in [DOMAIN stack -> Nat]
      /\ UNCHANGED <<stackVars, flow, depth, outcome, now, start, spent, overruled, resisted>>
    BY DEF Loop, Sleep, InLoop, CallInv, Control, Addressed
<1>2. QED
    BY <1>1, StayStep

LEMMA AttemptInv == ASSUME CallInv, Attempt \/ LeaveRetry PROVE CallInv'
<1>1. /\ depth \in DOMAIN stack /\ depth >= 1 /\ stack[depth] # "timeout"
      /\ flow = "retry" /\ outcome # "cancelled"
      /\ start' \in [DOMAIN stack -> Nat]
      /\ UNCHANGED <<stackVars, now, start, spent, overruled, resisted>>
    BY DEF Attempt, LeaveRetry, InLoop, CallInv, Control, Addressed, At
<1>2. CASE Attempt
    BY <1>1, <1>2, DownStep DEF Attempt
<1>3. CASE LeaveRetry
    BY <1>1, <1>3, UpStep DEF LeaveRetry
<1>4. QED
    BY <1>2, <1>3

LEMMA ReturnInv == ASSUME CallInv, Return \/ CallDone \/ UNCHANGED callVars PROVE CallInv'
<1> USE DEF CallInv, Control, Timeouts, Function
<1>1. CASE Return
    <2>1. /\ flow = "up" /\ depth = 0 /\ flow' = "done"
          /\ UNCHANGED <<stack, depth, outcome, now, start, spent, overruled, resisted>>
        BY <1>1 DEF Return, stackVars
    <2>2. Control' /\ SpentElapsed'
        BY <2>1 DEF SpentElapsed
    <2>3. Answered' /\ Addressed'
        BY <2>1 DEF Answered, Addressed
    <2>4. QED
        BY <2>2, <2>3
<1>2. CASE CallDone \/ UNCHANGED callVars
    <2>1. UNCHANGED <<stack, flow, depth, outcome, now, start, spent, overruled, resisted>>
        BY <1>2 DEF CallDone, callVars, stackVars
    <2>2. Control' /\ SpentElapsed' /\ Answered' /\ Addressed'
        BY <2>1 DEF At, SpentElapsed, Answered, Addressed
    <2>3. QED
        BY <2>2
<1>3. QED
    BY <1>1, <1>2

LEMMA NextCallInv == CallInv /\ [CallNext]_callVars => CallInv'
BY EnterInv, EnterTimeoutInv, FunctionInv, TickInv, DeliverInv, LeaveInv, LeaveTimeoutInv,
   LeaveAttemptInv, LoopInv, AttemptInv, ReturnInv
DEF CallNext, CallStep

LEMMA CallInvHolds == CallSpec => []CallInv
BY InitCallInv, NextCallInv, PTL DEF CallSpec

\* For every stack: a call overstays a deadline only if the function blocks or
\* resists, no timeout fires early, and only the caller's own cancellation
\* reaches the caller as one.
THEOREM CallTimeoutsExact == CallSpec => []TimeoutsExact
<1>1. CallInv => TimeoutsExact
    <2>1. SUFFICES ASSUME CallInv PROVE TimeoutsExact
        OBVIOUS
    <2>2. resisted = "no" => \A i \in DOMAIN stack :
            stack[i] = "timeout" /\ i < depth => now <= start[i] + Seconds
        BY <2>1 DEF CallInv, Answered, Timeouts
    <2>3. flow = "up" /\ At("timeout") /\ TimedOut /\ outcome = "cancelled" =>
            now >= start[depth] + Seconds
        BY <2>1 DEF CallInv, SpentElapsed, Timeouts, At, TimedOut
    <2>4. flow = "done" /\ outcome = "cancelled" => 0 \in spent
        BY <2>1 DEF CallInv, Control, Addressed, Timeouts
    <2>5. QED
        BY <2>2, <2>3, <2>4 DEF TimeoutsExact
<1>2. QED
    BY CallInvHolds, <1>1, PTL

-----------------------------------------------------------------------------
(* Types *)

\* What CallTypeOK says beyond Control and the types of the loop.
LayerTypes ==
    /\ stack \in Stacks
    /\ outcome \in Outcomes
    /\ since \in 0..now
    /\ start \in [DOMAIN stack -> 0..now]
    /\ records \in [DOMAIN stack -> Events]
    /\ entered \in [DOMAIN stack -> Nat]
    /\ unrecorded \subseteq {i \in DOMAIN stack : stack[i] \in Observers}

LEMMA RecordType ==
    ASSUME LayerTypes, depth \in DOMAIN stack, NEW what \in {"finished", "failed"},
           RecordEnd(what)
    PROVE  records' \in [DOMAIN stack -> Events]
<1>1. records[depth] \in Events
    BY DEF LayerTypes
<1>2. [records[depth] EXCEPT !.ends = Append(@, what)] \in Events
    <2> DEFINE ends == records[depth].ends
    <2>1. ends \in Seq({"finished", "failed"})
        BY <1>1 DEF Events
    <2>2. Append(ends, what) \in Seq({"finished", "failed"})
        BY <2>1
    <2>3. QED
        BY <1>1, <2>2 DEF Events
<1>3. records' = [records EXCEPT ![depth] = [records[depth] EXCEPT !.ends = Append(@, what)]]
    BY DEF RecordEnd
<1>4. QED
    BY <1>2, <1>3 DEF LayerTypes

LEMMA StartType ==
    ASSUME LayerTypes, depth \in DOMAIN stack, EnterLog
    PROVE  records' \in [DOMAIN stack -> Events]
<1>1. records[depth] \in Events
    BY DEF LayerTypes
<1>2. [records[depth] EXCEPT !.started = @ + 1] \in Events
    BY <1>1 DEF Events
<1>3. records' = [records EXCEPT ![depth] = [records[depth] EXCEPT !.started = @ + 1]]
    BY DEF EnterLog
<1>4. QED
    BY <1>2, <1>3 DEF LayerTypes

LEMMA EnteringType ==
    ASSUME LayerTypes, Control, NEW layer, Entering(layer)
    PROVE  /\ start' \in [DOMAIN stack -> 0..now]
           /\ entered' \in [DOMAIN stack -> Nat]
           /\ depth \in DOMAIN stack
           /\ UNCHANGED <<stack, since, now, unrecorded>>
<1>1. now \in 0..now
    BY DEF Control
<1>2. QED
    BY <1>1 DEF LayerTypes, Entering, At, stackVars

LEMMA EnterTypes ==
    ASSUME LayerTypes, Control,
           \/ EnterLog \/ EnterMeasure \/ EnterTimeout
           \/ EnterGate \/ EnterValidate \/ EnterRetry
    PROVE  LayerTypes'
<1>1. PICK layer \in Layers : Entering(layer)
    BY DEF EnterLog, EnterMeasure, EnterTimeout, EnterGate, EnterValidate, EnterRetry,
           Layers, Observers, Gates
<1>2. outcome' \in Outcomes
    BY DEF EnterLog, EnterMeasure, EnterTimeout, EnterGate, EnterValidate, EnterRetry,
           Descend, Ascend, LayerTypes, Outcomes, Errors
<1>3. records' \in [DOMAIN stack -> Events]
    <2>1. UNCHANGED records \/ EnterLog
        BY DEF EnterLog, EnterMeasure, EnterTimeout, EnterGate, EnterValidate, EnterRetry
    <2>2. QED
        BY <1>1, <2>1, EnteringType, StartType DEF LayerTypes
<1>4. QED
    BY <1>1, <1>2, <1>3, EnteringType DEF LayerTypes

LEMMA LeaveTypes ==
    ASSUME LayerTypes, Control,
           \/ LeaveLog \/ LeaveMeasure \/ LeaveTimeout
           \/ LeaveGate \/ LeaveValidate \/ LeaveAttempt
    PROVE  LayerTypes'
<1>1. PICK layer \in Layers :
        /\ Leaving(layer)
        /\ layer \in Observers \/ UNCHANGED <<records, unrecorded>>
    BY DEF LeaveLog, LeaveMeasure, LeaveTimeout, LeaveGate, LeaveValidate, LeaveAttempt,
           Layers, Observers, Gates
<1>2. /\ depth \in DOMAIN stack /\ stack[depth] = layer
      /\ UNCHANGED <<stack, now, since, start, entered>>
    BY <1>1 DEF Leaving, At, stackVars
<1>3. outcome' \in Outcomes
    BY DEF LeaveLog, LeaveMeasure, LeaveTimeout, LeaveGate, LeaveValidate, LeaveAttempt,
           RecordOutcome, PassCancelled, Spoil, Ascend, LayerTypes, Outcomes, Errors
<1>4. /\ UNCHANGED unrecorded \/ (layer \in Observers /\ unrecorded' = unrecorded \cup {depth})
      /\ UNCHANGED records \/ RecordEnd("finished") \/ RecordEnd("failed")
    BY <1>1, <1>2 DEF LeaveLog, LeaveMeasure, LeaveTimeout, LeaveGate, LeaveValidate, LeaveAttempt,
           RecordOutcome, PassCancelled, Spoil, Leaving, At, Observers
<1>5. records' \in [DOMAIN stack -> Events]
    BY <1>2, <1>4, RecordType DEF LayerTypes
<1>6. unrecorded' \subseteq {i \in DOMAIN stack : stack[i] \in Observers}
    BY <1>2, <1>4 DEF LayerTypes
<1>7. QED
    BY <1>2, <1>3, <1>5, <1>6 DEF LayerTypes

LEMMA FunctionTypes ==
    ASSUME LayerTypes, Control, StartFunction \/ FinishFunction \/ Deliver \/ Tick
    PROVE  LayerTypes'
<1> USE DEF LayerTypes, Control, stackVars
<1>1. CASE StartFunction \/ FinishFunction \/ Deliver
    <2>1. /\ UNCHANGED <<stack, now, start, records, entered, unrecorded>>
          /\ UNCHANGED since \/ since' = now
        BY <1>1 DEF StartFunction, FinishFunction, Deliver
    <2>2. outcome' \in Outcomes
        BY <1>1 DEF StartFunction, FinishFunction, Deliver, Ascend, Outcomes, Values, Errors
    <2>3. QED
        BY <2>1, <2>2
<1>2. CASE Tick
    <2>1. now' = now + 1 /\ UNCHANGED <<stack, outcome, since, start, records, entered, unrecorded>>
        BY <1>2 DEF Tick
    <2>2. \A t \in 0..now : t \in 0..now'
        BY <2>1
    <2>3. QED
        BY <2>1, <2>2
<1>3. QED
    BY <1>1, <1>2

LEMMA LoopTypes ==
    ASSUME LayerTypes, Control, Loop \/ Sleep \/ Attempt \/ LeaveRetry
    PROVE  LayerTypes'
<1>1. /\ UNCHANGED <<stack, now, start, records, entered, unrecorded>>
      /\ UNCHANGED since \/ since' = now
    BY DEF Loop, Sleep, Attempt, LeaveRetry, InLoop, stackVars
<1>2. outcome' \in Outcomes
    BY DEF Loop, Sleep, Attempt, LeaveRetry, Descend, Ascend, LayerTypes, Outcomes, Errors
<1>3. QED
    BY <1>1, <1>2 DEF LayerTypes, Control

LEMMA InitTypes == CallInit => LayerTypes
<1>1. SUFFICES ASSUME CallInit PROVE LayerTypes
    OBVIOUS
<1>2. [started |-> 0, ends |-> << >>] \in Events
    BY DEF Events
<1>3. QED
    BY <1>1, <1>2 DEF CallInit, LayerTypes, Outcomes, Values

LEMMA NextTypes == LayerTypes /\ Control /\ [CallNext]_callVars => LayerTypes'
<1>1. SUFFICES ASSUME LayerTypes, Control, [CallNext]_callVars PROVE LayerTypes'
    OBVIOUS
<1>2. CASE Return \/ CallDone \/ UNCHANGED callVars
    BY <1>1, <1>2 DEF Return, CallDone, callVars, stackVars, LayerTypes
<1>3. QED
    BY <1>1, <1>2, EnterTypes, LeaveTypes, FunctionTypes, LoopTypes DEF CallNext, CallStep

\* For every stack the control stays within it, and the loop, the layers and their
\* records keep their types.
THEOREM CallTypeCorrect == CallSpec => []CallTypeOK
<1>1. CallInv => Control
    BY DEF CallInv
<1>2. TypeOK /\ CallInv /\ LayerTypes => CallTypeOK
    BY DEF CallTypeOK, CallInv, Control, LayerTypes, Timeouts, Function
<1>3. QED
    BY CallImplementsRetry, RetryTypeCorrect, CallInvHolds, InitTypes, NextTypes, <1>1, <1>2, PTL
    DEF CallSpec

-----------------------------------------------------------------------------
(* Records *)

Recorders == {i \in DOMAIN stack : stack[i] \in Observers}

\* The call is inside of layer i, and not past it.
Inside(i) == IF flow \in {"up", "done"} THEN i <= depth ELSE i < depth

\* Control has yet to get to layer i in this round.
Ahead(i) == \/ flow = "down" /\ i >= depth
            \/ flow = "retry" /\ pc \in {"before", "call"}

\* A layer outside of retry is entered once, one inside of it once per attempt.
EnteredPerRound ==
    \A i \in Recorders :
        entered[i] <= IF i < RetryLayer
                      THEN IF flow = "down" /\ i >= depth THEN 0 ELSE 1
                      ELSE IF Ahead(i) THEN attempt_number - 1 ELSE attempt_number

\* The program point of the loop while the control is elsewhere.
LoopWaits ==
    /\ flow = "down" /\ depth <= RetryLayer => pc = "before" /\ lastOutcome = "none"
    /\ depth > RetryLayer \/ (flow = "up" /\ depth = RetryLayer) => pc = "call"

\* Every end stands for one entry, and every entry is still under way, has its
\* end recorded, or is one of a layer that has kept no record of some outcome.
EndsCounted ==
    \A i \in Recorders :
        /\ Len(Ends(i)) + (IF Inside(i) THEN 1 ELSE 0) <= entered[i]
        /\ i \notin unrecorded => Len(Ends(i)) + (IF Inside(i) THEN 1 ELSE 0) = entered[i]
        /\ stack[i] = "log" => records[i].started = entered[i]

\* The outcome at hand is one that layer i has let through.
Seen(i) == \/ flow \in {"up", "done"} /\ i > depth
           \/ flow = "retry" /\ lastOutcome # "none" /\ i > RetryLayer

OutcomeTold ==
    \A i \in Recorders : Seen(i) =>
        /\ outcome \in Values /\ i \notin unrecorded => EndedWith(i, "finished")
        /\ outcome \in Values /\ i < RetryLayer => Ends(i) = <<"finished">>
        /\ outcome = "transient" /\ i \notin unrecorded => EndedWith(i, "failed")

RecordInv == EnteredPerRound /\ LoopWaits /\ EndsCounted /\ OutcomeTold

\* What the steps below start from.
Setting == LayerTypes /\ Control /\ IInv

LEMMA RetryPlace ==
    ASSUME stack \in Stacks
    PROVE  /\ Len(stack) \in Nat /\ DOMAIN stack = 1..Len(stack)
           /\ RetryLayer \in DOMAIN stack
           /\ \A i \in DOMAIN stack : stack[i] = "retry" <=> i = RetryLayer
           /\ RetryLayer \notin Recorders
<1>1. stack \in Seq(Layers)
    BY CallAssumption
<1>2. PICK r \in DOMAIN stack : \A i \in DOMAIN stack : stack[i] = "retry" <=> i = r
    BY CallAssumption
<1>3. RetryLayer \in DOMAIN stack /\ stack[RetryLayer] = "retry"
    BY <1>2 DEF RetryLayer
<1>4. QED
    BY <1>1, <1>2, <1>3 DEF Recorders, Observers

LEMMA InitRecordInv == CallInit => RecordInv
<1>1. SUFFICES ASSUME CallInit PROVE RecordInv
    OBVIOUS
<1>2. stack \in Stacks /\ Len(<< >>) = 0
    BY <1>1 DEF CallInit
<1>3. \A i \in Recorders : i \in Nat /\ i >= 1
    BY <1>2, RetryPlace DEF Recorders
<1>4. EnteredPerRound /\ LoopWaits
    BY <1>1, <1>2, <1>3, RetryPlace
    DEF CallInit, Init, EnteredPerRound, LoopWaits, Recorders, Ahead
<1>5. EndsCounted /\ OutcomeTold
    BY <1>1, <1>2, <1>3 DEF CallInit, EndsCounted, OutcomeTold, Recorders, Inside, Ends, Seen
<1>6. QED
    BY <1>4, <1>5 DEF RecordInv

\* Steps that record nothing and enter or leave no recorder: who is inside of what
\* stays, no layer is ahead again in the same round, and no outcome is passed off
\* as one that a layer has seen.
LEMMA QuietStep ==
    ASSUME Setting, RecordInv,
           UNCHANGED <<stack, records, unrecorded>>,
           \A i \in Recorders : entered'[i] = entered[i],
           LoopWaits',
           \A i \in Recorders : Inside(i)' <=> Inside(i),
           \A i \in Recorders : flow' = "down" /\ i >= depth' =>
               (flow = "down" /\ i >= depth) \/ i > RetryLayer,
           \/ attempt_number' = attempt_number /\ \A i \in Recorders :
                i > RetryLayer /\ Ahead(i)' => Ahead(i)
           \/ attempt_number' = attempt_number + 1,
           \A i \in Recorders : Seen(i)' =>
               outcome' \notin Values \cup {"transient"} \/ (outcome' = outcome /\ Seen(i))
    PROVE  RecordInv'
<1>1. /\ stack' = stack /\ Recorders' = Recorders /\ RetryLayer' = RetryLayer
      /\ \A i : Ends(i)' = Ends(i)
      /\ \A i, what : EndedWith(i, what)' <=> EndedWith(i, what)
    BY DEF Recorders, RetryLayer, Ends, EndedWith
<1>2. /\ attempt_number \in Nat
      /\ entered \in [DOMAIN stack -> Nat]
      /\ RetryLayer \in Nat /\ DOMAIN stack \subseteq Nat /\ RetryLayer \notin Recorders
    BY RetryPlace DEF Setting, LayerTypes, IInv, TypeOK
<1>3. EnteredPerRound'
    <2>1. SUFFICES ASSUME NEW i \in Recorders
                   PROVE  entered[i] <= IF i < RetryLayer
                            THEN IF flow' = "down" /\ i >= depth' THEN 0 ELSE 1
                            ELSE IF Ahead(i)' THEN attempt_number' - 1 ELSE attempt_number'
        BY <1>1 DEF EnteredPerRound
    <2>2. entered[i] <= IF i < RetryLayer
                        THEN IF flow = "down" /\ i >= depth THEN 0 ELSE 1
                        ELSE IF Ahead(i) THEN attempt_number - 1 ELSE attempt_number
        BY DEF RecordInv, EnteredPerRound
    <2>3. i \in Nat /\ entered[i] \in Nat /\ i # RetryLayer
        BY <1>2 DEF Recorders
    <2>4. CASE i < RetryLayer
        BY <1>2, <2>2, <2>3, <2>4
    <2>5. CASE i > RetryLayer
        BY <1>2, <2>2, <2>3, <2>5
    <2>6. QED
        BY <1>2, <2>3, <2>4, <2>5
<1>4. EndsCounted'
    BY <1>1 DEF RecordInv, EndsCounted
<1>5. OutcomeTold'
    BY <1>1 DEF RecordInv, OutcomeTold, Values
<1>6. QED
    BY <1>3, <1>4, <1>5 DEF RecordInv

\* A layer that is neither a recorder nor retry lets the call in, or refuses it.
LEMMA EnterOthersRecords ==
    ASSUME Setting, RecordInv, EnterTimeout \/ EnterGate \/ EnterValidate
    PROVE  RecordInv'
<1>1. PICK layer \in {"timeout", "env", "deprecated", "validate"} : Entering(layer)
    BY DEF EnterTimeout, EnterGate, EnterValidate
<1>2. /\ flow = "down" /\ depth \in DOMAIN stack /\ stack[depth] = layer
      /\ depth \notin Recorders /\ depth # RetryLayer
      /\ DOMAIN stack = 1..Len(stack) /\ Len(stack) \in Nat /\ RetryLayer \in DOMAIN stack
    BY <1>1, RetryPlace DEF Entering, At, Recorders, Observers, Setting, LayerTypes
<1>3. /\ UNCHANGED <<stack, records, unrecorded, retryVars>>
      /\ RetryLayer' = RetryLayer
      /\ \/ flow' = "down" /\ depth' = depth + 1
         \/ flow' = "up" /\ depth' = depth - 1 /\ outcome' = "refused"
    BY <1>1
    DEF Entering, stackVars, EnterTimeout, EnterGate, EnterValidate, Descend, Ascend, RetryLayer
<1>4. \A i \in Recorders : i \in Nat /\ i # depth /\ entered'[i] = entered[i]
    BY <1>1, <1>2 DEF Entering, Setting, LayerTypes, Recorders
<1>5. LoopWaits'
    BY <1>2, <1>3 DEF LoopWaits, RecordInv, retryVars, vars, historyVars
<1>6. /\ \A i \in Recorders : Inside(i)' <=> Inside(i)
      /\ \A i \in Recorders : flow' = "down" /\ i >= depth' => flow = "down" /\ i >= depth
      /\ \A i \in Recorders : i > RetryLayer /\ Ahead(i)' => Ahead(i)
      /\ \A i \in Recorders : Seen(i)' => outcome' = "refused"
    BY <1>2, <1>3, <1>4 DEF Inside, Ahead, Seen
<1>7. attempt_number' = attempt_number
    BY <1>3 DEF retryVars, vars
<1>8. QED
    BY <1>3, <1>4, <1>5, <1>6, <1>7, QuietStep DEF Values

LEMMA EnterRetryRecords == ASSUME Setting, RecordInv, EnterRetry PROVE RecordInv'
<1>1. /\ flow = "down" /\ depth = RetryLayer
      /\ DOMAIN stack = 1..Len(stack) /\ Len(stack) \in Nat /\ RetryLayer \in DOMAIN stack
      /\ RetryLayer \notin Recorders
    BY RetryPlace DEF EnterRetry, Entering, At, Setting, LayerTypes
<1>2. /\ UNCHANGED <<stack, records, unrecorded, depth, outcome, retryVars>>
      /\ RetryLayer' = RetryLayer
      /\ flow' = "retry"
    BY DEF EnterRetry, Entering, stackVars, RetryLayer
<1>3. \A i \in Recorders : i \in Nat /\ entered'[i] = entered[i]
    BY <1>1 DEF EnterRetry, Entering, Setting, LayerTypes, Recorders
<1>4. UNCHANGED <<pc, attempt_number, lastOutcome>> /\ pc = "before" /\ lastOutcome = "none"
    BY <1>1, <1>2 DEF retryVars, vars, historyVars, RecordInv, LoopWaits
<1>5. LoopWaits'
    BY <1>1, <1>2 DEF LoopWaits
<1>6. /\ \A i \in Recorders : Inside(i)' <=> Inside(i)
      /\ \A i \in Recorders : i > RetryLayer /\ Ahead(i)' => Ahead(i)
      /\ \A i \in Recorders : ~Seen(i)'
    BY <1>1, <1>2, <1>3, <1>4 DEF Inside, Ahead, Seen
<1>7. QED
    BY <1>2, <1>3, <1>4, <1>5, <1>6, QuietStep

\* The function starts, ends, works, or is cancelled, as the sleep may be.
LEMMA FunctionRecords ==
    ASSUME Setting, RecordInv, StartFunction \/ FinishFunction \/ Deliver \/ Tick
    PROVE  RecordInv'
<1>1. /\ DOMAIN stack = 1..Len(stack) /\ Len(stack) \in Nat /\ RetryLayer \in DOMAIN stack
      /\ RetryLayer \notin Recorders
      /\ \A i \in Recorders : i \in DOMAIN stack
    BY RetryPlace DEF Setting, LayerTypes, Recorders
<1>2. /\ UNCHANGED <<stack, records, entered, unrecorded, attempt_number, lastOutcome>>
      /\ RetryLayer' = RetryLayer
    BY DEF StartFunction, FinishFunction, Deliver, Tick, stackVars, retryVars, vars, historyVars,
           Cancel, RetryLayer
<1>3. \/ UNCHANGED <<flow, depth, outcome, pc>>
      \/ /\ flow = "down" /\ depth = Function /\ flow' = "function"
         /\ UNCHANGED <<depth, outcome, pc>>
      \/ flow = "function" /\ flow' = "up" /\ depth' = depth - 1 /\ UNCHANGED pc
      \/ /\ flow = "retry" /\ depth = RetryLayer
         /\ flow' = "up" /\ depth' = depth - 1 /\ outcome' = "cancelled"
    <2>1. Asleep => depth = RetryLayer
        BY RetryPlace DEF Asleep, Setting, Control, LayerTypes, At
    <2>2. QED
        BY <2>1 DEF StartFunction, FinishFunction, Deliver, Tick, Asleep, Ascend,
                    retryVars, vars, historyVars
<1>4. (flow = "function" => depth = Len(stack) + 1) /\ Function = Len(stack) + 1
    BY DEF Setting, Control, Function
<1>5. LoopWaits'
    BY <1>1, <1>2, <1>3, <1>4 DEF LoopWaits, RecordInv
<1>6. /\ \A i \in Recorders : Inside(i)' <=> Inside(i)
      /\ \A i \in Recorders : flow' = "down" /\ i >= depth' => flow = "down" /\ i >= depth
      /\ \A i \in Recorders : i > RetryLayer /\ Ahead(i)' => Ahead(i)
      /\ \A i \in Recorders :
            Seen(i)' => outcome' = "cancelled" \/ (outcome' = outcome /\ Seen(i))
    BY <1>1, <1>2, <1>3, <1>4 DEF Inside, Ahead, Seen
<1>7. QED
    BY <1>2, <1>6, <1>5, QuietStep DEF Values

\* A layer between the recorders passes on the outcome, or replaces it by a failure
\* of its own.
LEMMA LeaveOthersRecords ==
    ASSUME Setting, RecordInv, LeaveTimeout \/ LeaveGate \/ LeaveValidate
    PROVE  RecordInv'
<1>1. PICK layer \in {"timeout", "env", "deprecated", "validate"} : Leaving(layer)
    BY DEF LeaveTimeout, LeaveGate, LeaveValidate
<1>2. /\ flow = "up" /\ depth \in DOMAIN stack /\ stack[depth] = layer
      /\ depth \notin Recorders /\ depth # RetryLayer
      /\ DOMAIN stack = 1..Len(stack) /\ Len(stack) \in Nat /\ RetryLayer \in DOMAIN stack
    BY <1>1, RetryPlace DEF Leaving, At, Recorders, Observers, Setting, LayerTypes
<1>3. /\ UNCHANGED <<stack, records, entered, unrecorded, retryVars>>
      /\ RetryLayer' = RetryLayer
      /\ flow' = "up" /\ depth' = depth - 1
      /\ outcome' \in {outcome, "FunctionTimedOut", "cancelled", "refused"}
    BY <1>1 DEF Leaving, stackVars, LeaveTimeout, LeaveGate, LeaveValidate, Ascend, RetryLayer
<1>4. \A i \in Recorders : i \in Nat /\ i # depth
    BY <1>2 DEF Recorders
<1>5. LoopWaits'
    BY <1>2, <1>3 DEF LoopWaits, RecordInv, retryVars, vars, historyVars
<1>6. /\ \A i \in Recorders : Inside(i)' <=> Inside(i)
      /\ \A i \in Recorders : i > RetryLayer /\ Ahead(i)' => Ahead(i)
      /\ \A i \in Recorders : Seen(i)' => Seen(i)
    BY <1>2, <1>3, <1>4 DEF Inside, Ahead, Seen
<1>7. attempt_number' = attempt_number
    BY <1>3 DEF retryVars, vars
<1>8. QED
    BY <1>3, <1>5, <1>6, <1>7, QuietStep DEF Values

\* An attempt comes back to the loop, or is cancelled.
LEMMA LeaveAttemptRecords == ASSUME Setting, RecordInv, LeaveAttempt PROVE RecordInv'
<1>1. /\ flow = "up" /\ depth = RetryLayer
      /\ DOMAIN stack = 1..Len(stack) /\ Len(stack) \in Nat /\ RetryLayer \in DOMAIN stack
      /\ RetryLayer \notin Recorders
      /\ \A i \in Recorders : i \in Nat
    BY RetryPlace DEF LeaveAttempt, Leaving, At, Setting, LayerTypes, Recorders
<1>2. /\ UNCHANGED <<stack, records, entered, unrecorded, attempt_number>>
      /\ RetryLayer' = RetryLayer
      /\ \/ flow' = "up" /\ depth' = depth - 1 /\ outcome' = "cancelled"
         \/ flow' = "retry" /\ pc' \notin {"before", "call"} /\ UNCHANGED <<depth, outcome>>
    BY DEF LeaveAttempt, Leaving, stackVars, RetryLayer, Cancel, CallFunction, RaiseFrom, Ascend
<1>3. LoopWaits'
    BY <1>1, <1>2 DEF LoopWaits
<1>4. /\ \A i \in Recorders : Inside(i)' <=> Inside(i)
      /\ \A i \in Recorders : i > RetryLayer /\ Ahead(i)' => Ahead(i)
      /\ \A i \in Recorders :
            Seen(i)' => outcome' = "cancelled" \/ (outcome' = outcome /\ Seen(i))
    BY <1>1, <1>2 DEF Inside, Ahead, Seen
<1>5. QED
    BY <1>2, <1>3, <1>4, QuietStep DEF Values

\* The loop itself: a new attempt number is one that no layer inside has been
\* entered for, and what the loop gives up with is the outcome of its latest attempt,
\* or of a hook.
LEMMA LoopRecords ==
    ASSUME Setting, RecordInv, Loop \/ Sleep \/ Attempt \/ LeaveRetry
    PROVE  RecordInv'
<1>1. /\ flow = "retry" /\ depth = RetryLayer
      /\ DOMAIN stack = 1..Len(stack) /\ Len(stack) \in Nat /\ RetryLayer \in DOMAIN stack
      /\ RetryLayer \notin Recorders
      /\ \A i \in Recorders : i \in Nat
      /\ UNCHANGED <<stack, records, entered, unrecorded>>
      /\ RetryLayer' = RetryLayer
    <2>1. flow = "retry" /\ UNCHANGED <<stack, records, entered, unrecorded>>
        BY DEF Loop, Sleep, Attempt, LeaveRetry, InLoop, stackVars
    <2>2. RetryLayer' = RetryLayer
        BY <2>1 DEF RetryLayer
    <2>3. stack \in Stacks /\ At("retry") /\ \A i \in Recorders : i \in DOMAIN stack
        BY <2>1 DEF Setting, Control, LayerTypes, Recorders
    <2>4. QED
        BY <2>1, <2>2, <2>3, RetryPlace DEF At
<1>2. CASE Loop
    <2>1. /\ UNCHANGED <<flow, depth, outcome, attempt_number, lastOutcome>>
          /\ pc' \in {"before", "call"} => pc \in {"before", "call"}
        BY <1>2 DEF Loop, BeforeAttempt, AfterSuccess, AfterFailure, Decide, RaiseFrom, historyVars
    <2>2. LoopWaits'
        BY <1>1, <2>1 DEF LoopWaits
    <2>3. /\ \A i \in Recorders : Inside(i)' <=> Inside(i)
          /\ \A i \in Recorders : i > RetryLayer /\ Ahead(i)' => Ahead(i)
          /\ \A i \in Recorders : Seen(i)' => Seen(i)
        BY <1>1, <2>1 DEF Inside, Ahead, Seen
    <2>4. QED
        BY <1>1, <2>1, <2>2, <2>3, QuietStep
<1>3. CASE Sleep
    <2>1. /\ UNCHANGED <<flow, depth, outcome, lastOutcome>>
          /\ \/ attempt_number' = attempt_number /\ pc' \notin {"before", "call"}
             \/ attempt_number' = attempt_number + 1
        BY <1>3 DEF Sleep, SleepAndRetry, RaiseFrom
    <2>2. LoopWaits'
        BY <1>1, <2>1 DEF LoopWaits
    <2>3. /\ \A i \in Recorders : Inside(i)' <=> Inside(i)
          /\ attempt_number' # attempt_number + 1 =>
               \A i \in Recorders : i > RetryLayer /\ Ahead(i)' => Ahead(i)
          /\ \A i \in Recorders : Seen(i)' => Seen(i)
        BY <1>1, <2>1 DEF Inside, Ahead, Seen
    <2>4. QED
        BY <1>1, <2>1, <2>2, <2>3, QuietStep
<1>4. CASE Attempt
    <2>1. /\ pc = "call" /\ flow' = "down" /\ depth' = depth + 1
          /\ UNCHANGED <<outcome, pc, attempt_number>>
        BY <1>4 DEF Attempt, Descend, retryVars, vars
    <2>2. LoopWaits'
        BY <1>1, <2>1 DEF LoopWaits
    <2>3. /\ \A i \in Recorders : Inside(i)' <=> Inside(i)
          /\ \A i \in Recorders : i >= depth' => i > RetryLayer
          /\ \A i \in Recorders : i > RetryLayer /\ Ahead(i)' => Ahead(i)
          /\ \A i \in Recorders : ~Seen(i)'
        BY <1>1, <2>1 DEF Inside, Ahead, Seen
    <2>4. QED
        BY <1>1, <2>1, <2>2, <2>3, QuietStep
<1>5. CASE LeaveRetry
    <2>1. /\ flow' = "up" /\ depth' = depth - 1
          /\ (outcome' = outcome /\ lastOutcome # "none") \/ outcome' = "hook"
          /\ UNCHANGED <<pc, attempt_number>>
        BY <1>5
        DEF LeaveRetry, Ascend, retryVars, vars, Setting, IInv, LatestOutcome
    <2>2. LoopWaits'
        BY <1>1, <2>1 DEF LoopWaits
    <2>3. /\ \A i \in Recorders : Inside(i)' <=> Inside(i)
          /\ \A i \in Recorders : i > RetryLayer /\ Ahead(i)' => Ahead(i)
          /\ \A i \in Recorders : Seen(i)' => outcome' = "hook" \/ (outcome' = outcome /\ Seen(i))
        BY <1>1, <2>1 DEF Inside, Ahead, Seen
    <2>4. QED
        BY <1>1, <2>1, <2>2, <2>3, QuietStep DEF Values
<1>6. QED
    BY <1>2, <1>3, <1>4, <1>5

LEMMA ReturnRecords ==
    ASSUME Setting, RecordInv, Return \/ CallDone \/ UNCHANGED callVars
    PROVE  RecordInv'
<1>1. /\ UNCHANGED <<stack, records, entered, unrecorded, depth, outcome, pc, attempt_number,
                     lastOutcome>>
      /\ RetryLayer' = RetryLayer
      /\ UNCHANGED flow \/ (flow = "up" /\ depth = 0 /\ flow' = "done")
    BY DEF Return, CallDone, callVars, stackVars, retryVars, vars, historyVars, RetryLayer
<1>2. LoopWaits'
    BY <1>1 DEF LoopWaits, RecordInv
<1>3. /\ \A i \in Recorders : Inside(i)' <=> Inside(i)
      /\ \A i \in Recorders : flow' = "down" => flow = "down"
      /\ \A i \in Recorders : i > RetryLayer /\ Ahead(i)' => Ahead(i)
      /\ \A i \in Recorders : Seen(i)' => Seen(i)
    BY <1>1 DEF Inside, Ahead, Seen
<1>4. QED
    BY <1>1, <1>2, <1>3, QuietStep

\* A recorder is entered: once more than it has ended.
LEMMA EnterRecorder ==
    ASSUME Setting, RecordInv, EnterLog \/ EnterMeasure
    PROVE  RecordInv'
<1>1. /\ flow = "down" /\ depth \in DOMAIN stack /\ stack[depth] \in {"log", "measure"}
      /\ entered' = [entered EXCEPT ![depth] = @ + 1]
      /\ flow' = "down" /\ depth' = depth + 1
      /\ UNCHANGED <<stack, outcome, unrecorded, pc, attempt_number, lastOutcome>>
    BY DEF EnterLog, EnterMeasure, Entering, At, Descend, stackVars, retryVars, vars, historyVars
<1>2. /\ DOMAIN stack = 1..Len(stack) /\ Len(stack) \in Nat /\ RetryLayer \in DOMAIN stack
      /\ RetryLayer \notin Recorders
      /\ depth \in Recorders
      /\ \A i \in Recorders : i \in DOMAIN stack
    BY <1>1, RetryPlace DEF Setting, LayerTypes, Recorders, Observers
<1>3. Recorders' = Recorders /\ RetryLayer' = RetryLayer
    BY <1>1 DEF Recorders, RetryLayer
<1>4. /\ attempt_number \in Nat
      /\ \A i \in Recorders : /\ entered[i] \in Nat
                              /\ records[i] \in Events
                              /\ entered'[i] = IF i = depth THEN entered[i] + 1 ELSE entered[i]
    BY <1>1, <1>2 DEF Setting, LayerTypes, IInv, TypeOK
<1>5. LoopWaits'
    BY <1>1, <1>2, <1>3 DEF RecordInv, LoopWaits
<1>6. EnteredPerRound'
    <2>1. SUFFICES ASSUME NEW i \in Recorders
                   PROVE  entered'[i] <= IF i < RetryLayer
                            THEN IF i >= depth + 1 THEN 0 ELSE 1
                            ELSE IF i >= depth + 1 THEN attempt_number - 1 ELSE attempt_number
        BY <1>1, <1>3 DEF EnteredPerRound, Ahead
    <2>2. entered[i] <= IF i < RetryLayer
                        THEN IF i >= depth THEN 0 ELSE 1
                        ELSE IF i >= depth THEN attempt_number - 1 ELSE attempt_number
        BY <1>1 DEF RecordInv, EnteredPerRound, Ahead
    <2>3. i \in Nat /\ depth \in Nat /\ RetryLayer \in Nat
        BY <1>2
    <2>4. QED
        BY <1>4, <2>2, <2>3
<1>7. EndsCounted'
    <2>1. SUFFICES ASSUME NEW i \in Recorders
                   PROVE  /\ Len(Ends(i)') + (IF Inside(i)' THEN 1 ELSE 0) <= entered'[i]
                          /\ i \notin unrecorded =>
                                Len(Ends(i)') + (IF Inside(i)' THEN 1 ELSE 0) = entered'[i]
                          /\ stack[i] = "log" => records'[i].started = entered'[i]
        BY <1>1, <1>3 DEF EndsCounted
    <2>2. /\ Len(Ends(i)) + (IF Inside(i) THEN 1 ELSE 0) <= entered[i]
          /\ i \notin unrecorded => Len(Ends(i)) + (IF Inside(i) THEN 1 ELSE 0) = entered[i]
          /\ stack[i] = "log" => records[i].started = entered[i]
        BY <2>1 DEF RecordInv, EndsCounted
    <2>3. /\ Ends(i)' = Ends(i) /\ Len(Ends(i)) \in Nat
          /\ stack[i] = "log" => records'[i].started = IF i = depth THEN records[i].started + 1
                                                       ELSE records[i].started
        <3>1. CASE EnterLog
            <4>1. records' = [records EXCEPT ![depth] = [records[depth] EXCEPT !.started = @ + 1]]
                BY <3>1 DEF EnterLog
            <4>2. records \in [DOMAIN stack -> Events]
                BY DEF Setting, LayerTypes
            <4>3. /\ i = depth => records'[i] = [records[i] EXCEPT !.started = @ + 1]
                  /\ i # depth => records'[i] = records[i]
                BY <1>2, <2>1, <4>1, <4>2
            <4>4. QED
                BY <1>4, <2>1, <4>3 DEF Ends, Events
        <3>2. CASE EnterMeasure
            BY <1>1, <1>4, <2>1, <3>2 DEF EnterMeasure, Entering, At, Ends, Events
        <3>3. QED
            BY <3>1, <3>2
    <2>4. /\ i = depth => ~Inside(i) /\ Inside(i)'
          /\ i # depth => (Inside(i)' <=> Inside(i))
        BY <1>1, <1>2, <2>1 DEF Inside
    <2>5. QED
        BY <1>4, <2>1, <2>2, <2>3, <2>4
<1>8. OutcomeTold'
    BY <1>1 DEF OutcomeTold, Seen
<1>9. QED
    BY <1>5, <1>6, <1>7, <1>8 DEF RecordInv

\* A recorder is left, with or without a record of the outcome.
LEMMA LeaveRecorder ==
    ASSUME Setting, RecordInv, LeaveLog \/ LeaveMeasure
    PROVE  RecordInv'
<1>1. /\ flow = "up" /\ depth \in DOMAIN stack /\ stack[depth] \in {"log", "measure"}
      /\ flow' = "up" /\ depth' = depth - 1
      /\ UNCHANGED <<stack, entered, pc, attempt_number, lastOutcome>>
      /\ \/ RecordOutcome
         \/ /\ unrecorded' = unrecorded \cup {depth} /\ UNCHANGED records
            /\ outcome' \in {"hook", "cancelled"}
    BY DEF LeaveLog, LeaveMeasure, Leaving, At, RecordOutcome, PassCancelled, Spoil, Ascend,
           stackVars, retryVars, vars, historyVars
<1>2. /\ DOMAIN stack = 1..Len(stack) /\ Len(stack) \in Nat /\ RetryLayer \in DOMAIN stack
      /\ RetryLayer \notin Recorders
      /\ depth \in Recorders
      /\ \A i \in Recorders : i \in DOMAIN stack
    BY <1>1, RetryPlace DEF Setting, LayerTypes, Recorders, Observers
<1>3. Recorders' = Recorders /\ RetryLayer' = RetryLayer
    BY <1>1 DEF Recorders, RetryLayer
<1>4. \A i \in Recorders : entered[i] \in Nat /\ records[i] \in Events
    BY <1>2 DEF Setting, LayerTypes
<1>5. LoopWaits' /\ EnteredPerRound'
    BY <1>1, <1>2, <1>3 DEF RecordInv, LoopWaits, EnteredPerRound, Ahead
<1>6. /\ \A i \in Recorders : i = depth => Inside(i) /\ ~Inside(i)'
      /\ \A i \in Recorders \ {depth} : Inside(i)' <=> Inside(i)
      /\ \A i \in Recorders \ {depth} : Seen(i)' => Seen(i)
    BY <1>1, <1>2 DEF Inside, Seen
<1>7. CASE RecordOutcome
    <2> DEFINE end == IF outcome \in Values THEN "finished" ELSE "failed"
    <2>1. /\ records' = [records EXCEPT ![depth].ends = Append(@, end)]
          /\ UNCHANGED <<outcome, unrecorded>>
        BY <1>7 DEF RecordOutcome, RecordEnd, Ascend
    <2>2. ASSUME NEW i \in Recorders
          PROVE  /\ i = depth => Ends(i)' = Append(Ends(i), end)
                 /\ i # depth => Ends(i)' = Ends(i)
                 /\ records'[i].started = records[i].started
        <3>1. records' = [records EXCEPT ![depth] =
                             [records[depth] EXCEPT !.ends = Append(@, end)]]
            BY <2>1
        <3>2. records \in [DOMAIN stack -> Events]
            BY DEF Setting, LayerTypes
        <3>3. /\ i = depth => records'[i] = [records[i] EXCEPT !.ends = Append(@, end)]
              /\ i # depth => records'[i] = records[i]
            BY <1>2, <2>2, <3>1, <3>2
        <3>4. QED
            BY <1>4, <2>2, <3>3 DEF Ends, Events
    <2>3. \A i \in Recorders : Ends(i) \in Seq({"finished", "failed"}) /\ Len(Ends(i)) \in Nat
        BY <1>4 DEF Ends, Events
    <2>4. \A i \in Recorders : i = depth =>
            Len(Ends(i)') = Len(Ends(i)) + 1 /\ EndedWith(i, end)'
        <3>1. SUFFICES ASSUME NEW i \in Recorders, i = depth
                       PROVE  Len(Ends(i)') = Len(Ends(i)) + 1 /\ EndedWith(i, end)'
            OBVIOUS
        <3>2. UNCHANGED end
            BY <2>1
        <3>3. Ends(i)' = Append(Ends(i), end) /\ Ends(i) \in Seq({"finished", "failed"})
            BY <2>2, <2>3, <3>1
        <3>4. QED
            BY <3>2, <3>3 DEF EndedWith
    <2>5. EndsCounted'
        <3>1. SUFFICES ASSUME NEW i \in Recorders
              PROVE  /\ Len(Ends(i)') + (IF Inside(i)' THEN 1 ELSE 0) <= entered[i]
                     /\ i \notin unrecorded =>
                           Len(Ends(i)') + (IF Inside(i)' THEN 1 ELSE 0) = entered[i]
                     /\ stack[i] = "log" => records'[i].started = entered[i]
            BY <1>1, <1>3, <2>1 DEF EndsCounted
        <3>2. /\ Len(Ends(i)) + (IF Inside(i) THEN 1 ELSE 0) <= entered[i]
              /\ i \notin unrecorded => Len(Ends(i)) + (IF Inside(i) THEN 1 ELSE 0) = entered[i]
              /\ stack[i] = "log" => records[i].started = entered[i]
            BY <3>1 DEF RecordInv, EndsCounted
        <3>3. CASE i = depth
            BY <1>4, <1>6, <2>2, <2>3, <2>4, <3>1, <3>2, <3>3
        <3>4. CASE i # depth
            BY <1>6, <2>2, <3>1, <3>2, <3>4
        <3>5. QED
            BY <3>3, <3>4
    <2>6. OutcomeTold'
        <3>1. SUFFICES ASSUME NEW i \in Recorders, Seen(i)'
              PROVE  /\ outcome \in Values /\ i \notin unrecorded => EndedWith(i, "finished")'
                     /\ outcome \in Values /\ i < RetryLayer => Ends(i)' = <<"finished">>
                     /\ outcome = "transient" /\ i \notin unrecorded => EndedWith(i, "failed")'
            BY <1>1, <1>3, <2>1 DEF OutcomeTold
        <3>2. CASE i = depth
            <4>1. outcome \in Values => end = "finished"
                OBVIOUS
            <4>2. outcome = "transient" => end = "failed"
                BY DEF Values
            <4>3. i < RetryLayer => Ends(i) = << >>
                <5>1. i < RetryLayer => entered[i] <= 1
                    BY <1>1, <1>4, <3>1, <3>2 DEF RecordInv, EnteredPerRound
                <5>2. Len(Ends(i)) + 1 <= entered[i]
                    BY <1>6, <3>1, <3>2 DEF RecordInv, EndsCounted
                <5>3. QED
                    BY <1>4, <2>3, <3>1, <5>1, <5>2
            <4>4. Ends(i)' = Append(Ends(i), end) /\ EndedWith(i, end)'
                BY <2>2, <2>4, <3>1, <3>2
            <4>5. i < RetryLayer => Ends(i)' = <<end>>
                BY <4>3, <4>4
            <4>6. UNCHANGED end
                BY <2>1
            <4>7. QED
                BY <4>1, <4>2, <4>4, <4>5, <4>6 DEF EndedWith
        <3>3. CASE i # depth
            <4>1. Seen(i) /\ Ends(i)' = Ends(i)
                BY <1>6, <2>2, <3>1, <3>3
            <4>2. QED
                BY <3>1, <4>1 DEF RecordInv, OutcomeTold, EndedWith
        <3>4. QED
            BY <3>2, <3>3
    <2>7. QED
        BY <1>5, <2>5, <2>6 DEF RecordInv
<1>8. CASE /\ unrecorded' = unrecorded \cup {depth} /\ UNCHANGED records
           /\ outcome' \in {"hook", "cancelled"}
    <2>1. \A i \in Recorders : Ends(i)' = Ends(i) /\ Len(Ends(i)) \in Nat
        BY <1>4, <1>8 DEF Ends, Events
    <2>2. EndsCounted'
        BY <1>1, <1>2, <1>3, <1>4, <1>6, <1>8, <2>1 DEF RecordInv, EndsCounted
    <2>3. OutcomeTold'
        BY <1>8 DEF OutcomeTold, Values
    <2>4. QED
        BY <1>5, <2>2, <2>3 DEF RecordInv
<1>9. QED
    BY <1>1, <1>7, <1>8

LEMMA NextRecordInv == Setting /\ RecordInv /\ [CallNext]_callVars => RecordInv'
BY EnterRecorder, EnterOthersRecords, EnterRetryRecords, FunctionRecords, LeaveRecorder,
   LeaveOthersRecords, LeaveAttemptRecords, LoopRecords, ReturnRecords
DEF CallNext, CallStep

\* For every stack: above retry an observer has at most one record of the call, below
\* it one per attempt; none is missing or says anything else than what the observer
\* let through, unless a hook or a cancellation has robbed it of one.
THEOREM CallRecordsMatch == CallSpec => []RecordsMatchCalls
<1>1. Setting /\ RecordInv => RecordsMatchCalls
    <2>1. SUFFICES ASSUME Setting, RecordInv, NEW i \in Recorders
          PROVE  /\ Len(Ends(i)) <= IF i < RetryLayer THEN 1 ELSE attempt_number
                 /\ flow = "done" /\ i \notin unrecorded => Len(Ends(i)) = entered[i]
                 /\ flow = "done" /\ stack[i] = "log" => records[i].started = entered[i]
                 /\ flow = "done" /\ outcome \in Values =>
                      /\ i \notin unrecorded => EndedWith(i, "finished")
                      /\ i < RetryLayer => Ends(i) = <<"finished">>
                 /\ flow = "done" /\ outcome = "transient" /\ i \notin unrecorded =>
                      EndedWith(i, "failed")
        BY DEF RecordsMatchCalls, Recorders
    <2>2. /\ i \in Nat /\ i >= 1 /\ entered[i] \in Nat /\ Len(Ends(i)) \in Nat
          /\ attempt_number \in Nat
        <3>1. stack \in Stacks /\ i \in DOMAIN stack /\ records[i] \in Events
            BY <2>1 DEF Setting, LayerTypes, Recorders
        <3>2. i \in Nat /\ i >= 1
            BY <3>1, RetryPlace
        <3>3. QED
            BY <2>1, <3>1, <3>2 DEF Setting, LayerTypes, Ends, Events, IInv, TypeOK
    <2>3. entered[i] <= IF i < RetryLayer THEN 1 ELSE attempt_number
        BY <2>1, <2>2 DEF RecordInv, EnteredPerRound
    <2>4. Len(Ends(i)) <= entered[i]
        BY <2>1, <2>2 DEF RecordInv, EndsCounted
    <2>5. flow = "done" => depth = 0 /\ ~Inside(i) /\ Seen(i)
        BY <2>1, <2>2 DEF Setting, Control, Inside, Seen
    <2>6. QED
        BY <2>1, <2>2, <2>3, <2>4, <2>5 DEF RecordInv, EndsCounted, OutcomeTold
<1>2. LayerTypes /\ CallInv /\ IInv => Setting
    BY DEF Setting, CallInv
<1>3. CallInv => Control
    BY DEF CallInv
<1>4. CallSpec => []IInv
    BY CallImplementsRetry, SpecInv, PTL
<1>5. CallSpec => []Setting
    BY InitTypes, NextTypes, CallInvHolds, <1>2, <1>3, <1>4, PTL DEF CallSpec
<1>6. QED
    BY InitRecordInv, NextRecordInv, <1>1, <1>5, PTL DEF CallSpec
=============================================================================
