--------------------------- MODULE DecoratedCall ---------------------------
(***************************************************************************)
(* One call of a function under a stack of decorators: retry in the middle *)
(* of log_calls, measure_time, timeout, validate_types, require_env and    *)
(* deprecated (src/pydecorators/, one file each), in the orders            *)
(* docs/composition.md discusses.  Control goes down the stack to the      *)
(* function and comes up again with an outcome that every layer may        *)
(* record, replace or, at retry, answer with another attempt.              *)
(*                                                                         *)
(* The async wrappers are modelled: time passes while the function or a    *)
(* sleep is awaited, a timeout or the caller may cancel the call there,    *)
(* and the function may resist.  The sync wrappers are the same without    *)
(* timeouts and cancellation.                                              *)
(***************************************************************************)
EXTENDS Retry, FiniteSets

CONSTANTS
    Stacks,         \* sequences of layers, the outermost first
    Matching,       \* the outcomes retry's `exceptions` match
    Seconds,        \* seconds, of every timeout
    MaxWork         \* bound: ticks between two steps of the function

Observers == {"log", "measure"}
Gates == {"env", "deprecated", "validate"}
Layers == Observers \cup Gates \cup {"timeout", "retry"}

Values == {"value", "odd"}      \* "odd": not of the annotated return type
Errors == {"transient", "fatal", "TimeoutError", "FunctionTimedOut", "refused", "hook"}
Outcomes == Values \cup Errors \cup {"cancelled"}

\* _validate_timeout_config, for whole numbers.
ValidSeconds == Seconds \in Nat \ {0}

ASSUME CallAssumption ==
    /\ \A s \in Stacks : /\ s \in Seq(Layers)
                         /\ \E r \in DOMAIN s : \A i \in DOMAIN s : s[i] = "retry" <=> i = r
    /\ Matching \subseteq Errors
    /\ ValidSeconds /\ MaxWork \in Nat

VARIABLES
    stack,          \* the decorators of this function
    arguments,      \* whether the arguments have their annotated types
    flow,           \* the direction of control
    depth,          \* the layer it is at; 0 is the caller, Function the function
    outcome,        \* the result or exception that goes up
    now, since,     \* the time, and when the function or the sleep began
    start,          \* when each layer was entered
    spent,          \* timeouts that have cancelled the call; 0 for the caller
    overruled,      \* timeouts inside which a cancellation from outside was swallowed
    records,        \* what each log_calls or measure_time layer has recorded: how many
                    \* starts, and the ends
    entered,        \* history: how often each layer was entered
    unrecorded,     \* history: layers that kept no record of an outcome
    resisted        \* history: whether the function blocked or swallowed a cancellation

retryVars == vars
stackVars == <<stack, arguments>>
callVars == <<retryVars, stackVars, flow, depth, outcome, now, since, start, spent, overruled,
              records, entered, unrecorded, resisted>>

Function == Len(stack) + 1
RetryLayer == CHOOSE i \in DOMAIN stack : stack[i] = "retry"

CallInit ==
    /\ Init
    /\ stack \in Stacks
    /\ arguments \in {"valid", "invalid"}
    /\ flow = "down" /\ depth = 1
    /\ outcome = "value"
    /\ now = 0 /\ since = 0
    /\ start = [i \in DOMAIN stack |-> 0]
    /\ spent = {} /\ overruled = {}
    /\ records = [i \in DOMAIN stack |-> [started |-> 0, ends |-> << >>]]
    /\ entered = [i \in DOMAIN stack |-> 0]
    /\ unrecorded = {} /\ resisted = "no"

Descend == flow' = "down" /\ depth' = depth + 1 /\ UNCHANGED outcome

\* Hand an outcome to the layer outside.
Ascend(result) == flow' = "up" /\ depth' = depth - 1 /\ outcome' = result

-----------------------------------------------------------------------------
(* On the way down *)

At(layer) == depth \in DOMAIN stack /\ stack[depth] = layer
Entering(layer) ==
    /\ flow = "down" /\ At(layer)
    /\ start' = [start EXCEPT ![depth] = now]
    /\ entered' = [entered EXCEPT ![depth] = @ + 1]
    /\ UNCHANGED <<stackVars, now, since, unrecorded, resisted>>

RecordEnd(what) == records' = [records EXCEPT ![depth].ends = Append(@, what)]

EnterLog ==
    /\ Entering("log")
    /\ records' = [records EXCEPT ![depth].started = @ + 1]
    /\ Descend
    /\ UNCHANGED <<retryVars, spent, overruled>>

EnterMeasure ==
    /\ Entering("measure")
    /\ Descend
    /\ UNCHANGED <<retryVars, spent, overruled, records>>

\* A new wait_for: its time starts now.
EnterTimeout ==
    /\ Entering("timeout")
    /\ spent' = spent \ {depth}
    /\ overruled' = overruled \ {depth}
    /\ Descend
    /\ UNCHANGED <<retryVars, records>>

\* The environment is read, and the warning given, at every call: either may
\* let one attempt pass and refuse the next.
EnterGate ==
    /\ \E layer \in {"env", "deprecated"} : Entering(layer)
    /\ Descend \/ Ascend("refused")
    /\ UNCHANGED <<retryVars, spent, overruled, records>>

EnterValidate ==
    /\ Entering("validate")
    /\ IF arguments = "valid" THEN Descend ELSE Ascend("refused")
    /\ UNCHANGED <<retryVars, spent, overruled, records>>

EnterRetry ==
    /\ Entering("retry")
    /\ flow' = "retry"
    /\ UNCHANGED <<retryVars, depth, outcome, spent, overruled, records>>

-----------------------------------------------------------------------------
(* The function *)

StartFunction ==
    /\ flow = "down" /\ depth = Function
    /\ flow' = "function"
    /\ since' = now
    /\ UNCHANGED <<retryVars, stackVars, depth, outcome, now, start, spent, overruled, records,
                   entered, unrecorded, resisted>>

\* It returns or raises; a TimeoutError may be its own.
FinishFunction ==
    /\ flow = "function"
    /\ \E result \in {"value", "odd", "transient", "fatal", "TimeoutError"} : Ascend(result)
    /\ UNCHANGED <<retryVars, stackVars, now, since, start, spent, overruled, records, entered,
                   unrecorded, resisted>>

\* Timeouts the control is inside of and whose time is over.
Due ==
    {i \in DOMAIN stack : /\ stack[i] = "timeout" /\ i < depth
                          /\ i \notin spent
                          /\ now >= start[i] + Seconds}
Asleep == flow = "retry" /\ pc = "sleep"

\* The event loop delivers what is due, or the caller's cancellation, to what the
\* call awaits: to the sleep, or to the function, which gives up, or resists
\* (suppresses it, or goes on with a clean-up that ends as it likes).
Deliver ==
    \E cancelling \in {Due, Due \cup {0}} :
        /\ ~(cancelling \subseteq spent)
        /\ spent' = spent \cup cancelling
        /\ \/ Asleep /\ Cancel /\ Ascend("cancelled") /\ UNCHANGED <<since, overruled, resisted>>
           \/ /\ flow = "function"
              /\ Ascend("cancelled")
              /\ UNCHANGED <<retryVars, since, overruled, resisted>>
           \/ /\ flow = "function"
              /\ resisted' = "yes"
              /\ overruled' = overruled \cup
                    {i \in DOMAIN stack : stack[i] = "timeout" /\ \E j \in cancelling : j < i}
              /\ since' = now
              /\ UNCHANGED <<retryVars, flow, depth, outcome>>
        /\ UNCHANGED <<stackVars, now, start, records, entered, unrecorded>>

\* Time passes in the function and in sleeps; past a deadline only while the
\* function blocks the event loop, which cannot deliver anything then.
Tick ==
    /\ \/ flow = "function" /\ now < since + MaxWork
       \/ Asleep /\ Due = {} /\ now < since + current_delay + Jitter
    /\ now' = now + 1
    /\ resisted' = IF Due = {} THEN resisted ELSE "yes"
    /\ UNCHANGED <<retryVars, stackVars, flow, depth, outcome, since, start, spent, overruled,
                   records, entered, unrecorded>>

-----------------------------------------------------------------------------
(* On the way up *)

Leaving(layer) ==
    /\ flow = "up" /\ At(layer)
    /\ UNCHANGED <<stackVars, now, since, start, spent, overruled, entered, resisted>>

\* A summarizer, a callback or a metrics hook raises in place of the record, or
\* before all of it is out; its exception replaces the outcome.
Spoil ==
    /\ HooksRaise
    /\ unrecorded' = unrecorded \cup {depth}
    /\ Ascend("hook")
    /\ UNCHANGED records

\* CancelledError is no Exception and passes the except clauses of the observers.
PassCancelled ==
    /\ outcome = "cancelled"
    /\ unrecorded' = unrecorded \cup {depth}
    /\ Ascend(outcome)
    /\ UNCHANGED records

RecordOutcome ==
    /\ outcome # "cancelled"
    /\ RecordEnd(IF outcome \in Values THEN "finished" ELSE "failed")
    /\ Ascend(outcome)
    /\ UNCHANGED unrecorded

\* Bug: the record of the end is written in a finally clause.
LeaveLog_Finally ==
    /\ Leaving("log")
    /\ \/ RecordEnd("finished") /\ Ascend(outcome) /\ UNCHANGED unrecorded
       \/ outcome \in Values /\ Spoil
    /\ UNCHANGED retryVars

\* Only a result is summarized.
LeaveLog ==
    /\ Leaving("log")
    /\ RecordOutcome \/ PassCancelled \/ (outcome \in Values /\ Spoil)
    /\ UNCHANGED retryVars

LeaveMeasure ==
    /\ Leaving("measure")
    /\ RecordOutcome \/ PassCancelled \/ (outcome # "cancelled" /\ Spoil)
    /\ UNCHANGED retryVars

\* wait_for turns the cancellation it caused into a TimeoutError, unless another
\* one is still on its way further out; the wrapper turns every TimeoutError, the
\* function's own and that of a timeout inside, into its exception.  The wait_for of
\* Python 3.11 raises CancelledError again if what it waited for has swallowed it.
TimedOut ==
    \/ outcome \in {"TimeoutError", "FunctionTimedOut"}
    \/ outcome = "cancelled" /\ depth \in spent /\ \A i \in spent : i >= depth

LeaveTimeout ==
    /\ Leaving("timeout")
    /\ \/ Ascend(IF TimedOut THEN "FunctionTimedOut" ELSE outcome)
       \/ depth \in overruled /\ Ascend("cancelled")
    /\ UNCHANGED <<retryVars, records, unrecorded>>

LeaveGate ==
    /\ \E layer \in {"env", "deprecated"} : Leaving(layer)
    /\ Ascend(outcome)
    /\ UNCHANGED <<retryVars, records, unrecorded>>

\* _validate_return_value
LeaveValidate ==
    /\ Leaving("validate")
    /\ Ascend(IF outcome = "odd" THEN "refused" ELSE outcome)
    /\ UNCHANGED <<retryVars, records, unrecorded>>

\* Bug: retry catches every BaseException.
Class_CatchesAll(result) ==
    IF result \in Values THEN "value"
    ELSE IF result \in Matching \cup {"cancelled"} THEN "matching" ELSE "other"

Class(result) ==
    IF result \in Values THEN "value" ELSE IF result \in Matching THEN "matching" ELSE "other"

\* An attempt has come back to the loop; a cancellation leaves it.
LeaveAttempt ==
    /\ Leaving("retry")
    /\ \/ /\ outcome = "cancelled" /\ Class(outcome) = "other"
          /\ Cancel
          /\ Ascend(outcome)
       \/ /\ outcome # "cancelled" \/ Class(outcome) # "other"
          /\ CallFunction
          /\ lastOutcome' = Class(outcome)
          /\ flow' = "retry"
          /\ UNCHANGED <<depth, outcome>>
    /\ UNCHANGED <<records, unrecorded>>

Return ==
    /\ flow = "up" /\ depth = 0
    /\ flow' = "done"
    /\ UNCHANGED <<retryVars, stackVars, depth, outcome, now, since, start, spent, overruled,
                   records, entered, unrecorded, resisted>>

-----------------------------------------------------------------------------
(* The loop of retry *)

InLoop ==
    /\ flow = "retry"
    /\ UNCHANGED <<stackVars, now, start, spent, overruled, records, entered, unrecorded,
                   resisted>>

\* Hooks and predicate take no time.
Loop ==
    /\ InLoop
    /\ BeforeAttempt \/ AfterSuccess \/ AfterFailure \/ Decide
    /\ since' = now
    /\ UNCHANGED <<flow, depth, outcome>>

\* The sleep lasts as long as its argument says.
Sleep ==
    /\ InLoop
    /\ SleepAndRetry
    /\ pc' = "before" => sleeps'[Len(sleeps')] = now - since
    /\ UNCHANGED <<flow, depth, outcome, since>>

Attempt ==
    /\ InLoop
    /\ pc = "call"
    /\ Descend
    /\ UNCHANGED <<retryVars, since>>

LeaveRetry ==
    /\ InLoop
    /\ pc \in {"returned", "raised"}
    /\ Ascend(IF pc = "returned" \/ exc.from = "function" THEN outcome ELSE "hook")
    /\ UNCHANGED <<retryVars, since>>

CallStep ==
    \/ EnterLog \/ EnterMeasure \/ EnterTimeout \/ EnterGate \/ EnterValidate \/ EnterRetry
    \/ StartFunction \/ FinishFunction \/ Deliver \/ Tick
    \/ LeaveLog \/ LeaveMeasure \/ LeaveTimeout \/ LeaveGate \/ LeaveValidate \/ LeaveAttempt
    \/ Loop \/ Sleep \/ Attempt \/ LeaveRetry \/ Return

CallDone == flow = "done" /\ UNCHANGED callVars

CallNext == CallStep \/ CallDone

\* The function comes back, sleeps end and the event loop runs.
CallSpec == CallInit /\ [][CallNext]_callVars /\ WF_callVars(CallStep)

-----------------------------------------------------------------------------
(* Properties *)

Events == [started : Nat, ends : Seq({"finished", "failed"})]

\* The control is at a layer of the stack, and the variables of the loop and of the
\* layers have their types.
CallTypeOK ==
    /\ TypeOK
    /\ stack \in Stacks
    /\ flow \in {"down", "function", "up", "retry", "done"}
    /\ depth \in 0..Function
    /\ outcome \in Outcomes
    /\ now \in Nat /\ since \in 0..now
    /\ start \in [DOMAIN stack -> 0..now]
    /\ spent \subseteq 0..Len(stack) /\ overruled \subseteq DOMAIN stack
    /\ records \in [DOMAIN stack -> Events]
    /\ entered \in [DOMAIN stack -> Nat]
    /\ unrecorded \subseteq {i \in DOMAIN stack : stack[i] \in Observers}

\* docs/composition.md: log_calls and measure_time above retry give one record per
\* logical call, below it one per attempt.  Records of an observer that no hook
\* and no cancellation has robbed are complete and tell the outcome it let through.
Ends(i) == records[i].ends
EndedWith(i, what) == Ends(i) # << >> /\ Ends(i)[Len(Ends(i))] = what
RecordsMatchCalls ==
    \A i \in {j \in DOMAIN stack : stack[j] \in Observers} :
        /\ Len(Ends(i)) <= IF i < RetryLayer THEN 1 ELSE attempt_number
        /\ flow = "done" /\ i \notin unrecorded => Len(Ends(i)) = entered[i]
        /\ flow = "done" /\ stack[i] = "log" => records[i].started = entered[i]
        /\ flow = "done" /\ outcome \in Values =>
             /\ i \notin unrecorded => EndedWith(i, "finished")
             /\ i < RetryLayer => Ends(i) = <<"finished">>
        /\ flow = "done" /\ outcome = "transient" /\ i \notin unrecorded => EndedWith(i, "failed")

\* docs/composition.md: a timeout outside of retry is one deadline for the whole
\* operation, inside it one per attempt.  A call is past the deadline of a timeout it
\* is in only after the function has blocked or resisted, and FunctionTimedOut
\* leaves a timeout only after its time or for a TimeoutError from inside.
TimeoutsExact ==
    /\ resisted = "no" => \A i \in DOMAIN stack :
         stack[i] = "timeout" /\ i < depth => now <= start[i] + Seconds
    /\ flow = "up" /\ At("timeout") /\ TimedOut /\ outcome = "cancelled" =>
         now >= start[depth] + Seconds
    /\ flow = "done" /\ outcome = "cancelled" => 0 \in spent

\* Every call comes back to its caller.
CallReturns == <>(flow = "done")
=============================================================================
