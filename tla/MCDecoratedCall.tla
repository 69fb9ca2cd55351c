-------------------------- MODULE MCDecoratedCall --------------------------
(* Instances of DecoratedCall for TLC: see the decorated_*.cfg files. *)
EXTENDS DecoratedCall, TLC

\* The orders docs/composition.md discusses, and every gate on both sides of retry.
ComposedStacks == {
    <<"measure", "log", "retry", "validate">>,
    <<"log", "timeout", "retry", "measure">>,
    <<"retry", "timeout", "log">>,
    <<"timeout", "measure", "retry", "timeout">>,
    <<"deprecated", "env", "retry", "log">>,
    <<"validate", "measure", "retry", "env", "deprecated">>}

Transient == {"transient", "TimeoutError", "FunctionTimedOut"}
=============================================================================
