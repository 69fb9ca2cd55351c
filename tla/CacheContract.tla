---------------------------- MODULE CacheContract ----------------------------
(***************************************************************************)
(* What the decorator may rely on from any CacheBackend: an atomic map     *)
(* that may forget entries (expiry, eviction, clear) but never invents,    *)
(* mixes up or brings back one, and statistics that count exactly the      *)
(* lookups since the last clear.  A remote backend may in addition forget  *)
(* at any time, and its calls may fail; what a failing call did not do it  *)
(* does not do later.  The backend protocol is                             *)
(* src/pydecorators/cache_result.py, class CacheBackend; the behaviour is  *)
(* the one its conformance tests share among the backends.                 *)
(***************************************************************************)
EXTENDS Integers, FiniteSets

CONSTANTS
    Clients, Keys, Contents,
    Remote      \* BOOLEAN: a service of its own keeps the entries

VARIABLES
    call,       \* call[c]: the request or the answer a client holds
    kept,       \* the entries: a function from the kept keys to contents
    found,      \* statistics: lookups answered by an entry
    missed      \* statistics: lookups that found none

vars == <<call, kept, found, missed>>

Idle == [op |-> "idle"]
Requests ==
    [op : {"get"}, key : Keys]
    \cup [op : {"set"}, key : Keys, content : Contents]
    \cup [op : {"clear", "info"}]

Init ==
    /\ call = [c \in Clients |-> Idle]
    /\ kept = [k \in {} |-> Idle]
    /\ found = 0
    /\ missed = 0

Keep(keys) == [k \in keys |-> kept[k]]
With(key, content) ==
    [k \in DOMAIN kept \cup {key} |-> IF k = key THEN content ELSE kept[k]]

Invoke(c) ==
    /\ call[c] = Idle
    /\ \E r \in Requests : call' = [call EXCEPT ![c] = r]
    /\ UNCHANGED <<kept, found, missed>>

\* A lookup is answered with what is kept now, or with a miss and nothing kept.
Lookup(c) ==
    /\ call[c].op = "get"
    /\ \/ /\ call[c].key \in DOMAIN kept
          /\ call' = [call EXCEPT ![c] = [op |-> "hit", content |-> kept[call[c].key]]]
          /\ found' = found + 1
          /\ UNCHANGED <<kept, missed>>
       \/ /\ call' = [call EXCEPT ![c] = [op |-> "miss"]]
          /\ kept' = Keep(DOMAIN kept \ {call[c].key})
          /\ missed' = missed + 1
          /\ UNCHANGED found

\* A write takes effect at once; it may push any other entries out, not itself.
Write(c) ==
    /\ call[c].op = "set"
    /\ \E pushedOut \in SUBSET (DOMAIN kept \ {call[c].key}) :
         kept' = [k \in (DOMAIN kept \cup {call[c].key}) \ pushedOut |->
                    With(call[c].key, call[c].content)[k]]
    /\ call' = [call EXCEPT ![c] = [op |-> "done"]]
    /\ UNCHANGED <<found, missed>>

Clear(c) ==
    /\ call[c].op = "clear"
    /\ kept' = Keep({})
    /\ found' = 0
    /\ missed' = 0
    /\ call' = [call EXCEPT ![c] = [op |-> "done"]]

\* info may forget, and reports the counters and the number of entries left.
Info(c) ==
    /\ call[c].op = "info"
    /\ \E left \in SUBSET DOMAIN kept :
         /\ kept' = Keep(left)
         /\ call' = [call EXCEPT ![c] =
                [op |-> "report", hits |-> found, misses |-> missed,
                 currsize |-> Cardinality(left)]]
    /\ UNCHANGED <<found, missed>>

Return(c) ==
    /\ call[c].op \in {"hit", "miss", "done", "report"}
    /\ call' = [call EXCEPT ![c] = Idle]
    /\ UNCHANGED <<kept, found, missed>>

\* The service drops entries whose time is over.
Forget ==
    /\ Remote
    /\ \E left \in SUBSET DOMAIN kept : kept' = Keep(left)
    /\ UNCHANGED <<call, found, missed>>

\* A call ends with an error of the service, before or after it took effect.
Abandon(c) ==
    /\ Remote
    /\ call[c] # Idle
    /\ call' = [call EXCEPT ![c] = Idle]
    /\ \E left \in SUBSET DOMAIN kept : kept' = Keep(left)
    /\ UNCHANGED <<found, missed>>

Next ==
    \/ \E c \in Clients :
         \/ Invoke(c) \/ Lookup(c) \/ Write(c) \/ Clear(c) \/ Info(c)
         \/ Return(c) \/ Abandon(c)
    \/ Forget

Spec == Init /\ [][Next]_vars
=============================================================================
